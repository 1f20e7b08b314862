----------------------------- MODULE Lifecycle -----------------------------
(***************************************************************************)
(* One process from start to exit: main builds the application, Run starts *)
(* the modules and serves until a signal or a server failure, then drains  *)
(* the HTTP server, stops the modules in reverse order and closes the two  *)
(* pools.  Workers, the recovery loop, request handlers and the server are *)
(* goroutines of their own, and the two deadlines of the shutdown may pass *)
(* at any moment.                                                          *)
(*                                                                         *)
(* Of the registered modules only two can be started and stopped.  Neither *)
(* fails to start today; that Start may fail is the contract of            *)
(* StartableModule, for which the registry has its rollback.               *)
(***************************************************************************)
EXTENDS Naturals, Sequences

CONSTANTS Workers, Requests,
          MayFail     \* the steps of main that may return an error

Modules == <<"worker", "recovery">>
Sweeper == "sweeper"

BuildSteps == {"config", "postgres", "redis", "compose", "routes"}

ASSUME LifecycleAssumption == /\ MayFail \subseteq BuildSteps \cup {"worker", "recovery"}
                              /\ Workers \cap Requests = {}
                              /\ Sweeper \notin Workers \cup Requests

VARIABLES main,       \* where main is
          at,         \* position of the loop over Modules
          pg, redis,  \* the pools: "none", "open", "closing", "closed"
          held,       \* goroutines that have a PostgreSQL connection
          server,     \* the HTTP server
          on,         \* modules that are started
          cancelled,  \* modules whose context is cancelled
          wk,         \* runWorker of each worker goroutine
          sweep,      \* the goroutine of the recovery service
          req,        \* request handlers
          drainOver, graceOver,  \* httpCtx, shutdownCtx are past their deadline
          errs,       \* errors that Run has collected
          faults      \* history: what has really gone wrong

poolVars == <<pg, redis>>
moduleVars == <<on, cancelled>>
timeVars == <<drainOver, graceOver>>
reportVars == <<errs, faults>>
vars == <<main, at, poolVars, held, server, moduleVars, wk, sweep, req, timeVars, reportVars>>

Goroutines == Workers \cup Requests \cup {Sweeper}
Ended == main \in {"exited", "panicked"}
ShuttingDown == main \in {"drain", "stop", "stopWait", "closePg", "closeRedis"}
Alive(w) == wk[w] \notin {"none", "gone"}

TypeOK == /\ main \in BuildSteps \cup {"start", "rollback", "rollbackWait", "running",
                         "drain", "stop", "stopWait", "closePg", "closeRedis",
                         "exited", "panicked"}
          /\ at \in 0..(Len(Modules) + 1)
          /\ pg \in {"none", "open", "closing", "closed"}
          /\ redis \in {"none", "open", "closed"}
          /\ held \subseteq Goroutines
          /\ server \in {"none", "starting", "listening", "failed", "closed"}
          /\ on \in [{"worker", "recovery"} -> BOOLEAN]
          /\ cancelled \in [{"worker", "recovery"} -> BOOLEAN]
          /\ wk \in [Workers -> {"none", "poll", "claim", "wait", "job", "gone"}]
          /\ sweep \in {"none", "wait", "sweep", "gone"}
          /\ req \in [Requests -> {"none", "open", "done"}]
          /\ drainOver \in BOOLEAN /\ graceOver \in BOOLEAN
          /\ errs \subseteq {"start", "serve", "drain", "modules", "redis"}
          /\ faults \subseteq MayFail \cup {"serve", "drain", "listener", "modules", "close"}

Init == /\ main = "config" /\ at = 1
        /\ pg = "none" /\ redis = "none" /\ held = {}
        /\ server = "none"
        /\ on = [m \in {"worker", "recovery"} |-> FALSE]
        /\ cancelled = [m \in {"worker", "recovery"} |-> FALSE]
        /\ wk = [w \in Workers |-> "none"]
        /\ sweep = "none"
        /\ req = [r \in Requests |-> "none"]
        /\ drainOver = FALSE /\ graceOver = FALSE
        /\ errs = {} /\ faults = {}

-----------------------------------------------------------------------------
(* BuildApplication: configuration, PostgreSQL, Redis, modules; then the   *)
(* routes that Run registers.                                              *)
Proceed(step, next) == main = step /\ main' = next /\ UNCHANGED faults

LoadConfigs == /\ Proceed("config", "postgres")
               /\ UNCHANGED <<at, poolVars, held, server, moduleVars, wk, sweep, req,
                              timeVars, errs>>

CreatePostgresPool == /\ Proceed("postgres", "redis")
                      /\ pg' = "open"
                      /\ UNCHANGED <<at, redis, held, server, moduleVars, wk, sweep,
                                     req, timeVars, errs>>

ConnectToRedis == /\ Proceed("redis", "compose")
                  /\ redis' = "open"
                  /\ UNCHANGED <<at, pg, held, server, moduleVars, wk, sweep, req,
                                 timeVars, errs>>

ComposeModules == /\ Proceed("compose", "routes")
                  /\ UNCHANGED <<at, poolVars, held, server, moduleVars, wk, sweep, req,
                                 timeVars, errs>>

RegisterRoutes == /\ Proceed("routes", "start")
                  /\ UNCHANGED <<at, poolVars, held, server, moduleVars, wk, sweep, req,
                                 timeVars, errs>>

(* An error before the modules are started ends main.  Only a failure to   *)
(* compose the modules closes the pools first.                             *)
BuildFails == /\ main \in BuildSteps \cap MayFail
              /\ main' = "panicked"
              /\ faults' = faults \cup {main}
              /\ IF main = "compose" THEN pg' = "closed" /\ redis' = "closed"
                                     ELSE UNCHANGED poolVars
              /\ UNCHANGED <<at, held, server, moduleVars, wk, sweep, req, timeVars, errs>>

-----------------------------------------------------------------------------
(* Registry.Start: each Startable module in order.                         *)
StartWorkers == /\ on' = [on EXCEPT !["worker"] = TRUE]
                /\ wk' = [w \in Workers |-> "poll"]
                /\ UNCHANGED sweep

StartRecovery == /\ on' = [on EXCEPT !["recovery"] = TRUE]
                 /\ sweep' = "wait"
                 /\ UNCHANGED wk

StartModule == /\ main = "start" /\ at <= Len(Modules)
               /\ IF Modules[at] = "worker" THEN StartWorkers ELSE StartRecovery
               /\ at' = at + 1
               /\ UNCHANGED <<main, poolVars, held, server, cancelled, req, timeVars,
                              reportVars>>

(* The modules already started are stopped, the last one first.            *)
StartFailsAtOnce == /\ main = "start" /\ at <= Len(Modules) /\ Modules[at] \in MayFail
                    /\ main' = "panicked"
                    /\ errs' = errs \cup {"start"}
                    /\ faults' = faults \cup {Modules[at]}
                    /\ UNCHANGED <<at, poolVars, held, server, moduleVars, wk, sweep, req,
                                   timeVars>>

StartFails == /\ main = "start" /\ at <= Len(Modules) /\ Modules[at] \in MayFail
              /\ main' = "rollback"
              /\ at' = at - 1
              /\ errs' = errs \cup {"start"}
              /\ faults' = faults \cup {Modules[at]}
              /\ UNCHANGED <<poolVars, held, server, moduleVars, wk, sweep, req, timeVars>>

Serve == /\ main = "start" /\ at > Len(Modules)
         /\ main' = "running"
         /\ server' = "starting"
         /\ UNCHANGED <<at, poolVars, held, moduleVars, wk, sweep, req, timeVars, reportVars>>

Listen == /\ ~Ended /\ server = "starting"
          /\ server' = "listening"
          /\ UNCHANGED <<main, at, poolVars, held, moduleVars, wk, sweep, req, timeVars,
                         reportVars>>

(* ListenAndServe returns an error: the port is taken, or Accept failed.   *)
ListenFails == /\ ~Ended /\ server \in {"starting", "listening"}
               /\ server' = "failed"
               /\ faults' = faults \cup {"serve"}
               /\ UNCHANGED <<main, at, poolVars, held, moduleVars, wk, sweep, req, timeVars,
                              errs>>

-----------------------------------------------------------------------------
(* The select of Run, and srv.Shutdown, which closes the listener first.   *)
(* The context of main, its third case, is cancelled only after Run.       *)
BeginShutdown == /\ main = "running"
                 /\ main' = "drain"
                 /\ server' = "closed"
                 /\ UNCHANGED <<at, poolVars, held, moduleVars, wk, sweep, req, timeVars,
                                faults>>

Signal == BeginShutdown /\ UNCHANGED errs

ServeFailed == /\ server = "failed"
               /\ BeginShutdown
               /\ errs' = errs \cup {"serve"}

HTTPDrainTimeout == /\ main = "drain" /\ ~drainOver
                    /\ drainOver' = TRUE
                    /\ UNCHANGED <<main, at, poolVars, held, server, moduleVars, wk, sweep,
                                   req, graceOver, reportVars>>

(* httpCtx is derived from shutdownCtx.                                    *)
ShutdownGrace == /\ ShuttingDown /\ ~graceOver
                 /\ graceOver' = TRUE /\ drainOver' = TRUE
                 /\ UNCHANGED <<main, at, poolVars, held, server, moduleVars, wk, sweep, req,
                                reportVars>>

StopModules == /\ main' = "stop" /\ at' = Len(Modules)
               /\ UNCHANGED <<poolVars, held, server, moduleVars, wk, sweep, req, timeVars>>

(* Every handler has returned.  The branch for err = nil collects an       *)
(* error, and that for an error of the listener collects none.             *)
Drained == /\ main = "drain" /\ \A r \in Requests : req[r] # "open"
           /\ \/ errs' = errs \cup {"drain"} /\ UNCHANGED faults
              \/ faults' = faults \cup {"listener"} /\ UNCHANGED errs
           /\ StopModules

(* The deadline passed: the handlers that are left run on.                 *)
DrainExhausted == /\ main = "drain" /\ drainOver
                  /\ faults' = faults \cup {"drain"}
                  /\ UNCHANGED errs
                  /\ StopModules

-----------------------------------------------------------------------------
(* Registry.Shutdown and the rollback of Start call Stop from the last     *)
(* module to the first.  The recovery service does not wait for its        *)
(* goroutine; the worker pool waits for its workers or the deadline.       *)
StopRecovery == /\ main \in {"rollback", "stop"} /\ at = 2
                /\ cancelled' = [cancelled EXCEPT !["recovery"] = on["recovery"]]
                /\ on' = [on EXCEPT !["recovery"] = FALSE]
                /\ at' = at - 1
                /\ UNCHANGED <<main, poolVars, held, server, wk, sweep, req, timeVars,
                               reportVars>>

StopWorkers == /\ main \in {"rollback", "stop"} /\ at = 1
               /\ cancelled' = [cancelled EXCEPT !["worker"] = on["worker"]]
               /\ on' = [on EXCEPT !["worker"] = FALSE]
               /\ main' = IF main = "stop" THEN "stopWait" ELSE "rollbackWait"
               /\ UNCHANGED <<at, poolVars, held, server, wk, sweep, req, timeVars, reportVars>>

WorkersStoppedUnawaited ==
    /\ main \in {"stopWait", "rollbackWait"}
    /\ main' = IF main = "stopWait" THEN "stop" ELSE "rollback"
    /\ at' = at - 1
    /\ UNCHANGED <<poolVars, held, server, moduleVars, wk, sweep, req, timeVars, reportVars>>

WorkersStopped == /\ main \in {"stopWait", "rollbackWait"}
                  /\ \A w \in Workers : ~Alive(w)
                  /\ main' = IF main = "stopWait" THEN "stop" ELSE "rollback"
                  /\ at' = at - 1
                  /\ UNCHANGED <<poolVars, held, server, moduleVars, wk, sweep, req, timeVars,
                                 reportVars>>

(* The rollback passes the context of main, which has no deadline.         *)
StopTimedOutLate == /\ main = "stopWait" /\ graceOver /\ \A w \in Workers : ~Alive(w)
                    /\ main' = "stop"
                    /\ at' = at - 1
                    /\ errs' = errs \cup {"modules"}
                    /\ faults' = faults \cup {"modules"}
                    /\ UNCHANGED <<poolVars, held, server, moduleVars, wk, sweep, req, timeVars>>

StopTimedOut == /\ main = "stopWait" /\ graceOver
                /\ main' = "stop"
                /\ at' = at - 1
                /\ errs' = errs \cup {"modules"}
                /\ faults' = faults \cup {"modules"}
                /\ UNCHANGED <<poolVars, held, server, moduleVars, wk, sweep, req, timeVars>>

StopsDone == /\ main \in {"rollback", "stop"} /\ at = 0
             /\ main' = IF main = "stop" THEN "closePg" ELSE "panicked"
             /\ UNCHANGED <<at, poolVars, held, server, moduleVars, wk, sweep, req, timeVars,
                            reportVars>>

-----------------------------------------------------------------------------
(* pgPool.Close: no more connections are handed out, and it returns when   *)
(* the last one is back.                                                   *)
ClosePg == /\ main = "closePg" /\ pg = "open"
           /\ pg' = "closing"
           /\ UNCHANGED <<main, at, redis, held, server, moduleVars, wk, sweep, req, timeVars,
                          reportVars>>

PgClosed == /\ main = "closePg" /\ pg = "closing" /\ held = {}
            /\ pg' = "closed"
            /\ main' = "closeRedis"
            /\ UNCHANGED <<at, redis, held, server, moduleVars, wk, sweep, req, timeVars,
                           reportVars>>

(* infraredis.Shutdown, and the end of Run: main panics on an error.       *)
CloseRedis == /\ main = "closeRedis"
              /\ redis' = "closed"
              /\ \/ UNCHANGED reportVars
                 \/ errs' = errs \cup {"redis"} /\ faults' = faults \cup {"close"}
              /\ main' = IF errs' = {} THEN "exited" ELSE "panicked"
              /\ UNCHANGED <<at, pg, held, server, moduleVars, wk, sweep, req, timeVars>>

MainStep == \/ LoadConfigs \/ CreatePostgresPool \/ ConnectToRedis \/ ComposeModules
            \/ RegisterRoutes \/ BuildFails \/ StartModule \/ StartFails \/ Serve
            \/ ServeFailed \/ Drained \/ DrainExhausted
            \/ StopRecovery \/ StopWorkers \/ WorkersStopped \/ StopTimedOut \/ StopsDone
            \/ ClosePg \/ PgClosed \/ CloseRedis

-----------------------------------------------------------------------------
(* runWorker: the context is looked at before each job.                    *)
WorkerBecomes(w, states) == /\ ~Ended
                            /\ \E s \in states : wk' = [wk EXCEPT ![w] = s]
                            /\ UNCHANGED <<main, at, poolVars, held, server, moduleVars,
                                           sweep, req, timeVars, reportVars>>

NextJobUnchecked(w) == wk[w] = "poll" /\ WorkerBecomes(w, {"claim"})

NextJob(w) == /\ wk[w] = "poll"
              /\ WorkerBecomes(w, IF cancelled["worker"] THEN {"gone"} ELSE {"claim"})

(* ClaimNextJob returns: a job, none, or an error.  A claim under way when *)
(* the pool is stopped may still bring a job.                              *)
ClaimReturns(w) == /\ wk[w] = "claim"
                   /\ WorkerBecomes(w, {"job", "wait"} \cup
                                           IF cancelled["worker"] THEN {"gone"} ELSE {})

(* wait: both cases of its select may be ready.                            *)
Waited(w) == /\ wk[w] = "wait"
             /\ WorkerBecomes(w, {"poll"} \cup IF cancelled["worker"] THEN {"gone"} ELSE {})

(* processJob returns nil, an error, or the context.Canceled of a lost     *)
(* lease, on which the worker leaves.                                      *)
JobEnds(w) == /\ wk[w] = "job" /\ w \notin held
              /\ WorkerBecomes(w, {"poll", "wait", "gone"})

(* The goroutine of the recovery service: with its context cancelled and   *)
(* the ticker ready, select may take either.                               *)
SweeperBecomes(s) == /\ ~Ended
                     /\ sweep' = s
                     /\ UNCHANGED <<main, at, poolVars, held, server, moduleVars, wk, req,
                                    timeVars, reportVars>>

SweepStarts == sweep = "wait" /\ SweeperBecomes("sweep")
SweepEnds == sweep = "sweep" /\ Sweeper \notin held /\ SweeperBecomes("wait")
SweeperLeaves == sweep = "wait" /\ cancelled["recovery"] /\ SweeperBecomes("gone")

RequestBecomes(r, s) == /\ ~Ended
                        /\ req' = [req EXCEPT ![r] = s]
                        /\ UNCHANGED <<main, at, poolVars, held, server, moduleVars, wk,
                                       sweep, timeVars, reportVars>>

RequestArrives(r) == server = "listening" /\ req[r] = "none" /\ RequestBecomes(r, "open")
RequestEnds(r) == req[r] = "open" /\ r \notin held /\ RequestBecomes(r, "done")

(* A goroutine at work takes a connection for a query and gives it back.   *)
Busy(g) == \/ g \in Workers /\ wk[g] = "job"
           \/ g \in Requests /\ req[g] = "open"
           \/ g = Sweeper /\ sweep = "sweep"

Acquire(g) == /\ ~Ended /\ Busy(g) /\ pg = "open" /\ g \notin held
              /\ held' = held \cup {g}
              /\ UNCHANGED <<main, at, poolVars, server, moduleVars, wk, sweep, req, timeVars,
                             reportVars>>

Release(g) == /\ ~Ended /\ g \in held
              /\ held' = held \ {g}
              /\ UNCHANGED <<main, at, poolVars, server, moduleVars, wk, sweep, req, timeVars,
                             reportVars>>

Next == \/ MainStep \/ Signal \/ HTTPDrainTimeout \/ ShutdownGrace
        \/ Listen \/ ListenFails
        \/ \E w \in Workers : NextJob(w) \/ ClaimReturns(w) \/ Waited(w) \/ JobEnds(w)
        \/ SweepStarts \/ SweepEnds \/ SweeperLeaves
        \/ \E r \in Requests : RequestArrives(r) \/ RequestEnds(r)
        \/ \E g \in Goroutines : Acquire(g) \/ Release(g)

Spec == Init /\ [][Next]_vars

(* main runs on, the deadlines pass, and PostgreSQL answers every query.   *)
(* Jobs, streams and passes of the recovery service may take for ever.     *)
FairSpec == /\ Spec
            /\ WF_vars(MainStep)
            /\ WF_vars(HTTPDrainTimeout) /\ WF_vars(ShutdownGrace)
            /\ \A g \in Goroutines : WF_vars(Release(g))

-----------------------------------------------------------------------------
(* The pools are closed under nobody who was given time: a handler that is *)
(* still running has outlived the drain timeout, a worker has outlived the *)
(* grace period and Run reports it, and the recovery goroutine has been    *)
(* told to stop.                                                           *)
PoolsOutliveWork == pg \in {"closing", "closed"} =>
    /\ \A r \in Requests : req[r] = "open" => drainOver
    /\ \A w \in Workers : Alive(w) => graceOver /\ "modules" \in errs
    /\ sweep \in {"wait", "sweep"} => cancelled["recovery"]

(* README, "Graceful lifecycle management": a module that fails to start   *)
(* takes the ones before it down; no worker is left when main gives up,    *)
(* whatever job it was in when the rollback began.                         *)
RollbackIsComplete == main = "panicked" /\ faults \cap {"worker", "recovery"} # {} =>
    /\ \A w \in Workers : ~Alive(w)
    /\ on = [m \in {"worker", "recovery"} |-> FALSE]

(* README, "Graceful lifecycle management": shutdown stops claiming new    *)
(* jobs.  Once Stop has cancelled the pool's context, a worker that is not *)
(* calling the scheduler never calls it again.                             *)
StopsClaiming == [][\A w \in Workers :
    cancelled["worker"] /\ wk[w] # "claim" => wk'[w] # "claim"]_vars

(* A shutdown ends, though jobs hang, streams stay open, sweeps take for   *)
(* ever and stops fail.                                                    *)
ShutdownEnds == ShuttingDown ~> Ended

(* http_server.go and app.go log "server was shut down successfully." and  *)
(* "shutdown completed": main gives up only where something went wrong.    *)
CleanShutdown == main = "panicked" => faults # {}
=============================================================================
