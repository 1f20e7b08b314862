--------------------------- MODULE LifecycleProofs ---------------------------
(***************************************************************************)
(* For any number of workers and requests, the pools are closed under      *)
(* nobody who was given time, a failed start leaves no worker behind, and  *)
(* a shutdown only goes forward.                                           *)
(*                                                                         *)
(* The first two say nothing until the pools are closing or main has given *)
(* up, so the inductive invariant follows main: what is running, started   *)
(* and cancelled at each of its steps.                                     *)
(***************************************************************************)
EXTENDS Lifecycle, TLAPS

Types == /\ on \in [{"worker", "recovery"} -> BOOLEAN]
         /\ cancelled \in [{"worker", "recovery"} -> BOOLEAN]
         /\ wk \in [Workers -> {"none", "poll", "claim", "wait", "job", "gone"}]
         /\ req \in [Requests -> {"none", "open", "done"}]
         /\ at \in 0..3

NobodyWorks == \A w \in Workers : wk[w] \in {"none", "gone"}
WorkersAreLate == \A w \in Workers : wk[w] \notin {"none", "gone"} =>
                                        graceOver /\ "modules" \in errs
HandlersAreLate == \A r \in Requests : req[r] = "open" => drainOver
SweeperIsTold == sweep \in {"wait", "sweep"} => cancelled["recovery"] = TRUE

(* Until Run serves, nobody makes a request.                               *)
Unserved == main \in BuildSteps \cup {"start", "rollback", "rollbackWait"} =>
    /\ server = "none" /\ pg \in {"none", "open"}
    /\ \A r \in Requests : req[r] = "none"

(* The loop of Registry.Start.                                             *)
Starting == main \in BuildSteps \cup {"start"} =>
    /\ at > 0
    /\ main # "start" => at = 1
    /\ at = 1 => on["worker"] = FALSE /\ \A w \in Workers : wk[w] = "none"
    /\ at < 3 => on["recovery"] = FALSE /\ sweep = "none"
    /\ at = 3 => on["recovery"] = TRUE

(* The loop of its rollback.                                               *)
RollingBack == /\ main = "rollback" => /\ at < 2 /\ on["recovery"] = FALSE
                                       /\ at = 0 => on["worker"] = FALSE /\ NobodyWorks
               /\ main = "rollbackWait" => /\ at = 1 /\ on["recovery"] = FALSE
                                           /\ on["worker"] = FALSE

(* Run after the modules are started: the server is closed first, and the  *)
(* recovery service is stopped before the workers.                         *)
Draining == /\ main \in {"running", "drain"} => on["recovery"] = TRUE
            /\ main \in {"drain", "stop", "stopWait", "closePg", "closeRedis"} =>
                  server = "closed"
            /\ main \in {"stop", "stopWait", "closePg", "closeRedis"} => HandlersAreLate

Stopping == /\ main = "stop" => /\ at < 3
                                /\ at = 2 => on["recovery"] = TRUE
                                /\ at < 2 => SweeperIsTold
                                /\ at = 0 => WorkersAreLate
            /\ main = "stopWait" => at = 1 /\ SweeperIsTold
            /\ main \in {"closePg", "closeRedis"} => SweeperIsTold /\ WorkersAreLate

(* Which errors and which closed pools belong to which step.               *)
Closing == /\ pg \in {"closing", "closed"} =>
                 main \in {"closePg", "closeRedis", "exited", "panicked"}
           /\ main \notin {"rollback", "rollbackWait", "panicked"} =>
                 "worker" \notin faults /\ "recovery" \notin faults
           /\ main \in {"exited", "panicked"} => PoolsOutliveWork /\ RollbackIsComplete

IndInv == /\ Types /\ Unserved /\ Starting /\ RollingBack /\ Draining /\ Stopping /\ Closing

(* The two modules, in their order.                                        *)
LEMMA ModulesFact == Len(Modules) = 2 /\ Modules[1] = "worker" /\ Modules[2] = "recovery"
BY DEF Modules

(* The initial states.                                                     *)
LEMMA IndInvInit == Init => IndInv
BY DEF Init, IndInv, Types, Unserved, Starting, RollingBack, Draining, Stopping, Closing,
       BuildSteps


(* The steps of main, its deadlines and the server, one by one.            *)
LEMMA MainNext ==
  ASSUME IndInv,
         MainStep \/ Signal \/ HTTPDrainTimeout \/ ShutdownGrace \/ Listen \/ ListenFails
  PROVE  IndInv'
<1> USE DEF IndInv, Types, Unserved, Starting, RollingBack, Draining, Stopping, Closing,
            BuildSteps, HandlersAreLate, SweeperIsTold, WorkersAreLate, NobodyWorks,
            PoolsOutliveWork, RollbackIsComplete, Alive,
            poolVars, moduleVars, timeVars, reportVars
<1>1. CASE LoadConfigs
  BY <1>1 DEF LoadConfigs, Proceed
<1>2. CASE CreatePostgresPool
  BY <1>2 DEF CreatePostgresPool, Proceed
<1>3. CASE ConnectToRedis
  BY <1>3 DEF ConnectToRedis, Proceed
<1>4. CASE ComposeModules
  BY <1>4 DEF ComposeModules, Proceed
<1>5. CASE RegisterRoutes
  BY <1>5 DEF RegisterRoutes, Proceed
<1>6. CASE BuildFails
  BY <1>6 DEF BuildFails
<1>7. CASE StartModule
  <2>1. CASE at = 1
    <3>1. /\ on' = [on EXCEPT !["worker"] = TRUE] /\ wk' = [w \in Workers |-> "poll"]
          /\ sweep' = sweep /\ at' = 2 /\ main = "start"
          /\ UNCHANGED <<main, pg, server, cancelled, req, faults, drainOver, graceOver, errs>>
      BY <1>7, <2>1, ModulesFact DEF StartModule, StartWorkers
    <3> QED
      BY <2>1, <3>1
  <2>2. CASE at = 2
    <3>1. /\ on' = [on EXCEPT !["recovery"] = TRUE] /\ wk' = wk /\ at' = 3 /\ main = "start"
          /\ UNCHANGED <<main, pg, server, cancelled, req, faults, drainOver, graceOver, errs>>
      BY <1>7, <2>2, ModulesFact DEF StartModule, StartRecovery
    <3> QED
      BY <2>2, <3>1
  <2>3. main = "start" /\ at <= 2
    BY <1>7, ModulesFact DEF StartModule
  <2>4. at = 1 \/ at = 2
    BY <2>3
  <2> QED
    BY <2>1, <2>2, <2>4
<1>8. CASE StartFails
  BY <1>8, ModulesFact DEF StartFails
<1>9. CASE Serve
  BY <1>9, ModulesFact DEF Serve
<1>10. CASE ServeFailed
  BY <1>10 DEF ServeFailed, BeginShutdown
<1>11. CASE Drained
  BY <1>11, ModulesFact DEF Drained, StopModules
<1>12. CASE DrainExhausted
  BY <1>12, ModulesFact DEF DrainExhausted, StopModules
<1>13. CASE StopRecovery
  BY <1>13 DEF StopRecovery
<1>14. CASE StopWorkers
  BY <1>14 DEF StopWorkers
<1>15. CASE WorkersStopped
  BY <1>15 DEF WorkersStopped
<1>16. CASE StopTimedOut
  BY <1>16 DEF StopTimedOut
<1>17. CASE StopsDone
  BY <1>17 DEF StopsDone
<1>18. CASE ClosePg
  BY <1>18 DEF ClosePg
<1>19. CASE PgClosed
  BY <1>19 DEF PgClosed
<1>20. CASE CloseRedis
  BY <1>20 DEF CloseRedis
<1>21. CASE Signal
  BY <1>21 DEF Signal, BeginShutdown
<1>22. CASE HTTPDrainTimeout
  BY <1>22 DEF HTTPDrainTimeout
<1>23. CASE ShutdownGrace
  BY <1>23 DEF ShutdownGrace, ShuttingDown
<1>24. CASE Listen
  BY <1>24 DEF Listen, Ended
<1>25. CASE ListenFails
  BY <1>25 DEF ListenFails, Ended
<1> QED
  BY <1>1, <1>2, <1>3, <1>4, <1>5, <1>6, <1>7, <1>8, <1>9, <1>10, <1>11, <1>12, <1>13,
     <1>14, <1>15, <1>16, <1>17, <1>18, <1>19, <1>20, <1>21, <1>22, <1>23, <1>24, <1>25
     DEF MainStep

(* The other goroutines: none of them changes what main goes by.           *)
LEMMA OthersNext ==
  ASSUME IndInv, ~Ended,
         UNCHANGED <<main, at, poolVars, server, moduleVars, timeVars, reportVars>>,
         \/ wk' = wk
         \/ \E w \in Workers, s \in {"poll", "claim", "wait", "job", "gone"} :
               wk[w] \notin {"none", "gone"} /\ wk' = [wk EXCEPT ![w] = s],
         \/ sweep' = sweep
         \/ sweep \in {"wait", "sweep"} /\ sweep' \in {"wait", "sweep", "gone"},
         \/ req' = req
         \/ \E r \in Requests : \/ req' = [req EXCEPT ![r] = "done"] /\ req[r] = "open"
                                \/ req' = [req EXCEPT ![r] = "open"] /\ server = "listening"
  PROVE  IndInv'
<1> USE DEF Ended, poolVars, moduleVars, timeVars, reportVars
<1>1. Types'
  BY DEF IndInv, Types
<1>2. Unserved'
  BY DEF IndInv, Types, Unserved
<1>3. Starting'
  <2>1. (\A w \in Workers : wk[w] = "none") => wk' = wk
    OBVIOUS
  <2> QED
    BY <2>1 DEF IndInv, Starting
<1>4. RollingBack'
  <2>1. NobodyWorks => NobodyWorks'
    BY DEF IndInv, Types, NobodyWorks
  <2> QED
    BY <2>1 DEF IndInv, RollingBack
<1>5. Draining'
  BY DEF IndInv, Types, Draining, HandlersAreLate
<1>6. Stopping'
  <2>1. SweeperIsTold => SweeperIsTold'
    BY DEF SweeperIsTold
  <2>2. WorkersAreLate => WorkersAreLate'
    BY DEF IndInv, Types, WorkersAreLate
  <2> QED
    BY <2>1, <2>2 DEF IndInv, Stopping
<1>7. Closing'
  BY DEF IndInv, Closing
<1> QED
  BY <1>1, <1>2, <1>3, <1>4, <1>5, <1>6, <1>7 DEF IndInv

(* Every step keeps the invariant.                                         *)
LEMMA IndInvNext == IndInv /\ [Next]_vars => IndInv'
<1> SUFFICES ASSUME IndInv, [Next]_vars PROVE IndInv'
  OBVIOUS
<1> USE DEF poolVars, moduleVars, timeVars, reportVars
<1>1. CASE UNCHANGED vars
  BY <1>1 DEF vars, IndInv, Types, Unserved, Starting, RollingBack, Draining, Stopping, Closing,
              HandlersAreLate, SweeperIsTold, WorkersAreLate, NobodyWorks, PoolsOutliveWork,
              RollbackIsComplete, Alive
<1>2. CASE MainStep \/ Signal \/ HTTPDrainTimeout \/ ShutdownGrace \/ Listen \/ ListenFails
  BY <1>2, MainNext
<1>3. ASSUME NEW w \in Workers, NextJob(w) \/ ClaimReturns(w) \/ Waited(w) \/ JobEnds(w)
      PROVE  IndInv'
  BY <1>3, OthersNext DEF NextJob, ClaimReturns, Waited, JobEnds, WorkerBecomes
<1>4. CASE SweepStarts \/ SweepEnds \/ SweeperLeaves
  BY <1>4, OthersNext DEF SweepStarts, SweepEnds, SweeperLeaves, SweeperBecomes
<1>5. ASSUME NEW r \in Requests, RequestArrives(r) \/ RequestEnds(r)
      PROVE  IndInv'
  BY <1>5, OthersNext DEF RequestArrives, RequestEnds, RequestBecomes
<1>6. ASSUME NEW g \in Goroutines, Acquire(g) \/ Release(g)
      PROVE  IndInv'
  BY <1>6, OthersNext DEF Acquire, Release
<1> QED
  BY <1>1, <1>2, <1>3, <1>4, <1>5, <1>6 DEF Next

(* The inductive invariant holds from the start of the process to its end. *)
THEOREM Invariance == Spec => []IndInv
BY IndInvInit, IndInvNext, PTL DEF Spec

(* The types that the invariant above says nothing of: where main, the     *)
(* pools, the server and the sweeper are; what sets hold; the deadlines.   *)
Places == /\ main \in BuildSteps \cup {"start", "rollback", "rollbackWait", "running",
                          "drain", "stop", "stopWait", "closePg", "closeRedis",
                          "exited", "panicked"}
          /\ pg \in {"none", "open", "closing", "closed"}
          /\ redis \in {"none", "open", "closed"}
          /\ server \in {"none", "starting", "listening", "failed", "closed"}
          /\ sweep \in {"none", "wait", "sweep", "gone"}
Contents == /\ held \subseteq Goroutines
            /\ errs \subseteq {"start", "serve", "drain", "modules", "redis"}
            /\ faults \subseteq MayFail \cup {"serve", "drain", "listener", "modules", "close"}
Deadlines == drainOver \in BOOLEAN /\ graceOver \in BOOLEAN

(* Every step goes from place to place.                                    *)
LEMMA PlacesStep ==
  ASSUME Places, Next
  PROVE  Places'
<1> USE DEF Places, BuildSteps, poolVars, moduleVars, timeVars, reportVars
<1>1. CASE LoadConfigs \/ CreatePostgresPool \/ ConnectToRedis \/ ComposeModules
           \/ RegisterRoutes
  BY <1>1 DEF LoadConfigs, CreatePostgresPool, ConnectToRedis, ComposeModules, RegisterRoutes,
              Proceed
<1>2. CASE BuildFails
  BY <1>2 DEF BuildFails
<1>3. CASE StartFails
  BY <1>3 DEF StartFails
<1>4. CASE StartModule \/ Serve
  BY <1>4 DEF StartModule, StartWorkers, StartRecovery, Serve
<1>5. CASE ServeFailed \/ Signal
  BY <1>5 DEF ServeFailed, Signal, BeginShutdown
<1>6. CASE Drained \/ DrainExhausted
  BY <1>6 DEF Drained, DrainExhausted, StopModules
<1>7. CASE StopRecovery \/ StopWorkers \/ StopsDone
  BY <1>7 DEF StopRecovery, StopWorkers, StopsDone
<1>8. CASE WorkersStopped \/ StopTimedOut
  BY <1>8 DEF WorkersStopped, StopTimedOut
<1>9. CASE ClosePg \/ PgClosed
  BY <1>9 DEF ClosePg, PgClosed
<1>10. CASE CloseRedis
  BY <1>10 DEF CloseRedis
<1>11. CASE HTTPDrainTimeout \/ ShutdownGrace \/ Listen \/ ListenFails
  BY <1>11 DEF HTTPDrainTimeout, ShutdownGrace, Listen, ListenFails
<1>12. CASE \E w \in Workers : NextJob(w) \/ ClaimReturns(w) \/ Waited(w) \/ JobEnds(w)
  BY <1>12 DEF NextJob, ClaimReturns, Waited, JobEnds, WorkerBecomes
<1>13. CASE SweepStarts \/ SweepEnds \/ SweeperLeaves
  BY <1>13 DEF SweepStarts, SweepEnds, SweeperLeaves, SweeperBecomes
<1>14. CASE \E r \in Requests : RequestArrives(r) \/ RequestEnds(r)
  BY <1>14 DEF RequestArrives, RequestEnds, RequestBecomes
<1>15. CASE \E g \in Goroutines : Acquire(g) \/ Release(g)
  BY <1>15 DEF Acquire, Release
<1> QED
  BY <1>1, <1>2, <1>3, <1>4, <1>5, <1>6, <1>7, <1>8, <1>9, <1>10, <1>11,
     <1>12, <1>13, <1>14, <1>15
     DEF Next, MainStep

(* Every step adds to the sets only what belongs there.                    *)
LEMMA ContentsStep ==
  ASSUME Contents, Next
  PROVE  Contents'
<1> USE DEF Contents, poolVars, moduleVars, timeVars, reportVars
<1>1. CASE LoadConfigs \/ CreatePostgresPool \/ ConnectToRedis \/ ComposeModules
           \/ RegisterRoutes
  BY <1>1 DEF LoadConfigs, CreatePostgresPool, ConnectToRedis, ComposeModules, RegisterRoutes,
              Proceed
<1>2. CASE BuildFails
  BY <1>2 DEF BuildFails
<1>3. CASE StartFails
  BY <1>3 DEF StartFails
<1>4. CASE StartModule \/ Serve
  BY <1>4 DEF StartModule, StartWorkers, StartRecovery, Serve
<1>5. CASE ServeFailed \/ Signal
  BY <1>5 DEF ServeFailed, Signal, BeginShutdown
<1>6. CASE Drained \/ DrainExhausted
  BY <1>6 DEF Drained, DrainExhausted, StopModules
<1>7. CASE StopRecovery \/ StopWorkers \/ StopsDone
  BY <1>7 DEF StopRecovery, StopWorkers, StopsDone
<1>8. CASE WorkersStopped \/ StopTimedOut
  BY <1>8 DEF WorkersStopped, StopTimedOut
<1>9. CASE ClosePg \/ PgClosed
  BY <1>9 DEF ClosePg, PgClosed
<1>10. CASE CloseRedis
  BY <1>10 DEF CloseRedis
<1>11. CASE HTTPDrainTimeout \/ ShutdownGrace \/ Listen \/ ListenFails
  BY <1>11 DEF HTTPDrainTimeout, ShutdownGrace, Listen, ListenFails
<1>12. CASE \E w \in Workers : NextJob(w) \/ ClaimReturns(w) \/ Waited(w) \/ JobEnds(w)
  BY <1>12 DEF NextJob, ClaimReturns, Waited, JobEnds, WorkerBecomes
<1>13. CASE SweepStarts \/ SweepEnds \/ SweeperLeaves
  BY <1>13 DEF SweepStarts, SweepEnds, SweeperLeaves, SweeperBecomes
<1>14. CASE \E r \in Requests : RequestArrives(r) \/ RequestEnds(r)
  BY <1>14 DEF RequestArrives, RequestEnds, RequestBecomes
<1>15. CASE \E g \in Goroutines : Acquire(g) \/ Release(g)
  BY <1>15 DEF Acquire, Release
<1> QED
  BY <1>1, <1>2, <1>3, <1>4, <1>5, <1>6, <1>7, <1>8, <1>9, <1>10, <1>11,
     <1>12, <1>13, <1>14, <1>15
     DEF Next, MainStep

(* A deadline has passed or it has not, and only the clock decides.        *)
LEMMA DeadlinesStep ==
  ASSUME Deadlines, Next
  PROVE  Deadlines'
<1> USE DEF timeVars
<1>1. MainStep => UNCHANGED timeVars
  BY DEF MainStep, LoadConfigs, CreatePostgresPool, ConnectToRedis, ComposeModules,
         RegisterRoutes, BuildFails, StartModule, StartFails, Serve, ServeFailed, BeginShutdown,
         Drained, DrainExhausted, StopModules, StopRecovery, StopWorkers, WorkersStopped,
         StopTimedOut, StopsDone, ClosePg, PgClosed, CloseRedis
<1>2. Signal \/ Listen \/ ListenFails \/ SweepStarts \/ SweepEnds \/ SweeperLeaves
        => UNCHANGED timeVars
  BY DEF Signal, BeginShutdown, Listen, ListenFails, SweepStarts, SweepEnds, SweeperLeaves,
         SweeperBecomes
<1>3. \A w \in Workers : NextJob(w) \/ ClaimReturns(w) \/ Waited(w) \/ JobEnds(w)
        => UNCHANGED timeVars
  BY DEF NextJob, ClaimReturns, Waited, JobEnds, WorkerBecomes
<1>4. \A r \in Requests : RequestArrives(r) \/ RequestEnds(r) => UNCHANGED timeVars
  BY DEF RequestArrives, RequestEnds, RequestBecomes
<1>5. \A g \in Goroutines : Acquire(g) \/ Release(g) => UNCHANGED timeVars
  BY DEF Acquire, Release
<1>6. UNCHANGED timeVars \/ HTTPDrainTimeout \/ ShutdownGrace
  BY <1>1, <1>2, <1>3, <1>4, <1>5 DEF Next
<1> QED
  BY <1>6 DEF Deadlines, HTTPDrainTimeout, ShutdownGrace

(* Types of the lifecycle: the states of main, the pools, the server and   *)
(* the goroutines are those of the code, the loop of Registry.Shutdown     *)
(* stays within the modules, and only a step that may fail has failed.     *)
THEOREM LifecycleTyped == Spec => []TypeOK
<1> DEFINE Plain == Places /\ Contents /\ Deadlines
<1>1. Init => Plain
  BY DEF Init, Places, Contents, Deadlines, BuildSteps
<1>2. Plain /\ [Next]_vars => Plain'
  <2>1. CASE UNCHANGED vars
    BY <2>1 DEF vars, poolVars, moduleVars, timeVars, reportVars, Places, Contents, Deadlines
  <2> QED
    BY <2>1, PlacesStep, ContentsStep, DeadlinesStep
<1>3. IndInv /\ Plain => TypeOK
  BY ModulesFact DEF IndInv, Types, Places, Contents, Deadlines, TypeOK
<1> QED
  BY <1>1, <1>2, <1>3, Invariance, PTL DEF Spec

(* Whatever the numbers of workers and requests, the pools are closed      *)
(* under no handler, worker or sweep that was not given its time.          *)
THEOREM PoolsOutliveWorkAlways == Spec => []PoolsOutliveWork
<1>1. IndInv => PoolsOutliveWork
  <2> SUFFICES ASSUME IndInv, pg \in {"closing", "closed"}
               PROVE  PoolsOutliveWork
    BY DEF PoolsOutliveWork
  <2>1. CASE main \in {"exited", "panicked"}
    BY <2>1 DEF IndInv, Closing
  <2>2. CASE main \in {"closePg", "closeRedis"}
    BY <2>2 DEF IndInv, Draining, Stopping, HandlersAreLate, SweeperIsTold, WorkersAreLate,
                PoolsOutliveWork, Alive
  <2> QED
    BY <2>1, <2>2 DEF IndInv, Closing
<1> QED
  BY <1>1, Invariance, PTL

(* A module that fails to start leaves no worker and no started module.    *)
THEOREM RollbackIsCompleteAlways == Spec => []RollbackIsComplete
<1>1. IndInv => RollbackIsComplete
  BY DEF IndInv, Closing, RollbackIsComplete
<1> QED
  BY <1>1, Invariance, PTL

(* Once the pool's context is cancelled no worker goes back to claiming.   *)
THEOREM StopsClaimingAlways == Spec => StopsClaiming
<1> DEFINE Quiet == \A w \in Workers :
                       cancelled["worker"] /\ wk[w] # "claim" => wk'[w] # "claim"
<1>1. IndInv /\ [Next]_vars => [Quiet]_vars
  <2> SUFFICES ASSUME IndInv, Next, NEW v \in Workers, cancelled["worker"], wk[v] # "claim"
               PROVE  wk'[v] # "claim"
    OBVIOUS
  <2>1. wk \in [Workers -> {"none", "poll", "claim", "wait", "job", "gone"}]
    BY DEF IndInv, Types
  <2>2. CASE UNCHANGED wk
    BY <2>2
  <2>3. CASE StartModule
    BY <2>3 DEF StartModule, StartWorkers, StartRecovery
  <2>4. ASSUME NEW w \in Workers, NextJob(w) \/ ClaimReturns(w) \/ Waited(w) \/ JobEnds(w)
        PROVE  wk'[v] # "claim"
    BY <2>1, <2>4 DEF NextJob, ClaimReturns, Waited, JobEnds, WorkerBecomes
  <2>5. \/ UNCHANGED wk \/ StartModule
        \/ \E w \in Workers : NextJob(w) \/ ClaimReturns(w) \/ Waited(w) \/ JobEnds(w)
    <3>1. CASE MainStep \/ Signal
      BY <3>1 DEF MainStep, LoadConfigs, CreatePostgresPool, ConnectToRedis, ComposeModules,
                  RegisterRoutes, BuildFails, StartFails, Serve, BeginShutdown, ServeFailed,
                  Signal, StopModules, Drained, DrainExhausted, StopRecovery, StopWorkers,
                  WorkersStopped, StopTimedOut, StopsDone, ClosePg, PgClosed, CloseRedis
    <3>2. CASE \/ HTTPDrainTimeout \/ ShutdownGrace \/ Listen \/ ListenFails
               \/ SweepStarts \/ SweepEnds \/ SweeperLeaves
               \/ \E r \in Requests : RequestArrives(r) \/ RequestEnds(r)
               \/ \E g \in Goroutines : Acquire(g) \/ Release(g)
      BY <3>2 DEF HTTPDrainTimeout, ShutdownGrace, Listen, ListenFails, SweepStarts, SweepEnds,
                  SweeperLeaves, SweeperBecomes, RequestArrives, RequestEnds, RequestBecomes,
                  Acquire, Release
    <3> QED
      BY <3>1, <3>2 DEF Next
  <2> QED
    BY <2>2, <2>3, <2>4, <2>5
<1> QED
  BY <1>1, Invariance, PTL DEF Spec, StopsClaiming
-----------------------------------------------------------------------------
(* What ShutdownEnds rests on beside fairness.  The steps that are left of *)
(* the shutdown: from the drain to the last return of main.                *)
StepsLeft == IF main = "drain" THEN 8
        ELSE IF main = "stop" THEN (IF at = 0 THEN 4 ELSE 5 + at)
        ELSE IF main = "stopWait" THEN 5
        ELSE IF main = "closePg" THEN (IF pg = "open" THEN 3 ELSE 2)
        ELSE IF main = "closeRedis" THEN 1
        ELSE 0

(* The next step of main waits for nothing any more.                       *)
MainMayGoOn == \/ main = "drain" /\ drainOver
               \/ main = "stop" /\ at \in 0..2
               \/ main = "stopWait" /\ graceOver
               \/ main = "closePg" /\ (pg = "open" \/ (pg = "closing" /\ held = {}))
               \/ main = "closeRedis"

(* What main waits for where it is has happened: the deadline has passed,  *)
(* or the connections of a closing pool are back.                          *)
NothingToAwait == /\ main = "drain" => drainOver
                  /\ main = "stopWait" => graceOver
                  /\ pg = "closing" => held = {}

(* In a shutdown main either takes one of the steps that are left or stays *)
(* where it is, and connections only come back once the pool is closing.   *)
ShutdownAdvances == ShuttingDown =>
    /\ ShuttingDown' \/ Ended'
    /\ StepsLeft' < StepsLeft \/ UNCHANGED <<main, at, pg>>
    /\ pg = "closing" => held' \subseteq held

(* The PostgreSQL pool is open from its creation to its Close.             *)
PoolIsOpen ==
    /\ main \in {"redis", "compose", "routes", "start", "running", "drain", "stop", "stopWait"}
          => pg = "open"
    /\ main = "closePg" => pg \in {"open", "closing"}

(* Whoever is not main leaves main and the pools alone, and takes          *)
(* connections from an open pool only.                                     *)
LEMMA OthersWait ==
  ASSUME \/ HTTPDrainTimeout \/ ShutdownGrace \/ Listen \/ ListenFails
         \/ SweepStarts \/ SweepEnds \/ SweeperLeaves
         \/ \E w \in Workers : NextJob(w) \/ ClaimReturns(w) \/ Waited(w) \/ JobEnds(w)
         \/ \E r \in Requests : RequestArrives(r) \/ RequestEnds(r)
         \/ \E g \in Goroutines : Acquire(g) \/ Release(g)
  PROVE  /\ UNCHANGED <<main, at, pg>>
         /\ pg = "closing" => held' \subseteq held
<1> USE DEF poolVars
<1>1. CASE HTTPDrainTimeout \/ ShutdownGrace \/ Listen \/ ListenFails
  BY <1>1 DEF HTTPDrainTimeout, ShutdownGrace, Listen, ListenFails
<1>2. CASE SweepStarts \/ SweepEnds \/ SweeperLeaves
  BY <1>2 DEF SweepStarts, SweepEnds, SweeperLeaves, SweeperBecomes
<1>3. CASE \E w \in Workers : NextJob(w) \/ ClaimReturns(w) \/ Waited(w) \/ JobEnds(w)
  BY <1>3 DEF NextJob, ClaimReturns, Waited, JobEnds, WorkerBecomes
<1>4. CASE \E r \in Requests : RequestArrives(r) \/ RequestEnds(r)
  BY <1>4 DEF RequestArrives, RequestEnds, RequestBecomes
<1>5. CASE \E g \in Goroutines : Acquire(g) \/ Release(g)
  BY <1>5 DEF Acquire, Release
<1> QED
  BY <1>1, <1>2, <1>3, <1>4, <1>5

(* The steps of main that are not part of a shutdown.                      *)
LEMMA BeforeShutdown ==
  ASSUME \/ LoadConfigs \/ CreatePostgresPool \/ ConnectToRedis \/ ComposeModules
         \/ RegisterRoutes \/ BuildFails \/ StartModule \/ StartFails \/ Serve
         \/ ServeFailed \/ Signal
  PROVE  ~ShuttingDown
<1> USE DEF ShuttingDown
<1>1. CASE LoadConfigs \/ CreatePostgresPool \/ ConnectToRedis \/ ComposeModules
           \/ RegisterRoutes
  BY <1>1 DEF LoadConfigs, CreatePostgresPool, ConnectToRedis, ComposeModules, RegisterRoutes,
              Proceed
<1>2. CASE BuildFails
  BY <1>2 DEF BuildFails, BuildSteps
<1>3. CASE StartModule \/ StartFails \/ Serve \/ ServeFailed \/ Signal
  BY <1>3 DEF StartModule, StartFails, Serve, ServeFailed, Signal, BeginShutdown
<1> QED
  BY <1>1, <1>2, <1>3

(* The pool is closed in one place, and main is there only once.           *)
LEMMA PoolIsOpenNext ==
  ASSUME PoolIsOpen, [Next]_vars
  PROVE  PoolIsOpen'
<1> USE DEF PoolIsOpen, poolVars
<1>1. CASE UNCHANGED vars
  BY <1>1 DEF vars
<1>2. CASE LoadConfigs \/ CreatePostgresPool \/ ConnectToRedis \/ ComposeModules
           \/ RegisterRoutes
  BY <1>2 DEF LoadConfigs, CreatePostgresPool, ConnectToRedis, ComposeModules, RegisterRoutes,
              Proceed
<1>3. CASE BuildFails
  BY <1>3 DEF BuildFails
<1>4. CASE StartModule \/ StartFails \/ Serve \/ ServeFailed \/ Signal
  BY <1>4 DEF StartModule, StartFails, Serve, ServeFailed, Signal, BeginShutdown
<1>5. CASE Drained \/ DrainExhausted
  BY <1>5 DEF Drained, DrainExhausted, StopModules
<1>6. CASE StopRecovery \/ StopWorkers \/ WorkersStopped \/ StopTimedOut \/ StopsDone
  BY <1>6 DEF StopRecovery, StopWorkers, WorkersStopped, StopTimedOut, StopsDone
<1>7. CASE ClosePg \/ PgClosed \/ CloseRedis
  BY <1>7 DEF ClosePg, PgClosed, CloseRedis
<1>8. CASE UNCHANGED <<main, at, pg>>
  BY <1>8
<1> QED
  BY <1>1, <1>2, <1>3, <1>4, <1>5, <1>6, <1>7, <1>8, OthersWait DEF Next, MainStep

(* Every step of a shutdown.                                               *)
LEMMA ShutdownStep ==
  ASSUME IndInv, Next
  PROVE  ShutdownAdvances
<1> SUFFICES ASSUME ShuttingDown
             PROVE  /\ ShuttingDown' \/ Ended'
                    /\ StepsLeft' < StepsLeft \/ UNCHANGED <<main, at, pg>>
                    /\ pg = "closing" => held' \subseteq held
  BY DEF ShutdownAdvances
<1> USE DEF ShuttingDown, Ended, StepsLeft, poolVars
<1>1. CASE Drained \/ DrainExhausted
  BY <1>1, ModulesFact DEF Drained, DrainExhausted, StopModules
<1>2. CASE StopRecovery \/ StopWorkers
  BY <1>2 DEF StopRecovery, StopWorkers
<1>3. CASE WorkersStopped \/ StopTimedOut
  <2>1. main = "stopWait" /\ at = 1  BY <1>3 DEF WorkersStopped, StopTimedOut, IndInv, Stopping
  <2> QED
    BY <1>3, <2>1 DEF WorkersStopped, StopTimedOut
<1>4. CASE StopsDone
  BY <1>4 DEF StopsDone
<1>5. CASE ClosePg \/ PgClosed
  BY <1>5 DEF ClosePg, PgClosed
<1>6. CASE CloseRedis
  BY <1>6 DEF CloseRedis
<1>7. CASE UNCHANGED <<main, at, pg>> /\ (pg = "closing" => held' \subseteq held)
  BY <1>7
<1> QED
  BY <1>1, <1>2, <1>3, <1>4, <1>5, <1>6, <1>7, OthersWait, BeforeShutdown DEF Next, MainStep

(* The safety half of ShutdownEnds, for any number of workers, handlers    *)
(* and hanging jobs: every step of main brings the end of Run nearer,      *)
(* nothing takes it back, no new connection is taken from a closing pool,  *)
(* and wherever main is, its deadline or the return of the connections is  *)
(* all that it waits for (Run, Registry.Shutdown, the Stop of both modules).   *)
THEOREM ShutdownCountsDown ==
    Spec => /\ [][ShutdownAdvances]_vars
            /\ [](ShuttingDown /\ NothingToAwait => MainMayGoOn)
<1>1. Init => PoolIsOpen
  BY DEF Init, PoolIsOpen
<1>2. IndInv /\ [Next]_vars => [ShutdownAdvances]_vars
  BY ShutdownStep
<1>3. IndInv /\ PoolIsOpen =>
        (ShuttingDown /\ NothingToAwait => MainMayGoOn)
  BY DEF IndInv, Types, Stopping, PoolIsOpen, ShuttingDown, NothingToAwait, MainMayGoOn
<1> QED
  BY <1>1, <1>2, <1>3, PoolIsOpenNext, Invariance, PTL DEF Spec
=============================================================================
