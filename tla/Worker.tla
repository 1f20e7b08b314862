------------------------------- MODULE Worker -------------------------------
(***************************************************************************)
(* The worker pool: each worker claims a job, runs it under a lease that a *)
(* heartbeat goroutine renews, and then cleans up, one call to Redis or    *)
(* PostgreSQL at a time.  Every such call is a step, because the other     *)
(* workers, the recovery loop and the clock run between any two of them.   *)
(*                                                                         *)
(* The run itself (retry policy, payload, inference with its retries, the  *)
(* chunks it publishes) is one stage that ends in success or failure.      *)
(***************************************************************************)
EXTENDS FairQueue, JobStore

CONSTANTS Workers, NoJob

ASSUME NoJobAssumption == NoJob \notin Jobs

VARIABLES stage,    \* where each worker is in processJob
          held,     \* the job it is processing, NoJob when idle
          lost,     \* its job context was cancelled with ErrLeaseExtendFailed
          produced  \* history: jobs whose inference succeeded in some run

workerVars == <<stage, held, lost, produced>>

Stages == {"idle", "gone", "run", "stop", "failRead", "failWrite", "failIdem",
           "failRelease", "failPublish", "mark", "doneRead", "doneWrite",
           "doneIdem", "doneClose", "doneRelease", "errClose", "errRelease"}

WorkerTypeOK == /\ stage \in [Workers -> Stages]
                /\ held \in [Workers -> Jobs \cup {NoJob}]
                /\ lost \in [Workers -> BOOLEAN]
                /\ produced \subseteq Jobs

WorkerInit == /\ stage = [w \in Workers |-> "idle"]
              /\ held = [w \in Workers |-> NoJob]
              /\ lost = [w \in Workers |-> FALSE]
              /\ produced = {}

Goto(w, s) == /\ stage' = [stage EXCEPT ![w] = s]
              /\ UNCHANGED <<held, lost, produced>>

(* processJob returns; the deferred calls end the job context.             *)
Return(w) == /\ stage' = [stage EXCEPT ![w] = "idle"]
             /\ held' = [held EXCEPT ![w] = NoJob]
             /\ lost' = [lost EXCEPT ![w] = FALSE]
             /\ UNCHANGED produced

(* runWorker returns: the goroutine ends, and the pool starts no other.    *)
Leave(w) == /\ stage' = [stage EXCEPT ![w] = "gone"]
            /\ held' = [held EXCEPT ![w] = NoJob]
            /\ lost' = [lost EXCEPT ![w] = FALSE]
            /\ UNCHANGED produced

(* ClaimNextJob hands out a job.  With no job the worker polls again.      *)
Claim(w) == /\ stage[w] = "idle"
            /\ Serve
            /\ stage' = [stage EXCEPT ![w] = "run"]
            /\ held' = [held EXCEPT ![w] = Head(queue[Head(ring)])]
            /\ UNCHANGED <<lost, produced, storeVars>>

(* The dequeue ran but its answer never arrived: the job is leased and     *)
(* nobody works on it.                                                     *)
ClaimReplyLost(w) == /\ stage[w] = "idle"
                     /\ Serve
                     /\ UNCHANGED <<workerVars, storeVars>>

(* The stages during which the heartbeat goroutine is alive.               *)
Beating(w) == stage[w] \in {"run", "stop", "mark", "doneRead", "doneWrite"} /\ ~lost[w]

(* ZADD without XX.                                                        *)
HeartbeatRecreates(w) ==
    /\ Beating(w)
    /\ Grant(held[w])
    /\ UNCHANGED <<completed, now, queueVars, storeVars, stage, held, lost, produced>>

(* A renewal: the lease is extended if the job has one, whoever it was     *)
(* granted to; otherwise the job context is cancelled.                     *)
Heartbeat(w) ==
    /\ Beating(w)
    /\ IF Leased(held[w])
         THEN /\ ExtendProcessingLease(held[w])
              /\ UNCHANGED lost
         ELSE /\ lost' = [lost EXCEPT ![w] = TRUE]
              /\ UNCHANGED leaseVars
    /\ UNCHANGED <<queueVars, storeVars, stage, held, produced>>

(* A renewal that failed for another reason.  The pool never stores the    *)
(* configured MaxRenewalFailures, so its limit is 0 and the first failure  *)
(* reaches it.                                                             *)
HeartbeatError(w) ==
    /\ Beating(w)
    /\ lost' = [lost EXCEPT ![w] = TRUE]
    /\ UNCHANGED <<fairVars, storeVars, stage, held, produced>>

(* The inference stream ended normally.  Nothing looks at the lease here.  *)
RunSucceeds(w) == /\ stage[w] = "run"
                  /\ stage' = [stage EXCEPT ![w] = "mark"]
                  /\ produced' = produced \cup {held[w]}
                  /\ UNCHANGED <<fairVars, storeVars, held, lost>>

(* The payload could not be read or inference failed for good.  With the   *)
(* job context cancelled, DoWithRetry returns context.Canceled instead of  *)
(* the cause; processJob wraps it, and runWorker, which takes it for the   *)
(* cancellation of the pool, returns.                                      *)
RunFails(w) == /\ stage[w] = "run"
               /\ IF lost[w] THEN Leave(w) ELSE Goto(w, "stop")
               /\ UNCHANGED <<fairVars, storeVars>>

(* stopHeartbeatAndWait, then the test of the cancellation cause: with the *)
(* lease lost by now the job is left without any cleanup.  Stopping may    *)
(* catch a renewal in flight, which then fails with the cancelled context, *)
(* and counts as a renewal failure like any other (interrupted).           *)
StopHeartbeat(w, interrupted) ==
    /\ stage[w] = "stop"
    /\ IF lost[w] \/ interrupted THEN Return(w) ELSE Goto(w, "failRead")
    /\ UNCHANGED <<fairVars, storeVars>>

(* MarkFailed: read, test, write.                                          *)
FailRead(w) == /\ stage[w] = "failRead"
               /\ Goto(w, IF CanFinish(held[w]) THEN "failWrite" ELSE "failIdem")
               /\ UNCHANGED <<fairVars, storeVars>>

FailWrite(w) == /\ stage[w] = "failWrite"
                /\ UpdateStatus(held[w], "failed")
                /\ Goto(w, "failIdem")
                /\ UNCHANGED fairVars

FailIdemSkipped(w) == /\ stage[w] = "failIdem"
                      /\ Goto(w, "failRelease")
                      /\ UNCHANGED <<fairVars, storeVars>>

FailIdem(w) == /\ stage[w] = "failIdem"
               /\ TransitionStatus(held[w], "failed")
               /\ Goto(w, "failRelease")
               /\ UNCHANGED fairVars

(* ZREM by job identifier; an entry that is gone is an error, logged only. *)
ReleaseHeld(w) == /\ IF Leased(held[w]) THEN ReleaseProcessingJob(held[w])
                                        ELSE UNCHANGED leaseVars
                  /\ UNCHANGED <<queueVars, storeVars>>

FailRelease(w) == /\ stage[w] = "failRelease"
                  /\ ReleaseHeld(w)
                  /\ Goto(w, "failPublish")

FailPublish(w) == /\ stage[w] = "failPublish"
                  /\ PublishTerminal(held[w], "failed")
                  /\ Return(w)
                  /\ UNCHANGED fairVars

(* The completion marker is written before PostgreSQL.                     *)
Mark(w) == /\ stage[w] = "mark"
           /\ MarkJobCompleted(held[w])
           /\ Goto(w, "doneRead")
           /\ UNCHANGED <<queueVars, storeVars>>

(* MarkCompleted: read, test, write.  An error leads to the short cleanup. *)
DoneRead(w) == /\ stage[w] = "doneRead"
               /\ Goto(w, IF CanFinish(held[w]) THEN "doneWrite" ELSE "errClose")
               /\ UNCHANGED <<fairVars, storeVars>>

DoneWrite(w) == /\ stage[w] = "doneWrite"
                /\ UpdateStatus(held[w], "completed")
                /\ Goto(w, "doneIdem")
                /\ UNCHANGED fairVars

DoneIdem(w) == /\ stage[w] = "doneIdem"
               /\ TransitionStatus(held[w], "completed")
               /\ Goto(w, "doneClose")
               /\ UNCHANGED fairVars

DoneClose(w) == /\ stage[w] = "doneClose"
                /\ PublishTerminal(held[w], "completed")
                /\ Goto(w, "doneRelease")
                /\ UNCHANGED fairVars

DoneRelease(w) == /\ stage[w] = "doneRelease"
                  /\ ReleaseHeld(w)
                  /\ Return(w)

ErrClose(w) == /\ stage[w] = "errClose"
               /\ PublishTerminal(held[w], "completed")
               /\ Goto(w, "errRelease")
               /\ UNCHANGED fairVars

ErrRelease(w) == /\ stage[w] = "errRelease"
                 /\ ReleaseHeld(w)
                 /\ Return(w)

(* Where processJob continues when the call of a stage returns an error    *)
(* and had no effect: most errors are logged and the next call is made.    *)
AfterError == [failRead |-> "failIdem", failWrite |-> "failIdem",
               failIdem |-> "failRelease", failRelease |-> "failPublish",
               failPublish |-> "idle", mark |-> "doneRead",
               doneRead |-> "errClose", doneWrite |-> "errClose",
               doneIdem |-> "doneClose", doneClose |-> "doneRelease",
               doneRelease |-> "idle", errClose |-> "errRelease",
               errRelease |-> "idle"]

CallError(w) ==
    /\ stage[w] \in DOMAIN AfterError
    /\ IF AfterError[stage[w]] = "idle" THEN Return(w)
                                        ELSE Goto(w, AfterError[stage[w]])
    /\ UNCHANGED <<fairVars, storeVars>>

(* The process of the worker dies; its successor starts idle.              *)
Crash(w) == /\ stage[w] # "idle"
            /\ Return(w)
            /\ UNCHANGED <<fairVars, storeVars>>

(* The calls and decisions a worker makes by itself, without its faults.   *)
WorkerStep(w) ==
    \/ Claim(w) \/ RunSucceeds(w) \/ RunFails(w)
    \/ (\E interrupted \in BOOLEAN : StopHeartbeat(w, interrupted))
    \/ FailRead(w) \/ FailWrite(w) \/ FailIdem(w) \/ FailRelease(w)
    \/ FailPublish(w)
    \/ Mark(w) \/ DoneRead(w) \/ DoneWrite(w) \/ DoneIdem(w) \/ DoneClose(w)
    \/ DoneRelease(w)
    \/ ErrClose(w) \/ ErrRelease(w)
=============================================================================
