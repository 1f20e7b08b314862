------------------------------ MODULE Recovery ------------------------------
(***************************************************************************)
(* The recovery loop of each instance of the program: on every tick it     *)
(* sweeps expired leases, then reconciles completed-job markers, then      *)
(* sweeps orphans.  Each list is read once and worked off job by job, so   *)
(* what was read may be stale when it is acted on; every call is a step.   *)
(***************************************************************************)
EXTENDS Worker

CONSTANTS Recoverers, MaxAttempts

ASSUME MaxAttemptsAssumption == MaxAttempts \in Nat \ {0}

VARIABLES rstage,   \* where each loop is
          todo,     \* jobs of the current list not yet worked off
          rjob,     \* the job being worked on
          cutoff,   \* the time taken at the start of the sweep
          seen      \* the retry count read by recoverOne

recoveryVars == <<rstage, todo, rjob, cutoff, seen>>

RStages == {"wait", "sweep", "remove", "exhaust", "exhaustRead",
            "exhaustWrite", "exhaustIdem", "exhaustPublish", "requeue", "bump",
            "reconcile", "finishRead", "finishWrite", "finishIdem",
            "finishClose", "unmark", "adopt"}

RecoveryTypeOK == /\ rstage \in [Recoverers -> RStages]
                  /\ todo \in [Recoverers -> SUBSET Jobs]
                  /\ rjob \in [Recoverers -> Jobs \cup {NoJob}]
                  /\ cutoff \in [Recoverers -> Nat]
                  /\ seen \in [Recoverers -> Nat]

RecoveryInit == /\ rstage = [r \in Recoverers |-> "wait"]
                /\ todo = [r \in Recoverers |-> {}]
                /\ rjob = [r \in Recoverers |-> NoJob]
                /\ cutoff = [r \in Recoverers |-> 0]
                /\ seen = [r \in Recoverers |-> 0]

RGoto(r, s) == /\ rstage' = [rstage EXCEPT ![r] = s]
               /\ UNCHANGED <<todo, rjob, cutoff, seen>>

(* The list `jobs` has been read; stage s works it off.                    *)
RList(r, s, jobs) == /\ rstage' = [rstage EXCEPT ![r] = s]
                     /\ todo' = [todo EXCEPT ![r] = jobs]
                     /\ UNCHANGED <<rjob, seen>>

(* Done with the current job, back to the list of stage s.                 *)
RNext(r, s) == /\ rstage' = [rstage EXCEPT ![r] = s]
               /\ rjob' = [rjob EXCEPT ![r] = NoJob]
               /\ seen' = [seen EXCEPT ![r] = 0]
               /\ UNCHANGED <<todo, cutoff>>

RTake(r, j) == /\ j \in todo[r]
               /\ todo' = [todo EXCEPT ![r] = @ \ {j}]

(* Sweep: the cutoff and the list of expired leases.                       *)
SweepStart(r) == /\ rstage[r] = "wait"
                 /\ cutoff' = [cutoff EXCEPT ![r] = now]
                 /\ RList(r, "sweep", ExpiredJobIDs(now))
                 /\ UNCHANGED <<fairVars, storeVars, workerVars>>

(* recoverOne: the row and the retry policy are read, and decide.          *)
RecoverOne(r, j) ==
    /\ rstage[r] = "sweep"
    /\ RTake(r, j)
    /\ rjob' = [rjob EXCEPT ![r] = j]
    /\ seen' = [seen EXCEPT ![r] = retry[j]]
    /\ rstage' = [rstage EXCEPT ![r] =
                     IF status[j] # "created" THEN "remove"
                     ELSE IF retry[j] >= MaxAttempts THEN "exhaust"
                     ELSE "requeue"]
    /\ UNCHANGED <<fairVars, storeVars, workerVars, cutoff>>

(* A job that is already terminal only loses its expired lease.            *)
RemoveFinished(r) ==
    /\ rstage[r] = "remove"
    /\ IF Expired(rjob[r], cutoff[r]) THEN Discard(rjob[r], cutoff[r])
                                      ELSE UNCHANGED fairVars
    /\ RNext(r, "sweep")
    /\ UNCHANGED <<storeVars, workerVars>>

(* The retry limit is reached: claim the job by removing its lease, mark   *)
(* it failed, move the key, publish.                                       *)
Exhaust(r) ==
    /\ rstage[r] = "exhaust"
    /\ IF Expired(rjob[r], cutoff[r])
         THEN Discard(rjob[r], cutoff[r]) /\ RGoto(r, "exhaustRead")
         ELSE UNCHANGED fairVars /\ RNext(r, "sweep")
    /\ UNCHANGED <<storeVars, workerVars>>

ExhaustRead(r) == /\ rstage[r] = "exhaustRead"
                  /\ IF CanFinish(rjob[r]) THEN RGoto(r, "exhaustWrite")
                                           ELSE RNext(r, "sweep")
                  /\ UNCHANGED <<fairVars, storeVars, workerVars>>

ExhaustWrite(r) == /\ rstage[r] = "exhaustWrite"
                   /\ UpdateStatus(rjob[r], "failed")
                   /\ RGoto(r, "exhaustIdem")
                   /\ UNCHANGED <<fairVars, workerVars>>

ExhaustIdem(r) == /\ rstage[r] = "exhaustIdem"
                  /\ TransitionStatus(rjob[r], "failed")
                  /\ RGoto(r, "exhaustPublish")
                  /\ UNCHANGED <<fairVars, workerVars>>

ExhaustPublishCloses(r) == /\ rstage[r] = "exhaustPublish"
                           /\ PublishTerminal(rjob[r], "completed")
                           /\ RNext(r, "sweep")
                           /\ UNCHANGED <<fairVars, workerVars>>

ExhaustPublish(r) == /\ rstage[r] = "exhaustPublish"
                     /\ PublishTerminal(rjob[r], "failed")
                     /\ RNext(r, "sweep")
                     /\ UNCHANGED <<fairVars, workerVars>>

(* Attempts remain: back to the queue, then the count of the row read.     *)
RequeueLost(r) ==
    /\ rstage[r] = "requeue"
    /\ IF Expired(rjob[r], cutoff[r])
         THEN Requeue(rjob[r], cutoff[r]) /\ RGoto(r, "bump")
         ELSE UNCHANGED fairVars /\ RNext(r, "sweep")
    /\ UNCHANGED <<storeVars, workerVars>>

BumpRetryFromZero(r) == /\ rstage[r] = "bump"
                        /\ UpdateCreated(rjob[r], 0)
                        /\ RNext(r, "sweep")
                        /\ UNCHANGED <<fairVars, workerVars>>

BumpRetry(r) == /\ rstage[r] = "bump"
                /\ UpdateCreated(rjob[r], seen[r] + 1)
                /\ RNext(r, "sweep")
                /\ UNCHANGED <<fairVars, workerVars>>

(* ReconcileCompleted: the list of markers.                                *)
ReconcileStart(r) == /\ rstage[r] = "sweep" /\ todo[r] = {}
                     /\ RList(r, "reconcile", completed)
                     /\ UNCHANGED <<fairVars, storeVars, workerVars, cutoff>>

(* The row decides whether PostgreSQL still has to be brought up to date;  *)
(* a terminal row, failed ones included, goes straight on.                 *)
ReconcileOne(r, j) ==
    /\ rstage[r] = "reconcile"
    /\ RTake(r, j)
    /\ rjob' = [rjob EXCEPT ![r] = j]
    /\ rstage' = [rstage EXCEPT ![r] = IF status[j] = "created" THEN "finishRead"
                                                               ELSE "finishIdem"]
    /\ UNCHANGED <<fairVars, storeVars, workerVars, cutoff, seen>>

FinishRead(r) == /\ rstage[r] = "finishRead"
                 /\ IF CanFinish(rjob[r]) THEN RGoto(r, "finishWrite")
                                          ELSE RNext(r, "reconcile")
                 /\ UNCHANGED <<fairVars, storeVars, workerVars>>

FinishWrite(r) == /\ rstage[r] = "finishWrite"
                  /\ UpdateStatus(rjob[r], "completed")
                  /\ RGoto(r, "finishIdem")
                  /\ UNCHANGED <<fairVars, workerVars>>

FinishIdem(r) == /\ rstage[r] = "finishIdem"
                 /\ TransitionStatus(rjob[r], "completed")
                 /\ RGoto(r, "finishClose")
                 /\ UNCHANGED <<fairVars, workerVars>>

FinishClose(r) == /\ rstage[r] = "finishClose"
                  /\ PublishTerminal(rjob[r], "completed")
                  /\ RGoto(r, "unmark")
                  /\ UNCHANGED <<fairVars, workerVars>>

UnmarkForgotten(r) == /\ rstage[r] = "unmark"
                      /\ RNext(r, "reconcile")
                      /\ UNCHANGED <<fairVars, storeVars, workerVars>>

Unmark(r) == /\ rstage[r] = "unmark"
             /\ RemoveCompletedJob(rjob[r])
             /\ RNext(r, "reconcile")
             /\ UNCHANGED <<queueVars, storeVars, workerVars>>

(* SweepOrphans: created jobs older than the grace period.                 *)
OrphansStart(r) == /\ rstage[r] = "reconcile" /\ todo[r] = {}
                   /\ RList(r, "adopt", PendingOrphans)
                   /\ UNCHANGED <<fairVars, storeVars, workerVars, cutoff>>

AdoptOrphan(r, j) ==
    /\ rstage[r] = "adopt"
    /\ RTake(r, j)
    /\ IF j \in completed \/ Leased(j) \/ Pending(j) \/ Full(j)
         THEN UNCHANGED fairVars
         ELSE Adopt(j)
    /\ UNCHANGED <<storeVars, workerVars, rstage, rjob, cutoff, seen>>

PassEnds(r) == /\ rstage[r] = "adopt" /\ todo[r] = {}
               /\ cutoff' = [cutoff EXCEPT ![r] = 0]
               /\ RList(r, "wait", {})
               /\ UNCHANGED <<fairVars, storeVars, workerVars>>

(* Where the loop continues when a call returns an error without effect.   *)
AfterRecoveryError ==
    [remove |-> "sweep", exhaust |-> "sweep", exhaustRead |-> "sweep",
     exhaustWrite |-> "sweep", exhaustIdem |-> "sweep",
     exhaustPublish |-> "sweep", requeue |-> "sweep", bump |-> "sweep",
     finishRead |-> "reconcile", finishWrite |-> "reconcile",
     finishIdem |-> "reconcile", finishClose |-> "unmark"]

RecoveryCallError(r) ==
    /\ rstage[r] \in DOMAIN AfterRecoveryError
    /\ IF rstage[r] = "finishClose" THEN RGoto(r, "unmark")
                                    ELSE RNext(r, AfterRecoveryError[rstage[r]])
    /\ UNCHANGED <<fairVars, storeVars, workerVars>>

(* The row, or the state of an orphan, could not be read: the job waits    *)
(* for the next pass.                                                      *)
SkipOne(r, j) == /\ rstage[r] \in {"sweep", "reconcile", "adopt"}
                 /\ RTake(r, j)
                 /\ UNCHANGED <<fairVars, storeVars, workerVars, rstage, rjob,
                                cutoff, seen>>

(* A list could not be read: the pass goes on with the next one.           *)
ListError(r) ==
    /\ todo[r] = {}
    /\ \/ rstage[r] = "wait" /\ RGoto(r, "sweep")
       \/ rstage[r] = "sweep" /\ RGoto(r, "reconcile")
       \/ rstage[r] = "reconcile" /\ RGoto(r, "adopt")
    /\ UNCHANGED <<fairVars, storeVars, workerVars>>

(* A marker that cannot be removed ends the reconciliation of this pass;   *)
(* the orphan sweep follows.                                               *)
UnmarkError(r) == /\ rstage[r] = "unmark"
                  /\ rstage' = [rstage EXCEPT ![r] = "reconcile"]
                  /\ todo' = [todo EXCEPT ![r] = {}]
                  /\ rjob' = [rjob EXCEPT ![r] = NoJob]
                  /\ UNCHANGED <<fairVars, storeVars, workerVars, cutoff, seen>>

(* The process dies, or Stop cancels the loop's context and every later    *)
(* call of the pass fails.                                                 *)
RecoveryCrash(r) == /\ rstage[r] # "wait"
                    /\ rstage' = [rstage EXCEPT ![r] = "wait"]
                    /\ todo' = [todo EXCEPT ![r] = {}]
                    /\ rjob' = [rjob EXCEPT ![r] = NoJob]
                    /\ cutoff' = [cutoff EXCEPT ![r] = 0]
                    /\ seen' = [seen EXCEPT ![r] = 0]
                    /\ UNCHANGED <<fairVars, storeVars, workerVars>>

RecoveryStep(r) ==
    \/ SweepStart(r) \/ (\E j \in Jobs : RecoverOne(r, j)) \/ RemoveFinished(r)
    \/ Exhaust(r) \/ ExhaustRead(r) \/ ExhaustWrite(r) \/ ExhaustIdem(r)
    \/ ExhaustPublish(r) \/ RequeueLost(r) \/ BumpRetry(r)
    \/ ReconcileStart(r) \/ (\E j \in Jobs : ReconcileOne(r, j))
    \/ FinishRead(r) \/ FinishWrite(r) \/ FinishIdem(r) \/ FinishClose(r)
    \/ Unmark(r)
    \/ OrphansStart(r) \/ (\E j \in Jobs : AdoptOrphan(r, j)) \/ PassEnds(r)
=============================================================================
