------------------------------ MODULE Pipeline ------------------------------
(***************************************************************************)
(* The life of accepted jobs: submission, scheduler, worker pools and      *)
(* recovery loops together, over one Redis and one PostgreSQL.             *)
(*                                                                         *)
(* What may go wrong is bounded, so that runs end: a process dies          *)
(* (MaxCrashes), a call fails or its answer is lost (MaxErrors), or time   *)
(* passes faster than the work (MaxStalls): a lease runs out under its     *)
(* worker, or a job outlives the orphan grace period in the queue or in    *)
(* processing.  Of all of these together there are MaxFaults at most.      *)
(* Until the first stall, renewals and cleanup keep up with the clock, and *)
(* jobs finish within the grace period.                                    *)
(***************************************************************************)
EXTENDS Recovery

CONSTANTS MaxCrashes, MaxErrors, MaxStalls, MaxFaults

ASSUME FaultAssumption == {MaxCrashes, MaxErrors, MaxStalls, MaxFaults} \subseteq Nat

VARIABLES crashes, errors, stalls   \* faults still to come

faultVars == <<crashes, errors, stalls>>

vars == <<fairVars, storeVars, workerVars, recoveryVars, faultVars>>

TypeOK == /\ FairTypeOK /\ StoreTypeOK /\ WorkerTypeOK /\ RecoveryTypeOK
          /\ crashes \in 0..MaxCrashes
          /\ errors \in 0..MaxErrors
          /\ stalls \in 0..MaxStalls

Init == /\ FairInit /\ StoreInit /\ WorkerInit /\ RecoveryInit
        /\ crashes = MaxCrashes /\ errors = MaxErrors /\ stalls = MaxStalls

Spent == (MaxCrashes - crashes) + (MaxErrors - errors) + (MaxStalls - stalls)

Crashes == Spent < MaxFaults /\ crashes > 0 /\ crashes' = crashes - 1
Errs == Spent < MaxFaults /\ errors > 0 /\ errors' = errors - 1
Stalls == Spent < MaxFaults /\ stalls > 0 /\ stalls' = stalls - 1

(* Submit creates the job, then enqueues it.  The rejection of a full      *)
(* queue is the subject of module Submission.                              *)
Accept(j) == /\ phase[j] = "new"
             /\ Create(j)
             /\ phase' = [phase EXCEPT ![j] = "sending"]
             /\ UNCHANGED <<leaseVars, queue, ring, enqueueKey, workerVars,
                            recoveryVars, faultVars>>

EnqueueAccepted(j) == /\ phase[j] = "sending" /\ ~Full(j)
                      /\ Submit(j)
                      /\ UNCHANGED <<storeVars, workerVars, recoveryVars, faultVars>>

RequestEnds(j) == /\ phase[j] = "sending" /\ j \in enqueueKey
                  /\ SubmissionSettles(j)
                  /\ UNCHANGED <<storeVars, workerVars, recoveryVars, faultVars>>

(* The process of the request dies between the two, or the enqueue fails:  *)
(* the job is created and nobody has queued it.                            *)
LeavesOrphan(j) == /\ phase[j] = "sending" /\ j \notin enqueueKey
                   /\ Errs
                   /\ SubmissionSettles(j)
                   /\ UNCHANGED <<storeVars, workerVars, recoveryVars, crashes, stalls>>

(* A worker that has not yet given up its job, and the lease it counts on. *)
Holding(w) == stage[w] \notin {"idle", "gone", "failPublish"}

LosesLease(w) == Holding(w) /\ Leased(held[w]) /\ processing[held[w]] = now + 1

(* Time passes while some lease is running.                                *)
TimePasses ==
    /\ \E j \in Jobs : processing[j] > now
    /\ Tick
    /\ IF \E w \in Workers : LosesLease(w)
         THEN Stalls
         ELSE UNCHANGED stalls
    /\ UNCHANGED <<queueVars, storeVars, workerVars, recoveryVars, crashes, errors>>

(* The orphan grace period of a job runs out.  It is longer than the       *)
(* timeout of the submitting request.                                      *)
GraceEnds(j) ==
    /\ phase[j] = "settled"
    /\ Ages(j)
    /\ IF Pending(j) \/ Leased(j) \/ \E r \in Recoverers : rjob[r] = j
         THEN Stalls
         ELSE UNCHANGED stalls
    /\ UNCHANGED <<fairVars, workerVars, recoveryVars, crashes, errors>>

WorkerActs(w) == WorkerStep(w) /\ UNCHANGED <<recoveryVars, faultVars>>

HeartbeatActs(w) == Heartbeat(w) /\ UNCHANGED <<recoveryVars, faultVars>>

RecoveryActs(r) == RecoveryStep(r) /\ UNCHANGED faultVars

WorkerFault(w) ==
    \/ /\ Crashes
       /\ Crash(w)
       /\ UNCHANGED <<recoveryVars, errors, stalls>>
    \/ /\ Errs
       /\ \/ ClaimReplyLost(w) \/ HeartbeatError(w) \/ CallError(w)
       /\ UNCHANGED <<recoveryVars, crashes, stalls>>

RecoveryFault(r) ==
    \/ /\ Crashes
       /\ RecoveryCrash(r)
       /\ UNCHANGED <<errors, stalls>>
    \/ /\ Errs
       /\ \/ RecoveryCallError(r) \/ UnmarkError(r) \/ ListError(r)
          \/ \E j \in Jobs : SkipOne(r, j)
       /\ UNCHANGED <<crashes, stalls>>

Next == \/ \E j \in Jobs : Accept(j) \/ EnqueueAccepted(j) \/ RequestEnds(j)
                           \/ LeavesOrphan(j) \/ GraceEnds(j)
        \/ \E w \in Workers : WorkerActs(w) \/ HeartbeatActs(w) \/ WorkerFault(w)
        \/ \E r \in Recoverers : RecoveryActs(r) \/ RecoveryFault(r)
        \/ TimePasses

Spec == Init /\ [][Next]_vars

(* Requests end by their timeout; workers and recovery loops are goroutines*)
(* that the runtime schedules, inference is bounded by its idle timeout,   *)
(* and the clock runs.                                                     *)
Fairness == /\ \A j \in Jobs : /\ WF_vars(EnqueueAccepted(j)) /\ WF_vars(RequestEnds(j))
                             /\ WF_vars(GraceEnds(j))
            /\ \A w \in Workers : WF_vars(WorkerActs(w))
            /\ \A r \in Recoverers : WF_vars(RecoveryActs(r))
            /\ WF_vars(TimePasses)

FairPipeline == Spec /\ Fairness
-----------------------------------------------------------------------------
(* A job is in one place at most: not queued while leased, in spite of     *)
(* late workers, lost answers, crashes and concurrent recovery loops.      *)
OnePlace ==
    \A u \in Users : \A i \in 1..Len(queue[u]) :
       /\ Owner[queue[u][i]] = u /\ ~Leased(queue[u][i])
       /\ \A k \in 1..Len(queue[u]) : queue[u][i] = queue[u][k] => i = k

(* A job is reported as completed, in PostgreSQL, to subscribers or to a   *)
(* replayed request, only if inference for it has succeeded; no recovery   *)
(* path invents a result.                                                  *)
CompletedIsEarned ==
    \A j \in Jobs : "completed" \in {status[j], heard[j], idem[j]}
                       => j \in produced

RetryKept == \A j \in Jobs : retry'[j] >= retry[j]

(* The retry count of a job only grows: the count recoverOne read before   *)
(* the requeue is still the row's when it is written after it, whoever     *)
(* else has worked on the job in between.  This needs a single recovery    *)
(* loop: of two, the slower one writes the older count.                    *)
RetryNeverFalls == [][RetryKept]_vars

(* No two workers work on one job: with timely renewals, a job is handed   *)
(* out again only after its worker has given it up, in every crash and     *)
(* recovery.                                                               *)
SoleOwner == stalls = MaxStalls =>
    \A v, w \in Workers : Holding(v) /\ Holding(w) /\ held[v] = held[w] => v = w

StatusKept ==
    Spent = 0 => \A j \in Jobs : status[j] \in Terminal => status'[j] = status[j]

(* A terminal status is final (README, "Job state management"): no worker  *)
(* and no recovery loop overwrites it, as long as no fault has happened.   *)
(* The UPDATE itself does not see to it.                                   *)
TerminalIsFinal == [][StatusKept]_vars

(* Until the first fault, nobody is told of an end the row does not say:   *)
(* what a subscriber hears first, and what a repeated request is answered, *)
(* is the status of the job (the order of MarkFailed or MarkCompleted,     *)
(* TransitionStatus and Publish in worker and recovery).                   *)
ToldIsRecorded == Spent = 0 => \A j \in Jobs :
    /\ heard[j] \in {"none", status[j]}
    /\ idem[j] \in {"none", "in_flight", status[j]}

(* What a subscriber is told first, and what a repeated request is         *)
(* answered, is what the job's row says when all is done.                  *)
Settled(j) == status[j] \in Terminal /\ heard[j] = status[j] /\ idem[j] = status[j]

EventuallySettled ==
    \A j \in Jobs : (status[j] = "created") ~> [](Settled(j))

(* The workers that are left: a worker that lost its lease is not.         *)
Manned == \E w \in Workers : stage[w] # "gone"

(* Every accepted job reaches a terminal status for good, whatever crashes,*)
(* failing calls and stalls happen, as long as they end and leave a worker.*)
EventuallyTerminal ==
    \A j \in Jobs : (status[j] = "created") ~> [](status[j] \in Terminal \/ ~Manned)

(* Everything the scheduler kept for a job goes away in the end: queue     *)
(* entry, lease and completion marker, as long as a worker is left.        *)
EventuallyClean ==
    \A j \in Jobs : (status[j] = "created")
        ~> [](\/ ~Pending(j) /\ ~Leased(j) /\ j \notin completed
             \/ ~Manned)
-----------------------------------------------------------------------------
(* README, "Lease-based worker ownership": only the current lease owner    *)
(* can perform terminal state changes.                                     *)
OnlyOwnerFinishes ==
    [][\A w \in Workers : FailWrite(w) \/ DoneWrite(w) => Leased(held[w])]_vars

(* README, "Job state management": a job is in the durable state created   *)
(* temporarily, and a worker that loses ownership is recovered from.       *)
CreatedIsTemporary == \A j \in Jobs : (status[j] = "created") ~> (status[j] \in Terminal)
=============================================================================
