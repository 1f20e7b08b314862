------------------------- MODULE PipelineStepProofs -------------------------
(***************************************************************************)
(* What the steps of the composition do and never do, for any number of    *)
(* jobs, users, workers and faults:                                        *)
(*   - RetryNeverFalls, with one recovery loop, which knows the count of   *)
(*     the row it requeues (Counted);                                      *)
(*   - TerminalIsFinal, while no fault has happened, from where every open *)
(*     and every finished job then is (Calm);                              *)
(*   - ToldIsRecorded, in the same executions, from who is between writing *)
(*     a row and telling of it (TellersInv);                               *)
(*   - every step is one of the shared queue (FairQueue) or leaves the     *)
(*     queue alone: the composition implements it.                         *)
(***************************************************************************)
EXTENDS PipelineProofs

(* Most steps need no arithmetic.                                          *)
USE Zenon

(* A recovery loop that is about to requeue a job, or has requeued it,     *)
(* knows the retry count of its row; a job without a row has none.         *)
Counted ==
    /\ \A j \in Jobs : status[j] = "absent" => retry[j] = 0
    /\ \A r \in Recoverers : rstage[r] \in {"requeue", "bump"} =>
          seen[r] = retry[rjob[r]] /\ status[rjob[r]] # "absent"

(* No row is created and no count written, and no loop starts a requeue.   *)
LEMMA CountedKept ==
  ASSUME RecoveryInv, Counted, retry' = retry,
         \A j \in Jobs : status'[j] = "absent" => status[j] = "absent",
         \A r \in Recoverers : rstage'[r] \in {"requeue", "bump"} =>
            /\ rstage[r] \in {"requeue", "bump"}
            /\ rjob'[r] = rjob[r] /\ seen'[r] = seen[r]
  PROVE  Counted'
<1>1. \A r \in Recoverers : rstage[r] \in {"requeue", "bump"} => rjob[r] \in Jobs
  BY DEF RecoveryInv
<1> QED
  BY SMT, <1>1 DEF Counted

(* What a worker writes to the row of its job is a terminal status.        *)
LEMMA WorkerWrites ==
  ASSUME WorkInv, ResultInv, NEW w \in Workers,
         \/ WorkerStep(w) \/ Heartbeat(w) \/ Crash(w)
         \/ ClaimReplyLost(w) \/ HeartbeatError(w) \/ CallError(w)
  PROVE  /\ retry' = retry /\ old' = old
         /\ \/ status' = status
            \/ FailWrite(w) /\ status' = [status EXCEPT ![held[w]] = "failed"]
            \/ DoneWrite(w) /\ status' = [status EXCEPT ![held[w]] = "completed"]
<1>1. CASE FailWrite(w) \/ DoneWrite(w)
  BY <1>1 DEF FailWrite, DoneWrite, UpdateStatus
<1>2. CASE ~(FailWrite(w) \/ DoneWrite(w))
  BY <1>2 DEF WorkerStep, Heartbeat, Crash, ClaimReplyLost, HeartbeatError, CallError, Claim,
              RunSucceeds, RunFails, StopHeartbeat, FailRead, FailIdem, FailRelease, FailPublish,
              Mark, DoneRead, DoneIdem, DoneClose, DoneRelease, ErrClose, ErrRelease,
              ReleaseHeld, TransitionStatus, PublishTerminal, storeVars
<1> QED
  BY <1>1, <1>2

(* What a recovery loop writes to a row.                                   *)
LEMMA RecoveryWrites ==
  ASSUME NEW r \in Recoverers,
         \/ RecoveryStep(r) \/ RecoveryCrash(r) \/ RecoveryCallError(r) \/ UnmarkError(r)
         \/ ListError(r) \/ \E j \in Jobs : SkipOne(r, j)
  PROVE  /\ old' = old
         /\ retry' = retry \/ BumpRetry(r)
         /\ \/ status' = status
            \/ ExhaustWrite(r) /\ status' = [status EXCEPT ![rjob[r]] = "failed"]
            \/ FinishWrite(r) /\ status' = [status EXCEPT ![rjob[r]] = "completed"]
<1>1. CASE ExhaustWrite(r) \/ FinishWrite(r)
  BY <1>1 DEF ExhaustWrite, FinishWrite, UpdateStatus
<1>2. CASE BumpRetry(r)
  BY <1>2 DEF BumpRetry, UpdateCreated
<1>3. CASE ~(ExhaustWrite(r) \/ FinishWrite(r) \/ BumpRetry(r))
  BY <1>3 DEF RecoveryStep, SweepStart, RemoveFinished, Exhaust, ExhaustRead, ExhaustIdem,
              ExhaustPublish, RequeueLost, ReconcileStart, FinishRead, FinishIdem, FinishClose,
              OrphansStart, PassEnds, RecoveryCrash, RecoveryCallError, UnmarkError, ListError,
              RecoverOne, ReconcileOne, SkipOne, AdoptOrphan, Unmark, TransitionStatus,
              PublishTerminal, storeVars
<1> QED
  BY <1>1, <1>2, <1>3

(* A loop comes to a requeue by recoverOne, which has just read the row.   *)
LEMMA RequeueStarts ==
  ASSUME RecoveryInv, NEW r \in Recoverers,
         \/ RecoveryStep(r) \/ RecoveryCrash(r) \/ RecoveryCallError(r) \/ UnmarkError(r)
         \/ ListError(r) \/ \E j \in Jobs : SkipOne(r, j)
  PROVE  /\ \A q \in Recoverers : q # r =>
               rstage'[q] = rstage[q] /\ rjob'[q] = rjob[q] /\ seen'[q] = seen[q]
         /\ rstage'[r] \in {"requeue", "bump"} =>
               \/ /\ rstage[r] \in {"requeue", "bump"}
                  /\ rjob'[r] = rjob[r] /\ seen'[r] = seen[r]
               \/ \E j \in Jobs : /\ rjob'[r] = j /\ seen'[r] = retry[j] /\ status[j] = "created"
                                  /\ UNCHANGED storeVars
<1> USE DEF RecoveryInv, RecoveryTypeOK
<1>1. CASE RequeueLost(r)
  BY <1>1 DEF RequeueLost, RGoto, RNext
<1>2. CASE \E j \in Jobs : RecoverOne(r, j)
  BY <1>2 DEF RecoverOne
<1>3. CASE SweepStart(r) \/ ReconcileStart(r) \/ OrphansStart(r) \/ PassEnds(r)
  BY <1>3 DEF SweepStart, ReconcileStart, OrphansStart, PassEnds, RList
<1>4. CASE \E j \in Jobs : ReconcileOne(r, j) \/ AdoptOrphan(r, j) \/ SkipOne(r, j)
  BY <1>4 DEF ReconcileOne, AdoptOrphan, SkipOne
<1>5. CASE \/ RemoveFinished(r) \/ Exhaust(r) \/ ExhaustRead(r) \/ ExhaustWrite(r)
           \/ ExhaustIdem(r) \/ ExhaustPublish(r) \/ BumpRetry(r)
  BY <1>5 DEF RemoveFinished, Exhaust, ExhaustRead, ExhaustWrite, ExhaustIdem, ExhaustPublish,
              BumpRetry, RGoto, RNext
<1>6. CASE \/ FinishRead(r) \/ FinishWrite(r) \/ FinishIdem(r) \/ FinishClose(r) \/ Unmark(r)
  BY <1>6 DEF FinishRead, FinishWrite, FinishIdem, FinishClose, Unmark, RGoto, RNext
<1>7. CASE UnmarkError(r) \/ RecoveryCrash(r) \/ ListError(r)
  BY <1>7 DEF UnmarkError, RecoveryCrash, ListError, RGoto
<1>8. CASE RecoveryCallError(r)
  <2>1. CASE rstage[r] = "finishClose"
    BY <1>8, <2>1 DEF RecoveryCallError, RGoto
  <2>2. CASE rstage[r] # "finishClose"
    <3>1. RNext(r, AfterRecoveryError[rstage[r]]) /\ rstage[r] \in DOMAIN AfterRecoveryError
      BY <1>8, <2>2 DEF RecoveryCallError
    <3>2. rstage[r] \in {"remove", "exhaust", "exhaustRead", "exhaustWrite", "exhaustIdem",
                         "exhaustPublish", "requeue", "bump", "finishRead", "finishWrite",
                         "finishIdem"}
      BY <2>2, <3>1 DEF AfterRecoveryError
    <3>3. AfterRecoveryError[rstage[r]] \in {"sweep", "reconcile"}
      BY SMT, <3>2 DEF AfterRecoveryError
    <3> QED
      BY <3>1, <3>3 DEF RNext
  <2> QED
    BY <2>1, <2>2
<1> QED
  BY <1>1, <1>2, <1>3, <1>4, <1>5, <1>6, <1>7, <1>8 DEF RecoveryStep

(* With one recovery loop, nobody writes a count between its reading and   *)
(* its writing.                                                            *)
LEMMA CountedNext ==
  ASSUME \A r, q \in Recoverers : r = q, IndInv, Counted, [Next]_vars
  PROVE  Counted' /\ RetryKept
<1>1. /\ RecoveryInv /\ WorkInv /\ ResultInv /\ retry \in [Jobs -> Nat]
      /\ status \in [Jobs -> {"absent", "created"} \cup Terminal]
  BY DEF IndInv, ResultInv, StoreTypeOK
<1>2. ASSUME NEW w \in Workers, WorkerActs(w) \/ HeartbeatActs(w) \/ WorkerFault(w)
      PROVE  Counted' /\ RetryKept
  <2>1. /\ \/ WorkerStep(w) \/ Heartbeat(w) \/ Crash(w)
           \/ ClaimReplyLost(w) \/ HeartbeatError(w) \/ CallError(w)
        /\ UNCHANGED <<rstage, rjob, seen>>
    BY <1>2 DEF WorkerActs, HeartbeatActs, WorkerFault, recoveryVars
  <2>2. /\ retry' = retry
        /\ \/ status' = status
           \/ FailWrite(w) /\ status' = [status EXCEPT ![held[w]] = "failed"]
           \/ DoneWrite(w) /\ status' = [status EXCEPT ![held[w]] = "completed"]
    BY <1>1, <2>1, WorkerWrites
  <2> QED
    BY SMT, <1>1, <2>1, <2>2, CountedKept DEF RetryKept
<1>3. ASSUME NEW r \in Recoverers, RecoveryActs(r) \/ RecoveryFault(r)
      PROVE  Counted' /\ RetryKept
  <2>1. \/ RecoveryStep(r) \/ RecoveryCrash(r) \/ RecoveryCallError(r) \/ UnmarkError(r)
        \/ ListError(r) \/ \E j \in Jobs : SkipOne(r, j)
    BY <1>3 DEF RecoveryActs, RecoveryFault
  <2>2. CASE BumpRetry(r)
    <3>1. /\ rstage[r] = "bump" /\ rjob[r] \in Jobs /\ seen[r] = retry[rjob[r]]
          /\ retry' = IF status[rjob[r]] = "created"
                        THEN [retry EXCEPT ![rjob[r]] = seen[r] + 1] ELSE retry
          /\ status' = status /\ rstage'[r] = "sweep"
      BY <1>1, <2>2 DEF BumpRetry, UpdateCreated, RNext, RecoveryInv, RecoveryTypeOK, Counted
    <3>2. RetryKept
      BY SMT, <1>1, <3>1 DEF RetryKept
    <3>3. Counted'
      <4>1. \A q \in Recoverers : rstage'[q] \notin {"requeue", "bump"}
        BY <3>1
      <4>2. \A j \in Jobs : status'[j] = "absent" => retry'[j] = 0
        BY <1>1, <3>1 DEF Counted
      <4> QED
        BY <4>1, <4>2 DEF Counted
    <3> QED
      BY <3>2, <3>3
  <2>3. CASE ~BumpRetry(r)
    <3>1. /\ retry' = retry
          /\ \A j \in Jobs : status'[j] = "absent" => status[j] = "absent"
      BY <1>1, <2>1, <2>3, RecoveryWrites
    <3>2. RetryKept
      BY SMT, <1>1, <3>1 DEF RetryKept
    <3>3. CASE /\ rstage'[r] \in {"requeue", "bump"}
               /\ \E j \in Jobs : /\ rjob'[r] = j /\ seen'[r] = retry[j] /\ status[j] = "created"
                                  /\ UNCHANGED storeVars
      <4>1. \A q \in Recoverers : q = r
        OBVIOUS
      <4> QED
        BY <3>1, <3>2, <3>3, <4>1 DEF Counted, storeVars
    <3>4. CASE rstage'[r] \in {"requeue", "bump"} =>
                 /\ rstage[r] \in {"requeue", "bump"}
                 /\ rjob'[r] = rjob[r] /\ seen'[r] = seen[r]
      <4>1. \A q \in Recoverers : q = r
        OBVIOUS
      <4>2. \A q \in Recoverers : rstage'[q] \in {"requeue", "bump"} =>
               /\ rstage[q] \in {"requeue", "bump"}
               /\ rjob'[q] = rjob[q] /\ seen'[q] = seen[q]
        BY <3>4, <4>1
      <4> QED
        BY <1>1, <3>1, <3>2, <4>2, CountedKept
    <3> QED
      BY <1>1, <2>1, <3>3, <3>4, RequeueStarts
  <2> QED
    BY <2>2, <2>3
<1>4. ASSUME NEW j \in Jobs, Accept(j)
      PROVE  Counted' /\ RetryKept
  <2>1. /\ status[j] = "absent" /\ retry[j] = 0 /\ status' = [status EXCEPT ![j] = "created"]
        /\ retry' = [retry EXCEPT ![j] = 1] /\ UNCHANGED <<rstage, rjob, seen>>
    BY <1>4 DEF Accept, Create, Counted, recoveryVars
  <2>2. RetryKept
    BY SMT, <1>1, <2>1 DEF RetryKept
  <2>3. \A r \in Recoverers : rstage[r] \in {"requeue", "bump"} => rjob[r] \in Jobs /\ rjob[r] # j
    BY <1>1, <2>1 DEF Counted, RecoveryInv
  <2> QED
    BY <1>1, <2>1, <2>2, <2>3 DEF Counted
<1>5. CASE \/ \E j \in Jobs : \/ EnqueueAccepted(j) \/ RequestEnds(j)
                              \/ LeavesOrphan(j) \/ GraceEnds(j)
           \/ TimePasses \/ UNCHANGED vars
  <2>1. UNCHANGED <<retry, status, rstage, rjob, seen>>
    BY <1>5 DEF EnqueueAccepted, RequestEnds, LeavesOrphan, GraceEnds, Ages, TimePasses, vars,
                storeVars, recoveryVars
  <2> QED
    BY SMT, <1>1, <2>1, CountedKept DEF RetryKept
<1> QED
  BY <1>2, <1>3, <1>4, <1>5 DEF Next

(* With one instance of the program, whose loop is the only one, the       *)
(* number of attempts in a job's row never falls, whatever crashes, fails  *)
(* or comes late: no sequence of recoveries of any length gives a job back *)
(* attempts that it has used.                                              *)
THEOREM RetryNeverFallsAlways ==
  ASSUME \A r, q \in Recoverers : r = q
  PROVE  Spec => RetryNeverFalls
<1>1. Init => Counted
  BY SMT DEF Init, StoreInit, RecoveryInit, Counted
<1>2. IndInv /\ Counted /\ [Next]_vars => Counted' /\ RetryKept
  BY CountedNext
<1>3. Spec => []IndInv
  BY PipelineTyped, PTL
<1> QED
  BY <1>1, <1>2, <1>3, PTL DEF Spec, RetryNeverFalls

-----------------------------------------------------------------------------
(* Until the first fault, every job that was queued at some time and is    *)
(* still created is in one place, and whoever writes its row is the only   *)
(* one who may.                                                            *)
Known(j) == j \in enqueueKey \/ phase[j] = "settled"

(* Recovery loop r has taken the lease of its job away to fail it.         *)
Failing(r) == rstage[r] \in {"exhaustRead", "exhaustWrite"}

(* What the row of the job in hand says.                                   *)
RowInHand(w) ==
    /\ stage[w] \in {"run", "stop", "mark", "failRead", "failWrite"} =>
          status[held[w]] = "created"
    /\ stage[w] \in {"doneRead", "doneWrite"} => status[held[w]] \in {"created", "completed"}
    /\ stage[w] \in {"failIdem", "failRelease"} => status[held[w]] = "failed"
    /\ stage[w] \in {"doneIdem", "doneClose", "doneRelease", "errClose", "errRelease"} =>
          status[held[w]] = "completed"

HandsInv == \A w \in Workers : ~lost[w] /\ RowInHand(w)

(* A leased or queued job is still to be done, or its worker has just      *)
(* written the row.                                                        *)
PlacesInv == \A j \in Jobs :
    /\ Leased(j) => \/ status[j] = "created"
                    \/ \E w \in Workers : Holding(w) /\ held[w] = j
    /\ Pending(j) => status[j] = "created"

(* A job that is being failed is nowhere else.                             *)
FailingInv == \A r \in Recoverers : Failing(r) =>
    /\ status[rjob[r]] = "created" /\ Known(rjob[r])
    /\ ~Leased(rjob[r]) /\ ~Pending(rjob[r])
    /\ \A q \in Recoverers : Failing(q) /\ rjob[q] = rjob[r] => q = r

(* A job that was queued is not forgotten, and no job becomes an orphan.   *)
NoOrphan == \A j \in Jobs :
    /\ status[j] = "created" /\ Known(j) =>
          Pending(j) \/ Leased(j) \/ \E r \in Recoverers : Failing(r) /\ rjob[r] = j
    /\ phase[j] = "sending" /\ j \notin enqueueKey => status[j] = "created"
    /\ phase[j] = "new" => j \notin enqueueKey

(* What the lists of the recovery loops hold.                              *)
ListsInv ==
    /\ old = {}
    /\ \A r \in Recoverers :
          /\ rstage[r] = "adopt" => todo[r] = {}
          /\ \A j \in todo[r] : status[j] # "absent"
          /\ rstage[r] = "remove" => status[rjob[r]] \in Terminal

(* Where a completion marker is, or was when a recovery loop read it.      *)
Marked(j) ==
    \/ j \in completed
    \/ \E r \in Recoverers : rstage[r] \in FinishStages /\ rjob[r] = j
    \/ \E r \in Recoverers : rstage[r] \in FinishStages \cup {"reconcile"} /\ j \in todo[r]

MarkedInv == \A j \in Jobs : Marked(j) =>
    \/ status[j] = "completed"
    \/ \E w \in Workers : held[w] = j /\ stage[w] \in {"doneRead", "doneWrite"}

Calm == HandsInv /\ PlacesInv /\ FailingInv /\ NoOrphan /\ ListsInv /\ MarkedInv

(* What the two invariants say together of a job in hand, of a lease that  *)
(* has expired and of a job in the queue.                                  *)
LEMMA CalmFacts ==
  ASSUME IndInv, stalls = MaxStalls, Calm
  PROVE  /\ \A w \in Workers : Holding(w) => held[w] \in Jobs /\ Leased(held[w])
         /\ \A v, w \in Workers : Holding(v) /\ Holding(w) /\ held[v] = held[w] => v = w
         /\ \A j \in Jobs : Leased(j) => ~Pending(j)
         /\ \A j \in Jobs : Leased(j) \/ Pending(j) => Known(j) /\ status[j] # "absent"
         /\ \A r \in Recoverers : \A j \in Jobs : Expired(j, cutoff[r]) =>
               /\ Leased(j) /\ status[j] = "created"
               /\ \A w \in Workers : Holding(w) => held[w] # j
         /\ \A w \in Workers : Holding(w) => status[held[w]] # "absent"
<1>1. \A w \in Workers : Holding(w) => held[w] \in Jobs
  BY DEF IndInv, WorkInv, Holding
<1>2. /\ processing \in [Jobs -> Nat] /\ now \in Nat /\ cutoff \in [Recoverers -> Nat]
      /\ \A w \in Workers : Holding(w) => processing[held[w]] > now
      /\ \A r \in Recoverers : cutoff[r] <= now
  BY DEF IndInv, OwnerInv, QueueInv, FairTypeOK, LeaseTypeOK, RecoveryInv, RecoveryTypeOK
<1>3. \A w \in Workers : Holding(w) => Leased(held[w])
  BY SMT, <1>1, <1>2 DEF Leased
<1>4. \A v, w \in Workers : Holding(v) /\ Holding(w) /\ held[v] = held[w] => v = w
  BY DEF IndInv, OwnerInv, SoleOwner
<1>5. \A j \in Jobs : Leased(j) => ~Pending(j)
  BY SMT, OwnerAssumption DEF IndInv, QueueInv, Placed, Pending
<1>6. \A w \in Workers : Holding(w) => status[held[w]] # "absent"
  <2>1. ASSUME NEW w \in Workers, Holding(w) PROVE status[held[w]] # "absent"
    <3>1. stage[w] \in Stages \ {"idle", "gone", "failPublish"} /\ RowInHand(w)
      BY <2>1 DEF IndInv, WorkInv, WorkerTypeOK, Holding, Calm, HandsInv
    <3> QED
      BY <3>1 DEF RowInHand, Stages
  <2> QED
    BY <2>1
<1>7. \A j \in Jobs : Leased(j) \/ Pending(j) => Known(j) /\ status[j] # "absent"
  <2>1. \A j \in Jobs : Leased(j) \/ Pending(j) => Known(j)
    BY DEF IndInv, QueueInv, UnsentInv, Known
  <2>2. \A j \in Jobs : Leased(j) \/ Pending(j) => status[j] # "absent"
    BY <1>6 DEF Calm, PlacesInv
  <2> QED
    BY <2>1, <2>2
<1>8. ASSUME NEW r \in Recoverers, NEW j \in Jobs, Expired(j, cutoff[r])
      PROVE  /\ Leased(j) /\ status[j] = "created"
             /\ \A w \in Workers : Holding(w) => held[w] # j
  <2>1. Leased(j) /\ processing[j] <= cutoff[r]
    BY <1>8 DEF Expired
  <2>2. ~(processing[j] > now)
    BY <1>2, <2>1, BeforeCutoff
  <2>3. \A w \in Workers : Holding(w) => held[w] # j
    BY <1>2, <2>2
  <2> QED
    BY <2>1, <2>3 DEF Calm, PlacesInv
<1> QED
  BY <1>1, <1>3, <1>4, <1>5, <1>6, <1>7, <1>8

(* A worker goes on, and nothing else changes: the job it lets go is       *)
(* created, or it keeps the job.                                           *)
LEMMA WorkerMoves ==
  ASSUME Calm, NEW w \in Workers,
         UNCHANGED <<status, old, processing, queue, completed, enqueueKey, phase, recoveryVars>>,
         \A v \in Workers : v # w => stage'[v] = stage[v] /\ held'[v] = held[v],
         \A v \in Workers : ~lost'[v],
         RowInHand(w)',
         Holding(w) => \/ status[held[w]] = "created"
                       \/ Holding(w)' /\ held'[w] = held[w],
         stage[w] \in {"doneRead", "doneWrite"} =>
            /\ held'[w] = held[w]
            /\ status[held[w]] = "completed" \/ stage'[w] \in {"doneRead", "doneWrite"}
  PROVE  Calm'
<1>1. /\ \A j \in Jobs : /\ Pending(j)' <=> Pending(j)
                         /\ Leased(j)' <=> Leased(j)
                         /\ Known(j)' <=> Known(j)
                         /\ Marked(j)' <=> Marked(j)
      /\ \A r \in Recoverers : Failing(r)' <=> Failing(r)
  BY DEF Pending, Leased, Known, Marked, Failing, recoveryVars
<1>2. \A v \in Workers : v # w => (Holding(v)' <=> Holding(v))
  BY DEF Holding
<1>3. HandsInv'
  BY DEF Calm, HandsInv, RowInHand
<1>4. PlacesInv'
  BY SMT, <1>1, <1>2 DEF Calm, PlacesInv
<1>5. FailingInv' /\ ListsInv' /\ NoOrphan'
  <2>1. FailingInv'
    BY DEF Calm, FailingInv, Failing, Known, Leased, Pending, recoveryVars
  <2>2. ListsInv'
    BY DEF Calm, ListsInv, recoveryVars
  <2>3. NoOrphan'
    BY <1>1 DEF Calm, NoOrphan, recoveryVars
  <2> QED
    BY <2>1, <2>2, <2>3
<1>6. MarkedInv'
  BY SMT, <1>1 DEF Calm, MarkedInv
<1> QED
  BY <1>3, <1>4, <1>5, <1>6 DEF Calm

(* The steps of a worker that touch nothing another process reads of a     *)
(* row, a lease, a queue or a marker.                                      *)
LEMMA CalmMoves ==
  ASSUME IndInv, Calm, NEW w \in Workers, UNCHANGED recoveryVars,
         \/ RunSucceeds(w) \/ RunFails(w) \/ FailRead(w) \/ FailIdem(w) \/ FailPublish(w)
         \/ DoneRead(w) \/ DoneIdem(w) \/ DoneClose(w) \/ ErrClose(w)
         \/ \E interrupted \in BOOLEAN : StopHeartbeat(w, interrupted)
  PROVE  Calm'
<1>1. /\ stage \in [Workers -> Stages] /\ held \in [Workers -> Jobs \cup {NoJob}]
      /\ lost \in [Workers -> BOOLEAN] /\ RowInHand(w) /\ \A v \in Workers : ~lost[v]
  BY DEF IndInv, WorkInv, WorkerTypeOK, Calm, HandsInv
<1>2. UNCHANGED <<status, old, processing, queue, completed, enqueueKey, phase>>
  BY DEF RunSucceeds, RunFails, FailRead, FailIdem, FailPublish, DoneRead, DoneIdem, DoneClose,
         ErrClose, StopHeartbeat, TransitionStatus, PublishTerminal, fairVars, storeVars
<1>3. \/ held' = held /\ lost' = lost /\ \E s \in Stages : stage' = [stage EXCEPT ![w] = s]
      \/ Return(w)
  BY <1>1 DEF RunSucceeds, RunFails, FailRead, FailIdem, FailPublish, DoneRead, DoneIdem,
              DoneClose, ErrClose, StopHeartbeat, Goto, Stages
<1>4. /\ \A v \in Workers : v # w => stage'[v] = stage[v] /\ held'[v] = held[v]
      /\ \A v \in Workers : ~lost'[v]
  BY <1>1, <1>3 DEF Return
<1>5. CASE RunSucceeds(w)
  <2>1. stage[w] = "run" /\ stage'[w] = "mark" /\ held'[w] = held[w]
    BY <1>1, <1>5 DEF RunSucceeds
  <2> QED
    BY <1>1, <1>2, <1>4, <2>1, WorkerMoves DEF RowInHand, Holding
<1>6. CASE RunFails(w)
  <2>1. stage[w] = "run" /\ stage'[w] = "stop" /\ held'[w] = held[w]
    BY <1>1, <1>6 DEF RunFails, Goto
  <2> QED
    BY <1>1, <1>2, <1>4, <2>1, WorkerMoves DEF RowInHand, Holding
<1>7. CASE FailRead(w)
  <2>1. stage[w] = "failRead" /\ stage'[w] = "failWrite" /\ held'[w] = held[w]
    BY <1>1, <1>7 DEF FailRead, Goto, CanFinish, RowInHand
  <2> QED
    BY <1>1, <1>2, <1>4, <2>1, WorkerMoves DEF RowInHand, Holding
<1>8. CASE FailIdem(w)
  <2>1. stage[w] = "failIdem" /\ stage'[w] = "failRelease" /\ held'[w] = held[w]
    BY <1>1, <1>8 DEF FailIdem, Goto
  <2> QED
    BY <1>1, <1>2, <1>4, <2>1, WorkerMoves DEF RowInHand, Holding
<1>9. CASE FailPublish(w)
  <2>1. stage[w] = "failPublish" /\ stage'[w] = "idle"
    BY <1>1, <1>9 DEF FailPublish, Return
  <2> QED
    BY <1>1, <1>2, <1>4, <2>1, WorkerMoves DEF RowInHand, Holding
<1>10. CASE DoneRead(w)
  <2>1. /\ stage[w] = "doneRead" /\ held'[w] = held[w]
        /\ \/ stage'[w] = "doneWrite"
           \/ stage'[w] = "errClose" /\ status[held[w]] = "completed"
    BY <1>1, <1>10 DEF DoneRead, Goto, CanFinish, RowInHand
  <2> QED
    BY <1>1, <1>2, <1>4, <2>1, WorkerMoves DEF RowInHand, Holding
<1>11. CASE DoneIdem(w)
  <2>1. stage[w] = "doneIdem" /\ stage'[w] = "doneClose" /\ held'[w] = held[w]
    BY <1>1, <1>11 DEF DoneIdem, Goto
  <2> QED
    BY <1>1, <1>2, <1>4, <2>1, WorkerMoves DEF RowInHand, Holding
<1>12. CASE DoneClose(w)
  <2>1. stage[w] = "doneClose" /\ stage'[w] = "doneRelease" /\ held'[w] = held[w]
    BY <1>1, <1>12 DEF DoneClose, Goto
  <2> QED
    BY <1>1, <1>2, <1>4, <2>1, WorkerMoves DEF RowInHand, Holding
<1>13. CASE ErrClose(w)
  <2>1. stage[w] = "errClose" /\ stage'[w] = "errRelease" /\ held'[w] = held[w]
    BY <1>1, <1>13 DEF ErrClose, Goto
  <2> QED
    BY <1>1, <1>2, <1>4, <2>1, WorkerMoves DEF RowInHand, Holding
<1>14. CASE \E interrupted \in BOOLEAN : StopHeartbeat(w, interrupted)
  <2>1. /\ stage[w] = "stop"
        /\ \/ stage'[w] = "failRead" /\ held'[w] = held[w]
           \/ stage'[w] = "idle"
    BY <1>1, <1>14 DEF StopHeartbeat, Goto, Return
  <2> QED
    BY <1>1, <1>2, <1>4, <2>1, WorkerMoves DEF RowInHand, Holding
<1> QED
  BY <1>5, <1>6, <1>7, <1>8, <1>9, <1>10, <1>11, <1>12, <1>13, <1>14

(* A job is claimed: it leaves the queue with a lease, and is created.     *)
LEMMA CalmClaim ==
  ASSUME IndInv, stalls = MaxStalls, Calm, NEW w \in Workers, UNCHANGED recoveryVars, Claim(w)
  PROVE  Calm'
<1> DEFINE j == Head(queue[Head(ring)])
<1>1. /\ j \in Jobs /\ Pending(j) /\ ~Leased(j)
      /\ processing' = [processing EXCEPT ![j] = now + Lease]
      /\ \A k \in Jobs : Pending(k)' => Pending(k)
  BY ServeLemma DEF Claim, IndInv
<1>2. \A k \in Jobs : Pending(k) /\ k # j => Pending(k)'
  BY ServeLeaves DEF Claim, IndInv
<1>3. /\ stage[w] = "idle" /\ stage' = [stage EXCEPT ![w] = "run"]
      /\ held' = [held EXCEPT ![w] = j] /\ lost' = lost
      /\ UNCHANGED <<status, old, completed, enqueueKey, phase>>
      /\ UNCHANGED <<rstage, todo, rjob>>
  BY DEF Claim, Serve, storeVars, recoveryVars
<1> HIDE DEF j
<1>4. /\ stage \in [Workers -> Stages] /\ held \in [Workers -> Jobs \cup {NoJob}]
      /\ processing \in [Jobs -> Nat] /\ now + Lease \in Nat /\ now + Lease # 0
  BY SMT, LeaseAssumption DEF IndInv, WorkInv, WorkerTypeOK, QueueInv, FairTypeOK, LeaseTypeOK
<1>5. /\ \A k \in Jobs : Leased(k)' <=> Leased(k) \/ k = j
      /\ \A k \in Jobs : Known(k)' <=> Known(k)
      /\ \A r \in Recoverers : Failing(r)' <=> Failing(r)
  BY <1>1, <1>3, <1>4 DEF Leased, Known, Failing
<1>6. status[j] = "created" /\ \A r \in Recoverers : Failing(r) => rjob[r] \in Jobs /\ rjob[r] # j
  BY <1>1 DEF Calm, PlacesInv, FailingInv, IndInv, RecoveryInv, Failing
<1>7. HandsInv'
  BY <1>3, <1>4, <1>6 DEF Calm, HandsInv, RowInHand
<1>8. PlacesInv'
  <2>1. \A v \in Workers : Holding(v) => Holding(v)' /\ held'[v] = held[v]
    BY <1>3, <1>4 DEF Holding
  <2> QED
    BY SMT, <1>1, <1>3, <1>5, <1>6, <2>1 DEF Calm, PlacesInv
<1>9. FailingInv'
  BY <1>1, <1>3, <1>5, <1>6 DEF Calm, FailingInv
<1>10. NoOrphan'
  BY <1>2, <1>3, <1>5 DEF Calm, NoOrphan
<1>11. ListsInv'
  BY <1>3 DEF Calm, ListsInv
<1>12. MarkedInv'
  <2>1. \A k \in Jobs : Marked(k)' <=> Marked(k)
    BY <1>3 DEF Marked
  <2> QED
    BY <1>3, <1>4, <2>1 DEF Calm, MarkedInv
<1> QED
  BY <1>7, <1>8, <1>9, <1>10, <1>11, <1>12 DEF Calm

(* A renewal finds the lease it renews.                                    *)
LEMMA CalmHeartbeat ==
  ASSUME IndInv, stalls = MaxStalls, Calm, NEW w \in Workers, UNCHANGED recoveryVars, Heartbeat(w)
  PROVE  Calm'
<1>1. held[w] \in Jobs /\ Leased(held[w])
  BY CalmFacts DEF Heartbeat, Beating, Holding
<1>2. /\ processing' = [processing EXCEPT ![held[w]] = now + Lease]
      /\ UNCHANGED <<stage, held, lost>>
      /\ UNCHANGED <<status, old, completed, queue, enqueueKey, phase>>
      /\ UNCHANGED <<rstage, todo, rjob>>
  BY <1>1 DEF Heartbeat, ExtendProcessingLease, Grant, queueVars, storeVars, recoveryVars
<1>3. processing \in [Jobs -> Nat] /\ now + Lease \in Nat /\ now + Lease # 0
  BY SMT, LeaseAssumption DEF IndInv, QueueInv, FairTypeOK, LeaseTypeOK
<1>4. /\ \A k \in Jobs : Leased(k)' <=> Leased(k)
      /\ \A k \in Jobs : Known(k)' <=> Known(k)
      /\ \A k \in Jobs : Pending(k)' <=> Pending(k)
      /\ \A k \in Jobs : Marked(k)' <=> Marked(k)
      /\ \A r \in Recoverers : Failing(r)' <=> Failing(r)
      /\ \A v \in Workers : Holding(v)' <=> Holding(v)
  BY <1>1, <1>2, <1>3 DEF Leased, Known, Pending, Marked, Failing, Holding
<1>5. \A r \in Recoverers : Failing(r) => rjob[r] \in Jobs
  BY DEF IndInv, RecoveryInv, Failing
<1>6. HandsInv'
  BY <1>2 DEF Calm, HandsInv, RowInHand
<1>7. PlacesInv' /\ FailingInv'
  BY <1>2, <1>4, <1>5 DEF Calm, PlacesInv, FailingInv
<1>8. NoOrphan' /\ ListsInv' /\ MarkedInv'
  BY <1>2, <1>4 DEF Calm, NoOrphan, ListsInv, MarkedInv
<1> QED
  BY <1>6, <1>7, <1>8 DEF Calm

(* A worker writes the row of its job.  Nobody else has the job in hand,   *)
(* nor is failing it.                                                      *)
LEMMA CalmWorkerWrites ==
  ASSUME IndInv, stalls = MaxStalls, Calm, NEW w \in Workers, UNCHANGED recoveryVars,
         FailWrite(w) \/ DoneWrite(w)
  PROVE  Calm' /\ StatusKept
<1> DEFINE j == held[w]
<1>1. /\ Holding(w) /\ j \in Jobs /\ Leased(j) /\ ~Pending(j) /\ Known(j)
      /\ \A v \in Workers : Holding(v) /\ held[v] = j => v = w
  BY CalmFacts DEF FailWrite, DoneWrite, Holding
<1>2. /\ UNCHANGED <<held, lost, processing, queue, completed, enqueueKey, phase, old>>
      /\ UNCHANGED <<rstage, todo, rjob>>
  BY DEF FailWrite, DoneWrite, UpdateStatus, Goto, fairVars, recoveryVars
<1>3. \/ /\ stage[w] = "failWrite" /\ status' = [status EXCEPT ![j] = "failed"]
         /\ stage' = [stage EXCEPT ![w] = "failIdem"] /\ status[j] = "created"
      \/ /\ stage[w] = "doneWrite" /\ status' = [status EXCEPT ![j] = "completed"]
         /\ stage' = [stage EXCEPT ![w] = "doneIdem"] /\ status[j] \in {"created", "completed"}
  BY DEF FailWrite, DoneWrite, UpdateStatus, Goto, Calm, HandsInv, RowInHand
<1>4. /\ stage \in [Workers -> Stages]
      /\ status \in [Jobs -> {"absent", "created"} \cup Terminal]
  BY DEF IndInv, WorkInv, WorkerTypeOK, ResultInv, StoreTypeOK
<1>5. /\ \A k \in Jobs : Leased(k)' <=> Leased(k)
      /\ \A k \in Jobs : Known(k)' <=> Known(k)
      /\ \A k \in Jobs : Pending(k)' <=> Pending(k)
      /\ \A k \in Jobs : Marked(k)' <=> Marked(k)
      /\ \A r \in Recoverers : Failing(r)' <=> Failing(r)
  BY <1>2 DEF Leased, Known, Pending, Marked, Failing
<1>6. \A v \in Workers : Holding(v)' <=> Holding(v)
  BY <1>3, <1>4 DEF Holding
<1>7. \A r \in Recoverers : Failing(r) => rjob[r] \in Jobs /\ rjob[r] # j
  BY <1>1 DEF Calm, FailingInv, IndInv, RecoveryInv, Failing
<1>8. \A v \in Workers : Holding(v) => held[v] \in Jobs
  BY DEF IndInv, WorkInv, Holding
<1> HIDE DEF j
<1>9. HandsInv'
  <2> SUFFICES ASSUME NEW v \in Workers PROVE ~lost'[v] /\ RowInHand(v)'
    BY DEF HandsInv
  <2>1. ~lost'[v] /\ RowInHand(v)
    BY <1>2 DEF Calm, HandsInv
  <2>2. CASE v = w
    BY <1>1, <1>2, <1>3, <1>4, <2>1, <2>2 DEF RowInHand, j
  <2>3. CASE v # w /\ Holding(v)
    <3>1. held[v] # j /\ held[v] \in Jobs
      BY <1>1, <1>8, <2>3
    <3>2. status'[held[v]] = status[held[v]] /\ stage'[v] = stage[v] /\ held'[v] = held[v]
      BY <1>2, <1>3, <1>4, <2>3, <3>1
    <3> QED
      BY <2>1, <3>2 DEF RowInHand
  <2>4. CASE v # w /\ ~Holding(v)
    <3>1. stage'[v] \in {"idle", "gone", "failPublish"}
      BY <1>3, <1>4, <2>4 DEF Holding
    <3> QED
      BY <2>1, <3>1 DEF RowInHand
  <2> QED
    BY <2>2, <2>3, <2>4
<1>10. PlacesInv'
  <2>1. \A k \in Jobs : k # j => status'[k] = status[k]
    BY <1>3, <1>4
  <2>2. Holding(w)' /\ held'[w] = j /\ \A k \in Jobs : k = j => ~Pending(k)'
    BY <1>1, <1>2, <1>5, <1>6 DEF j
  <2> QED
    BY <1>2, <1>5, <1>6, <2>1, <2>2 DEF Calm, PlacesInv
<1>11. FailingInv'
  BY <1>2, <1>3, <1>4, <1>5, <1>7 DEF Calm, FailingInv
<1>12. NoOrphan'
  <2>1. /\ status'[j] # "created"
        /\ \A k \in Jobs : k # j => status'[k] = status[k]
    BY <1>1, <1>3, <1>4
  <2>2. ~(phase[j] = "sending" /\ j \notin enqueueKey)
    BY <1>1 DEF Known
  <2> QED
    BY <1>2, <1>5, <2>1, <2>2 DEF Calm, NoOrphan
<1>13. ListsInv'
  <2>1. /\ \A k \in Jobs : status[k] # "absent" => status'[k] # "absent"
        /\ \A k \in Jobs : status[k] \in Terminal => status'[k] \in Terminal
        /\ \A r \in Recoverers : /\ todo[r] \subseteq Jobs
                                 /\ rstage[r] = "remove" => rjob[r] \in Jobs
    BY <1>3, <1>4 DEF Terminal, IndInv, RecoveryInv, RecoveryTypeOK
  <2> QED
    BY <1>2, <2>1 DEF Calm, ListsInv
<1>14. MarkedInv'
  <2> SUFFICES ASSUME NEW k \in Jobs, Marked(k)
               PROVE  \/ status'[k] = "completed"
                      \/ \E v \in Workers : held'[v] = k /\ stage'[v] \in {"doneRead", "doneWrite"}
    BY <1>5 DEF MarkedInv
  <2>1. \/ status[k] = "completed"
        \/ \E v \in Workers : held[v] = k /\ stage[v] \in {"doneRead", "doneWrite"}
    BY DEF Calm, MarkedInv
  <2>2. CASE k = j
    <3>1. \A v \in Workers : held[v] = j /\ stage[v] \in {"doneRead", "doneWrite"} => v = w
      BY <1>1 DEF Holding
    <3> QED
      BY <1>1, <1>3, <1>4, <2>1, <2>2, <3>1
  <2>3. CASE k # j
    <3>1. \A v \in Workers : held[v] = k => stage'[v] = stage[v]
      BY <1>3, <1>4, <2>3 DEF j
    <3> QED
      BY <1>2, <1>3, <1>4, <2>1, <2>3, <3>1
  <2> QED
    BY <2>2, <2>3
<1>15. StatusKept
  BY <1>1, <1>3, <1>4 DEF StatusKept, Terminal
<1> QED
  BY <1>9, <1>10, <1>11, <1>12, <1>13, <1>14, <1>15 DEF Calm

(* The release of a job whose row is terminal.                             *)
LEMMA CalmRelease ==
  ASSUME IndInv, stalls = MaxStalls, Calm, NEW w \in Workers, UNCHANGED recoveryVars,
         FailRelease(w) \/ DoneRelease(w) \/ ErrRelease(w)
  PROVE  Calm'
<1> DEFINE j == held[w]
<1>1. /\ Holding(w) /\ j \in Jobs /\ Leased(j) /\ ~Pending(j) /\ Known(j)
      /\ \A v \in Workers : Holding(v) /\ held[v] = j => v = w
  BY CalmFacts DEF FailRelease, DoneRelease, ErrRelease, Holding
<1>2. /\ UNCHANGED <<status, queue, completed, enqueueKey, phase, old>>
      /\ UNCHANGED <<rstage, todo, rjob>>
      /\ processing' = [processing EXCEPT ![j] = 0]
  BY <1>1 DEF FailRelease, DoneRelease, ErrRelease, ReleaseHeld, ReleaseProcessingJob, Drop,
              storeVars, queueVars, recoveryVars
<1>3. /\ stage[w] \in {"failRelease", "doneRelease", "errRelease"}
      /\ status[j] \in Terminal
      /\ \E s \in {"failPublish", "idle"} : stage' = [stage EXCEPT ![w] = s]
      /\ \A v \in Workers : v # w => held'[v] = held[v]
  BY DEF FailRelease, DoneRelease, ErrRelease, Goto, Return, Calm, HandsInv, RowInHand, Terminal,
         IndInv, WorkInv, WorkerTypeOK
<1>4. stage \in [Workers -> Stages] /\ processing \in [Jobs -> Nat] /\ lost \in [Workers -> BOOLEAN]
  BY DEF IndInv, WorkInv, WorkerTypeOK, QueueInv, FairTypeOK, LeaseTypeOK
<1>5. \A v \in Workers : ~lost'[v]
  BY <1>4 DEF FailRelease, DoneRelease, ErrRelease, Goto, Return, Calm, HandsInv
<1>6. /\ \A k \in Jobs : Leased(k)' <=> Leased(k) /\ k # j
      /\ \A k \in Jobs : Known(k)' <=> Known(k)
      /\ \A k \in Jobs : Pending(k)' <=> Pending(k)
      /\ \A k \in Jobs : Marked(k)' <=> Marked(k)
      /\ \A r \in Recoverers : Failing(r)' <=> Failing(r)
  BY <1>1, <1>2, <1>4 DEF Leased, Known, Pending, Marked, Failing
<1>7. \A v \in Workers : v # w => stage'[v] = stage[v]
  BY <1>3, <1>4
<1>8. \A r \in Recoverers : Failing(r) => rjob[r] \in Jobs /\ rjob[r] # j
  BY <1>1 DEF Calm, FailingInv, IndInv, RecoveryInv, Failing
<1>9. HandsInv'
  <2>1. RowInHand(w)'
    BY <1>3, <1>4 DEF RowInHand
  <2>2. \A v \in Workers : v # w => RowInHand(v)'
    BY <1>2, <1>3, <1>7 DEF Calm, HandsInv, RowInHand
  <2> QED
    BY <1>5, <2>1, <2>2 DEF HandsInv
<1>10. PlacesInv'
  <2>1. \A v \in Workers : v # w => (Holding(v)' <=> Holding(v))
    BY <1>7 DEF Holding
  <2> QED
    BY SMT, <1>2, <1>3, <1>6, <2>1 DEF Calm, PlacesInv
<1>11. FailingInv'
  BY <1>2, <1>6, <1>8 DEF Calm, FailingInv
<1>12. NoOrphan' /\ ListsInv'
  <2>1. NoOrphan'
    BY <1>1, <1>2, <1>3, <1>6 DEF Calm, NoOrphan, Terminal
  <2>2. ListsInv'
    BY <1>2, <1>3 DEF Calm, ListsInv, Terminal
  <2> QED
    BY <2>1, <2>2
<1>13. MarkedInv'
  BY SMT, <1>2, <1>3, <1>6, <1>7 DEF Calm, MarkedInv
<1> QED
  BY <1>9, <1>10, <1>11, <1>12, <1>13 DEF Calm

(* The completion marker of a job in hand.                                 *)
LEMMA CalmMark ==
  ASSUME IndInv, Calm, NEW w \in Workers, UNCHANGED recoveryVars, Mark(w)
  PROVE  Calm'
<1>1. /\ stage[w] = "mark" /\ held[w] \in Jobs /\ stage \in [Workers -> Stages]
      /\ stage' = [stage EXCEPT ![w] = "doneRead"] /\ UNCHANGED <<held, lost>>
      /\ completed' = completed \cup {held[w]}
      /\ UNCHANGED <<status, queue, processing, enqueueKey, phase, old>>
      /\ UNCHANGED <<rstage, todo, rjob>>
  BY DEF Mark, MarkJobCompleted, Goto, queueVars, storeVars, recoveryVars, IndInv, WorkInv,
         WorkerTypeOK
<1>2. /\ \A k \in Jobs : Leased(k)' <=> Leased(k)
      /\ \A k \in Jobs : Known(k)' <=> Known(k)
      /\ \A k \in Jobs : Pending(k)' <=> Pending(k)
      /\ \A r \in Recoverers : Failing(r)' <=> Failing(r)
      /\ \A r \in Recoverers : Failing(r) => rjob[r] \in Jobs
      /\ \A v \in Workers : Holding(v)' <=> Holding(v)
  BY <1>1 DEF Leased, Known, Pending, Failing, Holding, IndInv, RecoveryInv
<1>3. \A k \in Jobs : Marked(k)' => Marked(k) \/ k = held[w]
  BY <1>1 DEF Marked
<1>4. HandsInv'
  BY <1>1 DEF Calm, HandsInv, RowInHand
<1>5. PlacesInv' /\ FailingInv'
  BY <1>1, <1>2 DEF Calm, PlacesInv, FailingInv
<1>6. NoOrphan' /\ ListsInv'
  BY <1>1, <1>2 DEF Calm, NoOrphan, ListsInv
<1>7. MarkedInv'
  BY <1>1, <1>3 DEF Calm, MarkedInv
<1> QED
  BY <1>4, <1>5, <1>6, <1>7 DEF Calm

(* A recovery loop goes on, and nothing else changes but that a marker may *)
(* go.                                                                     *)
LEMMA LoopMoves ==
  ASSUME IndInv, Calm, NEW r \in Recoverers,
         UNCHANGED <<status, old, processing, queue, enqueueKey, phase, stage, held, lost>>,
         completed' \subseteq completed,
         \A q \in Recoverers : q # r => rstage'[q] = rstage[q] /\ todo'[q] = todo[q]
                                        /\ rjob'[q] = rjob[q],
         Failing(r)' <=> Failing(r), Failing(r) => rjob'[r] = rjob[r],
         rstage'[r] \in FinishStages => rjob'[r] \in Jobs /\ Marked(rjob'[r]),
         rstage'[r] \in FinishStages \cup {"reconcile"} => \A j \in todo'[r] : Marked(j),
         rstage'[r] = "adopt" => todo'[r] = {},
         \A j \in todo'[r] : status[j] # "absent",
         rstage'[r] = "remove" => status[rjob'[r]] \in Terminal
  PROVE  Calm'
<1>1. /\ \A k \in Jobs : Leased(k)' <=> Leased(k)
      /\ \A k \in Jobs : Known(k)' <=> Known(k)
      /\ \A k \in Jobs : Pending(k)' <=> Pending(k)
      /\ \A v \in Workers : Holding(v)' <=> Holding(v)
  BY DEF Leased, Known, Pending, Holding
<1>2. /\ \A q \in Recoverers : Failing(q)' <=> Failing(q)
      /\ \A q \in Recoverers : Failing(q) => rjob'[q] = rjob[q] /\ rjob[q] \in Jobs
  BY DEF Failing, IndInv, RecoveryInv
<1>3. \A k \in Jobs : Marked(k)' => Marked(k)
  BY SMT DEF Marked
<1>4. HandsInv'
  BY DEF Calm, HandsInv, RowInHand
<1>5. PlacesInv'
  BY <1>1 DEF Calm, PlacesInv
<1>6. FailingInv'
  BY <1>1, <1>2 DEF Calm, FailingInv
<1>7. NoOrphan'
  <2>1. ASSUME NEW j \in Jobs, status'[j] = "created", Known(j)'
        PROVE  (Pending(j) \/ Leased(j) \/ \E q \in Recoverers : Failing(q) /\ rjob[q] = j)'
    <3>1. Pending(j) \/ Leased(j) \/ \E q \in Recoverers : Failing(q) /\ rjob[q] = j
      BY <1>1, <2>1 DEF Calm, NoOrphan
    <3> QED
      BY <1>1, <1>2, <3>1
  <2> QED
    BY <2>1 DEF Calm, NoOrphan
<1>8. ListsInv'
  BY DEF Calm, ListsInv
<1>9. MarkedInv'
  BY <1>3 DEF Calm, MarkedInv
<1> QED
  BY <1>4, <1>5, <1>6, <1>7, <1>8, <1>9 DEF Calm

(* The lists a loop reads: nothing that has expired is without a row, what *)
(* is marked is marked, and there are no orphans.                          *)
LEMMA CalmLists ==
  ASSUME IndInv, stalls = MaxStalls, Calm, NEW r \in Recoverers,
         SweepStart(r) \/ ReconcileStart(r) \/ OrphansStart(r) \/ PassEnds(r)
  PROVE  Calm'
<1>1. /\ UNCHANGED <<status, old, processing, queue, enqueueKey, phase, stage, held, lost>>
      /\ completed' = completed
  BY DEF SweepStart, ReconcileStart, OrphansStart, PassEnds, fairVars, storeVars, workerVars
<1>2. /\ rstage \in [Recoverers -> RStages] /\ todo \in [Recoverers -> SUBSET Jobs]
      /\ completed \subseteq Jobs
  BY DEF IndInv, RecoveryInv, RecoveryTypeOK, QueueInv, FairTypeOK, LeaseTypeOK
<1>3. /\ rstage[r] \in {"wait", "sweep", "reconcile", "adopt"} /\ rjob' = rjob
      /\ \A q \in Recoverers : q # r => rstage'[q] = rstage[q] /\ todo'[q] = todo[q]
      /\ \/ rstage'[r] = "sweep" /\ todo'[r] = ExpiredJobIDs(now)
         \/ rstage'[r] = "reconcile" /\ todo'[r] = completed
         \/ rstage'[r] = "adopt" /\ todo'[r] = PendingOrphans
         \/ rstage'[r] = "wait" /\ todo'[r] = {}
  BY <1>2 DEF SweepStart, ReconcileStart, OrphansStart, PassEnds, RList
<1>4. PendingOrphans = {}
  BY DEF PendingOrphans, Calm, ListsInv
<1>5. \A j \in ExpiredJobIDs(now) : status[j] # "absent"
  BY CalmFacts DEF ExpiredJobIDs, Expired
<1>6. \A j \in completed : Marked(j) /\ status[j] # "absent"
  <2>1. ASSUME NEW j \in completed PROVE Marked(j) /\ status[j] # "absent"
    <3>1. Marked(j)
      BY DEF Marked
    <3>2. \/ status[j] = "completed"
          \/ \E w \in Workers : held[w] = j /\ stage[w] \in {"doneRead", "doneWrite"}
      BY <1>2, <3>1 DEF Calm, MarkedInv
    <3>3. \A w \in Workers : held[w] = j /\ stage[w] \in {"doneRead", "doneWrite"} =>
             status[j] # "absent"
      BY CalmFacts DEF Holding
    <3> QED
      BY <3>1, <3>2, <3>3
  <2> QED
    BY <2>1
<1>7. ~Failing(r) /\ ~Failing(r)'
  BY <1>3 DEF Failing
<1> QED
  BY <1>1, <1>3, <1>4, <1>5, <1>6, <1>7, LoopMoves DEF FinishStages

(* A loop takes a job from its list.  The list of orphans is empty.        *)
LEMMA CalmTakes ==
  ASSUME IndInv, Calm, NEW r \in Recoverers, NEW j \in Jobs,
         RecoverOne(r, j) \/ ReconcileOne(r, j) \/ AdoptOrphan(r, j)
  PROVE  Calm'
<1>1. ~AdoptOrphan(r, j)
  BY DEF AdoptOrphan, RTake, Calm, ListsInv
<1>2. /\ UNCHANGED <<status, old, processing, queue, enqueueKey, phase, stage, held, lost>>
      /\ completed' = completed
  BY <1>1 DEF RecoverOne, ReconcileOne, fairVars, storeVars, workerVars
<1>3. /\ rstage \in [Recoverers -> RStages] /\ todo \in [Recoverers -> SUBSET Jobs]
      /\ rjob \in [Recoverers -> Jobs \cup {NoJob}]
      /\ status \in [Jobs -> {"absent", "created"} \cup Terminal]
  BY DEF IndInv, RecoveryInv, RecoveryTypeOK, ResultInv, StoreTypeOK
<1>4. /\ j \in todo[r] /\ todo' = [todo EXCEPT ![r] = @ \ {j}]
      /\ rjob' = [rjob EXCEPT ![r] = j]
      /\ \/ /\ rstage[r] = "sweep"
            /\ rstage' = [rstage EXCEPT ![r] = IF status[j] # "created" THEN "remove"
                                               ELSE IF retry[j] >= MaxAttempts THEN "exhaust"
                                               ELSE "requeue"]
         \/ /\ rstage[r] = "reconcile"
            /\ rstage' = [rstage EXCEPT ![r] = IF status[j] = "created" THEN "finishRead"
                                                                        ELSE "finishIdem"]
  BY <1>1 DEF RecoverOne, ReconcileOne, RTake
<1>5. /\ \A q \in Recoverers : q # r => rstage'[q] = rstage[q] /\ todo'[q] = todo[q]
                                        /\ rjob'[q] = rjob[q]
      /\ rjob'[r] = j /\ todo'[r] = todo[r] \ {j}
      /\ \/ /\ rstage[r] = "sweep" /\ rstage'[r] \in {"remove", "exhaust", "requeue"}
            /\ rstage'[r] = "remove" => status[j] # "created"
         \/ rstage[r] = "reconcile" /\ rstage'[r] \in {"finishRead", "finishIdem"}
  BY <1>3, <1>4
<1>6. \A k \in todo[r] : status[k] # "absent"
  BY DEF Calm, ListsInv
<1>7. rstage'[r] = "remove" => status[j] \in Terminal
  BY <1>3, <1>4, <1>5, <1>6
<1>8. rstage[r] = "reconcile" => \A k \in todo[r] : Marked(k)
  BY DEF Marked
<1>9. ~Failing(r) /\ ~Failing(r)'
  BY <1>5 DEF Failing
<1> QED
  BY <1>2, <1>4, <1>5, <1>6, <1>7, <1>8, <1>9, LoopMoves DEF FinishStages

(* A loop goes on with its job, or is done with it.  A lease of a terminal *)
(* job has not expired, so RemoveFinished finds none.                      *)
LEMMA CalmLoop ==
  ASSUME IndInv, stalls = MaxStalls, Calm, NEW r \in Recoverers,
         \/ RemoveFinished(r) \/ ExhaustRead(r) \/ ExhaustIdem(r) \/ ExhaustPublish(r)
         \/ BumpRetry(r) \/ FinishRead(r) \/ FinishIdem(r) \/ FinishClose(r) \/ Unmark(r)
         \/ (Exhaust(r) \/ RequeueLost(r)) /\ ~Expired(rjob[r], cutoff[r])
  PROVE  Calm'
<1>1. /\ rstage \in [Recoverers -> RStages] /\ rjob \in [Recoverers -> Jobs \cup {NoJob}]
      /\ todo \in [Recoverers -> SUBSET Jobs]
      /\ rstage[r] \notin {"wait", "sweep", "reconcile", "adopt"} => rjob[r] \in Jobs
  BY DEF IndInv, RecoveryInv, RecoveryTypeOK
<1>2. RemoveFinished(r) => ~Expired(rjob[r], cutoff[r])
  <2>1. RemoveFinished(r) => rjob[r] \in Jobs /\ status[rjob[r]] # "created"
    BY <1>1 DEF RemoveFinished, Calm, ListsInv, Terminal
  <2> QED
    BY <2>1, CalmFacts
<1>3. /\ UNCHANGED <<status, old, processing, queue, enqueueKey, phase, stage, held, lost>>
      /\ completed' \subseteq completed
  BY <1>2 DEF RemoveFinished, ExhaustRead, ExhaustIdem, ExhaustPublish, BumpRetry, FinishRead,
              FinishIdem, FinishClose, Unmark, Exhaust, RequeueLost, RemoveCompletedJob,
              TransitionStatus, PublishTerminal, UpdateCreated, fairVars, queueVars, storeVars,
              workerVars
<1>4. /\ todo' = todo
      /\ \/ /\ rjob' = [rjob EXCEPT ![r] = NoJob]
            /\ \/ /\ rstage[r] \in {"remove", "exhaustPublish", "bump", "exhaust", "requeue"}
                  /\ rstage' = [rstage EXCEPT ![r] = "sweep"]
               \/ /\ rstage[r] \in FinishStages
                  /\ rstage' = [rstage EXCEPT ![r] = "reconcile"]
         \/ /\ rjob' = rjob
            /\ \/ rstage[r] = "exhaustRead" /\ rstage' = [rstage EXCEPT ![r] = "exhaustWrite"]
               \/ rstage[r] = "exhaustIdem" /\ rstage' = [rstage EXCEPT ![r] = "exhaustPublish"]
               \/ /\ rstage[r] \in FinishStages
                  /\ \E s \in FinishStages : rstage' = [rstage EXCEPT ![r] = s]
  <2>1. ExhaustRead(r) => CanFinish(rjob[r])
    BY DEF ExhaustRead, CanFinish, Calm, FailingInv, Failing
  <2> QED
    BY <1>2, <2>1 DEF RemoveFinished, ExhaustRead, ExhaustIdem, ExhaustPublish, BumpRetry,
                      FinishRead, FinishIdem, FinishClose, Unmark, Exhaust, RequeueLost, RNext,
                      RGoto, FinishStages
<1>5. /\ \A q \in Recoverers : q # r => rstage'[q] = rstage[q] /\ todo'[q] = todo[q]
                                        /\ rjob'[q] = rjob[q]
      /\ Failing(r)' <=> Failing(r)
      /\ Failing(r) => rjob'[r] = rjob[r]
      /\ rstage'[r] \in FinishStages => rstage[r] \in FinishStages /\ rjob'[r] = rjob[r]
      /\ rstage'[r] = "reconcile" => rstage[r] \in FinishStages
      /\ rstage'[r] \notin {"adopt", "remove"}
  <2>1. \A q \in Recoverers : q # r => rstage'[q] = rstage[q] /\ todo'[q] = todo[q]
                                       /\ rjob'[q] = rjob[q]
    BY <1>1, <1>4
  <2>2. (Failing(r)' <=> Failing(r)) /\ (Failing(r) => rjob'[r] = rjob[r])
    BY <1>1, <1>4 DEF Failing, FinishStages
  <2>3. /\ rstage'[r] \in FinishStages => rstage[r] \in FinishStages /\ rjob'[r] = rjob[r]
        /\ rstage'[r] = "reconcile" => rstage[r] \in FinishStages
        /\ rstage'[r] \notin {"adopt", "remove"}
    BY <1>1, <1>4 DEF FinishStages
  <2> QED
    BY <2>1, <2>2, <2>3
<1>6. rstage[r] \in FinishStages =>
         rjob[r] \in Jobs /\ Marked(rjob[r]) /\ \A j \in todo[r] : Marked(j)
  BY <1>1 DEF Marked, FinishStages
<1>7. \A j \in todo'[r] : status[j] # "absent"
  BY <1>4 DEF Calm, ListsInv
<1> QED
  BY <1>3, <1>4, <1>5, <1>6, <1>7, LoopMoves

(* A job whose lease has expired is created, and nobody has it in hand:    *)
(* it is taken to be failed, or goes back to the queue.                    *)
LEMMA CalmExpired ==
  ASSUME IndInv, stalls = MaxStalls, Calm, NEW r \in Recoverers,
         Exhaust(r) \/ RequeueLost(r), Expired(rjob[r], cutoff[r])
  PROVE  Calm'
<1> DEFINE j == rjob[r]
<1>1. /\ rstage \in [Recoverers -> RStages] /\ j \in Jobs
      /\ processing \in [Jobs -> Nat] /\ QueueInv
  BY DEF IndInv, RecoveryInv, RecoveryTypeOK, QueueInv, FairTypeOK, LeaseTypeOK, Exhaust,
         RequeueLost
<1>2. /\ Leased(j) /\ ~Pending(j) /\ Known(j) /\ status[j] = "created"
      /\ \A w \in Workers : Holding(w) => held[w] # j
  BY <1>1, CalmFacts
<1>3. /\ UNCHANGED <<status, old, enqueueKey, phase, stage, held, lost, completed, todo, rjob>>
      /\ processing' = [processing EXCEPT ![j] = 0]
      /\ \/ /\ rstage[r] = "exhaust" /\ rstage' = [rstage EXCEPT ![r] = "exhaustRead"]
            /\ queue' = queue
         \/ /\ rstage[r] = "requeue" /\ rstage' = [rstage EXCEPT ![r] = "bump"]
            /\ Join(j)
  BY DEF Exhaust, RequeueLost, Discard, Requeue, Drop, RGoto, queueVars, storeVars, workerVars
<1>4. /\ \A k \in Jobs : Leased(k)' <=> Leased(k) /\ k # j
      /\ \A k \in Jobs : Known(k)' <=> Known(k)
      /\ \A v \in Workers : Holding(v)' <=> Holding(v)
  BY <1>1, <1>2, <1>3 DEF Leased, Known, Holding
<1>5. \A k \in Jobs : Marked(k)' => Marked(k)
  BY <1>1, <1>3 DEF Marked, FinishStages
<1>6. \A q \in Recoverers : Failing(q) => rjob[q] \in Jobs /\ rjob[q] # j /\ q # r
  BY <1>1, <1>2, <1>3 DEF Calm, FailingInv, IndInv, RecoveryInv, Failing
<1>7. \/ /\ \A k \in Jobs : Pending(k)' <=> Pending(k)
         /\ \A q \in Recoverers : Failing(q)' <=> Failing(q) \/ q = r
      \/ /\ \A k \in Jobs : Pending(k)' <=> Pending(k) \/ k = j
         /\ \A q \in Recoverers : Failing(q)' <=> Failing(q)
  <2>1. CASE rstage[r] = "exhaust"
    BY <1>1, <1>3, <2>1 DEF Pending, Failing
  <2>2. CASE rstage[r] = "requeue"
    <3>1. Join(j) /\ rstage' = [rstage EXCEPT ![r] = "bump"]
      BY <1>3, <2>2
    <3>2. /\ processing' \in [Jobs -> Nat] /\ processing'[j] = 0
          /\ \A k \in Jobs : k # j => processing'[k] = processing[k]
      BY <1>1, <1>3
    <3>3. \A k \in Jobs : Pending(k)' <=> Pending(k) \/ k = j
      BY <1>1, <1>2, <3>1, <3>2, JoinLemma
    <3>4. \A q \in Recoverers : Failing(q)' <=> Failing(q)
      BY <1>1, <2>2, <3>1 DEF Failing
    <3> QED
      BY <3>3, <3>4
  <2> QED
    BY <1>3, <2>1, <2>2
<1>8. HandsInv'
  BY <1>3 DEF Calm, HandsInv, RowInHand
<1>9. PlacesInv'
  BY <1>2, <1>3, <1>4, <1>7 DEF Calm, PlacesInv
<1>10. FailingInv'
  <2> SUFFICES ASSUME NEW q \in Recoverers, Failing(q)'
               PROVE  /\ status'[rjob'[q]] = "created" /\ Known(rjob[q])'
                      /\ ~Leased(rjob[q])' /\ ~Pending(rjob[q])'
                      /\ \A p \in Recoverers : Failing(p)' /\ rjob'[p] = rjob'[q] => p = q
    BY DEF FailingInv
  <2> DEFINE k == rjob[q]
  <2>1. k \in Jobs /\ rjob' = rjob
    BY <1>1, <1>3, <1>6, <1>7
  <2>2. status'[k] = "created" /\ Known(k)
    BY <1>2, <1>3, <1>7 DEF Calm, FailingInv
  <2>3. ~(Leased(k) /\ k # j) /\ ~Pending(k)
    BY <1>2, <1>7 DEF Calm, FailingInv
  <2>4. \A p \in Recoverers : Failing(p)' /\ rjob[p] = k => p = q
    BY <1>6, <1>7 DEF Calm, FailingInv
  <2>5. \A i \in Jobs : i = k => Known(i)' /\ ~Leased(i)' /\ ~Pending(i)'
    BY <1>4, <1>6, <1>7, <2>1, <2>2, <2>3
  <2>6. \A i \in Jobs : i = rjob'[q] => Known(i)' /\ ~Leased(i)' /\ ~Pending(i)'
    BY <2>1, <2>5
  <2> QED
    BY <2>1, <2>2, <2>4, <2>6
<1>11. NoOrphan'
  BY <1>3, <1>4, <1>7 DEF Calm, NoOrphan
<1>12. ListsInv'
  BY <1>1, <1>3 DEF Calm, ListsInv
<1>13. MarkedInv'
  BY <1>3, <1>5 DEF Calm, MarkedInv
<1> QED
  BY <1>8, <1>9, <1>10, <1>11, <1>12, <1>13 DEF Calm

(* A loop writes the row of its job: one it has taken to be failed, which  *)
(* nobody has in hand, or one with a completion marker, which is completed *)
(* or in the hands of the worker that will write the same.                 *)
LEMMA CalmLoopWrites ==
  ASSUME IndInv, stalls = MaxStalls, Calm, NEW r \in Recoverers,
         ExhaustWrite(r) \/ FinishWrite(r)
  PROVE  Calm' /\ StatusKept
<1> DEFINE j == rjob[r]
           Finished == \E w \in Workers : held[w] = j /\ stage[w] \in {"doneRead", "doneWrite"}
<1>1. /\ rstage \in [Recoverers -> RStages] /\ j \in Jobs
      /\ status \in [Jobs -> {"absent", "created"} \cup Terminal]
      /\ \A q \in Recoverers : Failing(q) => rjob[q] \in Jobs
  BY DEF IndInv, RecoveryInv, RecoveryTypeOK, ResultInv, StoreTypeOK, ExhaustWrite, FinishWrite,
         Failing
<1>2. /\ UNCHANGED <<old, processing, queue, completed, enqueueKey, phase, todo, rjob>>
      /\ UNCHANGED <<stage, held, lost>>
  BY DEF ExhaustWrite, FinishWrite, UpdateStatus, RGoto, fairVars, workerVars
<1>3. \/ /\ rstage[r] = "exhaustWrite" /\ rstage' = [rstage EXCEPT ![r] = "exhaustIdem"]
         /\ status' = [status EXCEPT ![j] = "failed"]
      \/ /\ rstage[r] = "finishWrite" /\ rstage' = [rstage EXCEPT ![r] = "finishIdem"]
         /\ status' = [status EXCEPT ![j] = "completed"]
  BY DEF ExhaustWrite, FinishWrite, UpdateStatus, RGoto
<1>4. rstage[r] = "exhaustWrite" =>
         /\ status[j] = "created" /\ Known(j) /\ ~Leased(j) /\ ~Pending(j) /\ Failing(r)
         /\ \A w \in Workers : Holding(w) => held[w] # j
         /\ \A q \in Recoverers : Failing(q) /\ rjob[q] = j => q = r
  <2>1. rstage[r] = "exhaustWrite" => Failing(r)
    BY DEF Failing
  <2> QED
    BY <2>1, CalmFacts DEF Calm, FailingInv
<1>5. rstage[r] = "finishWrite" =>
         status[j] = "completed" \/ (Finished /\ status[j] = "created")
  <2>1. rstage[r] = "finishWrite" => Marked(j)
    BY DEF Marked, FinishStages
  <2>2. Finished => status[j] \in {"created", "completed"}
    BY DEF Calm, HandsInv, RowInHand
  <2> QED
    BY <1>1, <2>1, <2>2 DEF Calm, MarkedInv
<1>6. Finished => /\ Leased(j) /\ ~Pending(j) /\ Known(j)
                  /\ \A v \in Workers : Holding(v) /\ held[v] = j =>
                        stage[v] \in {"doneRead", "doneWrite"}
                  /\ \E v \in Workers : Holding(v) /\ held[v] = j
  BY CalmFacts DEF Holding
<1>7. /\ \A k \in Jobs : Leased(k)' <=> Leased(k)
      /\ \A k \in Jobs : Known(k)' <=> Known(k)
      /\ \A k \in Jobs : Pending(k)' <=> Pending(k)
      /\ \A v \in Workers : Holding(v)' <=> Holding(v)
  BY <1>2 DEF Leased, Known, Pending, Holding
<1>8. \A k \in Jobs : Marked(k)' <=> Marked(k)
  BY <1>1, <1>2, <1>3 DEF Marked, FinishStages
<1>9. \A q \in Recoverers : Failing(q)' <=> Failing(q) /\ q # r
  BY <1>1, <1>3 DEF Failing
<1>10. \A v \in Workers : Holding(v) => held[v] \in Jobs
  BY DEF IndInv, WorkInv, Holding
<1>11. \A k \in Jobs : k # j => status'[k] = status[k]
  BY <1>1, <1>3
<1> HIDE DEF j, Finished
<1>12. HandsInv'
  <2> SUFFICES ASSUME NEW v \in Workers PROVE ~lost'[v] /\ RowInHand(v)'
    BY DEF HandsInv
  <2>1. ~lost'[v] /\ RowInHand(v)
    BY <1>2 DEF Calm, HandsInv
  <2>2. CASE ~Holding(v)
    BY <1>2, <2>1, <2>2 DEF Holding, RowInHand
  <2>3. CASE Holding(v) /\ held[v] # j
    <3>1. status'[held[v]] = status[held[v]]
      BY <1>10, <1>11, <2>3
    <3> QED
      BY <1>2, <2>1, <3>1 DEF RowInHand
  <2>4. CASE Holding(v) /\ held[v] = j
    <3>1. rstage[r] = "finishWrite" /\ status'[j] = "completed"
      BY <1>1, <1>3, <1>4, <2>4
    <3>2. CASE status[j] = "completed"
      BY <1>2, <2>1, <2>4, <3>1, <3>2 DEF RowInHand
    <3>3. CASE Finished
      <4>1. stage[v] \in {"doneRead", "doneWrite"}
        BY <1>6, <2>4, <3>3
      <4> QED
        BY <1>2, <2>1, <2>4, <3>1, <4>1 DEF RowInHand
    <3> QED
      BY <1>5, <3>1, <3>2, <3>3
  <2> QED
    BY <2>2, <2>3, <2>4
<1>13. PlacesInv'
  <2>1. Leased(j) => status[j] = "completed" \/ \E v \in Workers : Holding(v) /\ held[v] = j
    BY <1>3, <1>4, <1>5, <1>6
  <2>2. Leased(j) => \E v \in Workers : Holding(v) /\ held[v] = j
    BY <1>1, <2>1 DEF Calm, PlacesInv
  <2>3. ~Pending(j)
    BY <1>1, <1>3, <1>4, <1>5, <1>6 DEF Calm, PlacesInv
  <2> QED
    BY <1>2, <1>7, <1>11, <2>2, <2>3 DEF Calm, PlacesInv
<1>14. FailingInv'
  <2>1. \A q \in Recoverers : Failing(q) /\ q # r => rjob[q] # j
    <3>1. CASE rstage[r] = "exhaustWrite"
      BY <1>4, <3>1
    <3>2. CASE rstage[r] = "finishWrite"
      BY <1>1, <1>5, <1>6, <3>2 DEF Calm, FailingInv
    <3> QED
      BY <1>3, <3>1, <3>2
  <2> QED
    BY <1>1, <1>2, <1>7, <1>9, <1>11, <2>1 DEF Calm, FailingInv
<1>15. NoOrphan'
  <2>1. status'[j] # "created"
    BY <1>1, <1>3
  <2>2. phase[j] = "sending" /\ j \notin enqueueKey => status[j] = "created"
    BY <1>1 DEF Calm, NoOrphan
  <2>3. ~(phase[j] = "sending" /\ j \notin enqueueKey)
    BY <1>3, <1>4, <1>5, <1>6, <2>2 DEF Known
  <2>4. \A q \in Recoverers : \A k \in Jobs : k # j /\ Failing(q) /\ rjob[q] = k => Failing(q)'
    BY <1>9 DEF j
  <2> QED
    BY <1>2, <1>7, <1>11, <2>1, <2>3, <2>4 DEF Calm, NoOrphan
<1>16. ListsInv'
  <2>1. /\ \A k \in Jobs : status[k] # "absent" => status'[k] # "absent"
        /\ \A k \in Jobs : status[k] \in Terminal => status'[k] \in Terminal
        /\ \A q \in Recoverers : /\ todo[q] \subseteq Jobs
                                 /\ rstage[q] = "remove" => rjob[q] \in Jobs
        /\ \A q \in Recoverers : rstage'[q] \in {"adopt", "remove"} => rstage'[q] = rstage[q]
    BY <1>1, <1>3, <1>11 DEF Terminal, IndInv, RecoveryInv, RecoveryTypeOK
  <2> QED
    BY <1>2, <2>1 DEF Calm, ListsInv
<1>17. MarkedInv'
  <2>1. rstage[r] = "exhaustWrite" => ~Marked(j)
    <3>1. \A w \in Workers : stage[w] \in {"doneRead", "doneWrite"} => Holding(w)
      BY DEF Holding
    <3> QED
      BY <1>1, <1>4, <3>1 DEF Calm, MarkedInv
  <2>2. rstage[r] = "finishWrite" => status'[j] = "completed"
    BY <1>1, <1>3
  <2> QED
    BY <1>2, <1>3, <1>8, <1>11, <2>1, <2>2 DEF Calm, MarkedInv
<1>18. StatusKept
  BY <1>1, <1>3, <1>4, <1>5, <1>11 DEF StatusKept, Terminal
<1> QED
  BY <1>12, <1>13, <1>14, <1>15, <1>16, <1>17, <1>18 DEF Calm

(* A row is created, its job is queued, the request ends.                  *)
LEMMA CalmRequest ==
  ASSUME IndInv, stalls = MaxStalls, Calm, NEW j \in Jobs,
         Accept(j) \/ EnqueueAccepted(j) \/ RequestEnds(j)
  PROVE  Calm' /\ StatusKept
<1>1. /\ UNCHANGED <<stage, held, lost, rstage, todo, rjob, processing, completed, old>>
      /\ phase \in [Jobs -> {"new", "sending", "settled"}]
      /\ status \in [Jobs -> {"absent", "created"} \cup Terminal]
  BY DEF Accept, Create, EnqueueAccepted, Submit, RequestEnds, SubmissionSettles, storeVars,
         workerVars, recoveryVars, leaseVars, IndInv, QueueInv, FairTypeOK, ResultInv, StoreTypeOK
<1>2. /\ \A k \in Jobs : Leased(k)' <=> Leased(k)
      /\ \A k \in Jobs : Marked(k)' <=> Marked(k)
      /\ \A q \in Recoverers : Failing(q)' <=> Failing(q)
      /\ \A v \in Workers : Holding(v)' <=> Holding(v)
  BY <1>1 DEF Leased, Marked, Failing, Holding
<1>3. /\ \A q \in Recoverers : Failing(q) => rjob[q] \in Jobs
      /\ \A v \in Workers : Holding(v) => held[v] \in Jobs /\ status[held[v]] # "absent"
  BY CalmFacts DEF IndInv, RecoveryInv, Failing
<1>4. CASE Accept(j)
  <2>1. /\ status[j] = "absent" /\ status' = [status EXCEPT ![j] = "created"]
        /\ phase[j] = "new" /\ phase' = [phase EXCEPT ![j] = "sending"]
        /\ UNCHANGED <<queue, enqueueKey>>
    BY <1>4 DEF Accept, Create
  <2>2. /\ \A k \in Jobs : Pending(k)' <=> Pending(k)
        /\ \A k \in Jobs : Known(k)' <=> Known(k)
        /\ \A k \in Jobs : k # j => status'[k] = status[k] /\ phase'[k] = phase[k]
        /\ status'[j] = "created" /\ phase'[j] = "sending"
    BY <1>1, <2>1 DEF Pending, Known
  <2>3. j \notin enqueueKey /\ ~Known(j)
    BY <2>1 DEF Calm, NoOrphan, Known
  <2>4. HandsInv'
    BY <1>1, <1>3, <2>1, <2>2 DEF Calm, HandsInv, RowInHand, Holding
  <2>5. PlacesInv'
    BY <1>1, <1>2, <2>2 DEF Calm, PlacesInv
  <2>6. FailingInv'
    BY <1>1, <1>2, <1>3, <2>2 DEF Calm, FailingInv
  <2>7. NoOrphan'
    BY <1>1, <1>2, <2>1, <2>2, <2>3 DEF Calm, NoOrphan
  <2>8. ListsInv'
    <3>1. \A r \in Recoverers : /\ todo[r] \subseteq Jobs
                                /\ rstage[r] = "remove" => rjob[r] \in Jobs /\ rjob[r] # j
      BY <2>1 DEF IndInv, RecoveryInv, RecoveryTypeOK, Calm, ListsInv, Terminal
    <3> QED
      BY <1>1, <2>2, <3>1 DEF Calm, ListsInv
  <2>9. MarkedInv'
    BY <1>1, <1>2, <2>1, <2>2 DEF Calm, MarkedInv
  <2>10. StatusKept
    BY <2>1, <2>2 DEF StatusKept, Terminal
  <2> QED
    BY <2>4, <2>5, <2>6, <2>7, <2>8, <2>9, <2>10 DEF Calm
<1>5. CASE EnqueueAccepted(j) \/ RequestEnds(j)
  <2>1. /\ status' = status /\ phase[j] = "sending"
        /\ \A k \in Jobs : k # j => phase'[k] = phase[k]
        /\ \/ /\ queue' = queue /\ enqueueKey' = enqueueKey /\ j \in enqueueKey
              /\ phase'[j] \in {"sending", "settled"}
           \/ /\ Join(j) /\ enqueueKey' = enqueueKey \cup {j} /\ j \notin enqueueKey
              /\ phase'[j] = "sending"
    BY <1>1, <1>5 DEF EnqueueAccepted, Submit, RequestEnds, SubmissionSettles, storeVars
  <2>2. j \notin enqueueKey => /\ ~Known(j) /\ status[j] = "created" /\ ~Leased(j) /\ ~Pending(j)
    BY <2>1, CalmFacts DEF Known, Calm, NoOrphan
  <2>3. /\ \A k \in Jobs : Known(k)' <=> Known(k) \/ k = j
        /\ \A k \in Jobs : Pending(k)' <=> Pending(k) \/ (k = j /\ j \notin enqueueKey)
    <3>1. \A k \in Jobs : Known(k)' <=> Known(k) \/ k = j
      BY SMT, <2>1 DEF Known
    <3>2. CASE j \in enqueueKey
      BY <2>1, <3>1, <3>2 DEF Pending
    <3>3. CASE j \notin enqueueKey
      <4>1. /\ QueueInv /\ Join(j) /\ ~Pending(j) /\ processing' = processing
            /\ processing \in [Jobs -> Nat] /\ processing[j] = 0
        BY <1>1, <2>1, <2>2, <3>3 DEF IndInv, QueueInv, FairTypeOK, LeaseTypeOK, Leased
      <4>2. \A k \in Jobs : Pending(k)' <=> Pending(k) \/ k = j
        BY <4>1, JoinLemma
      <4> QED
        BY <3>1, <3>3, <4>2
    <3> QED
      BY <3>2, <3>3
  <2>4. HandsInv'
    BY <1>1, <2>1 DEF Calm, HandsInv, RowInHand
  <2>5. PlacesInv'
    BY <1>1, <1>2, <2>1, <2>2, <2>3 DEF Calm, PlacesInv
  <2>6. FailingInv'
    BY SMT, <1>1, <1>2, <1>3, <2>1, <2>2, <2>3 DEF Calm, FailingInv
  <2>7. NoOrphan'
    <3>1. j \in enqueueKey => Known(j)
      BY DEF Known
    <3> QED
      BY SMT, <1>1, <1>2, <2>1, <2>3, <3>1 DEF Calm, NoOrphan
  <2>8. ListsInv' /\ MarkedInv'
    BY <1>1, <1>2, <2>1 DEF Calm, ListsInv, MarkedInv
  <2>9. StatusKept
    BY <2>1 DEF StatusKept
  <2> QED
    BY <2>4, <2>5, <2>6, <2>7, <2>8, <2>9 DEF Calm
<1> QED
  BY <1>4, <1>5

(* A clock that runs, and a step that changes nothing.                     *)
LEMMA CalmStill ==
  ASSUME IndInv, Calm,
         UNCHANGED <<processing, completed, queueVars, storeVars, workerVars, recoveryVars>>
  PROVE  Calm'
<1>1. UNCHANGED <<status, old, processing, queue, completed, enqueueKey, phase, stage, held, lost,
                  rstage, todo, rjob>>
  BY DEF queueVars, storeVars, workerVars, recoveryVars
<1>2. HandsInv' /\ PlacesInv'
  BY <1>1 DEF Calm, HandsInv, RowInHand, PlacesInv, Leased, Pending, Holding
<1>3. FailingInv' /\ NoOrphan'
  BY SMT, <1>1 DEF Calm, FailingInv, NoOrphan, Failing, Known, Leased, Pending
<1>4. ListsInv' /\ MarkedInv'
  BY <1>1 DEF Calm, ListsInv, MarkedInv, Marked
<1> QED
  BY <1>2, <1>3, <1>4 DEF Calm

(* Without faults, every step keeps the rows that are terminal and the     *)
(* invariant that says why.                                                *)
LEMMA CalmNext ==
  ASSUME IndInv, stalls = MaxStalls, Calm, [Next]_vars, UNCHANGED faultVars
  PROVE  Calm' /\ StatusKept
<1>1. FaultInv /\ stalls' = stalls
  BY DEF faultVars, IndInv
<1>2. ~Crashes /\ ~Errs /\ ~Stalls
  BY SMT, <1>1, FaultAssumption DEF FaultInv, faultVars, Crashes, Errs, Stalls
<1>3. status' = status => StatusKept
  BY DEF StatusKept
<1>4. ASSUME NEW w \in Workers, WorkerActs(w) \/ HeartbeatActs(w)
      PROVE  Calm' /\ StatusKept
  <2>1. (WorkerStep(w) \/ Heartbeat(w)) /\ UNCHANGED recoveryVars
    BY <1>4 DEF WorkerActs, HeartbeatActs
  <2>2. CASE FailWrite(w) \/ DoneWrite(w)
    BY <2>1, <2>2, CalmWorkerWrites
  <2>3. CASE ~(FailWrite(w) \/ DoneWrite(w))
    <3>1. status' = status
      BY <2>1, <2>3, WorkerWrites DEF IndInv
    <3>2. Calm'
      BY <2>1, <2>3, CalmClaim, CalmHeartbeat, CalmMoves, CalmRelease, CalmMark DEF WorkerStep
    <3> QED
      BY <1>3, <3>1, <3>2
  <2> QED
    BY <2>2, <2>3
<1>5. ASSUME NEW r \in Recoverers, RecoveryActs(r)
      PROVE  Calm' /\ StatusKept
  <2>1. RecoveryStep(r)
    BY <1>5 DEF RecoveryActs
  <2>2. CASE ExhaustWrite(r) \/ FinishWrite(r)
    BY <2>2, CalmLoopWrites
  <2>3. CASE ~(ExhaustWrite(r) \/ FinishWrite(r))
    <3>1. status' = status
      BY <2>1, <2>3, RecoveryWrites
    <3>2. CASE Exhaust(r) \/ RequeueLost(r)
      BY <1>3, <3>1, <3>2, CalmLoop, CalmExpired
    <3>3. CASE ~(Exhaust(r) \/ RequeueLost(r))
      BY <1>3, <2>1, <2>3, <3>1, <3>3, CalmLists, CalmTakes, CalmLoop DEF RecoveryStep
    <3> QED
      BY <3>2, <3>3
  <2> QED
    BY <2>2, <2>3
<1>6. ASSUME NEW j \in Jobs, GraceEnds(j)
      PROVE  FALSE
  <2>1. status[j] = "created" /\ Known(j)
    BY <1>6 DEF GraceEnds, Ages, Known
  <2>2. Pending(j) \/ Leased(j) \/ \E r \in Recoverers : rjob[r] = j
    BY <2>1 DEF Calm, NoOrphan
  <2> QED
    BY <1>2, <1>6, <2>2 DEF GraceEnds
<1>7. CASE TimePasses \/ UNCHANGED vars
  <2>1. UNCHANGED <<processing, completed, queueVars, storeVars, workerVars, recoveryVars>>
    BY <1>7 DEF TimePasses, Tick, vars, fairVars, queueVars
  <2> QED
    BY <1>3, <2>1, CalmStill DEF storeVars
<1>8. CASE Next
  <2>1. \/ \E j \in Jobs : Accept(j) \/ EnqueueAccepted(j) \/ RequestEnds(j) \/ GraceEnds(j)
        \/ \E w \in Workers : WorkerActs(w) \/ HeartbeatActs(w)
        \/ \E r \in Recoverers : RecoveryActs(r)
        \/ TimePasses
    BY <1>2, <1>8 DEF Next, LeavesOrphan, WorkerFault, RecoveryFault
  <2> QED
    BY <1>4, <1>5, <1>6, <1>7, <2>1, CalmRequest
<1> QED
  BY <1>7, <1>8

Peace == Spent = 0 => Calm

(* No fault has happened if none of the three kinds has.                   *)
LEMMA NoneSpent ==
  ASSUME NEW a \in Nat, NEW b \in Nat, NEW c \in Nat,
         NEW x \in 0..a, NEW y \in 0..b, NEW z \in 0..c
  PROVE  (a - x) + (b - y) + (c - z) = 0 <=> x = a /\ y = b /\ z = c
  BY SMT

(* Before the first fault, the counters are full; a step that is one        *)
(* changes a counter.                                                      *)
LEMMA FirstFault ==
  ASSUME IndInv, [Next]_vars
  PROVE  /\ Spent = 0 => stalls = MaxStalls
         /\ UNCHANGED faultVars => Spent' = Spent
         /\ Spent' = 0 => Spent = 0 /\ UNCHANGED faultVars /\ stalls = MaxStalls
<1>1. FaultInv /\ FaultInv'
  BY IndInvNext DEF IndInv
<1>2. /\ Spent = 0 <=> crashes = MaxCrashes /\ errors = MaxErrors /\ stalls = MaxStalls
      /\ Spent' = 0 <=> crashes' = MaxCrashes /\ errors' = MaxErrors /\ stalls' = MaxStalls
  <2>1. MaxCrashes \in Nat /\ MaxErrors \in Nat /\ MaxStalls \in Nat
    BY FaultAssumption
  <2>2. Spent = 0 <=> crashes = MaxCrashes /\ errors = MaxErrors /\ stalls = MaxStalls
    BY SMT, <1>1, <2>1, NoneSpent DEF FaultInv, Spent
  <2>3. Spent' = 0 <=> crashes' = MaxCrashes /\ errors' = MaxErrors /\ stalls' = MaxStalls
    <3>1. crashes' \in 0..MaxCrashes /\ errors' \in 0..MaxErrors /\ stalls' \in 0..MaxStalls
      BY <1>1 DEF FaultInv
    <3>2. Spent' = (MaxCrashes - crashes') + (MaxErrors - errors') + (MaxStalls - stalls')
      BY DEF Spent
    <3>3. \A x \in 0..MaxCrashes, y \in 0..MaxErrors, z \in 0..MaxStalls :
             (MaxCrashes - x) + (MaxErrors - y) + (MaxStalls - z) = 0
                <=> x = MaxCrashes /\ y = MaxErrors /\ z = MaxStalls
      BY SMT, <2>1, NoneSpent
    <3> QED
      BY <3>1, <3>2, <3>3
  <2> QED
    BY <2>2, <2>3
<1>3. UNCHANGED faultVars => Spent' = Spent
  BY DEF faultVars, Spent
<1>4. CASE UNCHANGED faultVars
  BY <1>2, <1>3, <1>4
<1>5. CASE ~UNCHANGED faultVars
  <2>1. \/ Crashes /\ UNCHANGED <<errors, stalls>>
        \/ Errs /\ UNCHANGED <<crashes, stalls>>
        \/ Stalls /\ UNCHANGED <<crashes, errors>>
    BY <1>5 DEF Next, Accept, EnqueueAccepted, RequestEnds, LeavesOrphan, GraceEnds, WorkerActs,
                HeartbeatActs, WorkerFault, RecoveryActs, RecoveryFault, TimePasses, vars,
                faultVars
  <2>2. Spent' # 0
    BY SMT, <1>1, <1>2, <2>1, FaultAssumption DEF FaultInv, Crashes, Errs, Stalls
  <2> QED
    BY <1>2, <1>5, <2>2
<1> QED
  BY <1>4, <1>5

(* A fault writes no row, and ends what is said of calm.                   *)
LEMMA PeaceNext == IndInv /\ Peace /\ [Next]_vars => Peace' /\ StatusKept
<1> SUFFICES ASSUME IndInv, Peace, [Next]_vars PROVE Peace' /\ StatusKept
  OBVIOUS
<1>1. CASE UNCHANGED faultVars
  <2>1. Spent' = Spent
    BY <1>1, FirstFault
  <2>2. CASE Spent = 0
    BY <1>1, <2>2, FirstFault, CalmNext DEF Peace
  <2>3. CASE Spent # 0
    BY <2>1, <2>3 DEF Peace, StatusKept
  <2> QED
    BY <2>2, <2>3
<1>2. CASE ~UNCHANGED faultVars
  <2>1. Spent' # 0
    BY <1>2, FirstFault
  <2>2. status' = status
    <3>1. \/ \E j \in Jobs : LeavesOrphan(j) \/ GraceEnds(j)
          \/ \E w \in Workers : WorkerFault(w)
          \/ \E r \in Recoverers : RecoveryFault(r)
          \/ TimePasses
      BY <1>2 DEF Next, Accept, EnqueueAccepted, RequestEnds, WorkerActs, HeartbeatActs,
                  RecoveryActs, vars, faultVars
    <3> QED
      BY <3>1 DEF LeavesOrphan, GraceEnds, Ages, TimePasses, WorkerFault, RecoveryFault, Crash,
                  ClaimReplyLost, HeartbeatError, CallError, RecoveryCrash, RecoveryCallError,
                  UnmarkError, ListError, SkipOne, storeVars
  <2> QED
    BY <2>1, <2>2 DEF Peace, StatusKept
<1> QED
  BY <1>1, <1>2

(* Nothing has happened yet.                                               *)
LEMMA PeaceInit == Init => Peace
<1> SUFFICES ASSUME Init PROVE Calm
  BY DEF Peace
<1> USE DEF Init, FairInit, LeaseInit, StoreInit, WorkerInit, RecoveryInit
<1>1. HandsInv
  <2>1. \A w \in Workers : ~lost[w]
    BY Zenon
  <2>2. \A w \in Workers : stage[w] = "idle"
    OBVIOUS
  <2> QED
    BY <2>1, <2>2 DEF HandsInv, RowInHand
<1>2. PlacesInv
  <2>1. \A j \in Jobs : ~Leased(j)
    BY DEF Leased
  <2>2. \A j \in Jobs : queue[Owner[j]] = << >>
    BY OwnerAssumption
  <2>3. \A j \in Jobs : ~Pending(j)
    <3> HIDE DEF Init, FairInit
    <3>1. Len(<< >>) = 0 /\ 1..0 = {}
      BY SMT
    <3> QED
      BY <2>2, <3>1 DEF Pending
  <2> QED
    BY <2>1, <2>3 DEF PlacesInv
<1>3. FailingInv /\ ListsInv
  BY DEF FailingInv, Failing, ListsInv
<1>4. NoOrphan
  BY DEF NoOrphan, Known
<1>5. MarkedInv
  BY DEF MarkedInv, Marked, FinishStages
<1> QED
  BY <1>1, <1>2, <1>3, <1>4, <1>5 DEF Calm

(* However many workers and recovery loops there are: until something      *)
(* crashes, fails or comes late, nobody overwrites a terminal status,      *)
(* although no UPDATE is conditional on the old one, and although the test *)
(* of a row, the write and the end of the lease are steps of their own.    *)
THEOREM TerminalIsFinalAlways == Spec => TerminalIsFinal
<1>1. Spec => []IndInv
  BY PipelineTyped, PTL
<1> QED
  BY <1>1, PeaceInit, PeaceNext, PTL DEF Spec, TerminalIsFinal
-----------------------------------------------------------------------------
(* Whoever is about to tell of the end of a job after its lease, or tells  *)
(* of it as a recovery loop, has a row that says so.                       *)
TellersInv ==
    /\ \A w \in Workers : stage[w] = "failPublish" => status[held[w]] = "failed"
    /\ \A r \in Recoverers :
          /\ rstage[r] \in {"exhaustIdem", "exhaustPublish"} => status[rjob[r]] = "failed"
          /\ rstage[r] \in {"finishIdem", "finishClose"} => status[rjob[r]] = "completed"

(* ToldIsRecorded of one job.                                              *)
Recorded(j) == heard[j] \in {"none", status[j]} /\ idem[j] \in {"none", "in_flight", status[j]}

Agreed == TellersInv /\ \A j \in Jobs : Recorded(j)

StatusesKept == \A j \in Jobs : status[j] \in Terminal => status'[j] = status[j]

(* What was told stays recorded, since a terminal status stays.            *)
LEMMA RecordedKept ==
  ASSUME ResultInv, StatusesKept, NEW j \in Jobs, Recorded(j),
         heard'[j] = heard[j], idem'[j] = idem[j]
  PROVE  Recorded(j)'
<1>1. heard[j] \in {"none"} \cup Terminal /\ idem[j] \in {"none", "in_flight"} \cup Terminal
  BY DEF ResultInv, StoreTypeOK
<1>2. heard[j] = "none" \/ (heard[j] = status[j] /\ status[j] \in Terminal)
  BY <1>1 DEF Recorded, Terminal
<1>3. idem[j] \in {"none", "in_flight"} \/ (idem[j] = status[j] /\ status[j] \in Terminal)
  BY <1>1 DEF Recorded, Terminal
<1>4. heard'[j] \in {"none", status'[j]}
  BY <1>2 DEF StatusesKept
<1>5. idem'[j] \in {"none", "in_flight", status'[j]}
  BY <1>3 DEF StatusesKept
<1> QED
  BY <1>4, <1>5 DEF Recorded

(* Telling of the status that the row has keeps the record.                *)
LEMMA RecordedTold ==
  ASSUME ResultInv, StatusesKept, \A i \in Jobs : Recorded(i),
         NEW j \in Jobs, NEW s \in Terminal, status[j] = s,
         \/ PublishTerminal(j, s)
         \/ TransitionStatus(j, s)
  PROVE  \A i \in Jobs : Recorded(i)'
<1>1. heard \in [Jobs -> {"none"} \cup Terminal]
      /\ idem \in [Jobs -> {"none", "in_flight"} \cup Terminal]
  BY DEF ResultInv, StoreTypeOK
<1>2. status' = status
  BY DEF PublishTerminal, TransitionStatus
<1>3. ASSUME NEW i \in Jobs, i # j PROVE Recorded(i)'
  <2>1. heard'[i] = heard[i] /\ idem'[i] = idem[i]
    BY <1>1, <1>3 DEF PublishTerminal, TransitionStatus
  <2> QED
    BY <2>1, RecordedKept
<1>4. Recorded(j)'
  <2>1. heard'[j] \in {heard[j], s} /\ idem'[j] \in {idem[j], s}
    BY <1>1 DEF PublishTerminal, TransitionStatus
  <2> QED
    BY <1>2, <2>1 DEF Recorded
<1> QED
  BY <1>3, <1>4

(* The steps of a worker: it tells while it holds the lease, or has seen   *)
(* the row failed before it let the lease go.                              *)
LEMMA WorkerTells ==
  ASSUME IndInv, Calm, Agreed, StatusesKept, NEW w \in Workers, UNCHANGED recoveryVars,
         WorkerStep(w) \/ Heartbeat(w)
  PROVE  Agreed'
<1>1. /\ stage \in [Workers -> Stages] /\ held \in [Workers -> Jobs \cup {NoJob}]
      /\ ResultInv /\ RowInHand(w) /\ TellersInv /\ \A j \in Jobs : Recorded(j)
      /\ \A v \in Workers : stage[v] \notin {"idle", "gone"} => held[v] \in Jobs
      /\ \A r \in Recoverers : rstage[r] \notin {"wait", "sweep", "reconcile", "adopt"}
                                  => rjob[r] \in Jobs
  BY DEF IndInv, WorkInv, WorkerTypeOK, RecoveryInv, Calm, HandsInv, Agreed
<1>2. \A v \in Workers : v # w => stage'[v] = stage[v] /\ held'[v] = held[v]
  BY <1>1 DEF WorkerStep, Heartbeat, Claim, RunSucceeds, RunFails, StopHeartbeat, FailRead,
              FailWrite, FailIdem, FailRelease, FailPublish, Mark, DoneRead, DoneWrite, DoneIdem,
              DoneClose, DoneRelease, ErrClose, ErrRelease, Goto, Return, Leave
<1>3. stage'[w] = "failPublish" => FailRelease(w)
  BY <1>1 DEF WorkerStep, Heartbeat, Claim, RunSucceeds, RunFails, StopHeartbeat, FailRead,
              FailWrite, FailIdem, FailRelease, FailPublish, Mark, DoneRead, DoneWrite, DoneIdem,
              DoneClose, DoneRelease, ErrClose, ErrRelease, Goto, Return, Leave, Beating
<1>4. TellersInv'
  <2>1. ASSUME NEW v \in Workers, stage'[v] = "failPublish" PROVE status'[held'[v]] = "failed"
    <3>1. CASE v # w
      <4>1. stage[v] = "failPublish" /\ held'[v] = held[v] /\ held[v] \in Jobs
        BY <1>1, <1>2, <2>1, <3>1
      <4>2. status[held[v]] = "failed"
        BY <1>1, <4>1 DEF TellersInv
      <4> QED
        BY <4>1, <4>2 DEF StatusesKept, Terminal
    <3>2. CASE v = w
      <4>1. FailRelease(w)
        BY <1>3, <2>1, <3>2
      <4>2. stage[w] = "failRelease" /\ held' = held /\ status' = status
        BY <4>1 DEF FailRelease, Goto, ReleaseHeld, storeVars
      <4> QED
        BY <1>1, <3>2, <4>2 DEF RowInHand
    <3> QED
      BY <3>1, <3>2
  <2>2. ASSUME NEW r \in Recoverers, rstage'[r] \in {"exhaustIdem", "exhaustPublish"}
        PROVE  status'[rjob'[r]] = "failed"
    <3>1. rstage[r] \in {"exhaustIdem", "exhaustPublish"} /\ rjob'[r] = rjob[r]
      BY <2>2 DEF recoveryVars
    <3> QED
      BY <1>1, <3>1 DEF TellersInv, StatusesKept, Terminal
  <2>3. ASSUME NEW r \in Recoverers, rstage'[r] \in {"finishIdem", "finishClose"}
        PROVE  status'[rjob'[r]] = "completed"
    <3>1. rstage[r] \in {"finishIdem", "finishClose"} /\ rjob'[r] = rjob[r]
      BY <2>3 DEF recoveryVars
    <3> QED
      BY <1>1, <3>1 DEF TellersInv, StatusesKept, Terminal
  <2> QED
    BY <2>1, <2>2, <2>3 DEF TellersInv
<1>5. \A j \in Jobs : Recorded(j)'
  <2>1. CASE FailIdem(w) \/ FailPublish(w)
    <3>1. held[w] \in Jobs /\ status[held[w]] = "failed"
      BY <1>1, <2>1 DEF FailIdem, FailPublish, RowInHand, TellersInv
    <3>2. PublishTerminal(held[w], "failed") \/ TransitionStatus(held[w], "failed")
      BY <2>1 DEF FailIdem, FailPublish
    <3> QED
      BY <1>1, <3>1, <3>2, RecordedTold DEF Terminal
  <2>2. CASE DoneIdem(w) \/ DoneClose(w) \/ ErrClose(w)
    <3>1. held[w] \in Jobs /\ status[held[w]] = "completed"
      BY <1>1, <2>2 DEF DoneIdem, DoneClose, ErrClose, RowInHand
    <3>2. PublishTerminal(held[w], "completed") \/ TransitionStatus(held[w], "completed")
      BY <2>2 DEF DoneIdem, DoneClose, ErrClose
    <3> QED
      BY <1>1, <3>1, <3>2, RecordedTold DEF Terminal
  <2>3. CASE ~(FailIdem(w) \/ FailPublish(w) \/ DoneIdem(w) \/ DoneClose(w) \/ ErrClose(w))
    <3>1. heard' = heard /\ idem' = idem
      BY <2>3 DEF WorkerStep, Heartbeat, Claim, RunSucceeds, RunFails, StopHeartbeat, FailRead,
                  FailWrite, FailRelease, Mark, DoneRead, DoneWrite, DoneRelease, ErrRelease,
                  ReleaseHeld, UpdateStatus, storeVars
    <3> QED
      BY <1>1, <3>1, RecordedKept
  <2> QED
    BY <2>1, <2>2, <2>3
<1> QED
  BY <1>4, <1>5 DEF Agreed

(* The steps of a recovery loop: it tells of what it has just written, or  *)
(* of a marked job whose row was terminal when it looked.                  *)
LEMMA LoopTells ==
  ASSUME IndInv, Calm, Agreed, StatusesKept, NEW r \in Recoverers, RecoveryStep(r)
  PROVE  Agreed'
<1>1. /\ rstage \in [Recoverers -> RStages] /\ rjob \in [Recoverers -> Jobs \cup {NoJob}]
      /\ status \in [Jobs -> {"absent", "created"} \cup Terminal]
      /\ ResultInv /\ TellersInv /\ \A j \in Jobs : Recorded(j)
      /\ \A v \in Workers : stage[v] \notin {"idle", "gone"} => held[v] \in Jobs
      /\ \A q \in Recoverers : rstage[q] \notin {"wait", "sweep", "reconcile", "adopt"}
                                  => rjob[q] \in Jobs
  BY DEF IndInv, WorkInv, RecoveryInv, RecoveryTypeOK, ResultInv, StoreTypeOK, Agreed
<1>2. /\ \A q \in Recoverers : q # r => rstage'[q] = rstage[q] /\ rjob'[q] = rjob[q]
      /\ stage' = stage /\ held' = held
  BY <1>1 DEF RecoveryStep, SweepStart, RecoverOne, RemoveFinished, Exhaust, ExhaustRead,
              ExhaustWrite, ExhaustIdem, ExhaustPublish, RequeueLost, BumpRetry, ReconcileStart,
              ReconcileOne, FinishRead, FinishWrite, FinishIdem, FinishClose, Unmark,
              OrphansStart, AdoptOrphan, PassEnds, RGoto, RNext, RList, workerVars
<1>3. /\ rstage'[r] \in {"exhaustIdem", "exhaustPublish"} => ExhaustWrite(r) \/ ExhaustIdem(r)
      /\ rstage'[r] \in {"finishIdem", "finishClose"} =>
            FinishWrite(r) \/ FinishIdem(r) \/ \E j \in Jobs : ReconcileOne(r, j)
  <2>1. CASE FinishWrite(r) \/ FinishIdem(r) \/ \E j \in Jobs : ReconcileOne(r, j)
    <3>1. rstage'[r] \notin {"exhaustIdem", "exhaustPublish"}
      BY <1>1, <2>1 DEF FinishWrite, FinishIdem, ReconcileOne, RGoto
    <3> QED
      BY <2>1, <3>1
  <2>2. CASE ExhaustWrite(r) \/ ExhaustIdem(r)
    <3>1. rstage'[r] \notin {"finishIdem", "finishClose"}
      BY <1>1, <2>2 DEF ExhaustWrite, ExhaustIdem, RGoto
    <3> QED
      BY <2>2, <3>1
  <2>3. CASE \/ SweepStart(r) \/ (\E j \in Jobs : RecoverOne(r, j)) \/ RemoveFinished(r)
             \/ Exhaust(r) \/ ExhaustRead(r) \/ ExhaustPublish(r) \/ RequeueLost(r)
             \/ BumpRetry(r) \/ ReconcileStart(r) \/ FinishRead(r) \/ FinishClose(r)
             \/ Unmark(r) \/ OrphansStart(r) \/ PassEnds(r)
             \/ \E j \in Jobs : AdoptOrphan(r, j)
    <3>1. rstage'[r] \notin {"exhaustIdem", "exhaustPublish", "finishIdem", "finishClose"}
      BY <1>1, <2>3 DEF SweepStart, RecoverOne, RemoveFinished, Exhaust, ExhaustRead,
              ExhaustPublish, RequeueLost, BumpRetry, ReconcileStart, FinishRead, FinishClose,
              Unmark, OrphansStart, AdoptOrphan, PassEnds, RGoto, RNext, RList
    <3> QED
      BY <3>1
  <2> QED
    BY <2>1, <2>2, <2>3 DEF RecoveryStep
<1>4. rstage'[r] \in {"exhaustIdem", "exhaustPublish"} => status'[rjob'[r]] = "failed"
  <2>1. CASE ExhaustWrite(r)
    BY <1>1, <2>1 DEF ExhaustWrite, UpdateStatus, RGoto
  <2>2. CASE ExhaustIdem(r)
    BY <1>1, <2>2 DEF ExhaustIdem, TransitionStatus, RGoto, TellersInv
  <2> QED
    BY <1>3, <2>1, <2>2
<1>5. rstage'[r] \in {"finishIdem", "finishClose"} => status'[rjob'[r]] = "completed"
  <2>1. CASE FinishWrite(r)
    BY <1>1, <2>1 DEF FinishWrite, UpdateStatus, RGoto
  <2>2. CASE FinishIdem(r)
    BY <1>1, <2>2 DEF FinishIdem, TransitionStatus, RGoto, TellersInv
  <2>3. ASSUME NEW j \in Jobs, ReconcileOne(r, j), rstage'[r] \in {"finishIdem", "finishClose"}
        PROVE  status'[rjob'[r]] = "completed"
    <3>1. rjob'[r] = j /\ status' = status /\ status[j] # "created" /\ Marked(j)
      BY <1>1, <2>3 DEF ReconcileOne, RTake, Marked, storeVars
    <3>2. \/ status[j] = "completed"
          \/ \E w \in Workers : held[w] = j /\ stage[w] \in {"doneRead", "doneWrite"}
      BY <3>1 DEF Calm, MarkedInv
    <3>3. status[j] = "completed"
      BY <3>1, <3>2 DEF Calm, HandsInv, RowInHand
    <3> QED
      BY <3>1, <3>3
  <2> QED
    BY <1>3, <2>1, <2>2, <2>3
<1>6. TellersInv'
  <2>1. ASSUME NEW v \in Workers, stage'[v] = "failPublish" PROVE status'[held'[v]] = "failed"
    BY <1>1, <1>2, <2>1 DEF TellersInv, StatusesKept, Terminal
  <2>2. ASSUME NEW q \in Recoverers, q # r, rstage'[q] \in {"exhaustIdem", "exhaustPublish"}
        PROVE  status'[rjob'[q]] = "failed"
    <3>1. rstage[q] \in {"exhaustIdem", "exhaustPublish"} /\ rjob'[q] = rjob[q]
      BY <1>2, <2>2
    <3> QED
      BY <1>1, <3>1 DEF TellersInv, StatusesKept, Terminal
  <2>3. ASSUME NEW q \in Recoverers, q # r, rstage'[q] \in {"finishIdem", "finishClose"}
        PROVE  status'[rjob'[q]] = "completed"
    <3>1. rstage[q] \in {"finishIdem", "finishClose"} /\ rjob'[q] = rjob[q]
      BY <1>2, <2>3
    <3> QED
      BY <1>1, <3>1 DEF TellersInv, StatusesKept, Terminal
  <2> QED
    BY <1>4, <1>5, <2>1, <2>2, <2>3 DEF TellersInv
<1>7. \A j \in Jobs : Recorded(j)'
  <2>1. CASE ExhaustIdem(r) \/ ExhaustPublish(r)
    <3>1. rjob[r] \in Jobs /\ status[rjob[r]] = "failed"
      BY <1>1, <2>1 DEF ExhaustIdem, ExhaustPublish, TellersInv
    <3>2. PublishTerminal(rjob[r], "failed") \/ TransitionStatus(rjob[r], "failed")
      BY <2>1 DEF ExhaustIdem, ExhaustPublish
    <3> QED
      BY <1>1, <3>1, <3>2, RecordedTold DEF Terminal
  <2>2. CASE FinishIdem(r) \/ FinishClose(r)
    <3>1. rjob[r] \in Jobs /\ status[rjob[r]] = "completed"
      BY <1>1, <2>2 DEF FinishIdem, FinishClose, TellersInv
    <3>2. PublishTerminal(rjob[r], "completed") \/ TransitionStatus(rjob[r], "completed")
      BY <2>2 DEF FinishIdem, FinishClose
    <3> QED
      BY <1>1, <3>1, <3>2, RecordedTold DEF Terminal
  <2>3. CASE ~(ExhaustIdem(r) \/ ExhaustPublish(r) \/ FinishIdem(r) \/ FinishClose(r))
    <3>1. heard' = heard /\ idem' = idem
      BY <2>3 DEF RecoveryStep, SweepStart, RecoverOne, RemoveFinished, Exhaust, ExhaustRead,
                  ExhaustWrite, RequeueLost, BumpRetry, ReconcileStart, ReconcileOne, FinishRead,
                  FinishWrite, Unmark, OrphansStart, AdoptOrphan, PassEnds, UpdateStatus,
                  UpdateCreated, storeVars
    <3> QED
      BY <1>1, <3>1, RecordedKept
  <2> QED
    BY <2>1, <2>2, <2>3
<1> QED
  BY <1>6, <1>7 DEF Agreed

(* A step without a fault leaves everybody in agreement.                   *)
LEMMA AgreedNext ==
  ASSUME IndInv, stalls = MaxStalls, Calm, Agreed, StatusesKept, [Next]_vars, UNCHANGED faultVars
  PROVE  Agreed'
<1>1. ResultInv /\ TellersInv /\ \A j \in Jobs : Recorded(j)
  BY DEF IndInv, Agreed
<1>2. ~Crashes /\ ~Errs /\ ~Stalls
  BY SMT, FaultAssumption DEF IndInv, FaultInv, faultVars, Crashes, Errs, Stalls
<1>3. ASSUME UNCHANGED <<workerVars, recoveryVars>>, heard' = heard,
             \A j \in Jobs : idem'[j] \in {idem[j], "in_flight"}
      PROVE  Agreed'
  <2>1. \A v \in Workers : stage[v] \notin {"idle", "gone"} => held[v] \in Jobs
    BY DEF IndInv, WorkInv
  <2>2. \A r \in Recoverers : rstage[r] \notin {"wait", "sweep", "reconcile", "adopt"}
                                 => rjob[r] \in Jobs
    BY DEF IndInv, RecoveryInv
  <2>3. TellersInv'
    BY <1>1, <1>3, <2>1, <2>2 DEF TellersInv, StatusesKept, Terminal, workerVars, recoveryVars
  <2>4. ASSUME NEW j \in Jobs PROVE Recorded(j)'
    <3>1. CASE idem'[j] = idem[j]
      BY <1>1, <1>3, <3>1, RecordedKept
    <3>2. CASE idem'[j] = "in_flight"
      <4>1. heard[j] = "none" \/ (heard[j] = status[j] /\ status[j] \in Terminal)
        BY <1>1 DEF ResultInv, StoreTypeOK, Recorded, Terminal
      <4> QED
        BY <1>3, <3>2, <4>1 DEF Recorded, StatusesKept
    <3> QED
      BY <1>3, <3>1, <3>2
  <2> QED
    BY <2>3, <2>4 DEF Agreed
<1>4. ASSUME NEW j \in Jobs, Accept(j) PROVE Agreed'
  <2>1. idem \in [Jobs -> {"none", "in_flight"} \cup Terminal]
    BY <1>1 DEF ResultInv, StoreTypeOK
  <2>2. /\ UNCHANGED <<workerVars, recoveryVars>> /\ heard' = heard
        /\ \A i \in Jobs : idem'[i] \in {idem[i], "in_flight"}
    BY <1>4, <2>1 DEF Accept, Create
  <2> QED
    BY <1>3, <2>2
<1>5. ASSUME NEW j \in Jobs, EnqueueAccepted(j) \/ RequestEnds(j) \/ GraceEnds(j) PROVE Agreed'
  BY <1>3, <1>5 DEF EnqueueAccepted, RequestEnds, GraceEnds, Ages, storeVars
<1>6. CASE TimePasses \/ UNCHANGED vars
  BY <1>3, <1>6 DEF TimePasses, vars, storeVars
<1>7. CASE Next
  <2>1. \/ \E j \in Jobs : Accept(j) \/ EnqueueAccepted(j) \/ RequestEnds(j) \/ GraceEnds(j)
        \/ \E w \in Workers : WorkerActs(w) \/ HeartbeatActs(w)
        \/ \E r \in Recoverers : RecoveryActs(r)
        \/ TimePasses
    BY <1>2, <1>7 DEF Next, LeavesOrphan, WorkerFault, RecoveryFault
  <2> QED
    BY <1>4, <1>5, <1>6, <2>1, WorkerTells, LoopTells DEF WorkerActs, HeartbeatActs, RecoveryActs
<1> QED
  BY <1>6, <1>7

(* However many workers and recovery loops there are: until something      *)
(* crashes, fails or comes late, subscribers and repeated requests are     *)
(* told of an end only when the row has it, and of no other end.  With     *)
(* TerminalIsFinalAlways, nothing they are told is taken back.             *)
THEOREM ToldIsRecordedAlways == Spec => []ToldIsRecorded
<1> DEFINE Told0 == Spent = 0 => Agreed
<1>1. Init => Told0
  <2> SUFFICES ASSUME Init PROVE Agreed
    OBVIOUS
  <2>1. TellersInv
    BY DEF Init, WorkerInit, RecoveryInit, TellersInv
  <2>2. \A j \in Jobs : heard[j] = "none" /\ idem[j] = "none"
    BY DEF Init, StoreInit
  <2> QED
    BY <2>1, <2>2 DEF Agreed, Recorded
<1>2. IndInv /\ Peace /\ Told0 /\ [Next]_vars => Told0'
  <2> SUFFICES ASSUME IndInv, Peace, Told0, [Next]_vars, Spent' = 0 PROVE Agreed'
    OBVIOUS
  <2>1. Spent = 0 /\ UNCHANGED faultVars /\ stalls = MaxStalls
    BY FirstFault
  <2>2. StatusesKept
    BY <2>1, PeaceNext DEF StatusKept, StatusesKept
  <2> QED
    BY <2>1, <2>2, AgreedNext DEF Peace
<1>3. Told0 => ToldIsRecorded
  BY DEF Agreed, Recorded, ToldIsRecorded
<1>4. Spec => [](IndInv /\ Peace)
  BY PipelineTyped, PeaceInit, PeaceNext, PTL DEF Spec
<1> QED
  BY <1>1, <1>2, <1>3, <1>4, PTL DEF Spec
-----------------------------------------------------------------------------
(* For the queue, a request that has created its job and not yet queued it *)
(* has not begun.                                                          *)
Told == [j \in Jobs |-> IF phase[j] = "sending" /\ j \notin enqueueKey THEN "new" ELSE phase[j]]

Queue == INSTANCE FairQueue WITH phase <- Told

(* An operation on the queue is one of FairQueue, if no request begins or  *)
(* ends with it.                                                           *)
LEMMA QueueOperation ==
  ASSUME UNCHANGED <<phase, enqueueKey>>, phase \in [Jobs -> {"new", "sending", "settled"}],
         now \in Nat,
         \/ Serve
         \/ \E j \in Jobs : \/ Adopt(j) \/ LeaseStep(j)
                            \/ \E c \in 0..now : Requeue(j, c) \/ Discard(j, c)
         \/ Tick /\ UNCHANGED queueVars
  PROVE  Queue!FairNext
<1>1. Told' = Told
  BY DEF Told
<1>2. CASE Serve
  <2>1. Queue!Serve
    BY <1>1, <1>2 DEF Serve, Queue!Serve, Grant, Queue!Grant
  <2> QED
    BY <2>1 DEF Queue!FairNext
<1>3. ASSUME NEW j \in Jobs, Adopt(j)
      PROVE  Queue!FairNext
  <2>1. Told[j] = "settled"
    BY <1>3 DEF Adopt, Told
  <2>2. Queue!Adopt(j)
    BY <1>1, <1>3, <2>1 DEF Adopt, Queue!Adopt, Leased, Queue!Leased, Pending, Queue!Pending,
                            Full, Queue!Full, Join, Queue!Join, leaseVars, Queue!leaseVars
  <2> QED
    BY <2>2 DEF Queue!FairNext
<1>4. ASSUME NEW j \in Jobs, LeaseStep(j)
      PROVE  Queue!FairNext
  <2>1. Queue!LeaseStep(j)
    BY <1>1, <1>4 DEF LeaseStep, Queue!LeaseStep, ExtendProcessingLease,
                      Queue!ExtendProcessingLease, ReleaseProcessingJob,
                      Queue!ReleaseProcessingJob, MarkJobCompleted, Queue!MarkJobCompleted,
                      RemoveCompletedJob, Queue!RemoveCompletedJob, Leased, Queue!Leased, Grant,
                      Queue!Grant, Drop, Queue!Drop, queueVars, Queue!queueVars
  <2> QED
    BY <2>1 DEF Queue!FairNext
<1>5. ASSUME NEW j \in Jobs, NEW c \in 0..now, Requeue(j, c) \/ Discard(j, c)
      PROVE  Queue!FairNext
  <2>1. Queue!Requeue(j, c) \/ Queue!Discard(j, c)
    BY <1>1, <1>5 DEF Requeue, Queue!Requeue, Discard, Queue!Discard, Expired, Queue!Expired,
                      Leased, Queue!Leased, Drop, Queue!Drop, Join, Queue!Join, queueVars,
                      Queue!queueVars
  <2> QED
    BY <2>1 DEF Queue!FairNext
<1>6. CASE Tick /\ UNCHANGED queueVars
  <2>1. Queue!Tick /\ UNCHANGED Queue!queueVars
    BY <1>1, <1>6 DEF Tick, Queue!Tick, queueVars, Queue!queueVars
  <2> QED
    BY <2>1 DEF Queue!FairNext
<1> QED
  BY <1>2, <1>3, <1>4, <1>5, <1>6

(* Workers only claim, renew, release and mark.                            *)
LEMMA WorkerUsesQueue ==
  ASSUME QueueInv, WorkInv, NEW w \in Workers,
         \/ WorkerStep(w) \/ Heartbeat(w) \/ Crash(w)
         \/ ClaimReplyLost(w) \/ HeartbeatError(w) \/ CallError(w)
  PROVE  Queue!FairNext \/ UNCHANGED fairVars
<1>1. /\ stage[w] \notin {"idle", "gone"} => held[w] \in Jobs
      /\ phase \in [Jobs -> {"new", "sending", "settled"}] /\ now \in Nat
  BY DEF WorkInv, QueueInv, FairTypeOK, LeaseTypeOK
<1>2. CASE Claim(w) \/ ClaimReplyLost(w)
  BY <1>1, <1>2, QueueOperation DEF Claim, ClaimReplyLost, Serve
<1>3. CASE Heartbeat(w) \/ Mark(w) \/ FailRelease(w) \/ DoneRelease(w) \/ ErrRelease(w)
  <2>1. held[w] \in Jobs /\ UNCHANGED queueVars
    BY <1>1, <1>3 DEF Heartbeat, Beating, Mark, FailRelease, DoneRelease, ErrRelease, ReleaseHeld
  <2>2. \/ ExtendProcessingLease(held[w]) \/ ReleaseProcessingJob(held[w])
        \/ MarkJobCompleted(held[w]) \/ UNCHANGED leaseVars
    BY <1>3 DEF Heartbeat, Mark, FailRelease, DoneRelease, ErrRelease, ReleaseHeld
  <2>3. LeaseStep(held[w]) \/ UNCHANGED fairVars
    BY <2>1, <2>2 DEF LeaseStep, fairVars, leaseVars, queueVars
  <2> QED
    BY <1>1, <2>1, <2>3, QueueOperation DEF queueVars
<1>4. CASE \/ RunSucceeds(w) \/ RunFails(w) \/ FailRead(w) \/ FailWrite(w) \/ FailIdem(w)
           \/ FailPublish(w) \/ DoneRead(w) \/ DoneWrite(w) \/ DoneIdem(w) \/ DoneClose(w)
           \/ ErrClose(w) \/ Crash(w) \/ HeartbeatError(w) \/ CallError(w)
           \/ \E interrupted \in BOOLEAN : StopHeartbeat(w, interrupted)
  BY <1>4 DEF RunSucceeds, RunFails, FailRead, FailWrite, FailIdem, FailPublish, DoneRead,
              DoneWrite, DoneIdem, DoneClose, ErrClose, Crash, HeartbeatError, CallError,
              StopHeartbeat
<1> QED
  BY <1>2, <1>3, <1>4 DEF WorkerStep

(* Recovery loops only return, discard, adopt and unmark, with a cutoff    *)
(* that is not in the future.                                              *)
LEMMA RecoveryUsesQueue ==
  ASSUME QueueInv, RecoveryInv, OwnerInv, NEW r \in Recoverers,
         \/ RecoveryStep(r) \/ RecoveryCrash(r) \/ RecoveryCallError(r) \/ UnmarkError(r)
         \/ ListError(r) \/ \E j \in Jobs : SkipOne(r, j)
  PROVE  Queue!FairNext \/ UNCHANGED fairVars
<1>1. /\ rstage[r] \notin {"wait", "sweep", "reconcile", "adopt"} => rjob[r] \in Jobs
      /\ phase \in [Jobs -> {"new", "sending", "settled"}] /\ now \in Nat
      /\ cutoff[r] \in 0..now
  BY SMT DEF RecoveryInv, RecoveryTypeOK, QueueInv, FairTypeOK, LeaseTypeOK, OwnerInv
<1>2. CASE RemoveFinished(r) \/ Exhaust(r) \/ RequeueLost(r)
  <2>1. rjob[r] \in Jobs
    BY <1>1, <1>2 DEF RemoveFinished, Exhaust, RequeueLost
  <2>2. \/ Discard(rjob[r], cutoff[r]) \/ Requeue(rjob[r], cutoff[r]) \/ UNCHANGED fairVars
    BY <1>2 DEF RemoveFinished, Exhaust, RequeueLost
  <2>3. UNCHANGED <<phase, enqueueKey>>
    BY <2>2 DEF Discard, Requeue, fairVars, queueVars
  <2> QED
    BY <1>1, <2>1, <2>2, <2>3, QueueOperation
<1>3. CASE Unmark(r)
  <2>1. rjob[r] \in Jobs /\ LeaseStep(rjob[r]) /\ UNCHANGED <<phase, enqueueKey>>
    BY <1>1, <1>3 DEF Unmark, LeaseStep, queueVars
  <2> QED
    BY <1>1, <2>1, QueueOperation
<1>4. CASE \E j \in Jobs : AdoptOrphan(r, j)
  <2>1. (\E j \in Jobs : Adopt(j)) \/ UNCHANGED fairVars
    BY <1>4 DEF AdoptOrphan
  <2>2. UNCHANGED <<phase, enqueueKey>>
    BY <2>1 DEF Adopt, fairVars
  <2> QED
    BY <1>1, <2>1, <2>2, QueueOperation
<1>5. CASE \/ SweepStart(r) \/ ExhaustRead(r) \/ ExhaustWrite(r) \/ ExhaustIdem(r)
           \/ ExhaustPublish(r) \/ BumpRetry(r) \/ ReconcileStart(r) \/ FinishRead(r)
           \/ FinishWrite(r) \/ FinishIdem(r) \/ FinishClose(r) \/ OrphansStart(r)
           \/ PassEnds(r) \/ RecoveryCrash(r) \/ RecoveryCallError(r) \/ UnmarkError(r)
           \/ ListError(r)
           \/ \E j \in Jobs : RecoverOne(r, j) \/ ReconcileOne(r, j) \/ SkipOne(r, j)
  BY <1>5 DEF SweepStart, ExhaustRead, ExhaustWrite, ExhaustIdem, ExhaustPublish, BumpRetry,
              ReconcileStart, FinishRead, FinishWrite, FinishIdem, FinishClose, OrphansStart,
              PassEnds, RecoveryCrash, RecoveryCallError, UnmarkError, ListError, RecoverOne,
              ReconcileOne, SkipOne
<1> QED
  BY <1>2, <1>3, <1>4, <1>5 DEF RecoveryStep

(* No key is set for a job that nobody has accepted.                       *)
Unbegun == \A j \in Jobs : phase[j] = "new" => j \notin enqueueKey

(* A request that is accepted is not yet one of the queue's; then it       *)
(* submits its job once and settles.                                       *)
LEMMA RequestUsesQueue ==
  ASSUME IndInv, NEW j \in Jobs,
         \/ Accept(j) \/ EnqueueAccepted(j) \/ RequestEnds(j) \/ LeavesOrphan(j) \/ GraceEnds(j),
         Unbegun
  PROVE  Unbegun' /\ (Queue!FairNext \/ UNCHANGED Queue!fairVars)
<1>1. phase \in [Jobs -> {"new", "sending", "settled"}]
  BY DEF IndInv, QueueInv, FairTypeOK
<1>2. CASE GraceEnds(j)
  BY <1>2 DEF GraceEnds, fairVars, Queue!fairVars, Told, Unbegun
<1>3. CASE Accept(j)
  <2>1. /\ UNCHANGED <<processing, completed, now, queue, ring, enqueueKey>>
        /\ phase[j] = "new" /\ phase' = [phase EXCEPT ![j] = "sending"]
    BY <1>3 DEF Accept, leaseVars
  <2>2. Told' = Told
    BY <1>1, <2>1 DEF Told, Unbegun
  <2>3. Unbegun'
    BY <1>1, <2>1 DEF Unbegun
  <2> QED
    BY <2>1, <2>2, <2>3 DEF Queue!fairVars
<1>4. CASE RequestEnds(j) \/ LeavesOrphan(j)
  <2>1. /\ UNCHANGED <<processing, completed, now, queue, ring, enqueueKey>>
        /\ phase[j] = "sending" /\ phase' = [phase EXCEPT ![j] = "settled"]
    BY <1>4 DEF RequestEnds, LeavesOrphan, SubmissionSettles, leaseVars
  <2>2. Told[j] # "settled" /\ Told' = [Told EXCEPT ![j] = "settled"]
    BY <1>1, <2>1 DEF Told
  <2>3. Queue!SubmissionSettles(j)
    BY <2>1, <2>2 DEF Queue!SubmissionSettles, Queue!leaseVars
  <2>4. Unbegun'
    BY <1>1, <2>1 DEF Unbegun
  <2> QED
    BY <2>3, <2>4 DEF Queue!FairNext
<1>5. CASE EnqueueAccepted(j)
  <2>1. /\ UNCHANGED <<processing, completed, now>> /\ ~Full(j)
        /\ phase[j] = "sending" /\ phase' = phase
        /\ IF j \in enqueueKey THEN UNCHANGED <<queue, ring, enqueueKey>>
                               ELSE enqueueKey' = enqueueKey \cup {j} /\ Join(j)
    BY <1>1, <1>5 DEF EnqueueAccepted, Submit, leaseVars
  <2>2. Told[j] # "settled" /\ Told' = [Told EXCEPT ![j] = "sending"]
    BY <1>1, <2>1 DEF Told
  <2>3. Queue!Submit(j)
    BY <2>1, <2>2 DEF Queue!Submit, Queue!leaseVars, Full, Queue!Full, Join, Queue!Join
  <2>4. Unbegun'
    BY <1>1, <2>1 DEF Unbegun
  <2> QED
    BY <2>3, <2>4 DEF Queue!FairNext
<1> QED
  BY <1>2, <1>3, <1>4, <1>5

(* Every step is one of the queue or none.                                 *)
LEMMA StepUsesQueue ==
  IndInv /\ Unbegun /\ [Next]_vars => Unbegun' /\ [Queue!FairNext]_(Queue!fairVars)
<1> SUFFICES ASSUME IndInv, Unbegun, [Next]_vars
             PROVE  Unbegun' /\ (Queue!FairNext \/ UNCHANGED Queue!fairVars)
  OBVIOUS
<1>1. UNCHANGED fairVars => Unbegun' /\ UNCHANGED Queue!fairVars
  BY DEF fairVars, Queue!fairVars, Told, Unbegun
<1>2. UNCHANGED <<phase, enqueueKey>> => Unbegun'
  BY DEF Unbegun
<1>3. ASSUME NEW w \in Workers, WorkerActs(w) \/ HeartbeatActs(w) \/ WorkerFault(w)
      PROVE  Unbegun' /\ (Queue!FairNext \/ UNCHANGED Queue!fairVars)
  <2>1. \/ WorkerStep(w) \/ Heartbeat(w) \/ Crash(w)
        \/ ClaimReplyLost(w) \/ HeartbeatError(w) \/ CallError(w)
    BY <1>3 DEF WorkerActs, HeartbeatActs, WorkerFault
  <2>2. UNCHANGED <<phase, enqueueKey>>
    BY <2>1 DEF WorkerStep, Heartbeat, Crash, ClaimReplyLost, HeartbeatError, CallError, Claim,
                RunSucceeds, RunFails, StopHeartbeat, FailRead, FailWrite, FailIdem, FailRelease,
                FailPublish, Mark, DoneRead, DoneWrite, DoneIdem, DoneClose, DoneRelease,
                ErrClose, ErrRelease, ReleaseHeld, Serve, fairVars, queueVars
  <2> QED
    BY <1>1, <1>2, <2>1, <2>2, WorkerUsesQueue DEF IndInv
<1>4. ASSUME NEW r \in Recoverers, RecoveryActs(r) \/ RecoveryFault(r)
      PROVE  Unbegun' /\ (Queue!FairNext \/ UNCHANGED Queue!fairVars)
  <2>1. \/ RecoveryStep(r) \/ RecoveryCrash(r) \/ RecoveryCallError(r) \/ UnmarkError(r)
        \/ ListError(r) \/ \E j \in Jobs : SkipOne(r, j)
    BY <1>4 DEF RecoveryActs, RecoveryFault
  <2>2. UNCHANGED <<phase, enqueueKey>>
    BY <2>1 DEF RecoveryStep, SweepStart, RemoveFinished, Exhaust, ExhaustRead, ExhaustWrite,
                ExhaustIdem, ExhaustPublish, RequeueLost, BumpRetry, ReconcileStart, FinishRead,
                FinishWrite, FinishIdem, FinishClose, OrphansStart, PassEnds, RecoveryCrash,
                RecoveryCallError, UnmarkError, ListError, RecoverOne, ReconcileOne, SkipOne,
                AdoptOrphan, Unmark, Adopt, Discard, Requeue, fairVars, queueVars
  <2> QED
    BY <1>1, <1>2, <2>1, <2>2, RecoveryUsesQueue DEF IndInv
<1>5. CASE TimePasses
  <2>1. Tick /\ UNCHANGED queueVars /\ UNCHANGED <<phase, enqueueKey>>
    BY <1>5 DEF TimePasses, queueVars
  <2> QED
    BY <1>2, <2>1, QueueOperation DEF IndInv, QueueInv, FairTypeOK, LeaseTypeOK
<1>6. CASE UNCHANGED vars
  BY <1>1, <1>6 DEF vars
<1> QED
  BY <1>3, <1>4, <1>5, <1>6, RequestUsesQueue DEF Next

(* Workers, recovery loops and requests together, with all their faults,   *)
(* use the queue by the operations of FairQueue only: every behaviour of   *)
(* the composition is one of the shared queue, so the conditions FairQueue *)
(* puts on its callers (adopt only what no request is sending, discard and *)
(* requeue with a cutoff that is not in the future) are kept by the code.  *)
THEOREM PipelineUsesQueue == Spec => Queue!FairSpec
<1>1. Init => Unbegun /\ Queue!FairInit
  <2> SUFFICES ASSUME Init PROVE Unbegun /\ Queue!FairInit
    OBVIOUS
  <2>1. Unbegun /\ Told = [j \in Jobs |-> "new"]
    BY DEF Init, FairInit, Unbegun, Told
  <2> QED
    BY <2>1 DEF Init, FairInit, LeaseInit, Queue!FairInit, Queue!LeaseInit
<1>2. Spec => []IndInv
  BY PipelineTyped, PTL
<1> QED
  BY <1>1, <1>2, StepUsesQueue, PTL DEF Spec, Queue!FairSpec
=============================================================================
