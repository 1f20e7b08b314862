-------------------------- MODULE SubmissionProofs --------------------------
(***************************************************************************)
(* For any number of requests, keys and faults: who was told "accepted"    *)
(* has a job that the scheduler knows, and a key that says "completed"     *)
(* leads to a job that has completed.  While few calls fail: one job per   *)
(* key, one open job per hash, no run of a rejected job, and no key that   *)
(* is in flight for nobody.                                                *)
(*                                                                         *)
(* The second rests on how a key changes hands.  It is held by at most one *)
(* request from ClaimOrGet until SetJobID has bound the job (HeldByOne),   *)
(* during which it has no job (Holding); afterwards the reverse mapping    *)
(* and the key agree (Bound), and nobody may claim or delete it.  The      *)
(* promises that hold while few calls fail rest on where the job of a      *)
(* request can be at each of its steps (Places).                           *)
(***************************************************************************)
EXTENDS Submission, TLAPS

(* Most steps need no arithmetic.                                          *)
USE Zenon

Unbound == {"coalesce", "admit", "create", "bind", "bindFail", "undoCoalescing", "undoKey"}
Rejecting == {"check", "enqueue", "rejectFail", "rejectKey", "rejectCoalescing"}

Types == /\ stage \in [Requests -> Stages]
         /\ answer \in [Requests -> Answers]
         /\ keyStatus \in [Keys -> {"none", "in_flight", "completed", "failed"}]
         /\ keyJob \in [Keys -> Requests \cup {NoJob}]
         /\ reverse \subseteq Requests
         /\ row \in [Requests -> {"absent", "created", "completed", "failed"}]

(* The request that has the key.                                           *)
Holding == \A r \in Requests : stage[r] \in Unbound =>
              keyStatus[KeyOf[r]] = "in_flight" /\ keyJob[KeyOf[r]] = NoJob

HeldByOne == \A q, r \in Requests :
                {stage[q], stage[r]} \subseteq Unbound /\ KeyOf[q] = KeyOf[r] => q = r

Bound == /\ \A j \in reverse : keyJob[KeyOf[j]] = j /\ keyStatus[KeyOf[j]] # "none"
         /\ \A k \in Keys : keyJob[k] # NoJob => keyJob[k] \in reverse /\ KeyOf[keyJob[k]] = k
         /\ \A r \in Requests : stage[r] \in Rejecting => r \in reverse

KeyInv == Holding /\ HeldByOne /\ Bound /\ CompletedKeyHasCompletedJob

(* A job has a row before it is queued, and an accepted one stays known.   *)
JobInv == /\ \A r \in Requests : stage[r] \in {"bind", "check", "enqueue"} => row[r] # "absent"
          /\ \A r \in Requests : answer[r] = "accepted" =>
                stage[r] = "done" /\ row[r] # "absent" /\ Handled(r)

IndInv == Types /\ KeyInv /\ JobInv

(* The initial states.                                                     *)
LEMMA InitLemma == Init => IndInv
BY SMT, RequestAssumption
   DEF Init, IndInv, Types, KeyInv, Holding, HeldByOne, Bound, JobInv, Unbound, Rejecting,
       CompletedKeyHasCompletedJob, Stages, Answers

(* A step of a request, of its job or of a fault, one action at a time:    *)
(* first the types, then the jobs, then the keys.                          *)
LEMMA TypesStep ==
  ASSUME IndInv, NEW r \in Requests,
         Submit(r) \/ Environment(r) \/ EnqueueReplyLost(r) \/ CallError(r) \/ Dies(r) \/ Delay(r)
  PROVE  Types'
<1> USE RequestAssumption
    DEF IndInv, Types, Stages, Answers, requestVars, keyVars, queueVars, faultVars
<1>1. CASE ClaimOrGet(r)
  BY SMT, <1>1 DEF ClaimOrGet, KeyAnswer, KeyAnswers, Goto, Answering, Finished
<1>2. CASE TryCoalesce(r)
  BY <1>2 DEF TryCoalesce, Goto, Answering, Finished
<1>3. CASE Admit(r)
  BY SMT, <1>3 DEF Admit, Goto, Answering
<1>4. CASE Create(r)
  BY <1>4 DEF Create, Goto
<1>5. CASE SetJobID(r)
  BY SMT, <1>5 DEF SetJobID, Goto
<1>6. CASE CheckDeadline(r)
  BY <1>6 DEF CheckDeadline, Goto, Answering
<1>7. CASE TryEnqueue(r)
  BY SMT, <1>7 DEF TryEnqueue, Push, Answering, Finished
<1>8. CASE Reject(r)
  BY SMT, <1>8 DEF Reject, MarkFailed, TransitionStatus, DeleteHash, Goto, Answering, Finished
<1>9. CASE FailUnbound(r)
  BY <1>9 DEF FailUnbound, MarkFailed, Answering
<1>10. CASE CleanupClaims(r)
  BY <1>10 DEF CleanupClaims, DeleteHash, DeleteKey, Goto, Answering, Finished
<1>11. CASE EnqueueReplyLost(r)
  BY <1>11 DEF EnqueueReplyLost, Push
<1>12. CASE CallError(r)
  BY <1>12 DEF CallError, Goto, Answering, Finished
<1>13. CASE Dies(r)
  BY <1>13 DEF Dies, Answering, Finished
<1>14. CASE Delay(r)
  BY <1>14 DEF Delay
<1>15. CASE WorkerStarts(r)
  BY <1>15 DEF WorkerStarts
<1>16. CASE SweepOrphan(r)
  BY <1>16 DEF SweepOrphan
<1>17. CASE (\E s \in {"completed", "failed"} : WorkerEnds(r, s))
  BY SMT, <1>17 DEF WorkerEnds, TransitionStatus
<1> QED
  BY <1>1, <1>2, <1>3, <1>4, <1>5, <1>6, <1>7, <1>8, <1>9, <1>10, <1>11, <1>12, <1>13,
     <1>14, <1>15, <1>16, <1>17
     DEF Submit, Environment

(* Every step keeps what is said of jobs.                                  *)
LEMMA JobStep ==
  ASSUME IndInv, NEW r \in Requests,
         Submit(r) \/ Environment(r) \/ EnqueueReplyLost(r) \/ CallError(r) \/ Dies(r) \/ Delay(r)
  PROVE  JobInv'
<1> USE RequestAssumption
    DEF IndInv, Types, JobInv, Handled, requestVars, keyVars, queueVars, faultVars
<1>1. CASE ClaimOrGet(r)
  BY SMT, <1>1 DEF ClaimOrGet, KeyAnswer, KeyAnswers, Goto, Answering, Finished
<1>2. CASE TryCoalesce(r)
  BY <1>2 DEF TryCoalesce, Goto, Answering, Finished
<1>3. CASE Admit(r)
  BY <1>3 DEF Admit, Goto, Answering
<1>4. CASE Create(r)
  BY <1>4 DEF Create, Goto
<1>5. CASE SetJobID(r)
  BY <1>5 DEF SetJobID, Goto
<1>6. CASE CheckDeadline(r)
  BY <1>6 DEF CheckDeadline, Goto, Answering
<1>7. CASE TryEnqueue(r)
  BY <1>7 DEF TryEnqueue, Push, Answering, Finished
<1>8. CASE Reject(r)
  BY <1>8 DEF Reject, MarkFailed, TransitionStatus, DeleteHash, Goto, Answering, Finished
<1>9. CASE FailUnbound(r)
  BY <1>9 DEF FailUnbound, MarkFailed, Answering
<1>10. CASE CleanupClaims(r)
  BY <1>10 DEF CleanupClaims, DeleteHash, DeleteKey, Goto, Answering, Finished
<1>11. CASE EnqueueReplyLost(r)
  BY <1>11 DEF EnqueueReplyLost, Push
<1>12. CASE CallError(r)
  BY <1>12 DEF CallError, Goto, Answering, Finished
<1>13. CASE Dies(r)
  BY <1>13 DEF Dies, Answering, Finished
<1>14. CASE Delay(r)
  BY <1>14 DEF Delay
<1>15. CASE WorkerStarts(r)
  BY <1>15 DEF WorkerStarts
<1>16. CASE SweepOrphan(r)
  BY <1>16 DEF SweepOrphan
<1>17. CASE (\E s \in {"completed", "failed"} : WorkerEnds(r, s))
  BY <1>17 DEF WorkerEnds, TransitionStatus
<1> QED
  BY <1>1, <1>2, <1>3, <1>4, <1>5, <1>6, <1>7, <1>8, <1>9, <1>10, <1>11, <1>12, <1>13,
     <1>14, <1>15, <1>16, <1>17
     DEF Submit, Environment

(* Every step of a request keeps what is said of keys.                     *)
LEMMA KeyStep ==
  ASSUME IndInv, NEW r \in Requests,
         Submit(r) \/ Environment(r) \/ EnqueueReplyLost(r) \/ CallError(r) \/ Dies(r) \/ Delay(r)
  PROVE  KeyInv'
<1> USE RequestAssumption
    DEF IndInv, KeyInv, requestVars, keyVars, queueVars, faultVars
<1>1. CASE ClaimOrGet(r)
  <2>1. Holding'
    BY SMT, <1>1 DEF ClaimOrGet, Goto, Answering, Finished, Types, Holding, Unbound
  <2>2. HeldByOne'
    BY SMT, <1>1 DEF ClaimOrGet, Goto, Answering, Finished, Types, Holding, HeldByOne, Unbound
  <2>3. Bound'
    BY SMT, <1>1 DEF ClaimOrGet, Goto, Answering, Finished, Types, Bound, Rejecting
  <2>4. CompletedKeyHasCompletedJob'
    BY <1>1 DEF ClaimOrGet, Types, CompletedKeyHasCompletedJob
  <2> QED
    BY <2>1, <2>2, <2>3, <2>4
<1>2. CASE TryCoalesce(r)
  <2>1. Holding'
    BY <1>2 DEF TryCoalesce, Goto, Answering, Finished, Types, Holding, Unbound
  <2>2. HeldByOne'
    BY SMT, <1>2 DEF TryCoalesce, Goto, Answering, Finished, Types, HeldByOne, Unbound
  <2>3. Bound'
    BY SMT, <1>2 DEF TryCoalesce, Goto, Answering, Finished, Types, Bound, Rejecting
  <2>4. CompletedKeyHasCompletedJob'
    BY <1>2 DEF TryCoalesce, CompletedKeyHasCompletedJob
  <2> QED
    BY <2>1, <2>2, <2>3, <2>4
<1>3. CASE Admit(r)
  BY SMT, <1>3 DEF Admit, Goto, Answering, Types, Holding, HeldByOne, Bound,
                   CompletedKeyHasCompletedJob, Unbound, Rejecting
<1>4. CASE Create(r)
  BY SMT, <1>4 DEF Create, Goto, Holding, HeldByOne, Bound, CompletedKeyHasCompletedJob, Unbound,
                   Rejecting
<1>5. CASE SetJobID(r)
  <2>1. Holding'
    BY SMT, <1>5 DEF SetJobID, Goto, Types, Holding, HeldByOne, Unbound
  <2>2. HeldByOne'
    BY SMT, <1>5 DEF SetJobID, Goto, Types, HeldByOne, Unbound
  <2>3. Bound'
    BY SMT, <1>5 DEF SetJobID, Goto, Types, Holding, Bound, Unbound
  <2>4. CompletedKeyHasCompletedJob'
    BY <1>5 DEF SetJobID, Types, Holding, CompletedKeyHasCompletedJob, Unbound
  <2> QED
    BY <2>1, <2>2, <2>3, <2>4
<1>6. CASE CheckDeadline(r)
  BY SMT, <1>6 DEF CheckDeadline, Goto, Answering, Types, Holding, HeldByOne, Bound,
                   CompletedKeyHasCompletedJob, Unbound, Rejecting
<1>7. CASE TryEnqueue(r)
  BY SMT, <1>7 DEF TryEnqueue, Answering, Finished, Types, Holding, HeldByOne, Bound,
                   CompletedKeyHasCompletedJob, Unbound, Rejecting
<1>8. CASE Reject(r)
  <2>1. Holding'
    BY SMT, <1>8 DEF Reject, TransitionStatus, Goto, Answering, Finished, Types, Holding, Bound,
                     Unbound
  <2>2. HeldByOne'
    BY SMT, <1>8 DEF Reject, Goto, Answering, Finished, Types, HeldByOne, Unbound
  <2>3. Bound'
    BY SMT, <1>8 DEF Reject, TransitionStatus, Goto, Answering, Finished, Types, Bound, Rejecting
  <2>4. CompletedKeyHasCompletedJob'
    BY SMT, <1>8 DEF Reject, MarkFailed, TransitionStatus, Types, CompletedKeyHasCompletedJob
  <2> QED
    BY <2>1, <2>2, <2>3, <2>4
<1>9. CASE FailUnbound(r)
  BY SMT, <1>9 DEF FailUnbound, MarkFailed, Answering, Types, Holding, HeldByOne, Bound,
                   CompletedKeyHasCompletedJob, Unbound, Rejecting
<1>10. CASE CleanupClaims(r)
  <2>1. Holding'
    BY SMT, <1>10 DEF CleanupClaims, DeleteKey, Goto, Answering, Finished, Types, Holding,
                      HeldByOne, Unbound
  <2>2. HeldByOne'
    BY SMT, <1>10 DEF CleanupClaims, Goto, Answering, Finished, Types, HeldByOne, Unbound
  <2>3. Bound'
    BY SMT, <1>10 DEF CleanupClaims, DeleteKey, Goto, Answering, Finished, Types, Holding, Bound,
                      Unbound, Rejecting
  <2>4. CompletedKeyHasCompletedJob'
    BY <1>10 DEF CleanupClaims, DeleteKey, Types, CompletedKeyHasCompletedJob
  <2> QED
    BY <2>1, <2>2, <2>3, <2>4
<1>11. CASE EnqueueReplyLost(r)
  BY <1>11 DEF EnqueueReplyLost, Holding, HeldByOne, Bound, CompletedKeyHasCompletedJob
<1>12. CASE CallError(r)
  <2>1. Holding'
    BY <1>12 DEF CallError, Goto, Answering, Finished, Types, Holding, Unbound
  <2>2. HeldByOne'
    BY SMT, <1>12 DEF CallError, Goto, Answering, Finished, Types, HeldByOne, Unbound
  <2>3. Bound'
    BY SMT, <1>12 DEF CallError, Goto, Answering, Finished, Types, Bound, Rejecting
  <2>4. CompletedKeyHasCompletedJob'
    BY <1>12 DEF CallError, CompletedKeyHasCompletedJob
  <2> QED
    BY <2>1, <2>2, <2>3, <2>4
<1>13. CASE Dies(r)
  BY SMT, <1>13 DEF Dies, Answering, Finished, Holding, HeldByOne, Bound,
                    CompletedKeyHasCompletedJob, Unbound, Rejecting
<1>14. CASE Delay(r)
  BY <1>14 DEF Delay, Holding, HeldByOne, Bound, CompletedKeyHasCompletedJob
<1>15. CASE WorkerStarts(r)
  BY SMT, <1>15 DEF WorkerStarts, Holding, HeldByOne, Bound, CompletedKeyHasCompletedJob
<1>16. CASE SweepOrphan(r)
  BY SMT, <1>16 DEF SweepOrphan, Holding, HeldByOne, Bound, CompletedKeyHasCompletedJob
<1>17. CASE (\E s \in {"completed", "failed"} : WorkerEnds(r, s))
  <2>1. Holding'
    BY SMT, <1>17 DEF WorkerEnds, TransitionStatus, Types, Holding, Bound
  <2>2. HeldByOne'
    BY <1>17 DEF WorkerEnds, HeldByOne
  <2>3. Bound'
    BY SMT, <1>17 DEF WorkerEnds, TransitionStatus, Types, Bound
  <2>4. CompletedKeyHasCompletedJob'
    BY SMT, <1>17 DEF WorkerEnds, TransitionStatus, Types, Bound, CompletedKeyHasCompletedJob
  <2> QED
    BY <2>1, <2>2, <2>3, <2>4
<1> QED
  BY <1>1, <1>2, <1>3, <1>4, <1>5, <1>6, <1>7, <1>8, <1>9, <1>10, <1>11, <1>12, <1>13,
     <1>14, <1>15, <1>16, <1>17
     DEF Submit, Environment

(* A key reaches its TTL: nobody holds it, and its mappings go with it.     *)
LEMMA KeyExpiresStep ==
  ASSUME IndInv, NEW k \in Keys, KeyExpires(k)
  PROVE  IndInv'
<1>1. /\ keyStatus' = [keyStatus EXCEPT ![k] = "none"]
      /\ keyJob' = [keyJob EXCEPT ![k] = NoJob]
      /\ reverse' = {j \in reverse : KeyOf[j] # k}
      /\ UNCHANGED <<stage, answer, row, queued, running>>
      /\ \A r \in Requests : KeyOf[r] = k => stage[r] \in {"claim", "done"}
  BY DEF KeyExpires, Quiet, requestVars, queueVars
<1>2. Types' /\ JobInv'
  BY <1>1 DEF IndInv, Types, JobInv, Handled
<1>3. Holding' /\ HeldByOne'
  BY <1>1, RequestAssumption DEF IndInv, Types, KeyInv, Holding, HeldByOne, Unbound
<1>4. Bound'
  BY <1>1, RequestAssumption DEF IndInv, Types, KeyInv, Bound, Rejecting
<1>5. CompletedKeyHasCompletedJob'
  BY <1>1 DEF IndInv, Types, KeyInv, CompletedKeyHasCompletedJob
<1> QED
  BY <1>2, <1>3, <1>4, <1>5 DEF IndInv, KeyInv

(* Every step keeps the invariant.                                         *)
LEMMA StepLemma == IndInv /\ [Next]_vars => IndInv'
<1> SUFFICES ASSUME IndInv, [Next]_vars PROVE IndInv'
  OBVIOUS
<1>1. CASE UNCHANGED vars \/ \E h \in Hashes : HashExpires(h)
  <2>1. UNCHANGED <<stage, answer, keyStatus, keyJob, reverse, row, queued, running>>
    BY <1>1 DEF vars, HashExpires, requestVars, keyVars, queueVars
  <2> QED
    BY SMT, <2>1 DEF IndInv, Types, KeyInv, JobInv, Holding, HeldByOne, Bound,
                     CompletedKeyHasCompletedJob, Handled
<1>2. CASE \E r \in Requests : \/ Submit(r) \/ Environment(r) \/ EnqueueReplyLost(r)
                              \/ CallError(r) \/ Dies(r) \/ Delay(r)
  BY <1>2, TypesStep, JobStep, KeyStep DEF IndInv
<1>3. CASE \E k \in Keys : KeyExpires(k)
  BY <1>3, KeyExpiresStep
<1> QED
  BY <1>1, <1>2, <1>3 DEF Next

(* The inductive invariant of submission holds in every reachable state.   *)
THEOREM SubmissionSafe == Spec => []IndInv
BY InitLemma, StepLemma, PTL DEF Spec

(* Whoever is told "accepted" has a job that is queued, running or ended,  *)
(* however many requests compete and whatever fails.                       *)
THEOREM AcceptedIsHandledAlways == Spec => []AcceptedIsHandled
<1>1. IndInv => AcceptedIsHandled
  BY DEF IndInv, JobInv, AcceptedIsHandled
<1> QED
  BY <1>1, SubmissionSafe, PTL

(* A replay is answered with a job that has completed: the key is bound    *)
(* once and is never taken over while its job may still move it.           *)
THEOREM CompletedKeyAlways == Spec => []CompletedKeyHasCompletedJob
<1>1. IndInv => CompletedKeyHasCompletedJob
  BY DEF IndInv, KeyInv
<1> QED
  BY <1>1, SubmissionSafe, PTL
-----------------------------------------------------------------------------
(* The rest of TypeOK: the sets, and the faults that are left.             *)
Sets == /\ late \subseteq Requests /\ short \subseteq Requests
        /\ coalescing \subseteq Hashes
        /\ queued \subseteq Requests /\ enqueueKey \subseteq Requests
        /\ running \subseteq Requests /\ ran \subseteq Requests

Limits == /\ Sets
          /\ errors \in 0..MaxErrors
          /\ delays \in 0..MaxDelays
          /\ expiries \in 0..MaxExpiries

(* Where the job of a request that is at work can be: it has a row from    *)
(* Create on, and the queue has it only once the enqueue script has run.   *)
Places == /\ \A r \in Requests : stage[r] \in {"claim", "coalesce", "admit", "create"}
                => row[r] = "absent"
          /\ \A r \in Requests : stage[r] \in {"bind", "bindFail"} => row[r] = "created"
          /\ \A r \in Requests :
                stage[r] \in {"check", "enqueue", "rejectFail"} /\ r \notin enqueueKey
                   => row[r] = "created"
          /\ \A r \in Requests : stage[r] # "done" /\ r \notin enqueueKey
                => r \notin queued /\ r \notin running /\ r \notin ran
          /\ \A r \in Requests : stage[r] \in Unbound \cup {"claim", "check"}
                => r \notin enqueueKey
          /\ \A r \in Requests : r \in queued => r \notin running
          /\ \A r \in Requests : stage[r] = "bindFail" => errors < MaxErrors

Base == IndInv /\ Limits /\ Places

Open == {"created", "completed"}

(* Under one key: an open job keeps the key taken and keeps every other    *)
(* request from holding it; who gives the key up in time has no open job.  *)
KeyUse == /\ \A r \in Requests : row[r] \in Open => keyStatus[KeyOf[r]] # "none"
          /\ \A q, r \in Requests :
                row[q] \in Open /\ stage[r] \in Unbound /\ KeyOf[q] = KeyOf[r] => q = r
          /\ \A r \in Requests :
                stage[r] \in {"undoCoalescing", "undoKey"} /\ r \notin late
                   => row[r] \notin Open
          /\ \A q, r \in Requests :
                row[q] \in Open /\ row[r] \in Open /\ KeyOf[q] = KeyOf[r] => q = r

OneErrorAtMost == expiries = MaxExpiries /\ errors >= MaxErrors - 1

(* Under one hash: the coalescing key is there as long as a request may    *)
(* still give it up or a job is open, and it has one owner.                *)
Owns(r) == \/ stage[r] \in {"admit", "create", "bind", "bindFail", "undoCoalescing"}
           \/ stage[r] \in Rejecting
           \/ row[r] = "created"

HashUse == /\ \A r \in Requests : Owns(r) => HashOf[r] \in coalescing
           /\ \A q, r \in Requests : Owns(q) /\ Owns(r) /\ HashOf[q] = HashOf[r] => q = r
           /\ \A r \in Requests :
                 stage[r] \in {"rejectKey", "rejectCoalescing", "undoCoalescing"}
                    /\ r \notin late => row[r] # "created"

NoErrors == expiries = MaxExpiries /\ errors = MaxErrors

(* With every compensation in time: the queue has heard of no request that *)
(* is still at work, and a job of a refused one is failed before it ends.  *)
Refused == {"not_admitted", "full", "too_late"}

TurnedAway ==
    /\ \A r \in Requests : stage[r] # "done" => r \notin enqueueKey
    /\ \A r \in Requests : answer[r] \in Refused =>
          /\ stage[r] \in {"rejectFail", "rejectKey", "rejectCoalescing",
                           "undoCoalescing", "undoKey", "done"}
          /\ r \notin queued /\ r \notin running /\ r \notin ran
          /\ stage[r] # "rejectFail" => row[r] # "created"

(* Queued and running jobs are open, and a key that is in flight is in     *)
(* somebody's hands.                                                       *)
KeyAtWork(k) ==
    \/ \E r \in Requests : KeyOf[r] = k /\ stage[r] \notin {"claim", "done"}
    \/ keyJob[k] # NoJob /\ row[keyJob[k]] = "created"
    \/ \E r \in Requests : KeyOf[r] = k /\ answer[r] = "coalesced"

AtWork ==
    /\ \A j \in Requests : j \in queued \/ j \in running => row[j] = "created"
    /\ \A r \in Requests : stage[r] = "rejectCoalescing" => keyStatus[KeyOf[r]] # "in_flight"
    /\ \A r \in Requests : answer[r] = "coalesced" => stage[r] = "done"
    /\ \A k \in Keys : keyStatus[k] = "in_flight" => KeyAtWork(k)

InTime == errors = MaxErrors /\ late = {}

Calm == /\ OneErrorAtMost => KeyUse
        /\ NoErrors => HashUse
        /\ InTime => TurnedAway /\ AtWork

(* A call fails, or the process dies.                                      *)
Fails == errors > 0 /\ errors' = errors - 1

(* Faults are used up and lateness stays, in every step.                   *)
LEMMA LimitsStep ==
  ASSUME IndInv, Limits, NEW r \in Requests,
         Submit(r) \/ Environment(r) \/ EnqueueReplyLost(r) \/ CallError(r) \/ Dies(r) \/ Delay(r)
  PROVE  Limits' /\ errors' <= errors /\ expiries' = expiries /\ late \subseteq late'
<1> USE RequestAssumption
    DEF Limits, Sets, Goto, Answering, Finished, requestVars, keyVars, queueVars, faultVars
<1>1. CASE Submit(r)
  <2>1. UNCHANGED faultVars /\ late' = late /\ short' = short
    BY <1>1 DEF Submit, ClaimOrGet, TryCoalesce, Admit, Create, SetJobID, CheckDeadline,
                TryEnqueue, Reject, FailUnbound, CleanupClaims
  <2>2. \/ coalescing' \subseteq coalescing
        \/ coalescing' = coalescing \cup {HashOf[r]}
    BY <1>1 DEF Submit, ClaimOrGet, TryCoalesce, Admit, Create, SetJobID, CheckDeadline,
                TryEnqueue, Reject, FailUnbound, CleanupClaims, DeleteHash
  <2>3. /\ queued' \subseteq Requests /\ enqueueKey' \subseteq Requests
        /\ running' = running /\ ran' = ran
    BY <1>1 DEF Submit, ClaimOrGet, TryCoalesce, Admit, Create, SetJobID, CheckDeadline,
                TryEnqueue, Push, Reject, FailUnbound, CleanupClaims
  <2> QED
    BY SMT, <2>1, <2>2, <2>3
<1>2. CASE Environment(r)
  <2>1. UNCHANGED faultVars /\ Sets' /\ late' = late
    BY <1>2 DEF Environment, WorkerStarts, WorkerEnds, SweepOrphan
  <2> QED
    BY SMT, <2>1
<1>3. CASE EnqueueReplyLost(r) \/ CallError(r) \/ Dies(r)
  <2>1. Fails /\ UNCHANGED <<delays, expiries>>
    BY <1>3 DEF EnqueueReplyLost, CallError, Dies, Fails
  <2>2. Sets' /\ late' = late
    BY <1>3 DEF EnqueueReplyLost, Push, CallError, Dies
  <2> QED
    BY SMT, <2>1, <2>2, BoundAssumption DEF Fails
<1>4. CASE Delay(r)
  <2>1. Sets' /\ late \subseteq late'
    BY <1>4 DEF Delay
  <2> QED
    BY SMT, <1>4, <2>1, BoundAssumption DEF Delay
<1> QED
  BY <1>1, <1>2, <1>3, <1>4

(* A step of a request or of its job leaves every job in its place.        *)
LEMMA PlacesStep ==
  ASSUME Base, NEW r \in Requests,
         Submit(r) \/ Environment(r) \/ EnqueueReplyLost(r) \/ CallError(r) \/ Dies(r) \/ Delay(r)
  PROVE  Places'
<1>0. Fails => errors' < MaxErrors
  BY SMT, BoundAssumption DEF Base, Limits, Fails
<1> USE RequestAssumption, BoundAssumption
    DEF Base, IndInv, KeyInv, Places, requestVars, keyVars, queueVars, faultVars
<1>1. CASE ClaimOrGet(r)
  BY SMT, <1>1 DEF ClaimOrGet, Goto, Answering, Finished, Types
<1>2. CASE TryCoalesce(r)
  BY SMT, <1>2 DEF TryCoalesce, Goto, Answering, Finished, Types, Unbound
<1>3. CASE Admit(r)
  BY SMT, <1>3 DEF Admit, Goto, Answering, Types, Unbound
<1>4. CASE Create(r)
  BY <1>4 DEF Create, Goto, Types, Unbound
<1>5. CASE SetJobID(r)
  BY SMT, <1>5 DEF SetJobID, Goto, Types, Holding, Unbound
<1>6. CASE CheckDeadline(r)
  BY SMT, <1>6 DEF CheckDeadline, Goto, Answering, Types
<1>7. CASE TryEnqueue(r)
  BY SMT, <1>7 DEF TryEnqueue, Push, Answering, Finished, Types, Unbound
<1>8. CASE Reject(r)
  BY SMT, <1>8 DEF Reject, MarkFailed, Goto, Answering, Finished, Types, Unbound
<1>9. CASE FailUnbound(r)
  BY <1>9 DEF FailUnbound, MarkFailed, Answering, Types, Unbound
<1>10. CASE CleanupClaims(r)
  BY SMT, <1>10 DEF CleanupClaims, Goto, Answering, Finished, Types, Unbound
<1>11. CASE EnqueueReplyLost(r)
  BY <1>0, <1>11 DEF EnqueueReplyLost, Push, Fails, Unbound
<1>12. CASE CallError(r)
  BY SMT, <1>0, <1>12 DEF CallError, Goto, Answering, Finished, Types, Fails, Unbound
<1>13. CASE Dies(r)
  BY SMT, <1>0, <1>13 DEF Dies, Answering, Finished, Fails, Unbound
<1>14. CASE Delay(r)
  BY <1>14 DEF Delay
<1>15. CASE WorkerStarts(r)
  BY <1>15 DEF WorkerStarts
<1>16. CASE SweepOrphan(r)
  BY <1>16 DEF SweepOrphan
<1>17. CASE (\E s \in {"completed", "failed"} : WorkerEnds(r, s))
  BY SMT, <1>17 DEF WorkerEnds, Unbound
<1> QED
  BY <1>1, <1>2, <1>3, <1>4, <1>5, <1>6, <1>7, <1>8, <1>9, <1>10, <1>11, <1>12, <1>13,
     <1>14, <1>15, <1>16, <1>17
     DEF Submit, Environment

(* What is said of keys, jobs and hashes while few calls fail.             *)
LEMMA KeyUseStep ==
  ASSUME Base, KeyUse, OneErrorAtMost', NEW r \in Requests,
         Submit(r) \/ Environment(r) \/ EnqueueReplyLost(r) \/ CallError(r) \/ Dies(r) \/ Delay(r)
  PROVE  KeyUse'
<1> USE RequestAssumption, BoundAssumption
    DEF Base, IndInv, KeyInv, KeyUse, Open, requestVars, keyVars, queueVars, faultVars
<1>1. CASE ClaimOrGet(r)
  BY SMT, <1>1 DEF ClaimOrGet, Goto, Answering, Finished, Types, Unbound
<1>2. CASE TryCoalesce(r)
  BY SMT, <1>2 DEF TryCoalesce, Goto, Answering, Finished, Types, Unbound
<1>3. CASE Admit(r)
  BY SMT, <1>3 DEF Admit, Goto, Answering, Types, Places, Unbound
<1>4. CASE Create(r)
  BY SMT, <1>4 DEF Create, Goto, Holding, HeldByOne, Unbound
<1>5. CASE SetJobID(r)
  BY SMT, <1>5 DEF SetJobID, Goto, Types, Unbound
<1>6. CASE CheckDeadline(r)
  BY SMT, <1>6 DEF CheckDeadline, Goto, Answering, Types, Unbound
<1>7. CASE TryEnqueue(r)
  BY SMT, <1>7 DEF TryEnqueue, Answering, Finished, Types, Unbound
<1>8. CASE Reject(r)
  BY SMT, <1>8 DEF Reject, MarkFailed, TransitionStatus, Goto, Answering, Finished, Types, Unbound
<1>9. CASE FailUnbound(r)
  BY SMT, <1>9 DEF FailUnbound, MarkFailed, Answering, Types, Places
<1>10. CASE CleanupClaims(r)
  BY SMT, <1>10 DEF CleanupClaims, DeleteKey, Goto, Answering, Finished, Types, Unbound
<1>11. CASE EnqueueReplyLost(r)
  BY <1>11 DEF EnqueueReplyLost
<1>12. CASE CallError(r)
  BY SMT, <1>12 DEF CallError, Goto, Answering, Finished, Types, Limits, Places, OneErrorAtMost,
                    Unbound
<1>13. CASE Dies(r)
  BY SMT, <1>13 DEF Dies, Answering, Finished, Unbound
<1>14. CASE Delay(r)
  BY <1>14 DEF Delay
<1>15. CASE WorkerStarts(r)
  BY <1>15 DEF WorkerStarts
<1>16. CASE SweepOrphan(r)
  BY <1>16 DEF SweepOrphan
<1>17. CASE (\E s \in {"completed", "failed"} : WorkerEnds(r, s))
  BY SMT, <1>17 DEF WorkerEnds, TransitionStatus, Types
<1> QED
  BY <1>1, <1>2, <1>3, <1>4, <1>5, <1>6, <1>7, <1>8, <1>9, <1>10, <1>11, <1>12, <1>13,
     <1>14, <1>15, <1>16, <1>17
     DEF Submit, Environment

(* While no call fails, a coalescing key has one owner.                    *)
LEMMA HashUseStep ==
  ASSUME Base, HashUse, NoErrors', NEW r \in Requests,
         Submit(r) \/ Environment(r) \/ EnqueueReplyLost(r) \/ CallError(r) \/ Dies(r) \/ Delay(r)
  PROVE  HashUse'
<1>0. ~Fails /\ (errors' = errors => stage[r] # "bindFail")
  BY SMT, BoundAssumption DEF Base, Limits, Places, NoErrors, Fails
<1> USE RequestAssumption, BoundAssumption
    DEF Base, IndInv, KeyInv, HashUse, Owns, requestVars, keyVars, queueVars, faultVars
<1>1. CASE ClaimOrGet(r)
  BY SMT, <1>1 DEF ClaimOrGet, Goto, Answering, Finished, Types, Rejecting
<1>2. CASE TryCoalesce(r)
  BY SMT, <1>2 DEF TryCoalesce, Goto, Answering, Finished, Types, Rejecting
<1>3. CASE Admit(r)
  BY SMT, <1>3 DEF Admit, Goto, Answering, Types, Places
<1>4. CASE Create(r)
  BY SMT, <1>4 DEF Create, Goto
<1>5. CASE SetJobID(r)
  BY SMT, <1>5 DEF SetJobID, Goto, Types
<1>6. CASE CheckDeadline(r)
  BY SMT, <1>6 DEF CheckDeadline, Goto, Answering, Types, Rejecting
<1>7. CASE TryEnqueue(r)
  BY SMT, <1>7 DEF TryEnqueue, Answering, Finished, Types, Rejecting
<1>8. CASE Reject(r)
  BY SMT, <1>8 DEF Reject, MarkFailed, DeleteHash, Goto, Answering, Finished, Types, Rejecting
<1>9. CASE FailUnbound(r)
  BY <1>0, <1>9 DEF FailUnbound
<1>10. CASE CleanupClaims(r)
  BY SMT, <1>10 DEF CleanupClaims, DeleteHash, Goto, Answering, Finished, Types, Rejecting
<1>11. CASE EnqueueReplyLost(r)
  BY <1>0, <1>11 DEF EnqueueReplyLost, Fails
<1>12. CASE CallError(r)
  BY <1>0, <1>12 DEF CallError, Fails
<1>13. CASE Dies(r)
  BY <1>0, <1>13 DEF Dies, Fails
<1>14. CASE Delay(r)
  BY <1>14 DEF Delay
<1>15. CASE WorkerStarts(r)
  BY <1>15 DEF WorkerStarts
<1>16. CASE SweepOrphan(r)
  BY <1>16 DEF SweepOrphan
<1>17. CASE (\E s \in {"completed", "failed"} : WorkerEnds(r, s))
  BY SMT, <1>17 DEF WorkerEnds
<1> QED
  BY <1>1, <1>2, <1>3, <1>4, <1>5, <1>6, <1>7, <1>8, <1>9, <1>10, <1>11, <1>12, <1>13,
     <1>14, <1>15, <1>16, <1>17
     DEF Submit, Environment

(* Where no call has failed, none fails in this step, and no binding has.  *)
LEMMA InTimeLemma ==
  ASSUME Base, InTime, InTime', NEW r \in Requests
  PROVE  ~Fails /\ stage[r] # "bindFail"
<1>1. errors = MaxErrors /\ errors' = MaxErrors /\ MaxErrors \in Nat
  BY BoundAssumption DEF InTime
<1>2. ~Fails /\ ~(errors < MaxErrors)
  BY SMT, <1>1 DEF Fails
<1>3. stage[r] = "bindFail" => errors < MaxErrors
  BY DEF Base, Places
<1> QED
  BY <1>2, <1>3

(* While no call fails and no compensation is late, a request that is      *)
(* turned away is unknown to the queue.                                    *)
LEMMA TurnedAwayStep ==
  ASSUME Base, TurnedAway, InTime, InTime', NEW r \in Requests,
         Submit(r) \/ Environment(r) \/ EnqueueReplyLost(r) \/ CallError(r) \/ Dies(r) \/ Delay(r)
  PROVE  TurnedAway'
<1>0. ~Fails /\ stage[r] # "bindFail"
  BY InTimeLemma
<1> USE RequestAssumption, BoundAssumption
    DEF Base, IndInv, KeyInv, TurnedAway, Refused, requestVars, keyVars, queueVars, faultVars
<1>1. CASE ClaimOrGet(r)
  BY SMT, <1>1 DEF ClaimOrGet, Goto, Answering, Finished, KeyAnswer, KeyAnswers, Types
<1>2. CASE TryCoalesce(r)
  BY <1>2 DEF TryCoalesce, Goto, Answering, Finished, Types
<1>3. CASE Admit(r)
  BY SMT, <1>3 DEF Admit, Goto, Answering, Types, Places
<1>4. CASE Create(r)
  BY SMT, <1>4 DEF Create, Goto
<1>5. CASE SetJobID(r)
  BY <1>5 DEF SetJobID, Goto, Types
<1>6. CASE CheckDeadline(r)
  BY SMT, <1>6 DEF CheckDeadline, Goto, Answering, Types, Places
<1>7. CASE TryEnqueue(r)
  BY SMT, <1>7 DEF TryEnqueue, Push, Answering, Finished, Types, Places
<1>8. CASE Reject(r)
  BY SMT, <1>8 DEF Reject, MarkFailed, Goto, Answering, Finished, Types, InTime
<1>9. CASE FailUnbound(r)
  BY <1>0, <1>9 DEF FailUnbound
<1>10. CASE CleanupClaims(r)
  BY SMT, <1>10 DEF CleanupClaims, Goto, Answering, Finished, Types
<1>11. CASE EnqueueReplyLost(r)
  BY <1>0, <1>11 DEF EnqueueReplyLost, Fails
<1>12. CASE CallError(r)
  BY <1>0, <1>12 DEF CallError, Fails
<1>13. CASE Dies(r)
  BY <1>0, <1>13 DEF Dies, Fails
<1>14. CASE Delay(r)
  BY <1>14 DEF Delay
<1>15. CASE WorkerStarts(r)
  BY <1>15 DEF WorkerStarts
<1>16. CASE SweepOrphan(r)
  BY <1>16 DEF SweepOrphan
<1>17. CASE (\E s \in {"completed", "failed"} : WorkerEnds(r, s))
  BY SMT, <1>17 DEF WorkerEnds
<1> QED
  BY <1>1, <1>2, <1>3, <1>4, <1>5, <1>6, <1>7, <1>8, <1>9, <1>10, <1>11, <1>12, <1>13,
     <1>14, <1>15, <1>16, <1>17
     DEF Submit, Environment

(* Under the same conditions, whoever leaves a key in flight leaves it to  *)
(* a job that is open, or was coalesced.                                   *)
LEMMA AtWorkStep ==
  ASSUME Base, TurnedAway, AtWork, InTime, InTime', NEW r \in Requests,
         Submit(r) \/ Environment(r) \/ EnqueueReplyLost(r) \/ CallError(r) \/ Dies(r) \/ Delay(r)
  PROVE  AtWork'
<1>0. ~Fails /\ stage[r] # "bindFail"
  BY InTimeLemma
<1> USE RequestAssumption, BoundAssumption
    DEF Base, IndInv, KeyInv, AtWork, KeyAtWork, requestVars, keyVars, queueVars, faultVars
<1>1. CASE ClaimOrGet(r)
  BY SMT, <1>1 DEF ClaimOrGet, Goto, Answering, Finished, Types, Bound, Rejecting
<1>2. CASE TryCoalesce(r)
  BY SMT, <1>2 DEF TryCoalesce, Goto, Answering, Finished, Types
<1>3. CASE Admit(r)
  BY SMT, <1>3 DEF Admit, Goto, Answering, Types
<1>4. CASE Create(r)
  BY SMT, <1>4 DEF Create, Goto
<1>5. CASE SetJobID(r)
  BY SMT, <1>5 DEF SetJobID, Goto, Types
<1>6. CASE CheckDeadline(r)
  BY SMT, <1>6 DEF CheckDeadline, Goto, Answering, Types
<1>7. CASE TryEnqueue(r)
  BY SMT, <1>7 DEF TryEnqueue, Push, Answering, Finished, Types, Bound, Places, TurnedAway,
                   Rejecting
<1>8. CASE Reject(r)
  BY SMT, <1>8 DEF Reject, MarkFailed, TransitionStatus, Goto, Answering, Finished, Types, Bound,
                   Places, TurnedAway, InTime, Rejecting
<1>9. CASE FailUnbound(r)
  BY <1>0, <1>9 DEF FailUnbound
<1>10. CASE CleanupClaims(r)
  BY SMT, <1>10 DEF CleanupClaims, DeleteKey, Goto, Answering, Finished, Types, InTime
<1>11. CASE EnqueueReplyLost(r)
  BY <1>0, <1>11 DEF EnqueueReplyLost, Fails
<1>12. CASE CallError(r)
  BY <1>0, <1>12 DEF CallError, Fails
<1>13. CASE Dies(r)
  BY <1>0, <1>13 DEF Dies, Fails
<1>14. CASE Delay(r) \/ WorkerStarts(r) \/ SweepOrphan(r)
  <2>1. /\ UNCHANGED <<stage, answer, keyStatus, keyJob, row>>
        /\ \A j \in Requests : j \in queued' \/ j \in running' => row[j] = "created"
    BY <1>14 DEF Delay, WorkerStarts, SweepOrphan
  <2>2. \A k \in Keys : KeyAtWork(k)' <=> KeyAtWork(k)
    BY <2>1
  <2> HIDE DEF KeyAtWork
  <2> QED
    BY <2>1, <2>2
<1>15. CASE (\E s \in {"completed", "failed"} : WorkerEnds(r, s))
  BY SMT, <1>15 DEF WorkerEnds, TransitionStatus, Types, Bound, Places
<1> QED
  BY <1>1, <1>2, <1>3, <1>4, <1>5, <1>6, <1>7, <1>8, <1>9, <1>10, <1>11, <1>12, <1>13,
     <1>14, <1>15
     DEF Submit, Environment

(* A key or a hash that expires ends the first two promises, and takes the *)
(* key out of everybody's hands.                                           *)
LEMMA ExpiryStep ==
  ASSUME Base, Calm,
         \/ \E k \in Keys : KeyExpires(k)
         \/ \E h \in Hashes : HashExpires(h)
  PROVE  Limits' /\ Places' /\ Calm'
<1>1. /\ UNCHANGED <<stage, answer, late, short, row, queued, enqueueKey, running, ran>>
      /\ UNCHANGED <<errors, delays>>
      /\ expiries > 0 /\ expiries' = expiries - 1
      /\ coalescing' \subseteq coalescing
  BY DEF KeyExpires, HashExpires, requestVars, queueVars
<1>2. Limits'
  BY SMT, <1>1, BoundAssumption DEF Base, Limits, Sets
<1>3. Places'
  BY <1>1 DEF Base, Places
<1>4. ~OneErrorAtMost' /\ ~NoErrors'
  BY SMT, <1>1, BoundAssumption DEF Base, Limits, OneErrorAtMost, NoErrors
<1>5. ASSUME InTime' PROVE TurnedAway' /\ AtWork'
  <2>1. TurnedAway /\ AtWork
    BY <1>1, <1>5 DEF Calm, InTime
  <2>2. TurnedAway'
    BY <1>1, <2>1 DEF TurnedAway
  <2>3. \A k \in Keys : keyStatus'[k] = "in_flight"
           => keyStatus[k] = "in_flight" /\ keyJob'[k] = keyJob[k]
    BY DEF Base, IndInv, Types, KeyExpires, HashExpires
  <2>4. AtWork'
    BY SMT, <1>1, <2>1, <2>3, RequestAssumption DEF AtWork, KeyAtWork
  <2> QED
    BY <2>2, <2>4
<1> QED
  BY <1>2, <1>3, <1>4, <1>5 DEF Calm

(* Every step keeps the whole invariant: a promise that holds after the    *)
(* step held before it, for faults are only used up.                       *)
LEMMA CalmStep == Base /\ Calm /\ [Next]_vars => Base' /\ Calm'
<1> SUFFICES ASSUME Base, Calm, [Next]_vars PROVE Base' /\ Calm'
  OBVIOUS
<1>1. IndInv'
  BY StepLemma DEF Base
<1>2. CASE UNCHANGED vars
  <2>1. Limits' /\ Places'
    BY <1>2 DEF Base, Limits, Sets, Places, vars, requestVars, keyVars, queueVars, faultVars
  <2>2. /\ OneErrorAtMost' = OneErrorAtMost /\ NoErrors' = NoErrors /\ InTime' = InTime
        /\ KeyUse' = KeyUse /\ HashUse' = HashUse
        /\ TurnedAway' = TurnedAway /\ AtWork' = AtWork
    BY SMT, <1>2 DEF OneErrorAtMost, NoErrors, InTime, KeyUse, HashUse, Owns, TurnedAway, AtWork,
                     KeyAtWork, vars, requestVars, keyVars, queueVars, faultVars
  <2> QED
    BY <1>1, <2>1, <2>2 DEF Base, Calm
<1>3. ASSUME NEW r \in Requests,
             \/ Submit(r) \/ Environment(r) \/ EnqueueReplyLost(r)
             \/ CallError(r) \/ Dies(r) \/ Delay(r)
      PROVE  Base' /\ Calm'
  <2>1. Limits' /\ errors' <= errors /\ expiries' = expiries /\ late \subseteq late'
    BY <1>3, LimitsStep DEF Base
  <2>2. Places'
    BY <1>3, PlacesStep
  <2>3. /\ OneErrorAtMost' => OneErrorAtMost
        /\ NoErrors' => NoErrors
        /\ InTime' => InTime
    BY SMT, <2>1, BoundAssumption DEF Base, Limits, OneErrorAtMost, NoErrors, InTime
  <2>4. OneErrorAtMost' => KeyUse'
    BY <1>3, <2>3, KeyUseStep DEF Calm
  <2>5. NoErrors' => HashUse'
    BY <1>3, <2>3, HashUseStep DEF Calm
  <2>6. InTime' => TurnedAway' /\ AtWork'
    BY <1>3, <2>3, TurnedAwayStep, AtWorkStep DEF Calm
  <2> QED
    BY <1>1, <2>1, <2>2, <2>4, <2>5, <2>6 DEF Base, Calm
<1>4. CASE (\E k \in Keys : KeyExpires(k)) \/ (\E h \in Hashes : HashExpires(h))
  BY <1>1, <1>4, ExpiryStep DEF Base
<1> QED
  BY <1>2, <1>3, <1>4 DEF Next

(* The initial states keep every promise.                                  *)
LEMMA CalmInit == Init => Base /\ Calm
<1> SUFFICES ASSUME Init PROVE Base /\ Calm
  OBVIOUS
<1>1. IndInv
  BY InitLemma
<1>2. Limits /\ Places
  BY SMT, BoundAssumption DEF Init, Limits, Sets, Places, Unbound
<1>3. KeyUse
  BY DEF Init, KeyUse, Open
<1>4. HashUse
  BY DEF Init, HashUse, Owns, Rejecting
<1>5. TurnedAway /\ AtWork
  BY RequestAssumption DEF Init, TurnedAway, AtWork, Refused
<1> QED
  BY <1>1, <1>2, <1>3, <1>4, <1>5 DEF Base, Calm

(* The promises that depend on how much has failed, for any number of      *)
(* requests, keys and hashes.                                              *)
THEOREM SubmissionCalm == Spec => [](Base /\ Calm)
BY CalmInit, CalmStep, PTL DEF Spec

(* Type correctness of requests, keys, rows and queue.                     *)
THEOREM SubmissionTyped == Spec => []TypeOK
<1>1. Base => TypeOK
  BY DEF Base, IndInv, Types, Limits, Sets, TypeOK
<1> QED
  BY <1>1, SubmissionCalm, PTL

(* One idempotency key, one job that is not failed, as long as at most one *)
(* call fails and no key expires: repetitions find the key taken, and who  *)
(* gives it up has failed the job first (ClaimOrGet, cleanupClaims).       *)
THEOREM OneJobPerKeyAlways == Spec => []OneJobPerKey
<1>1. Base /\ Calm => OneJobPerKey
  BY DEF Calm, OneErrorAtMost, KeyUse, Open, OneJobPerKey
<1> QED
  BY <1>1, SubmissionCalm, PTL

(* Equivalent requests have one open job between them while no call fails  *)
(* and no key expires (TryCoalesce and the compensations).                 *)
THEOREM OneOpenJobPerHashAlways == Spec => []OneOpenJobPerHash
<1>1. Base /\ Calm => OneOpenJobPerHash
  BY DEF Calm, NoErrors, HashUse, Owns, OneOpenJobPerHash
<1> QED
  BY <1>1, SubmissionCalm, PTL

(* Who is turned away has no job that runs, while no call fails and the    *)
(* compensation is in time (Submit, after TryEnqueue or its time check).   *)
THEOREM RejectedNeverRunsAlways == Spec => []RejectedNeverRuns
<1>1. Base /\ Calm => RejectedNeverRuns
  BY DEF Calm, InTime, TurnedAway, Refused, RejectedNeverRuns
<1> QED
  BY <1>1, SubmissionCalm, PTL

(* A key in flight is in the hands of a request at work or of an open job, *)
(* or was left behind by a coalesced request, under the same conditions.   *)
THEOREM InFlightIsRealAlways == Spec => []InFlightIsReal
<1>1. Base /\ Calm => InFlightIsReal
  BY DEF Calm, InTime, AtWork, KeyAtWork, InFlightIsReal
<1> QED
  BY <1>1, SubmissionCalm, PTL
=============================================================================
