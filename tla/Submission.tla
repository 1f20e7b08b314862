----------------------------- MODULE Submission -----------------------------
(***************************************************************************)
(* Concurrent submissions of one user: Submit with its idempotency key,    *)
(* its coalescing key, admission, job creation, enqueue, and the           *)
(* compensation when one of these refuses or fails.  Every call to Redis   *)
(* or PostgreSQL is a step.  Request r creates at most one job, which is   *)
(* named r too.                                                            *)
(*                                                                         *)
(* Workers and the orphan sweep appear as far as submissions notice them;  *)
(* modules Worker and Recovery have them in full.                          *)
(***************************************************************************)
EXTENDS Naturals, FiniteSets

CONSTANTS Requests, NoJob,
          Keys, KeyOf,        \* Idempotency-Key header of each request
          Hashes, HashOf,     \* hash of model and prompt
          QueueCapacity,
          MaxErrors,          \* calls that fail, or whose reply is lost
          MaxDelays,          \* requests held up for seconds
          MaxExpiries         \* keys that reach their TTL

ASSUME RequestAssumption == /\ NoJob \notin Requests
                            /\ KeyOf \in [Requests -> Keys]
                            /\ HashOf \in [Requests -> Hashes]

ASSUME BoundAssumption == {MaxErrors, MaxDelays, MaxExpiries} \subseteq Nat

VARIABLES stage,      \* where Submit is for each request
          answer,     \* what the client was, or will be, told
          late,       \* requests whose 2 s compensation context has expired
          short,      \* requests with less than 8 s left
          keyStatus,  \* status field of each idempotency key, "none": no key
          keyJob,     \* its job_id field
          reverse,    \* jobs that have a reverse mapping to their key
          coalescing, \* hashes with a coalescing key
          row,        \* jobs.status
          queued, enqueueKey, running,  \* the scheduler, for this user
          ran,        \* history: jobs a worker has started
          errors, delays, expiries      \* faults still to come

requestVars == <<stage, answer, late, short>>
keyVars == <<keyStatus, keyJob, reverse, coalescing>>
queueVars == <<queued, enqueueKey, running, ran>>
faultVars == <<errors, delays, expiries>>
vars == <<requestVars, keyVars, row, queueVars, faultVars>>

Stages == {"claim", "coalesce", "admit", "create", "bind", "check", "enqueue",
           "rejectFail", "rejectKey", "rejectCoalescing", "bindFail",
           "undoCoalescing", "undoKey", "done"}

Answers == {"none", "accepted", "acceptedEmpty", "replayed", "in_flight",
            "job_failed", "coalesced", "not_admitted", "full", "too_late",
            "error"}

TypeOK == /\ stage \in [Requests -> Stages]
          /\ answer \in [Requests -> Answers]
          /\ late \subseteq Requests /\ short \subseteq Requests
          /\ keyStatus \in [Keys -> {"none", "in_flight", "completed", "failed"}]
          /\ keyJob \in [Keys -> Requests \cup {NoJob}]
          /\ reverse \subseteq Requests
          /\ coalescing \subseteq Hashes
          /\ row \in [Requests -> {"absent", "created", "completed", "failed"}]
          /\ queued \subseteq Requests /\ enqueueKey \subseteq Requests
          /\ running \subseteq Requests /\ ran \subseteq Requests
          /\ errors \in 0..MaxErrors
          /\ delays \in 0..MaxDelays
          /\ expiries \in 0..MaxExpiries

Init == /\ stage = [r \in Requests |-> "claim"]
        /\ answer = [r \in Requests |-> "none"]
        /\ late = {} /\ short = {}
        /\ keyStatus = [k \in Keys |-> "none"]
        /\ keyJob = [k \in Keys |-> NoJob]
        /\ reverse = {} /\ coalescing = {}
        /\ row = [r \in Requests |-> "absent"]
        /\ queued = {} /\ enqueueKey = {} /\ running = {} /\ ran = {}
        /\ errors = MaxErrors /\ delays = MaxDelays /\ expiries = MaxExpiries

Goto(r, s) == stage' = [stage EXCEPT ![r] = s] /\ UNCHANGED <<answer, late, short>>

(* Continue at s, with the answer decided.                                 *)
Answering(r, s, a) == /\ stage' = [stage EXCEPT ![r] = s]
                      /\ answer' = [answer EXCEPT ![r] = a]
                      /\ UNCHANGED <<late, short>>

Finished(r, a) == Answering(r, "done", a)

(* ClaimOrGet, and the switch on its action.                               *)
ClaimAnyway(r) ==
    /\ stage[r] = "claim"
    /\ keyStatus' = [keyStatus EXCEPT ![KeyOf[r]] = "in_flight"]
    /\ keyJob' = [keyJob EXCEPT ![KeyOf[r]] = NoJob]
    /\ Goto(r, "coalesce")
    /\ UNCHANGED <<reverse, coalescing, row, queueVars, faultVars>>

KeyAnswers == [in_flight |-> "in_flight", completed |-> "replayed", failed |-> "job_failed"]
KeyAnswer(k) == KeyAnswers[keyStatus[k]]

ClaimOrGet(r) ==
    /\ stage[r] = "claim"
    /\ IF keyStatus[KeyOf[r]] = "none"
         THEN /\ keyStatus' = [keyStatus EXCEPT ![KeyOf[r]] = "in_flight"]
              /\ keyJob' = [keyJob EXCEPT ![KeyOf[r]] = NoJob]
              /\ Goto(r, "coalesce")
         ELSE /\ Finished(r, KeyAnswer(KeyOf[r]))
              /\ UNCHANGED <<keyStatus, keyJob>>
    /\ UNCHANGED <<reverse, coalescing, row, queueVars, faultVars>>

(* TryCoalesce.  A rejection returns at once; the idempotency key that     *)
(* this request has just claimed stays as it is.                           *)
CoalesceAnyway(r) ==
    /\ stage[r] = "coalesce"
    /\ coalescing' = coalescing \cup {HashOf[r]}
    /\ Goto(r, "admit")
    /\ UNCHANGED <<keyStatus, keyJob, reverse, row, queueVars, faultVars>>

TryCoalesce(r) ==
    /\ stage[r] = "coalesce"
    /\ IF HashOf[r] \in coalescing
         THEN Finished(r, "coalesced") /\ UNCHANGED coalescing
         ELSE /\ coalescing' = coalescing \cup {HashOf[r]}
              /\ Goto(r, "admit")
    /\ UNCHANGED <<keyStatus, keyJob, reverse, row, queueVars, faultVars>>

(* Admit: the policies accept the request, or refuse it or fail.           *)
Admit(r) == /\ stage[r] = "admit"
            /\ \/ Goto(r, "create")
               \/ Answering(r, "undoCoalescing", "not_admitted")
            /\ UNCHANGED <<keyVars, row, queueVars, faultVars>>

Create(r) == /\ stage[r] = "create"
             /\ row' = [row EXCEPT ![r] = "created"]
             /\ Goto(r, "bind")
             /\ UNCHANGED <<keyVars, queueVars, faultVars>>

(* SetJobID: the key must still exist.                                     *)
SetJobID(r) ==
    /\ stage[r] = "bind"
    /\ IF keyStatus[KeyOf[r]] # "none"
         THEN /\ keyJob' = [keyJob EXCEPT ![KeyOf[r]] = r]
              /\ reverse' = reverse \cup {r}
              /\ Goto(r, "check")
         ELSE Goto(r, "bindFail") /\ UNCHANGED <<keyJob, reverse>>
    /\ UNCHANGED <<keyStatus, coalescing, row, queueVars, faultVars>>

CheckDeadline(r) ==
    /\ stage[r] = "check"
    /\ IF r \in short THEN Answering(r, "rejectFail", "too_late")
                      ELSE Goto(r, "enqueue")
    /\ UNCHANGED <<keyVars, row, queueVars, faultVars>>

(* TryEnqueue.  The script tests the capacity before its idempotency key;  *)
(* "duplicate" is an error like any other.                                 *)
Full == Cardinality(queued) >= QueueCapacity

Push(r) == /\ queued' = queued \cup {r}
           /\ enqueueKey' = enqueueKey \cup {r}

EnqueueForgotten(r) == /\ stage[r] = "enqueue"
                       /\ Finished(r, "accepted")
                       /\ enqueueKey' = enqueueKey \cup {r}
                       /\ UNCHANGED <<keyVars, row, queued, running, ran, faultVars>>

TryEnqueue(r) ==
    /\ stage[r] = "enqueue"
    /\ \/ /\ Full
          /\ Answering(r, "rejectFail", "full")
          /\ UNCHANGED <<queued, enqueueKey>>
       \/ /\ ~Full /\ r \in enqueueKey
          /\ Finished(r, "error")
          /\ UNCHANGED <<queued, enqueueKey>>
       \/ /\ ~Full /\ r \notin enqueueKey
          /\ Push(r)
          /\ Finished(r, "accepted")
    /\ UNCHANGED <<keyVars, row, running, ran, faultVars>>

(* The script ran, its reply was lost, and the Redis client sends it again.*)
EnqueueReplyLost(r) ==
    /\ stage[r] = "enqueue" /\ errors > 0
    /\ ~Full /\ r \notin enqueueKey
    /\ Push(r)
    /\ errors' = errors - 1
    /\ UNCHANGED <<requestVars, keyVars, row, running, ran, delays, expiries>>
-----------------------------------------------------------------------------
(* Compensation.  Its context allows two seconds from before the admission *)
(* on; once it has expired every call fails, and the next one is made.     *)

(* MarkFailed changes a created job only.                                  *)
MarkFailedSkipped(r) == UNCHANGED row

MarkFailed(r) == row' = IF row[r] = "created" THEN [row EXCEPT ![r] = "failed"]
                                              ELSE row

(* TransitionStatus: through the reverse mapping, and from in_flight only. *)
TransitionSkipped(j, s) == UNCHANGED keyStatus

TransitionToCompleted(j, s) ==
    keyStatus' = IF j \in reverse /\ keyStatus[KeyOf[j]] = "in_flight"
                   THEN [keyStatus EXCEPT ![KeyOf[j]] = "completed"]
                   ELSE keyStatus

TransitionStatus(j, s) ==
    keyStatus' = IF j \in reverse /\ keyStatus[KeyOf[j]] = "in_flight"
                   THEN [keyStatus EXCEPT ![KeyOf[j]] = s]
                   ELSE keyStatus

(* The two Delete calls.                                                   *)
DeleteHash(r) == coalescing' = coalescing \ {HashOf[r]}

DeleteKey(r) == /\ keyStatus' = [keyStatus EXCEPT ![KeyOf[r]] = "none"]
                /\ keyJob' = [keyJob EXCEPT ![KeyOf[r]] = NoJob]

(* The queue was full or time is short: fail the job, the key, and release *)
(* the coalescing key.                                                     *)
Reject(r) ==
    \/ /\ stage[r] = "rejectFail"
       /\ IF r \in late THEN UNCHANGED row ELSE MarkFailed(r)
       /\ Goto(r, "rejectKey")
       /\ UNCHANGED <<keyVars, queueVars, faultVars>>
    \/ /\ stage[r] = "rejectKey"
       /\ IF r \in late THEN UNCHANGED keyStatus ELSE TransitionStatus(r, "failed")
       /\ Goto(r, "rejectCoalescing")
       /\ UNCHANGED <<keyJob, reverse, coalescing, row, queueVars, faultVars>>
    \/ /\ stage[r] = "rejectCoalescing"
       /\ IF r \in late THEN UNCHANGED coalescing ELSE DeleteHash(r)
       /\ Finished(r, answer[r])
       /\ UNCHANGED <<keyStatus, keyJob, reverse, row, queueVars, faultVars>>

(* SetJobID failed: fail the job, then give up the claims.                 *)
FailUnbound(r) ==
    /\ stage[r] = "bindFail"
    /\ IF r \in late THEN UNCHANGED row ELSE MarkFailed(r)
    /\ Answering(r, "undoCoalescing", "acceptedEmpty")
    /\ UNCHANGED <<keyVars, queueVars, faultVars>>

(* cleanupClaims.  When it succeeds after Create or SetJobID has failed,   *)
(* its nil error hides theirs, and the request is accepted without a job.  *)
CleanupClaims(r) ==
    \/ /\ stage[r] = "undoCoalescing"
       /\ IF r \in late
            THEN Answering(r, "undoKey", "error") /\ UNCHANGED coalescing
            ELSE Goto(r, "undoKey") /\ DeleteHash(r)
       /\ UNCHANGED <<keyStatus, keyJob, reverse, row, queueVars, faultVars>>
    \/ /\ stage[r] = "undoKey"
       /\ IF r \in late
            THEN Finished(r, "error") /\ UNCHANGED <<keyStatus, keyJob>>
            ELSE DeleteKey(r) /\ Finished(r, answer[r])
       /\ UNCHANGED <<reverse, coalescing, row, queueVars, faultVars>>

(* A call fails without effect.  Before the compensation exists the        *)
(* request just returns; later each error leads where the code says.       *)
CallError(r) ==
    /\ errors > 0 /\ errors' = errors - 1
    /\ \/ stage[r] \in {"claim", "coalesce", "enqueue"} /\ Finished(r, "error")
       \/ stage[r] = "create" /\ Answering(r, "undoCoalescing", "acceptedEmpty")
       \/ stage[r] = "bind" /\ Goto(r, "bindFail")
       \/ stage[r] = "rejectFail" /\ Goto(r, "rejectKey")
       \/ stage[r] = "rejectKey" /\ Goto(r, "rejectCoalescing")
       \/ stage[r] = "rejectCoalescing" /\ Finished(r, answer[r])
       \/ stage[r] = "bindFail" /\ Answering(r, "undoCoalescing", "acceptedEmpty")
       \/ stage[r] = "undoCoalescing" /\ Answering(r, "undoKey", "error")
       \/ stage[r] = "undoKey" /\ Finished(r, "error")
    /\ UNCHANGED <<keyVars, row, queueVars, delays, expiries>>

(* The process dies: no answer, no compensation.                           *)
Dies(r) == /\ errors > 0 /\ errors' = errors - 1
           /\ stage[r] # "done"
           /\ Finished(r, "none")
           /\ UNCHANGED <<keyVars, row, queueVars, delays, expiries>>

(* Seconds pass: two of them end the compensation context, once it exists. *)
Delay(r) ==
    /\ delays > 0 /\ delays' = delays - 1
    /\ stage[r] # "done"
    /\ late' = IF stage[r] \in {"claim", "coalesce"} THEN late ELSE late \cup {r}
    /\ short' \in {short, short \cup {r}}
    /\ UNCHANGED <<stage, answer, keyVars, row, queueVars, errors, expiries>>
-----------------------------------------------------------------------------
(* The surroundings: workers, the orphan sweep and TTLs.                   *)
WorkerStarts(j) == /\ j \in queued
                   /\ queued' = queued \ {j}
                   /\ running' = running \cup {j}
                   /\ ran' = ran \cup {j}
                   /\ UNCHANGED <<requestVars, keyVars, row, enqueueKey, faultVars>>

(* A success is recorded only if the row was created; a failure moves the  *)
(* key in any case.                                                        *)
WorkerEnds(j, s) ==
    /\ j \in running
    /\ running' = running \ {j}
    /\ row' = IF row[j] = "created" THEN [row EXCEPT ![j] = s] ELSE row
    /\ IF s = "failed" \/ row[j] = "created" THEN TransitionStatus(j, s)
                                             ELSE UNCHANGED keyStatus
    /\ UNCHANGED <<requestVars, keyJob, reverse, coalescing, queued, enqueueKey,
                   ran, faultVars>>

(* The grace period of the sweep is longer than any request.               *)
SweepEnqueued(j) == /\ row[j] = "created" /\ stage[j] = "done"
                    /\ j \in enqueueKey
                    /\ j \notin queued \cup running /\ ~Full
                    /\ queued' = queued \cup {j}
                    /\ UNCHANGED <<requestVars, keyVars, row, enqueueKey, running,
                                   ran, faultVars>>

SweepOrphan(j) == /\ row[j] = "created" /\ stage[j] = "done"
                  /\ j \notin queued \cup running /\ ~Full
                  /\ queued' = queued \cup {j}
                  /\ UNCHANGED <<requestVars, keyVars, row, enqueueKey, running,
                                 ran, faultVars>>

(* TTLs of minutes: they outlive any request that has set or read the key. *)
Quiet(rs) == \A r \in rs : stage[r] \in {"claim", "done"}

KeyExpires(k) == /\ expiries > 0 /\ expiries' = expiries - 1
                 /\ keyStatus[k] # "none"
                 /\ Quiet({r \in Requests : KeyOf[r] = k})
                 /\ keyStatus' = [keyStatus EXCEPT ![k] = "none"]
                 /\ keyJob' = [keyJob EXCEPT ![k] = NoJob]
                 /\ reverse' = {j \in reverse : KeyOf[j] # k}
                 /\ UNCHANGED <<requestVars, coalescing, row, queueVars, errors, delays>>

HashExpires(h) == /\ expiries > 0 /\ expiries' = expiries - 1
                  /\ h \in coalescing
                  /\ Quiet({r \in Requests : HashOf[r] = h})
                  /\ coalescing' = coalescing \ {h}
                  /\ UNCHANGED <<requestVars, keyStatus, keyJob, reverse, row,
                                 queueVars, errors, delays>>

Submit(r) == \/ ClaimOrGet(r) \/ TryCoalesce(r) \/ Admit(r) \/ Create(r)
             \/ SetJobID(r) \/ CheckDeadline(r) \/ TryEnqueue(r) \/ Reject(r)
             \/ FailUnbound(r) \/ CleanupClaims(r)

Environment(j) == \/ WorkerStarts(j) \/ SweepOrphan(j)
                  \/ \E s \in {"completed", "failed"} : WorkerEnds(j, s)

Next == \/ \E r \in Requests : \/ Submit(r) \/ Environment(r)
                               \/ EnqueueReplyLost(r) \/ CallError(r)
                               \/ Dies(r) \/ Delay(r)
        \/ \E k \in Keys : KeyExpires(k)
        \/ \E h \in Hashes : HashExpires(h)

Spec == Init /\ [][Next]_vars

(* Requests run to their end by their timeout, workers and the sweep keep  *)
(* going.                                                                  *)
Fairness == \A r \in Requests : WF_vars(Submit(r)) /\ WF_vars(Environment(r))

FairSubmission == Spec /\ Fairness
-----------------------------------------------------------------------------
(* A job exists for the scheduler: it is queued, running or has ended.     *)
Handled(j) == j \in queued \cup running \/ row[j] \in {"completed", "failed"}

(* Until a key expires, a submission and its repetitions under one         *)
(* idempotency key lead to one job at most that is not failed, even if a   *)
(* call fails, a process dies or a request is held up (ClaimOrGet and      *)
(* cleanupClaims).  A second failing call can break this: SetJobID and     *)
(* then MarkFailed, before the key is given up.                            *)
OneJobPerKey == (expiries = MaxExpiries /\ errors >= MaxErrors - 1) =>
    \A q, r \in Requests :
       KeyOf[q] = KeyOf[r] /\ {row[q], row[r]} \subseteq {"created", "completed"}
          => q = r

(* Until a key expires or a call fails, equivalent requests of a user      *)
(* under different idempotency keys do not both hold a job that is open    *)
(* (TryCoalesce, and the order of the compensations).                      *)
OneOpenJobPerHash == (expiries = MaxExpiries /\ errors = MaxErrors) =>
    \A q, r \in Requests :
       HashOf[q] = HashOf[r] /\ row[q] = "created" /\ row[r] = "created" => q = r

(* A client told "accepted" has a job that the scheduler knows, and that   *)
(* stays so until it ends.                                                 *)
AcceptedIsHandled == \A r \in Requests : answer[r] = "accepted" => Handled(r)

(* A replayed request is answered with the identifier of a job that has    *)
(* completed: no claim, cleanup or transition in between binds the key to  *)
(* another job.                                                            *)
CompletedKeyHasCompletedJob == \A k \in Keys :
    keyStatus[k] = "completed" => keyJob[k] # NoJob /\ row[keyJob[k]] = "completed"

(* Until a call fails or a compensation runs out of time, a client told    *)
(* that its request was turned away, by a policy, by the queue or for lack *)
(* of time, has no job that runs (Reject).                                 *)
RejectedNeverRuns == (errors = MaxErrors /\ late = {}) => \A r \in Requests :
    answer[r] \in {"not_admitted", "full", "too_late"} => r \notin ran

(* Until a call fails or a compensation runs out of time, a key says       *)
(* in_flight only while a request that claimed it is at work, its job is   *)
(* open, or its claim was turned away by coalescing, which does not        *)
(* release the key.                                                        *)
InFlightIsReal == (errors = MaxErrors /\ late = {}) => \A k \in Keys :
    keyStatus[k] = "in_flight" =>
       \/ \E r \in Requests : KeyOf[r] = k /\ stage[r] \notin {"claim", "done"}
       \/ keyJob[k] # NoJob /\ keyJob[k] \in running \cup queued
       \/ keyJob[k] # NoJob /\ row[keyJob[k]] = "created"
       \/ \E r \in Requests : KeyOf[r] = k /\ answer[r] = "coalesced"

(* Every job that was created is brought to an end.                        *)
EveryJobEnds == \A r \in Requests :
    row[r] = "created" ~> row[r] \in {"completed", "failed"}

(* handler.go answers 202 with "Inference request accepted and queued for  *)
(* processing": there is a job then.                                       *)
AcceptedHasJob == \A r \in Requests :
    stage[r] = "done" => answer[r] # "acceptedEmpty"
=============================================================================
