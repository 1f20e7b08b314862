------------------------------ MODULE Scheduler ------------------------------
(***************************************************************************)
(* The Redis side of the fair scheduler, script by script: one list per    *)
(* user, the sorted set of active users scored by a rotation counter, the  *)
(* hash of enqueue times, the queue-level idempotency keys, and the leases *)
(* of module Leases.  Every Lua script is atomic, so each is one action.   *)
(*                                                                         *)
(* The callers are as free as the program leaves them: a worker that has   *)
(* lost its lease may still renew or release by job identifier, a recovery *)
(* pass may act on any cutoff it took earlier, and the Redis client may    *)
(* run the enqueue script again when the reply was lost.  phase[j] is the  *)
(* submitting request of job j: the orphan sweep and the expiry of the     *)
(* queue-level key come after it has settled, because the request timeout  *)
(* (25 s) is shorter than the orphan grace period and the key's TTL.       *)
(*                                                                         *)
(* Definitions that no action uses are mutants: the code with a plausible  *)
(* mistake in it, which the property PROJECT.json pairs it with must catch.*)
(***************************************************************************)
EXTENDS Leases, Sequences

CONSTANTS Capacity,     \* QueueCapacity
          MaxTime,      \* bound on the clock
          MaxRotation   \* bound on the rotation counter

ASSUME CapacityAssumption == Capacity \in Nat \ {0}

ASSUME BoundAssumption == MaxTime \in Nat /\ MaxRotation \in Nat

VARIABLES queue,        \* [Users -> Seq(Jobs)], the oldest job first
          active,       \* [Users -> Nat]: score in the active set, 0 if absent
          rotation,     \* scheduler:rotation_seq
          enqueuedAt,   \* jobs with an entry in the enqueue-time hash
          enqueueKey,   \* jobs with a live queue-level idempotency key
          phase         \* [Jobs -> {"new", "sending", "settled"}]

vars == <<processing, completed, now, queue, active, rotation, enqueuedAt,
          enqueueKey, phase>>

TypeOK == /\ LeaseTypeOK
          /\ queue \in [Users -> Seq(Jobs)]
          /\ active \in [Users -> Nat]
          /\ rotation \in Nat
          /\ enqueuedAt \subseteq Jobs
          /\ enqueueKey \subseteq Jobs
          /\ phase \in [Jobs -> {"new", "sending", "settled"}]

Init == /\ LeaseInit
        /\ queue = [u \in Users |-> << >>]
        /\ active = [u \in Users |-> 0]
        /\ rotation = 0
        /\ enqueuedAt = {}
        /\ enqueueKey = {}
        /\ phase = [j \in Jobs |-> "new"]

InQueue(j) == \E i \in 1..Len(queue[Owner[j]]) : queue[Owner[j]][i] = j

(* When the list was empty, INCR the rotation and ZADD NX the user with    *)
(* the new score.                                                          *)
ActivateNever(u) == UNCHANGED <<rotation, active>>

ActivateAlways(u) == /\ rotation < MaxRotation
                     /\ rotation' = rotation + 1
                     /\ active' = [active EXCEPT ![u] = rotation + 1]

Activate(u) ==
    IF queue[u] = << >>
      THEN /\ rotation < MaxRotation
           /\ rotation' = rotation + 1
           /\ active' = IF active[u] = 0
                          THEN [active EXCEPT ![u] = rotation + 1]
                          ELSE active
      ELSE UNCHANGED <<rotation, active>>

(* LPUSH, and the activation of the user.                                  *)
PushNewestFirst(j) == /\ queue' = [queue EXCEPT ![Owner[j]] = <<j>> \o @]
                      /\ Activate(Owner[j])

Push(j) == /\ queue' = [queue EXCEPT ![Owner[j]] = Append(@, j)]
           /\ Activate(Owner[j])

(* enqueueScript.  The capacity test precedes the idempotency test, so a   *)
(* repeated run answers "full" rather than "duplicate" when the queue has  *)
(* filled up in between.                                                   *)
EnqueueFullOffByOne(j) == Len(queue[Owner[j]]) > Capacity

EnqueueFull(j) == Len(queue[Owner[j]]) >= Capacity

EnqueueDuplicate(j) == ~EnqueueFull(j) /\ j \in enqueueKey

Enqueue(j) ==
    /\ phase[j] # "settled"
    /\ phase' = [phase EXCEPT ![j] = "sending"]
    /\ IF EnqueueFull(j) \/ EnqueueDuplicate(j)
         THEN UNCHANGED <<queue, active, rotation, enqueuedAt, enqueueKey>>
         ELSE /\ enqueueKey' = enqueueKey \cup {j}
              /\ Push(j)
              /\ enqueuedAt' = enqueuedAt \cup {j}
    /\ UNCHANGED leaseVars

(* The submitting request has its answer, gave up, or died with its        *)
(* process; it sends no further enqueue for j.                             *)
Settle(j) == /\ phase[j] # "settled"
             /\ phase' = [phase EXCEPT ![j] = "settled"]
             /\ UNCHANGED <<leaseVars, queue, active, rotation, enqueuedAt,
                            enqueueKey>>

(* EX of the queue-level key.                                              *)
ExpireEnqueueKeyEarly(j) ==
    /\ j \in enqueueKey
    /\ enqueueKey' = enqueueKey \ {j}
    /\ UNCHANGED <<leaseVars, queue, active, rotation, enqueuedAt, phase>>

ExpireEnqueueKey(j) ==
    /\ phase[j] = "settled"
    /\ j \in enqueueKey
    /\ enqueueKey' = enqueueKey \ {j}
    /\ UNCHANGED <<leaseVars, queue, active, rotation, enqueuedAt, phase>>

(* The user served goes to the back, or leaves with the last job.          *)
RotateInPlace(u) == /\ active' = IF Len(queue[u]) > 1
                                   THEN active ELSE [active EXCEPT ![u] = 0]
                    /\ UNCHANGED rotation

Rotate(u) == IF Len(queue[u]) > 1
               THEN /\ rotation < MaxRotation
                    /\ rotation' = rotation + 1
                    /\ active' = [active EXCEPT ![u] = rotation + 1]
               ELSE /\ active' = [active EXCEPT ![u] = 0]
                    /\ UNCHANGED rotation

(* fairDequeueScript, with u the active user of lowest score.              *)
FairDequeue(u) ==
    /\ active[u] # 0
    /\ \A v \in Users : active[v] # 0 => active[u] <= active[v]
    /\ IF queue[u] = << >>
         THEN /\ active' = [active EXCEPT ![u] = 0]
              /\ UNCHANGED <<processing, queue, rotation, enqueuedAt>>
         ELSE /\ queue' = [queue EXCEPT ![u] = Tail(@)]
              /\ enqueuedAt' = enqueuedAt \ {Head(queue[u])}
              /\ Rotate(u)
              /\ Grant(Head(queue[u]))
    /\ UNCHANGED <<completed, now, enqueueKey, phase>>

(* requeueExpiredScript: no capacity test, no look at the completed marker *)
(* and no new enqueue time.                                                *)
RequeueIfExpired(j, cutoff) ==
    /\ Expired(j, cutoff)
    /\ Drop(j)
    /\ Push(j)
    /\ UNCHANGED <<completed, now, enqueuedAt, enqueueKey, phase>>

(* removeExpiredScript.                                                    *)
RemoveIfExpired(j, cutoff) ==
    /\ Expired(j, cutoff)
    /\ Drop(j)
    /\ enqueuedAt' = enqueuedAt \ {j}
    /\ UNCHANGED <<completed, now, queue, active, rotation, enqueueKey, phase>>

(* enqueueOrphanScript.                                                    *)
EnqueueIfUnqueued(j) ==
    /\ phase[j] = "settled"
    /\ j \notin completed
    /\ ~InQueue(j)
    /\ Len(queue[Owner[j]]) < Capacity
    /\ Push(j)
    /\ enqueuedAt' = enqueuedAt \cup {j}
    /\ UNCHANGED <<leaseVars, enqueueKey, phase>>

EnqueueIfAbsent(j) ==
    /\ phase[j] = "settled"
    /\ j \notin completed
    /\ ~Leased(j)
    /\ ~InQueue(j)
    /\ Len(queue[Owner[j]]) < Capacity
    /\ Push(j)
    /\ enqueuedAt' = enqueuedAt \cup {j}
    /\ UNCHANGED <<leaseVars, enqueueKey, phase>>

(* The operations of Leases leave the rest of the scheduler alone.         *)
LeaseOp(j) == /\ \/ ExtendProcessingLease(j)
                 \/ ReleaseProcessingJob(j)
                 \/ MarkJobCompleted(j)
                 \/ RemoveCompletedJob(j)
              /\ UNCHANGED <<queue, active, rotation, enqueuedAt, enqueueKey,
                             phase>>

Clock == /\ now < MaxTime
         /\ Tick
         /\ UNCHANGED <<queue, active, rotation, enqueuedAt, enqueueKey, phase>>

JobOp(j) == \/ Enqueue(j)
            \/ Settle(j)
            \/ ExpireEnqueueKey(j)
            \/ EnqueueIfAbsent(j)
            \/ LeaseOp(j)
            \/ \E cutoff \in 0..now : \/ RequeueIfExpired(j, cutoff)
                                      \/ RemoveIfExpired(j, cutoff)

Next == \/ \E u \in Users : FairDequeue(u)
        \/ \E j \in Jobs : JobOp(j)
        \/ Clock

Spec == Init /\ [][Next]_vars
-----------------------------------------------------------------------------
(* A user is in the active set exactly while their queue holds a job: the  *)
(* activation in the three pushing scripts and the removal in the dequeue  *)
(* script agree, so no queued job is invisible to the dequeue and no turn  *)
(* is spent on an empty queue.                                             *)
ActiveIffPending == \A u \in Users : active[u] # 0 <=> queue[u] # << >>

(* Scores come from one counter and never collide, so the order of turns   *)
(* is decided by the rotation and never by Redis' tie-break on user names. *)
RotationOrder ==
    /\ \A u \in Users : active[u] <= rotation
    /\ \A u, v \in Users : active[u] = active[v] /\ active[u] # 0 => u = v

(* Wherever retries, recovery passes and late workers interleave, a job is *)
(* at most once in the queue of its own user, in no other user's queue,    *)
(* and never queued while some lease on it exists: two workers cannot be   *)
(* handed the same entry.                                                  *)
OnePlace ==
    /\ \A u \in Users : \A i \in 1..Len(queue[u]) :
          /\ Owner[queue[u][i]] = u
          /\ processing[queue[u][i]] = 0
    /\ \A u \in Users : \A i, k \in 1..Len(queue[u]) :
          queue[u][i] = queue[u][k] => i = k

(* The enqueue-time hash holds entries of queued jobs only: the dequeue    *)
(* and removal scripts leave no entry behind for jobs that left the queue. *)
EnqueueTimesQueued == \A j \in enqueuedAt : InQueue(j)

(* A job whose submission has not run the enqueue script is unknown to the *)
(* scheduler, and while the submission may still re-run it, an enqueued    *)
(* job keeps the key that makes the re-run a duplicate.                    *)
KeyGuardsResend ==
    \A j \in Jobs : phase[j] # "settled" /\ (InQueue(j) \/ Leased(j))
                       => j \in enqueueKey

(* u's full queue grows in this step, and an expired job of u loses its    *)
(* lease in it.                                                            *)
GrowsBeyond(u) == Len(queue[u]) >= Capacity /\ Len(queue'[u]) > Len(queue[u])

Returns(u) == \E j \in Jobs : /\ Owner[j] = u
                              /\ Expired(j, now)
                              /\ processing'[j] = 0

GrowthIsReturn == \A u \in Users : GrowsBeyond(u) => Returns(u)

(* The capacity is a bound on admission, not on the queue: a queue that    *)
(* is full grows only by the return of a job whose lease has expired.      *)
OnlyRecoveryExceedsCapacity == [][GrowthIsReturn]_vars

(* u's queue is left alone, loses its oldest entry to a claim that leases  *)
(* it, or takes a job at its end.                                          *)
OldestFirst(u) ==
    \/ queue'[u] = queue[u]
    \/ /\ queue[u] # << >>
       /\ queue'[u] = Tail(queue[u])
       /\ processing'[Head(queue[u])] = now + Lease
    \/ \E j \in Jobs : queue'[u] = Append(queue[u], j)

QueueStep == \A u \in Users : OldestFirst(u)

(* A worker's claim always takes the oldest entry of the user's queue, and *)
(* entries keep their order until they are claimed (FIFO per user).        *)
FIFO == [][QueueStep]_vars
=============================================================================
