------------------------------ MODULE FairQueue ------------------------------
(***************************************************************************)
(* What the scheduler promises: users with pending jobs take turns in a    *)
(* ring, each turn hands out the oldest job of the user at the front under *)
(* a lease, and a user with more jobs goes to the back.  Module Scheduler, *)
(* with its scores and its rotation counter, implements this module; the   *)
(* composition with workers and recovery is built on this one.             *)
(***************************************************************************)
EXTENDS Leases, Sequences

CONSTANT Capacity

VARIABLES queue,        \* [Users -> Seq(Jobs)], the oldest job first
          ring,         \* users with pending jobs, the next to serve first
          enqueueKey,   \* jobs with a live queue-level idempotency key
          phase         \* the submitting request of each job

queueVars == <<queue, ring, enqueueKey, phase>>

fairVars == <<processing, completed, now, queue, ring, enqueueKey, phase>>

FairTypeOK == /\ LeaseTypeOK
              /\ queue \in [Users -> Seq(Jobs)]
              /\ ring \in Seq(Users)
              /\ enqueueKey \subseteq Jobs
              /\ phase \in [Jobs -> {"new", "sending", "settled"}]

FairInit == /\ LeaseInit
            /\ queue = [u \in Users |-> << >>]
            /\ ring = << >>
            /\ enqueueKey = {}
            /\ phase = [j \in Jobs |-> "new"]

Pending(j) == \E i \in 1..Len(queue[Owner[j]]) : queue[Owner[j]][i] = j

(* A job joins its user's queue; a user without pending jobs joins the     *)
(* ring at the back.                                                       *)
Join(j) ==
    LET u == Owner[j] IN
    /\ queue' = [queue EXCEPT ![u] = Append(@, j)]
    /\ ring' = IF queue[u] = << >> THEN Append(ring, u) ELSE ring

Full(j) == Len(queue[Owner[j]]) >= Capacity

Submit(j) ==
    /\ phase[j] # "settled"
    /\ phase' = [phase EXCEPT ![j] = "sending"]
    /\ IF Full(j) \/ j \in enqueueKey
         THEN UNCHANGED <<queue, ring, enqueueKey>>
         ELSE enqueueKey' = enqueueKey \cup {j} /\ Join(j)
    /\ UNCHANGED leaseVars

SubmissionSettles(j) == /\ phase[j] # "settled"
                        /\ phase' = [phase EXCEPT ![j] = "settled"]
                        /\ UNCHANGED <<leaseVars, queue, ring, enqueueKey>>

KeyExpires(j) == /\ phase[j] = "settled"
                 /\ j \in enqueueKey
                 /\ enqueueKey' = enqueueKey \ {j}
                 /\ UNCHANGED <<leaseVars, queue, ring, phase>>

(* The user at the front has a turn.                                       *)
Serve ==
    /\ ring # << >>
    /\ LET u == Head(ring) IN
         /\ queue' = [queue EXCEPT ![u] = Tail(@)]
         /\ ring' = IF Len(queue[u]) > 1 THEN Append(Tail(ring), u)
                                         ELSE Tail(ring)
         /\ Grant(Head(queue[u]))
    /\ UNCHANGED <<completed, now, enqueueKey, phase>>

Requeue(j, cutoff) == /\ Expired(j, cutoff)
                      /\ Drop(j)
                      /\ Join(j)
                      /\ UNCHANGED <<completed, now, enqueueKey, phase>>

Discard(j, cutoff) == /\ Expired(j, cutoff)
                      /\ Drop(j)
                      /\ UNCHANGED <<completed, now, queueVars>>

Adopt(j) == /\ phase[j] = "settled"
            /\ j \notin completed /\ ~Leased(j) /\ ~Pending(j) /\ ~Full(j)
            /\ Join(j)
            /\ UNCHANGED <<leaseVars, enqueueKey, phase>>

LeaseStep(j) == /\ \/ ExtendProcessingLease(j)
                   \/ ReleaseProcessingJob(j)
                   \/ MarkJobCompleted(j)
                   \/ RemoveCompletedJob(j)
                /\ UNCHANGED queueVars

FairNext == \/ Serve
            \/ \E j \in Jobs : \/ Submit(j) \/ SubmissionSettles(j)
                               \/ KeyExpires(j) \/ Adopt(j) \/ LeaseStep(j)
                               \/ \E c \in 0..now : Requeue(j, c) \/ Discard(j, c)
            \/ Tick /\ UNCHANGED queueVars

FairSpec == FairInit /\ [][FairNext]_fairVars
=============================================================================
