------------------------------- MODULE Leases -------------------------------
(***************************************************************************)
(* The two Redis keys of the scheduler that know nothing of users: the     *)
(* sorted set "processing_jobs", which holds one lease deadline per        *)
(* claimed job, and the set "completed_jobs", which holds the markers of   *)
(* jobs whose inference finished.  A lease carries no owner: every         *)
(* operation names the job only, exactly as the scripts do.                *)
(*                                                                         *)
(* Time is the Redis clock (the scripts' TIME), counted in units of which  *)
(* a lease lasts Lease.                                                    *)
(***************************************************************************)
EXTENDS Domain, Naturals

CONSTANT Lease   \* lease duration, LeaseTimeout

ASSUME LeaseAssumption == Lease \in Nat \ {0}

VARIABLES processing,   \* [Jobs -> Nat]: the lease deadline, 0 when j has none
          completed,    \* the completed-job markers
          now           \* the Redis clock

leaseVars == <<processing, completed, now>>

LeaseTypeOK == /\ processing \in [Jobs -> Nat]
               /\ completed \subseteq Jobs
               /\ now \in Nat

LeaseInit == /\ processing = [j \in Jobs |-> 0]
             /\ completed = {}
             /\ now = 0

Leased(j) == processing[j] # 0

(* ZSCORE present and not above the cutoff: the guard shared by the two    *)
(* recovery scripts, and the range ExpiredJobIDs lists.                    *)
ExpiredEarly(j, cutoff) == Leased(j) /\ processing[j] <= cutoff + 1

Expired(j, cutoff) == Leased(j) /\ processing[j] <= cutoff

ExpiredJobIDs(cutoff) == {j \in Jobs : Expired(j, cutoff)}

(* ZADD of a fresh deadline, by the claim and by the renewal.              *)
Grant(j) == processing' = [processing EXCEPT ![j] = now + Lease]

(* ZREM.                                                                   *)
Drop(j) == processing' = [processing EXCEPT ![j] = 0]

(* Renewal of a lease that exists; a job that has none is the caller's     *)
(* ErrJobNotFound and changes nothing.  An expired lease is renewed too.   *)
ExtendProcessingLease(j) == /\ Leased(j)
                            /\ Grant(j)
                            /\ UNCHANGED <<completed, now>>

(* ZREM by job identifier; with no entry it is an error without effect.    *)
ReleaseProcessingJob(j) == /\ Leased(j)
                           /\ Drop(j)
                           /\ UNCHANGED <<completed, now>>

MarkJobCompleted(j) == /\ completed' = completed \cup {j}
                       /\ UNCHANGED <<processing, now>>

RemoveCompletedJob(j) == /\ completed' = completed \ {j}
                         /\ UNCHANGED <<processing, now>>

(* The passage of Redis time.                                              *)
Tick == /\ now' = now + 1
        /\ UNCHANGED <<processing, completed>>
=============================================================================
