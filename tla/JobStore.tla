------------------------------ MODULE JobStore ------------------------------
(***************************************************************************)
(* The lasting record of a job: its row in PostgreSQL, the status of the   *)
(* submitter's idempotency key, and the event stream its subscribers read. *)
(*                                                                         *)
(* The stream is kept as far as subscribers can tell: Subscribe ends at    *)
(* the first terminal event, so heard[j] is that event.  The retry_counts  *)
(* column is kept while it decides something, which is until the job is    *)
(* terminal.                                                               *)
(***************************************************************************)
EXTENDS Domain, Naturals

VARIABLES status,   \* jobs.status, "absent" before the row exists
          retry,    \* jobs.retry_counts
          old,      \* jobs whose created_at is before the orphan grace period
          idem,     \* status field of the idempotency key bound to the job
          heard     \* first terminal event of the job's stream, or "none"

storeVars == <<status, retry, old, idem, heard>>

Terminal == {"completed", "failed"}

StoreTypeOK == /\ status \in [Jobs -> {"absent", "created"} \cup Terminal]
               /\ retry \in [Jobs -> Nat]
               /\ old \subseteq Jobs
               /\ idem \in [Jobs -> {"none", "in_flight"} \cup Terminal]
               /\ heard \in [Jobs -> {"none"} \cup Terminal]

StoreInit == /\ status = [j \in Jobs |-> "absent"]
             /\ retry = [j \in Jobs |-> 0]
             /\ old = {}
             /\ idem = [j \in Jobs |-> "none"]
             /\ heard = [j \in Jobs |-> "none"]

(* Create: one transaction writes the row, with attempt 1, and the         *)
(* payload; the in-flight idempotency key is bound to the job next.        *)
Create(j) == /\ status[j] = "absent"
             /\ status' = [status EXCEPT ![j] = "created"]
             /\ retry' = [retry EXCEPT ![j] = 1]
             /\ idem' = [idem EXCEPT ![j] = "in_flight"]
             /\ UNCHANGED <<old, heard>>

(* The grace period of a job that is still created runs out.               *)
Ages(j) == /\ status[j] = "created"
           /\ j \notin old
           /\ old' = old \cup {j}
           /\ UNCHANGED <<status, retry, idem, heard>>

(* The rows the orphan sweep reads.                                        *)
PendingYoung == {j \in Jobs \ old : status[j] = "created"}

PendingOrphans == {j \in old : status[j] = "created"}

(* job.Complete and job.Fail accept a created job only.  The test is made  *)
(* on a row read by an earlier query.                                      *)
CanFinish(j) == status[j] = "created"

(* UpdateStatus: the UPDATE has no condition on the old status.            *)
UpdateStatus(j, s) == /\ status' = [status EXCEPT ![j] = s]
                      /\ UNCHANGED <<retry, old, idem, heard>>

(* UpdateStatusIfStatus(created -> created), as UpdateCreated calls it.    *)
UpdateCreated(j, n) == /\ retry' = IF status[j] = "created"
                                     THEN [retry EXCEPT ![j] = n] ELSE retry
                       /\ UNCHANGED <<status, old, idem, heard>>

(* The transition script moves an in-flight key only; "missing" and        *)
(* "invalid" change nothing.                                               *)
TransitionStatus(j, s) ==
    /\ idem' = IF idem[j] = "in_flight" THEN [idem EXCEPT ![j] = s] ELSE idem
    /\ UNCHANGED <<status, retry, old, heard>>

(* XADD of a terminal event: Publish "failed", or Close.                   *)
PublishTerminal(j, e) ==
    /\ heard' = IF heard[j] = "none" THEN [heard EXCEPT ![j] = e] ELSE heard
    /\ UNCHANGED <<status, retry, old, idem>>
=============================================================================
