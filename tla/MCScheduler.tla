----------------------------- MODULE MCScheduler -----------------------------
(***************************************************************************)
(* Scheduler, with the history of turns and the ring of users that its     *)
(* scores stand for, on a small instance.                                  *)
(***************************************************************************)
EXTENDS Overtaking, SchedulerRing, TLC

CONSTANTS alice, bob, a1, a2, b1

MCUsers == {alice, bob}

MCJobs == {a1, a2, b1}

MCOwner == (a1 :> alice) @@ (a2 :> alice) @@ (b1 :> bob)
=============================================================================
