---------------------------- MODULE SchedulerRing ----------------------------
(***************************************************************************)
(* The scores of the active set read as a ring of users, and the promise   *)
(* of FairQueue that the scripts of Scheduler implement in this reading.   *)
(***************************************************************************)
EXTENDS Scheduler, FiniteSets

Waiting(score) == {u \in Users : score[u] # 0}

(* The place of a user: how many have a score as low.                      *)
Place(score, u) == Cardinality({v \in Waiting(score) : score[v] <= score[u]})

Ring(score) == [i \in 1..Cardinality(Waiting(score)) |->
                   CHOOSE u \in Waiting(score) : Place(score, u) = i]

Turns == Ring(active)

Promise == INSTANCE FairQueue WITH ring <- Turns
-----------------------------------------------------------------------------
(* The scripts implement the promise of FairQueue: scores drawn from the   *)
(* rotation counter, with NX on activation and a plain ZADD on rotation,   *)
(* behave as a ring of users in which nobody is skipped.                   *)
ImplementsFairQueue == Promise!FairSpec
=============================================================================
