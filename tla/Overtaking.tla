----------------------------- MODULE Overtaking -----------------------------
(***************************************************************************)
(* Scheduler with a history of turns: turns[u][v] counts how often user v  *)
(* was served while u, active all along, waited for the next turn.         *)
(***************************************************************************)
EXTENDS Scheduler

VARIABLE turns

historyVars == <<vars, turns>>

TurnsTypeOK == turns \in [Users -> [Users -> Nat]]

OvertakingInit == Init /\ turns = [u \in Users |-> [v \in Users |-> 0]]

(* User u has been served.                                                 *)
CountTurn(u) ==
    turns' = [w \in Users |-> [v \in Users |->
                 IF w = u \/ active[w] = 0 THEN 0
                 ELSE IF v = u THEN turns[w][v] + 1
                 ELSE turns[w][v]]]

OvertakingNext ==
    \/ \E u \in Users : FairDequeue(u) /\ CountTurn(u)
    \/ ((\E j \in Jobs : JobOp(j)) \/ Clock) /\ UNCHANGED turns

OvertakingSpec == OvertakingInit /\ [][OvertakingNext]_historyVars
-----------------------------------------------------------------------------
(* The scheduler's fairness: however many jobs other users have, and       *)
(* whatever enqueues, requeues and orphan adoptions happen in between, a   *)
(* user with a pending job is passed by each other user at most once       *)
(* before being served (fairDequeueScript and the activation in the        *)
(* pushing scripts).                                                       *)
ServedInTurn == \A u, v \in Users : u # v => turns[u][v] <= 1
=============================================================================
