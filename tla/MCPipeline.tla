----------------------------- MODULE MCPipeline -----------------------------
(* Pipeline on one user, with model values for jobs, workers and loops.     *)
EXTENDS Pipeline, TLC

CONSTANT alice

MCUsers == {alice}

MCOwner == [j \in Jobs |-> alice]
=============================================================================
