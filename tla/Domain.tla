------------------------------- MODULE Domain -------------------------------
(* Jobs and the users they belong to: jobs.user_id never changes.          *)
CONSTANTS Jobs,     \* job identifiers
          Users,
          Owner     \* the user of each job

ASSUME OwnerAssumption == Owner \in [Jobs -> Users]
=============================================================================
