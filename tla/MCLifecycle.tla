---------------------------- MODULE MCLifecycle ----------------------------
(* Lifecycle with model values for workers and requests, where everything   *)
(* that can fail before the server runs does, and so does the start of the  *)
(* second module.                                                           *)
EXTENDS Lifecycle

MCMayFail == BuildSteps \cup {"recovery"}
=============================================================================
