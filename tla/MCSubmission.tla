---------------------------- MODULE MCSubmission ----------------------------
(* Submission: three requests, two of them under one key.                  *)
EXTENDS Submission, TLC

CONSTANTS r1, r2, r3, k1, k2, h1, h2

MCRequests == {r1, r2, r3}

MCKeys == {k1, k2}

MCHashes == {h1, h2}

(* r2 repeats r1; r3 is another request.                                   *)
RepeatKeyOf == (r1 :> k1) @@ (r2 :> k1) @@ (r3 :> k2)

RepeatHashOf == (r1 :> h1) @@ (r2 :> h1) @@ (r3 :> h2)

(* r2 uses r1's key for another body; r3 is equivalent to r1.              *)
MixedHashOf == (r1 :> h1) @@ (r2 :> h2) @@ (r3 :> h1)
=============================================================================
