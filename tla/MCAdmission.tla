---------------------------- MODULE MCAdmission ----------------------------
(* Admission: two tiers with buckets of different sizes.                   *)
EXTENDS Admission, TLC

CONSTANTS r1, r2, r3

MCTiers == {"free", "premium"}

MCCapacity == ("free" :> 1) @@ ("premium" :> 2)

MCFillRate == ("free" :> 1) @@ ("premium" :> 1)

MCBucketTTL == ("free" :> 2) @@ ("premium" :> 3)

MCMaxInput == ("free" :> 1) @@ ("premium" :> 2)

MCMaxOutput == ("free" :> 1) @@ ("premium" :> 1)

MCContextLength == ("free" :> 2) @@ ("premium" :> 2)

(* r1 costs 1; the others cost 2, which fits the bucket of the premium tier*)
(* only, and r2 asks for a model of that tier.                             *)
MCRunes == [r \in Requests |-> IF r = r1 THEN 3 ELSE 4]

MCModelTiers == [r \in Requests |-> IF r = r2 THEN {"premium"} ELSE MCTiers]
=============================================================================
