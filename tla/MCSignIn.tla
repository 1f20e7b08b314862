------------------------------ MODULE MCSignIn ------------------------------
(***************************************************************************)
(* Three callbacks of one GitHub account: the callback URL of a first      *)
(* login is loaded twice, and a second login runs beside it or follows it. *)
(***************************************************************************)
EXTENDS SignIn, TLC

CONSTANTS c1, c2, c3, l1, l2, github

TwiceAndAgain == (c1 :> l1) @@ (c2 :> l1) @@ (c3 :> l2)
OnePerson == [l \in {l1, l2} |-> github]
=============================================================================
