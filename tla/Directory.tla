----------------------------- MODULE Directory -----------------------------
(***************************************************************************)
(* What sign-in and administration promise of the user accounts, each      *)
(* operation a single step: a GitHub account joins once and gets a user of *)
(* its own, tokens say what the user's row says, roles never change, and   *)
(* tiers change only where there is an administrator.                      *)
(***************************************************************************)
CONSTANTS Accounts, Users, NoUser

VARIABLES role,    \* role of each user, "none" where there is no row
          tier,    \* tier of each user
          link,    \* the user of each GitHub account
          tokens   \* access tokens that have not expired

directoryVars == <<role, tier, link, tokens>>

Roles == {"user", "admin"}
Tiers == {"free", "premium"}
Tokens == [user : Users, role : Roles]

Token(u, r) == [user |-> u, role |-> r]

DirectoryInit == /\ role = [u \in Users |-> "none"]
                 /\ tier = [u \in Users |-> "free"]
                 /\ link = [a \in Accounts |-> NoUser]
                 /\ tokens = {}

(* Registration and link, both or neither.                                 *)
Join(a, u) == /\ link[a] = NoUser /\ role[u] = "none"
              /\ role' = [role EXCEPT ![u] = "user"]
              /\ tier' = [tier EXCEPT ![u] = "free"]
              /\ link' = [link EXCEPT ![a] = u]
              /\ UNCHANGED tokens

Appoint(u) == /\ role[u] = "none"
              /\ role' = [role EXCEPT ![u] = "admin"]
              /\ tier' = [tier EXCEPT ![u] = "premium"]
              /\ UNCHANGED <<link, tokens>>

(* The role in a token is the role of the row.                             *)
Issue(u) == /\ role[u] # "none"
            /\ tokens' = tokens \cup {Token(u, role[u])}
            /\ UNCHANGED <<role, tier, link>>

Expire(t) == tokens' = tokens \ {t} /\ UNCHANGED <<role, tier, link>>

ChangeTier(u, t) == /\ role[u] # "none"
                    /\ \E v \in Users : role[v] = "admin"
                    /\ tier' = [tier EXCEPT ![u] = t]
                    /\ UNCHANGED <<role, link, tokens>>

DirectoryNext == \/ \E u \in Users : \/ Appoint(u) \/ Issue(u)
                                     \/ \E a \in Accounts : Join(a, u)
                                     \/ \E t \in Tiers : ChangeTier(u, t)
                 \/ \E t \in Tokens : Expire(t)

DirectorySpec == DirectoryInit /\ [][DirectoryNext]_directoryVars
=============================================================================
