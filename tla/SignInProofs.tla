---------------------------- MODULE SignInProofs ----------------------------
(***************************************************************************)
(* Sign-in keeps its users, links and tokens in order for any number of    *)
(* accounts, callbacks and administrators, and implements Directory.       *)
(*                                                                         *)
(* OneUserPerAccount and TokenRoleIsCurrent are not inductive alone.  The  *)
(* commit of a first sign-in needs to know that the user it writes is new  *)
(* (Fresh) and that the account is still free and nobody else's to commit  *)
(* (SoleWriter); the response needs to know that the user identified       *)
(* earlier is still the account's (Owned).                                 *)
(***************************************************************************)
EXTENDS SignIn, TLAPS

(* Most steps need no arithmetic.                                          *)
USE Zenon

Before == Steps \ {"role", "done"}

Fresh == \A c \in Callbacks : step[c] \in Before => role[c] = "none" /\ answer[c] = 0

SoleWriter == \A c, d \in Callbacks : step[c] = "commit" =>
                 /\ link[Account(c)] = NoUser
                 /\ step[d] = "commit" /\ Account(d) = Account(c) => d = c

Owned == \A c \in Callbacks : step[c] = "role" \/ answer[c] = 200 =>
            owner[c] = link[Account(c)] /\ owner[c] # NoUser

(* The rows: what only the commits and the administrators change.          *)
RowTypes == /\ role \in [Users -> D!Roles \cup {"none"}]
            /\ tier \in [Users -> D!Tiers]
            /\ link \in [Accounts -> Users \cup {NoUser}]
            /\ tokens \subseteq D!Tokens

EnvTypes == /\ states \subseteq Logins /\ codes \subseteq Logins
            /\ flow \in [Logins -> {"new", "sent", "approved"}]
            /\ faults \in 0..MaxFaults

CallTypes == /\ step \in [Callbacks -> Steps]
             /\ attempt \in [Callbacks -> Nat \ {0}]
             /\ owner \in [Callbacks -> Users \cup {NoUser}]
             /\ answer \in [Callbacks -> {0, 200, 401, 500, 502}]

(* Whoever is linked is a user, and a user has one link.                   *)
LinkedAreUsers == \A a \in Accounts : link[a] # NoUser => role[link[a]] = "user"
UsersAreLinked == \A u \in Users : role[u] = "user" => \E a \in Accounts : link[a] = u
LinksDiffer == \A a, b \in Accounts : link[a] = link[b] /\ link[a] # NoUser => a = b

CallInv == CallTypes /\ Fresh /\ SoleWriter /\ Owned

RowInv == /\ RowTypes /\ LinkedAreUsers /\ UsersAreLinked /\ LinksDiffer
          /\ TokenRoleIsCurrent

IndInv == EnvTypes /\ CallInv /\ RowInv

rowVars == <<role, tier, link, tokens>>

(* Every callback belongs to an account.                                   *)
LEMMA AccountType == \A c \in Callbacks : Account(c) \in Accounts
BY SignInAssumption DEF Account

(* The statuses that the error handler can produce.                        *)
LEMMA RefusedStatus == \A code : ResolveError(code) \in {401, 500, 502}
BY SMT DEF ResolveError, AuthErrCodeRegistry

(* The initial states.                                                     *)
LEMMA IndInvInit == Init => IndInv
<1> SUFFICES ASSUME Init PROVE IndInv
  OBVIOUS
<1>1. RowTypes
  BY DEF Init, RowTypes, D!DirectoryInit, D!Roles, D!Tiers
<1>2. EnvTypes /\ CallTypes
  BY SMT, SignInAssumption DEF Init, EnvTypes, CallTypes, Steps
<1>3. Fresh
  BY DEF Init, Fresh, D!DirectoryInit, Users
<1>4. SoleWriter /\ Owned
  BY SMT DEF Init, SoleWriter, Owned
<1>5. LinkedAreUsers /\ UsersAreLinked /\ LinksDiffer /\ TokenRoleIsCurrent
  BY DEF Init, LinkedAreUsers, UsersAreLinked, LinksDiffer, TokenRoleIsCurrent, D!DirectoryInit
<1> QED
  BY <1>1, <1>2, <1>3, <1>4, <1>5 DEF IndInv, CallInv, RowInv

(* A call that leads to another one before the commit.                     *)
LEMMA Advance ==
  ASSUME IndInv, NEW c \in Callbacks, NEW s \in Before \ {"commit"}, step[c] \in Before,
         Goto(c, s), UNCHANGED rowVars
  PROVE  CallInv'
<1> USE DEF IndInv, CallInv
<1>1. CallTypes'
  BY SMT DEF CallTypes, Goto, Before
<1>2. Fresh'
  BY SMT DEF Fresh, CallTypes, Goto, rowVars
<1>3. SoleWriter'
  BY SMT DEF SoleWriter, CallTypes, Goto, rowVars, Account
<1>4. Owned'
  BY SMT DEF Owned, CallTypes, Goto, rowVars, Account, Before
<1> QED
  BY <1>1, <1>2, <1>3, <1>4

(* A call that ends the callback with an error.                            *)
LEMMA Refused ==
  ASSUME IndInv, NEW c \in Callbacks, NEW s, Refuse(c, s), UNCHANGED rowVars
  PROVE  CallInv'
<1> USE DEF IndInv, CallInv
<1> DEFINE code == ResolveError(Codes[s])
<1>1. code \in {401, 500, 502}
  BY SMT, RefusedStatus
<1>2. /\ step' = [step EXCEPT ![c] = "done"]
      /\ answer' = [answer EXCEPT ![c] = code]
      /\ UNCHANGED <<attempt, owner, role, link>>
  BY DEF Refuse, Respond, rowVars
<1> HIDE DEF code
<1>3. CallTypes'
  BY SMT, <1>1, <1>2 DEF CallTypes, Steps
<1>4. Fresh'
  BY SMT, <1>2 DEF Fresh, CallTypes, Before
<1>5. SoleWriter'
  BY SMT, <1>2 DEF SoleWriter, CallTypes, Account
<1>6. Owned'
  BY SMT, <1>1, <1>2 DEF Owned, CallTypes, Account
<1> QED
  BY <1>3, <1>4, <1>5, <1>6

(* A transient failure of a call to GitHub.                                *)
LEMMA Retried ==
  ASSUME IndInv, NEW c \in Callbacks, NEW max, TryAgain(c, max), UNCHANGED rowVars
  PROVE  CallInv'
<1>1. CASE attempt[c] < max
  <2>1. UNCHANGED <<step, owner, answer, role, link>>
    BY <1>1 DEF TryAgain, rowVars
  <2>2. CallTypes'
    <3>1. attempt' = [attempt EXCEPT ![c] = @ + 1] /\ attempt \in [Callbacks -> Nat \ {0}]
      BY <1>1 DEF TryAgain, IndInv, CallInv, CallTypes
    <3>2. attempt' \in [Callbacks -> Nat \ {0}]
      BY SMT, <3>1
    <3> QED
      BY <2>1, <3>2 DEF IndInv, CallInv, CallTypes
  <2> QED
    BY <2>1, <2>2 DEF IndInv, CallInv, Fresh, SoleWriter, Owned, Account
<1>2. CASE ~(attempt[c] < max)
  BY <1>2, Refused DEF TryAgain
<1> QED
  BY <1>1, <1>2

(* The account has a user: FindByProviderUserID found it.                  *)
LEMMA Found ==
  ASSUME IndInv, NEW c \in Callbacks, step[c] = "find", link[Account(c)] # NoUser,
         Identified(c, link[Account(c)]), UNCHANGED rowVars
  PROVE  CallInv'
<1> USE DEF IndInv, CallInv
<1>1. link[Account(c)] \in Users
  BY AccountType DEF RowInv, RowTypes
<1>2. CallTypes'
  BY <1>1 DEF CallTypes, Identified, Steps
<1>3. Fresh'
  BY SMT DEF Fresh, CallTypes, Identified, rowVars, Before
<1>4. SoleWriter'
  BY SMT DEF SoleWriter, CallTypes, Identified, rowVars, Account
<1>5. Owned'
  BY SMT DEF Owned, CallTypes, Identified, rowVars, Account
<1> QED
  BY <1>2, <1>3, <1>4, <1>5

(* The INSERT of the link went through: the account is free, and this is   *)
(* the one transaction that holds it.                                      *)
LEMMA Inserted ==
  ASSUME IndInv, NEW c \in Callbacks, step[c] = "create", link[Account(c)] = NoUser,
         \A d \in Callbacks : step[d] = "commit" => Account(d) # Account(c),
         Goto(c, "commit"), UNCHANGED rowVars
  PROVE  CallInv'
<1> USE DEF IndInv, CallInv
<1>1. CallTypes'
  BY SMT DEF CallTypes, Goto, Steps
<1>2. Fresh'
  BY SMT DEF Fresh, CallTypes, Goto, rowVars, Before, Steps
<1>3. SoleWriter'
  BY SMT DEF SoleWriter, CallTypes, Goto, rowVars, Account
<1>4. Owned'
  BY SMT DEF Owned, CallTypes, Goto, rowVars, Account
<1> QED
  BY <1>1, <1>2, <1>3, <1>4

(* The rows of a first sign-in appear together, for a new user.            *)
LEMMA CommittedRows ==
  ASSUME IndInv, NEW c \in Callbacks, step[c] = "commit", Committed(c), UNCHANGED tokens
  PROVE  RowInv'
<1> DEFINE a == Account(c)
<1>1. a \in Accounts /\ c \in Users /\ c # NoUser /\ role[c] = "none" /\ link[a] = NoUser
  BY AccountType, SignInAssumption DEF IndInv, CallInv, Fresh, SoleWriter, Before, Steps, Users
<1>2. /\ role' = [role EXCEPT ![c] = "user"]
      /\ tier' = [tier EXCEPT ![c] = "free"]
      /\ link' = [link EXCEPT ![a] = c]
  BY DEF Committed
<1>3. RowTypes /\ LinkedAreUsers /\ UsersAreLinked /\ LinksDiffer /\ TokenRoleIsCurrent
  BY DEF IndInv, RowInv
<1> HIDE DEF a
<1>4. RowTypes'
  BY <1>1, <1>2, <1>3 DEF RowTypes, D!Roles, D!Tiers
<1>5. LinkedAreUsers'
  BY <1>1, <1>2, <1>3 DEF RowTypes, LinkedAreUsers
<1>6. UsersAreLinked'
  <2> SUFFICES ASSUME NEW u \in Users, role'[u] = "user"
               PROVE  \E b \in Accounts : link'[b] = u
    BY DEF UsersAreLinked
  <2>1. CASE u = c
    BY <1>1, <1>2, <1>3, <2>1 DEF RowTypes
  <2>2. CASE u # c
    <3>1. PICK b \in Accounts : link[b] = u
      BY <1>1, <1>2, <1>3, <2>2 DEF RowTypes, UsersAreLinked
    <3>2. b # a
      BY <1>1, <3>1, SignInAssumption DEF Users
    <3> QED
      BY <1>2, <1>3, <3>1, <3>2 DEF RowTypes
  <2> QED
    BY <2>1, <2>2
<1>7. LinksDiffer'
  <2>1. \A b \in Accounts : link[b] # c
    BY <1>1, <1>3 DEF LinkedAreUsers
  <2> QED
    BY <1>1, <1>2, <1>3, <2>1 DEF RowTypes, LinksDiffer
<1>8. TokenRoleIsCurrent'
  <2> SUFFICES ASSUME NEW t \in tokens PROVE role'[t.user] = t.role
    BY DEF TokenRoleIsCurrent
  <2>1. t.user \in Users /\ t.role # "none" /\ role[t.user] = t.role
    BY <1>3 DEF RowTypes, TokenRoleIsCurrent, D!Tokens, D!Roles
  <2> QED
    BY <1>1, <1>2, <1>3, <2>1 DEF RowTypes
<1> QED
  BY <1>4, <1>5, <1>6, <1>7, <1>8 DEF RowInv

(* A committed first sign-in takes the account from every other callback   *)
(* that has not read it yet, and from none that has.                       *)
LEMMA CommittedCalls ==
  ASSUME IndInv, NEW c \in Callbacks, step[c] = "commit", Committed(c),
         \/ Identified(c, c)
         \/ Refuse(c, "commit")
  PROVE  CallInv'
<1> USE DEF IndInv, CallInv
<1> DEFINE a == Account(c)
<1>1. /\ a \in Accounts /\ c \in Users /\ c # NoUser /\ link[a] = NoUser
      /\ link \in [Accounts -> Users \cup {NoUser}]
      /\ role \in [Users -> D!Roles \cup {"none"}]
      /\ Callbacks \subseteq Users
  BY AccountType, SignInAssumption DEF SoleWriter, Users, RowInv, RowTypes
<1>2. /\ role' = [role EXCEPT ![c] = "user"]
      /\ link' = [link EXCEPT ![a] = c]
  BY DEF Committed
<1>3. /\ CallTypes'
      /\ step'[c] \in {"role", "done"}
      /\ step'[c] = "role" \/ answer'[c] = 200 => owner'[c] = c
      /\ \A d \in Callbacks : d # c => /\ step'[d] = step[d] /\ owner'[d] = owner[d]
                                      /\ answer'[d] = answer[d]
  <2>1. answer[c] = 0
    BY DEF Fresh, Before, Steps
  <2>2. CASE Identified(c, c)
    BY SMT, <1>1, <2>1, <2>2 DEF Identified, CallTypes, Steps
  <2>3. CASE Refuse(c, "commit")
    <3>1. PICK code \in {401, 500, 502} : Respond(c, code)
      BY SMT, <2>3, RefusedStatus DEF Refuse
    <3> QED
      BY SMT, <3>1 DEF Respond, CallTypes, Steps
  <2> QED
    BY <2>2, <2>3
<1>4. \A d \in Callbacks : d # c => role'[d] = role[d]
  BY <1>1, <1>2
<1>5. link'[a] = c /\ \A b \in Accounts : b # a => link'[b] = link[b]
  BY <1>1, <1>2
<1>7. Fresh'
  BY <1>3, <1>4 DEF Fresh, Before
<1>8. SoleWriter'
  <2> SUFFICES ASSUME NEW d \in Callbacks, NEW e \in Callbacks, step'[d] = "commit"
               PROVE  /\ link'[Account(d)] = NoUser
                      /\ step'[e] = "commit" /\ Account(e) = Account(d) => e = d
    BY DEF SoleWriter, Account
  <2>1. d # c /\ step[d] = "commit" /\ Account(d) \in Accounts
    BY <1>3, <1>4, <1>5, AccountType
  <2>2. Account(d) # a
    BY <2>1 DEF SoleWriter
  <2> QED
    BY <1>3, <1>4, <1>5, <2>1, <2>2 DEF SoleWriter
<1>9. Owned'
  <2> SUFFICES ASSUME NEW d \in Callbacks, step'[d] = "role" \/ answer'[d] = 200
               PROVE  owner'[d] = link'[Account(d)] /\ owner'[d] # NoUser
    BY DEF Owned, Account
  <2>1. CASE d = c
    BY <1>1, <1>3, <1>5, <2>1
  <2>2. CASE d # c
    BY SMT, <1>1, <1>3, <1>5, <2>2, AccountType DEF Owned
  <2> QED
    BY <2>1, <2>2
<1> QED
  BY <1>3, <1>7, <1>8, <1>9

(* Steps that leave the rows, or the callbacks, as they are.               *)
LEMMA RowsKept == IndInv /\ UNCHANGED rowVars => RowInv'
BY DEF IndInv, RowInv, rowVars, RowTypes, LinkedAreUsers, UsersAreLinked, LinksDiffer,
       TokenRoleIsCurrent

(* The types of pending states, sign-in flows, codes and faults.           *)
LEMMA EnvTyped ==
  ASSUME EnvTypes, NEW l \in Logins,
         states' \in {states, states \cup {l}, states \ {l}},
         codes' \in {codes, codes \cup {l}, codes \ {l}},
         \E f \in {"new", "sent", "approved"} : flow' \in {flow, [flow EXCEPT ![l] = f]},
         Fault \/ UNCHANGED faults
  PROVE  EnvTypes'
<1>1. faults' \in 0..MaxFaults
  BY SMT, SignInAssumption DEF EnvTypes, Fault
<1>2. flow' \in [Logins -> {"new", "sent", "approved"}]
  BY DEF EnvTypes
<1>3. states' \subseteq Logins /\ codes' \subseteq Logins
  BY DEF EnvTypes
<1> QED
  BY <1>1, <1>2, <1>3 DEF EnvTypes

(* One step of a callback.                                                 *)
LEMMA CallbackStep ==
  ASSUME IndInv, NEW c \in Callbacks, HandleOauthCallback(c) \/ Handle(c) \/ Disturb(c)
  PROVE  IndInv'
<1>1. LoginOf[c] \in Logins
  BY SignInAssumption
<1>2. EnvTypes'
  <2>1. \/ HandleOauthCallback(c) \/ Exists(c) \/ Delete(c) \/ ExchangeCode(c)
        \/ ExchangeBodySpent(c) \/ GetUserInfo(c) \/ FindByProviderUserID(c)
        \/ Register(c) \/ Create(c) \/ Commit(c) \/ Role(c)
        \/ ExchangeCodeLost(c) \/ GetUserInfoLost(c) \/ CommitLost(c) \/ Fails(c)
    BY DEF Handle, Disturb
  <2>2. /\ states' \in {states, states \ {LoginOf[c]}}
        /\ codes' \in {codes, codes \ {LoginOf[c]}}
        /\ UNCHANGED flow
        /\ Fault \/ UNCHANGED faults
    BY <2>1 DEF HandleOauthCallback, Exists, Delete, ExchangeCode, ExchangeBodySpent,
                GetUserInfo, FindByProviderUserID, Register, Create, Commit, Role,
                ExchangeCodeLost, GetUserInfoLost, CommitLost, Fails
  <2> QED
    BY <1>1, <2>2, EnvTyped DEF IndInv
<1>3. CASE /\ UNCHANGED rowVars
           /\ \/ HandleOauthCallback(c) \/ Exists(c) \/ Delete(c) \/ ExchangeCode(c)
              \/ ExchangeBodySpent(c) \/ GetUserInfo(c) \/ FindByProviderUserID(c)
              \/ Register(c) \/ Create(c)
              \/ ExchangeCodeLost(c) \/ GetUserInfoLost(c) \/ Fails(c)
  <2>1. RowInv'
    BY <1>3, RowsKept
  <2>2. CASE Create(c)
    <3>1. CASE link[Account(c)] # NoUser
      BY <1>2, <1>3, <2>1, <2>2, <3>1, Refused DEF Create, IndInv
    <3>2. CASE link[Account(c)] = NoUser
      BY <1>2, <1>3, <2>1, <2>2, <3>2, Inserted DEF Create, IndInv
    <3> QED
      BY <3>1, <3>2
  <2>3. CASE FindByProviderUserID(c)
    <3>1. CASE link[Account(c)] # NoUser
      BY <1>2, <1>3, <2>1, <2>3, <3>1, Found DEF FindByProviderUserID, IndInv
    <3>2. CASE link[Account(c)] = NoUser
      BY <1>2, <1>3, <2>1, <2>3, <3>2, Advance DEF FindByProviderUserID, Before, Steps, IndInv
    <3> QED
      BY <3>1, <3>2
  <2>4. CASE ExchangeBodySpent(c) \/ Fails(c)
    BY <1>2, <1>3, <2>1, <2>4, Refused DEF ExchangeBodySpent, Fails, IndInv
  <2>5. CASE ExchangeCodeLost(c) \/ GetUserInfoLost(c)
    BY <1>2, <1>3, <2>1, <2>5, Retried DEF ExchangeCodeLost, GetUserInfoLost, IndInv
  <2>6. CASE Exists(c) \/ ExchangeCode(c)
    <3>1. \/ Refuse(c, "exists") \/ Refuse(c, "exchange")
          \/ step[c] \in Before /\ (Goto(c, "delete") \/ Goto(c, "userInfo"))
      BY <2>6 DEF Exists, ExchangeCode, Before, Steps
    <3> QED
      BY <1>2, <1>3, <2>1, <3>1, Refused, Advance DEF Before, Steps, IndInv
  <2>7. CASE HandleOauthCallback(c) \/ Delete(c) \/ GetUserInfo(c) \/ Register(c)
    <3>1. /\ step[c] \in Before
          /\ Goto(c, "exists") \/ Goto(c, "exchange") \/ Goto(c, "find") \/ Goto(c, "create")
      BY <2>7 DEF HandleOauthCallback, Delete, GetUserInfo, Register, Before, Steps
    <3> QED
      BY <1>2, <1>3, <2>1, <3>1, Advance DEF Before, Steps, IndInv
  <2> QED
    BY <1>3, <2>2, <2>3, <2>4, <2>5, <2>6, <2>7
<1>4. CASE Commit(c) \/ CommitLost(c)
  BY <1>2, <1>4, CommittedRows, CommittedCalls DEF Commit, CommitLost, IndInv
<1>5. CASE Role(c)
  <2>1. /\ owner[c] \in Users /\ owner[c] = link[Account(c)]
        /\ role[owner[c]] = "user" /\ step[c] = "role"
    BY SMT, <1>5, AccountType DEF Role, IndInv, CallInv, CallTypes, Owned, RowInv, LinkedAreUsers
  <2>2. tokens' = tokens \cup {D!Token(owner[c], "user")} /\ Respond(c, 200)
        /\ UNCHANGED <<role, tier, link>>
    BY <1>5, <2>1 DEF Role, Generate
  <2>3. RowInv'
    <3>1. RowTypes'
      BY SMT, <2>1, <2>2 DEF IndInv, RowInv, RowTypes, D!Tokens, D!Token, D!Roles
    <3>2. TokenRoleIsCurrent'
      BY SMT, <2>1, <2>2 DEF IndInv, RowInv, TokenRoleIsCurrent, D!Token
    <3> QED
      BY <2>2, <3>1, <3>2 DEF IndInv, RowInv, LinkedAreUsers, UsersAreLinked, LinksDiffer
  <2>4. CallInv'
    <3>1. CallTypes'
      BY SMT, <2>2 DEF IndInv, CallInv, CallTypes, Respond, Steps
    <3>2. Fresh' /\ SoleWriter'
      BY SMT, <2>2 DEF IndInv, CallInv, CallTypes, Respond, Fresh, SoleWriter, Before, Account
    <3>3. Owned'
      BY SMT, <2>1, <2>2 DEF IndInv, CallInv, CallTypes, Respond, Owned, Account
    <3> QED
      BY <3>1, <3>2, <3>3 DEF CallInv
  <2> QED
    BY <1>2, <2>3, <2>4 DEF IndInv
<1> QED
  BY <1>3, <1>4, <1>5
     DEF Handle, Disturb, HandleOauthCallback, Exists, Delete, ExchangeCode, ExchangeBodySpent,
         GetUserInfo, FindByProviderUserID, Register, Create, ExchangeCodeLost,
         GetUserInfoLost, Fails, rowVars

(* The steps of logins, administrators and the clock.                      *)
LEMMA OtherStep ==
  ASSUME IndInv, UNCHANGED callVars, EnvTypes', RowInv', UNCHANGED link,
         \A c \in Callbacks : role'[c] = role[c]
  PROVE  IndInv'
BY SMT DEF IndInv, CallInv, CallTypes, Fresh, SoleWriter, Owned, callVars, Account

(* The login is started, approved at GitHub, or its state expires.         *)
LEMMA LoginStep ==
  ASSUME IndInv, NEW l \in Logins, GenerateAuthURL(l) \/ Approve(l) \/ StateExpires(l)
  PROVE  IndInv'
<1>1. UNCHANGED rowVars /\ UNCHANGED callVars
  BY DEF GenerateAuthURL, Approve, StateExpires, rowVars, callVars
<1>2. EnvTypes'
  BY EnvTyped DEF GenerateAuthURL, Approve, StateExpires, IndInv
<1> QED
  BY <1>1, <1>2, RowsKept, OtherStep DEF rowVars

(* Tokens are issued with the role of their user, or expire.               *)
LEMMA TokenStep ==
  ASSUME IndInv, UNCHANGED <<role, tier, link>>, tokens' \subseteq D!Tokens,
         \A t \in tokens' : t \in tokens \/ role[t.user] = t.role
  PROVE  RowInv'
<1>1. RowTypes'
  BY DEF IndInv, RowInv, RowTypes
<1>2. TokenRoleIsCurrent'
  BY DEF IndInv, RowInv, TokenRoleIsCurrent
<1> QED
  BY <1>1, <1>2 DEF IndInv, RowInv, LinkedAreUsers, UsersAreLinked, LinksDiffer

(* Administrators are appointed, and change tiers.                         *)
LEMMA AdminStep ==
  ASSUME IndInv,
         \/ \E a \in Admins : CreateAdmin(a)
         \/ \E u \in Users : AdminAuthLogin(u)
         \/ \E t \in D!Tokens : \/ TokenExpires(t)
                                \/ \E u \in Users, new \in D!Tiers : UpdateUserTier(t, u, new)
  PROVE  IndInv'
<1>1. UNCHANGED <<states, flow, codes, link, faults>> /\ UNCHANGED callVars
  BY DEF CreateAdmin, AdminAuthLogin, TokenExpires, UpdateUserTier
<1>2. EnvTypes'
  BY <1>1 DEF IndInv, EnvTypes
<1>3. RowTypes /\ LinkedAreUsers /\ UsersAreLinked /\ LinksDiffer /\ TokenRoleIsCurrent
  BY DEF IndInv, RowInv
<1>4. ASSUME NEW a \in Admins, CreateAdmin(a)
      PROVE  RowInv' /\ \A c \in Callbacks : role'[c] = role[c]
  <2>1. /\ a \in Users /\ a \notin Callbacks /\ role[a] = "none"
        /\ role' = [role EXCEPT ![a] = "admin"] /\ tier' = [tier EXCEPT ![a] = "premium"]
        /\ UNCHANGED <<link, tokens>>
    BY <1>4, SignInAssumption DEF CreateAdmin, SetUserAsAdmin, Users
  <2>2. RowTypes'
    BY <1>3, <2>1 DEF RowTypes, D!Roles, D!Tiers
  <2>3. LinkedAreUsers' /\ LinksDiffer'
    BY <1>3, <2>1 DEF RowTypes, LinkedAreUsers, LinksDiffer
  <2>4. UsersAreLinked'
    BY <1>3, <2>1 DEF RowTypes, UsersAreLinked
  <2>5. TokenRoleIsCurrent'
    <3> SUFFICES ASSUME NEW t \in tokens PROVE role'[t.user] = t.role
      BY <2>1 DEF TokenRoleIsCurrent
    <3>1. t.user \in Users /\ t.role # "none" /\ role[t.user] = t.role
      BY <1>3 DEF RowTypes, TokenRoleIsCurrent, D!Tokens, D!Roles
    <3> QED
      BY <1>3, <2>1, <3>1 DEF RowTypes
  <2>6. \A c \in Callbacks : role'[c] = role[c]
    BY <1>3, <2>1 DEF RowTypes, Users
  <2> QED
    BY <2>2, <2>3, <2>4, <2>5, <2>6 DEF RowInv
<1>5. ASSUME NEW u \in Users, AdminAuthLogin(u)
      PROVE  RowInv' /\ UNCHANGED role
  <2>1. /\ tokens' = tokens \cup {D!Token(u, "admin")} /\ role[u] = "admin"
        /\ UNCHANGED <<role, tier, link>>
    BY <1>5 DEF AdminAuthLogin, IsUserAdmin, Generate
  <2>2. tokens' \subseteq D!Tokens /\ \A t \in tokens' : t \in tokens \/ role[t.user] = t.role
    BY SMT, <1>3, <2>1 DEF RowTypes, D!Tokens, D!Token, D!Roles
  <2> QED
    BY <2>1, <2>2, TokenStep
<1>6. ASSUME NEW t \in D!Tokens, TokenExpires(t)
      PROVE  RowInv' /\ UNCHANGED role
  BY <1>3, <1>6, TokenStep DEF TokenExpires, RowTypes
<1>7. ASSUME NEW t \in D!Tokens, NEW u \in Users, NEW new \in D!Tiers, UpdateUserTier(t, u, new)
      PROVE  RowInv' /\ UNCHANGED role
  BY <1>3, <1>7 DEF UpdateUserTier, RowInv, RowTypes, LinkedAreUsers, UsersAreLinked,
                    LinksDiffer, TokenRoleIsCurrent
<1> QED
  BY <1>1, <1>2, <1>4, <1>5, <1>6, <1>7, OtherStep

(* Every step keeps the invariant.                                         *)
LEMMA IndInvNext == IndInv /\ [Next]_signInVars => IndInv'
<1> SUFFICES ASSUME IndInv, [Next]_signInVars PROVE IndInv'
  OBVIOUS
<1>1. CASE UNCHANGED signInVars
  BY <1>1, RowsKept, OtherStep DEF signInVars, rowVars, IndInv, EnvTypes
<1>2. CASE Next
  BY <1>2, LoginStep, CallbackStep, AdminStep DEF Next
<1> QED
  BY <1>1, <1>2

(* The inductive invariant of sign-in holds in every reachable state.      *)
THEOREM Invariance == Spec => []IndInv
BY IndInvInit, IndInvNext, PTL DEF Spec

(* doWithRetry: no call is attempted more often than its limit.            *)
Bounded == \A c \in Callbacks : /\ step[c] = "exchange" => attempt[c] <= MaxExchanges
                                /\ step[c] = "userInfo" => attempt[c] <= MaxReads

(* Going on resets the attempts, refusing ends them, and trying again      *)
(* stops at the limit.                                                     *)
LEMMA BoundedStep ==
  ASSUME IndInv, Bounded, Next
  PROVE  Bounded'
<1> USE SignInAssumption DEF Bounded, IndInv, CallInv, CallTypes
<1>1. ASSUME NEW c \in Callbacks, NEW s, Goto(c, s)
      PROVE  Bounded'
  BY SMT, <1>1 DEF Goto
<1>2. ASSUME NEW c \in Callbacks, NEW code, Respond(c, code)
      PROVE  Bounded'
  BY SMT, <1>2 DEF Respond
<1>3. ASSUME NEW c \in Callbacks, NEW u, Identified(c, u)
      PROVE  Bounded'
  BY SMT, <1>3 DEF Identified
<1>4. ASSUME NEW c \in Callbacks, NEW max \in Nat, TryAgain(c, max),
             \/ step[c] = "exchange" /\ max = MaxExchanges
             \/ step[c] = "userInfo" /\ max = MaxReads
      PROVE  Bounded'
  <2>1. CASE attempt[c] < max
    BY SMT, <1>4, <2>1 DEF TryAgain
  <2>2. CASE ~(attempt[c] < max)
    BY <1>2, <1>4, <2>2 DEF TryAgain, Refuse
  <2> QED
    BY <2>1, <2>2
<1>5. CASE UNCHANGED callVars
  BY <1>5 DEF callVars
<1>6. ASSUME NEW c \in Callbacks,
             \/ HandleOauthCallback(c) \/ Exists(c) \/ Delete(c) \/ ExchangeCode(c)
             \/ ExchangeBodySpent(c) \/ GetUserInfo(c) \/ FindByProviderUserID(c)
      PROVE  Bounded'
  BY <1>1, <1>2, <1>3, <1>6 DEF HandleOauthCallback, Exists, Delete, ExchangeCode,
     ExchangeBodySpent, GetUserInfo, FindByProviderUserID, Refuse
<1>7. ASSUME NEW c \in Callbacks,
             \/ Register(c) \/ Create(c) \/ Commit(c) \/ CommitLost(c) \/ Role(c) \/ Fails(c)
      PROVE  Bounded'
  BY <1>1, <1>2, <1>3, <1>7 DEF Register, Create, Commit, CommitLost, Role, Fails, Refuse
<1>8. ASSUME NEW c \in Callbacks, ExchangeCodeLost(c) \/ GetUserInfoLost(c)
      PROVE  Bounded'
  BY <1>4, <1>8 DEF ExchangeCodeLost, GetUserInfoLost
<1>9. \/ \E c \in Callbacks : HandleOauthCallback(c) \/ Handle(c) \/ Disturb(c)
      \/ UNCHANGED callVars
  BY DEF Next, GenerateAuthURL, Approve, StateExpires, CreateAdmin, AdminAuthLogin, TokenExpires,
         UpdateUserTier, SetUserAsAdmin
<1> QED
  BY <1>5, <1>6, <1>7, <1>8, <1>9 DEF Handle, Disturb

(* Types, with the bound on attempts that doWithRetry keeps.               *)
THEOREM SignInTyped == Spec => []TypeOK
<1>1. Init => Bounded
  BY SignInAssumption DEF Init, Bounded
<1>2. IndInv /\ Bounded /\ [Next]_signInVars => Bounded'
  <2>1. CASE UNCHANGED signInVars
    BY <2>1 DEF signInVars, callVars, Bounded
  <2> QED
    BY <2>1, BoundedStep
<1>3. IndInv /\ Bounded => TypeOK
  BY DEF IndInv, EnvTypes, CallInv, CallTypes, RowInv, RowTypes, Bounded, TypeOK
<1> QED
  BY <1>1, <1>2, <1>3, Invariance, PTL DEF Spec

(* However many callbacks, accounts and administrators there are, the      *)
(* users are exactly the linked ones, each with one GitHub account.        *)
THEOREM OneUserPerAccountAlways == Spec => []OneUserPerAccount
<1>1. IndInv => OneUserPerAccount
  <2> SUFFICES ASSUME IndInv PROVE OneUserPerAccount
    OBVIOUS
  <2>1. ASSUME NEW u \in Users, role[u] = "user"
        PROVE  \E a \in Accounts : {b \in Accounts : link[b] = u} = {a}
    <3>1. PICK a \in Accounts : link[a] = u
      BY <2>1 DEF IndInv, RowInv, UsersAreLinked
    <3>2. {b \in Accounts : link[b] = u} = {a}
      BY <3>1, SignInAssumption DEF IndInv, RowInv, LinksDiffer
    <3> QED
      BY <3>2
  <2> QED
    BY <2>1 DEF OneUserPerAccount, IndInv, RowInv, LinkedAreUsers
<1> QED
  BY <1>1, Invariance, PTL

(* The role that the middlewares read from a token is the one in the row.  *)
THEOREM TokenRoleIsCurrentAlways == Spec => []TokenRoleIsCurrent
<1>1. IndInv => TokenRoleIsCurrent
  BY DEF IndInv, RowInv
<1> QED
  BY <1>1, Invariance, PTL

(* A callback answered 200 is signed in as the user of the account that    *)
(* approved its login.                                                     *)
THEOREM SignedInAsOwnerAlways == Spec => []SignedInAsOwner
<1>1. IndInv => SignedInAsOwner
  BY DEF IndInv, CallInv, Owned, SignedInAsOwner
<1> QED
  BY <1>1, Invariance, PTL

(* Why nothing but a duplicate fails while nothing has gone wrong.  A      *)
(* state that is gone was deleted by a callback, and a code that is gone   *)
(* was exchanged by one; every call is a first attempt; and an account is  *)
(* linked by callbacks only.                                               *)
Unchecked == {"idle", "exists", "delete"}

StateTaken == \A l \in Logins : flow[l] # "new" /\ l \notin states =>
    \E d \in Callbacks : LoginOf[d] = l /\ step[d] \notin Unchecked

CodeTaken == \A l \in Logins : flow[l] = "approved" /\ l \notin codes =>
    \E d \in Callbacks : LoginOf[d] = l /\ step[d] \notin Unchecked \cup {"exchange"}

Started == \A c \in Callbacks : step[c] # "idle" => flow[LoginOf[c]] = "approved"

FirstAttempt == \A c \in Callbacks : attempt[c] = 1

LinkedByCallback == \A a \in Accounts : link[a] \in Callbacks \cup {NoUser}

Excused(c) ==
    /\ answer[c] \in {401, 502} =>
          \E d \in Callbacks \ {c} : LoginOf[d] = LoginOf[c] /\ step[d] # "idle"
    /\ answer[c] = 500 => link[Account(c)] \in Callbacks \ {c}

Traces == StateTaken /\ CodeTaken /\ Started /\ FirstAttempt

Calm == faults = MaxFaults =>
    Traces /\ LinkedByCallback /\ \A c \in Callbacks : Excused(c)

(* A callback that goes on leaves its trace where it takes something.      *)
LEMMA TracesKept ==
  ASSUME IndInv, Traces, NEW c \in Callbacks, NEW s \in Steps \ {"idle"},
         step' = [step EXCEPT ![c] = s], UNCHANGED flow,
         flow[LoginOf[c]] = "approved",
         attempt' \in {attempt, [attempt EXCEPT ![c] = 1]},
         step[c] \notin Unchecked => s \notin Unchecked,
         step[c] \notin Unchecked \cup {"exchange"} => s \notin Unchecked \cup {"exchange"},
         \/ states' = states
         \/ states' = states \ {LoginOf[c]} /\ s \notin Unchecked,
         \/ codes' = codes
         \/ codes' = codes \ {LoginOf[c]} /\ s \notin Unchecked \cup {"exchange"}
  PROVE  Traces'
<1>1. step \in [Callbacks -> Steps] /\ attempt \in [Callbacks -> Nat \ {0}]
  BY DEF IndInv, CallInv, CallTypes
<1>2. StateTaken'
  <2> SUFFICES ASSUME NEW l \in Logins, flow[l] # "new", l \notin states'
               PROVE  \E d \in Callbacks : LoginOf[d] = l /\ step'[d] \notin Unchecked
    BY DEF StateTaken
  <2>1. CASE l \in states
    <3>1. l = LoginOf[c] /\ step'[c] \notin Unchecked
      BY <1>1, <2>1
    <3> QED
      BY <3>1
  <2>2. CASE l \notin states
    <3>1. PICK d \in Callbacks : LoginOf[d] = l /\ step[d] \notin Unchecked
      BY <2>2 DEF Traces, StateTaken
    <3>2. step'[d] \notin Unchecked
      BY <1>1, <3>1
    <3> QED
      BY <3>1, <3>2
  <2> QED
    BY <2>1, <2>2
<1>3. CodeTaken'
  <2> DEFINE Early == Unchecked \cup {"exchange"}
  <2> SUFFICES ASSUME NEW l \in Logins, flow[l] = "approved", l \notin codes'
               PROVE  \E d \in Callbacks : LoginOf[d] = l /\ step'[d] \notin Early
    BY DEF CodeTaken
  <2>0. /\ step[c] \notin Early => s \notin Early
        /\ codes' = codes \/ (codes' = codes \ {LoginOf[c]} /\ s \notin Early)
    OBVIOUS
  <2>3. l \notin codes => \E d \in Callbacks : LoginOf[d] = l /\ step[d] \notin Early
    BY DEF Traces, CodeTaken
  <2> HIDE DEF Early
  <2>1. CASE l \in codes
    <3>1. l = LoginOf[c] /\ step'[c] \notin Early
      BY <1>1, <2>0, <2>1
    <3> QED
      BY <3>1
  <2>2. CASE l \notin codes
    <3>1. PICK d \in Callbacks : LoginOf[d] = l /\ step[d] \notin Early
      BY <2>2, <2>3
    <3>2. step'[d] \notin Early
      BY <1>1, <2>0, <3>1
    <3> QED
      BY <3>1, <3>2
  <2> QED
    BY <2>1, <2>2
<1>4. Started'
  BY <1>1 DEF Traces, Started
<1>5. FirstAttempt'
  BY <1>1 DEF Traces, FirstAttempt
<1> QED
  BY <1>2, <1>3, <1>4, <1>5 DEF Traces

(* An excuse lasts: no callback becomes idle again, and no link moves.     *)
LEMMA ExcuseLasts ==
  ASSUME IndInv, NEW c \in Callbacks, Excused(c),
         \A d \in Callbacks : step'[d] = "idle" => step[d] = "idle",
         \A a \in Accounts : link[a] # NoUser => link'[a] = link[a],
         answer'[c] = answer[c]
  PROVE  Excused(c)'
<1>1. NoUser \notin Callbacks /\ Account(c) \in Accounts
  BY SignInAssumption, AccountType DEF Users
<1>2. answer[c] = 500 => link'[Account(c)] \in Callbacks \ {c}
  BY SMT, <1>1 DEF Excused
<1> QED
  BY SMT, <1>2 DEF Excused, Account

(* The answers that HandleCallback gives to the errors of these calls.     *)
LEMMA RefusalCodes ==
  /\ ResolveError(Codes["exists"]) = 401
  /\ ResolveError(Codes["exchange"]) = 502
  /\ ResolveError(Codes["create"]) = 500
<1>1. /\ Codes["exists"] = "OAUTH_STATE_PARAM_NOT_FOUND"
      /\ Codes["exchange"] = "OAUTH_TOKEN_EXCHANGE_FAILED"
      /\ Codes["create"] = "DB_QUERY_FAILED"
  BY DEF Codes
<1> QED
  BY SMT, <1>1 DEF ResolveError, AuthErrCodeRegistry

(* A step of a callback in which no fault hits.                            *)
LEMMA CalmCallback ==
  ASSUME IndInv, NEW c \in Callbacks, HandleOauthCallback(c) \/ Handle(c),
         UNCHANGED faults, Traces, LinkedByCallback, \A d \in Callbacks : Excused(d)
  PROVE  Traces' /\ LinkedByCallback' /\ \A d \in Callbacks : Excused(d)'
<1>0. /\ step \in [Callbacks -> Steps] /\ attempt \in [Callbacks -> Nat \ {0}]
      /\ answer \in [Callbacks -> {0, 200, 401, 500, 502}]
      /\ link \in [Accounts -> Users \cup {NoUser}]
      /\ LoginOf[c] \in Logins /\ Account(c) \in Accounts
      /\ step[c] # "idle" => flow[LoginOf[c]] = "approved"
  BY SMT, AccountType, SignInAssumption
     DEF IndInv, CallInv, CallTypes, RowInv, RowTypes, Traces, Started
<1>1. ASSUME NEW s \in Steps \ {"idle"}, step' = [step EXCEPT ![c] = s],
             answer' = answer, UNCHANGED link
      PROVE  LinkedByCallback' /\ \A d \in Callbacks : Excused(d)'
  BY <1>0, <1>1, ExcuseLasts DEF LinkedByCallback
<1>2. ASSUME NEW code, Respond(c, code), UNCHANGED link,
             \/ code = 200
             \/ /\ code \in {401, 502}
                /\ \E d \in Callbacks \ {c} : LoginOf[d] = LoginOf[c] /\ step[d] # "idle"
             \/ code = 500 /\ link[Account(c)] \in Callbacks \ {c}
      PROVE  LinkedByCallback' /\ \A d \in Callbacks : Excused(d)'
  <2>1. /\ step' = [step EXCEPT ![c] = "done"]
        /\ answer' = [answer EXCEPT ![c] = code]
    BY <1>2 DEF Respond
  <2>2. \A d \in Callbacks : step'[d] = "idle" => step[d] = "idle"
    BY SMT, <1>0, <2>1
  <2>3. ASSUME NEW d \in Callbacks, d # c PROVE Excused(d)'
    BY SMT, <1>0, <1>2, <2>1, <2>2, <2>3, ExcuseLasts
  <2>4. Excused(c)'
    BY SMT, <1>0, <1>2, <2>1, <2>2 DEF Excused, Account
  <2> QED
    BY SMT, <1>2, <2>3, <2>4 DEF LinkedByCallback
<1>3. CASE HandleOauthCallback(c)
  <2>1. /\ step' = [step EXCEPT ![c] = "exists"] /\ flow[LoginOf[c]] = "approved"
        /\ attempt' = [attempt EXCEPT ![c] = 1] /\ step[c] = "idle"
        /\ UNCHANGED <<answer, link, states, codes, flow>>
    BY <1>3 DEF HandleOauthCallback, Goto
  <2> QED
    BY <1>1, <2>1, TracesKept DEF Steps, Unchecked
<1>4. CASE Exists(c)
  <2>1. CASE LoginOf[c] \in states
    <3>1. /\ step' = [step EXCEPT ![c] = "delete"] /\ flow[LoginOf[c]] = "approved"
          /\ attempt' = [attempt EXCEPT ![c] = 1] /\ step[c] = "exists"
          /\ UNCHANGED <<answer, link, states, codes, flow>>
      BY <1>0, <1>4, <2>1 DEF Exists, Goto
    <3> QED
      BY <1>1, <3>1, TracesKept DEF Steps, Unchecked
  <2>2. CASE LoginOf[c] \notin states
    <3>1. /\ Respond(c, 401) /\ flow[LoginOf[c]] = "approved" /\ step[c] = "exists"
          /\ UNCHANGED <<link, states, codes, flow>>
      BY SMT, <1>0, <1>4, <2>2, RefusalCodes DEF Exists, Refuse, Respond
    <3>2. PICK d \in Callbacks : LoginOf[d] = LoginOf[c] /\ step[d] \notin Unchecked
      BY <1>0, <2>2, <3>1 DEF Traces, StateTaken
    <3>3. d # c /\ step[d] # "idle"
      BY <3>1, <3>2 DEF Unchecked
    <3>4. Traces'
      BY <3>1, TracesKept DEF Respond, Steps, Unchecked
    <3> QED
      BY SMT, <1>2, <3>1, <3>2, <3>3, <3>4
  <2> QED
    BY <2>1, <2>2
<1>5. CASE Delete(c)
  <2>1. /\ step' = [step EXCEPT ![c] = "exchange"] /\ flow[LoginOf[c]] = "approved"
        /\ attempt' = [attempt EXCEPT ![c] = 1] /\ step[c] = "delete"
        /\ states' \in {states, states \ {LoginOf[c]}}
        /\ UNCHANGED <<answer, link, codes, flow>>
    BY <1>0, <1>5 DEF Delete, Goto
  <2> QED
    BY <1>1, <2>1, TracesKept DEF Steps, Unchecked
<1>6. CASE ExchangeCode(c)
  <2>0. step[c] = "exchange" /\ flow[LoginOf[c]] = "approved"
        /\ codes' = codes \ {LoginOf[c]} /\ UNCHANGED <<link, states, flow>>
    BY <1>0, <1>6 DEF ExchangeCode
  <2>1. CASE LoginOf[c] \in codes
    <3>1. /\ step' = [step EXCEPT ![c] = "userInfo"]
          /\ attempt' = [attempt EXCEPT ![c] = 1] /\ UNCHANGED answer
      BY <1>6, <2>1 DEF ExchangeCode, Goto
    <3> QED
      BY <1>1, <2>0, <3>1, TracesKept DEF Steps, Unchecked
  <2>2. CASE LoginOf[c] \notin codes
    <3>1. Respond(c, 502)
      BY <1>6, <2>2, RefusalCodes DEF ExchangeCode, Refuse
    <3>2. PICK d \in Callbacks : /\ LoginOf[d] = LoginOf[c]
                                 /\ step[d] \notin Unchecked \cup {"exchange"}
      BY <1>0, <2>0, <2>2 DEF Traces, CodeTaken
    <3>3. d # c /\ step[d] # "idle"
      BY <2>0, <3>2 DEF Unchecked
    <3>4. Traces'
      BY <2>0, <3>1, TracesKept DEF Respond, Steps, Unchecked
    <3> QED
      BY SMT, <1>2, <2>0, <3>1, <3>2, <3>3, <3>4
  <2> QED
    BY <2>1, <2>2
<1>7. CASE ExchangeBodySpent(c)
  BY SMT, <1>0, <1>7 DEF ExchangeBodySpent, Traces, FirstAttempt
<1>8. CASE GetUserInfo(c) \/ Register(c)
  <2>1. PICK s \in {"find", "create"} :
           /\ step' = [step EXCEPT ![c] = s] /\ flow[LoginOf[c]] = "approved"
           /\ attempt' = [attempt EXCEPT ![c] = 1]
           /\ UNCHANGED <<answer, link, states, codes, flow>>
    BY <1>0, <1>8 DEF GetUserInfo, Register, Goto
  <2> QED
    BY <1>1, <2>1, TracesKept DEF Steps, Unchecked
<1>9. CASE FindByProviderUserID(c)
  <2>1. PICK s \in {"role", "register"} :
           /\ step' = [step EXCEPT ![c] = s] /\ flow[LoginOf[c]] = "approved"
           /\ attempt' \in {attempt, [attempt EXCEPT ![c] = 1]}
           /\ UNCHANGED <<answer, link, states, codes, flow>>
    BY <1>0, <1>9 DEF FindByProviderUserID, Identified, Goto
  <2> QED
    BY <1>1, <2>1, TracesKept DEF Steps, Unchecked
<1>10. CASE Create(c)
  <2>0. step[c] = "create" /\ flow[LoginOf[c]] = "approved"
        /\ UNCHANGED <<link, states, codes, flow>>
    BY <1>0, <1>10 DEF Create
  <2>1. CASE link[Account(c)] = NoUser
    <3>1. /\ step' = [step EXCEPT ![c] = "commit"]
          /\ attempt' = [attempt EXCEPT ![c] = 1] /\ UNCHANGED answer
      BY <1>10, <2>1 DEF Create, Goto
    <3> QED
      BY <1>1, <2>0, <3>1, TracesKept DEF Steps, Unchecked
  <2>2. CASE link[Account(c)] # NoUser
    <3>1. Respond(c, 500)
      BY SMT, <1>10, <2>2, RefusalCodes DEF Create, Refuse
    <3>2. role[c] = "none"
      BY <2>0 DEF IndInv, CallInv, Fresh, Before, Steps
    <3>3. role[link[Account(c)]] = "user"
      BY <1>0, <2>2 DEF IndInv, RowInv, LinkedAreUsers
    <3>4. link[Account(c)] \in Callbacks \ {c}
      BY <1>0, <2>2, <3>2, <3>3 DEF LinkedByCallback
    <3>5. Traces'
      BY <2>0, <3>1, TracesKept DEF Respond, Steps, Unchecked
    <3> QED
      BY SMT, <1>2, <2>0, <3>1, <3>4, <3>5
  <2> QED
    BY <2>1, <2>2
<1>11. CASE Commit(c)
  <2>1. /\ step' = [step EXCEPT ![c] = "role"] /\ flow[LoginOf[c]] = "approved"
        /\ link' = [link EXCEPT ![Account(c)] = c] /\ link[Account(c)] = NoUser
        /\ UNCHANGED <<answer, attempt, states, codes, flow>>
    BY <1>0, <1>11 DEF Commit, Committed, Identified, IndInv, CallInv, SoleWriter
  <2>2. Traces'
    BY <2>1, TracesKept DEF Steps, Unchecked
  <2>3. LinkedByCallback'
    BY SMT, <1>0, <2>1 DEF LinkedByCallback
  <2>4. /\ \A d \in Callbacks : step'[d] = "idle" => step[d] = "idle"
        /\ \A a \in Accounts : link[a] # NoUser => link'[a] = link[a]
    BY SMT, <1>0, <2>1
  <2> QED
    BY <2>1, <2>2, <2>3, <2>4, ExcuseLasts
<1>12. CASE Role(c)
  <2>1. role[owner[c]] = "user"
    BY SMT, <1>0, <1>12 DEF Role, IndInv, CallInv, Owned, RowInv, LinkedAreUsers
  <2>2. /\ Respond(c, 200) /\ flow[LoginOf[c]] = "approved"
        /\ UNCHANGED <<link, states, codes, flow>>
    BY <1>0, <1>12, <2>1 DEF Role
  <2>3. Traces'
    BY <2>2, TracesKept DEF Respond, Steps, Unchecked
  <2> QED
    BY <1>2, <2>2, <2>3
<1> QED
  BY <1>3, <1>4, <1>5, <1>6, <1>7, <1>8, <1>9, <1>10, <1>11, <1>12 DEF Handle

(* Every step keeps the traces; a fault ends the calm.                     *)
LEMMA CalmStep == IndInv /\ Calm /\ [Next]_signInVars => Calm'
<1> SUFFICES ASSUME IndInv, Calm, [Next]_signInVars, faults' = MaxFaults
             PROVE  Traces' /\ LinkedByCallback' /\ \A c \in Callbacks : Excused(c)'
  BY DEF Calm
<1>1. ~Fault
  BY SMT, SignInAssumption DEF Fault, IndInv, EnvTypes
<1>2. UNCHANGED faults
  <2>1. \/ UNCHANGED signInVars
        \/ \E l \in Logins : GenerateAuthURL(l) \/ Approve(l)
        \/ \E c \in Callbacks : HandleOauthCallback(c) \/ Handle(c)
        \/ \E a \in Admins : CreateAdmin(a)
        \/ \E u \in Users : AdminAuthLogin(u)
        \/ \E t \in D!Tokens : \/ TokenExpires(t)
                               \/ \E u \in Users, new \in D!Tiers : UpdateUserTier(t, u, new)
    BY <1>1 DEF Next, Disturb, StateExpires, ExchangeCodeLost, GetUserInfoLost, CommitLost, Fails
  <2>2. ASSUME NEW c \in Callbacks, HandleOauthCallback(c) \/ Handle(c)
        PROVE  UNCHANGED faults
    BY <1>1, <2>2 DEF HandleOauthCallback, Handle, Exists, Delete, ExchangeCode,
       ExchangeBodySpent, GetUserInfo, FindByProviderUserID, Register, Create, Commit, Role
  <2> QED
    BY <2>1, <2>2 DEF signInVars, GenerateAuthURL, Approve, CreateAdmin, AdminAuthLogin,
                      TokenExpires, UpdateUserTier
<1>3. Traces /\ LinkedByCallback /\ \A c \in Callbacks : Excused(c)
  BY <1>2 DEF Calm
<1>4. ASSUME UNCHANGED callVars, UNCHANGED link
      PROVE  LinkedByCallback' /\ \A c \in Callbacks : Excused(c)'
  BY SMT, <1>3, <1>4 DEF LinkedByCallback, Excused, Account, callVars
<1>5. ASSUME UNCHANGED callVars, UNCHANGED <<states, codes, flow>>
      PROVE  Traces'
  BY <1>3, <1>5 DEF Traces, StateTaken, CodeTaken, Started, FirstAttempt, callVars
<1>6. ASSUME NEW l \in Logins, GenerateAuthURL(l) \/ Approve(l)
      PROVE  Traces'
  <2>1. /\ flow \in [Logins -> {"new", "sent", "approved"}]
        /\ step \in [Callbacks -> Steps] /\ LoginOf \in [Callbacks -> Logins]
    BY SignInAssumption DEF IndInv, EnvTypes, CallInv, CallTypes
  <2>2. StateTaken'
    BY <1>3, <1>6, <2>1 DEF Traces, StateTaken, GenerateAuthURL, Approve, callVars
  <2>3. CodeTaken'
    BY SMT, <1>3, <1>6, <2>1 DEF Traces, CodeTaken, GenerateAuthURL, Approve, callVars
  <2>4. Started' /\ FirstAttempt'
    BY <1>3, <1>6, <2>1 DEF Traces, Started, FirstAttempt, GenerateAuthURL, Approve, callVars
  <2> QED
    BY <2>2, <2>3, <2>4 DEF Traces
<1>7. \/ \E c \in Callbacks : HandleOauthCallback(c) \/ Handle(c)
      \/ UNCHANGED callVars /\ UNCHANGED link
    BY <1>1 DEF Next, Disturb, StateExpires, ExchangeCodeLost, GetUserInfoLost, CommitLost, Fails,
                signInVars, GenerateAuthURL, Approve, CreateAdmin, SetUserAsAdmin, AdminAuthLogin,
                TokenExpires, UpdateUserTier
<1>8. \/ \E c \in Callbacks : HandleOauthCallback(c) \/ Handle(c)
      \/ \E l \in Logins : GenerateAuthURL(l) \/ Approve(l)
      \/ UNCHANGED <<states, codes, flow>>
    BY <1>1 DEF Next, Disturb, StateExpires, ExchangeCodeLost, GetUserInfoLost, CommitLost, Fails,
                signInVars, CreateAdmin, SetUserAsAdmin, AdminAuthLogin, TokenExpires,
                UpdateUserTier
<1>9. ASSUME NEW c \in Callbacks, HandleOauthCallback(c) \/ Handle(c)
      PROVE  Traces' /\ LinkedByCallback' /\ \A d \in Callbacks : Excused(d)'
  BY <1>2, <1>3, <1>9, CalmCallback
<1> QED
  BY <1>4, <1>5, <1>6, <1>7, <1>8, <1>9

(* Without a fault, whoever is refused has a double: another callback took *)
(* the state or the code of the same login first, or linked the account.   *)
THEOREM OnlyDuplicatesFailAlways == Spec => []OnlyDuplicatesFail
<1>1. Init => Calm
  BY SMT DEF Init, Calm, Traces, StateTaken, CodeTaken, Started, FirstAttempt, LinkedByCallback,
         Excused, D!DirectoryInit
<1>2. Calm => OnlyDuplicatesFail
  BY DEF Calm, Excused, OnlyDuplicatesFail
<1> QED
  BY <1>1, <1>2, CalmStep, Invariance, PTL DEF Spec

(* A step of sign-in is a step of the directory or leaves its rows alone.  *)
LEMMA StepRefines ==
  ASSUME IndInv, Next
  PROVE  D!DirectoryNext \/ UNCHANGED D!directoryVars
<1> USE DEF D!directoryVars
<1>1. ASSUME NEW l \in Logins, GenerateAuthURL(l) \/ Approve(l) \/ StateExpires(l)
      PROVE  UNCHANGED D!directoryVars
  BY <1>1 DEF GenerateAuthURL, Approve, StateExpires
<1>2. ASSUME NEW c \in Callbacks, Commit(c) \/ CommitLost(c)
      PROVE  D!DirectoryNext
  <2>1. /\ Account(c) \in Accounts /\ c \in Users
        /\ role[c] = "none" /\ link[Account(c)] = NoUser
    BY <1>2, AccountType
       DEF Commit, CommitLost, IndInv, CallInv, Fresh, SoleWriter, Before, Steps, Users
  <2>2. D!Join(Account(c), c)
    BY <1>2, <2>1 DEF Commit, CommitLost, Committed, D!Join
  <2> QED
    BY <2>1, <2>2 DEF D!DirectoryNext
<1>3. ASSUME NEW c \in Callbacks, Role(c)
      PROVE  D!DirectoryNext
  <2>1. owner[c] \in Users /\ role[owner[c]] = "user"
    BY SMT, <1>3, AccountType DEF Role, IndInv, CallInv, CallTypes, Owned, RowInv, LinkedAreUsers
  <2>2. D!Issue(owner[c])
    BY <1>3, <2>1 DEF Role, Generate, D!Issue
  <2> QED
    BY <2>1, <2>2 DEF D!DirectoryNext
<1>4. ASSUME NEW c \in Callbacks,
             \/ HandleOauthCallback(c) \/ Exists(c) \/ Delete(c) \/ ExchangeCode(c)
             \/ ExchangeBodySpent(c) \/ GetUserInfo(c) \/ FindByProviderUserID(c)
             \/ Register(c) \/ Create(c)
             \/ ExchangeCodeLost(c) \/ GetUserInfoLost(c) \/ Fails(c)
      PROVE  UNCHANGED D!directoryVars
  BY <1>4 DEF HandleOauthCallback, Exists, Delete, ExchangeCode, ExchangeBodySpent, GetUserInfo,
              FindByProviderUserID, Register, Create, ExchangeCodeLost, GetUserInfoLost, Fails
<1>5. ASSUME NEW a \in Admins, CreateAdmin(a)
      PROVE  D!DirectoryNext
  <2>1. a \in Users /\ D!Appoint(a)
    BY <1>5 DEF CreateAdmin, SetUserAsAdmin, D!Appoint, Users
  <2> QED
    BY <2>1 DEF D!DirectoryNext
<1>6. ASSUME NEW u \in Users, AdminAuthLogin(u)
      PROVE  D!DirectoryNext
  <2>1. D!Issue(u)
    BY <1>6 DEF AdminAuthLogin, IsUserAdmin, Generate, D!Issue
  <2> QED
    BY <2>1 DEF D!DirectoryNext
<1>7. ASSUME NEW t \in D!Tokens, TokenExpires(t)
      PROVE  D!DirectoryNext
  <2>1. D!Expire(t)
    BY <1>7 DEF TokenExpires, D!Expire
  <2> QED
    BY <2>1 DEF D!DirectoryNext
<1>8. ASSUME NEW t \in D!Tokens, NEW u \in Users, NEW new \in D!Tiers, UpdateUserTier(t, u, new)
      PROVE  D!DirectoryNext
  <2>1. t.user \in Users /\ role[t.user] = "admin"
    BY <1>8 DEF UpdateUserTier, MayAdminister, IndInv, RowInv, TokenRoleIsCurrent, D!Tokens
  <2>2. D!ChangeTier(u, new)
    BY <1>8, <2>1 DEF UpdateUserTier, D!ChangeTier
  <2> QED
    BY <2>2 DEF D!DirectoryNext
<1> QED
  BY <1>1, <1>2, <1>3, <1>4, <1>5, <1>6, <1>7, <1>8 DEF Next, Handle, Disturb

(* Sign-in and administration implement the directory: a first sign-in     *)
(* shows as one Join, whether or not its caller hears of the commit, and   *)
(* everything before the commit is invisible.                              *)
THEOREM SignInRefinesDirectory == Spec => ImplementsDirectory
<1>1. Init => D!DirectoryInit
  BY DEF Init
<1>2. IndInv /\ [Next]_signInVars => [D!DirectoryNext]_(D!directoryVars)
  <2> SUFFICES ASSUME IndInv, [Next]_signInVars
               PROVE  D!DirectoryNext \/ UNCHANGED D!directoryVars
    OBVIOUS
  <2>1. CASE UNCHANGED signInVars
    BY <2>1 DEF signInVars, D!directoryVars
  <2> QED
    BY <2>1, StepRefines
<1> QED
  BY <1>1, <1>2, Invariance, PTL DEF Spec, ImplementsDirectory, D!DirectorySpec
=============================================================================
