------------------------------- MODULE SignIn -------------------------------
(***************************************************************************)
(* Sign-in through GitHub and the administrators' endpoints: the auth      *)
(* module's use cases, their stores, the GitHub client with its retries,   *)
(* the unit of work around the first sign-in, the user module's role and   *)
(* tier rows, and the tokens.  Callbacks of one process or of several run  *)
(* concurrently; each step is one call to Redis, GitHub or PostgreSQL.     *)
(*                                                                         *)
(* A login is one visit to /login/github: it stands for the state and for  *)
(* the code that GitHub sends back with it.  A browser may load the        *)
(* callback URL of one login more than once.  The user that a callback     *)
(* registers has a fresh UUID, so it is named after the callback.          *)
(***************************************************************************)
EXTENDS Naturals

CONSTANTS Accounts, Logins, Callbacks, Admins, NoUser,
          AccountOf,       \* the GitHub account that approves each login
          LoginOf,         \* the login whose URL each callback loads
          MaxExchanges,    \* attempts of ExchangeCode: MaxRetries + 1
          MaxReads,        \* attempts of GetUserInfo: retry_count + 1
          MaxFaults        \* bound on lost calls, errors and expiries

Users == Callbacks \cup Admins

ASSUME SignInAssumption ==
    /\ NoUser \notin Users /\ Callbacks \cap Admins = {}
    /\ AccountOf \in [Logins -> Accounts] /\ LoginOf \in [Callbacks -> Logins]
    /\ MaxExchanges \in Nat \ {0} /\ MaxReads \in Nat \ {0} /\ MaxFaults \in Nat

VARIABLES states,    \* logins whose state parameter is in Redis
          flow,      \* how far each login has come: "new", "sent", "approved"
          codes,     \* logins whose code GitHub will still accept
          step,      \* the next call of each callback
          attempt,   \* attempt of that call in doWithRetry
          owner,     \* the user a callback has identified
          answer,    \* status code of its response, 0 before
          role, tier, link, tokens,
          faults     \* faults left

callVars == <<step, attempt, owner, answer>>
signInVars == <<states, flow, codes, callVars, role, tier, link, tokens, faults>>

D == INSTANCE Directory

Account(c) == AccountOf[LoginOf[c]]
Steps == {"idle", "exists", "delete", "exchange", "userInfo", "find",
          "register", "create", "commit", "role", "done"}

TypeOK == /\ states \subseteq Logins /\ codes \subseteq Logins
          /\ flow \in [Logins -> {"new", "sent", "approved"}]
          /\ step \in [Callbacks -> Steps]
          /\ attempt \in [Callbacks -> Nat \ {0}]
          /\ \A c \in Callbacks : /\ step[c] = "exchange" => attempt[c] <= MaxExchanges
                                  /\ step[c] = "userInfo" => attempt[c] <= MaxReads
          /\ owner \in [Callbacks -> Users \cup {NoUser}]
          /\ answer \in [Callbacks -> {0, 200, 401, 500, 502}]
          /\ role \in [Users -> D!Roles \cup {"none"}]
          /\ tier \in [Users -> D!Tiers]
          /\ link \in [Accounts -> Users \cup {NoUser}]
          /\ tokens \subseteq D!Tokens
          /\ faults \in 0..MaxFaults

Init == /\ states = {} /\ codes = {}
        /\ flow = [l \in Logins |-> "new"]
        /\ step = [c \in Callbacks |-> "idle"]
        /\ attempt = [c \in Callbacks |-> 1]
        /\ owner = [c \in Callbacks |-> NoUser]
        /\ answer = [c \in Callbacks |-> 0]
        /\ D!DirectoryInit
        /\ faults = MaxFaults

Fault == faults > 0 /\ faults' = faults - 1

Goto(c, s) == /\ step' = [step EXCEPT ![c] = s]
              /\ attempt' = [attempt EXCEPT ![c] = 1]
              /\ UNCHANGED <<owner, answer>>

Respond(c, code) == /\ step' = [step EXCEPT ![c] = "done"]
                    /\ answer' = [answer EXCEPT ![c] = code]
                    /\ UNCHANGED <<attempt, owner>>

Identified(c, u) == /\ step' = [step EXCEPT ![c] = "role"]
                    /\ owner' = [owner EXCEPT ![c] = u]
                    /\ UNCHANGED <<attempt, answer>>

(* The code that HandleCallback, or the user module below it, gives to the *)
(* error of a call.                                                        *)
Codes == [exists |-> "OAUTH_STATE_PARAM_NOT_FOUND",
          exchange |-> "OAUTH_TOKEN_EXCHANGE_FAILED",
          userInfo |-> "OAUTH_USER_INFO_FAILED",
          find |-> "DB_QUERY_FAILED", create |-> "DB_QUERY_FAILED",
          commit |-> "DB_QUERY_FAILED",
          register |-> "USER_REGISTRATION_FAILED",
          role |-> "USER_ROLE_FETCH_FAILED"]

AuthErrCodeRegistry == [OAUTH_STATE_PARAM_NOT_FOUND |-> 401,
                        OAUTH_TOKEN_EXCHANGE_FAILED |-> 502,
                        OAUTH_USER_INFO_FAILED |-> 502,
                        DB_QUERY_FAILED |-> 500]

(* A code that is not in the registry becomes an internal error.           *)
ResolveError(code) == IF code \in DOMAIN AuthErrCodeRegistry
                        THEN AuthErrCodeRegistry[code] ELSE 500

(* EnsureAppError in HandleCallback, then ErrorHandler.                    *)
Refuse(c, s) == Respond(c, ResolveError(Codes[s]))

(***************************************************************************)
(* The login.                                                              *)
(***************************************************************************)
GenerateAuthURL(l) == /\ flow[l] = "new"
                      /\ flow' = [flow EXCEPT ![l] = "sent"]
                      /\ states' = states \cup {l}
                      /\ UNCHANGED <<codes, callVars, role, tier, link, tokens, faults>>

(* GitHub shows its consent page and redirects with a code.                *)
Approve(l) == /\ flow[l] = "sent"
              /\ flow' = [flow EXCEPT ![l] = "approved"]
              /\ codes' = codes \cup {l}
              /\ UNCHANGED <<states, callVars, role, tier, link, tokens, faults>>

(* The five minutes of the state parameter pass.                           *)
StateExpires(l) == /\ l \in states /\ Fault
                   /\ states' = states \ {l}
                   /\ UNCHANGED <<flow, codes, callVars, role, tier, link, tokens>>

HandleOauthCallback(c) == /\ step[c] = "idle" /\ flow[LoginOf[c]] = "approved"
                          /\ Goto(c, "exists")
                          /\ UNCHANGED <<states, flow, codes, role, tier, link, tokens, faults>>

Exists(c) == /\ step[c] = "exists"
             /\ IF LoginOf[c] \in states
                  THEN Goto(c, "delete")
                  ELSE Refuse(c, "exists")
             /\ UNCHANGED <<states, flow, codes, role, tier, link, tokens, faults>>

(* A failed Delete is logged and the callback goes on.                     *)
DeleteThenCheck(c) == /\ step[c] = "delete"
                      /\ states' = states \ {LoginOf[c]} /\ UNCHANGED faults
                      /\ Goto(c, "exists")
                      /\ UNCHANGED <<flow, codes, role, tier, link, tokens>>

Delete(c) == /\ step[c] = "delete"
             /\ \/ states' = states \ {LoginOf[c]} /\ UNCHANGED faults
                \/ Fault /\ UNCHANGED states
             /\ Goto(c, "exchange")
             /\ UNCHANGED <<flow, codes, role, tier, link, tokens>>

(***************************************************************************)
(* The GitHub client.                                                      *)
(***************************************************************************)
(* doWithRetry after a transient failure: another attempt, or the error.   *)
TryAgain(c, max) == IF attempt[c] < max
                      THEN /\ attempt' = [attempt EXCEPT ![c] = @ + 1]
                           /\ UNCHANGED <<step, owner, answer>>
                      ELSE Refuse(c, step[c])

(* GitHub takes a code once; an error in its answer is not retried.        *)
ExchangeCode(c) == /\ step[c] = "exchange"
                   /\ IF LoginOf[c] \in codes
                        THEN Goto(c, "userInfo")
                        ELSE Refuse(c, "exchange")
                   /\ codes' = codes \ {LoginOf[c]}
                   /\ UNCHANGED <<states, flow, role, tier, link, tokens, faults>>

(* A timeout, a network error or a 503, before GitHub took the code or     *)
(* after it.                                                               *)
ExchangeCodeLost(c) == /\ step[c] = "exchange" /\ Fault
                       /\ codes' \in {codes, codes \ {LoginOf[c]}}
                       /\ TryAgain(c, MaxExchanges)
                       /\ UNCHANGED <<states, flow, role, tier, link, tokens>>

(* The retry sends the same http.Request.  Its body has been read, and     *)
(* net/http restores it only where it finds that nothing was written on a  *)
(* reused connection; otherwise the second attempt fails.                  *)
ExchangeBodySpent(c) == /\ step[c] = "exchange" /\ attempt[c] > 1
                        /\ Refuse(c, "exchange")
                        /\ UNCHANGED <<states, flow, codes, role, tier, link, tokens, faults>>

GetUserInfo(c) == /\ step[c] = "userInfo"
                  /\ Goto(c, "find")
                  /\ UNCHANGED <<states, flow, codes, role, tier, link, tokens, faults>>

GetUserInfoLost(c) == /\ step[c] = "userInfo" /\ Fault
                      /\ TryAgain(c, MaxReads)
                      /\ UNCHANGED <<states, flow, codes, role, tier, link, tokens>>

(***************************************************************************)
(* The user and the link, in one transaction.                              *)
(***************************************************************************)
FindNothing(c) == /\ step[c] = "find"
                  /\ Goto(c, "register")
                  /\ UNCHANGED <<states, flow, codes, role, tier, link, tokens, faults>>

FindByProviderUserID(c) == /\ step[c] = "find"
                           /\ IF link[Account(c)] # NoUser
                                THEN Identified(c, link[Account(c)])
                                ELSE Goto(c, "register")
                           /\ UNCHANGED <<states, flow, codes, role, tier, link, tokens, faults>>

(* Begin and Register: the row is the transaction's own until it commits.  *)
RegisterOutsideTx(c) == /\ step[c] = "register"
                        /\ role' = [role EXCEPT ![c] = "user"]
                        /\ Goto(c, "create")
                        /\ UNCHANGED <<states, flow, codes, tier, link, tokens, faults>>

Register(c) == /\ step[c] = "register"
               /\ Goto(c, "create")
               /\ UNCHANGED <<states, flow, codes, role, tier, link, tokens, faults>>

(* The INSERT of a link waits while another transaction has inserted one   *)
(* for the account, and is refused once that one is committed: UNIQUE      *)
(* (provider, provider_user_id).  The deferred Rollback drops the user.    *)
CreateUnchecked(c) == /\ step[c] = "create"
                      /\ Goto(c, "commit")
                      /\ UNCHANGED <<states, flow, codes, role, tier, link, tokens, faults>>

CreateLockedEarly(c) ==
    /\ step[c] = "create"
    /\ \A d \in Callbacks \ {c} : step[d] \in {"create", "commit"} => Account(d) # Account(c)
    /\ Goto(c, "commit")
    /\ UNCHANGED <<states, flow, codes, role, tier, link, tokens, faults>>

Create(c) == /\ step[c] = "create"
             /\ \A d \in Callbacks : step[d] = "commit" => Account(d) # Account(c)
             /\ IF link[Account(c)] # NoUser
                  THEN Refuse(c, "create")
                  ELSE Goto(c, "commit")
             /\ UNCHANGED <<states, flow, codes, role, tier, link, tokens, faults>>

Committed(c) == /\ role' = [role EXCEPT ![c] = "user"]
                /\ tier' = [tier EXCEPT ![c] = "free"]
                /\ link' = [link EXCEPT ![Account(c)] = c]

Commit(c) == /\ step[c] = "commit"
             /\ Committed(c)
             /\ Identified(c, c)
             /\ UNCHANGED <<states, flow, codes, tokens, faults>>

(* The transaction is committed, and the answer to COMMIT is lost.         *)
CommitLost(c) == /\ step[c] = "commit" /\ Fault
                 /\ Committed(c)
                 /\ Refuse(c, "commit")
                 /\ UNCHANGED <<states, flow, codes, tokens>>

(* A token carries the user and the role that it is generated with.        *)
Generate(u, r) == tokens' = tokens \cup {D!Token(u, r)}

(* Role, generateAuthResponse and the response.                            *)
Role(c) == /\ step[c] = "role"
           /\ IF role[owner[c]] = "none"
                THEN Refuse(c, "role") /\ UNCHANGED tokens
                ELSE /\ Generate(owner[c], role[owner[c]])
                     /\ Respond(c, 200)
           /\ UNCHANGED <<states, flow, codes, role, tier, link, faults>>

(* Any other call fails, or the route's 20 seconds are over.  A            *)
(* transaction under way is rolled back.                                   *)
Fails(c) == /\ step[c] \notin {"idle", "delete", "done"} /\ Fault
            /\ Refuse(c, step[c])
            /\ UNCHANGED <<states, flow, codes, role, tier, link, tokens>>

(***************************************************************************)
(* Administrators, and what a token allows.                                *)
(***************************************************************************)
(* SetUserAsAdmin is an upsert, for a UUID that CreateAdmin has just made. *)
SetUserAsAdmin(u) == /\ role' = [role EXCEPT ![u] = "admin"]
                     /\ tier' = [tier EXCEPT ![u] = "premium"]

CreateAdmin(a) == /\ role[a] = "none"
                  /\ SetUserAsAdmin(a)
                  /\ UNCHANGED <<states, flow, codes, callVars, link, tokens, faults>>

AdminLoginUnchecked(u) == /\ role[u] # "none"
                          /\ Generate(u, "admin")
                          /\ UNCHANGED <<states, flow, codes, callVars, role, tier, link, faults>>

IsUserAdmin(u) == role[u] = "admin"

AdminAuthLogin(u) == /\ IsUserAdmin(u)
                     /\ Generate(u, "admin")
                     /\ UNCHANGED <<states, flow, codes, callVars, role, tier, link, faults>>

(* AdminAuthMiddleware trusts the role in the token.                       *)
MayAdminister(t) == t.role = "admin"

UpdateUserTier(t, u, new) == /\ t \in tokens /\ MayAdminister(t)
                             /\ role[u] # "none"
                             /\ tier' = [tier EXCEPT ![u] = new]
                             /\ UNCHANGED <<states, flow, codes, callVars, role, link,
                                            tokens, faults>>

TokenExpires(t) == /\ t \in tokens
                   /\ tokens' = tokens \ {t}
                   /\ UNCHANGED <<states, flow, codes, callVars, role, tier, link, faults>>

Handle(c) == \/ Exists(c) \/ Delete(c) \/ ExchangeCode(c) \/ ExchangeBodySpent(c)
             \/ GetUserInfo(c) \/ FindByProviderUserID(c) \/ Register(c) \/ Create(c)
             \/ Commit(c) \/ Role(c)

Disturb(c) == ExchangeCodeLost(c) \/ GetUserInfoLost(c) \/ CommitLost(c) \/ Fails(c)

Next == \/ \E l \in Logins : GenerateAuthURL(l) \/ Approve(l) \/ StateExpires(l)
        \/ \E c \in Callbacks : HandleOauthCallback(c) \/ Handle(c) \/ Disturb(c)
        \/ \E a \in Admins : CreateAdmin(a)
        \/ \E u \in Users : AdminAuthLogin(u)
        \/ \E t \in D!Tokens : \/ TokenExpires(t)
                               \/ \E u \in Users, new \in D!Tiers : UpdateUserTier(t, u, new)

Spec == Init /\ [][Next]_signInVars

(* A handler that has started runs on, and Redis, GitHub and PostgreSQL    *)
(* answer it.  Nobody has to visit, to approve or to administer.           *)
FairSpec == Spec /\ \A c \in Callbacks : WF_signInVars(Handle(c))

-----------------------------------------------------------------------------
(* However callbacks and lost commits interleave, the users that are not   *)
(* administrators are exactly the linked ones, each linked to one GitHub   *)
(* account: createNewUserAndLinkOAuth leaves no user without a link and    *)
(* no account with two users.                                              *)
OneUserPerAccount ==
    /\ \A a \in Accounts : link[a] # NoUser => role[link[a]] = "user"
    /\ \A u \in Users : role[u] = "user" =>
           \E a \in Accounts : {b \in Accounts : link[b] = u} = {a}

(* The role in a token, which the middlewares trust until it expires and   *)
(* never look up again, is the role in the user's row.                     *)
TokenRoleIsCurrent == \A t \in tokens : role[t.user] = t.role

(* A callback that is answered 200 has the token of the user linked to the *)
(* GitHub account that approved its login.                                 *)
SignedInAsOwner ==
    \A c \in Callbacks : answer[c] = 200 => owner[c] = link[Account(c)]

(* Where nothing fails and no state expires, HandleCallback refuses a      *)
(* callback only because of another one: for the same login when its state *)
(* or its code is gone (401, 502), or for the same account when the insert *)
(* of the link is refused (500).                                           *)
OnlyDuplicatesFail == faults = MaxFaults =>
    \A c \in Callbacks :
        /\ answer[c] \in {401, 502} =>
               \E d \in Callbacks \ {c} : LoginOf[d] = LoginOf[c] /\ step[d] # "idle"
        /\ answer[c] = 500 => link[Account(c)] \in Callbacks \ {c}

(* Every callback is answered: no two transactions wait for each other's   *)
(* row and no retry goes on for ever.                                      *)
EveryCallbackAnswered ==
    \A c \in Callbacks : (step[c] = "exists") ~> (step[c] = "done")

(* Whoever has an account gets in with a fresh login, whatever became of   *)
(* the earlier callbacks, unless a further fault hits: also after a first  *)
(* sign-in whose commit or whose token was lost.                           *)
Returning(c) == /\ step[c] = "exists" /\ link[Account(c)] # NoUser
                /\ LoginOf[c] \in states \cap codes /\ faults = 0
                /\ \A d \in Callbacks \ {c} : LoginOf[d] # LoginOf[c]

ReturningGetsIn == \A c \in Callbacks : Returning(c) ~> (answer[c] = 200)

(* Sign-in and administration implement the directory of accounts: what    *)
(* the transaction writes appears in one step, and nothing else changes    *)
(* the rows.                                                               *)
ImplementsDirectory == D!DirectorySpec
=============================================================================
