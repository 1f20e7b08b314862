------------------------------ MODULE Admission ------------------------------
(***************************************************************************)
(* Admission of one user's requests: the tier from the read-through cache  *)
(* in front of PostgreSQL, the model and token policies, and the token     *)
(* bucket of that tier in Redis, while an administrator changes the tier.  *)
(* Every call to Redis or PostgreSQL is a step.                            *)
(*                                                                         *)
(* Time is counted in ticks in which every fill rate is a whole number.    *)
(* A key with a TTL exists until the clock reaches its deadline.           *)
(*                                                                         *)
(* Definitions that no action uses are mutants: what the definition after  *)
(* them would be with a mistake in it.                                     *)
(***************************************************************************)
EXTENDS Integers

CONSTANTS Tiers, NoTier,
          Capacity, FillRate, BucketTTL,           \* per tier: rate_limit
          MaxInput, MaxOutput, ContextLength,      \* per tier: user_tiers
          CacheTTL,
          Requests,
          Runes,           \* length of each request's prompt
          ModelTiers,      \* the tiers that allow the request's model
          MaxLag,          \* time limit of a request
          Openings,        \* moments from which on tokens are counted
          MaxTime, MaxUpdates, MaxErrors           \* bounds of the model

ASSUME LimitsAssumption ==
    /\ NoTier \notin Tiers
    /\ Capacity \in [Tiers -> Nat] /\ FillRate \in [Tiers -> Nat]
    /\ BucketTTL \in [Tiers -> Nat \ {0}] /\ CacheTTL \in Nat \ {0}
    /\ MaxInput \in [Tiers -> Nat] /\ MaxOutput \in [Tiers -> Nat]
    /\ ContextLength \in [Tiers -> Nat]
    /\ Runes \in [Requests -> Nat] /\ ModelTiers \in [Requests -> SUBSET Tiers]
    /\ MaxLag \in Nat /\ Openings \subseteq Nat /\ MaxTime \in Nat
    /\ MaxUpdates \in Nat /\ MaxErrors \in Nat

(* A bucket is forgotten only after it would have been full again.         *)
ASSUME TTLAssumption ==
    \A t \in Tiers : FillRate[t] * (BucketTTL[t] - MaxLag) >= Capacity[t]

VARIABLES clock,
          row,               \* users.tier
          updating,          \* the tier is changed, the cache not invalidated
          cache, cacheUntil, \* cached tier and its deadline
          stage, tier,       \* of each request: where it is, its tier,
          began, stamp,      \* when it began, the time it gives the script
          answer,
          tokens, last, until,  \* of each bucket, with its deadline
          opened,            \* history: from when on tokens are counted
          spent, slipped,    \* history: tokens granted, time set back since
          seen,              \* history: when the row last held each tier
          updates, errors    \* changes and faults still to come

tierVars == <<row, updating, cache, cacheUntil, seen, updates>>
requestVars == <<stage, tier, began, stamp, answer>>
bucketVars == <<tokens, last, until, opened, spent, slipped>>
vars == <<clock, tierVars, requestVars, bucketVars, errors>>

Stages == {"idle", "select", "fill", "policy", "limit", "done"}

Answers == {"none", "admitted", "model", "input", "context", "too_costly",
            "rate_limited", "error"}

TypeOK == /\ clock \in Nat
          /\ row \in Tiers /\ updating \in BOOLEAN
          /\ cache \in Tiers \cup {NoTier} /\ cacheUntil \in Nat
          /\ stage \in [Requests -> Stages]
          /\ tier \in [Requests -> Tiers \cup {NoTier}]
          /\ began \in [Requests -> Nat] /\ stamp \in [Requests -> Nat]
          /\ answer \in [Requests -> Answers]
          /\ \A t \in Tiers : tokens[t] \in 0..Capacity[t]
          /\ tokens \in [Tiers -> Int] /\ last \in [Tiers -> Nat]
          /\ until \in [Tiers -> Nat]
          /\ opened \in Nat
          /\ spent \in [Tiers -> Nat] /\ slipped \in [Tiers -> Nat]
          /\ seen \in [Tiers -> Int]
          /\ updates \in Nat /\ errors \in Nat

Init == /\ clock = 0
        /\ row \in Tiers /\ updating = FALSE
        /\ cache = NoTier /\ cacheUntil = 0
        /\ stage = [r \in Requests |-> "idle"]
        /\ tier = [r \in Requests |-> NoTier]
        /\ began = [r \in Requests |-> 0] /\ stamp = [r \in Requests |-> 0]
        /\ answer = [r \in Requests |-> "none"]
        /\ tokens = [t \in Tiers |-> 0] /\ last = [t \in Tiers |-> 0]
        /\ until = [t \in Tiers |-> 0]
        /\ opened \in Openings
        /\ spent = [t \in Tiers |-> 0] /\ slipped = [t \in Tiers |-> 0]
        /\ seen = [t \in Tiers |-> 0]
        /\ updates = MaxUpdates /\ errors = MaxErrors
-----------------------------------------------------------------------------
(* The tier.  UpdateUserTier writes the row and then deletes the cached    *)
(* tier; a failure to delete is logged.                                    *)
UpdateRow(t) == /\ updates > 0 /\ ~updating
                /\ row' = t /\ updating' = TRUE /\ updates' = updates - 1
                /\ seen' = [seen EXCEPT ![row] = clock, ![t] = clock]
                /\ UNCHANGED <<clock, cache, cacheUntil, requestVars, bucketVars,
                               errors>>

Invalidate == /\ updating /\ updating' = FALSE
              /\ \/ cache' = NoTier /\ cacheUntil' = 0 /\ UNCHANGED errors
                 \/ /\ errors > 0 /\ errors' = errors - 1
                    /\ UNCHANGED <<cache, cacheUntil>>
              /\ UNCHANGED <<clock, row, seen, updates, requestVars,
                             bucketVars>>

Goto(r, s) == stage' = [stage EXCEPT ![r] = s]

(* The request is over, and its local variables are gone.                  *)
Finish(r, a) == /\ Goto(r, "done") /\ answer' = [answer EXCEPT ![r] = a]
                /\ tier' = [tier EXCEPT ![r] = NoTier]
                /\ began' = [began EXCEPT ![r] = 0]
                /\ stamp' = [stamp EXCEPT ![r] = 0]

Cached == cacheUntil > clock

(* Tier, the look into the cache; an error counts as a miss.               *)
TierHitRenews(r) ==
    /\ stage[r] = "idle"
    /\ began' = [began EXCEPT ![r] = clock]
    /\ IF Cached
         THEN /\ Goto(r, "policy") /\ tier' = [tier EXCEPT ![r] = cache]
              /\ cacheUntil' = clock + CacheTTL
         ELSE Goto(r, "select") /\ UNCHANGED <<tier, cacheUntil>>
    /\ UNCHANGED <<clock, row, updating, cache, seen, updates, stamp, answer,
                   bucketVars, errors>>

TierFromCache(r) ==
    /\ stage[r] = "idle"
    /\ began' = [began EXCEPT ![r] = clock]
    /\ \/ /\ Cached
          /\ Goto(r, "policy") /\ tier' = [tier EXCEPT ![r] = cache]
          /\ UNCHANGED errors
       \/ /\ ~Cached
          /\ Goto(r, "select") /\ UNCHANGED <<tier, errors>>
       \/ /\ Cached /\ errors > 0 /\ errors' = errors - 1
          /\ Goto(r, "select") /\ UNCHANGED tier
    /\ UNCHANGED <<clock, tierVars, stamp, answer, bucketVars>>

(* FindByID; an error refuses the request.                                 *)
TierFromRow(r) ==
    /\ stage[r] = "select"
    /\ \/ /\ Goto(r, "fill") /\ tier' = [tier EXCEPT ![r] = row]
          /\ UNCHANGED <<began, stamp, answer, errors>>
       \/ /\ errors > 0 /\ errors' = errors - 1
          /\ Finish(r, "error")
    /\ UNCHANGED <<clock, tierVars, bucketVars>>

(* Set; an error is logged.                                                *)
CacheTier(r) ==
    /\ stage[r] = "fill"
    /\ Goto(r, "policy")
    /\ \/ cache' = tier[r] /\ cacheUntil' = clock + CacheTTL /\ UNCHANGED errors
       \/ errors > 0 /\ errors' = errors - 1 /\ UNCHANGED <<cache, cacheUntil>>
    /\ UNCHANGED <<clock, row, updating, seen, updates, tier, began, stamp,
                   answer, bucketVars>>
-----------------------------------------------------------------------------
(* The policies, in their order.                                           *)
Estimated(r) == Runes[r] \div 4

ModelAccess(r, t) == t \in ModelTiers[r]

(* A model without a context length has one that no request reaches.       *)
TokenLimit(r, t) ==
    IF Estimated(r) > MaxInput[t] THEN "input"
    ELSE IF Estimated(r) + MaxOutput[t] > ContextLength[t] THEN "context"
    ELSE "none"

Refusal(r, t) == IF ModelAccess(r, t) THEN TokenLimit(r, t) ELSE "model"

(* The policies decide, and Allow takes the time.                          *)
Evaluate(r) ==
    /\ stage[r] = "policy"
    /\ IF Refusal(r, tier[r]) # "none"
         THEN Finish(r, Refusal(r, tier[r]))
         ELSE /\ Goto(r, "limit") /\ stamp' = [stamp EXCEPT ![r] = clock]
              /\ UNCHANGED <<tier, began, answer>>
    /\ UNCHANGED <<clock, tierVars, bucketVars, errors>>

Cost(r) == Estimated(r) + MaxOutput[tier[r]]

Kept(t) == until[t] > clock

Lesser(a, b) == IF a <= b THEN a ELSE b

Elapsed(t, n) == IF n > last[t] THEN n - last[t] ELSE 0

(* The balance of bucket t for a script that is given time n.              *)
BalanceUncapped(t, n) ==
    IF Kept(t) THEN tokens[t] + FillRate[t] * Elapsed(t, n) ELSE Capacity[t]

Balance(t, n) ==
    IF Kept(t) THEN Lesser(Capacity[t], tokens[t] + FillRate[t] * Elapsed(t, n))
               ELSE Capacity[t]

(* What is counted of a script: the tokens paid, the time it sets the      *)
(* bucket back.                                                            *)
Count(t, paid, slip) ==
    /\ IF opened <= clock
         THEN /\ spent' = [spent EXCEPT ![t] = @ + paid]
              /\ slipped' = [slipped EXCEPT ![t] = @ + slip]
         ELSE UNCHANGED <<spent, slipped>>
    /\ UNCHANGED opened

(* allowScript, for a cost that fits: it stores the balance and the time,  *)
(* granted or not.                                                         *)
Charge(r) ==
    LET t == tier[r]  b == Balance(t, stamp[r])  paid == IF b >= Cost(r) THEN Cost(r) ELSE 0
    IN  /\ tokens' = [tokens EXCEPT ![t] = b - paid]
        /\ last' = [last EXCEPT ![t] = stamp[r]]
        /\ until' = [until EXCEPT ![t] = clock + BucketTTL[t]]
        /\ Count(t, paid, IF Kept(t) /\ stamp[r] < last[t] THEN last[t] - stamp[r] ELSE 0)

(* Allow, with its script.  A lost reply makes the client run the script   *)
(* again, with the same time; a call that fails refuses the request.       *)
Allow(r) ==
    /\ stage[r] = "limit"
    /\ IF Cost(r) > Capacity[tier[r]]
         THEN Finish(r, "too_costly") /\ UNCHANGED <<bucketVars, errors>>
         ELSE \/ /\ Charge(r) /\ UNCHANGED errors
                 /\ Finish(r, IF Balance(tier[r], stamp[r]) >= Cost(r)
                                THEN "admitted" ELSE "rate_limited")
              \/ /\ errors > 0 /\ errors' = errors - 1
                 /\ Charge(r) /\ UNCHANGED requestVars
              \/ /\ errors > 0 /\ errors' = errors - 1
                 /\ Finish(r, "error") /\ UNCHANGED bucketVars
    /\ UNCHANGED <<clock, tierVars>>

(* Time passes.  A request that has used up its time limit is over before  *)
(* the clock goes on.                                                      *)
Active(r) == stage[r] \notin {"idle", "done"}

Tick == /\ clock < MaxTime
        /\ \A r \in Requests : Active(r) => clock - began[r] < MaxLag
        /\ clock' = clock + 1
        /\ seen' = [seen EXCEPT ![row] = clock + 1]
        /\ UNCHANGED <<row, updating, cache, cacheUntil, updates, requestVars,
                       bucketVars, errors>>

Request(r) == \/ TierFromCache(r) \/ TierFromRow(r) \/ CacheTier(r)
              \/ Evaluate(r) \/ Allow(r)

Next == \/ \E r \in Requests : Request(r)
        \/ \E t \in Tiers : UpdateRow(t)
        \/ Invalidate \/ Tick

Spec == Init /\ [][Next]_vars
-----------------------------------------------------------------------------
(* The earliest time that a request of the counted period gives a script.  *)
Earliest == IF opened > MaxLag THEN opened - MaxLag ELSE 0

(* From whatever moment on one counts, a tier grants at most a full bucket *)
(* and what its fill rate brings from then on, counting twice the time by  *)
(* which scripts that arrive out of order set the bucket back: no          *)
(* interleaving, repeated script, forgotten bucket or long rest makes      *)
(* tokens out of nothing (allowScript).                                    *)
Budget == opened <= clock => \A t \in Tiers :
    spent[t] <= Capacity[t] + FillRate[t] * (clock - Earliest + slipped[t])

(* A request is judged by a tier that the user had less than the life of a *)
(* cache entry and the length of two requests ago: a tier cached after the *)
(* invalidation that should have removed it, or one whose invalidation     *)
(* failed, goes away (Tier, Set, UpdateUserTier).                          *)
TierIsRecent == \A r \in Requests : stage[r] \in {"policy", "limit"} =>
    clock - seen[tier[r]] < CacheTTL + 2 * MaxLag
=============================================================================
