--------------------------- MODULE AdmissionProofs ---------------------------
(***************************************************************************)
(* The token buckets keep within their budget, for every set of tiers,     *)
(* requests and limits, and from whatever moment one counts.  What a bucket*)
(* holds and what it has granted since add up to a full bucket and the fill*)
(* of the time it has been given; the TTL of a bucket is long enough for a *)
(* new one to be no gift.                                                  *)
(***************************************************************************)
EXTENDS Admission, TLAPS

(* A request at work is within its time limit, has a tier once it has read *)
(* one, and gives the script a time of its own life.                       *)
OnTime(r) == Active(r) =>
    /\ began[r] <= clock /\ clock <= began[r] + MaxLag
    /\ stage[r] \in {"fill", "policy", "limit"} => tier[r] \in Tiers
    /\ stage[r] = "limit" => began[r] <= stamp[r] /\ stamp[r] <= clock

(* The account of a bucket for the counted period, unless no script of it  *)
(* has run.                                                                *)
Account(t) ==
    spent[t] + tokens[t] <= Capacity[t] + FillRate[t] * (last[t] - Earliest + slipped[t])

Ledger(t) == \/ spent[t] = 0 /\ slipped[t] = 0
             \/ /\ opened <= clock /\ Earliest <= last[t]
                /\ last[t] + BucketTTL[t] <= until[t]
                /\ last[t] <= clock
                /\ Account(t)

CacheHolds == cacheUntil > 0 => cache \in Tiers

IndInv == /\ TypeOK /\ CacheHolds
          /\ \A r \in Requests : OnTime(r)
          /\ \A t \in Tiers : Ledger(t)

(* Multiplication by a fill rate is monotonic and distributes.             *)
LEMMA Monotonic ==
    ASSUME NEW k \in Nat, NEW a \in Int, NEW b \in Int, a <= b
    PROVE  k * a <= k * b
<1>1. b - a \in Nat  OBVIOUS
<1>2. k * (b - a) \in Nat  BY <1>1
<1>3. k * b = k * a + k * (b - a)  OBVIOUS
<1> QED  BY <1>2, <1>3

(* Multiplication distributes over addition, as the budget needs it.       *)
LEMMA Distributes ==
    ASSUME NEW k \in Nat, NEW a \in Int, NEW b \in Int
    PROVE  k * (a + b) = k * a + k * b
OBVIOUS

(* A cost is a number of tokens.                                           *)
LEMMA CostIsNat ==
    ASSUME TypeOK, NEW r \in Requests, tier[r] \in Tiers
    PROVE  Cost(r) \in Nat
<1>1. Runes[r] \in Nat /\ MaxOutput[tier[r]] \in Nat
      BY LimitsAssumption DEF TypeOK
<1>2. Estimated(r) \in Nat  BY <1>1 DEF Estimated
<1> QED  BY <1>1, <1>2 DEF Cost

(* A balance fits its bucket, and a bucket that is kept gains no more than *)
(* the fill of the time that has elapsed for it.                           *)
LEMMA BalanceFits ==
    ASSUME TypeOK, NEW t \in Tiers, NEW n \in Nat
    PROVE  /\ Balance(t, n) \in 0..Capacity[t]
           /\ Elapsed(t, n) \in Nat
           /\ Kept(t) => Balance(t, n) <= tokens[t] + FillRate[t] * Elapsed(t, n)
<1>1. /\ tokens[t] \in 0..Capacity[t] /\ last[t] \in Nat
      /\ Capacity[t] \in Nat /\ FillRate[t] \in Nat
      BY LimitsAssumption DEF TypeOK
<1>2. Elapsed(t, n) \in Nat  BY <1>1 DEF Elapsed
<1>3. FillRate[t] * Elapsed(t, n) \in Nat  BY <1>1, <1>2
<1> QED  BY <1>1, <1>2, <1>3 DEF Balance, Lesser

(* The script leaves a bucket within its capacity and its account.         *)
LEMMA ChargeKeepsLedger ==
    ASSUME IndInv, NEW r \in Requests, stage[r] = "limit", Charge(r),
           clock' = clock,
           NEW t \in Tiers, t = tier[r], NEW n \in Nat, n = stamp[r]
    PROVE  /\ \A u \in Tiers : tokens'[u] \in 0..Capacity[u]
           /\ tokens' \in [Tiers -> Int] /\ last' \in [Tiers -> Nat]
           /\ until' \in [Tiers -> Nat]
           /\ opened' \in Nat
           /\ spent' \in [Tiers -> Nat] /\ slipped' \in [Tiers -> Nat]
           /\ \A u \in Tiers : Ledger(u)'
<1> DEFINE b == Balance(t, n)
           paid == IF b >= Cost(r) THEN Cost(r) ELSE 0
           slip == IF Kept(t) /\ n < last[t] THEN last[t] - n ELSE 0
<1>0. opened \in Nat /\ MaxLag \in Nat /\ Earliest \in Nat
  <2>1. opened \in Nat /\ MaxLag \in Nat  BY LimitsAssumption DEF IndInv, TypeOK
  <2> QED  BY <2>1 DEF Earliest
<1>1. /\ n <= clock /\ clock <= n + MaxLag /\ clock \in Nat
      /\ opened <= clock => Earliest <= n
  <2>1. OnTime(r) /\ Active(r)  BY DEF IndInv, Active
  <2>2. began[r] \in Nat /\ stamp[r] \in Nat /\ clock \in Nat
        BY DEF IndInv, TypeOK
  <2>3. n <= clock /\ clock <= n + MaxLag  BY <2>1, <2>2, LimitsAssumption DEF OnTime
  <2> QED  BY <1>0, <2>2, <2>3 DEF Earliest
<1>2. /\ Capacity[t] \in Nat /\ FillRate[t] \in Nat /\ BucketTTL[t] \in Nat
      /\ MaxLag \in Nat /\ BucketTTL[t] > 0
      BY <1>1, LimitsAssumption
<1>3. /\ tokens[t] \in 0..Capacity[t] /\ last[t] \in Nat /\ until[t] \in Nat
      /\ spent[t] \in Nat /\ slipped[t] \in Nat
      BY <1>1 DEF IndInv, TypeOK
<1>4. /\ b \in 0..Capacity[t] /\ Elapsed(t, n) \in Nat
      /\ Kept(t) => b <= tokens[t] + FillRate[t] * Elapsed(t, n)
      BY <1>1, BalanceFits DEF IndInv
<1>5. paid \in Nat /\ b - paid \in 0..Capacity[t]
  <2>1. Cost(r) \in Nat  BY <1>1, CostIsNat DEF IndInv
  <2> QED  BY <2>1, <1>2, <1>4
<1>6. slip \in Nat  BY <1>1, <1>3
<1> HIDE DEF b, paid, slip
<1>7. /\ tokens' = [tokens EXCEPT ![t] = b - paid]
      /\ last' = [last EXCEPT ![t] = n]
      /\ until' = [until EXCEPT ![t] = clock + BucketTTL[t]]
      /\ opened' = opened
      /\ opened <= clock => /\ spent' = [spent EXCEPT ![t] = spent[t] + paid]
                            /\ slipped' = [slipped EXCEPT ![t] = slipped[t] + slip]
      /\ ~(opened <= clock) => UNCHANGED <<spent, slipped>>
      BY DEF Charge, Count, b, paid, slip
<1>8. /\ tokens \in [Tiers -> Int] /\ last \in [Tiers -> Nat]
      /\ until \in [Tiers -> Nat] /\ spent \in [Tiers -> Nat]
      /\ slipped \in [Tiers -> Nat]
      /\ \A u \in Tiers : tokens[u] \in 0..Capacity[u]
      BY DEF IndInv, TypeOK
<1>9. \A u \in Tiers : Ledger(u)  BY DEF IndInv
<1> DEFINE e == Earliest
<1> HIDE DEF e
<1>10. ASSUME opened <= clock
       PROVE  spent[t] + b <= Capacity[t] + FillRate[t] * (n - e + (slipped[t] + slip))
  <2>0. e \in Nat /\ e <= n  BY <1>0, <1>1, <1>10 DEF e
  <2>1. CASE spent[t] = 0 /\ slipped[t] = 0
    <3>1. n - e + (slipped[t] + slip) \in Nat  BY <2>0, <1>3, <1>6
    <3>2. FillRate[t] * (n - e + (slipped[t] + slip)) \in Nat  BY <3>1, <1>2
    <3> QED  BY <2>1, <3>2, <1>2, <1>4
  <2>2. CASE /\ last[t] + BucketTTL[t] <= until[t] /\ last[t] <= clock /\ Account(t)
    <3> DEFINE x == FillRate[t] * (last[t] - e + slipped[t])
               z == FillRate[t] * (n - e + (slipped[t] + slip))
    <3>1. x \in Int /\ z \in Int  BY <2>0, <1>2, <1>3, <1>6
    <3>2. spent[t] + tokens[t] <= Capacity[t] + x  BY <2>2 DEF Account, e
    <3>3. b \in Nat /\ tokens[t] \in Nat /\ b <= Capacity[t]  BY <1>2, <1>3, <1>4
    <3>4. CASE Kept(t)
      <4> DEFINE y == FillRate[t] * Elapsed(t, n)
      <4>1. y \in Int /\ b <= tokens[t] + y  BY <3>4, <1>2, <1>4
      <4>2. n - e + (slipped[t] + slip) = (last[t] - e + slipped[t]) + Elapsed(t, n)
            BY <3>4, <2>0, <1>1, <1>3 DEF slip, Elapsed
      <4>3. z = x + y
        <5>1. last[t] - e + slipped[t] \in Int /\ Elapsed(t, n) \in Int
              BY <2>0, <1>3, <1>4
        <5> QED  BY <4>2, <5>1, <1>2, Distributes
      <4>4. spent[t] + b <= Capacity[t] + z
        <5> HIDE DEF x, y, z
        <5> QED  BY <3>1, <3>2, <3>3, <4>1, <4>3, <1>2, <1>3
      <4> QED  BY <4>4
    <3>5. CASE ~Kept(t)
      <4> DEFINE y == FillRate[t] * (BucketTTL[t] - MaxLag)
      <4>1. last[t] - e + slipped[t] \in Int /\ BucketTTL[t] - MaxLag \in Int
            /\ n - e + (slipped[t] + slip) \in Int
            BY <2>0, <1>2, <1>3, <1>6
      <4>2. (last[t] - e + slipped[t]) + (BucketTTL[t] - MaxLag) <= n - e + (slipped[t] + slip)
            BY <3>5, <2>0, <2>2, <1>1, <1>2, <1>3, <1>6 DEF Kept
      <4>3. FillRate[t] * ((last[t] - e + slipped[t]) + (BucketTTL[t] - MaxLag)) <= z
            BY <4>1, <4>2, <1>2, Monotonic
      <4>4. x + y <= z  BY <4>1, <4>3, <1>2, Distributes
      <4>5. y >= Capacity[t] /\ y \in Int  BY <1>1, <1>2, TTLAssumption
      <4>6. spent[t] + b <= Capacity[t] + z
        <5> HIDE DEF x, y, z
        <5> QED  BY <3>1, <3>2, <3>3, <4>4, <4>5, <1>2, <1>3
      <4> QED  BY <4>6
    <3> QED  BY <3>4, <3>5
  <2> QED  BY <2>1, <2>2, <1>1, <1>9 DEF Ledger
<1>11. Ledger(t)'
  <2>1. tokens'[t] = b - paid /\ last'[t] = n /\ until'[t] = clock + BucketTTL[t]
        BY <1>1, <1>7, <1>8
  <2>2. CASE opened <= clock
    <3>1. spent'[t] = spent[t] + paid /\ slipped'[t] = slipped[t] + slip
          BY <2>2, <1>1, <1>7, <1>8
    <3>2. spent'[t] + tokens'[t] = spent[t] + b  BY <2>1, <3>1, <1>3, <1>4, <1>5
    <3>3. Earliest' = e  BY <1>7 DEF Earliest, e
    <3>4. Account(t)'  BY <2>1, <2>2, <3>1, <3>2, <3>3, <1>10 DEF Account
    <3>5. /\ last'[t] + BucketTTL[t] <= until'[t] /\ last'[t] <= clock'
          /\ opened' <= clock' /\ Earliest' <= last'[t]
          BY <2>1, <2>2, <3>3, <1>1, <1>2, <1>7 DEF e
    <3> QED  BY <3>4, <3>5 DEF Ledger
  <2>3. CASE ~(opened <= clock)
    <3>1. spent[t] = 0 /\ slipped[t] = 0  BY <2>3, <1>1, <1>9 DEF Ledger
    <3> QED  BY <2>3, <3>1, <1>7 DEF Ledger
  <2> QED  BY <2>2, <2>3
<1>12. ASSUME NEW u \in Tiers, u # t
       PROVE  Ledger(u)'
  <2>1. tokens'[u] = tokens[u] /\ last'[u] = last[u] /\ until'[u] = until[u]
        /\ spent'[u] = spent[u] /\ slipped'[u] = slipped[u]
        BY <1>12, <1>7, <1>8
  <2>2. opened' = opened /\ Earliest' = Earliest  BY <1>7 DEF Earliest
  <2> QED  BY <2>1, <2>2, <1>9 DEF Ledger, Account
<1>13. \A u \in Tiers : tokens'[u] \in 0..Capacity[u]
       BY <1>5, <1>7, <1>8
<1>14. /\ tokens' \in [Tiers -> Int] /\ last' \in [Tiers -> Nat]
       /\ until' \in [Tiers -> Nat]
       /\ opened' \in Nat
       /\ spent' \in [Tiers -> Nat] /\ slipped' \in [Tiers -> Nat]
       BY <1>0, <1>1, <1>2, <1>3, <1>5, <1>6, <1>7, <1>8
<1> QED  BY <1>11, <1>12, <1>13, <1>14

(* A step that leaves the clock and the buckets alone keeps the ledgers.   *)
LEMMA LedgersKept ==
    ASSUME IndInv, UNCHANGED <<clock, bucketVars>>
    PROVE  \A t \in Tiers : Ledger(t)'
BY DEF IndInv, Ledger, Account, Earliest, bucketVars

(* A request that finishes has no time to keep to, and the other requests  *)
(* are where they were.                                                    *)
LEMMA FinishKeepsTime ==
    ASSUME IndInv, NEW r \in Requests, NEW a \in Answers, Finish(r, a),
           clock' = clock
    PROVE  /\ stage' \in [Requests -> Stages]
           /\ tier' \in [Requests -> Tiers \cup {NoTier}]
           /\ began' \in [Requests -> Nat] /\ stamp' \in [Requests -> Nat]
           /\ answer' \in [Requests -> Answers]
           /\ \A q \in Requests : OnTime(q)'
<1>1. /\ stage \in [Requests -> Stages]
      /\ tier \in [Requests -> Tiers \cup {NoTier}]
      /\ began \in [Requests -> Nat] /\ stamp \in [Requests -> Nat]
      /\ answer \in [Requests -> Answers]
      /\ \A q \in Requests : OnTime(q)
      BY DEF IndInv, TypeOK
<1>2. OnTime(r)'  BY <1>1 DEF Finish, Goto, OnTime, Active
<1>3. ASSUME NEW q \in Requests, q # r
      PROVE  OnTime(q)'
      BY <1>1, <1>3 DEF Finish, Goto, OnTime, Active
<1> QED  BY <1>1, <1>2, <1>3 DEF Finish, Goto, Stages

(* One step per action: what a request does,                               *)
LEMMA RequestKeeps ==
    ASSUME IndInv, NEW r \in Requests, Request(r)
    PROVE  IndInv'
<1>1. TypeOK /\ CacheHolds /\ \A q \in Requests : OnTime(q)  BY DEF IndInv
<1>2. CASE TierFromCache(r)
  <2>1. TypeOK'
        BY <1>1, <1>2 DEF TierFromCache, TypeOK, Goto, Stages, tierVars, bucketVars
  <2>2. CacheHolds'  BY <1>1, <1>2 DEF TierFromCache, CacheHolds, tierVars
  <2>3. ASSUME NEW q \in Requests  PROVE  OnTime(q)'
    <3>1. CASE q = r
      <4>1. Cached => cache \in Tiers  BY <1>1 DEF Cached, CacheHolds, TypeOK
      <4>2. began'[r] = clock /\ clock' = clock /\ clock \in Nat /\ MaxLag \in Nat
            BY <1>1, <1>2, LimitsAssumption DEF TierFromCache, TypeOK
      <4>3. \/ stage'[r] = "policy" /\ tier'[r] \in Tiers
            \/ stage'[r] = "select"
            BY <1>1, <1>2, <4>1 DEF TierFromCache, Goto, TypeOK
      <4> QED  BY <3>1, <4>2, <4>3 DEF OnTime
    <3>2. CASE q # r
          BY <3>2, <1>1, <1>2 DEF TierFromCache, Goto, OnTime, Active, TypeOK
    <3> QED  BY <3>1, <3>2
  <2>4. \A t \in Tiers : Ledger(t)'  BY <1>2, LedgersKept DEF TierFromCache
  <2> QED  BY <2>1, <2>2, <2>3, <2>4 DEF IndInv
<1>3. CASE TierFromRow(r)
  <2>1. CacheHolds'  BY <1>1, <1>3 DEF TierFromRow, CacheHolds, tierVars
  <2>2. \A t \in Tiers : Ledger(t)'  BY <1>3, LedgersKept DEF TierFromRow
  <2>3. CASE Finish(r, "error")
    <3>1. "error" \in Answers  BY DEF Answers
    <3>2. /\ \A q \in Requests : OnTime(q)'
          /\ stage' \in [Requests -> Stages]
          /\ tier' \in [Requests -> Tiers \cup {NoTier}]
          /\ began' \in [Requests -> Nat] /\ stamp' \in [Requests -> Nat]
          /\ answer' \in [Requests -> Answers]
          BY <1>3, <2>3, <3>1, FinishKeepsTime DEF TierFromRow
    <3>3. TypeOK'
          BY <1>1, <1>3, <3>2 DEF TierFromRow, TypeOK, tierVars, bucketVars
    <3> QED  BY <2>1, <2>2, <3>2, <3>3 DEF IndInv
  <2>4. CASE /\ Goto(r, "fill") /\ tier' = [tier EXCEPT ![r] = row]
             /\ UNCHANGED <<began, stamp, answer, errors>>
    <3>1. TypeOK'
          BY <1>1, <1>3, <2>4 DEF TierFromRow, TypeOK, Goto, Stages, tierVars, bucketVars
    <3>2. ASSUME NEW q \in Requests  PROVE  OnTime(q)'
          BY <1>1, <1>3, <2>4 DEF TierFromRow, Goto, OnTime, Active, TypeOK
    <3> QED  BY <2>1, <2>2, <3>1, <3>2 DEF IndInv
  <2> QED  BY <1>3, <2>3, <2>4 DEF TierFromRow
<1>4. CASE CacheTier(r)
  <2>1. tier[r] \in Tiers  BY <1>1, <1>4 DEF CacheTier, OnTime, Active
  <2>2. TypeOK'
        BY <1>1, <1>4, <2>1, LimitsAssumption
        DEF CacheTier, TypeOK, Goto, Stages, bucketVars
  <2>3. CacheHolds'  BY <1>1, <1>4, <2>1 DEF CacheTier, CacheHolds
  <2>4. ASSUME NEW q \in Requests  PROVE  OnTime(q)'
        BY <1>1, <1>4 DEF CacheTier, Goto, OnTime, Active, TypeOK
  <2>5. \A t \in Tiers : Ledger(t)'  BY <1>4, LedgersKept DEF CacheTier
  <2> QED  BY <2>2, <2>3, <2>4, <2>5 DEF IndInv
<1>5. CASE Evaluate(r)
  <2>1. CacheHolds'  BY <1>1, <1>5 DEF Evaluate, CacheHolds, tierVars
  <2>2. \A t \in Tiers : Ledger(t)'  BY <1>5, LedgersKept DEF Evaluate
  <2>3. CASE Finish(r, Refusal(r, tier[r]))
    <3>1. Refusal(r, tier[r]) \in Answers  BY DEF Refusal, TokenLimit, Answers
    <3>2. /\ \A q \in Requests : OnTime(q)'
          /\ stage' \in [Requests -> Stages]
          /\ tier' \in [Requests -> Tiers \cup {NoTier}]
          /\ began' \in [Requests -> Nat] /\ stamp' \in [Requests -> Nat]
          /\ answer' \in [Requests -> Answers]
      <4>1. PICK a \in Answers : a = Refusal(r, tier[r])  BY <3>1
      <4>2. Finish(r, a)  BY <2>3, <4>1
      <4> QED  BY <1>5, <4>2, FinishKeepsTime DEF Evaluate
    <3>3. TypeOK'
          BY <1>1, <1>5, <3>2 DEF Evaluate, TypeOK, tierVars, bucketVars
    <3> QED  BY <2>1, <2>2, <3>2, <3>3 DEF IndInv
  <2>4. CASE /\ Goto(r, "limit") /\ stamp' = [stamp EXCEPT ![r] = clock]
             /\ UNCHANGED <<tier, began, answer>>
    <3>1. TypeOK'
          BY <1>1, <1>5, <2>4 DEF Evaluate, TypeOK, Goto, Stages, tierVars, bucketVars
    <3>2. ASSUME NEW q \in Requests  PROVE  OnTime(q)'
          BY <1>1, <1>5, <2>4 DEF Evaluate, Goto, OnTime, Active, TypeOK
    <3> QED  BY <2>1, <2>2, <3>1, <3>2 DEF IndInv
  <2> QED  BY <1>5, <2>3, <2>4 DEF Evaluate
<1>6. CASE Allow(r)
  <2>1. /\ clock' = clock /\ UNCHANGED tierVars /\ stage[r] = "limit"
        /\ errors' \in Nat
        BY <1>1, <1>6 DEF Allow, TypeOK
  <2>2. CacheHolds'  BY <1>1, <2>1 DEF CacheHolds, tierVars
  <2>3. \/ UNCHANGED requestVars
        \/ \E a \in Answers : Finish(r, a)
        BY <1>6 DEF Allow, Answers
  <2>4. Charge(r) \/ UNCHANGED bucketVars  BY <1>6 DEF Allow
  <2>5. /\ \A q \in Requests : OnTime(q)'
        /\ stage' \in [Requests -> Stages]
        /\ tier' \in [Requests -> Tiers \cup {NoTier}]
        /\ began' \in [Requests -> Nat] /\ stamp' \in [Requests -> Nat]
        /\ answer' \in [Requests -> Answers]
    <3>1. CASE UNCHANGED requestVars
          BY <3>1, <2>1, <1>1 DEF requestVars, OnTime, Active, TypeOK
    <3>2. CASE \E a \in Answers : Finish(r, a)
          BY <3>2, <2>1, FinishKeepsTime
    <3> QED  BY <2>3, <3>1, <3>2
  <2>6. /\ \A u \in Tiers : tokens'[u] \in 0..Capacity[u]
        /\ tokens' \in [Tiers -> Int] /\ last' \in [Tiers -> Nat]
        /\ until' \in [Tiers -> Nat]
        /\ opened' \in Nat
        /\ spent' \in [Tiers -> Nat] /\ slipped' \in [Tiers -> Nat]
        /\ \A u \in Tiers : Ledger(u)'
    <3>1. CASE UNCHANGED bucketVars
          BY <3>1, <2>1, <1>1, LedgersKept DEF bucketVars, TypeOK
    <3>2. CASE Charge(r)
      <4>1. tier[r] \in Tiers /\ stamp[r] \in Nat
            BY <1>1, <2>1 DEF OnTime, Active, TypeOK
      <4>2. PICK t \in Tiers, n \in Nat : t = tier[r] /\ n = stamp[r]  BY <4>1
      <4> QED  BY <3>2, <2>1, <4>2, ChargeKeepsLedger
    <3> QED  BY <2>4, <3>1, <3>2
  <2>7. TypeOK'  BY <1>1, <2>1, <2>5, <2>6 DEF TypeOK, tierVars
  <2> QED  BY <2>2, <2>5, <2>6, <2>7 DEF IndInv
<1> QED  BY <1>2, <1>3, <1>4, <1>5, <1>6 DEF Request

(* and what the administrator and the clock do.                            *)
LEMMA NextKeeps == IndInv /\ [Next]_vars => IndInv'
<1> SUFFICES ASSUME IndInv, [Next]_vars  PROVE IndInv'  OBVIOUS
<1>1. /\ TypeOK /\ CacheHolds /\ \A q \in Requests : OnTime(q)
      /\ \A t \in Tiers : Ledger(t)
      BY DEF IndInv
<1>2. ASSUME NEW t \in Tiers, UpdateRow(t)  PROVE IndInv'
  <2>1. TypeOK'  BY <1>1, <1>2 DEF UpdateRow, TypeOK, requestVars, bucketVars
  <2>2. CacheHolds' /\ \A q \in Requests : OnTime(q)'
        BY <1>1, <1>2 DEF UpdateRow, CacheHolds, OnTime, Active, requestVars
  <2> QED  BY <1>2, <2>1, <2>2, LedgersKept DEF UpdateRow, IndInv
<1>3. CASE Invalidate
  <2>1. TypeOK'
    <3>1. updating' \in BOOLEAN  BY <1>3, Zenon DEF Invalidate
    <3>2. cache' \in Tiers \cup {NoTier} /\ cacheUntil' \in Nat /\ errors' \in Nat
          BY <1>1, <1>3 DEF Invalidate, TypeOK
    <3>3. UNCHANGED <<clock, row, seen, updates, requestVars, bucketVars>>
          BY <1>3 DEF Invalidate
    <3> QED  BY <1>1, <3>1, <3>2, <3>3 DEF TypeOK, requestVars, bucketVars
  <2>2. CacheHolds'  BY <1>1, <1>3 DEF Invalidate, CacheHolds
  <2>3. UNCHANGED <<clock, requestVars>>  BY <1>3 DEF Invalidate
  <2>4. \A q \in Requests : OnTime(q)'
        BY <1>1, <2>3 DEF OnTime, Active, requestVars
  <2> QED  BY <1>3, <2>1, <2>2, <2>4, LedgersKept DEF Invalidate, IndInv
<1>4. CASE Tick
  <2>1. TypeOK'  BY <1>1, <1>4 DEF Tick, TypeOK, requestVars, bucketVars
  <2>2. CacheHolds'  BY <1>1, <1>4 DEF Tick, CacheHolds
  <2>3. ASSUME NEW q \in Requests  PROVE OnTime(q)'
        BY <1>1, <1>4, LimitsAssumption DEF Tick, OnTime, Active, TypeOK, requestVars
  <2>4. ASSUME NEW t \in Tiers  PROVE Ledger(t)'
    <3>1. last[t] \in Nat /\ clock \in Nat /\ opened \in Nat /\ clock' = clock + 1
          BY <1>1, <1>4 DEF TypeOK, Tick
    <3>2. Ledger(t)  BY <1>1
    <3>3. UNCHANGED bucketVars  BY <1>4 DEF Tick
    <3>4. Earliest' = Earliest  BY <3>3 DEF Earliest, bucketVars
    <3>5. Account(t)' <=> Account(t)  BY <3>3, <3>4 DEF Account, bucketVars
    <3>6. /\ last[t] <= clock => last[t] <= clock'
          /\ opened <= clock => opened <= clock'
          BY <3>1
    <3> QED  BY <3>2, <3>3, <3>4, <3>5, <3>6 DEF Ledger, bucketVars
  <2> QED  BY <2>1, <2>2, <2>3, <2>4 DEF IndInv
<1>5. CASE UNCHANGED vars
  <2>1. TypeOK' /\ CacheHolds' /\ \A q \in Requests : OnTime(q)'
        BY <1>1, <1>5
        DEF vars, tierVars, requestVars, bucketVars, TypeOK, CacheHolds, OnTime, Active
  <2> QED  BY <1>5, <2>1, LedgersKept DEF vars, IndInv
<1> QED  BY <1>2, <1>3, <1>4, <1>5, RequestKeeps DEF Next

(* An empty bucket fits.                                                   *)
LEMMA ZeroFits == \A n \in Nat : 0 \in 0..n  OBVIOUS

(* A system that has done nothing is in order.                             *)
LEMMA InitHolds == Init => IndInv
<1> SUFFICES ASSUME Init PROVE IndInv  OBVIOUS
<1>1. TypeOK
  <2>1. updating \in BOOLEAN  BY Zenon DEF Init
  <2>2. ASSUME NEW t \in Tiers  PROVE tokens[t] \in 0..Capacity[t]
    <3>1. tokens[t] = 0  BY DEF Init
    <3>2. Capacity[t] \in Nat  BY LimitsAssumption
    <3>3. 0 \in 0..Capacity[t]  BY <3>2, ZeroFits
    <3> QED  BY <3>1, <3>3, Zenon
  <2>3. updates \in Nat /\ errors \in Nat  BY LimitsAssumption DEF Init
  <2>4. /\ clock \in Nat /\ row \in Tiers
        /\ cache \in Tiers \cup {NoTier} /\ cacheUntil \in Nat
        BY DEF Init
  <2>5. /\ stage \in [Requests -> Stages] /\ answer \in [Requests -> Answers]
        /\ tier \in [Requests -> Tiers \cup {NoTier}]
        /\ began \in [Requests -> Nat] /\ stamp \in [Requests -> Nat]
        BY DEF Init, Stages, Answers
  <2>6. /\ tokens \in [Tiers -> Int] /\ last \in [Tiers -> Nat]
        /\ until \in [Tiers -> Nat] /\ seen \in [Tiers -> Int]
        /\ spent \in [Tiers -> Nat] /\ slipped \in [Tiers -> Nat]
        BY DEF Init
  <2>7. opened \in Nat  BY LimitsAssumption DEF Init
  <2> QED  BY <2>1, <2>2, <2>3, <2>4, <2>5, <2>6, <2>7 DEF TypeOK
<1>2. CacheHolds  BY DEF Init, CacheHolds
<1>3. ASSUME NEW r \in Requests PROVE OnTime(r)  BY DEF Init, OnTime, Active
<1>4. ASSUME NEW t \in Tiers PROVE Ledger(t)  BY DEF Init, Ledger
<1> QED  BY <1>1, <1>2, <1>3, <1>4 DEF IndInv

(* The inductive invariant gives the budget of every bucket.               *)
LEMMA LedgersBalance == IndInv => Budget
<1> DEFINE e == Earliest
<1> HIDE DEF e
<1> SUFFICES ASSUME IndInv, opened <= clock, NEW t \in Tiers
             PROVE  spent[t] <= Capacity[t] + FillRate[t] * (clock - e + slipped[t])
    BY DEF Budget, e
<1>1. /\ clock \in Nat /\ last[t] \in Nat /\ slipped[t] \in Nat /\ spent[t] \in Nat
      /\ tokens[t] \in 0..Capacity[t] /\ Ledger(t) /\ opened \in Nat
      /\ Capacity[t] \in Nat /\ FillRate[t] \in Nat /\ MaxLag \in Nat
      BY LimitsAssumption DEF IndInv, TypeOK
<1>2. e \in Nat /\ e <= clock
  <2>1. /\ clock \in Nat /\ opened \in Nat /\ MaxLag \in Nat /\ opened <= clock
        /\ e = IF opened > MaxLag THEN opened - MaxLag ELSE 0
        BY <1>1 DEF Earliest, e
  <2> QED  BY ONLY <2>1
<1> DEFINE x == FillRate[t] * (last[t] - e + slipped[t])
           z == FillRate[t] * (clock - e + slipped[t])
<1>3. x \in Int /\ z \in Nat
  <2>1. clock - e + slipped[t] \in Nat /\ last[t] - e + slipped[t] \in Int  BY <1>1, <1>2
  <2> QED  BY <2>1, <1>1
<1>4. last[t] <= clock => x <= z
  <2> SUFFICES ASSUME last[t] <= clock PROVE x <= z  OBVIOUS
  <2> DEFINE a == last[t] - e + slipped[t]
             b == clock - e + slipped[t]
  <2>1. a \in Int /\ b \in Int /\ a <= b  BY <1>1, <1>2
  <2>2. FillRate[t] \in Nat  BY <1>1
  <2> HIDE DEF a, b
  <2>3. FillRate[t] * a <= FillRate[t] * b  BY <2>1, <2>2, Monotonic, Zenon
  <2> QED  BY <2>3, Zenon DEF a, b
<1>5. \/ spent[t] = 0
      \/ last[t] <= clock /\ spent[t] + tokens[t] <= Capacity[t] + x
      BY <1>1 DEF Ledger, Account, e
<1> SUFFICES spent[t] <= Capacity[t] + z  OBVIOUS
<1> HIDE DEF x, z
<1> QED  BY <1>1, <1>3, <1>4, <1>5

(* How the sightings of a tier travel: the row is a tier the user has now, *)
(* a request that has read it fills the cache within its time limit, and   *)
(* one that hits the cache does so within the life of the entry.           *)
Judged(r) ==
    /\ stage[r] = "fill" => began[r] <= seen[tier[r]]
    /\ stage[r] \in {"policy", "limit"} =>
          began[r] < seen[tier[r]] + MaxLag + CacheTTL

Sightings == /\ seen[row] = clock
             /\ \A t \in Tiers : seen[t] <= clock
             /\ cacheUntil > 0 => cacheUntil <= seen[cache] + MaxLag + CacheTTL

Recent == Sightings /\ \A r \in Requests : Judged(r)

(* A sighting only moves forward, to the clock.                            *)
LEMMA SeenGrows ==
    ASSUME IndInv, Sightings, seen' \in [Tiers -> Int], row' \in Tiers,
           clock' \in Nat, clock <= clock', seen'[row'] = clock',
           \A t \in Tiers : seen'[t] = seen[t] \/ seen'[t] = clock
                             \/ seen'[t] = clock',
           UNCHANGED <<cache, cacheUntil, requestVars>>,
           \A r \in Requests : Judged(r)
    PROVE  Recent'
<1>1. /\ seen \in [Tiers -> Int] /\ clock \in Nat /\ cacheUntil \in Nat
      /\ began \in [Requests -> Nat] /\ stage \in [Requests -> Stages]
      /\ MaxLag \in Nat /\ CacheTTL \in Nat
      BY LimitsAssumption DEF IndInv, TypeOK
<1>2. \A t \in Tiers : seen[t] <= seen'[t] /\ seen'[t] <= clock'
      BY <1>1 DEF Sightings
<1>3. cacheUntil > 0 => cache \in Tiers  BY DEF IndInv, CacheHolds
<1>4. Sightings'
      BY <1>1, <1>2, <1>3 DEF Sightings
<1>5. ASSUME NEW r \in Requests PROVE Judged(r)'
  <2>1. stage[r] \in {"fill", "policy", "limit"} => tier[r] \in Tiers
        BY DEF IndInv, OnTime, Active
  <2>2. began[r] \in Nat  BY <1>1
  <2> QED  BY <1>1, <1>2, <2>1, <2>2 DEF Judged, requestVars
<1> QED  BY <1>4, <1>5 DEF Recent

(* A request that is over is judged no more.                               *)
LEMMA FinishKeepsRecent ==
    ASSUME IndInv, Recent, NEW r \in Requests, NEW a, Finish(r, a),
           UNCHANGED <<clock, tierVars>>
    PROVE  Recent'
<1>1. /\ stage \in [Requests -> Stages] /\ tier \in [Requests -> Tiers \cup {NoTier}]
      /\ began \in [Requests -> Nat]
      BY DEF IndInv, TypeOK
<1>2. Sightings'  BY DEF Recent, Sightings, tierVars
<1>3. ASSUME NEW q \in Requests PROVE Judged(q)'
  <2>1. CASE q = r  BY <1>1, <2>1 DEF Finish, Goto, Judged
  <2>2. CASE q # r  BY <1>1, <2>2 DEF Finish, Goto, Judged, Recent, tierVars
  <2> QED  BY <2>1, <2>2
<1> QED  BY <1>2, <1>3 DEF Recent

(* What a request does to the sightings,                                   *)
LEMMA RequestKeepsRecent ==
    ASSUME IndInv, Recent, NEW r \in Requests, Request(r)
    PROVE  Recent'
<1>1. /\ seen \in [Tiers -> Int] /\ clock \in Nat /\ cacheUntil \in Nat
      /\ began \in [Requests -> Nat] /\ stage \in [Requests -> Stages]
      /\ tier \in [Requests -> Tiers \cup {NoTier}] /\ row \in Tiers
      /\ MaxLag \in Nat /\ CacheTTL \in Nat /\ CacheTTL > 0
      BY LimitsAssumption DEF IndInv, TypeOK
<1>2. Sightings /\ \A q \in Requests : Judged(q)  BY DEF Recent
<1>3. CASE TierFromCache(r)
  <2>1. Sightings'  BY <1>2, <1>3 DEF TierFromCache, Sightings, tierVars
  <2>2. Judged(r)'
    <3>1. Cached => cache \in Tiers /\ clock < seen[cache] + MaxLag + CacheTTL
          BY <1>1, <1>2 DEF IndInv, Cached, CacheHolds, Sightings
    <3>2. began'[r] = clock /\ seen' = seen
          BY <1>1, <1>3 DEF TierFromCache, tierVars
    <3>3. \/ stage'[r] = "policy" /\ tier'[r] = cache /\ Cached
          \/ stage'[r] = "select"
          BY <1>1, <1>3 DEF TierFromCache, Goto
    <3> QED  BY <3>1, <3>2, <3>3 DEF Judged
  <2>3. ASSUME NEW q \in Requests, q # r PROVE Judged(q)'
        BY <1>1, <1>2, <1>3, <2>3 DEF TierFromCache, Goto, Judged, tierVars
  <2> QED  BY <2>1, <2>2, <2>3 DEF Recent
<1>4. CASE TierFromRow(r)
  <2>1. CASE Finish(r, "error")
        BY <1>4, <2>1, FinishKeepsRecent DEF TierFromRow
  <2>2. CASE /\ Goto(r, "fill") /\ tier' = [tier EXCEPT ![r] = row]
             /\ UNCHANGED <<began, stamp, answer, errors>>
    <3>1. Sightings'  BY <1>2, <1>4 DEF TierFromRow, Sightings, tierVars
    <3>2. Judged(r)'
      <4>1. began[r] <= clock
            BY <1>4 DEF TierFromRow, IndInv, OnTime, Active
      <4>2. stage'[r] = "fill" /\ tier'[r] = row /\ began' = began /\ seen' = seen
            BY <1>1, <1>4, <2>2 DEF TierFromRow, Goto, tierVars
      <4> QED  BY <1>2, <4>1, <4>2 DEF Judged, Sightings
    <3>3. ASSUME NEW q \in Requests, q # r PROVE Judged(q)'
          BY <1>1, <1>2, <1>4, <2>2, <3>3 DEF TierFromRow, Goto, Judged, tierVars
    <3> QED  BY <3>1, <3>2, <3>3 DEF Recent
  <2> QED  BY <1>4, <2>1, <2>2 DEF TierFromRow
<1>5. CASE CacheTier(r)
  <2>1. /\ tier[r] \in Tiers /\ began[r] \in Nat
        /\ began[r] <= seen[tier[r]] /\ clock <= began[r] + MaxLag
        BY <1>1, <1>2, <1>5 DEF CacheTier, Judged, IndInv, OnTime, Active
  <2>2. \/ cache' = tier[r] /\ cacheUntil' = clock + CacheTTL
        \/ UNCHANGED <<cache, cacheUntil>>
        BY <1>5 DEF CacheTier
  <2>3. UNCHANGED <<clock, row, seen, tier, began>>  BY <1>5 DEF CacheTier
  <2>4. Sightings'  BY <1>1, <1>2, <2>1, <2>2, <2>3 DEF Sightings
  <2>5. Judged(r)'
    <3>1. stage'[r] = "policy"  BY <1>1, <1>5 DEF CacheTier, Goto
    <3> QED  BY <1>1, <2>1, <2>3, <3>1 DEF Judged
  <2>6. ASSUME NEW q \in Requests, q # r PROVE Judged(q)'
        BY <1>1, <1>2, <1>5, <2>3, <2>6 DEF CacheTier, Goto, Judged
  <2> QED  BY <2>4, <2>5, <2>6 DEF Recent
<1>6. CASE Evaluate(r)
  <2>1. CASE Finish(r, Refusal(r, tier[r]))
        BY <1>6, <2>1, FinishKeepsRecent DEF Evaluate
  <2>2. CASE Goto(r, "limit") /\ UNCHANGED <<tier, began>>
    <3>1. Sightings'  BY <1>2, <1>6 DEF Evaluate, Sightings, tierVars
    <3>2. ASSUME NEW q \in Requests PROVE Judged(q)'
          BY <1>1, <1>2, <1>6, <2>2 DEF Evaluate, Goto, Judged, tierVars
    <3> QED  BY <3>1, <3>2 DEF Recent
  <2> QED  BY <1>6, <2>1, <2>2 DEF Evaluate
<1>7. CASE Allow(r)
  <2>1. UNCHANGED <<clock, tierVars>>  BY <1>7 DEF Allow
  <2>2. UNCHANGED requestVars \/ \E a \in Answers : Finish(r, a)
        BY <1>7 DEF Allow, Answers
  <2>3. CASE UNCHANGED requestVars
        BY <1>2, <2>1, <2>3 DEF Recent, Sightings, Judged, requestVars, tierVars
  <2> QED  BY <2>1, <2>2, <2>3, FinishKeepsRecent
<1> QED  BY <1>3, <1>4, <1>5, <1>6, <1>7 DEF Request

(* and what the administrator and the clock do to them.                    *)
LEMMA NextKeepsRecent == IndInv /\ Recent /\ [Next]_vars => Recent'
<1> SUFFICES ASSUME IndInv, Recent, [Next]_vars  PROVE Recent'  OBVIOUS
<1>1. /\ seen \in [Tiers -> Int] /\ clock \in Nat /\ row \in Tiers
      /\ cacheUntil \in Nat
      BY DEF IndInv, TypeOK
<1>2. Sightings /\ \A q \in Requests : Judged(q)  BY DEF Recent
<1>3. ASSUME NEW t \in Tiers, UpdateRow(t)  PROVE Recent'
  <2>1. /\ seen' = [seen EXCEPT ![row] = clock, ![t] = clock] /\ row' = t
        /\ UNCHANGED <<clock, cache, cacheUntil, requestVars>>
        BY <1>3 DEF UpdateRow
  <2>2. /\ seen' \in [Tiers -> Int] /\ seen'[row'] = clock'
        /\ \A u \in Tiers : seen'[u] = seen[u] \/ seen'[u] = clock
        BY <1>1, <2>1
  <2> QED  BY <1>1, <1>2, <2>1, <2>2, SeenGrows
<1>4. CASE Invalidate
  <2>1. cacheUntil' = 0 \/ UNCHANGED <<cache, cacheUntil>>
        BY <1>4 DEF Invalidate
  <2>2. UNCHANGED <<clock, row, seen, requestVars>>  BY <1>4 DEF Invalidate
  <2> QED  BY <1>2, <2>1, <2>2 DEF Recent, Sightings, Judged, requestVars
<1>5. CASE Tick
  <2>1. /\ seen' = [seen EXCEPT ![row] = clock + 1] /\ clock' = clock + 1
        /\ UNCHANGED <<row, cache, cacheUntil, requestVars>>
        BY <1>5 DEF Tick
  <2>2. /\ seen' \in [Tiers -> Int] /\ seen'[row'] = clock'
        /\ \A u \in Tiers : seen'[u] = seen[u] \/ seen'[u] = clock'
        /\ clock' \in Nat /\ clock <= clock'
        BY <1>1, <2>1
  <2> QED  BY <1>1, <1>2, <2>1, <2>2, SeenGrows
<1>6. CASE UNCHANGED vars
      BY <1>2, <1>6 DEF vars, tierVars, requestVars, Recent, Sightings, Judged
<1> QED  BY <1>2, <1>3, <1>4, <1>5, <1>6, RequestKeepsRecent DEF Next

(* The cache, the requests and the buckets keep their types: a request     *)
(* past the tier lookup has a tier, and no script leaves a bucket below    *)
(* zero or above its capacity (Tier, allowScript).                         *)
THEOREM AdmissionTypes == Spec => []TypeOK
<1>1. IndInv => TypeOK  BY DEF IndInv
<1> QED  BY <1>1, InitHolds, NextKeeps, PTL DEF Spec

(* For all tiers, limits and numbers of requests, no bucket grants more    *)
(* than its capacity and its fill, counting the intervals filled again     *)
(* (allowScript, with the TTL that Allow gives it).                        *)
THEOREM WithinBudget == Spec => []Budget
BY LedgersBalance, InitHolds, NextKeeps, PTL DEF Spec

(* A tier that was taken from the user decides about no request that comes *)
(* later than the life of a cache entry and the length of two requests,    *)
(* whatever fills and invalidations of the cache overtake each other, and  *)
(* although an invalidation may fail (Tier, Set, UpdateUserTier).          *)
THEOREM TierRecentAlways == Spec => []TierIsRecent
<1>1. Init => Recent
  <2> SUFFICES ASSUME Init PROVE Recent  OBVIOUS
  <2>1. Sightings  BY DEF Init, Sightings
  <2>2. ASSUME NEW r \in Requests PROVE Judged(r)  BY DEF Init, Judged
  <2> QED  BY <2>1, <2>2 DEF Recent
<1>2. IndInv /\ Recent => TierIsRecent
  <2> SUFFICES ASSUME IndInv, Recent, NEW r \in Requests,
                      stage[r] \in {"policy", "limit"}
               PROVE  clock - seen[tier[r]] < CacheTTL + 2 * MaxLag
      BY DEF TierIsRecent
  <2>1. /\ tier[r] \in Tiers /\ clock <= began[r] + MaxLag
        /\ began[r] < seen[tier[r]] + MaxLag + CacheTTL
        BY DEF IndInv, OnTime, Active, Recent, Judged
  <2>2. /\ seen[tier[r]] \in Int /\ began[r] \in Nat /\ clock \in Nat
        /\ MaxLag \in Nat /\ CacheTTL \in Nat
        BY <2>1, LimitsAssumption DEF IndInv, TypeOK
  <2> QED  BY <2>1, <2>2
<1> QED  BY <1>1, <1>2, InitHolds, NextKeeps, NextKeepsRecent, PTL DEF Spec
==============================================================================
