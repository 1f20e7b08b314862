--------------------------- MODULE PipelineProofs ---------------------------
(***************************************************************************)
(* The composition, for any number of jobs, users, workers, recovery loops *)
(* and faults.  First the queue alone, as any callers may use it: a job is *)
(* in one place (QueueInv).  For this the ring must hold each user once,   *)
(* and no user without pending jobs, and a job that may still be sent must *)
(* be unknown to the queue.  Then three invariants of the composition:     *)
(*   - OnePlace, from the invariant of the queue: every step of Next is an *)
(*     operation on the queue or none;                                     *)
(*   - CompletedIsEarned, from where a result may still be on its way:     *)
(*     worker stages after the inference, completion markers, and what a   *)
(*     recovery loop has read of them (WorkInv, ResultInv, RecoveryInv);   *)
(*   - SoleOwner, from OnePlace and from leases that outlive the present   *)
(*     (OwnerInv), which is what timely renewals give.                     *)
(***************************************************************************)
EXTENDS Pipeline, TLAPS

(* Every job at most once in the queue of its own user, and not leased.    *)
Placed == \A u \in Users : \A i \in 1..Len(queue[u]) :
             /\ Owner[queue[u][i]] = u /\ ~Leased(queue[u][i])
             /\ \A k \in 1..Len(queue[u]) : queue[u][i] = queue[u][k] => i = k

RingInv == /\ \A i \in 1..Len(ring) : queue[ring[i]] # << >>
           /\ \A i, k \in 1..Len(ring) : ring[i] = ring[k] => i = k

UnsentInv == \A j \in Jobs : phase[j] # "settled" /\ j \notin enqueueKey =>
                                ~Pending(j) /\ ~Leased(j)

QueueInv == FairTypeOK /\ Placed /\ RingInv /\ UnsentInv

(* What Append does to a sequence.                                         *)
LEMMA AppendFacts ==
    ASSUME NEW S, NEW s \in Seq(S), NEW x \in S
    PROVE  /\ Append(s, x) \in Seq(S)
           /\ Len(s) \in Nat
           /\ Len(Append(s, x)) = Len(s) + 1
           /\ \A i \in 1..Len(s) : Append(s, x)[i] = s[i]
           /\ Append(s, x)[Len(s) + 1] = x
           /\ Append(s, x) # << >>
  OBVIOUS

(* What Head and Tail do to a sequence.                                    *)
LEMMA TailFacts ==
    ASSUME NEW S, NEW s \in Seq(S), s # << >>
    PROVE  /\ Tail(s) \in Seq(S)
           /\ Head(s) \in S
           /\ Head(s) = s[1]
           /\ Len(s) \in Nat /\ Len(s) >= 1
           /\ Len(Tail(s)) = Len(s) - 1
           /\ \A i \in 1..(Len(s) - 1) : Tail(s)[i] = s[i + 1]
           /\ Tail(s) # << >> <=> Len(s) > 1
  OBVIOUS

(* A new element at the end of a sequence without repetitions.             *)
LEMMA AppendDistinct ==
    ASSUME NEW S, NEW s \in Seq(S), NEW x \in S,
           \A i, k \in 1..Len(s) : s[i] = s[k] => i = k,
           \A i \in 1..Len(s) : s[i] # x
    PROVE  \A i, k \in 1..Len(Append(s, x)) : Append(s, x)[i] = Append(s, x)[k] => i = k
<1> DEFINE t == Append(s, x)
<1>1. /\ Len(s) \in Nat /\ Len(t) = Len(s) + 1
      /\ \A i \in 1..Len(s) : t[i] = s[i]
      /\ t[Len(s) + 1] = x
  BY AppendFacts
<1> HIDE DEF t
<1> SUFFICES ASSUME NEW i \in 1..Len(t), NEW k \in 1..Len(t), t[i] = t[k] PROVE i = k
  BY DEF t
<1>2. /\ i \in 1..Len(s) \/ i = Len(s) + 1
      /\ k \in 1..Len(s) \/ k = Len(s) + 1
  BY <1>1
<1>3. CASE i \in 1..Len(s) /\ k \in 1..Len(s)
  BY <1>1, <1>3
<1>4. CASE i = Len(s) + 1 /\ k \in 1..Len(s)
  BY <1>1, <1>4
<1>5. CASE i \in 1..Len(s) /\ k = Len(s) + 1
  BY <1>1, <1>5
<1> QED
  BY <1>2, <1>3, <1>4, <1>5

(* The rest of such a sequence, in which the first element is missing.     *)
LEMMA TailDistinct ==
    ASSUME NEW S, NEW s \in Seq(S), s # << >>,
           \A i, k \in 1..Len(s) : s[i] = s[k] => i = k
    PROVE  /\ \A i, k \in 1..Len(Tail(s)) : Tail(s)[i] = Tail(s)[k] => i = k
           /\ \A i \in 1..Len(Tail(s)) :
                 Tail(s)[i] # Head(s) /\ \E k \in 1..Len(s) : Tail(s)[i] = s[k]
<1> DEFINE t == Tail(s)
<1>1. /\ Len(s) \in Nat /\ Len(s) >= 1 /\ Len(t) = Len(s) - 1 /\ Head(s) = s[1]
      /\ \A i \in 1..(Len(s) - 1) : t[i] = s[i + 1]
  BY TailFacts
<1> HIDE DEF t
<1>2. ASSUME NEW i \in 1..Len(t), NEW k \in 1..Len(t), t[i] = t[k]
      PROVE  i = k
  <2>1. i + 1 \in 1..Len(s) /\ k + 1 \in 1..Len(s) /\ s[i + 1] = s[k + 1]
    BY <1>1, <1>2
  <2>2. i + 1 = k + 1
    BY <2>1
  <2> QED
    BY <1>1, <2>2
<1>3. ASSUME NEW i \in 1..Len(t)
      PROVE  t[i] # Head(s) /\ \E k \in 1..Len(s) : t[i] = s[k]
  <2>1. i + 1 \in 1..Len(s) /\ 1 \in 1..Len(s) /\ i + 1 # 1 /\ t[i] = s[i + 1]
    BY <1>1
  <2> QED
    BY <1>1, <2>1
<1> QED
  BY <1>2, <1>3 DEF t

(* A job that is in no queue joins its user's, and loses its lease if it   *)
(* had one.                                                                *)
LEMMA JoinLemma ==
  ASSUME QueueInv, NEW j \in Jobs, ~Pending(j), Join(j),
         processing' \in [Jobs -> Nat], processing'[j] = 0,
         \A k \in Jobs : k # j => processing'[k] = processing[k]
  PROVE  /\ queue' \in [Users -> Seq(Jobs)] /\ ring' \in Seq(Users)
         /\ Placed' /\ RingInv'
         /\ \A k \in Jobs : Pending(k)' <=> Pending(k) \/ k = j
<1> DEFINE u == Owner[j]
           q == queue[u]
<1>1. /\ u \in Users /\ q \in Seq(Jobs) /\ ring \in Seq(Users)
      /\ queue \in [Users -> Seq(Jobs)]
  BY OwnerAssumption DEF QueueInv, FairTypeOK
<1>2. /\ queue'[u] = Append(q, j) /\ queue' \in [Users -> Seq(Jobs)]
      /\ \A v \in Users \ {u} : queue'[v] = queue[v]
  BY <1>1, AppendFacts DEF Join
<1>q. q \in Seq(Jobs)
  BY <1>1
<1>3. /\ Append(q, j) \in Seq(Jobs) /\ Len(q) \in Nat
      /\ Len(Append(q, j)) = Len(q) + 1
      /\ \A i \in 1..Len(q) : Append(q, j)[i] = q[i]
      /\ Append(q, j)[Len(q) + 1] = j
      /\ Append(q, j) # << >>
  BY <1>q, AppendFacts
<1>4. \A k \in Jobs : Pending(k)' <=> Pending(k) \/ k = j
  <2> SUFFICES ASSUME NEW k \in Jobs PROVE Pending(k)' <=> Pending(k) \/ k = j
    OBVIOUS
  <2>1. CASE Owner[k] # u
    BY <1>2, <2>1, OwnerAssumption DEF Pending
  <2>2. CASE Owner[k] = u
    <3>1. ASSUME Pending(k)' PROVE Pending(k) \/ k = j
      <4>1. PICK i \in 1..Len(queue'[u]) : queue'[u][i] = k
        BY <2>2, <3>1 DEF Pending
      <4>2. i \in 1..Len(q) \/ i = Len(q) + 1
        BY <1>2, <1>3, <4>1
      <4> QED
        BY <1>2, <1>3, <2>2, <4>1, <4>2 DEF Pending
    <3>2. ASSUME Pending(k) PROVE Pending(k)'
      <4>1. PICK i \in 1..Len(q) : q[i] = k
        BY <2>2, <3>2 DEF Pending
      <4>2. i \in 1..Len(queue'[u]) /\ queue'[u][i] = k
        BY <1>2, <1>3, <4>1
      <4> QED
        BY <2>2, <4>2 DEF Pending
    <3>3. ASSUME k = j PROVE Pending(k)'
      <4>1. Len(q) + 1 \in 1..Len(queue'[u])
        BY <1>2, <1>3
      <4> QED
        BY <1>2, <1>3, <3>3, <4>1 DEF Pending
    <3> QED
      BY <3>1, <3>2, <3>3
  <2> QED
    BY <2>1, <2>2
<1>5. Placed'
  <2>1. ASSUME NEW v \in Users, NEW i \in 1..Len(queue'[v])
        PROVE  Owner[queue'[v][i]] = v /\ processing'[queue'[v][i]] = 0
    <3>1. CASE v # u
      <4>1. queue'[v] = queue[v] /\ queue[v][i] \in Jobs /\ i \in 1..Len(queue[v])
        BY <1>1, <1>2, <2>1, <3>1
      <4>2. Owner[queue[v][i]] = v /\ processing[queue[v][i]] = 0
        BY <4>1 DEF QueueInv, Placed, Leased
      <4> QED
        BY <3>1, <4>1, <4>2
    <3>2. CASE v = u /\ i = Len(q) + 1
      BY <1>2, <1>3, <3>2
    <3>3. CASE v = u /\ i \in 1..Len(q)
      <4>1. queue'[u][i] = q[i] /\ q[i] \in Jobs /\ q[i] # j
        <5>1. queue'[u][i] = q[i]
          BY <1>2, <1>3, <3>3
        <5>2. q[i] \in Jobs
          BY <1>1, <3>3
        <5>3. q[i] # j
          BY <3>3 DEF Pending
        <5> QED
          BY <5>1, <5>2, <5>3
      <4>2. Owner[q[i]] = u /\ processing[q[i]] = 0
        BY <1>1, <3>3 DEF QueueInv, Placed, Leased
      <4> QED
        BY <3>3, <4>1, <4>2
    <3> QED
      BY <1>2, <1>3, <2>1, <3>1, <3>2, <3>3
  <2>2. ASSUME NEW v \in Users
        PROVE  \A i, k \in 1..Len(queue'[v]) : queue'[v][i] = queue'[v][k] => i = k
    <3>1. CASE v # u
      <4>1. queue'[v] = queue[v]
        BY <1>2, <2>2, <3>1
      <4>2. \A i, k \in 1..Len(queue[v]) : queue[v][i] = queue[v][k] => i = k
        BY DEF QueueInv, Placed
      <4> QED
        BY <4>1, <4>2
    <3>2. CASE v = u
      <4>1. \A m \in 1..Len(q) : q[m] # j
        BY DEF Pending
      <4>2. \A m, n \in 1..Len(q) : q[m] = q[n] => m = n
        BY <1>1 DEF QueueInv, Placed
      <4>3. \A m, n \in 1..Len(Append(q, j)) : Append(q, j)[m] = Append(q, j)[n] => m = n
        <5> HIDE DEF q, u
        <5>1. q \in Seq(Jobs) /\ j \in Jobs
          BY <1>q
        <5> QED
          BY ONLY Zenon, <5>1, <4>1, <4>2, AppendDistinct
      <4> QED
        BY <1>2, <3>2, <4>3
    <3> QED
      BY <3>1, <3>2
  <2> QED
    BY <2>1, <2>2 DEF Placed, Leased
<1>6. ring' \in Seq(Users) /\ RingInv'
  <2>1. \A v \in Users : queue[v] # << >> => queue'[v] # << >>
    BY <1>2, <1>3
  <2>2. CASE q # << >>
    <3>1. ring' = ring
      BY <2>2 DEF Join
    <3>2. \A i \in 1..Len(ring) : ring[i] \in Users /\ queue[ring[i]] # << >>
      BY <1>1 DEF QueueInv, RingInv
    <3>3. \A i, k \in 1..Len(ring) : ring[i] = ring[k] => i = k
      BY DEF QueueInv, RingInv
    <3> HIDE DEF q, u
    <3> QED
      BY <1>1, <2>1, <3>1, <3>2, <3>3 DEF RingInv
  <2>3. CASE q = << >>
    <3>1. ring' = Append(ring, u)
      BY <2>3 DEF Join
    <3>2. \A i \in 1..Len(ring) : ring[i] # u
      BY <2>3 DEF QueueInv, RingInv
    <3>3. \A i, k \in 1..Len(ring') : ring'[i] = ring'[k] => i = k
      BY <1>1, <3>1, <3>2, AppendDistinct DEF QueueInv, RingInv
    <3>4. ring' \in Seq(Users) /\ Len(ring) \in Nat /\ Len(ring') = Len(ring) + 1
          /\ (\A i \in 1..Len(ring) : ring'[i] = ring[i]) /\ ring'[Len(ring) + 1] = u
      BY <1>1, <3>1, AppendFacts
    <3>5. \A i \in 1..Len(ring') : queue'[ring'[i]] # << >>
      <4> SUFFICES ASSUME NEW i \in 1..Len(ring') PROVE queue'[ring'[i]] # << >>
        OBVIOUS
      <4>1. CASE i \in 1..Len(ring)
        <5>1. ring[i] \in Users /\ queue[ring[i]] # << >> /\ ring'[i] = ring[i]
          <6>1. ring[i] \in Users /\ ring'[i] = ring[i]
            BY <1>1, <3>4, <4>1
          <6>2. queue[ring[i]] # << >>
            BY <4>1 DEF QueueInv, RingInv
          <6> QED
            BY <6>1, <6>2
        <5> QED
          BY <2>1, <5>1
      <4>2. CASE i = Len(ring) + 1
        BY <1>2, <1>3, <3>4, <4>2
      <4> QED
        BY <3>4, <4>1, <4>2
    <3> QED
      BY <3>3, <3>4, <3>5 DEF RingInv
  <2> QED
    BY <2>2, <2>3
<1> QED
  BY <1>2, <1>4, <1>5, <1>6

(* The turn of the user at the front: its oldest job leaves the queue and  *)
(* is leased.                                                              *)
LEMMA ServeLemma ==
  ASSUME QueueInv, Serve
  PROVE  LET j == Head(queue[Head(ring)]) IN
         /\ j \in Jobs /\ Pending(j) /\ ~Leased(j)
         /\ processing' = [processing EXCEPT ![j] = now + Lease]
         /\ FairTypeOK' /\ Placed' /\ RingInv'
         /\ \A k \in Jobs : Pending(k)' => Pending(k)
<1> DEFINE u == Head(ring)
           q == queue[u]
           j == Head(q)
<1>1. /\ ring \in Seq(Users) /\ ring # << >> /\ queue \in [Users -> Seq(Jobs)]
      /\ processing \in [Jobs -> Nat] /\ now + Lease \in Nat
  BY LeaseAssumption DEF QueueInv, FairTypeOK, LeaseTypeOK, Serve
<1>2. /\ u \in Users /\ u = ring[1] /\ Tail(ring) \in Seq(Users)
      /\ Len(ring) \in Nat /\ Len(ring) >= 1
  BY <1>1, TailFacts
<1>3. q \in Seq(Jobs) /\ q # << >>
  <2>1. 1 \in 1..Len(ring)
    BY <1>2
  <2> QED
    BY <1>1, <1>2, <2>1 DEF QueueInv, RingInv
<1>4. /\ j \in Jobs /\ j = q[1] /\ Len(q) \in Nat /\ Len(q) >= 1
      /\ Tail(q) \in Seq(Jobs) /\ Len(Tail(q)) = Len(q) - 1
      /\ Tail(q) # << >> <=> Len(q) > 1
  <2> HIDE DEF q
  <2> QED
    BY <1>3, TailFacts
<1>5. /\ \A m, n \in 1..Len(q) : q[m] = q[n] => m = n
      /\ \A m \in 1..Len(q) : Owner[q[m]] = u /\ processing[q[m]] = 0
  BY <1>2 DEF QueueInv, Placed, Leased
<1>6. /\ \A m, n \in 1..Len(Tail(q)) : Tail(q)[m] = Tail(q)[n] => m = n
      /\ \A m \in 1..Len(Tail(q)) : Tail(q)[m] # j /\ \E k \in 1..Len(q) : Tail(q)[m] = q[k]
  <2> HIDE DEF q
  <2> QED
    BY <1>3, <1>5, TailDistinct
<1>7. /\ queue'[u] = Tail(q) /\ queue' \in [Users -> Seq(Jobs)]
      /\ \A v \in Users \ {u} : queue'[v] = queue[v]
  <2>1. queue' = [queue EXCEPT ![u] = Tail(q)]
    BY DEF Serve
  <2> HIDE DEF q, u
  <2> QED
    BY <1>1, <1>2, <1>4, <2>1
<1>8. processing' = [processing EXCEPT ![j] = now + Lease] /\ processing' \in [Jobs -> Nat]
  <2>1. processing' = [processing EXCEPT ![j] = now + Lease]
    BY DEF Serve, Grant
  <2> HIDE DEF j
  <2> QED
    BY <1>1, <1>4, <2>1
<1>9. Owner[j] = u /\ Pending(j) /\ ~Leased(j)
  <2>1. 1 \in 1..Len(q)
    BY <1>4
  <2> QED
    BY <1>4, <1>5, <2>1 DEF Pending, Leased
<1> HIDE DEF q, u, j
<1>10. \A k \in Jobs : Pending(k)' => Pending(k)
  <2> SUFFICES ASSUME NEW k \in Jobs, Pending(k)' PROVE Pending(k)
    OBVIOUS
  <2>1. CASE Owner[k] # u
    BY <1>7, <2>1, OwnerAssumption DEF Pending
  <2>2. CASE Owner[k] = u
    <3>1. PICK m \in 1..Len(Tail(q)) : Tail(q)[m] = k
      BY <1>7, <2>2 DEF Pending
    <3> QED
      BY <1>6, <2>2, <3>1 DEF Pending, q
  <2> QED
    BY <2>1, <2>2
<1>11. Placed'
  <2> SUFFICES ASSUME NEW v \in Users, NEW m \in 1..Len(queue'[v])
               PROVE  /\ Owner[queue'[v][m]] = v /\ processing'[queue'[v][m]] = 0
                      /\ \A n \in 1..Len(queue'[v]) : queue'[v][m] = queue'[v][n] => m = n
    BY DEF Placed, Leased
  <2>1. CASE v # u
    <3>1. /\ queue'[v] = queue[v] /\ queue[v][m] \in Jobs
          /\ Owner[queue[v][m]] = v /\ processing[queue[v][m]] = 0
          /\ \A n \in 1..Len(queue[v]) : queue[v][m] = queue[v][n] => m = n
      BY <1>1, <1>7, <2>1 DEF QueueInv, Placed, Leased
    <3> QED
      BY <1>1, <1>4, <1>8, <1>9, <2>1, <3>1
  <2>2. CASE v = u
    <3>1. PICK k \in 1..Len(q) : Tail(q)[m] = q[k] /\ q[k] # j
      BY <1>6, <1>7, <2>2
    <3>2. q[k] \in Jobs /\ Owner[q[k]] = u /\ processing[q[k]] = 0
      BY <1>3, <1>5, <3>1
    <3>3. processing'[q[k]] = 0
      BY <1>1, <1>4, <1>8, <3>1, <3>2
    <3>4. queue'[v] = Tail(q) /\ queue'[v][m] = q[k]
      BY <1>7, <2>2, <3>1
    <3>5. \A n \in 1..Len(queue'[v]) : queue'[v][m] = queue'[v][n] => m = n
      BY <1>6, <3>4
    <3> QED
      BY <2>2, <3>2, <3>3, <3>4, <3>5
  <2> QED
    BY <2>1, <2>2
<1>12. ring' \in Seq(Users) /\ RingInv'
  <2>1. /\ \A m, n \in 1..Len(Tail(ring)) : Tail(ring)[m] = Tail(ring)[n] => m = n
        /\ \A m \in 1..Len(Tail(ring)) :
               Tail(ring)[m] # u /\ \E k \in 1..Len(ring) : Tail(ring)[m] = ring[k]
    <3>1. \A m, n \in 1..Len(ring) : ring[m] = ring[n] => m = n
      BY DEF QueueInv, RingInv
    <3> QED
      BY Zenon, <1>1, <3>1, TailDistinct DEF u
  <2>2. \A m \in 1..Len(Tail(ring)) : Tail(ring)[m] \in Users /\ queue'[Tail(ring)[m]] # << >>
    <3> SUFFICES ASSUME NEW m \in 1..Len(Tail(ring))
                 PROVE  Tail(ring)[m] \in Users /\ queue'[Tail(ring)[m]] # << >>
      OBVIOUS
    <3>1. PICK k \in 1..Len(ring) : Tail(ring)[m] = ring[k] /\ ring[k] # u
      BY <2>1
    <3>2. ring[k] \in Users /\ queue[ring[k]] # << >>
      BY <1>1, <3>1 DEF QueueInv, RingInv
    <3> QED
      BY <1>7, <3>1, <3>2
  <2>3. CASE Len(q) > 1
    <3>1. ring' = Append(Tail(ring), u)
      BY <2>3 DEF Serve, q, u
    <3>2. /\ ring' \in Seq(Users) /\ Len(Tail(ring)) \in Nat
          /\ Len(ring') = Len(Tail(ring)) + 1
          /\ \A m \in 1..Len(Tail(ring)) : ring'[m] = Tail(ring)[m]
          /\ ring'[Len(Tail(ring)) + 1] = u
      BY <1>2, <3>1, AppendFacts
    <3>3. \A m, n \in 1..Len(ring') : ring'[m] = ring'[n] => m = n
      BY <1>2, <2>1, <3>1, AppendDistinct
    <3>4. ASSUME NEW m \in 1..Len(ring')
          PROVE  queue'[ring'[m]] # << >>
      <4>1. CASE m \in 1..Len(Tail(ring))
        BY <2>2, <3>2, <4>1
      <4>2. CASE m = Len(Tail(ring)) + 1
        BY <1>4, <1>7, <2>3, <3>2, <4>2
      <4> QED
        BY <3>2, <4>1, <4>2
    <3> QED
      BY <3>2, <3>3, <3>4 DEF RingInv
  <2>4. CASE ~(Len(q) > 1)
    <3>1. ring' = Tail(ring)
      BY <2>4 DEF Serve, q, u
    <3> QED
      BY <1>2, <2>1, <2>2, <3>1 DEF RingInv
  <2> QED
    BY <2>3, <2>4
<1>13. FairTypeOK'
  BY <1>7, <1>8, <1>12 DEF Serve, QueueInv, FairTypeOK, LeaseTypeOK
<1> QED
  BY <1>4, <1>8, <1>9, <1>10, <1>11, <1>12, <1>13 DEF q, u, j

(* A step that leaves the queues alone and grants no lease to a job        *)
(* without one.                                                            *)
LEMMA QuietLemma ==
  ASSUME QueueInv, UNCHANGED <<queue, ring>>, \A k \in Jobs : Leased(k)' => Leased(k)
  PROVE  /\ Placed' /\ RingInv'
         /\ \A k \in Jobs : Pending(k)' => Pending(k)
<1>1. Placed'
  <2> SUFFICES ASSUME NEW u \in Users, NEW m \in 1..Len(queue[u])
               PROVE  /\ Owner[queue[u][m]] = u /\ ~Leased(queue[u][m])'
                      /\ \A k \in 1..Len(queue[u]) : queue[u][m] = queue[u][k] => m = k
    BY DEF Placed, Leased
  <2>1. queue[u][m] \in Jobs
    BY DEF QueueInv, FairTypeOK
  <2> QED
    BY <2>1 DEF QueueInv, Placed
<1>2. RingInv'
  BY DEF QueueInv, RingInv
<1>3. \A k \in Jobs : Pending(k)' => Pending(k)
  BY DEF Pending
<1> QED
  BY <1>1, <1>2, <1>3

(* Every operation on the queue keeps the invariant.                       *)
LEMMA ServeStep ==
  ASSUME QueueInv, Serve
  PROVE  QueueInv'
<1> DEFINE j == Head(queue[Head(ring)])
<1>1. /\ j \in Jobs /\ Pending(j)
      /\ processing' = [processing EXCEPT ![j] = now + Lease]
      /\ FairTypeOK' /\ Placed' /\ RingInv'
      /\ \A k \in Jobs : Pending(k)' => Pending(k)
  BY ServeLemma
<1>2. UNCHANGED <<enqueueKey, phase>>
  BY DEF Serve
<1> HIDE DEF j
<1>3. \A k \in Jobs : k # j => processing'[k] = processing[k]
  BY <1>1 DEF QueueInv, FairTypeOK, LeaseTypeOK
<1>4. UnsentInv'
  BY <1>1, <1>2, <1>3 DEF QueueInv, UnsentInv, Leased
<1> QED
  BY <1>1, <1>4 DEF QueueInv

(* The other pending jobs stay in the queue.                               *)
LEMMA ServeLeaves ==
  ASSUME QueueInv, Serve, NEW k \in Jobs, Pending(k), k # Head(queue[Head(ring)])
  PROVE  Pending(k)'
<1> DEFINE u == Head(ring)
           q == queue[u]
<1>1. /\ ring \in Seq(Users) /\ ring # << >> /\ queue \in [Users -> Seq(Jobs)]
  BY DEF QueueInv, FairTypeOK, Serve
<1>2. u \in Users /\ u = ring[1] /\ 1 \in 1..Len(ring)
  BY <1>1, TailFacts
<1>3. q # << >> /\ q \in Seq(Jobs)
  BY <1>1, <1>2 DEF QueueInv, RingInv
<1>4. queue' = [queue EXCEPT ![u] = Tail(q)]
  BY DEF Serve
<1>5. PICK i \in 1..Len(queue[Owner[k]]) : queue[Owner[k]][i] = k
  BY DEF Pending
<1>6. Owner[k] \in Users
  BY OwnerAssumption
<1>7. CASE Owner[k] # u
  BY <1>1, <1>4, <1>5, <1>6, <1>7 DEF Pending
<1>8. CASE Owner[k] = u
  <2>1. i \in 1..Len(q) /\ q[i] = k /\ q[1] # k
    BY <1>3, <1>5, <1>8, TailFacts
  <2>2. /\ Len(q) \in Nat /\ Len(Tail(q)) = Len(q) - 1
        /\ \A m \in 1..(Len(q) - 1) : Tail(q)[m] = q[m + 1]
    BY <1>3, TailFacts
  <2> HIDE DEF q
  <2>3. i - 1 \in 1..Len(Tail(q)) /\ Tail(q)[i - 1] = k
    BY <2>1, <2>2
  <2>4. queue'[Owner[k]] = Tail(q)
    BY <1>1, <1>2, <1>4, <1>8
  <2> QED
    BY <2>3, <2>4 DEF Pending
<1> QED
  BY <1>7, <1>8

(* enqueue.lua: a job that is sent is in no place yet.                     *)
LEMMA SubmitStep ==
  ASSUME QueueInv, NEW j \in Jobs, Submit(j)
  PROVE  QueueInv'
<1>1. /\ UNCHANGED <<processing, completed, now>>
      /\ phase' \in [Jobs -> {"new", "sending", "settled"}]
      /\ \A k \in Jobs : k # j => phase'[k] = phase[k]
      /\ phase[j] # "settled" /\ phase'[j] = "sending"
      /\ LeaseTypeOK' /\ processing \in [Jobs -> Nat]
  BY DEF Submit, leaseVars, QueueInv, FairTypeOK, LeaseTypeOK
<1>2. CASE Full(j) \/ j \in enqueueKey
  <2>1. UNCHANGED <<queue, ring, enqueueKey>>
    BY <1>2 DEF Submit
  <2>2. Placed' /\ RingInv' /\ \A k \in Jobs : Pending(k)' => Pending(k)
    BY <1>1, <2>1, QuietLemma DEF Leased
  <2>3. FairTypeOK'
    BY <1>1, <2>1 DEF QueueInv, FairTypeOK
  <2>4. UnsentInv'
    BY <1>1, <2>1, <2>2 DEF QueueInv, UnsentInv, Leased
  <2> QED
    BY <2>2, <2>3, <2>4 DEF QueueInv
<1>3. CASE ~(Full(j) \/ j \in enqueueKey)
  <2>1. enqueueKey' = enqueueKey \cup {j} /\ Join(j)
    BY <1>3 DEF Submit
  <2>2. ~Pending(j) /\ processing[j] = 0
    BY <1>1, <1>3 DEF QueueInv, UnsentInv, Leased
  <2>3. /\ queue' \in [Users -> Seq(Jobs)] /\ ring' \in Seq(Users)
        /\ Placed' /\ RingInv'
        /\ \A k \in Jobs : Pending(k)' <=> Pending(k) \/ k = j
    BY <1>1, <2>1, <2>2, JoinLemma
  <2>4. FairTypeOK'
    BY <1>1, <2>1, <2>3 DEF QueueInv, FairTypeOK
  <2>5. UnsentInv'
    BY <1>1, <2>1, <2>3 DEF QueueInv, UnsentInv, Leased
  <2> QED
    BY <2>3, <2>4, <2>5 DEF QueueInv
<1> QED
  BY <1>2, <1>3

(* The requeue script: a job with an expired lease is in no queue.         *)
LEMMA RequeueStep ==
  ASSUME QueueInv, NEW j \in Jobs, NEW c, Requeue(j, c)
  PROVE  QueueInv'
<1>1. /\ Leased(j) /\ UNCHANGED <<completed, now, enqueueKey, phase>> /\ Join(j)
      /\ processing \in [Jobs -> Nat] /\ processing' \in [Jobs -> Nat]
      /\ processing'[j] = 0
      /\ \A k \in Jobs : k # j => processing'[k] = processing[k]
  BY DEF Requeue, Expired, Drop, QueueInv, FairTypeOK, LeaseTypeOK
<1>2. ~Pending(j)
  BY <1>1, OwnerAssumption DEF QueueInv, Placed, Pending
<1>3. /\ queue' \in [Users -> Seq(Jobs)] /\ ring' \in Seq(Users)
      /\ Placed' /\ RingInv'
      /\ \A k \in Jobs : Pending(k)' <=> Pending(k) \/ k = j
  BY <1>1, <1>2, JoinLemma
<1>4. FairTypeOK'
  BY <1>1, <1>3 DEF QueueInv, FairTypeOK, LeaseTypeOK
<1>5. UnsentInv'
  BY <1>1, <1>3 DEF QueueInv, UnsentInv, Leased
<1> QED
  BY <1>3, <1>4, <1>5 DEF QueueInv

(* The orphan script looks before it queues.                               *)
LEMMA AdoptStep ==
  ASSUME QueueInv, NEW j \in Jobs, Adopt(j)
  PROVE  QueueInv'
<1>1. /\ ~Pending(j) /\ processing[j] = 0 /\ phase[j] = "settled" /\ Join(j)
      /\ UNCHANGED <<processing, completed, now, enqueueKey, phase>>
      /\ processing \in [Jobs -> Nat]
  BY DEF Adopt, Leased, leaseVars, QueueInv, FairTypeOK, LeaseTypeOK
<1>2. /\ queue' \in [Users -> Seq(Jobs)] /\ ring' \in Seq(Users)
      /\ Placed' /\ RingInv'
      /\ \A k \in Jobs : Pending(k)' <=> Pending(k) \/ k = j
  BY <1>1, JoinLemma
<1>3. FairTypeOK'
  BY <1>1, <1>2 DEF QueueInv, FairTypeOK, LeaseTypeOK
<1>4. UnsentInv'
  BY <1>1, <1>2 DEF QueueInv, UnsentInv, Leased
<1> QED
  BY <1>2, <1>3, <1>4 DEF QueueInv

(* The rest moves no job: leases are renewed or dropped, keys expire, and  *)
(* requests come and end.                                                  *)
LEMMA QuietStep ==
  ASSUME QueueInv, UNCHANGED <<queue, ring>>, FairTypeOK',
         \A k \in Jobs : Leased(k)' => Leased(k),
         \A k \in Jobs : phase'[k] # "settled" /\ k \notin enqueueKey' =>
                            phase[k] # "settled" /\ k \notin enqueueKey
  PROVE  QueueInv'
<1>1. Placed' /\ RingInv' /\ \A k \in Jobs : Pending(k)' => Pending(k)
  BY QuietLemma
<1>2. UnsentInv'
  BY <1>1 DEF QueueInv, UnsentInv
<1> QED
  BY <1>1, <1>2 DEF QueueInv

(* A request is sent, or ends.                                             *)
LEMMA RequestStep ==
  ASSUME QueueInv, NEW j \in Jobs, NEW p \in {"sending", "settled"}, phase[j] # "settled",
         phase' = [phase EXCEPT ![j] = p], UNCHANGED <<leaseVars, queue, ring, enqueueKey>>
  PROVE  QueueInv'
<1>1. FairTypeOK'
  BY DEF QueueInv, FairTypeOK, LeaseTypeOK, leaseVars
<1>2. \A k \in Jobs : Leased(k)' => Leased(k)
  BY DEF Leased, leaseVars
<1>3. \A k \in Jobs : phase'[k] # "settled" => phase[k] # "settled"
  BY DEF QueueInv, FairTypeOK
<1> QED
  BY <1>1, <1>2, <1>3, QuietStep

(* A key expires once its request has ended.                               *)
LEMMA KeyStep ==
  ASSUME QueueInv, NEW j \in Jobs, KeyExpires(j)
  PROVE  QueueInv'
<1>1. FairTypeOK'
  BY DEF KeyExpires, QueueInv, FairTypeOK, LeaseTypeOK, leaseVars
<1>2. \A k \in Jobs : Leased(k)' => Leased(k)
  BY DEF KeyExpires, Leased, leaseVars
<1> QED
  BY <1>1, <1>2, QuietStep DEF KeyExpires

(* Leases are renewed and dropped, markers set and removed.                *)
LEMMA LeaseStepKeeps ==
  ASSUME QueueInv, NEW j \in Jobs, UNCHANGED queueVars,
         \/ ExtendProcessingLease(j) \/ ReleaseProcessingJob(j)
         \/ MarkJobCompleted(j) \/ RemoveCompletedJob(j)
         \/ (Drop(j) /\ UNCHANGED <<completed, now>>)
  PROVE  QueueInv'
<1> USE DEF QueueInv, FairTypeOK, LeaseTypeOK, queueVars
<1>1. now + Lease \in Nat
  BY LeaseAssumption
<1>2. CASE ExtendProcessingLease(j)
  <2>1. FairTypeOK'
    BY <1>1, <1>2 DEF ExtendProcessingLease, Grant
  <2>2. \A k \in Jobs : Leased(k)' => Leased(k)
    BY <1>2 DEF ExtendProcessingLease, Grant, Leased
  <2> QED
    BY <2>1, <2>2, QuietStep
<1>3. CASE Drop(j) /\ UNCHANGED <<completed, now>>
  <2>1. FairTypeOK'
    BY <1>3 DEF Drop
  <2>2. \A k \in Jobs : Leased(k)' => Leased(k)
    BY <1>3 DEF Drop, Leased
  <2> QED
    BY <2>1, <2>2, QuietStep
<1>4. CASE MarkJobCompleted(j) \/ RemoveCompletedJob(j)
  <2>1. FairTypeOK'
    BY <1>4 DEF MarkJobCompleted, RemoveCompletedJob
  <2>2. \A k \in Jobs : Leased(k)' => Leased(k)
    BY <1>4 DEF MarkJobCompleted, RemoveCompletedJob, Leased
  <2> QED
    BY <2>1, <2>2, QuietStep
<1>5. ReleaseProcessingJob(j) => Drop(j) /\ UNCHANGED <<completed, now>>
  BY DEF ReleaseProcessingJob
<1> QED
  BY <1>2, <1>3, <1>4, <1>5

(* Time passes, or nothing happens.                                        *)
LEMMA TickStep ==
  ASSUME QueueInv, UNCHANGED queueVars, Tick \/ UNCHANGED leaseVars
  PROVE  QueueInv'
<1>1. FairTypeOK'
  BY DEF Tick, leaseVars, queueVars, QueueInv, FairTypeOK, LeaseTypeOK
<1>2. \A k \in Jobs : Leased(k)' => Leased(k)
  BY DEF Tick, leaseVars, Leased
<1> QED
  BY <1>1, <1>2, QuietStep DEF queueVars

(* Every job is in one place, at most once, and only users with pending    *)
(* jobs have a turn, each of them one: the ring and the queues of          *)
(* dequeue.lua, enqueue.lua and the recovery scripts, for any number of    *)
(* users, jobs and callers.                                                *)
THEOREM QueueIsSound == FairSpec => [](Placed /\ RingInv)
<1>1. FairInit => QueueInv
  <2> SUFFICES ASSUME FairInit PROVE QueueInv
    OBVIOUS
  <2> USE DEF FairInit, LeaseInit
  <2>1. FairTypeOK
    BY DEF FairTypeOK, LeaseTypeOK
  <2>2. Placed /\ RingInv
    BY DEF Placed, RingInv
  <2>3. UnsentInv
    BY OwnerAssumption DEF UnsentInv, Pending, Leased
  <2> QED
    BY <2>1, <2>2, <2>3 DEF QueueInv
<1>2. QueueInv /\ [FairNext]_fairVars => QueueInv'
  <2> SUFFICES ASSUME QueueInv, [FairNext]_fairVars PROVE QueueInv'
    OBVIOUS
  <2>1. CASE Serve
    BY <2>1, ServeStep
  <2>2. ASSUME NEW j \in Jobs, \/ Submit(j) \/ SubmissionSettles(j) \/ KeyExpires(j) \/ Adopt(j)
        PROVE  QueueInv'
    BY <2>2, SubmitStep, RequestStep, KeyStep, AdoptStep DEF SubmissionSettles
  <2>3. ASSUME NEW j \in Jobs, LeaseStep(j)
        PROVE  QueueInv'
    BY <2>3, LeaseStepKeeps DEF LeaseStep
  <2>4. ASSUME NEW j \in Jobs, NEW c \in 0..now, Requeue(j, c)
        PROVE  QueueInv'
    BY <2>4, RequeueStep
  <2>5. ASSUME NEW j \in Jobs, NEW c \in 0..now, Discard(j, c)
        PROVE  QueueInv'
    BY <2>5, LeaseStepKeeps DEF Discard
  <2>6. CASE Tick /\ UNCHANGED queueVars
    BY <2>6, TickStep
  <2>7. CASE UNCHANGED fairVars
    BY <2>7, TickStep DEF fairVars, leaseVars, queueVars
  <2> QED
    BY <2>1, <2>2, <2>3, <2>4, <2>5, <2>6, <2>7 DEF FairNext
<1>3. QueueInv => Placed /\ RingInv
  BY DEF QueueInv
<1> QED
  BY <1>1, <1>2, <1>3, PTL DEF FairSpec
-----------------------------------------------------------------------------
(* From here on most steps need no arithmetic.                             *)
USE Zenon

DoneStages == {"mark", "doneRead", "doneWrite", "doneIdem", "doneClose", "doneRelease",
               "errClose", "errRelease"}
FinishStages == {"finishRead", "finishWrite", "finishIdem", "finishClose", "unmark"}

(* A worker beyond idle has a job in hand, which has a result once the     *)
(* worker is in the stages of success.                                     *)
WorkInv == /\ WorkerTypeOK
           /\ \A w \in Workers : /\ stage[w] \notin {"idle", "gone"} => held[w] \in Jobs
                                 /\ stage[w] \in DoneStages => held[w] \in produced

(* What is recorded as completed has a result.                             *)
ResultInv == StoreTypeOK /\ CompletedIsEarned /\ completed \subseteq produced

(* A recovery loop beyond its lists has a job in hand; what it read from   *)
(* the completion markers has a result.                                    *)
RecoveryInv ==
    /\ RecoveryTypeOK
    /\ \A r \in Recoverers :
          /\ rstage[r] \notin {"wait", "sweep", "reconcile", "adopt"} => rjob[r] \in Jobs
          /\ rstage[r] \in FinishStages => rjob[r] \in produced
          /\ rstage[r] \in FinishStages \cup {"reconcile"} => todo[r] \subseteq produced

FaultInv == crashes \in 0..MaxCrashes /\ errors \in 0..MaxErrors /\ stalls \in 0..MaxStalls

(* Leases outlive the present, and cutoffs do not.                         *)
OwnerInv == /\ \A r \in Recoverers : cutoff[r] <= now
            /\ stalls = MaxStalls => \A w \in Workers : Holding(w) => processing[held[w]] > now
            /\ SoleOwner

IndInv == QueueInv /\ WorkInv /\ ResultInv /\ RecoveryInv /\ FaultInv /\ OwnerInv

(* The queue's part of the invariant says that every job is in one place.  *)
LEMMA PlacedIsOnePlace == Placed <=> OnePlace
  BY DEF Placed, OnePlace

(* The initial states.                                                     *)
LEMMA IndInvInit == Init => IndInv
<1> SUFFICES ASSUME Init PROVE IndInv
  OBVIOUS
<1> USE DEF Init, FairInit, LeaseInit, StoreInit, WorkerInit, RecoveryInit
<1>1. QueueInv
  <2>1. FairTypeOK
    BY SMT DEF FairTypeOK, LeaseTypeOK
  <2>2. Placed /\ RingInv
    BY SMT DEF Placed, RingInv
  <2>3. UnsentInv
    BY SMT, OwnerAssumption DEF UnsentInv, Pending, Leased
  <2> QED
    BY <2>1, <2>2, <2>3 DEF QueueInv
<1>2. WorkInv
  BY DEF WorkInv, WorkerTypeOK, Stages, DoneStages
<1>3. ResultInv
  BY DEF ResultInv, StoreTypeOK, Terminal, CompletedIsEarned
<1>4. RecoveryInv
  BY DEF RecoveryInv, RecoveryTypeOK, RStages, FinishStages
<1>5. FaultInv
  BY SMT, FaultAssumption DEF FaultInv
<1>6. OwnerInv
  BY SMT DEF OwnerInv, Holding, SoleOwner
<1> QED
  BY <1>1, <1>2, <1>3, <1>4, <1>5, <1>6 DEF IndInv

(* A worker moves to another stage, or is done with its job.               *)
LEMMA GotoLemma ==
  ASSUME WorkInv, NEW w \in Workers, NEW s \in Stages, held[w] \in Jobs,
         s \in DoneStages => stage[w] \in DoneStages, Goto(w, s)
  PROVE  WorkInv' /\ produced' = produced
  BY DEF WorkInv, WorkerTypeOK, Goto

(* A worker is done with its job, or leaves.                               *)
LEMMA ReturnLemma ==
  ASSUME WorkInv, NEW w \in Workers, Return(w) \/ Leave(w)
  PROVE  WorkInv' /\ produced' = produced
  BY DEF WorkInv, WorkerTypeOK, Return, Leave, Stages, DoneStages

(* The writes to a job's record: a result is recorded only if there is     *)
(* one.                                                                    *)
LEMMA RecordLemma ==
  ASSUME ResultInv, NEW j \in Jobs, NEW s \in Terminal, s = "completed" => j \in produced,
         \/ UpdateStatus(j, s) \/ TransitionStatus(j, s) \/ PublishTerminal(j, s),
         produced' = produced, completed' = completed
  PROVE  ResultInv'
<1>1. StoreTypeOK'
  BY DEF ResultInv, StoreTypeOK, Terminal, UpdateStatus, TransitionStatus, PublishTerminal
<1>2. CompletedIsEarned'
  <2>1. CASE UpdateStatus(j, s)
    BY <2>1 DEF ResultInv, StoreTypeOK, CompletedIsEarned, UpdateStatus
  <2>2. CASE TransitionStatus(j, s)
    BY <2>2 DEF ResultInv, StoreTypeOK, CompletedIsEarned, TransitionStatus
  <2>3. CASE PublishTerminal(j, s)
    BY <2>3 DEF ResultInv, StoreTypeOK, CompletedIsEarned, PublishTerminal
  <2> QED
    BY <2>1, <2>2, <2>3
<1> QED
  BY <1>1, <1>2 DEF ResultInv

(* Nothing recorded, and no new marker.                                    *)
LEMMA ResultKept ==
  ASSUME ResultInv, UNCHANGED storeVars, produced \subseteq produced', produced' \subseteq Jobs,
         completed' \subseteq completed
  PROVE  ResultInv'
  BY DEF ResultInv, StoreTypeOK, CompletedIsEarned, storeVars

(* Every step of a worker, with its faults, keeps what is said of jobs in  *)
(* hand and of results.                                                    *)
LEMMA WorkerKeeps ==
  ASSUME QueueInv, WorkInv, ResultInv, NEW w \in Workers,
         \/ WorkerStep(w) \/ Heartbeat(w) \/ Crash(w)
         \/ ClaimReplyLost(w) \/ HeartbeatError(w) \/ CallError(w)
  PROVE  WorkInv' /\ ResultInv' /\ produced \subseteq produced'
<1> USE DEF Stages, DoneStages
<1>1. /\ produced \subseteq Jobs /\ stage[w] \in Stages
      /\ stage[w] \notin {"idle", "gone"} => held[w] \in Jobs
      /\ stage[w] \in DoneStages => held[w] \in produced
  BY DEF WorkInv, WorkerTypeOK
<1>2. CASE Claim(w)
  <2>1. Head(queue[Head(ring)]) \in Jobs
    BY <1>2, ServeLemma DEF Claim
  <2>2. WorkInv' /\ produced' = produced
    BY <1>2, <2>1 DEF Claim, WorkInv, WorkerTypeOK
  <2>3. completed' = completed /\ UNCHANGED storeVars
    BY <1>2 DEF Claim, Serve
  <2> QED
    BY <1>1, <2>2, <2>3, ResultKept
<1>3. CASE ClaimReplyLost(w)
  <2>1. WorkInv' /\ produced' = produced
    BY <1>3 DEF ClaimReplyLost, workerVars, WorkInv, WorkerTypeOK
  <2>2. completed' = completed /\ UNCHANGED storeVars
    BY <1>3 DEF ClaimReplyLost, Serve
  <2> QED
    BY <1>1, <2>1, <2>2, ResultKept
<1>4. CASE Heartbeat(w) \/ HeartbeatError(w)
  <2>1. WorkInv' /\ produced' = produced
    BY <1>4 DEF Heartbeat, HeartbeatError, WorkInv, WorkerTypeOK
  <2>2. completed' = completed /\ UNCHANGED storeVars
    BY <1>4 DEF Heartbeat, HeartbeatError, ExtendProcessingLease, leaseVars, fairVars
  <2> QED
    BY <1>1, <2>1, <2>2, ResultKept
<1>5. CASE RunSucceeds(w)
  <2>1. WorkInv' /\ produced' = produced \cup {held[w]} /\ held[w] \in Jobs
    BY <1>1, <1>5 DEF RunSucceeds, WorkInv, WorkerTypeOK
  <2>2. completed' = completed /\ UNCHANGED storeVars
    BY <1>5 DEF RunSucceeds, fairVars
  <2> QED
    BY <1>1, <2>1, <2>2, ResultKept
<1>6. CASE \/ RunFails(w) \/ FailRead(w) \/ DoneRead(w) \/ CallError(w) \/ Crash(w)
          \/ \E interrupted \in BOOLEAN : StopHeartbeat(w, interrupted)
  <2>1. WorkInv' /\ produced' = produced
    <3>1. CASE RunFails(w)
      BY <1>1, <1>6, <3>1, GotoLemma, ReturnLemma DEF RunFails
    <3>2. CASE \E interrupted \in BOOLEAN : StopHeartbeat(w, interrupted)
      BY <1>1, <1>6, <3>2, GotoLemma, ReturnLemma DEF StopHeartbeat
    <3>3. CASE FailRead(w)
      BY <1>1, <1>6, <3>3, GotoLemma DEF FailRead
    <3>4. CASE DoneRead(w)
      BY <1>1, <1>6, <3>4, GotoLemma DEF DoneRead
    <3>5. CASE CallError(w)
      <4>1. CASE AfterError[stage[w]] = "idle"
        BY <3>5, <4>1, ReturnLemma DEF CallError
      <4>2. CASE AfterError[stage[w]] # "idle"
        <5>1. Goto(w, AfterError[stage[w]]) /\ stage[w] \in DOMAIN AfterError
          BY <3>5, <4>2 DEF CallError
        <5>2. /\ stage[w] \notin {"idle", "gone"} /\ AfterError[stage[w]] \in Stages
              /\ AfterError[stage[w]] \in DoneStages => stage[w] \in DoneStages
          BY SMT, <4>2, <5>1 DEF AfterError
        <5> QED
          BY <1>1, <5>1, <5>2, GotoLemma
      <4> QED
        BY <4>1, <4>2
    <3>6. CASE Crash(w)
      BY <3>6, ReturnLemma DEF Crash
    <3> QED
      BY <1>6, <3>1, <3>2, <3>3, <3>4, <3>5, <3>6
  <2>2. completed' = completed /\ UNCHANGED storeVars
    BY <1>6 DEF RunFails, StopHeartbeat, FailRead, DoneRead, CallError, Crash, fairVars
  <2> QED
    BY <1>1, <2>1, <2>2, ResultKept
<1>7. CASE FailWrite(w) \/ FailIdem(w) \/ FailPublish(w)
  <2>1. WorkInv' /\ produced' = produced
    BY <1>1, <1>7, GotoLemma, ReturnLemma DEF FailWrite, FailIdem, FailPublish
  <2>2. completed' = completed /\ held[w] \in Jobs
    BY <1>1, <1>7 DEF FailWrite, FailIdem, FailPublish, fairVars
  <2>3. \/ UpdateStatus(held[w], "failed") \/ TransitionStatus(held[w], "failed")
        \/ PublishTerminal(held[w], "failed")
    BY <1>7 DEF FailWrite, FailIdem, FailPublish
  <2> QED
    BY <2>1, <2>2, <2>3, RecordLemma DEF Terminal
<1>8. CASE DoneWrite(w) \/ DoneIdem(w) \/ DoneClose(w) \/ ErrClose(w)
  <2>1. WorkInv' /\ produced' = produced
    BY <1>1, <1>8, GotoLemma DEF DoneWrite, DoneIdem, DoneClose, ErrClose
  <2>2. completed' = completed /\ held[w] \in Jobs /\ held[w] \in produced
    BY <1>1, <1>8 DEF DoneWrite, DoneIdem, DoneClose, ErrClose, fairVars
  <2>3. \/ UpdateStatus(held[w], "completed") \/ TransitionStatus(held[w], "completed")
        \/ PublishTerminal(held[w], "completed")
    BY <1>8 DEF DoneWrite, DoneIdem, DoneClose, ErrClose
  <2> QED
    BY <2>1, <2>2, <2>3, RecordLemma DEF Terminal
<1>9. CASE FailRelease(w) \/ DoneRelease(w) \/ ErrRelease(w)
  <2>1. WorkInv' /\ produced' = produced
    BY <1>1, <1>9, GotoLemma, ReturnLemma DEF FailRelease, DoneRelease, ErrRelease
  <2>2. completed' = completed /\ UNCHANGED storeVars
    BY <1>9 DEF FailRelease, DoneRelease, ErrRelease, ReleaseHeld, ReleaseProcessingJob, leaseVars
  <2> QED
    BY <1>1, <2>1, <2>2, ResultKept
<1>10. CASE Mark(w)
  <2>1. WorkInv' /\ produced' = produced
    BY <1>1, <1>10, GotoLemma DEF Mark
  <2>2. completed' = completed \cup {held[w]} /\ held[w] \in produced /\ UNCHANGED storeVars
    BY <1>1, <1>10 DEF Mark, MarkJobCompleted
  <2>3. ResultInv'
    BY <2>1, <2>2 DEF ResultInv, StoreTypeOK, CompletedIsEarned, storeVars
  <2> QED
    BY <2>1, <2>3
<1> QED
  BY <1>2, <1>3, <1>4, <1>5, <1>6, <1>7, <1>8, <1>9, <1>10 DEF WorkerStep

(* The lists and the job in hand of a recovery loop.                       *)
LEMMA RecoveryKept ==
  ASSUME RecoveryInv, UNCHANGED recoveryVars, produced \subseteq produced'
  PROVE  RecoveryInv'
  BY DEF RecoveryInv, RecoveryTypeOK, recoveryVars

(* A recovery loop moves to another stage of its job.                      *)
LEMMA RGotoLemma ==
  ASSUME RecoveryInv, NEW r \in Recoverers, NEW s \in RStages, rjob[r] \in Jobs,
         s \in FinishStages => rstage[r] \in FinishStages, s \notin {"reconcile"},
         RGoto(r, s), produced' = produced
  PROVE  RecoveryInv'
  BY DEF RecoveryInv, RecoveryTypeOK, RGoto

(* It is done with its job and goes back to the list.                      *)
LEMMA RNextLemma ==
  ASSUME RecoveryInv, NEW r \in Recoverers, NEW s \in {"sweep", "reconcile"},
         s = "reconcile" => rstage[r] \in FinishStages,
         RNext(r, s), produced' = produced
  PROVE  RecoveryInv'
  BY DEF RecoveryInv, RecoveryTypeOK, RNext, RStages, FinishStages

(* An error takes it back to the list its job came from.                   *)
LEMMA AfterErrorLemma ==
  ASSUME NEW s \in DOMAIN AfterRecoveryError, s # "finishClose"
  PROVE  /\ AfterRecoveryError[s] \in {"sweep", "reconcile"}
         /\ AfterRecoveryError[s] = "reconcile" => s \in FinishStages
<1>1. \/ s \in {"remove", "exhaust", "exhaustRead", "exhaustWrite", "exhaustIdem"}
      \/ s \in {"exhaustPublish", "requeue", "bump"}
      \/ s \in {"finishRead", "finishWrite", "finishIdem"}
  BY DEF AfterRecoveryError
<1>2. CASE s \in {"remove", "exhaust", "exhaustRead", "exhaustWrite", "exhaustIdem"}
  BY SMT, <1>2 DEF AfterRecoveryError
<1>3. CASE s \in {"exhaustPublish", "requeue", "bump"}
  BY SMT, <1>3 DEF AfterRecoveryError
<1>4. CASE s \in {"finishRead", "finishWrite", "finishIdem"}
  BY SMT, <1>4 DEF AfterRecoveryError, FinishStages
<1> QED
  BY <1>1, <1>2, <1>3, <1>4

(* It has read a list.                                                     *)
LEMMA RListLemma ==
  ASSUME RecoveryInv, NEW r \in Recoverers, NEW s \in {"wait", "sweep", "reconcile", "adopt"},
         NEW jobs \in SUBSET Jobs, s = "reconcile" => jobs \subseteq produced,
         RList(r, s, jobs), cutoff' \in [Recoverers -> Nat], produced' = produced
  PROVE  RecoveryInv'
  BY DEF RecoveryInv, RecoveryTypeOK, RList, RStages, FinishStages

(* Every step of a recovery loop, with its faults, keeps what is said of   *)
(* its lists and of results.                                               *)
LEMMA RecoveryKeeps ==
  ASSUME QueueInv, WorkInv, ResultInv, RecoveryInv, NEW r \in Recoverers,
         \/ RecoveryStep(r) \/ RecoveryCrash(r) \/ RecoveryCallError(r) \/ UnmarkError(r)
         \/ ListError(r) \/ \E j \in Jobs : SkipOne(r, j)
  PROVE  RecoveryInv' /\ ResultInv' /\ UNCHANGED workerVars
<1> USE DEF RStages, FinishStages
<1>1. /\ produced \subseteq Jobs /\ now \in Nat /\ rstage[r] \in RStages
      /\ todo[r] \subseteq Jobs /\ cutoff \in [Recoverers -> Nat] /\ retry \in [Jobs -> Nat]
      /\ completed \subseteq produced /\ old \subseteq Jobs
      /\ rstage[r] \notin {"wait", "sweep", "reconcile", "adopt"} => rjob[r] \in Jobs
      /\ rstage[r] \in FinishStages => rjob[r] \in produced
      /\ rstage[r] \in FinishStages \cup {"reconcile"} => todo[r] \subseteq produced
  BY DEF WorkInv, WorkerTypeOK, QueueInv, FairTypeOK, LeaseTypeOK, RecoveryInv,
         RecoveryTypeOK, ResultInv, StoreTypeOK
<1> DEFINE Still == UNCHANGED <<storeVars, workerVars>> /\ completed' \subseteq completed
<1>2. Still => ResultInv' /\ UNCHANGED workerVars /\ produced' = produced
  BY <1>1, ResultKept DEF workerVars
<1>3. CASE SweepStart(r) \/ ReconcileStart(r) \/ OrphansStart(r) \/ PassEnds(r)
  <2>1. Still
    BY <1>3 DEF SweepStart, ReconcileStart, OrphansStart, PassEnds, fairVars
  <2>2. cutoff' \in [Recoverers -> Nat]
    <3>1. \/ \E n \in Nat : cutoff' = [cutoff EXCEPT ![r] = n]
          \/ cutoff' = cutoff
      <4>1. now \in Nat /\ 0 \in Nat
        BY <1>1
      <4> QED
        BY <1>3, <4>1 DEF SweepStart, ReconcileStart, OrphansStart, PassEnds
    <3> QED
      BY <1>1, <3>1
  <2>3. \E s \in {"wait", "sweep", "reconcile", "adopt"}, jobs \in SUBSET Jobs :
           (s = "reconcile" => jobs \subseteq produced) /\ RList(r, s, jobs)
    <3>1. ExpiredJobIDs(now) \in SUBSET Jobs /\ completed \in SUBSET Jobs
          /\ PendingOrphans \in SUBSET Jobs /\ {} \in SUBSET Jobs
      BY <1>1 DEF ExpiredJobIDs, PendingOrphans
    <3> QED
      BY <1>1, <1>3, <3>1 DEF SweepStart, ReconcileStart, OrphansStart, PassEnds
  <2> HIDE DEF Still
  <2> QED
    BY <1>2, <2>1, <2>2, <2>3, RListLemma
<1>4. ASSUME NEW j \in Jobs, \/ RecoverOne(r, j) \/ ReconcileOne(r, j)
                             \/ AdoptOrphan(r, j) \/ SkipOne(r, j)
      PROVE  RecoveryInv' /\ Still
  <2>1. Still
    BY <1>4 DEF RecoverOne, ReconcileOne, AdoptOrphan, Adopt, SkipOne, fairVars, leaseVars
  <2>2. produced' = produced
    BY <2>1 DEF workerVars
  <2>3. RecoveryTypeOK'
    <3>1. CASE RecoverOne(r, j) \/ ReconcileOne(r, j)
      BY SMT, <1>1, <3>1 DEF RecoverOne, ReconcileOne, RTake, RecoveryInv, RecoveryTypeOK
    <3>2. CASE AdoptOrphan(r, j) \/ SkipOne(r, j)
      BY <1>1, <3>2 DEF AdoptOrphan, SkipOne, RTake, RecoveryInv, RecoveryTypeOK
    <3> QED
      BY <1>4, <3>1, <3>2
  <2>4. RecoveryInv'
    BY SMT, <1>1, <1>4, <2>2, <2>3 DEF RecoverOne, ReconcileOne, AdoptOrphan, SkipOne, RTake,
                                  RecoveryInv, RecoveryTypeOK
  <2> QED
    BY <2>1, <2>4
<1>5. CASE \/ RemoveFinished(r) \/ Exhaust(r) \/ ExhaustRead(r) \/ RequeueLost(r)
           \/ FinishRead(r) \/ Unmark(r) \/ RecoveryCallError(r)
  <2>1. Still
    BY <1>5 DEF RemoveFinished, Exhaust, ExhaustRead, RequeueLost, FinishRead, Unmark,
                RecoveryCallError, Discard, Requeue, RemoveCompletedJob, fairVars
  <2>2. produced' = produced
    BY <2>1 DEF workerVars
  <2>3. RecoveryInv'
    <3>1. CASE RemoveFinished(r) \/ Exhaust(r) \/ ExhaustRead(r) \/ RequeueLost(r)
      BY <1>1, <2>2, <3>1, RGotoLemma, RNextLemma
         DEF RemoveFinished, Exhaust, ExhaustRead, RequeueLost
    <3>2. CASE FinishRead(r) \/ Unmark(r)
      BY <1>1, <2>2, <3>2, RGotoLemma, RNextLemma DEF FinishRead, Unmark
    <3>3. CASE RecoveryCallError(r)
      <4>1. CASE rstage[r] = "finishClose"
        BY <1>1, <2>2, <3>3, <4>1, RGotoLemma DEF RecoveryCallError
      <4>2. CASE rstage[r] # "finishClose"
        <5>1. /\ RNext(r, AfterRecoveryError[rstage[r]])
              /\ rstage[r] \in DOMAIN AfterRecoveryError
          BY <3>3, <4>2 DEF RecoveryCallError
        <5>2. /\ AfterRecoveryError[rstage[r]] \in {"sweep", "reconcile"}
              /\ AfterRecoveryError[rstage[r]] = "reconcile" => rstage[r] \in FinishStages
          BY <4>2, <5>1, AfterErrorLemma
        <5> QED
          BY <2>2, <5>1, <5>2, RNextLemma
      <4> QED
        BY <4>1, <4>2
    <3> QED
      BY <1>5, <3>1, <3>2, <3>3
  <2> HIDE DEF Still
  <2> QED
    BY <1>2, <2>1, <2>3
<1>6. CASE UnmarkError(r) \/ ListError(r) \/ RecoveryCrash(r)
  <2>1. Still
    BY <1>6 DEF UnmarkError, ListError, RecoveryCrash, fairVars
  <2>2. produced' = produced
    BY <2>1 DEF workerVars
  <2>3. RecoveryInv'
    <3>1. CASE UnmarkError(r)
      BY <1>1, <2>2, <3>1 DEF UnmarkError, RecoveryInv, RecoveryTypeOK
    <3>2. CASE ListError(r)
      BY <1>1, <2>2, <3>2 DEF ListError, RGoto, RecoveryInv, RecoveryTypeOK
    <3>3. CASE RecoveryCrash(r)
      BY <1>1, <2>2, <3>3 DEF RecoveryCrash, RecoveryInv, RecoveryTypeOK
    <3> QED
      BY <1>6, <3>1, <3>2, <3>3
  <2> HIDE DEF Still
  <2> QED
    BY <1>2, <2>1, <2>3
<1>7. CASE ExhaustWrite(r) \/ ExhaustIdem(r) \/ ExhaustPublish(r)
  <2>1. /\ UNCHANGED workerVars /\ completed' = completed /\ produced' = produced
        /\ rjob[r] \in Jobs
    BY <1>1, <1>7 DEF ExhaustWrite, ExhaustIdem, ExhaustPublish, fairVars, workerVars
  <2>2. RecoveryInv'
    BY <1>1, <1>7, <2>1, RGotoLemma, RNextLemma DEF ExhaustWrite, ExhaustIdem, ExhaustPublish
  <2>3. \/ UpdateStatus(rjob[r], "failed") \/ TransitionStatus(rjob[r], "failed")
        \/ PublishTerminal(rjob[r], "failed")
    BY <1>7 DEF ExhaustWrite, ExhaustIdem, ExhaustPublish
  <2> QED
    BY <2>1, <2>2, <2>3, RecordLemma DEF Terminal
<1>8. CASE FinishWrite(r) \/ FinishIdem(r) \/ FinishClose(r)
  <2>1. /\ UNCHANGED workerVars /\ completed' = completed /\ produced' = produced
        /\ rjob[r] \in Jobs /\ rjob[r] \in produced
    BY <1>1, <1>8 DEF FinishWrite, FinishIdem, FinishClose, fairVars, workerVars
  <2>2. RecoveryInv'
    BY <1>1, <1>8, <2>1, RGotoLemma DEF FinishWrite, FinishIdem, FinishClose
  <2>3. \/ UpdateStatus(rjob[r], "completed") \/ TransitionStatus(rjob[r], "completed")
        \/ PublishTerminal(rjob[r], "completed")
    BY <1>8 DEF FinishWrite, FinishIdem, FinishClose
  <2> QED
    BY <2>1, <2>2, <2>3, RecordLemma DEF Terminal
<1>9. CASE BumpRetry(r)
  <2>1. /\ UNCHANGED workerVars /\ completed' = completed /\ produced' = produced
        /\ rjob[r] \in Jobs /\ seen[r] + 1 \in Nat
    BY SMT, <1>1, <1>9 DEF BumpRetry, fairVars, workerVars, RecoveryInv, RecoveryTypeOK
  <2>2. RecoveryInv'
    BY <1>1, <1>9, <2>1, RNextLemma DEF BumpRetry
  <2>3. ResultInv'
    BY <1>9, <2>1 DEF BumpRetry, UpdateCreated, ResultInv, StoreTypeOK, CompletedIsEarned
  <2> QED
    BY <2>1, <2>2, <2>3
<1> QED
  BY <1>2, <1>3, <1>4, <1>5, <1>6, <1>7, <1>8, <1>9 DEF RecoveryStep

(* Every step is an operation on the queue or leaves it alone.             *)
LEMMA WorkerQueue ==
  ASSUME QueueInv, WorkInv, NEW w \in Workers,
         \/ WorkerStep(w) \/ Heartbeat(w) \/ Crash(w)
         \/ ClaimReplyLost(w) \/ HeartbeatError(w) \/ CallError(w)
  PROVE  QueueInv'
<1>1. stage[w] \notin {"idle", "gone"} => held[w] \in Jobs
  BY DEF WorkInv
<1>2. UNCHANGED fairVars => QueueInv'
  BY TickStep DEF fairVars, leaseVars, queueVars
<1>3. CASE Claim(w) \/ ClaimReplyLost(w)
  BY <1>3, ServeStep DEF Claim, ClaimReplyLost
<1>4. CASE Heartbeat(w)
  <2>1. held[w] \in Jobs /\ UNCHANGED queueVars
    BY <1>1, <1>4 DEF Heartbeat, Beating
  <2>2. ExtendProcessingLease(held[w]) \/ UNCHANGED leaseVars
    BY <1>4 DEF Heartbeat
  <2> QED
    BY <2>1, <2>2, LeaseStepKeeps, TickStep
<1>5. CASE FailRelease(w) \/ DoneRelease(w) \/ ErrRelease(w)
  <2>1. held[w] \in Jobs /\ UNCHANGED queueVars
    BY <1>1, <1>5 DEF FailRelease, DoneRelease, ErrRelease, ReleaseHeld
  <2>2. ReleaseProcessingJob(held[w]) \/ UNCHANGED leaseVars
    BY <1>5 DEF FailRelease, DoneRelease, ErrRelease, ReleaseHeld
  <2> QED
    BY <2>1, <2>2, LeaseStepKeeps, TickStep
<1>6. CASE Mark(w)
  BY <1>1, <1>6, LeaseStepKeeps DEF Mark
<1>7. CASE \/ RunSucceeds(w) \/ RunFails(w) \/ FailRead(w) \/ FailWrite(w) \/ FailIdem(w)
           \/ FailPublish(w) \/ DoneRead(w) \/ DoneWrite(w) \/ DoneIdem(w) \/ DoneClose(w)
           \/ ErrClose(w) \/ Crash(w) \/ HeartbeatError(w) \/ CallError(w)
           \/ \E interrupted \in BOOLEAN : StopHeartbeat(w, interrupted)
  <2>1. UNCHANGED fairVars
    BY <1>7 DEF RunSucceeds, RunFails, FailRead, FailWrite, FailIdem, FailPublish, DoneRead,
                DoneWrite, DoneIdem, DoneClose, ErrClose, Crash, HeartbeatError, CallError,
                StopHeartbeat
  <2> QED
    BY <1>2, <2>1
<1> QED
  BY <1>3, <1>4, <1>5, <1>6, <1>7 DEF WorkerStep

(* The same of recovery loops.                                             *)
LEMMA RecoveryQueue ==
  ASSUME QueueInv, RecoveryInv, NEW r \in Recoverers,
         \/ RecoveryStep(r) \/ RecoveryCrash(r) \/ RecoveryCallError(r) \/ UnmarkError(r)
         \/ ListError(r) \/ \E j \in Jobs : SkipOne(r, j)
  PROVE  QueueInv'
<1>1. rstage[r] \notin {"wait", "sweep", "reconcile", "adopt"} => rjob[r] \in Jobs
  BY DEF RecoveryInv
<1>2. UNCHANGED fairVars => QueueInv'
  BY TickStep DEF fairVars, leaseVars, queueVars
<1>3. CASE RemoveFinished(r) \/ Exhaust(r)
  <2>1. rjob[r] \in Jobs
    BY <1>1, <1>3 DEF RemoveFinished, Exhaust
  <2>2. Discard(rjob[r], cutoff[r]) \/ UNCHANGED fairVars
    BY <1>3 DEF RemoveFinished, Exhaust
  <2> QED
    BY <1>2, <2>1, <2>2, LeaseStepKeeps DEF Discard
<1>4. CASE RequeueLost(r)
  <2>1. rjob[r] \in Jobs
    BY <1>1, <1>4 DEF RequeueLost
  <2>2. Requeue(rjob[r], cutoff[r]) \/ UNCHANGED fairVars
    BY <1>4 DEF RequeueLost
  <2> QED
    BY <1>2, <2>1, <2>2, RequeueStep
<1>5. CASE Unmark(r)
  BY <1>1, <1>5, LeaseStepKeeps DEF Unmark
<1>6. CASE \E j \in Jobs : AdoptOrphan(r, j)
  BY <1>2, <1>6, AdoptStep DEF AdoptOrphan
<1>7. CASE \/ SweepStart(r) \/ ExhaustRead(r) \/ ExhaustWrite(r) \/ ExhaustIdem(r)
           \/ ExhaustPublish(r) \/ BumpRetry(r) \/ ReconcileStart(r) \/ FinishRead(r)
           \/ FinishWrite(r) \/ FinishIdem(r) \/ FinishClose(r) \/ OrphansStart(r)
           \/ PassEnds(r) \/ RecoveryCrash(r) \/ RecoveryCallError(r) \/ UnmarkError(r)
           \/ ListError(r)
           \/ \E j \in Jobs : RecoverOne(r, j) \/ ReconcileOne(r, j) \/ SkipOne(r, j)
  <2>1. UNCHANGED fairVars
    BY <1>7 DEF SweepStart, ExhaustRead, ExhaustWrite, ExhaustIdem, ExhaustPublish, BumpRetry,
                ReconcileStart, FinishRead, FinishWrite, FinishIdem, FinishClose, OrphansStart,
                PassEnds, RecoveryCrash, RecoveryCallError, UnmarkError, ListError, RecoverOne,
                ReconcileOne, SkipOne
  <2> QED
    BY <1>2, <2>1
<1> QED
  BY <1>3, <1>4, <1>5, <1>6, <1>7 DEF RecoveryStep

(* A step under which no worker gains a job, and every job in hand keeps a *)
(* lease that outlives the present.                                        *)
LEMMA OwnerKept ==
  ASSUME OwnerInv, \A r \in Recoverers : cutoff'[r] <= now',
         stalls' = MaxStalls =>
            /\ stalls = MaxStalls
            /\ \A w \in Workers : Holding(w)' => /\ Holding(w) /\ held'[w] = held[w]
                                                 /\ processing'[held[w]] > now'
  PROVE  OwnerInv'
<1> USE DEF OwnerInv
<1>1. (stalls = MaxStalls => \A w \in Workers : Holding(w) => processing[held[w]] > now)'
  OBVIOUS
<1>2. SoleOwner'
  BY DEF SoleOwner
<1> QED
  BY <1>1, <1>2

(* Workers: a job that is claimed has no lease, so nobody holds it; a      *)
(* renewal lengthens a lease; a release ends the work of its only owner.   *)
LEMMA WorkerOwner ==
  ASSUME QueueInv, WorkInv, RecoveryInv, FaultInv, OwnerInv, NEW w \in Workers,
         \/ WorkerStep(w) \/ Heartbeat(w) \/ Crash(w)
         \/ ClaimReplyLost(w) \/ HeartbeatError(w) \/ CallError(w),
         stalls' = stalls, UNCHANGED recoveryVars
  PROVE  OwnerInv'
<1>1. /\ stage \in [Workers -> Stages] /\ held \in [Workers -> Jobs \cup {NoJob}]
      /\ processing \in [Jobs -> Nat] /\ now \in Nat /\ now + Lease > now /\ now + Lease \in Nat
      /\ \A v \in Workers : stage[v] \notin {"idle", "gone"} => held[v] \in Jobs
      /\ \A v \in Workers : Holding(v) => held[v] \in Jobs
      /\ cutoff' = cutoff /\ \A r \in Recoverers : cutoff[r] <= now
  BY SMT, LeaseAssumption DEF WorkInv, WorkerTypeOK, QueueInv, FairTypeOK, LeaseTypeOK, OwnerInv,
                         recoveryVars, Holding
<1>2. CASE Claim(w) \/ ClaimReplyLost(w)
  <2> DEFINE j == Head(queue[Head(ring)])
  <2>1. /\ j \in Jobs /\ ~Leased(j) /\ processing' = [processing EXCEPT ![j] = now + Lease]
        /\ now' = now
    BY <1>2, ServeLemma DEF Claim, ClaimReplyLost, Serve
  <2>2. \/ UNCHANGED <<stage, held>>
        \/ /\ stage' = [stage EXCEPT ![w] = "run"] /\ held' = [held EXCEPT ![w] = j]
           /\ stage[w] = "idle"
    BY <1>2 DEF Claim, ClaimReplyLost, workerVars
  <2> HIDE DEF j
  <2>3. stalls = MaxStalls => \A v \in Workers : Holding(v) =>
           held[v] # j /\ processing'[held[v]] = processing[held[v]] /\ processing[held[v]] > now
    BY SMT, <1>1, <2>1 DEF OwnerInv, Leased
  <2>4. CASE UNCHANGED <<stage, held>>
    BY <1>1, <2>1, <2>3, <2>4, OwnerKept DEF Holding
  <2>5. CASE /\ stage' = [stage EXCEPT ![w] = "run"] /\ held' = [held EXCEPT ![w] = j]
             /\ stage[w] = "idle"
    <3>1. /\ held'[w] = j /\ processing'[j] = now + Lease
          /\ \A v \in Workers : v # w => held'[v] = held[v] /\ (Holding(v)' <=> Holding(v))
      BY <1>1, <2>1, <2>5 DEF Holding
    <3>2. stalls = MaxStalls => \A v \in Workers : Holding(v)' => processing'[held'[v]] > now
      BY <1>1, <2>3, <3>1
    <3>3. SoleOwner'
      BY <2>3, <3>1 DEF OwnerInv, SoleOwner
    <3> QED
      BY <1>1, <2>1, <3>2, <3>3 DEF OwnerInv
  <2> QED
    BY <2>2, <2>4, <2>5
<1>3. CASE Heartbeat(w)
  <2>1. /\ UNCHANGED <<stage, held, now>> /\ held[w] \in Jobs
        /\ \/ UNCHANGED processing
           \/ processing' = [processing EXCEPT ![held[w]] = now + Lease]
    BY <1>1, <1>3 DEF Heartbeat, Beating, ExtendProcessingLease, Grant, leaseVars
  <2>2. stalls = MaxStalls => \A v \in Workers : Holding(v) => processing'[held[v]] > now
    BY <1>1, <2>1 DEF OwnerInv
  <2> QED
    BY <1>1, <2>1, <2>2, OwnerKept DEF Holding
<1>4. CASE FailRelease(w) \/ DoneRelease(w) \/ ErrRelease(w)
  <2>1. /\ stage[w] \in {"failRelease", "doneRelease", "errRelease"}
        /\ stage'[w] \in {"failPublish", "idle"} /\ now' = now
        /\ \A v \in Workers : v # w => stage'[v] = stage[v] /\ held'[v] = held[v]
        /\ held[w] \in Jobs
    BY <1>1, <1>4 DEF FailRelease, DoneRelease, ErrRelease, ReleaseHeld, ReleaseProcessingJob,
                      leaseVars, Goto, Return
  <2>2. UNCHANGED processing \/ processing' = [processing EXCEPT ![held[w]] = 0]
    BY <1>4 DEF FailRelease, DoneRelease, ErrRelease, ReleaseHeld, ReleaseProcessingJob, Drop,
                leaseVars
  <2>3. Holding(w) /\ ~Holding(w)' /\ \A v \in Workers : v # w => (Holding(v)' <=> Holding(v))
    BY <2>1 DEF Holding
  <2>4. stalls = MaxStalls => \A v \in Workers : v # w /\ Holding(v) => held[v] # held[w]
    BY <2>3 DEF OwnerInv, SoleOwner
  <2>5. stalls = MaxStalls => \A v \in Workers : v # w /\ Holding(v) => processing'[held[v]] > now
    BY <1>1, <2>1, <2>2, <2>4 DEF OwnerInv
  <2> QED
    BY <1>1, <2>1, <2>3, <2>5, OwnerKept
<1>5. CASE \/ RunSucceeds(w) \/ RunFails(w) \/ FailRead(w) \/ FailWrite(w) \/ FailIdem(w)
           \/ FailPublish(w) \/ Mark(w) \/ DoneRead(w) \/ DoneWrite(w) \/ DoneIdem(w)
           \/ DoneClose(w) \/ ErrClose(w) \/ Crash(w) \/ HeartbeatError(w) \/ CallError(w)
           \/ \E interrupted \in BOOLEAN : StopHeartbeat(w, interrupted)
  <2>1. now' = now /\ processing' = processing
    BY <1>5 DEF RunSucceeds, RunFails, FailRead, FailWrite, FailIdem, FailPublish, DoneRead,
                DoneWrite, DoneIdem, DoneClose, ErrClose, Crash, HeartbeatError, CallError,
                StopHeartbeat, Mark, MarkJobCompleted, fairVars
  <2>2. \A v \in Workers : Holding(v)' => Holding(v) /\ held'[v] = held[v]
    <3>1. CASE Crash(w) \/ CallError(w)
      <4>1. CASE Return(w)
        BY <1>1, <4>1 DEF Return, Holding
      <4>2. CASE CallError(w) /\ ~Return(w)
        <5>1. /\ Goto(w, AfterError[stage[w]]) /\ stage[w] \in DOMAIN AfterError
          BY <4>2 DEF CallError
        <5>2. Holding(w) \/ AfterError[stage[w]] = "idle"
          <6>1. stage[w] \notin {"idle", "gone"} /\ AfterError.failPublish = "idle"
            BY <5>1 DEF AfterError
          <6>2. CASE stage[w] = "failPublish"
            BY <6>1, <6>2
          <6>3. CASE stage[w] # "failPublish"
            BY <6>1, <6>3 DEF Holding
          <6> QED
            BY <6>2, <6>3
        <5>3. /\ held' = held /\ stage'[w] = AfterError[stage[w]]
              /\ \A v \in Workers : v # w => stage'[v] = stage[v]
          BY <1>1, <5>1 DEF Goto
        <5> HIDE DEF AfterError
        <5> QED
          BY <5>2, <5>3 DEF Holding
      <4> QED
        BY <3>1, <4>1, <4>2 DEF Crash
    <3>2. CASE HeartbeatError(w)
      BY <3>2 DEF HeartbeatError, Holding
    <3>3. CASE \/ RunSucceeds(w) \/ RunFails(w) \/ FailRead(w) \/ FailWrite(w) \/ FailIdem(w)
               \/ FailPublish(w)
               \/ \E interrupted \in BOOLEAN : StopHeartbeat(w, interrupted)
      BY <1>1, <3>3 DEF RunSucceeds, RunFails, FailRead, FailWrite, FailIdem, FailPublish,
                        StopHeartbeat, Goto, Return, Leave, Holding
    <3>4. CASE \/ Mark(w) \/ DoneRead(w) \/ DoneWrite(w) \/ DoneIdem(w) \/ DoneClose(w)
               \/ ErrClose(w)
      BY <1>1, <3>4 DEF Mark, DoneRead, DoneWrite, DoneIdem, DoneClose, ErrClose, Goto, Holding
    <3> QED
      BY <1>5, <3>1, <3>2, <3>3, <3>4
  <2> QED
    BY <1>1, <2>1, <2>2, OwnerKept DEF OwnerInv
<1> QED
  BY <1>2, <1>3, <1>4, <1>5 DEF WorkerStep

(* What ended by a cutoff in the past has ended.                           *)
LEMMA BeforeCutoff == \A a, b, c \in Nat : a <= b /\ b <= c => ~(a > c)
  BY SMT

(* Recovery loops: a lease that is taken away ended before the cutoff, so  *)
(* it is nobody's.                                                         *)
LEMMA RecoveryOwner ==
  ASSUME QueueInv, WorkInv, RecoveryInv, OwnerInv, NEW r \in Recoverers,
         \/ RecoveryStep(r) \/ RecoveryCrash(r) \/ RecoveryCallError(r) \/ UnmarkError(r)
         \/ ListError(r) \/ \E j \in Jobs : SkipOne(r, j),
         stalls' = stalls, UNCHANGED workerVars
  PROVE  OwnerInv'
<1>1. /\ processing \in [Jobs -> Nat] /\ now \in Nat /\ cutoff \in [Recoverers -> Nat]
      /\ rstage[r] \notin {"wait", "sweep", "reconcile", "adopt"} => rjob[r] \in Jobs
      /\ \A v \in Workers : Holding(v) => held[v] \in Jobs
      /\ \A v \in Workers : Holding(v)' <=> Holding(v)
      /\ held' = held /\ \A q \in Recoverers : cutoff[q] <= now
  BY DEF WorkInv, QueueInv, FairTypeOK, LeaseTypeOK, RecoveryInv, RecoveryTypeOK, OwnerInv,
         workerVars, Holding
<1>2. CASE RemoveFinished(r) \/ Exhaust(r) \/ RequeueLost(r)
  <2>1. /\ rjob[r] \in Jobs /\ now' = now /\ cutoff' = cutoff
        /\ \/ UNCHANGED processing
           \/ /\ processing' = [processing EXCEPT ![rjob[r]] = 0]
              /\ processing[rjob[r]] <= cutoff[r]
    BY <1>1, <1>2 DEF RemoveFinished, Exhaust, RequeueLost, Discard, Requeue, Expired, Drop,
                      fairVars, RGoto, RNext
  <2>2. stalls = MaxStalls => \A v \in Workers : Holding(v) => processing'[held[v]] > now
    <3> SUFFICES ASSUME stalls = MaxStalls, NEW v \in Workers, Holding(v)
                 PROVE  processing'[held[v]] > now
      OBVIOUS
    <3>1. held[v] \in Jobs /\ processing[held[v]] > now
      BY <1>1 DEF OwnerInv
    <3>2. CASE UNCHANGED processing
      BY <3>1, <3>2
    <3>3. CASE /\ processing' = [processing EXCEPT ![rjob[r]] = 0]
               /\ processing[rjob[r]] <= cutoff[r]
      <4>0. cutoff[r] \in Nat /\ cutoff[r] <= now /\ now \in Nat
            /\ processing[rjob[r]] \in Nat /\ processing[rjob[r]] <= cutoff[r]
        BY <1>1, <2>1, <3>3
      <4>1. ~(processing[rjob[r]] > now)
        BY <4>0, BeforeCutoff
      <4>2. held[v] # rjob[r]
        BY <3>1, <4>1
      <4> QED
        BY <1>1, <3>1, <3>3, <4>2
    <3> QED
      BY <2>1, <3>2, <3>3
  <2> QED
    BY <1>1, <2>1, <2>2, OwnerKept
<1>3. CASE ~(RemoveFinished(r) \/ Exhaust(r) \/ RequeueLost(r))
  <2>1. now' = now /\ processing' = processing
    BY <1>3 DEF RecoveryStep, SweepStart, ExhaustRead, ExhaustWrite, ExhaustIdem, ExhaustPublish,
                BumpRetry, ReconcileStart, FinishRead, FinishWrite, FinishIdem, FinishClose,
                OrphansStart, PassEnds, RecoveryCrash, RecoveryCallError, UnmarkError, ListError,
                RecoverOne, ReconcileOne, SkipOne, AdoptOrphan, Adopt, Unmark,
                RemoveCompletedJob, fairVars, leaseVars
  <2>2. \/ cutoff' = cutoff
        \/ cutoff' = [cutoff EXCEPT ![r] = now] \/ cutoff' = [cutoff EXCEPT ![r] = 0]
    BY <1>3 DEF RecoveryStep, SweepStart, ExhaustRead, ExhaustWrite, ExhaustIdem, ExhaustPublish,
                BumpRetry, ReconcileStart, FinishRead, FinishWrite, FinishIdem, FinishClose,
                OrphansStart, PassEnds, RecoveryCrash, RecoveryCallError, UnmarkError, ListError,
                RecoverOne, ReconcileOne, SkipOne, AdoptOrphan, Unmark, RGoto, RNext, RList
  <2>3. \A q \in Recoverers : cutoff'[q] <= now'
    <3>1. ASSUME NEW q \in Recoverers PROVE cutoff'[q] <= now
      <4>1. cutoff[q] <= now /\ now \in Nat /\ cutoff \in [Recoverers -> Nat]
        BY <1>1
      <4>2. CASE cutoff' = cutoff
        BY <4>1, <4>2
      <4>3. CASE cutoff' = [cutoff EXCEPT ![r] = now]
        BY SMT, <4>1, <4>3
      <4>4. CASE cutoff' = [cutoff EXCEPT ![r] = 0]
        BY SMT, <4>1, <4>4
      <4> QED
        BY <2>2, <4>2, <4>3, <4>4
    <3> QED
      BY <2>1, <3>1
  <2>4. stalls = MaxStalls => \A v \in Workers : Holding(v) => processing'[held[v]] > now'
    BY <2>1 DEF OwnerInv
  <2> QED
    BY <1>1, <2>3, <2>4, OwnerKept
<1> QED
  BY <1>2, <1>3

(* Requests and the clock.                                                 *)
LEMMA RequestNext ==
  ASSUME IndInv, NEW j \in Jobs,
         \/ Accept(j) \/ EnqueueAccepted(j) \/ RequestEnds(j) \/ LeavesOrphan(j) \/ GraceEnds(j)
  PROVE  IndInv'
<1>1. UNCHANGED <<leaseVars, workerVars, recoveryVars>>
  BY DEF Accept, EnqueueAccepted, Submit, RequestEnds, SubmissionSettles, LeavesOrphan, GraceEnds,
         fairVars, leaseVars
<1>2. QueueInv'
  <2>1. CASE Accept(j)
    BY <2>1, RequestStep DEF Accept, IndInv
  <2>2. CASE EnqueueAccepted(j)
    BY <2>2, SubmitStep DEF EnqueueAccepted, IndInv
  <2>3. CASE RequestEnds(j) \/ LeavesOrphan(j)
    BY <2>3, RequestStep DEF RequestEnds, LeavesOrphan, SubmissionSettles, IndInv
  <2>4. CASE GraceEnds(j)
    BY <2>4, TickStep DEF GraceEnds, fairVars, queueVars, leaseVars, IndInv
  <2> QED
    BY <2>1, <2>2, <2>3, <2>4
<1>3. WorkInv' /\ RecoveryInv'
  <2>1. WorkInv'
    BY <1>1 DEF IndInv, WorkInv, WorkerTypeOK, workerVars
  <2> QED
    BY <1>1, <2>1, RecoveryKept DEF IndInv, workerVars
<1>4. ResultInv'
  <2>1. CASE UNCHANGED storeVars
    BY <1>1, <2>1, ResultKept DEF IndInv, WorkInv, WorkerTypeOK, workerVars, leaseVars
  <2>2. CASE Accept(j)
    BY <1>1, <2>2 DEF Accept, Create, IndInv, ResultInv, StoreTypeOK, CompletedIsEarned,
                      workerVars, leaseVars, Terminal
  <2>3. CASE GraceEnds(j)
    BY <1>1, <2>3 DEF GraceEnds, Ages, IndInv, ResultInv, StoreTypeOK, CompletedIsEarned,
                      workerVars, leaseVars
  <2> QED
    BY <2>1, <2>2, <2>3 DEF EnqueueAccepted, RequestEnds, LeavesOrphan
<1>5. FaultInv' /\ (stalls' = MaxStalls => stalls = MaxStalls)
  <2>1. FaultInv /\ MaxStalls \in Nat /\ MaxErrors \in Nat
    BY FaultAssumption DEF IndInv
  <2>2. \/ UNCHANGED faultVars
        \/ Errs /\ UNCHANGED <<crashes, stalls>>
        \/ Stalls /\ UNCHANGED <<crashes, errors>>
    BY DEF Accept, EnqueueAccepted, RequestEnds, LeavesOrphan, GraceEnds, faultVars
  <2>3. CASE UNCHANGED faultVars
    BY <2>1, <2>3 DEF FaultInv, faultVars
  <2>4. CASE Errs /\ UNCHANGED <<crashes, stalls>>
    BY SMT, <2>1, <2>4 DEF FaultInv, Errs
  <2>5. CASE Stalls /\ UNCHANGED <<crashes, errors>>
    BY SMT, <2>1, <2>5 DEF FaultInv, Stalls
  <2> QED
    BY <2>2, <2>3, <2>4, <2>5
<1>6. OwnerInv'
  <2>1. /\ UNCHANGED <<processing, now, held, stage, cutoff>> /\ OwnerInv
    BY <1>1 DEF IndInv, leaseVars, workerVars, recoveryVars
  <2>2. \A w \in Workers : Holding(w)' <=> Holding(w)
    BY <2>1 DEF Holding
  <2>3. \A r \in Recoverers : cutoff'[r] <= now'
    BY <2>1 DEF OwnerInv
  <2>4. stalls = MaxStalls => \A w \in Workers : Holding(w) => processing'[held[w]] > now'
    BY <2>1 DEF OwnerInv
  <2> QED
    BY <1>5, <2>1, <2>2, <2>3, <2>4, OwnerKept
<1> QED
  BY <1>2, <1>3, <1>4, <1>5, <1>6 DEF IndInv

(* A step of a worker or of a recovery loop spends at most one fault.      *)
FaultStep == \/ Crashes /\ UNCHANGED <<errors, stalls>>
             \/ Errs /\ UNCHANGED <<crashes, stalls>>
             \/ UNCHANGED faultVars

LEMMA FaultsBounded ==
  ASSUME FaultInv, FaultStep
  PROVE  FaultInv'
<1>1. MaxCrashes \in Nat /\ MaxErrors \in Nat
  BY FaultAssumption
<1> QED
  BY SMT, <1>1 DEF FaultInv, FaultStep, Crashes, Errs, faultVars

(* The clock.                                                              *)
LEMMA ClockNext ==
  ASSUME IndInv, TimePasses
  PROVE  IndInv'
<1>1. /\ UNCHANGED <<queueVars, storeVars, workerVars, recoveryVars, crashes, errors>>
      /\ Tick
  BY DEF TimePasses
<1>2. QueueInv'
  BY <1>1, TickStep DEF IndInv
<1>3. WorkInv'
  BY <1>1 DEF IndInv, WorkInv, WorkerTypeOK, workerVars
<1>4. RecoveryInv'
  BY <1>1, RecoveryKept DEF IndInv, workerVars
<1>5. ResultInv'
  BY <1>1, ResultKept DEF IndInv, WorkInv, WorkerTypeOK, workerVars, Tick
<1>6. FaultInv'
  BY SMT, <1>1, FaultAssumption DEF IndInv, FaultInv, TimePasses, Stalls
<1>7. stalls' = MaxStalls => stalls = MaxStalls /\ \A w \in Workers : ~LosesLease(w)
  BY SMT, FaultAssumption DEF IndInv, FaultInv, TimePasses, Stalls
<1>8. \A w \in Workers : Holding(w) => held[w] \in Jobs /\ processing[held[w]] \in Nat
  BY DEF IndInv, WorkInv, QueueInv, FairTypeOK, LeaseTypeOK, Holding
<1>9. stalls' = MaxStalls => \A w \in Workers : Holding(w) => processing[held[w]] > now + 1
  BY SMT, <1>7, <1>8 DEF IndInv, OwnerInv, LosesLease, Leased, QueueInv, FairTypeOK, LeaseTypeOK
<1>10. \A r \in Recoverers : cutoff'[r] <= now'
  BY SMT, <1>1 DEF IndInv, OwnerInv, Tick, recoveryVars, RecoveryInv, RecoveryTypeOK, QueueInv,
              FairTypeOK, LeaseTypeOK
<1>11. OwnerInv'
  BY <1>1, <1>7, <1>9, <1>10, OwnerKept DEF IndInv, Tick, workerVars, Holding
<1> QED
  BY <1>2, <1>3, <1>4, <1>5, <1>6, <1>11 DEF IndInv

(* Every step keeps the invariant.                                         *)
LEMMA IndInvNext == IndInv /\ [Next]_vars => IndInv'
<1> SUFFICES ASSUME IndInv, [Next]_vars PROVE IndInv'
  OBVIOUS
<1>1. ASSUME NEW w \in Workers, WorkerActs(w) \/ HeartbeatActs(w) \/ WorkerFault(w)
      PROVE  IndInv'
  <2>1. /\ \/ WorkerStep(w) \/ Heartbeat(w) \/ Crash(w)
           \/ ClaimReplyLost(w) \/ HeartbeatError(w) \/ CallError(w)
        /\ UNCHANGED recoveryVars /\ stalls' = stalls
    BY <1>1 DEF WorkerActs, HeartbeatActs, WorkerFault, faultVars
  <2>2. QueueInv' /\ OwnerInv'
    BY <2>1, WorkerQueue, WorkerOwner DEF IndInv
  <2>3. WorkInv' /\ ResultInv' /\ produced \subseteq produced'
    BY <2>1, WorkerKeeps DEF IndInv
  <2>4. RecoveryInv'
    BY <2>1, <2>3, RecoveryKept DEF IndInv
  <2>5. FaultInv'
    <3>1. FaultStep
      BY <1>1 DEF WorkerActs, HeartbeatActs, WorkerFault, FaultStep
    <3> QED
      BY <3>1, FaultsBounded DEF IndInv
  <2> QED
    BY <2>2, <2>3, <2>4, <2>5 DEF IndInv
<1>2. ASSUME NEW r \in Recoverers, RecoveryActs(r) \/ RecoveryFault(r)
      PROVE  IndInv'
  <2>1. /\ \/ RecoveryStep(r) \/ RecoveryCrash(r) \/ RecoveryCallError(r) \/ UnmarkError(r)
           \/ ListError(r) \/ \E j \in Jobs : SkipOne(r, j)
        /\ stalls' = stalls
    BY <1>2 DEF RecoveryActs, RecoveryFault, faultVars
  <2>2. RecoveryInv' /\ ResultInv' /\ UNCHANGED workerVars
    BY <2>1, RecoveryKeeps DEF IndInv
  <2>3. QueueInv' /\ OwnerInv'
    BY <2>1, <2>2, RecoveryQueue, RecoveryOwner DEF IndInv
  <2>4. WorkInv'
    BY <2>2 DEF IndInv, WorkInv, WorkerTypeOK, workerVars
  <2>5. FaultInv'
    <3>1. FaultStep
      BY <1>2 DEF RecoveryActs, RecoveryFault, FaultStep
    <3> QED
      BY <3>1, FaultsBounded DEF IndInv
  <2> QED
    BY <2>2, <2>3, <2>4, <2>5 DEF IndInv
<1>3. CASE UNCHANGED vars
  <2>1. QueueInv'
    BY <1>3, TickStep DEF IndInv, vars, fairVars, queueVars, leaseVars
  <2>2. WorkInv' /\ FaultInv'
    BY <1>3 DEF IndInv, WorkInv, WorkerTypeOK, FaultInv, vars, workerVars, faultVars
  <2>3. RecoveryInv'
    BY <1>3, RecoveryKept DEF IndInv, vars, workerVars
  <2>4. ResultInv'
    BY <1>3, ResultKept DEF IndInv, WorkInv, WorkerTypeOK, vars, workerVars, fairVars
  <2>5. OwnerInv'
    BY <1>3, OwnerKept DEF IndInv, OwnerInv, vars, fairVars, workerVars, recoveryVars, faultVars,
                           Holding
  <2> QED
    BY <2>1, <2>2, <2>3, <2>4, <2>5 DEF IndInv
<1> QED
  BY <1>1, <1>2, <1>3, RequestNext, ClockNext DEF Next

(* The inductive invariant holds in every reachable state, and with it the *)
(* type invariant of the composition.                                      *)
THEOREM PipelineTyped == Spec => [](IndInv /\ TypeOK)
<1>1. IndInv => TypeOK
  BY DEF IndInv, QueueInv, WorkInv, ResultInv, RecoveryInv, FaultInv, TypeOK
<1> QED
  BY <1>1, IndInvInit, IndInvNext, PTL DEF Spec

(* However many workers and recovery loops there are, and whatever         *)
(* crashes, fails or comes late: a job is never queued twice, nor queued   *)
(* while leased, nor in the queue of another user.                         *)
THEOREM OnePlaceAlways == Spec => []OnePlace
<1>1. IndInv => OnePlace
  BY PlacedIsOnePlace DEF IndInv, QueueInv
<1> QED
  BY <1>1, PipelineTyped, PTL

(* No recovery path and no late worker reports a result that inference     *)
(* never produced: not in PostgreSQL, not to subscribers, not to a         *)
(* replayed request.                                                       *)
THEOREM CompletedIsEarnedAlways == Spec => []CompletedIsEarned
<1>1. IndInv => CompletedIsEarned
  BY DEF IndInv, ResultInv
<1> QED
  BY <1>1, PipelineTyped, PTL

(* As long as no lease has run out under its worker, no two workers have   *)
(* the same job in hand: a release by identifier, a lost answer of a claim *)
(* and a recovery loop with an old cutoff take no job from its owner.      *)
THEOREM SoleOwnerAlways == Spec => []SoleOwner
<1>1. IndInv => SoleOwner
  BY DEF IndInv, OwnerInv
<1> QED
  BY <1>1, PipelineTyped, PTL
=============================================================================
