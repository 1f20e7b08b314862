--------------------------- MODULE SchedulerProofs ---------------------------
(***************************************************************************)
(* Proofs, for every set of users and jobs and every capacity, that the    *)
(* scheduler's scripts keep its data structures in step, serve the users   *)
(* in turn and implement the ring of module FairQueue.                     *)
(***************************************************************************)
EXTENDS Overtaking, SchedulerRing, FiniteSetTheorems, TLAPS

(* The inductive invariant: the properties of Scheduler together.  None of *)
(* them is inductive alone.  A push activates the user by looking at the   *)
(* queue only, so ActiveIffPending is what makes its ZADD NX effective; a  *)
(* re-run enqueue is harmless only because of KeyGuardsResend.             *)
IndInv == /\ TypeOK
          /\ ActiveIffPending
          /\ RotationOrder
          /\ OnePlace
          /\ KeyGuardsResend
          /\ EnqueueTimesQueued

(* What LPUSH does to a list seen oldest first.                            *)
LEMMA AppendFacts ==
    ASSUME NEW S, NEW s \in Seq(S), NEW x \in S
    PROVE  /\ Append(s, x) \in Seq(S)
           /\ Len(s) \in Nat
           /\ Len(Append(s, x)) = Len(s) + 1
           /\ \A i \in 1..Len(s) : Append(s, x)[i] = s[i]
           /\ Append(s, x)[Len(s) + 1] = x
           /\ Append(s, x) # << >>
  OBVIOUS

(* What RPOP does to a list seen oldest first.                             *)
LEMMA TailFacts ==
    ASSUME NEW S, NEW s \in Seq(S), s # << >>
    PROVE  /\ Tail(s) \in Seq(S)
           /\ Head(s) \in S
           /\ Head(s) = s[1]
           /\ Len(s) \in Nat /\ Len(s) >= 1
           /\ Len(Tail(s)) = Len(s) - 1
           /\ \A i \in 1..(Len(s) - 1) : Tail(s)[i] = s[i + 1]
           /\ Tail(s) # << >> <=> Len(s) > 1
  OBVIOUS

(* The part of the invariant that a push can disturb.                      *)
QueueInv == ActiveIffPending /\ RotationOrder /\ OnePlace

(* Pushing a job that is neither queued nor leased keeps the queues, the   *)
(* active set and the scores in step, and queues exactly that job.         *)
LEMMA PushLemma ==
    ASSUME TypeOK, QueueInv, NEW j \in Jobs, ~InQueue(j), Push(j),
           processing' \in [Jobs -> Nat], processing'[j] = 0,
           \A k \in Jobs : k # j => processing'[k] = processing[k]
    PROVE  /\ queue' \in [Users -> Seq(Jobs)]
           /\ active' \in [Users -> Nat]
           /\ rotation' \in Nat
           /\ QueueInv'
           /\ \A k \in Jobs : InQueue(k)' <=> InQueue(k) \/ k = j
<1> DEFINE u == Owner[j]
<1>1. u \in Users
  BY OwnerAssumption
<1>2. queue[u] \in Seq(Jobs)
  BY <1>1 DEF TypeOK
<1>3. queue' = [queue EXCEPT ![u] = Append(queue[u], j)]
  BY <1>1 DEF Push, Activate, TypeOK
<1>4. /\ queue'[u] = Append(queue[u], j)
      /\ \A v \in Users \ {u} : queue'[v] = queue[v]
      /\ queue' \in [Users -> Seq(Jobs)]
  BY <1>1, <1>2, <1>3, AppendFacts DEF TypeOK
<1>5. /\ Len(queue[u]) \in Nat
      /\ Len(queue'[u]) = Len(queue[u]) + 1
      /\ \A i \in 1..Len(queue[u]) : queue'[u][i] = queue[u][i]
      /\ queue'[u][Len(queue[u]) + 1] = j
      /\ queue'[u] # << >>
  <2>1. /\ Len(queue[u]) \in Nat
        /\ Len(Append(queue[u], j)) = Len(queue[u]) + 1
        /\ \A i \in 1..Len(queue[u]) : Append(queue[u], j)[i] = queue[u][i]
        /\ Append(queue[u], j)[Len(queue[u]) + 1] = j
        /\ Append(queue[u], j) # << >>
    BY <1>2, AppendFacts
  <2> QED
    BY <1>4, <2>1
<1>6. /\ active' \in [Users -> Nat]
      /\ rotation' \in Nat
      /\ ActiveIffPending'
      /\ RotationOrder'
  <2>1. CASE queue[u] = << >>
    <3>1. active[u] = 0
      BY <1>1, <2>1 DEF QueueInv, ActiveIffPending
    <3>2. rotation' = rotation + 1 /\ active' = [active EXCEPT ![u] = rotation + 1]
      BY <2>1, <3>1 DEF Push, Activate
    <3>3. active' \in [Users -> Nat] /\ rotation' \in Nat /\ RotationOrder'
      BY <1>1, <3>2 DEF TypeOK, QueueInv, RotationOrder
    <3>4. ActiveIffPending'
      BY <1>1, <1>4, <1>5, <3>2 DEF TypeOK, QueueInv, ActiveIffPending
    <3> QED
      BY <3>2, <3>3, <3>4 DEF TypeOK
  <2>2. CASE queue[u] # << >>
    <3>1. rotation' = rotation /\ active' = active
      BY <2>2 DEF Push, Activate
    <3> QED
      BY <1>1, <1>4, <1>5, <2>2, <3>1
         DEF TypeOK, QueueInv, ActiveIffPending, RotationOrder
  <2> QED
    BY <2>1, <2>2
<1>7. \A k \in Jobs : InQueue(k)' <=> InQueue(k) \/ k = j
  <2> SUFFICES ASSUME NEW k \in Jobs
               PROVE  InQueue(k)' <=> InQueue(k) \/ k = j
    OBVIOUS
  <2>1. CASE Owner[k] # u
    BY <1>4, <2>1, OwnerAssumption DEF InQueue
  <2>2. CASE Owner[k] = u
    <3>1. ASSUME InQueue(k)'
          PROVE  InQueue(k) \/ k = j
      <4>1. PICK i \in 1..Len(queue'[u]) : queue'[u][i] = k
        BY <2>2, <3>1 DEF InQueue
      <4>2. i \in 1..Len(queue[u]) \/ i = Len(queue[u]) + 1
        BY <1>5, <4>1
      <4> QED
        BY <1>5, <2>2, <4>1, <4>2 DEF InQueue
    <3>2. ASSUME InQueue(k)
          PROVE  InQueue(k)'
      <4>1. PICK i \in 1..Len(queue[u]) : queue[u][i] = k
        BY <2>2, <3>2 DEF InQueue
      <4>2. i \in 1..Len(queue'[u]) /\ queue'[u][i] = k
        BY <1>5, <4>1
      <4> QED
        BY <2>2, <4>2 DEF InQueue
    <3>3. ASSUME k = j
          PROVE  InQueue(k)'
      <4>1. Len(queue[u]) + 1 \in 1..Len(queue'[u])
        BY <1>5
      <4> QED
        BY <1>5, <3>3, <4>1 DEF InQueue
    <3> QED
      BY <3>1, <3>2, <3>3
  <2> QED
    BY <2>1, <2>2
<1>8. OnePlace'
  <2>1. ASSUME NEW v \in Users, NEW i \in 1..Len(queue'[v])
        PROVE  Owner[queue'[v][i]] = v /\ processing'[queue'[v][i]] = 0
    <3>1. CASE v # u
      <4>1. queue'[v] = queue[v] /\ queue[v][i] \in Jobs
        BY <1>4, <3>1, <2>1 DEF TypeOK
      <4>2. Owner[queue[v][i]] = v /\ processing[queue[v][i]] = 0
        BY <2>1, <4>1 DEF QueueInv, OnePlace
      <4> QED
        BY <3>1, <4>1, <4>2
    <3>2. CASE v = u /\ i = Len(queue[u]) + 1
      BY <1>5, <3>2
    <3>3. CASE v = u /\ i \in 1..Len(queue[u])
      <4>1. queue'[u][i] = queue[u][i] /\ queue[u][i] \in Jobs
        BY <1>2, <1>5, <3>3
      <4>2. Owner[queue[u][i]] = u /\ processing[queue[u][i]] = 0
        BY <1>1, <3>3 DEF QueueInv, OnePlace
      <4>3. queue[u][i] # j
        BY <3>3 DEF InQueue
      <4> QED
        BY <3>3, <4>1, <4>2, <4>3
    <3> QED
      BY <1>5, <2>1, <3>1, <3>2, <3>3
  <2>2. ASSUME NEW v \in Users, NEW i \in 1..Len(queue'[v]),
               NEW k \in 1..Len(queue'[v]), queue'[v][i] = queue'[v][k]
        PROVE  i = k
    <3>1. CASE v # u
      BY <1>4, <2>2, <3>1 DEF QueueInv, OnePlace
    <3>2. CASE v = u
      <4>1. \A m \in 1..Len(queue[u]) : queue[u][m] # j
        BY DEF InQueue
      <4>2. \A m, n \in 1..Len(queue[u]) : queue[u][m] = queue[u][n] => m = n
        BY <1>1 DEF QueueInv, OnePlace
      <4>3. /\ i \in 1..Len(queue[u]) \/ i = Len(queue[u]) + 1
            /\ k \in 1..Len(queue[u]) \/ k = Len(queue[u]) + 1
        BY <1>5, <3>2
      <4>4. CASE i \in 1..Len(queue[u]) /\ k \in 1..Len(queue[u])
        BY <1>5, <2>2, <3>2, <4>2, <4>4
      <4>5. CASE i = Len(queue[u]) + 1 /\ k \in 1..Len(queue[u])
        BY <1>5, <2>2, <3>2, <4>1, <4>5
      <4>6. CASE i \in 1..Len(queue[u]) /\ k = Len(queue[u]) + 1
        BY <1>5, <2>2, <3>2, <4>1, <4>6
      <4> QED
        BY <4>3, <4>4, <4>5, <4>6
    <3> QED
      BY <3>1, <3>2
  <2> QED
    BY <2>1, <2>2 DEF OnePlace
<1> QED
  BY <1>4, <1>6, <1>7, <1>8 DEF QueueInv

(* The dequeue script takes the head of the front user's queue, and keeps  *)
(* the queues, the active set and the scores in step.                      *)
LEMMA DequeueLemma ==
    ASSUME TypeOK, QueueInv, NEW u \in Users, FairDequeue(u)
    PROVE  /\ TypeOK'
           /\ QueueInv'
           /\ queue[u] # << >>
           /\ Head(queue[u]) \in Jobs
           /\ Owner[Head(queue[u])] = u
           /\ processing' = [processing EXCEPT ![Head(queue[u])] = now + Lease]
           /\ \A k \in Jobs : InQueue(k)' <=> InQueue(k) /\ k # Head(queue[u])
           /\ InQueue(Head(queue[u]))
<1> DEFINE j == Head(queue[u])
<1>1. queue[u] \in Seq(Jobs) /\ queue[u] # << >>
  BY DEF TypeOK, QueueInv, ActiveIffPending, FairDequeue, Rotate
<1>2. /\ j \in Jobs
      /\ j = queue[u][1]
      /\ Len(queue[u]) \in Nat /\ Len(queue[u]) >= 1
      /\ Tail(queue[u]) \in Seq(Jobs)
      /\ Len(Tail(queue[u])) = Len(queue[u]) - 1
      /\ \A i \in 1..(Len(queue[u]) - 1) : Tail(queue[u])[i] = queue[u][i + 1]
      /\ Tail(queue[u]) # << >> <=> Len(queue[u]) > 1
  BY <1>1, TailFacts
<1>3. /\ queue' \in [Users -> Seq(Jobs)]
      /\ queue'[u] = Tail(queue[u])
      /\ \A v \in Users \ {u} : queue'[v] = queue[v]
  BY <1>1, <1>2 DEF FairDequeue, Rotate, TypeOK
<1>4. /\ processing' = [processing EXCEPT ![j] = now + Lease]
      /\ processing' \in [Jobs -> Nat]
  <2>1. processing' = [processing EXCEPT ![j] = now + Lease]
    BY <1>1 DEF FairDequeue, Grant
  <2>2. processing \in [Jobs -> Nat] /\ now + Lease \in Nat
    BY LeaseAssumption DEF TypeOK, LeaseTypeOK
  <2> QED
    BY <1>2, <2>1, <2>2
<1>5. /\ active' \in [Users -> Nat]
      /\ rotation' \in Nat
      /\ ActiveIffPending'
      /\ RotationOrder'
  <2>1. CASE Len(queue[u]) > 1
    <3>1. rotation' = rotation + 1 /\ active' = [active EXCEPT ![u] = rotation + 1]
      BY <1>1, <2>1 DEF FairDequeue, Rotate
    <3> QED
      BY <1>2, <1>3, <2>1, <3>1
         DEF TypeOK, QueueInv, ActiveIffPending, RotationOrder
  <2>2. CASE ~(Len(queue[u]) > 1)
    <3>1. rotation' = rotation /\ active' = [active EXCEPT ![u] = 0]
      BY <1>1, <2>2 DEF FairDequeue, Rotate
    <3> QED
      BY <1>2, <1>3, <2>2, <3>1
         DEF TypeOK, QueueInv, ActiveIffPending, RotationOrder
  <2> QED
    BY <2>1, <2>2
<1>6. Owner[j] = u /\ InQueue(j)
  BY <1>2 DEF QueueInv, OnePlace, InQueue
<1>7. \A i \in 2..Len(queue[u]) : queue[u][i] # j
  BY <1>2 DEF QueueInv, OnePlace
<1>8. \A k \in Jobs : InQueue(k)' <=> InQueue(k) /\ k # j
  <2> SUFFICES ASSUME NEW k \in Jobs
               PROVE  InQueue(k)' <=> InQueue(k) /\ k # j
    OBVIOUS
  <2>1. CASE Owner[k] # u
    BY <1>3, <1>6, <2>1, OwnerAssumption DEF InQueue
  <2>2. CASE Owner[k] = u
    <3>1. ASSUME InQueue(k)'
          PROVE  InQueue(k) /\ k # j
      <4>1. PICK i \in 1..Len(queue'[u]) : queue'[u][i] = k
        BY <2>2, <3>1 DEF InQueue
      <4>2. /\ i + 1 \in 2..Len(queue[u])
            /\ i + 1 \in 1..Len(queue[u])
            /\ queue[u][i + 1] = k
        BY <1>2, <1>3, <4>1
      <4> QED
        BY <1>7, <2>2, <4>2 DEF InQueue
    <3>2. ASSUME InQueue(k), k # j
          PROVE  InQueue(k)'
      <4>1. PICK i \in 1..Len(queue[u]) : queue[u][i] = k
        BY <2>2, <3>2 DEF InQueue
      <4>2. i - 1 \in 1..Len(queue'[u]) /\ queue'[u][i - 1] = k
        BY <1>2, <1>3, <3>2, <4>1
      <4> QED
        BY <2>2, <4>2 DEF InQueue
    <3> QED
      BY <3>1, <3>2
  <2> QED
    BY <2>1, <2>2
<1>9. OnePlace'
  <2>1. ASSUME NEW v \in Users, NEW i \in 1..Len(queue'[v])
        PROVE  Owner[queue'[v][i]] = v /\ processing'[queue'[v][i]] = 0
    <3>1. CASE v # u
      <4>1. /\ queue'[v] = queue[v] /\ queue[v][i] \in Jobs
            /\ Owner[queue[v][i]] = v /\ processing[queue[v][i]] = 0
        BY <1>3, <2>1, <3>1 DEF TypeOK, QueueInv, OnePlace
      <4> QED
        BY <1>4, <1>6, <3>1, <4>1
    <3>2. CASE v = u
      <4>1. /\ i + 1 \in 2..Len(queue[u])
            /\ i + 1 \in 1..Len(queue[u])
            /\ queue'[u][i] = queue[u][i + 1]
        BY <1>2, <1>3, <2>1, <3>2
      <4>2. /\ queue[u][i + 1] \in Jobs /\ queue[u][i + 1] # j
            /\ Owner[queue[u][i + 1]] = u /\ processing[queue[u][i + 1]] = 0
        BY <1>1, <1>7, <4>1 DEF QueueInv, OnePlace
      <4> QED
        BY <1>4, <3>2, <4>1, <4>2
    <3> QED
      BY <3>1, <3>2
  <2>2. ASSUME NEW v \in Users, NEW i \in 1..Len(queue'[v]),
               NEW k \in 1..Len(queue'[v]), queue'[v][i] = queue'[v][k]
        PROVE  i = k
    <3>1. CASE v # u
      BY <1>3, <2>2, <3>1 DEF QueueInv, OnePlace
    <3>2. CASE v = u
      <4> /\ i \in 1..(Len(queue[u]) - 1) /\ k \in 1..(Len(queue[u]) - 1)
          /\ Tail(queue[u])[i] = Tail(queue[u])[k]
        BY <1>2, <1>3, <2>2, <3>2
      <4>1. /\ i + 1 \in 1..Len(queue[u]) /\ k + 1 \in 1..Len(queue[u])
            /\ queue[u][i + 1] = queue[u][k + 1]
        BY <1>2
      <4>2. i + 1 = k + 1
        BY <4>1 DEF QueueInv, OnePlace
      <4> QED
        BY <1>2, <1>3, <3>2, <4>2
    <3> QED
      BY <3>1, <3>2
  <2> QED
    BY <2>1, <2>2 DEF OnePlace
<1>10. TypeOK'
  BY <1>3, <1>4, <1>5 DEF TypeOK, LeaseTypeOK, FairDequeue, Rotate
<1> QED
  BY <1>1, <1>2, <1>4, <1>5, <1>6, <1>8, <1>9, <1>10 DEF QueueInv

(* The initial state, with every key of the scheduler absent.              *)
LEMMA InitLemma == Init => IndInv
<1> SUFFICES ASSUME Init PROVE IndInv
  OBVIOUS
<1>1. TypeOK
  BY DEF Init, LeaseInit, TypeOK, LeaseTypeOK
<1>2. \A u \in Users : Len(queue[u]) = 0
  BY DEF Init
<1>3. ActiveIffPending /\ RotationOrder /\ OnePlace
  BY <1>2 DEF Init, ActiveIffPending, RotationOrder, OnePlace
<1>4. KeyGuardsResend
  BY <1>2, OwnerAssumption
     DEF Init, LeaseInit, KeyGuardsResend, InQueue, Leased
<1>5. EnqueueTimesQueued
  BY DEF Init, EnqueueTimesQueued
<1> QED
  BY <1>1, <1>3, <1>4, <1>5 DEF IndInv

(* A step that leaves the queues and the set of leased jobs within what    *)
(* they were keeps everything the queues are part of.                      *)
LEMMA LeaseChangeLemma ==
    ASSUME IndInv,
           UNCHANGED <<queue, active, rotation>>,
           \A j \in Jobs : processing[j] = 0 => processing'[j] = 0
    PROVE  /\ QueueInv'
           /\ \A k \in Jobs : InQueue(k)' <=> InQueue(k)
           /\ \A k \in Jobs : Leased(k)' => Leased(k)
<1>1. \A u \in Users : \A i \in 1..Len(queue[u]) : queue[u][i] \in Jobs
  BY DEF IndInv, TypeOK
<1>2. OnePlace'
  BY <1>1 DEF IndInv, OnePlace
<1>3. ActiveIffPending' /\ RotationOrder'
  BY DEF IndInv, ActiveIffPending, RotationOrder
<1>4. \A k \in Jobs : InQueue(k)' <=> InQueue(k)
  BY DEF InQueue
<1>5. \A k \in Jobs : Leased(k)' => Leased(k)
  BY DEF Leased
<1> QED
  BY <1>2, <1>3, <1>4, <1>5 DEF QueueInv

(* Every step of every script, request and clock keeps the invariant.      *)
LEMMA StepLemma == IndInv /\ [Next]_vars => IndInv'
<1> SUFFICES ASSUME IndInv, [Next]_vars PROVE IndInv'
  OBVIOUS
<1>0. TypeOK /\ QueueInv
  BY DEF IndInv, QueueInv
<1>1. ASSUME NEW u \in Users, FairDequeue(u)
      PROVE  IndInv'
  <2> DEFINE h == Head(queue[u])
  <2>1. /\ TypeOK' /\ QueueInv'
        /\ h \in Jobs /\ InQueue(h)
        /\ queue[u] # << >>
        /\ processing' = [processing EXCEPT ![h] = now + Lease]
        /\ \A k \in Jobs : InQueue(k)' <=> InQueue(k) /\ k # h
    BY <1>0, <1>1, DequeueLemma
  <2>2. KeyGuardsResend'
    BY <1>1, <2>1 DEF IndInv, KeyGuardsResend, FairDequeue, Rotate, Leased, TypeOK, LeaseTypeOK
  <2>3. enqueuedAt' = enqueuedAt \ {h}
    BY <1>1, <2>1 DEF FairDequeue, Rotate
  <2>4. EnqueueTimesQueued'
    BY <2>1, <2>3 DEF IndInv, EnqueueTimesQueued, TypeOK
  <2> QED
    BY <2>1, <2>2, <2>4 DEF IndInv, QueueInv
<1>2. ASSUME NEW j \in Jobs, Enqueue(j)
      PROVE  IndInv'
  <2>1. CASE EnqueueFull(j) \/ EnqueueDuplicate(j)
    <3>1. UNCHANGED <<leaseVars, queue, active, rotation, enqueuedAt, enqueueKey>>
      BY <1>2, <2>1 DEF Enqueue
    <3>2. TypeOK'
      BY <1>0, <1>2, <3>1 DEF TypeOK, LeaseTypeOK, Enqueue, leaseVars
    <3>3. /\ QueueInv'
          /\ \A k \in Jobs : InQueue(k)' <=> InQueue(k)
          /\ \A k \in Jobs : Leased(k)' => Leased(k)
      BY <3>1, LeaseChangeLemma DEF leaseVars
    <3>4. KeyGuardsResend'
      BY <1>0, <1>2, <3>1, <3>3 DEF IndInv, KeyGuardsResend, Enqueue, TypeOK
    <3>5. EnqueueTimesQueued'
      BY <1>0, <3>1, <3>3 DEF IndInv, EnqueueTimesQueued, TypeOK
    <3> QED
      BY <3>2, <3>3, <3>4, <3>5 DEF IndInv, QueueInv
  <2>2. CASE ~(EnqueueFull(j) \/ EnqueueDuplicate(j))
    <3>1. /\ enqueueKey' = enqueueKey \cup {j}
          /\ Push(j)
          /\ enqueuedAt' = enqueuedAt \cup {j}
          /\ UNCHANGED <<processing, completed, now>>
          /\ phase[j] # "settled"
          /\ phase' = [phase EXCEPT ![j] = "sending"]
      BY <1>2, <2>2 DEF Enqueue, leaseVars
    <3>2. ~InQueue(j) /\ processing[j] = 0
      BY <2>2, <3>1 DEF IndInv, KeyGuardsResend, Leased, EnqueueDuplicate
    <3>3. processing' \in [Jobs -> Nat]
      BY <1>0, <3>1 DEF TypeOK, LeaseTypeOK
    <3>4. /\ queue' \in [Users -> Seq(Jobs)]
          /\ active' \in [Users -> Nat]
          /\ rotation' \in Nat
          /\ QueueInv'
          /\ \A k \in Jobs : InQueue(k)' <=> InQueue(k) \/ k = j
      BY <1>0, <3>1, <3>2, <3>3, PushLemma
    <3>5. TypeOK'
      BY <1>0, <3>1, <3>4 DEF TypeOK, LeaseTypeOK
    <3>6. KeyGuardsResend'
      BY <1>0, <3>1, <3>4 DEF IndInv, KeyGuardsResend, Leased, TypeOK
    <3>7. EnqueueTimesQueued'
      BY <1>0, <3>1, <3>4 DEF IndInv, EnqueueTimesQueued, TypeOK
    <3> QED
      BY <3>4, <3>5, <3>6, <3>7 DEF IndInv, QueueInv
  <2> QED
    BY <2>1, <2>2
<1>3. ASSUME NEW j \in Jobs, Settle(j) \/ ExpireEnqueueKey(j)
      PROVE  IndInv'
  <2>1. /\ UNCHANGED <<processing, completed, now, queue, active, rotation, enqueuedAt>>
        /\ \A k \in Jobs : phase'[k] # "settled"
                             => phase[k] # "settled" /\ (k \in enqueueKey => k \in enqueueKey')
        /\ enqueueKey' \subseteq Jobs
        /\ phase' \in [Jobs -> {"new", "sending", "settled"}]
    BY <1>0, <1>3 DEF Settle, ExpireEnqueueKey, leaseVars, TypeOK
  <2>2. TypeOK'
    BY <1>0, <2>1 DEF TypeOK, LeaseTypeOK
  <2>3. /\ QueueInv'
        /\ \A k \in Jobs : InQueue(k)' <=> InQueue(k)
        /\ \A k \in Jobs : Leased(k)' => Leased(k)
    BY <2>1, LeaseChangeLemma
  <2>4. KeyGuardsResend'
    BY <2>1, <2>3 DEF IndInv, KeyGuardsResend
  <2>5. EnqueueTimesQueued'
    BY <1>0, <2>1, <2>3 DEF IndInv, EnqueueTimesQueued, TypeOK
  <2> QED
    BY <2>2, <2>3, <2>4, <2>5 DEF IndInv, QueueInv
<1>4. ASSUME NEW j \in Jobs, NEW cutoff \in Nat, RequeueIfExpired(j, cutoff)
      PROVE  IndInv'
  <2>1. /\ processing[j] # 0
        /\ processing' = [processing EXCEPT ![j] = 0]
        /\ Push(j)
        /\ UNCHANGED <<completed, now, enqueuedAt, enqueueKey, phase>>
    BY <1>4 DEF RequeueIfExpired, Expired, Leased, Drop
  <2>2. ~InQueue(j)
    BY <2>1, OwnerAssumption DEF IndInv, OnePlace, InQueue
  <2>3. /\ processing' \in [Jobs -> Nat] /\ processing'[j] = 0
        /\ \A k \in Jobs : k # j => processing'[k] = processing[k]
    BY <1>0, <2>1 DEF TypeOK, LeaseTypeOK
  <2>4. /\ queue' \in [Users -> Seq(Jobs)]
        /\ active' \in [Users -> Nat]
        /\ rotation' \in Nat
        /\ QueueInv'
        /\ \A k \in Jobs : InQueue(k)' <=> InQueue(k) \/ k = j
    BY <1>0, <2>1, <2>2, <2>3, PushLemma
  <2>5. TypeOK'
    BY <1>0, <2>1, <2>3, <2>4 DEF TypeOK, LeaseTypeOK
  <2>6. KeyGuardsResend'
    BY <2>1, <2>3, <2>4 DEF IndInv, KeyGuardsResend, Leased
  <2>7. EnqueueTimesQueued'
    BY <1>0, <2>1, <2>4 DEF IndInv, EnqueueTimesQueued, TypeOK
  <2> QED
    BY <2>4, <2>5, <2>6, <2>7 DEF IndInv, QueueInv
<1>5. ASSUME NEW j \in Jobs, NEW cutoff \in Nat, RemoveIfExpired(j, cutoff)
      PROVE  IndInv'
  <2>1. /\ processing[j] # 0
        /\ processing' = [processing EXCEPT ![j] = 0]
        /\ enqueuedAt' = enqueuedAt \ {j}
        /\ UNCHANGED <<completed, now, queue, active, rotation, enqueueKey, phase>>
    BY <1>5 DEF RemoveIfExpired, Expired, Leased, Drop
  <2>2. TypeOK'
    BY <1>0, <2>1 DEF TypeOK, LeaseTypeOK
  <2>3. /\ QueueInv'
        /\ \A k \in Jobs : InQueue(k)' <=> InQueue(k)
        /\ \A k \in Jobs : Leased(k)' => Leased(k)
    BY <1>0, <2>1, LeaseChangeLemma DEF TypeOK, LeaseTypeOK
  <2>4. KeyGuardsResend'
    BY <2>1, <2>3 DEF IndInv, KeyGuardsResend
  <2>5. EnqueueTimesQueued'
    BY <1>0, <2>1, <2>3 DEF IndInv, EnqueueTimesQueued, TypeOK
  <2> QED
    BY <2>2, <2>3, <2>4, <2>5 DEF IndInv, QueueInv
<1>6. ASSUME NEW j \in Jobs, EnqueueIfAbsent(j)
      PROVE  IndInv'
  <2>1. /\ processing[j] = 0
        /\ ~InQueue(j)
        /\ Push(j)
        /\ phase[j] = "settled"
        /\ enqueuedAt' = enqueuedAt \cup {j}
        /\ UNCHANGED <<processing, completed, now, enqueueKey, phase>>
    BY <1>6 DEF EnqueueIfAbsent, Leased, leaseVars
  <2>2. processing' \in [Jobs -> Nat]
    BY <1>0, <2>1 DEF TypeOK, LeaseTypeOK
  <2>3. /\ queue' \in [Users -> Seq(Jobs)]
        /\ active' \in [Users -> Nat]
        /\ rotation' \in Nat
        /\ QueueInv'
        /\ \A k \in Jobs : InQueue(k)' <=> InQueue(k) \/ k = j
    BY <1>0, <2>1, <2>2, PushLemma
  <2>4. TypeOK'
    BY <1>0, <2>1, <2>3 DEF TypeOK, LeaseTypeOK
  <2>5. KeyGuardsResend'
    BY <2>1, <2>3 DEF IndInv, KeyGuardsResend, Leased
  <2>6. EnqueueTimesQueued'
    BY <1>0, <2>1, <2>3 DEF IndInv, EnqueueTimesQueued, TypeOK
  <2> QED
    BY <2>3, <2>4, <2>5, <2>6 DEF IndInv, QueueInv
<1>7. ASSUME NEW j \in Jobs, LeaseOp(j)
      PROVE  IndInv'
  <2>1. /\ processing' \in [Jobs -> Nat]
        /\ \A k \in Jobs : processing[k] = 0 => processing'[k] = 0
        /\ completed' \subseteq Jobs
        /\ UNCHANGED <<now, queue, active, rotation, enqueuedAt, enqueueKey, phase>>
    <3>1. CASE ExtendProcessingLease(j)
      BY <1>0, <1>7, <3>1, LeaseAssumption
         DEF ExtendProcessingLease, Grant, Leased, LeaseOp, TypeOK, LeaseTypeOK
    <3>2. CASE ReleaseProcessingJob(j)
      BY <1>0, <1>7, <3>2
         DEF ReleaseProcessingJob, Drop, LeaseOp, TypeOK, LeaseTypeOK
    <3>3. CASE MarkJobCompleted(j) \/ RemoveCompletedJob(j)
      BY <1>0, <1>7, <3>3
         DEF MarkJobCompleted, RemoveCompletedJob, LeaseOp, TypeOK, LeaseTypeOK
    <3> QED
      BY <1>7, <3>1, <3>2, <3>3 DEF LeaseOp
  <2>2. TypeOK'
    BY <1>0, <2>1 DEF TypeOK, LeaseTypeOK
  <2>3. /\ QueueInv'
        /\ \A k \in Jobs : InQueue(k)' <=> InQueue(k)
        /\ \A k \in Jobs : Leased(k)' => Leased(k)
    BY <2>1, LeaseChangeLemma
  <2>4. KeyGuardsResend'
    BY <2>1, <2>3 DEF IndInv, KeyGuardsResend
  <2>5. EnqueueTimesQueued'
    BY <1>0, <2>1, <2>3 DEF IndInv, EnqueueTimesQueued, TypeOK
  <2> QED
    BY <2>2, <2>3, <2>4, <2>5 DEF IndInv, QueueInv
<1>8. ASSUME Clock \/ UNCHANGED vars
      PROVE  IndInv'
  <2>1. /\ now' \in Nat
        /\ UNCHANGED <<processing, completed, queue, active, rotation, enqueuedAt,
                       enqueueKey, phase>>
    BY <1>0, <1>8 DEF Clock, Tick, vars, TypeOK, LeaseTypeOK
  <2>2. TypeOK'
    BY <1>0, <2>1 DEF TypeOK, LeaseTypeOK
  <2>3. /\ QueueInv'
        /\ \A k \in Jobs : InQueue(k)' <=> InQueue(k)
        /\ \A k \in Jobs : Leased(k)' => Leased(k)
    BY <2>1, LeaseChangeLemma
  <2>4. KeyGuardsResend'
    BY <2>1, <2>3 DEF IndInv, KeyGuardsResend
  <2>5. EnqueueTimesQueued'
    BY <1>0, <2>1, <2>3 DEF IndInv, EnqueueTimesQueued, TypeOK
  <2> QED
    BY <2>2, <2>3, <2>4, <2>5 DEF IndInv, QueueInv
<1>9. \A cutoff \in 0..now : cutoff \in Nat
  BY <1>0 DEF TypeOK, LeaseTypeOK
<1> QED
  BY <1>1, <1>2, <1>3, <1>4, <1>5, <1>6, <1>7, <1>8, <1>9 DEF Next, JobOp

(* The data structures of the scheduler stay in step whatever the callers  *)
(* do: users are active exactly while they have jobs, scores are unique, a *)
(* job is in one place at most.                                            *)
THEOREM SchedulerSafe == Spec => []IndInv
<1>1. Init => IndInv
  BY InitLemma
<1>2. IndInv /\ [Next]_vars => IndInv'
  BY StepLemma
<1> QED
  BY <1>1, <1>2, PTL DEF Spec

(* Type correctness of every key of the scheduler.                         *)
THEOREM TypeCorrect == Spec => []TypeOK
<1>1. IndInv => TypeOK
  BY DEF IndInv
<1> QED
  BY <1>1, SchedulerSafe, PTL

(* No job is ever handed out twice from the queue, nor queued while it is  *)
(* leased, however enqueues are repeated and recovery passes interleave    *)
(* with late workers.                                                      *)
THEOREM JobInOnePlace == Spec => []OnePlace
<1>1. IndInv => OnePlace
  BY DEF IndInv
<1> QED
  BY <1>1, SchedulerSafe, PTL

(* Activation in the pushing scripts and deactivation in the dequeue       *)
(* script never lose a user with pending jobs.                             *)
THEOREM NoPendingUserLost == Spec => []ActiveIffPending
<1>1. IndInv => ActiveIffPending
  BY DEF IndInv
<1> QED
  BY <1>1, SchedulerSafe, PTL

(* The next user in turn is the one served longest ago: no two users have  *)
(* the same turn and none is ahead of the counter.                         *)
THEOREM TurnsAreOrdered == Spec => []RotationOrder
<1>1. IndInv => RotationOrder
  BY DEF IndInv
<1> QED
  BY <1>1, SchedulerSafe, PTL

(* An enqueue time is kept only for a job that is in a queue.              *)
THEOREM EnqueueTimesKept == Spec => []EnqueueTimesQueued
<1>1. IndInv => EnqueueTimesQueued
  BY DEF IndInv
<1> QED
  BY <1>1, SchedulerSafe, PTL

(* What makes an enqueue that is sent twice harmless.                      *)
THEOREM ResendIsGuarded == Spec => []KeyGuardsResend
<1>1. IndInv => KeyGuardsResend
  BY DEF IndInv
<1> QED
  BY <1>1, SchedulerSafe, PTL

(* The admission bound: both enqueueing scripts stop at the capacity, so a *)
(* full queue grows only when recovery returns an expired job to it.       *)
THEOREM CapacityAtAdmission == Spec => OnlyRecoveryExceedsCapacity
<1>1. ASSUME IndInv, Next, NEW u \in Users, GrowsBeyond(u)
      PROVE  Returns(u)
  <2>0. TypeOK /\ QueueInv /\ queue[u] \in Seq(Jobs) /\ Len(queue[u]) \in Nat
    BY <1>1 DEF IndInv, QueueInv, TypeOK
  <2>1. queue'[u] # queue[u]
    BY <1>1, <2>0 DEF GrowsBeyond
  <2>2. ASSUME NEW v \in Users, FairDequeue(v)
        PROVE  FALSE
    <3>1. queue[v] # << >>
      BY <2>0, <2>2, DequeueLemma
    <3>2. queue' = [queue EXCEPT ![v] = Tail(queue[v])]
      BY <2>2, <3>1 DEF FairDequeue, Rotate
    <3>3. v = u
      BY <2>0, <2>1, <3>2 DEF TypeOK
    <3>4. Len(queue'[u]) = Len(queue[u]) - 1
      BY <2>0, <3>1, <3>2, <3>3, TailFacts DEF TypeOK
    <3> QED
      BY <1>1, <2>0, <3>4 DEF GrowsBeyond
  <2>3. ASSUME NEW j \in Jobs, Push(j)
        PROVE  Owner[j] = u
    BY <2>0, <2>1, <2>3, OwnerAssumption DEF Push, Activate, TypeOK
  <2>4. ASSUME NEW j \in Jobs, Enqueue(j)
        PROVE  FALSE
    <3>1. Push(j) /\ ~EnqueueFull(j)
      BY <2>1, <2>4 DEF Enqueue
    <3>2. Owner[j] = u
      BY <2>3, <3>1
    <3> QED
      BY <1>1, <3>1, <3>2 DEF EnqueueFull, GrowsBeyond
  <2>5. ASSUME NEW j \in Jobs, EnqueueIfAbsent(j)
        PROVE  FALSE
    <3>1. Push(j) /\ Len(queue[Owner[j]]) < Capacity
      BY <2>5 DEF EnqueueIfAbsent
    <3>2. Owner[j] = u
      BY <2>3, <3>1
    <3> QED
      BY <1>1, <2>0, <3>1, <3>2, CapacityAssumption DEF GrowsBeyond
  <2>6. ASSUME NEW j \in Jobs, NEW cutoff \in 0..now, RequeueIfExpired(j, cutoff)
        PROVE  Returns(u)
    <3>1. /\ processing[j] # 0 /\ processing[j] <= cutoff
          /\ processing' = [processing EXCEPT ![j] = 0]
          /\ Push(j)
      BY <2>6 DEF RequeueIfExpired, Expired, Leased, Drop
    <3>2. Owner[j] = u
      BY <2>3, <3>1
    <3>3. processing[j] \in Nat /\ now \in Nat /\ processing'[j] = 0
      BY <2>0, <3>1 DEF TypeOK, LeaseTypeOK
    <3>4. Expired(j, now)
      BY <3>1, <3>3 DEF Expired, Leased
    <3> QED
      BY <3>2, <3>3, <3>4 DEF Returns
  <2>7. ASSUME NEW j \in Jobs, NEW cutoff \in 0..now,
               \/ Settle(j) \/ ExpireEnqueueKey(j) \/ LeaseOp(j)
               \/ RemoveIfExpired(j, cutoff)
        PROVE  FALSE
    BY <2>1, <2>7 DEF Settle, ExpireEnqueueKey, LeaseOp, RemoveIfExpired
  <2>8. ASSUME Clock
        PROVE  FALSE
    BY <2>1, <2>8 DEF Clock
  <2>9. 0 \in 0..now
    BY <2>0 DEF TypeOK, LeaseTypeOK
  <2> QED
    BY <1>1, <2>2, <2>4, <2>5, <2>6, <2>7, <2>8, <2>9 DEF Next, JobOp
<1>2. IndInv /\ [Next]_vars => [GrowthIsReturn]_vars
  BY <1>1 DEF GrowthIsReturn
<1> QED
  BY <1>2, SchedulerSafe, PTL DEF Spec, OnlyRecoveryExceedsCapacity

(* A queue is served in the order in which it was filled, whoever pushes:  *)
(* enqueues, re-run enqueues, returned leases and adopted orphans only     *)
(* append, and only the dequeue script removes.                            *)
THEOREM OldestJobFirst == Spec => FIFO
<1>1. ASSUME IndInv, Next, NEW u \in Users
      PROVE  OldestFirst(u)
  <2>0. TypeOK /\ QueueInv /\ queue[u] \in Seq(Jobs)
    BY <1>1 DEF IndInv, QueueInv, TypeOK
  <2>1. ASSUME NEW v \in Users, FairDequeue(v)
        PROVE  OldestFirst(u)
    <3>1. queue[v] # << >>
      BY <2>0, <2>1, DequeueLemma
    <3>2. /\ queue' = [queue EXCEPT ![v] = Tail(queue[v])]
          /\ processing' = [processing EXCEPT ![Head(queue[v])] = now + Lease]
      BY <2>1, <3>1 DEF FairDequeue, Grant
    <3>3. CASE v = u
      <4>1. Head(queue[u]) \in Jobs
        BY <2>0, <3>1, <3>3, TailFacts
      <4> QED
        BY <2>0, <3>1, <3>2, <3>3, <4>1 DEF OldestFirst, TypeOK, LeaseTypeOK
    <3>4. CASE v # u
      BY <2>0, <3>2, <3>4 DEF OldestFirst, TypeOK
    <3> QED
      BY <3>3, <3>4
  <2>2. ASSUME NEW j \in Jobs, Push(j)
        PROVE  OldestFirst(u)
    BY <2>0, <2>2, OwnerAssumption DEF Push, OldestFirst, TypeOK
  <2>3. ASSUME NEW j \in Jobs, JobOp(j)
        PROVE  queue' = queue \/ Push(j)
    BY <2>3 DEF JobOp, Enqueue, Settle, ExpireEnqueueKey, EnqueueIfAbsent,
                LeaseOp, RequeueIfExpired, RemoveIfExpired
  <2>4. Clock => queue' = queue
    BY DEF Clock
  <2>5. queue' = queue => OldestFirst(u)
    BY DEF OldestFirst
  <2> QED
    BY <1>1, <2>1, <2>2, <2>3, <2>4, <2>5 DEF Next
<1>2. IndInv /\ [Next]_vars => [QueueStep]_vars
  BY <1>1 DEF QueueStep
<1> QED
  BY <1>2, SchedulerSafe, PTL DEF Spec, FIFO
-----------------------------------------------------------------------------
(* Why nobody is passed twice: whoever was served while u waited either    *)
(* left the ring, and will come back with a score above every score in     *)
(* use, or was re-scored from the rotation counter, which is above u's.    *)
Behind ==
    \A u, v \in Users :
       u # v /\ turns[u][v] # 0
          => /\ turns[u][v] = 1
             /\ active[u] # 0
             /\ active[v] # 0 => active[u] < active[v]

OvertakingInv == IndInv /\ TurnsTypeOK /\ Behind

(* A push gives at most one user a new score, above all the others, and    *)
(* only a user that had none.                                              *)
LEMMA PushScores ==
    ASSUME TypeOK, QueueInv, NEW j \in Jobs, Push(j)
    PROVE  \A u \in Users : \/ active'[u] = active[u]
                            \/ /\ active[u] = 0
                               /\ active'[u] = rotation + 1
<1>1. Owner[j] \in Users
  BY OwnerAssumption
<1>2. CASE queue[Owner[j]] = << >>
  <2>1. active[Owner[j]] = 0
    BY <1>1, <1>2 DEF QueueInv, ActiveIffPending
  <2>2. active' = [active EXCEPT ![Owner[j]] = rotation + 1]
    BY <1>2, <2>1 DEF Push, Activate
  <2> QED
    BY <1>1, <2>1, <2>2 DEF TypeOK
<1>3. CASE queue[Owner[j]] # << >>
  BY <1>3 DEF Push, Activate
<1> QED
  BY <1>2, <1>3

(* Steps other than a dequeue change scores only by such a push.           *)
LEMMA OtherStepScores ==
    ASSUME IndInv, (\E j \in Jobs : JobOp(j)) \/ Clock
    PROVE  \A u \in Users : \/ active'[u] = active[u]
                            \/ /\ active[u] = 0
                               /\ active'[u] = rotation + 1
<1>0. TypeOK /\ QueueInv
  BY DEF IndInv, QueueInv
<1>1. CASE Clock
  BY <1>1 DEF Clock
<1>2. ASSUME NEW j \in Jobs, JobOp(j)
      PROVE  active' = active \/ Push(j)
  BY <1>2 DEF JobOp, Enqueue, Settle, ExpireEnqueueKey, EnqueueIfAbsent,
              LeaseOp, RequeueIfExpired, RemoveIfExpired
<1> QED
  BY <1>0, <1>1, <1>2, PushScores

(* Turns are handed out in order, one each.                                *)
LEMMA OvertakingStep ==
    OvertakingInv /\ [OvertakingNext]_historyVars => OvertakingInv'
<1> SUFFICES ASSUME OvertakingInv, [OvertakingNext]_historyVars
             PROVE  OvertakingInv'
  OBVIOUS
<1>0. TypeOK /\ QueueInv /\ IndInv
  BY DEF OvertakingInv, IndInv, QueueInv
<1>1. IndInv'
  <2>1. [Next]_vars
    BY DEF OvertakingNext, historyVars, Next
  <2> QED
    BY <1>0, <2>1, StepLemma
<1>2. ASSUME NEW u \in Users, FairDequeue(u), CountTurn(u)
      PROVE  TurnsTypeOK' /\ Behind'
  <2>1. TurnsTypeOK'
    BY <1>2 DEF OvertakingInv, TurnsTypeOK, CountTurn
  <2>2. /\ \A w \in Users \ {u} : active'[w] = active[w]
        /\ active'[u] = 0 \/ active'[u] = rotation + 1
    BY <1>0, <1>2 DEF FairDequeue, Rotate, TypeOK
  <2>3. ASSUME NEW w \in Users, NEW v \in Users, w # v, turns'[w][v] # 0
        PROVE  /\ turns'[w][v] = 1
               /\ active'[w] # 0
               /\ active'[v] # 0 => active'[w] < active'[v]
    <3>1. w # u /\ active[w] # 0 /\ active'[w] = active[w]
      BY <1>2, <2>2, <2>3 DEF CountTurn
    <3>2. active[w] \in Nat /\ active[u] \in Nat /\ rotation \in Nat
          /\ active[w] <= rotation /\ active[u] # 0
      BY <1>0, <1>2, <3>1 DEF TypeOK, QueueInv, RotationOrder, FairDequeue, Rotate
    <3>3. CASE v = u
      <4>1. active[u] <= active[w] /\ active[u] # active[w]
        BY <1>0, <1>2, <3>1 DEF FairDequeue, Rotate, QueueInv, RotationOrder
      <4>2. turns[w][u] = 0
        <5> SUFFICES ASSUME turns[w][u] # 0 PROVE FALSE
          OBVIOUS
        <5>1. active[w] < active[u]
          BY <3>1, <3>2 DEF OvertakingInv, Behind
        <5> QED
          BY <3>2, <4>1, <5>1
      <4>3. turns'[w][u] = 1
        BY <1>2, <3>1, <4>2 DEF CountTurn
      <4> QED
        BY <2>2, <3>1, <3>2, <3>3, <4>3
    <3>4. CASE v # u
      <4>1. turns'[w][v] = turns[w][v]
        BY <1>2, <3>1, <3>4 DEF CountTurn
      <4>2. active'[v] = active[v]
        BY <2>2, <3>4
      <4> QED
        BY <2>3, <3>1, <4>1, <4>2 DEF OvertakingInv, Behind
    <3> QED
      BY <3>3, <3>4
  <2> QED
    BY <2>1, <2>3 DEF Behind
<1>3. ASSUME (\E j \in Jobs : JobOp(j)) \/ Clock, UNCHANGED turns
      PROVE  TurnsTypeOK' /\ Behind'
  <2>1. \A u \in Users : \/ active'[u] = active[u]
                         \/ active[u] = 0 /\ active'[u] = rotation + 1
    BY <1>0, <1>3, OtherStepScores
  <2>2. /\ rotation \in Nat
        /\ \A u \in Users : active[u] \in Nat /\ active[u] <= rotation
    BY <1>0 DEF TypeOK, QueueInv, RotationOrder
  <2>3. Behind'
    BY <1>3, <2>1, <2>2 DEF OvertakingInv, Behind
  <2> QED
    BY <1>3, <2>3 DEF OvertakingInv, TurnsTypeOK
<1>4. ASSUME UNCHANGED historyVars
      PROVE  TurnsTypeOK' /\ Behind'
  BY <1>4 DEF OvertakingInv, TurnsTypeOK, Behind, historyVars, vars
<1> QED
  BY <1>1, <1>2, <1>3, <1>4 DEF OvertakingNext, OvertakingInv

(* Round-robin fairness for every set of users, jobs and every capacity: a *)
(* user with pending jobs is passed by each other user at most once before *)
(* the dequeue script serves them.                                         *)
THEOREM RoundRobin == OvertakingSpec => []ServedInTurn
<1>1. OvertakingInit => OvertakingInv
  <2> SUFFICES ASSUME OvertakingInit PROVE OvertakingInv
    OBVIOUS
  <2>1. IndInv
    BY InitLemma DEF OvertakingInit
  <2> QED
    BY <2>1 DEF OvertakingInit, OvertakingInv, TurnsTypeOK, Behind
<1>2. OvertakingInv /\ [OvertakingNext]_historyVars => OvertakingInv'
  BY OvertakingStep
<1>3. OvertakingInv => ServedInTurn
  <2> SUFFICES ASSUME OvertakingInv, NEW u \in Users, NEW v \in Users, u # v
               PROVE  turns[u][v] <= 1
    BY DEF ServedInTurn
  <2>1. turns[u][v] \in Nat
    BY DEF OvertakingInv, TurnsTypeOK
  <2> QED
    BY <2>1 DEF OvertakingInv, Behind
<1> QED
  BY <1>1, <1>2, <1>3, PTL DEF OvertakingSpec
-----------------------------------------------------------------------------
(* The ring s lists the users with a score, the lowest first.              *)
InTurn(score, s) ==
    /\ \A i \in 1..Len(s) : score[s[i]] # 0
    /\ \A u \in Users : score[u] # 0 => \E i \in 1..Len(s) : s[i] = u
    /\ \A i, k \in 1..Len(s) : i < k => score[s[i]] < score[s[k]]

(* A sequence without repetitions has n different elements up to n.        *)
LEMMA CountPrefix ==
    ASSUME NEW S, NEW s \in Seq(S), NEW n \in 0..Len(s),
           \A i, k \in 1..Len(s) : s[i] = s[k] => i = k
    PROVE  Cardinality({s[k] : k \in 1..n}) = n
<1> DEFINE P == {s[k] : k \in 1..n}
           f == [k \in 1..n |-> s[k]]
<1>1. n \in Nat /\ \A k \in 1..n : k \in 1..Len(s)
  OBVIOUS
<1>2. f \in [1..n -> P]
  OBVIOUS
<1>3. f \in Injection(1..n, P)
  BY <1>1, <1>2 DEF Injection, IsInjective
<1>4. f \in Surjection(1..n, P)
  BY <1>2 DEF Surjection
<1>5. ExistsBijection(1..n, P)
  BY <1>3, <1>4 DEF ExistsBijection, Bijection
<1> QED
  BY <1>1, <1>5, FS_CountingElements

(* There is one such ring, the one that the places of the users describe.  *)
LEMMA RingIs ==
    ASSUME NEW score \in [Users -> Nat], NEW s \in Seq(Users), InTurn(score, s)
    PROVE  Ring(score) = s
<1>1. /\ Len(s) \in Nat
      /\ \A i \in 1..Len(s) : s[i] \in Users /\ score[s[i]] \in Nat
  OBVIOUS
<1>2. \A i, k \in 1..Len(s) : s[i] = s[k] => i = k
  <2> SUFFICES ASSUME NEW i \in 1..Len(s), NEW k \in 1..Len(s), s[i] = s[k]
               PROVE  i = k
    OBVIOUS
  <2>1. ~(i < k) /\ ~(k < i)
    BY <1>1 DEF InTurn
  <2> QED
    BY <1>1, <2>1
<1>3. Waiting(score) = {s[k] : k \in 1..Len(s)}
  BY <1>1 DEF InTurn, Waiting
<1>4. Cardinality(Waiting(score)) = Len(s)
  <2>1. Len(s) \in 0..Len(s)
    BY <1>1
  <2> QED
    BY <1>2, <1>3, <2>1, CountPrefix
<1>5. ASSUME NEW i \in 1..Len(s)
      PROVE  Place(score, s[i]) = i
  <2>1. \A k \in 1..Len(s) : score[s[k]] <= score[s[i]] <=> k \in 1..i
    <3> SUFFICES ASSUME NEW k \in 1..Len(s)
                 PROVE  score[s[k]] <= score[s[i]] <=> k \in 1..i
      OBVIOUS
    <3>1. CASE k < i
      BY <1>1, <3>1 DEF InTurn
    <3>2. CASE k = i
      BY <1>1, <3>2
    <3>3. CASE i < k
      BY <1>1, <3>3 DEF InTurn
    <3> QED
      BY <1>1, <3>1, <3>2, <3>3
  <2>2. \A k \in 1..i : k \in 1..Len(s)
    BY <1>1
  <2>3. {v \in Waiting(score) : score[v] <= score[s[i]]} = {s[k] : k \in 1..i}
    BY <1>3, <2>1, <2>2
  <2>4. i \in 0..Len(s)
    BY <1>1
  <2> QED
    BY <1>2, <2>3, <2>4, CountPrefix DEF Place
<1>6. ASSUME NEW i \in 1..Len(s)
      PROVE  (CHOOSE u \in Waiting(score) : Place(score, u) = i) = s[i]
  <2>1. s[i] \in Waiting(score) /\ Place(score, s[i]) = i
    BY <1>3, <1>5
  <2>2. ASSUME NEW u \in Waiting(score), Place(score, u) = i
        PROVE  u = s[i]
    BY <1>3, <1>5, <2>2
  <2> QED
    BY <2>1, <2>2
<1>7. Ring(score) = [i \in 1..Len(s) |-> s[i]]
  BY <1>4, <1>6 DEF Ring
<1> QED
  BY <1>7

(* A user who gets a score above all others joins the ring at the back,    *)
LEMMA RingJoin ==
    ASSUME NEW score \in [Users -> Nat], NEW s \in Seq(Users), InTurn(score, s),
           NEW u \in Users, score[u] = 0, NEW n \in Nat, \A v \in Users : score[v] <= n
    PROVE  InTurn([score EXCEPT ![u] = n + 1], Append(s, u))
<1> DEFINE after == [score EXCEPT ![u] = n + 1]
           t == Append(s, u)
<1>1. /\ Len(s) \in Nat /\ Len(t) = Len(s) + 1 /\ t[Len(s) + 1] = u
      /\ \A i \in 1..Len(s) : t[i] = s[i]
  BY AppendFacts
<1>2. \A i \in 1..Len(s) : s[i] \in Users /\ s[i] # u /\ score[s[i]] \in Nat
  BY DEF InTurn
<1>3. /\ after[u] = n + 1 /\ n + 1 # 0
      /\ \A v \in Users : v # u => after[v] = score[v]
      /\ \A i \in 1..Len(s) : after[t[i]] = score[s[i]] /\ after[t[i]] <= n
  BY <1>1, <1>2
<1>4. \A i \in 1..Len(t) : i \in 1..Len(s) \/ i = Len(s) + 1
  BY <1>1
<1> HIDE DEF after, t
<1>5. \A i \in 1..Len(t) : after[t[i]] # 0
  BY <1>1, <1>3, <1>4 DEF InTurn
<1>6. \A v \in Users : after[v] # 0 => \E i \in 1..Len(t) : t[i] = v
  <2> SUFFICES ASSUME NEW v \in Users, after[v] # 0
               PROVE  \E i \in 1..Len(t) : t[i] = v
    OBVIOUS
  <2>1. CASE v = u
    BY <1>1, <2>1
  <2>2. CASE v # u
    <3>1. PICK i \in 1..Len(s) : s[i] = v
      BY <1>3, <2>2 DEF InTurn
    <3>2. i \in 1..Len(t) /\ t[i] = v
      BY <1>1, <3>1
    <3> QED
      BY <3>2
  <2> QED
    BY <2>1, <2>2
<1>7. \A i, k \in 1..Len(t) : i < k => after[t[i]] < after[t[k]]
  <2> SUFFICES ASSUME NEW i \in 1..Len(t), NEW k \in 1..Len(t), i < k
               PROVE  after[t[i]] < after[t[k]]
    OBVIOUS
  <2>1. i \in 1..Len(s)
    BY <1>1
  <2>2. CASE k \in 1..Len(s)
    BY <1>3, <2>1, <2>2 DEF InTurn
  <2>3. CASE k = Len(s) + 1
    <3>1. after[t[i]] \in Nat /\ after[t[i]] <= n /\ after[t[k]] = n + 1
      BY <1>1, <1>2, <1>3, <2>1, <2>3
    <3> QED
      BY <3>1
  <2> QED
    BY <1>4, <2>2, <2>3
<1>8. InTurn(after, t)
  BY <1>5, <1>6, <1>7 DEF InTurn
<1> QED
  BY <1>8 DEF after, t

(* the user of lowest score is at its front,                               *)
LEMMA RingFront ==
    ASSUME NEW score \in [Users -> Nat], NEW s \in Seq(Users), InTurn(score, s),
           NEW u \in Users, score[u] # 0,
           \A v \in Users : score[v] # 0 => score[u] <= score[v]
    PROVE  s # << >> /\ Head(s) = u
<1>1. PICK k \in 1..Len(s) : s[k] = u
  BY DEF InTurn
<1>2. s # << >> /\ Head(s) = s[1] /\ Len(s) \in Nat /\ 1 \in 1..Len(s)
  BY <1>1
<1>3. CASE k = 1
  BY <1>1, <1>2, <1>3
<1>4. CASE 1 < k
  <2>1. score[s[1]] < score[u] /\ score[s[1]] # 0 /\ s[1] \in Users
    BY <1>1, <1>2, <1>4 DEF InTurn
  <2>2. score[u] <= score[s[1]] /\ score[u] \in Nat /\ score[s[1]] \in Nat
    BY <2>1
  <2> QED
    BY <2>1, <2>2
<1> QED
  BY <1>1, <1>2, <1>3, <1>4

(* and whoever loses their score there leaves it.                          *)
LEMMA RingLeave ==
    ASSUME NEW score \in [Users -> Nat], NEW s \in Seq(Users), InTurn(score, s),
           s # << >>
    PROVE  InTurn([score EXCEPT ![Head(s)] = 0], Tail(s))
<1> DEFINE u == Head(s)
           after == [score EXCEPT ![u] = 0]
           t == Tail(s)
<1>1. /\ u \in Users /\ u = s[1] /\ Len(s) \in Nat /\ Len(s) >= 1
      /\ Len(t) = Len(s) - 1
      /\ \A i \in 1..(Len(s) - 1) : t[i] = s[i + 1]
  BY TailFacts
<1>2. \A i \in 1..Len(s) : s[i] \in Users /\ score[s[i]] \in Nat
  OBVIOUS
<1>3. \A i \in 1..Len(t) : i + 1 \in 1..Len(s) /\ 1 < i + 1 /\ t[i] = s[i + 1]
  BY <1>1
<1>4. \A i \in 1..Len(s) : 1 < i => s[i] # u
  <2> SUFFICES ASSUME NEW i \in 1..Len(s), 1 < i PROVE s[i] # u
    OBVIOUS
  <2>1. score[s[1]] < score[s[i]] /\ score[s[1]] \in Nat /\ score[s[i]] \in Nat
    BY <1>1, <1>2 DEF InTurn
  <2> QED
    BY <1>1, <2>1
<1>5. /\ after[u] = 0 /\ \A v \in Users : v # u => after[v] = score[v]
      /\ \A i \in 1..Len(t) : after[t[i]] = score[s[i + 1]]
  BY <1>1, <1>2, <1>3, <1>4
<1> HIDE DEF after, t, u
<1>6. \A i \in 1..Len(t) : after[t[i]] # 0
  BY <1>3, <1>5 DEF InTurn
<1>7. \A v \in Users : after[v] # 0 => \E i \in 1..Len(t) : t[i] = v
  <2> SUFFICES ASSUME NEW v \in Users, after[v] # 0
               PROVE  \E i \in 1..Len(t) : t[i] = v
    OBVIOUS
  <2>1. v # u /\ score[v] # 0
    BY <1>5
  <2>2. PICK k \in 1..Len(s) : s[k] = v
    BY <2>1 DEF InTurn
  <2>3. k # 1
    BY <1>1, <2>1, <2>2
  <2>4. k - 1 \in 1..Len(t) /\ t[k - 1] = s[(k - 1) + 1] /\ (k - 1) + 1 = k
    BY <1>1, <2>2, <2>3
  <2> QED
    BY <2>2, <2>4
<1>8. \A i, k \in 1..Len(t) : i < k => after[t[i]] < after[t[k]]
  <2> SUFFICES ASSUME NEW i \in 1..Len(t), NEW k \in 1..Len(t), i < k
               PROVE  after[t[i]] < after[t[k]]
    OBVIOUS
  <2>1. i + 1 \in 1..Len(s) /\ k + 1 \in 1..Len(s) /\ i + 1 < k + 1
    BY <1>3
  <2> QED
    BY <1>5, <2>1 DEF InTurn
<1>9. InTurn(after, t)
  BY <1>6, <1>7, <1>8 DEF InTurn
<1> QED
  BY <1>9 DEF after, t, u

(* The ring of the promise, in a state and after a step.                   *)
Ringed == Turns \in Seq(Users) /\ InTurn(active, Turns)

LEMMA RingedAfter ==
    ASSUME active' \in [Users -> Nat], NEW s \in Seq(Users), InTurn(active', s)
    PROVE  Turns' = s /\ Ringed'
<1>1. Turns' = Ring(active')
  BY DEF Turns
<1>2. Ring(active') = s
  BY RingIs
<1> QED
  BY <1>1, <1>2 DEF Ringed

(* A push is a Join of the promise.                                        *)
LEMMA PushJoins ==
    ASSUME IndInv, Ringed, NEW j \in Jobs, Push(j)
    PROVE  Promise!Join(j) /\ Ringed'
<1> DEFINE u == Owner[j]
<1>1. u \in Users
  BY OwnerAssumption
<1>2. /\ active \in [Users -> Nat] /\ rotation \in Nat
      /\ Turns \in Seq(Users) /\ InTurn(active, Turns)
      /\ \A v \in Users : active[v] <= rotation
  BY DEF IndInv, TypeOK, Ringed, RotationOrder
<1>3. queue' = [queue EXCEPT ![u] = Append(@, j)]
  BY DEF Push
<1>4. Turns' = (IF queue[u] = << >> THEN Append(Turns, u) ELSE Turns) /\ Ringed'
  <2>1. CASE queue[u] = << >>
    <3>1. active[u] = 0
      BY <1>1, <2>1 DEF IndInv, ActiveIffPending
    <3>2. active' = [active EXCEPT ![u] = rotation + 1]
      BY <2>1, <3>1 DEF Push, Activate
    <3>3. InTurn(active', Append(Turns, u)) /\ Append(Turns, u) \in Seq(Users)
      BY <1>1, <1>2, <3>1, <3>2, RingJoin, AppendFacts
    <3>4. active' \in [Users -> Nat]
      BY <1>1, <1>2, <3>2
    <3> QED
      BY <2>1, <3>3, <3>4, RingedAfter
  <2>2. CASE queue[u] # << >>
    <3>1. active' = active
      BY <2>2 DEF Push, Activate
    <3> QED
      BY <1>2, <2>2, <3>1, RingedAfter
  <2> QED
    BY <2>1, <2>2
<1> QED
  BY <1>3, <1>4 DEF Promise!Join

(* A step that leaves the scores alone leaves the ring alone.              *)
LEMMA ScoresKept ==
    ASSUME IndInv, Ringed, UNCHANGED active
    PROVE  Turns' = Turns /\ Ringed'
  BY RingedAfter DEF IndInv, TypeOK, Ringed

(* The dequeue script is a turn of the user at the front.                  *)
LEMMA DequeueServes ==
    ASSUME IndInv, Ringed, NEW u \in Users, FairDequeue(u)
    PROVE  Promise!Serve /\ Ringed'
<1>1. /\ active \in [Users -> Nat] /\ rotation \in Nat /\ queue[u] \in Seq(Jobs)
      /\ Turns \in Seq(Users) /\ InTurn(active, Turns)
      /\ \A v \in Users : active[v] <= rotation
  BY DEF IndInv, TypeOK, Ringed, RotationOrder
<1>2. Turns # << >> /\ Head(Turns) = u
  BY <1>1, RingFront DEF FairDequeue
<1>3. queue[u] # << >>
  BY DEF FairDequeue, IndInv, ActiveIffPending
<1>4. /\ queue' = [queue EXCEPT ![u] = Tail(@)]
      /\ Rotate(u) /\ Grant(Head(queue[u]))
      /\ UNCHANGED <<completed, now, enqueueKey, phase>>
  BY <1>3 DEF FairDequeue
<1> DEFINE left == [active EXCEPT ![u] = 0]
<1>5. /\ left \in [Users -> Nat] /\ left[u] = 0 /\ \A v \in Users : left[v] <= rotation
      /\ InTurn(left, Tail(Turns)) /\ Tail(Turns) \in Seq(Users)
  <2>1. left \in [Users -> Nat] /\ left[u] = 0 /\ \A v \in Users : left[v] <= rotation
    BY <1>1
  <2>2. InTurn(left, Tail(Turns)) /\ Tail(Turns) \in Seq(Users)
    BY <1>1, <1>2, RingLeave, TailFacts
  <2> QED
    BY <2>1, <2>2
<1>6. /\ Turns' = IF Len(queue[u]) > 1 THEN Append(Tail(Turns), u) ELSE Tail(Turns)
      /\ Ringed'
  <2>1. CASE Len(queue[u]) > 1
    <3>1. active' = [active EXCEPT ![u] = rotation + 1]
      BY <1>4, <2>1 DEF Rotate
    <3>2. active' = [left EXCEPT ![u] = rotation + 1] /\ active' \in [Users -> Nat]
      BY <1>1, <3>1
    <3> HIDE DEF left
    <3>3. InTurn(active', Append(Tail(Turns), u)) /\ Append(Tail(Turns), u) \in Seq(Users)
      BY <1>1, <1>5, <3>2, RingJoin, AppendFacts
    <3> QED
      BY <2>1, <3>2, <3>3, RingedAfter
  <2>2. CASE ~(Len(queue[u]) > 1)
    <3>1. active' = left
      BY <1>4, <2>2 DEF Rotate
    <3> HIDE DEF left
    <3> QED
      BY <1>5, <2>2, <3>1, RingedAfter
  <2> QED
    BY <2>1, <2>2
<1> QED
  BY <1>2, <1>4, <1>6 DEF Promise!Serve, Promise!Grant, Grant

(* Every script run is a step of the promise.                              *)
LEMMA StepKeepsPromise ==
    ASSUME IndInv, Ringed, Next
    PROVE  Promise!FairNext /\ Ringed'
<1>1. ASSUME NEW u \in Users, FairDequeue(u)
      PROVE  Promise!FairNext /\ Ringed'
  BY <1>1, DequeueServes DEF Promise!FairNext
<1>2. CASE Clock
  <2>1. Turns' = Turns /\ Ringed'
    BY <1>2, ScoresKept DEF Clock
  <2>2. Promise!Tick /\ UNCHANGED <<queue, Turns, enqueueKey, phase>>
    BY <1>2, <2>1 DEF Clock, Tick, Promise!Tick
  <2> QED
    BY <2>1, <2>2 DEF Promise!FairNext, Promise!queueVars
<1>3. ASSUME NEW j \in Jobs, JobOp(j)
      PROVE  Promise!FairNext /\ Ringed'
  <2>1. CASE Enqueue(j)
    <3>1. CASE EnqueueFull(j) \/ EnqueueDuplicate(j)
      <4>1. /\ UNCHANGED <<queue, active, enqueueKey>>
            /\ phase[j] # "settled" /\ phase' = [phase EXCEPT ![j] = "sending"]
            /\ UNCHANGED <<processing, completed, now>>
        BY <2>1, <3>1 DEF Enqueue, leaseVars
      <4>2. Turns' = Turns /\ Ringed'
        BY <4>1, ScoresKept
      <4>3. Promise!Full(j) \/ j \in enqueueKey
        BY <3>1 DEF EnqueueFull, EnqueueDuplicate, Promise!Full
      <4>4. Promise!Submit(j)
        BY <4>1, <4>2, <4>3 DEF Promise!Submit, Promise!leaseVars
      <4> QED
        BY <4>2, <4>4 DEF Promise!FairNext
    <3>2. CASE ~(EnqueueFull(j) \/ EnqueueDuplicate(j))
      <4>1. /\ enqueueKey' = enqueueKey \cup {j} /\ Push(j)
            /\ phase[j] # "settled" /\ phase' = [phase EXCEPT ![j] = "sending"]
            /\ UNCHANGED <<processing, completed, now>>
        BY <2>1, <3>2 DEF Enqueue, leaseVars
      <4>2. Promise!Join(j) /\ Ringed'
        BY <4>1, PushJoins
      <4>3. ~(Promise!Full(j) \/ j \in enqueueKey)
        BY <3>2 DEF EnqueueFull, EnqueueDuplicate, Promise!Full
      <4>4. Promise!Submit(j)
        BY <4>1, <4>2, <4>3 DEF Promise!Submit, Promise!leaseVars
      <4> QED
        BY <4>2, <4>4 DEF Promise!FairNext
    <3> QED
      BY <3>1, <3>2
  <2>2. CASE Settle(j) \/ ExpireEnqueueKey(j)
    <3>1. Turns' = Turns /\ Ringed'
      BY <2>2, ScoresKept DEF Settle, ExpireEnqueueKey
    <3>2. Promise!SubmissionSettles(j) \/ Promise!KeyExpires(j)
      BY <2>2, <3>1 DEF Settle, ExpireEnqueueKey, Promise!SubmissionSettles,
         Promise!KeyExpires, leaseVars, Promise!leaseVars
    <3> QED
      BY <3>1, <3>2 DEF Promise!FairNext
  <2>3. CASE EnqueueIfAbsent(j)
    <3>1. Promise!Join(j) /\ Ringed'
      BY <2>3, PushJoins DEF EnqueueIfAbsent
    <3>2. ~Promise!Full(j) /\ ~Promise!Pending(j) /\ ~Promise!Leased(j)
      <4>1. Len(queue[Owner[j]]) \in Nat /\ Capacity \in Nat
        BY OwnerAssumption, CapacityAssumption DEF IndInv, TypeOK
      <4> QED
        BY <2>3, <4>1 DEF EnqueueIfAbsent, InQueue, Leased, Promise!Full, Promise!Pending,
           Promise!Leased
    <3>3. Promise!Adopt(j)
      BY <2>3, <3>1, <3>2 DEF EnqueueIfAbsent, Promise!Adopt, leaseVars, Promise!leaseVars
    <3> QED
      BY <3>1, <3>3 DEF Promise!FairNext
  <2>4. CASE LeaseOp(j)
    <3>1. Turns' = Turns /\ Ringed'
      BY <2>4, ScoresKept DEF LeaseOp
    <3>2. Promise!LeaseStep(j)
      <4>1. \/ Promise!ExtendProcessingLease(j) \/ Promise!ReleaseProcessingJob(j)
            \/ Promise!MarkJobCompleted(j) \/ Promise!RemoveCompletedJob(j)
        BY <2>4 DEF LeaseOp, ExtendProcessingLease, ReleaseProcessingJob, MarkJobCompleted,
           RemoveCompletedJob, Leased, Grant, Drop, Promise!ExtendProcessingLease,
           Promise!ReleaseProcessingJob, Promise!MarkJobCompleted,
           Promise!RemoveCompletedJob, Promise!Leased, Promise!Grant, Promise!Drop
      <4>2. UNCHANGED <<queue, Turns, enqueueKey, phase>>
        BY <2>4, <3>1 DEF LeaseOp
      <4> QED
        BY <4>1, <4>2 DEF Promise!LeaseStep, Promise!queueVars
    <3> QED
      BY <3>1, <3>2 DEF Promise!FairNext
  <2>5. ASSUME NEW cutoff \in 0..now, RequeueIfExpired(j, cutoff)
        PROVE  Promise!FairNext /\ Ringed'
    <3>1. Promise!Join(j) /\ Ringed'
      BY <2>5, PushJoins DEF RequeueIfExpired
    <3>2. Promise!Requeue(j, cutoff)
      BY <2>5, <3>1 DEF RequeueIfExpired, Expired, Leased, Drop, Promise!Requeue,
         Promise!Expired, Promise!Leased, Promise!Drop
    <3> QED
      BY <3>1, <3>2 DEF Promise!FairNext
  <2>6. ASSUME NEW cutoff \in 0..now, RemoveIfExpired(j, cutoff)
        PROVE  Promise!FairNext /\ Ringed'
    <3>1. Turns' = Turns /\ Ringed'
      BY <2>6, ScoresKept DEF RemoveIfExpired
    <3>2. Promise!Discard(j, cutoff)
      BY <2>6, <3>1 DEF RemoveIfExpired, Expired, Leased, Drop, Promise!Discard,
         Promise!Expired, Promise!Leased, Promise!Drop, Promise!queueVars
    <3> QED
      BY <3>1, <3>2 DEF Promise!FairNext
  <2> QED
    BY <1>3, <2>1, <2>2, <2>3, <2>4, <2>5, <2>6 DEF JobOp
<1> QED
  BY <1>1, <1>2, <1>3 DEF Next

(* The scripts, with one score per user and one counter, implement the     *)
(* round-robin queue of FairQueue for any users, jobs and capacity.        *)
THEOREM ScriptsKeepPromise == Spec => ImplementsFairQueue
<1>1. Init => Promise!FairInit /\ Ringed
  <2> SUFFICES ASSUME Init PROVE Promise!FairInit /\ Ringed
    OBVIOUS
  <2>1. active \in [Users -> Nat] /\ \A u \in Users : active[u] = 0
    BY DEF Init
  <2>2. InTurn(active, << >>) /\ << >> \in Seq(Users)
    BY <2>1 DEF InTurn
  <2>3. Turns = << >>
    BY <2>1, <2>2, RingIs DEF Turns
  <2> QED
    BY <2>2, <2>3 DEF Init, LeaseInit, Promise!FairInit, Promise!LeaseInit, Ringed
<1>2. IndInv /\ Ringed /\ Next => Promise!FairNext /\ Ringed'
  BY StepKeepsPromise
<1>3. IndInv /\ Ringed /\ UNCHANGED vars => UNCHANGED Promise!fairVars /\ Ringed'
  <2> SUFFICES ASSUME IndInv, Ringed, UNCHANGED vars
               PROVE  UNCHANGED Promise!fairVars /\ Ringed'
    OBVIOUS
  <2>1. Turns' = Turns /\ Ringed'
    BY ScoresKept DEF vars
  <2> QED
    BY <2>1 DEF vars, Promise!fairVars
<1> QED
  BY <1>1, <1>2, <1>3, SchedulerSafe, PTL DEF Spec, ImplementsFairQueue, Promise!FairSpec
=============================================================================
