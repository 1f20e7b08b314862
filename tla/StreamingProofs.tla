-------------------------- MODULE StreamingProofs --------------------------
(***************************************************************************)
(* A connection replays the stream in order, and a stream that nothing     *)
(* disturbs holds the whole answer, for any number of connections, chunks  *)
(* and attempts and any size of batch and buffer.                          *)
(*                                                                         *)
(* The first rests on where each entry is on its way: what was written and *)
(* what is in the channel make up the log as far as it was passed on.  The *)
(* second rests on the story that the log tells: every chunk continues the *)
(* attempt that began at the start or after the last "retrying".           *)
(* A third holds even when the stream expires: what arrives is in order,   *)
(* none of it twice, and a terminal event is the last.                     *)
(***************************************************************************)
EXTENDS Streaming, TLAPS

WorkerSteps == {"generate", "append", "expire", "retain", "lost", "over"}

(* The worker: what it publishes fits where it is.                         *)
WorkerTypes == /\ step \in WorkerSteps
               /\ event \in Events \cup {Note("none")}
               /\ attempt \in 1..MaxAttempts /\ next \in 1..(Chunks + 1)

Publishing ==
    /\ step \in {"append", "expire", "retain"} => event \in Events
    /\ step = "retain" => Terminal(event)
    /\ step \in {"append", "expire"} /\ event.type = "chunk" =>
          event = Chunk(next) /\ next <= Chunks
    /\ step \in {"append", "expire"} /\ event.type = "retrying" => attempt < MaxAttempts

StreamTypes == /\ log \in Seq(Events) /\ dropped \in Nat /\ dropped <= Len(log)
               /\ ttl \in {"none", "short", "long"}

ConnTypes == /\ conn \in [Connections -> {"off", "on", "over"}]
             /\ reading \subseteq Connections
             /\ lastID \in [Connections -> Nat] /\ fetched \in [Connections -> Nat]
             /\ channel \in [Connections -> Seq(Events)]
             /\ got \in [Connections -> Seq(Events)]
             /\ places \in [Connections -> Seq(Nat)]

Positions(c) == /\ lastID[c] <= fetched[c] /\ fetched[c] <= Len(log)
                /\ Len(channel[c]) <= Buffer

Marker == marked \in BOOLEAN

Types == /\ WorkerTypes /\ Publishing /\ StreamTypes /\ ConnTypes /\ Marker
         /\ \A c \in Connections : Positions(c)
         /\ faults \in 0..MaxFaults

(* The kinds of events.                                                    *)
LEMMA EventKinds ==
    /\ \A n : Chunk(n).type = "chunk" /\ ~Terminal(Chunk(n))
    /\ \A t : Note(t).type = t
    /\ \A n \in 1..Chunks : Chunk(n) \in Events
    /\ \A t \in {"retrying", "completed", "failed"} : Note(t) \in Events
    /\ \A e \in Events : e.type \in {"chunk", "retrying", "completed", "failed"}
    /\ \A e \in Events : e.type = "chunk" => \E n \in 1..Chunks : e = Chunk(n)
    /\ \A e \in Events : e.type # "chunk" => e = Note(e.type)
  BY DEF Chunk, Note, Events, Terminal

(* XADD at the end of the stream.                                          *)
LEMMA AppendFacts ==
    ASSUME NEW S, NEW s \in Seq(S), NEW x \in S
    PROVE  /\ Append(s, x) \in Seq(S)
           /\ Len(s) \in Nat
           /\ Len(Append(s, x)) = Len(s) + 1
           /\ \A i \in 1..Len(s) : Append(s, x)[i] = s[i]
           /\ Append(s, x)[Len(s) + 1] = x
  OBVIOUS

(* Receiving from the channel.                                             *)
LEMMA TailFacts ==
    ASSUME NEW S, NEW s \in Seq(S), s # << >>
    PROVE  /\ Tail(s) \in Seq(S)
           /\ Head(s) \in S
           /\ Head(s) = s[1]
           /\ Len(s) \in Nat /\ Len(s) >= 1
           /\ Len(Tail(s)) = Len(s) - 1
           /\ \A i \in 1..(Len(s) - 1) : Tail(s)[i] = s[i + 1]
  OBVIOUS

(* The steps of the worker, of recovery and of the stream.                 *)
Production == \/ Generation \/ CallFails \/ WorkerLost \/ Recover \/ Reconcile
              \/ StreamExpires

(* What a publication that has succeeded leaves of the worker's types.     *)
LEMMA PublishedTypes ==
    ASSUME Types, step \in {"append", "expire", "retain"}, Published
    PROVE  WorkerTypes' /\ Publishing'
<1>1. /\ event \in Events /\ attempt \in 1..MaxAttempts /\ next \in 1..(Chunks + 1)
      /\ Chunks \in Nat /\ MaxAttempts \in Nat
  BY StreamingAssumption DEF Types, WorkerTypes, Publishing
<1>2. CASE /\ event.type = "chunk"
           /\ step' = "generate" /\ next' = next + 1
           /\ UNCHANGED <<event, attempt>>
  <2>1. next <= Chunks
    BY <1>2 DEF Types, Publishing, Terminal
  <2> QED
    BY <1>1, <1>2, <2>1 DEF WorkerTypes, Publishing, WorkerSteps
<1>3. CASE /\ event.type = "retrying"
           /\ step' = "generate" /\ attempt' = attempt + 1 /\ next' = 1
           /\ UNCHANGED event
  <2>1. attempt < MaxAttempts
    BY <1>3 DEF Types, Publishing, Terminal
  <2> QED
    BY <1>1, <1>3, <2>1 DEF WorkerTypes, Publishing, WorkerSteps
<1>4. CASE /\ Terminal(event)
           /\ step' = "over"
           /\ UNCHANGED <<event, attempt, next>>
  BY <1>1, <1>4 DEF WorkerTypes, Publishing, WorkerSteps
<1> QED
  BY <1>2, <1>3, <1>4 DEF Published

(* The worker stays within its attempts and the answer.                    *)
LEMMA ProductionTypes ==
    ASSUME Types, Production
    PROVE  WorkerTypes' /\ Publishing'
<1>0. /\ WorkerTypes /\ Publishing /\ Chunks \in Nat /\ MaxAttempts \in Nat
      /\ 1 \in 1..MaxAttempts /\ 1 \in 1..(Chunks + 1)
  BY StreamingAssumption DEF Types
<1>1. ASSUME NEW e \in Events, Publish(e), UNCHANGED <<attempt, next>>,
             e.type = "chunk" => e = Chunk(next) /\ next <= Chunks,
             e.type = "retrying" => attempt < MaxAttempts
      PROVE  WorkerTypes' /\ Publishing'
  BY <1>0, <1>1 DEF Publish, WorkerTypes, Publishing, WorkerSteps
<1>2. CASE ChunkArrives
  <2>1. Chunk(next) \in Events /\ Chunk(next).type # "retrying"
    BY <1>0, <1>2, EventKinds DEF ChunkArrives, WorkerTypes
  <2> QED
    BY <1>1, <1>2, <2>1 DEF ChunkArrives
<1>3. CASE Finishes \/ \E cause \in Causes : AttemptFails(cause)
  <2>1. PICK t \in {"completed", "retrying", "failed"} :
           /\ Publish(Note(t)) /\ UNCHANGED <<attempt, next>>
           /\ t = "retrying" => attempt < MaxAttempts
    BY <1>3 DEF Finishes, AttemptFails
  <2>2. Note(t) \in Events /\ Note(t).type = t
    BY EventKinds
  <2> QED
    BY <1>1, <2>1, <2>2
<1>4. CASE XAdd
  BY <1>0, <1>4 DEF XAdd, WorkerTypes, Publishing, WorkerSteps
<1>5. CASE ExpireNX \/ Retain
  <2>1. CASE Published
    BY <1>5, <2>1, PublishedTypes DEF ExpireNX, Retain
  <2>2. CASE /\ step = "expire" /\ Terminal(event)
             /\ step' = "retain" /\ UNCHANGED <<event, attempt, next>>
    BY <1>0, <2>2 DEF WorkerTypes, Publishing, WorkerSteps
  <2> QED
    BY <1>5, <2>1, <2>2 DEF ExpireNX, Retain
<1>6. CASE CallFails
  <2>1. CASE PublishFails
    <3>1. Note("failed") \in Events /\ Note("failed").type = "failed"
      BY EventKinds
    <3>2. CASE event.type = "chunk"
      BY <1>1, <2>1, <3>1, <3>2 DEF PublishFails
    <3>3. CASE event.type # "chunk"
      BY <1>6, <2>1, <3>3, PublishedTypes DEF PublishFails, CallFails
    <3> QED
      BY <3>2, <3>3
  <2>2. CASE UNCHANGED <<step, event, attempt, next>>
    BY <1>0, <2>2 DEF WorkerTypes, Publishing
  <2> QED
    BY <1>6, <2>1, <2>2 DEF CallFails
<1>7. CASE WorkerLost
  BY <1>0, <1>7 DEF WorkerLost, WorkerTypes, Publishing, WorkerSteps
<1>8. CASE Recover
  <2>1. Note("failed") \in Events /\ Note("failed").type = "failed"
    BY EventKinds
  <2>2. CASE Publish(Note("failed")) /\ UNCHANGED <<attempt, next>>
    BY <1>1, <2>1, <2>2
  <2>3. CASE step' = "over" /\ UNCHANGED <<event, attempt, next>>
    BY <1>0, <2>3 DEF WorkerTypes, Publishing, WorkerSteps
  <2>4. CASE /\ step' = "generate" /\ event' = Note("none")
             /\ attempt' = 1 /\ next' = 1
    BY <1>0, <2>4 DEF WorkerTypes, Publishing, WorkerSteps
  <2> QED
    BY <1>8, <2>2, <2>3, <2>4 DEF Recover
<1>9. CASE Reconcile \/ StreamExpires
  <2>1. UNCHANGED <<step, event, attempt, next>>
    BY <1>9 DEF Reconcile, StreamExpires, workerVars
  <2> QED
    BY <1>0, <2>1 DEF WorkerTypes, Publishing
<1> QED
  BY <1>2, <1>3, <1>4, <1>5, <1>6, <1>7, <1>8, <1>9 DEF Production, Generation

(* The stream only grows.                                                  *)
LogGrows == /\ Len(log) \in Nat /\ Len(log') \in Nat /\ Len(log) <= Len(log')
            /\ \A i \in 1..Len(log) : log'[i] = log[i]

(* Production appends to the stream or lets it expire.                     *)
LEMMA ProductionStream ==
    ASSUME Types, Production
    PROVE  StreamTypes' /\ LogGrows /\ dropped <= dropped' /\ UNCHANGED connVars
<1>0. StreamTypes /\ Len(log) \in Nat
  BY DEF Types, StreamTypes
<1>1. CASE log' = log
  <2>1. LogGrows
    BY <1>0, <1>1 DEF LogGrows
  <2>2. dropped' \in Nat /\ dropped' <= Len(log) /\ dropped <= dropped'
    BY <1>0 DEF Production, Generation, ChunkArrives, Finishes, AttemptFails, XAdd,
       ExpireNX, Retain, CallFails, WorkerLost, Recover, Reconcile, StreamExpires,
       StreamTypes, streamVars
  <2>3. ttl' \in {"none", "short", "long"}
    BY <1>0 DEF Production, Generation, ChunkArrives, Finishes, AttemptFails, XAdd,
       ExpireNX, Retain, CallFails, WorkerLost, Recover, Reconcile, StreamExpires,
       StreamTypes, streamVars
  <2>4. UNCHANGED connVars
    BY DEF Production, Generation, ChunkArrives, Finishes, AttemptFails, XAdd,
       ExpireNX, Retain, CallFails, WorkerLost, Recover, Reconcile, StreamExpires
  <2> QED
    BY <1>0, <1>1, <2>1, <2>2, <2>3, <2>4 DEF StreamTypes
<1>2. CASE log' # log
  <2>1. PICK e \in Events : log' = Append(log, e)
    BY <1>2, EventKinds DEF Production, Generation, ChunkArrives, Finishes, AttemptFails,
       XAdd, ExpireNX, Retain, CallFails, WorkerLost, Recover, Reconcile, StreamExpires,
       Types, Publishing, streamVars
  <2>2. /\ log' \in Seq(Events) /\ Len(log') = Len(log) + 1
        /\ \A i \in 1..Len(log) : log'[i] = log[i]
    BY <1>0, <2>1, AppendFacts DEF StreamTypes
  <2>3. /\ dropped' = dropped /\ ttl' \in {"none", "short", "long"} /\ UNCHANGED connVars
    BY <1>0, <1>2 DEF Production, Generation, ChunkArrives, Finishes, AttemptFails,
       XAdd, ExpireNX, Retain, CallFails, WorkerLost, Recover, Reconcile, StreamExpires,
       StreamTypes, streamVars
  <2> QED
    BY <1>0, <2>2, <2>3 DEF StreamTypes, LogGrows
<1> QED
  BY <1>1, <1>2

(* The steps of connection c.                                              *)
Connecting(c) == Connect(c) \/ Delivery(c) \/ ReadFails(c) \/ Leave(c)

(* A connection changes neither the worker nor the stream.                 *)
LEMMA ConnectingFrame ==
    ASSUME NEW c \in Connections, Connecting(c)
    PROVE  UNCHANGED <<workerVars, streamVars>>
  BY DEF Connecting, Connect, Delivery, XRead, PassOn, Write, NoEvents, ReadFails, Leave

(* No connection runs ahead of the stream or overfills its channel.        *)
LEMMA ConnectingTypes ==
    ASSUME Types, NEW c \in Connections, Connecting(c)
    PROVE  ConnTypes' /\ \A d \in Connections : Positions(d)'
<1>0. /\ ConnTypes /\ \A d \in Connections : Positions(d)
      /\ log \in Seq(Events) /\ Len(log) \in Nat /\ dropped \in Nat /\ dropped <= Len(log)
      /\ log' = log
      /\ Batch \in Nat /\ Buffer \in Nat /\ Buffer >= 1
  BY ConnectingFrame, StreamingAssumption DEF Types, StreamTypes, streamVars
<1>1. /\ lastID[c] \in Nat /\ fetched[c] \in Nat
      /\ channel[c] \in Seq(Events) /\ got[c] \in Seq(Events)
      /\ lastID[c] <= fetched[c] /\ fetched[c] <= Len(log) /\ Len(channel[c]) <= Buffer
  BY <1>0 DEF ConnTypes, Positions
<1>2. CASE Connect(c) \/ NoEvents(c) \/ ReadFails(c)
  BY <1>0, <1>2 DEF Connect, NoEvents, ReadFails, ConnTypes, Positions
<1>3. CASE XRead(c)
  <2> DEFINE from == Greater(lastID[c], dropped)
             to == Lesser(Len(log), from + Batch)
  <2>1. from \in Nat /\ to \in Nat /\ from <= to /\ to <= Len(log)
    BY <1>0, <1>1, <1>3 DEF XRead, Greater, Lesser
  <2>2. /\ lastID' = [lastID EXCEPT ![c] = from] /\ fetched' = [fetched EXCEPT ![c] = to]
        /\ UNCHANGED <<conn, reading, channel, got, places>>
    BY <1>3 DEF XRead
  <2> HIDE DEF from, to
  <2> QED
    BY <1>0, <2>1, <2>2 DEF ConnTypes, Positions
<1>4. CASE PassOn(c)
  <2>1. log[lastID[c] + 1] \in Events
    BY <1>0, <1>1, <1>4 DEF PassOn
  <2>2. /\ channel'[c] \in Seq(Events) /\ Len(channel'[c]) = Len(channel[c]) + 1
        /\ \A d \in Connections : d # c => channel'[d] = channel[d]
        /\ channel' \in [Connections -> Seq(Events)]
    BY <1>0, <1>1, <1>4, <2>1, AppendFacts DEF PassOn, ConnTypes
  <2>3. /\ lastID' \in [Connections -> Nat] /\ lastID'[c] = lastID[c] + 1
        /\ \A d \in Connections : d # c => lastID'[d] = lastID[d]
        /\ reading' \subseteq Connections
    BY <1>0, <1>1, <1>4 DEF PassOn, ConnTypes
  <2>4. lastID[c] < fetched[c] /\ Len(channel[c]) < Buffer /\ Len(channel[c]) \in Nat
    BY <1>1, <1>4 DEF PassOn
  <2>5. UNCHANGED <<conn, fetched, got>>
    BY <1>4 DEF PassOn
  <2>6. Positions(c)'
    BY <1>0, <1>1, <2>2, <2>3, <2>4, <2>5 DEF Positions
  <2>7. \A d \in Connections : d # c => Positions(d)'
    BY <1>0, <2>2, <2>3, <2>5 DEF Positions
  <2>8. places' \in [Connections -> Seq(Nat)]
    <3>1. places[c] \in Seq(Nat) /\ lastID[c] + 1 \in Nat
      BY <1>0, <1>1 DEF ConnTypes
    <3>2. Append(places[c], lastID[c] + 1) \in Seq(Nat)
      BY <3>1, AppendFacts
    <3> QED
      BY <1>0, <1>4, <3>2 DEF PassOn, ConnTypes
  <2>9. ConnTypes'
    BY <1>0, <2>2, <2>3, <2>5, <2>8 DEF ConnTypes
  <2> QED
    BY <2>6, <2>7, <2>9
<1>5. CASE Write(c)
  <2>1. /\ Tail(channel[c]) \in Seq(Events) /\ Head(channel[c]) \in Events
        /\ Len(Tail(channel[c])) <= Buffer
    BY <1>0, <1>1, <1>5, TailFacts DEF Write
  <2>2. Append(got[c], Head(channel[c])) \in Seq(Events)
    BY <1>1, <2>1, AppendFacts
  <2>3. conn' \in [Connections -> {"off", "on", "over"}]
    BY <1>0, <1>5 DEF Write, ConnTypes
  <2> QED
    BY <1>0, <1>5, <2>1, <2>2, <2>3 DEF Write, ConnTypes, Positions
<1>6. CASE Leave(c)
  BY <1>0, <1>6 DEF Leave, ConnTypes, Positions
<1> QED
  BY <1>2, <1>3, <1>4, <1>5, <1>6 DEF Connecting, Delivery

(* A step is one of production or of a connection.                         *)
LEMMA NextSteps == ASSUME Next PROVE Production \/ \E c \in Connections : Connecting(c)
  BY DEF Next, Production, Connecting

(* Faults are used up, never gained.                                       *)
LEMMA FaultsFall ==
    ASSUME Types, Next
    PROVE  faults' \in 0..MaxFaults /\ faults' <= faults
<1>1. faults' = faults \/ Fault
  BY DEF Next, Generation, ChunkArrives, Finishes, AttemptFails, XAdd, ExpireNX, Retain,
     CallFails, WorkerLost, Recover, Reconcile, StreamExpires, Connect, Delivery, XRead,
     PassOn, Write, NoEvents, ReadFails, Leave
<1> QED
  BY <1>1, StreamingAssumption DEF Types, Fault

(* The marker is there or not.                                             *)
LEMMA MarkerStep ==
    ASSUME Types, Next
    PROVE  Marker'
<1>1. marked' = marked \/ marked' = TRUE \/ marked' = FALSE
  BY DEF Next, Generation, ChunkArrives, Finishes, AttemptFails, XAdd, ExpireNX, Retain,
     CallFails, WorkerLost, Recover, Reconcile, StreamExpires, Connect, Delivery, XRead,
     PassOn, Write, NoEvents, ReadFails, Leave, workerVars
<1>2. marked \in BOOLEAN
  BY DEF Types, Marker
<1> QED
  BY <1>1, <1>2, Zenon DEF Marker

(* Types is inductive.                                                     *)
LEMMA TypesStep ==
    ASSUME Types, Next
    PROVE  Types'
<1>1. faults' \in 0..MaxFaults /\ Marker'
  BY FaultsFall, MarkerStep
<1>2. CASE Production
  <2>1. WorkerTypes' /\ Publishing'
    BY <1>2, ProductionTypes
  <2>2. StreamTypes' /\ LogGrows /\ UNCHANGED connVars
    BY <1>2, ProductionStream
  <2>3. ConnTypes' /\ \A c \in Connections : Positions(c)'
    BY <2>2 DEF Types, ConnTypes, Positions, LogGrows, connVars
  <2> QED
    BY <1>1, <2>1, <2>2, <2>3 DEF Types
<1>3. ASSUME NEW c \in Connections, Connecting(c)
      PROVE  Types'
  <2>1. UNCHANGED <<workerVars, streamVars>>
    BY <1>3, ConnectingFrame
  <2>2. WorkerTypes' /\ Publishing' /\ StreamTypes'
    BY <2>1 DEF Types, WorkerTypes, Publishing, StreamTypes, workerVars, streamVars
  <2>3. ConnTypes' /\ \A d \in Connections : Positions(d)'
    BY <1>3, ConnectingTypes
  <2> QED
    BY <1>1, <2>2, <2>3 DEF Types
<1> QED
  BY <1>2, <1>3, NextSteps
-----------------------------------------------------------------------------
(* Where the entries of the stream are on their way to connection c.       *)
Unopened(c) == conn[c] = "off" =>
    /\ c \notin reading /\ lastID[c] = 0 /\ channel[c] = << >> /\ got[c] = << >>

Reader(c) == c \in reading =>
    conn[c] = "on" /\ \A i \in 1..lastID[c] : ~Terminal(log[i])

Written(c) == /\ Len(got[c]) <= lastID[c]
              /\ \A i \in 1..Len(got[c]) : got[c][i] = log[i]

(* h is what l holds from place a + 1 to place n.                          *)
Follows(h, l, a, n) == n = a + Len(h) /\ \A i \in 1..Len(h) : h[i] = l[a + i]

OnTheWay(c) == conn[c] = "on" => Follows(channel[c], log, Len(got[c]), lastID[c])

LastOnly(c) == \A i \in 1..(lastID[c] - 1) : ~Terminal(log[i])

Replay(c) == Unopened(c) /\ Reader(c) /\ Written(c) /\ OnTheWay(c) /\ LastOnly(c)

Replays == dropped = 0 => \A c \in Connections : Replay(c)

(* It stays so in a longer l.                                              *)
LEMMA FollowsLonger ==
    ASSUME NEW S, NEW h \in Seq(S), NEW l, NEW m, NEW a \in Nat, NEW n \in Nat,
           Follows(h, l, a, n), \A i \in 1..n : m[i] = l[i]
    PROVE  Follows(h, m, a, n)
<1>1. n = a + Len(h) /\ Len(h) \in Nat
  BY DEF Follows
<1>2. \A i \in 1..Len(h) : a + i \in 1..n
  BY <1>1
<1> QED
  BY <1>1, <1>2 DEF Follows

(* The entry after n follows h into the channel,                           *)
LEMMA Feed ==
    ASSUME NEW S, NEW l \in Seq(S), NEW h \in Seq(S), NEW a \in Nat, NEW n \in Nat,
           Follows(h, l, a, n), n < Len(l)
    PROVE  Follows(Append(h, l[n + 1]), l, a, n + 1)
<1>1. n + 1 \in 1..Len(l)
  OBVIOUS
<1>2. l[n + 1] \in S
  BY <1>1
<1> QED
  BY <1>2 DEF Follows

(* and the first entry of h leaves it.                                     *)
LEMMA Drain ==
    ASSUME NEW S, NEW h \in Seq(S), NEW l, NEW a \in Nat, NEW n \in Nat,
           Follows(h, l, a, n), h # << >>
    PROVE  /\ Head(h) = l[a + 1] /\ a + 1 \in 1..n
           /\ Follows(Tail(h), l, a + 1, n)
<1>0. n = a + Len(h) /\ \A i \in 1..Len(h) : h[i] = l[a + i]
  BY DEF Follows
<1>1. Head(h) = h[1] /\ Len(h) >= 1 /\ Len(h) \in Nat
  OBVIOUS
<1>2. Head(h) = l[a + 1] /\ a + 1 \in 1..n
  BY <1>0, <1>1
<1>3. n = (a + 1) + Len(Tail(h))
  BY <1>0
<1>4. ASSUME NEW i \in 1..Len(Tail(h))
      PROVE  Tail(h)[i] = l[(a + 1) + i]
  <2>1. Tail(h)[i] = h[i + 1] /\ i + 1 \in 1..Len(h)
    BY <1>1
  <2>2. a + (i + 1) = (a + 1) + i
    OBVIOUS
  <2> QED
    BY <1>0, <2>1, <2>2
<1> QED
  BY <1>2, <1>3, <1>4 DEF Follows

(* Production appends: no entry that a connection has had changes.         *)
LEMMA ProductionReplay ==
    ASSUME Types, Replays, Production
    PROVE  Replays'
<1>1. LogGrows /\ dropped <= dropped' /\ UNCHANGED connVars /\ StreamTypes'
  BY ProductionStream
<1> SUFFICES ASSUME dropped' = 0, NEW c \in Connections
             PROVE  Replay(c)'
  BY DEF Replays
<1>2. /\ Replay(c)
      /\ lastID[c] \in Nat /\ channel[c] \in Seq(Events) /\ got[c] \in Seq(Events)
      /\ lastID[c] <= Len(log)
  BY <1>1 DEF Types, StreamTypes, ConnTypes, Positions, Replays
<1>3. \A i \in 1..lastID[c] : i \in 1..Len(log) /\ log'[i] = log[i]
  BY <1>1, <1>2 DEF LogGrows
<1>4. /\ conn' = conn /\ reading' = reading /\ lastID' = lastID /\ channel' = channel
      /\ got' = got
  BY <1>1 DEF connVars
<1>5. Unopened(c)' /\ Reader(c)' /\ LastOnly(c)'
  BY <1>2, <1>3, <1>4 DEF Replay, Unopened, Reader, LastOnly
<1>6. Written(c)'
  BY <1>2, <1>3, <1>4 DEF Replay, Written
<1>7. OnTheWay(c)'
  <2>1. Len(got[c]) \in Nat
    BY <1>2
  <2> QED
    BY <1>2, <1>3, <1>4, <2>1, FollowsLonger DEF Replay, OnTheWay
<1> QED
  BY <1>5, <1>6, <1>7 DEF Replay

(* A connection reads, buffers and writes in order, and stops at the first *)
(* terminal event.                                                         *)
LEMMA ConnectingReplay ==
    ASSUME Types, NEW c \in Connections, Connecting(c), dropped = 0, Replay(c)
    PROVE  Replay(c)'
<1>0. log' = log /\ log \in Seq(Events) /\ Len(log) \in Nat
  BY ConnectingFrame DEF Types, StreamTypes, streamVars
<1>1. /\ lastID[c] \in Nat /\ fetched[c] \in Nat
      /\ channel[c] \in Seq(Events) /\ got[c] \in Seq(Events)
      /\ Len(channel[c]) \in Nat /\ Len(got[c]) \in Nat
      /\ lastID[c] <= fetched[c] /\ fetched[c] <= Len(log)
      /\ conn \in [Connections -> {"off", "on", "over"}]
  BY DEF Types, ConnTypes, Positions
<1>2. Unopened(c) /\ Reader(c) /\ Written(c) /\ OnTheWay(c) /\ LastOnly(c)
  BY DEF Replay
<1>3. CASE Connect(c)
  <2>1. /\ conn[c] = "off" /\ conn'[c] = "on"
        /\ UNCHANGED <<lastID, channel, got>>
    BY <1>1, <1>3 DEF Connect
  <2>2. lastID[c] = 0 /\ channel[c] = << >> /\ got[c] = << >>
    BY <1>2, <2>1 DEF Unopened
  <2> QED
    BY <1>0, <2>1, <2>2 DEF Replay, Unopened, Reader, Written, OnTheWay, Follows,
       LastOnly
<1>4. CASE XRead(c)
  <2>1. /\ lastID'[c] = lastID[c] /\ UNCHANGED <<conn, reading, channel, got>>
    BY <1>1, <1>4 DEF XRead, Greater, Types, ConnTypes
  <2> QED
    BY <1>0, <1>2, <2>1 DEF Replay, Unopened, Reader, Written, OnTheWay, LastOnly
<1>5. CASE PassOn(c)
  <2> DEFINE e == log[lastID[c] + 1]
  <2>1. /\ c \in reading /\ lastID[c] < Len(log) /\ conn[c] = "on"
        /\ \A i \in 1..lastID[c] : ~Terminal(log[i])
    BY <1>1, <1>2, <1>5 DEF PassOn, Reader
  <2>2. /\ UNCHANGED <<conn, got>> /\ lastID'[c] = lastID[c] + 1
        /\ channel'[c] = Append(channel[c], e)
        /\ c \in reading' => ~Terminal(e)
    BY <1>5 DEF PassOn, Types, ConnTypes
  <2>3. e \in Events
    BY <1>0, <1>1, <2>1
  <2>4. Follows(channel[c], log, Len(got[c]), lastID[c])
    BY <1>2, <2>1 DEF OnTheWay
  <2>5. OnTheWay(c)'
    <3>1. Follows(Append(channel[c], e), log, Len(got[c]), lastID[c] + 1)
      BY <1>0, <1>1, <2>1, <2>4, Feed
    <3> QED
      BY <1>0, <2>2, <3>1 DEF OnTheWay
  <2>6. Written(c)'
    BY <1>0, <1>1, <1>2, <2>2 DEF Written
  <2>7. Unopened(c)' /\ Reader(c)' /\ LastOnly(c)'
    BY <1>0, <1>1, <2>1, <2>2 DEF Unopened, Reader, LastOnly
  <2> QED
    BY <2>5, <2>6, <2>7 DEF Replay
<1>6. CASE Write(c)
  <2> DEFINE e == Head(channel[c])
  <2>1. /\ conn[c] = "on" /\ channel[c] # << >>
        /\ got'[c] = Append(got[c], e) /\ channel'[c] = Tail(channel[c])
        /\ conn'[c] = IF Terminal(e) THEN "over" ELSE "on"
        /\ UNCHANGED <<reading, lastID>>
    BY <1>6 DEF Write, Types, ConnTypes
  <2>2. Follows(channel[c], log, Len(got[c]), lastID[c])
    BY <1>2, <2>1 DEF OnTheWay
  <2>3. /\ e = log[Len(got[c]) + 1] /\ Len(got[c]) + 1 \in 1..lastID[c]
        /\ Follows(Tail(channel[c]), log, Len(got[c]) + 1, lastID[c])
    BY <1>1, <2>1, <2>2, Drain
  <2>4. e \in Events
    BY <1>1, <2>1, TailFacts
  <2>5. /\ Len(got'[c]) = Len(got[c]) + 1
        /\ \A i \in 1..Len(got[c]) : got'[c][i] = got[c][i]
        /\ got'[c][Len(got[c]) + 1] = e
    BY <1>1, <2>1, <2>4, AppendFacts
  <2>6. OnTheWay(c)' /\ Written(c)'
    BY <1>0, <1>1, <1>2, <2>1, <2>3, <2>5 DEF OnTheWay, Written
  <2>7. c \in reading => ~Terminal(e)
    BY <1>2, <2>3 DEF Reader
  <2>8. Unopened(c)' /\ Reader(c)' /\ LastOnly(c)'
    BY <1>0, <1>2, <2>1, <2>7 DEF Unopened, Reader, LastOnly
  <2> QED
    BY <2>6, <2>8 DEF Replay
<1>7. CASE NoEvents(c) \/ Leave(c)
  <2>1. /\ conn'[c] = "over" /\ c \notin reading' /\ UNCHANGED <<lastID, got>>
    BY <1>1, <1>7 DEF NoEvents, Leave
  <2> QED
    BY <1>0, <1>2, <2>1 DEF Replay, Unopened, Reader, Written, OnTheWay, LastOnly
<1>8. CASE ReadFails(c)
  <2>1. c \notin reading' /\ UNCHANGED <<conn, lastID, channel, got>>
    BY <1>8 DEF ReadFails
  <2> QED
    BY <1>0, <1>2, <2>1 DEF Replay, Unopened, Reader, Written, OnTheWay, LastOnly
<1> QED
  BY <1>3, <1>4, <1>5, <1>6, <1>7, <1>8 DEF Connecting, Delivery

(* Connections do not touch each other.                                    *)
LEMMA ConnectionsApart ==
    ASSUME Types, NEW c \in Connections, Connecting(c),
           NEW d \in Connections, d # c
    PROVE  /\ conn'[d] = conn[d] /\ lastID'[d] = lastID[d]
           /\ channel'[d] = channel[d] /\ got'[d] = got[d] /\ places'[d] = places[d]
           /\ d \in reading' <=> d \in reading
<1>1. CASE Connect(c) \/ XRead(c) \/ ReadFails(c) \/ Leave(c) \/ NoEvents(c)
  BY <1>1 DEF Connect, XRead, ReadFails, Leave, NoEvents, Types, ConnTypes
<1>2. CASE PassOn(c)
  BY <1>2 DEF PassOn, Types, ConnTypes
<1>3. CASE Write(c)
  BY <1>3 DEF Write, Types, ConnTypes
<1> QED
  BY <1>1, <1>2, <1>3 DEF Connecting, Delivery

(* The places of the entries on their way are kept by every step,          *)
LEMMA ReplayStep ==
    ASSUME Types, Replays, Next
    PROVE  Replays'
<1>1. CASE Production
  BY <1>1, ProductionReplay
<1>2. ASSUME NEW c \in Connections, Connecting(c)
      PROVE  Replays'
  <2>1. log' = log /\ dropped' = dropped
    BY <1>2, ConnectingFrame DEF streamVars
  <2> SUFFICES ASSUME dropped = 0, NEW d \in Connections
               PROVE  Replay(d)'
    BY <2>1 DEF Replays
  <2>2. Replay(d)
    BY DEF Replays
  <2>3. CASE d = c
    BY <1>2, <2>2, <2>3, ConnectingReplay
  <2>4. CASE d # c
    <3>1. /\ conn'[d] = conn[d] /\ lastID'[d] = lastID[d]
          /\ channel'[d] = channel[d] /\ got'[d] = got[d]
          /\ d \in reading' <=> d \in reading
      BY <1>2, <2>4, ConnectionsApart
    <3> QED
      BY <2>1, <2>2, <3>1 DEF Replay, Unopened, Reader, Written, OnTheWay, LastOnly
  <2> QED
    BY <2>3, <2>4
<1> QED
  BY <1>1, <1>2, NextSteps
-----------------------------------------------------------------------------
(* The entries of l up to i end with the first n chunks of an attempt.     *)
Fresh(l, k) == k = 0 \/ l[k].type = "retrying"

Run(l, i, n) == /\ n <= i /\ Fresh(l, i - n)
                /\ \A k \in 1..n : l[i - n + k] = Chunk(k)

Clean(l) == \A i \in 1..Len(l) : ~Terminal(l[i])

(* The story of a stream that nothing has disturbed: what the worker is    *)
(* about to publish continues it,                                          *)
Attempting ==
    /\ step = "generate" => Clean(log) /\ Run(log, Len(log), next - 1)
    /\ step = "append" /\ event.type # "completed" =>
          Clean(log) /\ Run(log, Len(log), next - 1)
    /\ step = "expire" /\ event.type = "chunk" => Clean(log) /\ Run(log, Len(log), next)
    /\ step = "expire" /\ event.type = "retrying" => Clean(log) /\ Run(log, Len(log), 0)

(* the worker and Reconcile close it after the last chunk,                 *)
Finishing ==
    /\ marked => step \in {"append", "expire", "retain", "over"} /\ event.type = "completed"
    /\ marked \/ (step = "append" /\ event.type = "completed") =>
          ~Clean(log) \/ Run(log, Len(log), Chunks)

(* and it was closed after the last chunk.                                 *)
Ending(l) == \A i \in 1..Len(l) :
    l[i].type = "completed" /\ (\A k \in 1..(i - 1) : ~Terminal(l[k])) =>
       Run(l, i - 1, Chunks)

Story == faults = MaxFaults =>
    dropped = 0 /\ step # "lost" /\ Attempting /\ Finishing /\ Ending(log)

(* A run stays one in a longer stream,                                     *)
LEMMA RunKept ==
    ASSUME NEW l, NEW m, NEW i \in Nat, NEW n \in Nat, Run(l, i, n),
           \A j \in 1..i : m[j] = l[j]
    PROVE  Run(m, i, n)
<1>1. n <= i /\ Fresh(l, i - n) /\ \A k \in 1..n : l[i - n + k] = Chunk(k)
  BY DEF Run
<1>2. i - n \in Nat /\ (i - n = 0 \/ i - n \in 1..i) /\ \A k \in 1..n : i - n + k \in 1..i
  BY <1>1
<1>3. Fresh(m, i - n)
  BY <1>1, <1>2 DEF Fresh
<1> QED
  BY <1>1, <1>2, <1>3 DEF Run

(* is continued by the next chunk,                                         *)
LEMMA RunContinued ==
    ASSUME NEW m, NEW i \in Nat, NEW n \in Nat, Run(m, i, n), m[i + 1] = Chunk(n + 1)
    PROVE  Run(m, i + 1, n + 1)
<1>1. n <= i /\ Fresh(m, i - n) /\ \A k \in 1..n : m[i - n + k] = Chunk(k)
  BY DEF Run
<1>2. (i + 1) - (n + 1) = i - n /\ i - n \in Nat /\ n + 1 <= i + 1
      /\ i - n + (n + 1) = i + 1
  BY <1>1
<1>3. \A k \in 1..(n + 1) : k \in 1..n \/ k = n + 1
  OBVIOUS
<1>4. \A k \in 1..(n + 1) : m[i - n + k] = Chunk(k)
  BY <1>1, <1>2, <1>3
<1> QED
  BY <1>1, <1>2, <1>4 DEF Run

(* and begins again after "retrying".                                      *)
LEMMA RunBegins ==
    ASSUME NEW m, NEW i \in Nat, Fresh(m, i)
    PROVE  Run(m, i, 0)
  BY DEF Run

(* What appending e does to the story.                                     *)
LEMMA StoryGrows ==
    ASSUME NEW l \in Seq(Events), NEW e \in Events, NEW m, m = Append(l, e), Ending(l),
           e.type = "completed" /\ Clean(l) => Run(l, Len(l), Chunks)
    PROVE  /\ Ending(m)
           /\ Clean(l) /\ ~Terminal(e) => Clean(m)
           /\ Terminal(e) => ~Clean(m)
           /\ m[Len(l) + 1] = e /\ Len(m) = Len(l) + 1 /\ Len(l) \in Nat
           /\ \A n \in Nat : Run(l, Len(l), n) => Run(m, Len(l), n)
<1>0. Chunks \in Nat
  BY StreamingAssumption
<1>1. /\ Len(m) = Len(l) + 1 /\ Len(l) \in Nat /\ m[Len(l) + 1] = e
      /\ \A i \in 1..Len(l) : m[i] = l[i]
  BY AppendFacts
<1>2. \A n \in Nat : Run(l, Len(l), n) => Run(m, Len(l), n)
  BY <1>1, RunKept
<1>3. Clean(l) /\ ~Terminal(e) => Clean(m)
  BY <1>1 DEF Clean
<1>4. Terminal(e) => ~Clean(m)
  BY <1>1 DEF Clean
<1>5. ASSUME NEW i \in 1..Len(m), m[i].type = "completed",
             \A k \in 1..(i - 1) : ~Terminal(m[k])
      PROVE  Run(m, i - 1, Chunks)
  <2>1. CASE i = Len(l) + 1
    <3>1. i - 1 = Len(l) /\ Clean(l)
      BY <1>1, <1>5, <2>1 DEF Clean
    <3> QED
      BY <1>0, <1>1, <1>2, <1>5, <2>1, <3>1
  <2>2. CASE i \in 1..Len(l)
    <3>1. i - 1 \in Nat /\ \A k \in 1..(i - 1) : k \in 1..Len(l) /\ m[k] = l[k]
      BY <1>1, <2>2
    <3>2. Run(l, i - 1, Chunks)
      BY <1>1, <1>5, <2>2, <3>1 DEF Ending
    <3> QED
      BY <1>0, <3>1, <3>2, RunKept
  <2> QED
    BY <1>1, <2>1, <2>2
<1>6. Ending(m)
  BY <1>5 DEF Ending
<1> QED
  BY <1>1, <1>2, <1>3, <1>4, <1>6

(* and so is the story of the stream.                                      *)
LEMMA StoryStep ==
    ASSUME Types, Story, Next
    PROVE  Story'
<1> SUFFICES ASSUME faults' = MaxFaults
             PROVE  /\ dropped' = 0 /\ step' # "lost"
                    /\ Attempting' /\ Finishing' /\ Ending(log')
  BY DEF Story
<1>0. faults = MaxFaults /\ ~Fault
  BY FaultsFall, StreamingAssumption DEF Types, Fault
<1>1. dropped = 0 /\ step # "lost" /\ Attempting /\ Finishing /\ Ending(log)
  BY <1>0 DEF Story
<1>2. /\ log \in Seq(Events) /\ Len(log) \in Nat /\ Chunks \in Nat
      /\ next \in 1..(Chunks + 1)
      /\ step \in {"append", "expire", "retain"} => event \in Events
      /\ event.type \in {"chunk", "retrying", "completed", "failed", "none"}
  BY StreamingAssumption, EventKinds DEF Types, StreamTypes, WorkerTypes, Publishing
<1>3. CASE ChunkArrives
  <2>1. /\ step = "generate" /\ step' = "append" /\ event' = Chunk(next)
        /\ UNCHANGED <<next, marked, log, dropped>>
    BY <1>3 DEF ChunkArrives, Publish, streamVars
  <2>2. Chunk(next).type = "chunk" /\ ~marked
    BY <1>1, <2>1, EventKinds DEF Finishing
  <2>3. Attempting'
    BY <1>1, <2>1, <2>2 DEF Attempting
  <2>4. Finishing'
    BY <2>1, <2>2 DEF Finishing
  <2> QED
    BY <1>1, <2>1, <2>3, <2>4
<1>4. CASE Finishes
  <2>1. /\ step = "generate" /\ step' = "append" /\ event' = Note("completed")
        /\ next = Chunks + 1 /\ UNCHANGED <<log, dropped>>
    BY <1>2, <1>4 DEF Finishes, Publish, streamVars
  <2>2. Note("completed").type = "completed"
    BY EventKinds
  <2>3. Run(log, Len(log), Chunks)
    BY <1>1, <1>2, <2>1 DEF Attempting
  <2>4. Attempting'
    BY <2>1, <2>2 DEF Attempting
  <2>5. Finishing'
    BY <2>1, <2>2, <2>3 DEF Finishing
  <2> QED
    BY <1>1, <2>1, <2>4, <2>5
<1>5. CASE \E cause \in Causes : AttemptFails(cause)
  <2>1. PICK t \in {"retrying", "failed"} :
           /\ step = "generate" /\ step' = "append" /\ event' = Note(t)
           /\ UNCHANGED <<next, marked, log, dropped>>
    BY <1>5 DEF AttemptFails, Publish, streamVars
  <2>2. Note(t).type = t /\ ~marked
    BY <1>1, <2>1, EventKinds DEF Finishing
  <2>3. Attempting'
    BY <1>1, <2>1, <2>2 DEF Attempting
  <2>4. Finishing'
    BY <2>1, <2>2 DEF Finishing
  <2> QED
    BY <1>1, <2>1, <2>3, <2>4
<1>6. CASE XAdd
  <2>1. /\ step = "append" /\ step' = "expire" /\ log' = Append(log, event)
        /\ UNCHANGED <<event, next, marked, dropped>> /\ event \in Events
    BY <1>2, <1>6 DEF XAdd
  <2>2. event.type = "completed" /\ Clean(log) => Run(log, Len(log), Chunks)
    BY <1>1, <2>1 DEF Finishing
  <2>3. /\ Ending(log')
        /\ Clean(log) /\ ~Terminal(event) => Clean(log')
        /\ Terminal(event) => ~Clean(log')
        /\ log'[Len(log) + 1] = event /\ Len(log') = Len(log) + 1
        /\ \A n \in Nat : Run(log, Len(log), n) => Run(log', Len(log), n)
    BY <1>1, <1>2, <2>1, <2>2, StoryGrows
  <2>4. event.type = "chunk" => Clean(log') /\ Run(log', Len(log'), next)
    <3> SUFFICES ASSUME event.type = "chunk"
                 PROVE  Clean(log') /\ Run(log', Len(log'), next)
      OBVIOUS
    <3>1. event = Chunk(next) /\ next - 1 \in Nat /\ next = (next - 1) + 1
      BY <1>2, <2>1 DEF Types, Publishing
    <3>2. Clean(log) /\ Run(log, Len(log), next - 1) /\ ~Terminal(event)
      BY <1>1, <2>1 DEF Attempting, Terminal
    <3>3. Run(log', Len(log) + 1, (next - 1) + 1)
      BY <1>2, <2>3, <3>1, <3>2, RunContinued
    <3> QED
      BY <2>3, <3>1, <3>2, <3>3
  <2>5. event.type = "retrying" => Clean(log') /\ Run(log', Len(log'), 0)
    <3> SUFFICES ASSUME event.type = "retrying"
                 PROVE  Clean(log') /\ Run(log', Len(log'), 0)
      OBVIOUS
    <3>1. Clean(log) /\ ~Terminal(event)
      BY <1>1, <2>1 DEF Attempting, Terminal
    <3>2. Fresh(log', Len(log) + 1) /\ Len(log) + 1 \in Nat
      BY <1>2, <2>3 DEF Fresh
    <3> QED
      BY <2>3, <3>1, <3>2, RunBegins
  <2>6. Attempting'
    BY <2>1, <2>4, <2>5 DEF Attempting
  <2>7. Finishing'
    BY <1>1, <2>1, <2>3 DEF Finishing, Terminal
  <2> QED
    BY <1>1, <2>1, <2>3, <2>6, <2>7
<1>7. CASE ExpireNX
  <2>1. step = "expire" /\ UNCHANGED <<event, marked, log, dropped>>
    BY <1>7 DEF ExpireNX, Published
  <2>2. CASE Terminal(event)
    <3>1. step' = "retain"
      BY <1>7, <2>2 DEF ExpireNX
    <3> QED
      BY <1>1, <2>1, <3>1 DEF Attempting, Finishing
  <2>3. CASE ~Terminal(event)
    <3>1. /\ step' = "generate" /\ event.type # "completed"
          /\ \/ event.type = "chunk" /\ next' = next + 1
             \/ event.type = "retrying" /\ next' = 1
      BY <1>7, <2>3 DEF ExpireNX, Published, Terminal
    <3>2. Clean(log) /\ Run(log, Len(log), next' - 1)
      BY <1>1, <1>2, <2>1, <3>1 DEF Attempting
    <3>3. Attempting'
      BY <2>1, <3>1, <3>2 DEF Attempting
    <3>4. Finishing'
      BY <1>1, <2>1, <3>1 DEF Finishing
    <3> QED
      BY <1>1, <2>1, <3>1, <3>3, <3>4
  <2> QED
    BY <2>2, <2>3
<1>8. CASE Retain
  <2>1. /\ step = "retain" /\ step' = "over"
        /\ UNCHANGED <<event, marked, log, dropped>>
    BY <1>8 DEF Retain, Published, Types, Publishing, Terminal
  <2> QED
    BY <1>1, <2>1 DEF Attempting, Finishing
<1>9. CASE Reconcile
  <2>1. /\ marked /\ ~marked' /\ log' = Append(log, Note("completed"))
        /\ UNCHANGED <<step, event, dropped>>
    BY <1>9 DEF Reconcile
  <2>2. /\ Note("completed") \in Events /\ Note("completed").type = "completed"
        /\ Terminal(Note("completed"))
    BY EventKinds DEF Terminal
  <2>3. Clean(log) => Run(log, Len(log), Chunks)
    BY <1>1, <2>1 DEF Finishing
  <2>4. Ending(log') /\ ~Clean(log')
    BY <1>1, <1>2, <2>1, <2>2, <2>3, StoryGrows
  <2>5. step \in {"append", "expire", "retain", "over"} /\ event.type = "completed"
    BY <1>1, <2>1 DEF Finishing
  <2>6. Attempting'
    BY <2>1, <2>5 DEF Attempting
  <2>7. Finishing'
    BY <2>1, <2>4 DEF Finishing
  <2> QED
    BY <1>1, <2>1, <2>4, <2>6, <2>7
<1>10. ASSUME NEW c \in Connections, Connecting(c)
       PROVE  /\ dropped' = 0 /\ step' # "lost"
              /\ Attempting' /\ Finishing' /\ Ending(log')
  <2>1. UNCHANGED <<step, event, next, marked, log, dropped>>
    BY <1>10, ConnectingFrame DEF workerVars, streamVars
  <2> QED
    BY <1>1, <2>1 DEF Attempting, Finishing
<1>11. ~(CallFails \/ WorkerLost \/ Recover \/ StreamExpires)
  BY <1>0, <1>1 DEF CallFails, WorkerLost, Recover, StreamExpires
<1> QED
  BY <1>3, <1>4, <1>5, <1>6, <1>7, <1>8, <1>9, <1>10, <1>11, NextSteps
     DEF Production, Generation
-----------------------------------------------------------------------------
Streamed == Types /\ Replays /\ Story

(* All of this holds at the start.                                         *)
LEMMA StreamedInit == Init => Streamed
<1> SUFFICES ASSUME Init PROVE Streamed
  OBVIOUS
<1>0. /\ Chunks \in Nat /\ MaxFaults \in Nat /\ MaxAttempts \in Nat /\ MaxAttempts >= 1
      /\ Buffer \in Nat
  BY StreamingAssumption
<1>1. WorkerTypes /\ Publishing
  BY <1>0 DEF Init, WorkerTypes, WorkerSteps, Publishing
<1>2. StreamTypes /\ ConnTypes
  BY DEF Init, StreamTypes, ConnTypes
<1>3. Marker
  BY DEF Init, Marker
<1>4. (\A c \in Connections : Positions(c)) /\ faults \in 0..MaxFaults
  BY <1>0 DEF Init, Positions
<1>5. Replays
  <2> SUFFICES ASSUME NEW c \in Connections PROVE Replay(c)
    BY DEF Replays
  <2>1. /\ conn[c] = "off" /\ c \notin reading /\ lastID[c] = 0
        /\ channel[c] = << >> /\ got[c] = << >> /\ Len(got[c]) = 0
    BY DEF Init
  <2>2. Unopened(c) /\ Reader(c) /\ OnTheWay(c)
    BY <2>1 DEF Unopened, Reader, OnTheWay
  <2>3. Written(c) /\ LastOnly(c)
    BY <2>1 DEF Written, LastOnly
  <2> QED
    BY <2>2, <2>3 DEF Replay
<1>6. log = << >> /\ Clean(log) /\ Len(log) = 0 /\ Run(log, 0, 0)
  BY RunBegins DEF Init, Clean, Fresh
<1>7. step = "generate" /\ next - 1 = 0 /\ ~marked /\ dropped = 0
  BY DEF Init
<1>8. Story
  BY <1>6, <1>7 DEF Story, Attempting, Finishing, Ending
<1> QED
  BY <1>1, <1>2, <1>3, <1>4, <1>5, <1>8 DEF Streamed, Types

(* The invariant of the module.                                            *)
THEOREM StreamedAlways == Spec => []Streamed
<1>1. Streamed /\ Next => Streamed'
  BY TypesStep, ReplayStep, StoryStep DEF Streamed
<1>2. Streamed /\ UNCHANGED vars => Streamed'
  <2> SUFFICES ASSUME Streamed, UNCHANGED vars PROVE Streamed'
    OBVIOUS
  <2>1. Types'
    BY DEF Streamed, vars, workerVars, streamVars, connVars, Types, WorkerTypes, Publishing,
       StreamTypes, ConnTypes, Positions, Marker
  <2>2. Replays'
    BY DEF Streamed, vars, workerVars, streamVars, connVars, Replays, Replay, Unopened,
       Reader, Written, OnTheWay, LastOnly
  <2>3. Story'
    BY DEF Streamed, vars, workerVars, streamVars, connVars, Story, Attempting, Finishing
  <2> QED
    BY <2>1, <2>2, <2>3 DEF Streamed
<1> QED
  BY <1>1, <1>2, StreamedInit, PTL DEF Spec

(* Every variable keeps its type; in particular no reader runs ahead of    *)
(* the stream and no channel holds more than its capacity (PassOn, XRead). *)
THEOREM StreamingTyped == Spec => []TypeOK
<1>1. Streamed => TypeOK
  <2> SUFFICES ASSUME Streamed PROVE TypeOK
    OBVIOUS
  <2>1. marked \in BOOLEAN
    BY DEF Streamed, Types, Marker
  <2>2. /\ step \in {"generate", "append", "expire", "retain", "lost", "over"}
        /\ event \in Events \cup {Note("none")}
        /\ attempt \in 1..MaxAttempts /\ next \in 1..(Chunks + 1)
        /\ log \in Seq(Events) /\ dropped \in 0..Len(log)
        /\ ttl \in {"none", "short", "long"}
    BY DEF Streamed, Types, WorkerTypes, WorkerSteps, StreamTypes
  <2>3. /\ conn \in [Connections -> {"off", "on", "over"}]
        /\ reading \subseteq Connections
        /\ lastID \in [Connections -> Nat] /\ fetched \in [Connections -> Nat]
        /\ \A c \in Connections : /\ lastID[c] <= fetched[c]
                                  /\ fetched[c] <= Len(log)
                                  /\ Len(channel[c]) <= Buffer
        /\ channel \in [Connections -> Seq(Events)]
        /\ got \in [Connections -> Seq(Events)]
        /\ places \in [Connections -> Seq(Nat)]
        /\ faults \in 0..MaxFaults
    BY DEF Streamed, Types, ConnTypes, Positions
  <2> QED
    BY <2>1, <2>2, <2>3, Zenon DEF TypeOK
<1> QED
  BY <1>1, StreamedAlways, PTL

(* Two ways to say that t begins s,                                        *)
LEMMA PrefixOf ==
    ASSUME NEW S, NEW s \in Seq(S), NEW t \in Seq(S), Len(t) <= Len(s),
           \A i \in 1..Len(t) : t[i] = s[i]
    PROVE  t = SubSeq(s, 1, Len(t))
  OBVIOUS

(* and what the last n elements of s are.                                  *)
LEMMA SuffixOf ==
    ASSUME NEW S, NEW s \in Seq(S), NEW m \in Nat, NEW n \in Nat, m + n = Len(s), n > 0
    PROVE  SubSeq(s, m + 1, Len(s)) = [i \in 1..n |-> s[m + i]]
  OBVIOUS

(* What a connection has been sent of a stream that has not expired.       *)
LEMMA SentSoFar ==
    ASSUME Streamed, dropped = 0, NEW c \in Connections
    PROVE  /\ log \in Seq(Events) /\ got[c] \in Seq(Events)
           /\ Len(log) \in Nat /\ Len(got[c]) \in Nat /\ Len(got[c]) <= Len(log)
           /\ \A i \in 1..Len(got[c]) : got[c][i] = log[i]
           /\ \A i \in 1..(Len(got[c]) - 1) : ~Terminal(log[i])
<1>1. /\ log \in Seq(Events) /\ got[c] \in Seq(Events) /\ lastID[c] \in Nat
      /\ fetched[c] \in Nat /\ lastID[c] <= fetched[c] /\ fetched[c] <= Len(log)
  BY DEF Streamed, Types, StreamTypes, ConnTypes, Positions
<1>2. Len(log) \in Nat /\ Len(got[c]) \in Nat
  BY <1>1
<1>3. Written(c) /\ LastOnly(c)
  BY DEF Streamed, Replays, Replay
<1> QED
  BY <1>1, <1>2, <1>3 DEF Written, LastOnly

(* Ordered replay, however many connections there are and whatever the     *)
(* sizes of their batches and buffers (Subscribe, HandleStream).           *)
THEOREM OrderedReplayAlways == Spec => []OrderedReplay
<1>1. Streamed => OrderedReplay
  <2> SUFFICES ASSUME Streamed, dropped = 0, NEW c \in Connections
               PROVE  /\ Len(got[c]) <= Len(log)
                      /\ got[c] = SubSeq(log, 1, Len(got[c]))
                      /\ \A i \in 1..(Len(got[c]) - 1) : ~Terminal(got[c][i])
    BY DEF OrderedReplay
  <2>1. /\ log \in Seq(Events) /\ got[c] \in Seq(Events)
        /\ Len(log) \in Nat /\ Len(got[c]) \in Nat /\ Len(got[c]) <= Len(log)
        /\ \A i \in 1..Len(got[c]) : got[c][i] = log[i]
        /\ \A i \in 1..(Len(got[c]) - 1) : ~Terminal(log[i])
    BY SentSoFar
  <2>2. got[c] = SubSeq(log, 1, Len(got[c]))
    BY <2>1, PrefixOf
  <2>3. \A i \in 1..(Len(got[c]) - 1) : i \in 1..Len(got[c])
    BY <2>1
  <2> QED
    BY <2>1, <2>2, <2>3
<1> QED
  BY <1>1, StreamedAlways, PTL

(* A sequence that ends with a whole attempt and "completed" is the answer *)
(* to a client that forgets what comes before "retrying".                  *)
LEMMA AnswerOfRun ==
    ASSUME NEW s \in Seq(Events), s # << >>, s[Len(s)].type = "completed",
           Run(s, Len(s) - 1, Chunks)
    PROVE  SinceRetry(s) = [i \in 1..(Chunks + 1) |->
                              IF i <= Chunks THEN Chunk(i) ELSE Note("completed")]
<1> DEFINE m == Len(s) - 1 - Chunks
           marks == {i \in 1..Len(s) : s[i].type = "retrying"}
           from == IF marks = {} THEN 0
                   ELSE CHOOSE i \in marks : \A k \in marks : k <= i
<1>0. Chunks \in Nat /\ Len(s) \in Nat /\ Len(s) >= 1
  BY StreamingAssumption
<1>1. Chunks <= Len(s) - 1 /\ Fresh(s, m) /\ \A k \in 1..Chunks : s[m + k] = Chunk(k)
  BY DEF Run
<1>2. m \in Nat /\ m + (Chunks + 1) = Len(s)
  BY <1>0, <1>1
<1>3. s[Len(s)] = Note("completed")
  BY <1>0, EventKinds
<1>4. \A i \in 1..(Chunks + 1) :
         s[m + i] = IF i <= Chunks THEN Chunk(i) ELSE Note("completed")
  <2> SUFFICES ASSUME NEW i \in 1..(Chunks + 1)
               PROVE  s[m + i] = IF i <= Chunks THEN Chunk(i) ELSE Note("completed")
    OBVIOUS
  <2>1. CASE i <= Chunks
    BY <1>0, <1>1, <2>1
  <2>2. CASE i = Chunks + 1
    BY <1>0, <1>2, <1>3, <2>2
  <2> QED
    BY <1>0, <2>1, <2>2
<1>5. \A k \in marks : k <= m
  <2> SUFFICES ASSUME NEW k \in marks, k > m PROVE FALSE
    BY <1>0, <1>2
  <2>1. k \in 1..Len(s) /\ s[k].type = "retrying"
    OBVIOUS
  <2>2. k - m \in 1..(Chunks + 1) /\ m + (k - m) = k
    BY <1>0, <1>2, <2>1
  <2>3. s[k] = Chunk(k - m) \/ s[k] = Note("completed")
    BY <1>4, <2>2
  <2> QED
    BY <2>1, <2>3, EventKinds
<1>6. from = m
  <2>1. CASE m = 0
    <3>1. marks = {}
      BY <1>0, <1>5, <2>1
    <3> QED
      BY <2>1, <3>1
  <2>2. CASE m # 0
    <3>1. m \in marks
      BY <1>0, <1>1, <1>2, <2>2 DEF Fresh
    <3> DEFINE Last(i) == i \in marks /\ \A k \in marks : k <= i
    <3>2. Last(m)
      BY <1>5, <3>1
    <3>3. from = CHOOSE i : Last(i)
      BY <3>1
    <3>4. Last(from)
      BY <3>2, <3>3, Zenon
    <3>5. from \in 1..Len(s) /\ from <= m /\ m <= from
      BY <1>5, <3>1, <3>4
    <3> HIDE DEF from
    <3> QED
      BY <1>0, <1>2, <3>5
  <2> QED
    BY <2>1, <2>2
<1>7. SinceRetry(s) = SubSeq(s, m + 1, Len(s))
  BY <1>6 DEF SinceRetry
<1>8. SubSeq(s, m + 1, Len(s)) = [i \in 1..(Chunks + 1) |-> s[m + i]]
  BY <1>0, <1>2, SuffixOf
<1> HIDE DEF m
<1> QED
  BY <1>4, <1>7, <1>8

(* Without a fault, a client that is told "completed" has every chunk of   *)
(* the answer, once and in order, whatever the retries                     *)
(* (DoWithRetry, Publish).                                                 *)
THEOREM WholeAnswerAlways == Spec => []WholeAnswer
<1>1. Streamed => WholeAnswer
  <2> SUFFICES ASSUME Streamed, faults = MaxFaults, NEW c \in Connections,
                      got[c] # << >>, got[c][Len(got[c])].type = "completed"
               PROVE  SinceRetry(got[c])
                         = [i \in 1..(Chunks + 1) |->
                              IF i <= Chunks THEN Chunk(i) ELSE Note("completed")]
    BY DEF WholeAnswer
  <2>1. dropped = 0 /\ Ending(log)
    BY DEF Streamed, Story
  <2>2. /\ log \in Seq(Events) /\ got[c] \in Seq(Events)
        /\ Len(log) \in Nat /\ Len(got[c]) \in Nat /\ Len(got[c]) <= Len(log)
        /\ \A i \in 1..Len(got[c]) : got[c][i] = log[i]
        /\ \A i \in 1..(Len(got[c]) - 1) : ~Terminal(log[i])
    BY <2>1, SentSoFar
  <2>3. Len(got[c]) >= 1
    BY <2>2
  <2>4. Len(got[c]) \in 1..Len(log) /\ log[Len(got[c])].type = "completed"
    BY <2>2, <2>3
  <2>5. Run(log, Len(got[c]) - 1, Chunks)
    BY <2>1, <2>2, <2>4 DEF Ending
  <2>6. /\ Len(got[c]) - 1 \in Nat /\ Chunks \in Nat
        /\ \A i \in 1..(Len(got[c]) - 1) : got[c][i] = log[i]
    BY <2>2, <2>3, StreamingAssumption
  <2>7. Run(got[c], Len(got[c]) - 1, Chunks)
    BY <2>5, <2>6, RunKept
  <2> QED
    BY <2>2, <2>7, AnswerOfRun
<1> QED
  BY <1>1, StreamedAlways, PTL
-----------------------------------------------------------------------------
(* What connection c has passed on, whatever has expired: the places rise  *)
(* and end at lastID,                                                      *)
Rising(c) == /\ \A i \in 1..Len(places[c]) : places[c][i] \in 1..lastID[c]
             /\ \A i, k \in 1..Len(places[c]) : i < k => places[c][i] < places[c][k]

(* what was written, and what is in the channel, are the entries there,    *)
Sent(c) == /\ Len(got[c]) <= Len(places[c])
           /\ \A i \in 1..Len(got[c]) : got[c][i] = log[places[c][i]]

Buffered(c) == conn[c] = "on" =>
    /\ Len(places[c]) = Len(got[c]) + Len(channel[c])
    /\ \A i \in 1..Len(channel[c]) : channel[c][i] = log[places[c][Len(got[c]) + i]]

(* and only the last one may be terminal, when nothing is read any more.   *)
Stops(c) == /\ \A i \in 1..(Len(places[c]) - 1) : ~Terminal(log[places[c][i]])
            /\ c \in reading => /\ conn[c] = "on"
                                /\ \A i \in 1..Len(places[c]) : ~Terminal(log[places[c][i]])
            /\ conn[c] = "off" => got[c] = << >> /\ channel[c] = << >> /\ places[c] = << >>

Sequel(c) == Rising(c) /\ Sent(c) /\ Buffered(c) /\ Stops(c)

Sequels == \A c \in Connections : Sequel(c)

(* Counting the entries of two sequences, one after the other: an entry of *)
(* the second one,                                                         *)
LEMMA CountOn ==
    ASSUME NEW a \in Nat, NEW b \in Nat, NEW n, n = a + b
    PROVE  \A i \in 1..b : a + i \in 1..n
  OBVIOUS

(* and an entry that goes from the second to the first.                    *)
LEMMA CountMove ==
    ASSUME NEW a \in Nat, NEW b \in Nat, NEW n, n = a + b, b >= 1
    PROVE  /\ n = (a + 1) + (b - 1) /\ a + 1 \in 1..n /\ 1 \in 1..b
           /\ \A i \in 1..(b - 1) : i + 1 \in 1..b /\ (a + 1) + i = a + (i + 1)
  OBVIOUS

(* The sequences of connection c, and where it is.                         *)
LEMMA ConnFacts ==
    ASSUME Types, NEW c \in Connections
    PROVE  /\ log \in Seq(Events) /\ Len(log) \in Nat /\ dropped \in Nat
           /\ channel[c] \in Seq(Events) /\ got[c] \in Seq(Events) /\ places[c] \in Seq(Nat)
           /\ Len(channel[c]) \in Nat /\ Len(got[c]) \in Nat /\ Len(places[c]) \in Nat
           /\ lastID[c] \in Nat /\ fetched[c] \in Nat
           /\ lastID[c] <= fetched[c] /\ fetched[c] <= Len(log) /\ lastID[c] <= Len(log)
           /\ conn \in [Connections -> {"off", "on", "over"}]
           /\ lastID \in [Connections -> Nat]
<1>1. /\ log \in Seq(Events) /\ dropped \in Nat
      /\ channel[c] \in Seq(Events) /\ got[c] \in Seq(Events) /\ places[c] \in Seq(Nat)
      /\ lastID[c] \in Nat /\ fetched[c] \in Nat
      /\ lastID[c] <= fetched[c] /\ fetched[c] <= Len(log)
      /\ conn \in [Connections -> {"off", "on", "over"}]
      /\ lastID \in [Connections -> Nat]
  BY DEF Types, StreamTypes, ConnTypes, Positions
<1>2. Len(log) \in Nat /\ Len(channel[c]) \in Nat /\ Len(got[c]) \in Nat /\ Len(places[c]) \in Nat
  BY <1>1
<1>3. lastID[c] <= Len(log)
  <2>1. \A x, y, z \in Nat : x <= y /\ y <= z => x <= z
    OBVIOUS
  <2> QED
    BY <1>1, <1>2, <2>1, Zenon
<1> QED
  BY <1>1, <1>2, <1>3, Zenon

(* Nothing is in order when nothing was passed on.                         *)
LEMMA NothingSent ==
    ASSUME NEW c, channel[c] = << >>, got[c] = << >>, places[c] = << >>
    PROVE  /\ Rising(c) /\ Sent(c) /\ Buffered(c)
           /\ \A i \in 1..(Len(places[c]) - 1) : ~Terminal(log[places[c][i]])
           /\ \A i \in 1..Len(places[c]) : ~Terminal(log[places[c][i]])
<1>1. /\ Len(channel[c]) = 0 /\ Len(got[c]) = 0 /\ Len(places[c]) = 0
      /\ 1..0 = {} /\ 1..(0 - 1) = {} /\ 0 <= 0 /\ 0 = 0 + 0
  OBVIOUS
<1>2. Rising(c) /\ Sent(c)
  BY <1>1, Zenon DEF Rising, Sent
<1>3. Buffered(c)
  BY <1>1, Zenon DEF Buffered
<1> QED
  BY <1>1, <1>2, <1>3, Zenon

(* A longer stream holds the same entries at the same places.              *)
LEMMA ProductionSequel ==
    ASSUME Types, Sequels, Production
    PROVE  Sequels'
<1> SUFFICES ASSUME NEW c \in Connections PROVE Sequel(c)'
  BY DEF Sequels
<1>1. LogGrows /\ UNCHANGED connVars
  BY ProductionStream
<1>2. /\ conn' = conn /\ reading' = reading /\ lastID' = lastID /\ channel' = channel
      /\ got' = got /\ places' = places
  BY <1>1 DEF connVars
<1>3. Rising(c) /\ Sent(c) /\ Buffered(c) /\ Stops(c)
  BY DEF Sequels, Sequel
<1>4. /\ Len(places[c]) \in Nat /\ Len(got[c]) \in Nat /\ Len(channel[c]) \in Nat
      /\ lastID[c] \in Nat /\ lastID[c] <= Len(log) /\ Len(log) \in Nat
  BY ConnFacts, Zenon
<1>5. \A i \in 1..Len(places[c]) : log'[places[c][i]] = log[places[c][i]]
  <2> TAKE i \in 1..Len(places[c])
  <2>1. places[c][i] \in 1..Len(log)
    BY <1>3, <1>4 DEF Rising
  <2> QED
    BY <1>1, <2>1 DEF LogGrows
<1>6. Rising(c)'
  BY <1>2, <1>3 DEF Rising
<1>7. Sent(c)'
  <2>1. \A i \in 1..Len(got[c]) : i \in 1..Len(places[c])
    BY <1>3, <1>4 DEF Sent
  <2> QED
    BY <1>2, <1>3, <1>5, <2>1 DEF Sent
<1>8. Buffered(c)'
  <2>1. conn[c] = "on" => \A i \in 1..Len(channel[c]) : Len(got[c]) + i \in 1..Len(places[c])
    BY <1>3, <1>4, CountOn, Zenon DEF Buffered
  <2> QED
    BY <1>2, <1>3, <1>5, <2>1 DEF Buffered
<1>9. Stops(c)'
  <2>1. \A i \in 1..(Len(places[c]) - 1) : i \in 1..Len(places[c])
    BY <1>4
  <2> QED
    BY <1>2, <1>3, <1>5, <2>1 DEF Stops
<1> QED
  BY <1>6, <1>7, <1>8, <1>9 DEF Sequel

(* The next place is beyond all earlier ones: the goroutine reads after    *)
(* lastID, or after what has expired.                                      *)
LEMMA PassOnSequel ==
    ASSUME Types, NEW c \in Connections, PassOn(c), Sequel(c)
    PROVE  Sequel(c)'
<1> DEFINE n == Len(places[c])
           e == log[lastID[c] + 1]
<1>0. Rising(c) /\ Sent(c) /\ Buffered(c) /\ Stops(c)
  BY DEF Sequel
<1>1. /\ log \in Seq(Events) /\ Len(log) \in Nat
      /\ channel[c] \in Seq(Events) /\ got[c] \in Seq(Events) /\ places[c] \in Seq(Nat)
      /\ Len(channel[c]) \in Nat /\ Len(got[c]) \in Nat /\ n \in Nat
      /\ lastID[c] \in Nat /\ fetched[c] \in Nat
      /\ lastID[c] <= fetched[c] /\ fetched[c] <= Len(log)
  BY ConnFacts
<1>2. /\ UNCHANGED <<conn, got>> /\ log' = log
      /\ lastID'[c] = lastID[c] + 1
      /\ channel'[c] = Append(channel[c], e)
      /\ places'[c] = Append(places[c], lastID[c] + 1)
      /\ c \in reading /\ (c \in reading' => ~Terminal(e))
      /\ lastID[c] < fetched[c]
  BY DEF PassOn, Types, ConnTypes, streamVars
<1>3. e \in Events /\ lastID[c] + 1 \in Nat
  <2>1. lastID[c] + 1 \in 1..Len(log)
    BY <1>1, <1>2
  <2> QED
    BY <1>1, <2>1
<1>4. /\ Len(places'[c]) = n + 1
      /\ \A i \in 1..n : places'[c][i] = places[c][i]
      /\ places'[c][n + 1] = lastID[c] + 1
  BY <1>1, <1>2, <1>3, AppendFacts
<1>5. /\ Len(channel'[c]) = Len(channel[c]) + 1
      /\ \A i \in 1..Len(channel[c]) : channel'[c][i] = channel[c][i]
      /\ channel'[c][Len(channel[c]) + 1] = e
  BY <1>1, <1>2, <1>3, AppendFacts
<1>6. \A i \in 1..(n + 1) : i \in 1..n \/ i = n + 1
  <2> HIDE DEF n
  <2> QED
    BY <1>1
<1>7. Rising(c)'
  <2>1. \A i \in 1..n : /\ places[c][i] \in 1..lastID[c]
                        /\ places[c][i] \in 1..(lastID[c] + 1)
                        /\ places[c][i] < lastID[c] + 1
    <3>1. \A i \in 1..n : places[c][i] \in 1..lastID[c]
      BY <1>0, Zenon DEF Rising
    <3>2. \A x \in Nat : \A y \in 1..x : y \in 1..(x + 1) /\ y < x + 1
      OBVIOUS
    <3> QED
      BY <1>1, <3>1, <3>2, Zenon
  <2>2. lastID[c] + 1 \in 1..(lastID[c] + 1)
    BY <1>1
  <2>3. \A i \in 1..Len(places'[c]) : places'[c][i] \in 1..lastID'[c]
    BY <1>2, <1>4, <1>6, <2>1, <2>2
  <2>4. ASSUME NEW i \in 1..(n + 1), NEW k \in 1..(n + 1), i < k
        PROVE  places'[c][i] < places'[c][k]
    <3>1. i \in 1..n
      BY <1>1, <2>4
    <3>2. CASE k \in 1..n
      BY <1>0, <1>4, <2>4, <3>1, <3>2 DEF Rising
    <3>3. CASE k = n + 1
      BY <1>4, <2>1, <3>1, <3>3
    <3> QED
      BY <1>6, <3>2, <3>3
  <2> QED
    BY <1>4, <2>3, <2>4 DEF Rising
<1>8. Sent(c)'
  <2>1. /\ Len(got[c]) <= n + 1
        /\ \A i \in 1..Len(got[c]) : i \in 1..n
    <3>1. Len(got[c]) <= n
      BY <1>0, Zenon DEF Sent
    <3>2. \A x, y \in Nat : x <= y => x <= y + 1 /\ \A i \in 1..x : i \in 1..y
      OBVIOUS
    <3> QED
      BY <1>1, <3>1, <3>2, Zenon
  <2> QED
    BY <1>0, <1>2, <1>4, <2>1 DEF Sent
<1>9. Buffered(c)'
  <2>1. /\ conn[c] = "on" /\ n = Len(got[c]) + Len(channel[c])
        /\ \A i \in 1..Len(channel[c]) : channel[c][i] = log[places[c][Len(got[c]) + i]]
    BY <1>0, <1>2 DEF Stops, Buffered
  <2>2. n + 1 = Len(got[c]) + Len(channel'[c])
    <3> DEFINE x == Len(got[c])
               y == Len(channel[c])
    <3> HIDE DEF x, y, n
    <3>0. x \in Nat /\ y \in Nat /\ n = x + y
      BY <1>1, <2>1, Zenon DEF x, y
    <3>1. n + 1 = x + (y + 1)
      BY ONLY <3>0
    <3> QED
      BY <1>5, <3>1, Zenon DEF x, y
  <2>3. ASSUME NEW i \in 1..Len(channel'[c])
        PROVE  channel'[c][i] = log[places'[c][Len(got[c]) + i]]
    <3>1. CASE i \in 1..Len(channel[c])
      <4>1. Len(got[c]) + i \in 1..n
        BY <1>1, <2>1, <3>1, CountOn, Zenon
      <4> QED
        BY <1>4, <1>5, <2>1, <3>1, <4>1
    <3>2. CASE i = Len(channel[c]) + 1
      <4>1. Len(got[c]) + i = n + 1
        BY <1>5, <2>2, <3>2, Zenon
      <4> QED
        BY <1>4, <1>5, <3>2, <4>1
    <3>3. \A x \in Nat : \A k \in 1..(x + 1) : k \in 1..x \/ k = x + 1
      OBVIOUS
    <3>4. i \in 1..Len(channel[c]) \/ i = Len(channel[c]) + 1
      BY <1>1, <1>5, <3>3, Zenon
    <3> QED
      BY <3>1, <3>2, <3>4
  <2> QED
    BY <1>2, <1>4, <2>2, <2>3 DEF Buffered
<1>10. Stops(c)'
  <2>1. conn[c] = "on" /\ \A i \in 1..n : ~Terminal(log[places[c][i]])
    BY <1>0, <1>2 DEF Stops
  <2>2. \A i \in 1..n : ~Terminal(log[places'[c][i]])
    BY <1>4, <2>1
  <2>3. Len(places'[c]) - 1 = n
    <3>1. \A x \in Nat : (x + 1) - 1 = x
      OBVIOUS
    <3> QED
      BY <1>1, <1>4, <3>1, Zenon
  <2>4. c \in reading' => \A i \in 1..(n + 1) : ~Terminal(log[places'[c][i]])
    BY <1>2, <1>4, <1>6, <2>2
  <2> QED
    BY <1>2, <1>4, <2>1, <2>2, <2>3, <2>4 DEF Stops
<1> QED
  BY <1>7, <1>8, <1>9, <1>10 DEF Sequel

(* An entry goes from the channel to the client.                           *)
LEMMA WriteSequel ==
    ASSUME Types, NEW c \in Connections, Write(c), Sequel(c)
    PROVE  Sequel(c)'
<1> DEFINE e == Head(channel[c])
           a == Len(got[c])
<1>0. Rising(c) /\ Sent(c) /\ Buffered(c) /\ Stops(c)
  BY DEF Sequel
<1>1. /\ channel[c] \in Seq(Events) /\ got[c] \in Seq(Events)
      /\ Len(channel[c]) \in Nat /\ a \in Nat /\ Len(places[c]) \in Nat
  BY ConnFacts
<1>2. /\ conn[c] = "on" /\ channel[c] # << >> /\ log' = log
      /\ got'[c] = Append(got[c], e) /\ channel'[c] = Tail(channel[c])
      /\ conn'[c] = IF Terminal(e) THEN "over" ELSE "on"
      /\ UNCHANGED <<reading, lastID, places>>
  BY DEF Write, Types, ConnTypes, streamVars
<1>3. /\ e \in Events /\ e = channel[c][1] /\ Len(channel[c]) >= 1
      /\ Len(channel'[c]) = Len(channel[c]) - 1
      /\ \A i \in 1..(Len(channel[c]) - 1) : channel'[c][i] = channel[c][i + 1]
  BY <1>1, <1>2, TailFacts
<1>4. /\ Len(got'[c]) = a + 1
      /\ \A i \in 1..a : got'[c][i] = got[c][i]
      /\ got'[c][a + 1] = e
  BY <1>1, <1>2, <1>3, AppendFacts
<1>5. /\ Len(places[c]) = a + Len(channel[c])
      /\ \A i \in 1..Len(channel[c]) : channel[c][i] = log[places[c][a + i]]
  BY <1>0, <1>2 DEF Buffered
<1>6. e = log[places[c][a + 1]] /\ a + 1 \in 1..Len(places[c])
  <2>1. 1 \in 1..Len(channel[c]) /\ a + 1 \in 1..Len(places[c])
    BY <1>1, <1>3, <1>5, CountMove, Zenon
  <2> QED
    BY <1>3, <1>5, <2>1, Zenon
<1>7. Rising(c)'
  BY <1>0, <1>2 DEF Rising
<1>8. Sent(c)'
  <2>1. a + 1 <= Len(places[c]) /\ \A i \in 1..(a + 1) : i \in 1..a \/ i = a + 1
    BY <1>1, <1>6
  <2> QED
    BY <1>0, <1>2, <1>4, <1>6, <2>1 DEF Sent
<1>9. Buffered(c)'
  <2>1. Len(places[c]) = (a + 1) + Len(channel'[c])
    <3>1. Len(places[c]) = (a + 1) + (Len(channel[c]) - 1)
      BY <1>1, <1>3, <1>5, CountMove, Zenon
    <3> QED
      BY <1>3, <3>1, Zenon
  <2>2. ASSUME NEW i \in 1..Len(channel'[c])
        PROVE  channel'[c][i] = log[places[c][(a + 1) + i]]
    <3>1. i + 1 \in 1..Len(channel[c]) /\ (a + 1) + i = a + (i + 1)
          /\ i \in 1..(Len(channel[c]) - 1)
      <4>1. i \in 1..(Len(channel[c]) - 1)
        BY <1>3, Zenon
      <4> QED
        BY <1>1, <1>3, <1>5, <4>1, CountMove, Zenon
    <3> QED
      BY <1>3, <1>5, <3>1
  <2> QED
    BY <1>2, <1>4, <2>1, <2>2 DEF Buffered
<1>10. Stops(c)'
  <2>1. c \in reading => ~Terminal(e)
    BY <1>0, <1>6 DEF Stops
  <2> QED
    BY <1>0, <1>2, <2>1 DEF Stops
<1> QED
  BY <1>7, <1>8, <1>9, <1>10 DEF Sequel

(* Every step of a connection keeps its entries in order.                  *)
LEMMA ConnectingSequel ==
    ASSUME Types, NEW c \in Connections, Connecting(c), Sequel(c)
    PROVE  Sequel(c)'
<1>0. Rising(c) /\ Sent(c) /\ Buffered(c) /\ Stops(c) /\ log' = log
  BY ConnectingFrame DEF Sequel, streamVars
<1>1. /\ lastID[c] \in Nat /\ dropped \in Nat /\ Len(places[c]) \in Nat
      /\ conn \in [Connections -> {"off", "on", "over"}]
      /\ lastID \in [Connections -> Nat]
  BY ConnFacts
<1>2. CASE Connect(c)
  <2>1. /\ conn[c] = "off" /\ conn'[c] = "on" /\ UNCHANGED <<lastID, channel, got, places>>
    BY <1>1, <1>2 DEF Connect
  <2>2. channel[c] = << >> /\ got[c] = << >> /\ places[c] = << >>
    BY <1>0, <2>1 DEF Stops
  <2>3. Rising(c)' /\ Sent(c)'
    BY <1>0, <2>1 DEF Rising, Sent
  <2>4. Buffered(c)' /\ Stops(c)'
    <3>1. /\ Buffered(c)
          /\ \A i \in 1..(Len(places[c]) - 1) : ~Terminal(log[places[c][i]])
          /\ \A i \in 1..Len(places[c]) : ~Terminal(log[places[c][i]])
      BY <2>2, NothingSent
    <3>2. /\ Len(places[c]) = 0 /\ Len(got[c]) = 0 /\ Len(channel[c]) = 0
          /\ 0 = 0 + 0 /\ 1..0 = {}
      BY <2>2
    <3>3. Buffered(c)'
      BY <1>0, <2>1, <3>2, Zenon DEF Buffered
    <3> QED
      BY <1>0, <2>1, <3>1, <3>3 DEF Stops
  <2> QED
    BY <2>3, <2>4 DEF Sequel
<1>3. CASE XRead(c)
  <2>1. /\ lastID'[c] \in Nat /\ lastID[c] <= lastID'[c]
        /\ UNCHANGED <<conn, reading, channel, got, places>>
    BY <1>1, <1>3 DEF XRead, Greater
  <2>2. Rising(c)'
    <3>1. \A x, y \in Nat : x <= y => \A i \in 1..x : i \in 1..y
      OBVIOUS
    <3>2. \A i \in 1..lastID[c] : i \in 1..lastID'[c]
      BY <1>1, <2>1, <3>1, Zenon
    <3> QED
      BY <1>0, <2>1, <3>2, Zenon DEF Rising
  <2> QED
    BY <1>0, <2>1, <2>2 DEF Sequel, Sent, Buffered, Stops
<1>4. CASE NoEvents(c) \/ Leave(c)
  <2>1. /\ conn'[c] = "over" /\ c \notin reading' /\ UNCHANGED <<lastID, got, places>>
    BY <1>1, <1>4 DEF NoEvents, Leave
  <2> QED
    BY <1>0, <2>1 DEF Sequel, Rising, Sent, Buffered, Stops
<1>5. CASE ReadFails(c)
  <2>1. c \notin reading' /\ UNCHANGED <<conn, lastID, channel, got, places>>
    BY <1>5 DEF ReadFails
  <2> QED
    BY <1>0, <2>1 DEF Sequel, Rising, Sent, Buffered, Stops
<1> QED
  BY <1>2, <1>3, <1>4, <1>5, PassOnSequel, WriteSequel DEF Connecting, Delivery

(* For any number of connections, expiries and other faults, and any sizes *)
(* of batch and channel, a connection gets entries of the stream in their  *)
(* order, none twice, and nothing after a terminal one (Subscribe,         *)
(* HandleStream).                                                          *)
THEOREM NeverOutOfOrderAlways == Spec => []NeverOutOfOrder
<1>1. Init => Sequels
  <2> SUFFICES ASSUME Init, NEW c \in Connections PROVE Sequel(c)
    BY DEF Sequels
  <2>1. /\ conn[c] = "off" /\ c \notin reading /\ channel[c] = << >>
        /\ got[c] = << >> /\ places[c] = << >>
    BY DEF Init
  <2> QED
    BY <2>1, NothingSent DEF Sequel, Stops
<1>2. Streamed /\ Sequels /\ [Next]_vars => Sequels'
  <2> SUFFICES ASSUME Types, Sequels, [Next]_vars, NEW d \in Connections PROVE Sequel(d)'
    BY DEF Streamed, Sequels
  <2>1. CASE Production
    BY <2>1, ProductionSequel DEF Sequels
  <2>2. ASSUME NEW c \in Connections, Connecting(c), d = c
        PROVE  Sequel(d)'
    BY <2>2, ConnectingSequel DEF Sequels
  <2>3. ASSUME NEW c \in Connections, Connecting(c), d # c
        PROVE  Sequel(d)'
    <3>1. /\ conn'[d] = conn[d] /\ lastID'[d] = lastID[d]
          /\ channel'[d] = channel[d] /\ got'[d] = got[d] /\ places'[d] = places[d]
          /\ d \in reading' <=> d \in reading
      BY <2>3, ConnectionsApart
    <3>2. log' = log /\ Sequel(d)
      BY <2>3, ConnectingFrame DEF streamVars, Sequels
    <3> QED
      BY <3>1, <3>2 DEF Sequel, Rising, Sent, Buffered, Stops
  <2>4. CASE UNCHANGED vars
    BY <2>4 DEF vars, streamVars, connVars, Sequels, Sequel, Rising, Sent, Buffered, Stops
  <2> QED
    BY <2>1, <2>2, <2>3, <2>4, NextSteps
<1>3. Streamed /\ Sequels => NeverOutOfOrder
  <2> SUFFICES ASSUME Types, Sequels, NEW c \in Connections
               PROVE  /\ Len(got[c]) <= Len(places[c])
                      /\ \A i \in 1..Len(got[c]) : got[c][i] = log[places[c][i]]
                      /\ \A i, k \in 1..Len(got[c]) : i < k => places[c][i] < places[c][k]
                      /\ \A i \in 1..(Len(got[c]) - 1) : ~Terminal(got[c][i])
    BY DEF Streamed, NeverOutOfOrder
  <2>1. Rising(c) /\ Sent(c) /\ Stops(c) /\ Len(got[c]) \in Nat /\ Len(places[c]) \in Nat
    BY ConnFacts DEF Sequels, Sequel
  <2>2. /\ \A i \in 1..Len(got[c]) : i \in 1..Len(places[c])
        /\ \A i \in 1..(Len(got[c]) - 1) : i \in 1..Len(got[c]) /\ i \in 1..(Len(places[c]) - 1)
    BY <2>1 DEF Sent
  <2> QED
    BY <2>1, <2>2 DEF Rising, Sent, Stops
<1> QED
  BY <1>1, <1>2, <1>3, StreamedAlways, PTL DEF Spec
=============================================================================
