----------------------------- MODULE Streaming -----------------------------
(***************************************************************************)
(* The output of one job on its way to the client: the worker's attempts   *)
(* at inference, the Redis stream they are published to, and the event     *)
(* connections that read it, each with a reading goroutine, a buffered     *)
(* channel and the handler that writes to the client.                      *)
(*                                                                         *)
(* One worker at a time runs the job (SoleOwner of module Pipeline).  A    *)
(* worker that dies or loses its lease is replaced by recovery, which may  *)
(* also close or fail the stream.  An entry of the stream keeps its place  *)
(* in log when the stream expires; the first `dropped` entries are gone.   *)
(* Calls on the row and the marker succeed here: their failures are those  *)
(* of module Pipeline.                                                     *)
(***************************************************************************)
EXTENDS Naturals, Sequences

CONSTANTS Connections,
          Chunks,        \* length of the answer
          MaxAttempts,   \* of the inference retry policy
          Batch,         \* COUNT of XREAD
          Buffer,        \* capacity of the event channel
          MaxFaults      \* bound on lost workers, failed calls and expiries

ASSUME StreamingAssumption ==
    /\ {Chunks, MaxFaults} \subseteq Nat
    /\ {MaxAttempts, Batch, Buffer} \subseteq Nat \ {0}

VARIABLES step, event,   \* the worker: its next call, what it publishes
          attempt, next, \* attempt at inference, next chunk of it
          marked,        \* completion marker of the job
          log, dropped,  \* the stream: all entries, how many have expired
          ttl,           \* its expiry: "none", "short" or "long"
          conn,          \* each connection: "off", "on" or "over"
          reading,       \* its goroutine is reading
          lastID, fetched,   \* last entry it has passed on, and has read
          channel, got,  \* entries on their way, entries written
          places,        \* history: where in log the entries passed on are
          faults         \* still to come

workerVars == <<step, event, attempt, next, marked>>
streamVars == <<log, dropped, ttl>>
connVars == <<conn, reading, lastID, fetched, channel, got, places>>
vars == <<workerVars, streamVars, connVars, faults>>

Chunk(n) == [type |-> "chunk", n |-> n]
Note(t) == [type |-> t, n |-> 0]
Events == {Chunk(n) : n \in 1..Chunks}
            \cup {Note(t) : t \in {"retrying", "completed", "failed"}}

TypeOK == /\ step \in {"generate", "append", "expire", "retain", "lost", "over"}
          /\ event \in Events \cup {Note("none")}
          /\ attempt \in 1..MaxAttempts /\ next \in 1..(Chunks + 1)
          /\ marked \in BOOLEAN
          /\ log \in Seq(Events) /\ dropped \in 0..Len(log)
          /\ ttl \in {"none", "short", "long"}
          /\ conn \in [Connections -> {"off", "on", "over"}]
          /\ reading \subseteq Connections
          /\ lastID \in [Connections -> Nat] /\ fetched \in [Connections -> Nat]
          /\ \A c \in Connections : /\ lastID[c] <= fetched[c]
                                    /\ fetched[c] <= Len(log)
                                    /\ Len(channel[c]) <= Buffer
          /\ channel \in [Connections -> Seq(Events)]
          /\ got \in [Connections -> Seq(Events)]
          /\ places \in [Connections -> Seq(Nat)]
          /\ faults \in 0..MaxFaults

Init == /\ step = "generate" /\ event = Note("none")
        /\ attempt = 1 /\ next = 1 /\ marked = FALSE
        /\ log = << >> /\ dropped = 0 /\ ttl = "none"
        /\ conn = [c \in Connections |-> "off"] /\ reading = {}
        /\ lastID = [c \in Connections |-> 0] /\ fetched = [c \in Connections |-> 0]
        /\ channel = [c \in Connections |-> << >>]
        /\ got = [c \in Connections |-> << >>]
        /\ places = [c \in Connections |-> << >>]
        /\ faults = MaxFaults

Fault == faults > 0 /\ faults' = faults - 1

Terminal(e) == e.type \in {"completed", "failed"}
-----------------------------------------------------------------------------
(* Inference.  Only overload is worth another attempt.                     *)
Overload == {"idle_timeout", "deadline", "unavailable", "network"}

Causes == Overload \cup {"rejected", "rate_limited", "filtered", "too_long",
                         "incomplete", "unknown"}

Transient(cause) == cause \in Overload

Publish(e) == step' = "append" /\ event' = e

(* A chunk arrives.                                                        *)
ChunkArrives == /\ step = "generate" /\ next <= Chunks
                /\ Publish(Chunk(next))
                /\ UNCHANGED <<attempt, next, marked, streamVars, connVars, faults>>

(* The answer is complete: the job is marked and the stream closed.        *)
Finishes == /\ step = "generate" /\ next > Chunks
            /\ marked' = TRUE
            /\ Publish(Note("completed"))
            /\ UNCHANGED <<attempt, next, streamVars, connVars, faults>>

(* An attempt fails, before its first chunk or after any.                  *)
AttemptFailsSilently(cause) ==
    /\ step = "generate"
    /\ IF Transient(cause) /\ attempt < MaxAttempts
         THEN /\ attempt' = attempt + 1 /\ next' = 1
              /\ UNCHANGED <<step, event>>
         ELSE Publish(Note("failed")) /\ UNCHANGED <<attempt, next>>
    /\ UNCHANGED <<marked, streamVars, connVars, faults>>

AttemptFails(cause) ==
    /\ step = "generate"
    /\ IF Transient(cause) /\ attempt < MaxAttempts
         THEN Publish(Note("retrying"))
         ELSE Publish(Note("failed"))
    /\ UNCHANGED <<attempt, next, marked, streamVars, connVars, faults>>

(* What the worker does when a publication has succeeded,                  *)
Published ==
    \/ /\ event.type = "chunk"
       /\ step' = "generate" /\ next' = next + 1
       /\ UNCHANGED <<event, attempt>>
    \/ /\ event.type = "retrying"
       /\ step' = "generate" /\ attempt' = attempt + 1 /\ next' = 1
       /\ UNCHANGED event
    \/ /\ Terminal(event)
       /\ step' = "over"
       /\ UNCHANGED <<event, attempt, next>>

(* and when it has failed: a chunk ends the attempt, and is no overload;   *)
(* other events are not missed.                                            *)
PublishFails == IF event.type = "chunk"
                  THEN Publish(Note("failed")) /\ UNCHANGED <<attempt, next>>
                  ELSE Published

(* XADD, EXPIRE NX, and for a terminal event EXPIRE.                       *)
XAdd == /\ step = "append"
        /\ log' = Append(log, event)
        /\ step' = "expire"
        /\ UNCHANGED <<event, attempt, next, marked, dropped, ttl, connVars, faults>>

ExpireNX == /\ step = "expire"
            /\ ttl' = IF ttl = "none" THEN "short" ELSE ttl
            /\ IF Terminal(event)
                 THEN step' = "retain" /\ UNCHANGED <<event, attempt, next>>
                 ELSE Published
            /\ UNCHANGED <<marked, log, dropped, connVars, faults>>

Retain == /\ step = "retain"
          /\ ttl' = "long"
          /\ Published
          /\ UNCHANGED <<marked, log, dropped, connVars, faults>>

(* One of these calls fails, or the reply of XADD is lost and the client   *)
(* sends it again.                                                         *)
CallFails ==
    /\ step \in {"append", "expire", "retain"}
    /\ Fault
    /\ \/ PublishFails /\ UNCHANGED log
       \/ /\ step = "append"
          /\ log' = Append(log, event)
          /\ UNCHANGED <<step, event, attempt, next>>
    /\ UNCHANGED <<marked, dropped, ttl, connVars>>

(* The worker dies or loses its lease; before its last publication, with   *)
(* the row of the job terminal already or still created.                   *)
WorkerLost == /\ step \notin {"lost", "over"}
              /\ Fault
              /\ step' = "lost"
              /\ event' \in IF step = "append" /\ Terminal(event)
                             THEN {event, Note("none")} ELSE {event}
              /\ UNCHANGED <<attempt, next, marked, streamVars, connVars>>

(* recoverOne: a job whose row is terminal is left; another one runs again *)
(* from the start, or is failed when its retries are used up.              *)
Recover ==
    /\ step = "lost"
    /\ \/ /\ Terminal(event)
          /\ step' = "over" /\ UNCHANGED <<event, attempt, next>>
       \/ /\ ~Terminal(event)
          /\ step' = "generate" /\ event' = Note("none")
          /\ attempt' = 1 /\ next' = 1
       \/ /\ ~Terminal(event)
          /\ Publish(Note("failed")) /\ UNCHANGED <<attempt, next>>
    /\ UNCHANGED <<marked, streamVars, connVars, faults>>

(* ReconcileCompleted closes the stream of every marked job, closed or not.*)
Reconcile == /\ marked /\ marked' = FALSE
             /\ log' = Append(log, Note("completed")) /\ ttl' = "long"
             /\ UNCHANGED <<step, event, attempt, next, dropped, connVars, faults>>

(* The stream reaches its TTL.                                             *)
StreamExpires == /\ ttl # "none" /\ ttl' = "none"
                 /\ Fault
                 /\ dropped' = Len(log)
                 /\ UNCHANGED <<workerVars, log, connVars>>
-----------------------------------------------------------------------------
(* A connection.                                                           *)
ConnectAtEnd(c) ==
    /\ conn[c] = "off"
    /\ conn' = [conn EXCEPT ![c] = "on"]
    /\ reading' = reading \cup {c}
    /\ lastID' = [lastID EXCEPT ![c] = Len(log)]
    /\ fetched' = [fetched EXCEPT ![c] = Len(log)]
    /\ UNCHANGED <<workerVars, streamVars, channel, got, places, faults>>

Connect(c) == /\ conn[c] = "off"
              /\ conn' = [conn EXCEPT ![c] = "on"]
              /\ reading' = reading \cup {c}
              /\ UNCHANGED <<workerVars, streamVars, lastID, fetched, channel, got,
                             places, faults>>

Greater(a, b) == IF a >= b THEN a ELSE b
Lesser(a, b) == IF a <= b THEN a ELSE b

(* XREAD, when all entries of the last batch have been passed on.          *)
XReadFull(c) ==
    LET from == Greater(lastID[c], dropped) IN
    /\ c \in reading /\ lastID[c] = fetched[c] /\ Len(log) >= from + Batch
    /\ lastID' = [lastID EXCEPT ![c] = from]
    /\ fetched' = [fetched EXCEPT ![c] = from + Batch]
    /\ UNCHANGED <<workerVars, streamVars, conn, reading, channel, got, places,
                   faults>>

XReadFromStart(c) ==
    /\ c \in reading /\ lastID[c] = fetched[c] /\ Len(log) > lastID[c] /\ Len(log) > dropped
    /\ lastID' = [lastID EXCEPT ![c] = dropped]
    /\ fetched' = [fetched EXCEPT ![c] = Lesser(Len(log), dropped + Batch)]
    /\ UNCHANGED <<workerVars, streamVars, conn, reading, channel, got, places,
                   faults>>

XRead(c) ==
    LET from == Greater(lastID[c], dropped) IN
    /\ c \in reading /\ lastID[c] = fetched[c] /\ Len(log) > from
    /\ lastID' = [lastID EXCEPT ![c] = from]
    /\ fetched' = [fetched EXCEPT ![c] = Lesser(Len(log), from + Batch)]
    /\ UNCHANGED <<workerVars, streamVars, conn, reading, channel, got, places,
                   faults>>

(* The next entry of the batch goes into the channel; a terminal one is    *)
(* the last.                                                               *)
PassOn(c) ==
    /\ c \in reading /\ lastID[c] < fetched[c] /\ Len(channel[c]) < Buffer
    /\ lastID' = [lastID EXCEPT ![c] = @ + 1]
    /\ channel' = [channel EXCEPT ![c] = Append(@, log[lastID[c] + 1])]
    /\ places' = [places EXCEPT ![c] = Append(@, lastID[c] + 1)]
    /\ reading' = IF Terminal(log[lastID[c] + 1]) THEN reading \ {c} ELSE reading
    /\ UNCHANGED <<workerVars, streamVars, conn, fetched, got, faults>>

ReadFails(c) == /\ c \in reading /\ lastID[c] = fetched[c]
                /\ Fault
                /\ reading' = reading \ {c}
                /\ UNCHANGED <<workerVars, streamVars, conn, lastID, fetched, channel,
                               got, places>>

(* The handler writes an event to the client; a terminal one ends it.      *)
Write(c) ==
    /\ conn[c] = "on" /\ channel[c] # << >>
    /\ got' = [got EXCEPT ![c] = Append(@, Head(channel[c]))]
    /\ channel' = [channel EXCEPT ![c] = Tail(@)]
    /\ conn' = IF Terminal(Head(channel[c])) THEN [conn EXCEPT ![c] = "over"] ELSE conn
    /\ UNCHANGED <<workerVars, streamVars, reading, lastID, fetched, places, faults>>

(* The channel is closed and empty.                                        *)
NoEvents(c) == /\ conn[c] = "on" /\ c \notin reading /\ channel[c] = << >>
               /\ conn' = [conn EXCEPT ![c] = "over"]
               /\ UNCHANGED <<workerVars, streamVars, reading, lastID, fetched,
                              channel, got, places, faults>>

(* The client goes away.                                                   *)
Leave(c) == /\ conn[c] = "on"
            /\ conn' = [conn EXCEPT ![c] = "over"]
            /\ reading' = reading \ {c}
            /\ channel' = [channel EXCEPT ![c] = << >>]
            /\ UNCHANGED <<workerVars, streamVars, lastID, fetched, got, places, faults>>

Generation == \/ ChunkArrives \/ Finishes
              \/ \E cause \in Causes : AttemptFails(cause)
              \/ XAdd \/ ExpireNX \/ Retain

Delivery(c) == XRead(c) \/ PassOn(c) \/ Write(c) \/ NoEvents(c)

Next == \/ Generation \/ CallFails \/ WorkerLost \/ Recover \/ Reconcile
        \/ StreamExpires
        \/ \E c \in Connections : \/ Connect(c) \/ Delivery(c) \/ ReadFails(c)
                                  \/ Leave(c)

Spec == Init /\ [][Next]_vars

(* The goroutines of a connection are scheduled, and the client reads.     *)
FairStreaming == Spec /\ \A c \in Connections : WF_vars(Delivery(c))
-----------------------------------------------------------------------------
(* README, "ordered replay of published inference events": whenever it     *)
(* connects and however it is read, buffered and written, a connection     *)
(* gets the entries of the stream from the first one on, without a gap, a  *)
(* repetition or anything after the first terminal event, as long as the   *)
(* stream has not expired (Subscribe, HandleStream).                       *)
OrderedReplay == dropped = 0 => \A c \in Connections :
    /\ Len(got[c]) <= Len(log)
    /\ got[c] = SubSeq(log, 1, Len(got[c]))
    /\ \A i \in 1..(Len(got[c]) - 1) : ~Terminal(got[c][i])

(* Even when the stream expires under its reader, between two reads or in  *)
(* the middle of a batch, and is begun again by the next entry, a          *)
(* connection gets entries in their order and none twice, and nothing      *)
(* after a terminal event (Subscribe, HandleStream).                       *)
NeverOutOfOrder == \A c \in Connections :
    /\ Len(got[c]) <= Len(places[c])
    /\ \A i \in 1..Len(got[c]) : got[c][i] = log[places[c][i]]
    /\ \A i, k \in 1..Len(got[c]) : i < k => places[c][i] < places[c][k]
    /\ \A i \in 1..(Len(got[c]) - 1) : ~Terminal(got[c][i])

(* Without a fault, a client that forgets what it has when told "retrying" *)
(* has the whole answer, once and in order, when told "completed"          *)
(* (DoWithRetry and its OnAttemptFailed, Publish).                         *)
SinceRetry(s) ==
    LET marks == {i \in 1..Len(s) : s[i].type = "retrying"}
        from == IF marks = {} THEN 0 ELSE CHOOSE i \in marks : \A k \in marks : k <= i
    IN  SubSeq(s, from + 1, Len(s))

WholeAnswer ==
    faults = MaxFaults =>
       \A c \in Connections :
          got[c] # << >> /\ got[c][Len(got[c])].type = "completed" =>
             SinceRetry(got[c])
                = [i \in 1..(Chunks + 1) |->
                     IF i <= Chunks THEN Chunk(i) ELSE Note("completed")]

(* A connection to a stream that has its terminal event ends, unless the   *)
(* stream expires first: no reader, channel or handler waits for another.  *)
Closed == \E i \in 1..Len(log) : Terminal(log[i])

EventuallyOver == \A c \in Connections :
    (conn[c] = "on" /\ Closed) ~> (conn[c] = "over" \/ dropped > 0)
=============================================================================
