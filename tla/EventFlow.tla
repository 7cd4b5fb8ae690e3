------------------------------- MODULE EventFlow -------------------------------
(***************************************************************************)
(* The way of an event into the program: UdsSender writes it to the        *)
(* socket, BridgeRxTask reads bytes in batches, decodes and validates      *)
(* events and puts them on the bus, the DataRouter fans them out.          *)
(*   bridge_rx/src/lib.rs, event_bus/src/lib.rs,                           *)
(*   app_runtime/src/lib.rs 1224-1294, rps_bridge/uds_sender.py            *)
(*                                                                         *)
(* A frame is two pieces of bytes, so that a read may end inside one.  The *)
(* bus and the consumers' channels are bounded queues; a full bus makes    *)
(* the reader wait (critical events) or drops, a full consumer drops.      *)
(* Heartbeat timeouts are DataQuality's subject.                           *)
(***************************************************************************)
EXTENDS Naturals, Sequences, SequencesExt

CONSTANTS
  Frame,        \* what the bridge may write: pairs <<kind, form>>
  BusCap,       \* bridge_rx_size
  Consumer,     \* the consumers whose channels are modelled
  ChannelCap,   \* their sizes
  MaxSent,      \* bound: events the bridge makes
  MaxBacklog    \* bound: connections waiting to be accepted, with the open one

EventKind == {"Tick", "L2Delta", "Snapshot", "Fill", "OrderStatus", "Reject",
              "Delisting", "Heartbeat", "Reconnect", "StateSync", "Halt",
              "CancelAck", "CancelReject"}

\* What a frame turns out to be: an event that passes validate_event, one that
\* does not, a frame serde cannot make an event of (Error::Syntax), a frame that
\* is not even well-formed.
Form == {"valid", "invalid", "undecodable", "corrupt"}

ASSUME FlowAssumption ==
  /\ Frame \subseteq EventKind \X Form
  /\ Consumer \subseteq {"metrics", "fast", "slow", "oms", "risk"}
  /\ BusCap \in Nat \ {0}
  /\ ChannelCap \in [Consumer -> Nat \ {0}]
  /\ MaxSent \in Nat
  /\ MaxBacklog \in Nat \ {0}

VARIABLES
  writer,    \* UdsSender.writer: "none", "up", or "broken" when BridgeRx hung up
  count,     \* events the bridge has made
  conns,     \* connections, the accepted one first
  old,       \* events up to this one are more than 5 s old
  reader,    \* where BridgeRxTask is: "accept", "read", "decode" or "send"
  read_buf,  \* bytes read and not drained
  cursor,    \* bytes of read_buf that are consumed
  waiting,   \* the critical event that waits for room on the bus, if any
  bus,       \* the channel from BridgeRx to the DataRouter
  channel,   \* the consumers' channels
  decoded,   \* events decoded on the connection
  offered,   \* events that passed validation
  routed     \* events the router has taken

bridge == <<writer, count, conns>>
input == <<reader, read_buf, cursor, waiting, decoded, offered>>
output == <<channel, routed>>
vars == <<bridge, old, input, bus, output>>

Event == [id : 1..MaxSent, kind : EventKind, form : Form]
Piece == [event : Event, part : {1, 2}]
Pieces(e) == <<[event |-> e, part |-> 1], [event |-> e, part |-> 2]>>
NewConn == [bytes |-> <<>>, sent |-> <<>>, closed |-> FALSE]

-----------------------------------------------------------------------------
(* The bridge: UdsSender. *)

\* connect(); the listener queues the connection until it is accepted.
Connect ==
  /\ writer = "none"
  /\ Len(conns) < MaxBacklog
  /\ writer' = "up"
  /\ conns' = Append(conns, NewConn)
  /\ UNCHANGED <<count, old, input, bus, output>>

\* write and drain.
Written(conn, e) == [conn EXCEPT !.bytes = @ \o Pieces(e), !.sent = Append(@, e)]

\* send_event; without a writer it returns, after a failure it connects anew: in
\* both cases the event is lost.
SendEvent(f) ==
  LET e == [id |-> count + 1, kind |-> f[1], form |-> f[2]]
  IN /\ count < MaxSent
     /\ count' = count + 1
     /\ CASE writer = "up" ->
               /\ conns' = [conns EXCEPT ![Len(conns)] = Written(@, e)]
               /\ UNCHANGED writer
          [] OTHER -> writer' = "none" /\ UNCHANGED conns
     /\ UNCHANGED <<old, input, bus, output>>

\* The end of a stream, after what of the last write got out.
CutOff(conn, bytes) == [conn EXCEPT !.bytes = @ \o bytes, !.closed = TRUE]

\* The bridge goes away, perhaps in the middle of a write.
BridgeStops ==
  /\ writer # "none"
  /\ writer' = "none"
  /\ \/ /\ conns' = IF writer = "up"
                    THEN [conns EXCEPT ![Len(conns)] = CutOff(@, <<>>)] ELSE conns
        /\ UNCHANGED count
     \/ /\ writer = "up" /\ count < MaxSent
        /\ count' = count + 1
        /\ \E f \in Frame :
             LET e == [id |-> count + 1, kind |-> f[1], form |-> f[2]]
             IN conns' = [conns EXCEPT
                            ![Len(conns)] = CutOff(@, <<[event |-> e, part |-> 1]>>)]
  /\ UNCHANGED <<old, input, bus, output>>

\* Time passes: some of what was sent is now more than 5 s old.
Age ==
  /\ \E n \in old + 1 .. count : old' = n
  /\ UNCHANGED <<bridge, input, bus, output>>

-----------------------------------------------------------------------------
(* BridgeRxTask. *)

\* handle_connection begins.
Accept ==
  /\ reader = "accept" /\ conns # <<>>
  /\ reader' = "read"
  /\ read_buf' = <<>>
  /\ cursor' = 0
  /\ decoded' = <<>>
  /\ UNCHANGED <<bridge, old, waiting, offered, bus, output>>

\* The connection ends: the reader drops the stream.
HangUp ==
  /\ reader' = "accept"
  /\ conns' = Tail(conns)
  /\ writer' = IF Len(conns) = 1 /\ writer = "up" THEN "broken" ELSE writer
  /\ UNCHANGED <<count, old, read_buf, cursor, waiting, decoded, offered, bus, output>>

\* Mutant of Read: a connection that is closed ends with what is still in it.
ReadEndsWithClose ==
  /\ reader = "read"
  /\ LET bytes == Head(conns).bytes
     IN IF Head(conns).closed THEN HangUp
        ELSE \E n \in 1..Len(bytes) :
               /\ read_buf' = read_buf \o SubSeq(bytes, 1, n)
               /\ conns' = [conns EXCEPT ![1].bytes = SubSeq(bytes, n + 1, Len(bytes))]
               /\ reader' = "decode"
               /\ UNCHANGED <<writer, count, old, cursor, waiting, decoded, offered, bus, output>>

\* read_buf().await: some of the bytes that are there; none is the end.
Read ==
  /\ reader = "read"
  /\ LET bytes == Head(conns).bytes
     IN \/ \E n \in 1..Len(bytes) :
             /\ read_buf' = read_buf \o SubSeq(bytes, 1, n)
             /\ conns' = [conns EXCEPT ![1].bytes = SubSeq(bytes, n + 1, Len(bytes))]
             /\ reader' = "decode"
             /\ UNCHANGED <<writer, count, old, cursor, waiting, decoded, offered, bus, output>>
        \/ bytes = <<>> /\ Head(conns).closed /\ HangUp

Left == Len(read_buf) - cursor
AtCursor == read_buf[cursor + 1]

\* The bytes at the cursor are those of one whole frame.
WholeFrame ==
  /\ Left > 1
  /\ AtCursor.part = 1
  /\ read_buf[cursor + 2] = [AtCursor EXCEPT !.part = 2]

\* The loop over the batch breaks where it needs more bytes: at the end, inside a
\* frame, and at a frame that serde rejects.
EndOfBatch ==
  \/ Left = 0
  \/ Left = 1 /\ AtCursor.part = 1
  \/ WholeFrame /\ AtCursor.event.form = "undecodable"

\* Mutant of DrainBatch: a buffer that is not used up is kept as it is.
DrainBatchForgotten ==
  /\ read_buf' = IF Left = 0 THEN <<>> ELSE read_buf
  /\ cursor' = 0

\* read_buf.drain(0..cursor).
DrainBatch ==
  /\ read_buf' = SubSeq(read_buf, cursor + 1, Len(read_buf))
  /\ cursor' = 0

\* validate_event: the age, then the kind's own bounds.
Validates(e) == e.id > old /\ e.form = "valid"

Priority(e) ==
  CASE e.kind = "Tick" -> "High"
    [] e.kind = "L2Delta" -> "Medium"
    [] e.kind \in {"Snapshot", "Heartbeat"} -> "Low"
    [] OTHER -> "Critical"

\* Mutant of ProcessEvent: the event that waited is not the one that is sent on.
ProcessEventDrops(e) ==
  /\ offered' = Append(offered, e)
  /\ reader' = "decode"
  /\ bus' = IF Len(bus) < BusCap THEN Append(bus, e) ELSE bus
  /\ UNCHANGED waiting

\* process_event: a full bus makes a critical event wait and drops the others.
ProcessEvent(e) ==
  /\ offered' = Append(offered, e)
  /\ CASE Len(bus) < BusCap ->
            bus' = Append(bus, e) /\ reader' = "decode" /\ UNCHANGED waiting
       [] Len(bus) >= BusCap /\ Priority(e) = "Critical" ->
            waiting' = <<e>> /\ reader' = "send" /\ UNCHANGED bus
       [] OTHER ->
            reader' = "decode" /\ UNCHANGED <<bus, waiting>>

\* One round of the loop in read_and_process_batch.
Decode ==
  /\ reader = "decode"
  /\ \/ /\ EndOfBatch
        /\ DrainBatch
        /\ reader' = "read"
        /\ UNCHANGED <<bridge, old, waiting, decoded, offered, bus, output>>
     \/ /\ ~EndOfBatch
        /\ ~WholeFrame \/ AtCursor.event.form = "corrupt"
        /\ HangUp
     \/ /\ WholeFrame
        /\ AtCursor.event.form \in {"valid", "invalid"}
        /\ decoded' = Append(decoded, AtCursor.event)
        /\ cursor' = cursor + 2
        /\ IF Validates(AtCursor.event) THEN ProcessEvent(AtCursor.event)
           ELSE UNCHANGED <<reader, waiting, offered, bus>>
        /\ UNCHANGED <<bridge, old, read_buf, output>>

\* bus.tx.send(event).await has got its room.
SendCritical ==
  /\ reader = "send"
  /\ Len(bus) < BusCap
  /\ bus' = bus \o waiting
  /\ waiting' = <<>>
  /\ reader' = "decode"
  /\ UNCHANGED <<bridge, old, read_buf, cursor, decoded, offered, output>>

-----------------------------------------------------------------------------
(* The DataRouter and its consumers. *)

Receivers(kind) ==
  {"metrics"} \cup
  CASE kind \in {"Tick", "L2Delta"} -> {"fast", "slow"}
    [] kind = "Snapshot" -> {"slow"}
    [] kind = "Fill" -> {"oms", "risk", "fast"}
    [] kind \in {"OrderStatus", "CancelAck", "CancelReject"} -> {"oms", "risk"}
    [] kind = "Reject" -> {"oms"}
    [] kind = "Delisting" -> {"risk", "oms"}
    [] kind \in {"Halt", "Reconnect", "StateSync"} -> {"oms", "risk", "fast"}
    [] kind = "Heartbeat" -> {"oms", "risk", "slow"}

\* try_send to each: a full channel loses the event, whatever it is.
Route ==
  /\ bus # <<>>
  /\ LET e == Head(bus)
     IN /\ channel' = [c \in Consumer |->
             IF c \in Receivers(e.kind) /\ Len(channel[c]) < ChannelCap[c]
             THEN Append(channel[c], e) ELSE channel[c]]
        /\ routed' = Append(routed, e)
  /\ bus' = Tail(bus)
  /\ UNCHANGED <<bridge, old, input>>

Consume(c) ==
  /\ channel[c] # <<>>
  /\ channel' = [channel EXCEPT ![c] = Tail(@)]
  /\ UNCHANGED <<bridge, old, input, bus, routed>>

Init ==
  /\ writer = "none" /\ count = 0 /\ conns = <<>> /\ old = 0
  /\ reader = "accept" /\ read_buf = <<>> /\ cursor = 0 /\ waiting = <<>>
  /\ bus = <<>>
  /\ channel = [c \in Consumer |-> <<>>]
  /\ decoded = <<>> /\ offered = <<>> /\ routed = <<>>

Bridge == Connect \/ (\E f \in Frame : SendEvent(f)) \/ BridgeStops \/ Age
BridgeRx == Accept \/ Read \/ Decode \/ SendCritical
DataRouter == Route \/ \E c \in Consumer : Consume(c)

Next == Bridge \/ BridgeRx \/ DataRouter

Spec == Init /\ [][Next]_vars

\* The two tasks are polled as long as they have something to do.  Of the bridge
\* and the consumers nothing is assumed: the router does not wait for anyone.
FairSpec == Spec /\ WF_vars(BridgeRx) /\ WF_vars(Route)

-----------------------------------------------------------------------------
(* Properties. *)

\* The events decoded on a connection are the first ones written to it, each once
\* and in order, wherever the reads cut the stream and however often the decoder
\* has to come back for more (the cursor and the drain of read_and_process_batch).
DecodedInOrder ==
  reader # "accept" => IsPrefix(decoded, Head(conns).sent)

\* From decoding to the router the events go through a queue that keeps their
\* order, refuses only when it is full and never refuses a critical one
\* (process_event and the wait for room on the bus).
Promise == INSTANCE PriorityPipe WITH
  Event <- Event,
  Critical <- LAMBDA e : Priority(e) = "Critical",
  Capacity <- BusCap,
  offered <- offered,
  pending <- bus \o waiting,
  taken <- routed

QosSpec == Promise!Spec

\* A valid critical event is in the socket, or further, and no frame before it on
\* its connection stops the decoder.
OnItsWay(id) ==
  \E c \in 1..Len(conns) :
    LET sent == conns[c].sent
    IN \E k \in 1..Len(sent) :
         /\ sent[k].id = id
         /\ sent[k].form = "valid" /\ Priority(sent[k]) = "Critical"
         /\ \A j \in 1..k : sent[j].form \in {"valid", "invalid"}

IsRouted(id) == \E k \in 1..Len(routed) : routed[k].id = id

\* A critical event that is in the socket reaches the router, however full the bus
\* is and even if the bridge that wrote it has gone, unless it gets too old on the
\* way (the batch loop, the read to the end of a closed stream, the wait for room).
CriticalArrives ==
  \A id \in 1..MaxSent : OnItsWay(id) ~> (IsRouted(id) \/ id <= old)

\* Counterexample property.  "Fills, OrderStatus, Errors - NEVER DROP"
\* (bridge_rx/src/lib.rs:37) of the whole way: a critical event the router takes
\* gets into the channel of each of its receivers.
NeverDropped ==
  [][\A c \in Consumer :
       routed' # routed /\ Priority(Head(bus)) = "Critical"
         /\ c \in Receivers(Head(bus).kind)
       => channel'[c] = Append(channel[c], Head(bus))]_vars

\* Counterexample property.  An event serde rejects is dropped and the ones behind
\* it are read, as the log line of an invalid event says (bridge_rx/src/lib.rs:196).
UndecodableIsSkipped ==
  \A id \in 1..MaxSent :
    (\E c \in 1..Len(conns) : \E k \in 1..Len(conns[c].sent) :
        /\ conns[c].sent[k].id = id /\ conns[c].sent[k].form = "valid"
        /\ \A j \in 1..k : conns[c].sent[j].form # "corrupt")
    ~> (\E k \in 1..Len(offered) : offered[k].id = id) \/ id <= old
         \/ (\A c \in 1..Len(conns) : conns[c].closed)
=============================================================================
