---------------------------- MODULE EventFlowProofs ----------------------------
(***************************************************************************)
(* Proofs about EventFlow: the queue to the router keeps its promises, and *)
(* the events of a connection are decoded as they were written, for every  *)
(* set of frames, every size of the bus and any number of events.          *)
(***************************************************************************)
EXTENDS EventFlow, SequenceTheorems, TLAPS

Conn == [bytes : Seq(Piece), sent : Seq(Event), closed : BOOLEAN]
ReaderState == {"accept", "read", "decode", "send"}

\* Types, the waiting event, and the writer's connection, which is the last one.
FlowOK ==
  /\ writer \in {"none", "up", "broken"}
  /\ count \in 0..MaxSent
  /\ conns \in Seq(Conn)
  /\ reader \in ReaderState
  /\ read_buf \in Seq(Piece)
  /\ cursor \in 0..Len(read_buf)
  /\ bus \in Seq(Event) /\ offered \in Seq(Event) /\ decoded \in Seq(Event)
  /\ waiting \in Seq(Event)
  /\ routed \in Seq(Event)
  /\ reader = "send" => Len(waiting) = 1
  /\ reader # "send" => waiting = <<>>
  /\ reader # "accept" => conns # <<>>
  /\ writer = "up" => conns # <<>> /\ ~conns[Len(conns)].closed

\* From the byte after `from`, the stream holds the frames of the events after the
\* first `base` of sent, in order, and the start of one more at most, if the
\* connection is closed.
Layout(stream, from, sent, base, closed) ==
  /\ from \in 0..Len(stream) /\ base \in 0..Len(sent)
  /\ \/ Len(stream) - from = 2 * (Len(sent) - base)
     \/ closed /\ Len(stream) - from = 2 * (Len(sent) - base) + 1
  /\ \A j \in 1..(Len(sent) - base) :
       /\ stream[from + 2 * j - 1] = [event |-> sent[base + j], part |-> 1]
       /\ stream[from + 2 * j] = [event |-> sent[base + j], part |-> 2]

\* The bytes of a connection that nothing was read from.
Untouched(conn) == Layout(conn.bytes, 0, conn.sent, 0, conn.closed)

StreamOK ==
  /\ \A c \in 1..Len(conns) : (c = 1 /\ reader # "accept") \/ Untouched(conns[c])
  /\ reader # "accept" =>
       /\ Layout(read_buf \o conns[1].bytes, cursor, conns[1].sent, Len(decoded),
                 conns[1].closed)
       /\ \A k \in 1..Len(decoded) : decoded[k] = conns[1].sent[k]

-----------------------------------------------------------------------------
(* Types and the waiting event. *)

\* The event of a frame is an event.
LEMMA FrameEvent ==
  ASSUME NEW f \in Frame, count \in 0..MaxSent, count < MaxSent
  PROVE  [id |-> count + 1, kind |-> f[1], form |-> f[2]] \in Event
<1>1. f[1] \in EventKind /\ f[2] \in Form
  BY FlowAssumption
<1>2. count + 1 \in 1..MaxSent
  BY FlowAssumption
<1> QED BY <1>1, <1>2 DEF Event

\* An event is written as two pieces.
LEMMA PiecesOfEvent ==
  ASSUME NEW e \in Event
  PROVE  Pieces(e) \in Seq(Piece) /\ [event |-> e, part |-> 1] \in Piece
<1>1. [event |-> e, part |-> 1] \in Piece /\ [event |-> e, part |-> 2] \in Piece
  BY DEF Piece
<1> QED BY <1>1 DEF Pieces

\* What becomes of a connection that is written to, or cut off.
LEMMA WrittenConn ==
  ASSUME NEW conn \in Conn, NEW e \in Event
  PROVE  /\ Written(conn, e) \in Conn
         /\ Written(conn, e).bytes = conn.bytes \o Pieces(e)
         /\ Written(conn, e).sent = Append(conn.sent, e)
         /\ Written(conn, e).closed = conn.closed
<1>1. conn.bytes \o Pieces(e) \in Seq(Piece) /\ Append(conn.sent, e) \in Seq(Event)
  <2>1. conn.bytes \in Seq(Piece) /\ conn.sent \in Seq(Event)
    BY DEF Conn
  <2>2. Pieces(e) \in Seq(Piece)
    BY PiecesOfEvent
  <2> QED BY <2>1, <2>2, ConcatProperties, AppendProperties
<1> QED BY <1>1 DEF Written, Conn

\* The cut leaves a connection that is closed and whose events are the same.
LEMMA CutOffConn ==
  ASSUME NEW conn \in Conn, NEW bytes \in Seq(Piece)
  PROVE  /\ CutOff(conn, bytes) \in Conn
         /\ CutOff(conn, bytes).bytes = conn.bytes \o bytes
         /\ CutOff(conn, bytes).sent = conn.sent
         /\ CutOff(conn, bytes).closed = TRUE
<1>1. conn.bytes \o bytes \in Seq(Piece)
  BY DEF Conn
<1> QED BY <1>1 DEF CutOff, Conn

\* The writer's connection is the last one.
LEMMA LastIsConn ==
  ASSUME FlowOK, writer = "up"
  PROVE  Len(conns) \in 1..Len(conns) /\ conns[Len(conns)] \in Conn
<1>1. conns \in Seq(Conn) /\ conns # <<>>
  BY DEF FlowOK
<1>2. Len(conns) \in 1..Len(conns)
  BY <1>1, EmptySeq
<1> QED BY <1>1, <1>2, ElementOfSeq

\* Replacing the writer's connection leaves the others as they are.
LEMMA LastConn ==
  ASSUME FlowOK, writer = "up", NEW new \in Conn
  PROVE  /\ Len(conns) \in 1..Len(conns) /\ conns[Len(conns)] \in Conn
         /\ [conns EXCEPT ![Len(conns)] = new] \in Seq(Conn)
         /\ Len([conns EXCEPT ![Len(conns)] = new]) = Len(conns)
         /\ [conns EXCEPT ![Len(conns)] = new][Len(conns)] = new
         /\ \A c \in 1..Len(conns) :
              c # Len(conns) => [conns EXCEPT ![Len(conns)] = new][c] = conns[c]
<1>1. conns \in Seq(Conn) /\ conns # <<>>
  BY DEF FlowOK
<1>2. Len(conns) \in 1..Len(conns)
  BY <1>1, EmptySeq
<1> QED BY <1>1, <1>2, ExceptSeq, ElementOfSeq

\* A write, in the connection and in the writer.
LEMMA SendKeepsFlow ==
  ASSUME FlowOK, NEW f \in Frame, SendEvent(f)
  PROVE  FlowOK'
<1> DEFINE e == [id |-> count + 1, kind |-> f[1], form |-> f[2]]
           new == Written(conns[Len(conns)], e)
<1>1. e \in Event /\ count' \in 0..MaxSent
  <2>1. count \in 0..MaxSent /\ count < MaxSent /\ count' = count + 1
    BY DEF FlowOK, SendEvent
  <2>2. MaxSent \in Nat
    BY FlowAssumption
  <2> QED BY <2>1, <2>2, FrameEvent
<1>2. UNCHANGED <<reader, read_buf, cursor, bus, offered, decoded, waiting, routed>>
  BY DEF SendEvent, input, output
<1>3. CASE writer = "up"
  <2>1. conns[Len(conns)] \in Conn
    BY <1>3, LastIsConn
  <2>2. writer' = writer /\ conns' = [conns EXCEPT ![Len(conns)] = new]
    BY <1>3 DEF SendEvent
  <2> HIDE DEF e
  <2>3. new \in Conn /\ new.closed = conns[Len(conns)].closed
    BY <1>1, <2>1, WrittenConn
  <2> HIDE DEF new
  <2>4. /\ conns' \in Seq(Conn) /\ Len(conns') = Len(conns)
        /\ conns'[Len(conns)] = new /\ Len(conns) \in 1..Len(conns)
    BY <1>3, <2>2, <2>3, LastConn
  <2> QED BY <1>1, <1>2, <1>3, <2>2, <2>3, <2>4 DEF FlowOK
<1>4. CASE writer # "up"
  <2>1. writer' = "none" /\ UNCHANGED conns
    BY <1>4 DEF SendEvent
  <2> QED BY <1>1, <1>2, <2>1 DEF FlowOK
<1> QED BY <1>3, <1>4

\* The end of the bridge keeps the types, whatever got out of its last write.
LEMMA StopKeepsFlow ==
  ASSUME FlowOK, BridgeStops
  PROVE  FlowOK'
<1>1. UNCHANGED <<reader, read_buf, cursor, bus, offered, decoded, waiting, routed>>
      /\ writer' = "none"
  BY DEF BridgeStops, input, output
<1>2. CASE conns' = conns /\ count' = count
  BY <1>1, <1>2 DEF FlowOK
<1>3. ASSUME writer = "up", NEW bytes \in Seq(Piece), count' \in 0..MaxSent,
             conns' = [conns EXCEPT ![Len(conns)] = CutOff(@, bytes)]
      PROVE  FlowOK'
  <2> DEFINE new == CutOff(conns[Len(conns)], bytes)
  <2>1. conns[Len(conns)] \in Conn
    BY <1>3, LastIsConn
  <2>2. new \in Conn
    BY <2>1, CutOffConn
  <2>3. conns' = [conns EXCEPT ![Len(conns)] = new]
    BY <1>3
  <2> HIDE DEF new
  <2>4. conns' \in Seq(Conn) /\ Len(conns') = Len(conns)
    BY <1>3, <2>2, <2>3, LastConn
  <2>5. conns \in Seq(Conn) /\ conns # <<>>
    BY <1>3 DEF FlowOK
  <2> QED BY <1>1, <1>3, <2>4, <2>5, EmptySeq DEF FlowOK
<1>4. CASE writer = "up" /\ conns' = [conns EXCEPT ![Len(conns)] = CutOff(@, <<>>)]
           /\ count' = count
  <2>1. <<>> \in Seq(Piece) /\ count' \in 0..MaxSent
    BY <1>4 DEF FlowOK
  <2> QED BY <1>3, <1>4, <2>1
<1>5. ASSUME writer = "up", count < MaxSent, count' = count + 1, NEW f \in Frame,
             LET e == [id |-> count + 1, kind |-> f[1], form |-> f[2]]
             IN conns' = [conns EXCEPT
                            ![Len(conns)] = CutOff(@, <<[event |-> e, part |-> 1]>>)]
      PROVE  FlowOK'
  <2> DEFINE e == [id |-> count + 1, kind |-> f[1], form |-> f[2]]
  <2>1. <<[event |-> e, part |-> 1]>> \in Seq(Piece) /\ count' \in 0..MaxSent
    BY <1>5, FrameEvent, PiecesOfEvent, FlowAssumption DEF FlowOK
  <2> QED BY <1>3, <1>5, <2>1
<1> QED BY <1>2, <1>4, <1>5 DEF BridgeStops

\* The end of a connection, with the rest of the state as it was.
LEMMA HangUpKeepsFlow ==
  ASSUME FlowOK, reader \in {"read", "decode"}, HangUp
  PROVE  FlowOK'
<1>1. conns # <<>> /\ waiting = <<>>
  BY DEF FlowOK
<1>2. /\ conns' \in Seq(Conn) /\ Len(conns') = Len(conns) - 1
      /\ \A c \in 1..Len(conns') : conns'[c] = conns[c + 1]
  BY <1>1, HeadTailProperties DEF HangUp, FlowOK
<1>3. UNCHANGED <<count, old, read_buf, cursor, waiting, decoded, offered, bus, routed>>
      /\ reader' = "accept"
  BY DEF HangUp, output
<1>4. writer' \in {"none", "up", "broken"}
      /\ (writer' = "up" => writer = "up" /\ Len(conns) # 1)
  BY DEF HangUp, FlowOK
<1>5. writer' = "up" => conns' # <<>> /\ ~conns'[Len(conns')].closed
  <2> SUFFICES ASSUME writer' = "up" PROVE conns' # <<>> /\ ~conns'[Len(conns')].closed
    OBVIOUS
  <2>1. ~conns[Len(conns)].closed /\ Len(conns) \in Nat /\ Len(conns) > 1
    <3>1. Len(conns) \in Nat \ {0}
      BY <1>1, EmptySeq DEF FlowOK
    <3>2. writer = "up" /\ Len(conns) # 1
      BY <1>4
    <3>3. ~conns[Len(conns)].closed
      BY <3>2 DEF FlowOK
    <3>4. \A n \in Nat \ {0} : n # 1 => n \in Nat /\ n > 1
      OBVIOUS
    <3> QED BY ONLY <3>1, <3>2, <3>3, <3>4, Zenon
  <2> QED BY <1>2, <2>1
<1> QED BY <1>1, <1>2, <1>3, <1>4, <1>5 DEF FlowOK, ReaderState

\* After process_event the reader decodes on or waits with that one event.
LEMMA ProcessResult ==
  ASSUME FlowOK, waiting = <<>>, NEW e \in Event, ProcessEvent(e)
  PROVE  /\ offered' = Append(offered, e)
         /\ \/ bus' = Append(bus, e) /\ reader' = "decode" /\ waiting' = <<>>
            \/ /\ Len(bus) >= BusCap /\ bus' = bus
               /\ waiting' = <<e>> /\ reader' = "send"
            \/ /\ Len(bus) >= BusCap /\ Priority(e) # "Critical" /\ bus' = bus
               /\ waiting' = <<>> /\ reader' = "decode"
<1>1. Len(bus) \in Nat /\ BusCap \in Nat
  BY FlowAssumption DEF FlowOK
<1>2. CASE Len(bus) < BusCap
  BY <1>2 DEF ProcessEvent
<1>3. CASE Len(bus) >= BusCap /\ Priority(e) = "Critical"
  <2>1. ~(Len(bus) < BusCap)
    BY <1>1, <1>3
  <2> QED BY <1>3, <2>1 DEF ProcessEvent
<1>4. CASE Len(bus) >= BusCap /\ Priority(e) # "Critical"
  <2>1. ~(Len(bus) < BusCap)
    BY <1>1, <1>4
  <2> QED BY <1>4, <2>1 DEF ProcessEvent
<1> QED BY <1>1, <1>2, <1>3, <1>4

\* The reader's steps.
LEMMA ReadKeepsFlow ==
  ASSUME FlowOK, Read
  PROVE  FlowOK'
<1>1. conns # <<>> /\ conns \in Seq(Conn) /\ conns[1] = Head(conns) /\ conns[1] \in Conn
      /\ 1 \in 1..Len(conns)
  BY EmptySeq, HeadTailProperties, ElementOfSeq DEF FlowOK, Read
<1>2. ASSUME NEW n \in 1..Len(conns[1].bytes),
             read_buf' = read_buf \o SubSeq(conns[1].bytes, 1, n),
             conns' = [conns EXCEPT ![1].bytes =
                         SubSeq(conns[1].bytes, n + 1, Len(conns[1].bytes))],
             reader' = "decode",
             UNCHANGED <<writer, count, old, cursor, waiting, decoded, offered, bus, output>>
      PROVE  FlowOK'
  <2> DEFINE b == conns[1].bytes
             rest == SubSeq(b, n + 1, Len(b))
             new == [conns[1] EXCEPT !.bytes = rest]
  <2>1. b \in Seq(Piece) /\ conns[1].sent \in Seq(Event) /\ conns[1].closed \in BOOLEAN
    BY <1>1 DEF Conn
  <2>2. rest \in Seq(Piece) /\ SubSeq(b, 1, n) \in Seq(Piece)
    BY <2>1, SubSeqProperties
  <2>3. conns' = [conns EXCEPT ![1] = new]
    BY <1>2
  <2> HIDE DEF rest
  <2>4. new \in Conn /\ new.closed = conns[1].closed
    BY <1>1, <2>2 DEF Conn
  <2> HIDE DEF new
  <2>5. /\ conns' \in Seq(Conn) /\ Len(conns') = Len(conns) /\ conns'[1] = new
        /\ \A c \in 1..Len(conns) : c # 1 => conns'[c] = conns[c]
    BY <1>1, <2>3, <2>4, ExceptSeq
  <2>6. read_buf' \in Seq(Piece) /\ Len(read_buf') = Len(read_buf) + Len(SubSeq(b, 1, n))
    BY <1>2, <2>2, ConcatProperties DEF FlowOK
  <2>7. cursor' \in 0..Len(read_buf')
    BY <1>2, <2>2, <2>6, LenProperties DEF FlowOK
  <2>8. writer' = "up" => conns' # <<>> /\ ~conns'[Len(conns')].closed
    <3>1. CASE Len(conns) = 1
      BY <1>1, <1>2, <2>4, <2>5, <3>1, EmptySeq DEF FlowOK
    <3>2. CASE Len(conns) # 1
      <4>1. Len(conns) \in 1..Len(conns) /\ conns'[Len(conns)] = conns[Len(conns)]
        BY <1>1, <2>5, <3>2, EmptySeq
      <4> QED BY <1>1, <1>2, <2>5, <4>1, EmptySeq DEF FlowOK
    <3> QED BY <3>1, <3>2
  <2>9. conns' # <<>>
    BY <1>1, <2>5, EmptySeq
  <2> QED BY <1>2, <2>5, <2>6, <2>7, <2>8, <2>9 DEF FlowOK, Read, ReaderState, output
<1>3. CASE HangUp
  BY <1>3, HangUpKeepsFlow DEF Read
<1> QED BY <1>1, <1>2, <1>3 DEF Read

\* What a whole frame at the cursor means.
LEMMA FrameAtCursor ==
  ASSUME FlowOK, WholeFrame
  PROVE  /\ cursor + 1 \in 1..Len(read_buf) /\ cursor + 2 \in 0..Len(read_buf)
         /\ AtCursor \in Piece /\ AtCursor.event \in Event
<1>1. cursor + 1 \in 1..Len(read_buf) /\ cursor + 2 \in 0..Len(read_buf)
  BY LenProperties DEF FlowOK, WholeFrame, Left
<1>2. AtCursor \in Piece
  BY <1>1, ElementOfSeq DEF FlowOK, AtCursor
<1> QED BY <1>1, <1>2 DEF Piece

\* A round of the decoding loop keeps the types.
LEMMA DecodeKeepsFlow ==
  ASSUME FlowOK, Decode
  PROVE  FlowOK'
<1>1. waiting = <<>> /\ conns # <<>> /\ reader = "decode"
  BY DEF FlowOK, Decode
<1>2. CASE /\ DrainBatch /\ reader' = "read"
           /\ UNCHANGED <<bridge, old, waiting, decoded, offered, bus, output>>
  <2>1. read_buf' \in Seq(Piece) /\ cursor' = 0
    BY <1>2, SubSeqProperties DEF FlowOK, DrainBatch
  <2>2. cursor' \in 0..Len(read_buf')
    BY <2>1, LenProperties
  <2> QED BY <1>1, <1>2, <2>1, <2>2 DEF FlowOK, ReaderState, bridge, output
<1>3. CASE HangUp
  BY <1>1, <1>3, HangUpKeepsFlow
<1>4. CASE /\ WholeFrame
           /\ decoded' = Append(decoded, AtCursor.event)
           /\ cursor' = cursor + 2
           /\ IF Validates(AtCursor.event) THEN ProcessEvent(AtCursor.event)
              ELSE UNCHANGED <<reader, waiting, offered, bus>>
           /\ UNCHANGED <<bridge, old, read_buf, output>>
  <2>1. AtCursor.event \in Event /\ cursor' \in 0..Len(read_buf')
    BY <1>4, FrameAtCursor
  <2>2. decoded' \in Seq(Event)
    BY <1>4, <2>1 DEF FlowOK
  <2>3. CASE UNCHANGED <<reader, waiting, offered, bus>>
    BY <1>1, <1>4, <2>1, <2>2, <2>3 DEF FlowOK, bridge, output
  <2>4. CASE ProcessEvent(AtCursor.event)
    <3> DEFINE e == AtCursor.event
    <3>1. /\ offered' = Append(offered, e)
          /\ \/ bus' = Append(bus, e) /\ reader' = "decode" /\ waiting' = <<>>
             \/ bus' = bus /\ waiting' = <<e>> /\ reader' = "send"
             \/ bus' = bus /\ waiting' = <<>> /\ reader' = "decode"
      BY <1>1, <2>1, <2>4, ProcessResult
    <3>4. e \in Event /\ offered \in Seq(Event) /\ bus \in Seq(Event)
      BY <2>1 DEF FlowOK
    <3> HIDE DEF e
    <3>5. offered' \in Seq(Event)
      BY <3>1, <3>4, AppendProperties
    <3>2. /\ bus' \in Seq(Event) /\ waiting' \in Seq(Event)
          /\ reader' \in {"decode", "send"}
          /\ (reader' = "send" => Len(waiting') = 1)
          /\ (reader' # "send" => waiting' = <<>>)
      <4>1. Append(bus, e) \in Seq(Event) /\ <<e>> \in Seq(Event) /\ Len(<<e>>) = 1
        BY <3>4, AppendProperties
      <4>2. CASE bus' = Append(bus, e) /\ reader' = "decode" /\ waiting' = <<>>
        BY <4>1, <4>2
      <4>3. CASE bus' = bus /\ waiting' = <<e>> /\ reader' = "send"
        BY <3>4, <4>1, <4>3
      <4>4. CASE bus' = bus /\ waiting' = <<>> /\ reader' = "decode"
        BY <3>4, <4>4
      <4> QED BY <3>1, <4>2, <4>3, <4>4
    <3> QED BY <1>1, <1>4, <2>1, <2>2, <3>2, <3>5 DEF FlowOK, ReaderState, bridge, output
  <2> QED BY <1>4, <2>3, <2>4
<1> QED BY <1>2, <1>3, <1>4 DEF Decode

\* The types hold at all times, and one event at most waits for room.
LEMMA FlowOKHolds == Spec => []FlowOK
<1>1. Init => FlowOK
  BY FlowAssumption DEF Init, FlowOK, ReaderState
<1>2. FlowOK /\ [Next]_vars => FlowOK'
  <2> SUFFICES ASSUME FlowOK, [Next]_vars PROVE FlowOK'
    OBVIOUS
  <2>1. CASE Connect
    <3>1. NewConn \in Conn
      BY DEF NewConn, Conn
    <3>2. /\ conns' \in Seq(Conn) /\ Len(conns') = Len(conns) + 1
          /\ conns'[Len(conns) + 1] = NewConn
      BY <2>1, <3>1, AppendProperties DEF Connect, FlowOK
    <3>3. conns' # <<>> /\ ~conns'[Len(conns')].closed
      BY <3>2, EmptySeq DEF NewConn, FlowOK
    <3> QED BY <2>1, <3>2, <3>3 DEF Connect, FlowOK, input, output
  <2>2. CASE Age
    BY <2>2 DEF Age, FlowOK, bridge, input, output
  <2>3. CASE Accept
    BY <2>3, EmptySeq DEF Accept, FlowOK, ReaderState, bridge, output
  <2>4. CASE SendCritical
    <3>1. bus' \in Seq(Event)
      BY <2>4, ConcatProperties DEF SendCritical, FlowOK
    <3> QED BY <2>4, <3>1, EmptySeq DEF SendCritical, FlowOK, ReaderState, bridge, output
  <2>5. CASE Route
    <3>1. bus' \in Seq(Event) /\ routed' \in Seq(Event)
      BY <2>5, HeadTailProperties, AppendProperties DEF Route, FlowOK
    <3> QED BY <2>5, <3>1 DEF Route, FlowOK, bridge, input
  <2>6. CASE \E c \in Consumer : Consume(c)
    BY <2>6 DEF Consume, FlowOK, bridge, input
  <2>7. CASE UNCHANGED vars
    BY <2>7 DEF vars, FlowOK, bridge, input, output
  <2> QED BY <2>1, <2>2, <2>3, <2>4, <2>5, <2>6, <2>7, SendKeepsFlow, StopKeepsFlow,
             ReadKeepsFlow, DecodeKeepsFlow DEF Next, Bridge, BridgeRx, DataRouter
<1> QED BY <1>1, <1>2, PTL DEF Spec

-----------------------------------------------------------------------------
(* The queue. *)

\* Putting an event at the end of what is pending is an Offer.
LEMMA QueueStep ==
  ASSUME FlowOK, [Next]_vars
  PROVE  [Promise!Next]_(Promise!pipe)
<1> DEFINE pending == bus \o waiting
<1>1. /\ bus \in Seq(Event) /\ waiting \in Seq(Event)
      /\ Len(bus) \in Nat /\ BusCap \in Nat
  BY FlowAssumption DEF FlowOK
<1>2. ASSUME UNCHANGED <<offered, bus, waiting, routed>>
      PROVE  UNCHANGED Promise!pipe
  BY <1>2 DEF Promise!pipe
<1>3. ASSUME WholeFrame, reader = "decode", ProcessEvent(AtCursor.event), UNCHANGED routed
      PROVE  Promise!Next
  <2> DEFINE e == AtCursor.event
  <2>1. e \in Event /\ waiting = <<>>
    BY <1>3, FrameAtCursor DEF FlowOK
  <2>2. pending = bus
    BY <1>1, <2>1, ConcatEmptySeq
  <2>3. /\ offered' = Append(offered, e)
        /\ \/ bus' = Append(bus, e) /\ waiting' = <<>>
           \/ Len(bus) >= BusCap /\ bus' = bus /\ waiting' = <<e>>
           \/ /\ Len(bus) >= BusCap /\ Priority(e) # "Critical"
              /\ bus' = bus /\ waiting' = <<>>
    BY <1>3, <2>1, ProcessResult
  <2> HIDE DEF e
  <2>4. CASE bus' = Append(bus, e) /\ waiting' = <<>>
    <3>1. bus' \o waiting' = Append(pending, e)
      BY <1>1, <2>1, <2>2, <2>4, ConcatEmptySeq, AppendProperties
    <3> QED BY <1>3, <2>1, <2>3, <3>1 DEF Promise!Next, Promise!Offer
  <2>5. CASE bus' = bus /\ waiting' = <<e>>
    <3>1. bus' \o waiting' = Append(pending, e)
      BY <1>1, <2>1, <2>2, <2>5, AppendIsConcat
    <3> QED BY <1>3, <2>1, <2>3, <3>1 DEF Promise!Next, Promise!Offer
  <2>6. CASE /\ Len(bus) >= BusCap /\ Priority(e) # "Critical"
             /\ bus' = bus /\ waiting' = <<>>
    <3>1. bus' \o waiting' = pending /\ Len(pending) >= BusCap
      BY <1>1, <2>1, <2>2, <2>6
    <3> QED BY <1>3, <2>1, <2>3, <2>6, <3>1 DEF Promise!Next, Promise!Offer
  <2> QED BY <2>3, <2>4, <2>5, <2>6
<1>4. ASSUME SendCritical PROVE UNCHANGED Promise!pipe
  <2>1. bus' = bus \o waiting /\ waiting' = <<>> /\ UNCHANGED <<offered, routed>>
    BY <1>4 DEF SendCritical, output
  <2>2. bus' \o waiting' = bus \o waiting
    BY <1>1, <2>1, ConcatProperties, ConcatEmptySeq
  <2> QED BY <2>1, <2>2 DEF Promise!pipe
<1>5. ASSUME Route PROVE Promise!Next
  <2>1. /\ bus # <<>> /\ bus' = Tail(bus) /\ routed' = Append(routed, Head(bus))
        /\ UNCHANGED <<offered, waiting>>
    BY <1>5 DEF Route, input
  <2>2. /\ pending # <<>> /\ Head(pending) = Head(bus)
        /\ Tail(pending) = bus' \o waiting'
    BY <1>1, <2>1, ConcatProperties, HeadTailProperties
  <2> QED BY <2>1, <2>2 DEF Promise!Next, Promise!Take
<1>6. CASE Decode
  BY <1>2, <1>3, <1>6 DEF Decode, HangUp, DrainBatch, output
<1>7. CASE Bridge \/ Accept \/ Read \/ UNCHANGED vars
  BY <1>2, <1>7 DEF Bridge, Connect, SendEvent, BridgeStops, Age, Accept, Read, HangUp,
     vars, input, output
<1>8. CASE \E c \in Consumer : Consume(c)
  BY <1>2, <1>8 DEF Consume, input
<1> QED BY <1>4, <1>5, <1>6, <1>7, <1>8 DEF Next, BridgeRx, DataRouter

\* The path from the decoder to the router is the queue PriorityPipe describes
\* (process_event, the wait for room, and the router's recv).
THEOREM QueueKept == Spec => QosSpec
<1>1. Init => Promise!Init
  <2> SUFFICES ASSUME Init PROVE Promise!Init
    OBVIOUS
  <2>1. bus \o waiting = <<>>
    BY DEF Init
  <2> QED BY <2>1 DEF Init, Promise!Init
<1>2. FlowOK /\ [Next]_vars => [Promise!Next]_(Promise!pipe)
  BY QueueStep
<1> QED BY <1>1, <1>2, FlowOKHolds, PTL DEF Spec, QosSpec, Promise!Spec

-----------------------------------------------------------------------------
(* The layout of a stream. *)

\* Where the elements of a concatenation are.
LEMMA ConcatIndices ==
  ASSUME NEW s \in Seq(Piece), NEW p \in Seq(Piece)
  PROVE  /\ s \o p \in Seq(Piece) /\ Len(s \o p) = Len(s) + Len(p)
         /\ \A i \in 1..Len(s) : (s \o p)[i] = s[i]
         /\ \A i \in 1..Len(p) : (s \o p)[Len(s) + i] = p[i]
<1>1. Len(s) \in Nat /\ Len(p) \in Nat
  BY LenProperties
<1>2. /\ s \o p \in Seq(Piece) /\ Len(s \o p) = Len(s) + Len(p)
      /\ \A i \in 1..(Len(s) + Len(p)) :
           (s \o p)[i] = IF i <= Len(s) THEN s[i] ELSE p[i - Len(s)]
  BY ConcatProperties
<1> DEFINE t == s \o p
<1>3. \A i \in 1..(Len(s) + Len(p)) : t[i] = IF i <= Len(s) THEN s[i] ELSE p[i - Len(s)]
  BY <1>2
<1> HIDE DEF t
<1>4. ASSUME NEW i \in 1..Len(s) PROVE t[i] = s[i]
  BY <1>1, <1>3
<1>5. ASSUME NEW i \in 1..Len(p) PROVE t[Len(s) + i] = p[i]
  <2>1. Len(s) + i \in 1..(Len(s) + Len(p)) /\ ~(Len(s) + i <= Len(s)) /\ Len(s) + i - Len(s) = i
    BY <1>1
  <2> QED BY <1>3, <2>1
<1> QED BY <1>2, <1>4, <1>5 DEF t

\* Bytes that move from one place to another leave the layout alone.
LEMMA LayoutMoves ==
  ASSUME NEW s \in Seq(Piece), NEW t \in Seq(Piece), NEW from \in Nat, NEW sent \in Seq(Event),
         NEW base \in Nat, NEW closed \in BOOLEAN, Layout(s, from, sent, base, closed),
         Len(t) = Len(s) - from, \A i \in 1..Len(t) : t[i] = s[from + i]
  PROVE  Layout(t, 0, sent, base, closed)
<1>1. Len(s) \in Nat /\ Len(t) \in Nat /\ Len(sent) \in Nat
  BY LenProperties
<1>2. /\ from \in 0..Len(s) /\ base \in 0..Len(sent)
      /\ \/ Len(s) - from = 2 * (Len(sent) - base)
         \/ closed /\ Len(s) - from = 2 * (Len(sent) - base) + 1
      /\ \A j \in 1..(Len(sent) - base) :
           /\ s[from + 2 * j - 1] = [event |-> sent[base + j], part |-> 1]
           /\ s[from + 2 * j] = [event |-> sent[base + j], part |-> 2]
  BY DEF Layout
<1>3. ASSUME NEW j \in 1..(Len(sent) - base)
      PROVE  /\ t[0 + 2 * j - 1] = [event |-> sent[base + j], part |-> 1]
             /\ t[0 + 2 * j] = [event |-> sent[base + j], part |-> 2]
  <2>1. 2 * j - 1 \in 1..Len(t) /\ 2 * j \in 1..Len(t)
    <3>1. Len(sent) - base \in Nat /\ Len(t) >= 2 * (Len(sent) - base)
      BY <1>1, <1>2
    <3>2. j <= Len(sent) - base
      BY <3>1
    <3> QED BY ONLY j \in Nat, j >= 1, <1>1, <3>1, <3>2
  <2>2. t[2 * j - 1] = s[from + (2 * j - 1)] /\ t[2 * j] = s[from + 2 * j]
    BY <2>1
  <2>3. from + (2 * j - 1) = from + 2 * j - 1 /\ 0 + 2 * j - 1 = 2 * j - 1 /\ 0 + 2 * j = 2 * j
    BY <1>1
  <2> QED BY <1>2, <2>2, <2>3
<1>4. /\ 0 \in 0..Len(t) /\ base \in 0..Len(sent)
      /\ \/ Len(t) - 0 = 2 * (Len(sent) - base)
         \/ closed /\ Len(t) - 0 = 2 * (Len(sent) - base) + 1
  BY <1>1, <1>2
<1> QED BY <1>3, <1>4, Zenon DEF Layout

\* One frame on.
LEMMA LayoutAdvances ==
  ASSUME NEW s \in Seq(Piece), NEW from \in Nat, NEW sent \in Seq(Event), NEW base \in Nat,
         NEW closed \in BOOLEAN, Layout(s, from, sent, base, closed), Len(s) - from > 1
  PROVE  /\ base + 1 \in 1..Len(sent)
         /\ s[from + 1] = [event |-> sent[base + 1], part |-> 1]
         /\ Layout(s, from + 2, sent, base + 1, closed)
<1>1. Len(s) \in Nat /\ Len(sent) \in Nat
  BY LenProperties
<1>2. /\ from \in 0..Len(s) /\ base \in 0..Len(sent)
      /\ \/ Len(s) - from = 2 * (Len(sent) - base)
         \/ closed /\ Len(s) - from = 2 * (Len(sent) - base) + 1
      /\ \A j \in 1..(Len(sent) - base) :
           /\ s[from + 2 * j - 1] = [event |-> sent[base + j], part |-> 1]
           /\ s[from + 2 * j] = [event |-> sent[base + j], part |-> 2]
  BY DEF Layout
<1>3. base + 1 \in 1..Len(sent) /\ 1 \in 1..(Len(sent) - base) /\ from + 2 \in 0..Len(s)
  BY <1>1, <1>2
<1>4. s[from + 2 * 1 - 1] = [event |-> sent[base + 1], part |-> 1]
  BY <1>2, <1>3
<1>5. ASSUME NEW j \in 1..(Len(sent) - (base + 1))
      PROVE  /\ s[from + 2 + 2 * j - 1] = [event |-> sent[base + 1 + j], part |-> 1]
             /\ s[from + 2 + 2 * j] = [event |-> sent[base + 1 + j], part |-> 2]
  <2>1. j + 1 \in 1..(Len(sent) - base)
    BY <1>1, <1>2
  <2>2. /\ s[from + 2 * (j + 1) - 1] = [event |-> sent[base + (j + 1)], part |-> 1]
        /\ s[from + 2 * (j + 1)] = [event |-> sent[base + (j + 1)], part |-> 2]
    BY <1>2, <2>1
  <2>3. /\ from + 2 * (j + 1) - 1 = from + 2 + 2 * j - 1
        /\ from + 2 * (j + 1) = from + 2 + 2 * j /\ base + (j + 1) = base + 1 + j
    BY <1>1
  <2> QED BY <2>2, <2>3
<1>6. from + 2 * 1 - 1 = from + 1
  OBVIOUS
<1>7. /\ from + 2 \in 0..Len(s) /\ base + 1 \in 0..Len(sent)
      /\ \/ Len(s) - (from + 2) = 2 * (Len(sent) - (base + 1))
         \/ closed /\ Len(s) - (from + 2) = 2 * (Len(sent) - (base + 1)) + 1
  BY <1>1, <1>2, <1>3
<1>8. Layout(s, from + 2, sent, base + 1, closed)
  BY <1>5, <1>7, Zenon DEF Layout
<1>9. s[from + 1] = [event |-> sent[base + 1], part |-> 1]
  BY <1>4, <1>6
<1> QED BY <1>3, <1>8, <1>9

\* One frame more at the end.
LEMMA LayoutGrows ==
  ASSUME NEW s \in Seq(Piece), NEW from \in Nat, NEW sent \in Seq(Event), NEW base \in Nat,
         NEW e \in Event, Layout(s, from, sent, base, FALSE)
  PROVE  Layout(s \o Pieces(e), from, Append(sent, e), base, FALSE)
<1> DEFINE t == s \o Pieces(e)
           more == Append(sent, e)
<1>1. Len(s) \in Nat /\ Len(sent) \in Nat
  BY LenProperties
<1>2. /\ from \in 0..Len(s) /\ base \in 0..Len(sent)
      /\ Len(s) - from = 2 * (Len(sent) - base)
      /\ \A j \in 1..(Len(sent) - base) :
           /\ s[from + 2 * j - 1] = [event |-> sent[base + j], part |-> 1]
           /\ s[from + 2 * j] = [event |-> sent[base + j], part |-> 2]
  BY DEF Layout
<1>3. /\ Len(t) = Len(s) + 2
      /\ \A i \in 1..Len(s) : t[i] = s[i]
      /\ t[Len(s) + 1] = [event |-> e, part |-> 1]
      /\ t[Len(s) + 2] = [event |-> e, part |-> 2]
  <2>1. Pieces(e) \in Seq(Piece) /\ Len(Pieces(e)) = 2
        /\ Pieces(e)[1] = [event |-> e, part |-> 1] /\ Pieces(e)[2] = [event |-> e, part |-> 2]
    BY PiecesOfEvent DEF Pieces
  <2> DEFINE p == Pieces(e)
  <2>2. p \in Seq(Piece) /\ Len(p) = 2 /\ p[1] = [event |-> e, part |-> 1]
        /\ p[2] = [event |-> e, part |-> 2]
    BY <2>1
  <2> HIDE DEF p
  <2>3. /\ Len(s \o p) = Len(s) + Len(p)
        /\ \A i \in 1..Len(s) : (s \o p)[i] = s[i]
        /\ \A i \in 1..Len(p) : (s \o p)[Len(s) + i] = p[i]
    BY <1>1, <2>2, ConcatIndices
  <2>4. /\ Len(s \o p) = Len(s) + 2 /\ (s \o p)[Len(s) + 1] = p[1]
        /\ (s \o p)[Len(s) + 2] = p[2]
    BY <2>2, <2>3
  <2> QED BY <2>2, <2>3, <2>4 DEF p
<1>4. /\ Len(more) = Len(sent) + 1 /\ more[Len(sent) + 1] = e
      /\ \A k \in 1..Len(sent) : more[k] = sent[k]
  BY AppendProperties
<1> HIDE DEF t, more
<1>5. ASSUME NEW j \in 1..(Len(more) - base)
      PROVE  /\ t[from + 2 * j - 1] = [event |-> more[base + j], part |-> 1]
             /\ t[from + 2 * j] = [event |-> more[base + j], part |-> 2]
  <2>1. CASE j \in 1..(Len(sent) - base)
    <3>1. /\ from + 2 * j - 1 \in 1..Len(s) /\ from + 2 * j \in 1..Len(s)
          /\ base + j \in 1..Len(sent)
      <4>1. Len(s) - from = 2 * (Len(sent) - base) /\ from \in Nat /\ base \in 0..Len(sent)
        BY <1>2
      <4> QED BY ONLY <1>1, <2>1, <4>1
    <3>2. more[base + j] = sent[base + j] /\ t[from + 2 * j - 1] = s[from + 2 * j - 1]
          /\ t[from + 2 * j] = s[from + 2 * j]
      BY <1>3, <1>4, <3>1
    <3> QED BY <1>2, <2>1, <3>2
  <2>2. CASE j = Len(sent) - base + 1
    <3>1. /\ from + 2 * j - 1 = Len(s) + 1 /\ from + 2 * j = Len(s) + 2
          /\ base + j = Len(sent) + 1
      BY <1>1, <1>2, <2>2
    <3> QED BY <1>3, <1>4, <3>1
  <2> QED BY <1>1, <1>2, <1>4, <2>1, <2>2
<1>6. /\ from \in 0..Len(t) /\ base \in 0..Len(more)
      /\ Len(t) - from = 2 * (Len(more) - base)
  BY <1>1, <1>2, <1>3, <1>4
<1>7. Layout(t, from, more, base, FALSE)
  BY <1>5, <1>6 DEF Layout
<1> QED BY <1>7 DEF t, more

\* The end of the stream, with nothing or the start of a frame before it.
LEMMA LayoutEnds ==
  ASSUME NEW s \in Seq(Piece), NEW from \in Nat, NEW sent \in Seq(Event), NEW base \in Nat,
         Layout(s, from, sent, base, FALSE), NEW bytes \in Seq(Piece), Len(bytes) \in {0, 1}
  PROVE  Layout(s \o bytes, from, sent, base, TRUE)
<1> DEFINE t == s \o bytes
<1>1. Len(s) \in Nat /\ Len(sent) \in Nat
  BY LenProperties
<1>2. /\ from \in 0..Len(s) /\ base \in 0..Len(sent)
      /\ Len(s) - from = 2 * (Len(sent) - base)
      /\ \A j \in 1..(Len(sent) - base) :
           /\ s[from + 2 * j - 1] = [event |-> sent[base + j], part |-> 1]
           /\ s[from + 2 * j] = [event |-> sent[base + j], part |-> 2]
  BY DEF Layout
<1>3. /\ Len(t) = Len(s) + Len(bytes)
      /\ \A i \in 1..Len(s) : t[i] = s[i]
  BY ConcatProperties
<1> HIDE DEF t
<1>4. ASSUME NEW j \in 1..(Len(sent) - base)
      PROVE  /\ t[from + 2 * j - 1] = [event |-> sent[base + j], part |-> 1]
             /\ t[from + 2 * j] = [event |-> sent[base + j], part |-> 2]
  <2>1. from + 2 * j - 1 \in 1..Len(s) /\ from + 2 * j \in 1..Len(s)
    BY <1>1, <1>2
  <2> QED BY <1>2, <1>3, <2>1
<1>5. /\ from \in 0..Len(t)
      /\ \/ Len(t) - from = 2 * (Len(sent) - base)
         \/ TRUE /\ Len(t) - from = 2 * (Len(sent) - base) + 1
  <2>1. CASE Len(bytes) = 0
    BY <1>1, <1>2, <1>3, <2>1
  <2>2. CASE Len(bytes) = 1
    BY <1>1, <1>2, <1>3, <2>2
  <2> QED BY <2>1, <2>2
<1>6. Layout(t, from, sent, base, TRUE)
  BY <1>2, <1>4, <1>5, Zenon DEF Layout
<1> QED BY <1>6 DEF t

-----------------------------------------------------------------------------
(* Decoding. *)

\* The new state of a connection goes on where the old one, still open, was.
Continues(old_conn, new_conn) ==
  /\ \A r \in Seq(Piece), from \in Nat, base \in Nat :
       Layout(r \o old_conn.bytes, from, old_conn.sent, base, FALSE)
         => Layout(r \o new_conn.bytes, from, new_conn.sent, base, new_conn.closed)
  /\ \A k \in 1..Len(old_conn.sent) : new_conn.sent[k] = old_conn.sent[k]

\* A write goes on where the stream was.
LEMMA WriteContinues ==
  ASSUME NEW conn \in Conn, conn.closed = FALSE, NEW e \in Event
  PROVE  Continues(conn, Written(conn, e))
<1> DEFINE new == Written(conn, e)
<1>1. conn.bytes \in Seq(Piece) /\ conn.sent \in Seq(Event) /\ Pieces(e) \in Seq(Piece)
  BY PiecesOfEvent DEF Conn
<1>2. /\ new.bytes = conn.bytes \o Pieces(e) /\ new.sent = Append(conn.sent, e)
      /\ new.closed = FALSE
  BY WrittenConn
<1> HIDE DEF new
<1>3. ASSUME NEW r \in Seq(Piece), NEW from \in Nat, NEW base \in Nat,
             Layout(r \o conn.bytes, from, conn.sent, base, FALSE)
      PROVE  Layout(r \o new.bytes, from, new.sent, base, new.closed)
  <2>1. r \o conn.bytes \in Seq(Piece)
    BY <1>1, ConcatProperties
  <2> DEFINE b == conn.bytes
  <2>2. r \o new.bytes = (r \o b) \o Pieces(e)
    <3>1. r \o new.bytes = r \o (b \o Pieces(e))
      BY <1>2
    <3>2. b \in Seq(Piece)
      BY <1>1
    <3> HIDE DEF b
    <3>3. (r \o b) \o Pieces(e) = r \o (b \o Pieces(e))
      BY <1>1, <3>2, ConcatAssociative
    <3> QED BY <3>1, <3>3
  <2> QED BY <1>1, <1>2, <1>3, <2>1, <2>2, LayoutGrows
<1>4. \A k \in 1..Len(conn.sent) : new.sent[k] = conn.sent[k]
  BY <1>1, <1>2, AppendProperties
<1>5. Continues(conn, new)
  BY <1>3, <1>4 DEF Continues
<1> QED BY <1>5 DEF new

\* A stream that is cut inside a frame goes on where it was.
LEMMA CutContinues ==
  ASSUME NEW conn \in Conn, conn.closed = FALSE, NEW bytes \in Seq(Piece), Len(bytes) \in {0, 1}
  PROVE  Continues(conn, CutOff(conn, bytes))
<1> DEFINE new == CutOff(conn, bytes)
<1>1. conn.bytes \in Seq(Piece) /\ conn.sent \in Seq(Event)
  BY DEF Conn
<1>2. new.bytes = conn.bytes \o bytes /\ new.sent = conn.sent /\ new.closed = TRUE
  BY CutOffConn
<1> HIDE DEF new
<1>3. ASSUME NEW r \in Seq(Piece), NEW from \in Nat, NEW base \in Nat,
             Layout(r \o conn.bytes, from, conn.sent, base, FALSE)
      PROVE  Layout(r \o new.bytes, from, new.sent, base, new.closed)
  <2>1. r \o conn.bytes \in Seq(Piece)
    BY <1>1, ConcatProperties
  <2> DEFINE b == conn.bytes
  <2>2. r \o new.bytes = (r \o b) \o bytes
    <3>1. r \o new.bytes = r \o (b \o bytes)
      BY <1>2
    <3>2. b \in Seq(Piece)
      BY <1>1
    <3> HIDE DEF b
    <3>3. (r \o b) \o bytes = r \o (b \o bytes)
      BY <1>1, <3>2, ConcatAssociative
    <3> QED BY <3>1, <3>3
  <2> QED BY <1>1, <1>2, <1>3, <2>1, <2>2, LayoutEnds
<1>4. \A k \in 1..Len(conn.sent) : new.sent[k] = conn.sent[k]
  BY <1>2
<1>5. Continues(conn, new)
  BY <1>3, <1>4 DEF Continues
<1> QED BY <1>5 DEF new

\* The writer's connection goes on.
LEMMA WriterKeepsStream ==
  ASSUME FlowOK, StreamOK, writer = "up", NEW new \in Conn,
         Continues(conns[Len(conns)], new),
         conns' = [conns EXCEPT ![Len(conns)] = new],
         UNCHANGED <<reader, read_buf, cursor, decoded>>
  PROVE  StreamOK'
<1> DEFINE last == Len(conns)
           was == conns[last]
<1>1. last \in 1..Len(conns) /\ was \in Conn
  BY LastIsConn
<1>2. was.closed = FALSE
  BY <1>1 DEF FlowOK, Conn
<1>3. /\ Len(conns') = Len(conns) /\ conns'[last] = new
      /\ \A c \in 1..Len(conns) : c # last => conns'[c] = conns[c]
  BY LastConn
<1>4. was.bytes \in Seq(Piece) /\ new.bytes \in Seq(Piece) /\ was.sent \in Seq(Event)
  BY <1>1 DEF Conn
<1>5. Untouched(was) => Untouched(new)
  <2>1. <<>> \o was.bytes = was.bytes /\ <<>> \o new.bytes = new.bytes
        /\ <<>> \in Seq(Piece) /\ 0 \in Nat
    BY <1>4, ConcatEmptySeq
  <2>2. Layout(<<>> \o was.bytes, 0, was.sent, 0, FALSE)
          => Layout(<<>> \o new.bytes, 0, new.sent, 0, new.closed)
    BY <2>1 DEF Continues
  <2> QED BY <1>2, <2>1, <2>2 DEF Untouched
<1>6. \A c \in 1..Len(conns') : (c = 1 /\ reader' # "accept") \/ Untouched(conns'[c])
  BY <1>1, <1>3, <1>5 DEF StreamOK
<1>7. ASSUME reader' # "accept"
      PROVE  /\ Layout(read_buf' \o conns'[1].bytes, cursor', conns'[1].sent, Len(decoded'),
                       conns'[1].closed)
             /\ \A k \in 1..Len(decoded') : decoded'[k] = conns'[1].sent[k]
  <2>1. /\ Layout(read_buf \o conns[1].bytes, cursor, conns[1].sent, Len(decoded),
                  conns[1].closed)
        /\ \A k \in 1..Len(decoded) : decoded[k] = conns[1].sent[k]
    BY <1>7 DEF StreamOK
  <2>2. read_buf \in Seq(Piece) /\ cursor \in Nat /\ Len(decoded) \in Nat
    BY LenProperties DEF FlowOK
  <2>3. CASE last = 1
    <3>1. Layout(read_buf \o new.bytes, cursor, new.sent, Len(decoded), new.closed)
      BY <1>2, <2>1, <2>2, <2>3 DEF Continues
    <3>2. Len(decoded) <= Len(was.sent)
      BY <2>1, <2>3, LenProperties, <1>4 DEF Layout
    <3>3. \A k \in 1..Len(decoded) : decoded[k] = new.sent[k]
      BY <1>4, <2>1, <2>2, <2>3, <3>2, LenProperties DEF Continues
    <3> QED BY <1>3, <2>3, <3>1, <3>3
  <2>4. CASE last # 1
    <3>1. 1 \in 1..Len(conns)
      <4> HIDE DEF was
      <4> QED BY <1>1, <2>4
    <3>2. conns'[1] = conns[1]
      BY <1>3, <2>4, <3>1
    <3> QED BY <2>1, <3>2
  <2> QED BY <2>3, <2>4
<1> QED BY <1>6, <1>7 DEF StreamOK, Untouched, Layout

\* Steps that touch neither a connection nor the buffer keep the streams.
LEMMA RestKeepsStream ==
  ASSUME StreamOK, UNCHANGED <<conns, read_buf, cursor, decoded>>,
         reader' = "accept" <=> reader = "accept"
  PROVE  StreamOK'
  BY DEF StreamOK, Untouched, Layout

\* When the reader hangs up, the next connection is still as it was written.
LEMMA HangUpKeepsStream ==
  ASSUME FlowOK, StreamOK, conns # <<>>, HangUp
  PROVE  StreamOK'
<1>1. /\ Len(conns') = Len(conns) - 1 /\ Len(conns) \in Nat
      /\ \A c \in 1..Len(conns') : conns'[c] = conns[c + 1]
  BY HeadTailProperties, LenProperties DEF HangUp, FlowOK
<1>2. ASSUME NEW c \in 1..Len(conns') PROVE Untouched(conns'[c])
  <2>1. c + 1 \in 1..Len(conns) /\ c + 1 # 1
    BY <1>1
  <2>2. Untouched(conns[c + 1])
    BY <2>1 DEF StreamOK
  <2> QED BY <1>1, <2>2
<1>3. reader' = "accept"
  BY DEF HangUp
<1> QED BY <1>2, <1>3 DEF StreamOK, Untouched, Layout

\* Concatenation of pieces is associative.
LEMMA PiecesAssociative ==
  ASSUME NEW s \in Seq(Piece), NEW t \in Seq(Piece), NEW u \in Seq(Piece)
  PROVE  (s \o t) \o u = s \o (t \o u)
  BY ConcatAssociative

\* A read moves bytes from the connection to the buffer and loses none.
LEMMA ReadKeepsStream ==
  ASSUME FlowOK, StreamOK, Read
  PROVE  StreamOK'
<1>1. conns # <<>> /\ conns \in Seq(Conn) /\ conns[1] = Head(conns) /\ conns[1] \in Conn
      /\ 1 \in 1..Len(conns) /\ reader # "accept"
  BY EmptySeq, HeadTailProperties, ElementOfSeq DEF FlowOK, Read
<1>2. ASSUME NEW n \in 1..Len(conns[1].bytes),
             read_buf' = read_buf \o SubSeq(conns[1].bytes, 1, n),
             conns' = [conns EXCEPT ![1].bytes =
                         SubSeq(conns[1].bytes, n + 1, Len(conns[1].bytes))],
             reader' = "decode",
             UNCHANGED <<cursor, decoded>>
      PROVE  StreamOK'
  <2> DEFINE b == conns[1].bytes
             rest == SubSeq(b, n + 1, Len(b))
             new == [conns[1] EXCEPT !.bytes = rest]
  <2>1. b \in Seq(Piece) /\ read_buf \in Seq(Piece)
    BY <1>1 DEF Conn, FlowOK
  <2>2. rest \in Seq(Piece) /\ SubSeq(b, 1, n) \in Seq(Piece)
    BY <2>1, SubSeqProperties
  <2>3. SubSeq(b, 1, n) \o rest = b
    <3>1. Len(b) \in Nat /\ 1 \in 1..Len(b) + 1 /\ n \in (1 - 1)..Len(b) /\ Len(b) \in n..Len(b)
      BY <1>2, <2>1, LenProperties
    <3>2. SubSeq(b, 1, n) \o SubSeq(b, n + 1, Len(b)) = SubSeq(b, 1, Len(b))
      BY <2>1, <3>1, ConcatAdjacentSubSeq
    <3> QED BY <2>1, <3>2, SubSeqFull
  <2>4. conns' = [conns EXCEPT ![1] = new]
    BY <1>2
  <2> HIDE DEF rest
  <2>5. /\ new \in Conn /\ new.bytes = rest /\ new.sent = conns[1].sent
        /\ new.closed = conns[1].closed
    BY <1>1, <2>2 DEF Conn
  <2> HIDE DEF new
  <2>6. /\ Len(conns') = Len(conns) /\ conns'[1] = new
        /\ \A c \in 1..Len(conns) : c # 1 => conns'[c] = conns[c]
    BY <1>1, <2>4, <2>5, ExceptSeq
  <2>7. read_buf' \o conns'[1].bytes = read_buf \o b
    <3> DEFINE p == SubSeq(b, 1, n)
    <3>1. read_buf' \o conns'[1].bytes = (read_buf \o p) \o rest
      BY <1>2, <2>5, <2>6
    <3>2. p \in Seq(Piece) /\ rest \in Seq(Piece) /\ read_buf \in Seq(Piece) /\ p \o rest = b
      BY <2>1, <2>2, <2>3
    <3> HIDE DEF p, b
    <3>3. (read_buf \o p) \o rest = read_buf \o (p \o rest)
      BY <3>2, PiecesAssociative
    <3> QED BY <3>1, <3>2, <3>3
  <2>8. /\ Layout(read_buf' \o conns'[1].bytes, cursor', conns'[1].sent, Len(decoded'),
                  conns'[1].closed)
        /\ \A k \in 1..Len(decoded') : decoded'[k] = conns'[1].sent[k]
    <3>1. /\ Layout(read_buf \o b, cursor, conns[1].sent, Len(decoded), conns[1].closed)
          /\ \A k \in 1..Len(decoded) : decoded[k] = conns[1].sent[k]
      BY <1>1 DEF StreamOK
    <3> QED BY <1>2, <2>5, <2>6, <2>7, <3>1
  <2>9. \A c \in 1..Len(conns') : c = 1 \/ Untouched(conns'[c])
    BY <2>6 DEF StreamOK
  <2> QED BY <1>2, <2>8, <2>9 DEF StreamOK, Untouched, Layout
<1>3. CASE HangUp
  BY <1>1, <1>3, HangUpKeepsStream
<1> QED BY <1>1, <1>2, <1>3 DEF Read

\* Draining the buffer takes away what is before the cursor and nothing else.
LEMMA DrainKeepsStream ==
  ASSUME FlowOK, StreamOK, reader = "decode", reader' = "read", DrainBatch,
         UNCHANGED <<conns, decoded>>
  PROVE  StreamOK'
<1> DEFINE b == conns[1].bytes
           s == read_buf \o b
           kept == SubSeq(read_buf, cursor + 1, Len(read_buf))
           t == kept \o b
<1>1. /\ conns[1] \in Conn /\ b \in Seq(Piece) /\ conns[1].sent \in Seq(Event)
      /\ conns[1].closed \in BOOLEAN
  <2>1. conns[1] \in Conn
    BY EmptySeq, ElementOfSeq DEF FlowOK
  <2> QED BY <2>1 DEF Conn
<1>2. read_buf \in Seq(Piece) /\ cursor \in 0..Len(read_buf) /\ Len(read_buf) \in Nat
      /\ Len(decoded) \in Nat /\ Len(b) \in Nat
  BY <1>1, LenProperties DEF FlowOK
<1>3. /\ kept \in Seq(Piece) /\ Len(kept) = Len(read_buf) - cursor
      /\ \A i \in 1..Len(kept) : kept[i] = read_buf[cursor + i]
  <2>1. \A i \in (cursor + 1)..Len(read_buf) : read_buf[i] \in Piece
    BY <1>2, ElementOfSeq
  <2>2. /\ kept \in Seq(Piece)
        /\ Len(kept) = IF cursor + 1 <= Len(read_buf) THEN Len(read_buf) - (cursor + 1) + 1 ELSE 0
        /\ \A i \in 1..(Len(read_buf) - (cursor + 1) + 1) :
             kept[i] = read_buf[cursor + 1 + i - 1]
    BY <1>2, <2>1, SubSeqProperties
  <2> HIDE DEF kept
  <2>3. Len(kept) = Len(read_buf) - cursor
    BY <1>2, <2>2
  <2>4. ASSUME NEW i \in 1..Len(kept) PROVE kept[i] = read_buf[cursor + i]
    <3>1. i \in 1..(Len(read_buf) - (cursor + 1) + 1) /\ cursor + 1 + i - 1 = cursor + i
      BY <1>2, <2>3
    <3> QED BY <2>2, <3>1
  <2> QED BY <2>2, <2>3, <2>4
<1> HIDE DEF kept
<1>4. s \in Seq(Piece) /\ t \in Seq(Piece) /\ Len(s) = Len(read_buf) + Len(b)
      /\ Len(t) = Len(kept) + Len(b)
  BY <1>1, <1>2, <1>3, ConcatIndices
<1>5. ASSUME NEW i \in 1..Len(t) PROVE t[i] = s[cursor + i]
  <2>1. CASE i <= Len(kept)
    <3>1. i \in 1..Len(kept) /\ cursor + i \in 1..Len(read_buf)
      BY <1>2, <1>3, <2>1
    <3>2. t[i] = kept[i] /\ s[cursor + i] = read_buf[cursor + i]
      BY <1>1, <1>2, <1>3, <3>1, ConcatIndices
    <3> QED BY <1>3, <3>1, <3>2
  <2>2. CASE i > Len(kept)
    <3> DEFINE j == i - Len(kept)
    <3>1. j \in 1..Len(b) /\ i = Len(kept) + j /\ cursor + i = Len(read_buf) + j
      BY <1>2, <1>3, <1>4, <2>2
    <3> HIDE DEF j
    <3>2. t[Len(kept) + j] = b[j] /\ s[Len(read_buf) + j] = b[j]
      BY <1>1, <1>2, <1>3, <3>1, ConcatIndices
    <3> QED BY <3>1, <3>2
  <2> QED BY <1>2, <1>3, <2>1, <2>2
<1>6. Layout(s, cursor, conns[1].sent, Len(decoded), conns[1].closed)
  BY DEF StreamOK
<1>7. Len(t) = Len(s) - cursor
  BY <1>2, <1>3, <1>4
<1>8. Layout(t, 0, conns[1].sent, Len(decoded), conns[1].closed)
  <2> HIDE DEF s, t
  <2>1. cursor \in Nat
    BY <1>2
  <2> QED BY <1>1, <1>2, <1>4, <1>5, <1>6, <1>7, <2>1, LayoutMoves
<1>9. read_buf' \o conns'[1].bytes = t /\ cursor' = 0
  BY DEF DrainBatch, kept
<1>10. Layout(read_buf' \o conns'[1].bytes, cursor', conns'[1].sent, Len(decoded'),
              conns'[1].closed)
  BY <1>8, <1>9
<1> QED BY <1>10 DEF StreamOK, Untouched, Layout

\* A frame that is decoded is the next event of the connection.
LEMMA FrameKeepsStream ==
  ASSUME FlowOK, StreamOK, reader = "decode", reader' # "accept", WholeFrame,
         decoded' = Append(decoded, AtCursor.event), cursor' = cursor + 2,
         UNCHANGED <<conns, read_buf>>
  PROVE  StreamOK'
<1> DEFINE b == conns[1].bytes
           s == read_buf \o b
           sent == conns[1].sent
           closed == conns[1].closed
           base == Len(decoded)
<1>1. b \in Seq(Piece) /\ sent \in Seq(Event) /\ closed \in BOOLEAN
  <2>1. conns[1] \in Conn
    BY EmptySeq, ElementOfSeq DEF FlowOK
  <2> QED BY <2>1 DEF Conn
<1>2. /\ read_buf \in Seq(Piece) /\ cursor \in Nat /\ Len(read_buf) \in Nat /\ base \in Nat
      /\ Len(b) \in Nat /\ decoded \in Seq(Event) /\ Len(read_buf) - cursor > 1
  BY <1>1, LenProperties DEF FlowOK, WholeFrame, Left
<1>3. s \in Seq(Piece) /\ Len(s) = Len(read_buf) + Len(b) /\ Len(s) - cursor > 1
  BY <1>1, <1>2, ConcatIndices
<1>4. s[cursor + 1] = read_buf[cursor + 1]
  BY <1>1, <1>2, ConcatIndices
<1>5. /\ Layout(s, cursor, sent, base, closed)
      /\ \A k \in 1..base : decoded[k] = sent[k]
  BY DEF StreamOK
<1>6. /\ base + 1 \in 1..Len(sent)
      /\ s[cursor + 1] = [event |-> sent[base + 1], part |-> 1]
      /\ Layout(s, cursor + 2, sent, base + 1, closed)
  <2>1. /\ s \in Seq(Piece) /\ cursor \in Nat /\ sent \in Seq(Event) /\ base \in Nat
        /\ closed \in BOOLEAN /\ Layout(s, cursor, sent, base, closed) /\ Len(s) - cursor > 1
    BY <1>1, <1>2, <1>3, <1>5
  <2> HIDE DEF s, sent, base, closed
  <2> QED BY <2>1, LayoutAdvances, Zenon
<1>7. AtCursor.event = sent[base + 1] /\ AtCursor.event \in Event
  BY <1>4, <1>6, FrameAtCursor DEF AtCursor
<1>8. /\ Len(decoded') = base + 1 /\ decoded'[base + 1] = sent[base + 1]
      /\ \A k \in 1..base : decoded'[k] = decoded[k]
  BY <1>2, <1>7, AppendProperties
<1>9. \A k \in 1..Len(decoded') : decoded'[k] = conns'[1].sent[k]
  BY <1>2, <1>5, <1>8
<1>10. Layout(read_buf' \o conns'[1].bytes, cursor', conns'[1].sent, Len(decoded'),
              conns'[1].closed)
  BY <1>6, <1>8
<1> QED BY <1>9, <1>10 DEF StreamOK, Untouched, Layout

\* Every step of the system keeps the streams in order.
LEMMA StreamStep ==
  ASSUME FlowOK, StreamOK, [Next]_vars
  PROVE  StreamOK'
<1>1. ASSUME Connect PROVE StreamOK'
  <2>1. NewConn \in Conn /\ Untouched(NewConn)
    BY DEF NewConn, Conn, Untouched, Layout
  <2>2. /\ Len(conns') = Len(conns) + 1 /\ Len(conns) \in Nat
        /\ conns'[Len(conns) + 1] = NewConn
        /\ \A c \in 1..Len(conns) : conns'[c] = conns[c]
    BY <1>1, <2>1, AppendProperties, LenProperties DEF Connect, FlowOK
  <2>3. UNCHANGED <<reader, read_buf, cursor, decoded>>
    BY <1>1 DEF Connect, input
  <2>4. \A c \in 1..Len(conns') : (c = 1 /\ reader' # "accept") \/ Untouched(conns'[c])
    BY <2>1, <2>2, <2>3 DEF StreamOK
  <2>5. reader' # "accept" => conns'[1] = conns[1]
    BY <2>2, <2>3, EmptySeq DEF FlowOK
  <2>6. reader' # "accept" =>
          /\ Layout(read_buf' \o conns'[1].bytes, cursor', conns'[1].sent, Len(decoded'),
                    conns'[1].closed)
          /\ \A k \in 1..Len(decoded') : decoded'[k] = conns'[1].sent[k]
    BY <2>3, <2>5 DEF StreamOK
  <2> QED BY <2>4, <2>6 DEF StreamOK, Untouched, Layout
<1>2. ASSUME NEW f \in Frame, SendEvent(f) PROVE StreamOK'
  <2> DEFINE e == [id |-> count + 1, kind |-> f[1], form |-> f[2]]
             new == Written(conns[Len(conns)], e)
  <2>1. e \in Event /\ UNCHANGED <<reader, read_buf, cursor, decoded>>
    BY <1>2, FrameEvent DEF FlowOK, SendEvent, input
  <2>2. CASE writer = "up"
    <3>1. conns' = [conns EXCEPT ![Len(conns)] = new]
      BY <1>2, <2>2 DEF SendEvent
    <3> HIDE DEF e
    <3>2. conns[Len(conns)] \in Conn /\ conns[Len(conns)].closed = FALSE
      BY <2>2, LastIsConn DEF FlowOK, Conn
    <3>3. new \in Conn /\ Continues(conns[Len(conns)], new)
      BY <2>1, <3>2, WrittenConn, WriteContinues
    <3> HIDE DEF new
    <3> QED BY <2>1, <2>2, <3>1, <3>3, WriterKeepsStream
  <2>3. CASE writer # "up"
    <3>1. UNCHANGED conns
      BY <1>2, <2>3 DEF SendEvent
    <3> QED BY <2>1, <3>1, RestKeepsStream
  <2> QED BY <2>2, <2>3
<1>3. ASSUME BridgeStops PROVE StreamOK'
  <2>1. UNCHANGED <<reader, read_buf, cursor, decoded>>
    BY <1>3 DEF BridgeStops, input
  <2>2. ASSUME writer = "up", NEW bytes \in Seq(Piece), Len(bytes) \in {0, 1},
               conns' = [conns EXCEPT ![Len(conns)] = CutOff(@, bytes)]
        PROVE  StreamOK'
    <3> DEFINE new == CutOff(conns[Len(conns)], bytes)
    <3>1. conns' = [conns EXCEPT ![Len(conns)] = new]
      BY <2>2
    <3>2. conns[Len(conns)] \in Conn /\ conns[Len(conns)].closed = FALSE
      BY <2>2, LastIsConn DEF FlowOK, Conn
    <3>3. new \in Conn /\ Continues(conns[Len(conns)], new)
      BY <2>2, <3>2, CutOffConn, CutContinues
    <3> HIDE DEF new
    <3> QED BY <2>1, <2>2, <3>1, <3>3, WriterKeepsStream
  <2>3. CASE UNCHANGED conns
    BY <2>1, <2>3, RestKeepsStream
  <2>4. CASE writer = "up" /\ conns' = [conns EXCEPT ![Len(conns)] = CutOff(@, <<>>)]
    <3>1. <<>> \in Seq(Piece) /\ Len(<<>>) = 0
      BY EmptySeq
    <3> QED BY <2>2, <2>4, <3>1
  <2>5. ASSUME writer = "up", count < MaxSent, NEW f \in Frame,
               LET e == [id |-> count + 1, kind |-> f[1], form |-> f[2]]
               IN conns' = [conns EXCEPT
                              ![Len(conns)] = CutOff(@, <<[event |-> e, part |-> 1]>>)]
        PROVE  StreamOK'
    <3> DEFINE e == [id |-> count + 1, kind |-> f[1], form |-> f[2]]
               bytes == <<[event |-> e, part |-> 1]>>
    <3>1. bytes \in Seq(Piece) /\ Len(bytes) = 1
      BY <2>5, FrameEvent, PiecesOfEvent DEF FlowOK
    <3> QED BY <2>2, <2>5, <3>1
  <2> QED BY <1>3, <2>3, <2>4, <2>5 DEF BridgeStops
<1>4. ASSUME Accept PROVE StreamOK'
  <2>1. /\ conns \in Seq(Conn) /\ conns # <<>> /\ 1 \in 1..Len(conns) /\ reader = "accept"
        /\ conns[1].bytes \in Seq(Piece)
    <3>1. conns \in Seq(Conn) /\ conns # <<>> /\ reader = "accept"
      BY <1>4 DEF Accept, FlowOK
    <3>2. 1 \in 1..Len(conns)
      BY <3>1, EmptySeq
    <3>3. conns[1] \in Conn
      BY <3>1, <3>2, ElementOfSeq
    <3> QED BY <3>1, <3>2, <3>3 DEF Conn
  <2>2. Untouched(conns[1])
    BY <2>1 DEF StreamOK
  <2>3. /\ read_buf' = <<>> /\ cursor' = 0 /\ decoded' = <<>> /\ UNCHANGED conns
        /\ reader' = "read"
    BY <1>4 DEF Accept, bridge
  <2>4. read_buf' \o conns'[1].bytes = conns[1].bytes /\ Len(decoded') = 0
    BY <2>1, <2>3, ConcatEmptySeq, EmptySeq
  <2>5. /\ Layout(read_buf' \o conns'[1].bytes, cursor', conns'[1].sent, Len(decoded'),
                  conns'[1].closed)
        /\ \A k \in 1..Len(decoded') : decoded'[k] = conns'[1].sent[k]
    BY <2>2, <2>3, <2>4 DEF Untouched
  <2>6. \A c \in 1..Len(conns') : c = 1 \/ Untouched(conns'[c])
    BY <2>1, <2>3 DEF StreamOK
  <2> QED BY <2>3, <2>5, <2>6 DEF StreamOK, Untouched, Layout
<1>5. ASSUME Decode PROVE StreamOK'
  <2>1. conns # <<>> /\ reader = "decode" /\ waiting = <<>>
    BY <1>5 DEF FlowOK, Decode
  <2>2. CASE DrainBatch /\ reader' = "read" /\ UNCHANGED <<bridge, decoded>>
    BY <2>1, <2>2, DrainKeepsStream DEF bridge
  <2>3. CASE HangUp
    BY <2>1, <2>3, HangUpKeepsStream
  <2>4. CASE /\ WholeFrame
             /\ decoded' = Append(decoded, AtCursor.event)
             /\ cursor' = cursor + 2
             /\ IF Validates(AtCursor.event) THEN ProcessEvent(AtCursor.event)
                ELSE UNCHANGED <<reader, waiting, offered, bus>>
             /\ UNCHANGED <<bridge, old, read_buf, output>>
    <3>1. AtCursor.event \in Event
      BY <2>4, FrameAtCursor
    <3>2. reader' # "accept"
      <4> DEFINE e == AtCursor.event
      <4>1. CASE ProcessEvent(e)
        <5> HIDE DEF e
        <5>1. e \in Event
          BY <3>1 DEF e
        <5> QED BY <2>1, <4>1, <5>1, ProcessResult
      <4>2. CASE UNCHANGED reader
        BY <2>1, <4>2
      <4> QED BY <2>4, <4>1, <4>2
    <3> QED BY <2>1, <2>4, <3>2, FrameKeepsStream DEF bridge
  <2> QED BY <1>5, <2>2, <2>3, <2>4 DEF Decode
<1>6. CASE Age \/ SendCritical \/ Route \/ (\E c \in Consumer : Consume(c)) \/ UNCHANGED vars
  <2>1. UNCHANGED <<conns, read_buf, cursor, decoded>> /\ (reader' = "accept" <=> reader = "accept")
    BY <1>6 DEF Age, SendCritical, Route, Consume, vars, bridge, input
  <2> QED BY <2>1, RestKeepsStream
<1> QED BY <1>1, <1>2, <1>3, <1>4, <1>5, <1>6, ReadKeepsStream
        DEF Next, Bridge, BridgeRx, DataRouter

\* On every connection the events are decoded as they were written, each once and
\* in order, wherever the reads cut the stream (read_and_process_batch).
THEOREM OrderKept == Spec => []DecodedInOrder
<1>1. Init => StreamOK
  BY DEF Init, StreamOK
<1>2. FlowOK /\ StreamOK => DecodedInOrder
  <2> SUFFICES ASSUME FlowOK, StreamOK, reader # "accept"
               PROVE  IsPrefix(decoded, Head(conns).sent)
    BY DEF DecodedInOrder
  <2> DEFINE sent == conns[1].sent
  <2>1. conns # <<>> /\ Head(conns) = conns[1] /\ sent \in Seq(Event) /\ decoded \in Seq(Event)
    <3>1. conns \in Seq(Conn) /\ conns # <<>> /\ decoded \in Seq(Event)
      BY DEF FlowOK
    <3>2. conns[1] \in Conn /\ Head(conns) = conns[1]
      BY <3>1, EmptySeq, ElementOfSeq
    <3> QED BY <3>1, <3>2 DEF Conn
  <2>2. Len(decoded) <= Len(sent) /\ \A k \in 1..Len(decoded) : decoded[k] = sent[k]
    BY <2>1, LenProperties DEF StreamOK, Layout
  <2> HIDE DEF sent
  <2> DEFINE n == Len(decoded)
  <2>3. n \in Nat /\ n <= Len(sent) /\ Len(sent) \in Nat
    BY <2>1, <2>2, LenProperties
  <2>4. /\ SubSeq(sent, 1, n) \in Seq(Event) /\ Len(SubSeq(sent, 1, n)) = n
        /\ \A i \in 1..n : SubSeq(sent, 1, n)[i] = sent[i]
    BY <2>1, <2>3, SubSeqProperties
  <2>5. SubSeq(decoded, 1, n) = decoded
    BY <2>1, SubSeqFull
  <2>6. SubSeq(sent, 1, n) = decoded
    BY <2>1, <2>2, <2>4, SeqEqual
  <2> QED BY <2>1, <2>2, <2>5, <2>6 DEF IsPrefix, sent
<1>3. FlowOK /\ StreamOK /\ [Next]_vars => StreamOK'
  BY StreamStep
<1> QED BY <1>1, <1>2, <1>3, FlowOKHolds, PTL DEF Spec
=============================================================================
