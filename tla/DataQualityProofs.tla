--------------------------- MODULE DataQualityProofs ---------------------------
(***************************************************************************)
(* Proofs about DataQuality, for every timeout and channel capacity.       *)
(*                                                                         *)
(* The inductive invariant adds why the channel holds two notifications at *)
(* most: a restoration waits only while the heartbeat that caused it is    *)
(* recent, and a new loss takes a silence that the clock, which waits for  *)
(* the main loop, has not counted yet.                                     *)
(***************************************************************************)
EXTENDS DataQuality, SequenceTheorems, TLAPS

RestorationIsRecent == degraded_rx \in {<<"back">>, <<"lost", "back">>} => ~Silent

IInv == TypeOK /\ LastWord /\ OwnGateClosed /\ RestorationIsRecent

-----------------------------------------------------------------------------
(* The channel, as far as the invariant lets it fill. *)

\* The four contents differ in length or in their first notice.
LEMMA Contents ==
  /\ <<"lost">> # <<>> /\ <<"back">> # <<>> /\ <<"lost", "back">> # <<>>
  /\ <<"lost">> # <<"back">> /\ <<"lost">> # <<"lost", "back">>
  /\ <<"back">> # <<"lost", "back">>
OBVIOUS

\* The second notice in the channel.
LEMMA AppendSecond ==
  ASSUME NEW a, NEW b
  PROVE  Append(<<a>>, b) = <<a, b>>
<1>1. <<a>> \in Seq({a, b}) /\ Len(<<a>>) = 1 /\ <<a, b>> \in Seq({a, b}) /\ Len(<<a, b>>) = 2
  OBVIOUS
<1>2. Append(<<a>>, b) \in Seq({a, b}) /\ Len(Append(<<a>>, b)) = 2
  BY <1>1, AppendProperties
<1>3. Append(<<a>>, b)[1] = a /\ Append(<<a>>, b)[2] = b
  BY <1>1, AppendProperties
<1>4. \A i \in 1..Len(<<a, b>>) : Append(<<a>>, b)[i] = <<a, b>>[i]
  BY <1>1, <1>3
<1> QED BY <1>1, <1>2, <1>4, SeqEqual

\* A loss is reported on an empty channel.
LEMMA NotifyLoss ==
  ASSUME degraded_rx = <<>>, Notify("lost")
  PROVE  degraded_rx' = <<"lost">>
<1>1. Len(<<>>) < NotifyCap
  BY DataQualityAssumption
<1>2. Append(<<>>, "lost") = <<"lost">>
  OBVIOUS
<1> QED BY <1>1, <1>2 DEF Notify

\* A restoration is reported on an empty channel, or after the loss it ends.
LEMMA NotifyReturn ==
  ASSUME degraded_rx \in {<<>>, <<"lost">>}, Notify("back")
  PROVE  degraded_rx' \in {<<"back">>, <<"lost", "back">>}
<1>1. Len(<<>>) < NotifyCap /\ Len(<<"lost">>) < NotifyCap
  BY DataQualityAssumption
<1>2. Append(<<>>, "back") = <<"back">>
  OBVIOUS
<1>3. Append(<<"lost">>, "back") = <<"lost", "back">>
  BY AppendSecond
<1> QED BY <1>1, <1>2, <1>3 DEF Notify

\* What is read from the channel, and what is left of it.
LEMMA Received ==
  ASSUME TypeOK, degraded_rx # <<>>
  PROVE  /\ Head(degraded_rx) = "lost" =>
              \/ degraded_rx = <<"lost">> /\ Tail(degraded_rx) = <<>>
              \/ degraded_rx = <<"lost", "back">> /\ Tail(degraded_rx) = <<"back">>
         /\ Head(degraded_rx) = "back" =>
              degraded_rx = <<"back">> /\ Tail(degraded_rx) = <<>>
<1>1. /\ Head(<<"lost">>) = "lost" /\ Tail(<<"lost">>) = <<>>
      /\ Head(<<"back">>) = "back" /\ Tail(<<"back">>) = <<>>
      /\ Head(<<"lost", "back">>) = "lost" /\ Tail(<<"lost", "back">>) = <<"back">>
  OBVIOUS
<1> QED BY <1>1 DEF TypeOK

\* The last word of the channel, case by case.
LastSays ==
  /\ degraded_rx = <<>> => (is_degraded <=> smo)
  /\ degraded_rx = <<"lost">> => is_degraded
  /\ degraded_rx \in {<<"back">>, <<"lost", "back">>} => ~is_degraded

\* The case analysis says the same as the invariant.
LEMMA LastWordCases ==
  ASSUME TypeOK
  PROVE  LastWord <=> LastSays
<1>1. /\ <<"lost">>[Len(<<"lost">>)] = "lost"
      /\ <<"back">>[Len(<<"back">>)] = "back"
      /\ <<"lost", "back">>[Len(<<"lost", "back">>)] = "back"
  OBVIOUS
<1> QED BY <1>1, Contents DEF TypeOK, LastWord, LastSays

-----------------------------------------------------------------------------
\* The runtime starts with an open gate and an empty channel.
LEMMA InitInv == Init => IInv
<1> SUFFICES ASSUME Init PROVE IInv
  OBVIOUS
<1>1. TypeOK
  <2>1. silence \in 0..(HeartbeatTimeout + 1) /\ breach \in -1..HardFailTicks
    BY DataQualityAssumption DEF Init
  <2> QED BY <2>1, Zenon DEF Init, TypeOK
<1>2. LastSays /\ OwnGateClosed /\ RestorationIsRecent
  BY Contents DEF Init, LastSays, OwnGateClosed, RestorationIsRecent
<1> QED BY <1>1, <1>2, LastWordCases DEF IInv

\* What a step must keep, with the last word case by case.
Kept == TypeOK /\ LastSays /\ OwnGateClosed /\ RestorationIsRecent

\* A heartbeat that ends a degradation finds an empty channel or the loss.
LEMMA RecvHeartbeatKeeps == ASSUME Kept, RecvHeartbeat PROVE Kept'
<1> USE DEF Kept
<1>1. HeartbeatTimeout \in Nat
  BY DataQualityAssumption
<1>2. ~Silent' /\ UNCHANGED <<connected, smo, monitor_only, sla, saved>> /\ ~is_degraded'
      /\ silence' = 0 /\ is_degraded' = FALSE
  BY <1>1 DEF RecvHeartbeat, Silent
<1>3. CASE is_degraded
  <2>1. degraded_rx \in {<<>>, <<"lost">>}
    BY <1>3 DEF TypeOK, LastSays
  <2>2. degraded_rx' \in {<<"back">>, <<"lost", "back">>}
    BY <1>3, <2>1, NotifyReturn DEF RecvHeartbeat
  <2>3. TypeOK'
    <3>1. silence' \in 0..(HeartbeatTimeout + 1)
      BY <1>1, <1>2
    <3> QED BY <1>2, <2>2, <3>1 DEF TypeOK, sla
  <2>4. LastSays'
    BY <1>2, <2>2, Contents DEF LastSays
  <2> QED BY <1>2, <2>3, <2>4 DEF OwnGateClosed, RestorationIsRecent
<1>4. CASE ~is_degraded
  <2>1. UNCHANGED degraded_rx
    BY <1>4 DEF RecvHeartbeat
  <2>2. TypeOK'
    <3>1. silence' \in 0..(HeartbeatTimeout + 1)
      BY <1>1, <1>2
    <3> QED BY <1>2, <2>1, <3>1 DEF TypeOK, sla
  <2>3. LastSays'
    BY <1>2, <1>4, <2>1 DEF LastSays, TypeOK
  <2> QED BY <1>2, <2>2, <2>3 DEF OwnGateClosed, RestorationIsRecent
<1> QED BY <1>3, <1>4

\* A check that finds the bridge silent finds the channel empty.
LEMMA HeartbeatCheckKeeps == ASSUME Kept, HeartbeatCheck PROVE Kept'
<1> USE DEF Kept
<1>1. degraded_rx = <<>>
  BY DEF HeartbeatCheck, TypeOK, LastSays, RestorationIsRecent
<1>2. degraded_rx' = <<"lost">>
  BY <1>1, NotifyLoss DEF HeartbeatCheck
<1>3. is_degraded' = TRUE /\ UNCHANGED <<connected, silence, smo, monitor_only, sla, saved>>
  BY DEF HeartbeatCheck
<1>4. TypeOK'
  BY <1>2, <1>3 DEF TypeOK, sla
<1>5. LastSays'
  BY <1>2, <1>3, Contents DEF LastSays
<1>6. RestorationIsRecent'
  BY <1>2, Contents DEF RestorationIsRecent
<1> QED BY <1>3, <1>4, <1>5, <1>6 DEF OwnGateClosed

\* The main loop takes over what the notice says.
LEMMA MainLoopKeeps == ASSUME Kept, MainLoop PROVE Kept'
<1> USE DEF Kept
<1>1. CASE MainDegraded
  <2>1. degraded_rx' = Tail(degraded_rx) /\ monitor_only' = TRUE /\ smo' = TRUE
        /\ UNCHANGED <<bridge, sla, saved>>
    BY <1>1 DEF MainDegraded
  <2>2. \/ degraded_rx = <<"lost">> /\ degraded_rx' = <<>>
        \/ degraded_rx = <<"lost", "back">> /\ degraded_rx' = <<"back">>
    BY <1>1, <2>1, Received DEF MainDegraded
  <2>3. TypeOK'
    BY <2>1, <2>2 DEF TypeOK, bridge, sla
  <2>4. LastSays'
    BY <2>1, <2>2, Contents DEF LastSays, bridge
  <2>5. RestorationIsRecent'
    BY <2>1, <2>2, Contents DEF RestorationIsRecent, Silent, bridge
  <2> QED BY <2>1, <2>3, <2>4, <2>5 DEF OwnGateClosed
<1>2. CASE MainRestored
  <2>1. degraded_rx' = Tail(degraded_rx) /\ monitor_only' \in BOOLEAN /\ smo' = FALSE
        /\ UNCHANGED <<bridge, sla, saved>>
    BY <1>2 DEF MainRestored
  <2>2. degraded_rx = <<"back">> /\ degraded_rx' = <<>>
    BY <1>2, <2>1, Received DEF MainRestored
  <2>3. TypeOK'
    BY <2>1, <2>2 DEF TypeOK, bridge, sla
  <2>4. LastSays'
    BY <2>1, <2>2, Contents DEF LastSays, bridge, TypeOK
  <2>5. RestorationIsRecent'
    BY <2>2, Contents DEF RestorationIsRecent
  <2> QED BY <2>1, <2>3, <2>4, <2>5 DEF OwnGateClosed
<1> QED BY <1>1, <1>2 DEF MainLoop

\* A restart empties the channel and forgets who closed the gate.
LEMMA RestartKeeps == ASSUME Kept, Restart PROVE Kept'
<1> USE DEF Kept
<1>1. TypeOK'
  <2>1. silence' \in 0..(HeartbeatTimeout + 1) /\ breach' \in -1..HardFailTicks
    BY DataQualityAssumption DEF Restart
  <2> QED BY <2>1, Zenon DEF Restart, TypeOK
<1> QED BY <1>1, Contents DEF Restart, LastSays, OwnGateClosed, RestorationIsRecent

\* The clock waits for an empty channel.
LEMMA ClockTickKeeps == ASSUME Kept, ClockTick PROVE Kept'
<1> USE DEF Kept
<1>1. HeartbeatTimeout \in Nat /\ HardFailTicks \in Nat
  BY DataQualityAssumption
<1>2. degraded_rx' = <<>> /\ degraded_rx = <<>>
      /\ UNCHANGED <<connected, is_degraded, smo, monitor_only, hard_fail, saved>>
  BY DEF ClockTick
<1>3. silence' \in 0..(HeartbeatTimeout + 1) /\ breach' \in -1..HardFailTicks
  BY <1>1 DEF ClockTick, TypeOK, Silent
<1>4. TypeOK'
  BY <1>2, <1>3 DEF TypeOK
<1> QED BY <1>2, <1>4, Contents DEF LastSays, OwnGateClosed, RestorationIsRecent

\* The steps of the other tasks leave the channel and both its ends alone, and
\* never open the gate.
LEMMA OtherTasksKeep ==
  ASSUME Kept, TypeOK', UNCHANGED <<silence, is_degraded, degraded_rx, smo>>,
         monitor_only => monitor_only'
  PROVE  Kept'
BY DEF Kept, LastSays, OwnGateClosed, RestorationIsRecent, Silent

\* Every step keeps the invariant.
LEMMA NextInv == IInv /\ [Next]_vars => IInv'
<1> SUFFICES ASSUME IInv, [Next]_vars PROVE IInv'
  OBVIOUS
<1>1. Kept
  BY LastWordCases DEF IInv, Kept
<1>2. HardFailTicks \in Nat
  BY DataQualityAssumption
<1>3. ASSUME Connect \/ Disconnect \/ SlowHeartbeat \/ SaveOnFill \/ UNCHANGED vars
      PROVE  Kept'
  <2>1. TypeOK'
    BY <1>1, <1>3 DEF Kept, Connect, Disconnect, SlowHeartbeat, SaveOnFill, vars, TypeOK,
       bridge, sla
  <2>2. UNCHANGED <<silence, is_degraded, degraded_rx, smo>> /\ (monitor_only => monitor_only')
    BY <1>3 DEF Connect, Disconnect, SlowHeartbeat, SaveOnFill, vars, bridge, sla
  <2> QED BY <1>1, <2>1, <2>2, OtherTasksKeep
<1>4. ASSUME \E over \in BOOLEAN : DecisionLog(over)
      PROVE  Kept'
  <2>1. PICK over \in BOOLEAN : DecisionLog(over)
    BY <1>4
  <2>2. breach' \in -1..HardFailTicks
    BY <1>1, <1>2, <2>1 DEF DecisionLog, Kept, TypeOK
  <2>3. hard_fail' \in BOOLEAN /\ monitor_only' \in BOOLEAN /\ (monitor_only => monitor_only')
        /\ UNCHANGED <<connected, silence, is_degraded, degraded_rx, smo, saved>>
    BY <2>1 DEF DecisionLog, bridge
  <2>4. TypeOK'
    BY <1>1, <2>2, <2>3 DEF Kept, TypeOK
  <2> QED BY <1>1, <2>3, <2>4, OtherTasksKeep
<1>5. Kept'
  BY <1>1, <1>3, <1>4, RecvHeartbeatKeeps, HeartbeatCheckKeeps, MainLoopKeeps,
     RestartKeeps, ClockTickKeeps DEF Next
<1>6. LastWord'
  <2>1. TypeOK' => (LastWord' <=> LastSays')
    BY LastWordCases, PTL
  <2> QED BY <1>5, <2>1 DEF Kept
<1> QED BY <1>5, <1>6 DEF Kept, IInv

-----------------------------------------------------------------------------
(* Theorems. *)

\* The invariant holds of every behaviour.
THEOREM GateInvariant == Spec => []IInv
BY InitInv, NextInv, PTL DEF Spec

\* Types; and the channel never holds more than a loss and its end, so no
\* notification is ever dropped whatever its capacity, if that is two or more.
THEOREM GateTypeCorrect == Spec => []TypeOK
BY GateInvariant, PTL DEF IInv

\* The bridge task's flag and the main loop's agree up to what is in the channel.
THEOREM FlagsAgree == Spec => []LastWord
BY GateInvariant, PTL DEF IInv

\* While the main loop counts the data as degraded no entry passes the gate.
THEOREM DegradedClosesGate == Spec => []OwnGateClosed
BY GateInvariant, PTL DEF IInv

\* Only a restart forgives an SLA hard fail.
THEOREM HardFailStays == Spec => HardFailLasts
<1>1. ASSUME [Next]_vars PROVE [hard_fail /\ ~hard_fail' => Restart]_vars
  BY <1>1 DEF Next, Connect, Disconnect, RecvHeartbeat, HeartbeatCheck, MainLoop,
     MainDegraded, MainRestored, DecisionLog, SlowHeartbeat, SaveOnFill, ClockTick,
     vars, bridge, sla
<1> QED BY <1>1, PTL DEF Spec, HardFailLasts
=============================================================================
