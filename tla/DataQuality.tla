------------------------------ MODULE DataQuality ------------------------------
(***************************************************************************)
(* The data-quality gate: RiskState.monitor_only refuses every entry, and  *)
(* three tasks close it for three reasons.  BridgeRxTask watches the       *)
(* bridge's heartbeats and tells the main loop, which closes and reopens   *)
(* the gate; the metrics task closes it after an SLA hard fail; the        *)
(* SlowLoop closes it when the regime is Risk-Off.  The flag is persisted  *)
(* with the rest of RiskState on every fill, the reasons are not.          *)
(*                                                                         *)
(* A tick of the clock is one period of heartbeat_check (500 ms).          *)
(***************************************************************************)
EXTENDS Integers, Sequences

CONSTANTS
  HeartbeatTimeout,  \* HEARTBEAT_TIMEOUT (1 s), in ticks
  NotifyCap,         \* capacity of the degraded channel
  HardFailTicks,     \* SLA_HARD_FAIL_DURATION_MICROS, in ticks
  RiskOffPossible    \* whether the configured regime limits allow Risk-Off

ASSUME DataQualityAssumption ==
  /\ HeartbeatTimeout \in Nat /\ HardFailTicks \in Nat
  /\ NotifyCap \in Nat /\ NotifyCap >= 2
  /\ RiskOffPossible \in BOOLEAN

VARIABLES
  connected,     \* the task is inside handle_connection
  silence,       \* last_heartbeat.elapsed(), up to one tick past the timeout
  is_degraded,   \* BridgeRxTask.is_degraded
  degraded_rx,   \* the notifications the main loop has not yet received
  smo,           \* system_monitor_only: the main loop closed the gate
  monitor_only,  \* RiskState.monitor_only
  breach,        \* age of consecutive_breach_start, -1 for None
  hard_fail,     \* LatencyTracker.hard_fail_triggered
  saved          \* monitor_only in risk_state.json, FALSE without the file

vars == <<connected, silence, is_degraded, degraded_rx, smo, monitor_only,
          breach, hard_fail, saved>>

bridge == <<connected, silence, is_degraded>>
sla == <<breach, hard_fail>>

-----------------------------------------------------------------------------
(* BridgeRxTask. *)

Silent == silence > HeartbeatTimeout

\* degraded_tx.try_send of true ("lost") or false ("back"): a notification for which there is no room is lost.
Notify(notice) ==
  degraded_rx' = IF Len(degraded_rx) < NotifyCap
                 THEN Append(degraded_rx, notice) ELSE degraded_rx

\* listener.accept: the connection is served inside the select! arm, so
\* heartbeat_check is not polled again before it ends.
Connect ==
  /\ ~connected
  /\ connected' = TRUE
  /\ UNCHANGED <<silence, is_degraded, degraded_rx, smo, monitor_only, sla, saved>>

\* The stream ends, or an event on it cannot be decoded.
Disconnect ==
  /\ connected
  /\ connected' = FALSE
  /\ UNCHANGED <<silence, is_degraded, degraded_rx, smo, monitor_only, sla, saved>>

\* Mutant of RecvHeartbeat: the end of the degradation is not remembered.
RecvHeartbeatStillDegraded ==
  /\ connected
  /\ silence' = 0
  /\ IF is_degraded THEN Notify("back") ELSE UNCHANGED degraded_rx
  /\ UNCHANGED <<connected, is_degraded, smo, monitor_only, sla, saved>>

\* A Heartbeat event arrives, and ends a degradation.
RecvHeartbeat ==
  /\ connected
  /\ silence' = 0
  /\ is_degraded' = FALSE
  /\ IF is_degraded THEN Notify("back") ELSE UNCHANGED degraded_rx
  /\ UNCHANGED <<connected, smo, monitor_only, sla, saved>>

\* Mutant of HeartbeatCheck: the loss is reported on every check.
HeartbeatCheckRepeats ==
  /\ ~connected
  /\ Silent
  /\ is_degraded' = TRUE
  /\ Notify("lost")
  /\ UNCHANGED <<connected, silence, smo, monitor_only, sla, saved>>

\* Mutant of HeartbeatCheck: the loss is noted and not reported.
HeartbeatCheckUnreported ==
  /\ ~connected
  /\ Silent /\ ~is_degraded
  /\ is_degraded' = TRUE
  /\ UNCHANGED <<connected, silence, degraded_rx, smo, monitor_only, sla, saved>>

\* heartbeat_check.tick(), between connections: the first check that finds the
\* bridge silent reports it.
HeartbeatCheck ==
  /\ ~connected
  /\ Silent /\ ~is_degraded
  /\ is_degraded' = TRUE
  /\ Notify("lost")
  /\ UNCHANGED <<connected, silence, smo, monitor_only, sla, saved>>

-----------------------------------------------------------------------------
(* The main loop. *)

\* degraded_rx.recv() = true
MainDegraded ==
  /\ degraded_rx # <<>> /\ Head(degraded_rx) = "lost"
  /\ degraded_rx' = Tail(degraded_rx)
  /\ monitor_only' = TRUE
  /\ smo' = TRUE
  /\ UNCHANGED <<bridge, sla, saved>>

\* Mutant of MainRestored: the gate is opened and remembered as closed.
MainRestoredKeepsFlag ==
  /\ degraded_rx # <<>> /\ Head(degraded_rx) = "back"
  /\ degraded_rx' = Tail(degraded_rx)
  /\ monitor_only' = (monitor_only /\ ~smo)
  /\ UNCHANGED <<bridge, smo, sla, saved>>

\* degraded_rx.recv() = false: the gate is opened if the main loop closed it.
MainRestored ==
  /\ degraded_rx # <<>> /\ Head(degraded_rx) = "back"
  /\ degraded_rx' = Tail(degraded_rx)
  /\ monitor_only' = (monitor_only /\ ~smo)
  /\ smo' = FALSE
  /\ UNCHANGED <<bridge, sla, saved>>

-----------------------------------------------------------------------------
(* The other tasks. *)

\* Mutant of DecisionLog: a P95 within the limit clears the hard fail.
DecisionLogForgives(over) ==
  LET failed == over /\ breach >= HardFailTicks
  IN /\ breach' = IF ~over THEN -1 ELSE IF breach = -1 THEN 0 ELSE breach
     /\ hard_fail' = failed
     /\ monitor_only' = (monitor_only \/ failed)
     /\ UNCHANGED <<bridge, degraded_rx, smo, saved>>

\* The metrics task records a decision; `over` says whether P95 is above 25 ms.
\* Once the limit has been exceeded for the whole duration, every further
\* decision closes the gate.
DecisionLog(over) ==
  LET failed == hard_fail \/ (over /\ breach >= HardFailTicks)
  IN /\ breach' = IF ~over THEN -1 ELSE IF breach = -1 THEN 0 ELSE breach
     /\ hard_fail' = failed
     /\ monitor_only' = (monitor_only \/ failed)
     /\ UNCHANGED <<bridge, degraded_rx, smo, saved>>

\* A Heartbeat of the SlowLoop finds the regime Risk-Off.
SlowHeartbeat ==
  /\ RiskOffPossible
  /\ monitor_only' = TRUE
  /\ UNCHANGED <<bridge, degraded_rx, smo, sla, saved>>

\* The FastLoop persists RiskState on a fill.
SaveOnFill ==
  /\ saved' = monitor_only
  /\ UNCHANGED <<bridge, degraded_rx, smo, monitor_only, sla>>

\* The process dies, or is shut down, and is started again: monitor_only comes
\* from the file, everything else starts anew.
Restart ==
  /\ connected' = FALSE /\ silence' = 0 /\ is_degraded' = FALSE
  /\ degraded_rx' = <<>>
  /\ smo' = FALSE
  /\ monitor_only' = saved
  /\ breach' = -1 /\ hard_fail' = FALSE
  /\ UNCHANGED saved

\* Time passes.  Assumed of the scheduler: the main loop takes a waiting
\* notification within a tick.
ClockTick ==
  /\ degraded_rx = <<>>
  /\ silence' = IF Silent THEN silence ELSE silence + 1
  /\ breach' = IF breach \in 0..(HardFailTicks - 1) THEN breach + 1 ELSE breach
  /\ UNCHANGED <<connected, is_degraded, degraded_rx, smo, monitor_only,
                 hard_fail, saved>>

-----------------------------------------------------------------------------
(* Specification. *)

Init ==
  /\ connected = FALSE /\ silence = 0 /\ is_degraded = FALSE
  /\ degraded_rx = <<>>
  /\ smo = FALSE
  /\ saved = FALSE /\ monitor_only = FALSE
  /\ breach = -1 /\ hard_fail = FALSE

MainLoop == MainDegraded \/ MainRestored

Next ==
  \/ Connect \/ Disconnect \/ RecvHeartbeat \/ HeartbeatCheck
  \/ MainLoop
  \/ \E over \in BOOLEAN : DecisionLog(over)
  \/ SlowHeartbeat \/ SaveOnFill \/ Restart \/ ClockTick

Spec == Init /\ [][Next]_vars

\* The tasks of the runtime are polled as long as they are ready.
FairSpec == Spec /\ WF_vars(HeartbeatCheck) /\ WF_vars(MainLoop) /\ WF_vars(ClockTick)

-----------------------------------------------------------------------------
(* Properties. *)

\* Type invariant.  At most the loss and the return of the heartbeats wait
\* together, in that order, so the channel never drops a notification.
TypeOK ==
  /\ connected \in BOOLEAN /\ is_degraded \in BOOLEAN
  /\ silence \in 0..(HeartbeatTimeout + 1)
  /\ degraded_rx \in {<<>>, <<"lost">>, <<"back">>, <<"lost", "back">>}
  /\ smo \in BOOLEAN /\ monitor_only \in BOOLEAN /\ saved \in BOOLEAN
  /\ breach \in -1..HardFailTicks /\ hard_fail \in BOOLEAN

\* What the main loop will believe when it has read its notifications is what
\* the bridge task believes: the two flags, kept by two tasks and connected by
\* a channel that may drop, do not drift apart.
LastWord ==
  is_degraded <=> IF degraded_rx = <<>> THEN smo
                  ELSE degraded_rx[Len(degraded_rx)] = "lost"

\* As long as the main loop counts the data as degraded the gate is closed,
\* whatever the other tasks, a restart or a saved file did to the flag.
OwnGateClosed == smo => monitor_only

\* An SLA hard fail lasts until the process restarts ("do NOT clear hard_fail
\* until session reset"), however the P95 moves in between.
HardFailLasts == [][hard_fail /\ ~hard_fail' => Restart]_vars

\* A bridge that stays away closes the gate: silence between connections ends
\* in a closed gate, a new connection, or a restart.
AbsenceClosesGate ==
  (Silent /\ ~connected) ~> (monitor_only \/ connected \/ ~Silent)

\* A restoration reaches the main loop: once the heartbeats are back, the main
\* loop stops holding the gate, or they are lost again.
RestorationArrives == (smo /\ ~is_degraded) ~> (~smo \/ is_degraded)

\* The crate's promise: more than a second of silence degrades the data, also
\* while the bridge keeps its connection open.
SilenceDegrades == (Silent /\ connected) ~> (is_degraded \/ ~Silent \/ ~connected)

\* The main loop's comment, "Only auto-restore if WE set it": the main loop
\* does not open a gate that the SLA hard fail holds closed.
OnlyOwnRestore == [][MainRestored => ~(hard_fail /\ monitor_only /\ ~monitor_only')]_vars

\* A gate that no SLA failure and no Risk-Off regime holds is opened again when
\* the heartbeats are back, or new trouble arises.
RestoredGateOpens ==
  (monitor_only /\ connected /\ silence = 0)
     ~> (~monitor_only \/ ~connected \/ Silent \/ hard_fail)
=============================================================================
