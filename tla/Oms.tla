---------------------------------- MODULE Oms ----------------------------------
(***************************************************************************)
(* The order management system: execution_engine's OrderManagementSystem   *)
(* together with the app_runtime task that owns it.                        *)
(*                                                                         *)
(* The task is one loop over tokio::select!; an arm runs to completion     *)
(* before the next is chosen.  Arms without a loop are one action.  The    *)
(* two arms that loop (the 30 s tick and the reconciliation of a           *)
(* StateSync) are one action per iteration; `arm' holds the task inside    *)
(* the loop until it is finished, so no other arm can run in between, but  *)
(* the bridge may.                                                         *)
(*                                                                         *)
(* The environment is open: commands, fills, reports and snapshots are any *)
(* the constants admit.  OrderFlow closes it with the bridge and a broker. *)
(*                                                                         *)
(* Time: the code compares `now - created_at' and `now - updated_at' with  *)
(* thresholds and nothing else, so an order carries the two differences,   *)
(* as counters of clock ticks that saturate above every threshold.         *)
(* Prices and averages are in TradeAccounting.                             *)
(***************************************************************************)
EXTENDS Naturals, Sequences

CONSTANTS
  Key,            \* idempotency keys the runtime generates
  NoKey,          \* the empty client_order_id of an order placed by hand
  BrokerId,       \* ids the broker gives to orders
  NoBroker,       \* broker_order_id = None
  OrderQty,       \* the quantity of every order
  MaxId,          \* bound: internal ids are 1 .. MaxId
  MaxFilled,      \* bound on filled_qty (an order can be over-filled)
  MaxSock,        \* datagrams the command socket holds
  MaxSync,        \* bound on the open orders of one StateSync
  MaxAge,         \* where the age counters saturate
  FillTimeout,    \* the heartbeat's 5 s, in clock ticks
  OrderTimeout,   \* the tick's 30 s
  CancelTimeout,  \* config.execution.cancel_timeout_ms
  Lags,           \* how old ts_rx can be when the task handles the event
  FillSizes,      \* sizes of a fill
  ReportStatus,   \* statuses an OrderStatus event reports
  SyncStatus,     \* statuses of the orders in a StateSync
  SyncFilled      \* filled quantities of the orders in a StateSync

OrderStatus == {"Pending", "Live", "Filled", "Cancelled", "Rejected",
                "PendingCancel", "CancelSent", "CancelRejected", "CancelTimeout"}

ASSUME OmsAssumption ==
  /\ NoKey \notin Key
  /\ NoBroker \notin BrokerId
  /\ OrderQty \in Nat \ {0}
  /\ MaxId \in Nat /\ MaxFilled \in Nat /\ MaxSock \in Nat /\ MaxSync \in Nat
  /\ MaxAge \in Nat
  /\ FillTimeout \in 0 .. MaxAge - 1
  /\ OrderTimeout \in 0 .. MaxAge - 1
  /\ CancelTimeout \in 0 .. MaxAge - 1
  /\ Lags \subseteq 0 .. MaxAge
  /\ FillSizes \subseteq Nat \ {0}
  /\ ReportStatus \subseteq OrderStatus
  /\ SyncStatus \subseteq OrderStatus
  /\ SyncFilled \subseteq 0 .. MaxFilled

VARIABLES
  orders,             \* internal id -> order
  idempotency_cache,  \* idempotency key -> internal id
  broker_map,         \* broker id -> internal id
  next_order_id,
  cmd_sock,           \* rps_commands.sock: commands sent, not yet read
  arm,                \* the select! arm that is running
  timeouts,           \* the tick arm: timed-out orders still to cancel
  open_orders,        \* the sync arm: broker orders still to process
  broker_order_ids    \* the sync arm: broker ids processed so far

maps == <<idempotency_cache, broker_map, next_order_id>>
loop == <<arm, timeouts, open_orders, broker_order_ids>>
vars == <<orders, maps, cmd_sock, loop>>

Id == 1 .. MaxId
Age == 0 .. MaxAge

Order ==
  [client: Key \cup {NoKey}, broker: BrokerId \cup {NoBroker},
   filled: 0 .. MaxFilled, status: OrderStatus, created: Age, updated: Age]

\* An open order as the broker lists it in a StateSync.
SyncOrder ==
  [client: Key \cup {NoKey}, broker: BrokerId \cup {NoBroker},
   filled: SyncFilled, status: SyncStatus, created: Lags]

Command ==
  [type: {"NewOrder"}, key: Key] \cup [type: {"CancelOrder"}, id: Id]

\* HashMap::insert
Insert(f, k, v) == [x \in DOMAIN f \cup {k} |-> IF x = k THEN v ELSE f[x]]

Open(o) == o.status \in {"Pending", "Live"}
Cancelling(o) == o.status \in {"PendingCancel", "CancelSent"}

OpenIds == {i \in DOMAIN orders : Open(orders[i])}
CancellingIds == {i \in DOMAIN orders : Cancelling(orders[i])}

\* send_command: a datagram is queued, or the call fails (no bridge, no room).
Send(c, ok) ==
  IF ok
  THEN Len(cmd_sock) < MaxSock /\ cmd_sock' = Append(cmd_sock, c)
  ELSE UNCHANGED cmd_sock

-----------------------------------------------------------------------------
(* Commands of the strategy. *)

\* Mutant of PlaceOrder: the id is not advanced.
PlaceOrderSameId(k) ==
  IF k \in DOMAIN idempotency_cache
  THEN UNCHANGED <<orders, maps>>
  ELSE /\ next_order_id \in Id
       /\ orders' = Insert(orders, next_order_id,
                      [client |-> k, broker |-> NoBroker, filled |-> 0,
                       status |-> "Pending", created |-> 0, updated |-> 0])
       /\ idempotency_cache' = Insert(idempotency_cache, k, next_order_id)
       /\ UNCHANGED <<next_order_id, broker_map>>

PlaceOrder(k) ==
  IF k \in DOMAIN idempotency_cache
  THEN UNCHANGED <<orders, maps>>
  ELSE /\ next_order_id \in Id
       /\ orders' = Insert(orders, next_order_id,
                      [client |-> k, broker |-> NoBroker, filled |-> 0,
                       status |-> "Pending", created |-> 0, updated |-> 0])
       /\ idempotency_cache' = Insert(idempotency_cache, k, next_order_id)
       /\ next_order_id' = next_order_id + 1
       /\ UNCHANGED broker_map

\* The NewOrder arm forwards the command whether or not the key was new.
NewOrder(k, ok) ==
  /\ arm = "select"
  /\ PlaceOrder(k)
  /\ Send([type |-> "NewOrder", key |-> k], ok)
  /\ UNCHANGED loop

\* cancel_order answered Ok(true); then send_command and mark_cancel_sent.
RequestCancel(i, ok) ==
  /\ Open(orders[i])
  /\ Send([type |-> "CancelOrder", id |-> i], ok)
  /\ orders' = [orders EXCEPT
                 ![i].status = IF ok THEN "CancelSent" ELSE "PendingCancel",
                 ![i].updated = 0]

CancelOrder(i, ok) ==
  /\ arm = "select"
  /\ i \in DOMAIN orders
  /\ RequestCancel(i, ok)
  /\ UNCHANGED <<maps, loop>>

-----------------------------------------------------------------------------
(* Events of the bridge. *)

\* handle_ack: the broker named the order.  Each broker id names one order.
Ack(i, b) ==
  /\ arm = "select"
  /\ i \in DOMAIN orders
  /\ b \in DOMAIN broker_map => broker_map[b] = i
  /\ orders' = [orders EXCEPT ![i].broker = b,
                  ![i].status = IF @ = "Pending" THEN "Live" ELSE @]
  /\ broker_map' = Insert(broker_map, b, i)
  /\ UNCHANGED <<idempotency_cache, next_order_id, cmd_sock, loop>>

\* Mutant of FillStatus: off by one.
FillStatusEarly(filled) == IF filled + 1 >= OrderQty THEN "Filled" ELSE "Live"

FillStatus(filled) == IF filled >= OrderQty THEN "Filled" ELSE "Live"

\* Mutant of Fill: a fill of an order that is closed here is ignored.
FillOfClosedIgnored(i, size, lag) ==
  /\ arm = "select"
  /\ i \in DOMAIN orders
  /\ orders[i].filled + size \in 0 .. MaxFilled
  /\ orders' = IF ~Open(orders[i]) /\ ~Cancelling(orders[i]) THEN orders
               ELSE [orders EXCEPT
                      ![i].filled = @ + size,
                      ![i].status = FillStatus(orders[i].filled + size),
                      ![i].updated = lag]
  /\ UNCHANGED <<maps, cmd_sock, loop>>

Fill(i, size, lag) ==
  /\ arm = "select"
  /\ i \in DOMAIN orders
  /\ orders[i].filled + size \in 0 .. MaxFilled
  /\ orders' = [orders EXCEPT
                 ![i].filled = @ + size,
                 ![i].status = FillStatus(orders[i].filled + size),
                 ![i].updated = lag]
  /\ UNCHANGED <<maps, cmd_sock, loop>>

Status(i, status, filled, lag) ==
  /\ arm = "select"
  /\ i \in DOMAIN orders
  /\ orders' = [orders EXCEPT ![i].status = status, ![i].filled = filled,
                              ![i].updated = lag]
  /\ UNCHANGED <<maps, cmd_sock, loop>>

CancelAck(i, lag) ==
  /\ arm = "select"
  /\ i \in DOMAIN orders
  /\ Cancelling(orders[i]) \/ orders[i].status = "CancelTimeout"
  /\ orders' = [orders EXCEPT ![i].status = "Cancelled", ![i].updated = lag]
  /\ UNCHANGED <<maps, cmd_sock, loop>>

CancelReject(i, lag) ==
  /\ arm = "select"
  /\ i \in DOMAIN orders
  /\ Cancelling(orders[i])
  /\ orders' = [orders EXCEPT ![i].status = "CancelRejected", ![i].updated = lag]
  /\ UNCHANGED <<maps, cmd_sock, loop>>

\* Mutants of TimedOut: closed orders too; orders that never went live only.
AnyTimedOut(o, timeout) == o.created > timeout
PendingTimedOut(o, timeout) == o.status = "Pending" /\ o.created > timeout

\* find_timed_out_orders: an unconfirmed order is marked Rejected; nothing is sent.
TimedOut(o, timeout) == Open(o) /\ o.created > timeout

Heartbeat ==
  /\ arm = "select"
  /\ orders' = [i \in DOMAIN orders |->
                 IF TimedOut(orders[i], FillTimeout)
                 THEN [orders[i] EXCEPT !.status = "Rejected"] ELSE orders[i]]
  /\ UNCHANGED <<maps, cmd_sock, loop>>

-----------------------------------------------------------------------------
(* The 30 s tick: cancel what is too old, then escalate unanswered cancels. *)

TimeoutTick ==
  /\ arm = "select"
  /\ arm' = "timeout"
  /\ timeouts' = {i \in DOMAIN orders : TimedOut(orders[i], OrderTimeout)}
  /\ UNCHANGED <<orders, maps, cmd_sock, open_orders, broker_order_ids>>

CancelTimedOut(i, ok) ==
  /\ arm = "timeout"
  /\ i \in timeouts
  /\ RequestCancel(i, ok)
  /\ timeouts' = timeouts \ {i}
  /\ UNCHANGED <<maps, arm, open_orders, broker_order_ids>>

\* Mutant of CancelOverdue: a cancel that was never sent is not escalated.
SentCancelOverdue(o) == o.status = "CancelSent" /\ o.updated > CancelTimeout

CancelOverdue(o) == Cancelling(o) /\ o.updated > CancelTimeout

CheckCancelTimeouts ==
  /\ arm = "timeout"
  /\ timeouts = {}
  /\ orders' = [i \in DOMAIN orders |->
                 IF CancelOverdue(orders[i])
                 THEN [orders[i] EXCEPT !.status = "CancelTimeout"]
                 ELSE orders[i]]
  /\ arm' = "select"
  /\ UNCHANGED <<maps, cmd_sock, timeouts, open_orders, broker_order_ids>>

-----------------------------------------------------------------------------
(* StateSync: reconcile_state. *)

\* The bound keeps room for one import per listed order.
StateSync(list) ==
  /\ arm = "select"
  /\ next_order_id + Len(list) \in 1 .. MaxId + 1
  /\ arm' = "sync"
  /\ open_orders' = list
  /\ broker_order_ids' = {}
  /\ UNCHANGED <<orders, maps, cmd_sock, timeouts>>

MatchByBrokerId(o) ==
  /\ o.broker \in DOMAIN broker_map
  /\ orders' = [orders EXCEPT ![broker_map[o.broker]].status = o.status,
                              ![broker_map[o.broker]].filled = o.filled]
  /\ UNCHANGED maps

\* Mutant of MatchByKey: the broker's id is not entered in broker_map.
MatchByKeyUnmapped(o) ==
  /\ o.broker \notin DOMAIN broker_map
  /\ o.client \in DOMAIN idempotency_cache
  /\ LET i == idempotency_cache[o.client]
     IN orders' = [orders EXCEPT ![i].broker = o.broker,
                     ![i].status = o.status, ![i].filled = o.filled]
  /\ UNCHANGED maps

MatchByKey(o) ==
  /\ o.broker \notin DOMAIN broker_map
  /\ o.client \in DOMAIN idempotency_cache
  /\ LET i == idempotency_cache[o.client]
     IN /\ orders' = [orders EXCEPT ![i].broker = o.broker,
                        ![i].status = o.status, ![i].filled = o.filled]
        /\ broker_map' = Insert(broker_map, o.broker, i)
  /\ UNCHANGED <<idempotency_cache, next_order_id>>

\* Mutants of Import: an order is imported though its key is known; the key of
\* an imported order is not cached.
ImportKnownKey(o) ==
  /\ o.broker \notin DOMAIN broker_map
  /\ next_order_id \in Id
  /\ orders' = Insert(orders, next_order_id,
                 [client |-> o.client, broker |-> o.broker, filled |-> o.filled,
                  status |-> o.status, created |-> o.created, updated |-> o.created])
  /\ broker_map' = Insert(broker_map, o.broker, next_order_id)
  /\ idempotency_cache' = IF o.client = NoKey THEN idempotency_cache
                          ELSE Insert(idempotency_cache, o.client, next_order_id)
  /\ next_order_id' = next_order_id + 1

ImportUncached(o) ==
  /\ o.broker \notin DOMAIN broker_map
  /\ o.client \notin DOMAIN idempotency_cache
  /\ next_order_id \in Id
  /\ orders' = Insert(orders, next_order_id,
                 [client |-> o.client, broker |-> o.broker, filled |-> o.filled,
                  status |-> o.status, created |-> o.created, updated |-> o.created])
  /\ broker_map' = Insert(broker_map, o.broker, next_order_id)
  /\ UNCHANGED idempotency_cache
  /\ next_order_id' = next_order_id + 1

Import(o) ==
  /\ o.broker \notin DOMAIN broker_map
  /\ o.client \notin DOMAIN idempotency_cache
  /\ next_order_id \in Id
  /\ orders' = Insert(orders, next_order_id,
                 [client |-> o.client, broker |-> o.broker, filled |-> o.filled,
                  status |-> o.status, created |-> o.created, updated |-> o.created])
  /\ broker_map' = Insert(broker_map, o.broker, next_order_id)
  /\ idempotency_cache' = IF o.client = NoKey THEN idempotency_cache
                          ELSE Insert(idempotency_cache, o.client, next_order_id)
  /\ next_order_id' = next_order_id + 1

ReconcileOrder ==
  /\ arm = "sync"
  /\ open_orders # <<>>
  /\ LET o == Head(open_orders)
     IN IF o.broker = NoBroker
        THEN UNCHANGED <<orders, maps, broker_order_ids>>
        ELSE /\ MatchByBrokerId(o) \/ MatchByKey(o) \/ Import(o)
             /\ broker_order_ids' = broker_order_ids \cup {o.broker}
  /\ open_orders' = Tail(open_orders)
  /\ UNCHANGED <<cmd_sock, arm, timeouts>>

\* Mutant of ReconcileStale: orders the broker has not named are left alone.
ReconcileStaleNamed ==
  /\ arm = "sync"
  /\ open_orders = <<>>
  /\ orders' = [i \in DOMAIN orders |->
                 IF /\ Open(orders[i]) /\ orders[i].broker # NoBroker
                    /\ orders[i].broker \notin broker_order_ids
                 THEN [orders[i] EXCEPT !.status = "Cancelled"] ELSE orders[i]]
  /\ arm' = "select"
  /\ UNCHANGED <<maps, cmd_sock, timeouts, open_orders, broker_order_ids>>

\* An order that is open here and not listed, or never named by the broker.
ReconcileStale ==
  /\ arm = "sync"
  /\ open_orders = <<>>
  /\ orders' = [i \in DOMAIN orders |->
                 IF Open(orders[i]) /\ orders[i].broker \notin broker_order_ids
                 THEN [orders[i] EXCEPT !.status = "Cancelled"] ELSE orders[i]]
  /\ arm' = "select"
  /\ UNCHANGED <<maps, cmd_sock, timeouts, open_orders, broker_order_ids>>

\* The shutdown arm only logs the orders it would cancel.
Shutdown ==
  /\ arm = "select"
  /\ arm' = "stopped"
  /\ UNCHANGED <<orders, maps, cmd_sock, timeouts, open_orders, broker_order_ids>>

\* After the break the task does nothing more.
Stopped ==
  /\ arm = "stopped"
  /\ UNCHANGED vars

-----------------------------------------------------------------------------
(* The environment: the clock, and the bridge that reads the socket. *)

Older(age) == IF age < MaxAge THEN age + 1 ELSE age

\* An arm reads the clock once, so the clock stands while a loop runs.
ClockTick ==
  /\ arm = "select"
  /\ orders' = [i \in DOMAIN orders |->
                 [orders[i] EXCEPT !.created = Older(@), !.updated = Older(@)]]
  /\ UNCHANGED <<maps, cmd_sock, loop>>

BridgeRead ==
  /\ cmd_sock # <<>>
  /\ cmd_sock' = Tail(cmd_sock)
  /\ UNCHANGED <<orders, maps, loop>>

SyncLists == UNION {[1 .. n -> SyncOrder] : n \in 0 .. MaxSync}

Init ==
  /\ orders = [i \in {} |-> {}]
  /\ idempotency_cache = [k \in {} |-> 0]
  /\ broker_map = [b \in {} |-> 0]
  /\ next_order_id = 1
  /\ cmd_sock = <<>>
  /\ arm = "select"
  /\ timeouts = {}
  /\ open_orders = <<>>
  /\ broker_order_ids = {}

Next ==
  \/ \E k \in Key, ok \in BOOLEAN : NewOrder(k, ok)
  \/ \E i \in Id, ok \in BOOLEAN : CancelOrder(i, ok)
  \/ \E i \in Id, b \in BrokerId : Ack(i, b)
  \/ \E i \in Id, size \in FillSizes, lag \in Lags : Fill(i, size, lag)
  \/ \E i \in Id, s \in ReportStatus, f \in SyncFilled, lag \in Lags : Status(i, s, f, lag)
  \/ \E i \in Id, lag \in Lags : CancelAck(i, lag)
  \/ \E i \in Id, lag \in Lags : CancelReject(i, lag)
  \/ Heartbeat
  \/ TimeoutTick
  \/ \E i \in Id, ok \in BOOLEAN : CancelTimedOut(i, ok)
  \/ CheckCancelTimeouts
  \/ \E list \in SyncLists : StateSync(list)
  \/ ReconcileOrder
  \/ ReconcileStale
  \/ Shutdown
  \/ Stopped
  \/ ClockTick
  \/ BridgeRead

Spec == Init /\ [][Next]_vars
\* tokio::select! picks at random among the ready arms, so an arm that is ready
\* again and again is run; a loop is not left before it is finished; the clock
\* does not stop because the task is busy now and then.
Fairness ==
  /\ SF_vars(ClockTick)
  /\ SF_vars(TimeoutTick)
  /\ WF_vars(\E i \in Id, ok \in BOOLEAN : CancelTimedOut(i, ok))
  /\ WF_vars(CheckCancelTimeouts)
  /\ WF_vars(ReconcileOrder)
  /\ WF_vars(ReconcileStale)

FairSpec == Spec /\ Fairness

-----------------------------------------------------------------------------
(* Properties. *)

\* The state the handlers build has the types of the Rust structs, ids are
\* allotted without gaps, and no map points at an order that does not exist.
TypeOK ==
  /\ next_order_id \in 1 .. MaxId + 1
  /\ orders \in [1 .. next_order_id - 1 -> Order]
  /\ DOMAIN idempotency_cache \subseteq Key
  /\ idempotency_cache \in [DOMAIN idempotency_cache -> DOMAIN orders]
  /\ DOMAIN broker_map \subseteq BrokerId
  /\ broker_map \in [DOMAIN broker_map -> DOMAIN orders]
  /\ cmd_sock \in Seq(Command)
  /\ arm \in {"select", "timeout", "sync", "stopped"}
  /\ timeouts \subseteq DOMAIN orders
  /\ open_orders \in Seq(SyncOrder)
  /\ broker_order_ids \subseteq BrokerId

\* place_order and the import of reconcile_state together keep one order per
\* idempotency key, and the cache finds it: a key placed, imported after a
\* restart, or both, never names two internal orders.
KeyNamesOneOrder ==
  /\ \A k \in DOMAIN idempotency_cache : orders[idempotency_cache[k]].client = k
  /\ \A i \in DOMAIN orders :
       orders[i].client # NoKey =>
         /\ orders[i].client \in DOMAIN idempotency_cache
         /\ idempotency_cache[orders[i].client] = i

\* An order the broker has named is found again under that name, so that the
\* next StateSync updates it instead of importing it a second time.
BrokerIdFindsOrder ==
  \A i \in DOMAIN orders :
    orders[i].broker # NoBroker =>
      /\ orders[i].broker \in DOMAIN broker_map
      /\ broker_map[orders[i].broker] = i

\* The tick's loop only meets orders it can still cancel: neither the cancels
\* it sent before nor anything else has moved them (the arms Ok(false) and
\* Err of app_runtime's loop are never taken).
TickCancelsOpenOrders ==
  \A i \in timeouts : Open(orders[i])

\* What a StateSync promises: afterwards an order is open here only if the
\* broker listed it, and every order the broker listed is tracked here.
ReconcileAgrees ==
  [][arm = "sync" /\ arm' = "select" =>
       /\ \A i \in DOMAIN orders' :
            Open(orders'[i]) => orders'[i].broker \in broker_order_ids
       /\ \A b \in broker_order_ids :
            b \in DOMAIN broker_map' /\ broker_map'[b] \in DOMAIN orders']_vars

\* A cancel is answered, overtaken by a fill or escalated by
\* check_cancel_timeouts; it does not stay unresolved while the task runs.
CancelResolves ==
  \A i \in Id : i \in CancellingIds ~> (arm = "stopped" \/ i \notin CancellingIds)

\* No order stays open for ever: the 30 s tick alone moves it on.
OpenOrderResolves ==
  \A i \in Id : i \in OpenIds ~> (arm = "stopped" \/ i \notin OpenIds)

\* The keys and ids behave as the registry of OrderRegistry: a key is
\* registered once, under a fresh id, and never moves.
Registry == INSTANCE OrderRegistry WITH
              id_of <- idempotency_cache, next_id <- next_order_id
RegistrySpec == Registry!Spec
=============================================================================
