------------------------------- MODULE OmsProofs -------------------------------
(***************************************************************************)
(* Proofs about Oms and OrderFlow, for every value of the constants.       *)
(*                                                                         *)
(* The inductive invariant of Oms adds to its three invariants what        *)
(* relates the loops to the rest: ids left to cancel exist only inside the *)
(* tick's loop, and a broker id the sync loop has processed is in          *)
(* broker_map.                                                             *)
(*                                                                         *)
(* FlowInv, that of OrderFlow, follows the shares from the broker to the   *)
(* OMS: whatever an order, a report or a snapshot says is filled, with the *)
(* fills behind it on the inbox, is what the broker executed (Consistent), *)
(* and a broker id stands for the same order at both ends.                 *)
(***************************************************************************)
EXTENDS OrderFlow, Aggregates, SequenceTheorems, TLAPS

LoopInv ==
  /\ arm # "timeout" => timeouts = {}
  /\ broker_order_ids \subseteq DOMAIN broker_map

IInv == TypeOK /\ KeyNamesOneOrder /\ BrokerIdFindsOrder /\ TickCancelsOpenOrders /\ LoopInv

-----------------------------------------------------------------------------
(* HashMap::insert. *)

\* An insertion keeps a map a function between given sets.
LEMMA InsertType ==
  ASSUME NEW S, NEW T, NEW f \in [S -> T], NEW k, NEW v \in T
  PROVE  Insert(f, k, v) \in [S \cup {k} -> T]
BY DEF Insert

\* An order stored under next_order_id is a new one, and the only change.
LEMMA OrderAdded ==
  ASSUME TypeOK, NEW o \in Order, next_order_id \in Id,
         orders' = Insert(orders, next_order_id, o),
         next_order_id' = next_order_id + 1
  PROVE  /\ next_order_id \notin DOMAIN orders
         /\ DOMAIN orders' = DOMAIN orders \cup {next_order_id}
         /\ orders'[next_order_id] = o
         /\ \A i \in DOMAIN orders : orders'[i] = orders[i]
         /\ next_order_id' \in 1 .. MaxId + 1
         /\ orders' \in [1 .. next_order_id' - 1 -> Order]
<1> DEFINE n == next_order_id
<1>1. n \in Nat /\ n > 0 /\ n <= MaxId /\ MaxId \in Nat
  BY OmsAssumption DEF Id
<1>2. DOMAIN orders = 1 .. n - 1 /\ n \notin DOMAIN orders
  BY <1>1 DEF TypeOK
<1>3. DOMAIN orders' = DOMAIN orders \cup {n} /\ orders'[n] = o
      /\ \A i \in DOMAIN orders : i # n => orders'[i] = orders[i]
  BY DEF Insert
<1>4. (1 .. n - 1) \cup {n} = 1 .. (n + 1) - 1
  BY <1>1
<1>5. orders' \in [DOMAIN orders \cup {n} -> Order]
  BY InsertType DEF TypeOK
<1> QED BY <1>1, <1>2, <1>3, <1>4, <1>5

-----------------------------------------------------------------------------
(* Steps that give no order a new identity. *)

SameIdentities ==
  /\ DOMAIN orders' = DOMAIN orders
  /\ \A i \in DOMAIN orders :
       orders'[i].client = orders[i].client /\ orders'[i].broker = orders[i].broker
  /\ UNCHANGED maps

\* Only a step that adds or names an order can disturb the two maps.
LEMMA IdentitiesKept ==
  ASSUME TypeOK, KeyNamesOneOrder, BrokerIdFindsOrder, SameIdentities
  PROVE  KeyNamesOneOrder' /\ BrokerIdFindsOrder'
BY DEF TypeOK, KeyNamesOneOrder, BrokerIdFindsOrder, SameIdentities, maps

\* Handing a command to the socket, or failing to, keeps its type.
LEMMA SendType ==
  ASSUME TypeOK, NEW c \in Command, NEW ok \in BOOLEAN, Send(c, ok)
  PROVE  cmd_sock' \in Seq(Command)
<1>1. cmd_sock \in Seq(Command)
  BY DEF TypeOK
<1>2. Append(cmd_sock, c) \in Seq(Command)
  BY <1>1, AppendProperties
<1>3. cmd_sock' = Append(cmd_sock, c) \/ cmd_sock' = cmd_sock
  BY Zenon DEF Send
<1> QED BY <1>1, <1>2, <1>3

-----------------------------------------------------------------------------
\* The invariant holds of the empty OMS.
LEMMA InitInv == Init => IInv
BY OmsAssumption DEF Init, IInv, TypeOK, KeyNamesOneOrder, BrokerIdFindsOrder,
   TickCancelsOpenOrders, LoopInv

\* A new key takes the next id; a key already in the cache changes no map.
LEMMA NewOrderInv ==
  ASSUME IInv, NEW k \in Key, NEW ok \in BOOLEAN, NewOrder(k, ok)
  PROVE  IInv'
<1> USE DEF IInv
<1>1. cmd_sock' \in Seq(Command)
  BY SendType DEF NewOrder, Command
<1>2. CASE k \in DOMAIN idempotency_cache
  <2>1. UNCHANGED <<orders, maps, loop>>
    BY <1>2 DEF NewOrder, PlaceOrder
  <2> QED
    BY <1>1, <2>1 DEF TypeOK, KeyNamesOneOrder, BrokerIdFindsOrder,
       TickCancelsOpenOrders, LoopInv, maps, loop
<1>3. CASE k \notin DOMAIN idempotency_cache
  <2> DEFINE n == next_order_id
             o == [client |-> k, broker |-> NoBroker, filled |-> 0,
                   status |-> "Pending", created |-> 0, updated |-> 0]
  <2>1. /\ n \in Id
        /\ orders' = Insert(orders, n, o)
        /\ idempotency_cache' = Insert(idempotency_cache, k, n)
        /\ next_order_id' = n + 1
        /\ UNCHANGED <<broker_map, loop>>
        /\ arm = "select"
    BY <1>3 DEF NewOrder, PlaceOrder
  <2>2. o \in Order
    BY OmsAssumption DEF Order, OrderStatus, Age
  <2>3. /\ n \notin DOMAIN orders
        /\ DOMAIN orders' = DOMAIN orders \cup {n}
        /\ orders'[n] = o
        /\ \A i \in DOMAIN orders : orders'[i] = orders[i]
        /\ next_order_id' \in 1 .. MaxId + 1
        /\ orders' \in [1 .. next_order_id' - 1 -> Order]
    BY <2>1, <2>2, OrderAdded
  <2>4. /\ DOMAIN idempotency_cache' = DOMAIN idempotency_cache \cup {k}
        /\ idempotency_cache'[k] = n
        /\ \A x \in DOMAIN idempotency_cache : x # k => idempotency_cache'[x] = idempotency_cache[x]
    BY <2>1 DEF Insert
  <2>5. TypeOK'
    <3>1. idempotency_cache' \in [DOMAIN idempotency_cache' -> DOMAIN orders']
      <4>1. idempotency_cache \in [DOMAIN idempotency_cache -> DOMAIN orders']
        BY <2>3 DEF TypeOK
      <4>2. n \in DOMAIN orders'
        BY <2>3
      <4> QED BY <4>1, <4>2, <2>1 DEF Insert
    <3>2. broker_map' \in [DOMAIN broker_map' -> DOMAIN orders']
      BY <2>1, <2>3 DEF TypeOK
    <3> QED
      BY <3>1, <3>2, <1>1, <2>1, <2>3, <2>4 DEF TypeOK, loop
  <2>6. KeyNamesOneOrder'
    <3>1. \A x \in DOMAIN idempotency_cache' : orders'[idempotency_cache'[x]].client = x
      BY <2>3, <2>4 DEF KeyNamesOneOrder, TypeOK
    <3>2. ASSUME NEW i \in DOMAIN orders', orders'[i].client # NoKey
          PROVE  /\ orders'[i].client \in DOMAIN idempotency_cache'
                 /\ idempotency_cache'[orders'[i].client] = i
      <4>1. CASE i = n
        BY <4>1, <2>3, <2>4
      <4>2. CASE i \in DOMAIN orders
        BY <4>2, <3>2, <2>3, <2>4, <1>3 DEF KeyNamesOneOrder
      <4> QED BY <4>1, <4>2, <2>3
    <3> QED BY <3>1, <3>2 DEF KeyNamesOneOrder
  <2>7. BrokerIdFindsOrder'
    <3>1. ASSUME NEW i \in DOMAIN orders', orders'[i].broker # NoBroker
          PROVE  i \in DOMAIN orders /\ orders'[i] = orders[i]
      BY <3>1, <2>3
    <3> QED BY <3>1, <2>1 DEF BrokerIdFindsOrder
  <2>8. TickCancelsOpenOrders' /\ LoopInv'
    BY <2>1 DEF TickCancelsOpenOrders, LoopInv, loop
  <2> QED BY <2>5, <2>6, <2>7, <2>8
<1> QED BY <1>2, <1>3

-----------------------------------------------------------------------------
(* Steps that only change what has happened to the orders. *)

\* An order with new counters, quantity or status is still an order.
OrderLike(o, p) ==
  /\ p \in Order
  /\ p.client = o.client
  /\ p.broker = o.broker

\* Outside the tick's loop, a step that rewrites orders but not their
\* identities keeps the invariant, whatever it does to the socket.
LEMMA RewriteInv ==
  ASSUME IInv, UNCHANGED maps, cmd_sock' \in Seq(Command),
         timeouts' = {}, arm' \in {"select", "sync", "stopped"},
         UNCHANGED <<open_orders, broker_order_ids>>,
         DOMAIN orders' = DOMAIN orders,
         orders' = [i \in DOMAIN orders |-> orders'[i]],
         \A i \in DOMAIN orders : OrderLike(orders[i], orders'[i])
  PROVE  IInv'
<1>1. SameIdentities
  BY DEF SameIdentities, OrderLike
<1>2. KeyNamesOneOrder' /\ BrokerIdFindsOrder'
  BY <1>1, IdentitiesKept DEF IInv
<1>3. orders' \in [1 .. next_order_id' - 1 -> Order]
  BY DEF IInv, TypeOK, OrderLike, maps
<1>4. TypeOK'
  BY <1>3 DEF IInv, TypeOK, maps
<1>5. TickCancelsOpenOrders' /\ LoopInv'
  BY DEF IInv, TickCancelsOpenOrders, LoopInv, maps
<1> QED BY <1>2, <1>4, <1>5 DEF IInv

\* Rewriting one order.
LEMMA RewriteOneInv ==
  ASSUME IInv, UNCHANGED <<maps, loop>>, cmd_sock' \in Seq(Command), arm = "select",
         NEW i \in DOMAIN orders, NEW o, OrderLike(orders[i], o),
         orders' = [orders EXCEPT ![i] = o]
  PROVE  IInv'
<1>1. /\ DOMAIN orders' = DOMAIN orders
      /\ orders' = [j \in DOMAIN orders |-> orders'[j]]
      /\ \A j \in DOMAIN orders : OrderLike(orders[j], orders'[j])
  BY DEF IInv, TypeOK, OrderLike
<1>2. timeouts' = {}
  BY DEF IInv, LoopInv, loop
<1> QED BY <1>1, <1>2, RewriteInv DEF loop

\* A request to cancel is one order rewritten and at most one datagram.
LEMMA RequestCancelFacts ==
  ASSUME IInv, NEW i \in DOMAIN orders, NEW ok \in BOOLEAN, RequestCancel(i, ok)
  PROVE  /\ cmd_sock' \in Seq(Command)
         /\ \E o : OrderLike(orders[i], o) /\ orders' = [orders EXCEPT ![i] = o]
<1>1. i \in Id
  BY OmsAssumption DEF IInv, TypeOK, Id
<1>2. cmd_sock' \in Seq(Command)
  BY <1>1, SendType DEF IInv, RequestCancel, Command
<1> DEFINE o == [orders[i] EXCEPT
                   !.status = IF ok THEN "CancelSent" ELSE "PendingCancel",
                   !.updated = 0]
<1>3. orders[i] \in Order /\ 0 \in Age
  BY OmsAssumption DEF IInv, TypeOK, Age
<1>4. OrderLike(orders[i], o)
  BY <1>3 DEF OrderLike, Order, OrderStatus
<1>5. orders' = [orders EXCEPT ![i] = o]
  BY <1>3 DEF RequestCancel, IInv, TypeOK, Order
<1> QED BY <1>2, <1>4, <1>5

\* The CancelOrder command rewrites one order and hands a command to the socket.
LEMMA CancelOrderInv ==
  ASSUME IInv, NEW i \in Id, NEW ok \in BOOLEAN, CancelOrder(i, ok)
  PROVE  IInv'
<1>1. i \in DOMAIN orders /\ RequestCancel(i, ok) /\ arm = "select"
      /\ UNCHANGED <<maps, loop>>
  BY DEF CancelOrder
<1>2. PICK o : OrderLike(orders[i], o) /\ orders' = [orders EXCEPT ![i] = o]
  BY <1>1, RequestCancelFacts
<1>3. cmd_sock' \in Seq(Command)
  BY <1>1, RequestCancelFacts
<1> QED BY <1>1, <1>2, <1>3, RewriteOneInv

\* Events about one order: a fill, a report, the answers to a cancel.
LEMMA EventInv ==
  ASSUME IInv, NEW i \in Id, NEW lag \in Lags,
         \/ \E size \in FillSizes : Fill(i, size, lag)
         \/ \E s \in ReportStatus, f \in SyncFilled : Status(i, s, f, lag)
         \/ CancelAck(i, lag)
         \/ CancelReject(i, lag)
  PROVE  IInv'
<1>1. /\ i \in DOMAIN orders /\ arm = "select"
      /\ UNCHANGED <<maps, loop>> /\ cmd_sock' \in Seq(Command)
  BY DEF Fill, Status, CancelAck, CancelReject, IInv, TypeOK
<1>2. orders[i] \in Order /\ lag \in Age
  BY <1>1, OmsAssumption DEF IInv, TypeOK, Age
<1>3. ASSUME NEW size \in FillSizes, Fill(i, size, lag) PROVE IInv'
  <2> DEFINE o == [orders[i] EXCEPT !.filled = @ + size,
                     !.status = FillStatus(orders[i].filled + size),
                     !.updated = lag]
  <2>1. orders' = [orders EXCEPT ![i] = o]
    BY <1>1, <1>2, <1>3 DEF Fill, IInv, TypeOK, Order
  <2>2. OrderLike(orders[i], o)
    BY <1>2, <1>3 DEF Fill, FillStatus, OrderLike, Order, OrderStatus
  <2> QED BY <1>1, <2>1, <2>2, RewriteOneInv
<1>4. ASSUME NEW s \in ReportStatus, NEW f \in SyncFilled, Status(i, s, f, lag)
      PROVE  IInv'
  <2> DEFINE o == [orders[i] EXCEPT !.status = s, !.filled = f, !.updated = lag]
  <2>1. orders' = [orders EXCEPT ![i] = o]
    BY <1>1, <1>2, <1>4 DEF Status, IInv, TypeOK, Order
  <2>2. OrderLike(orders[i], o)
    BY <1>2, OmsAssumption DEF OrderLike, Order
  <2> QED BY <1>1, <2>1, <2>2, RewriteOneInv
<1>5. ASSUME CancelAck(i, lag) PROVE IInv'
  <2> DEFINE o == [orders[i] EXCEPT !.status = "Cancelled", !.updated = lag]
  <2>1. orders' = [orders EXCEPT ![i] = o]
    BY <1>1, <1>2, <1>5 DEF CancelAck, IInv, TypeOK, Order
  <2>2. OrderLike(orders[i], o)
    BY <1>2 DEF OrderLike, Order, OrderStatus
  <2> QED BY <1>1, <2>1, <2>2, RewriteOneInv
<1>6. ASSUME CancelReject(i, lag) PROVE IInv'
  <2> DEFINE o == [orders[i] EXCEPT !.status = "CancelRejected", !.updated = lag]
  <2>1. orders' = [orders EXCEPT ![i] = o]
    BY <1>1, <1>2, <1>6 DEF CancelReject, IInv, TypeOK, Order
  <2>2. OrderLike(orders[i], o)
    BY <1>2 DEF OrderLike, Order, OrderStatus
  <2> QED BY <1>1, <2>1, <2>2, RewriteOneInv
<1> QED BY <1>3, <1>4, <1>5, <1>6

\* Steps that go over every order: the heartbeat, the clock, the end of both loops.
LEMMA SweepInv ==
  ASSUME IInv, Heartbeat \/ ClockTick \/ CheckCancelTimeouts \/ ReconcileStale
  PROVE  IInv'
<1>1. /\ UNCHANGED maps /\ cmd_sock' \in Seq(Command) /\ arm' = "select"
      /\ UNCHANGED <<open_orders, broker_order_ids>>
  BY DEF Heartbeat, ClockTick, CheckCancelTimeouts, ReconcileStale, loop, IInv, TypeOK
<1>2. timeouts' = {}
  BY DEF Heartbeat, ClockTick, CheckCancelTimeouts, ReconcileStale, loop, IInv, LoopInv
<1>3. \A i \in DOMAIN orders : orders[i] \in Order
  BY DEF IInv, TypeOK
<1>4. DOMAIN orders' = DOMAIN orders /\ orders' = [i \in DOMAIN orders |-> orders'[i]]
  BY DEF Heartbeat, ClockTick, CheckCancelTimeouts, ReconcileStale
<1>5. ASSUME NEW o \in Order, NEW s \in OrderStatus
      PROVE  OrderLike(o, [o EXCEPT !.status = s]) /\ OrderLike(o, o)
  BY DEF OrderLike, Order
<1>6. ASSUME NEW o \in Order
      PROVE  OrderLike(o, [o EXCEPT !.created = Older(@), !.updated = Older(@)])
  <2>1. \A a \in Age : Older(a) \in Age
    BY OmsAssumption DEF Older, Age
  <2> QED BY <2>1 DEF OrderLike, Order
<1>7. ASSUME NEW i \in DOMAIN orders PROVE OrderLike(orders[i], orders'[i])
  <2>1. CASE ClockTick
    BY <2>1, <1>3, <1>6 DEF ClockTick
  <2>2. CASE Heartbeat
    BY <2>2, <1>3, <1>5 DEF Heartbeat, OrderStatus
  <2>3. CASE CheckCancelTimeouts
    BY <2>3, <1>3, <1>5 DEF CheckCancelTimeouts, CancelOverdue, OrderStatus
  <2>4. CASE ReconcileStale
    BY <2>4, <1>3, <1>5 DEF ReconcileStale, OrderStatus
  <2> QED BY <2>1, <2>2, <2>3, <2>4
<1> QED BY <1>1, <1>2, <1>4, <1>7, RewriteInv

-----------------------------------------------------------------------------
(* The broker's names for orders, and the two loops. *)

\* An order that takes a broker id nobody else has is found under it, and the
\* others keep theirs.
LEMMA NamedOrder ==
  ASSUME TypeOK, KeyNamesOneOrder, BrokerIdFindsOrder,
         NEW i \in DOMAIN orders, NEW b \in BrokerId,
         b \in DOMAIN broker_map => broker_map[b] = i,
         NEW o \in Order, o.client = orders[i].client, o.broker = b,
         orders' = [orders EXCEPT ![i] = o],
         broker_map' = Insert(broker_map, b, i),
         UNCHANGED <<idempotency_cache, next_order_id>>
  PROVE  /\ DOMAIN orders' = DOMAIN orders
         /\ orders' \in [1 .. next_order_id' - 1 -> Order]
         /\ DOMAIN broker_map' = DOMAIN broker_map \cup {b}
         /\ broker_map' \in [DOMAIN broker_map' -> DOMAIN orders']
         /\ KeyNamesOneOrder'
         /\ BrokerIdFindsOrder'
<1>1. /\ DOMAIN orders' = DOMAIN orders
      /\ orders' \in [1 .. next_order_id' - 1 -> Order]
  BY DEF TypeOK
<1>2. /\ DOMAIN broker_map' = DOMAIN broker_map \cup {b}
      /\ broker_map'[b] = i
      /\ \A c \in DOMAIN broker_map : c # b => broker_map'[c] = broker_map[c]
  BY DEF Insert
<1>3. broker_map' \in [DOMAIN broker_map' -> DOMAIN orders']
  BY <1>1 DEF TypeOK, Insert
<1>4. /\ orders'[i] = o
      /\ \A j \in DOMAIN orders : j # i => orders'[j] = orders[j]
  BY DEF TypeOK
<1>5. KeyNamesOneOrder'
  BY <1>1, <1>4 DEF KeyNamesOneOrder, TypeOK
<1>6. ASSUME NEW j \in DOMAIN orders', orders'[j].broker # NoBroker
      PROVE  /\ orders'[j].broker \in DOMAIN broker_map'
             /\ broker_map'[orders'[j].broker] = j
  <2>1. CASE j = i
    BY <2>1, <1>2, <1>4
  <2>2. CASE j # i
    <3>1. orders'[j] = orders[j] /\ j \in DOMAIN orders
      BY <2>2, <1>1, <1>4
    <3>2. orders[j].broker \in DOMAIN broker_map /\ broker_map[orders[j].broker] = j
      BY <3>1, <1>6 DEF BrokerIdFindsOrder
    <3>3. orders[j].broker # b
      BY <3>2, <2>2
    <3> QED BY <3>1, <3>2, <3>3, <1>2
  <2> QED BY <2>1, <2>2
<1> QED BY <1>1, <1>2, <1>3, <1>5, <1>6 DEF BrokerIdFindsOrder

\* handle_ack names one order.
LEMMA AckInv ==
  ASSUME IInv, NEW i \in Id, NEW b \in BrokerId, Ack(i, b)
  PROVE  IInv'
<1> DEFINE o == [orders[i] EXCEPT !.broker = b,
                   !.status = IF @ = "Pending" THEN "Live" ELSE @]
<1>1. /\ arm = "select" /\ i \in DOMAIN orders
      /\ b \in DOMAIN broker_map => broker_map[b] = i
      /\ broker_map' = Insert(broker_map, b, i)
      /\ UNCHANGED <<idempotency_cache, next_order_id, cmd_sock, loop>>
  BY DEF Ack
<1>2. orders[i] \in Order
  BY <1>1 DEF IInv, TypeOK
<1>3. orders' = [orders EXCEPT ![i] = o]
  BY <1>1, <1>2 DEF Ack, IInv, TypeOK, Order
<1>4. o \in Order /\ o.client = orders[i].client /\ o.broker = b
  BY <1>2 DEF Order, OrderStatus
<1>5. /\ DOMAIN orders' = DOMAIN orders
      /\ orders' \in [1 .. next_order_id' - 1 -> Order]
      /\ DOMAIN broker_map' = DOMAIN broker_map \cup {b}
      /\ broker_map' \in [DOMAIN broker_map' -> DOMAIN orders']
      /\ KeyNamesOneOrder'
      /\ BrokerIdFindsOrder'
  BY <1>1, <1>3, <1>4, NamedOrder DEF IInv
<1>6. TypeOK'
  BY <1>1, <1>5 DEF IInv, TypeOK, loop
<1>7. TickCancelsOpenOrders' /\ LoopInv'
  BY <1>1, <1>5 DEF IInv, TickCancelsOpenOrders, LoopInv, loop
<1> QED BY <1>5, <1>6, <1>7 DEF IInv

\* The steps that enter a loop, stop the task or drain the socket.
LEMMA ControlInv ==
  ASSUME IInv,
         \/ TimeoutTick \/ Shutdown \/ Stopped \/ BridgeRead
         \/ \E list \in SyncLists : StateSync(list)
  PROVE  IInv'
<1>1. /\ UNCHANGED <<orders, maps>>
      /\ broker_order_ids' = {} \/ broker_order_ids' = broker_order_ids
  BY DEF TimeoutTick, Shutdown, Stopped, BridgeRead, StateSync, vars, loop
<1>2. cmd_sock' \in Seq(Command)
  <2>1. cmd_sock \in Seq(Command)
    BY DEF IInv, TypeOK
  <2>2. cmd_sock # <<>> => Tail(cmd_sock) \in Seq(Command)
    BY <2>1, HeadTailProperties
  <2> QED
    BY <2>1, <2>2 DEF TimeoutTick, Shutdown, Stopped, BridgeRead, StateSync, vars
<1>3. /\ arm' \in {"select", "timeout", "sync", "stopped"}
      /\ timeouts' \subseteq OpenIds
      /\ arm' # "timeout" => timeouts' = {}
      /\ open_orders' \in Seq(SyncOrder)
  <2>1. \A list \in SyncLists : list \in Seq(SyncOrder)
    BY OmsAssumption DEF SyncLists
  <2>2. timeouts \subseteq OpenIds
    BY DEF IInv, TickCancelsOpenOrders, OpenIds, TypeOK
  <2>3. CASE TimeoutTick
    BY <2>3 DEF TimeoutTick, OpenIds, TimedOut, IInv, TypeOK
  <2>4. CASE Shutdown
    BY <2>4, <2>2 DEF Shutdown, IInv, TypeOK, LoopInv
  <2>5. CASE Stopped \/ BridgeRead
    BY <2>5, <2>2 DEF Stopped, BridgeRead, vars, loop, IInv, TypeOK, LoopInv
  <2>6. CASE \E list \in SyncLists : StateSync(list)
    BY <2>6, <2>1, <2>2 DEF StateSync, IInv, TypeOK, LoopInv
  <2> QED BY <2>3, <2>4, <2>5, <2>6
<1>4. TypeOK'
  BY <1>1, <1>2, <1>3 DEF IInv, TypeOK, OpenIds, maps
<1>5. KeyNamesOneOrder' /\ BrokerIdFindsOrder'
  BY <1>1 DEF IInv, KeyNamesOneOrder, BrokerIdFindsOrder, maps
<1>6. TickCancelsOpenOrders' /\ LoopInv'
  BY <1>1, <1>3 DEF IInv, TickCancelsOpenOrders, LoopInv, OpenIds, maps
<1> QED BY <1>4, <1>5, <1>6 DEF IInv

\* One iteration of the tick's loop moves one order out of the loop's reach
\* and leaves the others as they were.
LEMMA CancelTimedOutInv ==
  ASSUME IInv, NEW i \in Id, NEW ok \in BOOLEAN, CancelTimedOut(i, ok)
  PROVE  IInv'
<1>1. /\ arm = "timeout" /\ i \in timeouts /\ i \in DOMAIN orders
      /\ RequestCancel(i, ok) /\ timeouts' = timeouts \ {i}
      /\ UNCHANGED <<maps, arm, open_orders, broker_order_ids>>
  BY DEF CancelTimedOut, IInv, TypeOK
<1>2. PICK o : OrderLike(orders[i], o) /\ orders' = [orders EXCEPT ![i] = o]
  BY <1>1, RequestCancelFacts
<1>3. cmd_sock' \in Seq(Command)
  BY <1>1, RequestCancelFacts
<1>4. /\ DOMAIN orders' = DOMAIN orders
      /\ orders'[i] = o
      /\ \A j \in DOMAIN orders : j # i => orders'[j] = orders[j]
      /\ orders' \in [1 .. next_order_id' - 1 -> Order]
  BY <1>1, <1>2 DEF IInv, TypeOK, OrderLike, maps
<1>5. KeyNamesOneOrder' /\ BrokerIdFindsOrder'
  <2>1. SameIdentities
    BY <1>1, <1>2, <1>4 DEF SameIdentities, OrderLike
  <2> QED BY <2>1, IdentitiesKept DEF IInv
<1>6. TypeOK'
  BY <1>1, <1>3, <1>4 DEF IInv, TypeOK, maps
<1>7. TickCancelsOpenOrders' /\ LoopInv'
  BY <1>1, <1>4 DEF IInv, TypeOK, TickCancelsOpenOrders, LoopInv, maps
<1> QED BY <1>5, <1>6, <1>7 DEF IInv

-----------------------------------------------------------------------------
(* One broker order of a StateSync. *)

\* What every branch of the sync loop must establish.
ListedOrderInv ==
  /\ next_order_id' \in 1 .. MaxId + 1
  /\ orders' \in [1 .. next_order_id' - 1 -> Order]
  /\ DOMAIN idempotency_cache' \subseteq Key
  /\ idempotency_cache' \in [DOMAIN idempotency_cache' -> DOMAIN orders']
  /\ DOMAIN broker_map' \subseteq BrokerId
  /\ broker_map' \in [DOMAIN broker_map' -> DOMAIN orders']
  /\ KeyNamesOneOrder'
  /\ BrokerIdFindsOrder'

\* The order is known by its broker id: only its progress is copied.
LEMMA MatchByBrokerIdInv ==
  ASSUME IInv, NEW l \in SyncOrder, l.broker \in BrokerId, MatchByBrokerId(l)
  PROVE  ListedOrderInv /\ l.broker \in DOMAIN broker_map'
         /\ DOMAIN broker_map \subseteq DOMAIN broker_map'
<1> DEFINE i == broker_map[l.broker]
           o == [orders[i] EXCEPT !.status = l.status, !.filled = l.filled]
<1>1. l.broker \in DOMAIN broker_map /\ UNCHANGED maps /\ i \in DOMAIN orders
  BY DEF MatchByBrokerId, IInv, TypeOK
<1>2. orders[i] \in Order
  BY <1>1 DEF IInv, TypeOK
<1>3. orders' = [orders EXCEPT ![i] = o]
  BY <1>1, <1>2 DEF MatchByBrokerId, IInv, TypeOK, Order
<1>4. OrderLike(orders[i], o)
  BY <1>2, OmsAssumption DEF OrderLike, Order, SyncOrder
<1>5. /\ DOMAIN orders' = DOMAIN orders
      /\ orders' \in [1 .. next_order_id' - 1 -> Order]
      /\ SameIdentities
  BY <1>1, <1>3, <1>4 DEF IInv, TypeOK, OrderLike, SameIdentities, maps
<1>6. KeyNamesOneOrder' /\ BrokerIdFindsOrder'
  BY <1>5, IdentitiesKept DEF IInv
<1> QED BY <1>1, <1>5, <1>6 DEF ListedOrderInv, IInv, TypeOK, maps

\* The order is known by its key: it takes the broker id.
LEMMA MatchByKeyInv ==
  ASSUME IInv, NEW l \in SyncOrder, l.broker \in BrokerId, MatchByKey(l)
  PROVE  ListedOrderInv /\ l.broker \in DOMAIN broker_map'
         /\ DOMAIN broker_map \subseteq DOMAIN broker_map'
<1> DEFINE i == idempotency_cache[l.client]
           o == [orders[i] EXCEPT !.broker = l.broker, !.status = l.status,
                                  !.filled = l.filled]
<1>1. /\ l.broker \notin DOMAIN broker_map /\ i \in DOMAIN orders
      /\ broker_map' = Insert(broker_map, l.broker, i)
      /\ UNCHANGED <<idempotency_cache, next_order_id>>
  BY DEF MatchByKey, IInv, TypeOK
<1>2. orders[i] \in Order
  BY <1>1 DEF IInv, TypeOK
<1>3. orders' = [orders EXCEPT ![i] = o]
  BY <1>1, <1>2 DEF MatchByKey, IInv, TypeOK, Order
<1>4. o \in Order /\ o.client = orders[i].client /\ o.broker = l.broker
  BY <1>2, OmsAssumption DEF Order, SyncOrder
<1>5. /\ DOMAIN orders' = DOMAIN orders
      /\ orders' \in [1 .. next_order_id' - 1 -> Order]
      /\ DOMAIN broker_map' = DOMAIN broker_map \cup {l.broker}
      /\ broker_map' \in [DOMAIN broker_map' -> DOMAIN orders']
      /\ KeyNamesOneOrder'
      /\ BrokerIdFindsOrder'
  BY <1>1, <1>3, <1>4, NamedOrder DEF IInv
<1> QED BY <1>1, <1>5 DEF ListedOrderInv, IInv, TypeOK

\* The order is unknown: it is imported under a new id, with its key if any.
LEMMA ImportInv ==
  ASSUME IInv, NEW l \in SyncOrder, l.broker \in BrokerId, Import(l)
  PROVE  ListedOrderInv /\ l.broker \in DOMAIN broker_map'
         /\ DOMAIN broker_map \subseteq DOMAIN broker_map'
<1> DEFINE n == next_order_id
           o == [client |-> l.client, broker |-> l.broker, filled |-> l.filled,
                 status |-> l.status, created |-> l.created, updated |-> l.created]
<1>1. /\ l.broker \notin DOMAIN broker_map
      /\ l.client \notin DOMAIN idempotency_cache
      /\ n \in Id
      /\ orders' = Insert(orders, n, o)
      /\ broker_map' = Insert(broker_map, l.broker, n)
      /\ next_order_id' = n + 1
      /\ idempotency_cache' = IF l.client = NoKey THEN idempotency_cache
                              ELSE Insert(idempotency_cache, l.client, n)
  BY DEF Import
<1>2. o \in Order /\ o.client = l.client /\ o.broker = l.broker
  BY OmsAssumption DEF Order, SyncOrder, Age
<1> HIDE DEF o
<1>3. /\ n \notin DOMAIN orders
      /\ DOMAIN orders' = DOMAIN orders \cup {n}
      /\ orders'[n] = o
      /\ \A j \in DOMAIN orders : orders'[j] = orders[j]
      /\ next_order_id' \in 1 .. MaxId + 1
      /\ orders' \in [1 .. next_order_id' - 1 -> Order]
  BY <1>1, <1>2, OrderAdded DEF IInv
<1>4. /\ DOMAIN broker_map' = DOMAIN broker_map \cup {l.broker}
      /\ broker_map'[l.broker] = n
      /\ \A b \in DOMAIN broker_map : broker_map'[b] = broker_map[b]
  BY <1>1 DEF Insert
<1>5. broker_map' \in [DOMAIN broker_map' -> DOMAIN orders']
  BY <1>1, <1>3 DEF Insert, IInv, TypeOK
<1>6. idempotency_cache' \in [DOMAIN idempotency_cache' -> DOMAIN orders']
  BY <1>1, <1>3 DEF Insert, IInv, TypeOK
<1>7. BrokerIdFindsOrder'
  <2>1. ASSUME NEW j \in DOMAIN orders', orders'[j].broker # NoBroker
        PROVE  /\ orders'[j].broker \in DOMAIN broker_map'
               /\ broker_map'[orders'[j].broker] = j
    <3>1. CASE j = n
      BY <3>1, <1>2, <1>3, <1>4
    <3>2. CASE j \in DOMAIN orders
      BY <3>2, <2>1, <1>3, <1>4 DEF IInv, BrokerIdFindsOrder
    <3> QED BY <3>1, <3>2, <1>3
  <2> QED BY <2>1 DEF BrokerIdFindsOrder
<1>8. DOMAIN idempotency_cache' \subseteq Key /\ KeyNamesOneOrder'
  <2>1. CASE l.client = NoKey
    <3>1. idempotency_cache' = idempotency_cache
      BY <2>1, <1>1
    <3>2. \A k \in DOMAIN idempotency_cache : orders'[idempotency_cache[k]].client = k
      BY <1>3 DEF IInv, TypeOK, KeyNamesOneOrder
    <3>3. ASSUME NEW j \in DOMAIN orders', orders'[j].client # NoKey
          PROVE  orders'[j].client \in DOMAIN idempotency_cache
                 /\ idempotency_cache[orders'[j].client] = j
      <4>1. j \in DOMAIN orders /\ orders'[j] = orders[j]
        BY <3>3, <2>1, <1>2, <1>3
      <4> QED BY <4>1, <3>3 DEF IInv, KeyNamesOneOrder
    <3> QED BY <3>1, <3>2, <3>3 DEF KeyNamesOneOrder, IInv, TypeOK
  <2>2. CASE l.client # NoKey
    <3>1. /\ DOMAIN idempotency_cache' = DOMAIN idempotency_cache \cup {l.client}
          /\ idempotency_cache'[l.client] = n
          /\ \A k \in DOMAIN idempotency_cache : idempotency_cache'[k] = idempotency_cache[k]
      BY <2>2, <1>1 DEF Insert
    <3>2. l.client \in Key
      BY <2>2 DEF SyncOrder
    <3>3. \A k \in DOMAIN idempotency_cache' : orders'[idempotency_cache'[k]].client = k
      BY <3>1, <1>2, <1>3 DEF IInv, TypeOK, KeyNamesOneOrder
    <3>4. ASSUME NEW j \in DOMAIN orders', orders'[j].client # NoKey
          PROVE  orders'[j].client \in DOMAIN idempotency_cache'
                 /\ idempotency_cache'[orders'[j].client] = j
      <4>1. CASE j = n
        BY <4>1, <3>1, <1>2, <1>3
      <4>2. CASE j \in DOMAIN orders
        BY <4>2, <3>4, <3>1, <1>3 DEF IInv, KeyNamesOneOrder
      <4> QED BY <4>1, <4>2, <1>3
    <3> QED BY <3>1, <3>2, <3>3, <3>4 DEF KeyNamesOneOrder, IInv, TypeOK
  <2> QED BY <2>1, <2>2
<1> QED
  BY <1>3, <1>4, <1>5, <1>6, <1>7, <1>8 DEF ListedOrderInv, IInv, TypeOK

\* One turn of the sync loop, whichever way the listed order is matched.
LEMMA ReconcileOrderInv ==
  ASSUME IInv, ReconcileOrder
  PROVE  IInv'
<1> DEFINE l == Head(open_orders)
<1>1. l \in SyncOrder /\ Tail(open_orders) \in Seq(SyncOrder)
  BY HeadTailProperties DEF ReconcileOrder, IInv, TypeOK
<1>2. /\ arm = "sync" /\ timeouts = {}
      /\ UNCHANGED <<cmd_sock, arm, timeouts>>
      /\ open_orders' = Tail(open_orders)
  BY DEF ReconcileOrder, IInv, LoopInv
<1>3. CASE l.broker = NoBroker
  <2>1. UNCHANGED <<orders, maps, broker_order_ids>>
    BY <1>3 DEF ReconcileOrder
  <2> QED
    BY <2>1, <1>1, <1>2 DEF IInv, TypeOK, KeyNamesOneOrder, BrokerIdFindsOrder,
       TickCancelsOpenOrders, LoopInv, maps
<1>4. CASE l.broker # NoBroker
  <2>1. l.broker \in BrokerId
    BY <1>1, <1>4 DEF SyncOrder
  <2>2. /\ MatchByBrokerId(l) \/ MatchByKey(l) \/ Import(l)
        /\ broker_order_ids' = broker_order_ids \cup {l.broker}
    BY <1>4 DEF ReconcileOrder
  <2>3. /\ ListedOrderInv
        /\ l.broker \in DOMAIN broker_map'
        /\ DOMAIN broker_map \subseteq DOMAIN broker_map'
    BY <1>1, <2>1, <2>2, MatchByBrokerIdInv, MatchByKeyInv, ImportInv
  <2>4. TypeOK'
    BY <1>1, <1>2, <2>1, <2>2, <2>3 DEF ListedOrderInv, IInv, TypeOK
  <2>5. TickCancelsOpenOrders' /\ LoopInv'
    BY <1>2, <2>2, <2>3 DEF IInv, TickCancelsOpenOrders, LoopInv
  <2> QED BY <2>3, <2>4, <2>5 DEF ListedOrderInv, IInv
<1> QED BY <1>3, <1>4

-----------------------------------------------------------------------------
(* The theorems. *)

\* Every step of Oms keeps the inductive invariant.
LEMMA StepInv == IInv /\ [Next]_vars => IInv'
<1> SUFFICES ASSUME IInv, [Next]_vars PROVE IInv'
  OBVIOUS
<1>1. CASE UNCHANGED vars
  BY <1>1 DEF vars, maps, loop, IInv, TypeOK, KeyNamesOneOrder, BrokerIdFindsOrder,
     TickCancelsOpenOrders, LoopInv
<1>2. CASE \E k \in Key, ok \in BOOLEAN : NewOrder(k, ok)
  BY <1>2, NewOrderInv
<1>3. CASE \E i \in Id, ok \in BOOLEAN : CancelOrder(i, ok) \/ CancelTimedOut(i, ok)
  BY <1>3, CancelOrderInv, CancelTimedOutInv
<1>4. CASE \E i \in Id, b \in BrokerId : Ack(i, b)
  BY <1>4, AckInv
<1>5. CASE \E i \in Id, lag \in Lags :
             \/ \E size \in FillSizes : Fill(i, size, lag)
             \/ \E s \in ReportStatus, f \in SyncFilled : Status(i, s, f, lag)
             \/ CancelAck(i, lag)
             \/ CancelReject(i, lag)
  BY <1>5, EventInv
<1>6. CASE Heartbeat \/ ClockTick \/ CheckCancelTimeouts \/ ReconcileStale
  BY <1>6, SweepInv
<1>7. CASE \/ TimeoutTick \/ Shutdown \/ Stopped \/ BridgeRead
           \/ \E list \in SyncLists : StateSync(list)
  BY <1>7, ControlInv
<1>8. CASE ReconcileOrder
  BY <1>8, ReconcileOrderInv
<1> QED
  BY <1>1, <1>2, <1>3, <1>4, <1>5, <1>6, <1>7, <1>8 DEF Next

\* The strengthened invariant holds in every reachable state.
THEOREM OmsInvariant == Spec => []IInv
<1>1. Init => IInv
  BY InitInv
<1>2. IInv /\ [Next]_vars => IInv'
  BY StepInv
<1> QED BY <1>1, <1>2, PTL DEF Spec

\* The OMS is well typed: ids are dense, and no map points outside `orders'.
THEOREM OmsTypeCorrect == Spec => []TypeOK
<1>1. IInv => TypeOK
  BY DEF IInv
<1> QED BY <1>1, OmsInvariant, PTL

\* An idempotency key never names two internal orders, whether it was placed
\* here or imported from the broker.
THEOREM OneOrderPerKey == Spec => []KeyNamesOneOrder
<1>1. IInv => KeyNamesOneOrder
  BY DEF IInv
<1> QED BY <1>1, OmsInvariant, PTL

\* An order is always found under the broker id it carries, so a StateSync
\* never imports a known order again.
THEOREM BrokerIdFound == Spec => []BrokerIdFindsOrder
<1>1. IInv => BrokerIdFindsOrder
  BY DEF IInv
<1> QED BY <1>1, OmsInvariant, PTL

\* The tick's loop only cancels orders that are still open.
THEOREM TickSound == Spec => []TickCancelsOpenOrders
<1>1. IInv => TickCancelsOpenOrders
  BY DEF IInv
<1> QED BY <1>1, OmsInvariant, PTL

\* When a StateSync has been processed, open here means listed by the broker,
\* and listed by the broker means tracked here.
THEOREM ReconcileSound == Spec => ReconcileAgrees
<1> DEFINE Agrees ==
      arm = "sync" /\ arm' = "select" =>
        /\ \A i \in DOMAIN orders' :
             Open(orders'[i]) => orders'[i].broker \in broker_order_ids
        /\ \A b \in broker_order_ids :
             b \in DOMAIN broker_map' /\ broker_map'[b] \in DOMAIN orders'
<1>1. ASSUME IInv, [Next]_vars PROVE [Agrees]_vars
  <2> SUFFICES ASSUME arm = "sync", arm' = "select" PROVE Agrees
    OBVIOUS
  <2>1. ReconcileStale
    BY <1>1 DEF Next, vars, loop, NewOrder, CancelOrder, Ack, Fill, Status, CancelAck,
       CancelReject, Heartbeat, TimeoutTick, CancelTimedOut, CheckCancelTimeouts,
       StateSync, ReconcileOrder, Shutdown, Stopped, ClockTick, BridgeRead
  <2>2. ASSUME NEW i \in DOMAIN orders', Open(orders'[i])
        PROVE  orders'[i].broker \in broker_order_ids
    <3>1. i \in DOMAIN orders /\ orders[i] \in Order
      BY <1>1, <2>1 DEF ReconcileStale, IInv, TypeOK
    <3>2. orders'[i] = [orders[i] EXCEPT !.status = "Cancelled"]
          => ~Open(orders'[i])
      BY <3>1 DEF Open, Order
    <3> QED BY <2>1, <2>2, <3>1, <3>2 DEF ReconcileStale
  <2>3. IInv'
    BY <1>1, StepInv
  <2>4. broker_order_ids' = broker_order_ids
    BY <2>1 DEF ReconcileStale
  <2> QED BY <2>2, <2>3, <2>4 DEF IInv, LoopInv, TypeOK
<1> QED BY <1>1, OmsInvariant, PTL DEF Spec, ReconcileAgrees

\* A command of the strategy registers its key, or leaves the registry alone.
LEMMA NewOrderRegisters ==
  ASSUME IInv, NEW k \in Key, NEW ok \in BOOLEAN, NewOrder(k, ok)
  PROVE  Registry!Next \/ UNCHANGED <<idempotency_cache, next_order_id>>
<1>1. PlaceOrder(k)
  BY DEF NewOrder
<1>2. CASE k \in DOMAIN idempotency_cache
  BY <1>1, <1>2 DEF PlaceOrder, maps
<1>3. CASE k \notin DOMAIN idempotency_cache
  <2>1. Registry!Register(k)
    BY <1>1, <1>3 DEF PlaceOrder, Registry!Register, Insert, Id
  <2> QED BY <2>1 DEF Registry!Next
<1> QED BY <1>2, <1>3

\* An order the broker lists registers its key when it is imported with one.
LEMMA ReconcileRegisters ==
  ASSUME IInv, ReconcileOrder
  PROVE  Registry!Next \/ UNCHANGED <<idempotency_cache, next_order_id>>
<1> DEFINE l == Head(open_orders)
<1>1. l \in SyncOrder
  BY HeadTailProperties DEF ReconcileOrder, IInv, TypeOK
<1>2. CASE UNCHANGED maps \/ MatchByBrokerId(l) \/ MatchByKey(l)
  BY <1>2 DEF MatchByBrokerId, MatchByKey, maps
<1>3. CASE Import(l)
  <2>1. CASE l.client = NoKey
    <3>1. Registry!Anonymous
      BY <1>3, <2>1 DEF Import, Registry!Anonymous, Id
    <3> QED BY <3>1 DEF Registry!Next
  <2>2. CASE l.client # NoKey
    <3>1. l.client \in Key
      BY <1>1, <2>2 DEF SyncOrder
    <3>2. Registry!Register(l.client)
      BY <1>3, <2>2 DEF Import, Registry!Register, Insert, Id
    <3> QED BY <3>1, <3>2 DEF Registry!Next
  <2> QED BY <2>1, <2>2
<1> QED BY <1>2, <1>3 DEF ReconcileOrder

\* The OMS implements the registry: whatever mixes placements, acknowledgements
\* and snapshots, a key is registered once, under a fresh id, and never moves.
THEOREM OmsImplementsRegistry == Spec => RegistrySpec
<1>1. Init => Registry!Init
  BY DEF Init, Registry!Init
<1>2. ASSUME IInv, [Next]_vars
      PROVE  [Registry!Next]_<<idempotency_cache, next_order_id>>
  <2>1. CASE \E k \in Key, ok \in BOOLEAN : NewOrder(k, ok)
    BY <1>2, <2>1, NewOrderRegisters
  <2>2. CASE ReconcileOrder
    BY <1>2, <2>2, ReconcileRegisters
  <2>3. CASE /\ ~ \E k \in Key, ok \in BOOLEAN : NewOrder(k, ok)
             /\ ~ ReconcileOrder
    BY <1>2, <2>3 DEF Next, vars, maps, CancelOrder, Ack, Fill, Status, CancelAck,
       CancelReject, Heartbeat, TimeoutTick, CancelTimedOut, CheckCancelTimeouts,
       StateSync, ReconcileStale, Shutdown, Stopped, ClockTick, BridgeRead
  <2> QED BY <2>1, <2>2, <2>3
<1> QED BY <1>1, <1>2, OmsInvariant, PTL DEF Spec, RegistrySpec, Registry!Spec

-----------------------------------------------------------------------------
(* The flow of an order: what the broker executed and what is known of it. *)

BrokerOrder == [client: Key, filled: 0 .. OrderQty,
                status: {"Live", "Filled", "Cancelled"}]

FillEvent == [type: {"Fill"}, key: Key, size: FillSizes, symbol: Nat \ {0}]
StatusEvent == [type: {"Status"}, key: Key, status: {"Live", "Filled", "Cancelled"},
                filled: 0 .. OrderQty, symbol: Nat \ {0}]
SyncEvent == [type: {"StateSync"}, list: SyncLists, symbol: {1}]
CancelAnswer == [type: {"CancelAck", "CancelReject"}, id: Id, symbol: {0}]
Event == FillEvent \cup StatusEvent \cup SyncEvent \cup CancelAnswer

\* The fills of key k behind the first n events of the inbox.
FillsAfter(n, k) ==
  SumFunctionOnSet([m \in DOMAIN inbox |-> Shares(inbox[m], k)], (n + 1) .. Len(inbox))

\* A statement "x shares of k are filled", made when n events of today's inbox
\* were already on their way: with the fills behind them it never exceeds what
\* the broker executed, and it is exactly that if k names at most one order.
Consistent(x, k, n) ==
  /\ x + FillsAfter(n, k) <= Executed(k)
  /\ Cardinality(OrdersOf(k)) <= 1 => x + FillsAfter(n, k) = Executed(k)

\* An order of a snapshot, with n events of the inbox before or at it.
Listed(l, n) ==
  /\ l.status = "Live"
  /\ l.broker \in DOMAIN book /\ l.client = book[l.broker].client
  /\ Consistent(l.filled, l.client, n)

\* Event n of the inbox tells the truth as of its place in the inbox.
ReportTrue(n) ==
  LET e == inbox[n]
  IN /\ e.type = "Status" =>
          /\ Consistent(e.filled, e.key, n)
          /\ e.status = "Filled" => Executed(e.key) >= OrderQty
     /\ e.type = "StateSync" => \A m \in DOMAIN e.list : Listed(e.list[m], n)

KnownKeys == past_keys \cup DOMAIN idempotency_cache

\* The broker's ids are handed out without gaps, and its book is well formed.
BookInv ==
  /\ book \in [DOMAIN book -> BrokerOrder]
  /\ DOMAIN book \subseteq BrokerId
  /\ \E n \in Nat : DOMAIN book = FirstBrokerId .. (FirstBrokerId + n - 1)
  /\ \A b \in DOMAIN book : book[b].status = "Filled" => book[b].filled = OrderQty

InboxInv == inbox \in Seq(Event) /\ Len(inbox) <= MaxInbox

\* No key is at the broker, or on its way to it, that a run did not register.
KeysKnown ==
  /\ past_keys \subseteq Key
  /\ \A b \in DOMAIN book : book[b].client \in KnownKeys
  /\ \A n \in DOMAIN cmd_sock : cmd_sock[n].type = "NewOrder" => cmd_sock[n].key \in KnownKeys

\* No fill is on its way that the broker did not execute.
FillsExecuted == \A k \in Key : FillsAfter(0, k) <= Executed(k)

OrdersTrue ==
  \A i \in DOMAIN orders :
    /\ Consistent(orders[i].filled, orders[i].client, 0)
    /\ orders[i].status = "Filled" => Executed(orders[i].client) >= OrderQty

ReportsTrue == \A n \in DOMAIN inbox : ReportTrue(n)

SyncTrue ==
  /\ arm # "sync" => open_orders = <<>>
  /\ \A m \in DOMAIN open_orders : Listed(open_orders[m], 0)

\* A broker id stands here for the order it stands for at the broker.
NamesTrue ==
  \A b \in DOMAIN broker_map :
    b \in DOMAIN book /\ orders[broker_map[b]].client = book[b].client

FlowInv ==
  /\ BookInv /\ InboxInv /\ KeysKnown /\ FillsExecuted
  /\ OrdersTrue /\ ReportsTrue /\ SyncTrue /\ NamesTrue

-----------------------------------------------------------------------------
(* Sums over the inbox. *)

\* An event carries a number of shares of a key.
LEMMA SharesType ==
  ASSUME NEW e \in Event, NEW k
  PROVE  Shares(e, k) \in Nat
BY OmsAssumption DEF Shares, Event, FillEvent, StatusEvent, SyncEvent, CancelAnswer

\* The shares behind a place of the inbox, as a sum of naturals.
LEMMA AfterType ==
  ASSUME InboxInv, NEW k, NEW n \in Nat
  PROVE  FillsAfter(n, k) \in Nat
<1> DEFINE f == [m \in DOMAIN inbox |-> Shares(inbox[m], k)]
           S == (n + 1) .. Len(inbox)
<1>1. IsFiniteSet(S)
  BY FS_Interval DEF InboxInv
<1>2. \A m \in S : f[m] \in Nat
  BY SharesType DEF InboxInv
<1> HIDE DEF f, S
<1>3. SumFunctionOnSet(f, S) \in Nat
  BY <1>1, <1>2, SumOfNats
<1> QED BY <1>3 DEF FillsAfter, f, S

\* An event that is queued adds its shares behind every earlier place.
LEMMA AfterAppended ==
  ASSUME InboxInv, NEW e \in Event, inbox' = Append(inbox, e), NEW k
  PROVE  /\ \A n \in 0 .. Len(inbox) : FillsAfter(n, k)' = FillsAfter(n, k) + Shares(e, k)
         /\ \A n \in Nat : n = Len(inbox) + 1 => FillsAfter(n, k)' = 0
<1> DEFINE f == [m \in DOMAIN inbox |-> Shares(inbox[m], k)]
           g == [m \in DOMAIN inbox' |-> Shares(inbox'[m], k)]
           N == Len(inbox)
<1>1. /\ N \in Nat /\ DOMAIN inbox = 1 .. N /\ \A m \in 1 .. N : inbox[m] \in Event
      /\ Len(inbox') = N + 1 /\ DOMAIN inbox' = 1 .. N + 1
      /\ inbox'[N + 1] = e /\ \A m \in 1 .. N : inbox'[m] = inbox[m]
  BY DEF InboxInv
<1>2. /\ \A m \in 1 .. N : f[m] \in Nat /\ g[m] = f[m]
      /\ g[N + 1] = Shares(e, k) /\ Shares(e, k) \in Nat
  BY <1>1, SharesType
<1>3. \A n \in Nat : FillsAfter(n, k) = SumFunctionOnSet(f, (n + 1) .. N)
  BY DEF FillsAfter
<1>4. \A n \in Nat : FillsAfter(n, k)' = SumFunctionOnSet(g, (n + 1) .. (N + 1))
  BY <1>1 DEF FillsAfter
<1> HIDE DEF f, g, N
<1>5. ASSUME NEW n \in 0 .. N
      PROVE  SumFunctionOnSet(g, (n + 1) .. (N + 1))
               = SumFunctionOnSet(f, (n + 1) .. N) + Shares(e, k)
  <2> DEFINE S == (n + 1) .. N
  <2>1. (n + 1) .. (N + 1) = S \cup {N + 1} /\ N + 1 \notin S
    BY <1>1
  <2>2. IsFiniteSet(S)
    BY <1>1, FS_Interval
  <2>3. \A m \in S : m \in 1 .. N
    BY <1>1
  <2>4. \A m \in S \cup {N + 1} : g[m] \in Int
    BY <1>2, <2>3
  <2>5. \A m \in S : g[m] = f[m]
    BY <1>2, <2>3
  <2> HIDE DEF S
  <2>6. SumFunctionOnSet(g, S \cup {N + 1}) = SumFunctionOnSet(g, S) + g[N + 1]
    BY <2>1, <2>2, <2>4, SumAdd
  <2>7. SumFunctionOnSet(g, S) = SumFunctionOnSet(f, S)
    BY <2>2, <2>5, SumSame
  <2> QED BY <1>2, <2>1, <2>6, <2>7 DEF S
<1>6. SumFunctionOnSet(g, (N + 2) .. (N + 1)) = 0
  <2>1. (N + 2) .. (N + 1) = {}
    BY <1>1
  <2> QED BY <2>1, SumChosen, FS_EmptySet
<1>7. N + 1 \in Nat /\ (N + 1) + 1 = N + 2 /\ 0 .. N \subseteq Nat
  BY <1>1
<1>8. ASSUME NEW n \in Nat, n = N + 1 PROVE FillsAfter(n, k)' = 0
  <2>1. n + 1 = N + 2
    BY <1>1, <1>8
  <2> QED BY <1>4, <1>6, <1>8, <2>1
<1>9. \A n \in 0 .. N : FillsAfter(n, k)' = FillsAfter(n, k) + Shares(e, k)
  BY <1>3, <1>4, <1>5, <1>7
<1> QED BY <1>8, <1>9 DEF N

\* The head of the inbox takes its shares away and moves the others up by one.
LEMMA AfterPopped ==
  ASSUME InboxInv, inbox # <<>>, inbox' = Tail(inbox), NEW k
  PROVE  /\ \A n \in 1 .. Len(inbox) : FillsAfter(n - 1, k)' = FillsAfter(n, k)
         /\ FillsAfter(0, k) = Shares(Head(inbox), k) + FillsAfter(0, k)'
<1> DEFINE f == [m \in DOMAIN inbox |-> Shares(inbox[m], k)]
           g == [m \in DOMAIN inbox' |-> Shares(inbox'[m], k)]
           N == Len(inbox)
<1>1. /\ N \in Nat /\ N >= 1 /\ DOMAIN inbox = 1 .. N /\ \A m \in 1 .. N : inbox[m] \in Event
      /\ Len(inbox') = N - 1 /\ DOMAIN inbox' = 1 .. N - 1
      /\ Head(inbox) = inbox[1] /\ \A m \in 1 .. N - 1 : inbox'[m] = inbox[m + 1]
  BY DEF InboxInv
<1>2. /\ \A m \in 1 .. N : f[m] \in Nat
      /\ f[1] = Shares(Head(inbox), k) /\ Shares(Head(inbox), k) \in Nat
      /\ \A m \in 1 .. N - 1 : g[m] = f[m + 1] /\ g[m] \in Int
  BY <1>1, SharesType
<1>3. \A n \in Nat : FillsAfter(n, k) = SumFunctionOnSet(f, (n + 1) .. N)
  BY DEF FillsAfter
<1>4. \A n \in Nat : FillsAfter(n, k)' = SumFunctionOnSet(g, (n + 1) .. (N - 1))
  BY <1>1 DEF FillsAfter
<1> HIDE DEF f, g, N
<1>5. ASSUME NEW n \in 1 .. N
      PROVE  SumFunctionOnSet(g, n .. (N - 1)) = SumFunctionOnSet(f, (n + 1) .. N)
  <2> DEFINE hi == N - 1
  <2>1. n \in Int /\ hi \in Int /\ 1 \in Int /\ hi + 1 = N
    BY <1>1
  <2>2. \A m \in n .. hi : g[m] \in Int /\ g[m] = f[m + 1]
    BY <1>1, <1>2
  <2> HIDE DEF hi
  <2>3. SumFunctionOnSet(g, n .. hi) = SumFunctionOnSet(f, (n + 1) .. (hi + 1))
    BY <2>1, <2>2, SumMoved
  <2> QED BY <2>1, <2>3 DEF hi
<1>6. SumFunctionOnSet(f, 1 .. N) = f[1] + SumFunctionOnSet(f, 2 .. N)
  <2>1. 1 \in 1 .. N /\ (1 .. N) \ {1} = 2 .. N
    BY <1>1
  <2> DEFINE S == 1 .. N
  <2>2. IsFiniteSet(S)
    BY <1>1, FS_Interval
  <2>3. 1 \in S /\ \A m \in S : f[m] \in Int
    BY <1>2, <2>1
  <2> HIDE DEF S
  <2>4. SumFunctionOnSet(f, S) = f[1] + SumFunctionOnSet(f, S \ {1})
    BY <2>2, <2>3, SumRemove
  <2> QED BY <2>1, <2>4 DEF S
<1>7. \A n \in 1 .. N : n - 1 \in Nat /\ (n - 1) + 1 = n /\ n \in Nat
  BY <1>1
<1>8. \A n \in 1 .. N : FillsAfter(n - 1, k)' = FillsAfter(n, k)
  BY <1>3, <1>4, <1>5, <1>7
<1>9. FillsAfter(0, k) = Shares(Head(inbox), k) + FillsAfter(0, k)'
  <2>1. FillsAfter(0, k) = SumFunctionOnSet(f, 1 .. N)
    BY <1>3
  <2>2. FillsAfter(0, k)' = SumFunctionOnSet(g, 1 .. (N - 1))
    BY <1>4
  <2>3. SumFunctionOnSet(g, 1 .. (N - 1)) = SumFunctionOnSet(f, 2 .. N)
    <3>1. 1 \in 1 .. N /\ 1 + 1 = 2
      BY <1>1
    <3> QED BY <1>5, <3>1
  <2> QED BY <1>2, <1>6, <2>1, <2>2, <2>3
<1> QED BY <1>8, <1>9 DEF N
-----------------------------------------------------------------------------
(* What the broker executed. *)

\* The orders of a key are finitely many, and each counts in what was executed.
LEMMA ExecutedType ==
  ASSUME BookInv, NEW k
  PROVE  /\ IsFiniteSet(OrdersOf(k)) /\ Executed(k) \in Nat
         /\ \A b \in OrdersOf(k) :
              /\ book[b].filled <= Executed(k)
              /\ Cardinality(OrdersOf(k)) <= 1 => book[b].filled = Executed(k)
<1> DEFINE f == [b \in DOMAIN book |-> book[b].filled]
           S == OrdersOf(k)
<1>1. S \subseteq DOMAIN book /\ IsFiniteSet(S)
  <2>1. S \subseteq DOMAIN book
    BY DEF OrdersOf
  <2>2. IsFiniteSet(DOMAIN book)
    BY FlowAssumption, FS_Subset DEF BookInv
  <2> QED BY <2>1, <2>2, FS_Subset
<1>2. \A b \in S : f[b] = book[b].filled /\ f[b] \in Nat
  BY <1>1, OmsAssumption DEF BookInv, BrokerOrder
<1>3. Executed(k) = SumFunctionOnSet(f, S)
  BY DEF Executed
<1> HIDE DEF f, S
<1>4. Executed(k) \in Nat /\ \A b \in S : f[b] <= Executed(k)
  BY <1>1, <1>2, <1>3, SumOfNats
<1>5. ASSUME NEW b \in S, Cardinality(S) <= 1
      PROVE  f[b] = Executed(k)
  <2>1. S \ {b} = {}
    <3>1. IsFiniteSet(S \ {b}) /\ Cardinality(S \ {b}) = Cardinality(S) - 1
      BY <1>1, <1>5, FS_RemoveElement
    <3>2. Cardinality(S) \in Nat /\ Cardinality(S \ {b}) \in Nat
      BY <1>1, <3>1, FS_CardinalityType
    <3>3. Cardinality(S \ {b}) = 0
      BY <1>5, <3>1, <3>2
    <3> QED BY <3>1, <3>3, FS_EmptySet
  <2>2. \A c \in S : f[c] \in Int
    BY <1>2
  <2>3. SumFunctionOnSet(f, S) = f[b] + SumFunctionOnSet(f, S \ {b})
    BY <1>1, <1>5, <2>2, SumRemove
  <2>4. SumFunctionOnSet(f, {}) = 0
    BY SumChosen, FS_EmptySet
  <2> QED BY <1>2, <1>3, <1>5, <2>1, <2>3, <2>4
<1> QED BY <1>1, <1>2, <1>4, <1>5 DEF S

\* A broker order placed, cancelled or expired executes nothing.
LEMMA ExecutedKept ==
  ASSUME BookInv, BookInv', NEW k,
         DOMAIN book \subseteq DOMAIN book',
         \A b \in DOMAIN book :
           book'[b].client = book[b].client /\ book'[b].filled = book[b].filled,
         \A b \in DOMAIN book' \ DOMAIN book : book'[b].filled = 0
  PROVE  /\ Executed(k)' = Executed(k)
         /\ Cardinality(OrdersOf(k))' <= 1 => Cardinality(OrdersOf(k)) <= 1
<1> DEFINE f == [b \in DOMAIN book |-> book[b].filled]
           g == [b \in DOMAIN book' |-> book'[b].filled]
           S == OrdersOf(k)
           T == OrdersOf(k)'
<1>1. S \subseteq T /\ T \subseteq DOMAIN book' /\ S \subseteq DOMAIN book
  BY DEF OrdersOf
<1>2. T \ S \subseteq DOMAIN book' \ DOMAIN book
  BY DEF OrdersOf
<1>3. IsFiniteSet(S) /\ IsFiniteSet(T)
  <2>1. DOMAIN book' \subseteq BrokerId /\ IsFiniteSet(BrokerId)
    BY FlowAssumption DEF BookInv
  <2>2. S \subseteq BrokerId /\ T \subseteq BrokerId
    BY <1>1, <2>1
  <2> QED BY <2>1, <2>2, FS_Subset
<1>4. /\ \A b \in T : g[b] \in Int
      /\ \A b \in T \ S : g[b] = 0
      /\ \A b \in S : g[b] = f[b]
  BY <1>1, <1>2, OmsAssumption DEF BookInv, BrokerOrder
<1>5. Executed(k) = SumFunctionOnSet(f, S) /\ Executed(k)' = SumFunctionOnSet(g, T)
  BY DEF Executed
<1> HIDE DEF f, g, S, T
<1>6. SumFunctionOnSet(g, T) = SumFunctionOnSet(g, S)
  BY <1>1, <1>3, <1>4, SumSupport
<1>7. SumFunctionOnSet(g, S) = SumFunctionOnSet(f, S)
  BY <1>3, <1>4, SumSame
<1>8. Cardinality(S) <= Cardinality(T) /\ Cardinality(S) \in Nat /\ Cardinality(T) \in Nat
  BY <1>1, <1>3, FS_Subset, FS_CardinalityType
<1>9. Cardinality(T) <= 1 => Cardinality(S) <= 1
  BY <1>8
<1> QED BY <1>5, <1>6, <1>7, <1>9 DEF S, T

\* A fill executes its size for the key of its order.
LEMMA ExecutedGrows ==
  ASSUME BookInv, NEW k, NEW b \in DOMAIN book, NEW size \in Nat,
         DOMAIN book' = DOMAIN book,
         \A c \in DOMAIN book : book'[c].client = book[c].client,
         \A c \in DOMAIN book : c # b => book'[c].filled = book[c].filled,
         book'[b].filled = book[b].filled + size
  PROVE  /\ Executed(k)' = Executed(k) + IF book[b].client = k THEN size ELSE 0
         /\ Cardinality(OrdersOf(k))' = Cardinality(OrdersOf(k))
<1> DEFINE f == [c \in DOMAIN book |-> book[c].filled]
           g == [c \in DOMAIN book' |-> book'[c].filled]
           S == OrdersOf(k)
<1>1. OrdersOf(k)' = S /\ S \subseteq DOMAIN book /\ (b \in S <=> book[b].client = k)
  BY DEF OrdersOf
<1>2. IsFiniteSet(S)
  BY ExecutedType
<1>3. /\ \A c \in S : f[c] \in Int
      /\ g[b] = f[b] + size
      /\ \A c \in S : c # b => g[c] = f[c]
  BY <1>1, OmsAssumption DEF BookInv, BrokerOrder
<1>4. Executed(k) = SumFunctionOnSet(f, S) /\ Executed(k)' = SumFunctionOnSet(g, S)
  BY <1>1 DEF Executed
<1>5. size \in Int
  OBVIOUS
<1> HIDE DEF f, g, S
<1>6. SumFunctionOnSet(g, S) = SumFunctionOnSet(f, S) + IF b \in S THEN size ELSE 0
  BY <1>2, <1>3, <1>5, SumGrows
<1>7. Cardinality(OrdersOf(k))' = Cardinality(OrdersOf(k))
  BY <1>1 DEF S
<1>8. Executed(k)' = Executed(k) + IF book[b].client = k THEN size ELSE 0
  BY <1>1, <1>4, <1>6
<1> QED BY <1>7, <1>8

-----------------------------------------------------------------------------
(* Statements that stay true while the broker and the bridge move. *)

AnyKey == Key \cup {NoKey}

\* What is said of filled shares, anywhere in the inbox, holds after the step.
Carried ==
  /\ \A k \in AnyKey : Executed(k)' >= Executed(k) /\ Executed(k)' \in Nat
  /\ \A x \in Nat, k \in AnyKey, n \in 0 .. Len(inbox) :
       Consistent(x, k, n) => Consistent(x, k, n)'

\* The book may grow; the orders in it keep their keys.
BookGrows ==
  /\ DOMAIN book \subseteq DOMAIN book'
  /\ \A b \in DOMAIN book : book'[b].client = book[b].client

\* No order executes, and a new one has executed nothing.
NoExecution ==
  /\ \A b \in DOMAIN book : book'[b].filled = book[b].filled
  /\ \A b \in DOMAIN book' \ DOMAIN book : book'[b].filled = 0

\* Without an execution, and without a fill queued, all statements stay true.
LEMMA CarriedIdle ==
  ASSUME BookInv, BookInv', InboxInv, FillsExecuted, BookGrows, NoExecution,
         \/ inbox' = inbox
         \/ \E e \in Event : inbox' = Append(inbox, e) /\ e.type # "Fill"
  PROVE  Carried /\ FillsExecuted'
<1>1. Len(inbox) \in Nat
  BY DEF InboxInv
<1>2. ASSUME NEW k
      PROVE  /\ Executed(k)' = Executed(k) /\ Executed(k) \in Nat
             /\ Cardinality(OrdersOf(k))' <= 1 => Cardinality(OrdersOf(k)) <= 1
             /\ \A n \in 0 .. Len(inbox) : FillsAfter(n, k)' = FillsAfter(n, k)
  <2>1. /\ Executed(k)' = Executed(k)
        /\ Cardinality(OrdersOf(k))' <= 1 => Cardinality(OrdersOf(k)) <= 1
    BY ExecutedKept DEF BookGrows, NoExecution
  <2>2. Executed(k) \in Nat
    BY ExecutedType
  <2>3. \A n \in 0 .. Len(inbox) : FillsAfter(n, k)' = FillsAfter(n, k)
    <3>1. CASE inbox' = inbox
      BY <3>1 DEF FillsAfter
    <3>2. CASE \E e \in Event : inbox' = Append(inbox, e) /\ e.type # "Fill"
      <4>1. PICK e \in Event : inbox' = Append(inbox, e) /\ e.type # "Fill"
        BY <3>2
      <4>2. Shares(e, k) = 0
        BY <4>1 DEF Shares
      <4>3. \A n \in 0 .. Len(inbox) : FillsAfter(n, k)' = FillsAfter(n, k) + Shares(e, k)
        BY <4>1, AfterAppended
      <4>4. \A n \in 0 .. Len(inbox) : FillsAfter(n, k) \in Nat
        BY <1>1, AfterType
      <4> QED BY <4>2, <4>3, <4>4
    <3> QED BY <3>1, <3>2
  <2> QED BY <2>1, <2>2, <2>3
<1>3. ASSUME NEW x \in Nat, NEW k \in AnyKey, NEW n \in 0 .. Len(inbox), Consistent(x, k, n)
      PROVE  Consistent(x, k, n)'
  BY <1>2, <1>3 DEF Consistent
<1>4. \A k \in AnyKey : Executed(k)' >= Executed(k) /\ Executed(k)' \in Nat
  BY <1>2
<1>5. FillsExecuted'
  <2>1. 0 \in 0 .. Len(inbox)
    BY <1>1
  <2> QED BY <1>2, <2>1 DEF FillsExecuted
<1> QED BY <1>3, <1>4, <1>5 DEF Carried

\* A fill at the broker puts into the inbox what it adds to the book.
LEMMA CarriedFill ==
  ASSUME BookInv, InboxInv, FillsExecuted, NEW b \in DOMAIN book, NEW size \in Nat,
         DOMAIN book' = DOMAIN book, BookGrows,
         \A c \in DOMAIN book : c # b => book'[c].filled = book[c].filled,
         book'[b].filled = book[b].filled + size,
         NEW e \in Event, inbox' = Append(inbox, e),
         e.type = "Fill", e.key = book[b].client, e.size = size
  PROVE  Carried /\ FillsExecuted'
<1>1. Len(inbox) \in Nat
  BY DEF InboxInv
<1>2. ASSUME NEW k
      PROVE  /\ Executed(k)' = Executed(k) + Shares(e, k)
             /\ Executed(k) \in Nat /\ Shares(e, k) \in Nat
             /\ Cardinality(OrdersOf(k))' = Cardinality(OrdersOf(k))
             /\ \A n \in 0 .. Len(inbox) :
                  FillsAfter(n, k)' = FillsAfter(n, k) + Shares(e, k) /\ FillsAfter(n, k) \in Nat
  <2>1. Shares(e, k) = IF book[b].client = k THEN size ELSE 0
    BY DEF Shares
  <2>2. /\ Executed(k)' = Executed(k) + IF book[b].client = k THEN size ELSE 0
        /\ Cardinality(OrdersOf(k))' = Cardinality(OrdersOf(k))
    BY ExecutedGrows DEF BookGrows
  <2>3. Executed(k) \in Nat
    BY ExecutedType
  <2>4. \A n \in 0 .. Len(inbox) : FillsAfter(n, k)' = FillsAfter(n, k) + Shares(e, k)
    BY AfterAppended
  <2>5. \A n \in 0 .. Len(inbox) : FillsAfter(n, k) \in Nat
    BY <1>1, AfterType
  <2> QED BY <2>1, <2>2, <2>3, <2>4, <2>5
<1>3. ASSUME NEW x \in Nat, NEW k \in AnyKey, NEW n \in 0 .. Len(inbox), Consistent(x, k, n)
      PROVE  Consistent(x, k, n)'
  BY <1>2, <1>3 DEF Consistent
<1>4. \A k \in AnyKey : Executed(k)' >= Executed(k) /\ Executed(k)' \in Nat
  BY <1>2
<1>5. FillsExecuted'
  <2>1. 0 \in 0 .. Len(inbox)
    BY <1>1
  <2> QED BY <1>2, <2>1 DEF FillsExecuted
<1> QED BY <1>3, <1>4, <1>5 DEF Carried

\* The orders of a snapshot are orders as a StateSync lists them.
LEMMA SnapshotType ==
  ASSUME NEW list \in SyncLists
  PROVE  /\ list \in Seq(SyncOrder) /\ Len(list) <= MaxSync
         /\ \A m \in DOMAIN list : list[m] \in SyncOrder
BY OmsAssumption DEF SyncLists

\* A listed order stays one.
LEMMA ListedCarried ==
  ASSUME Carried, BookGrows, NEW l \in SyncOrder, NEW n \in 0 .. Len(inbox), Listed(l, n)
  PROVE  Listed(l, n)'
<1>1. l.filled \in Nat /\ l.client \in AnyKey
  <2>1. l.filled \in SyncFilled /\ l.client \in AnyKey
    BY DEF SyncOrder, AnyKey
  <2>2. SyncFilled \subseteq Nat
    BY OmsAssumption
  <2> QED BY <2>1, <2>2
<1> QED BY <1>1 DEF Carried, BookGrows, Listed

\* An event in the inbox goes on telling the truth.
LEMMA ReportCarried ==
  ASSUME Carried, BookGrows, BookInv, InboxInv, NEW n \in DOMAIN inbox, ReportTrue(n),
         inbox'[n] = inbox[n]
  PROVE  ReportTrue(n)'
<1> DEFINE e == inbox[n]
<1>1. e \in Event /\ n \in 0 .. Len(inbox)
  BY DEF InboxInv
<1>2. CASE e.type = "Status"
  <2>1. e.key \in AnyKey /\ e.filled \in Nat
    BY <1>1, <1>2, OmsAssumption
       DEF Event, FillEvent, StatusEvent, SyncEvent, CancelAnswer, AnyKey
  <2>2. /\ Consistent(e.filled, e.key, n)
        /\ e.status = "Filled" => Executed(e.key) >= OrderQty
    BY <1>2 DEF ReportTrue
  <2> HIDE DEF e
  <2>4. PICK x, k, s : x = inbox[n].filled /\ k = inbox[n].key /\ s = inbox[n].status
    OBVIOUS
  <2>5. Consistent(x, k, n)' /\ (s = "Filled" => Executed(k)' >= OrderQty)
    <3>1. Executed(k) \in Nat /\ OrderQty \in Nat
      BY ExecutedType, OmsAssumption
    <3> QED BY <1>1, <2>1, <2>2, <2>4, <3>1 DEF Carried, e
  <2> QED BY <1>2, <2>4, <2>5 DEF ReportTrue, e
<1>3. CASE e.type = "StateSync"
  <2>1. e.list \in SyncLists
    BY <1>1, <1>3 DEF Event, FillEvent, StatusEvent, SyncEvent, CancelAnswer
  <2>2. ASSUME NEW m \in DOMAIN e.list PROVE Listed(inbox[n].list[m], n)'
    <3>1. PICK l : l = e.list[m]
      OBVIOUS
    <3>2. l \in SyncOrder /\ Listed(l, n)
      BY <1>3, <2>1, <3>1, SnapshotType DEF ReportTrue
    <3>3. Listed(l, n)'
      BY <1>1, <3>2, ListedCarried
    <3> QED BY <3>1, <3>3
  <2> QED BY <1>3, <2>2 DEF ReportTrue
<1>4. CASE e.type \notin {"Status", "StateSync"}
  BY <1>4 DEF ReportTrue
<1> QED BY <1>2, <1>3, <1>4

-----------------------------------------------------------------------------
(* Steps of the bridge and of the broker. *)

\* Such a step leaves the OMS alone; what it queues must be true as queued.
LEMMA EnvStep ==
  ASSUME IInv, FlowInv, UNCHANGED <<orders, maps, loop, past_keys>>,
         cmd_sock' = cmd_sock \/ (cmd_sock # <<>> /\ cmd_sock' = Tail(cmd_sock)),
         BookInv', BookGrows, \A b \in DOMAIN book' : book'[b].client \in KnownKeys,
         Carried, FillsExecuted',
         \/ inbox' = inbox
         \/ \E e \in Event : Len(inbox) < MaxInbox /\ inbox' = Append(inbox, e),
         \A n \in Nat : (n = Len(inbox) + 1 /\ n \in DOMAIN inbox') => ReportTrue(n)'
  PROVE  FlowInv'
<1> USE DEF FlowInv
<1>1. InboxInv' /\ \A n \in DOMAIN inbox : n \in DOMAIN inbox' /\ inbox'[n] = inbox[n]
  <2>1. CASE inbox' = inbox
    BY <2>1 DEF InboxInv
  <2>2. ASSUME NEW e \in Event, Len(inbox) < MaxInbox, inbox' = Append(inbox, e)
        PROVE  InboxInv' /\ \A n \in DOMAIN inbox : n \in DOMAIN inbox' /\ inbox'[n] = inbox[n]
    <3>1. inbox \in Seq(Event) /\ MaxInbox \in Nat
      BY FlowAssumption DEF InboxInv
    <3>2. /\ inbox' \in Seq(Event) /\ Len(inbox') = Len(inbox) + 1
          /\ \A n \in 1 .. Len(inbox) : inbox'[n] = inbox[n]
      BY <2>2, <3>1, AppendProperties
    <3> QED BY <2>2, <3>1, <3>2 DEF InboxInv
  <2> QED BY <2>1, <2>2
<1>2. \A n \in DOMAIN inbox' : n \in Nat /\ (n \in DOMAIN inbox \/ n = Len(inbox) + 1)
  BY DEF InboxInv
<1>3. 0 \in 0 .. Len(inbox)
  BY DEF InboxInv
<1>4. KnownKeys' = KnownKeys
  BY DEF KnownKeys, maps
<1>5. KeysKnown'
  <2>1. ASSUME NEW n \in DOMAIN cmd_sock', cmd_sock'[n].type = "NewOrder"
        PROVE  cmd_sock'[n].key \in KnownKeys
    <3>1. CASE cmd_sock' = cmd_sock
      BY <2>1, <3>1 DEF KeysKnown
    <3>2. CASE cmd_sock # <<>> /\ cmd_sock' = Tail(cmd_sock)
      <4>1. n + 1 \in DOMAIN cmd_sock /\ cmd_sock'[n] = cmd_sock[n + 1]
        BY <2>1, <3>2 DEF IInv, TypeOK
      <4> QED BY <2>1, <4>1 DEF KeysKnown
    <3> QED BY <3>1, <3>2
  <2> QED BY <1>4, <2>1 DEF KeysKnown
<1>6. OrdersTrue'
  <2>1. ASSUME NEW i \in DOMAIN orders, NEW x, x = orders[i].filled, NEW k, k = orders[i].client
        PROVE  Consistent(x, k, 0)' /\ (orders[i].status = "Filled" => Executed(k)' >= OrderQty)
    <3>1. x \in Nat /\ k \in AnyKey
      <4>1. orders[i] \in Order /\ MaxFilled \in Nat
        BY OmsAssumption DEF IInv, TypeOK
      <4> QED BY <2>1, <4>1 DEF Order, AnyKey
    <3>2. Consistent(x, k, 0) /\ (orders[i].status = "Filled" => Executed(k) >= OrderQty)
      BY <2>1 DEF OrdersTrue
    <3>3. Executed(k) \in Nat /\ OrderQty \in Nat
      BY ExecutedType, OmsAssumption
    <3> QED BY <1>3, <3>1, <3>2, <3>3 DEF Carried
  <2> QED BY <2>1 DEF OrdersTrue
<1>7. ReportsTrue'
  <2>1. ASSUME NEW n \in DOMAIN inbox' PROVE ReportTrue(n)'
    <3>1. CASE n \in DOMAIN inbox
      BY <1>1, <3>1, ReportCarried DEF ReportsTrue
    <3>2. CASE n = Len(inbox) + 1
      BY <1>2, <3>2
    <3> QED BY <1>2, <3>1, <3>2
  <2> QED BY <2>1 DEF ReportsTrue
<1>8. SyncTrue'
  <2>1. ASSUME NEW m \in DOMAIN open_orders, NEW l, l = open_orders[m] PROVE Listed(l, 0)'
    <3>1. l \in SyncOrder /\ Listed(l, 0)
      BY <2>1 DEF SyncTrue, IInv, TypeOK
    <3> QED BY <1>3, <3>1, ListedCarried
  <2> QED BY <2>1 DEF SyncTrue, loop
<1>9. NamesTrue'
  BY DEF NamesTrue, BookGrows, maps
<1> QED BY <1>1, <1>5, <1>6, <1>7, <1>8, <1>9

\* The first command of the socket has its type.
LEMMA HeadCommand ==
  ASSUME IInv, cmd_sock # <<>>
  PROVE  /\ Head(cmd_sock) \in Command /\ Head(cmd_sock) = cmd_sock[1] /\ 1 \in DOMAIN cmd_sock
         /\ Head(cmd_sock).type = "NewOrder" => Head(cmd_sock).key \in Key
         /\ Head(cmd_sock).type = "CancelOrder" => Head(cmd_sock).id \in Id
BY DEF IInv, TypeOK, Command

\* The bridge places an order under the next broker id, or fails to.
LEMMA BridgeNewOrderInv ==
  ASSUME IInv, FlowInv, BridgeNewOrder
  PROVE  FlowInv'
<1> USE DEF FlowInv
<1>1. /\ cmd_sock # <<>> /\ Head(cmd_sock).type = "NewOrder" /\ cmd_sock' = Tail(cmd_sock)
      /\ UNCHANGED <<orders, maps, loop, inbox, past_keys>>
  BY DEF BridgeNewOrder
<1>2. \A n \in Nat : ~(n = Len(inbox) + 1 /\ n \in DOMAIN inbox')
  BY <1>1 DEF InboxInv
<1>3. CASE UNCHANGED book
  <2>1. BookInv' /\ BookGrows /\ NoExecution
    BY <1>3 DEF BookInv, BookGrows, NoExecution
  <2>2. \A b \in DOMAIN book' : book'[b].client \in KnownKeys
    BY <1>3 DEF KeysKnown
  <2>3. Carried /\ FillsExecuted'
    BY <1>1, <2>1, CarriedIdle
  <2> QED BY <1>1, <1>2, <2>1, <2>2, <2>3, EnvStep
<1>4. CASE ~ UNCHANGED book
  <2> DEFINE key == Head(cmd_sock).key
             c == FirstBrokerId + Cardinality(DOMAIN book)
             o == [client |-> key, filled |-> 0, status |-> "Live"]
  <2>1. c \in BrokerId /\ book' = Insert(book, c, o)
    BY <1>4 DEF BridgeNewOrder
  <2>2. key \in Key /\ key \in KnownKeys
    BY <1>1, HeadCommand DEF KeysKnown
  <2>3. o \in BrokerOrder /\ o.client = key /\ o.filled = 0 /\ o.status = "Live"
    BY <2>2, OmsAssumption DEF BrokerOrder
  <2> HIDE DEF o, key
  <2>4. PICK n \in Nat : DOMAIN book = FirstBrokerId .. (FirstBrokerId + n - 1)
    BY DEF BookInv
  <2>5. Cardinality(DOMAIN book) = n /\ FirstBrokerId \in Nat
    <3>1. FirstBrokerId \in Nat
      BY FlowAssumption
    <3>2. Cardinality(FirstBrokerId .. (FirstBrokerId + n - 1))
            = IF FirstBrokerId > FirstBrokerId + n - 1 THEN 0
              ELSE (FirstBrokerId + n - 1) - FirstBrokerId + 1
      BY <3>1, FS_Interval
    <3>3. Cardinality(FirstBrokerId .. (FirstBrokerId + n - 1)) = n
      BY <3>1, <3>2
    <3> QED BY <2>4, <3>1, <3>3
  <2>6. /\ c = FirstBrokerId + n /\ c \notin DOMAIN book
        /\ DOMAIN book \cup {c} = FirstBrokerId .. (FirstBrokerId + (n + 1) - 1)
    BY <2>4, <2>5
  <2> HIDE DEF c
  <2>7. /\ DOMAIN book' = DOMAIN book \cup {c} /\ book'[c] = o
        /\ \A b \in DOMAIN book : book'[b] = book[b]
        /\ book' \in [DOMAIN book \cup {c} -> BrokerOrder]
    <3>1. \A b \in DOMAIN book : book[b] \in BrokerOrder
      BY DEF BookInv
    <3> QED BY <2>1, <2>3, <2>6, <3>1 DEF Insert
  <2>8. BookInv'
    <3>1. n + 1 \in Nat /\ DOMAIN book' = FirstBrokerId .. (FirstBrokerId + (n + 1) - 1)
      BY <2>6, <2>7
    <3>2. DOMAIN book' \subseteq BrokerId
      BY <2>1, <2>7 DEF BookInv
    <3>3. \A b \in DOMAIN book' : book'[b].status = "Filled" => book'[b].filled = OrderQty
      BY <2>3, <2>7 DEF BookInv
    <3> QED BY <2>7, <3>1, <3>2, <3>3 DEF BookInv
  <2>9. BookGrows /\ NoExecution
    BY <2>3, <2>7 DEF BookGrows, NoExecution
  <2>10. \A b \in DOMAIN book' : book'[b].client \in KnownKeys
    BY <2>2, <2>3, <2>7 DEF KeysKnown
  <2>11. Carried /\ FillsExecuted'
    BY <1>1, <2>8, <2>9, CarriedIdle
  <2> QED BY <1>1, <1>2, <2>8, <2>9, <2>10, <2>11, EnvStep
<1> QED BY <1>3, <1>4

\* An order of the book that closes without executing.
LEMMA BookCloses ==
  ASSUME BookInv, KeysKnown, NEW b \in DOMAIN book,
         book' = [book EXCEPT ![b].status = "Cancelled"]
  PROVE  /\ BookInv' /\ BookGrows /\ NoExecution
         /\ \A c \in DOMAIN book' : book'[c].client \in KnownKeys
<1> DEFINE o == [book[b] EXCEPT !.status = "Cancelled"]
<1>1. \A c \in DOMAIN book : book[c] \in BrokerOrder
  BY DEF BookInv
<1>2. /\ o \in BrokerOrder /\ o.client = book[b].client /\ o.filled = book[b].filled
      /\ o.status = "Cancelled"
  BY <1>1 DEF BrokerOrder
<1>3. /\ DOMAIN book' = DOMAIN book /\ book'[b] = o
      /\ \A c \in DOMAIN book : c # b => book'[c] = book[c]
      /\ book' \in [DOMAIN book -> BrokerOrder]
  BY <1>1, <1>2 DEF BookInv
<1> HIDE DEF o
<1>4. BookInv'
  BY <1>2, <1>3 DEF BookInv
<1>5. BookGrows /\ NoExecution
  BY <1>2, <1>3 DEF BookGrows, NoExecution
<1>6. \A c \in DOMAIN book' : book'[c].client \in KnownKeys
  BY <1>2, <1>3 DEF KeysKnown
<1> QED BY <1>4, <1>5, <1>6

\* The bridge answers a cancel, and cancels what it finds under the id.
LEMMA BridgeCancelInv ==
  ASSUME IInv, FlowInv, BridgeCancel
  PROVE  FlowInv'
<1> USE DEF FlowInv
<1> DEFINE i == Head(cmd_sock).id
           found == i \in DOMAIN book /\ Working(i)
           e == [type |-> IF found THEN "CancelAck" ELSE "CancelReject",
                 id |-> i, symbol |-> 0]
<1>1. /\ cmd_sock # <<>> /\ Head(cmd_sock).type = "CancelOrder" /\ cmd_sock' = Tail(cmd_sock)
      /\ book' = IF found THEN [book EXCEPT ![i].status = "Cancelled"] ELSE book
      /\ Len(inbox) < MaxInbox /\ inbox' = Append(inbox, e)
      /\ UNCHANGED <<orders, maps, loop, past_keys>>
  BY DEF BridgeCancel, Emit
<1>2. e \in Event /\ e.type # "Fill" /\ e.type # "Status" /\ e.type # "StateSync"
  <2>1. i \in Id
    BY <1>1, HeadCommand
  <2> QED BY <2>1 DEF Event, CancelAnswer
<1> HIDE DEF e
<1>3. /\ BookInv' /\ BookGrows /\ NoExecution
      /\ \A b \in DOMAIN book' : book'[b].client \in KnownKeys
  <2>1. CASE found
    BY <1>1, <2>1, BookCloses
  <2>2. CASE ~found
    BY <1>1, <2>2 DEF BookInv, BookGrows, NoExecution, KeysKnown
  <2> QED BY <2>1, <2>2
<1>4. Carried /\ FillsExecuted'
  BY <1>1, <1>2, <1>3, CarriedIdle
<1>5. ASSUME NEW n \in Nat, n = Len(inbox) + 1 PROVE ReportTrue(n)'
  <2>1. inbox'[n] = e
    BY <1>1, <1>2, <1>5 DEF InboxInv
  <2> QED BY <1>2, <2>1 DEF ReportTrue
<1> QED BY <1>1, <1>2, <1>3, <1>4, <1>5, EnvStep

\* An order that expires at the broker.
LEMMA BrokerExpireInv ==
  ASSUME IInv, FlowInv, NEW b \in BrokerId, BrokerExpire(b)
  PROVE  FlowInv'
<1> USE DEF FlowInv
<1>1. /\ b \in DOMAIN book /\ book' = [book EXCEPT ![b].status = "Cancelled"]
      /\ UNCHANGED <<orders, maps, loop, past_keys>> /\ cmd_sock' = cmd_sock /\ inbox' = inbox
  BY DEF BrokerExpire, vars
<1>2. /\ BookInv' /\ BookGrows /\ NoExecution
      /\ \A c \in DOMAIN book' : book'[c].client \in KnownKeys
  BY <1>1, BookCloses
<1>3. Carried /\ FillsExecuted'
  BY <1>1, <1>2, CarriedIdle
<1>4. \A n \in Nat : ~(n = Len(inbox) + 1 /\ n \in DOMAIN inbox')
  BY <1>1 DEF InboxInv
<1> QED BY <1>1, <1>2, <1>3, <1>4, EnvStep

\* An execution at the broker, and the fill that tells of it.
LEMMA BrokerFillInv ==
  ASSUME IInv, FlowInv, NEW b \in BrokerId, NEW size \in FillSizes, BrokerFill(b, size)
  PROVE  FlowInv'
<1> USE DEF FlowInv
<1> DEFINE done == book[b].filled + size
           status == IF done = OrderQty THEN "Filled" ELSE "Live"
           e == [type |-> "Fill", key |-> book[b].client, size |-> size,
                 symbol |-> SymbolOf[book[b].client]]
           o == [book[b] EXCEPT !.filled = @ + size, !.status = status]
<1>1. /\ b \in DOMAIN book /\ done <= OrderQty
      /\ book' = [book EXCEPT ![b].filled = @ + size, ![b].status = status]
      /\ Len(inbox) < MaxInbox /\ inbox' = Append(inbox, e)
      /\ UNCHANGED <<orders, maps, loop, past_keys>> /\ cmd_sock' = cmd_sock
  BY DEF BrokerFill, Emit, vars
<1>2. /\ \A c \in DOMAIN book : book[c] \in BrokerOrder
      /\ size \in FillSizes /\ size \in Nat /\ OrderQty \in Nat
  BY OmsAssumption DEF BookInv
<1>3. /\ book[b] = [client |-> book[b].client, filled |-> book[b].filled,
                    status |-> book[b].status]
      /\ book[b].client \in Key /\ book[b].filled \in Nat
  BY <1>1, <1>2 DEF BrokerOrder
<1>4. /\ o \in BrokerOrder /\ o.client = book[b].client /\ o.filled = done
      /\ o.status = "Filled" => o.filled = OrderQty
  BY <1>1, <1>2, <1>3 DEF BrokerOrder
<1>5. e \in Event /\ e.type = "Fill" /\ e.key = book[b].client /\ e.size = size
  BY <1>3, FlowAssumption DEF Event, FillEvent
<1>6. /\ DOMAIN book' = DOMAIN book /\ book'[b] = o
      /\ \A c \in DOMAIN book : c # b => book'[c] = book[c]
  <2>1. book' = [book EXCEPT ![b] = o]
    <3> HIDE DEF status
    <3> QED BY <1>1, <1>2 DEF BookInv, BrokerOrder
  <2> QED BY <1>1, <2>1
<1>7. book' \in [DOMAIN book -> BrokerOrder]
  BY <1>1, <1>2, <1>4, <1>6 DEF BookInv
<1> HIDE DEF o, e
<1>8. BookInv'
  BY <1>4, <1>6, <1>7 DEF BookInv
<1>9. BookGrows
  BY <1>4, <1>6 DEF BookGrows
<1>10. \A c \in DOMAIN book' : book'[c].client \in KnownKeys
  BY <1>4, <1>6 DEF KeysKnown
<1>11. /\ \A c \in DOMAIN book : c # b => book'[c].filled = book[c].filled
       /\ book'[b].filled = book[b].filled + size
  BY <1>4, <1>6
<1>12. Carried /\ FillsExecuted'
  BY <1>1, <1>2, <1>5, <1>6, <1>9, <1>11, CarriedFill
<1>13. ASSUME NEW n \in Nat, n = Len(inbox) + 1 PROVE ReportTrue(n)'
  <2>1. inbox'[n] = e
    BY <1>1, <1>5, <1>13 DEF InboxInv
  <2> QED BY <1>5, <2>1 DEF ReportTrue
<1> QED BY <1>1, <1>5, <1>8, <1>9, <1>10, <1>12, <1>13, EnvStep

\* What an order of the book says of itself is true at the end of the inbox.
LEMMA BookSpeaksTrue ==
  ASSUME BookInv, InboxInv, UNCHANGED book, NEW e \in Event, inbox' = Append(inbox, e),
         NEW b \in DOMAIN book, NEW x, x = book[b].filled, NEW k, k = book[b].client,
         NEW n \in Nat, n = Len(inbox) + 1
  PROVE  /\ Consistent(x, k, n)'
         /\ book[b].status = "Filled" => Executed(k)' >= OrderQty
<1>1. FillsAfter(n, k)' = 0
  BY AfterAppended
<1>2. /\ Executed(k)' = Executed(k)
      /\ Cardinality(OrdersOf(k))' = Cardinality(OrdersOf(k))
  BY DEF Executed, OrdersOf
<1>3. b \in OrdersOf(k)
  BY DEF OrdersOf
<1>4. /\ Executed(k) \in Nat /\ x <= Executed(k)
      /\ Cardinality(OrdersOf(k)) <= 1 => x = Executed(k)
  BY <1>3, ExecutedType
<1>5. x \in Nat /\ OrderQty \in Nat /\ (book[b].status = "Filled" => x = OrderQty)
  BY OmsAssumption DEF BookInv, BrokerOrder
<1>6. Consistent(x, k, n)'
  BY <1>1, <1>2, <1>4, <1>5 DEF Consistent
<1>7. book[b].status = "Filled" => Executed(k)' >= OrderQty
  BY <1>2, <1>4, <1>5
<1> QED BY <1>6, <1>7

\* A report or a snapshot changes nothing but the inbox.
LEMMA TellingInv ==
  ASSUME IInv, FlowInv, UNCHANGED <<vars, book, past_keys>>,
         NEW e \in Event, e.type # "Fill", Len(inbox) < MaxInbox, inbox' = Append(inbox, e),
         \A n \in Nat : n = Len(inbox) + 1 => ReportTrue(n)'
  PROVE  FlowInv'
<1> USE DEF FlowInv
<1>1. UNCHANGED <<orders, maps, loop, past_keys>> /\ cmd_sock' = cmd_sock
  BY DEF vars
<1>2. BookInv' /\ BookGrows /\ NoExecution
  BY DEF BookInv, BookGrows, NoExecution
<1>3. \A b \in DOMAIN book' : book'[b].client \in KnownKeys
  BY DEF KeysKnown
<1>4. Carried /\ FillsExecuted'
  BY <1>2, CarriedIdle
<1> QED BY <1>1, <1>2, <1>3, <1>4, EnvStep

\* The broker reports an order.
LEMMA BrokerReportInv ==
  ASSUME IInv, FlowInv, NEW b \in BrokerId, BrokerReport(b)
  PROVE  FlowInv'
<1> DEFINE e == [type |-> "Status", key |-> book[b].client, status |-> book[b].status,
                 filled |-> book[b].filled, symbol |-> SymbolOf[book[b].client]]
<1>1. /\ b \in DOMAIN book /\ Len(inbox) < MaxInbox /\ inbox' = Append(inbox, e)
      /\ UNCHANGED <<vars, book, past_keys>> /\ UNCHANGED book
  BY DEF BrokerReport, Emit
<1>2. book[b] \in BrokerOrder
  BY <1>1 DEF FlowInv, BookInv
<1>3. e \in Event /\ e.type = "Status"
  BY <1>2, FlowAssumption DEF Event, StatusEvent, BrokerOrder
<1>4. /\ e.filled = book[b].filled /\ e.key = book[b].client /\ e.status = book[b].status
  OBVIOUS
<1> HIDE DEF e
<1>5. ASSUME NEW n \in Nat, n = Len(inbox) + 1 PROVE ReportTrue(n)'
  <2>1. inbox'[n] = e
    BY <1>1, <1>3, <1>5 DEF FlowInv, InboxInv
  <2>2. PICK x, k, s : x = book[b].filled /\ k = book[b].client /\ s = book[b].status
    OBVIOUS
  <2>3. Consistent(x, k, n)' /\ (s = "Filled" => Executed(k)' >= OrderQty)
    BY <1>1, <1>3, <1>5, <2>2, BookSpeaksTrue DEF FlowInv
  <2>4. inbox'[n].filled = x /\ inbox'[n].key = k /\ inbox'[n].status = s
        /\ inbox'[n].type = "Status"
    BY <1>3, <1>4, <2>1, <2>2
  <2> QED BY <2>3, <2>4 DEF ReportTrue
<1> QED BY <1>1, <1>3, <1>5, TellingInv

\* The list of open orders, entry by entry.
LEMMA OpenListType ==
  ASSUME BookInv
  PROVE  /\ Len(OpenList) \in Nat /\ DOMAIN OpenList = 1 .. Len(OpenList)
         /\ OpenList \in Seq(SyncOrder)
         /\ \A m \in DOMAIN OpenList : \E b \in DOMAIN book :
              OpenList[m] = [client |-> book[b].client, broker |-> b,
                             filled |-> book[b].filled, status |-> "Live", created |-> 0]
<1> DEFINE open == {b \in DOMAIN book : Working(b)}
           entry(b) == [client |-> book[b].client, broker |-> b,
                        filled |-> book[b].filled, status |-> "Live", created |-> 0]
           at(n) == CHOOSE x \in open : Cardinality({y \in open : y <= x}) = n
<1>1. open \in SUBSET (FirstBrokerId .. LastBrokerId)
  BY FlowAssumption DEF BookInv
<1>2. FirstBrokerId \in Int /\ LastBrokerId \in Int
  BY FlowAssumption, FS_CardinalityType DEF LastBrokerId
<1>3. IsFiniteSet(open) /\ Cardinality(open) \in Nat
  BY <1>1, FlowAssumption, FS_Subset, FS_CardinalityType
<1>4. ASSUME NEW n \in 1 .. Cardinality(open) PROVE at(n) \in open
  <2> HIDE DEF open
  <2>1. \E x \in open : Rank(open, x) = n
    <3>1. EveryRankTaken(open)
      BY <1>1, <1>2, RankExists
    <3> QED BY <3>1 DEF EveryRankTaken
  <2>2. \A x \in open : Rank(open, x) = Cardinality({y \in open : y <= x})
    BY DEF Rank
  <2> QED BY <2>1, <2>2
<1>5. OpenList = [n \in 1 .. Cardinality(open) |-> entry(at(n))]
  BY DEF OpenList
<1>6. \A b \in open : b \in DOMAIN book /\ entry(b) \in SyncOrder
  <2>1. \A b \in open : b \in DOMAIN book /\ b \in BrokerId /\ book[b] \in BrokerOrder
    BY DEF BookInv
  <2> QED BY <2>1, FlowAssumption DEF BrokerOrder, SyncOrder
<1> HIDE DEF open, entry, at
<1>7. \A n \in 1 .. Cardinality(open) : OpenList[n] = entry(at(n)) /\ at(n) \in DOMAIN book
  BY <1>4, <1>5, <1>6
<1>8. OpenList \in [1 .. Cardinality(open) -> SyncOrder]
  BY <1>4, <1>5, <1>6
<1>9. OpenList \in Seq(SyncOrder) /\ Len(OpenList) = Cardinality(open)
  BY <1>3, <1>8
<1> QED BY <1>3, <1>7, <1>8, <1>9 DEF entry

\* The broker sends a snapshot.
LEMMA BrokerSyncInv ==
  ASSUME IInv, FlowInv, BrokerSync
  PROVE  FlowInv'
<1> DEFINE e == [type |-> "StateSync", list |-> OpenList, symbol |-> 1]
<1>1. /\ Len(OpenList) <= MaxSync /\ Len(inbox) < MaxInbox /\ inbox' = Append(inbox, e)
      /\ UNCHANGED <<vars, book, past_keys>> /\ UNCHANGED book
  BY DEF BrokerSync, Emit
<1>2. OpenList \in SyncLists
  <2>1. Len(OpenList) \in 0 .. MaxSync /\ OpenList \in [1 .. Len(OpenList) -> SyncOrder]
    BY <1>1, OpenListType, OmsAssumption DEF FlowInv
  <2> QED BY <2>1 DEF SyncLists
<1>3. e \in Event /\ e.type = "StateSync" /\ e.list = OpenList
  BY <1>2 DEF Event, SyncEvent
<1> HIDE DEF e
<1>4. ASSUME NEW n \in Nat, n = Len(inbox) + 1 PROVE ReportTrue(n)'
  <2>1. inbox'[n] = e
    BY <1>1, <1>3, <1>4 DEF FlowInv, InboxInv
  <2>2. ASSUME NEW m \in DOMAIN OpenList, NEW l, l = OpenList[m] PROVE Listed(l, n)'
    <3>1. PICK b \in DOMAIN book :
            l = [client |-> book[b].client, broker |-> b, filled |-> book[b].filled,
                 status |-> "Live", created |-> 0]
      BY <2>2, OpenListType DEF FlowInv
    <3>2. Consistent(l.filled, l.client, n)'
      BY <1>1, <1>3, <1>4, <3>1, BookSpeaksTrue DEF FlowInv
    <3> QED BY <1>1, <3>1, <3>2 DEF Listed
  <2>3. inbox'[n].type = "StateSync" /\ inbox'[n].list = OpenList
    BY <1>3, <2>1
  <2> QED BY <2>2, <2>3 DEF ReportTrue
<1> QED BY <1>1, <1>3, <1>4, TellingInv

-----------------------------------------------------------------------------
(* Steps of the OMS between two events. *)

\* What is said of filled shares depends on the book and the inbox alone.
LEMMA StatementsKept ==
  ASSUME UNCHANGED <<book, inbox>>
  PROVE  /\ \A k : Executed(k)' = Executed(k) /\ FillsAfter(0, k)' = FillsAfter(0, k)
         /\ \A x, k, n : Consistent(x, k, n)' <=> Consistent(x, k, n)
         /\ \A l, n : Listed(l, n)' <=> Listed(l, n)
<1>1. \A k : Executed(k)' = Executed(k) /\ OrdersOf(k)' = OrdersOf(k)
  BY DEF Executed, OrdersOf
<1>2. \A k, n : FillsAfter(n, k)' = FillsAfter(n, k)
  BY DEF FillsAfter
<1>3. \A x, k, n : Consistent(x, k, n)' <=> Consistent(x, k, n)
  BY <1>1, <1>2 DEF Consistent
<1>4. \A l, n : Listed(l, n)' <=> Listed(l, n)
  BY <1>3 DEF Listed
<1> QED BY <1>1, <1>2, <1>3, <1>4

\* The same for the parts of the invariant that depend on nothing else.
LEMMA EventsKept ==
  ASSUME FlowInv, UNCHANGED <<book, inbox>>
  PROVE  BookInv' /\ InboxInv' /\ FillsExecuted' /\ ReportsTrue'
<1>1. BookInv' /\ InboxInv'
  BY DEF FlowInv, BookInv, InboxInv
<1>2. FillsExecuted'
  BY StatementsKept DEF FlowInv, FillsExecuted
<1>3. \A n : ReportTrue(n)' <=> ReportTrue(n)
  <2>1. \A k : Executed(k)' = Executed(k)
    BY StatementsKept
  <2>2. \A x, k, n : Consistent(x, k, n)' <=> Consistent(x, k, n)
    BY StatementsKept
  <2>3. \A l, n : Listed(l, n)' <=> Listed(l, n)
    BY StatementsKept
  <2> QED BY <2>1, <2>2, <2>3 DEF ReportTrue
<1>4. ReportsTrue'
  BY <1>3 DEF FlowInv, ReportsTrue
<1> QED BY <1>1, <1>2, <1>4

\* A command handed to the socket names a known key, if it names one.
LEMMA SocketKnown ==
  ASSUME IInv, KeysKnown, UNCHANGED book, KnownKeys \subseteq KnownKeys', past_keys' \subseteq Key,
         \/ cmd_sock' = cmd_sock
         \/ \E c \in Command : /\ cmd_sock' = Append(cmd_sock, c)
                               /\ c.type = "NewOrder" => c.key \in KnownKeys'
  PROVE  KeysKnown'
<1>1. \A b \in DOMAIN book : book[b].client \in KnownKeys'
  BY DEF KeysKnown
<1>2. ASSUME NEW n \in DOMAIN cmd_sock', cmd_sock'[n].type = "NewOrder"
      PROVE  cmd_sock'[n].key \in KnownKeys'
  <2>1. CASE cmd_sock' = cmd_sock
    BY <1>2, <2>1 DEF KeysKnown
  <2>2. ASSUME NEW c \in Command, cmd_sock' = Append(cmd_sock, c),
               c.type = "NewOrder" => c.key \in KnownKeys'
        PROVE  cmd_sock'[n].key \in KnownKeys'
    <3>1. \/ n \in DOMAIN cmd_sock /\ cmd_sock'[n] = cmd_sock[n]
          \/ cmd_sock'[n] = c
      BY <1>2, <2>2 DEF IInv, TypeOK
    <3> QED BY <1>2, <2>2, <3>1 DEF KeysKnown
  <2> QED BY <2>1, <2>2
<1> QED BY <1>1, <1>2 DEF KeysKnown

\* An arm that fills no order, names none and starts no reconciliation.
LEMMA QuietInv ==
  ASSUME IInv, FlowInv, UNCHANGED <<book, inbox, past_keys, maps, open_orders>>,
         arm' # "sync" => open_orders = <<>>,
         \/ cmd_sock' = cmd_sock
         \/ \E c \in Command : cmd_sock' = Append(cmd_sock, c) /\ c.type # "NewOrder",
         DOMAIN orders' = DOMAIN orders,
         \A i \in DOMAIN orders :
           /\ orders'[i].filled = orders[i].filled /\ orders'[i].client = orders[i].client
           /\ orders'[i].status = "Filled" => orders[i].status = "Filled"
  PROVE  FlowInv'
<1> USE DEF FlowInv
<1>1. BookInv' /\ InboxInv' /\ FillsExecuted' /\ ReportsTrue'
  BY EventsKept
<1>2. KnownKeys' = KnownKeys
  BY DEF KnownKeys, maps
<1>3. KeysKnown'
  BY <1>2, SocketKnown DEF KeysKnown
<1>4. OrdersTrue'
  BY StatementsKept DEF OrdersTrue
<1>5. SyncTrue'
  BY StatementsKept DEF SyncTrue
<1>6. NamesTrue'
  BY DEF NamesTrue, maps, IInv, TypeOK
<1> QED BY <1>1, <1>3, <1>4, <1>5, <1>6

\* The ticks, the heartbeat, the end of a reconciliation, the shutdown, the clock.
LEMMA QuietSteps ==
  ASSUME IInv, FlowInv, UNCHANGED <<book, inbox, past_keys>>,
         \/ Heartbeat \/ TimeoutTick \/ CheckCancelTimeouts
         \/ \E i \in Id, ok \in BOOLEAN : CancelTimedOut(i, ok)
         \/ ReconcileStale \/ Shutdown \/ ClockTick
  PROVE  FlowInv'
<1>1. \A i \in DOMAIN orders : orders[i] \in Order
  BY DEF IInv, TypeOK
<1>2. \A o \in Order, s \in OrderStatus : s # "Filled" =>
        LET p == [o EXCEPT !.status = s]
        IN p.filled = o.filled /\ p.client = o.client /\ p.status # "Filled"
  BY DEF Order
<1>3. arm # "sync" => open_orders = <<>>
  BY DEF FlowInv, SyncTrue
<1>4. CASE Heartbeat
  <2>1. /\ UNCHANGED <<maps, open_orders, cmd_sock, arm>>
        /\ orders' = [i \in DOMAIN orders |->
                       IF TimedOut(orders[i], FillTimeout)
                       THEN [orders[i] EXCEPT !.status = "Rejected"] ELSE orders[i]]
    BY <1>4 DEF Heartbeat, loop
  <2>2. \A i \in DOMAIN orders :
          /\ orders'[i].filled = orders[i].filled /\ orders'[i].client = orders[i].client
          /\ orders'[i].status = "Filled" => orders[i].status = "Filled"
    BY <1>1, <1>2, <2>1 DEF OrderStatus
  <2> QED BY <1>3, <2>1, <2>2, QuietInv
<1>5. CASE TimeoutTick
  BY <1>3, <1>5, QuietInv DEF TimeoutTick
<1>6. CASE CheckCancelTimeouts
  <2>1. /\ UNCHANGED <<maps, open_orders, cmd_sock>> /\ arm = "timeout"
        /\ orders' = [i \in DOMAIN orders |->
                       IF CancelOverdue(orders[i])
                       THEN [orders[i] EXCEPT !.status = "CancelTimeout"] ELSE orders[i]]
    BY <1>6 DEF CheckCancelTimeouts
  <2>2. \A i \in DOMAIN orders :
          /\ orders'[i].filled = orders[i].filled /\ orders'[i].client = orders[i].client
          /\ orders'[i].status = "Filled" => orders[i].status = "Filled"
    BY <1>1, <1>2, <2>1 DEF OrderStatus
  <2> QED BY <1>3, <2>1, <2>2, QuietInv
<1>7. CASE \E i \in Id, ok \in BOOLEAN : CancelTimedOut(i, ok)
  <2>1. PICK i \in Id, ok \in BOOLEAN : CancelTimedOut(i, ok)
    BY <1>7
  <2>2. /\ UNCHANGED <<maps, open_orders, arm>> /\ arm = "timeout" /\ i \in DOMAIN orders
        /\ RequestCancel(i, ok)
    BY <2>1 DEF CancelTimedOut, IInv, TypeOK
  <2> DEFINE c == [type |-> "CancelOrder", id |-> i]
             s == IF ok THEN "CancelSent" ELSE "PendingCancel"
  <2>3. cmd_sock' = cmd_sock \/ cmd_sock' = Append(cmd_sock, c)
    BY <2>2, Zenon DEF RequestCancel, Send
  <2>4. c \in Command /\ c.type # "NewOrder"
    BY DEF Command
  <2>5. orders' = [orders EXCEPT ![i].status = s, ![i].updated = 0]
    BY <2>2 DEF RequestCancel
  <2>6. s # "Filled"
    OBVIOUS
  <2> HIDE DEF c, s
  <2>7. DOMAIN orders' = DOMAIN orders /\ \A j \in DOMAIN orders :
          /\ orders'[j].filled = orders[j].filled /\ orders'[j].client = orders[j].client
          /\ orders'[j].status = "Filled" => orders[j].status = "Filled"
    BY <1>1, <2>2, <2>5, <2>6 DEF Order
  <2> QED BY <1>3, <2>2, <2>3, <2>4, <2>7, QuietInv
<1>8. CASE ReconcileStale
  <2>1. /\ UNCHANGED <<maps, open_orders, cmd_sock>> /\ open_orders = <<>>
        /\ orders' = [i \in DOMAIN orders |->
                       IF Open(orders[i]) /\ orders[i].broker \notin broker_order_ids
                       THEN [orders[i] EXCEPT !.status = "Cancelled"] ELSE orders[i]]
    BY <1>8 DEF ReconcileStale
  <2>2. \A i \in DOMAIN orders :
          /\ orders'[i].filled = orders[i].filled /\ orders'[i].client = orders[i].client
          /\ orders'[i].status = "Filled" => orders[i].status = "Filled"
    BY <1>1, <1>2, <2>1 DEF OrderStatus
  <2> QED BY <2>1, <2>2, QuietInv
<1>9. CASE Shutdown
  BY <1>3, <1>9, QuietInv DEF Shutdown
<1>10. CASE ClockTick
  <2>1. /\ UNCHANGED <<maps, open_orders, cmd_sock, arm>>
        /\ orders' = [i \in DOMAIN orders |->
                       [orders[i] EXCEPT !.created = Older(@), !.updated = Older(@)]]
    BY <1>10 DEF ClockTick, loop
  <2>2. \A i \in DOMAIN orders :
          /\ orders'[i].filled = orders[i].filled /\ orders'[i].client = orders[i].client
          /\ orders'[i].status = "Filled" => orders[i].status = "Filled"
    BY <1>1, <2>1 DEF Order
  <2> QED BY <1>3, <2>1, <2>2, QuietInv
<1> QED BY <1>4, <1>5, <1>6, <1>7, <1>8, <1>9, <1>10

\* A new key has no order at the broker and no fill on its way.
LEMMA NewOrderFlow ==
  ASSUME IInv, FlowInv, NEW k \in Key, NEW ok \in BOOLEAN, FlowNewOrder(k, ok)
  PROVE  FlowInv'
<1> USE DEF FlowInv
<1> DEFINE c == [type |-> "NewOrder", key |-> k]
<1>1. /\ k \notin past_keys /\ PlaceOrder(k) /\ UNCHANGED <<book, inbox, past_keys, loop>>
      /\ cmd_sock' = cmd_sock \/ cmd_sock' = Append(cmd_sock, c)
  BY Zenon DEF FlowNewOrder, NewOrder, Send
<1>2. c \in Command /\ c.key = k
  BY DEF Command
<1> HIDE DEF c
<1>3. BookInv' /\ InboxInv' /\ FillsExecuted' /\ ReportsTrue'
  BY <1>1, EventsKept
<1>4. SyncTrue'
  BY <1>1, StatementsKept DEF SyncTrue, loop
<1>5. CASE k \in DOMAIN idempotency_cache
  <2>1. UNCHANGED <<orders, maps>>
    BY <1>1, <1>5 DEF PlaceOrder
  <2>2. KnownKeys' = KnownKeys /\ k \in KnownKeys
    BY <1>1, <1>5, <2>1 DEF KnownKeys, maps
  <2>3. KeysKnown'
    BY <1>1, <1>2, <2>2, SocketKnown DEF KeysKnown
  <2>4. OrdersTrue'
    BY <1>1, <2>1, StatementsKept DEF OrdersTrue
  <2>5. NamesTrue'
    BY <1>1, <2>1 DEF NamesTrue, maps
  <2> QED BY <1>3, <1>4, <2>3, <2>4, <2>5
<1>6. CASE k \notin DOMAIN idempotency_cache
  <2> DEFINE n == next_order_id
             o == [client |-> k, broker |-> NoBroker, filled |-> 0,
                   status |-> "Pending", created |-> 0, updated |-> 0]
  <2>1. /\ n \in Id /\ orders' = Insert(orders, n, o)
        /\ idempotency_cache' = Insert(idempotency_cache, k, n)
        /\ next_order_id' = n + 1 /\ broker_map' = broker_map
    BY <1>1, <1>6 DEF PlaceOrder
  <2>2. o \in Order
    BY OmsAssumption DEF Order, OrderStatus, Age
  <2>3. o.client = k /\ o.filled = 0 /\ o.status # "Filled"
    OBVIOUS
  <2> HIDE DEF o
  <2>4. /\ DOMAIN orders' = DOMAIN orders \cup {n} /\ n \notin DOMAIN orders
        /\ orders'[n] = o /\ \A i \in DOMAIN orders : orders'[i] = orders[i]
    BY <2>1, <2>2, OrderAdded DEF IInv
  <2>5. KnownKeys' = KnownKeys \cup {k}
    BY <1>1, <2>1 DEF KnownKeys, Insert
  <2>6. KeysKnown'
    BY <1>1, <1>2, <2>5, SocketKnown DEF KeysKnown
  <2>7. OrdersOf(k) = {}
    BY <1>1, <1>6 DEF OrdersOf, KeysKnown, KnownKeys
  <2>8. Executed(k) = 0 /\ FillsAfter(0, k) = 0
    <3>1. Executed(k) = 0
      BY <2>7, SumChosen, FS_EmptySet DEF Executed
    <3>2. FillsAfter(0, k) \in Nat
      BY AfterType
    <3> QED BY <3>1, <3>2 DEF FillsExecuted
  <2>9. Consistent(0, k, 0)
    BY <2>8 DEF Consistent
  <2>10. OrdersTrue'
    BY <1>1, <2>3, <2>4, <2>9, StatementsKept DEF OrdersTrue
  <2>11. NamesTrue'
    BY <1>1, <2>1, <2>4 DEF NamesTrue, IInv, TypeOK
  <2> QED BY <1>3, <1>4, <2>6, <2>10, <2>11
<1> QED BY <1>5, <1>6

\* One order of a snapshot: it is the order its key and its broker id stand
\* for, so what the broker lists is true of the order it is written to.
LEMMA ReconcileOrderFlow ==
  ASSUME IInv, FlowInv, ReconcileOrder, UNCHANGED <<book, inbox, past_keys>>
  PROVE  FlowInv'
<1> USE DEF FlowInv
<1> DEFINE l == Head(open_orders)
<1>1. /\ open_orders # <<>> /\ open_orders' = Tail(open_orders)
      /\ arm = "sync" /\ UNCHANGED <<cmd_sock, arm>>
  BY DEF ReconcileOrder
<1>2. /\ l \in SyncOrder /\ l = open_orders[1] /\ 1 \in DOMAIN open_orders
      /\ \A m \in DOMAIN open_orders' :
           m + 1 \in DOMAIN open_orders /\ open_orders'[m] = open_orders[m + 1]
  BY <1>1, HeadTailProperties DEF IInv, TypeOK
<1>3. Listed(l, 0)
  BY <1>2 DEF SyncTrue
<1> HIDE DEF l
<1>4. /\ l.status = "Live" /\ l.broker \in DOMAIN book /\ l.client = book[l.broker].client
      /\ Consistent(l.filled, l.client, 0)
  BY <1>3 DEF Listed
<1>5. l.broker \in BrokerId /\ l.broker # NoBroker /\ l.client \in Key /\ l.client # NoKey
  BY <1>4, OmsAssumption DEF BookInv, BrokerOrder
<1>6. BookInv' /\ InboxInv' /\ FillsExecuted' /\ ReportsTrue'
  BY EventsKept
<1>7. SyncTrue'
  <2>1. ASSUME NEW m \in DOMAIN open_orders' PROVE Listed(open_orders'[m], 0)
    BY <1>2, <2>1 DEF SyncTrue
  <2> QED BY <1>1, <2>1, StatementsKept DEF SyncTrue
<1>8. MatchByBrokerId(l) \/ MatchByKey(l) \/ Import(l)
  BY <1>1, <1>5 DEF ReconcileOrder, l
<1>9. CASE MatchByBrokerId(l)
  <2> DEFINE i == broker_map[l.broker]
  <2>1. /\ l.broker \in DOMAIN broker_map /\ UNCHANGED maps /\ i \in DOMAIN orders
        /\ orders' = [orders EXCEPT ![i].status = l.status, ![i].filled = l.filled]
    BY <1>9 DEF MatchByBrokerId, IInv, TypeOK
  <2>2. orders[i].client = l.client
    BY <1>4, <2>1 DEF NamesTrue
  <2> HIDE DEF i
  <2>3. /\ DOMAIN orders' = DOMAIN orders
        /\ orders'[i].filled = l.filled /\ orders'[i].status = l.status
        /\ orders'[i].client = orders[i].client
        /\ \A j \in DOMAIN orders : j # i => orders'[j] = orders[j]
    BY <2>1 DEF IInv, TypeOK, Order
  <2>4. OrdersTrue'
    BY <1>4, <2>2, <2>3, StatementsKept DEF OrdersTrue
  <2>5. NamesTrue'
    BY <2>1, <2>3 DEF NamesTrue, maps, IInv, TypeOK
  <2>6. KeysKnown'
    BY <1>1, <2>1 DEF KeysKnown, KnownKeys, maps
  <2> QED BY <1>6, <1>7, <2>4, <2>5, <2>6
<1>10. CASE MatchByKey(l)
  <2> DEFINE i == idempotency_cache[l.client]
  <2>1. /\ l.client \in DOMAIN idempotency_cache /\ i \in DOMAIN orders
        /\ orders' = [orders EXCEPT ![i].broker = l.broker, ![i].status = l.status,
                                    ![i].filled = l.filled]
        /\ broker_map' = Insert(broker_map, l.broker, i)
        /\ UNCHANGED <<idempotency_cache, next_order_id>>
    BY <1>10 DEF MatchByKey, IInv, TypeOK
  <2>2. orders[i].client = l.client
    BY <2>1 DEF IInv, KeyNamesOneOrder
  <2> HIDE DEF i
  <2>3. /\ DOMAIN orders' = DOMAIN orders
        /\ orders'[i].filled = l.filled /\ orders'[i].status = l.status
        /\ orders'[i].client = orders[i].client
        /\ \A j \in DOMAIN orders : j # i => orders'[j] = orders[j]
    BY <2>1 DEF IInv, TypeOK, Order
  <2>4. OrdersTrue'
    BY <1>4, <2>2, <2>3, StatementsKept DEF OrdersTrue
  <2>5. /\ DOMAIN broker_map' = DOMAIN broker_map \cup {l.broker}
        /\ broker_map'[l.broker] = i
        /\ \A b \in DOMAIN broker_map : b # l.broker => broker_map'[b] = broker_map[b]
    BY <2>1 DEF Insert
  <2>6. NamesTrue'
    BY <1>4, <2>2, <2>3, <2>5 DEF NamesTrue, IInv, TypeOK
  <2>7. KeysKnown'
    BY <1>1, <2>1 DEF KeysKnown, KnownKeys
  <2> QED BY <1>6, <1>7, <2>4, <2>6, <2>7
<1>11. CASE Import(l)
  <2> DEFINE n == next_order_id
             o == [client |-> l.client, broker |-> l.broker, filled |-> l.filled,
                   status |-> l.status, created |-> l.created, updated |-> l.created]
  <2>1. /\ n \in Id /\ orders' = Insert(orders, n, o) /\ next_order_id' = n + 1
        /\ broker_map' = Insert(broker_map, l.broker, n)
        /\ l.broker \notin DOMAIN broker_map
        /\ idempotency_cache' = Insert(idempotency_cache, l.client, n)
    BY <1>5, <1>11 DEF Import
  <2>2. o \in Order
    BY <1>2, OmsAssumption DEF Order, SyncOrder, Age
  <2>3. o.client = l.client /\ o.filled = l.filled /\ o.status = l.status
    OBVIOUS
  <2> HIDE DEF o
  <2>4. /\ DOMAIN orders' = DOMAIN orders \cup {n} /\ n \notin DOMAIN orders
        /\ orders'[n] = o /\ \A i \in DOMAIN orders : orders'[i] = orders[i]
    BY <2>1, <2>2, OrderAdded DEF IInv
  <2>5. OrdersTrue'
    BY <1>4, <2>3, <2>4, StatementsKept DEF OrdersTrue
  <2>6. /\ DOMAIN broker_map' = DOMAIN broker_map \cup {l.broker}
        /\ broker_map'[l.broker] = n
        /\ \A b \in DOMAIN broker_map : broker_map'[b] = broker_map[b]
    BY <2>1 DEF Insert
  <2>7. NamesTrue'
    BY <1>4, <2>3, <2>4, <2>6 DEF NamesTrue, IInv, TypeOK
  <2>8. KnownKeys' = KnownKeys \cup {l.client}
    BY <2>1 DEF KnownKeys, Insert
  <2>9. KeysKnown'
    BY <1>1, <2>8 DEF KeysKnown
  <2> QED BY <1>6, <1>7, <2>5, <2>7, <2>9
<1> QED BY <1>8, <1>9, <1>10, <1>11

-----------------------------------------------------------------------------
(* Events that arrive, and the restart. *)

\* When the first event leaves the inbox, what is said of filled shares at a
\* later place holds one place earlier; what is said before it takes its shares.
LEMMA Popped ==
  ASSUME BookInv, InboxInv, inbox # <<>>, inbox' = Tail(inbox), UNCHANGED book
  PROVE  /\ \A k : Executed(k)' = Executed(k)
         /\ \A x, k : \A n \in DOMAIN inbox :
              Consistent(x, k, n) => Consistent(x, k, n - 1)'
         /\ \A x \in Nat : \A k, d :
              (d = Shares(Head(inbox), k) /\ Consistent(x, k, 0)) => Consistent(x + d, k, 0)'
<1>1. \A k : Executed(k)' = Executed(k) /\ OrdersOf(k)' = OrdersOf(k)
  BY DEF Executed, OrdersOf
<1>2. DOMAIN inbox = 1 .. Len(inbox) /\ Head(inbox) \in Event
  BY HeadTailProperties DEF InboxInv
<1>3. ASSUME NEW x, NEW k, NEW n \in DOMAIN inbox, Consistent(x, k, n)
      PROVE  Consistent(x, k, n - 1)'
  <2>1. FillsAfter(n - 1, k)' = FillsAfter(n, k)
    BY <1>2, AfterPopped
  <2> QED BY <1>1, <1>3, <2>1 DEF Consistent
<1>4. ASSUME NEW x \in Nat, NEW k, NEW d, d = Shares(Head(inbox), k), Consistent(x, k, 0)
      PROVE  Consistent(x + d, k, 0)'
  <2>1. FillsAfter(0, k) = d + FillsAfter(0, k)' /\ d \in Nat
    BY <1>2, <1>4, AfterPopped, SharesType
  <2>2. FillsAfter(0, k)' \in Nat
    <3>1. FillsAfter(0, k)' = FillsAfter(1, k)
      <4>1. 1 \in 1 .. Len(inbox)
        BY DEF InboxInv
      <4> QED BY <4>1, AfterPopped
    <3> QED BY <3>1, AfterType
  <2>3. x + FillsAfter(0, k) = (x + d) + FillsAfter(0, k)'
    BY <2>1, <2>2
  <2> QED BY <1>1, <1>4, <2>3 DEF Consistent
<1> QED BY <1>1, <1>3, <1>4

\* The parts of the invariant that speak of the events still on their way.
LEMMA PoppedInv ==
  ASSUME FlowInv, inbox # <<>>, inbox' = Tail(inbox), UNCHANGED book
  PROVE  /\ BookInv' /\ InboxInv' /\ FillsExecuted' /\ ReportsTrue'
         /\ Head(inbox) = inbox[1] /\ Head(inbox) \in Event /\ 1 \in DOMAIN inbox
         /\ ReportTrue(1)
<1> USE DEF FlowInv
<1>1. /\ InboxInv' /\ Head(inbox) = inbox[1] /\ Head(inbox) \in Event /\ 1 \in DOMAIN inbox
      /\ \A n \in DOMAIN inbox' :
           n \in Nat /\ n + 1 \in DOMAIN inbox /\ inbox'[n] = inbox[n + 1]
  BY FlowAssumption, HeadTailProperties DEF InboxInv
<1>2. BookInv' /\ ReportTrue(1)
  BY <1>1 DEF BookInv, ReportsTrue
<1>3. FillsExecuted'
  <2>1. ASSUME NEW k \in Key PROVE FillsAfter(0, k)' <= Executed(k)'
    <3>1. FillsAfter(0, k) = Shares(Head(inbox), k) + FillsAfter(0, k)'
          /\ FillsAfter(0, k)' = FillsAfter(1, k)
      <4>1. 1 \in 1 .. Len(inbox)
        BY <1>1 DEF InboxInv
      <4> QED BY <4>1, AfterPopped
    <3>2. FillsAfter(1, k) \in Nat /\ Shares(Head(inbox), k) \in Nat /\ Executed(k) \in Nat
      BY <1>1, AfterType, SharesType, ExecutedType
    <3>3. Executed(k)' = Executed(k) /\ FillsAfter(0, k) <= Executed(k)
      BY Popped DEF FillsExecuted
    <3> QED BY <3>1, <3>2, <3>3
  <2> QED BY <2>1 DEF FillsExecuted
<1>4. ReportsTrue'
  <2>1. ASSUME NEW n \in DOMAIN inbox', NEW e, e = inbox'[n] PROVE ReportTrue(n)'
    <3>1. /\ n + 1 \in DOMAIN inbox /\ (n + 1) - 1 = n /\ e = inbox[n + 1]
          /\ ReportTrue(n + 1)
      BY <1>1, <2>1 DEF ReportsTrue
    <3>2. \A k : Executed(k)' = Executed(k)
      BY Popped
    <3>3. \A x, k : Consistent(x, k, n + 1) => Consistent(x, k, n)'
      BY <3>1, Popped
    <3>4. \A l : Listed(l, n + 1) => Listed(l, n)'
      BY <3>3 DEF Listed
    <3> QED BY <2>1, <3>1, <3>2, <3>3, <3>4 DEF ReportTrue
  <2> QED BY <2>1 DEF ReportsTrue
<1> QED BY <1>1, <1>2, <1>3, <1>4

\* An event that adds no shares to any order here leaves them all true.
LEMMA OrdersStayTrue ==
  ASSUME IInv, FlowInv, inbox # <<>>, inbox' = Tail(inbox), UNCHANGED <<book, orders>>,
         \A i \in DOMAIN orders : Shares(Head(inbox), orders[i].client) = 0
  PROVE  OrdersTrue'
<1>1. ASSUME NEW i \in DOMAIN orders, NEW x, x = orders[i].filled,
             NEW k, k = orders[i].client
      PROVE  Consistent(x, k, 0)' /\ Executed(k)' = Executed(k)
  <2>1. x \in Nat
    BY <1>1, OmsAssumption DEF IInv, TypeOK, Order
  <2>2. Consistent(x + 0, k, 0)' /\ Executed(k)' = Executed(k)
    BY <1>1, <2>1, Popped DEF FlowInv, OrdersTrue
  <2>3. x + 0 = x
    BY <2>1
  <2> QED BY <2>2, <2>3
<1> QED BY <1>1 DEF FlowInv, OrdersTrue

\* A dropped event is an answer to a cancel: it tells of no shares.
LEMMA DropInv ==
  ASSUME IInv, FlowInv, Drop
  PROVE  FlowInv'
<1>1. /\ inbox # <<>> /\ Head(inbox).symbol = 0 /\ inbox' = Tail(inbox)
      /\ UNCHANGED <<book, past_keys, orders, maps, cmd_sock, loop>>
  BY DEF Drop, vars
<1>2. BookInv' /\ InboxInv' /\ FillsExecuted' /\ ReportsTrue' /\ Head(inbox) \in Event
  BY <1>1, PoppedInv
<1>3. \A k : Shares(Head(inbox), k) = 0
  BY <1>1, <1>2 DEF Event, FillEvent, StatusEvent, SyncEvent, CancelAnswer, Shares
<1>4. OrdersTrue'
  BY <1>1, <1>3, OrdersStayTrue
<1>5. SyncTrue'
  <2>1. ASSUME NEW m \in DOMAIN open_orders, NEW l, l = open_orders[m] PROVE Listed(l, 0)'
    <3>1. l \in SyncOrder /\ Listed(l, 0) /\ l.filled \in Nat
      <4>1. l \in SyncOrder /\ Listed(l, 0)
        BY <2>1 DEF FlowInv, SyncTrue, IInv, TypeOK
      <4>2. l.filled \in SyncFilled /\ SyncFilled \subseteq Nat
        BY <4>1, OmsAssumption DEF SyncOrder
      <4> QED BY <4>1, <4>2
    <3>2. Consistent(l.filled + 0, l.client, 0)'
      BY <1>1, <1>3, <3>1, Popped DEF FlowInv, Listed
    <3>3. l.filled + 0 = l.filled
      BY <3>1
    <3> QED BY <1>1, <3>1, <3>2, <3>3 DEF Listed
  <2> QED BY <1>1, <2>1 DEF FlowInv, SyncTrue, loop
<1>6. KeysKnown' /\ NamesTrue'
  BY <1>1 DEF FlowInv, KeysKnown, KnownKeys, NamesTrue, maps
<1> QED BY <1>2, <1>4, <1>5, <1>6 DEF FlowInv

\* What the OMS does with the event it takes from the inbox.
LEMMA DeliverCases ==
  ASSUME FlowInv, Deliver, NEW e, e = Head(inbox)
  PROVE  /\ inbox # <<>> /\ inbox' = Tail(inbox) /\ arm = "select"
         /\ UNCHANGED <<book, past_keys>>
         /\ \/ /\ e \in FillEvent /\ e.key \in DOMAIN idempotency_cache
               /\ Fill(idempotency_cache[e.key], e.size, 0)
            \/ /\ e \in StatusEvent /\ e.key \in DOMAIN idempotency_cache
               /\ Status(idempotency_cache[e.key], e.status, e.filled, 0)
            \/ /\ e \in FillEvent \cup StatusEvent /\ e.key \notin DOMAIN idempotency_cache
               /\ UNCHANGED vars
            \/ e \in SyncEvent /\ StateSync(e.list)
<1>1. /\ inbox # <<>> /\ inbox' = Tail(inbox) /\ arm = "select" /\ e.symbol # 0
      /\ UNCHANGED <<book, past_keys>>
  BY DEF Deliver
<1>2. e \in FillEvent \cup StatusEvent \cup SyncEvent
  <2>1. e \in Event
    BY <1>1, PoppedInv
  <2> QED BY <1>1, <2>1 DEF Event, CancelAnswer
<1>3. CASE e \in FillEvent
  <2>1. e.type = "Fill"
    BY <1>3 DEF FillEvent
  <2>2. IF e.key \in DOMAIN idempotency_cache
        THEN Fill(idempotency_cache[e.key], e.size, 0) ELSE UNCHANGED vars
    BY <2>1, Zenon DEF Deliver
  <2> QED BY <1>1, <1>3, <2>2
<1>4. CASE e \in StatusEvent
  <2>1. e.type = "Status" /\ e.type # "Fill"
    BY <1>4 DEF StatusEvent
  <2>2. IF e.key \in DOMAIN idempotency_cache
        THEN Status(idempotency_cache[e.key], e.status, e.filled, 0) ELSE UNCHANGED vars
    BY <2>1, Zenon DEF Deliver
  <2> QED BY <1>1, <1>4, <2>2
<1>5. CASE e \in SyncEvent
  <2>1. e.type = "StateSync" /\ e.type # "Fill" /\ e.type # "Status"
    BY <1>5 DEF SyncEvent
  <2>2. StateSync(e.list)
    BY <2>1, Zenon DEF Deliver
  <2> QED BY <1>1, <1>5, <2>2
<1> QED BY <1>2, <1>3, <1>4, <1>5


\* A fill adds its shares to the order of its key, and to no other.
LEMMA FillTrue ==
  ASSUME IInv, FlowInv, inbox # <<>>, inbox' = Tail(inbox), UNCHANGED book,
         Head(inbox) \in FillEvent, NEW i,
         Head(inbox).key \in DOMAIN idempotency_cache,
         i = idempotency_cache[Head(inbox).key],
         Fill(i, Head(inbox).size, 0)
  PROVE  OrdersTrue' /\ NamesTrue'
<1> DEFINE e == Head(inbox)
           size == e.size
           key == e.key
<1>1. /\ i \in DOMAIN orders /\ UNCHANGED <<maps, cmd_sock, loop>>
      /\ orders[i].client = key
      /\ \A j \in DOMAIN orders : j # i => orders[j].client # key
  <2>1. i \in DOMAIN orders /\ UNCHANGED <<maps, cmd_sock, loop>>
    BY DEF Fill
  <2>2. key \in Key /\ NoKey \notin Key
    BY OmsAssumption DEF FillEvent
  <2> QED BY <2>1, <2>2 DEF IInv, TypeOK, KeyNamesOneOrder
<1>2. size \in Nat /\ key \in Key
  BY OmsAssumption DEF FillEvent
<1>3. /\ DOMAIN orders' = DOMAIN orders
      /\ orders'[i].filled = orders[i].filled + size
      /\ orders'[i].status = FillStatus(orders[i].filled + size)
      /\ orders'[i].client = orders[i].client
      /\ \A j \in DOMAIN orders : j # i => orders'[j] = orders[j]
  <2>1. orders[i] \in Order
    BY <1>1 DEF IInv, TypeOK
  <2>2. orders' = [orders EXCEPT
                    ![i].filled = @ + size,
                    ![i].status = FillStatus(orders[i].filled + size),
                    ![i].updated = 0]
    BY DEF Fill
  <2> HIDE DEF size
  <2> QED BY <1>1, <2>1, <2>2 DEF Order, IInv, TypeOK
<1>4. \A j \in DOMAIN orders :
        Shares(e, orders[j].client) = IF j = i THEN size ELSE 0
  BY <1>1, <1>2 DEF Shares, FillEvent
<1>5. ASSUME NEW j \in DOMAIN orders, NEW x, x = orders[j].filled, NEW k, k = orders[j].client,
             NEW d, d = IF j = i THEN size ELSE 0
      PROVE  Consistent(x + d, k, 0)' /\ Executed(k)' = Executed(k) /\ x \in Nat
  <2>1. x \in Nat
    <3>1. orders[j] \in Order /\ MaxFilled \in Nat
      BY OmsAssumption DEF IInv, TypeOK
    <3> QED BY <1>5, <3>1 DEF Order
  <2>2. d = Shares(e, k)
    BY <1>4, <1>5
  <2> QED BY <1>5, <2>1, <2>2, Popped DEF FlowInv, OrdersTrue
<1>6. \A j \in DOMAIN orders : j # i =>
        /\ Consistent(orders[j].filled, orders[j].client, 0)'
        /\ orders'[j].status = "Filled" => Executed(orders[j].client)' >= OrderQty
  <2>1. ASSUME NEW j \in DOMAIN orders, j # i, NEW x, x = orders[j].filled,
               NEW k, k = orders[j].client
        PROVE  /\ Consistent(x, k, 0)'
               /\ orders[j].status = "Filled" => Executed(k)' >= OrderQty
    <3>1. Consistent(x + 0, k, 0)' /\ Executed(k)' = Executed(k) /\ x \in Nat
      BY <1>5, <2>1
    <3>2. x + 0 = x
      BY <3>1
    <3>3. orders[j].status = "Filled" => Executed(k) >= OrderQty
      BY <2>1 DEF FlowInv, OrdersTrue
    <3> QED BY <3>1, <3>2, <3>3
  <2> QED BY <1>3, <2>1
<1>7. /\ Consistent(orders[i].filled, orders[i].client, 0)'
      /\ orders'[i].status = "Filled" => Executed(orders[i].client)' >= OrderQty
  <2>1. ASSUME NEW x, x = orders[i].filled, NEW d, d = size, NEW k, k = orders[i].client
        PROVE  /\ Consistent(x + d, k, 0)'
               /\ FillStatus(x + d) = "Filled" => Executed(k)' >= OrderQty
    <3>1. Consistent(x + d, k, 0)' /\ x + d \in Nat
      BY <1>1, <1>2, <1>5, <2>1
    <3>2. x + d + FillsAfter(0, k)' <= Executed(k)'
      BY <3>1 DEF Consistent
    <3>3. FillsAfter(0, k)' \in Nat
      <4>1. 1 \in 1 .. Len(inbox)
        BY DEF FlowInv, InboxInv
      <4>2. FillsAfter(0, k)' = FillsAfter(1, k)
        BY <4>1, AfterPopped DEF FlowInv
      <4> QED BY <4>2, AfterType DEF FlowInv
    <3>4. Executed(k)' \in Nat
      <4>1. Executed(k)' = Executed(k)
        BY <1>1, <1>5, <2>1
      <4> QED BY <4>1, ExecutedType DEF FlowInv
    <3> QED BY <3>1, <3>2, <3>3, <3>4, OmsAssumption DEF FillStatus
  <2> QED BY <1>3, <2>1
<1>8. OrdersTrue'
  BY <1>3, <1>6, <1>7 DEF OrdersTrue
<1>9. NamesTrue'
  BY <1>1, <1>3 DEF FlowInv, NamesTrue, maps, IInv, TypeOK
<1> QED BY <1>8, <1>9

\* A report overwrites what was known of the order: it is true when it arrives.
LEMMA StatusTrue ==
  ASSUME IInv, FlowInv, inbox # <<>>, inbox' = Tail(inbox), UNCHANGED book,
         Head(inbox) \in StatusEvent, NEW i,
         Head(inbox).key \in DOMAIN idempotency_cache,
         i = idempotency_cache[Head(inbox).key],
         Status(i, Head(inbox).status, Head(inbox).filled, 0)
  PROVE  OrdersTrue' /\ NamesTrue'
<1> DEFINE e == Head(inbox)
<1>1. /\ i \in DOMAIN orders /\ UNCHANGED <<maps, cmd_sock, loop>>
      /\ orders[i].client = e.key
  BY DEF Status, IInv, TypeOK, KeyNamesOneOrder
<1>2. /\ DOMAIN orders' = DOMAIN orders
      /\ orders'[i].filled = e.filled /\ orders'[i].status = e.status
      /\ orders'[i].client = orders[i].client
      /\ \A j \in DOMAIN orders : j # i => orders'[j] = orders[j]
  <2>1. orders[i] \in Order
    BY <1>1 DEF IInv, TypeOK
  <2>2. orders' = [orders EXCEPT ![i].status = e.status, ![i].filled = e.filled,
                                 ![i].updated = 0]
    BY DEF Status
  <2> HIDE DEF e
  <2> QED BY <1>1, <2>1, <2>2 DEF Order, IInv, TypeOK
<1>3. \A k : Shares(e, k) = 0 /\ Executed(k)' = Executed(k)
  BY Popped DEF FlowInv, Shares, StatusEvent
<1>4. ASSUME NEW x, x = e.filled, NEW k, k = e.key
      PROVE  Consistent(x, k, 0)' /\ (e.status = "Filled" => Executed(k)' >= OrderQty)
  <2>1. e = inbox[1] /\ 1 \in DOMAIN inbox /\ ReportTrue(1)
    BY PoppedInv
  <2>2. Consistent(x, k, 1) /\ (e.status = "Filled" => Executed(k) >= OrderQty)
    BY <1>4, <2>1 DEF ReportTrue, StatusEvent
  <2>3. Consistent(x, k, 1 - 1)'
    BY <2>1, <2>2, Popped DEF FlowInv
  <2> QED BY <1>3, <2>2, <2>3
<1>5. ASSUME NEW j \in DOMAIN orders, NEW x, x = orders[j].filled, NEW k, k = orders[j].client
      PROVE  /\ Consistent(x, k, 0)'
             /\ orders[j].status = "Filled" => Executed(k)' >= OrderQty
  <2>1. x \in Nat
    <3>1. orders[j] \in Order /\ MaxFilled \in Nat
      BY OmsAssumption DEF IInv, TypeOK
    <3> QED BY <1>5, <3>1 DEF Order
  <2>2. Consistent(x + 0, k, 0)'
    BY <1>3, <1>5, <2>1, Popped DEF FlowInv, OrdersTrue
  <2>3. x + 0 = x
    BY <2>1
  <2> QED BY <1>3, <1>5, <2>2, <2>3 DEF FlowInv, OrdersTrue
<1>6. OrdersTrue'
  BY <1>1, <1>2, <1>4, <1>5 DEF OrdersTrue
<1>7. NamesTrue'
  BY <1>1, <1>2 DEF FlowInv, NamesTrue, maps, IInv, TypeOK
<1> QED BY <1>6, <1>7


\* An event that is taken in keeps the OMS and the book in agreement.
LEMMA DeliverInv ==
  ASSUME IInv, FlowInv, Deliver
  PROVE  IInv' /\ FlowInv'
<1>1. PICK e : e = Head(inbox)
  OBVIOUS
<1>2. /\ inbox # <<>> /\ inbox' = Tail(inbox) /\ arm = "select"
      /\ UNCHANGED <<book, past_keys>>
      /\ \/ /\ e \in FillEvent /\ e.key \in DOMAIN idempotency_cache
            /\ Fill(idempotency_cache[e.key], e.size, 0)
         \/ /\ e \in StatusEvent /\ e.key \in DOMAIN idempotency_cache
            /\ Status(idempotency_cache[e.key], e.status, e.filled, 0)
         \/ /\ e \in FillEvent \cup StatusEvent /\ e.key \notin DOMAIN idempotency_cache
            /\ UNCHANGED vars
         \/ e \in SyncEvent /\ StateSync(e.list)
  BY <1>1, DeliverCases
<1>3. /\ BookInv' /\ InboxInv' /\ FillsExecuted' /\ ReportsTrue'
      /\ e = inbox[1] /\ 1 \in DOMAIN inbox /\ ReportTrue(1)
  BY <1>1, <1>2, PoppedInv
<1>4. KeysKnown'
  <2>1. UNCHANGED <<maps, cmd_sock>>
    BY <1>2 DEF Fill, Status, StateSync, vars
  <2> QED BY <1>2, <2>1 DEF FlowInv, KeysKnown, KnownKeys, maps
<1>5. open_orders = <<>>
  BY <1>2 DEF FlowInv, SyncTrue
<1>6. ASSUME NEW k \in DOMAIN idempotency_cache
      PROVE  idempotency_cache[k] \in Id /\ idempotency_cache[k] \in DOMAIN orders
  BY OmsAssumption DEF IInv, TypeOK, Id
<1>7. 0 \in Lags
  BY FlowAssumption
<1>8. CASE /\ e \in FillEvent /\ e.key \in DOMAIN idempotency_cache
           /\ Fill(idempotency_cache[e.key], e.size, 0)
  <2>1. e.size \in FillSizes
    BY <1>8 DEF FillEvent
  <2>2. IInv'
    BY <1>6, <1>7, <1>8, <2>1, EventInv
  <2>3. OrdersTrue' /\ NamesTrue'
    BY <1>1, <1>2, <1>8, FillTrue
  <2>4. SyncTrue'
    BY <1>5, <1>8 DEF Fill, loop, SyncTrue, FlowInv
  <2> QED BY <1>3, <1>4, <2>2, <2>3, <2>4 DEF FlowInv
<1>9. CASE /\ e \in StatusEvent /\ e.key \in DOMAIN idempotency_cache
           /\ Status(idempotency_cache[e.key], e.status, e.filled, 0)
  <2>1. e.status \in ReportStatus /\ e.filled \in SyncFilled
    BY <1>9, FlowAssumption DEF StatusEvent
  <2>2. IInv'
    BY <1>6, <1>7, <1>9, <2>1, EventInv
  <2>3. OrdersTrue' /\ NamesTrue'
    BY <1>1, <1>2, <1>9, StatusTrue
  <2>4. SyncTrue'
    BY <1>5, <1>9 DEF Status, loop, SyncTrue, FlowInv
  <2> QED BY <1>3, <1>4, <2>2, <2>3, <2>4 DEF FlowInv
<1>10. CASE /\ e \in FillEvent \cup StatusEvent /\ e.key \notin DOMAIN idempotency_cache
            /\ UNCHANGED vars
  <2>1. IInv'
    BY <1>10, StepInv
  <2>2. \A i \in DOMAIN orders : orders[i].client # e.key
    <3>1. e.key \in Key
      BY <1>10 DEF FillEvent, StatusEvent
    <3> QED BY <1>10, <3>1, OmsAssumption DEF IInv, KeyNamesOneOrder
  <2>3. \A i \in DOMAIN orders : Shares(Head(inbox), orders[i].client) = 0
    BY <1>1, <2>2 DEF Shares
  <2>4. OrdersTrue'
    BY <1>2, <1>10, <2>3, OrdersStayTrue DEF vars
  <2>5. NamesTrue'
    BY <1>2, <1>10 DEF NamesTrue, FlowInv, vars, maps
  <2>6. SyncTrue'
    BY <1>5, <1>10 DEF vars, loop, SyncTrue, FlowInv
  <2> QED BY <1>3, <1>4, <2>1, <2>4, <2>5, <2>6 DEF FlowInv
<1>11. CASE e \in SyncEvent /\ StateSync(e.list)
  <2>1. e.list \in SyncLists
    BY <1>11 DEF SyncEvent
  <2>2. IInv'
    BY <1>11, <2>1, ControlInv
  <2>3. UNCHANGED <<orders, maps>> /\ arm' = "sync" /\ open_orders' = e.list
    BY <1>11 DEF StateSync
  <2>4. \A k : Shares(Head(inbox), k) = 0
    BY <1>1, <1>11 DEF Shares, SyncEvent
  <2>5. OrdersTrue'
    BY <1>2, <2>3, <2>4, OrdersStayTrue
  <2>6. NamesTrue'
    BY <1>2, <2>3 DEF NamesTrue, FlowInv, maps
  <2>7. SyncTrue'
    <3>1. ASSUME NEW m \in DOMAIN e.list, NEW l, l = e.list[m] PROVE Listed(l, 0)'
      <4>1. Listed(l, 1)
        BY <1>3, <1>11, <3>1 DEF ReportTrue, SyncEvent
      <4>2. \A x, k : Consistent(x, k, 1) => Consistent(x, k, 1 - 1)'
        BY <1>2, <1>3, Popped DEF FlowInv
      <4> QED BY <1>2, <4>1, <4>2 DEF Listed
    <3> QED BY <2>3, <3>1 DEF SyncTrue
  <2> QED BY <1>3, <1>4, <2>2, <2>5, <2>6, <2>7 DEF FlowInv
<1> QED BY <1>2, <1>8, <1>9, <1>10, <1>11

\* A restart forgets the orders, their names and the events on their way, and
\* remembers nothing that is false.
LEMMA RestartInv ==
  ASSUME IInv, FlowInv, Restart
  PROVE  IInv' /\ FlowInv'
<1>1. /\ DOMAIN orders' = {} /\ DOMAIN idempotency_cache' = {} /\ DOMAIN broker_map' = {}
      /\ next_order_id' = 1 /\ arm' = "select" /\ timeouts' = {} /\ open_orders' = <<>>
      /\ broker_order_ids' = {} /\ inbox' = <<>> /\ UNCHANGED <<cmd_sock, book>>
      /\ past_keys' = past_keys \cup DOMAIN idempotency_cache
  BY DEF Restart
<1>2. IInv'
  <2>1. /\ orders' \in [1 .. next_order_id' - 1 -> Order]
        /\ idempotency_cache' \in [{} -> {}] /\ broker_map' \in [{} -> {}]
    BY DEF Restart
  <2>2. cmd_sock' \in Seq(Command) /\ next_order_id' \in 1 .. MaxId + 1
    BY <1>1, OmsAssumption DEF IInv, TypeOK
  <2>3. TypeOK'
    BY <1>1, <2>1, <2>2 DEF TypeOK
  <2>4. KeyNamesOneOrder' /\ BrokerIdFindsOrder' /\ TickCancelsOpenOrders' /\ LoopInv'
    BY <1>1 DEF KeyNamesOneOrder, BrokerIdFindsOrder, TickCancelsOpenOrders, LoopInv
  <2> QED BY <2>3, <2>4 DEF IInv
<1>3. BookInv' /\ InboxInv'
  BY <1>1, FlowAssumption DEF FlowInv, BookInv, InboxInv
<1>4. KnownKeys' = KnownKeys /\ past_keys' \subseteq Key
  BY <1>1 DEF KnownKeys, IInv, TypeOK, FlowInv, KeysKnown
<1>5. KeysKnown'
  BY <1>1, <1>4 DEF KeysKnown, FlowInv
<1>6. FillsExecuted'
  <2>1. ASSUME NEW k \in Key PROVE FillsAfter(0, k)' <= Executed(k)'
    <3>1. FillsAfter(0, k)' = 0
      <4>1. FillsAfter(0, k)' = SumFunctionOnSet([m \in DOMAIN inbox' |-> Shares(inbox'[m], k)], {})
        BY <1>1 DEF FillsAfter
      <4> QED BY <4>1, SumChosen, FS_EmptySet
    <3>2. Executed(k)' = Executed(k) /\ Executed(k) \in Nat
      BY <1>1, ExecutedType DEF Executed, OrdersOf, FlowInv
    <3> QED BY <3>1, <3>2
  <2> QED BY <2>1 DEF FillsExecuted
<1>7. OrdersTrue' /\ ReportsTrue' /\ SyncTrue' /\ NamesTrue'
  BY <1>1 DEF OrdersTrue, ReportsTrue, SyncTrue, NamesTrue
<1> QED BY <1>2, <1>3, <1>5, <1>6, <1>7 DEF FlowInv

-----------------------------------------------------------------------------
(* The theorems of the flow. *)

\* The system starts with an empty OMS before a broker with an empty book.
LEMMA FlowInitInv == FlowInit => IInv /\ FlowInv
<1> SUFFICES ASSUME FlowInit PROVE IInv /\ FlowInv
  OBVIOUS
<1>1. /\ Init /\ book = [b \in {} |-> {}] /\ inbox = <<>> /\ past_keys = {}
  BY DEF FlowInit
<1>2. IInv
  BY <1>1, InitInv
<1>3. /\ DOMAIN orders = {} /\ DOMAIN broker_map = {} /\ open_orders = <<>>
      /\ DOMAIN idempotency_cache = {} /\ cmd_sock = <<>>
  BY <1>1 DEF Init
<1>4. BookInv
  <2>1. book \in [DOMAIN book -> BrokerOrder] /\ DOMAIN book = {}
    BY <1>1
  <2>2. DOMAIN book = FirstBrokerId .. (FirstBrokerId + 0 - 1)
    BY <2>1, FlowAssumption
  <2> QED BY <2>1, <2>2 DEF BookInv
<1>5. InboxInv
  BY <1>1, FlowAssumption DEF InboxInv
<1>6. FillsExecuted
  <2>1. ASSUME NEW k \in Key PROVE FillsAfter(0, k) <= Executed(k)
    <3>1. FillsAfter(0, k) = 0
      <4>1. FillsAfter(0, k) = SumFunctionOnSet([m \in DOMAIN inbox |-> Shares(inbox[m], k)], {})
        BY <1>1 DEF FillsAfter
      <4> QED BY <4>1, SumChosen, FS_EmptySet
    <3>2. Executed(k) \in Nat
      BY <1>4, ExecutedType
    <3> QED BY <3>1, <3>2
  <2> QED BY <2>1 DEF FillsExecuted
<1>7. KeysKnown
  BY <1>1, <1>3 DEF KeysKnown
<1>8. OrdersTrue /\ ReportsTrue /\ SyncTrue /\ NamesTrue
  BY <1>1, <1>3 DEF OrdersTrue, ReportsTrue, SyncTrue, NamesTrue
<1> QED BY <1>2, <1>4, <1>5, <1>6, <1>7, <1>8 DEF FlowInv

\* Every step of the OMS, the bridge, the broker and the restart keeps the
\* orders here and at the broker in agreement.
LEMMA FlowStepInv == IInv /\ FlowInv /\ [FlowNext]_allVars => IInv' /\ FlowInv'
<1> SUFFICES ASSUME IInv, FlowInv, [FlowNext]_allVars PROVE IInv' /\ FlowInv'
  OBVIOUS
<1>1. CASE UNCHANGED allVars
  <2>1. UNCHANGED vars /\ UNCHANGED <<book, inbox, past_keys>>
    BY <1>1 DEF allVars
  <2>2. IInv'
    BY <2>1, StepInv
  <2>3. FlowInv'
    BY <2>1, QuietInv DEF vars, loop, FlowInv, SyncTrue
  <2> QED BY <2>2, <2>3
<1>2. ASSUME NEW k \in Key, NEW ok \in BOOLEAN, FlowNewOrder(k, ok)
      PROVE  IInv' /\ FlowInv'
  BY <1>2, NewOrderFlow, NewOrderInv DEF FlowNewOrder
<1>3. CASE FlowStep
  <2>1. UNCHANGED <<book, inbox, past_keys>>
    BY <1>3 DEF FlowStep
  <2>2. Next
    BY <1>3, Zenon DEF FlowStep, Next
  <2>3. IInv'
    BY <2>2, StepInv
  <2>4. FlowInv'
    BY <1>3, <2>1, QuietSteps, ReconcileOrderFlow DEF FlowStep
  <2> QED BY <2>3, <2>4
<1>4. CASE BridgeNewOrder \/ BridgeCancel
  <2>1. BridgeRead
    BY <1>4 DEF BridgeNewOrder, BridgeCancel, BridgeRead
  <2>2. IInv'
    BY <2>1, ControlInv
  <2> QED BY <1>4, <2>2, BridgeNewOrderInv, BridgeCancelInv
<1>5. CASE \/ \E b \in BrokerId, size \in FillSizes : BrokerFill(b, size)
           \/ \E b \in BrokerId : BrokerExpire(b)
           \/ \E b \in BrokerId : BrokerReport(b)
           \/ BrokerSync \/ Drop
  <2>1. UNCHANGED vars
    BY <1>5 DEF BrokerFill, BrokerExpire, BrokerReport, BrokerSync, Drop
  <2>2. IInv'
    BY <2>1, StepInv
  <2> QED BY <1>5, <2>2, BrokerFillInv, BrokerExpireInv, BrokerReportInv, BrokerSyncInv, DropInv
<1>6. CASE Deliver
  BY <1>6, DeliverInv
<1>7. CASE Restart
  BY <1>7, RestartInv
<1> QED BY <1>1, <1>2, <1>3, <1>4, <1>5, <1>6, <1>7 DEF FlowNext

\* The OMS and the broker agree, up to the events on their way, in every
\* reachable state of the composed system.
THEOREM FlowInvariant == FlowSpec => [](IInv /\ FlowInv)
<1>1. FlowInit => IInv /\ FlowInv
  BY FlowInitInv
<1>2. (IInv /\ FlowInv) /\ [FlowNext]_allVars => (IInv /\ FlowInv)'
  BY FlowStepInv
<1> QED BY <1>1, <1>2, PTL DEF FlowSpec

\* The broker's book, the inbox and the OMS behind them are well typed.
THEOREM FlowTypeCorrect == FlowSpec => []FlowTypeOK
<1>1. IInv /\ FlowInv => FlowTypeOK
  BY DEF IInv, FlowInv, BookInv, BrokerOrder, InboxInv, KeysKnown, FlowTypeOK
<1> QED BY <1>1, FlowInvariant, PTL

\* Fills, cumulative reports, snapshots, timeouts and restarts may come in any
\* mix: an order here counts the shares the broker executed for its key, less
\* the fills still on their way, as long as the key has one order there.
THEOREM FillsAlwaysConserved == FlowSpec => []FillsConserved
<1>1. IInv /\ FlowInv => FillsConserved
  <2> SUFFICES ASSUME IInv, FlowInv, NEW i \in DOMAIN orders, NEW k, k = orders[i].client,
                      Cardinality(OrdersOf(k)) <= 1
               PROVE  orders[i].filled + InFlight(k) = Executed(k)
    BY DEF FillsConserved
  <2>1. InFlight(k) = FillsAfter(0, k)
    <3>1. DOMAIN inbox = (0 + 1) .. Len(inbox)
      BY DEF FlowInv, InboxInv
    <3> DEFINE f == [n \in DOMAIN inbox |-> Shares(inbox[n], k)]
    <3>2. DOMAIN f = DOMAIN inbox
      OBVIOUS
    <3>3. InFlight(k) = SumFunctionOnSet(f, DOMAIN f)
      BY DEF InFlight, SumFunction
    <3> QED BY <3>1, <3>2, <3>3 DEF FillsAfter
  <2>2. Consistent(orders[i].filled, k, 0)
    BY DEF FlowInv, OrdersTrue
  <2> QED BY <2>1, <2>2 DEF Consistent
<1> QED BY <1>1, FlowInvariant, PTL

\* An order is Filled here only if the broker executed its whole quantity.
THEOREM FilledAlwaysTrue == FlowSpec => []FilledIsTrue
<1>1. IInv /\ FlowInv => FilledIsTrue
  BY DEF FlowInv, OrdersTrue, FilledIsTrue
<1> QED BY <1>1, FlowInvariant, PTL
=============================================================================
