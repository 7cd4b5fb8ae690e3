------------------------------- MODULE OrderFlow -------------------------------
(***************************************************************************)
(* The path of an order: the OMS task, the command socket, the Python      *)
(* bridge, the broker, and the events that come back through BridgeRx.     *)
(*                                                                         *)
(* The bridge is rps_bridge/ibkr_client.py.  It produces the answers to    *)
(* cancels; fills, order reports and snapshots have no producer in the     *)
(* repository, so the broker's side of them is what the Rust handlers      *)
(* assume: events reach the OMS in the order the broker produced them, a   *)
(* fill precedes the report that counts it, and an event is about the      *)
(* internal order whose idempotency key the broker order carries.          *)
(***************************************************************************)
EXTENDS Oms, FiniteSets, Functions

CONSTANTS
  SymbolOf,       \* the symbol_id of an order
  FirstBrokerId,  \* nextValidId of the broker session
  MaxInbox        \* bound on events in flight to the OMS

VARIABLES
  book,            \* the broker's orders: broker id -> order
  inbox,           \* events from the bridge to the OMS
  past_keys        \* keys of earlier runs of the process

allVars == <<vars, book, inbox, past_keys>>

LastBrokerId == FirstBrokerId + Cardinality(BrokerId) - 1

ASSUME FlowAssumption ==
  /\ FirstBrokerId \in Nat
  /\ IsFiniteSet(BrokerId)
  /\ BrokerId = FirstBrokerId .. LastBrokerId
  /\ SymbolOf \in [Key -> Nat \ {0}]
  /\ MaxInbox \in Nat
  \* What the broker sends is among what Oms expects; it is handled at once.
  /\ 0 .. OrderQty \subseteq SyncFilled /\ 0 \in Lags
  /\ {"Live", "Filled", "Cancelled"} \subseteq ReportStatus /\ "Live" \in SyncStatus

Working(b) == book[b].status = "Live"

\* An event is queued for the OMS; `symbol' is what BridgeRx validates.
Emit(e) == Len(inbox) < MaxInbox /\ inbox' = Append(inbox, e)

-----------------------------------------------------------------------------
(* The bridge: _handle_oms_command. *)

\* place_limit_order.  It fails for an unknown contract or an exception; the
\* OMS is told nothing either way.
BridgeNewOrder ==
  /\ cmd_sock # <<>>
  /\ Head(cmd_sock).type = "NewOrder"
  /\ \/ UNCHANGED book
     \/ LET b == FirstBrokerId + Cardinality(DOMAIN book)
        IN /\ b \in BrokerId
           /\ book' = Insert(book, b, [client |-> Head(cmd_sock).key,
                                       filled |-> 0, status |-> "Live"])
  /\ cmd_sock' = Tail(cmd_sock)
  /\ UNCHANGED <<orders, maps, loop, inbox, past_keys>>

\* cancel_order looks for an open order whose broker id is the id it was given,
\* which is the internal one.  The answer carries symbol_id 0.
BridgeCancel ==
  /\ cmd_sock # <<>>
  /\ Head(cmd_sock).type = "CancelOrder"
  /\ LET i == Head(cmd_sock).id
         found == i \in DOMAIN book /\ Working(i)
     IN /\ book' = IF found THEN [book EXCEPT ![i].status = "Cancelled"] ELSE book
        /\ Emit([type |-> IF found THEN "CancelAck" ELSE "CancelReject",
                 id |-> i, symbol |-> 0])
  /\ cmd_sock' = Tail(cmd_sock)
  /\ UNCHANGED <<orders, maps, loop, past_keys>>

-----------------------------------------------------------------------------
(* The broker. *)

BrokerFill(b, size) ==
  /\ b \in DOMAIN book
  /\ Working(b)
  /\ book[b].filled + size <= OrderQty
  /\ book' = [book EXCEPT ![b].filled = @ + size,
                          ![b].status = IF book[b].filled + size = OrderQty
                                        THEN "Filled" ELSE "Live"]
  /\ Emit([type |-> "Fill", key |-> book[b].client, size |-> size,
           symbol |-> SymbolOf[book[b].client]])
  /\ UNCHANGED <<vars, past_keys>>

\* Orders are placed IOC: what does not execute at once is cancelled.
BrokerExpire(b) ==
  /\ b \in DOMAIN book
  /\ Working(b)
  /\ book' = [book EXCEPT ![b].status = "Cancelled"]
  /\ UNCHANGED <<vars, inbox, past_keys>>

BrokerReport(b) ==
  /\ b \in DOMAIN book
  /\ Emit([type |-> "Status", key |-> book[b].client, status |-> book[b].status,
           filled |-> book[b].filled, symbol |-> SymbolOf[book[b].client]])
  /\ UNCHANGED <<vars, book, past_keys>>

\* The orders the broker has open, in the order of their ids.
OpenList ==
  LET open == {b \in DOMAIN book : Working(b)}
  IN [n \in 1 .. Cardinality(open) |->
       LET b == CHOOSE x \in open : Cardinality({y \in open : y <= x}) = n
       IN [client |-> book[b].client, broker |-> b, filled |-> book[b].filled,
           status |-> "Live", created |-> 0]]

BrokerSync ==
  /\ Len(OpenList) <= MaxSync
  /\ Emit([type |-> "StateSync", list |-> OpenList, symbol |-> 1])
  /\ UNCHANGED <<vars, book, past_keys>>

-----------------------------------------------------------------------------
(* Delivery to the OMS task. *)

\* validate_event drops what names no symbol.
Drop ==
  /\ inbox # <<>>
  /\ Head(inbox).symbol = 0
  /\ inbox' = Tail(inbox)
  /\ UNCHANGED <<vars, book, past_keys>>

\* The router hands the event to the OMS arm that matches its kind.  The answers
\* to cancels are not here: they never pass Drop.
Deliver ==
  /\ inbox # <<>>
  /\ arm = "select"
  /\ Head(inbox).symbol # 0
  /\ LET e == Head(inbox)
     IN CASE e.type = "Fill" ->
               IF e.key \in DOMAIN idempotency_cache
               THEN Fill(idempotency_cache[e.key], e.size, 0)
               ELSE UNCHANGED vars
          [] e.type = "Status" ->
               IF e.key \in DOMAIN idempotency_cache
               THEN Status(idempotency_cache[e.key], e.status, e.filled, 0)
               ELSE UNCHANGED vars
          [] e.type = "StateSync" -> StateSync(e.list)
  /\ inbox' = Tail(inbox)
  /\ UNCHANGED <<book, past_keys>>

-----------------------------------------------------------------------------
(* The OMS task inside the flow. *)

\* The runtime builds keys from timestamps: none of an earlier run comes back.
FlowNewOrder(k, ok) ==
  /\ k \notin past_keys
  /\ NewOrder(k, ok)
  /\ UNCHANGED <<book, inbox, past_keys>>

\* Arms that touch nothing outside the task but the socket.  No task of the
\* runtime sends OmsCommand::CancelOrder: cancels come from the tick.
FlowStep ==
  /\ \/ Heartbeat
     \/ TimeoutTick
     \/ \E i \in Id, ok \in BOOLEAN : CancelTimedOut(i, ok)
     \/ CheckCancelTimeouts
     \/ ReconcileOrder
     \/ ReconcileStale
     \/ Shutdown
     \/ ClockTick
  /\ UNCHANGED <<book, inbox, past_keys>>

\* The process dies, in any arm, and starts again with an empty OMS: nothing of
\* it is persisted.  Datagrams already in the bridge's socket stay there.
Restart ==
  /\ orders' = [i \in {} |-> {}]
  /\ idempotency_cache' = [k \in {} |-> 0]
  /\ broker_map' = [b \in {} |-> 0]
  /\ next_order_id' = 1
  /\ arm' = "select"
  /\ timeouts' = {}
  /\ open_orders' = <<>>
  /\ broker_order_ids' = {}
  /\ inbox' = <<>>
  /\ past_keys' = past_keys \cup DOMAIN idempotency_cache
  /\ UNCHANGED <<cmd_sock, book>>

FlowInit ==
  /\ Init
  /\ book = [b \in {} |-> {}]
  /\ inbox = <<>>
  /\ past_keys = {}

FlowNext ==
  \/ \E k \in Key, ok \in BOOLEAN : FlowNewOrder(k, ok)
  \/ FlowStep
  \/ BridgeNewOrder
  \/ BridgeCancel
  \/ \E b \in BrokerId, size \in FillSizes : BrokerFill(b, size)
  \/ \E b \in BrokerId : BrokerExpire(b)
  \/ \E b \in BrokerId : BrokerReport(b)
  \/ BrokerSync
  \/ Drop
  \/ Deliver
  \/ Restart

FlowSpec == FlowInit /\ [][FlowNext]_allVars

\* The bridge and the router keep reading, and the OMS is fair as in Oms.
FlowFairSpec ==
  /\ FlowSpec
  /\ WF_allVars(BridgeNewOrder) /\ WF_allVars(BridgeCancel)
  /\ WF_allVars(Drop) /\ SF_allVars(Deliver)
  /\ SF_allVars(ClockTick /\ FlowStep)
  /\ SF_allVars(TimeoutTick /\ FlowStep)
  /\ WF_allVars(arm # "select" /\ FlowStep)

-----------------------------------------------------------------------------
(* Properties. *)

OrdersOf(k) == {b \in DOMAIN book : book[b].client = k}

\* What an event tells the OMS to add to the order with key k.
Shares(e, k) == IF e.type = "Fill" /\ e.key = k THEN e.size ELSE 0

\* Executions of the orders with key k that the OMS has not been told of.
InFlight(k) == SumFunction([n \in DOMAIN inbox |-> Shares(inbox[n], k)])

Executed(k) ==
  SumFunctionOnSet([b \in DOMAIN book |-> book[b].filled], OrdersOf(k))

FlowTypeOK ==
  /\ TypeOK
  /\ DOMAIN book \subseteq BrokerId
  /\ \A b \in DOMAIN book :
       book[b] \in [client: Key, filled: 0 .. OrderQty,
                    status: {"Live", "Filled", "Cancelled"}]
  /\ Len(inbox) <= MaxInbox
  /\ past_keys \subseteq Key

\* Whatever mixes fills, cumulative reports, snapshots, timeouts and restarts,
\* the filled_qty of an order the OMS tracks is the broker's, less the fills
\* still on their way.  (For a key the broker has at most one order of; a
\* NewOrder that was sent twice is the subject of OneBrokerOrderPerKey.)
FillsConserved ==
  \A i \in DOMAIN orders :
    LET k == orders[i].client
    IN Cardinality(OrdersOf(k)) <= 1 =>
         orders[i].filled + InFlight(k) = Executed(k)

\* An order is Filled here only when the broker has executed its quantity, even
\* if two broker orders feed the same internal one.
FilledIsTrue ==
  \A i \in DOMAIN orders :
    orders[i].status = "Filled" => Executed(orders[i].client) >= OrderQty

\* IPC_CONTRACT.md:31: the idempotency key prevents a second execution.
OneBrokerOrderPerKey ==
  \A k \in Key : Cardinality(OrdersOf(k)) <= 1

\* IPC_CONTRACT.md:39: CancelOrder carries the internal id of the order to
\* cancel, so that order, and no other, is cancelled.
CancelHitsNamedOrder ==
  [][\A b \in DOMAIN book :
       (BridgeCancel /\ book'[b] # book[b]) =>
         /\ Head(cmd_sock).id \in DOMAIN orders
         /\ book[b].client = orders[Head(cmd_sock).id].client]_allVars

\* CANCEL_FLOW.md:40-43: the answer of the bridge resolves the cancel.
AnsweredCancelResolves ==
  \A i \in Id :
    (i \in CancellingIds /\ \E n \in DOMAIN inbox :
       inbox[n].type \in {"CancelAck", "CancelReject"} /\ inbox[n].id = i)
    ~> (\/ arm = "stopped"
        \/ i \notin DOMAIN orders
        \/ orders[i].status \in {"Cancelled", "CancelRejected", "Filled"})

\* CANCEL_FLOW.md:31: Cancelled is terminal.
CancelledIsTerminal ==
  [][\A i \in DOMAIN orders \cap DOMAIN orders' :
       (orders[i].status = "Cancelled" /\ orders'[i].client = orders[i].client)
         => orders'[i].status = "Cancelled"]_allVars

\* execution_engine lib.rs:284: an order that is not in the snapshot is not live.
StaleOrdersAreGone ==
  [][ReconcileStale =>
       \A i \in OpenIds :
         orders'[i].status = "Cancelled" =>
           \A b \in OrdersOf(orders[i].client) : ~Working(b)]_allVars

\* app_runtime lib.rs:361: after an order timed out unconfirmed, new orders for
\* its symbol are blocked.
TimedOutSymbolIsBlocked ==
  [][\A i \in DOMAIN orders, k \in Key :
       (orders[i].status = "Rejected" /\ SymbolOf[k] = SymbolOf[orders[i].client])
         => (cmd_sock' # Append(cmd_sock, [type |-> "NewOrder", key |-> k]))]_allVars

\* app_runtime lib.rs:199: live orders are cancelled on shutdown.
ShutdownCancelsOrders ==
  arm = "stopped" => OpenIds = {}
=============================================================================
