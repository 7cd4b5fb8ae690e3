# Robust Penny Scalper in TLA+

A verification project for the trading system under `src/`: a Rust runtime of
asynchronous tasks (`src/rust/crates`), and a Python bridge to the broker
(`src/python/rps_bridge`). Every definition is translated from the source; the
lines each one stands for are listed in `PROJECT.json` under `map`. Paths below
are relative to `src/rust/crates/` unless they start otherwise.

Contents: 1 the system; 2 the modules; 3 the runs; 4 fairness; 5 the proofs;
6 where code and documentation disagree; 7 abstractions and bounds; 8 what is
not modelled; 9 the plan.

## 1. The system

`app_runtime/src/lib.rs` starts one task per box and connects them by bounded
channels. Every task is a loop over `tokio::select!`, so one arm runs to its
end before the next is chosen; between arms the tasks interleave freely.

    Python bridge --UDS--> BridgeRx --bus--> DataRouter --+--> FastLoop --+
         ^                    |                           +--> Risk task -+-> orders
         |                    | degraded channel (8)      +--> SlowLoop   |     |
         |                    v                           +--> metrics    |     |
         |                main loop                       +--> OMS <------|-----+
         +--- command socket (datagrams) -----------------------+         |
                                           RiskState (mutex) <------------+

| Component | State it keeps | Operations | What makes it correct |
|---|---|---|---|
| OMS (`execution_engine`) and its task | orders, idempotency cache, broker-id map, next id; the position inside a loop arm | place, cancel, ack, fill, status, cancel answers, reject, heartbeat and 30 s timeouts, StateSync reconciliation | one order per key, broker ids find their order, cancels and open orders do not hang, reconciliation agrees with the broker |
| Command socket and Python bridge | datagrams in flight, the broker's orders | place, cancel, report | fills are counted once across retries, timeouts, snapshots and restarts |
| Event path: UdsSender, BridgeRx, bus, DataRouter | bytes in the socket, `read_buf` and cursor, the bus, the consumers' channels | connect, write, read, decode, validate, process, fan out | every event decoded once and in order; Critical ones never lost or overtaken before the router |
| BridgeRx, main loop, metrics: the data-quality gate | connection, silence, `is_degraded`, the degraded channel, `system_monitor_only`, `monitor_only`, SLA breach | accept, read, heartbeat check, degrade, restore, SLA check, persist | the gate is closed while data is bad, and for no other reason kept by this loop |
| Risk task and `RiskState` | positions, buy tracker, realized PnL; daily PnL, ladder limit, PDT trades, unsettled proceeds, blocklist | fill, heartbeat, StateSync, reject; `update_pnl`, `check_entry`, `should_terminate` | books balance, the limit never loosens, day trades and settlements are not forgotten, a breach stops the system |
| FastLoop, TapeEngine, sizer | per-symbol position and PnL, global PnLs, disabled and halted symbols | tick, fill, halt, reconnect, StateSync; entry, emergency exit, CLOSE ALL, save | its PnL is the sum over its symbols; it agrees with the Risk task and the broker |
| Watchlist and SlowLoop | three tiers, tick counts, inactivity, cooldown; `subscription_count` | add, promote, demote, lifecycle, touch | subscriptions stay within the broker's lines; a cold symbol leaves |
| Entry of a symbol: flicker guard and ring buffer, gates, guards, scores, sizer, fees, session | ring of times, block with its end, quote, metrics, cold-start state | track, check, score, size, reset | a block is never cut short; activity is earned anew after a reconnect; the ring forgets what it should and nothing else |
| Slow analysis: context, MTF and regime engines, calendar | per-symbol volume, churn ring, levels and their times; the market's inputs | Tick, Snapshot, Heartbeat arms of the SlowLoop, the engines' updates | a Play, a confirmation and the regime rest on what was said last |
| Config, locale, daemon, dashboard, replayer, metrics | parsed settings, counters | start-up, formatting, batch replay | input and output; see section 8 |

The components share state in five ways: the router's fan-out (each consumer
has a channel of its own and may miss an event another one gets), the
`RiskState` mutex (daily PnL and `monitor_only` each have several writers), the
order channel to the OMS (`try_send`, three senders), the degraded channel, and
the shutdown token. Hard behaviours follow from these: late and duplicated
broker answers, a socket that fails between two steps, timers that race
answers, two tasks booking the same fill at their own pace, notifications that
may be dropped, and restarts that keep one half of a pair of flags.
`PROJECT.json` lists them at their lines as `hazards`, with the properties that
would catch each.

## 2. The modules

| Module | Models | State and actions |
|---|---|---|
| `OrderRegistry` | what the OMS promises about names: a key is registered once, under a fresh id, and stays there | abstract |
| `Oms` | `OrderManagementSystem` and the OMS task (`app_runtime/src/lib.rs:161-429`) | `orders`, `idempotency_cache`, `broker_map`, `next_order_id` are the fields of the struct, `arm`, `timeouts`, `open_orders`, `broker_order_ids` the locals of a running loop. One action per arm, one per iteration of the two arms that loop (30 s tick, `reconcile_state`) |
| `OrderFlow` (extends `Oms`) | the Python bridge's command handler, the broker's side, and delivery to the OMS | `book` is the broker's order book, `inbox` the events on their way, `past_keys` the keys of earlier runs. `Restart` loses everything but the socket and the broker |
| `DataQuality` | `BridgeRxTask`'s connection and heartbeat logic, the main loop, `check_sla_hard_fail`, the Risk-Off write, the persisted flag | one action per arm; a clock tick is one period of `heartbeat_check` |
| `Watchlist` | every operation of `watchlist_engine/src/lib.rs` | the keys of the three maps as sets, `TierData` reduced to what tiers depend on |
| `SlowLoop` (extends `Watchlist`) | the SlowLoop task (`app_runtime/src/lib.rs:631-837`) | Tick, Snapshot, Heartbeat; shown to implement `WSpec` |
| `TradeAccounting` | average cost, realized and unrealized PnL, what a fill does to a position | operators; used by both trackers |
| `RiskState` | `RiskState` and `PdtGuard` | ladder, ratchet, termination, day trades, settlement, `check_entry` |
| `RiskTask` (extends `RiskState`, `TradeAccounting`) | the Risk task (`app_runtime/src/lib.rs:431-629`) | one action per event kind; its own specification `RiskSpec`, with the FastLoop's write as an action of the environment |
| `FastLoop` (extends `RiskState`, `TradeAccounting`) | the FastLoop task and the TapeEngine behind it | one action per branch: CLOSE ALL, closed session, emergency tick, open tick, fill, StateSync, reconnect, halt, shutdown |
| `Trading` (extends `RiskTask`, `FastLoop`) | router, both tasks, order channel, broker book, restart with `risk_state.json` | the two queues, the working orders, the book |
| `PriorityPipe` | what the way from the decoder to the router promises: order is kept, only a full queue refuses, and never a Critical event | abstract |
| `EventFlow` | `UdsSender`, `BridgeRxTask` (`bridge_rx/src/lib.rs`), the bus, the DataRouter (`app_runtime/src/lib.rs:1224-1294`) | `conns` are the connections with the bytes still in them, `read_buf` and `cursor` the reader's, `waiting` the event of a pending `send().await`. One action per await and per round of the decode loop; a read takes any number of the bytes that are there, and a frame is two pieces, so that it may be cut |
| `TimeRingBuffer` | `core_types/src/time_buffer.rs`, slot by slot | operators: push, prune, len, iter, min_max |
| `SlidingWindow` | what that buffer promises: the last arrivals without the expired ones | abstract |
| `GuardEvaluator` (extends `TimeRingBuffer`) | `risk_engine/src/guards.rs` for one symbol | the flicker window, the five checks of a quote, the block and its end |
| `EntryPipeline` (extends `GuardEvaluator`) | the TapeEngine's gates, scores and cold start, the exposure and liquidity rules, stop distance, sizer, fees, session, and the reductions of the FastLoop | one action per event kind of a symbol and per `update_*` of the slow side; shown to implement `SlidingWindow` |
| `SymbolAnalysis` | the context and MTF engines for one symbol | operators on the two state records |
| `MarketRegime` | the regime engine and the calendar | operators on the record of inputs; `CalendarActive` by its three ways of loading |
| `MarketAnalysis` (extends both) | their use by the SlowLoop arms (`app_runtime/src/lib.rs:631-837`) | Tick, Snapshot, answers of the higher time frames, sector and market updates, Heartbeat; `told` records what was said last |
| `MC*` | finite instances of the above | values and symmetry sets only |
| `OmsProofs`, `WatchlistProofs`, `DataQualityProofs`, `RiskProofs`, `EntryProofs`, `MarketProofs`, `EventFlowProofs` | theorems, section 5 | |
| `Aggregates` | facts about extremes (`Max`, `Min`, least and greatest members, ranks, tops of lists) and about the sums of `SumFunctionOnSet` that the proofs use | lemmas |

Mutants: next to an operator there may be a second one marked `Mutant of`. It
is the operator with a plausible bug and no specification uses it;
`PROJECT.json` names for each property the mutant that violates it. They show
that the property depends on the code's behaviour.

## 3. The runs

The passing runs:

| Run | Module, configuration | Question | Bounds and why they are enough |
|---|---|---|---|
| `oms_ids` | `MCOms`, `MCOmsIds.cfg` | Do keys, internal ids and broker ids name one order each under placements, acks, imports and re-pointed ids? Does the OMS implement the registry? Does reconciliation leave exactly the broker's view? | 2 keys, 2 broker ids (symmetric), 3 internal ids, snapshots of up to 2 orders: two colliding names and one import beside them |
| `oms_timers` | `MCOms`, `MCOmsTimers.cfg` | Does every cancel resolve and every open order move on, whatever races the 30 s tick, the 5 s heartbeat timeout and a socket that fails? | 2 orders, a socket of 1 datagram, ages that saturate one above the thresholds; an event may be late by a tick |
| `order_flow` | `MCOrderFlow`, `MCOrderFlow.cfg` | Is every executed share counted once, and is Filled true, over fills, cumulative reports, snapshots, timeouts and restarts? | 1 key, broker ids from 1, quantity 2 (a partial fill and the rest), 3 events in flight, 2 internal ids (the order and its import). Deadlock is not checked: after shutdown or at the bounds the system stops |
| `watchlist` | `MCWatchlist`, `MCWatchlist.cfg` | Can any sequence of operations list a symbol twice, exceed the subscriptions or the list's size, or move a symbol two tiers? | 3 symbols, tiers of 1, 2 and 1, a single subscription: every capacity is reached and exceeded by one |
| `slow_loop` | `MCSlowLoop`, `MCSlowLoop.cfg` | Does the task only do what `Watchlist` allows, and does a cold symbol leave? | 2 symbols, thresholds of 2 cycles |
| `data_quality` | `MCDataQuality`, `DataQuality.cfg` | Do the two flags connected by the channel agree, is the gate closed while data is degraded, does a restoration arrive, does a hard fail last? | timeout 2 ticks, the code's channel of 8 (never more than 2 used, which `TypeOK` states), hard fail after 2 ticks |
| `risk_task` | `MCRiskTask`, `MCRiskTask.cfg` | Do books balance, does the limit remember, are day trades and unsettled proceeds counted, does a breach stop the system? | 1 symbol, 4 fills at prices 12 and 24 of sizes 1 and 2 (open, increase, reduce, close, flip), 3 days with a window of 2, a ladder of two steps the second of which is looser than the first |
| `trading` | `MCTrading`, `MCTrading.cfg` | Do the two trackers, the broker's book and the daily PnL stay consistent across two queues, dropped events, StateSync, reconnects, halts and a restart? | 2 symmetric symbols, up to 3 fills (two buys and the partial exit they trigger) and 3 other events (an entry, a halt and the tick that ends it), 5 of both together; queues of 2, so that events are dropped; order channel of 1 |
| `entry_pipeline` | `MCEntryPipeline`, `MCEntryPipeline.cfg` | Is a block ever cut short or passed, is full activity earned, is the ring a sliding window? | 4 ms of source time with events up to 1 ms late, a flicker limit of 2 (a ring of 4 items in 5 slots, which wraps), a window of 3 and a block of 1; one quote that passes and the empty tape that does not; the limits of `configs/default.toml` otherwise |
| `market_analysis` | `MCMarketAnalysis`, `MCMarketAnalysis.cfg` | Does a Play, a confirmation or the regime rest on anything but what was said last? | 6 inputs in 3 time steps; a churn history of 2, levels stale after 1; each regime input at a limit or beyond it, a calendar event inside and outside its window |
| `event_flow` | `MCEventFlow`, `MCEventFlow.cfg` | Is every event decoded once and in order, what is dropped, and does every Critical event reach the router? | 3 events of five kinds of frame (Critical and not, invalid, undecodable, corrupt), two connections, a bus and a channel of 1: the bus is full after one event. Deadlock is checked |

The violation run `trading_long_only` (`LongOnly`) states what the repository
says and the code does not do; it is the finding of `PROJECT.json`. All other
disagreements are in the table of section 6, with the configurations that show
them.

What the properties say, in short (each is stated in full at its definition).
Besides the type invariants of `Oms`, `Watchlist` and `DataQuality`, which the
runs check because they state more than types, there are:

- `KeyNamesOneOrder`, `BrokerIdFindsOrder`, `RegistrySpec`: `place_order`,
  `handle_ack` and the import of `reconcile_state` share three maps, and none
  of them breaks what another relies on.
- `ReconcileAgrees`: after a StateSync an order is open here only if the broker
  listed it, and every listed order is tracked.
- `TickCancelsOpenOrders`: the list the tick collected stays valid until the
  loop has gone through it; the arms `Ok(false)` and `Err` are dead code.
- `CancelResolves`, `OpenOrderResolves`: no order stays unresolved while the
  task runs, even if no answer ever comes and the socket fails.
- `FillsConserved`, `FilledIsTrue`: `filled_qty` is the broker's minus what is
  in flight, although fills add and reports overwrite.
- `LastWord`, `OwnGateClosed`, `HardFailLasts`, `AbsenceClosesGate`,
  `RestorationArrives`: the gate, section 1.
- `OneTierPerSymbol`, `WithinSubscriptions`, `WithinBudget`, `OneTierAtATime`,
  `ColdSymbolLeaves`: `demote` fills Tier C unchecked, only one of the two
  promotions consults the total, and the lifecycle demotes and evicts in one
  pass; the bounds hold all the same. `WatchlistSpec`: the SlowLoop does nothing
  to the list that `Watchlist` does not allow.
- `BooksBalance`: realized PnL = money paid by fills + basis of what is held,
  through increases, reductions, closings and flips.
- `RatchetRemembers`: the limit is at least as tight as the highest PnL ever
  called for, with two writers and a PnL that comes down again.
- `DayTradesCounted`, `ProceedsLocked`: pruning and per-day sums lose nothing,
  with fills processed a day late.
- `GlobalsAreSums`, `TrackersFollowBook`, `TrackersAgree`: the FastLoop's
  globals, kept by differences, are sums; the two trackers differ from the book
  by what is queued and nothing else; once both have seen every fill they agree
  on cost and realized PnL. (What `daily_pnl_usd` then holds depends on who
  wrote last: `DailyPnlIsTotal` in section 6.)

- `BlockHolds`: until an event at or after its end is seen, no late event,
  quote, reconnect or update ends a block or moves its end, and nothing is
  bought through it. `ActivityEarned`: a symbol is fully active exactly when it
  earned that since the last reconnect. `WindowSpec`: the ring refines a
  sliding window.
- `PlayEarned`, `ConfirmationFresh`, `RegimeIsWorst`: the three answers of the
  slow side are functions of the last inputs, in whatever order these came.
- `DecodedInOrder`, `QosSpec`, `CriticalArrives`: wherever the reads cut the
  stream, whatever the bridge breaks off, and however full the bus is.

Run one with `tlc -config MCOmsIds.cfg MCOms`.

## 4. Fairness

Safety runs assume none. Where liveness is checked:

- `Oms!FairSpec`: strong fairness of the clock and of the 30 s tick.
  `tokio::select!` picks at random among ready arms, so an arm that is ready
  again and again is taken; a loop that has started is finished (weak fairness
  of its iterations), because nothing else runs in that task. The socket may
  fail each time, and no answer of the broker is assumed.
- `DataQuality!FairSpec`: weak fairness of the heartbeat check, the main loop
  and the clock: tasks that stay ready are polled. The bridge is free to do
  anything, among it nothing. A tick of 500 ms is assumed to be long enough for
  the main loop to take a waiting notification.
- `EventFlow!FairSpec`: weak fairness of the BridgeRx task as a whole and of the
  router: both are polled while they have something to do. Nothing is assumed
  of the bridge, of the clock or of the consumers; that the router does not
  wait for them is what makes this enough.
- `SlowLoop!SFairSpec`, `RiskTask!RiskFairSpec`: heartbeats keep arriving. The
  bridge sends one every 250 ms, and the router passes them on.

## 5. The proofs

`tlapm` checks every leaf. The theorems hold for all values of the constants
that satisfy the `ASSUME`s of the modules; TLC evaluates those on its
instances.

**OMS** (`OmsProofs`, assumption `OmsAssumption`). `TypeOK`,
`KeyNamesOneOrder`, `BrokerIdFindsOrder` and `TickCancelsOpenOrders` are not
inductive by themselves: a reconciliation works on the list it started with, so
the argument needs to know that outside of the tick there is nothing collected,
and that every order already gone through is entered in `broker_map`
(`LoopInv`). `IInv` is their conjunction, theorem `OmsInvariant`. The lemmas
are cut along what an action may touch: `EventInv` for everything that rewrites
one order's status, `SweepInv` for what rewrites many, `MatchByBrokerIdInv`,
`MatchByKeyInv` and `ImportInv` for the three ways a listed order is taken in.
From `IInv` follow the action property `ReconcileAgrees` (`ReconcileSound`) and
the refinement `OmsImplementsRegistry`: each step of the OMS is a registration
or a stutter.

**Path of an order** (`OmsProofs` as well, assumption `FlowAssumption` of
`OrderFlow`: broker ids are an interval, quantities and statuses that the broker
sends are among those the OMS knows). The theorems are `FillsAlwaysConserved`
and `FilledAlwaysTrue`. Neither is inductive: a report overwrites `filled_qty`
with a number that was true when the broker sent it, so the invariant `FlowInv`
must say of every statement under way (a report or a snapshot in the inbox, the
rest of a snapshot the loop is going through, an order of the OMS) that it is
what the broker has executed less the fills *behind* it (`Consistent`,
`FillsAfter`). Taking an event off the inbox then moves its shares from the
inbox to the order (`AfterPopped`), queueing a fill adds them to the book and to
the inbox at once (`ExecutedGrows`, `AfterAppended`). Three more conjuncts are
needed: a broker id means the same order at both ends (`NamesTrue`), every key
at the broker is one a run registered (`KeysKnown`: a key that is placed for the
first time has nothing executed), and the broker hands out ids without gaps
(`BookInv`). With two broker orders under one key the
equation becomes the inequality that `FilledIsTrue` needs.

**Watchlist** (`WatchlistProofs`). `WInv` adds to the type invariant and
`OneTierPerSymbol` the bounds stated on unions of tiers (`Bounds`): a sum of
two cardinalities is the cardinality of a union only while the tiers are
disjoint, and every operation then shrinks a union, keeps it, or adds one
member under its guard. `SlowLoopImplementsWatchlist` carries all of it over to
the task, whose every step is a step of `WSpec` or leaves the list alone.
`TiersOneByOne` is the action property: `Moves` lists what a step may do to a
symbol, and the lifecycle pass, which demotes and evicts in one step, stays
within it because what it evicts was in Tier C before.

**Data-quality gate** (`DataQualityProofs`). `LastWord` depends on the
channel's never dropping, and that on a fact about time: at most one loss and
its restoration can wait, because the bridge needs another full timeout to lose
heartbeats again and the clock stands while a notification waits
(`RestorationIsRecent`). Together with `TypeOK` and `OwnGateClosed` this is
`IInv`. `HardFailStays` follows from the step alone.

**Risk task** (`RiskProofs`). `RiskInv` is `RiskTypeOK`, `BooksBalance`,
`RatchetRemembers`, `CountsHold` and `SalesSettle`. The core is `FillBalances`: in every case of a fill (open,
increase, reduce, close, flip) what it books equals what it pays plus the
change of basis. The increase needs the averaged price to be exact
(`WholeQuotient`, `IncreaseKeepsCost`), which is where the whole-unit
abstraction enters. The ratchet compares `LimitAt` of two PnLs; that a step of
the ladder is chosen at all is `LimitExists`, proved from the existence of
least and greatest members of a finite set of naturals
(`LeastExists`, `GreatestExists`). `RatchetHolds` uses nothing about the order
of the ladder's limits: a ladder that loosens is covered. `CountsHold` strengthens
`DayTradesCounted` to every day to come, because a trade that is pruned today
must not be missed by any later count; `SalesSettle` says that what settles on a
day is exactly what was sold on the day before, from which `ProceedsStayLocked`
follows by shifting a sum by a day.

**Trading loop** (`RiskProofs` as well, assumptions of `Trading`, `FastLoop`,
`RiskTask` and `RiskState`). `TradeInv` has the types, `GlobalsAreSums`, the
same for the Risk task, and `BooksFollow`. `TrackersFollowBook` speaks of
numbers of shares, but a StateSync writes quantity *and* average cost, so the
induction needs whole accounts: a channel leads (`Leads`) from a task's account
of a symbol to a final one if the fills in it, booked one after the other, make
that of it, and every StateSync in it says of the symbol what the account is at
that place (`Trace`). `BooksFollow` says that both channels lead to the broker's
position with the same realized PnL. A fill extends both traces (`LeadsAppend`,
`FillFollows`), an event that is taken shortens one (`LeadsPopped`), a StateSync
that is taken finds what it says. `LeadsPending` (a telescoping sum) and
`LeadsNowhere` (no fill, no change) turn this into `TrackersAlwaysFollow` and
`TrackersAlwaysAgree`. `GlobalsAlwaysSums` rests on the lemma that changing a
function at one place changes its sum by the difference.

**Sums and extremes** (`Aggregates`, no assumption). What a sum over a set is
cannot be read off its recursive definition by rewriting, and the induction
theorems of the library take an operator as a parameter, which no installed
prover instantiates. The arguments take a smallest counterexample instead
(`SmallestOf`, `LeastNat`, from the library's `WFMin`): sums are split, shifted,
changed at one place and telescoped with it, and a list has a greatest and a
least member.

**Entry of a symbol** (`EntryProofs`, assumptions `GuardAssumption` and
`EntryAssumption`: types of the constants). `GuardOK` says that the clock never
runs back and the guard keeps its three fields; with it, every event before the
end of a block is seen to leave the guard alone (`TrackEventResult`), which is
`BlocksHold`. `ActivityIsEarned` needs `EntryInv`: the cold-start state and the
counter are what the updates since the reset make of them (`ColdStartTold`), and
the score of a tape never exceeds 100 (`ScoreRange`), so that the threshold of a
cold symbol is out of reach. `WindowKept` is the refinement of `SlidingWindow`
for every size of the ring: `PushIsBounded` follows the indices through the
wrap-around in its two cases, full and not, and `PruneIsExpiry` shows that the
tail moves to the first time that stays, which exists by `CountExists`.

**Slow analysis** (`MarketProofs`, assumptions `MarketAssumption`,
`RegimeAssumption` and `AnalysisAssumption`). `RegimeOK` says that the cached
state is what the inputs call for; each of the six updates must restore it.
`MtfOK` ties every level and answer the engine holds to the time it was told.
`PlaysAreEarned` needs two more: `RingOK`, the ring of prices holds the last
`PriceHistory` ticks slot by slot (`HoldsLast`; `PushKeepsLast` follows the
indices through the wrap-around and the eviction by the arithmetic of `Gap` and
`At`), and `ContextOK`, the engine remembers the volume, the news and the sector
last told and says of a price that it does not churn only if it moved among
those ticks (`QuietMoves`, with `MinMaxFound` for the ring's `min_max`).

**Event path** (`EventFlowProofs`, assumption `FlowAssumption`). `FlowOK` is
the types, the one waiting event, and that the writer's connection is the last
and open. `QueueKept` is the refinement of `PriorityPipe`: bus and waiting event
together are the queue. `OrderKept` needs `StreamOK`: what is in the buffer
behind the cursor, followed by what is still in the socket, is the frames of
the events written and not yet decoded, with at most the start of one more at
the end of a closed stream (`Layout`). A read moves bytes between the two, the
drain takes away what is before the cursor, a frame shifts both cursors by one
event (`LayoutAdvances`), a write or a cut extends the stream (`Continues`).

Only model-checked: liveness (`CancelResolves`, `OpenOrderResolves`,
`AbsenceClosesGate`, `RestorationArrives`, `ColdSymbolLeaves`, `BreachShutsDown`,
`CriticalArrives`), since the prover has no rules for `ENABLED`. Every invariant,
action property and refinement that a passing run checks is a theorem.

## 6. Where code and documentation disagree

The finding of `PROJECT.json`: the fills of a disabled symbol are skipped, exits
are sent for shares already sold, and the account may go short
(`app_runtime/src/lib.rs:1091`; the canonical guidance says "Long-Only"). Run
`trading_long_only`.

The other counterexamples are kept in one configuration per module, which lists
all its properties; leave one of them in the file and run
`tlc -config <cfg> <module>` to see the behaviour.

| Configuration (module) | Property | What the repository says | What the code does |
|---|---|---|---|
| `OrderFlowFindings` (`MCOrderFlow`) | `OneBrokerOrderPerKey` | `src/IPC_CONTRACT.md:31`: duplicates are suppressed | the NewOrder arm forwards a command whose key `place_order` already knew; the bridge places it again (`app_runtime/src/lib.rs:382`) |
| | `CancelHitsNamedOrder` | `src/IPC_CONTRACT.md:39`: CancelOrder carries the internal id | `ibkr_client.py:95` compares it with broker ids: another order is cancelled, or none |
| | `AnsweredCancelResolves` | `src/CANCEL_FLOW.md:40-43`: the bridge's answer resolves the cancel | answers carry `symbol_id` 0 and `validate_event` drops them; the timeout escalates |
| | `CancelledIsTerminal` | `src/CANCEL_FLOW.md:31`: Cancelled is terminal | a late fill or report sets Live or Filled |
| | `StaleOrdersAreGone` | `execution_engine/src/lib.rs:284`: an order missing from the snapshot is not live | it may be in the socket, and is placed afterwards |
| | `TimedOutSymbolIsBlocked` | `app_runtime/src/lib.rs:361`: "blocking new orders for symbol" | nothing is blocked |
| | `ShutdownCancelsOrders` | `app_runtime/src/lib.rs:199`: live orders are cancelled on shutdown | they are only logged |
| `SlowLoopFindings` (`MCSlowLoop`) | `ActiveNotDemoted` | `src/WATCHLIST_LIFECYCLE.md:24`: demotion for low quality or for inactivity | ticks of a Tier A symbol are not counted, so it ages while active |
| | `ColdestMakesRoom` | `src/WATCHLIST_LIFECYCLE.md:27`: the symbol without updates for longest makes room | only snapshots count as updates, ticks do not |
| | `LimitIsReal` | the warning logged when a promotion is refused | `subscription_count` only grows |
| | `UpgradesStopAtWarning` | `configs/default.toml:59`: stop upgrades at 80 % of the budget | upgrades stop at the budget |
| `DataQualityFindings` (`MCDataQuality`) | `SilenceDegrades` | `bridge_rx/src/lib.rs:12`: a silent bridge degrades the data | while a connection is served, the heartbeat check is not polled (line 129) |
| | `OnlyOwnRestore` | `app_runtime/src/lib.rs:1331`: "Only auto-restore if WE set it" | a restoration also opens a gate the SLA closed meanwhile |
| | `RestoredGateOpens` | `app_runtime/src/lib.rs:1334`: entries are allowed again | after a restart the persisted gate has no owner and stays closed |
| `TradingFindings` (`MCTrading`) | `MaxOnePosition` | `risk_engine/src/exposure.rs:4`: at most 1 position | two entries in flight both pass |
| | `DailyPnlIsTotal` | `risk_engine/src/lib.rs:39`: realized + unrealized | the Risk task writes the realized part |
| | `BreachClosesAll` | `app_runtime/src/lib.rs:917`: a breach closes all positions | if the Risk task's heartbeat sees it first, the FastLoop may stop through its shutdown arm (line 887) |
| `EntryPipelineFindings` (`MCEntryPipeline`) | `EntryWithinCash` | `risk_engine/src/sizing.rs:80`: "don't exceed available cash" | after the daily target a size of 0 is raised to 1 (`app_runtime/src/lib.rs:1016`) |
| `MarketAnalysisFindings` (`MCMarketAnalysis`) | `LimitsAreCaution` | `configs/default.toml:43` and 45: at the limits "Caution, else Risk-Off" | the comparisons include the limits in Risk-Off |
| | `ChurnIsRecent` | the context engine's window of `churn_window_minutes` | the price ring is never pruned: a move from before the window counts |
| | `SnapshotCounts` | `app_runtime/src/lib.rs:771`: the Snapshot updates the context's volume | before the symbol's first tick there is no entry to update, and the volume is lost |
| | `CalendarCoversWindow` | `risk_engine/src/calendar.rs:3`: within the window of each event | start and end are times of day on the event's date; a window that reaches the day before is empty (line 74) |
| `EventFlowFindings` (`MCEventFlow`) | `NeverDropped` | `bridge_rx/src/lib.rs:37`: "Fills, OrderStatus, Errors - NEVER DROP" | the router's `try_send` drops them for a consumer whose channel is full |
| | `UndecodableIsSkipped` | the event that cannot be used is dropped and the stream goes on (`bridge_rx/src/lib.rs:196`) | a frame serde rejects makes the loop wait for more bytes, and stops every event behind it (line 218) |

Noted while reading, without a configuration:

- `calendar.rs:50-57` measures staleness from the time the file was loaded, not
  from its `last_updated`.
- `configs/default.toml:75` sets a correlation threshold of 0.40;
  `exposure.rs:123` compares with 0.5.
- `spread_cents` holds ask minus bid in dollars (`tape_engine/src/lib.rs:163`)
  and is divided by 100 and 200 as cents (`app_runtime/src/lib.rs:976`,
  `sizing.rs:134`).
- The guards' windows are in milliseconds and get microseconds; the stale check
  compares a timestamp with itself and never fires.
- Snapshots are not routed to the FastLoop, so that in the application bid and
  ask stay 0 and the spread guard rejects every entry. `EntryPipeline` models
  what the TapeEngine does when it gets them, as its tests do.
- `update_tier`, `update_daily_context` and their like are called by tests only.
- A Critical event older than 5 s is dropped by `validate_event` before it has
  a priority; `CriticalArrives` excepts it.

## 7. Abstractions and bounds

- Money and prices are whole units instead of `f64`; `Exact` admits only fills
  whose average is whole. Rounding is therefore not modelled.
- A handler is one step. In the code the arms of the Risk task and of the
  FastLoop take the `RiskState` mutex several times, so another task may write
  between two of these sections. The properties checked do not depend on it:
  each relates state of one task, or what a single section changes
  (`update_pnl` writes PnL and limit together), or queues that only these arms
  read. Where a loop inside an arm can be overtaken by another party, as in the
  OMS, its iterations are steps of their own.
- Times are differences. The OMS compares ages with thresholds and nothing
  else, so an order carries two saturating counters. `DataQuality` counts
  silence in periods of its check.
- `signal`, `blocked` and `size` in the FastLoop are free choices: they stand
  for the gates after `check_entry`, the flicker guard, and the sizer's caps.
  Whatever holds, holds for every outcome of those. `EntryPipeline` has them in
  full, for one symbol.
- In `EntryPipeline` prices are cents, ratios percent, and divisions round down;
  scores are weighted percentages. Timestamps and windows have one unit.
- In `EventFlow` a frame decodes to an event that is valid, to one that is not,
  to a value serde rejects, or to no value at all; the bounds that
  `validate_event` compares with are the difference between the first two.
  Errors of decoding are only possible at the first byte of a frame or at its
  end, which two pieces are enough to tell apart.
- Constants with a meaning in the code: `Ladder` and `TierA` are what
  `set_risk_ladder` and `update_tier` would set. No task of the runtime calls
  them; the tests do, and the runs of `Trading` let them be set.
- Bounds are CONSTANTS named `Max...`, `QueueCap`, `OrderCap`, `NotifyCap`, and
  appear in guards with the comment `Bound`. `NotifyCap` is the code's own
  value.
- Fills, order reports and snapshots have no producer in the repository. The
  broker of `OrderFlow` does what the Rust handlers assume: events arrive in
  the order it made them, and a fill precedes the report that counts it.
- History variables (`cash`, `peak`, `day_trades`, `sold`, `fills`,
  `past_keys`) record what properties compare with; no guard of the code's
  actions reads them, except as bounds.

## 8. What is not modelled

- Blocklist: no ticker is registered and `reload_if_needed` is never called, so
  its answer is empty in every reachable state. `RiskState` has it as one of
  the answers that may refuse an entry.
- `unblock_symbol`, `set_corporate_action`, and the Pearson correlation: never
  called by the application.
- Configuration, locale, market time: parsing and formatting.
- Histograms, counters, logs (of the metrics task only the SLA hard fail is
  modelled), the dashboard (its state is marked as not wired), the daemon's
  start-up, the fixtures generator, and the replayer, a sequential batch
  program.
- The Python encoder: what a frame decodes to is a choice. The connection to
  IBKR behind the bridge is the broker of `OrderFlow`.
- The price history of the TapeEngine, which is written and never read.

## 9. The plan

Modelled in the order of importance: orders, the gate, PnL and risk, the
watchlist; then the event path, the entry rules with their ring buffer, and the
slow analysis. What is left:

1. A composition of `EventFlow` with `DataQuality`: a Critical event that waits
   for the bus also keeps heartbeats from being read.
2. The FastLoop's share of `risk_state.json` across restarts: the realized PnL
   that restarts at 0 and overwrites the loaded daily PnL.
3. Proofs: the safety half of the liveness properties, what each step of the
   chain towards their goal keeps until the fair one is taken.
