------------------------------- MODULE SlowLoop --------------------------------
(***************************************************************************)
(* The SlowLoop task of app_runtime/src/lib.rs:631-837 as the owner of the *)
(* watchlist: ticks promote, snapshots touch, heartbeats run the           *)
(* lifecycle, and a counter of its own stands for the broker               *)
(* subscriptions in use.  Who adds and rates candidates is outside the     *)
(* task: the application itself never does.                                *)
(***************************************************************************)
EXTENDS Watchlist

CONSTANTS
  SubLimit,   \* config.ibkr.subscription_budget
  SubWarn     \* sub_warn_threshold = subscription_budget * subscription_warn_pct

ASSUME SlowLoopAssumption == {SubLimit, SubWarn} \subseteq Nat

VARIABLES
  subscription_count,
  active      \* history: the symbols that ticked since the last heartbeat

svars == <<tier_a, tier_b, tier_c, data, recently_evicted,
           subscription_count, active>>

-----------------------------------------------------------------------------
(* Actions. *)

Promotes(s, d) == PromotesToB(s, d) \/ PromotesToA(s, d)

\* Mutant of Tick: a ready symbol goes from Tier C straight into Tier A.
TickPromotesToA(s) ==
  /\ active' = active \cup {s}
  /\ IF s \in tier_c /\ PromotesToB(s, data) /\ Cardinality(tier_a) < MaxA
     THEN /\ tier_c' = tier_c \ {s}
          /\ tier_a' = tier_a \cup {s}
          /\ subscription_count' = subscription_count + 1
          /\ UNCHANGED <<tier_b, data, recently_evicted>>
     ELSE /\ s \in Listed
          /\ UpdateTickCount(s)
          /\ UNCHANGED subscription_count

\* A Tick event.  A symbol of Tier A is left alone; any other is counted, and
\* promoted when it can be and the subscription counter is below its limit.
Tick(s) ==
  /\ active' = active \cup {s}
  /\ IF s \in tier_a \/ s \notin Listed
     THEN UNCHANGED <<wvars, subscription_count>>
     ELSE LET d == [data EXCEPT ![s] = Ticked(@)]
          IN IF subscription_count >= SubLimit
             THEN /\ data' = d
                  /\ UNCHANGED <<tier_a, tier_b, tier_c, recently_evicted,
                                 subscription_count>>
             ELSE /\ PromoteWith(s, d)
                  /\ subscription_count' =
                       subscription_count + (IF Promotes(s, d) THEN 1 ELSE 0)

\* A Snapshot event touches its symbol.
Snapshot(s, ts) == Touch(s, ts) /\ UNCHANGED <<subscription_count, active>>

\* A Heartbeat event runs the lifecycle.
Heartbeat ==
  /\ ProcessLifecycle
  /\ active' = {}
  /\ UNCHANGED subscription_count

\* The owner of the list adds a candidate or rates a symbol.
Candidate(s) == AddCandidate(s) /\ UNCHANGED <<subscription_count, active>>
Rating(s, fit) == Rate(s, fit) /\ UNCHANGED <<subscription_count, active>>

-----------------------------------------------------------------------------
(* Specification. *)

SInit == WInit /\ subscription_count = 0 /\ active = {}

SNext ==
  \/ \E s \in Symbol :
       \/ Tick(s)
       \/ \E ts \in 0..MaxTs : Snapshot(s, ts)
       \/ Candidate(s)
       \/ \E fit \in BOOLEAN : Rating(s, fit)
  \/ Heartbeat

SSpec == SInit /\ [][SNext]_svars

\* The bridge sends a heartbeat every 250 ms.
SFairSpec == SSpec /\ WF_svars(Heartbeat)

-----------------------------------------------------------------------------
(* Properties. *)

\* Whatever the order of ticks, snapshots and heartbeats, what the task does to
\* the watchlist is a step of Watchlist: its invariants hold of the task.
WatchlistSpec == WSpec

\* A cold symbol is not listed for ever: once it is inactive it leaves the
\* list, unless a tick makes it active again.  The watchlist alone does not
\* promise this: promote takes a cold symbol up again as often as the lifecycle
\* brings it down; the task promotes only a symbol that has just ticked.
ColdSymbolLeaves ==
  \A s \in Symbol : (s \in Listed /\ data[s].inactive_cycles > 0)
                      ~> (s \notin Listed \/ data[s].inactive_cycles = 0)

\* The doc's rule of demotion: a symbol that is fit and has ticked since the
\* last heartbeat is not demoted by the next.
ActiveNotDemoted ==
  [][\A s \in Symbol : (s \in active /\ data[s].fit) => Rank(s)' >= Rank(s)]_svars

\* The doc's rule of eviction from a full Tier C: who leaves is the symbol
\* that has had no update for longest.
ColdestMakesRoom ==
  [][\A s, t \in tier_c :
       (s \notin Listed' /\ t \in Listed' /\ tier_c' # tier_c
          /\ \E n \in Symbol : n \notin Listed /\ n \in tier_c')
       => data[s].inactive_cycles >= data[t].inactive_cycles]_svars

\* What the task logs when it refuses a promotion: the subscription limit is
\* reached, so the watchlist holds that many subscriptions.
LimitIsReal == subscription_count >= SubLimit => TotalSubscriptions >= SubLimit

\* The configuration's rule: upgrades stop at the warning level.
UpgradesStopAtWarning ==
  [][subscription_count >= SubWarn
       => \A s \in Symbol : Rank(s)' > Rank(s) => Rank(s) = 0]_svars
=============================================================================
