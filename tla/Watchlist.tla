------------------------------- MODULE Watchlist -------------------------------
(***************************************************************************)
(* The watchlist of watchlist_engine/src/lib.rs: three tiers of symbols,   *)
(* of which Tier A and Tier B each hold a market-data subscription, the    *)
(* per-symbol activity counters that promote and demote, and the cooldown  *)
(* of symbols that were evicted.  Every operation of Watchlist is an       *)
(* action; module SlowLoop is the task that calls them.                    *)
(***************************************************************************)
EXTENDS Integers, FiniteSets

CONSTANTS
  Symbol,              \* SymbolId
  MaxA, MaxC,          \* MAX_TIER_A, MAX_TIER_C
  MaxB,                \* MAX_TIER_B
  MaxSubscriptions,    \* MAX_TOTAL_SUBSCRIPTIONS
  TickReady,           \* TICK_READY_THRESHOLD
  DemotionCycles,      \* config.watchlist.demotion_cycles
  EvictionCycles,      \* config.watchlist.eviction_cycles
  MaxCycles,           \* bound: inactive_cycles saturates here
  MaxTs                \* bound: timestamps given to touch

ASSUME WatchlistAssumption ==
  /\ IsFiniteSet(Symbol)
  /\ {MaxA, MaxB, MaxC, MaxSubscriptions, TickReady, MaxTs} \subseteq Nat
  /\ {DemotionCycles, EvictionCycles, MaxCycles} \subseteq Nat
  /\ MaxC > 0
  /\ MaxCycles >= DemotionCycles /\ MaxCycles >= EvictionCycles

VARIABLES
  tier_a, tier_b, tier_c,   \* the keys of the three maps
  data,                     \* the TierData of a listed symbol
  recently_evicted          \* symbol -> remaining cooldown cycles

wvars == <<tier_a, tier_b, tier_c, data, recently_evicted>>

-----------------------------------------------------------------------------
(* Operators. *)

Listed == tier_a \cup tier_b \cup tier_c

\* TierData, to what the tiers depend on; `fit` stands for a quality_score
\* and a volume that are both at or above their minima.
TierData == [tick_count: 0..TickReady, inactive_cycles: 0..MaxCycles,
             last_activity: 0..MaxTs, fit: BOOLEAN]

NewData == [tick_count |-> 0, inactive_cycles |-> 0, last_activity |-> 0,
            fit |-> FALSE]

\* total_subscriptions(): Tier A and Tier B consume one subscription each.
TotalSubscriptions == Cardinality(tier_a) + Cardinality(tier_b)

\* update_tick_count: one more tick, and the inactivity starts again.
Ticked(d) == [d EXCEPT !.tick_count = IF @ < TickReady THEN @ + 1 ELSE @,
                       !.inactive_cycles = 0]

\* process_lifecycle: one more cycle without a tick.
Idle(d) == [d EXCEPT !.inactive_cycles = IF @ < MaxCycles THEN @ + 1 ELSE @]

\* Mutant of Cooling: the cooldown lasts one cycle too long.
CoolingTooLong(map, out) ==
  [s \in DOMAIN map \cup out |-> IF s \in out THEN EvictionCycles + 1 ELSE map[s]]

\* The cooldown map after the symbols of `out` are inserted into it.
Cooling(map, out) ==
  [s \in DOMAIN map \cup out |-> IF s \in out THEN EvictionCycles ELSE map[s]]

\* The symbols of Tier C that were not touched for longest: iteration order of
\* the HashMap decides among equals.
Oldest == {s \in tier_c : \A t \in tier_c :
                            data[s].last_activity <= data[t].last_activity}

-----------------------------------------------------------------------------
(* Actions, one per operation of Watchlist. *)

\* Mutant of AddCandidate: a symbol in cooldown is taken back.
AddCandidateInCooldown(s) ==
  /\ s \notin Listed
  /\ Cardinality(tier_c) < MaxC
  /\ tier_c' = tier_c \cup {s}
  /\ data' = [data EXCEPT ![s] = NewData]
  /\ UNCHANGED <<tier_a, tier_b, recently_evicted>>

\* Mutant of AddCandidate: nobody is evicted from a full Tier C.
AddCandidateOverfull(s) ==
  /\ s \notin DOMAIN recently_evicted
  /\ s \notin Listed
  /\ tier_c' = tier_c \cup {s}
  /\ data' = [data EXCEPT ![s] = NewData]
  /\ UNCHANGED <<tier_a, tier_b, recently_evicted>>

\* add_candidate: a new symbol starts in Tier C; when Tier C is full, the
\* oldest symbol makes room and cools down.
AddCandidate(s) ==
  /\ s \notin DOMAIN recently_evicted
  /\ s \notin Listed
  /\ \E out \in IF Cardinality(tier_c) >= MaxC
                THEN {{o} : o \in Oldest} ELSE {{}} :
       /\ tier_c' = (tier_c \ out) \cup {s}
       /\ data' = [t \in Symbol |-> IF t \in out \cup {s} THEN NewData ELSE data[t]]
       /\ recently_evicted' = Cooling(recently_evicted, out)
  /\ UNCHANGED <<tier_a, tier_b>>

\* Mutant of PromotesToB: the subscription limit is not consulted.
PromotesToBUnlimited(s, d) == /\ s \in tier_c
                              /\ Cardinality(tier_b) < MaxB
                              /\ d[s].tick_count >= TickReady

\* The checks of promote, on the tick counts of `d`.
PromotesToB(s, d) == /\ s \in tier_c
                     /\ Cardinality(tier_b) < MaxB
                     /\ TotalSubscriptions < MaxSubscriptions
                     /\ d[s].tick_count >= TickReady

PromotesToA(s, d) == /\ s \in tier_b
                     /\ Cardinality(tier_a) < MaxA
                     /\ d[s].tick_count >= TickReady

\* promote, with `d` the data on entry: one tier up, or an error.
PromoteWith(s, d) ==
  /\ data' = d
  /\ \/ /\ PromotesToB(s, d)
        /\ tier_c' = tier_c \ {s}
        /\ tier_b' = tier_b \cup {s}
        /\ UNCHANGED tier_a
     \/ /\ PromotesToA(s, d)
        /\ tier_b' = tier_b \ {s}
        /\ tier_a' = tier_a \cup {s}
        /\ UNCHANGED tier_c
     \/ /\ ~PromotesToB(s, d) /\ ~PromotesToA(s, d)
        /\ UNCHANGED <<tier_a, tier_b, tier_c>>
  /\ UNCHANGED recently_evicted

\* promote, on its own or right after the tick that update_tick_count counts.
Promote(s) ==
  \/ PromoteWith(s, data)
  \/ s \in Listed /\ PromoteWith(s, [data EXCEPT ![s] = Ticked(@)])

\* demote: one tier down; out of Tier C the symbol is forgotten, with no
\* cooldown.
Demote(s) ==
  /\ s \in Listed
  /\ tier_a' = tier_a \ {s}
  /\ tier_b' = IF s \in tier_a THEN tier_b \cup {s} ELSE tier_b \ {s}
  /\ tier_c' = IF s \in tier_b THEN tier_c \cup {s} ELSE tier_c \ {s}
  /\ data' = IF s \in tier_c THEN [data EXCEPT ![s] = NewData] ELSE data
  /\ UNCHANGED recently_evicted

\* Mutant of ToDemote: a rated symbol is never found inactive.
ToDemoteUnfit(aged) == {s \in tier_a \cup tier_b : ~aged[s].fit}

\* The symbols process_lifecycle demotes, and those it evicts from Tier C:
\* both are chosen before any of them moves.
ToDemote(aged) == {s \in tier_a \cup tier_b :
                     ~aged[s].fit \/ aged[s].inactive_cycles >= DemotionCycles}

\* Mutant of ToEvict: chosen after the demotions, among those demoted as well.
ToEvictDemoted(aged) == {s \in tier_b \cup tier_c :
                           aged[s].inactive_cycles >= EvictionCycles}

ToEvict(aged) == {s \in tier_c : aged[s].inactive_cycles >= EvictionCycles}

\* process_lifecycle: every listed symbol ages, the cooldowns run, inactive or
\* unfit symbols of Tier A and Tier B go one tier down, and inactive symbols
\* of Tier C are evicted into a cooldown of EvictionCycles.
ProcessLifecycle ==
  LET aged == [s \in Symbol |-> IF s \in Listed THEN Idle(data[s]) ELSE data[s]]
      down == ToDemote(aged)
      out  == ToEvict(aged)
      warm == {s \in DOMAIN recently_evicted : recently_evicted[s] > 1}
  IN /\ tier_a' = tier_a \ down
     /\ tier_b' = (tier_b \ down) \cup (tier_a \cap down)
     /\ tier_c' = (tier_c \cup (tier_b \cap down)) \ out
     /\ data' = [s \in Symbol |-> IF s \in out THEN NewData ELSE aged[s]]
     /\ recently_evicted' =
          Cooling([s \in warm |-> recently_evicted[s] - 1], out)

\* update_tick_count
UpdateTickCount(s) ==
  /\ s \in Listed
  /\ data' = [data EXCEPT ![s] = Ticked(@)]
  /\ UNCHANGED <<tier_a, tier_b, tier_c, recently_evicted>>

\* touch: the time of the last snapshot.
Touch(s, ts) ==
  /\ s \in Listed
  /\ data' = [data EXCEPT ![s].last_activity = ts]
  /\ UNCHANGED <<tier_a, tier_b, tier_c, recently_evicted>>

\* The owner of the list sets the public fields quality_score and volume.
Rate(s, fit) ==
  /\ s \in Listed
  /\ data' = [data EXCEPT ![s].fit = fit]
  /\ UNCHANGED <<tier_a, tier_b, tier_c, recently_evicted>>

-----------------------------------------------------------------------------
(* Specification. *)

WInit ==
  /\ tier_a = {} /\ tier_b = {} /\ tier_c = {}
  /\ data = [s \in Symbol |-> NewData]
  /\ recently_evicted = [s \in {} |-> 0]

WNext ==
  \/ \E s \in Symbol :
       \/ AddCandidate(s)
       \/ Promote(s)
       \/ Demote(s)
       \/ UpdateTickCount(s)
       \/ \E ts \in 0..MaxTs : Touch(s, ts)
       \/ \E fit \in BOOLEAN : Rate(s, fit)
  \/ ProcessLifecycle

WSpec == WInit /\ [][WNext]_wvars

-----------------------------------------------------------------------------
(* Properties. *)

\* Type invariant: the keys of the maps, the counters and the cooldowns.
WTypeOK ==
  /\ tier_a \subseteq Symbol /\ tier_b \subseteq Symbol /\ tier_c \subseteq Symbol
  /\ data \in [Symbol -> TierData]
  /\ DOMAIN recently_evicted \subseteq Symbol
  /\ \A s \in DOMAIN recently_evicted : recently_evicted[s] \in 0..EvictionCycles

\* A symbol is in at most one of the three maps, and none that is cooling down
\* is in any of them: get_tier and get_data_mut, which look in Tier A first,
\* then never hide an entry of a lower tier, and a churning symbol stays out.
OneTierPerSymbol ==
  /\ tier_a \cap tier_b = {}
  /\ tier_a \cap tier_c = {}
  /\ tier_b \cap tier_c = {}
  /\ Listed \cap DOMAIN recently_evicted = {}

\* The broker's line limit: promotions and demotions in any order never leave
\* more symbols subscribed than MAX_TOTAL_SUBSCRIPTIONS, nor overfill Tier A,
\* although only promote C -> B looks at the total.
WithinSubscriptions ==
  /\ Cardinality(tier_a) <= MaxA
  /\ TotalSubscriptions <= MaxSubscriptions

\* demote fills Tier C past MAX_TIER_C, unchecked; the whole list is bounded
\* all the same, because a full Tier C admits a symbol only for another.
WithinBudget ==
  Cardinality(tier_a) + Cardinality(tier_b) + Cardinality(tier_c)
    <= MaxSubscriptions + MaxC

\* No step takes a symbol through two tiers: one lifecycle pass never demotes
\* a Tier A symbol into Tier C, nor evicts what it has just demoted.
Rank(s) == IF s \in tier_a THEN 3 ELSE IF s \in tier_b THEN 2
           ELSE IF s \in tier_c THEN 1 ELSE 0
OneTierAtATime == [][\A s \in Symbol : Rank(s)' - Rank(s) \in {-1, 0, 1}]_wvars
=============================================================================
