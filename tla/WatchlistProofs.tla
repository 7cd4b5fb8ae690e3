---------------------------- MODULE WatchlistProofs ----------------------------
(***************************************************************************)
(* Proofs about Watchlist and SlowLoop, for every value of the constants.  *)
(*                                                                         *)
(* The bounds are inductive when they are stated of the unions of the      *)
(* tiers: a demotion moves a symbol between the sets of a union, and only  *)
(* a promotion out of Tier C or a new candidate makes one larger. That the *)
(* tiers are disjoint turns the unions' sizes into the sums that the code  *)
(* compares with its limits.                                               *)
(*                                                                         *)
(* OneTierAtATime needs no invariant but the disjoint tiers: Moves lists   *)
(* what one step may do to a symbol.                                       *)
(***************************************************************************)
EXTENDS SlowLoop, FiniteSetTheorems, TLAPS

Subscribed == tier_a \cup tier_b

Bounds ==
  /\ Cardinality(tier_a) <= MaxA
  /\ Cardinality(Subscribed) <= MaxSubscriptions
  /\ Cardinality(Listed) <= MaxSubscriptions + MaxC

WInv == WTypeOK /\ OneTierPerSymbol /\ Bounds

-----------------------------------------------------------------------------
(* Finite sets. *)

\* Sizes of sets of symbols are numbers, and grow with the sets.
LEMMA SymbolSets ==
  ASSUME NEW S \in SUBSET Symbol, NEW T \in SUBSET S
  PROVE  /\ IsFiniteSet(S) /\ IsFiniteSet(T)
         /\ Cardinality(S) \in Nat /\ Cardinality(T) \in Nat
         /\ Cardinality(T) <= Cardinality(S)
<1>1. IsFiniteSet(S)
  BY WatchlistAssumption, FS_Subset
<1>2. IsFiniteSet(T) /\ Cardinality(T) <= Cardinality(S)
  BY <1>1, FS_Subset
<1> QED BY <1>1, <1>2, FS_CardinalityType

\* Disjoint sets of symbols add up.
LEMMA DisjointSum ==
  ASSUME NEW S \in SUBSET Symbol, NEW T \in SUBSET Symbol, S \cap T = {}
  PROVE  Cardinality(S \cup T) = Cardinality(S) + Cardinality(T)
<1>1. IsFiniteSet(S) /\ IsFiniteSet(T) /\ Cardinality(S) \in Nat /\ Cardinality(T) \in Nat
  BY SymbolSets
<1>2. Cardinality(S \cup T) = Cardinality(S) + Cardinality(T) - Cardinality(S \cap T)
  BY <1>1, FS_Union
<1>3. Cardinality(S \cap T) = 0
  BY FS_EmptySet
<1> QED BY <1>1, <1>2, <1>3

\* One more symbol adds at most one.
LEMMA OneMore ==
  ASSUME NEW S \in SUBSET Symbol, NEW s
  PROVE  /\ Cardinality(S \cup {s}) \in Nat
         /\ Cardinality(S \cup {s}) <= Cardinality(S) + 1
<1>1. IsFiniteSet(S) /\ Cardinality(S) \in Nat
  BY SymbolSets
<1>2. Cardinality(S \cup {s}) = IF s \in S THEN Cardinality(S) ELSE Cardinality(S) + 1
  BY <1>1, FS_AddElement
<1> QED BY <1>1, <1>2

\* The sums the code compares are the sizes of the unions.
LEMMA Sums ==
  ASSUME WTypeOK, OneTierPerSymbol
  PROVE  /\ TotalSubscriptions = Cardinality(Subscribed)
         /\ Cardinality(Listed) = Cardinality(Subscribed) + Cardinality(tier_c)
         /\ Cardinality(tier_a) \in Nat /\ Cardinality(tier_b) \in Nat
         /\ Cardinality(tier_c) \in Nat /\ Cardinality(Subscribed) \in Nat
         /\ Cardinality(Listed) \in Nat
<1>1. Subscribed \in SUBSET Symbol /\ Subscribed \cap tier_c = {}
      /\ Listed = Subscribed \cup tier_c /\ Listed \in SUBSET Symbol
  BY DEF WTypeOK, OneTierPerSymbol, Subscribed, Listed
<1>2. tier_a \in SUBSET Symbol /\ tier_b \in SUBSET Symbol /\ tier_c \in SUBSET Symbol
      /\ tier_a \cap tier_b = {}
  BY DEF WTypeOK, OneTierPerSymbol
<1>3. Cardinality(Subscribed) = Cardinality(tier_a) + Cardinality(tier_b)
  BY <1>2, DisjointSum DEF Subscribed
<1>4. Cardinality(Listed) = Cardinality(Subscribed) + Cardinality(tier_c)
  BY <1>1, <1>2, DisjointSum
<1> QED BY <1>1, <1>2, <1>3, <1>4, SymbolSets DEF TotalSubscriptions

\* A step that lists no new symbol, subscribes none and adds none to Tier A
\* keeps the bounds.
LEMMA ShrinkKeepsBounds ==
  ASSUME WInv, tier_a' \subseteq tier_a, Subscribed' \subseteq Subscribed,
         Listed' \subseteq Listed
  PROVE  Bounds'
<1>1. tier_a \in SUBSET Symbol /\ Subscribed \in SUBSET Symbol /\ Listed \in SUBSET Symbol
  BY DEF WInv, WTypeOK, Subscribed, Listed
<1>2. /\ Cardinality(tier_a') <= Cardinality(tier_a)
      /\ Cardinality(Subscribed') <= Cardinality(Subscribed)
      /\ Cardinality(Listed') <= Cardinality(Listed)
      /\ Cardinality(tier_a') \in Nat /\ Cardinality(tier_a) \in Nat
      /\ Cardinality(Subscribed') \in Nat /\ Cardinality(Subscribed) \in Nat
      /\ Cardinality(Listed') \in Nat /\ Cardinality(Listed) \in Nat
  BY <1>1, SymbolSets
<1>3. MaxA \in Nat /\ MaxSubscriptions \in Nat /\ MaxC \in Nat
  BY WatchlistAssumption
<1> QED BY <1>2, <1>3 DEF WInv, Bounds

\* The cooldown map after an eviction.
LEMMA CoolingType ==
  ASSUME NEW map, NEW out \in SUBSET Symbol, DOMAIN map \subseteq Symbol,
         \A s \in DOMAIN map : map[s] \in 0..EvictionCycles
  PROVE  /\ DOMAIN Cooling(map, out) = DOMAIN map \cup out
         /\ \A s \in DOMAIN Cooling(map, out) : Cooling(map, out)[s] \in 0..EvictionCycles
<1>1. EvictionCycles \in 0..EvictionCycles
  BY WatchlistAssumption
<1> QED BY <1>1 DEF Cooling

-----------------------------------------------------------------------------
\* The empty watchlist.
LEMMA WInitInv == WInit => WInv
<1> SUFFICES ASSUME WInit PROVE WInv
  OBVIOUS
<1>1. WTypeOK /\ OneTierPerSymbol
  BY WatchlistAssumption DEF WInit, WTypeOK, OneTierPerSymbol, TierData, NewData, Listed
<1>2. Subscribed = {} /\ Listed = {} /\ tier_a = {}
  BY DEF WInit, Subscribed, Listed
<1>3. Bounds
  BY <1>2, FS_EmptySet, WatchlistAssumption DEF Bounds
<1> QED BY <1>1, <1>3 DEF WInv

\* A new candidate fits into a Tier C with room, or takes the oldest one's place.
LEMMA AddCandidateInv ==
  ASSUME WInv, NEW s \in Symbol, AddCandidate(s)
  PROVE  WInv'
<1> USE DEF WInv
<1>1. PICK out \in (IF Cardinality(tier_c) >= MaxC
                    THEN {{o} : o \in Oldest} ELSE {{}}) :
           /\ tier_c' = (tier_c \ out) \cup {s}
           /\ data' = [t \in Symbol |-> IF t \in out \cup {s} THEN NewData ELSE data[t]]
           /\ recently_evicted' = Cooling(recently_evicted, out)
  BY DEF AddCandidate
<1>2. out \subseteq tier_c
  BY <1>1 DEF Oldest
<1>3. NewData \in TierData
  BY WatchlistAssumption DEF NewData, TierData
<1>4. tier_a' = tier_a /\ tier_b' = tier_b /\ s \notin Listed
      /\ s \notin DOMAIN recently_evicted
  BY DEF AddCandidate
<1>5. /\ DOMAIN recently_evicted' = DOMAIN recently_evicted \cup out
      /\ \A t \in DOMAIN recently_evicted' : recently_evicted'[t] \in 0..EvictionCycles
  BY <1>1, <1>2, CoolingType DEF WTypeOK
<1>6. WTypeOK'
  BY <1>1, <1>2, <1>3, <1>4, <1>5 DEF WTypeOK
<1>7. OneTierPerSymbol'
  BY <1>1, <1>2, <1>4, <1>5 DEF OneTierPerSymbol, Listed
<1>8. Bounds'
  <2>1. Subscribed' = Subscribed /\ Listed \in SUBSET Symbol
        /\ Listed' = (Listed \ out) \cup {s}
    BY <1>1, <1>2, <1>4 DEF Subscribed, Listed, OneTierPerSymbol, WTypeOK
  <2>2. IsFiniteSet(Listed) /\ Cardinality(Listed) \in Nat
    BY <2>1, SymbolSets
  <2>3. Cardinality(Listed') <= MaxSubscriptions + MaxC
    <3>1. CASE Cardinality(tier_c) >= MaxC
      <4>1. PICK o \in tier_c : out = {o}
        BY <1>1, <3>1 DEF Oldest
      <4>2. o \in Listed
        BY <4>1 DEF Listed
      <4>3. IsFiniteSet(Listed \ {o}) /\ Cardinality(Listed \ {o}) = Cardinality(Listed) - 1
        BY <2>2, <4>2, FS_RemoveElement
      <4>4. Cardinality((Listed \ {o}) \cup {s}) = Cardinality(Listed \ {o}) + 1
        <5>1. s \notin Listed \ {o}
          BY <1>4
        <5> QED BY <4>3, <5>1, FS_AddElement
      <4> QED BY <2>1, <2>2, <4>1, <4>3, <4>4 DEF Bounds
    <3>2. CASE ~(Cardinality(tier_c) >= MaxC)
      <4>1. out = {}
        BY <1>1, <3>2
      <4>2. Cardinality(Listed') = Cardinality(Listed) + 1
        BY <2>1, <2>2, <1>4, <4>1, FS_AddElement
      <4>3. MaxSubscriptions \in Nat /\ MaxC \in Nat
        BY WatchlistAssumption
      <4> QED BY <4>2, <4>3, <3>2, Sums DEF Bounds
    <3> QED BY <3>1, <3>2
  <2> QED BY <2>1, <2>3, <1>4 DEF Bounds
<1> QED BY <1>6, <1>7, <1>8

\* A promotion out of Tier C is within the limit, one into Tier A takes no new
\* subscription.
LEMMA PromoteInv ==
  ASSUME WInv, NEW s \in Symbol, NEW d \in [Symbol -> TierData], PromoteWith(s, d)
  PROVE  WInv'
<1> USE DEF WInv
<1>1. WTypeOK'
  BY DEF PromoteWith, WTypeOK, PromotesToB, PromotesToA
<1>2. OneTierPerSymbol'
  BY DEF PromoteWith, WTypeOK, OneTierPerSymbol, Listed, PromotesToB, PromotesToA
<1>3. MaxA \in Nat /\ MaxSubscriptions \in Nat /\ MaxC \in Nat
  BY WatchlistAssumption
<1>4. tier_a \in SUBSET Symbol /\ Subscribed \in SUBSET Symbol
  BY DEF WTypeOK, Subscribed
<1>5. Cardinality(tier_a) \in Nat /\ Cardinality(Subscribed) \in Nat
  BY <1>4, SymbolSets
<1>6. Listed' = Listed
  BY DEF PromoteWith, Listed, PromotesToB, PromotesToA
<1>7. ASSUME PromotesToB(s, d), tier_b' = tier_b \cup {s}, UNCHANGED tier_a
      PROVE  Bounds'
  <2>1. Subscribed' = Subscribed \cup {s}
    BY <1>7 DEF Subscribed
  <2>2. Cardinality(Subscribed') <= Cardinality(Subscribed) + 1
        /\ Cardinality(Subscribed') \in Nat
    BY <2>1, <1>4, OneMore
  <2>3. Cardinality(Subscribed) < MaxSubscriptions
    BY <1>7, Sums DEF PromotesToB
  <2> QED BY <1>3, <1>5, <1>6, <1>7, <2>2, <2>3 DEF Bounds
<1>8. ASSUME PromotesToA(s, d), tier_b' = tier_b \ {s}, tier_a' = tier_a \cup {s}
      PROVE  Bounds'
  <2>1. Subscribed' = Subscribed
    BY <1>8 DEF Subscribed, PromotesToA
  <2>2. Cardinality(tier_a') <= Cardinality(tier_a) + 1 /\ Cardinality(tier_a') \in Nat
    BY <1>4, <1>8, OneMore
  <2> QED BY <1>3, <1>5, <1>6, <1>8, <2>1, <2>2 DEF Bounds, PromotesToA
<1>9. ASSUME UNCHANGED <<tier_a, tier_b, tier_c>>
      PROVE  Bounds'
  BY <1>9, <1>6 DEF Bounds, Subscribed
<1>10. Bounds'
  BY <1>7, <1>8, <1>9 DEF PromoteWith
<1> QED BY <1>1, <1>2, <1>10

\* A demotion stays within the unions.
LEMMA DemoteInv ==
  ASSUME WInv, NEW s \in Symbol, Demote(s)
  PROVE  WInv'
<1> USE DEF WInv
<1>1. NewData \in TierData
  BY WatchlistAssumption DEF NewData, TierData
<1>2. WTypeOK'
  BY <1>1 DEF Demote, WTypeOK, Listed
<1>3. OneTierPerSymbol'
  BY DEF Demote, OneTierPerSymbol, Listed
<1>4. tier_a' \subseteq tier_a /\ Subscribed' \subseteq Subscribed /\ Listed' \subseteq Listed
  BY DEF Demote, Subscribed, Listed, OneTierPerSymbol
<1> QED BY <1>2, <1>3, <1>4, ShrinkKeepsBounds

\* The data of a symbol that ages or ticks stays well formed.
LEMMA DataType ==
  ASSUME NEW x \in TierData
  PROVE  Idle(x) \in TierData /\ Ticked(x) \in TierData
<1>1. /\ x.inactive_cycles \in 0..MaxCycles /\ x.tick_count \in 0..TickReady
      /\ x.last_activity \in 0..MaxTs /\ x.fit \in BOOLEAN
      /\ x = [tick_count |-> x.tick_count, inactive_cycles |-> x.inactive_cycles,
              last_activity |-> x.last_activity, fit |-> x.fit]
  BY DEF TierData
<1>2. MaxCycles \in Nat /\ TickReady \in Nat
  BY WatchlistAssumption
<1> DEFINE i == IF x.inactive_cycles < MaxCycles THEN x.inactive_cycles + 1
                ELSE x.inactive_cycles
           n == IF x.tick_count < TickReady THEN x.tick_count + 1 ELSE x.tick_count
<1>3. i \in 0..MaxCycles /\ n \in 0..TickReady /\ 0 \in 0..MaxCycles
  BY <1>1, <1>2
<1>4. Idle(x) = [tick_count |-> x.tick_count, inactive_cycles |-> i,
                 last_activity |-> x.last_activity, fit |-> x.fit]
  BY <1>1 DEF Idle
<1>5. Ticked(x) = [x EXCEPT !.tick_count = n, !.inactive_cycles = 0]
  BY Zenon DEF Ticked
<1> HIDE DEF i, n
<1>6. Idle(x) \in TierData
  BY <1>1, <1>3, <1>4 DEF TierData
<1>7. [x EXCEPT !.tick_count = n, !.inactive_cycles = 0] \in TierData
  BY <1>3 DEF TierData
<1> QED BY <1>5, <1>6, <1>7

\* One pass of the lifecycle moves symbols down, and out into a cooldown.
LEMMA ProcessLifecycleInv ==
  ASSUME WInv, ProcessLifecycle
  PROVE  WInv'
<1> USE DEF WInv
<1> DEFINE aged == [s \in Symbol |-> IF s \in Listed THEN Idle(data[s]) ELSE data[s]]
           down == ToDemote(aged)
           out  == ToEvict(aged)
           warm == {s \in DOMAIN recently_evicted : recently_evicted[s] > 1}
           cool == [s \in warm |-> recently_evicted[s] - 1]
<1>1. /\ tier_a' = tier_a \ down
      /\ tier_b' = (tier_b \ down) \cup (tier_a \cap down)
      /\ tier_c' = (tier_c \cup (tier_b \cap down)) \ out
      /\ data' = [s \in Symbol |-> IF s \in out THEN NewData ELSE aged[s]]
      /\ recently_evicted' = Cooling(cool, out)
  BY DEF ProcessLifecycle
<1>2. out \subseteq tier_c /\ down \subseteq tier_a \cup tier_b
  BY DEF ToEvict, ToDemote
<1>3. aged \in [Symbol -> TierData]
  BY DataType DEF WTypeOK
<1>4. NewData \in TierData
  BY WatchlistAssumption DEF NewData, TierData
<1>5. \A s \in DOMAIN cool : cool[s] \in 0..EvictionCycles
  <2> SUFFICES ASSUME NEW s \in warm PROVE recently_evicted[s] - 1 \in 0..EvictionCycles
    OBVIOUS
  <2>1. recently_evicted[s] \in 0..EvictionCycles /\ recently_evicted[s] > 1
    BY DEF WTypeOK
  <2>2. EvictionCycles \in Nat
    BY WatchlistAssumption
  <2> QED BY <2>1, <2>2
<1>6. DOMAIN cool = warm /\ warm \subseteq DOMAIN recently_evicted
  OBVIOUS
<1> HIDE DEF aged, down, out, warm, cool
<1>7. /\ DOMAIN recently_evicted' = warm \cup out
      /\ \A s \in DOMAIN recently_evicted' : recently_evicted'[s] \in 0..EvictionCycles
  BY <1>1, <1>2, <1>5, <1>6, CoolingType DEF WTypeOK
<1>8. WTypeOK'
  <2>1. data' \in [Symbol -> TierData]
    BY <1>1, <1>3, <1>4
  <2> QED BY <1>1, <1>2, <1>6, <1>7, <2>1 DEF WTypeOK
<1>9. OneTierPerSymbol'
  BY <1>1, <1>2, <1>6, <1>7 DEF OneTierPerSymbol, Listed
<1>10. tier_a' \subseteq tier_a /\ Subscribed' \subseteq Subscribed /\ Listed' \subseteq Listed
  BY <1>1, <1>2 DEF Subscribed, Listed
<1> QED BY <1>8, <1>9, <1>10, ShrinkKeepsBounds

\* Ticks, touches and ratings move nobody.
LEMMA DataStepInv ==
  ASSUME WInv, data' \in [Symbol -> TierData],
         UNCHANGED <<tier_a, tier_b, tier_c, recently_evicted>>
  PROVE  WInv'
BY DEF WInv, WTypeOK, OneTierPerSymbol, Bounds, Subscribed, Listed

\* Every step keeps the invariant.
LEMMA WNextInv == WInv /\ [WNext]_wvars => WInv'
<1> SUFFICES ASSUME WInv, [WNext]_wvars PROVE WInv'
  OBVIOUS
<1>1. data \in [Symbol -> TierData]
  BY DEF WInv, WTypeOK
<1>2. ASSUME NEW s \in Symbol
      PROVE  [data EXCEPT ![s] = Ticked(@)] \in [Symbol -> TierData]
  BY <1>1, DataType
<1>3. CASE \E s \in Symbol : AddCandidate(s)
  BY <1>3, AddCandidateInv
<1>4. CASE \E s \in Symbol : Promote(s)
  BY <1>1, <1>2, <1>4, PromoteInv DEF Promote
<1>5. CASE \E s \in Symbol : Demote(s)
  BY <1>5, DemoteInv
<1>6. CASE \E s \in Symbol : UpdateTickCount(s)
  BY <1>2, <1>6, DataStepInv DEF UpdateTickCount
<1>7. CASE \E s \in Symbol, ts \in 0..MaxTs : Touch(s, ts)
  <2>1. PICK s \in Symbol, ts \in 0..MaxTs : Touch(s, ts)
    BY <1>7
  <2>2. [data[s] EXCEPT !.last_activity = ts] \in TierData
    BY <1>1 DEF TierData
  <2>3. data' \in [Symbol -> TierData]
    BY <1>1, <2>1, <2>2 DEF Touch
  <2> QED BY <2>1, <2>3, DataStepInv DEF Touch
<1>8. CASE \E s \in Symbol, fit \in BOOLEAN : Rate(s, fit)
  <2>1. PICK s \in Symbol, fit \in BOOLEAN : Rate(s, fit)
    BY <1>8
  <2>2. [data[s] EXCEPT !.fit = fit] \in TierData
    BY <1>1 DEF TierData
  <2>3. data' \in [Symbol -> TierData]
    BY <1>1, <2>1, <2>2 DEF Rate
  <2> QED BY <2>1, <2>3, DataStepInv DEF Rate
<1>9. CASE ProcessLifecycle
  BY <1>9, ProcessLifecycleInv
<1>10. CASE UNCHANGED wvars
  BY <1>1, <1>10, DataStepInv DEF wvars
<1> QED BY <1>3, <1>4, <1>5, <1>6, <1>7, <1>8, <1>9, <1>10 DEF WNext

-----------------------------------------------------------------------------
(* No step takes a symbol through two tiers. *)

\* The moves a symbol may make in one step, seen in its tiers.
Moves(t) ==
  \/ /\ t \in tier_a' <=> t \in tier_a
     /\ t \in tier_b' <=> t \in tier_b
     /\ t \in tier_c' <=> t \in tier_c
  \/ t \notin Listed /\ t \notin tier_a' /\ t \notin tier_b' /\ t \in tier_c'
  \/ t \in tier_c /\ t \notin tier_a' /\ t \in tier_b' /\ t \notin tier_c'
  \/ t \in tier_c /\ t \notin tier_a' /\ t \notin tier_b' /\ t \notin tier_c'
  \/ t \in tier_b /\ t \in tier_a' /\ t \notin tier_b' /\ t \notin tier_c'
  \/ t \in tier_b /\ t \notin tier_a' /\ t \notin tier_b' /\ t \in tier_c'
  \/ t \in tier_a /\ t \notin tier_a' /\ t \in tier_b' /\ t \notin tier_c'

\* Such a move goes one tier up or down, or nowhere.
LEMMA MovesOneTier ==
  ASSUME OneTierPerSymbol, NEW t \in Symbol, Moves(t)
  PROVE  Rank(t)' - Rank(t) \in {-1, 0, 1}
<1>1. /\ ~(t \in tier_a /\ t \in tier_b)
      /\ ~(t \in tier_a /\ t \in tier_c)
      /\ ~(t \in tier_b /\ t \in tier_c)
  BY DEF OneTierPerSymbol
<1>2. Rank(t) = IF t \in tier_a THEN 3 ELSE IF t \in tier_b THEN 2
                ELSE IF t \in tier_c THEN 1 ELSE 0
  BY DEF Rank
<1>3. Rank(t)' = IF t \in tier_a' THEN 3 ELSE IF t \in tier_b' THEN 2
                 ELSE IF t \in tier_c' THEN 1 ELSE 0
  BY DEF Rank
<1> QED BY <1>1, <1>2, <1>3 DEF Moves, Listed

\* Every step moves every symbol so: what a lifecycle pass demotes and what it
\* evicts were chosen before anything moved.
LEMMA StepMoves ==
  ASSUME WInv, [WNext]_wvars, NEW t \in Symbol
  PROVE  Moves(t)
<1>0. OneTierPerSymbol
  BY DEF WInv
<1>1. ASSUME NEW s \in Symbol, AddCandidate(s) PROVE Moves(t)
  <2>1. PICK out \in (IF Cardinality(tier_c) >= MaxC THEN {{o} : o \in Oldest} ELSE {{}}) :
          tier_c' = (tier_c \ out) \cup {s}
    BY <1>1 DEF AddCandidate
  <2>2. out \subseteq tier_c
    BY <2>1 DEF Oldest
  <2>3. tier_a' = tier_a /\ tier_b' = tier_b /\ s \notin Listed
    BY <1>1 DEF AddCandidate
  <2> QED BY <1>0, <2>1, <2>2, <2>3 DEF Moves, Listed, OneTierPerSymbol
<1>2. ASSUME NEW s \in Symbol, Promote(s) PROVE Moves(t)
  BY <1>0, <1>2 DEF Promote, PromoteWith, PromotesToA, PromotesToB, Moves, OneTierPerSymbol
<1>3. ASSUME NEW s \in Symbol, Demote(s) PROVE Moves(t)
  BY <1>0, <1>3 DEF Demote, Moves, Listed, OneTierPerSymbol
<1>4. CASE ProcessLifecycle
  <2>1. PICK down, out :
          /\ out \subseteq tier_c
          /\ tier_a' = tier_a \ down
          /\ tier_b' = (tier_b \ down) \cup (tier_a \cap down)
          /\ tier_c' = (tier_c \cup (tier_b \cap down)) \ out
    BY <1>4 DEF ProcessLifecycle, ToEvict
  <2> QED BY <1>0, <2>1 DEF Moves, OneTierPerSymbol
<1>5. CASE UNCHANGED <<tier_a, tier_b, tier_c>>
  BY <1>5 DEF Moves
<1> QED BY <1>1, <1>2, <1>3, <1>4, <1>5 DEF WNext, wvars, UpdateTickCount, Touch, Rate

-----------------------------------------------------------------------------
(* Theorems. *)

\* The invariant holds of every behaviour of the watchlist.
THEOREM WatchlistInvariant == WSpec => []WInv
BY WInitInv, WNextInv, PTL DEF WSpec

\* The maps, counters and cooldowns keep their types.
THEOREM WatchlistTypeCorrect == WSpec => []WTypeOK
BY WatchlistInvariant, PTL DEF WInv

\* A symbol is in one tier at most, and in none while it cools down.
THEOREM OneTier == WSpec => []OneTierPerSymbol
BY WatchlistInvariant, PTL DEF WInv

\* The subscription limit and the size of Tier A hold, although only one
\* promotion checks each.
THEOREM SubscriptionsBounded == WSpec => []WithinSubscriptions
<1>1. WInv => WithinSubscriptions
  BY Sums DEF WInv, Bounds, WithinSubscriptions
<1> QED BY <1>1, WatchlistInvariant, PTL

\* The whole list is bounded, although demotions overfill Tier C unchecked.
THEOREM ListBounded == WSpec => []WithinBudget
<1>1. WInv => WithinBudget
  BY Sums DEF WInv, Bounds, WithinBudget, TotalSubscriptions
<1> QED BY <1>1, WatchlistInvariant, PTL

\* One lifecycle pass never demotes a Tier A symbol into Tier C nor evicts what it
\* has just demoted, and no other operation skips a tier.
THEOREM TiersOneByOne == WSpec => OneTierAtATime
<1>1. WInv /\ [WNext]_wvars => [\A s \in Symbol : Rank(s)' - Rank(s) \in {-1, 0, 1}]_wvars
  <2> SUFFICES ASSUME WInv, [WNext]_wvars, NEW s \in Symbol
               PROVE  Rank(s)' - Rank(s) \in {-1, 0, 1}
    OBVIOUS
  <2> QED BY StepMoves, MovesOneTier DEF WInv
<1> QED BY <1>1, WatchlistInvariant, PTL DEF OneTierAtATime, WSpec

\* What the SlowLoop does to the watchlist are the watchlist's own steps, so
\* all of the above holds of the task, whatever ticks and heartbeats arrive.
THEOREM SlowLoopImplementsWatchlist == SSpec => WatchlistSpec
<1>1. SInit => WInit
  BY DEF SInit
<1>2. ASSUME [SNext]_svars PROVE [WNext]_wvars
  <2>1. CASE \E s \in Symbol : Tick(s)
    <3>1. PICK s \in Symbol : Tick(s)
      BY <2>1
    <3>2. CASE s \in tier_a \/ s \notin Listed
      BY <3>1, <3>2 DEF Tick
    <3>3. CASE s \in Listed /\ subscription_count >= SubLimit /\ s \notin tier_a
      <4>1. UpdateTickCount(s)
        BY <3>1, <3>3 DEF Tick, UpdateTickCount
      <4> QED BY <4>1 DEF WNext
    <3>4. CASE s \in Listed /\ ~(subscription_count >= SubLimit) /\ s \notin tier_a
      <4>1. Promote(s)
        BY <3>1, <3>4 DEF Tick, Promote
      <4> QED BY <4>1 DEF WNext
    <3> QED BY <3>2, <3>3, <3>4
  <2>2. CASE \E s \in Symbol, ts \in 0..MaxTs : Snapshot(s, ts)
    BY <2>2 DEF Snapshot, WNext
  <2>3. CASE \E s \in Symbol : Candidate(s)
    BY <2>3 DEF Candidate, WNext
  <2>4. CASE \E s \in Symbol, fit \in BOOLEAN : Rating(s, fit)
    BY <2>4 DEF Rating, WNext
  <2>5. CASE Heartbeat
    BY <2>5 DEF Heartbeat, WNext
  <2>6. CASE UNCHANGED svars
    BY <2>6 DEF svars, wvars
  <2> QED BY <1>2, <2>1, <2>2, <2>3, <2>4, <2>5, <2>6 DEF SNext
<1> QED BY <1>1, <1>2, PTL DEF SSpec, WatchlistSpec, WSpec
=============================================================================
