------------------------------ MODULE Aggregates ------------------------------
(***************************************************************************)
(* What the models compute from many values: extremes, of pairs, sets,     *)
(* lists and ranks, and sums. Facts about Max and Min of pairs, about      *)
(* least and greatest members, and about SumFunctionOnSet.                 *)
(*                                                                         *)
(* The arguments by induction take a smallest counterexample: no set of    *)
(* subsets of a finite set, and no set of naturals, lacks one (SmallestOf, *)
(* LeastNat).                                                              *)
(***************************************************************************)
EXTENDS Integers, FiniteSetsExt, Functions, FiniteSetTheorems, WellFoundedInduction,
        TLAPS

-----------------------------------------------------------------------------
(* The largest and the least of two. *)

\* Max of a pair of integers is one of them and below neither.
LEMMA MaxOfTwo ==
  ASSUME NEW a \in Int, NEW b \in Int
  PROVE  Max({a, b}) \in Int /\ Max({a, b}) >= a /\ Max({a, b}) >= b /\ Max({a, b}) \in {a, b}
<1>1. \E x \in {a, b} : \A y \in {a, b} : x >= y
  <2>1. CASE a >= b
    BY <2>1
  <2>2. CASE b >= a
    BY <2>2
  <2> QED BY <2>1, <2>2
<1>2. Max({a, b}) \in {a, b} /\ \A y \in {a, b} : Max({a, b}) >= y
  BY <1>1 DEF Max
<1> QED BY <1>2

\* Min of a pair of integers is one of them and above neither.
LEMMA MinOfTwo ==
  ASSUME NEW a \in Int, NEW b \in Int
  PROVE  Min({a, b}) \in Int /\ Min({a, b}) <= a /\ Min({a, b}) <= b /\ Min({a, b}) \in {a, b}
<1>1. \E x \in {a, b} : \A y \in {a, b} : x =< y
  <2>1. CASE a =< b
    BY <2>1
  <2>2. CASE b =< a
    BY <2>2
  <2> QED BY <2>1, <2>2
<1>2. Min({a, b}) \in {a, b} /\ \A y \in {a, b} : Min({a, b}) =< y
  BY <1>1 DEF Min
<1> QED BY <1>2

-----------------------------------------------------------------------------
(* Least members, greatest members, and what has no counterexample. *)

\* No member of the family is a proper subset of A.
Smallest(A, Family) == \A B \in Family : ~(B \subseteq A /\ B # A)

\* A family of subsets of a finite set has, if any, a smallest member.
LEMMA SmallestOf ==
  ASSUME NEW S, IsFiniteSet(S), NEW Family, Family \subseteq SUBSET S, Family # {}
  PROVE  \E A \in Family : Smallest(A, Family)
<1> DEFINE R == StrictSubsetOrdering(S)
<1>1. FiniteSubsetsOf(S) = SUBSET S
  BY FS_FiniteSubsetsOfFinite
<1>2. IsWellFoundedOn(R, SUBSET S)
  BY <1>1, FS_StrictSubsetOrderingWellFounded
<1>3. \A A, B \in SUBSET S : <<B, A>> \in R <=> B \subseteq A /\ B # A
  BY DEF StrictSubsetOrdering
<1> HIDE DEF R
<1>4. \E A \in Family : \A B \in Family : ~(<<B, A>> \in R)
  BY <1>2, WFMin
<1> QED BY <1>3, <1>4 DEF Smallest

\* A set of naturals that is not empty has a least member.
LEMMA LeastNat ==
  ASSUME NEW Q, Q \subseteq Nat, Q # {}
  PROVE  \E m \in Q : \A k \in Q : m <= k
<1> DEFINE R == OpToRel(<, Nat)
<1>1. \A x, y \in Nat : <<x, y>> \in R <=> x < y
  BY DEF OpToRel
<1>2. IsWellFoundedOn(R, Nat)
  BY NatLessThanWellFounded
<1> HIDE DEF R
<1>3. PICK m \in Q : \A k \in Q : ~(<<k, m>> \in R)
  BY <1>2, WFMin
<1>4. \A k \in Q : ~(k < m)
  BY <1>1, <1>3
<1>5. \A k \in Q : m <= k
  BY <1>4
<1> QED BY <1>5

\* Min of a set of naturals is its least member.
LEMMA LeastExists ==
  ASSUME NEW S, S \subseteq Nat, S # {}
  PROVE  Min(S) \in S /\ \A y \in S : Min(S) <= y
<1>1. \E x \in S : \A y \in S : x <= y
  BY LeastNat
<1> QED BY <1>1 DEF Min

\* Max of a bounded set of naturals is its greatest member.
LEMMA GreatestExists ==
  ASSUME NEW n \in Nat, NEW S, S \subseteq 1..n, S # {}
  PROVE  Max(S) \in S /\ \A y \in S : Max(S) >= y
<1> DEFINE D == {n - x : x \in S}
<1>1. \A x \in S : x \in Nat /\ n - x \in Nat
  OBVIOUS
<1>2. D \subseteq Nat /\ D # {}
  BY <1>1
<1>3. PICK d \in D : \A e \in D : d <= e
  BY <1>2, LeastNat
<1>4. PICK x \in S : d = n - x
  BY <1>3
<1>5. \A y \in S : n - x <= n - y
  BY <1>3, <1>4
<1>6. \A y \in S : x >= y
  BY <1>1, <1>5
<1> QED BY <1>6 DEF Max

-----------------------------------------------------------------------------
(* Sums over sets: SumFunctionOnSet of the module Functions. *)

\* g is the function by which SumFunctionOnSet adds f up over the subsets of S.
AddsUp(f, S, g) ==
  g = [s \in SUBSET S |->
         IF s = {} THEN 0
         ELSE LET x == CHOOSE x \in s : TRUE IN f[x] + g[s \ {x}]]

\* What AddsUp says of a set and of the one without the chosen element.
LEMMA AddsUpAt ==
  ASSUME NEW f, NEW S, NEW g, AddsUp(f, S, g), NEW s \in SUBSET S
  PROVE  g[s] = IF s = {} THEN 0
                ELSE f[CHOOSE x \in s : TRUE] + g[s \ {CHOOSE x \in s : TRUE}]
BY DEF AddsUp

\* Two such functions agree wherever both are defined.
LEMMA AddsUpUnique ==
  ASSUME NEW f, NEW S, NEW T, NEW g, NEW h, AddsUp(f, S, g), AddsUp(f, T, h),
         NEW U, IsFiniteSet(U), U \subseteq S, U \subseteq T
  PROVE  g[U] = h[U]
<1> DEFINE Bad == {V \in SUBSET U : g[V] # h[V]}
<1> SUFFICES ASSUME Bad # {} PROVE FALSE
  OBVIOUS
<1>1. PICK V \in Bad : Smallest(V, Bad)
  BY SmallestOf
<1>2. V \subseteq S /\ V \subseteq T /\ V \subseteq U /\ g[V] # h[V]
  OBVIOUS
<1> DEFINE c == CHOOSE x \in V : TRUE
           W == V \ {c}
<1>3. V # {}
  BY <1>2, AddsUpAt
<1>4. c \in V
  BY <1>3
<1>5. W \subseteq V /\ W # V /\ W \in SUBSET U
  BY <1>2, <1>4
<1>6. W \notin Bad
  BY <1>1, <1>5 DEF Smallest
<1>7. g[W] = h[W]
  BY <1>5, <1>6
<1>8. g[V] = f[c] + g[W] /\ h[V] = f[c] + h[W]
  <2>1. V \in SUBSET S /\ V \in SUBSET T
    BY <1>2
  <2>2. g[V] = IF V = {} THEN 0 ELSE f[c] + g[W]
    BY <2>1, AddsUpAt
  <2>3. h[V] = IF V = {} THEN 0 ELSE f[c] + h[W]
    BY <2>1, AddsUpAt
  <2> QED BY <1>3, <2>2, <2>3
<1> QED BY <1>2, <1>7, <1>8

\* There is such a function for every finite set.
LEMMA AddsUpExists ==
  ASSUME NEW f, NEW S, IsFiniteSet(S)
  PROVE  \E g : AddsUp(f, S, g)
<1> DEFINE Bad == {T \in SUBSET S : ~ \E g : AddsUp(f, T, g)}
<1> SUFFICES ASSUME Bad # {} PROVE FALSE
  OBVIOUS
<1>1. PICK T \in Bad : Smallest(T, Bad)
  BY SmallestOf
<1>2. T \subseteq S /\ ~ \E g : AddsUp(f, T, g)
  OBVIOUS
<1> DEFINE H(U) == CHOOSE h : AddsUp(f, U, h)
           c(U) == CHOOSE x \in U : TRUE
           Val(U) == IF U = {} THEN 0 ELSE f[c(U)] + H(U \ {c(U)})[U \ {c(U)}]
           g == [U \in SUBSET T |-> Val(U)]
<1>3. ASSUME NEW U, U \subseteq T, U # T PROVE AddsUp(f, U, H(U))
  <2>1. U \in SUBSET S /\ U \notin Bad
    BY <1>1, <1>2, <1>3 DEF Smallest
  <2>2. \E h : AddsUp(f, U, h)
    BY <2>1
  <2> QED BY <2>2
<1>4. ASSUME NEW U, U \subseteq T, U # {} PROVE c(U) \in U
  BY <1>4
<1> HIDE DEF H, c
<1>5. ASSUME NEW U, U \subseteq T, U # T PROVE g[U] = H(U)[U]
  <2>1. g[U] = Val(U)
    BY <1>5
  <2>2. U \in SUBSET U
    OBVIOUS
  <2>3. H(U)[U] = IF U = {} THEN 0 ELSE f[c(U)] + H(U)[U \ {c(U)}]
    BY <1>3, <1>5, <2>2, AddsUpAt DEF c
  <2>4. CASE U = {}
    BY <2>1, <2>3, <2>4
  <2>5. CASE U # {}
    <3> DEFINE W == U \ {c(U)}
    <3>1. W \subseteq T /\ W # T /\ W \subseteq U
      BY <1>5, <1>4, <2>5
    <3>2. AddsUp(f, W, H(W)) /\ AddsUp(f, U, H(U))
      BY <3>1, <1>3, <1>5
    <3>3. IsFiniteSet(W)
      BY <3>1, <1>2, FS_Subset
    <3>4. H(W)[W] = H(U)[W]
      BY <3>1, <3>2, <3>3, AddsUpUnique
    <3> QED BY <2>1, <2>3, <2>5, <3>4
  <2> QED BY <2>4, <2>5
<1>6. \A U \in SUBSET T : Val(U) = IF U = {} THEN 0 ELSE f[c(U)] + g[U \ {c(U)}]
  <2> TAKE U \in SUBSET T
  <2>1. CASE U = {}
    BY <2>1
  <2>2. CASE U # {}
    <3> DEFINE W == U \ {c(U)}
    <3>1. W \subseteq T /\ W # T
      BY <1>4, <2>2
    <3>2. g[W] = H(W)[W]
      BY <3>1, <1>5
    <3> QED BY <2>2, <3>2
  <2> QED BY <2>1, <2>2
<1>7. g = [U \in SUBSET T |-> IF U = {} THEN 0 ELSE f[c(U)] + g[U \ {c(U)}]]
  <2> DEFINE e(U) == IF U = {} THEN 0 ELSE f[c(U)] + g[U \ {c(U)}]
  <2>1. \A U \in SUBSET T : Val(U) = e(U)
    BY <1>6
  <2> HIDE DEF e, Val
  <2>2. g = [U \in SUBSET T |-> e(U)]
    BY <2>1
  <2> QED BY <2>2 DEF e
<1> HIDE DEF g
<1>8. AddsUp(f, T, g)
  BY <1>7 DEF AddsUp, c
<1> QED BY <1>2, <1>8

\* The equation behind SumFunctionOnSet.
LEMMA SumIsAddsUp ==
  ASSUME NEW f, NEW S, IsFiniteSet(S)
  PROVE  \E g : AddsUp(f, S, g) /\ SumFunctionOnSet(f, S) = g[S]
<1> DEFINE iter == CHOOSE g : AddsUp(f, S, g)
<1>1. AddsUp(f, S, iter)
  BY AddsUpExists
<1>2. SumFunctionOnSet(f, S) = iter[S]
  BY DEF SumFunctionOnSet, FoldFunctionOnSet, MapThenFoldSet, AddsUp
<1> QED BY <1>1, <1>2

\* The sum over a set is that over the set without the chosen element, and the
\* value there.
LEMMA SumChosen ==
  ASSUME NEW f, NEW S, IsFiniteSet(S)
  PROVE  /\ SumFunctionOnSet(f, {}) = 0
         /\ S # {} =>
              SumFunctionOnSet(f, S) = f[CHOOSE x \in S : TRUE]
                                       + SumFunctionOnSet(f, S \ {CHOOSE x \in S : TRUE})
<1>1. SumFunctionOnSet(f, {}) = 0
  <2>1. IsFiniteSet({})
    BY FS_EmptySet
  <2>2. PICK g : AddsUp(f, {}, g) /\ SumFunctionOnSet(f, {}) = g[{}]
    BY <2>1, SumIsAddsUp
  <2>3. {} \in SUBSET {}
    OBVIOUS
  <2> QED BY <2>2, <2>3, AddsUpAt
<1>2. ASSUME S # {}
      PROVE  SumFunctionOnSet(f, S) = f[CHOOSE x \in S : TRUE]
                                       + SumFunctionOnSet(f, S \ {CHOOSE x \in S : TRUE})
  <2> DEFINE c == CHOOSE x \in S : TRUE
             W == S \ {c}
  <2>1. PICK g : AddsUp(f, S, g) /\ SumFunctionOnSet(f, S) = g[S]
    BY SumIsAddsUp
  <2>2. IsFiniteSet(W)
    BY FS_Subset
  <2>3. PICK h : AddsUp(f, W, h) /\ SumFunctionOnSet(f, W) = h[W]
    BY <2>2, SumIsAddsUp
  <2>4. g[W] = h[W]
    BY <2>1, <2>2, <2>3, AddsUpUnique
  <2>5. S \in SUBSET S /\ AddsUp(f, S, g)
    BY <2>1
  <2>6. g[S] = f[c] + g[W]
    BY <1>2, <2>5 DEF AddsUp
  <2> QED BY <1>2, <2>1, <2>3, <2>4, <2>6
<1> QED BY <1>1, <1>2

\* A sum of integers is an integer, and any member can be taken out first.
LEMMA SumRemove ==
  ASSUME NEW f, NEW S, IsFiniteSet(S), \A x \in S : f[x] \in Int
  PROVE  /\ SumFunctionOnSet(f, S) \in Int
         /\ \A x \in S : SumFunctionOnSet(f, S) = f[x] + SumFunctionOnSet(f, S \ {x})
<1> DEFINE Sum(T) == SumFunctionOnSet(f, T)
           Good(T) == Sum(T) \in Int /\ \A x \in T : Sum(T) = f[x] + Sum(T \ {x})
           Bad == {T \in SUBSET S : ~Good(T)}
<1> HIDE DEF Sum
<1>1. Bad = {}
  <2> SUFFICES ASSUME Bad # {} PROVE FALSE
    OBVIOUS
  <2>1. PICK T \in Bad : Smallest(T, Bad)
    BY SmallestOf
  <2>2. T \subseteq S /\ ~Good(T)
    OBVIOUS
  <2>3. ASSUME NEW U, U \subseteq T, U # T PROVE Good(U)
    <3>1. U \in SUBSET S /\ U \notin Bad
      BY <2>1, <2>2, <2>3 DEF Smallest
    <3> QED BY <3>1
  <2>4. IsFiniteSet(T) /\ \A U : U \subseteq T => IsFiniteSet(U)
    BY <2>2, FS_Subset
  <2>5. \A U : IsFiniteSet(U) /\ U # {} =>
          Sum(U) = f[CHOOSE x \in U : TRUE] + Sum(U \ {CHOOSE x \in U : TRUE})
    BY SumChosen DEF Sum
  <2>6. Sum({}) = 0
    BY SumChosen, FS_EmptySet DEF Sum
  <2>7. CASE T = {}
    BY <2>2, <2>6, <2>7
  <2>8. CASE T # {}
    <3> DEFINE c == CHOOSE x \in T : TRUE
    <3>1. c \in T
      BY <2>8
    <3>2. Sum(T) = f[c] + Sum(T \ {c})
      BY <2>4, <2>5, <2>8
    <3> HIDE DEF c
    <3>3. Sum(T \ {c}) \in Int /\ f[c] \in Int
      <4>1. Good(T \ {c})
        BY <2>3, <3>1
      <4> QED BY <4>1, <2>2, <3>1
    <3>4. Sum(T) \in Int
      BY <3>2, <3>3
    <3>5. ASSUME NEW x \in T, x # c PROVE Sum(T) = f[x] + Sum(T \ {x})
      <4> DEFINE R == T \ {x, c}
      <4>1. Good(T \ {c}) /\ Good(T \ {x}) /\ Good(R)
        BY <2>3, <3>1
      <4>2. (T \ {c}) \ {x} = R /\ (T \ {x}) \ {c} = R
        OBVIOUS
      <4>3. Sum(T \ {c}) = f[x] + Sum(R)
        BY <4>1, <4>2, <3>5
      <4>4. Sum(T \ {x}) = f[c] + Sum(R)
        BY <4>1, <4>2, <3>1, <3>5
      <4>5. Sum(R) \in Int /\ f[x] \in Int /\ f[c] \in Int
        BY <4>1, <2>2, <3>1
      <4> QED BY <3>2, <4>3, <4>4, <4>5
    <3>6. \A x \in T : Sum(T) = f[x] + Sum(T \ {x})
      BY <3>2, <3>5
    <3> QED BY <2>2, <3>4, <3>6
  <2> QED BY <2>7, <2>8
<1>2. Good(S)
  BY <1>1
<1> QED BY <1>2 DEF Sum
\* Functions that agree on a set have the same sum over it.
LEMMA SumSame ==
  ASSUME NEW f, NEW g, NEW S, IsFiniteSet(S), \A x \in S : f[x] = g[x]
  PROVE  SumFunctionOnSet(f, S) = SumFunctionOnSet(g, S)
<1> DEFINE F(T) == SumFunctionOnSet(f, T)
           G(T) == SumFunctionOnSet(g, T)
           Bad == {T \in SUBSET S : F(T) # G(T)}
<1> HIDE DEF F, G
<1>1. Bad = {}
  <2> SUFFICES ASSUME Bad # {} PROVE FALSE
    OBVIOUS
  <2>1. PICK T \in Bad : Smallest(T, Bad)
    BY SmallestOf
  <2>2. T \subseteq S /\ F(T) # G(T) /\ IsFiniteSet(T)
    BY FS_Subset
  <2>3. F({}) = G({})
    BY SumChosen, FS_EmptySet DEF F, G
  <2>4. T # {}
    BY <2>2, <2>3
  <2> DEFINE c == CHOOSE x \in T : TRUE
  <2>5. c \in T
    BY <2>4
  <2>6. F(T) = f[c] + F(T \ {c})
    BY <2>2, <2>4, SumChosen DEF F
  <2>7. G(T) = g[c] + G(T \ {c})
    BY <2>2, <2>4, SumChosen DEF G
  <2>8. F(T \ {c}) = G(T \ {c})
    <3>1. T \ {c} \in SUBSET S /\ T \ {c} \notin Bad
      BY <2>1, <2>2, <2>5 DEF Smallest
    <3> QED BY <3>1
  <2>9. f[c] = g[c]
    BY <2>2, <2>5
  <2> QED BY <2>2, <2>6, <2>7, <2>8, <2>9
<1> QED BY <1>1 DEF F, G

\* A function changed at one member of the set changes the sum by the difference.
LEMMA SumChange ==
  ASSUME NEW f, NEW g, NEW S, IsFiniteSet(S), NEW x \in S,
         \A y \in S : f[y] \in Int /\ g[y] \in Int,
         \A y \in S : y # x => g[y] = f[y]
  PROVE  SumFunctionOnSet(g, S) = SumFunctionOnSet(f, S) - f[x] + g[x]
<1> DEFINE R == S \ {x}
<1>1. IsFiniteSet(R)
  BY FS_Subset
<1>2. SumFunctionOnSet(f, R) = SumFunctionOnSet(g, R)
  BY <1>1, SumSame
<1>3. SumFunctionOnSet(f, S) = f[x] + SumFunctionOnSet(f, R)
  BY SumRemove
<1>4. SumFunctionOnSet(g, S) = g[x] + SumFunctionOnSet(g, R)
  BY SumRemove
<1>5. SumFunctionOnSet(f, R) \in Int /\ f[x] \in Int /\ g[x] \in Int
  <2>1. \A y \in R : f[y] \in Int
    OBVIOUS
  <2> QED BY <1>1, <2>1, SumRemove
<1> QED BY <1>2, <1>3, <1>4, <1>5

\* The sum over a set with one more member.
LEMMA SumAdd ==
  ASSUME NEW f, NEW S, IsFiniteSet(S), NEW x, x \notin S,
         \A y \in S \cup {x} : f[y] \in Int
  PROVE  /\ SumFunctionOnSet(f, S \cup {x}) = SumFunctionOnSet(f, S) + f[x]
         /\ SumFunctionOnSet(f, S) \in Int
<1>1. IsFiniteSet(S \cup {x})
  BY FS_AddElement
<1>2. (S \cup {x}) \ {x} = S /\ x \in S \cup {x}
  OBVIOUS
<1>3. SumFunctionOnSet(f, S \cup {x}) = f[x] + SumFunctionOnSet(f, S)
  BY <1>1, <1>2, SumRemove
<1>4. SumFunctionOnSet(f, S) \in Int
  BY SumRemove
<1> QED BY <1>2, <1>3, <1>4

\* Members at which the function is 0 do not count.
LEMMA SumSupport ==
  ASSUME NEW f, NEW S, IsFiniteSet(S), NEW T, T \subseteq S,
         \A x \in S : f[x] \in Int, \A x \in S \ T : f[x] = 0
  PROVE  SumFunctionOnSet(f, S) = SumFunctionOnSet(f, T)
<1> DEFINE F(U) == SumFunctionOnSet(f, U)
           Bad == {U \in SUBSET S : T \subseteq U /\ F(U) # F(T)}
<1> HIDE DEF F
<1>1. Bad = {}
  <2> SUFFICES ASSUME Bad # {} PROVE FALSE
    OBVIOUS
  <2>1. PICK U \in Bad : Smallest(U, Bad)
    BY SmallestOf
  <2>2. U \subseteq S /\ T \subseteq U /\ F(U) # F(T) /\ IsFiniteSet(U)
    BY FS_Subset
  <2>3. PICK x \in U : x \notin T
    BY <2>2
  <2> DEFINE R == U \ {x}
  <2>4. R \in SUBSET S /\ T \subseteq R /\ R \notin Bad
    BY <2>1, <2>2, <2>3 DEF Smallest
  <2>5. F(R) = F(T)
    BY <2>4
  <2>6. F(U) = f[x] + F(R)
    BY <2>2, SumRemove DEF F
  <2>7. F(R) \in Int
    BY <2>2, <2>4, FS_Subset, SumRemove DEF F
  <2>8. f[x] = 0
    BY <2>2, <2>3
  <2> QED BY <2>2, <2>5, <2>6, <2>7, <2>8
<1> QED BY <1>1 DEF F

\* A sum of naturals is a natural, and at least each of them.
LEMMA SumOfNats ==
  ASSUME NEW f, NEW S, IsFiniteSet(S), \A x \in S : f[x] \in Nat
  PROVE  /\ SumFunctionOnSet(f, S) \in Nat
         /\ \A x \in S : f[x] <= SumFunctionOnSet(f, S)
<1> DEFINE F(U) == SumFunctionOnSet(f, U)
           Bad == {U \in SUBSET S : F(U) \notin Nat}
<1> HIDE DEF F
<1>1. \A U \in SUBSET S : IsFiniteSet(U) /\ \A x \in U : F(U) = f[x] + F(U \ {x})
  <2> TAKE U \in SUBSET S
  <2>1. IsFiniteSet(U) /\ \A x \in U : f[x] \in Int
    BY FS_Subset
  <2> QED BY <2>1, SumRemove DEF F
<1>2. Bad = {}
  <2> SUFFICES ASSUME Bad # {} PROVE FALSE
    OBVIOUS
  <2>1. PICK U \in Bad : Smallest(U, Bad)
    BY SmallestOf
  <2>2. F({}) = 0
    BY SumChosen, FS_EmptySet DEF F
  <2>3. PICK x \in U : TRUE
    BY <2>2
  <2>4. U \ {x} \in SUBSET S /\ U \ {x} \notin Bad
    BY <2>1 DEF Smallest
  <2>5. F(U) = f[x] + F(U \ {x})
    BY <1>1
  <2>6. f[x] \in Nat /\ F(U \ {x}) \in Nat
    BY <2>4
  <2> QED BY <2>5, <2>6
<1>3. \A U \in SUBSET S : F(U) \in Nat
  BY <1>2
<1>4. \A x \in S : f[x] <= F(S)
  <2> TAKE x \in S
  <2>1. F(S) = f[x] + F(S \ {x}) /\ F(S \ {x}) \in Nat /\ f[x] \in Nat
    BY <1>1, <1>3
  <2> QED BY <2>1
<1>5. F(S) \in Nat
  BY <1>3
<1> QED BY <1>4, <1>5 DEF F

-----------------------------------------------------------------------------
(* Sums along a sequence. *)

\* A sum does not change when all indices are moved by the same distance.
LEMMA SumMoved ==
  ASSUME NEW lo \in Int, NEW hi \in Int, NEW d \in Int, NEW f, NEW g,
         \A i \in lo..hi : g[i] \in Int /\ g[i] = f[i + d]
  PROVE  SumFunctionOnSet(g, lo..hi) = SumFunctionOnSet(f, (lo + d)..(hi + d))
<1> DEFINE G(n) == SumFunctionOnSet(g, lo..(lo + n - 1))
           F(n) == SumFunctionOnSet(f, (lo + d)..(lo + d + n - 1))
           Bad == {n \in Nat : lo + n - 1 <= hi /\ G(n) # F(n)}
<1>1. G(0) = 0 /\ F(0) = 0
  <2>1. lo..(lo + 0 - 1) = {} /\ (lo + d)..(lo + d + 0 - 1) = {}
    OBVIOUS
  <2> QED BY <2>1, FS_EmptySet, SumChosen
<1>2. ASSUME NEW n \in Nat, lo + n <= hi
      PROVE  G(n + 1) = G(n) + g[lo + n] /\ F(n + 1) = F(n) + g[lo + n]
  <2> DEFINE I == lo..(lo + n - 1)
             J == (lo + d)..(lo + d + n - 1)
             x == lo + n
             y == lo + d + n
  <2>1. /\ lo..(lo + (n + 1) - 1) = I \cup {x} /\ x \notin I
        /\ (lo + d)..(lo + d + (n + 1) - 1) = J \cup {y} /\ y \notin J
    OBVIOUS
  <2>2. IsFiniteSet(I) /\ IsFiniteSet(J)
    BY FS_Interval
  <2>3. \A i \in I \cup {x} : g[i] \in Int
    BY <1>2
  <2>4. \A j \in J \cup {y} : f[j] \in Int /\ f[j] = g[j - d]
    <3> TAKE j \in J \cup {y}
    <3>1. j - d \in lo..hi /\ (j - d) + d = j
      BY <1>2
    <3> QED BY <3>1
  <2>5. y - d = x
    OBVIOUS
  <2> HIDE DEF I, J, x, y
  <2>6. SumFunctionOnSet(g, I \cup {x}) = SumFunctionOnSet(g, I) + g[x]
    BY <2>1, <2>2, <2>3, SumAdd
  <2>7. SumFunctionOnSet(f, J \cup {y}) = SumFunctionOnSet(f, J) + f[y]
    BY <2>1, <2>2, <2>4, SumAdd
  <2>8. f[y] = g[x]
    BY <2>4, <2>5
  <2> QED BY <2>1, <2>6, <2>7, <2>8 DEF I, J, x, y
<1> HIDE DEF F, G
<1>3. Bad = {}
  <2> SUFFICES ASSUME Bad # {} PROVE FALSE
    OBVIOUS
  <2>1. PICK n \in Bad : \A m \in Bad : n <= m
    BY LeastNat
  <2>2. n # 0
    BY <1>1
  <2>3. n - 1 \in Nat /\ n - 1 \notin Bad /\ lo + (n - 1) <= hi
    BY <2>1, <2>2
  <2>4. G(n - 1) = F(n - 1)
    BY <2>3
  <2>5. G(n) = G(n - 1) + g[lo + (n - 1)] /\ F(n) = F(n - 1) + g[lo + (n - 1)]
    <3>1. (n - 1) + 1 = n
      OBVIOUS
    <3> QED BY <1>2, <2>3, <3>1
  <2> QED BY <2>4, <2>5
<1>4. CASE lo <= hi
  <2> DEFINE n == hi - lo + 1
  <2>1. n \in Nat /\ lo + n - 1 = hi /\ lo + d + n - 1 = hi + d
    BY <1>4
  <2>2. G(n) = F(n)
    BY <1>3, <2>1
  <2> QED BY <2>1, <2>2 DEF F, G
<1>5. CASE hi < lo
  <2>1. lo..hi = {} /\ (lo + d)..(hi + d) = {}
    BY <1>5
  <2> QED BY <2>1, FS_EmptySet, SumChosen
<1> QED BY <1>4, <1>5

\* A value that changes by w at each index changes by their sum.
LEMMA Telescopes ==
  ASSUME NEW n \in Nat, NEW t, NEW w,
         \A i \in 0..n : t[i] \in Int, \A i \in 1..n : w[i] = t[i] - t[i - 1]
  PROVE  t[n] = t[0] + SumFunctionOnSet(w, 1..n)
<1> DEFINE W(k) == SumFunctionOnSet(w, 1..k)
           Bad == {k \in Nat : k <= n /\ t[k] # t[0] + W(k)}
<1>1. W(0) = 0
  <2>1. 1..0 = {}
    OBVIOUS
  <2> QED BY <2>1, FS_EmptySet, SumChosen
<1>2. ASSUME NEW k \in Nat, k + 1 <= n
      PROVE  W(k + 1) = W(k) + (t[k + 1] - t[k]) /\ W(k) \in Int
  <2>1. IsFiniteSet(1..k) /\ 1..(k + 1) = (1..k) \cup {k + 1} /\ k + 1 \notin 1..k
    BY FS_Interval
  <2>2. \A i \in (1..k) \cup {k + 1} : w[i] \in Int
    <3> TAKE i \in (1..k) \cup {k + 1}
    <3>1. i \in 1..n /\ i \in 0..n /\ i - 1 \in 0..n
      BY <1>2
    <3>2. t[i] \in Int /\ t[i - 1] \in Int /\ w[i] = t[i] - t[i - 1]
      BY <3>1
    <3> QED BY <3>2
  <2>3. /\ SumFunctionOnSet(w, (1..k) \cup {k + 1}) = SumFunctionOnSet(w, 1..k) + w[k + 1]
        /\ SumFunctionOnSet(w, 1..k) \in Int
    BY <2>1, <2>2, SumAdd
  <2>4. w[k + 1] = t[k + 1] - t[k]
    <3>1. k + 1 \in 1..n /\ (k + 1) - 1 = k
      BY <1>2
    <3> QED BY <3>1
  <2> QED BY <2>1, <2>3, <2>4
<1> HIDE DEF W
<1>3. Bad = {}
  <2> SUFFICES ASSUME Bad # {} PROVE FALSE
    OBVIOUS
  <2>1. PICK k \in Bad : \A m \in Bad : k <= m
    BY LeastNat
  <2>2. t[0] \in Int /\ t[k] \in Int
    OBVIOUS
  <2>3. k # 0
    BY <1>1, <2>2
  <2> DEFINE j == k - 1
  <2>4. j \in Nat /\ j \notin Bad /\ j + 1 = k /\ j + 1 <= n
    BY <2>1, <2>3
  <2>5. t[j] = t[0] + W(j) /\ t[j] \in Int
    BY <2>4
  <2>6. W(k) = W(j) + (t[k] - t[j]) /\ W(j) \in Int
    BY <1>2, <2>4
  <2>7. t[k] = t[0] + W(k)
    BY <2>2, <2>5, <2>6
  <2> QED BY <2>7
<1> QED BY <1>3 DEF W
\* A sum after one of the values grew by d.
LEMMA SumGrows ==
  ASSUME NEW S, IsFiniteSet(S), NEW f, NEW g, NEW x, NEW d \in Int,
         \A y \in S : f[y] \in Int, g[x] = f[x] + d,
         \A y \in S : y # x => g[y] = f[y]
  PROVE  /\ SumFunctionOnSet(f, S) \in Int
         /\ SumFunctionOnSet(g, S) = SumFunctionOnSet(f, S) + IF x \in S THEN d ELSE 0
<1>1. SumFunctionOnSet(f, S) \in Int
  BY SumRemove
<1>2. CASE x \in S
  <2>1. f[x] \in Int /\ \A y \in S : f[y] \in Int /\ g[y] \in Int
    BY <1>2
  <2>2. SumFunctionOnSet(g, S) = SumFunctionOnSet(f, S) - f[x] + g[x]
    BY <1>2, <2>1, SumChange
  <2> QED BY <1>1, <1>2, <2>1, <2>2
<1>3. CASE x \notin S
  <2>1. \A y \in S : g[y] = f[y]
    BY <1>3
  <2>2. SumFunctionOnSet(g, S) = SumFunctionOnSet(f, S)
    BY <2>1, SumSame
  <2> QED BY <1>1, <1>3, <2>2
<1> QED BY <1>1, <1>2, <1>3

\* A sum of nothing but zeros is zero.
LEMMA SumZero ==
  ASSUME NEW f, NEW S, IsFiniteSet(S), \A x \in S : f[x] = 0
  PROVE  SumFunctionOnSet(f, S) = 0
<1>1. SumFunctionOnSet(f, S) = SumFunctionOnSet(f, {})
  BY SumSupport
<1>2. SumFunctionOnSet(f, {}) = 0
  BY SumChosen, FS_EmptySet
<1> QED BY <1>1, <1>2

-----------------------------------------------------------------------------
(* Sizes. *)

\* A set of integers moved by k has the size it had.
LEMMA SizeMoved ==
  ASSUME NEW S \in SUBSET Int, IsFiniteSet(S), NEW T \in SUBSET Int, NEW k \in Int,
         \A j \in Int : j \in T <=> j + k \in S
  PROVE  IsFiniteSet(T) /\ Cardinality(T) = Cardinality(S)
<1> DEFINE f == [i \in S |-> i - k]
<1>1. f \in [S -> T]
  <2>1. \A i \in S : i - k \in Int /\ (i - k) + k = i
    OBVIOUS
  <2> QED BY <2>1
<1>2. \A a, b \in S : f[a] = f[b] => a = b
  OBVIOUS
<1>3. \A j \in T : \E i \in S : f[i] = j
  <2> SUFFICES ASSUME NEW j \in T PROVE \E i \in S : f[i] = j
    OBVIOUS
  <2>1. j + k \in S /\ f[j + k] = (j + k) - k /\ j \in Int
    OBVIOUS
  <2> QED BY <2>1
<1> HIDE DEF f
<1>4. f \in Bijection(S, T)
  BY <1>1, <1>2, <1>3 DEF Bijection, Injection, Surjection, IsInjective
<1>5. ExistsBijection(S, T)
  BY <1>4 DEF ExistsBijection
<1> QED BY <1>5, FS_Bijection

\* A set of integers from lo to hi has a greatest member.
LEMMA TopExists ==
  ASSUME NEW lo \in Int, NEW hi \in Int, NEW S \in SUBSET (lo..hi), S # {}
  PROVE  \E top \in S : \A y \in S : y <= top
<1> DEFINE D == {hi - x : x \in S}
<1>1. \A x \in S : x \in Int /\ hi - x \in Nat
  OBVIOUS
<1>2. D \subseteq Nat /\ D # {}
  BY <1>1
<1>3. PICK d \in D : \A e \in D : d <= e
  BY <1>2, LeastNat
<1>4. PICK x \in S : d = hi - x
  BY <1>3
<1>5. \A y \in S : hi - x <= hi - y
  BY <1>3, <1>4
<1>6. \A y \in S : y <= x
  BY <1>1, <1>5
<1> QED BY <1>6

\* The place of a member of a set of integers, counted from the least.
Rank(S, x) == Cardinality({y \in S : y <= x})

\* Every rank, from the first to the last, is that of a member.
EveryRankTaken(S) == \A n \in 1..Cardinality(S) : \E x \in S : Rank(S, x) = n

\* It is so in a set of integers from lo to hi.
LEMMA RankExists ==
  ASSUME NEW lo \in Int, NEW hi \in Int, NEW S \in SUBSET (lo..hi)
  PROVE  EveryRankTaken(S)
<1> SUFFICES ASSUME NEW n \in 1..Cardinality(S)
             PROVE  \E x \in S : Rank(S, x) = n
  BY DEF EveryRankTaken
<1> DEFINE Has(T) == \E x \in T : Rank(T, x) = n
           Bad == {T \in SUBSET S : n <= Cardinality(T) /\ ~Has(T)}
<1>1. SUFFICES ASSUME ~Has(S) PROVE FALSE
  OBVIOUS
<1>0. IsFiniteSet(S) /\ Cardinality(S) \in Nat /\ n \in Nat /\ n >= 1
  <2>1. IsFiniteSet(S)
    BY FS_Interval, FS_Subset
  <2> QED BY <2>1, FS_CardinalityType
<1>2. S \in Bad
  <2>1. Cardinality(S) \in Nat
    BY <1>0
  <2> QED BY <1>1, <2>1
<1>3. PICK T \in Bad : Smallest(T, Bad)
  <2>1. Bad \subseteq SUBSET S /\ Bad # {}
    BY <1>2
  <2> HIDE DEF Bad
  <2> QED BY <1>0, <2>1, SmallestOf
<1>4. T \in SUBSET (lo..hi) /\ IsFiniteSet(T) /\ Cardinality(T) \in Nat /\ n <= Cardinality(T)
  <2>1. T \in SUBSET S /\ n <= Cardinality(T)
    BY DEF Bad
  <2> QED BY <1>0, <2>1, FS_Subset, FS_CardinalityType
<1>5. T # {}
  <2> QED BY <1>4, <1>0, FS_EmptySet
<1>6. PICK top \in T : \A y \in T : y <= top
  BY <1>4, <1>5, TopExists
<1> DEFINE R == T \ {top}
<1>7. IsFiniteSet(R) /\ Cardinality(R) = Cardinality(T) - 1
  BY <1>4, FS_RemoveElement
<1>8. Rank(T, top) = Cardinality(T)
  <2>1. {y \in T : y <= top} = T
    BY <1>6
  <2> QED BY <2>1 DEF Rank
<1>9. n <= Cardinality(R)
  <2>1. Cardinality(T) # n
    BY <1>3, <1>8
  <2> QED BY <1>4, <1>7, <1>0, <2>1
<1>10. R \notin Bad
  BY <1>3 DEF Smallest
<1>11. PICK x \in R : Rank(R, x) = n
  BY <1>9, <1>10
<1>12. Rank(R, x) = Rank(T, x)
  <2>1. ~(top <= x)
    BY <1>4, <1>6, <1>11
  <2>2. {y \in R : y <= x} = {y \in T : y <= x}
    BY <2>1
  <2> QED BY <2>2 DEF Rank
<1>13. Has(T)
  BY <1>11, <1>12
<1> QED BY <1>13


-----------------------------------------------------------------------------
(* Extremes of a list. *)

\* A list of integers has a greatest member.
LEMMA TopOfList ==
  ASSUME NEW n \in Nat, n >= 1, NEW f, \A i \in 1..n : f[i] \in Int
  PROVE  \E i \in 1..n : \A j \in 1..n : f[j] <= f[i]
<1> DEFINE Top(m, i) == \A j \in 1..m : f[j] <= f[i]
           Bad == {m \in 1..n : ~ \E i \in 1..m : Top(m, i)}
<1> SUFFICES ASSUME n \in Bad PROVE FALSE
  OBVIOUS
<1>1. Bad \subseteq Nat /\ Bad # {}
  OBVIOUS
<1>2. PICK m \in Bad : \A k \in Bad : m <= k
  BY <1>1, LeastNat
<1>3. m \in 1..n /\ ~ \E i \in 1..m : Top(m, i)
  OBVIOUS
<1>4. m # 1
  <2>1. Top(1, 1)
    OBVIOUS
  <2> QED BY <1>3, <2>1
<1>5. m - 1 \in 1..n /\ ~(m <= m - 1)
  BY <1>3, <1>4
<1>6. PICK i \in 1..(m - 1) : Top(m - 1, i)
  BY <1>2, <1>5
<1>7. \A j \in 1..m : j = m \/ j \in 1..(m - 1)
  BY <1>3
<1>8. CASE f[m] <= f[i]
  <2>1. Top(m, i) /\ i \in 1..m
    <3>1. i \in 1..m
      BY <1>3, <1>6
    <3>2. \A j \in 1..m : f[j] <= f[i]
      BY <1>6, <1>8, <1>7
    <3> QED BY <3>1, <3>2
  <2> QED BY <1>3, <2>1
<1>9. CASE ~(f[m] <= f[i])
  <2>1. \A j \in 1..m : f[j] \in Int
    BY <1>3
  <2>2. \A j \in 1..(m - 1) : f[j] <= f[m]
    <3>1. \A j \in 1..(m - 1) : f[j] <= f[i] /\ f[j] \in Int
      BY <1>3, <1>6
    <3>2. f[i] \in Int /\ f[m] \in Int
      BY <1>3, <1>6, <2>1
    <3> QED BY <1>9, <3>1, <3>2
  <2>3. Top(m, m) /\ m \in 1..m
    <3>1. m \in 1..m
      BY <1>3
    <3>2. f[m] <= f[m]
      BY <2>1, <3>1
    <3>3. \A j \in 1..m : f[j] <= f[m]
      BY <1>7, <2>2, <3>2
    <3> QED BY <3>1, <3>3
  <2> QED BY <1>3, <2>3
<1> QED BY <1>8, <1>9

\* And a least one.
LEMMA BottomOfList ==
  ASSUME NEW n \in Nat, n >= 1, NEW f, \A i \in 1..n : f[i] \in Int
  PROVE  \E i \in 1..n : \A j \in 1..n : f[i] <= f[j]
<1> DEFINE g == [i \in 1..n |-> -f[i]]
<1>1. \A i \in 1..n : g[i] = -f[i] /\ g[i] \in Int
  OBVIOUS
<1> HIDE DEF g
<1>2. PICK i \in 1..n : \A j \in 1..n : g[j] <= g[i]
  BY <1>1, TopOfList
<1>3. \A j \in 1..n : f[i] <= f[j]
  BY <1>1, <1>2
<1> QED BY <1>3
=============================================================================
