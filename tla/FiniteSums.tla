----------------------------- MODULE FiniteSums -----------------------------
(***************************************************************************)
(* Sums over finite sets, and the two inductions that facts about them     *)
(* need.  MapThenSumSet adds up a set by choosing its members one by one;  *)
(* what is proved here is that the order does not matter.                  *)
(*                                                                         *)
(* The induction theorems of the library quantify over operators, which no *)
(* prover can instantiate; those below quantify over sets.                 *)
(***************************************************************************)
EXTENDS Integers, FiniteSetsExt, FiniteSetTheorems, WellFoundedInduction, TLAPS

\* Induction over the natural numbers, for what a set can express.
LEMMA NatSetInduction ==
  ASSUME NEW S, 0 \in S, \A n \in Nat : n \in S => n + 1 \in S
  PROVE  Nat \subseteq S
<1> SUFFICES ASSUME NEW k \in Nat, k \notin S PROVE FALSE
  OBVIOUS
<1> DEFINE T == {n \in Nat : n \notin S}
           R == OpToRel(<, Nat)
<1>1. T \subseteq Nat /\ T # {}
  OBVIOUS
<1>2. IsWellFoundedOn(R, Nat)
  BY NatLessThanWellFounded
<1>3. \A x, y \in Nat : x < y => <<x, y>> \in R
  BY DEF OpToRel
<1> HIDE DEF T, R
<1>4. \E x \in T : \A y \in T : ~(<<y, x>> \in R)
  BY <1>1, <1>2, WFMin
<1>5. PICK x \in T : \A y \in T : ~(<<y, x>> \in R)
  BY <1>4
<1>6. x # 0 /\ x - 1 \in Nat /\ x \in Nat /\ x \notin S
  BY <1>5 DEF T
<1>7. <<x - 1, x>> \in R
  BY <1>3, <1>6
<1>8. x - 1 \in S
  BY <1>5, <1>6, <1>7 DEF T
<1>9. (x - 1) + 1 = x
  BY <1>6
<1> QED
  BY <1>6, <1>8, <1>9

\* Induction over the finite subsets of a set.
LEMMA SubsetInduction ==
  ASSUME NEW T, IsFiniteSet(T), NEW P \in SUBSET SUBSET T,
         \A U \in SUBSET T : (\A V \in SUBSET U : V # U => V \in P) => U \in P
  PROVE  SUBSET T \subseteq P
<1> SUFFICES ASSUME NEW W \in SUBSET T, W \notin P PROVE FALSE
  OBVIOUS
<1> DEFINE Q == {U \in SUBSET T : U \notin P}
           R == StrictSubsetOrdering(T)
<1>1. Q \subseteq SUBSET T /\ Q # {}
  OBVIOUS
<1> HIDE DEF Q, R
<1>2. IsWellFoundedOn(R, SUBSET T)
  <2>1. IsWellFoundedOn(R, FiniteSubsetsOf(T))
    BY FS_StrictSubsetOrderingWellFounded DEF R
  <2>2. FiniteSubsetsOf(T) = SUBSET T
    BY FS_FiniteSubsetsOfFinite
  <2> QED
    BY <2>1, <2>2
<1>3. \A U, V \in SUBSET T : V \subseteq U /\ V # U => <<V, U>> \in R
  BY DEF StrictSubsetOrdering, R
<1>4. \E U \in Q : \A V \in Q : ~(<<V, U>> \in R)
  BY <1>1, <1>2, WFMin
<1>5. PICK U \in Q : \A V \in Q : ~(<<V, U>> \in R)
  BY <1>4
<1>6. U \in SUBSET T /\ U \notin P
  BY <1>5 DEF Q
<1>7. ASSUME NEW V \in SUBSET U, V # U
      PROVE  V \in P
  <2>1. V \in SUBSET T /\ <<V, U>> \in R
    BY <1>3, <1>6, <1>7
  <2> QED
    BY <1>5, <2>1 DEF Q
<1> QED
  BY <1>6, <1>7

-----------------------------------------------------------------------------
(* The recursion by which MapThenSumSet is defined has a solution.         *)

\* The sum of f over S.
SumOver(f, S) == MapThenSumSet(LAMBDA x : f[x], S)

\* The member that is added next, and the members after it.
Picked(s) == CHOOSE x \in s : TRUE
Rest(s) == s \ {Picked(s)}

\* g adds up f over each subset of S, in the order in which they are picked.
AddsUp(g, f, S) ==
  g = [s \in SUBSET S |-> IF s = {} THEN 0 ELSE f[Picked(s)] + g[Rest(s)]]

\* The sums of f over the subsets of S, as MapThenSumSet defines them.
Sums(f, S) == CHOOSE g : AddsUp(g, f, S)

\* Sums is the recursion that MapThenSumSet chooses.
LEMMA SumOverIsSums ==
  ASSUME NEW f, NEW S
  PROVE  SumOver(f, S) = Sums(f, S)[S]
BY DEF SumOver, Sums, AddsUp, Picked, Rest, MapThenSumSet, MapThenFoldSet

\* The members after the next one are a smaller set.
LEMMA RestSmaller ==
  ASSUME NEW S, S # {}
  PROVE  Picked(S) \in S /\ Rest(S) \in SUBSET S /\ Rest(S) # S
BY DEF Picked, Rest

\* Two solutions agree where both are defined.
LEMMA AddsUpUnique ==
  ASSUME NEW f, NEW S, IsFiniteSet(S), NEW T \in SUBSET S,
         NEW g, AddsUp(g, f, S), NEW h, AddsUp(h, f, T)
  PROVE  \A s \in SUBSET T : g[s] = h[s]
<1> DEFINE P == {s \in SUBSET T : g[s] = h[s]}
<1>1. IsFiniteSet(T)
  BY FS_Subset
<1>2. ASSUME NEW U \in SUBSET T, \A V \in SUBSET U : V # U => V \in P
      PROVE  U \in P
  <2>1. CASE U = {}
    BY <2>1 DEF AddsUp
  <2>2. CASE U # {}
    <3>1. g[Rest(U)] = h[Rest(U)]
      BY <1>2, <2>2, RestSmaller
    <3>2. U \in SUBSET S /\ U \in SUBSET T
      OBVIOUS
    <3>3. g[U] = f[Picked(U)] + g[Rest(U)]
      BY <2>2, <3>2 DEF AddsUp
    <3>4. h[U] = f[Picked(U)] + h[Rest(U)]
      BY <2>2, <3>2 DEF AddsUp
    <3> QED
      BY <3>1, <3>3, <3>4
  <2> QED
    BY <2>1, <2>2
<1>3. P \in SUBSET SUBSET T
  OBVIOUS
<1> HIDE DEF P
<1>4. SUBSET T \subseteq P
  BY <1>1, <1>2, <1>3, SubsetInduction
<1> QED
  BY <1>4 DEF P

\* There is a solution, by induction over the subsets.
LEMMA SumsAddUp ==
  ASSUME NEW f, NEW S, IsFiniteSet(S)
  PROVE  AddsUp(Sums(f, S), f, S)
<1> DEFINE P == {U \in SUBSET S : \E g : AddsUp(g, f, U)}
<1>1. ASSUME NEW U \in SUBSET S, \A V \in SUBSET U : V # U => V \in P
      PROVE  U \in P
  <2> DEFINE val(t) == Sums(f, t)[t]
             g == [t \in SUBSET U |->
                     IF t = {} THEN 0 ELSE f[Picked(t)] + val(Rest(t))]
  <2>1. ASSUME NEW V \in SUBSET U, V # U
        PROVE  AddsUp(Sums(f, V), f, V)
    <3>1. \E h : AddsUp(h, f, V)
      BY <1>1, <2>1
    <3> QED
      BY <3>1 DEF Sums
  <2>2. ASSUME NEW t \in SUBSET U, t # U
        PROVE  g[t] = val(t)
    <3>1. CASE t = {}
      <4>1. Sums(f, t)[t] = 0
        BY <2>1, <2>2, <3>1 DEF AddsUp
      <4> QED
        BY <3>1, <4>1
    <3>2. CASE t # {}
      <4>1. /\ Rest(t) \in SUBSET t /\ Rest(t) \in SUBSET U /\ Rest(t) # U
        BY <2>2, <3>2, RestSmaller
      <4>2. AddsUp(Sums(f, t), f, t) /\ AddsUp(Sums(f, Rest(t)), f, Rest(t))
        BY <2>1, <2>2, <4>1
      <4>3. IsFiniteSet(t)
        BY FS_Subset
      <4>4. \A s \in SUBSET Rest(t) : Sums(f, t)[s] = Sums(f, Rest(t))[s]
        BY <4>1, <4>2, <4>3, AddsUpUnique
      <4>5. Sums(f, t)[t] = f[Picked(t)] + Sums(f, t)[Rest(t)]
        BY <4>2, <3>2 DEF AddsUp
      <4>6. Sums(f, t)[Rest(t)] = val(Rest(t))
        BY <4>4
      <4> QED
        BY <3>2, <4>5, <4>6
    <3> QED
      BY <3>1, <3>2
  <2>3. ASSUME NEW t \in SUBSET U, t # {}
        PROVE  g[Rest(t)] = val(Rest(t))
    <3>1. Rest(t) \in SUBSET U /\ Rest(t) # U
      BY <2>3, RestSmaller
    <3> QED
      BY <2>2, <3>1
  <2>4. g = [t \in SUBSET U |-> IF t = {} THEN 0 ELSE f[Picked(t)] + g[Rest(t)]]
    <3> DEFINE e == [t \in SUBSET U |-> IF t = {} THEN 0 ELSE f[Picked(t)] + g[Rest(t)]]
    <3>1. ASSUME NEW t \in SUBSET U
          PROVE  g[t] = e[t]
      <4> HIDE DEF val
      <4>1. CASE t = {}
        BY <4>1
      <4>2. CASE t # {}
        <5>1. g[t] = f[Picked(t)] + val(Rest(t))
          BY <4>2
        <5>2. g[Rest(t)] = val(Rest(t))
          BY <4>2, <2>3
        <5> HIDE DEF g
        <5> QED
          BY <4>2, <5>1, <5>2
      <4> QED
        BY <4>1, <4>2
    <3>2. g = [t \in SUBSET U |-> g[t]]
      BY Zenon
    <3>3. e = [t \in SUBSET U |-> e[t]]
      <4> HIDE DEF g
      <4> QED BY Zenon
    <3> HIDE DEF g, e
    <3>4. g = e
      BY <3>1, <3>2, <3>3
    <3> QED
      BY <3>4 DEF e
  <2> HIDE DEF g
  <2> QED
    BY <2>4 DEF AddsUp
<1>2. P \in SUBSET SUBSET S
  OBVIOUS
<1> HIDE DEF P
<1>3. SUBSET S \subseteq P
  BY <1>1, <1>2, SubsetInduction
<1>4. \E g : AddsUp(g, f, S)
  BY <1>3 DEF P
<1> QED
  BY <1>4 DEF Sums

-----------------------------------------------------------------------------
(* What sums are used for.                                                 *)

-----------------------------------------------------------------------------
(* What follows for the sums.                                              *)

\* The sum over nothing is zero.
LEMMA SumEmpty ==
  ASSUME NEW f
  PROVE  SumOver(f, {}) = 0
<1>1. AddsUp(Sums(f, {}), f, {})
  BY SumsAddUp, FS_EmptySet
<1>2. Sums(f, {})[{}] = 0
  BY <1>1 DEF AddsUp
<1> QED
  BY <1>2, SumOverIsSums

\* The sum takes the member that is picked first.
LEMMA SumUnfold ==
  ASSUME NEW f, NEW S, IsFiniteSet(S), S # {}
  PROVE  SumOver(f, S) = f[Picked(S)] + SumOver(f, Rest(S))
<1>1. Rest(S) \in SUBSET S /\ IsFiniteSet(Rest(S))
  BY RestSmaller, FS_Subset
<1>2. AddsUp(Sums(f, S), f, S) /\ AddsUp(Sums(f, Rest(S)), f, Rest(S))
  BY <1>1, SumsAddUp
<1>3. Sums(f, S)[S] = f[Picked(S)] + Sums(f, S)[Rest(S)]
  BY <1>2 DEF AddsUp
<1>4. Sums(f, S)[Rest(S)] = Sums(f, Rest(S))[Rest(S)]
  BY <1>1, <1>2, AddsUpUnique
<1> QED
  BY <1>3, <1>4, SumOverIsSums

\* A sum of numbers is one, and any of them may be taken out of it.
LEMMA SumRemove ==
  ASSUME NEW f, NEW S, IsFiniteSet(S), \A x \in S : f[x] \in Nat
  PROVE  /\ SumOver(f, S) \in Nat
         /\ \A x \in S : SumOver(f, S) = f[x] + SumOver(f, S \ {x})
<1> DEFINE Good(U) == /\ SumOver(f, U) \in Nat
                      /\ \A x \in U : SumOver(f, U) = f[x] + SumOver(f, U \ {x})
           P == {U \in SUBSET S : Good(U)}
<1>1. ASSUME NEW U \in SUBSET S, \A V \in SUBSET U : V # U => V \in P
      PROVE  U \in P
  <2>1. CASE U = {}
    BY <2>1, SumEmpty
  <2>2. CASE U # {}
    <3> DEFINE p == Picked(U)
    <3>1. p \in U /\ Rest(U) = U \ {p} /\ IsFiniteSet(U) /\ f[p] \in Nat
      BY <2>2, RestSmaller, FS_Subset DEF Rest
    <3> HIDE DEF p
    <3>2. SumOver(f, U) = f[p] + SumOver(f, U \ {p})
      BY <2>2, <3>1, SumUnfold DEF p
    <3>3. Good(U \ {p})
      BY <1>1, <3>1
    <3>4. SumOver(f, U) \in Nat
      BY <3>1, <3>2, <3>3
    <3>5. ASSUME NEW x \in U, x # p
          PROVE  SumOver(f, U) = f[x] + SumOver(f, U \ {x})
      <4>1. Good(U \ {x}) /\ Good((U \ {p}) \ {x})
        <5>1. /\ U \ {x} \in SUBSET U /\ U \ {x} # U
              /\ (U \ {p}) \ {x} \in SUBSET U /\ (U \ {p}) \ {x} # U
          BY <3>1
        <5> QED
          BY <1>1, <5>1
      <4>2. SumOver(f, U \ {p}) = f[x] + SumOver(f, (U \ {p}) \ {x})
        BY <3>3, <3>5
      <4>3. SumOver(f, U \ {x}) = f[p] + SumOver(f, (U \ {x}) \ {p})
        BY <3>1, <3>5, <4>1
      <4>4. (U \ {x}) \ {p} = (U \ {p}) \ {x}
        OBVIOUS
      <4>5. f[x] \in Nat /\ SumOver(f, (U \ {p}) \ {x}) \in Nat
        BY <4>1
      <4> HIDE DEF Good
      <4>6. SumOver(f, U) = f[p] + (f[x] + SumOver(f, (U \ {p}) \ {x}))
        BY <3>2, <4>2
      <4>7. SumOver(f, U \ {x}) = f[p] + SumOver(f, (U \ {p}) \ {x})
        BY <4>3, <4>4
      <4> QED
        BY <3>1, <4>5, <4>6, <4>7
    <3> QED
      BY <3>2, <3>4, <3>5
  <2> QED
    BY <2>1, <2>2
<1>2. P \in SUBSET SUBSET S
  OBVIOUS
<1> HIDE DEF P, Good
<1>3. SUBSET S \subseteq P
  BY <1>1, <1>2, SubsetInduction
<1> QED
  BY <1>3 DEF P, Good

\* The sum grows by the number that is added to the set.
LEMMA SumInsert ==
  ASSUME NEW f, NEW S, IsFiniteSet(S), NEW x, x \notin S,
         \A y \in S \cup {x} : f[y] \in Nat
  PROVE  SumOver(f, S \cup {x}) = SumOver(f, S) + f[x]
<1>1. IsFiniteSet(S \cup {x})
  BY FS_AddElement
<1>2. SumOver(f, S \cup {x}) = f[x] + SumOver(f, (S \cup {x}) \ {x})
  BY <1>1, SumRemove
<1>3. (S \cup {x}) \ {x} = S
  OBVIOUS
<1>4. SumOver(f, S) \in Nat /\ f[x] \in Nat
  BY SumRemove
<1>5. SumOver(f, S \cup {x}) = f[x] + SumOver(f, S)
  BY <1>2, <1>3
<1> QED
  BY <1>4, <1>5

\* The sum depends on nothing but the numbers.
LEMMA SumSame ==
  ASSUME NEW f, NEW h, NEW S, IsFiniteSet(S), \A x \in S : f[x] = h[x]
  PROVE  SumOver(f, S) = SumOver(h, S)
<1> DEFINE P == {U \in SUBSET S : SumOver(f, U) = SumOver(h, U)}
<1>1. ASSUME NEW U \in SUBSET S, \A V \in SUBSET U : V # U => V \in P
      PROVE  U \in P
  <2>1. CASE U = {}
    BY <2>1, SumEmpty
  <2>2. CASE U # {}
    <3>1. /\ Picked(U) \in S /\ IsFiniteSet(U)
          /\ SumOver(f, Rest(U)) = SumOver(h, Rest(U))
      BY <1>1, <2>2, RestSmaller, FS_Subset
    <3> QED
      BY <2>2, <3>1, SumUnfold
  <2> QED
    BY <2>1, <2>2
<1>2. P \in SUBSET SUBSET S
  OBVIOUS
<1> HIDE DEF P
<1>3. SUBSET S \subseteq P
  BY <1>1, <1>2, SubsetInduction
<1> QED
  BY <1>3 DEF P

\* A sum of ones and zeros, with one at one place at most.
LEMMA SumAtMostOne ==
  ASSUME NEW f, NEW S, IsFiniteSet(S), \A x \in S : f[x] \in {0, 1},
         \A x, y \in S : f[x] = 1 /\ f[y] = 1 => x = y
  PROVE  SumOver(f, S) \in {0, 1}
<1> DEFINE Zero(U) == (\A x \in U : f[x] = 0) => SumOver(f, U) = 0
           P == {U \in SUBSET S : Zero(U)}
<1>0. \A x \in S : f[x] \in Nat
  OBVIOUS
<1>1. ASSUME NEW U \in SUBSET S, \A V \in SUBSET U : V # U => V \in P
      PROVE  U \in P
  <2>1. CASE U = {}
    BY <2>1, SumEmpty
  <2>2. CASE U # {}
    <3>1. /\ Picked(U) \in U /\ Rest(U) \in SUBSET U /\ IsFiniteSet(U)
          /\ Zero(Rest(U))
      BY <1>1, <2>2, RestSmaller, FS_Subset
    <3>2. SumOver(f, U) = f[Picked(U)] + SumOver(f, Rest(U))
      BY <2>2, <3>1, SumUnfold
    <3> QED
      BY <3>1, <3>2
  <2> QED
    BY <2>1, <2>2
<1>2. P \in SUBSET SUBSET S
  OBVIOUS
<1> HIDE DEF P
<1>3. SUBSET S \subseteq P
  BY <1>1, <1>2, SubsetInduction
<1>4. \A U \in SUBSET S : Zero(U)
  BY <1>3 DEF P
<1>5. CASE \A x \in S : f[x] = 0
  BY <1>4, <1>5
<1>6. ASSUME NEW x \in S, f[x] # 0
      PROVE  SumOver(f, S) \in {0, 1}
  <2>1. f[x] = 1 /\ \A y \in S \ {x} : f[y] = 0
    BY <1>6
  <2>2. SumOver(f, S \ {x}) = 0
    BY <1>4, <2>1
  <2>3. SumOver(f, S) = f[x] + SumOver(f, S \ {x})
    BY <1>0, SumRemove
  <2> QED
    BY <2>1, <2>2, <2>3
<1> QED
  BY <1>5, <1>6
=============================================================================
