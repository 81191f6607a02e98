------------------------------ MODULE SumProofs ------------------------------
(* Sums of a function over a finite set (SumFunctionOnSet), for the modules *)
(* that add up amounts: what the fold of the community module computes, and *)
(* that the order in which it takes the elements does not matter.  The      *)
(* induction is over the subsets of a finite set, which the library shows   *)
(* well founded.                                                            *)
EXTENDS FiniteSetsExt, FiniteSetTheorems, TLAPS
-----------------------------------------------------------------------------
(* A set G that has every T whose strict subsets it has, has S.             *)
LEMMA SubsetInduction ==
  ASSUME NEW S, IsFiniteSet(S), NEW G,
         \A T \in SUBSET S : (\A U \in SUBSET T : U # T => U \in G) => T \in G
  PROVE  \A T \in SUBSET S : T \in G
<1> SUFFICES ASSUME NEW T \in SUBSET S, T \notin G PROVE FALSE
  OBVIOUS
<1> DEFINE Bad == {U \in SUBSET S : U \notin G}
<1>1. FiniteSubsetsOf(S) = SUBSET S
  BY FS_FiniteSubsetsOfFinite
<1>2. IsWellFoundedOn(StrictSubsetOrdering(S), FiniteSubsetsOf(S))
  BY FS_StrictSubsetOrderingWellFounded
<1>3. PICK U \in Bad : \A V \in Bad : ~(<<V, U>> \in StrictSubsetOrdering(S))
  <2>1. Bad \subseteq FiniteSubsetsOf(S) /\ Bad # {}
    BY <1>1
  <2> HIDE DEF Bad
  <2>. QED
    BY <2>1, <1>2, WFMin
<1>4. \A V \in SUBSET U : V # U => V \in G
  BY <1>3 DEF StrictSubsetOrdering
<1>. QED
  BY <1>3, <1>4
-----------------------------------------------------------------------------
(* The recursive function of the fold.                                      *)
First(s) == CHOOSE x \in s : TRUE
IsSum(g, f, S) ==
  g = [s \in SUBSET S |-> IF s = {} THEN 0 ELSE f[First(s)] + g[s \ {First(s)}]]
TheSum(f, S) == CHOOSE g : IsSum(g, f, S)

LEMMA SumIsChosen ==
  ASSUME NEW f, NEW S PROVE SumFunctionOnSet(f, S) = TheSum(f, S)[S]
  BY DEF SumFunctionOnSet, FoldFunctionOnSet, MapThenFoldSet, TheSum, IsSum, First

LEMMA FirstIsIn == ASSUME NEW s, s # {} PROVE First(s) \in s
  BY DEF First

LEMMA SumUnfolds ==
  ASSUME NEW g, NEW f, NEW S, IsSum(g, f, S), NEW s \in SUBSET S
  PROVE  g[s] = IF s = {} THEN 0 ELSE f[First(s)] + g[s \ {First(s)}]
  BY DEF IsSum

(* Two such functions agree where both are defined.                         *)
LEMMA SumsAgree ==
  ASSUME NEW g, NEW h, NEW f, NEW S, NEW T, IsFiniteSet(S),
         IsSum(g, f, S), IsSum(h, f, T), S \subseteq T
  PROVE  \A s \in SUBSET S : g[s] = h[s]
<1> DEFINE G == {s \in SUBSET S : g[s] = h[s]}
<1>1. ASSUME NEW s \in SUBSET S, \A u \in SUBSET s : u # s => u \in G
      PROVE  s \in G
  <2>1. g[s] = (IF s = {} THEN 0 ELSE f[First(s)] + g[s \ {First(s)}])
    BY SumUnfolds
  <2>2. h[s] = (IF s = {} THEN 0 ELSE f[First(s)] + h[s \ {First(s)}])
    BY SumUnfolds
  <2>3. s # {} => s \ {First(s)} \in G
    BY <1>1, FirstIsIn
  <2>. QED
    BY <2>1, <2>2, <2>3
<1> HIDE DEF G
<1>2. \A s \in SUBSET S : s \in G
  BY <1>1, SubsetInduction
<1>. QED
  BY <1>2 DEF G

(* There is one for every finite set.                                       *)
LEMMA SumExists ==
  ASSUME NEW f, NEW S, IsFiniteSet(S) PROVE IsSum(TheSum(f, S), f, S)
<1> DEFINE G == {T \in SUBSET S : IsSum(TheSum(f, T), f, T)}
<1>1. ASSUME NEW T \in SUBSET S, \A U \in SUBSET T : U # T => U \in G
      PROVE  T \in G
  <2> DEFINE total(u) == TheSum(f, u)[u]
             step(u) == IF u = {} THEN 0 ELSE f[First(u)] + total(u \ {First(u)})
             g == [s \in SUBSET T |-> step(s)]
  <2>1. ASSUME NEW U \in SUBSET T, U # T PROVE total(U) = step(U)
    <3>1. IsSum(TheSum(f, U), f, U)
      BY <1>1, <2>1
    <3>2. total(U) = IF U = {} THEN 0 ELSE f[First(U)] + TheSum(f, U)[U \ {First(U)}]
      BY <3>1, SumUnfolds
    <3>3. CASE U = {}
      BY <3>2, <3>3
    <3>4. CASE U # {}
      <4> DEFINE V == U \ {First(U)}
      <4>1. V \in SUBSET T /\ V # T /\ V \subseteq U
        BY <2>1, <3>4, FirstIsIn
      <4>2. IsSum(TheSum(f, V), f, V) /\ IsFiniteSet(V)
        BY <1>1, <4>1, FS_Subset
      <4> HIDE DEF V
      <4>3. \A s \in SUBSET V : TheSum(f, V)[s] = TheSum(f, U)[s]
        BY <3>1, <4>1, <4>2, SumsAgree
      <4>4. TheSum(f, V)[V] = TheSum(f, U)[V]
        BY <4>3
      <4>. QED
        BY <3>2, <3>4, <4>4 DEF V
    <3>. QED
      BY <3>3, <3>4
  <2>2. ASSUME NEW s \in SUBSET T, s # {} PROVE g[s \ {First(s)}] = total(s \ {First(s)})
    <3>1. s \ {First(s)} \in SUBSET T /\ s \ {First(s)} # T
      BY <2>2, FirstIsIn
    <3>2. g[s \ {First(s)}] = step(s \ {First(s)})
      BY <3>1
    <3>3. total(s \ {First(s)}) = step(s \ {First(s)})
      BY <3>1, <2>1
    <3>. QED
      BY <3>2, <3>3
  <2>3. \A s \in SUBSET T : step(s) = IF s = {} THEN 0 ELSE f[First(s)] + g[s \ {First(s)}]
    BY <2>2
  <2>4. IsSum(g, f, T)
    <3> HIDE DEF step
    <3> QED BY <2>3 DEF IsSum
  <2> HIDE DEF g
  <2>5. IsSum(TheSum(f, T), f, T)
    BY <2>4 DEF TheSum
  <2>. QED
    BY <2>5
<1> HIDE DEF G
<1>2. S \in G
  BY <1>1, SubsetInduction
<1>. QED
  BY <1>2 DEF G
-----------------------------------------------------------------------------
(* What is known of sums from here on.                                      *)

LEMMA SumEmpty == ASSUME NEW f PROVE SumFunctionOnSet(f, {}) = 0
<1>1. IsFiniteSet({})
  BY FS_EmptySet
<1>2. IsSum(TheSum(f, {}), f, {})
  BY <1>1, SumExists
<1>. QED
  BY <1>2, SumUnfolds, SumIsChosen

LEMMA SumFirst ==
  ASSUME NEW f, NEW S, IsFiniteSet(S), S # {}
  PROVE  SumFunctionOnSet(f, S) = f[First(S)] + SumFunctionOnSet(f, S \ {First(S)})
<1> DEFINE T == S \ {First(S)}
<1>1. IsFiniteSet(T) /\ T \subseteq S
  BY FS_RemoveElement
<1>2. IsSum(TheSum(f, S), f, S) /\ IsSum(TheSum(f, T), f, T)
  BY <1>1, SumExists
<1>3. TheSum(f, T)[T] = TheSum(f, S)[T]
  <2> HIDE DEF T
  <2>1. \A s \in SUBSET T : TheSum(f, T)[s] = TheSum(f, S)[s]
    BY <1>1, <1>2, SumsAgree
  <2>. QED
    BY <2>1
<1>4. TheSum(f, S)[S] = f[First(S)] + TheSum(f, S)[T]
  BY <1>2, SumUnfolds
<1>. QED
  BY <1>3, <1>4, SumIsChosen

LEMMA SumInt ==
  ASSUME NEW f, NEW S, IsFiniteSet(S), \A x \in S : f[x] \in Int
  PROVE  SumFunctionOnSet(f, S) \in Int
<1> DEFINE G == {T \in SUBSET S : SumFunctionOnSet(f, T) \in Int}
<1>1. ASSUME NEW T \in SUBSET S, \A U \in SUBSET T : U # T => U \in G
      PROVE  T \in G
  <2>1. CASE T = {}
    BY <2>1, SumEmpty
  <2>2. CASE T # {}
    <3>1. T \ {First(T)} \in G /\ f[First(T)] \in Int
      BY <1>1, <2>2, FirstIsIn
    <3>2. IsFiniteSet(T)
      BY FS_Subset
    <3>. QED
      BY <2>2, <3>1, <3>2, SumFirst
  <2>. QED
    BY <2>1, <2>2
<1> HIDE DEF G
<1>2. S \in G
  BY <1>1, SubsetInduction
<1>. QED
  BY <1>2 DEF G

(* Any element may be taken out.                                            *)
LEMMA SumTake ==
  ASSUME NEW f, NEW S, IsFiniteSet(S), \A x \in S : f[x] \in Int, NEW y \in S
  PROVE  SumFunctionOnSet(f, S) = f[y] + SumFunctionOnSet(f, S \ {y})
<1> DEFINE G == {T \in SUBSET S : \A x \in T :
                   SumFunctionOnSet(f, T) = f[x] + SumFunctionOnSet(f, T \ {x})}
<1>1. ASSUME NEW T \in SUBSET S, \A U \in SUBSET T : U # T => U \in G
      PROVE  T \in G
  <2> SUFFICES ASSUME NEW x \in T
               PROVE  SumFunctionOnSet(f, T) = f[x] + SumFunctionOnSet(f, T \ {x})
    OBVIOUS
  <2> DEFINE c == First(T)   U == T \ {c}   V == T \ {x}   W == U \ {x}
  <2>1. c \in T /\ IsFiniteSet(T)
    BY FirstIsIn, FS_Subset
  <2>2. SumFunctionOnSet(f, T) = f[c] + SumFunctionOnSet(f, U)
    BY <2>1, SumFirst
  <2>3. CASE x = c
    BY <2>2, <2>3
  <2>4. CASE x # c
    <3>1. x \in U /\ c \in V /\ V \ {c} = W
      BY <2>1, <2>4
    <3>2. U \in G /\ V \in G
      BY <1>1, <2>1
    <3>3. SumFunctionOnSet(f, U) = f[x] + SumFunctionOnSet(f, W)
      BY <3>1, <3>2
    <3>4. SumFunctionOnSet(f, V) = f[c] + SumFunctionOnSet(f, W)
      BY <3>1, <3>2
    <3>5. IsFiniteSet(W) /\ W \subseteq S
      BY <2>1, FS_Subset
    <3>6. SumFunctionOnSet(f, W) \in Int /\ f[x] \in Int /\ f[c] \in Int
      BY <2>1, <3>5, SumInt
    <3> HIDE DEF c, U, V, W, G
    <3>7. SumFunctionOnSet(f, T) = f[x] + SumFunctionOnSet(f, V)
      BY <2>2, <3>3, <3>4, <3>6
    <3>. QED
      BY <3>7 DEF V
  <2>. QED
    BY <2>3, <2>4
<1> HIDE DEF G
<1>2. S \in G
  BY <1>1, SubsetInduction
<1>. QED
  BY <1>2 DEF G

LEMMA SumNat ==
  ASSUME NEW f, NEW S, IsFiniteSet(S), \A x \in S : f[x] \in Nat
  PROVE  SumFunctionOnSet(f, S) \in Nat
<1> DEFINE G == {T \in SUBSET S : SumFunctionOnSet(f, T) \in Nat}
<1>1. ASSUME NEW T \in SUBSET S, \A U \in SUBSET T : U # T => U \in G
      PROVE  T \in G
  <2>1. CASE T = {}
    BY <2>1, SumEmpty
  <2>2. CASE T # {}
    <3>1. T \ {First(T)} \in G /\ f[First(T)] \in Nat
      BY <1>1, <2>2, FirstIsIn
    <3>2. IsFiniteSet(T)
      BY FS_Subset
    <3>. QED
      BY <2>2, <3>1, <3>2, SumFirst
  <2>. QED
    BY <2>1, <2>2
<1> HIDE DEF G
<1>2. S \in G
  BY <1>1, SubsetInduction
<1>. QED
  BY <1>2 DEF G

(* Only the values on the set count.                                        *)
LEMMA SumSame ==
  ASSUME NEW f, NEW g, NEW S, IsFiniteSet(S), \A x \in S : f[x] = g[x]
  PROVE  SumFunctionOnSet(f, S) = SumFunctionOnSet(g, S)
<1> DEFINE G == {T \in SUBSET S : SumFunctionOnSet(f, T) = SumFunctionOnSet(g, T)}
<1>1. ASSUME NEW T \in SUBSET S, \A U \in SUBSET T : U # T => U \in G
      PROVE  T \in G
  <2>1. CASE T = {}
    BY <2>1, SumEmpty
  <2>2. CASE T # {}
    <3>1. T \ {First(T)} \in G /\ f[First(T)] = g[First(T)]
      BY <1>1, <2>2, FirstIsIn
    <3>2. IsFiniteSet(T)
      BY FS_Subset
    <3>. QED
      BY <2>2, <3>1, <3>2, SumFirst
  <2>. QED
    BY <2>1, <2>2
<1> HIDE DEF G
<1>2. S \in G
  BY <1>1, SubsetInduction
<1>. QED
  BY <1>2 DEF G

(* A part of the set, and what is left of it.                               *)
LEMMA SumSplits ==
  ASSUME NEW f, NEW S, IsFiniteSet(S), \A x \in S : f[x] \in Int, NEW A \in SUBSET S
  PROVE  SumFunctionOnSet(f, S) = SumFunctionOnSet(f, A) + SumFunctionOnSet(f, S \ A)
<1> DEFINE G == {T \in SUBSET S : SumFunctionOnSet(f, T)
                   = SumFunctionOnSet(f, A \cap T) + SumFunctionOnSet(f, T \ A)}
<1>1. ASSUME NEW T \in SUBSET S, \A U \in SUBSET T : U # T => U \in G
      PROVE  T \in G
  <2>1. CASE T = {}
    <3>1. A \cap T = {} /\ T \ A = {}
      BY <2>1
    <3>. QED
      BY <2>1, <3>1, SumEmpty
  <2>2. CASE T # {}
    <3> DEFINE c == First(T)   U == T \ {c}
    <3>1. c \in T /\ U \in G /\ f[c] \in Int
      BY <1>1, <2>2, FirstIsIn
    <3>2. IsFiniteSet(T) /\ IsFiniteSet(A \cap T) /\ IsFiniteSet(T \ A)
          /\ IsFiniteSet(A \cap U) /\ IsFiniteSet(U \ A)
      BY FS_Subset
    <3>3. SumFunctionOnSet(f, T) = f[c] + SumFunctionOnSet(f, U)
      BY <2>2, <3>2, SumFirst
    <3>4. SumFunctionOnSet(f, A \cap U) \in Int /\ SumFunctionOnSet(f, U \ A) \in Int
      BY <3>2, SumInt
    <3>5. SumFunctionOnSet(f, U) = SumFunctionOnSet(f, A \cap U) + SumFunctionOnSet(f, U \ A)
      BY <3>1
    <3>6. CASE c \in A
      <4>1. (A \cap T) \ {c} = A \cap U /\ T \ A = U \ A /\ c \in A \cap T
        BY <3>1, <3>6
      <4>2. SumFunctionOnSet(f, A \cap T) = f[c] + SumFunctionOnSet(f, A \cap U)
        <5> HIDE DEF c, U, G
        <5>1. \A x \in A \cap T : f[x] \in Int
          OBVIOUS
        <5>. QED
          BY <3>2, <4>1, <5>1, SumTake
      <4>3. SumFunctionOnSet(f, T) = SumFunctionOnSet(f, A \cap T) + SumFunctionOnSet(f, T \ A)
        <5> HIDE DEF c, U, G
        <5>1. SumFunctionOnSet(f, T \ A) = SumFunctionOnSet(f, U \ A)
          BY <4>1
        <5>2. f[c] \in Int
          BY <3>1
        <5>. QED
          BY <3>3, <3>4, <3>5, <4>2, <5>1, <5>2
      <4>. QED
        BY <4>3
    <3>7. CASE c \notin A
      <4>1. A \cap T = A \cap U /\ (T \ A) \ {c} = U \ A /\ c \in T \ A
        BY <3>1, <3>7
      <4>2. SumFunctionOnSet(f, T \ A) = f[c] + SumFunctionOnSet(f, U \ A)
        <5> HIDE DEF c, U, G
        <5>1. \A x \in T \ A : f[x] \in Int
          OBVIOUS
        <5>. QED
          BY <3>2, <4>1, <5>1, SumTake
      <4>3. SumFunctionOnSet(f, T) = SumFunctionOnSet(f, A \cap T) + SumFunctionOnSet(f, T \ A)
        <5> HIDE DEF c, U, G
        <5>1. SumFunctionOnSet(f, A \cap T) = SumFunctionOnSet(f, A \cap U)
          BY <4>1
        <5>2. f[c] \in Int
          BY <3>1
        <5>. QED
          BY <3>3, <3>4, <3>5, <4>2, <5>1, <5>2
      <4>. QED
        BY <4>3
    <3>. QED
      BY <3>6, <3>7
  <2>. QED
    BY <2>1, <2>2
<1> HIDE DEF G
<1>2. S \in G
  BY <1>1, SubsetInduction
<1>3. A \cap S = A
  OBVIOUS
<1>. QED
  BY <1>2, <1>3 DEF G

(* A larger function has a larger sum.                                      *)
LEMMA SumAtMost ==
  ASSUME NEW f, NEW g, NEW S, IsFiniteSet(S), \A x \in S : f[x] \in Int /\ g[x] \in Int /\ f[x] <= g[x]
  PROVE  SumFunctionOnSet(f, S) <= SumFunctionOnSet(g, S)
<1> DEFINE G == {T \in SUBSET S : SumFunctionOnSet(f, T) <= SumFunctionOnSet(g, T)}
<1>1. ASSUME NEW T \in SUBSET S, \A U \in SUBSET T : U # T => U \in G
      PROVE  T \in G
  <2>1. CASE T = {}
    BY <2>1, SumEmpty
  <2>2. CASE T # {}
    <3> DEFINE c == First(T)   U == T \ {c}
    <3>1. c \in T /\ U \in G
      BY <1>1, <2>2, FirstIsIn
    <3>2. IsFiniteSet(T) /\ IsFiniteSet(U)
      BY FS_Subset
    <3>3. /\ SumFunctionOnSet(f, T) = f[c] + SumFunctionOnSet(f, U)
          /\ SumFunctionOnSet(g, T) = g[c] + SumFunctionOnSet(g, U)
      BY <2>2, <3>2, SumFirst
    <3>4. SumFunctionOnSet(f, U) \in Int /\ SumFunctionOnSet(g, U) \in Int
      BY <3>2, SumInt
    <3>5. f[c] \in Int /\ g[c] \in Int /\ f[c] <= g[c]
      BY <3>1
    <3>6. SumFunctionOnSet(f, U) <= SumFunctionOnSet(g, U)
      BY <3>1
    <3>7. SumFunctionOnSet(f, T) <= SumFunctionOnSet(g, T)
      <4> HIDE DEF c, U, G
      <4>. QED
        BY <3>3, <3>4, <3>5, <3>6
    <3>. QED
      BY <3>7
  <2>. QED
    BY <2>1, <2>2
<1> HIDE DEF G
<1>2. S \in G
  BY <1>1, SubsetInduction
<1>. QED
  BY <1>2 DEF G

(* Zeros add up to zero.                                                    *)
LEMMA SumZero ==
  ASSUME NEW f, NEW S, IsFiniteSet(S), \A x \in S : f[x] = 0
  PROVE  SumFunctionOnSet(f, S) = 0
<1> DEFINE G == {T \in SUBSET S : SumFunctionOnSet(f, T) = 0}
<1>1. ASSUME NEW T \in SUBSET S, \A U \in SUBSET T : U # T => U \in G
      PROVE  T \in G
  <2>1. CASE T = {}
    BY <2>1, SumEmpty
  <2>2. CASE T # {}
    <3> DEFINE c == First(T)   U == T \ {c}
    <3>1. c \in T /\ U \in G
      BY <1>1, <2>2, FirstIsIn
    <3>2. IsFiniteSet(T) /\ IsFiniteSet(U)
      BY FS_Subset
    <3>3. SumFunctionOnSet(f, T) = f[c] + SumFunctionOnSet(f, U)
      BY <2>2, <3>2, SumFirst
    <3>4. f[c] = 0 /\ SumFunctionOnSet(f, U) = 0
      BY <3>1
    <3>. QED
      BY <3>3, <3>4
  <2>. QED
    BY <2>1, <2>2
<1> HIDE DEF G
<1>2. S \in G
  BY <1>1, SubsetInduction
<1>. QED
  BY <1>2 DEF G

(* The sum over a part is the sum over all of what counts only there.       *)
LEMMA SumPicked ==
  ASSUME NEW f, NEW S, IsFiniteSet(S), NEW A \in SUBSET S, \A x \in A : f[x] \in Int
  PROVE  SumFunctionOnSet(f, A) = SumFunctionOnSet([x \in S |-> IF x \in A THEN f[x] ELSE 0], S)
<1> DEFINE g == [x \in S |-> IF x \in A THEN f[x] ELSE 0]
<1>1. \A x \in S : g[x] \in Int
  OBVIOUS
<1>2. (\A x \in A : f[x] = g[x]) /\ \A x \in S \ A : g[x] = 0
  OBVIOUS
<1> HIDE DEF g
<1>3. IsFiniteSet(A) /\ IsFiniteSet(S \ A)
  BY FS_Subset
<1>4. SumFunctionOnSet(g, S) = SumFunctionOnSet(g, A) + SumFunctionOnSet(g, S \ A)
  BY <1>1, SumSplits
<1>5. SumFunctionOnSet(g, A) = SumFunctionOnSet(f, A) /\ SumFunctionOnSet(g, S \ A) = 0
  <2>1. SumFunctionOnSet(f, A) = SumFunctionOnSet(g, A)
    BY <1>2, <1>3, SumSame
  <2>. QED
    BY <1>2, <1>3, <2>1, SumZero
<1>6. SumFunctionOnSet(g, A) \in Int
  BY <1>1, <1>3, SumInt
<1>7. SumFunctionOnSet(f, A) = SumFunctionOnSet(g, S)
  BY <1>4, <1>5, <1>6
<1>. QED
  BY <1>7 DEF g

(* One value changes, and the sum with it.                                  *)
LEMMA SumChanges ==
  ASSUME NEW f, NEW g, NEW S, IsFiniteSet(S), NEW y \in S,
         \A x \in S : f[x] \in Int /\ g[x] \in Int, \A x \in S : x # y => f[x] = g[x]
  PROVE  SumFunctionOnSet(g, S) = (SumFunctionOnSet(f, S) - f[y]) + g[y]
<1>1. IsFiniteSet(S \ {y})
  BY FS_Subset
<1>2. SumFunctionOnSet(f, S) = f[y] + SumFunctionOnSet(f, S \ {y})
  BY SumTake
<1>3. SumFunctionOnSet(g, S) = g[y] + SumFunctionOnSet(g, S \ {y})
  BY SumTake
<1>4. SumFunctionOnSet(f, S \ {y}) = SumFunctionOnSet(g, S \ {y})
  BY <1>1, SumSame
<1>5. SumFunctionOnSet(f, S \ {y}) \in Int
  BY <1>1, SumInt
<1>6. f[y] \in Int /\ g[y] \in Int
  OBVIOUS
<1>. QED
  BY <1>2, <1>3, <1>4, <1>5, <1>6
=============================================================================
