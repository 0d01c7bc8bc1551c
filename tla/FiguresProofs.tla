---------------------------- MODULE FiguresProofs ----------------------------
(***************************************************************************)
(* TLAPS proofs about sums, for the figures that are made of them; then    *)
(* those of Anomalies: verdicts stay, and an anomaly is announced once,    *)
(* for any number of scans and updates, anomalies and candidates; and      *)
(* those of BillingFigures, for any exports, scopes and queries.           *)
(***************************************************************************)
EXTENDS Anomalies, BillingFigures, FiniteSetTheorems, WellFoundedInduction, TLAPS

(* Induction, over sets of numbers and sets of sets. *)
LEMMA NumbersInduction ==
  ASSUME NEW P \in SUBSET Nat, 0 \in P, \A n \in P : n + 1 \in P
  PROVE  \A n \in Nat : n \in P
<1> SUFFICES ASSUME Nat \ P # {} PROVE FALSE
  OBVIOUS
<1>1. PICK n \in Nat \ P : \A k \in Nat \ P : <<k, n>> \notin OpToRel(<, Nat)
  BY NatLessThanWellFounded, WFMin
<1>2. n # 0 /\ n - 1 \in Nat /\ (n - 1) + 1 = n
  <2>1. n # 0 /\ n \in Nat
    OBVIOUS
  <2> QED BY <2>1
<1>3. <<n - 1, n>> \in OpToRel(<, Nat)
  BY <1>2 DEF OpToRel
<1>4. n - 1 \in P
  BY <1>1, <1>2, <1>3
<1> QED BY <1>2, <1>4

LEMMA SizeWithout ==
  ASSUME NEW S, IsFiniteSet(S), NEW x \in S
  PROVE  /\ IsFiniteSet(S \ {x}) /\ Cardinality(S) \in Nat /\ Cardinality(S \ {x}) \in Nat
         /\ Cardinality(S) = Cardinality(S \ {x}) + 1
<1>1. IsFiniteSet(S \ {x}) /\ Cardinality(S \ {x}) = Cardinality(S) - 1
  BY FS_RemoveElement
<1>2. Cardinality(S) \in Nat /\ Cardinality(S \ {x}) \in Nat
  BY <1>1, FS_CardinalityType
<1> QED BY <1>1, <1>2

LEMMA SizeZero ==
  ASSUME NEW S, IsFiniteSet(S), Cardinality(S) = 0 PROVE S = {}
BY FS_EmptySet

LEMMA SubsetsInduction ==
  ASSUME NEW S, IsFiniteSet(S), NEW F, {} \in F,
         \A T \in SUBSET S, x \in S : T \in F /\ x \notin T => T \cup {x} \in F
  PROVE  S \in F
<1> DEFINE P == {n \in Nat : \A T \in SUBSET S : Cardinality(T) = n => T \in F}
<1>1. \A T \in SUBSET S : IsFiniteSet(T) /\ Cardinality(T) \in Nat
  BY FS_Subset, FS_CardinalityType
<1>2. 0 \in P
  BY <1>1, SizeZero
<1>3. ASSUME NEW n \in P PROVE n + 1 \in P
  <2> SUFFICES ASSUME NEW T \in SUBSET S, Cardinality(T) = n + 1 PROVE T \in F
    OBVIOUS
  <2>1. PICK x \in T : TRUE
    BY <1>1, FS_EmptySet
  <2>2. Cardinality(T \ {x}) = n
    BY <1>1, <2>1, SizeWithout
  <2>3. T \ {x} \in F
    BY <2>2
  <2>4. (T \ {x}) \cup {x} = T
    BY <2>1
  <2> QED BY <2>1, <2>3, <2>4
<1> HIDE DEF P
<1>4. \A n \in Nat : n \in P
  BY <1>2, <1>3, NumbersInduction DEF P
<1>5. Cardinality(S) \in P
  BY <1>1, <1>4
<1> QED BY <1>5 DEF P

-----------------------------------------------------------------------------
(* Sums. SumFunctionOnSet is a fold: a recursive function on the subsets   *)
(* of a set, each without an element that is chosen. It exists, and does   *)
(* not depend on what is chosen.                                           *)

Some(s) == CHOOSE x \in s : TRUE

Unfold(f, g, s) == IF s = {} THEN 0 ELSE f[Some(s)] + g[s \ {Some(s)}]

IsFold(f, S, g) == g = [s \in SUBSET S |-> Unfold(f, g, s)]

FoldOf(f, S) == CHOOSE g : IsFold(f, S, g)

LEMMA SumIsFold ==
  ASSUME NEW f, NEW S
  PROVE  SumFunctionOnSet(f, S) = FoldOf(f, S)[S]
BY DEF SumFunctionOnSet, FoldFunctionOnSet, MapThenFoldSet, FoldOf, IsFold, Unfold, Some

LEMMA SomeOf ==
  ASSUME NEW S, S # {} PROVE Some(S) \in S
BY DEF Some

LEMMA FoldExists ==
  ASSUME NEW f, NEW S, IsFiniteSet(S)
  PROVE  IsFold(f, S, FoldOf(f, S))
<1> DEFINE Upto(k) == {s \in SUBSET S : Cardinality(s) <= k}
           Folds(k, g) == g = [s \in Upto(k) |-> Unfold(f, g, s)]
           P == {k \in Nat : \E g : Folds(k, g)}
<1>1. \A s \in SUBSET S : IsFiniteSet(s) /\ Cardinality(s) \in Nat
  BY FS_Subset, FS_CardinalityType
<1>2. 0 \in P
  <2> DEFINE g == [s \in Upto(0) |-> 0]
  <2>1. \A s \in Upto(0) : s = {}
    BY <1>1, SizeZero
  <2>2. Folds(0, g)
    BY <2>1 DEF Unfold
  <2> QED BY <2>2
<1>3. ASSUME NEW k \in P PROVE k + 1 \in P
  <2>1. PICK g : Folds(k, g)
    OBVIOUS
  <2> HIDE DEF Folds
  <2> DEFINE h == [s \in Upto(k + 1) |-> Unfold(f, g, s)]
  <2>2. ASSUME NEW s \in Upto(k + 1) PROVE Unfold(f, g, s) = Unfold(f, h, s)
    <3>1. CASE s = {}
      BY <3>1 DEF Unfold
    <3>2. CASE s # {}
      <4> DEFINE t == s \ {Some(s)}
      <4>1. Some(s) \in s
        BY <3>2, SomeOf
      <4>2. Cardinality(s) = Cardinality(t) + 1 /\ Cardinality(s) \in Nat /\ Cardinality(t) \in Nat
        BY <1>1, <4>1, SizeWithout
      <4>3. t \in Upto(k) /\ t \in Upto(k + 1)
        BY <4>2
      <4>4. g[t] = Unfold(f, g, t)
        BY <2>1, <4>3 DEF Folds
      <4>5. h[t] = Unfold(f, g, t)
        BY <4>3
      <4> QED BY <3>2, <4>4, <4>5 DEF Unfold
    <3> QED BY <3>1, <3>2
  <2> HIDE DEF h
  <2>3. h = [s \in Upto(k + 1) |-> Unfold(f, h, s)]
    BY <2>2 DEF h
  <2>4. Folds(k + 1, h)
    BY <2>3 DEF Folds
  <2> QED BY <2>4
<1> HIDE DEF P
<1>4. Cardinality(S) \in P
  BY <1>1, <1>2, <1>3, NumbersInduction DEF P
<1>5. PICK g : Folds(Cardinality(S), g)
  BY <1>4 DEF P
<1>6. Upto(Cardinality(S)) = SUBSET S
  BY <1>1, FS_Subset
<1>7. IsFold(f, S, g)
  BY <1>5, <1>6 DEF IsFold
<1> QED BY <1>7 DEF FoldOf

LEMMA FoldsAgree ==
  ASSUME NEW f, NEW S, IsFiniteSet(S), NEW g, IsFold(f, S, g),
         NEW T \in SUBSET S, NEW h, IsFold(f, T, h)
  PROVE  g[T] = h[T]
<1> DEFINE P == {n \in Nat : \A s \in SUBSET T : Cardinality(s) = n => g[s] = h[s]}
<1>1. \A s \in SUBSET T : IsFiniteSet(s) /\ Cardinality(s) \in Nat
  BY FS_Subset, FS_CardinalityType
<1>2. \A s \in SUBSET T : g[s] = Unfold(f, g, s) /\ h[s] = Unfold(f, h, s)
  BY DEF IsFold
<1>3. 0 \in P
  BY <1>1, <1>2, SizeZero DEF Unfold
<1>4. ASSUME NEW n \in P PROVE n + 1 \in P
  <2> SUFFICES ASSUME NEW s \in SUBSET T, Cardinality(s) = n + 1 PROVE g[s] = h[s]
    OBVIOUS
  <2>1. s # {}
    BY FS_EmptySet
  <2>2. Some(s) \in s
    BY <2>1, SomeOf
  <2>3. Cardinality(s \ {Some(s)}) = n
    BY <1>1, <2>2, SizeWithout
  <2>4. g[s \ {Some(s)}] = h[s \ {Some(s)}]
    BY <2>3
  <2> QED BY <1>2, <2>1, <2>4 DEF Unfold
<1> HIDE DEF P
<1>5. Cardinality(T) \in P
  BY <1>1, <1>3, <1>4, NumbersInduction DEF P
<1> QED BY <1>5 DEF P

LEMMA SumOfNone ==
  ASSUME NEW f PROVE SumFunctionOnSet(f, {}) = 0
<1>1. IsFold(f, {}, FoldOf(f, {}))
  BY FoldExists, FS_EmptySet
<1>2. FoldOf(f, {})[{}] = Unfold(f, FoldOf(f, {}), {})
  BY <1>1 DEF IsFold
<1> QED BY <1>2, SumIsFold DEF Unfold

LEMMA SumWithoutSome ==
  ASSUME NEW f, NEW S, IsFiniteSet(S), S # {}
  PROVE  SumFunctionOnSet(f, S) = f[Some(S)] + SumFunctionOnSet(f, S \ {Some(S)})
<1> DEFINE T == S \ {Some(S)}
<1>1. IsFold(f, S, FoldOf(f, S)) /\ IsFold(f, T, FoldOf(f, T))
  BY FoldExists, FS_Subset
<1>2. FoldOf(f, S)[T] = FoldOf(f, T)[T]
  BY <1>1, FoldsAgree
<1>3. FoldOf(f, S)[S] = f[Some(S)] + FoldOf(f, S)[T]
  BY <1>1 DEF IsFold, Unfold
<1> QED BY <1>2, <1>3, SumIsFold

LEMMA SumIsNumber ==
  ASSUME NEW f, NEW S, IsFiniteSet(S), \A x \in S : f[x] \in Int
  PROVE  SumFunctionOnSet(f, S) \in Int
<1> DEFINE P == {n \in Nat : \A s \in SUBSET S : Cardinality(s) = n => SumFunctionOnSet(f, s) \in Int}
<1>1. \A s \in SUBSET S : IsFiniteSet(s) /\ Cardinality(s) \in Nat
  BY FS_Subset, FS_CardinalityType
<1>2. 0 \in P
  BY <1>1, SizeZero, SumOfNone
<1>3. ASSUME NEW n \in P PROVE n + 1 \in P
  <2> SUFFICES ASSUME NEW s \in SUBSET S, Cardinality(s) = n + 1
               PROVE  SumFunctionOnSet(f, s) \in Int
    OBVIOUS
  <2>1. s # {}
    BY FS_EmptySet
  <2>2. Some(s) \in s
    BY <2>1, SomeOf
  <2>3. Cardinality(s \ {Some(s)}) = n
    BY <1>1, <2>2, SizeWithout
  <2>4. SumFunctionOnSet(f, s \ {Some(s)}) \in Int
    BY <2>3
  <2> QED BY <1>1, <2>1, <2>2, <2>4, SumWithoutSome
<1> HIDE DEF P
<1>4. Cardinality(S) \in P
  BY <1>1, <1>2, <1>3, NumbersInduction DEF P
<1> QED BY <1>4 DEF P

LEMMA SumWithout ==
  ASSUME NEW f, NEW S, IsFiniteSet(S), \A x \in S : f[x] \in Int, NEW x \in S
  PROVE  SumFunctionOnSet(f, S) = f[x] + SumFunctionOnSet(f, S \ {x})
<1> DEFINE Sum(s) == SumFunctionOnSet(f, s)
           P == {n \in Nat : \A s \in SUBSET S, y \in S :
                   Cardinality(s) = n /\ y \in s => Sum(s) = f[y] + Sum(s \ {y})}
<1>1. \A s \in SUBSET S : IsFiniteSet(s) /\ Cardinality(s) \in Nat /\ Sum(s) \in Int
  BY FS_Subset, FS_CardinalityType, SumIsNumber
<1>2. 0 \in P
  BY <1>1, SizeZero
<1>3. ASSUME NEW n \in P PROVE n + 1 \in P
  <2> SUFFICES ASSUME NEW s \in SUBSET S, NEW y \in S, Cardinality(s) = n + 1, y \in s
               PROVE  Sum(s) = f[y] + Sum(s \ {y})
    OBVIOUS
  <2>1. Some(s) \in s
    BY SomeOf
  <2>2. Sum(s) = f[Some(s)] + Sum(s \ {Some(s)})
    BY <1>1, SumWithoutSome
  <2>3. CASE y = Some(s)
    BY <2>2, <2>3
  <2>4. CASE y # Some(s)
    <3> DEFINE both == (s \ {y}) \ {Some(s)}
    <3>1. both = (s \ {Some(s)}) \ {y}
      OBVIOUS
    <3>2. Cardinality(s \ {y}) = n /\ Cardinality(s \ {Some(s)}) = n
      BY <1>1, <2>1, SizeWithout
    <3>3. Sum(s \ {Some(s)}) = f[y] + Sum(both)
      BY <2>1, <2>4, <3>1, <3>2
    <3>4. Sum(s \ {y}) = f[Some(s)] + Sum(both)
      BY <2>1, <2>4, <3>2
    <3>5. Sum(both) \in Int /\ f[y] \in Int /\ f[Some(s)] \in Int
      BY <1>1, <2>1
    <3> HIDE DEF Sum, both
    <3> QED BY <2>2, <3>3, <3>4, <3>5
  <2> QED BY <2>3, <2>4
<1> HIDE DEF P
<1>4. Cardinality(S) \in P
  BY <1>1, <1>2, <1>3, NumbersInduction DEF P
<1> QED BY <1>4 DEF P

LEMMA SumWith ==
  ASSUME NEW f, NEW S, IsFiniteSet(S), \A y \in S : f[y] \in Int,
         NEW x, x \notin S, f[x] \in Int
  PROVE  SumFunctionOnSet(f, S \cup {x}) = f[x] + SumFunctionOnSet(f, S)
<1>1. IsFiniteSet(S \cup {x})
  BY FS_AddElement
<1>2. (S \cup {x}) \ {x} = S
  OBVIOUS
<1>3. \A y \in S \cup {x} : f[y] \in Int
  OBVIOUS
<1> QED BY <1>1, <1>2, <1>3, SumWithout

LEMMA SumSame ==
  ASSUME NEW f, NEW g, NEW S, IsFiniteSet(S), \A x \in S : f[x] \in Int /\ f[x] = g[x]
  PROVE  SumFunctionOnSet(f, S) = SumFunctionOnSet(g, S)
<1> DEFINE Same(T) == SumFunctionOnSet(f, T) = SumFunctionOnSet(g, T)
           F == {T \in SUBSET S : Same(T)}
<1>1. {} \in F
  BY SumOfNone
<1>2. ASSUME NEW T \in SUBSET S, NEW x \in S, T \in F, x \notin T PROVE T \cup {x} \in F
  <2>1. IsFiniteSet(T)
    BY FS_Subset
  <2>2. /\ SumFunctionOnSet(f, T \cup {x}) = f[x] + SumFunctionOnSet(f, T)
        /\ SumFunctionOnSet(g, T \cup {x}) = g[x] + SumFunctionOnSet(g, T)
    BY <1>2, <2>1, SumWith
  <2> QED BY <1>2, <2>2
<1> HIDE DEF F
<1>3. S \in F
  BY <1>1, <1>2, SubsetsInduction
<1> QED BY <1>3 DEF F

(* Term by term. *)
LEMMA SumPlus ==
  ASSUME NEW f, NEW g, NEW h, NEW S, IsFiniteSet(S),
         \A x \in S : f[x] \in Int /\ g[x] \in Int /\ h[x] = f[x] + g[x]
  PROVE  SumFunctionOnSet(h, S) = SumFunctionOnSet(f, S) + SumFunctionOnSet(g, S)
<1> DEFINE Adds(T) == SumFunctionOnSet(h, T) = SumFunctionOnSet(f, T) + SumFunctionOnSet(g, T)
           F == {T \in SUBSET S : Adds(T)}
<1>1. {} \in F
  BY SumOfNone
<1>2. ASSUME NEW T \in SUBSET S, NEW x \in S, T \in F, x \notin T PROVE T \cup {x} \in F
  <2>1. IsFiniteSet(T)
    BY FS_Subset
  <2>2. /\ SumFunctionOnSet(f, T \cup {x}) = f[x] + SumFunctionOnSet(f, T)
        /\ SumFunctionOnSet(g, T \cup {x}) = g[x] + SumFunctionOnSet(g, T)
        /\ SumFunctionOnSet(h, T \cup {x}) = h[x] + SumFunctionOnSet(h, T)
    BY <1>2, <2>1, SumWith
  <2>3. SumFunctionOnSet(f, T) \in Int /\ SumFunctionOnSet(g, T) \in Int
    BY <2>1, SumIsNumber
  <2>4. Adds(T)
    BY <1>2
  <2> QED BY <2>2, <2>3, <2>4
<1> HIDE DEF F
<1>3. S \in F
  BY <1>1, <1>2, SubsetsInduction
<1> QED BY <1>3 DEF F

LEMMA SumAtMost ==
  ASSUME NEW f, NEW g, NEW S, IsFiniteSet(S),
         \A x \in S : f[x] \in Int /\ g[x] \in Int /\ f[x] <= g[x]
  PROVE  SumFunctionOnSet(f, S) <= SumFunctionOnSet(g, S)
<1> DEFINE Below(T) == SumFunctionOnSet(f, T) <= SumFunctionOnSet(g, T)
           F == {T \in SUBSET S : Below(T)}
<1>1. {} \in F
  BY SumOfNone
<1>2. ASSUME NEW T \in SUBSET S, NEW x \in S, T \in F, x \notin T PROVE T \cup {x} \in F
  <2>1. IsFiniteSet(T)
    BY FS_Subset
  <2>2. /\ SumFunctionOnSet(f, T \cup {x}) = f[x] + SumFunctionOnSet(f, T)
        /\ SumFunctionOnSet(g, T \cup {x}) = g[x] + SumFunctionOnSet(g, T)
    BY <1>2, <2>1, SumWith
  <2>3. SumFunctionOnSet(f, T) \in Int /\ SumFunctionOnSet(g, T) \in Int
    BY <2>1, SumIsNumber
  <2>4. Below(T)
    BY <1>2
  <2> QED BY <2>2, <2>3, <2>4
<1> HIDE DEF F
<1>3. S \in F
  BY <1>1, <1>2, SubsetsInduction
<1> QED BY <1>3 DEF F

(* The sum of a constant is a product. *)
LEMMA SumConstant ==
  ASSUME NEW f, NEW c \in Int, NEW S, IsFiniteSet(S), \A x \in S : f[x] = c
  PROVE  SumFunctionOnSet(f, S) = c * Cardinality(S)
<1> DEFINE F == {T \in SUBSET S : SumFunctionOnSet(f, T) = c * Cardinality(T)}
<1>1. {} \in F
  BY SumOfNone, FS_EmptySet
<1>2. ASSUME NEW T \in SUBSET S, NEW x \in S, T \in F, x \notin T PROVE T \cup {x} \in F
  <2>1. IsFiniteSet(T)
    BY FS_Subset
  <2>2. SumFunctionOnSet(f, T \cup {x}) = c + SumFunctionOnSet(f, T)
    BY <1>2, <2>1, SumWith
  <2>3. Cardinality(T \cup {x}) = Cardinality(T) + 1 /\ Cardinality(T) \in Nat
    BY <1>2, <2>1, FS_AddElement, FS_CardinalityType
  <2>4. \A n \in Nat : c * (n + 1) = c + c * n
    OBVIOUS
  <2>5. c * Cardinality(T \cup {x}) = c + c * Cardinality(T)
    BY <2>3, <2>4
  <2>6. SumFunctionOnSet(f, T) = c * Cardinality(T)
    BY <1>2
  <2>7. SumFunctionOnSet(f, T \cup {x}) = c * Cardinality(T \cup {x})
    BY <2>2, <2>5, <2>6
  <2> QED BY <2>7
<1> HIDE DEF F
<1>3. S \in F
  BY <1>1, <1>2, SubsetsInduction
<1> QED BY <1>3 DEF F

(* A factor is taken out. *)
LEMMA SumTimes ==
  ASSUME NEW f, NEW g, NEW c \in Int, NEW S, IsFiniteSet(S),
         \A x \in S : f[x] \in Int /\ g[x] = c * f[x]
  PROVE  SumFunctionOnSet(g, S) = c * SumFunctionOnSet(f, S)
<1> DEFINE F == {T \in SUBSET S : SumFunctionOnSet(g, T) = c * SumFunctionOnSet(f, T)}
<1>1. {} \in F
  BY SumOfNone
<1>2. ASSUME NEW T \in SUBSET S, NEW x \in S, T \in F, x \notin T PROVE T \cup {x} \in F
  <2>1. IsFiniteSet(T)
    BY FS_Subset
  <2>0. \A y \in S : g[y] \in Int
    OBVIOUS
  <2>2. /\ SumFunctionOnSet(f, T \cup {x}) = f[x] + SumFunctionOnSet(f, T)
        /\ SumFunctionOnSet(g, T \cup {x}) = g[x] + SumFunctionOnSet(g, T)
    BY <1>2, <2>0, <2>1, SumWith
  <2>3. SumFunctionOnSet(f, T) \in Int /\ f[x] \in Int /\ g[x] = c * f[x]
    BY <2>1, SumIsNumber
  <2>4. \A m, n \in Int : c * (m + n) = c * m + c * n
    OBVIOUS
  <2>5. c * SumFunctionOnSet(f, T \cup {x}) = c * f[x] + c * SumFunctionOnSet(f, T)
    BY <2>2, <2>3, <2>4
  <2>6. SumFunctionOnSet(g, T) = c * SumFunctionOnSet(f, T)
    BY <1>2
  <2>7. SumFunctionOnSet(g, T \cup {x}) = c * SumFunctionOnSet(f, T \cup {x})
    BY <2>2, <2>3, <2>5, <2>6
  <2> QED BY <2>7
<1> HIDE DEF F
<1>3. S \in F
  BY <1>1, <1>2, SubsetsInduction
<1> QED BY <1>3 DEF F

(* The sum over a part is that of the terms which are not zeroed. *)
LEMMA SumOfPart ==
  ASSUME NEW f, NEW g, NEW S, IsFiniteSet(S), NEW B \in SUBSET S,
         \A x \in S : g[x] \in Int /\ (x \in B => g[x] = f[x]) /\ (x \notin B => g[x] = 0)
  PROVE  SumFunctionOnSet(g, S) = SumFunctionOnSet(f, B)
<1> DEFINE F == {T \in SUBSET S : SumFunctionOnSet(g, T) = SumFunctionOnSet(f, T \cap B)}
<1>1. {} \in F
  <2>1. {} \cap B = {}
    OBVIOUS
  <2> QED BY <2>1, SumOfNone
<1>2. ASSUME NEW T \in SUBSET S, NEW x \in S, T \in F, x \notin T PROVE T \cup {x} \in F
  <2>1. IsFiniteSet(T) /\ IsFiniteSet(T \cap B)
    BY FS_Subset
  <2>2. SumFunctionOnSet(g, T \cup {x}) = g[x] + SumFunctionOnSet(g, T)
    BY <1>2, <2>1, SumWith
  <2>3. SumFunctionOnSet(g, T) \in Int
    BY <2>1, SumIsNumber
  <2>4. SumFunctionOnSet(g, T) = SumFunctionOnSet(f, T \cap B)
    BY <1>2
  <2>5. CASE x \in B
    <3>1. (T \cup {x}) \cap B = (T \cap B) \cup {x}
      BY <2>5
    <3>2. \A y \in (T \cap B) \cup {x} : f[y] \in Int
      BY <2>5
    <3>3. SumFunctionOnSet(f, (T \cap B) \cup {x}) = f[x] + SumFunctionOnSet(f, T \cap B)
      BY <1>2, <2>1, <3>2, SumWith
    <3>4. SumFunctionOnSet(g, T \cup {x}) = SumFunctionOnSet(f, (T \cup {x}) \cap B)
      BY <2>2, <2>4, <2>5, <3>1, <3>3
    <3> QED BY <3>4
  <2>6. CASE x \notin B
    <3>1. (T \cup {x}) \cap B = T \cap B
      BY <2>6
    <3>2. SumFunctionOnSet(g, T \cup {x}) = SumFunctionOnSet(g, T)
      BY <2>2, <2>3, <2>6
    <3>3. SumFunctionOnSet(g, T \cup {x}) = SumFunctionOnSet(f, (T \cup {x}) \cap B)
      BY <2>4, <3>1, <3>2
    <3> QED BY <3>3
  <2> QED BY <2>5, <2>6
<1> HIDE DEF F
<1>3. S \in F
  BY <1>1, <1>2, SubsetsInduction
<1>4. S \cap B = B
  OBVIOUS
<1> QED BY <1>3, <1>4 DEF F

(* Counted twice: by what each of U has, or by how many of U have it. *)
Having(U, A, r) == {s \in U : r \in A[s]}

Counted(U, A, R, c) == [r \in R |-> Cardinality(Having(U, A, r)) * c[r]]

LEMMA CountedIsNumber ==
  ASSUME NEW U, IsFiniteSet(U), NEW A, NEW R, NEW c, NEW r \in R, c[r] \in Int
  PROVE  /\ IsFiniteSet(Having(U, A, r)) /\ Cardinality(Having(U, A, r)) \in Nat
         /\ Counted(U, A, R, c)[r] = Cardinality(Having(U, A, r)) * c[r]
         /\ Counted(U, A, R, c)[r] \in Int
<1>1. IsFiniteSet(Having(U, A, r))
  BY FS_Subset DEF Having
<1>2. Cardinality(Having(U, A, r)) \in Nat
  BY <1>1, FS_CardinalityType
<1>3. Counted(U, A, R, c)[r] = Cardinality(Having(U, A, r)) * c[r]
  BY DEF Counted
<1> QED BY <1>1, <1>2, <1>3

LEMMA CountedWith ==
  ASSUME NEW U, IsFiniteSet(U), NEW A, NEW R, NEW c, NEW r \in R, c[r] \in Int,
         NEW x, x \notin U
  PROVE  Counted(U \cup {x}, A, R, c)[r]
           = Counted(U, A, R, c)[r] + (IF r \in A[x] THEN c[r] ELSE 0)
<1>0. IsFiniteSet(U \cup {x})
  BY FS_AddElement
<1>1. /\ IsFiniteSet(Having(U, A, r)) /\ Cardinality(Having(U, A, r)) \in Nat
      /\ Counted(U, A, R, c)[r] = Cardinality(Having(U, A, r)) * c[r]
      /\ Counted(U, A, R, c)[r] \in Int
  BY CountedIsNumber
<1>4. Counted(U \cup {x}, A, R, c)[r] = Cardinality(Having(U \cup {x}, A, r)) * c[r]
  BY <1>0, CountedIsNumber
<1>2. CASE r \in A[x]
  <2>1. Having(U \cup {x}, A, r) = Having(U, A, r) \cup {x} /\ x \notin Having(U, A, r)
    BY <1>2 DEF Having
  <2>2. Cardinality(Having(U \cup {x}, A, r)) = Cardinality(Having(U, A, r)) + 1
    BY <1>1, <2>1, FS_AddElement
  <2>3. \A k \in Nat, d \in Int : (k + 1) * d = k * d + d
    OBVIOUS
  <2> QED BY <1>1, <1>2, <1>4, <2>2, <2>3
<1>3. CASE r \notin A[x]
  <2>1. Having(U \cup {x}, A, r) = Having(U, A, r)
    BY <1>3 DEF Having
  <2> QED BY <1>1, <1>3, <1>4, <2>1
<1> QED BY <1>2, <1>3

LEMMA CountedPlus ==
  ASSUME NEW T, IsFiniteSet(T), NEW A, NEW R, NEW c, \A r \in R : c[r] \in Int,
         NEW x, x \notin T, NEW before, before = Counted(T, A, R, c),
         NEW after, after = Counted(T \cup {x}, A, R, c),
         NEW e, e = [r \in R |-> IF r \in A[x] THEN c[r] ELSE 0]
  PROVE  \A r \in R : before[r] \in Int /\ e[r] \in Int /\ after[r] = before[r] + e[r]
<1> SUFFICES ASSUME NEW r \in R
             PROVE  before[r] \in Int /\ e[r] \in Int /\ after[r] = before[r] + e[r]
  OBVIOUS
<1>1. before[r] \in Int
  BY CountedIsNumber
<1>2. Counted(T \cup {x}, A, R, c)[r]
        = Counted(T, A, R, c)[r] + (IF r \in A[x] THEN c[r] ELSE 0)
  BY CountedWith
<1>3. e[r] = (IF r \in A[x] THEN c[r] ELSE 0) /\ e[r] \in Int
  OBVIOUS
<1> QED BY <1>1, <1>2, <1>3

LEMMA DoubleCount ==
  ASSUME NEW U, IsFiniteSet(U), NEW R, IsFiniteSet(R), NEW A, \A s \in U : A[s] \subseteq R,
         NEW c, \A r \in R : c[r] \in Int,
         NEW total, \A s \in U : total[s] = SumFunctionOnSet(c, A[s])
  PROVE  SumFunctionOnSet(total, U) = SumFunctionOnSet(Counted(U, A, R, c), R)
<1> DEFINE Is(T) == SumFunctionOnSet(total, T) = SumFunctionOnSet(Counted(T, A, R, c), R)
           F == {T \in SUBSET U : Is(T)}
<1>1. \A T \in SUBSET U : IsFiniteSet(T)
  BY FS_Subset
<1>2. \A T \in SUBSET U, r \in R : Counted(T, A, R, c)[r] \in Int
  BY <1>1, CountedIsNumber
<1>3. \A s \in U : IsFiniteSet(A[s]) /\ A[s] \in SUBSET R
  BY FS_Subset
<1>4. \A s \in U : total[s] \in Int
  BY <1>3, SumIsNumber
<1>5. {} \in F
  <2>1. \A r \in R : Having({}, A, r) = {}
    BY DEF Having
  <2>2. PICK none : none = Counted({}, A, R, c)
    OBVIOUS
  <2>3. ASSUME NEW r \in R PROVE none[r] = 0
    <3>1. none[r] = Cardinality(Having({}, A, r)) * c[r]
      BY <2>2, CountedIsNumber, FS_EmptySet
    <3>2. none[r] = 0 * c[r] /\ c[r] \in Int
      BY <2>1, <3>1, FS_EmptySet
    <3> QED BY <3>2
  <2>6. SumFunctionOnSet(Counted({}, A, R, c), R) = 0 * Cardinality(R)
    BY <2>2, <2>3, SumConstant
  <2>4. Cardinality(R) \in Nat
    BY FS_CardinalityType
  <2>5. Is({})
    BY <2>4, <2>6, SumOfNone
  <2> QED BY <2>5
<1>6. ASSUME NEW T \in SUBSET U, NEW x \in U, T \in F, x \notin T PROVE T \cup {x} \in F
  <2>1. PICK e : e = [r \in R |-> IF r \in A[x] THEN c[r] ELSE 0]
    OBVIOUS
  <2>2. SumFunctionOnSet(e, R) = SumFunctionOnSet(c, A[x])
    BY <1>3, <2>1, SumOfPart
  <2>3. PICK before, after : before = Counted(T, A, R, c) /\ after = Counted(T \cup {x}, A, R, c)
    OBVIOUS
  <2>9. \A r \in R : before[r] \in Int /\ e[r] \in Int /\ after[r] = before[r] + e[r]
    <3>1. IsFiniteSet(T) /\ x \notin T
      BY <1>1, <1>6
    <3> HIDE DEF F
    <3> QED BY <2>1, <2>3, <3>1, CountedPlus
  <2>4. SumFunctionOnSet(after, R) = SumFunctionOnSet(before, R) + SumFunctionOnSet(e, R)
    BY <2>9, SumPlus
  <2>5. SumFunctionOnSet(total, T \cup {x}) = total[x] + SumFunctionOnSet(total, T)
    BY <1>1, <1>4, <1>6, SumWith
  <2>6. SumFunctionOnSet(before, R) \in Int /\ total[x] \in Int
    BY <1>4, <2>9, SumIsNumber
  <2>7. SumFunctionOnSet(total, T) = SumFunctionOnSet(Counted(T, A, R, c), R)
    BY <1>6
  <2>8. SumFunctionOnSet(total, T \cup {x}) = SumFunctionOnSet(Counted(T \cup {x}, A, R, c), R)
    BY <2>2, <2>3, <2>4, <2>5, <2>6, <2>7
  <2> QED BY <2>8
<1> HIDE DEF F
<1>7. U \in F
  BY <1>5, <1>6, SubsetsInduction
<1> QED BY <1>7 DEF F

-----------------------------------------------------------------------------
(* The anomalies, and the scans and updates that write them.               *)

USE AnomaliesAssumption

(* Some of the candidates are candidates. *)
LEMMA Remaining ==
  ASSUME NEW f \in Candidates, NEW S PROVE Without(f, S) \in Candidates
<1>1. PICK T \in SUBSET Ids : f \in [T -> Evidence]
  BY DEF Candidates
<1>2. Without(f, S) \in [T \ S -> Evidence]
  BY <1>1 DEF Without
<1> QED BY <1>2 DEF Candidates

LEMMA NoneLeft == NoCandidates \in Candidates
<1>1. NoCandidates \in [{} -> Evidence]
  BY DEF NoCandidates
<1> QED BY <1>1 DEF Candidates

LEMMA CandidateIn ==
  ASSUME NEW f \in Candidates, NEW i \in DOMAIN f PROVE i \in Ids /\ f[i] \in Evidence
BY DEF Candidates

(* One candidate is next. *)
LEMMA NextIsOne ==
  ASSUME TypeOK, NEW s \in Scans, NEW i \in Ids, NEW j \in Ids, IsNext(s, i), IsNext(s, j)
  PROVE  i = j
BY DEF IsNext, Ids

(* What Request and Anomaly are made of. *)
LEMMA Shapes ==
  /\ None \notin Anomaly /\ None \notin Request
  /\ \A r \in Request : r.on \in Ids /\ r.status \in AnomalyStatus /\ r.key \in Keys
  /\ \A a \in Anomaly : a.status \in AnomalyStatus /\ a.evidence \in Evidence
BY DEF Request, Anomaly

LEMMA InvInit == Init => TypeOK /\ Inv
<1> SUFFICES ASSUME Init PROVE TypeOK /\ Inv
  OBVIOUS
<1>1. TypeOK
  BY NoneLeft DEF Init, TypeOK, NoRows, Callers
<1>2. Inv
  BY DEF Init, Inv, UpdateHolds, ScanHolds, LocksExclusive, OneAnnounces, AnnouncedOnce,
    VerdictSuppresses, NoRows, Callers
<1> QED BY <1>1, <1>2
-----------------------------------------------------------------------------
Locals ==
  /\ pc' \in [Callers -> {"idle", "suppressions", "visit", "insert", "refresh",
                         "lookup", "read", "write", "suppress", "store",
                         "commit", "publish"}]
  /\ req' \in [Users -> Request \cup {None}]
  /\ found' \in [Scans -> Candidates]
  /\ own' \in [Callers -> [Ids -> Anomaly \cup {None}]]
  /\ created' \in [Scans -> SUBSET Ids]

LEMMA EndsType ==
  /\ \A s \in Scans : TypeOK /\ EndScan(s) => Locals
  /\ \A u \in Users : TypeOK /\ EndUpdate(u) => Locals
<1>1. NoRows \in [Ids -> Anomaly \cup {None}]
  BY DEF NoRows
<1>2. ASSUME NEW s \in Scans, TypeOK, EndScan(s) PROVE Locals
  <2>1. found' \in [Scans -> Candidates]
    BY <1>2, NoneLeft DEF TypeOK, EndScan
  <2>2. own' \in [Callers -> [Ids -> Anomaly \cup {None}]]
    BY <1>1, <1>2 DEF TypeOK, EndScan
  <2> QED BY <1>2, <2>1, <2>2 DEF TypeOK, EndScan, Goto, Callers, Locals
<1>3. ASSUME NEW u \in Users, TypeOK, EndUpdate(u) PROVE Locals
  <2>1. own' \in [Callers -> [Ids -> Anomaly \cup {None}]]
    BY <1>1, <1>3 DEF TypeOK, EndUpdate
  <2> QED BY <1>3, <2>1 DEF TypeOK, EndUpdate, Goto, Callers, Locals
<1> QED BY <1>2, <1>3

LEMMA ThrowType ==
  ASSUME TypeOK, NEW c \in Callers, Throw(c) PROVE TypeOK'
<1>1. Locals
  BY EndsType DEF Throw, Callers
<1> QED BY <1>1 DEF Locals, Throw, TypeOK, tables

(* The rows and the answer of a commit are of their types. *)
LEMMA CommitRowsType ==
  ASSUME TypeOK, NEW c \in Callers, CommitRows(c)
  PROVE  anomalies' \in [Ids -> Anomaly \cup {None}]
<1>1. own[c] \in [Ids -> Anomaly \cup {None}] /\ anomalies \in [Ids -> Anomaly \cup {None}]
  BY DEF TypeOK
<1>2. \A i \in Ids : (IF own[c][i] = None THEN anomalies[i] ELSE own[c][i])
                      \in Anomaly \cup {None}
  BY <1>1
<1> QED BY <1>2 DEF CommitRows

LEMMA WriteType ==
  ASSUME TypeOK, NEW c \in Callers, NEW i \in Ids, NEW row \in Anomaly, Write(c, i, row)
  PROVE  own' \in [Callers -> [Ids -> Anomaly \cup {None}]]
BY DEF TypeOK, Write

LEMMA TypeStep == TypeOK /\ Inv /\ [Next]_vars => TypeOK'
<1> SUFFICES ASSUME TypeOK, Inv, [Next]_vars PROVE TypeOK'
  OBVIOUS
<1> USE DEF tables, Goto, Callers
<1>1. ASSUME NEW s \in Scans, LoadRecords(s) PROVE TypeOK'
  BY <1>1 DEF LoadRecords, TypeOK
<1>2. ASSUME NEW s \in Scans, FilterSuppressed(s) PROVE TypeOK'
  BY <1>2, Remaining DEF FilterSuppressed, TypeOK
<1>3. ASSUME NEW s \in Scans, LookUp(s) PROVE TypeOK'
  BY <1>3 DEF LookUp, TypeOK
<1>4. ASSUME NEW s \in Scans, PassOver(s) PROVE TypeOK'
  BY <1>4, Remaining DEF PassOver, Visited, TypeOK
<1>5. ASSUME NEW s \in Scans, Insert(s) PROVE TypeOK'
  <2>1. PICK i \in Ids :
          /\ IsNext(s, i) /\ Write(s, i, [status |-> "open", evidence |-> found[s][i]])
          /\ created' = [created EXCEPT ![s] = @ \cup {i}]
          /\ Visited(s, i)
    BY <1>5 DEF Insert
  <2>2. [status |-> "open", evidence |-> found[s][i]] \in Anomaly
    BY <2>1, CandidateIn DEF TypeOK, IsNext, Anomaly, AnomalyStatus
  <2>3. own' \in [Callers -> [Ids -> Anomaly \cup {None}]]
    BY <2>1, <2>2, WriteType
  <2>4. found' \in [Scans -> Candidates] /\ created' \in [Scans -> SUBSET Ids]
    BY <2>1, Remaining DEF Visited, TypeOK
  <2> QED BY <1>5, <2>3, <2>4 DEF Insert, TypeOK
<1>6. ASSUME NEW s \in Scans, Refresh(s) PROVE TypeOK'
  <2>1. PICK i \in Ids :
          /\ IsNext(s, i) /\ Write(s, i, [anomalies[i] EXCEPT !.evidence = found[s][i]])
          /\ Visited(s, i)
    BY <1>6 DEF Refresh
  <2>2. anomalies[i] \in Anomaly
    BY <1>6, <2>1 DEF Refresh, Inv, ScanHolds, TypeOK
  <2>3. [anomalies[i] EXCEPT !.evidence = found[s][i]] \in Anomaly
    BY <2>1, <2>2, CandidateIn DEF TypeOK, IsNext, Anomaly
  <2>4. own' \in [Callers -> [Ids -> Anomaly \cup {None}]]
    BY <2>1, <2>3, WriteType
  <2>5. found' \in [Scans -> Candidates]
    BY <2>1, Remaining DEF Visited, TypeOK
  <2> QED BY <1>6, <2>4, <2>5 DEF Refresh, TypeOK
<1>7. ASSUME NEW s \in Scans, CommitScan(s) PROVE TypeOK'
  BY <1>7, CommitRowsType DEF CommitScan, TypeOK, NoRows
<1>8. ASSUME NEW s \in Scans, Publish(s) PROVE TypeOK'
  BY <1>8 DEF Publish, TypeOK
<1>9. ASSUME NEW s \in Scans, ScanEnds(s) PROVE TypeOK'
  BY <1>9, EndsType DEF ScanEnds, Locals, TypeOK
<1>10. ASSUME NEW u \in Users, UpdateStatus(u) PROVE TypeOK'
  BY <1>10 DEF UpdateStatus, TypeOK
<1>11. ASSUME NEW u \in Users, Replay(u) PROVE TypeOK'
  BY <1>11, EndsType DEF Replay, Locals, TypeOK
<1>12. ASSUME NEW u \in Users, KeyNotFound(u) \/ AnomalyFound(u) \/ Suppress(u) \/ StoreAnswer(u)
       PROVE  TypeOK'
  BY <1>12 DEF KeyNotFound, AnomalyFound, Suppress, StoreAnswer, TypeOK
<1>13. ASSUME NEW u \in Users, SetStatus(u) PROVE TypeOK'
  <2>1. req[u] \in Request /\ anomalies[req[u].on] \in Anomaly
    BY <1>13, Shapes DEF SetStatus, Inv, UpdateHolds, TypeOK
  <2>2. [anomalies[req[u].on] EXCEPT !.status = req[u].status] \in Anomaly
    BY <2>1, Shapes DEF Anomaly
  <2>3. own' \in [Callers -> [Ids -> Anomaly \cup {None}]]
    BY <1>13, <2>1, <2>2, Shapes, WriteType DEF SetStatus
  <2> QED BY <1>13, <2>3 DEF SetStatus, TypeOK
<1>14. ASSUME NEW u \in Users, CommitUpdate(u) PROVE TypeOK'
  <2>1. req[u] \in Request /\ own[u][req[u].on] \in Anomaly
    BY <1>14, Shapes DEF CommitUpdate, Inv, UpdateHolds, TypeOK
  <2>2. anomalies' \in [Ids -> Anomaly \cup {None}]
    BY <1>14, CommitRowsType DEF CommitUpdate
  <2>3. answers' \in [Keys -> Anomaly \cup {None}] /\ suppressed' \subseteq Ids
    BY <1>14, <2>1, Shapes DEF CommitUpdate, TypeOK
  <2>4. Locals
    BY <1>14, EndsType DEF CommitUpdate
  <2> QED BY <1>14, <2>2, <2>3, <2>4 DEF CommitUpdate, Locals, TypeOK
<1>15. CASE UNCHANGED vars
  BY <1>15 DEF vars, TypeOK
<1> QED
  BY <1>1, <1>2, <1>3, <1>4, <1>5, <1>6, <1>7, <1>8, <1>9, <1>10, <1>11, <1>12, <1>13,
     <1>14, <1>15, ThrowType
  DEF Next, Step, Fails, InsertConflicts, RefreshFindsNone, AnomalyNotFound
-----------------------------------------------------------------------------
(* The conditions of Inv on the callers other than c, when c's own state is *)
(* all that changes.                                                        *)
Others(c) ==
  \A d \in Callers \ {c} :
    /\ pc'[d] = pc[d] /\ own'[d] = own[d]
    /\ d \in Users => req'[d] = req[d]
    /\ d \in Scans => created'[d] = created[d] /\ found'[d] = found[d]

LEMMA EndsOthers ==
  /\ \A s \in Scans : TypeOK /\ EndScan(s) =>
       /\ Others(s) /\ pc'[s] = "idle" /\ created'[s] = {} /\ own'[s] = NoRows
  /\ \A u \in Users : TypeOK /\ EndUpdate(u) =>
       /\ Others(u) /\ pc'[u] = "idle" /\ own'[u] = NoRows
BY DEF TypeOK, EndScan, EndUpdate, Goto, Callers, Others

(* A scan or an update that rolls back, or ends, holds nothing. *)
LEMMA ThrowInv ==
  ASSUME TypeOK, Inv, NEW c \in Callers, Throw(c) PROVE Inv'
<1>1. Others(c) /\ pc'[c] = "idle" /\ own'[c] = NoRows /\ (c \in Scans => created'[c] = {})
      /\ UNCHANGED <<tables, events>>
  BY EndsOthers DEF Throw, Callers
<1>2. \A u \in Users : UpdateHolds(u)'
  BY <1>1 DEF Inv, UpdateHolds, Others, Callers, NoRows, tables
<1>3. \A s \in Scans : ScanHolds(s)'
  BY <1>1 DEF Inv, ScanHolds, Others, Callers, NoRows, tables, Reviewed, IsNext
<1>4. LocksExclusive'
  BY <1>1 DEF Inv, LocksExclusive, Others, NoRows
<1>5. OneAnnounces' /\ AnnouncedOnce'
  BY <1>1 DEF Inv, OneAnnounces, AnnouncedOnce, Others, Callers, tables
<1>6. VerdictSuppresses'
  BY <1>1 DEF Inv, VerdictSuppresses, tables
<1> QED BY <1>2, <1>3, <1>4, <1>5, <1>6 DEF Inv

(* A scan writes rows that no other has written, and inserts none that is   *)
(* there.                                                                   *)
LEMMA WriteInv ==
  ASSUME TypeOK, Inv, NEW s \in Scans, NEW i \in Ids, NEW row \in Anomaly,
         IsNext(s, i), Blockers(s, i) = {}, Write(s, i, row), Visited(s, i),
         row.status = "open", ~Reviewed(i),
         pc[s] = "insert" => anomalies[i] = None,
         created' = [created EXCEPT ![s] = IF pc[s] = "insert" THEN @ \cup {i} ELSE @],
         pc[s] \in {"insert", "refresh"}, pc' = [pc EXCEPT ![s] = "visit"],
         UNCHANGED <<tables, events, req>>
  PROVE  Inv'
<1>1. /\ own'[s][i] = row /\ row # None
      /\ \A j \in Ids : j # i => own'[s][j] = own[s][j]
  BY Shapes DEF Write, TypeOK, Callers
<1>2. Others(s) /\ pc'[s] = "visit"
  BY DEF Others, TypeOK, Callers, Write, Visited
<1>3. \A u \in Users : UpdateHolds(u)'
  BY <1>2 DEF Inv, UpdateHolds, Others, Callers, tables
<1>4. created'[s] = IF pc[s] = "insert" THEN created[s] \cup {i} ELSE created[s]
  BY DEF TypeOK
<1>5. pc[s] = "refresh" => anomalies[i] # None
  BY DEF Inv, ScanHolds
<1>6. i \in created'[s] <=> anomalies[i] = None
  BY <1>4, <1>5 DEF Inv, ScanHolds
<1>7. ScanHolds(s)'
  BY <1>1, <1>2, <1>4, <1>6 DEF Inv, ScanHolds, tables, Reviewed
<1>8. \A t \in Scans \ {s} : ScanHolds(t)'
  BY <1>2 DEF Inv, ScanHolds, Others, Callers, tables, Reviewed, IsNext
<1>9. LocksExclusive'
  BY <1>1, <1>2 DEF Inv, LocksExclusive, Others, Blockers
<1>10. OneAnnounces' /\ AnnouncedOnce'
  BY <1>2 DEF Inv, OneAnnounces, AnnouncedOnce, Others, Callers, tables
<1>11. VerdictSuppresses'
  BY DEF Inv, VerdictSuppresses, tables
<1> QED BY <1>3, <1>7, <1>8, <1>9, <1>10, <1>11 DEF Inv

(* A scan's rows are of anomalies that are open or new. *)
LEMMA CommitScanInv ==
  ASSUME TypeOK, Inv, NEW s \in Scans, CommitScan(s) PROVE Inv'
<1>1. Others(s) /\ pc'[s] = "publish" /\ own'[s] = NoRows /\ created' = created
      /\ UNCHANGED <<suppressed, events, req>>
  BY DEF CommitScan, Others, TypeOK, Callers, Goto
<1>2. \A i \in Ids :
        anomalies'[i] = IF own[s][i] = None THEN anomalies[i] ELSE own[s][i]
  BY DEF CommitScan, CommitRows
<1>3. \A i \in Ids : own[s][i] # None =>
        own[s][i].status = "open" /\ ~Reviewed(i) /\ (i \in created[s] <=> anomalies[i] = None)
  BY DEF Inv, ScanHolds
<1>4. \A i \in Ids, d \in Callers \ {s} : own[d][i] # None => anomalies'[i] = anomalies[i]
  BY <1>2 DEF Inv, LocksExclusive, Callers
<1>5. \A u \in Users : UpdateHolds(u)'
  <2> SUFFICES ASSUME NEW u \in Users PROVE UpdateHolds(u)'
    OBVIOUS
  <2>1. u # s /\ u \in Callers
    BY DEF Callers
  <2>2. req[u] # None => req[u].on \in Ids
    BY Shapes DEF TypeOK
  <2> QED BY <1>1, <1>2, <1>4, <2>1, <2>2 DEF Inv, UpdateHolds, Others
<1>6. \A i \in created[s] : own[s][i] # None /\ anomalies[i] = None /\ events[i] = 0
  BY DEF CommitScan, Inv, ScanHolds, AnnouncedOnce, TypeOK
<1>7. ScanHolds(s)'
  BY <1>1, <1>2, <1>6 DEF ScanHolds, NoRows, TypeOK
<1>8. \A t \in Scans \ {s} : ScanHolds(t)'
  <2> SUFFICES ASSUME NEW t \in Scans \ {s}, NEW i \in Ids
               PROVE  /\ pc'[t] = "refresh" /\ IsNext(t, i)' => anomalies'[i] # None
                      /\ own'[t][i] # None => /\ pc'[t] \in {"visit", "insert", "refresh"}
                                              /\ own'[t][i].status = "open" /\ ~Reviewed(i)'
                                              /\ i \in created'[t] <=> anomalies'[i] = None
                      /\ i \in created'[t] => IF pc'[t] = "publish"
                                               THEN anomalies'[i] # None /\ events'[i] = 0
                                               ELSE own'[t][i] # None
    BY DEF ScanHolds
  <2>1. t \in Callers /\ t # s
    BY DEF Callers
  <2>2. pc'[t] = pc[t] /\ own'[t] = own[t] /\ created'[t] = created[t] /\ found'[t] = found[t]
    BY <1>1, <2>1 DEF Others
  <2> QED BY <1>1, <1>2, <1>4, <2>1, <2>2 DEF Inv, ScanHolds, IsNext, Reviewed
<1>9. LocksExclusive'
  BY <1>1 DEF Inv, LocksExclusive, Others, NoRows
<1>10. OneAnnounces'
  <2> SUFFICES ASSUME NEW t \in Scans \ {s}, pc[t] = "publish" PROVE created[s] \cap created[t] = {}
    BY <1>1 DEF Inv, OneAnnounces, Others, Callers
  <2> QED BY <1>6 DEF Inv, ScanHolds, TypeOK
<1>11. AnnouncedOnce'
  BY <1>1, <1>2, <1>6 DEF Inv, AnnouncedOnce, Others, Callers, TypeOK
<1>12. VerdictSuppresses'
  BY <1>1, <1>2, <1>3 DEF Inv, VerdictSuppresses
<1> QED BY <1>5, <1>7, <1>8, <1>9, <1>10, <1>11, <1>12 DEF Inv

(* Each anomaly of a scan is published once, since it is struck off. *)
LEMMA PublishInv ==
  ASSUME TypeOK, Inv, NEW s \in Scans, Publish(s) PROVE Inv'
<1>1. PICK i \in created[s] :
        /\ events' = [events EXCEPT ![i] = @ + 1]
        /\ created' = [created EXCEPT ![s] = @ \ {i}]
  BY DEF Publish
<1>2. i \in Ids /\ created'[s] = created[s] \ {i}
      /\ \A t \in Scans \ {s} : created'[t] = created[t]
  BY <1>1 DEF TypeOK
<1>3. events'[i] = events[i] + 1 /\ \A j \in Ids : j # i => events'[j] = events[j]
  BY <1>1, <1>2 DEF TypeOK
<1>4. UNCHANGED <<tables, pc, req, found, own>> /\ pc[s] = "publish"
  BY DEF Publish
<1>5. events[i] = 0 /\ anomalies[i] # None
  BY <1>2, <1>4 DEF Inv, ScanHolds
<1>6. \A t \in Scans \ {s} : pc[t] = "publish" => i \notin created[t]
  BY <1>2, <1>4 DEF Inv, OneAnnounces
<1>7. \A u \in Users : UpdateHolds(u)'
  BY <1>4 DEF Inv, UpdateHolds, tables
<1>8. \A j \in Ids : own[s][j] = None
  BY <1>4 DEF Inv, ScanHolds
<1>9. ScanHolds(s)'
  BY <1>2, <1>3, <1>4, <1>8 DEF Inv, ScanHolds, tables
<1>10. \A t \in Scans \ {s} : ScanHolds(t)'
  BY <1>2, <1>3, <1>4, <1>6 DEF Inv, ScanHolds, tables, Reviewed, IsNext
<1>11. LocksExclusive' /\ VerdictSuppresses'
  BY <1>4 DEF Inv, LocksExclusive, VerdictSuppresses, tables
<1>12. OneAnnounces'
  BY <1>2, <1>4 DEF Inv, OneAnnounces
<1>13. AnnouncedOnce'
  BY <1>2, <1>3, <1>4, <1>5, <1>6 DEF Inv, AnnouncedOnce, tables
<1> QED BY <1>7, <1>9, <1>10, <1>11, <1>12, <1>13 DEF Inv

(* An update writes the status alone, of a row that no other has written. *)
LEMMA SetStatusInv ==
  ASSUME TypeOK, Inv, NEW u \in Users, SetStatus(u) PROVE Inv'
<1> DEFINE i == req[u].on
<1>1. req[u] \in Request /\ i \in Ids /\ anomalies[i] \in Anomaly
  BY Shapes DEF SetStatus, Inv, UpdateHolds, TypeOK
<1>2. own'[u][i] = [anomalies[i] EXCEPT !.status = req[u].status]
      /\ \A j \in Ids : j # i => own'[u][j] = own[u][j]
  BY <1>1 DEF SetStatus, Write, TypeOK, Callers
<1>3. own'[u][i] \in Anomaly /\ own'[u][i].status = req[u].status
      /\ own'[u][i].evidence = anomalies[i].evidence
  BY <1>1, <1>2, Shapes DEF Anomaly
<1>4. Others(u) /\ pc'[u] \in {"suppress", "store"} /\ UNCHANGED <<tables, events, req>>
  BY DEF SetStatus, Others, TypeOK, Callers, Goto, Write
<1>5. UpdateHolds(u)'
  BY <1>1, <1>2, <1>3, <1>4, Shapes DEF Inv, UpdateHolds, SetStatus, tables
<1>6. \A v \in Users \ {u} : UpdateHolds(v)'
  BY <1>4 DEF Inv, UpdateHolds, Others, Callers, tables
<1>7. \A s \in Scans : ScanHolds(s)'
  BY <1>4 DEF Inv, ScanHolds, Others, Callers, tables, Reviewed, IsNext
<1>8. LocksExclusive'
  BY <1>1, <1>2, <1>4 DEF Inv, LocksExclusive, Others, SetStatus, Blockers
<1>9. OneAnnounces' /\ AnnouncedOnce' /\ VerdictSuppresses'
  BY <1>4 DEF Inv, OneAnnounces, AnnouncedOnce, VerdictSuppresses, Others, Callers, tables
<1> QED BY <1>5, <1>6, <1>7, <1>8, <1>9 DEF Inv

(* An update gives its anomaly the status of its request, and with a false  *)
(* positive the suppression.                                                *)
LEMMA CommitUpdateRow ==
  ASSUME TypeOK, Inv, NEW u \in Users, CommitUpdate(u)
  PROVE  LET i == req[u].on
         IN  /\ pc[u] = "commit" /\ i \in Ids /\ anomalies[i] # None
             /\ anomalies'[i] # None /\ anomalies'[i].status = req[u].status
             /\ anomalies'[i].evidence = anomalies[i].evidence
             /\ own[u][i] # None
             /\ \A j \in Ids : j # i => anomalies'[j] = anomalies[j]
             /\ suppressed' = suppressed \cup
                  (IF req[u].status = "false_positive" THEN {i} ELSE {})
<1>1. req[u] \in Request /\ req[u].on \in Ids
  BY Shapes DEF CommitUpdate, Inv, UpdateHolds, TypeOK
<1>2. \A i \in Ids :
        anomalies'[i] = IF own[u][i] = None THEN anomalies[i] ELSE own[u][i]
  BY DEF CommitUpdate, CommitRows
<1> QED BY <1>1, <1>2 DEF CommitUpdate, Inv, UpdateHolds

LEMMA CommitUpdateInv ==
  ASSUME TypeOK, Inv, NEW u \in Users, CommitUpdate(u) PROVE Inv'
<1> DEFINE i == req[u].on
<1>1. /\ i \in Ids /\ anomalies[i] # None
      /\ anomalies'[i] # None /\ anomalies'[i].status = req[u].status
      /\ own[u][i] # None
      /\ \A j \in Ids : j # i => anomalies'[j] = anomalies[j]
      /\ suppressed' = suppressed \cup (IF req[u].status = "false_positive" THEN {i} ELSE {})
  BY CommitUpdateRow
<1>2. Others(u) /\ pc'[u] = "idle" /\ own'[u] = NoRows
  BY EndsOthers DEF CommitUpdate
<1>3. UNCHANGED <<events, found, created>>
  BY DEF CommitUpdate, EndUpdate
<1>4. \A d \in Callers \ {u} : own[d][i] = None
  BY <1>1 DEF Inv, LocksExclusive, Callers
<1>5. UpdateHolds(u)'
  BY <1>2 DEF UpdateHolds, NoRows
<1>6. \A v \in Users \ {u} : UpdateHolds(v)'
  <2> SUFFICES ASSUME NEW v \in Users \ {u} PROVE UpdateHolds(v)'
    OBVIOUS
  <2>1. v \in Callers \ {u}
    BY DEF Callers
  <2>2. req[v] # None => req[v].on \in Ids
    BY Shapes DEF TypeOK
  <2>3. pc'[v] = pc[v] /\ own'[v] = own[v] /\ req'[v] = req[v]
    BY <1>2, <2>1 DEF Others
  <2> QED BY <1>1, <1>4, <2>1, <2>2, <2>3 DEF Inv, UpdateHolds
<1>7. \A s \in Scans : ScanHolds(s)'
  <2> SUFFICES ASSUME NEW s \in Scans, NEW j \in Ids
               PROVE  /\ pc'[s] = "refresh" /\ IsNext(s, j)' => anomalies'[j] # None
                      /\ own'[s][j] # None => /\ pc'[s] \in {"visit", "insert", "refresh"}
                                              /\ own'[s][j].status = "open" /\ ~Reviewed(j)'
                                              /\ j \in created'[s] <=> anomalies'[j] = None
                      /\ j \in created'[s] => IF pc'[s] = "publish"
                                               THEN anomalies'[j] # None /\ events'[j] = 0
                                               ELSE own'[s][j] # None
    BY DEF ScanHolds
  <2>1. s \in Callers \ {u}
    BY DEF Callers
  <2>2. pc'[s] = pc[s] /\ own'[s] = own[s]
    BY <1>2, <2>1 DEF Others
  <2> QED BY <1>1, <1>3, <1>4, <2>1, <2>2 DEF Inv, ScanHolds, IsNext, Reviewed
<1>8. LocksExclusive'
  BY <1>2 DEF Inv, LocksExclusive, Others, NoRows
<1>9. OneAnnounces' /\ AnnouncedOnce'
  BY <1>1, <1>2, <1>3 DEF Inv, OneAnnounces, AnnouncedOnce, Others, Callers
<1>10. VerdictSuppresses'
  BY <1>1 DEF Inv, VerdictSuppresses
<1> QED BY <1>5, <1>6, <1>7, <1>8, <1>9, <1>10 DEF Inv

(* The other queries change no table. *)
LEMMA ScanInv ==
  ASSUME TypeOK, Inv, NEW s \in Scans,
         LoadRecords(s) \/ FilterSuppressed(s) \/ LookUp(s) \/ PassOver(s)
  PROVE  Inv'
<1>1. Others(s) /\ UNCHANGED <<tables, events, req, own, created>>
  BY DEF LoadRecords, FilterSuppressed, LookUp, PassOver, Visited, Goto, Others, TypeOK, Callers
<1>2. pc[s] \in {"idle", "suppressions", "visit"}
      /\ pc'[s] \in {"suppressions", "visit", "insert", "refresh"}
      /\ (pc[s] # "visit" => pc'[s] # "insert" /\ pc'[s] # "refresh")
      /\ (pc[s] = "visit" => pc'[s] # "suppressions")
  BY DEF LoadRecords, FilterSuppressed, LookUp, PassOver, Goto, TypeOK, Callers
<1>3. ASSUME NEW j \in Ids, pc'[s] = "refresh", IsNext(s, j)' PROVE anomalies'[j] # None
  <2>1. CASE LookUp(s)
    <3>1. PICK i \in Ids : /\ IsNext(s, i) /\ ~Reviewed(i)
                           /\ Goto(s, IF anomalies[i] = None THEN "insert" ELSE "refresh")
      BY <2>1 DEF LookUp
    <3>2. IsNext(s, j)
      BY <1>3, <2>1 DEF LookUp, IsNext
    <3>3. i = j
      BY <3>1, <3>2, NextIsOne
    <3> QED BY <1>1, <1>3, <3>1, <3>3 DEF Goto, TypeOK, Callers, tables
  <2>2. CASE ~LookUp(s)
    BY <1>3, <2>2 DEF LoadRecords, FilterSuppressed, PassOver, Goto, TypeOK, Callers
  <2> QED BY <2>1, <2>2
<1>4. ScanHolds(s)'
  BY <1>1, <1>2, <1>3 DEF Inv, ScanHolds, tables, Reviewed
<1>5. \A t \in Scans \ {s} : ScanHolds(t)'
  BY <1>1 DEF Inv, ScanHolds, Others, Callers, tables, Reviewed, IsNext
<1>6. \A u \in Users : UpdateHolds(u)'
  BY <1>1 DEF Inv, UpdateHolds, Others, Callers, tables
<1>7. LocksExclusive' /\ VerdictSuppresses'
  BY <1>1 DEF Inv, LocksExclusive, VerdictSuppresses, tables
<1>8. OneAnnounces' /\ AnnouncedOnce'
  BY <1>1, <1>2 DEF Inv, OneAnnounces, AnnouncedOnce, Others, Callers, tables
<1> QED BY <1>4, <1>5, <1>6, <1>7, <1>8 DEF Inv

LEMMA UserInv ==
  ASSUME TypeOK, Inv, NEW u \in Users,
         \/ UpdateStatus(u) \/ KeyNotFound(u) \/ AnomalyFound(u) \/ Suppress(u) \/ StoreAnswer(u)
  PROVE  Inv'
<1>1. Others(u) /\ UNCHANGED <<tables, events, own, created, found>>
  BY DEF UpdateStatus, KeyNotFound, AnomalyFound, Suppress, StoreAnswer, Goto, Others,
    TypeOK, Callers
<1>2. UpdateHolds(u)'
  <2>1. CASE UpdateStatus(u)
    BY <2>1, Shapes DEF UpdateStatus, Goto, TypeOK, Callers, Inv, UpdateHolds, tables
  <2>2. CASE KeyNotFound(u)
    BY <2>2 DEF KeyNotFound, Goto, TypeOK, Callers, Inv, UpdateHolds, tables
  <2>3. CASE AnomalyFound(u)
    BY <2>3 DEF AnomalyFound, Goto, TypeOK, Callers, Inv, UpdateHolds, tables
  <2>4. CASE Suppress(u) \/ StoreAnswer(u)
    BY <2>4 DEF Suppress, StoreAnswer, Goto, TypeOK, Callers, Inv, UpdateHolds, tables
  <2> QED BY <2>1, <2>2, <2>3, <2>4
<1>3. \A v \in Users \ {u} : UpdateHolds(v)'
  BY <1>1 DEF Inv, UpdateHolds, Others, Callers, tables
<1>4. \A s \in Scans : ScanHolds(s)'
  BY <1>1 DEF Inv, ScanHolds, Others, Callers, tables, Reviewed, IsNext
<1>5. LocksExclusive' /\ VerdictSuppresses'
  BY <1>1 DEF Inv, LocksExclusive, VerdictSuppresses, tables
<1>6. OneAnnounces' /\ AnnouncedOnce'
  BY <1>1 DEF Inv, OneAnnounces, AnnouncedOnce, Others, Callers, tables
<1> QED BY <1>2, <1>3, <1>4, <1>5, <1>6 DEF Inv

LEMMA InvStep == TypeOK /\ Inv /\ [Next]_vars => Inv'
<1> SUFFICES ASSUME TypeOK, Inv, [Next]_vars PROVE Inv'
  OBVIOUS
<1>1. ASSUME NEW s \in Scans, Insert(s) PROVE Inv'
  <2>1. PICK i \in Ids :
          /\ IsNext(s, i) /\ Blockers(s, i) = {} /\ anomalies[i] = None
          /\ Write(s, i, [status |-> "open", evidence |-> found[s][i]])
          /\ created' = [created EXCEPT ![s] = @ \cup {i}]
          /\ Visited(s, i)
    BY <1>1 DEF Insert
  <2>2. [status |-> "open", evidence |-> found[s][i]] \in Anomaly
    BY <2>1, CandidateIn DEF TypeOK, IsNext, Anomaly, AnomalyStatus
  <2> QED BY <1>1, <2>1, <2>2, WriteInv DEF Insert, Goto, Reviewed
<1>2. ASSUME NEW s \in Scans, Refresh(s) PROVE Inv'
  <2>1. PICK i \in Ids :
          /\ IsNext(s, i) /\ Blockers(s, i) = {} /\ ~Reviewed(i)
          /\ Write(s, i, [anomalies[i] EXCEPT !.evidence = found[s][i]])
          /\ Visited(s, i)
    BY <1>2 DEF Refresh
  <2>2. anomalies[i] \in Anomaly /\ anomalies[i].status = "open"
    BY <1>2, <2>1 DEF Refresh, Inv, ScanHolds, TypeOK, Reviewed
  <2>3. /\ [anomalies[i] EXCEPT !.evidence = found[s][i]] \in Anomaly
        /\ [anomalies[i] EXCEPT !.evidence = found[s][i]].status = "open"
    BY <2>1, <2>2, CandidateIn DEF TypeOK, IsNext, Anomaly
  <2>4. created' = [created EXCEPT ![s] = IF pc[s] = "insert" THEN @ \cup {i} ELSE @]
    BY <1>2 DEF Refresh, TypeOK
  <2> QED BY <1>2, <2>1, <2>3, <2>4, WriteInv DEF Refresh, Goto
<1>3. CASE UNCHANGED vars
  BY <1>3 DEF vars, tables, Inv, UpdateHolds, ScanHolds, LocksExclusive, OneAnnounces,
    AnnouncedOnce, VerdictSuppresses, Reviewed, IsNext
<1> QED
  BY <1>1, <1>2, <1>3, ScanInv, UserInv, CommitScanInv, PublishInv, SetStatusInv,
     CommitUpdateInv, ThrowInv
  DEF Next, Step, Fails, InsertConflicts, RefreshFindsNone, AnomalyNotFound, ScanEnds,
      Replay, Throw, Callers
-----------------------------------------------------------------------------
(* What scans and updates have read, locked and still to announce is as     *)
(* their next query expects, in every state.                                *)
THEOREM Invariance == Spec => [](TypeOK /\ Inv)
<1>1. TypeOK /\ Inv /\ [Next]_vars => (TypeOK /\ Inv)'
  BY TypeStep, InvStep
<1> QED BY InvInit, <1>1, PTL DEF Spec

(* No query brings a row, an answer or its caller out of its type. *)
THEOREM TypeCorrect == Spec => []TypeOK
BY Invariance, PTL

(* An anomaly is announced once at most, by a scan that has committed it.   *)
THEOREM AnnouncesOnce == Spec => []AnnouncedOnce
BY Invariance, PTL DEF Inv

(* Only commits change the tables. *)
LEMMA OnlyCommits ==
  ASSUME [Next]_vars, ~ \E s \in Scans : CommitScan(s), ~ \E u \in Users : CommitUpdate(u)
  PROVE  UNCHANGED <<anomalies, suppressed>>
BY DEF Next, Step, Fails, Throw, tables, vars, LoadRecords, FilterSuppressed, LookUp, PassOver,
  Insert, InsertConflicts, Refresh, RefreshFindsNone, Publish, ScanEnds, UpdateStatus, Replay,
  KeyNotFound, AnomalyFound, AnomalyNotFound, SetStatus, Suppress, StoreAnswer, Callers

(* A scan commits rows of anomalies that are new or were open. *)
LEMMA CommitScanRow ==
  ASSUME TypeOK, Inv, NEW s \in Scans, CommitScan(s), NEW i \in Ids
  PROVE  /\ suppressed' = suppressed
         /\ \/ anomalies'[i] = anomalies[i]
            \/ /\ ~Reviewed(i)
               /\ anomalies'[i] # None /\ anomalies'[i].status = "open"
BY DEF CommitScan, CommitRows, Inv, ScanHolds

(* A verdict is changed by another verdict alone, which keeps the evidence. *)
THEOREM VerdictsStay == Spec => ReviewedStays
<1>1. TypeOK /\ Inv /\ [Next]_vars =>
        [\A i \in Ids : Reviewed(i) /\ anomalies'[i] # anomalies[i] =>
           /\ anomalies'[i].evidence = anomalies[i].evidence
           /\ \E u \in Users : pc[u] = "commit" /\ req[u].on = i]_vars
  <2> SUFFICES ASSUME TypeOK, Inv, Next, NEW i \in Ids, Reviewed(i), anomalies'[i] # anomalies[i]
               PROVE  /\ anomalies'[i].evidence = anomalies[i].evidence
                      /\ \E u \in Users : pc[u] = "commit" /\ req[u].on = i
    OBVIOUS
  <2>1. \A s \in Scans : ~CommitScan(s)
    BY CommitScanRow
  <2>2. PICK u \in Users : CommitUpdate(u)
    BY <2>1, OnlyCommits
  <2> QED BY <2>2, CommitUpdateRow
<1> QED BY Invariance, <1>1, PTL DEF Spec, ReviewedStays

(* A verdict of false positive and its suppression are committed as one. *)
THEOREM VerdictSuppressed == Spec => SuppressedByVerdict
<1>1. TypeOK /\ Inv /\ [Next]_vars /\ Inv' =>
        [\A i \in Ids :
           LET false_positive(row) == row # None /\ row.status = "false_positive"
           IN  /\ false_positive(anomalies'[i]) => i \in suppressed'
               /\ i \in suppressed' \ suppressed => false_positive(anomalies'[i])]_vars
  <2> SUFFICES ASSUME TypeOK, Inv, Next, Inv', NEW i \in Ids
               PROVE  /\ anomalies'[i] # None /\ anomalies'[i].status = "false_positive"
                           => i \in suppressed'
                      /\ i \in suppressed' \ suppressed
                           => anomalies'[i] # None /\ anomalies'[i].status = "false_positive"
    OBVIOUS
  <2>1. anomalies'[i] # None /\ anomalies'[i].status = "false_positive" => i \in suppressed'
    BY DEF Inv, VerdictSuppresses
  <2>2. ASSUME i \in suppressed' \ suppressed
        PROVE  anomalies'[i] # None /\ anomalies'[i].status = "false_positive"
    <3>1. \A s \in Scans : ~CommitScan(s)
      BY <2>2, CommitScanRow
    <3>2. PICK u \in Users : CommitUpdate(u)
      BY <2>2, <3>1, OnlyCommits
    <3> QED BY <2>2, <3>2, CommitUpdateRow
  <2> QED BY <2>1, <2>2
<1> QED BY Invariance, <1>1, PTL DEF Spec, SuppressedByVerdict
-----------------------------------------------------------------------------
(* The figures: what is stored of the exports, and what is found in it.    *)

HIDE AnomaliesAssumption

LEMMA CompleteRows ==
  ASSUME NEW p, NEW read \in SUBSET UNION Deliveries[p], ~Exports!Unreadable(read)
  PROVE  Exports!Parsed(read) \subseteq Complete(p)
<1>1. \A row \in read : ~Exports!Unreadable({row})
  BY DEF Exports!Unreadable
<1> QED BY <1>1 DEF Exports!Parsed, Complete

(* What the bucket of a provider holds was delivered to it. *)
LEMMA ObjectRows ==
  ASSUME FiguresTypeOK, NEW p \in Providers, NEW o \in Objects(p)
  PROVE  o.rows \in Deliveries[p]
<1>1. PICK n \in DOMAIN delivered : o.rows = delivered[n].rows /\ delivered[n].provider = p
  BY DEF Objects
<1>2. delivered[n] \in Delivery
  BY <1>1 DEF FiguresTypeOK
<1> QED BY <1>1, <1>2 DEF Delivery

LEMMA RowsReadDelivered ==
  ASSUME FiguresTypeOK, NEW p \in Providers, NEW uri
  PROVE  RowsRead(p, uri) \subseteq UNION Deliveries[p]
<1>1. UNION {o.rows : o \in Objects(p)} \subseteq UNION Deliveries[p]
  BY ObjectRows
<1>2. Exports!Located(Objects(p), uri) \subseteq Objects(p)
  BY DEF Exports!Located, Exports!Resolved, Exports!Newest, Exports!Readable, Exports!Listed
<1> QED BY <1>1, <1>2 DEF RowsRead, Exports!Queried

LEMMA FiniteImage ==
  ASSUME NEW S, IsFiniteSet(S), NEW f
  PROVE  IsFiniteSet({f[x] : x \in S})
<1> DEFINE T == {f[x] : x \in S}
           g == [x \in S |-> f[x]]
<1>1. g \in Surjection(S, T)
  BY DEF Surjection
<1> QED BY <1>1, FS_Surjection

(* At any time, a bucket holds finitely many rows. *)
LEMMA RowsReadFinite ==
  ASSUME FiguresTypeOK, NEW p \in Providers, NEW uri
  PROVE  IsFiniteSet(RowsRead(p, uri))
<1> DEFINE rowsOf == [n \in DOMAIN delivered |-> delivered[n].rows]
           written == {n \in DOMAIN delivered : delivered[n].provider = p}
           all == {rowsOf[n] : n \in written}
<1>1. /\ DOMAIN delivered = 1 .. Len(delivered) /\ Len(delivered) \in Nat
      /\ \A n \in DOMAIN delivered : delivered[n] \in Delivery
  BY DEF FiguresTypeOK
<1>2. IsFiniteSet(DOMAIN delivered)
  BY <1>1, FS_Interval
<1>3. IsFiniteSet(written)
  BY <1>2, FS_Subset
<1>4. IsFiniteSet(all)
  <2> HIDE DEF written, rowsOf
  <2> QED BY <1>3, FiniteImage
<1>5. \A rows \in all : IsFiniteSet(rows)
  BY <1>1, DeliveriesAssumption DEF Delivery
<1>6. IsFiniteSet(UNION all)
  BY <1>4, <1>5, FS_UNION
<1>7. UNION {o.rows : o \in Objects(p)} \subseteq UNION all
  BY DEF Objects
<1>8. Exports!Located(Objects(p), uri) \subseteq Objects(p)
  BY DEF Exports!Located, Exports!Resolved, Exports!Newest, Exports!Readable, Exports!Listed
<1>9. RowsRead(p, uri) \subseteq UNION all
  BY <1>7, <1>8 DEF RowsRead, Exports!Queried
<1> QED BY <1>6, <1>9, FS_Subset

LEMMA RecordFields ==
  ASSUME NEW p, NEW row
  PROVE  LET r == Record(p, row)
         IN  /\ r.fingerprint = Exports!Fingerprint(p, row)
             /\ r.id = row["n"] /\ r.provider = p /\ r.day = row["from"][1]
BY DEF Record, Exports!Normalize

LEMMA ReadRows ==
  ASSUME FiguresTypeOK, NEW p \in Providers, NEW uri, Read(p, uri)
  PROVE  LET rows == Exports!Parsed(RowsRead(p, uri))
         IN  /\ rows \subseteq Complete(p)
             /\ records' = records \cup
                  {Record(p, row) : row \in {row \in rows : ~IsDuplicate(p, row, rows)}}
             /\ UNCHANGED <<delivered, scopes>>
<1>1. ~Exports!Unreadable(RowsRead(p, uri))
  BY DEF Read
<1>2. Exports!Parsed(RowsRead(p, uri)) \subseteq Complete(p)
  BY <1>1, RowsReadDelivered, CompleteRows
<1> QED BY <1>2 DEF Read

LEMMA FiguresTypeStep == FiguresTypeOK /\ [FiguresNext]_figureVars => FiguresTypeOK'
<1> SUFFICES ASSUME FiguresTypeOK, [FiguresNext]_figureVars PROVE FiguresTypeOK'
  OBVIOUS
<1>1. CASE UNCHANGED figureVars
  BY <1>1 DEF FiguresTypeOK, figureVars
<1>2. ASSUME NEW p \in Providers, Deliver(p) PROVE FiguresTypeOK'
  <2>1. PICK k \in ObjectKeys[p], rows \in Deliveries[p] :
          delivered' = Append(delivered, [provider |-> p, key |-> k, rows |-> rows])
    BY <1>2 DEF Deliver
  <2>2. [provider |-> p, key |-> k, rows |-> rows] \in Delivery
    BY DEF Delivery
  <2>3. delivered' \in Seq(Delivery)
    BY <2>1, <2>2 DEF FiguresTypeOK
  <2> QED BY <1>2, <2>3 DEF FiguresTypeOK, Deliver
<1>3. ASSUME NEW p \in Providers, NEW uri \in Sources, Read(p, uri) PROVE FiguresTypeOK'
  <2> DEFINE rows == Exports!Parsed(RowsRead(p, uri))
             new == {row \in rows : ~IsDuplicate(p, row, rows)}
  <2>1. /\ rows \subseteq Complete(p)
        /\ records' = records \cup {Record(p, row) : row \in new}
        /\ UNCHANGED <<delivered, scopes>>
    BY <1>3, ReadRows
  <2>2. records' \subseteq UNION {{Record(q, row) : row \in Complete(q)} : q \in Providers}
    BY <2>1 DEF FiguresTypeOK
  <2>3. \A row \in new, r \in records : r.fingerprint # Record(p, row).fingerprint
    BY RecordFields DEF IsDuplicate
  <2>4. \A row, other \in new : Record(p, row).fingerprint = Record(p, other).fingerprint
                                  => row = other
    <3> SUFFICES ASSUME NEW row \in new, NEW other \in new,
                        Exports!Fingerprint(p, row) = Exports!Fingerprint(p, other)
                 PROVE  row = other
      BY RecordFields
    <3>1. ~(other["n"] < row["n"]) /\ ~(row["n"] < other["n"])
      BY DEF IsDuplicate
    <3>2. row["n"] \in Nat /\ other["n"] \in Nat
      BY <2>1, DeliveriesAssumption
    <3>3. row["n"] = other["n"]
      BY <3>1, <3>2
    <3> QED BY <2>1, <3>3, DeliveriesAssumption
  <2>5. \A r, s \in records' : r.fingerprint = s.fingerprint => r = s
    BY <2>1, <2>3, <2>4 DEF FiguresTypeOK
  <2>6. IsFiniteSet(records')
    <3> DEFINE parsed == [row \in RowsRead(p, uri) |->
                            [row EXCEPT !["family"] = Exports!ReadBack(@)]]
               recordOf == [row \in new |-> Record(p, row)]
    <3>1. rows = {parsed[row] : row \in RowsRead(p, uri)}
      BY DEF Exports!Parsed
    <3>2. IsFiniteSet(rows)
      <4> HIDE DEF parsed, rows
      <4> QED BY <3>1, FiniteImage, RowsReadFinite
    <3>3. IsFiniteSet(new)
      BY <3>2, FS_Subset
    <3>4. {Record(p, row) : row \in new} = {recordOf[row] : row \in new}
      OBVIOUS
    <3>5. IsFiniteSet({Record(p, row) : row \in new})
      <4> HIDE DEF recordOf, new
      <4> QED BY <3>3, <3>4, FiniteImage
    <3> QED BY <2>1, <3>5, FS_Union DEF FiguresTypeOK
  <2> QED BY <2>1, <2>2, <2>5, <2>6 DEF FiguresTypeOK
<1> QED BY <1>1, <1>2, <1>3 DEF FiguresNext

THEOREM FiguresTypeCorrect == FiguresSpec => []FiguresTypeOK
<1>1. FiguresInit => FiguresTypeOK
  BY FS_EmptySet DEF FiguresInit, FiguresTypeOK
<1> QED BY <1>1, FiguresTypeStep, PTL DEF FiguresSpec

(* What a saved view gives is in force in the merged query, and everything *)
(* that a record must meet for the view it must meet for that query, so no *)
(* view shows its users more than it says.                                 *)
THEOREM ViewsOnlyNarrow == FiguresSpec => []ViewsNarrow
<1>1. ASSUME NEW q, NEW v, NEW r, Costs!MatchesQuery(r, Costs!MergeViewScope(q, v))
      PROVE  Costs!MatchesQuery(r, v)
  BY <1>1 DEF Costs!MatchesQuery, Costs!MergeViewScope, Costs!Given
<1>2. ASSUME NEW q, NEW v, Costs!Given(v, "dimension")
      PROVE  /\ Costs!Given(Costs!MergeViewScope(q, v), "dimension")
             /\ Costs!MergeViewScope(q, v)["dimension"] = v["dimension"]
  BY <1>2 DEF Costs!MergeViewScope, Costs!Given
<1>3. ViewsNarrow
  BY <1>1, <1>2 DEF ViewsNarrow, Costs!Filtered
<1> QED BY <1>3, PTL

(* The newest of some objects is modified after every other. *)
LEMMA NewestObject ==
  ASSUME FiguresTypeOK, NEW p \in Providers, Cardinality(Objects(p)) <= ListLimit,
         NEW o \in Exports!Resolved(Objects(p))
  PROVE  o.rows = LastDelivery(p)
<1> DEFINE IsThere(n) == /\ delivered[n].provider = p
                         /\ delivered[n].rows # {} /\ ~IsReplaced(n)
           there == {n \in DOMAIN delivered : IsThere(n)}
           ObjectOf(n) == [key |-> delivered[n].key, modified |-> n, rows |-> delivered[n].rows,
                           isCsv |-> TRUE, isEmpty |-> delivered[n].rows = {}]
<1>1. /\ DOMAIN delivered = 1 .. Len(delivered) /\ Len(delivered) \in Nat
      /\ \A n \in DOMAIN delivered : delivered[n] \in Delivery
  BY DEF FiguresTypeOK
<1>2. \A x \in Objects(p) : x.key \in Nat
  BY <1>1, DeliveriesAssumption DEF Objects, Delivery
<1>3. IsFiniteSet(Objects(p))
  <2> DEFINE ns == {n \in DOMAIN delivered : delivered[n].provider = p /\ ~IsReplaced(n)}
             f == [n \in ns |-> ObjectOf(n)]
  <2>1. IsFiniteSet(ns)
    <3>1. IsFiniteSet(DOMAIN delivered)
      BY <1>1, FS_Interval
    <3>2. ns \in SUBSET DOMAIN delivered
      OBVIOUS
    <3> QED BY <3>1, <3>2, FS_Subset
  <2>2. f \in Surjection(ns, Objects(p))
    BY DEF Objects, Surjection
  <2> QED BY <2>1, <2>2, FS_Surjection
<1>4. ASSUME NEW x \in Objects(p)
      PROVE  Cardinality({y \in Objects(p) : y.key < x.key}) < ListLimit
  <2> DEFINE before == {y \in Objects(p) : y.key < x.key}
  <2>1. x \notin before
    BY <1>2
  <2>2. IsFiniteSet(before) /\ Cardinality(before) <= Cardinality(Objects(p))
        /\ Cardinality(before) # Cardinality(Objects(p))
    BY <1>3, <2>1, FS_Subset
  <2>3. Cardinality(before) \in Nat /\ Cardinality(Objects(p)) \in Nat
    BY <1>3, <2>2, FS_CardinalityType
  <2>4. Cardinality(before) < ListLimit
    BY <2>2, <2>3, DeliveriesAssumption
  <2> QED BY <2>4
<1>5. Exports!Listed(Objects(p)) = Objects(p)
  BY <1>4 DEF Exports!Listed, Exports!Cardinality, Cardinality
<1>6. Exports!Readable(Objects(p)) = {ObjectOf(n) : n \in there}
  <2>1. ASSUME NEW x \in Exports!Readable(Objects(p)) PROVE x \in {ObjectOf(n) : n \in there}
    <3>1. x \in Objects(p) /\ ~x.isEmpty
      BY DEF Exports!Readable
    <3>2. PICK n \in DOMAIN delivered :
            x = ObjectOf(n) /\ delivered[n].provider = p /\ ~IsReplaced(n)
      BY <3>1 DEF Objects
    <3>3. n \in there
      BY <3>1, <3>2
    <3> QED BY <3>2, <3>3
  <2>2. ASSUME NEW n \in there PROVE ObjectOf(n) \in Exports!Readable(Objects(p))
    <3>1. ObjectOf(n) \in Objects(p)
      BY DEF Objects
    <3>2. ObjectOf(n).isCsv /\ ~ObjectOf(n).isEmpty
      OBVIOUS
    <3> QED BY <3>1, <3>2 DEF Exports!Readable
  <2> QED BY <2>1, <2>2
<1>7. PICK n \in there : o = ObjectOf(n)
  BY <1>5, <1>6 DEF Exports!Resolved, Exports!Newest
<1>8. \A k \in there : k <= n
  <2> SUFFICES ASSUME NEW k \in there PROVE k <= n
    OBVIOUS
  <2>1. ObjectOf(k) \in Exports!Readable(Exports!Listed(Objects(p)))
    BY <1>5, <1>6
  <2>2. ObjectOf(k).modified < o.modified \/ ObjectOf(k).modified = o.modified
    BY <2>1 DEF Exports!Resolved, Exports!Newest
  <2> QED BY <1>1, <1>7, <2>2
<1>9. ASSUME NEW m \in there, \A k \in there : k <= m PROVE m = n
  BY <1>1, <1>7, <1>8, <1>9
<1>10. (CHOOSE m \in there : \A k \in there : k <= m) = n
  BY <1>7, <1>8, <1>9
<1> QED BY <1>7, <1>10 DEF LastDelivery

(* Of the rows of one charge, the first is stored. *)
LEMMA ChargeIsStored ==
  ASSUME FiguresTypeOK, NEW p \in Providers, NEW uri, Read(p, uri),
         NEW row \in Exports!Parsed(RowsRead(p, uri))
  PROVE  \E r \in records' : r.fingerprint = Exports!Fingerprint(p, row)
<1> DEFINE rows == Exports!Parsed(RowsRead(p, uri))
           same == {s \in rows : Exports!Fingerprint(p, s) = Exports!Fingerprint(p, row)}
           places == {s["n"] : s \in same}
<1>1. /\ rows \subseteq Complete(p)
      /\ records' = records \cup
           {Record(p, s) : s \in {s \in rows : ~IsDuplicate(p, s, rows)}}
  BY ReadRows
<1>2. places \subseteq Nat /\ places # {}
  BY <1>1, DeliveriesAssumption
<1>3. PICK n \in places : \A k \in places : ~(k < n)
  <2>1. PICK n \in places : \A k \in places : <<k, n>> \notin OpToRel(<, Nat)
    BY <1>2, NatLessThanWellFounded, WFMin
  <2> QED BY <1>2, <2>1 DEF OpToRel
<1>4. PICK s \in same : s["n"] = n
  OBVIOUS
<1>5. CASE IsDuplicate(p, s, rows)
  <2>1. \A t \in rows : t["n"] < s["n"] => Exports!Fingerprint(p, t) # Exports!Fingerprint(p, s)
    BY <1>3, <1>4
  <2>2. \E r \in records : r.fingerprint = Exports!Fingerprint(p, s)
    BY <1>5, <2>1 DEF IsDuplicate
  <2> QED BY <1>1, <2>2
<1>6. CASE ~IsDuplicate(p, s, rows)
  BY <1>1, <1>6, RecordFields
<1> QED BY <1>5, <1>6

(* Read of a prefix, what was delivered last is read as a whole: it is the *)
(* newest of the objects listed; and each of its charges is stored, by     *)
(* this read or one before it.                                             *)
THEOREM NewestAlwaysStored == FiguresSpec => NewestIsStored
<1>1. ASSUME FiguresTypeOK, NEW p \in Providers \ {"gcp"}, NEW uri \in Sources,
             Read(p, uri), uri.path = <<>>, Cardinality(Objects(p)) <= ListLimit,
             NEW row \in Exports!Parsed(LastDelivery(p))
      PROVE  \E r \in records' : r.fingerprint = Exports!Fingerprint(p, row)
  <2>1. RowsRead(p, uri) = UNION {o.rows : o \in Exports!Resolved(Objects(p))}
    BY <1>1 DEF RowsRead, Exports!Located
  <2>2. RowsRead(p, uri) # {}
    BY <1>1 DEF Read
  <2>3. RowsRead(p, uri) = LastDelivery(p)
    BY <1>1, <2>1, <2>2, NewestObject
  <2> QED BY <1>1, <2>3, ChargeIsStored
<1>2. FiguresTypeOK =>
        [\A p \in Providers \ {"gcp"}, uri \in Sources :
           (Read(p, uri) /\ uri.path = <<>> /\ Cardinality(Objects(p)) <= ListLimit) =>
             \A row \in Exports!Parsed(LastDelivery(p)) : \E r \in records' :
               r.fingerprint = Exports!Fingerprint(p, row)]_figureVars
  BY <1>1
<1> QED BY <1>2, FiguresTypeCorrect, PTL DEF NewestIsStored, FiguresSpec

-----------------------------------------------------------------------------
(* What is added to some records starts on a later day than all of them.   *)
Continues(old, all) ==
  /\ old # {} /\ old \subseteq all
  /\ \A r \in all : r.day \in Int
  /\ \A r \in old, s \in all \ old : r.day < s.day

(* Later records join a group or make a new one. *)
LEMMA GroupContinues ==
  ASSUME NEW old, NEW all, Continues(old, all), NEW fields,
         NEW g \in Detection!GroupBy(old, fields)
  PROVE  \E h \in Detection!GroupBy(all, fields) : Continues(g, h)
<1>1. PICK s \in old : g = {r \in old : \A f \in fields : r[f] = s[f]}
  BY DEF Detection!GroupBy
<1> DEFINE h == {r \in all : \A f \in fields : r[f] = s[f]}
<1>2. h \in Detection!GroupBy(all, fields)
  BY DEF Detection!GroupBy, Continues
<1>3. Continues(g, h)
  BY <1>1 DEF Continues
<1> QED BY <1>2, <1>3

(* A group with an old record continues one of the old groups. *)
LEMMA GroupContinued ==
  ASSUME NEW old, NEW all, Continues(old, all), NEW fields,
         NEW h \in Detection!GroupBy(all, fields), NEW o \in h, o.day \in Detection!Days(old)
  PROVE  \E g \in Detection!GroupBy(old, fields) : Continues(g, h) /\ o \in g
<1>1. PICK s \in all : h = {r \in all : \A f \in fields : r[f] = s[f]}
  BY DEF Detection!GroupBy
<1>2. o \in old
  <2>1. PICK r \in old : r.day = o.day
    BY DEF Detection!Days
  <2>2. ~(r.day < o.day)
    BY <2>1 DEF Continues
  <2> QED BY <1>1, <2>2 DEF Continues
<1> DEFINE g == {r \in old : \A f \in fields : r[f] = o[f]}
<1>3. g \in Detection!GroupBy(old, fields) /\ o \in g
  BY <1>2 DEF Detection!GroupBy
<1>4. \A r \in old : r \in g <=> r \in h
  BY <1>1 DEF Continues
<1>5. Continues(g, h)
  <2>1. g # {} /\ g \subseteq h /\ h \subseteq all
    BY <1>1, <1>3, <1>4
  <2>2. \A s2 \in h \ g : s2 \in all \ old
    BY <1>1, <1>4
  <2> QED BY <2>1, <2>2 DEF Continues
<1> QED BY <1>3, <1>5

(* The days up to a day of the old records are what they were. *)
LEMMA DaysContinue ==
  ASSUME NEW old, NEW all, Continues(old, all), NEW d \in Detection!Days(old)
  PROVE  /\ d \in Detection!Days(all) /\ d \in Int
         /\ {e \in Detection!Days(all) : e < d} = {e \in Detection!Days(old) : e < d}
         /\ Detection!On(all, d) = Detection!On(old, d)
<1>1. PICK r \in old : d = r.day
  BY DEF Detection!Days
<1>2. d \in Detection!Days(all) /\ d \in Int
  BY <1>1 DEF Continues, Detection!Days
<1>3. \A s \in all : s.day <= d => s \in old
  BY <1>1 DEF Continues
<1>4. {e \in Detection!Days(all) : e < d} \subseteq {e \in Detection!Days(old) : e < d}
  BY <1>2, <1>3 DEF Detection!Days, Continues
<1>5. {e \in Detection!Days(old) : e < d} \subseteq {e \in Detection!Days(all) : e < d}
  BY DEF Detection!Days, Continues
<1>6. Detection!On(all, d) = Detection!On(old, d)
  BY <1>2, <1>3 DEF Detection!On, Continues
<1> QED BY <1>2, <1>4, <1>5, <1>6

LEMMA WindowContinues ==
  ASSUME NEW old, NEW all, Continues(old, all), NEW d \in Detection!Days(old)
  PROVE  /\ Detection!Window(Detection!Days(all), d) = Detection!Window(Detection!Days(old), d)
         /\ Detection!DayBefore(Detection!Days(all), d)
              = Detection!DayBefore(Detection!Days(old), d)
         /\ Detection!HoursBefore(all, d) = Detection!HoursBefore(old, d)
<1> DEFINE D == Detection!Days(old)
           E == Detection!Days(all)
<1>1. {e \in E : e < d} = {e \in D : e < d}
  BY DaysContinue
<1>2. \A e : {f \in E : e < f /\ f < d} = {f \in D : e < f /\ f < d}
  BY <1>1
<1>3. Detection!Window(E, d) = Detection!Window(D, d)
  BY <1>1, <1>2 DEF Detection!Window
<1>4. Detection!DayBefore(E, d) = Detection!DayBefore(D, d)
  BY <1>1 DEF Detection!DayBefore
<1>5. \A e \in Detection!Window(D, d) : Detection!On(all, e) = Detection!On(old, e)
  BY DaysContinue DEF Detection!Window
<1>6. Detection!HoursBefore(all, d) = Detection!HoursBefore(old, d)
  BY <1>3, <1>5 DEF Detection!HoursBefore
<1> QED BY <1>3, <1>4, <1>6

LEMMA StartsContinue ==
  ASSUME NEW old, NEW all, Continues(old, all)
  PROVE  /\ \A r \in old, s \in all \ old :
              Detection!StartsBefore(r, s) /\ ~Detection!StartsBefore(s, r)
         /\ Detection!Earliest(all) = Detection!Earliest(old)
         /\ \A c \in old : Detection!Previous(all, c) = Detection!Previous(old, c)
<1>1. \A r \in old, s \in all \ old :
        Detection!StartsBefore(r, s) /\ ~Detection!StartsBefore(s, r)
  BY DEF Continues, Detection!StartsBefore
<1>2. Detection!Earliest(all) = Detection!Earliest(old)
  <2>1. \A r \in Detection!Earliest(old) : r \in Detection!Earliest(all)
    BY <1>1 DEF Continues, Detection!Earliest
  <2>2. \A r \in Detection!Earliest(all) : r \in Detection!Earliest(old)
    BY <1>1 DEF Continues, Detection!Earliest
  <2> QED BY <2>1, <2>2
<1>3. ASSUME NEW c \in old PROVE Detection!Previous(all, c) = Detection!Previous(old, c)
  BY <1>1 DEF Continues, Detection!Previous
<1> QED BY <1>1, <1>2, <1>3

(* The candidates whose window ends on one of the days. *)
EndsOn(candidates, days) == {c \in candidates : c.windowEnd \in days}

LEMMA UnitPriceStable ==
  ASSUME NEW old, NEW all, Continues(old, all)
  PROVE  EndsOn(Detection!UnitPriceAnomalies(all), Detection!Days(old))
           = Detection!UnitPriceAnomalies(old)
<1> DEFINE fields == {"provider", "account", "resource", "family"}
<1>1. ASSUME NEW g \in Detection!GroupBy(old, fields), NEW c \in g,
             NEW p \in Detection!PriceRises(g, c)
      PROVE  Detection!PriceRise(p, c) \in EndsOn(Detection!UnitPriceAnomalies(all), Detection!Days(old))
  <2>1. PICK h \in Detection!GroupBy(all, fields) : Continues(g, h)
    BY GroupContinues
  <2>2. c \in h /\ p \in Detection!PriceRises(h, c)
    BY <2>1, StartsContinue DEF Continues, Detection!PriceRises
  <2>3. Detection!PriceRise(p, c) \in Detection!UnitPriceAnomalies(all)
    BY <2>1, <2>2 DEF Detection!UnitPriceAnomalies, Detection!RisesIn
  <2>4. c.day \in Detection!Days(old)
    BY DEF Detection!GroupBy, Detection!Days
  <2> QED BY <2>3, <2>4 DEF EndsOn, Detection!PriceRise, Detection!Candidate
<1>2. ASSUME NEW h \in Detection!GroupBy(all, fields), NEW c \in h,
             NEW p \in Detection!PriceRises(h, c), c.day \in Detection!Days(old)
      PROVE  Detection!PriceRise(p, c) \in Detection!UnitPriceAnomalies(old)
  <2>1. PICK g \in Detection!GroupBy(old, fields) : Continues(g, h) /\ c \in g
    BY <1>2, GroupContinued
  <2>2. p \in Detection!PriceRises(g, c)
    BY <2>1, StartsContinue DEF Detection!PriceRises
  <2> QED BY <2>1, <2>2 DEF Detection!UnitPriceAnomalies, Detection!RisesIn
<1>3. EndsOn(Detection!UnitPriceAnomalies(all), Detection!Days(old))
        \subseteq Detection!UnitPriceAnomalies(old)
  <2> SUFFICES ASSUME NEW h \in Detection!GroupBy(all, fields), NEW c \in h,
                      NEW p \in Detection!PriceRises(h, c), Detection!PriceRise(p, c).windowEnd \in Detection!Days(old)
               PROVE  Detection!PriceRise(p, c) \in Detection!UnitPriceAnomalies(old)
    BY DEF EndsOn, Detection!UnitPriceAnomalies, Detection!RisesIn
  <2>1. c.day \in Detection!Days(old)
    BY DEF Detection!PriceRise, Detection!Candidate
  <2> QED BY <1>2, <2>1
<1>4. Detection!UnitPriceAnomalies(old)
        \subseteq EndsOn(Detection!UnitPriceAnomalies(all), Detection!Days(old))
  <2> SUFFICES ASSUME NEW g \in Detection!GroupBy(old, fields), NEW c \in g,
                      NEW p \in Detection!PriceRises(g, c)
               PROVE  Detection!PriceRise(p, c) \in EndsOn(Detection!UnitPriceAnomalies(all), Detection!Days(old))
    BY DEF Detection!UnitPriceAnomalies, Detection!RisesIn
  <2> QED BY <1>1
<1> QED BY <1>3, <1>4

LEMMA UsageStable ==
  ASSUME NEW old, NEW all, Continues(old, all)
  PROVE  EndsOn(Detection!UsageAnomalies(all), Detection!Days(old))
           = Detection!UsageAnomalies(old)
<1> DEFINE Is(g, d) == Detection!IsUnusual(Detection!Hours(Detection!On(g, d)),
                                           Detection!HoursBefore(g, d))
           fields == {"provider", "account", "service", "family"}
<1>1. ASSUME NEW g, NEW h, Continues(g, h), NEW d \in Detection!Days(g)
      PROVE  /\ d \in Detection!Days(h) /\ Is(h, d) = Is(g, d)
             /\ Detection!Unusual(h, d) = Detection!Unusual(g, d)
  <2>1. /\ d \in Detection!Days(h) /\ Detection!On(h, d) = Detection!On(g, d)
        /\ Detection!HoursBefore(h, d) = Detection!HoursBefore(g, d)
    BY <1>1, DaysContinue, WindowContinues
  <2> QED BY <2>1 DEF Detection!Unusual
<1>2. ASSUME NEW g \in Detection!GroupBy(old, fields), NEW d \in Detection!Days(g), Is(g, d)
      PROVE  Detection!Unusual(g, d)
               \in EndsOn(Detection!UsageAnomalies(all), Detection!Days(old))
  <2>1. PICK h \in Detection!GroupBy(all, fields) : Continues(g, h)
    BY GroupContinues
  <2>2. d \in Detection!Days(old)
    BY DEF Detection!GroupBy, Detection!Days
  <2>3. Detection!Unusual(g, d).windowEnd = d
    BY DEF Detection!Unusual, Detection!Candidate
  <2>4. Detection!Unusual(g, d) \in Detection!UsageAnomalies(all)
    BY <1>1, <1>2, <2>1 DEF Detection!UsageAnomalies
  <2> QED BY <2>2, <2>3, <2>4 DEF EndsOn
<1>3. ASSUME NEW h \in Detection!GroupBy(all, fields), NEW d \in Detection!Days(h), Is(h, d),
             Detection!Unusual(h, d).windowEnd \in Detection!Days(old)
      PROVE  Detection!Unusual(h, d) \in Detection!UsageAnomalies(old)
  <2>1. d \in Detection!Days(old)
    BY <1>3 DEF Detection!Unusual, Detection!Candidate
  <2>2. PICK o \in h : d = o.day
    BY DEF Detection!Days
  <2>3. PICK g \in Detection!GroupBy(old, fields) : Continues(g, h) /\ o \in g
    BY <2>1, <2>2, GroupContinued
  <2>4. d \in Detection!Days(g)
    BY <2>2, <2>3 DEF Detection!Days
  <2> QED BY <1>1, <1>3, <2>3, <2>4 DEF Detection!UsageAnomalies
<1> QED BY <1>2, <1>3 DEF EndsOn, Detection!UsageAnomalies

LEMMA NewSpendStable ==
  ASSUME NEW old, NEW all, Continues(old, all)
  PROVE  EndsOn(Detection!NewSpendAnomalies(all), Detection!Days(old))
           = Detection!NewSpendAnomalies(old)
<1> DEFINE fields == {"provider", "account", "service"}
           Is(g, among) == Detection!IsNew(g, among) /\ Detection!NewSpend(g) >= NewSpendFloor
<1>1. ASSUME NEW g, NEW h, Continues(g, h)
      PROVE  /\ Detection!Earliest(h) = Detection!Earliest(g)
             /\ Is(h, all) = Is(g, old)
             /\ \A first : Detection!FirstSpend(h, first) = Detection!FirstSpend(g, first)
  <2>1. Detection!Earliest(h) = Detection!Earliest(g)
    BY <1>1, StartsContinue
  <2>2. \A r \in Detection!Earliest(g) : Detection!On(h, r.day) = Detection!On(g, r.day)
    BY <1>1, DaysContinue DEF Detection!Earliest, Detection!Days
  <2>3. Detection!FirstDayRows(h) = Detection!FirstDayRows(g)
    BY <2>1, <2>2 DEF Detection!FirstDayRows
  <2>4. Detection!NewSpend(h) = Detection!NewSpend(g)
    BY <2>3 DEF Detection!NewSpend
  <2>5. Detection!IsNew(h, all) = Detection!IsNew(g, old)
    BY <2>1, StartsContinue DEF Detection!IsNew
  <2> QED BY <2>1, <2>3, <2>4, <2>5 DEF Detection!FirstSpend
<1>2. ASSUME NEW g \in Detection!GroupBy(old, fields), Is(g, old),
             NEW first \in Detection!Earliest(g)
      PROVE  Detection!FirstSpend(g, first)
               \in EndsOn(Detection!NewSpendAnomalies(all), Detection!Days(old))
  <2>1. PICK h \in Detection!GroupBy(all, fields) : Continues(g, h)
    BY GroupContinues
  <2>2. Detection!FirstSpend(g, first) \in Detection!NewSpendAnomalies(all)
    BY <1>1, <1>2, <2>1 DEF Detection!NewSpendAnomalies
  <2>3. first.day \in Detection!Days(old)
    BY DEF Detection!Earliest, Detection!GroupBy, Detection!Days
  <2> QED BY <2>2, <2>3 DEF EndsOn, Detection!FirstSpend, Detection!Candidate
<1>3. ASSUME NEW h \in Detection!GroupBy(all, fields), Is(h, all),
             NEW first \in Detection!Earliest(h),
             Detection!FirstSpend(h, first).windowEnd \in Detection!Days(old)
      PROVE  Detection!FirstSpend(h, first) \in Detection!NewSpendAnomalies(old)
  <2>1. first \in h /\ first.day \in Detection!Days(old)
    BY <1>3 DEF Detection!FirstSpend, Detection!Candidate, Detection!Earliest
  <2>2. PICK g \in Detection!GroupBy(old, fields) : Continues(g, h)
    BY <2>1, GroupContinued
  <2> QED BY <1>1, <1>3, <2>2 DEF Detection!NewSpendAnomalies
<1> QED BY <1>2, <1>3 DEF EndsOn, Detection!NewSpendAnomalies

LEMMA CoverageStable ==
  ASSUME NEW old, NEW all, Continues(old, all)
  PROVE  EndsOn(Detection!CoverageAnomalies(all), Detection!Days(old))
           = Detection!CoverageAnomalies(old)
<1> DEFINE fields == {"provider", "account", "service"}
<1>1. ASSUME NEW g, NEW h, Continues(g, h), NEW d \in Detection!Days(g)
      PROVE  /\ d \in Detection!Days(h)
             /\ Detection!LosesCoverage(h, d) = Detection!LosesCoverage(g, d)
             /\ Detection!CoverageLoss(h, d) = Detection!CoverageLoss(g, d)
  <2>1. /\ d \in Detection!Days(h) /\ Detection!On(h, d) = Detection!On(g, d)
        /\ Detection!DayBefore(Detection!Days(h), d) = Detection!DayBefore(Detection!Days(g), d)
    BY <1>1, DaysContinue, WindowContinues
  <2>2. \A e \in Detection!DayBefore(Detection!Days(g), d) :
          Detection!On(h, e) = Detection!On(g, e)
    BY <1>1, DaysContinue DEF Detection!DayBefore
  <2>3. Detection!LosesCoverage(h, d) = Detection!LosesCoverage(g, d)
    BY <2>1, <2>2 DEF Detection!LosesCoverage
  <2> QED BY <2>1, <2>3 DEF Detection!CoverageLoss
<1>2. ASSUME NEW g \in Detection!GroupBy(old, fields), NEW d \in Detection!Days(g),
             Detection!LosesCoverage(g, d)
      PROVE  Detection!CoverageLoss(g, d)
               \in EndsOn(Detection!CoverageAnomalies(all), Detection!Days(old))
  <2>1. PICK h \in Detection!GroupBy(all, fields) : Continues(g, h)
    BY GroupContinues
  <2>2. d \in Detection!Days(old)
    BY DEF Detection!GroupBy, Detection!Days
  <2>3. Detection!CoverageLoss(g, d).windowEnd = d
    BY DEF Detection!CoverageLoss, Detection!Candidate
  <2>4. Detection!CoverageLoss(g, d) \in Detection!CoverageAnomalies(all)
    BY <1>1, <1>2, <2>1 DEF Detection!CoverageAnomalies
  <2> QED BY <2>2, <2>3, <2>4 DEF EndsOn
<1>3. ASSUME NEW h \in Detection!GroupBy(all, fields), NEW d \in Detection!Days(h),
             Detection!LosesCoverage(h, d),
             Detection!CoverageLoss(h, d).windowEnd \in Detection!Days(old)
      PROVE  Detection!CoverageLoss(h, d) \in Detection!CoverageAnomalies(old)
  <2>1. d \in Detection!Days(old)
    BY <1>3 DEF Detection!CoverageLoss, Detection!Candidate
  <2>2. PICK o \in h : d = o.day
    BY DEF Detection!Days
  <2>3. PICK g \in Detection!GroupBy(old, fields) : Continues(g, h) /\ o \in g
    BY <2>1, <2>2, GroupContinued
  <2>4. d \in Detection!Days(g)
    BY <2>2, <2>3 DEF Detection!Days
  <2> QED BY <1>1, <1>3, <2>3, <2>4 DEF Detection!CoverageAnomalies
<1> QED BY <1>2, <1>3 DEF EndsOn, Detection!CoverageAnomalies

(* What a scan computes of the days it knew is what it computed before. *)
LEMMA CandidatesStable ==
  ASSUME NEW old, NEW all, Continues(old, all)
  PROVE  EndsOn(Detection!ScanCandidates(all), Detection!Days(old))
           = Detection!ScanCandidates(old)
BY UnitPriceStable, UsageStable, NewSpendStable, CoverageStable
   DEF EndsOn, Detection!ScanCandidates

LEMMA NothingIsFound == Detection!ScanCandidates({}) = {}
<1>1. \A fields : Detection!GroupBy({}, fields) = {}
  BY DEF Detection!GroupBy
<1> QED BY <1>1 DEF Detection!ScanCandidates, Detection!UnitPriceAnomalies,
              Detection!UsageAnomalies, Detection!NewSpendAnomalies, Detection!CoverageAnomalies

(* Groups grow at their end only, and what a detector says of a day looks  *)
(* at that day and those before it. So the anomalies of the past days keep *)
(* their evidence, and with it their ids, while charges arrive in order;   *)
(* and a candidate that makes a scan throw is built by every later one.    *)
THEOREM DetectionsStay == FiguresSpec => DetectionIsStable
<1>1. ASSUME FiguresTypeOK' PROVE \A r \in records' : r.day \in Int
  <2>1. ASSUME NEW p \in Providers, NEW row \in Complete(p) PROVE Record(p, row).day \in Int
    BY RecordFields, DeliveriesAssumption
  <2> QED BY <1>1, <2>1 DEF FiguresTypeOK
<1>2. FiguresNext => records \subseteq records'
  BY DEF FiguresNext, Deliver, Read
<1>3. ASSUME FiguresTypeOK', FiguresNext, \A r \in records, s \in records' \ records : r.day < s.day
      PROVE  EndsOn(Detection!ScanCandidates(records'), Detection!Days(records))
               = Detection!ScanCandidates(records)
  <2>1. CASE records = {}
    <3>1. Detection!Days(records) = {}
      BY <2>1 DEF Detection!Days
    <3> QED BY <2>1, <3>1, NothingIsFound DEF EndsOn
  <2>2. CASE records # {}
    <3>1. Continues(records, records')
      BY <1>1, <1>2, <1>3, <2>2 DEF Continues
    <3> QED BY <3>1, CandidatesStable
  <2> QED BY <2>1, <2>2
<1>4. ASSUME FiguresTypeOK', FiguresNext, \A r \in records, s \in records' \ records : r.day < s.day
      PROVE  /\ Detection!ScanThrows(records) => Detection!ScanThrows(records')
             /\ \/ Detection!ScanThrows(records')
                \/ FoundOf(Detection!Days(records), records') = Detection!ScanFinds(records)
  <2>1. Detection!ScanThrows(records) => Detection!ScanThrows(records')
    BY <1>3, <1>4 DEF EndsOn, Detection!ScanThrows
  <2> QED BY <1>3, <1>4, <2>1 DEF EndsOn, FoundOf, Detection!ScanFinds
<1>5. FiguresTypeOK' /\ [FiguresNext]_figureVars =>
        [(\A r \in records, s \in records' \ records : r.day < s.day) =>
           /\ Detection!ScanThrows(records) => Detection!ScanThrows(records')
           /\ \/ Detection!ScanThrows(records')
              \/ FoundOf(Detection!Days(records), records')
                   = Detection!ScanFinds(records)]_figureVars
  BY <1>4
<1> QED BY <1>5, FiguresTypeCorrect, PTL DEF DetectionIsStable, FiguresSpec
-----------------------------------------------------------------------------
(* The figures are sums over sets of the stored records.                   *)

LEMMA SumOfFigures ==
  ASSUME NEW f, NEW S
  PROVE  Figures!SumFunctionOnSet(f, S) = SumFunctionOnSet(f, S)
<1>1. Figures!SumFunctionOnSet(f, S) = FoldOf(f, S)[S]
  BY DEF Figures!SumFunctionOnSet, Figures!FoldFunctionOnSet, Figures!MapThenFoldSet,
         FoldOf, IsFold, Unfold, Some
<1> QED BY <1>1, SumIsFold

LEMMA SumOfCosts ==
  ASSUME NEW f, NEW S
  PROVE  Costs!SumFunctionOnSet(f, S) = SumFunctionOnSet(f, S)
<1>1. Costs!SumFunctionOnSet(f, S) = FoldOf(f, S)[S]
  BY DEF Costs!SumFunctionOnSet, Costs!FoldFunctionOnSet, Costs!MapThenFoldSet,
         FoldOf, IsFold, Unfold, Some
<1> QED BY <1>1, SumIsFold

LEMMA TruncateIsNumber ==
  ASSUME NEW n \in Int, NEW unit \in Nat \ {0} PROVE Money!Truncate(n, unit) \in Int
BY DEF Money!Truncate

LEMMA CentUnitPositive ==
  /\ Money!CentUnit \in Nat \ {0} /\ Money!CentUnit \div 2 \in Nat
  /\ Money!CentUnit = 2 * (Money!CentUnit \div 2)
BY UnitsAssumption DEF Money!CentUnit

LEMMA RecordIsNumber ==
  ASSUME FiguresTypeOK, NEW r \in records
  PROVE  /\ r.cents \in Int /\ r.cost \in Int /\ r.day \in Int /\ r.id \in Nat
         /\ r.rate \in Int /\ r.hours \in Int
         /\ r.cost = r.rate * r.hours /\ r.cents = Money!Cents(r.rate, r.hours)
<1>1. PICK p \in Providers : \E row \in Complete(p) : r = Record(p, row)
  BY DEF FiguresTypeOK
<1>0. PICK row \in Complete(p) : r = Record(p, row)
  BY <1>1
<1>2. /\ r.id = row["n"] /\ r.day = row["from"][1] /\ r.rate = row["rate"] /\ r.hours = row["hours"]
      /\ r.cost = r.rate * r.hours /\ r.cents = Money!Cents(r.rate, r.hours)
  BY <1>0 DEF Record, Exports!Normalize
<1>3. row["n"] \in Nat /\ row["from"][1] \in Int /\ row["rate"] \in Int /\ row["hours"] \in Int
  BY DeliveriesAssumption
<1>4. r.rate * r.hours \in Int
  BY <1>2, <1>3
<1>5. Money!MultiplyMoney(r.rate, r.hours) \in Int
  BY <1>4, UnitsAssumption, TruncateIsNumber DEF Money!MultiplyMoney
<1>6. Money!Cents(r.rate, r.hours) \in Int
  BY <1>5, CentUnitPositive, TruncateIsNumber DEF Money!Cents, Money!RoundMoneyToCent
<1> QED BY <1>2, <1>3, <1>4, <1>6

(* The cents, and the costs, of all records, of which the figures take the *)
(* sum over a part.                                                        *)
AllCents == [r \in records |-> r.cents]

AllCosts == [r \in records |-> r.cost]

LEMMA CentsOfPart ==
  ASSUME FiguresTypeOK, NEW S \in SUBSET records
  PROVE  /\ IsFiniteSet(S)
         /\ Figures!SumCents(S) = SumFunctionOnSet(AllCents, S)
         /\ Figures!SumCents(S) \in Int
<1>1. IsFiniteSet(S)
  BY FS_Subset DEF FiguresTypeOK
<1>2. PICK c : c = [r \in S |-> r.cents]
  OBVIOUS
<1>3. Figures!SumCents(S) = SumFunctionOnSet(c, S)
  BY <1>2, SumOfFigures DEF Figures!SumCents, Figures!SumFunction
<1>4. \A r \in S : c[r] \in Int /\ c[r] = AllCents[r]
  BY <1>2, RecordIsNumber DEF AllCents
<1> QED BY <1>1, <1>3, <1>4, SumSame, SumIsNumber

LEMMA CostOfPart ==
  ASSUME FiguresTypeOK, NEW S \in SUBSET records
  PROVE  /\ IsFiniteSet(S)
         /\ Costs!Cost(S) = SumFunctionOnSet(AllCosts, S)
         /\ Costs!Cost(S) \in Int
<1>1. IsFiniteSet(S)
  BY FS_Subset DEF FiguresTypeOK
<1>2. PICK c : c = [r \in S |-> r.cost]
  OBVIOUS
<1>3. Costs!Cost(S) = SumFunctionOnSet(c, S)
  BY <1>2, SumOfCosts DEF Costs!Cost, Costs!SumFunction
<1>4. \A r \in S : c[r] \in Int /\ c[r] = AllCosts[r]
  BY <1>2, RecordIsNumber DEF AllCosts
<1> QED BY <1>1, <1>3, <1>4, SumSame, SumIsNumber

-----------------------------------------------------------------------------
(* The reconciliation. The totals count a record once for each stakeholder *)
(* that it is assigned to.                                                 *)

AssignedTo == [s \in DOMAIN scopes |-> Figures!Assigned(Period, scopes[s])]

Totals == [s \in DOMAIN scopes |-> Statements[s].total]

Times(r) == Figures!AssignmentCount(Period, scopes, r)

LEMMA TotalsOfAssigned ==
  ASSUME FiguresTypeOK, NEW s \in DOMAIN scopes
  PROVE  /\ AssignedTo[s] \subseteq Period
         /\ Totals[s] = SumFunctionOnSet(AllCents, AssignedTo[s])
<1>1. AssignedTo[s] = Figures!Assigned(Period, scopes[s])
  BY DEF AssignedTo
<1>2. AssignedTo[s] \subseteq Period
  BY <1>1 DEF Figures!Assigned, Figures!RecordsForScope
<1>3. Statements[s].total = Figures!Total(Period, scopes[s])
  BY DEF Statements, StatementData, Figures!Generated, Figures!Statement
<1>4. Totals[s] = Figures!SumCents(AssignedTo[s])
  BY <1>1, <1>3 DEF Totals, Figures!Total
<1>5. AssignedTo[s] \in SUBSET records
  BY <1>2 DEF Period, DaysFrom
<1> QED BY <1>2, <1>4, <1>5, CentsOfPart

LEMMA TimesAssigned ==
  ASSUME FiguresTypeOK, NEW r \in Period
  PROVE  /\ Times(r) = Cardinality(Having(DOMAIN scopes, AssignedTo, r))
         /\ Times(r) \in Nat /\ Times(r) <= Cardinality(DOMAIN scopes)
<1> DEFINE to == {s \in DOMAIN scopes : r \in Figures!Assigned(Period, scopes[s])}
<1>1. Having(DOMAIN scopes, AssignedTo, r) = to
  BY DEF Having, AssignedTo
<1>2. IsFiniteSet(DOMAIN scopes)
  BY ScopesAssumption DEF FiguresTypeOK
<1>3. IsFiniteSet(to) /\ Cardinality(to) <= Cardinality(DOMAIN scopes)
  BY <1>2, FS_Subset
<1>4. Times(r) = Figures!Cardinality(to)
  BY DEF Times, Figures!AssignmentCount
<1>5. Times(r) = Cardinality(to)
  <2> HIDE DEF to
  <2> QED BY <1>4 DEF Figures!Cardinality, Cardinality
<1> QED BY <1>1, <1>3, <1>5, FS_CardinalityType

LEMMA PartsOfPeriod ==
  ASSUME FiguresTypeOK
  PROVE  /\ Period \in SUBSET records /\ IsFiniteSet(Period)
         /\ Figures!Unallocated(Period, scopes) = {r \in Period : Times(r) = 0}
         /\ Figures!Overlapping(Period, scopes) = {r \in Period : Times(r) > 1}
<1>1. Period \in SUBSET records
  BY DEF Period, DaysFrom
<1>2. IsFiniteSet(Period)
  BY <1>1, CentsOfPart
<1> QED BY <1>1, <1>2 DEF Times, Figures!Unallocated, Figures!Overlapping

(* Each count of a record is its first one or counts it again. *)
LEMMA TotalsAreCounts ==
  ASSUME FiguresTypeOK
  PROVE  LET again == [r \in Figures!Overlapping(Period, scopes) |-> Repeated(r)]
         IN  SumFunctionOnSet(Totals, DOMAIN scopes)
               = Figures!SumCents(Period \ Figures!Unallocated(Period, scopes))
                   + SumFunctionOnSet(again, Figures!Overlapping(Period, scopes))
<1> DEFINE U == DOMAIN scopes
           none == Figures!Unallocated(Period, scopes)
           over == Figures!Overlapping(Period, scopes)
<1>1. PICK counted : counted = Counted(U, AssignedTo, Period, AllCents)
  OBVIOUS
<1>2. PICK first : first = [r \in Period |-> IF r \in Period \ none THEN AllCents[r] ELSE 0]
  OBVIOUS
<1>3. PICK more : more = [r \in Period |-> IF r \in over THEN Repeated(r) ELSE 0]
  OBVIOUS
<1>4. PICK again : again = [r \in over |-> Repeated(r)]
  OBVIOUS
<1>5. /\ IsFiniteSet(Period) /\ Period \in SUBSET records
      /\ none = {r \in Period : Times(r) = 0} /\ over = {r \in Period : Times(r) > 1}
  BY PartsOfPeriod
<1>6. IsFiniteSet(U)
  BY ScopesAssumption DEF FiguresTypeOK
<1>7. ASSUME NEW r \in Period
      PROVE  /\ AllCents[r] \in Int /\ AllCents[r] = r.cents /\ Times(r) \in Nat
             /\ counted[r] = Times(r) * AllCents[r]
             /\ Repeated(r) = (Times(r) - 1) * AllCents[r] /\ Repeated(r) \in Int
  <2>1. AllCents[r] \in Int /\ AllCents[r] = r.cents
    BY <1>5, RecordIsNumber DEF AllCents
  <2>2. Times(r) \in Nat /\ Times(r) = Cardinality(Having(U, AssignedTo, r))
    BY TimesAssigned
  <2>3. counted[r] = Times(r) * AllCents[r]
    BY <1>1, <2>2 DEF Counted
  <2>4. Repeated(r) = (Times(r) - 1) * AllCents[r]
    BY <2>1 DEF Repeated, Times
  <2> QED BY <2>1, <2>2, <2>3, <2>4
<1>8. SumFunctionOnSet(Totals, U) = SumFunctionOnSet(counted, Period)
  <2>1. /\ \A s \in U : AssignedTo[s] \subseteq Period
        /\ \A s \in U : Totals[s] = SumFunctionOnSet(AllCents, AssignedTo[s])
    BY TotalsOfAssigned
  <2>2. \A r \in Period : AllCents[r] \in Int
    BY <1>7
  <2> HIDE DEF U
  <2> QED BY <1>1, <1>5, <1>6, <2>1, <2>2, DoubleCount
<1>9. \A r \in Period : /\ first[r] \in Int /\ more[r] \in Int
                        /\ counted[r] = first[r] + more[r]
  <2> SUFFICES ASSUME NEW r \in Period
               PROVE  first[r] \in Int /\ more[r] \in Int /\ counted[r] = first[r] + more[r]
    OBVIOUS
  <2> DEFINE k == Times(r)
             c == AllCents[r]
  <2>1. /\ k \in Nat /\ c \in Int /\ counted[r] = k * c
        /\ first[r] = (IF k = 0 THEN 0 ELSE c) /\ more[r] = (IF k > 1 THEN (k - 1) * c ELSE 0)
    BY <1>2, <1>3, <1>5, <1>7
  <2> HIDE DEF k, c
  <2>2. CASE k = 0
    BY <2>1, <2>2
  <2>3. CASE k = 1
    BY <2>1, <2>3
  <2>4. CASE k > 1
    BY <2>1, <2>4
  <2> QED BY <2>1, <2>2, <2>3, <2>4
<1>10. SumFunctionOnSet(counted, Period)
         = SumFunctionOnSet(first, Period) + SumFunctionOnSet(more, Period)
  BY <1>5, <1>9, SumPlus
<1>11. SumFunctionOnSet(first, Period) = SumFunctionOnSet(AllCents, Period \ none)
  <2>1. Period \ none \in SUBSET Period
    OBVIOUS
  <2> HIDE DEF none
  <2> QED BY <1>2, <1>5, <1>9, <2>1, SumOfPart
<1>12. SumFunctionOnSet(more, Period) = SumFunctionOnSet(again, over)
  <2>1. over \in SUBSET Period
    BY <1>5
  <2>2. \A r \in Period : /\ more[r] \in Int
                          /\ r \in over => more[r] = again[r]
                          /\ r \notin over => more[r] = 0
    BY <1>3, <1>4, <1>9
  <2> HIDE DEF over
  <2> QED BY <1>5, <2>1, <2>2, SumOfPart
<1>13. Period \ none \in SUBSET records
  BY <1>5
<1>14. Figures!SumCents(Period \ none) = SumFunctionOnSet(AllCents, Period \ none)
  BY <1>13, CentsOfPart
<1> QED BY <1>4, <1>8, <1>10, <1>11, <1>12, <1>14

LEMMA OverlapIsNumber ==
  ASSUME FiguresTypeOK
  PROVE  LET again == [r \in Figures!Overlapping(Period, scopes) |-> Repeated(r)]
         IN  SumFunctionOnSet(again, Figures!Overlapping(Period, scopes)) \in Int
<1>1. PICK over : over = Figures!Overlapping(Period, scopes)
  OBVIOUS
<1>2. PICK again : again = [r \in over |-> Repeated(r)]
  OBVIOUS
<1>3. over = {r \in Period : Times(r) > 1} /\ over \in SUBSET records /\ IsFiniteSet(over)
  BY <1>1, PartsOfPeriod, CentsOfPart
<1>4. \A r \in over : again[r] \in Int
  BY <1>2, <1>3, RecordIsNumber, TimesAssigned DEF Repeated, Times
<1> QED BY <1>1, <1>2, <1>3, <1>4, SumIsNumber

(* What is counted again by another stakeholder, with two of them, is the *)
(* cost of every record that both have.                                    *)
LEMMA OverlapOfTwo ==
  ASSUME FiguresTypeOK, Cardinality(DOMAIN scopes) = 2
  PROVE  LET again == [r \in Figures!Overlapping(Period, scopes) |-> Repeated(r)]
         IN  SumFunctionOnSet(again, Figures!Overlapping(Period, scopes))
               = Figures!SumCents(Figures!Overlapping(Period, scopes))
<1>1. PICK over : over = Figures!Overlapping(Period, scopes)
  OBVIOUS
<1>2. PICK again : again = [r \in over |-> Repeated(r)]
  OBVIOUS
<1>3. over = {r \in Period : Times(r) > 1} /\ over \in SUBSET records
  BY <1>1, PartsOfPeriod
<1>4. \A r \in over : again[r] \in Int /\ again[r] = AllCents[r]
  <2> SUFFICES ASSUME NEW r \in over PROVE again[r] \in Int /\ again[r] = AllCents[r]
    OBVIOUS
  <2>1. r \in Period /\ Times(r) > 1 /\ r \in records
    BY <1>3
  <2>2. Times(r) \in Nat /\ Times(r) <= 2
    BY <2>1, TimesAssigned
  <2>3. Times(r) = 2
    BY <2>1, <2>2
  <2>4. again[r] = (2 - 1) * r.cents
    BY <1>2, <2>3 DEF Repeated, Times
  <2>5. r.cents \in Int /\ AllCents[r] = r.cents
    BY <2>1, RecordIsNumber DEF AllCents
  <2> QED BY <2>4, <2>5
<1>5. SumFunctionOnSet(again, over) = SumFunctionOnSet(AllCents, over)
  BY <1>3, <1>4, CentsOfPart, SumSame
<1> QED BY <1>1, <1>2, <1>3, <1>5, CentsOfPart

LEMMA CentsOfNone == ASSUME FiguresTypeOK PROVE Figures!SumCents({}) = 0
BY CentsOfPart, SumOfNone

LEMMA AmountTold ==
  ASSUME NEW kind, NEW sum, NEW named, named = {} => sum = 0
  PROVE  LET warned == IF named = {} THEN {}
                       ELSE {[code |-> kind, amount |-> sum, records |-> named]}
         IN  {w.amount : w \in warned} \cup {0} = {sum, 0}
<1>1. CASE named = {}
  BY <1>1
<1>2. CASE named # {}
  <2>1. PICK told : told = [code |-> kind, amount |-> sum, records |-> named]
    OBVIOUS
  <2>2. {w.amount : w \in {told}} = {sum}
    BY <2>1
  <2> QED BY <1>2, <2>1, <2>2
<1> QED BY <1>1, <1>2

LEMMA WarningsTold ==
  ASSUME FiguresTypeOK
  PROVE  LET rec == Figures!Reconciliation(Period, scopes)
             Warned(code) == {w.amount : w \in {w \in Figures!ScopeWarnings(Period, scopes) :
                                                 w.code = code}}
         IN  /\ Warned("overlap_detected") \cup {0} = {rec.overlap, 0}
             /\ Warned("unallocated_spend_detected") \cup {0} = {rec.unallocated, 0}
<1> DEFINE rec == Figures!Reconciliation(Period, scopes)
           none == Figures!Unallocated(Period, scopes)
           over == Figures!Overlapping(Period, scopes)
           overlap == IF over = {} THEN {}
                      ELSE {[code |-> "overlap_detected", amount |-> Figures!SumCents(over),
                             records |-> over]}
           unallocated == IF none = {} THEN {}
                          ELSE {[code |-> "unallocated_spend_detected",
                                 amount |-> rec.unallocated, records |-> none]}
<1>1. Figures!ScopeWarnings(Period, scopes) = overlap \cup unallocated
  BY DEF Figures!ScopeWarnings
<1>2. /\ rec.overlap = Figures!SumCents(over)
      /\ rec.unallocated = Figures!SumCents(Period) - Figures!SumCents(Period \ none)
  BY DEF Figures!Reconciliation
<1>3. over = {} => rec.overlap = 0
  BY <1>2, CentsOfNone
<1>4. none = {} => rec.unallocated = 0
  <2>1. Figures!SumCents(Period) \in Int
    BY PartsOfPeriod, CentsOfPart
  <2>2. none = {} => Period \ none = Period
    OBVIOUS
  <2> QED BY <1>2, <2>1, <2>2
<1>5. {w \in overlap \cup unallocated : w.code = "overlap_detected"} = overlap
  <2> HIDE DEF rec, over, none
  <2> QED OBVIOUS
<1>6. {w \in overlap \cup unallocated : w.code = "unallocated_spend_detected"} = unallocated
  <2> HIDE DEF rec, over, none
  <2> QED OBVIOUS
<1>7. {w.amount : w \in overlap} \cup {0} = {rec.overlap, 0}
  <2> HIDE DEF rec, over
  <2> QED BY <1>2, <1>3, AmountTold
<1>8. {w.amount : w \in unallocated} \cup {0} = {rec.unallocated, 0}
  <2> HIDE DEF rec, none
  <2> QED BY <1>4, AmountTold
<1> HIDE DEF overlap, unallocated
<1> QED BY <1>1, <1>5, <1>6, <1>7, <1>8

(* What the statements of all stakeholders count is the spend of the tenant: *)
(* every record counts once for each stakeholder that has it, and the        *)
(* reconciliation tells the records that are counted again and those that    *)
(* are not counted. So it is for any number of stakeholders and scopes.      *)
THEOREM StatementsReconcile == FiguresSpec => []TotalsReconcile
<1>1. ASSUME FiguresTypeOK PROVE TotalsReconcile
  <2> DEFINE none == Figures!Unallocated(Period, scopes)
             over == Figures!Overlapping(Period, scopes)
             rec == Figures!Reconciliation(Period, scopes)
             again == [r \in over |-> Repeated(r)]
             totals == [s \in DOMAIN scopes |-> Statements[s].total]
             allocated == Figures!SumCents(Period \ none)
  <2>1. /\ SumFunction(totals) = SumFunctionOnSet(Totals, DOMAIN scopes)
        /\ SumFunction(again) = SumFunctionOnSet(again, over)
    BY DEF SumFunction, Totals
  <2>2. SumFunctionOnSet(Totals, DOMAIN scopes) = allocated + SumFunctionOnSet(again, over)
    BY <1>1, TotalsAreCounts
  <2>3. /\ rec.tenantTotal = Figures!SumCents(Period)
        /\ rec.unallocated = Figures!SumCents(Period) - allocated
        /\ rec.overlap = Figures!SumCents(over)
    BY DEF Figures!Reconciliation
  <2>4. Figures!SumCents(Period) \in Int /\ allocated \in Int
    BY <1>1, PartsOfPeriod, CentsOfPart
  <2>5. SumFunctionOnSet(again, over) \in Int
    BY <1>1, OverlapIsNumber
  <2>6. SumFunction(totals) - SumFunction(again) + rec.unallocated = rec.tenantTotal
    <3> HIDE DEF totals, again, rec, allocated
    <3> QED BY <2>1, <2>2, <2>3, <2>4, <2>5
  <2>7. Cardinality(DOMAIN scopes) = 2 => SumFunction(again) = rec.overlap
    BY <1>1, <2>1, <2>3, OverlapOfTwo
  <2> QED BY <1>1, <2>6, <2>7, WarningsTold DEF TotalsReconcile
<1> QED BY <1>1, FiguresTypeCorrect, PTL

-----------------------------------------------------------------------------
(* Rounding to cents. Truncation goes toward zero.                         *)

LEMMA TruncateUp ==
  ASSUME NEW n \in Nat, NEW unit \in Nat \ {0}, NEW t, t = Money!Truncate(n, unit)
  PROVE  t \in Nat /\ unit * t <= n /\ n <= unit * t + unit - 1
<1>1. t = n \div unit
  BY DEF Money!Truncate
<1> QED BY <1>1

LEMMA TruncateDown ==
  ASSUME NEW n \in Int, n < 0, NEW unit \in Nat \ {0}, NEW t, t = Money!Truncate(n, unit)
  PROVE  t \in Int /\ t <= 0 /\ n <= unit * t /\ unit * t <= n + unit - 1
<1>1. t = -((-n) \div unit)
  BY DEF Money!Truncate
<1>2. PICK m : m = -n
  OBVIOUS
<1>3. PICK d : d = m \div unit
  OBVIOUS
<1>4. m \in Nat /\ d \in Nat /\ unit * d <= m /\ m <= unit * d + unit - 1
  BY <1>2, <1>3
<1>5. t = -d /\ n = -m /\ unit * t = -(unit * d)
  BY <1>1, <1>2, <1>3, <1>4
<1> QED BY <1>4, <1>5

LEMMA Scaled ==
  ASSUME NEW u \in Nat, NEW m \in Int, NEW n \in Int, m <= n PROVE u * m <= u * n
OBVIOUS

LEMMA Distributes ==
  ASSUME NEW u \in Int, NEW m \in Int, NEW n \in Int
  PROVE  u * (m + n) = u * m + u * n /\ u * (m - n) = u * m - u * n
OBVIOUS

(* Exact is an amount in the unit of a rate times a usage. *)
LEMMA RoundedCharge ==
  ASSUME NEW exact \in Nat, NEW u \in Nat \ {0}, NEW h \in Nat \ {0},
         NEW money, money = Money!Truncate(exact, u),
         NEW k, k = Money!Truncate(money + h, 2 * h)
  PROVE  LET d == u * ((2 * h) * k) - exact
         IN  d \in Int /\ d <= u * h /\ -d <= u * h
<1> DEFINE c == 2 * h
<1>0. c \in Nat \ {0} /\ c = 2 * h
  OBVIOUS
<1>1. money \in Nat /\ u * money <= exact /\ exact <= u * money + u - 1
  BY TruncateUp
<1>2. money + h \in Nat
  BY <1>1
<1> HIDE DEF c
<1>3. k \in Nat /\ c * k <= money + h /\ money + h <= c * k + c - 1
  BY <1>0, <1>2, TruncateUp
<1>4. PICK ck : ck = c * k
  OBVIOUS
<1>5. ck \in Int
  BY <1>0, <1>3, <1>4
<1>6. u * ck <= u * (money + h)
  BY <1>1, <1>3, <1>4, <1>5, Scaled
<1>7. u * (money + h) <= u * (ck + (c - 1))
  BY <1>0, <1>1, <1>3, <1>4, <1>5, Scaled
<1>8. u * (money + h) = u * money + u * h
  BY <1>1, Distributes
<1>9. u * (ck + (c - 1)) = u * ck + u * (c - 1)
  BY <1>0, <1>5, Distributes
<1>10. u * (c - 1) = u * c - u * 1 /\ u * c = u * h + u * h
  BY <1>0, Distributes
<1>11. u * money \in Int /\ u * h \in Int /\ u * ck \in Int /\ u * c \in Int /\ u * 1 = u
  BY <1>0, <1>1, <1>5
<1>12. PICK M, H, X, C : M = u * money /\ H = u * h /\ X = u * ck /\ C = u * c
  OBVIOUS
<1>13. X - exact \in Int /\ X - exact <= H /\ -(X - exact) <= H
  BY <1>1, <1>6, <1>7, <1>8, <1>9, <1>10, <1>11, <1>12
<1> QED BY <1>0, <1>4, <1>12, <1>13

LEMMA RoundedCredit ==
  ASSUME NEW exact \in Int, exact < 0, NEW u \in Nat \ {0}, NEW h \in Nat \ {0},
         NEW money, money = Money!Truncate(exact, u),
         NEW k, k = Money!Truncate(money + h, 2 * h)
  PROVE  LET d == u * ((2 * h) * k) - exact
         IN  d \in Int /\ d <= 3 * (u * h) /\ 0 <= d
<1> DEFINE c == 2 * h
<1>0. c \in Nat \ {0} /\ c = 2 * h
  OBVIOUS
<1>1. money \in Int /\ money <= 0 /\ exact <= u * money /\ u * money <= exact + u - 1
  BY TruncateDown
<1>2. money + h \in Int
  BY <1>1
<1> HIDE DEF c
<1>3. u * (money + h) = u * money + u * h
  BY <1>1, Distributes
<1>4. CASE money + h < 0
  <2>1. k \in Int /\ money + h <= c * k /\ c * k <= money + h + c - 1
    BY <1>0, <1>2, <1>4, TruncateDown
  <2>2. PICK ck : ck = c * k
    OBVIOUS
  <2>3. ck \in Int
    BY <1>0, <2>1, <2>2
  <2>4. u * (money + h) <= u * ck
    BY <1>2, <2>1, <2>2, <2>3, Scaled
  <2>5. u * ck <= u * ((money + h) + (c - 1))
    BY <1>0, <1>2, <2>1, <2>2, <2>3, Scaled
  <2>6. u * ((money + h) + (c - 1)) = u * (money + h) + u * (c - 1)
    BY <1>0, <1>2, Distributes
  <2>7. u * (c - 1) = u * c - u * 1 /\ u * c = u * h + u * h
    BY <1>0, Distributes
  <2>8. u * money \in Int /\ u * h \in Nat /\ u * ck \in Int /\ u * c \in Int /\ u * 1 = u
    BY <1>0, <1>1, <2>3
  <2>9. PICK M, H, X, C : M = u * money /\ H = u * h /\ X = u * ck /\ C = u * c
    OBVIOUS
  <2>10. X - exact \in Int /\ X - exact <= 3 * H /\ 0 <= X - exact
    BY <1>1, <1>3, <2>4, <2>5, <2>6, <2>7, <2>8, <2>9
  <2> QED BY <1>0, <2>2, <2>9, <2>10
<1>5. CASE money + h >= 0
  <2>1. k \in Nat /\ c * k <= money + h
    BY <1>0, <1>2, <1>5, TruncateUp
  <2>2. k = 0
    <3>1. CASE k >= 1
      <4>1. c * 1 <= c * k
        BY <1>0, <2>1, <3>1, Scaled
      <4>2. c * k \in Int
        BY <1>0, <2>1
      <4>3. PICK ck : ck = c * k
        OBVIOUS
      <4> QED BY <1>0, <1>1, <2>1, <4>1, <4>2, <4>3
    <3> QED BY <2>1, <3>1
  <2>3. u * (c * k) = 0
    BY <1>0, <2>2
  <2>4. u * 0 <= u * (money + h) /\ u * 1 <= u * h
    BY <1>2, <1>5, Scaled
  <2>5. u * money \in Int /\ u * h \in Nat /\ u * 1 = u /\ u * 0 = 0
    BY <1>1
  <2>6. PICK M, H : M = u * money /\ H = u * h
    OBVIOUS
  <2>7. 0 - exact <= 3 * H /\ 0 <= 0 - exact
    BY <1>1, <1>3, <2>4, <2>5, <2>6
  <2> QED BY <1>0, <2>3, <2>6, <2>7
<1> QED BY <1>2, <1>4, <1>5

(* The difference that rounding makes to one record, and what bounds it. *)
Cent == Money!CentUnit * UsageUnit

Off(r) == Cent * r.cents - r.cost

LEMMA RoundingOfRecord ==
  ASSUME FiguresTypeOK, NEW r \in Period
  PROVE  /\ r \in records /\ Cent \in Nat /\ Off(r) \in Int
         /\ 2 * Off(r) <= (IF r \in Credits THEN 3 * Cent ELSE Cent)
         /\ -2 * Off(r) <= (IF r \in Credits THEN 0 ELSE Cent)
<1>1. r \in records
  BY DEF Period, DaysFrom
<1>2. PICK u, h : u = UsageUnit /\ h = Money!CentUnit \div 2
  OBVIOUS
<1>3. u \in Nat \ {0} /\ h \in Nat \ {0} /\ Money!CentUnit = 2 * h
  BY <1>2, UnitsAssumption, CentUnitPositive
<1>4. PICK money : money = Money!Truncate(r.cost, u)
  OBVIOUS
<1>5. PICK k : k = Money!Truncate(money + h, 2 * h)
  OBVIOUS
<1>6. r.cents = k /\ r.cost \in Int /\ k \in Int
  <2>1. r.cents = Money!Cents(r.rate, r.hours) /\ r.cost = r.rate * r.hours
        /\ r.cost \in Int /\ r.cents \in Int
    BY <1>1, RecordIsNumber
  <2>2. Money!MultiplyMoney(r.rate, r.hours) = money
    BY <1>2, <1>4, <2>1 DEF Money!MultiplyMoney
  <2>3. Money!Cents(r.rate, r.hours) = Money!Truncate(money + h, Money!CentUnit)
    BY <1>2, <2>2 DEF Money!Cents, Money!RoundMoneyToCent
  <2>4. r.cents = k
    BY <1>3, <1>5, <2>1, <2>3
  <2> QED BY <2>1, <2>4
<1>7. Cent = u * (2 * h) /\ Cent = 2 * (u * h) /\ Cent \in Nat
  BY <1>2, <1>3 DEF Cent
<1>8. u * ((2 * h) * k) = Cent * k
  <2>1. \A a, b, c \in Int : a * (b * c) = (a * b) * c
    OBVIOUS
  <2> QED BY <1>3, <1>6, <1>7, <2>1
<1>9. Off(r) = u * ((2 * h) * k) - r.cost
  BY <1>6, <1>8 DEF Off
<1>10. r \in Credits <=> r.cost < 0
  BY DEF Credits
<1>11. PICK half : half = u * h
  OBVIOUS
<1>12. half \in Nat /\ Cent = 2 * half
  BY <1>3, <1>7, <1>11
<1>13. CASE r.cost < 0
  <2>1. Off(r) \in Int /\ Off(r) <= 3 * half /\ 0 <= Off(r)
    BY <1>3, <1>4, <1>5, <1>6, <1>9, <1>11, <1>13, RoundedCredit
  <2> QED BY <1>1, <1>7, <1>10, <1>12, <1>13, <2>1
<1>14. CASE r.cost >= 0
  <2>1. r.cost \in Nat
    BY <1>6, <1>14
  <2>2. Off(r) \in Int /\ Off(r) <= half /\ -Off(r) <= half
    BY <1>3, <1>4, <1>5, <1>9, <1>11, <2>1, RoundedCharge
  <2>3. ~(r.cost < 0)
    BY <2>1
  <2> QED BY <1>1, <1>7, <1>10, <1>12, <2>2, <2>3
<1> QED BY <1>6, <1>13, <1>14

(* What a query for the period selects. *)
LEMMA PeriodIsFiltered ==
  ASSUME FiguresTypeOK
  PROVE  Costs!Filtered(records, Tags, [from |-> FirstDay, to |-> FirstDay + PeriodDays - 1])
           = Period
<1> DEFINE q == [from |-> FirstDay, to |-> FirstDay + PeriodDays - 1]
<1>1. DOMAIN q = {"from", "to"} /\ q["from"] = FirstDay /\ q["to"] = FirstDay + PeriodDays - 1
  OBVIOUS
<1>2. ASSUME NEW r \in records
      PROVE  /\ Costs!MatchesQuery(r, q) <=> FirstDay <= r.day /\ r.day < FirstDay + PeriodDays
             /\ ~Costs!Given(q, "dimension")
  <2> HIDE DEF q
  <2>1. Costs!MatchesQuery(r, q) <=> r.day >= FirstDay /\ r.day <= FirstDay + PeriodDays - 1
    BY <1>1 DEF Costs!MatchesQuery, Costs!Given
  <2>2. r.day \in Int /\ FirstDay \in Int /\ PeriodDays \in Int
    BY RecordIsNumber, PeriodAssumption
  <2> QED BY <1>1, <2>1, <2>2 DEF Costs!Given
<1> HIDE DEF q
<1>3. Costs!Filtered(records, Tags, q) = Period
  BY <1>2 DEF Costs!Filtered, Period, DaysFrom
<1> QED BY <1>3 DEF q

(* The differences of the records add up to that of the sums. *)
LEMMA OffsAddUp ==
  ASSUME FiguresTypeOK, NEW sign \in Int, NEW off, off = [r \in Period |-> sign * Off(r)]
  PROVE  SumFunctionOnSet(off, Period)
           = sign * (Cent * Figures!SumCents(Period) - Costs!Cost(Period))
<1>1. /\ Period \in SUBSET records /\ IsFiniteSet(Period)
      /\ Figures!SumCents(Period) = SumFunctionOnSet(AllCents, Period)
      /\ Costs!Cost(Period) = SumFunctionOnSet(AllCosts, Period)
      /\ Figures!SumCents(Period) \in Int /\ Costs!Cost(Period) \in Int
  BY PartsOfPeriod, CentsOfPart, CostOfPart
<1>2. PICK scaled, negated, each :
        /\ scaled = [r \in Period |-> Cent * r.cents]
        /\ negated = [r \in Period |-> (-1) * r.cost]
        /\ each = [r \in Period |-> Off(r)]
  OBVIOUS
<1>3. Cent \in Nat
  BY CentUnitPositive, UnitsAssumption DEF Cent
<1>4. ASSUME NEW r \in Period
      PROVE  /\ AllCents[r] \in Int /\ scaled[r] = Cent * AllCents[r] /\ scaled[r] \in Int
             /\ AllCosts[r] \in Int /\ negated[r] = (-1) * AllCosts[r] /\ negated[r] \in Int
             /\ each[r] = scaled[r] + negated[r] /\ each[r] \in Int
             /\ off[r] = sign * each[r]
  <2>1. r.cents \in Int /\ r.cost \in Int /\ AllCents[r] = r.cents /\ AllCosts[r] = r.cost
    BY <1>1, RecordIsNumber DEF AllCents, AllCosts
  <2>2. /\ scaled[r] = Cent * r.cents /\ negated[r] = (-1) * r.cost
        /\ each[r] = Cent * r.cents - r.cost /\ off[r] = sign * each[r]
    BY <1>2 DEF Off
  <2>3. PICK c : c = Cent * r.cents
    OBVIOUS
  <2>4. c \in Int
    BY <1>3, <2>1, <2>3
  <2> QED BY <2>1, <2>2, <2>3, <2>4
<1>5. SumFunctionOnSet(scaled, Period) = Cent * Figures!SumCents(Period)
  BY <1>1, <1>3, <1>4, SumTimes
<1>6. SumFunctionOnSet(negated, Period) = (-1) * Costs!Cost(Period)
  BY <1>1, <1>4, SumTimes
<1>7. SumFunctionOnSet(each, Period)
        = SumFunctionOnSet(scaled, Period) + SumFunctionOnSet(negated, Period)
  BY <1>1, <1>4, SumPlus
<1>8. SumFunctionOnSet(off, Period) = sign * SumFunctionOnSet(each, Period)
  BY <1>1, <1>4, SumTimes
<1>9. SumFunctionOnSet(each, Period) = Cent * Figures!SumCents(Period) - Costs!Cost(Period)
  <2>1. PICK c : c = Cent * Figures!SumCents(Period)
    OBVIOUS
  <2>2. c \in Int
    BY <1>1, <1>3, <2>1
  <2> QED BY <1>1, <1>5, <1>6, <1>7, <2>1, <2>2
<1> QED BY <1>8, <1>9

(* A bound for the charges and one for the credits. *)
LEMMA BoundsAddUp ==
  ASSUME FiguresTypeOK, NEW a \in Int, NEW b \in Int,
         NEW bound, bound = [r \in Period |-> IF r \in Credits THEN a ELSE b]
  PROVE  /\ SumFunctionOnSet(bound, Period)
               = a * Cardinality(Credits) + b * Cardinality(Period \ Credits)
         /\ Cardinality(Credits) \in Nat /\ Cardinality(Period \ Credits) \in Nat
<1>1. IsFiniteSet(Period) /\ Credits \in SUBSET Period /\ Period \ Credits \in SUBSET Period
  BY PartsOfPeriod DEF Credits
<1>2. IsFiniteSet(Credits) /\ IsFiniteSet(Period \ Credits)
  BY <1>1, FS_Subset
<1>3. PICK ofCredits, ofCharges :
        /\ ofCredits = [r \in Period |-> IF r \in Credits THEN a ELSE 0]
        /\ ofCharges = [r \in Period |-> IF r \in Period \ Credits THEN b ELSE 0]
  OBVIOUS
<1>4. \A r \in Period : /\ ofCredits[r] \in Int /\ ofCharges[r] \in Int
                        /\ bound[r] = ofCredits[r] + ofCharges[r]
                        /\ r \in Credits => ofCredits[r] = bound[r]
                        /\ r \notin Credits => ofCredits[r] = 0
                        /\ r \in Period \ Credits => ofCharges[r] = bound[r]
                        /\ r \notin Period \ Credits => ofCharges[r] = 0
  BY <1>3
<1>5. SumFunctionOnSet(bound, Period)
        = SumFunctionOnSet(ofCredits, Period) + SumFunctionOnSet(ofCharges, Period)
  BY <1>1, <1>4, SumPlus
<1>6. SumFunctionOnSet(ofCredits, Period) = SumFunctionOnSet(bound, Credits)
  BY <1>1, <1>4, SumOfPart
<1>7. SumFunctionOnSet(ofCharges, Period) = SumFunctionOnSet(bound, Period \ Credits)
  BY <1>1, <1>4, SumOfPart
<1>8. \A r \in Credits : bound[r] = a
  BY <1>1
<1>9. \A r \in Period \ Credits : bound[r] = b
  OBVIOUS
<1>10. SumFunctionOnSet(bound, Credits) = a * Cardinality(Credits)
  BY <1>2, <1>8, SumConstant
<1>11. SumFunctionOnSet(bound, Period \ Credits) = b * Cardinality(Period \ Credits)
  BY <1>2, <1>9, SumConstant
<1> QED BY <1>2, <1>5, <1>6, <1>7, <1>10, <1>11, FS_CardinalityType

(* Statements and summaries differ by the rounding of the records, of which *)
(* each is off by half a cent at most, or, if it is a credit, by one and a  *)
(* half and never to the tenant's advantage.                                *)
THEOREM StatementsFollow == FiguresSpec => []StatementsFollowSummary
<1>1. ASSUME FiguresTypeOK PROVE StatementsFollowSummary
  <2>1. PICK difference : difference = Cent * Figures!SumCents(Period) - Costs!Cost(Period)
    OBVIOUS
  <2>2. PICK credits, charges : /\ credits = Cardinality(Credits)
                                /\ charges = Cardinality(Period \ Credits)
    OBVIOUS
  <2>3. IsFiniteSet(Period) /\ Cent \in Nat
    BY <1>1, PartsOfPeriod, CentUnitPositive, UnitsAssumption DEF Cent
  <2>4. 2 * difference <= Cent * (charges + 3 * credits)
    <3>1. PICK off, bound : /\ off = [r \in Period |-> 2 * Off(r)]
                            /\ bound = [r \in Period |-> IF r \in Credits THEN 3 * Cent ELSE Cent]
      OBVIOUS
    <3>2. SumFunctionOnSet(off, Period) = 2 * difference
      BY <1>1, <2>1, <3>1, OffsAddUp
    <3>0. 3 * Cent \in Int /\ Cent \in Int
      BY <2>3
    <3>3. /\ SumFunctionOnSet(bound, Period) = (3 * Cent) * credits + Cent * charges
          /\ credits \in Nat /\ charges \in Nat
      BY <1>1, <2>2, <3>0, <3>1, BoundsAddUp
    <3>4. \A r \in Period : off[r] \in Int /\ bound[r] \in Int /\ off[r] <= bound[r]
      BY <1>1, <2>3, <3>1, RoundingOfRecord
    <3>5. SumFunctionOnSet(off, Period) <= SumFunctionOnSet(bound, Period)
      BY <2>3, <3>4, SumAtMost
    <3>6. (3 * Cent) * credits + Cent * charges = Cent * (charges + 3 * credits)
      BY <2>3, <3>3
    <3> QED BY <3>2, <3>3, <3>5, <3>6
  <2>5. -2 * difference <= Cent * charges
    <3>1. PICK off, bound : /\ off = [r \in Period |-> (-2) * Off(r)]
                            /\ bound = [r \in Period |-> IF r \in Credits THEN 0 ELSE Cent]
      OBVIOUS
    <3>2. SumFunctionOnSet(off, Period) = (-2) * difference
      BY <1>1, <2>1, <3>1, OffsAddUp
    <3>0. 0 \in Int /\ Cent \in Int
      BY <2>3
    <3>3. /\ SumFunctionOnSet(bound, Period) = 0 * credits + Cent * charges
          /\ credits \in Nat /\ charges \in Nat
      BY <1>1, <2>2, <3>0, <3>1, BoundsAddUp
    <3>4. \A r \in Period : off[r] \in Int /\ bound[r] \in Int /\ off[r] <= bound[r]
      BY <1>1, <2>3, <3>1, RoundingOfRecord
    <3>5. SumFunctionOnSet(off, Period) <= SumFunctionOnSet(bound, Period)
      BY <2>3, <3>4, SumAtMost
    <3>6. 0 * credits + Cent * charges = Cent * charges
      <4>1. Cent * charges \in Int /\ 0 * credits = 0
        BY <2>3, <3>3
      <4> QED BY <4>1
    <3>7. (-2) * difference <= Cent * charges
      BY <3>2, <3>3, <3>5, <3>6
    <3>8. difference \in Int
      BY <1>1, <2>1, <2>3, PartsOfPeriod, CentsOfPart, CostOfPart
    <3> QED BY <3>7, <3>8
  <2>6. Costs!Summary(records, Tags,
          [from |-> FirstDay, to |-> FirstDay + PeriodDays - 1]).total = Costs!Cost(Period)
    BY <1>1, PeriodIsFiltered DEF Costs!Summary
  <2> QED BY <2>1, <2>2, <2>4, <2>5, <2>6 DEF StatementsFollowSummary, Cent
<1> QED BY <1>1, FiguresTypeCorrect, PTL

-----------------------------------------------------------------------------
(* The views of the records that a query selects. Where they are divided   *)
(* among groups, the sums of the groups make the sum of what is divided.   *)

(* The groups U, each with its part A[u] of R, divide B and have no other. *)
Divides(U, A, R, B) ==
  /\ \A u \in U : A[u] \subseteq R
  /\ \A r \in B : \E u \in U : Having(U, A, r) = {u}
  /\ \A r \in R \ B : Having(U, A, r) = {}

LEMMA DividedCosts ==
  ASSUME FiguresTypeOK, NEW R \in SUBSET records, NEW B \in SUBSET R,
         NEW U, IsFiniteSet(U), NEW A, Divides(U, A, R, B),
         NEW sums, \A u \in U : sums[u] = Costs!Cost(A[u])
  PROVE  SumFunctionOnSet(sums, U) = Costs!Cost(B)
<1>1. PICK counted : counted = Counted(U, A, R, AllCosts)
  OBVIOUS
<1>2. IsFiniteSet(R) /\ B \in SUBSET records /\ Costs!Cost(B) = SumFunctionOnSet(AllCosts, B)
  BY CostOfPart
<1>3. \A r \in R : AllCosts[r] \in Int
  BY RecordIsNumber DEF AllCosts
<1>4. \A u \in U : A[u] \subseteq R /\ sums[u] = SumFunctionOnSet(AllCosts, A[u])
  BY CostOfPart DEF Divides
<1>5. SumFunctionOnSet(sums, U) = SumFunctionOnSet(counted, R)
  BY <1>1, <1>2, <1>3, <1>4, DoubleCount
<1>6. ASSUME NEW r \in R
      PROVE  /\ counted[r] \in Int
             /\ r \in B => counted[r] = AllCosts[r]
             /\ r \notin B => counted[r] = 0
  <2>1. /\ counted[r] = Cardinality(Having(U, A, r)) * AllCosts[r]
        /\ counted[r] \in Int /\ AllCosts[r] \in Int
    BY <1>1, <1>3, CountedIsNumber
  <2>2. r \in B => Cardinality(Having(U, A, r)) = 1
    BY FS_Singleton DEF Divides
  <2>3. r \notin B => Cardinality(Having(U, A, r)) = 0
    BY FS_EmptySet DEF Divides
  <2> QED BY <2>1, <2>2, <2>3
<1>7. SumFunctionOnSet(counted, R) = SumFunctionOnSet(AllCosts, B)
  BY <1>2, <1>6, SumOfPart
<1> QED BY <1>2, <1>5, <1>7

LEMMA CostsOfTwoParts ==
  ASSUME FiguresTypeOK, NEW R \in SUBSET records, NEW B \in SUBSET R
  PROVE  Costs!Cost(R) = Costs!Cost(B) + Costs!Cost(R \ B)
<1>1. /\ IsFiniteSet(R) /\ B \in SUBSET records /\ R \ B \in SUBSET R /\ R \ B \in SUBSET records
      /\ \A r \in R : AllCosts[r] \in Int
  BY CostOfPart, RecordIsNumber DEF AllCosts
<1>2. PICK one, other : /\ one = [r \in R |-> IF r \in B THEN AllCosts[r] ELSE 0]
                        /\ other = [r \in R |-> IF r \in R \ B THEN AllCosts[r] ELSE 0]
  OBVIOUS
<1>3. \A r \in R : /\ one[r] \in Int /\ other[r] \in Int
                   /\ AllCosts[r] = one[r] + other[r]
                   /\ r \in B => one[r] = AllCosts[r]
                   /\ r \notin B => one[r] = 0
                   /\ r \in R \ B => other[r] = AllCosts[r]
                   /\ r \notin R \ B => other[r] = 0
  BY <1>1, <1>2
<1>4. SumFunctionOnSet(AllCosts, R) = SumFunctionOnSet(one, R) + SumFunctionOnSet(other, R)
  BY <1>1, <1>3, SumPlus
<1>5. SumFunctionOnSet(one, R) = SumFunctionOnSet(AllCosts, B)
  BY <1>1, <1>3, SumOfPart
<1>6. SumFunctionOnSet(other, R) = SumFunctionOnSet(AllCosts, R \ B)
  BY <1>1, <1>3, SumOfPart
<1> QED BY <1>1, <1>4, <1>5, <1>6, CostOfPart

LEMMA SelectedRecords ==
  ASSUME FiguresTypeOK, NEW q
  PROVE  /\ Costs!Filtered(records, Tags, q) \in SUBSET records
         /\ IsFiniteSet(Costs!Filtered(records, Tags, q))
<1>1. Costs!Filtered(records, Tags, q) \in SUBSET records
  BY DEF Costs!Filtered
<1> QED BY <1>1, CostOfPart

(* No record precedes itself, so fewer do than there are. *)
LEMMA OnePageHasAll ==
  ASSUME FiguresTypeOK, NEW q,
         Cardinality(Costs!Filtered(records, Tags, q)) <= PageLimit
  PROVE  Costs!FirstPage(records, Tags, q) = Costs!Filtered(records, Tags, q)
<1> DEFINE S == Costs!Filtered(records, Tags, q)
           before(r) == {s \in S : s.day < r.day \/ (s.day = r.day /\ s.id < r.id)}
<1>1. S \in SUBSET records /\ IsFiniteSet(S) /\ Cardinality(S) \in Nat
  BY SelectedRecords, FS_CardinalityType
<1>2. ASSUME NEW r \in S
      PROVE  /\ (1 - 1) * PageLimit <= Cardinality(before(r))
             /\ Cardinality(before(r)) < 1 * PageLimit
  <2>1. r.day \in Int /\ r.id \in Nat
    BY <1>1, RecordIsNumber
  <2>2. r \notin before(r) /\ before(r) \in SUBSET S
    BY <2>1
  <2>3. /\ IsFiniteSet(before(r)) /\ Cardinality(before(r)) \in Nat
        /\ Cardinality(before(r)) <= Cardinality(S) /\ Cardinality(before(r)) # Cardinality(S)
    BY <1>1, <2>2, FS_Subset, FS_CardinalityType
  <2> HIDE DEF S, before
  <2> QED BY <1>1, <2>3, QueriesAssumption DEF S
<1>3. ASSUME NEW T PROVE Costs!Cardinality(T) = Cardinality(T)
  BY DEF Costs!Cardinality, Cardinality
<1>4. Costs!FirstPage(records, Tags, q)
        = {r \in S : /\ (1 - 1) * PageLimit <= Costs!Cardinality(before(r))
                     /\ Costs!Cardinality(before(r)) < 1 * PageLimit}
  BY DEF Costs!FirstPage, Costs!Page
<1> QED BY <1>2, <1>3, <1>4

(* Every record is in one invoice, that of its provider and account. *)
LEMMA InvoicesMakeTotal ==
  ASSUME FiguresTypeOK, NEW q,
         Cardinality(Costs!Filtered(records, Tags, q)) <= PageLimit
  PROVE  InvoicesAgree(q)
<1> DEFINE S == Costs!Filtered(records, Tags, q)
           Own(r) == {s \in S : s.account = r.account /\ s.provider = r.provider}
           Invoice(r) == [provider |-> r.provider, account |-> r.account,
                          total |-> Costs!Cost(Own(r))]
           invoices == {Invoice(r) : r \in S}
           A == [i \in invoices |-> Own(i)]
           sums == [i \in invoices |-> i.total]
<1>1. Costs!RunReport("invoices", records, Tags, q) = invoices
  <2>1. Costs!RunReport("invoices", records, Tags, q)
          = Costs!InvoiceRows(Costs!FirstPage(records, Tags, q))
    BY DEF Costs!RunReport
  <2>2. Costs!FirstPage(records, Tags, q) = S
    BY OnePageHasAll
  <2>3. Costs!InvoiceRows(S) = invoices
    BY DEF Costs!InvoiceRows
  <2> HIDE DEF S, invoices
  <2> QED BY <2>1, <2>2, <2>3
<1>2. S \in SUBSET records /\ IsFiniteSet(S)
  BY SelectedRecords
<1>3. IsFiniteSet(invoices)
  <2>1. PICK f : f = [r \in S |-> Invoice(r)]
    OBVIOUS
  <2>2. invoices = {f[r] : r \in S}
    BY <2>1
  <2> HIDE DEF S, invoices
  <2> QED BY <1>2, <2>2, FiniteImage
<1>4. ASSUME NEW i \in invoices PROVE A[i] \subseteq S /\ sums[i] = Costs!Cost(A[i])
  <2>1. PICK r \in S : i = Invoice(r)
    OBVIOUS
  <2>2. i.account = r.account /\ i.provider = r.provider /\ i.total = Costs!Cost(Own(r))
    BY <2>1
  <2>3. Own(i) = Own(r)
    BY <2>2
  <2> QED BY <2>2, <2>3
<1>5. ASSUME NEW r \in S PROVE \E i \in invoices : Having(invoices, A, r) = {i}
  <2>1. ASSUME NEW i \in invoices PROVE r \in A[i] <=> i = Invoice(r)
    <3>1. PICK s \in S : i = Invoice(s)
      OBVIOUS
    <3>2. i.account = s.account /\ i.provider = s.provider
      BY <3>1
    <3>3. r \in A[i] <=> r.account = s.account /\ r.provider = s.provider
      BY <3>2
    <3>4. r.account = s.account /\ r.provider = s.provider => Invoice(r) = Invoice(s)
      OBVIOUS
    <3>5. Invoice(r) = Invoice(s) => r.account = s.account /\ r.provider = s.provider
      OBVIOUS
    <3> QED BY <3>1, <3>3, <3>4, <3>5
  <2>2. Invoice(r) \in invoices
    OBVIOUS
  <2> HIDE DEF A, invoices, Invoice
  <2> QED BY <2>1, <2>2 DEF Having
<1>6. SumFunctionOnSet(sums, invoices) = Costs!Cost(S)
  <2>1. Divides(invoices, A, S, S) /\ \A i \in invoices : sums[i] = Costs!Cost(A[i])
    BY <1>4, <1>5 DEF Divides
  <2> HIDE DEF sums, invoices, A, S
  <2> QED BY <1>2, <1>3, <2>1, DividedCosts
<1>7. Costs!Summary(records, Tags, q).total = Costs!Cost(S)
  BY DEF Costs!Summary
<1> QED BY <1>1, <1>6, <1>7 DEF InvoicesAgree, SumFunction

(* Every record is in one link of the flow, unless that link is not shown. *)
LEMMA FlowMakesTotal ==
  ASSUME FiguresTypeOK, NEW q,
         Cardinality(Costs!Filtered(records, Tags, q)) <= PageLimit
  PROVE  FlowAgrees(q)
<1> DEFINE S == Costs!Filtered(records, Tags, q)
           Link(r) == Costs!LinkOf(r, Costs!NormalizeDimensions(FlowDimensions))
           On(pair) == {r \in S : Link(r) = pair}
           Shown(pair) == [source |-> pair[1], target |-> pair[2], cost |-> Costs!Cost(On(pair))]
           pairs == {pair \in {Link(r) : r \in S} : Costs!Cost(On(pair)) >= CostFloor}
           links == {Shown(pair) : pair \in pairs}
           A == [l \in links |-> On(<<l.source, l.target>>)]
           sums == [l \in links |-> l.cost]
           hidden == {r \in S : \A l \in links : <<l.source, l.target>> # Link(r)}
<1>1. Costs!FirstPage(records, Tags, q) = S
  BY OnePageHasAll
<1>2. Costs!ExplorerFlow(S, FlowDimensions, CostFloor).links = links
  BY DEF Costs!ExplorerFlow
<1>3. S \in SUBSET records /\ IsFiniteSet(S)
  BY SelectedRecords
<1>4. ASSUME NEW r PROVE Link(r) = <<Link(r)[1], Link(r)[2]>>
  BY DEF Costs!LinkOf
<1>5. ASSUME NEW pair \in pairs
      PROVE  /\ <<Shown(pair).source, Shown(pair).target>> = pair
             /\ Shown(pair).cost = Costs!Cost(On(pair))
  <2>1. PICK r \in S : pair = Link(r)
    OBVIOUS
  <2> HIDE DEF Link, On
  <2> QED BY <1>4, <2>1
<1>6. IsFiniteSet(links)
  <2>1. PICK f, g : f = [r \in S |-> Link(r)] /\ g = [pair \in pairs |-> Shown(pair)]
    OBVIOUS
  <2>2. {Link(r) : r \in S} = {f[r] : r \in S} /\ links = {g[pair] : pair \in pairs}
    BY <2>1
  <2>3. IsFiniteSet({f[r] : r \in S})
    BY <1>3, FiniteImage
  <2>4. IsFiniteSet(pairs)
    BY <2>2, <2>3, FS_Subset
  <2> HIDE DEF links, pairs
  <2> QED BY <2>2, <2>4, FiniteImage
<1>7. ASSUME NEW l \in links
      PROVE  A[l] \subseteq S /\ sums[l] = Costs!Cost(A[l])
  <2>1. PICK pair \in pairs : l = Shown(pair)
    OBVIOUS
  <2>2. A[l] = On(pair) /\ sums[l] = Costs!Cost(On(pair))
    <3> HIDE DEF On, Shown, pairs
    <3> QED BY <1>5, <2>1
  <2> QED BY <2>2
<1>8. ASSUME NEW r \in S, NEW l \in links
      PROVE  r \in A[l] <=> <<l.source, l.target>> = Link(r)
  <2> HIDE DEF Link, links
  <2> QED OBVIOUS
<1>9. ASSUME NEW l \in links, NEW m \in links,
             <<l.source, l.target>> = <<m.source, m.target>>
      PROVE  l = m
  <2>1. PICK pair \in pairs : l = Shown(pair)
    OBVIOUS
  <2>2. PICK other \in pairs : m = Shown(other)
    OBVIOUS
  <2>3. pair = other
    <3> HIDE DEF Shown, pairs, links
    <3> QED BY <1>5, <1>9, <2>1, <2>2
  <2> QED BY <2>1, <2>2, <2>3
<1>10. Divides(links, A, S, S \ hidden)
  <2>1. \A l \in links : A[l] \subseteq S
    BY <1>7
  <2>2. ASSUME NEW r \in S \ hidden PROVE \E l \in links : Having(links, A, r) = {l}
    <3>1. PICK l \in links : <<l.source, l.target>> = Link(r)
      OBVIOUS
    <3>2. ASSUME NEW m \in links PROVE r \in A[m] <=> m = l
      <4>1. r \in A[m] <=> <<m.source, m.target>> = Link(r)
        BY <1>8
      <4> HIDE DEF A, links, Link
      <4> QED BY <1>9, <3>1, <4>1
    <3> HIDE DEF A, links, Link
    <3> QED BY <3>2 DEF Having
  <2>3. ASSUME NEW r \in S \ (S \ hidden) PROVE Having(links, A, r) = {}
    <3>1. r \in S /\ \A l \in links : <<l.source, l.target>> # Link(r)
      OBVIOUS
    <3> HIDE DEF A, links, Link
    <3> QED BY <1>8, <3>1 DEF Having
  <2> QED BY <2>1, <2>2, <2>3 DEF Divides
<1>11. SumFunctionOnSet(sums, links) = Costs!Cost(S \ hidden)
  <2>1. S \ hidden \in SUBSET S /\ \A l \in links : sums[l] = Costs!Cost(A[l])
    BY <1>7
  <2> HIDE DEF sums, links, A, S, hidden
  <2> QED BY <1>3, <1>6, <1>10, <2>1, DividedCosts
<1>12. Costs!Cost(S) = Costs!Cost(hidden) + Costs!Cost(S \ hidden)
  <2>1. hidden \in SUBSET S
    OBVIOUS
  <2> HIDE DEF S, hidden
  <2> QED BY <1>3, <2>1, CostsOfTwoParts
<1>13. Costs!Cost(hidden) \in Int /\ Costs!Cost(S \ hidden) \in Int
  <2>1. hidden \in SUBSET records /\ S \ hidden \in SUBSET records
    BY <1>3
  <2> HIDE DEF S, hidden
  <2> QED BY <2>1, CostOfPart
<1>14. Costs!Summary(records, Tags, q).total = Costs!Cost(S)
  BY DEF Costs!Summary
<1>15. SumFunction(sums) + Costs!Cost(hidden) = Costs!Summary(records, Tags, q).total
  <2>1. SumFunction(sums) = SumFunctionOnSet(sums, links)
    BY DEF SumFunction
  <2> HIDE DEF sums, links, S, hidden
  <2> QED BY <1>11, <1>12, <1>13, <1>14, <2>1
<1> HIDE DEF S, links
<1> QED BY <1>1, <1>2, <1>15 DEF FlowAgrees

LEMMA HasGreatest ==
  ASSUME NEW S, IsFiniteSet(S), S # {}, NEW f, \A x \in S : f[x] \in Int
  PROVE  \E x \in S : \A y \in S : f[y] <= f[x]
<1> DEFINE Greatest(T) == \E x \in T : \A y \in T : f[y] <= f[x]
           F == {T \in SUBSET S : T = {} \/ Greatest(T)}
<1>1. {} \in F
  OBVIOUS
<1>2. ASSUME NEW T \in SUBSET S, NEW x \in S, T \in F, x \notin T PROVE T \cup {x} \in F
  <2>1. CASE T = {}
    <3>1. \A y \in T \cup {x} : f[y] <= f[x]
      BY <2>1
    <3> QED BY <3>1
  <2>2. CASE T # {}
    <3>1. PICK z \in T : \A y \in T : f[y] <= f[z]
      BY <1>2, <2>2
    <3>2. CASE f[x] <= f[z]
      <4>1. \A y \in T \cup {x} : f[y] <= f[z]
        BY <3>1, <3>2
      <4> QED BY <4>1
    <3>3. CASE f[z] <= f[x]
      <4>1. \A y \in T \cup {x} : f[y] <= f[x]
        <5> SUFFICES ASSUME NEW y \in T \cup {x} PROVE f[y] <= f[x]
          OBVIOUS
        <5>1. CASE y = x
          BY <5>1
        <5>2. CASE y \in T
          <6>1. f[y] <= f[z] /\ f[y] \in Int /\ f[z] \in Int /\ f[x] \in Int
            BY <3>1, <5>2
          <6> QED BY <3>3, <6>1
        <5> QED BY <5>1, <5>2
      <4> QED BY <4>1
    <3>4. f[x] \in Int /\ f[z] \in Int
      OBVIOUS
    <3> QED BY <3>2, <3>3, <3>4
  <2> QED BY <2>1, <2>2
<1> HIDE DEF F
<1>3. S \in F
  BY <1>1, <1>2, SubsetsInduction
<1> QED BY <1>3 DEF F

LEMMA TopMover ==
  ASSUME FiguresTypeOK, Cardinality(records) <= PageLimit
  PROVE  TopMoverIsTop
<1> DEFINE q == [k \in {} |-> Missing]
           top == {r \in records : \A s \in records : s.cost <= r.cost}
<1>1. Costs!Filtered(records, Tags, q) = records
  BY DEF Costs!Filtered, Costs!MatchesQuery, Costs!Given
<1>2. Costs!FirstPage(records, Tags, q) = records
  BY <1>1, OnePageHasAll
<1>3. Costs!ExecutiveSummary(records, Tags, 1, 1).delta
        = IF top = {} THEN 0 ELSE Some(top).cost
  <2> DEFINE page == Costs!FirstPage(records, Tags, q)
             highest == {r \in page : \A s \in page : s.cost <= r.cost}
  <2>1. Costs!ExecutiveSummary(records, Tags, 1, 1).delta
          = IF highest = {} THEN 0 ELSE Some(highest).cost
    BY DEF Costs!ExecutiveSummary, Some
  <2>2. highest = top
    BY <1>2
  <2> HIDE DEF highest, top
  <2> QED BY <2>1, <2>2
<1>4. ASSUME NEW r \in records PROVE top # {}
  <2>1. /\ IsFiniteSet(records) /\ records # {}
        /\ \A s \in records : AllCosts[s] \in Int /\ AllCosts[s] = s.cost
    BY RecordIsNumber DEF FiguresTypeOK, AllCosts
  <2>2. PICK s \in records : \A t \in records : AllCosts[t] <= AllCosts[s]
    BY <2>1, HasGreatest
  <2>3. s \in top
    BY <2>1, <2>2
  <2> QED BY <2>3
<1>5. ASSUME NEW r \in records
      PROVE  r.cost <= Costs!ExecutiveSummary(records, Tags, 1, 1).delta
  <2>1. Some(top) \in top
    BY <1>4, SomeOf
  <2>2. PICK s : s = Some(top)
    OBVIOUS
  <2>3. s \in top /\ Costs!ExecutiveSummary(records, Tags, 1, 1).delta = s.cost
    BY <1>3, <1>4, <2>1, <2>2
  <2> QED BY <2>3
<1> QED BY <1>5 DEF TopMoverIsTop

(* A resource is in a dimension as a whole, by its tags. *)
LEMMA DimensionMakesTotal ==
  ASSUME FiguresTypeOK, NEW q, "dimension" \in DOMAIN q
  PROVE  DimensionDivides(q)
<1> DEFINE bare == Costs!WithoutDimension(q)
           all == Costs!Filtered(records, Tags, bare)
           selected == Costs!Filtered(records, Tags, q)
           rest == all \ selected
           In(r) == Costs!InDimension(r.resource, Tags, q["dimension"])
<1>1. ASSUME NEW r
      PROVE  /\ Costs!MatchesQuery(r, bare) <=> Costs!MatchesQuery(r, q)
             /\ ~Costs!Given(bare, "dimension") /\ Costs!Given(q, "dimension")
  BY DEF Costs!WithoutDimension, Costs!MatchesQuery, Costs!Given
<1>2. all = {r \in records : Costs!MatchesQuery(r, q)}
  BY <1>1 DEF Costs!Filtered
<1>3. selected = {r \in all : In(r)} /\ rest = {r \in all : ~In(r)}
  BY <1>1, <1>2 DEF Costs!Filtered
<1>4. IsFiniteSet(all) /\ IsFiniteSet(selected) /\ IsFiniteSet(rest)
  BY SelectedRecords, FS_Subset
<1>5. PICK ofAll, ofSelected, ofRest :
        /\ ofAll = {r.resource : r \in all}
        /\ ofSelected = {r.resource : r \in selected}
        /\ ofRest = {r.resource : r \in rest}
  OBVIOUS
<1>6. ASSUME NEW S, IsFiniteSet(S) PROVE IsFiniteSet({r.resource : r \in S})
  <2>1. PICK f : f = [r \in S |-> r.resource]
    OBVIOUS
  <2>2. {r.resource : r \in S} = {f[r] : r \in S}
    BY <2>1
  <2> QED BY <1>6, <2>2, FiniteImage
<1>7. IsFiniteSet(ofSelected) /\ IsFiniteSet(ofRest)
  BY <1>4, <1>5, <1>6
<1>8. ofAll = ofSelected \cup ofRest /\ ofSelected \cap ofRest = {}
  <2> HIDE DEF all, selected, rest
  <2> QED BY <1>3, <1>5
<1>9. Cardinality(ofAll) = Cardinality(ofRest) + Cardinality(ofSelected)
  <2>1. /\ Cardinality(ofAll) = Cardinality(ofSelected) + Cardinality(ofRest) - Cardinality({})
        /\ Cardinality(ofSelected) \in Nat /\ Cardinality(ofRest) \in Nat
    BY <1>7, <1>8, FS_Union, FS_CardinalityType
  <2> QED BY <2>1, FS_EmptySet
<1>10. ASSUME NEW S PROVE Costs!Cardinality(S) = Cardinality(S)
  BY DEF Costs!Cardinality, Cardinality
<1>11. /\ Costs!Summary(records, Tags, q).untaggedCount = Costs!Cardinality(ofRest)
       /\ Costs!Summary(records, Tags, q).resourceCount = Costs!Cardinality(ofSelected)
       /\ Costs!Summary(records, Tags, bare).resourceCount = Costs!Cardinality(ofAll)
  BY <1>1, <1>5 DEF Costs!Summary, Costs!Resources
<1> QED BY <1>9, <1>10, <1>11 DEF DimensionDivides

(* The invoices and the flow of a query add up to its summary, and the     *)
(* resources of a dimension and those outside it to those of the query,    *)
(* for any records and queries, as long as a page holds what is selected.  *)
THEOREM ViewsAgree == FiguresSpec => []FiguresAgree
<1>1. FiguresTypeOK => FiguresAgree
  BY InvoicesMakeTotal, FlowMakesTotal, TopMover, DimensionMakesTotal DEF FiguresAgree
<1> QED BY <1>1, FiguresTypeCorrect, PTL

=============================================================================
