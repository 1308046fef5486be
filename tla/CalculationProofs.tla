------------------------- MODULE CalculationProofs -------------------------
(***************************************************************************)
(* Lemmas about what the pure functions compute: sums over finite sets and *)
(* division, with which the numbers of weekly_snapshot are made, sorted    *)
(* lists, and the mentions that are read out of an answer.  Induction over *)
(* numbers and over finite sets is stated without an operator parameter:   *)
(* the set of those for which a claim holds takes its place.               *)
(***************************************************************************)
EXTENDS ResponseParser, FiniteSetTheorems, SequenceTheorems, WellFoundedInduction, TLAPS

(* The natural numbers are well founded. *)
LEMMA LeastNumber ==
    ASSUME NEW S \in SUBSET Nat, S # {}
    PROVE  \E x \in S : \A y \in S : x <= y
<1>1. PICK x \in S : \A y \in S : ~(<<y, x>> \in OpToRel(<, Nat))
  BY NatLessThanWellFounded, WFMin
<1>2. \A y \in S : ~(y < x)
  BY <1>1 DEF OpToRel
<1> QED
  BY <1>2

(* Induction over the natural numbers: P is the set of those for which the  *)
(* claim holds.                                                            *)
LEMMA NumbersByInduction ==
    ASSUME NEW P, 0 \in P, \A n \in Nat : n \in P => n + 1 \in P
    PROVE  Nat \subseteq P
<1> SUFFICES ASSUME Nat \ P # {} PROVE FALSE
  OBVIOUS
<1>1. PICK n \in Nat \ P : \A m \in Nat \ P : n <= m
  BY LeastNumber
<1>2. n # 0 /\ n - 1 \in Nat /\ n - 1 \in P /\ (n - 1) + 1 = n
  BY <1>1
<1> QED
  BY <1>1, <1>2

(* Induction over the subsets of a finite set: P is the set of those for    *)
(* which the claim holds, and it holds for a set if it holds for all       *)
(* smaller ones.                                                           *)
LEMMA SubsetsByInduction ==
    ASSUME NEW S, IsFiniteSet(S), NEW P,
           \A T \in SUBSET S : (\A U \in SUBSET T : U # T => U \in P) => T \in P
    PROVE  SUBSET S \subseteq P
<1> DEFINE N == {n \in Nat : \E T \in SUBSET S : T \notin P /\ Cardinality(T) = n}
<1>1. \A T \in SUBSET S : IsFiniteSet(T) /\ Cardinality(T) \in Nat
  BY FS_Subset, FS_CardinalityType
<1> SUFFICES ASSUME NEW V \in SUBSET S, V \notin P PROVE FALSE
  OBVIOUS
<1>2. N \in SUBSET Nat /\ N # {}
  BY <1>1
<1>3. PICK n \in N : \A m \in N : n <= m
  BY <1>2, LeastNumber
<1>4. PICK T \in SUBSET S : T \notin P /\ Cardinality(T) = n
  BY <1>3
<1>5. \A U \in SUBSET T : U # T => U \in P
  <2> SUFFICES ASSUME NEW U \in SUBSET T, U # T, U \notin P PROVE FALSE
    OBVIOUS
  <2>1. U \in SUBSET S /\ Cardinality(U) \in N
    BY <1>1
  <2>2. Cardinality(U) <= Cardinality(T) /\ Cardinality(U) # Cardinality(T)
    BY <1>1, FS_Subset
  <2> QED
    BY <1>1, <1>3, <1>4, <2>1, <2>2
<1> QED
  BY <1>4, <1>5

-----------------------------------------------------------------------------
(* What the function that SumFunctionOnSet takes its value of is.           *)
Pick(s) == CHOOSE x \in s : TRUE

Adds(g, f, S) ==
    g = [s \in SUBSET S |-> IF s = {} THEN 0 ELSE f[Pick(s)] + g[s \ {Pick(s)}]]

LEMMA PickIsIn == ASSUME NEW s, s # {} PROVE Pick(s) \in s
  BY DEF Pick

LEMMA SumIsChosen ==
    ASSUME NEW f, NEW S
    PROVE  SumFunctionOnSet(f, S) = (CHOOSE g : Adds(g, f, S))[S]
  BY DEF SumFunctionOnSet, FoldFunctionOnSet, MapThenFoldSet, Adds, Pick

LEMMA AdderExists ==
    ASSUME NEW S, IsFiniteSet(S), NEW f
    PROVE  \E g : Adds(g, f, S)
<1> DEFINE next(g, s) == IF s = {} THEN 0 ELSE f[Pick(s)] + g[s \ {Pick(s)}]
           upTo(g, n) == /\ g = [s \in SUBSET S |-> g[s]]
                         /\ \A s \in SUBSET S : Cardinality(s) <= n => g[s] = next(g, s)
           P == {n \in Nat : \E g : upTo(g, n)}
<1>1. \A s \in SUBSET S : IsFiniteSet(s) /\ Cardinality(s) \in Nat
  BY FS_Subset, FS_CardinalityType
<1>2. \A s \in SUBSET S : s # {} => /\ Cardinality(s \ {Pick(s)}) = Cardinality(s) - 1
                                    /\ s \ {Pick(s)} \in SUBSET S
  BY <1>1, PickIsIn, FS_RemoveElement
<1>3. 0 \in P
  <2> DEFINE g == [s \in SUBSET S |-> 0]
  <2>1. \A s \in SUBSET S : Cardinality(s) <= 0 => s = {}
    BY <1>1, FS_EmptySet
  <2>2. upTo(g, 0)
    BY <2>1
  <2> QED
    BY <2>2
<1>4. ASSUME NEW n \in Nat, n \in P PROVE n + 1 \in P
  <2>1. PICK g : upTo(g, n)
    BY <1>4
  <2> DEFINE h == [s \in SUBSET S |-> IF Cardinality(s) <= n THEN g[s] ELSE next(g, s)]
  <2>2. h = [s \in SUBSET S |-> h[s]]
    OBVIOUS
  <2>3. ASSUME NEW s \in SUBSET S, Cardinality(s) <= n + 1 PROVE h[s] = next(h, s)
    <3>1. h[s] = next(g, s)
      BY <2>1
    <3>2. CASE s = {}
      BY <3>1, <3>2
    <3>3. CASE s # {}
      <4>1. Cardinality(s \ {Pick(s)}) <= n /\ s \ {Pick(s)} \in SUBSET S
        BY <1>1, <1>2, <2>3, <3>3
      <4>2. h[s \ {Pick(s)}] = g[s \ {Pick(s)}]
        BY <4>1
      <4> QED
        BY <3>1, <3>3, <4>2
    <3> QED
      BY <3>2, <3>3
  <2>4. upTo(h, n + 1)
    BY <2>2, <2>3
  <2> HIDE DEF h, upTo
  <2>5. n + 1 \in Nat /\ \E k : upTo(k, n + 1)
    BY <2>4
  <2> QED
    BY <2>5
<1> HIDE DEF P
<1>5. Cardinality(S) \in P
  BY <1>1, <1>3, <1>4, NumbersByInduction
<1>6. PICK g : upTo(g, Cardinality(S))
  BY <1>5 DEF P
<1>7. \A s \in SUBSET S : Cardinality(s) <= Cardinality(S)
  BY FS_Subset
<1>8. g = [s \in SUBSET S |-> next(g, s)]
  BY <1>6, <1>7
<1> QED
  BY <1>8 DEF Adds

(* Two such functions agree where both are defined.                         *)
LEMMA AddersAgree ==
    ASSUME NEW S, IsFiniteSet(S), NEW g, NEW h, NEW f, NEW e, NEW T, T \subseteq S,
           Adds(g, f, S), Adds(h, e, T), \A x \in T : f[x] = e[x]
    PROVE  g[T] = h[T]
<1> DEFINE P == {s \in SUBSET T : g[s] = h[s]}
<1>1. IsFiniteSet(T)
  BY FS_Subset
<1>2. ASSUME NEW s \in SUBSET T, \A U \in SUBSET s : U # s => U \in P PROVE s \in P
  <2>1. /\ g[s] = IF s = {} THEN 0 ELSE f[Pick(s)] + g[s \ {Pick(s)}]
        /\ h[s] = IF s = {} THEN 0 ELSE e[Pick(s)] + h[s \ {Pick(s)}]
    BY DEF Adds
  <2>2. s # {} => /\ f[Pick(s)] = e[Pick(s)]
                  /\ s \ {Pick(s)} \in SUBSET s /\ s \ {Pick(s)} # s
    BY PickIsIn
  <2>3. s # {} => g[s \ {Pick(s)}] = h[s \ {Pick(s)}]
    BY <1>2, <2>2
  <2> QED
    BY <2>1, <2>2, <2>3
<1> HIDE DEF P
<1>3. T \in P
  BY <1>1, <1>2, SubsetsByInduction
<1> QED
  BY <1>3 DEF P

LEMMA SumOfNone == ASSUME NEW f PROVE SumFunctionOnSet(f, {}) = 0
<1>1. IsFiniteSet({})
  BY FS_EmptySet
<1>2. PICK g : Adds(g, f, {})
  BY <1>1, AdderExists
<1>3. Adds(CHOOSE h : Adds(h, f, {}), f, {})
  BY <1>2
<1> QED
  BY <1>3, SumIsChosen DEF Adds

LEMMA SumOfPick ==
    ASSUME NEW S, IsFiniteSet(S), S # {}, NEW f
    PROVE  SumFunctionOnSet(f, S) = f[Pick(S)] + SumFunctionOnSet(f, S \ {Pick(S)})
<1> DEFINE T == S \ {Pick(S)}
           g == CHOOSE g : Adds(g, f, S)
           h == CHOOSE h : Adds(h, f, T)
<1>1. IsFiniteSet(T) /\ T \subseteq S
  BY FS_Subset
<1>2. Adds(g, f, S) /\ Adds(h, f, T)
  BY <1>1, AdderExists
<1>3. SumFunctionOnSet(f, S) = g[S] /\ SumFunctionOnSet(f, T) = h[T]
  BY SumIsChosen
<1> HIDE DEF g, h, T
<1>4. g[T] = h[T]
  BY <1>1, <1>2, AddersAgree
<1>5. g[S] = f[Pick(S)] + g[T]
  BY <1>2 DEF Adds, T
<1> QED
  BY <1>3, <1>4, <1>5 DEF T

(* A sum of integers is an integer. *)
LEMMA SumType ==
    ASSUME NEW S, IsFiniteSet(S), NEW f, \A x \in S : f[x] \in Int
    PROVE  SumFunctionOnSet(f, S) \in Int
<1> DEFINE P == {T \in SUBSET S : SumFunctionOnSet(f, T) \in Int}
<1>1. ASSUME NEW T \in SUBSET S, \A U \in SUBSET T : U # T => U \in P PROVE T \in P
  <2>1. CASE T = {}
    BY <2>1, SumOfNone
  <2>2. CASE T # {}
    <3>1. IsFiniteSet(T) /\ Pick(T) \in T /\ T \ {Pick(T)} \in P
      BY <1>1, <2>2, PickIsIn, FS_Subset
    <3>2. f[Pick(T)] \in Int /\ SumFunctionOnSet(f, T \ {Pick(T)}) \in Int
      BY <3>1
    <3>3. SumFunctionOnSet(f, T) = f[Pick(T)] + SumFunctionOnSet(f, T \ {Pick(T)})
      BY <2>2, <3>1, SumOfPick
    <3> QED
      BY <3>2, <3>3
  <2> QED
    BY <2>1, <2>2
<1> HIDE DEF P
<1>2. S \in P
  BY <1>1, SubsetsByInduction
<1> QED
  BY <1>2 DEF P

(* Any element may be added last. *)
LEMMA SumOfElement ==
    ASSUME NEW S, IsFiniteSet(S), NEW x \in S, NEW f, \A y \in S : f[y] \in Int
    PROVE  SumFunctionOnSet(f, S) = f[x] + SumFunctionOnSet(f, S \ {x})
<1> DEFINE Sum(T) == SumFunctionOnSet(f, T)
           P == {T \in SUBSET S : \A y \in T : Sum(T) = f[y] + Sum(T \ {y})}
<1>1. \A T \in SUBSET S : IsFiniteSet(T) /\ Sum(T) \in Int
  BY FS_Subset, SumType
<1>2. ASSUME NEW T \in SUBSET S, \A U \in SUBSET T : U # T => U \in P, NEW y \in T
      PROVE  Sum(T) = f[y] + Sum(T \ {y})
  <2> DEFINE c == Pick(T)
  <2>1. c \in T /\ Sum(T) = f[c] + Sum(T \ {c})
    BY <1>1, PickIsIn, SumOfPick
  <2> HIDE DEF c
  <2>2. CASE y = c
    BY <2>1, <2>2
  <2>3. CASE y # c
    <3>1. y \in T \ {c} /\ c \in T \ {y} /\ (T \ {c}) \ {y} = (T \ {y}) \ {c}
      BY <2>1, <2>3
    <3>2. T \ {c} \in P /\ T \ {y} \in P
      BY <1>2, <2>1
    <3>3. /\ Sum(T \ {c}) = f[y] + Sum((T \ {c}) \ {y})
          /\ Sum(T \ {y}) = f[c] + Sum((T \ {c}) \ {y})
      BY <3>1, <3>2
    <3>4. f[y] \in Int /\ f[c] \in Int /\ Sum((T \ {c}) \ {y}) \in Int
      BY <1>1, <2>1
    <3> HIDE DEF Sum
    <3> QED
      BY <2>1, <3>3, <3>4
  <2> QED
    BY <2>2, <2>3
<1>3. ASSUME NEW T \in SUBSET S, \A U \in SUBSET T : U # T => U \in P PROVE T \in P
  BY <1>2, <1>3
<1> HIDE DEF P
<1>4. S \in P
  BY <1>3, SubsetsByInduction
<1> QED
  BY <1>4 DEF P

-----------------------------------------------------------------------------
(* Sums of functions that are related point by point: each is proved by     *)
(* taking one element out of both.                                         *)
LEMMA SumMonotonic ==
    ASSUME NEW S, IsFiniteSet(S), NEW f, NEW g,
           \A x \in S : f[x] \in Int /\ g[x] \in Int /\ f[x] <= g[x]
    PROVE  SumFunctionOnSet(f, S) <= SumFunctionOnSet(g, S)
<1> DEFINE F(T) == SumFunctionOnSet(f, T)
           G(T) == SumFunctionOnSet(g, T)
           P == {T \in SUBSET S : F(T) <= G(T)}
<1>1. \A T \in SUBSET S : IsFiniteSet(T) /\ F(T) \in Int /\ G(T) \in Int
  BY FS_Subset, SumType
<1>2. ASSUME NEW T \in SUBSET S, \A U \in SUBSET T : U # T => U \in P PROVE F(T) <= G(T)
  <2>1. CASE T = {}
    BY <2>1, SumOfNone
  <2>2. CASE T # {}
    <3>1. PICK x \in T : TRUE
      BY <2>2
    <3>2. F(T) = f[x] + F(T \ {x}) /\ G(T) = g[x] + G(T \ {x})
      BY <1>1, SumOfElement
    <3>3. F(T \ {x}) <= G(T \ {x})
      BY <1>2
    <3>4. /\ f[x] \in Int /\ g[x] \in Int /\ f[x] <= g[x]
          /\ F(T \ {x}) \in Int /\ G(T \ {x}) \in Int
      BY <1>1
    <3> HIDE DEF F, G
    <3> QED
      BY <3>2, <3>3, <3>4
  <2> QED
    BY <2>1, <2>2
<1>3. ASSUME NEW T \in SUBSET S, \A U \in SUBSET T : U # T => U \in P PROVE T \in P
  BY <1>2, <1>3
<1> HIDE DEF P
<1>4. S \in P
  BY <1>3, SubsetsByInduction
<1> QED
  BY <1>4 DEF P

LEMMA SumStrictlyMonotonic ==
    ASSUME NEW S, IsFiniteSet(S), NEW f, NEW g, NEW y \in S, f[y] < g[y],
           \A x \in S : f[x] \in Int /\ g[x] \in Int /\ f[x] <= g[x]
    PROVE  SumFunctionOnSet(f, S) < SumFunctionOnSet(g, S)
<1> DEFINE T == S \ {y}
<1>1. IsFiniteSet(T)
  BY FS_Subset
<1>2. /\ SumFunctionOnSet(f, S) = f[y] + SumFunctionOnSet(f, T)
      /\ SumFunctionOnSet(g, S) = g[y] + SumFunctionOnSet(g, T)
  BY SumOfElement
<1>3. /\ SumFunctionOnSet(f, T) <= SumFunctionOnSet(g, T)
      /\ SumFunctionOnSet(f, T) \in Int /\ SumFunctionOnSet(g, T) \in Int
  BY <1>1, SumMonotonic, SumType
<1>4. f[y] \in Int /\ g[y] \in Int
  OBVIOUS
<1> HIDE DEF T
<1> QED
  BY <1>2, <1>3, <1>4

LEMMA SumOfSums ==
    ASSUME NEW S, IsFiniteSet(S), NEW f, NEW g, NEW h,
           \A x \in S : f[x] \in Int /\ g[x] \in Int /\ h[x] = f[x] + g[x]
    PROVE  SumFunctionOnSet(h, S) = SumFunctionOnSet(f, S) + SumFunctionOnSet(g, S)
<1> DEFINE F(T) == SumFunctionOnSet(f, T)
           G(T) == SumFunctionOnSet(g, T)
           H(T) == SumFunctionOnSet(h, T)
           P == {T \in SUBSET S : H(T) = F(T) + G(T)}
<1>1. \A T \in SUBSET S : IsFiniteSet(T) /\ F(T) \in Int /\ G(T) \in Int
  BY FS_Subset, SumType
<1>2. ASSUME NEW T \in SUBSET S, \A U \in SUBSET T : U # T => U \in P
      PROVE  H(T) = F(T) + G(T)
  <2>1. CASE T = {}
    BY <2>1, SumOfNone
  <2>2. CASE T # {}
    <3>1. PICK x \in T : TRUE
      BY <2>2
    <3>2. /\ F(T) = f[x] + F(T \ {x}) /\ G(T) = g[x] + G(T \ {x})
          /\ H(T) = h[x] + H(T \ {x})
      BY <1>1, SumOfElement
    <3>3. H(T \ {x}) = F(T \ {x}) + G(T \ {x})
      BY <1>2
    <3>4. /\ f[x] \in Int /\ g[x] \in Int /\ h[x] = f[x] + g[x]
          /\ F(T \ {x}) \in Int /\ G(T \ {x}) \in Int
      BY <1>1
    <3> HIDE DEF F, G, H
    <3> QED
      BY <3>2, <3>3, <3>4
  <2> QED
    BY <2>1, <2>2
<1>3. ASSUME NEW T \in SUBSET S, \A U \in SUBSET T : U # T => U \in P PROVE T \in P
  BY <1>2, <1>3
<1> HIDE DEF P
<1>4. S \in P
  BY <1>3, SubsetsByInduction
<1> QED
  BY <1>4 DEF P

LEMMA SumOfMultiples ==
    ASSUME NEW S, IsFiniteSet(S), NEW f, NEW h, NEW c \in Int,
           \A x \in S : f[x] \in Int /\ h[x] = c * f[x]
    PROVE  SumFunctionOnSet(h, S) = c * SumFunctionOnSet(f, S)
<1> DEFINE F(T) == SumFunctionOnSet(f, T)
           H(T) == SumFunctionOnSet(h, T)
           P == {T \in SUBSET S : H(T) = c * F(T)}
<1>1. \A T \in SUBSET S : IsFiniteSet(T) /\ F(T) \in Int
  BY FS_Subset, SumType
<1>5. \A x \in S : h[x] \in Int
  OBVIOUS
<1>2. ASSUME NEW T \in SUBSET S, \A U \in SUBSET T : U # T => U \in P
      PROVE  H(T) = c * F(T)
  <2>1. CASE T = {}
    BY <2>1, SumOfNone
  <2>2. CASE T # {}
    <3>1. PICK x \in T : TRUE
      BY <2>2
    <3>2. F(T) = f[x] + F(T \ {x}) /\ H(T) = h[x] + H(T \ {x})
      BY <1>1, <1>5, SumOfElement
    <3>3. H(T \ {x}) = c * F(T \ {x})
      BY <1>2
    <3>4. f[x] \in Int /\ h[x] = c * f[x] /\ F(T \ {x}) \in Int
      BY <1>1
    <3> HIDE DEF F, H
    <3>5. \A i, j \in Int : c * i + c * j = c * (i + j)
      OBVIOUS
    <3> QED
      BY <3>2, <3>3, <3>4, <3>5
  <2> QED
    BY <2>1, <2>2
<1>3. ASSUME NEW T \in SUBSET S, \A U \in SUBSET T : U # T => U \in P PROVE T \in P
  BY <1>2, <1>3
<1> HIDE DEF P
<1>4. S \in P
  BY <1>3, SubsetsByInduction
<1> QED
  BY <1>4 DEF P

LEMMA SumOfConstant ==
    ASSUME NEW S, IsFiniteSet(S), NEW h, NEW c \in Int, \A x \in S : h[x] = c
    PROVE  SumFunctionOnSet(h, S) = c * Cardinality(S)
<1> DEFINE H(T) == SumFunctionOnSet(h, T)
           P == {T \in SUBSET S : H(T) = c * Cardinality(T)}
<1>1. \A T \in SUBSET S : IsFiniteSet(T) /\ Cardinality(T) \in Nat
  BY FS_Subset, FS_CardinalityType
<1>2. ASSUME NEW T \in SUBSET S, \A U \in SUBSET T : U # T => U \in P
      PROVE  H(T) = c * Cardinality(T)
  <2>1. CASE T = {}
    BY <2>1, SumOfNone, FS_EmptySet
  <2>2. CASE T # {}
    <3>1. PICK x \in T : TRUE
      BY <2>2
    <3>2. H(T) = c + H(T \ {x})
      BY <1>1, SumOfElement
    <3>3. H(T \ {x}) = c * Cardinality(T \ {x})
      BY <1>2
    <3>4. Cardinality(T \ {x}) = Cardinality(T) - 1 /\ Cardinality(T) \in Nat
      BY <1>1, FS_RemoveElement
    <3> HIDE DEF H
    <3>5. \A n \in Nat : c + c * (n - 1) = c * n
      OBVIOUS
    <3> QED
      BY <3>2, <3>3, <3>4, <3>5
  <2> QED
    BY <2>1, <2>2
<1>3. ASSUME NEW T \in SUBSET S, \A U \in SUBSET T : U # T => U \in P PROVE T \in P
  BY <1>2, <1>3
<1> HIDE DEF P
<1>4. S \in P
  BY <1>3, SubsetsByInduction
<1> QED
  BY <1>4 DEF P

(* Elements that add nothing may be left out. *)
LEMMA SumOfPart ==
    ASSUME NEW S, IsFiniteSet(S), NEW R \in SUBSET S, NEW f,
           \A x \in S : f[x] \in Int, \A x \in S \ R : f[x] = 0
    PROVE  SumFunctionOnSet(f, S) = SumFunctionOnSet(f, R)
<1> DEFINE F(T) == SumFunctionOnSet(f, T)
           P == {T \in SUBSET S : F(T) = F(T \cap R)}
<1>1. \A T \in SUBSET S : IsFiniteSet(T) /\ F(T) \in Int
  BY FS_Subset, SumType
<1>2. ASSUME NEW T \in SUBSET S, \A U \in SUBSET T : U # T => U \in P
      PROVE  F(T) = F(T \cap R)
  <2>1. CASE T \subseteq R
    <3>1. T \cap R = T
      BY <2>1
    <3> QED
      BY <3>1
  <2>2. CASE ~(T \subseteq R)
    <3>1. PICK x \in T : x \notin R
      BY <2>2
    <3>2. F(T) = 0 + F(T \ {x})
      <4>1. F(T) = f[x] + F(T \ {x})
        BY <1>1, <3>1, SumOfElement
      <4> QED
        BY <3>1, <4>1
    <3>3. F(T \ {x}) = F((T \ {x}) \cap R) /\ (T \ {x}) \cap R = T \cap R
      BY <1>2, <3>1
    <3>4. F(T \ {x}) \in Int
      BY <1>1
    <3>5. F(T) = F(T \ {x})
      BY <3>2, <3>4
    <3>6. F((T \ {x}) \cap R) = F(T \cap R)
      BY <3>3
    <3> QED
      BY <3>3, <3>5, <3>6
  <2> QED
    BY <2>1, <2>2
<1>3. ASSUME NEW T \in SUBSET S, \A U \in SUBSET T : U # T => U \in P PROVE T \in P
  BY <1>2, <1>3
<1> HIDE DEF P
<1>4. S \in P
  BY <1>3, SubsetsByInduction
<1>5. S \cap R = R
  OBVIOUS
<1> QED
  BY <1>4, <1>5 DEF P

(* The same summands under other names. *)
LEMMA SumRenamed ==
    ASSUME NEW S, IsFiniteSet(S), NEW f, NEW g, NEW name, NEW R,
           R = {name[x] : x \in S}, \A x, y \in S : name[x] = name[y] => x = y,
           \A x \in S : g[x] \in Int /\ f[name[x]] = g[x]
    PROVE  SumFunctionOnSet(f, R) = SumFunctionOnSet(g, S) /\ IsFiniteSet(R)
<1> DEFINE im(T) == {name[x] : x \in T}
           P == {T \in SUBSET S : /\ IsFiniteSet(im(T))
                                  /\ SumFunctionOnSet(f, im(T)) = SumFunctionOnSet(g, T)}
<1>1. ASSUME NEW T \in SUBSET S, \A U \in SUBSET T : U # T => U \in P
      PROVE  /\ IsFiniteSet(im(T))
             /\ SumFunctionOnSet(f, im(T)) = SumFunctionOnSet(g, T)
  <2>1. CASE T = {}
    <3>1. im(T) = {}
      BY <2>1
    <3> HIDE DEF im
    <3> QED
      BY <2>1, <3>1, SumOfNone, FS_EmptySet
  <2>2. CASE T # {}
    <3>1. PICK x \in T : TRUE
      BY <2>2
    <3>2. im(T \ {x}) = im(T) \ {name[x]} /\ name[x] \in im(T)
          /\ im(T) = im(T \ {x}) \cup {name[x]}
      OBVIOUS
    <3>3. /\ IsFiniteSet(im(T \ {x}))
          /\ SumFunctionOnSet(f, im(T \ {x})) = SumFunctionOnSet(g, T \ {x})
      BY <1>1
    <3>4. \A z \in im(T) : f[z] \in Int
      OBVIOUS
    <3> HIDE DEF im
    <3>5. IsFiniteSet(im(T))
      <4>1. IsFiniteSet(im(T \ {x}) \cup {name[x]})
        BY <3>3, FS_AddElement
      <4> QED
        BY <3>2, <4>1
    <3>6. SumFunctionOnSet(f, im(T)) = f[name[x]] + SumFunctionOnSet(f, im(T) \ {name[x]})
      BY <3>2, <3>4, <3>5, SumOfElement
    <3>7. SumFunctionOnSet(g, T) = g[x] + SumFunctionOnSet(g, T \ {x})
      <4>1. IsFiniteSet(T)
        BY FS_Subset
      <4> QED
        BY <4>1, SumOfElement
    <3> QED
      BY <3>2, <3>3, <3>5, <3>6, <3>7
  <2> QED
    BY <2>1, <2>2
<1>2. ASSUME NEW T \in SUBSET S, \A U \in SUBSET T : U # T => U \in P PROVE T \in P
  BY <1>1, <1>2
<1> HIDE DEF P
<1>3. S \in P
  BY <1>2, SubsetsByInduction
<1> QED
  BY <1>3 DEF P

(* What is split into disjoint sets is counted in them. *)
LEMMA SumOfCardinalities ==
    ASSUME NEW S, IsFiniteSet(S), NEW part, NEW count,
           \A x \in S : IsFiniteSet(part[x]) /\ count[x] = Cardinality(part[x]),
           \A x, y \in S : x # y => part[x] \cap part[y] = {}
    PROVE  /\ IsFiniteSet(UNION {part[x] : x \in S})
           /\ Cardinality(UNION {part[x] : x \in S}) = SumFunctionOnSet(count, S)
<1> DEFINE all(T) == UNION {part[x] : x \in T}
           P == {T \in SUBSET S : /\ IsFiniteSet(all(T))
                                  /\ Cardinality(all(T)) = SumFunctionOnSet(count, T)}
<1>1. \A x \in S : count[x] \in Int
  BY FS_CardinalityType
<1>2. ASSUME NEW T \in SUBSET S, \A U \in SUBSET T : U # T => U \in P
      PROVE  /\ IsFiniteSet(all(T))
             /\ Cardinality(all(T)) = SumFunctionOnSet(count, T)
  <2>1. CASE T = {}
    <3>1. all(T) = {}
      BY <2>1
    <3> HIDE DEF all
    <3> QED
      BY <2>1, <3>1, SumOfNone, FS_EmptySet
  <2>2. CASE T # {}
    <3>1. PICK x \in T : TRUE
      BY <2>2
    <3> DEFINE U == T \ {x}
    <3>2. all(T) = all(U) \cup part[x] /\ all(U) \cap part[x] = {}
      OBVIOUS
    <3>3. IsFiniteSet(all(U)) /\ Cardinality(all(U)) = SumFunctionOnSet(count, U)
      BY <1>2
    <3>4. SumFunctionOnSet(count, T) = count[x] + SumFunctionOnSet(count, U)
      <4>1. IsFiniteSet(T)
        BY FS_Subset
      <4> QED
        BY <1>1, <4>1, SumOfElement
    <3>5. IsFiniteSet(part[x]) /\ count[x] = Cardinality(part[x])
      OBVIOUS
    <3> HIDE DEF all, U
    <3>6. /\ IsFiniteSet(all(T))
          /\ Cardinality(all(T))
               = Cardinality(all(U)) + Cardinality(part[x]) - Cardinality({})
      BY <3>2, <3>3, <3>5, FS_Union
    <3>7. Cardinality({}) = 0 /\ Cardinality(all(U)) \in Nat /\ Cardinality(part[x]) \in Nat
      BY <3>3, <3>5, FS_EmptySet, FS_CardinalityType
    <3> QED
      BY <3>3, <3>4, <3>5, <3>6, <3>7
  <2> QED
    BY <2>1, <2>2
<1>3. ASSUME NEW T \in SUBSET S, \A U \in SUBSET T : U # T => U \in P PROVE T \in P
  BY <1>2, <1>3
<1> HIDE DEF P, all
<1>4. SUBSET S \subseteq P
  BY ONLY IsFiniteSet(S), <1>3, SubsetsByInduction
<1> QED
  BY <1>4 DEF P, all

LEMMA ImageIsFinite ==
    ASSUME NEW S, IsFiniteSet(S), NEW f, NEW T, T = {f[x] : x \in S}
    PROVE  IsFiniteSet(T) /\ Cardinality(T) <= Cardinality(S)
<1> DEFINE g == [x \in S |-> f[x]]
<1>1. g \in Surjection(S, T)
  BY DEF Surjection
<1> QED
  BY <1>1, FS_Surjection

-----------------------------------------------------------------------------
LEMMA Division ==
    ASSUME NEW a \in Int, NEW d \in Nat \ {0}
    PROVE  /\ a \div d \in Int
           /\ a \in Nat => a \div d \in Nat
           /\ d * (a \div d) <= a /\ a < d * (a \div d) + d
  OBVIOUS

-----------------------------------------------------------------------------
OrdersAll(R, S) ==
    /\ \A x \in S : <<x, x>> \notin R
    /\ \A x, y, z \in S : <<x, y>> \in R /\ <<y, z>> \in R => <<x, z>> \in R
    /\ \A x, y \in S : x # y => <<x, y>> \in R \/ <<y, x>> \in R

ListsAll(s, n, S) ==
    /\ n \in Nat /\ s \in [1 .. n -> S]
    /\ \A x \in S : \E k \in 1 .. n : s[k] = x

(* Sorted() lists every element once, in the order it is given.             *)
LEMMA SortedLists ==
    ASSUME NEW S, IsFiniteSet(S), NEW R, OrdersAll(R, S)
    PROVE  /\ ListsAll(Sorted(S, R), Cardinality(S), S)
           /\ \A i, j \in 1 .. Cardinality(S) :
                 i < j => <<Sorted(S, R)[i], Sorted(S, R)[j]>> \in R
<1> USE DEF OrdersAll
<1> DEFINE n == Cardinality(S)
           before(x) == {y \in S : <<y, x>> \in R}
           p == [x \in S |-> Cardinality(before(x)) + 1]
<1>1. n \in Nat /\ IsFiniteSet(1 .. n) /\ Cardinality(1 .. n) = n
  BY FS_CardinalityType, FS_Interval
<1>2. \A x \in S : IsFiniteSet(before(x)) /\ Cardinality(before(x)) \in Nat
  BY FS_Subset, FS_CardinalityType
<1>3. \A x, y \in S : <<x, y>> \in R => Cardinality(before(x)) < Cardinality(before(y))
  <2> SUFFICES ASSUME NEW x \in S, NEW y \in S, <<x, y>> \in R
               PROVE  Cardinality(before(x)) < Cardinality(before(y))
    OBVIOUS
  <2>1. before(x) \subseteq before(y) /\ x \in before(y) /\ x \notin before(x)
    OBVIOUS
  <2>2. IsFiniteSet(before(x)) /\ IsFiniteSet(before(y))
    BY <1>2
  <2>3. Cardinality(before(x)) \in Nat /\ Cardinality(before(y)) \in Nat
    BY <1>2
  <2> HIDE DEF before
  <2>4. /\ Cardinality(before(x)) <= Cardinality(before(y))
        /\ Cardinality(before(x)) # Cardinality(before(y))
    BY <2>1, <2>2, FS_Subset
  <2> QED
    BY <2>3, <2>4
<1>4. \A x \in S : Cardinality(before(x)) < n
  <2> SUFFICES ASSUME NEW x \in S PROVE Cardinality(before(x)) < n
    OBVIOUS
  <2>1. before(x) \subseteq S /\ x \notin before(x)
    OBVIOUS
  <2>2. Cardinality(before(x)) \in Nat
    BY <1>2
  <2> HIDE DEF before
  <2>3. Cardinality(before(x)) <= n /\ Cardinality(before(x)) # n
    BY <2>1, FS_Subset
  <2> QED
    BY <1>1, <2>2, <2>3
<1> HIDE DEF before, n
<1>5. \A x \in S : p[x] \in 1 .. n
  BY <1>1, <1>2, <1>4
<1>6. \A x, y \in S : p[x] = p[y] => x = y
  <2> SUFFICES ASSUME NEW x \in S, NEW y \in S, p[x] = p[y], x # y PROVE FALSE
    OBVIOUS
  <2>1. Cardinality(before(x)) \in Nat /\ Cardinality(before(y)) \in Nat
    BY <1>2
  <2>2. Cardinality(before(x)) = Cardinality(before(y))
    BY <2>1
  <2>3. <<x, y>> \in R \/ <<y, x>> \in R
    OBVIOUS
  <2> QED
    BY <1>3, <2>1, <2>2, <2>3
<1>7. p \in Injection(S, 1 .. n)
  BY <1>5, <1>6 DEF Injection, IsInjective
<1>8. p \in Surjection(S, 1 .. n)
  BY <1>1, <1>7, FS_Injection DEF n
<1>9. \A k \in 1 .. n : \E x \in S : p[x] = k
  BY <1>8 DEF Surjection
<1>10. Sorted(S, R) = [k \in 1 .. n |-> CHOOSE x \in S : Cardinality(before(x)) = k - 1]
  BY DEF Sorted, before, n
<1> DEFINE s == Sorted(S, R)
<1>11. \A k \in 1 .. n : s[k] \in S /\ Cardinality(before(s[k])) = k - 1
  <2> SUFFICES ASSUME NEW k \in 1 .. n
               PROVE  s[k] \in S /\ Cardinality(before(s[k])) = k - 1
    OBVIOUS
  <2>1. PICK x \in S : p[x] = k
    BY <1>9
  <2>2. Cardinality(before(x)) = k - 1
    BY <1>1, <1>2, <2>1
  <2>3. s[k] = CHOOSE y \in S : Cardinality(before(y)) = k - 1
    BY <1>10
  <2> QED
    BY <2>2, <2>3
<1>12. s = [k \in 1 .. n |-> s[k]]
  BY <1>10
<1> HIDE DEF s
<1>13. \A x \in S : \E k \in 1 .. n : s[k] = x
  <2> SUFFICES ASSUME NEW x \in S PROVE \E k \in 1 .. n : s[k] = x
    OBVIOUS
  <2>1. p[x] \in 1 .. n
    BY <1>5
  <2>2. s[p[x]] \in S /\ Cardinality(before(s[p[x]])) = p[x] - 1
    BY <1>11, <2>1
  <2>3. p[s[p[x]]] = p[x]
    BY <1>1, <2>1, <2>2
  <2> QED
    BY <1>6, <2>1, <2>2, <2>3
<1>14. \A i, j \in 1 .. n : i < j => <<s[i], s[j]>> \in R
  <2> SUFFICES ASSUME NEW i \in 1 .. n, NEW j \in 1 .. n, i < j, <<s[i], s[j]>> \notin R
               PROVE  FALSE
    OBVIOUS
  <2>1. /\ s[i] \in S /\ Cardinality(before(s[i])) = i - 1
        /\ s[j] \in S /\ Cardinality(before(s[j])) = j - 1
    BY <1>11
  <2>2. i - 1 < j - 1 /\ ~(j - 1 < i - 1) /\ i - 1 # j - 1
    BY <1>1
  <2>3. s[i] # s[j]
    BY <2>1, <2>2
  <2>4. <<s[j], s[i]>> \in R
    BY <2>1, <2>3
  <2>5. Cardinality(before(s[j])) < Cardinality(before(s[i]))
    BY <1>3, <2>1, <2>4
  <2> QED
    BY <2>1, <2>2, <2>5
<1> QED
  BY <1>1, <1>11, <1>12, <1>13, <1>14 DEF s, n, ListsAll

(* Subsequence() keeps what is at the given places, in order.               *)
LEMMA SubsequenceKeepsOrder ==
    ASSUME NEW s, NEW K \in SUBSET Int, IsFiniteSet(K)
    PROVE  \E n \in Nat : \E at \in [1 .. n -> K] :
              /\ Subsequence(s, K) = [k \in 1 .. n |-> s[at[k]]]
              /\ \A i \in K : \E k \in 1 .. n : at[k] = i
              /\ \A i, j \in 1 .. n : i < j => at[i] < at[j]
<1> DEFINE R == {p \in K \X K : p[1] < p[2]}
           at == Sorted(K, R)
           n == Cardinality(K)
<1>1. \A i, j \in K : <<i, j>> \in R <=> i < j
  OBVIOUS
<1> HIDE DEF R
<1>2. OrdersAll(R, K)
  BY <1>1 DEF OrdersAll
<1>3. /\ ListsAll(at, n, K)
      /\ \A i, j \in 1 .. n : i < j => <<at[i], at[j]>> \in R
  BY <1>2, SortedLists
<1>4. Subsequence(s, K) = [k \in DOMAIN at |-> s[at[k]]]
  BY DEF Subsequence, R
<1> HIDE DEF at, n
<1>5. Subsequence(s, K) = [k \in 1 .. n |-> s[at[k]]]
  BY <1>3, <1>4 DEF ListsAll
<1>6. \A i, j \in 1 .. n : i < j => at[i] < at[j]
  BY <1>1, <1>3 DEF ListsAll
<1> QED
  BY <1>3, <1>5, <1>6 DEF ListsAll

LEMMA SubsequenceIsFinite ==
    ASSUME NEW s, NEW K \in SUBSET Int, IsFiniteSet(K)
    PROVE  IsFiniteSet(DOMAIN Subsequence(s, K))
<1> DEFINE at == Sorted(K, {p \in K \X K : p[1] < p[2]})
<1>1. DOMAIN Subsequence(s, K) = DOMAIN at
  BY DEF Subsequence
<1>2. DOMAIN at = 1 .. Cardinality(K)
  BY DEF Sorted
<1>3. 1 \in Int /\ Cardinality(K) \in Int
  BY FS_CardinalityType
<1> QED
  BY <1>1, <1>2, <1>3, FS_Interval

(* first_mention_per_brand() keeps one match of each brand, and no match of *)
(* its brand comes before one that is kept.                                *)
LEMMA FirstMentions ==
    ASSUME NEW n \in Nat, NEW matches, DOMAIN matches = 1 .. n
    PROVE  \E c \in Nat : \E at \in [1 .. c -> 1 .. n] :
              /\ FirstMentionPerBrand(matches) = [k \in 1 .. c |-> matches[at[k]]]
              /\ \A i \in 1 .. n : \E k \in 1 .. c :
                    at[k] <= i /\ matches[at[k]].brand = matches[i].brand
              /\ \A i, j \in 1 .. c :
                    matches[at[i]].brand = matches[at[j]].brand => i = j
              /\ \A i, j \in 1 .. c : i < j => at[i] < at[j]
<1> DEFINE same(i) == {j \in 1 .. n : matches[j].brand = matches[i].brand}
           K == {i \in 1 .. n : \A j \in 1 .. i - 1 : matches[j].brand # matches[i].brand}
<1>1. K \in SUBSET Int /\ IsFiniteSet(K)
  <2>1. IsFiniteSet(1 .. n) /\ K \subseteq 1 .. n
    BY FS_Interval
  <2> QED
    BY <2>1, FS_Subset
<1>2. FirstMentionPerBrand(matches) = Subsequence(matches, K)
  BY DEF FirstMentionPerBrand
<1>3. \A i \in 1 .. n : \E l \in K : l <= i /\ matches[l].brand = matches[i].brand
  <2> SUFFICES ASSUME NEW i \in 1 .. n
               PROVE  \E l \in K : l <= i /\ matches[l].brand = matches[i].brand
    OBVIOUS
  <2>1. same(i) \in SUBSET Nat /\ i \in same(i)
    OBVIOUS
  <2>2. PICK l \in same(i) : \A j \in same(i) : l <= j
    BY <2>1, LeastNumber
  <2>3. l \in 1 .. n /\ l <= i /\ matches[l].brand = matches[i].brand
    BY <2>1, <2>2
  <2>4. \A j \in 1 .. l - 1 : matches[j].brand # matches[l].brand
    BY <2>2, <2>3
  <2> QED
    BY <2>3, <2>4
<1>4. \A i, j \in K : matches[i].brand = matches[j].brand => i = j
  <2> SUFFICES ASSUME NEW i \in K, NEW j \in K, matches[i].brand = matches[j].brand, i < j
               PROVE  FALSE
    OBVIOUS
  <2>1. i \in 1 .. j - 1
    OBVIOUS
  <2> QED
    BY <2>1
<1>5. K \subseteq 1 .. n
  OBVIOUS
<1> HIDE DEF K
<1>6. PICK c \in Nat : \E at \in [1 .. c -> K] :
         /\ Subsequence(matches, K) = [k \in 1 .. c |-> matches[at[k]]]
         /\ \A i \in K : \E k \in 1 .. c : at[k] = i
         /\ \A i, j \in 1 .. c : i < j => at[i] < at[j]
  BY <1>1, SubsequenceKeepsOrder
<1>7. PICK at \in [1 .. c -> K] :
         /\ Subsequence(matches, K) = [k \in 1 .. c |-> matches[at[k]]]
         /\ \A i \in K : \E k \in 1 .. c : at[k] = i
         /\ \A i, j \in 1 .. c : i < j => at[i] < at[j]
  BY <1>6
<1>8. at \in [1 .. c -> 1 .. n]
  BY <1>5
<1>9. \A i \in 1 .. n : \E k \in 1 .. c :
         at[k] <= i /\ matches[at[k]].brand = matches[i].brand
  <2> SUFFICES ASSUME NEW i \in 1 .. n
               PROVE  \E k \in 1 .. c : at[k] <= i /\ matches[at[k]].brand = matches[i].brand
    OBVIOUS
  <2>1. PICK l \in K : l <= i /\ matches[l].brand = matches[i].brand
    BY <1>3
  <2>2. PICK k \in 1 .. c : at[k] = l
    BY <1>7
  <2> QED
    BY <2>1, <2>2
<1>10. \A i, j \in 1 .. c : matches[at[i]].brand = matches[at[j]].brand => i = j
  <2> SUFFICES ASSUME NEW i \in 1 .. c, NEW j \in 1 .. c,
                      matches[at[i]].brand = matches[at[j]].brand, i < j
               PROVE  FALSE
    OBVIOUS
  <2>1. at[i] \in K /\ at[j] \in K /\ at[i] < at[j]
    BY <1>7
  <2>2. at[i] = at[j]
    BY <1>4, <2>1
  <2> QED
    BY <1>8, <2>1, <2>2
<1> QED
  BY <1>2, <1>7, <1>8, <1>9, <1>10

-----------------------------------------------------------------------------
(* A text and a list of brands a parser can be given: finite sequences, the *)
(* terms of a brand a finite set, each brand once.                         *)
IsText(text) ==
    /\ text \in Seq(Range(text))
    /\ \A i \in DOMAIN text : text[i].tone \in Tones \cup {"none"}

IsBrandList(list) ==
    /\ \E n \in Nat : DOMAIN list = 1 .. n
    /\ \A i \in DOMAIN list : IsFiniteSet(list[i].terms)
    /\ \A i, j \in DOMAIN list : list[i].brand = list[j].brand => i = j

(* Where one of some terms is found. *)
Places(text, terms) == UNION {Spans(text, t) : t \in terms}

LEMMA PlacesAreSpans ==
    ASSUME NEW text, IsText(text), NEW terms, IsFiniteSet(terms)
    PROVE  /\ IsFiniteSet(Places(text, terms))
           /\ Places(text, terms) \subseteq Nat \X Nat
<1> DEFINE n == Len(text)
           all == (1 .. n) \X (1 .. n)
<1>1. n \in Nat /\ DOMAIN text = 1 .. n
  BY LenProperties DEF IsText
<1> HIDE DEF n
<1>2. IsFiniteSet(all) /\ all \subseteq Nat \X Nat
  <2>1. IsFiniteSet(1 .. n)
    BY <1>1, FS_Interval
  <2>2. IsFiniteSet(all)
    BY <2>1, FS_Product
  <2>3. all \subseteq Nat \X Nat
    OBVIOUS
  <2> QED
    BY <2>2, <2>3
<1>3. \A t : Spans(text, t) \subseteq all
  <2> SUFFICES ASSUME NEW t, NEW s \in Spans(text, t) PROVE s \in all
    OBVIOUS
  <2>1. s \in UNION {{i} \X (i .. Len(text)) : i \in {i \in DOMAIN text :
                                                     text[i].id = Head(t).id}}
    BY DEF Spans
  <2>2. PICK i \in DOMAIN text : s \in {i} \X (i .. Len(text))
    BY <2>1
  <2> QED
    BY <1>1, <2>2 DEF n
<1>4. Places(text, terms) \subseteq all
  BY <1>3 DEF Places
<1> QED
  BY <1>2, <1>4, FS_Subset

LEMMA MatchesAreFinite ==
    ASSUME NEW text, IsText(text), NEW list, IsBrandList(list)
    PROVE  IsFiniteSet(AliasMatches(text, list))
<1> DEFINE of(i) == {[rank |-> i, brand |-> list[i].brand,
                      start |-> span[1], end |-> span[2]] :
                         span \in Places(text, list[i].terms)}
           sets == {of(i) : i \in DOMAIN list}
<1>1. AliasMatches(text, list) = UNION sets
  BY DEF AliasMatches, Places
<1>2. \A i \in DOMAIN list : IsFiniteSet(of(i))
  <2> SUFFICES ASSUME NEW i \in DOMAIN list PROVE IsFiniteSet(of(i))
    OBVIOUS
  <2> DEFINE S == Places(text, list[i].terms)
             f == [span \in S |-> [rank |-> i, brand |-> list[i].brand,
                                   start |-> span[1], end |-> span[2]]]
  <2>1. IsFiniteSet(S)
    BY PlacesAreSpans DEF IsBrandList
  <2> HIDE DEF S
  <2>2. of(i) = {f[span] : span \in S}
    BY DEF S
  <2> HIDE DEF f, of
  <2> QED
    BY <2>1, <2>2, ImageIsFinite
<1>3. IsFiniteSet(sets)
  <2> DEFINE g == [i \in DOMAIN list |-> of(i)]
  <2>1. PICK n \in Nat : DOMAIN list = 1 .. n
    BY DEF IsBrandList
  <2>2. IsFiniteSet(DOMAIN list)
    BY <2>1, FS_Interval
  <2>3. sets = {g[i] : i \in DOMAIN list}
    OBVIOUS
  <2> HIDE DEF g, sets
  <2> QED
    BY <2>2, <2>3, ImageIsFinite
<1>4. \A T \in sets : IsFiniteSet(T)
  BY <1>2
<1> HIDE DEF sets
<1> QED
  BY <1>1, <1>3, <1>4, FS_UNION

LEMMA MatchesAreRecords ==
    ASSUME NEW text, IsText(text), NEW list, IsBrandList(list)
    PROVE  \A m \in AliasMatches(text, list) :
              /\ m.rank \in DOMAIN list /\ m.brand = list[m.rank].brand
              /\ m.start \in Nat /\ m.end \in Nat
              /\ <<m.start, m.end>> \in Places(text, list[m.rank].terms)
<1>1. \A i \in DOMAIN list : Places(text, list[i].terms) \subseteq Nat \X Nat
  BY PlacesAreSpans DEF IsBrandList
<1>2. AliasMatches(text, list)
         = UNION {{[rank |-> i, brand |-> list[i].brand, start |-> span[1], end |-> span[2]] :
                      span \in Places(text, list[i].terms)} : i \in DOMAIN list}
  BY DEF AliasMatches, Places
<1>3. ASSUME NEW m \in AliasMatches(text, list)
      PROVE  /\ m.rank \in DOMAIN list /\ m.brand = list[m.rank].brand
             /\ m.start \in Nat /\ m.end \in Nat
             /\ <<m.start, m.end>> \in Places(text, list[m.rank].terms)
  <2>1. PICK i \in DOMAIN list : \E span \in Places(text, list[i].terms) :
           m = [rank |-> i, brand |-> list[i].brand, start |-> span[1], end |-> span[2]]
    BY <1>2
  <2>2. PICK span \in Places(text, list[i].terms) :
           m = [rank |-> i, brand |-> list[i].brand, start |-> span[1], end |-> span[2]]
    BY <2>1
  <2>3. span \in Nat \X Nat
    BY <1>1
  <2>4. span = <<span[1], span[2]>> /\ span[1] \in Nat /\ span[2] \in Nat
    BY <2>3
  <2> QED
    BY <2>2, <2>4
<1> QED
  BY <1>3

LEMMA MatchesDiffer ==
    ASSUME NEW text, NEW list, NEW l \in AliasMatches(text, list),
           NEW m \in AliasMatches(text, list),
           l.rank = m.rank, l.start = m.start, l.end = m.end
    PROVE  l = m
<1> DEFINE Match(x) == \E i \in DOMAIN list : \E span \in Places(text, list[i].terms) :
               x = [rank |-> i, brand |-> list[i].brand, start |-> span[1], end |-> span[2]]
<1>1. Match(l) /\ Match(m)
  BY DEF AliasMatches, Places
<1>2. PICK i, a, b : l = [rank |-> i, brand |-> list[i].brand, start |-> a, end |-> b]
  BY <1>1
<1>3. PICK j, c, d : m = [rank |-> j, brand |-> list[j].brand, start |-> c, end |-> d]
  BY <1>1
<1> QED
  BY <1>2, <1>3

LEMMA EveryPlaceIsMatched ==
    ASSUME NEW text, NEW list, NEW i \in DOMAIN list,
           NEW span \in Places(text, list[i].terms)
    PROVE  \E m \in AliasMatches(text, list) :
              m.brand = list[i].brand /\ m.start = span[1]
<1> DEFINE m == [rank |-> i, brand |-> list[i].brand, start |-> span[1], end |-> span[2]]
<1>1. m \in AliasMatches(text, list)
  BY DEF AliasMatches, Places
<1>2. m.brand = list[i].brand /\ m.start = span[1]
  OBVIOUS
<1> HIDE DEF m
<1> QED
  BY <1>1, <1>2

(* find_all_alias_matches() lists all matches, none before one that starts  *)
(* earlier.                                                                *)
LEMMA AllMatchesInOrder ==
    ASSUME NEW text, IsText(text), NEW list, IsBrandList(list)
    PROVE  LET found == FindAllAliasMatches(text, list)
               n == Cardinality(AliasMatches(text, list))
           IN  /\ ListsAll(found, n, AliasMatches(text, list))
               /\ \A i, j \in 1 .. n : i < j => found[i].start <= found[j].start
<1> DEFINE S == AliasMatches(text, list)
           R == {p \in S \X S : ComesFirst(p[1], p[2])}
           found == FindAllAliasMatches(text, list)
           n == Cardinality(S)
<1>1. IsFiniteSet(S)
  BY MatchesAreFinite
<1>2. found = Sorted(S, R)
  BY DEF FindAllAliasMatches
<1>3. \A m \in S : /\ m.rank \in Int /\ m.start \in Int /\ m.end \in Int
  <2>1. DOMAIN list \subseteq Int
    BY DEF IsBrandList
  <2>2. \A m \in S : m.rank \in DOMAIN list /\ m.start \in Nat /\ m.end \in Nat
    BY MatchesAreRecords
  <2> HIDE DEF S
  <2> QED
    BY <2>1, <2>2
<1>4. \A l, m \in S : <<l, m>> \in R <=> ComesFirst(l, m)
  OBVIOUS
<1> HIDE DEF R, S, n, found
<1>5. OrdersAll(R, S)
  <2>1. \A m \in S : <<m, m>> \notin R
    BY <1>3, <1>4 DEF ComesFirst
  <2>2. \A k, l, m \in S : <<k, l>> \in R /\ <<l, m>> \in R => <<k, m>> \in R
    BY <1>3, <1>4 DEF ComesFirst
  <2>3. \A l, m \in S : l # m => <<l, m>> \in R \/ <<m, l>> \in R
    <3> SUFFICES ASSUME NEW l \in S, NEW m \in S, <<l, m>> \notin R, <<m, l>> \notin R
                 PROVE  l = m
      OBVIOUS
    <3>1. l.start = m.start /\ l.rank = m.rank /\ l.end = m.end
      BY <1>3, <1>4 DEF ComesFirst
    <3> QED
      BY <3>1, MatchesDiffer DEF S
  <2> QED
    BY <2>1, <2>2, <2>3 DEF OrdersAll
<1>6. /\ ListsAll(found, n, S)
      /\ \A i, j \in 1 .. n : i < j => <<found[i], found[j]>> \in R
  BY <1>1, <1>2, <1>5, SortedLists DEF n
<1>7. \A i, j \in 1 .. n : i < j => found[i].start <= found[j].start
  <2> SUFFICES ASSUME NEW i \in 1 .. n, NEW j \in 1 .. n, i < j
               PROVE  found[i].start <= found[j].start
    OBVIOUS
  <2>1. found[i] \in S /\ found[j] \in S
    BY <1>6 DEF ListsAll
  <2>2. ComesFirst(found[i], found[j])
    BY <1>4, <1>6, <2>1
  <2>3. found[i].start \in Int /\ found[j].start \in Int
    BY <1>3, <2>1
  <2> QED
    BY <2>2, <2>3 DEF ComesFirst
<1> QED
  BY <1>6, <1>7 DEF found, n, S

(* The sentiment of a mention is one of the three.                          *)
LEMMA ClassifyType ==
    ASSUME NEW context, IsFiniteSet(context),
           \A x \in context : x.tone \in Tones \cup {"none"}
    PROVE  Classify(context) \in Tones
<1> DEFINE tones == {x.tone : x \in context} \ {"none"}
<1>1. tones \subseteq Tones
  OBVIOUS
<1>2. Classify(context) = IF Cardinality(tones) = 1 THEN CHOOSE t \in tones : TRUE
                          ELSE "neutral"
  BY DEF Classify
<1> HIDE DEF tones
<1>3. Cardinality(tones) = 1 => tones # {}
  BY FS_EmptySet
<1>4. "neutral" \in Tones
  BY DEF Tones
<1>5. tones # {} => (CHOOSE t \in tones : TRUE) \in tones
  OBVIOUS
<1> QED
  BY <1>1, <1>2, <1>3, <1>4, <1>5

LEMMA SentimentType ==
    ASSUME NEW text, IsText(text), NEW start
    PROVE  Classify(Context(text, start)) \in Tones
<1>1. PICK I \in SUBSET DOMAIN text : Context(text, start) = {text[i] : i \in I}
  BY DEF Context
<1>2. IsFiniteSet(DOMAIN text)
  <2>1. Len(text) \in Nat /\ DOMAIN text = 1 .. Len(text)
    BY LenProperties DEF IsText
  <2> QED
    BY <2>1, FS_Interval
<1>3. IsFiniteSet(I)
  BY <1>2, FS_Subset
<1>4. IsFiniteSet(Context(text, start))
  BY <1>1, <1>3, ImageIsFinite
<1>5. \A x \in Context(text, start) : x.tone \in Tones \cup {"none"}
  BY <1>1 DEF IsText
<1> QED
  BY <1>4, <1>5, ClassifyType

(* What the mentions of an answer say about its text.                       *)
IsRanking(ms, list) ==
    /\ \E c \in Nat : ms = [i \in 1 .. c |-> ms[i]]
    /\ \A i \in DOMAIN ms :
          /\ ms[i] = [brand |-> ms[i].brand, order |-> i, sentiment |-> ms[i].sentiment]
          /\ ms[i].sentiment \in Tones
          /\ \E k \in DOMAIN list : list[k].brand = ms[i].brand
    /\ \A i, j \in DOMAIN ms : ms[i].brand = ms[j].brand => i = j

Mentioned(ms, b) == \E i \in DOMAIN ms : ms[i].brand = b

NamesWhoIsFound(ms, text, list) ==
    \A k \in DOMAIN list :
        Mentioned(ms, list[k].brand) <=> Places(text, list[k].terms) # {}

(* Some of the places in found starts no later than each of others.         *)
NoLater(found, others) == \A s \in others : \E t \in found : t[1] <= s[1]

RanksByPlace(ms, text, list) ==
    \A k, l \in DOMAIN list, i, j \in DOMAIN ms :
        i < j /\ list[k].brand = ms[i].brand /\ list[l].brand = ms[j].brand
        => NoLater(Places(text, list[k].terms), Places(text, list[l].terms))

LEMMA MentionsAreARanking ==
    ASSUME NEW answer, IsText(answer.text), NEW list, IsBrandList(list)
    PROVE  LET ms == ParseResponse(answer, list).mentions
           IN  /\ IsRanking(ms, list)
               /\ NamesWhoIsFound(ms, answer.text, list)
               /\ RanksByPlace(ms, answer.text, list)
<1> DEFINE text == answer.text
           S == AliasMatches(text, list)
           found == FindAllAliasMatches(text, list)
           n == Cardinality(S)
           firsts == FirstMentionPerBrand(found)
           tone(start) == Classify(Context(text, start))
           ms == ParseResponse(answer, list).mentions
<1>1. ms = [order \in DOMAIN firsts |-> [brand |-> firsts[order].brand, order |-> order,
                                         sentiment |-> tone(firsts[order].start)]]
  BY DEF ParseResponse
<1>2. \A start : tone(start) \in Tones
  BY SentimentType
<1>3. /\ n \in Nat /\ found \in [1 .. n -> S]
      /\ \A x \in S : \E k \in 1 .. n : found[k] = x
      /\ \A i, j \in 1 .. n : i < j => found[i].start <= found[j].start
  <2>1. /\ ListsAll(found, n, S)
        /\ \A i, j \in 1 .. n : i < j => found[i].start <= found[j].start
    BY AllMatchesInOrder
  <2> HIDE DEF found, n, S
  <2> QED
    BY <2>1 DEF ListsAll
<1>4. \A m \in S : /\ m.rank \in DOMAIN list /\ m.brand = list[m.rank].brand
                   /\ m.start \in Nat /\ m.end \in Nat
                   /\ <<m.start, m.end>> \in Places(text, list[m.rank].terms)
  BY MatchesAreRecords
<1>5. \A k \in DOMAIN list : \A span \in Places(text, list[k].terms) :
         \E m \in S : m.brand = list[k].brand /\ m.start = span[1]
  BY EveryPlaceIsMatched
<1> HIDE DEF tone, S, n, found
<1>6. PICK c \in Nat : \E at \in [1 .. c -> 1 .. n] :
         /\ firsts = [k \in 1 .. c |-> found[at[k]]]
         /\ \A i \in 1 .. n : \E k \in 1 .. c :
               at[k] <= i /\ found[at[k]].brand = found[i].brand
         /\ \A i, j \in 1 .. c : found[at[i]].brand = found[at[j]].brand => i = j
         /\ \A i, j \in 1 .. c : i < j => at[i] < at[j]
  <2>1. n \in Nat /\ DOMAIN found = 1 .. n
    BY <1>3
  <2> QED
    BY ONLY <2>1, FirstMentions
<1>7. PICK at \in [1 .. c -> 1 .. n] :
         /\ firsts = [k \in 1 .. c |-> found[at[k]]]
         /\ \A i \in 1 .. n : \E k \in 1 .. c :
               at[k] <= i /\ found[at[k]].brand = found[i].brand
         /\ \A i, j \in 1 .. c : found[at[i]].brand = found[at[j]].brand => i = j
         /\ \A i, j \in 1 .. c : i < j => at[i] < at[j]
  BY <1>6
<1> HIDE DEF firsts, ms
<1>8. /\ DOMAIN ms = 1 .. c
      /\ ms = [i \in 1 .. c |-> ms[i]]
      /\ \A i \in 1 .. c : ms[i] = [brand |-> found[at[i]].brand, order |-> i,
                                    sentiment |-> tone(found[at[i]].start)]
  BY <1>1, <1>7
<1>9. \A i \in 1 .. c : ms[i].brand = found[at[i]].brand /\ ms[i].order = i
                        /\ ms[i].sentiment = tone(found[at[i]].start)
  BY <1>8
<1>10. \A i \in 1 .. c : found[at[i]] \in S
  BY <1>3, <1>7
<1>11. IsRanking(ms, list)
  <2>1. \A i \in 1 .. c :
           ms[i] = [brand |-> ms[i].brand, order |-> i, sentiment |-> ms[i].sentiment]
    BY <1>8
  <2>2. \A i \in 1 .. c : ms[i].sentiment \in Tones
    BY <1>2, <1>9
  <2>4. \A i \in 1 .. c : \E k \in DOMAIN list : list[k].brand = ms[i].brand
    <3> SUFFICES ASSUME NEW i \in 1 .. c
                 PROVE  \E k \in DOMAIN list : list[k].brand = ms[i].brand
      OBVIOUS
    <3>1. PICK m \in S : m = found[at[i]]
      BY <1>10
    <3>2. m.rank \in DOMAIN list /\ m.brand = list[m.rank].brand
      BY <1>4
    <3>3. ms[i].brand = m.brand
      BY <1>9, <3>1
    <3> QED
      BY <3>2, <3>3
  <2>3. \A i, j \in 1 .. c : ms[i].brand = ms[j].brand => i = j
    BY <1>7, <1>9
  <2> QED
    BY <1>8, <2>1, <2>2, <2>3, <2>4 DEF IsRanking
(* A brand with a place is mentioned, at a place no later.                  *)
<1>12. ASSUME NEW k \in DOMAIN list, NEW span \in Places(text, list[k].terms)
       PROVE  \E i \in 1 .. c : /\ ms[i].brand = list[k].brand
                                /\ found[at[i]].start <= span[1]
  <2>1. PICK m \in S : m.brand = list[k].brand /\ m.start = span[1]
    BY <1>5
  <2>2. PICK p \in 1 .. n : found[p] = m
    BY <1>3
  <2>3. PICK i \in 1 .. c : at[i] <= p /\ found[at[i]].brand = found[p].brand
    BY <1>7
  <2>4. found[at[i]].start <= found[p].start
    <3>1. at[i] \in 1 .. n /\ (at[i] = p \/ at[i] < p)
      BY <1>7, <2>3
    <3>2. found[p].start \in Nat
      BY <1>4, <2>2
    <3> QED
      BY <1>3, <3>1, <3>2
  <2> QED
    BY <1>9, <2>1, <2>2, <2>3, <2>4
<1>13. ASSUME NEW k \in DOMAIN list, NEW i \in 1 .. c, ms[i].brand = list[k].brand
       PROVE  \E span \in Places(text, list[k].terms) : span[1] = found[at[i]].start
  <2>1. list[found[at[i]].rank].brand = list[k].brand /\ found[at[i]].rank \in DOMAIN list
    BY <1>4, <1>9, <1>10, <1>13
  <2>2. found[at[i]].rank = k
    BY <2>1 DEF IsBrandList
  <2>3. <<found[at[i]].start, found[at[i]].end>> \in Places(text, list[k].terms)
    BY <1>4, <1>10, <2>2
  <2> QED
    BY <2>3
<1>14. NamesWhoIsFound(ms, text, list)
  <2> SUFFICES ASSUME NEW k \in DOMAIN list
               PROVE  Mentioned(ms, list[k].brand) <=> Places(text, list[k].terms) # {}
    BY DEF NamesWhoIsFound
  <2>1. ASSUME Mentioned(ms, list[k].brand) PROVE Places(text, list[k].terms) # {}
    BY <1>8, <1>13, <2>1 DEF Mentioned
  <2>2. ASSUME Places(text, list[k].terms) # {} PROVE Mentioned(ms, list[k].brand)
    BY <1>8, <1>12, <2>2 DEF Mentioned
  <2> QED
    BY <2>1, <2>2
<1>15. RanksByPlace(ms, text, list)
  <2> SUFFICES ASSUME NEW k \in DOMAIN list, NEW l \in DOMAIN list,
                      NEW i \in 1 .. c, NEW j \in 1 .. c, i < j,
                      list[k].brand = ms[i].brand, list[l].brand = ms[j].brand,
                      NEW s \in Places(text, list[l].terms)
               PROVE  \E t \in Places(text, list[k].terms) : t[1] <= s[1]
    BY <1>8 DEF RanksByPlace, NoLater
  <2>1. PICK m \in 1 .. c : ms[m].brand = list[l].brand /\ found[at[m]].start <= s[1]
    BY <1>12
  <2>2. m = j
    BY <1>7, <1>9, <2>1
  <2>3. found[at[i]].start <= found[at[j]].start
    BY <1>3, <1>7
  <2>4. PICK t \in Places(text, list[k].terms) : t[1] = found[at[i]].start
    BY <1>13
  <2>5. s[1] \in Nat
    <3>1. Places(text, list[l].terms) \subseteq Nat \X Nat
      BY PlacesAreSpans DEF IsBrandList
    <3> QED
      BY <3>1
  <2>6. found[at[i]].start \in Nat /\ found[at[j]].start \in Nat
    BY <1>4, <1>10
  <2> QED
    BY <2>1, <2>2, <2>3, <2>4, <2>5, <2>6
<1> QED
  BY <1>11, <1>14, <1>15 DEF ms, text

(* The citations of an answer are finitely many. *)
LEMMA CitationsAreFinite ==
    ASSUME NEW answer, IsText(answer.text), IsFiniteSet(DOMAIN answer.citations), NEW list
    PROVE  IsFiniteSet(DOMAIN ParseResponse(answer, list).citations)
<1> DEFINE urls == ResolveCitations(answer)
           text == answer.text
           K == {i \in DOMAIN text : /\ IsUrl(text[i])
                                     /\ \A j \in 1 .. i - 1 : text[j] # text[i]}
<1>1. DOMAIN ParseResponse(answer, list).citations = DOMAIN urls
  BY DEF ParseResponse
<1>2. urls = IF answer.citations # <<>> THEN answer.citations ELSE Subsequence(text, K)
  BY DEF ResolveCitations
<1>3. IsFiniteSet(DOMAIN Subsequence(text, K))
  <2>1. DOMAIN text = 1 .. Len(text) /\ Len(text) \in Nat
    BY LenProperties DEF IsText
  <2>2. IsFiniteSet(1 .. Len(text))
    BY <2>1, FS_Interval
  <2>3. K \subseteq 1 .. Len(text)
    BY <2>1
  <2>4. \A i \in 1 .. Len(text) : i \in Int
    BY <2>1
  <2> HIDE DEF K, text
  <2>5. K \in SUBSET Int /\ IsFiniteSet(K)
    BY <2>2, <2>3, <2>4, FS_Subset
  <2> QED
    BY <2>5, SubsequenceIsFinite
<1> HIDE DEF urls, K
<1> QED
  BY <1>1, <1>2, <1>3
=============================================================================
