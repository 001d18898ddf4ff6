----------------------------- MODULE SumsAndRanks -----------------------------
(***************************************************************************)
(* What the proofs of several components need of finite sets: sums, which  *)
(* the models compute by folds over sets and sequences; maxima; products   *)
(* of percentages; and the ranks of the elements of a set in a strict      *)
(* order, which sorts and samples are made of.                             *)
(***************************************************************************)
EXTENDS Integers, Sequences, SequencesExt, FiniteSets, FiniteSetTheorems, FunctionTheorems, TLAPS

\* Induction over the subsets of a finite set: what holds of a set when it holds of the
\* set without any one of its elements holds of them all.  Good is what it holds of.
LEMMA BySmallerSets ==
    ASSUME NEW T, IsFiniteSet(T), NEW Good,
           \A S \in SUBSET T : (\A x \in S : S \ {x} \in Good) => S \in Good
    PROVE  \A S \in SUBSET T : S \in Good
<1> DEFINE Bad == {S \in FiniteSubsetsOf(T) : S \notin Good}
<1>1. SUFFICES ASSUME Bad # {} PROVE FALSE
  BY FS_Subset DEF FiniteSubsetsOf
<1>2. PICK S \in Bad : \A R \in Bad : <<R, S>> \notin StrictSubsetOrdering(T)
  <2>1. IsWellFoundedOn(StrictSubsetOrdering(T), FiniteSubsetsOf(T))
    BY FS_StrictSubsetOrderingWellFounded
  <2>2. Bad \subseteq FiniteSubsetsOf(T)
    OBVIOUS
  <2> HIDE DEF Bad
  <2> QED
    BY <1>1, <2>1, <2>2, WFMin
<1>3. S \in SUBSET T /\ S \notin Good
  BY <1>2 DEF FiniteSubsetsOf
<1>4. ASSUME NEW x \in S PROVE S \ {x} \in Good
  <2>1. S \ {x} \in FiniteSubsetsOf(T) /\ <<S \ {x}, S>> \in StrictSubsetOrdering(T)
    BY <1>3, FS_Subset DEF FiniteSubsetsOf, StrictSubsetOrdering
  <2> QED
    BY <1>2, <2>1
<1> QED
  BY <1>3, <1>4

\* The element a fold takes next, and the equation that defines the fold that sums F.
Picked(s) == CHOOSE x \in s : TRUE
Folded(F, h, s) == IF s = {} THEN 0 ELSE F[Picked(s)] + h[s \ {Picked(s)}]
Sums(F, S, h) == h = [s \in SUBSET S |-> Folded(F, h, s)]
SumOf(F, S) == (CHOOSE h : Sums(F, S, h))[S]
Summed(F, S) == \E h : Sums(F, S, h)

\* A solution of the equation, at each of its sets.
LEMMA PickedFact == ASSUME NEW s, s # {} PROVE Picked(s) \in s
BY DEF Picked

LEMMA SumsFact == \A F, S, h : Sums(F, S, h) => \A s \in SUBSET S : h[s] = Folded(F, h, s)
<1> SUFFICES ASSUME NEW F, NEW S, NEW h, Sums(F, S, h), NEW s \in SUBSET S
             PROVE  h[s] = Folded(F, h, s)
  OBVIOUS
<1> DEFINE e(g) == [r \in SUBSET S |-> Folded(F, g, r)]
<1>1. e(h)[s] = Folded(F, h, s)
  OBVIOUS
<1>2. h = e(h)
  BY DEF Sums
<1> QED
  BY <1>1, <1>2

\* Two solutions agree wherever both are defined, so that SumOf is the solution.
LEMMA SumsAgree ==
    ASSUME NEW F, NEW A, NEW B, IsFiniteSet(A), NEW g, NEW h, Sums(F, A, g), Sums(F, B, h)
    PROVE  \A s \in SUBSET A : s \subseteq B => g[s] = h[s]
<1> DEFINE Good == {s \in SUBSET A : s \subseteq B => g[s] = h[s]}
<1>1. ASSUME NEW s \in SUBSET A, \A x \in s : s \ {x} \in Good
      PROVE  s \in Good
  <2>1. SUFFICES ASSUME s \subseteq B PROVE g[s] = h[s]
    OBVIOUS
  <2> HIDE DEF Good
  <2>2. /\ g[s] = IF s = {} THEN 0 ELSE F[Picked(s)] + g[s \ {Picked(s)}]
        /\ h[s] = IF s = {} THEN 0 ELSE F[Picked(s)] + h[s \ {Picked(s)}]
    <3>1. s \in SUBSET A /\ s \in SUBSET B
      BY <2>1
    <3>2. g[s] = Folded(F, g, s) /\ h[s] = Folded(F, h, s)
      BY <3>1, SumsFact, Zenon
    <3> QED
      BY <3>2 DEF Folded
  <2>3. s # {} => g[s \ {Picked(s)}] = h[s \ {Picked(s)}]
    BY <1>1, <2>1, PickedFact DEF Good
  <2> QED
    BY <2>2, <2>3
<1> HIDE DEF Good
<1>2. \A s \in SUBSET A : s \in Good
  BY <1>1, BySmallerSets
<1> QED
  BY <1>2 DEF Good

LEMMA SumOfSums ==
    ASSUME NEW F, NEW S, IsFiniteSet(S), Summed(F, S)
    PROVE  \A h : Sums(F, S, h) => h[S] = SumOf(F, S)
<1>1. Sums(F, S, CHOOSE h : Sums(F, S, h))
  BY DEF Summed
<1> QED
  BY <1>1, SumsAgree DEF SumOf

LEMMA SumOfStep ==
    ASSUME NEW F, NEW S, IsFiniteSet(S), Summed(F, S),
           S # {} => Summed(F, S \ {Picked(S)})
    PROVE  SumOf(F, S) = IF S = {} THEN 0 ELSE F[Picked(S)] + SumOf(F, S \ {Picked(S)})
<1>1. PICK h : Sums(F, S, h)
  BY DEF Summed
<1>2. h[S] = IF S = {} THEN 0 ELSE F[Picked(S)] + h[S \ {Picked(S)}]
  BY <1>1, SumsFact DEF Folded
<1>3. SumOf(F, S) = h[S]
  BY <1>1, SumOfSums
<1>4. ASSUME S # {} PROVE h[S \ {Picked(S)}] = SumOf(F, S \ {Picked(S)})
  <2> DEFINE R == S \ {Picked(S)}
  <2>1. IsFiniteSet(R) /\ R \subseteq S
    BY FS_Subset
  <2>2. PICK g : Sums(F, R, g)
    BY <1>4 DEF Summed
  <2>3. g[R] = SumOf(F, R)
    BY <1>4, <2>1, <2>2, SumOfSums
  <2>4. g[R] = h[R]
    <3> HIDE DEF R
    <3>1. \A s \in SUBSET R : s \subseteq S => g[s] = h[s]
      BY <1>1, <2>1, <2>2, SumsAgree
    <3> QED
      BY <2>1, <3>1
  <2> QED
    BY <2>3, <2>4
<1> QED
  BY <1>2, <1>3, <1>4

\* The equation of the fold has a solution on every finite set.
LEMMA AllSummed == ASSUME NEW F, NEW T, IsFiniteSet(T) PROVE \A S \in SUBSET T : Summed(F, S)
<1> DEFINE Good == {S \in SUBSET T : \A R \in SUBSET S : Summed(F, R)}
<1>1. ASSUME NEW S \in SUBSET T, \A x \in S : S \ {x} \in Good
      PROVE  S \in Good
  <2>1. \A R \in SUBSET S : R # S => Summed(F, R)
    <3>1. SUFFICES ASSUME NEW R \in SUBSET S, R # S PROVE Summed(F, R)
      OBVIOUS
    <3>2. PICK x \in S : R \subseteq S \ {x}
      BY <3>1
    <3> QED
      BY <1>1, <3>2
  <2> DEFINE h == [s \in SUBSET S |-> IF s = {} THEN 0
                                      ELSE F[Picked(s)] + SumOf(F, s \ {Picked(s)})]
  <2>2. ASSUME NEW s \in SUBSET S, s # S
        PROVE  h[s] = SumOf(F, s)
    <3>1. IsFiniteSet(s) /\ Summed(F, s) /\ (s # {} => Summed(F, s \ {Picked(s)}))
      <4>1. IsFiniteSet(s)
        BY FS_Subset
      <4>2. s \ {Picked(s)} \in SUBSET S /\ s \ {Picked(s)} # S
        BY <2>2
      <4> QED
        BY <2>1, <2>2, <4>1, <4>2
    <3>2. SumOf(F, s) = IF s = {} THEN 0 ELSE F[Picked(s)] + SumOf(F, s \ {Picked(s)})
      BY <3>1, SumOfStep
    <3> QED
      BY <3>2
  <2>3. ASSUME NEW s \in SUBSET S, s # {}
        PROVE  SumOf(F, s \ {Picked(s)}) = h[s \ {Picked(s)}]
    <3>1. Picked(s) \in s
      BY <2>3, PickedFact
    <3>2. s \ {Picked(s)} \in SUBSET S /\ s \ {Picked(s)} # S
      BY <3>1
    <3> HIDE DEF h
    <3> QED
      BY <2>2, <3>2
  <2>4. h = [s \in SUBSET S |-> IF s = {} THEN 0 ELSE F[Picked(s)] + h[s \ {Picked(s)}]]
    <3> DEFINE e(g) == [s \in SUBSET S |-> IF s = {} THEN 0 ELSE F[Picked(s)] + g[s \ {Picked(s)}]]
    <3>1. ASSUME NEW s \in SUBSET S PROVE h[s] = e(h)[s]
      <4>1. h[s] = IF s = {} THEN 0 ELSE F[Picked(s)] + SumOf(F, s \ {Picked(s)})
        OBVIOUS
      <4>2. e(h)[s] = IF s = {} THEN 0 ELSE F[Picked(s)] + h[s \ {Picked(s)}]
        OBVIOUS
      <4> QED
        BY <2>3, <4>1, <4>2
    <3>2. DOMAIN h = SUBSET S /\ DOMAIN e(h) = SUBSET S
          /\ h = [s \in DOMAIN h |-> h[s]] /\ e(h) = [s \in DOMAIN e(h) |-> e(h)[s]]
      OBVIOUS
    <3> HIDE DEF h, e
    <3>3. h = e(h)
      BY <3>1, <3>2
    <3> QED
      BY <3>3 DEF e
  <2> HIDE DEF h
  <2>5. Summed(F, S)
    BY <2>4 DEF Summed, Sums, Folded
  <2> QED
    BY <2>1, <2>5
<1> HIDE DEF Good
<1>2. \A S \in SUBSET T : S \in Good
  BY <1>1, BySmallerSets
<1> QED
  BY <1>2 DEF Good

\* The sum of nothing, and the first step of a fold.
LEMMA SumEmpty == ASSUME NEW F PROVE SumOf(F, {}) = 0
<1>1. IsFiniteSet({}) /\ Summed(F, {})
  BY AllSummed, FS_EmptySet
<1> QED
  BY <1>1, SumOfStep

LEMMA SumPicked ==
    ASSUME NEW F, NEW S, IsFiniteSet(S), S # {}
    PROVE  SumOf(F, S) = F[Picked(S)] + SumOf(F, S \ {Picked(S)})
<1>1. Summed(F, S) /\ Summed(F, S \ {Picked(S)})
  BY AllSummed
<1> QED
  BY <1>1, SumOfStep

\* Sums of integers are integers.
LEMMA SumTyped ==
    ASSUME NEW T, IsFiniteSet(T), NEW F, \A x \in T : F[x] \in Int
    PROVE  \A S \in SUBSET T : SumOf(F, S) \in Int
<1> DEFINE Good == {S \in SUBSET T : SumOf(F, S) \in Int}
<1>1. ASSUME NEW S \in SUBSET T, \A x \in S : S \ {x} \in Good
      PROVE  S \in Good
  <2>1. CASE S = {}
    BY <2>1, SumEmpty
  <2>2. CASE S # {}
    <3>1. Picked(S) \in S /\ F[Picked(S)] \in Int
      BY <2>2, PickedFact
    <3>2. SumOf(F, S) = F[Picked(S)] + SumOf(F, S \ {Picked(S)})
      BY <2>2, SumPicked, FS_Subset
    <3> QED
      BY <1>1, <3>1, <3>2
  <2> QED
    BY <2>1, <2>2
<1> HIDE DEF Good
<1>2. \A S \in SUBSET T : S \in Good
  BY <1>1, BySmallerSets
<1> QED
  BY <1>2 DEF Good

\* A sum of integers does not depend on the order of the fold.
LEMMA SumWithout ==
    ASSUME NEW T, IsFiniteSet(T), NEW F, \A x \in T : F[x] \in Int
    PROVE  \A S \in SUBSET T : \A x \in S : SumOf(F, S) = F[x] + SumOf(F, S \ {x})
<1> DEFINE Good == {S \in SUBSET T : \A x \in S : SumOf(F, S) = F[x] + SumOf(F, S \ {x})}
<1>1. ASSUME NEW S \in SUBSET T, \A x \in S : S \ {x} \in Good
      PROVE  S \in Good
  <2>1. SUFFICES ASSUME NEW x \in S PROVE SumOf(F, S) = F[x] + SumOf(F, S \ {x})
    OBVIOUS
  <2> DEFINE p == Picked(S)
  <2>2. p \in S /\ p \in T /\ F[p] \in Int /\ F[x] \in Int
    BY PickedFact
  <2>3. SumOf(F, S) = F[p] + SumOf(F, S \ {p})
    BY SumPicked, FS_Subset
  <2> HIDE DEF p
  <2>4. CASE x # p
    <3> DEFINE rest == SumOf(F, (S \ {p}) \ {x})
    <3>1. SumOf(F, S \ {p}) = F[x] + rest
      BY <1>1, <2>2, <2>4
    <3>2. SumOf(F, S \ {x}) = F[p] + rest
      <4>1. SumOf(F, S \ {x}) = F[p] + SumOf(F, (S \ {x}) \ {p})
        BY <1>1, <2>2, <2>4
      <4>2. (S \ {x}) \ {p} = (S \ {p}) \ {x}
        OBVIOUS
      <4> QED
        BY <4>1, <4>2
    <3>3. rest \in Int
      BY SumTyped
    <3> HIDE DEF rest
    <3> QED
      BY <2>2, <2>3, <3>1, <3>2, <3>3
  <2> QED
    BY <2>3, <2>4
<1> HIDE DEF Good
<1>2. \A S \in SUBSET T : S \in Good
  BY <1>1, BySmallerSets
<1> QED
  BY <1>2 DEF Good

\* A sum depends on the values over its set only.
LEMMA SumSame ==
    ASSUME NEW T, IsFiniteSet(T), NEW F, NEW G, \A x \in T : F[x] = G[x]
    PROVE  SumOf(F, T) = SumOf(G, T)
<1> DEFINE Good == {S \in SUBSET T : SumOf(F, S) = SumOf(G, S)}
<1>1. ASSUME NEW S \in SUBSET T, \A x \in S : S \ {x} \in Good
      PROVE  S \in Good
  <2>1. CASE S = {}
    BY <2>1, SumEmpty
  <2>2. CASE S # {}
    <3>1. Picked(S) \in S /\ IsFiniteSet(S)
      BY <2>2, PickedFact, FS_Subset
    <3>2. /\ SumOf(F, S) = F[Picked(S)] + SumOf(F, S \ {Picked(S)})
          /\ SumOf(G, S) = G[Picked(S)] + SumOf(G, S \ {Picked(S)})
      BY <2>2, <3>1, SumPicked
    <3> QED
      BY <1>1, <3>1, <3>2
  <2> QED
    BY <2>1, <2>2
<1> HIDE DEF Good
<1>2. \A S \in SUBSET T : S \in Good
  BY <1>1, BySmallerSets
<1> QED
  BY <1>2 DEF Good

\* The sums of two functions that differ at one element differ by as much.
LEMMA SumChange ==
    ASSUME NEW T, IsFiniteSet(T), NEW F, NEW G, NEW x \in T,
           \A y \in T : F[y] \in Int /\ G[y] \in Int,
           \A y \in T \ {x} : F[y] = G[y]
    PROVE  SumOf(G, T) = SumOf(F, T) - F[x] + G[x]
<1>1. SumOf(F, T) = F[x] + SumOf(F, T \ {x})
  BY SumWithout
<1>2. SumOf(G, T) = G[x] + SumOf(G, T \ {x})
  BY SumWithout
<1>3. SumOf(F, T \ {x}) = SumOf(G, T \ {x})
  BY SumSame, FS_Subset
<1>4. SumOf(F, T \ {x}) \in Int /\ F[x] \in Int /\ G[x] \in Int
  BY SumTyped
<1> QED
  BY <1>1, <1>2, <1>3, <1>4

\* Sums add, and keep an order.
LEMMA SumPlus ==
    ASSUME NEW T, IsFiniteSet(T), NEW F, NEW G, NEW H,
           \A x \in T : F[x] \in Int /\ G[x] \in Int /\ H[x] = F[x] + G[x]
    PROVE  SumOf(H, T) = SumOf(F, T) + SumOf(G, T)
<1> DEFINE Good == {S \in SUBSET T : SumOf(H, S) = SumOf(F, S) + SumOf(G, S)}
<1>1. ASSUME NEW S \in SUBSET T, \A x \in S : S \ {x} \in Good
      PROVE  S \in Good
  <2>1. CASE S = {}
    BY <2>1, SumEmpty
  <2>2. CASE S # {}
    <3> DEFINE p == Picked(S)
               R == S \ {p}
    <3>1. p \in S /\ IsFiniteSet(S)
      BY <2>2, PickedFact, FS_Subset
    <3>2. SumOf(F, S) = F[p] + SumOf(F, R)
      BY <2>2, <3>1, SumPicked
    <3>3. SumOf(G, S) = G[p] + SumOf(G, R)
      BY <2>2, <3>1, SumPicked
    <3>4. SumOf(H, S) = H[p] + SumOf(H, R)
      BY <2>2, <3>1, SumPicked
    <3>5. SumOf(F, R) \in Int /\ SumOf(G, R) \in Int
      BY SumTyped
    <3>6. SumOf(H, R) = SumOf(F, R) + SumOf(G, R)
      BY <1>1, <3>1
    <3>7. F[p] \in Int /\ G[p] \in Int /\ H[p] = F[p] + G[p]
      BY <3>1
    <3> HIDE DEF p, R
    <3> QED
      BY <3>2, <3>3, <3>4, <3>5, <3>6, <3>7
  <2> QED
    BY <2>1, <2>2
<1> HIDE DEF Good
<1>2. \A S \in SUBSET T : S \in Good
  BY <1>1, BySmallerSets
<1> QED
  BY <1>2 DEF Good

LEMMA SumBound ==
    ASSUME NEW T, IsFiniteSet(T), NEW F, NEW G,
           \A x \in T : F[x] \in Int /\ G[x] \in Int /\ F[x] <= G[x]
    PROVE  SumOf(F, T) <= SumOf(G, T)
<1> DEFINE Good == {S \in SUBSET T : SumOf(F, S) <= SumOf(G, S)}
<1>1. ASSUME NEW S \in SUBSET T, \A x \in S : S \ {x} \in Good
      PROVE  S \in Good
  <2>1. CASE S = {}
    BY <2>1, SumEmpty
  <2>2. CASE S # {}
    <3> DEFINE p == Picked(S)
               R == S \ {p}
    <3>1. p \in S /\ IsFiniteSet(S)
      BY <2>2, PickedFact, FS_Subset
    <3>2. SumOf(F, S) = F[p] + SumOf(F, R)
      BY <2>2, <3>1, SumPicked
    <3>3. SumOf(G, S) = G[p] + SumOf(G, R)
      BY <2>2, <3>1, SumPicked
    <3>4. SumOf(F, R) \in Int /\ SumOf(G, R) \in Int
      BY SumTyped
    <3>5. SumOf(F, R) <= SumOf(G, R)
      BY <1>1, <3>1
    <3>6. F[p] \in Int /\ G[p] \in Int /\ F[p] <= G[p]
      BY <3>1
    <3> HIDE DEF p, R
    <3> QED
      BY <3>2, <3>3, <3>4, <3>5, <3>6
  <2> QED
    BY <2>1, <2>2
<1> HIDE DEF Good
<1>2. \A S \in SUBSET T : S \in Good
  BY <1>1, BySmallerSets
<1> QED
  BY <1>2 DEF Good

\* What is left out of a sum when it is zero.
LEMMA SumOfPart ==
    ASSUME NEW T, IsFiniteSet(T), NEW R \in SUBSET T, NEW F,
           \A x \in T : F[x] \in Int, \A x \in T \ R : F[x] = 0
    PROVE  SumOf(F, T) = SumOf(F, R)
<1> DEFINE Good == {S \in SUBSET T : R \subseteq S => SumOf(F, S) = SumOf(F, R)}
<1>1. ASSUME NEW S \in SUBSET T, \A x \in S : S \ {x} \in Good
      PROVE  S \in Good
  <2>1. SUFFICES ASSUME R \subseteq S, R # S PROVE SumOf(F, S) = SumOf(F, R)
    OBVIOUS
  <2>2. PICK x \in S : x \notin R
    BY <2>1
  <2>3. SumOf(F, S) = F[x] + SumOf(F, S \ {x})
    BY SumWithout
  <2>4. F[x] = 0 /\ SumOf(F, S \ {x}) = SumOf(F, R) /\ SumOf(F, R) \in Int
    BY <1>1, <2>1, <2>2, SumTyped
  <2> QED
    BY <2>3, <2>4
<1> HIDE DEF Good
<1>2. \A S \in SUBSET T : S \in Good
  BY <1>1, BySmallerSets
<1> QED
  BY <1>2 DEF Good

\* The values of a function over a finite set.
LEMMA FiniteImage ==
    ASSUME NEW S, IsFiniteSet(S), NEW f
    PROVE  IsFiniteSet({f[x] : x \in S})
<1> DEFINE T == {f[x] : x \in S}
           g == [x \in S |-> f[x]]
<1>1. g \in Surjection(S, T)
  BY DEF Surjection
<1> HIDE DEF g, T
<1>2. IsFiniteSet(T)
  BY <1>1, FS_Surjection
<1> QED
  BY <1>2 DEF T

\* A set of integers has a greatest element, the one a fold from the left takes first.
LEMMA MaxIsElement ==
    ASSUME NEW T \in SUBSET Int, IsFiniteSet(T)
    PROVE  \A S \in SUBSET T : S # {} => Max(S) \in S /\ \A y \in S : Max(S) >= y
<1> DEFINE Good == {S \in SUBSET T : S # {} => \E x \in S : \A y \in S : x >= y}
<1>1. ASSUME NEW S \in SUBSET T, \A x \in S : S \ {x} \in Good
      PROVE  S \in Good
  <2>1. SUFFICES ASSUME NEW x \in S PROVE \E z \in S : \A y \in S : z >= y
    OBVIOUS
  <2>2. CASE S \ {x} = {}
    BY <2>2
  <2>3. CASE S \ {x} # {}
    <3>1. PICK z \in S \ {x} : \A y \in S \ {x} : z >= y
      BY <1>1, <2>3
    <3>2. z \in Int /\ x \in Int /\ S \subseteq Int
      OBVIOUS
    <3>3. CASE z >= x
      BY <3>1, <3>3
    <3>4. CASE ~(z >= x)
      <4>1. \A y \in S : x >= y
        BY <3>1, <3>2, <3>4
      <4> QED
        BY <4>1
    <3> QED
      BY <3>3, <3>4
  <2> QED
    BY <2>2, <2>3
<1> HIDE DEF Good
<1>2. \A S \in SUBSET T : S \in Good
  BY <1>1, BySmallerSets
<1> QED
  BY <1>2 DEF Good, Max

\* A sum accumulated along a sequence is the sum over its domain.
Accumulated(seq) == FoldLeft(LAMBDA sum, x : sum + x, 0, seq)

LEMMA FoldIsSum ==
    ASSUME NEW seq, NEW n \in Nat, DOMAIN seq = 1..n, \A i \in 1..n : seq[i] \in Int
    PROVE  Accumulated(seq) = SumOf(seq, 1..n)
<1> DEFINE T == 1..n
           Step(h) == [s \in SUBSET T |->
                          IF s = {} THEN 0
                          ELSE LET x == Max(s) IN h[s \ {x}] + seq[x]]
<1>1. Accumulated(seq) = (CHOOSE h : h = Step(h))[T]
  BY DEF Accumulated, FoldLeft, MapThenFoldSet
<1>2. IsFiniteSet(T) /\ T \in SUBSET Int /\ \A i \in T : seq[i] \in Int
  BY FS_Interval
<1>3. \A s \in SUBSET T : s # {} => Max(s) \in s
  BY <1>2, MaxIsElement
<1>4. \A s \in SUBSET T : SumOf(seq, s) \in Int
  BY <1>2, SumTyped
<1> HIDE DEF T
<1>5. \A s \in SUBSET T : s # {} => SumOf(seq, s) = SumOf(seq, s \ {Max(s)}) + seq[Max(s)]
  <2> SUFFICES ASSUME NEW s \in SUBSET T, s # {}
               PROVE  SumOf(seq, s) = SumOf(seq, s \ {Max(s)}) + seq[Max(s)]
    OBVIOUS
  <2>1. Max(s) \in s /\ Max(s) \in T
    BY <1>3
  <2>2. IsFiniteSet(T) /\ \A x \in T : seq[x] \in Int
    BY <1>2
  <2>3. SumOf(seq, s) = seq[Max(s)] + SumOf(seq, s \ {Max(s)})
    BY <2>1, <2>2, SumWithout
  <2>4. SumOf(seq, s \ {Max(s)}) \in Int /\ seq[Max(s)] \in Int
    BY <1>2, <1>4, <2>1
  <2> QED
    BY <2>3, <2>4
<1> DEFINE G == [s \in SUBSET T |-> SumOf(seq, s)]
<1>6. G = Step(G)
  <2>1. ASSUME NEW s \in SUBSET T PROVE G[s] = Step(G)[s]
    <3>1. s \ {Max(s)} \in SUBSET T
      OBVIOUS
    <3>2. G[s \ {Max(s)}] = SumOf(seq, s \ {Max(s)})
      BY <3>1
    <3>3. Step(G)[s] = IF s = {} THEN 0 ELSE G[s \ {Max(s)}] + seq[Max(s)]
      BY Zenon
    <3> QED
      BY <1>5, <3>2, <3>3, SumEmpty
  <2>2. /\ DOMAIN G = SUBSET T /\ G = [s \in DOMAIN G |-> G[s]]
        /\ DOMAIN Step(G) = SUBSET T /\ Step(G) = [s \in DOMAIN Step(G) |-> Step(G)[s]]
    OBVIOUS
  <2> DEFINE g == G
             e == Step(G)
  <2> HIDE DEF g, e
  <2>3. g = e
    BY <2>1, <2>2 DEF g, e
  <2> QED
    BY <2>3 DEF g, e
<1> DEFINE k == CHOOSE h : h = Step(h)
<1>7. k = Step(k)
  BY <1>6
<1> HIDE DEF k
<1>8. \A s \in SUBSET T : k[s] = IF s = {} THEN 0 ELSE k[s \ {Max(s)}] + seq[Max(s)]
  <2> SUFFICES ASSUME NEW s \in SUBSET T
               PROVE  k[s] = IF s = {} THEN 0 ELSE k[s \ {Max(s)}] + seq[Max(s)]
    OBVIOUS
  <2>1. Step(k)[s] = IF s = {} THEN 0 ELSE k[s \ {Max(s)}] + seq[Max(s)]
    OBVIOUS
  <2> HIDE DEF Step
  <2> QED
    BY <1>7, <2>1
<1> HIDE DEF Step, G
<1> DEFINE Good == {s \in SUBSET T : k[s] = SumOf(seq, s)}
<1>9. ASSUME NEW s \in SUBSET T, \A x \in s : s \ {x} \in Good
      PROVE  s \in Good
  <2>1. CASE s = {}
    BY <1>8, <2>1, SumEmpty
  <2>2. CASE s # {}
    <3>1. k[s \ {Max(s)}] = SumOf(seq, s \ {Max(s)})
      BY <1>3, <1>9, <2>2
    <3>2. k[s] = k[s \ {Max(s)}] + seq[Max(s)]
      BY <1>8, <2>2
    <3>3. SumOf(seq, s) = SumOf(seq, s \ {Max(s)}) + seq[Max(s)]
      BY <1>5, <2>2
    <3> QED
      BY <3>1, <3>2, <3>3
  <2> QED
    BY <2>1, <2>2
<1> HIDE DEF Good
<1>10. \A s \in SUBSET T : s \in Good
  BY <1>2, <1>9, BySmallerSets
<1>11. k[T] = SumOf(seq, T)
  BY <1>10 DEF Good
<1> QED
  BY <1>1, <1>11 DEF k, T

\* So it grows by what is appended.
LEMMA FoldOfAppend ==
    ASSUME NEW seq \in Seq(Int), NEW v \in Int
    PROVE  /\ Accumulated(Append(seq, v)) = Accumulated(seq) + v
           /\ Accumulated(seq) \in Int
           /\ Accumulated(<<>>) = 0
<1> DEFINE more == Append(seq, v)
           n == Len(seq)
<1>1. /\ n \in Nat /\ DOMAIN seq = 1..n /\ \A i \in 1..n : seq[i] \in Int
      /\ DOMAIN more = 1..(n + 1) /\ \A i \in 1..(n + 1) : more[i] \in Int
      /\ \A i \in 1..n : more[i] = seq[i]
      /\ more[n + 1] = v
  OBVIOUS
<1> HIDE DEF more, n
<1>2. IsFiniteSet(1..n) /\ IsFiniteSet(1..(n + 1))
  BY <1>1, FS_Interval
<1>3. Accumulated(seq) = SumOf(seq, 1..n)
  BY <1>1, FoldIsSum
<1>4. Accumulated(more) = SumOf(more, 1..(n + 1))
  <2>1. n + 1 \in Nat
    BY <1>1
  <2> QED
    BY <1>1, <2>1, FoldIsSum
<1>5. SumOf(more, 1..(n + 1)) = v + SumOf(more, (1..(n + 1)) \ {n + 1})
  <2>1. n + 1 \in 1..(n + 1)
    BY <1>1
  <2> QED
    BY <1>1, <1>2, <2>1, SumWithout
<1>6. (1..(n + 1)) \ {n + 1} = 1..n
  BY <1>1
<1>7. SumOf(more, 1..n) = SumOf(seq, 1..n)
  BY <1>1, <1>2, SumSame
<1>8. SumOf(seq, 1..n) \in Int
  BY <1>1, <1>2, SumTyped
<1>9. Accumulated(<<>>) = 0
  <2> DEFINE none == <<>>
  <2>1. DOMAIN none = 1..0 /\ \A i \in 1..0 : none[i] \in Int
    OBVIOUS
  <2> HIDE DEF none
  <2>2. Accumulated(none) = SumOf(none, 1..0)
    BY <2>1, FoldIsSum
  <2>3. 1..0 = {}
    OBVIOUS
  <2> QED
    BY <2>2, <2>3, SumEmpty DEF none
<1>10. Accumulated(more) = Accumulated(seq) + v
  <2> DEFINE a == SumOf(seq, 1..n)
             b == SumOf(more, 1..(n + 1))
  <2>1. b = v + a /\ a \in Int
    BY <1>5, <1>6, <1>7, <1>8
  <2>2. Accumulated(seq) = a /\ Accumulated(more) = b
    BY <1>3, <1>4
  <2> HIDE DEF a, b
  <2> QED
    BY <2>1, <2>2
<1> QED
  BY <1>3, <1>8, <1>9, <1>10 DEF more
-----------------------------------------------------------------------------
\* Products.
LEMMA ProductBound ==
    ASSUME NEW m \in Nat, NEW n \in Nat, NEW M \in Nat, NEW N \in Nat, m <= M, n <= N
    PROVE  m * n \in Nat /\ m * n <= M * N
<1>1. m * n <= M * n
  OBVIOUS
<1>2. M * n <= M * N
  OBVIOUS
<1> QED
  BY <1>1, <1>2

LEMMA MoreThanFour ==
    ASSUME NEW q \in Nat, NEW k \in Nat, q <= 1000000, q * k >= 4500000
    PROVE  k > 4
<1>1. SUFFICES ASSUME k <= 4 PROVE FALSE
  BY SMT
<1>2. q * k <= q * 4 /\ q * k \in Int
  BY <1>1, SMT
<1> QED
  BY <1>2, SMT

\* Three percentages and a share of six sixths make 75 % of the whole only with more
\* than four of the sixths, and without a percentage that is zero.
Percentages == 0..100
Sixths == 0..6
ThreeQuarters(a, b, c, k) == a * b * c * k >= 75 * 6 * 100 * 100

LEMMA PercentagesProduct ==
    \A a, b, c \in Percentages : \A k \in Sixths :
        ThreeQuarters(a, b, c, k) => k > 4 /\ b # 0 /\ c # 0
<1> SUFFICES ASSUME NEW a \in Percentages, NEW b \in Percentages, NEW c \in Percentages,
                    NEW k \in Sixths, ThreeQuarters(a, b, c, k)
             PROVE  k > 4 /\ b # 0 /\ c # 0
  OBVIOUS
<1> USE DEF Percentages, Sixths
<1>1. a \in Nat /\ a <= 100 /\ b \in Nat /\ b <= 100 /\ c \in Nat /\ c <= 100
  BY SMT
<1> DEFINE p == a * b
           q == p * c
<1>2. p \in Nat /\ p <= 10000 /\ (b = 0 => p = 0)
  <2>1. a * b \in Nat /\ a * b <= 100 * 100
    BY <1>1, ProductBound, SMT
  <2> QED
    BY <1>1, <2>1, SMT
<1>3. q * k >= 4500000
  BY SMT DEF ThreeQuarters
<1> HIDE DEF p
<1>4. q \in Nat /\ q <= 1000000 /\ (p = 0 \/ c = 0 => q = 0)
  <2>1. p * c \in Nat /\ p * c <= 10000 * 100
    BY <1>1, <1>2, ProductBound, SMT
  <2> QED
    BY <1>1, <1>2, <2>1, SMT
<1> HIDE DEF q
<1>5. k > 4
  BY <1>3, <1>4, MoreThanFour, SMT
<1>6. q # 0
  BY <1>3, SMT
<1> QED
  BY <1>2, <1>4, <1>5, <1>6, SMT
-----------------------------------------------------------------------------
\* A strict total order R on T, as a set of pairs; what precedes x in it, how many,
\* and whether some element has k before it.
StrictOrder(R, T) ==
    /\ \A x \in T : <<x, x>> \notin R
    /\ \A x, y \in T : x # y => <<x, y>> \in R \/ <<y, x>> \in R
    /\ \A x, y, z \in T : <<x, y>> \in R /\ <<y, z>> \in R => <<x, z>> \in R
Below(R, T, x) == {y \in T : <<y, x>> \in R}
RankOf(R, T, x) == Cardinality(Below(R, T, x))
Ranks(T) == 0 .. Cardinality(T) - 1
RankTaken(R, T, k) == \E x \in T : RankOf(R, T, x) = k

\* The rank of an element is below the size of the set, and ranks are ordered as the
\* elements are.
LEMMA RankFact ==
    ASSUME NEW T, IsFiniteSet(T), NEW R, StrictOrder(R, T), NEW x \in T
    PROVE  IsFiniteSet(Below(R, T, x)) /\ RankOf(R, T, x) \in Ranks(T)
<1>1. Below(R, T, x) \subseteq T \ {x}
  BY DEF Below, StrictOrder
<1>2. IsFiniteSet(T \ {x}) /\ Cardinality(T \ {x}) = Cardinality(T) - 1
  BY FS_RemoveElement
<1>3. /\ IsFiniteSet(Below(R, T, x)) /\ Cardinality(Below(R, T, x)) <= Cardinality(T \ {x})
  BY <1>1, <1>2, FS_Subset
<1> QED
  BY <1>2, <1>3, FS_CardinalityType DEF Ranks, RankOf

LEMMA RanksGrow ==
    ASSUME NEW T, IsFiniteSet(T), NEW R, StrictOrder(R, T), NEW x \in T, NEW y \in T, <<x, y>> \in R
    PROVE  RankOf(R, T, x) < RankOf(R, T, y)
<1> DEFINE A == Below(R, T, x)
           B == Below(R, T, y)
<1>1. A \subseteq B /\ x \in B /\ x \notin A
  BY DEF Below, StrictOrder
<1>2. IsFiniteSet(A) /\ IsFiniteSet(B)
  BY RankFact
<1> HIDE DEF A, B
<1>3. Cardinality(A) <= Cardinality(B) /\ (Cardinality(A) = Cardinality(B) => A = B)
  BY <1>1, <1>2, FS_Subset
<1>4. Cardinality(A) \in Nat /\ Cardinality(B) \in Nat
  BY <1>2, FS_CardinalityType
<1>5. Cardinality(A) < Cardinality(B)
  BY <1>1, <1>3, <1>4
<1> QED
  BY <1>5 DEF A, B, RankOf

LEMMA RanksDiffer ==
    ASSUME NEW T, IsFiniteSet(T), NEW R, StrictOrder(R, T), NEW x \in T, NEW y \in T,
           RankOf(R, T, x) = RankOf(R, T, y)
    PROVE  x = y
<1>1. SUFFICES ASSUME x # y PROVE FALSE
  OBVIOUS
<1>2. <<x, y>> \in R \/ <<y, x>> \in R
  BY <1>1 DEF StrictOrder
<1>3. RankOf(R, T, x) \in Int /\ RankOf(R, T, y) \in Int
  BY RankFact DEF Ranks
<1>4. \/ RankOf(R, T, x) < RankOf(R, T, y)
      \/ RankOf(R, T, y) < RankOf(R, T, x)
  BY <1>2, RanksGrow
<1> QED
  BY <1>3, <1>4

\* Every rank is taken.
LEMMA RanksAreTaken ==
    \A T, R : IsFiniteSet(T) /\ StrictOrder(R, T) => \A k \in Ranks(T) : RankTaken(R, T, k)
<1> SUFFICES ASSUME NEW T, IsFiniteSet(T), NEW R, StrictOrder(R, T), NEW k \in Ranks(T)
             PROVE  RankTaken(R, T, k)
  OBVIOUS
<1> DEFINE n == Cardinality(T)
           U == Ranks(T)
           f == [x \in T |-> RankOf(R, T, x)]
<1>1. n \in Nat /\ IsFiniteSet(U) /\ Cardinality(U) = n
  <2>1. n \in Nat
    BY FS_CardinalityType
  <2> HIDE DEF n
  <2>2. n - 1 \in Int /\ 0 \in Int
    BY <2>1
  <2>3. /\ IsFiniteSet(0 .. n - 1)
        /\ Cardinality(0 .. n - 1) = IF 0 > n - 1 THEN 0 ELSE (n - 1) - 0 + 1
    BY <2>2, FS_Interval
  <2> QED
    BY <2>1, <2>3 DEF Ranks, n
<1>2. f \in [T -> U]
  BY RankFact
<1>3. \A x, y \in T : f[x] = f[y] => x = y
  BY RanksDiffer
<1> HIDE DEF U, f
<1>4. f \in Injection(T, U)
  BY <1>2, <1>3 DEF Injection, IsInjective
<1>5. f \in Surjection(T, U)
  BY <1>1, <1>4, FS_Injection DEF n
<1>6. PICK x \in T : f[x] = k
  BY <1>5 DEF Surjection, U
<1> QED
  BY <1>6 DEF f, RankTaken
=============================================================================
