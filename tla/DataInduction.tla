--------------------------- MODULE DataInduction ---------------------------
(***************************************************************************)
(* Induction and recursion over the natural numbers in a form that the     *)
(* provers can use: what is to be proved of every number is a set of       *)
(* numbers, and what a recursive function does in a step is a function.    *)
(*                                                                         *)
(* Everything rests on one fact of the library, that the finite subsets of *)
(* a set are well-founded under strict inclusion: applied to intervals it  *)
(* says that a nonempty set of numbers has a least element.                *)
(***************************************************************************)
EXTENDS Naturals, FiniteSetTheorems, WellFoundedInduction, TLAPS

\* A nonempty set of natural numbers has a least element.
LEMMA LeastNumber ==
    ASSUME NEW T, T \subseteq Nat, T # {}
    PROVE  \E x \in T : \A y \in T : x <= y
<1> DEFINE F == {1 .. n : n \in T}
           R == StrictSubsetOrdering(Nat)
           S == FiniteSubsetsOf(Nat)
<1>1. IsWellFoundedOn(R, S)
  BY FS_StrictSubsetOrderingWellFounded
<1>2. F \subseteq S /\ F # {}
  <2>1. \A n \in T : IsFiniteSet(1 .. n) /\ 1 .. n \subseteq Nat
    BY FS_Interval
  <2> QED
    BY <2>1 DEF FiniteSubsetsOf
<1>3. PICK A \in F : \A B \in F : ~ (<<B, A>> \in R)
  <2> HIDE DEF R, S, F
  <2> QED
    BY <1>1, <1>2, WFMin
<1>4. PICK x \in T : A = 1 .. x
  OBVIOUS
<1>5. ASSUME NEW y \in T PROVE x <= y
  <2>1. SUFFICES ASSUME y < x PROVE FALSE
    OBVIOUS
  <2>2. 1 .. y \subseteq 1 .. x /\ 1 .. y # 1 .. x
    <3>1. x \in 1 .. x /\ x \notin 1 .. y
      BY <2>1
    <3> QED
      BY <2>1, <3>1
  <2>3. <<1 .. y, 1 .. x>> \in R
    BY <2>2 DEF StrictSubsetOrdering
  <2> QED
    BY <1>3, <1>4, <2>3
<1> QED
  BY <1>4, <1>5

\* A nonempty set of natural numbers with a bound has a greatest element.
LEMMA GreatestNumber ==
    ASSUME NEW n \in Nat, NEW T, T \subseteq 0 .. n, T # {}
    PROVE  \E x \in T : \A y \in T : y <= x
<1> DEFINE U == {n - y : y \in T}
<1>1. U \subseteq Nat /\ U # {}
  <2>1. \A y \in T : n - y \in Nat
    OBVIOUS
  <2> QED
    BY <2>1
<1>2. PICK u \in U : \A w \in U : u <= w
  BY <1>1, LeastNumber
<1>3. PICK x \in T : u = n - x
  BY <1>2
<1>4. ASSUME NEW y \in T PROVE y <= x
  <2>1. n - y \in U
    OBVIOUS
  <2>2. n - x <= n - y
    BY <1>2, <1>3, <2>1
  <2> QED
    BY <2>2
<1> QED
  BY <1>3, <1>4

\* A set of numbers from 1 on without a gap is the interval of its cardinality.
LEMMA InitialSegment ==
    ASSUME NEW n \in Nat, NEW T, T \subseteq 1 .. n, \A i \in T : 1 .. i \subseteq T
    PROVE  Cardinality(T) \in 0 .. n /\ T = 1 .. Cardinality(T)
<1>1. CASE T = {}
  BY <1>1, FS_EmptySet
<1>2. CASE T # {}
  <2>1. T \subseteq 0 .. n
    OBVIOUS
  <2>2. PICK x \in T : \A y \in T : y <= x
    BY <1>2, <2>1, GreatestNumber
  <2>3. x \in 1 .. n /\ T = 1 .. x
    <3>1. \A y \in T : y \in 1 .. x
      BY <2>2
    <3> QED
      BY <3>1
  <2>4. Cardinality(1 .. x) = x
    BY <2>3, FS_Interval
  <2> QED
    BY <2>3, <2>4
<1> QED
  BY <1>1, <1>2

\* A set with 0, and with the successor of each number it has, has them all.
LEMMA SetInduction ==
    ASSUME NEW T, 0 \in T, \A i \in Nat : i \in T => i + 1 \in T
    PROVE  Nat \subseteq T
<1> SUFFICES ASSUME Nat \ T # {} PROVE FALSE
  OBVIOUS
<1>1. PICK x \in Nat \ T : \A y \in Nat \ T : x <= y
  BY LeastNumber
<1>2. x # 0 /\ x - 1 \in Nat
  BY <1>1
<1>3. x - 1 \in T
  BY <1>1, <1>2
<1> QED
  BY <1>1, <1>2, <1>3

\* f begins with zero, and each of its values up to the n-th follows by step
\* from the one before.
Recursion(f, n, S, zero, step) ==
    /\ f \in [0 .. n -> S] /\ f[0] = zero
    /\ \A i \in 1 .. n : f[i] = step[<<i, f[i - 1]>>]

\* There is such a function.
LEMMA PrimitiveRecursion ==
    ASSUME NEW n \in Nat, NEW S, NEW zero \in S, NEW step \in [(1 .. n) \X S -> S]
    PROVE  \E f : Recursion(f, n, S, zero, step)
<1> DEFINE T == {m \in Nat : m <= n => \E f : Recursion(f, m, S, zero, step)}
<1>1. 0 \in T
  <2>1. Recursion([i \in 0 .. 0 |-> zero], 0, S, zero, step)
    BY DEF Recursion
  <2> QED
    BY <2>1
<1>2. ASSUME NEW m \in Nat, m \in T PROVE m + 1 \in T
  <2> SUFFICES ASSUME m + 1 <= n PROVE \E f : Recursion(f, m + 1, S, zero, step)
    OBVIOUS
  <2>1. PICK f : Recursion(f, m, S, zero, step)
    BY <1>2
  <2> DEFINE g == [i \in 0 .. m + 1 |-> IF i = m + 1 THEN step[<<i, f[m]>>] ELSE f[i]]
  <2>2. f[m] \in S /\ m + 1 \in 1 .. n
    BY <2>1 DEF Recursion
  <2>3. g \in [0 .. m + 1 -> S]
    BY <2>1, <2>2 DEF Recursion
  <2>4. g[0] = zero
    BY <2>1 DEF Recursion
  <2>5. ASSUME NEW i \in 1 .. m + 1 PROVE g[i] = step[<<i, g[i - 1]>>]
    <3>1. CASE i = m + 1
      BY <3>1
    <3>2. CASE i # m + 1
      BY <2>1, <3>2 DEF Recursion
    <3> QED
      BY <3>1, <3>2
  <2> QED
    BY <2>3, <2>4, <2>5 DEF Recursion
<1>3. n \in T
  <2> HIDE DEF T
  <2> QED
    BY <1>1, <1>2, SetInduction
<1> QED
  BY <1>3

-----------------------------------------------------------------------------
(* Closures in finite sets.                                                *)

\* F adds to a set, and more to a greater one.
Grows(F, N) ==
    /\ F \in [SUBSET N -> SUBSET N]
    /\ \A D \in SUBSET N : D \subseteq F[D]
    /\ \A D, E \in SUBSET N : D \subseteq E => F[D] \subseteq F[E]

\* C is the least set with D to which F has nothing to add.
LeastClosed(F, N, D, C) ==
    /\ C \in SUBSET N /\ D \subseteq C /\ F[C] = C
    /\ \A B \in SUBSET N : D \subseteq B /\ F[B] = B => C \subseteq B

\* f applies F over and over.
Iterates(f, F, N) == f = [D \in SUBSET N |-> IF F[D] = D THEN D ELSE f[F[D]]]

\* There is a function that applies F over and over.
LEMMA IterationExists ==
    ASSUME NEW N, NEW F, Grows(F, N)
    PROVE  \E f : Iterates(f, F, N)
<1> DEFINE Closed == {C \in SUBSET N : F[C] = C}
           Cl(D) == {x \in N : \A C \in Closed : D \subseteq C => x \in C}
           f == [D \in SUBSET N |-> Cl(D)]
<1>1. ASSUME NEW D \in SUBSET N PROVE f[D] = IF F[D] = D THEN D ELSE f[F[D]]
  <2>1. F[D] \in SUBSET N /\ D \subseteq F[D]
    BY DEF Grows
  <2>2. CASE F[D] = D
    BY <2>2
  <2>3. CASE F[D] # D
    <3>1. \A C \in Closed : D \subseteq C <=> F[D] \subseteq C
      BY <2>1 DEF Grows
    <3>2. Cl(D) = Cl(F[D])
      <4> HIDE DEF Closed
      <4> QED
        BY <3>1
    <3> QED
      BY <2>1, <2>3, <3>2
  <2> QED
    BY <2>2, <2>3
<1>2. f = [D \in SUBSET N |-> IF F[D] = D THEN D ELSE f[F[D]]]
  <2>1. f = [D \in SUBSET N |-> f[D]]
    OBVIOUS
  <2> HIDE DEF f
  <2> QED
    BY <1>1, <2>1
<1> QED
  BY <1>2, Zenon DEF Iterates

\* In a finite set that ends, with the least closed set.
LEMMA IterationCloses ==
    ASSUME NEW N, IsFiniteSet(N), NEW F, Grows(F, N), NEW f, Iterates(f, F, N),
           NEW D \in SUBSET N
    PROVE  LeastClosed(F, N, D, f[D])
<1> DEFINE Bad == {E \in SUBSET N : ~LeastClosed(F, N, E, f[E])}
           Rest == {N \ E : E \in Bad}
           R == StrictSubsetOrdering(N)
           S == FiniteSubsetsOf(N)
<1>1. SUFFICES ASSUME Bad # {} PROVE FALSE
  OBVIOUS
<1>2. IsWellFoundedOn(R, S)
  BY FS_StrictSubsetOrderingWellFounded
<1>3. Rest \subseteq S /\ Rest # {}
  <2>1. \A E \in Bad : IsFiniteSet(N \ E) /\ N \ E \subseteq N
    BY FS_Subset
  <2> QED
    BY <1>1, <2>1 DEF FiniteSubsetsOf
<1>4. PICK A \in Rest : \A B \in Rest : ~ (<<B, A>> \in R)
  <2> HIDE DEF R, S, Rest
  <2> QED
    BY <1>2, <1>3, WFMin
<1>5. PICK E \in Bad : A = N \ E
  OBVIOUS
<1>6. /\ E \in SUBSET N /\ F[E] \in SUBSET N /\ E \subseteq F[E]
      /\ f[E] = IF F[E] = E THEN E ELSE f[F[E]]
  BY DEF Grows, Iterates
<1>7. CASE F[E] = E
  BY <1>6, <1>7 DEF LeastClosed
<1>8. CASE F[E] # E
  <2>1. <<N \ F[E], N \ E>> \in R
    BY <1>6, <1>8 DEF StrictSubsetOrdering
  <2>2. F[E] \notin Bad
    BY <1>4, <1>5, <2>1
  <2>3. LeastClosed(F, N, F[E], f[F[E]])
    BY <1>6, <2>2
  <2>4. \A B \in SUBSET N : E \subseteq B /\ F[B] = B => F[E] \subseteq B
    BY <1>6 DEF Grows
  <2>5. LeastClosed(F, N, E, f[E])
    BY <1>6, <1>8, <2>3, <2>4 DEF LeastClosed
  <2> QED
    BY <2>5
<1> QED
  BY <1>7, <1>8

=============================================================================
