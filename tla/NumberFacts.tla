----------------------------- MODULE NumberFacts -----------------------------
(***************************************************************************)
(* Facts about numbers that the proofs cite: the arithmetic of positions   *)
(* in a ring of c slots, where position a of the stream lives in slot      *)
(* a % c, and the least and the greatest element of a set of naturals,     *)
(* from which a proof gets induction without a predicate as a parameter.   *)
(***************************************************************************)
EXTENDS Integers, FiniteSetTheorems, TLAPS

\* A finite nonempty set of naturals has a least element: of the nonempty
\* subsets without one, a smallest would lose one by giving up an element.
LEMMA LeastOfFinite ==
    ASSUME NEW S \in SUBSET Nat, IsFiniteSet(S), S # {}
    PROVE  \E m \in S : \A y \in S : m <= y
  <1> DEFINE Bad == {A \in SUBSET S : A # {} /\ ~ \E m \in A : \A y \in A : m <= y}
  <1> SUFFICES ASSUME Bad # {} PROVE FALSE
    OBVIOUS
  <1>1. IsWellFoundedOn(StrictSubsetOrdering(S), SUBSET S)
    BY FS_StrictSubsetOrderingWellFounded, FS_FiniteSubsetsOfFinite
  <1>2. PICK A \in Bad : \A B \in Bad : ~(<<B, A>> \in StrictSubsetOrdering(S))
    <2>1. Bad \subseteq SUBSET S
      OBVIOUS
    <2> HIDE DEF Bad
    <2> QED BY <1>1, <2>1, WFMin
  <1>3. PICK a \in A : TRUE
    OBVIOUS
  <1>4. A \ {a} \in SUBSET S /\ A \ {a} \subseteq A /\ A \ {a} # A /\ A \in SUBSET S
    BY <1>3
  <1>5. A \ {a} \notin Bad
    BY <1>2, <1>4 DEF StrictSubsetOrdering
  <1>6. CASE A \ {a} = {}
    BY <1>3, <1>6
  <1>7. CASE \E m \in A \ {a} : \A y \in A \ {a} : m <= y
    <2>1. PICK m \in A \ {a} : \A y \in A \ {a} : m <= y
      BY <1>7
    <2>2. m \in Nat /\ a \in Nat /\ \A y \in A : y \in Nat
      BY <1>3, <1>4
    <2>3. CASE a <= m
      BY <1>3, <2>1, <2>2, <2>3
    <2>4. CASE m <= a
      BY <1>3, <2>1, <2>2, <2>4
    <2> QED BY <2>2, <2>3, <2>4
  <1> QED BY <1>4, <1>5, <1>6, <1>7

\* So has every nonempty set of naturals.
LEMMA LeastNatural ==
    ASSUME NEW S \in SUBSET Nat, S # {}
    PROVE  \E m \in S : \A y \in S : m <= y
  <1>1. PICK n \in S : TRUE
    OBVIOUS
  <1> DEFINE Low == {y \in S : y <= n}
  <1>2. Low \subseteq 0..n /\ Low \in SUBSET Nat /\ n \in Low
    <2>1. n \in Nat /\ \A y \in S : y \in Nat
      BY <1>1
    <2>2. Low \subseteq 0..n
      <3>1. \A y \in Low : y \in Nat /\ y <= n
        BY <2>1
      <3> HIDE DEF Low
      <3> QED BY <2>1, <3>1
    <2>3. Low \in SUBSET Nat
      BY <2>1
    <2>4. n \in Low
      BY <1>1, <2>1
    <2> QED BY <2>2, <2>3, <2>4
  <1>3. IsFiniteSet(Low)
    <2>1. n \in Nat
      BY <1>1
    <2>2. IsFiniteSet(0..n)
      BY <2>1, FS_Interval
    <2> HIDE DEF Low
    <2> QED BY <1>2, <2>2, FS_Subset
  <1>4. PICK m \in Low : \A y \in Low : m <= y
    BY <1>2, <1>3, LeastOfFinite
  <1>5. m \in S /\ \A y \in S : m <= y
    BY <1>1, <1>2, <1>4
  <1> QED BY <1>5

\* A set of naturals with a bound has a greatest element.
LEMMA GreatestNatural ==
    ASSUME NEW b \in Nat, NEW S \in SUBSET (0..b), S # {}
    PROVE  \E m \in S : \A y \in S : m >= y
PROOF
  <1> DEFINE T == {b - y : y \in S}
  <1>1. T \in SUBSET Nat /\ T # {}
    <2>1. \A y \in S : y \in 0..b
      OBVIOUS
    <2>2. \A y \in 0..b : b - y \in Nat
      OBVIOUS
    <2> QED BY <2>1, <2>2
  <1>2. PICK t \in T : \A x \in T : t <= x
    <2> HIDE DEF T
    <2> QED BY <1>1, LeastNatural
  <1>3. PICK m \in S : t = b - m
    BY <1>2
  <1>4. \A y \in S : m >= y
    <2> SUFFICES ASSUME NEW y \in S PROVE m >= y
      OBVIOUS
    <2>1. b - y \in T
      OBVIOUS
    <2>2. b - m <= b - y
      BY <2>1, <1>2, <1>3
    <2>3. m \in 0..b /\ y \in 0..b
      OBVIOUS
    <2> QED BY <2>2, <2>3
  <1> QED BY <1>4

\* Induction up to a bound, with a set in the place of a predicate.
LEMMA UpTo ==
    ASSUME NEW N \in Nat, NEW G, 0 \in G, \A n \in 1..N : n - 1 \in G => n \in G
    PROVE  \A n \in 0..N : n \in G
PROOF
  <1> DEFINE T == {n \in 0..N : n \notin G}
  <1> SUFFICES ASSUME T # {} PROVE FALSE
    OBVIOUS
  <1>1. T \in SUBSET Nat
    OBVIOUS
  <1>2. PICK m \in T : \A y \in T : m <= y
    <2> HIDE DEF T
    <2> QED BY <1>1, LeastNatural
  <1>3. m \in 1..N /\ m - 1 \in 0..N /\ m - 1 < m
    BY <1>2
  <1>4. m - 1 \in G
    BY <1>2, <1>3
  <1> QED BY <1>2, <1>3, <1>4

\* f is defined by recursion up to N ...
IsRecursion(f, S, base, N, step) ==
    /\ f \in [0..N -> S]
    /\ f[0] = base /\ \A n \in 1..N : f[n] = step[n][f[n - 1]]

\* ... and such a function exists.
LEMMA RecursionTo ==
    ASSUME NEW S, NEW base \in S, NEW N \in Nat, NEW step \in [1..N -> [S -> S]]
    PROVE  \E f : IsRecursion(f, S, base, N, step)
PROOF
  <1> USE DEF IsRecursion
  <1> DEFINE Good(n, f) == f[0] = base /\ \A k \in 1..n : f[k] = step[k][f[k - 1]]
             G == {n \in 0..N : \E f \in [0..n -> S] : Good(n, f)}
  <1>1. 0 \in G
    <2> DEFINE f == [x \in 0..0 |-> base]
    <2>1. f \in [0..0 -> S] /\ Good(0, f)
      OBVIOUS
    <2>2. 0 \in 0..N
      OBVIOUS
    <2> HIDE DEF f, Good
    <2> QED BY <2>1, <2>2
  <1>2. ASSUME NEW n \in 1..N, n - 1 \in G PROVE n \in G
    <2>1. PICK f \in [0..(n - 1) -> S] : Good(n - 1, f)
      BY <1>2
    <2> DEFINE g == [x \in 0..n |-> IF x = n THEN step[n][f[n - 1]] ELSE f[x]]
    <2>2. \A x \in 0..n : x # n => x \in 0..(n - 1)
      OBVIOUS
    <2>3. g \in [0..n -> S]
      BY <2>2
    <2>4. g[0] = base
      BY <2>1
    <2>5. ASSUME NEW k \in 1..n PROVE g[k] = step[k][g[k - 1]]
      <3>1. k - 1 \in 0..n /\ k - 1 # n /\ k \in 0..n /\ g[k - 1] = f[k - 1]
        OBVIOUS
      <3>2. CASE k = n
        BY <3>1, <3>2
      <3>3. CASE k # n
        <4>1. k \in 1..(n - 1) /\ g[k] = f[k]
          BY <3>3
        <4> QED BY <4>1, <3>1, <2>1
      <3> QED BY <3>2, <3>3
    <2>6. Good(n, g)
      BY <2>4, <2>5
    <2> HIDE DEF g, Good
    <2> QED BY <2>3, <2>6
  <1> HIDE DEF G, Good
  <1>3. \A n \in 0..N : n \in G
    <2>1. \A n \in 1..N : n - 1 \in G => n \in G
      BY <1>2
    <2> QED BY <2>1, <1>1, UpTo
  <1> QED BY <1>3, N \in 0..N DEF G, Good

\* Division by the capacity leaves a slot number.
LEMMA DivMod ==
    ASSUME NEW c \in Nat \ {0}, NEW a \in Nat
    PROVE  /\ a % c \in 0..(c - 1)
           /\ a \div c \in Nat
           /\ a = c * (a \div c) + (a % c)
  BY SMT

\* Different multiples of c are at least c apart.
LEMMA MultipleGap ==
    ASSUME NEW c \in Nat \ {0}, NEW p \in Int, NEW q \in Int, p < q
    PROVE  c * p + c <= c * q
  BY SMT

\* The slot of a position is determined by the position.
LEMMA UniqueSlot ==
    ASSUME NEW c \in Nat \ {0}, NEW p \in Int, NEW q \in Int,
           NEW x \in 0..(c - 1), NEW y \in 0..(c - 1), c * p + x = c * q + y
    PROVE  x = y
  <1>1. CASE p < q
    <2>1. c * p + c <= c * q
      BY <1>1, MultipleGap
    <2> QED BY <2>1 
  <1>2. CASE q < p
    <2>1. c * q + c <= c * p
      BY <1>2, MultipleGap
    <2> QED BY <2>1 
  <1>3. CASE p = q
    BY <1>3
  <1> QED BY <1>1, <1>2, <1>3

\* The slot k positions further on: at most one turn of the ring away.
LEMMA SlotAfter ==
    ASSUME NEW c \in Nat \ {0}, NEW a \in Nat, NEW k \in 0..c
    PROVE  (a + k) % c = IF (a % c) + k < c THEN (a % c) + k ELSE (a % c) + k - c
  <1> DEFINE p == a \div c
             q == (a + k) \div c
  <1>1. /\ a % c \in 0..(c - 1) /\ p \in Nat /\ a = c * p + (a % c)
    BY DivMod
  <1>2. /\ (a + k) % c \in 0..(c - 1) /\ q \in Nat /\ a + k = c * q + ((a + k) % c)
    <2>1. a + k \in Nat
      OBVIOUS
    <2> QED BY <2>1, DivMod
  <1> DEFINE r == a % c
             t == (a + k) % c
  <1> HIDE DEF p, q, r, t
  <1>0. /\ r \in 0..(c - 1) /\ p \in Nat /\ a = c * p + r
        /\ t \in 0..(c - 1) /\ q \in Nat /\ a + k = c * q + t
    BY <1>1, <1>2 DEF p, q, r, t
  <1>3. CASE r + k < c
    <2>1. r + k \in 0..(c - 1) /\ c * q + t = c * p + (r + k)
      BY <1>0, <1>3
    <2>2. t = r + k
      BY <2>1, <1>0, UniqueSlot
    <2> QED BY <2>2, <1>3 DEF r, t
  <1>4. CASE ~(r + k < c)
    <2>1. r + k - c \in 0..(c - 1) /\ c * q + t = c * (p + 1) + (r + k - c)
      BY <1>0, <1>4
    <2>2. p + 1 \in Int /\ q \in Int
      BY <1>0
    <2>3. t = r + k - c
      BY <2>1, <2>2, <1>0, UniqueSlot
    <2> QED BY <2>3, <1>4 DEF r, t
  <1> QED BY <1>3, <1>4
=============================================================================
