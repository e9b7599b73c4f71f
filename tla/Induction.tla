----------------------------- MODULE Induction -----------------------------
(***************************************************************************)
(* Least elements, induction and recursion over the naturals, stated of    *)
(* sets and functions rather than of operators, which the provers can take *)
(* as they are; and division.                                              *)
(***************************************************************************)
EXTENDS Integers, TLAPS, FiniteSetTheorems, WellFoundedInduction

\* A set of naturals that is not empty has a least element. Strict inclusion of
\* the intervals below its members is well founded, which needs no operator.
LEMMA LeastExists ==
    ASSUME NEW T \in SUBSET Nat, T # {}
    PROVE  \E s \in T : \A t \in T : s <= t
<1> DEFINE Below == {1 .. s : s \in T}
           R == StrictSubsetOrdering(Nat)
<1>1. Below \subseteq FiniteSubsetsOf(Nat)
  <2> SUFFICES ASSUME NEW s \in T PROVE 1 .. s \in FiniteSubsetsOf(Nat)
    OBVIOUS
  <2>1. s \in Nat
    OBVIOUS
  <2>2. IsFiniteSet(1 .. s)
    BY <2>1, FS_Interval
  <2> QED
    BY <2>1, <2>2 DEF FiniteSubsetsOf
<1>2. Below # {}
  OBVIOUS
<1>3. IsWellFoundedOn(R, FiniteSubsetsOf(Nat))
  BY FS_StrictSubsetOrderingWellFounded
<1>4. PICK B \in Below : \A C \in Below : ~ (<<C, B>> \in R)
  <2> HIDE DEF Below, R
  <2> QED
    BY <1>1, <1>2, <1>3, WFMin
<1>5. PICK s \in T : B = 1 .. s
  OBVIOUS
<1>6. ASSUME NEW t \in T, ~ (s <= t) PROVE FALSE
  <2>1. s \in Nat /\ t \in Nat /\ t < s
    BY <1>6
  <2>2. 1 .. t \subseteq 1 .. s
    BY <2>1
  <2>3. s \in 1 .. s /\ s \notin 1 .. t
    BY <2>1
  <2>4. <<1 .. t, 1 .. s>> \in R
    BY <2>1, <2>2, <2>3 DEF StrictSubsetOrdering
  <2> QED
    BY <1>4, <1>5, <2>4
<1> QED
  BY <1>6

\* A set that holds 0, and with a natural the next one, holds them all.
LEMMA Induction ==
    ASSUME NEW S, 0 \in S, \A n \in Nat : n \in S => n + 1 \in S
    PROVE  \A n \in Nat : n \in S
<1> DEFINE T == Nat \ S
<1> SUFFICES ASSUME T # {} PROVE FALSE
  OBVIOUS
<1>1. PICK n \in T : \A m \in T : n <= m
  <2>1. T \in SUBSET Nat
    OBVIOUS
  <2> HIDE DEF T
  <2> QED
    BY <2>1, LeastExists
<1>2. n \in Nat /\ n # 0
  OBVIOUS
<1>3. n - 1 \in Nat /\ ~ (n <= n - 1) /\ n = (n - 1) + 1
  BY <1>2
<1>4. n - 1 \in S
  BY <1>1, <1>3
<1>5. (n - 1) + 1 \in S
  BY <1>3, <1>4
<1> QED
  BY <1>3, <1>5

-----------------------------------------------------------------------------
\* f counts its values up from first by step, as far as n.
CountsTo(f, D, first, step, n) ==
    /\ f \in [0 .. n -> D]
    /\ f[0] = first
    /\ \A m \in 1 .. n : f[m] = step[m][f[m - 1]]

\* Values given by the first and, for each natural, by the one before make a
\* function on the naturals.
LEMMA Recursion ==
    ASSUME NEW D, NEW first \in D, NEW step \in [Nat -> [D -> D]]
    PROVE  \E f \in [Nat -> D] :
              f = [n \in Nat |-> IF n = 0 THEN first ELSE step[n][f[n - 1]]]
<1> DEFINE Counts(f, n) == CountsTo(f, D, first, step, n)
           S == {n \in Nat : \E f : Counts(f, n)}
<1>1. \A n \in Nat : \E f : Counts(f, n)
  <2>1. 0 \in S
    <3> DEFINE f == [m \in 0 .. 0 |-> first]
    <3>1. Counts(f, 0)
      BY DEF CountsTo
    <3> QED
      BY <3>1
  <2>2. ASSUME NEW n \in Nat, n \in S PROVE n + 1 \in S
    <3>1. PICK f : Counts(f, n)
      BY <2>2
    <3> DEFINE g == [m \in 0 .. n + 1 |-> IF m <= n THEN f[m] ELSE step[n + 1][f[n]]]
    <3>2. f[n] \in D /\ \A m \in 0 .. n : f[m] \in D
      BY <3>1 DEF CountsTo
    <3>3. step[n + 1][f[n]] \in D
      BY <3>2
    <3>4. g \in [0 .. n + 1 -> D]
      BY <3>2, <3>3
    <3>5. g[0] = first
      BY <3>1 DEF CountsTo
    <3>6. ASSUME NEW m \in 1 .. n + 1 PROVE g[m] = step[m][g[m - 1]]
      <4>1. CASE m <= n
        <5>1. g[m] = f[m] /\ g[m - 1] = f[m - 1]
          BY <4>1
        <5>2. f[m] = step[m][f[m - 1]]
          BY <3>1, <4>1 DEF CountsTo
        <5> QED
          BY <5>1, <5>2
      <4>2. CASE m = n + 1
        <5>1. g[m] = step[n + 1][f[n]] /\ g[m - 1] = f[n]
          BY <4>2
        <5> QED
          BY <4>2, <5>1
      <4> QED
        BY <4>1, <4>2
    <3>7. Counts(g, n + 1)
      BY <3>4, <3>5, <3>6 DEF CountsTo
    <3> QED
      BY <3>7
  <2>3. \A n \in Nat : n \in S
    <3> HIDE DEF S
    <3> QED
      BY <2>1, <2>2, Induction
  <2> QED
    BY <2>3
<1>2. ASSUME NEW n \in Nat, NEW m \in Nat, m <= n, NEW f, NEW g, Counts(f, n), Counts(g, m)
      PROVE  \A i \in Nat : i <= m => f[i] = g[i]
  <2> DEFINE Agrees == {i \in Nat : i <= m => f[i] = g[i]}
  <2>1. 0 \in Agrees
    BY <1>2 DEF CountsTo
  <2>2. ASSUME NEW i \in Nat, i \in Agrees PROVE i + 1 \in Agrees
    <3> SUFFICES ASSUME i + 1 <= m PROVE f[i + 1] = g[i + 1]
      OBVIOUS
    <3>1. f[i] = g[i]
      BY <2>2
    <3>2. i + 1 \in 1 .. n /\ i + 1 \in 1 .. m /\ (i + 1) - 1 = i
      BY <1>2
    <3>3. f[i + 1] = step[i + 1][f[(i + 1) - 1]] /\ g[i + 1] = step[i + 1][g[(i + 1) - 1]]
      BY <1>2, <3>2 DEF CountsTo
    <3> QED
      BY <3>1, <3>2, <3>3
  <2>3. \A i \in Nat : i \in Agrees
    <3> HIDE DEF Agrees
    <3> QED
      BY <2>1, <2>2, Induction
  <2> QED
    BY <2>3
<1> DEFINE Upto(n) == CHOOSE f : Counts(f, n)
           h == [n \in Nat |-> Upto(n)[n]]
<1>3. \A n \in Nat : Counts(Upto(n), n)
  BY <1>1, Zenon
<1> HIDE DEF Upto
<1>4. h \in [Nat -> D]
  <2>1. ASSUME NEW n \in Nat PROVE Upto(n)[n] \in D
    <3> DEFINE f == Upto(n)
    <3>0. Counts(f, n)
      BY <1>3
    <3> HIDE DEF f
    <3>1. f \in [0 .. n -> D] /\ n \in 0 .. n
      BY <3>0 DEF CountsTo
    <3>2. f[n] \in D
      BY <3>1
    <3> QED
      BY <3>2 DEF f
  <2> QED
    BY <2>1
<1>5. ASSUME NEW n \in Nat PROVE h[n] = IF n = 0 THEN first ELSE step[n][h[n - 1]]
  <2>1. CASE n = 0
    BY <2>1, <1>3 DEF CountsTo
  <2>2. CASE n # 0
    <3>1. n - 1 \in Nat /\ n \in 1 .. n
      BY <2>2
    <3>2. Upto(n)[n] = step[n][Upto(n)[n - 1]]
      BY <1>3, <3>1 DEF CountsTo
    <3>3. Upto(n)[n - 1] = Upto(n - 1)[n - 1]
      <4>1. Counts(Upto(n), n) /\ Counts(Upto(n - 1), n - 1) /\ n - 1 <= n
        BY <1>3, <3>1
      <4> QED
        BY <4>1, <3>1, <1>2
    <3>4. h[n - 1] = Upto(n - 1)[n - 1] /\ h[n] = Upto(n)[n]
      BY <3>1
    <3> QED
      BY <2>2, <3>2, <3>3, <3>4
  <2> QED
    BY <2>1, <2>2
<1>6. h = [n \in Nat |-> IF n = 0 THEN first ELSE step[n][h[n - 1]]]
  <2> HIDE DEF h
  <2> QED
    BY <1>4, <1>5, Zenon
<1> QED
  <2> HIDE DEF h
  <2> QED
    BY <1>4, <1>6

\* f begins with first and goes on by step, for ever.
CountsOn(f, D, first, step) ==
    /\ f \in [Nat -> D]
    /\ f[0] = first
    /\ \A n \in Nat \ {0} : f[n] = step[n][f[n - 1]]

\* The same, said of each value: the form to cite when the first value or the
\* step is an expression of the state.
LEMMA RecursionAt ==
    ASSUME NEW D, NEW first \in D, NEW step \in [Nat -> [D -> D]]
    PROVE  \E f : CountsOn(f, D, first, step)
<1>1. PICK f \in [Nat -> D] :
         f = [n \in Nat |-> IF n = 0 THEN first ELSE step[n][f[n - 1]]]
  BY Recursion
<1>2. \A n \in Nat : f[n] = IF n = 0 THEN first ELSE step[n][f[n - 1]]
  BY <1>1
<1>3. CountsOn(f, D, first, step)
  BY <1>2 DEF CountsOn
<1> QED
  BY <1>3

-----------------------------------------------------------------------------
\* Quotient and remainder are the only ones.
LEMMA DivisionIsUnique ==
    ASSUME NEW d \in Nat \ {0}, NEW q \in Nat, NEW r \in 0 .. (d - 1)
    PROVE  (q * d + r) \div d = q /\ (q * d + r) % d = r
  <1> DEFINE a == q * d + r
             p == a \div d
             s == a % d
  <1>1. q * d \in Nat /\ a \in Nat
    OBVIOUS
  <1>2. p \in Nat /\ s \in 0 .. (d - 1) /\ a = d * p + s
    <2> HIDE DEF a
    <2> QED
      BY <1>1
  <1> HIDE DEF p, s
  <1>3. \A x, y \in Nat : x < y => d * x + d <= d * y
    <2> SUFFICES ASSUME NEW x \in Nat, NEW y \in Nat, x < y PROVE d * x + d <= d * y
      OBVIOUS
    <2>1. PICK z \in Nat : y = (x + 1) + z
      <3>1. y - (x + 1) \in Nat /\ y = (x + 1) + (y - (x + 1))
        OBVIOUS
      <3> QED
        BY <3>1
    <2>2. d * y = d * x + d + d * z
      BY <2>1
    <2>3. d * z \in Nat /\ d * x \in Nat /\ d * y \in Nat
      OBVIOUS
    <2> QED
      BY <2>2, <2>3
  <1>4. d * q = q * d /\ d * p \in Nat /\ d * q \in Nat
    BY <1>2
  <1>5. ~ (p < q)
    <2>1. p < q => d * p + d <= d * q
      BY <1>2, <1>3
    <2> QED
      BY <1>2, <1>4, <2>1
  <1>6. ~ (q < p)
    <2>1. q < p => d * q + d <= d * p
      BY <1>2, <1>3
    <2> QED
      BY <1>2, <1>4, <2>1
  <1>7. p = q
    BY <1>2, <1>5, <1>6
  <1>8. s = r
    BY <1>2, <1>4, <1>7
  <1> QED
    BY <1>7, <1>8 DEF p, s
=============================================================================
