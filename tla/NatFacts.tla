------------------------------ MODULE NatFacts -------------------------------
(***************************************************************************)
(* Facts about natural numbers the proofs share: division by a block size, *)
(* and the least element of a set, from which induction follows.           *)
(***************************************************************************)
EXTENDS Integers, FiniteSetsExt, WellFoundedInduction, TLAPS

\* Quotient and remainder.
LEMMA DivMod ==
    ASSUME NEW b \in Nat \ {0}, NEW i \in Nat
    PROVE  /\ i \div b \in Nat /\ i % b \in 0 .. b - 1
           /\ i = b * (i \div b) + (i % b)
  BY SMT

\* They are unique.
LEMMA DivModIs ==
    ASSUME NEW b \in Nat \ {0}, NEW q \in Nat, NEW r \in 0 .. b - 1
    PROVE  (b * q + r) \div b = q /\ (b * q + r) % b = r
  BY SMT

\* Multiplication keeps the order.
LEMMA MulMono ==
    ASSUME NEW b \in Nat, NEW x \in Int, NEW y \in Int, x <= y
    PROVE  b * x <= b * y
  BY SMT

\* Products.
LEMMA MulFacts ==
    ASSUME NEW a \in Nat, NEW b \in Nat
    PROVE  /\ a * b \in Nat /\ a * b = b * a /\ (a + 1) * b = a * b + b
           /\ (a - 1) * b = a * b - b /\ b * (a - 1) = a * b - b
  BY SMT

\* An offset below n blocks lies in one of the first n.
LEMMA DivBelow ==
    ASSUME NEW b \in Nat \ {0}, NEW i \in Nat, NEW n \in Nat, i < n * b
    PROVE  i \div b < n
  <1>1. i \div b \in Nat /\ b * (i \div b) <= i
    BY DivMod, SMT
  <1>2. SUFFICES ASSUME n <= i \div b PROVE FALSE
    BY <1>1
  <1>3. b * n <= b * (i \div b)
    BY <1>1, <1>2, MulMono
  <1> QED BY <1>1, <1>3, SMT

Less == {p \in Nat \X Nat : p[1] < p[2]}
\* The less-than relation on the natural numbers is well founded.
LEMMA LessWellFounded == IsWellFoundedOn(Less, Nat)
  BY NatLessThanWellFounded DEF OpToRel, Less

\* A set of natural numbers that is not empty has a least element.
LEMMA LeastNat ==
    ASSUME NEW T \in SUBSET Nat, T # {}
    PROVE  Min(T) \in T /\ \A y \in T : Min(T) <= y
  <1>1. PICK x \in T : \A y \in T : ~ (<<y, x>> \in Less)
    BY WFMin, LessWellFounded
  <1>2. ASSUME NEW y \in T PROVE x <= y
    <2>1. x \in Nat /\ y \in Nat
      OBVIOUS
    <2>2. <<y, x>> \in Nat \X Nat /\ <<y, x>>[1] = y /\ <<y, x>>[2] = x
      BY <2>1
    <2>3. ~ (y < x)
      BY <1>1, <2>2 DEF Less
    <2> QED BY <2>1, <2>3
  <1> QED BY <1>2 DEF Min

\* f is defined at each argument outside stop from its value at a greater one.
Climbs(N, stop, next) == \A o \in 0 .. N : o \notin stop => next[o] \in o + 1 .. N
Solves(f, N, stop, base, next, glue) ==
    \A o \in 0 .. N : f[o] = IF o \in stop THEN base[o] ELSE glue[o][f[next[o]]]

\* There is such a function.
LEMMA RecursionDown ==
    ASSUME NEW N \in Nat, NEW V, NEW stop, NEW base \in [0 .. N -> V], NEW next,
           NEW glue \in [0 .. N -> [V -> V]],
           Climbs(N, stop, next)
    PROVE  \E f \in [0 .. N -> V] : Solves(f, N, stop, base, next, glue)
  <1> DEFINE Holds(f, o) == f[o] = IF o \in stop THEN base[o] ELSE glue[o][f[next[o]]]
             T == {m \in Nat : \E f \in [0 .. N -> V] : \A o \in m .. N : Holds(f, o)}
             m == Min(T)
  <1>1. N + 1 \in T
    <2>1. \A o \in N + 1 .. N : Holds(base, o)
      OBVIOUS
    <2> QED BY <2>1
  <1>2. m \in T /\ \A y \in T : m <= y
    BY <1>1, LeastNat
  <1> HIDE DEF m
  <1>3. PICK f \in [0 .. N -> V] : \A o \in m .. N : Holds(f, o)
    BY <1>2
  <1>4. m \in Nat /\ m <= N + 1
    BY <1>1, <1>2
  <1>5. CASE m = 0
    BY <1>3, <1>5 DEF Solves
  <1>6. CASE m > 0
    <2> DEFINE k == m - 1
               v == IF k \in stop THEN base[k] ELSE glue[k][f[next[k]]]
               g == [f EXCEPT ![k] = v]
    <2>1. k \in 0 .. N
      BY <1>4, <1>6
    <2>2. k \notin stop => next[k] \in m .. N /\ next[k] \in 0 .. N
      BY <1>4, <1>6, <2>1 DEF Climbs
    <2>3. v \in V
      BY <1>3, <2>1, <2>2
    <2> HIDE DEF v
    <2>4. g \in [0 .. N -> V] /\ g[k] = v /\ \A o \in 0 .. N : o # k => g[o] = f[o]
      BY <1>3, <2>1, <2>3
    <2> HIDE DEF g
    <2>5. ASSUME NEW o \in k .. N PROVE Holds(g, o)
      <3>1. CASE o = k
        <4>1. k \notin stop => g[next[k]] = f[next[k]]
          BY <2>2, <2>4, <1>4
        <4> QED BY <2>4, <3>1, <4>1 DEF v
      <3>2. CASE o # k
        <4>1. o \in m .. N /\ o \in 0 .. N
          BY <1>4, <2>1, <2>5, <3>2
        <4>2. o \notin stop => next[o] \in 0 .. N /\ next[o] # k
          BY <1>4, <4>1 DEF Climbs
        <4>3. Holds(f, o) /\ g[o] = f[o]
          BY <1>3, <2>4, <3>2, <4>1
        <4>4. o \notin stop => g[next[o]] = f[next[o]]
          BY <2>4, <4>2
        <4> QED BY <4>3, <4>4
      <3> QED BY <3>1, <3>2
    <2>6. \E h \in [0 .. N -> V] : \A o \in k .. N : Holds(h, o)
      <3> HIDE DEF Holds, k
      <3> QED BY <2>4, <2>5
    <2>7. k \in T
      <3> HIDE DEF Holds, k
      <3> QED BY <2>1, <2>6
    <2>8. m <= k
      BY <1>2, <2>7
    <2> HIDE DEF T, Holds
    <2> QED BY <1>4, <2>8
  <1> HIDE DEF T, Holds
  <1>7. m = 0 \/ m > 0
    BY <1>4
  <1> QED BY <1>5, <1>6, <1>7
=============================================================================
