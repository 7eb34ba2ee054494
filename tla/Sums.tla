--------------------------------- MODULE Sums ---------------------------------
(***************************************************************************)
(* What the recursive functions of the models compute.  MapThenSumSet goes  *)
(* over the subsets of a set and takes some member first; others apply a    *)
(* function over and over.  The lemmas show that the functions exist, and   *)
(* that a sum does not depend on the order.                                 *)
(*   Induction is written as a minimal counterexample: no theorem with an   *)
(* operator as parameter is used.                                           *)
(***************************************************************************)
EXTENDS Naturals, FiniteSets, FiniteSetsExt, FiniteSetTheorems, WellFoundedInduction, TLAPS

Some(s) == CHOOSE x \in s : TRUE

\* sum gives every subset of S the sum of the values of its members.
IsSum(sum, value, S) ==
  sum = [s \in SUBSET S |-> IF s = {} THEN 0 ELSE value[Some(s)] + sum[s \ {Some(s)}]]

-----------------------------------------------------------------------------
(* Minimal counterexamples.                                                 *)

LEMMA Least ==
  ASSUME NEW B \in SUBSET Nat, B # {}
  PROVE  \E n \in B : \A m \in B : n <= m
<1>1. PICK R : R = OpToRel(<, Nat)
  OBVIOUS
<1>2. IsWellFoundedOn(R, Nat)
  BY <1>1, NatLessThanWellFounded
<1>3. PICK n \in B : \A m \in B : ~ (<<m, n>> \in R)
  BY <1>2, WFMin
<1>4. \A m \in B : ~ (m < n)
  BY <1>1, <1>3 DEF OpToRel
<1> QED BY <1>4

\* Of some subsets of a finite set one has no other of them in it.
LEMMA Smallest ==
  ASSUME NEW S, IsFiniteSet(S), NEW B \in SUBSET SUBSET S, B # {}
  PROVE  \E s \in B : \A t \in B : t \subseteq s => t = s
<1>1. PICK N : N = {Cardinality(s) : s \in B}
  OBVIOUS
<1>2. \A s \in B : IsFiniteSet(s) /\ Cardinality(s) \in Nat
  BY FS_Subset, FS_CardinalityType
<1>3. N \in SUBSET Nat /\ N # {}
  BY <1>1, <1>2
<1>4. PICK n \in N : \A m \in N : n <= m
  BY <1>3, Least
<1>5. PICK s \in B : n = Cardinality(s)
  BY <1>1, <1>4
<1>6. ASSUME NEW t \in B, t \subseteq s, t # s PROVE FALSE
  <2>1. Cardinality(t) < Cardinality(s)
    BY <1>2, <1>6, FS_Subset
  <2>2. Cardinality(s) <= Cardinality(t)
    BY <1>1, <1>4, <1>5
  <2> QED BY <1>2, <2>1, <2>2
<1> QED BY <1>6

LEMMA SomeIs == \A s : s # {} => Some(s) \in s
BY DEF Some

-----------------------------------------------------------------------------
(* The function exists, and is the same on whichever set it is built.       *)

LEMMA SumEquation ==
  ASSUME NEW S, NEW value, NEW sum, IsSum(sum, value, S)
  PROVE  /\ sum[{}] = 0
         /\ \A s \in SUBSET S : s # {} => sum[s] = value[Some(s)] + sum[s \ {Some(s)}]
BY DEF IsSum

LEMMA SumUnique ==
  ASSUME NEW S, IsFiniteSet(S), NEW T, NEW value, NEW sum, NEW other,
         IsSum(sum, value, S), IsSum(other, value, T), NEW s \in SUBSET S, s \subseteq T
  PROVE  sum[s] = other[s]
<1>1. PICK B : B = {t \in SUBSET S : t \subseteq T /\ sum[t] # other[t]}
  OBVIOUS
<1> SUFFICES ASSUME B # {} PROVE FALSE
  BY <1>1
<1>2. PICK t \in B : \A u \in B : u \subseteq t => u = t
  BY <1>1, Smallest
<1>3. t \in SUBSET S /\ t \subseteq T /\ sum[t] # other[t]
  BY <1>1
<1>4. CASE t = {}
  BY <1>3, <1>4, SumEquation
<1>5. CASE t # {}
  <2>1. PICK x, u : x = Some(t) /\ u = t \ {x}
    OBVIOUS
  <2>2. x \in t /\ u \subseteq t /\ u # t
    BY <1>5, <2>1, SomeIs
  <2>3. sum[u] = other[u]
    BY <1>1, <1>2, <1>3, <2>2
  <2>4. sum[t] = value[x] + sum[u]
    BY <1>3, <1>5, <2>1, SumEquation
  <2>5. other[t] = value[x] + other[u]
    BY <1>3, <1>5, <2>1, SumEquation
  <2> QED BY <1>3, <2>3, <2>4, <2>5
<1> QED BY <1>4, <1>5

LEMMA SumExists ==
  ASSUME NEW S, IsFiniteSet(S), NEW value
  PROVE  \E sum : IsSum(sum, value, S)
<1>1. PICK B : B = {T \in SUBSET S : ~ \E sum : IsSum(sum, value, T)}
  OBVIOUS
<1> SUFFICES ASSUME B # {} PROVE FALSE
  BY <1>1
<1>2. PICK T \in B : \A U \in B : U \subseteq T => U = T
  <2>1. B \in SUBSET SUBSET S
    BY <1>1
  <2> QED BY <2>1, Smallest
<1>3. T \in SUBSET S /\ ~ \E sum : IsSum(sum, value, T)
  BY <1>1
<1>4. \A U \in SUBSET T : U # T => \E sum : IsSum(sum, value, U)
  BY <1>1, <1>2, <1>3
<1> DEFINE Below(U) == CHOOSE sum : IsSum(sum, value, U)
           total == [s \in SUBSET T |-> IF s = {} THEN 0
                                        ELSE value[Some(s)] + Below(s \ {Some(s)})[s \ {Some(s)}]]
<1>5. \A U \in SUBSET T : U # T => IsSum(Below(U), value, U)
  BY <1>4
<1>6. ASSUME NEW s \in SUBSET T, s # T PROVE total[s] = Below(s)[s]
  <2>1. PICK below : below = Below(s)
    OBVIOUS
  <2>2. IsSum(below, value, s)
    BY <1>5, <1>6, <2>1
  <2>3. CASE s = {}
    BY <2>1, <2>2, <2>3, SumEquation
  <2>4. CASE s # {}
    <3>1. PICK x, u : x = Some(s) /\ u = s \ {x}
      OBVIOUS
    <3>2. x \in s /\ u \in SUBSET T /\ u # T /\ u \in SUBSET s
      BY <1>6, <2>4, <3>1, SomeIs
    <3>3. PICK lower : lower = Below(u)
      OBVIOUS
    <3>4. IsSum(lower, value, u)
      BY <1>5, <3>2, <3>3
    <3>5. total[s] = value[x] + lower[u]
      BY <2>4, <3>1, <3>3
    <3>6. below[s] = value[x] + below[u]
      BY <2>2, <2>4, <3>1, SumEquation
    <3>7. IsFiniteSet(s)
      BY <1>3, FS_Subset
    <3>8. below[u] = lower[u]
      BY <2>2, <3>2, <3>4, <3>7, SumUnique
    <3> QED BY <2>1, <3>5, <3>6, <3>8
  <2> QED BY <2>3, <2>4
<1>7. ASSUME NEW s \in SUBSET T, s # {}
      PROVE  total[s] = value[Some(s)] + total[s \ {Some(s)}]
  <2>1. PICK x, u : x = Some(s) /\ u = s \ {x}
    OBVIOUS
  <2>2. x \in s /\ u \in SUBSET T /\ u # T
    BY <1>7, <2>1, SomeIs
  <2>3. total[u] = Below(u)[u]
    BY <1>6, <2>2
  <2> QED BY <1>7, <2>1, <2>3
<1>8. total[{}] = 0
  OBVIOUS
<1>9. IsSum(total, value, T)
  <2>1. PICK g : g = total
    OBVIOUS
  <2>2. g = [s \in SUBSET T |-> g[s]]
    BY <2>1
  <2>3. \A s \in SUBSET T : g[s] = IF s = {} THEN 0 ELSE value[Some(s)] + g[s \ {Some(s)}]
    <3> SUFFICES ASSUME NEW s \in SUBSET T
                 PROVE  g[s] = IF s = {} THEN 0 ELSE value[Some(s)] + g[s \ {Some(s)}]
      OBVIOUS
    <3> HIDE DEF total
    <3> QED BY <1>7, <1>8, <2>1
  <2>4. IsSum(g, value, T)
    BY <2>2, <2>3 DEF IsSum
  <2> QED BY <2>1, <2>4
<1> QED BY <1>3, <1>9

-----------------------------------------------------------------------------
(* Sums of natural numbers.                                                 *)

LEMMA SumType ==
  ASSUME NEW S, IsFiniteSet(S), NEW value \in [S -> Nat], NEW sum, IsSum(sum, value, S),
         NEW s \in SUBSET S
  PROVE  sum[s] \in Nat
<1>1. PICK B : B = {t \in SUBSET S : sum[t] \notin Nat}
  OBVIOUS
<1> SUFFICES ASSUME B # {} PROVE FALSE
  BY <1>1
<1>2. PICK t \in B : \A u \in B : u \subseteq t => u = t
  <2>1. B \in SUBSET SUBSET S
    BY <1>1
  <2> QED BY <2>1, Smallest
<1>3. t \in SUBSET S /\ sum[t] \notin Nat
  BY <1>1
<1>4. t # {}
  <2>1. sum[{}] = 0
    BY SumEquation
  <2> QED BY <1>3, <2>1
<1>5. PICK x, u : x = Some(t) /\ u = t \ {x}
  OBVIOUS
<1>6. x \in t /\ u \subseteq t /\ u # t
  BY <1>4, <1>5, SomeIs
<1>7. sum[u] \in Nat /\ value[x] \in Nat
  BY <1>1, <1>2, <1>3, <1>6
<1>8. sum[t] = value[x] + sum[u]
  BY <1>3, <1>4, <1>5, SumEquation
<1> QED BY <1>3, <1>7, <1>8

\* Any member may be taken first.
LEMMA SumStep ==
  ASSUME NEW S, IsFiniteSet(S), NEW value \in [S -> Nat], NEW sum, IsSum(sum, value, S),
         NEW s \in SUBSET S, NEW x \in s
  PROVE  sum[s] = value[x] + sum[s \ {x}]
<1>1. PICK B : B = {t \in SUBSET S : \E y \in t : sum[t] # value[y] + sum[t \ {y}]}
  OBVIOUS
<1> SUFFICES ASSUME B # {} PROVE FALSE
  BY <1>1
<1>2. PICK t \in B : \A u \in B : u \subseteq t => u = t
  <2>1. B \in SUBSET SUBSET S
    BY <1>1
  <2> QED BY <2>1, Smallest
<1>3. PICK y \in t : t \in SUBSET S /\ sum[t] # value[y] + sum[t \ {y}]
  BY <1>1
<1>4. PICK z : z = Some(t)
  OBVIOUS
<1>5. z \in t /\ sum[t] = value[z] + sum[t \ {z}]
  BY <1>3, <1>4, SomeIs, SumEquation
<1>6. y # z
  BY <1>3, <1>5
<1>7. PICK u, v, w : u = t \ {y} /\ v = t \ {z} /\ w = u \ {z}
  OBVIOUS
<1>8. /\ {u, v, w} \subseteq SUBSET S /\ w = v \ {y} /\ y \in v /\ z \in u
      /\ u \subseteq t /\ v \subseteq t /\ u # t /\ v # t
  BY <1>3, <1>5, <1>6, <1>7
<1>9. sum[v] = value[y] + sum[w] /\ sum[u] = value[z] + sum[w]
  <2>1. u \notin B /\ v \notin B
    BY <1>2, <1>8
  <2>2. sum[v] = value[y] + sum[v \ {y}]
    BY <1>1, <1>8, <2>1
  <2>3. sum[u] = value[z] + sum[u \ {z}]
    BY <1>1, <1>8, <2>1
  <2> QED BY <1>7, <1>8, <2>2, <2>3
<1>10. sum[w] \in Nat /\ value[y] \in Nat /\ value[z] \in Nat
  BY <1>3, <1>5, <1>8, SumType
<1> QED BY <1>3, <1>5, <1>7, <1>9, <1>10

\* The sum over a set is that over a part of it and that over the rest.
LEMMA SumSplit ==
  ASSUME NEW S, IsFiniteSet(S), NEW value \in [S -> Nat], NEW sum, IsSum(sum, value, S),
         NEW s \in SUBSET S, NEW part \in SUBSET s
  PROVE  sum[s] = sum[part] + sum[s \ part]
<1>1. PICK B : B = {t \in SUBSET s : sum[s] # sum[t] + sum[s \ t]}
  OBVIOUS
<1> SUFFICES ASSUME B # {} PROVE FALSE
  BY <1>1
<1>2. PICK t \in B : \A u \in B : u \subseteq t => u = t
  <2>1. B \in SUBSET SUBSET S
    BY <1>1
  <2> QED BY <2>1, Smallest
<1>3. t \in SUBSET s /\ sum[s] # sum[t] + sum[s \ t]
  BY <1>1
<1>4. CASE t = {}
  <2>1. sum[{}] = 0
    BY SumEquation
  <2>2. sum[s] \in Nat
    BY SumType
  <2> QED BY <1>3, <1>4, <2>1, <2>2
<1>5. CASE t # {}
  <2>1. PICK x \in t : TRUE
    BY <1>5
  <2>2. PICK u, v, w : u = t \ {x} /\ v = s \ t /\ w = s \ u
    OBVIOUS
  <2>3. u \in SUBSET s /\ u # t /\ u \subseteq t /\ v = w \ {x} /\ x \in w /\ x \in S
        /\ {t, u, v, w} \subseteq SUBSET S
    BY <1>3, <2>1, <2>2
  <2>4. sum[s] = sum[u] + sum[w]
    BY <1>1, <1>2, <2>2, <2>3
  <2>5. sum[t] = value[x] + sum[u]
    BY <2>1, <2>2, <2>3, SumStep
  <2>7. sum[w] = value[x] + sum[v]
    BY <2>2, <2>3, SumStep
  <2>6. sum[u] \in Nat /\ sum[v] \in Nat /\ value[x] \in Nat
    BY <2>3, SumType
  <2> QED BY <1>3, <2>2, <2>4, <2>5, <2>6, <2>7
<1> QED BY <1>4, <1>5

-----------------------------------------------------------------------------
(* A function applied over and over.  The recursive functions of the models *)
(* that count down are of this kind: they are what their equations say      *)
(* because a function with these equations exists.                          *)

IsOrbit(f, x, next, D) == f = [n \in D |-> IF n = 0 THEN x ELSE next[f[n - 1]]]

LEMMA OrbitUnique ==
  ASSUME NEW n \in Nat, NEW k \in Nat, NEW x, NEW next,
         NEW f, NEW g, IsOrbit(f, x, next, 0 .. n), IsOrbit(g, x, next, 0 .. k),
         NEW m \in Nat, m <= n, m <= k
  PROVE  f[m] = g[m]
<1>1. PICK B : B = {i \in 0 .. m : f[i] # g[i]}
  OBVIOUS
<1> SUFFICES ASSUME B # {} PROVE FALSE
  BY <1>1
<1>2. PICK i \in B : \A j \in B : i <= j
  <2>1. B \in SUBSET Nat
    BY <1>1
  <2> QED BY <2>1, Least
<1>3. i \in 0 .. n /\ i \in 0 .. k /\ i \in 0 .. m /\ f[i] # g[i]
  BY <1>1
<1>4. /\ f[i] = IF i = 0 THEN x ELSE next[f[i - 1]]
      /\ g[i] = IF i = 0 THEN x ELSE next[g[i - 1]]
  BY <1>3 DEF IsOrbit
<1>5. i # 0
  BY <1>3, <1>4
<1>6. i - 1 \notin B
  BY <1>2, <1>3, <1>5
<1>7. f[i - 1] = g[i - 1]
  BY <1>1, <1>3, <1>5, <1>6
<1> QED BY <1>3, <1>4, <1>5, <1>7

LEMMA OrbitUpTo ==
  ASSUME NEW x, NEW next, NEW n \in Nat
  PROVE  \E f : IsOrbit(f, x, next, 0 .. n)
<1>1. PICK B : B = {m \in Nat : ~ \E f : IsOrbit(f, x, next, 0 .. m)}
  OBVIOUS
<1> SUFFICES ASSUME B # {} PROVE FALSE
  BY <1>1
<1>2. PICK m \in B : \A k \in B : m <= k
  BY <1>1, Least
<1>3. m \in Nat /\ ~ \E f : IsOrbit(f, x, next, 0 .. m)
  BY <1>1
<1>4. CASE m = 0
  <2>1. IsOrbit([k \in 0 .. 0 |-> x], x, next, 0 .. 0)
    BY DEF IsOrbit
  <2> QED BY <1>3, <1>4, <2>1
<1>5. CASE m # 0
  <2>1. PICK p \in Nat : m = p + 1
    BY <1>3, <1>5
  <2>2. p \notin B
    BY <1>2, <2>1
  <2>3. PICK f : IsOrbit(f, x, next, 0 .. p)
    BY <1>1, <2>2
  <2>4. PICK g : g = [k \in 0 .. m |-> IF k = m THEN next[f[p]] ELSE f[k]]
    OBVIOUS
  <2>5. \A k \in 0 .. m : g[k] = IF k = 0 THEN x ELSE next[g[k - 1]]
    <3> SUFFICES ASSUME NEW k \in 0 .. m PROVE g[k] = IF k = 0 THEN x ELSE next[g[k - 1]]
      OBVIOUS
    <3>1. CASE k = m
      BY <2>1, <2>4, <3>1
    <3>2. CASE k # m
      <4>1. k \in 0 .. p /\ f[k] = IF k = 0 THEN x ELSE next[f[k - 1]]
        BY <2>1, <2>3, <3>2 DEF IsOrbit
      <4> QED BY <2>1, <2>4, <3>2, <4>1
    <3> QED BY <3>1, <3>2
  <2>6. IsOrbit(g, x, next, 0 .. m)
    BY <2>4, <2>5 DEF IsOrbit
  <2> QED BY <1>3, <2>6
<1> QED BY <1>4, <1>5

LEMMA OrbitExists ==
  ASSUME NEW x, NEW next
  PROVE  \E f : IsOrbit(f, x, next, Nat)
<1> DEFINE UpTo(n) == CHOOSE g : IsOrbit(g, x, next, 0 .. n)
<1>1. PICK f : f = [n \in Nat |-> UpTo(n)[n]]
  OBVIOUS
<1>2. \A n \in Nat : f[n] = IF n = 0 THEN x ELSE next[f[n - 1]]
  <2> SUFFICES ASSUME NEW n \in Nat PROVE f[n] = IF n = 0 THEN x ELSE next[f[n - 1]]
    OBVIOUS
  <2>1. PICK g : g = UpTo(n)
    OBVIOUS
  <2>2. IsOrbit(g, x, next, 0 .. n)
    BY <2>1, OrbitUpTo
  <2>3. f[n] = g[n]
    <3> HIDE DEF UpTo
    <3> QED BY <1>1, <2>1
  <2>4. g[n] = IF n = 0 THEN x ELSE next[g[n - 1]]
    BY <2>2 DEF IsOrbit
  <2>5. ASSUME n # 0 PROVE f[n - 1] = g[n - 1]
    <3>1. PICK p \in Nat : p = n - 1
      BY <2>5
    <3>2. PICK h : h = UpTo(p)
      OBVIOUS
    <3>3. IsOrbit(h, x, next, 0 .. p)
      BY <3>2, OrbitUpTo
    <3>4. h[p] = g[p]
      BY <2>2, <3>1, <3>3, OrbitUnique
    <3> QED BY <1>1, <3>1, <3>2, <3>4
  <2> QED BY <2>3, <2>4, <2>5
<1>3. f = [n \in Nat |-> IF n = 0 THEN x ELSE next[f[n - 1]]]
  <2> HIDE DEF UpTo
  <2> QED BY <1>1, <1>2
<1> QED BY <1>3 DEF IsOrbit

\* What every step keeps is kept.
LEMMA OrbitStays ==
  ASSUME NEW x, NEW next, NEW f, IsOrbit(f, x, next, Nat), NEW S, x \in S, \A s \in S : next[s] \in S
  PROVE  \A n \in Nat : f[n] \in S
<1>1. PICK B : B = {n \in Nat : f[n] \notin S}
  OBVIOUS
<1> SUFFICES ASSUME B # {} PROVE FALSE
  BY <1>1
<1>2. PICK n \in B : \A k \in B : n <= k
  BY <1>1, Least
<1>3. n \in Nat /\ f[n] \notin S /\ f[n] = IF n = 0 THEN x ELSE next[f[n - 1]]
  BY <1>1 DEF IsOrbit
<1>4. n # 0
  BY <1>3
<1>5. n - 1 \notin B
  BY <1>2, <1>3, <1>4
<1>6. f[n - 1] \in S
  BY <1>1, <1>3, <1>4, <1>5
<1> QED BY <1>3, <1>4, <1>6

=============================================================================
