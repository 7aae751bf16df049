--------------------------- MODULE SequenceLemmas ---------------------------
(***************************************************************************)
(* Lemmas about numbers and sequences that the proofs about the windows    *)
(* rest on.  Induction is used in the form "a set that holds 0 and with    *)
(* each number its successor holds every number", which has no operator as *)
(* a parameter.                                                            *)
(***************************************************************************)
EXTENDS Integers, Sequences, SequencesExt, FiniteSetTheorems, TLAPS

\* A set of natural numbers has a least element, unless it is empty.
LEMMA LeastNumber ==
  ASSUME NEW T, T \subseteq Nat, T # {}
  PROVE  \E x \in T : \A y \in T : x <= y
<1> DEFINE R == {p \in Nat \X Nat : p[1] < p[2]}
<1>1. IsWellFoundedOn(R, Nat)
  BY NatLessThanWellFounded DEF OpToRel
<1>2. \A x, y \in Nat : x < y => <<x, y>> \in R
  OBVIOUS
<1> HIDE DEF R
<1>3. PICK x \in T : \A y \in T : ~(<<y, x>> \in R)
  BY <1>1, WFMin
<1>4. \A y \in T : ~(y < x)
  BY <1>2, <1>3
<1> QED BY <1>3, <1>4

\* Induction over the natural numbers.
LEMMA Induction ==
  ASSUME NEW S, 0 \in S, \A n \in Nat : n \in S => n + 1 \in S
  PROVE  \A n \in Nat : n \in S
<1> SUFFICES ASSUME Nat \ S # {} PROVE FALSE
  OBVIOUS
<1>1. PICK x \in Nat \ S : \A y \in Nat \ S : x <= y
  BY LeastNumber
<1>2. x # 0 /\ x - 1 \in Nat /\ x - 1 \notin S
  BY <1>1
<1> QED BY <1>1, <1>2

\* The functions by which FlattenSeq is defined exist.
LEMMA FlattenExists ==
  ASSUME NEW s, NEW n \in Nat
  PROVE  \E f : f = [i \in 1 .. n |-> IF i = 1 THEN s[i] ELSE f[i - 1] \o s[i]]
<1> DEFINE Is(f, m) == f = [i \in 1 .. m |-> IF i = 1 THEN s[i] ELSE f[i - 1] \o s[i]]
           S == {m \in Nat : \E f : Is(f, m)}
<1>1. 0 \in S
  <2>1. Is(<< >>, 0)
    OBVIOUS
  <2> QED BY <2>1
<1>2. ASSUME NEW m \in Nat, m \in S PROVE m + 1 \in S
  <2>1. PICK f : Is(f, m)
    BY <1>2
  <2> DEFINE last == IF m = 0 THEN s[1] ELSE f[m] \o s[m + 1]
             g == [i \in 1 .. m + 1 |-> IF i = m + 1 THEN last ELSE f[i]]
  <2>2. \A i \in 1 .. m : g[i] = f[i]
    OBVIOUS
  <2>3. g[m + 1] = last
    OBVIOUS
  <2>4. \A i \in 1 .. m + 1 : g[i] = IF i = 1 THEN s[i] ELSE g[i - 1] \o s[i]
    <3> SUFFICES ASSUME NEW i \in 1 .. m + 1
                 PROVE  g[i] = IF i = 1 THEN s[i] ELSE g[i - 1] \o s[i]
      OBVIOUS
    <3>1. CASE i = m + 1
      <4>1. m # 0 => m \in 1 .. m /\ g[m] = f[m]
        BY <2>2
      <4> HIDE DEF g
      <4>2. QED
        BY <2>3, <3>1, <4>1
    <3>2. CASE i # m + 1
      <4>1. i \in 1 .. m /\ (i # 1 => i - 1 \in 1 .. m)
        BY <3>2
      <4>2. f[i] = IF i = 1 THEN s[i] ELSE f[i - 1] \o s[i]
        BY <2>1, <4>1
      <4>3. g[i] = f[i] /\ (i # 1 => g[i - 1] = f[i - 1])
        BY <2>2, <4>1
      <4> HIDE DEF g
      <4>4. QED
        BY <4>2, <4>3
    <3>3. QED
      BY <3>1, <3>2
  <2>5. g = [i \in 1 .. m + 1 |-> g[i]]
    OBVIOUS
  <2> HIDE DEF g
  <2>6. Is(g, m + 1)
    BY <2>4, <2>5
  <2> HIDE DEF Is
  <2> QED BY <2>6
<1> HIDE DEF Is, S
<1>3. n \in S
  BY <1>1, <1>2, Induction
<1> QED BY <1>3 DEF S, Is

\* A running sum over a sequence of numbers exists.
LEMMA RunningSumExists ==
  ASSUME NEW a, NEW n \in Nat
  PROVE  \E f : f = [i \in 1 .. n |-> IF i = 1 THEN 0 ELSE f[i - 1] + a[i - 1]]
<1> DEFINE Is(f, m) == f = [i \in 1 .. m |-> IF i = 1 THEN 0 ELSE f[i - 1] + a[i - 1]]
           S == {m \in Nat : \E f : Is(f, m)}
<1>1. 0 \in S
  <2>1. Is(<< >>, 0)
    OBVIOUS
  <2> QED BY <2>1
<1>2. ASSUME NEW m \in Nat, m \in S PROVE m + 1 \in S
  <2>1. PICK f : Is(f, m)
    BY <1>2
  <2> DEFINE last == IF m = 0 THEN 0 ELSE f[m] + a[m]
             g == [i \in 1 .. m + 1 |-> IF i = m + 1 THEN last ELSE f[i]]
  <2>2. \A i \in 1 .. m : g[i] = f[i]
    OBVIOUS
  <2>3. g[m + 1] = last
    OBVIOUS
  <2>4. \A i \in 1 .. m + 1 : g[i] = IF i = 1 THEN 0 ELSE g[i - 1] + a[i - 1]
    <3> SUFFICES ASSUME NEW i \in 1 .. m + 1
                 PROVE  g[i] = IF i = 1 THEN 0 ELSE g[i - 1] + a[i - 1]
      OBVIOUS
    <3>1. CASE i = m + 1
      <4>1. m # 0 => m \in 1 .. m /\ g[m] = f[m]
        BY <2>2
      <4> HIDE DEF g
      <4>2. i - 1 = m
        BY <3>1
      <4>3. QED
        BY <2>3, <3>1, <4>1, <4>2
    <3>2. CASE i # m + 1
      <4>1. i \in 1 .. m /\ (i # 1 => i - 1 \in 1 .. m)
        BY <3>2
      <4>2. f[i] = IF i = 1 THEN 0 ELSE f[i - 1] + a[i - 1]
        BY <2>1, <4>1
      <4>3. g[i] = f[i] /\ (i # 1 => g[i - 1] = f[i - 1])
        BY <2>2, <4>1
      <4> HIDE DEF g
      <4>4. QED
        BY <4>2, <4>3
    <3>3. QED
      BY <3>1, <3>2
  <2>5. g = [i \in 1 .. m + 1 |-> g[i]]
    OBVIOUS
  <2> HIDE DEF g
  <2>6. Is(g, m + 1)
    BY <2>4, <2>5
  <2> HIDE DEF Is
  <2> QED BY <2>6
<1> HIDE DEF Is, S
<1>3. n \in S
  BY <1>1, <1>2, Induction
<1> QED BY <1>3 DEF S, Is

\* FlattenSeq is the last value of such a function.
LEMMA FlattenUnfold ==
  ASSUME NEW s, Len(s) \in Nat \ {0}
  PROVE  \E f : /\ f = [i \in 1 .. Len(s) |->
                          IF i = 1 THEN s[i] ELSE f[i - 1] \o s[i]]
                /\ FlattenSeq(s) = f[Len(s)]
<1> DEFINE F == CHOOSE f : f = [i \in 1 .. Len(s) |->
                                  IF i = 1 THEN s[i] ELSE f[i - 1] \o s[i]]
<1>1. F = [i \in 1 .. Len(s) |-> IF i = 1 THEN s[i] ELSE F[i - 1] \o s[i]]
  BY FlattenExists
<1>2. FlattenSeq(s) = F[Len(s)]
  BY DEF FlattenSeq
<1> HIDE DEF F
<1> QED BY <1>1, <1>2

\* FlattenSeq joins the sequences one after the other.
LEMMA Flatten ==
  ASSUME NEW T, NEW s \in Seq(Seq(T))
  PROVE  \E f : /\ f \in [0 .. Len(s) -> Seq(T)] /\ f[0] = << >>
                /\ \A k \in 1 .. Len(s) : f[k] = f[k - 1] \o s[k]
                /\ FlattenSeq(s) = f[Len(s)]
<1>1. CASE Len(s) = 0
  <2> DEFINE g == [k \in 0 .. 0 |-> << >>]
  <2>1. FlattenSeq(s) = << >>
    BY <1>1 DEF FlattenSeq
  <2>2. /\ g \in [0 .. Len(s) -> Seq(T)] /\ g[0] = << >>
        /\ \A k \in 1 .. Len(s) : g[k] = g[k - 1] \o s[k]
        /\ FlattenSeq(s) = g[Len(s)]
    BY <1>1, <2>1
  <2> HIDE DEF g
  <2> QED BY <2>2
<1>2. CASE Len(s) # 0
  <2> DEFINE n == Len(s)
  <2>1. n \in Nat \ {0} /\ \A k \in 1 .. n : s[k] \in Seq(T)
    BY <1>2
  <2>2. PICK f : /\ f = [i \in 1 .. n |-> IF i = 1 THEN s[i] ELSE f[i - 1] \o s[i]]
                 /\ FlattenSeq(s) = f[n]
    BY <2>1, FlattenUnfold
  <2> DEFINE g == [k \in 0 .. n |-> IF k = 0 THEN << >> ELSE f[k]]
             S == {k \in Nat : k \in 0 .. n => g[k] \in Seq(T)}
  <2> HIDE DEF n
  <2>3. g[0] = << >> /\ \A k \in 1 .. n : g[k] = f[k]
    BY <2>1
  <2>4. \A k \in 1 .. n : f[k] = IF k = 1 THEN s[k] ELSE f[k - 1] \o s[k]
    BY <2>2
  <2>5. DOMAIN g = 0 .. n /\ g = [k \in 0 .. n |-> g[k]]
    OBVIOUS
  <2> HIDE DEF g
  <2>6. \A k \in 1 .. n : g[k] = g[k - 1] \o s[k]
    <3> SUFFICES ASSUME NEW k \in 1 .. n PROVE g[k] = g[k - 1] \o s[k]
      OBVIOUS
    <3>1. CASE k = 1
      <4>1. g[k] = s[k] /\ g[k - 1] = << >> /\ s[k] \in Seq(T)
        BY <2>1, <2>3, <2>4, <3>1
      <4> QED BY <4>1
    <3>2. CASE k # 1
      <4>1. k - 1 \in 1 .. n
        BY <2>1, <3>2
      <4> QED BY <2>3, <2>4, <3>2, <4>1
    <3> QED BY <3>1, <3>2
  <2>7. 0 \in S
    <3>1. << >> \in Seq(T)
      OBVIOUS
    <3> QED BY <2>3, <3>1
  <2>8. ASSUME NEW k \in Nat, k \in S PROVE k + 1 \in S
    <3> SUFFICES ASSUME k + 1 \in 0 .. n PROVE g[k + 1] \in Seq(T)
      OBVIOUS
    <3>1. k + 1 \in 1 .. n /\ k \in 0 .. n /\ k + 1 - 1 = k
      BY <2>1
    <3>2. g[k + 1] = g[k] \o s[k + 1] /\ s[k + 1] \in Seq(T)
      <4>1. PICK j \in 1 .. n : j = k + 1 /\ j - 1 = k
        BY <3>1
      <4>2. g[j] = g[j - 1] \o s[j] /\ s[j] \in Seq(T)
        BY <2>1, <2>6
      <4> QED BY <4>1, <4>2
    <3>3. g[k] \in Seq(T)
      BY <2>8, <3>1
    <3> QED BY <3>2, <3>3
  <2>9. \A k \in Nat : k \in S
    <3> HIDE DEF S
    <3> QED BY <2>7, <2>8, Induction
  <2>10. g \in [0 .. n -> Seq(T)]
    <3>1. \A k \in 0 .. n : g[k] \in Seq(T)
      BY <2>1, <2>9
    <3> QED BY <2>5, <3>1
  <2>11. FlattenSeq(s) = g[n]
    BY <2>1, <2>2, <2>3
  <2> QED BY <2>3, <2>6, <2>10, <2>11 DEF n
<1> QED BY <1>1, <1>2

\* A sequence is the concatenation of its two parts.
LEMMA JoinedParts ==
  ASSUME NEW T, NEW s \in Seq(T), NEW t \in Seq(T), NEW u \in Seq(T),
         Len(u) = Len(s) + Len(t),
         \A i \in 1 .. Len(s) : u[i] = s[i],
         \A j \in 1 .. Len(t) : u[j + Len(s)] = t[j]
  PROVE  u = s \o t
<1>1. ASSUME NEW i \in 1 .. Len(s) + Len(t) PROVE u[i] = (s \o t)[i]
  <2>1. CASE i \in 1 .. Len(s)
    BY <2>1
  <2>2. CASE i \notin 1 .. Len(s)
    <3>1. i - Len(s) \in 1 .. Len(t) /\ i = i - Len(s) + Len(s)
      BY <2>2
    <3> QED BY <2>2, <3>1
  <2> QED BY <2>1, <2>2
<1> QED BY <1>1
-----------------------------------------------------------------------------
(* Sets of numbers in increasing order.                                    *)

Increasing(f, n) == \A i, j \in 1 .. n : i < j => f[i] < f[j]

\* f lists the members of a set in order.
Lists(f, n, T) == /\ f \in [1 .. n -> T] /\ Increasing(f, n)
                  /\ \A c \in T : \E i \in 1 .. n : f[i] = c

\* A set of numbers below a bound has a list of its members.
LEMMA EnumerationExists ==
  ASSUME NEW m \in Nat, NEW T, T \subseteq 0 .. m - 1
  PROVE  \E n \in Nat : \E f : Lists(f, n, T)
<1> DEFINE S == {b \in Nat : \A U : U \subseteq 0 .. b - 1 =>
                               \E n \in Nat : \E f : Lists(f, n, U)}
<1>1. 0 \in S
  <2> SUFFICES ASSUME NEW U, U \subseteq 0 .. 0 - 1
               PROVE  \E n \in Nat : \E f : Lists(f, n, U)
    OBVIOUS
  <2>1. U = {}
    OBVIOUS
  <2>2. Lists(<< >>, 0, U)
    BY <2>1 DEF Increasing, Lists
  <2> QED BY <2>2
<1>2. ASSUME NEW b \in Nat, b \in S PROVE b + 1 \in S
  <2> SUFFICES ASSUME NEW U, U \subseteq 0 .. b
               PROVE  \E n \in Nat : \E f : Lists(f, n, U)
    OBVIOUS
  <2> DEFINE V == U \ {b}
  <2>1. V \subseteq 0 .. b - 1
    OBVIOUS
  <2>a. \E n \in Nat : \E f : Lists(f, n, V)
    <3> HIDE DEF V
    <3> QED BY <1>2, <2>1
  <2>b. PICK n \in Nat : \E f : Lists(f, n, V)
    BY <2>a
  <2>2. PICK f : Lists(f, n, V)
    BY <2>b
  <2> USE DEF Lists
  <2>3. CASE b \notin U
    <3>1. V = U
      BY <2>3
    <3> HIDE DEF V, Lists
    <3> QED BY <2>2, <3>1
  <2>4. CASE b \in U
    <3> DEFINE g == [i \in 1 .. n + 1 |-> IF i = n + 1 THEN b ELSE f[i]]
    <3>1. /\ g[n + 1] = b /\ \A i \in 1 .. n : g[i] = f[i] /\ f[i] \in V
          /\ \A i \in 1 .. n + 1 : i = n + 1 \/ i \in 1 .. n
      BY <2>2
    <3>2. g \in [1 .. n + 1 -> U]
      BY <2>2, <2>4
    <3> HIDE DEF g
    <3>3. Increasing(g, n + 1)
      <4> SUFFICES ASSUME NEW i \in 1 .. n + 1, NEW j \in 1 .. n + 1, i < j
                   PROVE  g[i] < g[j]
        BY DEF Increasing
      <4>1. i \in 1 .. n /\ (j = n + 1 \/ j \in 1 .. n)
        OBVIOUS
      <4>2. \A k \in 1 .. n : g[k] \in 0 .. b - 1
        BY <2>1, <3>1
      <4>3. CASE j = n + 1
        BY <3>1, <4>1, <4>2, <4>3
      <4>4. CASE j \in 1 .. n
        BY <2>2, <3>1, <4>1, <4>4 DEF Increasing
      <4> QED BY <4>1, <4>3, <4>4
    <3>4. \A c \in U : \E i \in 1 .. n + 1 : g[i] = c
      <4> SUFFICES ASSUME NEW c \in U PROVE \E i \in 1 .. n + 1 : g[i] = c
        OBVIOUS
      <4>1. CASE c = b
        BY <3>1, <4>1
      <4>2. CASE c # b
        <5>1. PICK i \in 1 .. n : f[i] = c
          BY <2>2, <4>2
        <5> QED BY <3>1, <5>1
      <4> QED BY <4>1, <4>2
    <3>5. Lists(g, n + 1, U)
      BY <3>2, <3>3, <3>4
    <3> HIDE DEF Lists
    <3> QED BY <3>5
  <2> QED BY <2>3, <2>4
<1> HIDE DEF S
<1>3. m \in S
  BY <1>1, <1>2, Induction
<1> QED BY <1>3 DEF S

\* It is as long as the set is large.
LEMMA Enumeration ==
  ASSUME NEW m \in Nat, NEW T, T \subseteq 0 .. m - 1
  PROVE  /\ IsFiniteSet(T) /\ Cardinality(T) \in Nat /\ Cardinality(T) <= m
         /\ \E f : Lists(f, Cardinality(T), T)
<1>1. IsFiniteSet(0 .. m - 1) /\ Cardinality(0 .. m - 1) = m
  BY FS_Interval
<1>2. IsFiniteSet(T) /\ Cardinality(T) <= m
  BY <1>1, FS_Subset
<1>0. PICK n \in Nat : \E f : Lists(f, n, T)
  BY EnumerationExists
<1>3. PICK f : Lists(f, n, T)
  BY <1>0
<1> USE DEF Lists
<1>4. \A i, j \in 1 .. n : f[i] = f[j] => i = j
  <2> SUFFICES ASSUME NEW i \in 1 .. n, NEW j \in 1 .. n, i # j PROVE f[i] # f[j]
    OBVIOUS
  <2>0. f[i] \in T /\ f[j] \in T /\ (i < j \/ j < i)
    BY <1>3
  <2>1. f[i] \in 0 .. m - 1 /\ f[j] \in 0 .. m - 1
    BY <2>0
  <2> QED BY <1>3, <2>0, <2>1 DEF Increasing
<1>5. f \in Bijection(1 .. n, T)
  BY <1>3, <1>4 DEF Bijection, Injection, Surjection, IsInjective
<1>6. Cardinality(T) = n
  BY <1>5, FS_CountingElements DEF ExistsBijection
<1> QED BY <1>2, <1>3, <1>6

\* A sequence in increasing order that is as long leaves out no member.
LEMMA IncreasingIsOnto ==
  ASSUME NEW m \in Nat, NEW T, T \subseteq 0 .. m - 1,
         NEW f \in [1 .. Cardinality(T) -> T], Increasing(f, Cardinality(T))
  PROVE  \A c \in T : \E i \in 1 .. Cardinality(T) : f[i] = c
<1> DEFINE n == Cardinality(T)
<1>1. IsFiniteSet(T) /\ n \in Nat
  BY Enumeration
<1>2. \A i, j \in 1 .. n : f[i] = f[j] => i = j
  <2> SUFFICES ASSUME NEW i \in 1 .. n, NEW j \in 1 .. n, i # j PROVE f[i] # f[j]
    OBVIOUS
  <2>0. f[i] \in T /\ f[j] \in T /\ (i < j \/ j < i)
    BY <1>1
  <2>1. f[i] \in 0 .. m - 1 /\ f[j] \in 0 .. m - 1
    BY <2>0
  <2> QED BY <1>1, <2>0, <2>1 DEF Increasing
<1>3. f \in Injection(1 .. n, T)
  BY <1>2 DEF Injection, IsInjective
<1>4. Cardinality(1 .. n) = n
  BY <1>1, FS_Interval
<1>5. f \in Surjection(1 .. n, T)
  BY <1>1, <1>3, <1>4, FS_Injection
<1> QED BY <1>5 DEF Surjection
=============================================================================
