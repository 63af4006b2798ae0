------------------------------ MODULE Recursion ------------------------------
(***************************************************************************)
(* Induction and recursion on natural numbers in a form the proofs can use: *)
(* about sets and functions, where the library's theorems are about         *)
(* operators.  To show P(n) for every n, take {n \in Nat : P(n)} as S in    *)
(* Induction; to show that a recursive definition defines something, give   *)
(* its step as a function to Iteration.  Then what the proofs need of lists  *)
(* and of division.                                                        *)
(***************************************************************************)
EXTENDS Integers, SequencesExt, WellFoundedInduction, FiniteSetTheorems,
        SequenceTheorems, TLAPS

\* A set of numbers has a least element.
LEMMA LeastNat ==
  ASSUME NEW T, T \subseteq Nat, T # {}
  PROVE  \E x \in T : \A y \in T : x <= y
<1> DEFINE R == {ss \in Nat \X Nat : ss[1] < ss[2]}
<1>1. IsWellFoundedOn(R, Nat)
  BY NatLessThanWellFounded DEF OpToRel
<1>2. PICK x \in T : \A y \in T : ~(<<y, x>> \in R)
  <2> HIDE DEF R
  <2> QED
    BY <1>1, WFMin
<1>3. ASSUME NEW y \in T PROVE x <= y
  <2>1. x \in Nat /\ y \in Nat /\ <<y, x>> \notin R
    BY <1>2
  <2> QED
    BY <2>1
<1> QED
  BY <1>3

\* A set of numbers with a bound has a greatest element.
LEMMA GreatestNat ==
  ASSUME NEW n \in Nat, NEW T, T \subseteq 0..n, T # {}
  PROVE  \E x \in T : \A y \in T : x >= y
<1> DEFINE U == {n - y : y \in T}
<1>1. U \subseteq Nat /\ U # {}
  <2>1. \A y \in T : y \in 0..n /\ n - y \in Nat
    OBVIOUS
  <2> QED
    BY <2>1
<1> HIDE DEF U
<1>2. PICK u \in U : \A v \in U : u <= v
  BY <1>1, LeastNat
<1>3. PICK x \in T : u = n - x
  BY DEF U
<1>4. ASSUME NEW y \in T PROVE x >= y
  <2>1. n - y \in U
    BY DEF U
  <2>2. n - x <= n - y /\ x \in 0..n /\ y \in 0..n
    BY <1>2, <1>3, <2>1
  <2> QED
    BY <2>2
<1> QED
  BY <1>4

LEMMA Induction ==
  ASSUME NEW S, 0 \in S, \A n \in Nat : n \in S => n + 1 \in S
  PROVE  \A n \in Nat : n \in S
<1> SUFFICES ASSUME Nat \ S # {} PROVE FALSE
  OBVIOUS
<1>1. PICK x \in Nat \ S : \A y \in Nat \ S : x <= y
  BY LeastNat
<1>2. x # 0 /\ x - 1 \in Nat /\ x - 1 \notin Nat \ S
  BY <1>1
<1>3. x - 1 + 1 \in S
  BY <1>2
<1> QED
  BY <1>3

\* The same up to a bound
LEMMA InductionTo ==
  ASSUME NEW m \in Nat, NEW S, 0 \in S, \A n \in 1..m : n - 1 \in S => n \in S
  PROVE  \A n \in 0..m : n \in S
<1> DEFINE T == {n \in Nat : n <= m => n \in S}
<1>1. 0 \in T
  OBVIOUS
<1>2. ASSUME NEW n \in Nat, n \in T PROVE n + 1 \in T
  <2>1. CASE n + 1 <= m
    <3>1. n + 1 \in 1..m /\ (n + 1) - 1 = n /\ n \in S
      BY <1>2, <2>1
    <3> QED
      BY <3>1
  <2>2. CASE ~(n + 1 <= m)
    BY <2>2
  <2> QED
    BY <2>1, <2>2
<1> HIDE DEF T
<1>3. \A n \in Nat : n \in T
  BY <1>1, <1>2, Induction
<1> QED
  BY <1>3 DEF T

\* f iterates the step h n times from c on.
IsStep(h, V, n) == h \in [V \X (1..n) -> V]
Iterates(f, h, V, c, n) ==
  /\ f \in [0..n -> V]
  /\ f[0] = c /\ \A i \in 1..n : f[i] = h[<<f[i - 1], i>>]

LEMMA Iteration ==
  ASSUME NEW n \in Nat, NEW V, NEW c \in V, NEW h, IsStep(h, V, n)
  PROVE  \E f : Iterates(f, h, V, c, n)
<1>h. h \in [V \X (1..n) -> V]
  BY DEF IsStep
<1> DEFINE Good(m, f) == f[0] = c /\ \A i \in 1..m : f[i] = h[<<f[i - 1], i>>]
           S == {m \in 0..n : \E f \in [0..m -> V] : Good(m, f)}
<1>1. 0 \in S
  <2> DEFINE f == [i \in 0..0 |-> c]
  <2>1. f \in [0..0 -> V] /\ f[0] = c
    OBVIOUS
  <2> HIDE DEF f
  <2>2. Good(0, f)
    BY <2>1
  <2> QED
    BY <2>1, <2>2
<1>2. ASSUME NEW m \in 1..n, m - 1 \in S PROVE m \in S
  <2>1. PICK f \in [0..(m - 1) -> V] : Good(m - 1, f)
    BY <1>2
  <2> DEFINE v == h[<<f[m - 1], m>>]
             g == [i \in 0..m |-> IF i = m THEN v ELSE f[i]]
  <2>2. v \in V
    <3>1. f[m - 1] \in V
      OBVIOUS
    <3> QED
      BY <1>h, <3>1
  <2> HIDE DEF v
  <2>3. g \in [0..m -> V]
    BY <2>2
  <2>4. g[0] = c
    BY <2>1
  <2>5. ASSUME NEW i \in 1..m PROVE g[i] = h[<<g[i - 1], i>>]
    <3>1. g[i - 1] = f[i - 1]
      OBVIOUS
    <3>2. CASE i = m
      <4>1. g[i] = v
        BY <3>2
      <4> QED
        BY <3>1, <3>2, <4>1 DEF v
    <3>3. CASE i # m
      <4>1. i \in 1..(m - 1) /\ g[i] = f[i]
        BY <3>3
      <4> QED
        BY <2>1, <3>1, <4>1
    <3> QED
      BY <3>2, <3>3
  <2> HIDE DEF g
  <2>6. Good(m, g)
    BY <2>4, <2>5
  <2> QED
    BY <2>3, <2>6
<1> HIDE DEF S
<1>3. n \in S
  BY <1>1, <1>2, InductionTo
<1> QED
  BY <1>3 DEF S, Iterates

\* An injection of a finite set into itself reaches every element.
LEMMA InjectionOnto ==
  ASSUME NEW n \in Nat, NEW f \in [1..n -> 1..n],
         \A i, j \in 1..n : f[i] = f[j] => i = j
  PROVE  \A k \in 1..n : \E i \in 1..n : f[i] = k
<1>1. IsFiniteSet(1..n)
  BY FS_Interval
<1>2. f \in Injection(1..n, 1..n)
  BY DEF Injection, IsInjective
<1>3. f \in Surjection(1..n, 1..n)
  BY <1>1, <1>2, FS_Injection
<1> QED
  BY <1>3 DEF Surjection
-----------------------------------------------------------------------------
(* Lists.                                                                  *)

LEMMA ListFacts ==
  ASSUME NEW S, NEW l \in Seq(S)
  PROVE  /\ Len(l) \in Nat /\ DOMAIN l = 1..Len(l)
         /\ \A i \in DOMAIN l : l[i] \in S
BY LenProperties, ElementOfSeq

LEMMA FcnIsSeq ==
  ASSUME NEW S, NEW n \in Nat, NEW l \in [1..n -> S]
  PROVE  l \in Seq(S) /\ Len(l) = n /\ DOMAIN l = 1..n
<1>1. l \in Seq(S)
  BY SeqDef
<1> QED
  BY <1>1, LenProperties

LEMMA AppendFacts ==
  ASSUME NEW S, NEW l \in Seq(S), NEW x \in S
  PROVE  /\ Append(l, x) \in Seq(S) /\ Len(Append(l, x)) = Len(l) + 1
         /\ DOMAIN Append(l, x) = 1..(Len(l) + 1)
         /\ \A i \in DOMAIN l : Append(l, x)[i] = l[i]
         /\ Append(l, x)[Len(l) + 1] = x
BY AppendProperties, LenProperties

LEMMA ExceptFacts ==
  ASSUME NEW S, NEW l \in Seq(S), NEW i \in DOMAIN l, NEW x \in S
  PROVE  /\ [l EXCEPT ![i] = x] \in Seq(S)
         /\ DOMAIN [l EXCEPT ![i] = x] = DOMAIN l
         /\ \A j \in DOMAIN l : [l EXCEPT ![i] = x][j] = IF j = i THEN x ELSE l[j]
BY ExceptSeq, ListFacts

LEMMA RemoveFacts ==
  ASSUME NEW S, NEW l \in Seq(S), NEW i \in DOMAIN l
  PROVE  RemoveAt(l, i) \in Seq(S)
<1>1. i \in 1..Len(l) /\ Len(l) \in Nat
  BY ListFacts
<1> DEFINE a == SubSeq(l, 1, i - 1)
           b == SubSeq(l, i + 1, Len(l))
<1>2. a \in Seq(S) /\ b \in Seq(S)
  BY <1>1, SubSeqProperties
<1>3. RemoveAt(l, i) = a \o b
  BY DEF RemoveAt
<1> HIDE DEF a, b
<1>4. a \o b \in Seq(S)
  BY <1>2, ConcatProperties
<1> QED
  BY <1>3, <1>4

LEMMA LastOfThem ==
  ASSUME NEW n \in Nat, NEW T, T \subseteq 1..n, T # {}
  PROVE  Max(T) \in T
<1>1. T \subseteq 0..n
  OBVIOUS
<1>2. \E x \in T : \A y \in T : x >= y
  BY <1>1, GreatestNat
<1> QED
  BY <1>2 DEF Max

LEMMA FirstOfThem ==
  ASSUME NEW T, T \subseteq Nat, T # {}
  PROVE  Min(T) \in T /\ \A i \in T : Min(T) <= i
<1>1. \E x \in T : \A y \in T : x <= y
  BY LeastNat
<1> QED
  BY <1>1 DEF Min

LEMMA PartFacts ==
  ASSUME NEW S, NEW l \in Seq(S), NEW a \in Nat \ {0}, NEW b \in Nat, b <= Len(l)
  PROVE  /\ SubSeq(l, a, b) \in Seq(S)
         /\ Len(SubSeq(l, a, b)) = IF a <= b THEN b - a + 1 ELSE 0
         /\ \A i \in 1..Len(SubSeq(l, a, b)) : SubSeq(l, a, b)[i] = l[a + i - 1]
<1>1. Len(l) \in Nat
  BY LenProperties
<1>2. CASE a <= b
  <2>1. a \in 1..Len(l) /\ b \in 1..Len(l)
    BY <1>1, <1>2
  <2>2. SubSeq(l, a, b) \in Seq(S)
    BY <2>1, SubSeqProperties
  <2> QED
    BY <1>2, <2>1, <2>2, SubSeqProperties
<1>3. CASE ~(a <= b)
  BY <1>1, <1>3, SubSeqProperties
<1> QED
  BY <1>2, <1>3

LEMMA JoinFacts ==
  ASSUME NEW S, NEW k \in Seq(S), NEW l \in Seq(S)
  PROVE  /\ k \o l \in Seq(S) /\ Len(k \o l) = Len(k) + Len(l)
         /\ DOMAIN (k \o l) = 1..(Len(k) + Len(l))
         /\ \A i \in 1..Len(k) : (k \o l)[i] = k[i]
         /\ \A i \in 1..Len(l) : (k \o l)[Len(k) + i] = l[i]
<1>1. Len(k) \in Nat /\ Len(l) \in Nat
  BY LenProperties
<1>2. /\ k \o l \in Seq(S) /\ Len(k \o l) = Len(k) + Len(l)
      /\ \A i \in 1..(Len(k) + Len(l)) :
           (k \o l)[i] = IF i <= Len(k) THEN k[i] ELSE l[i - Len(k)]
  BY ConcatProperties
<1>3. DOMAIN (k \o l) = 1..(Len(k) + Len(l))
  BY <1>2, LenProperties
<1>4. ASSUME NEW i \in 1..Len(k) PROVE (k \o l)[i] = k[i]
  BY <1>1, <1>2
<1>5. ASSUME NEW i \in 1..Len(l) PROVE (k \o l)[Len(k) + i] = l[i]
  <2>1. Len(k) + i \in 1..(Len(k) + Len(l)) /\ ~(Len(k) + i <= Len(k))
        /\ (Len(k) + i) - Len(k) = i
    BY <1>1
  <2> QED
    BY <1>2, <2>1
<1> QED
  BY <1>2, <1>3, <1>4, <1>5
\* An element inserted, or taken out
LEMMA InsertFacts ==
  ASSUME NEW S, NEW l \in Seq(S), NEW i \in 1..(Len(l) + 1), NEW x \in S
  PROVE  InsertAt(l, i, x) \in Seq(S) /\ Len(InsertAt(l, i, x)) = Len(l) + 1
<1> DEFINE n == Len(l)
           a == SubSeq(l, 1, i - 1)
           b == SubSeq(l, i, n)
           o == <<x>>
<1>1. n \in Nat /\ i \in 1..(n + 1)
  BY LenProperties
<1>2. a \in Seq(S) /\ Len(a) = i - 1
  <2>1. i - 1 \in Nat /\ i - 1 <= Len(l) /\ 1 \in Nat \ {0}
    BY <1>1
  <2>2. a \in Seq(S) /\ Len(a) = IF 1 <= i - 1 THEN (i - 1) - 1 + 1 ELSE 0
    BY <2>1, PartFacts
  <2> HIDE DEF a
  <2> QED
    BY <2>1, <2>2
<1>3. b \in Seq(S) /\ Len(b) = n + 1 - i
  <2>1. i \in Nat \ {0} /\ n <= Len(l)
    BY <1>1
  <2>2. b \in Seq(S) /\ Len(b) = IF i <= n THEN n - i + 1 ELSE 0
    BY <1>1, <2>1, PartFacts
  <2> HIDE DEF b, n
  <2> QED
    BY <1>1, <2>1, <2>2
<1>4. o \in Seq(S) /\ Len(o) = 1
  OBVIOUS
<1>5. InsertAt(l, i, x) = a \o o \o b
  BY DEF InsertAt
<1> HIDE DEF a, b, o, n
<1> DEFINE c == a \o o
<1>6. c \in Seq(S) /\ Len(c) = Len(a) + Len(o)
  BY <1>2, <1>4, JoinFacts
<1>7. InsertAt(l, i, x) = c \o b
  BY <1>5
<1> HIDE DEF c
<1>8. c \o b \in Seq(S) /\ Len(c \o b) = Len(c) + Len(b)
  BY <1>3, <1>6, JoinFacts
<1>9. Len(c \o b) = n + 1
  BY <1>1, <1>2, <1>3, <1>4, <1>6, <1>8
<1> QED
  BY <1>7, <1>8, <1>9 DEF n

LEMMA RemoveLength ==
  ASSUME NEW S, NEW l \in Seq(S), NEW i \in DOMAIN l
  PROVE  Len(RemoveAt(l, i)) = Len(l) - 1
<1> DEFINE n == Len(l)
           a == SubSeq(l, 1, i - 1)
           b == SubSeq(l, i + 1, n)
<1>1. n \in Nat /\ i \in 1..n
  BY ListFacts
<1>2. a \in Seq(S) /\ Len(a) = i - 1
  <2>1. i - 1 \in Nat /\ i - 1 <= Len(l) /\ 1 \in Nat \ {0}
    BY <1>1
  <2>2. a \in Seq(S) /\ Len(a) = IF 1 <= i - 1 THEN (i - 1) - 1 + 1 ELSE 0
    BY <2>1, PartFacts
  <2> HIDE DEF a
  <2> QED
    BY <2>1, <2>2
<1>3. b \in Seq(S) /\ Len(b) = n - i
  <2>1. i + 1 \in Nat \ {0} /\ n <= Len(l)
    BY <1>1
  <2>2. b \in Seq(S) /\ Len(b) = IF i + 1 <= n THEN n - (i + 1) + 1 ELSE 0
    BY <1>1, <2>1, PartFacts
  <2> HIDE DEF b, n
  <2> QED
    BY <1>1, <2>1, <2>2
<1>4. RemoveAt(l, i) = a \o b
  BY DEF RemoveAt
<1> HIDE DEF a, b, n
<1>5. Len(a \o b) = Len(a) + Len(b)
  BY <1>2, <1>3, JoinFacts
<1> QED
  BY <1>1, <1>2, <1>3, <1>4, <1>5 DEF n
-----------------------------------------------------------------------------
(* Division.                                                               *)

LEMMA DivMod ==
  ASSUME NEW d \in Nat \ {0}, NEW t \in Int
  PROVE  /\ t \div d \in Int /\ t % d \in 0..(d - 1)
         /\ t = d * (t \div d) + (t % d)
<1>1. t \div d \in Int
  OBVIOUS
<1>2. t % d \in 0..(d - 1)
  OBVIOUS
<1>3. t = d * (t \div d) + (t % d)
  OBVIOUS
<1> QED
  BY <1>1, <1>2, <1>3

LEMMA ModOf ==
  ASSUME NEW d \in Nat \ {0}, NEW q \in Int, NEW r \in 0..(d - 1)
  PROVE  (d * q + r) % d = r /\ (d * q + r) \div d = q
<1>1. (d * q + r) % d = r
  OBVIOUS
<1>2. (d * q + r) \div d = q
  OBVIOUS
<1> QED
  BY <1>1, <1>2
=============================================================================
