-------------------------- MODULE GridTotals_proofs --------------------------
(***************************************************************************)
(* Proofs about GridTotals, for grids of any length.  What computeCell and  *)
(* the loop for positions return adds up from their row on, as far as they  *)
(* go; every edit and deletion is shown to start them high enough, but for  *)
(* the exceptions that TotalsAddUp names.                                   *)
(***************************************************************************)
EXTENDS GridTotals, Recursion

\* The lines of a column of the kind k
Proper(k) ==
  {l \in Line : /\ k = "hours" => l.entry \in Nat \cup Entries["hours"]
                /\ k # "water" => l.maker = 0}

\* The lines are numbered in the order in which they were written.
Numbered ==
  /\ \A i, j \in DOMAIN rows : i < j => rows[i].id < rows[j].id
  /\ \A i \in DOMAIN rows : rows[i].id <= lines

IInv == TypeOK /\ rows \in Seq(Proper(kind)) /\ Numbered
-----------------------------------------------------------------------------
(* Lines.                                                                  *)

LEMMA Numbers ==
  /\ Kinds \subseteq {"distance", "hours", "tank", "water"}
  /\ \A k \in Kinds : Entries[k] \subseteq Int /\ Totals[k] \subseteq Int /\ MaxLines[k] \in Nat
  /\ Capacity \in Nat /\ Output \in Nat /\ MaxTotal \in Nat /\ MaxRows \in Nat
  /\ Places \subseteq Nat \ {0} /\ Garbage \subseteq Int
BY KindsAssumption, EntriesAssumption, BoundsAssumption

LEMMA FieldFacts ==
  ASSUME NEW l \in Line
  PROVE  /\ l.id \in Nat /\ l.entry \in Int /\ l.total \in Int /\ l.maker \in Int
         /\ l.blank \in BOOLEAN /\ l.sixty \in BOOLEAN /\ l.byHand \in BOOLEAN
         /\ l.pos \in Places \cup {Nowhere}
BY DEF Line

LEMMA ProperFacts ==
  ASSUME NEW k, NEW l \in Proper(k)
  PROVE  l \in Line /\ (k # "water" => l.maker = 0)
         /\ (k = "hours" => l.entry \in Nat \cup Entries["hours"])
BY DEF Proper

LEMMA SeqOfLines ==
  ASSUME NEW k, NEW rs \in Seq(Proper(k))
  PROVE  rs \in Seq(Line)
<1>1. Proper(k) \subseteq Line
  BY DEF Proper
<1>2. Len(rs) \in Nat /\ rs \in [1..Len(rs) -> Proper(k)]
  BY LenProperties
<1>3. rs \in [1..Len(rs) -> Line]
  BY <1>1, <1>2
<1> QED
  BY <1>2, <1>3, FcnIsSeq

\* The same line with another total
Carried(l, m) ==
  /\ m.id = l.id /\ m.entry = l.entry /\ m.blank = l.blank /\ m.sixty = l.sixty
  /\ m.maker = l.maker /\ m.pos = l.pos /\ m.byHand = l.byHand

LEMMA WithTotal ==
  ASSUME NEW k, NEW l \in Proper(k), NEW t \in Int
  PROVE  LET m == [l EXCEPT !.total = t] IN
         m \in Proper(k) /\ Carried(l, m) /\ m.total = t
<1> DEFINE m == [l EXCEPT !.total = t]
<1>1. l \in Line
  BY ProperFacts
<1>2. m \in Line
  BY <1>1 DEF Line
<1>3. Carried(l, m) /\ m.total = t
  BY <1>1 DEF Carried, Line
<1> HIDE DEF m
<1>4. m \in Proper(k)
  BY <1>2, <1>3, ProperFacts DEF Carried, Proper
<1> QED
  BY <1>3, <1>4 DEF m

LEMMA SameTotal ==
  ASSUME NEW l \in Line
  PROVE  [l EXCEPT !.total = l.total] = l
BY DEF Line

\* A line with another entry
LEMMA FilledFacts ==
  ASSUME NEW l \in Line, NEW v \in Int
  PROVE  LET m == Filled(l, v) IN
         /\ m \in Line /\ m.id = l.id /\ m.entry = v /\ m.total = l.total /\ m.maker = l.maker
         /\ m.blank = FALSE /\ m.byHand = FALSE /\ m.pos = l.pos
BY DEF Filled, Line

LEMMA HoursFacts ==
  ASSUME NEW l \in Line, NEW prev \in Int
  PROVE  LET m == HoursBetween(l, prev)
             d == l.total - prev
         IN /\ m \in Line /\ m.id = l.id /\ m.entry = (IF d > 0 THEN d ELSE 0)
            /\ m.total = l.total /\ m.maker = l.maker /\ m.blank = FALSE /\ m.byHand = FALSE
<1> DEFINE d == l.total - prev
           e == IF d > 0 THEN d ELSE 0
           f == Filled(l, e)
           x == <<prev, l.total>> \in Short
           m == HoursBetween(l, prev)
<1>1. d \in Int
  BY FieldFacts
<1>2. e \in Int
  <2> HIDE DEF d
  <2> QED
    BY <1>1
<1> HIDE DEF e
<1>3. /\ f \in Line /\ f.id = l.id /\ f.entry = e /\ f.total = l.total /\ f.maker = l.maker
      /\ f.blank = FALSE /\ f.byHand = FALSE
  BY <1>2, FilledFacts
<1>4. m = [f EXCEPT !.sixty = x]
  BY DEF HoursBetween, e
<1> HIDE DEF f, m
<1>5. x \in BOOLEAN
  OBVIOUS
<1> HIDE DEF x
<1>6. /\ m \in Line /\ m.id = f.id /\ m.entry = f.entry /\ m.total = f.total /\ m.maker = f.maker
      /\ m.blank = f.blank /\ m.byHand = f.byHand
  BY <1>3, <1>4, <1>5 DEF Line
<1> QED
  BY <1>3, <1>6 DEF m, e
-----------------------------------------------------------------------------
(* Amounts.                                                                *)

\* The amounts of the lines from row on
Amounts(rs, row, a) == \A i \in row..Len(rs) : a[i] \in Int

LEMMA WholeFacts ==
  ASSUME NEW rs \in Seq(Line), NEW row \in Nat \ {0}
  PROVE  Amounts(rs, row, Whole(rs, row))
         /\ \A i \in row..Len(rs) : Whole(rs, row)[i] = rs[i].entry
<1>1. \A i \in row..Len(rs) : rs[i] \in Line
  BY ListFacts
<1>2. \A i \in row..Len(rs) : rs[i].entry \in Int
  BY <1>1, FieldFacts
<1> QED
  BY <1>2 DEF Whole, Amounts

LEMMA ReadFacts ==
  ASSUME NEW rs \in Seq(Line), NEW row \in Nat \ {0}, NEW g \in Int
  PROVE  Amounts(rs, row, Read(rs, row, g))
         /\ \A i \in row..Len(rs) : ~rs[i].blank => Read(rs, row, g)[i] = rs[i].entry
<1> DEFINE n == Len(rs)
           step(x, i) == IF i < row THEN g ELSE IF ~rs[i].blank THEN rs[i].entry ELSE x
           h == [x \in Int \X (1..n) |-> step(x[1], x[2])]
           E(f) == [i \in row..n |-> IF ~rs[i].blank THEN rs[i].entry
                                     ELSE IF i = row THEN g ELSE f[i - 1]]
           t == CHOOSE f : f = E(f)
<1>1. n \in Nat /\ DOMAIN rs = 1..n /\ \A i \in 1..n : rs[i] \in Line
  BY ListFacts
<1>2. Read(rs, row, g) = t
  BY DEF Read
<1>3. \A x \in Int, i \in 1..n : step(x, i) \in Int
  <2> HIDE DEF n
  <2>1. \A i \in 1..n : rs[i].entry \in Int
    BY <1>1, FieldFacts
  <2> QED
    BY <2>1
<1> HIDE DEF n
<1>4. h \in [Int \X (1..n) -> Int]
  BY <1>3
<1>5. \A x \in Int, i \in 1..n : h[<<x, i>>] = step(x, i)
  OBVIOUS
<1> HIDE DEF h
<1>6. PICK f : Iterates(f, h, Int, g, n)
  <2>1. IsStep(h, Int, n)
    BY <1>4 DEF IsStep
  <2> QED
    BY <1>1, <2>1, Iteration
<1>7. /\ f[0] = g /\ \A i \in 0..n : f[i] \in Int
      /\ \A i \in 1..n : f[i] = step(f[i - 1], i)
  <2>1. ASSUME NEW i \in 1..n PROVE f[i] = step(f[i - 1], i)
    <3>1. i - 1 \in 0..n
      BY <1>1
    <3>2. f[i - 1] \in Int /\ f[i] = h[<<f[i - 1], i>>]
      BY <1>6, <3>1 DEF Iterates
    <3> HIDE DEF step
    <3> QED
      BY <1>5, <3>2
  <2>2. f[0] = g /\ \A i \in 0..n : f[i] \in Int
    BY <1>6 DEF Iterates
  <2> HIDE DEF step
  <2> QED
    BY <2>1, <2>2
<1> DEFINE k == [i \in row..n |-> f[i]]
<1>8. \A i \in row..n : k[i] \in Int
  BY <1>1, <1>7
<1>9. ASSUME NEW i \in row..n
      PROVE  f[i] = IF ~rs[i].blank THEN rs[i].entry ELSE IF i = row THEN g ELSE k[i - 1]
  <2>1. i \in 1..n
    BY <1>1
  <2>2. f[i] = IF ~rs[i].blank THEN rs[i].entry ELSE f[i - 1]
    BY <1>1, <1>7, <2>1
  <2>3. CASE i = row
    <3>1. f[i - 1] = g
      <4>1. CASE i = 1
        <5>1. i - 1 = 0
          BY <4>1
        <5> QED
          BY <1>7, <5>1
      <4>2. CASE i # 1
        <5>1. i - 1 \in 1..n /\ i - 1 < row
          BY <1>1, <2>1, <2>3, <4>2
        <5> QED
          BY <1>7, <5>1
      <4> QED
        BY <4>1, <4>2
    <3> QED
      BY <2>2, <2>3, <3>1
  <2>4. CASE i # row
    <3>1. i - 1 \in row..n
      BY <1>1, <2>4
    <3>2. k[i - 1] = f[i - 1]
      BY <3>1
    <3> QED
      BY <2>2, <2>4, <3>2
  <2> QED
    BY <2>3, <2>4
<1>10. k = E(k)
  BY <1>9
<1>11. t = E(t)
  <2> HIDE DEF k, E
  <2> QED
    BY <1>10
<1> HIDE DEF t
<1> DEFINE S == {i \in 0..n : i >= row => t[i] \in Int}
<1>12. \A i \in row..n : t[i] = IF ~rs[i].blank THEN rs[i].entry
                                ELSE IF i = row THEN g ELSE t[i - 1]
  BY <1>11
<1>13. 0 \in S
  BY <1>1
<1>14. ASSUME NEW i \in 1..n, i - 1 \in S PROVE i \in S
  <2> SUFFICES ASSUME i >= row PROVE t[i] \in Int
    BY <1>1
  <2>1. i \in row..n /\ rs[i].entry \in Int
    BY <1>1, FieldFacts
  <2>2. i # row => t[i - 1] \in Int
    BY <1>1, <1>14, <2>1
  <2> QED
    BY <1>12, <2>1, <2>2
<1>15. \A i \in row..n : t[i] \in Int
  <2> HIDE DEF S
  <2>1. \A i \in 0..n : i \in S
    BY <1>1, <1>13, <1>14, InductionTo
  <2> QED
    BY <1>1, <2>1 DEF S
<1> QED
  BY <1>2, <1>12, <1>15 DEF Amounts, n
-----------------------------------------------------------------------------
(* Totals.                                                                 *)

\* There is a function of the lines 1 to n that is what first says up to row, and
\* from there on goes on from line to line.
Runs(f, n, row, first, more) ==
  \A i \in 1..n : f[i] = IF i < row \/ i = 1 THEN first[i] ELSE f[i - 1] + more[i]

LEMMA Running ==
  ASSUME NEW n \in Nat, NEW row \in Nat \ {0}, NEW first, NEW more,
         \A i \in 1..n : i < row \/ i = 1 => first[i] \in Int,
         \A i \in 2..n : i >= row => more[i] \in Int
  PROVE  \E f \in [1..n -> Int] : Runs(f, n, row, first, more)
<1> DEFINE step(x, i) == IF i < row \/ i = 1 THEN first[i] ELSE x + more[i]
           h == [x \in Int \X (1..n) |-> step(x[1], x[2])]
<1>1. \A x \in Int, i \in 1..n : step(x, i) \in Int
  OBVIOUS
<1>2. h \in [Int \X (1..n) -> Int]
  BY <1>1
<1>3. \A x \in Int, i \in 1..n : h[<<x, i>>] = step(x, i)
  OBVIOUS
<1> HIDE DEF h
<1>4. PICK f : Iterates(f, h, Int, 0, n)
  <2>1. IsStep(h, Int, n) /\ 0 \in Int
    BY <1>2 DEF IsStep
  <2> QED
    BY <2>1, Iteration
<1>5. \A i \in 1..n : f[i] = step(f[i - 1], i)
  <2> SUFFICES ASSUME NEW i \in 1..n PROVE f[i] = step(f[i - 1], i)
    OBVIOUS
  <2>1. i - 1 \in 0..n
    OBVIOUS
  <2>2. f[i - 1] \in Int /\ f[i] = h[<<f[i - 1], i>>]
    BY <1>4, <2>1 DEF Iterates
  <2> HIDE DEF step
  <2> QED
    BY <1>3, <2>2
<1> DEFINE k == [i \in 1..n |-> f[i]]
<1>6. ASSUME NEW i \in 1..n
      PROVE  f[i] = IF i < row \/ i = 1 THEN first[i] ELSE k[i - 1] + more[i]
  <2>1. i # 1 => k[i - 1] = f[i - 1]
    OBVIOUS
  <2> HIDE DEF k
  <2> QED
    BY <1>5, <2>1
<1>7. k \in [1..n -> Int]
  BY <1>4 DEF Iterates
<1>8. Runs(k, n, row, first, more)
  <2> SUFFICES ASSUME NEW i \in 1..n
               PROVE  k[i] = IF i < row \/ i = 1 THEN first[i] ELSE k[i - 1] + more[i]
    BY DEF Runs
  <2>1. k[i] = f[i]
    OBVIOUS
  <2> HIDE DEF k
  <2> QED
    BY <1>6, <2>1
<1> QED
  BY <1>7, <1>8

LEMMA RunTypes ==
  ASSUME NEW n \in Nat, NEW row \in Nat \ {0}, NEW first, NEW more, NEW f,
         \A i \in 1..n : i < row \/ i = 1 => first[i] \in Int,
         \A i \in 2..n : i >= row => more[i] \in Int,
         Runs(f, n, row, first, more)
  PROVE  \A i \in 1..n : f[i] \in Int
<1> DEFINE S == {i \in 0..n : i = 0 \/ f[i] \in Int}
<1>1. 0 \in S
  OBVIOUS
<1>2. ASSUME NEW i \in 1..n, i - 1 \in S PROVE i \in S
  <2>1. f[i] = IF i < row \/ i = 1 THEN first[i] ELSE f[i - 1] + more[i]
    BY DEF Runs
  <2>2. CASE i < row \/ i = 1
    BY <2>1, <2>2
  <2>3. CASE ~(i < row \/ i = 1)
    <3>1. i \in 2..n /\ i >= row /\ i - 1 # 0
      BY <2>3
    <3>2. f[i - 1] \in Int /\ more[i] \in Int
      BY <1>2, <3>1
    <3>3. f[i] = f[i - 1] + more[i]
      BY <2>1, <2>3
    <3> QED
      BY <3>2, <3>3
  <2> QED
    BY <2>2, <2>3
<1> HIDE DEF S
<1>3. \A i \in 0..n : i \in S
  BY <1>1, <1>2, InductionTo
<1>4. \A i \in 1..n : i \in S /\ i # 0
  BY <1>3
<1> QED
  BY <1>4 DEF S

\* computeCell adds up from its row on and touches nothing but totals.
LEMMA ComputeFacts ==
  ASSUME NEW k, NEW rs \in Seq(Proper(k)), NEW row \in Nat \ {0}, NEW base \in Int,
         NEW amount, Amounts(rs, row, amount)
  PROVE  LET new == computeCell(rs, row, base, amount) IN
         /\ new \in Seq(Proper(k)) /\ Len(new) = Len(rs)
         /\ \A i \in DOMAIN rs : Carried(rs[i], new[i])
         /\ \A i \in DOMAIN rs : i < row => new[i] = rs[i]
         /\ \A i \in 2..Len(rs) : i >= row =>
              new[i].total = new[i - 1].total + amount[i] + rs[i].maker
<1> DEFINE n == Len(rs)
           E(f) == [i \in DOMAIN rs |->
                      IF i < row THEN rs[i].total
                      ELSE IF i = 1 THEN base ELSE f[i - 1] + amount[i] + rs[i].maker]
           tot == CHOOSE f : f = E(f)
           new == computeCell(rs, row, base, amount)
           first == [i \in 1..n |-> IF i < row THEN rs[i].total ELSE base]
           more == [i \in row..n |-> amount[i] + rs[i].maker]
<1>1. n \in Nat /\ DOMAIN rs = 1..n /\ \A i \in 1..n : rs[i] \in Proper(k)
  BY ListFacts
<1>2. \A i \in 1..n : rs[i] \in Line
  BY <1>1, ProperFacts
<1>3. \A i \in 1..n : rs[i].total \in Int /\ rs[i].maker \in Int
  BY <1>2, FieldFacts
<1>4. \A i \in row..n : amount[i] \in Int
  BY DEF Amounts
<1> HIDE DEF n
<1>5. /\ \A i \in 1..n : i < row \/ i = 1 => first[i] \in Int
      /\ \A i \in 2..n : i >= row => more[i] \in Int
  <2>1. \A i \in 1..n : first[i] \in Int
    BY <1>3
  <2>2. ASSUME NEW i \in 2..n, i >= row PROVE more[i] \in Int
    <3>1. i \in row..n /\ i \in 1..n
      BY <1>1, <2>2
    <3>2. amount[i] \in Int /\ rs[i].maker \in Int
      BY <1>3, <1>4, <3>1
    <3>3. amount[i] + rs[i].maker \in Int
      BY <3>2
    <3> QED
      BY <3>1, <3>3
  <2> QED
    BY <2>1, <2>2
<1>6. PICK sum \in [1..n -> Int] : Runs(sum, n, row, first, more)
  <2> HIDE DEF first, more
  <2> QED
    BY <1>1, <1>5, Running
<1>7. ASSUME NEW i \in 2..n, i >= row
      PROVE  sum[i] = sum[i - 1] + amount[i] + rs[i].maker
  <2>1. i \in row..n /\ i \in 1..n /\ i - 1 \in 1..n
    BY <1>1, <1>7
  <2>2. more[i] = amount[i] + rs[i].maker
    BY <2>1
  <2>3. sum[i - 1] \in Int /\ amount[i] \in Int /\ rs[i].maker \in Int
    BY <1>3, <1>4, <1>6, <2>1
  <2> HIDE DEF more, first
  <2>4. sum[i] = sum[i - 1] + more[i]
    <3>1. ~(i < row \/ i = 1)
      BY <1>1, <1>7
    <3> QED
      BY <1>6, <2>1, <3>1 DEF Runs
  <2> QED
    BY <2>2, <2>3, <2>4
<1>8. ASSUME NEW i \in 1..n
      PROVE  sum[i] = IF i < row THEN rs[i].total
                      ELSE IF i = 1 THEN base ELSE sum[i - 1] + amount[i] + rs[i].maker
  <2>1. CASE i < row
    BY <1>6, <2>1 DEF Runs
  <2>2. CASE ~(i < row) /\ i = 1
    <3>1. sum[i] = first[i] /\ first[i] = base
      BY <1>6, <2>2 DEF Runs
    <3> QED
      BY <2>2, <3>1
  <2>3. CASE ~(i < row) /\ i # 1
    <3>1. i \in 2..n /\ i >= row
      BY <1>1, <2>3
    <3>2. sum[i] = sum[i - 1] + amount[i] + rs[i].maker
      BY <1>7, <3>1
    <3> QED
      BY <2>3, <3>2
  <2> QED
    BY <2>1, <2>2, <2>3
<1>9. sum = E(sum)
  <2>1. sum = [i \in 1..n |-> sum[i]]
    BY <1>6
  <2> QED
    BY <1>1, <1>8, <2>1
<1>10. tot = E(tot)
  <2> HIDE DEF E
  <2> QED
    BY <1>9
<1>11. new = [i \in DOMAIN rs |-> [rs[i] EXCEPT !.total = tot[i]]]
  BY DEF computeCell
<1> HIDE DEF tot, new
<1>12. /\ \A i \in 1..n : i < row => tot[i] = rs[i].total
       /\ \A i \in 2..n : i >= row => tot[i] = tot[i - 1] + amount[i] + rs[i].maker
       /\ \A i \in 1..n : i = 1 /\ ~(i < row) => tot[i] = base
  <2>1. \A i \in 1..n : tot[i] = IF i < row THEN rs[i].total
                                 ELSE IF i = 1 THEN base ELSE tot[i - 1] + amount[i] + rs[i].maker
    BY <1>1, <1>10
  <2>2. ASSUME NEW i \in 2..n, i >= row PROVE tot[i] = tot[i - 1] + amount[i] + rs[i].maker
    <3>1. i \in 1..n /\ ~(i < row) /\ i # 1
      BY <1>1, <2>2
    <3> QED
      BY <2>1, <3>1
  <2> QED
    BY <2>1, <2>2
<1> DEFINE S == {i \in 0..n : i = 0 \/ tot[i] \in Int}
<1>13. 0 \in S
  BY <1>1
<1>14. ASSUME NEW i \in 1..n, i - 1 \in S PROVE i \in S
  <2>1. CASE i < row \/ i = 1
    BY <1>3, <1>12, <2>1
  <2>2. CASE ~(i < row \/ i = 1)
    <3>1. i \in 2..n /\ i >= row /\ i - 1 # 0 /\ i \in row..n
      BY <1>1, <2>2
    <3>2. tot[i - 1] \in Int /\ amount[i] \in Int /\ rs[i].maker \in Int
      BY <1>3, <1>4, <1>14, <3>1
    <3>3. tot[i] = tot[i - 1] + amount[i] + rs[i].maker
      BY <1>12, <3>1
    <3> QED
      BY <3>2, <3>3
  <2> QED
    BY <2>1, <2>2
<1>15. \A i \in 1..n : tot[i] \in Int
  <2> HIDE DEF S
  <2>1. \A i \in 0..n : i \in S
    BY <1>1, <1>13, <1>14, InductionTo
  <2>2. \A i \in 1..n : i \in S /\ i # 0
    BY <1>1, <2>1
  <2> QED
    BY <2>2 DEF S
<1>16. ASSUME NEW i \in 1..n
       PROVE  new[i] \in Proper(k) /\ Carried(rs[i], new[i]) /\ new[i].total = tot[i]
  <2> DEFINE t == tot[i]
             l == rs[i]
  <2>1. l \in Proper(k) /\ t \in Int /\ new[i] = [l EXCEPT !.total = t]
    BY <1>1, <1>11, <1>15
  <2> HIDE DEF t, l
  <2>2. new[i] \in Proper(k) /\ Carried(l, new[i]) /\ new[i].total = t
    BY <2>1, WithTotal
  <2> QED
    BY <2>2 DEF t, l
<1>17. new \in Seq(Proper(k)) /\ Len(new) = n
  <2>1. new \in [1..n -> Proper(k)]
    <3>1. DOMAIN new = 1..n /\ new = [i \in 1..n |-> new[i]]
      BY <1>1, <1>11
    <3> QED
      BY <1>16, <3>1
  <2> QED
    BY <1>1, <2>1, FcnIsSeq
<1>18. ASSUME NEW i \in 1..n, i < row PROVE new[i] = rs[i]
  <2>1. new[i] = [rs[i] EXCEPT !.total = tot[i]] /\ tot[i] = rs[i].total
    BY <1>1, <1>11, <1>12, <1>18
  <2>2. new[i] = [rs[i] EXCEPT !.total = rs[i].total]
    BY <2>1
  <2> QED
    BY <1>2, <2>2, SameTotal
<1>19. ASSUME NEW i \in 2..n, i >= row
       PROVE  new[i].total = new[i - 1].total + amount[i] + rs[i].maker
  <2>1. i \in 1..n /\ i - 1 \in 1..n
    BY <1>1
  <2> QED
    BY <1>12, <1>16, <1>19, <2>1
<1> QED
  BY <1>1, <1>16, <1>17, <1>18, <1>19 DEF n, new

LEMMA DistanceFacts ==
  ASSUME NEW p \in Places \cup {Nowhere}, NEW q \in Places \cup {Nowhere}
  PROVE  calculateDistance(p, q) \in Int
<1>1. p \in Int /\ q \in Int
  <2>1. Places \subseteq Nat
    BY BoundsAssumption
  <2> QED
    BY <2>1 DEF Nowhere
<1> QED
  BY <1>1 DEF calculateDistance, Nowhere

\* What a new position does to a line in its reach
Measured(l, m) ==
  /\ m.id = l.id /\ m.blank = l.blank /\ m.sixty = l.sixty
  /\ m.maker = l.maker /\ m.pos = l.pos /\ m.byHand = l.byHand

Remeasured(l, e, t) == [l EXCEPT !.entry = e, !.total = t]

LEMMA WithDistance ==
  ASSUME NEW l \in Proper("distance"), NEW e \in Int, NEW t \in Int
  PROVE  LET m == Remeasured(l, e, t) IN
         m \in Proper("distance") /\ Measured(l, m) /\ m.entry = e /\ m.total = t
<1> DEFINE m == Remeasured(l, e, t)
<1>1. l \in Line
  BY ProperFacts
<1>2. m \in Line
  BY <1>1 DEF Line, Remeasured
<1>3. Measured(l, m) /\ m.entry = e /\ m.total = t
  BY <1>1 DEF Measured, Line, Remeasured
<1> HIDE DEF m
<1>4. m \in Proper("distance")
  BY <1>2, <1>3, ProperFacts DEF Measured, Proper
<1> QED
  BY <1>3, <1>4 DEF m

\* The loop for positions adds up from its row on, down to a line above one
\* without a position, or to the last.
LEMMA PositionFacts ==
  ASSUME NEW rs \in Seq(Proper("distance")), NEW row \in 2..Len(rs)
  PROVE  LET new == recalculatePosition(rs, row) IN
         /\ new \in Seq(Proper("distance")) /\ Len(new) = Len(rs)
         /\ \A i \in DOMAIN rs : Measured(rs[i], new[i])
         /\ \A i \in DOMAIN rs : i < row => new[i] = rs[i]
         /\ \E stop \in row..Len(rs) :
              /\ stop = Len(rs) \/ rs[stop + 1].pos = Nowhere
              /\ \A i \in DOMAIN rs : i > stop => new[i] = rs[i]
              /\ \A i \in row..stop : new[i].total = new[i - 1].total + new[i].entry
<1> DEFINE n == Len(rs)
           T == {i \in row..n : i = n \/ rs[i + 1].pos = Nowhere}
           IsStop(i) == /\ i = n \/ rs[i + 1].pos = Nowhere
                        /\ \A j \in row..(i - 1) : rs[j + 1].pos # Nowhere
           stop == CHOOSE i \in row..n : IsStop(i)
           dist == [i \in row..stop |-> calculateDistance(rs[i - 1].pos, rs[i].pos)]
           E(f) == [i \in 1..stop |-> IF i < row THEN rs[i].total ELSE f[i - 1] + dist[i]]
           tot == CHOOSE f : f = E(f)
           first == [i \in 1..n |-> rs[i].total]
           new == recalculatePosition(rs, row)
<1>1. /\ n \in Nat /\ DOMAIN rs = 1..n /\ row \in 2..n
      /\ \A i \in 1..n : rs[i] \in Proper("distance") /\ rs[i] \in Line
  BY ListFacts, ProperFacts
<1>2. \A i \in 1..n : rs[i].total \in Int /\ rs[i].pos \in Places \cup {Nowhere}
  BY <1>1, FieldFacts
<1>3. new = [i \in DOMAIN rs |->
               IF i \in row..stop THEN [rs[i] EXCEPT !.entry = dist[i], !.total = tot[i]]
               ELSE rs[i]]
  BY DEF recalculatePosition
<1> HIDE DEF n, new
<1>4. stop \in row..n /\ IsStop(stop)
  <2>1. n \in T /\ T \subseteq Nat
    BY <1>1
  <2>2. PICK i \in T : \A j \in T : i <= j
    <3> HIDE DEF T
    <3> QED
      BY <2>1, LeastNat
  <2>3. i \in row..n /\ IsStop(i)
    <3> SUFFICES ASSUME NEW j \in row..(i - 1), rs[j + 1].pos = Nowhere PROVE FALSE
      BY <2>2
    <3>1. j \in T /\ j < i
      BY <1>1, <2>2
    <3> QED
      BY <1>1, <2>2, <3>1
  <2> HIDE DEF IsStop
  <2> QED
    BY <2>3
<1>5. stop = n \/ rs[stop + 1].pos = Nowhere
  BY <1>4
<1>6. stop \in Nat /\ stop <= n /\ stop >= row
  BY <1>1, <1>4
<1> HIDE DEF stop, IsStop
<1>7. \A i \in row..stop : dist[i] \in Int
  <2> SUFFICES ASSUME NEW i \in row..stop PROVE dist[i] \in Int
    OBVIOUS
  <2>1. i - 1 \in 1..n /\ i \in 1..n
    BY <1>1, <1>6
  <2>2. rs[i - 1].pos \in Places \cup {Nowhere} /\ rs[i].pos \in Places \cup {Nowhere}
    BY <1>2, <2>1
  <2> QED
    BY <2>2, DistanceFacts
<1>8. /\ \A i \in 1..stop : i < row \/ i = 1 => first[i] \in Int
      /\ \A i \in 2..stop : i >= row => dist[i] \in Int
  <2>1. \A i \in 1..stop : first[i] \in Int
    BY <1>1, <1>2, <1>6
  <2>2. ASSUME NEW i \in 2..stop, i >= row PROVE dist[i] \in Int
    <3>1. i \in row..stop
      BY <1>1, <1>6, <2>2
    <3> HIDE DEF dist
    <3> QED
      BY <1>7, <3>1
  <2> QED
    BY <2>1, <2>2
<1> HIDE DEF dist
<1>9. PICK f \in [1..stop -> Int] : Runs(f, stop, row, first, dist)
  <2>1. stop \in Nat /\ row \in Nat \ {0}
    BY <1>1, <1>6
  <2>2. /\ \A i \in 1..stop : i < row \/ i = 1 => first[i] \in Int
        /\ \A i \in 2..stop : i >= row => dist[i] \in Int
    BY <1>8
  <2> HIDE DEF first, E, tot
  <2> QED
    BY <2>1, <2>2, Running
<1>10. \A g : Runs(g, stop, row, first, dist) <=>
              \A i \in 1..stop : g[i] = IF i < row THEN rs[i].total ELSE g[i - 1] + dist[i]
  <2> SUFFICES ASSUME NEW g, NEW i \in 1..stop
               PROVE  (g[i] = IF i < row \/ i = 1 THEN first[i] ELSE g[i - 1] + dist[i]) <=>
                      (g[i] = IF i < row THEN rs[i].total ELSE g[i - 1] + dist[i])
    BY DEF Runs
  <2>1. i \in 1..n /\ (i = 1 => i < row)
    BY <1>1, <1>6
  <2>2. first[i] = rs[i].total
    BY <2>1
  <2> HIDE DEF first
  <2> QED
    BY <2>1, <2>2
<1> HIDE DEF first
<1>11. f = E(f)
  <2>1. \A i \in 1..stop : f[i] = IF i < row THEN rs[i].total ELSE f[i - 1] + dist[i]
    BY <1>9, <1>10
  <2>2. f = [i \in 1..stop |-> f[i]]
    BY <1>9
  <2> QED
    BY <2>1, <2>2
<1>12. tot = E(tot)
  <2> HIDE DEF E
  <2> QED
    BY <1>11
<1> HIDE DEF tot
<1>13. \A i \in 1..stop : tot[i] = IF i < row THEN rs[i].total ELSE tot[i - 1] + dist[i]
  BY <1>12
<1>14. \A i \in 1..stop : tot[i] \in Int
  <2>1. Runs(tot, stop, row, first, dist)
    BY <1>10, <1>13
  <2> QED
    BY <1>1, <1>6, <1>8, <2>1, RunTypes
<1>15. ASSUME NEW i \in row..stop
       PROVE  /\ new[i] \in Proper("distance") /\ Measured(rs[i], new[i])
              /\ new[i].entry = dist[i] /\ new[i].total = tot[i]
  <2> DEFINE l == rs[i]
             e == dist[i]
             t == tot[i]
  <2>1. i \in 1..n /\ i \in 1..stop
    BY <1>1, <1>6
  <2>2. l \in Proper("distance") /\ e \in Int /\ t \in Int
    BY <1>1, <1>7, <1>14, <2>1
  <2>3. new[i] = Remeasured(l, e, t)
    BY <1>1, <1>3, <2>1 DEF Remeasured
  <2> HIDE DEF l, e, t
  <2>4. LET m == Remeasured(l, e, t) IN
        m \in Proper("distance") /\ Measured(l, m) /\ m.entry = e /\ m.total = t
    BY <2>2, WithDistance
  <2> QED
    BY <2>3, <2>4 DEF l, e, t
<1>16. \A i \in 1..n : i \notin row..stop => new[i] = rs[i]
  BY <1>1, <1>3
<1>17. \A i \in 1..n : new[i] \in Proper("distance") /\ Measured(rs[i], new[i])
  BY <1>1, <1>15, <1>16 DEF Measured
<1>18. new \in Seq(Proper("distance")) /\ Len(new) = n
  <2>1. new = [i \in 1..n |-> new[i]]
    BY <1>1, <1>3
  <2>2. new \in [1..n -> Proper("distance")]
    BY <1>17, <2>1
  <2> QED
    BY <1>1, <2>2, FcnIsSeq
<1>19. ASSUME NEW i \in row..stop PROVE new[i].total = new[i - 1].total + new[i].entry
  <2>1. i \in 1..stop /\ i - 1 \in 1..stop /\ i - 1 \in 1..n /\ ~(i < row)
    BY <1>1, <1>6
  <2>2. tot[i] = tot[i - 1] + dist[i]
    BY <1>13, <2>1
  <2>3. new[i - 1].total = tot[i - 1]
    <3>1. CASE i - 1 < row
      <4>1. i - 1 \notin row..stop
        BY <1>1, <2>1, <3>1
      <4>2. new[i - 1] = rs[i - 1] /\ tot[i - 1] = rs[i - 1].total
        BY <1>13, <1>16, <2>1, <3>1, <4>1
      <4> QED
        BY <4>2
    <3>2. CASE ~(i - 1 < row)
      <4>1. i - 1 \in row..stop
        BY <1>1, <2>1, <3>2
      <4> QED
        BY <1>15, <4>1
    <3> QED
      BY <3>1, <3>2
  <2> QED
    BY <1>15, <2>2, <2>3
<1>20. \A i \in 1..n : (i < row \/ i > stop) => new[i] = rs[i]
  BY <1>1, <1>6, <1>16
<1> QED
  BY <1>1, <1>4, <1>5, <1>17, <1>18, <1>19, <1>20 DEF n, new
-----------------------------------------------------------------------------
(* What deleteRows leaves.                                                 *)

Ascending(rs) == \A i, j \in DOMAIN rs : i < j => rs[i].id < rs[j].id

\* q: what is left of the first m lines of rs without those of D, f being the
\* first of D
Kept(q, rs, D, f, m) ==
  /\ Ascending(q)
  /\ IF m < f THEN Len(q) = m ELSE f - 1 <= Len(q) /\ Len(q) < m
  /\ \A i \in DOMAIN q : \E j \in 1..m : j \notin D /\ q[i] = rs[j]
  /\ \A i \in DOMAIN q : i < f => q[i] = rs[i]

LEMMA KeptFacts ==
  ASSUME NEW k, NEW rs \in Seq(Proper(k)), Ascending(rs), NEW D, D \subseteq DOMAIN rs,
         NEW f \in D, \A d \in D : f <= d
  PROVE  without(rs, D) \in Seq(Proper(k)) /\ Kept(without(rs, D), rs, D, f, Len(rs))
<1> DEFINE n == Len(rs)
           S == Proper(k)
           step(q, i) == IF i \in D THEN q ELSE Append(q, rs[i])
           h == [x \in Seq(S) \X (1..n) |-> step(x[1], x[2])]
           E(g) == [i \in 0..n |-> IF i = 0 THEN <<>> ELSE step(g[i - 1], i)]
           kept == CHOOSE g : g = E(g)
<1>1. n \in Nat /\ DOMAIN rs = 1..n /\ \A i \in 1..n : rs[i] \in S
  BY ListFacts
<1>2. <<>> \in Seq(S) /\ DOMAIN (<<>>) = {} /\ Len(<<>>) = 0
  OBVIOUS
<1>3. without(rs, D) = kept[n]
  BY DEF without
<1>ids. \A i \in 1..n : rs[i].id \in Nat
  BY <1>1, ProperFacts, FieldFacts
<1>f. f \in 1..n
  BY <1>1
<1> HIDE DEF S
<1>4. \A q \in Seq(S), i \in 1..n : step(q, i) \in Seq(S)
  BY <1>1, AppendFacts
<1> HIDE DEF n
<1>5. h \in [Seq(S) \X (1..n) -> Seq(S)]
  BY <1>4
<1>6. \A q \in Seq(S), i \in 1..n : h[<<q, i>>] = step(q, i)
  OBVIOUS
<1> HIDE DEF h
<1>7. PICK g : Iterates(g, h, Seq(S), <<>>, n)
  <2>1. IsStep(h, Seq(S), n)
    BY <1>5 DEF IsStep
  <2> QED
    BY <1>1, <1>2, <2>1, Iteration
<1>8. g = E(g)
  <2>1. ASSUME NEW i \in 0..n
        PROVE  g[i] = IF i = 0 THEN <<>> ELSE step(g[i - 1], i)
    <3>1. CASE i = 0
      BY <1>7, <3>1 DEF Iterates
    <3>2. CASE i # 0
      <4>1. i \in 1..n /\ i - 1 \in 0..n
        BY <1>1, <3>2
      <4>2. g[i - 1] \in Seq(S) /\ g[i] = h[<<g[i - 1], i>>]
        BY <1>7, <4>1 DEF Iterates
      <4> QED
        BY <1>6, <3>2, <4>1, <4>2
    <3> QED
      BY <3>1, <3>2
  <2> HIDE DEF step
  <2> QED
    BY <1>7, <2>1 DEF Iterates
<1>9. kept = E(kept)
  BY <1>8
<1> HIDE DEF kept
<1>10. /\ kept[0] = <<>>
       /\ \A i \in 1..n : kept[i] = step(kept[i - 1], i)
  <2> HIDE DEF step
  <2> QED
    BY <1>1, <1>9
<1> DEFINE M == {i \in 0..n : kept[i] \in Seq(S) /\ Kept(kept[i], rs, D, f, i)}
<1>11. 0 \in M
  <2>1. 0 \in 0..n /\ kept[0] \in Seq(S) /\ DOMAIN kept[0] = {} /\ Len(kept[0]) = 0
    BY <1>1, <1>2, <1>10
  <2>2. Kept(kept[0], rs, D, f, 0)
    BY <1>f, <2>1 DEF Kept, Ascending
  <2> QED
    BY <2>1, <2>2
<1>12. ASSUME NEW i \in 1..n, i - 1 \in M PROVE i \in M
  <2> DEFINE q == kept[i - 1]
             p == kept[i]
             c == Len(q)
  <2>1. q \in Seq(S) /\ Kept(q, rs, D, f, i - 1) /\ p = step(q, i)
    BY <1>10, <1>12
  <2>2. i \in 0..n /\ rs[i] \in S /\ c \in Nat /\ DOMAIN q = 1..c
    BY <1>1, <2>1, ListFacts
  <2> HIDE DEF q, p
  <2>3. /\ Ascending(q)
        /\ IF i - 1 < f THEN c = i - 1 ELSE f - 1 <= c /\ c < i - 1
        /\ \A j \in 1..c : \E x \in 1..(i - 1) : x \notin D /\ q[j] = rs[x]
        /\ \A j \in 1..c : j < f => q[j] = rs[j]
    BY <2>1, <2>2 DEF Kept
  <2>4. p \in Seq(S) /\ Kept(p, rs, D, f, i)
    <3>1. CASE i \in D
      <4>1. p = q /\ f <= i
        BY <2>1, <3>1
      <4>2. \A j \in 1..c : \E x \in 1..i : x \notin D /\ q[j] = rs[x]
        <5>1. 1..(i - 1) \subseteq 1..i
          OBVIOUS
        <5> QED
          BY <2>3, <5>1
      <4>3. IF i < f THEN c = i ELSE f - 1 <= c /\ c < i
        <5>1. /\ f \in Nat /\ i \in Nat /\ c \in Nat /\ f <= i
              /\ IF i - 1 < f THEN c = i - 1 ELSE f - 1 <= c /\ c < i - 1
          BY <1>1, <1>f, <2>2, <2>3, <4>1
        <5> HIDE DEF c
        <5> QED
          BY <5>1
      <4>4. Kept(q, rs, D, f, i)
        BY <1>f, <2>2, <2>3, <4>1, <4>2, <4>3 DEF Kept
      <4> QED
        BY <2>1, <4>1, <4>4
    <3>2. CASE i \notin D
      <4>1. p = Append(q, rs[i])
        BY <2>1, <3>2
      <4>2. /\ p \in Seq(S) /\ DOMAIN p = 1..(c + 1) /\ Len(p) = c + 1
            /\ \A j \in 1..c : p[j] = q[j]
            /\ p[c + 1] = rs[i]
        BY <2>1, <2>2, <4>1, AppendFacts
      <4> HIDE DEF c
      <4>3. \A j \in 1..(c + 1) : j \in 1..c \/ j = c + 1
        BY <2>2
      <4>4. \A j \in 1..(c + 1) : \E x \in 1..i : x \notin D /\ p[j] = rs[x]
        <5>1. 1..(i - 1) \subseteq 1..i /\ i \in 1..i
          OBVIOUS
        <5> QED
          BY <2>3, <3>2, <4>2, <4>3, <5>1
      <4>5. \A j \in 1..c : q[j].id < rs[i].id
        <5> SUFFICES ASSUME NEW j \in 1..c PROVE q[j].id < rs[i].id
          OBVIOUS
        <5>1. PICK x \in 1..(i - 1) : q[j] = rs[x]
          BY <2>3
        <5>2. x \in 1..n /\ x < i
          BY <1>1
        <5> QED
          BY <1>1, <5>1, <5>2 DEF Ascending
      <4>6. Ascending(p)
        <5> SUFFICES ASSUME NEW a \in 1..(c + 1), NEW b \in 1..(c + 1), a < b
                     PROVE  p[a].id < p[b].id
          BY <4>2 DEF Ascending
        <5>1. a \in 1..c
          BY <2>2
        <5>2. CASE b \in 1..c
          BY <2>2, <2>3, <4>2, <5>1, <5>2 DEF Ascending
        <5>3. CASE b = c + 1
          BY <4>2, <4>5, <5>1, <5>3
        <5> QED
          BY <4>3, <5>2, <5>3
      <4>7. \A j \in 1..(c + 1) : j < f => p[j] = rs[j]
        <5> SUFFICES ASSUME NEW j \in 1..(c + 1), j < f PROVE p[j] = rs[j]
          OBVIOUS
        <5>1. CASE j \in 1..c
          BY <2>3, <4>2, <5>1
        <5>2. CASE j = c + 1
          <6>1. c = i - 1
            BY <1>f, <2>2, <2>3, <5>2
          <6>2. j = i
            BY <2>2, <5>2, <6>1
          <6> QED
            BY <4>2, <5>2, <6>2
        <5> QED
          BY <4>3, <5>1, <5>2
      <4>8. i # f
        BY <3>2
      <4>9. IF i < f THEN c + 1 = i ELSE f - 1 <= c + 1 /\ c + 1 < i
        BY <1>f, <2>2, <2>3, <4>8
      <4> QED
        BY <4>2, <4>4, <4>6, <4>7, <4>9 DEF Kept
    <3> QED
      BY <3>1, <3>2
  <2> QED
    BY <2>2, <2>4 DEF p
<1> HIDE DEF M
<1>13. \A i \in 0..n : i \in M
  BY <1>1, <1>11, <1>12, InductionTo
<1>14. n \in M
  BY <1>1, <1>13
<1> QED
  BY <1>3, <1>14 DEF M, S, n

\* From the first deleted line on, what is left stood below it.
LEMMA GapFacts ==
  ASSUME NEW k, NEW rs \in Seq(Proper(k)), Ascending(rs), NEW D, D \subseteq DOMAIN rs,
         NEW f \in D, \A d \in D : f <= d
  PROVE  LET q == without(rs, D) IN
         /\ q \in Seq(Proper(k)) /\ Ascending(q) /\ Len(q) < Len(rs) /\ f - 1 <= Len(q)
         /\ \A i \in 1..Len(q) : i < f => q[i] = rs[i]
         /\ \A i \in 1..Len(q) : \E j \in 1..Len(rs) : q[i] = rs[j]
         /\ \A i \in 1..Len(q) : i >= f => q[i].id # rs[f].id
<1> DEFINE q == without(rs, D)
           n == Len(rs)
           c == Len(q)
<1>1. q \in Seq(Proper(k)) /\ Kept(q, rs, D, f, n)
  BY KeptFacts
<1> HIDE DEF q
<1>2. /\ n \in Nat /\ DOMAIN rs = 1..n /\ f \in 1..n
      /\ c \in Nat /\ DOMAIN q = 1..c
  BY <1>1, ListFacts
<1>3. \A i \in 1..n : rs[i].id \in Nat
  BY <1>2, ListFacts, ProperFacts, FieldFacts
<1> HIDE DEF n, c
<1>4. /\ Ascending(q) /\ (IF n < f THEN c = n ELSE f - 1 <= c /\ c < n)
      /\ \A i \in 1..c : \E j \in 1..n : j \notin D /\ q[i] = rs[j]
      /\ \A i \in 1..c : i < f => q[i] = rs[i]
  BY <1>1, <1>2 DEF Kept, c
<1>5. f - 1 <= c /\ c < n
  BY <1>2, <1>4
<1>6. \A i \in 1..c : \E j \in 1..n : q[i] = rs[j]
  BY <1>4
<1>7. ASSUME NEW i \in 1..c, i >= f PROVE q[i].id # rs[f].id
  <2>1. PICK j \in 1..n : j \notin D /\ q[i] = rs[j]
    BY <1>4
  <2>2. j # f
    BY <2>1
  <2> QED
    BY <1>2, <1>3, <2>1, <2>2 DEF Ascending
<1> QED
  BY <1>1, <1>4, <1>5, <1>6, <1>7 DEF n, c, q
-----------------------------------------------------------------------------
(* Grids computed anew.                                                    *)

\* new is rs with the totals from row on computed again, as far as the lines
\* are not blank.
Totalled(rs, new, row, k) ==
  /\ new \in Seq(Proper(k)) /\ Len(new) = Len(rs)
  /\ \A i \in 1..Len(rs) : Carried(rs[i], new[i]) /\ (i < row => new[i] = rs[i])
  /\ \A i \in 2..Len(rs) : i >= row => new[i].blank \/ Linked(new, i)

LEMMA AmountsAddUp ==
  ASSUME NEW k, NEW rs \in Seq(Proper(k)), NEW row \in Nat \ {0}, NEW base \in Int,
         NEW amount, Amounts(rs, row, amount),
         \A i \in row..Len(rs) : rs[i].blank \/ amount[i] = rs[i].entry
  PROVE  Totalled(rs, computeCell(rs, row, base, amount), row, k)
<1> DEFINE new == computeCell(rs, row, base, amount)
           n == Len(rs)
<1>1. n \in Nat /\ DOMAIN rs = 1..n
  BY ListFacts
<1>2. /\ new \in Seq(Proper(k)) /\ Len(new) = n
      /\ \A i \in 1..n : Carried(rs[i], new[i])
      /\ \A i \in 1..n : i < row => new[i] = rs[i]
      /\ \A i \in 2..n : i >= row =>
           new[i].total = new[i - 1].total + amount[i] + rs[i].maker
  <2>1. /\ new \in Seq(Proper(k)) /\ Len(new) = Len(rs)
        /\ \A i \in DOMAIN rs : Carried(rs[i], new[i])
        /\ \A i \in DOMAIN rs : i < row => new[i] = rs[i]
        /\ \A i \in 2..Len(rs) : i >= row =>
             new[i].total = new[i - 1].total + amount[i] + rs[i].maker
    BY ComputeFacts
  <2> HIDE DEF new
  <2> QED
    BY <1>1, <2>1, Zenon
<1> HIDE DEF n, new
<1>3. \A i \in row..n : rs[i].blank \/ amount[i] = rs[i].entry
  BY DEF n
<1>4. ASSUME NEW i \in 2..n, i >= row PROVE new[i].blank \/ Linked(new, i)
  <2>1. i \in 1..n /\ i \in row..n
    BY <1>1, <1>4
  <2>2. new[i].entry = rs[i].entry /\ new[i].maker = rs[i].maker /\ new[i].blank = rs[i].blank
    BY <1>2, <2>1 DEF Carried
  <2>3. CASE rs[i].blank
    BY <2>2, <2>3
  <2>4. CASE amount[i] = rs[i].entry
    BY <1>2, <1>4, <2>2, <2>4 DEF Linked
  <2> QED
    BY <1>3, <2>1, <2>3, <2>4
<1>5. Totalled(rs, new, row, k)
  BY <1>2, <1>4 DEF Totalled, n
<1> QED
  BY <1>5 DEF new

LEMMA ReadAddsUp ==
  ASSUME NEW k, NEW rs \in Seq(Proper(k)), NEW row \in Nat \ {0}, NEW base \in Int,
         NEW g \in Int
  PROVE  Totalled(rs, computeCell(rs, row, base, Read(rs, row, g)), row, k)
<1>1. rs \in Seq(Line)
  BY SeqOfLines
<1>2. /\ Amounts(rs, row, Read(rs, row, g))
      /\ \A i \in row..Len(rs) : ~rs[i].blank => Read(rs, row, g)[i] = rs[i].entry
  BY <1>1, ReadFacts
<1> QED
  BY <1>2, AmountsAddUp

LEMMA WholeAddsUp ==
  ASSUME NEW k, NEW rs \in Seq(Proper(k)), NEW row \in Nat \ {0}, NEW base \in Int
  PROVE  Totalled(rs, computeCell(rs, row, base, Whole(rs, row)), row, k)
<1>1. rs \in Seq(Line)
  BY SeqOfLines
<1>2. /\ Amounts(rs, row, Whole(rs, row))
      /\ \A i \in row..Len(rs) : Whole(rs, row)[i] = rs[i].entry
  BY <1>1, WholeFacts
<1> QED
  BY <1>2, AmountsAddUp
-----------------------------------------------------------------------------
(* Steps that leave the lines where they are.                              *)

\* What TotalsAddUp says of line i
AddsUp(i) ==
  \/ Linked(rows', i)
  \/ rows'[i].blank \/ rows'[i].byHand
  \/ \E j \in 2..Len(rows) : rows[j].id = rows'[i].id /\ ~Linked(rows, j)
  \/ GapLeft \/ StopsAbove(i)

Sums == \A i \in 2..Len(rows') : AddsUp(i)

\* What DeletionKeepsEntries says of a step
Keeps ==
  Deleted =>
    \A i \in DOMAIN rows', j \in DOMAIN rows :
      rows'[i].id = rows[j].id =>
        /\ rows'[i].entry = rows[j].entry \/ kind = "distance" \/ rows[j].sixty
        /\ i = 1 => rows'[i].total = rows[j].total

LEMMA Before ==
  ASSUME IInv
  PROVE  /\ kind \in Kinds /\ lines \in Nat /\ crashed \in BOOLEAN
         /\ rows \in Seq(Proper(kind)) /\ rows \in Seq(Line)
         /\ Len(rows) \in Nat /\ DOMAIN rows = 1..Len(rows)
         /\ \A i \in 1..Len(rows) : rows[i] \in Proper(kind) /\ rows[i] \in Line
         /\ Ascending(rows) /\ \A i \in 1..Len(rows) : rows[i].id <= lines
<1>1. /\ kind \in Kinds /\ lines \in Nat /\ crashed \in BOOLEAN
      /\ rows \in Seq(Proper(kind)) /\ rows \in Seq(Line)
      /\ Ascending(rows) /\ \A i \in DOMAIN rows : rows[i].id <= lines
  BY DEF IInv, TypeOK, Numbered, Ascending
<1>2. /\ Len(rows) \in Nat /\ DOMAIN rows = 1..Len(rows)
      /\ \A i \in 1..Len(rows) : rows[i] \in Proper(kind)
  BY <1>1, ListFacts
<1> QED
  BY <1>1, <1>2, ProperFacts

LEMMA NoneDeleted ==
  ASSUME IInv, Len(rows') = Len(rows) \/ lines' = lines + 1
  PROVE  Keeps
<1>1. Len(rows) \in Nat /\ lines \in Nat
  BY Before
<1>2. ~Deleted
  BY <1>1 DEF Deleted
<1> QED
  BY <1>2 DEF Keeps

LEMMA Untouched ==
  ASSUME IInv, NEW i \in 2..Len(rows), rows'[i] = rows[i],
         rows'[i - 1].total = rows[i - 1].total
  PROVE  AddsUp(i)
<1>1. CASE Linked(rows, i)
  BY <1>1 DEF Linked, AddsUp
<1>2. CASE ~Linked(rows, i)
  BY <1>2 DEF AddsUp
<1> QED
  BY <1>1, <1>2

LEMMA EditedInv ==
  ASSUME IInv, kind' = kind, lines' = lines, crashed' \in BOOLEAN,
         rows' \in Seq(Proper(kind)), Len(rows') = Len(rows),
         \A i \in 1..Len(rows) : rows'[i].id = rows[i].id
  PROVE  IInv'
<1>1. /\ DOMAIN rows' = 1..Len(rows) /\ \A i \in 1..Len(rows) : rows'[i] \in Proper(kind)
  BY ListFacts
<1>2. rows' \in Seq(Line)
  BY SeqOfLines
<1>3. Numbered'
  BY <1>1, Before DEF Numbered, Ascending
<1>4. TypeOK'
  <2>1. kind = "hours" => \A i \in DOMAIN rows' : rows'[i].entry \in Nat \cup Entries["hours"]
    BY <1>1, ProperFacts
  <2> QED
    BY <1>2, <2>1 DEF IInv, TypeOK
<1> QED
  BY <1>3, <1>4 DEF IInv

LEMMA Nothing ==
  ASSUME IInv, rows' = rows, kind' = kind, lines' = lines, crashed' \in BOOLEAN
  PROVE  IInv' /\ Sums /\ Keeps
<1>1. IInv'
  BY Before, EditedInv
<1>2. Sums
  BY Untouched DEF Sums
<1> QED
  BY <1>1, <1>2, NoneDeleted

\* Line r is edited and the totals from there on are computed again, or from
\* the line below it on.
LEMMA TotalledStep ==
  ASSUME IInv, kind' = kind, lines' = lines, crashed' \in BOOLEAN,
         NEW r \in 1..Len(rows), NEW row \in {r, r + 1},
         NEW rs \in Seq(Proper(kind)), Len(rs) = Len(rows),
         rs[r].id = rows[r].id, \A i \in 1..Len(rows) : i # r => rs[i] = rows[i],
         row = r \/ r = 1 \/ rs[r].byHand \/ Linked(rs, r),
         Totalled(rs, rows', row, kind)
  PROVE  IInv' /\ Sums /\ Keeps
<1> DEFINE n == Len(rows)
<1>1. /\ rows' \in Seq(Proper(kind)) /\ Len(rows') = n /\ n \in Nat
      /\ \A i \in 1..n : Carried(rs[i], rows'[i]) /\ (i < row => rows'[i] = rs[i])
      /\ \A i \in 2..n : i >= row => rows'[i].blank \/ Linked(rows', i)
  BY Before DEF Totalled
<1>2. \A i \in 1..n : rows'[i].id = rows[i].id
  BY <1>1 DEF Carried
<1>3. IInv'
  BY <1>1, <1>2, EditedInv
<1> HIDE DEF n
<1>4. r \in 1..n /\ row \in {r, r + 1} /\ \A i \in 1..n : i # r => rs[i] = rows[i]
  BY DEF n
<1>5. ASSUME NEW i \in 2..n PROVE AddsUp(i)
  <2>1. i \in 1..n /\ i - 1 \in 1..n
    BY <1>1
  <2>2. CASE i >= row
    BY <1>1, <2>2 DEF AddsUp
  <2>3. CASE i < row /\ i < r
    <3>1. rows'[i] = rows[i]
      BY <1>1, <1>4, <2>1, <2>3
    <3>2. rows'[i - 1] = rows[i - 1]
      <4>1. i - 1 < row /\ i - 1 # r
        BY <1>1, <1>4, <2>3
      <4> QED
        BY <1>1, <1>4, <2>1, <4>1
    <3> QED
      BY <3>1, <3>2, Untouched DEF n
  <2>4. CASE i < row /\ i = r
    <3>1. row # r /\ r # 1
      BY <1>1, <1>4, <2>4
    <3>2. rows'[i] = rs[i] /\ rows'[i - 1] = rs[i - 1]
      BY <1>1, <1>4, <2>1, <2>4
    <3>3. CASE rs[r].byHand
      BY <2>4, <3>2, <3>3 DEF AddsUp
    <3>4. CASE Linked(rs, r)
      BY <2>4, <3>2, <3>4 DEF AddsUp, Linked
    <3> QED
      BY <3>1, <3>3, <3>4
  <2> QED
    BY <1>1, <1>4, <2>2, <2>3, <2>4
<1>6. Sums
  BY <1>1, <1>5 DEF Sums
<1>7. Keeps
  BY <1>1, NoneDeleted DEF n
<1> QED
  BY <1>3, <1>6, <1>7
LEMMA StoreFacts ==
  ASSUME NEW rs, NEW from, crashed \in BOOLEAN, Store(rs, from)
  PROVE  crashed' \in BOOLEAN /\ (rows' = rows \/ rows' = rs)
BY DEF Store

LEMMA FilledProper ==
  ASSUME NEW k, NEW l \in Proper(k), NEW v \in Int, k = "hours" => v \in Nat \cup Entries["hours"]
  PROVE  Filled(l, v) \in Proper(k) /\ Filled(l, v).id = l.id
<1> DEFINE m == Filled(l, v)
<1>1. m \in Line /\ m.id = l.id /\ m.entry = v /\ m.maker = l.maker
  BY ProperFacts, FilledFacts
<1> HIDE DEF m
<1>2. m \in Proper(k)
  BY <1>1, ProperFacts DEF Proper
<1> QED
  BY <1>1, <1>2 DEF m

\* A grid whose line r is replaced by l
LEMMA OneLine ==
  ASSUME IInv, NEW r \in 1..Len(rows), NEW l \in Proper(kind), l.id = rows[r].id
  PROVE  LET rs == [rows EXCEPT ![r] = l] IN
         /\ rs \in Seq(Proper(kind)) /\ Len(rs) = Len(rows) /\ rs[r] = l
         /\ rs[r].id = rows[r].id /\ \A i \in 1..Len(rows) : i # r => rs[i] = rows[i]
<1> DEFINE rs == [rows EXCEPT ![r] = l]
<1>1. rows \in Seq(Proper(kind)) /\ DOMAIN rows = 1..Len(rows) /\ r \in DOMAIN rows
  BY Before
<1>2. /\ rs \in Seq(Proper(kind)) /\ DOMAIN rs = DOMAIN rows
      /\ \A j \in DOMAIN rows : rs[j] = IF j = r THEN l ELSE rows[j]
  BY <1>1, ExceptFacts
<1> HIDE DEF rs
<1>3. Len(rs) = Len(rows)
  BY <1>1, <1>2, LenProperties
<1>4. rs[r] = l /\ \A i \in 1..Len(rows) : i # r => rs[i] = rows[i]
  BY <1>1, <1>2
<1> QED
  BY <1>2, <1>3, <1>4 DEF rs

LEMMA EditEntryStep ==
  ASSUME IInv, NEW r \in DOMAIN rows, NEW v \in Entries[kind], EditEntry(r, v)
  PROVE  IInv' /\ Sums /\ Keeps
<1> DEFINE l == Filled(rows[r], v)
           rs == [rows EXCEPT ![r] = l]
           b == firstTotal(v)
           new == computeCell(rs, r, b, Read(rs, r, 0))
<1>1. r \in 1..Len(rows) /\ rows[r] \in Proper(kind) /\ v \in Int /\ crashed \in BOOLEAN
  BY Before, Numbers
<1>2. l \in Proper(kind) /\ l.id = rows[r].id
  <2>1. kind = "hours" => v \in Nat \cup Entries["hours"]
    OBVIOUS
  <2> QED
    BY <1>1, <2>1, FilledProper
<1>3. Store(new, r) /\ kind' = kind /\ lines' = lines
  BY DEF EditEntry
<1>4. b \in Int
  <2>1. rows[1] \in Line
    BY <1>1, Before
  <2>2. rows[1].total \in Int
    BY <2>1, FieldFacts
  <2> QED
    BY <1>1, <2>2 DEF firstTotal
<1> HIDE DEF l, b
<1>5. /\ rs \in Seq(Proper(kind)) /\ Len(rs) = Len(rows) /\ rs[r].id = rows[r].id
      /\ \A i \in 1..Len(rows) : i # r => rs[i] = rows[i]
  BY <1>1, <1>2, OneLine
<1> HIDE DEF rs
<1>6. Totalled(rs, new, r, kind)
  BY <1>1, <1>4, <1>5, ReadAddsUp
<1> HIDE DEF new
<1>7. crashed' \in BOOLEAN /\ (rows' = rows \/ rows' = new)
  BY <1>1, <1>3, StoreFacts
<1>8. CASE rows' = new
  BY <1>1, <1>3, <1>5, <1>6, <1>7, <1>8, TotalledStep
<1>9. CASE rows' = rows
  BY <1>3, <1>7, <1>9, Nothing
<1> QED
  BY <1>7, <1>8, <1>9

\* A line is changed and nothing computed: its total stays.
LEMMA LineStep ==
  ASSUME IInv, NEW r \in 1..Len(rows), NEW l \in Proper(kind), l.id = rows[r].id,
         l.total = rows[r].total, l.blank \/ l.byHand, rows' = [rows EXCEPT ![r] = l],
         kind' = kind, lines' = lines, crashed' = crashed
  PROVE  IInv' /\ Sums /\ Keeps
<1> DEFINE n == Len(rows)
<1>1. /\ rows' \in Seq(Proper(kind)) /\ Len(rows') = n /\ rows'[r] = l
      /\ \A i \in 1..n : i # r => rows'[i] = rows[i]
  <2> DEFINE rs == [rows EXCEPT ![r] = l]
  <2>1. /\ rs \in Seq(Proper(kind)) /\ Len(rs) = n /\ rs[r] = l
        /\ \A i \in 1..n : i # r => rs[i] = rows[i]
    BY OneLine
  <2>2. rows' = rs
    OBVIOUS
  <2> HIDE DEF rs
  <2> QED
    BY <2>1, <2>2
<1>2. n \in Nat /\ crashed \in BOOLEAN
  BY Before
<1> HIDE DEF n
<1>3. \A i \in 1..n : rows'[i].id = rows[i].id /\ rows'[i].total = rows[i].total
  BY <1>1
<1>4. IInv'
  BY <1>1, <1>2, <1>3, EditedInv DEF n
<1>5. ASSUME NEW i \in 2..n PROVE AddsUp(i)
  <2>1. i \in 1..n /\ i - 1 \in 1..n
    BY <1>2
  <2>2. CASE i = r
    BY <1>1, <2>2 DEF AddsUp
  <2>3. CASE i # r
    BY <1>1, <1>3, <2>1, <2>3, Untouched DEF n
  <2> QED
    BY <2>2, <2>3
<1>6. Keeps
  BY <1>1, NoneDeleted DEF n
<1> QED
  BY <1>1, <1>4, <1>5, <1>6 DEF Sums

LEMMA RefuseEntryStep ==
  ASSUME IInv, NEW r \in DOMAIN rows, RefuseEntry(r)
  PROVE  IInv' /\ Sums /\ Keeps
<1> DEFINE f == Filled(rows[r], 0)
           l == [f EXCEPT !.byHand = TRUE]
<1>1. r \in 1..Len(rows) /\ rows[r] \in Proper(kind) /\ rows[r] \in Line
  BY Before
<1>2. /\ f \in Line /\ f.id = rows[r].id /\ f.entry = 0 /\ f.total = rows[r].total
      /\ f.maker = rows[r].maker
  <2> DEFINE o == rows[r]
  <2>1. o \in Line /\ 0 \in Int
    BY <1>1
  <2> HIDE DEF o
  <2>2. LET m == Filled(o, 0) IN
        m \in Line /\ m.id = o.id /\ m.entry = 0 /\ m.total = o.total /\ m.maker = o.maker
    BY <2>1, FilledFacts
  <2> QED
    BY <2>2 DEF o
<1>3. rows' = [rows EXCEPT ![r] = l] /\ kind' = kind /\ lines' = lines /\ crashed' = crashed
  BY DEF RefuseEntry
<1> HIDE DEF f
<1>4. /\ l \in Line /\ l.id = f.id /\ l.entry = f.entry /\ l.total = f.total
      /\ l.maker = f.maker /\ l.byHand = TRUE
  BY <1>2 DEF Line
<1> HIDE DEF l
<1>5. l \in Proper(kind)
  BY <1>1, <1>2, <1>4, ProperFacts DEF Proper
<1> QED
  BY <1>1, <1>2, <1>3, <1>4, <1>5, LineStep

Cleared(l) == [l EXCEPT !.entry = 0, !.blank = TRUE, !.sixty = FALSE]

LEMMA ClearedFacts ==
  ASSUME NEW l \in Line
  PROVE  LET m == Cleared(l) IN
         /\ m \in Line /\ m.id = l.id /\ m.entry = 0 /\ m.total = l.total
         /\ m.maker = l.maker /\ m.blank
<1> DEFINE m == Cleared(l)
           a == [l EXCEPT !.entry = 0]
           b == [a EXCEPT !.blank = TRUE]
<1>1. m \in Line
  <2>1. a \in Line
    BY DEF Line
  <2>2. b \in Line
    <3> HIDE DEF a
    <3> QED
      BY <2>1 DEF Line
  <2>3. m = [b EXCEPT !.sixty = FALSE]
    BY DEF Cleared
  <2> HIDE DEF b, m
  <2> QED
    BY <2>2, <2>3 DEF Line
<1>2. m.id = l.id /\ m.entry = 0 /\ m.total = l.total /\ m.maker = l.maker
  BY DEF Cleared, Line
<1>3. m.blank
  BY DEF Cleared, Line
<1> QED
  BY <1>1, <1>2, <1>3

LEMMA ClearEntryStep ==
  ASSUME IInv, NEW r \in DOMAIN rows, ClearEntry(r)
  PROVE  IInv' /\ Sums /\ Keeps
<1> DEFINE l == [rows[r] EXCEPT !.entry = 0, !.blank = TRUE, !.sixty = FALSE]
<1>1. r \in 1..Len(rows) /\ rows[r] \in Proper(kind) /\ rows[r] \in Line
  BY Before
<1>2. rows' = [rows EXCEPT ![r] = l] /\ kind' = kind /\ lines' = lines /\ crashed' = crashed
  BY DEF ClearEntry
<1>3. /\ l \in Line /\ l.id = rows[r].id /\ l.entry = 0 /\ l.total = rows[r].total
      /\ l.maker = rows[r].maker /\ l.blank
  <2> DEFINE o == rows[r]
  <2>1. o \in Line
    BY <1>1
  <2>2. l = Cleared(o)
    BY DEF Cleared
  <2> HIDE DEF o, l
  <2>3. LET m == Cleared(o) IN
        /\ m \in Line /\ m.id = o.id /\ m.entry = 0 /\ m.total = o.total
        /\ m.maker = o.maker /\ m.blank
    BY <2>1, ClearedFacts
  <2> QED
    BY <2>2, <2>3 DEF o
<1> HIDE DEF l
<1>4. l \in Proper(kind)
  BY <1>1, <1>3, ProperFacts DEF Proper
<1> QED
  BY <1>1, <1>2, <1>3, <1>4, LineStep
Judged(l, x) == [l EXCEPT !.byHand = x]

LEMMA JudgedFacts ==
  ASSUME NEW k, NEW l \in Proper(k), NEW x \in BOOLEAN
  PROVE  LET m == Judged(l, x) IN
         /\ m \in Proper(k) /\ m.id = l.id /\ m.entry = l.entry /\ m.total = l.total
         /\ m.maker = l.maker /\ m.byHand = x
<1> DEFINE m == Judged(l, x)
<1>1. l \in Line
  BY ProperFacts
<1>2. m \in Line /\ m.byHand = x
  BY <1>1 DEF Judged, Line
<1>3. m.id = l.id /\ m.entry = l.entry /\ m.total = l.total /\ m.maker = l.maker
  BY <1>1 DEF Judged, Line
<1> HIDE DEF m
<1>4. m \in Proper(k)
  BY <1>2, <1>3, ProperFacts DEF Proper
<1> QED
  BY <1>2, <1>3, <1>4 DEF m

LEMMA TotalFilled ==
  ASSUME NEW k, NEW l \in Proper(k), NEW prev \in Int
  PROVE  LET m == IF k = "hours" THEN HoursBetween(l, prev) ELSE Filled(l, l.total - prev)
         IN  m \in Proper(k) /\ m.id = l.id /\ m.total = l.total
<1> DEFINE d == l.total - prev
<1>1. l \in Line /\ d \in Int
  BY ProperFacts, FieldFacts
<1>2. CASE k = "hours"
  <2> DEFINE m == HoursBetween(l, prev)
  <2>1. /\ m \in Line /\ m.id = l.id /\ m.entry = (IF d > 0 THEN d ELSE 0)
        /\ m.total = l.total /\ m.maker = l.maker
    BY <1>1, HoursFacts
  <2> HIDE DEF m, d
  <2>2. m.entry \in Nat
    BY <1>1, <2>1
  <2>3. m \in Proper(k)
    BY <2>1, <2>2, ProperFacts DEF Proper
  <2> QED
    BY <1>2, <2>1, <2>3 DEF m
<1>3. CASE k # "hours"
  <2> DEFINE m == Filled(l, d)
  <2> HIDE DEF d
  <2>1. m \in Line /\ m.id = l.id /\ m.total = l.total /\ m.maker = l.maker
    BY <1>1, FilledFacts
  <2>2. m \in Proper(k)
    BY <1>1, <1>3, FilledProper
  <2> HIDE DEF m
  <2> QED
    BY <1>3, <2>1, <2>2 DEF m, d
<1> QED
  BY <1>2, <1>3

LEMMA EditTotalStep ==
  ASSUME IInv, NEW r \in DOMAIN rows, NEW g \in Garbage, NEW c \in Totals[kind],
         EditTotal(r, c, g)
  PROVE  IInv' /\ Sums /\ Keeps
<1> DEFINE o == rows[r]
           typed == [o EXCEPT !.total = c]
           prev == IF r = 1 THEN c ELSE rows[r - 1].total
           line == IF kind = "hours" THEN HoursBetween(typed, prev)
                   ELSE Filled(typed, c - prev)
           x == c # prev + line.entry + line.maker
           l == [line EXCEPT !.byHand = x]
           rs == [rows EXCEPT ![r] = l]
           n == Len(rows)
           new == IF r = Len(rs) THEN rs
                  ELSE computeCell(rs, r + 1, 0, IF kind = "water" THEN Whole(rs, r + 1)
                                                 ELSE Read(rs, r + 1, g))
<1>1. /\ n \in Nat /\ r \in 1..n /\ o \in Proper(kind) /\ o \in Line /\ c \in Int
      /\ crashed \in BOOLEAN /\ g \in Int
  BY Before, Numbers
<1>2. Store(new, r + 1) /\ kind' = kind /\ lines' = lines
  BY DEF EditTotal
<1>3. prev \in Int /\ (r # 1 => prev = rows[r - 1].total)
  <2>1. r # 1 => r - 1 \in 1..n
    BY <1>1
  <2>2. r # 1 => rows[r - 1].total \in Int
    BY <2>1, Before, FieldFacts
  <2> QED
    BY <1>1, <2>2
<1>4. typed \in Proper(kind) /\ typed.id = o.id /\ typed.total = c
  <2> HIDE DEF o
  <2> QED
    BY <1>1, WithTotal DEF Carried
<1> HIDE DEF o, prev, typed
<1>5. line \in Proper(kind) /\ line.id = o.id /\ line.total = c
  <2> DEFINE m == IF kind = "hours" THEN HoursBetween(typed, prev)
                  ELSE Filled(typed, typed.total - prev)
  <2>1. m \in Proper(kind) /\ m.id = typed.id /\ m.total = typed.total
    BY <1>3, <1>4, TotalFilled
  <2>2. line = m
    BY <1>4
  <2> HIDE DEF m, line
  <2> QED
    BY <1>4, <2>1, <2>2
<1> HIDE DEF line
<1>6. x \in BOOLEAN
  OBVIOUS
<1>7. line.entry \in Int /\ line.maker \in Int
  BY <1>5, ProperFacts, FieldFacts
<1> DEFINE s == prev + line.entry + line.maker
<1>8. ~x => c = s
  OBVIOUS
<1> HIDE DEF x, s
<1>9. /\ l \in Proper(kind) /\ l.id = line.id /\ l.entry = line.entry /\ l.total = line.total
      /\ l.maker = line.maker /\ l.byHand = x
  <2>1. l = Judged(line, x)
    BY DEF Judged
  <2> HIDE DEF l
  <2> QED
    BY <1>5, <1>6, <2>1, JudgedFacts
<1> HIDE DEF l
<1>10. /\ rs \in Seq(Proper(kind)) /\ Len(rs) = n /\ rs[r] = l /\ rs[r].id = rows[r].id
       /\ \A i \in 1..n : i # r => rs[i] = rows[i]
  <2>1. l.id = rows[r].id
    BY <1>5, <1>9 DEF o
  <2>2. r \in 1..Len(rows)
    BY <1>1
  <2> QED
    BY <1>9, <2>1, <2>2, OneLine
<1> HIDE DEF rs, n
<1>11. r = 1 \/ rs[r].byHand \/ Linked(rs, r)
  <2> SUFFICES ASSUME r # 1, ~rs[r].byHand PROVE Linked(rs, r)
    OBVIOUS
  <2>1. l.total = prev + l.entry + l.maker
    BY <1>5, <1>8, <1>9, <1>10 DEF s
  <2>2. r - 1 \in 1..n /\ r - 1 # r
    BY <1>1
  <2>3. rs[r - 1] = rows[r - 1]
    BY <1>10, <2>2
  <2> QED
    BY <1>3, <1>10, <2>1, <2>3 DEF Linked
<1>12. Totalled(rs, new, r + 1, kind)
  <2>1. CASE r = n
    <3>1. new = rs
      BY <1>10, <2>1
    <3>2. \A i \in 1..n : Carried(rs[i], rs[i])
      BY DEF Carried
    <3>3. \A i \in 2..n : ~(i >= r + 1)
      BY <1>1, <2>1
    <3>4. Totalled(rs, rs, r + 1, kind)
      BY <1>10, <3>2, <3>3 DEF Totalled
    <3> QED
      BY <3>1, <3>4
  <2>2. CASE r # n
    <3>1. r + 1 \in Nat \ {0} /\ 0 \in Int
      BY <1>1
    <3>2. CASE kind = "water"
      <4>1. new = computeCell(rs, r + 1, 0, Whole(rs, r + 1))
        BY <1>10, <2>2, <3>2
      <4> HIDE DEF new
      <4> QED
        BY <1>10, <3>1, <4>1, WholeAddsUp
    <3>3. CASE kind # "water"
      <4>1. new = computeCell(rs, r + 1, 0, Read(rs, r + 1, g))
        BY <1>10, <2>2, <3>3
      <4> HIDE DEF new
      <4> QED
        BY <1>1, <1>10, <3>1, <4>1, ReadAddsUp
    <3> QED
      BY <3>2, <3>3
  <2> QED
    BY <2>1, <2>2
<1> HIDE DEF new
<1>13. crashed' \in BOOLEAN /\ (rows' = rows \/ rows' = new)
  BY <1>1, <1>2, StoreFacts
<1>14. CASE rows' = new
  <2>1. r \in 1..Len(rows) /\ r + 1 \in {r, r + 1} /\ Totalled(rs, rows', r + 1, kind)
    BY <1>1, <1>12, <1>14 DEF n
  <2>2. /\ rs \in Seq(Proper(kind)) /\ Len(rs) = Len(rows) /\ rs[r].id = rows[r].id
        /\ \A i \in 1..Len(rows) : i # r => rs[i] = rows[i]
    BY <1>10 DEF n
  <2> QED
    BY <1>2, <1>11, <1>13, <2>1, <2>2, TotalledStep
<1>15. CASE rows' = rows
  BY <1>2, <1>13, <1>15, Nothing
<1> QED
  BY <1>13, <1>14, <1>15

WithMaker(l, m) == [l EXCEPT !.maker = m]

LEMMA MakerFacts ==
  ASSUME NEW l \in Proper("water"), NEW m \in Int
  PROVE  WithMaker(l, m) \in Proper("water") /\ WithMaker(l, m).id = l.id
<1> DEFINE k == WithMaker(l, m)
<1>1. l \in Line
  BY ProperFacts
<1>2. k \in Line /\ k.id = l.id
  BY <1>1 DEF WithMaker, Line
<1> HIDE DEF k
<1>3. k \in Proper("water")
  BY <1>2 DEF Proper
<1> QED
  BY <1>2, <1>3 DEF k

LEMMA EditMakerStep ==
  ASSUME IInv, NEW r \in DOMAIN rows, NEW m \in {0, Output}, EditMaker(r, m)
  PROVE  IInv' /\ Sums /\ Keeps
<1> DEFINE l == WithMaker(rows[r], m)
           rs == [rows EXCEPT ![r].maker = m]
           b == rs[1].total + rs[1].entry + m
<1>1. r \in 1..Len(rows) /\ rows[r] \in Proper("water") /\ m \in Int /\ kind = "water"
  BY Before, Numbers DEF EditMaker
<1>2. /\ rows' = computeCell(rs, r, b, Whole(rs, r))
      /\ kind' = kind /\ lines' = lines /\ crashed' = crashed
  BY DEF EditMaker
<1>3. rs = [rows EXCEPT ![r] = l]
  BY DEF WithMaker
<1>4. l \in Proper(kind) /\ l.id = rows[r].id
  <2> DEFINE o == rows[r]
  <2>1. o \in Proper("water")
    BY <1>1
  <2> HIDE DEF o
  <2>2. WithMaker(o, m) \in Proper("water") /\ WithMaker(o, m).id = o.id
    BY <1>1, <2>1, MakerFacts
  <2> QED
    BY <1>1, <2>2 DEF o
<1> HIDE DEF l, rs
<1>5. /\ rs \in Seq(Proper(kind)) /\ Len(rs) = Len(rows) /\ rs[r].id = rows[r].id
      /\ \A i \in 1..Len(rows) : i # r => rs[i] = rows[i]
  BY <1>1, <1>3, <1>4, OneLine
<1>6. b \in Int
  <2>1. 1 \in 1..Len(rs)
    BY <1>1, <1>5, Before
  <2>2. rs[1] \in Line
    BY <1>5, <2>1, ListFacts, ProperFacts
  <2>3. rs[1].total \in Int /\ rs[1].entry \in Int
    BY <2>2, FieldFacts
  <2> QED
    BY <1>1, <2>3
<1> HIDE DEF b
<1>7. Totalled(rs, rows', r, kind)
  <2>1. r \in Nat \ {0}
    BY <1>1, Before
  <2> QED
    BY <1>2, <1>5, <1>6, <2>1, WholeAddsUp
<1>8. crashed' \in BOOLEAN
  BY <1>2, Before
<1> QED
  BY <1>1, <1>2, <1>5, <1>7, <1>8, TotalledStep
-----------------------------------------------------------------------------
(* Lines appended.                                                         *)

LEMMA EmptyFacts ==
  ASSUME NEW k, NEW id \in Nat
  PROVE  /\ EmptyLine(id) \in Proper(k) /\ EmptyLine(id).id = id /\ EmptyLine(id).entry = 0
         /\ EmptyLine(id).maker = 0 /\ EmptyLine(id).pos = Nowhere
<1> DEFINE l == EmptyLine(id)
<1>1. l \in Line
  BY DEF EmptyLine, Line
<1>2. l.id = id /\ l.entry = 0 /\ l.maker = 0 /\ l.pos = Nowhere
  BY DEF EmptyLine
<1> HIDE DEF l
<1>3. l \in Proper(k)
  BY <1>1, <1>2 DEF Proper
<1> QED
  BY <1>2, <1>3 DEF l

\* A new line of the column of kind k
Fresh(k, l, id) == l \in Proper(k) /\ l.id = id

PlacedLine(l, p, t) == [l EXCEPT !.pos = p, !.total = t]

LEMMA PlacedFacts ==
  ASSUME NEW k, NEW l \in Proper(k), NEW p \in Places \cup {Nowhere}, NEW t \in Int
  PROVE  LET m == PlacedLine(l, p, t) IN
         m \in Proper(k) /\ m.id = l.id /\ m.entry = l.entry /\ m.maker = l.maker /\ m.total = t
<1> DEFINE m == PlacedLine(l, p, t)
<1>1. l \in Line
  BY ProperFacts
<1>2. m \in Line
  BY <1>1 DEF PlacedLine, Line
<1>3. m.id = l.id /\ m.entry = l.entry /\ m.maker = l.maker /\ m.total = t
  BY <1>1 DEF PlacedLine, Line
<1> HIDE DEF m
<1>4. m \in Proper(k)
  BY <1>2, <1>3, ProperFacts DEF Proper
<1> QED
  BY <1>3, <1>4 DEF m

LEMMA FirstFacts ==
  ASSUME NEW id \in Nat, NEW e, kind \in Kinds, kind = "hours" => e \in Int,
         NEW p \in Places \cup {Nowhere}
  PROVE  Fresh(kind, FirstLine(id, e, p), id)
<1> DEFINE t == CASE kind = "hours" -> e
                  [] kind \in {"tank", "water"} -> Capacity
                  [] OTHER -> 0
           o == EmptyLine(id)
<1>1. t \in Int
  BY Numbers
<1>2. o \in Proper(kind) /\ o.id = id
  BY EmptyFacts
<1> HIDE DEF t
<1>3. FirstLine(id, e, p) = PlacedLine(o, p, t)
  BY DEF FirstLine, PlacedLine, t
<1> HIDE DEF o
<1> QED
  BY <1>1, <1>2, <1>3, PlacedFacts DEF Fresh

MovedLine(l, d, t, p) == [l EXCEPT !.entry = d, !.total = t, !.pos = p]

LEMMA MovedFacts ==
  ASSUME NEW l \in Proper("distance"), NEW d \in Int, NEW t \in Int,
         NEW p \in Places \cup {Nowhere}
  PROVE  LET m == MovedLine(l, d, t, p) IN
         /\ m \in Proper("distance") /\ m.id = l.id /\ m.entry = d /\ m.maker = l.maker
         /\ m.total = t
<1> DEFINE m == MovedLine(l, d, t, p)
<1>1. l \in Line
  BY ProperFacts
<1>2. m \in Line
  BY <1>1 DEF MovedLine, Line
<1>3. m.id = l.id /\ m.entry = d /\ m.maker = l.maker /\ m.total = t
  BY <1>1 DEF MovedLine, Line
<1> HIDE DEF m
<1>4. m \in Proper("distance")
  BY <1>2, <1>3, ProperFacts DEF Proper
<1> QED
  BY <1>3, <1>4 DEF m

\* The line appended goes on from the total of the one above it.
LEMMA NextFacts ==
  ASSUME NEW id \in Nat, NEW e, kind \in Kinds, kind = "hours" => e \in Nat,
         NEW p \in Places \cup {Nowhere}, NEW prev \in Proper(kind)
  PROVE  LET l == NextLine(id, prev, e, p) IN
         Fresh(kind, l, id) /\ l.total = prev.total + l.entry + l.maker
<1> DEFINE l == NextLine(id, prev, e, p)
           o == EmptyLine(id)
<1>1. o \in Proper(kind) /\ o.id = id /\ o.entry = 0 /\ o.maker = 0
  BY EmptyFacts
<1>2. prev.total \in Int /\ prev.pos \in Places \cup {Nowhere}
  BY ProperFacts, FieldFacts
<1>3. CASE kind = "hours"
  <2> DEFINE t == prev.total + e
             x == [o EXCEPT !.total = t]
             y == prev.total
  <2>1. t \in Int /\ t - y = e /\ y \in Int /\ e \in Nat /\ t = y + e
    BY <1>2, <1>3
  <2>2. l = HoursBetween(x, y)
    BY <1>3 DEF NextLine
  <2> HIDE DEF t, y, o, l
  <2>3. x \in Proper(kind) /\ x.id = id /\ x.total = t /\ x.maker = 0
    BY <1>1, <2>1, WithTotal DEF Carried
  <2> HIDE DEF x
  <2>4. x \in Line
    BY <2>3, ProperFacts
  <2>5. /\ l \in Line /\ l.id = x.id /\ l.entry = (IF x.total - y > 0 THEN x.total - y ELSE 0)
        /\ l.total = x.total /\ l.maker = x.maker
    BY <2>1, <2>2, <2>4, HoursFacts
  <2>6. l.entry = e
    BY <2>1, <2>3, <2>5
  <2>7. l \in Proper(kind)
    BY <1>3, <2>1, <2>3, <2>5, <2>6 DEF Proper
  <2>8. l.total = y + l.entry + l.maker
    BY <2>1, <2>3, <2>5, <2>6
  <2> QED
    BY <2>3, <2>5, <2>7, <2>8 DEF Fresh, l, y
<1>4. CASE kind = "distance"
  <2> DEFINE d == calculateDistance(prev.pos, p)
             y == prev.total
             t == y + d
  <2>1. d \in Int /\ t \in Int /\ y \in Int
    BY <1>2, DistanceFacts
  <2>2. l = MovedLine(o, d, t, p)
    BY <1>4 DEF NextLine, MovedLine
  <2> HIDE DEF d, o, l
  <2>3. t = y + d
    OBVIOUS
  <2> HIDE DEF t, y
  <2>4. l \in Proper("distance") /\ l.id = o.id /\ l.entry = d /\ l.maker = o.maker /\ l.total = t
    BY <1>1, <1>4, <2>1, <2>2, MovedFacts
  <2>5. l.total = y + l.entry + l.maker
    BY <1>1, <2>1, <2>3, <2>4
  <2> QED
    BY <1>1, <1>4, <2>4, <2>5 DEF Fresh, l, y
<1>5. CASE kind \notin {"hours", "distance"}
  <2> DEFINE y == prev.total
  <2>1. y \in Int
    BY <1>2
  <2>2. l = [o EXCEPT !.total = y]
    BY <1>5 DEF NextLine
  <2> HIDE DEF y, o, l
  <2>3. /\ l \in Proper(kind) /\ l.id = o.id /\ l.total = y /\ l.entry = o.entry
        /\ l.maker = o.maker
    BY <1>1, <2>1, <2>2, WithTotal DEF Carried
  <2>4. l.total = y + l.entry + l.maker
    BY <1>1, <2>1, <2>3
  <2> QED
    BY <1>1, <2>3, <2>4 DEF Fresh, l, y
<1> QED
  BY <1>3, <1>4, <1>5

\* A new logbook has one line.
LEMMA AloneStep ==
  ASSUME IInv, rows # <<>>, NEW l \in Proper(kind), l.id = lines + 1, rows' = <<l>>,
         lines < MaxLines[kind], lines' = lines + 1, UNCHANGED <<kind, crashed>>
  PROVE  IInv' /\ Sums /\ Keeps
<1>1. rows' \in Seq(Proper(kind)) /\ Len(rows') = 1 /\ DOMAIN rows' = {1} /\ rows'[1] = l
  OBVIOUS
<1>2. rows' \in Seq(Line)
  BY <1>1, SeqOfLines
<1>3. lines' \in 0..MaxLines[kind]
  <2>1. lines \in Nat /\ MaxLines[kind] \in Nat
    BY Before, Numbers
  <2> QED
    BY <2>1
<1>4. Len(rows') <= MaxRows
  <2>1. Len(rows) \in Nat /\ Len(rows) <= MaxRows /\ MaxRows \in Nat
    BY Before, Numbers DEF IInv, TypeOK
  <2>2. Len(rows) # 0
    BY Before, EmptySeq
  <2> QED
    BY <1>1, <2>1, <2>2
<1>5. TypeOK'
  <2>1. kind = "hours" => \A i \in DOMAIN rows' : rows'[i].entry \in Nat \cup Entries["hours"]
    BY <1>1, ProperFacts
  <2> QED
    BY <1>2, <1>3, <1>4, <2>1 DEF IInv, TypeOK
<1>6. Numbered'
  <2>1. lines \in Nat
    BY Before
  <2> QED
    BY <1>1, <2>1 DEF Numbered
<1>7. Sums
  BY <1>1 DEF Sums
<1> QED
  BY <1>1, <1>5, <1>6, <1>7, NoneDeleted DEF IInv

LEMMA AppendStep ==
  ASSUME IInv, NEW e, NEW p \in Places \cup {Nowhere}, kind = "hours" => e \in Nat,
         appendRow(e, p)
  PROVE  IInv' /\ Sums /\ Keeps
<1> DEFINE n == Len(rows)
           l == IF rows = <<>> THEN FirstLine(lines + 1, e, p)
                ELSE NextLine(lines + 1, Last(rows), e, p)
<1>1. /\ kind \in Kinds /\ lines \in Nat /\ n \in Nat /\ rows \in Seq(Proper(kind))
      /\ DOMAIN rows = 1..n /\ Ascending(rows) /\ \A i \in 1..n : rows[i].id <= lines
      /\ crashed \in BOOLEAN
  BY Before
<1>2. /\ n < MaxRows /\ lines < MaxLines[kind] /\ lines' = lines + 1
      /\ rows' = Append(rows, l) /\ kind' = kind /\ crashed' = crashed
  BY DEF appendRow
<1>3. rows # <<>> => Last(rows) \in Proper(kind) /\ n \in 1..n
  <2>1. ASSUME rows # <<>> PROVE n \in 1..n
    BY <1>1, <2>1, EmptySeq
  <2> QED
    BY <1>1, <2>1, ListFacts DEF Last
<1>4. /\ Fresh(kind, l, lines + 1)
      /\ rows # <<>> => l.total = rows[n].total + l.entry + l.maker
  <2>1. CASE rows = <<>>
    <3>1. l = FirstLine(lines + 1, e, p)
      BY <2>1
    <3> HIDE DEF l
    <3>2. lines + 1 \in Nat /\ kind \in Kinds /\ (kind = "hours" => e \in Int)
      BY <1>1
    <3>3. Fresh(kind, l, lines + 1)
      BY <3>1, <3>2, FirstFacts
    <3> QED
      BY <2>1, <3>3
  <2>2. CASE rows # <<>>
    <3>1. l = NextLine(lines + 1, Last(rows), e, p) /\ Last(rows) = rows[n]
      BY <2>2 DEF Last
    <3> HIDE DEF l, n
    <3>2. Last(rows) \in Proper(kind) /\ lines + 1 \in Nat
      BY <1>1, <1>3, <2>2
    <3>3. /\ Fresh(kind, l, lines + 1)
          /\ l.total = Last(rows).total + l.entry + l.maker
      BY <1>1, <3>1, <3>2, NextFacts
    <3> QED
      BY <3>1, <3>3
  <2> QED
    BY <2>1, <2>2
<1> HIDE DEF l
<1>5. l \in Proper(kind) /\ l.id = lines + 1
  BY <1>4 DEF Fresh
<1>6. /\ rows' \in Seq(Proper(kind)) /\ Len(rows') = n + 1 /\ DOMAIN rows' = 1..(n + 1)
      /\ \A i \in 1..n : rows'[i] = rows[i]
      /\ rows'[n + 1] = l
  BY <1>1, <1>2, <1>5, AppendFacts
<1>7. rows' \in Seq(Line)
  BY <1>6, SeqOfLines
<1> HIDE DEF n
<1>8. TypeOK'
  <2>1. kind = "hours" => \A i \in DOMAIN rows' : rows'[i].entry \in Nat \cup Entries["hours"]
    BY <1>6, ListFacts, ProperFacts
  <2>2. lines' \in 0..MaxLines[kind] /\ Len(rows') <= MaxRows
    BY <1>1, <1>2, <1>6, Numbers
  <2> QED
    BY <1>1, <1>2, <1>7, <2>1, <2>2 DEF TypeOK
<1>9. Numbered'
  <2>1. \A i \in 1..(n + 1) : i \in 1..n \/ i = n + 1
    BY <1>1
  <2>2. \A i \in 1..n : rows[i].id \in Nat
    BY <1>1, Before, FieldFacts DEF n
  <2>3. ASSUME NEW i \in 1..(n + 1), NEW j \in 1..(n + 1), i < j PROVE rows'[i].id < rows'[j].id
    <3>1. i \in 1..n
      BY <1>1, <2>3
    <3>2. CASE j \in 1..n
      BY <1>1, <1>6, <2>3, <3>1, <3>2 DEF Ascending
    <3>3. CASE j = n + 1
      BY <1>1, <1>5, <1>6, <2>2, <3>1, <3>3
    <3> QED
      BY <2>1, <3>2, <3>3
  <2>4. ASSUME NEW i \in 1..(n + 1) PROVE rows'[i].id <= lines'
    <3>1. CASE i \in 1..n
      BY <1>1, <1>2, <1>6, <2>2, <3>1
    <3>2. CASE i = n + 1
      BY <1>1, <1>2, <1>5, <1>6, <3>2
    <3> QED
      BY <2>1, <3>1, <3>2
  <2> QED
    BY <1>6, <2>3, <2>4 DEF Numbered
<1>10. ASSUME NEW i \in 2..(n + 1) PROVE AddsUp(i)
  <2>1. CASE i \in 2..n
    <3>1. i \in 1..n /\ i - 1 \in 1..n
      BY <1>1, <2>1
    <3> QED
      BY <1>6, <2>1, <3>1, Untouched DEF n
  <2>2. CASE i = n + 1
    <3>1. n \in 1..n /\ i - 1 = n /\ rows # <<>>
      <4>1. n # 0 /\ n \in 1..n /\ i - 1 = n
        BY <1>1, <2>2
      <4>2. rows # <<>>
        BY <4>1 DEF n
      <4> QED
        BY <4>1, <4>2
    <3>2. l.total = rows'[i - 1].total + l.entry + l.maker
      BY <1>4, <1>6, <3>1
    <3> QED
      BY <1>6, <2>2, <3>2 DEF AddsUp, Linked
  <2> QED
    BY <1>1, <2>1, <2>2
<1>11. Keeps
  BY <1>2, NoneDeleted
<1> QED
  BY <1>2, <1>6, <1>8, <1>9, <1>10, <1>11 DEF IInv, Sums

CopiedLine(l, id, e) == [l EXCEPT !.id = id, !.entry = e]

LEMMA CopiedFacts ==
  ASSUME NEW k, NEW l \in Proper(k), NEW id \in Nat, NEW e \in {0, l.entry}
  PROVE  CopiedLine(l, id, e) \in Proper(k) /\ CopiedLine(l, id, e).id = id
<1> DEFINE m == CopiedLine(l, id, e)
<1>1. l \in Line
  BY ProperFacts
<1>2. e \in Int
  BY <1>1, FieldFacts
<1>3. m \in Line
  BY <1>1, <1>2 DEF CopiedLine, Line
<1>4. m.id = id /\ m.entry = e /\ m.maker = l.maker
  BY <1>1 DEF CopiedLine, Line
<1> HIDE DEF m
<1>5. m \in Proper(k)
  BY <1>3, <1>4, ProperFacts DEF Proper
<1> QED
  BY <1>4, <1>5 DEF m

LEMMA NewLogbookStep ==
  ASSUME IInv, newLogbook
  PROVE  IInv' /\ Sums /\ Keeps
<1> DEFINE o == rows[Len(rows)]
           e == IF kind = "distance" THEN 0 ELSE o.entry
           l == CopiedLine(o, lines + 1, e)
<1>1. /\ rows # <<>> /\ lines < MaxLines[kind] /\ lines' = lines + 1
      /\ UNCHANGED <<kind, crashed>>
  BY DEF newLogbook
<1>2. rows' = <<l>>
  BY DEF newLogbook, CopiedLine, Last
<1>3. o \in Proper(kind) /\ lines + 1 \in Nat /\ e \in {0, o.entry}
  <2>1. Len(rows) \in 1..Len(rows)
    BY <1>1, Before, EmptySeq
  <2> QED
    BY <2>1, Before
<1> HIDE DEF o, e
<1>4. l \in Proper(kind) /\ l.id = lines + 1
  BY <1>3, CopiedFacts
<1> HIDE DEF l
<1> QED
  BY <1>1, <1>2, <1>4, AloneStep

LEMMA NewLogbookZeroStep ==
  ASSUME IInv, NEW e, NEW p \in Places \cup {Nowhere}, kind = "hours" => e \in Nat,
         newLogbookZero(e, p)
  PROVE  IInv' /\ Sums /\ Keeps
<1> DEFINE l == FirstLine(lines + 1, e, p)
<1>1. /\ rows # <<>> /\ lines < MaxLines[kind] /\ lines' = lines + 1 /\ rows' = <<l>>
      /\ UNCHANGED <<kind, crashed>>
  BY DEF newLogbookZero
<1>2. Fresh(kind, l, lines + 1)
  <2>1. lines + 1 \in Nat /\ kind \in Kinds /\ (kind = "hours" => e \in Int)
    BY Before
  <2> QED
    BY <2>1, FirstFacts
<1> HIDE DEF l
<1> QED
  BY <1>1, <1>2, AloneStep DEF Fresh
-----------------------------------------------------------------------------
(* Positions.                                                              *)

\* Row 8 changes only if the position is that of line 6, 7 or 8.
LEMMA PutFacts ==
  ASSUME NEW l \in Proper("distance"), NEW col \in Int, NEW p \in Places
  PROVE  LET m == PutPosition(l, col, p) IN
         m \in Proper("distance") /\ m.id = l.id /\ (col \notin {5, 6, 7} => m = l)
<1> DEFINE m == PutPosition(l, col, p)
<1>1. l \in Line /\ l.maker = 0 /\ p \in Int
  BY ProperFacts, Numbers
<1>2. m = CASE col = 7 -> [l EXCEPT !.pos = p]
            [] col = 6 -> [l EXCEPT !.total = p]
            [] col = 5 -> [l EXCEPT !.entry = p]
            [] OTHER -> l
  BY DEF PutPosition, POSITION
<1> HIDE DEF m
<1>3. m \in Line /\ m.id = l.id /\ m.maker = l.maker /\ (col \notin {5, 6, 7} => m = l)
  <2>1. CASE col = 7
    BY <1>1, <1>2, <2>1 DEF Line
  <2>2. CASE col = 6
    BY <1>1, <1>2, <2>2 DEF Line
  <2>3. CASE col = 5
    BY <1>1, <1>2, <2>3 DEF Line
  <2>4. CASE col \notin {5, 6, 7}
    BY <1>1, <1>2, <2>4
  <2> QED
    BY <2>1, <2>2, <2>3, <2>4
<1>4. m \in Proper("distance")
  BY <1>1, <1>3 DEF Proper
<1> QED
  BY <1>3, <1>4 DEF m

LEMMA EditPositionStep ==
  ASSUME IInv, NEW r \in DOMAIN rows, NEW p \in Places, EditPosition(r, p)
  PROVE  IInv' /\ Sums /\ Keeps
<1> DEFINE n == Len(rows)
           rs == [i \in DOMAIN rows |-> IF i - 1 = POSITION THEN PutPosition(rows[i], r - 1, p)
                                        ELSE rows[i]]
<1>1. /\ n \in Nat /\ DOMAIN rows = 1..n /\ r \in 1..n /\ kind = "distance"
      /\ \A i \in 1..n : rows[i] \in Proper("distance")
      /\ crashed \in BOOLEAN
  BY Before DEF EditPosition
<1>2. /\ rows' = IF r = 1 THEN rs ELSE recalculatePosition(rs, r)
      /\ kind' = kind /\ lines' = lines /\ crashed' = crashed
  BY DEF EditPosition
<1> HIDE DEF n
<1>3. ASSUME NEW i \in 1..n
      PROVE  /\ rs[i] \in Proper("distance") /\ rs[i].id = rows[i].id
             /\ i # 8 \/ r \notin {6, 7, 8} => rs[i] = rows[i]
  <2> DEFINE col == r - 1
  <2>1. col \in Int /\ (r \notin {6, 7, 8} => col \notin {5, 6, 7})
    BY <1>1
  <2>2. CASE i = 8
    <3>1. rs[i] = PutPosition(rows[i], col, p) /\ rows[i] \in Proper("distance")
      BY <1>1, <2>2 DEF POSITION
    <3> HIDE DEF col, rs
    <3> QED
      BY <2>1, <2>2, <3>1, PutFacts
  <2>3. CASE i # 8
    <3>1. i - 1 # POSITION
      BY <1>1, <2>3 DEF POSITION
    <3>2. rs[i] = rows[i]
      BY <1>1, <3>1
    <3> HIDE DEF rs
    <3> QED
      BY <1>1, <3>2
  <2> QED
    BY <2>2, <2>3
<1>4. rs \in Seq(Proper("distance")) /\ Len(rs) = n /\ DOMAIN rs = 1..n
  <2>1. rs = [i \in 1..n |-> rs[i]]
    BY <1>1
  <2> HIDE DEF rs
  <2>2. rs \in [1..n -> Proper("distance")]
    BY <1>3, <2>1
  <2> QED
    BY <1>1, <2>2, FcnIsSeq
<1>5. CASE r = 1
  <2>1. \A i \in 1..n : rs[i] = rows[i]
    BY <1>3, <1>5
  <2>2. rs = rows
    <3>1. rows \in Seq(Proper(kind))
      BY Before
    <3>2. rows = [i \in 1..n |-> rows[i]]
      BY <1>1, <3>1
    <3> QED
      BY <1>1, <2>1, <3>2
  <2>3. rows' = rows
    BY <1>2, <1>5, <2>2
  <2> QED
    BY <1>1, <1>2, <2>3, Nothing
<1>6. CASE r # 1
  <2> HIDE DEF rs
  <2>1. r \in 2..Len(rs) /\ rows' = recalculatePosition(rs, r)
    BY <1>1, <1>2, <1>4, <1>6
  <2>2. /\ rows' \in Seq(Proper("distance")) /\ Len(rows') = n
        /\ \A i \in 1..n : Measured(rs[i], rows'[i])
        /\ \A i \in 1..n : i < r => rows'[i] = rs[i]
    BY <1>4, <2>1, PositionFacts
  <2>3. PICK stop \in r..n :
          /\ stop = n \/ rs[stop + 1].pos = Nowhere
          /\ \A i \in r..stop : rows'[i].total = rows'[i - 1].total + rows'[i].entry
    BY <1>4, <2>1, PositionFacts
  <2>4. \A i \in 1..n : rows'[i].id = rows[i].id
    BY <1>3, <2>2 DEF Measured
  <2>5. IInv'
    BY <1>1, <1>2, <2>2, <2>4, EditedInv DEF n
  <2>6. ASSUME NEW i \in 2..n PROVE AddsUp(i)
    <3>1. i \in 1..n /\ i - 1 \in 1..n
      BY <1>1
    <3>2. CASE i < r
      <4>1. i - 1 < r /\ (r \in {6, 7, 8} => i # 8 /\ i - 1 # 8)
        BY <1>1, <3>2
      <4>2. rows'[i] = rows[i] /\ rows'[i - 1] = rows[i - 1]
        BY <1>3, <2>2, <3>1, <3>2, <4>1
      <4> QED
        BY <4>2, Untouched DEF n
    <3>3. CASE i \in r..stop
      <4>1. rows'[i].maker = 0 /\ rows'[i] \in Line
        BY <2>2, <3>1, ListFacts, ProperFacts
      <4>2. rows'[i - 1] \in Line
        BY <2>2, <3>1, ListFacts, ProperFacts
      <4>3. rows'[i].entry \in Int /\ rows'[i - 1].total \in Int
        BY <4>1, <4>2, FieldFacts
      <4>4. rows'[i].total = rows'[i - 1].total + rows'[i].entry
        BY <2>3, <3>3
      <4>5. Linked(rows', i)
        BY <4>1, <4>3, <4>4 DEF Linked
      <4> QED
        BY <4>5 DEF AddsUp
    <3>4. CASE i > stop
      <4>1. stop + 1 \in 2..i /\ stop + 1 \in 1..n /\ stop # n
        BY <1>1, <2>3, <3>4
      <4>2. rs[stop + 1].pos = Nowhere
        BY <2>3, <4>1
      <4>3. rows'[stop + 1].pos = Nowhere
        BY <2>2, <4>1, <4>2 DEF Measured
      <4>4. StopsAbove(i)
        BY <1>1, <4>1, <4>3 DEF StopsAbove
      <4> QED
        BY <4>4 DEF AddsUp
    <3> QED
      BY <1>1, <2>3, <3>2, <3>3, <3>4
  <2>7. Keeps
    BY <2>2, NoneDeleted DEF n
  <2> QED
    BY <2>2, <2>5, <2>6, <2>7 DEF Sums
<1> QED
  BY <1>5, <1>6
-----------------------------------------------------------------------------
(* Lines deleted.                                                          *)

LEMMA Alike ==
  ASSUME NEW k, NEW q \in Seq(Proper(k)), NEW row, NEW new, Totalled(q, new, row, k)
  PROVE  \A i \in 1..Len(q) : new[i].id = q[i].id /\ new[i].entry = q[i].entry
BY DEF Totalled, Carried

\* recalculateLogbook leaves the lines above its row alone, and the entries
\* but those of distances and of a line that reads hh:60; from its row on the
\* sums are right, for distances down to a line without a position, unless
\* there is nothing to compute from.
Sound(q, new) ==
  /\ new \in Seq(Proper(kind)) /\ Len(new) = Len(q)
  /\ \A i \in 1..Len(q) : new[i].id = q[i].id
  /\ \A i \in 1..Len(q) : new[i].entry = q[i].entry \/ kind = "distance" \/ q[i].sixty

Above(q, new, r) == \A i \in 1..Len(q) : i < r => new[i] = q[i]

AllLinked(q, new, r) == \A i \in 2..Len(q) : i >= r => new[i].blank \/ Linked(new, i)

DownTo(q, new, r) ==
  /\ kind = "distance"
  /\ \E stop \in r..Len(q) : /\ stop = Len(q) \/ new[stop + 1].pos = Nowhere
                            /\ \A i \in r..stop : Linked(new, i)

Recalculated(q, new, r) ==
  /\ Sound(q, new)
  /\ IF r \notin 1..Len(q) THEN new = q
     ELSE /\ r >= 2 /\ Above(q, new, r)
          /\ AllLinked(q, new, r) \/ DownTo(q, new, r) \/ q[r].blank \/ q[r].sixty

LEMMA RecalculateFacts ==
  ASSUME kind \in Kinds, NEW q \in Seq(Proper(kind)), NEW row \in Int
  PROVE  Recalculated(q, recalculateLogbook(q, row), IF row = 1 THEN 2 ELSE row)
<1> DEFINE n == Len(q)
           r == IF row = 1 THEN 2 ELSE row
           new == recalculateLogbook(q, row)
<1>1. /\ n \in Nat /\ DOMAIN q = 1..n /\ \A i \in 1..n : q[i] \in Proper(kind)
      /\ r \in Int /\ r # 1
  BY ListFacts
<1>2. new = IF r \notin 1..n THEN q
            ELSE IF kind = "distance"            THEN recalculatePosition(q, r)
            ELSE IF kind = "hours" /\ q[r].sixty THEN [q EXCEPT ![r] = Filled(@, 0)]
            ELSE IF kind = "water" /\ q[r].blank THEN computeCell(q, r, 0, Whole(q, r))
            ELSE IF q[r].blank                   THEN q
            ELSE computeCell(q, r, 0, Read(q, r, 0))
  BY <1>1 DEF recalculateLogbook
<1> HIDE DEF r, n, new
<1>3. ASSUME new = q PROVE Sound(q, new) /\ Above(q, new, r)
  BY <1>3 DEF Sound, Above
<1>4. CASE r \notin 1..n
  <2>1. new = q
    BY <1>2, <1>4
  <2>2. Sound(q, new)
    BY <1>3, <2>1
  <2> QED
    BY <1>4, <2>1, <2>2 DEF Recalculated, r, n, new
<1>5. CASE r \in 1..n
  <2>1. r \in 2..n /\ r \in Nat \ {0}
    BY <1>1, <1>5
  <2>2. ASSUME Totalled(q, new, r, kind)
        PROVE  Sound(q, new) /\ Above(q, new, r) /\ AllLinked(q, new, r)
    <3>1. \A i \in 1..Len(q) : new[i].id = q[i].id /\ new[i].entry = q[i].entry
      BY <2>2, Alike
    <3>2. new \in Seq(Proper(kind)) /\ Len(new) = Len(q)
      BY <2>2 DEF Totalled
    <3>3. Above(q, new, r) /\ AllLinked(q, new, r)
      BY <2>2 DEF Totalled, Above, AllLinked
    <3> QED
      BY <3>1, <3>2, <3>3 DEF Sound
  <2> DEFINE Goal == /\ Sound(q, new) /\ Above(q, new, r)
                     /\ AllLinked(q, new, r) \/ DownTo(q, new, r) \/ q[r].blank \/ q[r].sixty
  <2> SUFFICES Goal
    <3>1. Goal => Recalculated(q, new, r)
      BY <1>5, <2>1 DEF Recalculated, n
    <3> HIDE DEF Goal
    <3> QED
      BY <3>1 DEF r, new
  <2>c. new = IF kind = "distance"                 THEN recalculatePosition(q, r)
              ELSE IF kind = "hours" /\ q[r].sixty THEN [q EXCEPT ![r] = Filled(@, 0)]
              ELSE IF kind = "water" /\ q[r].blank THEN computeCell(q, r, 0, Whole(q, r))
              ELSE IF q[r].blank                   THEN q
              ELSE computeCell(q, r, 0, Read(q, r, 0))
    BY <1>2, <1>5
  <2>3. CASE kind = "distance"
    <3>1. new = recalculatePosition(q, r) /\ q \in Seq(Proper("distance")) /\ r \in 2..Len(q)
      <4>1. new = recalculatePosition(q, r)
        BY <2>3, <2>c
      <4> QED
        BY <2>1, <2>3, <4>1 DEF n
    <3>2. /\ new \in Seq(Proper("distance")) /\ Len(new) = n
          /\ \A i \in 1..n : Measured(q[i], new[i])
          /\ \A i \in 1..n : i < r => new[i] = q[i]
      BY <1>1, <3>1, PositionFacts DEF n
    <3>3. PICK stop \in r..n :
            /\ stop = n \/ q[stop + 1].pos = Nowhere
            /\ \A i \in r..stop : new[i].total = new[i - 1].total + new[i].entry
      BY <3>1, PositionFacts DEF n
    <3>4. \A i \in 1..n : new[i] \in Line /\ new[i].maker = 0
      BY <3>2, ListFacts, ProperFacts
    <3>5. ASSUME NEW i \in r..stop PROVE Linked(new, i)
      <4>1. i \in 1..n /\ i - 1 \in 1..n
        BY <1>1, <2>1, <3>3
      <4>2. new[i].entry \in Int /\ new[i - 1].total \in Int /\ new[i].maker = 0
        BY <3>4, <4>1, FieldFacts
      <4>3. new[i].total = new[i - 1].total + new[i].entry
        BY <3>3
      <4> QED
        BY <4>2, <4>3 DEF Linked
    <3>6. stop = n \/ new[stop + 1].pos = Nowhere
      <4> SUFFICES ASSUME stop # n PROVE new[stop + 1].pos = Nowhere
        OBVIOUS
      <4>1. stop + 1 \in 1..n
        BY <1>1, <2>1, <3>3
      <4>2. q[stop + 1].pos = Nowhere
        BY <3>3
      <4> QED
        BY <3>2, <4>1, <4>2 DEF Measured
    <3>7. DownTo(q, new, r)
      BY <2>3, <3>3, <3>5, <3>6 DEF DownTo, n
    <3>8. Sound(q, new) /\ Above(q, new, r)
      BY <2>3, <3>2 DEF Measured, Sound, Above, n
    <3> QED
      BY <3>7, <3>8
  <2>4. CASE kind = "hours" /\ q[r].sixty
    <3> DEFINE l == Filled(q[r], 0)
    <3>1. new = [q EXCEPT ![r] = l]
      BY <2>c, <2>4
    <3>2. l \in Proper(kind) /\ l.id = q[r].id
      BY <1>1, <1>5, FilledProper
    <3> HIDE DEF l
    <3>3. /\ new \in Seq(Proper(kind)) /\ DOMAIN new = 1..n
          /\ \A j \in 1..n : new[j] = IF j = r THEN l ELSE q[j]
      BY <1>1, <1>5, <3>1, <3>2, ExceptFacts
    <3>4. Len(new) = n
      BY <1>1, <3>3, LenProperties
    <3>5. Sound(q, new)
      BY <2>4, <3>2, <3>3, <3>4 DEF Sound, n
    <3>6. Above(q, new, r)
      BY <2>1, <3>3 DEF Above, n
    <3> QED
      BY <2>4, <3>5, <3>6
  <2>5. CASE kind = "water" /\ q[r].blank
    <3>1. new = computeCell(q, r, 0, Whole(q, r))
      BY <2>c, <2>5
    <3>2. Totalled(q, new, r, kind)
      BY <2>1, <3>1, WholeAddsUp
    <3> QED
      BY <2>2, <3>2
  <2>6. CASE kind \notin {"water", "distance"} /\ ~(kind = "hours" /\ q[r].sixty) /\ q[r].blank
    <3>1. new = q
      BY <2>c, <2>6
    <3> QED
      BY <1>3, <2>6, <3>1
  <2>7. CASE kind # "distance" /\ ~(kind = "hours" /\ q[r].sixty) /\ ~q[r].blank
    <3>1. new = computeCell(q, r, 0, Read(q, r, 0))
      BY <2>c, <2>7
    <3>2. Totalled(q, new, r, kind)
      BY <2>1, <3>1, ReadAddsUp
    <3> QED
      BY <2>2, <3>2
  <2> QED
    BY <2>3, <2>4, <2>5, <2>6, <2>7
<1> QED
  BY <1>4, <1>5
\* The line from which TotalsAddUp looks for the gap is the first one deleted.
LEMMA GapOf ==
  ASSUME IInv, lines' = lines, NEW f \in 1..Len(rows), Len(rows') \in Nat, Len(rows') < Len(rows),
         DOMAIN rows' = 1..Len(rows'), f - 1 <= Len(rows'),
         \A i \in 1..Len(rows') : i < f => rows'[i].id = rows[i].id,
         f \in 1..Len(rows') => rows'[f].id # rows[f].id,
         \/ f = 1
         \/ \E r \in {f - 1, f} \cap (1..Len(rows')) : \E j \in 1..Len(rows) :
              rows'[r].id = rows[j].id /\ (rows[j].blank \/ rows[j].sixty)
  PROVE  GapLeft
<1> DEFINE n == Len(rows)
           c == Len(rows')
           P(j) == /\ j > c \/ rows'[j].id # rows[j].id
                   /\ \A k \in 1..(j - 1) : k \in DOMAIN rows' /\ rows'[k].id = rows[k].id
           gap == CHOOSE j \in 1..n : P(j)
<1>1. n \in Nat /\ DOMAIN rows = 1..n
  BY Before
<1>2. Deleted
  BY DEF Deleted
<1>3. P(f)
  <2>1. f > c \/ rows'[f].id # rows[f].id
    OBVIOUS
  <2>2. ASSUME NEW k \in 1..(f - 1) PROVE k \in 1..c /\ rows'[k].id = rows[k].id
    <3>1. k \in 1..c /\ k < f
      BY <1>1
    <3> QED
      BY <3>1
  <2> QED
    BY <2>1, <2>2
<1>4. ASSUME NEW j \in 1..n, P(j) PROVE j = f
  <2>1. CASE j < f
    <3>1. j \in 1..c
      BY <1>1, <2>1
    <3>2. rows'[j].id = rows[j].id
      BY <2>1, <3>1
    <3> QED
      BY <1>4, <3>1, <3>2
  <2>2. CASE j > f
    <3>1. f \in 1..(j - 1)
      BY <1>1, <2>2
    <3>2. f \in 1..c /\ rows'[f].id = rows[f].id
      BY <1>4, <3>1
    <3> QED
      BY <3>2
  <2> QED
    BY <1>1, <2>1, <2>2
<1>5. gap = f
  <2> HIDE DEF P, n
  <2>1. f \in 1..n
    BY DEF n
  <2> QED
    BY <1>3, <1>4, <2>1
<1>6. gap = CHOOSE j \in DOMAIN rows :
              /\ j > Len(rows') \/ rows'[j].id # rows[j].id
              /\ \A k \in 1..(j - 1) : k \in DOMAIN rows' /\ rows'[k].id = rows[k].id
  BY <1>1
<1> HIDE DEF gap
<1>7. \/ gap = 1
      \/ \E j \in DOMAIN rows :
           /\ \E k \in {gap - 1, gap} \cap DOMAIN rows' : rows'[k].id = rows[j].id
           /\ rows[j].blank \/ rows[j].sixty
  BY <1>1, <1>5
<1> QED
  BY <1>2, <1>6, <1>7 DEF GapLeft

\* Lines D go, the first of them being f, and what follows the line above f,
\* or f itself, is recalculated.
LEMMA TakeOutStep ==
  ASSUME IInv, NEW D, D \subseteq DOMAIN rows, NEW f \in D, \A d \in D : f <= d,
         NEW row \in Int, f = 1 \/ (IF row = 1 THEN 2 ELSE row) \in {f - 1, f},
         TakeOut(D, row)
  PROVE  IInv' /\ Sums /\ Keeps
<1> DEFINE q == without(rows, D)
           r == IF row = 1 THEN 2 ELSE row
           new == recalculateLogbook(q, row)
           n == Len(rows)
           c == Len(q)
           from == IF Reads(q, r) THEN r ELSE Len(q) + 1
<1>1. /\ n \in Nat /\ DOMAIN rows = 1..n /\ kind \in Kinds /\ f \in 1..n /\ crashed \in BOOLEAN
      /\ rows \in Seq(Proper(kind)) /\ Ascending(rows) /\ r \in Int
      /\ \A i \in 1..n : rows[i].id \in Nat
  BY Before, FieldFacts
<1>2. Store(new, from) /\ kind' = kind /\ lines' = lines
  BY DEF TakeOut
<1>3. f = 1 \/ r \in {f - 1, f}
  OBVIOUS
<1>4. /\ q \in Seq(Proper(kind)) /\ Ascending(q) /\ c < n /\ f - 1 <= c
      /\ \A i \in 1..c : i < f => q[i] = rows[i]
      /\ \A i \in 1..c : \E j \in 1..n : q[i] = rows[j]
      /\ \A i \in 1..c : i >= f => q[i].id # rows[f].id
  BY <1>1, GapFacts
<1>5. Recalculated(q, new, r)
  BY <1>1, <1>4, RecalculateFacts
<1> HIDE DEF q, r, new, n, from
<1>6. c \in Nat
  BY <1>4, LenProperties
<1>7. crashed' \in BOOLEAN /\ (rows' = rows \/ rows' = new)
  BY <1>1, <1>2, StoreFacts
<1>8. CASE rows' = rows
  BY <1>2, <1>7, <1>8, Nothing
<1>9. CASE rows' = new
  <2>1. /\ rows' \in Seq(Proper(kind)) /\ Len(rows') = c
        /\ \A i \in 1..c : rows'[i].id = q[i].id
        /\ \A i \in 1..c : rows'[i].entry = q[i].entry \/ kind = "distance" \/ q[i].sixty
    BY <1>5, <1>9 DEF Recalculated, Sound
  <2>2. IF r \notin 1..c THEN rows' = q
        ELSE /\ r >= 2 /\ \A i \in 1..c : i < r => rows'[i] = q[i]
             /\ AllLinked(q, rows', r) \/ DownTo(q, rows', r) \/ q[r].blank \/ q[r].sixty
    BY <1>5, <1>9 DEF Recalculated, Above
  <2>3. rows' \in Seq(Line) /\ DOMAIN rows' = 1..c
    BY <2>1, SeqOfLines, ListFacts
  <2> HIDE DEF c
  <2>4. IInv'
    <3>1. \A i \in 1..c : rows'[i] \in Proper(kind)
      BY <2>1, <2>3, ListFacts
    <3>2. TypeOK'
      <4>1. kind = "hours" => \A i \in DOMAIN rows' : rows'[i].entry \in Nat \cup Entries["hours"]
        BY <2>3, <3>1, ProperFacts
      <4>2. Len(rows') <= MaxRows
        BY <1>1, <1>4, <1>6, <2>1, Numbers DEF IInv, TypeOK, n
      <4> QED
        BY <1>2, <1>7, <2>3, <4>1, <4>2 DEF IInv, TypeOK
    <3>3. Numbered'
      <4>1. \A i, j \in 1..c : i < j => rows'[i].id < rows'[j].id
        <5>1. DOMAIN q = 1..c
          BY <1>4, ListFacts DEF c
        <5> QED
          BY <1>4, <2>1, <5>1 DEF Ascending
      <4>2. \A i \in 1..c : rows'[i].id <= lines'
        <5>1. \A j \in 1..n : rows[j].id <= lines
          BY Before DEF n
        <5> QED
          BY <1>2, <1>4, <2>1, <5>1
      <4> QED
        BY <2>3, <4>1, <4>2 DEF Numbered
    <3> QED
      BY <1>2, <2>1, <3>2, <3>3 DEF IInv
  <2>5. \A i \in 1..c : i < f => rows'[i].id = rows[i].id
    BY <1>4, <2>1
  <2>6. ASSUME \/ f = 1
               \/ /\ r \in {f - 1, f} /\ r \in 1..c
                  /\ q[r].blank \/ q[r].sixty
        PROVE  GapLeft
    <3>1. \/ f = 1
          \/ \E x \in {f - 1, f} \cap (1..c) : \E j \in 1..n :
               rows'[x].id = rows[j].id /\ (rows[j].blank \/ rows[j].sixty)
      <4>1. CASE f = 1
        BY <4>1
      <4>2. CASE r \in {f - 1, f} /\ r \in 1..c /\ (q[r].blank \/ q[r].sixty)
        <5>1. PICK j \in 1..n : q[r] = rows[j]
          BY <1>4, <4>2
        <5>2. rows'[r].id = rows[j].id /\ (rows[j].blank \/ rows[j].sixty)
          BY <2>1, <4>2, <5>1
        <5> QED
          BY <4>2, <5>2
      <4> QED
        BY <2>6, <4>1, <4>2
    <3>2. f \in 1..c => rows'[f].id # rows[f].id
      BY <1>1, <1>4, <2>1
    <3>3. f \in 1..Len(rows) /\ Len(rows') \in Nat /\ Len(rows') < Len(rows)
      BY <1>1, <1>4, <1>6, <2>1 DEF n
    <3> QED
      BY <1>2, <1>4, <2>1, <2>3, <2>5, <3>1, <3>2, <3>3, GapOf DEF n
  <2>7. Deleted
    BY <1>1, <1>2, <1>4, <1>6, <2>1 DEF Deleted, n
  <2>8. ASSUME NEW i \in 2..c PROVE AddsUp(i)
    <3>1. i \in 1..c /\ i - 1 \in 1..c
      BY <1>6
    <3>2. CASE f = 1
      BY <2>6, <3>2 DEF AddsUp
    <3>3. CASE f # 1 /\ i < r
      <4>1. r \in Int /\ r <= f /\ i < f /\ i - 1 < f /\ i - 1 < r
        BY <1>1, <1>3, <3>3
      <4>2. rows'[i] = q[i] /\ rows'[i - 1] = q[i - 1]
        BY <2>2, <3>1, <3>3, <4>1
      <4>3. rows'[i] = rows[i] /\ rows'[i - 1] = rows[i - 1]
        BY <1>4, <3>1, <4>1, <4>2
      <4>4. i \in 2..Len(rows)
        BY <1>1, <1>4, <1>6 DEF n
      <4> QED
        BY <4>3, <4>4, Untouched
    <3>4. CASE f # 1 /\ ~(i < r)
      <4>1. r \in 1..c /\ r \in {f - 1, f}
        BY <1>1, <1>3, <1>6, <3>4
      <4>2. CASE AllLinked(q, rows', r)
        <5>1. rows'[i].blank \/ Linked(rows', i)
          BY <1>1, <3>4, <4>2 DEF AllLinked, c
        <5> QED
          BY <5>1 DEF AddsUp
      <4>3. CASE DownTo(q, rows', r)
        <5>1. PICK stop \in r..c : /\ stop = c \/ rows'[stop + 1].pos = Nowhere
                                   /\ \A x \in r..stop : Linked(rows', x)
          BY <4>3 DEF DownTo, c
        <5>2. CASE i <= stop
          <6>1. Linked(rows', i)
            BY <1>1, <1>6, <3>4, <5>1, <5>2
          <6> QED
            BY <6>1 DEF AddsUp
        <5>3. CASE ~(i <= stop)
          <6>1. stop # c /\ stop + 1 \in 2..i
            BY <1>6, <4>1, <5>1, <5>3
          <6>2. rows'[stop + 1].pos = Nowhere
            BY <5>1, <6>1
          <6>3. kind = "distance"
            BY <4>3 DEF DownTo
          <6>4. StopsAbove(i)
            BY <2>7, <6>1, <6>2, <6>3 DEF StopsAbove
          <6> QED
            BY <6>4 DEF AddsUp
        <5> QED
          BY <5>2, <5>3
      <4>4. CASE q[r].blank \/ q[r].sixty
        BY <2>6, <4>1, <4>4 DEF AddsUp
      <4> QED
        BY <2>2, <4>1, <4>2, <4>3, <4>4
    <3> QED
      BY <3>2, <3>3, <3>4
  <2>9. Keeps
    <3> SUFFICES ASSUME NEW i \in 1..c, NEW j \in 1..n, rows'[i].id = rows[j].id
                 PROVE  /\ rows'[i].entry = rows[j].entry \/ kind = "distance" \/ rows[j].sixty
                        /\ i = 1 => rows'[i].total = rows[j].total
      BY <1>1, <2>3 DEF Keeps
    <3>1. PICK x \in 1..n : q[i] = rows[x]
      BY <1>4
    <3>2. x = j
      <4>1. rows[x].id = rows[j].id
        BY <2>1, <3>1
      <4> QED
        BY <1>1, <4>1 DEF Ascending
    <3>3. q[i] = rows[j]
      BY <3>1, <3>2
    <3>4. i = 1 => rows'[i] = q[i]
      <4>1. CASE r \notin 1..c
        BY <2>2, <4>1
      <4>2. CASE r \in 1..c
        <5>1. i = 1 => i < r
          BY <1>1, <2>2, <4>2
        <5> QED
          BY <2>2, <4>2, <5>1
      <4> QED
        BY <4>1, <4>2
    <3> QED
      BY <2>1, <3>3, <3>4
  <2> QED
    BY <2>1, <2>4, <2>8, <2>9 DEF Sums
<1> QED
  BY <1>7, <1>8, <1>9

LEMMA DeleteLinesStep ==
  ASSUME IInv, NEW D \in (SUBSET DOMAIN rows) \ {{}}, DeleteLines(D)
  PROVE  IInv' /\ Sums /\ Keeps
<1> DEFINE first == CHOOSE d \in D : \A e \in D : d <= e
<1>1. D \subseteq DOMAIN rows /\ D \subseteq Nat /\ D # {}
  BY Before
<1>2. first \in D /\ \A e \in D : first <= e
  <2>1. \E d \in D : \A e \in D : d <= e
    BY <1>1, LeastNat
  <2> QED
    BY <2>1
<1>3. TakeOut(D, first - 1)
  BY DEF DeleteLines
<1> HIDE DEF first
<1>4. first \in Nat
  BY <1>1, <1>2
<1>5. first = 1 \/ (IF first - 1 = 1 THEN 2 ELSE first - 1) \in {first - 1, first}
  BY <1>4
<1>6. first - 1 \in Int
  BY <1>4
<1> QED
  BY <1>1, <1>2, <1>3, <1>5, <1>6, TakeOutStep

LEMMA DeleteBlockStep ==
  ASSUME IInv, NEW a \in DOMAIN rows, NEW b \in DOMAIN rows, a <= b, DeleteBlock(a, b)
  PROVE  IInv' /\ Sums /\ Keeps
<1> DEFINE n == Len(rows) - (b - a + 1)
           row == IF a = n THEN a - 1 ELSE a
           D == a..b
<1>1. a \in Nat \ {0} /\ b \in Nat /\ D \subseteq DOMAIN rows /\ a \in D /\ \A d \in D : a <= d
  BY Before
<1>2. TakeOut(D, row)
  BY DEF DeleteBlock
<1> HIDE DEF n, D
<1>3. row \in Int /\ (a = 1 \/ (IF row = 1 THEN 2 ELSE row) \in {a - 1, a})
  BY <1>1
<1> HIDE DEF row
<1> QED
  BY <1>1, <1>2, <1>3, TakeOutStep
-----------------------------------------------------------------------------
(* Theorems.                                                               *)

LEMMA InitInv ==
  ASSUME Init
  PROVE  IInv
<1>1. rows = <<>> /\ rows \in Seq(Line) /\ rows \in Seq(Proper(kind)) /\ Len(rows) = 0
      /\ DOMAIN rows = {}
  BY DEF Init
<1>2. kind \in Kinds /\ lines = 0 /\ crashed = FALSE /\ 0 \in 0..MaxLines[kind] /\ 0 <= MaxRows
  BY Numbers DEF Init
<1> QED
  BY <1>1, <1>2 DEF IInv, TypeOK, Numbered

\* Whatever a step does, the sums and the entries are kept.
LEMMA StepFacts ==
  ASSUME IInv, Next
  PROVE  IInv' /\ Sums /\ Keeps
<1>1. ASSUME NEW e \in {v \in Entries["hours"] : v >= 0}, NEW p \in Places \cup {Nowhere},
             kind # "hours" => e = 0, appendRow(e, p) \/ newLogbookZero(e, p)
      PROVE  IInv' /\ Sums /\ Keeps
  <2>1. kind = "hours" => e \in Nat
    <3>1. ASSUME kind = "hours" PROVE e \in Nat
      <4>1. e \in Int /\ e >= 0
        BY <3>1, Before, Numbers
      <4> QED
        BY <4>1
    <3> QED
      BY <3>1
  <2> QED
    BY <1>1, <2>1, AppendStep, NewLogbookZeroStep
<1>2. CASE newLogbook
  BY <1>2, NewLogbookStep
<1>3. ASSUME NEW r \in DOMAIN rows, NEW v \in Entries[kind], EditEntry(r, v)
      PROVE  IInv' /\ Sums /\ Keeps
  BY <1>3, EditEntryStep
<1>4. ASSUME NEW r \in DOMAIN rows, RefuseEntry(r) \/ ClearEntry(r)
      PROVE  IInv' /\ Sums /\ Keeps
  BY <1>4, RefuseEntryStep, ClearEntryStep
<1>5. ASSUME NEW r \in DOMAIN rows, NEW g \in Garbage, NEW c \in Totals[kind], EditTotal(r, c, g)
      PROVE  IInv' /\ Sums /\ Keeps
  BY <1>5, EditTotalStep
<1>6. ASSUME NEW r \in DOMAIN rows, NEW m \in {0, Output}, EditMaker(r, m)
      PROVE  IInv' /\ Sums /\ Keeps
  BY <1>6, EditMakerStep
<1>7. ASSUME NEW r \in DOMAIN rows, NEW p \in Places, EditPosition(r, p)
      PROVE  IInv' /\ Sums /\ Keeps
  BY <1>7, EditPositionStep
<1>8. ASSUME NEW D \in (SUBSET DOMAIN rows) \ {{}}, DeleteLines(D)
      PROVE  IInv' /\ Sums /\ Keeps
  BY <1>8, DeleteLinesStep
<1>9. ASSUME NEW a \in DOMAIN rows, NEW b \in DOMAIN rows, a <= b /\ DeleteBlock(a, b)
      PROVE  IInv' /\ Sums /\ Keeps
  BY <1>9, DeleteBlockStep
<1> QED
  BY <1>1, <1>2, <1>3, <1>4, <1>5, <1>6, <1>7, <1>8, <1>9 DEF Next

\* The grid is a list of lines numbered in the order of their writing, in
\* which only water has a maker, as appendRow and newLogbook write it and
\* deleteRows leaves it.
THEOREM Invariance == Spec => []IInv
<1>1. ASSUME IInv, [Next]_vars PROVE IInv'
  <2>1. CASE Next
    BY <1>1, <2>1, StepFacts
  <2>2. CASE UNCHANGED vars
    BY <1>1, <2>2, Before, Nothing DEF vars
  <2> QED
    BY <1>1, <2>1, <2>2
<1>2. Init => IInv
  BY InitInv
<1> QED
  BY <1>1, <1>2, PTL DEF Spec

\* The cells of the column followed stay cells: numbers within the grid.
THEOREM Typing == Spec => []TypeOK
<1>1. IInv => TypeOK
  BY DEF IInv
<1> QED
  BY <1>1, Invariance, PTL

\* However lines are appended, typed over, deleted and carried to a new
\* logbook, getModifiedCellValue, computeCell and recalculateLogbook break no
\* sum that was right, but where TotalsAddUp says so.
THEOREM AddUp == Spec => TotalsAddUp
<1>1. ASSUME IInv, Next
      PROVE  \A i \in 2..Len(rows') :
               \/ Linked(rows', i)
               \/ rows'[i].blank \/ rows'[i].byHand
               \/ \E j \in 2..Len(rows) : rows[j].id = rows'[i].id /\ ~Linked(rows, j)
               \/ GapLeft \/ StopsAbove(i)
  BY <1>1, StepFacts DEF Sums, AddsUp
<1>2. IInv /\ [Next]_vars =>
        [\A i \in 2..Len(rows') :
           \/ Linked(rows', i)
           \/ rows'[i].blank \/ rows'[i].byHand
           \/ \E j \in 2..Len(rows) : rows[j].id = rows'[i].id /\ ~Linked(rows, j)
           \/ GapLeft \/ StopsAbove(i)]_vars
  BY <1>1
<1> QED
  BY <1>2, Invariance, PTL DEF Spec, TotalsAddUp

\* deleteRows and the recalculation after it change no entry of the lines that
\* are left, distances and entries that read hh:60 apart, and not the first
\* line's total.
THEOREM EntriesKept == Spec => DeletionKeepsEntries
<1>1. ASSUME IInv, Next
      PROVE  Deleted =>
               \A i \in DOMAIN rows', j \in DOMAIN rows :
                 rows'[i].id = rows[j].id =>
                   /\ rows'[i].entry = rows[j].entry \/ kind = "distance" \/ rows[j].sixty
                   /\ i = 1 => rows'[i].total = rows[j].total
  BY <1>1, StepFacts DEF Keeps
<1>2. IInv /\ [Next]_vars =>
        [Deleted =>
           \A i \in DOMAIN rows', j \in DOMAIN rows :
             rows'[i].id = rows[j].id =>
               /\ rows'[i].entry = rows[j].entry \/ kind = "distance" \/ rows[j].sixty
               /\ i = 1 => rows'[i].total = rows[j].total]_vars
  BY <1>1
<1> QED
  BY <1>2, Invariance, PTL DEF Spec, DeletionKeepsEntries
=============================================================================
