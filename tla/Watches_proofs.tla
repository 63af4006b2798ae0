--------------------------- MODULE Watches_proofs ---------------------------
(***************************************************************************)
(* Proofs about Watches, for days and hours of any length.  A plan that is  *)
(* in force has all its days, so that the clock finds the next watch in     *)
(* time; and as long as no edit has left a watch of no minute, or of 24 hours *)
(* and more, what the edits leave in the grid is a filled day, which goes    *)
(* back to its place in the file.  In a plan just calculated stars keep their time and crews take *)
(* turns.                                                                  *)
(***************************************************************************)
EXTENDS Watches, Recursion

\* A plan has the base and the days of the trip it was calculated for.
Numbered ==
  /\ \A file \in {watchListFile, disk} : file # <<>> => 0..header.trip \subseteq days(file)
  /\ watchListFile # <<>> /\ ~fields => trip = header.trip

\* The clock is past the end of the current watch for no more than the minute
\* in which the last change blocks the next.
OnTime ==
  watchListFile # <<>> /\ ActualWatch.active =>
    now < ActualWatch.end \/ (now = ActualWatch.end /\ line = NoLine /\ wmin = now % HourLength)

AInv == TypeOK /\ Numbered /\ OnTime

\* A day of two watches and more
RunsOn(ws) ==
  Len(ws) > 1 /\ Filled(ws) /\ \A i \in DOMAIN ws : ws[i].len \in 1..(DayLength - 1)
Ordered(file) == \A i, k \in DOMAIN file : i <= k => file[i].day <= file[k].day
Good(file) == Ordered(file) /\ \A d \in days(file) : RunsOn(page(file, d))

InPlace ==
  whole =>
    /\ Good(watchListFile) /\ Good(disk)
    /\ watchListFile # <<>> =>
         day \in days(watchListFile) /\ linenoStart = getDayOne(watchListFile, day)
    /\ Len(grid) > 1 => RunsOn(grid)
    /\ Len(grid) = 1 => watchListFile = <<>> /\ ~calculate

IInv == AInv /\ InPlace
-----------------------------------------------------------------------------
(* Watches one after the other.                                            *)

LEMMA Numbers ==
  /\ DayLength \in Nat \ {0} /\ HourLength \in Nat \ {0, 1} /\ LoadLimit \in Nat \ {0}
  /\ Lengths \subseteq 0..(DayLength - 1) /\ Misread \in Nat
  /\ Starts \subseteq Int /\ FirstTime \in Int
  /\ Trips \subseteq Nat \ {0} /\ FirstTrip \in Trips
  /\ MaxClock \in Nat /\ MaxEdits \in Nat
BY LengthsAssumption

LEMMA DateFacts ==
  ASSUME NEW t \in Int
  PROVE  date(t) \in Int /\ DayLength * date(t) \in Int
<1>1. date(t) \in Int
  BY Numbers, DivMod DEF date
<1> QED
  BY <1>1, Numbers

LEMMA FieldFacts ==
  ASSUME NEW w \in Watch
  PROVE  /\ w.len \in Nat /\ w.start \in Int /\ w.date \in Int
         /\ w.crew \in Crews \cup {Nobody} /\ w.star \in Stars \cup {Nobody}
BY DEF Watch

LEMMA TimeFacts ==
  ASSUME NEW w \in Watch
  PROVE  /\ w.len \in Nat /\ w.start \in Int
         /\ until(w) \in Int /\ until(w) = w.start + w.len
         /\ w.start + w.len - 1 \in Int
<1>1. w.len \in Nat /\ w.start \in Int
  BY FieldFacts
<1> QED
  BY <1>1 DEF until

LEMMA SetFacts ==
  ASSUME NEW w \in Watch
  PROVE  /\ \A n \in Nat : [w EXCEPT !.len = n] \in Watch
         /\ \A x \in Crews \cup {Nobody}, y \in Stars \cup {Nobody} :
              [w EXCEPT !.crew = x, !.star = y] \in Watch
<1>1. \A n \in Nat : [w EXCEPT !.len = n] \in Watch
  BY DEF Watch
<1>2. ASSUME NEW x \in Crews \cup {Nobody}, NEW y \in Stars \cup {Nobody}
      PROVE  [w EXCEPT !.crew = x, !.star = y] \in Watch
  BY DEF Watch
<1> QED
  BY <1>1, <1>2

LEMMA HoursFacts ==
  ASSUME NEW l \in Nat
  PROVE  hours(l) \in Nat
BY Numbers DEF hours

\* A watch that has moved
Moved(w, v) == v \in Watch /\ v.len = w.len /\ v.crew = w.crew /\ v.star = w.star

LEMMA DatedFacts ==
  ASSUME NEW w \in Watch
  PROVE  Moved(w, dated(w)) /\ dated(w).start = w.start
<1> DEFINE t == DayLength * date(w.start + w.len - 1)
<1>1. t \in Int
  <2>1. w.start + w.len - 1 \in Int
    BY TimeFacts
  <2> QED
    BY <2>1, DateFacts
<1>2. dated(w) = [w EXCEPT !.date = t]
  BY DEF dated
<1> HIDE DEF t
<1> QED
  BY <1>1, <1>2 DEF Moved, Watch

LEMMA ChainedFacts ==
  ASSUME NEW ws \in Seq(Watch), NEW s \in Int
  PROVE  LET c == chained(ws, s) IN
         /\ c \in Seq(Watch) /\ Len(c) = Len(ws) /\ DOMAIN c = 1..Len(ws)
         /\ \A i \in DOMAIN c : Moved(ws[i], c[i])
         /\ Len(ws) > 0 => c[1].start = s
         /\ \A i \in 2..Len(ws) : c[i].start = until(c[i - 1])
<1> DEFINE n == Len(ws)
           step(x, i) == x + ws[i].len
           h == [x \in Int \X (1..n) |-> step(x[1], x[2])]
           E(f) == [i \in 0..n |-> IF i = 0 THEN s ELSE step(f[i - 1], i)]
           end == CHOOSE f : f = E(f)
           c == chained(ws, s)
<1>1. n \in Nat /\ DOMAIN ws = 1..n /\ \A i \in 1..n : ws[i] \in Watch
  BY ListFacts
<1>2. c = [i \in DOMAIN ws |-> dated([ws[i] EXCEPT !.start = end[i - 1]])]
  BY DEF chained
<1>3. \A x \in Int, i \in 1..n : step(x, i) \in Int
  <2> HIDE DEF n
  <2>1. \A i \in 1..n : ws[i].len \in Nat
    BY <1>1, FieldFacts
  <2> QED
    BY <2>1
<1> HIDE DEF n, c
<1>4. h \in [Int \X (1..n) -> Int]
  BY <1>3
<1>5. \A x \in Int, i \in 1..n : h[<<x, i>>] = step(x, i)
  OBVIOUS
<1> HIDE DEF h
<1>6. PICK f : Iterates(f, h, Int, s, n)
  <2>1. IsStep(h, Int, n)
    BY <1>4 DEF IsStep
  <2> QED
    BY <1>1, <2>1, Iteration
<1>7. f = E(f)
  <2>1. ASSUME NEW i \in 0..n
        PROVE  f[i] = IF i = 0 THEN s ELSE step(f[i - 1], i)
    <3>1. CASE i = 0
      BY <1>6, <3>1 DEF Iterates
    <3>2. CASE i # 0
      <4>1. i \in 1..n /\ i - 1 \in 0..n
        BY <1>1, <3>2
      <4>2. f[i - 1] \in Int /\ f[i] = h[<<f[i - 1], i>>]
        BY <1>6, <4>1 DEF Iterates
      <4> HIDE DEF step
      <4> QED
        BY <1>5, <3>2, <4>1, <4>2
    <3> QED
      BY <3>1, <3>2
  <2> HIDE DEF step
  <2> QED
    BY <1>6, <2>1 DEF Iterates
<1>8. end = E(end)
  BY <1>7
<1> HIDE DEF end
<1>9. /\ end[0] = s
      /\ \A i \in 1..n : end[i] = end[i - 1] + ws[i].len
  BY <1>1, <1>8
<1> DEFINE S == {i \in 0..n : end[i] \in Int}
<1>10. \A i \in 0..n : i \in S
  <2>1. 0 \in S
    BY <1>1, <1>9
  <2>2. ASSUME NEW i \in 1..n, i - 1 \in S PROVE i \in S
    <3>1. end[i - 1] \in Int /\ i \in 0..n
      BY <1>1, <2>2
    <3>2. ws[i].len \in Nat
      BY <1>1, FieldFacts
    <3>3. end[i] \in Int
      BY <1>9, <3>1, <3>2
    <3> QED
      BY <3>1, <3>3
  <2> HIDE DEF S
  <2> QED
    BY <1>1, <2>1, <2>2, InductionTo
<1>11. ASSUME NEW i \in 1..n
       PROVE  Moved(ws[i], c[i]) /\ c[i].start = end[i - 1]
  <2> DEFINE v == [ws[i] EXCEPT !.start = end[i - 1]]
  <2>1. i - 1 \in 0..n
    BY <1>1
  <2>2. end[i - 1] \in Int
    BY <1>10, <2>1
  <2>3. v \in Watch /\ v.len = ws[i].len /\ v.crew = ws[i].crew /\ v.star = ws[i].star
        /\ v.start = end[i - 1]
    BY <1>1, <2>2 DEF Watch
  <2>4. c[i] = dated(v)
    BY <1>1, <1>2
  <2> HIDE DEF v
  <2> QED
    BY <2>3, <2>4, DatedFacts DEF Moved
<1>12. c \in [1..n -> Watch]
  BY <1>1, <1>2, <1>11 DEF Moved
<1>13. c \in Seq(Watch) /\ Len(c) = n /\ DOMAIN c = 1..n
  BY <1>1, <1>12, FcnIsSeq
<1>14. n > 0 => c[1].start = s
  <2>1. n > 0 => 1 \in 1..n /\ 1 - 1 = 0
    BY <1>1
  <2> QED
    BY <1>9, <1>11, <2>1
<1>15. ASSUME NEW i \in 2..n PROVE c[i].start = until(c[i - 1])
  <2>1. i \in 1..n /\ i - 1 \in 1..n
    BY <1>1
  <2> QED
    BY <1>9, <1>11, <2>1 DEF Moved, until
<1> QED
  BY <1>1, <1>11, <1>13, <1>14, <1>15 DEF n, c

\* A watch that would last beyond the day that starts at s
LEMMA ShortenedFacts ==
  ASSUME NEW w \in Watch, NEW s \in Int,
         w.start <= s + DayLength, until(w) > s + DayLength
  PROVE  LET v == shortened(w, s) IN
         /\ v \in Watch /\ v.start = w.start
         /\ until(v) % DayLength = s % DayLength
         /\ s <= w.start /\ v.len < DayLength => until(v) = s + DayLength
<1> DEFINE D == DayLength
           q == date(w.start + w.len - 1)
           n == D * q + (s % D) - w.start
           x == [w EXCEPT !.len = n]
           v == shortened(w, s)
<1>1. /\ D \in Nat \ {0} /\ w.start \in Int /\ w.len \in Nat
      /\ w.start + w.len - 1 \in Int
  BY Numbers, TimeFacts
<1>2. /\ s \div D \in Int /\ s % D \in 0..(D - 1) /\ s = D * (s \div D) + (s % D)
  BY <1>1, DivMod
<1>3. /\ q \in Int /\ (w.start + w.len - 1) % D \in 0..(D - 1)
      /\ w.start + w.len - 1 = D * q + ((w.start + w.len - 1) % D)
  BY <1>1, DivMod DEF date
<1>4. v = dated(x)
  BY DEF shortened
<1>5. w.start + w.len > s + D
  BY DEF until
<1> DEFINE r == (w.start + w.len - 1) % D
           p == s \div D
           o == s % D
<1>6. r \in 0..(D - 1) /\ w.start + w.len - 1 = D * q + r
  BY <1>3
<1>7. p \in Int /\ o \in 0..(D - 1) /\ s = D * p + o
  BY <1>2
<1> HIDE DEF D, q, r, p, o
<1>8. q >= p + 1
  <2> SUFFICES ASSUME q <= p PROVE FALSE
    BY <1>3, <1>7
  <2>1. D * q <= D * p
    BY <1>1, <1>3, <1>7
  <2>2. D * q \in Int /\ D * p \in Int
    BY <1>1, <1>3, <1>7
  <2>3. D * q + r >= s + D
    BY <1>1, <1>5, <1>6, <1>7, <2>2
  <2> QED
    BY <1>1, <1>6, <1>7, <2>1, <2>2, <2>3
<1>9. D * q >= D * p + D /\ D * q \in Int /\ D * p \in Int
  <2>1. D * (p + 1) = D * p + D /\ D * q >= D * (p + 1)
    BY <1>1, <1>3, <1>7, <1>8
  <2> QED
    BY <1>1, <1>3, <1>7, <2>1
<1>10. D * q + o >= s + D
  BY <1>1, <1>7, <1>9
<1>11. n = D * q + o - w.start
  BY DEF o
<1>12. n \in Nat
  <2>1. w.start <= s + D
    BY DEF D
  <2> QED
    BY <1>1, <1>7, <1>9, <1>10, <1>11, <2>1
<1> HIDE DEF n
<1>13. x \in Watch /\ x.start = w.start /\ x.len = n
  BY <1>12 DEF Watch
<1> HIDE DEF x
<1>14. v \in Watch /\ v.start = w.start /\ v.len = n
  BY <1>4, <1>13, DatedFacts DEF Moved
<1>15. until(v) = D * q + o
  BY <1>1, <1>7, <1>9, <1>11, <1>14 DEF until
<1>16. until(v) % D = o
  BY <1>1, <1>3, <1>7, <1>15, ModOf
<1>17. ASSUME s <= w.start, n < D PROVE until(v) = s + D
  <2>1. q = p + 1
    <3> SUFFICES ASSUME q >= p + 2 PROVE FALSE
      BY <1>3, <1>7, <1>8
    <3>1. D * (p + 2) = D * p + D + D /\ D * q >= D * (p + 2)
      BY <1>1, <1>3, <1>7
    <3>2. D * q + o >= s + D + D
      BY <1>1, <1>7, <1>9, <3>1
    <3>3. w.start <= s + D
      BY DEF D
    <3> QED
      BY <1>1, <1>7, <1>9, <1>11, <1>17, <3>2, <3>3
  <2>2. D * (p + 1) = D * p + D
    BY <1>1, <1>7
  <2> QED
    BY <1>1, <1>7, <1>9, <1>15, <2>1, <2>2
<1> QED
  BY <1>14, <1>16, <1>17 DEF D, o, v

LEMMA Congruent ==
  ASSUME NEW d \in Nat \ {0}, NEW s \in Int, NEW u \in Int,
         u % d = s % d, s < u, u <= s + d
  PROVE  u = s + d
<1> DEFINE p == u \div d
           q == s \div d
           r == s % d
<1>1. p \in Int /\ q \in Int /\ r \in 0..(d - 1) /\ u = d * p + r /\ s = d * q + r
  BY DivMod
<1> HIDE DEF p, q, r
<1>2. d * p \in Int /\ d * q \in Int /\ d * p > d * q /\ d * p <= d * q + d
  BY <1>1
<1>3. p > q
  <2> SUFFICES ASSUME p <= q PROVE FALSE
    BY <1>1
  <2>1. d * p <= d * q
    BY <1>1
  <2> QED
    BY <1>2, <2>1
<1>4. p <= q + 1
  <2> SUFFICES ASSUME p >= q + 2 PROVE FALSE
    BY <1>1
  <2>1. d * (q + 2) = d * q + d + d /\ d * p >= d * (q + 2)
    BY <1>1
  <2> QED
    BY <1>2, <2>1
<1>5. p = q + 1
  BY <1>1, <1>3, <1>4
<1>6. d * (q + 1) = d * q + d
  BY <1>1
<1> QED
  BY <1>1, <1>2, <1>5, <1>6

LEMMA Remainder ==
  ASSUME NEW d \in Nat \ {0}, NEW a \in Nat, NEW q \in 0..(d - 1)
  PROVE  (d * a + q) % d = q
<1> DEFINE z == d * a + q
<1>1. z \in Int /\ d * a \in Nat
  OBVIOUS
<1>2. /\ z \div d \in Int /\ z % d \in 0..(d - 1)
      /\ z = d * (z \div d) + (z % d)
  <2> HIDE DEF z
  <2> QED
    BY <1>1, DivMod
<1>3. d * (z \div d) - d * a = q - (z % d)
  BY <1>1, <1>2
<1> DEFINE b == z \div d
           y == z % d
<1>4. b \in Int /\ y \in 0..(d - 1) /\ d * b = d * a + (q - y) /\ d * b \in Int
  BY <1>1, <1>2, <1>3
<1> HIDE DEF z, b, y
<1>5. ~(b >= a + 1)
  <2> SUFFICES ASSUME b >= a + 1 PROVE FALSE
    OBVIOUS
  <2>1. d * b >= d * (a + 1) /\ d * (a + 1) = d * a + d
    BY <1>4
  <2> QED
    BY <1>1, <1>4, <2>1
<1>6. ~(b <= a - 1)
  <2> SUFFICES ASSUME b <= a - 1 PROVE FALSE
    OBVIOUS
  <2>1. d * b <= d * (a - 1) /\ d * (a - 1) = d * a - d
    BY <1>4
  <2> QED
    BY <1>1, <1>4, <2>1
<1>7. b = a
  BY <1>4, <1>5, <1>6
<1>8. y = q
  BY <1>1, <1>4, <1>7
<1> QED
  BY <1>8 DEF y, z

LEMMA EmptyFacts ==
  ASSUME NEW n \in Nat
  PROVE  empty(n) \in Watch /\ empty(n).len = n
BY DEF empty, Watch

\* No watch of a chain starts before the first.
LEMMA ChainGrows ==
  ASSUME NEW c \in Seq(Watch), NEW s \in Int, Len(c) > 0, c[1].start = s,
         \A i \in 2..Len(c) : c[i].start = until(c[i - 1])
  PROVE  \A i \in 1..Len(c) : c[i].start >= s
<1> DEFINE n == Len(c)
           S == {i \in 0..n : i = 0 \/ c[i].start >= s}
<1>1. n \in Nat /\ \A i \in 1..n : c[i] \in Watch
  BY ListFacts
<1>2. 0 \in S
  BY <1>1
<1>3. ASSUME NEW i \in 1..n, i - 1 \in S PROVE i \in S
  <2>1. CASE i = 1
    <3>1. s >= s
      OBVIOUS
    <3> QED
      BY <1>1, <2>1, <3>1
  <2>2. CASE i # 1
    <3> DEFINE v == c[i - 1]
    <3>1. i \in 2..n /\ i - 1 \in 1..n
      BY <1>1, <2>2
    <3>2. v \in Watch /\ v.start >= s /\ c[i].start = until(v)
      BY <1>1, <1>3, <3>1
    <3> HIDE DEF v
    <3>3. v.len \in Nat /\ v.start \in Int /\ until(v) = v.start + v.len
      BY <3>2, TimeFacts
    <3>4. until(v) >= s
      BY <3>2, <3>3
    <3> QED
      BY <3>1, <3>2, <3>4
  <2> QED
    BY <2>1, <2>2
<1> HIDE DEF S
<1>4. \A i \in 0..n : i \in S
  BY <1>1, <1>2, <1>3, InductionTo
<1> QED
  BY <1>1, <1>4 DEF S

\* Two chains of the same lengths from the same start
LEMMA ChainsAgree ==
  ASSUME NEW c \in Seq(Watch), NEW e \in Seq(Watch), NEW n \in Nat,
         n <= Len(c), n <= Len(e), n > 0, c[1].start = e[1].start,
         \A i \in 2..Len(c) : c[i].start = until(c[i - 1]),
         \A i \in 2..Len(e) : e[i].start = until(e[i - 1]),
         \A i \in 1..n : c[i].len = e[i].len
  PROVE  \A i \in 1..n : c[i].start = e[i].start /\ until(c[i]) = until(e[i])
<1> DEFINE S == {i \in 0..n : i = 0 \/ (c[i].start = e[i].start /\ until(c[i]) = until(e[i]))}
<1>1. Len(c) \in Nat /\ Len(e) \in Nat
  BY ListFacts
<1>2. 0 \in S
  OBVIOUS
<1>3. ASSUME NEW i \in 1..n, i - 1 \in S PROVE i \in S
  <2>1. c[i].start = e[i].start
    <3>1. CASE i = 1
      BY <3>1
    <3>2. CASE i # 1
      <4>1. i \in 2..Len(c) /\ i \in 2..Len(e) /\ i - 1 # 0
        BY <1>1, <3>2
      <4>2. until(c[i - 1]) = until(e[i - 1])
        BY <1>3, <4>1
      <4> QED
        BY <4>1, <4>2
    <3> QED
      BY <3>1, <3>2
  <2>2. until(c[i]) = until(e[i])
    BY <2>1 DEF until
  <2> QED
    BY <2>1, <2>2
<1> HIDE DEF S
<1>4. \A i \in 0..n : i \in S
  BY <1>2, <1>3, InductionTo
<1> QED
  BY <1>4 DEF S

LEMMA UpdateFacts ==
  ASSUME NEW ws \in Seq(Watch), NEW s \in Int, Len(ws) > 0
  PROVE  LET new == updateWatchTime(ws, s) IN
         /\ new \in Seq(Watch) /\ Len(new) > 0
         /\ Len(ws) > 1 /\ (\A j \in DOMAIN new : new[j].len \in 1..(DayLength - 1))
              => RunsOn(new)
         /\ Len(ws) = 1 => new = ws
<1> DEFINE D == DayLength
           n == Len(ws)
           all == chained(ws, s)
           over == {i \in DOMAIN ws : until(all[i]) > s + D}
           rest == s + D - until(Last(all))
           new == updateWatchTime(ws, s)
<1>1. D \in Nat \ {0} /\ n \in Nat /\ n > 0 /\ DOMAIN ws = 1..n
  BY Numbers, ListFacts
<1>2. /\ all \in Seq(Watch) /\ Len(all) = n /\ DOMAIN all = 1..n
      /\ all[1].start = s
      /\ \A i \in 2..n : all[i].start = until(all[i - 1])
  BY ChainedFacts
<1> HIDE DEF all
<1>3. \A i \in 1..n : all[i] \in Watch /\ all[i].start >= s
  BY <1>1, <1>2, ChainGrows, ListFacts
<1>4. Last(all) = all[n]
  BY <1>2 DEF Last
<1> HIDE DEF n, D, rest
<1>5. CASE n = 1
  BY <1>1, <1>5 DEF n, updateWatchTime
<1>6. CASE n # 1 /\ over # {}
  <2> DEFINE i == Min(over)
             v == shortened(all[i], s)
             head == SubSeq(all, 1, i - 1)
             cut == Append(head, v)
             T == {x \in 1..i : until(cut[x]) % D = s % D}
             m == Min(T)
  <2>1. new = SubSeq(cut, 1, m)
    BY <1>6 DEF updateWatchTime, D, n, all
  <2> HIDE DEF new
  <2>2. i \in 1..n /\ i \in Nat \ {0} /\ until(all[i]) > s + D
    <3>1. over \subseteq Nat
      BY <1>1
    <3>2. i \in over
      <4> HIDE DEF over
      <4> QED
        BY <1>6, <3>1, FirstOfThem
    <3> QED
      BY <1>1, <3>2
  <2>3. ASSUME NEW x \in 1..(i - 1) PROVE x \in 1..n /\ until(all[x]) <= s + D
    <3>1. over \subseteq Nat /\ (\A y \in over : i <= y)
      <4>1. over \subseteq Nat
        BY <1>1
      <4> HIDE DEF over
      <4> QED
        BY <1>6, <4>1, FirstOfThem
    <3> DEFINE k == i
    <3>2. k \in 1..n /\ x \in 1..(k - 1)
      BY <2>2
    <3> HIDE DEF k
    <3>3. x \in 1..n /\ x < k
      BY <1>1, <3>2
    <3>4. x \notin over
      <4>1. \A y \in over : k <= y
        BY <3>1 DEF k
      <4> HIDE DEF over
      <4> QED
        BY <1>1, <3>2, <3>3, <4>1
    <3>5. until(all[x]) \in Int /\ s + D \in Int
      BY <1>1, <1>3, <3>3, TimeFacts
    <3> QED
      BY <1>1, <3>3, <3>4, <3>5
  <2> HIDE DEF over, i
  <2>4. all[i].start <= s + D
    <3>1. CASE i = 1
      BY <1>1, <1>2, <3>1
    <3>2. CASE i # 1
      <4>1. i \in 2..n /\ i - 1 \in 1..(i - 1)
        BY <1>1, <2>2, <3>2
      <4> QED
        BY <1>2, <2>3, <4>1
    <3> QED
      BY <3>1, <3>2
  <2>5. /\ v \in Watch /\ v.start = all[i].start
        /\ until(v) % D = s % D
        /\ v.len < D => until(v) = s + D
    <3>1. all[i] \in Watch /\ s <= all[i].start
      BY <1>3, <2>2
    <3> QED
      BY <2>2, <2>4, <3>1, ShortenedFacts DEF D
  <2> HIDE DEF v
  <2>6. /\ head \in Seq(Watch) /\ Len(head) = i - 1
        /\ \A x \in 1..(i - 1) : head[x] = all[x]
    <3>1. i - 1 \in Nat /\ i - 1 <= Len(all) /\ 1 \in Nat \ {0}
      BY <1>1, <1>2, <2>2
    <3>2. /\ head \in Seq(Watch)
          /\ Len(head) = IF 1 <= i - 1 THEN (i - 1) - 1 + 1 ELSE 0
          /\ \A x \in 1..Len(head) : head[x] = all[1 + x - 1]
      BY <1>2, <3>1, PartFacts
    <3>3. Len(head) = i - 1
      BY <2>2, <3>2
    <3> QED
      BY <2>2, <3>2, <3>3
  <2> HIDE DEF head
  <2>7. /\ cut \in Seq(Watch) /\ Len(cut) = i /\ cut[i] = v
        /\ \A x \in 1..(i - 1) : cut[x] = all[x]
    <3>1. DOMAIN head = 1..(i - 1) /\ (i - 1) + 1 = i
      BY <2>2, <2>6, ListFacts
    <3> QED
      BY <2>5, <2>6, <3>1, AppendFacts
  <2> HIDE DEF cut
  <2>8. m \in 1..i /\ until(cut[m]) % D = s % D
    <3>1. i \in T /\ T \subseteq Nat
      BY <2>2, <2>5, <2>7
    <3>2. m \in T
      <4> HIDE DEF T
      <4> QED
        BY <3>1, FirstOfThem
    <3> QED
      BY <3>2
  <2> HIDE DEF m
  <2>9. /\ new \in Seq(Watch) /\ Len(new) = m
        /\ \A x \in 1..m : new[x] = cut[x]
    <3>1. m \in Nat /\ m <= Len(cut) /\ 1 \in Nat \ {0} /\ 1 <= m
      BY <2>2, <2>7, <2>8
    <3>2. /\ new \in Seq(Watch) /\ Len(new) = m - 1 + 1
          /\ \A x \in 1..Len(new) : new[x] = cut[1 + x - 1]
      BY <2>1, <2>7, <3>1, PartFacts
    <3> QED
      BY <3>1, <3>2
  <2>10. new[1].start = s
    <3>1. CASE i = 1
      BY <1>2, <2>5, <2>7, <2>8, <2>9, <3>1
    <3>2. CASE i # 1
      <4>1. 1 \in 1..(i - 1) /\ 1 \in 1..m
        BY <2>2, <2>8, <3>2
      <4> QED
        BY <1>2, <2>7, <2>9, <4>1
    <3> QED
      BY <3>1, <3>2
  <2>11. ASSUME NEW x \in 2..m PROVE new[x].start = until(new[x - 1])
    <3>1. /\ x \in 1..m /\ x - 1 \in 1..m /\ x \in 2..n
          /\ x - 1 \in 1..(i - 1)
          /\ x = i \/ x \in 1..(i - 1)
      BY <1>1, <2>2, <2>8
    <3>2. new[x - 1] = all[x - 1] /\ new[x].start = all[x].start
      BY <2>5, <2>7, <2>9, <3>1
    <3> QED
      BY <1>2, <3>1, <3>2
  <2>12. ASSUME \A j \in DOMAIN new : new[j].len \in 1..(D - 1)
         PROVE  RunsOn(new)
    <3>1. DOMAIN new = 1..m /\ m \in 1..m
      BY <2>8, <2>9, ListFacts
    <3>2. until(new[m]) = s + D
      <4>1. new[m] = cut[m] /\ new[m].len \in 1..(D - 1)
        BY <2>9, <2>12, <3>1
      <4>2. CASE m = i
        BY <1>1, <2>5, <2>7, <4>1, <4>2
      <4>3. CASE m # i
        <5>1. m \in 1..(i - 1) /\ m \in 1..n
          BY <1>1, <2>2, <2>8, <4>3
        <5>2. new[m] = all[m] /\ until(all[m]) <= s + D
          BY <2>3, <2>7, <4>1, <5>1
        <5>3. /\ all[m].start >= s /\ all[m].start \in Int /\ until(all[m]) \in Int
              /\ until(all[m]) = all[m].start + all[m].len
          BY <1>3, <5>1, TimeFacts
        <5>4. s < until(all[m])
          BY <1>1, <4>1, <5>2, <5>3
        <5>5. until(all[m]) % D = s % D
          BY <2>8, <4>1, <5>2
        <5> QED
          BY <1>1, <5>2, <5>3, <5>4, <5>5, Congruent
      <4> QED
        BY <4>2, <4>3
    <3>3. m > 1
      <4> SUFFICES ASSUME m = 1 PROVE FALSE
        BY <2>8
      <4>1. new[1] \in Watch /\ new[1].len \in 1..(D - 1)
        BY <2>9, <2>12, <3>1, ListFacts
      <4>2. until(new[1]) = s + new[1].len
        BY <2>10 DEF until
      <4> QED
        BY <1>1, <3>2, <4>1, <4>2
    <3>4. until(new[m]) - new[1].start \in {D - 1, D}
      BY <1>1, <2>10, <3>2
    <3>5. \A j \in DOMAIN new : new[j].len \in 1..(D - 1)
      BY <2>12
    <3> QED
      BY <2>9, <2>11, <3>3, <3>4, <3>5 DEF RunsOn, Filled, D
  <2> QED
    BY <1>6, <2>8, <2>9, <2>12 DEF n, D, new
<1>7. CASE n # 1 /\ over = {} /\ rest > 1
  <2> DEFINE e == empty(rest)
             longer == Append(all, e)
             c == chained(longer, s)
  <2>1. new = c
    BY <1>7 DEF updateWatchTime, D, n, all, rest
  <2>2. until(all[n]) \in Int /\ rest = s + D - until(all[n]) /\ rest \in Nat
    <3>1. n \in 1..n
      BY <1>1
    <3>2. until(all[n]) \in Int
      BY <1>3, <3>1, TimeFacts
    <3>3. rest = s + D - until(all[n])
      BY <1>4 DEF rest
    <3> QED
      BY <1>1, <1>7, <3>2, <3>3
  <2>3. e \in Watch /\ e.len = rest
    BY <2>2, EmptyFacts
  <2> HIDE DEF e
  <2>4. /\ longer \in Seq(Watch) /\ Len(longer) = n + 1
        /\ longer[n + 1] = e /\ \A i \in 1..n : longer[i] = all[i]
    BY <1>2, <2>3, AppendFacts
  <2> HIDE DEF longer
  <2>5. /\ c \in Seq(Watch) /\ Len(c) = n + 1 /\ DOMAIN c = 1..(n + 1)
        /\ \A i \in 1..(n + 1) : c[i].len = longer[i].len
        /\ c[1].start = s
        /\ \A i \in 2..(n + 1) : c[i].start = until(c[i - 1])
    <3>1. Len(longer) > 0 /\ 1..Len(longer) = 1..(n + 1)
      BY <1>1, <2>4
    <3>2. /\ c \in Seq(Watch) /\ Len(c) = Len(longer) /\ DOMAIN c = 1..Len(longer)
          /\ \A i \in DOMAIN c : Moved(longer[i], c[i])
          /\ Len(longer) > 0 => c[1].start = s
          /\ \A i \in 2..Len(longer) : c[i].start = until(c[i - 1])
      BY <2>4, ChainedFacts
    <3>3. \A i \in DOMAIN c : c[i].len = longer[i].len
      BY <3>2 DEF Moved
    <3> HIDE DEF c
    <3> QED
      BY <2>4, <3>1, <3>2, <3>3
  <2> HIDE DEF c
  <2>6. until(c[n]) = until(all[n])
    <3>1. \A i \in 1..n : c[i].len = all[i].len
      BY <1>1, <2>4, <2>5
    <3>2. n <= Len(c) /\ n <= Len(all) /\ c[1].start = all[1].start
      BY <1>1, <1>2, <2>5
    <3>3. n \in 1..n
      BY <1>1
    <3>4. /\ \A i \in 2..Len(c) : c[i].start = until(c[i - 1])
          /\ \A i \in 2..Len(all) : all[i].start = until(all[i - 1])
      BY <1>2, <2>5
    <3> QED
      BY <1>1, <1>2, <2>5, <3>1, <3>2, <3>3, <3>4, ChainsAgree
  <2>7. until(c[n + 1]) = s + D
    <3>1. n + 1 \in 2..(n + 1) /\ (n + 1) - 1 = n /\ n + 1 \in 1..(n + 1)
      BY <1>1
    <3>2. c[n + 1].start = until(all[n]) /\ c[n + 1].len = rest
      BY <2>3, <2>4, <2>5, <2>6, <3>1
    <3>3. until(c[n + 1]) = until(all[n]) + rest
      BY <3>2 DEF until
    <3> QED
      BY <1>1, <2>2, <3>3
  <2>8. until(c[Len(c)]) - c[1].start \in {D - 1, D}
    BY <1>1, <2>5, <2>7
  <2>9. c \in Seq(Watch) /\ Len(c) > 1
    BY <1>1, <2>5
  <2>10. ASSUME \A j \in DOMAIN c : c[j].len \in 1..(D - 1) PROVE RunsOn(c)
    BY <2>5, <2>8, <2>9, <2>10 DEF RunsOn, Filled, D
  <2> QED
    BY <1>7, <2>1, <2>9, <2>10 DEF n, D, new
<1>8. CASE n # 1 /\ over = {} /\ ~(rest > 1)
  <2>1. new = all
    BY <1>8 DEF updateWatchTime, D, n, all, rest
  <2>2. /\ until(all[n]) \in Int /\ until(all[n]) <= s + D
        /\ rest = s + D - until(all[n])
    <3>1. n \in 1..n /\ n \notin over
      BY <1>1, <1>8
    <3>2. until(all[n]) \in Int
      BY <1>3, <3>1, TimeFacts
    <3>3. until(all[n]) <= s + D
      BY <1>1, <3>1, <3>2
    <3> QED
      BY <1>4, <3>2, <3>3 DEF rest
  <2>3. until(all[n]) - all[1].start \in {D - 1, D}
    BY <1>1, <1>2, <1>8, <2>2
  <2>4. ASSUME \A j \in DOMAIN all : all[j].len \in 1..(D - 1) PROVE RunsOn(all)
    <3>1. n > 1
      BY <1>1, <1>8
    <3> QED
      BY <1>2, <2>3, <2>4, <3>1 DEF RunsOn, Filled, D
  <2> QED
    BY <1>1, <1>2, <1>8, <2>1, <2>4 DEF n, D, new
<1> QED
  BY <1>5, <1>6, <1>7, <1>8

\* A day whose watches keep their times stays filled.
LEMMA SameTimes ==
  ASSUME NEW ws \in Seq(Watch), NEW vs \in Seq(Watch), Len(vs) = Len(ws), RunsOn(ws),
         \A i \in DOMAIN ws : vs[i].start = ws[i].start /\ vs[i].len = ws[i].len
  PROVE  RunsOn(vs)
<1>1. /\ Len(ws) \in Nat /\ DOMAIN ws = 1..Len(ws) /\ DOMAIN vs = 1..Len(ws)
      /\ Len(ws) > 1
  BY ListFacts DEF RunsOn
<1>2. \A i \in DOMAIN ws : until(vs[i]) = until(ws[i]) /\ vs[i].len \in 1..(DayLength - 1)
  BY DEF until, RunsOn
<1>3. ASSUME NEW i \in 2..Len(vs) PROVE vs[i].start = until(vs[i - 1])
  <2>1. i \in DOMAIN ws /\ i - 1 \in DOMAIN ws /\ i \in 2..Len(ws)
    BY <1>1
  <2>2. ws[i].start = until(ws[i - 1])
    BY <2>1 DEF RunsOn, Filled
  <2> QED
    BY <1>2, <2>1, <2>2
<1>4. until(vs[Len(vs)]) - vs[1].start \in {DayLength - 1, DayLength}
  <2>1. Len(ws) \in DOMAIN ws /\ 1 \in DOMAIN ws
    BY <1>1
  <2>2. until(ws[Len(ws)]) - ws[1].start \in {DayLength - 1, DayLength}
    BY DEF RunsOn, Filled
  <2> QED
    BY <1>2, <2>1, <2>2
<1> QED
  BY <1>1, <1>2, <1>3, <1>4 DEF RunsOn, Filled

\* The watches as they are read differ in the time of those of 24 hours and more.
LEMMA ReadOut ==
  ASSUME NEW ws \in Seq(Watch)
  PROVE  LET c == read(ws) IN
         /\ c \in Seq(Watch) /\ Len(c) = Len(ws) /\ DOMAIN c = DOMAIN ws
         /\ \A i \in DOMAIN ws :
              c[i].start = ws[i].start /\ c[i].crew = ws[i].crew /\ c[i].star = ws[i].star
         /\ RunsOn(ws) => c = ws
<1> DEFINE n == Len(ws)
           c == read(ws)
<1>1. n \in Nat /\ DOMAIN ws = 1..n /\ \A i \in 1..n : ws[i] \in Watch
  BY ListFacts
<1>2. c = [i \in 1..n |-> [ws[i] EXCEPT !.len = hours(ws[i].len)]]
  BY <1>1 DEF read
<1> HIDE DEF c, n
<1>3. ASSUME NEW i \in 1..n
      PROVE  /\ c[i] \in Watch
             /\ c[i].start = ws[i].start /\ c[i].crew = ws[i].crew /\ c[i].star = ws[i].star
  <2> DEFINE l == hours(ws[i].len)
             w == ws[i]
  <2>1. w \in Watch /\ l \in Nat
    BY <1>1, FieldFacts, HoursFacts
  <2>2. c[i] = [w EXCEPT !.len = l]
    BY <1>2
  <2> HIDE DEF l
  <2> QED
    BY <2>1, <2>2 DEF Watch
<1>4. c \in [1..n -> Watch]
  BY <1>2, <1>3
<1>5. c \in Seq(Watch) /\ Len(c) = n
  BY <1>1, <1>4, FcnIsSeq
<1>6. ASSUME RunsOn(ws) PROVE c = ws
  <2>1. ASSUME NEW i \in 1..n PROVE c[i] = ws[i]
    <3>1. ws[i].len \in 1..(DayLength - 1)
      BY <1>1, <1>6 DEF RunsOn
    <3>2. hours(ws[i].len) = ws[i].len
      BY <3>1, Numbers DEF hours
    <3> QED
      BY <1>1, <1>2, <3>2 DEF Watch
  <2>2. c = [i \in 1..n |-> c[i]]
    BY <1>4
  <2>3. ws = [i \in 1..n |-> ws[i]]
    BY <1>1
  <2> QED
    BY <2>1, <2>2, <2>3
<1> QED
  BY <1>1, <1>2, <1>3, <1>5, <1>6 DEF c, n

LEMMA DefaultFacts ==
  ASSUME NEW len \in Lengths, len > 0, NEW s \in Int
  PROVE  insertDefaultCols(len, s) \in Seq(Watch) /\ RunsOn(insertDefaultCols(len, s))
<1> DEFINE D == DayLength
           n == D \div len
           rest == D % len
           equal == [i \in 1..n |-> empty(len)]
           tail == IF rest = 0 THEN <<>> ELSE <<empty(rest)>>
           list == equal \o tail
           c == chained(list, s)
           new == insertDefaultCols(len, s)
           m == IF rest = 0 THEN n ELSE n + 1
<1>1. D \in Nat \ {0} /\ len \in Nat \ {0} /\ len \in Int /\ len < D
  BY Numbers
<1>2. n \in Int /\ rest \in 0..(len - 1) /\ D = len * n + rest
  BY <1>1, DivMod
<1>3. new = [c EXCEPT ![1].date = D * date(s)]
  BY DEF insertDefaultCols
<1> HIDE DEF n, rest, new, D
<1>4. n \in Nat \ {0}
  <2> SUFFICES ASSUME n <= 0 PROVE FALSE
    BY <1>2
  <2>1. len * n <= 0 /\ len * n \in Int
    BY <1>1, <1>2
  <2> QED
    BY <1>1, <1>2, <2>1
<1>5. m \in Nat /\ m > 1
  <2> SUFFICES ASSUME n = 1, rest = 0 PROVE FALSE
    BY <1>2, <1>4
  <2>1. len * n = len
    BY <1>1
  <2> QED
    BY <1>1, <1>2, <2>1
<1>6. equal \in Seq(Watch) /\ Len(equal) = n /\ \A i \in 1..n : equal[i].len = len
  <2>1. empty(len) \in Watch /\ empty(len).len = len
    BY <1>1, EmptyFacts
  <2>2. equal \in [1..n -> Watch]
    BY <2>1
  <2> QED
    BY <1>4, <2>1, <2>2, FcnIsSeq
<1>7. /\ tail \in Seq(Watch) /\ Len(tail) = m - n
      /\ rest # 0 => tail[1].len = rest
  <2>1. empty(rest) \in Watch /\ empty(rest).len = rest
    BY <1>1, <1>2, EmptyFacts
  <2> QED
    BY <1>2, <1>4, <2>1
<1> HIDE DEF equal, tail
<1>8. /\ list \in Seq(Watch) /\ Len(list) = m
      /\ \A i \in 1..n : list[i].len = len
      /\ rest # 0 => list[n + 1].len = rest
  <2>1. /\ list \in Seq(Watch) /\ Len(list) = n + (m - n)
        /\ \A i \in 1..n : list[i] = equal[i]
        /\ \A i \in 1..(m - n) : list[n + i] = tail[i]
    BY <1>6, <1>7, JoinFacts
  <2>2. n + (m - n) = m /\ (rest # 0 => 1 \in 1..(m - n))
    BY <1>2, <1>4
  <2> QED
    BY <1>6, <1>7, <2>1, <2>2
<1> HIDE DEF list, m
<1>9. /\ c \in Seq(Watch) /\ Len(c) = m /\ DOMAIN c = 1..m
      /\ \A i \in 1..m : c[i] \in Watch /\ c[i].len = list[i].len
      /\ c[1].start = s
      /\ \A i \in 2..m : c[i].start = until(c[i - 1])
  <2>1. Len(list) > 0
    BY <1>5, <1>8
  <2> QED
    BY <1>8, <2>1, ChainedFacts DEF Moved
<1> HIDE DEF c
<1>10. m = (IF rest = 0 THEN n ELSE n + 1) /\ n <= m
  BY <1>4 DEF m
<1> DEFINE S == {i \in 0..n : i = 0 \/ until(c[i]) = s + len * i}
<1>11. 0 \in S
  BY <1>4
<1>12. ASSUME NEW i \in 1..n, i - 1 \in S PROVE i \in S
  <2>1. i \in 1..m /\ c[i].len = len
    BY <1>4, <1>5, <1>8, <1>9, <1>10
  <2>2. until(c[i]) = c[i].start + len
    BY <2>1 DEF until
  <2>3. CASE i = 1
    <3>1. until(c[i]) = s + len * i
      BY <1>1, <1>9, <2>2, <2>3
    <3> QED
      BY <3>1
  <2>4. CASE i # 1
    <3>1. i \in 2..m /\ i - 1 # 0
      BY <1>4, <1>5, <2>1, <2>4
    <3>2. c[i].start = s + len * (i - 1)
      BY <1>9, <1>12, <3>1
    <3>3. len * (i - 1) = len * i - len /\ len * i \in Int
      BY <1>1
    <3>4. until(c[i]) = s + len * i
      BY <1>1, <2>2, <3>2, <3>3
    <3> QED
      BY <3>4
  <2> QED
    BY <2>3, <2>4
<1> HIDE DEF S
<1>13. until(c[n]) = s + len * n
  <2>1. \A i \in 0..n : i \in S
    BY <1>4, <1>11, <1>12, InductionTo
  <2> QED
    BY <1>4, <2>1 DEF S
<1>14. until(c[m]) = s + D
  <2>1. CASE rest = 0
    <3>1. m = n /\ len * n \in Int
      BY <1>1, <1>2, <1>10, <2>1
    <3>2. len * n = D
      BY <1>1, <1>2, <2>1, <3>1
    <3> QED
      BY <1>13, <3>1, <3>2
  <2>2. CASE rest # 0
    <3>1. m = n + 1 /\ m \in 2..m /\ m - 1 = n /\ m \in 1..m
      BY <1>4, <1>5, <1>10, <2>2
    <3>2. c[m].start = s + len * n /\ c[m].len = rest
      BY <1>8, <1>9, <1>13, <2>2, <3>1
    <3>3. until(c[m]) = s + len * n + rest
      BY <3>2 DEF until
    <3>4. len * n \in Int
      BY <1>1, <1>2
    <3> QED
      BY <1>1, <1>2, <3>3, <3>4
  <2> QED
    BY <2>1, <2>2
<1>15. ASSUME NEW i \in 1..m PROVE c[i].len \in 1..(D - 1)
  <2>1. CASE i <= n
    BY <1>1, <1>4, <1>8, <1>9, <2>1
  <2>2. CASE ~(i <= n)
    <3>1. rest # 0 /\ i = n + 1
      BY <1>4, <1>5, <1>10, <2>2
    <3> QED
      BY <1>1, <1>2, <1>8, <1>9, <3>1
  <2> QED
    BY <2>1, <2>2
<1>16. RunsOn(c)
  <2>1. until(c[m]) - c[1].start \in {D - 1, D}
    BY <1>1, <1>9, <1>14
  <2> QED
    BY <1>5, <1>9, <1>15, <2>1 DEF RunsOn, Filled, D
<1>17. /\ new \in Seq(Watch) /\ Len(new) = m
       /\ \A i \in 1..m : new[i].start = c[i].start /\ new[i].len = c[i].len
  <2> DEFINE t == D * date(s)
             v == [c[1] EXCEPT !.date = t]
  <2>1. t \in Int /\ 1 \in 1..m
    BY <1>5, DateFacts DEF D
  <2>2. new = [c EXCEPT ![1] = v]
    BY <1>3
  <2> HIDE DEF t
  <2>3. v \in Watch /\ v.start = c[1].start /\ v.len = c[1].len
    BY <1>9, <2>1 DEF Watch
  <2> HIDE DEF v
  <2>4. /\ new \in Seq(Watch) /\ DOMAIN new = DOMAIN c
        /\ \A i \in 1..m : new[i] = IF i = 1 THEN v ELSE c[i]
    BY <1>9, <2>1, <2>2, <2>3, ExceptFacts
  <2>5. Len(new) = m
    BY <1>5, <1>9, <2>4, ListFacts
  <2> QED
    BY <2>3, <2>4, <2>5
<1> QED
  BY <1>9, <1>16, <1>17, SameTimes DEF new
-----------------------------------------------------------------------------
(* The file.                                                               *)

Line == [day: Nat, w: Watch]

\* The lines a to e are the first of the day d, and all up to another day.
Block(file, d, a, e) ==
  /\ a \in 1..Len(file) /\ e \in a..Len(file)
  /\ \A i \in 1..(a - 1) : file[i].day # d
  /\ \A i \in a..e : file[i].day = d
  /\ e < Len(file) => file[e + 1].day # d

LEMMA BlockIsPage ==
  ASSUME NEW file \in Seq(Line), NEW d, NEW a, NEW e, Block(file, d, a, e)
  PROVE  /\ getDayOne(file, d) = a
         /\ page(file, d) = [i \in 1..(e - a + 1) |-> file[a + i - 1].w]
<1> DEFINE n == Len(file)
           I == {i \in 1..n : file[i].day = d}
           other == {i \in DOMAIN file : i > a /\ file[i].day # d}
           end == IF other = {} THEN n + 1 ELSE Min(other)
<1>1. n \in Nat /\ DOMAIN file = 1..n
  BY ListFacts
<1>2. a \in 1..n /\ e \in a..n /\ a \in Int /\ e \in Int
  BY <1>1 DEF Block
<1>3. getDayOne(file, d) = a
  <2>1. a \in I /\ \A i \in I : a <= i
    BY <1>1, <1>2 DEF Block
  <2>2. Min(I) \in I /\ \A i \in I : Min(I) <= i
    <3>1. I \subseteq Nat
      BY <1>1
    <3> HIDE DEF I
    <3> QED
      BY <2>1, <3>1, FirstOfThem
  <2>3. I # {} /\ Min(I) = a
    <3>1. \A i \in I : i \in Int
      BY <1>1
    <3>2. \A i \in I : a <= i
      BY <2>1
    <3>3. a \in I
      BY <2>1
    <3> DEFINE m == Min(I)
    <3>4. m \in I /\ m <= a
      BY <2>2, <3>3
    <3>5. m \in Int /\ a <= m
      BY <3>1, <3>2, <3>4
    <3> HIDE DEF m, I
    <3>6. m = a
      BY <1>2, <3>4, <3>5
    <3> QED
      BY <3>3, <3>6 DEF m
  <2>4. getDayOne(file, d) = IF I # {} THEN Min(I) ELSE 0
    BY DEF getDayOne, SelectInSeq
  <2> HIDE DEF I
  <2> QED
    BY <2>3, <2>4
<1>4. end = e + 1
  <2>1. ASSUME NEW i \in other PROVE i >= e + 1 /\ i \in Nat
    BY <1>1, <1>2 DEF Block
  <2>2. other \subseteq Nat
    BY <1>1
  <2>3. CASE e = n
    <3>1. other = {}
      BY <1>1, <1>2, <2>1, <2>3
    <3> QED
      BY <2>3, <3>1
  <2>4. CASE e # n
    <3>1. e + 1 \in other
      <4>1. e + 1 \in DOMAIN file /\ e + 1 > a /\ e < Len(file)
        <5> HIDE DEF n
        <5>1. e <= n /\ a <= e /\ e \in Int /\ a \in Int /\ n \in Int /\ e # n /\ 1 <= a
          BY <1>1, <1>2, <2>4
        <5>2. e < n /\ e + 1 > a /\ e + 1 \in 1..n
          BY <5>1
        <5> QED
          BY <1>1, <5>2 DEF n
      <4>2. file[e + 1].day # d
        BY <4>1 DEF Block
      <4> DEFINE b == e + 1
      <4>3. b \in DOMAIN file /\ b > a /\ file[b].day # d
        BY <4>1, <4>2
      <4> HIDE DEF b
      <4>4. b \in other
        BY <4>3
      <4> QED
        BY <4>4 DEF b
    <3> HIDE DEF other
    <3>2. Min(other) \in other /\ \A i \in other : Min(other) <= i
      BY <2>2, <3>1, FirstOfThem
    <3>3. Min(other) = e + 1
      BY <1>2, <2>1, <3>1, <3>2
    <3> QED
      BY <3>1, <3>3
  <2> QED
    BY <2>3, <2>4
<1> HIDE DEF n, end
<1>5. page(file, d) = [i \in 1..(end - a) |-> file[a + i - 1].w]
  BY <1>3 DEF page, end, n
<1>6. end - a = e - a + 1
  BY <1>2, <1>4
<1> QED
  BY <1>3, <1>5, <1>6

LEMMA BlockExists ==
  ASSUME NEW file \in Seq(Line), NEW d \in days(file)
  PROVE  \E a, e : Block(file, d, a, e)
<1> DEFINE n == Len(file)
           I == {i \in 1..n : file[i].day = d}
           a == Min(I)
           other == {i \in a..n : file[i].day # d}
           e == IF other = {} THEN n ELSE Min(other) - 1
<1>1. n \in Nat /\ DOMAIN file = 1..n
  BY ListFacts
<1>2. I # {} /\ I \subseteq Nat
  BY <1>1 DEF days
<1>3. a \in I /\ \A i \in I : a <= i
  <2> HIDE DEF I
  <2> QED
    BY <1>2, FirstOfThem
<1>4. a \in 1..n /\ file[a].day = d
  BY <1>3
<1>5. ASSUME NEW i \in 1..(a - 1) PROVE file[i].day # d
  <2> SUFFICES ASSUME file[i].day = d PROVE FALSE
    OBVIOUS
  <2> DEFINE b == a
  <2>1. b \in 1..n /\ i \in 1..(b - 1)
    BY <1>4
  <2>2. b <= i
    <3>1. i \in I
      <4> HIDE DEF b
      <4>1. i \in 1..n
        BY <1>1, <2>1
      <4> QED
        BY <4>1
    <3> QED
      BY <1>3, <3>1
  <2> HIDE DEF b
  <2> QED
    BY <1>1, <2>1, <2>2
<1> HIDE DEF I, a
<1>6. /\ e \in a..n
      /\ \A i \in a..e : file[i].day = d
      /\ e < n => file[e + 1].day # d
  <2>1. CASE other = {}
    BY <1>1, <1>4, <2>1
  <2>2. CASE other # {}
    <3>1. other \subseteq Nat
      BY <1>1, <1>4
    <3>2. Min(other) \in other /\ \A i \in other : Min(other) <= i
      <4> HIDE DEF other
      <4> QED
        BY <2>2, <3>1, FirstOfThem
    <3> DEFINE m == Min(other)
    <3>3. m \in a..n /\ file[m].day # d /\ m # a
      BY <1>4, <3>2
    <3>4. \A i \in a..n : file[i].day # d => m <= i
      BY <3>2
    <3>5. e = m - 1
      BY <2>2
    <3> HIDE DEF m, other, e
    <3>6. e \in a..n /\ e + 1 = m
      BY <1>1, <1>4, <3>3, <3>5
    <3>7. \A i \in a..e : file[i].day = d
      BY <1>1, <1>4, <3>3, <3>4, <3>5
    <3> QED
      BY <3>3, <3>6, <3>7
  <2> QED
    BY <2>1, <2>2
<1> QED
  BY <1>4, <1>5, <1>6 DEF Block

LEMMA PageFacts ==
  ASSUME NEW file \in Seq(Line), NEW d \in days(file)
  PROVE  /\ getDayOne(file, d) \in 1..Len(file) /\ file[getDayOne(file, d)].day = d
         /\ \A i \in 1..(getDayOne(file, d) - 1) : file[i].day # d
         /\ page(file, d) \in Seq(Watch) /\ Len(page(file, d)) > 0
         /\ d \in Nat
<1>1. PICK a, e : Block(file, d, a, e)
  BY BlockExists
<1>2. /\ Len(file) \in Nat /\ DOMAIN file = 1..Len(file)
      /\ \A i \in 1..Len(file) : file[i] \in Line
  BY ListFacts
<1>3. a \in 1..Len(file) /\ e \in a..Len(file) /\ file[a].day = d
  BY <1>1, <1>2 DEF Block
<1> DEFINE m == e - a + 1
<1>4. m \in Nat /\ m > 0
  BY <1>2, <1>3
<1>5. \A i \in 1..m : a + i - 1 \in 1..Len(file)
  BY <1>2, <1>3
<1> HIDE DEF m
<1>6. getDayOne(file, d) = a /\ page(file, d) = [i \in 1..m |-> file[a + i - 1].w]
  BY <1>1, BlockIsPage DEF m
<1>7. page(file, d) \in [1..m -> Watch]
  <2>1. \A i \in 1..m : file[a + i - 1].w \in Watch
    BY <1>2, <1>5 DEF Line
  <2> QED
    BY <1>6, <2>1
<1>8. page(file, d) \in Seq(Watch) /\ Len(page(file, d)) = m
  BY <1>4, <1>7, FcnIsSeq
<1>9. d \in Nat
  BY <1>2, <1>3 DEF Line
<1> QED
  BY <1>1, <1>3, <1>4, <1>6, <1>8, <1>9 DEF Block

LEMMA NoPage ==
  ASSUME NEW file \in Seq(Line), NEW d, d \notin days(file)
  PROVE  getDayOne(file, d) = 0
<1> DEFINE I == {i \in 1..Len(file) : file[i].day = d}
<1>1. I = {}
  BY ListFacts DEF days
<1>2. getDayOne(file, d) = IF I # {} THEN Min(I) ELSE 0
  BY DEF getDayOne, SelectInSeq
<1> HIDE DEF I
<1> QED
  BY <1>1, <1>2

\* new is file with the lines a to t - 1, all of the day d, replaced by ws.
Spliced(file, new, d, ws, a, t) ==
  /\ new \in Seq(Line) /\ t \in a..(Len(file) + 1)
  /\ \A i \in a..(t - 1) : file[i].day = d
  /\ t <= Len(file) => file[t].day # d
  /\ Len(new) = (a - 1) + Len(ws) + (Len(file) + 1 - t)
  /\ \A i \in 1..(a - 1) : new[i] = file[i]
  /\ \A i \in 1..Len(ws) : new[a - 1 + i] = [day |-> d, w |-> ws[i]]
  /\ \A i \in t..Len(file) : new[a + Len(ws) + (i - t)] = file[i]

LEMMA UpdateLineFacts ==
  ASSUME watchListFile \in Seq(Line), linenoStart \in 1..(Len(watchListFile) + 1), day \in Nat,
         NEW ws \in Seq(Watch), Len(ws) > 0, updateLine(ws), watchListFile # <<>>
  PROVE  /\ \E t : Spliced(watchListFile, watchListFile', day, ws, linenoStart, t)
         /\ hung' \in BOOLEAN /\ disk' \in {disk, watchListFile'}
<1> DEFINE F == watchListFile
           n == Len(F)
           a == linenoStart
           m == Len(ws)
           rest == SubSeq(F, a, n)
           I == {i \in 1..Len(rest) : rest[i].day # day}
           other == SelectInSeq(rest, LAMBDA l : l.day # day)
           head == [i \in 1..(a - 1) |-> F[i]]
           mid == [i \in DOMAIN ws |-> [day |-> day, w |-> ws[i]]]
           tail == IF other = 0 THEN <<>> ELSE SubSeq(rest, other, Len(rest))
           t == IF I = {} THEN n + 1 ELSE a + Min(I) - 1
           k == IF I = {} THEN 0 ELSE n + 1 - t
           new == head \o mid \o tail
<1>1. /\ n \in Nat /\ DOMAIN F = 1..n /\ \A i \in 1..n : F[i] \in Line
      /\ m \in Nat /\ m > 0 /\ DOMAIN ws = 1..m /\ \A i \in 1..m : ws[i] \in Watch
      /\ a \in 1..(n + 1)
  BY ListFacts
<1>2. /\ watchListFile' = new
      /\ hung' \in BOOLEAN /\ disk' \in {disk, watchListFile'}
  BY DEF updateLine, appended
<1>3. other = IF I # {} THEN Min(I) ELSE 0
  BY DEF SelectInSeq
<1> HIDE DEF F, n, m, a, other
<1>4. /\ rest \in Seq(Line) /\ Len(rest) = n + 1 - a
      /\ \A i \in 1..Len(rest) : rest[i] = F[a + i - 1]
  <2>1. a \in Nat \ {0} /\ n <= Len(F) /\ F \in Seq(Line)
    BY <1>1 DEF F, n
  <2> QED
    BY <1>1, <2>1, PartFacts
<1> HIDE DEF rest
<1>5. head \in Seq(Line) /\ Len(head) = a - 1 /\ \A i \in 1..(a - 1) : head[i] = F[i]
  <2>1. head \in [1..(a - 1) -> Line] /\ a - 1 \in Nat
    BY <1>1
  <2> QED
    BY <2>1, FcnIsSeq
<1>6. mid \in Seq(Line) /\ Len(mid) = m /\ \A i \in 1..m : mid[i] = [day |-> day, w |-> ws[i]]
  <2>1. \A i \in 1..m : [day |-> day, w |-> ws[i]] \in Line
    BY <1>1 DEF Line
  <2>2. mid \in [1..m -> Line]
    BY <1>1, <2>1
  <2> QED
    BY <1>1, <2>2, FcnIsSeq
<1> HIDE DEF head, mid
<1>7. I \subseteq 1..(n + 1 - a) /\ I \subseteq Nat
  BY <1>1, <1>4
<1>8. /\ t \in a..(n + 1) /\ k = n + 1 - t
      /\ \A i \in a..(t - 1) : F[i].day = day
      /\ t <= n => F[t].day # day
      /\ tail \in Seq(Line) /\ Len(tail) = k
      /\ \A i \in 1..k : tail[i] = F[t + i - 1]
  <2>1. CASE I = {}
    <3>1. t = n + 1 /\ k = 0 /\ tail = <<>>
      BY <1>3, <2>1
    <3>2. ASSUME NEW i \in a..n PROVE F[i].day = day
      <4>1. i - a + 1 \in 1..Len(rest) /\ a + (i - a + 1) - 1 = i
        BY <1>1, <1>4
      <4>2. rest[i - a + 1].day = day
        BY <2>1, <4>1
      <4> QED
        BY <1>4, <4>1, <4>2
    <3> HIDE DEF t, k, tail
    <3> QED
      BY <1>1, <3>1, <3>2
  <2>2. CASE I # {}
    <3> DEFINE o == Min(I)
    <3>1. o \in I /\ \A i \in I : o <= i
      <4> HIDE DEF I
      <4> QED
        BY <1>7, <2>2, FirstOfThem
    <3>2. o \in 1..(n + 1 - a) /\ rest[o].day # day
      BY <1>4, <3>1
    <3>3. \A i \in 1..(n + 1 - a) : rest[i].day # day => o <= i
      BY <1>4, <3>1
    <3>4. t = a + o - 1 /\ k = n + 1 - t /\ other = o
      BY <1>3, <2>2
    <3>5. o # 0 /\ o \in Nat \ {0}
      BY <1>1, <3>2
    <3>6. tail = SubSeq(rest, o, Len(rest))
      BY <3>4, <3>5
    <3> HIDE DEF o, t, k, tail, I
    <3>7. /\ tail \in Seq(Line) /\ Len(tail) = Len(rest) - o + 1
          /\ \A i \in 1..Len(tail) : tail[i] = rest[o + i - 1]
      <4>1. Len(rest) \in Nat /\ o <= Len(rest)
        BY <1>1, <1>4, <3>2
      <4>2. rest \in Seq(Line) /\ o \in Nat \ {0} /\ o <= Len(rest) + 1
        BY <1>4, <3>5, <4>1
      <4> HIDE DEF rest
      <4> QED
        BY <3>6, <4>2, PartFacts
    <3>8. t \in a..(n + 1) /\ k = n + 1 - t /\ Len(tail) = k
      BY <1>1, <1>4, <3>2, <3>4, <3>7
    <3>9. ASSUME NEW i \in a..(t - 1) PROVE F[i].day = day
      <4>1. i - a + 1 \in 1..(n + 1 - a) /\ i - a + 1 < o /\ a + (i - a + 1) - 1 = i
        BY <1>1, <3>2, <3>4
      <4>2. rest[i - a + 1].day = day
        BY <3>2, <3>3, <4>1
      <4> QED
        BY <1>4, <4>1, <4>2
    <3>10. F[t].day # day
      BY <1>4, <3>2, <3>4
    <3>11. ASSUME NEW i \in 1..k PROVE tail[i] = F[t + i - 1]
      <4>1. o + i - 1 \in 1..Len(rest) /\ a + (o + i - 1) - 1 = t + i - 1
        BY <1>1, <1>4, <3>2, <3>4, <3>8
      <4> QED
        BY <1>4, <3>7, <3>8, <4>1
    <3> QED
      BY <3>7, <3>8, <3>9, <3>10, <3>11
  <2> QED
    BY <2>1, <2>2
<1> HIDE DEF t, k, tail, I
<1> DEFINE hm == head \o mid
<1>9. /\ hm \in Seq(Line) /\ Len(hm) = (a - 1) + m
      /\ \A i \in 1..(a - 1) : hm[i] = head[i]
      /\ \A i \in 1..m : hm[(a - 1) + i] = mid[i]
  <2>1. /\ hm \in Seq(Line) /\ Len(hm) = Len(head) + Len(mid)
        /\ \A i \in 1..Len(head) : hm[i] = head[i]
        /\ \A i \in 1..Len(mid) : hm[Len(head) + i] = mid[i]
    <3>1. head \in Seq(Line) /\ mid \in Seq(Line)
      BY <1>5, <1>6
    <3> QED
      BY <3>1, JoinFacts
  <2> HIDE DEF hm
  <2> QED
    BY <1>5, <1>6, <2>1
<1>10. new = hm \o tail
  OBVIOUS
<1> HIDE DEF new, hm
<1>11. /\ new \in Seq(Line) /\ Len(new) = Len(hm) + Len(tail)
       /\ \A i \in 1..Len(hm) : new[i] = hm[i]
       /\ \A i \in 1..Len(tail) : new[Len(hm) + i] = tail[i]
  <2> DEFINE j == hm \o tail
  <2>1. tail \in Seq(Line) /\ hm \in Seq(Line)
    BY <1>8, <1>9
  <2>2. /\ j \in Seq(Line) /\ Len(j) = Len(hm) + Len(tail)
        /\ \A i \in 1..Len(hm) : j[i] = hm[i]
        /\ \A i \in 1..Len(tail) : j[Len(hm) + i] = tail[i]
    BY <2>1, JoinFacts
  <2> QED
    BY <1>10, <2>2
<1>12. Len(new) = (a - 1) + m + (n + 1 - t)
  BY <1>1, <1>8, <1>9, <1>11
<1>13. ASSUME NEW i \in 1..(a - 1) PROVE new[i] = F[i]
  <2>1. i \in 1..Len(hm)
    BY <1>1, <1>9
  <2> QED
    BY <1>5, <1>9, <1>11, <2>1
<1>14. ASSUME NEW i \in 1..m PROVE new[a - 1 + i] = [day |-> day, w |-> ws[i]]
  <2>1. a - 1 + i \in 1..Len(hm)
    BY <1>1, <1>9
  <2> QED
    BY <1>6, <1>9, <1>11, <2>1
<1>15. ASSUME NEW i \in t..n PROVE new[a + m + (i - t)] = F[i]
  <2>1. /\ i - t + 1 \in 1..Len(tail) /\ Len(hm) + (i - t + 1) = a + m + (i - t)
        /\ t + (i - t + 1) - 1 = i
    BY <1>1, <1>8, <1>9
  <2> QED
    BY <1>8, <1>11, <2>1
<1>16. Spliced(F, new, day, ws, a, t)
  BY <1>8, <1>11, <1>12, <1>13, <1>14, <1>15 DEF Spliced, n, m
<1> QED
  BY <1>2, <1>16 DEF F, a

\* No day is lost.
LEMMA DaysStay ==
  ASSUME NEW file \in Seq(Line), NEW new, NEW d, NEW ws \in Seq(Watch), Len(ws) > 0,
         NEW a \in 1..(Len(file) + 1), NEW t, Spliced(file, new, d, ws, a, t)
  PROVE  days(file) \subseteq days(new) /\ Len(new) >= a /\ new # <<>>
<1> DEFINE n == Len(file)
           m == Len(ws)
<1>1. n \in Nat /\ DOMAIN file = 1..n /\ m \in Nat /\ m > 0 /\ a \in 1..(n + 1)
  BY ListFacts
<1>2. new \in Seq(Line) /\ t \in a..(n + 1) /\ Len(new) = (a - 1) + m + (n + 1 - t)
  BY DEF Spliced
<1>3. Len(new) \in Nat /\ DOMAIN new = 1..Len(new)
  BY <1>2, ListFacts
<1>4. ASSUME NEW i \in 1..n PROVE \E k \in 1..Len(new) : new[k].day = file[i].day
  <2>1. CASE i < a
    <3>1. i \in 1..(a - 1) /\ i \in 1..Len(new)
      BY <1>1, <1>2, <2>1
    <3>2. new[i] = file[i]
      BY <3>1 DEF Spliced
    <3> QED
      BY <3>1, <3>2
  <2>2. CASE i >= a /\ i < t
    <3>1. file[i].day = d
      <4>1. i \in a..(t - 1)
        BY <1>1, <1>2, <2>2
      <4> QED
        BY <4>1 DEF Spliced
    <3>2. new[a - 1 + 1].day = d
      <4>1. 1 \in 1..Len(ws)
        BY <1>1
      <4>2. new[a - 1 + 1] = [day |-> d, w |-> ws[1]]
        BY <4>1 DEF Spliced
      <4> QED
        BY <4>2
    <3>3. a - 1 + 1 \in 1..Len(new)
      BY <1>1, <1>2
    <3> QED
      BY <3>1, <3>2, <3>3
  <2>3. CASE i >= t
    <3>1. i \in t..n /\ a + m + (i - t) \in 1..Len(new)
      BY <1>1, <1>2, <2>3
    <3>2. new[a + m + (i - t)] = file[i]
      BY <3>1 DEF Spliced
    <3> QED
      BY <3>1, <3>2
  <2> QED
    BY <1>1, <1>2, <2>1, <2>2, <2>3
<1>5. days(file) \subseteq days(new)
  BY <1>1, <1>3, <1>4 DEF days
<1> QED
  BY <1>1, <1>2, <1>3, <1>5

\* The crews of the base, watch after watch
IsCrewsOf(f, base) ==
  /\ f[0] = <<>>
  /\ \A i \in 1..Len(base) : f[i] = IF base[i].crew = Nobody THEN f[i - 1]
                                    ELSE Append(f[i - 1], base[i].crew)
  /\ \A i \in 0..Len(base) : f[i] \in Seq(Crews)
  /\ crewsOf(base) = f[Len(base)]

LEMMA CrewsOfSteps ==
  ASSUME NEW base \in Seq(Watch)
  PROVE  \E f : IsCrewsOf(f, base)
<1> DEFINE n == Len(base)
           step(x, i) == IF base[i].crew = Nobody THEN x ELSE Append(x, base[i].crew)
           h == [x \in Seq(Crews) \X (1..n) |-> step(x[1], x[2])]
           E(f) == [i \in 0..n |-> IF i = 0 THEN <<>> ELSE step(f[i - 1], i)]
           crews == CHOOSE f : f = E(f)
<1>1. n \in Nat /\ \A i \in 1..n : base[i] \in Watch
  BY ListFacts
<1>2. crewsOf(base) = crews[n]
  BY DEF crewsOf
<1> HIDE DEF n
<1>3. \A x \in Seq(Crews), i \in 1..n : step(x, i) \in Seq(Crews)
  <2> SUFFICES ASSUME NEW x \in Seq(Crews), NEW i \in 1..n PROVE step(x, i) \in Seq(Crews)
    OBVIOUS
  <2>1. base[i].crew \in Crews \cup {Nobody}
    BY <1>1, FieldFacts
  <2>2. base[i].crew # Nobody => Append(x, base[i].crew) \in Seq(Crews)
    BY <2>1, AppendFacts
  <2> QED
    BY <2>2
<1>4. h \in [Seq(Crews) \X (1..n) -> Seq(Crews)]
  BY <1>3
<1>5. \A x \in Seq(Crews), i \in 1..n : h[<<x, i>>] = step(x, i)
  OBVIOUS
<1> HIDE DEF h
<1>6. PICK f : Iterates(f, h, Seq(Crews), <<>>, n)
  <2>1. IsStep(h, Seq(Crews), n) /\ <<>> \in Seq(Crews)
    BY <1>4 DEF IsStep
  <2> QED
    BY <1>1, <2>1, Iteration
<1>7. f = E(f)
  <2>1. ASSUME NEW i \in 0..n
        PROVE  f[i] = IF i = 0 THEN <<>> ELSE step(f[i - 1], i)
    <3>1. CASE i = 0
      BY <1>6, <3>1 DEF Iterates
    <3>2. CASE i # 0
      <4>1. i \in 1..n /\ i - 1 \in 0..n
        BY <1>1, <3>2
      <4>2. f[i - 1] \in Seq(Crews) /\ f[i] = h[<<f[i - 1], i>>]
        BY <1>6, <4>1 DEF Iterates
      <4> HIDE DEF step
      <4> QED
        BY <1>5, <3>2, <4>1, <4>2
    <3> QED
      BY <3>1, <3>2
  <2> HIDE DEF step
  <2> QED
    BY <1>6, <2>1 DEF Iterates
<1>8. crews = E(crews)
  BY <1>7
<1> HIDE DEF crews
<1>9. /\ crews[0] = <<>>
      /\ \A i \in 1..n : crews[i] = step(crews[i - 1], i)
  <2> HIDE DEF step
  <2>1. \A i \in 0..n : crews[i] = IF i = 0 THEN <<>> ELSE step(crews[i - 1], i)
    BY <1>8
  <2>2. 0 \in 0..n /\ \A i \in 1..n : i \in 0..n /\ i # 0
    BY <1>1
  <2> QED
    BY <2>1, <2>2
<1> DEFINE S == {i \in 0..n : crews[i] \in Seq(Crews)}
<1>10. 0 \in S
  <2>1. <<>> \in Seq(Crews) /\ 0 \in 0..n
    BY <1>1
  <2> QED
    BY <1>9, <2>1
<1>11. ASSUME NEW i \in 1..n, i - 1 \in S PROVE i \in S
  <2>1. crews[i - 1] \in Seq(Crews)
    BY <1>11
  <2> HIDE DEF step
  <2>2. crews[i] \in Seq(Crews)
    BY <1>3, <1>9, <2>1
  <2> QED
    BY <2>2
<1> HIDE DEF S
<1>12. \A i \in 0..n : i \in S
  BY <1>1, <1>10, <1>11, InductionTo
<1>13. \A i \in 0..n : crews[i] \in Seq(Crews)
  BY <1>12 DEF S
<1>14. IsCrewsOf(crews, base)
  BY <1>1, <1>2, <1>9, <1>13 DEF IsCrewsOf, n
<1> QED
  BY <1>14

LEMMA CrewsOfFacts ==
  ASSUME NEW base \in Seq(Watch)
  PROVE  crewsOf(base) \in Seq(Crews)
<1>1. PICK f : IsCrewsOf(f, base)
  BY CrewsOfSteps
<1>2. Len(base) \in Nat
  BY ListFacts
<1> QED
  BY <1>1, <1>2 DEF IsCrewsOf
-----------------------------------------------------------------------------
(* The plan.                                                               *)

LEMMA TurnFacts ==
  ASSUME NEW moves, NEW n, NEW k \in Nat
  PROVE  turn(moves, n, k) \in Nat
<1> DEFINE S == {j \in 1..(k - 1) : ((j - 1) % n) + 1 \in moves}
<1>1. IsFiniteSet(1..(k - 1))
  BY FS_Interval
<1>2. S \subseteq 1..(k - 1)
  OBVIOUS
<1>3. turn(moves, n, k) = Cardinality(S)
  BY DEF turn
<1> HIDE DEF S
<1>4. IsFiniteSet(S)
  BY <1>1, <1>2, FS_Subset
<1> QED
  BY <1>3, <1>4, FS_CardinalityType

\* A star at a time of the day is that of a watch of the base which starts then.
LEMMA StarAtFacts ==
  ASSUME NEW base \in Seq(Watch), NEW t \in Int, NEW c
  PROVE  LET x == starAt(base, t, c) IN
         /\ x \in Stars \cup {Nobody}
         /\ x # Nobody => \E b \in DOMAIN base :
                            base[b].star = x /\ base[b].start % DayLength = t % DayLength
<1> DEFINE same == {b \in DOMAIN base : base[b].start % DayLength = t % DayLength}
           b == Max(same)
<1>1. /\ Len(base) \in Nat /\ DOMAIN base = 1..Len(base)
      /\ \A i \in DOMAIN base : base[i] \in Watch
  BY ListFacts
<1>2. starAt(base, t, c) = IF same = {} THEN Nobody ELSE base[b].star
  BY DEF starAt
<1>3. CASE same = {}
  BY <1>2, <1>3
<1>4. CASE same # {}
  <2>1. same \subseteq 1..Len(base)
    BY <1>1
  <2>2. b \in same
    <3> HIDE DEF same
    <3> QED
      BY <1>1, <1>4, <2>1, LastOfThem
  <2>3. b \in DOMAIN base /\ base[b].start % DayLength = t % DayLength
    BY <2>2
  <2> HIDE DEF b, same
  <2>4. base[b].star \in Stars \cup {Nobody}
    BY <1>1, <2>3, FieldFacts
  <2> QED
    BY <1>2, <1>4, <2>3, <2>4
<1> QED
  BY <1>3, <1>4

\* The watches of the base after which the crew moves on, and the crew of the k-th
\* watch of the plan
Moves(base) == {b \in 1..Len(base) : base[b].crew # Nobody \/ base[b].star = Nobody}
CrewAt(base, k) ==
  IF crewsOf(base) = <<>> \/ ((k - 1) % Len(base)) + 1 \notin Moves(base) THEN Nobody
  ELSE crewsOf(base)[(turn(Moves(base), Len(base), k) % Len(crewsOf(base))) + 1]

LEMMA LaidOutAll ==
  ASSUME NEW base \in Seq(Watch), NEW s \in Int, NEW m \in Nat \ {0}, Len(base) > 0
  PROVE  LET n == Len(base)
             l == laidOut(base, s, m)
         IN /\ n * m \in Nat \ {0}
            /\ l \in Seq(Line) /\ Len(l) = n * m
            /\ \A k \in 1..(n * m) :
                 /\ l[k].day = ((k - 1) \div n) + 1
                 /\ l[k].w.len = base[((k - 1) % n) + 1].len
                 /\ l[k].w.star # Nobody =>
                      \E b \in DOMAIN base : /\ base[b].star = l[k].w.star
                                             /\ base[b].start % DayLength = l[k].w.start % DayLength
            /\ l[1].w.start = s
            /\ \A k \in 2..(n * m) : l[k].w.start = until(l[k - 1].w)
            /\ \A k \in 1..(n * m) : l[k].w.crew = CrewAt(base, k)
<1> DEFINE n == Len(base)
           p == n * m
           column(k) == ((k - 1) % n) + 1
           crews == crewsOf(base)
           moves == {b \in 1..n : base[b].crew # Nobody \/ base[b].star = Nobody}
           crew(k) == IF crews = <<>> \/ column(k) \notin moves THEN Nobody
                      ELSE crews[(turn(moves, n, k) % Len(crews)) + 1]
           cols == [k \in 1..p |-> base[column(k)]]
           from == chained(cols, s)
           star(k) == starAt(base, from[k].start, column(k))
           w(k) == [from[k] EXCEPT !.crew = crew(k), !.star = star(k)]
           l == laidOut(base, s, m)
<1>0. \A k : crew(k) = CrewAt(base, k)
  BY DEF CrewAt, Moves
<1>1. /\ n \in Nat \ {0} /\ DOMAIN base = 1..n /\ \A i \in 1..n : base[i] \in Watch
  BY ListFacts
<1>2. l = [k \in DOMAIN from |-> [day |-> ((k - 1) \div n) + 1, w |-> w(k)]]
  BY DEF laidOut
<1> HIDE DEF n, l
<1>3. p \in Nat \ {0}
  BY <1>1
<1> HIDE DEF p
<1>4. \A k \in 1..p : column(k) \in 1..n /\ (k - 1) \div n \in Nat
  <2> SUFFICES ASSUME NEW k \in 1..p PROVE column(k) \in 1..n /\ (k - 1) \div n \in Nat
    OBVIOUS
  <2>1. k - 1 \in Nat
    OBVIOUS
  <2> DEFINE q == (k - 1) \div n
             r == (k - 1) % n
  <2>2. q \in Int /\ r \in 0..(n - 1) /\ k - 1 = n * q + r
    <3> DEFINE z == k - 1
    <3>1. n \in Nat \ {0} /\ z \in Int
      BY <1>1, <2>1
    <3> HIDE DEF z
    <3>2. z \div n \in Int /\ z % n \in 0..(n - 1) /\ z = n * (z \div n) + (z % n)
      BY <3>1, DivMod
    <3> QED
      BY <3>2 DEF z
  <2> HIDE DEF q, r
  <2>3. q >= 0
    <3> SUFFICES ASSUME q <= -1 PROVE FALSE
      BY <2>2
    <3>1. n * q <= n * (-1) /\ n * (-1) = -n /\ n * q \in Int
      BY <1>1, <2>2
    <3> QED
      BY <1>1, <2>1, <2>2, <3>1
  <2> QED
    BY <1>1, <2>2, <2>3 DEF q, r
<1>5. /\ cols \in Seq(Watch) /\ Len(cols) = p
      /\ \A k \in 1..p : cols[k] = base[column(k)]
  <2>1. cols \in [1..p -> Watch]
    BY <1>1, <1>4
  <2> QED
    BY <1>3, <2>1, FcnIsSeq
<1> HIDE DEF cols
<1>6. /\ from \in Seq(Watch) /\ Len(from) = p /\ DOMAIN from = 1..p
      /\ \A k \in 1..p : Moved(cols[k], from[k])
      /\ from[1].start = s
      /\ \A k \in 2..p : from[k].start = until(from[k - 1])
  <2>1. Len(cols) > 0
    BY <1>3, <1>5
  <2> QED
    BY <1>5, <2>1, ChainedFacts
<1> HIDE DEF from
<1>7. \A k \in 1..p : crew(k) \in Crews \cup {Nobody}
  <2> SUFFICES ASSUME NEW k \in 1..p, crews # <<>>
               PROVE  crews[(turn(moves, n, k) % Len(crews)) + 1] \in Crews
    BY <1>4
  <2> DEFINE x == turn(moves, n, k)
             r == x % Len(crews)
  <2>1. crews \in Seq(Crews)
    BY CrewsOfFacts
  <2>2. x \in Nat
    BY <1>3, TurnFacts
  <2> HIDE DEF crews, x
  <2>3. Len(crews) \in Nat \ {0} /\ DOMAIN crews = 1..Len(crews)
    BY <2>1, ListFacts, EmptySeq
  <2>4. r \in 0..(Len(crews) - 1)
    <3> DEFINE z == Len(crews)
    <3>1. z \in Nat \ {0} /\ x \in Int
      BY <2>2, <2>3
    <3> HIDE DEF z
    <3>2. x % z \in 0..(z - 1)
      BY <3>1, DivMod
    <3> QED
      BY <3>2 DEF z
  <2> HIDE DEF r
  <2>5. r + 1 \in DOMAIN crews
    BY <2>3, <2>4
  <2>6. crews[r + 1] \in Crews
    BY <2>1, <2>5, ListFacts
  <2> QED
    BY <2>6 DEF r, x
<1> HIDE DEF crew
<1>8. ASSUME NEW k \in 1..p
      PROVE  /\ w(k) \in Watch /\ w(k).len = base[column(k)].len
             /\ w(k).start = from[k].start /\ until(w(k)) = until(from[k])
             /\ w(k).star = star(k) /\ from[k].start \in Int
             /\ w(k).crew = crew(k)
  <2>1. from[k] \in Watch /\ from[k].start \in Int /\ from[k].len = base[column(k)].len
    BY <1>5, <1>6, FieldFacts DEF Moved
  <2>2. star(k) \in Stars \cup {Nobody} /\ crew(k) \in Crews \cup {Nobody}
    BY <1>7, <2>1, StarAtFacts
  <2> DEFINE x == crew(k)
             y == star(k)
             v == [from[k] EXCEPT !.crew = x, !.star = y]
  <2>3. w(k) = v
    OBVIOUS
  <2>4. v \in Watch
    <3>1. x \in Crews \cup {Nobody} /\ y \in Stars \cup {Nobody}
      BY <2>2
    <3> HIDE DEF x, y
    <3> QED
      BY <2>1, <3>1, SetFacts
  <2>5. v.len = from[k].len /\ v.start = from[k].start /\ v.star = y /\ v.crew = x
    <3> HIDE DEF x, y
    <3> QED
      BY <2>1 DEF Watch
  <2> HIDE DEF v
  <2> QED
    BY <2>1, <2>3, <2>4, <2>5 DEF until
<1>9. \A k \in 1..p : l[k] = [day |-> ((k - 1) \div n) + 1, w |-> w(k)]
  BY <1>2, <1>6
<1>10. \A k \in 1..p : /\ w(k).star # Nobody =>
                            \E b \in DOMAIN base :
                              /\ base[b].star = w(k).star
                              /\ base[b].start % DayLength = w(k).start % DayLength
  <2> SUFFICES ASSUME NEW k \in 1..p, w(k).star # Nobody
               PROVE  \E b \in DOMAIN base :
                        /\ base[b].star = w(k).star
                        /\ base[b].start % DayLength = w(k).start % DayLength
    OBVIOUS
  <2>1. w(k).start = from[k].start /\ w(k).star = star(k) /\ from[k].start \in Int
    BY <1>8
  <2>2. \E b \in DOMAIN base : /\ base[b].star = star(k)
                              /\ base[b].start % DayLength = from[k].start % DayLength
    BY <2>1, StarAtFacts
  <2> HIDE DEF w, star
  <2> QED
    BY <2>1, <2>2
<1> HIDE DEF w, star, column
<1>11. l \in Seq(Line) /\ Len(l) = p
  <2>1. \A k \in 1..p : ((k - 1) \div n) + 1 \in Nat /\ w(k) \in Watch
    BY <1>4, <1>8
  <2>2. \A k \in 1..p : l[k] \in Line
    <3> SUFFICES ASSUME NEW k \in 1..p PROVE l[k] \in Line
      OBVIOUS
    <3> DEFINE x == ((k - 1) \div n) + 1
    <3>1. x \in Nat /\ w(k) \in Watch /\ l[k] = [day |-> x, w |-> w(k)]
      BY <1>9, <2>1
    <3> HIDE DEF x
    <3> QED
      BY <3>1 DEF Line
  <2>3. l \in [1..p -> Line]
    BY <1>2, <1>6, <2>2
  <2> QED
    BY <1>3, <2>3, FcnIsSeq
<1>12. ASSUME NEW k \in 1..p
       PROVE  l[k].day = ((k - 1) \div n) + 1 /\ l[k].w = w(k)
  <2> DEFINE x == ((k - 1) \div n) + 1
             v == w(k)
  <2>1. l[k] = [day |-> x, w |-> v]
    BY <1>9
  <2>2. l[k].day = x /\ l[k].w = v
    <3> HIDE DEF x, v
    <3> QED
      BY <2>1
  <2> QED
    BY <2>2, Zenon
<1>13. l[1].w.start = s
  <2>1. 1 \in 1..p
    BY <1>3
  <2>2. l[1].w = w(1) /\ w(1).start = from[1].start
    BY <1>8, <1>12, <2>1
  <2> QED
    BY <1>6, <2>2
<1>14. ASSUME NEW k \in 2..p PROVE l[k].w.start = until(l[k - 1].w)
  <2>1. k \in 1..p /\ k - 1 \in 1..p
    BY <1>3
  <2>2. l[k].w = w(k) /\ l[k - 1].w = w(k - 1)
    BY <1>12, <2>1
  <2>3. w(k).start = from[k].start /\ until(w(k - 1)) = until(from[k - 1])
    BY <1>8, <2>1
  <2>4. from[k].start = until(from[k - 1])
    BY <1>6
  <2> QED
    BY <2>2, <2>3, <2>4
<1>15. \A k \in 1..p : l[k].w.crew = CrewAt(base, k)
  BY <1>0, <1>8, <1>12
<1> QED
  BY <1>3, <1>8, <1>10, <1>11, <1>12, <1>13, <1>14, <1>15 DEF p, n, l, column

LEMMA LaidOutFacts ==
  ASSUME NEW base \in Seq(Watch), NEW s \in Int, NEW m \in Nat \ {0}, Len(base) > 0
  PROVE  LET n == Len(base)
             l == laidOut(base, s, m)
         IN /\ n * m \in Nat \ {0}
            /\ l \in Seq(Line) /\ Len(l) = n * m
            /\ \A k \in 1..(n * m) :
                 /\ l[k].day = ((k - 1) \div n) + 1
                 /\ l[k].w.len = base[((k - 1) % n) + 1].len
                 /\ l[k].w.star # Nobody =>
                      \E b \in DOMAIN base : /\ base[b].star = l[k].w.star
                                             /\ base[b].start % DayLength = l[k].w.start % DayLength
            /\ l[1].w.start = s
            /\ \A k \in 2..(n * m) : l[k].w.start = until(l[k - 1].w)
BY LaidOutAll
-----------------------------------------------------------------------------
(* The current watch.                                                      *)

Members == Crews \cup Stars \cup {Nobody}
Noted == [active: BOOLEAN, day: Nat, col: Nat, end: Int, who: Seq(Members)]

LEMMA WhoFacts ==
  ASSUME NEW w \in Watch
  PROVE  who(w) \in Seq(Members)
<1> DEFINE one(x) == IF x = Nobody THEN <<>> ELSE <<x>>
           a == one(w.crew)
           b == one(w.star)
<1>1. w.crew \in Members /\ w.star \in Members
  BY FieldFacts DEF Members
<1>2. \A x \in Members : one(x) \in Seq(Members)
  OBVIOUS
<1>3. a \in Seq(Members) /\ b \in Seq(Members)
  BY <1>1, <1>2
<1>4. who(w) = a \o b
  BY DEF who
<1> HIDE DEF a, b
<1> QED
  BY <1>3, <1>4, JoinFacts

\* A page of the file is read, at the place where it is.
Reads(file, d) == /\ grid' = page(file, d) /\ day' = d /\ linenoStart' = getDayOne(file, d)

\* The watch noted is over, or was so before.
Later(t) == ActualWatch'.active => t < ActualWatch'.end

LEMMA DayNowFacts ==
  ASSUME NEW file \in Seq(Line), NEW t \in Int, NEW actual \in Noted, dayNow(file, t, actual)
  PROVE  /\ ActualWatch' \in Noted
         /\ 1 \notin days(file) => UNCHANGED screen /\ ActualWatch' = actual
         /\ 1 \in days(file) => /\ Later(t)
                                /\ \E d \in days(file) : Reads(file, d)
<1> DEFINE first == getDayOne(file, 1)
           at == {i \in DOMAIN file : i >= first /\ covers(file[i].w, t)}
           m == Min(at)
           l == file[m]
<1>1. /\ Len(file) \in Nat /\ DOMAIN file = 1..Len(file)
      /\ \A i \in DOMAIN file : file[i] \in Line
  BY ListFacts
<1>2. CASE 1 \notin days(file)
  <2>1. first = 0
    BY <1>2, NoPage
  <2>2. UNCHANGED screen /\ ActualWatch' = actual
    BY <2>1 DEF dayNow
  <2> QED
    BY <1>2, <2>2
<1>3. CASE 1 \in days(file) /\ at = {}
  <2>1. first # 0
    BY <1>3, PageFacts
  <2>2. Reads(file, 1) /\ ActualWatch' = [actual EXCEPT !.active = FALSE]
    BY <1>3, <2>1 DEF dayNow, readRecord, Reads
  <2>3. ActualWatch' \in Noted /\ ~ActualWatch'.active
    BY <2>2 DEF Noted
  <2> QED
    BY <1>3, <2>2, <2>3 DEF Later
<1>4. CASE 1 \in days(file) /\ at # {}
  <2>1. first # 0
    BY <1>4, PageFacts
  <2>2. at \subseteq Nat
    BY <1>1
  <2>3. m \in at
    <3> HIDE DEF at
    <3> QED
      BY <1>4, <2>2, FirstOfThem
  <2> DEFINE o == getDayOne(file, l.day)
             new == [active |-> TRUE, day |-> l.day, col |-> m - o + 1,
                     end |-> until(l.w), who |-> who(l.w)]
  <2>4. Reads(file, l.day) /\ ActualWatch' = new
    BY <1>4, <2>1 DEF dayNow, readRecord, Reads
  <2>5. m \in DOMAIN file /\ covers(file[m].w, t)
    BY <2>3
  <2> HIDE DEF m, at
  <2>6. l \in Line /\ l.day \in days(file) /\ covers(l.w, t)
    BY <1>1, <2>5 DEF days
  <2>7. l.day \in Nat /\ l.w \in Watch
    BY <2>6 DEF Line
  <2>8. m - o + 1 \in Nat
    <3>1. o \in 1..Len(file) /\ \A i \in 1..(o - 1) : file[i].day # l.day
      BY <2>6, PageFacts
    <3>2. m \in 1..Len(file)
      BY <1>1, <2>5
    <3>3. ~(m \in 1..(o - 1))
      BY <3>1
    <3> HIDE DEF o
    <3> QED
      BY <1>1, <3>1, <3>2, <3>3
  <2>9. until(l.w) \in Int /\ who(l.w) \in Seq(Members) /\ t < until(l.w)
    BY <2>6, <2>7, TimeFacts, WhoFacts DEF covers
  <2> HIDE DEF l, o
  <2>10. ActualWatch' \in Noted /\ Later(t)
    BY <2>4, <2>7, <2>8, <2>9 DEF Noted, Later
  <2> QED
    BY <1>4, <2>4, <2>6, <2>10
<1> QED
  BY <1>2, <1>3, <1>4

\* What is on the screen then has a place in the file.
LEMMA ReadFacts ==
  ASSUME NEW file \in Seq(Line), NEW d \in days(file), Reads(file, d)
  PROVE  /\ grid' \in Seq(Watch) /\ grid' # <<>> /\ Len(grid') > 0
         /\ day' \in Nat /\ linenoStart' \in 1..(Len(file) + 1)
<1>1. /\ page(file, d) \in Seq(Watch) /\ Len(page(file, d)) > 0 /\ d \in Nat
      /\ getDayOne(file, d) \in 1..Len(file)
  BY PageFacts
<1>2. Len(file) \in Nat
  BY ListFacts
<1>3. grid' = page(file, d) /\ day' = d /\ linenoStart' = getDayOne(file, d)
  BY DEF Reads
<1> DEFINE g == page(file, d)
<1>4. g # <<>>
  <2> HIDE DEF g
  <2> QED
    BY <1>1 DEF g
<1> QED
  BY <1>1, <1>2, <1>3, <1>4
-----------------------------------------------------------------------------
(* The edits.                                                              *)

LEMMA Before ==
  ASSUME TypeOK
  PROVE  /\ grid \in Seq(Watch) /\ Len(grid) \in Nat \ {0} /\ DOMAIN grid = 1..Len(grid)
         /\ \A i \in DOMAIN grid : grid[i] \in Watch
         /\ day \in Nat /\ linenoStart \in 1..(Len(watchListFile) + 1)
         /\ watchListFile \in Seq(Line) /\ disk \in Seq(Line)
         /\ header.start \in Int /\ header.trip \in Trips /\ header.trip \in Nat \ {0}
         /\ start \in Int /\ trip \in Trips
         /\ fields \in BOOLEAN /\ calculate \in BOOLEAN /\ hung \in BOOLEAN /\ whole \in BOOLEAN
         /\ ActualWatch \in Noted /\ line \in Seq(Members)
         /\ now \in 0..MaxClock /\ wmin \in 0..HourLength /\ edits \in 0..MaxEdits
<1>1. grid \in Seq(Watch) /\ grid # <<>>
  BY DEF TypeOK
<1>2. Len(grid) \in Nat \ {0} /\ DOMAIN grid = 1..Len(grid) /\ \A i \in DOMAIN grid : grid[i] \in Watch
  BY <1>1, ListFacts, EmptySeq
<1>3. header \in [start: Int, trip: Trips]
  BY DEF TypeOK
<1>4. header.start \in Int /\ header.trip \in Trips /\ header.trip \in Nat \ {0}
  BY <1>3, Numbers
<1> QED
  BY <1>1, <1>2, <1>4 DEF TypeOK, Line, Noted, Members

LEMMA UseCounts ==
  ASSUME TypeOK, UseBound
  PROVE  edits' \in 0..MaxEdits
<1>1. edits \in 0..MaxEdits
  BY DEF TypeOK
<1>2. MaxEdits \in Nat
  BY Numbers
<1>3. edits < MaxEdits /\ edits' = edits + 1
  BY DEF UseBound
<1> QED
  BY <1>1, <1>2, <1>3

LEMMA RetiledFacts ==
  ASSUME TypeOK, NEW ws \in Seq(Watch), Len(ws) > 0, NEW s \in Int
  PROVE  LET new == retiled(ws, s) IN
         /\ new \in Seq(Watch) /\ Len(new) > 0
         /\ Len(ws) > 1 /\ (\A j \in DOMAIN new : new[j].len \in 1..(DayLength - 1)) => RunsOn(new)
         /\ Len(ws) = 1 => Len(new) = 1
<1> DEFINE r == s % DayLength
           t == grid[1].date + r
<1>1. grid[1] \in Watch
  BY Before
<1>2. r \in Int
  BY Numbers, DivMod
<1>3. grid[1].date \in Int
  BY <1>1, FieldFacts
<1> HIDE DEF r
<1>4. t \in Int
  BY <1>2, <1>3
<1> DEFINE c == read(ws)
<1>5. retiled(ws, s) = updateWatchTime(c, t)
  BY DEF retiled, r
<1>6. c \in Seq(Watch) /\ Len(c) = Len(ws)
  BY ReadOut
<1> HIDE DEF t, c
<1>7. LET new == updateWatchTime(c, t) IN
      /\ new \in Seq(Watch) /\ Len(new) > 0
      /\ Len(c) > 1 /\ (\A j \in DOMAIN new : new[j].len \in 1..(DayLength - 1)) => RunsOn(new)
      /\ Len(c) = 1 => new = c
  BY <1>4, <1>6, UpdateFacts
<1> QED
  BY <1>5, <1>6, <1>7

\* What the edits of the grid have in common
Edited ==
  /\ grid' \in Seq(Watch) /\ Len(grid') > 0 /\ day' \in Nat
  /\ updateLine(grid') \/ UNCHANGED <<watchListFile, disk, hung>>
  /\ UNCHANGED <<linenoStart, trip, header, fields, clock>>
  /\ start' \in Int /\ calculate' \in BOOLEAN
  /\ edits' \in 0..MaxEdits
  /\ ActualWatch' \in Noted
  /\ ActualWatch'.active = ActualWatch.active /\ ActualWatch'.end = ActualWatch.end
  /\ whole' \in BOOLEAN
  /\ whole' => whole
  /\ whole' /\ RunsOn(grid) => RunsOn(grid')
  /\ Len(grid) = 1 => RunsOn(grid') \/ (Len(grid') = 1 /\ calculate' = calculate)
  /\ day' = day \/ Len(grid) = 1

LEMMA EditFacts ==
  ASSUME TypeOK, Edit
  PROVE  edits' \in 0..MaxEdits /\ UNCHANGED <<trip, header, clock>>
<1>1. edits \in 0..MaxEdits /\ edits < MaxEdits /\ edits' = edits + 1 /\ UNCHANGED <<clock, trip, header>>
  BY Before DEF Edit, UseBound
<1>2. edits' \in 0..MaxEdits
  BY <1>1, Numbers
<1> QED
  BY <1>1, <1>2

LEMMA NoteFacts ==
  ASSUME NEW ws, NoteLengths(ws), TypeOK
  PROVE  /\ whole' \in BOOLEAN /\ (whole' => whole)
         /\ whole' /\ Len(grid) > 1 => \A j \in DOMAIN ws : ws[j].len \in 1..(DayLength - 1)
BY DEF NoteLengths

\* A grid that is laid out again
LEMMA RetiledEdit ==
  ASSUME TypeOK, NEW ws \in Seq(Watch), Len(grid) > 1, Len(ws) > 1,
         NEW s \in Int, grid' = retiled(ws, s), NoteLengths(grid')
  PROVE  /\ grid' \in Seq(Watch) /\ Len(grid') > 0
         /\ whole' \in BOOLEAN /\ (whole' => whole)
         /\ whole' => RunsOn(grid')
         /\ Len(grid) # 1
<1>1. Len(ws) > 0 /\ Len(grid) # 1
  <2>1. Len(ws) \in Nat
    BY ListFacts
  <2>2. Len(grid) \in Nat
    BY Before
  <2>3. Len(ws) > 0
    BY <2>1
  <2>4. ~(1 > 1)
    OBVIOUS
  <2>5. Len(grid) # 1
    BY <2>4, Zenon
  <2> QED
    BY <2>3, <2>5
<1> DEFINE new == retiled(ws, s)
<1>2. /\ new \in Seq(Watch) /\ Len(new) > 0
      /\ (\A j \in DOMAIN new : new[j].len \in 1..(DayLength - 1)) => RunsOn(new)
  BY <1>1, RetiledFacts
<1> HIDE DEF new
<1>3. grid' = new
  BY DEF new
<1>4. NoteLengths(new)
  BY <1>3
<1>5. /\ whole' \in BOOLEAN /\ (whole' => whole)
      /\ whole' => \A j \in DOMAIN new : new[j].len \in 1..(DayLength - 1)
  BY <1>2, <1>4, NoteFacts
<1>6. whole' => RunsOn(new)
  BY <1>2, <1>5
<1> QED
  BY <1>1, <1>2, <1>3, <1>5, <1>6

LEMMA EditLengthEdits ==
  ASSUME TypeOK, NEW c \in DOMAIN grid, EditLength(c)
  PROVE  Edited
<1>1. PICK len \in Lengths :
        \/ /\ Len(grid) > 1
           /\ grid' = retiled([grid EXCEPT ![c].len = len], start)
           /\ updateLine(grid')
           /\ calculate' = TRUE /\ UNCHANGED day
        \/ /\ Len(grid) = 1 /\ len > 0
           /\ grid' = insertDefaultCols(len, start) /\ day' = 0
           /\ calculate' = TRUE /\ UNCHANGED <<watchListFile, disk, hung>>
        \/ /\ Len(grid) = 1 /\ len = 0
           /\ grid' = [grid EXCEPT ![1].len = 0]
           /\ UNCHANGED <<watchListFile, disk, hung, day, calculate>>
  BY DEF EditLength
<1>2. /\ Edit /\ NoteLengths(grid')
      /\ UNCHANGED <<linenoStart, start, fields, ActualWatch>>
  BY DEF EditLength
<1>3. edits' \in 0..MaxEdits /\ UNCHANGED <<trip, header, clock>>
  BY <1>2, EditFacts
<1>4. start' \in Int /\ ActualWatch' \in Noted
  BY <1>2, Before
<1>5. CASE /\ Len(grid) = 1 /\ len > 0
           /\ grid' = insertDefaultCols(len, start) /\ day' = 0
           /\ calculate' = TRUE /\ UNCHANGED <<watchListFile, disk, hung>>
  <2>1. grid' \in Seq(Watch) /\ RunsOn(grid')
    BY <1>5, Before, DefaultFacts
  <2>2. Len(grid') > 0
    BY <2>1, ListFacts DEF RunsOn
  <2>3. whole' \in BOOLEAN /\ (whole' => whole)
    BY <1>2, NoteFacts
  <2> QED
    BY <1>2, <1>3, <1>4, <1>5, <2>1, <2>2, <2>3, Before DEF Edited
<1>6. CASE /\ Len(grid) > 1
           /\ grid' = retiled([grid EXCEPT ![c].len = len], start)
           /\ updateLine(grid')
           /\ calculate' = TRUE /\ UNCHANGED day
  <2> DEFINE w == [grid[c] EXCEPT !.len = len]
             ws == [grid EXCEPT ![c] = w]
  <2>1. len \in Nat /\ grid[c] \in Watch
    BY Before, Numbers
  <2>2. w \in Watch
    BY <2>1, SetFacts
  <2>3. grid' = retiled(ws, start)
    BY <1>6
  <2> HIDE DEF w
  <2>4. ws \in Seq(Watch) /\ DOMAIN ws = DOMAIN grid
    BY <2>2, Before, ExceptFacts
  <2> HIDE DEF ws
  <2>5. Len(ws) = Len(grid)
    <3>1. Len(ws) \in Nat /\ DOMAIN ws = 1..Len(ws)
      BY <2>4, ListFacts
    <3> QED
      BY <2>4, <3>1, Before
  <2>6. Len(ws) > 1
    BY <1>6, <2>5
  <2>7. /\ grid' \in Seq(Watch) /\ Len(grid') > 0
        /\ whole' \in BOOLEAN /\ (whole' => whole)
        /\ whole' => RunsOn(grid')
        /\ Len(grid) # 1
    BY <1>2, <1>6, <2>3, <2>4, <2>6, Before, RetiledEdit
  <2>8. day' = day /\ day' \in Nat /\ updateLine(grid') /\ calculate' \in BOOLEAN
    BY <1>6, Before
  <2>9. fields' = fields /\ linenoStart' = linenoStart /\ ActualWatch' = ActualWatch
    BY <1>2
  <2> QED
    BY <1>3, <1>4, <2>7, <2>8, <2>9 DEF Edited
<1>7. CASE /\ Len(grid) = 1 /\ len = 0
           /\ grid' = [grid EXCEPT ![1].len = 0]
           /\ UNCHANGED <<watchListFile, disk, hung, day, calculate>>
  <2> DEFINE w == [grid[1] EXCEPT !.len = 0]
             ws == [grid EXCEPT ![1] = w]
  <2>1. 1 \in DOMAIN grid /\ grid[1] \in Watch
    BY <1>7, Before
  <2>2. w \in Watch
    BY <2>1, SetFacts
  <2>3. grid' = ws
    BY <1>7
  <2> HIDE DEF w
  <2>4. ws \in Seq(Watch) /\ DOMAIN ws = DOMAIN grid
    BY <2>1, <2>2, Before, ExceptFacts
  <2> HIDE DEF ws
  <2>5. Len(ws) = 1
    <3>1. Len(ws) \in Nat /\ DOMAIN ws = 1..Len(ws)
      BY <2>4, ListFacts
    <3> QED
      BY <1>7, <2>4, <3>1, Before
  <2>6. grid' \in Seq(Watch) /\ Len(grid') = 1 /\ Len(grid') > 0
    BY <2>3, <2>4, <2>5
  <2>7. whole' \in BOOLEAN /\ (whole' => whole)
    BY <1>2, NoteFacts
  <2>8. ~RunsOn(grid)
    <3>1. ~(1 > 1)
      OBVIOUS
    <3> QED
      BY <1>7, <3>1, Zenon DEF RunsOn
  <2>9. day' = day /\ day' \in Nat /\ calculate' = calculate /\ calculate' \in BOOLEAN
    BY <1>7, Before
  <2>10. fields' = fields /\ linenoStart' = linenoStart /\ ActualWatch' = ActualWatch
    BY <1>2
  <2> QED
    BY <1>3, <1>4, <1>7, <2>6, <2>7, <2>8, <2>9, <2>10 DEF Edited
<1> QED
  BY <1>1, <1>5, <1>6, <1>7

\* A watch of the grid with other members
Manned(c, x, y) == [grid[c] EXCEPT !.crew = x, !.star = y]
Staffed(c, x, y) == [grid EXCEPT ![c] = Manned(c, x, y)]

LEMMA MembersFacts ==
  ASSUME TypeOK, NEW c \in DOMAIN grid,
         NEW x \in Crews \cup {Nobody}, NEW y \in Stars \cup {Nobody}
  PROVE  LET ws == Staffed(c, x, y) IN
         /\ ws \in Seq(Watch) /\ DOMAIN ws = DOMAIN grid /\ Len(ws) = Len(grid)
         /\ \A i \in DOMAIN grid : ws[i].start = grid[i].start /\ ws[i].len = grid[i].len
         /\ Manned(c, x, y) \in Watch
<1> DEFINE w == [grid[c] EXCEPT !.crew = x, !.star = y]
           ws == [grid EXCEPT ![c] = w]
<1>1. grid[c] \in Watch
  BY Before
<1>2. w \in Watch /\ w.start = grid[c].start /\ w.len = grid[c].len
  BY <1>1 DEF Watch
<1> HIDE DEF w
<1>3. /\ ws \in Seq(Watch) /\ DOMAIN ws = DOMAIN grid
      /\ \A i \in DOMAIN grid : ws[i] = IF i = c THEN w ELSE grid[i]
  BY <1>2, Before, ExceptFacts
<1> HIDE DEF ws
<1>4. Len(ws) = Len(grid)
  <2>1. Len(ws) \in Nat /\ DOMAIN ws = 1..Len(ws)
    BY <1>3, ListFacts
  <2> QED
    BY <1>3, <2>1, Before
<1>5. \A i \in DOMAIN grid : ws[i].start = grid[i].start /\ ws[i].len = grid[i].len
  BY <1>2, <1>3
<1> QED
  BY <1>2, <1>3, <1>4, <1>5 DEF w, ws, Manned, Staffed

LEMMA EditMembersEdits ==
  ASSUME TypeOK, NEW c \in DOMAIN grid, EditMembers(c)
  PROVE  Edited
<1>1. /\ Edit /\ Len(grid) > 1 /\ NoteLengths(grid') /\ calculate' = TRUE
      /\ updateLine(grid')
      /\ UNCHANGED <<day, linenoStart, start, fields>>
  BY DEF EditMembers
<1>2. PICK x \in Crews \cup {Nobody}, y \in Stars \cup {Nobody} :
        /\ grid' = retiled([grid EXCEPT ![c].crew = x, ![c].star = y], start)
        /\ ActualWatch' = IF ActualWatch.day = day /\ ActualWatch.col = c
                          THEN [ActualWatch EXCEPT !.who = who([grid[c] EXCEPT !.crew = x, !.star = y])]
                          ELSE ActualWatch
  BY DEF EditMembers
<1> DEFINE w == Manned(c, x, y)
           ws == Staffed(c, x, y)
<1>3. ws \in Seq(Watch) /\ Len(ws) = Len(grid) /\ w \in Watch
  BY MembersFacts
<1>4. [grid EXCEPT ![c].crew = x, ![c].star = y] = ws
  BY DEF Staffed, Manned
<1>5. grid' = retiled(ws, start)
  BY <1>2, <1>4
<1>6. /\ ActualWatch' \in Noted
      /\ ActualWatch'.active = ActualWatch.active /\ ActualWatch'.end = ActualWatch.end
  <2> DEFINE v == who(w)
  <2>1. v \in Seq(Members)
    BY <1>3, WhoFacts
  <2>2. ActualWatch' = [ActualWatch EXCEPT !.who = v] \/ ActualWatch' = ActualWatch
    BY <1>2 DEF Manned
  <2>3. ActualWatch \in Noted
    BY Before
  <2> HIDE DEF v
  <2> QED
    BY <2>1, <2>2, <2>3 DEF Noted
<1> HIDE DEF w, ws
<1>7. Len(ws) > 1
  BY <1>1, <1>3
<1>8. /\ grid' \in Seq(Watch) /\ Len(grid') > 0
      /\ whole' \in BOOLEAN /\ (whole' => whole)
      /\ whole' => RunsOn(grid')
      /\ Len(grid) # 1
  BY <1>1, <1>3, <1>5, <1>7, Before, RetiledEdit
<1>9. edits' \in 0..MaxEdits /\ UNCHANGED <<trip, header, clock>>
  BY <1>1, EditFacts
<1>10. day' = day /\ day' \in Nat /\ start' \in Int /\ calculate' \in BOOLEAN
       /\ fields' = fields /\ linenoStart' = linenoStart
  BY <1>1, Before
<1> QED
  BY <1>1, <1>6, <1>8, <1>9, <1>10 DEF Edited

LEMMA deleteMembersEdits ==
  ASSUME TypeOK, NEW c \in DOMAIN grid, deleteMembers(c)
  PROVE  Edited
<1> DEFINE ws == Staffed(c, Nobody, Nobody)
<1>1. /\ Edit /\ updateLine(grid')
      /\ grid' = [grid EXCEPT ![c].crew = Nobody, ![c].star = Nobody]
      /\ UNCHANGED <<day, linenoStart, start, fields, calculate, ActualWatch, whole>>
  BY DEF deleteMembers
<1>2. grid' = ws
  BY <1>1 DEF Staffed, Manned
<1>3. /\ ws \in Seq(Watch) /\ DOMAIN ws = DOMAIN grid /\ Len(ws) = Len(grid)
      /\ \A i \in DOMAIN grid : ws[i].start = grid[i].start /\ ws[i].len = grid[i].len
  <2>1. Nobody \in Crews \cup {Nobody} /\ Nobody \in Stars \cup {Nobody}
    OBVIOUS
  <2> QED
    BY <2>1, MembersFacts
<1> HIDE DEF ws
<1>4. RunsOn(grid) => RunsOn(ws)
  BY <1>3, Before, SameTimes
<1>5. /\ grid' \in Seq(Watch) /\ Len(grid') > 0 /\ (RunsOn(grid) => RunsOn(grid'))
      /\ Len(grid') = Len(grid)
  <2>1. Len(ws) > 0
    BY <1>3, Before
  <2> QED
    BY <1>2, <1>3, <1>4, <2>1
<1>6. edits' \in 0..MaxEdits /\ UNCHANGED <<trip, header, clock>>
  BY <1>1, EditFacts
<1>7. /\ day' = day /\ day' \in Nat /\ start' \in Int /\ calculate' \in BOOLEAN
      /\ calculate' = calculate /\ fields' = fields /\ linenoStart' = linenoStart
      /\ ActualWatch' = ActualWatch /\ ActualWatch' \in Noted
      /\ whole' = whole /\ whole' \in BOOLEAN
  BY <1>1, Before
<1> QED
  BY <1>1, <1>5, <1>6, <1>7 DEF Edited

LEMMA splitWatchEdits ==
  ASSUME TypeOK, NEW c \in DOMAIN grid, splitWatch(c)
  PROVE  Edited
<1> DEFINE half == hours(grid[c].len) \div 2
           rest == hours(grid[c].len) - half
           w == [grid[c] EXCEPT !.len = half]
           e == empty(rest)
           vs == [grid EXCEPT ![c] = w]
           ws == InsertAt(vs, c + 1, e)
<1>1. /\ Edit /\ Len(grid) > 1 /\ NoteLengths(grid') /\ updateLine(grid')
      /\ UNCHANGED <<day, linenoStart, start, fields, calculate, ActualWatch>>
      /\ grid' = retiled(ws, start)
  BY DEF splitWatch
<1>2. half \in Nat /\ rest \in Nat
  <2> DEFINE l == hours(grid[c].len)
             q == l \div 2
  <2>1. l \in Nat
    <3>1. grid[c].len \in Nat
      BY Before, FieldFacts
    <3> QED
      BY <3>1, HoursFacts
  <2> HIDE DEF l
  <2>2. q \in Int /\ (l % 2) \in 0..(2 - 1) /\ l = 2 * q + (l % 2)
    BY <2>1, DivMod
  <2> DEFINE r == l % 2
  <2> HIDE DEF q, r
  <2>3. q \in Int /\ r \in 0..1 /\ l = 2 * q + r
    BY <2>2 DEF r
  <2>4. q \in Nat /\ l - q \in Nat
    BY <2>1, <2>3
  <2> QED
    BY <2>4 DEF q, l
<1> HIDE DEF half, rest
<1>3. w \in Watch /\ e \in Watch
  BY <1>2, Before, SetFacts, EmptyFacts
<1> HIDE DEF w, e
<1>4. vs \in Seq(Watch) /\ DOMAIN vs = DOMAIN grid
  BY <1>3, Before, ExceptFacts
<1> HIDE DEF vs
<1>5. Len(vs) = Len(grid) /\ c + 1 \in 1..(Len(vs) + 1)
  <2>1. Len(vs) \in Nat /\ DOMAIN vs = 1..Len(vs)
    BY <1>4, ListFacts
  <2>2. Len(vs) = Len(grid)
    BY <1>4, <2>1, Before
  <2> QED
    BY <2>1, <2>2, Before
<1>6. ws \in Seq(Watch) /\ Len(ws) = Len(vs) + 1
  BY <1>3, <1>4, <1>5, InsertFacts
<1> HIDE DEF ws
<1>7. Len(ws) > 1
  BY <1>1, <1>5, <1>6, Before
<1>8. /\ grid' \in Seq(Watch) /\ Len(grid') > 0
      /\ whole' \in BOOLEAN /\ (whole' => whole)
      /\ whole' => RunsOn(grid')
      /\ Len(grid) # 1
  BY <1>1, <1>6, <1>7, Before, RetiledEdit
<1>9. edits' \in 0..MaxEdits /\ UNCHANGED <<trip, header, clock>>
  BY <1>1, EditFacts
<1>10. /\ day' = day /\ day' \in Nat /\ start' \in Int /\ calculate' \in BOOLEAN
       /\ fields' = fields /\ linenoStart' = linenoStart
       /\ ActualWatch' = ActualWatch /\ ActualWatch' \in Noted
  BY <1>1, Before
<1> QED
  BY <1>1, <1>8, <1>9, <1>10 DEF Edited

LEMMA mergeWatchesEdits ==
  ASSUME TypeOK, NEW c \in DOMAIN grid, mergeWatches(c)
  PROVE  Edited
<1> DEFINE sum == hours(grid[c].len) + hours(grid[c + 1].len)
           w == [grid[c] EXCEPT !.len = sum]
           vs == [grid EXCEPT ![c] = w]
           ws == RemoveAt(vs, c + 1)
<1>1. /\ Edit /\ c < Len(grid) /\ Len(grid) > 2 /\ NoteLengths(grid')
      /\ updateLine(grid')
      /\ UNCHANGED <<day, linenoStart, start, fields, calculate, ActualWatch>>
  BY DEF mergeWatches
<1>2. grid' = retiled(ws, start)
  BY DEF mergeWatches
<1>3. c + 1 \in DOMAIN grid /\ Len(grid) > 1
  BY <1>1, Before
<1>4. sum \in Nat
  <2>1. grid[c].len \in Nat /\ grid[c + 1].len \in Nat
    BY <1>3, Before, FieldFacts
  <2>2. hours(grid[c].len) \in Nat /\ hours(grid[c + 1].len) \in Nat
    BY <2>1, HoursFacts
  <2> QED
    BY <2>2
<1> HIDE DEF sum
<1>5. w \in Watch
  BY <1>4, Before, SetFacts
<1> HIDE DEF w
<1>6. vs \in Seq(Watch) /\ DOMAIN vs = DOMAIN grid
  BY <1>5, Before, ExceptFacts
<1> HIDE DEF vs
<1>7. Len(vs) = Len(grid)
  <2>1. Len(vs) \in Nat /\ DOMAIN vs = 1..Len(vs)
    BY <1>6, ListFacts
  <2> QED
    BY <1>6, <2>1, Before
<1>8. ws \in Seq(Watch) /\ Len(ws) = Len(vs) - 1
  <2>1. c + 1 \in DOMAIN vs
    BY <1>3, <1>6
  <2> QED
    BY <1>6, <2>1, RemoveFacts, RemoveLength
<1> HIDE DEF ws
<1>9. Len(ws) > 1
  BY <1>1, <1>7, <1>8, Before
<1>10. /\ grid' \in Seq(Watch) /\ Len(grid') > 0
       /\ whole' \in BOOLEAN /\ (whole' => whole)
       /\ whole' => RunsOn(grid')
       /\ Len(grid) # 1
  BY <1>1, <1>2, <1>3, <1>8, <1>9, Before, RetiledEdit
<1>11. edits' \in 0..MaxEdits /\ UNCHANGED <<trip, header, clock>>
  BY <1>1, EditFacts
<1>12. /\ day' = day /\ day' \in Nat /\ start' \in Int /\ calculate' \in BOOLEAN
       /\ fields' = fields /\ linenoStart' = linenoStart
       /\ ActualWatch' = ActualWatch /\ ActualWatch' \in Noted
  BY <1>1, Before
<1> QED
  BY <1>1, <1>10, <1>11, <1>12 DEF Edited

LEMMA flipWatchesEdits ==
  ASSUME TypeOK, NEW c \in DOMAIN grid, NEW e \in DOMAIN grid, flipWatches(c, e)
  PROVE  Edited
<1> DEFINE v == Manned(c, grid[e].crew, grid[e].star)
           w == Manned(e, grid[c].crew, grid[c].star)
           one == [grid EXCEPT ![c] = v]
           ws == [one EXCEPT ![e] = w]
<1>1. /\ Edit /\ c < e
      /\ UNCHANGED <<watchListFile, disk, hung, day, linenoStart, start, fields, calculate, ActualWatch, whole>>
      /\ grid' = [grid EXCEPT ![c].crew = grid[e].crew, ![c].star = grid[e].star,
                              ![e].crew = grid[c].crew, ![e].star = grid[c].star]
  BY DEF flipWatches
<1>2. c \in Nat /\ e \in Nat /\ c # e /\ grid[c] \in Watch /\ grid[e] \in Watch
  BY <1>1, Before
<1>3. grid' = ws
  <2>1. one[e] = grid[e] /\ one[c] = v
    BY <1>2
  <2> QED
    BY <1>1, <1>2, <2>1 DEF Manned
<1>4. /\ v \in Watch /\ v.start = grid[c].start /\ v.len = grid[c].len
      /\ w \in Watch /\ w.start = grid[e].start /\ w.len = grid[e].len
  <2>1. /\ grid[c].crew \in Crews \cup {Nobody} /\ grid[c].star \in Stars \cup {Nobody}
        /\ grid[e].crew \in Crews \cup {Nobody} /\ grid[e].star \in Stars \cup {Nobody}
    BY <1>2, FieldFacts
  <2>2. v \in Watch /\ w \in Watch
    BY <2>1, MembersFacts
  <2>3. v.start = grid[c].start /\ v.len = grid[c].len
    BY <1>2, <2>1 DEF Manned, Watch
  <2>4. w.start = grid[e].start /\ w.len = grid[e].len
    BY <1>2, <2>1 DEF Manned, Watch
  <2> QED
    BY <2>2, <2>3, <2>4
<1> HIDE DEF v, w
<1>5. /\ one \in Seq(Watch) /\ DOMAIN one = DOMAIN grid
      /\ \A i \in DOMAIN grid : one[i] = IF i = c THEN v ELSE grid[i]
  BY <1>4, Before, ExceptFacts
<1> HIDE DEF one
<1>6. /\ ws \in Seq(Watch) /\ DOMAIN ws = DOMAIN grid
      /\ \A i \in DOMAIN grid : ws[i] = IF i = e THEN w ELSE one[i]
  BY <1>4, <1>5, ExceptFacts
<1> HIDE DEF ws
<1>7. Len(ws) = Len(grid)
  <2>1. Len(ws) \in Nat /\ DOMAIN ws = 1..Len(ws)
    BY <1>6, ListFacts
  <2> QED
    BY <1>6, <2>1, Before
<1>8. \A i \in DOMAIN grid : ws[i].start = grid[i].start /\ ws[i].len = grid[i].len
  BY <1>4, <1>5, <1>6
<1>9. RunsOn(grid) => RunsOn(ws)
  BY <1>6, <1>7, <1>8, Before, SameTimes
<1>10. /\ grid' \in Seq(Watch) /\ Len(grid') > 0 /\ (RunsOn(grid) => RunsOn(grid'))
       /\ Len(grid') = Len(grid)
  <2>1. Len(ws) > 0
    BY <1>7, Before
  <2> QED
    BY <1>3, <1>6, <1>7, <1>9, <2>1
<1>11. edits' \in 0..MaxEdits /\ UNCHANGED <<trip, header, clock>>
  BY <1>1, EditFacts
<1>12. /\ day' = day /\ day' \in Nat /\ start' \in Int /\ calculate' \in BOOLEAN
       /\ calculate' = calculate /\ fields' = fields /\ linenoStart' = linenoStart
       /\ ActualWatch' = ActualWatch /\ ActualWatch' \in Noted
       /\ whole' = whole /\ whole' \in BOOLEAN
       /\ UNCHANGED <<watchListFile, disk, hung>>
  BY <1>1, Before
<1> QED
  BY <1>10, <1>11, <1>12 DEF Edited

LEMMA EditStartEdits ==
  ASSUME TypeOK, EditStart
  PROVE  Edited
<1>1. /\ Edit /\ NoteLengths(grid')
      /\ UNCHANGED <<watchListFile, disk, hung, day, linenoStart, fields, calculate, ActualWatch>>
  BY DEF EditStart
<1>2. PICK s \in Starts :
        \/ start' = DayLength * date(start) + (s % DayLength) /\ grid' = retiled(grid, start')
        \/ start' = DayLength * date(s) + (start % DayLength) /\ grid' = updateWatchTime(read(grid), start')
  BY DEF EditStart
<1>3. s \in Int /\ start \in Int
  BY Before, Numbers
<1>4. start' \in Int
  <2> DEFINE a == DayLength * date(start)
             b == DayLength * date(s)
             k == s % DayLength
             l == start % DayLength
  <2>1. a \in Int /\ b \in Int
    BY <1>3, DateFacts
  <2>2. k \in Int /\ l \in Int
    BY <1>3, Numbers, DivMod
  <2>3. start' = a + k \/ start' = b + l
    BY <1>2
  <2> HIDE DEF a, b, k, l
  <2> QED
    BY <2>1, <2>2, <2>3
<1> DEFINE g == grid'
<1>5. /\ g \in Seq(Watch) /\ Len(g) > 0
      /\ Len(grid) > 1 /\ (\A j \in DOMAIN g : g[j].len \in 1..(DayLength - 1)) => RunsOn(g)
      /\ Len(grid) = 1 => Len(g) = 1
  <2> DEFINE x == start'
             c == read(grid)
  <2>1. x \in Int /\ grid \in Seq(Watch) /\ Len(grid) > 0
    BY <1>4, Before
  <2>2. g = retiled(grid, x) \/ g = updateWatchTime(c, x)
    BY <1>2
  <2>3. c \in Seq(Watch) /\ Len(c) = Len(grid)
    BY <2>1, ReadOut
  <2> HIDE DEF x, g, c
  <2>4. CASE g = retiled(grid, x)
    <3> DEFINE new == retiled(grid, x)
    <3>1. /\ new \in Seq(Watch) /\ Len(new) > 0
          /\ Len(grid) > 1 /\ (\A j \in DOMAIN new : new[j].len \in 1..(DayLength - 1)) => RunsOn(new)
          /\ Len(grid) = 1 => Len(new) = 1
      BY <2>1, RetiledFacts
    <3> QED
      BY <2>4, <3>1
  <2>5. CASE g = updateWatchTime(c, x)
    <3> DEFINE new == updateWatchTime(c, x)
    <3>1. /\ new \in Seq(Watch) /\ Len(new) > 0
          /\ Len(c) > 1 /\ (\A j \in DOMAIN new : new[j].len \in 1..(DayLength - 1)) => RunsOn(new)
          /\ Len(c) = 1 => new = c
      BY <2>1, <2>3, UpdateFacts
    <3> QED
      BY <2>3, <2>5, <3>1
  <2> QED
    BY <2>2, <2>4, <2>5
<1>6. NoteLengths(g)
  BY <1>1
<1>7. /\ whole' \in BOOLEAN /\ (whole' => whole)
      /\ whole' /\ Len(grid) > 1 => \A j \in DOMAIN g : g[j].len \in 1..(DayLength - 1)
  <2> HIDE DEF g
  <2> QED
    BY <1>5, <1>6, NoteFacts
<1>8. whole' /\ RunsOn(grid) => RunsOn(grid')
  BY <1>5, <1>7 DEF RunsOn
<1>9. Len(grid) = 1 => Len(grid') = 1 /\ calculate' = calculate
  BY <1>1, <1>5
<1>10. edits' \in 0..MaxEdits /\ UNCHANGED <<trip, header, clock>>
  BY <1>1, EditFacts
<1>11. /\ day' = day /\ day' \in Nat /\ calculate' \in BOOLEAN
       /\ fields' = fields /\ linenoStart' = linenoStart
       /\ ActualWatch' = ActualWatch /\ ActualWatch' \in Noted
       /\ UNCHANGED <<watchListFile, disk, hung>>
  BY <1>1, Before
<1> QED
  BY <1>4, <1>5, <1>7, <1>8, <1>9, <1>10, <1>11 DEF Edited
-----------------------------------------------------------------------------
(* The clock finds the next watch.                                         *)

LEMMA TypedNext ==
  ASSUME grid' \in Seq(Watch), Len(grid') > 0,
         day' \in Nat, linenoStart' \in 1..(Len(watchListFile') + 1),
         watchListFile' \in Seq(Line), disk' \in Seq(Line),
         header' \in [start: Int, trip: Trips], start' \in Int, trip' \in Trips,
         fields' \in BOOLEAN, calculate' \in BOOLEAN, hung' \in BOOLEAN, whole' \in BOOLEAN,
         ActualWatch' \in Noted, line' \in Seq(Members),
         now' \in 0..MaxClock, wmin' \in 0..HourLength, edits' \in 0..MaxEdits
  PROVE  TypeOK'
<1>1. grid' # <<>>
  <2> DEFINE g == grid'
  <2>1. Len(g) > 0
    OBVIOUS
  <2> HIDE DEF g
  <2>2. g # <<>>
    BY <2>1
  <2> QED
    BY <2>2 DEF g
<1> QED
  BY <1>1 DEF TypeOK, Line, Noted, Members

LEMMA EditedInvariant ==
  ASSUME AInv, Edited
  PROVE  AInv'
<1> USE DEF AInv
<1>1. /\ grid' \in Seq(Watch) /\ Len(grid') > 0 /\ day' \in Nat
      /\ updateLine(grid') \/ UNCHANGED <<watchListFile, disk, hung>>
      /\ linenoStart' = linenoStart /\ trip' = trip /\ header' = header /\ fields' = fields
      /\ now' = now /\ wmin' = wmin /\ line' = line
      /\ start' \in Int /\ calculate' \in BOOLEAN /\ whole' \in BOOLEAN /\ edits' \in 0..MaxEdits
      /\ ActualWatch' \in Noted
      /\ ActualWatch'.active = ActualWatch.active /\ ActualWatch'.end = ActualWatch.end
  BY DEF Edited, clock
<1>2. /\ watchListFile' \in Seq(Line) /\ disk' \in Seq(Line) /\ hung' \in BOOLEAN
      /\ linenoStart \in 1..(Len(watchListFile') + 1)
      /\ watchListFile = <<>> => watchListFile' = <<>>
      /\ \A file \in {watchListFile', disk'} : file # <<>> => 0..header.trip \subseteq days(file)
  <2>1. CASE UNCHANGED <<watchListFile, disk, hung>> \/ watchListFile = <<>>
    <3>1. watchListFile' = watchListFile /\ disk' = disk /\ hung' = hung
      BY <1>1, <2>1 DEF updateLine
    <3>2. \A file \in {watchListFile, disk} : file # <<>> => 0..header.trip \subseteq days(file)
      BY DEF Numbered
    <3> QED
      BY <3>1, <3>2, Before
  <2>2. CASE updateLine(grid') /\ watchListFile # <<>>
    <3> DEFINE ws == grid'
               new == watchListFile'
    <3>1. /\ \E t : Spliced(watchListFile, new, day, ws, linenoStart, t)
          /\ hung' \in BOOLEAN /\ disk' \in {disk, new}
      <4>1. ws \in Seq(Watch) /\ Len(ws) > 0 /\ updateLine(ws)
        BY <1>1, <2>2
      <4> HIDE DEF ws
      <4>2. watchListFile \in Seq(Line) /\ linenoStart \in 1..(Len(watchListFile) + 1) /\ day \in Nat
        BY Before
      <4> QED
        BY <2>2, <4>1, <4>2, UpdateLineFacts
    <3>2. ws \in Seq(Watch) /\ Len(ws) > 0
      BY <1>1
    <3> HIDE DEF ws, new
    <3>3. PICK t : Spliced(watchListFile, new, day, ws, linenoStart, t)
      BY <3>1
    <3>4. days(watchListFile) \subseteq days(new) /\ Len(new) >= linenoStart /\ new # <<>>
      BY <3>2, <3>3, Before, DaysStay
    <3>5. new \in Seq(Line)
      BY <3>3 DEF Spliced
    <3>6. linenoStart \in 1..(Len(new) + 1)
      BY <3>4, <3>5, Before, ListFacts
    <3>7. \A file \in {watchListFile, disk} : file # <<>> => 0..header.trip \subseteq days(file)
      BY DEF Numbered
    <3>8. \A file \in {new, disk'} : file # <<>> => 0..header.trip \subseteq days(file)
      BY <2>2, <3>1, <3>4, <3>7
    <3>9. disk' \in Seq(Line)
      BY <3>1, <3>5, Before
    <3> QED
      BY <2>2, <3>1, <3>5, <3>6, <3>8, <3>9 DEF new
  <2> QED
    BY <1>1, <2>1, <2>2
<1>3. TypeOK'
  <2>1. /\ trip' \in Trips /\ header' \in [start: Int, trip: Trips] /\ fields' \in BOOLEAN
        /\ now' \in 0..MaxClock /\ wmin' \in 0..HourLength /\ line' \in Seq(Members)
        /\ linenoStart' \in 1..(Len(watchListFile') + 1)
    BY <1>1, <1>2 DEF TypeOK, Members
  <2> QED
    BY <1>1, <1>2, <2>1, TypedNext
<1>4. Numbered'
  <2>1. watchListFile' # <<>> /\ ~fields' => trip' = header'.trip
    BY <1>1, <1>2 DEF Numbered
  <2> QED
    BY <1>1, <1>2, <2>1 DEF Numbered
<1>5. OnTime'
  BY <1>1, <1>2 DEF OnTime
<1> QED
  BY <1>3, <1>4, <1>5

LEMMA AHolds ==
  ASSUME Init
  PROVE  AInv
<1>1. /\ grid \in Bases /\ start = grid[1].start /\ trip = FirstTrip
      /\ day = 0 /\ linenoStart = 1
      /\ watchListFile = <<>> /\ disk = <<>> /\ header = [start |-> start, trip |-> trip]
      /\ fields = TRUE /\ calculate = (Len(grid) > 1)
      /\ ActualWatch = NoWatch /\ now = 0 /\ wmin = HourLength /\ line = NoLine
      /\ hung = FALSE /\ edits = 0 /\ whole = TRUE
  BY DEF Init
<1>2. grid \in Seq(Watch) /\ Len(grid) > 0
  BY <1>1, BasesAssumption
<1>3. start \in Int
  <2>1. Len(grid) \in Nat /\ DOMAIN grid = 1..Len(grid)
    BY <1>2, ListFacts
  <2>2. grid[1] \in Watch
    BY <1>2, <2>1, ListFacts
  <2> QED
    BY <1>1, <2>2, FieldFacts
<1>4. header \in [start: Int, trip: Trips] /\ trip \in Trips
  BY <1>1, <1>3, Numbers
<1>5. ActualWatch \in Noted /\ line \in Seq(Members)
  BY <1>1, Numbers DEF NoWatch, Noted, NoLine
<1>6. TypeOK
  <2>1. now \in 0..MaxClock /\ wmin \in 0..HourLength /\ edits \in 0..MaxEdits
    BY <1>1, Numbers
  <2>2. watchListFile \in Seq(Line) /\ day \in Nat /\ disk \in Seq(Line)
    BY <1>1
  <2>3. linenoStart \in 1..(Len(watchListFile) + 1)
    BY <1>1
  <2>4. fields \in BOOLEAN /\ calculate \in BOOLEAN /\ hung \in BOOLEAN /\ whole \in BOOLEAN
    <3>1. fields \in BOOLEAN /\ hung \in BOOLEAN /\ whole \in BOOLEAN
      BY <1>1
    <3> DEFINE b == Len(grid) > 1
    <3>2. b \in BOOLEAN
      OBVIOUS
    <3>3. calculate = b
      BY <1>1
    <3> HIDE DEF b
    <3>4. calculate \in BOOLEAN
      BY <3>2, <3>3
    <3> QED
      BY <3>1, <3>4
  <2>5. grid # <<>>
    BY <1>2
  <2> QED
    BY <1>2, <1>3, <1>4, <1>5, <2>1, <2>2, <2>3, <2>4, <2>5
       DEF TypeOK, Line, Noted, Members
<1> QED
  BY <1>1, <1>6 DEF AInv, Numbered, OnTime

\* A plan that dayNow is asked about has all its days.
LEMMA DaysThere ==
  ASSUME AInv
  PROVE  /\ \A file \in {watchListFile, disk} : file # <<>> => 0 \in days(file) /\ 1 \in days(file)
         /\ 1 \notin days(<<>>)
<1>1. header.trip \in Nat \ {0}
  BY Before DEF AInv
<1>2. 0 \in 0..header.trip /\ 1 \in 0..header.trip
  BY <1>1
<1> QED
  BY <1>2 DEF AInv, Numbered, days

\* The file that Calculate writes: the base, and the days.
LEMMA CalculateFile ==
  ASSUME TypeOK, Calculate
  PROVE  LET n == Len(grid)
             plan == laidOut(read(grid), start, trip)
             m == n * trip
         IN /\ watchListFile' \in Seq(Line) /\ Len(watchListFile') = n + m
            /\ DOMAIN watchListFile' = 1..(n + m)
            /\ \A i \in 1..n : watchListFile'[i] = [day |-> 0, w |-> grid[i]]
            /\ \A k \in 1..m : watchListFile'[n + k] = plan[k]
<1> DEFINE base == [i \in DOMAIN grid |-> [day |-> 0, w |-> grid[i]]]
           plan == laidOut(read(grid), start, trip)
           file == base \o plan
           n == Len(grid)
           m == n * trip
<1>1. watchListFile' = file
  BY DEF Calculate
<1>2. trip \in Nat \ {0} /\ n \in Nat \ {0} /\ DOMAIN grid = 1..n
  BY Before, Numbers
<1>3. /\ base \in Seq(Line) /\ Len(base) = n
      /\ \A i \in 1..n : base[i] = [day |-> 0, w |-> grid[i]]
  <2>1. \A i \in 1..n : [day |-> 0, w |-> grid[i]] \in Line
    BY Before DEF Line
  <2>2. base \in [1..n -> Line]
    BY <1>2, <2>1
  <2> QED
    BY <1>2, <2>2, FcnIsSeq
<1>4. plan \in Seq(Line) /\ Len(plan) = m
  <2>1. start \in Int
    BY Before
  <2> DEFINE shown == read(grid)
  <2>2. shown \in Seq(Watch) /\ Len(shown) = n /\ Len(shown) > 0
    BY <1>2, ReadOut, Before
  <2> HIDE DEF shown
  <2>3. plan = laidOut(shown, start, trip)
    BY DEF shown
  <2> HIDE DEF plan
  <2> QED
    BY <1>2, <2>1, <2>2, <2>3, LaidOutFacts
<1> HIDE DEF base, plan
<1>5. /\ file \in Seq(Line) /\ Len(file) = Len(base) + Len(plan)
      /\ DOMAIN file = 1..(Len(base) + Len(plan))
      /\ \A i \in 1..Len(base) : file[i] = base[i]
      /\ \A i \in 1..Len(plan) : file[Len(base) + i] = plan[i]
  <2>1. base \in Seq(Line) /\ plan \in Seq(Line)
    BY <1>3, <1>4
  <2> QED
    BY <2>1, JoinFacts
<1> HIDE DEF file, n, m
<1>6. /\ file \in Seq(Line) /\ Len(file) = n + m /\ DOMAIN file = 1..(n + m)
      /\ \A i \in 1..n : file[i] = [day |-> 0, w |-> grid[i]]
      /\ \A k \in 1..m : file[n + k] = plan[k]
  BY <1>3, <1>4, <1>5
<1> QED
  BY <1>1, <1>6 DEF n, m, plan

LEMMA CalculateA ==
  ASSUME AInv, Calculate
  PROVE  AInv'
<1> USE DEF AInv
<1> DEFINE plan == laidOut(read(grid), start, trip)
           file == watchListFile'
           n == Len(grid)
           m == n * trip
<1>1. /\ UseBound /\ calculate' = FALSE /\ fields' = FALSE
      /\ watchListFile' = file /\ disk' = file
      /\ header' = [start |-> start, trip |-> trip]
      /\ start' = start /\ trip' = trip /\ hung' = hung /\ whole' = whole
      /\ now' = now /\ wmin' = wmin /\ line' = line
      /\ dayNow(file, now, ActualWatch)
  BY DEF Calculate, clock
<1>2. trip \in Trips /\ trip \in Nat \ {0} /\ n \in Nat \ {0} /\ DOMAIN grid = 1..n
  BY Before, Numbers
<1>4. /\ m \in Nat \ {0}
      /\ \A k \in 1..m : plan[k].day = ((k - 1) \div n) + 1
  <2>1. start \in Int
    BY Before
  <2> DEFINE shown == read(grid)
  <2>2. shown \in Seq(Watch) /\ Len(shown) = n /\ Len(shown) > 0
    BY <1>2, ReadOut, Before
  <2> HIDE DEF shown
  <2>3. plan = laidOut(shown, start, trip)
    BY DEF shown
  <2> HIDE DEF plan
  <2> DEFINE p == Len(shown) * trip
  <2>4. /\ p \in Nat \ {0}
        /\ \A k \in 1..p : laidOut(shown, start, trip)[k].day = ((k - 1) \div Len(shown)) + 1
    <3>1. shown \in Seq(Watch) /\ Len(shown) > 0 /\ start \in Int /\ trip \in Nat \ {0}
      BY <1>2, <2>1, <2>2
    <3> QED
      BY <3>1, LaidOutFacts
  <2>5. p = m
    BY <2>2
  <2> HIDE DEF p, m, n
  <2> QED
    BY <2>2, <2>3, <2>4, <2>5
<1>5. /\ file \in Seq(Line) /\ Len(file) = n + m /\ DOMAIN file = 1..(n + m)
      /\ \A i \in 1..n : file[i] = [day |-> 0, w |-> grid[i]]
      /\ \A k \in 1..m : file[n + k] = plan[k]
  BY CalculateFile
<1> HIDE DEF file, plan
<1>6. /\ file \in Seq(Line) /\ Len(file) = n + m /\ DOMAIN file = 1..(n + m)
      /\ \A i \in 1..n : file[i].day = 0
      /\ \A k \in 1..m : file[n + k].day = ((k - 1) \div n) + 1
  <2> HIDE DEF n, m
  <2>1. file \in Seq(Line) /\ Len(file) = n + m /\ DOMAIN file = 1..(n + m)
    BY <1>5
  <2>2. ASSUME NEW i \in 1..n PROVE file[i].day = 0
    <3>1. file[i] = [day |-> 0, w |-> grid[i]]
      BY <1>5
    <3> QED
      BY <3>1
  <2>3. ASSUME NEW k \in 1..m PROVE file[n + k].day = ((k - 1) \div n) + 1
    <3>1. file[n + k] = plan[k]
      BY <1>5
    <3>2. plan[k].day = ((k - 1) \div n) + 1
      BY <1>4
    <3> QED
      BY <3>1, <3>2
  <2> QED
    BY <2>1, <2>2, <2>3
<1>7. ASSUME NEW d \in 1..trip PROVE \E k \in 1..m : ((k - 1) \div n) + 1 = d
  <2> DEFINE q == d - 1
             k == n * q + 1
  <2>1. q \in Nat /\ q <= trip - 1 /\ trip \in Nat
    BY <1>2
  <2>2. n * q \in Nat /\ n * q <= n * (trip - 1)
    <3> HIDE DEF q
    <3>1. n \in Nat /\ trip - 1 \in Nat
      BY <1>2
    <3>2. n * q \in Nat
      BY <2>1, <3>1
    <3>3. n * q <= n * (trip - 1)
      BY <2>1, <3>1
    <3> QED
      BY <3>2, <3>3
  <2>3. n * (trip - 1) = n * trip - n /\ n * trip \in Nat
    BY <1>2
  <2>4. (n * q + 0) \div n = q
    <3>1. q \in Int /\ 0 \in 0..(n - 1) /\ n \in Nat \ {0}
      BY <1>2, <2>1
    <3> HIDE DEF q, n
    <3> QED
      BY <3>1, ModOf
  <2> DEFINE p == n * q
             r == n * trip
  <2>5. p \in Nat /\ r \in Nat /\ p <= r - n /\ p + 0 = p /\ m = r
    BY <2>2, <2>3
  <2>6. p \div n = q
    BY <2>4, <2>5
  <2> HIDE DEF p, q, r, m
  <2>7. p + 1 \in 1..m /\ (p + 1) - 1 = p
    BY <1>2, <2>5
  <2>8. q + 1 = d
    BY DEF q
  <2>9. (((p + 1) - 1) \div n) + 1 = d
    BY <2>6, <2>7, <2>8
  <2> QED
    BY <2>7, <2>9
<1> HIDE DEF m
<1>8. 0..trip \subseteq days(file)
  <2>1. 0 \in days(file)
    <3>1. 1 \in 1..n /\ 1 \in DOMAIN file
      BY <1>2, <1>4, <1>6
    <3> QED
      BY <1>6, <3>1 DEF days
  <2>2. ASSUME NEW d \in 1..trip PROVE d \in days(file)
    <3>1. PICK k \in 1..m : ((k - 1) \div n) + 1 = d
      BY <1>7
    <3>2. n + k \in DOMAIN file /\ file[n + k].day = d
      BY <1>2, <1>4, <1>6, <3>1
    <3> QED
      BY <3>2 DEF days
  <2>3. \A d \in 0..trip : d = 0 \/ d \in 1..trip
    BY <1>2
  <2> QED
    BY <2>1, <2>2, <2>3
<1>9. 1 \in days(file)
  BY <1>2, <1>8
<1>10. now \in Int /\ ActualWatch \in Noted
  BY Before
<1>11. /\ ActualWatch' \in Noted /\ Later(now)
       /\ \E d \in days(file) : Reads(file, d)
  BY <1>1, <1>6, <1>9, <1>10, DayNowFacts
<1>12. /\ grid' \in Seq(Watch) /\ Len(grid') > 0
       /\ day' \in Nat /\ linenoStart' \in 1..(Len(file) + 1)
  BY <1>6, <1>11, ReadFacts
<1>13. edits' \in 0..MaxEdits
  BY <1>1, UseCounts
<1>14. TypeOK'
  <2>1. header' \in [start: Int, trip: Trips]
    BY <1>1, Before
  <2>2. watchListFile' \in Seq(Line) /\ disk' \in Seq(Line)
        /\ linenoStart' \in 1..(Len(watchListFile') + 1)
    BY <1>1, <1>6, <1>12
  <2>3. /\ fields' \in BOOLEAN /\ calculate' \in BOOLEAN /\ hung' \in BOOLEAN /\ whole' \in BOOLEAN
        /\ start' \in Int /\ trip' \in Trips
        /\ now' \in 0..MaxClock /\ wmin' \in 0..HourLength /\ line' \in Seq(Members)
    BY <1>1, Before
  <2> QED
    BY <1>11, <1>12, <1>13, <2>1, <2>2, <2>3, TypedNext
<1>15. Numbered'
  BY <1>1, <1>8 DEF Numbered
<1>16. OnTime'
  BY <1>1, <1>11 DEF OnTime, Later
<1> QED
  BY <1>14, <1>15, <1>16

\* Reset and ShowDay
LEMMA ReadA ==
  ASSUME AInv, NEW d \in days(watchListFile), readRecord(watchListFile, d), watchListFile # <<>>,
         UNCHANGED <<files, start, trip, ActualWatch, clock, hung, notes>>,
         calculate' \in BOOLEAN, fields' \in BOOLEAN, fields' \/ ~fields
  PROVE  AInv'
<1> USE DEF AInv
<1>1. /\ watchListFile' = watchListFile /\ disk' = disk /\ header' = header
      /\ start' = start /\ trip' = trip /\ ActualWatch' = ActualWatch
      /\ now' = now /\ wmin' = wmin /\ line' = line /\ hung' = hung
      /\ edits' = edits /\ whole' = whole
  BY DEF files, clock, notes
<1>2. Reads(watchListFile, d)
  BY DEF readRecord, Reads
<1>3. /\ grid' \in Seq(Watch) /\ Len(grid') > 0
      /\ day' \in Nat /\ linenoStart' \in 1..(Len(watchListFile) + 1)
  BY <1>2, Before, ReadFacts
<1>4. TypeOK'
  <2>1. /\ header' \in [start: Int, trip: Trips]
        /\ linenoStart' \in 1..(Len(watchListFile') + 1)
    BY <1>1, <1>3 DEF TypeOK
  <2>2. /\ watchListFile' \in Seq(Line) /\ disk' \in Seq(Line)
        /\ hung' \in BOOLEAN /\ whole' \in BOOLEAN
        /\ start' \in Int /\ trip' \in Trips /\ ActualWatch' \in Noted
        /\ now' \in 0..MaxClock /\ wmin' \in 0..HourLength /\ line' \in Seq(Members)
        /\ edits' \in 0..MaxEdits
    BY <1>1, Before
  <2> QED
    BY <1>3, <2>1, <2>2, TypedNext
<1>5. Numbered'
  BY <1>1 DEF Numbered
<1>6. OnTime'
  BY <1>1 DEF OnTime
<1> QED
  BY <1>4, <1>5, <1>6

LEMMA ResetA ==
  ASSUME AInv, Reset
  PROVE  AInv'
<1>1. /\ watchListFile # <<>> /\ fields' = TRUE /\ calculate' = TRUE
      /\ readRecord(watchListFile, 0)
      /\ UNCHANGED <<files, start, trip, ActualWatch, clock, hung, notes>>
  BY DEF Reset
<1>2. 0 \in days(watchListFile)
  BY <1>1, DaysThere
<1> QED
  BY <1>1, <1>2, ReadA

LEMMA ShownDay ==
  ASSUME AInv, watchListFile # <<>>, ~fields, NEW d \in 1..trip
  PROVE  d \in days(watchListFile)
<1>1. trip = header.trip /\ 0..header.trip \subseteq days(watchListFile) /\ trip \in Nat \ {0}
  BY Before DEF AInv, Numbered
<1>2. d \in 0..header.trip
  BY <1>1
<1> QED
  BY <1>1, <1>2

LEMMA ShowDayA ==
  ASSUME AInv, ShowDay
  PROVE  AInv'
<1>1. /\ watchListFile # <<>> /\ ~fields
      /\ UNCHANGED <<files, inputs, calculate, ActualWatch, clock, hung, notes>>
  BY DEF ShowDay
<1>2. PICK d \in 1..trip : readRecord(watchListFile, d)
  BY DEF ShowDay
<1>3. d \in days(watchListFile)
  BY <1>1, ShownDay
<1>4. /\ calculate' \in BOOLEAN /\ fields' \in BOOLEAN /\ (fields' \/ ~fields)
      /\ UNCHANGED <<files, start, trip, ActualWatch, clock, hung, notes>>
  BY <1>1, Before DEF AInv, inputs
<1> QED
  BY <1>1, <1>2, <1>3, <1>4, ReadA

LEMMA setAsNewWatchbaseA ==
  ASSUME AInv, setAsNewWatchbase
  PROVE  AInv'
<1> USE DEF AInv
<1>1. /\ UseBound /\ start' = grid[1].date + (start % DayLength)
      /\ watchListFile' = <<>> /\ linenoStart' = 1 /\ day' = 0
      /\ fields' = TRUE /\ calculate' = TRUE
      /\ grid' = grid /\ disk' = disk /\ header' = header /\ trip' = trip
      /\ ActualWatch' = ActualWatch /\ hung' = hung /\ whole' = whole
      /\ now' = now /\ wmin' = wmin /\ line' = line
  BY DEF setAsNewWatchbase, clock
<1>2. start' \in Int
  <2> DEFINE r == start % DayLength
             q == grid[1].date
  <2>1. r \in Int
    BY Before, Numbers, DivMod
  <2>2. q \in Int
    BY Before, FieldFacts
  <2>3. start' = q + r
    BY <1>1
  <2> HIDE DEF q, r
  <2> QED
    BY <2>1, <2>2, <2>3
<1>3. edits' \in 0..MaxEdits
  BY <1>1, UseCounts
<1>4. TypeOK'
  <2>1. header' \in [start: Int, trip: Trips]
    BY <1>1 DEF TypeOK
  <2>2. watchListFile' \in Seq(Line) /\ linenoStart' \in 1..(Len(watchListFile') + 1) /\ day' \in Nat
    BY <1>1
  <2>3. /\ grid' \in Seq(Watch) /\ Len(grid') > 0 /\ disk' \in Seq(Line)
        /\ fields' \in BOOLEAN /\ calculate' \in BOOLEAN /\ hung' \in BOOLEAN /\ whole' \in BOOLEAN
        /\ trip' \in Trips /\ ActualWatch' \in Noted
        /\ now' \in 0..MaxClock /\ wmin' \in 0..HourLength /\ line' \in Seq(Members)
    BY <1>1, Before
  <2> QED
    BY <1>2, <1>3, <2>1, <2>2, <2>3, TypedNext
<1>5. Numbered'
  BY <1>1 DEF Numbered
<1>6. OnTime'
  BY <1>1 DEF OnTime
<1> QED
  BY <1>4, <1>5, <1>6

LEMMA EditTripA ==
  ASSUME AInv, EditTrip
  PROVE  AInv'
<1> USE DEF AInv
<1>1. /\ UseBound /\ fields /\ trip' \in Trips
      /\ grid' = grid /\ day' = day /\ linenoStart' = linenoStart
      /\ watchListFile' = watchListFile /\ disk' = disk /\ header' = header
      /\ start' = start /\ fields' = fields /\ calculate' = calculate
      /\ ActualWatch' = ActualWatch /\ hung' = hung /\ whole' = whole
      /\ now' = now /\ wmin' = wmin /\ line' = line
  BY DEF EditTrip, clock, screen, files
<1>2. edits' \in 0..MaxEdits
  BY <1>1, UseCounts
<1>3. TypeOK'
  BY <1>1, <1>2 DEF TypeOK
<1>4. Numbered'
  BY <1>1 DEF Numbered
<1>5. OnTime'
  BY <1>1 DEF OnTime
<1> QED
  BY <1>3, <1>4, <1>5

\* The grid is empty.
LEMMA EmptyGrid ==
  ASSUME TypeOK, emptyGrid
  PROVE  /\ grid' \in Seq(Watch) /\ Len(grid') = 1 /\ start' \in Int
         /\ day' = 0 /\ linenoStart' = 1 /\ watchListFile' = <<>>
         /\ fields' = TRUE /\ calculate' = FALSE
<1>1. /\ start' = DayLength * date(now) + FirstTime
      /\ grid' = firstColumn(start')
      /\ day' = 0 /\ linenoStart' = 1 /\ watchListFile' = <<>>
      /\ fields' = TRUE /\ calculate' = FALSE
  BY DEF emptyGrid
<1> DEFINE s == DayLength * date(now) + FirstTime
           t == DayLength * date(s)
           w == [[empty(0) EXCEPT !.start = s] EXCEPT !.date = t]
<1>2. s \in Int
  <2> DEFINE x == DayLength * date(now)
  <2>1. now \in Int
    BY Before
  <2>2. x \in Int /\ FirstTime \in Int
    BY <2>1, Numbers, DateFacts
  <2> HIDE DEF x
  <2>3. x + FirstTime \in Int
    BY <2>2
  <2> QED
    BY <2>3 DEF x
<1>3. t \in Int
  <2> HIDE DEF s
  <2> QED
    BY <1>2, DateFacts
<1>4. firstColumn(s) = <<w>>
  BY DEF firstColumn
<1>5. w \in Watch
  <2> HIDE DEF s, t
  <2>1. empty(0) \in Watch
    BY EmptyFacts
  <2> QED
    BY <1>2, <1>3, <2>1 DEF Watch
<1>6. start' = s /\ grid' = <<w>>
  BY <1>1, <1>4
<1> HIDE DEF s, w
<1>7. <<w>> \in Seq(Watch) /\ Len(<<w>>) = 1
  BY <1>5
<1> QED
  BY <1>1, <1>2, <1>6, <1>7

LEMMA clearWakeA ==
  ASSUME AInv, clearWake
  PROVE  AInv'
<1> USE DEF AInv
<1>1. /\ emptyGrid /\ disk' = <<>>
      /\ header' = header /\ trip' = trip /\ ActualWatch' = ActualWatch /\ hung' = hung
      /\ now' = now /\ wmin' = wmin /\ line' = line /\ edits' = edits /\ whole' = whole
  BY DEF clearWake, clock, notes
<1>2. /\ grid' \in Seq(Watch) /\ Len(grid') = 1 /\ start' \in Int
      /\ day' = 0 /\ linenoStart' = 1 /\ watchListFile' = <<>>
      /\ fields' = TRUE /\ calculate' = FALSE
  BY <1>1, EmptyGrid
<1>3. TypeOK'
  <2>1. header' \in [start: Int, trip: Trips]
    BY <1>1 DEF TypeOK
  <2>2. /\ watchListFile' \in Seq(Line) /\ disk' \in Seq(Line) /\ day' \in Nat
        /\ linenoStart' \in 1..(Len(watchListFile') + 1) /\ Len(grid') > 0
    BY <1>1, <1>2
  <2>3. /\ fields' \in BOOLEAN /\ calculate' \in BOOLEAN /\ hung' \in BOOLEAN /\ whole' \in BOOLEAN
        /\ trip' \in Trips /\ ActualWatch' \in Noted
        /\ now' \in 0..MaxClock /\ wmin' \in 0..HourLength /\ line' \in Seq(Members)
        /\ edits' \in 0..MaxEdits
    BY <1>1, <1>2, Before
  <2> QED
    BY <1>2, <2>1, <2>2, <2>3, TypedNext
<1>4. Numbered' /\ OnTime'
  BY <1>1, <1>2 DEF Numbered, OnTime
<1> QED
  BY <1>3, <1>4

\* dayNow on the plan that is in force
LEMMA LooksUp ==
  ASSUME AInv, NEW t \in Int, dayNow(watchListFile, t, ActualWatch)
  PROVE  /\ ActualWatch' \in Noted
         /\ grid' \in Seq(Watch) /\ Len(grid') > 0
         /\ day' \in Nat /\ linenoStart' \in 1..(Len(watchListFile) + 1)
         /\ watchListFile # <<>> => Later(t) /\ \E d \in days(watchListFile) : Reads(watchListFile, d)
         /\ watchListFile = <<>> => UNCHANGED screen
<1> USE DEF AInv
<1> DEFINE file == watchListFile
<1>1. file \in Seq(Line) /\ ActualWatch \in Noted
  BY Before
<1>2. /\ ActualWatch' \in Noted
      /\ 1 \notin days(file) => UNCHANGED screen
      /\ 1 \in days(file) => Later(t) /\ \E d \in days(file) : Reads(file, d)
  BY <1>1, DayNowFacts
<1>3. (file # <<>> => 1 \in days(file)) /\ (file = <<>> => 1 \notin days(file))
  BY DaysThere
<1>4. CASE file # <<>>
  <2>1. \E d \in days(file) : Reads(file, d)
    BY <1>2, <1>3, <1>4
  <2>2. /\ grid' \in Seq(Watch) /\ Len(grid') > 0
        /\ day' \in Nat /\ linenoStart' \in 1..(Len(file) + 1)
    BY <1>1, <2>1, ReadFacts
  <2> QED
    BY <1>2, <1>3, <1>4, <2>1, <2>2
<1>5. CASE file = <<>>
  <2>1. UNCHANGED screen
    BY <1>2, <1>3, <1>5
  <2>2. grid' = grid /\ day' = day /\ linenoStart' = linenoStart
    BY <2>1 DEF screen
  <2> QED
    BY <1>2, <1>5, <2>1, <2>2, Before
<1> QED
  BY <1>4, <1>5

LEMMA DayNowA ==
  ASSUME AInv, DayNow
  PROVE  AInv'
<1> USE DEF AInv
<1>1. /\ dayNow(watchListFile, now, ActualWatch)
      /\ watchListFile' = watchListFile /\ disk' = disk /\ header' = header
      /\ start' = start /\ trip' = trip /\ fields' = fields /\ calculate' = calculate
      /\ now' = now /\ wmin' = wmin /\ line' = line /\ hung' = hung
      /\ edits' = edits /\ whole' = whole
  BY DEF DayNow, files, inputs, clock, notes
<1>2. /\ ActualWatch' \in Noted
      /\ grid' \in Seq(Watch) /\ Len(grid') > 0
      /\ day' \in Nat /\ linenoStart' \in 1..(Len(watchListFile) + 1)
      /\ watchListFile # <<>> => Later(now)
  BY <1>1, Before, LooksUp
<1>3. TypeOK'
  <2>1. header' \in [start: Int, trip: Trips] /\ linenoStart' \in 1..(Len(watchListFile') + 1)
    BY <1>1, <1>2 DEF TypeOK
  <2>2. /\ watchListFile' \in Seq(Line) /\ disk' \in Seq(Line) /\ start' \in Int
        /\ fields' \in BOOLEAN /\ calculate' \in BOOLEAN /\ hung' \in BOOLEAN /\ whole' \in BOOLEAN
        /\ trip' \in Trips
        /\ now' \in 0..MaxClock /\ wmin' \in 0..HourLength /\ line' \in Seq(Members)
        /\ edits' \in 0..MaxEdits
    BY <1>1, Before
  <2> QED
    BY <1>2, <2>1, <2>2, TypedNext
<1>4. Numbered'
  BY <1>1 DEF Numbered
<1>5. OnTime'
  BY <1>1, <1>2 DEF OnTime, Later
<1> QED
  BY <1>3, <1>4, <1>5

\* A minute later it is another minute of the hour.
LEMMA NextMinute ==
  ASSUME NEW t \in Int
  PROVE  (t + 1) % HourLength # t % HourLength
<1> DEFINE H == HourLength
           p == t \div H
           q == (t + 1) \div H
           r == t % H
<1>1. H \in Nat \ {0} /\ H > 1 /\ t + 1 \in Int
  BY Numbers
<1>2. p \in Int /\ r \in 0..(H - 1) /\ t = H * p + r
  BY <1>1, DivMod
<1> SUFFICES ASSUME (t + 1) % H = r PROVE FALSE
  OBVIOUS
<1>3. q \in Int /\ t + 1 = H * q + r
  <2> DEFINE u == t + 1
  <2>1. u \in Int /\ u % H = r
    BY <1>1
  <2> HIDE DEF u
  <2>2. u \div H \in Int /\ u = H * (u \div H) + (u % H)
    BY <1>1, <2>1, DivMod
  <2> QED
    BY <2>1, <2>2 DEF u
<1> HIDE DEF H, p, q, r
<1>4. H * p \in Int /\ H * q \in Int
  BY <1>1, <1>2, <1>3
<1>5. H * q = H * p + 1
  BY <1>1, <1>2, <1>3, <1>4
<1>6. q > p
  <2> SUFFICES ASSUME q <= p PROVE FALSE
    BY <1>2, <1>3
  <2>1. H * q <= H * p
    BY <1>1, <1>2, <1>3
  <2> QED
    BY <1>4, <1>5, <2>1
<1>7. H * q >= H * p + H
  <2>1. H * (p + 1) = H * p + H /\ H * q >= H * (p + 1)
    BY <1>1, <1>2, <1>3, <1>6
  <2> QED
    BY <2>1
<1> QED
  BY <1>1, <1>4, <1>5, <1>7

LEMMA MinuteA ==
  ASSUME AInv, Minute
  PROVE  AInv'
<1> USE DEF AInv
<1> DEFINE t == now + 1
<1>1. /\ now < MaxClock /\ now' = t /\ OnIdle(t)
      /\ watchListFile' = watchListFile /\ disk' = disk /\ header' = header
      /\ start' = start /\ trip' = trip /\ fields' = fields /\ calculate' = calculate
      /\ hung' = hung /\ edits' = edits /\ whole' = whole
  BY DEF Minute, files, inputs, notes
<1>2. t \in Int /\ now' \in 0..MaxClock /\ now \in Int /\ t = now + 1
  <2>1. now \in 0..MaxClock
    BY DEF TypeOK
  <2>2. MaxClock \in Nat
    BY Numbers
  <2> QED
    BY <1>1, <2>1, <2>2
<1>3. (t % HourLength) \in 0..HourLength /\ (t % HourLength) # (now % HourLength)
  <2>1. t % HourLength \in 0..(HourLength - 1)
    BY <1>2, Numbers, DivMod
  <2>2. (t % HourLength) # (now % HourLength)
    BY <1>2, NextMinute
  <2> DEFINE r == t % HourLength
  <2> HIDE DEF r
  <2>3. r \in 0..(HourLength - 1) => r \in 0..HourLength
    BY Numbers
  <2> QED
    BY <2>1, <2>2, <2>3 DEF r
<1>4. \/ /\ dayNow(watchListFile, t, ActualWatch)
         /\ \/ wmin' = t % HourLength /\ line' \in {ActualWatch'.who, <<Nobody>>}
            \/ wmin' = wmin /\ line' = NoLine
      \/ /\ ~ChangeDue(t) /\ (ActualWatch.active \/ ~(t >= ActualWatch.end))
         /\ wmin' = wmin /\ line' = NoLine
         /\ UNCHANGED <<screen, ActualWatch>>
  <2>1. CASE ChangeDue(t)
    <3>1. /\ wmin' = t % HourLength /\ dayNow(watchListFile, t, ActualWatch)
          /\ line' = IF ActualWatch'.active THEN ActualWatch'.who ELSE <<Nobody>>
      BY <1>1, <2>1 DEF OnIdle
    <3> QED
      BY <3>1
  <2>2. CASE ~ChangeDue(t) /\ (~ActualWatch.active /\ t >= ActualWatch.end)
    <3>1. /\ wmin' = wmin /\ dayNow(watchListFile, t, ActualWatch) /\ line' = NoLine
      BY <1>1, <2>2 DEF OnIdle
    <3> QED
      BY <3>1
  <2>3. CASE ~ChangeDue(t) /\ ~(~ActualWatch.active /\ t >= ActualWatch.end)
    <3>1. /\ wmin' = wmin /\ UNCHANGED <<screen, ActualWatch>> /\ line' = NoLine
      BY <1>1, <2>3 DEF OnIdle
    <3> QED
      BY <2>3, <3>1
  <2> QED
    BY <2>1, <2>2, <2>3
<1> HIDE DEF t
<1>5. CASE dayNow(watchListFile, t, ActualWatch)
           /\ \/ wmin' = t % HourLength /\ line' \in {ActualWatch'.who, <<Nobody>>}
              \/ wmin' = wmin /\ line' = NoLine
  <2>1. /\ ActualWatch' \in Noted
        /\ grid' \in Seq(Watch) /\ Len(grid') > 0
        /\ day' \in Nat /\ linenoStart' \in 1..(Len(watchListFile) + 1)
        /\ watchListFile # <<>> => Later(t)
    BY <1>2, <1>5, LooksUp
  <2>2. wmin' \in 0..HourLength
    BY <1>3, <1>5, Before
  <2>3. line' \in Seq(Members)
    <3>1. ActualWatch'.who \in Seq(Members)
      BY <2>1 DEF Noted
    <3>2. <<Nobody>> \in Seq(Members) /\ NoLine \in Seq(Members)
      BY DEF Members, NoLine
    <3> QED
      BY <1>5, <3>1, <3>2
  <2>4. TypeOK'
    <3>1. header' \in [start: Int, trip: Trips] /\ linenoStart' \in 1..(Len(watchListFile') + 1)
      BY <1>1, <2>1 DEF TypeOK
    <3>2. /\ watchListFile' \in Seq(Line) /\ disk' \in Seq(Line) /\ start' \in Int
          /\ fields' \in BOOLEAN /\ calculate' \in BOOLEAN /\ hung' \in BOOLEAN /\ whole' \in BOOLEAN
          /\ trip' \in Trips /\ edits' \in 0..MaxEdits
      BY <1>1, Before
    <3> QED
      BY <1>2, <2>1, <2>2, <2>3, <3>1, <3>2, TypedNext
  <2>5. OnTime'
    BY <1>1, <2>1 DEF OnTime, Later
  <2>6. Numbered'
    BY <1>1 DEF Numbered
  <2> QED
    BY <2>4, <2>5, <2>6
<1>6. CASE /\ ~ChangeDue(t) /\ (ActualWatch.active \/ ~(t >= ActualWatch.end))
           /\ wmin' = wmin /\ line' = NoLine
           /\ UNCHANGED <<screen, ActualWatch>>
  <2>1. /\ grid' = grid /\ day' = day /\ linenoStart' = linenoStart /\ ActualWatch' = ActualWatch
        /\ wmin' = wmin /\ line' = NoLine
    BY <1>6 DEF screen
  <2>2. TypeOK'
    <3>1. header' \in [start: Int, trip: Trips]
      BY <1>1 DEF TypeOK
    <3>2. NoLine \in Seq(Members)
      BY DEF NoLine
    <3>3. /\ watchListFile' \in Seq(Line) /\ disk' \in Seq(Line) /\ start' \in Int
          /\ fields' \in BOOLEAN /\ calculate' \in BOOLEAN /\ hung' \in BOOLEAN /\ whole' \in BOOLEAN
          /\ trip' \in Trips /\ edits' \in 0..MaxEdits
          /\ grid' \in Seq(Watch) /\ Len(grid') > 0 /\ day' \in Nat
          /\ linenoStart' \in 1..(Len(watchListFile') + 1)
          /\ ActualWatch' \in Noted /\ wmin' \in 0..HourLength
      BY <1>1, <2>1, Before
    <3> QED
      BY <1>2, <2>1, <3>1, <3>2, <3>3, TypedNext
  <2>3. OnTime'
    <3> SUFFICES ASSUME watchListFile # <<>>, ActualWatch.active
                 PROVE  t < ActualWatch.end \/ (t = ActualWatch.end /\ wmin = t % HourLength)
      BY <1>1, <2>1 DEF OnTime
    <3> DEFINE e == ActualWatch.end
    <3>1. e \in Int
      BY Before DEF Noted
    <3>2. t < e \/ wmin = t % HourLength
      <4>1. ~(t >= e) \/ ~(wmin # t % HourLength)
        BY <1>6 DEF ChangeDue
      <4> HIDE DEF e
      <4>2. ~(t >= e) => t < e
        BY <1>2, <3>1
      <4> QED
        BY <4>1, <4>2
    <3>3. now < e \/ (now = e /\ wmin = now % HourLength)
      BY DEF OnTime
    <3>4. CASE now < e
      <4> HIDE DEF e
      <4>1. t < e \/ t = e
        BY <1>2, <3>1, <3>4
      <4> QED
        BY <3>2, <4>1 DEF e
    <3>5. CASE now = e /\ wmin = now % HourLength
      <4> HIDE DEF e
      <4>1. ~(t < e)
        BY <1>2, <3>1, <3>5
      <4> QED
        BY <1>3, <3>2, <3>5, <4>1
    <3> QED
      BY <3>3, <3>4, <3>5
  <2>4. Numbered'
    BY <1>1 DEF Numbered
  <2> QED
    BY <2>2, <2>3, <2>4
<1> QED
  BY <1>4, <1>5, <1>6

LEMMA RestartA ==
  ASSUME AInv, Restart
  PROVE  AInv'
<1> USE DEF AInv
<1>1. /\ Reopen \/ ReopenEmpty
      /\ hung' = FALSE /\ wmin' = HourLength /\ line' = NoLine
      /\ disk' = disk /\ header' = header /\ now' = now /\ edits' = edits /\ whole' = whole
  BY DEF Restart, notes
<1>2. NoLine \in Seq(Members) /\ NoWatch \in Noted /\ HourLength \in 0..HourLength
  BY Numbers DEF NoLine, NoWatch, Noted
<1>3. header' \in [start: Int, trip: Trips]
  BY <1>1 DEF TypeOK
<1>4. /\ disk' \in Seq(Line) /\ hung' \in BOOLEAN /\ whole' \in BOOLEAN
      /\ now' \in 0..MaxClock /\ wmin' \in 0..HourLength /\ line' \in Seq(Members)
      /\ edits' \in 0..MaxEdits
  BY <1>1, <1>2, Before
<1>5. CASE Reopen
  <2>1. /\ Len(disk) + 1 > LoadLimit /\ watchListFile' = disk
        /\ start' = header.start /\ trip' = header.trip
        /\ fields' = FALSE /\ calculate' = FALSE
        /\ dayNow(disk, now, NoWatch)
    BY <1>5 DEF Reopen
  <2>2. disk # <<>>
    <3>1. Len(disk) \in Nat /\ LoadLimit \in Nat \ {0}
      BY Before, ListFacts, Numbers
    <3>2. Len(disk) # 0
      BY <2>1, <3>1
    <3> QED
      BY <3>2
  <2>3. 1 \in days(disk)
    BY <2>2, DaysThere
  <2>4. now \in Int /\ disk \in Seq(Line)
    BY Before
  <2>5. /\ ActualWatch' \in Noted /\ Later(now)
        /\ \E d \in days(disk) : Reads(disk, d)
    BY <1>2, <2>1, <2>3, <2>4, DayNowFacts
  <2>6. /\ grid' \in Seq(Watch) /\ Len(grid') > 0
        /\ day' \in Nat /\ linenoStart' \in 1..(Len(disk) + 1)
    BY <2>4, <2>5, ReadFacts
  <2>7. /\ watchListFile' \in Seq(Line) /\ linenoStart' \in 1..(Len(watchListFile') + 1)
        /\ start' \in Int /\ trip' \in Trips /\ fields' \in BOOLEAN /\ calculate' \in BOOLEAN
    BY <2>1, <2>4, <2>6, Before
  <2>8. TypeOK'
    BY <1>3, <1>4, <2>5, <2>6, <2>7, TypedNext
  <2>9. Numbered'
    BY <1>1, <2>1 DEF Numbered
  <2>10. OnTime'
    BY <1>1, <2>5 DEF OnTime, Later
  <2> QED
    BY <2>8, <2>9, <2>10
<1>6. CASE ReopenEmpty
  <2>1. emptyGrid /\ ActualWatch' = NoWatch /\ trip' = FirstTrip
    BY <1>6 DEF ReopenEmpty
  <2>2. /\ grid' \in Seq(Watch) /\ Len(grid') = 1 /\ start' \in Int
        /\ day' = 0 /\ linenoStart' = 1 /\ watchListFile' = <<>>
        /\ fields' = TRUE /\ calculate' = FALSE
    BY <2>1, EmptyGrid
  <2>3. /\ watchListFile' \in Seq(Line) /\ linenoStart' \in 1..(Len(watchListFile') + 1)
        /\ day' \in Nat /\ trip' \in Trips /\ fields' \in BOOLEAN /\ calculate' \in BOOLEAN
        /\ ActualWatch' \in Noted /\ Len(grid') > 0
    <3>1. watchListFile' \in Seq(Line) /\ linenoStart' \in 1..(Len(watchListFile') + 1)
      <4>1. <<>> \in Seq(Line) /\ 1 \in 1..(Len(<<>>) + 1)
        OBVIOUS
      <4> QED
        BY <2>2, <4>1
    <3>2. Len(grid') > 0 /\ day' \in Nat /\ fields' \in BOOLEAN /\ calculate' \in BOOLEAN
      <4> DEFINE n == Len(grid')
      <4>1. n = 1
        BY <2>2
      <4> HIDE DEF n
      <4>2. n > 0
        BY <4>1
      <4>3. day' \in Nat /\ fields' \in BOOLEAN /\ calculate' \in BOOLEAN
        BY <2>2
      <4> QED
        BY <4>2, <4>3 DEF n
    <3>3. trip' \in Trips /\ ActualWatch' \in Noted
      BY <1>2, <2>1, Numbers
    <3> QED
      BY <3>1, <3>2, <3>3
  <2>4. TypeOK'
    BY <1>3, <1>4, <2>2, <2>3, TypedNext
  <2>5. Numbered' /\ OnTime'
    BY <1>1, <2>2 DEF Numbered, OnTime
  <2> QED
    BY <2>4, <2>5
<1> QED
  BY <1>1, <1>5, <1>6

LEMMA EditWatchEdits ==
  ASSUME TypeOK, NEW c \in DOMAIN grid, EditWatch(c)
  PROVE  Edited
BY EditLengthEdits, EditMembersEdits, deleteMembersEdits, splitWatchEdits, mergeWatchesEdits
   DEF EditWatch

LEMMA AStays ==
  ASSUME AInv, [Next]_vars
  PROVE  AInv'
<1>1. ASSUME NEW c \in DOMAIN grid, EditWatch(c) PROVE AInv'
  BY <1>1, EditWatchEdits, EditedInvariant DEF AInv
<1>2. ASSUME NEW c \in DOMAIN grid, NEW e \in DOMAIN grid, flipWatches(c, e) PROVE AInv'
  BY <1>2, flipWatchesEdits, EditedInvariant DEF AInv
<1>3. CASE EditStart
  BY <1>3, EditStartEdits, EditedInvariant DEF AInv
<1>4. CASE EditTrip
  BY <1>4, EditTripA
<1>5. CASE Calculate
  BY <1>5, CalculateA
<1>6. CASE Reset
  BY <1>6, ResetA
<1>7. CASE setAsNewWatchbase
  BY <1>7, setAsNewWatchbaseA
<1>8. CASE clearWake
  BY <1>8, clearWakeA
<1>9. CASE ShowDay
  BY <1>9, ShowDayA
<1>10. CASE DayNow
  BY <1>10, DayNowA
<1>11. CASE Minute
  BY <1>11, MinuteA
<1>12. CASE Restart
  BY <1>12, RestartA
<1>13. CASE UNCHANGED vars
  BY <1>13 DEF vars, screen, files, inputs, clock, notes, AInv, TypeOK, Numbered, OnTime, days
<1> QED
  BY <1>1, <1>2, <1>3, <1>4, <1>5, <1>6, <1>7, <1>8, <1>9, <1>10, <1>11, <1>12, <1>13 DEF Next

\* Every state has its types, a plan all its days, and the clock is not late.
THEOREM Current == Spec => []AInv
<1>1. Init => AInv
  BY AHolds
<1>2. AInv /\ [Next]_vars => AInv'
  BY AStays
<1> QED
  BY <1>1, <1>2, PTL DEF Spec

\* The grid, the file and the current watch are what they are declared to be;
\* readRecord and updateLine never miss the lines of the file.
THEOREM Typing == Spec => []TypeOK
<1>1. AInv => TypeOK
  BY DEF AInv
<1> QED
  BY <1>1, Current, PTL

\* The end of a watch is noticed in its minute or the next: wmin, the minute of
\* the hour of the last change, blocks a change once only.
THEOREM Punctual == Spec => []ChangeAtMostAMinuteLate
<1>1. AInv => ChangeAtMostAMinuteLate
  <2> SUFFICES ASSUME AInv, ActualWatch.active, watchListFile # <<>>
               PROVE  now <= ActualWatch.end
    BY DEF ChangeAtMostAMinuteLate
  <2>1. now \in Int /\ ActualWatch.end \in Int
    <3>1. now \in 0..MaxClock /\ ActualWatch \in Noted
      BY Before DEF AInv
    <3>2. ActualWatch.end \in Int
      BY <3>1 DEF Noted
    <3> QED
      BY <3>1, <3>2
  <2>2. now < ActualWatch.end \/ now = ActualWatch.end
    BY DEF AInv, OnTime
  <2> QED
    BY <2>1, <2>2
<1> QED
  BY <1>1, Current, PTL

\* After the line of a change the watch noted is one that is not over: a change
\* of the guard is not logged again by the next minute.
THEOREM LoggedOnce == Spec => []GuardLoggedOnce
<1>1. AInv => GuardLoggedOnce
  BY DEF AInv, OnTime, GuardLoggedOnce
<1> QED
  BY <1>1, Current, PTL

\* Calculate gives a member with a star the watches at the times of the day the
\* base gives him, in plans of any length.
THEOREM StarsStay == Spec => StarsKeepTheirTime
<1> DEFINE Kept(w) ==
      w.star # Nobody =>
        \E b \in DOMAIN grid :
          grid[b].star = w.star /\ grid[b].start % DayLength = w.start % DayLength
           file == watchListFile'
           n == Len(grid)
           plan == laidOut(read(grid), start, trip)
           m == n * trip
<1>1. ASSUME AInv, Calculate, NEW i \in DOMAIN file PROVE Kept(file[i].w)
  <2>1. TypeOK /\ n \in Nat \ {0} /\ DOMAIN grid = 1..n
    BY <1>1, Before DEF AInv
  <2>2. /\ DOMAIN file = 1..(n + m)
        /\ \A j \in 1..n : file[j] = [day |-> 0, w |-> grid[j]]
        /\ \A k \in 1..m : file[n + k] = plan[k]
    BY <1>1, <2>1, CalculateFile
  <2>3. /\ m \in Nat
        /\ \A k \in 1..m : Kept(plan[k].w)
    <3> DEFINE shown == read(grid)
    <3>1. /\ shown \in Seq(Watch) /\ Len(shown) = n /\ Len(shown) > 0 /\ DOMAIN shown = DOMAIN grid
          /\ \A b \in DOMAIN grid : shown[b].star = grid[b].star /\ shown[b].start = grid[b].start
          /\ start \in Int /\ trip \in Nat \ {0}
      <4>1. grid \in Seq(Watch) /\ start \in Int /\ trip \in Trips
        BY <2>1, Before
      <4>2. n > 0
        BY <2>1
      <4> QED
        BY <4>1, <4>2, Numbers, ReadOut
    <3> HIDE DEF shown
    <3>2. plan = laidOut(shown, start, trip)
      BY DEF shown
    <3> HIDE DEF plan
    <3>3. m \in Nat \ {0}
      BY <3>1, LaidOutFacts
    <3>4. ASSUME NEW k \in 1..m PROVE Kept(plan[k].w)
      <4>1. plan[k].w.star # Nobody =>
              \E b \in DOMAIN shown : /\ shown[b].star = plan[k].w.star
                                      /\ shown[b].start % DayLength = plan[k].w.start % DayLength
        <5> DEFINE p == Len(shown) * trip
                   l == laidOut(shown, start, trip)
        <5>1. \A j \in 1..p :
                l[j].w.star # Nobody =>
                  \E b \in DOMAIN shown : /\ shown[b].star = l[j].w.star
                                          /\ shown[b].start % DayLength = l[j].w.start % DayLength
          <6>1. shown \in Seq(Watch) /\ Len(shown) > 0 /\ start \in Int /\ trip \in Nat \ {0}
            BY <3>1
          <6> QED
            BY <6>1, LaidOutFacts
        <5>2. p = m
          BY <3>1
        <5> HIDE DEF p, m, l
        <5>3. k \in 1..p
          BY <5>2
        <5> QED
          BY <3>2, <5>1, <5>3 DEF l
      <4> QED
        BY <3>1, <4>1
    <3> HIDE DEF Kept, m
    <3> QED
      BY <3>3, <3>4
  <2> HIDE DEF file, plan, m
  <2>4. CASE i \in 1..n
    <3>1. file[i] = [day |-> 0, w |-> grid[i]]
      BY <2>2, <2>4
    <3>2. file[i].w = grid[i]
      BY <3>1
    <3>3. Kept(grid[i])
      BY <2>1, <2>4
    <3> HIDE DEF Kept
    <3> QED
      BY <3>2, <3>3
  <2>5. CASE i \notin 1..n
    <3>1. i - n \in 1..m /\ n + (i - n) = i
      BY <1>1, <2>1, <2>2, <2>3, <2>5
    <3>2. file[n + (i - n)] = plan[i - n] /\ Kept(plan[i - n].w)
      <4> HIDE DEF Kept
      <4> QED
        BY <2>2, <2>3, <3>1
    <3> HIDE DEF Kept
    <3> QED
      BY <3>1, <3>2
  <2> QED
    BY <2>4, <2>5
<1>2. AInv => [Calculate => \A i \in DOMAIN watchListFile' : Kept(watchListFile'[i].w)]_vars
  <2> HIDE DEF Kept
  <2> QED
    BY <1>1
<1> QED
  BY <1>2, Current, PTL DEF StarsKeepTheirTime
-----------------------------------------------------------------------------
(* Days stay filled and in their place.                                    *)

\* The lines of a day replaced: that day has the new ones, and no other differs.
LEMMA SplicedFacts ==
  ASSUME NEW file \in Seq(Line), NEW new, NEW d \in days(file),
         NEW ws \in Seq(Watch), Len(ws) > 0,
         NEW t, Spliced(file, new, d, ws, getDayOne(file, d), t)
  PROVE  /\ days(new) = days(file)
         /\ getDayOne(new, d) = getDayOne(file, d) /\ page(new, d) = ws
         /\ \A x \in days(file) \ {d} : page(new, x) = page(file, x)
         /\ Ordered(file) => Ordered(new)
<1> DEFINE a == getDayOne(file, d)
           n == Len(file)
           m == Len(ws)
           N == Len(new)
           g(k) == IF k < a THEN k ELSE IF k < a + m THEN a ELSE k - m - a + t
<1>1. /\ n \in Nat /\ DOMAIN file = 1..n
      /\ m \in Nat \ {0} /\ DOMAIN ws = 1..m
      /\ a \in 1..n /\ file[a].day = d /\ \A i \in 1..(a - 1) : file[i].day # d
  BY ListFacts, PageFacts
<1> HIDE DEF a
<1>2. /\ new \in Seq(Line) /\ t \in a..(n + 1) /\ N = (a - 1) + m + (n + 1 - t)
      /\ \A i \in a..(t - 1) : file[i].day = d
      /\ t <= n => file[t].day # d
      /\ \A i \in 1..(a - 1) : new[i] = file[i]
      /\ \A i \in 1..m : new[a - 1 + i] = [day |-> d, w |-> ws[i]]
      /\ \A i \in t..n : new[a + m + (i - t)] = file[i]
  BY DEF Spliced, a
<1> HIDE DEF n, m, N
<1>3. t > a
  <2> SUFFICES ASSUME t = a PROVE FALSE
    BY <1>1, <1>2
  <2> QED
    BY <1>1, <1>2
<1>4. N \in Nat /\ DOMAIN new = 1..N
  BY <1>2, ListFacts DEF N
<1>5. ASSUME NEW i \in 1..m PROVE new[a - 1 + i].day = d /\ new[a - 1 + i].w = ws[i]
  <2>1. new[a - 1 + i] = [day |-> d, w |-> ws[i]]
    BY <1>2
  <2> QED
    BY <2>1
<1>6. ASSUME NEW k \in 1..N
      PROVE  g(k) \in 1..n /\ new[k].day = file[g(k)].day
  <2>1. CASE k < a
    <3>1. k \in 1..(a - 1) /\ g(k) = k
      BY <1>1, <1>4, <2>1
    <3> QED
      BY <1>1, <1>2, <3>1
  <2>2. CASE ~(k < a) /\ k < a + m
    <3>1. k - a + 1 \in 1..m /\ a - 1 + (k - a + 1) = k /\ g(k) = a
      BY <1>1, <1>4, <2>2
    <3> QED
      BY <1>1, <1>5, <3>1
  <2>3. CASE ~(k < a) /\ ~(k < a + m)
    <3>1. /\ k - m - a + t \in t..n /\ a + m + ((k - m - a + t) - t) = k
          /\ g(k) = k - m - a + t
      <4>1. /\ a \in Int /\ m \in Int /\ t \in Int /\ n \in Int /\ k \in Int
            /\ N = (a - 1) + m + (n + 1 - t) /\ k <= N /\ k >= a + m
        BY <1>1, <1>2, <1>4, <2>3
      <4>2. k - m - a + t \in t..n /\ a + m + ((k - m - a + t) - t) = k
        BY <4>1
      <4>3. g(k) = k - m - a + t
        BY <2>3
      <4> QED
        BY <4>2, <4>3
    <3> DEFINE j == k - m - a + t
    <3>2. j \in t..n /\ a + m + (j - t) = k /\ g(k) = j /\ j \in 1..n
      BY <1>1, <1>2, <3>1
    <3> HIDE DEF j, g
    <3>3. new[k] = file[j]
      BY <1>2, <3>2
    <3> QED
      BY <3>2, <3>3
  <2> QED
    BY <2>1, <2>2, <2>3
<1>7. \A i, k \in 1..N : i <= k => g(i) <= g(k)
  BY <1>1, <1>2, <1>3, <1>4
<1> HIDE DEF g
<1>8. Ordered(file) => Ordered(new)
  <2> SUFFICES ASSUME Ordered(file), NEW i \in 1..N, NEW k \in 1..N, i <= k
               PROVE  new[i].day <= new[k].day
    BY <1>4 DEF Ordered
  <2>1. g(i) \in DOMAIN file /\ g(k) \in DOMAIN file /\ g(i) <= g(k)
    BY <1>1, <1>6, <1>7
  <2>2. file[g(i)].day <= file[g(k)].day
    BY <2>1 DEF Ordered
  <2> QED
    BY <1>6, <2>2
<1>9. days(new) = days(file)
  <2>1. days(new) \subseteq days(file)
    BY <1>1, <1>4, <1>6 DEF days
  <2>2. days(file) \subseteq days(new)
    <3>1. a \in 1..(n + 1) /\ Spliced(file, new, d, ws, a, t)
      BY <1>1 DEF a
    <3> QED
      BY <3>1, DaysStay DEF n
  <2> QED
    BY <2>1, <2>2
<1>10. Block(new, d, a, a + m - 1)
  <2> DEFINE e == a + m - 1
  <2>1. a \in 1..N /\ e \in a..N
    BY <1>1, <1>2, <1>4
  <2>2. \A i \in 1..(a - 1) : new[i].day # d
    BY <1>1, <1>2
  <2>3. ASSUME NEW i \in a..e PROVE new[i].day = d
    <3>1. i - a + 1 \in 1..m /\ a - 1 + (i - a + 1) = i
      BY <1>1
    <3> QED
      BY <1>5, <3>1
  <2>4. e < N => new[e + 1].day # d
    <3>1. e < N => t \in t..n /\ a + m + (t - t) = e + 1
      BY <1>1, <1>2, <1>4
    <3> QED
      BY <1>2, <3>1
  <2> HIDE DEF e
  <2>5. Block(new, d, a, e)
    BY <2>1, <2>2, <2>3, <2>4 DEF Block, N
  <2> QED
    BY <2>5 DEF e
<1>11. getDayOne(new, d) = a /\ page(new, d) = ws
  <2> DEFINE e == a + m - 1
  <2>1. Block(new, d, a, e)
    BY <1>10
  <2>2. e - a + 1 = m
    BY <1>1
  <2> HIDE DEF e
  <2>3. getDayOne(new, d) = a /\ page(new, d) = [i \in 1..(e - a + 1) |-> new[a + i - 1].w]
    BY <1>2, <2>1, BlockIsPage
  <2>4. \A i \in 1..m : a - 1 + i = a + i - 1
    BY <1>1
  <2>5. \A i \in 1..m : new[a + i - 1].w = ws[i]
    BY <1>5, <2>4
  <2>6. page(new, d) = [i \in 1..m |-> ws[i]]
    BY <2>2, <2>3, <2>5
  <2>7. ws = [i \in 1..m |-> ws[i]]
    <3>1. ws \in [1..m -> Watch]
      BY LenProperties DEF m
    <3> QED
      BY <3>1
  <2> QED
    BY <2>3, <2>6, <2>7
<1>12. ASSUME NEW x \in days(file) \ {d} PROVE page(new, x) = page(file, x)
  <2>1. PICK b, f : Block(file, x, b, f)
    BY BlockExists
  <2>2. /\ b \in 1..n /\ f \in b..n
        /\ \A i \in 1..(b - 1) : file[i].day # x
        /\ \A i \in b..f : file[i].day = x
        /\ f < n => file[f + 1].day # x
    BY <2>1 DEF Block, n
  <2>3. page(file, x) = [i \in 1..(f - b + 1) |-> file[b + i - 1].w]
    BY <2>1, BlockIsPage
  <2>4. \A i \in b..f : i < a \/ i >= t
    <3> SUFFICES ASSUME NEW i \in b..f PROVE i < a \/ i >= t
      OBVIOUS
    <3>1. file[i].day = x
      BY <2>2
    <3>2. ~(i \in a..(t - 1))
      BY <1>2, <3>1
    <3>3. i \in Int /\ a \in Int /\ t \in Int
      BY <1>1, <1>2, <2>2
    <3> QED
      BY <3>2, <3>3
  <2>5. CASE b < a
    <3>1. f < a
      <4> SUFFICES ASSUME f >= a PROVE FALSE
        BY <1>1, <2>2
      <4>1. a \in b..f /\ ~(a < a) /\ ~(a >= t)
        BY <1>1, <1>2, <1>3, <2>2, <2>5
      <4> QED
        BY <2>4, <4>1
    <3>2. \A i \in 1..f : new[i] = file[i] /\ i \in 1..N
      <4>1. \A i \in 1..f : i \in 1..(a - 1) /\ i \in 1..N
        BY <1>1, <1>2, <1>4, <2>2, <3>1
      <4> QED
        BY <1>2, <4>1
    <3>3. b \in 1..f /\ b \in 1..N /\ f \in b..N
      BY <1>1, <1>2, <1>4, <2>2, <3>1
    <3>4. new[f + 1].day # x
      <4>1. CASE f + 1 < a
        <5>1. f + 1 \in 1..(a - 1) /\ f < n
          BY <1>1, <2>2, <4>1
        <5> QED
          BY <1>2, <2>2, <5>1
      <4>2. CASE ~(f + 1 < a)
        <5>1. f + 1 = a - 1 + 1 /\ 1 \in 1..m
          BY <1>1, <2>2, <3>1, <4>2
        <5> QED
          BY <1>5, <5>1
      <4> QED
        BY <4>1, <4>2
    <3>5. \A i \in 1..(b - 1) : new[i].day # x
      <4>1. \A i \in 1..(b - 1) : i \in 1..f
        BY <2>2
      <4> QED
        BY <2>2, <3>2, <4>1
    <3>6. \A i \in b..f : new[i].day = x
      <4>1. \A i \in b..f : i \in 1..f
        BY <2>2
      <4> QED
        BY <2>2, <3>2, <4>1
    <3>7. Block(new, x, b, f)
      BY <3>3, <3>4, <3>5, <3>6 DEF Block, N
    <3>8. page(new, x) = [i \in 1..(f - b + 1) |-> new[b + i - 1].w]
      BY <1>2, <3>7, BlockIsPage
    <3>9. \A i \in 1..(f - b + 1) : new[b + i - 1].w = file[b + i - 1].w
      <4>1. \A i \in 1..(f - b + 1) : b + i - 1 \in 1..f
        BY <2>2
      <4> QED
        BY <3>2, <4>1
    <3> QED
      BY <2>3, <3>8, <3>9
  <2>6. CASE ~(b < a)
    <3> DEFINE z == a + m - t
               bb == b + z
               ff == f + z
    <3>1. b >= t
      <4>1. b \in b..f
        BY <2>2
      <4> QED
        BY <2>4, <2>6, <4>1
    <3>2. z \in Int /\ bb = b + z /\ ff = f + z
      BY <1>1, <1>2
    <3>3. ASSUME NEW i \in t..n PROVE new[i + z] = file[i] /\ i + z \in 1..N /\ i + z >= a + m
      <4>1. i + z = a + m + (i - t) /\ i + z \in 1..N /\ i + z >= a + m
        BY <1>1, <1>2, <1>4
      <4> QED
        BY <1>2, <4>1
    <3>4. N = n + z /\ a + m = t + z
      BY <1>1, <1>2
    <3> HIDE DEF z, bb, ff
    <3>5. bb \in 1..N /\ ff \in bb..N
      <4>1. b \in t..n
        BY <1>1, <1>2, <2>2, <3>1
      <4>2. b + z \in 1..N
        BY <3>3, <4>1
      <4> QED
        BY <1>1, <1>4, <2>2, <3>2, <3>4, <4>2
    <3>6. ASSUME NEW i \in 1..(bb - 1) PROVE new[i].day # x
      <4>1. CASE i < a
        <5>1. i \in 1..(a - 1) /\ i \in 1..(b - 1)
          BY <1>1, <2>2, <2>6, <4>1
        <5> QED
          BY <1>2, <2>2, <5>1
      <4>2. CASE ~(i < a) /\ i < a + m
        <5>1. i - a + 1 \in 1..m /\ a - 1 + (i - a + 1) = i
          BY <1>1, <4>2
        <5> QED
          BY <1>5, <5>1
      <4>3. CASE ~(i < a + m)
        <5>1. i - z \in t..n /\ (i - z) + z = i /\ i - z \in 1..(b - 1)
          BY <1>1, <1>2, <2>2, <3>2, <3>4, <3>5, <4>3
        <5> QED
          BY <2>2, <3>3, <5>1
      <4> QED
        BY <4>1, <4>2, <4>3
    <3>7. ASSUME NEW i \in bb..ff PROVE new[i].day = x
      <4>1. i - z \in b..f /\ (i - z) + z = i /\ i - z \in t..n
        BY <1>1, <1>2, <2>2, <3>1, <3>2, <3>4, <3>5
      <4> QED
        BY <2>2, <3>3, <4>1
    <3>8. ff < N => new[ff + 1].day # x
      <4>1. ff < N => f < n /\ f + 1 \in t..n /\ ff + 1 = (f + 1) + z
        BY <1>1, <1>2, <2>2, <3>1, <3>2, <3>4, <3>5
      <4> QED
        BY <2>2, <3>3, <4>1
    <3>9. Block(new, x, bb, ff)
      BY <3>5, <3>6, <3>7, <3>8 DEF Block, N
    <3>10. page(new, x) = [i \in 1..(ff - bb + 1) |-> new[bb + i - 1].w]
      BY <1>2, <3>9, BlockIsPage
    <3>11. ff - bb + 1 = f - b + 1
      BY <1>1, <2>2, <3>2
    <3>12. \A i \in 1..(f - b + 1) : new[bb + i - 1].w = file[b + i - 1].w
      <4> SUFFICES ASSUME NEW i \in 1..(f - b + 1)
                   PROVE  new[bb + i - 1].w = file[b + i - 1].w
        OBVIOUS
      <4>1. b + i - 1 \in t..n /\ (b + i - 1) + z = bb + i - 1
        BY <1>1, <1>2, <2>2, <3>1, <3>2
      <4> QED
        BY <3>3, <4>1
    <3> QED
      BY <2>3, <3>10, <3>11, <3>12
  <2> QED
    BY <2>5, <2>6
<1> QED
  BY <1>8, <1>9, <1>11, <1>12 DEF a

\* Days of as many watches, of the same lengths, are as long.
LEMMA SameLengths ==
  ASSUME NEW c \in Seq(Watch), NEW e \in Seq(Watch), Len(c) = Len(e), Len(c) > 0,
         \A i \in 2..Len(c) : c[i].start = until(c[i - 1]),
         \A i \in 2..Len(e) : e[i].start = until(e[i - 1]),
         \A i \in 1..Len(c) : c[i].len = e[i].len
  PROVE  until(c[Len(c)]) - c[1].start = until(e[Len(e)]) - e[1].start
<1> DEFINE n == Len(c)
           o == c[1].start
           p == e[1].start
           S == {i \in 0..n : i = 0 \/ (c[i].start - o = e[i].start - p)}
<1>1. /\ n \in Nat \ {0} /\ Len(e) = n
      /\ \A i \in 1..n : c[i] \in Watch /\ e[i] \in Watch
  BY ListFacts
<1>2. o \in Int /\ p \in Int
  BY <1>1, TimeFacts
<1> HIDE DEF o, p
<1>3. ASSUME NEW i \in 1..n, c[i].start - o = e[i].start - p
      PROVE  until(c[i]) - o = until(e[i]) - p
  <2>1. /\ c[i].start \in Int /\ e[i].start \in Int /\ c[i].len \in Nat /\ e[i].len = c[i].len
        /\ until(c[i]) = c[i].start + c[i].len /\ until(e[i]) = e[i].start + e[i].len
    BY <1>1, TimeFacts
  <2> DEFINE x == c[i].start
             y == e[i].start
             l == c[i].len
  <2>2. x \in Int /\ y \in Int /\ l \in Nat /\ x - o = y - p
    BY <1>3, <2>1
  <2>3. until(c[i]) = x + l /\ until(e[i]) = y + l
    BY <2>1
  <2> HIDE DEF x, y, l
  <2>4. (x + l) - o = (y + l) - p
    BY <1>2, <2>2, SMT
  <2> QED
    BY <2>3, <2>4
<1>4. 0 \in S
  BY <1>1
<1>5. ASSUME NEW i \in 1..n, i - 1 \in S PROVE i \in S
  <2>1. CASE i = 1
    <3>1. c[i].start - o = e[i].start - p
      BY <1>2, <2>1 DEF o, p
    <3> QED
      BY <3>1
  <2>2. CASE i # 1
    <3>1. i \in 2..n /\ i - 1 \in 1..n /\ i - 1 # 0
      BY <1>1, <2>2
    <3>2. c[i - 1].start - o = e[i - 1].start - p
      BY <1>5, <3>1
    <3>3. until(c[i - 1]) - o = until(e[i - 1]) - p
      BY <1>3, <3>1, <3>2
    <3>4. c[i].start = until(c[i - 1]) /\ e[i].start = until(e[i - 1])
      BY <1>1, <3>1
    <3> QED
      BY <3>3, <3>4
  <2> QED
    BY <2>1, <2>2
<1> HIDE DEF S
<1>6. n \in S
  <2>1. \A i \in 0..n : i \in S
    BY <1>1, <1>4, <1>5, InductionTo
  <2> QED
    BY <1>1, <2>1
<1>7. c[n].start - o = e[n].start - p
  BY <1>1, <1>6 DEF S
<1>8. until(c[n]) - o = until(e[n]) - p
  BY <1>1, <1>3, <1>7
<1> QED
  BY <1>1, <1>8 DEF o, p

\* Which day the k-th watch is of
LEMMA DayOfWatch ==
  ASSUME NEW n \in Nat \ {0}, NEW q \in Nat, NEW k \in Nat
  PROVE  /\ n * q \in Nat /\ k \div n \in Nat
         /\ (k \div n = q) <=> (n * q <= k /\ k < n * q + n)
         /\ (k \div n < q) <=> (k < n * q)
         /\ k \div n = q => k % n = k - n * q
<1> DEFINE p == k \div n
           r == k % n
<1>1. p \in Int /\ r \in 0..(n - 1) /\ k = n * p + r
  BY DivMod
<1> HIDE DEF p, r
<1>2. n * q \in Nat /\ n * p \in Int
  BY <1>1
<1>3. p >= 0
  <2> SUFFICES ASSUME p <= -1 PROVE FALSE
    BY <1>1
  <2>1. n * p <= n * (-1) /\ n * (-1) = -n
    BY <1>1
  <2> QED
    BY <1>1, <1>2, <2>1
<1>4. p < q => k < n * q
  <2> SUFFICES ASSUME p + 1 <= q PROVE k < n * q
    BY <1>1
  <2>1. n * (p + 1) = n * p + n /\ n * (p + 1) <= n * q
    BY <1>1
  <2> QED
    BY <1>1, <1>2, <2>1
<1>5. p > q => k >= n * q + n
  <2> SUFFICES ASSUME q + 1 <= p PROVE k >= n * q + n
    BY <1>1
  <2>1. n * (q + 1) = n * q + n /\ n * (q + 1) <= n * p
    BY <1>1
  <2> QED
    BY <1>1, <1>2, <2>1
<1>6. p = q => n * q <= k /\ k < n * q + n /\ r = k - n * q
  BY <1>1, <1>2
<1>7. p < q \/ p = q \/ p > q
  BY <1>1
<1>8. p = q <=> (n * q <= k /\ k < n * q + n)
  BY <1>2, <1>4, <1>5, <1>6, <1>7
<1>9. p < q <=> k < n * q
  BY <1>1, <1>2, <1>4, <1>5, <1>6, <1>7
<1>10. p \in Nat
  BY <1>1, <1>3
<1> QED
  BY <1>2, <1>6, <1>8, <1>9, <1>10 DEF p, r

LEMMA DaysInOrder ==
  ASSUME NEW n \in Nat \ {0}, NEW j \in Nat, NEW k \in Nat, j <= k
  PROVE  j \div n <= k \div n
<1> DEFINE p == j \div n
           q == k \div n
<1>1. p \in Nat /\ q \in Nat
  BY DayOfWatch
<1>2. k < n * p <=> q < p
  <2> HIDE DEF p
  <2> QED
    BY <1>1, DayOfWatch
<1>3. n * p <= j /\ n * p \in Nat
  BY <1>1, DayOfWatch
<1> HIDE DEF p, q
<1> QED
  BY <1>1, <1>2, <1>3

\* The days that Calculate writes are as long as the base.
LEMMA PlanGood ==
  ASSUME NEW base \in Seq(Watch), RunsOn(base), NEW s \in Int, NEW m \in Nat \ {0},
         NEW file \in Seq(Line), Len(file) = Len(base) + Len(base) * m,
         \A i \in 1..Len(base) : file[i] = [day |-> 0, w |-> base[i]],
         \A k \in 1..(Len(base) * m) : file[Len(base) + k] = laidOut(base, s, m)[k]
  PROVE  Good(file)
<1> DEFINE n == Len(base)
           p == n * m
           N == n + p
           plan == laidOut(base, s, m)
<1>1. /\ n \in Nat \ {0} /\ n > 1 /\ DOMAIN base = 1..n /\ \A i \in 1..n : base[i] \in Watch
  BY ListFacts DEF RunsOn
<1>2. /\ Len(file) = N /\ DOMAIN file = 1..N /\ \A i \in 1..N : file[i] \in Line
  BY ListFacts
<1>3. /\ p \in Nat \ {0}
      /\ \A k \in 1..p : /\ plan[k].day = ((k - 1) \div n) + 1
                         /\ plan[k].w.len = base[((k - 1) % n) + 1].len
      /\ \A k \in 2..p : plan[k].w.start = until(plan[k - 1].w)
  <2>1. Len(base) > 0
    BY <1>1
  <2>2. /\ p \in Nat \ {0}
        /\ \A k \in 1..p : /\ plan[k].day = ((k - 1) \div n) + 1
                           /\ plan[k].w.len = base[((k - 1) % n) + 1].len
    <3>1. p \in Nat \ {0}
      BY <2>1, LaidOutFacts
    <3>2. \A k \in 1..p : /\ plan[k].day = ((k - 1) \div n) + 1
                          /\ plan[k].w.len = base[((k - 1) % n) + 1].len
      BY <2>1, LaidOutFacts
    <3> QED
      BY <3>1, <3>2
  <2>3. ASSUME NEW k \in 2..p PROVE plan[k].w.start = until(plan[k - 1].w)
    <3>1. /\ plan[1].w.start = s
          /\ \A i \in 2..(Len(base) * m) : plan[i].w.start = until(plan[i - 1].w)
      BY <2>1, LaidOutFacts
    <3> HIDE DEF plan, n
    <3> QED
      BY <3>1 DEF n
  <2> QED
    BY <2>2, <2>3
<1>4. /\ \A i \in 1..n : file[i] = [day |-> 0, w |-> base[i]]
      /\ \A k \in 1..p : file[n + k] = plan[k]
  OBVIOUS
<1> HIDE DEF plan, n
<1>5. ASSUME NEW i \in 1..N
      PROVE  file[i].day = (i - 1) \div n /\ file[i].w.len = base[((i - 1) % n) + 1].len
  <2> DEFINE k == i - 1
  <2>1. k \in Nat /\ i = k + 1
    BY <1>1, <1>3
  <2>2. CASE i \in 1..n
    <3>1. n * 0 = 0
      BY <1>1
    <3>2. n * 0 <= k /\ k < n * 0 + n
      BY <1>1, <2>2, <3>1
    <3> HIDE DEF k
    <3>3. k \div n = 0 /\ k % n = k - n * 0
      BY <1>1, <2>1, <3>2, DayOfWatch
    <3>4. k \div n = 0 /\ (k % n) + 1 = i
      BY <2>1, <3>1, <3>3
    <3>5. file[i] = [day |-> 0, w |-> base[i]]
      BY <1>4, <2>2
    <3>6. file[i].day = 0 /\ file[i].w.len = base[i].len
      BY <3>5
    <3> QED
      BY <3>4, <3>6 DEF k
  <2>3. CASE i \notin 1..n
    <3> DEFINE j == i - n
               q == (j - 1) \div n
               r == (j - 1) % n
               l == j - 1
    <3>1. j \in 1..p /\ n + j = i /\ l \in Nat /\ k = l + n /\ j \in Nat
      BY <1>1, <1>3, <2>3
    <3>2. file[i].day = q + 1 /\ file[i].w.len = base[r + 1].len
      <4> HIDE DEF j
      <4>1. file[i] = plan[j]
        BY <1>4, <3>1
      <4> QED
        BY <1>3, <3>1, <4>1
    <3>3. q \in Nat
      <4>1. l \div n \in Nat
        <5> HIDE DEF l
        <5> QED
          BY <1>1, <3>1, DayOfWatch
      <4> QED
        BY <4>1
    <3> HIDE DEF k
    <3>4. n * q <= l /\ l < n * q + n /\ r = l - n * q /\ n * q \in Nat
      <4>1. q = l \div n /\ r = l % n
        OBVIOUS
      <4> HIDE DEF l, q, r
      <4> QED
        BY <1>1, <3>1, <3>3, <4>1, DayOfWatch
    <3> HIDE DEF q, r, l, j
    <3>5. n * (q + 1) = n * q + n
      BY <1>1, <3>3
    <3>6. n * (q + 1) <= k /\ k < n * (q + 1) + n /\ k - n * (q + 1) = r /\ q + 1 \in Nat
      <4> DEFINE a == n * q
                 z == n * (q + 1)
      <4>1. a <= l /\ l < a + n /\ r = l - a /\ a \in Nat
        BY <3>4
      <4>2. z = a + n
        BY <3>5
      <4>3. q + 1 \in Nat
        BY <3>3
      <4> HIDE DEF a, z
      <4>4. z <= k /\ k < z + n /\ k - z = r
        BY <1>1, <3>1, <4>1, <4>2
      <4> QED
        BY <4>3, <4>4 DEF a, z
    <3>7. k \div n = q + 1 /\ k % n = r
      <4> DEFINE u == q + 1
      <4>1. u \in Nat /\ n * u <= k /\ k < n * u + n /\ k - n * u = r
        BY <3>6
      <4> HIDE DEF u
      <4>2. k \div n = u /\ k % n = k - n * u
        BY <1>1, <2>1, <4>1, DayOfWatch
      <4> QED
        BY <4>1, <4>2 DEF u
    <3> QED
      BY <3>2, <3>7 DEF k
  <2> QED
    BY <2>2, <2>3
<1>6. Ordered(file)
  <2> SUFFICES ASSUME NEW i \in 1..N, NEW k \in 1..N, i <= k PROVE file[i].day <= file[k].day
    BY <1>2 DEF Ordered
  <2> DEFINE x == i - 1
             y == k - 1
  <2>1. x \in Nat /\ y \in Nat /\ x <= y
    BY <1>1, <1>3
  <2>2. file[i].day = x \div n /\ file[k].day = y \div n
    BY <1>5
  <2> HIDE DEF x, y
  <2>3. x \div n <= y \div n
    BY <1>1, <2>1, DaysInOrder
  <2> QED
    BY <2>2, <2>3
<1>7. ASSUME NEW d \in days(file) PROVE RunsOn(page(file, d))
  <2> DEFINE b == n * d
  <2>1. PICK i \in 1..N : file[i].day = d
    BY <1>2 DEF days
  <2>2. d \in Nat /\ d <= m /\ b \in Nat /\ b + n <= N
    <3> DEFINE x == i - 1
    <3>1. x \in Nat /\ x < p + n
      <4>1. n \in Nat /\ p \in Nat /\ i \in 1..(n + p)
        BY <1>1, <1>3
      <4> HIDE DEF n, p
      <4> QED
        BY <4>1
    <3>2. d = x \div n
      BY <1>5, <2>1
    <3>3. n * (m + 1) = p + n
      BY <1>1
    <3> HIDE DEF x, p
    <3>4. d \in Nat /\ (d < m + 1 <=> x < n * (m + 1))
      <4> DEFINE u == m + 1
      <4>1. u \in Nat
        OBVIOUS
      <4> HIDE DEF u
      <4>2. x \div n \in Nat /\ (x \div n < u <=> x < n * u)
        BY <1>1, <3>1, <4>1, DayOfWatch
      <4> QED
        BY <3>2, <4>2 DEF u
    <3>5. d <= m /\ b \in Nat
      BY <1>1, <3>1, <3>3, <3>4
    <3>6. b <= p
      BY <1>1, <3>4, <3>5 DEF p
    <3> QED
      BY <1>1, <1>3, <3>4, <3>5, <3>6
  <2> HIDE DEF b
  <2>3. ASSUME NEW i2 \in 1..N
        PROVE  /\ file[i2].day = d <=> (b < i2 /\ i2 <= b + n)
               /\ file[i2].day = d => file[i2].w.len = base[i2 - b].len
    <3> DEFINE x == i2 - 1
    <3>1. x \in Nat
      BY <1>1
    <3>2. file[i2].day = x \div n /\ file[i2].w.len = base[(x % n) + 1].len
      BY <1>5
    <3> HIDE DEF x
    <3>3. /\ (x \div n = d) <=> (n * d <= x /\ x < n * d + n)
          /\ x \div n = d => x % n = x - n * d
      BY <1>1, <2>2, <3>1, DayOfWatch
    <3>4. /\ (x \div n = d) <=> (b <= x /\ x < b + n)
          /\ x \div n = d => x % n = x - b
      BY <3>3 DEF b
    <3>5. (b <= x /\ x < b + n) <=> (b < i2 /\ i2 <= b + n)
      BY <1>1, <2>2 DEF x
    <3>6. (x - b) + 1 = i2 - b
      BY <1>1, <2>2 DEF x
    <3> QED
      BY <3>2, <3>4, <3>5, <3>6
  <2>4. Block(file, d, b + 1, b + n)
    <3>1. b + 1 \in 1..Len(file) /\ b + n \in (b + 1)..Len(file)
      BY <1>1, <1>2, <1>3, <2>2
    <3>2. \A j \in 1..((b + 1) - 1) : file[j].day # d
      BY <1>1, <1>3, <2>2, <2>3
    <3>3. \A j \in (b + 1)..(b + n) : file[j].day = d
      BY <1>1, <1>3, <2>2, <2>3
    <3>4. b + n < Len(file) => file[(b + n) + 1].day # d
      <4> SUFFICES ASSUME b + n < N PROVE file[(b + n) + 1].day # d
        BY <1>2
      <4> DEFINE j == (b + n) + 1
      <4>1. j \in 1..N /\ ~(j <= b + n)
        BY <1>1, <1>3, <2>2
      <4> HIDE DEF j
      <4>2. file[j].day # d
        BY <2>3, <4>1
      <4> QED
        BY <4>2 DEF j
    <3> QED
      BY <3>1, <3>2, <3>3, <3>4 DEF Block
  <2> DEFINE c == page(file, d)
  <2>5. c = [j \in 1..n |-> file[b + j].w]
    <3> DEFINE u == b + 1
               v == b + n
    <3>1. v - u + 1 = n /\ \A j \in 1..n : u + j - 1 = b + j
      BY <1>1, <2>2
    <3> HIDE DEF u, v
    <3>2. c = [j \in 1..(v - u + 1) |-> file[u + j - 1].w]
      BY <2>4, BlockIsPage DEF u, v
    <3> QED
      BY <3>1, <3>2
  <2> HIDE DEF c
  <2>6. \A j \in 1..n : b + j \in 1..N /\ b < b + j /\ b + j <= b + n /\ (b + j) - b = j
    BY <1>1, <1>3, <2>2
  <2>7. \A j \in 1..n : file[b + j].w \in Watch /\ file[b + j].w.len = base[j].len
    BY <1>2, <2>3, <2>6 DEF Line
  <2>8. c \in Seq(Watch) /\ Len(c) = n /\ DOMAIN c = 1..n
    <3>1. c \in [1..n -> Watch]
      BY <2>5, <2>7
    <3> QED
      BY <1>1, <3>1, FcnIsSeq
  <2>9. \A j \in 1..n : c[j] = file[b + j].w /\ c[j].len = base[j].len
    BY <2>5, <2>7
  <2>10. Filled(base) /\ \A j \in 1..n : base[j].len \in 1..(DayLength - 1)
    BY <1>1 DEF RunsOn
  <2>11. \A j \in 2..n : base[j].start = until(base[j - 1])
    BY <2>10 DEF Filled, n
  <2>12. ASSUME NEW j \in 2..n PROVE c[j].start = until(c[j - 1])
    <3>1. j \in 1..n /\ j - 1 \in 1..n
      BY <1>1
    <3>2. c[j] = file[b + j].w /\ c[j - 1] = file[b + (j - 1)].w
      BY <2>9, <3>1
    <3>3. CASE d = 0
      <4>1. b = 0 /\ b + j = j /\ b + (j - 1) = j - 1
        BY <1>1, <3>3 DEF b
      <4> DEFINE i1 == j - 1
      <4>2. i1 \in 1..n /\ b + i1 = i1
        BY <3>1, <4>1
      <4> HIDE DEF i1
      <4>3. file[j] = [day |-> 0, w |-> base[j]] /\ file[i1] = [day |-> 0, w |-> base[i1]]
        BY <1>4, <3>1, <4>2
      <4>4. file[j].w = base[j] /\ file[i1].w = base[i1]
        BY <4>3
      <4>5. base[j].start = until(base[i1]) /\ c[j] = file[b + j].w /\ c[i1] = file[b + i1].w
        BY <2>11, <3>2 DEF i1
      <4> QED
        BY <4>1, <4>2, <4>4, <4>5 DEF i1
    <3>4. CASE d # 0
      <4> DEFINE k == b + j - n
                 k1 == k - 1
      <4>1. b >= n
        BY <1>1, <2>2, <3>4 DEF b
      <4>2. k \in 2..p /\ k1 \in 1..p /\ n + k = b + j /\ n + k1 = b + (j - 1)
        <5>1. n \in Nat /\ p \in Nat /\ b \in Nat /\ b + n <= n + p /\ b >= n
          BY <1>1, <1>3, <2>2, <4>1
        <5> HIDE DEF p
        <5> QED
          BY <5>1
      <4>3. plan[k].w.start = until(plan[k1].w)
        BY <1>3, <4>2
      <4> HIDE DEF k, k1
      <4>4. k \in 1..p
        BY <1>3, <4>2
      <4>5. file[n + k] = plan[k] /\ file[n + k1] = plan[k1]
        BY <1>4, <4>2, <4>4
      <4> QED
        BY <3>2, <4>2, <4>3, <4>5
    <3> QED
      BY <3>3, <3>4
  <2>13. until(c[n]) - c[1].start = until(base[n]) - base[1].start
    <3> DEFINE x == until(c[Len(c)]) - c[1].start
               y == until(base[Len(base)]) - base[1].start
    <3>1. /\ c \in Seq(Watch) /\ base \in Seq(Watch) /\ Len(c) = Len(base) /\ Len(c) > 0
          /\ \A j \in 2..Len(c) : c[j].start = until(c[j - 1])
          /\ \A j \in 2..Len(base) : base[j].start = until(base[j - 1])
          /\ \A j \in 1..Len(c) : c[j].len = base[j].len
      BY <1>1, <2>8, <2>9, <2>11, <2>12 DEF n
    <3>2. x = y
      BY <3>1, SameLengths
    <3> QED
      BY <2>8, <3>2 DEF n
  <2>14. until(base[n]) - base[1].start \in {DayLength - 1, DayLength}
    BY <2>10 DEF Filled, n
  <2>15. Filled(c)
    BY <2>8, <2>12, <2>13, <2>14 DEF Filled
  <2>16. \A j \in DOMAIN c : c[j].len \in 1..(DayLength - 1)
    BY <2>8, <2>9, <2>10
  <2> QED
    BY <1>1, <2>8, <2>15, <2>16 DEF RunsOn, c
<1> QED
  BY <1>6, <1>7 DEF Good

LEMMA ReadPlace ==
  ASSUME NEW file \in Seq(Line), Good(file), NEW d \in days(file), Reads(file, d),
         watchListFile' = file, Good(disk')
  PROVE  InPlace'
<1>1. grid' = page(file, d) /\ day' = d /\ linenoStart' = getDayOne(file, d)
  BY DEF Reads
<1>2. RunsOn(page(file, d))
  BY DEF Good
<1> DEFINE g == page(file, d)
<1>3. RunsOn(g) /\ ~(Len(g) = 1)
  <2> HIDE DEF g
  <2>1. RunsOn(g)
    BY <1>2 DEF g
  <2>2. Len(g) > 1
    BY <2>1 DEF RunsOn
  <2>3. Len(g) # 1
    <3> DEFINE n == Len(g)
    <3>1. n > 1
      BY <2>2
    <3> HIDE DEF n
    <3>2. n # 1
      BY <3>1
    <3> QED
      BY <3>2 DEF n
  <2> QED
    BY <2>1, <2>3
<1>4. grid' = g
  BY <1>1
<1> HIDE DEF g
<1>5. Good(watchListFile') /\ day' \in days(watchListFile')
      /\ linenoStart' = getDayOne(watchListFile', day')
  BY <1>1
<1>6. RunsOn(grid') /\ Len(grid') # 1
  BY <1>3, <1>4
<1> QED
  BY <1>5, <1>6 DEF InPlace

LEMMA KeepPlace ==
  ASSUME InPlace, UNCHANGED <<screen, watchListFile, disk, whole, calculate>>
  PROVE  InPlace'
<1>1. /\ grid' = grid /\ day' = day /\ linenoStart' = linenoStart
      /\ watchListFile' = watchListFile /\ disk' = disk /\ whole' = whole /\ calculate' = calculate
  BY DEF screen
<1> QED
  BY <1>1 DEF InPlace, Good, Ordered, days

LEMMA EmptyIsGood == Good(<<>>)
BY DEF Good, Ordered, days

LEMMA PlaceHolds ==
  ASSUME Init
  PROVE  InPlace
<1>1. /\ grid \in Bases /\ day = 0 /\ linenoStart = 1
      /\ watchListFile = <<>> /\ disk = <<>> /\ calculate = (Len(grid) > 1)
  BY DEF Init
<1>2. Len(grid) > 1 => RunsOn(grid)
  BY <1>1, BasesAssumption DEF RunsOn
<1>3. Len(grid) = 1 => ~calculate
  <2>1. Len(grid) = 1 => ~(Len(grid) > 1)
    OBVIOUS
  <2> QED
    BY <1>1, <2>1
<1> QED
  BY <1>1, <1>2, <1>3, EmptyIsGood DEF InPlace

LEMMA EditedPlace ==
  ASSUME IInv, Edited
  PROVE  InPlace'
<1> SUFFICES ASSUME whole' PROVE InPlace'
  BY DEF InPlace
<1>1. TypeOK /\ whole
  BY DEF IInv, AInv, Edited
<1>2. /\ Good(watchListFile) /\ Good(disk)
      /\ watchListFile # <<>> =>
           day \in days(watchListFile) /\ linenoStart = getDayOne(watchListFile, day)
      /\ Len(grid) > 1 => RunsOn(grid)
      /\ Len(grid) = 1 => watchListFile = <<>> /\ ~calculate
  BY <1>1 DEF IInv, InPlace
<1>3. /\ grid' \in Seq(Watch) /\ Len(grid') > 0
      /\ linenoStart' = linenoStart
      /\ updateLine(grid') \/ UNCHANGED <<watchListFile, disk, hung>>
      /\ RunsOn(grid) => RunsOn(grid')
      /\ Len(grid) = 1 => RunsOn(grid') \/ (Len(grid') = 1 /\ calculate' = calculate)
      /\ day' = day \/ Len(grid) = 1
  BY DEF Edited
<1>4. Len(grid) = 1 \/ Len(grid) > 1
  BY <1>1, Before
<1>5. /\ Len(grid') > 1 => RunsOn(grid')
      /\ Len(grid') = 1 => Len(grid) = 1 /\ ~calculate'
  <2> DEFINE g == grid'
  <2>1. RunsOn(g) => Len(g) > 1
    BY DEF RunsOn
  <2>2. Len(g) = 1 => ~(Len(g) > 1)
    OBVIOUS
  <2> HIDE DEF g
  <2>3. RunsOn(g) \/ (Len(grid) = 1 /\ Len(g) = 1 /\ calculate' = calculate)
    BY <1>2, <1>3, <1>4 DEF g
  <2> QED
    BY <1>2, <2>1, <2>2, <2>3 DEF g
<1>6. CASE watchListFile = <<>> \/ UNCHANGED <<watchListFile, disk, hung>>
  <2>1. watchListFile' = watchListFile /\ disk' = disk
    BY <1>3, <1>6 DEF updateLine
  <2>2. watchListFile # <<>> => day' = day
    BY <1>2, <1>3
  <2> QED
    BY <1>2, <1>3, <1>5, <2>1, <2>2 DEF InPlace
<1>7. CASE watchListFile # <<>> /\ updateLine(grid')
  <2> DEFINE file == watchListFile
             new == watchListFile'
  <2>1. file \in Seq(Line) /\ day \in days(file) /\ linenoStart = getDayOne(file, day)
        /\ day' = day /\ Good(file) /\ Len(grid) # 1
    BY <1>1, <1>2, <1>3, <1>7, Before
  <2>2. /\ \E t : Spliced(file, new, day, grid', linenoStart, t)
        /\ disk' \in {disk, new}
    BY <1>1, <1>3, <1>7, Before, UpdateLineFacts
  <2>3. PICK t : Spliced(file, new, day, grid', getDayOne(file, day), t)
    BY <2>1, <2>2
  <2> DEFINE g == grid'
  <2> HIDE DEF file, new, g
  <2>4. /\ days(new) = days(file)
        /\ getDayOne(new, day) = getDayOne(file, day) /\ page(new, day) = g
        /\ \A x \in days(file) \ {day} : page(new, x) = page(file, x)
        /\ Ordered(file) => Ordered(new)
    BY <1>3, <2>1, <2>3, SplicedFacts DEF g
  <2>5. RunsOn(g)
    BY <1>2, <1>3, <1>4, <2>1 DEF g
  <2>6. Good(new)
    <3>1. \A x \in days(file) : RunsOn(page(file, x))
      BY <2>1 DEF Good
    <3>2. ASSUME NEW x \in days(new) PROVE RunsOn(page(new, x))
      BY <2>4, <2>5, <3>1
    <3> QED
      BY <2>1, <2>4, <3>2 DEF Good
  <2>7. Good(disk')
    BY <1>2, <2>2, <2>6
  <2>8. day' \in days(new) /\ linenoStart' = getDayOne(new, day')
    BY <1>3, <2>1, <2>4
  <2>9. Len(grid') # 1
    BY <1>5, <2>1
  <2> QED
    BY <1>5, <2>6, <2>7, <2>8, <2>9 DEF InPlace, new
<1> QED
  BY <1>3, <1>6, <1>7

\* The page is turned.
LEMMA TurnedPlace ==
  ASSUME IInv, NEW d \in days(watchListFile), Reads(watchListFile, d),
         UNCHANGED <<watchListFile, disk, whole>>
  PROVE  InPlace'
<1> SUFFICES ASSUME whole' PROVE InPlace'
  BY DEF InPlace
<1>1. whole /\ watchListFile' = watchListFile /\ disk' = disk
  OBVIOUS
<1>2. Good(watchListFile) /\ Good(disk) /\ watchListFile \in Seq(Line)
  BY <1>1, Before DEF IInv, AInv, InPlace
<1>3. Good(disk')
  BY <1>1, <1>2
<1> QED
  BY <1>1, <1>2, <1>3, ReadPlace

LEMMA FoundPlace ==
  ASSUME IInv, NEW t \in Int, dayNow(watchListFile, t, ActualWatch),
         UNCHANGED <<watchListFile, disk, whole, calculate>>
  PROVE  InPlace'
<1>1. AInv /\ InPlace
  BY DEF IInv
<1>2. CASE watchListFile # <<>>
  <2>1. \E d \in days(watchListFile) : Reads(watchListFile, d)
    BY <1>1, <1>2, LooksUp
  <2> QED
    BY <2>1, TurnedPlace
<1>3. CASE watchListFile = <<>>
  <2>1. UNCHANGED screen
    BY <1>1, <1>3, LooksUp
  <2> QED
    BY <1>1, <2>1, KeepPlace
<1> QED
  BY <1>2, <1>3

LEMMA CalculatePlace ==
  ASSUME IInv, Calculate
  PROVE  InPlace'
<1> SUFFICES ASSUME whole' PROVE InPlace'
  BY DEF InPlace
<1>1. /\ calculate /\ whole' = whole /\ disk' = watchListFile'
      /\ dayNow(watchListFile', now, ActualWatch)
  BY DEF Calculate
<1>2. /\ TypeOK /\ whole
      /\ Len(grid) > 1 => RunsOn(grid)
      /\ Len(grid) = 1 => ~calculate
  BY <1>1 DEF IInv, AInv, InPlace
<1>3. RunsOn(grid)
  BY <1>1, <1>2, Before
<1> DEFINE n == Len(grid)
           plan == laidOut(read(grid), start, trip)
           m == n * trip
           file == watchListFile'
<1>0. read(grid) = grid
  BY <1>2, <1>3, Before, ReadOut
<1>4. /\ file \in Seq(Line) /\ Len(file) = n + m /\ DOMAIN file = 1..(n + m)
      /\ \A i \in 1..n : file[i] = [day |-> 0, w |-> grid[i]]
      /\ \A k \in 1..m : file[n + k] = plan[k]
  BY <1>2, CalculateFile
<1>5. grid \in Seq(Watch) /\ start \in Int /\ trip \in Nat \ {0} /\ n \in Nat \ {0}
      /\ now \in Int /\ ActualWatch \in Noted
  <2>1. grid \in Seq(Watch) /\ start \in Int /\ trip \in Trips /\ n \in Nat \ {0}
        /\ now \in 0..MaxClock /\ ActualWatch \in Noted
    BY <1>2, Before
  <2> QED
    BY <2>1, Numbers
<1>6. Good(file)
  <2>1. plan = laidOut(grid, start, trip)
    BY <1>0
  <2> HIDE DEF file, plan
  <2> QED
    BY <1>3, <1>4, <1>5, <2>1, PlanGood
<1>7. 1 \in days(file)
  <2> HIDE DEF file
  <2>1. Len(grid) > 0 /\ m \in Nat \ {0} /\ plan[1].day = ((1 - 1) \div n) + 1
    <3>0. plan = laidOut(grid, start, trip)
      BY <1>0
    <3> HIDE DEF plan
    <3>1. Len(grid) > 0
      BY <1>5
    <3>2. m \in Nat \ {0}
      BY <1>5, <3>1, LaidOutFacts
    <3>3. \A k \in 1..m : plan[k].day = ((k - 1) \div n) + 1
      BY <1>5, <3>0, <3>1, LaidOutFacts
    <3> HIDE DEF m, n
    <3>4. 1 \in 1..m
      BY <3>2
    <3> QED
      BY <3>1, <3>2, <3>3, <3>4
  <2> HIDE DEF n, m, plan
  <2>2. (1 - 1) \div n = 0
    <3> DEFINE k == 1 - 1
    <3>1. k \in Nat /\ 0 \in Nat /\ n * 0 = 0 /\ k = 0
      BY <1>5
    <3> HIDE DEF k
    <3>2. (k \div n = 0) <=> (n * 0 <= k /\ k < n * 0 + n)
      BY <1>5, <3>1, DayOfWatch
    <3>3. n * 0 <= k /\ k < n * 0 + n
      BY <1>5, <3>1
    <3> QED
      BY <3>2, <3>3 DEF k
  <2>3. plan[1].day = 1
    BY <2>1, <2>2
  <2>4. n + 1 \in 1..(n + m)
    BY <1>5, <2>1
  <2>5. file[n + 1] = plan[1]
    BY <1>4, <2>1
  <2> QED
    BY <1>4, <2>3, <2>4, <2>5 DEF days
<1>8. \E d \in days(file) : Reads(file, d)
  <2> DEFINE f == file
  <2>1. f \in Seq(Line) /\ now \in Int /\ ActualWatch \in Noted
        /\ dayNow(f, now, ActualWatch) /\ 1 \in days(f)
    BY <1>1, <1>4, <1>5, <1>7
  <2> HIDE DEF f
  <2>2. \E d \in days(f) : Reads(f, d)
    BY <2>1, DayNowFacts
  <2> QED
    BY <2>2 DEF f
<1>9. PICK d \in days(file) : Reads(file, d)
  BY <1>8
<1>10. Good(disk')
  BY <1>1, <1>6
<1>11. file \in Seq(Line) /\ watchListFile' = file
  BY <1>4
<1> HIDE DEF file
<1> QED
  BY <1>6, <1>9, <1>10, <1>11, ReadPlace

LEMMA EmptyPlace ==
  ASSUME IInv, emptyGrid, disk' = disk \/ disk' = <<>>, whole' = whole
  PROVE  InPlace'
<1> SUFFICES ASSUME whole' PROVE InPlace'
  BY DEF InPlace
<1>1. TypeOK /\ Good(disk)
  BY DEF IInv, AInv, InPlace
<1>2. Len(grid') = 1 /\ watchListFile' = <<>> /\ calculate' = FALSE
  BY <1>1, EmptyGrid
<1>3. ~(Len(grid') > 1)
  <2> DEFINE n == Len(grid')
  <2>1. n = 1
    BY <1>2
  <2> HIDE DEF n
  <2>2. ~(n > 1)
    BY <2>1
  <2> QED
    BY <2>2 DEF n
<1>4. Good(disk') /\ Good(watchListFile')
  BY <1>1, <1>2, EmptyIsGood
<1> QED
  BY <1>2, <1>3, <1>4 DEF InPlace

LEMMA setAsNewWatchbasePlace ==
  ASSUME IInv, setAsNewWatchbase
  PROVE  InPlace'
<1> SUFFICES ASSUME whole' PROVE InPlace'
  BY DEF InPlace
<1>1. /\ watchListFile # <<>> /\ watchListFile' = <<>>
      /\ grid' = grid /\ disk' = disk /\ whole' = whole
  BY DEF setAsNewWatchbase
<1>2. /\ Good(disk) /\ (Len(grid) > 1 => RunsOn(grid))
      /\ Len(grid) # 1
  BY <1>1 DEF IInv, InPlace
<1> QED
  BY <1>1, <1>2, EmptyIsGood DEF InPlace

LEMMA MinutePlace ==
  ASSUME IInv, Minute
  PROVE  InPlace'
<1> DEFINE t == now + 1
<1>1. /\ OnIdle(t) /\ UNCHANGED <<watchListFile, disk, whole, calculate>>
  BY DEF Minute, files, notes
<1>2. t \in Int
  <2>1. now \in 0..MaxClock
    BY Before DEF IInv, AInv
  <2> QED
    BY <2>1, Numbers
<1>3. dayNow(watchListFile, t, ActualWatch) \/ UNCHANGED screen
  BY <1>1 DEF OnIdle
<1> HIDE DEF t
<1> QED
  BY <1>1, <1>2, <1>3, FoundPlace, KeepPlace DEF IInv

LEMMA RestartPlace ==
  ASSUME IInv, Restart
  PROVE  InPlace'
<1>1. (Reopen \/ ReopenEmpty) /\ disk' = disk /\ whole' = whole
  BY DEF Restart, notes
<1>2. CASE ReopenEmpty
  BY <1>1, <1>2, EmptyPlace DEF ReopenEmpty
<1>3. CASE Reopen
  <2> SUFFICES ASSUME whole' PROVE InPlace'
    BY DEF InPlace
  <2>1. /\ Len(disk) + 1 > LoadLimit /\ watchListFile' = disk
        /\ dayNow(disk, now, NoWatch)
    BY <1>3 DEF Reopen
  <2>2. TypeOK /\ AInv /\ Good(disk) /\ disk \in Seq(Line) /\ now \in 0..MaxClock
    BY <1>1, Before DEF IInv, AInv, InPlace
  <2>3. disk # <<>>
    <3>1. Len(disk) \in Nat /\ LoadLimit \in Nat \ {0}
      BY <2>2, ListFacts, Numbers
    <3>2. Len(disk) # 0
      BY <2>1, <3>1
    <3> QED
      BY <3>2
  <2>4. 1 \in days(disk)
    BY <2>2, <2>3, DaysThere
  <2>5. NoWatch \in Noted /\ now \in Int
    BY <2>2, Numbers DEF NoWatch, Noted
  <2>6. \E d \in days(disk) : Reads(disk, d)
    BY <2>1, <2>2, <2>4, <2>5, DayNowFacts
  <2>7. Good(disk')
    BY <1>1, <2>2
  <2> QED
    BY <2>1, <2>2, <2>6, <2>7, ReadPlace
<1> QED
  BY <1>1, <1>2, <1>3

LEMMA Stays ==
  ASSUME IInv, [Next]_vars
  PROVE  IInv'
<1>1. AInv'
  BY AStays DEF IInv
<1> SUFFICES InPlace'
  BY <1>1 DEF IInv
<1>2. TypeOK /\ AInv /\ InPlace
  BY DEF IInv, AInv
<1>3. ASSUME NEW c \in DOMAIN grid, EditWatch(c) PROVE InPlace'
  BY <1>2, <1>3, EditWatchEdits, EditedPlace
<1>4. ASSUME NEW c \in DOMAIN grid, NEW e \in DOMAIN grid, flipWatches(c, e) PROVE InPlace'
  BY <1>2, <1>4, flipWatchesEdits, EditedPlace
<1>5. CASE EditStart
  BY <1>2, <1>5, EditStartEdits, EditedPlace
<1>6. CASE EditTrip
  <2>1. UNCHANGED <<screen, watchListFile, disk, whole, calculate>>
    BY <1>6 DEF EditTrip, files
  <2> QED
    BY <1>2, <2>1, KeepPlace
<1>7. CASE Calculate
  BY <1>7, CalculatePlace
<1>8. CASE Reset
  <2>1. /\ watchListFile # <<>> /\ readRecord(watchListFile, 0)
        /\ UNCHANGED <<watchListFile, disk, whole>>
    BY <1>8 DEF Reset, files, notes
  <2>2. 0 \in days(watchListFile) /\ Reads(watchListFile, 0)
    BY <1>2, <2>1, DaysThere DEF readRecord, Reads
  <2> QED
    BY <2>1, <2>2, TurnedPlace
<1>9. CASE setAsNewWatchbase
  BY <1>9, setAsNewWatchbasePlace
<1>10. CASE clearWake
  <2>1. emptyGrid /\ disk' = <<>> /\ whole' = whole
    BY <1>10 DEF clearWake, notes
  <2> QED
    BY <2>1, EmptyPlace
<1>11. CASE ShowDay
  <2>1. /\ watchListFile # <<>> /\ ~fields /\ UNCHANGED <<watchListFile, disk, whole>>
    BY <1>11 DEF ShowDay, files, notes
  <2>2. PICK d \in 1..trip : readRecord(watchListFile, d)
    BY <1>11 DEF ShowDay
  <2>3. d \in days(watchListFile) /\ Reads(watchListFile, d)
    BY <1>2, <2>1, <2>2, ShownDay DEF readRecord, Reads
  <2> QED
    BY <2>1, <2>3, TurnedPlace
<1>12. CASE DayNow
  <2>1. /\ dayNow(watchListFile, now, ActualWatch)
        /\ UNCHANGED <<watchListFile, disk, whole, calculate>>
    BY <1>12 DEF DayNow, files, notes
  <2>2. now \in Int
    BY <1>2, Before
  <2> QED
    BY <2>1, <2>2, FoundPlace
<1>13. CASE Minute
  BY <1>13, MinutePlace
<1>14. CASE Restart
  BY <1>14, RestartPlace
<1>15. CASE UNCHANGED vars
  <2>1. UNCHANGED <<screen, watchListFile, disk, whole, calculate>>
    BY <1>15 DEF vars, files, notes
  <2> QED
    BY <1>2, <2>1, KeepPlace
<1> QED
  BY <1>3, <1>4, <1>5, <1>6, <1>7, <1>8, <1>9, <1>10, <1>11, <1>12, <1>13, <1>14, <1>15 DEF Next

\* The plan and its copy on the disk stay in order and filled, and what is shown
\* is the day that an edit writes back.
THEOREM Invariance == Spec => []IInv
<1>1. Init => IInv
  BY AHolds, PlaceHolds DEF IInv
<1>2. IInv /\ [Next]_vars => IInv'
  BY Stays
<1> QED
  BY <1>1, <1>2, PTL DEF Spec

\* As long as no edit has left a watch of no minute, or of 24 hours and more, each
\* day of the plan is filled but for a minute at most, and the days are in their
\* order.
THEOREM Filling == Spec => []DaysAreFilled
<1>1. IInv => DaysAreFilled
  <2> SUFFICES ASSUME TypeOK, InPlace, whole PROVE DaysAreFilled
    BY DEF IInv, AInv, DaysAreFilled
  <2>1. Good(watchListFile) /\ watchListFile \in Seq(Line)
    BY Before DEF InPlace
  <2>2. Len(watchListFile) \in Nat /\ DOMAIN watchListFile = 1..Len(watchListFile)
    BY <2>1, ListFacts
  <2>3. ASSUME NEW i \in 2..Len(watchListFile)
        PROVE  watchListFile[i - 1].day <= watchListFile[i].day
    <3>1. i - 1 \in DOMAIN watchListFile /\ i \in DOMAIN watchListFile /\ i - 1 <= i
      BY <2>2
    <3> QED
      BY <2>1, <3>1 DEF Good, Ordered
  <2>4. \A d \in days(watchListFile) : Filled(page(watchListFile, d))
    BY <2>1 DEF Good, RunsOn
  <2> QED
    BY <2>3, <2>4 DEF DaysAreFilled
<1> QED
  BY <1>1, Invariance, PTL

\* A change of a watch, of its time, members or number, is written to the lines
\* of the day shown, which takes the grid; every other day stays as it was.
THEOREM DayByDay == Spec => ChangesApplyToTheDay
<1> DEFINE Change ==
      (\E c \in DOMAIN grid : EditWatch(c)) /\ watchListFile # <<>> /\ whole =>
       /\ days(watchListFile') = days(watchListFile)
       /\ page(watchListFile', day) = grid'
       /\ \A d \in days(watchListFile) \ {day} : page(watchListFile', d) = page(watchListFile, d)
<1>1. ASSUME IInv, NEW c \in DOMAIN grid, EditWatch(c), watchListFile # <<>>, whole
      PROVE  /\ days(watchListFile') = days(watchListFile)
             /\ page(watchListFile', day) = grid'
             /\ \A d \in days(watchListFile) \ {day} : page(watchListFile', d) = page(watchListFile, d)
  <2> DEFINE file == watchListFile
             new == watchListFile'
             g == grid'
  <2>1. TypeOK /\ Edited
    BY <1>1, EditWatchEdits DEF IInv, AInv
  <2>2. file \in Seq(Line) /\ day \in days(file) /\ linenoStart = getDayOne(file, day)
        /\ Len(grid) # 1
    BY <1>1, <2>1, Before DEF IInv, InPlace
  <2>3. updateLine(g)
    BY <1>1, <2>2 DEF EditWatch, EditLength, EditMembers, deleteMembers, splitWatch, mergeWatches
  <2>4. g \in Seq(Watch) /\ Len(g) > 0
    BY <2>1 DEF Edited
  <2>5. \E t : Spliced(file, new, day, g, linenoStart, t)
    BY <1>1, <2>1, <2>3, <2>4, Before, UpdateLineFacts
  <2>6. PICK t : Spliced(file, new, day, g, getDayOne(file, day), t)
    BY <2>2, <2>5
  <2> HIDE DEF file, new, g
  <2>7. /\ days(new) = days(file) /\ page(new, day) = g
        /\ \A x \in days(file) \ {day} : page(new, x) = page(file, x)
    BY <2>2, <2>4, <2>6, SplicedFacts
  <2> QED
    BY <2>7 DEF file, new, g
<1>2. IInv => [Change]_vars
  BY <1>1
<1> QED
  BY <1>2, Invariance, PTL DEF ChangesApplyToTheDay
-----------------------------------------------------------------------------
(* Turns.                                                                  *)

\* How often the crew has moved on: once after each watch at which it moves.
LEMMA TurnSteps ==
  ASSUME NEW moves, NEW n \in Nat \ {0}
  PROVE  /\ turn(moves, n, 1) = 0
         /\ \A k \in Nat \ {0} :
              turn(moves, n, k + 1) = turn(moves, n, k)
                                      + IF ((k - 1) % n) + 1 \in moves THEN 1 ELSE 0
<1> DEFINE S(k) == {j \in 1..(k - 1) : ((j - 1) % n) + 1 \in moves}
<1>1. \A k : turn(moves, n, k) = Cardinality(S(k))
  BY DEF turn
<1>2. S(1) = {}
  OBVIOUS
<1>3. ASSUME NEW k \in Nat \ {0}
      PROVE  turn(moves, n, k + 1) = turn(moves, n, k)
                                     + IF ((k - 1) % n) + 1 \in moves THEN 1 ELSE 0
  <2>1. 1..((k + 1) - 1) = (1..(k - 1)) \cup {k} /\ k \notin 1..(k - 1)
    OBVIOUS
  <2>2. S(k + 1) = IF ((k - 1) % n) + 1 \in moves THEN S(k) \cup {k} ELSE S(k)
    BY <2>1
  <2>3. k \notin S(k) /\ S(k) \subseteq 1..(k - 1)
    BY <2>1
  <2>4. IsFiniteSet(1..(k - 1))
    BY FS_Interval
  <2> HIDE DEF S
  <2>5. IsFiniteSet(S(k))
    BY <2>3, <2>4, FS_Subset
  <2>6. Cardinality(S(k) \cup {k}) = Cardinality(S(k)) + 1 /\ Cardinality(S(k)) \in Nat
    BY <2>3, <2>5, FS_AddElement, FS_CardinalityType
  <2> QED
    BY <1>1, <2>2, <2>6
<1> HIDE DEF S
<1> QED
  BY <1>1, <1>2, <1>3, FS_EmptySet

\* t counts the members of N before k.
Counts(t, N, p) ==
  /\ t \in [1..(p + 1) -> Nat] /\ t[1] = 0
  /\ \A k \in 1..p : t[k + 1] = t[k] + IF k \in N THEN 1 ELSE 0

\* Such a count leaves no number out,
LEMMA CountsAll ==
  ASSUME NEW p \in Nat, NEW N, NEW t, Counts(t, N, p),
         NEW k \in 1..(p + 1), NEW x \in 0..(t[k] - 1)
  PROVE  \E j \in N : j < k /\ j \in 1..p /\ t[j] = x
<1> DEFINE Found(i) == \A y \in 0..(t[i] - 1) : \E j \in N : j < i /\ j \in 1..p /\ t[j] = y
           S == {i \in 0..p : Found(i + 1)}
<1>t. /\ t[1] = 0
      /\ \A i \in 1..p : t[i + 1] = t[i] + IF i \in N THEN 1 ELSE 0
      /\ \A i \in 1..(p + 1) : t[i] \in Nat
  BY DEF Counts
<1>1. 0 \in S
  BY <1>t
<1>2. ASSUME NEW i \in 1..p, i - 1 \in S PROVE i \in S
  <2>1. Found(i)
    <3>1. Found((i - 1) + 1) /\ (i - 1) + 1 = i
      BY <1>2
    <3> QED
      BY <3>1
  <2>2. ASSUME NEW y \in 0..(t[i + 1] - 1)
        PROVE  \E j \in N : j < i + 1 /\ j \in 1..p /\ t[j] = y
    <3>1. t[i] \in Nat /\ t[i + 1] = t[i] + IF i \in N THEN 1 ELSE 0
      BY <1>t
    <3>2. CASE y < t[i]
      <4>1. y \in 0..(t[i] - 1)
        BY <3>1, <3>2
      <4>2. PICK j \in N : j < i /\ j \in 1..p /\ t[j] = y
        BY <2>1, <4>1
      <4>3. j < i + 1
        BY <4>2
      <4> QED
        BY <4>2, <4>3
    <3>3. CASE ~(y < t[i])
      <4>1. i \in N /\ y = t[i]
        BY <3>1, <3>3
      <4> QED
        BY <4>1
    <3> QED
      BY <3>2, <3>3
  <2> QED
    BY <2>2
<1> HIDE DEF S
<1>3. \A i \in 0..p : i \in S
  BY <1>1, <1>2, InductionTo
<1>4. k - 1 \in 0..p /\ (k - 1) + 1 = k
  OBVIOUS
<1>5. Found((k - 1) + 1)
  BY <1>3, <1>4 DEF S
<1>6. Found(k)
  BY <1>4, <1>5
<1> QED
  BY <1>6

\* and grows at each member.
LEMMA CountGrows ==
  ASSUME NEW p \in Nat, NEW N, NEW t, Counts(t, N, p),
         NEW i \in 1..p, i \in N, NEW k \in 1..(p + 1), i < k
  PROVE  t[i] < t[k]
<1> DEFINE S == {m \in 0..p : i < m + 1 => t[i] < t[m + 1]}
<1>t. /\ \A m \in 1..p : t[m + 1] = t[m] + IF m \in N THEN 1 ELSE 0
      /\ \A m \in 1..(p + 1) : t[m] \in Nat
  BY DEF Counts
<1>1. 0 \in S
  OBVIOUS
<1>2. ASSUME NEW m \in 1..p, m - 1 \in S PROVE m \in S
  <2>1. (m - 1) + 1 = m
    OBVIOUS
  <2>2. i < m => t[i] < t[m]
    BY <1>2, <2>1
  <2>3. t[m + 1] = t[m] + IF m \in N THEN 1 ELSE 0
    BY <1>t
  <2>4. t[m] \in Nat /\ t[i] \in Nat /\ t[m + 1] \in Nat
    BY <1>t
  <2>5. i < m + 1 => t[i] < t[m + 1]
    BY <2>2, <2>3, <2>4
  <2> QED
    BY <2>5
<1> HIDE DEF S
<1>3. \A m \in 0..p : m \in S
  BY <1>1, <1>2, InductionTo
<1>4. k - 1 \in 0..p /\ (k - 1) + 1 = k
  OBVIOUS
<1> QED
  BY <1>3, <1>4 DEF S

WithRemainder(N, t, L, x) == {k \in N : t[k] % L = x}

\* Of the numbers with one remainder there is at most one more than of those with
\* another.
LEMMA Rounds ==
  ASSUME NEW p \in Nat, NEW N, N \subseteq 1..p, NEW t, Counts(t, N, p),
         NEW L \in Nat \ {0}, NEW r \in 0..(L - 1), NEW q \in 0..(L - 1)
  PROVE  Cardinality(WithRemainder(N, t, L, r)) <= Cardinality(WithRemainder(N, t, L, q)) + 1
<1> DEFINE R == WithRemainder(N, t, L, r)
           Q == WithRemainder(N, t, L, q)
<1>t. \A k \in 1..(p + 1) : t[k] \in Nat
  BY DEF Counts
<1>1. /\ \A k \in R : k \in N /\ k \in 1..p /\ t[k] \in Nat /\ t[k] % L = r
      /\ \A k \in N : k \in 1..p /\ t[k] \in Nat
      /\ \A k \in N : t[k] % L = q => k \in Q
      /\ R \subseteq 1..p /\ Q \subseteq 1..p
  <2>1. \A k \in N : k \in 1..p /\ t[k] \in Nat
    <3>1. \A k \in 1..p : k \in 1..(p + 1)
      OBVIOUS
    <3> QED
      BY <1>t, <3>1
  <2>2. R \subseteq N /\ Q \subseteq N /\ \A k \in R : t[k] % L = r
    BY DEF WithRemainder
  <2>3. \A k \in N : t[k] % L = q => k \in Q
    BY DEF WithRemainder
  <2> HIDE DEF R, Q
  <2> QED
    BY <2>1, <2>2, <2>3
<1> HIDE DEF R, Q
<1>2. IsFiniteSet(R) /\ IsFiniteSet(Q)
  <2>1. IsFiniteSet(1..p)
    BY FS_Interval
  <2> QED
    BY <1>1, <2>1, FS_Subset
<1>3. Cardinality(R) \in Nat /\ Cardinality(Q) \in Nat
  BY <1>2, FS_CardinalityType
<1>4. CASE R = {}
  <2>1. Cardinality(R) = 0
    BY <1>4, FS_EmptySet
  <2> QED
    BY <1>3, <2>1 DEF R, Q
<1>5. CASE R # {}
  <2>1. PICK g \in R : \A k \in R : g >= k
    <3>1. R \subseteq 0..p
      BY <1>1
    <3> QED
      BY <1>5, <3>1, GreatestNat
  <2> DEFINE V == R \ {g}
             next(k) == t[k] + (q - r)
             f == [k \in V |-> CHOOSE j \in Q : t[j] = next(k)]
  <2>2. ASSUME NEW k \in V PROVE \E j \in Q : t[j] = next(k)
    <3>1. k \in R /\ k < g
      BY <1>1, <2>1
    <3>2. t[k] < t[g]
      <4>1. k \in N /\ k \in 1..p /\ g \in 1..(p + 1)
        BY <1>1, <3>1
      <4> QED
        BY <3>1, <4>1, CountGrows
    <3> DEFINE a == t[k] \div L
               b == t[g] \div L
    <3>3. a \in Int /\ b \in Int /\ t[k] = L * a + r /\ t[g] = L * b + r
      <4>1. t[k] \in Int /\ t[g] \in Int /\ t[k] % L = r /\ t[g] % L = r
        BY <1>1, <3>1
      <4> QED
        BY <4>1, DivMod
    <3>4. t[k] \in Nat /\ t[g] \in Nat
      BY <1>1, <3>1
    <3> HIDE DEF a, b
    <3>5. a >= 0 /\ a + 1 <= b
      <4>1. L * a > -L /\ L * a < L * b
        BY <3>2, <3>3, <3>4
      <4>2. a > -1
        <5> SUFFICES ASSUME a <= -1 PROVE FALSE
          BY <3>3
        <5>1. L * a <= L * (-1) /\ L * (-1) = -L
          BY <3>3
        <5> QED
          BY <3>3, <4>1, <5>1
      <4>3. a < b
        <5> SUFFICES ASSUME b <= a PROVE FALSE
          BY <3>3
        <5>1. L * b <= L * a
          BY <3>3
        <5> QED
          BY <3>3, <4>1, <5>1
      <4> QED
        BY <3>3, <4>2, <4>3
    <3>6. L * a \in Nat /\ L * (a + 1) <= L * b /\ L * (a + 1) = L * a + L /\ L * b \in Int
      BY <3>3, <3>5
    <3>7. next(k) = L * a + q /\ next(k) \in 0..(t[g] - 1)
      BY <3>3, <3>4, <3>6
    <3>8. PICK j \in N : j < g /\ j \in 1..p /\ t[j] = next(k)
      <4>1. g \in 1..(p + 1)
        BY <1>1, <2>1
      <4> HIDE DEF next
      <4> QED
        BY <3>7, <4>1, CountsAll
    <3>9. (L * a + q) % L = q
      <4>1. L * a + q \in Int /\ a \in Int /\ q \in 0..(L - 1)
        BY <3>3
      <4> QED
        BY <3>5, <4>1, Remainder
    <3> HIDE DEF next
    <3>10. t[j] % L = q
      BY <3>7, <3>8, <3>9
    <3> QED
      BY <1>1, <3>8, <3>10
  <2>3. \A k \in V : f[k] \in Q /\ t[f[k]] = next(k)
    <3> HIDE DEF V, next
    <3> QED
      BY <2>2
  <2>4. ASSUME NEW i \in V, NEW k \in V, f[i] = f[k] PROVE i = k
    <3>1. next(i) = next(k)
      BY <2>3, <2>4
    <3>2. /\ i \in N /\ i \in 1..p /\ t[i] \in Nat
          /\ k \in N /\ k \in 1..p /\ t[k] \in Nat
      BY <1>1
    <3>3. t[i] = t[k]
      BY <3>1, <3>2
    <3>4. i < k => t[i] < t[k]
      BY <3>2, CountGrows
    <3>5. k < i => t[k] < t[i]
      BY <3>2, CountGrows
    <3> QED
      BY <3>2, <3>3, <3>4, <3>5
  <2>5. f \in Injection(V, Q)
    <3>1. f \in [V -> Q] /\ DOMAIN f = V
      <4> HIDE DEF V, next
      <4> QED
        BY <2>3
    <3> HIDE DEF f, V
    <3> QED
      BY <2>4, <3>1 DEF Injection, IsInjective
  <2> HIDE DEF f
  <2>6. Cardinality(V) <= Cardinality(Q)
    <3> HIDE DEF V
    <3> QED
      BY <1>2, <2>5, FS_Injection
  <2>7. Cardinality(V) = Cardinality(R) - 1
    BY <1>2, <2>1, FS_RemoveElement
  <2>8. Cardinality(R) <= Cardinality(Q) + 1
    BY <1>3, <2>6, <2>7
  <2> QED
    BY <2>8 DEF R, Q
<1> QED
  BY <1>4, <1>5
\* A crew that is in the base once has one place in the order of the crews.
LEMMA OnePlace ==
  ASSUME NEW base \in Seq(Watch), NEW c, c # Nobody, NEW b \in DOMAIN base,
         \A i \in DOMAIN base : base[i].crew = c <=> i = b
  PROVE  \E x \in 1..Len(crewsOf(base)) : \A j \in 1..Len(crewsOf(base)) :
           crewsOf(base)[j] = c <=> j = x
<1> DEFINE n == Len(base)
           None(l) == \A j \in 1..Len(l) : l[j] # c
           One(l) == \E x \in 1..Len(l) : \A j \in 1..Len(l) : l[j] = c <=> j = x
<1>1. n \in Nat /\ DOMAIN base = 1..n /\ \A i \in 1..n : base[i].crew \in Crews \cup {Nobody}
  BY ListFacts, FieldFacts
<1>2. PICK f : IsCrewsOf(f, base)
  BY CrewsOfSteps
<1>3. /\ f[0] = <<>>
      /\ \A i \in 1..n : f[i] = IF base[i].crew = Nobody THEN f[i - 1]
                                ELSE Append(f[i - 1], base[i].crew)
      /\ \A i \in 0..n : f[i] \in Seq(Crews)
      /\ crewsOf(base) = f[n]
  BY <1>2 DEF IsCrewsOf
<1>4. \A i \in 1..n : base[i].crew = c <=> i = b
  BY <1>1
<1>5. b \in 1..n
  BY <1>1
<1> HIDE DEF n
<1> DEFINE S == {i \in 0..n : IF i < b THEN None(f[i]) ELSE One(f[i])}
<1>6. 0 \in S
  <2>1. None(f[0]) /\ 0 < b /\ 0 \in 0..n
    BY <1>1, <1>3, <1>5
  <2> HIDE DEF None, One
  <2> QED
    BY <2>1
<1>7. ASSUME NEW i \in 1..n, i - 1 \in S PROVE i \in S
  <2> DEFINE l == f[i - 1]
             y == base[i].crew
  <2>1. i - 1 \in 0..n /\ i \in 0..n /\ l \in Seq(Crews)
    BY <1>1, <1>3
  <2>2. IF i - 1 < b THEN None(l) ELSE One(l)
    <3> HIDE DEF None, One
    <3> QED
      BY <1>7
  <2>3. f[i] = (IF y = Nobody THEN l ELSE Append(l, y)) /\ (y = c <=> i = b)
        /\ y \in Crews \cup {Nobody}
    BY <1>1, <1>3, <1>4
  <2> HIDE DEF l, y
  <2>4. CASE y = Nobody
    <3>1. i # b /\ f[i] = l
      BY <2>3, <2>4
    <3>2. i - 1 < b <=> i < b
      BY <1>5, <3>1
    <3> HIDE DEF None, One
    <3> QED
      BY <2>1, <2>2, <3>1, <3>2
  <2>5. CASE y # Nobody
    <3> DEFINE m == Len(l)
    <3>1. /\ f[i] = Append(l, y) /\ Len(f[i]) = m + 1 /\ m \in Nat
          /\ \A j \in 1..m : f[i][j] = l[j]
          /\ f[i][m + 1] = y
      <4>1. y \in Crews
        BY <2>3, <2>5
      <4>2. f[i] = Append(l, y)
        BY <2>3, <2>5
      <4> QED
        BY <2>1, <4>1, <4>2, AppendFacts, ListFacts
    <3> HIDE DEF m
    <3>2. CASE i < b
      <4>1. None(l)
        <5> HIDE DEF None, One
        <5> QED
          BY <1>5, <2>2, <3>2
      <4>2. \A j \in 1..m : l[j] # c
        BY <4>1 DEF m
      <4>3. y # c
        BY <2>3, <3>2, <1>5
      <4>4. \A j \in 1..(m + 1) : f[i][j] # c
        BY <3>1, <4>2, <4>3
      <4>5. None(f[i])
        BY <3>1, <4>4
      <4> HIDE DEF None, One
      <4> QED
        BY <2>1, <3>2, <4>5
    <3>3. CASE i = b
      <4>1. None(l)
        <5>1. i - 1 < b
          BY <3>3
        <5> HIDE DEF None, One
        <5> QED
          BY <2>2, <5>1
      <4>2. \A j \in 1..m : l[j] # c
        BY <4>1 DEF m
      <4>3. y = c
        BY <2>3, <3>3
      <4>4. \A j \in 1..(m + 1) : f[i][j] = c <=> j = m + 1
        BY <3>1, <4>2, <4>3
      <4>5. One(f[i])
        <5>1. m + 1 \in 1..(m + 1)
          BY <3>1
        <5>2. \E z \in 1..(m + 1) : \A j \in 1..(m + 1) : f[i][j] = c <=> j = z
          BY <4>4, <5>1
        <5> DEFINE K == 1..(m + 1)
        <5>3. 1..Len(f[i]) = K
          BY <3>1
        <5>4. \E z \in K : \A j \in K : f[i][j] = c <=> j = z
          BY <5>2
        <5> HIDE DEF K
        <5>5. \E z \in 1..Len(f[i]) : \A j \in 1..Len(f[i]) : f[i][j] = c <=> j = z
          BY <5>3, <5>4
        <5> QED
          BY <5>5
      <4>6. ~(i < b)
        BY <3>3
      <4> HIDE DEF None, One
      <4> QED
        BY <2>1, <4>5, <4>6
    <3>4. CASE i > b
      <4>1. One(l)
        <5>1. ~(i - 1 < b)
          BY <1>5, <3>4
        <5> HIDE DEF None, One
        <5> QED
          BY <2>2, <5>1
      <4>2. PICK x \in 1..m : \A j \in 1..m : l[j] = c <=> j = x
        BY <4>1 DEF m
      <4>3. y # c
        BY <1>5, <2>3, <3>4
      <4>4. x \in 1..(m + 1) /\ \A j \in 1..(m + 1) : f[i][j] = c <=> j = x
        BY <3>1, <4>2, <4>3
      <4>5. One(f[i])
        <5>1. \E z \in 1..(m + 1) : \A j \in 1..(m + 1) : f[i][j] = c <=> j = z
          BY <4>4
        <5>2. Len(f[i]) = m + 1
          BY <3>1
        <5> QED
          BY <5>1, <5>2
      <4>6. ~(i < b)
        BY <1>5, <3>4
      <4> HIDE DEF None, One
      <4> QED
        BY <2>1, <4>5, <4>6
    <3> QED
      BY <1>5, <3>2, <3>3, <3>4
  <2> QED
    BY <2>4, <2>5
<1> HIDE DEF S
<1>8. \A i \in 0..n : i \in S
  BY <1>1, <1>6, <1>7, InductionTo
<1>9. n \in 0..n /\ ~(n < b)
  BY <1>1, <1>5
<1>10. One(f[n])
  <2>1. n \in S
    BY <1>8, <1>9
  <2> HIDE DEF None, One
  <2> QED
    BY <1>9, <2>1 DEF S
<1>11. \E x \in 1..Len(f[n]) : \A j \in 1..Len(f[n]) : f[n][j] = c <=> j = x
  BY <1>10
<1> HIDE DEF None, One
<1> QED
  BY <1>3, <1>11

\* The watches of the plan after which the crew moves on
MovesBy(base, m) == {k \in 1..m : ((k - 1) % Len(base)) + 1 \in Moves(base)}

\* The watches of a crew that is in the base once are those at which the crew moves
\* whose count has the remainder of its place.
IsCountOf(t, base, m) == t = [k \in 1..(m + 1) |-> turn(Moves(base), Len(base), k)]
OnceIn(base, c) == Cardinality({b \in DOMAIN base : base[b].crew = c}) = 1
InTurn(base, m, t, c) ==
  /\ Len(crewsOf(base)) \in Nat \ {0}
  /\ \E r \in 0..(Len(crewsOf(base)) - 1) :
       {k \in 1..m : CrewAt(base, k) = c}
         = WithRemainder(MovesBy(base, m), t, Len(crewsOf(base)), r)

LEMMA WatchesOf ==
  ASSUME NEW base \in Seq(Watch), NEW m \in Nat, NEW t, IsCountOf(t, base, m),
         NEW c, c # Nobody, OnceIn(base, c)
  PROVE  InTurn(base, m, t, c)
<1> USE DEF IsCountOf, OnceIn, InTurn
<1> DEFINE n == Len(base)
           N == MovesBy(base, m)
           crews == crewsOf(base)
           L == Len(crews)
           B == {b \in DOMAIN base : base[b].crew = c}
<1>1. \E b : B = {b}
  <2>1. DOMAIN base = 1..n /\ n \in Nat
    BY ListFacts
  <2>2. IsFiniteSet(1..n)
    BY <2>1, FS_Interval
  <2>3. B \subseteq 1..n
    BY <2>1
  <2>4. Cardinality(B) = 1
    OBVIOUS
  <2> HIDE DEF B, n
  <2>5. IsFiniteSet(B)
    BY <2>2, <2>3, FS_Subset
  <2> QED
    BY <2>4, <2>5, FS_Singleton
<1>2. PICK b \in DOMAIN base : \A i \in DOMAIN base : base[i].crew = c <=> i = b
  BY <1>1
<1>3. PICK x \in 1..L : \A j \in 1..L : crews[j] = c <=> j = x
  BY <1>2, OnePlace
<1>4. crews \in Seq(Crews) /\ L \in Nat
  <2>1. crews \in Seq(Crews)
    BY CrewsOfFacts
  <2> QED
    BY <2>1, ListFacts
<1>5. L \in Nat \ {0} /\ crews # <<>> /\ x - 1 \in 0..(L - 1)
  <2>1. L # 0
    BY <1>3, <1>4
  <2> HIDE DEF crews
  <2>2. crews # <<>>
    BY <1>4, <2>1, EmptySeq
  <2> HIDE DEF L
  <2> QED
    BY <1>3, <1>4, <2>1, <2>2
<1>6. ASSUME NEW k \in 1..m
      PROVE  CrewAt(base, k) = c <=> (k \in N /\ t[k] % L = x - 1)
  <2> DEFINE u == turn(Moves(base), n, k)
             y == u % L
  <2>1. t[k] = u
    OBVIOUS
  <2>2. k \in N <=> ((k - 1) % n) + 1 \in Moves(base)
    BY DEF MovesBy
  <2>3. u \in Nat
    BY TurnFacts
  <2>4. y \in 0..(L - 1)
    <3> HIDE DEF u, L
    <3>1. u \in Int
      BY <2>3
    <3> QED
      BY <1>5, <3>1, DivMod
  <2>5. CrewAt(base, k) = IF k \in N THEN crews[y + 1] ELSE Nobody
    BY <1>5, <2>2 DEF CrewAt
  <2> HIDE DEF N, y
  <2>6. y + 1 \in 1..L
    <3> HIDE DEF L
    <3> QED
      BY <1>5, <2>4
  <2>7. crews[y + 1] = c <=> y + 1 = x
    BY <1>3, <2>6
  <2>8. y + 1 = x <=> y = x - 1
    <3> HIDE DEF L
    <3> QED
      BY <1>3, <1>5, <2>4
  <2>9. t[k] % L = y
    BY <2>1 DEF y
  <2> QED
    BY <2>5, <2>7, <2>8, <2>9
<1>7. \A k \in N : k \in 1..m
  BY DEF MovesBy
<1> HIDE DEF N, L
<1>8. {k \in 1..m : CrewAt(base, k) = c} = WithRemainder(N, t, L, x - 1)
  BY <1>6, <1>7 DEF WithRemainder
<1> QED
  BY <1>5, <1>8 DEF N, L

\* The same lines further on in the file are as many.
IsFurther(W, K, n, m) ==
  /\ K \subseteq 1..m /\ W \subseteq 1..(n + m)
  /\ \A i \in 1..(n + m) : i \in W <=> i - n \in K

LEMMA FurtherOn ==
  ASSUME NEW n \in Nat, NEW m \in Nat, NEW K, NEW W, IsFurther(W, K, n, m)
  PROVE  Cardinality(W) = Cardinality(K)
<1> USE DEF IsFurther
<1> DEFINE f == [k \in K |-> n + k]
<1>1. IsFiniteSet(K)
  <2>1. IsFiniteSet(1..m)
    BY FS_Interval
  <2> QED
    BY <2>1, FS_Subset
<1>2. \A k \in K : k \in Nat /\ n + k \in 1..(n + m) /\ (n + k) - n = k
  OBVIOUS
<1>3. f \in [K -> W]
  BY <1>2
<1>4. \A i, k \in K : f[i] = f[k] => i = k
  BY <1>2
<1>5. \A i \in W : i - n \in K /\ f[i - n] = i
  OBVIOUS
<1> HIDE DEF f
<1>6. f \in Injection(K, W) /\ f \in Surjection(K, W)
  BY <1>3, <1>4, <1>5 DEF Injection, IsInjective, Surjection
<1>7. ExistsBijection(K, W)
  BY <1>6 DEF ExistsBijection, Bijection
<1> QED
  BY <1>1, <1>7, FS_Bijection

\* Calculate shares the watches of plans of any length out evenly among the crews that
\* are in the base once.
THEOREM TurnsTaken == Spec => CrewsTakeTurns
<1> DEFINE file == watchListFile'
           n == Len(grid)
           base == read(grid)
           plan == laidOut(base, start, trip)
           m == n * trip
           W(c) == {i \in DOMAIN file : file[i].day > 0 /\ file[i].w.crew = c}
           K(c) == {k \in 1..m : CrewAt(base, k) = c}
           Once(c) == Cardinality({b \in DOMAIN grid : grid[b].crew = c}) = 1
<1>1. ASSUME AInv, Calculate, NEW c \in Crews, NEW e \in Crews, Once(c), Once(e)
      PROVE  Cardinality(W(c)) <= Cardinality(W(e)) + 1
  <2>1. TypeOK /\ n \in Nat \ {0} /\ DOMAIN grid = 1..n
    BY <1>1, Before DEF AInv
  <2>2. /\ DOMAIN file = 1..(n + m)
        /\ \A j \in 1..n : file[j] = [day |-> 0, w |-> grid[j]]
        /\ \A k \in 1..m : file[n + k] = plan[k]
    BY <1>1, <2>1, CalculateFile
  <2>3. /\ n > 0 /\ base \in Seq(Watch) /\ start \in Int /\ trip \in Nat \ {0}
        /\ Len(base) = n /\ DOMAIN base = DOMAIN grid
        /\ \A b \in DOMAIN grid : base[b].crew = grid[b].crew
    <3>1. grid \in Seq(Watch) /\ start \in Int /\ trip \in Trips
      BY <2>1, Before
    <3>2. n > 0
      BY <2>1
    <3> QED
      BY <3>1, <3>2, Numbers, ReadOut
  <2> HIDE DEF base
  <2>4. /\ m \in Nat \ {0}
        /\ \A k \in 1..m : plan[k].day = ((k - 1) \div n) + 1 /\ plan[k].w.crew = CrewAt(base, k)
        /\ plan \in Seq(Line) /\ Len(plan) = m
    <3> DEFINE p == Len(base) * trip
    <3>0. base \in Seq(Watch) /\ Len(base) > 0 /\ start \in Int /\ trip \in Nat \ {0}
      BY <2>3
    <3>1. /\ p \in Nat \ {0}
          /\ \A k \in 1..p : plan[k].day = ((k - 1) \div Len(base)) + 1
          /\ plan \in Seq(Line) /\ Len(plan) = p
      BY <3>0, LaidOutAll
    <3>2. \A k \in 1..p : plan[k].w.crew = CrewAt(base, k)
      BY <3>0, LaidOutAll
    <3>3. p = m
      BY <2>3
    <3>4. Len(base) = n
      BY <2>3
    <3> HIDE DEF p, plan, m, n
    <3> QED
      BY <3>1, <3>2, <3>3, <3>4
  <2>5. \A k \in 1..m : plan[k].day > 0
    <3> SUFFICES ASSUME NEW k \in 1..m PROVE plan[k].day > 0
      OBVIOUS
    <3> HIDE DEF plan, m
    <3> DEFINE z == k - 1
    <3>1. z \in Nat /\ plan[k].day = (z \div n) + 1 /\ n \in Nat \ {0}
      BY <2>1, <2>4
    <3> HIDE DEF z, n
    <3>2. z \div n \in Int /\ z % n \in 0..(n - 1) /\ z = n * (z \div n) + (z % n)
      BY <3>1, DivMod
    <3> DEFINE q == z \div n
               r == z % n
    <3>3. q \in Int /\ r \in 0..(n - 1) /\ z = n * q + r
      BY <3>2
    <3> HIDE DEF q, r
    <3>4. ~(q <= -1)
      <4> SUFFICES ASSUME q <= -1 PROVE FALSE
        OBVIOUS
      <4>1. n * q <= n * (-1) /\ n * (-1) = -n /\ n * q \in Int
        BY <3>1, <3>3
      <4> QED
        BY <3>1, <3>3, <4>1
    <3> QED
      BY <3>1, <3>3, <3>4 DEF q
  <2> HIDE DEF file, plan, m
  <2>6. ASSUME NEW d PROVE Cardinality(W(d)) = Cardinality(K(d))
    <3>1. ASSUME NEW i \in 1..(n + m) PROVE i \in W(d) <=> i - n \in K(d)
      <4>1. CASE i \in 1..n
        <5>0. file[i] = [day |-> 0, w |-> grid[i]]
          BY <2>2, <4>1
        <5>1. file[i].day = 0
          BY <5>0
        <5>2. i - n \notin 1..m
          BY <2>1, <2>4, <4>1
        <5>3. i \notin W(d)
          BY <5>1
        <5>4. i - n \notin K(d)
          BY <5>2
        <5> QED
          BY <5>3, <5>4
      <4>2. CASE i \notin 1..n
        <5> DEFINE k == i - n
        <5>1. k \in 1..m /\ n + k = i
          BY <2>1, <2>4, <4>2
        <5> HIDE DEF k
        <5>2. file[i] = plan[k] /\ i \in DOMAIN file
          BY <2>2, <5>1
        <5>3. file[i].day > 0 /\ file[i].w.crew = CrewAt(base, k)
          BY <2>4, <2>5, <5>1, <5>2
        <5>4. i \in W(d) <=> k \in K(d)
          BY <5>1, <5>2, <5>3
        <5> QED
          BY <5>4 DEF k
      <4> QED
        BY <4>1, <4>2
    <3>2. W(d) \subseteq 1..(n + m) /\ K(d) \subseteq 1..m
      BY <2>2
    <3>3. n \in Nat /\ m \in Nat
      BY <2>1, <2>4
    <3>4. IsFurther(W(d), K(d), n, m)
      BY <3>1, <3>2 DEF IsFurther
    <3> HIDE DEF W, K, n
    <3> QED
      BY <3>3, <3>4, FurtherOn
  <2> DEFINE t == [k \in 1..(m + 1) |-> turn(Moves(base), n, k)]
             N == MovesBy(base, m)
             L == Len(crewsOf(base))
             With(x) == WithRemainder(N, t, L, x)
  <2>7. Counts(t, N, m) /\ N \subseteq 1..m
    <3>1. \A k \in 1..(m + 1) : t[k] = turn(Moves(base), n, k) /\ t[k] \in Nat
      BY TurnFacts
    <3>2. t[1] = 0
      <4>1. 1 \in 1..(m + 1)
        BY <2>4
      <4>2. turn(Moves(base), n, 1) = 0
        BY <2>1, TurnSteps
      <4> QED
        BY <3>1, <4>1, <4>2
    <3>3. ASSUME NEW k \in 1..m PROVE t[k + 1] = t[k] + IF k \in N THEN 1 ELSE 0
      <4>1. k \in 1..(m + 1) /\ k + 1 \in 1..(m + 1) /\ k \in Nat \ {0}
        BY <2>4
      <4>2. turn(Moves(base), n, k + 1) = turn(Moves(base), n, k)
              + IF ((k - 1) % n) + 1 \in Moves(base) THEN 1 ELSE 0
        BY <2>1, <4>1, TurnSteps
      <4>3. k \in N <=> ((k - 1) % n) + 1 \in Moves(base)
        BY <2>3 DEF MovesBy
      <4> HIDE DEF t, N
      <4> QED
        BY <3>1, <4>1, <4>2, <4>3
    <3>4. t \in [1..(m + 1) -> Nat]
      BY <3>1
    <3>5. N \subseteq 1..m
      BY DEF MovesBy
    <3> HIDE DEF t, N
    <3> QED
      BY <3>2, <3>3, <3>4, <3>5 DEF Counts
  <2>8. ASSUME NEW d \in Crews, Once(d)
        PROVE  L \in Nat \ {0} /\ \E r \in 0..(L - 1) : K(d) = With(r)
    <3>1. d # Nobody
      BY CrewsAssumption
    <3>2. OnceIn(base, d)
      <4>1. {b \in DOMAIN base : base[b].crew = d} = {b \in DOMAIN grid : grid[b].crew = d}
        BY <2>3
      <4> QED
        BY <2>8, <4>1 DEF OnceIn
    <3>3. m \in Nat /\ base \in Seq(Watch) /\ Len(base) = n
      BY <2>3, <2>4
    <3>4. IsCountOf(t, base, m)
      BY <3>3 DEF IsCountOf
    <3>5. InTurn(base, m, t, d)
      <4> HIDE DEF Once, t, m, n
      <4> QED
        BY <3>1, <3>2, <3>3, <3>4, WatchesOf
    <3> QED
      BY <3>5 DEF InTurn
  <2>9. L \in Nat \ {0}
    BY <1>1, <2>8
  <2>10. PICK r \in 0..(L - 1) : K(c) = With(r)
    BY <1>1, <2>8
  <2>11. PICK q \in 0..(L - 1) : K(e) = With(q)
    BY <1>1, <2>8
  <2>12. Cardinality(With(r)) <= Cardinality(With(q)) + 1
    <3> HIDE DEF t, N, L
    <3> QED
      BY <2>4, <2>7, <2>9, Rounds
  <2>13. Cardinality(W(c)) = Cardinality(With(r)) /\ Cardinality(W(e)) = Cardinality(With(q))
    <3> HIDE DEF W, K, With
    <3> QED
      BY <2>6, <2>10, <2>11
  <2> HIDE DEF W, With
  <2> QED
    BY <2>12, <2>13
<1>2. AInv => [Calculate => \A c, e \in Crews : Once(c) /\ Once(e)
                              => Cardinality(W(c)) <= Cardinality(W(e)) + 1]_vars
  <2> HIDE DEF Once, W
  <2> QED
    BY <1>1
<1> QED
  BY <1>2, Current, PTL DEF CrewsTakeTurns
=============================================================================
