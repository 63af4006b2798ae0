-------------------------- MODULE EngineLog_proofs --------------------------
(***************************************************************************)
(* Proofs about EngineLog, for every set of engines, every timeout and      *)
(* every MaxAge. RunningAccount and NoHoursTwice speak of engines other     *)
(* than engine 2; the inductive invariant adds to them that a line never    *)
(* has more to book than is unbooked, that a running engine has its bRPM    *)
(* while there is a window, and that an engine which runs without its       *)
(* button is under RPM control.                                             *)
(***************************************************************************)
EXTENDS EngineLog, TLAPS

\* The account of an engine record: what the next line would book was not
\* booked before, and nothing else is unbooked.
Good(s) ==
  /\ s.unlogged # Over
  /\ s.running => s.age # Invalid /\ s.age <= s.unlogged
  /\ s.running /\ ~s.switched => s.unlogged = s.age

Armed(s) == s.running => s.bRPM

\* What holds of engine e with record s, given the window and those checked
Held(e, s, w, c) ==
  /\ Good(s)
  /\ w # "closed" => Armed(s)
  /\ s.running /\ ~s.toggle /\ ~s.switched => e \in c

IInv == TypeOK /\ \A e \in Others : Held(e, eng[e], window, checked)

EngineMap == [Engines -> Engine]

\* The part of appendRow for one engine
Row(s, e) ==
  CASE s.running /\ s.bRPM /\ (useERRPM \/ started(s, e)) ->
         [Book(s, Elapsed(s)) EXCEPT !.off = Elapsed(s), !.age = 0]
    [] s.running /\ ~s.bRPM /\ (useERRPM \/ ~s.toggle) -> Book(s, s.off)
    [] OTHER -> s

\* An engine that its stopping function has prepared for its last line
Stopping(s) ==
  /\ s.unlogged # Over
  /\ s.running => ~s.bRPM /\ s.off \in Nat /\ s.off <= s.unlogged

\* What appendRow leaves of an engine
SameControl(r, s) ==
  /\ r.running = s.running /\ r.toggle = s.toggle /\ r.bRPM = s.bRPM
  /\ r.manual = s.manual /\ r.switched = s.switched
-----------------------------------------------------------------------------
(* One engine.                                                             *)

LEMMA Numbers ==
  /\ MaxAge \in Nat /\ DEVICE_TIMEOUT \in Nat
  /\ Invalid = -1 /\ Over = -1 /\ Garbage = -2
  BY EngineAssumption DEF Invalid, Over, Garbage

LEMMA EngineFields ==
  ASSUME NEW s \in Engine
  PROVE  /\ s.running \in BOOLEAN /\ s.toggle \in BOOLEAN
         /\ s.bRPM \in BOOLEAN /\ s.manual \in BOOLEAN
         /\ s.switched \in BOOLEAN
         /\ s.age \in 0..MaxAge \cup {Invalid}
         /\ s.off \in 0..MaxAge \cup {Garbage}
         /\ s.unlogged \in 0..MaxAge \cup {Over}
  BY Zenon DEF Engine

\* Booking keeps a record legal and touches nothing but the account.
LEMMA BookType ==
  ASSUME NEW s \in Engine, NEW t \in 0..MaxAge \cup {Garbage}
  PROVE  Book(s, t) \in Engine
<1> DEFINE u == IF t = Garbage \/ t > s.unlogged THEN Over ELSE s.unlogged - t
<1>1. u \in 0..MaxAge \cup {Over}
  BY Numbers, EngineFields
<1>2. Book(s, t) = [s EXCEPT !.unlogged = u]
  BY DEF Book
<1> HIDE DEF u
<1> QED
  BY <1>1, <1>2 DEF Engine

LEMMA BookFrame ==
  ASSUME NEW s \in Engine, NEW t
  PROVE  /\ SameControl(Book(s, t), s)
         /\ Book(s, t).age = s.age /\ Book(s, t).off = s.off
         /\ Book(s, t).unlogged = IF t = Garbage \/ t > s.unlogged THEN Over
                                  ELSE s.unlogged - t
  BY DEF Book, SameControl, Engine

LEMMA ElapsedType ==
  ASSUME NEW s \in Engine
  PROVE  Elapsed(s) \in 0..MaxAge \cup {Garbage}
  BY EngineFields DEF Elapsed

\* A line keeps every record legal.
LEMMA RowType ==
  ASSUME NEW s \in Engine, NEW e \in Engines
  PROVE  Row(s, e) \in Engine
<1>1. Book(s, Elapsed(s)) \in Engine
  BY BookType, ElapsedType
<1>2. Book(s, s.off) \in Engine
  BY BookType, EngineFields
<1>3. ASSUME NEW r \in Engine, NEW t \in 0..MaxAge \cup {Garbage}
      PROVE  [r EXCEPT !.off = t, !.age = 0] \in Engine
  <2>1. 0 \in 0..MaxAge \cup {Invalid}
    BY Numbers
  <2> QED
    BY <2>1 DEF Engine
<1>4. [Book(s, Elapsed(s)) EXCEPT !.off = Elapsed(s), !.age = 0] \in Engine
  BY <1>1, <1>3, ElapsedType
<1> QED
  BY <1>2, <1>4 DEF Row

LEMMA RowFrame ==
  ASSUME NEW s \in Engine, NEW e \in Engines
  PROVE  SameControl(Row(s, e), s)
<1>1. Book(s, Elapsed(s)) \in Engine
  BY BookType, ElapsedType
<1>2. SameControl(Book(s, Elapsed(s)), s) /\ SameControl(Book(s, s.off), s)
  BY BookFrame
<1>3. SameControl([Book(s, Elapsed(s)) EXCEPT !.off = Elapsed(s), !.age = 0],
                  s)
  BY <1>1, <1>2 DEF SameControl, Engine
<1>4. SameControl(s, s)
  BY DEF SameControl
<1> QED
  BY <1>2, <1>3, <1>4 DEF Row

\* A line books a running engine once: its account stays good.
LEMMA RowGood ==
  ASSUME NEW s \in Engine, NEW e \in Engines, Good(s), Armed(s)
  PROVE  Good(Row(s, e)) /\ Armed(Row(s, e))
<1>1. SameControl(Row(s, e), s)
  BY RowFrame
<1>2. CASE s.running /\ s.bRPM /\ (useERRPM \/ started(s, e))
  <2> DEFINE b == Book(s, Elapsed(s))
  <2>1. Elapsed(s) = s.age /\ s.age \in 0..MaxAge /\ s.age <= s.unlogged
        /\ s.unlogged \in 0..MaxAge
    BY <1>2, EngineFields, Numbers DEF Good, Elapsed
  <2>2. b \in Engine
    BY BookType, ElapsedType
  <2>3. b.unlogged = s.unlogged - s.age
    BY <2>1, BookFrame, Numbers
  <2>4. Row(s, e) = [b EXCEPT !.off = Elapsed(s), !.age = 0]
    BY <1>2 DEF Row
  <2>5. Row(s, e).age = 0 /\ Row(s, e).unlogged = s.unlogged - s.age
    BY <2>2, <2>3, <2>4 DEF Engine
  <2>6. ~s.switched => Row(s, e).unlogged = 0
    BY <1>2, <2>1, <2>5 DEF Good
  <2>7. Row(s, e).unlogged \in Nat
    BY <2>1, <2>5
  <2>8. Row(s, e).unlogged # Over /\ Row(s, e).age # Invalid
        /\ Row(s, e).age <= Row(s, e).unlogged
    BY <2>5, <2>7, Numbers
  <2> QED
    BY <1>1, <2>5, <2>6, <2>8, Zenon DEF Good, Armed, SameControl
<1>3. CASE ~(s.running /\ s.bRPM /\ (useERRPM \/ started(s, e)))
  BY <1>3 DEF Row, Armed
<1> QED
  BY <1>2, <1>3

\* The last line of an engine books no hour twice.
LEMMA RowStopping ==
  ASSUME NEW s \in Engine, NEW e \in Engines, Stopping(s)
  PROVE  Row(s, e).unlogged # Over
<1>1. CASE s.running /\ ~s.bRPM /\ (useERRPM \/ ~s.toggle)
  <2>1. Book(s, s.off).unlogged = s.unlogged - s.off /\ s.off <= s.unlogged
    BY <1>1, BookFrame, EngineFields, Numbers DEF Stopping
  <2>2. s.unlogged \in Nat /\ s.off \in Nat
    BY <1>1, EngineFields, Numbers DEF Stopping
  <2>3. Row(s, e) = Book(s, s.off)
    BY <1>1 DEF Row
  <2> QED
    BY <2>1, <2>2, <2>3, Numbers
<1>2. CASE ~(s.running /\ ~s.bRPM /\ (useERRPM \/ ~s.toggle))
  <2>1. Row(s, e) = s
    BY <1>2, Zenon DEF Row, Stopping
  <2> QED
    BY <2>1 DEF Stopping
<1> QED
  BY <1>1, <1>2
-----------------------------------------------------------------------------
(* The functions that map the engines.                                     *)

LEMMA HeldStopped ==
  ASSUME NEW d, NEW s \in Engine, NEW w, NEW c,
         ~s.running, s.unlogged # Over
  PROVE  Held(d, s, w, c)
  BY DEF Held, Good, Armed

LEMMA HeldRow ==
  ASSUME NEW d \in Engines, NEW s \in Engine, NEW w, NEW c,
         Held(d, s, w, c), w # "closed"
  PROVE  Held(d, Row(s, d), w, c)
<1>1. Good(Row(s, d)) /\ Armed(Row(s, d))
  BY RowGood DEF Held
<1>2. SameControl(Row(s, d), s)
  BY RowFrame
<1> QED
  BY <1>1, <1>2, Zenon DEF Held, SameControl

LEMMA AppendRowType ==
  ASSUME NEW f \in EngineMap
  PROVE  /\ appendRow(f) \in EngineMap
         /\ \A d \in Engines : appendRow(f)[d] = Row(f[d], d)
<1>1. appendRow(f) = [d \in Engines |-> Row(f[d], d)]
  BY DEF appendRow, Row
<1>2. \A d \in Engines : Row(f[d], d) \in Engine
  BY RowType DEF EngineMap
<1> QED
  BY <1>1, <1>2 DEF EngineMap

\* An engine that is started keeps its account if it ran, and opens one if not.
LEMMA StartType ==
  ASSUME NEW f \in EngineMap, NEW e \in Engines, NEW b \in BOOLEAN
  PROVE  /\ startEngine(f, e, b) \in EngineMap
         /\ \A d \in Engines \ {e} : startEngine(f, e, b)[d] = Row(f[d], d)
<1> DEFINE new == [f[e] EXCEPT
             !.age = 0, !.bRPM = TRUE, !.manual = b, !.toggle = b,
             !.unlogged = IF f[e].running THEN @ ELSE 0,
             !.switched = f[e].running /\ @]
           g == [f EXCEPT ![e] = new]
<1>1. new \in Engine
  <2>1. f[e] \in Engine
    BY DEF EngineMap
  <2>2. 0 \in 0..MaxAge \cup {Invalid} /\ 0 \in 0..MaxAge \cup {Over}
    BY Numbers
  <2> QED
    BY <2>1, <2>2 DEF Engine
<1>2. g \in EngineMap /\ g[e] = new /\ \A d \in Engines \ {e} : g[d] = f[d]
  BY <1>1 DEF EngineMap
<1>3. startEngine(f, e, b) = [appendRow(g) EXCEPT ![e].running = TRUE]
  BY DEF startEngine
<1> HIDE DEF g, new
<1>4. appendRow(g) \in EngineMap
      /\ \A d \in Engines : appendRow(g)[d] = Row(g[d], d)
  BY <1>2, AppendRowType
<1>5. \A r \in Engine : [r EXCEPT !.running = TRUE] \in Engine
  BY DEF Engine
<1>6. startEngine(f, e, b) \in EngineMap
  BY <1>3, <1>4, <1>5 DEF EngineMap
<1> QED
  BY <1>2, <1>3, <1>4, <1>6 DEF EngineMap

LEMMA StartHeld ==
  ASSUME NEW f \in EngineMap, NEW e \in Engines, NEW b \in BOOLEAN,
         NEW w, NEW c, NEW d \in Engines, Held(d, f[d], w, c), w # "closed",
         d = e => (~f[d].running \/ f[d].switched) /\ (b \/ d \in c)
  PROVE  Held(d, startEngine(f, e, b)[d], w, c)
<1>1. CASE d # e
  BY <1>1, StartType, HeldRow DEF EngineMap
<1>2. CASE d = e
  <2> DEFINE old == f[e]
             new == [old EXCEPT
               !.age = 0, !.bRPM = TRUE, !.manual = b, !.toggle = b,
               !.unlogged = IF old.running THEN @ ELSE 0,
               !.switched = old.running /\ @]
             g == [f EXCEPT ![e] = new]
             r == Row(new, e)
  <2>1. old \in Engine
    BY DEF EngineMap
  <2>2. 0 \in 0..MaxAge \cup {Invalid} /\ 0 \in 0..MaxAge \cup {Over}
    BY Numbers
  <2>3. new \in Engine
    BY <2>1, <2>2 DEF Engine
  <2>4. /\ new.age = 0 /\ new.bRPM = TRUE /\ new.toggle = b
        /\ new.running = old.running
        /\ new.unlogged = IF old.running THEN old.unlogged ELSE 0
        /\ new.switched = (old.running /\ old.switched)
    BY <2>1 DEF Engine
  <2>5. g \in EngineMap /\ g[e] = new
    BY <2>3 DEF EngineMap
  <2>6. startEngine(f, e, b) = [appendRow(g) EXCEPT ![e].running = TRUE]
    BY DEF startEngine
  <2> HIDE DEF new, g
  <2>7. appendRow(g) \in EngineMap /\ appendRow(g)[e] = r
    BY <2>5, AppendRowType
  <2>8. startEngine(f, e, b)[e] = [r EXCEPT !.running = TRUE]
    BY <2>6, <2>7 DEF EngineMap
  <2>9. r \in Engine /\ SameControl(r, new)
    BY <2>3, RowType, RowFrame
  <2>10. old.unlogged # Over /\ (old.running => old.unlogged >= 0)
         /\ old.unlogged \in Int
    BY <1>2, <2>1, EngineFields, Numbers DEF Held, Good
  <2>11. Good(new) /\ Armed(new)
    <3>1. new.unlogged # Over
      BY <2>4, <2>10, Numbers
    <3>2. new.running => new.age # Invalid /\ new.age <= new.unlogged
      BY <2>4, <2>10, Numbers
    <3>3. ~(new.running /\ ~new.switched)
      BY <1>2, <2>4
    <3> QED
      BY <2>4, <3>1, <3>2, <3>3, Zenon DEF Good, Armed
  <2>12. Good(r) /\ Armed(r)
    BY <2>3, <2>11, RowGood
  <2>13. ~old.running => r = new
    BY <2>4 DEF Row
  <2>14. /\ r.unlogged # Over
         /\ r.age # Invalid /\ r.age <= r.unlogged
         /\ ~r.switched => r.unlogged = r.age
    <3>1. CASE old.running
      <4>1. r.running /\ r.switched
        BY <1>2, <2>4, <2>9, <3>1, Zenon DEF SameControl
      <4> QED
        BY <2>12, <4>1, Zenon DEF Good
    <3>2. CASE ~old.running
      BY <2>4, <2>13, <3>2, Numbers
    <3> QED
      BY <3>1, <3>2
  <2>15. r.bRPM = TRUE /\ r.toggle = b
    BY <2>4, <2>9 DEF SameControl
  <2> HIDE DEF r, old
  <2> DEFINE x == [r EXCEPT !.running = TRUE]
  <2>16. /\ x.running = TRUE /\ x.toggle = b /\ x.bRPM = TRUE
         /\ x.unlogged = r.unlogged /\ x.age = r.age
         /\ x.switched = r.switched
    BY <2>9, <2>15 DEF Engine
  <2> HIDE DEF x
  <2>17. Good(x) /\ Armed(x)
    BY <2>14, <2>16, Zenon DEF Good, Armed
  <2>18. Held(e, x, w, c)
    BY <1>2, <2>16, <2>17 DEF Held
  <2> QED
    BY <1>2, <2>8, <2>18 DEF x
<1> QED
  BY <1>1, <1>2

\* Stopping: a legal record, whether its account is good or not.
LEMMA HaltedType ==
  ASSUME NEW s \in Engine
  PROVE  halted(s) \in Engine
<1> DEFINE off == IF s.running THEN Elapsed(s) ELSE s.off
<1>1. off \in 0..MaxAge \cup {Garbage} /\ Invalid \in 0..MaxAge \cup {Invalid}
  BY ElapsedType, EngineFields
<1>2. halted(s) = [s EXCEPT !.bRPM = FALSE, !.off = off, !.age = Invalid]
  BY DEF halted
<1> HIDE DEF off
<1> QED
  BY <1>1, <1>2 DEF Engine

\* What a halted engine books is what it has run since its last line.
LEMMA HaltedStopping ==
  ASSUME NEW s \in Engine, Good(s)
  PROVE  Stopping(halted(s))
<1> DEFINE off == IF s.running THEN Elapsed(s) ELSE s.off
<1>1. s.running => off \in Nat /\ off <= s.unlogged
  BY EngineFields, Numbers DEF Good, Elapsed
<1>2. halted(s) = [s EXCEPT !.bRPM = FALSE, !.off = off, !.age = Invalid]
  BY DEF halted
<1> HIDE DEF off
<1>3. /\ halted(s).bRPM = FALSE /\ halted(s).off = off
      /\ halted(s).running = s.running /\ halted(s).unlogged = s.unlogged
  BY <1>2 DEF Engine
<1> QED
  BY <1>1, <1>3 DEF Stopping, Good

LEMMA IdleType ==
  ASSUME NEW s \in Engine
  PROVE  /\ idle(s) \in Engine
         /\ ~idle(s).running /\ idle(s).unlogged = s.unlogged
  BY DEF idle, Engine

LEMMA StopType ==
  ASSUME NEW f \in EngineMap, NEW e \in Engines, NEW print \in BOOLEAN
  PROVE  /\ stopEngine(f, e, print) \in EngineMap
         /\ stopEngine(f, e, print)[e] =
              idle(IF print THEN Row(halted(f[e]), e) ELSE halted(f[e]))
         /\ \A d \in Engines \ {e} :
              stopEngine(f, e, print)[d] = IF print THEN Row(f[d], d) ELSE f[d]
<1> DEFINE g == [f EXCEPT ![e] = halted(@)]
           h == IF print THEN appendRow(g) ELSE g
<1>1. halted(f[e]) \in Engine
  BY HaltedType DEF EngineMap
<1>2. /\ g \in EngineMap /\ g[e] = halted(f[e])
      /\ \A d \in Engines \ {e} : g[d] = f[d]
  BY <1>1 DEF EngineMap
<1>3. stopEngine(f, e, print) = [h EXCEPT ![e] = idle(@)]
  BY DEF stopEngine
<1> HIDE DEF g
<1>4. /\ h \in EngineMap
      /\ \A d \in Engines : h[d] = IF print THEN Row(g[d], d) ELSE g[d]
  BY <1>2, AppendRowType
<1> HIDE DEF h
<1>5. idle(h[e]) \in Engine
  BY <1>4, IdleType DEF EngineMap
<1>6. stopEngine(f, e, print) \in EngineMap
  BY <1>3, <1>4, <1>5 DEF EngineMap
<1> QED
  BY <1>2, <1>3, <1>4, <1>6 DEF EngineMap

LEMMA StopHeld ==
  ASSUME NEW f \in EngineMap, NEW e \in Engines, NEW print \in BOOLEAN,
         NEW w, NEW c, NEW d \in Engines, w # "closed",
         d = e => Good(f[d]), d # e => Held(d, f[d], w, c)
  PROVE  Held(d, stopEngine(f, e, print)[d], w, c)
<1>1. CASE d # e
  BY <1>1, StopType, HeldRow DEF EngineMap
<1>2. CASE d = e
  <2> DEFINE h == halted(f[e])
             r == IF print THEN Row(h, e) ELSE h
  <2>1. h \in Engine /\ Stopping(h)
    BY <1>2, HaltedType, HaltedStopping DEF EngineMap
  <2>2. r \in Engine /\ r.unlogged # Over
    BY <2>1, RowType, RowStopping DEF Stopping
  <2>3. stopEngine(f, e, print)[e] = idle(r)
    BY StopType
  <2> HIDE DEF r
  <2>4. idle(r) \in Engine /\ ~idle(r).running /\ idle(r).unlogged # Over
    BY <2>2, IdleType
  <2> QED
    BY <1>2, <2>3, <2>4, HeldStopped
<1> QED
  BY <1>1, <1>2

\* The preferences close the account of a running engine, at most.
LEMMA SwitchHeld ==
  ASSUME NEW f \in EngineMap, NEW e \in Engines
  PROVE  /\ switch(f, e) \in EngineMap
         /\ \A d \in Engines \ {e} : switch(f, e)[d] = f[d]
         /\ Good(f[e]) => Good(switch(f, e)[e])
         /\ \A w, c, k : Held(e, f[e], w, c) => Held(e, switch(f, e)[e], w, k)
<1> DEFINE s == f[e]
           x == [s EXCEPT !.switched = @ \/ s.running]
<1>1. s \in Engine /\ s.switched \in BOOLEAN /\ s.running \in BOOLEAN
  BY EngineFields DEF EngineMap
<1>2. (s.switched \/ s.running) \in BOOLEAN
  BY <1>1
<1>3. x \in Engine
  BY <1>1, <1>2 DEF Engine
<1>4. switch(f, e) = [f EXCEPT ![e] = x]
  BY DEF switch
<1>5. /\ x.running = s.running /\ x.age = s.age /\ x.unlogged = s.unlogged
      /\ x.bRPM = s.bRPM /\ x.toggle = s.toggle
  BY <1>1 DEF Engine
<1>6. s.running => x.switched
  BY <1>1 DEF Engine
<1> HIDE DEF x, s
<1>7. Good(s) => Good(x)
  BY <1>5, <1>6, Zenon DEF Good
<1>8. \A w, c, k : Held(e, s, w, c) => Held(e, x, w, k)
  BY <1>5, <1>6, <1>7, Zenon DEF Held, Armed
<1>9. switch(f, e)[e] = x
  BY <1>3, <1>4 DEF EngineMap
<1>10. switch(f, e) \in EngineMap /\ \A d \in Engines \ {e} : switch(f, e)[d] = f[d]
  BY <1>3, <1>4 DEF EngineMap
<1> QED
  BY <1>7, <1>8, <1>9, <1>10 DEF s
-----------------------------------------------------------------------------
(* The invariant.                                                          *)

LEMMA InitInv == Init => IInv
<1> SUFFICES ASSUME Init PROVE IInv
  OBVIOUS
<1>1. 0 \in 0..MaxAge \cup {Over}
      /\ 0 \in 0..(DEVICE_TIMEOUT + 1)
  BY Numbers
<1>2. Off \in Engine
  BY <1>1 DEF Off, Engine
<1>3. TypeOK
  BY <1>1, <1>2 DEF Init, TypeOK
<1>4. \A e \in Others : eng[e] = Off
  BY DEF Init, Others
<1>5. ~Off.running /\ Off.unlogged = 0
  BY DEF Off
<1>6. Off.unlogged # Over
  BY <1>5, Numbers
<1>7. \A e \in Others : Held(e, eng[e], window, checked)
  BY <1>2, <1>4, <1>5, <1>6, HeldStopped
<1> QED
  BY <1>3, <1>7 DEF IInv

\* What every step starts from.
LEMMA Before ==
  ASSUME IInv
  PROVE  /\ eng \in EngineMap /\ Others \subseteq Engines
         /\ checked \subseteq Engines /\ aboard \subseteq Engines
         /\ useERRPM \in BOOLEAN /\ rpmSentence \in BOOLEAN
         /\ rpmAge \in 0..(DEVICE_TIMEOUT + 1)
         /\ window \in {"open", "asking", "closed"}
         /\ prefs \in {NoDialog, "ticked", "clear"} /\ boxes \subseteq Engines
         /\ \A e \in Others : Held(e, eng[e], window, checked)
  BY DEF IInv, TypeOK, EngineMap, Others

LEMMA ButtonInv ==
  ASSUME IInv, NEW e \in Engines, OnToggleButton(e)
  PROVE  IInv'
<1>1. window = "open" /\ window' = window /\ e \in aboard \ checked
      /\ checked' = checked /\ UNCHANGED <<useERRPM, aboard, prefs, boxes, rpm>>
  BY DEF OnToggleButton, options
<1>2. CASE eng[e].toggle
  <2>1. eng' = stopEngine(eng, e, TRUE)
    BY <1>2 DEF OnToggleButton
  <2>2. eng' \in EngineMap
    BY <2>1, Before, StopType
  <2>3. ASSUME NEW d \in Others PROVE Held(d, eng'[d], window, checked)
    BY <1>1, <2>1, Before, StopHeld DEF Held
  <2> QED
    BY <1>1, <2>2, <2>3, Before DEF IInv, TypeOK, EngineMap, rpm, Others
<1>3. CASE ~eng[e].toggle
  <2>1. eng' = startEngine(eng, e, TRUE)
    BY <1>3 DEF OnToggleButton
  <2>2. eng' \in EngineMap
    BY <2>1, Before, StartType
  <2>3. ASSUME NEW d \in Others PROVE Held(d, eng'[d], window, checked)
    <3>1. Held(d, eng[d], window, checked) /\ d \in Engines
      BY Before
    <3>2. d = e => ~eng[d].running \/ eng[d].switched
      BY <1>1, <1>3, <3>1 DEF Held
    <3> QED
      BY <1>1, <2>1, <3>1, <3>2, Before, StartHeld
  <2> QED
    BY <1>1, <2>2, <2>3, Before DEF IInv, TypeOK, EngineMap, rpm, Others
<1> QED
  BY <1>2, <1>3

LEMMA LineInv ==
  ASSUME IInv, AppendLine
  PROVE  IInv'
<1>1. window # "closed" /\ window' = window /\ checked' = checked
      /\ UNCHANGED <<useERRPM, aboard, prefs, boxes, rpm>> /\ eng' = appendRow(eng)
  BY DEF AppendLine, options
<1>2. eng' \in EngineMap /\ \A d \in Engines : eng'[d] = Row(eng[d], d)
  BY <1>1, Before, AppendRowType
<1>3. ASSUME NEW d \in Others PROVE Held(d, eng'[d], window, checked)
  <2>1. d \in Engines /\ eng[d] \in Engine
    BY Before DEF EngineMap
  <2> QED
    BY <1>1, <1>2, <2>1, Before, HeldRow
<1> QED
  BY <1>1, <1>2, <1>3, Before DEF IInv, TypeOK, EngineMap, rpm, Others

LEMMA SentenceInv ==
  ASSUME IInv, NEW e \in Engines, NEW source, NEW turning \in BOOLEAN,
         SetSentenceRPM(e, source, turning)
  PROVE  IInv'
<1>1. window # "closed" /\ window' = window /\ checked' = checked
      /\ UNCHANGED <<useERRPM, aboard, prefs, boxes>>
      /\ rpmSentence' = TRUE /\ rpmAge' = 0
  BY DEF SetSentenceRPM, options
<1>2. 0 \in 0..(DEVICE_TIMEOUT + 1)
  BY Numbers
<1>3. SUFFICES /\ eng' \in EngineMap
               /\ \A d \in Others : Held(d, eng'[d], window, checked)
  BY <1>1, <1>2, Before DEF IInv, TypeOK, EngineMap, Others
<1> DEFINE Starts == e \in checked /\ turning /\ source = "E" /\ ~eng[e].running
           Shaft == e \in checked /\ turning /\ source = "S" /\ e # "generator"
           Stopped == e \in checked /\ ~turning /\ eng[e].running
<1>4. CASE Starts
  <2>1. eng' = startEngine(eng, e, FALSE)
    BY <1>4 DEF SetSentenceRPM
  <2>2. eng' \in EngineMap
    BY <2>1, Before, StartType
  <2>3. ASSUME NEW d \in Others PROVE Held(d, eng'[d], window, checked)
    BY <1>1, <1>4, <2>1, Before, StartHeld
  <2> QED
    BY <2>2, <2>3
<1>5. CASE Shaft /\ ~Starts
  <2> DEFINE x == [eng[e] EXCEPT !.bRPM = TRUE]
  <2>1. eng' = [eng EXCEPT ![e].bRPM = TRUE]
    BY <1>5 DEF SetSentenceRPM
  <2>2. eng[e] \in Engine
    BY Before DEF EngineMap
  <2>3. x \in Engine
    BY <2>2 DEF Engine
  <2>4. eng' \in EngineMap /\ eng'[e] = x
        /\ \A d \in Engines \ {e} : eng'[d] = eng[d]
    BY <2>1, <2>3, Before DEF EngineMap
  <2>5. /\ x.running = eng[e].running /\ x.toggle = eng[e].toggle
        /\ x.age = eng[e].age /\ x.unlogged = eng[e].unlogged
        /\ x.switched = eng[e].switched /\ x.bRPM = TRUE
    BY <2>2 DEF Engine
  <2> HIDE DEF x
  <2>6. ASSUME NEW d \in Others PROVE Held(d, eng'[d], window, checked)
    <3>1. Held(d, eng[d], window, checked) /\ d \in Engines
      BY Before
    <3>2. CASE d = e
      BY <2>4, <2>5, <3>1, <3>2, Zenon DEF Held, Good, Armed
    <3> QED
      BY <2>4, <3>1, <3>2
  <2> QED
    BY <2>4, <2>6
<1>6. CASE Stopped /\ ~Shaft /\ ~Starts
  <2>1. eng' = stopEngine(eng, e, TRUE)
    BY <1>6 DEF SetSentenceRPM
  <2>2. eng' \in EngineMap
    BY <2>1, Before, StopType
  <2>3. ASSUME NEW d \in Others PROVE Held(d, eng'[d], window, checked)
    BY <1>1, <2>1, Before, StopHeld DEF Held
  <2> QED
    BY <2>2, <2>3
<1>7. CASE ~Stopped /\ ~Shaft /\ ~Starts
  <2>1. eng' = eng
    BY <1>7 DEF SetSentenceRPM
  <2> QED
    BY <2>1, Before
<1> QED
  BY <1>4, <1>5, <1>6, <1>7

LEMMA TimeoutOffType ==
  ASSUME NEW s \in Engine
  PROVE  /\ timeoutOff(s) \in Engine
         /\ Good(s) => Stopping(timeoutOff(s))
<1>1. Elapsed(s) \in 0..MaxAge \cup {Garbage}
      /\ Invalid \in 0..MaxAge \cup {Invalid}
  BY ElapsedType
<1>2. timeoutOff(s) \in Engine
  BY <1>1 DEF timeoutOff, Engine
<1>3. Good(s) /\ s.running
        => Elapsed(s) \in Nat /\ Elapsed(s) <= s.unlogged
  BY EngineFields, Numbers DEF Good, Elapsed
<1>4. LET r == timeoutOff(s)
      IN  /\ r.bRPM = FALSE /\ r.off = Elapsed(s)
          /\ r.running = s.running /\ r.unlogged = s.unlogged
  BY DEF timeoutOff, Engine
<1> QED
  BY <1>2, <1>3, <1>4 DEF Stopping, Good

LEMMA TimeoutInv ==
  ASSUME IInv, RpmTimeout
  PROVE  IInv'
<1> DEFINE m == [e \in Engines |->
                   IF e \in checked THEN timeoutOff(eng[e]) ELSE eng[e]]
           h == appendRow(m)
<1>1. window # "closed" /\ window' = window /\ checked' = checked
      /\ UNCHANGED <<useERRPM, aboard, prefs, boxes, rpmAge>> /\ rpmSentence' = FALSE
      /\ eng' = [e \in Engines |-> IF e \in timedOut
                                   THEN [h[e] EXCEPT !.running = FALSE]
                                   ELSE h[e]]
  BY DEF RpmTimeout, options
<1>2. m \in EngineMap
  BY Before, TimeoutOffType DEF EngineMap
<1> HIDE DEF m
<1>3. h \in EngineMap /\ \A d \in Engines : h[d] = Row(m[d], d)
  BY <1>2, AppendRowType
<1> HIDE DEF h
<1>4. ASSUME NEW r \in Engine
      PROVE  /\ [r EXCEPT !.running = FALSE] \in Engine
             /\ ~[r EXCEPT !.running = FALSE].running
             /\ [r EXCEPT !.running = FALSE].unlogged = r.unlogged
  BY DEF Engine
<1>5. eng' \in EngineMap
  BY <1>1, <1>3, <1>4 DEF EngineMap
<1>6. ASSUME NEW d \in Others PROVE Held(d, eng'[d], window, checked)
  <2>1. d \in Engines /\ eng[d] \in Engine /\ m[d] \in Engine
        /\ Held(d, eng[d], window, checked) /\ h[d] \in Engine
    BY <1>2, <1>3, Before DEF EngineMap
  <2>2. CASE d \in checked
    <3>1. d \in timedOut
      BY <2>2 DEF timedOut, Others
    <3>2. m[d] = timeoutOff(eng[d])
      BY <2>1, <2>2 DEF m
    <3>3. h[d].unlogged # Over
      BY <1>3, <2>1, <3>2, TimeoutOffType, RowStopping DEF Held
    <3>4. eng'[d] = [h[d] EXCEPT !.running = FALSE]
      BY <1>1, <2>1, <3>1
    <3> QED
      BY <1>4, <2>1, <3>3, <3>4, HeldStopped
  <2>3. CASE d \notin checked
    <3>1. d \notin timedOut
      BY <2>3 DEF timedOut, Others
    <3>2. eng'[d] = Row(eng[d], d)
      BY <1>1, <1>3, <2>1, <2>3, <3>1 DEF m
    <3> QED
      BY <1>1, <2>1, <3>2, HeldRow
  <2> QED
    BY <2>2, <2>3
<1> QED
  BY <1>1, <1>5, <1>6, Before DEF IInv, TypeOK, EngineMap, Others

\* The steps of the preferences that concern no engine of Others.
LEMMA DialogInv ==
  ASSUME IInv,
         ShowPreferencesDialog \/ ClickUseERRPM \/ OnButtonOKClick \/ OnCancel
  PROVE  IInv'
<1>1. /\ window' = window /\ aboard' = aboard
      /\ UNCHANGED rpm
      /\ prefs' \in {NoDialog, "ticked", "clear"} /\ useERRPM' \in BOOLEAN
      /\ boxes' \subseteq Engines
  BY Before DEF ShowPreferencesDialog, ClickUseERRPM, OnButtonOKClick, OnCancel, setUseRPM
<1>2. CASE eng' = eng /\ checked' = checked
  BY <1>1, <1>2, Before DEF IInv, TypeOK, EngineMap, rpm, Others
<1>3. CASE OnButtonOKClick
  <2>1. /\ checked' = boxes /\ checked' \subseteq Engines
        /\ eng' = [e \in Engines |->
                     IF e \in checked \ boxes THEN switch(eng, e)[e] ELSE eng[e]]
    BY <1>3, Before DEF OnButtonOKClick
  <2>2. \A d \in Engines : switch(eng, d)[d] \in Engine /\ eng[d] \in Engine
    BY Before, SwitchHeld DEF EngineMap
  <2>3. eng' \in EngineMap
    BY <2>1, <2>2 DEF EngineMap
  <2>4. ASSUME NEW d \in Others PROVE Held(d, eng'[d], window, checked')
    <3>1. d \in Engines /\ Held(d, eng[d], window, checked)
      BY Before
    <3>2. CASE d \in checked \ boxes
      <4>1. eng'[d] = switch(eng, d)[d]
        BY <2>1, <3>1, <3>2
      <4> QED
        BY <3>1, <4>1, Before, SwitchHeld
    <3>3. CASE d \notin checked \ boxes
      <4>1. eng'[d] = eng[d] /\ (d \in checked => d \in checked')
        BY <2>1, <3>1, <3>3
      <4> QED
        BY <3>1, <4>1 DEF Held
    <3> QED
      BY <3>2, <3>3
  <2> QED
    BY <1>1, <2>1, <2>3, <2>4, Before DEF IInv, TypeOK, EngineMap, rpm, Others
<1> QED
  BY <1>2, <1>3 DEF ShowPreferencesDialog, ClickUseERRPM, OnCancel

\* An engine taken from its control: with or without a line, or, without a
\* window, not stopped at all.
LEMMA ControlLost ==
  ASSUME IInv, NEW e \in Engines, NEW c, NEW f,
         \A d \in Others \ {e} : d \in checked => d \in c,
         \/ window = "closed" /\ f = switch(eng, e)
         \/ window # "closed" /\ f = stopEngine(eng, e, TRUE)
         \/ window # "closed" /\ f = stopEngine(switch(eng, e), e, FALSE)
  PROVE  f \in EngineMap /\ \A d \in Others : Held(d, f[d], window, c)
<1>1. switch(eng, e) \in EngineMap
  BY Before, SwitchHeld
<1>2. \A d \in Others \ {e} : Held(d, eng[d], window, c)
  BY Before DEF Held
<1>3. \A d \in Others : Held(d, eng[d], window, checked) /\ Good(eng[d])
  BY Before DEF Held
<1>4. CASE window = "closed" /\ f = switch(eng, e)
  <2>1. ASSUME NEW d \in Others PROVE Held(d, f[d], window, c)
    <3>1. CASE d = e
      BY <1>3, <1>4, <3>1, Before, SwitchHeld
    <3>2. CASE d # e
      BY <1>2, <1>4, <3>2, Before, SwitchHeld
    <3> QED
      BY <3>1, <3>2
  <2> QED
    BY <1>1, <1>4, <2>1
<1>5. CASE window # "closed" /\ f = stopEngine(eng, e, TRUE)
  <2>1. ASSUME NEW d \in Others PROVE Held(d, f[d], window, c)
    BY <1>2, <1>3, <1>5, Before, StopHeld
  <2> QED
    BY <1>5, <2>1, Before, StopType
<1>6. CASE window # "closed" /\ f = stopEngine(switch(eng, e), e, FALSE)
  <2> DEFINE g == switch(eng, e)
  <2>1. g \in EngineMap /\ \A d \in Engines \ {e} : g[d] = eng[d]
    BY Before, SwitchHeld
  <2>2. e \in Others => Good(g[e])
    BY <1>3, Before, SwitchHeld
  <2> HIDE DEF g
  <2>3. f = stopEngine(g, e, FALSE)
    BY <1>6 DEF g
  <2>4. ASSUME NEW d \in Others PROVE Held(d, f[d], window, c)
    <3>1. d \in Engines /\ (d = e => Good(g[d]))
          /\ (d # e => Held(d, g[d], window, c))
      BY <1>2, <2>1, <2>2, Before
    <3> QED
      BY <1>6, <2>1, <2>3, <3>1, StopHeld
  <2> QED
    BY <2>1, <2>3, <2>4, StopType
<1> QED
  BY <1>4, <1>5, <1>6

LEMMA CheckBoxInv ==
  ASSUME IInv, NEW e \in Engines, OnCheckBoxRPM(e)
  PROVE  IInv'
<1>1. UNCHANGED <<useERRPM, aboard, prefs, rpm, window>>
      /\ checked' = (IF e \in boxes THEN checked \ {e} ELSE checked \cup {e})
      /\ boxes' = (IF e \in boxes THEN boxes \ {e} ELSE boxes \cup {e})
  BY DEF OnCheckBoxRPM
<1>2. \A d \in Others \ {e} : d \in checked => d \in checked'
  BY <1>1
<1>3. \/ window = "closed" /\ eng' = switch(eng, e)
      \/ window # "closed" /\ eng' = stopEngine(eng, e, TRUE)
      \/ window # "closed" /\ eng' = stopEngine(switch(eng, e), e, FALSE)
  BY DEF OnCheckBoxRPM
<1>4. eng' \in EngineMap /\ \A d \in Others : Held(d, eng'[d], window, checked')
  BY <1>2, <1>3, ControlLost
<1> QED
  BY <1>1, <1>4, Before DEF IInv, TypeOK, EngineMap, rpm, Others

LEMMA AboardInv ==
  ASSUME IInv, NEW e \in Engines, OnChoiceAboard(e)
  PROVE  IInv'
<1>1. UNCHANGED <<checked, useERRPM, prefs, rpm, window>>
      /\ aboard' = (IF e \in aboard THEN aboard \ {e} ELSE aboard \cup {e})
      /\ boxes' = boxes \cap aboard'
  BY DEF OnChoiceAboard, setUseRPM
<1>2. \/ window = "closed" /\ eng' = switch(eng, e)
      \/ window # "closed" /\ eng' = stopEngine(eng, e, TRUE)
      \/ window # "closed" /\ eng' = stopEngine(switch(eng, e), e, FALSE)
  BY DEF OnChoiceAboard
<1>3. eng' \in EngineMap /\ \A d \in Others : Held(d, eng'[d], window, checked)
  BY <1>2, ControlLost
<1> QED
  BY <1>1, <1>3, Before DEF IInv, TypeOK, EngineMap, rpm, Others

\* The destructors touch no account, and neither does a restart.
LEMMA CloseInv ==
  ASSUME IInv, NEW f \in EngineMap, Close(f), UNCHANGED options,
         \A d \in Others : Held(d, f[d], "closed", checked)
  PROVE  IInv'
<1>1. /\ window' = "closed" /\ rpmSentence' = FALSE /\ rpmAge' = 0
      /\ eng' = [e \in Engines |-> freed(f[e])]
      /\ UNCHANGED <<checked, useERRPM, aboard, prefs, boxes>>
  BY DEF Close, options
<1>2. 0 \in 0..(DEVICE_TIMEOUT + 1)
  BY Numbers
<1>3. ASSUME NEW s \in Engine
      PROVE  /\ freed(s) \in Engine
             /\ freed(s).running = s.running /\ freed(s).age = s.age
             /\ freed(s).unlogged = s.unlogged /\ freed(s).toggle = s.toggle
             /\ freed(s).switched = s.switched
  BY DEF freed, Engine
<1>4. eng' \in EngineMap
  BY <1>1, <1>3 DEF EngineMap
<1>5. ASSUME NEW d \in Others PROVE Held(d, eng'[d], "closed", checked)
  <2>1. d \in Engines /\ f[d] \in Engine /\ eng'[d] = freed(f[d])
        /\ Held(d, f[d], "closed", checked)
    BY <1>1, Before DEF EngineMap
  <2>2. Good(eng'[d])
    BY <1>3, <2>1, Zenon DEF Held, Good
  <2> QED
    BY <1>3, <2>1, <2>2, Zenon DEF Held
<1> QED
  BY <1>1, <1>2, <1>4, <1>5, Before DEF IInv, TypeOK, EngineMap, Others

LEMMA OpenInv ==
  ASSUME IInv, Open
  PROVE  IInv'
<1>1. PICK m \in [Engines -> BOOLEAN] :
        eng' = [e \in Engines |-> [eng[e] EXCEPT !.bRPM = eng[e].running,
                                                 !.manual = m[e]]]
  BY DEF Open
<1>2. /\ window' = "open" /\ rpmSentence' \in BOOLEAN /\ rpmAge' = 0
      /\ UNCHANGED <<checked, useERRPM, aboard, prefs, boxes>>
  BY DEF Open, options
<1>3. 0 \in 0..(DEVICE_TIMEOUT + 1)
  BY Numbers
<1>4. ASSUME NEW s \in Engine, NEW b \in BOOLEAN
      PROVE  LET r == [s EXCEPT !.bRPM = s.running, !.manual = b]
             IN  /\ r \in Engine
                 /\ r.running = s.running /\ r.age = s.age
                 /\ r.unlogged = s.unlogged /\ r.toggle = s.toggle
                 /\ r.switched = s.switched /\ r.bRPM = s.running
  BY DEF Engine
<1>5. eng' \in EngineMap
  BY <1>1, <1>4, Before DEF EngineMap
<1>6. ASSUME NEW d \in Others PROVE Held(d, eng'[d], "open", checked)
  <2> DEFINE s == eng[d]
             r == [s EXCEPT !.bRPM = s.running, !.manual = m[d]]
  <2>1. d \in Engines /\ s \in Engine /\ m[d] \in BOOLEAN /\ eng'[d] = r
        /\ Held(d, s, window, checked)
    BY <1>1, Before DEF EngineMap
  <2>2. /\ r.running = s.running /\ r.age = s.age
        /\ r.unlogged = s.unlogged /\ r.toggle = s.toggle
        /\ r.switched = s.switched /\ r.bRPM = s.running
    BY <1>4, <2>1
  <2> HIDE DEF r, s
  <2>3. Good(r) /\ Armed(r)
    BY <2>1, <2>2, Zenon DEF Held, Good, Armed
  <2> QED
    BY <2>1, <2>2, <2>3, Zenon DEF Held
<1> QED
  BY <1>2, <1>3, <1>5, <1>6, Before DEF IInv, TypeOK, EngineMap, Others

\* The engines stopped by the answer to shutdown's question
LEMMA ManualModeHeld ==
  ASSUME IInv
  PROVE  /\ resetEngineManualMode(eng) \in EngineMap
         /\ \A d \in Others :
              Held(d, resetEngineManualMode(eng)[d], "closed", checked)
<1> DEFINE Pre(s) == [s EXCEPT !.toggle = FALSE, !.bRPM = FALSE,
                               !.off = Elapsed(s)]
           Post(s) == [s EXCEPT !.age = Invalid, !.manual = FALSE,
                                !.running = FALSE]
           m == [e \in Engines |-> Pre(eng[e])]
           h == appendRow(m)
<1>1. ASSUME NEW s \in Engine
      PROVE  Pre(s) \in Engine /\ (Good(s) => Stopping(Pre(s)))
  <2>1. Elapsed(s) \in 0..MaxAge \cup {Garbage}
    BY ElapsedType
  <2>2. Pre(s) \in Engine
    BY <2>1 DEF Engine
  <2>3. Good(s) /\ s.running
          => Elapsed(s) \in Nat /\ Elapsed(s) <= s.unlogged
    BY EngineFields, Numbers DEF Good, Elapsed
  <2>4. /\ Pre(s).bRPM = FALSE /\ Pre(s).off = Elapsed(s)
        /\ Pre(s).running = s.running /\ Pre(s).unlogged = s.unlogged
    BY DEF Engine
  <2> HIDE DEF Pre
  <2> QED
    BY <2>2, <2>3, <2>4 DEF Stopping, Good
<1>2. ASSUME NEW s \in Engine
      PROVE  Post(s) \in Engine /\ ~Post(s).running
             /\ Post(s).unlogged = s.unlogged
  <2>1. Invalid \in 0..MaxAge \cup {Invalid}
    OBVIOUS
  <2> QED
    BY <2>1 DEF Engine
<1>3. resetEngineManualMode(eng) = [e \in Engines |-> Post(h[e])]
  BY DEF resetEngineManualMode
<1>4. m \in EngineMap /\ \A d \in Engines : m[d] = Pre(eng[d])
  BY <1>1, Before DEF EngineMap
<1> HIDE DEF m, Pre, Post
<1>5. h \in EngineMap /\ \A d \in Engines : h[d] = Row(m[d], d)
  BY <1>4, AppendRowType
<1> HIDE DEF h
<1>6. resetEngineManualMode(eng) \in EngineMap
  BY <1>2, <1>3, <1>5 DEF EngineMap
<1>7. ASSUME NEW d \in Others
      PROVE  Held(d, resetEngineManualMode(eng)[d], "closed", checked)
  <2>1. d \in Engines /\ eng[d] \in Engine /\ h[d] \in Engine /\ Good(eng[d])
    BY <1>5, Before DEF EngineMap, Held
  <2>2. h[d].unlogged # Over
    BY <1>1, <1>4, <1>5, <2>1, RowStopping
  <2> QED
    BY <1>2, <1>3, <2>1, <2>2, HeldStopped
<1> QED
  BY <1>6, <1>7

LEMMA ShutdownInv ==
  ASSUME IInv, Shutdown \/ AnswerNo \/ AnswerYes
  PROVE  IInv'
<1>1. \A d \in Others : Held(d, eng[d], "closed", checked)
  BY Before DEF Held
<1>2. CASE window = "open" /\ window' = "asking" /\ UNCHANGED <<eng, rpm, options>>
  BY <1>2, Before DEF IInv, TypeOK, EngineMap, rpm, options, Others, Held
<1>3. CASE Close(eng) /\ UNCHANGED options
  BY <1>1, <1>3, Before, CloseInv
<1>4. CASE Close(resetEngineManualMode(eng)) /\ UNCHANGED options
  BY <1>4, ManualModeHeld, CloseInv
<1> QED
  BY <1>2, <1>3, <1>4 DEF Shutdown, AnswerNo, AnswerYes

\* Time lengthens what an engine has run and what its next line would book
\* alike.
LEMMA TickInv ==
  ASSUME IInv, Tick
  PROVE  IInv'
<1> DEFINE Later(s) ==
      [s EXCEPT
         !.age = IF @ = Invalid THEN @ ELSE Cap(@ + 1, MaxAge),
         !.unlogged = IF s.running /\ @ # Over THEN Cap(@ + 1, MaxAge) ELSE @]
<1>1. /\ UNCHANGED <<checked, useERRPM, aboard, prefs, boxes, rpmSentence, window>>
      /\ rpmAge' = IF window = "closed" THEN rpmAge
                   ELSE Cap(rpmAge + 1, DEVICE_TIMEOUT + 1)
      /\ eng' = [e \in Engines |-> Later(eng[e])]
  BY DEF Tick, options
<1>2. rpmAge' \in 0..(DEVICE_TIMEOUT + 1)
  <2>1. rpmAge \in 0..(DEVICE_TIMEOUT + 1)
    BY Before
  <2>2. Cap(rpmAge + 1, DEVICE_TIMEOUT + 1) \in 0..(DEVICE_TIMEOUT + 1)
    BY <2>1, Numbers DEF Cap
  <2> QED
    BY <1>1, <2>1, <2>2
<1>3. ASSUME NEW s \in Engine
      PROVE  /\ Later(s) \in Engine
             /\ Later(s).running = s.running /\ Later(s).toggle = s.toggle
             /\ Later(s).bRPM = s.bRPM /\ Later(s).switched = s.switched
             /\ Good(s) => Good(Later(s))
  <2> DEFINE a == IF s.age = Invalid THEN s.age ELSE Cap(s.age + 1, MaxAge)
             u == IF s.running /\ s.unlogged # Over
                  THEN Cap(s.unlogged + 1, MaxAge) ELSE s.unlogged
  <2>1. a \in 0..MaxAge \cup {Invalid} /\ u \in 0..MaxAge \cup {Over}
    BY EngineFields, Numbers DEF Cap
  <2>2. Good(s) => /\ u # Over
                   /\ s.running => a # Invalid /\ a <= u
                   /\ s.running /\ ~s.switched => u = a
    BY EngineFields, Numbers DEF Good, Cap
  <2>3. Later(s) = [s EXCEPT !.age = a, !.unlogged = u]
    OBVIOUS
  <2> HIDE DEF a, u, Later
  <2>4. Later(s) \in Engine
    BY <2>1, <2>3 DEF Engine
  <2>5. /\ Later(s).running = s.running /\ Later(s).toggle = s.toggle
        /\ Later(s).bRPM = s.bRPM /\ Later(s).switched = s.switched
        /\ Later(s).age = a /\ Later(s).unlogged = u
    BY <2>3 DEF Engine
  <2>6. Good(s) => Good(Later(s))
    BY <2>2, <2>5, Zenon DEF Good
  <2> QED
    BY <2>4, <2>5, <2>6
<1> HIDE DEF Later
<1>4. eng' \in EngineMap
  BY <1>1, <1>3, Before DEF EngineMap
<1>5. ASSUME NEW d \in Others PROVE Held(d, eng'[d], window, checked)
  <2>1. d \in Engines /\ eng[d] \in Engine /\ eng'[d] = Later(eng[d])
        /\ Held(d, eng[d], window, checked)
    BY <1>1, Before DEF EngineMap
  <2> QED
    BY <1>3, <2>1, Zenon DEF Held, Armed
<1> QED
  BY <1>1, <1>2, <1>4, <1>5, Before DEF IInv, TypeOK, EngineMap, Others

LEMMA NextInv ==
  ASSUME IInv, [Next]_vars
  PROVE  IInv'
<1>1. CASE UNCHANGED vars
  BY <1>1, Zenon DEF vars, IInv, TypeOK, Others
<1>2. CASE Next
  <2>1. \A e \in OptionEngines : e \in Engines
    BY EngineAssumption
  <2>2. CASE \E e \in Engines : OnToggleButton(e)
    BY <2>2, ButtonInv
  <2>3. CASE \E e \in Engines, source \in {"E", "S"}, turning \in BOOLEAN :
               SetSentenceRPM(e, source, turning)
    BY <2>3, SentenceInv
  <2>4. CASE \E e \in OptionEngines : OnCheckBoxRPM(e) \/ OnChoiceAboard(e)
    BY <2>1, <2>4, CheckBoxInv, AboardInv
  <2>5. CASE \/ ShowPreferencesDialog \/ ClickUseERRPM \/ OnButtonOKClick
             \/ OnCancel
    BY <2>5, DialogInv
  <2>6. CASE AppendLine \/ RpmTimeout \/ Tick
    BY <2>6, LineInv, TimeoutInv, TickInv
  <2>7. CASE Open \/ Shutdown \/ AnswerNo \/ AnswerYes
    BY <2>7, OpenInv, ShutdownInv
  <2> QED
    BY <1>2, <2>2, <2>3, <2>4, <2>5, <2>6, <2>7, Zenon DEF Next
<1> QED
  BY <1>1, <1>2

\* The inductive invariant holds of every behaviour.
THEOREM Invariance == Spec => []IInv
<1>1. Init => IInv
  BY InitInv
<1>2. IInv /\ [Next]_vars => IInv'
  BY NextInv
<1> QED
  BY <1>1, <1>2, PTL DEF Spec

\* The records of the engines, the options and the window keep their types.
THEOREM Typing == Spec => []TypeOK
<1>1. IInv => TypeOK
  BY DEF IInv
<1> QED
  BY <1>1, Invariance, PTL

\* For engine 1 and the generator: through every order of buttons, sentences,
\* timeouts, lines, preferences, shutdowns and restarts, the time since the
\* last line is all that no line has booked, unless the preferences took the
\* running engine from its control.
THEOREM HoursAccount == Spec => []RunningAccount
<1>1. IInv => RunningAccount
  BY Zenon DEF IInv, Held, Good, Armed, RunningAccount, Account
<1> QED
  BY <1>1, Invariance, PTL

\* For engine 1 and the generator: no line books time that an earlier line
\* has, whatever the preferences do.
THEOREM HoursOnce == Spec => []NoHoursTwice
<1>1. IInv => NoHoursTwice
  BY Zenon DEF IInv, Held, Good, NoHoursTwice
<1> QED
  BY <1>1, Invariance, PTL
-----------------------------------------------------------------------------
(* The last line of an engine.                                             *)

\* The step of one engine from s to r: if it stops, nothing stays unbooked.
BooksAll(s, r) ==
  s.running /\ ~r.running /\ ~r.switched /\ (useERRPM \/ ~s.toggle)
    => r.unlogged = 0

LEMMA StillRunning ==
  ASSUME NEW s, NEW r, s.running => r.running
  PROVE  BooksAll(s, r)
BY DEF BooksAll

\* An engine s that was prepared as h, with all it has run since its last
\* line in off, books all of it.
LEMMA LastRow ==
  ASSUME NEW e \in Engines, NEW s \in Engine, Good(s), s.running,
         NEW h \in Engine, h.running, ~h.bRPM, h.off = Elapsed(s),
         h.unlogged = s.unlogged, h.switched = s.switched,
         h.toggle => s.toggle,
         NEW r, r.unlogged = Row(h, e).unlogged, r.switched = Row(h, e).switched
  PROVE  BooksAll(s, r)
<1> SUFFICES ASSUME ~r.switched, useERRPM \/ ~s.toggle
             PROVE  r.unlogged = 0
  BY DEF BooksAll
<1>1. Row(h, e) = Book(h, h.off)
  BY Zenon DEF Row
<1>2. ~s.switched
  <2>1. Row(h, e).switched = h.switched
    BY <1>1, BookFrame DEF SameControl
  <2> QED
    BY <2>1
<1>3. /\ h.off = s.age /\ s.age = s.unlogged
      /\ s.age # Invalid
  BY <1>2 DEF Good, Elapsed
<1>4. s.age \in Nat
  BY <1>3, EngineFields, Numbers
<1>5. Book(h, h.off).unlogged = h.unlogged - h.off
  BY <1>3, <1>4, BookFrame, Numbers
<1> QED
  BY <1>1, <1>3, <1>4, <1>5

LEMMA HaltedFields ==
  ASSUME NEW s \in Engine, s.running
  PROVE  /\ halted(s).running /\ ~halted(s).bRPM
         /\ halted(s).off = Elapsed(s) /\ halted(s).unlogged = s.unlogged
         /\ halted(s).switched = s.switched /\ halted(s).toggle = s.toggle
  BY DEF halted, Engine

\* stopEngine with a line, or of an engine whose account the preferences end
LEMMA StopBooks ==
  ASSUME NEW f \in EngineMap, NEW e \in Engines, NEW print \in BOOLEAN,
         NEW d \in Engines, Good(f[d]),
         print \/ (f[e].running => f[e].switched)
  PROVE  BooksAll(f[d], stopEngine(f, e, print)[d])
<1> DEFINE r == stopEngine(f, e, print)[d]
           h == halted(f[d])
           l == IF print THEN Row(h, d) ELSE h
<1>0. f[d] \in Engine /\ h \in Engine
  BY HaltedType DEF EngineMap
<1>1. CASE d # e
  <2>1. r = IF print THEN Row(f[d], d) ELSE f[d]
    BY <1>1, StopType
  <2>2. r.running = f[d].running
    BY <1>0, <2>1, RowFrame DEF SameControl
  <2> QED
    BY <2>2, StillRunning
<1>2. CASE d = e /\ f[d].running
  <2>1. r = idle(l) /\ l \in Engine
    BY <1>0, <1>2, StopType, RowType
  <2>2. r.unlogged = l.unlogged /\ r.switched = l.switched
    <3> HIDE DEF l, r
    <3> QED
      BY <2>1 DEF idle, Engine
  <2>3. CASE print
    <3>1. /\ h.running /\ ~h.bRPM /\ h.off = Elapsed(f[d])
          /\ h.unlogged = f[d].unlogged /\ h.switched = f[d].switched
          /\ h.toggle = f[d].toggle
      BY <1>0, <1>2, HaltedFields
    <3>2. r.unlogged = Row(h, d).unlogged /\ r.switched = Row(h, d).switched
      BY <2>2, <2>3
    <3> HIDE DEF h, r, l
    <3>3. BooksAll(f[d], r)
      BY <1>0, <1>2, <3>1, <3>2, LastRow
    <3> QED
      BY <3>3 DEF r
  <2>4. CASE ~print
    <3>1. r.switched
      BY <1>0, <1>2, <2>2, <2>4, HaltedFields
    <3> QED
      BY <3>1, Zenon DEF BooksAll
  <2> QED
    BY <2>3, <2>4
<1>3. CASE d = e /\ ~f[d].running
  BY <1>3, Zenon DEF BooksAll
<1> QED
  BY <1>1, <1>2, <1>3

\* startEngine stops no engine.
LEMMA StartRuns ==
  ASSUME NEW f \in EngineMap, NEW e \in Engines, NEW b \in BOOLEAN,
         NEW d \in Engines, f[d].running
  PROVE  startEngine(f, e, b)[d].running
<1>1. CASE d # e
  BY <1>1, StartType, RowFrame DEF EngineMap, SameControl
<1>2. CASE d = e
  <2> DEFINE new == [f[e] EXCEPT
               !.age = 0, !.bRPM = TRUE, !.manual = b, !.toggle = b,
               !.unlogged = IF f[e].running THEN @ ELSE 0,
               !.switched = f[e].running /\ @]
             g == appendRow([f EXCEPT ![e] = new])
  <2>1. startEngine(f, e, b) = [g EXCEPT ![e].running = TRUE]
    BY DEF startEngine
  <2>2. startEngine(f, e, b) \in EngineMap
    BY StartType
  <2>3. DOMAIN g = Engines
    BY DEF appendRow
  <2> HIDE DEF g
  <2>4. startEngine(f, e, b)[e] = [g[e] EXCEPT !.running = TRUE]
    BY <2>1, <2>3
  <2>5. "running" \in DOMAIN startEngine(f, e, b)[e]
    BY <2>2 DEF EngineMap, Engine
  <2>6. "running" \in DOMAIN g[e]
    BY <2>4, <2>5
  <2> QED
    BY <1>2, <2>4, <2>6
<1> QED
  BY <1>1, <1>2

\* checkNMEADeviceIsOn stops engines after the line that books them.
LEMMA TimeoutBooks ==
  ASSUME IInv, RpmTimeout, NEW d \in Others
  PROVE  BooksAll(eng[d], eng'[d])
<1> DEFINE m == [e \in Engines |->
                   IF e \in checked THEN timeoutOff(eng[e]) ELSE eng[e]]
           h == appendRow(m)
<1>1. /\ m \in EngineMap
      /\ eng' = [e \in Engines |-> IF e \in timedOut
                                   THEN [h[e] EXCEPT !.running = FALSE]
                                   ELSE h[e]]
  BY Before, TimeoutOffType DEF RpmTimeout, EngineMap
<1>2. d \in Engines /\ eng[d] \in Engine /\ Good(eng[d]) /\ m[d] \in Engine
      /\ m[d] = IF d \in checked THEN timeoutOff(eng[d]) ELSE eng[d]
  BY <1>1, Before DEF EngineMap, Held
<1> HIDE DEF m
<1>3. h[d] = Row(m[d], d) /\ h[d] \in Engine
  BY <1>1, <1>2, AppendRowType DEF EngineMap
<1> HIDE DEF h
<1>4. CASE d \in checked /\ eng[d].running
  <2> DEFINE t == timeoutOff(eng[d])
  <2>1. /\ t.running /\ ~t.bRPM /\ t.off = Elapsed(eng[d])
        /\ t.unlogged = eng[d].unlogged /\ t.switched = eng[d].switched
        /\ t.toggle = eng[d].toggle
    BY <1>2, <1>4 DEF timeoutOff, Engine
  <2>2. m[d] = t /\ t \in Engine
    BY <1>2, <1>4
  <2> HIDE DEF t
  <2>3. eng'[d].unlogged = h[d].unlogged /\ eng'[d].switched = h[d].switched
    BY <1>1, <1>2, <1>3 DEF Engine
  <2> QED
    BY <1>2, <1>3, <1>4, <2>1, <2>2, <2>3, LastRow
<1>5. CASE d \notin checked
  <2>1. d \notin timedOut
    BY <1>5 DEF timedOut, Others
  <2>2. eng'[d].running = eng[d].running
    BY <1>1, <1>2, <1>3, <1>5, <2>1, RowFrame DEF SameControl
  <2> QED
    BY <2>2, StillRunning
<1>6. CASE ~eng[d].running
  BY <1>6, Zenon DEF BooksAll
<1> QED
  BY <1>4, <1>5, <1>6

\* The answer Yes to shutdown's question books what the engines have run.
LEMMA ManualModeBooks ==
  ASSUME IInv, AnswerYes, NEW d \in Others
  PROVE  BooksAll(eng[d], eng'[d])
<1> DEFINE Pre(s) == [s EXCEPT !.toggle = FALSE, !.bRPM = FALSE,
                               !.off = Elapsed(s)]
           m == [e \in Engines |-> Pre(eng[e])]
           h == appendRow(m)
<1>1. ASSUME NEW s \in Engine
      PROVE  /\ Pre(s) \in Engine
             /\ ~Pre(s).toggle /\ ~Pre(s).bRPM /\ Pre(s).off = Elapsed(s)
             /\ Pre(s).running = s.running /\ Pre(s).unlogged = s.unlogged
             /\ Pre(s).switched = s.switched
  BY <1>1, ElapsedType DEF Engine
<1>2. eng' = [e \in Engines |->
                freed([h[e] EXCEPT !.age = Invalid, !.manual = FALSE,
                                   !.running = FALSE])]
  BY DEF AnswerYes, Close, resetEngineManualMode
<1>3. m = [e \in Engines |-> Pre(eng[e])]
  OBVIOUS
<1> HIDE DEF Pre, m
<1>4. m \in EngineMap
  BY <1>1, <1>3, Before DEF EngineMap
<1>5. d \in Engines /\ eng[d] \in Engine /\ Good(eng[d]) /\ m[d] = Pre(eng[d])
  BY <1>3, Before DEF EngineMap, Held
<1>6. h[d] = Row(m[d], d) /\ h[d] \in Engine
  BY <1>4, <1>5, AppendRowType DEF EngineMap
<1> HIDE DEF h
<1>7. eng'[d].unlogged = h[d].unlogged /\ eng'[d].switched = h[d].switched
  BY <1>2, <1>5, <1>6 DEF freed, Engine
<1>8. CASE eng[d].running
  BY <1>1, <1>5, <1>6, <1>7, <1>8, LastRow
<1>9. CASE ~eng[d].running
  BY <1>9, Zenon DEF BooksAll
<1> QED
  BY <1>8, <1>9

LEMMA SwitchRunning ==
  ASSUME NEW f \in EngineMap, NEW e \in Engines
  PROVE  /\ \A d \in Engines : switch(f, e)[d].running = f[d].running
         /\ \A d \in Engines : switch(f, e)[d].toggle = f[d].toggle
         /\ switch(f, e)[e].running => switch(f, e)[e].switched
<1> DEFINE x == [f[e] EXCEPT !.switched = @ \/ f[e].running]
<1>1. f[e] \in Engine /\ f[e].switched \in BOOLEAN /\ f[e].running \in BOOLEAN
  BY EngineFields DEF EngineMap
<1>2. /\ x.running = f[e].running /\ x.toggle = f[e].toggle
      /\ f[e].running => x.switched
  BY <1>1 DEF Engine
<1>3. switch(f, e) = [f EXCEPT ![e] = x]
  BY DEF switch
<1> HIDE DEF x
<1> QED
  BY <1>2, <1>3 DEF EngineMap

\* Every other step of the window and the clock leaves running alone.
LEMMA OthersRun ==
  ASSUME IInv, NEW d \in Others,
         \/ AppendLine \/ Tick \/ Open \/ Shutdown \/ AnswerNo
         \/ ShowPreferencesDialog \/ ClickUseERRPM \/ OnButtonOKClick
         \/ OnCancel \/ UNCHANGED vars
  PROVE  BooksAll(eng[d], eng'[d])
<1>0. d \in Engines /\ eng[d] \in Engine
  BY Before DEF EngineMap
<1>1. CASE AppendLine
  <2>1. eng'[d] = Row(eng[d], d)
    BY <1>0, <1>1, Before, AppendRowType DEF AppendLine
  <2> QED
    BY <1>0, <2>1, RowFrame, StillRunning DEF SameControl
<1>2. CASE Tick
  <2>1. eng'[d].running = eng[d].running
    BY <1>0, <1>2 DEF Tick, Engine
  <2> QED
    BY <2>1, StillRunning
<1>3. CASE Open
  <2>1. eng'[d].running = eng[d].running
    BY <1>0, <1>3 DEF Open, Engine
  <2> QED
    BY <2>1, StillRunning
<1>4. CASE eng' = [e \in Engines |-> freed(eng[e])]
  <2>1. eng'[d].running = eng[d].running
    BY <1>0, <1>4 DEF freed, Engine
  <2> QED
    BY <2>1, StillRunning
<1>5. CASE eng' = eng
  BY <1>5, StillRunning
<1>6. CASE OnButtonOKClick
  <2>1. eng'[d] \in {switch(eng, d)[d], eng[d]}
    BY <1>0, <1>6 DEF OnButtonOKClick
  <2>2. eng'[d].running = eng[d].running
    BY <1>0, <2>1, Before, SwitchRunning
  <2> QED
    BY <2>2, StillRunning
<1> QED
  BY <1>1, <1>2, <1>3, <1>4, <1>5, <1>6
  DEF Shutdown, AnswerNo, Close, ShowPreferencesDialog, ClickUseERRPM, OnCancel, vars

\* The preferences stop an engine with a line, or mark its account as ended.
LEMMA ControlBooks ==
  ASSUME IInv, NEW e \in Engines, OnCheckBoxRPM(e) \/ OnChoiceAboard(e),
         NEW d \in Others
  PROVE  BooksAll(eng[d], eng'[d])
<1>0. d \in Engines /\ eng \in EngineMap /\ Good(eng[d])
  BY Before DEF Held
<1>1. CASE eng' = switch(eng, e)
  BY <1>0, <1>1, SwitchRunning, StillRunning
<1>2. CASE eng' = stopEngine(eng, e, TRUE)
  BY <1>0, <1>2, StopBooks
<1>3. CASE eng' = stopEngine(switch(eng, e), e, FALSE)
  <2> DEFINE g == switch(eng, e)
  <2>1. /\ g \in EngineMap /\ (g[e].running => g[e].switched)
        /\ g[d].running = eng[d].running /\ g[d].toggle = eng[d].toggle
    BY <1>0, SwitchHeld, SwitchRunning
  <2>2. Good(g[d])
    BY <1>0, SwitchHeld
  <2>3. eng' = stopEngine(g, e, FALSE)
    BY <1>3
  <2> HIDE DEF g
  <2>4. BooksAll(g[d], eng'[d])
    BY <1>0, <2>1, <2>2, <2>3, StopBooks
  <2> QED
    BY <2>1, <2>4, Zenon DEF BooksAll
<1> QED
  BY <1>1, <1>2, <1>3 DEF OnCheckBoxRPM, OnChoiceAboard

LEMMA StepBooks ==
  ASSUME IInv, [Next]_vars, NEW d \in Others
  PROVE  BooksAll(eng[d], eng'[d])
<1>0. d \in Engines /\ eng \in EngineMap /\ Good(eng[d])
  BY Before DEF Held
<1>1. ASSUME NEW e \in Engines, NEW b \in BOOLEAN, eng' = startEngine(eng, e, b)
      PROVE  BooksAll(eng[d], eng'[d])
  BY <1>0, <1>1, StartRuns, StillRunning
<1>2. ASSUME NEW e \in Engines, eng' = stopEngine(eng, e, TRUE)
      PROVE  BooksAll(eng[d], eng'[d])
  BY <1>0, <1>2, StopBooks
<1>3. ASSUME NEW e \in Engines, OnToggleButton(e)
      PROVE  BooksAll(eng[d], eng'[d])
  BY <1>1, <1>2, <1>3 DEF OnToggleButton
<1>4. ASSUME NEW e \in Engines, NEW source, NEW turning,
             SetSentenceRPM(e, source, turning)
      PROVE  BooksAll(eng[d], eng'[d])
  <2>1. \/ eng' = startEngine(eng, e, FALSE)
        \/ eng' = stopEngine(eng, e, TRUE)
        \/ eng' = [eng EXCEPT ![e].bRPM = TRUE]
        \/ eng' = eng
    BY <1>4 DEF SetSentenceRPM
  <2>2. CASE eng' = [eng EXCEPT ![e].bRPM = TRUE]
    <3>1. eng'[d].running = eng[d].running
      BY <1>0, <2>2 DEF EngineMap, Engine
    <3> QED
      BY <3>1, StillRunning
  <2> QED
    BY <1>1, <1>2, <2>1, <2>2, StillRunning
<1>5. CASE \E e \in OptionEngines : OnCheckBoxRPM(e) \/ OnChoiceAboard(e)
  BY <1>5, ControlBooks, EngineAssumption
<1>6. CASE RpmTimeout \/ AnswerYes
  BY <1>6, TimeoutBooks, ManualModeBooks
<1>7. CASE \/ AppendLine \/ Tick \/ Open \/ Shutdown \/ AnswerNo
           \/ ShowPreferencesDialog \/ ClickUseERRPM \/ OnButtonOKClick
           \/ OnCancel \/ UNCHANGED vars
  BY <1>7, OthersRun
<1> QED
  BY <1>3, <1>4, <1>5, <1>6, <1>7, Zenon DEF Next

\* Whatever stops engine 1 or the generator, its button, a sentence, the
\* timeout, the preferences or the shutdown, leaves nothing of its run
\* unbooked, if its hours are calculated or a sentence had started it.
THEOREM StopsBooked == Spec => StopBooksAll
<1>1. IInv /\ [Next]_vars
        => [\A e \in Others :
              Stops(e) /\ ~eng[e].switched' /\ (useERRPM \/ ~eng[e].toggle)
                => eng[e].unlogged' = 0]_vars
  BY StepBooks, Zenon DEF BooksAll, Stops
<1> QED
  BY <1>1, Invariance, PTL DEF Spec, StopBooksAll
=============================================================================
