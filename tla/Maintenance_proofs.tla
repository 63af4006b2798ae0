------------------------- MODULE Maintenance_proofs -------------------------
(***************************************************************************)
(* Proofs about Maintenance, for every set of readings, limits, texts and   *)
(* stored lists.  Every check rates all rows against one line: what it      *)
(* leaves in the list of services and in the frame agrees, and it changes   *)
(* priorities only, so that the lists stay what their files hold until a    *)
(* list is marked.                                                         *)
(***************************************************************************)
EXTENDS Maintenance, Recursion

\* The parts of FrameShowsRows and EditsAreMarked, about any lists
FrameShows(ss, b) ==
  /\ \A i \in DOMAIN ss :
       b >= (CASE ss[i].priority = 1 -> 2 [] ss[i].priority = 3 -> 1 [] OTHER -> 0)
  /\ b = 2 => \E i \in DOMAIN ss : ss[i].priority = 1
  /\ b = 1 => \E i \in DOMAIN ss : ss[i].priority = 3

Key(s) == <<s.text, s.kind, IF s.kind = "date" THEN <<>> ELSE <<s.warn, s.urgent>> >>
Keys(ss) == {Key(ss[i]) : i \in DOMAIN ss}
Kept(rs) == {rs[i].text : i \in DOMAIN rs} \ {Blank}
Own(ps) == {[title |-> ps[i].title, category |-> ps[i].category] : i \in DOMAIN ps}

ServicesSame(ss, f) == Keys(ss) = Keys(f)
RepairsSame(rs, f) ==
  /\ Kept(rs) = Kept(f)
  /\ \A i \in DOMAIN rs : rs[i].priority # 0 => \E k \in DOMAIN f : f[k] = rs[i]
PartsSame(ps, f) ==
  /\ \A p \in Own(f) : p.category # "plugin" => p \in Own(ps)
  /\ \A p \in Own(ps) : p.category = Blank => p \in Own(f)

Marked == open => /\ ~modified => ServicesSame(services, servicesFile)
                  /\ ~modifiedR => RepairsSame(repairs, repairsFile)
                  /\ ~modifiedB => PartsSame(parts, partsFile)

IInv == TypeOK /\ FrameShows(services, frame) /\ Marked

LEMMA MarkedIsEditsAreMarked == Marked <=> EditsAreMarked
BY DEF Marked, EditsAreMarked, ServicesSame, RepairsSame, PartsSame, Keys, Key, Kept, Own
-----------------------------------------------------------------------------
(* Constants and lists.                                                    *)

LEMMA Numbers ==
  /\ MaxDay \in Nat /\ MaxRows \in Nat /\ MaxEdits \in Nat
  /\ Capacity \in Nat /\ Quarter \in Nat /\ Hour \in Nat \ {0}
  /\ Limits \subseteq Nat /\ Priorities \subseteq 0..5
  /\ Kinds \subseteq {"total", "bank", "status", "date", "days"}
  /\ "total" \in Kinds
  /\ \A r \in Readings : r.total \in Nat /\ r.bank \in Nat /\ r.status \in Nat
BY KindsAssumption, HourAssumption, BoundsAssumption, TypesAssumption

LEMMA SortedFacts ==
  ASSUME NEW S, NEW l \in Seq(S), NEW k \in Sorted(l)
  PROVE  /\ k \in Seq(S) /\ DOMAIN k = DOMAIN l
         /\ \A i \in DOMAIN k : \E j \in DOMAIN l : k[i] = l[j]
         /\ \A j \in DOMAIN l : \E i \in DOMAIN k : k[i] = l[j]
<1> DEFINE n == Len(l)
<1>1. n \in Nat /\ DOMAIN l = 1..n /\ \A i \in DOMAIN l : l[i] \in S
  BY ListFacts
<1>2. PICK p \in [DOMAIN l -> DOMAIN l] :
        /\ k = [i \in DOMAIN l |-> l[p[i]]]
        /\ \A i, j \in DOMAIN l : p[i] = p[j] => i = j
  BY DEF Sorted, IsInjective
<1> HIDE DEF n
<1>3. k \in Seq(S) /\ DOMAIN k = DOMAIN l
  <2>1. k \in [1..n -> S]
    BY <1>1, <1>2
  <2> QED
    BY <1>1, <2>1, FcnIsSeq
<1>4. \A i \in DOMAIN k : k[i] = l[p[i]] /\ p[i] \in DOMAIN l
  BY <1>2
<1>5. \A j \in 1..n : \E i \in 1..n : p[i] = j
  <2>1. p \in [1..n -> 1..n] /\ \A i, j \in 1..n : p[i] = p[j] => i = j
    BY <1>1, <1>2
  <2> QED
    BY <1>1, <2>1, InjectionOnto
<1> QED
  BY <1>1, <1>3, <1>4, <1>5
-----------------------------------------------------------------------------
(* Rating.                                                                 *)

\* What a check does to a service: it sets its priority.
Rates(s, r) ==
  /\ r \in Service
  /\ r.text = s.text /\ r.kind = s.kind /\ r.warn = s.warn
  /\ r.urgent = s.urgent /\ r.start = s.start /\ r.active = s.active

LEMMA LevelFacts ==
  ASSUME NEW s, NEW line
  PROVE  Level(s, line) \in 0..2 /\ (~s.active => Level(s, line) = 0)
BY DEF Level

LEMMA RowFacts ==
  ASSUME NEW s \in Service, NEW level \in 0..2, ~s.active => level = 0
  PROVE  LET r == setRowBackground(s, level) IN
         /\ Rates(s, r)
         /\ r.priority = 1 <=> level = 2
         /\ r.priority = 3 <=> level = 1
         /\ r.priority \in {0, 5} <=> level = 0
<1>1. /\ s.active \in BOOLEAN
      /\ <<5, 3, 1>>[1] = 5 /\ <<5, 3, 1>>[2] = 3 /\ <<5, 3, 1>>[3] = 1
  BY DEF Service
<1> DEFINE p == IF ~s.active THEN 0 ELSE <<5, 3, 1>>[level + 1]
<1>2. p = IF ~s.active THEN 0 ELSE IF level = 0 THEN 5 ELSE IF level = 1 THEN 3 ELSE 1
  BY <1>1
<1> HIDE DEF p
<1>3. p \in {0, 1, 3, 5}
  BY <1>2
<1>4. Rates(s, [s EXCEPT !.priority = p]) /\ [s EXCEPT !.priority = p].priority = p
  BY <1>3 DEF Rates, Service
<1>5. setRowBackground(s, level) = [s EXCEPT !.priority = p]
  BY DEF setRowBackground, p
<1> QED
  BY <1>1, <1>2, <1>4, <1>5

LEMMA RatedFacts ==
  ASSUME NEW ss \in Seq(Service), NEW line
  PROVE  LET rs == Rated(ss, line) IN
         /\ rs \in Seq(Service) /\ DOMAIN rs = DOMAIN ss
         /\ \A i \in DOMAIN ss :
              /\ Rates(ss[i], rs[i])
              /\ rs[i].priority = 1 <=> Level(ss[i], line) = 2
              /\ rs[i].priority = 3 <=> Level(ss[i], line) = 1
              /\ rs[i].priority \in {0, 5} <=> Level(ss[i], line) = 0
<1> DEFINE rs == Rated(ss, line)
<1>1. /\ Len(ss) \in Nat /\ DOMAIN ss = 1..Len(ss)
      /\ \A i \in DOMAIN ss : ss[i] \in Service
  BY ListFacts
<1>2. DOMAIN rs = DOMAIN ss
  BY DEF Rated
<1>3. ASSUME NEW i \in DOMAIN ss
      PROVE  /\ Rates(ss[i], rs[i])
             /\ rs[i].priority = 1 <=> Level(ss[i], line) = 2
             /\ rs[i].priority = 3 <=> Level(ss[i], line) = 1
             /\ rs[i].priority \in {0, 5} <=> Level(ss[i], line) = 0
  <2>1. rs[i] = setRowBackground(ss[i], Level(ss[i], line))
    BY DEF Rated
  <2> QED
    BY <1>1, <2>1, RowFacts, LevelFacts
<1>4. rs \in Seq(Service)
  <2>1. rs \in [1..Len(ss) -> Service]
    BY <1>1, <1>3 DEF Rated, Rates
  <2> QED
    BY <1>1, <2>1, FcnIsSeq
<1> QED
  BY <1>2, <1>3, <1>4

LEMMA BorderFacts ==
  ASSUME NEW ss, NEW line
  PROVE  /\ border(ss, line) \in 0..2
         /\ \A i \in DOMAIN ss : Level(ss[i], line) <= border(ss, line)
         /\ \/ border(ss, line) = 0
            \/ \E i \in DOMAIN ss : Level(ss[i], line) = border(ss, line)
<1> DEFINE P(b) == /\ \A i \in DOMAIN ss : Level(ss[i], line) <= b
                   /\ b = 0 \/ \E i \in DOMAIN ss : Level(ss[i], line) = b
<1>1. \A i \in DOMAIN ss : Level(ss[i], line) \in 0..2
  BY LevelFacts
<1>2. \E b \in 0..2 : P(b)
  <2>1. CASE \E i \in DOMAIN ss : Level(ss[i], line) = 2
    <3>1. P(2)
      BY <1>1, <2>1
    <3> QED
      BY <3>1
  <2>2. CASE /\ \A i \in DOMAIN ss : Level(ss[i], line) # 2
             /\ \E i \in DOMAIN ss : Level(ss[i], line) = 1
    <3>1. P(1)
      BY <1>1, <2>2
    <3> QED
      BY <3>1
  <2>3. CASE \A i \in DOMAIN ss : Level(ss[i], line) \notin {1, 2}
    <3>1. P(0)
      BY <1>1, <2>3
    <3> QED
      BY <3>1
  <2> QED
    BY <2>1, <2>2, <2>3
<1>3. border(ss, line) = CHOOSE b \in 0..2 : P(b)
  BY DEF border
<1> HIDE DEF P
<1>4. border(ss, line) \in 0..2 /\ P(border(ss, line))
  BY <1>2, <1>3
<1> QED
  BY <1>4 DEF P

\* The frame agrees with the rows as they are rated.
LEMMA FrameFacts ==
  ASSUME NEW ss \in Seq(Service), NEW line
  PROVE  FrameShows(Rated(ss, line), border(ss, line)) /\ border(ss, line) \in 0..2
<1> DEFINE rs == Rated(ss, line)
           b == border(ss, line)
<1>1. /\ DOMAIN rs = DOMAIN ss
      /\ \A i \in DOMAIN ss : /\ rs[i].priority = 1 <=> Level(ss[i], line) = 2
                              /\ rs[i].priority = 3 <=> Level(ss[i], line) = 1
                              /\ Level(ss[i], line) \in 0..2
  BY RatedFacts, LevelFacts
<1>2. /\ b \in 0..2
      /\ \A i \in DOMAIN ss : Level(ss[i], line) <= b
      /\ b = 0 \/ \E i \in DOMAIN ss : Level(ss[i], line) = b
  BY BorderFacts
<1> HIDE DEF rs, b
<1> SUFFICES FrameShows(rs, b) /\ b \in 0..2
  BY DEF rs, b
<1>3. ASSUME NEW i \in DOMAIN rs
      PROVE  b >= (CASE rs[i].priority = 1 -> 2 [] rs[i].priority = 3 -> 1 [] OTHER -> 0)
  BY <1>1, <1>2
<1>4. /\ b = 2 => \E i \in DOMAIN rs : rs[i].priority = 1
      /\ b = 1 => \E i \in DOMAIN rs : rs[i].priority = 3
  BY <1>1, <1>2
<1> QED
  BY <1>2, <1>3, <1>4 DEF FrameShows
-----------------------------------------------------------------------------
(* Priorities handed down to the parts.                                     *)

\* Nothing but priorities differs.
Reprioritised(ps, qs) ==
  /\ qs \in Seq(Part) /\ DOMAIN qs = DOMAIN ps
  /\ \A j \in DOMAIN ps : qs[j].title = ps[j].title /\ qs[j].category = ps[j].category

LEMMA PartsFacts ==
  ASSUME NEW ps \in Seq(Part), NEW n \in Nat, NEW list, DOMAIN list = 1..n,
         \A i \in 1..n : list[i].priority \in 0..5
  PROVE  Reprioritised(ps, setBuyPartsPriority(ps, list))
<1> DEFINE same(j) == {i \in DOMAIN list : list[i].text = ps[j].title}
           q(j) == IF same(j) = {} THEN ps[j]
                   ELSE [ps[j] EXCEPT !.priority = list[Max(same(j))].priority]
           qs == setBuyPartsPriority(ps, list)
<1>1. qs = [j \in DOMAIN ps |-> q(j)]
  BY DEF setBuyPartsPriority
<1>2. /\ Len(ps) \in Nat /\ DOMAIN ps = 1..Len(ps)
      /\ \A j \in DOMAIN ps : ps[j] \in Part
  BY ListFacts
<1>3. ASSUME NEW j \in DOMAIN ps
      PROVE  /\ q(j) \in Part
             /\ q(j).title = ps[j].title /\ q(j).category = ps[j].category
  <2>1. CASE same(j) = {}
    BY <1>2, <2>1
  <2>2. CASE same(j) # {}
    <3> DEFINE pr == list[Max(same(j))].priority
    <3>1. Max(same(j)) \in same(j)
      <4> HIDE DEF same
      <4>1. same(j) \subseteq 1..n
        BY DEF same
      <4> QED
        BY <2>2, <4>1, LastOfThem
    <3>2. pr \in 0..5
      BY <3>1
    <3>3. q(j) = [ps[j] EXCEPT !.priority = pr]
      BY <2>2
    <3> HIDE DEF q, pr
    <3> QED
      BY <1>2, <3>2, <3>3 DEF Part
  <2> QED
    BY <2>1, <2>2
<1> HIDE DEF q
<1>4. qs \in [1..Len(ps) -> Part]
  BY <1>1, <1>2, <1>3
<1>5. qs \in Seq(Part) /\ DOMAIN qs = DOMAIN ps
  BY <1>2, <1>4, FcnIsSeq
<1>6. \A j \in DOMAIN ps : qs[j].title = ps[j].title /\ qs[j].category = ps[j].category
  BY <1>1, <1>3
<1> QED
  BY <1>5, <1>6 DEF Reprioritised

LEMMA PartsOfServices ==
  ASSUME NEW ps \in Seq(Part), NEW ss \in Seq(Service)
  PROVE  Reprioritised(ps, setBuyPartsPriority(ps, ss))
<1>1. /\ Len(ss) \in Nat /\ DOMAIN ss = 1..Len(ss)
      /\ \A i \in DOMAIN ss : ss[i] \in Service
  BY ListFacts
<1>2. ASSUME NEW s \in Service PROVE s.priority \in 0..5
  <2>1. s.priority \in {0, 1, 3, 5}
    BY DEF Service
  <2> QED
    BY <2>1
<1> QED
  BY <1>1, <1>2, PartsFacts

LEMMA PartsOfRepairs ==
  ASSUME NEW ps \in Seq(Part), NEW rs \in Seq(Repair)
  PROVE  Reprioritised(ps, setBuyPartsPriority(ps, rs))
<1>1. /\ Len(rs) \in Nat /\ DOMAIN rs = 1..Len(rs)
      /\ \A i \in DOMAIN rs : rs[i] \in Repair
  BY ListFacts
<1>2. \A i \in 1..Len(rs) : rs[i].priority \in 0..5
  BY <1>1 DEF Repair
<1> QED
  BY <1>1, <1>2, PartsFacts

LEMMA ReprioritisedAgain ==
  ASSUME NEW ps, NEW qs, NEW rs, Reprioritised(ps, qs), Reprioritised(qs, rs)
  PROVE  Reprioritised(ps, rs)
BY DEF Reprioritised

LEMMA OwnFacts ==
  ASSUME NEW ps, NEW qs, Reprioritised(ps, qs)
  PROVE  Own(qs) = Own(ps)
BY DEF Reprioritised, Own

LEMMA PartsSameFacts ==
  ASSUME NEW ps, NEW qs, NEW f, Reprioritised(ps, qs)
  PROVE  /\ PartsSame(ps, f) => PartsSame(qs, f)
         /\ PartsSame(qs, ps)
BY OwnFacts DEF PartsSame

\* Services whose keys agree row by row
LEMMA KeysFacts ==
  ASSUME NEW ss, NEW rs, DOMAIN rs = DOMAIN ss,
         \A i \in DOMAIN ss : Key(rs[i]) = Key(ss[i])
  PROVE  Keys(rs) = Keys(ss)
BY DEF Keys

LEMMA RatedKeys ==
  ASSUME NEW ss \in Seq(Service), NEW line
  PROVE  Keys(Rated(ss, line)) = Keys(ss)
<1> DEFINE rs == Rated(ss, line)
<1>1. DOMAIN rs = DOMAIN ss /\ \A i \in DOMAIN ss : Rates(ss[i], rs[i])
  BY RatedFacts
<1> HIDE DEF rs
<1>2. \A i \in DOMAIN ss : Key(rs[i]) = Key(ss[i])
  BY <1>1 DEF Rates, Key
<1>3. Keys(rs) = Keys(ss)
  BY <1>1, <1>2, KeysFacts
<1> QED
  BY <1>3 DEF rs
-----------------------------------------------------------------------------
(* What every step starts from, and what a check leaves.                    *)

LEMMA Before ==
  ASSUME IInv
  PROVE  /\ services \in Seq(Service) /\ servicesFile \in Seq(Service)
         /\ repairs \in Seq(Repair) /\ repairsFile \in Seq(Repair)
         /\ parts \in Seq(Part) /\ partsFile \in Seq(Part)
         /\ modified \in BOOLEAN /\ modifiedR \in BOOLEAN
         /\ modifiedB \in BOOLEAN /\ open \in BOOLEAN
         /\ frame \in 0..2 /\ last \in Readings /\ day \in 0..MaxDay
         /\ maintenance_timer \in 0..(Hour - 1) /\ edits \in 0..MaxEdits
BY DEF IInv, TypeOK

LEMMA After ==
  ASSUME /\ services' \in Seq(Service) /\ servicesFile' \in Seq(Service)
         /\ repairs' \in Seq(Repair) /\ repairsFile' \in Seq(Repair)
         /\ parts' \in Seq(Part) /\ partsFile' \in Seq(Part)
         /\ modified' \in BOOLEAN /\ modifiedR' \in BOOLEAN
         /\ modifiedB' \in BOOLEAN /\ open' \in BOOLEAN
         /\ frame' \in 0..2 /\ last' \in Readings /\ day' \in 0..MaxDay
         /\ maintenance_timer' \in 0..(Hour - 1) /\ edits' \in 0..MaxEdits,
         FrameShows(services', frame'), Marked'
  PROVE  IInv'
BY DEF IInv, TypeOK

LEMMA CheckFacts ==
  ASSUME NEW ss \in Seq(Service), NEW ps \in Seq(Part), NEW line,
         checkService(ss, ps, line)
  PROVE  /\ services' \in Seq(Service) /\ Keys(services') = Keys(ss)
         /\ parts' \in Seq(Part) /\ Reprioritised(ps, parts')
         /\ frame' \in 0..2 /\ FrameShows(services', frame')
<1>1. Rated(ss, line) \in Seq(Service) /\ Keys(Rated(ss, line)) = Keys(ss)
  BY RatedFacts, RatedKeys
<1>2. Reprioritised(ps, setBuyPartsPriority(ps, Rated(ss, line)))
  BY <1>1, PartsOfServices
<1>3. FrameShows(Rated(ss, line), border(ss, line)) /\ border(ss, line) \in 0..2
  BY FrameFacts
<1> QED
  BY <1>1, <1>2, <1>3 DEF checkService, Reprioritised
-----------------------------------------------------------------------------
(* Edits of Service.                                                       *)

\* A check of the list ss, in which a list that is not marked has kept its keys
LEMMA CheckInv ==
  ASSUME IInv, NEW ss \in Seq(Service), NEW ps \in Seq(Part), NEW line,
         checkService(ss, ps, line), Reprioritised(parts, ps),
         Keys(ss) = Keys(services) \/ modified',
         modified' \in BOOLEAN, modified => modified',
         UNCHANGED <<repairs, files, modifiedR, modifiedB, open>>,
         last' \in Readings, day' \in 0..MaxDay,
         maintenance_timer' \in 0..(Hour - 1), edits' \in 0..MaxEdits
  PROVE  IInv'
<1>1. /\ services' \in Seq(Service) /\ Keys(services') = Keys(ss)
      /\ parts' \in Seq(Part) /\ Reprioritised(ps, parts')
      /\ frame' \in 0..2 /\ FrameShows(services', frame')
  BY CheckFacts
<1>2. Reprioritised(parts, parts')
  BY <1>1, ReprioritisedAgain
<1>3. Marked'
  <2>1. PartsSame(parts, partsFile) => PartsSame(parts', partsFile)
    BY <1>2, PartsSameFacts
  <2>2. ~modified' => ~modified /\ Keys(services') = Keys(services)
    BY <1>1, Before
  <2>3. /\ servicesFile' = servicesFile /\ repairsFile' = repairsFile
        /\ partsFile' = partsFile /\ repairs' = repairs
        /\ modifiedR' = modifiedR /\ modifiedB' = modifiedB /\ open' = open
    BY DEF files
  <2>4. Marked
    BY DEF IInv
  <2> QED
    BY <2>1, <2>2, <2>3, <2>4 DEF Marked, ServicesSame
<1> QED
  BY <1>1, <1>3, Before, After DEF files

LEMMA EditFacts ==
  ASSUME IInv, Edit
  PROVE  /\ open /\ edits' \in 0..MaxEdits
         /\ last' \in Readings /\ day' \in 0..MaxDay
         /\ maintenance_timer' \in 0..(Hour - 1)
         /\ UNCHANGED <<files, open>>
BY Before, Numbers DEF Edit

LEMMA SameParts ==
  ASSUME NEW ps \in Seq(Part)
  PROVE  Reprioritised(ps, ps)
BY DEF Reprioritised

LEMMA ChangeServiceInv ==
  ASSUME IInv, NEW i \in DOMAIN services, NEW s \in Service, ChangeService(i, s)
  PROVE  IInv'
<1>1. /\ Edit /\ modified' = TRUE
      /\ checkService([services EXCEPT ![i] = s], parts, last)
      /\ UNCHANGED <<repairs, modifiedR, modifiedB>>
  BY DEF ChangeService
<1>2. [services EXCEPT ![i] = s] \in Seq(Service)
  BY Before, ExceptFacts
<1> QED
  BY <1>1, <1>2, Before, EditFacts, SameParts, CheckInv

LEMMA ChosenFacts ==
  ASSUME IInv, NEW s \in Service, NEW k \in Kinds
  PROVE  chosen(s, k) \in Service
<1>1. /\ last.total \in Nat /\ Capacity \in Nat /\ Quarter \in Nat /\ day \in Nat
      /\ k \in {"total", "bank", "status", "date", "days"}
      /\ day + 1 \in Nat
  BY Before, Numbers
<1>2. ASSUME NEW a \in Nat, NEW b \in Nat, NEW c \in Nat
      PROVE  /\ [s EXCEPT !.kind = k, !.start = a, !.warn = b, !.urgent = c] \in Service
             /\ [s EXCEPT !.kind = k, !.warn = b, !.urgent = c] \in Service
  BY DEF Service
<1> QED
  BY <1>1, <1>2 DEF chosen

LEMMA FieldFacts ==
  ASSUME NEW s \in Service
  PROVE  /\ \A v \in Nat : /\ [s EXCEPT !.warn = v, !.urgent = v] \in Service
                           /\ [s EXCEPT !.urgent = v] \in Service
         /\ [s EXCEPT !.active = ~@] \in Service
         /\ [s EXCEPT !.active = FALSE] \in Service
         /\ [s EXCEPT !.active = TRUE] \in Service
         /\ \A t \in Texts : [s EXCEPT !.text = t] \in Service
BY DEF Service, Titles

LEMMA EditCellInv ==
  ASSUME IInv, NEW i \in DOMAIN services,
         EditIf(i) \/ EditWarn(i) \/ EditUrgent(i) \/ EditActive(i)
  PROVE  IInv'
<1>1. services[i] \in Service
  BY Before, ListFacts
<1>2. CASE EditIf(i)
  BY <1>1, <1>2, ChosenFacts, ChangeServiceInv DEF EditIf
<1>3. CASE EditWarn(i)
  <2>1. PICK v \in Limits : ChangeService(i, [services[i] EXCEPT !.warn = v, !.urgent = v])
    BY <1>3 DEF EditWarn
  <2>2. [services[i] EXCEPT !.warn = v, !.urgent = v] \in Service
    BY <1>1, Numbers, FieldFacts
  <2> QED
    BY <2>1, <2>2, ChangeServiceInv
<1>4. CASE EditUrgent(i)
  <2>1. PICK v \in Limits : ChangeService(i, [services[i] EXCEPT !.urgent = v])
    BY <1>4 DEF EditUrgent
  <2>2. [services[i] EXCEPT !.urgent = v] \in Service
    BY <1>1, Numbers, FieldFacts
  <2> QED
    BY <2>1, <2>2, ChangeServiceInv
<1>5. CASE EditActive(i)
  BY <1>1, <1>5, FieldFacts, ChangeServiceInv DEF EditActive
<1> QED
  BY <1>2, <1>3, <1>4, <1>5

LEMMA EditTextInv ==
  ASSUME IInv, NEW i \in DOMAIN services, EditText(i)
  PROVE  IInv'
<1>1. PICK t \in Texts : services' = [services EXCEPT ![i].text = t]
  BY DEF EditText
<1> DEFINE s == [services[i] EXCEPT !.text = t]
<1>2. services[i] \in Service
  BY Before, ListFacts
<1>3. s \in Service /\ s.priority = services[i].priority
  BY <1>2, FieldFacts DEF Service
<1>4. services' = [services EXCEPT ![i] = s]
  BY <1>1
<1> HIDE DEF s
<1>5. /\ services' \in Seq(Service) /\ DOMAIN services' = DOMAIN services
      /\ \A j \in DOMAIN services : services'[j].priority = services[j].priority
  BY <1>3, <1>4, Before, ExceptFacts
<1>6. FrameShows(services', frame)
  <2>1. FrameShows(services, frame)
    BY DEF IInv
  <2> QED
    BY <1>5, <2>1 DEF FrameShows
<1>7. /\ modified' = TRUE /\ Edit
      /\ UNCHANGED <<repairs, parts, frame, modifiedR, modifiedB>>
  BY DEF EditText
<1>8. Marked'
  BY <1>7, EditFacts DEF files, IInv, Marked
<1> QED
  BY <1>5, <1>6, <1>7, <1>8, Before, EditFacts, After DEF files

LEMMA AddLineInv ==
  ASSUME IInv, addLine
  PROVE  IInv'
<1> DEFINE blank == [text |-> Blank, kind |-> "total", warn |-> 0, urgent |-> 0,
                     start |-> 0, active |-> FALSE, priority |-> 5]
           new == [blank EXCEPT !.kind = "total", !.start = last.total,
                                !.warn = 1, !.urgent = 1]
           ss == Append(services, new)
           rated == Rated(ss, last)
           n == Len(rated)
           s == [rated[n] EXCEPT !.active = TRUE]
<1>1. /\ Edit /\ modified' = TRUE
      /\ services' = [rated EXCEPT ![n].active = TRUE]
      /\ parts' = setBuyPartsPriority(parts, rated)
      /\ frame' = border(ss, last)
      /\ UNCHANGED <<repairs, modifiedR, modifiedB>>
  BY DEF addLine, chosen
<1>2. services' = [rated EXCEPT ![n] = s]
  BY <1>1
<1>3. new \in Service
  <2>1. last.total \in Nat
    BY Before, Numbers
  <2> QED
    BY <2>1, Numbers DEF Service, Titles
<1> HIDE DEF new
<1>4. ss \in Seq(Service) /\ Len(ss) \in Nat /\ DOMAIN ss = 1..Len(ss) /\ ss # <<>>
      /\ Len(ss) >= 1
  BY <1>3, Before, AppendFacts, ListFacts
<1> HIDE DEF ss
<1>5. /\ rated \in Seq(Service) /\ DOMAIN rated = DOMAIN ss
      /\ FrameShows(rated, border(ss, last)) /\ border(ss, last) \in 0..2
  BY <1>4, RatedFacts, FrameFacts
<1>6. n \in DOMAIN rated /\ rated[n] \in Service
  BY <1>4, <1>5, ListFacts
<1>7. Reprioritised(parts, setBuyPartsPriority(parts, rated))
  BY <1>5, Before, PartsOfServices
<1> HIDE DEF rated, n
<1>8. s \in Service /\ s.priority = rated[n].priority
  BY <1>6, FieldFacts DEF Service
<1> HIDE DEF s
<1>9. /\ services' \in Seq(Service) /\ DOMAIN services' = DOMAIN rated
      /\ \A i \in DOMAIN rated : services'[i].priority = rated[i].priority
  BY <1>2, <1>5, <1>6, <1>8, ExceptFacts
<1>10. FrameShows(services', frame') /\ frame' \in 0..2
  BY <1>1, <1>5, <1>9 DEF FrameShows
<1>11. parts' \in Seq(Part) /\ Marked'
  <2>1. Marked /\ UNCHANGED <<files, open>>
    BY <1>1, EditFacts DEF IInv
  <2>2. parts' \in Seq(Part) /\ (PartsSame(parts, partsFile) => PartsSame(parts', partsFile))
    BY <1>1, <1>7, PartsSameFacts DEF Reprioritised
  <2> QED
    BY <1>1, <2>1, <2>2 DEF Marked, files
<1> QED
  BY <1>1, <1>9, <1>10, <1>11, Before, EditFacts, After DEF files

\* A service changes that is not marked, but its key stays.
LEMMA SameKeyInv ==
  ASSUME IInv, NEW i \in DOMAIN services, NEW s \in Service,
         Key(s) = Key(services[i]), Edit, UNCHANGED <<repairs, marks>>,
         checkService([services EXCEPT ![i] = s], parts, last)
  PROVE  IInv'
<1> DEFINE ss == [services EXCEPT ![i] = s]
<1>1. /\ ss \in Seq(Service) /\ DOMAIN ss = DOMAIN services
      /\ \A j \in DOMAIN services : ss[j] = IF j = i THEN s ELSE services[j]
  BY Before, ExceptFacts
<1> HIDE DEF ss
<1>2. \A j \in DOMAIN services : Key(ss[j]) = Key(services[j])
  BY <1>1
<1>3. Keys(ss) = Keys(services)
  BY <1>1, <1>2, KeysFacts
<1>4. checkService(ss, parts, last)
  BY DEF ss
<1> QED
  BY <1>1, <1>3, <1>4, Before, EditFacts, SameParts, CheckInv DEF marks

LEMMA PickDateInv ==
  ASSUME IInv, NEW i \in DOMAIN services, PickDate(i)
  PROVE  IInv'
<1>1. /\ Edit /\ services[i].kind = "date" /\ services[i] \in Service
      /\ UNCHANGED <<repairs, marks>>
  BY Before, ListFacts DEF PickDate
<1>2. PICK v \in 0..(MaxDay + 1) :
        \/ checkService([services EXCEPT ![i].warn = v, ![i].urgent = v], parts, last)
        \/ checkService([services EXCEPT ![i].urgent = v], parts, last)
  BY DEF PickDate
<1>3. v \in Nat
  BY Numbers
<1>4. PICK s \in Service :
        /\ checkService([services EXCEPT ![i] = s], parts, last)
        /\ Key(s) = Key(services[i])
  <2>1. CASE checkService([services EXCEPT ![i].warn = v, ![i].urgent = v], parts, last)
    <3> DEFINE s == [services[i] EXCEPT !.warn = v, !.urgent = v]
    <3>1. s \in Service
      BY <1>1, <1>3, FieldFacts
    <3>2. Key(s) = Key(services[i])
      BY <1>1 DEF Key, Service
    <3>3. [services EXCEPT ![i].warn = v, ![i].urgent = v] = [services EXCEPT ![i] = s]
      BY Before, ListFacts
    <3> QED
      BY <2>1, <3>1, <3>2, <3>3
  <2>2. CASE checkService([services EXCEPT ![i].urgent = v], parts, last)
    <3> DEFINE s == [services[i] EXCEPT !.urgent = v]
    <3>1. s \in Service
      BY <1>1, <1>3, FieldFacts
    <3>2. Key(s) = Key(services[i])
      BY <1>1 DEF Key, Service
    <3>3. [services EXCEPT ![i].urgent = v] = [services EXCEPT ![i] = s]
      OBVIOUS
    <3> QED
      BY <2>2, <3>1, <3>2, <3>3
  <2> QED
    BY <1>2, <2>1, <2>2
<1> QED
  BY <1>1, <1>4, SameKeyInv

LEMMA DoneFacts ==
  ASSUME IInv, NEW s \in Service
  PROVE  setRowDone(s) \in Service /\ Key(setRowDone(s)) = Key(s)
<1>1. /\ last.total \in Nat /\ last.bank \in Nat /\ day \in Nat
      /\ s.kind \in {"total", "bank", "status", "date", "days"}
  <2>1. s.kind \in Kinds
    BY DEF Service
  <2>2. last.total \in Nat /\ last.bank \in Nat
    BY Before, Numbers
  <2>3. day \in Nat
    BY Before, Numbers
  <2>4. s.kind \in {"total", "bank", "status", "date", "days"}
    BY <2>1, Numbers
  <2> QED
    BY <2>2, <2>3, <2>4
<1>2. setRowDone(s) \in Service
  BY <1>1 DEF setRowDone, Service
<1>3. Key(setRowDone(s)) = Key(s)
  BY <1>1 DEF setRowDone, Service, Key
<1> QED
  BY <1>2, <1>3

LEMMA ServiceDoneInv ==
  ASSUME IInv, NEW i \in DOMAIN services, ServiceDone(i)
  PROVE  IInv'
<1> DEFINE s == setRowDone(services[i])
<1>1. s \in Service /\ Key(s) = Key(services[i])
  BY Before, ListFacts, DoneFacts
<1>2. /\ Edit /\ UNCHANGED <<repairs, marks>>
      /\ checkService([services EXCEPT ![i] = s], parts, last)
  BY DEF ServiceDone
<1> HIDE DEF s
<1> QED
  BY <1>1, <1>2, SameKeyInv

LEMMA ServiceDeleteInv ==
  ASSUME IInv, NEW i \in DOMAIN services, ServiceDelete(i)
  PROVE  IInv'
<1> DEFINE s == [services[i] EXCEPT !.active = FALSE]
           off == Rated([services EXCEPT ![i] = s], last)
<1>1. /\ Edit /\ modified' = TRUE
      /\ checkService(RemoveAt(off, i), setBuyPartsPriority(parts, off), last)
      /\ UNCHANGED <<repairs, modifiedR, modifiedB>>
  BY DEF ServiceDelete
<1>2. s \in Service
  BY Before, ListFacts, FieldFacts
<1> HIDE DEF s
<1>3. /\ [services EXCEPT ![i] = s] \in Seq(Service)
      /\ i \in DOMAIN [services EXCEPT ![i] = s]
  BY <1>2, Before, ExceptFacts
<1>4. off \in Seq(Service) /\ i \in DOMAIN off
  BY <1>3, RatedFacts
<1> HIDE DEF off
<1>5. RemoveAt(off, i) \in Seq(Service)
  BY <1>4, RemoveFacts
<1>6. Reprioritised(parts, setBuyPartsPriority(parts, off))
  BY <1>4, Before, PartsOfServices
<1>7. setBuyPartsPriority(parts, off) \in Seq(Part)
  BY <1>6 DEF Reprioritised
<1> QED
  BY <1>1, <1>5, <1>6, <1>7, EditFacts, CheckInv

LEMMA SortServicesInv ==
  ASSUME IInv, SortServices
  PROVE  IInv'
<1>1. PICK ss \in Sorted(services) : checkService(ss, parts, last)
  BY DEF SortServices
<1>2. /\ ss \in Seq(Service)
      /\ \A i \in DOMAIN ss : \E j \in DOMAIN services : ss[i] = services[j]
      /\ \A j \in DOMAIN services : \E i \in DOMAIN ss : ss[i] = services[j]
  BY Before, SortedFacts
<1>3. Keys(ss) = Keys(services)
  BY <1>2 DEF Keys
<1>4. Edit /\ UNCHANGED <<repairs, marks>>
  BY DEF SortServices
<1> QED
  BY <1>1, <1>2, <1>3, <1>4, Before, EditFacts, SameParts, CheckInv DEF marks
-----------------------------------------------------------------------------
(* Edits of Repairs and of Buy Parts, and the rest.                         *)

\* A step that leaves the services alone
LEMMA OthersInv ==
  ASSUME IInv, UNCHANGED <<services, frame, files, open>>,
         repairs' \in Seq(Repair), parts' \in Seq(Part),
         modified' \in BOOLEAN, modifiedR' \in BOOLEAN, modifiedB' \in BOOLEAN,
         modified => modified', modifiedR => modifiedR', modifiedB => modifiedB',
         RepairsSame(repairs, repairsFile) => RepairsSame(repairs', repairsFile) \/ modifiedR',
         PartsSame(parts, partsFile) => PartsSame(parts', partsFile) \/ modifiedB',
         last' \in Readings, day' \in 0..MaxDay,
         maintenance_timer' \in 0..(Hour - 1), edits' \in 0..MaxEdits
  PROVE  IInv'
<1>1. /\ services' = services /\ frame' = frame /\ open' = open
      /\ servicesFile' = servicesFile /\ repairsFile' = repairsFile
      /\ partsFile' = partsFile
  BY DEF files
<1>2. Marked'
  BY <1>1 DEF IInv, Marked
<1>3. FrameShows(services', frame')
  BY <1>1 DEF IInv
<1> QED
  BY <1>1, <1>2, <1>3, Before, After

LEMMA AddRepairInv ==
  ASSUME IInv, addLineRepairs
  PROVE  IInv'
<1> DEFINE new == [text |-> Blank, priority |-> 0]
<1>1. /\ Edit /\ modified' = TRUE /\ modifiedR' = TRUE
      /\ repairs' = Append(repairs, new)
      /\ parts' = setBuyPartsPriority(parts, Append(repairs, new))
      /\ UNCHANGED <<services, frame, modifiedB>>
  BY DEF addLineRepairs, checkRepairs
<1>2. new \in Repair
  BY DEF Repair, Titles
<1> HIDE DEF new
<1>3. repairs' \in Seq(Repair)
  BY <1>1, <1>2, Before, AppendFacts
<1>4. Reprioritised(parts, parts')
  BY <1>1, <1>3, Before, PartsOfRepairs
<1>5. parts' \in Seq(Part) /\ (PartsSame(parts, partsFile) => PartsSame(parts', partsFile))
  BY <1>4, PartsSameFacts DEF Reprioritised
<1> QED
  BY <1>1, <1>3, <1>5, Before, EditFacts, OthersInv

LEMMA RepairsChangeInv ==
  ASSUME IInv, NEW i \in DOMAIN repairs, onGridCellRepairsChange(i)
  PROVE  IInv'
<1>1. /\ Edit /\ modifiedR' = TRUE /\ repairs[i] \in Repair
      /\ UNCHANGED <<services, frame, modified, modifiedB>>
  BY Before, ListFacts DEF onGridCellRepairsChange
<1>2. PICK r \in Repair : checkRepairs([repairs EXCEPT ![i] = r], parts)
  <2>1. CASE \E t \in Texts : checkRepairs([repairs EXCEPT ![i].text = t], parts)
    <3>1. PICK t \in Texts : checkRepairs([repairs EXCEPT ![i].text = t], parts)
      BY <2>1
    <3>2. [repairs[i] EXCEPT !.text = t] \in Repair
      BY <1>1 DEF Repair, Titles
    <3> QED
      BY <3>1, <3>2
  <2>2. CASE \E p \in Priorities : checkRepairs([repairs EXCEPT ![i].priority = p], parts)
    <3>1. PICK p \in Priorities : checkRepairs([repairs EXCEPT ![i].priority = p], parts)
      BY <2>2
    <3>2. [repairs[i] EXCEPT !.priority = p] \in Repair
      BY <1>1, Numbers DEF Repair
    <3> QED
      BY <3>1, <3>2
  <2> QED
    BY <2>1, <2>2 DEF onGridCellRepairsChange
<1> DEFINE rs == [repairs EXCEPT ![i] = r]
<1>3. rs \in Seq(Repair)
  BY Before, ExceptFacts
<1> HIDE DEF rs
<1>4. repairs' = rs /\ Reprioritised(parts, parts')
  BY <1>2, <1>3, Before, PartsOfRepairs DEF checkRepairs, rs
<1>5. parts' \in Seq(Part) /\ (PartsSame(parts, partsFile) => PartsSame(parts', partsFile))
  BY <1>4, PartsSameFacts DEF Reprioritised
<1> QED
  BY <1>1, <1>3, <1>4, <1>5, Before, EditFacts, OthersInv

\* The text of no repair changes, and no priority but to 0.
LEMMA RepairDoneInv ==
  ASSUME IInv, NEW i \in DOMAIN repairs, setRepairDone(i)
  PROVE  IInv'
<1> DEFINE r == [repairs[i] EXCEPT !.priority = 0]
<1>1. /\ Edit /\ modified' = TRUE
      /\ repairs' = [repairs EXCEPT ![i] = r]
      /\ UNCHANGED <<services, parts, frame, modifiedR, modifiedB>>
  BY DEF setRepairDone
<1>2. r \in Repair /\ r.text = repairs[i].text /\ r.priority = 0
  <2>1. repairs[i] \in Repair
    BY Before, ListFacts
  <2> QED
    BY <2>1 DEF Repair
<1> HIDE DEF r
<1>3. /\ repairs' \in Seq(Repair) /\ DOMAIN repairs' = DOMAIN repairs
      /\ \A j \in DOMAIN repairs : repairs'[j] = IF j = i THEN r ELSE repairs[j]
  BY <1>1, <1>2, Before, ExceptFacts
<1>4. Kept(repairs') = Kept(repairs)
  <2>1. \A j \in DOMAIN repairs : repairs'[j].text = repairs[j].text
    BY <1>2, <1>3
  <2> QED
    BY <1>3, <2>1 DEF Kept
<1>5. RepairsSame(repairs, repairsFile) => RepairsSame(repairs', repairsFile)
  BY <1>2, <1>3, <1>4 DEF RepairsSame
<1> QED
  BY <1>1, <1>3, <1>5, Before, EditFacts, OthersInv

LEMMA RepairDeleteInv ==
  ASSUME IInv, NEW i \in DOMAIN repairs, RepairDelete(i)
  PROVE  IInv'
<1>1. RemoveAt(repairs, i) \in Seq(Repair)
  BY Before, RemoveFacts
<1>2. /\ Edit /\ repairs' = RemoveAt(repairs, i) /\ modifiedR' = TRUE
      /\ UNCHANGED <<services, parts, frame, modified, modifiedB>>
  BY DEF RepairDelete
<1> QED
  BY <1>1, <1>2, Before, EditFacts, OthersInv

LEMMA SortRepairsInv ==
  ASSUME IInv, SortRepairs
  PROVE  IInv'
<1>1. PICK rs \in Sorted(repairs) : checkRepairs(rs, parts)
  BY DEF SortRepairs
<1>2. /\ rs \in Seq(Repair)
      /\ \A i \in DOMAIN rs : \E j \in DOMAIN repairs : rs[i] = repairs[j]
      /\ \A j \in DOMAIN repairs : \E i \in DOMAIN rs : rs[i] = repairs[j]
  BY Before, SortedFacts
<1>3. Kept(rs) = Kept(repairs)
  BY <1>2 DEF Kept
<1>4. RepairsSame(repairs, repairsFile) => RepairsSame(rs, repairsFile)
  BY <1>2, <1>3 DEF RepairsSame
<1>5. repairs' = rs /\ Reprioritised(parts, parts')
  BY <1>1, <1>2, Before, PartsOfRepairs DEF checkRepairs
<1>6. parts' \in Seq(Part) /\ (PartsSame(parts, partsFile) => PartsSame(parts', partsFile))
  BY <1>5, PartsSameFacts DEF Reprioritised
<1>7. Edit /\ UNCHANGED <<services, frame, modified, modifiedR, modifiedB>>
  BY DEF SortRepairs, marks
<1> QED
  BY <1>2, <1>4, <1>5, <1>6, <1>7, Before, EditFacts, OthersInv

LEMMA AddPartInv ==
  ASSUME IInv, NEW part \in Part, addLineBuyParts(part),
         modifiedB' \in BOOLEAN, modifiedB => modifiedB',
         part.category # Blank \/ modifiedB'
  PROVE  IInv'
<1>1. /\ Edit /\ modified' = TRUE /\ parts' = Append(parts, part)
      /\ UNCHANGED <<services, repairs, frame, modifiedR>>
  BY DEF addLineBuyParts
<1>2. /\ parts' \in Seq(Part)
      /\ DOMAIN parts' = 1..(Len(parts) + 1) /\ DOMAIN parts = 1..Len(parts)
      /\ Len(parts) \in Nat
      /\ \A j \in DOMAIN parts : parts'[j] = parts[j]
      /\ parts'[Len(parts) + 1] = part
  BY <1>1, Before, AppendFacts, ListFacts
<1>3. Own(parts') = Own(parts) \cup {[title |-> part.title, category |-> part.category]}
  BY <1>2 DEF Own
<1>4. PartsSame(parts, partsFile) => PartsSame(parts', partsFile) \/ modifiedB'
  BY <1>3 DEF PartsSame
<1> QED
  BY <1>1, <1>2, <1>4, Before, EditFacts, OthersInv

LEMMA BuyPartsInv ==
  ASSUME IInv, \/ \E i \in DOMAIN services : buyPartsService(i)
               \/ \E i \in DOMAIN repairs : buyPartsRepair(i)
               \/ AddPart
  PROVE  IInv'
<1>1. ASSUME NEW i \in DOMAIN services, buyPartsService(i) PROVE IInv'
  <2> DEFINE part == [title |-> services[i].text, category |-> "Service",
                      priority |-> services[i].priority]
  <2>1. services[i] \in Service
    BY Before, ListFacts
  <2>2. services[i].text \in Titles /\ services[i].priority \in {0, 1, 3, 5}
    BY <2>1 DEF Service
  <2>3. part \in Part /\ part.category = "Service"
    BY <2>2 DEF Part
  <2>4. addLineBuyParts(part) /\ modifiedB' = modifiedB
    BY <1>1 DEF buyPartsService
  <2> HIDE DEF part
  <2> QED
    BY <2>3, <2>4, Before, AddPartInv DEF Blank
<1>2. ASSUME NEW i \in DOMAIN repairs, buyPartsRepair(i) PROVE IInv'
  <2> DEFINE part == [title |-> repairs[i].text, category |-> "Repairs",
                      priority |-> repairs[i].priority]
  <2>1. repairs[i] \in Repair
    BY Before, ListFacts
  <2>2. part \in Part /\ part.category = "Repairs"
    BY <2>1 DEF Part, Repair
  <2>3. addLineBuyParts(part) /\ modifiedB' = modifiedB
    BY <1>2 DEF buyPartsRepair
  <2> HIDE DEF part
  <2> QED
    BY <2>2, <2>3, Before, AddPartInv DEF Blank
<1>3. CASE AddPart
  <2> DEFINE part == [title |-> Blank, category |-> Blank, priority |-> 0]
  <2>1. part \in Part
    BY DEF Part, Titles
  <2>2. addLineBuyParts(part) /\ modifiedB' = TRUE
    BY <1>3 DEF AddPart
  <2> HIDE DEF part
  <2> QED
    BY <2>1, <2>2, AddPartInv
<1> QED
  BY <1>1, <1>2, <1>3

LEMMA PartsChangeInv ==
  ASSUME IInv, NEW j \in DOMAIN parts, onGridCellChangeBuyParts(j) \/ PartDelete(j)
  PROVE  IInv'
<1>1. /\ Edit /\ modifiedB' = TRUE
      /\ UNCHANGED <<services, repairs, frame, modified, modifiedR>>
  BY DEF onGridCellChangeBuyParts, PartDelete
<1>2. parts[j] \in Part
  BY Before, ListFacts
<1>3. parts' \in Seq(Part)
  <2>1. CASE PartDelete(j)
    BY <2>1, Before, RemoveFacts DEF PartDelete
  <2>2. ASSUME NEW t \in Texts, parts' = [parts EXCEPT ![j].title = t]
        PROVE  parts' \in Seq(Part)
    <3>1. [parts[j] EXCEPT !.title = t] \in Part
      BY <1>2 DEF Part, Titles
    <3> QED
      BY <2>2, <3>1, Before, ExceptFacts
  <2>3. ASSUME NEW p \in Priorities, parts' = [parts EXCEPT ![j].priority = p]
        PROVE  parts' \in Seq(Part)
    <3>1. [parts[j] EXCEPT !.priority = p] \in Part
      BY <1>2, Numbers DEF Part
    <3> QED
      BY <2>3, <3>1, Before, ExceptFacts
  <2> QED
    BY <2>1, <2>2, <2>3 DEF onGridCellChangeBuyParts
<1> QED
  BY <1>1, <1>3, Before, EditFacts, OthersInv

\* The lines of FindIt, and no others, are left out.
FindIts(p) == p.category = "plugin" /\ p.title = "FindIt"

LEMMA DeleteFacts ==
  ASSUME NEW ps \in Seq(Part)
  PROVE  /\ deleteFindItRow(ps) \in Seq(Part)
         /\ {deleteFindItRow(ps)[i] : i \in DOMAIN deleteFindItRow(ps)}
              = {ps[j] : j \in {j \in DOMAIN ps : ~FindIts(ps[j])}}
<1> DEFINE n == Len(ps)
           step(q, i) == IF FindIts(ps[i]) THEN q ELSE Append(q, ps[i])
           h == [x \in Seq(Part) \X (1..n) |-> step(x[1], x[2])]
           E(f) == [i \in 0..n |-> IF i = 0 THEN <<>> ELSE step(f[i - 1], i)]
           kept == CHOOSE f : f = E(f)
           Elems(q) == {q[i] : i \in DOMAIN q}
           Wanted(i) == {ps[j] : j \in {j \in 1..i : ~FindIts(ps[j])}}
<1>1. n \in Nat /\ DOMAIN ps = 1..n /\ \A i \in 1..n : ps[i] \in Part
  BY ListFacts
<1>2. <<>> \in Seq(Part) /\ DOMAIN (<<>>) = {}
  OBVIOUS
<1>3. deleteFindItRow(ps) = kept[n]
  BY DEF deleteFindItRow, FindIts
<1>4. \A q \in Seq(Part), i \in 1..n : step(q, i) \in Seq(Part)
  BY <1>1, AppendFacts
<1> HIDE DEF n
<1>5. h \in [Seq(Part) \X (1..n) -> Seq(Part)]
  BY <1>4
<1>6. \A q \in Seq(Part), i \in 1..n : h[<<q, i>>] = step(q, i)
  OBVIOUS
<1> HIDE DEF h
<1>7. PICK f : Iterates(f, h, Seq(Part), <<>>, n)
  <2>1. IsStep(h, Seq(Part), n)
    BY <1>5 DEF IsStep
  <2> QED
    BY <1>1, <1>2, <2>1, Iteration
<1>8. f = E(f)
  <2>1. ASSUME NEW i \in 0..n
        PROVE  f[i] = IF i = 0 THEN <<>> ELSE step(f[i - 1], i)
    <3>1. CASE i = 0
      BY <1>7, <3>1 DEF Iterates
    <3>2. CASE i # 0
      <4>1. i \in 1..n /\ i - 1 \in 0..n
        BY <1>1, <3>2
      <4>2. f[i - 1] \in Seq(Part) /\ f[i] = h[<<f[i - 1], i>>]
        BY <1>7, <4>1 DEF Iterates
      <4> QED
        BY <1>6, <3>2, <4>1, <4>2
    <3> QED
      BY <3>1, <3>2
  <2> HIDE DEF step
  <2> QED
    BY <1>7, <2>1 DEF Iterates
<1>9. kept = E(kept)
  BY <1>8
<1> HIDE DEF kept
<1>10. /\ kept[0] = <<>>
       /\ \A i \in 1..n : kept[i] = step(kept[i - 1], i)
  <2> HIDE DEF step
  <2> QED
    BY <1>1, <1>9
<1> DEFINE S == {i \in 0..n : kept[i] \in Seq(Part) /\ Elems(kept[i]) = Wanted(i)}
<1>11. 0 \in S
  <2>1. 0 \in 0..n /\ kept[0] \in Seq(Part) /\ DOMAIN kept[0] = {}
    BY <1>1, <1>2, <1>10
  <2>2. Elems(kept[0]) = {} /\ Wanted(0) = {}
    BY <2>1
  <2> QED
    BY <2>1, <2>2
<1>12. ASSUME NEW i \in 1..n, i - 1 \in S PROVE i \in S
  <2> DEFINE q == kept[i - 1]
  <2>1. q \in Seq(Part) /\ Elems(q) = Wanted(i - 1) /\ kept[i] = step(q, i)
    BY <1>10, <1>12
  <2> HIDE DEF q
  <2>2. 1..i = (1..(i - 1)) \cup {i} /\ ps[i] \in Part /\ i \in 0..n
    BY <1>1
  <2>3. CASE FindIts(ps[i])
    <3>1. kept[i] = q
      BY <2>1, <2>3
    <3>2. Wanted(i) = Wanted(i - 1)
      BY <2>2, <2>3
    <3> HIDE DEF Elems, Wanted
    <3> QED
      BY <2>1, <2>2, <3>1, <3>2
  <2>4. CASE ~FindIts(ps[i])
    <3>1. kept[i] = Append(q, ps[i])
      BY <2>1, <2>4
    <3>2. Wanted(i) = Wanted(i - 1) \cup {ps[i]}
      BY <2>2, <2>4
    <3>3. /\ kept[i] \in Seq(Part) /\ DOMAIN kept[i] = DOMAIN q \cup {Len(q) + 1}
          /\ \A j \in DOMAIN q : kept[i][j] = q[j]
          /\ kept[i][Len(q) + 1] = ps[i]
      BY <2>1, <2>2, <3>1, AppendFacts, ListFacts
    <3>4. Elems(kept[i]) = Elems(q) \cup {ps[i]}
      BY <3>3
    <3> HIDE DEF Elems, Wanted
    <3> QED
      BY <2>1, <2>2, <3>2, <3>3, <3>4
  <2> QED
    BY <2>3, <2>4
<1> HIDE DEF S
<1>13. \A i \in 0..n : i \in S
  BY <1>1, <1>11, <1>12, InductionTo
<1>14. n \in S
  BY <1>1, <1>13
<1> QED
  BY <1>1, <1>3, <1>14 DEF S

LEMMA RequestInv ==
  ASSUME IInv, BuyPartsRequest
  PROVE  IInv'
<1> DEFINE others == deleteFindItRow(parts)
<1>1. /\ Edit /\ modified' = TRUE
      /\ UNCHANGED <<services, repairs, frame, modifiedR, modifiedB>>
  BY DEF BuyPartsRequest
<1>2. PICK p \in Priorities :
        parts' = Append(others, [title |-> "FindIt", category |-> "plugin", priority |-> p])
  BY DEF BuyPartsRequest
<1> DEFINE new == [title |-> "FindIt", category |-> "plugin", priority |-> p]
<1>3. new \in Part /\ new.category = "plugin"
  BY Numbers DEF Part, Titles
<1>4. /\ others \in Seq(Part)
      /\ {others[i] : i \in DOMAIN others}
           = {parts[j] : j \in {j \in DOMAIN parts : ~FindIts(parts[j])}}
  BY Before, DeleteFacts
<1>5. parts' = Append(others, new)
  BY <1>2
<1> HIDE DEF others, new
<1>6. /\ parts' \in Seq(Part) /\ DOMAIN parts' = DOMAIN others \cup {Len(others) + 1}
      /\ \A i \in DOMAIN others : parts'[i] = others[i]
      /\ parts'[Len(others) + 1] = new
  BY <1>3, <1>4, <1>5, AppendFacts, ListFacts
<1>7. \A q \in Own(parts) : q.category # "plugin" => q \in Own(parts')
  <2> TAKE q \in Own(parts)
  <2> HAVE q.category # "plugin"
  <2>1. PICK j \in DOMAIN parts :
          q = [title |-> parts[j].title, category |-> parts[j].category]
    BY DEF Own
  <2>2. ~FindIts(parts[j])
    BY <2>1 DEF FindIts
  <2>3. PICK i \in DOMAIN others : others[i] = parts[j]
    BY <1>4, <2>2
  <2> QED
    BY <1>6, <2>1, <2>3 DEF Own
<1>8. \A q \in Own(parts') : q.category # "plugin" => q \in Own(parts)
  <2> TAKE q \in Own(parts')
  <2> HAVE q.category # "plugin"
  <2>1. PICK i \in DOMAIN parts' :
          q = [title |-> parts'[i].title, category |-> parts'[i].category]
    BY DEF Own
  <2>2. i \in DOMAIN others /\ parts'[i] = others[i]
    BY <1>3, <1>6, <2>1
  <2>3. PICK j \in DOMAIN parts : others[i] = parts[j]
    BY <1>4, <2>2
  <2> QED
    BY <2>1, <2>2, <2>3 DEF Own
<1>9. PartsSame(parts, partsFile) => PartsSame(parts', partsFile)
  BY <1>7, <1>8 DEF PartsSame, Blank
<1> QED
  BY <1>1, <1>6, <1>9, Before, EditFacts, OthersInv

\* A check that marks nothing and edits nothing, or no check at all
LEMMA QuietInv ==
  ASSUME IInv, UNCHANGED <<repairs, files, marks, open, edits>>,
         last' \in Readings, day' \in 0..MaxDay,
         maintenance_timer' \in 0..(Hour - 1),
         \/ UNCHANGED <<services, parts, frame>>
         \/ \E line : checkService(services, parts, line)
  PROVE  IInv'
<1>1. /\ repairs' = repairs /\ modified' = modified /\ modifiedR' = modifiedR
      /\ modifiedB' = modifiedB /\ open' = open /\ edits' = edits
  BY DEF marks
<1>2. CASE UNCHANGED <<services, parts, frame>>
  BY <1>1, <1>2, Before, OthersInv
<1>3. CASE \E line : checkService(services, parts, line)
  BY <1>1, <1>3, Before, SameParts, CheckInv
<1> QED
  BY <1>2, <1>3

LEMMA LogbookInv ==
  ASSUME IInv, \/ appendRow \/ EditLastLine \/ EditDistance \/ EditPosition
               \/ EditEarlierLine \/ deleteRows \/ NextDay
  PROVE  IInv'
<1>1. /\ UNCHANGED <<repairs, files, marks, open, edits>>
      /\ last' \in Readings /\ maintenance_timer' = maintenance_timer
      /\ day' = day \/ (day < MaxDay /\ day' = day + 1)
      /\ \/ UNCHANGED <<services, parts, frame>>
         \/ \E line : checkService(services, parts, line)
  BY Before DEF appendRow, EditLastLine, EditDistance, EditPosition, EditEarlierLine,
                deleteRows, Booked, NextDay, lists
<1>2. day' \in 0..MaxDay /\ maintenance_timer' \in 0..(Hour - 1)
  BY <1>1, Before, Numbers
<1> QED
  BY <1>1, <1>2, QuietInv

LEMMA TimerInv ==
  ASSUME IInv, OnLogTimer
  PROVE  IInv'
<1>1. /\ UNCHANGED <<repairs, files, marks, last, day, open, edits>>
      /\ maintenance_timer' = (maintenance_timer + 1) % Hour
      /\ \/ UNCHANGED <<services, parts, frame>>
         \/ \E line : checkService(services, parts, line)
  BY DEF OnLogTimer
<1>2. maintenance_timer' \in 0..(Hour - 1)
  BY <1>1, Before, Numbers
<1> QED
  BY <1>1, <1>2, Before, QuietInv
-----------------------------------------------------------------------------
(* Files.                                                                  *)

\* The repairs after loadData
Loaded(rs, old) ==
  LET blanks == [i \in DOMAIN rs |-> [text |-> Blank, priority |-> 0]]
  IN [i \in 1..(Len(old) + Len(rs)) |-> IF i <= Len(rs) THEN rs[i] ELSE (old \o blanks)[i]]

LEMMA LoadedFacts ==
  ASSUME NEW rs \in Seq(Repair), NEW old \in Seq(Repair)
  PROVE  /\ Loaded(rs, old) \in Seq(Repair)
         /\ RepairsSame(old, rs) \/ old = <<>> => RepairsSame(Loaded(rs, old), rs)
<1> DEFINE blank == [text |-> Blank, priority |-> 0]
           blanks == [i \in DOMAIN rs |-> blank]
           m == Len(rs)
           n == Len(old)
           all == old \o blanks
           new == Loaded(rs, old)
<1>1. blank \in Repair /\ blank.text = Blank /\ blank.priority = 0
  BY DEF Repair, Titles
<1>2. /\ m \in Nat /\ DOMAIN rs = 1..m /\ \A i \in 1..m : rs[i] \in Repair
      /\ n \in Nat /\ DOMAIN old = 1..n /\ \A i \in 1..n : old[i] \in Repair
  BY ListFacts
<1>3. blanks \in Seq(Repair) /\ Len(blanks) = m /\ \A i \in 1..m : blanks[i] = blank
  <2> HIDE DEF blank
  <2>1. blanks \in [1..m -> Repair]
    BY <1>1, <1>2
  <2> QED
    BY <1>2, <2>1, FcnIsSeq
<1>4. new = [i \in 1..(n + m) |-> IF i <= m THEN rs[i] ELSE all[i]]
  BY DEF Loaded
<1> HIDE DEF blank, blanks, m, n, new
<1>5. \A i \in 1..(n + m) : all[i] = IF i <= n THEN old[i] ELSE blanks[i - n]
  BY <1>3, ConcatProperties DEF n, m
<1> HIDE DEF all
<1>6. \A i \in 1..(n + m) :
        \/ i \in DOMAIN rs /\ new[i] = rs[i]
        \/ i \in DOMAIN old /\ new[i] = old[i]
        \/ new[i] = blank
  <2> TAKE i \in 1..(n + m)
  <2>1. new[i] = IF i <= m THEN rs[i] ELSE all[i]
    BY <1>4
  <2>2. CASE i <= m
    BY <1>2, <2>1, <2>2
  <2>3. CASE ~(i <= m) /\ i <= n
    BY <1>2, <1>5, <2>1, <2>3
  <2>4. CASE ~(i <= m) /\ ~(i <= n)
    <3>1. i - n \in 1..m
      BY <1>2, <2>4
    <3> QED
      BY <1>2, <1>3, <1>5, <2>1, <2>4, <3>1
  <2> QED
    BY <2>2, <2>3, <2>4
<1>7. DOMAIN new = 1..(n + m) /\ \A i \in DOMAIN rs : i \in DOMAIN new /\ new[i] = rs[i]
  BY <1>2, <1>4
<1>8. new \in Seq(Repair)
  <2>1. \A i \in 1..(n + m) : new[i] \in Repair
    BY <1>1, <1>2, <1>6
  <2>2. new \in [1..(n + m) -> Repair]
    BY <1>4, <2>1
  <2>3. n + m \in Nat
    BY <1>2
  <2> QED
    BY <2>2, <2>3, FcnIsSeq
<1>9. ASSUME RepairsSame(old, rs) \/ old = <<>> PROVE RepairsSame(new, rs)
  <2>1. \A i \in DOMAIN old : /\ old[i].text = Blank \/ old[i].text \in Kept(rs)
                              /\ old[i].priority # 0 => \E k \in DOMAIN rs : rs[k] = old[i]
    <3>1. CASE RepairsSame(old, rs)
      BY <3>1 DEF RepairsSame, Kept
    <3>2. CASE old = <<>>
      BY <3>2
    <3> QED
      BY <1>9, <3>1, <3>2
  <2>2. Kept(rs) \subseteq Kept(new)
    BY <1>7 DEF Kept
  <2>3. ASSUME NEW i \in DOMAIN new
        PROVE  /\ new[i].text = Blank \/ new[i].text \in Kept(rs)
               /\ new[i].priority # 0 => \E k \in DOMAIN rs : rs[k] = new[i]
    BY <1>1, <1>6, <1>7, <2>1 DEF Kept
  <2>4. Kept(new) \subseteq Kept(rs)
    BY <2>3 DEF Kept
  <2> QED
    BY <2>2, <2>3, <2>4 DEF RepairsSame
<1> QED
  BY <1>8, <1>9 DEF new

LEMMA LoadFacts ==
  ASSUME NEW ss \in Seq(Service), NEW rs \in Seq(Repair), NEW ps \in Seq(Part),
         NEW old \in Seq(Repair), loadData(ss, rs, ps, old)
  PROVE  /\ services' \in Seq(Service) /\ ServicesSame(services', ss)
         /\ repairs' = Loaded(rs, old)
         /\ parts' \in Seq(Part) /\ PartsSame(parts', ps)
         /\ frame' \in 0..2 /\ FrameShows(services', frame')
         /\ modified' = FALSE
<1> DEFINE blank == [text |-> Blank, priority |-> 0]
           blanks == [i \in DOMAIN rs |-> blank]
           first == IF rs = <<>> THEN ps
                    ELSE setBuyPartsPriority(ps, Append(old, blanks[1]))
           second == setBuyPartsPriority(first, Rated(ss, last))
           third == setBuyPartsPriority(second, Loaded(rs, old))
<1>1. /\ services' = Rated(ss, last) /\ frame' = border(ss, last)
      /\ repairs' = Loaded(rs, old) /\ parts' = third
      /\ modified' = FALSE
  BY DEF loadData, checkRepairs, Loaded
<1>2. first \in Seq(Part) /\ Reprioritised(ps, first)
  <2>1. CASE rs = <<>>
    BY <2>1, SameParts
  <2>2. CASE rs # <<>>
    <3>1. 1 \in DOMAIN rs
      BY <2>2, EmptySeq, ListFacts
    <3>2. blanks[1] = blank /\ blank \in Repair
      BY <3>1 DEF Repair, Titles
    <3> HIDE DEF blank, blanks
    <3>3. Append(old, blanks[1]) \in Seq(Repair)
      BY <3>2, AppendFacts
    <3>4. Reprioritised(ps, setBuyPartsPriority(ps, Append(old, blanks[1])))
      BY <3>3, PartsOfRepairs
    <3> QED
      BY <2>2, <3>4 DEF Reprioritised
  <2> QED
    BY <2>1, <2>2
<1>3. Rated(ss, last) \in Seq(Service) /\ Keys(Rated(ss, last)) = Keys(ss)
  BY RatedFacts, RatedKeys
<1>4. Loaded(rs, old) \in Seq(Repair)
  BY LoadedFacts
<1> HIDE DEF first
<1>5. second \in Seq(Part) /\ Reprioritised(first, second)
  BY <1>2, <1>3, PartsOfServices DEF Reprioritised
<1> HIDE DEF second
<1>6. third \in Seq(Part) /\ Reprioritised(second, third)
  BY <1>4, <1>5, PartsOfRepairs DEF Reprioritised
<1> HIDE DEF third
<1>7. Reprioritised(ps, third)
  BY <1>2, <1>5, <1>6, ReprioritisedAgain
<1>8. FrameShows(Rated(ss, last), border(ss, last)) /\ border(ss, last) \in 0..2
  BY FrameFacts
<1> QED
  BY <1>1, <1>3, <1>6, <1>7, <1>8, PartsSameFacts DEF ServicesSame

\* Repairs that were not marked are read again in the same state.
LEMMA PreferencesInv ==
  ASSUME IInv, Preferences
  PROVE  IInv'
<1>1. /\ open /\ edits < MaxEdits /\ edits' = edits + 1
      /\ servicesFile' = IF modified THEN services ELSE servicesFile
      /\ partsFile' = IF modifiedB THEN parts ELSE partsFile
      /\ repairsFile' = repairsFile /\ modifiedR' = modifiedR
      /\ modifiedB' = modifiedB /\ last' = last /\ day' = day
      /\ maintenance_timer' = maintenance_timer /\ open' = open
  BY DEF Preferences, update, updateBuyParts
<1>2. loadData(servicesFile', repairsFile, partsFile', repairs)
  BY DEF Preferences
<1>3. servicesFile' \in Seq(Service) /\ partsFile' \in Seq(Part)
  BY <1>1, Before
<1>4. /\ services' \in Seq(Service) /\ ServicesSame(services', servicesFile')
      /\ repairs' = Loaded(repairsFile, repairs)
      /\ parts' \in Seq(Part) /\ PartsSame(parts', partsFile')
      /\ frame' \in 0..2 /\ FrameShows(services', frame')
      /\ modified' = FALSE
  BY <1>2, <1>3, Before, LoadFacts
<1>5. ~modifiedR => RepairsSame(repairs, repairsFile)
  BY <1>1 DEF IInv, Marked
<1>6. /\ repairs' \in Seq(Repair)
      /\ ~modifiedR' => RepairsSame(repairs', repairsFile')
  BY <1>1, <1>4, <1>5, Before, LoadedFacts
<1>7. Marked'
  BY <1>4, <1>6 DEF Marked
<1>8. edits' \in 0..MaxEdits
  BY <1>1, Before, Numbers
<1> QED
  BY <1>1, <1>3, <1>4, <1>6, <1>7, <1>8, Before, After

LEMMA OpenInv ==
  ASSUME IInv, Open
  PROVE  IInv'
<1>1. /\ open' = TRUE /\ UNCHANGED <<files, modifiedR, modifiedB, last, day,
                                     maintenance_timer, edits>>
      /\ loadData(servicesFile, repairsFile, partsFile, <<>>)
  BY DEF Open
<1>2. <<>> \in Seq(Repair)
  OBVIOUS
<1>3. /\ services' \in Seq(Service) /\ ServicesSame(services', servicesFile)
      /\ repairs' = Loaded(repairsFile, <<>>)
      /\ parts' \in Seq(Part) /\ PartsSame(parts', partsFile)
      /\ frame' \in 0..2 /\ FrameShows(services', frame')
      /\ modified' = FALSE
  BY <1>1, <1>2, Before, LoadFacts
<1>4. repairs' \in Seq(Repair) /\ RepairsSame(repairs', repairsFile)
  BY <1>2, <1>3, Before, LoadedFacts
<1>5. /\ servicesFile' = servicesFile /\ repairsFile' = repairsFile
      /\ partsFile' = partsFile
  BY <1>1 DEF files
<1>6. Marked'
  BY <1>3, <1>4, <1>5 DEF Marked
<1> QED
  BY <1>1, <1>3, <1>4, <1>5, <1>6, Before, After

\* A window that is gone shows nothing and holds nothing.
LEMMA GoneInv ==
  ASSUME IInv, Close \/ Crash
  PROVE  IInv'
<1>1. /\ open' = FALSE /\ services' = <<>> /\ repairs' = <<>> /\ parts' = <<>>
      /\ modified' = FALSE /\ modifiedR' = FALSE /\ modifiedB' = FALSE
      /\ frame' = 0
  BY DEF Close, Crash, Gone
<1>2. /\ servicesFile' \in {services, servicesFile}
      /\ repairsFile' \in {repairs, repairsFile}
      /\ partsFile' \in {parts, partsFile}
      /\ last' = last /\ day' = day /\ edits' = edits
      /\ maintenance_timer' \in {0, maintenance_timer}
  BY DEF Close, Crash, update, updateRepairs, updateBuyParts, files
<1>3. maintenance_timer' \in 0..(Hour - 1)
  BY <1>2, Before, Numbers
<1>4. services' \in Seq(Service) /\ repairs' \in Seq(Repair) /\ parts' \in Seq(Part)
  BY <1>1
<1>5. FrameShows(services', frame') /\ frame' \in 0..2
  <2>1. DOMAIN services' = {}
    BY <1>1
  <2> QED
    BY <1>1, <2>1 DEF FrameShows
<1>6. Marked'
  BY <1>1 DEF Marked
<1> QED
  BY <1>1, <1>2, <1>3, <1>4, <1>5, <1>6, Before, After
-----------------------------------------------------------------------------
(* The theorems.                                                           *)

LEMMA InitInv == Init => IInv
<1> SUFFICES ASSUME Init PROVE IInv
  OBVIOUS
<1>1. PICK f \in Stored : /\ servicesFile = f.services
                          /\ repairsFile = f.repairs
                          /\ partsFile = f.parts
  BY DEF Init
<1>2. /\ services = <<>> /\ repairs = <<>> /\ parts = <<>>
      /\ modified = FALSE /\ modifiedR = FALSE /\ modifiedB = FALSE
      /\ frame = 0 /\ last \in Readings /\ day = 0
      /\ maintenance_timer = 0 /\ open = FALSE /\ edits = 0
  BY DEF Init
<1>3. /\ servicesFile \in Seq(Service) /\ repairsFile \in Seq(Repair)
      /\ partsFile \in Seq(Part)
  <2>1. f \in [services: Seq(Service), repairs: Seq(Repair), parts: Seq(Part)]
    BY TypesAssumption
  <2> QED
    BY <1>1, <2>1
<1>4. services \in Seq(Service) /\ repairs \in Seq(Repair) /\ parts \in Seq(Part)
  BY <1>2
<1>5. day \in 0..MaxDay /\ maintenance_timer \in 0..(Hour - 1) /\ edits \in 0..MaxEdits
  BY <1>2, Numbers
<1>6. TypeOK
  <2>1. {modified, modifiedR, modifiedB, open} \subseteq BOOLEAN
    BY <1>2
  <2>2. frame \in 0..2
    BY <1>2
  <2> QED
    BY <1>2, <1>3, <1>4, <1>5, <2>1, <2>2 DEF TypeOK
<1>7. FrameShows(services, frame)
  <2>1. DOMAIN services = {}
    BY <1>2
  <2> QED
    BY <1>2, <2>1 DEF FrameShows
<1> QED
  BY <1>2, <1>6, <1>7 DEF IInv, Marked

LEMMA StutterInv ==
  ASSUME IInv, UNCHANGED vars
  PROVE  IInv'
BY DEF IInv, TypeOK, FrameShows, Marked, vars, lists, files, marks

LEMMA NextInv == IInv /\ [Next]_vars => IInv'
<1> SUFFICES ASSUME IInv, [Next]_vars PROVE IInv'
  OBVIOUS
<1>1. CASE \/ addLine \/ SortServices \/ addLineRepairs \/ SortRepairs
           \/ AddPart \/ BuyPartsRequest
  BY <1>1, AddLineInv, SortServicesInv, AddRepairInv, SortRepairsInv, BuyPartsInv, RequestInv
<1>2. ASSUME NEW i \in DOMAIN services,
             \/ EditIf(i) \/ EditWarn(i) \/ EditUrgent(i) \/ EditActive(i) \/ EditText(i)
             \/ PickDate(i) \/ ServiceDone(i) \/ ServiceDelete(i) \/ buyPartsService(i)
      PROVE  IInv'
  BY <1>2, EditCellInv, EditTextInv, PickDateInv, ServiceDoneInv, ServiceDeleteInv, BuyPartsInv
<1>3. ASSUME NEW i \in DOMAIN repairs,
             \/ onGridCellRepairsChange(i) \/ setRepairDone(i) \/ RepairDelete(i)
             \/ buyPartsRepair(i)
      PROVE  IInv'
  BY <1>3, RepairsChangeInv, RepairDoneInv, RepairDeleteInv, BuyPartsInv
<1>4. ASSUME NEW j \in DOMAIN parts, onGridCellChangeBuyParts(j) \/ PartDelete(j)
      PROVE  IInv'
  BY <1>4, PartsChangeInv
<1>5. CASE \/ appendRow \/ EditLastLine \/ EditDistance \/ EditPosition
           \/ EditEarlierLine \/ deleteRows \/ NextDay \/ OnLogTimer
  BY <1>5, LogbookInv, TimerInv
<1>6. CASE Preferences \/ Close \/ Crash \/ Open
  BY <1>6, PreferencesInv, GoneInv, OpenInv
<1>7. CASE UNCHANGED vars
  BY <1>7, StutterInv
<1> QED
  BY <1>1, <1>2, <1>3, <1>4, <1>5, <1>6, <1>7 DEF Next

\* In every state the lists have their types, the frame agrees with the rows,
\* and a list that is not marked holds what its file holds.
THEOREM Invariance == Spec => []IInv
<1> QED
  BY InitInv, NextInv, PTL DEF Spec

\* The lists hold rows of their kind, and the counters keep to their bounds.
THEOREM Typing == Spec => []TypeOK
<1>1. IInv => TypeOK
  BY DEF IInv
<1> QED
  BY <1>1, Invariance, PTL

\* The frame of the window has the colour of the worst row of the list
\* Service, for every list, line of the logbook and sequence of edits.
THEOREM FrameTruthful == Spec => []FrameShowsRows
<1>1. IInv => FrameShowsRows
  BY DEF IInv, FrameShows, FrameShowsRows
<1> QED
  BY <1>1, Invariance, PTL

\* Closing the window loses no edit but the ones EditsAreMarked names: a list
\* that is not marked holds what its file holds.
THEOREM Unsaved == Spec => []EditsAreMarked
<1>1. IInv => EditsAreMarked
  BY MarkedIsEditsAreMarked DEF IInv
<1> QED
  BY <1>1, Invariance, PTL

LEMMA DoneLevel ==
  ASSUME IInv, NEW s \in Service, s.kind # "bank", s.warn > 0, s.urgent > 0
  PROVE  setRowDone(s) \in Service /\ Level(setRowDone(s), last) = 0
<1>1. /\ last.total \in Nat /\ day \in Nat
      /\ s.warn \in Nat /\ s.urgent \in Nat
      /\ s.kind \in {"total", "status", "date", "days"}
  <2>1. s.kind \in Kinds /\ s.warn \in Nat /\ s.urgent \in Nat
    BY DEF Service
  <2>2. s.kind \in {"total", "status", "date", "days"}
    BY <2>1, Numbers
  <2>3. last.total \in Nat /\ day \in Nat
    BY Before, Numbers
  <2> QED
    BY <2>1, <2>2, <2>3
<1>2. CASE s.kind = "total"
  <2> DEFINE r == [s EXCEPT !.start = last.total]
  <2>1. setRowDone(s) = r
    BY <1>2 DEF setRowDone
  <2>2. /\ r \in Service /\ r.kind = "total" /\ r.start = last.total
        /\ r.warn = s.warn /\ r.urgent = s.urgent
    BY <1>1, <1>2 DEF Service
  <2> HIDE DEF r
  <2>3. ~Reached(r, r.warn, last) /\ ~Reached(r, r.urgent, last)
    BY <1>1, <2>2 DEF Reached
  <2> QED
    BY <2>1, <2>2, <2>3 DEF Level
<1>3. CASE s.kind = "days"
  <2> DEFINE r == [s EXCEPT !.start = day]
  <2>1. setRowDone(s) = r
    BY <1>3 DEF setRowDone
  <2>2. /\ r \in Service /\ r.kind = "days" /\ r.start = day
        /\ r.warn = s.warn /\ r.urgent = s.urgent
    BY <1>1, <1>3 DEF Service
  <2> HIDE DEF r
  <2>3. ~Reached(r, r.warn, last) /\ ~Reached(r, r.urgent, last)
    BY <1>1, <2>2 DEF Reached
  <2> QED
    BY <2>1, <2>2, <2>3 DEF Level
<1>4. CASE s.kind \in {"status", "date"}
  <2>1. setRowDone(s) \in Service /\ ~setRowDone(s).active
    BY <1>1, <1>4 DEF setRowDone, Service
  <2> QED
    BY <2>1, LevelFacts
<1> QED
  BY <1>1, <1>2, <1>3, <1>4

\* "Service done" leaves no row red or yellow but that of a bank, whatever line
\* of the logbook had made it so, as long as its limits are above zero.
THEOREM DoneIsDone == Spec => DoneTurnsGreen
<1> DEFINE Green(i) ==
      ServiceDone(i) /\ services[i].kind # "bank" /\ services[i].warn > 0 /\ services[i].urgent > 0
        => services'[i].priority \in {0, 5}
<1>1. ASSUME IInv, NEW i \in DOMAIN services PROVE Green(i)
  <2> SUFFICES ASSUME ServiceDone(i), services[i].kind # "bank",
                      services[i].warn > 0, services[i].urgent > 0
               PROVE  services'[i].priority \in {0, 5}
    OBVIOUS
  <2> DEFINE r == setRowDone(services[i])
             ss == [services EXCEPT ![i] = r]
  <2>1. services[i] \in Service
    BY <1>1, Before, ListFacts
  <2>2. r \in Service /\ Level(r, last) = 0
    BY <1>1, <2>1, DoneLevel
  <2>3. services' = Rated(ss, last)
    BY DEF ServiceDone, checkService
  <2> HIDE DEF r
  <2>4. ss \in Seq(Service) /\ i \in DOMAIN ss /\ ss[i] = r
    BY <1>1, <2>2, Before, ExceptFacts
  <2> HIDE DEF ss
  <2> QED
    BY <2>2, <2>3, <2>4, RatedFacts
<1>2. IInv => [\A i \in DOMAIN services : Green(i)]_vars
  BY <1>1
<1> QED
  BY <1>2, Invariance, PTL DEF DoneTurnsGreen
-----------------------------------------------------------------------------
(* The frame and the last line of the logbook.                              *)

\* Reached, Level and Current with the date d as a parameter
ReachedOn(s, v, line, d) ==
  CASE s.kind = "total"  -> line.total >= s.start + v
    [] s.kind = "bank"   -> line.bank <= v
    [] s.kind = "status" -> line.status = v
    [] s.kind = "date"   -> d >= v
    [] s.kind = "days"   -> d >= s.start + v
LevelOn(s, line, d) ==
  IF ~s.active THEN 0
  ELSE IF ReachedOn(s, s.urgent, line, d) THEN 2
  ELSE IF s.kind # "status" /\ ReachedOn(s, s.warn, line, d) THEN 1 ELSE 0
CurrentOn(ss, line, b, d) ==
  /\ \A i \in DOMAIN ss : LevelOn(ss[i], line, d) <= b
  /\ b = 0 \/ \E i \in DOMAIN ss : LevelOn(ss[i], line, d) = b

LEMMA LevelIs ==
  ASSUME NEW s, NEW line
  PROVE  Level(s, line) = LevelOn(s, line, day)
BY DEF Level, LevelOn, Reached, ReachedOn

LEMMA CurrentIs ==
  /\ Current <=> CurrentOn(services, last, frame, day)
  /\ Current' <=> CurrentOn(services', last', frame', day')
BY DEF Current, CurrentOn, Level, LevelOn, Reached, ReachedOn

\* Rows that differ in text and priority only have the same levels.
LEMMA SameLevels ==
  ASSUME NEW ss, NEW rs, NEW line, NEW b, NEW d, DOMAIN rs = DOMAIN ss,
         \A i \in DOMAIN ss :
           /\ rs[i].kind = ss[i].kind /\ rs[i].warn = ss[i].warn
           /\ rs[i].urgent = ss[i].urgent /\ rs[i].start = ss[i].start
           /\ rs[i].active = ss[i].active,
         CurrentOn(ss, line, b, d)
  PROVE  CurrentOn(rs, line, b, d)
<1>1. \A i \in DOMAIN ss : LevelOn(rs[i], line, d) = LevelOn(ss[i], line, d)
  BY DEF LevelOn, ReachedOn
<1> QED
  BY <1>1 DEF CurrentOn

\* A check by the last line brings the frame up to date.
LEMMA RatedCurrent ==
  ASSUME NEW ss \in Seq(Service), day' = day,
         services' = Rated(ss, last'), frame' = border(ss, last')
  PROVE  Current'
<1>1. CurrentOn(ss, last', frame', day)
  <2>1. \A i \in DOMAIN ss : Level(ss[i], last') = LevelOn(ss[i], last', day)
    BY LevelIs
  <2> QED
    BY <2>1, BorderFacts DEF CurrentOn
<1>2. /\ DOMAIN Rated(ss, last') = DOMAIN ss
      /\ \A i \in DOMAIN ss : Rates(ss[i], Rated(ss, last')[i])
  BY RatedFacts
<1>3. CurrentOn(Rated(ss, last'), last', frame', day)
  BY <1>1, <1>2, SameLevels DEF Rates
<1> QED
  BY <1>3, CurrentIs

LEMMA CheckCurrent ==
  ASSUME NEW ss \in Seq(Service), NEW ps, day' = day, checkService(ss, ps, last')
  PROVE  Current'
BY RatedCurrent DEF checkService

LEMMA SameCurrent ==
  ASSUME Current, UNCHANGED <<services, frame, last, day>>
  PROVE  Current'
BY CurrentIs

\* An edit of the list Service
LEMMA ServiceCurrent ==
  ASSUME IInv, Current, last' = last, day' = day, NEW i \in DOMAIN services,
         \/ EditIf(i) \/ EditWarn(i) \/ EditUrgent(i) \/ EditActive(i) \/ EditText(i)
         \/ PickDate(i) \/ ServiceDone(i) \/ ServiceDelete(i) \/ buyPartsService(i)
  PROVE  Current'
<1>1. services \in Seq(Service) /\ services[i] \in Service
  BY Before, ListFacts
<1>2. ASSUME NEW s \in Service, NEW ps, checkService([services EXCEPT ![i] = s], ps, last)
      PROVE  Current'
  <2>1. [services EXCEPT ![i] = s] \in Seq(Service)
    BY <1>1, ExceptFacts
  <2> QED
    BY <1>2, <2>1, CheckCurrent
<1>3. CASE EditIf(i)
  <2>1. PICK k \in Kinds : ChangeService(i, chosen(services[i], k))
    BY <1>3 DEF EditIf
  <2>2. chosen(services[i], k) \in Service
    BY <1>1, ChosenFacts
  <2> QED
    BY <1>2, <2>1, <2>2 DEF ChangeService
<1>4. CASE EditWarn(i)
  <2>1. PICK v \in Limits : ChangeService(i, [services[i] EXCEPT !.warn = v, !.urgent = v])
    BY <1>4 DEF EditWarn
  <2>2. [services[i] EXCEPT !.warn = v, !.urgent = v] \in Service
    BY <1>1, Numbers, FieldFacts
  <2> QED
    BY <1>2, <2>1, <2>2 DEF ChangeService
<1>5. CASE EditUrgent(i)
  <2>1. PICK v \in Limits : ChangeService(i, [services[i] EXCEPT !.urgent = v])
    BY <1>5 DEF EditUrgent
  <2>2. [services[i] EXCEPT !.urgent = v] \in Service
    BY <1>1, Numbers, FieldFacts
  <2> QED
    BY <1>2, <2>1, <2>2 DEF ChangeService
<1>6. CASE EditActive(i)
  <2>1. [services[i] EXCEPT !.active = ~@] \in Service
    BY <1>1, FieldFacts
  <2> QED
    BY <1>2, <1>6, <2>1 DEF EditActive, ChangeService
<1>7. CASE EditText(i)
  <2>1. PICK t \in Texts : services' = [services EXCEPT ![i].text = t]
    BY <1>7 DEF EditText
  <2>2. /\ DOMAIN services' = DOMAIN services
        /\ \A j \in DOMAIN services :
             services'[j] = IF j = i THEN [services[i] EXCEPT !.text = t] ELSE services[j]
    BY <1>1, <2>1, ListFacts
  <2>3. \A j \in DOMAIN services :
           /\ services'[j].kind = services[j].kind /\ services'[j].warn = services[j].warn
           /\ services'[j].urgent = services[j].urgent
           /\ services'[j].start = services[j].start
           /\ services'[j].active = services[j].active
    BY <1>1, <2>2 DEF Service
  <2>4. frame' = frame
    BY <1>7 DEF EditText
  <2>5. CurrentOn(services', last, frame, day)
    BY <2>2, <2>3, CurrentIs, SameLevels
  <2> QED
    BY <2>4, <2>5, CurrentIs
<1>8. CASE PickDate(i)
  <2>1. PICK v \in 0..(MaxDay + 1) :
          \/ checkService([services EXCEPT ![i].warn = v, ![i].urgent = v], parts, last)
          \/ checkService([services EXCEPT ![i].urgent = v], parts, last)
    BY <1>8 DEF PickDate
  <2>2. v \in Nat
    BY Numbers
  <2>3. /\ [services EXCEPT ![i].warn = v, ![i].urgent = v] =
              [services EXCEPT ![i] = [services[i] EXCEPT !.warn = v, !.urgent = v]]
        /\ [services EXCEPT ![i].urgent = v] =
              [services EXCEPT ![i] = [services[i] EXCEPT !.urgent = v]]
    BY <1>1, ListFacts
  <2>4. /\ [services[i] EXCEPT !.warn = v, !.urgent = v] \in Service
        /\ [services[i] EXCEPT !.urgent = v] \in Service
    BY <1>1, <2>2, FieldFacts
  <2> QED
    BY <1>2, <2>1, <2>3, <2>4
<1>9. CASE ServiceDone(i)
  <2>1. setRowDone(services[i]) \in Service
    BY <1>1, DoneFacts
  <2>2. checkService([services EXCEPT ![i] = setRowDone(services[i])], parts, last)
    BY <1>9 DEF ServiceDone
  <2> QED
    BY <1>2, <2>1, <2>2
<1>10. CASE ServiceDelete(i)
  <2> DEFINE s == [services[i] EXCEPT !.active = FALSE]
             off == Rated([services EXCEPT ![i] = s], last)
  <2>1. checkService(RemoveAt(off, i), setBuyPartsPriority(parts, off), last)
    BY <1>10 DEF ServiceDelete
  <2>2. s \in Service
    BY <1>1, FieldFacts
  <2> HIDE DEF s
  <2>3. /\ [services EXCEPT ![i] = s] \in Seq(Service)
        /\ i \in DOMAIN [services EXCEPT ![i] = s]
    BY <1>1, <2>2, ExceptFacts
  <2>4. off \in Seq(Service) /\ i \in DOMAIN off
    BY <2>3, RatedFacts
  <2> HIDE DEF off
  <2>5. RemoveAt(off, i) \in Seq(Service)
    BY <2>4, RemoveFacts
  <2> QED
    BY <2>1, <2>5, CheckCurrent
<1>11. CASE buyPartsService(i)
  BY <1>11, SameCurrent DEF buyPartsService, addLineBuyParts
<1> QED
  BY <1>3, <1>4, <1>5, <1>6, <1>7, <1>8, <1>9, <1>10, <1>11

\* A new service is rated before it is made active, and is not due.
LEMMA AddLineCurrent ==
  ASSUME IInv, last' = last, day' = day, addLine
  PROVE  Current'
<1> DEFINE new == [text |-> Blank, kind |-> "total", warn |-> 1, urgent |-> 1,
                   start |-> last.total, active |-> FALSE, priority |-> 5]
           ss == Append(services, new)
           rated == Rated(ss, last)
           n == Len(rated)
<1>1. /\ services' = [rated EXCEPT ![n].active = TRUE]
      /\ frame' = border(ss, last)
  BY DEF addLine, chosen
<1>2. new \in Service /\ last.total \in Nat
  <2>1. last.total \in Nat
    BY Before, Numbers
  <2> QED
    BY <2>1, Numbers DEF Service, Titles
<1>3. /\ new.kind = "total" /\ new.warn = 1 /\ new.urgent = 1
      /\ new.start = last.total /\ ~new.active
  OBVIOUS
<1> HIDE DEF new
<1>4. /\ ss \in Seq(Service) /\ Len(services) \in Nat
      /\ DOMAIN ss = 1..(Len(services) + 1)
      /\ ss[Len(services) + 1] = new
  BY <1>2, Before, AppendFacts, ListFacts
<1> HIDE DEF ss
<1>5. /\ rated \in Seq(Service) /\ DOMAIN rated = DOMAIN ss
      /\ \A i \in DOMAIN ss : Rates(ss[i], rated[i])
  BY <1>4, RatedFacts
<1> HIDE DEF rated
<1>6. n = Len(services) + 1 /\ n \in DOMAIN ss
  BY <1>4, <1>5, ListFacts
<1> HIDE DEF n
<1>7. /\ DOMAIN services' = DOMAIN ss
      /\ \A i \in DOMAIN ss :
           services'[i] = IF i = n THEN [rated[n] EXCEPT !.active = TRUE] ELSE rated[i]
  BY <1>1, <1>5, <1>6
<1>8. \A i \in DOMAIN ss : LevelOn(services'[i], last, day) = LevelOn(ss[i], last, day)
  <2>1. ASSUME NEW i \in DOMAIN ss, i # n
        PROVE  LevelOn(services'[i], last, day) = LevelOn(ss[i], last, day)
    <3>1. services'[i] = rated[i] /\ Rates(ss[i], rated[i])
      BY <1>5, <1>7, <2>1
    <3>2. /\ rated[i].kind = ss[i].kind /\ rated[i].warn = ss[i].warn
          /\ rated[i].urgent = ss[i].urgent /\ rated[i].start = ss[i].start
          /\ rated[i].active = ss[i].active
      BY <3>1 DEF Rates
    <3> QED
      BY <3>1, <3>2 DEF LevelOn, ReachedOn
  <2>2. LevelOn(ss[n], last, day) = 0
    BY <1>3, <1>4, <1>6 DEF LevelOn
  <2> DEFINE r == services'[n]
  <2>3. r.kind = "total" /\ r.warn = 1 /\ r.urgent = 1 /\ r.start = last.total
    <3>1. Rates(new, rated[n]) /\ rated[n] \in Service
      BY <1>4, <1>5, <1>6, ListFacts
    <3> QED
      BY <1>3, <1>6, <1>7, <3>1 DEF Rates, Service
  <2> HIDE DEF r
  <2>4. LevelOn(r, last, day) = 0
    BY <1>2, <2>3 DEF LevelOn, ReachedOn
  <2> QED
    BY <2>1, <2>2, <2>4 DEF r
<1>9. CurrentOn(ss, last, frame', day)
  <2>1. \A i \in DOMAIN ss : Level(ss[i], last) = LevelOn(ss[i], last, day)
    BY LevelIs
  <2> QED
    BY <1>1, <2>1, BorderFacts DEF CurrentOn
<1>10. CurrentOn(services', last, frame', day)
  BY <1>7, <1>8, <1>9 DEF CurrentOn
<1> QED
  BY <1>10, CurrentIs

\* Everything else that is done to the lists and their files
LEMMA OthersCurrent ==
  ASSUME IInv, Current, last' = last, day' = day,
         \/ SortServices \/ addLineRepairs \/ SortRepairs \/ AddPart \/ BuyPartsRequest
         \/ Preferences \/ Open \/ OnLogTimer
         \/ \E i \in DOMAIN repairs :
              \/ onGridCellRepairsChange(i) \/ setRepairDone(i) \/ RepairDelete(i)
              \/ buyPartsRepair(i)
         \/ \E j \in DOMAIN parts : onGridCellChangeBuyParts(j) \/ PartDelete(j)
  PROVE  Current'
<1>1. CASE SortServices
  <2>1. PICK ss \in Sorted(services) : checkService(ss, parts, last)
    BY <1>1 DEF SortServices
  <2>2. ss \in Seq(Service)
    BY Before, SortedFacts
  <2> QED
    BY <2>1, <2>2, CheckCurrent
<1>2. CASE OnLogTimer
  <2>1. checkService(services, parts, last) \/ UNCHANGED <<services, frame>>
    BY <1>2 DEF OnLogTimer
  <2> QED
    BY <2>1, Before, CheckCurrent, SameCurrent
<1>3. CASE Preferences
  <2>1. /\ services' = Rated(servicesFile', last) /\ frame' = border(servicesFile', last)
        /\ servicesFile' \in {services, servicesFile}
    BY <1>3 DEF Preferences, loadData, update
  <2>2. servicesFile' \in Seq(Service)
    BY <2>1, Before
  <2> QED
    BY <2>1, <2>2, RatedCurrent
<1>4. CASE Open
  <2>1. services' = Rated(servicesFile, last) /\ frame' = border(servicesFile, last)
    BY <1>4 DEF Open, loadData
  <2> QED
    BY <2>1, Before, RatedCurrent
<1>5. CASE \/ addLineRepairs \/ SortRepairs \/ AddPart \/ BuyPartsRequest
           \/ \E i \in DOMAIN repairs :
                \/ onGridCellRepairsChange(i) \/ setRepairDone(i) \/ RepairDelete(i)
                \/ buyPartsRepair(i)
           \/ \E j \in DOMAIN parts : onGridCellChangeBuyParts(j) \/ PartDelete(j)
  <2>1. services' = services /\ frame' = frame
    BY <1>5 DEF addLineRepairs, SortRepairs, AddPart, BuyPartsRequest,
                onGridCellRepairsChange, setRepairDone, RepairDelete, buyPartsRepair,
                addLineBuyParts, onGridCellChangeBuyParts, PartDelete
  <2> QED
    BY <2>1, SameCurrent
<1> QED
  BY <1>1, <1>2, <1>3, <1>4, <1>5

\* What is done to the logbook, but for earlier lines
LEMMA LogbookCurrent ==
  ASSUME IInv, Current, last' = last, day' = day,
         EditDistance \/ EditPosition \/ deleteRows
  PROVE  Current'
<1>1. CASE EditDistance
  <2>1. last \in [total: Nat, bank: Nat, status: Nat]
    BY Before, TypesAssumption
  <2>2. [last' EXCEPT !.status = last.status] = last'
    BY <2>1
  <2>3. checkService(services, parts, last')
    BY <1>1, <2>2 DEF EditDistance
  <2> QED
    BY <2>3, Before, CheckCurrent
<1>2. CASE EditPosition \/ deleteRows
  BY <1>2, SameCurrent DEF EditPosition, deleteRows
<1> QED
  BY <1>1, <1>2

\* A new line, and an edit of the last line that is checked, leave a frame
\* that is up to date; one that is stays so, whatever is done to the lists,
\* until the last line or the date changes or an earlier line is edited.
THEOREM KeptCurrent == Spec => FrameStaysCurrent
<1>1. ASSUME IInv, appendRow \/ EditLastLine
      PROVE  Current'
  <2>1. checkService(services, parts, last') /\ day' = day
    BY <1>1 DEF appendRow, EditLastLine, Booked
  <2> QED
    BY <1>1, <2>1, Before, CheckCurrent
<1>2. ASSUME IInv, Next, Current, open', last' = last, day' = day, ~EditEarlierLine
      PROVE  Current'
  <2>1. ASSUME NEW i \in DOMAIN services,
               \/ EditIf(i) \/ EditWarn(i) \/ EditUrgent(i) \/ EditActive(i) \/ EditText(i)
               \/ PickDate(i) \/ ServiceDone(i) \/ ServiceDelete(i) \/ buyPartsService(i)
        PROVE  Current'
    BY <1>2, <2>1, ServiceCurrent
  <2>2. CASE addLine
    BY <1>2, <2>2, AddLineCurrent
  <2>3. CASE \/ SortServices \/ addLineRepairs \/ SortRepairs \/ AddPart \/ BuyPartsRequest
             \/ Preferences \/ Open \/ OnLogTimer
             \/ \E i \in DOMAIN repairs :
                  \/ onGridCellRepairsChange(i) \/ setRepairDone(i) \/ RepairDelete(i)
                  \/ buyPartsRepair(i)
             \/ \E j \in DOMAIN parts : onGridCellChangeBuyParts(j) \/ PartDelete(j)
    BY <1>2, <2>3, OthersCurrent
  <2>4. CASE appendRow \/ EditLastLine
    BY <1>1, <1>2, <2>4
  <2>5. CASE EditDistance \/ EditPosition \/ deleteRows
    BY <1>2, <2>5, LogbookCurrent
  <2>6. CASE NextDay
    <3>1. day \in Nat
      BY <1>2, Before, Numbers
    <3> QED
      BY <1>2, <2>6, <3>1 DEF NextDay
  <2>7. CASE Close \/ Crash
    BY <1>2, <2>7 DEF Close, Crash, Gone
  <2> QED
    BY <1>2, <2>1, <2>2, <2>3, <2>4, <2>5, <2>6, <2>7 DEF Next
<1>3. IInv /\ [Next]_vars =>
        [/\ appendRow \/ EditLastLine => Current'
         /\ Current /\ open' /\ UNCHANGED <<last, day>> /\ ~EditEarlierLine => Current']_vars
  BY <1>1, <1>2
<1> QED
  BY <1>3, Invariance, PTL DEF Spec, FrameStaysCurrent
=============================================================================
