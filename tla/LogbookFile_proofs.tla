------------------------- MODULE LogbookFile_proofs -------------------------
(***************************************************************************)
(* Proofs about LogbookFile, for every set of old logbooks, every length    *)
(* from which appendRow warns and every bound on lines.  The inductive      *)
(* invariant says what the two logbooks that an open window can write to,   *)
(* the active one and the one shown, have in common: their files are        *)
(* complete and known to the user, an old logbook that is shown has no line *)
(* that its file has not, and appendRow's box is only up while the active   *)
(* one is shown.                                                           *)
(***************************************************************************)
EXTENDS LogbookFile, SequenceTheorems, TLAPS

\* Two contents are the same but for the remarks set after the update.
SameBut(d, g) ==
  /\ Len(d) = Len(g)
  /\ \A i \in DOMAIN g : g[i].text = "remark" \/ d[i] = g[i]

Bounded == \A f \in Files : Len(disk[f]) <= MaxRows + 1

\* A file the user has never seen complete has no .Bak file either.
Backed == \A f \in Files : whole[f] = NoFile => bak[f] = NoFile

\* The files an open window may write to are complete.
OpenFiles ==
  window = "open" => /\ disk[Actual] # NoFile
                     /\ whole[Actual] = disk[Actual]
                     /\ whole[current] = disk[current]

OldShown ==
  window = "open" /\ current \in Old => ids(grid) \subseteq ids(disk[current])

Reminded ==
  /\ window # "open" => box = NoBox
  /\ box.reminder > 0 => current = Actual /\ Len(grid) <= MaxRows

IInv == /\ TypeOK
        /\ Bounded /\ CopyOnDisk /\ Backed
        /\ OpenFiles /\ OldShown /\ Reminded
        /\ EditsAreMarked

BoxType == [reminder: 0..(MaxRows + 1), id: 0..MaxLines, remark: BOOLEAN,
            confirm: 0..(MaxRows + 1), global: BOOLEAN, selected: BOOLEAN]
-----------------------------------------------------------------------------
(* Contents.                                                               *)

LEMMA Numbers == MaxRows \in Nat /\ MaxLines \in Nat /\ LIMIT \in Nat /\ LIMIT > 0
                 /\ STEP \in Nat /\ STEP > MaxRows /\ Actual \notin Old
  BY FileAssumption DEF Actual

LEMMA LineTypes ==
  /\ Blank \in Line /\ Carry \in Line
  /\ \A n \in 0..MaxLines : Fresh(n) \in Line /\ Fresh(n).id = n
  BY Numbers DEF Line, Blank, Carry, Fresh

LEMMA SeqFacts ==
  ASSUME NEW g \in Seq(Line)
  PROVE  /\ g # NoFile /\ Len(g) \in Nat /\ DOMAIN g = 1..Len(g)
         /\ \A i \in DOMAIN g : g[i] \in Line
         /\ ids(g) = {g[i].id : i \in DOMAIN g} \ {0}
<1>1. Len(g) \in Nat /\ DOMAIN g = 1..Len(g) /\ \A i \in DOMAIN g : g[i] \in Line
  BY LenProperties, ElementOfSeq
<1>2. g # NoFile
  <2>1. ASSUME g = NoFile PROVE FALSE
    <3>1. Len(g) = 1 /\ g[1].id = -1
      BY <2>1 DEF NoFile
    <3>2. g[1] \in Line
      BY <1>1, <3>1
    <3> QED
      BY <3>1, <3>2, Numbers DEF Line
  <2> QED
    BY <2>1
<1> QED
  BY <1>1, <1>2 DEF ids

LEMMA NoFileFacts == Len(NoFile) = 1 /\ ids(NoFile) = {}
  BY DEF NoFile, ids

LEMMA EmptyFacts == <<>> \in Seq(Line) /\ Len(<<>>) = 0 /\ ids(<<>>) = {}
                    /\ <<>> # NoFile
<1>1. <<>> \in Seq(Line) /\ Len(<<>>) = 0
  BY EmptySeq
<1>2. <<>> # NoFile
  BY <1>1, SeqFacts
<1>3. ids(<<>>) = {}
  BY <1>2 DEF ids
<1> QED
  BY <1>1, <1>2, <1>3

LEMMA IdsWithin ==
  ASSUME NEW g \in Seq(Line), NEW h \in Seq(Line),
         \A i \in DOMAIN g : \E k \in DOMAIN h : g[i].id = h[k].id
  PROVE  ids(g) \subseteq ids(h)
<1>1. ids(g) = {g[i].id : i \in DOMAIN g} \ {0}
  BY SeqFacts
<1>2. ids(h) = {h[i].id : i \in DOMAIN h} \ {0}
  BY SeqFacts
<1> QED
  BY <1>1, <1>2

LEMMA AppendFacts ==
  ASSUME NEW g \in Seq(Line), NEW l \in Line
  PROVE  /\ Append(g, l) \in Seq(Line) /\ Len(Append(g, l)) = Len(g) + 1
         /\ Append(g, l) # <<>>
         /\ \A i \in DOMAIN g : Append(g, l)[i] = g[i]
         /\ Append(g, l)[Len(g) + 1] = l
         /\ ids(g) \subseteq ids(Append(g, l))
<1>1. /\ Append(g, l) \in Seq(Line) /\ Len(Append(g, l)) = Len(g) + 1
      /\ Append(g, l) # <<>>
      /\ \A i \in DOMAIN g : Append(g, l)[i] = g[i]
      /\ Append(g, l)[Len(g) + 1] = l
  BY AppendProperties, LenProperties
<1> DEFINE h == Append(g, l)
<1>2. DOMAIN g = 1..Len(g) /\ DOMAIN h = 1..Len(h) /\ Len(g) \in Nat
  BY <1>1, SeqFacts
<1> HIDE DEF h
<1>3. DOMAIN g \subseteq DOMAIN h
  BY <1>1, <1>2 DEF h
<1>4. ids(g) \subseteq ids(h)
  BY <1>1, <1>3, IdsWithin DEF h
<1> QED
  BY <1>1, <1>4 DEF h

LEMMA ExceptFacts ==
  ASSUME NEW g \in Seq(Line), NEW i, NEW l \in Line
  PROVE  LET h == [g EXCEPT ![i] = l]
         IN  /\ h \in Seq(Line) /\ Len(h) = Len(g) /\ DOMAIN h = DOMAIN g
             /\ \A j \in DOMAIN g : h[j] = IF j = i THEN l ELSE g[j]
<1>1. CASE i \in DOMAIN g
  BY <1>1, ExceptSeq, SeqFacts
<1>2. CASE i \notin DOMAIN g
  <2>1. [g EXCEPT ![i] = l] = g
    BY <1>2, LenProperties
  <2> QED
    BY <1>2, <2>1
<1> QED
  BY <1>1, <1>2

\* Only the text of a row changes.
Texts == {"new", "edited", "remark", "carry"}

Retext(g, i, t) == [g EXCEPT ![i].text = t]

LEMMA TextFacts ==
  ASSUME NEW g \in Seq(Line), NEW i, NEW t \in Texts
  PROVE  LET h == Retext(g, i, t)
         IN  /\ h \in Seq(Line) /\ Len(h) = Len(g) /\ DOMAIN h = DOMAIN g
             /\ \A j \in DOMAIN g : /\ h[j].id = g[j].id
                                    /\ j # i => h[j] = g[j]
                                    /\ j = i => h[j].text = t
             /\ ids(h) = ids(g)
<1> DEFINE l == [g[i] EXCEPT !.text = t]
           h == [g EXCEPT ![i] = l]
<1>0. Retext(g, i, t) = h
  BY DEF Retext
<1>1. CASE i \in DOMAIN g
  <2>1. g[i] \in Line
    BY <1>1, SeqFacts
  <2>2. l \in Line /\ l.id = g[i].id /\ l.text = t
    BY <2>1 DEF Line, Texts
  <2> HIDE DEF l
  <2>4. /\ h \in Seq(Line) /\ Len(h) = Len(g) /\ DOMAIN h = DOMAIN g
        /\ \A j \in DOMAIN g : h[j] = IF j = i THEN l ELSE g[j]
    BY <2>2, ExceptFacts
  <2> HIDE DEF h
  <2>5. \A j \in DOMAIN g : /\ h[j].id = g[j].id
                            /\ j # i => h[j] = g[j]
                            /\ j = i => h[j].text = t
    BY <2>2, <2>4
  <2>6. ids(h) \subseteq ids(g) /\ ids(g) \subseteq ids(h)
    BY <2>4, <2>5, IdsWithin
  <2> QED
    BY <1>0, <2>4, <2>5, <2>6
<1>2. CASE i \notin DOMAIN g
  <2>1. h = g
    BY <1>2, LenProperties
  <2> QED
    BY <1>0, <1>2, <2>1
<1> QED
  BY <1>1, <1>2

LEMMA PrefixFacts ==
  ASSUME NEW g \in Seq(Line), NEW n \in 0..Len(g)
  PROVE  /\ SubSeq(g, 1, n) \in Seq(Line) /\ Len(SubSeq(g, 1, n)) = n
         /\ ids(SubSeq(g, 1, n)) \subseteq ids(g)
<1>1. /\ SubSeq(g, 1, n) \in Seq(Line) /\ Len(SubSeq(g, 1, n)) = n
      /\ \A i \in 1..n : SubSeq(g, 1, n)[i] = g[i]
  BY SubSeqProperties, SeqFacts
<1> DEFINE h == SubSeq(g, 1, n)
<1>2. 1..n \subseteq DOMAIN g
  BY SeqFacts
<1> HIDE DEF h
<1>3. DOMAIN h = 1..n
  BY <1>1, SeqFacts DEF h
<1>4. ids(h) \subseteq ids(g)
  BY <1>1, <1>2, <1>3, IdsWithin DEF h
<1> QED
  BY <1>1, <1>4 DEF h

LEMMA RemoveFacts ==
  ASSUME NEW g \in Seq(Line), NEW i \in DOMAIN g
  PROVE  /\ RemoveAt(g, i) \in Seq(Line) /\ Len(RemoveAt(g, i)) = Len(g) - 1
         /\ ids(RemoveAt(g, i)) \subseteq ids(g)
<1>0. i \in 1..Len(g) /\ Len(g) \in Nat
  BY SeqFacts
<1> DEFINE a == SubSeq(g, 1, i - 1)
           b == SubSeq(g, i + 1, Len(g))
<1>1. /\ a \in Seq(Line) /\ Len(a) = i - 1
      /\ \A j \in 1..Len(a) : a[j] = g[j]
  BY <1>0, SubSeqProperties, SeqFacts
<1>2. /\ b \in Seq(Line) /\ Len(b) = Len(g) - i
      /\ \A j \in 1..Len(b) : b[j] = g[i + j]
  BY <1>0, SubSeqProperties, SeqFacts
<1>3. RemoveAt(g, i) = a \o b
  BY DEF RemoveAt
<1> HIDE DEF a, b
<1>4. /\ a \o b \in Seq(Line) /\ Len(a \o b) = Len(a) + Len(b)
      /\ \A j \in 1..(Len(a) + Len(b)) :
           (a \o b)[j] = IF j <= Len(a) THEN a[j] ELSE b[j - Len(a)]
  BY <1>1, <1>2, ConcatProperties
<1>5. \A j \in DOMAIN (a \o b) : \E k \in DOMAIN g : (a \o b)[j] = g[k]
  <2> TAKE j \in DOMAIN (a \o b)
  <2>1. j \in 1..(Len(a) + Len(b))
    <3> DEFINE c == a \o b
    <3>1. c \in Seq(Line) /\ j \in DOMAIN c /\ Len(c) = Len(a) + Len(b)
      BY <1>4
    <3> HIDE DEF c
    <3> QED
      BY <3>1, SeqFacts
  <2>2. CASE j <= Len(a)
    <3>1. j \in 1..Len(a) /\ (a \o b)[j] = a[j]
      BY <1>0, <1>1, <1>4, <2>1, <2>2
    <3>2. j \in DOMAIN g
      BY <1>0, <1>1, <3>1, SeqFacts
    <3> QED
      BY <1>1, <3>1, <3>2
  <2>3. CASE j > Len(a)
    <3>1. j - Len(a) \in 1..Len(b)
      BY <1>0, <1>1, <1>2, <2>1, <2>3
    <3>2. (a \o b)[j] = b[j - Len(a)]
      BY <1>0, <1>1, <1>4, <2>1, <2>3
    <3>3. i + (j - Len(a)) \in DOMAIN g
      BY <1>0, <1>2, <3>1, SeqFacts
    <3> QED
      BY <1>2, <3>1, <3>2, <3>3
  <2> QED
    BY <1>0, <1>1, <2>1, <2>2, <2>3
<1>6. ids(a \o b) \subseteq ids(g)
  BY <1>4, <1>5, IdsWithin
<1> QED
  BY <1>0, <1>1, <1>2, <1>3, <1>4, <1>6
-----------------------------------------------------------------------------
(* Writing files.                                                          *)

FilesOK == /\ disk \in [Files -> Content] /\ bak \in [Files -> Content]
           /\ whole \in [Files -> Content]
           /\ Bounded /\ CopyOnDisk /\ Backed

LEMMA ContentFacts ==
  ASSUME NEW d \in Content
  PROVE  /\ d # NoFile => d \in Seq(Line)
         /\ Len(d) \in Nat
BY SeqFacts, NoFileFacts DEF Content

\* What every step starts from
LEMMA Before ==
  ASSUME IInv
  PROVE  /\ FilesOK
         /\ grid \in Seq(Line) /\ Len(grid) <= MaxRows + 1
         /\ Len(grid) \in Nat
         /\ current \in Files /\ Actual \in Files /\ Old \subseteq Files
         /\ modified \in BOOLEAN /\ window \in {"open", "closed", "dead"}
         /\ box \in BoxType /\ repeat \in Nat /\ next \in 1..(MaxLines + 1)
         /\ window = "open" =>
              /\ disk[Actual] \in Seq(Line) /\ disk[current] \in Seq(Line)
              /\ Len(disk[Actual]) <= MaxRows + 1
              /\ disk[current] # NoFile /\ disk[Actual] # NoFile
              /\ whole[Actual] = disk[Actual] /\ whole[current] = disk[current]
<1>1. /\ FilesOK
      /\ grid \in Seq(Line) /\ Len(grid) <= MaxRows + 1
      /\ current \in Files /\ Actual \in Files /\ Old \subseteq Files
      /\ modified \in BOOLEAN /\ window \in {"open", "closed", "dead"}
      /\ box \in BoxType /\ repeat \in Nat /\ next \in 1..(MaxLines + 1)
  BY DEF IInv, TypeOK, FilesOK, Files, BoxType
<1>2. window = "open" =>
        /\ disk[current] # NoFile /\ disk[Actual] # NoFile
        /\ whole[Actual] = disk[Actual] /\ whole[current] = disk[current]
  BY DEF IInv, TypeOK, OpenFiles
<1>3. disk[Actual] \in Content /\ disk[current] \in Content
  BY <1>1 DEF FilesOK
<1>4. Len(grid) \in Nat
  BY <1>1, SeqFacts
<1> QED
  BY <1>1, <1>2, <1>3, <1>4, ContentFacts DEF FilesOK, Bounded

\* A complete update of a file whose content the user knows, and the reading
\* of the files S
LEMMA UpdateFiles ==
  ASSUME IInv, window = "open",
         NEW g \in Seq(Line), Len(g) <= MaxRows + 1,
         NEW f \in {Actual, current}, update(g, f),
         NEW S \in SUBSET Files, f \in S, Seen(S),
         \A k \in S : disk[k] # NoFile
  PROVE  /\ FilesOK'
         /\ disk'[f] = g
         /\ \A k \in Files : k # f => disk'[k] = disk[k]
         /\ \A k \in S : whole'[k] = disk'[k]
         /\ \A k \in Files \ S : whole'[k] = whole[k]
<1>1. f \in Files /\ g \in Content /\ g # NoFile
  BY Before, SeqFacts DEF Content
<1>2. /\ disk \in [Files -> Content] /\ bak \in [Files -> Content]
      /\ whole \in [Files -> Content] /\ Bounded /\ CopyOnDisk /\ Backed
  BY Before DEF FilesOK
<1>3. /\ disk' = [disk EXCEPT ![f] = g]
      /\ bak' = IF g = <<>> THEN bak ELSE [bak EXCEPT ![f] = disk[f]]
      /\ whole' = [k \in Files |-> IF k \in S THEN disk'[k] ELSE whole[k]]
  BY DEF update, Seen
<1>4. /\ disk'[f] = g
      /\ \A k \in Files : k # f => disk'[k] = disk[k] /\ bak'[k] = bak[k]
      /\ \A k \in S : whole'[k] = disk'[k]
      /\ \A k \in Files \ S : whole'[k] = whole[k]
  BY <1>1, <1>2, <1>3
<1>5. disk' \in [Files -> Content] /\ bak' \in [Files -> Content]
  BY <1>1, <1>2, <1>3
<1>6. whole' \in [Files -> Content]
  BY <1>2, <1>3, <1>5
<1>7. Bounded'
  BY <1>1, <1>2, <1>4 DEF Bounded
<1>8. CopyOnDisk'
  BY <1>2, <1>4 DEF CopyOnDisk
<1>9. Backed'
  BY <1>1, <1>2, <1>4 DEF Backed
<1> QED
  BY <1>4, <1>5, <1>6, <1>7, <1>8, <1>9 DEF FilesOK

\* The process dies while it updates a file whose content the user knows.
LEMMA TornFiles ==
  ASSUME IInv, window = "open",
         NEW g \in Seq(Line), Len(g) <= MaxRows + 1,
         NEW f \in {Actual, current}, torn(g, f)
  PROVE  /\ FilesOK'
         /\ ids(disk'[f]) \subseteq ids(g)
         /\ \A k \in Files : k # f => disk'[k] = disk[k]
<1>1. /\ f \in Files /\ disk[f] # NoFile /\ whole[f] = disk[f]
      /\ Len(g) \in Nat
  BY Before, SeqFacts
<1>2. /\ disk \in [Files -> Content] /\ bak \in [Files -> Content]
      /\ whole \in [Files -> Content] /\ Bounded /\ CopyOnDisk /\ Backed
  BY Before DEF FilesOK
<1>3. PICK w \in {NoFile} \cup {SubSeq(g, 1, n) : n \in 0..(Len(g) - 1)} :
        disk' = [disk EXCEPT ![f] = w]
  BY DEF torn
<1>4. w \in Content /\ Len(w) <= MaxRows + 1 /\ ids(w) \subseteq ids(g)
  <2>1. CASE w = NoFile
    BY <2>1, NoFileFacts, Numbers DEF Content
  <2>2. ASSUME NEW n \in 0..(Len(g) - 1), w = SubSeq(g, 1, n)
        PROVE  w \in Content /\ Len(w) <= MaxRows + 1 /\ ids(w) \subseteq ids(g)
    <3>1. n \in 0..Len(g)
      BY <1>1
    <3>2. /\ w \in Seq(Line) /\ Len(w) = n /\ ids(w) \subseteq ids(g)
      BY <2>2, <3>1, PrefixFacts
    <3> QED
      BY <1>1, <3>1, <3>2, Numbers DEF Content
  <2> QED
    BY <1>3, <2>1, <2>2
<1>5. bak' = [bak EXCEPT ![f] = disk[f]] /\ whole' = whole
  BY DEF torn
<1>6. /\ disk'[f] = w /\ bak'[f] = disk[f]
      /\ \A k \in Files : k # f => disk'[k] = disk[k] /\ bak'[k] = bak[k]
  BY <1>1, <1>2, <1>3, <1>5
<1>7. /\ disk' \in [Files -> Content] /\ bak' \in [Files -> Content]
      /\ whole' \in [Files -> Content]
  BY <1>1, <1>2, <1>3, <1>4, <1>5
<1>8. Bounded'
  BY <1>2, <1>4, <1>6 DEF Bounded
<1>9. CopyOnDisk' /\ Backed'
  BY <1>1, <1>2, <1>5, <1>6 DEF CopyOnDisk, Backed
<1> QED
  BY <1>4, <1>6, <1>7, <1>8, <1>9 DEF FilesOK
-----------------------------------------------------------------------------
(* The invariant.                                                          *)

\* The end of the window, regular or not, with files that are in order
LEMMA GoneInv ==
  ASSUME FilesOK', NEW how \in {"closed", "dead"}, Gone(how),
         repeat' \in Nat, next' \in 1..(MaxLines + 1)
  PROVE  IInv'
<1>1. NoBox \in BoxType /\ NoBox.reminder = 0
  BY Numbers DEF NoBox, BoxType
<1>2. TypeOK'
  <2>1. grid' \in Seq(Line) /\ Len(grid') <= MaxRows + 1
    BY EmptyFacts, Numbers DEF Gone
  <2>2. /\ window' \in {"open", "closed", "dead"} /\ window' # "open"
        /\ current' \in Files /\ modified' \in BOOLEAN /\ box' \in BoxType
    BY <1>1 DEF Gone, Files
  <2> QED
    BY <2>1, <2>2 DEF TypeOK, FilesOK, BoxType
<1>3. OpenFiles' /\ OldShown' /\ Reminded' /\ EditsAreMarked'
  BY <1>1 DEF Gone, OpenFiles, OldShown, Reminded, EditsAreMarked
<1> QED
  BY <1>2, <1>3 DEF IInv, FilesOK

\* A step after which the window is open
LEMMA OpenInv ==
  ASSUME FilesOK', window' = "open",
         grid' \in Seq(Line), Len(grid') <= MaxRows + 1,
         current' \in Files, modified' \in BOOLEAN, box' \in BoxType,
         repeat' \in Nat, next' \in 1..(MaxLines + 1),
         disk'[Actual] # NoFile, disk'[current'] # NoFile,
         whole'[Actual] = disk'[Actual], whole'[current'] = disk'[current'],
         current' \in Old => ids(grid') \subseteq ids(disk'[current']),
         box'.reminder > 0 => current' = Actual /\ Len(grid') <= MaxRows,
         ~modified' /\ Carry \notin ToSet(grid') => SameBut(disk'[current'], grid')
  PROVE  IInv'
<1>1. TypeOK'
  BY DEF TypeOK, FilesOK, BoxType
<1>2. OpenFiles' /\ OldShown' /\ Reminded'
  BY DEF OpenFiles, OldShown, Reminded
<1>3. EditsAreMarked'
  BY DEF EditsAreMarked, SameBut
<1> QED
  BY <1>1, <1>2, <1>3 DEF IInv, FilesOK

\* A step that touches no file and leaves the window open
LEMMA GridInv ==
  ASSUME IInv, window = "open", UNCHANGED <<window, current, disk, bak, whole>>,
         grid' \in Seq(Line), Len(grid') <= MaxRows + 1,
         modified' \in BOOLEAN, box' \in BoxType,
         repeat' \in Nat, next' \in 1..(MaxLines + 1),
         ids(grid') \subseteq ids(grid),
         box'.reminder > 0 => current = Actual /\ Len(grid') <= MaxRows,
         ~modified' => grid' = grid /\ ~modified
  PROVE  IInv'
<1>1. FilesOK'
  BY Before DEF FilesOK, Bounded, CopyOnDisk, Backed
<1>2. current \in Old => ids(grid') \subseteq ids(disk[current])
  BY DEF IInv, OldShown
<1>3. ~modified' /\ Carry \notin ToSet(grid') => SameBut(disk[current], grid')
  BY DEF IInv, EditsAreMarked, SameBut
<1> QED
  BY <1>1, <1>2, <1>3, Before, OpenInv

\* update writes g to f; then s, which is g but for a remark, is shown.
LEMMA WriteInv ==
  ASSUME IInv, window = "open",
         NEW g \in Seq(Line), NEW s \in Seq(Line), Len(g) <= MaxRows + 1,
         NEW f \in {Actual, current}, NEW b \in BoxType, NEW r \in Nat,
         WriteAndShow(g, f, s, f, b, r),
         SameBut(g, s), ids(s) = ids(g),
         b.reminder > 0 => f = Actual /\ Len(s) <= MaxRows,
         next' \in 1..(MaxLines + 1)
  PROVE  IInv'
<1>1. CASE torn(g, f) /\ Die
  <2>1. FilesOK'
    BY <1>1, TornFiles
  <2> QED
    BY <1>1, <2>1, GoneInv DEF Die
<1>2. CASE /\ update(g, f) /\ Seen({f})
           /\ grid' = s /\ current' = f /\ modified' = FALSE
           /\ box' = b /\ repeat' = r
           /\ UNCHANGED window
  <2>1. f \in Files /\ disk[f] # NoFile
    BY Before
  <2>2. /\ FilesOK' /\ disk'[f] = g
        /\ \A k \in Files : k # f => disk'[k] = disk[k]
        /\ whole'[f] = disk'[f]
        /\ \A k \in Files \ {f} : whole'[k] = whole[k]
    BY <1>2, <2>1, UpdateFiles
  <2>3. g # NoFile /\ Actual \in Files
    BY SeqFacts, Before
  <2>4. disk'[Actual] # NoFile /\ whole'[Actual] = disk'[Actual]
    BY <2>2, <2>3, Before
  <2>5. Len(s) <= MaxRows + 1 /\ SameBut(disk'[f], s)
    BY <2>2 DEF SameBut
  <2> QED
    BY <1>2, <2>1, <2>2, <2>3, <2>4, <2>5, OpenInv
<1> QED
  BY <1>1, <1>2 DEF WriteAndShow

LEMMA RemarkFacts ==
  ASSUME NEW h \in Seq(Line), NEW remark \in BOOLEAN
  PROVE  /\ remarked(h, remark) \in Seq(Line)
         /\ Len(remarked(h, remark)) = Len(h)
         /\ ids(remarked(h, remark)) = ids(h)
         /\ SameBut(h, remarked(h, remark))
<1>1. CASE remark
  <2> DEFINE r == Retext(h, Len(h), "remark")
  <2>1. /\ r \in Seq(Line) /\ Len(r) = Len(h) /\ DOMAIN r = DOMAIN h
        /\ \A j \in DOMAIN h : /\ j # Len(h) => r[j] = h[j]
                               /\ j = Len(h) => r[j].text = "remark"
        /\ ids(r) = ids(h)
    BY TextFacts DEF Texts
  <2>2. remarked(h, remark) = r
    BY <1>1 DEF remarked, Retext
  <2> HIDE DEF r
  <2> QED
    BY <2>1, <2>2 DEF SameBut
<1>2. CASE ~remark
  BY <1>2 DEF remarked, SameBut
<1> QED
  BY <1>1, <1>2

LEMMA ActualFacts ==
  ASSUME IInv, window = "open"
  PROVE  /\ shownActual \in Seq(Line) /\ Len(shownActual) <= MaxRows + 1
         /\ Len(shownActual) \in Nat
  BY Before, SeqFacts DEF shownActual

LEMMA DeselectedFacts ==
  ASSUME IInv
  PROVE  deselected \in BoxType /\ deselected.reminder = box.reminder
<1>1. box \in BoxType
  BY Before
<1> QED
  BY <1>1 DEF deselected, BoxType

LEMMA AppendRowInv ==
  ASSUME IInv, NEW remark \in BOOLEAN, appendRow(remark)
  PROVE  IInv'
<1> DEFINE g == shownActual
           r == IF repeat = 0 /\ Len(g) >= LIMIT THEN Len(g) ELSE repeat
           h == Append(g, Fresh(next))
<1>1. /\ window = "open" /\ next <= MaxLines /\ next' = next + 1
      /\ next' \in 1..(MaxLines + 1) /\ next \in 0..MaxLines
  BY Before, Numbers DEF appendRow
<1>2. g \in Seq(Line) /\ Len(g) \in Nat /\ Len(g) < MaxRows
  BY <1>1, ActualFacts DEF appendRow
<1>3. r \in Nat
  BY <1>2, Before
<1>4. CASE /\ box' = [deselected EXCEPT !.reminder = Len(g) + 1,
                                        !.id = next, !.remark = remark]
           /\ repeat' = r + STEP
           /\ grid' = g /\ current' = Actual /\ modified' = TRUE
           /\ UNCHANGED <<window, files>>
  <2>1. FilesOK'
    BY <1>4, Before DEF files, FilesOK, Bounded, CopyOnDisk, Backed
  <2>2. Len(g) + 1 \in 0..(MaxRows + 1) /\ next \in 0..MaxLines
    BY <1>1, <1>2, Numbers
  <2>3. box' \in BoxType
    <3> HIDE DEF g
    <3> QED
      BY <1>4, <2>2, DeselectedFacts DEF BoxType
  <2>4. repeat' \in Nat
    <3> HIDE DEF r
    <3> QED
      BY <1>3, <1>4, Numbers
  <2>5. Len(g) <= MaxRows /\ Len(g) <= MaxRows + 1
    BY <1>2, Numbers
  <2>6. Actual \in Files /\ Actual \notin Old
    BY Before, Numbers
  <2> HIDE DEF g, r
  <2> QED
    BY <1>1, <1>2, <1>4, <2>1, <2>3, <2>4, <2>5, <2>6, Before, OpenInv
    DEF files
<1>5. CASE WriteAndShow(h, Actual, remarked(h, remark), Actual, deselected, r)
  <2>1. h \in Seq(Line) /\ Len(h) = Len(g) + 1
    BY <1>1, <1>2, AppendFacts, LineTypes
  <2>2. Len(h) <= MaxRows /\ Len(h) <= MaxRows + 1
    BY <1>2, <2>1, Numbers
  <2> HIDE DEF h, r, g
  <2> QED
    BY <1>1, <1>3, <1>5, <2>1, <2>2, RemarkFacts, DeselectedFacts, WriteInv
<1> QED
  BY <1>4, <1>5 DEF appendRow

\* The grid after the box: the line is in the row that the box held.
LEMMA ReminderGrid ==
  ASSUME IInv, box.reminder > 0
  PROVE  LET g == [Append(grid, Blank) EXCEPT ![box.reminder] = Fresh(box.id)]
         IN  /\ window = "open" /\ current = Actual
             /\ g \in Seq(Line) /\ Len(g) = Len(grid) + 1
             /\ Len(g) <= MaxRows + 1
             /\ \A j \in DOMAIN grid : j # box.reminder => g[j] = grid[j]
<1> DEFINE a == Append(grid, Blank)
           g == [a EXCEPT ![box.reminder] = Fresh(box.id)]
<1>1. window = "open" /\ current = Actual /\ Len(grid) <= MaxRows
  BY DEF IInv, Reminded, NoBox
<1>2. grid \in Seq(Line) /\ Len(grid) \in Nat
  BY Before
<1>3. /\ a \in Seq(Line) /\ Len(a) = Len(grid) + 1
      /\ \A j \in DOMAIN grid : a[j] = grid[j]
  BY <1>2, AppendFacts, LineTypes
<1>4. DOMAIN grid \subseteq DOMAIN a
  <2>1. DOMAIN a = 1..Len(a) /\ DOMAIN grid = 1..Len(grid)
    <3> HIDE DEF a
    <3> QED
      BY <1>2, <1>3, SeqFacts
  <2> QED
    BY <1>2, <1>3, <2>1
<1>5. Fresh(box.id) \in Line
  BY Before, LineTypes DEF BoxType
<1> HIDE DEF a
<1>6. /\ g \in Seq(Line) /\ Len(g) = Len(a)
      /\ \A j \in DOMAIN a : g[j] = IF j = box.reminder THEN Fresh(box.id)
                                    ELSE a[j]
  BY <1>3, <1>5, ExceptFacts
<1> HIDE DEF g
<1>7. \A j \in DOMAIN grid : j # box.reminder => g[j] = grid[j]
  BY <1>3, <1>4, <1>6
<1> QED
  BY <1>1, <1>2, <1>3, <1>6, <1>7, Numbers DEF g, a

LEMMA AfterReminderInv ==
  ASSUME IInv, AfterReminder
  PROVE  IInv'
<1> DEFINE g == [Append(grid, Blank) EXCEPT ![box.reminder] = Fresh(box.id)]
           b == [box EXCEPT !.reminder = 0, !.id = 0, !.remark = FALSE]
<1>1. /\ WriteAndShow(g, Actual, remarked(g, box.remark), Actual, b, repeat)
      /\ box.reminder > 0 /\ next' = next
  BY DEF AfterReminder
<1>2. /\ window = "open" /\ g \in Seq(Line) /\ Len(g) <= MaxRows + 1
  BY <1>1, ReminderGrid
<1>3. b \in BoxType /\ b.reminder = 0 /\ box.remark \in BOOLEAN
  <2>1. 0 \in 0..(MaxRows + 1) /\ 0 \in 0..MaxLines /\ box \in BoxType
    BY Numbers, Before
  <2> QED
    BY <2>1 DEF BoxType
<1> HIDE DEF g, b
<1> DEFINE s == remarked(g, box.remark)
<1>4. s \in Seq(Line) /\ ids(s) = ids(g) /\ SameBut(g, s)
  BY <1>2, <1>3, RemarkFacts
<1>5. WriteAndShow(g, Actual, s, Actual, b, repeat)
  BY <1>1
<1>6. repeat \in Nat /\ next' \in 1..(MaxLines + 1) /\ ~(b.reminder > 0)
  BY <1>1, <1>3, Before
<1> HIDE DEF s
<1> QED
  BY <1>2, <1>3, <1>4, <1>5, <1>6, WriteInv
\* The user's changes and deleteRow's question, up to its answer
LEMMA UserInv ==
  ASSUME IInv, NEW i \in DOMAIN grid,
         \/ Edit(i) \/ deleteRows(i)
         \/ \E global \in BOOLEAN : deleteRow(i, global)
  PROVE  IInv'
<1>0. /\ grid \in Seq(Line) /\ Len(grid) \in Nat /\ Len(grid) <= MaxRows + 1
      /\ i \in 1..Len(grid) /\ window = "open" /\ box = NoBox
      /\ NoBox \in BoxType /\ NoBox.reminder = 0
  BY Before, SeqFacts, Numbers
  DEF Edit, deleteRows, deleteRow, Ready, NoBox, BoxType
<1>1. CASE Edit(i)
  <2>1. grid' = Retext(grid, i, "edited")
    BY <1>1 DEF Edit, Retext
  <2>2. /\ grid' \in Seq(Line) /\ Len(grid') = Len(grid)
        /\ ids(grid') = ids(grid)
    BY <1>0, <2>1, TextFacts DEF Texts
  <2>3. /\ UNCHANGED <<window, current, disk, bak, whole, box, repeat, next>>
        /\ modified' = TRUE
    BY <1>1 DEF Edit, files
  <2> QED
    BY <1>0, <2>2, <2>3, Before, GridInv
<1>2. CASE deleteRows(i)
  <2>1. /\ grid' \in Seq(Line) /\ Len(grid') = Len(grid) - 1
        /\ ids(grid') \subseteq ids(grid)
    BY <1>0, <1>2, RemoveFacts DEF deleteRows
  <2>2. Len(grid') <= MaxRows + 1
    BY <1>0, <2>1, Numbers
  <2> QED
    BY <1>0, <1>2, <2>1, <2>2, Before, GridInv DEF deleteRows, files
<1>3. ASSUME NEW global \in BOOLEAN, deleteRow(i, global)
      PROVE  IInv'
  <2>1. i \in 0..(MaxRows + 1)
    BY <1>0, Numbers
  <2>2. box' = [box EXCEPT !.confirm = i, !.global = global, !.selected = TRUE]
    BY <1>3 DEF deleteRow
  <2>3. box' \in BoxType /\ box'.reminder = 0
    BY <1>0, <2>1, <2>2 DEF BoxType
  <2>4. /\ UNCHANGED <<window, grid, current, disk, bak, whole, repeat, next>>
        /\ modified' = TRUE
    BY <1>3 DEF deleteRow, files
  <2> QED
    BY <1>0, <2>3, <2>4, Before, GridInv
<1> QED
  BY <1>1, <1>2, <1>3

LEMMA AnswerInv ==
  ASSUME IInv, AnswerNo \/ AnswerYes
  PROVE  IInv'
<1>1. /\ window = "open" /\ Asked
      /\ NoBox \in BoxType /\ NoBox.reminder = 0
  BY Numbers DEF IInv, Reminded, AnswerNo, AnswerYes, Asked, NoBox, BoxType
<1>2. CASE AnswerNo
  BY <1>1, <1>2, Before, GridInv DEF AnswerNo, files
<1>3. CASE /\ \E i \in DOMAIN grid : grid' = RemoveAt(grid, i)
           /\ modified' = TRUE /\ box' = NoBox
           /\ UNCHANGED <<window, current, repeat, files, next>>
  <2>1. /\ grid' \in Seq(Line) /\ Len(grid') = Len(grid) - 1
        /\ ids(grid') \subseteq ids(grid)
    BY <1>3, Before, RemoveFacts
  <2>2. Len(grid') <= MaxRows + 1
    BY <2>1, Before, Numbers
  <2> QED
    BY <1>1, <1>3, <2>1, <2>2, Before, GridInv DEF files
<1>4. CASE Die /\ UNCHANGED <<files, next>>
  <2>1. FilesOK'
    BY <1>4, Before DEF files, FilesOK, Bounded, CopyOnDisk, Backed
  <2> QED
    BY <1>4, <2>1, Before, GoneInv DEF Die
<1> QED
  BY <1>2, <1>3, <1>4 DEF AnswerYes

LEMMA SaveInv ==
  ASSUME IInv, Save \/ ShowOverview
  PROVE  IInv'
<1>1. /\ WriteAndShow(grid, current, grid, current, box, repeat)
      /\ window = "open" /\ next' = next
  BY DEF Save, ShowOverview, Ready
<1>2. SameBut(grid, grid)
  BY DEF SameBut
<1>3. box.reminder > 0 => current = Actual /\ Len(grid) <= MaxRows
  BY DEF IInv, Reminded
<1> QED
  BY <1>1, <1>2, <1>3, Before, WriteInv

LEMMA SelectInv ==
  ASSUME IInv, NEW f \in Files, selectLogbook(f)
  PROVE  IInv'
<1>0. /\ window = "open" /\ disk[f] # NoFile /\ next' = next /\ box.reminder = 0
      /\ disk \in [Files -> Content] /\ whole \in [Files -> Content]
  BY Before DEF selectLogbook, Ready, NoBox, FilesOK
<1>s. ASSUME NEW d \in Content, d # NoFile, Len(d) <= MaxRows + 1
      PROVE  /\ d \in Seq(Line) /\ SameBut(d, d) /\ Len(d) <= MaxRows + 1
  BY <1>s, ContentFacts DEF SameBut
<1>1. CASE /\ update(grid, current) /\ Seen({current, f})
           /\ UNCHANGED <<window, box, repeat>>
           /\ grid' = disk'[f] /\ current' = f /\ modified' = FALSE
  <2>1. \A k \in {current, f} : k \in Files /\ disk[k] # NoFile
    BY <1>0, Before
  <2>2. /\ FilesOK' /\ disk'[current] = grid
        /\ \A k \in Files : k # current => disk'[k] = disk[k]
        /\ \A k \in {current, f} : whole'[k] = disk'[k]
        /\ \A k \in Files \ {current, f} : whole'[k] = whole[k]
    <3> DEFINE S == {current, f}
    <3>1. S \in SUBSET Files /\ current \in S /\ \A k \in S : disk[k] # NoFile
      BY <2>1
    <3>2. Seen(S)
      BY <1>1
    <3> HIDE DEF S
    <3>3. /\ FilesOK' /\ disk'[current] = grid
          /\ \A k \in Files : k # current => disk'[k] = disk[k]
          /\ \A k \in S : whole'[k] = disk'[k]
          /\ \A k \in Files \ S : whole'[k] = whole[k]
      BY <1>0, <1>1, <3>1, <3>2, Before, UpdateFiles
    <3> QED
      BY <3>3 DEF S
  <2>3. grid # NoFile /\ Actual \in Files /\ current \in Files
    BY Before, SeqFacts
  <2>4. /\ disk'[f] \in Content /\ disk'[f] # NoFile
        /\ Len(disk'[f]) <= MaxRows + 1
    BY <1>0, <2>2, <2>3 DEF FilesOK, Bounded
  <2>5. disk'[Actual] # NoFile /\ whole'[Actual] = disk'[Actual]
    BY <1>0, <2>2, <2>3, Before
  <2>6. disk'[f] \in Seq(Line) /\ SameBut(disk'[f], disk'[f])
    BY <1>s, <2>4
  <2>7. /\ window' = "open" /\ grid' \in Seq(Line) /\ Len(grid') <= MaxRows + 1
        /\ current' = f /\ modified' \in BOOLEAN /\ box' \in BoxType
        /\ box'.reminder = 0 /\ repeat' \in Nat
        /\ next' \in 1..(MaxLines + 1)
        /\ SameBut(disk'[current'], grid')
    BY <1>0, <1>1, <2>4, <2>6, Before
  <2>8. /\ disk'[current'] # NoFile /\ whole'[current'] = disk'[current']
        /\ ids(grid') \subseteq ids(disk'[current'])
    BY <1>1, <2>2, <2>4
  <2>9. ~(box'.reminder > 0)
    BY <2>7
  <2> QED
    BY <2>2, <2>5, <2>7, <2>8, <2>9, OpenInv
<1>2. CASE torn(grid, current) /\ Die
  <2>1. FilesOK'
    BY <1>0, <1>2, Before, TornFiles
  <2> QED
    BY <1>0, <1>2, <2>1, Before, GoneInv DEF Die
<1>3. CASE /\ grid' = disk[f] /\ current' = f
           /\ UNCHANGED <<window, modified, disk, bak, box, repeat>>
           /\ Seen({f})
  <2>1. whole' = [k \in Files |-> IF k = f THEN disk[k] ELSE whole[k]]
    BY <1>3 DEF Seen
  <2>2. FilesOK'
    BY <1>0, <1>3, <2>1, Before DEF FilesOK, Bounded, CopyOnDisk, Backed
  <2>3. /\ disk[f] \in Content /\ Len(disk[f]) <= MaxRows + 1
    BY <1>0, Before DEF FilesOK, Bounded
  <2>4. disk[f] \in Seq(Line) /\ SameBut(disk[f], disk[f])
    BY <1>0, <1>s, <2>3
  <2>5. whole'[Actual] = disk'[Actual] /\ whole'[f] = disk'[f]
    BY <1>0, <1>3, <2>1, Before
  <2> QED
    BY <1>0, <1>3, <2>2, <2>3, <2>4, <2>5, Before, OpenInv
<1> QED
  BY <1>1, <1>2, <1>3 DEF selectLogbook

LEMMA NewLogbookNotInv ==
  ASSUME IInv, newLogbookNot
  PROVE  IInv'
<1>0. /\ window = "open" /\ box.reminder = 0 /\ box = NoBox
      /\ grid' = shownActual /\ current' = Actual
      /\ UNCHANGED <<window, modified, disk, bak, whole, box, repeat, next>>
  BY DEF newLogbookNot, Ready, NoBox, files
<1>1. CASE current = Actual
  <2>1. grid' = grid
    BY <1>0, <1>1 DEF shownActual
  <2> QED
    BY <1>0, <1>1, <2>1, Before, GridInv
<1>2. CASE current # Actual
  <2>1. grid' = disk[Actual]
    BY <1>0, <1>2 DEF shownActual
  <2>2. FilesOK'
    BY <1>0, Before DEF FilesOK, Bounded, CopyOnDisk, Backed
  <2>3. SameBut(disk[Actual], disk[Actual])
    BY DEF SameBut
  <2> QED
    BY <1>0, <2>1, <2>2, <2>3, Before, OpenInv
<1> QED
  BY <1>1, <1>2

\* A step that writes the active file, with what of it the user knows and its
\* .Bak, and moves lines to a file n that did not exist
LEMMA MoveFiles ==
  ASSUME IInv, NEW n \in Old, disk[n] = NoFile,
         NEW v \in Content, NEW c \in Content, NEW x \in Content,
         NEW y \in Content, NEW z \in Content,
         Len(v) <= MaxRows + 1, Len(c) <= MaxRows + 1,
         disk' = [disk EXCEPT ![Actual] = v, ![n] = c],
         whole' = [whole EXCEPT ![Actual] = x, ![n] = y],
         bak' = [bak EXCEPT ![Actual] = z],
         x # NoFile, x \in {v, z},
         y = whole[n] \/ (y = c /\ c # NoFile)
  PROVE  FilesOK'
<1>1. /\ disk \in [Files -> Content] /\ bak \in [Files -> Content]
      /\ whole \in [Files -> Content] /\ Bounded /\ CopyOnDisk /\ Backed
      /\ n \in Files /\ Actual \in Files /\ n # Actual
  BY Before, Numbers DEF FilesOK
<1>2. /\ disk'[Actual] = v /\ disk'[n] = c
      /\ \A k \in Files \ {n, Actual} : disk'[k] = disk[k]
      /\ whole'[Actual] = x /\ whole'[n] = y
      /\ \A k \in Files \ {n, Actual} : whole'[k] = whole[k]
      /\ bak'[Actual] = z
      /\ \A k \in Files \ {Actual} : bak'[k] = bak[k]
  BY <1>1
<1>3. /\ disk' \in [Files -> Content] /\ bak' \in [Files -> Content]
      /\ whole' \in [Files -> Content]
  BY <1>1
<1>4. Bounded'
  BY <1>1, <1>2 DEF Bounded
<1>5. whole[n] = bak[n]
  BY <1>1 DEF CopyOnDisk, Backed
<1>6. CopyOnDisk'
  BY <1>1, <1>2, <1>5 DEF CopyOnDisk
<1>7. Backed'
  BY <1>1, <1>2, <1>5 DEF Backed
<1> QED
  BY <1>3, <1>4, <1>6, <1>7 DEF FilesOK

LEMMA OneLine ==
  ASSUME NEW l \in Line
  PROVE  <<l>> \in Seq(Line) /\ Len(<<l>>) = 1 /\ <<l>>[1] = l
<1>1. <<l>> = Append(<<>>, l)
  OBVIOUS
<1> QED
  BY <1>1, EmptyFacts, AppendFacts

\* The copying of the active logbook to an old one, and all its deaths
LEMMA NewLogbookInv ==
  ASSUME IInv, NEW n \in Old, NEW zero \in BOOLEAN, newLogbook(n, zero)
  PROVE  IInv'
<1> DEFINE w == IF modified THEN shownActual ELSE disk[Actual]
           z == IF modified THEN disk[Actual] ELSE bak[Actual]
           b == IF modified THEN [bak EXCEPT ![Actual] = disk[Actual]] ELSE bak
           Moved(v) == [disk EXCEPT ![Actual] = v, ![n] = w]
           Known(v) == [whole EXCEPT ![Actual] = v, ![n] = w]
<1>0. /\ window = "open" /\ box = NoBox /\ box.reminder = 0
      /\ disk[n] = NoFile /\ next \in 1..(MaxLines + 1) /\ next <= MaxLines
      /\ n \in Files /\ Actual \in Files /\ n # Actual
      /\ disk \in [Files -> Content] /\ bak \in [Files -> Content]
      /\ whole \in [Files -> Content]
  BY Before, Numbers DEF newLogbook, Ready, NoBox, FilesOK
<1>n. next + 1 \in 1..(MaxLines + 1) /\ next \in 0..MaxLines
  BY <1>0, Numbers
<1>1. /\ w \in Seq(Line) /\ Len(w) <= MaxRows + 1 /\ Len(w) \in Nat
      /\ w \in Content /\ w # NoFile
  BY <1>0, ActualFacts, Before, SeqFacts DEF Content
<1>2. z \in Content /\ b = [bak EXCEPT ![Actual] = z]
  <2>1. CASE modified
    BY <1>0, <2>1
  <2>2. CASE ~modified
    BY <1>0, <2>2
  <2> QED
    BY <2>1, <2>2
<1>3. /\ <<>> \in Content /\ NoFile \in Content /\ <<>> # NoFile
      /\ Len(<<>>) <= MaxRows + 1 /\ Len(NoFile) <= MaxRows + 1
  BY EmptyFacts, NoFileFacts, Numbers DEF Content
<1> HIDE DEF w, z, b
\* the active file gets v, the old one all lines
<1>4. ASSUME NEW v \in Content, Len(v) <= MaxRows + 1, NEW x \in Content,
             x # NoFile, NEW y \in Content, x \in {v, y},
             disk' = Moved(v), whole' = Known(x),
             bak' = [bak EXCEPT ![Actual] = y]
      PROVE  /\ FilesOK' /\ disk'[Actual] = v /\ whole'[Actual] = x
  <2>1. FilesOK'
    BY <1>0, <1>1, <1>4, MoveFiles
  <2> QED
    BY <1>0, <1>4, <2>1
<1>5. CASE modified /\ torn(shownActual, Actual) /\ Die /\ UNCHANGED next
  <2>1. FilesOK'
    BY <1>0, <1>5, ActualFacts, TornFiles
  <2> QED
    BY <1>0, <1>5, <2>1, GoneInv DEF Die
<1>6. CASE /\ \E c \in {SubSeq(w, 1, k) : k \in 0..Len(w)} :
                disk' = [disk EXCEPT ![Actual] = w, ![n] = c]
           /\ bak' = b /\ whole' = [whole EXCEPT ![Actual] = w]
           /\ Die /\ UNCHANGED next
  <2>1. PICK k \in 0..Len(w) :
          disk' = [disk EXCEPT ![Actual] = w, ![n] = SubSeq(w, 1, k)]
    BY <1>6
  <2> DEFINE c == SubSeq(w, 1, k)
  <2>2. c \in Content /\ Len(c) <= MaxRows + 1
    BY <1>1, PrefixFacts, Numbers DEF Content
  <2>3. disk' = [disk EXCEPT ![Actual] = w, ![n] = c]
    BY <2>1
  <2> HIDE DEF c
  <2>4. whole' = [whole EXCEPT ![Actual] = w, ![n] = whole[n]]
    BY <1>0, <1>6
  <2>5. whole[n] \in Content /\ bak' = [bak EXCEPT ![Actual] = z]
    BY <1>0, <1>2, <1>6
  <2>6. FilesOK'
    BY <1>0, <1>1, <1>2, <2>2, <2>3, <2>4, <2>5, MoveFiles
  <2> QED
    BY <1>0, <1>6, <2>6, GoneInv DEF Die
<1>7. CASE /\ disk' = Moved(<<>>) /\ whole' = Known(<<>>) /\ bak' = b
           /\ Die /\ UNCHANGED next
  <2>1. FilesOK'
    BY <1>2, <1>3, <1>4, <1>7
  <2> QED
    BY <1>0, <1>7, <2>1, GoneInv DEF Die
<1>8. CASE /\ disk' \in {Moved(NoFile), Moved(<<>>)} /\ whole' = Known(<<>>)
           /\ bak' = [b EXCEPT ![Actual] = <<>>]
           /\ Die /\ next' = next + 1
  <2>1. bak' = [bak EXCEPT ![Actual] = <<>>]
    BY <1>0, <1>2, <1>8
  <2>2. FilesOK'
    BY <1>3, <1>4, <1>8, <2>1
  <2> QED
    BY <1>n, <1>8, <2>2, GoneInv DEF Die
<1>9. CASE /\ disk' = Moved(<<>>) /\ whole' = Known(<<>>) /\ bak' = b
           /\ grid' = <<Carry>> /\ current' = Actual /\ modified' = FALSE
           /\ UNCHANGED <<window, box, repeat, next>>
  <2>1. FilesOK' /\ disk'[Actual] = <<>> /\ whole'[Actual] = <<>>
    BY <1>2, <1>3, <1>4, <1>9
  <2>2. /\ grid' \in Seq(Line) /\ Len(grid') <= MaxRows + 1
        /\ Carry \in ToSet(grid')
    <3>1. /\ grid' \in Seq(Line) /\ Len(grid') = 1 /\ grid'[1] = Carry
      BY <1>9, OneLine, LineTypes
    <3>2. 1 \in DOMAIN grid'
      BY <3>1, SeqFacts
    <3> QED
      BY <3>1, <3>2, Numbers DEF ToSet
  <2>3. /\ window' = "open" /\ current' = Actual /\ current' \in Files
        /\ current' \notin Old /\ modified' \in BOOLEAN /\ box' \in BoxType
        /\ ~(box'.reminder > 0) /\ repeat' \in Nat
        /\ next' \in 1..(MaxLines + 1)
    <3>1. /\ window' = window /\ box' = box /\ repeat' = repeat
          /\ current' = Actual /\ modified' = FALSE /\ next' = next
      BY <1>9
    <3>2. /\ box \in BoxType /\ repeat \in Nat /\ Actual \notin Old
          /\ next \in 1..(MaxLines + 1)
      BY Before, Numbers
    <3>3. ~(box'.reminder > 0)
      BY <1>0, <3>1
    <3>4. next' \in 1..(MaxLines + 1)
      BY <1>n, <3>1, <3>2
    <3> QED
      BY <1>0, <3>1, <3>2, <3>3, <3>4
  <2> QED
    BY <1>3, <2>1, <2>2, <2>3, OpenInv
<1>10. CASE /\ disk' = Moved(<<Fresh(next)>>) /\ whole' = Known(<<Fresh(next)>>)
            /\ bak' = [b EXCEPT ![Actual] = <<>>]
            /\ grid' = remarked(<<Fresh(next)>>, TRUE)
            /\ current' = Actual /\ modified' = FALSE
            /\ next' = next + 1
            /\ UNCHANGED <<window, box, repeat>>
  <2> DEFINE g == <<Fresh(next)>>
  <2>1. g \in Seq(Line) /\ Len(g) = 1
    BY <1>n, OneLine, LineTypes
  <2>2. g \in Content /\ g # NoFile /\ Len(g) <= MaxRows + 1
    <3> HIDE DEF g
    <3> QED
      BY <2>1, SeqFacts, Numbers DEF Content
  <2>3. bak' = [bak EXCEPT ![Actual] = <<>>]
    BY <1>0, <1>2, <1>10
  <2>4. disk' = Moved(g) /\ whole' = Known(g) /\ grid' = remarked(g, TRUE)
    BY <1>10
  <2> HIDE DEF g
  <2>5. FilesOK' /\ disk'[Actual] = g /\ whole'[Actual] = g
    BY <1>3, <1>4, <2>2, <2>3, <2>4
  <2>6. /\ grid' \in Seq(Line) /\ Len(grid') <= MaxRows + 1
        /\ SameBut(g, grid')
    BY <2>1, <2>2, <2>4, RemarkFacts
  <2>7. /\ window' = "open" /\ current' = Actual /\ current' \in Files
        /\ current' \notin Old /\ modified' \in BOOLEAN /\ box' \in BoxType
        /\ ~(box'.reminder > 0) /\ repeat' \in Nat
        /\ next' \in 1..(MaxLines + 1)
    <3>1. /\ window' = window /\ box' = box /\ repeat' = repeat
          /\ current' = Actual /\ modified' = FALSE /\ next' = next + 1
      BY <1>10
    <3>2. /\ box \in BoxType /\ repeat \in Nat /\ Actual \notin Old
          /\ next \in 1..(MaxLines + 1)
      BY Before, Numbers
    <3>3. ~(box'.reminder > 0)
      BY <1>0, <3>1
    <3>4. next' \in 1..(MaxLines + 1)
      BY <1>n, <3>1, <3>2
    <3> QED
      BY <1>0, <3>1, <3>2, <3>3, <3>4
  <2> QED
    BY <2>2, <2>5, <2>6, <2>7, OpenInv
<1> QED
  BY <1>5, <1>6, <1>7, <1>8, <1>9, <1>10 DEF newLogbook, w, b

\* The window opens on the active logbook, created if it is missing.
LEMMA WindowOpenInv ==
  ASSUME IInv, Open
  PROVE  IInv'
<1> DEFINE d == IF disk[Actual] = NoFile THEN <<>> ELSE disk[Actual]
<1>0. /\ disk \in [Files -> Content] /\ bak \in [Files -> Content]
      /\ whole \in [Files -> Content] /\ Bounded /\ CopyOnDisk /\ Backed
      /\ Actual \in Files
  BY Before DEF FilesOK
<1>1. /\ window' = "open" /\ disk' = [disk EXCEPT ![Actual] = d]
      /\ grid' = disk'[Actual] /\ current' = Actual /\ modified' = FALSE
      /\ whole' = [f \in Files |-> IF f = Actual THEN disk'[f] ELSE whole[f]]
      /\ UNCHANGED <<bak, box, repeat, next>> /\ box = NoBox
  BY DEF Open, Seen, IInv, Reminded
<1>2. d \in Content /\ d # NoFile /\ Len(d) <= MaxRows + 1
  BY <1>0, EmptyFacts, Numbers DEF Content, Bounded
<1> HIDE DEF d
<1>3. d \in Seq(Line)
  BY <1>2, ContentFacts
<1>4. /\ disk'[Actual] = d /\ whole'[Actual] = d
      /\ \A f \in Files \ {Actual} : disk'[f] = disk[f] /\ whole'[f] = whole[f]
  BY <1>0, <1>1
<1>5. FilesOK'
  <2>1. /\ disk' \in [Files -> Content] /\ bak' \in [Files -> Content]
        /\ whole' \in [Files -> Content]
    BY <1>0, <1>1, <1>2
  <2>2. Bounded' /\ CopyOnDisk' /\ Backed'
    BY <1>0, <1>1, <1>2, <1>4 DEF Bounded, CopyOnDisk, Backed
  <2> QED
    BY <2>1, <2>2 DEF FilesOK
<1>6. SameBut(d, d)
  BY DEF SameBut
<1>7. /\ current' \in Files /\ current' \notin Old /\ box' \in BoxType
      /\ ~(box'.reminder > 0) /\ repeat' \in Nat
      /\ next' \in 1..(MaxLines + 1)
  BY <1>0, <1>1, Before, Numbers DEF NoBox
<1> QED
  BY <1>1, <1>2, <1>3, <1>4, <1>5, <1>6, <1>7, OpenInv

LEMMA CloseInv ==
  ASSUME IInv, Close \/ Crash
  PROVE  IInv'
<1>0. window = "open" /\ next' = next
  BY DEF Close, Crash, Ready
<1>1. CASE torn(grid, current) /\ Die
  BY <1>0, <1>1, Before, TornFiles, GoneInv DEF Die
<1>2. CASE /\ update(grid, current) /\ Seen({current})
           /\ Gone("closed") /\ repeat' \in {0, repeat}
  <2>1. disk[current] # NoFile /\ current \in Files
    BY <1>0, Before
  <2>2. FilesOK'
    BY <1>0, <1>2, <2>1, Before, UpdateFiles
  <2> QED
    BY <1>0, <1>2, <2>2, Before, GoneInv
<1>3. CASE /\ UNCHANGED files
           /\ \/ Gone("closed") /\ repeat' \in {0, repeat}
              \/ Die
  <2>1. FilesOK'
    BY <1>3, Before DEF files, FilesOK, Bounded, CopyOnDisk, Backed
  <2> QED
    BY <1>0, <1>3, <2>1, Before, GoneInv DEF Die
<1> QED
  BY <1>1, <1>2, <1>3 DEF Close, Crash

LEMMA InitInv == Init => IInv
<1> SUFFICES ASSUME Init PROVE IInv
  OBVIOUS
<1>1. /\ Actual \in Files /\ NoFile \in Content /\ NoBox \in BoxType
      /\ NoBox.reminder = 0 /\ Len(NoFile) <= MaxRows + 1
  BY NoFileFacts, Numbers DEF Files, Content, NoBox, BoxType
<1>2. TypeOK
  <2>1. /\ disk \in [Files -> Content] /\ bak \in [Files -> Content]
        /\ whole \in [Files -> Content]
    BY <1>1 DEF Init
  <2>2. grid \in Seq(Line) /\ Len(grid) <= MaxRows + 1
    BY EmptyFacts, Numbers DEF Init
  <2>3. /\ window = "closed" /\ current \in Files /\ modified \in BOOLEAN
        /\ box \in BoxType
    BY <1>1 DEF Init
  <2>4. repeat \in Nat /\ next \in 1..(MaxLines + 1)
    BY Numbers DEF Init
  <2> QED
    BY <2>1, <2>2, <2>3, <2>4 DEF TypeOK, BoxType
<1>3. Bounded /\ CopyOnDisk /\ Backed
  BY <1>1 DEF Init, Bounded, CopyOnDisk, Backed
<1>4. OpenFiles /\ OldShown /\ Reminded /\ EditsAreMarked
  BY <1>1 DEF Init, OpenFiles, OldShown, Reminded, EditsAreMarked
<1> QED
  BY <1>2, <1>3, <1>4 DEF IInv

LEMMA NextInv == IInv /\ [Next]_vars => IInv'
<1> SUFFICES ASSUME IInv, [Next]_vars PROVE IInv'
  OBVIOUS
<1>1. CASE Next
  BY <1>1, AppendRowInv, AfterReminderInv, UserInv, AnswerInv, SaveInv,
     SelectInv, NewLogbookNotInv, NewLogbookInv, WindowOpenInv, CloseInv
  DEF Next
<1>2. CASE UNCHANGED vars
  <2>1. TypeOK'
    BY <1>2 DEF vars, IInv, TypeOK
  <2>2. /\ Bounded' /\ CopyOnDisk' /\ Backed' /\ OpenFiles' /\ OldShown'
        /\ Reminded' /\ EditsAreMarked'
    BY <1>2 DEF vars, IInv, Bounded, CopyOnDisk, Backed, OpenFiles, OldShown,
                Reminded, EditsAreMarked
  <2> QED
    BY <2>1, <2>2 DEF IInv
<1> QED
  BY <1>1, <1>2

\* The inductive invariant holds in every reachable state.
THEOREM Invariance == Spec => []IInv
<1> QED
  BY InitInv, NextInv, PTL DEF Spec

\* Type correctness of the grid, the files and the message boxes: a shown file
\* exists, and no grid outgrows its bound.
THEOREM Typing == Spec => []TypeOK
<1>1. IInv => TypeOK
  BY DEF IInv
<1> QED
  BY <1>1, Invariance, PTL

\* What differs between the grid and its file is marked as modified, so that
\* update writes it.
THEOREM Marked == Spec => []EditsAreMarked
<1>1. IInv => EditsAreMarked
  BY DEF IInv
<1> QED
  BY <1>1, Invariance, PTL

\* Wherever the process dies, in update, in newLogbook or between them, what
\* the user last saw of a file is in the file or in its .Bak file.
THEOREM CopySurvives == Spec => []CopyOnDisk
<1>1. IInv => CopyOnDisk
  BY DEF IInv
<1> QED
  BY <1>1, Invariance, PTL
-----------------------------------------------------------------------------
(* What a step leaves in the files.                                        *)

OldKept ==
  \A f \in Old : disk[f] # NoFile => ids(disk'[f]) \subseteq ids(disk[f])

\* A line may leave the active file.
MayLeave(l) ==
  \/ \E f \in Old : l \in ids(disk'[f])
  \/ current = Actual /\ l \notin ids(grid)
  \/ box.reminder \in DOMAIN grid /\ l = grid[box.reminder].id
       /\ box'.reminder = 0

ActiveKept ==
  window' # "dead" =>
    \A l \in ids(disk[Actual]) \ ids(disk'[Actual]) : MayLeave(l)

LEMMA SameFiles ==
  ASSUME disk' = disk
  PROVE  OldKept /\ ActiveKept
BY DEF OldKept, ActiveKept

LEMMA UpdateKeeps ==
  ASSUME IInv, window = "open",
         NEW g \in Seq(Line), Len(g) <= MaxRows + 1, NEW f \in {Actual, current},
         update(g, f) \/ (torn(g, f) /\ Die),
         f \in Old => g = grid,
         f = Actual => \A l \in ids(disk[Actual]) \ ids(g) : MayLeave(l)
  PROVE  OldKept /\ ActiveKept
<1>1. /\ disk \in [Files -> Content] /\ Actual \in Files /\ f \in Files
      /\ Old \subseteq Files /\ Actual \notin Old
  BY Before, Numbers DEF FilesOK
<1>2. f \in Old => ids(g) \subseteq ids(disk[f])
  BY <1>1 DEF IInv, OldShown
<1>3. CASE update(g, f)
  <2>1. disk'[f] = g /\ \A k \in Files : k # f => disk'[k] = disk[k]
    BY <1>1, <1>3 DEF update
  <2>2. OldKept
    BY <1>1, <1>2, <2>1 DEF OldKept
  <2>3. ActiveKept
    BY <1>1, <2>1 DEF ActiveKept
  <2> QED
    BY <2>2, <2>3
<1>4. CASE torn(g, f) /\ Die
  <2>1. /\ ids(disk'[f]) \subseteq ids(g)
        /\ \A k \in Files : k # f => disk'[k] = disk[k]
    BY <1>4, TornFiles
  <2>2. OldKept
    BY <1>1, <1>2, <2>1 DEF OldKept
  <2>3. ActiveKept
    BY <1>4 DEF ActiveKept, Die, Gone
  <2> QED
    BY <2>2, <2>3
<1> QED
  BY <1>3, <1>4

LEMMA ShownKeeps ==
  ASSUME IInv, window = "open",
         update(grid, current) \/ (torn(grid, current) /\ Die)
  PROVE  OldKept /\ ActiveKept
<1>1. current = Actual => \A l \in ids(disk[Actual]) \ ids(grid) : MayLeave(l)
  BY DEF MayLeave
<1> QED
  BY <1>1, Before, UpdateKeeps

LEMMA AppendKeeps ==
  ASSUME IInv, NEW remark \in BOOLEAN, appendRow(remark)
  PROVE  OldKept /\ ActiveKept
<1> DEFINE g == shownActual
           h == Append(g, Fresh(next))
<1>1. window = "open" /\ Len(g) < MaxRows /\ next \in 0..MaxLines
  BY Before, Numbers DEF appendRow
<1>2. g \in Seq(Line) /\ Len(g) \in Nat
  BY <1>1, ActualFacts
<1>3. /\ h \in Seq(Line) /\ Len(h) = Len(g) + 1 /\ ids(g) \subseteq ids(h)
  BY <1>1, <1>2, AppendFacts, LineTypes
<1>4. update(h, Actual) \/ (torn(h, Actual) /\ Die) \/ disk' = disk
  BY DEF appendRow, WriteAndShow, files
<1>5. Len(h) <= MaxRows + 1
  <2> HIDE DEF g, h
  <2> QED
    BY <1>1, <1>2, <1>3, Numbers
<1>6. \A l \in ids(disk[Actual]) \ ids(h) : MayLeave(l)
  <2>1. ids(disk[Actual]) \subseteq ids(g) \/ (current = Actual /\ g = grid)
    BY DEF shownActual
  <2> HIDE DEF g, h
  <2> QED
    BY <1>3, <2>1 DEF MayLeave
<1> HIDE DEF g, h
<1> QED
  BY <1>1, <1>3, <1>4, <1>5, <1>6, Numbers, UpdateKeeps, SameFiles

LEMMA ReminderKeeps ==
  ASSUME IInv, AfterReminder
  PROVE  OldKept /\ ActiveKept
<1> DEFINE h == Append(grid, Blank)
           l == Fresh(box.id)
           g == [h EXCEPT ![box.reminder] = l]
<1>1. /\ box.reminder > 0 /\ box.reminder # 0
      /\ update(g, Actual) \/ (torn(g, Actual) /\ Die)
  BY DEF AfterReminder, WriteAndShow
<1>2. /\ window = "open" /\ current = Actual
      /\ grid \in Seq(Line) /\ Len(grid) <= MaxRows /\ Len(grid) \in Nat
  BY <1>1, Before DEF IInv, Reminded, NoBox
<1>3. l \in Line
  BY Before, LineTypes DEF BoxType
<1>4. /\ h \in Seq(Line) /\ Len(h) = Len(grid) + 1
      /\ \A i \in DOMAIN grid : i \in DOMAIN h /\ h[i] = grid[i]
  <2>1. /\ h \in Seq(Line) /\ Len(h) = Len(grid) + 1
        /\ \A i \in DOMAIN grid : h[i] = grid[i]
    BY <1>2, AppendFacts, LineTypes
  <2> HIDE DEF h
  <2>2. DOMAIN h = 1..Len(h) /\ DOMAIN grid = 1..Len(grid)
    BY <1>2, <2>1, SeqFacts
  <2> QED
    BY <1>2, <2>1, <2>2
<1> HIDE DEF h, l
<1>5. /\ g \in Seq(Line) /\ Len(g) = Len(h) /\ DOMAIN g = DOMAIN h
      /\ \A i \in DOMAIN h : g[i] = IF i = box.reminder THEN l ELSE h[i]
  BY <1>3, <1>4, ExceptFacts
<1> HIDE DEF g
<1>6. ASSUME NEW k \in ids(disk[Actual]) \ ids(g), k \in ids(grid),
             box'.reminder = 0
      PROVE  MayLeave(k)
  <2>1. PICK i \in DOMAIN grid : grid[i].id = k /\ k # 0
    BY <1>2, <1>6, SeqFacts
  <2>2. i = box.reminder
    <3>1. SUFFICES ASSUME i # box.reminder PROVE FALSE
      OBVIOUS
    <3>2. i \in DOMAIN g /\ g[i] = grid[i]
      BY <1>4, <1>5, <3>1
    <3>3. k \in ids(g)
      BY <1>5, <2>1, <3>2, SeqFacts
    <3> QED
      BY <1>6, <3>3
  <2> QED
    BY <1>6, <2>1, <2>2 DEF MayLeave
<1>7. CASE update(g, Actual) /\ box'.reminder = 0
  <2>1. \A k \in ids(disk[Actual]) \ ids(g) : MayLeave(k)
    BY <1>2, <1>6, <1>7 DEF MayLeave
  <2>2. Len(g) <= MaxRows + 1
    BY <1>2, <1>4, <1>5, Numbers
  <2> QED
    BY <1>2, <1>5, <1>7, <2>1, <2>2, Numbers, UpdateKeeps
<1>8. CASE torn(g, Actual) /\ Die
  <2>1. \A k \in ids(disk[Actual]) \ ids(g) : MayLeave(k)
    <3>1. box'.reminder = 0
      BY <1>8 DEF Die, Gone, NoBox
    <3> QED
      BY <1>2, <1>6, <3>1 DEF MayLeave
  <2>2. Len(g) <= MaxRows + 1
    BY <1>2, <1>4, <1>5, Numbers
  <2> QED
    BY <1>2, <1>5, <1>8, <2>1, <2>2, Numbers, UpdateKeeps
<1>9. update(g, Actual) => box'.reminder = 0 \/ (torn(g, Actual) /\ Die)
  <2>1. box \in BoxType
    BY Before
  <2>2. \/ box' = [box EXCEPT !.reminder = 0, !.id = 0, !.remark = FALSE]
        \/ torn(g, Actual) /\ Die
    BY DEF AfterReminder, WriteAndShow, g, h, l
  <2> QED
    BY <2>1, <2>2 DEF BoxType
<1> QED
  BY <1>1, <1>7, <1>8, <1>9 DEF g

LEMMA SelectKeeps ==
  ASSUME IInv, NEW f \in Files, selectLogbook(f)
  PROVE  OldKept /\ ActiveKept
<1>1. window = "open"
  BY DEF selectLogbook, Ready
<1>2. \/ update(grid, current) \/ (torn(grid, current) /\ Die)
      \/ disk' = disk
  BY DEF selectLogbook
<1> QED
  BY <1>1, <1>2, ShownKeeps, SameFiles

LEMMA SaveKeeps ==
  ASSUME IInv, Save \/ ShowOverview \/ Close
  PROVE  OldKept /\ ActiveKept
<1>1. window = "open"
  BY DEF Save, ShowOverview, Close, Ready
<1>2. \/ update(grid, current) \/ (torn(grid, current) /\ Die)
      \/ disk' = disk
  BY DEF Save, ShowOverview, Close, WriteAndShow, files
<1> QED
  BY <1>1, <1>2, ShownKeeps, SameFiles

LEMMA OpenKeeps ==
  ASSUME IInv, Open
  PROVE  OldKept /\ ActiveKept
<1>1. /\ disk \in [Files -> Content] /\ Actual \in Files
      /\ Old \subseteq Files /\ Actual \notin Old
  BY Before, Numbers DEF FilesOK
<1>2. /\ \A f \in Old : disk'[f] = disk[f]
      /\ disk[Actual] # NoFile => disk'[Actual] = disk[Actual]
  BY <1>1 DEF Open
<1> QED
  BY <1>2, NoFileFacts DEF OldKept, ActiveKept

LEMMA MoveKeeps ==
  ASSUME IInv, NEW n \in Old, NEW zero \in BOOLEAN, newLogbook(n, zero)
  PROVE  OldKept /\ ActiveKept
<1> DEFINE w == IF modified THEN shownActual ELSE disk[Actual]
<1>1. /\ disk \in [Files -> Content] /\ Actual \in Files /\ n \in Files
      /\ Old \subseteq Files /\ Actual \notin Old /\ n # Actual
  BY Before, Numbers DEF FilesOK
<1>2. window = "open" /\ disk[n] = NoFile
  BY DEF newLogbook, Ready
<1>3. /\ shownActual \in Seq(Line) /\ Len(shownActual) <= MaxRows + 1
  BY <1>2, ActualFacts
<1>4. \A l \in ids(disk[Actual]) \ ids(w) : current = Actual /\ l \notin ids(grid)
  BY DEF shownActual
<1>5. \A l \in ids(disk[Actual]) \ ids(shownActual) :
        current = Actual /\ l \notin ids(grid)
  BY DEF shownActual
<1>6. \/ torn(shownActual, Actual) /\ Die
      \/ Die /\ \E u, v : disk' = [disk EXCEPT ![Actual] = u, ![n] = v]
      \/ \E u : disk' = [disk EXCEPT ![Actual] = u, ![n] = w]
  BY DEF newLogbook
<1> HIDE DEF w
<1>7. CASE torn(shownActual, Actual) /\ Die
  BY <1>1, <1>2, <1>3, <1>5, <1>7, UpdateKeeps DEF MayLeave
<1>8. CASE Die /\ \E u, v : disk' = [disk EXCEPT ![Actual] = u, ![n] = v]
  <2>1. \A f \in Old : f # n => disk'[f] = disk[f]
    BY <1>1, <1>8
  <2> QED
    BY <1>2, <1>8, <2>1 DEF OldKept, ActiveKept, Die, Gone
<1>9. CASE \E u : disk' = [disk EXCEPT ![Actual] = u, ![n] = w]
  <2>1. disk'[n] = w /\ \A f \in Old : f # n => disk'[f] = disk[f]
    BY <1>1, <1>9
  <2>2. OldKept
    BY <1>2, <2>1 DEF OldKept
  <2>3. ActiveKept
    BY <1>4, <2>1 DEF ActiveKept, MayLeave
  <2> QED
    BY <2>2, <2>3
<1> QED
  BY <1>6, <1>7, <1>8, <1>9

LEMMA StepKeeps ==
  ASSUME IInv, [Next]_vars
  PROVE  OldKept /\ ActiveKept
<1>1. CASE \/ AnswerNo \/ AnswerYes \/ newLogbookNot \/ Crash
           \/ \E i \in DOMAIN grid :
                \/ Edit(i) \/ deleteRows(i)
                \/ \E global \in BOOLEAN : deleteRow(i, global)
           \/ UNCHANGED vars
  <2>1. disk' = disk
    BY <1>1 DEF AnswerNo, AnswerYes, newLogbookNot, Crash, Edit, deleteRows,
                deleteRow, files, vars
  <2> QED
    BY <2>1, SameFiles
<1> QED
  BY <1>1, AppendKeeps, ReminderKeeps, SelectKeeps, SaveKeeps, OpenKeeps,
     MoveKeeps DEF Next

\* No line is added to an old logbook, whatever timer, sentence or message
\* appends one while it is shown: appendRow switches to the active file
\* first, and newLogbook copies only to a name no file has.
THEOREM OldOnesKept == Spec => OldLogbooksGrowNot
<1>1. IInv /\ [Next]_vars => OldKept
  BY StepKeeps
<1>2. IInv /\ [Next]_vars =>
        [disk' # disk =>
           \A f \in Old : disk[f] # NoFile => ids(disk'[f]) \subseteq ids(disk[f])]_vars
  BY <1>1 DEF OldKept
<1> QED
  BY <1>2, Invariance, PTL DEF Spec, OldLogbooksGrowNot

\* A line leaves the active logbook's file only by newLogbook, by the user, by
\* the death of the process, or under the line of appendRow's box.
THEOREM ActiveOnesKept == Spec => LinesKept
<1>1. IInv /\ [Next]_vars =>
        [disk' # disk /\ window' # "dead" =>
           \A l \in ids(disk[Actual]) \ ids(disk'[Actual]) :
             \/ \E f \in Old : l \in ids(disk'[f])
             \/ current = Actual /\ l \notin ids(grid)
             \/ box.reminder \in DOMAIN grid /\ l = grid[box.reminder].id
                  /\ box'.reminder = 0]_vars
  BY StepKeeps DEF ActiveKept, MayLeave
<1> QED
  BY <1>1, Invariance, PTL DEF Spec, LinesKept
=============================================================================
