----------------------------- MODULE GridTotals -----------------------------
(***************************************************************************)
(* The columns of the logbook grid that carry a running total: distance,    *)
(* engine hours (and the generator's and the watermaker's), tanks (fuel and *)
(* the battery banks) and water.  Logbook::getModifiedCellValue runs after  *)
(* every change of a cell, Logbook::computeCell carries a change down the   *)
(* grid, appendRow and newLogbook carry the totals on, deleteRows has the   *)
(* rest recalculated.                                                       *)
(*                                                                         *)
(* The columns do not touch each other: a behaviour follows one of them,    *)
(* kind.  Hours are counted in minutes.  A blank cell counts as no entry;   *)
(* the cells of the totals themselves are never blank.                      *)
(***************************************************************************)
EXTENDS Integers, SequencesExt

CONSTANTS
  Kinds,       \* the columns of this instance
  Entries,     \* Entries[k]: what the user types into the column of kind k
  Totals,      \* Totals[k]: what he types into its total
  Capacity,    \* opt->fuelTank, opt->waterTank, opt->bank1, opt->bank2
  Output,      \* opt->watermaker: what it makes in an hour
  Places,      \* positions, as points on a meridian; 0 is "no position"
  Short,       \* pairs of totals whose difference in floating-point hours
               \* falls just below the whole hour it should be
  Garbage,     \* what an uninitialised double may hold
  MaxRows,     \* bounds: the lines in the grid,
  MaxLines,    \* the lines ever written to column k, MaxLines[k],
  MaxTotal     \* the water in the first line

ASSUME KindsAssumption == Kinds \subseteq {"distance", "hours", "tank", "water"}
ASSUME EntriesAssumption == \A k \in Kinds : Entries[k] \cup Totals[k] \subseteq Int
ASSUME BoundsAssumption ==
  /\ {Capacity, Output, MaxTotal, MaxRows} \subseteq Nat /\ \A k \in Kinds : MaxLines[k] \in Nat
  /\ Places \subseteq Nat \ {0} /\ Garbage \subseteq Int

VARIABLES
  kind,        \* the column followed
  rows,        \* the grid
  lines,       \* lines written so far: the next line is lines + 1
  crashed      \* the process has died

vars == <<kind, rows, lines, crashed>>

Nowhere == 0
POSITION == 7          \* fieldsGlobal: DISTANCE is 5, DTOTAL is 6

\* entry and total: the two cells; blank: the entry's cell is empty; sixty: it
\* reads hh:60; maker: column WATERMO; byHand: the user's last word on the
\* line was a total, or an entry that was refused
Line == [id: Nat, entry: Int, total: Int, blank: BOOLEAN,
         sixty: BOOLEAN, maker: Int, pos: Places \cup {Nowhere},
         byHand: BOOLEAN]

TypeOK ==
  /\ kind \in Kinds
  /\ rows \in Seq(Line) /\ Len(rows) <= MaxRows
  /\ kind = "hours" => \A i \in DOMAIN rows : rows[i].entry \in Nat \cup Entries["hours"]
  /\ lines \in 0..MaxLines[kind]
  /\ crashed \in BOOLEAN
-----------------------------------------------------------------------------
(* Reading cells and carrying totals down.                                 *)

\* Logbook::calculateDistance, north and east of the origin
calculateDistance(p, q) ==
  IF p = Nowhere \/ q = Nowhere THEN 0 ELSE IF p > q THEN p - q ELSE q - p

\* The amounts computeCell reads in the lines from row on.  A blank cell
\* leaves double t as it is: the line before's amount, or at first garbage.
Read(rs, row, g) ==
  LET t[i \in row..Len(rs)] == IF ~rs[i].blank THEN rs[i].entry
                               ELSE IF i = row THEN g ELSE t[i - 1]
  IN t

\* The same where t1, which is initialised, is read.
Whole(rs, row) == [i \in row..Len(rs) |-> rs[i].entry]

\* Variant (as everywhere, named after the definition that follows it)
computeCellOneLine(rs, row, base, amount) ==
  [i \in DOMAIN rs |->
     IF i # row THEN rs[i]
     ELSE [rs[i] EXCEPT !.total = IF i = 1 THEN base ELSE
             rs[i - 1].total + amount[i] + rs[i].maker]]

\* Logbook::computeCell: new totals from row on; base is that of the first
\* line of the grid.
computeCell(rs, row, base, amount) ==
  LET tot[i \in DOMAIN rs] ==
        IF i < row THEN rs[i].total
        ELSE IF i = 1 THEN base ELSE tot[i - 1] + amount[i] + rs[i].maker
  IN [i \in DOMAIN rs |-> [rs[i] EXCEPT !.total = tot[i]]]

\* The loop of getModifiedCellValue for POSITION, which stops above the first
\* line without a position.
recalculatePosition(rs, row) ==
  LET stop == CHOOSE i \in row..Len(rs) :
                /\ i = Len(rs) \/ rs[i + 1].pos = Nowhere
                /\ \A j \in row..(i - 1) : rs[j + 1].pos # Nowhere
      dist == [i \in row..stop |-> calculateDistance(rs[i - 1].pos, rs[i].pos)]
      tot[i \in 1..stop] == IF i < row THEN rs[i].total ELSE tot[i - 1] + dist[i]
  IN [i \in DOMAIN rs |->
        IF i \in row..stop THEN [rs[i] EXCEPT !.entry = dist[i], !.total = tot[i]]
        ELSE rs[i]]

\* computeCell reads time[0] of an empty array at a blank cell of hours: the
\* process dies, else the grid becomes rs.
Store(rs, from) ==
  IF kind = "hours" /\ \E i \in DOMAIN rs : i >= from /\ rs[i].blank
  THEN crashed' = TRUE /\ UNCHANGED rows
  ELSE rows' = rs /\ UNCHANGED crashed

Filled(line, v) == [line EXCEPT !.entry = v, !.blank = FALSE, !.sixty = FALSE,
                                !.byHand = FALSE]

HoursBetweenSigned(line, prev) == Filled(line, line.total - prev)

\* The hours between two totals, written back as the entry (decimalToHours)
HoursBetween(line, prev) ==
  LET d == line.total - prev IN
  [Filled(line, IF d > 0 THEN d ELSE 0) EXCEPT !.sixty = <<prev, line.total>> \in Short]
-----------------------------------------------------------------------------
(* Lines appended.                                                         *)

EmptyLine(id) == [id |-> id, entry |-> 0, total |-> 0, blank |-> FALSE,
              sixty |-> FALSE, maker |-> 0, pos |-> Nowhere, byHand |-> FALSE]

\* appendRow on an empty grid; e: the engine hours it books
FirstLine(id, e, p) ==
  [EmptyLine(id) EXCEPT !.pos = p,
                    !.total = CASE kind = "hours" -> e
                                [] kind \in {"tank", "water"} -> Capacity
                                [] OTHER -> 0]

\* appendRow below prev: the total is copied, the entry added, and the pass
\* over all columns (changeCellValue) works the entry out again from the
\* totals.
NextLine(id, prev, e, p) ==
  CASE kind = "hours" ->
         HoursBetween([EmptyLine(id) EXCEPT !.total = prev.total + e], prev.total)
    [] kind = "distance" ->
         LET d == calculateDistance(prev.pos, p)
         IN [EmptyLine(id) EXCEPT !.entry = d, !.total = prev.total + d, !.pos = p]
    [] OTHER -> [EmptyLine(id) EXCEPT !.total = prev.total]

\* Logbook::appendRow
appendRow(e, p) ==
  /\ ~crashed /\ Len(rows) < MaxRows /\ lines < MaxLines[kind]
  /\ lines' = lines + 1
  /\ rows' = Append(rows, IF rows = <<>> THEN FirstLine(lines', e, p)
                          ELSE NextLine(lines', Last(rows), e, p))
  /\ UNCHANGED <<kind, crashed>>

\* Logbook::newLogbook: the last line is copied as it is, except its distance.
newLogbook ==
  /\ ~crashed /\ rows # <<>> /\ lines < MaxLines[kind]
  /\ lines' = lines + 1
  /\ rows' = <<[Last(rows) EXCEPT !.id = lines',
                                  !.entry = IF kind = "distance" THEN 0 ELSE @]>>
  /\ UNCHANGED <<kind, crashed>>

\* Logbook::newLogbook from zero: cleared, then appendRow
newLogbookZero(e, p) ==
  /\ ~crashed /\ rows # <<>> /\ lines < MaxLines[kind]
  /\ lines' = lines + 1
  /\ rows' = <<FirstLine(lines', e, p)>>
  /\ UNCHANGED <<kind, crashed>>
-----------------------------------------------------------------------------
(* Cells changed by the user: getModifiedCellValue, one action per branch.  *)

\* What an entry in the first line makes of its total: water is added to it,
\* everything else replaces it.
firstTotal(v) == IF kind = "water" THEN rows[1].total + v ELSE v

\* A value typed into the entry's cell.
EditEntry(r, v) ==
  /\ ~crashed
  /\ r = 1 => firstTotal(v) \in 0..MaxTotal
  /\ LET rs == [rows EXCEPT ![r] = Filled(@, v)]
     IN Store(computeCell(rs, r, firstTotal(v), Read(rs, r, 0)), r)
  /\ UNCHANGED <<kind, lines>>

\* Hours with more than 59 minutes: refused, the cell reads 00:00, nothing is
\* computed.
RefuseEntry(r) ==
  /\ ~crashed /\ kind = "hours"
  /\ rows' = [rows EXCEPT ![r] = [Filled(@, 0) EXCEPT !.byHand = TRUE]]
  /\ UNCHANGED <<kind, lines, crashed>>

\* The cell is emptied: nothing is computed.  An empty distance becomes 0.
ClearEntry(r) ==
  /\ ~crashed /\ kind # "distance"
  /\ rows' = [rows EXCEPT ![r].entry = 0, ![r].blank = TRUE, ![r].sixty = FALSE]
  /\ UNCHANGED <<kind, lines, crashed>>

\* A value typed into the total's cell: the entry is what is missing to it,
\* and the lines below are computed again.  The total of the distance is
\* read-only.
EditTotal(r, c, g) ==
  LET typed == [rows[r] EXCEPT !.total = c]
      prev  == IF r = 1 THEN c ELSE rows[r - 1].total
      line  == IF kind = "hours" THEN HoursBetween(typed, prev)
               ELSE Filled(typed, c - prev)
      rs    == [rows EXCEPT ![r] = [line EXCEPT
                                        !.byHand = c # prev + line.entry + line.maker]]
  IN /\ ~crashed /\ kind # "distance"
     /\ Store(IF r = Len(rs) THEN rs
              ELSE computeCell(rs, r + 1, 0, IF kind = "water" THEN Whole(rs, r + 1)
                                            ELSE Read(rs, r + 1, g)),
              r + 1)
     /\ UNCHANGED <<kind, lines>>

\* Hours of the watermaker typed: its output m is added to the water.
EditMaker(r, m) ==
  /\ ~crashed /\ kind = "water"
  /\ r = 1 => rows[1].total \in 0..MaxTotal
  /\ LET rs == [rows EXCEPT ![r].maker = m]
     IN rows' = computeCell(rs, r, rs[1].total + rs[1].entry + m, Whole(rs, r))
  /\ UNCHANGED <<kind, lines, crashed>>

\* The position text p written into column col of a line
PutPosition(line, col, p) ==
  CASE col = POSITION     -> [line EXCEPT !.pos = p]
    [] col = POSITION - 1 -> [line EXCEPT !.total = p]
    [] col = POSITION - 2 -> [line EXCEPT !.entry = p]
    [] OTHER              -> line

\* The position dialog of line r, closed with OK: the text goes to row
\* POSITION, column selGridRow; then the column is computed again from r.
EditPosition(r, p) ==
  /\ ~crashed /\ kind = "distance"
  /\ LET rs == [i \in DOMAIN rows |-> IF i - 1 = POSITION
                                      THEN PutPosition(rows[i], r - 1, p)
                                      ELSE rows[i]]
     IN rows' = IF r = 1 THEN rs ELSE recalculatePosition(rs, r)
  /\ UNCHANGED <<kind, lines, crashed>>
-----------------------------------------------------------------------------
(* Lines deleted.                                                          *)

recalculateLogbookFromFirst(rs, row) ==
  IF row \notin DOMAIN rs THEN rs
  ELSE computeCell(rs, row, rs[row].entry, Whole(rs, row))

\* Logbook::recalculateLogbook: the first line with something to compute from
\* is computed again as if its cell had been edited, hence nothing below it is
\* if the cell is blank or reads hh:60, which is refused.
recalculateLogbook(rs, row) ==
  LET r == IF row = 1 THEN 2 ELSE row IN
  IF r \notin DOMAIN rs THEN rs
  ELSE IF kind = "distance"             THEN recalculatePosition(rs, r)
  ELSE IF kind = "hours" /\ rs[r].sixty THEN [rs EXCEPT ![r] = Filled(@, 0)]
  ELSE IF kind = "water" /\ rs[r].blank THEN computeCell(rs, r, 0, Whole(rs, r))
  ELSE IF rs[r].blank                   THEN rs
  ELSE computeCell(rs, r, 0, Read(rs, r, 0))

\* The lines whose recalculation reads the cells below r
Reads(rs, r) == r \in DOMAIN rs /\ ~rs[r].blank /\ ~rs[r].sixty

\* The lines but those of D, one after the other
without(rs, D) ==
  LET kept[n \in 0..Len(rs)] ==
        IF n = 0 THEN <<>> ELSE IF n \in D THEN kept[n - 1] ELSE Append(kept[n - 1], rs[n])
  IN kept[Len(rs)]

\* Lines D are gone; the rest is recalculated from line row.
TakeOut(D, row) ==
  LET rs   == without(rows, D)
      from == IF row = 1 THEN 2 ELSE row
  IN /\ ~crashed
     /\ Store(recalculateLogbook(rs, row),
              IF Reads(rs, from) THEN from ELSE Len(rs) + 1)
     /\ UNCHANGED <<kind, lines>>

\* Logbook::deleteRows with whole lines selected: from the line above the
\* first of them on, which is none when that is the first line.
DeleteLines(D) ==
  LET first == CHOOSE d \in D : \A e \in D : d <= e IN TakeOut(D, first - 1)

\* Logbook::deleteRows with a block of cells selected, in lines a..b: from the
\* line that follows, or the last line.
DeleteBlock(a, b) ==
  LET n == Len(rows) - (b - a + 1)
  IN TakeOut(a..b, IF a = n THEN a - 1 ELSE a)
-----------------------------------------------------------------------------
Init == kind \in Kinds /\ rows = <<>> /\ lines = 0 /\ crashed = FALSE

Next ==
  \/ \E e \in {v \in Entries["hours"] : v >= 0}, p \in Places \cup {Nowhere} :
       /\ kind # "hours" => e = 0
       /\ kind # "distance" => p = Nowhere
       /\ appendRow(e, p) \/ newLogbookZero(e, p)
  \/ newLogbook
  \/ \E r \in DOMAIN rows : \E v \in Entries[kind] : EditEntry(r, v)
  \/ \E r \in DOMAIN rows : RefuseEntry(r)
  \/ \E r \in DOMAIN rows : ClearEntry(r)
  \/ \E r \in DOMAIN rows, g \in Garbage : \E c \in Totals[kind] : EditTotal(r, c, g)
  \/ \E r \in DOMAIN rows, m \in {0, Output} : EditMaker(r, m)
  \/ \E r \in DOMAIN rows, p \in Places : EditPosition(r, p)
  \/ \E D \in (SUBSET DOMAIN rows) \ {{}} : DeleteLines(D)
  \/ \E a, b \in DOMAIN rows : a <= b /\ DeleteBlock(a, b)

Spec == Init /\ [][Next]_vars
-----------------------------------------------------------------------------
(* What the totals are good for.                                           *)

\* line i's total is the total above it and what the line itself adds
Linked(rs, i) == rs[i].total = rs[i - 1].total + rs[i].entry + rs[i].maker

Deleted == Len(rows') < Len(rows) /\ lines' = lines

\* A deletion whose recalculation does not reach what follows the gap: the
\* first line went, or a line next to the gap cannot be computed from, being
\* blank or reading hh:60.
GapLeft ==
  /\ Deleted
  /\ LET gap == CHOOSE j \in DOMAIN rows :
                  /\ j > Len(rows') \/ rows'[j].id # rows[j].id
                  /\ \A k \in 1..(j - 1) : k \in DOMAIN rows' /\ rows'[k].id = rows[k].id
     IN \/ gap = 1
        \/ \E j \in DOMAIN rows :
             /\ \E k \in {gap - 1, gap} \cap DOMAIN rows' : rows'[k].id = rows[j].id
             /\ rows[j].blank \/ rows[j].sixty

\* A new position or a deletion computes distances down to a line without a
\* position only.
StopsAbove(i) ==
  /\ kind = "distance" /\ \E k \in 2..i : rows'[k].pos = Nowhere
  /\ Deleted \/ \E r \in DOMAIN rows, p \in Places : EditPosition(r, p)

\* However lines are appended, typed over, deleted and carried to a new
\* logbook, every total stays the sum of the one above it and its own line:
\* an operation breaks no sum it found right, except on a line the user left
\* blank or whose total he typed, below a deletion whose recalculation misses
\* the gap, and below a line without a position.
TotalsAddUp ==
  [][\A i \in 2..Len(rows') :
       \/ Linked(rows', i)
       \/ rows'[i].blank \/ rows'[i].byHand
       \/ \E j \in 2..Len(rows) : rows[j].id = rows'[i].id /\ ~Linked(rows, j)
       \/ GapLeft \/ StopsAbove(i)]_vars

\* Deleting lines leaves what is left as it was: no entry changes but those of
\* distances, which are taken from the positions again, and the total of the
\* first line, from which everything is summed, is the one it had.
DeletionKeepsEntries ==
  [][Deleted =>
       \A i \in DOMAIN rows', j \in DOMAIN rows :
         rows'[i].id = rows[j].id =>
           /\ rows'[i].entry = rows[j].entry \/ kind = "distance" \/ rows[j].sixty
           /\ i = 1 => rows'[i].total = rows[j].total]_vars

=============================================================================
