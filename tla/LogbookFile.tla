---------------------------- MODULE LogbookFile -----------------------------
(***************************************************************************)
(* The lines of a logbook: the grid the user sees, the file it came from,   *)
(* and the flag modified that tells update whether to write.  The active    *)
(* logbook takes the new lines; old logbooks can be shown and edited.       *)
(*                                                                         *)
(* Handlers run one at a time, except under a message box, where timers,    *)
(* NMEA sentences and plugin messages go on.  The process can die at any    *)
(* time, also in the middle of update, between the rename of the file and   *)
(* the end of its rewriting.                                               *)
(***************************************************************************)
EXTENDS Integers, SequencesExt

CONSTANTS
  Old,       \* names for old logbooks, "until_..._logbook.txt"
  LIMIT,     \* lines from which appendRow warns: 499
  STEP,      \* further lines until it warns again: 50
  MaxRows,   \* bound on the lines of a grid
  MaxLines   \* bound on the lines ever appended

ASSUME FileAssumption ==
  /\ "logbook" \notin Old
  /\ LIMIT \in Nat \ {0}
  /\ MaxRows \in Nat /\ MaxLines \in Nat
  /\ STEP \in Nat /\ STEP > MaxRows     \* one reminder at a time

Actual == "logbook"      \* logbookData_actual
Files  == Old \cup {Actual}

\* A line is known by its number; 0 is no line that appendRow wrote.  It is as
\* it was appended, or the user has edited it, or its remark was set after it
\* was saved, or newLogbook has copied it from the last line.
Line  == [id: 0..MaxLines, text: {"new", "edited", "remark", "carry"}]
Blank == [id |-> 0, text |-> "new"]
Carry == [id |-> 0, text |-> "carry"]
Fresh(n) == [id |-> n, text |-> "new"]
NoFile == <<[id |-> -1, text |-> "new"]>>     \* no content of a file

NoBox == [reminder |-> 0, id |-> 0, remark |-> FALSE,
          confirm |-> 0, global |-> FALSE, selected |-> FALSE]

VARIABLES
  window,    \* "open", "closed", or "dead" after a crash
  grid,      \* the lines shown
  current,   \* data_locn, the file shown
  modified,  \* Logbook::modified
  disk,      \* the content of each file
  bak,       \* the content of its .Bak file
  whole,     \* history: what was last loaded from, or completely written to,
             \* each file
  box,       \* the message boxes that are up: appendRow's reminder with the
             \* row and line it will write, deleteRow's question with its row,
             \* whether m_gridGlobal holds the selection, and whether the row
             \* is still selected
  repeat,    \* the static variable of appendRow; 0 before its first use
  next       \* the number of the next line

vars == <<window, grid, current, modified, disk, bak, whole, box, repeat, next>>

files == <<disk, bak, whole>>

Content == Seq(Line) \cup {NoFile}

TypeOK ==
  /\ window \in {"open", "closed", "dead"}
  /\ grid \in Seq(Line) /\ Len(grid) <= MaxRows + 1
  /\ current \in Files
  /\ modified \in BOOLEAN
  /\ disk \in [Files -> Content]
  /\ bak \in [Files -> Content]
  /\ whole \in [Files -> Content]
  /\ box \in [reminder: 0..(MaxRows + 1), id: 0..MaxLines, remark: BOOLEAN,
              confirm: 0..(MaxRows + 1), global: BOOLEAN, selected: BOOLEAN]
  /\ repeat \in Nat
  /\ next \in 1..(MaxLines + 1)
  /\ window = "open" => disk[current] # NoFile
-----------------------------------------------------------------------------
(* update, and dying in it.                                                *)

\* the user has now seen the content of fs loaded or completely written
Seen(fs) ==
  whole' = [f \in Files |-> IF f \in fs THEN disk'[f] ELSE whole[f]]

updateRenamesOnly(g, f) ==
  /\ disk' = [disk EXCEPT ![f] = IF g = <<>> THEN g ELSE NoFile]
  /\ bak' = IF g = <<>> THEN bak ELSE [bak EXCEPT ![f] = disk[f]]

\* Logbook::update, once modified is known to be set: an empty grid truncates
\* the file, any other is written after the file is renamed
update(g, f) ==
  /\ disk' = [disk EXCEPT ![f] = g]
  /\ bak' = IF g = <<>> THEN bak ELSE [bak EXCEPT ![f] = disk[f]]

tornInPlace(g, f) ==
  /\ g # <<>>
  /\ \E n \in 0..(Len(g) - 1) : disk' = [disk EXCEPT ![f] = SubSeq(g, 1, n)]
  /\ UNCHANGED <<bak, whole>>

\* The process dies in update: the file is missing, or has some of its lines.
torn(g, f) ==
  /\ g # <<>>
  /\ \E w \in {NoFile} \cup {SubSeq(g, 1, n) : n \in 0..(Len(g) - 1)} :
       disk' = [disk EXCEPT ![f] = w]
  /\ bak' = [bak EXCEPT ![f] = disk[f]]
  /\ UNCHANGED whole

\* The end of the window: nothing of it is left but the files.
Gone(how) ==
  /\ window' = how
  /\ grid' = <<>> /\ current' = Actual /\ modified' = FALSE
  /\ box' = NoBox

Die == Gone("dead") /\ repeat' = 0

\* update writes g to f, then the grid is shown as s of file c
WriteAndShow(g, f, s, c, b, r) ==
  \/ /\ update(g, f) /\ Seen({f})
     /\ grid' = s /\ current' = c /\ modified' = FALSE
     /\ box' = b /\ repeat' = r
     /\ UNCHANGED window
  \/ torn(g, f) /\ Die

\* The user can use the window.
Ready == window = "open" /\ box = NoBox
-----------------------------------------------------------------------------
(* New lines.                                                              *)

remarked(g, remark) ==
  IF remark THEN [g EXCEPT ![Len(g)].text = "remark"] ELSE g

\* Logbook::switchToActualLogbook: loadData, without update
shownActual == IF current = Actual THEN grid ELSE disk[Actual]

\* appendRow clears the selection of m_gridGlobal; loading clears them all
deselected ==
  IF box.confirm > 0 /\ (box.global \/ current # Actual)
  THEN [box EXCEPT !.selected = FALSE] ELSE box

\* Logbook::appendRow, called by a button, a timer, a sentence or a plugin
\* message; LOGBOOK_LOG_ADDLINE_REQUEST sets the remark when it returns.  From
\* LIMIT lines on, a message box may come between reading the number of rows
\* and appending one.
appendRow(remark) ==
  /\ window = "open"
  /\ next <= MaxLines
  /\ Len(shownActual) < MaxRows
  /\ next' = next + 1
  /\ LET g == shownActual
         r == IF repeat = 0 /\ Len(g) >= LIMIT THEN Len(g) ELSE repeat
     IN  IF Len(g) >= LIMIT /\ r = Len(g)
         THEN /\ box' = [deselected EXCEPT !.reminder = Len(g) + 1,
                                           !.id = next, !.remark = remark]
              /\ repeat' = r + STEP
              /\ grid' = g /\ current' = Actual /\ modified' = TRUE
              /\ UNCHANGED <<window, files>>
         ELSE LET h == Append(g, Fresh(next))
              IN  WriteAndShow(h, Actual, remarked(h, remark), Actual,
                               deselected, r)

AfterReminderAbove ==
  /\ box.reminder > 0
  /\ LET g == [Append(grid, Blank) EXCEPT ![box.reminder - 1] = Fresh(box.id)]
     IN  WriteAndShow(g, Actual, remarked(g, box.remark), Actual,
                      [box EXCEPT !.reminder = 0, !.id = 0, !.remark = FALSE],
                      repeat)
  /\ UNCHANGED next

\* ... the rest of appendRow after the box: a row is appended at the end, and
\* the line goes into the row that was the next one before the box
AfterReminder ==
  /\ box.reminder > 0
  /\ LET g == [Append(grid, Blank) EXCEPT ![box.reminder] = Fresh(box.id)]
     IN  WriteAndShow(g, Actual, remarked(g, box.remark), Actual,
                      [box EXCEPT !.reminder = 0, !.id = 0, !.remark = FALSE],
                      repeat)
  /\ UNCHANGED next
-----------------------------------------------------------------------------
(* The user's changes of the grid.                                         *)

EditUnmarked(i) ==
  /\ Ready /\ i \in DOMAIN grid
  /\ grid' = [grid EXCEPT ![i].text = "edited"]
  /\ UNCHANGED <<window, current, modified, files, box, repeat, next>>

\* A cell is changed: changeCellValue, getModifiedCellValue
Edit(i) ==
  /\ Ready /\ i \in DOMAIN grid
  /\ grid' = [grid EXCEPT ![i].text = "edited"]
  /\ modified' = TRUE
  /\ UNCHANGED <<window, current, files, box, repeat, next>>

\* onMenuSelectionDeleteRows: several rows are several of these steps
deleteRows(i) ==
  /\ Ready /\ i \in DOMAIN grid
  /\ grid' = RemoveAt(grid, i)
  /\ modified' = TRUE
  /\ UNCHANGED <<window, current, files, box, repeat, next>>

\* Logbook::deleteRow: the row is selected in the grid of the current tab,
\* and the user is asked
deleteRow(i, global) ==
  /\ Ready /\ i \in DOMAIN grid
  /\ modified' = TRUE
  /\ box' = [box EXCEPT !.confirm = i, !.global = global, !.selected = TRUE]
  /\ UNCHANGED <<window, grid, current, files, repeat, next>>

Asked == box.confirm # 0 /\ box.reminder = 0

AnswerNo ==
  /\ Asked
  /\ box' = NoBox /\ modified' = TRUE
  /\ UNCHANGED <<window, grid, current, files, repeat, next>>

\* Without a selection deleteRows reads the first element of an empty array:
\* it may delete any row, or the process dies.
AnswerYes ==
  /\ Asked
  /\ \/ \E i \in DOMAIN grid :
          /\ box.selected => i = box.confirm
          /\ grid' = RemoveAt(grid, i)
          /\ modified' = TRUE /\ box' = NoBox
          /\ UNCHANGED <<window, current, repeat>>
     \/ ~box.selected /\ Die
  /\ UNCHANGED <<files, next>>
-----------------------------------------------------------------------------
(* Saving and changing the file.                                           *)

\* OnLogTimer, POLAR_SAVE_LOGBOOK, backup
Save ==
  /\ window = "open" /\ modified
  /\ WriteAndShow(grid, current, grid, current, box, repeat)
  /\ UNCHANGED next

\* OnNoteBookPageChangedLogbook: the overview is shown
ShowOverview ==
  /\ Ready
  /\ WriteAndShow(grid, current, grid, current, box, repeat)
  /\ UNCHANGED next

selectLogbookLate(f) ==
  /\ Ready /\ disk[f] # NoFile
  /\ IF modified
     THEN WriteAndShow(grid, f, grid, f, box, repeat)
     ELSE /\ grid' = disk[f] /\ current' = f
          /\ UNCHANGED <<window, modified, disk, bak, box, repeat>>
          /\ Seen({f})
  /\ UNCHANGED next

\* Logbook::selectLogbook and loadSelectedData: the shown file is updated, then
\* the selected one is loaded
selectLogbook(f) ==
  /\ Ready /\ disk[f] # NoFile
  /\ \/ /\ modified
        /\ \/ /\ update(grid, current) /\ Seen({current, f})
              /\ UNCHANGED <<window, box, repeat>>
              /\ grid' = disk'[f] /\ current' = f /\ modified' = FALSE
           \/ torn(grid, current) /\ Die
     \/ /\ ~modified
        /\ grid' = disk[f] /\ current' = f
        /\ UNCHANGED <<window, modified, disk, bak, box, repeat>>
        /\ Seen({f})
  /\ UNCHANGED next

\* Logbook::newLogbook, when the user says no or there are no lines
newLogbookNot ==
  /\ Ready
  /\ grid' = shownActual /\ current' = Actual
  /\ UNCHANGED <<window, modified, files, box, repeat, next>>

\* Logbook::newLogbook: the active file is updated, copied to n and cleared; the
\* new grid starts with a copy of the last line, or with a line of appendRow.
\* The process can die in the update, the copying, the clearing and the
\* update of appendRow.
newLogbook(n, zero) ==
  /\ Ready
  /\ disk[n] = NoFile /\ n # Actual
  /\ shownActual # <<>>
  /\ next <= MaxLines
  /\ LET w == IF modified THEN shownActual ELSE disk[Actual]
         b == IF modified THEN [bak EXCEPT ![Actual] = disk[Actual]] ELSE bak
         Moved(v) == [disk EXCEPT ![Actual] = v, ![n] = w]
         Known(v) == [whole EXCEPT ![Actual] = v, ![n] = w]
     IN  \/ modified /\ torn(shownActual, Actual) /\ Die /\ UNCHANGED next
         \/ /\ \E c \in {SubSeq(w, 1, k) : k \in 0..Len(w)} :
                 disk' = [disk EXCEPT ![Actual] = w, ![n] = c]
            /\ bak' = b /\ whole' = [whole EXCEPT ![Actual] = w]
            /\ Die /\ UNCHANGED next
         \/ /\ disk' = Moved(<<>>) /\ whole' = Known(<<>>) /\ bak' = b
            /\ Die /\ UNCHANGED next
         \/ /\ zero
            /\ disk' \in {Moved(NoFile), Moved(<<>>)} /\ whole' = Known(<<>>)
            /\ bak' = [b EXCEPT ![Actual] = <<>>]
            /\ Die /\ next' = next + 1
         \/ /\ ~zero
            /\ disk' = Moved(<<>>) /\ whole' = Known(<<>>) /\ bak' = b
            /\ grid' = <<Carry>> /\ current' = Actual /\ modified' = FALSE
            /\ UNCHANGED <<window, box, repeat, next>>
         \/ /\ zero
            /\ disk' = Moved(<<Fresh(next)>>) /\ whole' = Known(<<Fresh(next)>>)
            /\ bak' = [b EXCEPT ![Actual] = <<>>]
            /\ grid' = remarked(<<Fresh(next)>>, TRUE)
            /\ current' = Actual /\ modified' = FALSE
            /\ next' = next + 1
            /\ UNCHANGED <<window, box, repeat>>
-----------------------------------------------------------------------------
(* The window.                                                             *)

\* The constructor of Logbook creates a missing file; loadData
Open ==
  /\ window # "open"
  /\ window' = "open"
  /\ disk' = [disk EXCEPT ![Actual] = IF @ = NoFile THEN <<>> ELSE @]
  /\ grid' = disk'[Actual] /\ current' = Actual
  /\ modified' = FALSE
  /\ Seen({Actual})
  /\ UNCHANGED <<bak, box, repeat, next>>

\* logbookkonni_pi::shutdown, and the destructor of Logbook, which updates
Close ==
  /\ Ready
  /\ \/ modified /\ torn(grid, current) /\ Die
     \/ /\ IF modified THEN update(grid, current) /\ Seen({current})
                        ELSE UNCHANGED files
        /\ Gone("closed") /\ repeat' \in {0, repeat}
  /\ UNCHANGED next

Crash == window = "open" /\ Die /\ UNCHANGED <<files, next>>

Init ==
  /\ window = "closed"
  /\ grid = <<>> /\ current = Actual /\ modified = FALSE
  /\ disk = [f \in Files |-> NoFile]
  /\ bak = [f \in Files |-> NoFile]
  /\ whole = [f \in Files |-> NoFile]
  /\ box = NoBox /\ repeat = 0 /\ next = 1

Next ==
  \/ \E remark \in BOOLEAN : appendRow(remark)
  \/ AfterReminder
  \/ \E i \in DOMAIN grid :
       \/ Edit(i) \/ deleteRows(i)
       \/ \E global \in BOOLEAN : deleteRow(i, global)
  \/ AnswerNo \/ AnswerYes
  \/ Save \/ ShowOverview
  \/ \E f \in Files : selectLogbook(f)
  \/ newLogbookNot
  \/ \E n \in Old, zero \in BOOLEAN : newLogbook(n, zero)
  \/ Open \/ Close \/ Crash

Spec == Init /\ [][Next]_vars
-----------------------------------------------------------------------------
ids(g) == IF g = NoFile THEN {} ELSE {g[i].id : i \in DOMAIN g} \ {0}

\* Whatever differs between the grid and its file is known to be modified: the
\* next update will write it.  Excepted are the remarks set after an update
\* and the line newLogbook copies, which the code leaves unmarked.
EditsAreMarked ==
  window = "open" /\ ~modified /\ Carry \notin ToSet(grid) =>
    /\ Len(disk[current]) = Len(grid)
    /\ \A i \in DOMAIN grid :
         grid[i].text = "remark" \/ disk[current][i] = grid[i]

\* A line leaves the file of the active logbook because newLogbook moved it to
\* an old one, because the user deleted it from the grid, because the process
\* died, or because it was appended behind appendRow's box and has taken the row
\* the line of the box goes into (Logbook.cpp:1637); not otherwise because lines
\* are appended, files are switched or message boxes are up at the same time.
LinesKept ==
  [][disk' # disk /\ window' # "dead" =>
       \A l \in ids(disk[Actual]) \ ids(disk'[Actual]) :
         \/ \E f \in Old : l \in ids(disk'[f])
         \/ current = Actual /\ l \notin ids(grid)
         \/ box.reminder \in DOMAIN grid /\ l = grid[box.reminder].id
              /\ box'.reminder = 0]_vars

\* No line is ever added to an old logbook, whichever file is shown when a
\* timer, a sentence or a plugin message appends one.
OldLogbooksGrowNot ==
  [][disk' # disk =>
       \A f \in Old : disk[f] # NoFile => ids(disk'[f]) \subseteq ids(disk[f])]_vars

\* What the user last saw loaded from a file, or saved completely to it, is in
\* the file or in its .Bak file, wherever the process dies.
CopyOnDisk ==
  \A f \in Files : whole[f] \in {disk[f], bak[f]}

\* The row deleted after the question is the row the question names.
DeletesTheNamedRow ==
  [][box.confirm > 0 /\ box'.confirm = 0 /\ window' = "open" /\ grid' # grid
       => box.confirm \in DOMAIN grid /\ grid' = RemoveAt(grid, box.confirm)]_vars
=============================================================================
