---------------------------- MODULE Maintenance ----------------------------
(***************************************************************************)
(* The three lists of the tab Maintenance: Service (work that comes due     *)
(* when a total, a date or a status of the logbook says so), Repairs and    *)
(* Buy Parts.  Maintenance::checkService rates the services against one     *)
(* line of the logbook, colours their rows and the frame of the window, and *)
(* hands the priorities down to the parts of the same title.  It runs after *)
(* most edits, and every sixth time the logbook's timer fires.  Each list   *)
(* has its own file, written when the window goes if the list is marked.    *)
(*                                                                         *)
(* Abstracted: a row's colour is its priority (red 1, yellow 3, green 5,    *)
(* white 0, as long as the theme's windows are white); the colours of the   *)
(* logbook's own cells are left out.  The logbook has at least one line.    *)
(***************************************************************************)
EXTENDS Naturals, SequencesExt

CONSTANTS
  Kinds,        \* what a service may depend on, column If
  Texts,        \* what the user calls services and repairs
  Readings,     \* what a line may say: a function from columns to numbers
  Limits,       \* what the user types as warn and urgent values
  Priorities,   \* what he chooses for repairs and parts
  Stored,       \* contents of the files at first, [services, repairs, parts]
  Capacity,     \* opt->bank1, opt->bank2: charge of a full bank,
  Quarter,      \* and a quarter of it
  Hour,         \* checks are made each Hour-th time of the timer: 6
  MaxDay, MaxRows, MaxEdits   \* bounds: dates, rows of a list, edits in all

ASSUME KindsAssumption ==
  /\ Kinds \subseteq {"total", "bank", "status", "date", "days"}
  /\ "total" \in Kinds     \* what a new service depends on
ASSUME HourAssumption == Hour \in Nat \ {0}
ASSUME BoundsAssumption == {MaxDay, MaxRows, MaxEdits, Capacity, Quarter} \subseteq Nat

VARIABLES
  services, repairs, parts,               \* the grids
  servicesFile, repairsFile, partsFile,   \* service.txt, repairs.txt, buyparts.txt
  modified, modifiedR, modifiedB,         \* the marks of the three lists
  frame,        \* 0 neutral, 1 yellow, 2 red
  last,         \* the last line of the logbook
  day,          \* today
  maintenance_timer,
  open,         \* the window exists
  edits         \* edits of the lists so far

lists == <<services, repairs, parts>>
files == <<servicesFile, repairsFile, partsFile>>
marks == <<modified, modifiedR, modifiedB>>
vars == <<lists, files, marks, frame, last, day, maintenance_timer, open, edits>>

Blank == ""            \* an empty cell; no status in a line is 0
Titles == Texts \cup {Blank, "FindIt"}
Service == [text: Titles, kind: Kinds, warn: Nat, urgent: Nat, start: Nat,
            active: BOOLEAN, priority: {0, 1, 3, 5}]
Repair == [text: Titles, priority: 0..5]
Part == [title: Titles, category: {"Service", "Repairs", "plugin", Blank}, priority: 0..5]

ASSUME TypesAssumption ==
  /\ Readings \subseteq [total: Nat, bank: Nat, status: Nat]
  /\ Limits \subseteq Nat /\ Priorities \subseteq 0..5
  /\ Stored \subseteq [services: Seq(Service), repairs: Seq(Repair), parts: Seq(Part)]

TypeOK ==
  /\ {services, servicesFile} \subseteq Seq(Service)
  /\ {repairs, repairsFile} \subseteq Seq(Repair)
  /\ {parts, partsFile} \subseteq Seq(Part)
  /\ {modified, modifiedR, modifiedB, open} \subseteq BOOLEAN
  /\ frame \in 0..2 /\ last \in Readings /\ day \in 0..MaxDay
  /\ maintenance_timer \in 0..(Hour - 1) /\ edits \in 0..MaxEdits
-----------------------------------------------------------------------------
(* Rating the services.                                                    *)

\* Has s reached the limit v?
Reached(s, v, line) ==
  CASE s.kind = "total"  -> line.total >= s.start + v
    [] s.kind = "bank"   -> line.bank <= v
    [] s.kind = "status" -> line.status = v
    [] s.kind = "date"   -> day >= v
    [] s.kind = "days"   -> day >= s.start + v

\* 2 urgent, 1 to be warned of, 0 neither.  A status only is urgent.
Level(s, line) ==
  IF ~s.active THEN 0
  ELSE IF Reached(s, s.urgent, line) THEN 2
  ELSE IF s.kind # "status" /\ Reached(s, s.warn, line) THEN 1 ELSE 0

\* Maintenance::setRowBackground
setRowBackground(s, level) ==
  [s EXCEPT !.priority = IF ~s.active THEN 0 ELSE <<5, 3, 1>>[level + 1]]

\* Variants (as everywhere, named after the definition that follows them)
borderLast(ss, line) ==
  IF ss = <<>> THEN 0 ELSE Level(Last(ss), line)

\* The local variable border of checkService
border(ss, line) ==
  CHOOSE b \in 0..2 : /\ \A i \in DOMAIN ss : Level(ss[i], line) <= b
                      /\ b = 0 \/ \E i \in DOMAIN ss : Level(ss[i], line) = b

setBuyPartsPriorityFirst(ps, list) ==
  [j \in DOMAIN ps |->
     IF list # <<>> /\ list[1].text = ps[j].title
     THEN [ps[j] EXCEPT !.priority = list[1].priority] ELSE ps[j]]

\* Maintenance::setBuyPartsPriority for each row of list: the last row of a
\* text decides.
setBuyPartsPriority(ps, list) ==
  [j \in DOMAIN ps |->
     LET same == {i \in DOMAIN list : list[i].text = ps[j].title} IN
     IF same = {} THEN ps[j]
     ELSE [ps[j] EXCEPT !.priority = list[Max(same)].priority]]

Rated(ss, line) ==
  [i \in DOMAIN ss |-> setRowBackground(ss[i], Level(ss[i], line))]

\* Maintenance::checkService on the lists ss and ps and a line
checkService(ss, ps, line) ==
  /\ services' = Rated(ss, line)
  /\ parts' = setBuyPartsPriority(ps, Rated(ss, line))
  /\ frame' = border(ss, line)

\* Maintenance::checkRepairs
checkRepairs(rs, ps) ==
  /\ repairs' = rs
  /\ parts' = setBuyPartsPriority(ps, rs)
-----------------------------------------------------------------------------
(* Edits of Service.                                                       *)

Edit == /\ open /\ edits < MaxEdits
        /\ edits' = edits + 1
        /\ UNCHANGED <<files, last, day, maintenance_timer, open>>

\* What cellCollChanged fills in for a new choice in column If: the warn
\* value, which is then copied to the urgent value.
chosen(s, k) ==
  CASE k = "total"  -> [s EXCEPT !.kind = k, !.start = last.total, !.warn = 1, !.urgent = 1]
    [] k = "bank"   -> [s EXCEPT !.kind = k, !.start = Capacity, !.warn = Quarter, !.urgent = Quarter]
    [] k = "status" -> [s EXCEPT !.kind = k, !.warn = 0, !.urgent = 0]
    [] k = "date"   -> [s EXCEPT !.kind = k, !.start = 0, !.warn = day + 1, !.urgent = day + 1]
    [] k = "days"   -> [s EXCEPT !.kind = k, !.start = day, !.warn = 1, !.urgent = 1]

\* The line is rated before it is made active: it stays white.
addLine ==
  /\ Edit /\ Len(services) < MaxRows
  /\ modified' = TRUE
  /\ LET new == chosen([text |-> Blank, kind |-> "total", warn |-> 0, urgent |-> 0,
                        start |-> 0, active |-> FALSE, priority |-> 5], "total")
         rated == Rated(Append(services, new), last)
     IN /\ services' = [rated EXCEPT ![Len(rated)].active = TRUE]
        /\ parts' = setBuyPartsPriority(parts, rated)
        /\ frame' = border(Append(services, new), last)
  /\ UNCHANGED <<repairs, modifiedR, modifiedB>>

ChangeService(i, s) ==
  /\ Edit
  /\ modified' = TRUE
  /\ checkService([services EXCEPT ![i] = s], parts, last)
  /\ UNCHANGED <<repairs, modifiedR, modifiedB>>

\* LogbookDialog::onGridCellServiceChange, by column
EditIf(i) == \E k \in Kinds : ChangeService(i, chosen(services[i], k))
EditWarn(i) == \E v \in Limits :
                 ChangeService(i, [services[i] EXCEPT !.warn = v, !.urgent = v])
EditUrgent(i) == \E v \in Limits : ChangeService(i, [services[i] EXCEPT !.urgent = v])
EditActive(i) == ChangeService(i, [services[i] EXCEPT !.active = ~@])
EditText(i) ==
  /\ Edit
  /\ modified' = TRUE
  /\ \E t \in Texts : services' = [services EXCEPT ![i].text = t]
  /\ UNCHANGED <<repairs, parts, frame, modifiedR, modifiedB>>

\* A fixed date is chosen in a dialog; the list is not marked.
PickDate(i) ==
  /\ Edit /\ services[i].kind = "date"
  /\ \E v \in 0..(MaxDay + 1) :
       \/ checkService([services EXCEPT ![i].warn = v, ![i].urgent = v], parts, last)
       \/ checkService([services EXCEPT ![i].urgent = v], parts, last)
  /\ UNCHANGED <<repairs, marks>>

setRowDoneKeepsStart(s) == s

\* Maintenance::setRowDone
setRowDone(s) ==
  CASE s.kind = "total"  -> [s EXCEPT !.start = last.total]
    [] s.kind = "bank"   -> [s EXCEPT !.start = last.bank]
    [] s.kind = "status" -> [s EXCEPT !.active = FALSE]
    [] s.kind = "date"   -> [s EXCEPT !.active = FALSE, !.warn = day, !.urgent = day, !.start = day]
    [] s.kind = "days"   -> [s EXCEPT !.start = day]

\* "Service done": the list is not marked.
ServiceDone(i) ==
  /\ Edit
  /\ checkService([services EXCEPT ![i] = setRowDone(@)], parts, last)
  /\ UNCHANGED <<repairs, marks>>

ServiceDeleteUnchecked(i) ==
  /\ Edit
  /\ modified' = TRUE
  /\ services' = RemoveAt(services, i)
  /\ UNCHANGED <<repairs, parts, frame, modifiedR, modifiedB>>

\* The row is made inactive, which its parts take over, and removed.
ServiceDelete(i) ==
  /\ Edit
  /\ modified' = TRUE
  /\ LET off == Rated([services EXCEPT ![i].active = FALSE], last)
     IN checkService(RemoveAt(off, i), setBuyPartsPriority(parts, off), last)
  /\ UNCHANGED <<repairs, modifiedR, modifiedB>>

Sorted(list) ==
  {[i \in DOMAIN list |-> list[p[i]]] :
     p \in {q \in [DOMAIN list -> DOMAIN list] : IsInjective(q)}}

\* A click on the header of a column
SortServices ==
  /\ Edit /\ Len(services) > 1
  /\ \E ss \in Sorted(services) : checkService(ss, parts, last)
  /\ UNCHANGED <<repairs, marks>>
-----------------------------------------------------------------------------
(* Edits of Repairs and of Buy Parts.                                      *)

\* addLineRepairs marks the list of services, its caller that of repairs.
addLineRepairs ==
  /\ Edit /\ Len(repairs) < MaxRows
  /\ modified' = TRUE /\ modifiedR' = TRUE
  /\ checkRepairs(Append(repairs, [text |-> Blank, priority |-> 0]), parts)
  /\ UNCHANGED <<services, frame, modifiedB>>

onGridCellRepairsChange(i) ==
  /\ Edit
  /\ modifiedR' = TRUE
  /\ \/ \E t \in Texts : checkRepairs([repairs EXCEPT ![i].text = t], parts)
     \/ \E p \in Priorities : checkRepairs([repairs EXCEPT ![i].priority = p], parts)
  /\ UNCHANGED <<services, frame, modified, modifiedB>>

\* "Repair done" marks the wrong list and does not reach the parts.
setRepairDone(i) ==
  /\ Edit
  /\ repairs' = [repairs EXCEPT ![i].priority = 0]
  /\ modified' = TRUE
  /\ UNCHANGED <<services, parts, frame, modifiedR, modifiedB>>

RepairDeleteUnmarked(i) ==
  /\ Edit
  /\ repairs' = RemoveAt(repairs, i)
  /\ UNCHANGED <<services, parts, frame, marks>>

RepairDelete(i) ==
  /\ Edit
  /\ repairs' = RemoveAt(repairs, i)
  /\ modifiedR' = TRUE
  /\ UNCHANGED <<services, parts, frame, modified, modifiedB>>

SortRepairs ==
  /\ Edit /\ Len(repairs) > 1
  /\ \E rs \in Sorted(repairs) : checkRepairs(rs, parts)
  /\ UNCHANGED <<services, frame, marks>>

\* Maintenance::addLineBuyParts marks the list of services.
addLineBuyParts(part) ==
  /\ Edit /\ Len(parts) < MaxRows
  /\ modified' = TRUE
  /\ parts' = Append(parts, part)
  /\ UNCHANGED <<services, repairs, frame, modifiedR>>

\* "Buy parts for this service", "Buy parts for this repair"
buyPartsService(i) ==
  /\ addLineBuyParts([title |-> services[i].text, category |-> "Service",
                      priority |-> services[i].priority])
  /\ UNCHANGED modifiedB
buyPartsRepair(i) ==
  /\ addLineBuyParts([title |-> repairs[i].text, category |-> "Repairs",
                      priority |-> repairs[i].priority])
  /\ UNCHANGED modifiedB

AddPart ==
  /\ addLineBuyParts([title |-> Blank, category |-> Blank, priority |-> 0])
  /\ modifiedB' = TRUE

onGridCellChangeBuyParts(j) ==
  /\ Edit
  /\ modifiedB' = TRUE
  /\ \/ \E t \in Texts : parts' = [parts EXCEPT ![j].title = t]
     \/ \E p \in Priorities : parts' = [parts EXCEPT ![j].priority = p]
  /\ UNCHANGED <<services, repairs, frame, modified, modifiedR>>

PartDelete(j) ==
  /\ Edit
  /\ parts' = RemoveAt(parts, j)
  /\ modifiedB' = TRUE
  /\ UNCHANGED <<services, repairs, frame, modified, modifiedR>>

\* Maintenance::deleteFindItRow, row by row
deleteFindItRow(ps) ==
  LET kept[n \in 0..Len(ps)] ==
        IF n = 0 THEN <<>>
        ELSE IF ps[n].category = "plugin" /\ ps[n].title = "FindIt" THEN kept[n - 1]
        ELSE Append(kept[n - 1], ps[n])
  IN kept[Len(ps)]

\* LOGBOOK_BUYPARTS_ADDLINE_REQUEST: the plugin FindIt replaces its lines.
BuyPartsRequest ==
  /\ Edit
  /\ LET others == deleteFindItRow(parts) IN
       /\ Len(others) < MaxRows
       /\ \E p \in Priorities :
            parts' = Append(others, [title |-> "FindIt", category |-> "plugin", priority |-> p])
  /\ modified' = TRUE
  /\ UNCHANGED <<services, repairs, frame, modifiedR, modifiedB>>
-----------------------------------------------------------------------------
(* The logbook and the clock.                                              *)

Booked == open /\ UNCHANGED <<repairs, files, marks, day, maintenance_timer, open, edits>>

\* The new line as it is when the sails and the fuel are filled in
appendRowEarly ==
  /\ Booked /\ last' \in Readings
  /\ checkService(services, parts, [last' EXCEPT !.total = last.total])

\* Logbook::appendRow ends with changeCellValue, which runs
\* getModifiedCellValue for every cell: the last check sees the whole line.
appendRow ==
  /\ Booked /\ last' \in Readings
  /\ checkService(services, parts, last')

\* getModifiedCellValue in a cell of the last line that is checked: date, time,
\* status, hours and totals of the engines, tanks, banks
EditLastLine ==
  /\ Booked /\ last' \in Readings
  /\ checkService(services, parts, last')

\* ... its distance: the status follows the distance after the check.
EditDistance ==
  /\ Booked /\ last' \in Readings
  /\ checkService(services, parts, [last' EXCEPT !.status = last.status])

\* ... its position: distance, total and status follow, nothing is rated.
EditPosition ==
  /\ Booked /\ last' \in Readings /\ last'.bank = last.bank
  /\ UNCHANGED <<services, parts, frame>>

\* ... in an earlier line: a tank or a bank rates the services by that line,
\* distance, position and hours change the last line's totals and rate nothing.
EditEarlierLine ==
  /\ Booked /\ last' \in Readings
  /\ \/ \E line \in Readings : checkService(services, parts, line)
     \/ UNCHANGED <<services, parts, frame>>

\* Another line is the last one, its totals are computed anew, and nothing is
\* rated.
deleteRows ==
  /\ Booked /\ last' \in Readings
  /\ UNCHANGED <<services, parts, frame>>

NextDay ==
  /\ day < MaxDay
  /\ day' = day + 1
  /\ UNCHANGED <<lists, files, marks, frame, last, maintenance_timer, open, edits>>

OnLogTimerNoReset ==
  /\ open /\ maintenance_timer < Hour
  /\ maintenance_timer' = maintenance_timer + 1
  /\ IF maintenance_timer + 1 = Hour THEN checkService(services, parts, last)
     ELSE UNCHANGED <<services, parts, frame>>
  /\ UNCHANGED <<repairs, files, marks, last, day, open, edits>>

\* LogbookDialog::OnLogTimer
OnLogTimer ==
  /\ open
  /\ maintenance_timer' = (maintenance_timer + 1) % Hour
  /\ IF maintenance_timer + 1 = Hour THEN checkService(services, parts, last)
     ELSE UNCHANGED <<services, parts, frame>>
  /\ UNCHANGED <<repairs, files, marks, last, day, open, edits>>
-----------------------------------------------------------------------------
(* Files.                                                                  *)

\* Maintenance::update, updateRepairs, updateBuyParts
update == servicesFile' = IF modified THEN services ELSE servicesFile
updateRepairs == repairsFile' = IF modifiedR THEN repairs ELSE repairsFile
updateBuyParts == partsFile' = IF modifiedB THEN parts ELSE partsFile

\* Maintenance::loadData reads the repairs into the first rows of the grid and
\* appends as many: what is left of a grid that was not empty are its lower
\* rows and empty ones.  Each appended row has the parts without a title reset.
loadData(ss, rs, ps, old) ==
  LET blanks == [i \in DOMAIN rs |-> [text |-> Blank, priority |-> 0]]
      rows == [i \in 1..(Len(old) + Len(rs)) |-> IF i <= Len(rs) THEN rs[i] ELSE (old \o blanks)[i]]
      reset == IF rs = <<>> THEN ps ELSE setBuyPartsPriority(ps, Append(old, blanks[1]))
  IN /\ services' = Rated(ss, last)
     /\ frame' = border(ss, last)
     /\ checkRepairs(rows, setBuyPartsPriority(reset, Rated(ss, last)))
     /\ modified' = FALSE

\* OK in the preferences, with another date format: the repairs are neither
\* saved nor cleared.
Preferences ==
  /\ open /\ edits < MaxEdits /\ edits' = edits + 1
  /\ Len(repairs) + Len(repairsFile) <= MaxRows
  /\ update /\ updateBuyParts
  /\ loadData(servicesFile', repairsFile, partsFile', repairs)
  /\ UNCHANGED <<repairsFile, modifiedR, modifiedB, last, day, maintenance_timer, open>>

Gone == /\ open' = FALSE
        /\ services' = <<>> /\ repairs' = <<>> /\ parts' = <<>>
        /\ modified' = FALSE /\ modifiedR' = FALSE /\ modifiedB' = FALSE
        /\ frame' = 0

\* Maintenance::~Maintenance, when the window is destroyed
Close ==
  /\ open
  /\ update /\ updateRepairs /\ updateBuyParts
  /\ Gone
  /\ UNCHANGED <<last, day, maintenance_timer, edits>>

Crash ==
  /\ open
  /\ Gone
  /\ maintenance_timer' = 0
  /\ UNCHANGED <<files, last, day, edits>>

Open ==
  /\ ~open
  /\ open' = TRUE
  /\ loadData(servicesFile, repairsFile, partsFile, <<>>)
  /\ UNCHANGED <<files, modifiedR, modifiedB, last, day, maintenance_timer, edits>>

Init ==
  /\ \E f \in Stored : /\ servicesFile = f.services
                       /\ repairsFile = f.repairs
                       /\ partsFile = f.parts
  /\ services = <<>> /\ repairs = <<>> /\ parts = <<>>
  /\ modified = FALSE /\ modifiedR = FALSE /\ modifiedB = FALSE
  /\ frame = 0 /\ last \in Readings /\ day = 0
  /\ maintenance_timer = 0 /\ open = FALSE /\ edits = 0

Next ==
  \/ addLine \/ SortServices \/ addLineRepairs \/ SortRepairs \/ AddPart \/ BuyPartsRequest
  \/ \E i \in DOMAIN services :
       \/ EditIf(i) \/ EditWarn(i) \/ EditUrgent(i) \/ EditActive(i) \/ EditText(i)
       \/ PickDate(i) \/ ServiceDone(i) \/ ServiceDelete(i) \/ buyPartsService(i)
  \/ \E i \in DOMAIN repairs :
       onGridCellRepairsChange(i) \/ setRepairDone(i) \/ RepairDelete(i) \/ buyPartsRepair(i)
  \/ \E j \in DOMAIN parts : onGridCellChangeBuyParts(j) \/ PartDelete(j)
  \/ appendRow \/ EditLastLine \/ EditDistance \/ EditPosition \/ EditEarlierLine
  \/ deleteRows \/ NextDay \/ OnLogTimer
  \/ Preferences \/ Close \/ Crash \/ Open

Spec == Init /\ [][Next]_vars

\* The timer runs as long as the window exists.
FairSpec == Spec /\ WF_vars(OnLogTimer)
-----------------------------------------------------------------------------
(* Properties.                                                             *)

\* The frame has the colour of the worst row of the list Service, whatever
\* was edited, deleted or sorted since the last check, and whichever line of
\* the logbook that check looked at.
FrameShowsRows ==
  /\ \A i \in DOMAIN services :
       frame >= (CASE services[i].priority = 1 -> 2 [] services[i].priority = 3 -> 1 [] OTHER -> 0)
  /\ frame = 2 => \E i \in DOMAIN services : services[i].priority = 1
  /\ frame = 1 => \E i \in DOMAIN services : services[i].priority = 3

\* The frame is that of the worst service by the last line and today's date.
Current ==
  /\ \A i \in DOMAIN services : Level(services[i], last) <= frame
  /\ frame = 0 \/ \E i \in DOMAIN services : Level(services[i], last) = frame
Outdated == open /\ ~Current

\* The frame catches up with the logbook and the date, red or white as they
\* say, after a midnight, a change of distance or position, an edit of an
\* earlier line or a deletion has left it behind.
FrameCatchesUp == Outdated ~> ~Outdated

\* A new line brings the frame up to date whatever it was, and so does an edit
\* of the last line that is checked.  A frame that is up to date stays so in
\* everything done to the three lists and their files, as long as the last
\* line and the date stay: only a check by an earlier line spoils it.
FrameStaysCurrent ==
  [][/\ appendRow \/ EditLastLine => Current'
     /\ Current /\ open' /\ UNCHANGED <<last, day>> /\ ~EditEarlierLine => Current']_vars

\* The only row, of services and repairs, with its text: its parts have no
\* other to follow.
Alone(i) ==
  /\ services[i].text # Blank
  /\ \A k \in DOMAIN services : services[k].text = services[i].text => k = i
  /\ \A k \in DOMAIN repairs : repairs[k].text # services[i].text
Apart ==
  open /\ \E i \in DOMAIN services, j \in DOMAIN parts :
            /\ Alone(i)
            /\ parts[j].title = services[i].text
            /\ parts[j].priority # services[i].priority

\* The parts catch up with the services they are for, after the user has typed
\* another priority, or another text, into either list.
PartsFollowServices == Apart ~> ~Apart

\* A list that is not marked holds what its file holds, and closing loses
\* nothing but what the code forgets to mark: that a service or a repair is
\* done, a fixed date picked in the dialog, the priorities the checks hand
\* down, the order of the rows, parts bought from the menus or by FindIt, and
\* the empty rows the preferences leave among the repairs.
EditsAreMarked ==
  open =>
  /\ ~modified =>
       LET Key(s) == <<s.text, s.kind, IF s.kind = "date" THEN <<>> ELSE <<s.warn, s.urgent>> >>
       IN {Key(services[i]) : i \in DOMAIN services} = {Key(servicesFile[i]) : i \in DOMAIN servicesFile}
  /\ ~modifiedR =>
       LET Kept(rs) == {rs[i].text : i \in DOMAIN rs} \ {Blank}
       IN /\ Kept(repairs) = Kept(repairsFile)
          /\ \A i \in DOMAIN repairs : repairs[i].priority # 0 =>
               \E k \in DOMAIN repairsFile : repairsFile[k] = repairs[i]
  /\ ~modifiedB =>
       LET Own(ps) == {[title |-> ps[i].title, category |-> ps[i].category] : i \in DOMAIN ps}
       IN /\ \A p \in Own(partsFile) : p.category # "plugin" => p \in Own(parts)
          /\ \A p \in Own(parts) : p.category = Blank => p \in Own(partsFile)

\* "Service done" ends what was due: the row of a total or of an interval
\* turns green, that of a status or a date white, whatever line of the logbook
\* made it red.  It does not for a bank, which is compared with its charge and
\* not with a start value.
DoneTurnsGreen ==
  [][\A i \in DOMAIN services :
       ServiceDone(i) /\ services[i].kind # "bank" /\ services[i].warn > 0 /\ services[i].urgent > 0
         => services'[i].priority \in {0, 5}]_vars

=============================================================================
