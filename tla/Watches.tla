------------------------------ MODULE Watches ------------------------------
(***************************************************************************)
(* The watch list: the user fills one day with watches (the base, day 0),   *)
(* Calculate lays out the days of the trip, the crew moving on from watch   *)
(* to watch, and every minute LogbookDialog::OnIdleMainDialog compares the  *)
(* clock with the end of the current watch (ActualWatch), looks up the next *)
(* and appends a line to the logbook.  One page of the plan, day, is shown  *)
(* in the grid and edited there.                                            *)
(*                                                                         *)
(* Time is counted in minutes from a midnight; a date is a multiple of      *)
(* DayLength.  The text of a cell of members is abstracted to the crew that *)
(* moves and the member with a star, who does not.  The trip is at least a  *)
(* day, and not all watches are merged into one.                            *)
(***************************************************************************)
EXTENDS Integers, SequencesExt

CONSTANTS
  DayLength, HourLength,   \* 24 * 60 and 60
  Misread,                 \* what is read from a watch time of 24 h and more
  LoadLimit,               \* plans of so few lines are not loaded: 6
  Lengths,                 \* watch times the user enters
  Crews, Stars,            \* who may be in a watch
  FirstTime,               \* start of an empty grid: 8:00
  Starts, Trips,           \* start of the first watch, days of the trip
  FirstTrip,               \* ... as the window opens: 10
  Bases,                   \* grids of the base at first
  MaxClock, MaxWatches, MaxEdits   \* bounds: minutes, watches in a day, changes

ASSUME LengthsAssumption ==
  /\ {DayLength, LoadLimit} \subseteq Nat \ {0} /\ HourLength \in Nat \ {0, 1}
  /\ Lengths \cup {Misread} \subseteq 0..(DayLength - 1)
  /\ Starts \cup {FirstTime} \subseteq Int
  /\ Trips \subseteq Nat \ {0} /\ FirstTrip \in Trips
  /\ {MaxClock, MaxEdits} \subseteq Nat

VARIABLES
  grid,         \* the columns shown
  day,          \* the day they are, 0 the base
  watchListFile,   \* its lines, without the first
  disk,         \* the same when it was last written
  linenoStart,  \* where readRecord found the day it showed last
  start, trip,  \* the text fields: start of the first watch and days
  header,       \* the same in the first line of the file
  fields,       \* they may be edited, as at first and after Reset
  calculate,    \* the button is enabled
  ActualWatch,
  now, wmin,    \* the clock; the minute of the hour of the last change
  line,         \* the line the last minute appended: who has the watch
  hung,         \* the process has died or loops for ever
  edits,
  whole         \* no edit so far has left a watch of no minute, or of a day

screen == <<grid, day, linenoStart>>
files == <<watchListFile, disk, header>>
inputs == <<start, trip, fields>>
clock == <<now, wmin, line>>
notes == <<edits, whole>>
vars == <<screen, files, inputs, calculate, ActualWatch, clock, hung, notes>>

Nobody == ""
ASSUME CrewsAssumption == Nobody \notin Crews

Watch == [len: Nat, start: Int, date: Int,
          crew: Crews \cup {Nobody}, star: Stars \cup {Nobody}]
NoLine == <<>>
NoWatch == [active |-> FALSE, day |-> 0, col |-> 0, end |-> MaxClock + 1, who |-> <<>>]

TypeOK ==
  /\ grid \in Seq(Watch) /\ grid # <<>>
  /\ day \in Nat /\ linenoStart \in 1..(Len(watchListFile) + 1)
  /\ {watchListFile, disk} \subseteq Seq([day: Nat, w: Watch])
  /\ header \in [start: Int, trip: Trips]
  /\ start \in Int /\ trip \in Trips
  /\ {fields, calculate, hung, whole} \subseteq BOOLEAN
  /\ ActualWatch \in [active: BOOLEAN, day: Nat, col: Nat, end: Int,
                      who: Seq(Crews \cup Stars \cup {Nobody})]
  /\ line \in Seq(Crews \cup Stars \cup {Nobody})
  /\ now \in 0..MaxClock /\ wmin \in 0..HourLength /\ edits \in 0..MaxEdits
-----------------------------------------------------------------------------
(* Laying out the columns of a day.                                        *)

date(t) == t \div DayLength
until(w) == w.start + w.len

\* The watches of a day: one after the other, and at most a minute is open.
Filled(ws) ==
  /\ \A i \in 2..Len(ws) : ws[i].start = until(ws[i - 1])
  /\ until(ws[Len(ws)]) - ws[1].start \in {DayLength - 1, DayLength}

\* What myParseTime reads from a watch time: wxDateTime::Set refuses hours from
\* 24 on and leaves an invalid time, whose hours are always the same.
hours(len) == IF len < DayLength THEN len ELSE Misread

\* The watches as their times are read from the cells
read(ws) == [i \in DOMAIN ws |-> [ws[i] EXCEPT !.len = hours(@)]]

\* The user has filled the base, or not begun.
ASSUME BasesAssumption ==
  \A ws \in Bases : /\ ws \in Seq(Watch) /\ Len(ws) > 0
                    /\ Len(ws) > 1 => /\ Filled(ws)
                                      /\ \A i \in DOMAIN ws : ws[i].len \in 1..(DayLength - 1)

\* Of a watch over midnight getStartEndDate reads the second date of the cell.
dated(w) == [w EXCEPT !.date = DayLength * date(w.start + w.len - 1)]

\* The watches one after the other from s on
chained(ws, s) ==
  LET end[i \in 0..Len(ws)] == IF i = 0 THEN s ELSE end[i - 1] + ws[i].len
  IN [i \in DOMAIN ws |-> dated([ws[i] EXCEPT !.start = end[i - 1]])]

empty(len) == [len |-> len, start |-> 0, date |-> 0, crew |-> Nobody, star |-> Nobody]

\* CrewList::firstColumn
firstColumn(s) == <<[empty(0) EXCEPT !.start = s, !.date = DayLength * date(s)]>>

shortenedOnItsDate(w, s) ==
  dated([w EXCEPT !.len = DayLength * date(w.start) + (s % DayLength) - w.start])

\* A watch that would last longer than the day: its end is the time of the day
\* the first one starts, on the date this watch starts, or would have ended.
shortened(w, s) ==
  dated([w EXCEPT !.len = DayLength * date(w.start + w.len - 1) + (s % DayLength) - w.start])

chainedOnly(ws, s) == chained(ws, s)

\* CrewList::updateWatchTime, where ws has new lengths, in a day from s on.
\* A rest of one minute is not filled.  A watch that would end two dates after
\* the day began is shortened to its end, a day too late, and then lasts 24 hours
\* or more.
updateWatchTime(ws, s) ==
  LET all == chained(ws, s)
      over == {i \in DOMAIN ws : until(all[i]) > s + DayLength}
      rest == s + DayLength - until(Last(all))
  IN IF Len(ws) = 1 THEN ws
     ELSE IF over # {} THEN
       LET i == Min(over)
           cut == Append(SubSeq(all, 1, i - 1), shortened(all[i], s))
       IN SubSeq(cut, 1, Min({x \in 1..i : until(cut[x]) % DayLength = s % DayLength}))
     ELSE IF rest > 1 THEN chained(Append(all, empty(rest)), s) ELSE all

\* The day of the grid starts on its first date, at the time in the text field.
retiled(ws, s) == updateWatchTime(read(ws), grid[1].date + (s % DayLength))

\* CrewList::insertDefaultCols: as many watches of one length as fit, and the
\* rest.  The date of the first stays.
insertDefaultCols(len, s) ==
  LET n == DayLength \div len
      rest == DayLength % len
      ws == chained([i \in 1..n |-> empty(len)] \o (IF rest = 0 THEN <<>> ELSE <<empty(rest)>>), s)
  IN [ws EXCEPT ![1].date = DayLength * date(s)]
-----------------------------------------------------------------------------
(* The file.                                                               *)

\* CrewList::getDayOne
getDayOne(file, d) == SelectInSeq(file, LAMBDA l : l.day = d)

\* The lines of the day d as they are read: from the first on, up to another day
page(file, d) ==
  LET first == getDayOne(file, d)
      other == {i \in DOMAIN file : i > first /\ file[i].day # d}
      end == IF other = {} THEN Len(file) + 1 ELSE Min(other)
  IN [i \in 1..(end - first) |-> file[first + i - 1].w]

\* CrewList::readRecord.  A file that is not empty has all its days.
readRecord(file, d) ==
  /\ grid' = page(file, d) /\ day' = d
  /\ linenoStart' = getDayOne(file, d)

appendedOneLate(ws) ==
  [i \in 1..linenoStart |-> watchListFile[i]] \o [i \in DOMAIN ws |-> [day |-> day, w |-> ws[i]]]

appended(ws) ==
  [i \in 1..(linenoStart - 1) |-> watchListFile[i]] \o [i \in DOMAIN ws |-> [day |-> day, w |-> ws[i]]]

\* CrewList::updateLine: the lines of the grid go in at linenoStart, and the
\* lines of the day after them go.  At the end of the file the loop reads on:
\* it stops, or never does.  Then the file is written.
updateLine(ws) ==
  IF watchListFile = <<>> THEN UNCHANGED <<watchListFile, disk, hung>>
  ELSE LET rest == SubSeq(watchListFile, linenoStart, Len(watchListFile))
           other == SelectInSeq(rest, LAMBDA l : l.day # day)
       IN /\ watchListFile' = appended(ws)
                              \o (IF other = 0 THEN <<>> ELSE SubSeq(rest, other, Len(rest)))
          /\ hung' \in (IF other = 0 THEN BOOLEAN ELSE {FALSE})
          /\ disk' = IF hung' THEN disk ELSE watchListFile'

who(w) == LET one(x) == IF x = Nobody THEN <<>> ELSE <<x>> IN one(w.crew) \o one(w.star)

coversToEnd(w, t) == w.start <= t /\ t <= until(w)

covers(w, t) == w.start <= t /\ t < until(w)

\* CrewList::dayNow at the minute t, actual being the watch noted before: show
\* the day of the watch at t, and note it.
dayNow(file, t, actual) ==
  LET first == getDayOne(file, 1)
      at == {i \in DOMAIN file : i >= first /\ covers(file[i].w, t)}
      l == file[Min(at)]
  IN IF first = 0 THEN UNCHANGED screen /\ ActualWatch' = actual
     ELSE IF at = {} THEN
       readRecord(file, 1) /\ ActualWatch' = [actual EXCEPT !.active = FALSE]
     ELSE
       /\ readRecord(file, l.day)
       /\ ActualWatch' = [active |-> TRUE, day |-> l.day,
                          col |-> Min(at) - getDayOne(file, l.day) + 1,
                          end |-> until(l.w), who |-> who(l.w)]
-----------------------------------------------------------------------------
(* The plan.                                                               *)

UseBound == ~hung /\ edits < MaxEdits /\ edits' = edits + 1
Edit == UseBound /\ UNCHANGED <<clock, trip, header>>
Fits(ws) == Len(ws) <= MaxWatches

\* History only.  Of a watch of a minute splitWatch makes one of no minute, which
\* can also be typed: a day that begins with one shrinks to it when an edit fills
\* it too much.  A watch of 24 hours and more makes the day last as long.
NoteLengths(ws) ==
  whole' = (whole /\ (Len(grid) > 1 => \A i \in DOMAIN ws : ws[i].len \in 1..(DayLength - 1)))

starAtColumn(base, t, c) == base[c].star

\* The member with a star stays with the time of the day.
starAt(base, t, c) ==
  LET same == {b \in DOMAIN base : base[b].start % DayLength = t % DayLength}
  IN IF same = {} THEN Nobody ELSE base[Max(same)].star

turnOfDay(moves, n, k) == Cardinality({j \in 1..((k - 1) % n) : j \in moves})

\* How often the crew has moved on before the k-th watch
turn(moves, n, k) == Cardinality({j \in 1..(k - 1) : ((j - 1) % n) + 1 \in moves})

\* The crews that move, in their order in the base
crewsOf(base) ==
  LET crews[b \in 0..Len(base)] ==
        IF b = 0 THEN <<>>
        ELSE IF base[b].crew = Nobody THEN crews[b - 1] ELSE Append(crews[b - 1], base[b].crew)
  IN crews[Len(base)]

\* The days as Calculate writes them: crews move on over the watches that are
\* not all stars; the last watch of a day is followed by the first of the next.
laidOut(base, s, days) ==
  LET n == Len(base)
      column(k) == ((k - 1) % n) + 1
      crews == crewsOf(base)
      moves == {b \in 1..n : base[b].crew # Nobody \/ base[b].star = Nobody}
      crew(k) == IF crews = <<>> \/ column(k) \notin moves THEN Nobody
                 ELSE crews[(turn(moves, n, k) % Len(crews)) + 1]
      from == chained([k \in 1..(n * days) |-> base[column(k)]], s)
  IN [k \in DOMAIN from |->
        [day |-> ((k - 1) \div n) + 1,
         w |-> [from[k] EXCEPT !.crew = crew(k), !.star = starAt(base, from[k].start, column(k))]]]

\* CrewList::Calculate
Calculate ==
  /\ UseBound /\ calculate
  /\ calculate' = FALSE /\ fields' = FALSE
  /\ watchListFile' = [i \in DOMAIN grid |-> [day |-> 0, w |-> grid[i]]] \o laidOut(read(grid), start, trip)
  /\ header' = [start |-> start, trip |-> trip]
  /\ disk' = watchListFile'
  /\ dayNow(watchListFile', now, ActualWatch)
  /\ UNCHANGED <<start, trip, clock, hung, whole>>

\* CrewList::Reset shows the base.
Reset ==
  /\ ~hung /\ watchListFile # <<>> /\ ~fields
  /\ fields' = TRUE /\ calculate' = TRUE
  /\ readRecord(watchListFile, 0)
  /\ UNCHANGED <<files, start, trip, ActualWatch, clock, hung, notes>>

\* CrewList::setAsNewWatchbase: what is shown becomes the base; the file is
\* emptied and not written.
setAsNewWatchbase ==
  /\ UseBound /\ watchListFile # <<>>
  /\ start' = grid[1].date + (start % DayLength)
  /\ watchListFile' = <<>> /\ linenoStart' = 1
  /\ day' = 0
  /\ fields' = TRUE /\ calculate' = TRUE
  /\ UNCHANGED <<grid, disk, header, trip, ActualWatch, clock, hung, whole>>

\* An empty grid, on the day it is now
emptyGrid ==
  /\ start' = DayLength * date(now) + FirstTime
  /\ grid' = firstColumn(start')
  /\ day' = 0 /\ linenoStart' = 1
  /\ watchListFile' = <<>>
  /\ fields' = TRUE /\ calculate' = FALSE

\* CrewList::clearWake: the current watch is left as it is.
clearWake ==
  /\ ~hung
  /\ emptyGrid
  /\ disk' = <<>>
  /\ UNCHANGED <<header, trip, ActualWatch, clock, hung, notes>>

\* LogbookDialog::m_gridCrewWakeOnGridCellChange, a watch time.  In an empty
\* grid insertDefaultCols makes nothing of 0:00.
EditLength(c) ==
  /\ Edit
  /\ \E len \in Lengths :
       \/ /\ Len(grid) > 1
          /\ grid' = retiled([grid EXCEPT ![c].len = len], start)
          /\ updateLine(grid')
          /\ calculate' = TRUE /\ UNCHANGED day
       \/ /\ Len(grid) = 1 /\ len > 0
          /\ grid' = insertDefaultCols(len, start) /\ day' = 0
          /\ calculate' = TRUE /\ UNCHANGED <<watchListFile, disk, hung>>
       \/ /\ Len(grid) = 1 /\ len = 0
          /\ grid' = [grid EXCEPT ![1].len = 0]
          /\ UNCHANGED <<watchListFile, disk, hung, day, calculate>>
  /\ Fits(grid') /\ NoteLengths(grid')
  /\ UNCHANGED <<linenoStart, start, fields, ActualWatch>>

\* ... or its members.  If it is the current watch they are noted.
EditMembers(c) ==
  /\ Edit /\ Len(grid) > 1
  /\ \E x \in Crews \cup {Nobody}, y \in Stars \cup {Nobody} :
       /\ grid' = retiled([grid EXCEPT ![c].crew = x, ![c].star = y], start)
       /\ ActualWatch' = IF ActualWatch.day = day /\ ActualWatch.col = c
                         THEN [ActualWatch EXCEPT !.who = who([grid[c] EXCEPT !.crew = x, !.star = y])]
                         ELSE ActualWatch
  /\ Fits(grid') /\ NoteLengths(grid')
  /\ updateLine(grid')
  /\ calculate' = TRUE
  /\ UNCHANGED <<day, linenoStart, start, fields>>

\* CrewList::deleteMembers does not look at the current watch.
deleteMembers(c) ==
  /\ Edit
  /\ grid' = [grid EXCEPT ![c].crew = Nobody, ![c].star = Nobody]
  /\ updateLine(grid')
  /\ UNCHANGED <<day, linenoStart, start, fields, calculate, ActualWatch, whole>>

\* CrewList::splitWatch
splitWatch(c) ==
  /\ Edit /\ Len(grid) > 1
  /\ LET len == hours(grid[c].len)
         half == len \div 2
     IN grid' = retiled(InsertAt([grid EXCEPT ![c].len = half], c + 1, empty(len - half)), start)
  /\ Fits(grid') /\ NoteLengths(grid')
  /\ updateLine(grid')
  /\ UNCHANGED <<day, linenoStart, start, fields, calculate, ActualWatch>>

\* CrewList::mergeWatches, of two neighbours
mergeWatches(c) ==
  /\ Edit /\ c < Len(grid) /\ Len(grid) > 2
  /\ grid' = retiled(RemoveAt([grid EXCEPT ![c].len = hours(@) + hours(grid[c + 1].len)], c + 1), start)
  /\ Fits(grid') /\ NoteLengths(grid')
  /\ updateLine(grid')
  /\ UNCHANGED <<day, linenoStart, start, fields, calculate, ActualWatch>>

\* CrewList::flipWatches changes the grid only.
flipWatches(c, e) ==
  /\ Edit /\ c < e
  /\ grid' = [grid EXCEPT ![c].crew = grid[e].crew, ![c].star = grid[e].star,
                          ![e].crew = grid[c].crew, ![e].star = grid[c].star]
  /\ UNCHANGED <<watchListFile, disk, hung, day, linenoStart, start, fields, calculate, ActualWatch, whole>>

\* CrewList::timeTextCtrlTextEntered, dateTextCtrlClicked
EditStart ==
  /\ Edit /\ fields
  /\ \E s \in Starts :
       \/ /\ start' = DayLength * date(start) + (s % DayLength)
          /\ grid' = retiled(grid, start')
       \/ /\ start' = DayLength * date(s) + (start % DayLength)
          /\ grid' = updateWatchTime(read(grid), start')
  /\ Fits(grid') /\ NoteLengths(grid')
  /\ UNCHANGED <<watchListFile, disk, hung, day, linenoStart, fields, calculate, ActualWatch>>

EditTrip ==
  /\ UseBound /\ fields
  /\ trip' \in Trips
  /\ UNCHANGED <<screen, files, start, fields, calculate, ActualWatch, clock, hung, whole>>

\* CrewList::dayPlus, dayMinus and enterDay, with the buttons enabled
ShowDay ==
  /\ ~hung /\ watchListFile # <<>> /\ ~fields
  /\ \E d \in 1..trip \ {day} : readRecord(watchListFile, d)
  /\ UNCHANGED <<files, inputs, calculate, ActualWatch, clock, hung, notes>>
-----------------------------------------------------------------------------
(* The clock.                                                              *)

\* The button Now, and OnIdleMainDialog when the GPS comes or goes
DayNow ==
  /\ ~hung
  /\ dayNow(watchListFile, now, ActualWatch)
  /\ UNCHANGED <<files, inputs, calculate, clock, hung, notes>>

ChangeDueHourly(t) == ActualWatch.active /\ t >= ActualWatch.end /\ t % HourLength = 0

\* The watch is over, and it is not the minute of the hour of the last change.
ChangeDue(t) == ActualWatch.active /\ t >= ActualWatch.end /\ wmin # t % HourLength

\* LogbookDialog::OnIdleMainDialog in the minute t, with the watch event on:
\* appendRow names the current watch.
OnIdle(t) ==
  IF ChangeDue(t) THEN
    /\ wmin' = t % HourLength
    /\ dayNow(watchListFile, t, ActualWatch)
    /\ line' = IF ActualWatch'.active THEN ActualWatch'.who ELSE <<Nobody>>
  ELSE
    /\ line' = NoLine
    /\ UNCHANGED wmin
    /\ IF ~ActualWatch.active /\ t >= ActualWatch.end THEN dayNow(watchListFile, t, ActualWatch)
       ELSE UNCHANGED <<screen, ActualWatch>>

Minute ==
  /\ ~hung /\ now < MaxClock
  /\ now' = now + 1
  /\ OnIdle(now')
  /\ UNCHANGED <<files, inputs, calculate, hung, notes>>

\* The program is started again (CrewList::loadData).
Reopen ==
  /\ Len(disk) + 1 > LoadLimit
  /\ watchListFile' = disk
  /\ start' = header.start /\ trip' = header.trip
  /\ fields' = FALSE /\ calculate' = FALSE
  /\ dayNow(disk, now, NoWatch)

ReopenEmpty ==
  /\ Len(disk) + 1 <= LoadLimit
  /\ emptyGrid
  /\ ActualWatch' = NoWatch
  /\ trip' = FirstTrip

Restart ==
  /\ Reopen \/ ReopenEmpty
  /\ hung' = FALSE /\ wmin' = HourLength /\ line' = NoLine
  /\ UNCHANGED <<disk, header, now, notes>>
-----------------------------------------------------------------------------
Init ==
  /\ grid \in Bases /\ start = grid[1].start /\ trip = FirstTrip
  /\ day = 0 /\ linenoStart = 1
  /\ watchListFile = <<>> /\ disk = <<>> /\ header = [start |-> start, trip |-> trip]
  /\ fields = TRUE /\ calculate = (Len(grid) > 1)
  /\ ActualWatch = NoWatch
  /\ now = 0 /\ wmin = HourLength /\ line = NoLine
  /\ hung = FALSE /\ edits = 0 /\ whole = TRUE

EditWatch(c) == EditLength(c) \/ EditMembers(c) \/ deleteMembers(c) \/ splitWatch(c) \/ mergeWatches(c)

Next ==
  \/ \E c \in DOMAIN grid : EditWatch(c) \/ \E e \in DOMAIN grid : flipWatches(c, e)
  \/ EditStart \/ EditTrip
  \/ Calculate \/ Reset \/ setAsNewWatchbase \/ clearWake
  \/ ShowDay \/ DayNow \/ Minute \/ Restart

Spec == Init /\ [][Next]_vars
-----------------------------------------------------------------------------
(* Properties                                                              *)

days(file) == {file[i].day : i \in DOMAIN file}

\* Help.html:2572-2573: all changes apply to the day shown only, also after the
\* clock or the user turned the page: updateLine puts the grid in place of the
\* lines of that day (at the line where readRecord began), and changes no other.
ChangesApplyToTheDay ==
  [][(\E c \in DOMAIN grid : EditWatch(c)) /\ watchListFile # <<>> /\ whole =>
       /\ days(watchListFile') = days(watchListFile)
       /\ page(watchListFile', day) = grid'
       /\ \A d \in days(watchListFile) \ {day} : page(watchListFile', d) = page(watchListFile, d)]_vars

\* The days stay in their order in the file, and the watches of each follow one
\* another and leave at most a minute of 24 hours open, as long as no edit has
\* left a watch of no minute (typed, or half of one of a minute), or one of 24
\* hours and more (shortened to a day too late): from then on days may shrink or
\* outgrow the 24 hours, as they do in DayOf24Hours.
DaysAreFilled ==
  whole =>
    /\ \A i \in 2..Len(watchListFile) : watchListFile[i - 1].day <= watchListFile[i].day
    /\ \A d \in days(watchListFile) : Filled(page(watchListFile, d))

\* Help.html:2768: the watches are always filled up to 24 hours, and no further.
DayOf24Hours == Len(grid) > 1 => until(Last(grid)) - grid[1].start <= DayLength

\* In a plan just calculated a member with a star has watch only at a time of
\* the day the base gives him, also when its days drift for want of a minute.
StarsKeepTheirTime ==
  [][Calculate =>
       \A i \in DOMAIN watchListFile' :
         LET w == watchListFile'[i].w IN
           w.star # Nobody =>
             \E b \in DOMAIN grid :
               grid[b].star = w.star /\ grid[b].start % DayLength = w.start % DayLength]_vars

\* Over the days of a plan just calculated no crew has two watches more than
\* another, if each was in the base once.
CrewsTakeTurns ==
  [][Calculate =>
       LET watches(c) == Cardinality({i \in DOMAIN watchListFile' :
                           watchListFile'[i].day > 0 /\ watchListFile'[i].w.crew = c})
           once(c) == Cardinality({b \in DOMAIN grid : grid[b].crew = c}) = 1
       IN \A c, e \in Crews : once(c) /\ once(e) => watches(c) <= watches(e) + 1]_vars

\* As long as there is a plan, the clock is never more than a minute past the
\* end of the current watch: then the next is looked up, with one line.
ChangeAtMostAMinuteLate ==
  ActualWatch.active /\ watchListFile # <<>> => now <= ActualWatch.end

\* A line of a guard change is followed by another only when the new watch ends.
GuardLoggedOnce ==
  line # NoLine /\ ActualWatch.active /\ watchListFile # <<>> => now < ActualWatch.end

\* Help.html:2222-2223: the members are inserted in the logbook automatically
\* when the guard changes, that is when the minute begins another watch of the
\* plan.  OnIdleMainDialog looks the watch up only if one was current, or the
\* last ended before, and not twice in the same minute of the hour.
WatchOfPlan(t) == {i \in DOMAIN watchListFile : watchListFile[i].day > 0 /\ covers(watchListFile[i].w, t)}
GuardChangeIsLogged ==
  [][Minute /\ WatchOfPlan(now') # {} /\ WatchOfPlan(now') # WatchOfPlan(now) => line' # NoLine]_vars

=============================================================================
