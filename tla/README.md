# LogbookKonni in TLA+

LogbookKonni is a plugin of the chart plotter OpenCPN: a ship's logbook.  It is
a C++/wxWidgets program that lives in OpenCPN's process.  This directory holds
TLA+ models of it, the TLC configurations that check them on small instances,
and theorems about them with proofs for TLAPS.  All definitions are read from
`src/src` (the plugin's own code, about 33,000 lines, a good part of them dialog
construction); `libs`, the icons and the build files are left aside.

The repository has no automated tests.  What the program promises is said in
`data/Help.html`, in tooltips, in message boxes and in comments; the findings
below quote those.

## 1. The system

### 1.1 How it runs

Everything happens in the one thread of wxWidgets.  There are no locks and no
data races.  What makes the program hard is that many callers enter the same
state between two events, and that some of them enter it *in the middle* of
another one:

* clicks, cell edits and menu commands of the logbook window;
* `wxTimer`s: the normal timer that appends lines, the log timer (every 15
  minutes: save) and the GPS timer (every 5 seconds: device timeouts);
* idle events of the main dialog (full-hour timer, end of a watch);
* NMEA sentences (`SetNMEASentence`), plugin messages (`SetPluginMessage`) and
  toolbar callbacks from OpenCPN;
* modal dialogs and message boxes, which run a nested event loop: a handler that
  shows one is suspended while timers, sentences and messages go on;
* the end of the window (menu), of the plugin (`DeInit`) and of the process
  (a crash, power failure), which lose everything that was not written.

### 1.2 Components

| Component | State | Operations | Correct when |
|---|---|---|---|
| Plugin core, `logbook_pi.cpp` | `opt` (all options), `eventsEnabled`, `m_plogbook_window`, `m_timer` | `Init`, `DeInit`, `startLogbook`, `shutdown`, `OnToolbarToolCallback`, `ShowPreferencesDialog`, `SaveConfig`, `LoadConfig`, `SetPluginMessage`, `SetNMEASentence` | options survive every end; nothing is used before it is made or after it is deleted |
| Automatic events and the status bar, `LogbookDialog.cpp`, `Options.cpp`, `Logbook.cpp` | five options, five bullets, `eventsEnabled`, `timerType`, `timerSec`, the `wxTimer` | bullets, Start/Stop, `TimerInterval` dialog, `startNormalTimer`, `OnIdleMainDialog`, `checkCourseChanged`, `checkDistance`, `checkWayPoint`, `checkGuardChanged` | the bar says what the program does; suspended or stopped events are silent |
| Engine and generator hours, `Logbook.cpp`, `LogbookDialog.cpp`, `LogbookOptions.cpp` | per engine: `engine1Running`, `toggleEngine1`, `dtEngine1On`, `dtEngine1Off`, `bRPM1`, `engine1Manual`; `NMEAUseERRPM`, the RPM boxes, `rpmSentence`, `dtRPM` | buttons, RPM sentences, their timeout, `appendRow`, preferences, shutdown question, restart | every hour run is on exactly one line |
| Logbook data and files, `Logbook.cpp`, `LogbookDialog.cpp` | three grids that show one table, `data_locn`, `modified`, the files and their `.Bak` | `appendRow`, `changeCellValue`, `deleteRow(s)`, `update`, `selectLogbook`, `newLogbook`, `switchToActualLogbook`, timers | no line and no edit is lost; old logbooks get no new lines |
| Totals of the grid, `Logbook.cpp` | hours, fuel, water and distance columns carried from row to row | `getModifiedCellValue`, `computeCell`, `recalculateLogbook` | a total is the total above plus the row's entry, after every edit and deletion |
| NMEA reception, `Logbook.cpp` | a text per quantity; a flag and the time of the last sentence per device; wind speeds since the last line | `SetSentence`, `checkNMEADeviceIsOn`, `checkGPS`, `SetPosition` | no stale value is written into a line |
| Routes, tracks, waypoints, MOB, `logbook_pi.cpp` | active route and track, `lastWayPoint`, `routeIsActive` | plugin messages `OCPN_*` | one line per waypoint reached |
| Crew list and watches, `CrewList.cpp`, `LogbookDialog.cpp` | crew grid; one day of watches in a grid, all days in `watchListFile` and its file; `ActualWatch` | edits, `Calculate`, `Reset`, paging, `dayNow`, `checkGuardChanged` | watches cover the day in order, crews take turns, each change is logged once |
| Maintenance, `Maintenance.cpp` | service, repair and parts grids, a mark and a file each; the colour of the frame | `checkService`, `setBuyPartsPriority`, edits, the log timer | what is due is shown, and no edit is lost |
| Overview, `OverView.cpp` | sums over all logbooks | `refresh` | sums equal the lines |
| Boat page, preferences, exports, layouts, widgets | forms and files | save and load | - |

`PROJECT.json` lists each with its sources, the modules that model it, and what
is left out.

The components share the line: almost every event ends in `Logbook::appendRow`,
which reads the options, the engines and the NMEA values, switches to the active
logbook, adds a row to the grids and calls `update`.  That is why most of the
modules below contain an `appendRow`, each with the part of it that concerns
its state.

### 1.3 What is hard to test

The hazards are listed, with the lines where they bite, in `PROJECT.json`.  The
main ones:

* one fact kept in several variables that different handlers update: suspension
  of the events (flag, colours, options), an engine that runs (`engine1Running`,
  `bRPM1`, `toggleEngine1`, `dtEngine1On`), unsaved changes (`modified`, grid,
  file);
* state read before a modal message box and used after it (`appendRow`'s row
  number, `deleteRow`'s selection, `startNormalTimer`);
* the order of `appendRow` and the resets around it in the functions that stop an
  engine;
* timeouts racing late sentences, one timestamp shared by all engines;
* a death between the rename of a file and the end of its rewriting;
* an old logbook on screen when an automatic line arrives;
* restarts with part of the state saved;
* totals carried from row to row by two different routines, which stop or go wrong
  at the first row, at blank cells and at rounding;
* checks that look at one row of the logbook and colour the frame for all;
* one file read and written day by day while the clock turns the page;
* one timestamp that stands for several readings.

## 2. The modules

| Module | Models | Kind |
|---|---|---|
| `EventStatus` | what the status bar promises its user | abstract specification |
| `EventBullets` | automatic events, status bar, normal timer, configuration | component; implements `EventStatus` |
| `EventBullets_proofs` | | theorems, the refinement among them |
| `EngineLog` | engine and generator hours | component |
| `EngineLog_proofs` | | theorems |
| `LogbookFile` | lines, files, `modified` | component |
| `LogbookFile_proofs` | | theorems |
| `GridTotals` | the columns with running totals | component |
| `GridTotals_proofs` | | theorems |
| `Maintenance` | services, repairs, parts to buy, the frame, the log timer | component |
| `Maintenance_proofs` | | theorems |
| `Watches` | watch plan, its file, the current watch, the clock | component |
| `Watches_proofs` | | theorems |
| `NmeaDevices` | readings of instruments, device timeout, GPS | component |
| `NmeaDevices_proofs` | | theorems |
| `Recursion` | | lemmas shared by proofs: induction, recursive functions, sequences, division |
| `MC...` | the instances for TLC, one per component | |

An action is one handler: everything the code does from the event to the return
to the event loop, all calls included.  Where a handler shows a message box or a
modal dialog it is two actions, and whatever the nested event loop may run is
enabled in between.  Definitions keep the names of the functions they model;
`PROJECT.json` maps each to its lines.  Definitions named after another one with a
suffix (`haltedUnguarded`, `tornInPlace`, ...) are deliberate faults: replacing
the original by it must break the property named in `PROJECT.json`.

### 2.1 EventBullets

An event has an option (`opt`), a bullet (`bullet`: red, yellow, green) and is
suspended with all others by `eventsEnabled` (which is TRUE when they are
*not* enabled).  The code derives one from another in several places:
`setBulletColor` from the option and from `checkBitmaps`, which looks for a
yellow bullet; `refreshBullets` from the flag; `init` from `checkStateOfEvents`.

* `hwTimer` is the `wxTimer`: it is `"null"` after a shutdown by the menu, and
  `startNormalTimer` and `TimerInterval::OnClose` use it all the same: `Finish`
  and `okRequest` go to `Boot` (the process dies and is started again) there.
* `modal` is the dialog that is up; `startNormalTimer` with no interval shows one
  and goes on after it, with the rest of its caller (`pending`).
* `conf` is the saved configuration.  `wxFileConfig` is taken to be durable once
  `SaveConfig` has returned.
* `row` is the line the last step appended, with the bullet and the flag at that
  moment.

`OnIdleWatch`, `checkCourseChanged` and `checkDistance` are enabled whenever
their flags are: what the watch, the course and the position are is abstracted.

### 2.2 EngineLog

`eng` holds one record per engine, with the option and the `Logbook` members of
it.  Times are ages: how many ticks ago a `wxDateTime` was, saturating at
`MaxAge`; `Invalid` is a `wxDateTime` set to -1 and `Garbage` a span computed from
it.  `unlogged` and `switched` are history variables that no action reads to
decide anything: how long the engine has run since its start minus what lines
have booked, and whether the preferences took a running engine from its control
without a line.

The preferences are modal but their RPM boxes act at once, so other handlers
interleave with them; so do they with the shutdown question.  `boxes` holds the RPM
boxes as they are ticked there: `setUseRPM` clears the box of an engine that is not
aboard, the generator's as well as engine 2's, and lets nobody tick it, and OK takes
such an engine from RPM control without a line.  The constructor of
`Logbook` leaves `engine1Manual` and its fellows uninitialised: `Open` chooses any
value.  A line holds hours and minutes; the seconds it drops are left out.
A crash is not in this module (see 6).

### 2.3 LogbookFile

A line is a number and what became of it (`new`, `edited`, `remark`, `carry`); its
columns are abstracted.  `grid` stands for the three grids, `current` for
`data_locn`, `disk` and `bak` for the contents of the files.  `whole` is a history
variable: what the user last saw loaded from, or written completely to, a file.

* `update` renames the file to `.Bak` and rewrites it; `torn` is a death in the
  middle: no file, or a part of its lines.  It is an alternative of every action
  that calls `update`.
* `appendRow` first switches to the active logbook.  From `LIMIT` (499) lines on
  it may show a message box between reading the number of rows and adding a row:
  the rest is `AfterReminder`.
* `deleteRow` asks a question; `AnswerYes` deletes what is then selected.  When
  nothing is, `deleteRows` reads element 0 of an empty array: any row may go or
  the process may die.
* `newLogbook` is one action with its deaths; its own message boxes come before
  it changes anything.

Abstracted: the rename replaces its target, as on POSIX systems, and the stream
does not fail (the code ignores both results; on Windows `wxRename` fails when the
`.Bak` exists, and the file is then rewritten in place).  Deleting several
selected rows is several steps.  Rows that were already selected when `deleteRow`
adds its own to the selection are left out.

### 2.4 GridTotals

The columns do not touch each other, so a behaviour follows one of four kinds,
`kind`, for all columns that the code treats alike: `distance`, `hours` (engines,
generator, watermaker: minutes), `tank` (fuel, the battery banks) and `water`, to
which the hours of the watermaker add.  A line has the entry, the total and what
decides how the next computation goes: whether the entry's cell is `blank`, reads
hh:60 (`sixty`), or the user has the last word on it (`byHand`, history).

* `getModifiedCellValue` is one action per branch.  `computeCell` is a function from
  grid to grid; so is `recalculateLogbook`, which enters it as if the first cell that
  can be computed from had been edited.
* A blank cell of hours below the edited one: `computeCell` reads element 0 of an
  empty array, and the process dies (`crashed`).  A blank tank or amount leaves the
  local `double t` as it is: the amount of the line before, or, for the first line
  read, `Garbage`.
* The position dialog writes to row 7 (the number of the *column* POSITION), column
  `selGridRow`: `EditPosition` does that.
* `deleteRows` takes the rows out (`without`) and has the rest recalculated from one row
  on; `GapLeft` names the deletions whose recalculation does not reach the first row that
  has moved up.
* `TypeOK` says of hours that they are not negative unless the user types such.
* `decimalToHours` truncates the hours and rounds the minutes.  Which differences read
  hh:60 depends on floating point: `Short` lists them for the totals of the instance,
  computed with the code's expressions.

Left out: blank totals, blank watermaker hours, and `calculateDistance` south or west
of the origin (see 5).

### 2.5 Maintenance

`services`, `repairs` and `parts` are the three grids, each with its mark and file.
`border` is the local variable of `checkService`; a row's colour is its priority, as on a
white theme. `checkService` rates all rows by one line of the logbook, the one that was
edited or the last (`last`). Edits are one action per column or menu entry. `appendRow`
and `EditLastLine` change `last`; `EditEarlierLine` rates the services by another line.
`appendRow` ends in `changeCellValue`, which has every cell of the new line recomputed and
so the services rated by its final totals. What moves the logbook or the date without a
check, or with one by another line, leaves the frame behind (`EditEarlierLine`,
`EditDistance`, `EditPosition`, `deleteRows`, a midnight), until the timer, a new line or
an edit of the last one brings it up to date. `OnLogTimer` checks at each sixth tick (the
timer has 15 minutes, so every 90 minutes; the comments in `LogbookDialog.cpp:5531` say
ten minutes and one hour). `Preferences` with a new date format reloads the lists on top
of what is left of the grid of repairs. The lines that the plugin FindIt sends replace its
former ones (`deleteFindItRow`). `KindsAssumption` says that a new service, which depends
on a total, has a kind; `TypesAssumption` what stored lists and readings are. The colours
of the logbook's own cells are left out; the logbook has at least one line.

### 2.6 Watches

The grid shows one page (`day`) of the plan; `watchListFile` holds the pages of all
days, the base (the day the user fills in) first; `linenoStart` is where the shown day
begins in it.  `updateWatchTime` lays out a day after an edit, `Calculate` all days of
the trip.  `updateLine` writes the shown page back, and *hangs or dies* (`hung`) when
it looks for a following day past the end of the file.  `Minute` is the idle event at
a new minute: `OnIdleMainDialog` compares the clock with `ActualWatch::end`, turns the
page (`dayNow`) and appends a line.  `wmin` is the static variable that keeps it from
doing so twice in the same minute of the hour.

As the code has it: a rest of one minute is not filled (`Help.html:2768` promises 24
hours); members swapped by `flipWatches` are not stored; a plan of six lines or less
is not loaded; the end of a watch over midnight comes from its second date.  Two kinds of
watch take the plan apart:

* a watch of no minute, which may be typed (0:00) or is half of a watch of a minute that
  is split: when a later edit overfills a day that begins with it, the search for the
  day's end stops at once and the day is that watch alone;
* a watch of 24 hours and more: the last watch of an overfilled day, if it would end two
  dates after the day began, is shortened to an end that is a day too late.  Its time,
  "28:00" for instance, cannot be read again by `myParseTime` (`hours`; `Misread` stands
  for what is read instead), so the next edit lays the day out with another length.

`whole` is the history variable that says no edit has left either yet. `DaysAreFilled` and
`ChangesApplyToTheDay` hold until one does; without the exception the first is
`DayOf24Hours`, which the help promises and run `watches_filled` refutes. The base `Short`
of the instance has both cases: a watch of a minute to split, and, from the last minute of
a date on, a second watch that comes to end after two midnights. A page (`page`) is what
`readRecord` reads: from the first line of a day up to another day. A program started
without a plan has the trip that the dialog was built with (`FirstTrip`).
`CrewsAssumption`: the empty text is no crew. Left out: merging all watches into one, the
members typed into the one column of an empty base, the list of crew members.

### 2.7 NmeaDevices

A text of the program (`sDepth`, `sSOW`, ...) is abstracted to its age: the seconds
since the instrument said so.  `on` and `since` are the flag and the time per device;
`Device`, `Reporter` and `Renews` are the tables behind the chain of `if`s in
`SetSentence`.  `line` is the line of the last step.  `excused` is a history variable:
texts whose device another sentence has kept alive; `blind`: the GPS was off since the
last heading came; `gusts`, `swept`: the wind speeds since the last line with them.

`Tick` is a second.  It waits for the GPS timer when that is due: the event loop is
taken to be responsive.  `Preferences` chooses any values.  Position, date, course and
speed over ground, the volume of an XDR sentence and the average of the wind speeds
are left out, and engines are in `EngineLog`.

## 3. What TLC checks

| Run | Instance | Shows |
|---|---|---|
| `status_bar` | timer, waypoint, watch | `BarShowsOptions`, `SilentUnlessGreen`, `ClosedIsSaved`, `OpensSuspended`; implements `EventStatus` |
| `status_bar_nmea` | timer, distance, course | the same promise for the events that sentences drive |
| `engine_hours` | engine 1 and generator; the preferences' boxes of the generator | `RunningAccount`, `NoHoursTwice`, `StopBooksAll`, and under fairness `RpmSilenceStops` |
| `logbook_file` | an active and one old logbook, 2 rows, 3 lines, the reminder from the second line on | `EditsAreMarked`, `LinesKept` (also with lines appended behind `appendRow`'s box), `OldLogbooksGrowNot`, `CopyOnDisk` |
| `grid_totals` | the four kinds of column, 3 rows | `TotalsAddUp`, `DeletionKeepsEntries` |
| `maintenance` | two rows per list, two readings, a check every second tick | `FrameShowsRows`, `EditsAreMarked`, `DoneTurnsGreen`, `FrameStaysCurrent`, and under fairness `FrameCatchesUp`, `PartsFollowServices` |
| `watches` | a day of 5 minutes, two crews and a star, trips of one or two days | `DaysAreFilled`, `ChangesApplyToTheDay`, `StarsKeepTheirTime`, `CrewsTakeTurns`, `ChangeAtMostAMinuteLate`, `GuardLoggedOnce` |
| `nmea_devices` | seven boats with different instruments | `FreshReadings`, `HeadingOptionKept`, `SpreadOfInterval` |

Each component's first run also checks its `TypeOK`.  Four more runs each show that
the program does not do what it says of itself:

| Run | Says | Does |
|---|---|---|
| `engine2_timeout` | a line's time is the time since the line before (Help) | the RPM timeout stops engine 2 only if engine 1 is under RPM control; otherwise every later line books its last hours again |
| `named_row` | "Delete Row Nr. %i ?" | a line appended behind the question clears the selection, and another row or the process goes |
| `guard_change` | members are inserted automatically when the guard changes (Help) | a plan calculated before its first watch begins is never looked up by the clock |
| `watches_filled` | the watches are always filled up to 24 hours (Help) | the first watch of a day is made longer, so that the last would end two dates after the day began: that one is shortened to an end a day too late, and the day lasts 48 hours |

### 3.1 Properties with exceptions

Some properties name the places where the code misses them; without the exception TLC
shows a counterexample, with it the rest of the behaviour is still held to the
property:

* `TotalsAddUp` excepts a line left blank or typed by hand, rows below a deletion whose
  recalculation misses the gap (the first line, a blank or hh:60 neighbour), and
  distances below a line without a position.
* `EditsAreMarked` of `Maintenance` lists what the code forgets to mark.
* `DoneTurnsGreen` excepts a battery bank: it is compared with its charge.
* `LinesKept` excepts the one line whose row the line behind the reminder takes.
* `FreshReadings` excepts texts another sentence stands in for, and a heading after
  a time without a GPS.
* `SpreadOfInterval` excepts the first line (uninitialised minima) and speeds above the
  ceiling of 99.
* `DaysAreFilled` and `ChangesApplyToTheDay` hold until an edit leaves a watch of no minute
  or of 24 hours and more (`whole`, 2.6).
* `CrewsTakeTurns` is about crews that are in the base once.

### 3.2 Bounds and why they are enough

* `EventBullets`, three events of five: the code treats watch, course and distance
  alike; the timer and the waypoint differ and are in the first run.  `timerSec` is 0
  or 1: the code asks only whether it is 0.  `timerType` has all of its values.
* `EngineLog`, `DEVICE_TIMEOUT` 1 and `MaxAge` 2: ages are compared with each other,
  with 0 and with the timeout only; 2 is past the timeout.  The invariants are proved
  for every value.  Engine 1 and the generator differ in `started` and in the shaft
  sentences; engines interact through `rpmSentence`, `rpmAge`, `checked` and the lines.
* `LogbookFile`, `MaxRows` and `MaxLines`: three lines are enough for one in an old
  logbook, one in the active one and one appended while something else goes on; the
  reminder needs one line before it, its own and one behind the box. A line may be
  appended only below `MaxRows` rows. `LIMIT` is 1 for 499: only "from some length on"
  matters. `STEP` exceeds `MaxRows`, so that one reminder is up at a time (in the program
  50 lines must be appended behind the box for a second one).
* `GridTotals`, `MaxRows` 3, `MaxLines` 4 (water 3), `MaxTotal` 4: three rows have a
  first, a middle and a last one, and the fourth line is appended after a deletion or a
  new logbook.  Entries are chosen so that sums differ; hours so that 1:00 from 0:01 to
  1:01 occurs.  The row that the position dialog really writes, number 7, does not
  exist here; with eight rows the dialog would put a position into another cell.
* `Maintenance`, `MaxRows` 2, `MaxEdits` 2, one later day, two readings that move a
  total, a bank and a status: two rows are enough for one row to outvote or overwrite
  another and for a service and a repair of one title; two edits for an edit and
  the one that reveals it.  `Hour` 2 for 6: some ticks check and some do not.
* `Watches`, days of `DayLength` 5 minutes and hours of `HourLength` 3 (not a divisor, so
  that a change comes at every minute of the hour), lengths 0, 2 and 4, `Misread` 1, three
  bases, `MaxWatches` 3, `MaxEdits` 3, `MaxClock` 6, trips of one and two days: watches
  over midnight, splits, a day that is too long, one shortened a day too late, a watch of
  no minute, a minute left over, the last day of the trip and the page turned by the clock
  all happen. `LoadLimit` is the code's 6: a trip of two days exceeds it.
* `NmeaDevices`, `DEVICE_TIMEOUT` 1, `GPSTIMEOUT` 2, `MaxAge` 4: the first age past their
  sum.  Two speeds, a `Ceiling` between them.  A boat has the instruments that can
  stand in for each other; devices of different boats do not interact except through
  GPS and options, which each boat has.  `FreshReadings` and `HeadingOptionKept` are
  proved for every boat and timeout.

`GridTotals.cfg` turns the deadlock check off: the process may have died there, and
nothing follows.  All other runs keep it.

### 3.3 Fairness

`FairSpec` of `EngineLog` assumes weak fairness of `Tick` (time passes) and of
`RpmTimeout`: the GPS timer is a periodic `wxTimer`, started by the window's `init`
and stopped with the window, and its handler calls `checkNMEADeviceIsOn`
every time.  Nothing is assumed of users, instruments or messages.
`RpmSilenceStops` therefore allows the run to end in any way that leaves the
premises: another sentence, a change of the preferences, the end of the window.

`FairSpec` of `Maintenance` assumes weak fairness of `OnLogTimer`: the log timer is
started with the window (`LogbookDialog.cpp:5095`) and stopped when the window
goes (`LogbookDialog.cpp:3199`).  `FrameCatchesUp` and `PartsFollowServices` may also
come true by the logbook moving back, the part gone or the window closed.

## 4. What is proved

Every invariant and every action property that a passing run checks, and the
refinement of `EventStatus`, is a theorem of the component's specification; each is
listed in `PROJECT.json`.  A theorem holds for every value of the constants that
the named assumptions allow: any number of lines, lists, days, boats, engines and
edits, where a run has two or three.  The bounds (`MaxRows`, `MaxClock`, ...) are
natural numbers and nothing more.

All proofs have one shape.  A type invariant is strengthened to an inductive `IInv`;
one lemma per action says that it keeps `IInv`; `Invariance` is `Spec => []IInv`, and
the other theorems follow from it: an invariant as a consequence, an action property by
one more lemma per action.

### 4.1 EventBullets (`EventsAssumption`: the timer is among the events)

`Typing`, `BarTruthful`, `Silence`, `NothingUnsaved` (`ClosedIsSaved`), `OpensYellow`
(`OpensSuspended`) and `Refinement`.

The inductive invariant is the type invariant, `BarShowsOptions`, and
`ModalHasWindow`: a dialog is up only while there is a window.  The last is
needed because the rest of `startNormalTimer` runs from the dialog's OK and
repaints the bullets of a window.  One lemma says that the end of a handler
(`Finish`), another that `startNormalTimer`, establish the invariant from any
status that agrees with itself; each action then only has to show that what it
hands over agrees.

`Closed` adds to `ClosedIsSaved` that a window which is gone has left all bullets red: the
next bar starts from them.  `OpensYellow` and the refinement need both.

`Refinement` is `Spec => StatusBarPromise`.  With a window the status shown is a function
of options and flag (`Bar`, `TruthfulShown`), without one it is all stopped (`Dark`).  Each
handler then maps to a start, a stop, a suspension, a resumption, an opening or a closing of
the bar, to a line of an event that runs (`BoundRowStep`: a line of the watch, the course
or the distance needs a green bullet), or to a stutter; `RefinementStep` puts them
together.

### 4.2 EngineLog (`EngineAssumption`: any engines, timeout and `MaxAge`)

`Typing`, `HoursAccount` (`RunningAccount`), `HoursOnce` (`NoHoursTwice`) and
`StopsBooked` (`StopBooksAll`).

`RunningAccount` is not inductive: it speaks of engines whose control was not
switched only, and a line books `age` of a switched one too.  The inductive
invariant `IInv` says of every engine but engine 2 (`Held`):

* `Good`: nothing was booked twice; if it runs, its `age`, which the next line
  books, is valid and at most what is unbooked, and exactly that if it was not
  switched;
* `Armed`: if it runs and there is a window, its `bRPM` is set, so a line takes the
  branch that restarts `dtEngine1On`, not the one that books `dtEngine1Off`;
* if it runs without its button and was not switched, it is under RPM control: the
  button can then not start it a second time and forget its account.

`Row` is what `appendRow` does to one engine; `RowGood` says that a line keeps
`Good`, `RowStopping` that the last line of an engine that is being stopped books at most
what is unbooked, `LastRow` that it books all of it.  `StartHeld`, `StopHeld` and
`ControlLost` lift them to the functions, and one lemma per action uses those.

### 4.3 LogbookFile (`FileAssumption`)

`Typing`, `Marked` (`EditsAreMarked`), `CopySurvives` (`CopyOnDisk`), `OldOnesKept`
(`OldLogbooksGrowNot`) and `ActiveOnesKept` (`LinesKept`).

The invariant is about the two logbooks an open window can write to, the active one and
the one shown: their files are complete and known to the user (`OpenFiles`), so that the
copy `update` makes before it rewrites a file is worth keeping; an old logbook that is
shown has no line its file lacks (`OldShown`), so that writing it back adds none;
`appendRow`'s box is up only while the active logbook is shown (`Reminded`); a file the
user has never seen complete has no `.Bak` (`Backed`).  `UpdateFiles` says what a
complete `update` does to the files, `TornFiles` what a death in its middle does.
`STEP > MaxRows` (one reminder at a time) is the one assumption that is a bound of the
instance and not of the code.

### 4.4 GridTotals (`KindsAssumption`, `EntriesAssumption`, `BoundsAssumption`)

`Typing`, `AddUp` (`TotalsAddUp`) and `EntriesKept` (`DeletionKeepsEntries`).

`IInv` is little more than types: the lines are numbered in the order in which they were
written, so that a row can be found again after a deletion, hours are entries that a cell
can hold, and only water has the column of the watermaker.  The work is in the operators.
`computeCell` and the loop for positions are recursive functions over the rows; that they
define something at all, and that they add up from their row on and touch nothing
above (`ComputeFacts`, `PositionFacts`), is proved for grids of any length, and
`RecalculateFacts` for the chain of cases in front of them.  `TotalledStep` then says of
an edit that it starts them at its own row or, if its own sum is right anyway, at the next
one; `TakeOutStep` of a deletion that it starts at the row above or below the gap;
`GapOf` that the exceptions of `TotalsAddUp` are where the recalculation stopped early.

### 4.5 Maintenance (`KindsAssumption`, `TypesAssumption`, `HourAssumption`, `BoundsAssumption`)

`Typing`, `FrameTruthful` (`FrameShowsRows`), `Unsaved` (`EditsAreMarked`), `DoneIsDone`
(`DoneTurnsGreen`) and `KeptCurrent` (`FrameStaysCurrent`).

The type invariant, `FrameShows` and `Marked` are inductive together. `BorderFacts`: the
colour that `checkService` accumulates over the rows is the worst of their levels.
`CheckFacts`: a check rates all rows against one line, whatever line that is, so that rows
and frame agree after it, and it changes priorities only, which are not what a file is
compared by; so a check can be run by anyone at any time without marking a list.
`CheckCurrent` adds that a check by the last line leaves the frame at the worst level a
service has by that line; a handler of the lists either ends in such a check or leaves the
levels of the services as they are (`ServiceCurrent`, `OthersCurrent`).

### 4.6 Watches (`LengthsAssumption`, `BasesAssumption`, `CrewsAssumption`)

`Typing`, `Punctual` (`ChangeAtMostAMinuteLate`), `LoggedOnce` (`GuardLoggedOnce`),
`Filling` (`DaysAreFilled`), `DayByDay` (`ChangesApplyToTheDay`), `StarsStay`
(`StarsKeepTheirTime`) and `TurnsTaken` (`CrewsTakeTurns`).

There are two invariants, one on top of the other.

* `AInv` is about the clock.  `Numbered`: a plan has the base and all days of the trip it
  was calculated for, so that `dayNow` finds day 1 and the page it turns to.  `OnTime`: the
  clock is before the end of the current watch, or exactly at it, and then nothing was
  logged in this minute and `wmin` is this minute of the hour; the next minute therefore is
  another one of the hour (`HourLength` is more than 1), and the change is found.
* `IInv` adds `InPlace`, as long as no edit has left a watch of no minute or of 24 hours and
  more: the file has its days in order and each is filled, the day shown is in the file at
  `linenoStart`, and the grid is a filled day.  `UpdateFacts` says that `updateWatchTime`
  leaves a filled day if the watches it leaves are of a minute and more and of less than
  24 hours (it moves, fills, shortens and cuts); `ReadOut` that the times of such watches
  are read as they were written; `SplicedFacts` that
  `updateLine` replaces the lines of one day and no other's; `PlanGood` that the days
  `Calculate` writes are as long as the base.

`whole` came out of this proof: without it `DaysAreFilled` was not inductive, and the case
left over was a behaviour of the code (2.6).

`TurnsTaken` counts: the crew of a watch is given by the remainder of the number of moves
before it (`TurnSteps`, `CrewAt`), the moves take every number once (`CountsAll`,
`CountGrows`), a crew that is in the base once has one place in their order (`OnePlace`), and
of the numbers with one remainder there is at most one more than of those with another
(`Rounds`).

### 4.7 NmeaDevices (`FitsAssumption`, `TimeAssumption`, `SpeedsAssumption`)

`Typing`, `Fresh` (`FreshReadings`), `OptionKept` (`HeadingOptionKept`) and `SpreadShown`
(`SpreadOfInterval`).

`FreshReadings` speaks of lines only.  The inductive invariant adds why the texts
behind them are fresh: `Timely`, a device that is on was heard at most
`DEVICE_TIMEOUT + GPSTIMEOUT - due` ago, which a second and the timer both keep;
`Aged`, a text without excuse is blank or exactly as old as its device, which is on;
`Blinded`, without a GPS the heading is excused, because `checkGPS` then takes the
flag and leaves the text; `Shown`, a line shows the texts as they are.
`OptionKept` needs `HeadingOff` besides: a heading is off only when it is overdue or
the GPS was away.  `SpreadShown` needs `Spanned`: once a line has reset them, `lowest`
and `highest` are the extremes of the speeds since, and the text for the next line says
so unless the timer has blanked it.  `MaxAge` need only exceed the sum of the timeouts
(`TimeAssumption`).

### 4.8 Recursion, and what stays with TLC

The library's induction theorems take an operator as a parameter, which the
installed provers cannot instantiate.  `Recursion` states them about sets and functions
instead: `Induction` and `InductionTo` about a set of numbers, `Iteration` that a step
function has an iterate, from which follows that a recursive function of the models
satisfies its equation.  The other lemmas of the module are what the proofs keep needing of
sequences and of division.

Only model-checked, because the prover has neither fairness nor ENABLED:
`RpmSilenceStops`, `FrameCatchesUp` and `PartsFollowServices`.  That a run can be carried on
(deadlock) is checked by TLC as well.  The four runs that expect a violation are
counterexamples and need no proof.

## 5. Results in words

The status bar, its options and the suspend flag never disagree, whatever is
clicked behind which dialog; a line of a watch, course or distance event needs a
green bullet.  Engine hours of engine 1 and the generator are exact up to the seconds
each line drops, as long as the preferences do not interfere, and never booked
twice even then.  A line once written stays where it belongs, and a death of the
process leaves a complete copy of what was last seen in the file or its `.Bak`.
The latter must be used at once: the next start loads the remains without a word
(or makes an empty file), and the first line then renames them over the `.Bak`.

Totals add up through any sequence of edits, deletions and new logbooks, but for the
exceptions of 3.1. The frame of the maintenance lists never contradicts the rows; a new
line brings it up to date, work on the lists keeps it so, and what has left it behind, a
midnight or an edit of an earlier line, is made good by the timer. The days of a watch
plan stay filled and in their place until an edit leaves a watch of no minute or of 24
hours and more, which the program lets happen; crews take turns, and once a watch is
current every change is logged once and at most a minute late. A reading in a line is at
most nine seconds old, if one sentence speaks for its device and the GPS was never lost.

Where the program and its documentation disagree, met while modelling, without a run
of their own:

* suspended events are "paused" (`Help.html:2146`), but the end of a route and a RMB
  sentence append a line all the same (`logbook_pi.cpp:324`, `Logbook.cpp:306`);
* after the menu's Shutdown "no events are received" (`Help.html:1016`), but plugin
  messages reopen the window and append lines (`logbook_pi.cpp:294`);
* the logbook is "always saved" on closing (`Help.html:1289`), but remarks set by
  `LOGBOOK_LOG_ADDLINE_REQUEST` are not (`logbook_pi.cpp:298`);
* an amount typed into the first line becomes its total (`Logbook.cpp:3256`, against
  `Help.html:2009`);
* the position dialog writes its text to the row numbered like the column
  (`LogbookDialog.cpp:4864`, against `Help.html:1595`);
* "Service done" and "Repair done" are not marked as edits (`Maintenance.cpp:1011`,
  against `Help.html:3231`);
* a line appended behind `appendRow`'s reminder is overwritten, in the file as well
  (`Logbook.cpp:1637`, against the comment at `Logbook.cpp:1998`);
* silent devices' texts are "set to empty" (`Logbook.h:45`), but not those another
  sentence stands in for, nor a heading after a time without a GPS; a VWR sentence takes
  its speed from the last VWT sentence (`Logbook.cpp:525`).

Seen while modelling and not stated as a property (some listed as hazards): OK in the
interval dialog starts the normal timer under a red bullet, or stops it under a
green one when the interval is 0; the line that stops an engine its button had started
books nothing when Calculate Hours is off; seconds are dropped with every line;
`newLogbook`'s carried line is not marked as modified; unsaved edits of an old
logbook are dropped when a line is appended.

## 6. Plan

Done, the most important behaviour first: `EventBullets` with `EventStatus`,
`EngineLog`, `LogbookFile`; `GridTotals`, `Maintenance`, `Watches`, `NmeaDevices`; the
proofs of section 4, which leave no safety property of a passing run unproved.  Left:

1. A crash instance of `EngineLog` with one engine: the flags are saved by
   `SaveConfig`, the lines at once.
2. Composition: an abstract `LineLog` (lines are appended, edited, deleted,
   archived) that `LogbookFile` implements as long as no box is up, with its proof from
   `OldOnesKept` and `ActiveOnesKept`.
3. A theorem about times on top of `PlanGood`: how far the watches of a plan drift from
   the times of the base over the days of the trip.

## 7. Not modelled

* Overview: it recomputes its sums from the files each time it is opened and keeps
  nothing between.
* Routes, tracks, waypoints and MOB beyond the line each appends (`EventBullets`):
  what is left is the wording of the remark.
* `calculateDistance` south of the equator and west of Greenwich, where it negates the
  wrong variables: geometry on real numbers.
* Conversion of files of older versions; search and the colours of its hits.
* Exports and layouts (formatting), the boat page (one form, one file), the list of
  crew members (one grid, one file), the widgets, dialog construction, and the vendored
  libraries, the bulk of the repository's lines.
