------------------------- MODULE EventBullets_proofs ------------------------
(***************************************************************************)
(* Proofs about EventBullets, for every set Events that the assumption      *)
(* allows.  The inductive invariant adds to the type invariant and to       *)
(* BarShowsOptions that a dialog is only up while there is a window: the    *)
(* second half of startNormalTimer runs from a dialog's OK.                 *)
(***************************************************************************)
EXTENDS EventBullets, TLAPS

\* The bar of options o, bullets b and flag s is truthful.
Truthful(o, b, s) ==
  /\ \A e \in Events : b[e] = IF ~o[e] THEN Red
                              ELSE IF s THEN Yellow ELSE Green
  /\ s => \E e \in Events : o[e]

ModalHasWindow == modal # "none" => window

IInv == TypeOK /\ (window => Truthful(opt, bullet, eventsEnabled))
        /\ ModalHasWindow

StatusType == [opt: [Events -> BOOLEAN], bullet: [Events -> Red..Green],
               suspended: BOOLEAN, hw: {"null", "stopped", "running"},
               pending: Lines]

Requests == {"keep", "running", "stopped"}

\* A status that a handler may end with
GoodStatus(s) == s \in StatusType /\ Truthful(s.opt, s.bullet, s.suspended)

\* The names of events are none of the other authors of lines.
LEMMA EventNames == "none" \notin Events /\ "manual" \notin Events
  BY EventsAssumption DEF AllEvents

\* Every line has a legal type.
LEMMA LineType ==
  ASSUME NEW b \in [Events -> Red..Green], NEW s \in BOOLEAN,
         NEW e \in AllEvents \cup {"none", "manual"}
  PROVE  Line(e, b, s) \in Row
<1>1. (IF e \in Events THEN b[e] ELSE Red) \in Red..Green
  BY DEF Red, Green
<1> QED
  BY <1>1 DEF Line, Row

LEMMA NoRowType == NoRow \in Row
  BY DEF NoRow, Row, Red, Green

LEMMA AllRedType == AllRed \in [Events -> Red..Green]
  BY DEF AllRed, Red, Green

\* The start of the process from a saved configuration establishes IInv.
LEMMA BootInv ==
  ASSUME NEW c \in Config, Boot(c)
  PROVE  IInv'
<1>1. TypeOK'
  BY NoRowType, AllRedType DEF Boot, Config, TypeOK, Lines
<1>2. ~window' /\ modal' = "none"
  BY DEF Boot
<1> QED
  BY <1>1, <1>2 DEF IInv, ModalHasWindow

\* The end of a handler establishes IInv.
LEMMA FinishInv ==
  ASSUME IInv, NEW s, GoodStatus(s), NEW request \in Requests,
         NEW type \in 0..2, NEW sec \in 0..1, Finish(s, request, type, sec)
  PROVE  IInv'
<1>1. CASE s.hw = "null" /\ request # "keep"
  <2>1. conf \in Config /\ Boot(conf)
    BY <1>1 DEF Finish, IInv, TypeOK
  <2> QED
    BY <2>1, BootInv
<1>2. CASE ~(s.hw = "null" /\ request # "keep")
  <2>1. /\ s.opt \in [Events -> BOOLEAN]
        /\ s.bullet \in [Events -> Red..Green]
        /\ s.suspended \in BOOLEAN
        /\ s.hw \in {"null", "stopped", "running"}
        /\ s.pending \in Lines
        /\ Truthful(s.opt, s.bullet, s.suspended)
    BY DEF GoodStatus, StatusType
  <2>2. row' \in Row
    <3>1. s.pending \in AllEvents \cup {"none", "manual"}
      BY <2>1 DEF Lines, AllEvents
    <3>2. Line(s.pending, s.bullet, s.suspended) \in Row
      BY <2>1, <3>1, LineType
    <3> QED
      BY <1>2, <3>2, NoRowType DEF Finish
  <2>3. TypeOK'
    BY <1>2, <2>1, <2>2 DEF Finish, IInv, TypeOK, Requests, Lines
  <2>4. window' /\ modal' = "none" /\ opt' = s.opt /\ bullet' = s.bullet
        /\ eventsEnabled' = s.suspended
    BY <1>2 DEF Finish
  <2> QED
    BY <2>1, <2>3, <2>4 DEF IInv, ModalHasWindow, Truthful
<1> QED
  BY <1>1, <1>2

\* startNormalTimer, whether it ends or waits for a dialog, establishes IInv.
LEMMA StartNormalTimerInv ==
  ASSUME IInv, NEW s, GoodStatus(s), startNormalTimer(s)
  PROVE  IInv'
<1>1. CASE timerSec = 0
  <2>1. /\ s.opt \in [Events -> BOOLEAN]
        /\ s.bullet \in [Events -> Red..Green]
        /\ s.suspended \in BOOLEAN
        /\ s.hw \in {"null", "stopped", "running"}
        /\ s.pending \in Lines
        /\ Truthful(s.opt, s.bullet, s.suspended)
    BY DEF GoodStatus, StatusType
  <2>2. TypeOK'
    BY <1>1, <2>1, NoRowType DEF startNormalTimer, IInv, TypeOK
  <2> QED
    BY <1>1, <2>1, <2>2 DEF startNormalTimer, IInv, ModalHasWindow, Truthful
<1>2. CASE timerSec # 0
  <2> DEFINE request == timerRequest(s.opt["timer"], s.bullet["timer"],
                                     s.suspended, timerType)
  <2>1. request \in Requests
    BY DEF timerRequest, Requests
  <2>2. timerType \in 0..2 /\ timerSec \in 0..1
    BY DEF IInv, TypeOK
  <2>3. Finish(s, request, timerType, timerSec)
    BY <1>2 DEF startNormalTimer
  <2> HIDE DEF request
  <2> QED
    BY <2>1, <2>2, <2>3, FinishInv
<1> QED
  BY <1>1, <1>2

\* Recolouring a bar whose red bullets are those of the stopped events leaves
\* it truthful, for a flag that is set only when some event is wanted.
LEMMA RefreshTruthful ==
  ASSUME NEW o \in [Events -> BOOLEAN], NEW b \in [Events -> Red..Green],
         NEW s \in BOOLEAN,
         \A e \in Events : ~o[e] => b[e] = Red,
         s => \E e \in Events : o[e]
  PROVE  /\ refreshBullets(o, b, s) \in [Events -> Red..Green]
         /\ Truthful(o, refreshBullets(o, b, s), s)
  BY DEF refreshBullets, Truthful, Red, Yellow, Green

\* AutoStatusStartStop from a truthful bar establishes IInv.
LEMMA AutoStatusInv ==
  ASSUME IInv, NEW o \in [Events -> BOOLEAN],
         NEW b \in [Events -> Red..Green], NEW s \in BOOLEAN,
         Truthful(o, b, s),
         NEW hw \in {"null", "stopped", "running"}, NEW p \in Lines,
         AutoStatusStartStop(o, b, hw, p)
  PROVE  IInv'
<1> DEFINE suspended == ~ checkBitmaps(b)
           status == Status(o, refreshBullets(o, b, suspended), suspended,
                            hw, p)
           idle == Status(o, b, FALSE, hw, p)
<1>1. timerType \in 0..2 /\ timerSec \in 0..1 /\ "keep" \in Requests
  BY DEF IInv, TypeOK, Requests
<1>2. CASE b = AllRed
  <2>1. GoodStatus(idle)
    BY <1>2 DEF GoodStatus, StatusType, Status, Truthful, AllRed, Red, Yellow,
                Green
  <2>2. Finish(idle, "keep", timerType, timerSec)
    BY <1>2 DEF AutoStatusStartStop
  <2> HIDE DEF idle
  <2> QED
    BY <1>1, <2>1, <2>2, FinishInv
<1>3. CASE b # AllRed
  <2>1. \E e \in Events : b[e] # Red
    BY <1>3 DEF AllRed
  <2>2. \E e \in Events : o[e]
    BY <2>1 DEF Truthful
  <2>3. \A e \in Events : ~o[e] => b[e] = Red
    BY DEF Truthful
  <2>4. suspended \in BOOLEAN
    BY DEF checkBitmaps
  <2>5. GoodStatus(status)
    <3> HIDE DEF suspended
    <3> QED
      BY <2>2, <2>3, <2>4, RefreshTruthful DEF GoodStatus, StatusType, Status
  <2>6. startNormalTimer(status) \/ Finish(status, "keep", timerType, timerSec)
    BY <1>3 DEF AutoStatusStartStop
  <2> HIDE DEF status
  <2> QED
    BY <1>1, <2>5, <2>6, FinishInv, StartNormalTimerInv
<1> QED
  BY <1>2, <1>3

\* The opening of a window with truthful bullets.
LEMMA WindowInv ==
  ASSUME IInv, NEW hw \in {"null", "stopped", "running"}, NEW p \in Lines,
         init(hw, p)
  PROVE  IInv'
<1> DEFINE suspended == checkStateOfEvents(opt) \/ eventsEnabled
           b == refreshBullets(opt, AllRed, suspended)
           status == Status(opt, b, checkBitmaps(b), hw, p)
<1>1. opt \in [Events -> BOOLEAN] /\ eventsEnabled \in BOOLEAN
      /\ timerType \in 0..2 /\ timerSec \in 0..1 /\ "keep" \in Requests
  BY DEF IInv, TypeOK, Requests
<1>2. /\ b \in [Events -> Red..Green]
      /\ checkBitmaps(b) \in BOOLEAN
      /\ Truthful(opt, b, checkBitmaps(b))
  BY <1>1 DEF refreshBullets, checkBitmaps, checkStateOfEvents, Truthful,
              AllRed, Red, Yellow, Green
<1> HIDE DEF b
<1>3. CASE autostarttimer
  <2>1. AutoStatusStartStop(opt, b, hw, p)
    BY <1>3 DEF init, b
  <2> QED
    BY <1>1, <1>2, <2>1, AutoStatusInv
<1>4. CASE ~autostarttimer
  <2>1. GoodStatus(status)
    BY <1>1, <1>2 DEF GoodStatus, StatusType, Status
  <2>2. Finish(status, "keep", timerType, timerSec)
    BY <1>4 DEF init, b
  <2> HIDE DEF status
  <2> QED
    BY <1>1, <2>1, <2>2, FinishInv
<1> QED
  BY <1>3, <1>4

\* A step that only appends a line.
LEMMA RowInv ==
  ASSUME IInv, NEW e \in AllEvents \cup {"manual"},
         appendRow(e) \/ checkedRow(e)
  PROVE  IInv'
<1>1. CASE appendRow(e)
  <2>1. row' \in Row
    <3>1. bullet \in [Events -> Red..Green] /\ eventsEnabled \in BOOLEAN
      BY DEF IInv, TypeOK
    <3> QED
      BY <1>1, <3>1, LineType DEF appendRow
  <2>2. UNCHANGED <<opt, bullet, eventsEnabled, settings, hwTimer, window,
                    modal, oldTimerType, pending, conf>>
    BY <1>1 DEF appendRow
  <2> QED
    BY <2>1, <2>2 DEF IInv, TypeOK, ModalHasWindow, Truthful, settings
<1>2. CASE Boot(conf)
  BY <1>2, BootInv DEF IInv, TypeOK
<1> QED
  BY <1>1, <1>2 DEF checkedRow

\* What a click on the bullet of e leaves to the end of its handler
Clicked(e) ==
  LET b == [bullet EXCEPT ![e] = setBulletColor(opt[e], eventsEnabled)]
  IN Status([opt EXCEPT ![e] = ~ opt[e]], b, checkBitmaps(b), hwTimer, "none")

\* A click keeps the bar truthful.  The events stay suspended unless the one
\* that is stopped was the last.
LEMMA ClickedGood ==
  ASSUME IInv, window, NEW e \in Events
  PROVE  /\ GoodStatus(Clicked(e))
         /\ Clicked(e).opt = [opt EXCEPT ![e] = ~ opt[e]]
         /\ Clicked(e).suspended
              <=> eventsEnabled /\ (opt[e] => \E f \in Events \ {e} : opt[f])
         /\ Clicked(e).pending = "none"
<1> USE DEF Red, Yellow, Green
<1> DEFINE colour == setBulletColor(opt[e], eventsEnabled)
           b == [bullet EXCEPT ![e] = colour]
           o == [opt EXCEPT ![e] = ~ opt[e]]
<1>t. /\ opt \in [Events -> BOOLEAN] /\ bullet \in [Events -> Red..Green]
      /\ eventsEnabled \in BOOLEAN /\ hwTimer \in {"null", "stopped", "running"}
      /\ "none" \in Lines
  BY DEF IInv, TypeOK, Lines
<1>1. /\ o \in [Events -> BOOLEAN] /\ b \in [Events -> Red..Green]
      /\ checkBitmaps(b) \in BOOLEAN
  BY <1>t DEF setBulletColor, checkBitmaps
<1>2. Truthful(opt, bullet, eventsEnabled)
  BY DEF IInv
<1>3. /\ o[e] = ~opt[e] /\ b[e] = colour
      /\ \A f \in Events \ {e} : o[f] = opt[f] /\ b[f] = bullet[f]
  BY <1>t, <1>1
<1>4. /\ Clicked(e).opt = o /\ Clicked(e).bullet = b
      /\ Clicked(e).suspended = checkBitmaps(b)
      /\ Clicked(e).hw = hwTimer /\ Clicked(e).pending = "none"
      /\ Clicked(e) = Status(o, b, checkBitmaps(b), hwTimer, "none")
  BY DEF Clicked, Status
<1> HIDE DEF o, b
<1>5. CASE opt[e]
  <2>1. colour = Red /\ ~o[e]
    BY <1>3, <1>5 DEF setBulletColor
  <2>2. checkBitmaps(b) <=> eventsEnabled /\ \E f \in Events \ {e} : opt[f]
    BY <1>t, <1>2, <1>3, <2>1 DEF Truthful, checkBitmaps
  <2>3. Truthful(o, b, checkBitmaps(b))
    <3>1. CASE eventsEnabled
      BY <1>2, <1>3, <2>1, <2>2, <3>1 DEF Truthful
    <3>2. CASE ~eventsEnabled
      BY <1>2, <1>3, <2>1, <2>2, <3>2 DEF Truthful
    <3> QED
      BY <3>1, <3>2
  <2> QED
    BY <1>t, <1>1, <1>4, <1>5, <2>2, <2>3 DEF GoodStatus, StatusType, Status, o
<1>6. CASE ~opt[e]
  <2>1. colour = (IF eventsEnabled THEN Yellow ELSE Green) /\ o[e]
    BY <1>3, <1>6 DEF setBulletColor
  <2>2. checkBitmaps(b) <=> eventsEnabled
    BY <1>2, <1>3, <2>1 DEF Truthful, checkBitmaps
  <2>3. Truthful(o, b, checkBitmaps(b))
    BY <1>2, <1>3, <2>1, <2>2 DEF Truthful
  <2> QED
    BY <1>t, <1>1, <1>4, <1>6, <2>2, <2>3 DEF GoodStatus, StatusType, Status, o
<1> QED
  BY <1>t, <1>5, <1>6

LEMMA InitInv == Init => IInv
<1> SUFFICES ASSUME Init PROVE IInv
  OBVIOUS
<1>1. TypeOK
  <2>1. /\ autostarttimer \in BOOLEAN /\ window \in BOOLEAN
        /\ eventsEnabled \in BOOLEAN
    BY Zenon DEF Init
  <2>2. opt \in [Events -> BOOLEAN] /\ timerType = 0 /\ timerSec = 1
    BY DEF Init
  <2>3. Saved \in Config
    BY <2>1, <2>2 DEF Saved, Config
  <2> QED
    BY <2>1, <2>2, <2>3, NoRowType, AllRedType DEF Init, TypeOK, Lines
<1>2. ~window /\ modal = "none"
  BY DEF Init
<1> QED
  BY <1>1, <1>2 DEF IInv, ModalHasWindow

LEMMA NextInv == IInv /\ [Next]_vars => IInv'
<1> SUFFICES ASSUME IInv, [Next]_vars PROVE IInv'
  OBVIOUS
<1> USE DEF Red, Yellow, Green
<1>t. /\ opt \in [Events -> BOOLEAN] /\ bullet \in [Events -> Red..Green]
      /\ eventsEnabled \in BOOLEAN /\ timerType \in 0..2 /\ timerSec \in 0..1
      /\ autostarttimer \in BOOLEAN /\ oldTimerType \in 0..2
      /\ hwTimer \in {"null", "stopped", "running"} /\ pending \in Lines
      /\ conf \in Config /\ Saved \in Config /\ "keep" \in Requests
      /\ "none" \in Lines /\ "manual" \in Lines /\ "waypointArrived" \in Lines
  BY DEF IInv, TypeOK, Saved, Config, Requests, Lines
<1>b. Interactive => Truthful(opt, bullet, eventsEnabled)
  BY DEF IInv, Interactive
<1>1. ASSUME NEW e \in Events, OnStatusBullet(e)
      PROVE  IInv'
  <2>1. window /\ modal = "none"
    BY <1>1 DEF OnStatusBullet, Interactive
  <2>2. \/ startNormalTimer(Clicked(e))
        \/ Finish(Clicked(e), "keep", timerType, timerSec)
    BY <1>1 DEF OnStatusBullet, Clicked
  <2> QED
    BY <1>t, <2>1, <2>2, ClickedGood, FinishInv, StartNormalTimerInv
<1>2. ASSUME OnButtonClickStatusStartStop PROVE IInv'
  BY <1>2, <1>t, <1>b, AutoStatusInv DEF OnButtonClickStatusStartStop
<1>3. ASSUME OnButtonClickStatusTimer PROVE IInv'
  <2>1. TypeOK'
    BY <1>3, <1>t, NoRowType
    DEF OnButtonClickStatusTimer, Interactive, IInv, TypeOK, settings
  <2> QED
    BY <1>3, <2>1
    DEF OnButtonClickStatusTimer, Interactive, IInv, ModalHasWindow, Truthful
<1>4. ASSUME NEW type \in 0..2, OnRadioButton(type) PROVE IInv'
  <2>1. TypeOK'
    BY <1>4, NoRowType DEF OnRadioButton, IInv, TypeOK
  <2> QED
    BY <1>4, <2>1 DEF OnRadioButton, IInv, ModalHasWindow, Truthful
<1>5. ASSUME NEW sec \in 0..1, OnButtonOKClick(sec) PROVE IInv'
  <2> DEFINE request == okRequest(timerType, sec)
             hw == IF request = "keep" THEN hwTimer ELSE request
             status == Status(opt, bullet, eventsEnabled, hw, pending)
             ask == timerRequest(opt["timer"], bullet["timer"],
                                 eventsEnabled, timerType)
  <2>1. request \in Requests /\ ask \in Requests
    BY DEF okRequest, timerRequest, Requests
  <2>2. hw \in {"null", "stopped", "running"}
    <3> HIDE DEF request
    <3> QED
      BY <1>t, <2>1 DEF Requests
  <2>3. Truthful(opt, bullet, eventsEnabled) /\ window
    BY <1>5 DEF OnButtonOKClick, IInv, ModalHasWindow
  <2>4. GoodStatus(status)
    <3> HIDE DEF hw
    <3> QED
      BY <1>t, <2>2, <2>3 DEF GoodStatus, StatusType, Status
  <2>5. CASE Boot(conf)
    BY <2>5, <1>t, BootInv
  <2>6. CASE Finish(status, ask, timerType, sec)
    <3> HIDE DEF status, ask
    <3> QED
      BY <1>t, <2>1, <2>4, <2>6, FinishInv
  <2>7. CASE /\ timerSec' = sec
             /\ hwTimer' = hw
             /\ modal' = IF modal = "forced" THEN "forced" ELSE "none"
             /\ oldTimerType' = IF modal = "forced" THEN timerType
                                ELSE oldTimerType
             /\ row' = NoRow
             /\ UNCHANGED <<opt, bullet, eventsEnabled, timerType,
                            autostarttimer, window, pending, conf>>
    <3> HIDE DEF hw
    <3>1. TypeOK'
      BY <1>t, <2>2, <2>7, NoRowType DEF IInv, TypeOK
    <3> QED
      BY <2>3, <2>7, <3>1 DEF IInv, ModalHasWindow, Truthful
  <2> QED
    BY <1>5, <2>5, <2>6, <2>7 DEF OnButtonOKClick
<1>6. ASSUME OnCancel PROVE IInv'
  <2>1. TypeOK'
    BY <1>6, NoRowType DEF OnCancel, IInv, TypeOK
  <2> QED
    BY <1>6, <2>1 DEF OnCancel, IInv, ModalHasWindow, Truthful
<1>7. ASSUME OnToolbarToolCallback PROVE IInv'
  <2>1. (IF hwTimer = "null" THEN "stopped" ELSE hwTimer)
          \in {"null", "stopped", "running"}
    BY <1>t
  <2> QED
    BY <1>7, <1>t, <2>1, WindowInv DEF OnToolbarToolCallback
<1>8. ASSUME OnMenuSelectionShutdown PROVE IInv'
  <2>1. TypeOK'
    BY <1>8, <1>t, NoRowType, AllRedType
    DEF OnMenuSelectionShutdown, SaveConfig, IInv, TypeOK, settings
  <2> QED
    BY <1>8, <2>1
    DEF OnMenuSelectionShutdown, Interactive, IInv, ModalHasWindow
<1>9. ASSUME DeInit \/ Kill PROVE IInv'
  <2>1. \/ Boot(Saved)
        \/ Boot(conf)
    BY <1>9 DEF DeInit, Kill
  <2> QED
    BY <1>t, <2>1, BootInv
<1>10. ASSUME NEW auto \in BOOLEAN, ShowPreferencesDialog(auto) PROVE IInv'
  <2>1. [Saved EXCEPT !.autostarttimer = auto] \in Config
    BY <1>t DEF Config
  <2>2. TypeOK'
    BY <1>10, <2>1, NoRowType DEF ShowPreferencesDialog, IInv, TypeOK
  <2> QED
    BY <1>10, <2>2
    DEF ShowPreferencesDialog, IInv, ModalHasWindow, Truthful
<1>11. ASSUME OnTimer \/ OnIdleTimer \/ OnIdleWatch \/ checkCourseChanged
              \/ checkDistance \/ SetSentenceRMB
       PROVE  IInv'
  BY <1>11, RowInv DEF OnTimer, OnIdleTimer, OnIdleWatch, checkCourseChanged,
                       checkDistance, SetSentenceRMB, AllEvents
<1>12. ASSUME WptArrived \/ RteEnded \/ AddLineRequest PROVE IInv'
  <2>1. \/ \E e \in AllEvents \cup {"manual"} : appendRow(e) \/ checkedRow(e)
        \/ \E p \in Lines : init(hwTimer, p)
    BY <1>12 DEF WptArrived, RteEnded, AddLineRequest, startLogbook, Lines,
                 AllEvents
  <2> QED
    BY <1>t, <2>1, RowInv, WindowInv
<1>13. ASSUME OtherMessage PROVE IInv'
  BY <1>13, <1>t, WindowInv DEF OtherMessage, startLogbook
<1>14. ASSUME AddLine PROVE IInv'
  BY <1>14, RowInv DEF AddLine
<1>15. ASSUME UNCHANGED vars PROVE IInv'
  BY <1>15 DEF vars, settings, IInv, TypeOK, ModalHasWindow, Truthful
<1> QED
  BY <1>1, <1>2, <1>3, <1>4, <1>5, <1>6, <1>7, <1>8, <1>9, <1>10, <1>11,
     <1>12, <1>13, <1>14, <1>15 DEF Next

\* The inductive invariant holds in every reachable state.
THEOREM Invariance == Spec => []IInv
<1> QED
  BY InitInv, NextInv, PTL DEF Spec

\* Type correctness of the status bar, for every set of events.
THEOREM Typing == Spec => []TypeOK
<1>1. IInv => TypeOK
  BY DEF IInv
<1> QED
  BY <1>1, Invariance, PTL

\* The bullets, the options and the suspend flag agree whenever there is a
\* window: setBulletColor, checkBitmaps, refreshBullets, init and the two
\* halves of startNormalTimer keep the three in step.
THEOREM BarTruthful == Spec => []BarShowsOptions
<1>1. IInv => BarShowsOptions
  BY DEF IInv, BarShowsOptions, Truthful
<1> QED
  BY <1>1, Invariance, PTL

-----------------------------------------------------------------------------
\* A step that appends no line, or one that is not an event's, or a waypoint
\* line
Unbound == \/ row' = NoRow
           \/ \E e \in {"manual", "waypointArrived"} :
                \E b, s : row' = Line(e, b, s)

LEMMA UnboundSilent ==
  ASSUME Unbound
  PROVE  SilentUnlessGreen'
<1>1. row'.by \notin Events \ {"timer", "waypointArrived"}
      /\ row'.by # "timer"
  BY EventNames DEF Unbound, NoRow, Line
<1> QED
  BY <1>1 DEF SilentUnlessGreen

LEMMA FinishUnbound ==
  ASSUME NEW s, s.pending \in Lines, NEW request, NEW type, NEW sec,
         Finish(s, request, type, sec) \/ startNormalTimer(s)
  PROVE  Unbound
<1>1. ASSUME NEW r, NEW t, NEW n, Finish(s, r, t, n)
      PROVE  Unbound
  BY <1>1 DEF Finish, Boot, Unbound, Lines
<1> QED
  BY <1>1 DEF startNormalTimer, Unbound

LEMMA AutoUnbound ==
  ASSUME NEW o, NEW b, NEW hw, NEW p \in Lines, AutoStatusStartStop(o, b, hw, p)
  PROVE  Unbound
<1>1. ASSUME NEW c, NEW f, NEW r, NEW t, NEW n,
             \/ Finish(Status(o, c, f, hw, p), r, t, n)
             \/ startNormalTimer(Status(o, c, f, hw, p))
      PROVE  Unbound
  BY <1>1, FinishUnbound DEF Status
<1> QED
  BY <1>1 DEF AutoStatusStartStop

LEMMA WindowUnbound ==
  ASSUME NEW hw, NEW p \in Lines, init(hw, p)
  PROVE  Unbound
<1>1. ASSUME NEW b, NEW f, NEW r, NEW t, NEW n,
             Finish(Status(opt, b, f, hw, p), r, t, n)
      PROVE  Unbound
  BY <1>1, FinishUnbound DEF Status
<1> QED
  BY <1>1, AutoUnbound DEF init

\* A line of event e appended while e is wanted and nothing is suspended
LEMMA GreenLine ==
  ASSUME IInv, window, ~eventsEnabled, NEW e \in Events, opt[e],
         row' = Line(e, bullet, eventsEnabled)
  PROVE  SilentUnlessGreen'
<1>1. bullet[e] = Green
  BY DEF IInv, Truthful
<1> QED
  BY <1>1 DEF SilentUnlessGreen, Line

LEMMA SilentStep == IInv /\ SilentUnlessGreen /\ [Next]_vars => SilentUnlessGreen'
<1> SUFFICES ASSUME IInv, SilentUnlessGreen, [Next]_vars
             PROVE  SilentUnlessGreen'
  OBVIOUS
<1>t. pending \in Lines /\ "none" \in Lines /\ "manual" \in Lines
      /\ "waypointArrived" \in Lines
  BY DEF IInv, TypeOK, Lines
<1>1. ASSUME NEW e \in Events, OnStatusBullet(e)
      PROVE  Unbound
  <2>1. \E s, r, t, n : /\ s.pending = "none"
                        /\ Finish(s, r, t, n) \/ startNormalTimer(s)
    BY <1>1 DEF OnStatusBullet, Status
  <2> QED
    BY <1>t, <2>1, FinishUnbound
<1>2. ASSUME OnButtonClickStatusStartStop \/ OnToolbarToolCallback
             \/ OtherMessage
      PROVE  Unbound
  BY <1>2, <1>t, AutoUnbound, WindowUnbound
  DEF OnButtonClickStatusStartStop, OnToolbarToolCallback, OtherMessage,
      startLogbook
<1>3. ASSUME \/ OnButtonClickStatusTimer
             \/ \E type \in 0..2 : OnRadioButton(type)
             \/ OnCancel \/ OnMenuSelectionShutdown \/ DeInit \/ Kill
             \/ \E auto \in BOOLEAN : ShowPreferencesDialog(auto)
      PROVE  Unbound
  BY <1>3
  DEF OnButtonClickStatusTimer, OnRadioButton, OnCancel,
      OnMenuSelectionShutdown, DeInit, Kill, ShowPreferencesDialog, Boot,
      Unbound
<1>4. ASSUME NEW sec \in 0..1, OnButtonOKClick(sec)
      PROVE  Unbound
  <2>1. \/ \E s, r, t, n : s.pending = pending /\ Finish(s, r, t, n)
        \/ row' = NoRow
    BY <1>4 DEF OnButtonOKClick, Boot, Status
  <2> QED
    BY <1>t, <2>1, FinishUnbound DEF Unbound
<1>5. ASSUME OnTimer \/ OnIdleTimer
      PROVE  SilentUnlessGreen'
  <2>1. \/ row' = NoRow
        \/ ~eventsEnabled /\ row' = Line("timer", bullet, eventsEnabled)
    BY <1>5 DEF OnTimer, OnIdleTimer, checkedRow, Boot, appendRow
  <2>2. CASE row' = NoRow
    BY <2>2, UnboundSilent DEF Unbound
  <2>3. CASE ~eventsEnabled /\ row' = Line("timer", bullet, eventsEnabled)
    BY <2>3 DEF SilentUnlessGreen, Line
  <2> QED
    BY <2>1, <2>2, <2>3
<1>6. ASSUME OnIdleWatch \/ checkCourseChanged \/ checkDistance
      PROVE  SilentUnlessGreen'
  BY <1>6, GreenLine
  DEF OnIdleWatch, checkCourseChanged, checkDistance, appendRow
<1>7. ASSUME SetSentenceRMB \/ WptArrived \/ RteEnded \/ AddLineRequest
             \/ AddLine
      PROVE  Unbound
  <2>1. \/ \E p \in Lines : init(hwTimer, p)
        \/ \E e \in {"manual", "waypointArrived"} :
             row' = Line(e, bullet, eventsEnabled)
        \/ row' = NoRow
    BY <1>7, <1>t
    DEF SetSentenceRMB, WptArrived, RteEnded, AddLineRequest, AddLine,
        startLogbook, checkedRow, appendRow, Boot
  <2> QED
    BY <2>1, WindowUnbound DEF Unbound
<1>8. ASSUME UNCHANGED vars PROVE SilentUnlessGreen'
  BY <1>8 DEF vars, SilentUnlessGreen
<1> QED
  BY <1>1, <1>2, <1>3, <1>4, <1>5, <1>6, <1>7, <1>8, UnboundSilent DEF Next

\* An event that is not green is silent: no watch, distance or course line
\* without a green bullet, no timer line while the events are suspended.
THEOREM Silence == Spec => []SilentUnlessGreen
<1>1. Init => SilentUnlessGreen
  BY EventNames DEF Init, NoRow, SilentUnlessGreen
<1> QED
  BY <1>1, Invariance, SilentStep, PTL DEF Spec

-----------------------------------------------------------------------------
(* What is left when there is no window, and how the next one opens.       *)

\* Without a window the bullets are red: the next bar starts from them.
ClosedIsRed == ~window => bullet = AllRed

Closed == ClosedIsSaved /\ ClosedIsRed

\* A saved configuration is the one that the start of the process restores.
LEMMA BootClosed ==
  ASSUME NEW c \in Config, Boot(c)
  PROVE  Closed'
<1>1. Saved' = c
  BY DEF Boot, Saved, Config
<1> QED
  BY <1>1 DEF Boot, Closed, ClosedIsSaved, ClosedIsRed, AllRed

\* The end of a handler leaves a window, or the process is started again.
LEMMA FinishClosed ==
  ASSUME IInv, NEW s, NEW request, NEW type, NEW sec,
         Finish(s, request, type, sec) \/ startNormalTimer(s)
  PROVE  Closed'
<1>1. ASSUME NEW r, NEW t, NEW n, Finish(s, r, t, n)
      PROVE  Closed'
  <2>1. CASE Boot(conf)
    BY <2>1, BootClosed DEF IInv, TypeOK
  <2>2. CASE window'
    BY <2>2 DEF Closed, ClosedIsSaved, ClosedIsRed
  <2> QED
    BY <1>1, <2>1, <2>2 DEF Finish
<1>2. CASE window'
  BY <1>2 DEF Closed, ClosedIsSaved, ClosedIsRed
<1> QED
  BY <1>1, <1>2 DEF startNormalTimer

LEMMA InitClosed ==
  ASSUME IInv, NEW hw, NEW p, init(hw, p)
  PROVE  Closed'
<1>1. \E s, r, t, n : Finish(s, r, t, n) \/ startNormalTimer(s)
  BY DEF init, AutoStatusStartStop
<1> QED
  BY <1>1, FinishClosed

\* A step that leaves the bar, the settings and the configuration alone
LEMMA SameClosed ==
  ASSUME Closed,
         UNCHANGED <<opt, bullet, timerType, timerSec, autostarttimer, window, conf>>
  PROVE  Closed'
BY DEF Closed, ClosedIsSaved, ClosedIsRed, Saved, AllRed

LEMMA ClosedStep == IInv /\ Closed /\ [Next]_vars => Closed'
<1> SUFFICES ASSUME IInv, Closed, [Next]_vars PROVE Closed'
  OBVIOUS
<1>t. conf \in Config /\ Saved \in Config /\ (modal # "none" => window)
  BY DEF IInv, TypeOK, Saved, Config, ModalHasWindow
<1>w. ASSUME window' PROVE Closed'
  BY <1>w DEF Closed, ClosedIsSaved, ClosedIsRed
<1>1. ASSUME NEW e \in Events, OnStatusBullet(e) PROVE Closed'
  <2>1. \E s, r, t, n : Finish(s, r, t, n) \/ startNormalTimer(s)
    BY <1>1 DEF OnStatusBullet
  <2> QED
    BY <2>1, FinishClosed
<1>2. ASSUME OnButtonClickStatusStartStop PROVE Closed'
  <2>1. \E s, r, t, n : Finish(s, r, t, n) \/ startNormalTimer(s)
    BY <1>2 DEF OnButtonClickStatusStartStop, AutoStatusStartStop
  <2> QED
    BY <2>1, FinishClosed
<1>3. ASSUME \/ OnButtonClickStatusTimer
             \/ \E type \in 0..2 : OnRadioButton(type)
             \/ OnCancel
      PROVE  Closed'
  BY <1>3, <1>t, <1>w
  DEF OnButtonClickStatusTimer, Interactive, OnRadioButton, OnCancel
<1>4. ASSUME NEW sec \in 0..1, OnButtonOKClick(sec) PROVE Closed'
  <2>1. \/ Boot(conf)
        \/ \E s, r, t, n : Finish(s, r, t, n)
        \/ window'
    BY <1>4, <1>t DEF OnButtonOKClick
  <2> QED
    BY <2>1, <1>t, <1>w, BootClosed, FinishClosed
<1>5. ASSUME OnToolbarToolCallback \/ OtherMessage PROVE Closed'
  BY <1>5, InitClosed DEF OnToolbarToolCallback, OtherMessage, startLogbook
<1>6. ASSUME OnMenuSelectionShutdown PROVE Closed'
  BY <1>6
  DEF OnMenuSelectionShutdown, SaveConfig, settings, Closed, ClosedIsSaved,
      ClosedIsRed, Saved, AllRed
<1>7. ASSUME DeInit \/ Kill PROVE Closed'
  BY <1>7, <1>t, BootClosed DEF DeInit, Kill
<1>8. ASSUME NEW auto \in BOOLEAN, ShowPreferencesDialog(auto) PROVE Closed'
  <2>1. conf' = Saved'
    BY <1>8 DEF ShowPreferencesDialog, Saved
  <2> QED
    BY <1>8, <2>1
    DEF ShowPreferencesDialog, Closed, ClosedIsSaved, ClosedIsRed, AllRed
<1>9. ASSUME NEW e, appendRow(e) \/ checkedRow(e) PROVE Closed'
  <2>1. Boot(conf) \/ appendRow(e)
    BY <1>9 DEF checkedRow
  <2> QED
    BY <2>1, <1>t, BootClosed, SameClosed DEF appendRow, settings
<1>10. ASSUME OnTimer \/ OnIdleTimer \/ OnIdleWatch \/ checkCourseChanged
              \/ checkDistance \/ SetSentenceRMB \/ AddLine
       PROVE  Closed'
  BY <1>10, <1>9 DEF OnTimer, OnIdleTimer, OnIdleWatch, checkCourseChanged,
                     checkDistance, SetSentenceRMB, AddLine
<1>11. ASSUME WptArrived \/ RteEnded \/ AddLineRequest PROVE Closed'
  BY <1>11, <1>9, InitClosed DEF WptArrived, RteEnded, AddLineRequest,
                                 startLogbook
<1>12. ASSUME UNCHANGED vars PROVE Closed'
  BY <1>12, SameClosed DEF vars, settings
<1> QED
  BY <1>1, <1>2, <1>3, <1>4, <1>5, <1>6, <1>7, <1>8, <1>10, <1>11, <1>12
  DEF Next

LEMMA ClosedInvariance == Spec => []Closed
<1>1. Init => Closed
  BY DEF Init, Closed, ClosedIsSaved, ClosedIsRed, AllRed
<1> QED
  BY <1>1, Invariance, ClosedStep, PTL DEF Spec

\* With no window nothing is left unsaved: the configuration is the state of
\* the options, after a clean end, a crash or the shutdown menu.
THEOREM NothingUnsaved == Spec => []ClosedIsSaved
<1>1. Closed => ClosedIsSaved
  BY DEF Closed
<1> QED
  BY <1>1, ClosedInvariance, PTL

\* A window that init opens without the autostart option has a yellow bullet
\* for each wanted event.
LEMMA InitYellow ==
  ASSUME IInv, ~autostarttimer, NEW hw, NEW p, init(hw, p),
         NEW e \in Events
  PROVE  bullet'[e] = IF opt[e] THEN Yellow ELSE Red
<1> DEFINE suspended == checkStateOfEvents(opt) \/ eventsEnabled
           b == refreshBullets(opt, AllRed, suspended)
<1>1. Finish(Status(opt, b, checkBitmaps(b), hw, p), "keep", timerType, timerSec)
  BY DEF init
<1>2. bullet' = b
  BY <1>1 DEF Finish, Status
<1>3. opt[e] => suspended
  BY DEF checkStateOfEvents
<1> QED
  BY <1>2, <1>3 DEF refreshBullets, AllRed

\* "When you close OpenCPN with running events, these events are suspended at
\* next startup": init colours from the options it restored.
THEOREM OpensYellow == Spec => OpensSuspended
<1>1. ASSUME IInv, Closed, [Next]_vars, ~window, window', ~autostarttimer,
             NEW e \in Events
      PROVE  bullet'[e] = IF conf.opt[e] THEN Yellow ELSE Red
  <2>1. \E hw, p : init(hw, p)
    <3>1. modal = "none" /\ ~Interactive
      BY <1>1 DEF IInv, ModalHasWindow, Interactive
    <3>2. ~ \E c : Boot(c)
      BY <1>1 DEF Boot
    <3> QED
      BY <1>1, <3>1, <3>2
      DEF Next, OnStatusBullet, OnButtonClickStatusStartStop,
          OnButtonClickStatusTimer, OnRadioButton, OnButtonOKClick, OnCancel,
          OnToolbarToolCallback, OnMenuSelectionShutdown, DeInit, Kill,
          ShowPreferencesDialog, OnTimer, OnIdleTimer, OnIdleWatch,
          checkCourseChanged, checkDistance, SetSentenceRMB, WptArrived,
          RteEnded, AddLineRequest, OtherMessage, AddLine, startLogbook, vars
  <2>2. conf.opt = opt
    BY <1>1 DEF Closed, ClosedIsSaved, Saved
  <2> QED
    BY <1>1, <2>1, <2>2, InitYellow
<1>2. IInv /\ Closed /\ [Next]_vars
        => [~window /\ window' /\ ~autostarttimer =>
              \A e \in Events : bullet'[e] = IF conf.opt[e] THEN Yellow ELSE Red]_vars
  BY <1>1
<1> QED
  BY <1>2, Invariance, ClosedInvariance, PTL DEF Spec, OpensSuspended
-----------------------------------------------------------------------------
(* EventBullets implements EventStatus: each step of the status bar is,     *)
(* through the colours that it shows, a step that EventStatus promises, and *)
(* a line of a watch, distance or course event is a line of an event that   *)
(* runs.                                                                   *)

\* What a truthful bar of options o and flag s shows
Bar(o, s) == [e \in Events |-> IF ~o[e] THEN "stopped"
                               ELSE IF s THEN "suspended" ELSE "running"]

Dark == [e \in Events |-> "stopped"]

ShownLine == IF row.by \in Events \ {"timer", "waypointArrived"}
             THEN row.by ELSE "none"

LEMMA TruthfulShown ==
  ASSUME Truthful(opt, bullet, eventsEnabled)
  PROVE  Shown = Bar(opt, eventsEnabled)
BY DEF Truthful, Shown, Bar, Red, Yellow, Green

LEMMA RedShown == bullet = AllRed => Shown = Dark
BY DEF AllRed, Shown, Dark, Red, Yellow, Green

LEMMA TruthfulShownNext ==
  ASSUME Truthful(opt', bullet', eventsEnabled')
  PROVE  Shown' = Bar(opt', eventsEnabled')
BY DEF Truthful, Shown, Bar, Red, Yellow, Green

LEMMA RedShownNext == bullet' = AllRed => Shown' = Dark
BY DEF AllRed, Shown, Dark, Red, Yellow, Green

\* The promise's line of a step that appends no line of a bound event
LEMMA UnboundLine == Unbound => ShownLine' = "none"
<1> SUFFICES ASSUME Unbound PROVE ShownLine' = "none"
  OBVIOUS
<1>1. row'.by \notin Events \ {"timer", "waypointArrived"}
  BY EventNames DEF Unbound, NoRow, Line
<1> QED
  BY <1>1 DEF ShownLine

-----------------------------------------------------------------------------
(* What the handlers show when they end.                                   *)

LEMMA FinishShown ==
  ASSUME NEW s, GoodStatus(s), NEW request, NEW type, NEW sec,
         Finish(s, request, type, sec) \/ startNormalTimer(s)
  PROVE  Unbound /\ (Shown' = Dark \/ Shown' = Bar(s.opt, s.suspended))
<1>1. s.pending \in Lines /\ Truthful(s.opt, s.bullet, s.suspended)
  BY DEF GoodStatus, StatusType
<1>2. Unbound
  BY <1>1, FinishUnbound
<1>3. ASSUME opt' = s.opt, bullet' = s.bullet, eventsEnabled' = s.suspended
      PROVE  Shown' = Bar(s.opt, s.suspended)
  BY <1>1, <1>3, TruthfulShownNext
<1>4. ASSUME NEW r, NEW t, NEW n, Finish(s, r, t, n)
      PROVE  Shown' = Dark \/ Shown' = Bar(s.opt, s.suspended)
  BY <1>3, <1>4, RedShownNext DEF Finish, Boot
<1>5. startNormalTimer(s) => Shown' = Dark \/ Shown' = Bar(s.opt, s.suspended)
  BY <1>3, <1>4 DEF startNormalTimer
<1> QED
  BY <1>2, <1>4, <1>5

LEMMA AutoShown ==
  ASSUME IInv, NEW o \in [Events -> BOOLEAN],
         NEW b \in [Events -> Red..Green], NEW s \in BOOLEAN,
         Truthful(o, b, s),
         NEW hw \in {"null", "stopped", "running"}, NEW p \in Lines,
         AutoStatusStartStop(o, b, hw, p)
  PROVE  Unbound /\ (Shown' = Dark \/ Shown' = Bar(o, ~s))
<1> DEFINE suspended == ~ checkBitmaps(b)
           status == Status(o, refreshBullets(o, b, suspended), suspended,
                            hw, p)
<1>1. Unbound
  BY AutoUnbound
<1>2. CASE b = AllRed
  <2>1. \E r, t, n : Finish(Status(o, b, FALSE, hw, p), r, t, n)
    BY <1>2 DEF AutoStatusStartStop
  <2>2. bullet' = AllRed
    BY <1>2, <2>1 DEF Finish, Boot, Status
  <2> QED
    BY <1>1, <2>2, RedShownNext
<1>3. CASE b # AllRed
  <2>1. \E e \in Events : o[e] /\ b[e] # Red
    BY <1>3 DEF AllRed, Truthful
  <2>2. suspended = ~s
    BY <2>1 DEF Truthful, checkBitmaps, Red, Yellow, Green
  <2>3. \A e \in Events : ~o[e] => b[e] = Red
    BY DEF Truthful
  <2>4. GoodStatus(status)
    <3> HIDE DEF suspended
    <3> QED
      BY <2>1, <2>2, <2>3, RefreshTruthful DEF GoodStatus, StatusType, Status
  <2>5. \E r, t, n : startNormalTimer(status) \/ Finish(status, r, t, n)
    BY <1>3 DEF AutoStatusStartStop
  <2>6. status.opt = o /\ status.suspended = ~s
    BY <2>2 DEF Status
  <2> HIDE DEF status
  <2> QED
    BY <1>1, <2>4, <2>5, <2>6, FinishShown
<1> QED
  BY <1>2, <1>3

LEMMA WindowShown ==
  ASSUME IInv, NEW hw \in {"null", "stopped", "running"}, NEW p \in Lines,
         init(hw, p)
  PROVE  Unbound /\ (Shown' = Dark \/ \E s \in BOOLEAN : Shown' = Bar(opt, s))
<1> DEFINE suspended == checkStateOfEvents(opt) \/ eventsEnabled
           b == refreshBullets(opt, AllRed, suspended)
           status == Status(opt, b, checkBitmaps(b), hw, p)
<1>1. opt \in [Events -> BOOLEAN] /\ eventsEnabled \in BOOLEAN
  BY DEF IInv, TypeOK
<1>2. /\ b \in [Events -> Red..Green]
      /\ checkBitmaps(b) \in BOOLEAN
      /\ Truthful(opt, b, checkBitmaps(b))
  BY <1>1 DEF refreshBullets, checkBitmaps, checkStateOfEvents, Truthful,
              AllRed, Red, Yellow, Green
<1> HIDE DEF b
<1>3. CASE autostarttimer
  <2>1. AutoStatusStartStop(opt, b, hw, p)
    BY <1>3 DEF init, b
  <2> QED
    BY <1>1, <1>2, <2>1, AutoShown
<1>4. CASE ~autostarttimer
  <2>1. GoodStatus(status)
    BY <1>1, <1>2 DEF GoodStatus, StatusType, Status
  <2>2. \E r, t, n : Finish(status, r, t, n)
    BY <1>4 DEF init, b
  <2>3. status.opt = opt /\ status.suspended \in BOOLEAN
    BY <1>2 DEF Status
  <2> HIDE DEF status
  <2> QED
    BY <2>1, <2>2, <2>3, FinishShown
<1> QED
  BY <1>3, <1>4

-----------------------------------------------------------------------------
(* The steps of the promise, through what is shown.                        *)

PStep == Promise!Next \/ UNCHANGED Promise!vars

LEMMA QuietStep == Shown' = Shown /\ Unbound => PStep
BY UnboundLine DEF PStep, Promise!Next, Promise!Quiet, ShownLine

LEMMA DarkStep == Shown' = Dark /\ Unbound => PStep
BY UnboundLine
DEF PStep, Promise!Next, Promise!Close, Promise!Stopped, Dark, ShownLine

LEMMA OpenStep ==
  ASSUME Shown = Dark, Unbound, NEW s \in BOOLEAN, Shown' = Bar(opt, s)
  PROVE  PStep
<1> DEFINE S == {e \in Events : opt[e]}
           value == IF s THEN "suspended" ELSE "running"
<1>1. Shown' = Promise!Uniform(S, value)
  BY DEF Bar, Promise!Uniform
<1>2. S \in SUBSET Events /\ value \in {"suspended", "running"}
  OBVIOUS
<1> HIDE DEF S, value
<1> QED
  BY <1>1, <1>2, UnboundLine
  DEF PStep, Promise!Next, Promise!Open, Promise!Stopped, Dark, ShownLine

\* All events change together: Suspend or Resume.
LEMMA ToggleStep ==
  ASSUME opt \in [Events -> BOOLEAN], eventsEnabled \in BOOLEAN,
         eventsEnabled => \E e \in Events : opt[e],
         Shown = Bar(opt, eventsEnabled), Unbound,
         Shown' = Bar(opt, ~eventsEnabled)
  PROVE  PStep
<1>1. Promise!Suspended <=> eventsEnabled
  BY DEF Promise!Suspended, Bar
<1>2. Promise!Active = {e \in Events : opt[e]}
  BY DEF Promise!Active, Bar
<1>3. CASE eventsEnabled
  <2>1. Shown' = Promise!Uniform(Promise!Active, "running")
    BY <1>2, <1>3 DEF Promise!Uniform, Bar
  <2> QED
    BY <1>1, <1>3, <2>1, UnboundLine
    DEF PStep, Promise!Next, Promise!Resume, ShownLine
<1>4. CASE ~eventsEnabled
  <2>1. Shown' = Promise!Uniform(Promise!Active, "suspended")
    BY <1>2, <1>4 DEF Promise!Uniform, Bar
  <2> QED
    BY <1>1, <1>4, <2>1, UnboundLine
    DEF PStep, Promise!Next, Promise!Suspend, ShownLine
<1> QED
  BY <1>3, <1>4

\* A click on a bullet starts or stops its event.
LEMMA ClickStep ==
  ASSUME opt \in [Events -> BOOLEAN], eventsEnabled \in BOOLEAN,
         eventsEnabled => \E f \in Events : opt[f],
         Shown = Bar(opt, eventsEnabled), Unbound, NEW e \in Events, NEW s,
         s <=> eventsEnabled /\ (opt[e] => \E f \in Events \ {e} : opt[f]),
         Shown' = Bar([opt EXCEPT ![e] = ~ opt[e]], s)
  PROVE  PStep
<1> DEFINE o == [opt EXCEPT ![e] = ~ opt[e]]
<1>1. /\ o[e] = ~opt[e]
      /\ \A f \in Events \ {e} : o[f] = opt[f]
  OBVIOUS
<1>2. Shown' = Bar(o, s)
  OBVIOUS
<1> HIDE DEF o
<1>3. CASE opt[e]
  <2>1. Shown[e] # "stopped"
    BY <1>3 DEF Bar
  <2>2. Shown' = [Shown EXCEPT ![e] = "stopped"]
    <3>1. ASSUME NEW f \in Events
          PROVE  Bar(o, s)[f] = [Bar(opt, eventsEnabled) EXCEPT ![e] = "stopped"][f]
      BY <1>1, <1>3, <3>1 DEF Bar
    <3> QED
      BY <1>2, <3>1 DEF Bar
  <2> QED
    BY <2>1, <2>2, UnboundLine DEF PStep, Promise!Next, Promise!Stop, ShownLine
<1>4. CASE ~opt[e]
  <2>1. Shown[e] = "stopped"
    BY <1>4 DEF Bar
  <2>2. Promise!Suspended <=> eventsEnabled
    BY DEF Promise!Suspended, Bar
  <2>3. Shown' = [Shown EXCEPT ![e] = IF Promise!Suspended THEN "suspended"
                                      ELSE "running"]
    <3>1. ASSUME NEW f \in Events
          PROVE  Bar(o, s)[f]
                   = [Bar(opt, eventsEnabled) EXCEPT
                        ![e] = IF eventsEnabled THEN "suspended"
                               ELSE "running"][f]
      BY <1>1, <1>4, <3>1 DEF Bar
    <3> QED
      BY <1>2, <2>2, <3>1 DEF Bar
  <2> QED
    BY <2>1, <2>3, UnboundLine DEF PStep, Promise!Next, Promise!Start, ShownLine
<1> QED
  BY <1>3, <1>4

-----------------------------------------------------------------------------
LEMMA SameShown == bullet' = bullet => Shown' = Shown
BY DEF Shown

\* A line of no bound event, or the start of the process, is quiet or closes.
LEMMA FreeRowStep ==
  ASSUME NEW e \in {"timer", "waypointArrived", "manual"},
         appendRow(e) \/ checkedRow(e)
  PROVE  PStep
<1>1. CASE Boot(conf)
  BY <1>1, RedShownNext, DarkStep DEF Boot, Unbound
<1>2. CASE appendRow(e)
  <2>1. row'.by = e
    BY <1>2 DEF appendRow, Line
  <2>2. ShownLine' = "none"
    BY <2>1, EventNames DEF ShownLine
  <2> QED
    BY <1>2, <2>2, SameShown
    DEF appendRow, PStep, Promise!Next, Promise!Quiet, ShownLine
<1> QED
  BY <1>1, <1>2 DEF checkedRow

\* A line of a watch, distance or course event that runs is its Log step.
LEMMA BoundRowStep ==
  ASSUME IInv, window, ~eventsEnabled,
         NEW e \in Events \ {"timer", "waypointArrived"}, opt[e], appendRow(e)
  PROVE  PStep
<1>1. Shown[e] = "running"
  BY TruthfulShown DEF IInv, Bar
<1>2. ShownLine' = e
  BY DEF appendRow, Line, ShownLine
<1> QED
  BY <1>1, <1>2, SameShown DEF appendRow, PStep, Promise!Next, Promise!Log,
                               ShownLine

LEMMA RefinementStep == IInv /\ Closed /\ [Next]_vars => PStep
<1> SUFFICES ASSUME IInv, Closed, [Next]_vars PROVE PStep
  OBVIOUS
<1>t. /\ opt \in [Events -> BOOLEAN] /\ bullet \in [Events -> Red..Green]
      /\ eventsEnabled \in BOOLEAN /\ conf \in Config
      /\ hwTimer \in {"null", "stopped", "running"} /\ pending \in Lines
      /\ timerType \in 0..2 /\ (modal # "none" => window)
      /\ "none" \in Lines /\ "manual" \in Lines /\ "waypointArrived" \in Lines
  BY DEF IInv, TypeOK, Lines, ModalHasWindow
<1>w. window => /\ Truthful(opt, bullet, eventsEnabled)
                /\ Shown = Bar(opt, eventsEnabled)
                /\ eventsEnabled => \E e \in Events : opt[e]
  BY TruthfulShown DEF IInv, Truthful
<1>c. ~window => Shown = Dark
  BY RedShown DEF Closed, ClosedIsRed
<1>1. ASSUME NEW e \in Events, OnStatusBullet(e) PROVE PStep
  <2>1. window
    BY <1>1 DEF OnStatusBullet, Interactive
  <2>2. \E r, t, n : startNormalTimer(Clicked(e)) \/ Finish(Clicked(e), r, t, n)
    BY <1>1 DEF OnStatusBullet, Clicked
  <2>3. /\ GoodStatus(Clicked(e))
        /\ Clicked(e).opt = [opt EXCEPT ![e] = ~ opt[e]]
        /\ Clicked(e).suspended
             <=> eventsEnabled /\ (opt[e] => \E f \in Events \ {e} : opt[f])
    BY <2>1, ClickedGood
  <2>4. Unbound /\ \/ Shown' = Dark
                   \/ Shown' = Bar(Clicked(e).opt, Clicked(e).suspended)
    BY <2>2, <2>3, FinishShown
  <2>5. CASE Shown' = Dark
    BY <2>4, <2>5, DarkStep
  <2>6. CASE Shown' = Bar([opt EXCEPT ![e] = ~ opt[e]], Clicked(e).suspended)
    BY <1>t, <1>w, <2>1, <2>3, <2>4, <2>6, ClickStep
  <2> QED
    BY <2>3, <2>4, <2>5, <2>6
<1>2. ASSUME OnButtonClickStatusStartStop PROVE PStep
  <2>1. window /\ AutoStatusStartStop(opt, bullet, hwTimer, "none")
    BY <1>2 DEF OnButtonClickStatusStartStop, Interactive
  <2>2. Unbound /\ (Shown' = Dark \/ Shown' = Bar(opt, ~eventsEnabled))
    BY <1>t, <1>w, <2>1, AutoShown
  <2> QED
    BY <1>t, <1>w, <2>1, <2>2, DarkStep, ToggleStep
<1>3. ASSUME \/ OnButtonClickStatusTimer
             \/ \E type \in 0..2 : OnRadioButton(type)
             \/ OnCancel
             \/ \E auto \in BOOLEAN : ShowPreferencesDialog(auto)
      PROVE  PStep
  <2>1. bullet' = bullet /\ row' = NoRow
    BY <1>3 DEF OnButtonClickStatusTimer, OnRadioButton, OnCancel,
                ShowPreferencesDialog
  <2> QED
    BY <2>1, SameShown, QuietStep DEF Unbound
<1>4. ASSUME NEW sec \in 0..1, OnButtonOKClick(sec) PROVE PStep
  <2> DEFINE request == okRequest(timerType, sec)
             hw == IF request = "keep" THEN hwTimer ELSE request
             status == Status(opt, bullet, eventsEnabled, hw, pending)
  <2>1. window
    BY <1>4, <1>t DEF OnButtonOKClick
  <2>2. hw \in {"null", "stopped", "running"}
    BY <1>t DEF okRequest
  <2>3. /\ GoodStatus(status)
        /\ Bar(status.opt, status.suspended) = Shown
    <3> HIDE DEF hw
    <3> QED
      BY <1>t, <1>w, <2>1, <2>2 DEF GoodStatus, StatusType, Status
  <2>4. \/ Boot(conf)
        \/ \E r, t, n : Finish(status, r, t, n)
        \/ bullet' = bullet /\ row' = NoRow
    BY <1>4 DEF OnButtonOKClick
  <2>5. CASE Boot(conf)
    BY <2>5, RedShownNext, DarkStep DEF Boot, Unbound
  <2>6. CASE \E r, t, n : Finish(status, r, t, n)
    <3> HIDE DEF status
    <3> QED
      BY <2>3, <2>6, FinishShown, DarkStep, QuietStep
  <2>7. CASE bullet' = bullet /\ row' = NoRow
    BY <2>7, SameShown, QuietStep DEF Unbound
  <2> QED
    BY <2>4, <2>5, <2>6, <2>7
<1>5. ASSUME OnMenuSelectionShutdown \/ DeInit \/ Kill PROVE PStep
  <2>1. bullet' = AllRed /\ row' = NoRow
    BY <1>5 DEF OnMenuSelectionShutdown, DeInit, Kill, Boot
  <2> QED
    BY <2>1, RedShownNext, DarkStep DEF Unbound
<1>6. ASSUME ~window, NEW hw \in {"null", "stopped", "running"},
             NEW p \in Lines, init(hw, p)
      PROVE  PStep
  BY <1>6, <1>c, WindowShown, DarkStep, OpenStep
<1>7. ASSUME OnToolbarToolCallback \/ OtherMessage PROVE PStep
  <2>1. (IF hwTimer = "null" THEN "stopped" ELSE hwTimer)
          \in {"null", "stopped", "running"}
    BY <1>t
  <2> QED
    BY <1>7, <1>t, <1>6, <2>1
    DEF OnToolbarToolCallback, OtherMessage, startLogbook
<1>8. ASSUME OnTimer \/ OnIdleTimer \/ SetSentenceRMB \/ AddLine PROVE PStep
  BY <1>8, FreeRowStep DEF OnTimer, OnIdleTimer, SetSentenceRMB, AddLine
<1>9. ASSUME OnIdleWatch \/ checkCourseChanged \/ checkDistance PROVE PStep
  BY <1>9, BoundRowStep DEF OnIdleWatch, checkCourseChanged, checkDistance
<1>10. ASSUME WptArrived \/ RteEnded \/ AddLineRequest PROVE PStep
  BY <1>10, <1>t, <1>6, FreeRowStep
  DEF WptArrived, RteEnded, AddLineRequest, startLogbook
<1>11. ASSUME UNCHANGED vars PROVE PStep
  BY <1>11 DEF vars, PStep, Promise!vars, Shown
<1> QED
  BY <1>1, <1>2, <1>3, <1>4, <1>5, <1>7, <1>8, <1>9, <1>10, <1>11 DEF Next

\* The status bar keeps its promise: events start, stop, are suspended and
\* resumed together, and only a running event appends its lines, whatever
\* dialogs, messages, shutdowns and crashes come between.
THEOREM Refinement == Spec => StatusBarPromise
<1>1. Init => Promise!Init
  <2>1. Init => ShownLine = "none"
    BY EventNames DEF Init, NoRow, ShownLine
  <2> QED
    BY <2>1, RedShown DEF Init, Promise!Init, Promise!Stopped, Dark, ShownLine
<1>2. IInv /\ Closed /\ [Next]_vars => [Promise!Next]_(Promise!vars)
  BY RefinementStep DEF PStep
<1> QED
  BY <1>1, <1>2, Invariance, ClosedInvariance, PTL
  DEF Spec, StatusBarPromise, Promise!Spec
=============================================================================
