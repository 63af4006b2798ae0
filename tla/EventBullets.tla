---------------------------- MODULE EventBullets ----------------------------
(***************************************************************************)
(* The automatic-line events of the logbook and the status bar that starts, *)
(* suspends and stops them: the options opt->timer, opt->guardChange, ...,  *)
(* the coloured bullets, the plugin-wide flag eventsEnabled (TRUE means     *)
(* "suspended", in spite of its name), the wxTimer of the normal timer, and *)
(* the life of the logbook window and of the saved configuration.           *)
(*                                                                         *)
(* A handler is one action.  The exception is startNormalTimer, whose loop  *)
(* runs modal dialogs: while a dialog is up, timers, NMEA sentences and     *)
(* plugin messages are still delivered, so the rest of the handler is a     *)
(* later action.                                                           *)
(***************************************************************************)
EXTENDS Integers

CONSTANT Events    \* the events of this instance, a part of AllEvents

AllEvents == {"timer", "guardChange", "waypointArrived", "everySM",
              "courseChange"}

ASSUME EventsAssumption == Events \subseteq AllEvents /\ "timer" \in Events

Red    == 0        \* myBitmapButton::state
Yellow == 1
Green  == 2

NoRow == [by |-> "none", bullet |-> Red, paused |-> FALSE]

VARIABLES
  opt,             \* opt->timer, opt->guardChange, ...: the event is wanted
  bullet,          \* the state of the event's button in the status bar
  eventsEnabled,   \* TRUE: the events are suspended
  timerType,       \* 0 normal, 1 full hour, 2 individual
  timerSec,        \* the interval of the normal timer; only "zero" matters
  autostarttimer,  \* option: start the events when the window opens
  hwTimer,         \* m_timer: "null", "stopped" or "running"
  window,          \* m_plogbook_window exists
  modal,           \* the TimerInterval dialog: "none", "interval" (opened by
                   \* its button) or "forced" (by startNormalTimer)
  oldTimerType,    \* TimerInterval::oldTimerType
  pending,         \* the line a plugin message appends once the forced
                   \* dialog is closed, or "none"
  conf,            \* what SaveConfig last wrote
  row              \* the line appended by the last step, or NoRow

vars == <<opt, bullet, eventsEnabled, timerType, timerSec, autostarttimer,
          hwTimer, window, modal, oldTimerType, pending, conf, row>>

settings == <<timerType, timerSec, autostarttimer>>

Config == [opt: [Events -> BOOLEAN], timerType: 0..2, timerSec: 0..1,
           autostarttimer: BOOLEAN]

Lines == {"none", "manual", "waypointArrived"}

Row == [by: AllEvents \cup {"none", "manual"}, bullet: Red..Green,
        paused: BOOLEAN]

TypeOK ==
  /\ opt \in [Events -> BOOLEAN]
  /\ bullet \in [Events -> Red..Green]
  /\ eventsEnabled \in BOOLEAN
  /\ timerType \in 0..2
  /\ timerSec \in 0..1
  /\ autostarttimer \in BOOLEAN
  /\ hwTimer \in {"null", "stopped", "running"}
  /\ window \in BOOLEAN
  /\ modal \in {"none", "interval", "forced"}
  /\ oldTimerType \in 0..2
  /\ pending \in Lines
  /\ conf \in Config
  /\ row \in Row
-----------------------------------------------------------------------------
(* Helpers of the status bar.                                              *)

AllRed == [e \in Events |-> Red]

\* Variants (here and below, named after the definition that follows them):
\* plausible slips in the code, which the properties must tell from it.
checkStateOfEventsNone(o) == FALSE

\* Options::checkStateOfEvents
checkStateOfEvents(o) == \E e \in Events : o[e]

\* LogbookDialog::refreshBullets: only the wanted events are recoloured
refreshBullets(o, b, suspended) ==
  [e \in Events |-> IF o[e] THEN (IF suspended THEN Yellow ELSE Green)
                            ELSE b[e]]

checkBitmapsAll(b) == \A e \in Events : b[e] = Yellow

\* LogbookDialog::checkBitmaps: the value it leaves in eventsEnabled
checkBitmaps(b) == \E e \in Events : b[e] = Yellow

setBulletColorPast(o, suspended) ==
  IF o THEN Red ELSE IF suspended THEN Yellow ELSE Green + 1
setBulletColorGreen(o, suspended) == IF o THEN Red ELSE Green

\* LogbookDialog::setBulletColor
setBulletColor(o, suspended) ==
  IF o THEN Red ELSE IF suspended THEN Yellow ELSE Green

\* the line appended for event e when the status bar shows b
Line(e, b, suspended) ==
  [by |-> e, bullet |-> IF e \in Events THEN b[e] ELSE Red,
   paused |-> suspended]

\* The start of OpenCPN: Init and LoadConfig, with the saved options c.  The
\* plugin does nothing between the end of one process and the next start, so
\* an action that ends the process ends with the next start.
Boot(c) ==
  /\ opt' = c.opt
  /\ timerType' = c.timerType
  /\ timerSec' = c.timerSec
  /\ autostarttimer' = c.autostarttimer
  /\ eventsEnabled' = TRUE
  /\ bullet' = AllRed
  /\ hwTimer' = "stopped"
  /\ window' = FALSE
  /\ modal' = "none"
  /\ oldTimerType' = c.timerType
  /\ pending' = "none"
  /\ conf' = c
  /\ row' = NoRow

\* logbookkonni_pi::SaveConfig
Saved == [opt |-> opt, timerType |-> timerType, timerSec |-> timerSec,
          autostarttimer |-> autostarttimer]

SaveConfigNever == conf' = conf
SaveConfig == conf' = Saved
-----------------------------------------------------------------------------
(* The normal timer.                                                       *)

\* What the end of startNormalTimer asks of the wxTimer.
timerRequest(on, colour, suspended, type) ==
  CASE on /\ type = 0 /\ ~suspended                -> "running"
    [] ~on /\ type = 0 /\ colour \in {Red, Yellow} -> "stopped"
    [] OTHER                                       -> "keep"

\* What a handler has computed when it comes to the timer: options, bullets,
\* the flag eventsEnabled, m_timer, and the line a plugin message has
\* still to append.
Status(o, b, suspended, hw, p) ==
  [opt |-> o, bullet |-> b, suspended |-> suspended, hw |-> hw, pending |-> p]

\* The handler ends with status s, a request to the timer and the interval
\* settings type and sec.  A call through the null timer ends the process.
Finish(s, request, type, sec) ==
  IF s.hw = "null" /\ request # "keep"
  THEN Boot(conf)
  ELSE /\ opt' = s.opt
       /\ bullet' = s.bullet
       /\ eventsEnabled' = s.suspended
       /\ hwTimer' = IF request = "keep" THEN s.hw ELSE request
       /\ window' = TRUE
       /\ modal' = "none"
       /\ pending' = "none"
       /\ row' = IF s.pending = "none" THEN NoRow
                 ELSE Line(s.pending, s.bullet, s.suspended)
       /\ timerType' = type
       /\ timerSec' = sec
       /\ UNCHANGED <<autostarttimer, oldTimerType, conf>>

\* LogbookDialog::startNormalTimer: with an interval of zero it shows the
\* dialog until an interval is set.
startNormalTimer(s) ==
  IF timerSec = 0
  THEN /\ opt' = s.opt
       /\ bullet' = s.bullet
       /\ eventsEnabled' = s.suspended
       /\ hwTimer' = s.hw
       /\ window' = TRUE
       /\ modal' = "forced"
       /\ oldTimerType' = timerType
       /\ pending' = s.pending
       /\ row' = NoRow
       /\ UNCHANGED <<timerType, timerSec, autostarttimer, conf>>
  ELSE Finish(s, timerRequest(s.opt["timer"], s.bullet["timer"],
                              s.suspended, timerType), timerType, timerSec)

\* LogbookDialog::AutoStatusStartStop: suspended events are resumed, running
\* ones suspended; with no event there is nothing to do.
AutoStatusStartStop(o, b, hw, p) ==
  LET suspended == ~ checkBitmaps(b)
      s == Status(o, refreshBullets(o, b, suspended), suspended, hw, p)
  IN CASE b = AllRed -> Finish(Status(o, b, FALSE, hw, p), "keep",
                               timerType, timerSec)
       [] b # AllRed /\ o["timer"] /\ timerType = 0 -> startNormalTimer(s)
       [] OTHER -> Finish(s, "keep", timerType, timerSec)
-----------------------------------------------------------------------------
(* The status bar and the interval dialog.                                 *)

Interactive == window /\ modal = "none"

\* OnStatusBulletTimer, OnStatusBulletWatch, ...: the click on a bullet
OnStatusBullet(e) ==
  /\ Interactive
  /\ LET colour == setBulletColor(opt[e], eventsEnabled)
         b == [bullet EXCEPT ![e] = colour]
         s == Status([opt EXCEPT ![e] = ~ opt[e]], b, checkBitmaps(b),
                     hwTimer, "none")
     IN IF e = "timer" /\ timerType = 0
        THEN startNormalTimer(s)
        ELSE Finish(s, "keep", timerType, timerSec)

\* The Start/Stop button of the status bar
OnButtonClickStatusStartStop ==
  Interactive /\ AutoStatusStartStop(opt, bullet, hwTimer, "none")

\* OnButtonClickStatusTimer: TimerInterval::init and ShowModal
OnButtonClickStatusTimer ==
  /\ Interactive
  /\ modal' = "interval"
  /\ oldTimerType' = timerType
  /\ row' = NoRow
  /\ UNCHANGED <<opt, bullet, eventsEnabled, settings, hwTimer, window,
                 pending, conf>>

\* The radio buttons change the option at once, before OK.
OnRadioButton(type) ==
  /\ modal # "none"
  /\ timerType' = type
  /\ row' = NoRow
  /\ UNCHANGED <<opt, bullet, eventsEnabled, timerSec, autostarttimer,
                 hwTimer, window, modal, oldTimerType, pending, conf>>

\* What TimerInterval::OnClose asks of the wxTimer after OK.  It does not
\* look at opt->timer.
okRequest(type, sec) ==
  CASE type = 0 /\ ~eventsEnabled -> IF sec > 0 THEN "running" ELSE "stopped"
    [] type # 0                   -> "stopped"
    [] OTHER                      -> "keep"

\* TimerInterval::OnButtonOKClick and OnClose.  A forced dialog with an
\* interval goes on with the rest of startNormalTimer.
OnButtonOKClick(sec) ==
  /\ modal # "none"
  /\ LET request == okRequest(timerType, sec)
         hw == IF request = "keep" THEN hwTimer ELSE request
         s == Status(opt, bullet, eventsEnabled, hw, pending)
     IN CASE hwTimer = "null" /\ request # "keep" -> Boot(conf)
          [] (hwTimer # "null" \/ request = "keep") /\ modal = "forced"
             /\ sec > 0 ->
               Finish(s, timerRequest(opt["timer"], bullet["timer"],
                                      eventsEnabled, timerType),
                      timerType, sec)
          [] OTHER ->
               /\ timerSec' = sec
               /\ hwTimer' = hw
               /\ modal' = IF modal = "forced" THEN "forced" ELSE "none"
               /\ oldTimerType' = IF modal = "forced" THEN timerType
                                  ELSE oldTimerType
               /\ row' = NoRow
               /\ UNCHANGED <<opt, bullet, eventsEnabled, timerType,
                              autostarttimer, window, pending, conf>>

\* TimerInterval::OnClose without OK; a forced dialog is shown again.
OnCancel ==
  /\ modal # "none"
  /\ timerType' = oldTimerType
  /\ modal' = IF modal = "forced" THEN "forced" ELSE "none"
  /\ row' = NoRow
  /\ UNCHANGED <<opt, bullet, eventsEnabled, timerSec, autostarttimer,
                 hwTimer, window, oldTimerType, pending, conf>>
-----------------------------------------------------------------------------
(* The life of the window and of the process.                              *)

\* LogbookDialog::init, of a window opened by the toolbar or for a plugin
\* message with line p; m_timer is hw.
init(hw, p) ==
  LET suspended == checkStateOfEvents(opt) \/ eventsEnabled
      b == refreshBullets(opt, AllRed, suspended)
  IN IF autostarttimer
     THEN AutoStatusStartStop(opt, b, hw, p)
     ELSE Finish(Status(opt, b, checkBitmaps(b), hw, p), "keep",
                 timerType, timerSec)

\* logbookkonni_pi::OnToolbarToolCallback with no window: a timer deleted by
\* the shutdown menu is created again.
OnToolbarToolCallback ==
  ~window /\ init(IF hwTimer = "null" THEN "stopped" ELSE hwTimer, "none")

\* logbookkonni_pi::startLogbook, by a plugin message that appends line p
\* (or none): it does not create the timer again.
startLogbook(p) == ~window /\ init(hwTimer, p)

\* logbookkonni_pi::shutdown(true), the menu "Shutdown Logbook"
OnMenuSelectionShutdown ==
  /\ Interactive
  /\ SaveConfig
  /\ window' = FALSE
  /\ bullet' = AllRed
  /\ hwTimer' = "null"
  /\ row' = NoRow
  /\ UNCHANGED <<opt, eventsEnabled, settings, modal, oldTimerType, pending>>

\* logbookkonni_pi::DeInit: the configuration is saved if there is a window.
DeInit ==
  /\ modal = "none"
  /\ Boot(IF window THEN Saved ELSE conf)

\* The process is killed, or the power fails.
Kill == Boot(conf)

\* ShowPreferencesDialog: getValues and SaveConfig
ShowPreferencesDialog(auto) ==
  /\ modal = "none"
  /\ autostarttimer' = auto
  /\ conf' = [Saved EXCEPT !.autostarttimer = auto]
  /\ row' = NoRow
  /\ UNCHANGED <<opt, bullet, eventsEnabled, timerType, timerSec, hwTimer,
                 window, modal, oldTimerType, pending>>
-----------------------------------------------------------------------------
(* Lines.  checkGPS reads the timer on the way, for a manual line and for a *)
(* timer line, when the GPS sends: with a null timer the process ends.      *)

appendRow(e) ==
  /\ row' = Line(e, bullet, eventsEnabled)
  /\ UNCHANGED <<opt, bullet, eventsEnabled, settings, hwTimer, window, modal,
                 oldTimerType, pending, conf>>

checkedRow(e) ==
  \E gpsStatus \in BOOLEAN :
    IF gpsStatus /\ hwTimer = "null" THEN Boot(conf) ELSE appendRow(e)

\* LogbookTimer::OnTimer, timerEvent, popUp
OnTimer ==
  hwTimer = "running" /\ window /\ ~eventsEnabled /\ checkedRow("timer")

\* LogbookDialog::OnIdleMainDialog: the minute of a full-hour or individual
\* timer
OnIdleTimer ==
  /\ window /\ opt["timer"] /\ ~eventsEnabled
  /\ timerType \in {1, 2}
  /\ checkedRow("timer")

OnIdleWatchAlways ==
  "guardChange" \in Events /\ window /\ opt["guardChange"]
  /\ appendRow("guardChange")
checkCourseChangedAlways ==
  "courseChange" \in Events /\ window /\ ~eventsEnabled
  /\ appendRow("courseChange")
checkDistanceAlways ==
  "everySM" \in Events /\ window /\ opt["everySM"] /\ appendRow("everySM")

\* OnIdleMainDialog at the end of the watch; a RMC sentence after a change of
\* course; a position after the set distance
OnIdleWatch ==
  /\ "guardChange" \in Events
  /\ window /\ opt["guardChange"] /\ ~eventsEnabled
  /\ appendRow("guardChange")

checkCourseChanged ==
  /\ "courseChange" \in Events
  /\ window /\ opt["courseChange"] /\ ~eventsEnabled
  /\ appendRow("courseChange")

checkDistance ==
  /\ "everySM" \in Events
  /\ window /\ opt["everySM"] /\ ~eventsEnabled
  /\ appendRow("everySM")

\* A RMB sentence inside the arrival circle of a new waypoint
SetSentenceRMB ==
  /\ "waypointArrived" \in Events
  /\ window /\ opt["waypointArrived"]
  /\ appendRow("waypointArrived")

\* SetPluginMessage: the conditions are read before the window is opened.
WptArrived ==
  /\ "waypointArrived" \in Events
  /\ opt["waypointArrived"] /\ ~eventsEnabled
  /\ IF window THEN appendRow("waypointArrived")
     ELSE startLogbook("waypointArrived")

RteEnded ==
  /\ "waypointArrived" \in Events
  /\ opt["waypointArrived"]
  /\ IF window THEN appendRow("waypointArrived")
     ELSE startLogbook("waypointArrived")

\* OCPN_MAN_OVERBOARD and LOGBOOK_LOG_ADDLINE_REQUEST
AddLineRequest ==
  IF window THEN checkedRow("manual") ELSE startLogbook("manual")

\* Messages that only need the window: a route or track is activated, ...
OtherMessage == startLogbook("none")

\* m_button4OnButtonClick: the button "Add Line"
AddLine == Interactive /\ checkedRow("manual")
-----------------------------------------------------------------------------
Init ==
  /\ opt = [e \in Events |-> FALSE]     \* no saved configuration
  /\ bullet = AllRed
  /\ eventsEnabled = TRUE
  /\ timerType = 0
  /\ timerSec = 1                        \* LoadConfig: one minute
  /\ autostarttimer = FALSE
  /\ hwTimer = "stopped"
  /\ window = FALSE
  /\ modal = "none"
  /\ oldTimerType = 0
  /\ pending = "none"
  /\ conf = Saved
  /\ row = NoRow

Next ==
  \/ \E e \in Events : OnStatusBullet(e)
  \/ OnButtonClickStatusStartStop
  \/ OnButtonClickStatusTimer
  \/ \E type \in 0..2 : OnRadioButton(type)
  \/ \E sec \in 0..1 : OnButtonOKClick(sec)
  \/ OnCancel
  \/ OnToolbarToolCallback
  \/ OnMenuSelectionShutdown
  \/ DeInit
  \/ Kill
  \/ \E auto \in BOOLEAN : ShowPreferencesDialog(auto)
  \/ OnTimer
  \/ OnIdleTimer
  \/ OnIdleWatch
  \/ checkCourseChanged
  \/ checkDistance
  \/ SetSentenceRMB
  \/ WptArrived
  \/ RteEnded
  \/ AddLineRequest
  \/ OtherMessage
  \/ AddLine

Spec == Init /\ [][Next]_vars
-----------------------------------------------------------------------------
(* Properties.                                                             *)

\* The status bar tells the truth about the options and the suspend flag:
\* with a window, an event's bullet is red exactly when its option is off,
\* all other bullets have the one colour that eventsEnabled stands for, and
\* events are suspended only if there is one.  Three copies of one fact, kept
\* in step by setBulletColor, refreshBullets, checkBitmaps and init.
BarShowsOptions ==
  window => /\ \A e \in Events :
                 bullet[e] = IF ~opt[e] THEN Red
                             ELSE IF eventsEnabled THEN Yellow ELSE Green
            /\ eventsEnabled => \E e \in Events : opt[e]

\* No line of a watch, distance or course event while its bullet is not
\* green, and no timer line while the events are suspended.
SilentUnlessGreen ==
  /\ row.by \in Events \ {"timer", "waypointArrived"} => row.bullet = Green
  /\ row.by = "timer" => ~row.paused

\* With no window nothing is left unsaved: the events, interval type and
\* options that the next window shows are those of the saved configuration,
\* after a clean end of OpenCPN, a crash or a shutdown by the menu.
ClosedIsSaved == ~window => conf = Saved

\* "When you close OpenCPN with running (green) events, these events are
\* suspended (yellow) at next startup": without the autostart option a window
\* opens with every wanted event yellow, whatever the flag was left at.
OpensSuspended ==
  [][~window /\ window' /\ ~autostarttimer =>
       \A e \in Events : bullet'[e] = IF conf.opt[e] THEN Yellow ELSE Red]_vars

\* The promise of the status bar: EventStatus.
Shown == [e \in Events |-> CASE bullet[e] = Green  -> "running"
                               [] bullet[e] = Yellow -> "suspended"
                               [] OTHER              -> "stopped"]

Promise == INSTANCE EventStatus WITH
             status <- Shown,
             line <- IF row.by \in Events \ {"timer", "waypointArrived"}
                     THEN row.by ELSE "none"

StatusBarPromise == Promise!Spec
=============================================================================
