----------------------------- MODULE EngineLog ------------------------------
(***************************************************************************)
(* The hours of the two engines and the generator: the buttons, the NMEA    *)
(* RPM sentences and their timeout, the engine boxes of the preferences,    *)
(* the shutdown question, and the part of appendRow that writes the hours   *)
(* into each line of the logbook.                                           *)
(*                                                                         *)
(* Time is kept as the age of a wxDateTime (how long ago it was), which     *)
(* saturates at MaxAge; that a line shows hours and minutes, without the     *)
(* seconds, is left out.  unlogged and switched are history variables: what *)
(* the engine has run since its start and no line has booked, and whether   *)
(* the preferences took it from its control.                               *)
(***************************************************************************)
EXTENDS Integers

CONSTANTS
  Engines,         \* the engines of this instance, a part of AllEngines
  OptionEngines,   \* those whose boxes in the preferences are used
  DEVICE_TIMEOUT,  \* ticks without an RPM sentence until a timeout
  MaxAge           \* where ages saturate

AllEngines == {"engine1", "engine2", "generator"}

ASSUME EngineAssumption ==
  /\ Engines \subseteq AllEngines /\ OptionEngines \subseteq Engines
  /\ DEVICE_TIMEOUT \in Nat /\ MaxAge \in Nat

Invalid  == -1     \* the age of a wxDateTime set to -1
Garbage  == -2     \* a wxTimeSpan computed from it
Over     == -1     \* unlogged: some of the time was booked twice
NoDialog == "none"

VARIABLES
  eng,             \* of each engine, see Engine
  checked,         \* bEng1RPMIsChecked, ...: those under RPM control
  useERRPM,        \* opt->NMEAUseERRPM, "Calculate Hours"
  aboard,          \* opt->engines, opt->generator: those with a button
  rpmSentence,     \* Logbook::rpmSentence
  rpmAge,          \* the age of Logbook::dtRPM
  window,          \* "open", "asking" (shutdown's question) or "closed"
  prefs,           \* the Calculate Hours box of the open preferences
  boxes            \* their RPM boxes, m_checkBoxEng1RPM, ...: those ticked

vars == <<eng, checked, useERRPM, aboard, rpmSentence, rpmAge, window, prefs, boxes>>

options == <<checked, useERRPM, aboard, prefs, boxes>>

rpm == <<rpmSentence, rpmAge>>

Engine == [
  running: BOOLEAN,                  \* opt->engine1Running
  toggle: BOOLEAN,                   \* opt->toggleEngine1
  age: 0..MaxAge \cup {Invalid},     \* of opt->dtEngine1On
  bRPM: BOOLEAN,                     \* Logbook::bRPM1
  manual: BOOLEAN,                   \* Logbook::engine1Manual
  off: 0..MaxAge \cup {Garbage},     \* Logbook::dtEngine1Off
  unlogged: 0..MaxAge \cup {Over},   \* run since the start and not booked
  switched: BOOLEAN]                 \* the preferences changed the control
                                     \* of the running engine without a line

TypeOK ==
  /\ eng \in [Engines -> Engine]
  /\ checked \subseteq Engines
  /\ useERRPM \in BOOLEAN
  /\ aboard \subseteq Engines
  /\ rpmSentence \in BOOLEAN
  /\ rpmAge \in 0..(DEVICE_TIMEOUT + 1)
  /\ window \in {"open", "asking", "closed"}
  /\ prefs \in {NoDialog, "ticked", "clear"} /\ boxes \subseteq Engines
-----------------------------------------------------------------------------
(* appendRow and the functions that start and stop an engine.  Each maps    *)
(* the engines' records to the records after the call.                      *)

Cap(n, max) == IF n > max THEN max ELSE n

Elapsed(s) == IF s.age = Invalid THEN Garbage ELSE s.age

\* The engine's time t is written into a line.
Book(s, t) ==
  [s EXCEPT !.unlogged = IF t = Garbage \/ t > @ THEN Over ELSE @ - t]

\* Engine 1 looks at its option, the others at a member of Logbook.
started(s, e) == IF e = "engine1" THEN s.toggle ELSE s.manual

appendRowNoRestart(f) ==
  [e \in Engines |->
     IF f[e].running THEN Book(f[e], Elapsed(f[e])) ELSE f[e]]

\* Logbook::appendRow: the engines' part of a line
appendRow(f) ==
  [e \in Engines |->
     LET s == f[e] IN
     CASE s.running /\ s.bRPM /\ (useERRPM \/ started(s, e)) ->
            [Book(s, Elapsed(s)) EXCEPT !.off = Elapsed(s), !.age = 0]
       [] s.running /\ ~s.bRPM /\ (useERRPM \/ ~s.toggle) -> Book(s, s.off)
       [] OTHER -> s]

\* startEngine1, startEngine2, startGenerator: a new account is opened if the
\* engine was off
startEngine(f, e, byButton) ==
  LET old == f[e]
      new == [old EXCEPT
                !.age = 0, !.bRPM = TRUE,
                !.manual = byButton, !.toggle = byButton,
                !.unlogged = IF old.running THEN @ ELSE 0,
                !.switched = old.running /\ @]
  IN  [appendRow([f EXCEPT ![e] = new]) EXCEPT ![e].running = TRUE]

haltedUnguarded(s) == [s EXCEPT !.bRPM = FALSE, !.off = s.age, !.age = Invalid]

halted(s) == [s EXCEPT !.bRPM = FALSE,
                       !.off  = IF s.running THEN Elapsed(s) ELSE @,
                       !.age  = Invalid]

idle(s) == [s EXCEPT !.running = FALSE, !.toggle = FALSE]

stopEngineEarly(f, e, print) ==
  LET h == [f EXCEPT ![e] = idle(halted(@))]
  IN  IF print THEN appendRow(h) ELSE h

\* stopEngine1, stopEngine2, stopGenerator
stopEngine(f, e, print) ==
  LET h == [f EXCEPT ![e] = halted(@)]
  IN  [(IF print THEN appendRow(h) ELSE h) EXCEPT ![e] = idle(@)]

\* The engine's account ends without a line if it runs.
switch(f, e) == [f EXCEPT ![e].switched = @ \/ f[e].running]
-----------------------------------------------------------------------------
(* The buttons of the engine page and the other lines of the logbook.      *)

\* OnToggleButtonEngine1, ...: the button is enabled unless the engine is
\* under RPM control, and shows toggle
OnToggleButton(e) ==
  /\ window = "open" /\ prefs = NoDialog
  /\ e \in aboard \ checked
  /\ eng' = IF eng[e].toggle THEN stopEngine(eng, e, TRUE)
                             ELSE startEngine(eng, e, TRUE)
  /\ UNCHANGED <<options, rpm, window>>

\* A line appended for any other reason
AppendLine ==
  /\ window # "closed"
  /\ eng' = appendRow(eng)
  /\ UNCHANGED <<options, rpm, window>>
-----------------------------------------------------------------------------
(* NMEA: the RPM sentence and its timeout.                                 *)

\* Logbook::SetSentence, RPM: source "E" is an engine, "S" a shaft.  One
\* sentence of any engine renews the timestamp all of them share.
SetSentenceRPM(e, source, turning) ==
  /\ window # "closed"
  /\ checked # {}
  /\ rpmSentence' = TRUE /\ rpmAge' = 0
  /\ eng' = CASE e \in checked /\ turning /\ source = "E"
                   /\ ~eng[e].running -> startEngine(eng, e, FALSE)
              [] e \in checked /\ turning /\ source = "S"
                   /\ e # "generator" -> [eng EXCEPT ![e].bRPM = TRUE]
              [] e \in checked /\ ~turning
                   /\ eng[e].running -> stopEngine(eng, e, TRUE)
              [] OTHER -> eng
  /\ UNCHANGED <<options, window>>

timedOutNone == {}

\* The engines whose ...Running checkNMEADeviceIsOn resets: the test before
\* engine2Running is that of engine 1.
timedOut ==
  (checked \ {"engine2"}) \cup (IF "engine1" \in checked THEN {"engine2"}
                                                         ELSE {})

timeoutOffLate(s) == [s EXCEPT !.off = Elapsed(s), !.age = Invalid]

timeoutOff(s) == [s EXCEPT !.bRPM = FALSE, !.off = Elapsed(s), !.age = Invalid]

\* Logbook::checkNMEADeviceIsOn, called by the GPS timer: no RPM sentence for
\* too long
RpmTimeout ==
  /\ window # "closed"
  /\ rpmSentence /\ rpmAge > DEVICE_TIMEOUT
  /\ rpmSentence' = FALSE
  /\ LET h == appendRow([e \in Engines |->
                 IF e \in checked THEN timeoutOff(eng[e]) ELSE eng[e]])
     IN  eng' = [e \in Engines |-> IF e \in timedOut
                                   THEN [h[e] EXCEPT !.running = FALSE]
                                   ELSE h[e]]
  /\ UNCHANGED <<options, rpmAge, window>>
-----------------------------------------------------------------------------
(* The preferences, a modal dialog; its engine boxes act at once.          *)

\* LogbookOptions::setUseRPM clears the box of an engine that is not aboard.
setUseRPM(ticked, there) == ticked \cap there

\* ... setValues
ShowPreferencesDialog ==
  /\ prefs = NoDialog /\ window # "asking"
  /\ boxes' = setUseRPM(checked, aboard)
  /\ prefs' = IF checked # {} /\ useERRPM THEN "ticked" ELSE "clear"
  /\ UNCHANGED <<eng, checked, useERRPM, aboard, rpm, window>>

\* The Calculate Hours box is enabled while an engine is under RPM control.
ClickUseERRPM ==
  /\ prefs # NoDialog /\ checked # {}
  /\ prefs' = IF prefs = "ticked" THEN "clear" ELSE "ticked"
  /\ UNCHANGED <<eng, checked, useERRPM, aboard, rpm, window, boxes>>

\* LogbookOptions::getValues: engines whose boxes were cleared, and not by a
\* click, leave RPM control.
OnButtonOKClick ==
  /\ prefs # NoDialog
  /\ prefs' = NoDialog /\ boxes' = {}
  /\ useERRPM' = (prefs = "ticked")
  /\ checked' = boxes
  /\ eng' = [e \in Engines |->
               IF e \in checked \ boxes THEN switch(eng, e)[e] ELSE eng[e]]
  /\ UNCHANGED <<aboard, rpm, window>>

OnCancel ==
  /\ prefs # NoDialog
  /\ prefs' = NoDialog /\ boxes' = {}
  /\ UNCHANGED <<eng, checked, useERRPM, aboard, rpm, window>>

\* OnCheckBoxEng1RPM, ...: an engine its button started is stopped with a
\* line, any other without one; without a window nothing is stopped
OnCheckBoxRPM(e) ==
  /\ prefs # NoDialog /\ e \in aboard
  /\ boxes' = IF e \in boxes THEN boxes \ {e} ELSE boxes \cup {e}
  /\ checked' = IF e \in boxes THEN checked \ {e} ELSE checked \cup {e}
  /\ eng' = CASE window = "closed" -> switch(eng, e)
              [] window # "closed" /\ e \notin boxes /\ eng[e].manual
                   /\ eng[e].running -> stopEngine(eng, e, TRUE)
              [] OTHER -> stopEngine(switch(eng, e), e, FALSE)
  /\ UNCHANGED <<useERRPM, aboard, prefs, rpm, window>>

\* OnChoiceNoEngines and OnCheckBoxGeneratorMessage: the second engine and
\* the generator come and go.
OnChoiceAboard(e) ==
  /\ prefs # NoDialog /\ e # "engine1"
  /\ aboard' = IF e \in aboard THEN aboard \ {e} ELSE aboard \cup {e}
  /\ boxes' = setUseRPM(boxes, aboard')
  /\ eng' = CASE window = "closed" -> switch(eng, e)
              [] window # "closed" /\ e \in aboard /\ eng[e].running ->
                   stopEngine(eng, e, TRUE)
              [] OTHER -> stopEngine(switch(eng, e), e, FALSE)
  /\ UNCHANGED <<checked, useERRPM, prefs, rpm, window>>
-----------------------------------------------------------------------------
(* The window.  The options, running, toggle and age among them, survive.  *)

\* a Logbook that has been deleted, or does not exist yet
freed(s) == [s EXCEPT !.bRPM = FALSE, !.manual = FALSE, !.off = Garbage]

Close(f) ==
  /\ window' = "closed"
  /\ eng' = [e \in Engines |-> freed(f[e])]
  /\ rpmSentence' = FALSE /\ rpmAge' = 0

\* logbookkonni_pi::startLogbook and LogbookDialog::init.  The constructor
\* of Logbook leaves engine1Manual, ... uninitialised.
Open ==
  /\ window = "closed"
  /\ window' = "open"
  /\ \E m \in [Engines -> BOOLEAN] :
       eng' = [e \in Engines |-> [eng[e] EXCEPT !.bRPM = eng[e].running,
                                                !.manual = m[e]]]
  /\ rpmSentence' = (\E e \in Engines : eng[e].running /\ ~eng[e].toggle)
  /\ rpmAge' = 0
  /\ UNCHANGED options

\* logbookkonni_pi::shutdown: with an engine that its button started, a
\* question; NMEA sentences and the GPS timer go on behind it
Shutdown ==
  /\ window = "open" /\ prefs = NoDialog
  /\ IF \E e \in Engines : eng[e].running /\ eng[e].toggle
     THEN window' = "asking" /\ UNCHANGED <<eng, rpm>>
     ELSE Close(eng)
  /\ UNCHANGED options

AnswerNo == window = "asking" /\ Close(eng) /\ UNCHANGED options

\* Logbook::resetEngineManualMode(0)
resetEngineManualMode(f) ==
  LET h == appendRow([e \in Engines |->
             [f[e] EXCEPT !.toggle = FALSE, !.bRPM = FALSE,
                          !.off = Elapsed(f[e])]])
  IN  [e \in Engines |-> [h[e] EXCEPT !.age = Invalid, !.manual = FALSE,
                                      !.running = FALSE]]

AnswerYes ==
  /\ window = "asking"
  /\ Close(resetEngineManualMode(eng))
  /\ UNCHANGED options
-----------------------------------------------------------------------------
\* Time passes, also for an engine that runs while the window is closed.
Tick ==
  /\ eng' = [e \in Engines |->
       [eng[e] EXCEPT
          !.age = IF @ = Invalid THEN @ ELSE Cap(@ + 1, MaxAge),
          !.unlogged = IF eng[e].running /\ @ # Over THEN Cap(@ + 1, MaxAge)
                       ELSE @]]
  /\ rpmAge' = IF window = "closed" THEN rpmAge
               ELSE Cap(rpmAge + 1, DEVICE_TIMEOUT + 1)
  /\ UNCHANGED <<options, rpmSentence, window>>

Off == [running |-> FALSE, toggle |-> FALSE, age |-> Invalid, bRPM |-> FALSE,
        manual |-> FALSE, off |-> Garbage, unlogged |-> 0, switched |-> FALSE]

\* LoadConfig, with any preferences saved earlier and no engine running
Init ==
  /\ eng = [e \in Engines |-> Off]
  /\ checked \in SUBSET Engines
  /\ useERRPM \in BOOLEAN
  /\ aboard \in {A \in SUBSET Engines : Engines \cap {"engine1"} \subseteq A}
  /\ rpmSentence = FALSE /\ rpmAge = 0
  /\ window = "closed"
  /\ prefs = NoDialog /\ boxes = {}

Next ==
  \/ \E e \in Engines :
       \/ OnToggleButton(e)
       \/ \E source \in {"E", "S"}, turning \in BOOLEAN :
            SetSentenceRPM(e, source, turning)
  \/ \E e \in OptionEngines : OnCheckBoxRPM(e) \/ OnChoiceAboard(e)
  \/ ShowPreferencesDialog \/ ClickUseERRPM \/ OnButtonOKClick \/ OnCancel
  \/ AppendLine \/ RpmTimeout
  \/ Open \/ Shutdown \/ AnswerNo \/ AnswerYes
  \/ Tick

Spec == Init /\ [][Next]_vars

\* Time passes, and the GPS timer of an open window is periodic.
FairSpec == Spec /\ WF_vars(Tick) /\ WF_vars(RpmTimeout)
-----------------------------------------------------------------------------
(* Properties.  Engine 2 is apart: checkNMEADeviceIsOn confuses it with     *)
(* engine 1.                                                               *)

Others == Engines \ {"engine2"}

\* The time since an engine's last line is all that no line has booked.
Account(e) ==
  eng[e].running /\ ~eng[e].switched =>
    (window # "closed" => eng[e].bRPM) /\ eng[e].unlogged = eng[e].age

\* Through buttons, sentences, timeouts, lines, shutdowns and restarts, every
\* tick that engine 1 or the generator has run since its start is on exactly
\* one line or in the time still being measured (the dtEngine1On that
\* appendRow moves on and the configuration keeps), unless the preferences
\* took the running engine away from its control.
RunningAccount == \A e \in Others : Account(e)

\* No line books time of engine 1 or the generator that an earlier line has,
\* whatever the preferences do meanwhile (bRPM1 and engine1Running together
\* decide in appendRow, and change at different moments).
NoHoursTwice == \A e \in Others : eng[e].unlogged # Over

Stops(e) == eng[e].running /\ ~eng[e].running'

\* The step that stops engine 1 or the generator leaves nothing of its run
\* unbooked, if its hours are calculated or a sentence had started it: the
\* line is appended before stopEngine1 and checkNMEADeviceIsOn forget that
\* the engine ran.
StopBooksAll ==
  [][\A e \in Others :
       Stops(e) /\ ~eng[e].switched' /\ (useERRPM \/ ~eng[e].toggle)
         => eng[e].unlogged' = 0]_vars

\* Without further RPM sentences an engine under RPM control is stopped by the
\* timeout, unless the user closes the window or changes its control first
\* (rpmSentence, which init sets again after a restart).
RpmSilenceStops ==
  \A e \in Others :
    (eng[e].running /\ e \in checked /\ ~eng[e].switched /\ window = "open")
      ~> (~eng[e].running \/ rpmAge = 0 \/ e \notin checked
            \/ window = "closed")

\* What the documentation says of engine 2 as of engine 1: a line's time is
\* the time since the line before.
Engine2Account ==
  "engine2" \in Engines =>
    Account("engine2") /\ eng["engine2"].unlogged # Over
=============================================================================
