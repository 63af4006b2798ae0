----------------------------- MODULE NmeaDevices -----------------------------
(***************************************************************************)
(* What NMEA instruments say and what of it gets into a line of the         *)
(* logbook.  Logbook::SetSentence keeps a text per quantity and, per device,*)
(* a flag and the time of its last sentence; every GPSTIMEOUT the GPS timer *)
(* has checkNMEADeviceIsOn blank the texts of devices that have been silent *)
(* for more than DEVICE_TIMEOUT, and checkGPS drop what needs a GPS.        *)
(*                                                                         *)
(* A text is abstracted to its age: the seconds since the instrument said   *)
(* so.  Position, date, course and speed over ground are left out, with    *)
(* the volume of an XDR sentence and the average of the wind speeds; so are *)
(* engines (see EngineLog).  A reading is sound: it has a valid checksum.   *)
(***************************************************************************)
EXTENDS Integers, FiniteSetsExt

CONSTANTS
  Fits,             \* sets of sentences: what the instruments aboard send
  Speeds,           \* wind speeds
  Ceiling,          \* what the lowest wind speed is reset to: 99
  Garbage,          \* what an uninitialised double may hold
  DEVICE_TIMEOUT,   \* 4 seconds
  GPSTIMEOUT,       \* 5 seconds
  MaxAge            \* bound of ages

Sentences == {"DBT", "VHW", "MTW", "HDT", "HDM", "HDG", "MWV_T", "MWV_R", "VWT",
              "VWR", "MDA", "XDR_C", "XDR_P", "XDR_H", "XDR_V"}

ASSUME FitsAssumption == Fits \subseteq SUBSET Sentences
ASSUME TimeAssumption ==
  /\ DEVICE_TIMEOUT \in Nat /\ GPSTIMEOUT \in Nat \ {0}
  /\ MaxAge \in Nat /\ MaxAge > DEVICE_TIMEOUT + GPSTIMEOUT
ASSUME SpeedsAssumption ==
  /\ Speeds \cup Garbage \subseteq Nat /\ Speeds # {} /\ Garbage # {}
  /\ Ceiling \in Nat

VARIABLES
  fitted,            \* the sentences of this boat
  on,                \* bDepth, bSOW, bTemperatureWater, bCOW, bWindT, bWindA,
                     \* wimdaSentence
  since,             \* the ages of dtDepth, ...
  text,              \* the ages of sDepth, ..., or Blank
  gpsStatus,
  due,               \* seconds until the GPS timer fires
  showHeading,       \* 0 true, 1 magnetic
  showWindHeading,   \* the true wind is shown by compass, not by the bow
  windspeeds,        \* lines show the lowest and highest wind speeds
  vwtKnots,          \* m_NMEA0183.Vwt.WindSpeedKnots
  lowest, highest,   \* minwindT, minwindA, maxwindT, maxwindA
  spread,            \* swindspeedsT, swindspeedsA
  line,              \* the line the last step appended
  excused, blind,    \* history: texts whose device another sentence has been
                     \* standing in for; the GPS was off since the heading came
  gusts, swept       \* history: speeds since the last line that reset lowest
                     \* and highest; there has been such a line

options == <<showHeading, showWindHeading, windspeeds>>
wind == <<vwtKnots, lowest, highest, spread, gusts, swept>>
vars == <<fitted, on, since, text, gpsStatus, due, options, wind, line, excused,
          blind>>

Devices == {"depth", "sow", "water", "heading", "windT", "windA", "weather"}
Texts == {"depth", "sow", "water", "heading", "windT", "windA", "speedA",
          "pressure", "air", "humidity"}
Winds == {"windT", "windA"}

Blank == -1
NoSpread == <<>>
NoLine == [shown |-> [q \in Texts |-> Blank], spread |-> [w \in Winds |-> NoSpread]]

TypeOK ==
  /\ fitted \in Fits
  /\ on \in [Devices -> BOOLEAN] /\ since \in [Devices -> 0..MaxAge]
  /\ text \in [Texts -> Blank..MaxAge]
  /\ gpsStatus \in BOOLEAN /\ due \in 0..GPSTIMEOUT
  /\ showHeading \in 0..1 /\ {showWindHeading, windspeeds} \subseteq BOOLEAN
  /\ vwtKnots \in Nat
  /\ lowest \in [Winds -> Nat] /\ highest \in [Winds -> Nat]
  /\ spread \in [Winds -> {NoSpread} \cup (Nat \X Nat)]
  /\ line \in [shown: [Texts -> Blank..MaxAge],
               spread: [Winds -> {NoSpread} \cup (Nat \X Nat)]]
  /\ excused \subseteq Texts /\ blind \in BOOLEAN
  /\ gusts \in [Winds -> SUBSET Nat] /\ swept \in BOOLEAN
-----------------------------------------------------------------------------
(* The tables behind SetSentence.                                          *)

DeviceOwn(q) == IF q \in {"pressure", "air", "humidity"} THEN "weather" ELSE q

\* The device whose flag and time stand for a text
Device(q) == CASE q \in {"pressure", "air", "humidity"} -> "weather"
               [] q = "speedA" -> "windA"
               [] OTHER -> q

\* The device a sentence is taken to come from
Reporter(s) == CASE s = "DBT" -> "depth"
                 [] s = "VHW" -> "sow"
                 [] s = "MTW" -> "water"
                 [] s \in {"HDT", "HDM", "HDG"} -> "heading"
                 [] s \in {"MWV_T", "VWT"} -> "windT"
                 [] s \in {"MWV_R", "VWR"} -> "windA"
                 [] OTHER -> "weather"

\* The texts it renews: a heading of the kind that is not shown renews none, nor
\* does a volume.
Renews(s) == CASE s = "MWV_R" -> {"windA", "speedA"}
               [] s = "MDA" -> {"pressure", "air", "humidity"}
               [] s = "XDR_C" -> {"air"}
               [] s = "XDR_P" -> {"pressure"}
               [] s = "XDR_H" -> {"humidity"}
               [] s = "XDR_V" \/ <<s, showHeading>> \in {<<"HDT", 1>>, <<"HDM", 0>>} -> {}
               [] OTHER -> {Reporter(s)}

\* A VWR sentence also writes the apparent speed, but that of the last VWT
\* sentence: of any age.
Renewed(s) ==
  [q \in Texts |-> IF q \in Renews(s) THEN 0
                   ELSE IF s = "VWR" /\ q = "speedA" THEN MaxAge ELSE text[q]]

StoodFor(s) == {q \in Texts : Device(q) = Reporter(s)} \ Renews(s)

\* Variant (as everywhere, named after the definition it stands in for)
LowestElse(w, u) ==
  IF highest[w] < u \/ lowest[w] < u THEN lowest[w] ELSE u

\* minwind and maxwind after a speed u
Lowest(w, u)  == IF lowest[w] > u THEN u ELSE lowest[w]
Highest(w, u) == IF highest[w] < u THEN u ELSE highest[w]

\* What a sentence says of the speed of the wind, here v
Gust(s, v) ==
  LET w == Reporter(s)
      u == IF s = "VWR" THEN vwtKnots ELSE v
  IN IF w \notin Winds THEN UNCHANGED wind
     ELSE /\ vwtKnots' = IF s = "VWT" THEN v ELSE vwtKnots
          /\ lowest' = [lowest EXCEPT ![w] = Lowest(w, u)]
          /\ highest' = [highest EXCEPT ![w] = Highest(w, u)]
          /\ spread' = [spread EXCEPT ![w] = <<Lowest(w, u), Highest(w, u)>>]
          /\ gusts' = [gusts EXCEPT ![w] = @ \cup {u}]
          /\ UNCHANGED swept
-----------------------------------------------------------------------------
(* Lines and the GPS timer.                                                *)

\* Logbook::checkGPS: without a GPS there is no heading; with one but without
\* a heading the wind is shown by the bow from now on.
checkGPS(gps, flags) ==
  /\ on' = IF gps THEN flags ELSE [flags EXCEPT !["heading"] = FALSE]
  /\ showWindHeading' = (showWindHeading /\ (gps => flags["heading"]))

\* Logbook::appendRow: checkGPS, then the texts as they are.
appendRow(gps, flags, texts, spreads) ==
  /\ checkGPS(gps, flags)
  /\ line' = [shown |-> [q \in Texts |->
                IF Device(q) = "weather" /\ ~flags["weather"] THEN Blank ELSE texts[q]],
              spread |-> IF windspeeds THEN spreads ELSE NoLine.spread]
  /\ IF windspeeds
     THEN /\ lowest' = [w \in Winds |-> Ceiling] /\ highest' = [w \in Winds |-> 0]
          /\ gusts' = [w \in Winds |-> {}] /\ swept' = TRUE
     ELSE UNCHANGED <<lowest, highest, gusts, swept>>

NoAppend == line' = NoLine /\ UNCHANGED <<lowest, highest, gusts, swept>>

SilentEarly == {d \in Devices : on[d] /\ since[d] >= DEVICE_TIMEOUT}

\* The devices checkNMEADeviceIsOn takes to be off
Silent == {d \in Devices : on[d] /\ since[d] > DEVICE_TIMEOUT}
-----------------------------------------------------------------------------
(* The handlers.                                                           *)

\* Logbook::SetSentence, a sentence of an instrument
SetSentence ==
  \E s \in fitted, v \in Speeds :
    /\ on' = [on EXCEPT ![Reporter(s)] = TRUE]
    /\ since' = [since EXCEPT ![Reporter(s)] = 0]
    /\ text' = Renewed(s)
    /\ excused' = (excused \ Renews(s)) \cup StoodFor(s)
    /\ blind' = IF Reporter(s) = "heading" THEN ~gpsStatus ELSE blind
    /\ Gust(s, v)
    /\ line' = NoLine
    /\ UNCHANGED <<fitted, gpsStatus, due, options>>

\* Logbook::SetSentence, a valid position (GGA, GLL, RMC): checkDistance or
\* checkCourseChanged may append a line.
Fix ==
  /\ gpsStatus' = TRUE
  /\ \/ appendRow(TRUE, on, text, spread)
     \/ NoAppend /\ UNCHANGED <<on, showWindHeading>>
  /\ UNCHANGED <<fitted, since, text, due, showHeading, windspeeds, vwtKnots, spread,
                 excused, blind>>

\* logbookkonni_pi::SetPositionFix: the position OpenCPN has, or none
SetPosition ==
  /\ gpsStatus' \in BOOLEAN
  /\ blind' = (blind \/ ~gpsStatus')
  /\ line' = NoLine
  /\ UNCHANGED <<fitted, on, since, text, due, options, wind, excused>>

\* A line for any other reason
NewLine ==
  /\ appendRow(gpsStatus, on, text, spread)
  /\ UNCHANGED <<fitted, since, text, gpsStatus, due, showHeading, windspeeds,
                 vwtKnots, spread, excused, blind>>

\* LogbookDialog::OnTimerGPS; checkNMEADeviceIsOn appends a line when engines
\* have become silent.
OnTimerGPS ==
  /\ due = 0
  /\ due' = GPSTIMEOUT
  /\ LET flags == [d \in Devices |-> on[d] /\ d \notin Silent]
         texts == [q \in Texts |-> IF Device(q) \in Silent THEN Blank ELSE text[q]]
         spreads == [w \in Winds |-> IF w \in Silent THEN NoSpread ELSE spread[w]]
     IN /\ text' = texts /\ spread' = spreads
        /\ \/ appendRow(gpsStatus, flags, texts, spreads)
           \/ checkGPS(gpsStatus, flags) /\ NoAppend
  /\ UNCHANGED <<fitted, since, gpsStatus, showHeading, windspeeds, vwtKnots,
                 excused, blind>>

\* LogbookOptions::getValues, after OK
Preferences ==
  /\ showHeading' \in 0..1 /\ showWindHeading' \in BOOLEAN /\ windspeeds' \in BOOLEAN
  /\ line' = NoLine
  /\ UNCHANGED <<fitted, on, since, text, gpsStatus, due, wind, excused, blind>>

OlderAlways(n) == IF n = Blank THEN n ELSE n + 1

Older(n) == IF n \in {Blank, MaxAge} THEN n ELSE n + 1

\* A second passes, unless the GPS timer is due.
Tick ==
  /\ due > 0
  /\ due' = due - 1
  /\ since' = [d \in Devices |-> Older(since[d])]
  /\ text' = [q \in Texts |-> Older(text[q])]
  /\ line' = NoLine
  /\ UNCHANGED <<fitted, on, gpsStatus, options, wind, excused, blind>>

\* Logbook::Logbook, and the dialog that starts the timer.  No text is set.
Init ==
  /\ fitted \in Fits
  /\ on = [d \in Devices |-> FALSE] /\ since = [d \in Devices |-> MaxAge]
  /\ text = [q \in Texts |-> Blank]
  /\ gpsStatus = FALSE /\ due = GPSTIMEOUT
  /\ showHeading \in 0..1 /\ showWindHeading \in BOOLEAN /\ windspeeds \in BOOLEAN
  /\ vwtKnots = 0
  /\ lowest \in [Winds -> Garbage] /\ highest \in [Winds -> Garbage]
  /\ spread = [w \in Winds |-> NoSpread]
  /\ line = NoLine
  /\ excused = {} /\ blind = TRUE
  /\ gusts = [w \in Winds |-> {}] /\ swept = FALSE

Next == SetSentence \/ Fix \/ SetPosition \/ NewLine \/ OnTimerGPS \/ Preferences \/ Tick

Spec == Init /\ [][Next]_vars
-----------------------------------------------------------------------------
(* Properties.                                                             *)

\* A text in a line is one that its instrument said not longer ago than the
\* timeout and one period of the timer, as long as no other sentence has stood
\* in for the instrument (Logbook.cpp:617, 679: a timestamp per device, not
\* per text) and, of a heading, as long as there is a GPS (Logbook.cpp:3489).
FreshReadings ==
  \A q \in Texts :
    \/ q \in excused
    \/ q = "heading" /\ blind
    \/ line.shown[q] <= DEVICE_TIMEOUT + GPSTIMEOUT

\* The option "wind by heading" is given up (Logbook.cpp:3454) only when the
\* heading is overdue or there was a time without a GPS since it came, never
\* between two sentences of a compass that works.
HeadingOptionKept ==
  [][showWindHeading /\ ~showWindHeading' /\ ~Preferences
       => since["heading"] > DEVICE_TIMEOUT \/ blind]_vars

\* Lowest and highest wind speed in a line are of the speeds since the line
\* before, as long as they are below the ceiling.  The first line is excepted.
SpreadOfInterval ==
  [][\A w \in Winds :
       windspeeds /\ swept /\ gusts[w] # {} /\ line'.spread[w] # NoSpread
         => line'.spread[w] = <<Min(gusts[w] \cup {Ceiling}), Max(gusts[w])>>]_vars
=============================================================================
