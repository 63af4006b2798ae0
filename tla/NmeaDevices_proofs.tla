-------------------------- MODULE NmeaDevices_proofs --------------------------
(* Proofs about NmeaDevices: types, that lines show no stale readings, when    *)
(* the wind is no longer shown by heading, and the spread of the wind.        *)
EXTENDS NmeaDevices, TLAPS

\* A device that is on was heard since the timer last found it silent.
Timely == \A d \in Devices : on[d] => since[d] <= DEVICE_TIMEOUT + GPSTIMEOUT - due

\* A text without excuse is blank, or as old as the time of its device, which
\* is on.
Aged ==
  \A q \in Texts :
    \/ q \in excused
    \/ q = "heading" /\ blind
    \/ text[q] = Blank
    \/ on[Device(q)] /\ text[q] = since[Device(q)]

\* A heading without excuse is of a time with a GPS.
Blinded == ~gpsStatus => blind

\* A line shows the texts as they are.
Shown == \A q \in Texts : line.shown[q] \in {Blank, text[q]}

IInv == TypeOK /\ Timely /\ Aged /\ Blinded /\ Shown

\* Every text and every sentence belongs to a device.
LEMMA Tables ==
  /\ \A q \in Texts : Device(q) \in Devices
  /\ \A s \in Sentences : Reporter(s) \in Devices
BY DEF Device, Reporter, Devices, Texts, Sentences

\* A sentence renews texts of the device it reports only.
LEMMA RenewsOwn ==
  ASSUME NEW s \in Sentences, NEW q \in Renews(s)
  PROVE  q \in Texts /\ Device(q) = Reporter(s)
BY DEF Renews, Device, Reporter, Texts, Sentences

\* One second on, ages grow by one up to the bound and blanks stay blank.
LEMMA OlderType ==
  ASSUME NEW n \in Blank..MaxAge
  PROVE  /\ Older(n) \in Blank..MaxAge
         /\ n \in 0..MaxAge => Older(n) \in 0..MaxAge /\ Older(n) <= n + 1
         /\ n = Blank => Older(n) = Blank
BY TimeAssumption DEF Older, Blank

\* The invariant makes lines fresh.
LEMMA LinesFresh == IInv => FreshReadings
<1> SUFFICES ASSUME IInv, NEW q \in Texts,
                    q \notin excused, ~(q = "heading" /\ blind)
             PROVE  line.shown[q] <= DEVICE_TIMEOUT + GPSTIMEOUT
  BY DEF FreshReadings
<1>1. due \in 0..GPSTIMEOUT /\ since \in [Devices -> 0..MaxAge]
  BY DEF IInv, TypeOK
<1>2. Device(q) \in Devices
  BY Tables
<1>3. line.shown[q] = Blank \/ (on[Device(q)] /\ line.shown[q] = since[Device(q)])
  BY DEF IInv, Aged, Shown
<1> QED BY <1>1, <1>2, <1>3, TimeAssumption DEF IInv, Timely, Blank


Spreads == [Winds -> {NoSpread} \cup (Nat \X Nat)]
Lines == [shown: [Texts -> Blank..MaxAge], spread: Spreads]

LEMMA NoLineType == NoLine \in Lines /\ \A q \in Texts : NoLine.shown[q] = Blank
BY TimeAssumption DEF NoLine, Lines, Spreads, Blank

LEMMA InitInv == Init => IInv
<1> SUFFICES ASSUME Init PROVE IInv
  OBVIOUS
<1>1. TypeOK
  <2>1. due \in 0..GPSTIMEOUT /\ vwtKnots \in Nat
    BY TimeAssumption DEF Init
  <2>5. fitted \in Fits /\ gpsStatus \in BOOLEAN /\ showHeading \in 0..1
        /\ excused \subseteq Texts /\ blind \in BOOLEAN /\ swept \in BOOLEAN
    BY Zenon DEF Init
  <2>6. {showWindHeading, windspeeds} \subseteq BOOLEAN
    BY Zenon DEF Init
  <2>2. on \in [Devices -> BOOLEAN] /\ since \in [Devices -> 0..MaxAge]
        /\ text \in [Texts -> Blank..MaxAge]
    BY TimeAssumption DEF Init, Blank
  <2>3. lowest \in [Winds -> Nat] /\ highest \in [Winds -> Nat]
    BY SpeedsAssumption DEF Init
  <2>4. spread \in Spreads /\ line \in Lines /\ gusts \in [Winds -> SUBSET Nat]
    BY NoLineType DEF Init, Spreads
  <2> QED BY <2>1, <2>2, <2>3, <2>4, <2>5, <2>6 DEF TypeOK, Spreads, Lines
<1>2. Timely /\ Blinded
  BY DEF Init, Timely, Blinded
<1>3. Aged /\ Shown
  BY DEF Init, Aged, Shown, NoLine
<1> QED BY <1>1, <1>2, <1>3 DEF IInv
-----------------------------------------------------------------------------
(* What checkGPS and appendRow leave.                                      *)

\* checkGPS switches off nothing but the heading, and that without a GPS.
LEMMA CheckGPS ==
  ASSUME NEW gps \in BOOLEAN, NEW flags \in [Devices -> BOOLEAN],
         showWindHeading \in BOOLEAN, checkGPS(gps, flags)
  PROVE  /\ on' \in [Devices -> BOOLEAN] /\ showWindHeading' \in BOOLEAN
         /\ \A d \in Devices : on'[d] => flags[d]
         /\ \A d \in Devices : flags[d] /\ (d # "heading" \/ gps) => on'[d]
BY DEF checkGPS, Devices

\* What a step that appends a line, or none, leaves of the line and the wind
Tail(texts) ==
  /\ line' \in Lines
  /\ \A q \in Texts : line'.shown[q] \in {Blank, texts[q]}
  /\ lowest' \in [Winds -> Nat] /\ highest' \in [Winds -> Nat]
  /\ gusts' \in [Winds -> SUBSET Nat] /\ swept' \in BOOLEAN

LEMMA AppendRow ==
  ASSUME TypeOK, NEW gps, NEW flags, NEW texts \in [Texts -> Blank..MaxAge],
         NEW spreads \in Spreads, appendRow(gps, flags, texts, spreads)
  PROVE  Tail(texts)
<1> DEFINE shown == [q \in Texts |->
             IF Device(q) = "weather" /\ ~flags["weather"] THEN Blank ELSE texts[q]]
<1>1. shown \in [Texts -> Blank..MaxAge]
      /\ \A q \in Texts : shown[q] \in {Blank, texts[q]}
  BY TimeAssumption DEF Blank
<1>2. line' = [shown |-> shown,
               spread |-> IF windspeeds THEN spreads ELSE NoLine.spread]
  BY DEF appendRow
<1> HIDE DEF shown
<1>3. NoLine.spread \in Spreads
  BY NoLineType DEF Lines
<1>4. line' \in Lines /\ \A q \in Texts : line'.shown[q] \in {Blank, texts[q]}
  BY <1>1, <1>2, <1>3 DEF Lines
<1>5. /\ lowest' \in [Winds -> Nat] /\ highest' \in [Winds -> Nat]
      /\ gusts' \in [Winds -> SUBSET Nat] /\ swept' \in BOOLEAN
  <2>1. CASE windspeeds
    BY <2>1, SpeedsAssumption DEF appendRow
  <2>2. CASE ~windspeeds
    BY <2>2 DEF appendRow, TypeOK
  <2> QED BY <2>1, <2>2
<1> QED BY <1>4, <1>5 DEF Tail

LEMMA NoRow ==
  ASSUME TypeOK, line' = NoLine, UNCHANGED <<lowest, highest, gusts, swept>>, NEW texts
  PROVE  Tail(texts)
BY NoLineType DEF Tail, TypeOK
-----------------------------------------------------------------------------
(* The steps.                                                              *)

\* What most steps keep of the types.
Rest ==
  /\ fitted \in Fits /\ showHeading \in 0..1 /\ vwtKnots \in Nat
  /\ excused \subseteq Texts

\* The invariant after a step, from its parts
LEMMA Assemble ==
  ASSUME Rest', gpsStatus' \in BOOLEAN, due' \in 0..GPSTIMEOUT,
         showWindHeading' \in BOOLEAN, windspeeds' \in BOOLEAN, blind' \in BOOLEAN,
         on' \in [Devices -> BOOLEAN], since' \in [Devices -> 0..MaxAge],
         text' \in [Texts -> Blank..MaxAge], spread' \in Spreads, Tail(text')
  PROVE  TypeOK' /\ Shown'
<1>1. {showWindHeading', windspeeds'} \subseteq BOOLEAN
  BY Zenon
<1> QED BY <1>1 DEF Rest, Tail, TypeOK, Shown, Spreads, Lines

\* A sentence makes its device heard now and the texts it renews new.
LEMMA SetSentenceInv == IInv /\ SetSentence => IInv'
<1> SUFFICES ASSUME IInv, SetSentence PROVE IInv'
  OBVIOUS
<1>1. PICK s \in fitted, v \in Speeds :
        /\ on' = [on EXCEPT ![Reporter(s)] = TRUE]
        /\ since' = [since EXCEPT ![Reporter(s)] = 0]
        /\ text' = Renewed(s)
        /\ excused' = (excused \ Renews(s)) \cup StoodFor(s)
        /\ blind' = IF Reporter(s) = "heading" THEN ~gpsStatus ELSE blind
        /\ Gust(s, v)
        /\ line' = NoLine
        /\ UNCHANGED <<fitted, gpsStatus, due, options>>
  BY DEF SetSentence
<1>2. s \in Sentences /\ Reporter(s) \in Devices /\ v \in Nat
  BY <1>1, Tables, FitsAssumption, SpeedsAssumption DEF IInv, TypeOK
<1>3. text' \in [Texts -> Blank..MaxAge]
  BY <1>1, TimeAssumption DEF Renewed, IInv, TypeOK, Blank
<1>4. /\ vwtKnots' \in Nat /\ spread' \in Spreads
      /\ lowest' \in [Winds -> Nat] /\ highest' \in [Winds -> Nat]
      /\ gusts' \in [Winds -> SUBSET Nat] /\ swept' \in BOOLEAN
  <2>1. CASE Reporter(s) \notin Winds
    BY <1>1, <2>1 DEF Gust, wind, IInv, TypeOK, Spreads
  <2>2. CASE Reporter(s) \in Winds
    <3> DEFINE w == Reporter(s)
               u == IF s = "VWR" THEN vwtKnots ELSE v
    <3>1. w \in Winds /\ u \in Nat
      BY <1>2, <2>2 DEF IInv, TypeOK
    <3>2. Lowest(w, u) \in Nat /\ Highest(w, u) \in Nat
      BY <3>1 DEF Lowest, Highest, IInv, TypeOK
    <3>3. /\ vwtKnots' = IF s = "VWT" THEN v ELSE vwtKnots
          /\ lowest' = [lowest EXCEPT ![w] = Lowest(w, u)]
          /\ highest' = [highest EXCEPT ![w] = Highest(w, u)]
          /\ spread' = [spread EXCEPT ![w] = <<Lowest(w, u), Highest(w, u)>>]
          /\ gusts' = [gusts EXCEPT ![w] = @ \cup {u}]
          /\ UNCHANGED swept
      BY <1>1, <2>2 DEF Gust
    <3> HIDE DEF w, u
    <3>4. vwtKnots' \in Nat /\ swept' \in BOOLEAN
      BY <3>3, <1>2 DEF IInv, TypeOK
    <3>5. lowest' \in [Winds -> Nat] /\ highest' \in [Winds -> Nat]
      BY <3>1, <3>2, <3>3 DEF IInv, TypeOK
    <3>6. spread' \in Spreads
      BY <3>1, <3>2, <3>3 DEF IInv, TypeOK, Spreads
    <3>7. gusts' \in [Winds -> SUBSET Nat]
      BY <3>1, <3>3 DEF IInv, TypeOK
    <3> QED BY <3>4, <3>5, <3>6, <3>7
  <2> QED BY <2>1, <2>2
<1>5. Tail(text')
  BY <1>1, <1>4, NoLineType DEF Tail
<1>6. on' \in [Devices -> BOOLEAN] /\ since' \in [Devices -> 0..MaxAge]
  BY <1>1, <1>2, TimeAssumption DEF IInv, TypeOK
<1>7. Rest' /\ gpsStatus' \in BOOLEAN /\ due' \in 0..GPSTIMEOUT
  BY <1>1, <1>4 DEF Rest, IInv, TypeOK, options, StoodFor
<1>8. showWindHeading' \in BOOLEAN /\ windspeeds' \in BOOLEAN /\ blind' \in BOOLEAN
  BY <1>1, Zenon DEF IInv, TypeOK, options
<1>9. TypeOK' /\ Shown'
  BY <1>3, <1>4, <1>5, <1>6, <1>7, <1>8, Assemble
<1>10. Timely'
  BY <1>1, <1>2, TimeAssumption DEF Timely, IInv, TypeOK
<1>11. Blinded'
  BY <1>1, Zenon DEF Blinded, IInv, TypeOK
<1>12. Aged'
  <2> SUFFICES ASSUME NEW q \in Texts, q \notin excused',
                      ~(q = "heading" /\ blind')
               PROVE  text'[q] = Blank \/ (on'[Device(q)] /\ text'[q] = since'[Device(q)])
    BY DEF Aged
  <2>1. Device(q) \in Devices
    BY Tables
  <2>2. CASE q \in Renews(s)
    <3>1. Device(q) = Reporter(s)
      BY <1>2, <2>2, RenewsOwn
    <3> QED BY <1>1, <1>2, <2>2, <3>1 DEF Renewed, IInv, TypeOK
  <2>3. CASE q \notin Renews(s)
    <3>1. Device(q) # Reporter(s) /\ q \notin excused
      BY <1>1, <2>3 DEF StoodFor
    <3>2. ~(s = "VWR" /\ q = "speedA")
      BY <3>1 DEF Device, Reporter
    <3>3. text'[q] = text[q]
      BY <1>1, <2>3, <3>2 DEF Renewed
    <3>4. on'[Device(q)] = on[Device(q)] /\ since'[Device(q)] = since[Device(q)]
      BY <1>1, <1>2, <2>1, <3>1 DEF IInv, TypeOK
    <3>5. ~(q = "heading" /\ blind)
      BY <1>1, <3>1 DEF Device
    <3> QED BY <3>1, <3>3, <3>4, <3>5 DEF IInv, Aged
  <2> QED BY <2>2, <2>3
<1> QED BY <1>9, <1>10, <1>11, <1>12 DEF IInv

\* What a step leaves that touches no reading: the texts, their times and excuses,
\* and the flags but that of the heading without a GPS.
Kept ==
  /\ UNCHANGED <<fitted, since, text, due, showHeading, vwtKnots, spread, excused>>
  /\ on' \in [Devices -> BOOLEAN]
  /\ \A d \in Devices : on'[d] => on[d]
  /\ \A d \in Devices : on[d] /\ (d # "heading" \/ ~blind') => on'[d]
  /\ blind => blind'

\* A step that touches no reading keeps readings timely and aged.
LEMMA KeptInv == IInv /\ Kept => Timely' /\ Aged' /\ Rest'
<1> SUFFICES ASSUME IInv, Kept PROVE Timely' /\ Aged' /\ Rest'
  OBVIOUS
<1>1. Timely'
  BY DEF Kept, Timely, IInv
<1>2. Rest'
  BY DEF Kept, Rest, IInv, TypeOK
<1>3. Aged'
  <2> SUFFICES ASSUME NEW q \in Texts, q \notin excused', ~(q = "heading" /\ blind')
               PROVE  text'[q] = Blank \/ (on'[Device(q)] /\ text'[q] = since'[Device(q)])
    BY DEF Aged
  <2>1. Device(q) \in Devices /\ (Device(q) = "heading" => q = "heading")
    <3>1. Device(q) \in Devices
      BY Tables
    <3>2. Device(q) = "heading" => q = "heading"
      BY DEF Device
    <3> QED BY <3>1, <3>2
  <2>2. q \notin excused /\ ~(q = "heading" /\ blind)
    BY DEF Kept
  <2>3. text[q] = Blank \/ (on[Device(q)] /\ text[q] = since[Device(q)])
    BY <2>2 DEF IInv, Aged
  <2> QED BY <2>1, <2>3 DEF Kept
<1> QED BY <1>1, <1>2, <1>3

\* A position, with a line or without one, brings the GPS back.
LEMMA FixInv == IInv /\ Fix => IInv'
<1> SUFFICES ASSUME IInv, Fix PROVE IInv'
  OBVIOUS
<1>1. gpsStatus' = TRUE
      /\ UNCHANGED <<fitted, since, text, due, showHeading, windspeeds, vwtKnots, spread,
                     excused, blind>>
  BY DEF Fix
<1>2. /\ on \in [Devices -> BOOLEAN] /\ text \in [Texts -> Blank..MaxAge]
      /\ spread \in Spreads /\ since \in [Devices -> 0..MaxAge] /\ due \in 0..GPSTIMEOUT
  BY DEF IInv, TypeOK, Spreads
<1>3. showWindHeading \in BOOLEAN /\ windspeeds \in BOOLEAN /\ blind \in BOOLEAN
  BY Zenon DEF IInv, TypeOK
<1>4. /\ on' \in [Devices -> BOOLEAN] /\ showWindHeading' \in BOOLEAN /\ Tail(text)
      /\ \A d \in Devices : on'[d] = on[d]
  <2>1. CASE appendRow(TRUE, on, text, spread)
    <3>1. checkGPS(TRUE, on)
      BY <2>1, Zenon DEF appendRow
    <3>2. Tail(text)
      BY <2>1, <1>2, AppendRow DEF IInv
    <3> QED BY <1>2, <1>3, <3>1, <3>2, CheckGPS
  <2>2. CASE NoAppend /\ UNCHANGED <<on, showWindHeading>>
    BY <2>2, <1>2, <1>3, NoRow DEF NoAppend, IInv
  <2> QED BY <2>1, <2>2 DEF Fix
<1>5. Kept
  BY <1>1, <1>4 DEF Kept
<1>6. Timely' /\ Aged' /\ Rest' /\ Blinded'
  BY <1>1, <1>5, KeptInv DEF Blinded
<1>7. Tail(text')
  BY <1>1, <1>4 DEF Tail
<1>8. TypeOK' /\ Shown'
  BY <1>1, <1>2, <1>3, <1>4, <1>6, <1>7, Assemble
<1> QED BY <1>6, <1>8 DEF IInv

\* A line for another reason
LEMMA NewLineInv == IInv /\ NewLine => IInv'
<1> SUFFICES ASSUME IInv, NewLine PROVE IInv'
  OBVIOUS
<1>1. appendRow(gpsStatus, on, text, spread)
      /\ UNCHANGED <<fitted, since, text, gpsStatus, due, showHeading, windspeeds,
                     vwtKnots, spread, excused, blind>>
  BY DEF NewLine
<1>2. /\ on \in [Devices -> BOOLEAN] /\ text \in [Texts -> Blank..MaxAge]
      /\ spread \in Spreads /\ since \in [Devices -> 0..MaxAge] /\ due \in 0..GPSTIMEOUT
      /\ gpsStatus \in BOOLEAN
  BY DEF IInv, TypeOK, Spreads
<1>3. showWindHeading \in BOOLEAN /\ windspeeds \in BOOLEAN /\ blind \in BOOLEAN
  BY Zenon DEF IInv, TypeOK
<1>4. Tail(text)
  BY <1>1, <1>2, AppendRow DEF IInv
<1>5. /\ on' \in [Devices -> BOOLEAN] /\ showWindHeading' \in BOOLEAN
      /\ \A d \in Devices : on'[d] => on[d]
      /\ \A d \in Devices : on[d] /\ (d # "heading" \/ gpsStatus) => on'[d]
  <2>1. checkGPS(gpsStatus, on)
    BY <1>1, Zenon DEF appendRow
  <2> QED BY <1>2, <1>3, <2>1, CheckGPS
<1>6. Kept
  BY <1>1, <1>5, Zenon DEF Kept, IInv, Blinded
<1>7. Timely' /\ Aged' /\ Rest' /\ Blinded'
  BY <1>1, <1>6, KeptInv DEF Blinded, IInv
<1>8. Tail(text')
  BY <1>1, <1>4 DEF Tail
<1>9. TypeOK' /\ Shown'
  BY <1>1, <1>2, <1>3, <1>5, <1>7, <1>8, Assemble
<1> QED BY <1>7, <1>9 DEF IInv

\* The position OpenCPN has, or none: without one the heading is excused.
LEMMA SetPositionInv == IInv /\ SetPosition => IInv'
<1> SUFFICES ASSUME IInv, SetPosition PROVE IInv'
  OBVIOUS
<1>1. /\ gpsStatus' \in BOOLEAN /\ blind' = (blind \/ ~gpsStatus') /\ line' = NoLine
      /\ UNCHANGED <<fitted, on, since, text, due, options, wind, excused>>
  BY DEF SetPosition
<1>2. /\ on \in [Devices -> BOOLEAN] /\ text \in [Texts -> Blank..MaxAge]
      /\ spread \in Spreads /\ since \in [Devices -> 0..MaxAge] /\ due \in 0..GPSTIMEOUT
  BY DEF IInv, TypeOK, Spreads
<1>3. showWindHeading \in BOOLEAN /\ windspeeds \in BOOLEAN /\ blind' \in BOOLEAN
  BY <1>1, Zenon DEF IInv, TypeOK
<1>4. Tail(text)
  BY <1>1, NoRow DEF IInv, wind
<1>5. Kept
  BY <1>1, <1>2 DEF Kept, options, wind
<1>6. Timely' /\ Aged' /\ Rest'
  BY <1>5, KeptInv
<1>7. Blinded'
  BY <1>1, Zenon DEF Blinded
<1>8. Tail(text')
  BY <1>1, <1>4 DEF Tail
<1>9. TypeOK' /\ Shown'
  <2>1. /\ on' \in [Devices -> BOOLEAN] /\ text' \in [Texts -> Blank..MaxAge]
        /\ spread' \in Spreads /\ since' \in [Devices -> 0..MaxAge]
        /\ due' \in 0..GPSTIMEOUT
    BY <1>1, <1>2 DEF wind
  <2>2. showWindHeading' \in BOOLEAN /\ windspeeds' \in BOOLEAN
    BY <1>1, <1>3, Zenon DEF options
  <2> QED BY <1>1, <1>3, <1>6, <1>8, <2>1, <2>2, Assemble
<1> QED BY <1>6, <1>7, <1>9 DEF IInv

\* The timer blanks what is older than DEVICE_TIMEOUT, so that what it leaves
\* is in time for one more period.
LEMMA OnTimerGPSInv == IInv /\ OnTimerGPS => IInv'
<1> SUFFICES ASSUME IInv, OnTimerGPS PROVE IInv'
  OBVIOUS
<1> DEFINE flags == [d \in Devices |-> on[d] /\ d \notin Silent]
           texts == [q \in Texts |-> IF Device(q) \in Silent THEN Blank ELSE text[q]]
           spreads == [w \in Winds |-> IF w \in Silent THEN NoSpread ELSE spread[w]]
<1>1. /\ due = 0 /\ due' = GPSTIMEOUT /\ text' = texts /\ spread' = spreads
      /\ \/ appendRow(gpsStatus, flags, texts, spreads)
         \/ checkGPS(gpsStatus, flags) /\ NoAppend
      /\ UNCHANGED <<fitted, since, gpsStatus, showHeading, windspeeds, vwtKnots,
                     excused, blind>>
  BY Zenon DEF OnTimerGPS
<1>2. /\ on \in [Devices -> BOOLEAN] /\ text \in [Texts -> Blank..MaxAge]
      /\ spread \in Spreads /\ since \in [Devices -> 0..MaxAge]
      /\ gpsStatus \in BOOLEAN
  BY DEF IInv, TypeOK, Spreads
<1>3. showWindHeading \in BOOLEAN /\ windspeeds \in BOOLEAN /\ blind \in BOOLEAN
  BY Zenon DEF IInv, TypeOK
<1>4. /\ flags \in [Devices -> BOOLEAN]
      /\ \A d \in Devices : flags[d] => on[d] /\ since[d] <= DEVICE_TIMEOUT
      /\ \A d \in Devices : on[d] /\ d \notin Silent => flags[d]
  <2>1. flags \in [Devices -> BOOLEAN]
    BY <1>2
  <2>2. \A d \in Devices : flags[d] => on[d] /\ since[d] <= DEVICE_TIMEOUT
    <3> SUFFICES ASSUME NEW d \in Devices, flags[d]
                 PROVE  on[d] /\ since[d] <= DEVICE_TIMEOUT
      OBVIOUS
    <3>1. on[d] /\ d \notin Silent
      BY Zenon
    <3>2. ~(since[d] > DEVICE_TIMEOUT)
      BY <3>1, Zenon DEF Silent
    <3> QED BY <1>2, <3>1, <3>2, TimeAssumption
  <2> QED BY <2>1, <2>2
<1>5. texts \in [Texts -> Blank..MaxAge]
  BY <1>2, TimeAssumption DEF Blank
<1>6. spreads \in Spreads
  BY <1>2 DEF Spreads
<1>7. \A q \in Texts :
        /\ Device(q) \in Silent => texts[q] = Blank
        /\ Device(q) \notin Silent => texts[q] = text[q]
  OBVIOUS
<1> HIDE DEF flags, texts, spreads
<1>8. /\ on' \in [Devices -> BOOLEAN] /\ showWindHeading' \in BOOLEAN /\ Tail(texts)
      /\ \A d \in Devices : on'[d] => flags[d]
      /\ \A d \in Devices : flags[d] /\ (d # "heading" \/ gpsStatus) => on'[d]
  <2>1. CASE appendRow(gpsStatus, flags, texts, spreads)
    <3>1. checkGPS(gpsStatus, flags)
      BY <2>1, Zenon DEF appendRow
    <3>2. Tail(texts)
      BY <2>1, <1>5, <1>6, AppendRow DEF IInv
    <3> QED BY <1>2, <1>3, <1>4, <3>1, <3>2, CheckGPS
  <2>2. CASE checkGPS(gpsStatus, flags) /\ NoAppend
    <3>1. Tail(texts)
      BY <2>2, NoRow DEF NoAppend, IInv
    <3> QED BY <1>2, <1>3, <1>4, <2>2, <3>1, CheckGPS
  <2> QED BY <1>1, <2>1, <2>2
<1>9. Timely'
  BY <1>1, <1>2, <1>4, <1>8, TimeAssumption DEF Timely
<1>10. Blinded'
  BY <1>1, Zenon DEF Blinded, IInv
<1>11. Aged'
  <2> SUFFICES ASSUME NEW q \in Texts, q \notin excused', ~(q = "heading" /\ blind')
               PROVE  text'[q] = Blank \/ (on'[Device(q)] /\ text'[q] = since'[Device(q)])
    BY DEF Aged
  <2>1. Device(q) \in Devices
    BY Tables
  <2>2. text[q] = Blank \/ (on[Device(q)] /\ text[q] = since[Device(q)])
    BY <1>1 DEF IInv, Aged
  <2>3. CASE Device(q) \in Silent
    BY <1>1, <1>7, <2>3
  <2>4. CASE Device(q) \notin Silent
    <3>1. Device(q) = "heading" => gpsStatus
      <4>1. Device(q) = "heading" => q = "heading"
        BY DEF Device
      <4> QED BY <1>1, <4>1 DEF IInv, Blinded
    <3> QED BY <1>1, <1>4, <1>7, <1>8, <2>1, <2>2, <2>4, <3>1
  <2> QED BY <2>3, <2>4
<1>12. TypeOK' /\ Shown'
  <2>1. Rest' /\ due' \in 0..GPSTIMEOUT /\ since' \in [Devices -> 0..MaxAge]
    BY <1>1, TimeAssumption DEF Rest, IInv, TypeOK
  <2>2. Tail(text') /\ text' \in [Texts -> Blank..MaxAge] /\ spread' \in Spreads
    BY <1>1, <1>5, <1>6, <1>8
  <2>3. windspeeds' \in BOOLEAN /\ blind' \in BOOLEAN /\ gpsStatus' \in BOOLEAN
    BY <1>1, <1>2, <1>3
  <2> QED BY <1>8, <2>1, <2>2, <2>3, Assemble
<1> QED BY <1>9, <1>10, <1>11, <1>12 DEF IInv

\* The preferences change no reading.
LEMMA PreferencesInv == IInv /\ Preferences => IInv'
<1> SUFFICES ASSUME IInv, Preferences PROVE IInv'
  OBVIOUS
<1>1. /\ showHeading' \in 0..1 /\ showWindHeading' \in BOOLEAN /\ windspeeds' \in BOOLEAN
      /\ line' = NoLine
      /\ UNCHANGED <<fitted, on, since, text, gpsStatus, due, wind, excused, blind>>
  BY DEF Preferences
<1>2. /\ on' \in [Devices -> BOOLEAN] /\ text' \in [Texts -> Blank..MaxAge]
      /\ spread' \in Spreads /\ since' \in [Devices -> 0..MaxAge]
      /\ due' \in 0..GPSTIMEOUT /\ gpsStatus' \in BOOLEAN /\ Rest'
  BY <1>1 DEF IInv, TypeOK, Spreads, wind, Rest
<1>3. blind' \in BOOLEAN
  BY <1>1, Zenon DEF IInv, TypeOK
<1>4. Tail(text) /\ Tail(text')
  <2>1. Tail(text)
    BY <1>1, NoRow DEF IInv, wind
  <2> QED BY <1>1, <2>1
<1>5. TypeOK' /\ Shown'
  BY <1>1, <1>2, <1>3, <1>4, Assemble
<1>6. Timely' /\ Aged' /\ Blinded'
  BY <1>1 DEF IInv, Timely, Aged, Blinded
<1> QED BY <1>5, <1>6 DEF IInv

\* A second brings every age and the timer one nearer to its bound.
LEMMA TickInv == IInv /\ Tick => IInv'
<1> SUFFICES ASSUME IInv, Tick PROVE IInv'
  OBVIOUS
<1>1. /\ due > 0 /\ due' = due - 1
      /\ since' = [d \in Devices |-> Older(since[d])]
      /\ text' = [q \in Texts |-> Older(text[q])]
      /\ line' = NoLine
      /\ UNCHANGED <<fitted, on, gpsStatus, options, wind, excused, blind>>
  BY DEF Tick
<1>2. /\ on \in [Devices -> BOOLEAN] /\ text \in [Texts -> Blank..MaxAge]
      /\ since \in [Devices -> 0..MaxAge] /\ due \in 0..GPSTIMEOUT
  BY DEF IInv, TypeOK
<1>3. \A d \in Devices : since'[d] \in 0..MaxAge /\ since'[d] <= since[d] + 1
  <2> TAKE d \in Devices
  <2>1. since[d] \in Blank..MaxAge /\ since[d] \in 0..MaxAge
    BY <1>2, TimeAssumption DEF Blank
  <2> QED BY <1>1, <2>1, OlderType
<1>4. \A q \in Texts : text'[q] \in Blank..MaxAge /\ (text[q] = Blank => text'[q] = Blank)
  BY <1>1, <1>2, OlderType
<1>5. since' \in [Devices -> 0..MaxAge]
  <2> DEFINE s == [d \in Devices |-> Older(since[d])]
  <2>1. s \in [Devices -> 0..MaxAge]
    BY <1>1, <1>3
  <2> QED BY <1>1, <2>1
<1>6. text' \in [Texts -> Blank..MaxAge]
  <2> DEFINE s == [q \in Texts |-> Older(text[q])]
  <2>1. s \in [Texts -> Blank..MaxAge]
    BY <1>1, <1>4
  <2> QED BY <1>1, <2>1
<1>7. Timely'
  <2> SUFFICES ASSUME NEW d \in Devices, on'[d]
               PROVE  since'[d] <= DEVICE_TIMEOUT + GPSTIMEOUT - due'
    BY DEF Timely
  <2>1. since[d] <= DEVICE_TIMEOUT + GPSTIMEOUT - due
    BY <1>1 DEF IInv, Timely
  <2> QED BY <1>1, <1>2, <1>3, <2>1, TimeAssumption
<1>8. Aged'
  <2> SUFFICES ASSUME NEW q \in Texts, q \notin excused', ~(q = "heading" /\ blind')
               PROVE  text'[q] = Blank \/ (on'[Device(q)] /\ text'[q] = since'[Device(q)])
    BY DEF Aged
  <2>1. text[q] = Blank \/ (on[Device(q)] /\ text[q] = since[Device(q)])
    BY <1>1 DEF IInv, Aged
  <2> QED BY <1>1, <1>4, <2>1, Tables
<1>9. Blinded'
  BY <1>1, Zenon DEF Blinded, IInv
<1>10. TypeOK' /\ Shown'
  <2>1. Tail(text')
    BY <1>1, NoRow DEF IInv, wind
  <2>2. Rest' /\ due' \in 0..GPSTIMEOUT /\ spread' \in Spreads
    BY <1>1, <1>2, TimeAssumption DEF Rest, IInv, TypeOK, options, wind, Spreads
  <2>3. /\ showWindHeading' \in BOOLEAN /\ windspeeds' \in BOOLEAN /\ blind' \in BOOLEAN
        /\ gpsStatus' \in BOOLEAN /\ on' \in [Devices -> BOOLEAN]
    BY <1>1, Zenon DEF IInv, TypeOK, options
  <2> QED BY <1>5, <1>6, <2>1, <2>2, <2>3, Assemble
<1> QED BY <1>7, <1>8, <1>9, <1>10 DEF IInv

\* Every step preserves the invariant.
LEMMA NextInv == IInv /\ [Next]_vars => IInv'
<1> SUFFICES ASSUME IInv, [Next]_vars PROVE IInv'
  OBVIOUS
<1>1. CASE Next
  BY <1>1, SetSentenceInv, FixInv, SetPositionInv, NewLineInv, OnTimerGPSInv,
     PreferencesInv, TickInv DEF Next
<1>2. CASE UNCHANGED vars
  <2>1. TypeOK'
    BY <1>2 DEF vars, options, wind, IInv, TypeOK
  <2>2. Timely' /\ Aged' /\ Blinded' /\ Shown'
    BY <1>2 DEF vars, options, wind, IInv, Timely, Aged, Blinded, Shown
  <2> QED BY <2>1, <2>2 DEF IInv
<1> QED BY <1>1, <1>2
-----------------------------------------------------------------------------
LEMMA Invariance == Spec => []IInv
BY InitInv, NextInv, PTL DEF Spec

\* Types, for every boat and every timeout.
THEOREM Typing == Spec => []TypeOK
<1>1. IInv => TypeOK
  BY DEF IInv
<1> QED BY <1>1, Invariance, PTL

\* Logbook::appendRow never writes a reading older than DEVICE_TIMEOUT and one
\* period of the GPS timer, but for the excuses FreshReadings names, whatever
\* the timeouts and the instruments aboard: checkNMEADeviceIsOn is enough.
THEOREM Fresh == Spec => []FreshReadings
BY LinesFresh, Invariance, PTL
-----------------------------------------------------------------------------
(* The option "wind by heading".                                           *)

\* A heading that is off is overdue, or the GPS was off since it came.
HeadingOff == on["heading"] \/ since["heading"] > DEVICE_TIMEOUT \/ blind

LEMMA HeadingOffInit == Init => HeadingOff
BY DEF Init, HeadingOff

\* Only the timer and checkGPS switch the heading off: the one when it is overdue,
\* the other without a GPS.
LEMMA HeadingOffNext == IInv /\ HeadingOff /\ [Next]_vars => HeadingOff'
<1> SUFFICES ASSUME IInv, HeadingOff, [Next]_vars PROVE HeadingOff'
  OBVIOUS
<1>1. /\ on \in [Devices -> BOOLEAN] /\ since \in [Devices -> 0..MaxAge]
      /\ "heading" \in Devices
  BY DEF IInv, TypeOK, Devices
<1>2. CASE SetSentence
  <2>1. PICK s \in fitted :
          /\ on' = [on EXCEPT ![Reporter(s)] = TRUE]
          /\ since' = [since EXCEPT ![Reporter(s)] = 0]
          /\ blind' = IF Reporter(s) = "heading" THEN ~gpsStatus ELSE blind
    BY <1>2 DEF SetSentence
  <2>2. CASE Reporter(s) = "heading"
    BY <1>1, <2>1, <2>2 DEF HeadingOff
  <2>3. CASE Reporter(s) # "heading"
    BY <1>1, <2>1, <2>3 DEF HeadingOff
  <2> QED BY <2>2, <2>3
<1>3. CASE Fix
  <2>1. since' = since /\ blind' = blind
    BY <1>3 DEF Fix
  <2>2. on' = on
    BY <1>3, Zenon DEF Fix, appendRow, checkGPS
  <2> QED BY <2>1, <2>2 DEF HeadingOff
<1>4. CASE NewLine
  <2>1. since' = since /\ blind' = blind
    BY <1>4 DEF NewLine
  <2>2. gpsStatus => on' = on
    BY <1>4, Zenon DEF NewLine, appendRow, checkGPS
  <2> QED BY <2>1, <2>2 DEF HeadingOff, IInv, Blinded
<1>5. CASE OnTimerGPS
  <2> DEFINE flags == [d \in Devices |-> on[d] /\ d \notin Silent]
  <2>1. since' = since /\ blind' = blind
    BY <1>5 DEF OnTimerGPS
  <2>2. gpsStatus => on' = flags
    BY <1>5, Zenon DEF OnTimerGPS, appendRow, checkGPS
  <2>3. flags["heading"] <=> on["heading"] /\ "heading" \notin Silent
    BY <1>1, Zenon
  <2>4. "heading" \in Silent => since["heading"] > DEVICE_TIMEOUT
    BY Zenon DEF Silent
  <2> HIDE DEF flags
  <2> QED BY <2>1, <2>2, <2>3, <2>4, Zenon DEF HeadingOff, IInv, Blinded
<1>6. CASE Tick
  <2>1. since'["heading"] = Older(since["heading"]) /\ on' = on /\ blind' = blind
    BY <1>1, <1>6 DEF Tick
  <2>2. Older(since["heading"]) >= since["heading"]
    BY <1>1, TimeAssumption DEF Older, Blank
  <2>3. Older(since["heading"]) \in Int
    BY <1>1, TimeAssumption DEF Older, Blank
  <2>4. since["heading"] > DEVICE_TIMEOUT => since'["heading"] > DEVICE_TIMEOUT
    BY <1>1, <2>1, <2>2, <2>3, TimeAssumption
  <2> QED BY <2>1, <2>4, Zenon DEF HeadingOff
<1>7. CASE SetPosition \/ Preferences \/ UNCHANGED vars
  <2>1. on' = on /\ since' = since
    BY <1>7 DEF SetPosition, Preferences, vars
  <2>2. blind => blind'
    <3>1. CASE SetPosition
      BY <3>1, Zenon DEF SetPosition
    <3>2. CASE Preferences
      BY <3>2 DEF Preferences
    <3>3. CASE UNCHANGED vars
      BY <3>3 DEF vars
    <3> QED BY <1>7, <3>1, <3>2, <3>3
  <2> QED BY <2>1, <2>2, Zenon DEF HeadingOff
<1> QED BY <1>2, <1>3, <1>4, <1>5, <1>6, <1>7 DEF Next

\* The step that gives the option up
LEMMA HeadingStep ==
  IInv /\ HeadingOff /\ [Next]_vars
    => (showWindHeading /\ ~showWindHeading' /\ ~Preferences
          => since["heading"] > DEVICE_TIMEOUT \/ blind)
<1> SUFFICES ASSUME HeadingOff, [Next]_vars,
                    showWindHeading, ~showWindHeading', ~Preferences, ~blind
             PROVE  since["heading"] > DEVICE_TIMEOUT
  OBVIOUS
<1>1. "heading" \in Devices
  BY DEF Devices
<1>2. CASE SetSentence \/ SetPosition \/ Tick \/ UNCHANGED vars
  <2>1. showWindHeading' = showWindHeading
    BY <1>2 DEF SetSentence, SetPosition, Tick, vars, options
  <2> QED BY <2>1
<1>3. CASE Fix \/ NewLine
  <2>1. ~on["heading"]
    BY <1>3, Zenon DEF Fix, NewLine, appendRow, checkGPS
  <2> QED BY <2>1 DEF HeadingOff
<1>4. CASE OnTimerGPS
  <2> DEFINE flags == [d \in Devices |-> on[d] /\ d \notin Silent]
  <2>1. ~flags["heading"]
    BY <1>4, Zenon DEF OnTimerGPS, appendRow, checkGPS
  <2>2. ~on["heading"] \/ "heading" \in Silent
    BY <1>1, <2>1, Zenon
  <2>3. "heading" \in Silent => since["heading"] > DEVICE_TIMEOUT
    BY Zenon DEF Silent
  <2> QED BY <2>2, <2>3, Zenon DEF HeadingOff
<1> QED BY <1>2, <1>3, <1>4 DEF Next

\* Logbook::checkGPS gives the option up only for a heading that is overdue, or
\* after a time without a GPS.
THEOREM OptionKept == Spec => HeadingOptionKept
<1>1. IInv /\ HeadingOff /\ [Next]_vars
        => [showWindHeading /\ ~showWindHeading' /\ ~Preferences
              => since["heading"] > DEVICE_TIMEOUT \/ blind]_vars
  BY HeadingStep
<1>2. Spec => []HeadingOff
  BY HeadingOffInit, HeadingOffNext, Invariance, PTL DEF Spec
<1> QED BY <1>1, <1>2, Invariance, PTL DEF Spec, HeadingOptionKept

-----------------------------------------------------------------------------
(* The spread of the wind.                                                 *)

IsLeast(x, S) == x \in S /\ \A y \in S : x <= y
IsGreatest(x, S) == x \in S /\ \A y \in S : x >= y

\* Once a line has reset them, minwind and maxwind are the extremes of the speeds
\* since, and the text for the next line, if there is one, says so.
Spanned ==
  swept => \A w \in Winds :
    /\ IsLeast(lowest[w], gusts[w] \cup {Ceiling})
    /\ IsGreatest(highest[w], gusts[w] \cup {0})
    /\ gusts[w] # {} => spread[w] \in {NoSpread, <<lowest[w], highest[w]>>}

\* Extremes are unique.
LEMMA LeastIsMin ==
  ASSUME NEW S, S \subseteq Nat, NEW x
  PROVE  IsLeast(x, S) => Min(S) = x
<1> SUFFICES ASSUME IsLeast(x, S) PROVE Min(S) = x
  OBVIOUS
<1>1. x \in S /\ \A y \in S : x <= y
  BY DEF IsLeast
<1>2. Min(S) \in S /\ \A y \in S : Min(S) <= y
  BY <1>1, Zenon DEF Min
<1>3. x \in Nat /\ Min(S) \in Nat /\ x <= Min(S) /\ Min(S) <= x
  BY <1>1, <1>2, Zenon
<1> QED BY <1>3

LEMMA GreatestIsMax ==
  ASSUME NEW S, S \subseteq Nat, NEW x
  PROVE  IsGreatest(x, S) => Max(S) = x
<1> SUFFICES ASSUME IsGreatest(x, S) PROVE Max(S) = x
  OBVIOUS
<1>1. x \in S /\ \A y \in S : x >= y
  BY DEF IsGreatest
<1>2. Max(S) \in S /\ \A y \in S : Max(S) >= y
  BY <1>1, Zenon DEF Max
<1>3. x \in Nat /\ Max(S) \in Nat /\ x >= Max(S) /\ Max(S) >= x
  BY <1>1, <1>2, Zenon
<1> QED BY <1>3

\* minwind and maxwind take a further speed in.
LEMMA OneMore ==
  ASSUME NEW S, S \subseteq Nat, NEW x, NEW u \in Nat
  PROVE  /\ IsLeast(x, S) => IsLeast(IF x > u THEN u ELSE x, S \cup {u})
         /\ IsGreatest(x, S) => IsGreatest(IF x < u THEN u ELSE x, S \cup {u})
<1>1. ASSUME IsLeast(x, S) PROVE IsLeast(IF x > u THEN u ELSE x, S \cup {u})
  <2>1. x \in S /\ x \in Nat /\ \A y \in S : y \in Nat /\ x <= y
    BY <1>1 DEF IsLeast
  <2> DEFINE z == IF x > u THEN u ELSE x
  <2>2. z \in S \cup {u} /\ z \in Nat /\ z <= x /\ z <= u
    BY <2>1
  <2> HIDE DEF z
  <2>3. \A y \in S \cup {u} : z <= y
    BY <2>1, <2>2
  <2>4. IsLeast(z, S \cup {u})
    BY <2>2, <2>3 DEF IsLeast
  <2> QED BY <2>4 DEF z
<1>2. ASSUME IsGreatest(x, S) PROVE IsGreatest(IF x < u THEN u ELSE x, S \cup {u})
  <2>1. x \in S /\ x \in Nat /\ \A y \in S : y \in Nat /\ x >= y
    BY <1>2 DEF IsGreatest
  <2> DEFINE z == IF x < u THEN u ELSE x
  <2>2. z \in S \cup {u} /\ z \in Nat /\ z >= x /\ z >= u
    BY <2>1
  <2> HIDE DEF z
  <2>3. \A y \in S \cup {u} : z >= y
    BY <2>1, <2>2
  <2>4. IsGreatest(z, S \cup {u})
    BY <2>2, <2>3 DEF IsGreatest
  <2> QED BY <2>4 DEF z
<1> QED BY <1>1, <1>2

\* Every step but a sentence's
Calm ==
  \/ UNCHANGED <<lowest, highest, gusts, swept>>
  \/ /\ lowest' = [w \in Winds |-> Ceiling] /\ highest' = [w \in Winds |-> 0]
     /\ gusts' = [w \in Winds |-> {}] /\ swept'

LEMMA AppendCalm ==
  ASSUME NEW gps, NEW flags, NEW texts, NEW spreads,
         appendRow(gps, flags, texts, spreads)
  PROVE  Calm /\ \A w \in Winds : line'.spread[w] \in {NoSpread, spreads[w]}
<1>1. Calm
  BY Zenon DEF appendRow, Calm
<1>2. line'.spread = IF windspeeds THEN spreads ELSE NoLine.spread
  BY DEF appendRow
<1>3. \A w \in Winds : NoLine.spread[w] = NoSpread
  BY DEF NoLine
<1> QED BY <1>1, <1>2, <1>3

LEMMA NoAppendCalm ==
  ASSUME NoAppend
  PROVE  Calm /\ \A w \in Winds : line'.spread[w] = NoSpread
BY DEF NoAppend, Calm, NoLine

\* What those steps do to the text, and to the text in the line
LEMMA CalmSteps ==
  IInv /\ Next /\ ~SetSentence
    => /\ Calm
       /\ \A w \in Winds : spread'[w] \in {NoSpread, spread[w]}
                           /\ line'.spread[w] \in {NoSpread, spread[w]}
<1> SUFFICES ASSUME IInv, Next, ~SetSentence
             PROVE  /\ Calm
                    /\ \A w \in Winds : spread'[w] \in {NoSpread, spread[w]}
                                        /\ line'.spread[w] \in {NoSpread, spread[w]}
  OBVIOUS
<1>1. CASE Fix
  <2>1. spread' = spread
    BY <1>1 DEF Fix
  <2>2. CASE appendRow(TRUE, on, text, spread)
    BY <2>1, <2>2, AppendCalm
  <2>3. CASE NoAppend
    BY <2>1, <2>3, NoAppendCalm
  <2> QED BY <1>1, <2>2, <2>3 DEF Fix
<1>2. CASE NewLine
  <2>1. spread' = spread /\ appendRow(gpsStatus, on, text, spread)
    BY <1>2 DEF NewLine
  <2> QED BY <2>1, AppendCalm
<1>3. CASE OnTimerGPS
  <2> DEFINE flags == [d \in Devices |-> on[d] /\ d \notin Silent]
             texts == [q \in Texts |-> IF Device(q) \in Silent THEN Blank ELSE text[q]]
             spreads == [w \in Winds |-> IF w \in Silent THEN NoSpread ELSE spread[w]]
  <2>1. /\ spread' = spreads
        /\ appendRow(gpsStatus, flags, texts, spreads) \/ NoAppend
    BY <1>3, Zenon DEF OnTimerGPS
  <2>2. \A w \in Winds : spreads[w] \in {NoSpread, spread[w]}
    OBVIOUS
  <2> HIDE DEF flags, texts, spreads
  <2>3. CASE appendRow(gpsStatus, flags, texts, spreads)
    <3>1. Calm /\ \A w \in Winds : line'.spread[w] \in {NoSpread, spreads[w]}
      BY <2>3, AppendCalm
    <3> QED BY <3>1, <2>1, <2>2
  <2>4. CASE NoAppend
    BY <2>1, <2>2, <2>4, NoAppendCalm
  <2> QED BY <2>1, <2>3, <2>4
<1>4. CASE SetPosition \/ Preferences \/ Tick
  <2>1. UNCHANGED wind /\ line' = NoLine
    BY <1>4 DEF SetPosition, Preferences, Tick
  <2>2. \A w \in Winds : NoLine.spread[w] = NoSpread
    BY DEF NoLine
  <2> QED BY <2>1, <2>2 DEF wind, Calm
<1> QED BY <1>1, <1>2, <1>3, <1>4 DEF Next

\* A sentence about the wind
LEMMA GustSpans ==
  IInv /\ Spanned /\ SetSentence => Spanned'
<1> SUFFICES ASSUME IInv, Spanned, SetSentence, swept',
                    NEW w \in Winds
             PROVE  /\ IsLeast(lowest'[w], gusts'[w] \cup {Ceiling})
                    /\ IsGreatest(highest'[w], gusts'[w] \cup {0})
                    /\ gusts'[w] # {}
                         => spread'[w] \in {NoSpread, <<lowest'[w], highest'[w]>>}
  BY DEF Spanned
<1>1. PICK s \in fitted, v \in Speeds : Gust(s, v)
  BY Zenon DEF SetSentence
<1> DEFINE r == Reporter(s)
           u == IF s = "VWR" THEN vwtKnots ELSE v
<1>t. /\ lowest \in [Winds -> Nat] /\ highest \in [Winds -> Nat]
      /\ spread \in [Winds -> {NoSpread} \cup (Nat \X Nat)]
      /\ gusts \in [Winds -> SUBSET Nat]
  BY DEF IInv, TypeOK
<1>u. u \in Nat
  BY SpeedsAssumption DEF IInv, TypeOK
<1>2. CASE r \notin Winds
  <2>1. UNCHANGED <<lowest, highest, spread, gusts, swept>>
    BY <1>1, <1>2 DEF Gust, wind
  <2>2. swept
    BY <2>1
  <2> QED BY <2>1, <2>2, Zenon DEF Spanned
<1>3. CASE r \in Winds
  <2>1. /\ lowest' = [lowest EXCEPT ![r] = Lowest(r, u)]
        /\ highest' = [highest EXCEPT ![r] = Highest(r, u)]
        /\ spread' = [spread EXCEPT ![r] = <<Lowest(r, u), Highest(r, u)>>]
        /\ gusts' = [gusts EXCEPT ![r] = @ \cup {u}]
        /\ swept' = swept
    BY <1>1, <1>3, Zenon DEF Gust
  <2>2. /\ IsLeast(lowest[w], gusts[w] \cup {Ceiling})
        /\ IsGreatest(highest[w], gusts[w] \cup {0})
        /\ gusts[w] # {} => spread[w] \in {NoSpread, <<lowest[w], highest[w]>>}
    BY <2>1, Zenon DEF Spanned
  <2> HIDE DEF r, u
  <2>3. CASE w = r
    <3>1. /\ lowest'[w] = Lowest(w, u) /\ highest'[w] = Highest(w, u)
          /\ spread'[w] = <<Lowest(w, u), Highest(w, u)>>
          /\ gusts'[w] = gusts[w] \cup {u}
      BY <2>1, <2>3, <1>t
    <3>2. gusts[w] \cup {Ceiling} \subseteq Nat /\ gusts[w] \cup {0} \subseteq Nat
      BY <1>t, SpeedsAssumption
    <3>3. IsLeast(Lowest(w, u), (gusts[w] \cup {Ceiling}) \cup {u})
      BY <2>2, <3>2, <1>u, OneMore DEF Lowest
    <3>4. IsGreatest(Highest(w, u), (gusts[w] \cup {0}) \cup {u})
      BY <2>2, <3>2, <1>u, OneMore DEF Highest
    <3>5. /\ (gusts[w] \cup {Ceiling}) \cup {u} = gusts'[w] \cup {Ceiling}
          /\ (gusts[w] \cup {0}) \cup {u} = gusts'[w] \cup {0}
      BY <3>1
    <3> QED BY <3>1, <3>3, <3>4, <3>5
  <2>4. CASE w # r
    <3>1. /\ lowest'[w] = lowest[w] /\ highest'[w] = highest[w]
          /\ spread'[w] = spread[w] /\ gusts'[w] = gusts[w]
      BY <2>1, <2>4, <1>t
    <3> QED BY <2>2, <3>1
  <2> QED BY <2>3, <2>4
<1> QED BY <1>2, <1>3

LEMMA SpannedNext == IInv /\ Spanned /\ [Next]_vars => Spanned'
<1>1. ASSUME IInv, Spanned, Next, ~SetSentence PROVE Spanned'
  <2>1. /\ Calm
        /\ \A w \in Winds : spread'[w] \in {NoSpread, spread[w]}
    BY <1>1, CalmSteps
  <2>2. CASE UNCHANGED <<lowest, highest, gusts, swept>>
    BY <1>1, <2>1, <2>2 DEF Spanned
  <2>3. CASE /\ lowest' = [w \in Winds |-> Ceiling] /\ highest' = [w \in Winds |-> 0]
             /\ gusts' = [w \in Winds |-> {}] /\ swept'
    BY <2>3, SpeedsAssumption DEF Spanned, IsLeast, IsGreatest
  <2> QED BY <2>1, <2>2, <2>3 DEF Calm
<1>2. ASSUME Spanned, UNCHANGED vars PROVE Spanned'
  BY <1>2 DEF Spanned, vars, wind
<1> QED BY <1>1, <1>2, GustSpans

\* The spread of the wind in a line: lowest and highest speed since the line that
\* reset them, which Logbook::appendRow does after it has written them.
THEOREM SpreadShown == Spec => SpreadOfInterval
<1>1. Init => Spanned
  BY DEF Init, Spanned
<1>2. Spec => []Spanned
  BY <1>1, SpannedNext, Invariance, PTL DEF Spec
<1>3. ASSUME IInv, Spanned, Next, NEW w \in Winds,
             windspeeds, swept, gusts[w] # {}, line'.spread[w] # NoSpread
      PROVE  line'.spread[w] = <<Min(gusts[w] \cup {Ceiling}), Max(gusts[w])>>
  <2>1. CASE SetSentence
    <3>1. line' = NoLine
      BY <2>1, Zenon DEF SetSentence
    <3> QED BY <1>3, <3>1 DEF NoLine
  <2>2. CASE ~SetSentence
    <3>1. line'.spread[w] = spread[w]
      BY <1>3, <2>2, CalmSteps
    <3>2. /\ IsLeast(lowest[w], gusts[w] \cup {Ceiling})
          /\ IsGreatest(highest[w], gusts[w] \cup {0})
          /\ spread[w] \in {NoSpread, <<lowest[w], highest[w]>>}
      BY <1>3, Zenon DEF Spanned
    <3>3. gusts[w] \subseteq Nat /\ gusts[w] \cup {Ceiling} \subseteq Nat
      BY <1>3, SpeedsAssumption DEF IInv, TypeOK
    <3>4. IsGreatest(highest[w], gusts[w])
      BY <1>3, <3>2, <3>3 DEF IsGreatest
    <3>5. Min(gusts[w] \cup {Ceiling}) = lowest[w] /\ Max(gusts[w]) = highest[w]
      BY <3>2, <3>3, <3>4, LeastIsMin, GreatestIsMax
    <3> QED BY <1>3, <3>1, <3>2, <3>5
  <2> QED BY <2>1, <2>2
<1>4. IInv /\ Spanned /\ [Next]_vars
        => [\A w \in Winds :
              windspeeds /\ swept /\ gusts[w] # {} /\ line'.spread[w] # NoSpread
                => line'.spread[w] = <<Min(gusts[w] \cup {Ceiling}), Max(gusts[w])>>]_vars
  BY <1>3, Zenon
<1> QED BY <1>2, <1>4, Invariance, PTL DEF Spec, SpreadOfInterval
=============================================================================
