----------------------------- MODULE EventStatus ----------------------------
(***************************************************************************)
(* What the status bar promises its user: an event is stopped, running or   *)
(* suspended; suspension is common to all events that are not stopped; an   *)
(* event appends lines only while it runs.                                  *)
(***************************************************************************)
CONSTANT Events

VARIABLES
  status,   \* of each event
  line      \* the event whose line the last step appended, or "none"

vars == <<status, line>>

Stopped == [e \in Events |-> "stopped"]

Active == {e \in Events : status[e] # "stopped"}

Suspended == \E e \in Events : status[e] = "suspended"

Uniform(S, value) == [e \in Events |-> IF e \in S THEN value ELSE "stopped"]

Init == status = Stopped /\ line = "none"

\* A new event is suspended if the others are, and runs otherwise.
Start(e) ==
  /\ status[e] = "stopped"
  /\ status' = [status EXCEPT ![e] = IF Suspended THEN "suspended"
                                     ELSE "running"]
  /\ line' = "none"

Stop(e) ==
  /\ status[e] # "stopped"
  /\ status' = [status EXCEPT ![e] = "stopped"]
  /\ line' = "none"

\* All events change together.
Suspend ==
  ~Suspended /\ status' = Uniform(Active, "suspended") /\ line' = "none"

Resume ==
  Suspended /\ status' = Uniform(Active, "running") /\ line' = "none"

\* The window opens with some events, all suspended or all running.
Open ==
  /\ status = Stopped
  /\ \E S \in SUBSET Events, value \in {"suspended", "running"} :
       status' = Uniform(S, value)
  /\ line' = "none"

Close == status' = Stopped /\ line' = "none"

Log(e) == status[e] = "running" /\ line' = e /\ UNCHANGED status

Quiet == line' = "none" /\ UNCHANGED status

Next ==
  \/ \E e \in Events : Start(e) \/ Stop(e) \/ Log(e)
  \/ Suspend \/ Resume \/ Open \/ Close \/ Quiet

Spec == Init /\ [][Next]_vars
=============================================================================
