--------------------------- MODULE MCEventBullets ---------------------------
(* The instances of EventBullets that TLC checks.                          *)
EXTENDS EventBullets

MCEvents == {"timer", "waypointArrived", "guardChange"}

MCNmeaEvents == {"timer", "everySM", "courseChange"}
=============================================================================
