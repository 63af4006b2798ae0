--------------------------- MODULE MCLogbookFile ----------------------------
(* Instances of LogbookFile for TLC: one old logbook.                       *)
EXTENDS LogbookFile

OneOld == {"until_1"}
=============================================================================
