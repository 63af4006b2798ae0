---------------------------- MODULE MCGridTotals ----------------------------
(* The instances of GridTotals that TLC checks.                            *)
EXTENDS GridTotals

MCKinds == {"distance", "hours", "tank", "water"}

MCEntries == [distance |-> {0, 5}, hours |-> {0, 1, 60}, tank |-> {-2, 3},
              water |-> {-2}]
MCTotals == [distance |-> {}, hours |-> {1, 61}, tank |-> {8}, water |-> {8}]
MCLines == [distance |-> 4, hours |-> 4, tank |-> 4, water |-> 3]
MCPlaces == {1, 3}
MCGarbage == {0, 7}

\* where decimalToHours writes hh:60, for totals of at most 4 minutes past an
\* hour (computed with the code's floating-point expressions)
MCShort == {<<1, 61>>, <<2, 122>>, <<3, 123>>, <<62, 122>>, <<63, 123>>,
            <<62, 182>>, <<63, 183>>}
=============================================================================
