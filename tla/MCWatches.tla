----------------------------- MODULE MCWatches -----------------------------
(* The watch list on days of five minutes and hours of three.               *)
EXTENDS Watches

MCCrews == {"A", "B"}
MCStars == {"S"}
MCLengths == {0, 2, 4}
MCTrips == {1, 2}
MCStarts == {8}

\* A day of three watches from minute 2 on, and a minute open; a day from the last
\* minute of a date on, which begins with a watch of a minute: it can be split, and
\* when it grows the second one comes to end after two midnights
Member(len, crew, star) == [empty(len) EXCEPT !.crew = crew, !.star = star]
Open == <<Member(2, "A", "S"), Member(1, "B", ""), Member(1, "", "")>>
Short == <<Member(1, "A", ""), Member(4, "B", "")>>
MCBases == {firstColumn(2), chained(Open, 2), chained(Short, 4)}
=============================================================================
