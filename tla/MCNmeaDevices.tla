---------------------------- MODULE MCNmeaDevices ----------------------------
(* The instances of NmeaDevices that TLC checks.                           *)
EXTENDS NmeaDevices

\* The boats: plain instruments, compasses, two kinds of wind sentences,
\* weather stations
MCFits == {{"DBT", "VHW"}, {"MTW", "HDG", "HDM"}, {"HDT", "HDM"},
           {"MWV_T", "MWV_R"}, {"VWT", "VWR"},
           {"MDA", "XDR_P"}, {"XDR_C", "XDR_H", "XDR_V"}}

MCSpeeds == {1, 3}
MCGarbage == {2}
=============================================================================
