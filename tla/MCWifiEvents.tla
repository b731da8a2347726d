---------------------------- MODULE MCWifiEvents ----------------------------
(* Settings of WifiEvents for TLC. *)
EXTENDS WifiEvents

Module(mode, wait, sntp_, ntp, toggles, faults) ==
  [mode |-> mode, wait |-> wait, sntp |-> sntp_, cdns |-> mode # "STATION", ntp |-> ntp,
   toggles |-> toggles, faults |-> faults]

\* Stations with and without a soft-AP, that try again after a time, leave it to the SDK
\* or give up; without time client
Stations == {Module("STATIONAP", 2, FALSE, TRUE, FALSE, {"lost", "memory"}),
             Module("STATIONAP", 1, FALSE, TRUE, FALSE, {"lost"}),
             Module("STATIONAP", 0, FALSE, TRUE, FALSE, {"lost"}),
             Module("STATION", 0, FALSE, TRUE, FALSE, {"lost"})}

\* The time client of a station that comes and goes, by name and by address
Clients == {Module("STATION", 2, TRUE, FALSE, FALSE, {"lost", "memory", "dns"}),
            Module("STATION", 2, TRUE, TRUE, FALSE, {"lost"})}

\* Settings are changed while the time client works
Toggled == {Module("STATIONAP", 2, TRUE, FALSE, TRUE, {})}

MCCfgs == Stations \cup Clients \cup Toggled
=============================================================================
