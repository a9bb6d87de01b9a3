--------------------------- MODULE MCDecisionLoop ---------------------------
(***************************************************************************)
(* Instances of DecisionLoop for TLC.  The thresholds and the SoC bounds   *)
(* are the defaults of config.Default (start 1400 W, stop 0 W, cap 80,     *)
(* resume below 78, max 100); the dwells are shortened to a few ticks.     *)
(***************************************************************************)
EXTENDS DecisionLoop

Reading(grid, pv, battery, charge, soc, connected, ready, stale) ==
    [gridW |-> grid, pvW |-> pv, batteryW |-> battery, chargeW |-> charge,
     vehicleSoC |-> soc, connected |-> connected, ready |-> ready,
     stale |-> stale]

Sunny(soc) == Reading(-1500, 3000, 0, 0, soc, TRUE, TRUE, FALSE)
Cloudy(soc) == Reading(-500, 1500, 0, 0, soc, TRUE, TRUE, FALSE)
Dark(soc) == Reading(300, 0, 0, 0, soc, TRUE, TRUE, FALSE)
(* The house battery feeds the grid: export that is not solar surplus.     *)
BatteryExport(soc) == Reading(-2000, 0, 2000, 0, soc, TRUE, TRUE, FALSE)
Stale(soc) == Reading(-1500, 3000, 0, 0, soc, TRUE, TRUE, TRUE)
Unplugged(soc) == Reading(-1500, 3000, 0, 0, soc, FALSE, TRUE, FALSE)

NotReady == Reading(-1500, 3000, 0, 0, 0, TRUE, FALSE, FALSE)

(* Surplus and PV around the thresholds, the battery feeding the export,   *)
(* and what holds off or interrupts a dwell: metrics not seen yet after a  *)
(* start, stale data, an unplug, the SoC cap                               *)
(* and a SoC between cap and resume level.                                 *)
DwellReadings ==
    {Sunny(60), Cloudy(60), Dark(60), BatteryExport(60), Stale(60), Unplugged(60),
     Dark(80), Sunny(79), NotReady}
(* The SoC around the cap and the resume level.                            *)
ControlReadings == {Sunny(77), Sunny(79), Sunny(80), Stale(79)}

Body(m, hours, bypass, soc) ==
    [mode |-> m, hours |-> hours, capBypass |-> bypass, capBypassSoC |-> soc]

NoRequests == {}
OverrideBodies ==
    {Body("auto", 0, FALSE, 0), Body("off", 1, TRUE, 90), Body("on", 0, FALSE, 90),
     Body("on", 2, TRUE, 60), Body("on", 1, TRUE, 0), Body("on", 2, TRUE, 90)}
SimpleOverrides == {Body("on", 1, FALSE, 0), Body("off", 0, FALSE, 0)}
AllPowers == {"pv", "now", "minpv"}
AllProfiles == Profiles \cup {"eco"}
Thresholds == {0, 150, 1000}
Targets == {75, 50, 100}
=============================================================================
