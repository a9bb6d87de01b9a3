---------------------------- MODULE MCActuation ----------------------------
(* Instances of Actuation for TLC: off and charging, the cap and a lifted  *)
(* limit, and a republish interval of a few ticks.                         *)
EXTENDS Actuation

Decide(m, n) == [mode |-> m, limit |-> n]
Now == {"now"}
OffOn == {Decide("off", 80), Decide("now", 80)}
OffOnLifted == OffOn \cup {Decide("now", 100)}
Everything == AllFaults
Timeouts == {"timeout"}
=============================================================================
