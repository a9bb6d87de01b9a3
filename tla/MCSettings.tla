----------------------------- MODULE MCSettings -----------------------------
(* Instances of Settings for TLC: two concurrent requests over few values; *)
(* a configuration whose stop threshold may be raised past a stored start  *)
(* threshold.                                                              *)
EXTENDS Settings

OneProfile == {"power_latch"}
TwoProfiles == {"power_latch", "surplus_latch"}
None == {}
OnePower == {"now"}
Powers == {"pv", "now"}
Thresholds == {200}
Targets == {80}
LowStop == {100}
EditedStop == {100, 300}
=============================================================================
