------------------------------- MODULE Policy -------------------------------
(***************************************************************************)
(* The pure decision engine of wha (internal/controller/policy.go): from   *)
(* the time, the inputs of one tick, the previous state and the dwell      *)
(* timers it computes the next state and the evcc mode to command.  It has *)
(* no state of its own; DecisionLoop runs it.                              *)
(*                                                                         *)
(* Times are naturals in units of the decision interval, and 0 is Go's     *)
(* zero time.Time ("not pending", "no expiry").  Power is an integer: the  *)
(* comparisons with the thresholds are all the engine does with it.        *)
(***************************************************************************)
EXTENDS Integers

CONSTANTS
    StartThresholdW,   \* control.startThresholdW
    StopThresholdW,    \* control.stopThresholdW
    StartDwell,        \* control.startDwell
    StopDwell,         \* control.stopDwell
    SoCCap,            \* control.socCap
    SoCResumeBelow,    \* control.socResumeBelow
    SoCMax,            \* control.socMax
    EnableMode,        \* control.enableMode
    DefaultProfile     \* control.autoProfile

SurplusProfile == "surplus"
PowerLatch == "power_latch"
SurplusLatch == "surplus_latch"
LatchProfiles == {PowerLatch, SurplusLatch}
Profiles == LatchProfiles \cup {SurplusProfile}

ModeOff == "off"
EnableModes == {"pv", "now"}
Modes == EnableModes \cup {ModeOff}

States == {"idle", "surplus_pending", "charging", "stop_pending",
           "soc_reached", "failsafe"}
Overrides == {"auto", "on", "off"}
Unset == ""            \* an operator setting that was never made

(* What Config.Validate guarantees of a configuration the program runs on. *)
ASSUME ConfigValid ==
    /\ StartThresholdW \in Int /\ StopThresholdW \in Int
    /\ StartThresholdW > StopThresholdW
    /\ StartDwell \in Nat /\ StopDwell \in Nat
    /\ SoCCap \in 1..100
    /\ SoCResumeBelow \in Int /\ SoCResumeBelow < SoCCap
    /\ SoCMax \in Int /\ SoCCap < SoCMax /\ SoCMax =< 100
    /\ EnableMode \in EnableModes
    /\ DefaultProfile \in Profiles

-----------------------------------------------------------------------------
(* The metrics of one snapshot that reach the engine, and the operator's   *)
(* runtime settings resolved for the active profile.                       *)
Metrics == [gridW : Int, pvW : Int, batteryW : Int, chargeW : Int,
            vehicleSoC : Int, connected : BOOLEAN,
            ready : BOOLEAN, stale : BOOLEAN]

Settings == [override : Overrides, overrideUntil : Nat,
             capBypass : BOOLEAN, capBypassSoC : Int,
             chargePower : EnableModes \cup {Unset},
             autoProfile : Profiles \cup {Unset},
             startThresholdW : Int, targetSoC : Int]

Timers == [crossedUpAt : Nat, crossedDownAt : Nat]
NoTimers == [crossedUpAt |-> 0, crossedDownAt |-> 0]

(* Definitions named ...Wrong... are faulty variants of the one that       *)
(* follows them, the kind of slip the properties are meant to catch; no    *)
(* specification uses them.                                                *)
UpSinceWrongBackdated(t) == [NoTimers EXCEPT !.crossedUpAt = t - StartDwell]

UpSince(t) == [NoTimers EXCEPT !.crossedUpAt = t]
DownSince(t) == [NoTimers EXCEPT !.crossedDownAt = t]

Decision(st, tm, mode, code) ==
    [state |-> st, timers |-> tm, desiredMode |-> mode, code |-> code]

(* Surplus: car draw plus export, minus battery discharge.                 *)
Surplus(m) ==
    m.chargeW - m.gridW - (IF m.batteryW < 0 THEN 0 ELSE m.batteryW)

EffectiveMode(s) == IF s.chargePower # Unset THEN s.chargePower ELSE EnableMode
EffectiveProfile(s) ==
    IF s.autoProfile # Unset THEN s.autoProfile ELSE DefaultProfile
EffectiveStartThreshold(s) ==
    IF s.startThresholdW # 0 THEN s.startThresholdW ELSE StartThresholdW
EffectiveTargetSoC(s) == IF s.targetSoC # 0 THEN s.targetSoC ELSE SoCCap

Latched(s) == EffectiveProfile(s) # SurplusProfile

OverrideActiveWrongForever(now, s) == s.override # "auto"

OverrideActive(now, s) ==
    /\ s.override # "auto"
    /\ s.overrideUntil = 0 \/ now < s.overrideUntil

BypassActive(now, s) ==
    s.override = "on" /\ s.capBypass /\ OverrideActive(now, s)

(* The limit wha asks evcc to enforce as its dead-man backstop.            *)
LimitSoCTarget(now, s) ==
    CASE BypassActive(now, s) /\ s.capBypassSoC > 0 ->
            IF s.capBypassSoC < SoCCap + 1 THEN SoCCap + 1
            ELSE IF s.capBypassSoC > SoCMax THEN SoCMax
            ELSE s.capBypassSoC
      [] BypassActive(now, s) /\ ~(s.capBypassSoC > 0) -> SoCMax
      [] ~BypassActive(now, s) /\ Latched(s) -> EffectiveTargetSoC(s)
      [] OTHER -> SoCCap

(* The SoC cap in force under automatic control, and the level below which *)
(* charging may resume after it was reached.                               *)
CapTarget(s) == IF Latched(s) THEN EffectiveTargetSoC(s) ELSE SoCCap
ResumeBelow(s) == CapTarget(s) - (SoCCap - SoCResumeBelow)

(* The quantity and the threshold the start dwell is measured on.          *)
Trigger(m, s) ==
    IF EffectiveProfile(s) = PowerLatch THEN m.pvW ELSE Surplus(m)
TriggerThreshold(s) ==
    IF Latched(s) THEN EffectiveStartThreshold(s) ELSE StartThresholdW

ChargingState(st) == st \in {"charging", "stop_pending"}

-----------------------------------------------------------------------------
(* The dwell timer survives a dip below the threshold.                     *)
DecideLatchWrongKeeps(now, m, s, st, tm) ==
    IF ChargingState(st)
    THEN Decision("charging", NoTimers, "now", "latch_charging")
    ELSE IF Trigger(m, s) < EffectiveStartThreshold(s)
    THEN Decision("idle", tm, ModeOff, "latch_below_start")
    ELSE IF tm.crossedUpAt # 0 /\ now - tm.crossedUpAt >= StartDwell
    THEN Decision("charging", NoTimers, "now", "latch_charging")
    ELSE Decision("surplus_pending",
                  UpSince(IF tm.crossedUpAt = 0 THEN now ELSE tm.crossedUpAt),
                  ModeOff, "surplus_dwell_pending")

DecideLatch(now, m, s, st, tm) ==
    IF ChargingState(st)
    THEN Decision("charging", NoTimers, "now", "latch_charging")
    ELSE IF Trigger(m, s) < EffectiveStartThreshold(s)
    THEN Decision("idle", NoTimers, ModeOff, "latch_below_start")
    ELSE IF tm.crossedUpAt = 0
    THEN Decision("surplus_pending", UpSince(now), ModeOff, "latch_start")
    ELSE IF now - tm.crossedUpAt >= StartDwell
    THEN Decision("charging", NoTimers, "now", "latch_charging")
    ELSE Decision("surplus_pending", UpSince(tm.crossedUpAt), ModeOff,
                  "surplus_dwell_pending")

DecideFromIdleWrongKeeps(now, surplus, tm, enable) ==
    IF surplus < StartThresholdW
    THEN Decision("idle", tm, ModeOff, "surplus_below_start")
    ELSE IF tm.crossedUpAt # 0 /\ now - tm.crossedUpAt >= StartDwell
    THEN Decision("charging", NoTimers, enable, "surplus_charging")
    ELSE Decision("surplus_pending",
                  UpSince(IF tm.crossedUpAt = 0 THEN now ELSE tm.crossedUpAt),
                  ModeOff, "surplus_dwell_pending")

DecideFromIdleWrongLater(now, surplus, tm, enable) ==
    IF surplus < StartThresholdW
    THEN Decision("idle", NoTimers, ModeOff, "surplus_below_start")
    ELSE IF tm.crossedUpAt # 0 /\ now - tm.crossedUpAt > StartDwell
    THEN Decision("charging", NoTimers, enable, "surplus_charging")
    ELSE Decision("surplus_pending",
                  UpSince(IF tm.crossedUpAt = 0 THEN now ELSE tm.crossedUpAt),
                  ModeOff, "surplus_dwell_pending")

DecideFromIdle(now, surplus, tm, enable) ==
    IF surplus < StartThresholdW
    THEN Decision("idle", NoTimers, ModeOff, "surplus_below_start")
    ELSE IF tm.crossedUpAt = 0
    THEN Decision("surplus_pending", UpSince(now), ModeOff, "surplus_dwell_start")
    ELSE IF now - tm.crossedUpAt >= StartDwell
    THEN Decision("charging", NoTimers, enable, "surplus_charging")
    ELSE Decision("surplus_pending", UpSince(tm.crossedUpAt), ModeOff,
                  "surplus_dwell_pending")

(* A recovering surplus does not reset the stop timer.                     *)
DecideFromChargingWrongKeeps(now, surplus, tm, enable) ==
    IF surplus >= StopThresholdW
    THEN Decision("charging", tm, enable, "charging")
    ELSE IF tm.crossedDownAt # 0 /\ now - tm.crossedDownAt >= StopDwell
    THEN Decision("idle", NoTimers, ModeOff, "stop_low")
    ELSE Decision("stop_pending",
                  DownSince(IF tm.crossedDownAt = 0 THEN now ELSE tm.crossedDownAt),
                  enable, "stop_dwell_pending")

DecideFromCharging(now, surplus, tm, enable) ==
    IF surplus >= StopThresholdW
    THEN Decision("charging", NoTimers, enable, "charging")
    ELSE IF tm.crossedDownAt = 0
    THEN Decision("stop_pending", DownSince(now), enable, "stop_dwell_start")
    ELSE IF now - tm.crossedDownAt >= StopDwell
    THEN Decision("idle", NoTimers, ModeOff, "stop_low")
    ELSE Decision("stop_pending", DownSince(tm.crossedDownAt), enable,
                  "stop_dwell_pending")

(* Decide: the rules in strict priority order, the first match wins.       *)
Decide(now, m, s, st, tm) ==
    IF m.stale
    THEN Decision("failsafe", NoTimers, ModeOff, "stale_off")
    ELSE IF OverrideActive(now, s) /\ s.override = "off"
    THEN Decision("idle", NoTimers, ModeOff, "override_off")
    ELSE IF OverrideActive(now, s) /\ s.override = "on"
    THEN Decision("charging", NoTimers, EffectiveMode(s), "override_on")
    ELSE IF ~m.ready
    THEN Decision("idle", NoTimers, ModeOff, "awaiting_data")
    ELSE IF ~m.connected
    THEN Decision("idle", NoTimers, ModeOff, "no_vehicle")
    ELSE IF m.vehicleSoC >= CapTarget(s)
    THEN Decision("soc_reached", NoTimers, ModeOff, "soc_cap")
    ELSE IF st = "soc_reached" /\ m.vehicleSoC >= ResumeBelow(s)
    THEN Decision("soc_reached", NoTimers, ModeOff, "soc_latch")
    ELSE IF Latched(s)
    THEN DecideLatch(now, m, s, st, tm)
    ELSE IF ChargingState(st)
    THEN DecideFromCharging(now, Surplus(m), tm, EffectiveMode(s))
    ELSE DecideFromIdle(now, Surplus(m), tm, EffectiveMode(s))
=============================================================================
