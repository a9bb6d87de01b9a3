---------------------------- MODULE DecisionLoop ----------------------------
(***************************************************************************)
(* The controller's decision loop (internal/controller/controller.go) with *)
(* the operator's requests racing it.                                      *)
(*                                                                         *)
(* A tick holds c.mu twice: it copies the operator's settings, runs the    *)
(* pure engine on the copy with the lock released, and takes the lock      *)
(* again to store the decision and to clear an override it found expired.  *)
(* TickRead and TickCommit are those two critical sections; SetOverride    *)
(* and the Set... requests of the web handlers may run between them.       *)
(* Reading the clock and the evcc snapshot just before the first section   *)
(* touches nothing the requests write, so it is part of TickRead.          *)
(*                                                                         *)
(* The unit of time is the decision interval.  `due' is the capacity-one   *)
(* channel of time.Ticker: a tick that is still running when the next one  *)
(* fires finds it waiting, and further ones are dropped.                   *)
(*                                                                         *)
(* The published mode and limit are Actuation's, the sessions Sessions',   *)
(* and the write of a setting to the database (which precedes the update   *)
(* of memory modelled here) Settings'.                                     *)
(***************************************************************************)
EXTENDS Policy

CONSTANTS
    Readings,           \* the metrics a tick may find in the evcc snapshot
    OverrideRequests,   \* the bodies of POST /api/override
    PowerRequests,      \* charge powers asked for
    ProfileRequests,    \* auto profiles asked for
    ThresholdRequests,  \* start thresholds asked for
    TargetRequests,     \* target SoCs asked for
    NoTick,             \* "no tick in flight"
    MaxNow,             \* bound on the clock
    MaxDisturbances     \* bound on requests and restarts

ASSUME RequestsTyped ==
    /\ Readings \subseteq Metrics
    /\ OverrideRequests \subseteq
          [mode : Overrides, hours : Nat, capBypass : BOOLEAN, capBypassSoC : Int]
    /\ ThresholdRequests \subseteq Int
    /\ TargetRequests \subseteq Int
    /\ MaxNow \in Nat /\ MaxDisturbances \in Nat

VARIABLES
    now,       \* the clock
    due,       \* the ticker's channel holds a tick
    everReady, \* the required metrics have been seen once by this process
    ctrl,      \* c.ctrl, the operator's runtime settings
    state,     \* c.state
    timers,    \* c.timers
    mode,      \* c.lastDecision.DesiredMode ("" before the first tick)
    limit,     \* the limitSoc target of the last tick (0 before the first)
    tick,      \* what the tick in flight read: its time, metrics and settings
    hist,      \* history kept for the properties only, see below
    disturbed  \* requests and restarts so far

vars == <<now, due, everReady, ctrl, state, timers, mode, limit, tick, hist,
          disturbed>>

-----------------------------------------------------------------------------
ControlState == [override : Overrides, overrideUntil : Nat,
                 capBypass : BOOLEAN, capBypassSoC : Int,
                 chargePower : EnableModes, autoProfile : Profiles,
                 startThresholdW : [LatchProfiles -> Int],
                 targetSoC : [LatchProfiles -> Int]]

(* New: the configured defaults; an absent map entry reads as zero.        *)
NewControlState ==
    [override |-> "auto", overrideUntil |-> 0,
     capBypass |-> FALSE, capBypassSoC |-> 0,
     chargePower |-> EnableMode, autoProfile |-> DefaultProfile,
     startThresholdW |-> [p \in LatchProfiles |-> 0],
     targetSoC |-> [p \in LatchProfiles |-> 0]]

(* One map entry for both latch profiles.                                  *)
OwnOverrideWrongShared(f, profile) ==
    IF profile \in LatchProfiles THEN f[PowerLatch] ELSE 0

OwnOverride(f, profile) == IF profile \in LatchProfiles THEN f[profile] ELSE 0

(* The operator's part of InputsFromSnapshot, with latchOverrides.         *)
SettingsOf(c) ==
    [override |-> c.override, overrideUntil |-> c.overrideUntil,
     capBypass |-> c.capBypass, capBypassSoC |-> c.capBypassSoC,
     chargePower |-> c.chargePower, autoProfile |-> c.autoProfile,
     startThresholdW |-> OwnOverride(c.startThresholdW, c.autoProfile),
     targetSoC |-> OwnOverride(c.targetSoC, c.autoProfile)]

Ticks == [at : Nat, metrics : Metrics, ctrl : ControlState]

ASSUME NoTickIsNoTick == NoTick \notin Ticks

-----------------------------------------------------------------------------
(* History.  It is a function of what the ticks observed, never of the     *)
(* state or the timers of the controller:                                  *)
(*   upSince    since when every tick allowed charging and saw the trigger *)
(*              at or above its threshold (0: the last tick did not)       *)
(*   downSince  likewise, the surplus below the stop threshold             *)
(*   capped     the cap was reached and the SoC has not been seen below    *)
(*              the resume level since, in an unbroken run of automatic    *)
(*              ticks                                                      *)
Histories == [upSince : Nat, downSince : Nat, capped : BOOLEAN]
NoHistory == [upSince |-> 0, downSince |-> 0, capped |-> FALSE]

(* The tick falls under automatic control: nothing above the SoC rule of   *)
(* the priority list applies.                                              *)
Automatic(t) ==
    /\ ~t.metrics.stale /\ t.metrics.ready /\ t.metrics.connected
    /\ ~OverrideActive(t.at, SettingsOf(t.ctrl))

RunSince(since, at, holds) ==
    IF ~holds THEN 0 ELSE IF since = 0 THEN at ELSE since

CappedAfter(t) ==
    LET s == SettingsOf(t.ctrl)
    IN  /\ Automatic(t)
        /\ \/ t.metrics.vehicleSoC >= CapTarget(s)
           \/ hist.capped /\ t.metrics.vehicleSoC >= ResumeBelow(s)

UpAfter(t) ==
    LET s == SettingsOf(t.ctrl)
    IN  RunSince(hist.upSince, t.at,
                 /\ Automatic(t) /\ ~CappedAfter(t)
                 /\ Trigger(t.metrics, s) >= TriggerThreshold(s))

DownAfter(t) ==
    RunSince(hist.downSince, t.at,
             /\ Automatic(t) /\ ~CappedAfter(t)
             /\ ~Latched(SettingsOf(t.ctrl))
             /\ Surplus(t.metrics) < StopThresholdW)

HeldFor(since, at, dwell) == since # 0 /\ at - since >= dwell

HistoryAfter(t) ==
    [upSince |-> UpAfter(t), downSince |-> DownAfter(t),
     capped |-> CappedAfter(t)]

-----------------------------------------------------------------------------
Init ==
    /\ now = 1 /\ due = TRUE /\ everReady = FALSE
    /\ ctrl = NewControlState
    /\ state = "idle" /\ timers = NoTimers
    /\ mode = Unset /\ limit = 0
    /\ tick = NoTick
    /\ hist = NoHistory /\ disturbed = 0

Elapse ==
    /\ now < MaxNow
    /\ now' = now + 1 /\ due' = TRUE
    /\ UNCHANGED <<everReady, ctrl, state, timers, mode, limit, tick, hist,
                   disturbed>>

(* First critical section: the inputs of a tick.  The metrics the engine   *)
(* needs are never unseen, so a process that was ready stays ready.        *)
TickRead ==
    /\ tick = NoTick /\ due
    /\ \E m \in Readings :
          /\ everReady => m.ready
          /\ everReady' = m.ready
          /\ tick' = [at |-> now, metrics |-> m, ctrl |-> ctrl]
    /\ due' = FALSE
    /\ UNCHANGED <<now, ctrl, state, timers, mode, limit, hist, disturbed>>

(* ...Wrong... definitions are faulty variants of the one that follows.    *)
ExpiredWrongNever(t) == FALSE

(* The override the tick read has run out; it is still the one in memory.  *)
Expired(t) ==
    /\ t.ctrl.override # "auto"
    /\ ~OverrideActive(t.at, SettingsOf(t.ctrl))

SameOverrideWrongUnchecked(t) == TRUE

SameOverride(t) ==
    /\ ctrl.override = t.ctrl.override
    /\ ctrl.overrideUntil = t.ctrl.overrideUntil
    /\ ctrl.capBypass = t.ctrl.capBypass

ClearedWrongKeepsBypass(c) == [c EXCEPT !.override = "auto", !.overrideUntil = 0]

Cleared(c) ==
    [c EXCEPT !.override = "auto", !.overrideUntil = 0,
              !.capBypass = FALSE, !.capBypassSoC = 0]

(* The previous state is not carried over.                                 *)
DecisionOfWrongForgetful(t) ==
    Decide(t.at, t.metrics, SettingsOf(t.ctrl), "idle", timers)

DecisionOf(t) == Decide(t.at, t.metrics, SettingsOf(t.ctrl), state, timers)

(* Second critical section: store the decision; clear the override the     *)
(* tick found expired, but only if the operator has not replaced it.       *)
TickCommit ==
    /\ tick # NoTick
    /\ state' = DecisionOf(tick).state
    /\ timers' = DecisionOf(tick).timers
    /\ mode' = DecisionOf(tick).desiredMode
    /\ limit' = LimitSoCTarget(tick.at, SettingsOf(tick.ctrl))
    /\ ctrl' = IF Expired(tick) /\ SameOverride(tick) THEN Cleared(ctrl) ELSE ctrl
    /\ hist' = HistoryAfter(tick)
    /\ tick' = NoTick
    /\ UNCHANGED <<now, due, everReady, disturbed>>

-----------------------------------------------------------------------------
(* Requests of the operator and restarts, at any time before the last      *)
(* tick of the bounded clock.                                              *)
Disturb ==
    /\ now < MaxNow /\ disturbed < MaxDisturbances
    /\ disturbed' = disturbed + 1

Request(c) ==
    /\ Disturb
    /\ ctrl' = c
    /\ UNCHANGED <<now, due, everReady, state, timers, mode, limit, tick, hist>>

(* POST /api/override, then SetOverride.  A bound on the expiry keeps it   *)
(* within the modelled clock.                                              *)
SetOverride ==
    \E r \in OverrideRequests :
       LET bypass == r.capBypass /\ r.mode = "on"
           until  == IF r.hours > 0 THEN now + r.hours ELSE 0
       IN  /\ until =< MaxNow
           /\ Request([ctrl EXCEPT
                 !.override = r.mode, !.overrideUntil = until,
                 !.capBypass = bypass,
                 !.capBypassSoC = IF bypass THEN r.capBypassSoC ELSE 0])

SetChargePower ==
    \E p \in PowerRequests \cap EnableModes :
       Request([ctrl EXCEPT !.chargePower = p])

SetAutoProfile ==
    \E p \in ProfileRequests \cap Profiles :
       Request([ctrl EXCEPT !.autoProfile = p])

SetStartThreshold ==
    \E w \in ThresholdRequests :
       /\ w > 0 /\ w % 100 = 0 /\ w > StopThresholdW
       /\ ctrl.autoProfile \in LatchProfiles
       /\ Request([ctrl EXCEPT !.startThresholdW[ctrl.autoProfile] = w])

SetTargetSoC ==
    \E pct \in TargetRequests :
       /\ pct \in 50..100 /\ pct % 10 = 0
       /\ ctrl.autoProfile \in LatchProfiles
       /\ Request([ctrl EXCEPT !.targetSoC[ctrl.autoProfile] = pct])

(* A crash and restart: New and the load... functions.  The settings come  *)
(* back from the database, the override and the FSM do not.                *)
Restart ==
    /\ Disturb
    /\ ctrl' = Cleared(ctrl)
    /\ state' = "idle" /\ timers' = NoTimers
    /\ mode' = Unset /\ limit' = 0
    /\ tick' = NoTick /\ due' = TRUE /\ everReady' = FALSE
    /\ hist' = NoHistory
    /\ UNCHANGED now

Operator == \/ SetOverride \/ SetChargePower \/ SetAutoProfile
            \/ SetStartThreshold \/ SetTargetSoC

Next == Elapse \/ TickRead \/ TickCommit \/ Operator \/ Restart

(* The ticker fires, and the loop goroutine serves it: nothing a tick does *)
(* blocks forever (a publish gives up after three seconds).                *)
Fairness == WF_vars(Elapse) /\ WF_vars(TickRead) /\ WF_vars(TickCommit)

Spec == Init /\ [][Next]_vars /\ Fairness

-----------------------------------------------------------------------------
(* What the dashboard shows of the operator's settings at any moment: the  *)
(* effective values, resolved as the engine resolves them.                 *)
CapBypassTargetWrongCap(c) == IF c.capBypassSoC > 0 THEN c.capBypassSoC ELSE SoCCap

CapBypassTarget(c) == IF c.capBypassSoC > 0 THEN c.capBypassSoC ELSE SoCMax

(* Status, flattened by newStatusVM: the part of it that is about the cap. *)
Status(c) ==
    [capBypass |-> c.capBypass, capBypassTarget |-> CapBypassTarget(c),
     autoProfileIsLatch |-> Latched(SettingsOf(c)),
     targetSoC |-> EffectiveTargetSoC(SettingsOf(c)), soCCap |-> SoCCap]

-----------------------------------------------------------------------------
(* Properties.                                                             *)

(* Every variable has its type, and a tick in flight is not from the future. *)
TypeOK ==
    /\ now \in Nat /\ now >= 1
    /\ due \in BOOLEAN /\ everReady \in BOOLEAN
    /\ ctrl \in ControlState
    /\ state \in States /\ timers \in Timers
    /\ mode \in Modes \cup {Unset} /\ limit \in Int
    /\ tick \in Ticks \cup {NoTick}
    /\ tick # NoTick => tick.at >= 1 /\ tick.at =< now
    /\ hist \in Histories
    /\ disturbed \in Nat

(* A dwell timer runs exactly in its own pending state, and never both at  *)
(* once: no interruption (stale data, an override, an unplug, a restart)   *)
(* leaves a timer behind that a later dwell would be measured from.        *)
TimersMatchState ==
    /\ (timers.crossedUpAt # 0) <=> (state = "surplus_pending")
    /\ (timers.crossedDownAt # 0) <=> (state = "stop_pending")

(* While charging is off the start timer is exactly the length of the run  *)
(* of ticks that allowed charging and saw enough power; while it is on,    *)
(* the stop timer is exactly the run that saw too little; and the FSM sits *)
(* in soc_reached exactly while the cap latch is due.  The controller      *)
(* keeps no memory of the past but its state and two times, across every   *)
(* interruption, change of profile or threshold, and this is enough.       *)
TimersAreObservedRuns ==
    /\ ~ChargingState(state) => timers.crossedUpAt = hist.upSince
    /\ ChargingState(state) => timers.crossedDownAt = hist.downSince
    /\ hist.capped <=> state = "soc_reached"

(* Start dwell: automatic control starts charging only when every tick for *)
(* the whole start dwell allowed it and saw the trigger of the profile in  *)
(* force at its threshold, whatever the operator changed meanwhile.        *)
StartsOnlyAfterDwell ==
    [][ (TickCommit /\ Automatic(tick)
            /\ ~ChargingState(state) /\ ChargingState(state'))
        => HeldFor(hist'.upSince, tick.at, StartDwell) ]_vars

(* ... and it does not start later than that: a tick after a full dwell of *)
(* sufficient trigger commands charging.  (Two ticks are the least even    *)
(* for a dwell of zero: the first one only arms the timer.)                *)
StartsPromptly ==
    [][ (TickCommit /\ HeldFor(hist'.upSince, tick.at, StartDwell)
            /\ tick.at > hist'.upSince)
        => mode' # ModeOff ]_vars

(* Stop dwell: automatic control takes charging away for lack of surplus   *)
(* only after every tick of the whole stop dwell saw the surplus below the *)
(* stop threshold; any other reason is the cap, stale data or an unplug.   *)
StopsOnlyAfterDwell ==
    [][ (TickCommit /\ Automatic(tick) /\ ~hist'.capped
            /\ ChargingState(state) /\ ~ChargingState(state'))
        => HeldFor(hist'.downSince, tick.at, StopDwell) ]_vars

(* The SoC latch: within an unbroken run of automatic ticks, once the cap  *)
(* of the active profile was reached, no tick commands charging until one  *)
(* sees the SoC below the resume level.                                    *)
CapLatchHolds == hist.capped => mode = ModeOff

(* The backstop handed to evcc exceeds the configured cap only because the *)
(* operator asked for it: an active cap bypass, bounded by socMax, or the  *)
(* target he chose for the very profile in force.  A target left from      *)
(* another profile, or from before a switch back to surplus, never counts. *)
CapRaisedOnlyOnRequest ==
    [][ TickCommit /\ limit' > SoCCap =>
          LET c == tick.ctrl
          IN  \/ /\ c.override = "on" /\ c.capBypass /\ limit' =< SoCMax
                 /\ c.overrideUntil = 0 \/ tick.at < c.overrideUntil
              \/ c.autoProfile # SurplusProfile /\ limit' = c.targetSoC[c.autoProfile]
      ]_vars

(* A lifted backstop does not outlive the bypass or the target that lifted *)
(* it: whatever race ends either, a later tick computes a lower limit.     *)
LiftedLimitEnds ==
    (limit > SoCCap)
        ~> \/ limit =< SoCCap
           \/ ctrl.capBypass /\ (ctrl.overrideUntil = 0 \/ now < ctrl.overrideUntil)
           \/ ctrl.autoProfile # SurplusProfile /\ limit = ctrl.targetSoC[ctrl.autoProfile]

(* The cap the dashboard shows is the one evcc is told to enforce: when a  *)
(* tick ends and the operator has changed nothing meanwhile, the badge of  *)
(* a bypass, the target of a latch profile or the configured cap is the    *)
(* limit of the tick, also when the override expired under it.  A bypass   *)
(* target the slider does not offer is shown as asked for and not as       *)
(* bounded, and is left out.                                               *)
OnSlider(pct) == pct = 0 \/ (pct > SoCCap /\ pct =< SoCMax)

ShownCap(v) == IF v.capBypass THEN v.capBypassTarget
               ELSE IF v.autoProfileIsLatch THEN v.targetSoC ELSE v.soCCap

ShownCapIsEnforced ==
    [][ (TickCommit /\ tick.ctrl = ctrl /\ OnSlider(ctrl.capBypassSoC))
        => limit' = ShownCap(Status(ctrl')) ]_vars

(* An override the operator set is never discarded while it is in force:   *)
(* a tick that read an older, expired override and commits later leaves    *)
(* the newer one alone.                                                    *)
LiveOverrideSurvives ==
    [][ (TickCommit /\ OverrideActive(now, SettingsOf(ctrl)))
        => ctrl' = ctrl ]_vars

(* A cap bypass lives and dies with a force-on override, also when the     *)
(* expiry of one override races the request for the next.                  *)
BypassOnlyWithForceOn ==
    /\ ctrl.capBypass => ctrl.override = "on"
    /\ ctrl.capBypassSoC # 0 => ctrl.capBypass

(* An override with an expiry does not outlive it: automatic control       *)
(* returns unless the operator asks for something else.                    *)
OverrideEnds ==
    (ctrl.override # "auto" /\ ctrl.overrideUntil # 0)
        ~> (ctrl.override = "auto" \/ ctrl.overrideUntil = 0)

=============================================================================
