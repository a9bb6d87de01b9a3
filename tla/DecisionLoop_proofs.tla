------------------------ MODULE DecisionLoop_proofs ------------------------
(***************************************************************************)
(* Theorems about the decision loop, for every configuration Validate      *)
(* accepts, every set of readings and requests, and no bound on the clock  *)
(* or on the number of disturbances other than the constants themselves.   *)
(*                                                                         *)
(* The argument is one inductive invariant,                                *)
(*     IInv == TypeOK /\ TimersMatchState /\ TimersAreObservedRuns         *)
(*                    /\ CapLatchHolds,                                    *)
(* preserved by every action; the dwell properties are facts about a       *)
(* single TickCommit from a state that satisfies it.                       *)
(***************************************************************************)
EXTENDS DecisionLoop, TLAPS

-----------------------------------------------------------------------------
(* Facts about the engine.                                                 *)

(* Decide is total on typed inputs and returns a typed decision.           *)
LEMMA DecideTyped ==
    ASSUME NEW t \in Nat, NEW m \in Metrics, NEW s \in Settings,
           NEW st \in States, NEW tm \in Timers
    PROVE  /\ Decide(t, m, s, st, tm).state \in States
           /\ Decide(t, m, s, st, tm).timers \in Timers
           /\ Decide(t, m, s, st, tm).desiredMode \in Modes
BY ConfigValid DEF Decide, DecideLatch, DecideFromIdle, DecideFromCharging,
   Decision, NoTimers, UpSince, DownSince, Metrics, Settings, States, Timers,
   Modes, EnableModes, ModeOff, EffectiveMode, Unset, Overrides

(* A decision carries the timer of its own pending state and no other.     *)
TimersFit(d) == /\ d.timers.crossedUpAt # 0 <=> d.state = "surplus_pending"
                /\ d.timers.crossedDownAt # 0 <=> d.state = "stop_pending"

(* The four kinds of decision the engine takes fit their timers.           *)
LEMMA TimersFitDecision ==
    ASSUME NEW st, NEW md, NEW code, NEW t \in Nat, t # 0
    PROVE  /\ st \notin {"surplus_pending", "stop_pending"}
                => TimersFit(Decision(st, NoTimers, md, code))
           /\ TimersFit(Decision("surplus_pending", UpSince(t), md, code))
           /\ TimersFit(Decision("stop_pending", DownSince(t), md, code))
BY DEF TimersFit, Decision, NoTimers, UpSince, DownSince

(* Whatever it is given, the engine keeps a timer only with the pending    *)
(* state that timer belongs to.                                            *)
LEMMA DecideTimers ==
    ASSUME NEW t \in Nat, t >= 1, NEW m, NEW s,
           NEW st \in States, NEW tm \in Timers
    PROVE  TimersFit(Decide(t, m, s, st, tm))
<1>1. t # 0
  OBVIOUS
<1>2. tm.crossedUpAt \in Nat /\ tm.crossedDownAt \in Nat
  BY DEF Timers
<1>3. TimersFit(DecideLatch(t, m, s, st, tm))
  BY <1>1, <1>2, TimersFitDecision DEF DecideLatch
<1>4. ASSUME NEW p, NEW e PROVE TimersFit(DecideFromIdle(t, p, tm, e))
  BY <1>1, <1>2, TimersFitDecision DEF DecideFromIdle
<1>5. ASSUME NEW p, NEW e PROVE TimersFit(DecideFromCharging(t, p, tm, e))
  BY <1>1, <1>2, TimersFitDecision DEF DecideFromCharging
<1> QED
  BY <1>1, <1>3, <1>4, <1>5, TimersFitDecision DEF Decide

(* The limit target is an integer.                                         *)
LEMMA LimitTyped ==
    ASSUME NEW t \in Nat, NEW s \in Settings
    PROVE  LimitSoCTarget(t, s) \in Int
BY ConfigValid DEF LimitSoCTarget, EffectiveTargetSoC, Settings

(* The settings a tick passes to the engine are typed.                     *)
LEMMA SettingsTyped ==
    ASSUME NEW c \in ControlState
    PROVE  SettingsOf(c) \in Settings
<1>1. OwnOverride(c.startThresholdW, c.autoProfile) \in Int
  BY DEF ControlState, OwnOverride
<1>2. OwnOverride(c.targetSoC, c.autoProfile) \in Int
  BY DEF ControlState, OwnOverride
<1> QED
  BY <1>1, <1>2 DEF ControlState, Settings, SettingsOf

-----------------------------------------------------------------------------
(* The structure of Decide: which rule applies, and what each may answer.  *)

AutoRules(t, m, s) ==
    ~m.stale /\ m.ready /\ m.connected /\ ~OverrideActive(t, s)
CapHolds(m, s, st) ==
    \/ m.vehicleSoC >= CapTarget(s)
    \/ st = "soc_reached" /\ m.vehicleSoC >= ResumeBelow(s)

(* Above the SoC rule of the priority list no timer survives.              *)
LEMMA DecideNotAutomatic ==
    ASSUME NEW t, NEW m \in Metrics, NEW s \in Settings, NEW st, NEW tm,
           ~AutoRules(t, m, s)
    PROVE  /\ Decide(t, m, s, st, tm).state \in {"failsafe", "idle", "charging"}
           /\ Decide(t, m, s, st, tm).timers = NoTimers
BY DEF AutoRules, Decide, Decision, Settings, Overrides, Metrics, OverrideActive

(* With the cap in force the engine commands off and forgets the timers.   *)
LEMMA DecideCapped ==
    ASSUME NEW t, NEW m, NEW s, NEW st, NEW tm,
           AutoRules(t, m, s), CapHolds(m, s, st)
    PROVE  /\ Decide(t, m, s, st, tm).state = "soc_reached"
           /\ Decide(t, m, s, st, tm).timers = NoTimers
           /\ Decide(t, m, s, st, tm).desiredMode = ModeOff
BY DEF AutoRules, CapHolds, Decide, Decision

(* Below the cap the decision is that of the profile in force.             *)
LEMMA DecideByProfile ==
    ASSUME NEW t, NEW m, NEW s, NEW st, NEW tm,
           AutoRules(t, m, s), ~CapHolds(m, s, st)
    PROVE  Decide(t, m, s, st, tm) =
              IF Latched(s) THEN DecideLatch(t, m, s, st, tm)
              ELSE IF ChargingState(st)
              THEN DecideFromCharging(t, Surplus(m), tm, EffectiveMode(s))
              ELSE DecideFromIdle(t, Surplus(m), tm, EffectiveMode(s))
BY DEF AutoRules, CapHolds, Decide

(* The quantities compared with the thresholds are integers.               *)
LEMMA PowerTyped ==
    ASSUME NEW m \in Metrics, NEW s \in Settings
    PROVE  /\ Surplus(m) \in Int /\ Trigger(m, s) \in Int
           /\ TriggerThreshold(s) \in Int /\ EffectiveStartThreshold(s) \in Int
BY ConfigValid DEF Metrics, Settings, Surplus, Trigger, TriggerThreshold,
   EffectiveStartThreshold

-----------------------------------------------------------------------------
(* Types.                                                                  *)

(* Replacing the override fields by typed values keeps the settings typed. *)
LEMMA OverrideFieldsTyped ==
    ASSUME NEW c \in ControlState, NEW o \in Overrides, NEW u \in Nat,
           NEW b \in BOOLEAN, NEW n \in Int
    PROVE  [c EXCEPT !.override = o, !.overrideUntil = u,
               !.capBypass = b, !.capBypassSoC = n] \in ControlState
BY DEF ControlState

(* Clearing an override keeps the settings typed.                          *)
LEMMA ClearedTyped ==
    ASSUME NEW c \in ControlState
    PROVE  Cleared(c) \in ControlState
<1>1. "auto" \in Overrides /\ 0 \in Nat /\ FALSE \in BOOLEAN /\ 0 \in Int
  BY DEF Overrides
<1> QED
  BY <1>1, OverrideFieldsTyped, Zenon DEF Cleared

(* The history a commit records is typed.                                  *)
LEMMA HistoryTyped ==
    ASSUME NEW t \in Ticks, hist \in Histories
    PROVE  HistoryAfter(t) \in Histories
<1>1. t.at \in Nat
  BY DEF Ticks
<1>2. UpAfter(t) \in Nat /\ DownAfter(t) \in Nat
  BY <1>1 DEF UpAfter, DownAfter, RunSince, Histories
<1>3. CappedAfter(t) \in BOOLEAN
  BY DEF CappedAfter, Automatic
<1> QED
  BY <1>2, <1>3 DEF HistoryAfter, Histories, HeldFor

(* What one commit stores, for a tick in flight of a typed state.          *)
LEMMA CommitTyped ==
    ASSUME TypeOK, TickCommit
    PROVE  /\ tick \in Ticks /\ tick.at \in Nat /\ tick.at >= 1
           /\ tick.at =< now
           /\ tick.metrics \in Metrics
           /\ SettingsOf(tick.ctrl) \in Settings
           /\ state \in States /\ timers \in Timers
BY SettingsTyped DEF TypeOK, TickCommit, Ticks

(* The initial state is typed.                                             *)
LEMMA InitTyped == Init => TypeOK
<1> SUFFICES ASSUME Init PROVE TypeOK
  OBVIOUS
<1>1. ctrl \in ControlState
  BY ConfigValid DEF Init, NewControlState, ControlState, Overrides
<1>2. hist \in Histories
  BY DEF Init, NoHistory, Histories
<1>3. state \in States /\ timers \in Timers
  BY DEF Init, States, Timers, NoTimers
<1>4. due \in BOOLEAN /\ everReady \in BOOLEAN
  BY Zenon DEF Init
<1> QED
  BY <1>1, <1>2, <1>3, <1>4 DEF Init, TypeOK

(* A request replaces the settings by typed settings and nothing else.     *)
LEMMA OperatorTyped ==
    ASSUME TypeOK, Operator
    PROVE  /\ ctrl' \in ControlState /\ disturbed' \in Nat
           /\ UNCHANGED <<now, due, everReady, state, timers, mode, limit, tick, hist>>
<1> USE RequestsTyped
<1>1. ctrl \in ControlState /\ disturbed \in Nat /\ now \in Nat
  BY DEF TypeOK
<1>2. CASE SetOverride
  <2>1. PICK r \in OverrideRequests :
           LET bypass == r.capBypass /\ r.mode = "on"
               until  == IF r.hours > 0 THEN now + r.hours ELSE 0
           IN  Request([ctrl EXCEPT
                  !.override = r.mode, !.overrideUntil = until,
                  !.capBypass = bypass,
                  !.capBypassSoC = IF bypass THEN r.capBypassSoC ELSE 0])
    BY <1>2 DEF SetOverride
  <2> DEFINE bypass == r.capBypass /\ r.mode = "on"
             until  == IF r.hours > 0 THEN now + r.hours ELSE 0
             soc    == IF bypass THEN r.capBypassSoC ELSE 0
  <2>2. r.mode \in Overrides /\ r.hours \in Nat /\ r.capBypass \in BOOLEAN
        /\ r.capBypassSoC \in Int
    BY <2>1
  <2>3. until \in Nat /\ bypass \in BOOLEAN /\ soc \in Int
    BY <2>2, <1>1
  <2>4. Request([ctrl EXCEPT !.override = r.mode, !.overrideUntil = until,
                   !.capBypass = bypass, !.capBypassSoC = soc])
    BY <2>1
  <2> HIDE DEF until, bypass, soc
  <2>5. [ctrl EXCEPT !.override = r.mode, !.overrideUntil = until,
            !.capBypass = bypass, !.capBypassSoC = soc] \in ControlState
    BY <1>1, <2>2, <2>3, OverrideFieldsTyped
  <2> QED
    BY <1>1, <2>4, <2>5 DEF Request, Disturb
<1>3. CASE SetChargePower
  BY <1>1, <1>3 DEF SetChargePower, Request, Disturb, ControlState
<1>4. CASE SetAutoProfile
  BY <1>1, <1>4 DEF SetAutoProfile, Request, Disturb, ControlState
<1>5. CASE SetStartThreshold
  <2>1. PICK w \in Int : Request([ctrl EXCEPT !.startThresholdW[ctrl.autoProfile] = w])
    BY <1>5 DEF SetStartThreshold
  <2>2. [ctrl EXCEPT !.startThresholdW[ctrl.autoProfile] = w] \in ControlState
    BY <1>1 DEF ControlState
  <2> QED
    BY <1>1, <2>1, <2>2 DEF Request, Disturb
<1>6. CASE SetTargetSoC
  <2>1. PICK w \in Int : Request([ctrl EXCEPT !.targetSoC[ctrl.autoProfile] = w])
    BY <1>6 DEF SetTargetSoC
  <2>2. [ctrl EXCEPT !.targetSoC[ctrl.autoProfile] = w] \in ControlState
    BY <1>1 DEF ControlState
  <2> QED
    BY <1>1, <2>1, <2>2 DEF Request, Disturb
<1> QED
  BY <1>2, <1>3, <1>4, <1>5, <1>6 DEF Operator

(* Every step of the loop, the operator and a restart keeps the types.     *)
LEMMA NextTyped == TypeOK /\ [Next]_vars => TypeOK'
<1> SUFFICES ASSUME TypeOK, [Next]_vars PROVE TypeOK'
  OBVIOUS
<1>1. CASE Elapse
  BY <1>1 DEF TypeOK, Elapse, Ticks
<1>2. CASE TickRead
  <2>1. PICK m \in Readings : everReady' = m.ready
           /\ tick' = [at |-> now, metrics |-> m, ctrl |-> ctrl]
    BY <1>2 DEF TickRead
  <2>2. m \in Metrics
    BY RequestsTyped
  <2>3. m.ready \in BOOLEAN
    BY <2>2 DEF Metrics
  <2>4. tick' \in Ticks /\ tick'.at = now
    BY <2>1, <2>2 DEF TypeOK, Ticks
  <2>5. due' \in BOOLEAN
    BY <1>2, Zenon DEF TickRead
  <2> QED
    BY <1>2, <2>1, <2>3, <2>4, <2>5 DEF TypeOK, TickRead
<1>3. CASE TickCommit
  <2>1. state' \in States /\ timers' \in Timers /\ mode' \in Modes
    BY <1>3, CommitTyped, DecideTyped DEF TickCommit, DecisionOf
  <2>2. limit' \in Int
    BY <1>3, CommitTyped, LimitTyped DEF TickCommit
  <2>3. ctrl' \in ControlState
    BY <1>3, ClearedTyped DEF TickCommit, TypeOK
  <2>4. hist' \in Histories
    BY <1>3, CommitTyped, HistoryTyped DEF TickCommit, TypeOK
  <2> QED
    BY <1>3, <2>1, <2>2, <2>3, <2>4 DEF TickCommit, TypeOK
<1>4. CASE Operator
  BY <1>4, OperatorTyped DEF TypeOK
<1>5. CASE Restart
  <2>1. ctrl' \in ControlState
    BY <1>5, ClearedTyped DEF Restart, TypeOK
  <2>2. hist' \in Histories
    BY <1>5 DEF Restart, TypeOK, Histories, NoHistory
  <2>3. state' \in States /\ timers' \in Timers /\ disturbed' \in Nat
    BY <1>5 DEF Restart, TypeOK, States, Timers, NoTimers, Disturb
  <2>4. due' \in BOOLEAN /\ everReady' \in BOOLEAN
    BY <1>5, Zenon DEF Restart
  <2> QED
    BY <1>5, <2>1, <2>2, <2>3, <2>4 DEF Restart, TypeOK
<1>6. CASE UNCHANGED vars
  BY <1>6 DEF vars, TypeOK
<1> QED
  BY <1>1, <1>2, <1>3, <1>4, <1>5, <1>6 DEF Next

-----------------------------------------------------------------------------
(* The inductive invariant.                                                *)

IInv == TypeOK /\ TimersMatchState /\ TimersAreObservedRuns /\ CapLatchHolds

(* The inductive invariant holds initially.                                *)
LEMMA InitIInv == Init => IInv
<1> SUFFICES ASSUME Init PROVE IInv
  OBVIOUS
<1>1. TimersMatchState /\ TimersAreObservedRuns /\ CapLatchHolds
  BY DEF Init, TimersMatchState, TimersAreObservedRuns, CapLatchHolds,
     NoTimers, NoHistory, ChargingState
<1> QED
  BY <1>1, InitTyped DEF IInv

(* The cap rule of the engine is the observed cap latch.                   *)
LEMMA CapRuleIsCapped ==
    ASSUME TimersAreObservedRuns, NEW t
    PROVE  CappedAfter(t) <=>
             /\ AutoRules(t.at, t.metrics, SettingsOf(t.ctrl))
             /\ CapHolds(t.metrics, SettingsOf(t.ctrl), state)
BY DEF TimersAreObservedRuns, CappedAfter, Automatic, AutoRules, CapHolds

(* One commit re-establishes the correspondence of timers and history.     *)
LEMMA CommitRuns ==
    ASSUME IInv, TickCommit
    PROVE  TimersAreObservedRuns' /\ CapLatchHolds'
<1> DEFINE t == tick
           m == tick.metrics
           s == SettingsOf(tick.ctrl)
           d == Decide(t.at, m, s, state, timers)
<1>1. /\ t.at \in Nat /\ t.at >= 1 /\ m \in Metrics /\ s \in Settings
      /\ state \in States /\ timers \in Timers
  BY CommitTyped DEF IInv
<1>2. /\ state' = d.state /\ timers' = d.timers /\ mode' = d.desiredMode
      /\ hist'.upSince = UpAfter(t) /\ hist'.downSince = DownAfter(t)
      /\ hist'.capped = CappedAfter(t)
  BY DEF TickCommit, DecisionOf, HistoryAfter
<1>3. CappedAfter(t) <=> AutoRules(t.at, m, s) /\ CapHolds(m, s, state)
  BY CapRuleIsCapped DEF IInv
<1>4. Automatic(t) <=> AutoRules(t.at, m, s)
  BY DEF Automatic, AutoRules
<1>5. /\ ~ChargingState(state) => timers.crossedUpAt = hist.upSince
      /\ ChargingState(state) => timers.crossedDownAt = hist.downSince
  BY DEF IInv, TimersAreObservedRuns
<1>6. NoTimers.crossedUpAt = 0 /\ NoTimers.crossedDownAt = 0
  BY DEF NoTimers
<1>7. CASE ~AutoRules(t.at, m, s)
  <2>1. UpAfter(t) = 0 /\ DownAfter(t) = 0 /\ ~CappedAfter(t)
    BY <1>3, <1>4, <1>7 DEF UpAfter, DownAfter, RunSince
  <2>2. d.state \in {"failsafe", "idle", "charging"} /\ d.timers = NoTimers
    BY <1>1, <1>7, DecideNotAutomatic
  <2> QED
    BY <1>2, <1>6, <2>1, <2>2 DEF TimersAreObservedRuns, CapLatchHolds
<1>8. CASE AutoRules(t.at, m, s) /\ CapHolds(m, s, state)
  <2>1. UpAfter(t) = 0 /\ DownAfter(t) = 0 /\ CappedAfter(t)
    BY <1>3, <1>8 DEF UpAfter, DownAfter, RunSince
  <2>2. d.state = "soc_reached" /\ d.timers = NoTimers /\ d.desiredMode = ModeOff
    BY <1>8, DecideCapped
  <2> QED
    BY <1>2, <1>6, <2>1, <2>2 DEF TimersAreObservedRuns, CapLatchHolds
<1>9. CASE AutoRules(t.at, m, s) /\ ~CapHolds(m, s, state)
  <2> DEFINE up   == Trigger(m, s) >= TriggerThreshold(s)
             down == ~Latched(s) /\ Surplus(m) < StopThresholdW
  <2>1. /\ ~CappedAfter(t)
        /\ UpAfter(t) = RunSince(hist.upSince, t.at, up)
        /\ DownAfter(t) = RunSince(hist.downSince, t.at, down)
    BY <1>3, <1>4, <1>9 DEF UpAfter, DownAfter, RunSince
  <2>2. /\ Surplus(m) \in Int /\ Trigger(m, s) \in Int
        /\ TriggerThreshold(s) \in Int /\ EffectiveStartThreshold(s) \in Int
    BY <1>1, PowerTyped
  <2>3. StartThresholdW \in Int /\ StopThresholdW \in Int
        /\ StopThresholdW < StartThresholdW
    BY ConfigValid
  <2>4. /\ timers.crossedUpAt \in Nat /\ timers.crossedDownAt \in Nat
        /\ hist.upSince \in Nat /\ hist.downSince \in Nat
    BY <1>1 DEF IInv, TypeOK, Timers, Histories
  <2>5. d.state # "soc_reached"
        /\ (~ChargingState(d.state) => d.timers.crossedUpAt = UpAfter(t))
        /\ (ChargingState(d.state) => d.timers.crossedDownAt = DownAfter(t))
    <3>1. CASE Latched(s)
      <4>1. d = DecideLatch(t.at, m, s, state, timers)
        BY <1>9, <3>1, DecideByProfile
      <4>2. TriggerThreshold(s) = EffectiveStartThreshold(s) /\ ~down
        BY <3>1 DEF TriggerThreshold
      <4> QED
        BY <1>1, <1>5, <1>6, <2>1, <2>2, <2>4, <4>1, <4>2
        DEF DecideLatch, Decision, UpSince, NoTimers, RunSince, ChargingState
    <3>2. CASE ~Latched(s) /\ ChargingState(state)
      <4>1. d = DecideFromCharging(t.at, Surplus(m), timers, EffectiveMode(s))
        BY <1>9, <3>2, DecideByProfile
      <4>2. TriggerThreshold(s) = StartThresholdW /\ Trigger(m, s) = Surplus(m)
        BY <3>2 DEF TriggerThreshold, Trigger, Latched, PowerLatch, SurplusProfile
      <4> QED
        BY <1>1, <1>5, <1>6, <2>1, <2>2, <2>3, <2>4, <3>2, <4>1, <4>2
        DEF DecideFromCharging, Decision, DownSince, NoTimers, RunSince, ChargingState
    <3>3. CASE ~Latched(s) /\ ~ChargingState(state)
      <4>1. d = DecideFromIdle(t.at, Surplus(m), timers, EffectiveMode(s))
        BY <1>9, <3>3, DecideByProfile
      <4>2. TriggerThreshold(s) = StartThresholdW /\ Trigger(m, s) = Surplus(m)
        BY <3>3 DEF TriggerThreshold, Trigger, Latched, PowerLatch, SurplusProfile
      <4> QED
        BY <1>1, <1>5, <1>6, <2>1, <2>2, <2>3, <2>4, <3>3, <4>1, <4>2
        DEF DecideFromIdle, Decision, UpSince, NoTimers, RunSince, ChargingState
    <3> QED
      BY <3>1, <3>2, <3>3
  <2> QED
    BY <1>2, <2>1, <2>5 DEF TimersAreObservedRuns, CapLatchHolds
<1> QED
  BY <1>7, <1>8, <1>9

(* Every step preserves the inductive invariant.                           *)
LEMMA NextIInv == IInv /\ [Next]_vars => IInv'
<1> SUFFICES ASSUME IInv, [Next]_vars PROVE IInv'
  OBVIOUS
<1>1. TypeOK'
  BY NextTyped DEF IInv
<1>2. CASE UNCHANGED <<state, timers, mode, hist>>
  BY <1>1, <1>2 DEF IInv, TimersMatchState, TimersAreObservedRuns, CapLatchHolds
<1>3. CASE TickCommit
  <2>1. TimersMatchState'
    <3>1. TimersFit(DecisionOf(tick))
      BY <1>3, CommitTyped, DecideTimers DEF IInv, DecisionOf
    <3> QED
      BY <1>3, <3>1 DEF TickCommit, TimersFit, TimersMatchState
  <2> QED
    BY <1>1, <1>3, <2>1, CommitRuns DEF IInv
<1>4. CASE Restart
  BY <1>1, <1>4 DEF Restart, IInv, TimersMatchState, TimersAreObservedRuns,
     CapLatchHolds, NoTimers, NoHistory, ChargingState, TypeOK, Histories
<1> QED
  <2>1. CASE Elapse
    BY <1>2, <2>1 DEF Elapse
  <2>2. CASE TickRead
    BY <1>2, <2>2 DEF TickRead
  <2>3. CASE Operator
    BY <1>2, <2>3, OperatorTyped DEF IInv
  <2>4. CASE UNCHANGED vars
    BY <1>2, <2>4 DEF vars
  <2> QED
    BY <1>3, <1>4, <2>1, <2>2, <2>3, <2>4 DEF Next

-----------------------------------------------------------------------------
(* The dwell rules, as facts about one commit from the invariant.          *)

(* What a commit under automatic control, with the cap not reached, comes  *)
(* from: the rule of the profile applied to the observed runs.             *)
LEMMA CommitByProfile ==
    ASSUME IInv, TickCommit, Automatic(tick), ~CappedAfter(tick)
    PROVE  LET m == tick.metrics
               s == SettingsOf(tick.ctrl)
           IN  /\ DecisionOf(tick) =
                     IF Latched(s) THEN DecideLatch(tick.at, m, s, state, timers)
                     ELSE IF ChargingState(state)
                     THEN DecideFromCharging(tick.at, Surplus(m), timers, EffectiveMode(s))
                     ELSE DecideFromIdle(tick.at, Surplus(m), timers, EffectiveMode(s))
               /\ hist'.upSince = RunSince(hist.upSince, tick.at,
                                    Trigger(m, s) >= TriggerThreshold(s))
               /\ hist'.downSince = RunSince(hist.downSince, tick.at,
                                    ~Latched(s) /\ Surplus(m) < StopThresholdW)
<1>1. AutoRules(tick.at, tick.metrics, SettingsOf(tick.ctrl))
  BY DEF Automatic, AutoRules
<1>2. ~CapHolds(tick.metrics, SettingsOf(tick.ctrl), state)
  BY <1>1, CapRuleIsCapped DEF IInv
<1>3. hist'.upSince = UpAfter(tick) /\ hist'.downSince = DownAfter(tick)
  BY DEF TickCommit, HistoryAfter
<1> QED
  BY <1>1, <1>2, <1>3, DecideByProfile
  DEF DecisionOf, UpAfter, DownAfter, RunSince

(* The engine compares integers.                                           *)
LEMMA CommitNumbers ==
    ASSUME IInv, TickCommit
    PROVE  LET m == tick.metrics
               s == SettingsOf(tick.ctrl)
           IN  /\ Surplus(m) \in Int /\ Trigger(m, s) \in Int
               /\ TriggerThreshold(s) \in Int
               /\ TriggerThreshold(s) =
                     IF Latched(s) THEN EffectiveStartThreshold(s) ELSE StartThresholdW
               /\ ~Latched(s) => Trigger(m, s) = Surplus(m)
               /\ StartThresholdW \in Int /\ StopThresholdW \in Int
               /\ StopThresholdW < StartThresholdW
               /\ tick.at \in Nat /\ tick.at >= 1
               /\ timers.crossedUpAt \in Nat /\ timers.crossedDownAt \in Nat
<1>1. tick.metrics \in Metrics /\ SettingsOf(tick.ctrl) \in Settings
      /\ tick.at \in Nat /\ tick.at >= 1 /\ timers \in Timers
  BY CommitTyped DEF IInv
<1>2. ASSUME NEW m, NEW s, ~Latched(s) PROVE Trigger(m, s) = Surplus(m)
  BY <1>2 DEF Trigger, Latched, PowerLatch, SurplusProfile
<1> QED
  BY <1>1, <1>2, PowerTyped, ConfigValid DEF TriggerThreshold, Timers

(* A commit that starts charging saw the start dwell out.                  *)
LEMMA StartStep ==
    ASSUME IInv, TickCommit, Automatic(tick),
           ~ChargingState(state), ChargingState(state')
    PROVE  HeldFor(hist'.upSince, tick.at, StartDwell)
<1> DEFINE m == tick.metrics
           s == SettingsOf(tick.ctrl)
           d == DecisionOf(tick)
<1>1. state' = d.state /\ timers.crossedUpAt = hist.upSince
  BY DEF TickCommit, IInv, TimersAreObservedRuns
<1>2. ~CappedAfter(tick)
  BY CommitRuns DEF TickCommit, HistoryAfter, TimersAreObservedRuns, ChargingState
<1>3. d = IF Latched(s) THEN DecideLatch(tick.at, m, s, state, timers)
          ELSE DecideFromIdle(tick.at, Surplus(m), timers, EffectiveMode(s))
  BY <1>2, CommitByProfile
<1>4. hist'.upSince = RunSince(hist.upSince, tick.at, Trigger(m, s) >= TriggerThreshold(s))
  BY <1>2, CommitByProfile
<1>5. CASE Latched(s)
  BY <1>1, <1>3, <1>4, <1>5, CommitNumbers
  DEF DecideLatch, Decision, ChargingState, RunSince, HeldFor
<1>6. CASE ~Latched(s)
  BY <1>1, <1>3, <1>4, <1>6, CommitNumbers
  DEF DecideFromIdle, Decision, ChargingState, RunSince, HeldFor
<1> QED
  BY <1>5, <1>6

(* A commit that stops charging for low surplus saw the stop dwell out.    *)
LEMMA StopStep ==
    ASSUME IInv, TickCommit, Automatic(tick), ~CappedAfter(tick),
           ChargingState(state), ~ChargingState(state')
    PROVE  HeldFor(hist'.downSince, tick.at, StopDwell)
<1> DEFINE m == tick.metrics
           s == SettingsOf(tick.ctrl)
           d == DecisionOf(tick)
<1>1. state' = d.state /\ timers.crossedDownAt = hist.downSince
  BY DEF TickCommit, IInv, TimersAreObservedRuns
<1>2. ~Latched(s)
  BY <1>1, CommitByProfile DEF DecideLatch, Decision, ChargingState
<1>3. d = DecideFromCharging(tick.at, Surplus(m), timers, EffectiveMode(s))
  BY <1>2, CommitByProfile
<1>4. hist'.downSince = RunSince(hist.downSince, tick.at, Surplus(m) < StopThresholdW)
  BY <1>2, CommitByProfile
<1> QED
  BY <1>1, <1>3, <1>4, CommitNumbers
  DEF DecideFromCharging, Decision, ChargingState, RunSince, HeldFor

(* A commit that saw the start dwell out commands charging.                *)
LEMMA PromptStep ==
    ASSUME IInv, TickCommit, HeldFor(hist'.upSince, tick.at, StartDwell),
           tick.at > hist'.upSince
    PROVE  mode' # ModeOff
<1> DEFINE m == tick.metrics
           s == SettingsOf(tick.ctrl)
           d == DecisionOf(tick)
           up == Trigger(m, s) >= TriggerThreshold(s)
<1>1. hist'.upSince # 0 /\ tick.at - hist'.upSince >= StartDwell
  BY DEF HeldFor
<1>2. Automatic(tick) /\ ~CappedAfter(tick)
  BY <1>1 DEF TickCommit, HistoryAfter, UpAfter, RunSince
<1>3. hist'.upSince = RunSince(hist.upSince, tick.at, up)
  BY <1>2, CommitByProfile
<1>4. up /\ hist'.upSince = hist.upSince
  BY <1>1, <1>3, CommitNumbers DEF RunSince
<1>5. EffectiveMode(s) # ModeOff
  <2>1. s \in Settings
    BY CommitTyped DEF IInv
  <2> QED
    BY <2>1, ConfigValid DEF EffectiveMode, Settings, EnableModes, ModeOff, Unset
<1>6. mode' = d.desiredMode
  BY DEF TickCommit
<1>7. CASE ChargingState(state)
  <2>1. CASE Latched(s)
    BY <1>2, <1>6, <1>7, <2>1, CommitByProfile DEF DecideLatch, Decision, ModeOff
  <2>2. CASE ~Latched(s)
    BY <1>2, <1>4, <1>5, <1>6, <1>7, <2>2, CommitByProfile, CommitNumbers
    DEF DecideFromCharging, Decision
  <2> QED
    BY <2>1, <2>2
<1>8. CASE ~ChargingState(state)
  <2>1. timers.crossedUpAt = hist.upSince
    BY <1>8 DEF IInv, TimersAreObservedRuns
  <2>2. CASE Latched(s)
    BY <1>1, <1>2, <1>4, <1>6, <1>8, <2>1, <2>2, CommitByProfile, CommitNumbers
    DEF DecideLatch, Decision, ModeOff
  <2>3. CASE ~Latched(s)
    BY <1>1, <1>2, <1>4, <1>5, <1>6, <1>8, <2>1, <2>3, CommitByProfile, CommitNumbers
    DEF DecideFromIdle, Decision, ModeOff
  <2> QED
    BY <2>2, <2>3
<1> QED
  BY <1>7, <1>8

(* The expiry of the override a tick read never touches a live one.        *)
LEMMA ExpiryStep ==
    ASSUME TypeOK, TickCommit, OverrideActive(now, SettingsOf(ctrl))
    PROVE  ctrl' = ctrl
<1>1. tick.at \in Nat /\ now \in Nat /\ tick.at =< now
  BY CommitTyped DEF TypeOK
<1>2. ctrl.overrideUntil \in Nat
  BY DEF TypeOK, ControlState
<1>3. ASSUME Expired(tick), SameOverride(tick) PROVE FALSE
  BY <1>1, <1>2, <1>3 DEF Expired, SameOverride, OverrideActive, SettingsOf
<1> QED
  BY <1>3 DEF TickCommit

(* The limit of a tick, by the settings it read.                           *)
LEMMA LimitCases ==
    ASSUME NEW t \in Nat, NEW c \in ControlState
    PROVE  LET s == SettingsOf(c)
           IN  /\ BypassActive(t, s) /\ c.capBypassSoC > 0 =>
                     LimitSoCTarget(t, s) =
                        IF c.capBypassSoC < SoCCap + 1 THEN SoCCap + 1
                        ELSE IF c.capBypassSoC > SoCMax THEN SoCMax
                        ELSE c.capBypassSoC
               /\ BypassActive(t, s) /\ ~(c.capBypassSoC > 0) =>
                     LimitSoCTarget(t, s) = SoCMax
               /\ ~BypassActive(t, s) /\ c.autoProfile # SurplusProfile =>
                     LimitSoCTarget(t, s) = EffectiveTargetSoC(s)
               /\ ~BypassActive(t, s) /\ c.autoProfile = SurplusProfile =>
                     LimitSoCTarget(t, s) = SoCCap
<1> DEFINE s == SettingsOf(c)
<1>1. s.capBypassSoC = c.capBypassSoC /\ (Latched(s) <=> c.autoProfile # SurplusProfile)
  BY DEF SettingsOf, Latched, EffectiveProfile, ControlState, Profiles, LatchProfiles,
     PowerLatch, SurplusLatch, SurplusProfile, Unset
<1>2. BypassActive(t, s) \in BOOLEAN /\ (c.capBypassSoC > 0) \in BOOLEAN
  BY DEF BypassActive
<1> QED
  BY <1>1, <1>2 DEF LimitSoCTarget

(* A limit above the cap comes from the bypass or the target in force.     *)
LEMMA RaisedStep ==
    ASSUME TypeOK, TickCommit, limit' > SoCCap
    PROVE  LET c == tick.ctrl
           IN  \/ /\ c.override = "on" /\ c.capBypass /\ limit' =< SoCMax
                  /\ c.overrideUntil = 0 \/ tick.at < c.overrideUntil
               \/ c.autoProfile # SurplusProfile /\ limit' = c.targetSoC[c.autoProfile]
<1> DEFINE c == tick.ctrl
           s == SettingsOf(c)
<1>1. tick.at \in Nat /\ c \in ControlState
  BY CommitTyped DEF Ticks
<1>2. limit' = LimitSoCTarget(tick.at, s)
  BY DEF TickCommit
<1>3. CASE BypassActive(tick.at, s)
  <2>1. c.override = "on" /\ c.capBypass
        /\ (c.overrideUntil = 0 \/ tick.at < c.overrideUntil)
    BY <1>3 DEF BypassActive, OverrideActive, SettingsOf
  <2>2. limit' =< SoCMax
    BY <1>1, <1>2, <1>3, LimitCases, ConfigValid DEF ControlState
  <2> QED
    BY <2>1, <2>2
<1>4. CASE ~BypassActive(tick.at, s)
  <2>1. c.autoProfile # SurplusProfile /\ limit' = EffectiveTargetSoC(s)
    BY <1>1, <1>2, <1>4, LimitCases, ConfigValid
  <2>2. c.autoProfile \in LatchProfiles
    BY <1>1, <2>1 DEF ControlState, Profiles
  <2>3. limit' = c.targetSoC[c.autoProfile]
    BY <1>1, <2>1, <2>2, ConfigValid DEF EffectiveTargetSoC, SettingsOf, OwnOverride
  <2> QED
    BY <2>1, <2>3
<1> QED
  BY <1>3, <1>4

(* What is shown of settings nobody changed during a tick is its limit.    *)
LEMMA ShownStep ==
    ASSUME TypeOK, BypassOnlyWithForceOn, TickCommit, tick.ctrl = ctrl,
           OnSlider(ctrl.capBypassSoC)
    PROVE  limit' = ShownCap(Status(ctrl'))
<1> DEFINE s == SettingsOf(ctrl)
<1>1. tick.at \in Nat /\ ctrl \in ControlState
  BY CommitTyped DEF Ticks
<1>2. limit' = LimitSoCTarget(tick.at, s)
  BY DEF TickCommit
<1>3. (Latched(s) <=> ctrl.autoProfile # SurplusProfile)
  BY <1>1 DEF SettingsOf, Latched, EffectiveProfile, ControlState, Profiles,
     LatchProfiles, PowerLatch, SurplusLatch, SurplusProfile, Unset
<1>4. CASE Expired(tick)
  <2>1. ctrl' = Cleared(ctrl) /\ ~BypassActive(tick.at, s)
    BY <1>4 DEF TickCommit, SameOverride, Expired, BypassActive
  <2>2. /\ ~ctrl'.capBypass /\ ctrl'.autoProfile = ctrl.autoProfile
        /\ ctrl'.targetSoC = ctrl.targetSoC
    BY <1>1, <2>1 DEF Cleared, ControlState
  <2>3. /\ Latched(SettingsOf(ctrl')) <=> Latched(s)
        /\ EffectiveTargetSoC(SettingsOf(ctrl')) = EffectiveTargetSoC(s)
    BY <2>2 DEF SettingsOf, Latched, EffectiveProfile, EffectiveTargetSoC
  <2> QED
    BY <1>1, <1>2, <1>3, <2>1, <2>2, <2>3, LimitCases DEF ShownCap, Status
<1>5. CASE ~Expired(tick)
  <2>1. ctrl' = ctrl
    BY <1>5 DEF TickCommit
  <2>2. BypassActive(tick.at, s) <=> ctrl.capBypass
    BY <1>5 DEF Expired, BypassActive, OverrideActive, SettingsOf, BypassOnlyWithForceOn
  <2>3. CASE ctrl.capBypass
    BY <1>1, <1>2, <2>1, <2>2, <2>3, LimitCases, ConfigValid
    DEF ShownCap, Status, CapBypassTarget, OnSlider, ControlState
  <2>4. CASE ~ctrl.capBypass
    BY <1>1, <1>2, <1>3, <2>1, <2>2, <2>4, LimitCases DEF ShownCap, Status
  <2> QED
    BY <2>3, <2>4
<1> QED
  BY <1>4, <1>5

-----------------------------------------------------------------------------
(* The theorems.                                                           *)

(* The variables keep their types in every reachable state.                *)
THEOREM TypeCorrect == Spec => []TypeOK
BY InitTyped, NextTyped, PTL DEF Spec

(* The timers and the FSM state are exactly what the observed ticks say,   *)
(* and the SoC latch of policy.go keeps charging off.                      *)
THEOREM LoopInvariant == Spec => []IInv
BY InitIInv, NextIInv, PTL DEF Spec

(* Timers and pending states go together in every reachable state.         *)
THEOREM TimersMatch == Spec => []TimersMatchState
<1>1. IInv => TimersMatchState
  BY DEF IInv
<1> QED
  BY <1>1, LoopInvariant, PTL

(* The timers are the runs of ticks the policy speaks of.                  *)
THEOREM TimersAreRuns == Spec => []TimersAreObservedRuns
<1>1. IInv => TimersAreObservedRuns
  BY DEF IInv
<1> QED
  BY <1>1, LoopInvariant, PTL

(* No tick commands charging while the observed cap latch is due.          *)
THEOREM CapLatch == Spec => []CapLatchHolds
<1>1. IInv => CapLatchHolds
  BY DEF IInv
<1> QED
  BY <1>1, LoopInvariant, PTL

(* Automatic control never starts charging before the start dwell.         *)
THEOREM StartDwellRespected == Spec => StartsOnlyAfterDwell
<1>1. IInv /\ [Next]_vars =>
        [ (TickCommit /\ Automatic(tick)
              /\ ~ChargingState(state) /\ ChargingState(state'))
          => HeldFor(hist'.upSince, tick.at, StartDwell) ]_vars
  BY StartStep
<1> QED
  BY <1>1, LoopInvariant, PTL DEF Spec, StartsOnlyAfterDwell

(* ... nor withholds it once the dwell is over.                            *)
THEOREM StartIsPrompt == Spec => StartsPromptly
<1>1. IInv /\ [Next]_vars =>
        [ (TickCommit /\ HeldFor(hist'.upSince, tick.at, StartDwell)
              /\ tick.at > hist'.upSince)
          => mode' # ModeOff ]_vars
  BY PromptStep
<1> QED
  BY <1>1, LoopInvariant, PTL DEF Spec, StartsPromptly

(* Automatic control never stops for low surplus before the stop dwell.    *)
THEOREM StopDwellRespected == Spec => StopsOnlyAfterDwell
<1>1. IInv /\ [Next]_vars =>
        [ (TickCommit /\ Automatic(tick) /\ ~hist'.capped
              /\ ChargingState(state) /\ ~ChargingState(state'))
          => HeldFor(hist'.downSince, tick.at, StopDwell) ]_vars
  BY StopStep DEF TickCommit, HistoryAfter
<1> QED
  BY <1>1, LoopInvariant, PTL DEF Spec, StopsOnlyAfterDwell

(* A live override survives every tick.                                    *)
THEOREM OverrideSurvives == Spec => LiveOverrideSurvives
<1>1. TypeOK /\ [Next]_vars =>
        [ (TickCommit /\ OverrideActive(now, SettingsOf(ctrl))) => ctrl' = ctrl ]_vars
  BY ExpiryStep
<1> QED
  BY <1>1, TypeCorrect, PTL DEF Spec, LiveOverrideSurvives

(* A cap bypass never outlives its force-on override, in any interleaving  *)
(* of requests, expiries and restarts.                                     *)
THEOREM BypassIsForceOn == Spec => []BypassOnlyWithForceOn
<1>1. Init => BypassOnlyWithForceOn
  BY DEF Init, NewControlState, BypassOnlyWithForceOn
<1>2. TypeOK /\ BypassOnlyWithForceOn /\ [Next]_vars => BypassOnlyWithForceOn'
  <2> SUFFICES ASSUME TypeOK, BypassOnlyWithForceOn, [Next]_vars
               PROVE  BypassOnlyWithForceOn'
    OBVIOUS
  <2> USE DEF BypassOnlyWithForceOn
  <2>1. ctrl \in ControlState
    BY DEF TypeOK
  <2>2. ~Cleared(ctrl).capBypass /\ Cleared(ctrl).capBypassSoC = 0
    BY <2>1 DEF Cleared, ControlState
  <2>3. CASE Elapse \/ TickRead \/ UNCHANGED vars
    BY <2>3 DEF Elapse, TickRead, vars
  <2>4. CASE TickCommit
    BY <2>2, <2>4 DEF TickCommit
  <2>5. CASE Restart
    BY <2>2, <2>5 DEF Restart
  <2>6. CASE SetOverride
    BY <2>1, <2>6 DEF SetOverride, Request, ControlState
  <2>7. CASE SetChargePower \/ SetAutoProfile \/ SetStartThreshold \/ SetTargetSoC
    BY <2>1, <2>7 DEF SetChargePower, SetAutoProfile, SetStartThreshold,
       SetTargetSoC, Request, ControlState
  <2> QED
    BY <2>3, <2>4, <2>5, <2>6, <2>7 DEF Next, Operator
<1> QED
  BY <1>1, <1>2, TypeCorrect, PTL DEF Spec

(* evcc's backstop is raised above the cap only on the operator's request. *)
THEOREM CapRaisedOnRequest == Spec => CapRaisedOnlyOnRequest
<1>1. TypeOK /\ [Next]_vars =>
        [ TickCommit /\ limit' > SoCCap =>
            LET c == tick.ctrl
            IN  \/ /\ c.override = "on" /\ c.capBypass /\ limit' =< SoCMax
                   /\ c.overrideUntil = 0 \/ tick.at < c.overrideUntil
                \/ c.autoProfile # SurplusProfile
                   /\ limit' = c.targetSoC[c.autoProfile] ]_vars
  BY RaisedStep
<1> QED
  BY <1>1, TypeCorrect, PTL DEF Spec, CapRaisedOnlyOnRequest

(* The cap the dashboard shows is the one evcc is told to enforce.         *)
THEOREM ShownCapEnforced == Spec => ShownCapIsEnforced
<1>1. TypeOK /\ BypassOnlyWithForceOn /\ [Next]_vars =>
        [ (TickCommit /\ tick.ctrl = ctrl /\ OnSlider(ctrl.capBypassSoC))
          => limit' = ShownCap(Status(ctrl')) ]_vars
  BY ShownStep
<1> QED
  BY <1>1, TypeCorrect, BypassIsForceOn, PTL DEF Spec, ShownCapIsEnforced
=============================================================================
