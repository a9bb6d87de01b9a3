------------------------------ MODULE Settings ------------------------------
(***************************************************************************)
(* The operator's persistent settings: SetChargePower, SetAutoProfile,     *)
(* SetStartThreshold and SetTargetSoC of the controller, called by         *)
(* concurrent web handlers, the settings table they write, and the load... *)
(* functions that restore it when the process starts.                      *)
(*                                                                         *)
(* A setter validates, writes the table without holding the controller's   *)
(* lock, then takes the lock to change memory.  The web server starts at   *)
(* the same time as the control loop that loads the table.  The            *)
(* configuration file may be edited between two starts; it is represented  *)
(* by the stop threshold the validation depends on.                        *)
(***************************************************************************)
EXTENDS Integers, Sequences, FiniteSets

CONSTANTS
    Handlers,            \* web requests served at the same time
    LatchProfiles,       \* the profiles with a threshold and target of their own
    DefaultPower, DefaultProfile,   \* enableMode and autoProfile of the configuration
    PowerRequests, ProfileRequests, ThresholdRequests, TargetRequests,
    StopThresholds,      \* stopThresholdW, as the configuration may say at a start
    EarlyRequests,       \* may a request arrive while the table is being loaded
    ReadsFail,           \* may GetSetting fail
    MaxBoots,            \* bound on starts of the process
    MaxRequests          \* bound on requests per start

ASSUME SettingsConstants ==
    /\ IsFiniteSet(LatchProfiles) /\ "" \notin LatchProfiles
    /\ ThresholdRequests \cup TargetRequests \subseteq Int
    /\ StopThresholds \subseteq Int
    /\ EarlyRequests \in BOOLEAN /\ ReadsFail \in BOOLEAN
    /\ MaxBoots \in Nat \ {0} /\ MaxRequests \in Nat

PowerKey == <<"charge_power">>
ProfileKey == <<"auto_profile">>
ThresholdKey(p) == <<"start_threshold", p>>
TargetKey(p) == <<"target_soc", p>>
Keys == {PowerKey, ProfileKey}
        \cup {ThresholdKey(p) : p \in LatchProfiles}
        \cup {TargetKey(p) : p \in LatchProfiles}

IsText(k) == Len(k) = 1                      \* the other settings are numbers
Unset(k) == IF IsText(k) THEN "" ELSE 0      \* no row; no entry in the map

(* What memory holds for a setting nobody made; a missing map entry stands *)
(* for the configured default.                                             *)
Default(k) == CASE k = PowerKey -> DefaultPower
                [] k = ProfileKey -> DefaultProfile
                [] OTHER -> 0

(* The validation of a setter, repeated when a stored value is loaded.     *)
Valid(k, v, stopW) ==
    CASE k = PowerKey -> v \in {"pv", "now"}
      [] k = ProfileKey -> v \in LatchProfiles \cup {"surplus"}
      [] k[1] = "start_threshold" -> v > 0 /\ v % 100 = 0 /\ v > stopW
      [] k[1] = "target_soc" -> v \in 50..100 /\ v % 10 = 0

LatchOrder == CHOOSE s \in [1..Cardinality(LatchProfiles) -> LatchProfiles] :
                  \A p \in LatchProfiles : \E i \in DOMAIN s : s[i] = p

(* ...Wrong... definitions are faulty variants of the one that follows.    *)
LoadOrderWrongNoTargets == <<PowerKey, ProfileKey>>
             \o [i \in DOMAIN LatchOrder |-> ThresholdKey(LatchOrder[i])]

(* The order of the four load functions in Run; the latch profiles in the  *)
(* order of latchProfiles.                                                 *)
LoadOrder == <<PowerKey, ProfileKey>>
             \o [i \in DOMAIN LatchOrder |-> ThresholdKey(LatchOrder[i])]
             \o [i \in DOMAIN LatchOrder |-> TargetKey(LatchOrder[i])]

VARIABLES
    db,        \* the settings table
    mem,       \* ControlState, the persistent part
    stop,      \* cfg.StopThresholdW of this start
    loading,   \* keys Run has still to load
    found,     \* the value read for Head(loading), not yet in memory
    call,      \* the setter each handler is in
    boots, requests,
    stored,    \* history: every value a key ever had in the table
    asked,     \* history: thresholds and targets asked for while a profile was active
    excused    \* history: since the start a request overlapped another or the
               \* loading, or a stored value could not be read

vars == <<db, mem, stop, loading, found, call, boots, requests, stored, asked,
          excused>>

NoCall == [at |-> "idle"]
NoValue == <<>>
InitialMemory == [k \in Keys |-> Default(k)]

Init ==
    /\ db = [k \in Keys |-> Unset(k)]
    /\ mem = InitialMemory
    /\ stop \in StopThresholds
    /\ loading = LoadOrder /\ found = NoValue
    /\ call = [h \in Handlers |-> NoCall]
    /\ boots = 1 /\ requests = 0
    /\ stored = [k \in Keys |-> {}] /\ asked = [p \in LatchProfiles |-> {}]
    /\ excused = FALSE

-----------------------------------------------------------------------------
(* What is stored is not validated again.                                  *)
LoadReadWrongUnchecked ==
    LET k == Head(loading) IN
    /\ loading # <<>> /\ found = NoValue
    /\ IF db[k] # Unset(k)
       THEN found' = <<db[k]>> /\ UNCHANGED loading
       ELSE loading' = Tail(loading) /\ UNCHANGED found
    /\ UNCHANGED <<db, mem, stop, call, boots, requests, stored, asked, excused>>

(* loadChargePower, loadAutoProfile, loadStartThreshold, loadTargetSoC: a  *)
(* stored value that no longer passes the validation is left alone.        *)
LoadRead ==
    LET k == Head(loading) IN
    /\ loading # <<>> /\ found = NoValue
    /\ IF db[k] # Unset(k) /\ Valid(k, db[k], stop)
       THEN \/ found' = <<db[k]>> /\ UNCHANGED <<loading, excused>>
            \/ /\ ReadsFail /\ loading' = Tail(loading) /\ excused' = TRUE
               /\ UNCHANGED found
       ELSE loading' = Tail(loading) /\ UNCHANGED <<found, excused>>
    /\ UNCHANGED <<db, mem, stop, call, boots, requests, stored, asked>>

LoadApply ==
    /\ found # NoValue
    /\ mem' = [mem EXCEPT ![Head(loading)] = found[1]]
    /\ loading' = Tail(loading) /\ found' = NoValue
    /\ UNCHANGED <<db, stop, call, boots, requests, stored, asked, excused>>

(* A setter up to its database write: the value is validated.              *)
Begin(h, k, v) ==
    /\ call[h] = NoCall /\ requests < MaxRequests
    /\ loading = <<>> \/ EarlyRequests
    /\ Valid(k, v, stop)
    /\ call' = [call EXCEPT ![h] = [at |-> "validated", key |-> k, value |-> v]]
    /\ requests' = requests + 1
    /\ excused' = (excused \/ loading # <<>> \/ \E g \in Handlers : call[g] # NoCall)
    /\ UNCHANGED <<db, mem, stop, loading, found, boots, stored>>

SetChargePower(h) ==
    /\ \E v \in PowerRequests : Begin(h, PowerKey, v)
    /\ UNCHANGED asked

SetAutoProfile(h) ==
    /\ \E v \in ProfileRequests : Begin(h, ProfileKey, v)
    /\ UNCHANGED asked

(* A threshold or target belongs to the profile active when the setter     *)
(* takes the lock the first time; the surplus profile has neither.         *)
ForActiveProfile(h, setting, values) ==
    LET p == mem[ProfileKey] IN
    /\ p \in LatchProfiles
    /\ \E v \in values :
          /\ Begin(h, <<setting, p>>, v)
          /\ asked' = [asked EXCEPT ![p] = @ \cup {v}]

SetStartThreshold(h) == ForActiveProfile(h, "start_threshold", ThresholdRequests)
SetTargetSoC(h) == ForActiveProfile(h, "target_soc", TargetRequests)

(* A failed write is ignored.                                              *)
PersistWrongIgnoresError(h) ==
    /\ call[h].at = "validated"
    /\ call' = [call EXCEPT ![h].at = "persisted"]
    /\ \/ LET k == call[h].key IN
          /\ db' = [db EXCEPT ![k] = call[h].value]
          /\ stored' = [stored EXCEPT ![k] = @ \cup {call[h].value}]
       \/ UNCHANGED <<db, stored>>
    /\ UNCHANGED <<mem, stop, loading, found, boots, requests, asked, excused>>

(* SetSetting; a failure is reported to the client and ends the request.   *)
Persist(h) ==
    /\ call[h].at = "validated"
    /\ \/ LET k == call[h].key IN
          /\ db' = [db EXCEPT ![k] = call[h].value]
          /\ stored' = [stored EXCEPT ![k] = @ \cup {call[h].value}]
          /\ call' = [call EXCEPT ![h].at = "persisted"]
       \/ /\ call' = [call EXCEPT ![h] = NoCall]
          /\ UNCHANGED <<db, stored>>
    /\ UNCHANGED <<mem, stop, loading, found, boots, requests, asked, excused>>

(* Memory follows for the profile active by then.                          *)
ApplyWrongProfile(h) ==
    LET k == call[h].key
        now == IF IsText(k) THEN k ELSE <<k[1], mem[ProfileKey]>>
    IN
    /\ call[h].at = "persisted"
    /\ mem' = [mem EXCEPT ![now] = call[h].value]
    /\ call' = [call EXCEPT ![h] = NoCall]
    /\ UNCHANGED <<db, stop, loading, found, boots, requests, stored, asked,
                   excused>>

(* The second locked section: memory follows.                              *)
Apply(h) ==
    /\ call[h].at = "persisted"
    /\ mem' = [mem EXCEPT ![call[h].key] = call[h].value]
    /\ call' = [call EXCEPT ![h] = NoCall]
    /\ UNCHANGED <<db, stop, loading, found, boots, requests, stored, asked,
                   excused>>

(* The process ends at any point and starts again: memory has the          *)
(* configuration, and the table is what survives.                          *)
Restart ==
    /\ boots < MaxBoots
    /\ boots' = boots + 1 /\ requests' = 0
    /\ mem' = InitialMemory /\ stop' \in StopThresholds
    /\ loading' = LoadOrder /\ found' = NoValue
    /\ call' = [h \in Handlers |-> NoCall] /\ excused' = FALSE
    /\ UNCHANGED <<db, stored, asked>>

Load == LoadRead \/ LoadApply
Handle(h) == \/ SetChargePower(h) \/ SetAutoProfile(h)
             \/ SetStartThreshold(h) \/ SetTargetSoC(h)
             \/ Persist(h) \/ Apply(h)
Next == Load \/ Restart \/ \E h \in Handlers : Handle(h)

Spec == Init /\ [][Next]_vars

-----------------------------------------------------------------------------
(* Types; numeric settings in memory are absent or valid ones.             *)
TypeOK ==
    /\ \A k \in Keys : db[k] = Unset(k) \/ db[k] \in stored[k]
    /\ \A k \in Keys : mem[k] = Default(k) \/ Valid(k, mem[k], stop)
    /\ stop \in StopThresholds
    /\ Len(loading) =< Len(LoadOrder) /\ Len(found) =< 1
    /\ DOMAIN call = Handlers
    /\ \A h \in Handlers : call[h] # NoCall =>
          call[h].at \in {"validated", "persisted"} /\ call[h].key \in Keys
    /\ excused \in BOOLEAN /\ boots \in 1..MaxBoots /\ requests \in 0..MaxRequests

(* The hysteresis of the latch profiles stays open: whatever was stored    *)
(* under an older configuration, a start threshold in use is above the     *)
(* stop threshold of this one.                                             *)
StartAboveStop ==
    \A p \in LatchProfiles :
        LET w == mem[ThresholdKey(p)] IN w # 0 => w > stop

(* What is in use is valid for the configuration of this run, whatever an  *)
(* earlier one stored (TypeOK says so of every setting).                   *)
ValueInv == TypeOK /\ StartAboveStop

(* A failed persist never shows: what Status reports for a setting is its  *)
(* default or a value that did reach the table (SetChargePower and         *)
(* SetAutoProfile, "the DB write happens before the in-memory update").    *)
ShownWasStored ==
    \A k \in Keys : mem[k] # Default(k) => mem[k] \in stored[k]

(* "Switching profiles never leaks one profile's threshold into another":  *)
(* a latch profile runs on values asked for while it was the active one,   *)
(* however requests, profile switches and restarts interleave.             *)
SettingsDoNotLeak ==
    \A p \in LatchProfiles : \A k \in {ThresholdKey(p), TargetKey(p)} :
        {mem[k], db[k]} \subseteq {0} \cup asked[p]

(* What a restart under the same configuration would bring back.           *)
Restored(k) == IF db[k] # Unset(k) /\ Valid(k, db[k], stop)
               THEN db[k] ELSE Default(k)

AtRest == loading = <<>> /\ \A h \in Handlers : call[h] = NoCall

(* The settings persist across restarts: with no request under way, what   *)
(* is in use is what a restart would restore, after any number of requests *)
(* that did not overlap, failed writes, crashes between a write and its    *)
(* update of memory, and edits of the configuration.                       *)
SettingsSurviveRestart ==
    AtRest /\ ~excused => \A k \in Keys : mem[k] = Restored(k)

=============================================================================
