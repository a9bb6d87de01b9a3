------------------------------- MODULE History -------------------------------
(***************************************************************************)
(* The rows nobody decides by: the samples and events a tick leaves behind *)
(* (recordEvent, recordSample), the operator's events, the janitor that    *)
(* prunes both tables, and the queries of the web API that read them.      *)
(*                                                                         *)
(* The loop, the janitor and the requests are concurrent; a store call is  *)
(* atomic, since the pool has one connection.  A table is the set of the   *)
(* ids that are still in it, over a log of every row ever inserted: ids    *)
(* are never reused (AUTOINCREMENT).  Timestamps are stored with a fixed   *)
(* width in UTC, so comparing their texts is comparing times.              *)
(*                                                                         *)
(* The unit of time is the decision interval.  The clock is taken not to   *)
(* be set back, and the janitor to be served within the unit it is due in. *)
(***************************************************************************)
EXTENDS Integers, Sequences, FiniteSets, SequencesExt

CONSTANTS
    States,             \* states of the FSM
    InitialState,       \* the state a process starts in
    RetentionWindow,    \* control.retentionWindow, in decision intervals
    RetentionInterval,  \* control.retentionInterval
    MaxHistoryRows,     \* maxHistoryRows
    MaxHistoryWindow,   \* maxHistoryWindow
    Faults,             \* the store calls that may fail: "event", "sample", "prune"
    MaxTickTime,        \* how long a tick may take at most
    MaxNow,             \* bound on the clock
    MaxDisturbances     \* bound on failures, slow ticks, restarts, and on the events
                        \* of operators and commands

(* Config.Validate: an interval is required where there is a window.       *)
ASSUME HistoryConstants ==
    /\ InitialState \in States
    /\ RetentionWindow \in Nat /\ RetentionInterval \in Nat
    /\ RetentionWindow > 0 => RetentionInterval > 0
    /\ MaxHistoryRows \in Nat \ {0} /\ MaxHistoryWindow \in Nat
    /\ Faults \subseteq {"event", "sample", "prune"}
    /\ MaxTickTime \in Nat /\ MaxNow \in Nat
    /\ MaxDisturbances \in Nat

VARIABLES
    now,         \* the clock
    state,       \* c.state
    step,        \* the tick: "down", "due", "event", "sample", "idle"
    tick,        \* its time and the state it found
    sampleLog,   \* the time of every sample ever inserted, by id
    samples,     \* ids in the samples table
    eventLog,    \* every event ever inserted, by id
    events,      \* ids in the events table
    janitor,     \* "off", "waiting", "samples" or "events": what is pruned next
    fireAt,      \* when the janitor's ticker fires next
    before,      \* the cut-off of the pruning under way
    started,     \* history: when this process started, and the events before it
    lostEvent,   \* history: an event of this process could not be inserted
    unpruned,    \* history: the last pruning failed in part
    disturbed    \* failures, slow ticks, restarts, events of these kinds so far

loop == <<state, step, tick>>
tables == <<sampleLog, samples, eventLog, events>>
cleaner == <<janitor, fireAt, before>>
vars == <<now, loop, tables, cleaner, started, lostEvent, unpruned,
          disturbed>>

StateChange(ts, from, to) ==
    [type |-> "state_change", ts |-> ts, from |-> from, to |-> to]
OperatorEvent(ts) == [type |-> "override", ts |-> ts]
CommandEvent(ts) == [type |-> "command", ts |-> ts]

NoTick == [at |-> 0, prev |-> InitialState]

Started(t) ==
    /\ state' = InitialState /\ step' = "due"
    /\ tick' = NoTick
    /\ janitor' = IF RetentionWindow > 0 THEN "waiting" ELSE "off"
    /\ fireAt' = t + RetentionInterval /\ before' = 0
    /\ started' = [at |-> t, events |-> Len(eventLog)]
    /\ lostEvent' = FALSE /\ unpruned' = FALSE

Init ==
    /\ now = 0 /\ state = InitialState /\ step = "down"
    /\ tick = NoTick
    /\ sampleLog = <<>> /\ samples = {} /\ eventLog = <<>> /\ events = {}
    /\ janitor = "off" /\ fireAt = 0 /\ before = 0
    /\ started = [at |-> 0, events |-> 0]
    /\ lostEvent = FALSE /\ unpruned = FALSE
    /\ disturbed = 0

Disturb == disturbed < MaxDisturbances /\ disturbed' = disturbed + 1

(* A store call that fails is logged, and nothing else comes of it.        *)
Fails(call) == call \in Faults /\ Disturb
Succeeds == UNCHANGED disturbed

(* ctrl.Run: the janitor's ticker starts, and the first tick is due.       *)
Start ==
    /\ step = "down" /\ Started(now)
    /\ UNCHANGED <<now, tables, disturbed>>

(* Time passes: a tick that is due is served in the same unit, unless the  *)
(* one before it is so slow that it is still under way.                    *)
Elapse ==
    /\ now < MaxNow /\ now' = now + 1
    /\ \/ step \in {"down", "idle"} /\ Succeeds
       \/ step \in {"event", "sample"} /\ now - tick.at < MaxTickTime /\ Disturb
    /\ janitor = "off" \/ (janitor = "waiting" /\ now < fireAt)
    /\ step' = IF step = "idle" THEN "due" ELSE step
    /\ UNCHANGED <<state, tick, tables, cleaner, started, lostEvent, unpruned>>

-----------------------------------------------------------------------------
(* A tick decides, with the time it was given: the row of the change is    *)
(* written after the state has changed in memory.                          *)
Decide ==
    /\ step = "due"
    /\ tick' = [at |-> now, prev |-> state]
    /\ \E new \in States :
          state' = new /\ step' = IF new # state THEN "event" ELSE "sample"
    /\ UNCHANGED <<now, tables, cleaner, started, lostEvent, unpruned,
                   disturbed>>

InsertEvent(e) ==
    /\ eventLog' = Append(eventLog, e)
    /\ events' = events \cup {Len(eventLog')}

(* ...Wrong... definitions are faulty variants of the one that follows:    *)
(* the state the change started from is read too late.                     *)
RecordEventWrongFrom ==
    /\ step = "event" /\ step' = "sample"
    /\ InsertEvent(StateChange(tick.at, state, state)) /\ Succeeds
    /\ UNCHANGED <<now, state, tick, sampleLog, samples, cleaner, started,
                   lostEvent, unpruned>>

(* recordEvent: the tick goes on, failed or not.                           *)
RecordEvent ==
    /\ step = "event" /\ step' = "sample"
    /\ \/ /\ InsertEvent(StateChange(tick.at, tick.prev, state))
          /\ Succeeds /\ UNCHANGED lostEvent
       \/ Fails("event") /\ lostEvent' = TRUE /\ UNCHANGED <<eventLog, events>>
    /\ UNCHANGED <<now, state, tick, sampleLog, samples, cleaner, started, unpruned>>

(* publishMode and publishLimitSoC: what evcc was told anew is an event.    *)
RecordCommand ==
    /\ step = "sample" /\ Disturb /\ InsertEvent(CommandEvent(tick.at))
    /\ UNCHANGED <<now, loop, sampleLog, samples, cleaner, started, lostEvent,
                   unpruned>>

(* recordSample; the ticker holds one tick for a loop that was late.       *)
RecordSample ==
    /\ step = "sample" /\ step' = IF tick.at < now THEN "due" ELSE "idle"
    /\ \/ /\ sampleLog' = Append(sampleLog, tick.at) /\ Succeeds
          /\ samples' = samples \cup {Len(sampleLog')}
       \/ Fails("sample") /\ UNCHANGED <<sampleLog, samples>>
    /\ tick' = NoTick
    /\ UNCHANGED <<now, state, eventLog, events, cleaner, started, lostEvent,
                   unpruned>>

(* SetOverride and the setters append an event of their own, timed when it *)
(* is inserted, at any point of a tick.                                    *)
Operate ==
    /\ step # "down" /\ Disturb /\ InsertEvent(OperatorEvent(now))
    /\ UNCHANGED <<now, loop, sampleLog, samples, cleaner, started, lostEvent,
                   unpruned>>

-----------------------------------------------------------------------------
(* prune: the cut-off is computed once for both tables.                    *)
Fire ==
    /\ janitor = "waiting" /\ now = fireAt
    /\ janitor' = "samples" /\ fireAt' = fireAt + RetentionInterval
    /\ before' = now - RetentionWindow /\ unpruned' = FALSE
    /\ UNCHANGED <<now, loop, tables, started, lostEvent, disturbed>>

(* DELETE ... WHERE ts <= before.                                          *)
PrunableWrongInclusive(ts) == ts =< before

(* DELETE ... WHERE ts < before.                                           *)
Prunable(ts) == ts < before

(* prune ends after the first table.                                       *)
PruneSamplesWrongReturn ==
    /\ janitor = "samples" /\ janitor' = "waiting"
    /\ samples' = {i \in samples : ~Prunable(sampleLog[i])}
    /\ Succeeds
    /\ UNCHANGED <<now, loop, sampleLog, eventLog, events, fireAt, before, started,
                   lostEvent, unpruned>>

(* A failure to prune one table does not keep the other from being pruned. *)
PruneSamples ==
    /\ janitor = "samples" /\ janitor' = "events"
    /\ \/ /\ samples' = {i \in samples : ~Prunable(sampleLog[i])}
          /\ Succeeds /\ UNCHANGED unpruned
       \/ Fails("prune") /\ unpruned' = TRUE /\ UNCHANGED samples
    /\ UNCHANGED <<now, loop, sampleLog, eventLog, events, fireAt, before, started,
                   lostEvent>>

PruneEvents ==
    /\ janitor = "events" /\ janitor' = "waiting" /\ before' = 0
    /\ \/ /\ events' = {i \in events : ~Prunable(eventLog[i].ts)}
          /\ Succeeds /\ UNCHANGED unpruned
       \/ Fails("prune") /\ unpruned' = TRUE /\ UNCHANGED events
    /\ UNCHANGED <<now, loop, sampleLog, samples, eventLog, fireAt, started,
                   lostEvent>>

(* The process dies and starts again, at the same instant or later.        *)
Crash ==
    /\ step # "down" /\ step' = "down" /\ Disturb
    /\ state' = InitialState /\ tick' = NoTick
    /\ janitor' = "off" /\ fireAt' = 0 /\ before' = 0
    /\ UNCHANGED <<now, tables, started, lostEvent, unpruned>>

Next == \/ Start \/ Elapse \/ Decide \/ RecordEvent \/ RecordCommand \/ RecordSample
        \/ Operate \/ Fire \/ PruneSamples \/ PruneEvents \/ Crash

Spec == Init /\ [][Next]_vars

-----------------------------------------------------------------------------
(* The queries.                                                            *)
Limited(seq, limit) == SubSeq(seq, 1, IF Len(seq) < limit THEN Len(seq) ELSE limit)

(* ORDER BY ts, rows of the same time by id; `ts' has the times by id.     *)
ByTime(ids, ts) ==
    LET Before(i) == {j \in ids : ts[j] < ts[i] \/ (ts[j] = ts[i] /\ j < i)}
    IN  [k \in 1..Cardinality(ids) |->
            CHOOSE i \in ids : Cardinality(Before(i)) = k - 1]

(* The clamp moves the wrong end of the range.                             *)
ClampedWrongEnd(from, to) ==
    IF to - from > MaxHistoryWindow THEN [from |-> from, to |-> from + MaxHistoryWindow]
    ELSE [from |-> from, to |-> to]

(* handleAPIHistory: an over-long range keeps its most recent part.        *)
Clamped(from, to) ==
    IF to - from > MaxHistoryWindow THEN [from |-> to - MaxHistoryWindow, to |-> to]
    ELSE [from |-> from, to |-> to]

(* GET /api/history, for from =< to: the samples of the range, oldest      *)
(* first, at most MaxHistoryRows of them.                                  *)
Samples(from, to) ==
    LET r == Clamped(from, to)
        found == {i \in samples : r.from =< sampleLog[i] /\ sampleLog[i] =< r.to}
    IN  Limited(ByTime(found, sampleLog), MaxHistoryRows)

(* GET /api/events: the newest events first.                               *)
RecentEvents(limit) ==
    Limited(Reverse(ByTime(events, [i \in DOMAIN eventLog |-> eventLog[i].ts])), limit)

-----------------------------------------------------------------------------
(* Types; the loop and the janitor live and die together.                  *)
TypeOK ==
    /\ now \in 0..MaxNow /\ state \in States
    /\ step \in {"down", "due", "event", "sample", "idle"}
    /\ tick.at \in 0..now /\ tick.prev \in States
    /\ \A i \in DOMAIN sampleLog : sampleLog[i] \in 0..now
    /\ \A i \in DOMAIN eventLog : eventLog[i].ts \in 0..now
    /\ samples \subseteq DOMAIN sampleLog /\ events \subseteq DOMAIN eventLog
    /\ janitor \in {"off", "waiting", "samples", "events"}
    /\ (step = "down" \/ RetentionWindow = 0) <=> janitor = "off"
    /\ before =< now /\ (janitor = "waiting" => fireAt \in now..(now + RetentionInterval))
    /\ disturbed \in 0..MaxDisturbances

(* "Prune samples/events older than this": no row that is younger than the *)
(* window is ever missing, whichever failures, restarts and insertions     *)
(* race the pruning.                                                       *)
YoungRowsAreKept ==
    /\ \A i \in DOMAIN sampleLog \ samples : sampleLog[i] < now - RetentionWindow
    /\ \A i \in DOMAIN eventLog \ events : eventLog[i].ts < now - RetentionWindow

(* Types, and no row is lost before its time, in every state.              *)
RetentionInv == TypeOK /\ YoungRowsAreKept

(* "so the SQLite database does not grow without bound": once a process    *)
(* has been up for an interval, no row is older than the window and one    *)
(* interval more, as long as pruning does not fail.  A process restarted   *)
(* more often than that never prunes.                                      *)
OldRowsGo ==
    (janitor = "waiting" /\ now < fireAt /\ now >= started.at + RetentionInterval
        /\ ~unpruned)
    => LET oldest == now - RetentionWindow - RetentionInterval
       IN  /\ \A i \in samples : sampleLog[i] >= oldest
           /\ \A i \in events : eventLog[i].ts >= oldest

(* Where in what /api/events tells, newest first, the changes are that the *)
(* FSM of this process made.                                               *)
ChangesOf(told) == {k \in DOMAIN told : /\ told[k] > started.events
                                        /\ eventLog[told[k]].type = "state_change"}

NothingPruned == (started.events + 1)..Len(eventLog) \subseteq events

(* The changes at the positions `own' of `told' lead without a gap to the  *)
(* state the controller is in, and from the initial one if none is pruned. *)
LeadsHere(told, own) ==
    LET Change(k) == eventLog[told[k]] IN
    /\ \A j, k \in own : j < k /\ (\A l \in own : l =< j \/ k =< l)
                            => Change(j).from = Change(k).to
    /\ \A k \in own : (\A l \in own : k =< l) => Change(k).to = state
    /\ NothingPruned =>
          /\ \A k \in own : (\A l \in own : l =< k) => Change(k).from = InitialState
          /\ own = {} => state = InitialState

(* The audit log of a process is the history of its FSM: unless an insert  *)
(* failed, the changes /api/events tells lead to the state the controller  *)
(* is in, whatever operators' events, pruning and slow ticks come between. *)
AuditTrailIsComplete ==
    (step \in {"due", "sample", "idle"} /\ ~lostEvent) =>
        LET told == RecentEvents(Cardinality(events))
            own == ChangesOf(told)
        IN  LeadsHere(told, own)

(* /api/history leaves no hole: from the first sample it answers to the    *)
(* last every sample still stored is there, and unless the answer is full  *)
(* it reaches to the end of the range asked for and back to its beginning, *)
(* a week at most.                                                         *)
HistoryHasNoHoles ==
    \A from \in 0..now, to \in 0..now : from =< to =>
        LET answer == Samples(from, to)
            last == IF Len(answer) = MaxHistoryRows
                    THEN sampleLog[answer[MaxHistoryRows]] - 1 ELSE to
            first == IF from < to - MaxHistoryWindow THEN to - MaxHistoryWindow
                     ELSE from
        IN  {i \in samples : sampleLog[i] \in first..last} \subseteq ToSet(answer)
=============================================================================
