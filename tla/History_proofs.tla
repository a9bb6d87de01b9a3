---------------------------- MODULE History_proofs ----------------------------
(***************************************************************************)
(* Theorems about samples, events and their retention, for any retention   *)
(* window and interval, any failing store calls, slow ticks and restarts:  *)
(* no young row is pruned, old ones go, the answer of /api/history has no  *)
(* hole and the changes /api/events tells are the history of the FSM.      *)
(*                                                                         *)
(* The invariant of the audit trail is about the log itself: the changes   *)
(* of this process form a chain, their times do not decrease, and what is  *)
(* pruned of them is a beginning.  That the queries return it in order is  *)
(* a fact about sorting (the lemmas on ByTime), not about steps.           *)
(***************************************************************************)
EXTENDS History, FiniteSetTheorems, SequenceTheorems, TLAPS

-----------------------------------------------------------------------------
(* The invariant.                                                          *)

Rows == [type : {"state_change"}, ts : Nat, from : States, to : States]
        \cup [type : {"override", "command"}, ts : Nat]

Types ==
    /\ now \in 0..MaxNow /\ state \in States
    /\ step \in {"down", "due", "event", "sample", "idle"}
    /\ tick \in [at : 0..now, prev : States]
    /\ sampleLog \in Seq(Nat) /\ samples \subseteq 1..Len(sampleLog)
    /\ eventLog \in Seq(Rows) /\ events \subseteq 1..Len(eventLog)
    /\ janitor \in {"off", "waiting", "samples", "events"}
    /\ fireAt \in Nat /\ before \in Int
    /\ started \in [at : 0..now, events : 0..Len(eventLog)]
    /\ lostEvent \in BOOLEAN /\ unpruned \in BOOLEAN
    /\ disturbed \in 0..MaxDisturbances

(* No row is from the future.                                              *)
RowsTimed ==
    /\ \A i \in 1..Len(sampleLog) : sampleLog[i] =< now
    /\ \A i \in 1..Len(eventLog) : eventLog[i].ts =< now

(* The janitor's ticker, and the cut-off of the pruning under way.         *)
Clockwork ==
    /\ (step = "down" \/ RetentionWindow = 0) <=> janitor = "off"
    /\ janitor = "waiting" => now =< fireAt /\ fireAt =< now + RetentionInterval
    /\ janitor \in {"off", "waiting"} => before =< 0
    /\ janitor \in {"samples", "events"} =>
          before = now - RetentionWindow /\ fireAt = now + RetentionInterval

Timed == RowsTimed /\ Clockwork

(* What was pruned was older than the window.                              *)
PrunedWasOld ==
    /\ \A i \in 1..Len(sampleLog) : i \notin samples => sampleLog[i] < now - RetentionWindow
    /\ \A i \in 1..Len(eventLog) : i \notin events => eventLog[i].ts < now - RetentionWindow

(* The last pruning was an interval before the next one, and nothing older *)
(* than its cut-off is left, nor was inserted since.                       *)
NoneBefore(cutoff) ==
    /\ \A i \in samples : cutoff =< sampleLog[i]
    /\ \A i \in events : cutoff =< eventLog[i].ts
LastPruned ==
    /\ step \in {"event", "sample"} => now - tick.at =< MaxTickTime
    /\ janitor # "off" => started.at + RetentionInterval =< fireAt
    /\ janitor = "events" /\ ~unpruned => \A i \in samples : before =< sampleLog[i]
    /\ janitor = "waiting" /\ ~unpruned /\ started.at + RetentionInterval < fireAt
          => NoneBefore(fireAt - RetentionInterval - RetentionWindow)

(* The changes of this process, in the log, and the state they tell of.    *)
Own == {i \in 1..Len(eventLog) : /\ i > started.events
                                 /\ eventLog[i].type = "state_change"}
Recorded == IF step = "event" THEN tick.prev ELSE state
Chained ==
    /\ \A i, j \in Own : i < j /\ (\A l \in Own : l =< i \/ j =< l)
                           => eventLog[j].from = eventLog[i].to
    /\ \A i \in Own : (\A l \in Own : l =< i) => eventLog[i].to = Recorded
    /\ \A i \in Own : (\A l \in Own : i =< l) => eventLog[i].from = InitialState
    /\ Own = {} => Recorded = InitialState

(* They are in the order of their times, and pruned from the beginning.    *)
InOrder ==
    /\ \A i, j \in Own : i < j => eventLog[i].ts =< eventLog[j].ts
    /\ step = "event" => \A i \in Own : eventLog[i].ts =< tick.at
    /\ \A i, j \in Own : i < j /\ i \in events => j \in events

IInv == /\ Types /\ Timed /\ PrunedWasOld /\ InOrder
        /\ step # "down" /\ ~lostEvent => Chained

-----------------------------------------------------------------------------
(* Types and times.                                                        *)

LEMMA ConstantTypes ==
    /\ InitialState \in States /\ RetentionWindow \in Nat /\ RetentionInterval \in Nat
    /\ RetentionWindow > 0 => RetentionInterval > 0
    /\ MaxNow \in Nat /\ MaxTickTime \in Nat /\ MaxDisturbances \in Nat
    /\ MaxHistoryRows \in Nat /\ MaxHistoryRows > 0 /\ MaxHistoryWindow \in Nat
<1>1. MaxHistoryRows \in Nat \ {0}
  BY HistoryConstants
<1> QED
  BY <1>1, HistoryConstants

LEMMA RowFields ==
    ASSUME NEW e \in Rows
    PROVE  /\ e.ts \in Nat
           /\ e.type = "state_change" => e.from \in States /\ e.to \in States
BY DEF Rows

(* What the three kinds of insertion append.                               *)
LEMMA NewRows ==
    ASSUME NEW t \in Nat, NEW p \in States, NEW q \in States
    PROVE  /\ StateChange(t, p, q) \in Rows /\ StateChange(t, p, q).type = "state_change"
           /\ StateChange(t, p, q).ts = t
           /\ StateChange(t, p, q).from = p /\ StateChange(t, p, q).to = q
           /\ OperatorEvent(t) \in Rows /\ OperatorEvent(t).type # "state_change"
           /\ OperatorEvent(t).ts = t
           /\ CommandEvent(t) \in Rows /\ CommandEvent(t).type # "state_change"
           /\ CommandEvent(t).ts = t
BY DEF StateChange, OperatorEvent, CommandEvent, Rows

LEMMA Inserts ==
    ASSUME Types, NEW e \in Rows, InsertEvent(e), NEW n, n = Len(eventLog)
    PROVE  /\ n \in Nat /\ eventLog' \in Seq(Rows) /\ Len(eventLog') = n + 1
           /\ \A i \in 1..n : eventLog'[i] = eventLog[i]
           /\ eventLog'[n + 1] = e
           /\ events' = events \cup {n + 1} /\ events' \subseteq 1..(n + 1)
           /\ 1..(n + 1) = 1..n \cup {n + 1} /\ events \subseteq 1..n
<1>1. eventLog \in Seq(Rows) /\ events \subseteq 1..n /\ n \in Nat
  BY DEF Types
<1>2. /\ eventLog' \in Seq(Rows) /\ Len(eventLog') = n + 1
      /\ \A i \in 1..n : eventLog'[i] = eventLog[i]
      /\ eventLog'[n + 1] = e
  BY <1>1, AppendProperties DEF InsertEvent
<1>3. 1..(n + 1) = 1..n \cup {n + 1} /\ 1..n \subseteq 1..(n + 1)
  BY <1>1
<1>4. events' = events \cup {n + 1}
  BY <1>2 DEF InsertEvent
<1> QED
  BY <1>1, <1>2, <1>3, <1>4

LEMMA Sampled ==
    ASSUME Types, NEW t \in Nat, sampleLog' = Append(sampleLog, t),
           samples' = samples \cup {Len(sampleLog')}, NEW n, n = Len(sampleLog)
    PROVE  /\ n \in Nat /\ sampleLog' \in Seq(Nat) /\ Len(sampleLog') = n + 1
           /\ \A i \in 1..n : sampleLog'[i] = sampleLog[i]
           /\ sampleLog'[n + 1] = t
           /\ samples' = samples \cup {n + 1} /\ samples' \subseteq 1..(n + 1)
           /\ 1..(n + 1) = 1..n \cup {n + 1} /\ samples \subseteq 1..n
<1>1. sampleLog \in Seq(Nat) /\ samples \subseteq 1..n /\ n \in Nat
  BY DEF Types
<1>2. /\ sampleLog' \in Seq(Nat) /\ Len(sampleLog') = n + 1
      /\ \A i \in 1..n : sampleLog'[i] = sampleLog[i]
      /\ sampleLog'[n + 1] = t
  BY <1>1, AppendProperties
<1>3. 1..(n + 1) = 1..n \cup {n + 1} /\ 1..n \subseteq 1..(n + 1)
  BY <1>1
<1> QED
  BY <1>1, <1>2, <1>3

(* The clock, the tick and the counters.                                   *)
ClockTypes ==
    /\ now \in 0..MaxNow /\ state \in States
    /\ step \in {"down", "due", "event", "sample", "idle"}
    /\ tick \in [at : 0..now, prev : States]
    /\ janitor \in {"off", "waiting", "samples", "events"}
    /\ fireAt \in Nat /\ before \in Int
    /\ started \in [at : 0..now, events : 0..Len(eventLog)]
    /\ lostEvent \in BOOLEAN /\ unpruned \in BOOLEAN
    /\ disturbed \in 0..MaxDisturbances
TableTypes ==
    /\ sampleLog \in Seq(Nat) /\ samples \subseteq 1..Len(sampleLog)
    /\ eventLog \in Seq(Rows) /\ events \subseteq 1..Len(eventLog)

LEMMA TypesAre == Types <=> ClockTypes /\ TableTypes
BY DEF Types, ClockTypes, TableTypes

LEMMA Fields ==
    ASSUME Types
    PROVE  /\ now \in Nat /\ tick.at \in Nat /\ tick.at =< now /\ tick.prev \in States
           /\ started.at \in Nat /\ started.at =< now /\ started.events \in Nat
           /\ started.events =< Len(eventLog) /\ Len(eventLog) \in Nat
           /\ before \in Int /\ fireAt \in Nat
BY ConstantTypes DEF Types

(* What a disturbance counts.                                              *)
LEMMA Counted ==
    ASSUME Types, Succeeds \/ Disturb
    PROVE  disturbed' \in 0..MaxDisturbances
BY ConstantTypes DEF Types, Succeeds, Disturb

LEMMA LaterIsWider ==
    ASSUME NEW a \in Nat, NEW b \in Nat, a =< b, NEW c \in Nat, NEW d \in Nat, c =< d
    PROVE  /\ \A t \in [at : 0..a, prev : States] : t \in [at : 0..b, prev : States]
           /\ \A t \in [at : 0..a, events : 0..c] : t \in [at : 0..b, events : 0..d]
<1>1. 0..a \subseteq 0..b /\ 0..c \subseteq 0..d
  OBVIOUS
<1> QED
  BY <1>1

(* Every step leaves each table alone, adds a row, or prunes it.           *)
Inserted(e) == /\ InsertEvent(e) /\ e.ts =< now /\ now' = now /\ started' = started
               /\ e.ts = now \/ (e.ts = tick.at /\ step \in {"event", "sample"})
               /\ UNCHANGED <<janitor, fireAt, before, unpruned>>
EventsPruned == /\ janitor = "events" /\ eventLog' = eventLog /\ now' = now
                /\ started' = started
                /\ events' = {i \in events : ~Prunable(eventLog[i].ts)}
SampleTaken == /\ sampleLog' = Append(sampleLog, tick.at)
               /\ samples' = samples \cup {Len(sampleLog')} /\ now' = now
               /\ step = "sample" /\ UNCHANGED <<janitor, fireAt, before, unpruned, started>>
SamplesPruned == /\ janitor = "samples" /\ sampleLog' = sampleLog /\ now' = now
                 /\ samples' = {i \in samples : ~Prunable(sampleLog[i])}

LEMMA Effects ==
    ASSUME Types, [Next]_vars
    PROVE  /\ \/ UNCHANGED <<eventLog, events>>
              \/ \E e \in Rows : Inserted(e)
              \/ EventsPruned
           /\ \/ UNCHANGED <<sampleLog, samples>>
              \/ SampleTaken
              \/ SamplesPruned
<1>1. CASE Start \/ Elapse \/ Decide \/ Fire \/ Crash \/ UNCHANGED vars
  BY <1>1 DEF Start, Elapse, Decide, Fire, Crash, Started, vars, tables, cleaner
<1>2. CASE RecordEvent
  <2>1. StateChange(tick.at, tick.prev, state) \in Rows
        /\ StateChange(tick.at, tick.prev, state).ts =< now
        /\ StateChange(tick.at, tick.prev, state).ts = tick.at
    BY Fields, NewRows DEF Types
  <2> QED
    BY <1>2, <2>1 DEF RecordEvent, Inserted, cleaner
<1>3. CASE RecordCommand
  <2>1. CommandEvent(tick.at) \in Rows /\ CommandEvent(tick.at).ts =< now
        /\ CommandEvent(tick.at).ts = tick.at
    BY Fields, NewRows, ConstantTypes
  <2> QED
    BY <1>3, <2>1 DEF RecordCommand, Inserted, cleaner
<1>4. CASE Operate
  <2>1. OperatorEvent(now) \in Rows /\ OperatorEvent(now).ts = now /\ now =< now
    BY Fields, NewRows, ConstantTypes
  <2> QED
    BY <1>4, <2>1 DEF Operate, Inserted, cleaner
<1>5. CASE RecordSample
  BY <1>5 DEF RecordSample, SampleTaken, cleaner
<1>6. CASE PruneSamples
  BY <1>6 DEF PruneSamples, SamplesPruned
<1>7. CASE PruneEvents
  BY <1>7 DEF PruneEvents, EventsPruned
<1> QED
  BY <1>1, <1>2, <1>3, <1>4, <1>5, <1>6, <1>7 DEF Next

LEMMA TablesStep ==
    ASSUME Types, [Next]_vars
    PROVE  TableTypes' /\ Len(eventLog) =< Len(eventLog')
<1>1. TableTypes /\ Len(eventLog) \in Nat
  BY TypesAre DEF TableTypes
<1>2. /\ eventLog' \in Seq(Rows) /\ events' \subseteq 1..Len(eventLog')
      /\ Len(eventLog) =< Len(eventLog')
  <2>1. CASE UNCHANGED <<eventLog, events>>
    BY <1>1, <2>1 DEF TableTypes
  <2>2. CASE \E e \in Rows : Inserted(e)
    <3>1. PICK e \in Rows : InsertEvent(e)
      BY <2>2 DEF Inserted
    <3>2. PICK n : n = Len(eventLog)
      OBVIOUS
    <3>3. /\ n \in Nat /\ eventLog' \in Seq(Rows) /\ Len(eventLog') = n + 1
          /\ events' \subseteq 1..(n + 1)
      BY <3>1, <3>2, Inserts
    <3> QED
      BY <3>2, <3>3
  <2>3. CASE EventsPruned
    <3>1. events' \subseteq events /\ eventLog' = eventLog
      BY <2>3 DEF EventsPruned
    <3> QED
      BY <1>1, <3>1 DEF TableTypes
  <2> QED
    BY <2>1, <2>2, <2>3, Effects
<1>3. sampleLog' \in Seq(Nat) /\ samples' \subseteq 1..Len(sampleLog')
  <2>1. CASE UNCHANGED <<sampleLog, samples>>
    BY <1>1, <2>1 DEF TableTypes
  <2>2. CASE SampleTaken
    BY <1>1, <2>2, Sampled, Fields DEF SampleTaken
  <2>3. CASE SamplesPruned
    BY <1>1, <2>3 DEF SamplesPruned, TableTypes
  <2> QED
    BY <2>1, <2>2, <2>3, Effects
<1> QED
  BY <1>2, <1>3 DEF TableTypes

(* The clock and what hangs on it.                                         *)
LEMMA ClockStep ==
    ASSUME Types, Timed, [Next]_vars, Len(eventLog') \in Nat,
           Len(eventLog) =< Len(eventLog')
    PROVE  ClockTypes'
<1>1. ClockTypes /\ Len(eventLog) \in Nat /\ now \in Nat
  BY TypesAre, Fields DEF TableTypes
<1>2. started \in [at : 0..now, events : 0..Len(eventLog')]
  BY <1>1, LaterIsWider DEF ClockTypes
<1> USE DEF ClockTypes
<1>3. CASE Start
  <2>1. started' \in [at : 0..now, events : 0..Len(eventLog')]
    BY <1>1, <1>3 DEF Start, Started, tables
  <2>2. tick' \in [at : 0..now, prev : States]
    BY <1>1, <1>3, ConstantTypes DEF Start, Started, NoTick
  <2>3. fireAt' \in Nat /\ before' \in Int /\ state' \in States
    BY <1>1, <1>3, ConstantTypes DEF Start, Started
  <2> QED
    BY <1>1, <1>3, <2>1, <2>2, <2>3 DEF Start, Started
<1>4. CASE Elapse
  <2>1. now' \in 0..MaxNow /\ now' \in Nat /\ now =< now'
    BY <1>1, <1>4, ConstantTypes DEF Elapse
  <2>2. tick \in [at : 0..now', prev : States]
        /\ started \in [at : 0..now', events : 0..Len(eventLog')]
    BY <1>1, <1>2, <2>1, LaterIsWider
  <2>3. disturbed' \in 0..MaxDisturbances
    BY <1>4, Counted DEF Elapse
  <2> QED
    BY <1>1, <1>4, <2>1, <2>2, <2>3 DEF Elapse, cleaner
<1>5. CASE Decide
  <2>1. tick' \in [at : 0..now, prev : States]
    BY <1>1, <1>5 DEF Decide
  <2> QED
    BY <1>1, <1>2, <1>5, <2>1 DEF Decide, cleaner
<1>6. CASE RecordEvent \/ RecordCommand \/ Operate
  <2>1. disturbed' \in 0..MaxDisturbances
    BY <1>6, Counted DEF RecordEvent, RecordCommand, Operate, Fails
  <2>2. step' \in {"down", "due", "event", "sample", "idle"} /\ lostEvent' \in BOOLEAN
        /\ UNCHANGED <<now, state, tick, cleaner, started, unpruned>>
    BY <1>1, <1>6 DEF RecordEvent, RecordCommand, Operate, loop
  <2> QED
    BY <1>1, <1>2, <2>1, <2>2 DEF cleaner
<1>7. CASE RecordSample
  <2>1. disturbed' \in 0..MaxDisturbances
    BY <1>7, Counted DEF RecordSample, Fails
  <2>2. tick' \in [at : 0..now, prev : States]
    BY <1>1, <1>7, ConstantTypes DEF RecordSample, NoTick
  <2> QED
    BY <1>1, <1>2, <1>7, <2>1, <2>2 DEF RecordSample, cleaner
<1>8. CASE Fire
  <2>1. fireAt' \in Nat /\ before' \in Int
    BY <1>1, <1>8, ConstantTypes DEF Fire
  <2> QED
    BY <1>1, <1>2, <1>8, <2>1 DEF Fire, loop
<1>9. CASE PruneSamples \/ PruneEvents
  <2>1. disturbed' \in 0..MaxDisturbances
    BY <1>9, Counted DEF PruneSamples, PruneEvents, Fails
  <2>2. /\ janitor' \in {"waiting", "events"} /\ before' \in Int /\ unpruned' \in BOOLEAN
        /\ UNCHANGED <<now, loop, fireAt, started, lostEvent>>
    <3>1. CASE PruneSamples
      <4>1. janitor' \in {"waiting", "events"} /\ before' \in Int
            /\ UNCHANGED <<now, loop, fireAt, started, lostEvent>>
        BY <1>1, <3>1 DEF PruneSamples
      <4>2. unpruned' = unpruned \/ unpruned' = TRUE
        BY <3>1 DEF PruneSamples
      <4> QED
        BY <1>1, <4>1, <4>2
    <3>2. CASE PruneEvents
      <4>1. janitor' \in {"waiting", "events"} /\ before' \in Int
            /\ UNCHANGED <<now, loop, fireAt, started, lostEvent>>
        BY <1>1, <3>2 DEF PruneEvents
      <4>2. unpruned' = unpruned \/ unpruned' = TRUE
        BY <3>2 DEF PruneEvents
      <4> QED
        BY <1>1, <4>1, <4>2
    <3> QED
      BY <1>9, <3>1, <3>2
  <2> QED
    BY <1>1, <1>2, <2>1, <2>2 DEF loop
<1>10. CASE Crash
  <2>1. disturbed' \in 0..MaxDisturbances
    BY <1>10, Counted DEF Crash
  <2>2. tick' \in [at : 0..now, prev : States]
    BY <1>1, <1>10, ConstantTypes DEF Crash, NoTick
  <2> QED
    BY <1>1, <1>2, <1>10, <2>1, <2>2, ConstantTypes DEF Crash
<1>11. CASE UNCHANGED vars
  BY <1>1, <1>2, <1>11 DEF vars, loop, cleaner
<1> QED
  BY <1>3, <1>4, <1>5, <1>6, <1>7, <1>8, <1>9, <1>10, <1>11 DEF Next

LEMMA RowsTimedStep ==
    ASSUME Types, RowsTimed, [Next]_vars, now' \in Nat, now =< now'
    PROVE  RowsTimed'
<1>0. now \in Nat /\ sampleLog \in Seq(Nat) /\ eventLog \in Seq(Rows)
      /\ \A e \in Rows : e.ts \in Nat
  BY Fields, RowFields DEF Types
<1>1. \A i \in 1..Len(sampleLog') : sampleLog'[i] =< now'
  <2>1. CASE sampleLog' = sampleLog
    BY <1>0, <2>1 DEF RowsTimed
  <2>2. CASE SampleTaken
    <3>1. PICK n : n = Len(sampleLog)
      OBVIOUS
    <3>2. /\ Len(sampleLog') = n + 1 /\ \A i \in 1..n : sampleLog'[i] = sampleLog[i]
          /\ sampleLog'[n + 1] = tick.at /\ 1..(n + 1) = 1..n \cup {n + 1}
          /\ tick.at =< now /\ now' = now
      BY <2>2, <3>1, Sampled, Fields DEF SampleTaken
    <3> QED
      BY <3>1, <3>2 DEF RowsTimed
  <2> QED
    BY <2>1, <2>2, Effects DEF SamplesPruned
<1>2. \A i \in 1..Len(eventLog') : eventLog'[i].ts =< now'
  <2>1. CASE eventLog' = eventLog
    BY <1>0, <2>1 DEF RowsTimed
  <2>2. CASE \E e \in Rows : Inserted(e)
    <3>a. PICK e \in Rows : Inserted(e)
      BY <2>2
    <3>b. PICK n : n = Len(eventLog)
      OBVIOUS
    <3>1. Inserted(e) /\ n = Len(eventLog)
      BY <3>a, <3>b
    <3>2. /\ Len(eventLog') = n + 1 /\ \A i \in 1..n : eventLog'[i] = eventLog[i]
          /\ eventLog'[n + 1] = e /\ 1..(n + 1) = 1..n \cup {n + 1}
          /\ e.ts =< now /\ now' = now
      BY <3>1, Inserts DEF Inserted
    <3> QED
      BY <3>1, <3>2 DEF RowsTimed
  <2> QED
    BY <2>1, <2>2, Effects DEF EventsPruned
<1> QED
  BY <1>1, <1>2 DEF RowsTimed

LEMMA ClockworkStep ==
    ASSUME Types, Clockwork, [Next]_vars
    PROVE  Clockwork' /\ now =< now'
<1>1. now \in Nat /\ fireAt \in Nat /\ before \in Int
      /\ RetentionWindow \in Nat /\ RetentionInterval \in Nat
      /\ (RetentionWindow > 0 => RetentionInterval > 0)
      /\ step \in {"down", "due", "event", "sample", "idle"}
      /\ janitor \in {"off", "waiting", "samples", "events"}
  BY Fields, ConstantTypes DEF Types
<1>2. CASE Start
  <2>1. /\ now' = now /\ step = "down" /\ step' = "due"
        /\ janitor' = IF RetentionWindow > 0 THEN "waiting" ELSE "off"
        /\ fireAt' = now + RetentionInterval /\ before' = 0
    BY <1>2 DEF Start, Started
  <2> QED
    BY <1>1, <2>1 DEF Clockwork
<1>3. CASE Elapse
  <2>1. /\ now' = now + 1 /\ UNCHANGED <<janitor, fireAt, before>>
        /\ janitor = "off" \/ (janitor = "waiting" /\ now < fireAt)
        /\ step' = "down" <=> step = "down"
    BY <1>3 DEF Elapse, cleaner
  <2> QED
    BY <1>1, <2>1 DEF Clockwork
<1>4. CASE Decide \/ RecordEvent \/ RecordCommand \/ RecordSample \/ Operate
  <2>1. UNCHANGED <<now, janitor, fireAt, before>> /\ step # "down" /\ step' # "down"
    BY <1>4 DEF Decide, RecordEvent, RecordCommand, RecordSample, Operate, cleaner, loop
  <2> QED
    BY <1>1, <2>1 DEF Clockwork
<1>5. CASE Fire
  <2>1. /\ UNCHANGED <<now, step>> /\ janitor = "waiting" /\ janitor' = "samples"
        /\ now = fireAt /\ fireAt' = fireAt + RetentionInterval
        /\ before' = now - RetentionWindow
    BY <1>5 DEF Fire, loop
  <2> QED
    BY <1>1, <2>1 DEF Clockwork
<1>6. CASE PruneSamples
  <2>1. /\ UNCHANGED <<now, step, fireAt, before>>
        /\ janitor = "samples" /\ janitor' = "events"
    BY <1>6 DEF PruneSamples, loop
  <2> QED
    BY <1>1, <2>1 DEF Clockwork
<1>7. CASE PruneEvents
  <2>1. /\ UNCHANGED <<now, step, fireAt>> /\ before' = 0
        /\ janitor = "events" /\ janitor' = "waiting"
    BY <1>7 DEF PruneEvents, loop
  <2> QED
    BY <1>1, <2>1 DEF Clockwork
<1>8. CASE Crash
  <2>1. now' = now /\ step' = "down" /\ janitor' = "off" /\ before' = 0
    BY <1>8 DEF Crash
  <2> QED
    BY <1>1, <2>1 DEF Clockwork
<1>9. CASE UNCHANGED vars
  BY <1>1, <1>9 DEF vars, loop, cleaner, Clockwork
<1> QED
  BY <1>2, <1>3, <1>4, <1>5, <1>6, <1>7, <1>8, <1>9 DEF Next

(* The cut-off of a pruning is the window before now, as long as it lasts. *)
LEMMA PrunedWasOldStep ==
    ASSUME Types, Clockwork, PrunedWasOld, [Next]_vars, now' \in Nat, now =< now'
    PROVE  PrunedWasOld'
<1>0. /\ now \in Nat /\ RetentionWindow \in Nat
      /\ sampleLog \in Seq(Nat) /\ eventLog \in Seq(Rows)
      /\ \A e \in Rows : e.ts \in Nat
  BY Fields, RowFields, ConstantTypes DEF Types
<1>1. \A i \in 1..Len(sampleLog') : i \notin samples' =>
          sampleLog'[i] < now' - RetentionWindow
  <2>1. CASE UNCHANGED <<sampleLog, samples>>
    <3>1. \A i \in 1..Len(sampleLog) : sampleLog[i] \in Nat
      BY <1>0
    <3>2. \A i \in 1..Len(sampleLog) : i \notin samples => sampleLog[i] < now - RetentionWindow
      BY DEF PrunedWasOld
    <3> QED
      BY <1>0, <2>1, <3>1, <3>2
  <2>2. CASE SampleTaken
    <3>1. PICK n : n = Len(sampleLog)
      OBVIOUS
    <3>2. /\ Len(sampleLog') = n + 1 /\ \A i \in 1..n : sampleLog'[i] = sampleLog[i]
          /\ samples' = samples \cup {n + 1} /\ 1..(n + 1) = 1..n \cup {n + 1}
          /\ now' = now
      BY <2>2, <3>1, Sampled, Fields DEF SampleTaken
    <3> QED
      BY <3>1, <3>2 DEF PrunedWasOld
  <2>3. CASE SamplesPruned
    <3>1. before = now - RetentionWindow /\ now' = now /\ sampleLog' = sampleLog
          /\ \A i \in 1..Len(sampleLog) : i \notin samples' =>
                i \notin samples \/ sampleLog[i] < before
      BY <2>3 DEF SamplesPruned, Clockwork, Prunable
    <3> QED
      BY <1>0, <3>1 DEF PrunedWasOld
  <2> QED
    BY <2>1, <2>2, <2>3, Effects
<1>2. \A i \in 1..Len(eventLog') : i \notin events' =>
          eventLog'[i].ts < now' - RetentionWindow
  <2>1. CASE UNCHANGED <<eventLog, events>>
    <3>1. \A i \in 1..Len(eventLog) : eventLog[i].ts \in Nat
      BY <1>0
    <3>2. \A i \in 1..Len(eventLog) : i \notin events => eventLog[i].ts < now - RetentionWindow
      BY DEF PrunedWasOld
    <3> QED
      BY <1>0, <2>1, <3>1, <3>2
  <2>2. CASE \E e \in Rows : Inserted(e)
    <3>a. PICK e \in Rows : Inserted(e)
      BY <2>2
    <3>b. PICK n : n = Len(eventLog)
      OBVIOUS
    <3>1. Inserted(e) /\ n = Len(eventLog)
      BY <3>a, <3>b
    <3>2. /\ Len(eventLog') = n + 1 /\ \A i \in 1..n : eventLog'[i] = eventLog[i]
          /\ events' = events \cup {n + 1} /\ 1..(n + 1) = 1..n \cup {n + 1}
          /\ now' = now
      BY <3>1, Inserts DEF Inserted
    <3> QED
      BY <3>1, <3>2 DEF PrunedWasOld
  <2>3. CASE EventsPruned
    <3>1. before = now - RetentionWindow /\ now' = now /\ eventLog' = eventLog
          /\ \A i \in 1..Len(eventLog) : i \notin events' =>
                i \notin events \/ eventLog[i].ts < before
      BY <2>3 DEF EventsPruned, Clockwork, Prunable
    <3> QED
      BY <1>0, <3>1 DEF PrunedWasOld
  <2> QED
    BY <2>1, <2>2, <2>3, Effects
<1> QED
  BY <1>1, <1>2 DEF PrunedWasOld

-----------------------------------------------------------------------------
(* The changes of this process, in the log.                                *)

LEMMA OwnRows ==
    ASSUME Types, NEW n, n = Len(eventLog)
    PROVE  /\ n \in Nat /\ Own \subseteq 1..n
           /\ \A i \in Own : /\ i \in Nat /\ i =< n /\ i > started.events
                             /\ eventLog[i].ts \in Nat
<1>1. n \in Nat /\ Own \subseteq 1..n /\ eventLog \in Seq(Rows)
      /\ \A i \in Own : i > started.events
  BY DEF Types, Own
<1>2. \A i \in Own : eventLog[i].ts \in Nat
  BY <1>1, RowFields
<1>3. \A i \in 1..n : i \in Nat /\ i =< n
  BY <1>1
<1>4. \A i \in Own : i \in Nat /\ i =< n
  BY <1>1, <1>3
<1> QED
  BY <1>1, <1>2, <1>4

(* They stay as they are, unless a change is recorded or a process starts. *)
LEMMA OwnKept ==
    ASSUME Types, started' = started,
           \/ UNCHANGED <<eventLog, events>>
           \/ \E e \in Rows : InsertEvent(e) /\ e.type # "state_change"
           \/ EventsPruned
    PROVE  /\ Own' = Own /\ \A i \in Own : eventLog'[i] = eventLog[i]
           /\ (\A i \in Own : i \in events' <=> i \in events) \/ EventsPruned
<1>1. CASE UNCHANGED <<eventLog, events>>
  BY <1>1 DEF Own
<1>2. CASE \E e \in Rows : InsertEvent(e) /\ e.type # "state_change"
  <2>1. PICK e \in Rows : InsertEvent(e) /\ e.type # "state_change"
    BY <1>2
  <2>2. PICK n : n = Len(eventLog)
    OBVIOUS
  <2>3. /\ n \in Nat /\ Len(eventLog') = n + 1
        /\ \A i \in 1..n : eventLog'[i] = eventLog[i]
        /\ eventLog'[n + 1] = e /\ events' = events \cup {n + 1}
        /\ 1..(n + 1) = 1..n \cup {n + 1}
    BY <2>1, <2>2, Inserts
  <2>4. Own' = Own
    <3>1. Own' = {i \in 1..(n + 1) : /\ i > started.events
                                     /\ eventLog'[i].type = "state_change"}
      BY <2>3 DEF Own
    <3>2. Own = {i \in 1..n : /\ i > started.events
                              /\ eventLog[i].type = "state_change"}
      BY <2>2 DEF Own
    <3> QED
      BY <2>1, <2>3, <3>1, <3>2
  <2>5. \A i \in Own : i \in 1..n /\ i # n + 1
    BY <2>2, <2>3, OwnRows
  <2> QED
    BY <2>3, <2>4, <2>5
<1>3. CASE EventsPruned
  BY <1>3 DEF EventsPruned, Own
<1> QED
  BY <1>1, <1>2, <1>3

(* A change that is recorded is the last of them.                          *)
LEMMA OwnGrows ==
    ASSUME Types, NEW e \in Rows, InsertEvent(e), e.type = "state_change",
           started' = started, NEW n, n = Len(eventLog)
    PROVE  /\ n \in Nat /\ Own' = Own \cup {n + 1}
           /\ \A i \in Own : /\ i \in Nat /\ i < n + 1 /\ eventLog'[i] = eventLog[i]
                             /\ i \in events' <=> i \in events
           /\ eventLog'[n + 1] = e /\ n + 1 \in events'
<1>1. /\ n \in Nat /\ Len(eventLog') = n + 1
      /\ \A i \in 1..n : eventLog'[i] = eventLog[i]
      /\ eventLog'[n + 1] = e /\ events' = events \cup {n + 1}
      /\ 1..(n + 1) = 1..n \cup {n + 1}
  BY Inserts
<1>2. \A i \in Own : i \in 1..n /\ i \in Nat /\ i < n + 1
  BY <1>1, OwnRows
<1>3. n + 1 > started.events
  BY <1>1, Fields
<1>4. Own' = Own \cup {n + 1}
  <2>1. Own' = {i \in 1..(n + 1) : /\ i > started.events
                                   /\ eventLog'[i].type = "state_change"}
    BY <1>1 DEF Own
  <2>2. Own = {i \in 1..n : /\ i > started.events
                            /\ eventLog[i].type = "state_change"}
    BY DEF Own
  <2> QED
    BY <1>1, <1>3, <2>1, <2>2
<1> QED
  BY <1>1, <1>2, <1>4

(* The step that adds to them, the one that begins anew, and the others.   *)
Recording == /\ step = "event" /\ step' = "sample" /\ InsertEvent(StateChange(tick.at, tick.prev, state))
             /\ UNCHANGED <<now, state, tick, started, lostEvent>>

LEMMA OwnSteps ==
    ASSUME Types, [Next]_vars
    PROVE  \/ Start /\ Own' = {}
           \/ Recording
           \/ /\ Own' = Own /\ \A i \in Own : eventLog'[i] = eventLog[i]
              /\ (\A i \in Own : i \in events' <=> i \in events) \/ EventsPruned
<1>1. CASE Start
  <2>1. started'.events = Len(eventLog) /\ eventLog' = eventLog /\ Len(eventLog) \in Nat
    BY <1>1, Fields DEF Start, Started, tables
  <2>2. Own' = {}
    BY <2>1 DEF Own
  <2> QED
    BY <1>1, <2>2
<1>2. CASE Elapse \/ Decide \/ RecordSample \/ Fire \/ PruneSamples \/ Crash \/ UNCHANGED vars
  <2>1. UNCHANGED <<eventLog, events, started>>
    BY <1>2 DEF Elapse, Decide, RecordSample, Fire, PruneSamples, Crash, vars, tables
  <2> QED
    BY <2>1, OwnKept
<1>3. CASE RecordEvent
  <2>1. started' = started
    BY <1>3 DEF RecordEvent
  <2>2. CASE InsertEvent(StateChange(tick.at, tick.prev, state)) /\ UNCHANGED lostEvent
    BY <1>3, <2>2 DEF RecordEvent, Recording
  <2>3. CASE UNCHANGED <<eventLog, events>>
    BY <2>1, <2>3, OwnKept
  <2> QED
    BY <1>3, <2>2, <2>3 DEF RecordEvent
<1>4. CASE RecordCommand
  <2>1. CommandEvent(tick.at) \in Rows /\ CommandEvent(tick.at).type # "state_change"
    BY Fields, NewRows, ConstantTypes
  <2>2. InsertEvent(CommandEvent(tick.at)) /\ started' = started
    BY <1>4 DEF RecordCommand
  <2> QED
    BY <2>1, <2>2, OwnKept
<1>5. CASE Operate
  <2>1. OperatorEvent(now) \in Rows /\ OperatorEvent(now).type # "state_change"
    BY Fields, NewRows, ConstantTypes
  <2>2. InsertEvent(OperatorEvent(now)) /\ started' = started
    BY <1>5 DEF Operate
  <2> QED
    BY <2>1, <2>2, OwnKept
<1>6. CASE PruneEvents
  <2>1. started' = started /\ (UNCHANGED <<eventLog, events>> \/ EventsPruned)
    BY <1>6 DEF PruneEvents, EventsPruned
  <2> QED
    BY <2>1, OwnKept
<1> QED
  BY <1>1, <1>2, <1>3, <1>4, <1>5, <1>6 DEF Next

-----------------------------------------------------------------------------
(* Their order.                                                            *)

LEMMA InOrderStep ==
    ASSUME Types, Timed, InOrder, [Next]_vars
    PROVE  InOrder'
<1>1. PICK n : n = Len(eventLog)
  OBVIOUS
<1>2. /\ n \in Nat /\ now \in Nat /\ tick.at \in Nat /\ before \in Int
      /\ \A i \in Own : i \in 1..n /\ i \in Nat /\ eventLog[i].ts \in Nat
  BY <1>1, OwnRows, Fields
<1>3. CASE Start /\ Own' = {}
  BY <1>3 DEF InOrder
<1>4. CASE Recording
  <2>1. PICK e : e = StateChange(tick.at, tick.prev, state)
    OBVIOUS
  <2>2. e \in Rows /\ e.type = "state_change" /\ e.ts = tick.at
    BY <2>1, Fields, NewRows DEF Types
  <2>3. /\ Own' = Own \cup {n + 1}
        /\ \A i \in Own : /\ i < n + 1 /\ eventLog'[i] = eventLog[i]
                          /\ i \in events' <=> i \in events
        /\ eventLog'[n + 1] = e /\ n + 1 \in events'
    BY <1>1, <1>4, <2>1, <2>2, OwnGrows DEF Recording
  <2>4. \A i \in Own : eventLog[i].ts =< tick.at
    BY <1>4 DEF Recording, InOrder
  <2>5. \A i, j \in Own' : i < j => eventLog'[i].ts =< eventLog'[j].ts
    <3> SUFFICES ASSUME NEW i \in Own', NEW j \in Own', i < j
                 PROVE  eventLog'[i].ts =< eventLog'[j].ts
      OBVIOUS
    <3>1. CASE i \in Own /\ j \in Own
      BY <2>3, <3>1 DEF InOrder
    <3>2. CASE i \in Own /\ j = n + 1
      BY <2>2, <2>3, <2>4, <3>2
    <3>3. i # n + 1
      BY <1>2, <2>3
    <3> QED
      BY <2>3, <3>1, <3>2, <3>3
  <2>6. \A i, j \in Own' : i < j /\ i \in events' => j \in events'
    <3> SUFFICES ASSUME NEW i \in Own', NEW j \in Own', i < j, i \in events'
                 PROVE  j \in events'
      OBVIOUS
    <3>1. CASE i \in Own /\ j \in Own
      BY <2>3, <3>1 DEF InOrder
    <3>2. CASE j = n + 1
      BY <2>3, <3>2
    <3>3. i # n + 1 \/ j = n + 1
      BY <1>2, <2>3
    <3> QED
      BY <2>3, <3>1, <3>2, <3>3
  <2> QED
    BY <1>4, <2>5, <2>6 DEF Recording, InOrder
<1>5. CASE /\ Own' = Own /\ \A i \in Own : eventLog'[i] = eventLog[i]
           /\ (\A i \in Own : i \in events' <=> i \in events) \/ EventsPruned
  <2>1. \A i, j \in Own' : i < j => eventLog'[i].ts =< eventLog'[j].ts
    BY <1>5 DEF InOrder
  <2>2. ASSUME step' = "event" PROVE \A i \in Own' : eventLog'[i].ts =< tick'.at
    <3>1. CASE step = "event" /\ tick' = tick
      BY <1>5, <3>1 DEF InOrder
    <3>2. CASE Decide
      <4>1. tick'.at = now
        BY <3>2 DEF Decide
      <4> QED
        BY <1>1, <1>2, <1>5, <4>1 DEF Timed, RowsTimed
    <3> QED
      BY <2>2, <3>1, <3>2 DEF Next, Start, Started, Elapse, RecordEvent, RecordCommand,
         RecordSample, Operate, Fire, PruneSamples, PruneEvents, Crash, vars, loop
  <2>3. \A i, j \in Own' : i < j /\ i \in events' => j \in events'
    <3>1. CASE \A i \in Own : i \in events' <=> i \in events
      BY <1>5, <3>1 DEF InOrder
    <3>2. CASE EventsPruned
      <4> SUFFICES ASSUME NEW i \in Own, NEW j \in Own, i < j, i \in events'
                   PROVE  j \in events'
        BY <1>5
      <4>1. /\ i \in events /\ ~(eventLog[i].ts < before)
            /\ events' = {k \in events : ~(eventLog[k].ts < before)}
        BY <3>2 DEF EventsPruned, Prunable
      <4>2. j \in events /\ eventLog[i].ts =< eventLog[j].ts
        BY <4>1 DEF InOrder
      <4>3. ~(eventLog[j].ts < before)
        BY <1>2, <4>1, <4>2
      <4> QED
        BY <4>1, <4>2, <4>3
    <3> QED
      BY <1>5, <3>1, <3>2
  <2> QED
    BY <2>1, <2>2, <2>3 DEF InOrder
<1> QED
  BY <1>3, <1>4, <1>5, OwnSteps

(* How they follow each other.                                             *)
LEMMA ChainedStep ==
    ASSUME Types, step # "down" /\ ~lostEvent => Chained, [Next]_vars,
           step' # "down", ~lostEvent'
    PROVE  Chained'
<1>1. PICK n : n = Len(eventLog)
  OBVIOUS
<1>2. n \in Nat /\ \A i \in Own : i \in Nat /\ i < n + 1
  BY <1>1, OwnRows
<1>3. CASE Start /\ Own' = {}
  <2>1. Recorded' = InitialState
    BY <1>3 DEF Start, Started, Recorded
  <2> QED
    BY <1>3, <2>1 DEF Chained
<1>4. CASE Recording
  <2>1. PICK e : e = StateChange(tick.at, tick.prev, state)
    OBVIOUS
  <2>2. /\ e \in Rows /\ e.type = "state_change"
        /\ e.from = Recorded /\ e.to = Recorded'
    BY <1>4, <2>1, Fields, NewRows DEF Types, Recording, Recorded
  <2>3. /\ Own' = Own \cup {n + 1}
        /\ \A i \in Own : eventLog'[i] = eventLog[i]
        /\ eventLog'[n + 1] = e
    BY <1>1, <1>4, <2>1, <2>2, OwnGrows DEF Recording
  <2>4. Chained
    BY <1>4 DEF Recording
  <2>5. \A i, j \in Own' : i < j /\ (\A l \in Own' : l =< i \/ j =< l)
                             => eventLog'[j].from = eventLog'[i].to
    <3> SUFFICES ASSUME NEW i \in Own', NEW j \in Own', i < j,
                        \A l \in Own' : l =< i \/ j =< l
                 PROVE  eventLog'[j].from = eventLog'[i].to
      OBVIOUS
    <3>1. CASE i \in Own /\ j \in Own
      <4>1. \A l \in Own : l =< i \/ j =< l
        BY <2>3
      <4> QED
        BY <2>3, <2>4, <3>1, <4>1 DEF Chained
    <3>2. CASE i \in Own /\ j = n + 1
      <4>1. \A l \in Own : l =< i
        BY <1>2, <2>3, <3>2
      <4>2. eventLog[i].to = Recorded
        BY <2>4, <3>2, <4>1 DEF Chained
      <4> QED
        BY <2>2, <2>3, <3>2, <4>2
    <3>3. i # n + 1
      BY <1>2, <2>3
    <3> QED
      BY <2>3, <3>1, <3>2, <3>3
  <2>6. \A i \in Own' : (\A l \in Own' : l =< i) => eventLog'[i].to = Recorded'
    <3> SUFFICES ASSUME NEW i \in Own', \A l \in Own' : l =< i
                 PROVE  eventLog'[i].to = Recorded'
      OBVIOUS
    <3>1. i = n + 1
      BY <1>2, <2>3
    <3> QED
      BY <2>2, <2>3, <3>1
  <2>7. \A i \in Own' : (\A l \in Own' : i =< l) => eventLog'[i].from = InitialState
    <3> SUFFICES ASSUME NEW i \in Own', \A l \in Own' : i =< l
                 PROVE  eventLog'[i].from = InitialState
      OBVIOUS
    <3>1. CASE i \in Own
      <4>1. \A l \in Own : i =< l
        BY <2>3
      <4> QED
        BY <2>3, <2>4, <3>1, <4>1 DEF Chained
    <3>2. CASE i = n + 1
      <4>1. Own = {}
        BY <1>2, <2>3, <3>2
      <4> QED
        BY <2>2, <2>3, <2>4, <3>2, <4>1 DEF Chained
    <3> QED
      BY <2>3, <3>1, <3>2
  <2>8. Own' # {}
    BY <2>3
  <2> QED
    BY <2>5, <2>6, <2>7, <2>8 DEF Chained
<1>5. CASE ~Start /\ ~Recording /\ Own' = Own /\ \A i \in Own : eventLog'[i] = eventLog[i]
  <2>1. step # "down" /\ ~lostEvent /\ Recorded' = Recorded
    <3>1. CASE Decide
      <4>1. step = "due" /\ UNCHANGED lostEvent /\ tick'.prev = state
        BY <3>1 DEF Decide
      <4>2. state' = state \/ step' = "event"
        BY <3>1 DEF Decide
      <4> QED
        BY <4>1, <4>2 DEF Recorded
    <3>2. CASE RecordEvent
      BY <1>5, <3>2 DEF RecordEvent, Recording
    <3>3. CASE UNCHANGED loop /\ lostEvent' = lostEvent
      BY <3>3 DEF loop, Recorded
    <3>4. CASE Elapse
      <4>1. UNCHANGED <<state, tick, lostEvent>> /\ step' = IF step = "idle" THEN "due" ELSE step
        BY <3>4 DEF Elapse
      <4> QED
        BY <4>1 DEF Recorded
    <3>5. CASE RecordSample
      BY <3>5 DEF RecordSample, Recorded
    <3> QED
      BY <1>5, <3>1, <3>2, <3>3, <3>4, <3>5
      DEF Next, RecordCommand, Operate, Fire, PruneSamples, PruneEvents, Crash, vars
  <2>2. Chained
    BY <2>1
  <2> QED
    BY <1>5, <2>1, <2>2 DEF Chained
<1> QED
  <2>1. CASE Start
    <3>1. Own' = {}
      <4>1. started'.events = Len(eventLog) /\ eventLog' = eventLog
        BY <2>1 DEF Start, Started, tables
      <4> QED
        BY <1>1, <1>2, <4>1 DEF Own
    <3> QED
      BY <1>3, <2>1, <3>1
  <2> QED
    BY <1>3, <1>4, <1>5, <2>1, OwnSteps

-----------------------------------------------------------------------------
(* What the janitor left behind.                                           *)

TickIsShort == step \in {"event", "sample"} => now - tick.at =< MaxTickTime

(* No step adds a row older than the window, so none before a cut-off that *)
(* is as old comes back.                                                   *)
LEMMA NoneComesBack ==
    ASSUME Types, TickIsShort, MaxTickTime =< RetentionWindow, [Next]_vars,
           NEW cutoff \in Int, cutoff =< now - RetentionWindow
    PROVE  /\ (\A i \in samples : cutoff =< sampleLog[i])
                 => \A i \in samples' : cutoff =< sampleLog'[i]
           /\ (\A i \in events : cutoff =< eventLog[i].ts)
                 => \A i \in events' : cutoff =< eventLog'[i].ts
<1>1. /\ now \in Nat /\ tick.at \in Nat /\ MaxTickTime \in Nat /\ RetentionWindow \in Nat
  BY Fields, ConstantTypes
<1>2. /\ step \in {"event", "sample"} => cutoff =< tick.at
      /\ cutoff =< now
  BY <1>1 DEF TickIsShort
<1>3. ASSUME \A i \in samples : cutoff =< sampleLog[i]
      PROVE  \A i \in samples' : cutoff =< sampleLog'[i]
  <2>1. CASE SampleTaken
    <3>1. PICK n : n = Len(sampleLog)
      OBVIOUS
    <3>2. /\ \A i \in 1..n : sampleLog'[i] = sampleLog[i]
          /\ samples' = samples \cup {n + 1} /\ samples \subseteq 1..n
          /\ sampleLog'[n + 1] = tick.at
      BY <2>1, <3>1, Sampled, Fields DEF SampleTaken
    <3> QED
      BY <1>2, <1>3, <2>1, <3>2 DEF SampleTaken
  <2> QED
    BY <1>3, <2>1, Effects DEF SamplesPruned
<1>4. ASSUME \A i \in events : cutoff =< eventLog[i].ts
      PROVE  \A i \in events' : cutoff =< eventLog'[i].ts
  <2>1. CASE \E e \in Rows : Inserted(e)
    <3>1. PICK e \in Rows : Inserted(e)
      BY <2>1
    <3>2. PICK n : n = Len(eventLog)
      OBVIOUS
    <3>3. /\ \A i \in 1..n : eventLog'[i] = eventLog[i]
          /\ events' = events \cup {n + 1} /\ events \subseteq 1..n
          /\ eventLog'[n + 1] = e
      BY <3>1, <3>2, Inserts DEF Inserted
    <3>4. cutoff =< e.ts
      BY <1>2, <3>1 DEF Inserted
    <3> QED
      BY <1>4, <3>3, <3>4
  <2> QED
    BY <1>4, <2>1, Effects DEF EventsPruned
<1> QED
  BY <1>3, <1>4

LEMMA LastPrunedStep ==
    ASSUME Types, Clockwork, MaxTickTime =< RetentionWindow, LastPruned, [Next]_vars
    PROVE  LastPruned'
<1>1. /\ now \in Nat /\ tick.at \in Nat /\ fireAt \in Nat /\ before \in Int
      /\ MaxTickTime \in Nat /\ RetentionWindow \in Nat /\ RetentionInterval \in Nat
      /\ started.at \in Nat /\ started.at =< now
  BY Fields, ConstantTypes
<1>2. TickIsShort /\ (janitor # "off" => started.at + RetentionInterval =< fireAt)
  BY DEF LastPruned, TickIsShort
<1>3. TickIsShort'
  <2>1. CASE Elapse
    <3>1. CASE step \in {"down", "idle"}
      BY <2>1, <3>1 DEF Elapse, TickIsShort
    <3>2. CASE step \in {"event", "sample"}
      <4>1. now - tick.at < MaxTickTime /\ now' = now + 1 /\ tick' = tick
        BY <2>1, <3>2 DEF Elapse
      <4> QED
        BY <1>1, <4>1 DEF TickIsShort
    <3> QED
      BY <2>1, <3>1, <3>2 DEF Elapse
  <2>2. CASE Decide
    <3>1. tick'.at = now /\ now' = now
      BY <2>2 DEF Decide
    <3> QED
      BY <1>1, <3>1 DEF TickIsShort
  <2>3. CASE now' = now /\ tick' = tick /\ (step' = step \/ (step = "event" /\ step' = "sample"))
    BY <1>2, <2>3 DEF TickIsShort
  <2>4. CASE step' \in {"down", "due", "idle"}
    BY <2>4 DEF TickIsShort
  <2> QED
    BY <2>1, <2>2, <2>3, <2>4
    DEF Next, Start, Started, RecordEvent, RecordCommand, RecordSample, Operate, Fire,
        PruneSamples, PruneEvents, Crash, vars, loop
<1>4. janitor' # "off" => started'.at + RetentionInterval =< fireAt'
  <2>1. CASE Start
    <3>1. started'.at = now /\ fireAt' = now + RetentionInterval
      BY <2>1 DEF Start, Started
    <3> QED
      BY <1>1, <3>1
  <2>2. CASE Fire
    <3>1. started' = started /\ fireAt' = fireAt + RetentionInterval /\ janitor = "waiting"
      BY <2>2 DEF Fire
    <3> QED
      BY <1>1, <1>2, <3>1
  <2>3. CASE UNCHANGED <<fireAt, started>> /\ (janitor' # "off" => janitor # "off")
    BY <1>2, <2>3
  <2>4. CASE janitor' = "off"
    BY <2>4
  <2> QED
    BY <2>1, <2>2, <2>3, <2>4
    DEF Next, Elapse, Decide, RecordEvent, RecordCommand, RecordSample, Operate,
        PruneSamples, PruneEvents, Crash, vars, cleaner
<1>5. CASE UNCHANGED <<janitor, fireAt, before, unpruned, started>>
  <2>1. ASSUME janitor' = "events" /\ ~unpruned'
        PROVE  \A i \in samples' : before' =< sampleLog'[i]
    <3>1. PICK c : c = before
      OBVIOUS
    <3>2. c \in Int /\ c =< now - RetentionWindow /\ \A i \in samples : c =< sampleLog[i]
      BY <1>1, <1>5, <2>1, <3>1 DEF LastPruned, Clockwork
    <3>3. \A i \in samples' : c =< sampleLog'[i]
      BY <1>2, <3>2, NoneComesBack
    <3> QED
      BY <1>5, <3>1, <3>3
  <2>2. ASSUME janitor' = "waiting", ~unpruned', started'.at + RetentionInterval < fireAt'
        PROVE  NoneBefore(fireAt - RetentionInterval - RetentionWindow)'
    <3>1. PICK c : c = fireAt - RetentionInterval - RetentionWindow
      OBVIOUS
    <3>2. /\ c \in Int /\ c =< now - RetentionWindow
      BY <1>1, <1>5, <2>2, <3>1 DEF Clockwork
    <3>3. NoneBefore(c)
      BY <1>5, <2>2, <3>1 DEF LastPruned
    <3>4. (\A i \in samples' : c =< sampleLog'[i]) /\ (\A i \in events' : c =< eventLog'[i].ts)
      BY <1>2, <3>2, <3>3, NoneComesBack DEF NoneBefore
    <3> QED
      BY <1>5, <3>1, <3>4 DEF NoneBefore
  <2> QED
    BY <1>3, <1>4, <2>1, <2>2 DEF LastPruned, TickIsShort
<1>6. CASE Start
  <2>1. started'.at = now /\ fireAt' = now + RetentionInterval /\ janitor' # "events"
    BY <1>6 DEF Start, Started
  <2>2. ~(started'.at + RetentionInterval < fireAt')
    BY <1>1, <2>1
  <2> QED
    BY <1>3, <1>4, <2>1, <2>2 DEF LastPruned, TickIsShort
<1>7. CASE Fire
  <2>1. janitor' = "samples"
    BY <1>7 DEF Fire
  <2> QED
    BY <1>3, <1>4, <2>1 DEF LastPruned, TickIsShort
<1>8. CASE PruneSamples
  <2>1. janitor' = "events" /\ before' = before /\ sampleLog' = sampleLog
    BY <1>8 DEF PruneSamples
  <2>2. unpruned' = TRUE \/ samples' = {i \in samples : ~Prunable(sampleLog[i])}
    BY <1>8 DEF PruneSamples
  <2>3. \A i \in samples : sampleLog[i] \in Nat
    BY DEF Types
  <2>4. ~unpruned' => \A i \in samples' : before' =< sampleLog'[i]
    BY <1>1, <2>1, <2>2, <2>3 DEF Prunable
  <2> QED
    BY <1>3, <1>4, <2>1, <2>4 DEF LastPruned, TickIsShort
<1>9. CASE PruneEvents
  <2>1. /\ janitor = "events" /\ janitor' = "waiting" /\ fireAt' = fireAt /\ started' = started
        /\ UNCHANGED <<samples, sampleLog, eventLog, now>>
    BY <1>9 DEF PruneEvents
  <2>2. unpruned' = TRUE \/ (unpruned' = unpruned
                              /\ events' = {i \in events : ~Prunable(eventLog[i].ts)})
    BY <1>9 DEF PruneEvents
  <2>3. \A i \in events : eventLog[i].ts \in Nat
    BY RowFields DEF Types
  <2>4. ASSUME ~unpruned'
        PROVE  NoneBefore(fireAt - RetentionInterval - RetentionWindow)'
    <3>1. before = fireAt - RetentionInterval - RetentionWindow
      BY <1>1, <2>1 DEF Clockwork
    <3>2. \A i \in samples' : before =< sampleLog'[i]
      BY <2>1, <2>2, <2>4 DEF LastPruned
    <3>3. \A i \in events' : before =< eventLog'[i].ts
      BY <1>1, <2>1, <2>2, <2>3, <2>4 DEF Prunable
    <3> QED
      BY <2>1, <3>1, <3>2, <3>3 DEF NoneBefore
  <2> QED
    BY <1>3, <1>4, <2>1, <2>4 DEF LastPruned, TickIsShort
<1>10. CASE Crash
  <2>1. janitor' = "off"
    BY <1>10 DEF Crash
  <2> QED
    BY <1>3, <1>4, <2>1 DEF LastPruned, TickIsShort
<1> QED
  BY <1>5, <1>6, <1>7, <1>8, <1>9, <1>10
  DEF Next, Elapse, Decide, RecordEvent, RecordCommand, RecordSample, Operate, vars, cleaner

-----------------------------------------------------------------------------
(* The invariant holds.                                                    *)

LEMMA Initially == Init => IInv /\ LastPruned
<1> SUFFICES ASSUME Init PROVE IInv /\ LastPruned
  OBVIOUS
<1>1. /\ now = 0 /\ state = InitialState /\ step = "down" /\ tick = NoTick
      /\ sampleLog = <<>> /\ samples = {} /\ eventLog = <<>> /\ events = {}
      /\ janitor = "off" /\ fireAt = 0 /\ before = 0
      /\ started = [at |-> 0, events |-> 0]
      /\ lostEvent = FALSE /\ unpruned = FALSE /\ disturbed = 0
  BY DEF Init
<1>2. Len(sampleLog) = 0 /\ Len(eventLog) = 0 /\ 1..0 = {}
      /\ sampleLog \in Seq(Nat) /\ eventLog \in Seq(Rows)
  BY <1>1, EmptySeq
<1>3. Types
  <2>1. 0 \in 0..MaxNow /\ 0 \in 0..MaxDisturbances /\ 0 \in 0..0
    BY ConstantTypes
  <2>2. tick \in [at : 0..0, prev : States] /\ started \in [at : 0..0, events : 0..0]
    BY <1>1, <2>1, ConstantTypes DEF NoTick
  <2>3. samples \subseteq 1..Len(sampleLog) /\ events \subseteq 1..Len(eventLog)
    BY <1>1
  <2>4. fireAt \in Nat /\ before \in Int
    BY <1>1
  <2> QED
    BY <1>1, <1>2, <2>1, <2>2, <2>3, <2>4, ConstantTypes DEF Types
<1>4. Timed /\ PrunedWasOld
  BY <1>1, <1>2, ConstantTypes DEF Timed, RowsTimed, Clockwork, PrunedWasOld
<1>5. Own = {}
  BY <1>2 DEF Own
<1>6. InOrder
  BY <1>1, <1>5 DEF InOrder
<1>7. LastPruned
  BY <1>1 DEF LastPruned
<1> QED
  BY <1>1, <1>3, <1>4, <1>6, <1>7 DEF IInv

LEMMA Step == IInv /\ [Next]_vars => IInv'
<1> SUFFICES ASSUME IInv, [Next]_vars PROVE IInv'
  OBVIOUS
<1>1. Types /\ Timed /\ RowsTimed /\ Clockwork /\ PrunedWasOld /\ InOrder
      /\ (step # "down" /\ ~lostEvent => Chained)
  BY DEF IInv, Timed
<1>2. TableTypes' /\ Len(eventLog) =< Len(eventLog')
  BY <1>1, TablesStep
<1>3. Len(eventLog') \in Nat
  BY <1>2 DEF TableTypes
<1>4. ClockTypes'
  BY <1>1, <1>2, <1>3, ClockStep
<1>5. Types'
  BY <1>2, <1>4 DEF Types, ClockTypes, TableTypes
<1>6. now' \in Nat /\ now =< now' /\ Clockwork'
  BY <1>1, <1>5, ClockworkStep, ConstantTypes DEF Types
<1>7. RowsTimed' /\ PrunedWasOld'
  BY <1>1, <1>6, RowsTimedStep, PrunedWasOldStep
<1>8. InOrder'
  BY <1>1, InOrderStep
<1>9. step' # "down" /\ ~lostEvent' => Chained'
  BY <1>1, ChainedStep
<1> QED
  BY <1>5, <1>6, <1>7, <1>8, <1>9 DEF IInv, Timed

(* Types, times, the order and the chain of the changes, in every state.   *)
THEOREM HistoryInvariant == Spec => []IInv
BY Initially, Step, PTL DEF Spec

(* No row younger than the window is missing from its table, whichever     *)
(* calls fail and whatever races the pruning: prune computes one cut-off,  *)
(* and no row it spares is touched.                                        *)
THEOREM YoungRowsStay == Spec => []RetentionInv
<1>1. IInv => RetentionInv
  <2> SUFFICES ASSUME IInv PROVE RetentionInv
    OBVIOUS
  <2>1. Types /\ RowsTimed /\ Clockwork /\ PrunedWasOld
    BY DEF IInv, Timed
  <2>2. /\ sampleLog \in Seq(Nat) /\ eventLog \in Seq(Rows)
        /\ DOMAIN sampleLog = 1..Len(sampleLog) /\ DOMAIN eventLog = 1..Len(eventLog)
    BY <2>1 DEF Types
  <2>3. /\ now \in Nat /\ tick.at \in 0..now /\ tick.prev \in States
        /\ before \in Int /\ fireAt \in Nat /\ RetentionWindow \in Nat
        /\ RetentionInterval \in Nat
    BY <2>1, Fields, ConstantTypes DEF Types
  <2>4. /\ \A i \in DOMAIN sampleLog : sampleLog[i] \in 0..now
        /\ \A i \in DOMAIN eventLog : eventLog[i].ts \in 0..now
    <3>1. \A i \in DOMAIN eventLog : eventLog[i].ts \in Nat
      BY <2>2, RowFields
    <3> QED
      BY <2>1, <2>2, <2>3, <3>1 DEF RowsTimed
  <2>5. before =< now /\ (janitor = "waiting" => fireAt \in now..(now + RetentionInterval))
    BY <2>1, <2>3 DEF Clockwork, Types
  <2>6. TypeOK
    BY <2>1, <2>2, <2>3, <2>4, <2>5 DEF TypeOK, Types, Clockwork
  <2>7. YoungRowsAreKept
    BY <2>1, <2>2 DEF YoungRowsAreKept, PrunedWasOld
  <2> QED
    BY <2>6, <2>7 DEF RetentionInv
<1> QED
  BY <1>1, HistoryInvariant, PTL

(* The database does not grow without bound: a process that is up for an   *)
(* interval, and whose pruning did not fail, has no row older than the     *)
(* window and an interval.  A tick must not outlast the window: its rows   *)
(* carry the time it began, and would be inserted behind the janitor.      *)
THEOREM OldRowsDoGo ==
    ASSUME RetentionWindow = 0 \/ MaxTickTime =< RetentionWindow
    PROVE  Spec => []OldRowsGo
<1>1. CASE RetentionWindow = 0
  <2>1. IInv => OldRowsGo
    BY <1>1 DEF IInv, Timed, Clockwork, OldRowsGo
  <2> QED
    BY <2>1, HistoryInvariant, PTL
<1>2. CASE MaxTickTime =< RetentionWindow
  <2>1. Init => LastPruned
    BY Initially
  <2>2. IInv /\ LastPruned /\ [Next]_vars => LastPruned'
    BY <1>2, LastPrunedStep DEF IInv, Timed
  <2>3. IInv /\ LastPruned => OldRowsGo
    <3> SUFFICES ASSUME IInv, LastPruned, janitor = "waiting", now < fireAt,
                        now >= started.at + RetentionInterval, ~unpruned
                 PROVE  LET oldest == now - RetentionWindow - RetentionInterval
                        IN  /\ \A i \in samples : sampleLog[i] >= oldest
                            /\ \A i \in events : eventLog[i].ts >= oldest
      BY DEF OldRowsGo
    <3>1. Types
      BY DEF IInv
    <3>2. /\ now \in Nat /\ fireAt \in Nat /\ started.at \in Nat
          /\ RetentionWindow \in Nat /\ RetentionInterval \in Nat
          /\ \A i \in samples : sampleLog[i] \in Nat
      BY <3>1, Fields, ConstantTypes DEF Types
    <3>3. \A i \in events : eventLog[i].ts \in Nat
      BY <3>1, RowFields DEF Types
    <3>4. started.at + RetentionInterval < fireAt
      BY <3>2
    <3>5. NoneBefore(fireAt - RetentionInterval - RetentionWindow)
      BY <3>4 DEF LastPruned
    <3> QED
      BY <3>2, <3>3, <3>5 DEF NoneBefore
  <2> QED
    BY <2>1, <2>2, <2>3, HistoryInvariant, PTL DEF Spec
<1>3. RetentionWindow = 0 \/ MaxTickTime =< RetentionWindow
  OBVIOUS
<1> QED
  BY <1>1, <1>2, <1>3

-----------------------------------------------------------------------------
(* What the queries return.                                                *)

(* Row j comes before row i; how many rows of ids do.                      *)
Earlier(ts, j, i) == ts[j] < ts[i] \/ (ts[j] = ts[i] /\ j < i)
Rank(ids, ts, i) == Cardinality({j \in ids : Earlier(ts, j, i)})

(* Rows have different ranks, in the order they come, below their number.  *)
LEMMA RanksAreOrdered ==
    ASSUME NEW ids \in SUBSET Nat, IsFiniteSet(ids),
           NEW ts, \A i \in ids : ts[i] \in Nat
    PROVE  /\ \A i \in ids : Rank(ids, ts, i) \in 0..(Cardinality(ids) - 1)
           /\ \A i, j \in ids : Earlier(ts, j, i) => Rank(ids, ts, j) < Rank(ids, ts, i)
           /\ \A i, j \in ids : i = j \/ Earlier(ts, i, j) \/ Earlier(ts, j, i)
<1> DEFINE B(i) == {j \in ids : Earlier(ts, j, i)}
<1>1. /\ \A i, j \in ids : i = j \/ Earlier(ts, i, j) \/ Earlier(ts, j, i)
      /\ \A i \in ids : ~Earlier(ts, i, i)
      /\ \A i, j, k \in ids : Earlier(ts, i, j) /\ Earlier(ts, j, k) => Earlier(ts, i, k)
  <2>1. \A i \in ids : i \in Nat
    OBVIOUS
  <2> QED
    BY <2>1 DEF Earlier
<1>2. \A i \in ids : B(i) \subseteq ids /\ B(i) # ids
  BY <1>1
<1>3. Cardinality(ids) \in Nat
  BY FS_CardinalityType
<1>4. \A i \in ids : /\ IsFiniteSet(B(i)) /\ Cardinality(B(i)) \in Nat
                     /\ Cardinality(B(i)) < Cardinality(ids)
  <2> SUFFICES ASSUME NEW i \in ids
               PROVE  /\ IsFiniteSet(B(i)) /\ Cardinality(B(i)) \in Nat
                      /\ Cardinality(B(i)) < Cardinality(ids)
    OBVIOUS
  <2> HIDE DEF B
  <2>1. B(i) \in SUBSET ids /\ B(i) # ids
    BY <1>2
  <2>2. /\ IsFiniteSet(B(i)) /\ Cardinality(B(i)) =< Cardinality(ids)
        /\ Cardinality(ids) = Cardinality(B(i)) => ids = B(i)
    BY <2>1, FS_Subset
  <2>3. Cardinality(B(i)) \in Nat
    BY <2>2, FS_CardinalityType
  <2> QED
    BY <1>3, <2>1, <2>2, <2>3
<1>5. \A i, j \in ids : Earlier(ts, j, i) => Cardinality(B(j)) < Cardinality(B(i))
  <2> SUFFICES ASSUME NEW i \in ids, NEW j \in ids, Earlier(ts, j, i)
               PROVE  Cardinality(B(j)) < Cardinality(B(i))
    OBVIOUS
  <2>1. B(j) \subseteq B(i) /\ j \in B(i) /\ j \notin B(j)
    BY <1>1
  <2> HIDE DEF B
  <2>2. B(j) \in SUBSET B(i) /\ B(j) # B(i) /\ IsFiniteSet(B(i))
    BY <1>4, <2>1
  <2>3. /\ Cardinality(B(j)) =< Cardinality(B(i))
        /\ Cardinality(B(i)) = Cardinality(B(j)) => B(i) = B(j)
    BY <2>2, FS_Subset
  <2> QED
    BY <1>4, <2>2, <2>3
<1>6. \A i : Rank(ids, ts, i) = Cardinality(B(i))
  BY DEF Rank
<1> HIDE DEF B
<1>7. \A i \in ids : Rank(ids, ts, i) \in 0..(Cardinality(ids) - 1)
  BY <1>3, <1>4, <1>6
<1> QED
  BY <1>1, <1>5, <1>6, <1>7

(* So every rank below their number is some row's.                         *)
LEMMA EveryRankIsTaken ==
    ASSUME NEW ids \in SUBSET Nat, IsFiniteSet(ids),
           NEW ts, \A i \in ids : ts[i] \in Nat
    PROVE  \A r \in 0..(Cardinality(ids) - 1) : \E i \in ids : Rank(ids, ts, i) = r
<1> DEFINE n == Cardinality(ids)
           T == 0..(n - 1)
           f == [i \in ids |-> Rank(ids, ts, i)]
<1>1. n \in Nat
  BY FS_CardinalityType
<1>2. f \in [ids -> T]
  BY RanksAreOrdered
<1>3. \A i, j \in ids : f[i] = f[j] => i = j
  <2> SUFFICES ASSUME NEW i \in ids, NEW j \in ids, f[i] = f[j] PROVE i = j
    OBVIOUS
  <2>1. f[i] = Rank(ids, ts, i) /\ f[j] = Rank(ids, ts, j) /\ f[i] \in T /\ f[j] \in T
    BY <1>2
  <2>2. /\ Earlier(ts, j, i) => f[j] < f[i]
        /\ Earlier(ts, i, j) => f[i] < f[j]
        /\ i = j \/ Earlier(ts, i, j) \/ Earlier(ts, j, i)
    BY <2>1, RanksAreOrdered
  <2> QED
    BY <1>1, <2>1, <2>2
<1>4. IsFiniteSet(T) /\ Cardinality(T) = n
  BY <1>1, FS_Interval
<1>5. f \in Injection(ids, T)
  BY <1>2, <1>3 DEF Injection, IsInjective
<1>6. f \in Surjection(ids, T)
  BY <1>4, <1>5, FS_Injection
<1>7. \A r \in T : \E i \in ids : f[i] = r
  BY <1>6 DEF Surjection
<1> QED
  BY <1>7

(* ORDER BY: every row once, each before those it is earlier than.         *)
LEMMA ByTimeSorts ==
    ASSUME NEW ids \in SUBSET Nat, IsFiniteSet(ids),
           NEW ts, \A i \in ids : ts[i] \in Nat,
           NEW sorted, sorted = ByTime(ids, ts)
    PROVE  /\ Cardinality(ids) \in Nat /\ sorted \in [1..Cardinality(ids) -> ids]
           /\ \A i \in ids : \E k \in 1..Cardinality(ids) : sorted[k] = i
           /\ \A j, k \in 1..Cardinality(ids) : j < k => Earlier(ts, sorted[j], sorted[k])
<1>1. PICK n : n = Cardinality(ids)
  OBVIOUS
<1>2. n \in Nat
  BY <1>1, FS_CardinalityType
<1>3. sorted = [k \in 1..n |-> CHOOSE i \in ids : Rank(ids, ts, i) = k - 1]
  BY <1>1 DEF ByTime, Rank, Earlier
<1>4. \A k \in 1..n : sorted[k] \in ids /\ Rank(ids, ts, sorted[k]) = k - 1
  <2> SUFFICES ASSUME NEW k \in 1..n
               PROVE  sorted[k] \in ids /\ Rank(ids, ts, sorted[k]) = k - 1
    OBVIOUS
  <2>1. k - 1 \in 0..(n - 1)
    BY <1>2
  <2>2. \E i \in ids : Rank(ids, ts, i) = k - 1
    BY <1>1, <2>1, EveryRankIsTaken
  <2> QED
    BY <1>3, <2>2
<1>5. sorted \in [1..n -> ids]
  BY <1>3, <1>4
<1>6. /\ \A i \in ids : Rank(ids, ts, i) \in 0..(n - 1)
      /\ \A i, j \in ids : Earlier(ts, j, i) => Rank(ids, ts, j) < Rank(ids, ts, i)
      /\ \A i, j \in ids : i = j \/ Earlier(ts, i, j) \/ Earlier(ts, j, i)
  BY <1>1, RanksAreOrdered
<1>7. ASSUME NEW i \in ids PROVE \E k \in 1..n : sorted[k] = i
  <2>1. PICK r \in 0..(n - 1) : Rank(ids, ts, i) = r
    BY <1>6
  <2>2. r + 1 \in 1..n /\ (r + 1) - 1 = r
    BY <1>2
  <2>3. sorted[r + 1] \in ids /\ Rank(ids, ts, sorted[r + 1]) = r
    BY <1>4, <2>2
  <2>4. ~(r < r)
    OBVIOUS
  <2>5. sorted[r + 1] = i
    BY <1>6, <2>1, <2>3, <2>4
  <2> QED
    BY <2>2, <2>5
<1>8. ASSUME NEW j \in 1..n, NEW k \in 1..n, j < k
      PROVE  Earlier(ts, sorted[j], sorted[k])
  <2>1. /\ sorted[j] \in ids /\ Rank(ids, ts, sorted[j]) = j - 1
        /\ sorted[k] \in ids /\ Rank(ids, ts, sorted[k]) = k - 1
    BY <1>4
  <2>2. j - 1 # k - 1 /\ ~(k - 1 < j - 1)
    BY <1>2, <1>8
  <2>3. sorted[j] # sorted[k]
    BY <2>1, <2>2
  <2>4. ~Earlier(ts, sorted[k], sorted[j])
    <3>1. Earlier(ts, sorted[k], sorted[j])
             => Rank(ids, ts, sorted[k]) < Rank(ids, ts, sorted[j])
      BY <1>6, <2>1
    <3> QED
      BY <2>1, <2>2, <3>1
  <2> QED
    BY <1>6, <2>1, <2>3, <2>4
<1> QED
  BY <1>1, <1>2, <1>5, <1>7, <1>8

LEMMA LimitedIs ==
    ASSUME NEW S, NEW s \in Seq(S), NEW limit \in Nat
    PROVE  /\ Len(Limited(s, limit)) = IF Len(s) < limit THEN Len(s) ELSE limit
           /\ DOMAIN Limited(s, limit) = 1..Len(Limited(s, limit))
           /\ \A k \in 1..Len(Limited(s, limit)) : Limited(s, limit)[k] = s[k]
<1>1. PICK l : l = IF Len(s) < limit THEN Len(s) ELSE limit
  OBVIOUS
<1>2. l \in 0..Len(s) /\ Limited(s, limit) = SubSeq(s, 1, l)
  BY <1>1 DEF Limited
<1>3. Len(SubSeq(s, 1, l)) = l /\ \A k \in 1..l : SubSeq(s, 1, l)[k] = s[k]
  BY <1>2
<1>4. DOMAIN SubSeq(s, 1, l) = 1..l
  BY <1>2, <1>3
<1> QED
  BY <1>1, <1>2, <1>3, <1>4

LEMMA TablesAreFinite ==
    ASSUME Types
    PROVE  /\ IsFiniteSet(samples) /\ samples \in SUBSET Nat
           /\ IsFiniteSet(events) /\ events \in SUBSET Nat
           /\ Cardinality(events) \in Nat
<1>1. /\ Len(sampleLog) \in Nat /\ samples \subseteq 1..Len(sampleLog)
      /\ Len(eventLog) \in Nat /\ events \subseteq 1..Len(eventLog)
  BY DEF Types
<1>2. IsFiniteSet(1..Len(sampleLog)) /\ IsFiniteSet(1..Len(eventLog))
  BY <1>1, FS_Interval
<1>3. IsFiniteSet(samples) /\ IsFiniteSet(events)
  BY <1>1, <1>2, FS_Subset
<1> QED
  BY <1>1, <1>3, FS_CardinalityType

(* The answer of /api/history has no hole, however many rows there are,    *)
(* whatever the clamp and the limit cut off, in every state.               *)
THEOREM NoHoles == Spec => []HistoryHasNoHoles
<1>1. Types => HistoryHasNoHoles
  <2> SUFFICES ASSUME Types, NEW from \in 0..now, NEW to \in 0..now, from =< to
               PROVE  LET answer == Samples(from, to)
                          last == IF Len(answer) = MaxHistoryRows
                                  THEN sampleLog[answer[MaxHistoryRows]] - 1 ELSE to
                          first == IF from < to - MaxHistoryWindow
                                   THEN to - MaxHistoryWindow ELSE from
                      IN  {i \in samples : sampleLog[i] \in first..last} \subseteq ToSet(answer)
    BY DEF HistoryHasNoHoles
  <2> DEFINE answer == Samples(from, to)
             last == IF Len(answer) = MaxHistoryRows
                     THEN sampleLog[answer[MaxHistoryRows]] - 1 ELSE to
             first == IF from < to - MaxHistoryWindow THEN to - MaxHistoryWindow ELSE from
             found == {i \in samples : first =< sampleLog[i] /\ sampleLog[i] =< to}
  <2>1. /\ now \in Nat /\ from \in Nat /\ to \in Nat
        /\ MaxHistoryRows \in Nat /\ MaxHistoryRows > 0 /\ MaxHistoryWindow \in Nat
        /\ \A i \in samples : sampleLog[i] \in Nat
    BY Fields, ConstantTypes DEF Types
  <2>2. Clamped(from, to).from = first /\ Clamped(from, to).to = to
    BY <2>1 DEF Clamped
  <2>3. answer = Limited(ByTime(found, sampleLog), MaxHistoryRows)
    BY <2>2 DEF Samples
  <2>4. found \in SUBSET Nat /\ IsFiniteSet(found) /\ found \subseteq samples
        /\ \A i \in found : sampleLog[i] \in Nat
    <3>1. found \in SUBSET samples
      OBVIOUS
    <3> HIDE DEF found
    <3> QED
      BY <2>1, <3>1, TablesAreFinite, FS_Subset
  <2>5. PICK sorted : sorted = ByTime(found, sampleLog)
    OBVIOUS
  <2>6. PICK m : m = Cardinality(found)
    OBVIOUS
  <2>7. PICK l : l = IF m < MaxHistoryRows THEN m ELSE MaxHistoryRows
    OBVIOUS
  <2>8. /\ m \in Nat /\ sorted \in [1..m -> found]
        /\ \A i \in found : \E k \in 1..m : sorted[k] = i
        /\ \A j, k \in 1..m : j < k => Earlier(sampleLog, sorted[j], sorted[k])
    <3> HIDE DEF found
    <3> QED
      BY <2>4, <2>5, <2>6, ByTimeSorts
  <2>9. /\ l \in 0..m /\ Len(answer) = l /\ DOMAIN answer = 1..l
        /\ \A k \in 1..l : answer[k] = sorted[k]
    <3>1. answer = Limited(sorted, MaxHistoryRows)
      BY <2>3, <2>5
    <3> HIDE DEF answer, found
    <3>2. PICK S : S = found
      OBVIOUS
    <3>3. m \in Nat /\ sorted \in [1..m -> S]
      BY <2>8, <3>2
    <3>4. sorted \in Seq(S) /\ Len(sorted) = m
      BY <3>3
    <3>5. /\ Len(answer) = IF m < MaxHistoryRows THEN m ELSE MaxHistoryRows
          /\ DOMAIN answer = 1..Len(answer)
          /\ \A k \in 1..Len(answer) : answer[k] = sorted[k]
      BY <2>1, <3>1, <3>4, LimitedIs
    <3> QED
      BY <2>1, <2>7, <3>3, <3>5
  <2>10. first \in Int
    BY <2>1
  <2>12. /\ last = IF l = MaxHistoryRows THEN sampleLog[sorted[MaxHistoryRows]] - 1 ELSE to
         /\ l = MaxHistoryRows => /\ MaxHistoryRows \in 1..m
                                  /\ sorted[MaxHistoryRows] \in found
                                  /\ sampleLog[sorted[MaxHistoryRows]] \in Nat
                                  /\ sampleLog[sorted[MaxHistoryRows]] =< to
    <3>1. ASSUME l = MaxHistoryRows
          PROVE  MaxHistoryRows \in 1..m /\ answer[MaxHistoryRows] = sorted[MaxHistoryRows]
      <4>1. MaxHistoryRows \in 1..m /\ MaxHistoryRows \in 1..l
        BY <2>1, <2>8, <2>9, <3>1
      <4> HIDE DEF answer
      <4> QED
        BY <2>9, <4>1
    <3>2. \A k \in 1..m : sorted[k] \in found /\ sampleLog[sorted[k]] =< to
      BY <2>8
    <3> HIDE DEF answer, found
    <3> QED
      BY <2>4, <2>9, <3>1, <3>2
  <2>13. last \in Int /\ last =< to
    <3> HIDE DEF answer, found, last
    <3> QED
      BY <2>1, <2>12
  <2> HIDE DEF answer, last, first
  <2>14. ASSUME NEW i \in samples, sampleLog[i] \in first..last
         PROVE  i \in ToSet(answer)
    <3>1. sampleLog[i] \in Nat /\ first =< sampleLog[i] /\ sampleLog[i] =< last
      BY <2>1, <2>10, <2>13, <2>14
    <3>2. i \in found
      BY <2>1, <2>13, <3>1
    <3>3. PICK k \in 1..m : sorted[k] = i
      BY <2>8, <3>2
    <3> HIDE DEF found
    <3>4. k \in 1..l
      <4>1. CASE l = MaxHistoryRows
        <5>1. MaxHistoryRows \in 1..m /\ sampleLog[i] < sampleLog[sorted[MaxHistoryRows]]
          BY <2>12, <3>1, <4>1
        <5>2. ~(MaxHistoryRows < k)
          <6>1. MaxHistoryRows < k => Earlier(sampleLog, sorted[MaxHistoryRows], i)
            BY <2>8, <3>3, <5>1
          <6>2. ~Earlier(sampleLog, sorted[MaxHistoryRows], i)
            BY <2>12, <3>1, <4>1, <5>1 DEF Earlier
          <6> QED
            BY <6>1, <6>2
        <5> QED
          BY <2>1, <2>8, <4>1, <5>2
      <4>2. CASE l # MaxHistoryRows
        BY <2>7, <4>2
      <4> QED
        BY <4>1, <4>2
    <3>5. k \in DOMAIN answer /\ answer[k] = i
      BY <2>9, <3>3, <3>4
    <3> QED
      BY <3>5 DEF ToSet
  <2>15. {i \in samples : sampleLog[i] \in first..last} \subseteq ToSet(answer)
    BY <2>14
  <2> QED
    BY <2>15 DEF answer, last, first
<1>2. IInv => Types
  BY DEF IInv
<1> QED
  BY <1>1, <1>2, HistoryInvariant, PTL

(* What /api/events tells, without a limit that cuts it off: the table,    *)
(* newest first.                                                           *)
LEMMA EventsAreTold ==
    ASSUME Types, NEW n, n = Cardinality(events), NEW told, told = RecentEvents(n)
    PROVE  /\ n \in Nat /\ DOMAIN told = 1..n
           /\ \A k \in 1..n : told[k] \in events
           /\ \A i \in events : \E k \in 1..n : told[k] = i
           /\ \A j, k \in 1..n : j < k =>
                 \/ eventLog[told[k]].ts < eventLog[told[j]].ts
                 \/ eventLog[told[k]].ts = eventLog[told[j]].ts /\ told[k] < told[j]
<1>1. PICK ts : ts = [i \in DOMAIN eventLog |-> eventLog[i].ts]
  OBVIOUS
<1>2. PICK sorted : sorted = ByTime(events, ts)
  OBVIOUS
<1>3. \A i \in events : ts[i] = eventLog[i].ts /\ ts[i] \in Nat
  <2>1. \A i \in events : i \in DOMAIN eventLog /\ eventLog[i] \in Rows
    BY DEF Types
  <2> QED
    BY <1>1, <2>1, RowFields
<1>4. /\ n \in Nat /\ sorted \in [1..n -> events]
      /\ \A i \in events : \E k \in 1..n : sorted[k] = i
      /\ \A j, k \in 1..n : j < k => Earlier(ts, sorted[j], sorted[k])
  BY <1>2, <1>3, TablesAreFinite, ByTimeSorts
<1>5. PICK back : back = Reverse(sorted)
  OBVIOUS
<1>6. Len(sorted) = n
  BY <1>4
<1>7. /\ back \in Seq(events) /\ Len(back) = n
      /\ \A k \in 1..n : back[k] = sorted[n - k + 1]
  <2>1. back = [k \in 1..n |-> sorted[n - k + 1]]
    BY <1>5, <1>6 DEF Reverse
  <2>2. \A k \in 1..n : n - k + 1 \in 1..n
    BY <1>4
  <2>3. back \in [1..n -> events]
    BY <1>4, <2>1, <2>2
  <2> QED
    BY <1>4, <2>1, <2>3
<1>8. told = Limited(back, n)
  BY <1>1, <1>2, <1>5 DEF RecentEvents
<1>9. Len(told) = n /\ DOMAIN told = 1..n /\ \A k \in 1..n : told[k] = back[k]
  BY <1>4, <1>7, <1>8, LimitedIs
<1>10. \A k \in 1..n : n - k + 1 \in 1..n /\ told[k] = sorted[n - k + 1]
                       /\ told[k] \in events
  BY <1>4, <1>7, <1>9
<1>11. ASSUME NEW i \in events PROVE \E k \in 1..n : told[k] = i
  <2>1. PICK k \in 1..n : sorted[k] = i
    BY <1>4
  <2>2. n - k + 1 \in 1..n /\ n - (n - k + 1) + 1 = k
    BY <1>4
  <2> QED
    BY <1>10, <2>1, <2>2
<1>12. ASSUME NEW j \in 1..n, NEW k \in 1..n, j < k
       PROVE  \/ eventLog[told[k]].ts < eventLog[told[j]].ts
              \/ eventLog[told[k]].ts = eventLog[told[j]].ts /\ told[k] < told[j]
  <2>1. n - k + 1 < n - j + 1
    BY <1>4, <1>12
  <2>2. Earlier(ts, told[k], told[j])
    BY <1>4, <1>10, <2>1
  <2> QED
    BY <1>3, <1>10, <2>2 DEF Earlier
<1> QED
  BY <1>4, <1>9, <1>10, <1>11, <1>12

(* The changes told are those of the log that are left: the later in the   *)
(* log, the earlier told, and all those after one that is left.            *)
LEMMA ChangesAreTold ==
    ASSUME Types, InOrder, NEW told, told = RecentEvents(Cardinality(events)),
           NEW own, own = ChangesOf(told)
    PROVE  /\ \A k \in own : k \in Nat /\ told[k] \in Own /\ told[k] \in Nat
           /\ \A j, k \in own : j < k => told[k] < told[j]
           /\ \A i \in Own : i \in events => \E k \in own : told[k] = i
           /\ \A k \in own, i \in Own : told[k] =< i => \E m \in own : told[m] = i
<1>1. PICK n : n = Cardinality(events)
  OBVIOUS
<1>2. /\ n \in Nat /\ DOMAIN told = 1..n
      /\ \A k \in 1..n : told[k] \in events
      /\ \A i \in events : \E k \in 1..n : told[k] = i
      /\ \A j, k \in 1..n : j < k =>
            \/ eventLog[told[k]].ts < eventLog[told[j]].ts
            \/ eventLog[told[k]].ts = eventLog[told[j]].ts /\ told[k] < told[j]
  BY <1>1, EventsAreTold
<1>3. own = {k \in 1..n : told[k] \in Own}
  <2>1. \A i \in events : i \in Own <=> /\ i > started.events
                                        /\ eventLog[i].type = "state_change"
    BY DEF Types, Own
  <2> QED
    BY <1>2, <2>1 DEF ChangesOf
<1>4. \A i \in Own : i \in Nat /\ eventLog[i].ts \in Nat
  BY OwnRows
<1>5. ASSUME NEW j \in own, NEW k \in own, j < k PROVE told[k] < told[j]
  <2>1. told[j] \in Own /\ told[k] \in Own /\ j \in 1..n /\ k \in 1..n
    BY <1>3
  <2>2. \/ eventLog[told[k]].ts < eventLog[told[j]].ts
        \/ eventLog[told[k]].ts = eventLog[told[j]].ts /\ told[k] < told[j]
    BY <1>2, <1>5, <2>1
  <2>3. told[j] < told[k] => eventLog[told[j]].ts =< eventLog[told[k]].ts
    BY <2>1 DEF InOrder
  <2>4. told[j] # told[k]
    BY <1>4, <2>1, <2>2
  <2> QED
    BY <1>4, <2>1, <2>2, <2>3, <2>4
<1>6. \A i \in Own : i \in events => \E k \in own : told[k] = i
  BY <1>2, <1>3
<1>7. ASSUME NEW k \in own, NEW i \in Own, told[k] =< i
      PROVE  \E m \in own : told[m] = i
  <2>1. told[k] \in Own /\ told[k] \in events
    BY <1>2, <1>3
  <2>2. i = told[k] \/ told[k] < i
    BY <1>4, <1>7, <2>1
  <2>3. i \in events
    BY <2>1, <2>2 DEF InOrder
  <2> QED
    BY <1>6, <2>3
<1>8. \A k \in own : k \in Nat /\ told[k] \in Own /\ told[k] \in Nat
  BY <1>2, <1>3, <1>4
<1> QED
  BY <1>5, <1>6, <1>7, <1>8

(* The audit trail is the history of the FSM: unless an insert failed, the *)
(* changes told lead without a gap to the state the controller is in.      *)
THEOREM AuditTrailLeadsHere == Spec => []AuditTrailIsComplete
<1>1. IInv => AuditTrailIsComplete
  <2> SUFFICES ASSUME IInv, step \in {"due", "sample", "idle"}, ~lostEvent,
                      NEW told, told = RecentEvents(Cardinality(events)),
                      NEW own, own = ChangesOf(told)
               PROVE  LeadsHere(told, own)
    BY DEF AuditTrailIsComplete
  <2>1. Types /\ InOrder /\ Chained /\ Recorded = state
    BY DEF IInv, Recorded
  <2>2. /\ \A k \in own : k \in Nat /\ told[k] \in Own /\ told[k] \in Nat
        /\ \A j, k \in own : j < k => told[k] < told[j]
        /\ \A i \in Own : i \in events => \E k \in own : told[k] = i
        /\ \A k \in own, i \in Own : told[k] =< i => \E m \in own : told[m] = i
    BY <2>1, ChangesAreTold
  <2>3. \A i \in Own : i \in Nat
    BY <2>1, OwnRows
  <2>4. ASSUME NEW j \in own, NEW k \in own, j < k, \A l \in own : l =< j \/ k =< l
        PROVE  eventLog[told[j]].from = eventLog[told[k]].to
    <3>1. told[k] \in Own /\ told[j] \in Own /\ told[k] < told[j]
      BY <2>2, <2>4
    <3>2. ASSUME NEW l \in Own PROVE l =< told[k] \/ told[j] =< l
      <4> SUFFICES ASSUME told[k] < l PROVE told[j] =< l
        BY <2>2, <2>3
      <4>1. told[k] =< l
        BY <2>2, <2>3
      <4>2. PICK m \in own : told[m] = l
        BY <2>2, <4>1
      <4>3. ~(k < m) /\ m # k
        BY <2>2, <2>3, <4>2
      <4>4. m =< j
        BY <2>2, <2>4, <4>3
      <4>5. m = j \/ m < j
        BY <2>2, <4>4
      <4> QED
        BY <2>2, <2>3, <4>2, <4>5
    <3> QED
      BY <2>1, <3>1, <3>2 DEF Chained
  <2>5. ASSUME NEW k \in own, \A l \in own : k =< l
        PROVE  eventLog[told[k]].to = state
    <3>1. ASSUME NEW l \in Own PROVE l =< told[k]
      <4> SUFFICES ASSUME told[k] < l PROVE FALSE
        BY <2>2, <2>3
      <4>1. told[k] =< l
        BY <2>2, <2>3
      <4>2. PICK m \in own : told[m] = l
        BY <2>2, <4>1
      <4>3. k =< m /\ ~(k < m) /\ m # k
        BY <2>2, <2>3, <2>5, <4>2
      <4> QED
        BY <2>2, <4>3
    <3> QED
      BY <2>1, <2>2, <3>1 DEF Chained
  <2>6. ASSUME NothingPruned
        PROVE  /\ \A k \in own : (\A l \in own : l =< k)
                                    => eventLog[told[k]].from = InitialState
               /\ own = {} => state = InitialState
    <3>1. Own \subseteq events
      BY <2>1, <2>6, Fields DEF NothingPruned, Own
    <3>2. ASSUME NEW k \in own, \A l \in own : l =< k
          PROVE  eventLog[told[k]].from = InitialState
      <4>1. ASSUME NEW l \in Own PROVE told[k] =< l
        <5>1. PICK m \in own : told[m] = l
          BY <2>2, <3>1
        <5>2. m = k \/ m < k
          BY <2>2, <3>2
        <5> QED
          BY <2>2, <2>3, <5>1, <5>2
      <4> QED
        BY <2>1, <2>2, <4>1 DEF Chained
    <3>3. own = {} => Own = {}
      BY <2>2, <3>1
    <3> QED
      BY <2>1, <3>2, <3>3 DEF Chained
  <2> QED
    BY <2>4, <2>5, <2>6 DEF LeadsHere
<1> QED
  BY <1>1, HistoryInvariant, PTL

=============================================================================
