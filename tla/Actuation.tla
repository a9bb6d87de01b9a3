----------------------------- MODULE Actuation -----------------------------
(***************************************************************************)
(* How a decision reaches evcc: publishMode and publishLimitSoC of the     *)
(* control loop, the evcc MQTT client's publish with its three-second      *)
(* timeout, the connection callbacks, and (external) broker and evcc.      *)
(*                                                                         *)
(* The decision itself is DecisionLoop's; here each tick wants any mode    *)
(* and limit of Wanted, only that a tick that sees the broker or evcc gone *)
(* wants the mode off (Inputs.Stale).                                      *)
(*                                                                         *)
(* A QoS-1 publish ends in one of three ways.  It is acknowledged; it      *)
(* fails and the message is gone; or the wait for its acknowledgement      *)
(* times out and the message may still arrive, now or after a reconnect:   *)
(* paho keeps it.  `path' holds the messages on their way, in order.       *)
(*                                                                         *)
(* Time is counted in ticks.  The loop only compares the age of the last   *)
(* publish with control.republish, so an age stops counting there.         *)
(***************************************************************************)
EXTENDS Integers, Sequences

CONSTANTS
    OnModes,        \* the modes that charge
    Wanted,         \* decisions: records [mode, limit]
    Republish,      \* control.republish, in ticks
    Faults,         \* which faults of the environment to consider
    MaxPath         \* bound on messages under way

ModeOff == "off"
Modes == OnModes \cup {ModeOff}
AllFaults == {"timeout", "error", "connection", "evcc", "crash"}
NoMode == ""        \* c.lastMode before the first publish

ASSUME ActuationConstants ==
    /\ ModeOff \notin OnModes /\ NoMode \notin OnModes
    /\ Wanted \subseteq [mode : Modes, limit : 1..100]
    /\ \E w \in Wanted : w.mode = ModeOff
    /\ Republish \in Nat \ {0}
    /\ Faults \subseteq AllFaults
    /\ MaxPath \in Nat \ {0}

Limits == {w.limit : w \in Wanted}

VARIABLES
    connected,      \* Store.brokerConnected
    online,         \* Store.online: "unseen", "up" or "down"
    path,           \* set-topic messages under way to evcc
    evcc,           \* external: evcc's liveness, loadpoint mode and limitSoc
    phase,          \* where the tick is: "idle", "mode", "limit"
    want,           \* the decision of the last tick
    snap,           \* snapshot of the last tick: was the broker connected
    force,          \* the last tick saw a reconnect or an online edge
    loop,           \* the loop-owned fields of Controller
    hist,           \* history for the properties only
    calm,           \* no more faults, the decision stands
    quiet           \* ticks completed since, up to a bound

vars == <<connected, online, path, evcc, phase, want, snap, force, loop, hist,
          calm, quiet>>

(* New: nothing published, no edge seen.  The zero time.Time is older than *)
(* any cadence.                                                            *)
NewLoop ==
    [lastMode |-> NoMode, modeAge |-> Republish,
     limitSet |-> FALSE, lastLimit |-> 0, limitAge |-> Republish,
     prevConnected |-> FALSE, prevOnline |-> FALSE]

(* modeFailed, limitFailed: the publish of this tick returned an error;    *)
(* modeDoubt, limitDoubt: since the last acknowledged publish, one timed   *)
(* out or evcc was away; edge: this tick saw an edge.                      *)
NoHistory ==
    [modeFailed |-> FALSE, limitFailed |-> FALSE, modeDoubt |-> TRUE,
     limitDoubt |-> TRUE, edge |-> FALSE]

Idle == phase = "idle"
Fault(f) == f \in Faults /\ ~calm

Init ==
    /\ connected = FALSE /\ online = "unseen" /\ path = <<>>
    /\ evcc \in [up : IF "evcc" \in Faults THEN BOOLEAN ELSE {TRUE},
                mode : Modes, limit : Limits]
    /\ phase = "idle" /\ want \in {w \in Wanted : w.mode = ModeOff}
    /\ snap = FALSE /\ force = FALSE
    /\ loop = NewLoop /\ hist = NoHistory
    /\ calm = FALSE /\ quiet = 0

-----------------------------------------------------------------------------
(* The loop.                                                               *)

Older(age) == IF age < Republish THEN age + 1 ELSE age

(* The tick's snapshot and the edges it sees against the last tick's.      *)
Reconnected == connected /\ ~loop.prevConnected
OnlineEdge == online = "up" /\ ~loop.prevOnline
(* ...Wrong... definitions are faulty variants of the one that follows.    *)
ForcedWrongReconnectOnly == Reconnected

Forced == Reconnected \/ OnlineEdge

TickBegin ==
    /\ Idle
    /\ want' \in IF calm THEN {want}
                 ELSE {w \in Wanted : ~connected \/ online = "down" => w.mode = ModeOff}
    /\ snap' = connected
    /\ force' = Forced
    /\ loop' = [loop EXCEPT !.prevConnected = connected,
                            !.prevOnline = (online = "up"),
                            !.modeAge = Older(@), !.limitAge = Older(@)]
    /\ hist' = [hist EXCEPT
                  !.modeFailed = FALSE, !.limitFailed = FALSE,
                  !.edge = \/ connected /\ ~loop.prevConnected
                           \/ online = "up" /\ ~loop.prevOnline]
    /\ phase' = "mode"
    /\ UNCHANGED <<connected, online, path, evcc, calm, quiet>>

(* The token's error is not looked at.                                     *)
AckedWrongUnchecked(msg) ==
    /\ connected
    /\ \/ Len(path) < MaxPath /\ path' = Append(path, msg)
       \/ Fault("error") /\ path' = path

(* Client.publish: acknowledged, lost with an error, or timed out with the *)
(* message still under way.                                                *)
Acked(msg) ==
    connected /\ Len(path) < MaxPath /\ path' = Append(path, msg)
TimedOut(msg) ==
    /\ Fault("timeout") \/ ~connected
    /\ Len(path) < MaxPath /\ path' = Append(path, msg)
Errored == (Fault("error") \/ ~connected) /\ path' = path

ModeMsg(m) == [topic |-> "mode", value |-> m]
LimitMsg(n) == [topic |-> "limitSoc", value |-> n]

SkipModeWrongForever == want.mode = loop.lastMode /\ ~force

SkipMode ==
    want.mode = loop.lastMode /\ ~force /\ loop.modeAge < Republish

PublishMode ==
    /\ phase = "mode" /\ phase' = "limit"
    /\ \/ SkipMode /\ UNCHANGED <<path, loop, hist>>
       \/ /\ ~SkipMode /\ Acked(ModeMsg(want.mode))
          /\ loop' = [loop EXCEPT !.lastMode = want.mode, !.modeAge = 0]
          /\ hist' = [hist EXCEPT !.modeDoubt = ~evcc.up]
       \/ /\ ~SkipMode /\ TimedOut(ModeMsg(want.mode))
          /\ hist' = [hist EXCEPT !.modeFailed = TRUE, !.modeDoubt = TRUE]
          /\ UNCHANGED loop
       \/ /\ ~SkipMode /\ Errored
          /\ hist' = [hist EXCEPT !.modeFailed = TRUE]
          /\ UNCHANGED loop
    /\ UNCHANGED <<connected, online, evcc, want, snap, force, calm, quiet>>

SkipLimitWrongForever ==
    ~snap \/ (loop.limitSet /\ want.limit = loop.lastLimit /\ ~force)

SkipLimit ==
    \/ ~snap
    \/ /\ loop.limitSet /\ want.limit = loop.lastLimit /\ ~force
       /\ loop.limitAge < Republish

PublishLimit ==
    /\ phase = "limit" /\ phase' = "idle"
    /\ \/ SkipLimit /\ UNCHANGED <<path, loop, hist>>
       \/ /\ ~SkipLimit /\ Acked(LimitMsg(want.limit))
          /\ loop' = [loop EXCEPT !.limitSet = TRUE, !.lastLimit = want.limit,
                                  !.limitAge = 0]
          /\ hist' = [hist EXCEPT !.limitDoubt = ~evcc.up]
       \/ /\ ~SkipLimit /\ TimedOut(LimitMsg(want.limit))
          /\ hist' = [hist EXCEPT !.limitFailed = TRUE, !.limitDoubt = TRUE]
          /\ UNCHANGED loop
       \/ /\ ~SkipLimit /\ Errored
          /\ hist' = [hist EXCEPT !.limitFailed = TRUE]
          /\ UNCHANGED loop
    /\ quiet' = IF calm /\ quiet =< Republish THEN quiet + 1 ELSE quiet
    /\ UNCHANGED <<connected, online, evcc, want, snap, force, calm>>

(* The process dies and starts over; what paho had queued is lost or not.  *)
Crash ==
    /\ Fault("crash")
    /\ connected' = FALSE /\ online' = "unseen"
    /\ path' \in {path, <<>>}
    /\ phase' = "idle" /\ snap' = FALSE /\ force' = FALSE
    /\ loop' = NewLoop
    /\ hist' = NoHistory
    /\ UNCHANGED <<evcc, want, calm, quiet>>

-----------------------------------------------------------------------------
(* The client's callbacks.                                                 *)

(* onConnect, the first time and after every loss.                         *)
Connect ==
    /\ ~connected /\ connected' = TRUE
    /\ UNCHANGED <<online, path, evcc, phase, want, snap, force, loop, hist, calm,
                   quiet>>

(* onConnectionLost: the last known online status stays.                   *)
ConnectionLost ==
    /\ Fault("connection")
    /\ connected /\ connected' = FALSE
    /\ UNCHANGED <<online, path, evcc, phase, want, snap, force, loop, hist,
                   calm, quiet>>

(* handleMessage on evcc's status topic, whenever the broker gets to it.   *)
SeeStatus ==
    /\ connected
    /\ online' = IF evcc.up THEN "up" ELSE "down"
    /\ online' # online
    /\ UNCHANGED <<connected, path, evcc, phase, want, snap, force, loop, hist,
                   calm, quiet>>

-----------------------------------------------------------------------------
(* Broker and evcc (external).                                             *)

Applied(e, msg) ==
    IF msg.topic = "mode" THEN [e EXCEPT !.mode = msg.value]
    ELSE [e EXCEPT !.limit = msg.value]

(* Set-topics are not retained: with evcc away the message is lost.        *)
Deliver ==
    /\ connected /\ path # <<>>
    /\ path' = Tail(path)
    /\ evcc' = IF evcc.up THEN Applied(evcc, Head(path)) ELSE evcc
    /\ hist' = IF evcc.up THEN hist
               ELSE [hist EXCEPT !.modeDoubt = TRUE, !.limitDoubt = TRUE]
    /\ UNCHANGED <<connected, online, phase, want, snap, force, loop, calm, quiet>>

EvccDown ==
    /\ Fault("evcc") /\ evcc.up
    /\ evcc' = [evcc EXCEPT !.up = FALSE]
    /\ UNCHANGED <<connected, online, path, phase, want, snap, force, loop, hist,
                   calm, quiet>>

(* evcc starts with whatever it remembers or defaults to.                  *)
EvccUp ==
    /\ ~evcc.up
    /\ evcc' \in [up : {TRUE}, mode : Modes, limit : Limits]
    /\ hist' = [hist EXCEPT !.modeDoubt = TRUE, !.limitDoubt = TRUE]
    /\ UNCHANGED <<connected, online, path, phase, want, snap, force, loop, calm,
                   quiet>>

(* From here on nothing fails and the decision stands.                     *)
Calm ==
    /\ ~calm /\ Idle /\ connected /\ evcc.up /\ online = "up"
    /\ calm' = TRUE
    /\ UNCHANGED <<connected, online, path, evcc, phase, want, snap, force, loop,
                   hist, quiet>>

Next == \/ TickBegin \/ PublishMode \/ PublishLimit \/ Crash
        \/ Connect \/ ConnectionLost \/ SeeStatus
        \/ Deliver \/ EvccDown \/ EvccUp \/ Calm

(* The ticker, the two publishes (each bounded by its timeout), paho's     *)
(* reconnecting and the delivery of what is under way go on.               *)
Fairness == /\ WF_vars(TickBegin) /\ WF_vars(PublishMode) /\ WF_vars(PublishLimit)
            /\ WF_vars(Connect) /\ WF_vars(SeeStatus)
            /\ WF_vars(Deliver) /\ WF_vars(EvccUp)

Spec == Init /\ [][Next]_vars /\ Fairness

-----------------------------------------------------------------------------
(* Properties.                                                             *)

(* Types; the ages the loop compares with the republish cadence are kept   *)
(* to it.                                                                  *)
TypeOK ==
    /\ connected \in BOOLEAN /\ online \in {"unseen", "up", "down"}
    /\ path \in Seq([topic : {"mode"}, value : Modes]
                      \cup [topic : {"limitSoc"}, value : Limits])
    /\ Len(path) =< MaxPath
    /\ evcc \in [up : BOOLEAN, mode : Modes, limit : Limits]
    /\ phase \in {"idle", "mode", "limit"} /\ want \in Wanted
    /\ snap \in BOOLEAN /\ force \in BOOLEAN /\ calm \in BOOLEAN
    /\ loop \in [lastMode : Modes \cup {NoMode}, modeAge : 0..Republish,
                 limitSet : BOOLEAN, lastLimit : Limits \cup {0},
                 limitAge : 0..Republish,
                 prevConnected : BOOLEAN, prevOnline : BOOLEAN]
    /\ hist \in [modeFailed : BOOLEAN, limitFailed : BOOLEAN, modeDoubt : BOOLEAN,
                 limitDoubt : BOOLEAN, edge : BOOLEAN]
    /\ quiet \in 0..(Republish + 1)

(* The value of `topic' once everything in `ahead' is delivered.           *)
Eventual(ahead, topic, current) ==
    LET of == {i \in DOMAIN ahead : ahead[i].topic = topic}
    IN  IF of = {} THEN current
        ELSE ahead[CHOOSE i \in of : \A j \in of : j =< i].value
EventualMode == Eventual(path, "mode", evcc.mode)
EventualLimit == Eventual(path, "limitSoc", evcc.limit)

(* What the loop believes it published is what evcc has or will have, as   *)
(* long as no publish since the acknowledged one timed out and evcc stayed *)
(* up: a publish that failed outright never passes for a published one.    *)
ConfirmedHolds ==
    evcc.up =>
      /\ ~hist.modeDoubt => EventualMode = loop.lastMode
      /\ ~hist.limitDoubt => loop.limitSet /\ EventualLimit = loop.lastLimit

(* Types, and what is believed published is, in every state.               *)
PublishedInv == TypeOK /\ ConfirmedHolds

(* An edge that a tick saw with the broker connected is acted on in that   *)
(* tick: both the mode and the backstop are sent again, or failed to be.   *)
SeenEdgeReasserts ==
    Idle /\ hist.edge /\ snap =>
      /\ loop.modeAge = 0 \/ hist.modeFailed
      /\ loop.limitAge = 0 \/ hist.limitFailed

Agreed == evcc.mode = want.mode /\ evcc.limit = want.limit

(* Whatever went wrong before (a command that arrived after it was given   *)
(* up, one that never arrived, an evcc or wha restart between two ticks),  *)
(* one republish interval after the last fault evcc does as decided.       *)
HealsWithinRepublish == quiet > Republish /\ Idle /\ path = <<>> => Agreed

(* ... and stays so.                                                       *)
EvccConverges == calm ~> []Agreed

-----------------------------------------------------------------------------
(* What the documentation says and the code does not do.                   *)

(* how-it-works.md: stale data, a lost broker and the rest "immediately    *)
(* force the wallbox to stop charging".  In a tick that decides off, with  *)
(* everybody connected, no publish failing and nothing under way, evcc     *)
(* still charges: an earlier command to charge timed out but arrived, and  *)
(* the loop, which never counted it as sent, sees no change to publish.    *)
OffMeansOff ==
    Idle /\ want.mode = ModeOff /\ connected /\ snap /\ evcc.up /\ path = <<>>
         /\ ~hist.modeFailed /\ loop.lastMode # NoMode
      => evcc.mode = ModeOff
=============================================================================
