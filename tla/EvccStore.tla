----------------------------- MODULE EvccStore -----------------------------
(***************************************************************************)
(* The evcc side of the control loop: the MQTT client's callbacks, the     *)
(* Store of latest-known values they fill, and the freshness verdict       *)
(* InputsFromSnapshot draws from it.                                       *)
(*                                                                         *)
(* The client is built with SetOrderMatters(false): every message, and     *)
(* every connection event, is handled on a goroutine of its own, so two    *)
(* callbacks may finish in either order.  A message callback first reads   *)
(* the clock and then takes the store's lock.                              *)
(*                                                                         *)
(* Time is kept as ages, capped one past the stale timeout.  The values of *)
(* the metrics play no part.                                               *)
(***************************************************************************)
EXTENDS Integers, Sequences, SequencesExt

CONSTANTS
    StaleTimeout,    \* cfg.StaleTimeout
    Overtaking,      \* may callbacks of one topic finish in another order
    SubscribeFails,  \* may SubscribeMultiple fail
    MayFail,         \* the meters that may stop delivering
    MaxCallbacks,    \* bound on callbacks under way
    MaxTurns         \* bound on what goes wrong or comes back

Metrics == {"grid", "pv"}             \* what InputsFromSnapshot checks

ASSUME EvccStoreConstants ==
    /\ StaleTimeout \in Nat /\ MaxCallbacks \in Nat \ {0} /\ MaxTurns \in Nat
    /\ Overtaking \in BOOLEAN /\ SubscribeFails \in BOOLEAN
    /\ MayFail \subseteq Metrics

Old == StaleTimeout + 1
Never == Old + 1                      \* nothing received yet
Ages == 0..Never

Older(a) == IF a >= Old THEN a ELSE a + 1
NotRead == -1                         \* a callback that has not read the clock

VARIABLES
    evccUp, dead,         \* evcc runs; the meters it gets nothing from
    link, subscribed,     \* our broker connection, and its subscriptions
    retained,             \* the broker: "none", or a reading, "current" or not
    status,               \* the broker: the retained evcc/status, LWT included
    owed,                 \* retained topics the broker has still to deliver
    callbacks,            \* callbacks under way, in the order they were started
    at,                   \* Store: age of the receipt time per metric
    online,               \* Store: Snapshot.Online, "never" when not seen
    broker,               \* Store: Snapshot.BrokerConnected
    silence,              \* history: age of the last receipt per metric
    overtaken,            \* history: a connection or status event was overtaken
    turns                 \* how often the world turned

world == <<evccUp, dead, link, subscribed, retained, status, owed>>
store == <<at, online, broker>>
history == <<silence, overtaken>>
vars == <<world, callbacks, store, history, turns>>

Room == Len(callbacks) < MaxCallbacks
Message(topic, value) == [topic |-> topic, value |-> value, at |-> NotRead]
Receives == link /\ subscribed

(* A message of `topic' reaches our client when it is subscribed.          *)
Deliver(topic, value) ==
    IF Receives
    THEN callbacks' = Append(callbacks, Message(topic, value))
    ELSE UNCHANGED callbacks

Init ==
    /\ evccUp \in BOOLEAN /\ dead = {}
    /\ link = FALSE /\ subscribed = FALSE
    /\ retained = [m \in Metrics |-> "none"]
    /\ status = IF evccUp THEN "online" ELSE "offline"
    /\ owed = {} /\ callbacks = <<>>
    /\ at = [m \in Metrics |-> Never]
    /\ online = "never" /\ broker = FALSE
    /\ silence = [m \in Metrics |-> Never] /\ overtaken = FALSE /\ turns = 0

-----------------------------------------------------------------------------
Turn == turns < MaxTurns /\ turns' = turns + 1

(* Within a time unit evcc publishes every meter it hears from, and our    *)
(* callbacks finish ...                                                    *)
Punctual ==
    /\ callbacks = <<>> /\ owed = {}
    /\ evccUp => \A m \in Metrics \ dead : retained[m] = "current"

(* ... but for the time units that are one of the bounded turns.           *)
Tick ==
    /\ \/ Punctual /\ UNCHANGED turns
       \/ ~Punctual /\ Turn
    /\ retained' = [m \in Metrics |->
          IF retained[m] = "current" THEN "older" ELSE retained[m]]
    /\ at' = [m \in Metrics |-> Older(at[m])]
    /\ silence' = [m \in Metrics |-> Older(silence[m])]
    /\ callbacks' = [i \in DOMAIN callbacks |->
          [callbacks[i] EXCEPT !.at = IF @ = NotRead THEN @ ELSE Older(@)]]
    /\ UNCHANGED <<evccUp, dead, link, subscribed, status, owed, online, broker,
                   overtaken>>

(* evcc publishes a reading, retained, once per time unit.                 *)
Publish(m) ==
    /\ evccUp /\ m \notin dead /\ retained[m] # "current" /\ m \notin owed /\ Room
    /\ retained' = [retained EXCEPT ![m] = "current"]
    /\ Deliver(m, "reading")
    /\ UNCHANGED <<evccUp, dead, link, subscribed, status, owed, store, history,
                   turns>>

(* evcc stops (the broker publishes its last will) or starts.              *)
EvccTurns ==
    /\ Turn /\ Room /\ "status" \notin owed
    /\ evccUp' = ~evccUp
    /\ status' = IF evccUp' THEN "online" ELSE "offline"
    /\ Deliver("status", status')
    /\ UNCHANGED <<dead, link, subscribed, retained, owed, store, history>>

MeterTurns(m) ==
    /\ Turn
    /\ dead' = IF m \in dead THEN dead \ {m} ELSE dead \cup {m}
    /\ UNCHANGED <<evccUp, link, subscribed, retained, status, owed, callbacks,
                   store, history>>

(* The connection is lost or comes back: a clean session, so nothing is    *)
(* subscribed, and a callback tells the client.                            *)
LinkTurns ==
    /\ Turn /\ Room
    /\ link' = ~link /\ subscribed' = FALSE /\ owed' = {}
    /\ callbacks' = Append(callbacks, Message("link", IF link' THEN "up" ELSE "down"))
    /\ UNCHANGED <<evccUp, dead, retained, status, store, history>>

(* The broker delivers what a new subscription finds retained.             *)
DeliverRetained(topic) ==
    /\ topic \in owed /\ Room
    /\ owed' = owed \ {topic}
    /\ Deliver(topic, IF topic = "status" THEN status ELSE "reading")
    /\ UNCHANGED <<evccUp, dead, link, subscribed, retained, status, store,
                   history, turns>>

-----------------------------------------------------------------------------
(* A callback takes its next step, if need be past an older one.           *)
Overtakes(i) == \E j \in 1..(i - 1) : callbacks[j].topic = callbacks[i].topic

Runs(i, topics) ==
    /\ i \in DOMAIN callbacks /\ callbacks[i].topic \in topics
    /\ Overtakes(i) => Overtaking
    /\ overtaken' = (overtaken \/ (Overtakes(i) /\ callbacks[i].topic \notin Metrics))
    /\ UNCHANGED turns

(* handleMessage: time.Now() is evaluated before Apply takes the lock.     *)
ReadClock(i) ==
    /\ Runs(i, Metrics) /\ callbacks[i].at = NotRead
    /\ callbacks' = [callbacks EXCEPT ![i].at = 0]
    /\ silence' = [silence EXCEPT ![callbacks[i].topic] = 0]
    /\ UNCHANGED <<world, store>>

(* ...Wrong... definitions are faulty variants of the one that follows:    *)
(* the time of receipt is read under the lock.                             *)
ApplyMetricWrongTime(i) ==
    /\ Runs(i, Metrics) /\ callbacks[i].at # NotRead
    /\ at' = [at EXCEPT ![callbacks[i].topic] = 0]
    /\ callbacks' = RemoveAt(callbacks, i)
    /\ UNCHANGED <<world, online, broker, silence>>

(* Store.Apply for a metric: whatever is there is overwritten.             *)
ApplyMetric(i) ==
    /\ Runs(i, Metrics) /\ callbacks[i].at # NotRead
    /\ at' = [at EXCEPT ![callbacks[i].topic] = callbacks[i].at]
    /\ callbacks' = RemoveAt(callbacks, i)
    /\ UNCHANGED <<world, online, broker, silence>>

(* Store.Apply for evcc/status.                                            *)
ApplyStatus(i) ==
    /\ Runs(i, {"status"})
    /\ online' = callbacks[i].value
    /\ callbacks' = RemoveAt(callbacks, i)
    /\ UNCHANGED <<world, at, broker, silence>>

(* onConnectionLost.                                                       *)
OnConnectionLost(i) ==
    /\ Runs(i, {"link"}) /\ callbacks[i].value = "down"
    /\ broker' = FALSE
    /\ callbacks' = RemoveAt(callbacks, i)
    /\ UNCHANGED <<world, at, online, silence>>

(* The store is not told.                                                  *)
OnConnectWrongSilent(i) ==
    /\ Runs(i, {"link"}) /\ callbacks[i].value = "up"
    /\ callbacks' = [callbacks EXCEPT ![i].value = "subscribing"]
    /\ UNCHANGED <<world, store, silence>>

(* onConnect, up to the subscription it then waits for.                    *)
OnConnect(i) ==
    /\ Runs(i, {"link"}) /\ callbacks[i].value = "up"
    /\ broker' = TRUE
    /\ callbacks' = [callbacks EXCEPT ![i].value = "subscribing"]
    /\ UNCHANGED <<world, at, online, silence>>

(* onConnect, the subscription: a failure is logged, and nothing retries.  *)
Subscribe(i) ==
    /\ Runs(i, {"link"}) /\ callbacks[i].value = "subscribing"
    /\ \/ /\ link
          /\ subscribed' = TRUE
          /\ owed' = {m \in Metrics : retained[m] # "none"} \cup {"status"}
       \/ /\ ~link \/ SubscribeFails
          /\ UNCHANGED <<subscribed, owed>>
    /\ callbacks' = RemoveAt(callbacks, i)
    /\ UNCHANGED <<evccUp, dead, link, retained, status, store, silence>>

Callback(i) == \/ ReadClock(i) \/ ApplyMetric(i) \/ ApplyStatus(i)
               \/ OnConnectionLost(i) \/ OnConnect(i) \/ Subscribe(i)

Next ==
    \/ Tick
    \/ EvccTurns
    \/ LinkTurns
    \/ \E m \in Metrics : Publish(m)
    \/ \E m \in MayFail : MeterTurns(m)
    \/ \E topic \in Metrics \cup {"status"} : DeliverRetained(topic)
    \/ \E i \in 1..MaxCallbacks : Callback(i)

(* Goroutines run, the broker delivers, evcc publishes, time passes; evcc, *)
(* the meters and the connection turn when they like.                      *)
Spec == Init /\ [][Next]_vars
        /\ WF_vars(Tick)
        /\ \A m \in Metrics : WF_vars(Publish(m))
        /\ \A topic \in Metrics \cup {"status"} : WF_vars(DeliverRetained(topic))
        /\ WF_vars(\E i \in 1..MaxCallbacks : Callback(i))

-----------------------------------------------------------------------------
(* Once received is fresh enough.                                          *)
FreshWrongOnce(m) == at[m] # Never

(* InputsFromSnapshot.                                                     *)
Fresh(m) == at[m] =< StaleTimeout
Stale == ~broker \/ online = "offline" \/ \E m \in Metrics : ~Fresh(m)

(* Types; the client is subscribed only while it is connected.             *)
TypeOK ==
    /\ evccUp \in BOOLEAN /\ dead \subseteq Metrics
    /\ link \in BOOLEAN /\ subscribed \in BOOLEAN /\ (subscribed => link)
    /\ retained \in [Metrics -> {"none", "older", "current"}]
    /\ status \in {"online", "offline"}
    /\ owed \subseteq Metrics \cup {"status"}
    /\ Len(callbacks) =< MaxCallbacks
    /\ at \in [Metrics -> Ages] /\ silence \in [Metrics -> Ages]
    /\ online \in {"never", "online", "offline"} /\ broker \in BOOLEAN
    /\ overtaken \in BOOLEAN /\ turns \in 0..MaxTurns

(* Silence is never taken for data: when no message of a metric was        *)
(* received within the timeout, the verdict is stale, however late and in  *)
(* whatever order the callbacks wrote the store.                           *)
SilenceIsStale == \A m \in Metrics : silence[m] > StaleTimeout => Stale

(* Types, and silence is stale, in every state.                            *)
FreshInv == TypeOK /\ SilenceIsStale

(* An outage ends in the fail-safe: when the connection, or evcc, is gone  *)
(* for good, the verdict is stale for good, even if the callback that      *)
(* reports it was overtaken by an older one.                               *)
OutageEndsInFailSafe ==
    (<>[]~link \/ <>[](~evccUp /\ link)) => <>[]Stale

AllIsWell == link /\ evccUp /\ dead = {}

(* A lasting recovery is noticed: once connection, evcc and meters stay    *)
(* up, the verdict is fresh for good, if the last subscription succeeded   *)
(* and no connection or status callback was overtaken by a later one.      *)
Recovers ==
    (<>[](AllIsWell /\ subscribed) /\ []~overtaken) => <>[]~Stale

(* how-it-works.md says of an unreachable broker, as of every cause, that  *)
(* surplus evaluation resumes when it clears, and makes no condition: while*)
(* evcc runs all along, a connection that is back for good ends the        *)
(* fail-safe for good.                                                     *)
AlwaysRecovers == ([]evccUp /\ <>[]AllIsWell) => <>[]~Stale
=============================================================================
