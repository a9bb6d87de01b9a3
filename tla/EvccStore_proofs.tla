--------------------------- MODULE EvccStore_proofs ---------------------------
(***************************************************************************)
(* Theorems about the evcc store, for any stale timeout, any number of     *)
(* callbacks under way in any order, any meters that fail and any number   *)
(* of lost connections: silence is never taken for data.                   *)
(*                                                                         *)
(* A receipt time travels from the clock through a callback's local        *)
(* variable into the store, and a later one may arrive before it.  The     *)
(* invariant says that on every stage of that way it is no younger than    *)
(* the last receipt of its metric: a callback that was overtaken may put   *)
(* back an older time, never invent a younger one.                         *)
(***************************************************************************)
EXTENDS EvccStore, SequenceTheorems, TLAPS

-----------------------------------------------------------------------------
(* The invariant.                                                          *)

Messages ==
    [topic : Metrics, value : {"reading"}, at : Ages \cup {NotRead}]
    \cup [topic : {"status"}, value : {"online", "offline"}, at : {NotRead}]
    \cup [topic : {"link"}, value : {"up", "down", "subscribing"}, at : {NotRead}]

Types == TypeOK /\ callbacks \in Seq(Messages)

(* What a callback of a metric read from the clock, and what the store     *)
(* has, is no younger than the last receipt.                               *)
HeldNotYounger ==
    \A i \in 1..Len(callbacks) :
        callbacks[i].topic \in Metrics /\ callbacks[i].at # NotRead
            => silence[callbacks[i].topic] =< callbacks[i].at
StoredNotYounger == \A m \in Metrics : silence[m] =< at[m]

IInv == Types /\ HeldNotYounger /\ StoredNotYounger

-----------------------------------------------------------------------------
(* Ages, and taking a callback out of the list.                            *)

LEMMA AgeTypes ==
    /\ StaleTimeout \in Nat /\ Old \in Nat /\ Never \in Nat /\ Old = StaleTimeout + 1
    /\ Ages \subseteq Nat /\ 0 \in Ages /\ Never \in Ages /\ NotRead \notin Ages
    /\ MaxCallbacks \in Nat /\ MaxCallbacks > 0 /\ MaxTurns \in Nat /\ 0 \in 0..MaxTurns
<1>1. StaleTimeout \in Nat /\ MaxCallbacks \in Nat \ {0} /\ MaxTurns \in Nat
  BY EvccStoreConstants
<1> QED
  BY <1>1 DEF Old, Never, Ages, NotRead

(* A tick ages what is compared without changing the order.                *)
LEMMA OlderKeepsOrder ==
    ASSUME NEW a \in Ages, NEW b \in Ages, a =< b
    PROVE  Older(a) \in Ages /\ Older(b) \in Ages /\ Older(a) =< Older(b)
BY AgeTypes DEF Older, Ages, Never

LEMMA RemovesOne ==
    ASSUME NEW S, NEW s \in Seq(S), NEW i \in 1..Len(s)
    PROVE  /\ RemoveAt(s, i) \in Seq(S) /\ Len(RemoveAt(s, i)) = Len(s) - 1
           /\ \A j \in 1..Len(RemoveAt(s, i)) :
                 \E l \in 1..Len(s) : RemoveAt(s, i)[j] = s[l]
<1> DEFINE before == SubSeq(s, 1, i - 1)
           after == SubSeq(s, i + 1, Len(s))
<1>1. Len(s) \in Nat /\ i \in Nat /\ 1 =< i /\ i =< Len(s)
      /\ \A l \in 1..Len(s) : s[l] \in S
  OBVIOUS
<1>2. /\ before \in Seq(S) /\ Len(before) = i - 1
      /\ \A j \in 1..(i - 1) : before[j] = s[j]
  <2>1. \A l \in 1..(i - 1) : s[l] \in S
    BY <1>1
  <2>2. /\ before \in Seq(S) /\ Len(before) = IF 1 <= i - 1 THEN (i - 1) - 1 + 1 ELSE 0
        /\ \A j \in 1..((i - 1) - 1 + 1) : before[j] = s[1 + j - 1]
    BY <1>1, <2>1, SubSeqProperties
  <2> HIDE DEF before
  <2> QED
    BY <1>1, <2>2
<1>3. /\ after \in Seq(S) /\ Len(after) = Len(s) - i
      /\ \A j \in 1..(Len(s) - i) : after[j] = s[i + j]
  <2>1. \A l \in (i + 1)..Len(s) : s[l] \in S
    BY <1>1
  <2>2. /\ after \in Seq(S)
        /\ Len(after) = IF i + 1 <= Len(s) THEN Len(s) - (i + 1) + 1 ELSE 0
        /\ \A j \in 1..(Len(s) - (i + 1) + 1) : after[j] = s[i + 1 + j - 1]
    BY <1>1, <2>1, SubSeqProperties
  <2> HIDE DEF after
  <2> QED
    BY <1>1, <2>2
<1>4. RemoveAt(s, i) = before \o after
  BY DEF RemoveAt
<1> HIDE DEF before, after
<1>5. /\ RemoveAt(s, i) \in Seq(S) /\ Len(RemoveAt(s, i)) = (i - 1) + (Len(s) - i)
      /\ \A j \in 1..((i - 1) + (Len(s) - i)) :
            RemoveAt(s, i)[j] = IF j <= i - 1 THEN before[j] ELSE after[j - (i - 1)]
  <2>1. /\ before \o after \in Seq(S) /\ Len(before \o after) = Len(before) + Len(after)
        /\ \A j \in 1..Len(before) + Len(after) : (before \o after)[j] =
              IF j <= Len(before) THEN before[j] ELSE after[j - Len(before)]
    BY <1>2, <1>3, ConcatProperties
  <2> QED
    BY <1>2, <1>3, <1>4, <2>1
<1>6. ASSUME NEW j \in 1..(Len(s) - 1)
      PROVE  \E l \in 1..Len(s) : RemoveAt(s, i)[j] = s[l]
  <2>1. CASE j =< i - 1
    <3>1. j \in 1..(i - 1) /\ j \in 1..Len(s) /\ j \in 1..((i - 1) + (Len(s) - i))
      BY <1>1, <2>1
    <3> QED
      BY <1>2, <1>5, <2>1, <3>1
  <2>2. CASE ~(j =< i - 1)
    <3>1. /\ j - (i - 1) \in 1..(Len(s) - i) /\ j + 1 \in 1..Len(s)
          /\ i + (j - (i - 1)) = j + 1 /\ j \in 1..((i - 1) + (Len(s) - i))
      BY <1>1, <2>2
    <3> QED
      BY <1>3, <1>5, <2>2, <3>1
  <2> QED
    BY <2>1, <2>2
<1>7. (i - 1) + (Len(s) - i) = Len(s) - 1
  BY <1>1
<1> QED
  BY <1>5, <1>6, <1>7

-----------------------------------------------------------------------------
(* What the steps do to the list of callbacks.                             *)

Callbacks == /\ callbacks \in Seq(Messages) /\ Len(callbacks) =< MaxCallbacks
             /\ HeldNotYounger

LEMMA MessageFields ==
    ASSUME NEW c \in Messages
    PROVE  /\ c.topic \in Metrics => c.value = "reading" /\ c.at \in Ages \cup {NotRead}
           /\ c.topic = "status" => c.value \in {"online", "offline"} /\ c.at = NotRead
           /\ c.topic = "link" => c.at = NotRead
           /\ c.topic \in Metrics \cup {"status", "link"}
           /\ "status" \notin Metrics /\ "link" \notin Metrics
BY DEF Messages, Metrics

(* A new callback has not read the clock.                                  *)
LEMMA Arrives ==
    ASSUME Callbacks, Room, MaxCallbacks \in Nat, NEW c \in Messages, c.at = NotRead,
           callbacks' = Append(callbacks, c), silence' = silence
    PROVE  Callbacks'
<1>1. /\ callbacks' \in Seq(Messages) /\ Len(callbacks') = Len(callbacks) + 1
      /\ \A j \in 1..Len(callbacks) : callbacks'[j] = callbacks[j]
      /\ callbacks'[Len(callbacks) + 1] = c
  BY AppendProperties DEF Callbacks
<1>2. Len(callbacks) \in Nat /\ Len(callbacks') =< MaxCallbacks
  BY <1>1 DEF Callbacks, Room
<1>3. ASSUME NEW j \in 1..Len(callbacks'),
             callbacks'[j].topic \in Metrics, callbacks'[j].at # NotRead
      PROVE  silence'[callbacks'[j].topic] =< callbacks'[j].at
  <2>1. j # Len(callbacks) + 1
    BY <1>1, <1>3
  <2>2. j \in 1..Len(callbacks)
    BY <1>1, <1>2, <2>1
  <2> QED
    BY <1>1, <1>3, <2>2 DEF Callbacks, HeldNotYounger
<1> QED
  BY <1>1, <1>2, <1>3 DEF Callbacks, HeldNotYounger

LEMMA Finishes ==
    ASSUME Callbacks, MaxCallbacks \in Nat, NEW i \in 1..Len(callbacks),
           callbacks' = RemoveAt(callbacks, i), silence' = silence
    PROVE  Callbacks'
<1>1. /\ callbacks' \in Seq(Messages) /\ Len(callbacks') = Len(callbacks) - 1
      /\ \A j \in 1..Len(callbacks') : \E l \in 1..Len(callbacks) : callbacks'[j] = callbacks[l]
  BY RemovesOne DEF Callbacks
<1>2. Len(callbacks') =< MaxCallbacks
  BY <1>1 DEF Callbacks
<1> QED
  BY <1>1, <1>2 DEF Callbacks, HeldNotYounger

-----------------------------------------------------------------------------
(* The steps.                                                              *)

LEMMA Start == Init => IInv
<1> SUFFICES ASSUME Init PROVE IInv
  OBVIOUS
<1> USE DEF Init
<1>1. /\ evccUp \in BOOLEAN /\ dead \subseteq Metrics /\ link \in BOOLEAN
      /\ subscribed \in BOOLEAN /\ (subscribed => link)
      /\ retained \in [Metrics -> {"none", "older", "current"}]
      /\ status \in {"online", "offline"} /\ owed \subseteq Metrics \cup {"status"}
      /\ online \in {"never", "online", "offline"} /\ broker \in BOOLEAN
      /\ overtaken \in BOOLEAN
  OBVIOUS
<1>2. callbacks \in Seq(Messages) /\ Len(callbacks) = 0 /\ Len(callbacks) =< MaxCallbacks
  BY AgeTypes
<1>3. at \in [Metrics -> Ages] /\ silence \in [Metrics -> Ages]
  BY AgeTypes
<1>4. turns \in 0..MaxTurns
  BY AgeTypes
<1>5. HeldNotYounger
  BY <1>2 DEF HeldNotYounger
<1>6. StoredNotYounger
  BY AgeTypes DEF StoredNotYounger
<1> QED
  BY <1>1, <1>2, <1>3, <1>4, <1>5, <1>6 DEF IInv, Types, TypeOK

(* A turn is one of the bounded ones.                                      *)
LEMMA TurnTypes == turns \in 0..MaxTurns /\ Turn => turns' \in 0..MaxTurns
BY AgeTypes DEF Turn

LEMMA TickStep == IInv /\ Tick => IInv'
<1> SUFFICES ASSUME IInv, Tick PROVE IInv'
  OBVIOUS
<1>1. /\ retained' = [m \in Metrics |->
            IF retained[m] = "current" THEN "older" ELSE retained[m]]
      /\ at' = [m \in Metrics |-> Older(at[m])]
      /\ silence' = [m \in Metrics |-> Older(silence[m])]
      /\ callbacks' = [i \in DOMAIN callbacks |->
            [callbacks[i] EXCEPT !.at = IF @ = NotRead THEN @ ELSE Older(@)]]
      /\ UNCHANGED <<evccUp, dead, link, subscribed, status, owed, online, broker,
                     overtaken>>
  BY DEF Tick
<1>2. TypeOK /\ callbacks \in Seq(Messages) /\ HeldNotYounger /\ StoredNotYounger
  BY DEF IInv, Types
<1>3. turns' \in 0..MaxTurns
  BY <1>2, TurnTypes DEF Tick, TypeOK
<1>4. at' \in [Metrics -> Ages] /\ silence' \in [Metrics -> Ages] /\ StoredNotYounger'
  BY <1>1, <1>2, OlderKeepsOrder, AgeTypes DEF TypeOK, StoredNotYounger
<1>5. retained' \in [Metrics -> {"none", "older", "current"}]
  BY <1>1, <1>2 DEF TypeOK
<1> DEFINE aged(c) == [c EXCEPT !.at = IF @ = NotRead THEN @ ELSE Older(@)]
<1>6. ASSUME NEW c \in Messages
      PROVE  /\ aged(c) \in Messages /\ aged(c).topic = c.topic
             /\ aged(c).at = IF c.at = NotRead THEN NotRead ELSE Older(c.at)
  <2>1. \A a \in Ages : Older(a) \in Ages
    BY OlderKeepsOrder, AgeTypes
  <2> QED
    BY <2>1 DEF Messages
<1>7. \A i \in 1..Len(callbacks) : callbacks[i] \in Messages /\ callbacks'[i] = aged(callbacks[i])
  <2>1. DOMAIN callbacks = 1..Len(callbacks)
        /\ \A i \in 1..Len(callbacks) : callbacks[i] \in Messages
    BY <1>2
  <2>2. callbacks' = [i \in 1..Len(callbacks) |-> aged(callbacks[i])]
    BY <1>1, <2>1, Zenon
  <2> QED
    BY <2>1, <2>2, Zenon
<1> HIDE DEF aged
<1>8. callbacks' \in Seq(Messages) /\ Len(callbacks') = Len(callbacks)
  <2>1. DOMAIN callbacks = 1..Len(callbacks) /\ Len(callbacks) \in Nat
    BY <1>2
  <2>2. callbacks' \in [1..Len(callbacks) -> Messages]
    BY <1>1, <1>6, <1>7, <2>1
  <2> QED
    BY <2>1, <2>2, SeqDef, LenProperties
<1>9. HeldNotYounger'
  <2> SUFFICES ASSUME NEW i \in 1..Len(callbacks),
                      callbacks'[i].topic \in Metrics, callbacks'[i].at # NotRead
               PROVE  silence'[callbacks'[i].topic] =< callbacks'[i].at
    BY <1>8 DEF HeldNotYounger
  <2> PICK c \in Messages : c = callbacks[i]
    BY <1>7
  <2>1. c.topic \in Metrics /\ c.at # NotRead /\ c.at \in Ages
        /\ callbacks'[i].topic = c.topic /\ callbacks'[i].at = Older(c.at)
    BY <1>6, <1>7, MessageFields
  <2>2. silence[c.topic] =< c.at /\ silence[c.topic] \in Ages
    BY <1>2, <2>1 DEF HeldNotYounger, TypeOK
  <2> QED
    BY <1>1, <2>1, <2>2, OlderKeepsOrder
<1>10. TypeOK'
  BY <1>1, <1>2, <1>3, <1>4, <1>5, <1>8 DEF TypeOK
<1> QED
  BY <1>4, <1>8, <1>9, <1>10 DEF IInv, Types

(* The steps of evcc, the meters, the connection and the broker leave the  *)
(* store alone.                                                            *)
LEMMA WorldStep ==
    ASSUME IInv, UNCHANGED <<store, history>>,
           \/ UNCHANGED callbacks
           \/ Room /\ \E c \in Messages : /\ c.at = NotRead
                                          /\ callbacks' = Append(callbacks, c)
    PROVE  Callbacks' /\ at' \in [Metrics -> Ages] /\ silence' \in [Metrics -> Ages]
           /\ StoredNotYounger' /\ online' \in {"never", "online", "offline"}
           /\ broker' \in BOOLEAN /\ overtaken' \in BOOLEAN
<1>1. Callbacks /\ MaxCallbacks \in Nat
  BY AgeTypes DEF IInv, Types, TypeOK, Callbacks
<1>2. UNCHANGED <<at, online, broker, silence, overtaken>>
  BY DEF store, history
<1>3. CASE UNCHANGED callbacks
  BY <1>1, <1>2, <1>3 DEF IInv, Types, TypeOK, Callbacks, HeldNotYounger, StoredNotYounger
<1>4. CASE Room /\ \E c \in Messages : /\ c.at = NotRead
                                       /\ callbacks' = Append(callbacks, c)
  <2>1. Callbacks'
    BY <1>1, <1>2, <1>4, Arrives
  <2> QED
    BY <1>2, <2>1 DEF IInv, Types, TypeOK, StoredNotYounger
<1> QED
  BY <1>3, <1>4

LEMMA Assemble ==
    ASSUME Callbacks', at' \in [Metrics -> Ages], silence' \in [Metrics -> Ages],
           StoredNotYounger', online' \in {"never", "online", "offline"},
           broker' \in BOOLEAN, overtaken' \in BOOLEAN,
           evccUp' \in BOOLEAN, dead' \subseteq Metrics, link' \in BOOLEAN,
           subscribed' \in BOOLEAN, subscribed' => link',
           retained' \in [Metrics -> {"none", "older", "current"}],
           status' \in {"online", "offline"}, owed' \subseteq Metrics \cup {"status"},
           turns' \in 0..MaxTurns
    PROVE  IInv'
BY DEF IInv, Types, TypeOK, Callbacks

(* What is delivered is a message, if anything is.                         *)
LEMMA Delivered ==
    ASSUME NEW topic, NEW value, Room, Deliver(topic, value),
           \/ topic \in Metrics /\ value = "reading"
           \/ topic = "status" /\ value \in {"online", "offline"}
    PROVE  \/ UNCHANGED callbacks
           \/ Room /\ \E c \in Messages : /\ c.at = NotRead
                                          /\ callbacks' = Append(callbacks, c)
<1>1. Message(topic, value) \in Messages /\ Message(topic, value).at = NotRead
  BY DEF Message, Messages
<1> QED
  BY <1>1 DEF Deliver

LEMMA PublishStep ==
    ASSUME NEW m \in Metrics
    PROVE  IInv /\ Publish(m) => IInv'
<1> SUFFICES ASSUME IInv, Publish(m) PROVE IInv'
  OBVIOUS
<1>1. /\ Room /\ retained' = [retained EXCEPT ![m] = "current"]
      /\ Deliver(m, "reading")
      /\ UNCHANGED <<evccUp, dead, link, subscribed, status, owed, store, history, turns>>
  BY DEF Publish
<1>2. TypeOK
  BY DEF IInv, Types
<1>3. /\ Callbacks' /\ at' \in [Metrics -> Ages] /\ silence' \in [Metrics -> Ages]
      /\ StoredNotYounger' /\ online' \in {"never", "online", "offline"}
      /\ broker' \in BOOLEAN /\ overtaken' \in BOOLEAN
  BY <1>1, Delivered, WorldStep
<1> QED
  BY <1>1, <1>2, <1>3, Assemble DEF TypeOK

LEMMA EvccStep == IInv /\ EvccTurns => IInv'
<1> SUFFICES ASSUME IInv, EvccTurns PROVE IInv'
  OBVIOUS
<1>1. /\ Room /\ evccUp' = ~evccUp
      /\ status' = IF evccUp' THEN "online" ELSE "offline"
      /\ Deliver("status", status')
      /\ UNCHANGED <<dead, link, subscribed, retained, owed, store, history>>
  BY DEF EvccTurns
<1>2. TypeOK
  BY DEF IInv, Types
<1>3. turns' \in 0..MaxTurns
  BY <1>2, TurnTypes DEF EvccTurns, TypeOK
<1>4. status' \in {"online", "offline"}
  BY <1>1
<1>5. \/ UNCHANGED callbacks
      \/ Room /\ \E c \in Messages : /\ c.at = NotRead
                                     /\ callbacks' = Append(callbacks, c)
  <2>1. Message("status", status') \in Messages /\ Message("status", status').at = NotRead
    BY <1>4 DEF Message, Messages
  <2> QED
    BY <1>1, <2>1 DEF Deliver
<1>6. /\ Callbacks' /\ at' \in [Metrics -> Ages] /\ silence' \in [Metrics -> Ages]
      /\ StoredNotYounger' /\ online' \in {"never", "online", "offline"}
      /\ broker' \in BOOLEAN /\ overtaken' \in BOOLEAN
  BY <1>1, <1>5, WorldStep
<1>7. evccUp' \in BOOLEAN
  BY <1>1
<1> QED
  BY <1>1, <1>2, <1>3, <1>4, <1>6, <1>7, Assemble DEF TypeOK

LEMMA LinkStep == IInv /\ LinkTurns => IInv'
<1> SUFFICES ASSUME IInv, LinkTurns PROVE IInv'
  OBVIOUS
<1>1. /\ Room /\ link' = ~link /\ subscribed' = FALSE /\ owed' = {}
      /\ callbacks' = Append(callbacks, Message("link", IF link' THEN "up" ELSE "down"))
      /\ UNCHANGED <<evccUp, dead, retained, status, store, history>>
  BY DEF LinkTurns
<1>2. TypeOK
  BY DEF IInv, Types
<1>3. turns' \in 0..MaxTurns
  BY <1>2, TurnTypes DEF LinkTurns, TypeOK
<1>4. \E c \in Messages : c.at = NotRead /\ callbacks' = Append(callbacks, c)
  BY <1>1 DEF Message, Messages
<1>5. /\ Callbacks' /\ at' \in [Metrics -> Ages] /\ silence' \in [Metrics -> Ages]
      /\ StoredNotYounger' /\ online' \in {"never", "online", "offline"}
      /\ broker' \in BOOLEAN /\ overtaken' \in BOOLEAN
  BY <1>1, <1>4, WorldStep
<1> QED
  BY <1>1, <1>2, <1>3, <1>5, Assemble DEF TypeOK

LEMMA MeterStep ==
    ASSUME NEW m \in Metrics
    PROVE  IInv /\ MeterTurns(m) => IInv'
<1> SUFFICES ASSUME IInv, MeterTurns(m) PROVE IInv'
  OBVIOUS
<1>1. /\ dead' = IF m \in dead THEN dead \ {m} ELSE dead \cup {m}
      /\ UNCHANGED <<evccUp, link, subscribed, retained, status, owed, callbacks,
                     store, history>>
  BY DEF MeterTurns
<1>2. TypeOK
  BY DEF IInv, Types
<1>3. turns' \in 0..MaxTurns
  BY <1>2, TurnTypes DEF MeterTurns, TypeOK
<1>4. /\ Callbacks' /\ at' \in [Metrics -> Ages] /\ silence' \in [Metrics -> Ages]
      /\ StoredNotYounger' /\ online' \in {"never", "online", "offline"}
      /\ broker' \in BOOLEAN /\ overtaken' \in BOOLEAN
  BY <1>1, WorldStep
<1> QED
  BY <1>1, <1>2, <1>3, <1>4, Assemble DEF TypeOK

LEMMA RetainedStep ==
    ASSUME NEW topic \in Metrics \cup {"status"}
    PROVE  IInv /\ DeliverRetained(topic) => IInv'
<1> SUFFICES ASSUME IInv, DeliverRetained(topic) PROVE IInv'
  OBVIOUS
<1> PICK value : value = IF topic = "status" THEN status ELSE "reading"
  OBVIOUS
<1>1. /\ Room /\ owed' = owed \ {topic} /\ Deliver(topic, value)
      /\ UNCHANGED <<evccUp, dead, link, subscribed, retained, status, store,
                     history, turns>>
  BY DEF DeliverRetained
<1>2. TypeOK
  BY DEF IInv, Types
<1>3. \/ topic \in Metrics /\ value = "reading"
      \/ topic = "status" /\ value \in {"online", "offline"}
  BY <1>2 DEF TypeOK
<1>4. /\ Callbacks' /\ at' \in [Metrics -> Ages] /\ silence' \in [Metrics -> Ages]
      /\ StoredNotYounger' /\ online' \in {"never", "online", "offline"}
      /\ broker' \in BOOLEAN /\ overtaken' \in BOOLEAN
  BY <1>1, <1>3, Delivered, WorldStep
<1> QED
  BY <1>1, <1>2, <1>4, Assemble DEF TypeOK

-----------------------------------------------------------------------------
(* The callbacks.                                                          *)

(* Which callback runs, and what a step of it may assume.                  *)
LEMMA Running ==
    ASSUME IInv, NEW i, NEW topics, Runs(i, topics)
    PROVE  /\ i \in 1..Len(callbacks) /\ callbacks[i] \in Messages
           /\ callbacks[i].topic \in topics
           /\ overtaken' \in BOOLEAN /\ turns' = turns
           /\ TypeOK /\ Callbacks /\ StoredNotYounger /\ MaxCallbacks \in Nat
<1>1. TypeOK /\ Callbacks /\ StoredNotYounger /\ MaxCallbacks \in Nat
  BY AgeTypes DEF IInv, Types, TypeOK, Callbacks
<1>2. overtaken' \in BOOLEAN /\ turns' = turns
  BY DEF Runs
<1>3. i \in 1..Len(callbacks) /\ callbacks[i] \in Messages /\ callbacks[i].topic \in topics
  BY <1>1 DEF Runs, Callbacks
<1> QED
  BY <1>1, <1>2, <1>3

LEMMA ReadClockStep ==
    ASSUME NEW i
    PROVE  IInv /\ ReadClock(i) => IInv'
<1> SUFFICES ASSUME IInv, ReadClock(i) PROVE IInv'
  OBVIOUS
<1> PICK c : c = callbacks[i]
  OBVIOUS
<1>0. Ages \subseteq Int
  BY AgeTypes
<1>1. /\ Runs(i, Metrics) /\ c.at = NotRead
      /\ callbacks' = [callbacks EXCEPT ![i].at = 0]
      /\ silence' = [silence EXCEPT ![c.topic] = 0]
      /\ UNCHANGED <<world, store>>
  BY DEF ReadClock
<1>2. /\ i \in 1..Len(callbacks) /\ c \in Messages /\ c.topic \in Metrics
      /\ overtaken' \in BOOLEAN /\ turns' = turns
      /\ TypeOK /\ Callbacks /\ StoredNotYounger
  BY <1>1, Running
<1>3. PICK r : r = [c EXCEPT !.at = 0]
  OBVIOUS
<1>4. r \in Messages /\ r.topic = c.topic /\ r.at = 0
  BY <1>2, <1>3, AgeTypes DEF Messages, Metrics
<1>5. callbacks' = [callbacks EXCEPT ![i] = r]
  BY <1>1, <1>3
<1>6. /\ callbacks' \in Seq(Messages) /\ Len(callbacks') = Len(callbacks)
      /\ callbacks'[i] = r
      /\ \A j \in 1..Len(callbacks) : j # i => callbacks'[j] = callbacks[j]
  BY <1>2, <1>4, <1>5 DEF Callbacks
<1>7. /\ silence' \in [Metrics -> Ages] /\ silence'[c.topic] = 0
      /\ \A m \in Metrics : silence'[m] =< silence[m]
  BY <1>1, <1>2, AgeTypes DEF TypeOK
<1>8. \A m \in Metrics : silence'[m] \in Int /\ silence[m] \in Int /\ at[m] \in Int
  <2>1. silence \in [Metrics -> Ages] /\ at \in [Metrics -> Ages]
    BY <1>2 DEF TypeOK
  <2> QED
    BY <1>0, <1>7, <2>1
<1>9. Callbacks'
  <2>1. ASSUME NEW j \in 1..Len(callbacks),
               callbacks'[j].topic \in Metrics, callbacks'[j].at # NotRead
        PROVE  silence'[callbacks'[j].topic] =< callbacks'[j].at
    <3>1. CASE j = i
      BY <1>4, <1>6, <1>7, <3>1
    <3>2. CASE j # i
      <4>1. PICK d \in Messages : d = callbacks[j] /\ d = callbacks'[j]
        BY <1>2, <1>6, <3>2 DEF Callbacks
      <4>2. d.topic \in Metrics /\ d.at # NotRead
        BY <2>1, <4>1
      <4>3. d.at \in Ages
        BY <4>2, MessageFields
      <4>4. silence[d.topic] =< d.at
        BY <1>2, <4>1, <4>2 DEF Callbacks, HeldNotYounger
      <4>5. d.at \in Int
        BY <1>0, <4>3
      <4> QED
        BY <1>7, <1>8, <4>1, <4>2, <4>4, <4>5
    <3> QED
      BY <3>1, <3>2
  <2> QED
    BY <1>2, <1>6, <2>1 DEF Callbacks, HeldNotYounger
<1>10. StoredNotYounger'
  BY <1>1, <1>2, <1>7, <1>8 DEF StoredNotYounger, store
<1> QED
  BY <1>1, <1>2, <1>7, <1>9, <1>10, Assemble DEF TypeOK, store, world

LEMMA ApplyMetricStep ==
    ASSUME NEW i
    PROVE  IInv /\ ApplyMetric(i) => IInv'
<1> SUFFICES ASSUME IInv, ApplyMetric(i) PROVE IInv'
  OBVIOUS
<1> PICK c : c = callbacks[i]
  OBVIOUS
<1>1. /\ Runs(i, Metrics) /\ c.at # NotRead
      /\ at' = [at EXCEPT ![c.topic] = c.at]
      /\ callbacks' = RemoveAt(callbacks, i)
      /\ UNCHANGED <<world, online, broker, silence>>
  BY DEF ApplyMetric
<1>2. /\ i \in 1..Len(callbacks) /\ c \in Messages /\ c.topic \in Metrics
      /\ overtaken' \in BOOLEAN /\ turns' = turns
      /\ TypeOK /\ Callbacks /\ StoredNotYounger /\ MaxCallbacks \in Nat
  BY <1>1, Running
<1>3. Callbacks'
  BY <1>1, <1>2, Finishes
<1>4. c.at \in Ages /\ silence[c.topic] =< c.at
  BY <1>1, <1>2, MessageFields DEF Callbacks, HeldNotYounger
<1>5. at' \in [Metrics -> Ages] /\ StoredNotYounger'
  BY <1>1, <1>2, <1>4 DEF TypeOK, StoredNotYounger
<1> QED
  BY <1>1, <1>2, <1>3, <1>5, Assemble DEF TypeOK, world

LEMMA ApplyStatusStep ==
    ASSUME NEW i
    PROVE  IInv /\ ApplyStatus(i) => IInv'
<1> SUFFICES ASSUME IInv, ApplyStatus(i) PROVE IInv'
  OBVIOUS
<1>1. /\ Runs(i, {"status"}) /\ online' = callbacks[i].value
      /\ callbacks' = RemoveAt(callbacks, i)
      /\ UNCHANGED <<world, at, broker, silence>>
  BY DEF ApplyStatus
<1>2. /\ i \in 1..Len(callbacks) /\ callbacks[i] \in Messages /\ callbacks[i].topic = "status"
      /\ overtaken' \in BOOLEAN /\ turns' = turns
      /\ TypeOK /\ Callbacks /\ StoredNotYounger /\ MaxCallbacks \in Nat
  BY <1>1, Running
<1>3. Callbacks' /\ online' \in {"online", "offline"}
  BY <1>1, <1>2, Finishes, MessageFields
<1> QED
  BY <1>1, <1>2, <1>3, Assemble DEF TypeOK, StoredNotYounger, world

LEMMA LostStep ==
    ASSUME NEW i
    PROVE  IInv /\ OnConnectionLost(i) => IInv'
<1> SUFFICES ASSUME IInv, OnConnectionLost(i) PROVE IInv'
  OBVIOUS
<1>1. /\ Runs(i, {"link"}) /\ broker' = FALSE
      /\ callbacks' = RemoveAt(callbacks, i)
      /\ UNCHANGED <<world, at, online, silence>>
  BY DEF OnConnectionLost
<1>2. /\ i \in 1..Len(callbacks) /\ overtaken' \in BOOLEAN /\ turns' = turns
      /\ TypeOK /\ Callbacks /\ StoredNotYounger /\ MaxCallbacks \in Nat
  BY <1>1, Running
<1>3. Callbacks'
  BY <1>1, <1>2, Finishes
<1> QED
  BY <1>1, <1>2, <1>3, Assemble DEF TypeOK, StoredNotYounger, world

LEMMA OnConnectStep ==
    ASSUME NEW i
    PROVE  IInv /\ OnConnect(i) => IInv'
<1> SUFFICES ASSUME IInv, OnConnect(i) PROVE IInv'
  OBVIOUS
<1> PICK c : c = callbacks[i]
  OBVIOUS
<1>1. /\ Runs(i, {"link"}) /\ broker' = TRUE
      /\ callbacks' = [callbacks EXCEPT ![i].value = "subscribing"]
      /\ UNCHANGED <<world, at, online, silence>>
  BY DEF OnConnect
<1>2. /\ i \in 1..Len(callbacks) /\ c \in Messages /\ c.topic = "link"
      /\ overtaken' \in BOOLEAN /\ turns' = turns
      /\ TypeOK /\ Callbacks /\ StoredNotYounger /\ MaxCallbacks \in Nat
  BY <1>1, Running
<1>3. PICK r : r = [c EXCEPT !.value = "subscribing"]
  OBVIOUS
<1>4. r \in Messages /\ r.topic = "link"
  BY <1>2, <1>3 DEF Messages, Metrics
<1>5. callbacks' = [callbacks EXCEPT ![i] = r]
  BY <1>1, <1>3
<1>6. /\ callbacks' \in Seq(Messages) /\ Len(callbacks') = Len(callbacks)
      /\ callbacks'[i] = r
      /\ \A j \in 1..Len(callbacks) : j # i => callbacks'[j] = callbacks[j]
  BY <1>2, <1>4, <1>5 DEF Callbacks
<1>7. Callbacks'
  BY <1>1, <1>2, <1>4, <1>6 DEF Callbacks, HeldNotYounger, Metrics
<1> QED
  BY <1>1, <1>2, <1>7, Assemble DEF TypeOK, StoredNotYounger, world

LEMMA SubscribeStep ==
    ASSUME NEW i
    PROVE  IInv /\ Subscribe(i) => IInv'
<1> SUFFICES ASSUME IInv, Subscribe(i) PROVE IInv'
  OBVIOUS
<1>1. /\ Runs(i, {"link"})
      /\ \/ /\ link /\ subscribed' = TRUE
            /\ owed' = {m \in Metrics : retained[m] # "none"} \cup {"status"}
         \/ UNCHANGED <<subscribed, owed>>
      /\ callbacks' = RemoveAt(callbacks, i)
      /\ UNCHANGED <<evccUp, dead, link, retained, status, store, silence>>
  BY DEF Subscribe
<1>2. /\ i \in 1..Len(callbacks) /\ overtaken' \in BOOLEAN /\ turns' = turns
      /\ TypeOK /\ Callbacks /\ StoredNotYounger /\ MaxCallbacks \in Nat
  BY <1>1, Running
<1>3. Callbacks'
  BY <1>1, <1>2, Finishes
<1>4. /\ subscribed' \in BOOLEAN /\ subscribed' => link'
      /\ owed' \subseteq Metrics \cup {"status"}
  BY <1>1, <1>2 DEF TypeOK
<1> QED
  BY <1>1, <1>2, <1>3, <1>4, Assemble DEF TypeOK, StoredNotYounger, store

LEMMA Step == IInv /\ [Next]_vars => IInv'
<1> SUFFICES ASSUME IInv, [Next]_vars PROVE IInv'
  OBVIOUS
<1>1. CASE Tick
  BY <1>1, TickStep
<1>2. CASE EvccTurns
  BY <1>2, EvccStep
<1>3. CASE LinkTurns
  BY <1>3, LinkStep
<1>4. ASSUME NEW m \in Metrics, Publish(m) PROVE IInv'
  BY <1>4, PublishStep
<1>5. ASSUME NEW m \in MayFail, MeterTurns(m) PROVE IInv'
  BY <1>5, MeterStep, EvccStoreConstants
<1>6. ASSUME NEW topic \in Metrics \cup {"status"}, DeliverRetained(topic) PROVE IInv'
  BY <1>6, RetainedStep
<1>7. ASSUME NEW i \in 1..MaxCallbacks, Callback(i) PROVE IInv'
  BY <1>7, ReadClockStep, ApplyMetricStep, ApplyStatusStep, LostStep, OnConnectStep,
     SubscribeStep DEF Callback
<1>8. CASE UNCHANGED vars
  BY <1>8 DEF vars, world, store, history, IInv, Types, TypeOK, HeldNotYounger,
              StoredNotYounger
<1> QED
  BY <1>1, <1>2, <1>3, <1>4, <1>5, <1>6, <1>7, <1>8 DEF Next

-----------------------------------------------------------------------------
(* The inductive invariant holds in every state.                           *)
THEOREM StoreInvariant == Spec => []IInv
<1>1. Init => IInv
  BY Start
<1>2. IInv /\ [Next]_vars => IInv'
  BY Step
<1> QED
  BY <1>1, <1>2, PTL DEF Spec

(* A metric of which no message was received within the timeout makes the  *)
(* verdict of InputsFromSnapshot stale, whatever order the callbacks of    *)
(* handleMessage finished in.                                              *)
THEOREM SilenceIsNoticed == Spec => []FreshInv
<1>1. IInv => FreshInv
  <2> SUFFICES ASSUME IInv PROVE FreshInv
    OBVIOUS
  <2>1. TypeOK /\ StoredNotYounger
    BY DEF IInv, Types
  <2>2. ASSUME NEW m \in Metrics, silence[m] > StaleTimeout PROVE ~Fresh(m)
    <3>1. silence[m] \in Nat /\ at[m] \in Nat /\ silence[m] =< at[m] /\ StaleTimeout \in Nat
      BY <2>1, AgeTypes DEF TypeOK, StoredNotYounger
    <3> QED
      BY <2>2, <3>1 DEF Fresh
  <2> QED
    BY <2>1, <2>2 DEF FreshInv, SilenceIsStale, Stale
<1> QED
  BY <1>1, StoreInvariant, PTL

=============================================================================
