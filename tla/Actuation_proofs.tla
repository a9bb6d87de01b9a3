--------------------------- MODULE Actuation_proofs ---------------------------
(***************************************************************************)
(* Theorems about the way of a decision to evcc, for any modes, decisions, *)
(* republish interval and any faults: what the loop believes published is  *)
(* what evcc has or will have; an edge a tick saw is acted on in that      *)
(* tick; and one republish interval after the last fault evcc does as      *)
(* decided.                                                                *)
(*                                                                         *)
(* The last one counts: since the last fault, each of mode and limit is    *)
(* either on its way already or has not been published for as many ticks   *)
(* as completed since (Settling), and the cadence bounds those.            *)
(***************************************************************************)
EXTENDS Actuation, SequenceTheorems, WellFoundedInduction, TLAPS

-----------------------------------------------------------------------------
(* The invariant.                                                          *)

Messages == [topic : {"mode"}, value : Modes] \cup [topic : {"limitSoc"}, value : Limits]

(* A tick that saw an edge forces both publishes, and did force those      *)
(* behind it.                                                              *)
EdgeForces ==
    /\ hist.edge => force
    /\ phase # "mode" /\ hist.edge => loop.modeAge = 0 \/ hist.modeFailed
    /\ phase = "idle" /\ hist.edge /\ snap => loop.limitAge = 0 \/ hist.limitFailed

(* Since the last fault everybody is there, and each tick sees it.         *)
Peaceful == /\ calm => connected /\ evcc.up /\ online = "up"
            /\ calm /\ phase # "idle" => snap
            /\ ~calm => quiet = 0

(* Ticks begun since the last fault.                                       *)
Begun == IF phase = "idle" THEN quiet ELSE quiet + 1

Settling ==
    calm =>
      /\ \/ EventualMode = want.mode
         \/ Begun =< loop.modeAge /\ (phase # "mode" => Begun < Republish)
      /\ \/ EventualLimit = want.limit
         \/ Begun =< loop.limitAge /\ (phase = "idle" => Begun < Republish)

IInv == TypeOK /\ ConfirmedHolds /\ EdgeForces /\ Peaceful /\ Settling

-----------------------------------------------------------------------------
(* The last message of a topic among those under way.                      *)

(* A set of naturals that is not empty has a least element.                *)
LEMMA LeastElement ==
    ASSUME NEW T, T \subseteq Nat, T # {}
    PROVE  \E x \in T : \A y \in T : x =< y
<1> DEFINE R == {ss \in Nat \X Nat : ss[1] < ss[2]}
<1>1. \E x \in T : \A y \in T : ~(<<y, x>> \in R)
  <2>1. IsWellFoundedOn(R, Nat)
    BY NatLessThanWellFounded DEF OpToRel
  <2> HIDE DEF R
  <2> QED
    BY <2>1, WFMin
<1>2. PICK x \in T : \A y \in T : ~(<<y, x>> \in R)
  BY <1>1
<1>3. ASSUME NEW y \in T PROVE x =< y
  <2>1. x \in Nat /\ y \in Nat /\ ~(<<y, x>> \in R)
    BY <1>2
  <2> QED
    BY <2>1
<1> QED
  BY <1>3

(* So has a set of numbers below n a greatest.                             *)
LEMMA GreatestElement ==
    ASSUME NEW n \in Nat, NEW T, T \subseteq 1..n, T # {}
    PROVE  \E x \in T : \A y \in T : y =< x
<1> DEFINE back == {n - i : i \in T}
<1>1. back \subseteq Nat /\ back # {}
  <2>1. \A i \in T : i \in 1..n /\ n - i \in Nat
    OBVIOUS
  <2>2. PICK i \in T : TRUE
    OBVIOUS
  <2> QED
    BY <2>1, <2>2
<1>2. PICK b \in back : \A c \in back : b =< c
  BY <1>1, LeastElement
<1>3. PICK i \in T : b = n - i
  OBVIOUS
<1>4. ASSUME NEW j \in T PROVE j =< i
  <2>1. n - j \in back /\ i \in Int /\ j \in Int
    OBVIOUS
  <2> QED
    BY <1>2, <1>3, <2>1
<1> QED
  BY <1>4

Last(p, t, i) == /\ i \in 1..Len(p) /\ p[i].topic = t
                 /\ \A j \in 1..Len(p) : p[j].topic = t => j =< i
None(p, t) == \A j \in 1..Len(p) : p[j].topic # t

LEMMA LastIs ==
    ASSUME NEW p \in Seq(Messages), NEW t, NEW c, NEW i, Last(p, t, i)
    PROVE  Eventual(p, t, c) = p[i].value
<1> DEFINE of == {j \in DOMAIN p : p[j].topic = t}
<1>1. DOMAIN p = 1..Len(p) /\ Len(p) \in Nat
  OBVIOUS
<1>2. i \in of /\ \A j \in of : j =< i /\ j \in Int
  BY <1>1 DEF Last
<1>3. ASSUME NEW l \in of, \A j \in of : j =< l PROVE l = i
  <2>1. l =< i /\ i =< l /\ l \in Int /\ i \in Int
    BY <1>2, <1>3
  <2> QED
    BY <2>1
<1>4. (CHOOSE l \in of : \A j \in of : j =< l) = i
  BY <1>2, <1>3
<1> QED
  BY <1>2, <1>4 DEF Eventual

LEMMA NoneIs ==
    ASSUME NEW p \in Seq(Messages), NEW t, NEW c, None(p, t)
    PROVE  Eventual(p, t, c) = c
BY DEF Eventual, None

(* There is a last one, or none.                                           *)
LEMMA LastOrNone ==
    ASSUME NEW p \in Seq(Messages), NEW t
    PROVE  None(p, t) \/ \E i : Last(p, t, i)
<1> DEFINE T == {j \in 1..Len(p) : p[j].topic = t}
<1>1. CASE T = {}
  BY <1>1 DEF None
<1>2. CASE T # {}
  <2>1. T \subseteq 1..Len(p) /\ Len(p) \in Nat
    OBVIOUS
  <2>2. \E i \in T : \A j \in T : j =< i
    <3> HIDE DEF T
    <3> QED
      BY <1>2, <2>1, GreatestElement
  <2> QED
    BY <2>2 DEF Last
<1> QED
  BY <1>1, <1>2

LEMMA SentIsLast ==
    ASSUME NEW p \in Seq(Messages), NEW msg \in Messages, NEW t, NEW c
    PROVE  Eventual(Append(p, msg), t, c)
             = IF msg.topic = t THEN msg.value ELSE Eventual(p, t, c)
<1> DEFINE n == Len(p)
<1> PICK q : q = Append(p, msg)
  OBVIOUS
<1>1. /\ q \in Seq(Messages) /\ Len(q) = n + 1 /\ n \in Nat
      /\ \A j \in 1..n : q[j] = p[j]
      /\ q[n + 1] = msg
  BY AppendProperties
<1>2. 1..(n + 1) = 1..n \cup {n + 1} /\ \A j \in 1..(n + 1) : j =< n + 1
  BY <1>1
<1>3. CASE msg.topic = t
  <2>1. Last(q, t, n + 1)
    BY <1>1, <1>2, <1>3 DEF Last
  <2>2. q \in Seq(Messages) /\ q[n + 1] = msg
    BY <1>1
  <2>3. Eventual(q, t, c) = q[n + 1].value
    BY <2>1, <2>2, LastIs
  <2> QED
    BY <1>3, <2>2, <2>3
<1>4. CASE msg.topic # t /\ None(p, t)
  <2>1. None(q, t)
    BY <1>1, <1>2, <1>4 DEF None
  <2> QED
    BY <1>1, <1>4, <2>1, NoneIs
<1>5. ASSUME msg.topic # t, NEW i, Last(p, t, i)
      PROVE  Eventual(q, t, c) = Eventual(p, t, c)
  <2>1. Last(q, t, i) /\ q[i] = p[i]
    BY <1>1, <1>2, <1>5 DEF Last
  <2>2. q \in Seq(Messages)
    BY <1>1
  <2>3. Eventual(q, t, c) = q[i].value
    BY <2>1, <2>2, LastIs
  <2>4. Eventual(p, t, c) = p[i].value
    BY <1>5, LastIs
  <2> QED
    BY <2>1, <2>3, <2>4
<1> QED
  BY <1>3, <1>4, <1>5, LastOrNone

(* Delivering the first message changes nothing in the long run.           *)
LEMMA DeliveredIsPassed ==
    ASSUME NEW p \in Seq(Messages), p # <<>>, NEW t, NEW c
    PROVE  Eventual(Tail(p), t, IF Head(p).topic = t THEN Head(p).value ELSE c)
             = Eventual(p, t, c)
<1>a. PICK d : d = IF Head(p).topic = t THEN Head(p).value ELSE c
  OBVIOUS
<1>b. PICK q : q = Tail(p)
  OBVIOUS
<1> DEFINE n == Len(q)
<1>1. /\ q \in Seq(Messages) /\ n \in Nat /\ Len(p) = n + 1
      /\ \A j \in 1..n : q[j] = p[j + 1]
      /\ Head(p) = p[1]
  <2>1. /\ q \in Seq(Messages) /\ Len(q) = Len(p) - 1 /\ Head(p) = p[1]
        /\ \A j \in 1..(Len(p) - 1) : q[j] = p[j + 1]
    BY <1>b, HeadTailProperties
  <2> QED
    BY <2>1
<1>2. ASSUME None(q, t)
      PROVE  Eventual(q, t, d) = Eventual(p, t, c)
  <2>1. Eventual(q, t, d) = d
    BY <1>1, <1>2, NoneIs
  <2>2. \A j \in 1..Len(p) : j # 1 => p[j].topic # t
    <3> SUFFICES ASSUME NEW j \in 1..Len(p), j # 1 PROVE p[j].topic # t
      OBVIOUS
    <3>1. j - 1 \in 1..n /\ (j - 1) + 1 = j
      BY <1>1
    <3> QED
      BY <1>1, <1>2, <3>1 DEF None
  <2>3. CASE p[1].topic = t
    <3>1. Last(p, t, 1)
      BY <1>1, <2>2, <2>3 DEF Last
    <3> QED
      BY <1>a, <1>1, <2>1, <2>3, <3>1, LastIs
  <2>4. CASE p[1].topic # t
    <3>1. None(p, t)
      BY <2>2, <2>4 DEF None
    <3> QED
      BY <1>a, <1>1, <2>1, <2>4, <3>1, NoneIs
  <2> QED
    BY <2>3, <2>4
<1>3. ASSUME NEW i, Last(q, t, i)
      PROVE  Eventual(q, t, d) = Eventual(p, t, c)
  <2>1. i \in 1..n /\ i + 1 \in 1..Len(p) /\ p[i + 1] = q[i]
    BY <1>1, <1>3 DEF Last
  <2>2. ASSUME NEW j \in 1..Len(p), p[j].topic = t PROVE j =< i + 1
    <3>1. CASE j = 1
      BY <2>1, <3>1
    <3>2. CASE j # 1
      <4>1. j - 1 \in 1..n /\ (j - 1) + 1 = j
        BY <1>1, <3>2
      <4>2. j - 1 =< i
        BY <1>1, <1>3, <2>2, <4>1 DEF Last
      <4> QED
        BY <2>1, <4>2
    <3> QED
      BY <3>1, <3>2
  <2>3. Last(p, t, i + 1)
    BY <1>3, <2>1, <2>2 DEF Last
  <2>4. q \in Seq(Messages)
    BY <1>1
  <2>5. Eventual(q, t, d) = q[i].value
    BY <1>3, <2>4, LastIs
  <2>6. Eventual(p, t, c) = p[i + 1].value
    BY <2>3, LastIs
  <2> QED
    BY <2>1, <2>5, <2>6
<1> QED
  BY <1>a, <1>b, <1>1, <1>2, <1>3, LastOrNone

-----------------------------------------------------------------------------
(* Facts the steps share.                                                  *)

Loops == [lastMode : Modes \cup {NoMode}, modeAge : 0..Republish,
          limitSet : BOOLEAN, lastLimit : Limits \cup {0}, limitAge : 0..Republish,
          prevConnected : BOOLEAN, prevOnline : BOOLEAN]
Hists == [modeFailed : BOOLEAN, limitFailed : BOOLEAN, modeDoubt : BOOLEAN,
          limitDoubt : BOOLEAN, edge : BOOLEAN]
Evccs == [up : BOOLEAN, mode : Modes, limit : Limits]

LEMMA ConstantTypes ==
    /\ Republish \in Nat /\ Republish > 0 /\ MaxPath \in Nat
    /\ \A w \in Wanted : w.mode \in Modes /\ w.limit \in Limits
    /\ 0 \in 0..Republish /\ Republish \in 0..Republish /\ 0 \in 0..(Republish + 1)
<1>1. Republish \in Nat /\ Republish > 0 /\ MaxPath \in Nat
  BY ActuationConstants
<1>2. \A w \in Wanted : w.mode \in Modes /\ w.limit \in Limits
  BY ActuationConstants DEF Limits
<1>3. 0 \in 0..Republish /\ Republish \in 0..Republish /\ 0 \in 0..(Republish + 1)
  BY <1>1
<1> QED
  BY <1>1, <1>2, <1>3

LEMMA OlderTypes ==
    ASSUME NEW a \in 0..Republish
    PROVE  /\ Older(a) \in 0..Republish
           /\ Older(a) = IF a < Republish THEN a + 1 ELSE a
BY ConstantTypes DEF Older

LEMMA FreshLoop == NewLoop \in Loops /\ NoHistory \in Hists
BY ConstantTypes DEF NewLoop, NoHistory, Loops, Hists

(* Nothing sent, nothing delivered.                                        *)
LEMMA SameAhead ==
    ASSUME path' = path, evcc'.mode = evcc.mode, evcc'.limit = evcc.limit
    PROVE  EventualMode' = EventualMode /\ EventualLimit' = EventualLimit
BY DEF EventualMode, EventualLimit

(* A publish that is under way.                                            *)
LEMMA Sent ==
    ASSUME TypeOK, NEW msg \in Messages, Len(path) < MaxPath, path' = Append(path, msg),
           evcc' = evcc
    PROVE  /\ path' \in Seq(Messages) /\ Len(path') =< MaxPath
           /\ EventualMode' = IF msg.topic = "mode" THEN msg.value ELSE EventualMode
           /\ EventualLimit' = IF msg.topic = "limitSoc" THEN msg.value ELSE EventualLimit
<1>1. path \in Seq(Messages) /\ MaxPath \in Nat
  BY ConstantTypes DEF TypeOK, Messages
<1>2. path' \in Seq(Messages) /\ Len(path') = Len(path) + 1 /\ Len(path) \in Nat
  BY <1>1, AppendProperties
<1> QED
  BY <1>1, <1>2, SentIsLast DEF EventualMode, EventualLimit

(* The state, read back from its parts.                                    *)
LEMMA Types ==
    ASSUME connected' \in BOOLEAN, online' \in {"unseen", "up", "down"},
           path' \in Seq(Messages), Len(path') =< MaxPath, evcc' \in Evccs,
           phase' \in {"idle", "mode", "limit"}, want' \in Wanted,
           snap' \in BOOLEAN, force' \in BOOLEAN, calm' \in BOOLEAN,
           loop' \in Loops, hist' \in Hists, quiet' \in 0..(Republish + 1)
    PROVE  TypeOK'
BY DEF TypeOK, Messages, Evccs, Loops, Hists

LEMMA Parts ==
    ASSUME TypeOK
    PROVE  /\ connected \in BOOLEAN /\ online \in {"unseen", "up", "down"}
           /\ path \in Seq(Messages) /\ Len(path) =< MaxPath /\ evcc \in Evccs
           /\ phase \in {"idle", "mode", "limit"} /\ want \in Wanted
           /\ snap \in BOOLEAN /\ force \in BOOLEAN /\ calm \in BOOLEAN
           /\ loop \in Loops /\ hist \in Hists /\ quiet \in 0..(Republish + 1)
BY DEF TypeOK, Messages, Evccs, Loops, Hists

LEMMA Start == Init => IInv
<1> SUFFICES ASSUME Init PROVE IInv
  OBVIOUS
<1>1. path \in Seq(Messages) /\ Len(path) = 0 /\ Len(path) =< MaxPath
  BY ConstantTypes DEF Init
<1>2. evcc \in Evccs
  BY DEF Init, Evccs
<1>3. loop \in Loops /\ hist \in Hists /\ quiet \in 0..(Republish + 1)
  BY FreshLoop, ConstantTypes DEF Init
<1>4. TypeOK
  BY <1>1, <1>2, <1>3 DEF Init, TypeOK, Messages, Evccs, Loops, Hists
<1>5. hist.modeDoubt /\ hist.limitDoubt /\ ~hist.edge
  BY DEF Init, NoHistory
<1>6. ConfirmedHolds /\ EdgeForces
  BY <1>5 DEF ConfirmedHolds, EdgeForces
<1>7. Peaceful /\ Settling
  BY DEF Init, Peaceful, Settling
<1> QED
  BY <1>4, <1>6, <1>7 DEF IInv

-----------------------------------------------------------------------------
(* The steps of the loop.                                                  *)

LEMMA TickStep == IInv /\ TickBegin => IInv'
<1> SUFFICES ASSUME IInv, TickBegin PROVE IInv'
  OBVIOUS
<1>1. /\ phase = "idle" /\ phase' = "mode" /\ snap' = connected /\ force' = Forced
      /\ UNCHANGED <<connected, online, path, evcc, calm, quiet>>
  BY DEF TickBegin, Idle
<1>2. TypeOK /\ ConfirmedHolds /\ Peaceful /\ Settling
  BY DEF IInv
<1>3. want' \in Wanted /\ (calm => want' = want)
  BY <1>2, Parts DEF TickBegin
<1>4. /\ loop' \in Loops /\ loop'.lastMode = loop.lastMode
      /\ loop'.limitSet = loop.limitSet /\ loop'.lastLimit = loop.lastLimit
      /\ loop.modeAge \in 0..Republish /\ loop.limitAge \in 0..Republish
      /\ loop'.modeAge = Older(loop.modeAge) /\ loop'.limitAge = Older(loop.limitAge)
  <2>1. loop \in Loops /\ connected \in BOOLEAN
    BY <1>2, Parts
  <2>2. loop.modeAge \in 0..Republish /\ loop.limitAge \in 0..Republish
    BY <2>1 DEF Loops
  <2>3. Older(loop.modeAge) \in 0..Republish /\ Older(loop.limitAge) \in 0..Republish
    BY <2>2, OlderTypes
  <2>4. loop' = [loop EXCEPT !.prevConnected = connected, !.prevOnline = (online = "up"),
                             !.modeAge = Older(@), !.limitAge = Older(@)]
    BY DEF TickBegin
  <2> QED
    BY <2>1, <2>2, <2>3, <2>4 DEF Loops
<1>5. /\ hist' \in Hists /\ hist'.modeDoubt = hist.modeDoubt
      /\ hist'.limitDoubt = hist.limitDoubt /\ (hist'.edge <=> force')
      /\ force' \in BOOLEAN
  <2>1. hist \in Hists
    BY <1>2, Parts
  <2>2. PICK b \in BOOLEAN : b = (\/ connected /\ ~loop.prevConnected
                                  \/ online = "up" /\ ~loop.prevOnline)
    OBVIOUS
  <2>3. force' = b
    BY <1>1, <2>2 DEF Forced, Reconnected, OnlineEdge
  <2>4. hist' = [hist EXCEPT !.modeFailed = FALSE, !.limitFailed = FALSE, !.edge = b]
    BY <2>2 DEF TickBegin
  <2> QED
    BY <2>1, <2>3, <2>4 DEF Hists
<1>6. EventualMode' = EventualMode /\ EventualLimit' = EventualLimit
  BY <1>1, SameAhead
<1>7. TypeOK'
  BY <1>1, <1>2, <1>3, <1>4, <1>5, Parts, Types
<1>8. ConfirmedHolds'
  BY <1>1, <1>2, <1>4, <1>5, <1>6 DEF ConfirmedHolds
<1>9. EdgeForces'
  BY <1>1, <1>5 DEF EdgeForces
<1>10. Peaceful'
  BY <1>1, <1>2 DEF Peaceful
<1>11. Settling'
  <2>1. quiet \in Nat /\ Republish \in Nat
    BY <1>2, Parts, ConstantTypes
  <2>2. Begun = quiet /\ Begun' = quiet + 1
    BY <1>1 DEF Begun
  <2>3. \A a \in 0..Republish : quiet =< a /\ quiet < Republish => quiet + 1 =< Older(a)
    BY <2>1, OlderTypes
  <2> QED
    BY <1>1, <1>2, <1>3, <1>4, <1>6, <2>2, <2>3 DEF Settling
<1> QED
  BY <1>7, <1>8, <1>9, <1>10, <1>11 DEF IInv

LEMMA PublishModeStep == IInv /\ PublishMode => IInv'
<1> SUFFICES ASSUME IInv, PublishMode PROVE IInv'
  OBVIOUS
<1>1. /\ phase = "mode" /\ phase' = "limit"
      /\ UNCHANGED <<connected, online, evcc, want, snap, force, calm, quiet>>
  BY DEF PublishMode
<1>2. TypeOK /\ ConfirmedHolds /\ EdgeForces /\ Peaceful /\ Settling
  BY DEF IInv
<1>3. loop \in Loops /\ hist \in Hists /\ evcc \in Evccs /\ want \in Wanted
      /\ quiet \in Nat /\ Republish \in Nat /\ Republish > 0
      /\ loop.modeAge \in 0..Republish
  BY <1>2, Parts, ConstantTypes DEF Loops
<1>4. Peaceful'
  BY <1>1, <1>2 DEF Peaceful
<1>5. Begun = quiet + 1 /\ Begun' = quiet + 1
  BY <1>1 DEF Begun
<1> PICK msg : msg = ModeMsg(want.mode)
  OBVIOUS
<1>6. msg \in Messages /\ msg.topic = "mode" /\ msg.value = want.mode
  BY <1>3, ConstantTypes DEF ModeMsg, Messages
<1>7. CASE SkipMode /\ UNCHANGED <<path, loop, hist>>
  <2>1. EventualMode' = EventualMode /\ EventualLimit' = EventualLimit
    BY <1>1, <1>7, SameAhead
  <2>2. TypeOK'
    BY <1>1, <1>2, <1>7, Parts, Types
  <2>3. ConfirmedHolds'
    BY <1>1, <1>2, <1>7, <2>1 DEF ConfirmedHolds
  <2>4. EdgeForces'
    BY <1>1, <1>2, <1>7 DEF EdgeForces, SkipMode
  <2>5. Settling'
    <3>1. Begun =< loop.modeAge => Begun < Republish
      BY <1>3, <1>5, <1>7 DEF SkipMode
    <3> QED
      BY <1>1, <1>2, <1>5, <1>7, <2>1, <3>1 DEF Settling
  <2> QED
    BY <1>4, <2>2, <2>3, <2>4, <2>5 DEF IInv
<1>8. CASE /\ Acked(msg)
           /\ loop' = [loop EXCEPT !.lastMode = want.mode, !.modeAge = 0]
           /\ hist' = [hist EXCEPT !.modeDoubt = ~evcc.up]
  <2>1. /\ path' \in Seq(Messages) /\ Len(path') =< MaxPath
        /\ EventualMode' = want.mode /\ EventualLimit' = EventualLimit
    BY <1>1, <1>2, <1>6, <1>8, Sent DEF Acked
  <2>2. /\ loop' \in Loops /\ loop'.lastMode = want.mode /\ loop'.modeAge = 0
        /\ loop'.limitSet = loop.limitSet /\ loop'.lastLimit = loop.lastLimit
        /\ loop'.limitAge = loop.limitAge
    BY <1>3, <1>8, ConstantTypes DEF Loops
  <2>3. /\ hist' \in Hists /\ hist'.limitDoubt = hist.limitDoubt
        /\ hist'.edge = hist.edge
    BY <1>3, <1>8 DEF Hists
  <2>4. TypeOK'
    BY <1>1, <1>2, <2>1, <2>2, <2>3, Parts, Types
  <2>5. ConfirmedHolds'
    BY <1>1, <1>2, <2>1, <2>2, <2>3 DEF ConfirmedHolds
  <2>6. EdgeForces'
    BY <1>1, <1>2, <2>2, <2>3 DEF EdgeForces
  <2>7. Settling'
    BY <1>1, <1>2, <1>5, <2>1, <2>2 DEF Settling
  <2> QED
    BY <1>4, <2>4, <2>5, <2>6, <2>7 DEF IInv
<1>9. CASE /\ TimedOut(msg) /\ loop' = loop
           /\ hist' = [hist EXCEPT !.modeFailed = TRUE, !.modeDoubt = TRUE]
  <2>1. /\ path' \in Seq(Messages) /\ Len(path') =< MaxPath
        /\ EventualMode' = want.mode /\ EventualLimit' = EventualLimit
    BY <1>1, <1>2, <1>6, <1>9, Sent DEF TimedOut
  <2>2. /\ hist' \in Hists /\ hist'.limitDoubt = hist.limitDoubt
        /\ hist'.edge = hist.edge /\ hist'.modeFailed /\ hist'.modeDoubt
    BY <1>3, <1>9 DEF Hists
  <2>3. TypeOK'
    BY <1>1, <1>2, <1>9, <2>1, <2>2, Parts, Types
  <2>4. ConfirmedHolds'
    BY <1>1, <1>2, <1>9, <2>1, <2>2 DEF ConfirmedHolds
  <2>5. EdgeForces'
    BY <1>1, <1>2, <1>9, <2>2 DEF EdgeForces
  <2>6. Settling'
    BY <1>1, <1>2, <1>5, <1>9, <2>1 DEF Settling
  <2> QED
    BY <1>4, <2>3, <2>4, <2>5, <2>6 DEF IInv
<1>10. CASE Errored /\ loop' = loop /\ hist' = [hist EXCEPT !.modeFailed = TRUE]
  <2>1. /\ path' = path /\ ~calm
        /\ EventualMode' = EventualMode /\ EventualLimit' = EventualLimit
    BY <1>1, <1>2, <1>10, SameAhead DEF Errored, Fault, Peaceful
  <2>2. /\ hist' \in Hists /\ hist'.limitDoubt = hist.limitDoubt
        /\ hist'.modeDoubt = hist.modeDoubt
        /\ hist'.edge = hist.edge /\ hist'.modeFailed
    BY <1>3, <1>10 DEF Hists
  <2>3. TypeOK'
    BY <1>1, <1>2, <1>10, <2>1, <2>2, Parts, Types
  <2>4. ConfirmedHolds'
    BY <1>1, <1>2, <1>10, <2>1, <2>2 DEF ConfirmedHolds
  <2>5. EdgeForces'
    BY <1>1, <1>2, <1>10, <2>2 DEF EdgeForces
  <2>6. Settling'
    BY <1>1, <2>1 DEF Settling
  <2> QED
    BY <1>4, <2>3, <2>4, <2>5, <2>6 DEF IInv
<1> QED
  BY <1>7, <1>8, <1>9, <1>10 DEF PublishMode

LEMMA PublishLimitStep == IInv /\ PublishLimit => IInv'
<1> SUFFICES ASSUME IInv, PublishLimit PROVE IInv'
  OBVIOUS
<1>1. /\ phase = "limit" /\ phase' = "idle"
      /\ quiet' = IF calm /\ quiet =< Republish THEN quiet + 1 ELSE quiet
      /\ UNCHANGED <<connected, online, evcc, want, snap, force, calm>>
  BY DEF PublishLimit
<1>2. TypeOK /\ ConfirmedHolds /\ EdgeForces /\ Peaceful /\ Settling
  BY DEF IInv
<1>3. loop \in Loops /\ hist \in Hists /\ evcc \in Evccs /\ want \in Wanted
      /\ quiet \in 0..(Republish + 1) /\ Republish \in Nat /\ Republish > 0
      /\ loop.modeAge \in 0..Republish /\ loop.limitAge \in 0..Republish
  BY <1>2, Parts, ConstantTypes DEF Loops
<1>4. quiet' \in 0..(Republish + 1)
  BY <1>1, <1>3
<1>5. Peaceful'
  BY <1>1, <1>2 DEF Peaceful
<1>6. /\ Begun = quiet + 1 /\ Begun' = quiet' /\ Begun' =< Begun
      /\ \A a \in 0..Republish : calm /\ Begun =< a => Begun' = Begun
  BY <1>1, <1>3 DEF Begun
<1>7. ASSUME calm
      PROVE  \/ EventualMode = want.mode
             \/ Begun' =< loop.modeAge /\ Begun' < Republish
  BY <1>1, <1>2, <1>3, <1>6, <1>7 DEF Settling
<1> PICK msg : msg = LimitMsg(want.limit)
  OBVIOUS
<1>8. msg \in Messages /\ msg.topic = "limitSoc" /\ msg.value = want.limit
  BY <1>3, ConstantTypes DEF LimitMsg, Messages
<1>9. CASE SkipLimit /\ UNCHANGED <<path, loop, hist>>
  <2>1. EventualMode' = EventualMode /\ EventualLimit' = EventualLimit
    BY <1>1, <1>9, SameAhead
  <2>2. TypeOK'
    BY <1>1, <1>2, <1>4, <1>9, Parts, Types
  <2>3. ConfirmedHolds'
    BY <1>1, <1>2, <1>9, <2>1 DEF ConfirmedHolds
  <2>4. EdgeForces'
    BY <1>1, <1>2, <1>9 DEF EdgeForces, SkipLimit
  <2>5. Settling'
    <3>1. ASSUME calm
          PROVE  \/ EventualLimit = want.limit
                 \/ Begun' =< loop.limitAge /\ Begun' < Republish
      <4>1. snap
        BY <1>1, <1>2, <3>1 DEF Peaceful
      <4>2. loop.limitAge < Republish
        BY <1>9, <4>1 DEF SkipLimit
      <4> QED
        BY <1>2, <1>3, <1>6, <3>1, <4>2 DEF Settling
    <3> QED
      BY <1>1, <1>7, <1>9, <2>1, <3>1 DEF Settling
  <2> QED
    BY <1>5, <2>2, <2>3, <2>4, <2>5 DEF IInv
<1>10. CASE /\ Acked(msg)
            /\ loop' = [loop EXCEPT !.limitSet = TRUE, !.lastLimit = want.limit,
                                    !.limitAge = 0]
            /\ hist' = [hist EXCEPT !.limitDoubt = ~evcc.up]
  <2>1. /\ path' \in Seq(Messages) /\ Len(path') =< MaxPath
        /\ EventualMode' = EventualMode /\ EventualLimit' = want.limit
    BY <1>1, <1>2, <1>8, <1>10, Sent DEF Acked
  <2>2. /\ loop' \in Loops /\ loop'.lastMode = loop.lastMode
        /\ loop'.modeAge = loop.modeAge
        /\ loop'.limitSet /\ loop'.lastLimit = want.limit /\ loop'.limitAge = 0
    BY <1>3, <1>10, ConstantTypes DEF Loops
  <2>3. /\ hist' \in Hists /\ hist'.modeDoubt = hist.modeDoubt
        /\ hist'.edge = hist.edge /\ hist'.modeFailed = hist.modeFailed
    BY <1>3, <1>10 DEF Hists
  <2>4. TypeOK'
    BY <1>1, <1>2, <1>4, <2>1, <2>2, <2>3, Parts, Types
  <2>5. ConfirmedHolds'
    BY <1>1, <1>2, <2>1, <2>2, <2>3 DEF ConfirmedHolds
  <2>6. EdgeForces'
    BY <1>1, <1>2, <2>2, <2>3 DEF EdgeForces
  <2>7. Settling'
    BY <1>1, <1>7, <2>1, <2>2 DEF Settling
  <2> QED
    BY <1>5, <2>4, <2>5, <2>6, <2>7 DEF IInv
<1>11. CASE /\ TimedOut(msg) /\ loop' = loop
            /\ hist' = [hist EXCEPT !.limitFailed = TRUE, !.limitDoubt = TRUE]
  <2>1. /\ path' \in Seq(Messages) /\ Len(path') =< MaxPath
        /\ EventualMode' = EventualMode /\ EventualLimit' = want.limit
    BY <1>1, <1>2, <1>8, <1>11, Sent DEF TimedOut
  <2>2. /\ hist' \in Hists /\ hist'.modeDoubt = hist.modeDoubt
        /\ hist'.edge = hist.edge /\ hist'.modeFailed = hist.modeFailed
        /\ hist'.limitFailed /\ hist'.limitDoubt
    BY <1>3, <1>11 DEF Hists
  <2>3. TypeOK'
    BY <1>1, <1>2, <1>4, <1>11, <2>1, <2>2, Parts, Types
  <2>4. ConfirmedHolds'
    BY <1>1, <1>2, <1>11, <2>1, <2>2 DEF ConfirmedHolds
  <2>5. EdgeForces'
    BY <1>1, <1>2, <1>11, <2>2 DEF EdgeForces
  <2>6. Settling'
    BY <1>1, <1>7, <1>11, <2>1 DEF Settling
  <2> QED
    BY <1>5, <2>3, <2>4, <2>5, <2>6 DEF IInv
<1>12. CASE Errored /\ loop' = loop /\ hist' = [hist EXCEPT !.limitFailed = TRUE]
  <2>1. /\ path' = path /\ ~calm
        /\ EventualMode' = EventualMode /\ EventualLimit' = EventualLimit
    BY <1>1, <1>2, <1>12, SameAhead DEF Errored, Fault, Peaceful
  <2>2. /\ hist' \in Hists /\ hist'.limitDoubt = hist.limitDoubt
        /\ hist'.modeDoubt = hist.modeDoubt /\ hist'.modeFailed = hist.modeFailed
        /\ hist'.edge = hist.edge /\ hist'.limitFailed
    BY <1>3, <1>12 DEF Hists
  <2>3. TypeOK'
    BY <1>1, <1>2, <1>4, <1>12, <2>1, <2>2, Parts, Types
  <2>4. ConfirmedHolds'
    BY <1>1, <1>2, <1>12, <2>1, <2>2 DEF ConfirmedHolds
  <2>5. EdgeForces'
    BY <1>1, <1>2, <1>12, <2>2 DEF EdgeForces
  <2>6. Settling'
    BY <1>1, <2>1 DEF Settling
  <2> QED
    BY <1>5, <2>3, <2>4, <2>5, <2>6 DEF IInv
<1> QED
  BY <1>9, <1>10, <1>11, <1>12 DEF PublishLimit

LEMMA CrashStep == IInv /\ Crash => IInv'
<1> SUFFICES ASSUME IInv, Crash PROVE IInv'
  OBVIOUS
<1>1. /\ ~calm /\ connected' = FALSE /\ online' = "unseen" /\ path' \in {path, <<>>}
      /\ phase' = "idle" /\ snap' = FALSE /\ force' = FALSE
      /\ loop' = NewLoop /\ hist' = NoHistory
      /\ UNCHANGED <<evcc, want, calm, quiet>>
  BY DEF Crash, Fault
<1>2. TypeOK /\ Peaceful
  BY DEF IInv
<1>3. path' \in Seq(Messages) /\ Len(path') =< MaxPath
  <2>1. CASE path' = path
    BY <1>2, <2>1, Parts
  <2>2. CASE path' = <<>>
    BY <2>2, ConstantTypes
  <2> QED
    BY <1>1, <2>1, <2>2
<1>4. TypeOK'
  BY <1>1, <1>2, <1>3, FreshLoop, Parts, Types
<1>5. hist'.modeDoubt /\ hist'.limitDoubt /\ ~hist'.edge
  BY <1>1 DEF NoHistory
<1>6. ConfirmedHolds' /\ EdgeForces'
  BY <1>5 DEF ConfirmedHolds, EdgeForces
<1>7. Peaceful' /\ Settling'
  BY <1>1, <1>2 DEF Peaceful, Settling
<1> QED
  BY <1>4, <1>6, <1>7 DEF IInv

-----------------------------------------------------------------------------
(* The steps of the connection, the broker and evcc.                       *)

(* Connection and status: nothing is sent or delivered.                    *)
LEMMA LinkStep == IInv /\ (Connect \/ ConnectionLost \/ SeeStatus) => IInv'
<1> SUFFICES ASSUME IInv, Connect \/ ConnectionLost \/ SeeStatus PROVE IInv'
  OBVIOUS
<1>1. TypeOK /\ ConfirmedHolds /\ EdgeForces /\ Peaceful /\ Settling
  BY DEF IInv
<1>2. /\ UNCHANGED <<path, evcc, phase, want, snap, force, loop, hist, calm, quiet>>
      /\ connected' \in BOOLEAN /\ online' \in {"unseen", "up", "down"}
      /\ calm => connected' = connected /\ online' = online
  BY <1>1, Parts DEF Connect, ConnectionLost, SeeStatus, Fault, Peaceful
<1>3. EventualMode' = EventualMode /\ EventualLimit' = EventualLimit
  BY <1>2, SameAhead
<1>4. TypeOK'
  BY <1>1, <1>2, Parts, Types
<1>5. ConfirmedHolds' /\ EdgeForces'
  BY <1>1, <1>2, <1>3 DEF ConfirmedHolds, EdgeForces
<1>6. Peaceful'
  BY <1>1, <1>2 DEF Peaceful
<1>7. Settling'
  BY <1>1, <1>2, <1>3 DEF Settling, Begun
<1> QED
  BY <1>4, <1>5, <1>6, <1>7 DEF IInv

LEMMA DeliverStep == IInv /\ Deliver => IInv'
<1> SUFFICES ASSUME IInv, Deliver PROVE IInv'
  OBVIOUS
<1>1. /\ path # <<>> /\ path' = Tail(path)
      /\ evcc' = IF evcc.up THEN Applied(evcc, Head(path)) ELSE evcc
      /\ hist' = IF evcc.up THEN hist
                 ELSE [hist EXCEPT !.modeDoubt = TRUE, !.limitDoubt = TRUE]
      /\ UNCHANGED <<connected, online, phase, want, snap, force, loop, calm, quiet>>
  BY DEF Deliver
<1>2. TypeOK /\ ConfirmedHolds /\ EdgeForces /\ Peaceful /\ Settling
  BY DEF IInv
<1>3. path \in Seq(Messages) /\ Len(path) =< MaxPath /\ evcc \in Evccs /\ hist \in Hists
  BY <1>2, Parts
<1> PICK msg : msg = Head(path)
  OBVIOUS
<1>4. /\ path' \in Seq(Messages) /\ Len(path') =< MaxPath /\ msg \in Messages
  <2>1. Head(path) \in Messages /\ Tail(path) \in Seq(Messages)
        /\ Len(Tail(path)) = Len(path) - 1 /\ Len(path) \in Nat
    BY <1>1, <1>3, HeadTailProperties
  <2> QED
    BY <1>1, <1>3, <2>1, ConstantTypes
<1>5. Peaceful'
  <2>1. evcc'.up = evcc.up
    BY <1>1, <1>3 DEF Applied, Evccs
  <2> QED
    BY <1>1, <1>2, <2>1 DEF Peaceful
<1>6. CASE evcc.up
  <2>1. /\ evcc' \in Evccs
        /\ evcc'.mode = IF msg.topic = "mode" THEN msg.value ELSE evcc.mode
        /\ evcc'.limit = IF msg.topic = "limitSoc" THEN msg.value ELSE evcc.limit
    <3>1. CASE msg \in [topic : {"mode"}, value : Modes]
      BY <1>1, <1>3, <1>6, <3>1 DEF Applied, Evccs
    <3>2. CASE msg \in [topic : {"limitSoc"}, value : Limits]
      BY <1>1, <1>3, <1>6, <3>2 DEF Applied, Evccs
    <3> QED
      BY <1>4, <3>1, <3>2 DEF Messages
  <2>2. EventualMode' = EventualMode /\ EventualLimit' = EventualLimit
    BY <1>1, <1>3, <2>1, DeliveredIsPassed DEF EventualMode, EventualLimit
  <2>3. TypeOK'
    BY <1>1, <1>2, <1>4, <1>6, <2>1, Parts, Types
  <2>4. ConfirmedHolds' /\ EdgeForces'
    BY <1>1, <1>2, <1>6, <2>2 DEF ConfirmedHolds, EdgeForces
  <2>5. Settling'
    BY <1>1, <1>2, <2>2 DEF Settling, Begun
  <2> QED
    BY <1>5, <2>3, <2>4, <2>5 DEF IInv
<1>7. CASE ~evcc.up
  <2>1. /\ hist' \in Hists /\ hist'.edge = hist.edge
        /\ hist'.modeFailed = hist.modeFailed /\ hist'.limitFailed = hist.limitFailed
    BY <1>1, <1>3, <1>7 DEF Hists
  <2>2. TypeOK'
    BY <1>1, <1>2, <1>4, <1>7, <2>1, Parts, Types
  <2>3. ConfirmedHolds' /\ EdgeForces'
    BY <1>1, <1>2, <1>7, <2>1 DEF ConfirmedHolds, EdgeForces
  <2>4. Settling'
    BY <1>1, <1>2, <1>7 DEF Settling, Peaceful
  <2> QED
    BY <1>5, <2>2, <2>3, <2>4 DEF IInv
<1> QED
  BY <1>6, <1>7

LEMMA EvccStep == IInv /\ (EvccDown \/ EvccUp) => IInv'
<1> SUFFICES ASSUME IInv, EvccDown \/ EvccUp PROVE IInv'
  OBVIOUS
<1>1. TypeOK /\ EdgeForces /\ Peaceful
  BY DEF IInv
<1>2. hist \in Hists /\ evcc \in Evccs
  BY <1>1, Parts
<1>3. /\ UNCHANGED <<connected, online, path, phase, want, snap, force, loop, calm, quiet>>
      /\ ~calm
  BY <1>1 DEF EvccDown, EvccUp, Fault, Peaceful
<1>4. evcc' \in Evccs /\ hist' \in Hists /\ hist'.edge = hist.edge
      /\ hist'.modeFailed = hist.modeFailed /\ hist'.limitFailed = hist.limitFailed
      /\ (~evcc'.up \/ (hist'.modeDoubt /\ hist'.limitDoubt))
  <2>1. CASE EvccDown
    BY <1>2, <2>1 DEF EvccDown, Evccs
  <2>2. CASE EvccUp
    BY <1>2, <2>2 DEF EvccUp, Evccs, Hists
  <2> QED
    BY <2>1, <2>2
<1>5. TypeOK'
  BY <1>1, <1>3, <1>4, Parts, Types
<1>6. ConfirmedHolds' /\ EdgeForces'
  BY <1>1, <1>3, <1>4 DEF ConfirmedHolds, EdgeForces
<1>7. Peaceful' /\ Settling'
  BY <1>1, <1>3 DEF Peaceful, Settling
<1> QED
  BY <1>5, <1>6, <1>7 DEF IInv

LEMMA CalmStep == IInv /\ Calm => IInv'
<1> SUFFICES ASSUME IInv, Calm PROVE IInv'
  OBVIOUS
<1>1. /\ ~calm /\ phase = "idle" /\ connected /\ evcc.up /\ online = "up" /\ calm' = TRUE
      /\ UNCHANGED <<connected, online, path, evcc, phase, want, snap, force, loop,
                     hist, quiet>>
  BY DEF Calm, Idle
<1>2. TypeOK /\ ConfirmedHolds /\ EdgeForces /\ Peaceful
  BY DEF IInv
<1>3. TypeOK'
  BY <1>1, <1>2, Parts, Types
<1>4. ConfirmedHolds'
  BY <1>1, <1>2, SameAhead DEF ConfirmedHolds
<1>5. EdgeForces' /\ Peaceful'
  BY <1>1, <1>2 DEF EdgeForces, Peaceful
<1>6. Settling'
  <2>1. Begun' = 0
    BY <1>1, <1>2 DEF Begun, Peaceful
  <2>2. loop'.modeAge \in 0..Republish /\ loop'.limitAge \in 0..Republish
    BY <1>1, <1>2, Parts DEF Loops
  <2>3. 0 =< loop'.modeAge /\ 0 =< loop'.limitAge /\ 0 < Republish
    BY <2>2, ConstantTypes
  <2> QED
    BY <2>1, <2>3 DEF Settling
<1> QED
  BY <1>3, <1>4, <1>5, <1>6 DEF IInv

LEMMA Step == IInv /\ [Next]_vars => IInv'
<1> SUFFICES ASSUME IInv, [Next]_vars PROVE IInv'
  OBVIOUS
<1>1. CASE Next
  BY <1>1, TickStep, PublishModeStep, PublishLimitStep, CrashStep, LinkStep,
     DeliverStep, EvccStep, CalmStep DEF Next
<1>2. CASE UNCHANGED vars
  <2>1. EventualMode' = EventualMode /\ EventualLimit' = EventualLimit
    BY <1>2, SameAhead DEF vars
  <2>2. TypeOK'
    BY <1>2, Parts, Types DEF vars, IInv
  <2>3. ConfirmedHolds' /\ EdgeForces'
    BY <1>2, <2>1 DEF vars, IInv, ConfirmedHolds, EdgeForces
  <2>4. Peaceful' /\ Settling'
    BY <1>2, <2>1 DEF vars, IInv, Peaceful, Settling, Begun
  <2> QED
    BY <2>2, <2>3, <2>4 DEF IInv
<1> QED
  BY <1>1, <1>2

-----------------------------------------------------------------------------
(* The inductive invariant holds in every state.                           *)
THEOREM ActuationInvariant == Spec => []IInv
<1>1. Init => IInv
  BY Start
<1>2. IInv /\ [Next]_vars => IInv'
  BY Step
<1> QED
  BY <1>1, <1>2, PTL DEF Spec

(* What the loop believes it published is what evcc has or will have, as   *)
(* long as no publish since the acknowledged one timed out and evcc stayed *)
(* up: publishMode and publishLimitSoC record a publish only when it was   *)
(* acknowledged.                                                           *)
THEOREM PublishedHolds == Spec => []PublishedInv
<1>1. IInv => PublishedInv
  BY DEF IInv, PublishedInv
<1> QED
  BY <1>1, ActuationInvariant, PTL

(* A tick that saw a reconnect or an online edge published both the mode   *)
(* and the backstop again, or failed to.                                   *)
THEOREM EdgeReasserts == Spec => []SeenEdgeReasserts
<1>1. IInv => SeenEdgeReasserts
  BY DEF IInv, EdgeForces, SeenEdgeReasserts, Idle
<1> QED
  BY <1>1, ActuationInvariant, PTL

(* One republish interval after the last fault, whatever it was, evcc does *)
(* as decided.                                                             *)
THEOREM RepublishHeals == Spec => []HealsWithinRepublish
<1>1. IInv => HealsWithinRepublish
  <2> SUFFICES ASSUME IInv, quiet > Republish, phase = "idle", path = <<>>
               PROVE  Agreed
    BY DEF HealsWithinRepublish, Idle
  <2>1. quiet \in Nat /\ Republish \in Nat /\ Republish > 0
    BY Parts, ConstantTypes DEF IInv
  <2>2. calm
    BY <2>1 DEF IInv, Peaceful
  <2>3. ~(Begun < Republish)
    BY <2>1 DEF Begun
  <2>4. EventualMode = want.mode /\ EventualLimit = want.limit
    BY <2>2, <2>3 DEF IInv, Settling
  <2>5. path \in Seq(Messages) /\ Len(path) = 0
    BY Parts DEF IInv
  <2>6. None(path, "mode") /\ None(path, "limitSoc")
    BY <2>5 DEF None
  <2>7. EventualMode = evcc.mode /\ EventualLimit = evcc.limit
    BY <2>5, <2>6, NoneIs DEF EventualMode, EventualLimit
  <2> QED
    BY <2>4, <2>7 DEF Agreed
<1> QED
  BY <1>1, ActuationInvariant, PTL

=============================================================================
