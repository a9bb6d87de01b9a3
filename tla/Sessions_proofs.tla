--------------------------- MODULE Sessions_proofs ---------------------------
(***************************************************************************)
(* Theorems about charge sessions, for any set of store calls that may     *)
(* fail, and any bounds: the row a session writes is its own, there is one *)
(* open row unless closing or looking for one failed, and the table is the *)
(* session log it promises to be.                                          *)
(*                                                                         *)
(* The invariant relates what the loop remembers (the id, and whether it   *)
(* was charging) to what the table holds.  The loop forgets the id on the  *)
(* falling edge and starts a session on the rising one, so that at a start *)
(* it holds none (IdMeansCharging); with that, and no failure to close, a  *)
(* running loop never has an open row but its own (OnlyOwnOpen), which is  *)
(* what makes a new row the only open one.                                 *)
(***************************************************************************)
EXTENDS Sessions, FiniteSetTheorems, SequenceTheorems, WellFoundedInduction,
        TLAPS

-----------------------------------------------------------------------------
(* The inductive invariant.                                                *)

(* Between two ticks, and in the middle of one, a session is held only     *)
(* while the car charges.                                                  *)
IdMeansCharging ==
    /\ step = "idle" /\ sessionID # 0 => prevCharging
    /\ step = "totals" /\ sessionID # 0 => seen.charging

(* Neither closing a row nor looking for an open one has failed.           *)
Closing == failed \cap {"end", "open"} = {}

OnlyOwnOpen ==
    Closing => /\ \A i, j \in Open : i = j
               /\ step # "down" => Open \subseteq {sessionID}

(* The totals in memory are never behind those in the row, nor ahead of    *)
(* what was observed.                                                      *)
TotalsOrdered ==
    /\ energy =< accrued
    /\ sessionID # 0 => rows[sessionID].energy =< energy

IInv == /\ TypeOK /\ OwnsNewestRow /\ IdMeansCharging /\ OnlyOwnOpen
        /\ TotalsOrdered

-----------------------------------------------------------------------------
(* What the writes to the table do.                                        *)

(* A typed row changed in place leaves the table typed, and the others as  *)
(* they were.                                                              *)
LEMMA RowReplaced ==
    ASSUME rows \in Seq(Log!Row), NEW i \in 1..Len(rows), NEW r \in Log!Row,
           rows' = [rows EXCEPT ![i] = r]
    PROVE  /\ rows' \in Seq(Log!Row) /\ Len(rows') = Len(rows)
           /\ rows'[i] = r
           /\ \A j \in 1..Len(rows) : j # i => rows'[j] = rows[j]
<1> DEFINE changed == [rows EXCEPT ![i] = r]
<1>1. /\ changed \in Seq(Log!Row) /\ Len(changed) = Len(rows)
      /\ \A j \in 1..Len(rows) : changed[j] = IF j = i THEN r ELSE rows[j]
  BY ExceptSeq
<1> QED
  BY <1>1

(* A row that is closed is no longer open; no other row is affected.       *)
LEMMA RowClosed ==
    ASSUME rows \in Seq(Log!Row), NEW i \in 1..Len(rows),
           NEW e \in 0..MaxEnergy, rows' = Ended(i, e)
    PROVE  /\ rows' \in Seq(Log!Row) /\ Len(rows') = Len(rows)
           /\ rows'[i] = [ended |-> TRUE, energy |-> e]
           /\ \A j \in 1..Len(rows) : j # i => rows'[j] = rows[j]
           /\ Open' = Open \ {i}
<1> DEFINE r == [ended |-> TRUE, energy |-> e]
<1>1. r \in Log!Row /\ rows' = [rows EXCEPT ![i] = r]
  BY DEF Ended, Log!Row
<1>2. /\ rows' \in Seq(Log!Row) /\ Len(rows') = Len(rows)
      /\ rows'[i] = r
      /\ \A j \in 1..Len(rows) : j # i => rows'[j] = rows[j]
  BY <1>1, RowReplaced
<1>3. Open' = Open \ {i}
  BY <1>2 DEF Open
<1> QED
  BY <1>2, <1>3

(* The row a start appends is open, and follows all others.                *)
LEMMA RowAppended ==
    ASSUME rows \in Seq(Log!Row), MaxEnergy \in Nat, Inserted
    PROVE  /\ rows' \in Seq(Log!Row) /\ Len(rows') = Len(rows) + 1
           /\ rows'[Len(rows')] = [ended |-> FALSE, energy |-> 0]
           /\ Open' = Open \cup {Len(rows) + 1}
<1> DEFINE r == [ended |-> FALSE, energy |-> 0]
<1>1. r \in Log!Row /\ rows' = Append(rows, r)
  BY DEF Inserted, Log!Row
<1>2. /\ rows' \in Seq(Log!Row) /\ Len(rows') = Len(rows) + 1
      /\ \A i \in 1..Len(rows) : rows'[i] = rows[i]
      /\ rows'[Len(rows) + 1] = r
  BY <1>1, AppendProperties
<1>3. Len(rows) \in Nat
  BY LenProperties
<1>4. Open' = Open \cup {Len(rows) + 1}
  BY <1>2, <1>3 DEF Open
<1> QED
  BY <1>2, <1>4

(* A set of naturals has a least element, since < is well-founded.         *)
LEMMA LeastElement ==
    ASSUME NEW T, T \subseteq Nat, T # {}
    PROVE  \E x \in T : \A y \in T : x =< y
<1> DEFINE R == {ss \in Nat \X Nat : ss[1] < ss[2]}
<1>1. \E x \in T : \A y \in T : ~(<<y, x>> \in R)
  <2>1. IsWellFoundedOn(R, Nat)
    BY NatLessThanWellFounded DEF OpToRel
  <2> HIDE DEF R
  <2> QED
    BY <2>1, WFMin
<1>2. PICK x \in T : \A y \in T : ~(<<y, x>> \in R)
  BY <1>1
<1>3. ASSUME NEW y \in T PROVE x =< y
  <2>1. x \in Nat /\ y \in Nat /\ ~(<<y, x>> \in R)
    BY <1>2
  <2> QED
    BY <2>1
<1> QED
  BY <1>3

(* So has a set of numbers below n a greatest.                             *)
LEMMA GreatestElement ==
    ASSUME NEW n \in Nat, NEW T, T \subseteq 1..n, T # {}
    PROVE  \E x \in T : \A y \in T : y =< x
<1> DEFINE back == {n - i : i \in T}
<1>1. back \subseteq Nat /\ back # {}
  <2>1. \A i \in T : i \in 1..n /\ n - i \in Nat
    OBVIOUS
  <2>2. PICK i \in T : TRUE
    OBVIOUS
  <2> QED
    BY <2>1, <2>2
<1>2. PICK b \in back : \A c \in back : b =< c
  BY <1>1, LeastElement
<1>3. PICK i \in T : b = n - i
  OBVIOUS
<1>4. ASSUME NEW j \in T PROVE j =< i
  <2>1. n - j \in back /\ i \in Int /\ j \in Int
    OBVIOUS
  <2> QED
    BY <1>2, <1>3, <2>1
<1> QED
  BY <1>4

(* Recovery does find a newest row when there is an open one.              *)
LEMMA NewestIsOpen ==
    ASSUME rows \in Seq(Log!Row), Open # {}
    PROVE  Newest(Open) \in Open
<1>1. Len(rows) \in Nat /\ Open \subseteq 1..Len(rows)
  BY LenProperties DEF Open
<1>2. \E i \in Open : \A j \in Open : j =< i
  BY <1>1, GreatestElement
<1> QED
  BY <1>2 DEF Newest

-----------------------------------------------------------------------------
(* The invariant is inductive: one step per action.                        *)

LEMMA IInvInit == Init => IInv
<1> SUFFICES ASSUME Init PROVE IInv
  OBVIOUS
<1>1. rows \in Seq(Log!Row) /\ Len(rows) = 0 /\ Open = {}
  BY EmptySeq DEF Init, Open
<1>2. TypeOK
  <2>1. Quiet \in Observations
    BY DEF Quiet, Observations
  <2>2. sessionID \in 0..Len(rows) /\ energy \in 0..MaxEnergy /\ accrued \in 0..MaxEnergy
    BY <1>1, SessionsConstants DEF Init
  <2>3. crashes \in 0..MaxCrashes
    BY SessionsConstants DEF Init
  <2> QED
    BY <1>1, <2>1, <2>2, <2>3 DEF Init, TypeOK
<1>3. OnlyOwnOpen
  BY <1>1 DEF OnlyOwnOpen
<1> QED
  BY <1>2, <1>3 DEF Init, IInv, OwnsNewestRow, IdMeansCharging, TotalsOrdered

(* What recovery leaves: the rows it does not touch, and of a single open  *)
(* row nothing.                                                            *)
LEMMA RecoverStep ==
    ASSUME IInv, Recover
    PROVE  IInv' /\ [Log!Next]_rows
<1> USE SessionsConstants
<1>1. /\ rows \in Seq(Log!Row) /\ sessionID = 0 /\ Len(rows) \in Nat
      /\ energy \in 0..MaxEnergy
  BY LenProperties DEF IInv, TypeOK, Recover
<1>2. CASE rows' = rows /\ (Fails("open") \/ Fails("end") \/ (Open = {} /\ Succeeds))
  <2>1. Open' = Open /\ failed' \subseteq Faults
    BY <1>2 DEF Open, Fails, Succeeds, IInv, TypeOK
  <2>2. OnlyOwnOpen'
    BY <1>2, <2>1 DEF IInv, OnlyOwnOpen, Closing, Fails, Succeeds
  <2> QED
    BY <1>1, <1>2, <2>1, <2>2
       DEF Recover, IInv, TypeOK, OwnsNewestRow, IdMeansCharging, TotalsOrdered
<1>3. CASE /\ Open # {} /\ Succeeds
           /\ rows' = Ended(Newest(Open), rows[Newest(Open)].energy)
  <2> DEFINE i == Newest(Open)
             e == rows[i].energy
  <2>1. i \in Open /\ i \in 1..Len(rows) /\ ~rows[i].ended
    BY <1>1, <1>3, NewestIsOpen DEF Open
  <2>2. rows[i] \in Log!Row
    BY <1>1, <2>1, ElementOfSeq
  <2>3. e \in 0..MaxEnergy
    BY <2>2 DEF Log!Row
  <2> HIDE DEF i
  <2>4. /\ rows' \in Seq(Log!Row) /\ Len(rows') = Len(rows)
        /\ Open' = Open \ {i}
    BY <1>1, <1>3, <2>1, <2>3, RowClosed DEF i
  <2>5. OnlyOwnOpen'
    BY <1>3, <2>1, <2>4 DEF IInv, OnlyOwnOpen, Closing, Succeeds
  <2>6. IInv'
    BY <1>1, <1>3, <2>4, <2>5
       DEF Recover, IInv, TypeOK, OwnsNewestRow, IdMeansCharging, TotalsOrdered,
           Succeeds
  <2>7. Log!Close
    <3>1. rows' = [rows EXCEPT ![i].ended = TRUE]
      BY <1>1, <1>3, <2>1, <2>2 DEF Ended, Log!Row, i
    <3> QED
      BY <2>1, <3>1 DEF Log!Close
  <2> QED
    BY <2>6, <2>7 DEF Log!Next
<1>4. \/ rows' = rows /\ (Fails("open") \/ Fails("end") \/ (Open = {} /\ Succeeds))
      \/ /\ Open # {} /\ Succeeds
         /\ rows' = Ended(Newest(Open), rows[Newest(Open)].energy)
  BY DEF Recover
<1> QED
  BY <1>2, <1>3, <1>4

(* A start finds no session under way, so that the row it appends is the   *)
(* only open one.                                                          *)
LEMMA StartStep ==
    ASSUME IInv, TrackEdge, seen'.charging, ~prevCharging,
           NEW gain \in {0, 1}, StartSession(gain), accrued' = accrued + gain,
           accrued' =< MaxEnergy
    PROVE  IInv' /\ [Log!Next]_rows
<1> USE SessionsConstants
<1>1. /\ rows \in Seq(Log!Row) /\ sessionID = 0 /\ Len(rows) \in Nat
      /\ accrued \in Nat /\ step = "idle" /\ step' = "totals"
      /\ seen' \in Observations /\ prevCharging' \in BOOLEAN
      /\ crashes' \in 0..MaxCrashes
  BY LenProperties DEF IInv, TypeOK, TrackEdge, IdMeansCharging, Observations
<1>2. energy' \in 0..MaxEnergy /\ accrued' \in 0..MaxEnergy /\ energy' =< accrued'
  BY <1>1 DEF StartSession
<1>3. CASE Inserted /\ Succeeds /\ sessionID' = Len(rows) + 1
  <2>1. /\ rows' \in Seq(Log!Row) /\ Len(rows') = Len(rows) + 1
        /\ rows'[sessionID'] = [ended |-> FALSE, energy |-> 0]
        /\ Open' = Open \cup {sessionID'}
    BY <1>1, <1>3, RowAppended
  <2>2. OnlyOwnOpen'
    <3>1. Closing => Open = {}
      BY <1>1 DEF IInv, OnlyOwnOpen, Open
    <3> QED
      BY <1>1, <1>3, <2>1, <3>1 DEF OnlyOwnOpen, Closing, Succeeds
  <2>3. TypeOK'
    BY <1>1, <1>2, <1>3, <2>1 DEF IInv, TypeOK, Succeeds
  <2>4. OwnsNewestRow' /\ IdMeansCharging' /\ TotalsOrdered'
    BY <1>1, <1>2, <1>3, <2>1 DEF OwnsNewestRow, IdMeansCharging, TotalsOrdered
  <2>5. Log!Begin
    BY <1>3 DEF Log!Begin, Inserted
  <2> QED
    BY <2>2, <2>3, <2>4, <2>5 DEF IInv, Log!Next
<1>4. CASE Fails("start") /\ UNCHANGED <<rows, sessionID>>
  <2>1. Open' = Open /\ failed' \subseteq Faults
    BY <1>4 DEF Open, Fails, IInv, TypeOK
  <2>2. OnlyOwnOpen'
    BY <1>1, <1>4, <2>1 DEF IInv, OnlyOwnOpen, Closing, Fails
  <2> QED
    BY <1>1, <1>2, <1>4, <2>1, <2>2
       DEF IInv, TypeOK, OwnsNewestRow, IdMeansCharging, TotalsOrdered
<1> QED
  BY <1>3, <1>4 DEF StartSession

(* The end closes the row the loop holds, or leaves it open with a failure *)
(* to close recorded; either way the id is gone.                           *)
LEMMA CloseStep ==
    ASSUME IInv, TrackEdge, ~seen'.charging, CloseSession,
           accrued' \in accrued..MaxEnergy
    PROVE  IInv' /\ [Log!Next]_rows
<1> USE SessionsConstants
<1>1. /\ rows \in Seq(Log!Row) /\ Len(rows) \in Nat /\ sessionID \in 0..Len(rows)
      /\ accrued \in Nat /\ step = "idle" /\ step' = "totals" /\ sessionID' = 0
      /\ seen' \in Observations /\ prevCharging' \in BOOLEAN
      /\ crashes' \in 0..MaxCrashes /\ energy \in 0..MaxEnergy
      /\ energy =< accrued /\ energy' = energy
  BY LenProperties
     DEF IInv, TypeOK, TrackEdge, CloseSession, Observations, TotalsOrdered
<1>2. energy' \in 0..MaxEnergy /\ accrued' \in 0..MaxEnergy /\ energy' =< accrued'
  BY <1>1
<1>3. CASE /\ rows' = rows
           /\ (sessionID = 0 /\ Succeeds) \/ Fails("end")
  <2>1. Open' = Open /\ failed' \subseteq Faults
    BY <1>3 DEF Open, Fails, Succeeds, IInv, TypeOK
  <2>2. OnlyOwnOpen'
    BY <1>1, <1>3, <2>1 DEF IInv, OnlyOwnOpen, Closing, Fails, Succeeds
  <2> QED
    BY <1>1, <1>2, <1>3, <2>1, <2>2
       DEF IInv, TypeOK, OwnsNewestRow, IdMeansCharging, TotalsOrdered
<1>4. CASE sessionID # 0 /\ Succeeds /\ rows' = Ended(sessionID, energy)
  <2>1. /\ sessionID = Len(rows) /\ ~rows[sessionID].ended
        /\ rows[sessionID].energy =< energy /\ sessionID \in 1..Len(rows)
    BY <1>1, <1>4 DEF IInv, OwnsNewestRow, TotalsOrdered
  <2>2. /\ rows' \in Seq(Log!Row) /\ Len(rows') = Len(rows)
        /\ Open' = Open \ {sessionID}
    BY <1>1, <1>4, <2>1, RowClosed
  <2>3. OnlyOwnOpen'
    BY <1>1, <1>4, <2>2 DEF IInv, OnlyOwnOpen, Closing, Succeeds
  <2>4. IInv'
    BY <1>1, <1>2, <1>4, <2>2, <2>3
       DEF IInv, TypeOK, OwnsNewestRow, IdMeansCharging, TotalsOrdered, Succeeds
  <2>5. Log!Write
    <3>1. rows[Len(rows)] \in Log!Row
      BY <1>1, <2>1, ElementOfSeq
    <3>2. energy \in rows[Len(rows)].energy..MaxEnergy
      BY <1>1, <2>1, <3>1 DEF Log!Row
    <3>3. rows # <<>>
      BY <1>1, <2>1, EmptySeq
    <3>4. rows' = [rows EXCEPT ![Len(rows)] = [ended |-> TRUE, energy |-> energy]]
      BY <1>4, <2>1 DEF Ended
    <3> QED
      BY <2>1, <3>2, <3>3, <3>4 DEF Log!Write
  <2> QED
    BY <2>4, <2>5 DEF Log!Next
<1> QED
  BY <1>3, <1>4 DEF CloseSession

(* A tick between the edges only counts.                                   *)
LEMMA CountStep ==
    ASSUME IInv, TrackEdge, seen'.charging = prevCharging, NEW gain \in {0, 1},
           energy' = energy + gain, accrued' = accrued + gain,
           accrued' =< MaxEnergy, UNCHANGED <<rows, sessionID, failed>>
    PROVE  IInv' /\ [Log!Next]_rows
<1> USE SessionsConstants
<1>1. /\ energy \in Nat /\ accrued \in Nat /\ energy =< accrued
      /\ step = "idle" /\ step' = "totals" /\ seen' \in Observations
      /\ prevCharging' \in BOOLEAN /\ crashes' \in 0..MaxCrashes
  BY DEF IInv, TypeOK, TrackEdge, Observations, TotalsOrdered
<1>2. energy' \in 0..MaxEnergy /\ accrued' \in 0..MaxEnergy /\ energy' =< accrued'
  BY <1>1
<1>3. TypeOK'
  BY <1>1, <1>2 DEF IInv, TypeOK
<1>4. OnlyOwnOpen'
  BY <1>1 DEF IInv, OnlyOwnOpen, Closing, Open
<1>5. TotalsOrdered'
  <2>1. ASSUME sessionID # 0 PROVE rows[sessionID].energy =< energy'
    <3>1. sessionID \in 1..Len(rows) /\ rows \in Seq(Log!Row) /\ Len(rows) \in Nat
      BY <2>1, LenProperties DEF IInv, TypeOK
    <3>2. rows[sessionID].energy \in Nat
      <4>1. rows[sessionID] \in Log!Row
        BY <3>1, ElementOfSeq
      <4> QED
        BY <4>1 DEF Log!Row
    <3>3. rows[sessionID].energy =< energy
      BY <2>1 DEF IInv, TotalsOrdered
    <3> QED
      BY <1>1, <3>2, <3>3
  <2> QED
    BY <1>2, <2>1 DEF TotalsOrdered
<1>6. OwnsNewestRow' /\ IdMeansCharging'
  BY <1>1 DEF IInv, OwnsNewestRow, IdMeansCharging
<1> QED
  BY <1>3, <1>4, <1>5, <1>6 DEF IInv

LEMMA TrackEdgeStep ==
    ASSUME IInv, TrackEdge
    PROVE  IInv' /\ [Log!Next]_rows
<1> USE SessionsConstants
<1>1. PICK o \in Observations :
         LET gain == IF Counts(o) THEN 1 ELSE 0
         IN  /\ seen' = o
             /\ accrued + gain =< MaxEnergy
             /\ accrued' = accrued + gain
             /\ \/ o.charging /\ ~prevCharging /\ StartSession(gain)
                \/ ~o.charging /\ prevCharging /\ CloseSession
                \/ /\ o.charging = prevCharging
                   /\ energy' = energy + gain
                   /\ UNCHANGED <<rows, sessionID, failed>>
  BY DEF TrackEdge
<1> DEFINE gain == IF Counts(o) THEN 1 ELSE 0
<1>2. gain \in {0, 1} /\ accrued' = accrued + gain /\ accrued' =< MaxEnergy
  BY <1>1
<1>3. accrued' \in accrued..MaxEnergy
  BY <1>2 DEF IInv, TypeOK
<1> HIDE DEF gain
<1>4. CASE o.charging /\ ~prevCharging /\ StartSession(gain)
  BY <1>1, <1>2, <1>4, StartStep
<1>5. CASE ~o.charging /\ prevCharging /\ CloseSession
  BY <1>1, <1>3, <1>5, CloseStep
<1>6. CASE /\ o.charging = prevCharging /\ energy' = energy + gain
           /\ UNCHANGED <<rows, sessionID, failed>>
  BY <1>1, <1>2, <1>6, CountStep
<1> QED
  BY <1>1, <1>4, <1>5, <1>6 DEF gain

(* The totals go to the row the loop owns, the newest one, which is open.  *)
LEMMA TrackTotalsStep ==
    ASSUME IInv, TrackTotals
    PROVE  IInv' /\ [Log!Next]_rows
<1> USE SessionsConstants
<1>1. /\ rows \in Seq(Log!Row) /\ Len(rows) \in Nat /\ sessionID \in 0..Len(rows)
      /\ step = "totals" /\ step' = "idle" /\ energy \in 0..MaxEnergy
      /\ prevCharging' = seen.charging /\ prevCharging' \in BOOLEAN
      /\ seen' \in Observations
      /\ UNCHANGED <<sessionID, energy, accrued, crashes>>
  BY LenProperties DEF IInv, TypeOK, TrackTotals, Observations, Quiet
<1>2. CASE rows' = rows /\ (Succeeds \/ Fails("update"))
  <2>1. Open' = Open /\ failed' \subseteq Faults
    BY <1>2 DEF Open, Fails, Succeeds, IInv, TypeOK
  <2>2. OnlyOwnOpen'
    BY <1>1, <1>2, <2>1 DEF IInv, OnlyOwnOpen, Closing, Fails, Succeeds
  <2> QED
    BY <1>1, <1>2, <2>1, <2>2
       DEF IInv, TypeOK, OwnsNewestRow, IdMeansCharging, TotalsOrdered
<1>3. CASE /\ Counts(seen) /\ sessionID \in Open /\ Succeeds
           /\ rows' = [rows EXCEPT ![sessionID].energy = energy]
  <2> DEFINE r == [ended |-> FALSE, energy |-> energy]
  <2>1. /\ sessionID \in 1..Len(rows) /\ sessionID # 0 /\ ~rows[sessionID].ended
        /\ sessionID = Len(rows) /\ rows[sessionID].energy =< energy
    BY <1>1, <1>3 DEF IInv, OwnsNewestRow, TotalsOrdered, Open
  <2>2. rows[sessionID] \in Log!Row
    BY <1>1, <2>1, ElementOfSeq
  <2>3. rows' = [rows EXCEPT ![sessionID] = r] /\ r \in Log!Row
    <3>1. [rows[sessionID] EXCEPT !.energy = energy] = r /\ r \in Log!Row
      <4>1. rows[sessionID].ended \in BOOLEAN
        BY <2>2 DEF Log!Row
      <4>2. rows[sessionID].ended = FALSE
        BY <2>1, <4>1
      <4>3. rows[sessionID] = [ended |-> rows[sessionID].ended,
                               energy |-> rows[sessionID].energy]
        BY <2>2 DEF Log!Row
      <4>4. r \in Log!Row
        BY <1>1 DEF Log!Row
      <4>5. ASSUME NEW x, NEW b, NEW n, x = [ended |-> b, energy |-> n]
            PROVE  [x EXCEPT !.energy = energy] = [ended |-> b, energy |-> energy]
        BY <4>5
      <4>6. [rows[sessionID] EXCEPT !.energy = energy]
               = [ended |-> rows[sessionID].ended, energy |-> energy]
        BY <4>3, <4>5
      <4> QED
        BY <4>2, <4>4, <4>6
    <3>2. rows' = [rows EXCEPT ![sessionID] =
                      [rows[sessionID] EXCEPT !.energy = energy]]
      BY <1>3
    <3> HIDE DEF r
    <3> QED
      BY <3>1, <3>2
  <2>4. /\ rows' \in Seq(Log!Row) /\ Len(rows') = Len(rows)
        /\ rows'[sessionID] = r
        /\ \A j \in 1..Len(rows) : j # sessionID => rows'[j] = rows[j]
    BY <1>1, <2>1, <2>3, RowReplaced
  <2>5. Open' = Open
    BY <2>1, <2>4 DEF Open
  <2>6. OnlyOwnOpen'
    BY <1>1, <1>3, <2>5 DEF IInv, OnlyOwnOpen, Closing, Succeeds
  <2>7. IInv'
    BY <1>1, <1>3, <2>1, <2>4, <2>6
       DEF IInv, TypeOK, OwnsNewestRow, IdMeansCharging, TotalsOrdered, Succeeds
  <2>8. Log!Write
    <3>1. energy \in rows[Len(rows)].energy..MaxEnergy
      BY <1>1, <2>1, <2>2 DEF Log!Row
    <3>2. rows # <<>>
      BY <1>1, <2>1, EmptySeq
    <3> QED
      BY <2>1, <2>3, <3>1, <3>2 DEF Log!Write
  <2> QED
    BY <2>7, <2>8 DEF Log!Next
<1> QED
  BY <1>2, <1>3 DEF TrackTotals

LEMMA CrashStep ==
    ASSUME IInv, Crash
    PROVE  IInv' /\ [Log!Next]_rows
<1>1. Open' = Open /\ Quiet \in Observations
  BY DEF Open, Crash, Quiet, Observations
<1>2. crashes' \in 0..MaxCrashes /\ accrued \in Nat
  BY SessionsConstants DEF IInv, TypeOK, Crash
<1>3. OnlyOwnOpen'
  BY <1>1 DEF IInv, OnlyOwnOpen, Closing, Crash
<1>4. TypeOK'
  <2>1. rows \in Seq(Log!Row) /\ Len(rows) \in Nat
    BY LenProperties DEF IInv, TypeOK
  <2>2. sessionID' \in 0..Len(rows') /\ energy' \in 0..MaxEnergy
    BY <2>1, SessionsConstants DEF Crash
  <2> QED
    BY <1>1, <1>2, <2>2 DEF IInv, TypeOK, Crash
<1> QED
  BY <1>2, <1>3, <1>4
     DEF IInv, Crash, OwnsNewestRow, IdMeansCharging, TotalsOrdered

LEMMA IInvNext == IInv /\ [Next]_vars => IInv' /\ [Log!Next]_rows
<1> SUFFICES ASSUME IInv, [Next]_vars PROVE IInv' /\ [Log!Next]_rows
  OBVIOUS
<1>1. CASE UNCHANGED vars
  BY <1>1 DEF vars, IInv, TypeOK, OwnsNewestRow, IdMeansCharging, OnlyOwnOpen,
     Closing, Open, TotalsOrdered
<1> QED
  BY <1>1, RecoverStep, TrackEdgeStep, TrackTotalsStep, CrashStep DEF Next

-----------------------------------------------------------------------------
(* Whatever store calls fail and whenever the process dies, the session    *)
(* tracked is the newest row, open, and holds what the loop counted.       *)
THEOREM SessionsInvariant == Spec => []IInv
<1>1. IInv /\ [Next]_vars => IInv'
  BY IInvNext
<1> QED
  BY IInvInit, <1>1, PTL DEF Spec

(* The properties of rows that sessions_faults checks: types, the session  *)
(* tracked is the newest row, and there is never a second open row unless  *)
(* closing or looking for one failed.                                      *)
THEOREM RowsAreOwned == Spec => []RowInv
<1>1. IInv => RowInv
  <2> SUFFICES ASSUME IInv PROVE OneOpenRow
    BY DEF IInv, RowInv
  <2>1. CASE Open = {}
    BY <2>1, FS_EmptySet DEF OneOpenRow
  <2>2. CASE Closing /\ Open # {}
    <3>1. PICK i \in Open : Open = {i}
      BY <2>2 DEF IInv, OnlyOwnOpen
    <3> QED
      BY <3>1, FS_Singleton DEF OneOpenRow
  <2> QED
    BY <2>1, <2>2 DEF OneOpenRow, Closing
<1> QED
  BY <1>1, SessionsInvariant, PTL

(* The charge_sessions table is a session log: every step of the loop is a *)
(* step of the log or changes no row.                                      *)
THEOREM SessionsImplementLog == Spec => LogSpec
<1>1. Init => Log!Init
  BY DEF Init, Log!Init
<1>2. IInv /\ [Next]_vars => [Log!Next]_rows
  BY IInvNext
<1> QED
  BY <1>1, <1>2, SessionsInvariant, PTL DEF Spec, LogSpec, Log!Spec

-----------------------------------------------------------------------------
(* The energy of a table: the sum its definition builds is unique, since   *)
(* at the least index where two such sums differed they would agree on the *)
(* one before.                                                             *)

(* s holds the sums of the energies of the rows 1..k, for k up to n.        *)
Sums(s, rs, n) ==
    /\ s[0] = 0 /\ \A k \in 0..n : s[k] \in Nat
    /\ \A k \in 1..n : s[k] = s[k - 1] + rs[k].energy

SameEnergies(rs, qs, n) == \A k \in 1..n : rs[k].energy = qs[k].energy

LEMMA SumsExist ==
    ASSUME NEW rs, NEW n \in Nat, \A k \in 1..n : rs[k].energy \in Nat
    PROVE  \E s : Sums(s, rs, n)
<1> DEFINE T == {k \in 0..n : ~ \E s : Sums(s, rs, k)}
<1>1. CASE T = {}
  BY <1>1
<1>2. CASE T # {}
  <2>1. PICK k \in T : \A j \in T : k =< j
    <3>1. T \subseteq Nat
      OBVIOUS
    <3> HIDE DEF T
    <3> QED
      BY <1>2, <3>1, LeastElement
  <2>2. Sums([j \in 0..0 |-> 0], rs, 0)
    BY DEF Sums
  <2>3. k # 0
    BY <2>2
  <2>4. k - 1 \in 0..n /\ k - 1 \notin T
    BY <2>1, <2>3
  <2>5. PICK s : Sums(s, rs, k - 1)
    BY <2>4
  <2> DEFINE t == [j \in 0..k |-> IF j = k THEN s[k - 1] + rs[k].energy ELSE s[j]]
  <2>6. Sums(t, rs, k)
    <3>1. k \in 1..n /\ rs[k].energy \in Nat
      BY <2>3
    <3>2. s[0] = 0 /\ \A j \in 0..(k - 1) : s[j] \in Nat
      BY <2>5 DEF Sums
    <3>3. t[0] = 0 /\ \A j \in 0..k : t[j] \in Nat
      <4>1. \A j \in 0..k : j = k \/ j \in 0..(k - 1)
        BY <3>1
      <4>2. k - 1 \in 0..(k - 1)
        BY <3>1
      <4> QED
        BY <3>1, <3>2, <4>1, <4>2
    <3>4. ASSUME NEW j \in 1..k PROVE t[j] = t[j - 1] + rs[j].energy
      <4>1. CASE j = k
        BY <3>1, <4>1
      <4>2. CASE j # k
        <5>1. j \in 1..(k - 1) /\ j - 1 \in 0..k /\ j - 1 # k
          BY <3>1, <4>2
        <5>2. s[j] = s[j - 1] + rs[j].energy
          BY <2>5, <5>1 DEF Sums
        <5> QED
          BY <5>1, <5>2, <4>2
      <4> QED
        BY <4>1, <4>2
    <3> QED
      BY <3>3, <3>4 DEF Sums
  <2> QED
    BY <2>6
<1> QED
  BY <1>1, <1>2

(* ... and only one function does, for the rows that have these energies.  *)
LEMMA SumsAgree ==
    ASSUME NEW rs, NEW qs, NEW n \in Nat, NEW s, NEW t,
           Sums(s, rs, n), Sums(t, qs, n), SameEnergies(rs, qs, n)
    PROVE  s[n] = t[n]
<1> DEFINE T == {k \in 0..n : s[k] # t[k]}
<1>1. SUFFICES ASSUME T # {} PROVE FALSE
  OBVIOUS
<1>2. PICK k \in T : \A j \in T : k =< j
  <2>1. T \subseteq Nat
    OBVIOUS
  <2> HIDE DEF T
  <2> QED
    BY <1>1, <2>1, LeastElement
<1>3. k # 0
  BY DEF Sums
<1>4. k \in 1..n /\ k - 1 \in 0..n
  BY <1>3
<1>5. s[k - 1] = t[k - 1]
  BY <1>2, <1>4
<1>6. s[k] = s[k - 1] + rs[k].energy /\ t[k] = t[k - 1] + qs[k].energy
  BY <1>4 DEF Sums
<1> QED
  BY <1>4, <1>5, <1>6 DEF SameEnergies

LEMMA EnergyIsSum ==
    ASSUME NEW rs, Len(rs) \in Nat, \A k \in 1..Len(rs) : rs[k].energy \in Nat
    PROVE  \E s : Sums(s, rs, Len(rs)) /\ Energy(rs) = s[Len(rs)]
<1> DEFINE n == Len(rs)
           Is(f) == f = [i \in 0..n |-> IF i = 0 THEN 0 ELSE f[i - 1] + rs[i].energy]
           sum == CHOOSE f : Is(f)
<1>0. PICK r : Sums(r, rs, n)
  BY SumsExist
<1> DEFINE s == [k \in 0..n |-> r[k]]
<1>1. Sums(s, rs, n)
  <2>1. 0 \in 0..n /\ \A k \in 1..n : k \in 0..n /\ k - 1 \in 0..n
    OBVIOUS
  <2> QED
    BY <1>0, <2>1 DEF Sums
<1>2. Is(s)
  <2>1. s = [i \in 0..n |-> IF i = 0 THEN 0 ELSE s[i - 1] + rs[i].energy]
    <3> HIDE DEF s
    <3>1. ASSUME NEW i \in 0..n
          PROVE  s[i] = IF i = 0 THEN 0 ELSE s[i - 1] + rs[i].energy
      BY <1>1 DEF Sums
    <3>2. s = [i \in 0..n |-> s[i]]
      BY DEF s
    <3> QED
      BY <3>1, <3>2
  <2> QED
    BY <2>1
<1> HIDE DEF s
<1>3. Is(sum)
  BY <1>2
<1>4. Energy(rs) = sum[n]
  BY DEF Energy
<1>5. Sums(sum, rs, n)
  <2> DEFINE T == {k \in 0..n : sum[k] # s[k]}
  <2> HIDE DEF sum
  <2>1. T = {}
    <3>1. SUFFICES ASSUME T # {} PROVE FALSE
      OBVIOUS
    <3>2. PICK k \in T : \A j \in T : k =< j
      <4>1. T \subseteq Nat
        OBVIOUS
      <4> HIDE DEF T
      <4> QED
        BY <3>1, <4>1, LeastElement
    <3>3. k # 0
      BY <1>2, <1>3
    <3>4. k - 1 \in 0..n /\ sum[k - 1] = s[k - 1]
      BY <3>2, <3>3
    <3>5. sum[k] = sum[k - 1] + rs[k].energy
      BY <1>3, <3>3
    <3>6. s[k] = s[k - 1] + rs[k].energy
      BY <1>2, <3>3
    <3> QED
      BY <3>4, <3>5, <3>6
  <2>2. \A k \in 0..n : sum[k] = s[k]
    BY <2>1
  <2>3. sum = s
    <3>1. /\ sum = [i \in 0..n |-> sum[i]]
          /\ s = [i \in 0..n |-> s[i]]
      BY <1>2, <1>3
    <3> QED
      BY <2>2, <3>1
  <2> QED
    BY <1>1, <2>3
<1> QED
  BY <1>4, <1>5

(* Tables with the same energies hold the same.                            *)
LEMMA EnergySame ==
    ASSUME NEW rs, NEW qs, Len(rs) \in Nat, Len(qs) = Len(rs),
           \A k \in 1..Len(rs) : rs[k].energy \in Nat,
           \A k \in 1..Len(rs) : qs[k].energy = rs[k].energy
    PROVE  Energy(qs) = Energy(rs)
<1>1. PICK s : Sums(s, rs, Len(rs)) /\ Energy(rs) = s[Len(rs)]
  BY EnergyIsSum
<1>2. PICK t : Sums(t, qs, Len(qs)) /\ Energy(qs) = t[Len(qs)]
  BY EnergyIsSum
<1>3. t[Len(rs)] = s[Len(rs)]
  <2>1. SameEnergies(qs, rs, Len(rs))
    BY DEF SameEnergies
  <2> QED
    BY <1>1, <1>2, <2>1, SumsAgree
<1> QED
  BY <1>1, <1>2, <1>3

(* A table holds what its rows but the last hold, and the last.            *)
LEMMA EnergyLast ==
    ASSUME NEW rs, NEW n \in Nat, Len(rs) = n + 1,
           \A k \in 1..(n + 1) : rs[k].energy \in Nat
    PROVE  \E s : Sums(s, rs, n) /\ Energy(rs) = s[n] + rs[n + 1].energy
<1>1. PICK s : Sums(s, rs, n + 1) /\ Energy(rs) = s[n + 1]
  BY EnergyIsSum
<1>2. s[n + 1] = s[n] + rs[n + 1].energy
  <2>1. n + 1 \in 1..(n + 1) /\ n = (n + 1) - 1
    OBVIOUS
  <2> QED
    BY <1>1, <2>1 DEF Sums
<1>3. PICK t : Sums(t, rs, n)
  <2>1. \A k \in 1..n : rs[k].energy \in Nat
    OBVIOUS
  <2> QED
    BY <2>1, SumsExist
<1>4. t[n] = s[n]
  <2>1. Sums(s, rs, n)
    BY <1>1 DEF Sums
  <2> QED
    BY <1>3, <2>1, SumsAgree DEF SameEnergies
<1> QED
  BY <1>1, <1>2, <1>3, <1>4

LEMMA EnergyNat ==
    ASSUME NEW rs, Len(rs) \in Nat, \A k \in 1..Len(rs) : rs[k].energy \in Nat
    PROVE  Energy(rs) \in Nat
<1>1. PICK s : Sums(s, rs, Len(rs)) /\ Energy(rs) = s[Len(rs)]
  BY EnergyIsSum
<1> QED
  BY <1>1 DEF Sums

(* A row appended adds its energy; the last row rewritten, the difference. *)
LEMMA EnergyAppended ==
    ASSUME NEW rs, NEW qs, Len(rs) \in Nat, Len(qs) = Len(rs) + 1,
           \A k \in 1..Len(rs) : rs[k].energy \in Nat,
           \A k \in 1..Len(rs) : qs[k].energy = rs[k].energy,
           qs[Len(qs)].energy \in Nat
    PROVE  Energy(qs) = Energy(rs) + qs[Len(qs)].energy
<1> DEFINE n == Len(rs)
<1>1. \A k \in 1..(n + 1) : qs[k].energy \in Nat
  <2>1. \A k \in 1..(n + 1) : k \in 1..n \/ k = n + 1
    OBVIOUS
  <2> QED
    BY <2>1
<1>2. PICK t : Sums(t, qs, n) /\ Energy(qs) = t[n] + qs[n + 1].energy
  BY <1>1, EnergyLast
<1>3. PICK s : Sums(s, rs, n) /\ Energy(rs) = s[n]
  BY EnergyIsSum
<1>4. t[n] = s[n]
  <2>1. SameEnergies(qs, rs, n)
    BY DEF SameEnergies
  <2> QED
    BY <1>2, <1>3, <2>1, SumsAgree
<1> QED
  BY <1>2, <1>3, <1>4

LEMMA EnergyRewritten ==
    ASSUME NEW rs, NEW qs, NEW n \in Nat, Len(rs) = n + 1, Len(qs) = n + 1,
           \A k \in 1..(n + 1) : rs[k].energy \in Nat,
           \A k \in 1..n : qs[k].energy = rs[k].energy,
           qs[n + 1].energy \in Nat
    PROVE  Energy(qs) = Energy(rs) + (qs[n + 1].energy - rs[n + 1].energy)
<1>1. \A k \in 1..(n + 1) : qs[k].energy \in Nat
  <2>1. \A k \in 1..(n + 1) : k \in 1..n \/ k = n + 1
    OBVIOUS
  <2> QED
    BY <2>1
<1>2. PICK t : Sums(t, qs, n) /\ Energy(qs) = t[n] + qs[n + 1].energy
  BY <1>1, EnergyLast
<1>3. PICK s : Sums(s, rs, n) /\ Energy(rs) = s[n] + rs[n + 1].energy
  BY EnergyLast
<1>4. t[n] = s[n] /\ s[n] \in Nat
  <2>1. SameEnergies(qs, rs, n)
    BY DEF SameEnergies
  <2>2. t[n] = s[n]
    BY <1>2, <1>3, <2>1, SumsAgree
  <2> QED
    BY <1>3, <2>2 DEF Sums
<1>5. rs[n + 1].energy \in Nat
  OBVIOUS
<1> QED
  BY <1>2, <1>3, <1>4, <1>5

-----------------------------------------------------------------------------
(* The energy observed is in the table, in the totals about to be written, *)
(* or was lost to a crash, while no store call fails.                      *)

(* What memory holds and the row does not yet.                             *)
Pending == IF step = "totals" /\ Counts(seen) THEN 1 ELSE 0

(* While no store call fails, a charging car has a session, the totals in  *)
(* memory are ahead of its row by what is pending, and what is neither in  *)
(* the table nor pending is one tick per crash at the most.                *)
Accounted ==
    /\ step = "down" => ~prevCharging
    /\ failed = {} =>
          /\ step = "idle" /\ prevCharging => sessionID # 0
          /\ step = "totals" /\ seen.charging => sessionID # 0
          /\ sessionID # 0 => energy = rows[sessionID].energy + Pending
          /\ accrued - TotalEnergy - Pending \in 0..crashes

LEMMA EnergiesTyped ==
    ASSUME rows \in Seq(Log!Row)
    PROVE  /\ Len(rows) \in Nat
           /\ \A k \in 1..Len(rows) : rows[k].energy \in Nat
           /\ TotalEnergy \in Nat
<1>1. Len(rows) \in Nat
  BY LenProperties
<1>2. ASSUME NEW k \in 1..Len(rows) PROVE rows[k].energy \in Nat
  <2>1. rows[k] \in Log!Row
    BY ElementOfSeq
  <2> QED
    BY <2>1 DEF Log!Row
<1> QED
  BY <1>1, <1>2, EnergyNat DEF TotalEnergy

LEMMA AccountedInit == Init => Accounted
<1> SUFFICES ASSUME Init PROVE Accounted
  OBVIOUS
<1>1. rows \in Seq(Log!Row) /\ Len(rows) = 0
  BY EmptySeq DEF Init
<1>2. PICK s : Sums(s, rows, Len(rows)) /\ Energy(rows) = s[Len(rows)]
  <2>1. Len(rows) \in Nat /\ \A k \in 1..Len(rows) : rows[k].energy \in Nat
    BY <1>1
  <2> QED
    BY <2>1, EnergyIsSum
<1>3. TotalEnergy = 0
  BY <1>1, <1>2 DEF Sums, TotalEnergy
<1> QED
  BY <1>3 DEF Init, Accounted, Pending

(* A row rewritten with the energy it has leaves the total as it was.      *)
LEMMA ClosedTotal ==
    ASSUME rows \in Seq(Log!Row), NEW i \in 1..Len(rows),
           rows' = Ended(i, rows[i].energy)
    PROVE  TotalEnergy' = TotalEnergy
<1>1. Len(rows) \in Nat /\ \A k \in 1..Len(rows) : rows[k].energy \in Nat
  BY EnergiesTyped
<1>2. rows[i].energy \in 0..MaxEnergy
  <2>1. rows[i] \in Log!Row
    BY ElementOfSeq
  <2> QED
    BY <2>1 DEF Log!Row
<1>3. /\ Len(rows') = Len(rows)
      /\ rows'[i] = [ended |-> TRUE, energy |-> rows[i].energy]
      /\ \A j \in 1..Len(rows) : j # i => rows'[j] = rows[j]
  BY <1>2, RowClosed
<1>4. \A k \in 1..Len(rows) : rows'[k].energy = rows[k].energy
  BY <1>3
<1> QED
  BY <1>1, <1>3, <1>4, EnergySame DEF TotalEnergy

LEMMA RecoverAccounts ==
    ASSUME IInv, Accounted, Recover
    PROVE  Accounted'
<1>1. /\ step = "down" /\ step' = "idle" /\ ~prevCharging' /\ sessionID' = 0
      /\ UNCHANGED <<accrued, crashes>> /\ rows \in Seq(Log!Row)
      /\ Pending = 0 /\ Pending' = 0
  BY DEF Recover, Accounted, IInv, TypeOK, Pending
<1>2. ASSUME failed' = {} PROVE failed = {} /\ TotalEnergy' = TotalEnergy
  <2>1. failed = {} /\ ~ Fails("open") /\ ~ Fails("end")
    BY <1>2 DEF Recover, Fails, Succeeds
  <2>2. CASE rows' = rows
    BY <2>1, <2>2 DEF TotalEnergy
  <2>3. CASE Open # {} /\ rows' = Ended(Newest(Open), rows[Newest(Open)].energy)
    <3>1. Newest(Open) \in 1..Len(rows)
      BY <1>1, <2>3, NewestIsOpen DEF Open
    <3> QED
      BY <1>1, <2>1, <2>3, <3>1, ClosedTotal
  <2> QED
    BY <2>1, <2>2, <2>3 DEF Recover
<1> QED
  BY <1>1, <1>2 DEF Accounted

(* A start with no store failure writes a row, with nothing in it yet.     *)
LEMMA StartAccounts ==
    ASSUME IInv, Accounted, TrackEdge, seen'.charging, ~prevCharging,
           NEW gain \in {0, 1}, gain = (IF Counts(seen') THEN 1 ELSE 0),
           StartSession(gain), accrued' = accrued + gain
    PROVE  Accounted'
<1>1. /\ step = "idle" /\ step' = "totals" /\ crashes' = crashes
      /\ rows \in Seq(Log!Row) /\ accrued \in Nat /\ crashes \in Nat
      /\ Pending = 0 /\ Pending' = gain
  BY SessionsConstants DEF TrackEdge, IInv, TypeOK, Pending, Counts
<1>2. ASSUME failed' = {}
      PROVE  /\ failed = {} /\ TotalEnergy' = TotalEnergy /\ sessionID' # 0
             /\ energy' = rows'[sessionID'].energy + gain
  <2>1. failed = {} /\ Inserted /\ sessionID' = Len(rows) + 1 /\ energy' = gain
    BY <1>2 DEF StartSession, Fails, Succeeds
  <2>2. /\ Len(rows) \in Nat /\ TotalEnergy \in Nat
        /\ \A k \in 1..Len(rows) : rows[k].energy \in Nat
    BY <1>1, EnergiesTyped
  <2>3. /\ Len(rows') = Len(rows) + 1
        /\ rows'[Len(rows')] = [ended |-> FALSE, energy |-> 0]
    BY <1>1, <2>1, RowAppended, SessionsConstants
  <2>4. \A k \in 1..Len(rows) : rows'[k].energy = rows[k].energy
    BY <1>1, <2>1, AppendProperties DEF Inserted
  <2>5. rows'[Len(rows')].energy = 0 /\ 0 \in Nat
    BY <2>3
  <2>6. TotalEnergy' = TotalEnergy + 0
    BY <2>2, <2>3, <2>4, <2>5, EnergyAppended DEF TotalEnergy
  <2> QED
    BY <2>1, <2>2, <2>3, <2>5, <2>6
<1>3. TotalEnergy \in Nat
  BY <1>1, EnergiesTyped
<1> QED
  BY <1>1, <1>2, <1>3 DEF Accounted

(* An end with no store failure closes a row that holds all there is.      *)
LEMMA CloseAccounts ==
    ASSUME IInv, Accounted, TrackEdge, ~seen'.charging, prevCharging,
           CloseSession, accrued' = accrued
    PROVE  Accounted'
<1>1. /\ step = "idle" /\ step' = "totals" /\ crashes' = crashes /\ sessionID' = 0
      /\ rows \in Seq(Log!Row) /\ sessionID \in 0..Len(rows)
      /\ Pending = 0 /\ Pending' = 0
  BY DEF TrackEdge, CloseSession, IInv, TypeOK, Pending, Counts
<1>2. ASSUME failed' = {} PROVE failed = {} /\ TotalEnergy' = TotalEnergy
  <2>1. failed = {} /\ ~ Fails("end")
    BY <1>2 DEF CloseSession, Fails, Succeeds
  <2>2. sessionID # 0 /\ energy = rows[sessionID].energy + 0
    BY <1>1, <2>1 DEF Accounted
  <2>3. Len(rows) \in Nat /\ \A k \in 1..Len(rows) : rows[k].energy \in Nat
    BY <1>1, EnergiesTyped
  <2>4. sessionID \in 1..Len(rows) /\ energy = rows[sessionID].energy
    BY <1>1, <2>2, <2>3
  <2>5. rows' = Ended(sessionID, rows[sessionID].energy)
    BY <2>1, <2>2, <2>4 DEF CloseSession
  <2> QED
    BY <1>1, <2>1, <2>4, <2>5, ClosedTotal
<1> QED
  BY <1>1, <1>2 DEF Accounted

(* Between the edges, what is observed is pending.                         *)
LEMMA CountAccounts ==
    ASSUME IInv, Accounted, TrackEdge, seen'.charging = prevCharging,
           NEW gain \in {0, 1}, gain = (IF Counts(seen') THEN 1 ELSE 0),
           energy' = energy + gain, accrued' = accrued + gain,
           UNCHANGED <<rows, sessionID, failed>>
    PROVE  Accounted'
<1>1. /\ step = "idle" /\ step' = "totals" /\ crashes' = crashes
      /\ rows \in Seq(Log!Row) /\ accrued \in Nat /\ crashes \in Nat
      /\ sessionID \in 0..Len(rows)
      /\ Pending = 0 /\ Pending' = gain /\ TotalEnergy' = TotalEnergy
  BY SessionsConstants DEF TrackEdge, IInv, TypeOK, Pending, Counts, TotalEnergy
<1>2. /\ TotalEnergy \in Nat /\ Len(rows) \in Nat
      /\ \A k \in 1..Len(rows) : rows[k].energy \in Nat
  BY <1>1, EnergiesTyped
<1>3. sessionID # 0 => rows[sessionID].energy \in Nat
  BY <1>1, <1>2
<1> QED
  BY <1>1, <1>2, <1>3 DEF Accounted

LEMMA EdgeAccounts ==
    ASSUME IInv, Accounted, TrackEdge
    PROVE  Accounted'
<1>1. PICK o \in Observations :
         LET gain == IF Counts(o) THEN 1 ELSE 0
         IN  /\ seen' = o
             /\ accrued + gain =< MaxEnergy
             /\ accrued' = accrued + gain
             /\ \/ o.charging /\ ~prevCharging /\ StartSession(gain)
                \/ ~o.charging /\ prevCharging /\ CloseSession
                \/ /\ o.charging = prevCharging
                   /\ energy' = energy + gain
                   /\ UNCHANGED <<rows, sessionID, failed>>
  BY DEF TrackEdge
<1> DEFINE gain == IF Counts(o) THEN 1 ELSE 0
<1>2. /\ gain \in {0, 1} /\ accrued' = accrued + gain
      /\ gain = (IF Counts(seen') THEN 1 ELSE 0) /\ accrued \in Nat
      /\ ~o.charging => gain = 0
  BY <1>1 DEF IInv, TypeOK, Counts
<1> HIDE DEF gain
<1>3. CASE o.charging /\ ~prevCharging /\ StartSession(gain)
  BY <1>1, <1>2, <1>3, StartAccounts
<1>4. CASE ~o.charging /\ prevCharging /\ CloseSession
  BY <1>1, <1>2, <1>4, CloseAccounts
<1>5. CASE /\ o.charging = prevCharging /\ energy' = energy + gain
           /\ UNCHANGED <<rows, sessionID, failed>>
  BY <1>1, <1>2, <1>5, CountAccounts
<1> QED
  BY <1>1, <1>3, <1>4, <1>5 DEF gain

(* The totals written raise the last row by what was pending.              *)
LEMMA TotalsAccount ==
    ASSUME IInv, Accounted, TrackTotals
    PROVE  Accounted'
<1>1. /\ step = "totals" /\ step' = "idle"
      /\ UNCHANGED <<sessionID, energy, accrued, crashes>>
      /\ prevCharging' = seen.charging /\ Pending' = 0
      /\ rows \in Seq(Log!Row) /\ accrued \in Nat /\ crashes \in Nat
      /\ sessionID \in 0..Len(rows) /\ energy \in Nat
      /\ Pending = IF Counts(seen) THEN 1 ELSE 0
  BY SessionsConstants DEF TrackTotals, IInv, TypeOK, Pending
<1>2. /\ TotalEnergy \in Nat /\ Len(rows) \in Nat
      /\ \A k \in 1..Len(rows) : rows[k].energy \in Nat
  BY <1>1, EnergiesTyped
<1>3. CASE ~Counts(seen)
  BY <1>1, <1>2, <1>3 DEF TrackTotals, Succeeds, Accounted, TotalEnergy
<1>4. CASE Counts(seen) /\ failed' # {}
  BY <1>1, <1>4 DEF Accounted
<1>5. CASE Counts(seen) /\ failed' = {}
  <2>1. failed = {} /\ ~ Fails("update") /\ seen.charging
    BY <1>5 DEF TrackTotals, Fails, Succeeds, Counts
  <2>2. /\ sessionID # 0 /\ energy = rows[sessionID].energy + 1
        /\ accrued - TotalEnergy - 1 \in 0..crashes
    BY <1>1, <1>5, <2>1 DEF Accounted
  <2>3. sessionID \in 1..Len(rows) /\ sessionID = Len(rows) /\ sessionID \in Open
    BY <1>1, <1>2, <2>2 DEF IInv, OwnsNewestRow, Open
  <2>4. rows' = [rows EXCEPT ![sessionID].energy = energy]
    BY <1>5, <2>1, <2>3 DEF TrackTotals
  <2>5. rows[sessionID] \in Log!Row
    BY <1>1, <2>3, ElementOfSeq
  <2>6. /\ Len(rows') = Len(rows) /\ rows'[sessionID].energy = energy
        /\ \A k \in 1..Len(rows) : k # sessionID => rows'[k] = rows[k]
    <3> DEFINE r == [rows[sessionID] EXCEPT !.energy = energy]
    <3>1. r.energy = energy
      BY <2>5 DEF Log!Row
    <3>2. rows' = [rows EXCEPT ![sessionID] = r]
      BY <2>4
    <3>3. energy \in 0..MaxEnergy
      BY DEF IInv, TypeOK
    <3>4. r \in Log!Row
      BY <2>5, <3>3 DEF Log!Row
    <3> HIDE DEF r
    <3> QED
      BY <1>1, <2>3, <3>1, <3>2, <3>4, RowReplaced
  <2> DEFINE n == Len(rows) - 1
  <2>7. n \in Nat /\ sessionID = n + 1 /\ Len(rows) = n + 1 /\ Len(rows') = n + 1
    BY <1>2, <2>3, <2>6
  <2> HIDE DEF n
  <2>8. /\ \A k \in 1..(n + 1) : rows[k].energy \in Nat
        /\ \A k \in 1..n : rows'[k].energy = rows[k].energy
        /\ rows'[n + 1].energy \in Nat
    BY <1>1, <1>2, <2>6, <2>7
  <2>9. TotalEnergy' = TotalEnergy + (rows'[n + 1].energy - rows[n + 1].energy)
    BY <2>7, <2>8, EnergyRewritten DEF TotalEnergy
  <2>10. rows[n + 1].energy \in Nat
    BY <2>7, <2>8
  <2>11. TotalEnergy' = TotalEnergy + 1
    BY <1>2, <2>2, <2>6, <2>7, <2>9, <2>10
  <2>12. accrued' - TotalEnergy' - Pending' \in 0..crashes'
    BY <1>1, <1>2, <2>2, <2>11
  <2>13. energy' = rows'[sessionID'].energy + Pending'
    BY <1>1, <2>6
  <2> QED
    BY <1>1, <2>2, <2>12, <2>13 DEF Accounted
<1> QED
  BY <1>3, <1>4, <1>5

(* A crash costs what is pending.                                          *)
LEMMA CrashAccounts ==
    ASSUME IInv, Accounted, Crash
    PROVE  Accounted'
<1>1. /\ step' = "down" /\ ~prevCharging' /\ sessionID' = 0 /\ Pending' = 0
      /\ crashes' = crashes + 1 /\ crashes \in Nat /\ accrued \in Nat
      /\ TotalEnergy' = TotalEnergy /\ TotalEnergy \in Nat
      /\ Pending \in {0, 1} /\ UNCHANGED <<accrued, failed>>
  BY EnergiesTyped, SessionsConstants
     DEF Crash, IInv, TypeOK, Pending, TotalEnergy
<1> QED
  BY <1>1 DEF Accounted

(* While no store call fails, the table, or the tick under way, holds all  *)
(* the charging observed but one tick for each crash.                      *)
THEOREM EnergyAccounted == Spec => []EnergyIsAccounted
<1>1. IInv /\ Accounted /\ [Next]_vars => Accounted'
  <2> SUFFICES ASSUME IInv, Accounted, [Next]_vars PROVE Accounted'
    OBVIOUS
  <2>1. CASE UNCHANGED vars
    BY <2>1 DEF vars, Accounted, Pending, TotalEnergy
  <2> QED
    BY <2>1, RecoverAccounts, EdgeAccounts, TotalsAccount, CrashAccounts DEF Next
<1>2. IInv /\ Accounted => EnergyIsAccounted
  <2> SUFFICES ASSUME IInv, Accounted, failed = {} PROVE EnergyIsAccounted
    BY DEF EnergyIsAccounted
  <2>1. TotalEnergy \in Nat /\ accrued \in Nat /\ crashes \in Nat
    BY EnergiesTyped, SessionsConstants DEF IInv, TypeOK
  <2>2. accrued - TotalEnergy - Pending \in 0..crashes /\ Pending \in {0, 1}
    BY DEF Accounted, Pending
  <2>3. step # "totals" => Pending = 0
    BY DEF Pending
  <2> QED
    BY <2>1, <2>2, <2>3 DEF EnergyIsAccounted
<1> QED
  BY <1>1, <1>2, AccountedInit, SessionsInvariant, PTL DEF Spec
=============================================================================
