------------------------------ MODULE Sessions ------------------------------
(***************************************************************************)
(* Charge sessions: trackSession, closeSession and recoverDanglingSession  *)
(* of the controller over the charge_sessions table of the store.          *)
(*                                                                         *)
(* A tick tracks the session in two database steps, the edge (a session    *)
(* starts or ends) and the running totals; each may fail, and the process  *)
(* may die between any two.  Ids are positions in `rows': the table only   *)
(* grows, and its rowid with it.  Energy is counted in ticks of charging,  *)
(* which is what integrating a constant power does; the average and the    *)
(* peak follow the same path and are left out.                             *)
(***************************************************************************)
EXTENDS Integers, Sequences, FiniteSets

CONSTANTS
    Faults,      \* the store calls that may fail: "start", "update", "end", "open"
    MaxRows,     \* bound on the table
    MaxEnergy,   \* bound on the ticks of charging observed
    MaxCrashes   \* bound on restarts

ASSUME SessionsConstants ==
    /\ Faults \subseteq {"start", "update", "end", "open"}
    /\ MaxRows \in Nat /\ MaxEnergy \in Nat /\ MaxCrashes \in Nat

(* What trackSession looks at: evcc's charging flag and staleness.  The    *)
(* reasons written into a row are labels no operation reads back, and are  *)
(* left out.                                                               *)
Observations == [charging : BOOLEAN, stale : BOOLEAN]
Quiet == [charging |-> FALSE, stale |-> FALSE]

VARIABLES
    rows,          \* the charge_sessions table
    prevCharging,  \* c.prevCharging
    sessionID,     \* c.sessionID, 0 for none
    energy,        \* c.sessionEnWh
    step,          \* "down", "idle", or "totals": half way through a tick
    seen,          \* the observation of the tick under way
    accrued,       \* history: ticks of charging observed in all
    failed,        \* history: the store calls that have failed
    crashes        \* restarts so far

vars == <<rows, prevCharging, sessionID, energy, step, seen, accrued, failed,
          crashes>>

Fails(call) == call \in Faults /\ failed' = failed \cup {call}
Succeeds == failed' = failed

(* ...Wrong... definitions are faulty variants of the one that follows.    *)
EndedWrongBlank(i, e) == [rows EXCEPT ![i] = [ended |-> TRUE, energy |-> 0]]

(* UPDATE ... WHERE id = ?: EndSession does not look whether it is open.   *)
Ended(i, e) == [rows EXCEPT ![i] = [ended |-> TRUE, energy |-> e]]

Open == {i \in 1..Len(rows) : ~rows[i].ended}
Newest(ids) == CHOOSE i \in ids : \A j \in ids : j =< i

Counts(o) == o.charging /\ ~o.stale

Init ==
    /\ rows = <<>> /\ prevCharging = FALSE /\ sessionID = 0 /\ energy = 0
    /\ step = "down" /\ seen = Quiet /\ accrued = 0
    /\ failed = {} /\ crashes = 0

(* recoverDanglingSession: the newest open row is closed with the totals   *)
(* it has.  Every error is logged and otherwise ignored.                   *)
Recover ==
    /\ step = "down" /\ step' = "idle"
    /\ \/ Fails("open") /\ rows' = rows
       \/ Open = {} /\ Succeeds /\ rows' = rows
       \/ /\ Open # {} /\ Succeeds
          /\ rows' = Ended(Newest(Open), rows[Newest(Open)].energy)
       \/ Open # {} /\ Fails("end") /\ rows' = rows
    /\ UNCHANGED <<prevCharging, sessionID, energy, seen, accrued, crashes>>

Inserted ==
    /\ Len(rows) < MaxRows
    /\ rows' = Append(rows, [ended |-> FALSE, energy |-> 0])

(* The totals of the last session are not reset.                           *)
StartSessionWrongCarries(gain) ==
    /\ energy' = energy + gain
    /\ \/ Inserted /\ Succeeds /\ sessionID' = Len(rows) + 1
       \/ Fails("start") /\ UNCHANGED <<rows, sessionID>>

(* The rising edge; the totals start from zero whether or not the insert   *)
(* succeeds, and the first tick of charging already counts.                *)
StartSession(gain) ==
    /\ energy' = gain
    /\ \/ Inserted /\ Succeeds /\ sessionID' = Len(rows) + 1
       \/ Fails("start") /\ UNCHANGED <<rows, sessionID>>

(* The id is kept.                                                         *)
CloseSessionWrongKeepsId ==
    /\ \/ sessionID = 0 /\ rows' = rows
       \/ sessionID # 0 /\ rows' = Ended(sessionID, energy)
    /\ Succeeds /\ UNCHANGED <<energy, sessionID>>

(* The falling edge: the id is given up even when EndSession fails.        *)
CloseSession ==
    /\ sessionID' = 0
    /\ \/ sessionID = 0 /\ Succeeds /\ rows' = rows
       \/ sessionID # 0 /\ Succeeds /\ rows' = Ended(sessionID, energy)
       \/ sessionID # 0 /\ Fails("end") /\ rows' = rows
    /\ UNCHANGED energy

(* trackSession up to its second store call: the edge of evcc's charging   *)
(* flag, and the totals integrated in memory.                              *)
TrackEdge ==
    /\ step = "idle" /\ step' = "totals"
    /\ \E o \in Observations :
          LET gain == IF Counts(o) THEN 1 ELSE 0
          IN  /\ seen' = o
              /\ accrued + gain =< MaxEnergy
              /\ accrued' = accrued + gain
              /\ \/ o.charging /\ ~prevCharging /\ StartSession(gain)
                 \/ ~o.charging /\ prevCharging /\ CloseSession
                 \/ /\ o.charging = prevCharging
                    /\ energy' = energy + gain
                    /\ UNCHANGED <<rows, sessionID, failed>>
    /\ UNCHANGED <<prevCharging, crashes>>

(* trackSession, the running totals written to the row; the update only    *)
(* touches an open one.                                                    *)
TrackTotals ==
    /\ step = "totals" /\ step' = "idle"
    /\ \/ /\ Counts(seen) /\ sessionID \in Open /\ Succeeds
          /\ rows' = [rows EXCEPT ![sessionID].energy = energy]
       \/ Counts(seen) /\ sessionID # 0 /\ Fails("update") /\ rows' = rows
       \/ (Counts(seen) => sessionID \notin Open) /\ Succeeds /\ rows' = rows
    /\ prevCharging' = seen.charging /\ seen' = Quiet
    /\ UNCHANGED <<sessionID, energy, accrued, crashes>>

(* The process dies or is stopped: nothing closes the session.             *)
Crash ==
    /\ step # "down" /\ crashes < MaxCrashes
    /\ step' = "down" /\ crashes' = crashes + 1
    /\ prevCharging' = FALSE /\ sessionID' = 0 /\ energy' = 0 /\ seen' = Quiet
    /\ UNCHANGED <<rows, accrued, failed>>

Next == Recover \/ TrackEdge \/ TrackTotals \/ Crash

Spec == Init /\ [][Next]_vars

-----------------------------------------------------------------------------
Log == INSTANCE SessionLog WITH rows <- rows, MaxEnergy <- MaxEnergy

(* Types; and the loop holds a session id only while it runs.              *)
TypeOK ==
    /\ rows \in Seq(Log!Row)
    /\ prevCharging \in BOOLEAN /\ sessionID \in 0..Len(rows)
    /\ energy \in 0..MaxEnergy /\ accrued \in 0..MaxEnergy
    /\ step \in {"down", "idle", "totals"} /\ seen \in Observations
    /\ failed \subseteq Faults /\ crashes \in 0..MaxCrashes
    /\ step = "down" => sessionID = 0

(* The table is a session log, whatever store calls fail and whenever the  *)
(* process dies: refinement of SessionLog.  A closed row is history, no    *)
(* later tick, failure or recovery rewrites it (EndSession itself would),  *)
(* and only the newest session gains energy.                               *)
LogSpec == Log!Spec

(* The session the loop accumulates for is the newest row, and open: its   *)
(* totals never go to the row of another session, whatever store call      *)
(* failed before.                                                          *)
OwnsNewestRow ==
    sessionID # 0 => sessionID = Len(rows) /\ ~rows[sessionID].ended

(* recoverDanglingSession need only look for one open row: unless closing  *)
(* or looking for one failed, there is never a second, however often the   *)
(* process died.                                                           *)
OneOpenRow == failed \cap {"end", "open"} = {} => Cardinality(Open) =< 1

(* Types, and the session tracked is the newest row and the only open one, *)
(* through failing store calls and crashes.                                *)
RowInv == TypeOK /\ OwnsNewestRow /\ OneOpenRow

Energy(rs) ==
    LET sum[i \in 0..Len(rs)] == IF i = 0 THEN 0 ELSE sum[i - 1] + rs[i].energy
    IN  sum[Len(rs)]
TotalEnergy == Energy(rows)

(* Without store failures every tick of charging is in the table once,     *)
(* under one session: a crash costs the tick it interrupts and no more.    *)
EnergyIsAccounted ==
    LET lost == accrued - TotalEnergy
    IN  failed = {} => /\ 0 =< lost
                       /\ lost =< crashes + (IF step = "totals" THEN 1 ELSE 0)
=============================================================================
