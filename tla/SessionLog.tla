----------------------------- MODULE SessionLog -----------------------------
(***************************************************************************)
(* What the charge_sessions table promises its readers (the history page   *)
(* and /api/sessions): a log of charge sessions.  Rows are only appended;  *)
(* the newest gains energy while it is open; an open row is closed once,   *)
(* an older one with the energy it has; a closed row never changes.        *)
(* Sessions is shown to implement this.                                    *)
(***************************************************************************)
EXTENDS Naturals, Sequences

CONSTANT MaxEnergy

VARIABLE rows

Row == [ended : BOOLEAN, energy : 0..MaxEnergy]

Init == rows = <<>>

Begin == rows' = Append(rows, [ended |-> FALSE, energy |-> 0])

(* The newest row is written, and perhaps closed.                          *)
Write ==
    /\ rows # <<>> /\ ~rows[Len(rows)].ended
    /\ \E ended \in BOOLEAN, e \in rows[Len(rows)].energy..MaxEnergy :
          rows' = [rows EXCEPT ![Len(rows)] = [ended |-> ended, energy |-> e]]

(* A row left open by a failure is closed later.                           *)
Close ==
    \E i \in 1..Len(rows) :
       ~rows[i].ended /\ rows' = [rows EXCEPT ![i].ended = TRUE]

Next == Begin \/ Write \/ Close
Spec == Init /\ [][Next]_rows
=============================================================================
