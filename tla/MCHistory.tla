----------------------------- MODULE MCHistory -----------------------------
(* History for TLC: two states of the FSM, every store call may fail.      *)
EXTENDS History

TwoStates == {"idle", "charging"}
AllFaults == {"event", "sample", "prune"}
=============================================================================
