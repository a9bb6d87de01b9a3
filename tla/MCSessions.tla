----------------------------- MODULE MCSessions -----------------------------
(* Sessions for TLC: every store call may fail.                            *)
EXTENDS Sessions

AllFaults == {"start", "update", "end", "open"}
=============================================================================
