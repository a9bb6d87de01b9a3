---------------------------- MODULE MCEvccStore ----------------------------
(* Instances of EvccStore for TLC: with and without a meter that may fail. *)
EXTENDS EvccStore

None == {}
GridMeter == {"grid"}
=============================================================================
