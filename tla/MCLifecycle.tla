---------------------------- MODULE MCLifecycle ----------------------------
(* Lifecycle for TLC: the two migrations the release has.                  *)
EXTENDS Lifecycle
=============================================================================
