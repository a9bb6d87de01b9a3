----------------------------- MODULE MCUpdater -----------------------------
(* Updater for TLC: two checkers are the check at start and an operator's, *)
(* or two operators'; with one the checks of a process follow each other.  *)
(* The registry lists by text: 1.10.0, 1.9.0, 2.0.0, latest; two a page.   *)
EXTENDS Updater

FourTags == << <<1, 10, 0>>, <<1, 9, 0>>, <<2, 0, 0>>, <<0>> >>
OneNineZero == <<1, 9, 0>>
=============================================================================
