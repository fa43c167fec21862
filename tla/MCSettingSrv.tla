---------------------------- MODULE MCSettingSrv -----------------------------
(* SettingSrv for TLC: two stored settings, one that is not. *)
EXTENDS SettingSrv
=============================================================================
