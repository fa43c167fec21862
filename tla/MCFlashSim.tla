----------------------------- MODULE MCFlashSim -----------------------------
(* Instances of FlashSim for TLC: a few blocks, small enough to wear out. *)
EXTENDS FlashSim
=============================================================================
