----------------------------- MODULE MCBmConfig -----------------------------
(* The instances of BmConfig that TLC explores: payloads are model values. *)
EXTENDS BmConfig
=============================================================================
