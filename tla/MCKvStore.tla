----------------------------- MODULE MCKvStore ------------------------------
(* The instances of KvStore that TLC explores. *)
EXTENDS KvStore
=============================================================================
