------------------------------- MODULE MCPorts -------------------------------
(* Ports for TLC: three blocks of two units, the first outside the partition, and a YAFFS of four. *)
EXTENDS Ports
=============================================================================
