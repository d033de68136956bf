------------------------------ MODULE MCPairing ------------------------------
(* A small instance of pairing for TLC. *)
EXTENDS Pairing

CONSTANTS c1, c2
==============================================================================
