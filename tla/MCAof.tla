------------------------------- MODULE MCAof -------------------------------
(* Instances of Aof for TLC. *)
EXTENDS Aof
=============================================================================
