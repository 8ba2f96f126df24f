------------------------------ MODULE MCTimer1 ------------------------------
(* Instance of Timer1 for TLC. *)
EXTENDS Timer1
=============================================================================
