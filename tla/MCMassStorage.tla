---- MODULE MCMassStorage ----
(* Instance of MassStorage for TLC. *)
EXTENDS MassStorage
====
