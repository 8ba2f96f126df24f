---------------------------- MODULE MCTimerIrqs ----------------------------
(* The sizes are in the configuration; every sample is a number of its own, *)
(* and so is every edge of an input: one that is lost, repeated or late     *)
(* shows as such.                                                           *)
EXTENDS TimerIrqs
=============================================================================
