---------------------------- MODULE MCVcomReceive ----------------------------
(* Instances of VcomReceive for TLC.  As in the code (128 and 64), a FIFO   *)
(* of twice the packet size cannot hold two full packets.                   *)
EXTENDS VcomReceive
=============================================================================
