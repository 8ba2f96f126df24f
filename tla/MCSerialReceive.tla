--------------------------- MODULE MCSerialReceive ---------------------------
(* Instances of SerialReceive for TLC: three slots and a FIFO of two, so    *)
(* that both overflow and the indices wrap within the bytes that arrive.    *)
EXTENDS SerialReceive
=============================================================================
