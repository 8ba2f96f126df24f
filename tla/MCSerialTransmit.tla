-------------------------- MODULE MCSerialTransmit --------------------------
(* Instances of SerialTransmit for TLC: three slots, so that two bytes fill *)
(* the buffer and the indices wrap several times within the stream.         *)
EXTENDS SerialTransmit
=============================================================================
