-------------------------------- MODULE Vcom --------------------------------
(***************************************************************************)
(* The virtual COM port in both directions: one application, which reads   *)
(* or writes, and one interrupt handler, USBHwISR, which calls BulkOut for *)
(* what the host sent (VcomReceive) and BulkIn for what goes to it         *)
(* (VcomTransmit).  The handler is at one endpoint at a time, and neither  *)
(* the application nor another call of it runs before it is done.          *)
(***************************************************************************)
EXTENDS VcomReceive

CONSTANT TxBytes   \* how many bytes the application writes

ASSUME TxBytesAssumption == TxBytes \in Nat

VARIABLES tpc, tc, accepted, thead, ttail, tbuf, tisr, slow, frameInt, inInt, nakOn, tep, host

Out == INSTANCE VcomTransmit WITH
    pc <- tpc, c <- tc, head <- thead, tail <- ttail, buf <- tbuf, isr <- tisr, ep <- tep

outVars == <<tpc, tc, accepted, thead, ttail, tbuf, tisr, slow, frameInt, inInt, nakOn, tep, host>>
allVars == <<vars, outVars>>

\* Who has the processor for a direction.
AppReads    == tisr = "off" /\ tpc = "idle"
AppWrites   == ~isr /\ pc = "idle"
IsrReceives == tisr = "off"
IsrSends    == ~isr

Receive ==
    /\ \/ AppReads /\ (GetChar \/ GetGivesUp \/ Driver)
       \/ IsrReceives /\ Isr
       \/ HostSends
    /\ UNCHANGED outVars

Send ==
    /\ \/ AppWrites /\ (Out!PutChar \/ Out!PutFull \/ Out!PutGivesUp \/ Out!Driver)
       \/ IsrSends /\ Out!Isr
       \/ Out!Host
    /\ UNCHANGED vars

PortInit == Init /\ Out!Init

PortNext == Receive \/ Send

\* As in the two directions alone.  A frame comes every millisecond for ever;
\* what waits for the handler to be done gets its turn between two of them, and
\* the handler looks at every endpoint whose bit is set: strong fairness.
PortSpec ==
    /\ PortInit /\ [][PortNext]_allVars
    /\ SF_allVars(AppReads /\ Driver /\ UNCHANGED outVars)
    /\ SF_allVars(IsrReceives /\ Isr /\ UNCHANGED outVars)
    /\ SF_allVars(AppWrites /\ Out!Driver /\ UNCHANGED vars)
    /\ WF_allVars(IsrSends /\ Out!Isr /\ UNCHANGED vars)
    /\ WF_allVars(Out!Frame /\ UNCHANGED vars)
    /\ WF_allVars(Out!HostTakes /\ UNCHANGED vars)
    /\ WF_allVars(Out!HostNaks /\ UNCHANGED vars)

-----------------------------------------------------------------------------
(* Properties.                                                             *)

\* BulkIn never writes to an endpoint whose two buffers are full, whatever
\* BulkOut and the application do in between.
EndpointHasRoom == Out!EndpointHasRoom

\* What the application writes reaches the host once, in order and in the end,
\* while the host sends and the application stops to read.
HostGetsAll == Out!IsByteChannel
=============================================================================
