---------------------------- MODULE VcomTransmit ----------------------------
(***************************************************************************)
(* The virtual COM port from the board to the host                         *)
(* (src/openlibs/vcom/main_serial.c): VCOM_putchar fills txfifo, the USB   *)
(* interrupt handler moves up to MaxPacket bytes at a time into the bulk   *)
(* IN endpoint, the host polls.  The handler is asked for data by the NAK  *)
(* interrupt, which it turns off when txfifo is empty and which the        *)
(* start-of-frame handler turns on again.                                  *)
(*                                                                         *)
(* The bulk IN endpoint has two packet buffers and one interrupt bit, set  *)
(* by a packet the host took and, when enabled, by a poll that found no    *)
(* packet.  The host may act between any two steps of the handler.  A byte *)
(* is its position in the stream.                                          *)
(***************************************************************************)
EXTENDS SerialFifo, Sequences

CONSTANTS FifoSize,    \* VCOM_FIFO_SIZE
          MaxPacket,   \* MAX_PACKET_SIZE
          TxBytes      \* how many bytes the application writes

(* Vcom, which instantiates this module, assumes FifoSize > 1, MaxPacket > 0  *)
(* and TxBytes a natural number.                                              *)

VARIABLES
    pc, c,             \* the main program in fifo_put, and its byte
    accepted,          \* bytes put in the FIFO so far
    head, tail, buf,   \* txfifo
    isr,               \* where USBHwISR is
    slow,              \* the EP_SLOW bit of the status word it read
    frameInt,          \* the FRAME interrupt is pending
    inInt,             \* the bulk IN bit of USBEpIntSt
    nakOn,             \* INACK_BI is set
    ep,                \* validated packets in the endpoint, oldest first
    host               \* bytes the host has read

mainVars == <<pc, c, accepted>>
fifoVars == <<head, tail, buf>>
isrVars  == <<isr, slow>>
usbVars  == <<frameInt, inInt, nakOn, ep, host>>
vars     == <<mainVars, fifoVars, isrVars, usbVars>>

Slots == 0 .. (FifoSize - 1)
Bytes == 0 .. TxBytes
PCs   == {"idle", "check", "store", "publish"}
Isrs  == {"off", "frame", "slow", "bulkin"}

\* After VCOM_init: empty FIFO, NAK interrupts on.
Init ==
    /\ pc = "idle" /\ c = 0 /\ accepted = 0
    /\ head = 0 /\ tail = 0 /\ buf = [s \in Slots |-> 0]
    /\ isr = "off" /\ slow = FALSE
    /\ frameInt = FALSE /\ inInt = FALSE /\ nakOn = TRUE
    /\ ep = <<>> /\ host = <<>>

-----------------------------------------------------------------------------
(* The main program: VCOM_putchar and VCOM_putchar_nonblock.               *)

PutChar ==
    /\ isr = "off" /\ pc = "idle" /\ c < TxBytes
    /\ c' = c + 1 /\ pc' = "check"
    /\ UNCHANGED <<accepted, fifoVars, isrVars, usbVars>>

\* fifo_put refuses; VCOM_putchar tries again.
PutFull ==
    /\ isr = "off" /\ pc = "check" /\ FifoFull(head, tail, FifoSize)
    /\ UNCHANGED vars

\* fifo_put refuses; VCOM_putchar_nonblock gives up and returns EOF.
PutGivesUp ==
    /\ isr = "off" /\ pc = "check" /\ FifoFull(head, tail, FifoSize)
    /\ pc' = "idle" /\ c' = c - 1
    /\ UNCHANGED <<accepted, fifoVars, isrVars, usbVars>>

PutCheck ==
    /\ isr = "off" /\ pc = "check" /\ ~FifoFull(head, tail, FifoSize)
    /\ pc' = "store"
    /\ UNCHANGED <<c, accepted, fifoVars, isrVars, usbVars>>

PutStore ==
    /\ isr = "off" /\ pc = "store"
    /\ buf' = [buf EXCEPT ![head] = c]
    /\ pc' = "publish"
    /\ UNCHANGED <<c, accepted, head, tail, isrVars, usbVars>>

PutPublish ==
    /\ isr = "off" /\ pc = "publish"
    /\ head' = FifoNext(head, FifoSize)
    /\ accepted' = accepted + 1
    /\ pc' = "idle"
    /\ UNCHANGED <<c, tail, buf, isrVars, usbVars>>

-----------------------------------------------------------------------------
(* The interrupt handler: USBIntHandler, USBHwISR and its two callbacks.   *)

\* The status word is read once; FRAME is served before EP_SLOW.
IsrEnter ==
    /\ isr = "off" /\ (frameInt \/ inInt)
    /\ isr' = IF frameInt THEN "frame" ELSE "slow"
    /\ slow' = inInt
    /\ frameInt' = FALSE
    /\ UNCHANGED <<mainVars, fifoVars, inInt, nakOn, ep, host>>

\* Mutant: a frame turns the NAK interrupt on only for a full FIFO.
FrameHandlerLate == nakOn' = (nakOn \/ FifoFull(head, tail, FifoSize))

\* USBFrameHandler: data waits, so ask for NAK interrupts.
FrameHandler == nakOn' = (nakOn \/ FifoAvail(head, tail, FifoSize) > 0)

IsrFrame ==
    /\ isr = "frame"
    /\ FrameHandler
    /\ isr' = IF slow THEN "slow" ELSE "off"
    /\ UNCHANGED <<mainVars, fifoVars, slow, frameInt, inInt, ep, host>>

\* The endpoint bit is cleared before its handler is called.
IsrSlow ==
    /\ isr = "slow"
    /\ inInt' = FALSE
    /\ isr' = "bulkin"
    /\ UNCHANGED <<mainVars, fifoVars, slow, frameInt, nakOn, ep, host>>

Least(a, b) == IF a <= b THEN a ELSE b

\* The k-th byte waiting in the FIFO, counted from 0.
Waiting(k) == buf[(tail + k) % FifoSize]

\* Mutant: the handler fills both packet buffers at once.
SendPacketTwice ==
    LET n == Least(MaxPacket, FifoAvail(head, tail, FifoSize))
        p == [i \in 1 .. n |-> Waiting(i - 1)]
    IN /\ tail' = (tail + n) % FifoSize
       /\ ep' = ep \o <<p, p>>

\* Up to MaxPacket bytes go from the FIFO into an endpoint buffer.
SendPacket ==
    LET n == Least(MaxPacket, FifoAvail(head, tail, FifoSize))
    IN /\ tail' = (tail + n) % FifoSize
       /\ ep' = Append(ep, [i \in 1 .. n |-> Waiting(i - 1)])

\* BulkIn: send, or turn the NAK interrupt off for want of data.
BulkIn ==
    /\ isr = "bulkin"
    /\ IF FifoAvail(head, tail, FifoSize) = 0
         THEN nakOn' = FALSE /\ UNCHANGED <<tail, ep>>
         ELSE SendPacket /\ UNCHANGED nakOn
    /\ isr' = "off"
    /\ UNCHANGED <<mainVars, head, buf, slow, frameInt, inInt, host>>

-----------------------------------------------------------------------------
(* The host and the USB hardware.                                          *)

Frame ==
    /\ frameInt' = TRUE
    /\ UNCHANGED <<mainVars, fifoVars, isrVars, inInt, nakOn, ep, host>>

\* The host polls and a packet is there.
HostTakes ==
    /\ ep # <<>>
    /\ host' = host \o Head(ep)
    /\ ep' = Tail(ep)
    /\ inInt' = TRUE
    /\ UNCHANGED <<mainVars, fifoVars, isrVars, frameInt, nakOn>>

\* The host polls and gets a NAK.
HostNaks ==
    /\ ep = <<>> /\ nakOn
    /\ inInt' = TRUE
    /\ UNCHANGED <<mainVars, fifoVars, isrVars, frameInt, nakOn, ep, host>>

-----------------------------------------------------------------------------
Driver == PutCheck \/ PutStore \/ PutPublish
Isr    == IsrEnter \/ IsrFrame \/ IsrSlow \/ BulkIn
Host   == Frame \/ HostTakes \/ HostNaks
Next   == PutChar \/ PutFull \/ PutGivesUp \/ Driver \/ Isr \/ Host

\* The processor and the handler run, the host sends a frame every
\* millisecond and keeps polling the endpoint.  The main program makes
\* progress between interrupts however often they come, since it is longer
\* between two frames than a handler takes: strong fairness.
Fairness ==
    /\ SF_vars(Driver) /\ WF_vars(Isr)
    /\ WF_vars(Frame) /\ WF_vars(HostTakes) /\ WF_vars(HostNaks)

Spec == Init /\ [][Next]_vars /\ Fairness

-----------------------------------------------------------------------------
(* Properties.                                                             *)

\* Every variable keeps its type.
TypeOK ==
    /\ pc \in PCs /\ c \in Bytes /\ accepted \in Bytes
    /\ head \in Slots /\ tail \in Slots /\ buf \in [Slots -> Bytes]
    /\ isr \in Isrs /\ slow \in BOOLEAN
    /\ frameInt \in BOOLEAN /\ inInt \in BOOLEAN /\ nakOn \in BOOLEAN
    /\ ep \in Seq(Seq(Bytes)) /\ host \in Seq(Bytes)

\* BulkIn never writes to an endpoint whose two buffers are full, although it
\* looks neither at the endpoint nor at the reason for the interrupt, and the
\* host may take a packet or be refused while it runs.
EndpointHasRoom == (isr = "bulkin") => Len(ep) < 2

\* The FIFO and the two endpoint buffers are a byte channel.
Channel == INSTANCE ByteChannel WITH
    Capacity <- (FifoSize - 1) + 2 * MaxPacket, accepted <- accepted, delivered <- host

IsByteChannel == Channel!Spec
=============================================================================
