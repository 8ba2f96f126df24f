----------------------------- MODULE VcomReceive -----------------------------
(***************************************************************************)
(* The virtual COM port from the host to the board                         *)
(* (src/openlibs/vcom/main_serial.c): the host sends packets, BulkOut      *)
(* moves one per interrupt into rxfifo when a whole packet is sure to fit, *)
(* VCOM_getchar takes bytes out.                                           *)
(*                                                                         *)
(* The bulk OUT endpoint has two packet buffers and one interrupt bit, set *)
(* by an arriving packet; a host that finds both full is refused, and the  *)
(* port never enables the interrupt for that (INACK_BO).  Whether clearing *)
(* a buffer raises the interrupt again for a packet in the other one is a  *)
(* parameter of the hardware.                                              *)
(***************************************************************************)
EXTENDS SerialFifo, Sequences

CONSTANTS FifoSize,      \* VCOM_FIFO_SIZE
          MaxPacket,     \* MAX_PACKET_SIZE
          RxBytes,       \* how many bytes the host sends
          RaiseOnClear   \* does clearing a buffer raise the interrupt for the other?

ASSUME FifoSizeAssumption  == FifoSize \in Nat \ {0, 1}
ASSUME MaxPacketAssumption == MaxPacket \in Nat \ {0}
ASSUME RxBytesAssumption   == RxBytes \in Nat
ASSUME RaiseAssumption     == RaiseOnClear \in BOOLEAN

VARIABLES
    pc, c,             \* the main program in fifo_get, and the byte it read
    got,               \* bytes VCOM_getchar has returned
    head, tail, buf,   \* rxfifo
    isr,               \* the handler is between clearing the bit and BulkOut
    outInt,            \* the bulk OUT bit of USBEpIntSt
    ep,                \* packets in the endpoint, oldest first
    sent,              \* bytes the host has sent and seen acknowledged
    asserted           \* the ASSERT(FALSE) of BulkOut was reached

mainVars == <<pc, c, got>>
fifoVars == <<head, tail, buf>>
usbVars  == <<isr, outInt, ep, sent>>
vars     == <<mainVars, fifoVars, usbVars, asserted>>

Slots == 0 .. (FifoSize - 1)
Bytes == 0 .. RxBytes
PCs   == {"idle", "check", "read", "advance"}

Init ==
    /\ pc = "idle" /\ c = 0 /\ got = <<>>
    /\ head = 0 /\ tail = 0 /\ buf = [s \in Slots |-> 0]
    /\ isr = FALSE /\ outInt = FALSE /\ ep = <<>> /\ sent = 0
    /\ asserted = FALSE

-----------------------------------------------------------------------------
(* The main program: VCOM_getchar and VCOM_getchar_nonblock.               *)

GetChar ==
    /\ ~isr /\ pc = "idle" /\ Len(got) < RxBytes
    /\ pc' = "check"
    /\ UNCHANGED <<c, got, fifoVars, usbVars, asserted>>

\* fifo_get finds nothing; VCOM_getchar_nonblock returns EOF, VCOM_getchar
\* tries again, which changes nothing.
GetGivesUp ==
    /\ ~isr /\ pc = "check" /\ FifoEmpty(head, tail)
    /\ pc' = "idle"
    /\ UNCHANGED <<c, got, fifoVars, usbVars, asserted>>

GetCheck ==
    /\ ~isr /\ pc = "check" /\ ~FifoEmpty(head, tail)
    /\ pc' = "read"
    /\ UNCHANGED <<c, got, fifoVars, usbVars, asserted>>

GetRead ==
    /\ ~isr /\ pc = "read"
    /\ c' = buf[tail]
    /\ pc' = "advance"
    /\ UNCHANGED <<got, fifoVars, usbVars, asserted>>

GetAdvance ==
    /\ ~isr /\ pc = "advance"
    /\ tail' = FifoNext(tail, FifoSize)
    /\ got' = Append(got, c)
    /\ pc' = "idle"
    /\ UNCHANGED <<c, head, buf, usbVars, asserted>>

-----------------------------------------------------------------------------
(* The interrupt handler: USBHwISR and BulkOut.                            *)

\* The endpoint bit is cleared before its handler is called.
IsrEnter ==
    /\ ~isr /\ outInt
    /\ isr' = TRUE
    /\ outInt' = FALSE
    /\ UNCHANGED <<mainVars, fifoVars, ep, sent, asserted>>

\* Mutant: any room at all will do.
HasRoomForSome == FifoFree(head, tail, FifoSize) > 0

\* A whole packet is sure to fit.
HasRoom == FifoFree(head, tail, FifoSize) >= MaxPacket

\* The bytes of p that fifo_put takes before the FIFO is full.
Taken(p) == IF Len(p) <= FifoFree(head, tail, FifoSize)
              THEN Len(p) ELSE FifoFree(head, tail, FifoSize)

\* fifo_put of each byte of p, until one is refused.
PutPacket(p) ==
    /\ buf' = [s \in Slots |->
                 IF (s + FifoSize - head) % FifoSize < Taken(p)
                   THEN p[1 + ((s + FifoSize - head) % FifoSize)] ELSE buf[s]]
    /\ head' = (head + Taken(p)) % FifoSize
    /\ asserted' = (asserted \/ Taken(p) < Len(p))

\* BulkOut leaves the packet where it is, or moves it and clears its buffer.
BulkOut ==
    /\ isr
    /\ IF HasRoom /\ ep # <<>>
         THEN /\ PutPacket(Head(ep))
              /\ ep' = Tail(ep)
              /\ outInt' = (outInt \/ (RaiseOnClear /\ ep' # <<>>))
         ELSE UNCHANGED <<head, buf, asserted, ep, outInt>>
    /\ isr' = FALSE
    /\ UNCHANGED <<mainVars, tail, sent>>

-----------------------------------------------------------------------------
(* The host.                                                               *)

HostSends ==
    /\ Len(ep) < 2
    /\ \E n \in 1 .. MaxPacket :
         /\ sent + n <= RxBytes
         /\ ep' = Append(ep, [i \in 1 .. n |-> sent + i])
         /\ sent' = sent + n
    /\ outInt' = TRUE
    /\ UNCHANGED <<mainVars, fifoVars, isr, asserted>>

-----------------------------------------------------------------------------
Driver == GetCheck \/ GetRead \/ GetAdvance
Isr    == IsrEnter \/ BulkOut
Next   == GetChar \/ GetGivesUp \/ Driver \/ Isr \/ HostSends

\* The processor and the handler run, and the application keeps reading.
Fairness == WF_vars(Driver) /\ WF_vars(Isr) /\ WF_vars(GetChar)

Spec == Init /\ [][Next]_vars /\ Fairness

-----------------------------------------------------------------------------
(* Properties.                                                             *)

\* Every variable keeps its type.
TypeOK ==
    /\ pc \in PCs /\ c \in Bytes /\ got \in Seq(Bytes)
    /\ head \in Slots /\ tail \in Slots /\ buf \in [Slots -> Bytes]
    /\ isr \in BOOLEAN /\ outInt \in BOOLEAN /\ asserted \in BOOLEAN
    /\ ep \in Seq(Seq(Bytes)) /\ Len(ep) <= 2 /\ sent \in Bytes

\* The room BulkOut checked is still there when it puts the packet: the
\* ASSERT(FALSE) at main_serial.c:249 is never reached.
NoOverflow == ~asserted

\* The endpoint buffers and the FIFO are a byte channel from the host to the
\* application: what the host saw acknowledged is not lost.
Channel == INSTANCE ByteChannel WITH
    Capacity <- (FifoSize - 1) + 2 * MaxPacket, accepted <- sent, delivered <- got

IsByteChannel == Channel!Init /\ [][Channel!Next]_(Channel!vars)

\* vcom.h:105, "if the VCP buffer hasn't available data it will wait": data
\* the port acknowledged reaches an application that keeps calling.
AcknowledgedBytesReturned == \A n \in Bytes : (sent >= n) ~> (Len(got) >= n)
=============================================================================
