--------------------------- MODULE SerialTransmit ---------------------------
(***************************************************************************)
(* The transmitting half of one UART of the serial driver                  *)
(* (src/espardino/serial_device.c): the main program in serial_putchar,    *)
(* the interrupt handler draining the transmit buffer, and the UART        *)
(* hardware emptying THR into the shift register and onto the line.        *)
(*                                                                         *)
(* The main program stops at every access to memory the handler shares;    *)
(* while the handler runs the main program does not move (one core, no     *)
(* nested interrupts), but the hardware does.  A byte is its position in   *)
(* the stream the application writes, 1, 2, 3, ...; 0 is the content of a  *)
(* slot nobody has written.                                                *)
(***************************************************************************)
EXTENDS CBuffer, Sequences

CONSTANTS PacketSize,   \* slots of the transmit buffer
          TxBytes,      \* how many bytes the application writes
          TornStores,   \* does the build keep both stores of an index wrap?
          CounterMod,   \* width of the overrun counter (2^32 in the code)
          WireBound     \* bytes after which the line is no longer looked at

ASSUME PacketSizeAssumption == PacketSize \in Nat /\ PacketSize >= 2
ASSUME TxBytesAssumption    == TxBytes \in Nat
ASSUME TornStoresAssumption == TornStores \in BOOLEAN
ASSUME CounterAssumption    == CounterMod \in Nat \ {0}
ASSUME WireBoundAssumption  == WireBound \in Nat

VARIABLES
    pc,        \* where the main program is in serial_putchar_
    ch,        \* the byte it is writing, or the last one it wrote
    accepted,  \* bytes that are in the buffer or beyond it
    first, last, overrun, mem,   \* uart_tx_buffer and its data
    ier,       \* the transmit bit of IER
    threInt,   \* the THRE interrupt is latched
    thr,       \* the transmit holding FIFO
    tsr,       \* the shift register
    isr,       \* the interrupt handler is running its THRE loop
    wire       \* the bytes that left the UART, in order

mainVars == <<pc, ch, accepted>>
bufVars  == <<first, last, overrun, mem>>
uartVars == <<ier, threInt, thr, tsr, wire>>
vars     == <<mainVars, bufVars, uartVars, isr>>

Slots == 0 .. (PacketSize - 1)
Bytes == 0 .. TxBytes
PCs   == {"idle", "num", "lsr", "direct", "put", "store", "publish",
          "wrap", "arm", "rearm"}

\* After serial_init: buffer_init has zeroed the indices, serial_setup has
\* cleared the FIFOs and left only the receive interrupt on (IER = 1).
Init ==
    /\ pc = "idle" /\ ch = 0 /\ accepted = 0
    /\ first = 0 /\ last = 0 /\ overrun = 0 /\ mem = [s \in Slots |-> 0]
    /\ ier = FALSE /\ threInt = FALSE
    /\ thr = <<>> /\ tsr = <<>> /\ wire = <<>>
    /\ isr = FALSE

-----------------------------------------------------------------------------
(* The main program: serial_putchar_.                                      *)

\* The application calls serial_putchar with its next byte.
PutChar ==
    /\ ~isr /\ pc = "idle" /\ ch < TxBytes
    /\ ch' = ch + 1
    /\ pc' = "num"
    /\ UNCHANGED <<accepted, bufVars, uartVars, isr>>

\* Mutant: THR is written directly even when bytes are queued.
TestNumSkipped ==
    /\ ~isr /\ pc = "num"
    /\ pc' = "lsr"
    /\ UNCHANGED <<ch, accepted, bufVars, uartVars, isr>>

\* Bytes already waiting: this one must queue behind them.
TestNum ==
    /\ ~isr /\ pc = "num"
    /\ pc' = IF BufferNum(first, last, PacketSize) > 0 THEN "put" ELSE "lsr"
    /\ UNCHANGED <<ch, accepted, bufVars, uartVars, isr>>

\* Nothing waiting: write THR directly, if LSR says it is empty.
TestLsr ==
    /\ ~isr /\ pc = "lsr"
    /\ pc' = IF thr # <<>> THEN "put" ELSE "direct"
    /\ UNCHANGED <<ch, accepted, bufVars, uartVars, isr>>

Direct ==
    /\ ~isr /\ pc = "direct"
    /\ thr' = Append(thr, ch) /\ threInt' = FALSE
    /\ accepted' = accepted + 1
    /\ pc' = "arm"
    /\ UNCHANGED <<ch, bufVars, ier, tsr, wire, isr>>

\* buffer_put: refuse and count, or go on to store the byte.
Put ==
    /\ ~isr /\ pc = "put"
    /\ IF BufferFull(first, last, PacketSize)
         THEN overrun' = (overrun + 1) % CounterMod /\ pc' = "rearm"
         ELSE UNCHANGED overrun /\ pc' = "store"
    /\ UNCHANGED <<ch, accepted, first, last, mem, uartVars, isr>>

Store ==
    /\ ~isr /\ pc = "store"
    /\ mem' = [mem EXCEPT ![last] = ch]
    /\ pc' = "publish"
    /\ UNCHANGED <<ch, accepted, first, last, overrun, uartVars, isr>>

\* The store to buffer->last that makes the byte visible to the handler.
Publish ==
    /\ ~isr /\ pc = "publish"
    /\ last' \in FirstStore(last, PacketSize, TornStores)
    /\ accepted' = accepted + 1
    /\ pc' = "wrap"
    /\ UNCHANGED <<ch, first, overrun, mem, uartVars, isr>>

\* The test of the index, which finds it past the end only in a build that
\* keeps both stores.
Wrap ==
    /\ ~isr /\ pc = "wrap"
    /\ last' = IF last >= PacketSize THEN 0 ELSE last
    /\ pc' = "arm"
    /\ UNCHANGED <<ch, accepted, first, overrun, mem, uartVars, isr>>

\* Mutant: the driver forgets to write IER after queueing the byte.
EnableThreForgotten == UNCHANGED <<ier, threInt>>

\* IER = 3.  Enabling the interrupt while THR is empty raises it.
EnableThre ==
    /\ ier' = TRUE
    /\ threInt' = (threInt \/ (~ier /\ thr = <<>>))

\* The putchar returns, or goes round the do-while after a refusal.
Arm ==
    /\ ~isr /\ pc \in {"arm", "rearm"}
    /\ EnableThre
    /\ pc' = IF pc = "arm" THEN "idle" ELSE "put"
    /\ UNCHANGED <<ch, accepted, bufVars, thr, tsr, wire, isr>>

-----------------------------------------------------------------------------
(* The interrupt handler: serial_irq_handler, case THRE.                   *)

\* The vectored interrupt is taken; reading IIR clears the THRE cause.
IsrEnter ==
    /\ ~isr /\ ier /\ threInt
    /\ isr' = TRUE
    /\ threInt' = FALSE
    /\ UNCHANGED <<mainVars, bufVars, ier, thr, tsr, wire>>

\* LSR says THR is empty and buffer_get returns a byte.
IsrSend ==
    /\ isr /\ thr = <<>> /\ ~BufferEmpty(first, last)
    /\ thr' = Append(thr, mem[first]) /\ threInt' = FALSE
    /\ first' = NextIndex(first, PacketSize)
    /\ UNCHANGED <<mainVars, last, overrun, mem, ier, tsr, wire, isr>>

\* Nothing to send: turn the transmit interrupt off (IER = 1) and return.
IsrDisable ==
    /\ isr /\ thr = <<>> /\ BufferEmpty(first, last)
    /\ ier' = FALSE
    /\ isr' = FALSE
    /\ UNCHANGED <<mainVars, bufVars, threInt, thr, tsr, wire>>

\* THR is busy again: return and wait for the next interrupt.
IsrLeave ==
    /\ isr /\ thr # <<>>
    /\ isr' = FALSE
    /\ UNCHANGED <<mainVars, bufVars, uartVars>>

-----------------------------------------------------------------------------
(* The UART, modelled from how the driver uses it (16550 behaviour).       *)

\* THR moves into the idle shift register; the empty THR latches THRE.
UartLoad ==
    /\ thr # <<>> /\ tsr = <<>>
    /\ tsr' = <<Head(thr)>>
    /\ thr' = Tail(thr)
    /\ threInt' = (threInt \/ thr' = <<>>)
    /\ UNCHANGED <<mainVars, bufVars, ier, wire, isr>>

UartShift ==
    /\ tsr # <<>> /\ Len(wire) < WireBound
    /\ wire' = wire \o tsr
    /\ tsr' = <<>>
    /\ UNCHANGED <<mainVars, bufVars, ier, threInt, thr, isr>>

-----------------------------------------------------------------------------
Driver == TestNum \/ TestLsr \/ Direct \/ Put \/ Store \/ Publish \/ Wrap \/ Arm
Isr  == IsrEnter \/ IsrSend \/ IsrDisable \/ IsrLeave
Uart == UartLoad \/ UartShift
Next == PutChar \/ Driver \/ Isr \/ Uart

\* The processor runs, an interrupt request is served and the UART's baud
\* clock ticks.  Calling serial_putchar is the application's choice.
Fairness ==
    /\ WF_vars(Driver)
    /\ WF_vars(Isr)
    /\ WF_vars(UartLoad) /\ WF_vars(UartShift)

Spec == Init /\ [][Next]_vars /\ Fairness

-----------------------------------------------------------------------------
(* Properties.                                                             *)

\* Every variable keeps its type; in particular an index is out of the
\* array only between the two stores of a torn wrap.
TypeOK ==
    /\ pc \in PCs /\ ch \in Bytes /\ accepted \in Bytes
    /\ first \in Slots /\ last \in 0 .. PacketSize
    /\ overrun \in 0 .. (CounterMod - 1) /\ mem \in [Slots -> Bytes]
    /\ (last = PacketSize) => (pc = "wrap")
    /\ ier \in BOOLEAN /\ threInt \in BOOLEAN /\ isr \in BOOLEAN
    /\ thr \in Seq(Bytes) /\ tsr \in Seq(Bytes) /\ wire \in Seq(Bytes)

\* The bytes leave the UART in the order serial_putchar was given them, each
\* once: the direct write to THR never overtakes a queued byte, and the
\* handler never reads a slot before it is written or after it was reused.
WireInOrder == \A i \in 1 .. Len(wire) : wire[i] = i

\* No lost wake-up: whenever the main program is outside serial_putchar with
\* bytes still queued, the THRE interrupt is on and either latched or
\* certain to be latched when THR empties.  The handler turns the interrupt
\* off when it finds the buffer empty, which races with the next putchar.
NoLostWakeup ==
    (pc = "idle" /\ ~isr /\ ~BufferEmpty(first, last)) =>
        ier /\ (threInt \/ thr # <<>>)

\* serial_putchar returns: the wait for room in a full buffer ends.
PutCharReturns == (pc # "idle") ~> (pc = "idle")

\* The transmitter is a byte channel: the buffer, THR and the shift register
\* together hold at most PacketSize + 1 bytes.
Channel == INSTANCE ByteChannel WITH
    Capacity <- PacketSize + 1, accepted <- accepted, delivered <- wire

IsByteChannel == Channel!Spec
=============================================================================
