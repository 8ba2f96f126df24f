---------------------------- MODULE SerialReceive ----------------------------
(***************************************************************************)
(* The receiving half of the serial driver (src/espardino/serial_device.c) *)
(* for both UARTs: bytes arrive in the hardware FIFO, the interrupt        *)
(* handler passes each to the channel's receive handler, the default one   *)
(* puts it in a circular buffer and serial_getchar takes it out.           *)
(*                                                                         *)
(* serial_init routes both UARTs through serial_rx_handler_uart1 and gives *)
(* both buffers the array uart1_rx_buffer_data; the module keeps that.     *)
(* A byte is the pair of its UART and its position on that line.  The      *)
(* receiver line status branch (RLS) of the handler is left out: IER never *)
(* enables it.  The main program stops at every access to buffer state the *)
(* handler shares, and serial_init runs in one step.                       *)
(***************************************************************************)
EXTENDS CBuffer, Sequences, FiniteSets

CONSTANTS Uarts,        \* the UARTs the application opens, a subset of {0, 1}
          PacketSize,   \* slots of a receive buffer
          RxFifo,       \* depth of the hardware FIFO
          RxBytes,      \* how many bytes arrive on each line
          TornStores,   \* does the build keep both stores of an index wrap?
          UserHandlers  \* may the application install its own handler?

ASSUME UartsAssumption == Uarts \subseteq {0, 1}
ASSUME SizesAssumption == PacketSize \in Nat \ {0, 1} /\ RxFifo \in Nat \ {0}
ASSUME BytesAssumption == RxBytes \in Nat
ASSUME FlagsAssumption == TornStores \in BOOLEAN /\ UserHandlers \in BOOLEAN

VARIABLES
    opened,    \* UARTs serial_init has run for
    handler,   \* uart0_rx_handler, uart1_rx_handler
    rx,        \* uart0_rx_buffer, uart1_rx_buffer: indices, overrun and size
    mem,       \* uart1_rx_buffer_data, which both buffers point to
    isr,       \* the UART whose handler is in its receive loop
    app,       \* where the main program is in buffer_get, and for which UART
    byte,      \* r_data of serial_getchar
    fifo,      \* the hardware receive FIFOs
    line,      \* bytes that have arrived on each line
    hwLost,    \* bytes the hardware dropped: its FIFO was full, or cleared
    got,       \* bytes serial_getchar has returned for each UART
    heard      \* bytes an application handler has been called with

hwVars  == <<fifo, line, hwLost>>
mainVars == <<app, byte, got>>
vars == <<opened, handler, rx, mem, isr, mainVars, hwVars, heard>>

BothUarts == {0, 1}
NoUart    == 2
Slots     == 0 .. (PacketSize - 1)
Unwritten == [from |-> 0, n |-> 0]

Init ==
    /\ opened = {} /\ handler = [u \in BothUarts |-> "none"]
    /\ rx = [u \in BothUarts |-> [first |-> 0, last |-> 0, overrun |-> 0, size |-> 0]]
    /\ mem = [s \in Slots |-> Unwritten]
    /\ isr = NoUart
    /\ app = [pc |-> "idle", uart |-> NoUart, wait |-> FALSE] /\ byte = Unwritten
    /\ fifo = [u \in BothUarts |-> <<>>] /\ line = [u \in BothUarts |-> 0]
    /\ hwLost = [u \in BothUarts |-> 0]
    /\ got = [u \in BothUarts |-> <<>>] /\ heard = [u \in BothUarts |-> <<>>]

MainIdle == isr = NoUart /\ app.pc = "idle"

-----------------------------------------------------------------------------
(* Setting up.                                                             *)

\* The handler a channel gets for a NULL argument: for both channels the one
\* of UART 1.
DefaultHandler(u) == "rx_handler_uart1"

\* serial_init: default handler, empty buffer, FIFOs cleared, interrupt on.
SerialInit(u) ==
    /\ MainIdle /\ u \in Uarts \ opened
    /\ opened' = opened \cup {u}
    /\ handler' = [handler EXCEPT ![u] = DefaultHandler(u)]
    /\ rx' = [rx EXCEPT ![u] = [first |-> 0, last |-> 0, overrun |-> 0,
                                size |-> PacketSize]]
    /\ fifo' = [fifo EXCEPT ![u] = <<>>]
    /\ UNCHANGED <<mem, isr, mainVars, line, hwLost, heard>>

\* serial_set_handler: an application callback, or NULL for the default.
SetHandler(u) ==
    /\ UserHandlers /\ MainIdle
    /\ \E h \in {"user", DefaultHandler(u)} : handler' = [handler EXCEPT ![u] = h]
    /\ UNCHANGED <<opened, rx, mem, isr, mainVars, hwVars, heard>>

\* serial_clear_FIFO, with what is in it.
ClearFifo(u) ==
    /\ MainIdle /\ u \in opened
    /\ fifo' = [fifo EXCEPT ![u] = <<>>]
    /\ hwLost' = [hwLost EXCEPT ![u] = @ + Len(fifo[u])]
    /\ UNCHANGED <<opened, handler, rx, mem, isr, mainVars, line, heard>>

-----------------------------------------------------------------------------
(* The line.                                                               *)

\* A byte arrives in the FIFO of an enabled UART, or is lost if that is full.
Arrive(u) ==
    /\ u \in opened /\ line[u] < RxBytes
    /\ line' = [line EXCEPT ![u] = @ + 1]
    /\ IF Len(fifo[u]) < RxFifo
         THEN /\ fifo' = [fifo EXCEPT ![u] = Append(@, [from |-> u, n |-> line[u] + 1])]
              /\ UNCHANGED hwLost
         ELSE /\ hwLost' = [hwLost EXCEPT ![u] = @ + 1]
              /\ UNCHANGED fifo
    /\ UNCHANGED <<opened, handler, rx, mem, isr, mainVars, heard>>

-----------------------------------------------------------------------------
(* The interrupt handler.                                                  *)

IsrEnter(u) ==
    /\ isr = NoUart /\ u \in opened /\ fifo[u] # <<>>
    /\ isr' = u
    /\ UNCHANGED <<opened, handler, rx, mem, mainVars, hwVars, heard>>

\* Mutant: a refused byte is not counted.
BufferPutSilent(b, d) ==
    IF BufferFull(rx[b].first, rx[b].last, rx[b].size)
      THEN UNCHANGED <<rx, mem>>
      ELSE /\ mem' = [mem EXCEPT ![rx[b].last] = d]
           /\ rx' = [rx EXCEPT ![b].last = NextIndex(@, rx[b].size)]

\* buffer_put of a byte into the buffer of UART b.
BufferPut(b, d) ==
    IF BufferFull(rx[b].first, rx[b].last, rx[b].size)
      THEN /\ rx' = [rx EXCEPT ![b].overrun = @ + 1]
           /\ UNCHANGED mem
      ELSE /\ mem' = [mem EXCEPT ![rx[b].last] = d]
           /\ rx' = [rx EXCEPT ![b].last = NextIndex(@, rx[b].size)]

\* LSR says a byte is there: read RBR and hand it to the channel's handler.
IsrReceive ==
    /\ isr # NoUart /\ fifo[isr] # <<>>
    /\ fifo' = [fifo EXCEPT ![isr] = Tail(@)]
    /\ IF handler[isr] = "user"
         THEN /\ heard' = [heard EXCEPT ![isr] = Append(@, Head(fifo[isr]))]
              /\ UNCHANGED <<rx, mem>>
         ELSE BufferPut(1, Head(fifo[isr])) /\ UNCHANGED heard
    /\ UNCHANGED <<opened, handler, isr, mainVars, line, hwLost>>

IsrLeave ==
    /\ isr # NoUart /\ fifo[isr] = <<>>
    /\ isr' = NoUart
    /\ UNCHANGED <<opened, handler, rx, mem, mainVars, hwVars, heard>>

-----------------------------------------------------------------------------
(* The main program: serial_getchar and serial_getchar_nonblock.           *)

GetChar(u, wait) ==
    /\ MainIdle /\ u \in opened
    /\ app' = [pc |-> "check", uart |-> u, wait |-> wait]
    /\ UNCHANGED <<opened, handler, rx, mem, isr, byte, got, hwVars, heard>>

\* buffer_get compares the indices; the blocking call tries again.
GetCheck ==
    /\ isr = NoUart /\ app.pc = "check"
    /\ app' = [app EXCEPT !.pc =
                 IF ~BufferEmpty(rx[app.uart].first, rx[app.uart].last) THEN "read"
                 ELSE IF app.wait THEN "check" ELSE "idle"]
    /\ UNCHANGED <<opened, handler, rx, mem, isr, byte, got, hwVars, heard>>

GetRead ==
    /\ isr = NoUart /\ app.pc = "read"
    /\ byte' = mem[rx[app.uart].first]
    /\ app' = [app EXCEPT !.pc = "advance"]
    /\ UNCHANGED <<opened, handler, rx, mem, isr, got, hwVars, heard>>

\* The store to buffer->first that frees the slot.
GetAdvance ==
    /\ isr = NoUart /\ app.pc = "advance"
    /\ \E f \in FirstStore(rx[app.uart].first, PacketSize, TornStores) :
         /\ rx' = [rx EXCEPT ![app.uart].first = f]
         /\ app' = [app EXCEPT !.pc = IF f = PacketSize THEN "wrap" ELSE "idle"]
    /\ got' = [got EXCEPT ![app.uart] = Append(@, byte)]
    /\ UNCHANGED <<opened, handler, mem, isr, byte, hwVars, heard>>

\* The second store of a build that keeps both.
GetWrap ==
    /\ isr = NoUart /\ app.pc = "wrap"
    /\ rx' = [rx EXCEPT ![app.uart].first = 0]
    /\ app' = [app EXCEPT !.pc = "idle"]
    /\ UNCHANGED <<opened, handler, mem, isr, byte, got, hwVars, heard>>

-----------------------------------------------------------------------------
Setup  == \E u \in Uarts : SerialInit(u) \/ SetHandler(u) \/ ClearFifo(u)
Hw     == \E u \in Uarts : Arrive(u)
Call   == \E u \in Uarts, wait \in BOOLEAN : GetChar(u, wait)
Driver == GetCheck \/ GetRead \/ GetAdvance \/ GetWrap
Isr    == (\E u \in Uarts : IsrEnter(u)) \/ IsrReceive \/ IsrLeave
Next   == Setup \/ Hw \/ Call \/ Driver \/ Isr

Spec == Init /\ [][Next]_vars /\ WF_vars(Driver) /\ WF_vars(Isr)

-----------------------------------------------------------------------------
(* Properties.                                                             *)

\* serial_getchar returns bytes that arrived, each at most once, and those of
\* one line in the order they arrived; bytes may be missing, never repeated,
\* even though the handler refills slots while the main program reads.
ReceivedInOrder ==
    \A u \in BothUarts : \A i \in 1 .. Len(got[u]) :
        /\ got[u][i].n > 0
        /\ \A j \in 1 .. (i - 1) :
             got[u][j].from = got[u][i].from => got[u][j].n < got[u][i].n

Waiting(u) == BufferNum(rx[u].first, rx[u].last, rx[u].size)

\* With one UART, a byte that arrived is in the FIFO, in the buffer, with the
\* application, or counted as lost by the hardware or by buffer->overrun.
NothingVanishes ==
    line[1] = Len(fifo[1]) + hwLost[1] + Waiting(1) + rx[1].overrun
              + Len(got[1]) + Len(heard[1])

\* Bytes the driver has put in the buffer and the application has not taken,
\* counted from the bytes themselves and not from the indices.
Untaken(u) == line[u] - (Len(fifo[u]) + hwLost[u] + rx[u].overrun + Len(heard[u]))
              - Len(got[u])

\* buffer_put refuses a byte only when PacketSize - 1 others wait: the
\* unwrapped index a torn buffer_get leaves behind does not make the buffer
\* look fuller than it is.
RefusesOnlyWhenFull ==
    [][rx'[1].overrun > rx[1].overrun => Untaken(1) = PacketSize - 1]_vars

\* A waiting serial_getchar returns once its buffer holds a byte.
GetCharReturns ==
    \A u \in Uarts :
        (app.pc # "idle" /\ app.uart = u /\ Waiting(u) > 0) ~> (app.pc = "idle")
=============================================================================
