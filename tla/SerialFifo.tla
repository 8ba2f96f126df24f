------------------------------ MODULE SerialFifo ------------------------------
(***************************************************************************)
(* The index arithmetic of fifo_t, the byte FIFO between the virtual COM   *)
(* port's main program and its USB interrupt handler                       *)
(* (src/openlibs/vcom/serial_fifo.c).  An index is stored once, already    *)
(* wrapped, so there is no torn state as in c_buffer.                      *)
(***************************************************************************)
EXTENDS Integers

\* fifo_avail: the bytes waiting.
FifoAvail(head, tail, size) == ((size + head) - tail) % size

\* fifo_free: one slot always stays empty.
FifoFree(head, tail, size) == (size - 1) - FifoAvail(head, tail, size)

\* An index after its increment and wrap.
FifoNext(i, size) == (i + 1) % size

\* The test of fifo_put.
FifoFull(head, tail, size) == FifoNext(head, size) = tail

\* The test of fifo_get.
FifoEmpty(head, tail) == head = tail
=============================================================================
