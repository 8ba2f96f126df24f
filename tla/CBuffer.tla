------------------------------- MODULE CBuffer -------------------------------
(***************************************************************************)
(* The index arithmetic of the circular byte buffer c_buffer               *)
(* (src/espardino/buffer.c).  A buffer of `size` slots holds at most       *)
(* size - 1 bytes: first = last means empty.  The drivers that use it keep *)
(* the indices and the slots as their own state, because an interrupt      *)
(* handler and the main program work on the two ends at the same time.     *)
(***************************************************************************)
EXTENDS Naturals

\* buffer_num: the bytes waiting between first and last.
BufferNum(first, last, size) ==
    IF first > last THEN (last + size) - first ELSE last - first

\* Mutant: no slot is kept free, so a full buffer looks empty.
BufferFullAtSize(first, last, size) == BufferNum(first, last, size) >= size

\* Mutant: two slots stay free.
BufferFullTooEarly(first, last, size) == BufferNum(first, last, size) + 2 >= size

\* The refusal test of buffer_put: one slot always stays free.
BufferFull(first, last, size) == BufferNum(first, last, size) + 1 >= size

\* Mutant: without the wrap case of buffer_num.
BufferEmptyNoWrap(first, last) == first >= last

\* The test of buffer_get.
BufferEmpty(first, last) == first = last

\* An index after its increment and wrap.
NextIndex(i, size) == IF i + 1 >= size THEN 0 ELSE i + 1

\* The slot of the k-th waiting byte, counted from 0.
SlotOf(first, k, size) ==
    IF first + k >= size THEN (first + k) - size ELSE first + k

\* Mutant: the slot is read but not freed.
FirstStoreForgotten(i, size, torn) == {i}

(***************************************************************************)
(* What the build may make of                                              *)
(*     i = i + 1; if (i >= size) i = 0;                                    *)
(* on a struct that is not volatile.  At -O0 or -O1 both stores reach      *)
(* memory and an interrupt between them sees i = size; an optimising build *)
(* may merge them into one store of the wrapped value.                     *)
(***************************************************************************)
FirstStore(i, size, torn) ==
    {NextIndex(i, size)} \cup (IF torn THEN {i + 1} ELSE {})
=============================================================================
