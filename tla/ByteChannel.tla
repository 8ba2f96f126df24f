----------------------------- MODULE ByteChannel -----------------------------
(***************************************************************************)
(* What a byte transport of the library promises its caller: the n-th byte *)
(* accepted is the n-th byte delivered, nothing is lost, repeated or       *)
(* invented, and at most Capacity bytes are under way.  A byte is named by *)
(* its position in the stream, since no driver looks at its value.         *)
(***************************************************************************)
EXTENDS Naturals, Sequences

CONSTANT Capacity

VARIABLES accepted,   \* how many bytes the caller has handed over
          delivered   \* the bytes that came out, in order

vars == <<accepted, delivered>>

Init == accepted = 0 /\ delivered = <<>>

\* The caller hands over one more byte, or a packet of them.
Accept ==
    /\ \E n \in 1 .. Capacity : accepted' = accepted + n
    /\ accepted' <= Len(delivered) + Capacity
    /\ UNCHANGED delivered

\* The oldest bytes under way come out, one or several at a time.
Deliver ==
    /\ \E n \in 1 .. Capacity :
         /\ Len(delivered) + n <= accepted
         /\ delivered' = delivered \o [i \in 1 .. n |-> Len(delivered) + i]
    /\ UNCHANGED accepted

Next == Accept \/ Deliver

Spec == Init /\ [][Next]_vars /\ WF_vars(Deliver)
=============================================================================
