----------------------------- MODULE BlockDevice -----------------------------
(***************************************************************************)
(* What a disk driver promises the file system: a call that reports        *)
(* success moved every block it was asked for, between the buffer and the  *)
(* sector it was meant for; a call that fails may have moved some of them, *)
(* first ones first; no other sector changes.                              *)
(*                                                                         *)
(* The card may be taken out at any time, and that limits the promise.  A  *)
(* sector written since the last synchronisation may then be lost, no      *)
(* other one.  And one read during which the card goes may report success  *)
(* with a last block that is not the card's: the driver throws away the    *)
(* checksum that would tell.                                               *)
(***************************************************************************)
EXTENDS Naturals, Sequences

CONSTANTS Sectors,   \* sector numbers, an interval from 0
          Block,     \* what a sector can hold
          None       \* stands for "no call"

VARIABLES medium,    \* the content of the card
          unsafe,    \* sectors that the card would lose
          present,   \* a card is in the slot
          call,      \* [op, sector, data], or None
          moved,     \* blocks moved for this call
          buff,      \* blocks read for this call
          broken,    \* the card was taken out during this call
          torn,      \* a block of this call is not the card's
          reply      \* what the last call returned

callVars == <<call, moved, buff, broken, torn, reply>>
vars     == <<medium, unsafe, present, callVars>>

Init ==
    /\ medium \in [Sectors -> Block] /\ unsafe = {} /\ present = TRUE
    /\ call = None /\ moved = 0 /\ buff = <<>> /\ broken = FALSE /\ torn = FALSE
    /\ reply = "ok"

Call ==
    /\ call = None
    /\ call' # None
    /\ UNCHANGED <<medium, unsafe, present, moved, buff, broken, torn, reply>>

\* The sector whose turn it is.
NextSector == call.sector + moved

Unfinished(op) ==
    /\ call # None /\ call.op = op
    /\ moved < Len(call.data) /\ NextSector \in Sectors

Store ==
    /\ Unfinished("write") /\ ~broken
    /\ medium' = [medium EXCEPT ![NextSector] = call.data[moved + 1]]
    /\ unsafe' = unsafe \union {NextSector}
    /\ moved' = moved + 1
    /\ UNCHANGED <<present, call, buff, broken, torn, reply>>

\* A block that could not be written leaves its sector in any state.
Spoil ==
    /\ Unfinished("write") /\ ~broken
    /\ \E b \in Block : medium' = [medium EXCEPT ![NextSector] = b]
    /\ unsafe' = unsafe \union {NextSector}
    /\ UNCHANGED <<present, callVars>>

\* The card has written what it had accepted.
Settle == unsafe' = {} /\ UNCHANGED <<medium, present, callVars>>

Fetch ==
    /\ Unfinished("read") /\ ~broken
    /\ buff' = Append(buff, medium[NextSector])
    /\ moved' = moved + 1
    /\ UNCHANGED <<medium, unsafe, present, call, broken, torn, reply>>

\* The block that was on its way when the card went; none comes after it.
Garble ==
    /\ Unfinished("read") /\ broken /\ ~torn
    /\ \E b \in Block : buff' = Append(buff, b)
    /\ moved' = moved + 1 /\ torn' = TRUE
    /\ UNCHANGED <<medium, unsafe, present, call, broken, reply>>

\* What is synchronised is safe.
Return ==
    /\ call # None
    /\ call' = None /\ moved' = 0 /\ buff' = <<>> /\ broken' = FALSE /\ torn' = FALSE
    /\ unsafe' \in {unsafe, {}}
    /\ \/ reply' = "error"
       \/ /\ reply' = "ok" /\ moved = Len(call.data)
          /\ call.op = "sync" => unsafe' = {}
    /\ UNCHANGED <<medium, present>>

Pull ==
    /\ present /\ present' = FALSE
    /\ medium' \in [Sectors -> Block]
    /\ \A s \in Sectors \ unsafe : medium'[s] = medium[s]
    /\ unsafe' = {} /\ broken' = (call # None)
    /\ UNCHANGED <<call, moved, buff, torn, reply>>

\* The same card, or another one.
Put ==
    /\ ~present /\ present' = TRUE
    /\ medium' \in [Sectors -> Block]
    /\ broken' = (call # None)
    /\ UNCHANGED <<unsafe, call, moved, buff, torn, reply>>

Next == Call \/ Store \/ Spoil \/ Settle \/ Fetch \/ Garble \/ Return \/ Pull \/ Put

Spec == Init /\ [][Next]_vars
=============================================================================
