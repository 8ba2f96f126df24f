------------------------------ MODULE VcomProof ------------------------------
(***************************************************************************)
(* Each direction of the virtual COM port, endpoint and FIFO together, is  *)
(* a channel of bytes, for every size of FIFO and packet and every stream: *)
(* VcomReceive alone, then both directions of Vcom on one processor.  The  *)
(* FIFOs are of the same type and size, and all proofs rest on the same    *)
(* arithmetic.                                                             *)
(***************************************************************************)
EXTENDS Vcom, SequenceTheorems, TLAPS

Assumptions ==
    /\ FifoSize \in Nat \ {0, 1} /\ MaxPacket \in Nat \ {0}
    /\ RxBytes \in Nat /\ TxBytes \in Nat /\ RaiseOnClear \in BOOLEAN

LEMMA AssumptionsHold == Assumptions
BY FifoSizeAssumption, MaxPacketAssumption, RxBytesAssumption, TxBytesAssumption, RaiseAssumption DEF Assumptions

\* How many slots a is ahead of b.
Dist(a, b) == IF a >= b THEN a - b ELSE a + FifoSize - b

Used == Dist(head, tail)

\* How many bytes have left the endpoint.
Fill == Len(got) + Used

\* The bytes returned, then those in the slots from tail on, are the stream.
QueueInv ==
    /\ \A i \in 1 .. Len(got) : got[i] = i
    /\ \A s \in Slots : Dist(s, tail) < Used => buf[s] = Len(got) + 1 + Dist(s, tail)
    /\ pc \in {"read", "advance"} => Used > 0
    /\ pc = "advance" => c = Len(got) + 1

\* The packets in the endpoint go on from there to the last byte sent.
PacketInv ==
    /\ \A k \in 1 .. Len(ep) : Len(ep[k]) \in 1 .. MaxPacket
    /\ Len(ep) >= 1 => \A i \in 1 .. Len(ep[1]) : ep[1][i] = Fill + i
    /\ Len(ep) = 2  => \A i \in 1 .. Len(ep[2]) : ep[2][i] = Fill + Len(ep[1]) + i
    /\ Len(ep) = 0  => sent = Fill
    /\ Len(ep) = 1  => sent = Fill + Len(ep[1])
    /\ Len(ep) = 2  => sent = Fill + Len(ep[1]) + Len(ep[2])

IInv == TypeOK /\ QueueInv /\ PacketInv /\ NoOverflow

-----------------------------------------------------------------------------
(* Index arithmetic.                                                       *)

\* The remainders of the code are distances between slots.
LEMMA DistIsMod ==
    ASSUME NEW a \in Slots, NEW b \in Slots
    PROVE  /\ Dist(a, b) \in 0 .. FifoSize - 1
           /\ (a + FifoSize - b) % FifoSize = Dist(a, b)
           /\ FifoAvail(a, b, FifoSize) = Dist(a, b)
<1>1. a \in 0 .. FifoSize - 1 /\ b \in 0 .. FifoSize - 1 /\ FifoSize \in Nat
  BY AssumptionsHold DEF Assumptions, Slots
<1>2. Dist(a, b) \in 0 .. FifoSize - 1
  BY <1>1 DEF Dist
<1>3. (a + FifoSize - b) % FifoSize = Dist(a, b)
  <2>1. CASE a >= b
    <3>1. a + FifoSize - b = (a - b) + 1 * FifoSize /\ a - b \in 0 .. FifoSize - 1
      BY <1>1, <2>1
    <3> QED
      BY <1>1, <2>1, <3>1 DEF Dist
  <2>2. CASE a < b
    BY <1>1, <2>2 DEF Dist
  <2> QED
    BY <1>1, <2>1, <2>2
<1>4. (FifoSize + a) - b = a + FifoSize - b
  BY <1>1
<1> QED
  BY <1>2, <1>3, <1>4 DEF FifoAvail

LEMMA NextSlot ==
    ASSUME NEW a \in Slots, NEW n \in 0 .. FifoSize
    PROVE  /\ (a + n) % FifoSize = IF a + n < FifoSize THEN a + n ELSE a + n - FifoSize
           /\ (a + n) % FifoSize \in Slots
<1>1. a \in 0 .. FifoSize - 1 /\ n \in 0 .. FifoSize /\ FifoSize \in Nat
  BY AssumptionsHold DEF Assumptions, Slots
<1>2. CASE a + n < FifoSize
  BY <1>1, <1>2 DEF Slots
<1>3. CASE a + n >= FifoSize
  <2>1. a + n = (a + n - FifoSize) + 1 * FifoSize /\ a + n - FifoSize \in 0 .. FifoSize - 1
    BY <1>1, <1>3
  <2> QED
    BY <1>1, <1>3, <2>1 DEF Slots
<1> QED
  BY <1>1, <1>2, <1>3

\* Sizes and lengths are numbers.
LEMMA Numbers ==
    ASSUME TypeOK
    PROVE  /\ FifoSize \in Nat /\ FifoSize >= 2 /\ MaxPacket \in Nat /\ RxBytes \in Nat
           /\ head \in 0 .. FifoSize - 1 /\ tail \in 0 .. FifoSize - 1
           /\ Len(got) \in Nat /\ Used \in 0 .. FifoSize - 1 /\ Fill \in Nat
           /\ Len(ep) \in Nat /\ sent \in Nat
<1>1. Len(got) \in Nat /\ Len(ep) \in Nat /\ Used \in 0 .. FifoSize - 1
  BY DistIsMod DEF TypeOK, Used
<1> QED
  BY <1>1, AssumptionsHold DEF Assumptions, TypeOK, Slots, Fill, Bytes

LEMMA FewPackets ==
    \A n \in Nat : (n <= 2 => n \in 0 .. 2) /\ (n < 2 => n = 0 \/ n = 1)
OBVIOUS

LEMMA InitInv == Init => IInv
<1> SUFFICES ASSUME Init PROVE IInv
  OBVIOUS
<1>1. 0 \in Slots /\ 0 \in Bytes
  BY AssumptionsHold DEF Assumptions, Slots, Bytes
<1>2. buf \in [Slots -> Bytes]
  BY <1>1 DEF Init
<1>3. /\ ep = <<>> /\ got = <<>> /\ ep \in Seq(Seq(Bytes)) /\ got \in Seq(Bytes)
      /\ Len(ep) = 0 /\ Len(got) = 0
  BY DEF Init
<1>4. Used = 0
  BY DEF Init, Used, Dist
<1>5. TypeOK
  BY <1>1, <1>2, <1>3 DEF Init, TypeOK, PCs
<1>6. Fill = 0
  BY <1>3, <1>4 DEF Fill
<1>7. \A s \in Slots : ~(Dist(s, tail) < Used)
  BY <1>4, <1>5, DistIsMod, Numbers DEF TypeOK
<1> QED
  BY <1>3, <1>4, <1>5, <1>6, <1>7 DEF Init, IInv, QueueInv, PacketInv, NoOverflow

-----------------------------------------------------------------------------
(* The main program.                                                       *)

LEMMA GetAdvanceInv == IInv /\ GetAdvance => IInv'
<1> SUFFICES ASSUME IInv, GetAdvance PROVE IInv'
  OBVIOUS
<1>1. TypeOK /\ QueueInv /\ PacketInv /\ NoOverflow
  BY DEF IInv
<1>2. /\ got' = Append(got, c) /\ c = Len(got) + 1 /\ c \in Bytes /\ Used > 0
      /\ got \in Seq(Bytes)
  BY <1>1 DEF GetAdvance, QueueInv, TypeOK
<1>3. /\ got' \in Seq(Bytes) /\ Len(got') = Len(got) + 1
      /\ \A i \in 1 .. Len(got) : got'[i] = got[i]
      /\ got'[Len(got) + 1] = c
  BY <1>2
<1>4. tail' = (IF tail + 1 < FifoSize THEN tail + 1 ELSE tail + 1 - FifoSize) /\ tail' \in Slots
  <2>1. tail' = (tail + 1) % FifoSize /\ tail \in Slots /\ 1 \in 0 .. FifoSize
    BY <1>1, Numbers DEF GetAdvance, FifoNext, TypeOK
  <2> QED
    BY <2>1, NextSlot
<1>5. UNCHANGED <<c, head, buf, isr, outInt, ep, sent, asserted>> /\ pc' = "idle"
  BY DEF GetAdvance, usbVars
<1>0. FifoSize \in Nat /\ head \in 0 .. FifoSize - 1 /\ tail \in 0 .. FifoSize - 1
  BY <1>1, Numbers
<1>6. Used' = Used - 1
  <2>1. head' = head /\ head # tail
    BY <1>0, <1>2, <1>5 DEF Used, Dist
  <2>2. Dist(head, tail') = Dist(head, tail) - 1
    BY <1>0, <1>4, <2>1 DEF Dist
  <2> QED
    BY <2>1, <2>2 DEF Used, Dist
<1>7. Fill' = Fill
  BY <1>1, <1>3, <1>6, Numbers DEF Fill
<1>8. TypeOK'
  BY <1>1, <1>3, <1>4, <1>5 DEF TypeOK, PCs
<1>9. QueueInv'
  <2>1. \A i \in 1 .. Len(got') : got'[i] = i
    BY <1>1, <1>2, <1>3, Numbers DEF QueueInv
  <2>2. ASSUME NEW s \in Slots, Dist(s, tail') < Used'
        PROVE  buf'[s] = Len(got') + 1 + Dist(s, tail')
    <3>1. s \in 0 .. FifoSize - 1
      BY DEF Slots
    <3>2. Dist(s, tail') < Used - 1 /\ Used \in 0 .. FifoSize - 1
      BY <1>1, <1>6, <2>2, Numbers
    <3>3. Dist(s, tail) = Dist(s, tail') + 1
      BY <1>0, <1>4, <3>1, <3>2 DEF Dist
    <3>4. Dist(s, tail') \in Nat
      BY <1>0, <1>4, <3>1 DEF Dist, Slots
    <3>5. buf[s] = Len(got) + 1 + Dist(s, tail)
      BY <1>1, <3>2, <3>3, <3>4 DEF QueueInv
    <3> QED
      BY <1>1, <1>3, <1>5, <3>3, <3>4, <3>5, Numbers
  <2> QED
    BY <1>5, <2>1, <2>2 DEF QueueInv
<1>10. PacketInv'
  BY <1>1, <1>5, <1>7 DEF PacketInv
<1> QED
  BY <1>1, <1>5, <1>8, <1>9, <1>10 DEF IInv, NoOverflow

LEMMA GetReadInv == IInv /\ GetRead => IInv'
<1> SUFFICES ASSUME IInv, GetRead PROVE IInv'
  OBVIOUS
<1>1. TypeOK /\ QueueInv /\ PacketInv /\ NoOverflow
  BY DEF IInv
<1>2. UNCHANGED <<got, head, tail, buf, isr, outInt, ep, sent, asserted>>
      /\ c' = buf[tail] /\ pc = "read" /\ pc' = "advance"
  BY DEF GetRead, fifoVars, usbVars
<1>3. c' = Len(got) + 1
  <2>1. Dist(tail, tail) = 0 /\ Used > 0 /\ tail \in Slots
    BY <1>1, <1>2, Numbers DEF Dist, QueueInv, TypeOK
  <2> QED
    BY <1>1, <1>2, <2>1, Numbers DEF QueueInv
<1>4. Used' = Used /\ Fill' = Fill
  BY <1>2 DEF Used, Dist, Fill
<1>5. TypeOK'
  BY <1>1, <1>2 DEF TypeOK, PCs
<1> QED
  BY <1>1, <1>2, <1>3, <1>4, <1>5 DEF IInv, QueueInv, PacketInv, NoOverflow, Dist

-----------------------------------------------------------------------------
(* BulkOut.                                                                *)

\* When a whole packet fits, the one at the head is put whole.
LEMMA PutWhole ==
    ASSUME IInv, HasRoom, ep # <<>>, PutPacket(Head(ep))
    PROVE  /\ Len(ep[1]) \in 1 .. MaxPacket /\ Len(ep[1]) + Used <= FifoSize - 1
           /\ ep[1] \in Seq(Bytes)
           /\ head' = IF head + Len(ep[1]) < FifoSize THEN head + Len(ep[1])
                                                     ELSE head + Len(ep[1]) - FifoSize
           /\ head' \in Slots /\ asserted' = asserted
           /\ buf' = [s \in Slots |-> IF Dist(s, head) < Len(ep[1])
                                        THEN ep[1][1 + Dist(s, head)] ELSE buf[s]]
<1> DEFINE p == ep[1]
<1>1. TypeOK /\ PacketInv
  BY DEF IInv
<1>2. ep \in Seq(Seq(Bytes)) /\ Len(ep) \in Nat /\ Len(ep) >= 1 /\ Head(ep) = p
  <2>1. ep \in Seq(Seq(Bytes))
    BY <1>1 DEF TypeOK
  <2> QED
    BY <2>1
<1>3. p \in Seq(Bytes) /\ Len(p) \in 1 .. MaxPacket
  BY <1>1, <1>2 DEF PacketInv
<1>4. FifoFree(head, tail, FifoSize) = (FifoSize - 1) - Used
  BY <1>1, DistIsMod DEF FifoFree, Used, TypeOK
<1>5. MaxPacket + Used <= FifoSize - 1 /\ MaxPacket \in Nat /\ Used \in Nat /\ FifoSize \in Nat
  BY <1>1, <1>4, Numbers DEF HasRoom
<1> HIDE DEF p
<1>6. Taken(p) = Len(p)
  BY <1>3, <1>4, <1>5 DEF Taken
<1>7. head' = (head + Len(p)) % FifoSize /\ head \in Slots /\ Len(p) \in 0 .. FifoSize
  BY <1>1, <1>2, <1>3, <1>5, <1>6 DEF PutPacket, TypeOK
<1>8. /\ head' = IF head + Len(p) < FifoSize THEN head + Len(p) ELSE head + Len(p) - FifoSize
      /\ head' \in Slots
  BY <1>7, NextSlot
<1>9. asserted' = asserted
  BY <1>1, <1>2, <1>3, <1>6 DEF PutPacket, TypeOK
<1>10. buf' = [s \in Slots |-> IF Dist(s, head) < Len(p) THEN p[1 + Dist(s, head)] ELSE buf[s]]
  <2>1. \A s \in Slots : (s + FifoSize - head) % FifoSize = Dist(s, head)
    BY <1>7, DistIsMod
  <2> QED
    BY <1>2, <1>6, <2>1 DEF PutPacket
<1> QED
  BY <1>3, <1>5, <1>8, <1>9, <1>10 DEF p

LEMMA BulkOutInv == IInv /\ BulkOut => IInv'
<1> SUFFICES ASSUME IInv, BulkOut PROVE IInv'
  OBVIOUS
<1>1. TypeOK /\ QueueInv /\ PacketInv /\ NoOverflow
  BY DEF IInv
<1>2. UNCHANGED <<pc, c, got, tail, sent>> /\ isr' = FALSE
  BY DEF BulkOut, mainVars
<1>3. CASE UNCHANGED <<head, buf, asserted, ep, outInt>>
  BY <1>1, <1>2, <1>3 DEF IInv, TypeOK, QueueInv, PacketInv, NoOverflow, Fill, Used, Dist
<1>4. CASE /\ HasRoom /\ ep # <<>> /\ PutPacket(Head(ep)) /\ ep' = Tail(ep)
           /\ outInt' = (outInt \/ (RaiseOnClear /\ ep' # <<>>))
  <2> DEFINE p == ep[1]
  <2>1. /\ p \in Seq(Bytes) /\ Len(p) \in Nat /\ Len(p) >= 1 /\ Len(p) + Used <= FifoSize - 1
        /\ head' = IF head + Len(p) < FifoSize THEN head + Len(p) ELSE head + Len(p) - FifoSize
        /\ head' \in Slots /\ asserted' = asserted
        /\ buf' = [s \in Slots |-> IF Dist(s, head) < Len(p) THEN p[1 + Dist(s, head)] ELSE buf[s]]
    BY <1>4, PutWhole, Numbers, <1>1
  <2>2. /\ ep' \in Seq(Seq(Bytes)) /\ Len(ep') = Len(ep) - 1 /\ Len(ep) \in 1 .. 2
        /\ \A k \in 1 .. Len(ep') : ep'[k] = ep[k + 1]
    <3>1. ep \in Seq(Seq(Bytes)) /\ ep # <<>> /\ ep' = Tail(ep) /\ Len(ep) <= 2
      BY <1>1, <1>4 DEF TypeOK
    <3>2. Len(ep) \in Nat /\ Len(ep) >= 1
      BY <3>1
    <3>3. Tail(ep) \in Seq(Seq(Bytes)) /\ Len(Tail(ep)) = Len(ep) - 1
      BY <3>1
    <3>4. \A k \in 1 .. Len(Tail(ep)) : Tail(ep)[k] = ep[k + 1]
      BY <3>1, HeadTailProperties
    <3> QED
      BY <3>1, <3>2, <3>3, <3>4
  <2>3. \A i \in 1 .. Len(p) : p[i] = Fill + i
    BY <1>1, <2>2 DEF PacketInv
  <2> HIDE DEF p
  <2>4. /\ FifoSize \in Nat /\ head \in 0 .. FifoSize - 1 /\ tail \in 0 .. FifoSize - 1
        /\ Len(got) \in Nat /\ Used \in Nat /\ Fill = Len(got) + Used
    BY <1>1, Numbers DEF Fill
  <2>5. Used' = Used + Len(p)
    <3>1. PICK n \in Nat : n = Len(p)
      BY <2>1
    <3>2. Dist(head', tail) = Dist(head, tail) + n
      BY <2>1, <2>4, <3>1 DEF Used, Dist
    <3> QED
      BY <1>2, <3>1, <3>2 DEF Used, Dist
  <2>6. Fill' = Fill + Len(p)
    BY <1>2, <2>1, <2>4, <2>5 DEF Fill
  <2>7. TypeOK'
    <3>1. \A s \in Slots : Dist(s, head) \in Nat
      BY <1>1, DistIsMod DEF TypeOK
    <3>2. \A i \in 1 .. Len(p) : p[i] \in Bytes
      BY <2>1
    <3>3. \A s \in Slots : buf'[s] \in Bytes
      BY <1>1, <2>1, <3>1, <3>2 DEF TypeOK
    <3>4. buf' \in [Slots -> Bytes]
      BY <2>1, <3>3
    <3>5. outInt' \in BOOLEAN
      BY <1>1, <1>4, AssumptionsHold DEF TypeOK, Assumptions
    <3>6. Len(ep') <= 2 /\ asserted' \in BOOLEAN
      BY <1>1, <2>1, <2>2 DEF TypeOK
    <3> QED
      BY <1>1, <1>2, <2>1, <2>2, <3>4, <3>5, <3>6 DEF TypeOK
  <2>8. ASSUME NEW s \in Slots, Dist(s, tail) < Used'
        PROVE  buf'[s] = Len(got) + 1 + Dist(s, tail)
    <3>1. s \in 0 .. FifoSize - 1
      BY DEF Slots
    <3>2. CASE Dist(s, tail) < Used
      <4>1. ~(Dist(s, head) < Len(p))
        BY <2>1, <2>4, <3>1, <3>2 DEF Used, Dist
      <4>2. buf'[s] = buf[s]
        BY <2>1, <4>1
      <4> QED
        BY <1>1, <3>2, <4>2 DEF QueueInv
    <3>3. CASE Dist(s, tail) >= Used
      <4>1. Dist(s, head) = Dist(s, tail) - Used /\ Dist(s, head) \in Nat
        BY <2>1, <2>4, <3>1, <3>3 DEF Used, Dist
      <4>2. Dist(s, head) < Len(p) /\ Dist(s, tail) \in Nat
        <5>1. Dist(s, tail) \in Nat
          BY <2>4, <3>1 DEF Dist
        <5>2. Dist(s, tail) < Used + Len(p)
          BY <2>5, <2>8
        <5> QED
          BY <2>1, <2>4, <4>1, <5>1, <5>2
      <4>3. buf'[s] = p[1 + Dist(s, head)] /\ 1 + Dist(s, head) \in 1 .. Len(p)
        BY <2>1, <4>1, <4>2
      <4>4. p[1 + Dist(s, head)] = Fill + 1 + Dist(s, head)
        BY <2>3, <2>4, <4>1, <4>3
      <4> QED
        BY <2>4, <4>1, <4>2, <4>3, <4>4
    <3> QED
      BY <3>1, <3>2, <3>3, <2>4 DEF Dist
  <2>9. QueueInv'
    <3>1. \A s \in Slots : Dist(s, tail)' = Dist(s, tail)
      BY <1>2 DEF Dist
    <3> QED
      BY <1>1, <1>2, <2>1, <2>4, <2>5, <2>8, <3>1 DEF QueueInv
  <2>10. PacketInv'
    <3>1. CASE Len(ep) = 1
      BY <1>1, <1>2, <2>2, <2>6, <3>1 DEF PacketInv, p
    <3>2. CASE Len(ep) = 2
      <4>1. Len(ep') = 1 /\ ep'[1] = ep[2] /\ Len(ep[2]) \in 1 .. MaxPacket
        BY <1>1, <2>2, <3>2 DEF PacketInv
      <4>2. /\ \A i \in 1 .. Len(ep[2]) : ep[2][i] = Fill + Len(p) + i
            /\ sent = Fill + Len(p) + Len(ep[2])
        BY <1>1, <3>2 DEF PacketInv, p
      <4> QED
        BY <1>2, <2>6, <4>1, <4>2 DEF PacketInv
    <3> QED
      BY <2>2, <3>1, <3>2
  <2> QED
    BY <1>1, <2>1, <2>7, <2>9, <2>10 DEF IInv, NoOverflow
<1> QED
  BY <1>3, <1>4 DEF BulkOut

-----------------------------------------------------------------------------
(* The other steps.                                                        *)

LEMMA HostSendsInv == IInv /\ HostSends => IInv'
<1> SUFFICES ASSUME IInv, HostSends PROVE IInv'
  OBVIOUS
<1>1. TypeOK /\ QueueInv /\ PacketInv /\ NoOverflow
  BY DEF IInv
<1>2. PICK n \in 1 .. MaxPacket :
        /\ sent + n <= RxBytes /\ sent' = sent + n
        /\ ep' = Append(ep, [i \in 1 .. n |-> sent + i])
  BY DEF HostSends
<1>3. UNCHANGED <<pc, c, got, head, tail, buf, isr, asserted>> /\ outInt' = TRUE
  BY DEF HostSends, mainVars, fifoVars
<1> DEFINE p == [i \in 1 .. n |-> sent + i]
<1>4. n \in Nat /\ sent \in Nat /\ RxBytes \in Nat /\ MaxPacket \in Nat /\ Fill \in Nat
  BY <1>1, Numbers
<1>5. p \in Seq(Bytes) /\ Len(p) = n /\ \A i \in 1 .. n : p[i] = sent + i
  <2>1. \A i \in 1 .. n : sent + i \in Bytes
    BY <1>2, <1>4 DEF Bytes
  <2> QED
    BY <1>4, <2>1
<1>6. ep \in Seq(Seq(Bytes)) /\ Len(ep) \in Nat /\ Len(ep) < 2 /\ ep' = Append(ep, p)
  BY <1>1, <1>2, Numbers DEF HostSends, TypeOK
<1> HIDE DEF p
<1>7. /\ ep' \in Seq(Seq(Bytes)) /\ Len(ep') = Len(ep) + 1
      /\ \A k \in 1 .. Len(ep) : ep'[k] = ep[k]
      /\ ep'[Len(ep) + 1] = p
  BY <1>5, <1>6
<1>8. sent' \in Bytes
  BY <1>2, <1>4 DEF Bytes
<1>9. TypeOK'
  BY <1>1, <1>3, <1>6, <1>7, <1>8 DEF TypeOK
<1>10. QueueInv' /\ Fill' = Fill
  BY <1>1, <1>3 DEF QueueInv, Used, Dist, Fill
<1>11. PacketInv'
  <2>1. CASE Len(ep) = 0
    BY <1>1, <1>2, <1>4, <1>5, <1>7, <1>10, <2>1 DEF PacketInv
  <2>2. CASE Len(ep) = 1
    <3>1. ep'[1] = ep[1] /\ ep'[2] = p /\ Len(ep') = 2 /\ Len(ep[1]) \in 1 .. MaxPacket
      BY <1>1, <1>7, <2>2 DEF PacketInv
    <3>2. sent = Fill + Len(ep[1]) /\ \A i \in 1 .. Len(ep[1]) : ep[1][i] = Fill + i
      BY <1>1, <2>2 DEF PacketInv
    <3>3. \A k \in 1 .. Len(ep') : Len(ep'[k]) \in 1 .. MaxPacket
      <4>1. \A k \in 1 .. Len(ep') : k = 1 \/ k = 2
        BY <3>1
      <4> QED
        BY <1>5, <3>1, <4>1
    <3>4. \A i \in 1 .. Len(ep'[1]) : ep'[1][i] = Fill' + i
      BY <1>10, <3>1, <3>2
    <3>5. \A i \in 1 .. Len(ep'[2]) : ep'[2][i] = Fill' + Len(ep'[1]) + i
      BY <1>5, <1>10, <3>1, <3>2
    <3>6. sent' = Fill' + Len(ep'[1]) + Len(ep'[2])
      BY <1>2, <1>5, <1>10, <3>1, <3>2
    <3> QED
      BY <3>1, <3>3, <3>4, <3>5, <3>6 DEF PacketInv
  <2>3. Len(ep) = 0 \/ Len(ep) = 1
    BY <1>6, FewPackets, Zenon
  <2> QED
    BY <2>1, <2>2, <2>3
<1> QED
  BY <1>1, <1>3, <1>9, <1>10, <1>11 DEF IInv, NoOverflow

LEMMA StepInv == IInv /\ [Next]_vars => IInv'
<1> SUFFICES ASSUME IInv, [Next]_vars PROVE IInv'
  OBVIOUS
<1> USE DEF IInv, TypeOK, QueueInv, PacketInv, NoOverflow, Fill, Used, Dist, PCs
<1>1. CASE GetChar
  BY <1>1 DEF GetChar, fifoVars, usbVars
<1>2. CASE GetGivesUp
  BY <1>2 DEF GetGivesUp, fifoVars, usbVars
<1>3. CASE GetCheck
  <2>1. head # tail /\ head \in 0 .. FifoSize - 1 /\ tail \in 0 .. FifoSize - 1 /\ FifoSize \in Nat
    BY <1>3, AssumptionsHold DEF GetCheck, FifoEmpty, Assumptions, Slots
  <2>2. Used > 0
    BY <2>1
  <2> QED
    BY <1>3, <2>2 DEF GetCheck, fifoVars, usbVars
<1>4. CASE IsrEnter
  BY <1>4 DEF IsrEnter, mainVars, fifoVars
<1>5. CASE UNCHANGED vars
  BY <1>5 DEF vars, mainVars, fifoVars, usbVars
<1> USE DEF Next
<1> QED
  BY <1>1, <1>2, <1>3, <1>4, <1>5, GetReadInv, GetAdvanceInv, BulkOutInv, HostSendsInv
  DEF Driver, Isr

LEMMA IsInvariant == Spec => []IInv
<1> QED
  BY InitInv, StepInv, PTL DEF Spec

-----------------------------------------------------------------------------
\* Types and index ranges, for every size and stream.
THEOREM TypeCorrect == Spec => []TypeOK
<1>1. IInv => TypeOK
  BY DEF IInv
<1> QED
  BY <1>1, IsInvariant, PTL

\* No byte of an acknowledged packet meets a full FIFO.
THEOREM NeverOverflows == Spec => []NoOverflow
<1>1. IInv => NoOverflow
  BY DEF IInv
<1> QED
  BY <1>1, IsInvariant, PTL

LEMMA ChannelStep == IInv /\ [Next]_vars => [Channel!Next]_(Channel!vars)
<1> SUFFICES ASSUME IInv, [Next]_vars PROVE [Channel!Next]_(Channel!vars)
  OBVIOUS
<1>1. TypeOK /\ QueueInv /\ PacketInv
  BY DEF IInv
<1>2. /\ FifoSize \in Nat /\ FifoSize >= 2 /\ MaxPacket \in Nat /\ MaxPacket >= 1
      /\ Len(got) \in Nat /\ Used \in 0 .. FifoSize - 1 /\ Fill = Len(got) + Used
      /\ sent \in Nat /\ sent >= Fill
  <2>1. Len(ep) \in 0 .. 2
    <3>1. Len(ep) \in Nat
      BY <1>1, Numbers
    <3>2. Len(ep) <= 2
      BY <1>1 DEF TypeOK
    <3> QED
      BY <3>1, <3>2, FewPackets, Zenon
  <2>2. \A k \in 1 .. Len(ep) : Len(ep[k]) \in Nat
    BY <1>1 DEF PacketInv
  <2>3. sent >= Fill
    BY <1>1, <2>1, <2>2, Numbers DEF PacketInv
  <2> QED
    BY <1>1, <2>3, Numbers, AssumptionsHold DEF Fill, Assumptions
<1>3. CASE HostSends
  <2>1. PICK n \in 1 .. MaxPacket : sent' = sent + n
    BY <1>3 DEF HostSends
  <2>2. Len(ep) < 2 /\ Len(ep) \in Nat /\ got' = got
    BY <1>1, <1>3, Numbers DEF HostSends, mainVars
  <2>3. sent <= Fill + MaxPacket
    <3>1. CASE Len(ep) = 0
      BY <1>1, <1>2, <3>1 DEF PacketInv
    <3>2. CASE Len(ep) = 1
      <4>1. sent = Fill + Len(ep[1]) /\ Len(ep[1]) \in 1 .. MaxPacket
        BY <1>1, <3>2 DEF PacketInv
      <4> QED
        BY <1>2, <4>1
    <3>3. Len(ep) = 0 \/ Len(ep) = 1
      BY <2>2, FewPackets, Zenon
    <3> QED
      BY <3>1, <3>2, <3>3
  <2>4. n \in 1 .. ((FifoSize - 1) + 2 * MaxPacket)
    BY <1>2
  <2>5. sent' <= Len(got) + ((FifoSize - 1) + 2 * MaxPacket)
    BY <1>2, <2>1, <2>3
  <2> QED
    BY <2>1, <2>2, <2>4, <2>5 DEF Channel!Next, Channel!Accept
<1>4. CASE GetAdvance
  <2>1. got' = Append(got, Len(got) + 1) /\ Used > 0 /\ got \in Seq(Bytes) /\ sent' = sent
    BY <1>1, <1>4 DEF GetAdvance, QueueInv, TypeOK, usbVars
  <2>2. got' = got \o [i \in 1 .. 1 |-> Len(got) + i]
    <3>1. \A i \in 1 .. 1 : Len(got) + i = Len(got) + 1
      OBVIOUS
    <3>2. <<Len(got) + 1>> = [i \in 1 .. 1 |-> Len(got) + 1]
      OBVIOUS
    <3>3. got' = got \o <<Len(got) + 1>>
      BY <2>1, AppendIsConcat
    <3> QED
      BY <3>1, <3>2, <3>3
  <2>3. 1 \in 1 .. ((FifoSize - 1) + 2 * MaxPacket) /\ Len(got) + 1 <= sent
    BY <1>2, <2>1
  <2> QED
    BY <2>1, <2>2, <2>3 DEF Channel!Next, Channel!Deliver
<1>5. CASE GetChar \/ GetGivesUp \/ GetCheck \/ GetRead \/ Isr \/ UNCHANGED vars
  BY <1>5 DEF Channel!vars, GetChar, GetGivesUp, GetCheck, GetRead, Isr, IsrEnter,
     BulkOut, vars, mainVars, usbVars
<1> QED
  BY <1>3, <1>4, <1>5 DEF Next, Driver

\* Endpoint and FIFO implement a byte channel: what was acknowledged comes out
\* once, in order, and no more is under way than both hold.
THEOREM ReceiverIsChannel == Spec => IsByteChannel
<1>1. Init => Channel!Init
  BY DEF Init, Channel!Init
<1> QED
  BY <1>1, ChannelStep, IsInvariant, PTL DEF Spec, IsByteChannel

-----------------------------------------------------------------------------
(* From the board to the host.                                             *)

\* The byte in hand is one ahead of the
\* bytes in the FIFO inside fifo_put.
OutTypeInv ==
    /\ Out!TypeOK
    /\ tc = IF tpc = "idle" THEN accepted ELSE accepted + 1

\* The bit of the bulk IN endpoint means that a buffer was free when it was set.
\* Only BulkIn fills one, and by then the bit is cleared; if the host has set it
\* again, it has emptied the endpoint: one packet was in it at most.
RoomInv ==
    /\ Len(tep) <= 2
    /\ tisr = "slow" => inInt
    /\ tisr = "frame" /\ slow => inInt
    /\ inInt => Len(tep) < 2
    /\ tisr = "bulkin" => Len(tep) < 2
    /\ tisr = "bulkin" /\ inInt => Len(tep) = 0

\* The bytes that have left the FIFO for the endpoint.
Moved == accepted - Dist(thead, ttail)

\* The slots from ttail on hold the bytes after those, and the one in thead the
\* byte that fifo_put is about to publish, for which there is room.
StreamInv ==
    /\ Dist(thead, ttail) <= accepted
    /\ \A s \in Slots : Dist(s, ttail) < Dist(thead, ttail) => tbuf[s] = Moved + 1 + Dist(s, ttail)
    /\ tpc \in {"store", "publish"} => Dist(thead, ttail) < FifoSize - 1
    /\ tpc = "publish" => tbuf[thead] = accepted + 1

\* The packets in the endpoint go on from what the host has read.
OutPacketInv ==
    /\ \A k \in 1 .. Len(tep) : Len(tep[k]) \in 1 .. MaxPacket
    /\ Len(tep) >= 1 => \A i \in 1 .. Len(tep[1]) : tep[1][i] = Len(host) + i
    /\ Len(tep) = 2  => \A i \in 1 .. Len(tep[2]) : tep[2][i] = Len(host) + Len(tep[1]) + i
    /\ Len(tep) = 0  => Moved = Len(host)
    /\ Len(tep) = 1  => Moved = Len(host) + Len(tep[1])
    /\ Len(tep) = 2  => Moved = Len(host) + Len(tep[1]) + Len(tep[2])

OutInv == OutTypeInv /\ RoomInv

LEMMA OutInitInv == Out!Init => OutInv
<1> SUFFICES ASSUME Out!Init PROVE OutInv
  OBVIOUS
<1>1. 0 \in Out!Slots /\ 0 \in Out!Bytes
  BY AssumptionsHold DEF Assumptions, Out!Slots, Out!Bytes
<1>2. tbuf \in [Out!Slots -> Out!Bytes]
  BY <1>1 DEF Out!Init
<1>3. tep = <<>> /\ host = <<>> /\ tep \in Seq(Seq(Out!Bytes)) /\ host \in Seq(Out!Bytes) /\ Len(tep) = 0
  BY DEF Out!Init
<1> QED
  BY <1>1, <1>2, <1>3 DEF Out!Init, OutInv, OutTypeInv, Out!TypeOK, RoomInv, Out!PCs, Out!Isrs

-----------------------------------------------------------------------------
\* What BulkIn sends is a packet of bytes of the stream.
LEMMA AvailType ==
    ASSUME Out!TypeOK
    PROVE  /\ Out!FifoAvail(thead, ttail, FifoSize) \in Nat
           /\ \A k \in Nat : Out!Waiting(k) \in Out!Bytes
           /\ \A k \in Nat : (ttail + k) % FifoSize \in Out!Slots
<1>1. \A x \in Nat : x % FifoSize \in 0 .. FifoSize - 1
  BY AssumptionsHold DEF Assumptions
<1>2. thead \in 0 .. FifoSize - 1 /\ ttail \in 0 .. FifoSize - 1 /\ FifoSize \in Nat
  BY AssumptionsHold DEF Out!TypeOK, Out!Slots, Assumptions
<1>3. (FifoSize + thead) - ttail \in Nat
  BY <1>2
<1>4. Out!FifoAvail(thead, ttail, FifoSize) \in Nat
  BY <1>1, <1>3, <1>2 DEF Out!FifoAvail
<1>5. \A k \in Nat : (ttail + k) % FifoSize \in Out!Slots
  BY <1>1, <1>2 DEF Out!Slots
<1> QED
  BY <1>4, <1>5 DEF Out!Waiting, Out!TypeOK

LEMMA SendPacketTypes ==
    ASSUME Out!TypeOK, Out!SendPacket
    PROVE  /\ ttail' \in Out!Slots
           /\ tep' \in Seq(Seq(Out!Bytes)) /\ Len(tep') = Len(tep) + 1
<1> DEFINE n == Out!Least(MaxPacket, Out!FifoAvail(thead, ttail, FifoSize))
           p == [i \in 1 .. n |-> Out!Waiting(i - 1)]
<1>1. n \in Nat
  BY AvailType, AssumptionsHold DEF Out!Least, Assumptions
<1>2. p \in Seq(Out!Bytes)
  <2>1. \A i \in 1 .. n : Out!Waiting(i - 1) \in Out!Bytes
    BY <1>1, AvailType
  <2> QED
    BY <1>1, <2>1
<1>3. ttail' = (ttail + n) % FifoSize /\ tep' = Append(tep, p)
  BY DEF Out!SendPacket
<1>4. ttail' \in Out!Slots
  BY <1>1, <1>3, AvailType
<1>5. tep \in Seq(Seq(Out!Bytes))
  BY DEF Out!TypeOK
<1> HIDE DEF p, n
<1> QED
  BY <1>2, <1>3, <1>4, <1>5

-----------------------------------------------------------------------------
LEMMA MainInv ==
    OutInv /\ (Out!PutChar \/ Out!PutFull \/ Out!PutGivesUp \/ Out!Driver) => OutInv'
<1> SUFFICES ASSUME OutInv, Out!PutChar \/ Out!PutFull \/ Out!PutGivesUp \/ Out!Driver PROVE OutInv'
  OBVIOUS
<1> USE AssumptionsHold DEF Assumptions, OutInv, OutTypeInv, Out!TypeOK, RoomInv, Out!PCs, Out!Bytes
<1>1. CASE Out!PutChar
  BY <1>1 DEF Out!PutChar, Out!fifoVars, Out!isrVars, Out!usbVars
<1>2. CASE Out!PutFull
  BY <1>2 DEF Out!PutFull, Out!vars, Out!mainVars, Out!fifoVars, Out!isrVars, Out!usbVars
<1>3. CASE Out!PutGivesUp
  BY <1>3 DEF Out!PutGivesUp, Out!fifoVars, Out!isrVars, Out!usbVars
<1>4. CASE Out!PutCheck
  BY <1>4 DEF Out!PutCheck, Out!fifoVars, Out!isrVars, Out!usbVars
<1>5. CASE Out!PutStore
  BY <1>5 DEF Out!PutStore, Out!isrVars, Out!usbVars
<1>6. CASE Out!PutPublish
  <2>1. Out!FifoNext(thead, FifoSize) \in Out!Slots
    BY DEF Out!FifoNext, Out!Slots
  <2> QED
    BY <1>6, <2>1 DEF Out!PutPublish, Out!isrVars, Out!usbVars
<1> QED
  BY <1>1, <1>2, <1>3, <1>4, <1>5, <1>6 DEF Out!Driver

LEMMA IsrInv == OutInv /\ Out!Isr => OutInv'
<1> SUFFICES ASSUME OutInv, Out!Isr PROVE OutInv'
  OBVIOUS
<1>1. CASE Out!IsrEnter
  BY <1>1 DEF Out!IsrEnter, OutInv, OutTypeInv, Out!TypeOK, RoomInv, Out!Isrs, Out!mainVars, Out!fifoVars
<1>2. CASE Out!IsrFrame
  BY <1>2 DEF Out!IsrFrame, Out!FrameHandler, OutInv, OutTypeInv, Out!TypeOK, RoomInv, Out!Isrs, Out!mainVars, Out!fifoVars
<1>3. CASE Out!IsrSlow
  BY <1>3 DEF Out!IsrSlow, OutInv, OutTypeInv, Out!TypeOK, RoomInv, Out!Isrs, Out!mainVars, Out!fifoVars
<1>4. CASE Out!BulkIn
  <2>1. CASE Out!SendPacket /\ UNCHANGED nakOn
    <3>1. ttail' \in Out!Slots /\ tep' \in Seq(Seq(Out!Bytes)) /\ Len(tep') = Len(tep) + 1
      BY <2>1, SendPacketTypes DEF OutInv, OutTypeInv
    <3>2. Len(tep) \in Nat
      BY DEF OutInv, OutTypeInv, Out!TypeOK
    <3> QED
      BY <1>4, <2>1, <3>1, <3>2 DEF Out!BulkIn, OutInv, OutTypeInv, Out!TypeOK, RoomInv, Out!Isrs, Out!mainVars
  <2>2. CASE nakOn' = FALSE /\ UNCHANGED <<ttail, tep>>
    BY <1>4, <2>2 DEF Out!BulkIn, OutInv, OutTypeInv, Out!TypeOK, RoomInv, Out!Isrs, Out!mainVars
  <2> QED
    BY <1>4, <2>1, <2>2 DEF Out!BulkIn
<1> QED
  BY <1>1, <1>2, <1>3, <1>4 DEF Out!Isr

LEMMA HostInv == OutInv /\ Out!Host => OutInv'
<1> SUFFICES ASSUME OutInv, Out!Host PROVE OutInv'
  OBVIOUS
<1>1. CASE Out!Frame
  BY <1>1 DEF Out!Frame, OutInv, OutTypeInv, Out!TypeOK, RoomInv, Out!mainVars, Out!fifoVars, Out!isrVars
<1>2. CASE Out!HostNaks
  BY <1>2 DEF Out!HostNaks, OutInv, OutTypeInv, Out!TypeOK, RoomInv, Out!mainVars, Out!fifoVars, Out!isrVars
<1>3. CASE Out!HostTakes
  <2>1. tep \in Seq(Seq(Out!Bytes)) /\ tep # <<>> /\ host \in Seq(Out!Bytes) /\ Len(tep) <= 2
    BY <1>3 DEF Out!HostTakes, OutInv, OutTypeInv, Out!TypeOK, RoomInv
  <2>2. Head(tep) \in Seq(Out!Bytes)
    BY <2>1
  <2>3. Tail(tep) \in Seq(Seq(Out!Bytes)) /\ Len(Tail(tep)) = Len(tep) - 1 /\ Len(tep) \in Nat
    BY <2>1
  <2>4. host \o Head(tep) \in Seq(Out!Bytes)
    BY <2>1, <2>2
  <2>5. host' \in Seq(Out!Bytes) /\ tep' \in Seq(Seq(Out!Bytes)) /\ Len(tep') = Len(tep) - 1
    BY <1>3, <2>3, <2>4 DEF Out!HostTakes
  <2> QED
    BY <1>3, <2>1, <2>3, <2>5 DEF Out!HostTakes, OutInv, OutTypeInv, Out!TypeOK, RoomInv, Out!mainVars, Out!fifoVars, Out!isrVars
<1> QED
  BY <1>1, <1>2, <1>3 DEF Out!Host

-----------------------------------------------------------------------------
\* Sizes and lengths are numbers.
LEMMA OutNumbers ==
    ASSUME OutInv
    PROVE  /\ FifoSize \in Nat /\ FifoSize >= 2 /\ MaxPacket \in Nat /\ MaxPacket >= 1
           /\ thead \in 0 .. FifoSize - 1 /\ ttail \in 0 .. FifoSize - 1
           /\ thead \in Slots /\ ttail \in Slots /\ Out!Slots = Slots
           /\ accepted \in Nat /\ Len(host) \in Nat /\ Len(tep) \in Nat
           /\ Dist(thead, ttail) \in 0 .. FifoSize - 1
           /\ Out!FifoAvail(thead, ttail, FifoSize) = Dist(thead, ttail)
<1>1. FifoSize \in Nat /\ FifoSize >= 2 /\ MaxPacket \in Nat /\ MaxPacket >= 1
  BY AssumptionsHold DEF Assumptions
<1>2. Out!Slots = Slots /\ thead \in Slots /\ ttail \in Slots
  BY DEF OutInv, OutTypeInv, Out!TypeOK, Out!Slots, Slots
<1>3. Out!FifoAvail(thead, ttail, FifoSize) = FifoAvail(thead, ttail, FifoSize)
  BY DEF Out!FifoAvail, FifoAvail
<1>4. accepted \in Nat /\ Len(host) \in Nat /\ Len(tep) \in Nat
  BY DEF OutInv, OutTypeInv, Out!TypeOK, Out!Bytes
<1> QED
  BY <1>1, <1>2, <1>3, <1>4, DistIsMod DEF Slots

LEMMA StreamInit == Out!Init => StreamInv /\ OutPacketInv
<1> SUFFICES ASSUME Out!Init PROVE StreamInv /\ OutPacketInv
  OBVIOUS
<1>1. Dist(thead, ttail) = 0 /\ accepted = 0 /\ Moved = 0 /\ tpc = "idle"
  BY DEF Out!Init, Dist, Moved
<1>2. \A s \in Slots : ~(Dist(s, ttail) < 0)
  BY AssumptionsHold DEF Assumptions, Out!Init, Dist, Slots
<1>3. tep = <<>> /\ host = <<>> /\ Len(tep) = 0 /\ Len(host) = 0
  BY DEF Out!Init
<1>4. StreamInv
  BY <1>1, <1>2 DEF StreamInv
<1>5. OutPacketInv
  BY <1>1, <1>3 DEF OutPacketInv
<1> QED
  BY <1>4, <1>5

\* fifo_put stores where nothing waits, once it has found room.
LEMMA StorePublish ==
    ASSUME OutInv, StreamInv, OutPacketInv, Out!Driver
    PROVE  StreamInv' /\ OutPacketInv'
<1>0. /\ FifoSize \in Nat /\ FifoSize >= 2 /\ thead \in 0 .. FifoSize - 1
      /\ ttail \in 0 .. FifoSize - 1 /\ Out!Slots = Slots /\ thead \in Slots
      /\ accepted \in Nat /\ Dist(thead, ttail) \in 0 .. FifoSize - 1
  BY OutNumbers
<1>1. UNCHANGED <<tc, ttail, tep, host>>
  BY DEF Out!Driver, Out!PutCheck, Out!PutStore, Out!PutPublish, Out!fifoVars, Out!usbVars
<1>3. (thead + 1) % FifoSize = IF thead + 1 < FifoSize THEN thead + 1 ELSE thead + 1 - FifoSize
  <2>1. 1 \in 0 .. FifoSize
    BY <1>0
  <2> QED
    BY <1>0, <2>1, NextSlot
<1>4. CASE Out!PutCheck
  <2>1. /\ UNCHANGED <<accepted, thead, tbuf>> /\ tpc' = "store"
        /\ (thead + 1) % FifoSize # ttail
    BY <1>4 DEF Out!PutCheck, Out!FifoFull, Out!FifoNext, Out!fifoVars
  <2>2. Dist(thead, ttail) < FifoSize - 1
    BY <1>0, <1>3, <2>1 DEF Dist
  <2> QED
    BY <1>1, <2>1, <2>2 DEF StreamInv, OutPacketInv, Moved, Dist
<1>5. CASE Out!PutStore
  <2>1. /\ UNCHANGED <<accepted, thead>> /\ tpc = "store" /\ tpc' = "publish"
        /\ tbuf' = [tbuf EXCEPT ![thead] = tc] /\ tc = accepted + 1
        /\ tbuf \in [Slots -> Out!Bytes]
    BY <1>5, <1>0 DEF Out!PutStore, OutInv, OutTypeInv, Out!TypeOK
  <2>2. tbuf'[thead] = accepted + 1 /\ \A s \in Slots \ {thead} : tbuf'[s] = tbuf[s]
    BY <1>0, <2>1
  <2>3. \A s \in Slots : Dist(s, ttail) < Dist(thead, ttail) => s # thead
    BY <1>0
  <2> QED
    BY <1>0, <1>1, <2>1, <2>2, <2>3 DEF StreamInv, OutPacketInv, Moved, Dist
<1>6. CASE Out!PutPublish
  <2>1. /\ accepted' = accepted + 1 /\ tpc = "publish" /\ tpc' = "idle" /\ tbuf' = tbuf
        /\ thead' = (thead + 1) % FifoSize
    BY <1>6 DEF Out!PutPublish, Out!FifoNext
  <2>2. Dist(thead, ttail) < FifoSize - 1 /\ tbuf[thead] = accepted + 1
    BY <2>1 DEF StreamInv
  <2>3. Dist(thead', ttail) = Dist(thead, ttail) + 1
    BY <1>0, <1>3, <2>1, <2>2 DEF Dist
  <2>4. Dist(thead, ttail)' = Dist(thead, ttail) + 1 /\ Moved' = Moved
    BY <1>0, <1>1, <2>1, <2>3 DEF Dist, Moved
  <2>5. ASSUME NEW s \in Slots, Dist(s, ttail) < Dist(thead, ttail) + 1
        PROVE  tbuf[s] = Moved + 1 + Dist(s, ttail)
    <3>1. Dist(s, ttail) \in Nat /\ s \in 0 .. FifoSize - 1
      BY <1>0 DEF Dist, Slots
    <3>2. CASE Dist(s, ttail) < Dist(thead, ttail)
      BY <3>2 DEF StreamInv
    <3>3. CASE Dist(s, ttail) = Dist(thead, ttail)
      <4>1. s = thead
        BY <1>0, <3>1, <3>3 DEF Dist
      <4>2. Moved + 1 + Dist(thead, ttail) = accepted + 1
        BY <1>0 DEF Moved
      <4> QED
        BY <2>2, <4>1, <4>2
    <3> QED
      BY <1>0, <2>5, <3>1, <3>2, <3>3
  <2>6. StreamInv'
    <3>1. \A s \in Slots : Dist(s, ttail)' = Dist(s, ttail)
      BY <1>1 DEF Dist
    <3>2. Dist(thead, ttail)' <= accepted'
      BY <1>0, <2>1, <2>4 DEF StreamInv
    <3> QED
      BY <2>1, <2>4, <2>5, <3>1, <3>2 DEF StreamInv
  <2> QED
    BY <1>1, <2>4, <2>6 DEF OutPacketInv
<1> QED
  BY <1>4, <1>5, <1>6 DEF Out!Driver

\* BulkIn takes the oldest bytes of the FIFO, at least one and at most a packet.
LEMMA PacketSent ==
    ASSUME OutInv, StreamInv, Out!SendPacket, Out!FifoAvail(thead, ttail, FifoSize) # 0
    PROVE  \E n \in 1 .. MaxPacket, p \in Seq(Out!Bytes) :
             /\ n <= Dist(thead, ttail) /\ Len(p) = n /\ \A i \in 1 .. n : p[i] = Moved + i
             /\ tep' = Append(tep, p)
             /\ ttail' = IF ttail + n < FifoSize THEN ttail + n ELSE ttail + n - FifoSize
<1>0. /\ FifoSize \in Nat /\ MaxPacket \in Nat /\ MaxPacket >= 1 /\ ttail \in 0 .. FifoSize - 1
      /\ thead \in 0 .. FifoSize - 1 /\ ttail \in Slots /\ accepted \in Nat
      /\ Out!FifoAvail(thead, ttail, FifoSize) = Dist(thead, ttail)
      /\ Dist(thead, ttail) \in 0 .. FifoSize - 1
  BY OutNumbers
<1>1. PICK n \in 1 .. MaxPacket :
        /\ n <= Dist(thead, ttail)
        /\ n = Out!Least(MaxPacket, Out!FifoAvail(thead, ttail, FifoSize))
  BY <1>0 DEF Out!Least
<1> DEFINE p == [i \in 1 .. n |-> Out!Waiting(i - 1)]
<1>2. tep' = Append(tep, p) /\ ttail' = (ttail + n) % FifoSize
  BY <1>1 DEF Out!SendPacket
<1>3. \A i \in 1 .. n : Out!Waiting(i - 1) \in Out!Bytes
  BY AvailType DEF OutInv, OutTypeInv
<1>4. p \in Seq(Out!Bytes) /\ Len(p) = n /\ \A i \in 1 .. n : p[i] = Out!Waiting(i - 1)
  BY <1>3
<1>5. ASSUME NEW i \in 1 .. n
      PROVE  Out!Waiting(i - 1) = Moved + i
  <2>1. i - 1 \in 0 .. FifoSize /\ i - 1 < Dist(thead, ttail)
    BY <1>0, <1>1
  <2> DEFINE s == (ttail + (i - 1)) % FifoSize
  <2>2. /\ s = IF ttail + (i - 1) < FifoSize THEN ttail + (i - 1) ELSE ttail + (i - 1) - FifoSize
        /\ s \in Slots
    BY <1>0, <2>1, NextSlot
  <2>3. Out!Waiting(i - 1) = tbuf[s]
    BY DEF Out!Waiting
  <2> HIDE DEF s
  <2>4. Dist(s, ttail) = i - 1
    BY <1>0, <2>1, <2>2 DEF Dist
  <2>5. tbuf[s] = Moved + 1 + (i - 1)
    BY <2>1, <2>2, <2>4 DEF StreamInv
  <2> QED
    BY <1>0, <2>3, <2>5 DEF Moved
<1>6. ttail' = IF ttail + n < FifoSize THEN ttail + n ELSE ttail + n - FifoSize
  <2>1. n \in 0 .. FifoSize
    BY <1>0, <1>1
  <2> QED
    BY <1>0, <1>2, <2>1, NextSlot
<1> HIDE DEF p
<1> QED
  BY <1>1, <1>2, <1>4, <1>5, <1>6

LEMMA BulkInStream ==
    ASSUME OutInv, StreamInv, OutPacketInv, Out!BulkIn
    PROVE  StreamInv' /\ OutPacketInv'
<1>0. /\ FifoSize \in Nat /\ FifoSize >= 2 /\ thead \in 0 .. FifoSize - 1
      /\ ttail \in 0 .. FifoSize - 1 /\ accepted \in Nat /\ MaxPacket \in Nat
      /\ Len(host) \in Nat /\ Len(tep) \in Nat
      /\ Dist(thead, ttail) \in 0 .. FifoSize - 1
  BY OutNumbers
<1>1. UNCHANGED <<tpc, tc, accepted, thead, tbuf, host>> /\ Len(tep) < 2
  BY DEF Out!BulkIn, Out!mainVars, OutInv, RoomInv
<1>2. CASE UNCHANGED <<ttail, tep>>
  BY <1>1, <1>2 DEF StreamInv, OutPacketInv, Moved, Dist
<1>3. CASE Out!SendPacket /\ Out!FifoAvail(thead, ttail, FifoSize) # 0
  <2>1. PICK n \in 1 .. MaxPacket, p \in Seq(Out!Bytes) :
          /\ n <= Dist(thead, ttail) /\ Len(p) = n /\ \A i \in 1 .. n : p[i] = Moved + i
          /\ tep' = Append(tep, p)
          /\ ttail' = IF ttail + n < FifoSize THEN ttail + n ELSE ttail + n - FifoSize
    BY <1>3, PacketSent
  <2>2. Dist(thead, ttail') = Dist(thead, ttail) - n
    BY <1>0, <2>1 DEF Dist
  <2>3. Dist(thead, ttail)' = Dist(thead, ttail) - n /\ Moved' = Moved + n /\ Moved \in Int
    BY <1>0, <1>1, <2>1, <2>2 DEF Dist, Moved
  <2>4. ASSUME NEW s \in Slots, Dist(s, ttail') < Dist(thead, ttail) - n
        PROVE  tbuf[s] = Moved + n + 1 + Dist(s, ttail')
    <3>1. s \in 0 .. FifoSize - 1
      BY DEF Slots
    <3>2. Dist(s, ttail) = Dist(s, ttail') + n /\ Dist(s, ttail') \in Nat
      BY <1>0, <2>1, <2>4, <3>1 DEF Dist
    <3>3. tbuf[s] = Moved + 1 + Dist(s, ttail)
      BY <1>0, <2>1, <2>4, <3>2 DEF StreamInv
    <3> QED
      BY <2>3, <3>2, <3>3
  <2>5. StreamInv'
    <3>1. \A s \in Slots : Dist(s, ttail)' = Dist(s, ttail')
      BY DEF Dist
    <3>2. Dist(thead, ttail)' <= accepted'
      BY <1>0, <1>1, <2>1, <2>3 DEF StreamInv
    <3>3. tpc \in {"store", "publish"} => Dist(thead, ttail)' < FifoSize - 1
      BY <1>0, <2>1, <2>3 DEF StreamInv
    <3> QED
      BY <1>1, <2>3, <2>4, <3>1, <3>2, <3>3 DEF StreamInv
  <2>6. /\ Len(tep') = Len(tep) + 1 /\ tep'[Len(tep) + 1] = p
        /\ \A k \in 1 .. Len(tep) : tep'[k] = tep[k]
    <3>1. tep \in Seq(Seq(Out!Bytes))
      BY DEF OutInv, OutTypeInv, Out!TypeOK
    <3> QED
      BY <2>1, <3>1
  <2>7. OutPacketInv'
    <3>1. CASE Len(tep) = 0
      <4>1. Moved = Len(host) /\ Len(tep') = 1 /\ tep'[1] = p
        BY <2>6, <3>1 DEF OutPacketInv
      <4>2. \A k \in 1 .. Len(tep') : Len(tep'[k]) \in 1 .. MaxPacket
        <5>1. \A k \in 1 .. Len(tep') : k = 1
          BY <4>1
        <5> QED
          BY <2>1, <4>1, <5>1
      <4>3. /\ \A i \in 1 .. Len(tep'[1]) : tep'[1][i] = Len(host') + i
            /\ Moved' = Len(host') + Len(tep'[1])
        BY <1>1, <2>1, <2>3, <4>1
      <4> QED
        BY <4>1, <4>2, <4>3 DEF OutPacketInv
    <3>2. CASE Len(tep) = 1
      <4>1. /\ Len(tep[1]) \in 1 .. MaxPacket /\ Moved = Len(host) + Len(tep[1])
            /\ \A i \in 1 .. Len(tep[1]) : tep[1][i] = Len(host) + i
        BY <3>2 DEF OutPacketInv
      <4>2. tep'[1] = tep[1] /\ tep'[2] = p /\ Len(tep') = 2
        BY <2>6, <3>2
      <4>3. \A k \in 1 .. Len(tep') : Len(tep'[k]) \in 1 .. MaxPacket
        <5>1. \A k \in 1 .. Len(tep') : k = 1 \/ k = 2
          BY <4>2
        <5> QED
          BY <2>1, <4>1, <4>2, <5>1
      <4>4. \A i \in 1 .. Len(p) : p[i] = Len(host) + Len(tep[1]) + i
        BY <2>1, <4>1
      <4>5. Moved' = Len(host) + Len(tep[1]) + Len(p)
        BY <2>1, <2>3, <4>1
      <4> QED
        BY <1>1, <4>1, <4>2, <4>3, <4>4, <4>5 DEF OutPacketInv
    <3>3. Len(tep) = 0 \/ Len(tep) = 1
      BY <1>0, <1>1, FewPackets, Zenon
    <3> QED
      BY <3>1, <3>2, <3>3
  <2> QED
    BY <2>5, <2>7
<1> QED
  BY <1>2, <1>3 DEF Out!BulkIn

\* What the host takes is what comes next in the stream.
LEMMA PacketTaken ==
    ASSUME OutInv, OutPacketInv, Out!HostTakes
    PROVE  /\ tep[1] \in Seq(Out!Bytes) /\ Len(tep[1]) \in 1 .. MaxPacket /\ Len(tep) \in 1 .. 2
           /\ \A i \in 1 .. Len(tep[1]) : tep[1][i] = Len(host) + i
           /\ host' = host \o tep[1] /\ Len(host') = Len(host) + Len(tep[1])
           /\ Len(tep') = Len(tep) - 1 /\ \A k \in 1 .. Len(tep') : tep'[k] = tep[k + 1]
           /\ UNCHANGED <<tpc, tc, accepted, thead, ttail, tbuf>>
<1>1. /\ tep \in Seq(Seq(Out!Bytes)) /\ tep # <<>> /\ host \in Seq(Out!Bytes)
      /\ tep' = Tail(tep) /\ host' = host \o Head(tep)
      /\ UNCHANGED <<tpc, tc, accepted, thead, ttail, tbuf>>
  BY DEF Out!HostTakes, Out!mainVars, Out!fifoVars, OutInv, OutTypeInv, Out!TypeOK
<1>2. Len(tep) \in Nat /\ Len(tep) >= 1 /\ Len(tep) <= 2 /\ Head(tep) = tep[1]
  BY <1>1 DEF OutInv, RoomInv
<1>3. tep[1] \in Seq(Out!Bytes)
  BY <1>1, <1>2
<1>4. Len(Tail(tep)) = Len(tep) - 1 /\ \A k \in 1 .. Len(Tail(tep)) : Tail(tep)[k] = tep[k + 1]
  BY <1>1, HeadTailProperties
<1>5. Len(host \o tep[1]) = Len(host) + Len(tep[1])
  BY <1>1, <1>3
<1>6. Len(tep[1]) \in 1 .. MaxPacket /\ \A i \in 1 .. Len(tep[1]) : tep[1][i] = Len(host) + i
  BY <1>2 DEF OutPacketInv
<1> QED
  BY <1>1, <1>2, <1>3, <1>4, <1>5, <1>6

LEMMA HostStream ==
    ASSUME OutInv, StreamInv, OutPacketInv, Out!HostTakes
    PROVE  StreamInv' /\ OutPacketInv'
<1>1. /\ Len(tep[1]) \in Nat /\ Len(host') = Len(host) + Len(tep[1]) /\ Len(tep) \in 1 .. 2
      /\ Len(tep') = Len(tep) - 1 /\ \A k \in 1 .. Len(tep') : tep'[k] = tep[k + 1]
      /\ UNCHANGED <<tpc, tc, accepted, thead, ttail, tbuf>> /\ Len(host) \in Nat
  BY PacketTaken, OutNumbers
<1>2. StreamInv' /\ Moved' = Moved
  BY <1>1 DEF StreamInv, Moved, Dist
<1>3. CASE Len(tep) = 1
  BY <1>1, <1>2, <1>3 DEF OutPacketInv
<1>4. CASE Len(tep) = 2
  <2>1. Len(tep') = 1 /\ tep'[1] = tep[2] /\ Len(tep[2]) \in 1 .. MaxPacket
    BY <1>1, <1>4 DEF OutPacketInv
  <2>2. /\ \A i \in 1 .. Len(tep[2]) : tep[2][i] = Len(host') + i
        /\ Moved' = Len(host') + Len(tep[2])
    BY <1>1, <1>2, <1>4 DEF OutPacketInv
  <2> QED
    BY <1>2, <2>1, <2>2 DEF OutPacketInv
<1> QED
  BY <1>1, <1>2, <1>3, <1>4

LEMMA OutStepInv ==
    OutInv /\ StreamInv /\ OutPacketInv /\ [Out!Next]_(Out!vars)
        => OutInv' /\ StreamInv' /\ OutPacketInv'
<1> SUFFICES ASSUME OutInv, StreamInv, OutPacketInv, [Out!Next]_(Out!vars)
             PROVE  OutInv' /\ StreamInv' /\ OutPacketInv'
  OBVIOUS
<1>1. OutInv'
  <2>1. OutInv /\ UNCHANGED Out!vars => OutInv'
    BY DEF OutInv, OutTypeInv, Out!TypeOK, RoomInv, Out!vars, Out!mainVars, Out!fifoVars, Out!isrVars, Out!usbVars
  <2> QED
    BY <2>1, MainInv, IsrInv, HostInv DEF Out!Next
<1>2. CASE Out!Driver
  BY <1>1, <1>2, StorePublish
<1>3. CASE Out!BulkIn
  BY <1>1, <1>3, BulkInStream
<1>4. CASE Out!HostTakes
  BY <1>1, <1>4, HostStream
<1>5. CASE \/ Out!PutChar \/ Out!PutFull \/ Out!PutGivesUp \/ Out!IsrEnter \/ Out!IsrFrame
           \/ Out!IsrSlow \/ Out!Frame \/ Out!HostNaks \/ UNCHANGED Out!vars
  <2>1. /\ UNCHANGED <<accepted, thead, ttail, tbuf, tep, host>>
        /\ tpc' \in {"store", "publish"} => tpc' = tpc
    BY <1>5 DEF Out!PutChar, Out!PutFull, Out!PutGivesUp, Out!IsrEnter, Out!IsrFrame, Out!IsrSlow,
       Out!Frame, Out!HostNaks, Out!vars, Out!mainVars, Out!fifoVars, Out!isrVars, Out!usbVars
  <2> QED
    BY <1>1, <2>1 DEF StreamInv, OutPacketInv, Moved, Dist
<1> QED
  BY <1>2, <1>3, <1>4, <1>5 DEF Out!Next, Out!Isr, Out!Host

-----------------------------------------------------------------------------
LEMMA OutChannelStep ==
    OutInv /\ StreamInv /\ OutPacketInv /\ [Out!Next]_(Out!vars)
        => [Out!Channel!Next]_(Out!Channel!vars)
<1> SUFFICES ASSUME OutInv, StreamInv, OutPacketInv, [Out!Next]_(Out!vars)
             PROVE  [Out!Channel!Next]_(Out!Channel!vars)
  OBVIOUS
<1>1. /\ FifoSize \in Nat /\ FifoSize >= 2 /\ MaxPacket \in Nat /\ MaxPacket >= 1
      /\ accepted \in Nat /\ Len(host) \in Nat /\ Dist(thead, ttail) \in 0 .. FifoSize - 1
      /\ accepted = Moved + Dist(thead, ttail) /\ Moved \in Int
  BY OutNumbers DEF Moved
<1>2. Moved <= Len(host) + 2 * MaxPacket
  <2>1. Len(tep) \in 0 .. 2
    <3>1. Len(tep) \in Nat /\ Len(tep) <= 2
      BY OutNumbers DEF OutInv, RoomInv
    <3> QED
      BY <3>1, FewPackets, Zenon
  <2>2. \A k \in 1 .. Len(tep) : Len(tep[k]) \in 1 .. MaxPacket
    BY DEF OutPacketInv
  <2>3. CASE Len(tep) = 0
    BY <1>1, <2>3 DEF OutPacketInv
  <2>4. CASE Len(tep) = 1
    <3>1. Moved = Len(host) + Len(tep[1]) /\ Len(tep[1]) \in 1 .. MaxPacket
      BY <2>4 DEF OutPacketInv
    <3> QED
      BY <1>1, <3>1
  <2>5. CASE Len(tep) = 2
    <3>1. /\ Moved = Len(host) + Len(tep[1]) + Len(tep[2])
          /\ Len(tep[1]) \in 1 .. MaxPacket /\ Len(tep[2]) \in 1 .. MaxPacket
      BY <2>5 DEF OutPacketInv
    <3>2. \A a, b \in 1 .. MaxPacket : Len(host) + a + b <= Len(host) + 2 * MaxPacket
      BY <1>1
    <3> QED
      BY <3>1, <3>2
  <2> QED
    BY <2>1, <2>3, <2>4, <2>5
<1>3. CASE Out!PutPublish
  <2>1. accepted' = accepted + 1 /\ host' = host /\ tpc = "publish"
    BY <1>3 DEF Out!PutPublish, Out!usbVars
  <2>2. Dist(thead, ttail) < FifoSize - 1
    BY <2>1 DEF StreamInv
  <2>3. accepted' <= Len(host) + ((FifoSize - 1) + 2 * MaxPacket)
    BY <1>1, <1>2, <2>1, <2>2
  <2>4. 1 \in 1 .. ((FifoSize - 1) + 2 * MaxPacket)
    BY <1>1
  <2> QED
    BY <2>1, <2>3, <2>4 DEF Out!Channel!Next, Out!Channel!Accept
<1>4. CASE Out!HostTakes
  <2>1. PICK n \in 1 .. MaxPacket : n = Len(tep[1])
    BY <1>4, PacketTaken
  <2>2. tep[1] = [i \in 1 .. n |-> Len(host) + i]
    <3>1. tep[1] \in Seq(Out!Bytes) /\ \A i \in 1 .. n : tep[1][i] = Len(host) + i
      BY <1>4, <2>1, PacketTaken
    <3> QED
      BY <2>1, <3>1
  <2>3. Len(host) + n <= accepted
    <3>1. Len(tep) \in 1 .. 2 /\ \A k \in 1 .. Len(tep) : Len(tep[k]) \in 1 .. MaxPacket
      BY <1>4, PacketTaken DEF OutPacketInv
    <3>2. CASE Len(tep) = 1
      BY <1>1, <2>1, <3>2 DEF OutPacketInv
    <3>3. CASE Len(tep) = 2
      BY <1>1, <2>1, <3>1, <3>3 DEF OutPacketInv
    <3> QED
      BY <3>1, <3>2, <3>3
  <2>4. host' = host \o tep[1] /\ accepted' = accepted
    BY <1>4, PacketTaken
  <2>5. n \in 1 .. ((FifoSize - 1) + 2 * MaxPacket)
    BY <1>1
  <2> QED
    BY <2>2, <2>3, <2>4, <2>5 DEF Out!Channel!Next, Out!Channel!Deliver
<1>5. CASE \/ Out!PutChar \/ Out!PutFull \/ Out!PutGivesUp \/ Out!PutCheck \/ Out!PutStore
           \/ Out!Isr \/ Out!Frame \/ Out!HostNaks \/ UNCHANGED Out!vars
  BY <1>5 DEF Out!PutChar, Out!PutFull, Out!PutGivesUp, Out!PutCheck, Out!PutStore, Out!Isr,
     Out!IsrEnter, Out!IsrFrame, Out!IsrSlow, Out!BulkIn, Out!Frame, Out!HostNaks,
     Out!vars, Out!mainVars, Out!fifoVars, Out!isrVars, Out!usbVars, Out!Channel!vars
<1> QED
  BY <1>3, <1>4, <1>5 DEF Out!Next, Out!Driver, Out!Host
-----------------------------------------------------------------------------
(* Both directions on one processor: a step of the port is one of each     *)
(* direction or leaves it alone.                                           *)

LEMMA PortStep == [PortNext]_allVars => [Next]_vars /\ [Out!Next]_(Out!vars)
<1>1. Receive => Next /\ UNCHANGED Out!vars
  BY DEF Receive, Next, outVars, Out!vars, Out!mainVars, Out!fifoVars, Out!isrVars, Out!usbVars
<1>2. Send => Out!Next /\ UNCHANGED vars
  BY DEF Send, Out!Next
<1>3. UNCHANGED allVars => UNCHANGED vars /\ UNCHANGED Out!vars
  BY DEF allVars, outVars, Out!vars, Out!mainVars, Out!fifoVars, Out!isrVars, Out!usbVars
<1> QED
  BY <1>1, <1>2, <1>3 DEF PortNext

LEMMA OutIsInvariant == PortSpec => [](OutInv /\ StreamInv /\ OutPacketInv)
<1>1. PortInit => OutInv /\ StreamInv /\ OutPacketInv
  BY OutInitInv, StreamInit DEF PortInit
<1> QED
  BY <1>1, OutStepInv, PortStep, PTL DEF PortSpec

\* BulkIn finds room in the endpoint whenever it runs, though it does not look,
\* and txfifo keeps its types and index ranges.
THEOREM EndpointNeverOverfilled == PortSpec => [](Out!TypeOK /\ EndpointHasRoom)
<1>1. OutInv => Out!TypeOK /\ EndpointHasRoom
  BY DEF OutInv, OutTypeInv, RoomInv, EndpointHasRoom, Out!EndpointHasRoom
<1> QED
  BY <1>1, OutIsInvariant, PTL

\* FIFO and endpoint implement a byte channel to the host: what fifo_put took
\* comes out once, in order, and no more is under way than both hold, while the
\* host sends and BulkOut and getchar take their turns (HostGetsAll, but for its
\* liveness).
THEOREM TransmitterIsChannel ==
    PortSpec => Out!Channel!Init /\ [][Out!Channel!Next]_(Out!Channel!vars)
<1>1. PortInit => Out!Channel!Init
  BY DEF PortInit, Out!Init, Out!Channel!Init
<1> QED
  BY <1>1, OutChannelStep, PortStep, OutIsInvariant, PTL DEF PortSpec

\* What the receiver promises it promises beside the transmitter.
THEOREM ReceiverUndisturbed == PortSpec => []NoOverflow /\ IsByteChannel
<1>1. PortInit => IInv /\ Channel!Init
  BY InitInv DEF PortInit, Init, Channel!Init
<1>2. IInv => NoOverflow
  BY DEF IInv
<1> QED
  BY <1>1, <1>2, StepInv, ChannelStep, PortStep, PTL DEF PortSpec, IsByteChannel
=============================================================================
