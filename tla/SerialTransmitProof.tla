------------------------- MODULE SerialTransmitProof -------------------------
(***************************************************************************)
(* Proofs about SerialTransmit, for every buffer size, every number of     *)
(* bytes and every counter width.                                          *)
(***************************************************************************)
EXTENDS SerialTransmit, SequenceTheorems, TLAPS

USE PacketSizeAssumption, TxBytesAssumption, CounterAssumption,
    TornStoresAssumption, WireBoundAssumption

\* The wrapped successor of a slot is a slot (NextIndex, buffer.c:31-33).
LEMMA NextIndexInRange ==
    ASSUME NEW i \in Slots
    PROVE  NextIndex(i, PacketSize) \in Slots
BY DEF NextIndex, Slots

\* Remainders are below the modulus.
LEMMA CounterInRange ==
    ASSUME NEW n \in Nat
    PROVE  (n + 1) % CounterMod \in 0 .. (CounterMod - 1)
OBVIOUS

\* How far the main program is: the byte in hand is not counted yet.
Uncounted == {"num", "lsr", "direct", "put", "store", "publish", "rearm"}
InHand    == IF pc \in Uncounted THEN 1 ELSE 0

\* The count of accepted bytes follows the byte in hand.
CountInv == ch = accepted + InHand

TypeInv == TypeOK /\ CountInv

\* Every step keeps the types and the count.
LEMMA TypeInvStep == TypeInv /\ [Next]_vars => TypeInv'
<1> SUFFICES ASSUME TypeInv, [Next]_vars PROVE TypeInv'
  OBVIOUS
<1> USE DEF TypeInv, TypeOK, CountInv, InHand, Uncounted, Bytes, Slots, PCs
<1>1. CASE PutChar
  BY <1>1 DEF PutChar, bufVars, uartVars
<1>2. CASE TestNum
  BY <1>2 DEF TestNum, bufVars, uartVars
<1>3. CASE TestLsr
  BY <1>3 DEF TestLsr, bufVars, uartVars
<1>4. CASE Direct
  <2>1. thr' \in Seq(Bytes)
    BY <1>4 DEF Direct
  <2>2. accepted' \in Bytes /\ CountInv'
    BY <1>4 DEF Direct
  <2> QED
    BY <1>4, <2>1, <2>2 DEF Direct, bufVars
<1>5. CASE Put
  <2>1. overrun' \in 0 .. (CounterMod - 1)
    BY <1>5, CounterInRange DEF Put
  <2> QED
    BY <1>5, <2>1 DEF Put, uartVars
<1>6. CASE Store
  BY <1>6 DEF Store, uartVars
<1>7. CASE Publish
  BY <1>7 DEF Publish, FirstStore, NextIndex, uartVars
<1>8. CASE Wrap
  BY <1>8 DEF Wrap, uartVars
<1>9. CASE Arm
  BY <1>9 DEF Arm, EnableThre, bufVars
<1>10. CASE IsrEnter
  BY <1>10 DEF IsrEnter, mainVars, bufVars
<1>11. CASE IsrSend
  <2>1. mem[first] \in Bytes /\ first' \in Slots
    BY <1>11, NextIndexInRange DEF IsrSend
  <2>2. thr' \in Seq(Bytes)
    BY <1>11, <2>1 DEF IsrSend
  <2> QED
    BY <1>11, <2>1, <2>2 DEF IsrSend, mainVars
<1>12. CASE IsrDisable
  BY <1>12 DEF IsrDisable, mainVars, bufVars
<1>13. CASE IsrLeave
  BY <1>13 DEF IsrLeave, mainVars, bufVars, uartVars
<1>14. CASE UartLoad
  <2>1. Head(thr) \in Bytes /\ Tail(thr) \in Seq(Bytes)
    BY <1>14 DEF UartLoad
  <2>2. threInt' \in BOOLEAN
    BY <1>14 DEF UartLoad
  <2> QED
    BY <1>14, <2>1, <2>2 DEF UartLoad, mainVars, bufVars
<1>15. CASE UartShift
  <2>1. wire' \in Seq(Bytes)
    BY <1>15 DEF UartShift
  <2> QED
    BY <1>15, <2>1 DEF UartShift, mainVars, bufVars
<1>16. CASE UNCHANGED vars
  BY <1>16 DEF vars, mainVars, bufVars, uartVars
<1> QED
  BY <1>1, <1>2, <1>3, <1>4, <1>5, <1>6, <1>7, <1>8, <1>9, <1>10, <1>11,
     <1>12, <1>13, <1>14, <1>15, <1>16 DEF Next, Driver, Isr, Uart

\* The state serial_init leaves has the types.
LEMMA TypeInvInit == Init => TypeInv
<1> SUFFICES ASSUME Init PROVE TypeInv
  OBVIOUS
<1>1. thr \in Seq(Bytes) /\ tsr \in Seq(Bytes) /\ wire \in Seq(Bytes)
  BY DEF Init, Bytes
<1>2. mem \in [Slots -> Bytes] /\ overrun \in 0 .. (CounterMod - 1)
  BY DEF Init, Bytes, Slots
<1>3. /\ pc \in PCs /\ ch \in Bytes /\ accepted \in Bytes
      /\ first \in Slots /\ last \in 0 .. PacketSize /\ last # PacketSize
  BY DEF Init, Bytes, Slots, PCs
<1>4. ier \in BOOLEAN /\ threInt \in BOOLEAN /\ isr \in BOOLEAN
  BY DEF Init
<1>5. CountInv
  BY DEF Init, CountInv, InHand, Uncounted
<1> QED
  BY <1>1, <1>2, <1>3, <1>4, <1>5 DEF TypeInv, TypeOK

\* Type correctness, whatever the build makes of an index wrap.
THEOREM TypeCorrect == Spec => []TypeOK
BY TypeInvInit, TypeInvStep, PTL DEF Spec, TypeInv

-----------------------------------------------------------------------------
(* No lost wake-up, again for either build.                                *)

\* The handler runs only with the interrupt on; outside it, an empty THR with
\* the interrupt on has its THRE latched; and the interrupt is on whenever
\* bytes are queued and IER has been written since.
WakeInv ==
    /\ isr => ier
    /\ (~isr /\ ier /\ thr = <<>>) => threInt
    /\ (~BufferEmpty(first, last) /\ pc \notin {"wrap", "arm"}) => ier

LEMMA WakeInvStep == TypeInv /\ WakeInv /\ [Next]_vars => WakeInv'
<1> SUFFICES ASSUME TypeInv, WakeInv, [Next]_vars PROVE WakeInv'
  OBVIOUS
<1> USE DEF WakeInv, BufferEmpty, TypeInv, TypeOK
<1>1. CASE PutChar
  BY <1>1 DEF PutChar, bufVars, uartVars
<1>2. CASE TestNum
  BY <1>2 DEF TestNum, bufVars, uartVars
<1>3. CASE TestLsr
  BY <1>3 DEF TestLsr, bufVars, uartVars
<1>4. CASE Direct
  <2>1. thr' # <<>>
    BY <1>4 DEF Direct
  <2> QED
    BY <1>4, <2>1 DEF Direct, bufVars
<1>5. CASE Put
  BY <1>5 DEF Put, uartVars
<1>6. CASE Store
  BY <1>6 DEF Store, uartVars
<1>7. CASE Publish
  BY <1>7 DEF Publish, uartVars
<1>8. CASE Wrap
  BY <1>8 DEF Wrap, uartVars
<1>9. CASE Arm
  BY <1>9 DEF Arm, EnableThre, bufVars
<1>10. CASE IsrEnter
  BY <1>10 DEF IsrEnter, mainVars, bufVars
<1>11. CASE IsrSend
  BY <1>11 DEF IsrSend, mainVars
<1>12. CASE IsrDisable
  BY <1>12 DEF IsrDisable, mainVars, bufVars
<1>13. CASE IsrLeave
  BY <1>13 DEF IsrLeave, mainVars, bufVars, uartVars
<1>14. CASE UartLoad
  BY <1>14 DEF UartLoad, mainVars, bufVars
<1>15. CASE UartShift
  BY <1>15 DEF UartShift, mainVars, bufVars
<1>16. CASE UNCHANGED vars
  BY <1>16 DEF vars, mainVars, bufVars, uartVars
<1> QED
  BY <1>1, <1>2, <1>3, <1>4, <1>5, <1>6, <1>7, <1>8, <1>9, <1>10, <1>11,
     <1>12, <1>13, <1>14, <1>15, <1>16 DEF Next, Driver, Isr, Uart

\* A byte queued by a finished serial_putchar always has an interrupt coming.
THEOREM NoWakeupIsLost == Spec => []NoLostWakeup
<1>1. Init => WakeInv
  BY DEF Init, WakeInv, BufferEmpty
<1>2. WakeInv => NoLostWakeup
  BY DEF WakeInv, NoLostWakeup
<1> QED
  BY <1>1, <1>2, TypeInvInit, TypeInvStep, WakeInvStep, PTL DEF Spec

-----------------------------------------------------------------------------
(* Order, for a build that merges the two stores of an index wrap.         *)

\* Bytes past the buffer, and bytes waiting in it.
Past    == Len(wire) + Len(tsr) + Len(thr)
Waiting == BufferNum(first, last, PacketSize)

\* The UART holds the next bytes of the stream, at most one in each place.
UartInv ==
    /\ WireInOrder
    /\ tsr = <<>> \/ tsr = <<Len(wire) + 1>>
    /\ thr = <<>> \/ thr = <<Len(wire) + Len(tsr) + 1>>

\* The waiting slots hold the bytes that follow, and nothing else is under
\* way.
BufferInv ==
    /\ last \in Slots
    /\ accepted = Past + Waiting
    /\ \A k \in Slots : k < Waiting => mem[SlotOf(first, k, PacketSize)] = Past + k + 1

\* What the main program has established at each point of serial_putchar_.
MainInv ==
    /\ pc \in {"lsr", "direct"} => BufferEmpty(first, last)
    /\ pc = "direct" => thr = <<>>
    /\ pc \in {"store", "publish"} => ~BufferFull(first, last, PacketSize)
    /\ pc = "publish" => mem[last] = ch

FifoInv == UartInv /\ BufferInv /\ MainInv

LEMMA FifoInvInit == Init => FifoInv
<1> SUFFICES ASSUME Init PROVE FifoInv
  OBVIOUS
<1>1. Len(wire) = 0 /\ Len(tsr) = 0 /\ Len(thr) = 0 /\ Waiting = 0
  BY DEF Init, Waiting, BufferNum
<1>2. UartInv
  BY <1>1 DEF Init, UartInv, WireInOrder
<1>3. BufferInv
  BY <1>1 DEF Init, BufferInv, Past, Slots
<1>4. MainInv
  BY DEF Init, MainInv
<1> QED
  BY <1>2, <1>3, <1>4 DEF FifoInv

\* The hardware and the handler see the sequences only through their ends.
LEMMA QueueFacts ==
    ASSUME TypeInv
    PROVE  /\ Len(wire) \in Nat /\ Len(tsr) \in Nat /\ Len(thr) \in Nat
           /\ Waiting \in Nat /\ Waiting <= PacketSize
BY DEF TypeInv, TypeOK, Waiting, BufferNum, Slots

\* The transmitter holds at most one byte in each of its two places.
LEMMA OneByteEach ==
    ASSUME UartInv
    PROVE  Len(tsr) <= 1 /\ Len(thr) <= 1
<1>1. Len(tsr) <= 1
  <2>1. CASE tsr = <<>>
    BY <2>1
  <2>2. CASE tsr = <<Len(wire) + 1>>
    BY <2>2
  <2> QED
    BY <2>1, <2>2 DEF UartInv
<1>2. Len(thr) <= 1
  <2>1. CASE thr = <<>>
    BY <2>1
  <2>2. CASE thr = <<Len(wire) + Len(tsr) + 1>>
    BY <2>2
  <2> QED
    BY <2>1, <2>2 DEF UartInv
<1> QED
  BY <1>1, <1>2

\* Steps that leave the buffer and the UART alone keep their invariants.
LEMMA Untouched ==
    ASSUME FifoInv, UNCHANGED <<first, last, mem, accepted, thr, tsr, wire>>
    PROVE  UartInv' /\ BufferInv'
BY DEF FifoInv, UartInv, BufferInv, WireInOrder, Waiting, Past

LEMMA FifoInvStep ==
    ~TornStores /\ TypeInv /\ FifoInv /\ [Next]_vars => FifoInv'
<1> SUFFICES ASSUME ~TornStores, TypeInv, FifoInv, [Next]_vars PROVE FifoInv'
  OBVIOUS
<1>0. UartInv /\ BufferInv /\ MainInv
  BY DEF FifoInv
<1>1. CASE PutChar \/ TestLsr \/ Put \/ Wrap \/ Arm \/ IsrEnter \/ IsrDisable
           \/ IsrLeave \/ UNCHANGED vars
  <2>0. Wrap => last' = last
    BY <1>0 DEF Wrap, BufferInv, Slots
  <2>1. UartInv' /\ BufferInv'
    BY <1>1, <2>0, Untouched DEF PutChar, TestLsr, Put, Wrap, Arm, EnableThre, IsrEnter,
       IsrDisable, IsrLeave, vars, mainVars, bufVars, uartVars
  <2>2. MainInv'
    BY <1>1, <1>0, <2>0 DEF MainInv, PutChar, TestLsr, Put, Wrap, Arm, IsrEnter,
       IsrDisable, IsrLeave, vars, mainVars, bufVars, uartVars
  <2> QED
    BY <2>1, <2>2 DEF FifoInv
<1>2. CASE TestNum
  <2>1. UartInv' /\ BufferInv'
    BY <1>2, Untouched DEF TestNum, bufVars, uartVars
  <2>2. pc' = "lsr" => BufferEmpty(first, last)
    BY <1>2 DEF TestNum, BufferNum, BufferEmpty, TypeInv, TypeOK, Slots
  <2>3. MainInv'
    BY <1>2, <1>0, <2>2 DEF MainInv, TestNum, bufVars, uartVars
  <2> QED
    BY <2>1, <2>3 DEF FifoInv
<1>3. CASE Direct
  <2>1. Waiting = 0 /\ Len(thr) = 0 /\ thr' = <<ch>> /\ Len(thr') = 1
    BY <1>3, <1>0, QueueFacts DEF Direct, MainInv, BufferEmpty, Waiting, BufferNum,
       TypeInv, TypeOK, Slots, Bytes
  <2>2. ch = Len(wire) + Len(tsr) + 1
    BY <1>3, <1>0, <2>1, QueueFacts DEF Direct, BufferInv, Past, TypeInv, TypeOK,
       CountInv, InHand, Uncounted, Bytes
  <2>3. UartInv'
    BY <1>3, <1>0, <2>1, <2>2 DEF Direct, UartInv, WireInOrder
  <2>4. BufferInv'
    <3>1. Past' = Past + 1 /\ Waiting' = 0 /\ accepted' = Past' + Waiting'
      BY <1>3, <1>0, <2>1, QueueFacts DEF Direct, BufferInv, Waiting, Past, bufVars
    <3> QED
      BY <1>3, <1>0, <3>1 DEF Direct, BufferInv, bufVars, Slots
  <2>5. MainInv'
    BY <1>3, <1>0 DEF Direct, MainInv, bufVars
  <2> QED
    BY <2>3, <2>4, <2>5 DEF FifoInv
<1>4. CASE Store
  <2>1. UartInv'
    BY <1>4, <1>0 DEF Store, UartInv, WireInOrder, uartVars
  <2>2. \A k \in Slots : k < Waiting => SlotOf(first, k, PacketSize) # last
    BY <1>4, <1>0 DEF Store, MainInv, BufferFull, Waiting, BufferNum, SlotOf,
       BufferInv, TypeInv, TypeOK, Slots
  <2>3. \A k \in Slots : SlotOf(first, k, PacketSize) \in Slots
    BY DEF SlotOf, TypeInv, TypeOK, Slots
  <2>4. \A k \in Slots : k < Waiting =>
          mem'[SlotOf(first, k, PacketSize)] = mem[SlotOf(first, k, PacketSize)]
    BY <1>4, <2>2, <2>3 DEF Store, TypeInv, TypeOK
  <2>5. BufferInv'
    BY <1>4, <1>0, <2>4 DEF Store, BufferInv, Waiting, Past, uartVars
  <2>6. mem'[last] = ch
    BY <1>4, <1>0 DEF Store, BufferInv, TypeInv, TypeOK
  <2>7. MainInv'
    BY <1>4, <1>0, <2>6 DEF Store, MainInv, uartVars
  <2> QED
    BY <2>1, <2>5, <2>7 DEF FifoInv
<1>5. CASE Publish
  <2>1. last' = NextIndex(last, PacketSize) /\ last' \in Slots /\ pc' = "wrap"
    BY <1>5, <1>0, NextIndexInRange DEF Publish, FirstStore, BufferInv, Slots
  <2>2. UartInv'
    BY <1>5, <1>0 DEF Publish, UartInv, WireInOrder, uartVars
  <2>3. Waiting' = Waiting + 1 /\ SlotOf(first, Waiting, PacketSize) = last
    BY <1>5, <1>0, <2>1 DEF Publish, MainInv, BufferFull, Waiting, BufferNum, NextIndex,
       SlotOf, BufferInv, TypeInv, TypeOK, Slots
  <2>4. mem[last] = Past + Waiting + 1 /\ Past' = Past
    BY <1>5, <1>0 DEF Publish, MainInv, BufferInv, Past, TypeInv, TypeOK,
       CountInv, InHand, Uncounted, Bytes, uartVars
  <2>5. \A k \in Slots : k < Waiting + 1 =>
          mem[SlotOf(first, k, PacketSize)] = Past + k + 1
    BY <1>0, <2>3, <2>4, QueueFacts DEF BufferInv, Slots
  <2>6. BufferInv'
    <3>1. accepted' = Past' + Waiting'
      BY <1>5, <1>0, <2>3, <2>4, QueueFacts DEF Publish, BufferInv, Past
    <3> QED
      BY <1>5, <2>1, <2>3, <2>4, <2>5, <3>1 DEF Publish, BufferInv
  <2>7. MainInv'
    BY <2>1 DEF MainInv
  <2> QED
    BY <2>2, <2>6, <2>7 DEF FifoInv
<1>6. CASE IsrSend
  <2>1. /\ Waiting > 0 /\ Waiting' = Waiting - 1 /\ first' \in Slots
        /\ last' = last
    BY <1>6, <1>0, NextIndexInRange DEF IsrSend, BufferEmpty, Waiting, BufferNum,
       NextIndex, BufferInv, TypeInv, TypeOK, Slots
  <2>2. SlotOf(first, 0, PacketSize) = first
    BY DEF SlotOf, TypeInv, TypeOK, Slots
  <2>3. thr' = <<mem[first]>> /\ Len(thr') = 1 /\ Len(thr) = 0
    BY <1>6 DEF IsrSend, TypeInv, TypeOK
  <2>4. mem[first] = Len(wire) + Len(tsr) + 1 /\ Past' = Past + 1
    <3>1. mem[first] = Past + 0 + 1
      BY <1>0, <2>1, <2>2 DEF BufferInv, Slots
    <3> QED
      BY <1>6, <2>3, <3>1, QueueFacts DEF IsrSend, Past
  <2>5. UartInv'
    BY <1>6, <1>0, <2>3, <2>4 DEF IsrSend, UartInv, WireInOrder
  <2>6. \A k \in Slots : k < Waiting - 1 =>
          /\ k + 1 \in Slots
          /\ SlotOf(first', k, PacketSize) = SlotOf(first, k + 1, PacketSize)
    BY <1>6, QueueFacts DEF IsrSend, SlotOf, NextIndex, TypeInv, TypeOK, Slots
  <2>7. \A k \in Slots : k < Waiting - 1 =>
          mem[SlotOf(first', k, PacketSize)] = Past + 1 + k + 1
    BY <1>0, <2>6, QueueFacts DEF BufferInv, Past, Slots
  <2>8. BufferInv'
    BY <1>6, <1>0, <2>1, <2>4, <2>7, QueueFacts DEF IsrSend, BufferInv, Past, mainVars
  <2>9. MainInv'
    BY <1>6, <1>0, <2>1, QueueFacts DEF IsrSend, MainInv, BufferFull, Waiting,
       BufferEmpty, mainVars
  <2> QED
    BY <2>5, <2>8, <2>9 DEF FifoInv
<1>7. CASE UartLoad
  <2>1. /\ tsr' = <<Len(wire) + 1>> /\ thr' = <<>> /\ Len(tsr') = 1
        /\ Len(thr') = 0 /\ Len(tsr) = 0 /\ Len(thr) = 1
    BY <1>7, <1>0, QueueFacts DEF UartLoad, UartInv
  <2>2. Past' = Past /\ Waiting' = Waiting
    <3>1. wire' = wire /\ first' = first /\ last' = last
      BY <1>7 DEF UartLoad, bufVars
    <3>2. Waiting' = Waiting
      BY <3>1 DEF Waiting
    <3>3. Past' = Past
      BY <2>1, <3>1, QueueFacts DEF Past
    <3> QED
      BY <3>2, <3>3
  <2>3. UartInv'
    BY <1>7, <1>0, <2>1 DEF UartLoad, UartInv, WireInOrder
  <2>4. BufferInv'
    BY <1>7, <1>0, <2>2 DEF UartLoad, BufferInv, bufVars, mainVars
  <2>5. MainInv'
    BY <1>7, <1>0, <2>1 DEF UartLoad, MainInv, bufVars, mainVars
  <2> QED
    BY <2>3, <2>4, <2>5 DEF FifoInv
<1>8. CASE UartShift
  <2>1. /\ wire' = wire \o <<Len(wire) + 1>> /\ Len(tsr) = 1 /\ Len(tsr') = 0
        /\ Len(wire') = Len(wire) + 1
    <3>1. tsr = <<Len(wire) + 1>> /\ tsr' = <<>> /\ wire' = wire \o tsr
      BY <1>8, <1>0 DEF UartShift, UartInv
    <3>2. wire \in Seq(Bytes) /\ tsr \in Seq(Bytes)
      BY DEF TypeInv, TypeOK
    <3>3. Len(tsr) = 1 /\ Len(tsr') = 0
      BY <3>1
    <3>4. Len(wire') = Len(wire) + Len(tsr)
      BY <3>1, <3>2, ConcatProperties
    <3> QED
      BY <3>1, <3>3, <3>4
  <2>2. Past' = Past /\ Waiting' = Waiting
    BY <1>8, <2>1, QueueFacts DEF UartShift, Past, Waiting, bufVars
  <2>3. WireInOrder'
    <3>1. \A i \in 1 .. Len(wire) : wire'[i] = wire[i]
      BY <2>1, QueueFacts DEF TypeInv, TypeOK
    <3>2. wire'[Len(wire) + 1] = Len(wire) + 1
      BY <2>1, QueueFacts DEF TypeInv, TypeOK
    <3> QED
      BY <1>0, <2>1, <3>1, <3>2, QueueFacts DEF UartInv, WireInOrder
  <2>4. UartInv'
    BY <1>8, <1>0, <2>1, <2>3, QueueFacts DEF UartShift, UartInv
  <2>5. BufferInv'
    BY <1>8, <1>0, <2>2 DEF UartShift, BufferInv, bufVars, mainVars
  <2>6. MainInv'
    BY <1>8, <1>0 DEF UartShift, MainInv, bufVars, mainVars
  <2> QED
    BY <2>4, <2>5, <2>6 DEF FifoInv
<1> QED
  BY <1>1, <1>2, <1>3, <1>4, <1>5, <1>6, <1>7, <1>8 DEF Next, Driver, Isr, Uart

\* With merged index stores, the bytes reach the line in the order
\* serial_putchar was given them, each once.
THEOREM WireKeepsOrder ==
    ASSUME ~TornStores
    PROVE  Spec => []WireInOrder
<1>1. TypeInv /\ FifoInv /\ [Next]_vars => FifoInv'
  BY FifoInvStep
<1>2. FifoInv => WireInOrder
  BY DEF FifoInv, UartInv
<1> QED
  BY <1>1, <1>2, FifoInvInit, TypeInvInit, TypeInvStep, PTL DEF Spec

-----------------------------------------------------------------------------
(* Refinement.                                                             *)

\* A step of the driver, the handler or the UART is a step of the byte
\* channel or leaves it unchanged.
LEMMA ChannelStep ==
    ~TornStores /\ TypeInv /\ FifoInv /\ [Next]_vars => [Channel!Next]_(Channel!vars)
<1> SUFFICES ASSUME ~TornStores, TypeInv, FifoInv, [Next]_vars
             PROVE  [Channel!Next]_(Channel!vars)
  OBVIOUS
<1>0. UartInv /\ BufferInv /\ MainInv
  BY DEF FifoInv
<1>1. CASE Direct
  <2>1. Waiting = 0 /\ Len(thr) = 0 /\ Len(tsr) <= 1
    BY <1>1, <1>0, OneByteEach DEF Direct, MainInv, BufferEmpty, Waiting, BufferNum,
       TypeInv, TypeOK, Slots
  <2>2. accepted - Len(wire) < PacketSize + 1
    BY <1>0, <2>1, QueueFacts DEF BufferInv, Past
  <2>3. 1 \in 1 .. (PacketSize + 1) /\ accepted' = accepted + 1 /\ wire' = wire
    BY <1>1 DEF Direct
  <2>4. accepted' <= Len(wire) + (PacketSize + 1)
    BY <2>2, <2>3, QueueFacts DEF TypeInv, TypeOK, Bytes
  <2> QED
    BY <2>3, <2>4 DEF Channel!Next, Channel!Accept
<1>2. CASE Publish
  <2>1. Len(thr) <= 1 /\ Len(tsr) <= 1
    BY <1>0, OneByteEach
  <2>2. Waiting + 1 < PacketSize
    BY <1>2, <1>0, QueueFacts DEF Publish, MainInv, BufferFull, Waiting
  <2>3. accepted - Len(wire) < PacketSize + 1
    BY <1>0, <2>1, <2>2, QueueFacts DEF BufferInv, Past
  <2>4. 1 \in 1 .. (PacketSize + 1) /\ accepted' = accepted + 1 /\ wire' = wire
    BY <1>2 DEF Publish, uartVars
  <2>5. accepted' <= Len(wire) + (PacketSize + 1)
    BY <2>3, <2>4, QueueFacts DEF TypeInv, TypeOK, Bytes
  <2> QED
    BY <2>4, <2>5 DEF Channel!Next, Channel!Accept
<1>3. CASE UartShift
  <2>1. tsr = <<Len(wire) + 1>> /\ Len(tsr) = 1
    BY <1>3, <1>0 DEF UartShift, UartInv
  <2>2. Len(wire) < accepted
    BY <1>0, <2>1, QueueFacts DEF BufferInv, Past
  <2>3. tsr = [i \in 1 .. 1 |-> Len(wire) + i]
    <3>1. \A i \in 1 .. 1 : Len(wire) + i = Len(wire) + 1
      OBVIOUS
    <3>2. <<Len(wire) + 1>> = [i \in 1 .. 1 |-> Len(wire) + 1]
      OBVIOUS
    <3> QED
      BY <2>1, <3>1, <3>2
  <2>4. wire' = wire \o [i \in 1 .. 1 |-> Len(wire) + i] /\ UNCHANGED accepted
    BY <1>3, <2>3 DEF UartShift, mainVars
  <2>5. 1 \in 1 .. (PacketSize + 1) /\ Len(wire) + 1 <= accepted
    BY <2>2, QueueFacts DEF TypeInv, TypeOK, Bytes
  <2> QED
    BY <2>4, <2>5 DEF Channel!Next, Channel!Deliver
<1>4. CASE \/ PutChar \/ TestNum \/ TestLsr \/ Put \/ Store \/ Wrap \/ Arm
           \/ Isr \/ UartLoad \/ UNCHANGED vars
  BY <1>4 DEF Channel!vars, PutChar, TestNum, TestLsr, Put, Store, Wrap, Arm,
     EnableThre, Isr, IsrEnter, IsrSend, IsrDisable, IsrLeave, UartLoad, vars,
     mainVars, bufVars, uartVars
<1> QED
  BY <1>1, <1>2, <1>3, <1>4 DEF Next, Driver, Uart

\* With merged index stores the transmitter implements the safety part of
\* ByteChannel (its liveness is model-checked).
THEOREM TransmitterIsChannel ==
    ASSUME ~TornStores
    PROVE  Spec => Channel!Init /\ [][Channel!Next]_(Channel!vars)
<1>1. Init => Channel!Init
  BY DEF Init, Channel!Init
<1>2. TypeInv /\ FifoInv /\ [Next]_vars => FifoInv'
  BY FifoInvStep
<1>3. TypeInv /\ FifoInv /\ [Next]_vars => [Channel!Next]_(Channel!vars)
  BY ChannelStep
<1> QED
  BY <1>1, <1>2, <1>3, FifoInvInit, TypeInvInit, TypeInvStep, PTL DEF Spec
=============================================================================
