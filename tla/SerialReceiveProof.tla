-------------------------- MODULE SerialReceiveProof --------------------------
(***************************************************************************)
(* With UART 1 alone, the receiver accounts for every byte, refuses one    *)
(* only when its buffer is full and returns bytes in the order of the line,*)
(* for every size of buffer and FIFO and whether index stores are torn or  *)
(* not.                                                                    *)
(***************************************************************************)
EXTENDS SerialReceive, SequenceTheorems, TLAPS

Byte == [from : BothUarts, n : Nat]

\* Where the main program is, and what each variable holds.  The index is
\* out of the array exactly between the two stores of a torn wrap.
TypeInv ==
    /\ opened \subseteq {1}
    /\ isr \in {1, NoUart} /\ (isr = 1 => 1 \in opened)
    /\ app.pc \in {"idle", "check", "read", "advance", "wrap"}
    /\ app.pc # "idle" => app.uart = 1 /\ 1 \in opened
    /\ DOMAIN rx = BothUarts
    /\ rx[1] \in [first : 0 .. PacketSize, last : 0 .. PacketSize - 1,
                  overrun : Nat, size : {0, PacketSize}]
    /\ rx[1].first = PacketSize <=> app.pc = "wrap"
    /\ line \in [BothUarts -> Nat] /\ hwLost \in [BothUarts -> Nat]
    /\ DOMAIN fifo = BothUarts /\ fifo[1] \in Seq(Byte)
    /\ DOMAIN got = BothUarts /\ got[1] \in Seq(Byte) /\ got[0] = <<>>
    /\ DOMAIN heard = BothUarts /\ heard[1] \in Seq(Byte)
    /\ mem \in [Slots -> Byte] /\ byte \in Byte

\* A buffer has no slots until serial_init, and nothing is in it.
OpenInv ==
    IF 1 \in opened
      THEN rx[1].size = PacketSize
      ELSE rx[1].first = 0 /\ rx[1].last = 0 /\ rx[1].overrun = 0 /\ rx[1].size = 0
           /\ fifo[1] = <<>>

\* What the main program is taking stays there until it frees the slot.
TakeInv == app.pc \in {"read", "advance"} => rx[1].first # rx[1].last

CountInv == TypeInv /\ OpenInv /\ TakeInv /\ NothingVanishes

\* How many slots s is behind first.
Dist(s, first) == IF s >= first THEN s - first ELSE s + PacketSize - first

Behind(s) == Dist(s, rx[1].first)

\* Does slot s hold a byte that waits?
Waits(s) == Behind(s) < Waiting(1)

\* The bytes returned, in the buffer and in the FIFO, one after the other, are
\* bytes of the line in its order.
OrderInv ==
    /\ \A s \in Slots : Waits(s) => mem[s].n \in 1 .. line[1]
    /\ \A i \in 1 .. Len(got[1]) : got[1][i].n \in 1 .. line[1]
    /\ \A i \in 1 .. Len(fifo[1]) : fifo[1][i].n \in 1 .. line[1]
    /\ \A i, j \in 1 .. Len(got[1]) : j < i => got[1][j].n < got[1][i].n
    /\ \A i, j \in 1 .. Len(fifo[1]) : j < i => fifo[1][j].n < fifo[1][i].n
    /\ \A s, t \in Slots : Waits(s) /\ Waits(t) /\ Behind(s) < Behind(t) => mem[s].n < mem[t].n
    /\ \A i \in 1 .. Len(got[1]), s \in Slots : Waits(s) => got[1][i].n < mem[s].n
    /\ \A i \in 1 .. Len(got[1]), j \in 1 .. Len(fifo[1]) : got[1][i].n < fifo[1][j].n
    /\ \A s \in Slots, j \in 1 .. Len(fifo[1]) : Waits(s) => mem[s].n < fifo[1][j].n
    /\ app.pc = "advance" => byte = mem[rx[1].first]

-----------------------------------------------------------------------------
(* Index arithmetic.                                                       *)

LEMMA Size == PacketSize \in Nat /\ PacketSize >= 2
BY SizesAssumption

\* A byte put: one more waits, in the slot that is as far behind first as bytes
\* waited, and the buffer does not look empty.
LEMMA PutOne ==
    ASSUME NEW first \in 0 .. PacketSize, NEW last \in 0 .. PacketSize - 1,
           ~BufferFull(first, last, PacketSize)
    PROVE  LET n == BufferNum(first, last, PacketSize)
               l == NextIndex(last, PacketSize)
           IN  /\ l \in 0 .. PacketSize - 1
               /\ BufferNum(first, l, PacketSize) = n + 1
               /\ first # l
               /\ Dist(last, first) = n
               /\ \A s \in Slots : s # last => Dist(s, first) # n
BY Size DEF BufferFull, BufferNum, NextIndex, Dist, Slots

\* A byte taken, with either store: one fewer waits, the others move up.
LEMMA TakeOne ==
    ASSUME NEW first \in 0 .. PacketSize - 1, NEW last \in 0 .. PacketSize - 1,
           first # last, NEW f \in FirstStore(first, PacketSize, TornStores)
    PROVE  LET n == BufferNum(first, last, PacketSize)
           IN  /\ f \in 0 .. PacketSize
               /\ BufferNum(f, last, PacketSize) = n - 1
               /\ n > 0 /\ Dist(first, first) = 0
               /\ \A s \in Slots : Dist(s, f) < n - 1 => Dist(s, first) = Dist(s, f) + 1
<1>1. f = NextIndex(first, PacketSize) \/ f = first + 1
  BY DEF FirstStore
<1> QED
  BY <1>1, Size DEF BufferNum, NextIndex, Dist, Slots

\* The second store of a torn wrap changes neither.
LEMMA WrapSame ==
    ASSUME NEW last \in 0 .. PacketSize - 1
    PROVE  /\ BufferNum(0, last, PacketSize) = BufferNum(PacketSize, last, PacketSize)
           /\ \A s \in Slots : Dist(s, 0) = Dist(s, PacketSize)
BY Size DEF BufferNum, Dist, Slots

LEMMA NumInt ==
    ASSUME NEW first \in 0 .. PacketSize, NEW last \in 0 .. PacketSize - 1,
           NEW size \in {0, PacketSize}
    PROVE  BufferNum(first, last, size) \in Int
BY Size DEF BufferNum

LEMMA Numbers ==
    ASSUME TypeInv
    PROVE  /\ rx[1].first \in 0 .. PacketSize /\ rx[1].last \in 0 .. PacketSize - 1
           /\ rx[1].overrun \in Nat /\ rx[1].size \in {0, PacketSize}
           /\ Waiting(1) \in Int
           /\ line[1] \in Nat /\ hwLost[1] \in Nat
           /\ Len(fifo[1]) \in Nat /\ Len(got[1]) \in Nat /\ Len(heard[1]) \in Nat
           /\ 1 \in BothUarts /\ NoUart = 2
<1>1. 1 \in BothUarts /\ NoUart = 2
  BY DEF BothUarts, NoUart
<1>2. /\ rx[1].first \in 0 .. PacketSize /\ rx[1].last \in 0 .. PacketSize - 1
      /\ rx[1].overrun \in Nat /\ rx[1].size \in {0, PacketSize}
  BY DEF TypeInv
<1>3. Waiting(1) \in Int
  BY <1>2, NumInt DEF Waiting
<1>4. Len(fifo[1]) \in Nat /\ Len(got[1]) \in Nat /\ Len(heard[1]) \in Nat
  BY DEF TypeInv
<1> QED
  BY <1>1, <1>2, <1>3, <1>4 DEF TypeInv

-----------------------------------------------------------------------------
(* Every byte is accounted for.                                            *)

\* The parts of the count, each a number to the provers.
InFifo   == Len(fifo[1])
Dropped  == hwLost[1]
Overrun  == rx[1].overrun
Returned == Len(got[1])
Heard    == Len(heard[1])

LEMMA Parts ==
    ASSUME TypeInv
    PROVE  /\ line[1] \in Nat /\ InFifo \in Nat /\ Dropped \in Nat /\ Overrun \in Nat
           /\ Returned \in Nat /\ Heard \in Nat /\ Waiting(1) \in Int
BY Numbers DEF InFifo, Dropped, Overrun, Returned, Heard

\* The count of a step from the changes of its parts.
LEMMA Balance ==
    ASSUME TypeInv, NothingVanishes,
           NEW l \in Int, NEW f \in Int, NEW h \in Int, NEW o \in Int, NEW g \in Int,
           NEW e \in Int, NEW w \in Int, l = f + h + w + o + g + e,
           line'[1] = line[1] + l, InFifo' = InFifo + f, Dropped' = Dropped + h,
           Overrun' = Overrun + o, Returned' = Returned + g, Heard' = Heard + e,
           Waiting(1)' = Waiting(1) + w
    PROVE  NothingVanishes'
<1>1. line[1] = InFifo + Dropped + Waiting(1) + Overrun + Returned + Heard
  BY DEF NothingVanishes, InFifo, Dropped, Overrun, Returned, Heard
<1>2. line'[1] = InFifo' + Dropped' + Waiting(1)' + Overrun' + Returned' + Heard'
  BY <1>1, Parts
<1> QED
  BY <1>2 DEF NothingVanishes, InFifo, Dropped, Overrun, Returned, Heard

LEMMA InitCount == Init => CountInv
<1> SUFFICES ASSUME Init PROVE CountInv
  OBVIOUS
<1>1. <<>> \in Seq(Byte) /\ 1 \in BothUarts /\ 0 \in BothUarts
  BY DEF BothUarts
<1>2. TypeInv
  BY <1>1, Size DEF Init, TypeInv, NoUart, Unwritten, Byte
<1> QED
  BY <1>1, <1>2, Size DEF Init, CountInv, OpenInv, TakeInv, NothingVanishes, Waiting, BufferNum

LEMMA SetupCount ==
    ASSUME CountInv, NEW u \in {1}, SerialInit(u) \/ SetHandler(u) \/ ClearFifo(u)
    PROVE  CountInv'
<1>1. TypeInv /\ OpenInv /\ TakeInv /\ NothingVanishes /\ u = 1 /\ 1 \in BothUarts
  BY Numbers DEF CountInv
<1>2. CASE SerialInit(u)
  <2>1. /\ 1 \notin opened /\ opened' = {1} /\ app.pc = "idle"
        /\ rx' = [rx EXCEPT ![1] = [first |-> 0, last |-> 0, overrun |-> 0, size |-> PacketSize]]
        /\ fifo' = [fifo EXCEPT ![1] = <<>>]
        /\ UNCHANGED <<mem, isr, app, byte, got, line, hwLost, heard>>
    BY <1>1, <1>2 DEF SerialInit, MainIdle, mainVars, TypeInv
  <2>2. rx'[1] = [first |-> 0, last |-> 0, overrun |-> 0, size |-> PacketSize] /\ fifo'[1] = <<>>
    BY <1>1, <2>1 DEF TypeInv
  <2>3. TypeInv'
    BY <1>1, <2>1, <2>2, Size DEF TypeInv
  <2>4. OpenInv' /\ TakeInv'
    BY <2>1, <2>2 DEF OpenInv, TakeInv
  <2>5. fifo[1] = fifo'[1] /\ rx[1].overrun = rx'[1].overrun /\ Waiting(1) = 0 /\ Waiting(1)' = 0
    BY <1>1, <2>1, <2>2, Size DEF OpenInv, Waiting, BufferNum
  <2> QED
    BY <1>1, <2>1, <2>3, <2>4, <2>5 DEF CountInv, NothingVanishes
<1>3. CASE SetHandler(u)
  BY <1>1, <1>3 DEF SetHandler, hwVars, mainVars, CountInv, TypeInv, OpenInv, TakeInv,
     NothingVanishes, Waiting
<1>4. CASE ClearFifo(u)
  <2>1. /\ fifo' = [fifo EXCEPT ![1] = <<>>]
        /\ hwLost' = [hwLost EXCEPT ![1] = @ + Len(fifo[1])]
        /\ UNCHANGED <<opened, rx, mem, isr, app, byte, got, line, heard>>
    BY <1>1, <1>4 DEF ClearFifo, mainVars
  <2>2. fifo'[1] = <<>> /\ Len(fifo'[1]) = 0 /\ fifo'[1] \in Seq(Byte)
    BY <1>1, <2>1 DEF TypeInv
  <2>3. hwLost'[1] = hwLost[1] + Len(fifo[1]) /\ hwLost' \in [BothUarts -> Nat]
    BY <1>1, <2>1, Numbers DEF TypeInv
  <2>4. TypeInv' /\ OpenInv' /\ TakeInv'
    BY <1>1, <2>1, <2>2, <2>3 DEF TypeInv, OpenInv, TakeInv
  <2>5. Waiting(1)' = Waiting(1)
    BY <2>1 DEF Waiting
  <2>6. /\ line'[1] = line[1] + 0 /\ InFifo' = InFifo + (0 - InFifo)
        /\ Dropped' = Dropped + InFifo /\ Overrun' = Overrun + 0
        /\ Returned' = Returned + 0 /\ Heard' = Heard + 0 /\ Waiting(1)' = Waiting(1) + 0
    <3>1. /\ UNCHANGED <<line, Overrun, Returned, Heard>>
          /\ InFifo' = 0 /\ Dropped' = Dropped + InFifo
      BY <2>1, <2>2, <2>3 DEF InFifo, Dropped, Overrun, Returned, Heard
    <3> QED
      BY <1>1, <2>5, <3>1, Parts
  <2>7. InFifo \in Int /\ 0 - InFifo \in Int /\ 0 = (0 - InFifo) + InFifo + 0 + 0 + 0 + 0
    BY <1>1, Parts
  <2>8. NothingVanishes'
    BY <1>1, <2>6, <2>7, Balance
  <2> QED
    BY <2>4, <2>8 DEF CountInv
<1> QED
  BY <1>2, <1>3, <1>4

LEMMA ArriveCount == ASSUME CountInv, Arrive(1) PROVE CountInv'
<1>1. TypeInv /\ OpenInv /\ TakeInv /\ NothingVanishes /\ 1 \in BothUarts
  BY Numbers DEF CountInv
<1>2. /\ 1 \in opened /\ line' = [line EXCEPT ![1] = @ + 1]
      /\ UNCHANGED <<opened, rx, mem, isr, app, byte, got, heard>>
  BY DEF Arrive, mainVars
<1>3. line'[1] = line[1] + 1 /\ line' \in [BothUarts -> Nat]
  BY <1>1, <1>2, Numbers DEF TypeInv
<1>4. Waiting(1)' = Waiting(1)
  BY <1>2 DEF Waiting
<1>5. CASE Len(fifo[1]) < RxFifo
  <2> DEFINE b == [from |-> 1, n |-> line[1] + 1]
  <2>1. b \in Byte
    BY <1>1, Numbers DEF Byte
  <2>2. fifo' = [fifo EXCEPT ![1] = Append(fifo[1], b)] /\ UNCHANGED hwLost
    BY <1>5 DEF Arrive
  <2>3. fifo'[1] = Append(fifo[1], b) /\ DOMAIN fifo' = BothUarts
    BY <1>1, <2>2 DEF TypeInv
  <2>4. fifo'[1] \in Seq(Byte) /\ Len(fifo'[1]) = Len(fifo[1]) + 1
    BY <1>1, <2>1, <2>3 DEF TypeInv
  <2>5. TypeInv' /\ OpenInv' /\ TakeInv'
    BY <1>1, <1>2, <1>3, <2>2, <2>3, <2>4 DEF TypeInv, OpenInv, TakeInv
  <2>6. /\ UNCHANGED <<Dropped, Overrun, Returned, Heard>>
        /\ line'[1] = line[1] + 1 /\ InFifo' = InFifo + 1
    BY <1>2, <1>3, <2>2, <2>4 DEF InFifo, Dropped, Overrun, Returned, Heard
  <2>7. /\ Dropped' = Dropped + 0 /\ Overrun' = Overrun + 0 /\ Returned' = Returned + 0
        /\ Heard' = Heard + 0 /\ Waiting(1)' = Waiting(1) + 0 /\ 1 = 1 + 0 + 0 + 0 + 0 + 0
    BY <1>1, <1>4, <2>6, Parts
  <2>8. NothingVanishes'
    BY <1>1, <2>6, <2>7, Balance
  <2> QED
    BY <2>5, <2>8 DEF CountInv
<1>6. CASE ~(Len(fifo[1]) < RxFifo)
  <2>1. hwLost' = [hwLost EXCEPT ![1] = @ + 1] /\ UNCHANGED fifo
    BY <1>6 DEF Arrive
  <2>2. hwLost'[1] = hwLost[1] + 1 /\ hwLost' \in [BothUarts -> Nat]
    BY <1>1, <2>1, Numbers DEF TypeInv
  <2>3. TypeInv' /\ OpenInv' /\ TakeInv'
    BY <1>1, <1>2, <1>3, <2>1, <2>2 DEF TypeInv, OpenInv, TakeInv
  <2>4. /\ UNCHANGED <<InFifo, Overrun, Returned, Heard>>
        /\ line'[1] = line[1] + 1 /\ Dropped' = Dropped + 1
    BY <1>2, <1>3, <2>1, <2>2 DEF InFifo, Dropped, Overrun, Returned, Heard
  <2>5. /\ InFifo' = InFifo + 0 /\ Overrun' = Overrun + 0 /\ Returned' = Returned + 0
        /\ Heard' = Heard + 0 /\ Waiting(1)' = Waiting(1) + 0 /\ 1 = 0 + 1 + 0 + 0 + 0 + 0
    BY <1>1, <1>4, <2>4, Parts
  <2>6. NothingVanishes'
    BY <1>1, <2>4, <2>5, Balance
  <2> QED
    BY <2>3, <2>6 DEF CountInv
<1> QED
  BY <1>5, <1>6

\* What the handler does to the buffer: it counts a byte or puts it.
LEMMA PutCases ==
    ASSUME CountInv, NEW d, BufferPut(1, d), 1 \in opened
    PROVE  /\ rx' = [rx EXCEPT ![1] = rx'[1]]
           /\ \/ /\ BufferFull(rx[1].first, rx[1].last, PacketSize)
                 /\ rx'[1] = [rx[1] EXCEPT !.overrun = @ + 1] /\ UNCHANGED mem
              \/ /\ ~BufferFull(rx[1].first, rx[1].last, PacketSize)
                 /\ rx'[1] = [rx[1] EXCEPT !.last = NextIndex(@, PacketSize)]
                 /\ mem' = [mem EXCEPT ![rx[1].last] = d]
<1>1. TypeInv /\ OpenInv /\ rx[1].size = PacketSize /\ 1 \in BothUarts
  BY Numbers DEF CountInv, OpenInv
<1>2. CASE BufferFull(rx[1].first, rx[1].last, PacketSize)
  BY <1>1, <1>2 DEF BufferPut, TypeInv
<1>3. CASE ~BufferFull(rx[1].first, rx[1].last, PacketSize)
  BY <1>1, <1>3 DEF BufferPut, TypeInv
<1> QED
  BY <1>2, <1>3

\* The buffer after the handler has had it, with the byte counted or waiting.
LEMMA PutCounts ==
    ASSUME CountInv, NEW d \in Byte, BufferPut(1, d), 1 \in opened, UNCHANGED <<app, opened>>
    PROVE  /\ DOMAIN rx' = BothUarts /\ mem' \in [Slots -> Byte]
           /\ rx'[1] \in [first : 0 .. PacketSize, last : 0 .. PacketSize - 1,
                          overrun : Nat, size : {0, PacketSize}]
           /\ rx'[1].first = rx[1].first /\ rx'[1].size = PacketSize
           /\ TakeInv'
           /\ \/ rx'[1].overrun = rx[1].overrun + 1 /\ Waiting(1)' = Waiting(1)
              \/ rx'[1].overrun = rx[1].overrun /\ Waiting(1)' = Waiting(1) + 1
<1>1. /\ TypeInv /\ OpenInv /\ TakeInv /\ rx[1].size = PacketSize
      /\ rx[1] \in [first : 0 .. PacketSize, last : 0 .. PacketSize - 1,
                    overrun : Nat, size : {0, PacketSize}]
  BY DEF CountInv, OpenInv, TypeInv
<1>2. DOMAIN rx' = BothUarts /\ mem' \in [Slots -> Byte]
  <2>1. rx[1].last \in Slots /\ mem \in [Slots -> Byte] /\ DOMAIN rx = BothUarts
    BY <1>1, Numbers DEF Slots, TypeInv
  <2>2. mem' = mem \/ mem' = [mem EXCEPT ![rx[1].last] = d]
    BY PutCases
  <2>3. rx' = [rx EXCEPT ![1] = rx'[1]]
    BY PutCases
  <2> QED
    BY <2>1, <2>2, <2>3
<1>3. CASE /\ rx'[1] = [rx[1] EXCEPT !.overrun = @ + 1]
  <2>1. /\ rx'[1] \in [first : 0 .. PacketSize, last : 0 .. PacketSize - 1,
                       overrun : Nat, size : {0, PacketSize}]
        /\ rx'[1].first = rx[1].first /\ rx'[1].last = rx[1].last /\ rx'[1].size = PacketSize
        /\ rx'[1].overrun = rx[1].overrun + 1
    BY <1>1, <1>3
  <2>2. Waiting(1)' = Waiting(1)
    BY <1>1, <2>1 DEF Waiting
  <2> QED
    BY <1>1, <1>2, <2>1, <2>2, Numbers DEF TakeInv
<1>4. CASE /\ ~BufferFull(rx[1].first, rx[1].last, PacketSize)
           /\ rx'[1] = [rx[1] EXCEPT !.last = NextIndex(@, PacketSize)]
  <2>1. /\ NextIndex(rx[1].last, PacketSize) \in 0 .. PacketSize - 1
        /\ rx[1].first # NextIndex(rx[1].last, PacketSize)
        /\ BufferNum(rx[1].first, NextIndex(rx[1].last, PacketSize), PacketSize)
             = BufferNum(rx[1].first, rx[1].last, PacketSize) + 1
    BY <1>1, <1>4, PutOne
  <2>2. /\ rx'[1] \in [first : 0 .. PacketSize, last : 0 .. PacketSize - 1,
                       overrun : Nat, size : {0, PacketSize}]
        /\ rx'[1].first = rx[1].first /\ rx'[1].size = PacketSize
        /\ rx'[1].last = NextIndex(rx[1].last, PacketSize) /\ rx'[1].overrun = rx[1].overrun
    BY <1>1, <1>4, <2>1
  <2>3. Waiting(1)' = Waiting(1) + 1
    BY <1>1, <2>1, <2>2 DEF Waiting
  <2> QED
    BY <1>1, <1>2, <2>1, <2>2, <2>3, Numbers DEF TakeInv
<1> QED
  BY <1>3, <1>4, PutCases

LEMMA IsrReceiveCount == ASSUME CountInv, IsrReceive PROVE CountInv'
<1>1. /\ TypeInv /\ OpenInv /\ TakeInv /\ NothingVanishes /\ 1 \in BothUarts
      /\ isr = 1 /\ 1 \in opened /\ fifo[1] # <<>> /\ fifo[1] \in Seq(Byte)
  BY Numbers DEF CountInv, IsrReceive, TypeInv
<1>2. /\ Head(fifo[1]) \in Byte /\ Tail(fifo[1]) \in Seq(Byte)
      /\ Len(Tail(fifo[1])) = Len(fifo[1]) - 1
  BY <1>1, HeadTailProperties
<1>3. /\ fifo' = [fifo EXCEPT ![1] = Tail(fifo[1])]
      /\ UNCHANGED <<opened, handler, isr, app, byte, got, line, hwLost>>
  BY <1>1 DEF IsrReceive, mainVars
<1>4. fifo'[1] = Tail(fifo[1]) /\ DOMAIN fifo' = BothUarts
  BY <1>1, <1>3 DEF TypeInv
<1>5. CASE handler[1] = "user"
  <2>1. heard' = [heard EXCEPT ![1] = Append(heard[1], Head(fifo[1]))] /\ UNCHANGED <<rx, mem>>
    BY <1>1, <1>5 DEF IsrReceive
  <2>2. heard'[1] = Append(heard[1], Head(fifo[1])) /\ DOMAIN heard' = BothUarts
    BY <1>1, <2>1 DEF TypeInv
  <2>3. heard'[1] \in Seq(Byte) /\ Len(heard'[1]) = Len(heard[1]) + 1
    BY <1>1, <1>2, <2>2 DEF TypeInv
  <2>4. TypeInv' /\ OpenInv' /\ TakeInv'
    BY <1>1, <1>2, <1>3, <1>4, <2>1, <2>2, <2>3 DEF TypeInv, OpenInv, TakeInv
  <2>5. Waiting(1)' = Waiting(1)
    BY <2>1 DEF Waiting
  <2>6. /\ UNCHANGED <<line, Dropped, Overrun, Returned>> /\ Heard' = Heard + 1
        /\ InFifo' = InFifo - 1
    BY <1>2, <1>3, <1>4, <2>1, <2>3 DEF InFifo, Dropped, Overrun, Returned, Heard
  <2>7. /\ line'[1] = line[1] + 0 /\ Dropped' = Dropped + 0 /\ Overrun' = Overrun + 0
        /\ Returned' = Returned + 0 /\ Waiting(1)' = Waiting(1) + 0
        /\ InFifo' = InFifo + (-1) /\ 0 = (-1) + 0 + 0 + 0 + 0 + 1
    BY <1>1, <2>5, <2>6, Parts
  <2>8. NothingVanishes'
    BY <1>1, <2>6, <2>7, Balance
  <2> QED
    BY <2>4, <2>8 DEF CountInv
<1>6. CASE handler[1] # "user"
  <2>1. BufferPut(1, Head(fifo[1])) /\ UNCHANGED heard
    BY <1>1, <1>6 DEF IsrReceive
  <2>2. /\ DOMAIN rx' = BothUarts /\ mem' \in [Slots -> Byte]
        /\ rx'[1] \in [first : 0 .. PacketSize, last : 0 .. PacketSize - 1,
                       overrun : Nat, size : {0, PacketSize}]
        /\ rx'[1].first = rx[1].first /\ rx'[1].size = PacketSize
        /\ TakeInv'
        /\ \/ rx'[1].overrun = rx[1].overrun + 1 /\ Waiting(1)' = Waiting(1)
           \/ rx'[1].overrun = rx[1].overrun /\ Waiting(1)' = Waiting(1) + 1
    BY <1>1, <1>2, <1>3, <2>1, PutCounts
  <2>3. TypeInv'
    BY <1>1, <1>2, <1>3, <1>4, <2>1, <2>2 DEF TypeInv
  <2>4. OpenInv'
    BY <1>1, <1>3, <2>2 DEF OpenInv
  <2>5. /\ UNCHANGED <<line, Dropped, Returned, Heard>> /\ InFifo' = InFifo - 1
        /\ \/ Overrun' = Overrun + 1 /\ Waiting(1)' = Waiting(1)
           \/ Overrun' = Overrun /\ Waiting(1)' = Waiting(1) + 1
    BY <1>2, <1>3, <1>4, <2>1, <2>2 DEF InFifo, Dropped, Overrun, Returned, Heard
  <2>6. /\ line'[1] = line[1] + 0 /\ Dropped' = Dropped + 0 /\ Heard' = Heard + 0
        /\ Returned' = Returned + 0 /\ InFifo' = InFifo + (-1)
    BY <1>1, <2>5, Parts
  <2>7. NothingVanishes'
    <3>1. CASE Overrun' = Overrun + 1 /\ Waiting(1)' = Waiting(1)
      <4>1. Waiting(1)' = Waiting(1) + 0 /\ 0 = (-1) + 0 + 0 + 1 + 0 + 0
        BY <1>1, <3>1, Parts
      <4>2. -1 \in Int /\ 0 \in Int /\ 1 \in Int
        OBVIOUS
      <4> QED
        BY <1>1, <2>6, <3>1, <4>1, <4>2, Balance, SMTT(60)
    <3>2. CASE Overrun' = Overrun /\ Waiting(1)' = Waiting(1) + 1
      <4>1. Overrun' = Overrun + 0 /\ 0 = (-1) + 0 + 1 + 0 + 0 + 0
        BY <1>1, <3>2, Parts
      <4> QED
        BY <1>1, <2>6, <3>2, <4>1, Balance
    <3> QED
      BY <2>5, <3>1, <3>2
  <2> QED
    BY <2>2, <2>3, <2>4, <2>7 DEF CountInv
<1> QED
  BY <1>5, <1>6

\* The steps of the handler's loop and of the main program that leave the
\* counts alone.
LEMMA QuietCount ==
    ASSUME CountInv, IsrEnter(1) \/ IsrLeave \/ (\E w \in BOOLEAN : GetChar(1, w))
                     \/ GetCheck \/ GetRead
    PROVE  CountInv'
<1>1. /\ TypeInv /\ OpenInv /\ TakeInv /\ NothingVanishes
      /\ UNCHANGED <<opened, rx, mem, fifo, line, hwLost, got, heard>>
  BY DEF CountInv, IsrEnter, IsrLeave, GetChar, GetCheck, GetRead, hwVars, mainVars
<1>2. NothingVanishes' /\ OpenInv'
  BY <1>1 DEF NothingVanishes, Waiting, OpenInv
<1>3. CASE IsrEnter(1) \/ IsrLeave
  BY <1>1, <1>2, <1>3 DEF IsrEnter, IsrLeave, mainVars, CountInv, TypeInv, TakeInv
<1>4. ASSUME NEW w \in BOOLEAN, GetChar(1, w) PROVE CountInv'
  BY <1>1, <1>2, <1>4 DEF GetChar, MainIdle, CountInv, TypeInv, TakeInv
<1>5. CASE GetCheck
  <2>1. app.uart = 1 /\ app.pc = "check" /\ UNCHANGED isr
    BY <1>1, <1>5 DEF GetCheck, TypeInv
  <2>2. /\ app'.uart = 1 /\ app'.pc \in {"read", "check", "idle"}
        /\ app'.pc = "read" => ~BufferEmpty(rx[1].first, rx[1].last)
    BY <1>5, <2>1 DEF GetCheck
  <2>3. TypeInv'
    BY <1>1, <2>1, <2>2, <1>5 DEF GetCheck, TypeInv
  <2>4. TakeInv'
    BY <1>1, <2>2 DEF TakeInv, BufferEmpty
  <2> QED
    BY <1>2, <2>3, <2>4 DEF CountInv
<1>6. CASE GetRead
  <2>1. app.pc = "read" /\ app.uart = 1 /\ app' = [app EXCEPT !.pc = "advance"]
        /\ UNCHANGED isr /\ byte' = mem[rx[1].first]
    BY <1>1, <1>6 DEF GetRead, TypeInv
  <2>2. rx[1].first \in Slots
    BY <1>1, <2>1, Numbers, Size DEF TypeInv, Slots
  <2>3. byte' \in Byte
    BY <1>1, <2>1, <2>2 DEF TypeInv
  <2> QED
    BY <1>1, <1>2, <2>1, <2>3 DEF CountInv, TypeInv, TakeInv
<1> QED
  BY <1>3, <1>4, <1>5, <1>6

\* The main program frees a slot with the byte it read.
LEMMA AdvanceCount == ASSUME CountInv, GetAdvance PROVE CountInv'
<1>1. /\ TypeInv /\ OpenInv /\ TakeInv /\ NothingVanishes /\ 1 \in BothUarts
      /\ app.uart = 1 /\ app.pc = "advance" /\ 1 \in opened /\ rx[1].first # rx[1].last
  BY Numbers DEF CountInv, GetAdvance, TypeInv, TakeInv
<1>2. /\ rx[1].first \in 0 .. PacketSize - 1 /\ rx[1].last \in 0 .. PacketSize - 1
      /\ rx[1].size = PacketSize
  BY <1>1, Size, Numbers DEF TypeInv, OpenInv
<1>3. PICK f \in FirstStore(rx[1].first, PacketSize, TornStores) :
         /\ rx' = [rx EXCEPT ![1].first = f]
         /\ app' = [app EXCEPT !.pc = IF f = PacketSize THEN "wrap" ELSE "idle"]
  BY <1>1 DEF GetAdvance
<1>4. /\ f \in 0 .. PacketSize
      /\ BufferNum(f, rx[1].last, PacketSize)
           = BufferNum(rx[1].first, rx[1].last, PacketSize) - 1
  BY <1>1, <1>2, TakeOne
<1>5. /\ UNCHANGED <<opened, isr, fifo, line, hwLost, heard>>
      /\ got' = [got EXCEPT ![1] = Append(got[1], byte)]
  BY <1>1 DEF GetAdvance, hwVars
<1>6. /\ rx'[1] = [rx[1] EXCEPT !.first = f] /\ DOMAIN rx' = BothUarts
      /\ rx'[1] \in [first : 0 .. PacketSize, last : 0 .. PacketSize - 1,
                     overrun : Nat, size : {0, PacketSize}]
      /\ rx'[1].first = f /\ rx'[1].last = rx[1].last /\ rx'[1].overrun = rx[1].overrun
      /\ rx'[1].size = PacketSize
  BY <1>1, <1>2, <1>3, <1>4 DEF TypeInv
<1>7. app'.pc \in {"wrap", "idle"} /\ app'.uart = 1 /\ (app'.pc = "wrap" <=> f = PacketSize)
  BY <1>1, <1>3
<1>8. got'[1] = Append(got[1], byte) /\ DOMAIN got' = BothUarts /\ got'[0] = <<>>
  BY <1>1, <1>5 DEF TypeInv
<1>9. got'[1] \in Seq(Byte) /\ Len(got'[1]) = Len(got[1]) + 1
  BY <1>1, <1>8 DEF TypeInv
<1>10. TypeInv'
  <2>1. UNCHANGED <<mem, byte>>
    BY DEF GetAdvance
  <2> QED
    BY <1>1, <1>5, <1>6, <1>7, <1>8, <1>9, <2>1 DEF TypeInv
<1>11. OpenInv' /\ TakeInv'
  BY <1>1, <1>5, <1>6, <1>7 DEF OpenInv, TakeInv
<1>12. Waiting(1)' = Waiting(1) + (-1)
  <2>1. Waiting(1) = BufferNum(rx[1].first, rx[1].last, PacketSize)
        /\ Waiting(1)' = BufferNum(f, rx[1].last, PacketSize)
    BY <1>2, <1>6 DEF Waiting
  <2> QED
    BY <1>1, <1>4, <2>1, Parts
<1>13. /\ UNCHANGED <<line, InFifo, Dropped, Overrun, Heard>> /\ Returned' = Returned + 1
  BY <1>5, <1>6, <1>9 DEF InFifo, Dropped, Overrun, Returned, Heard
<1>14. /\ line'[1] = line[1] + 0 /\ InFifo' = InFifo + 0 /\ Dropped' = Dropped + 0
       /\ Overrun' = Overrun + 0 /\ Heard' = Heard + 0 /\ 0 = 0 + 0 + (-1) + 0 + 1 + 0
  BY <1>1, <1>13, Parts
<1>15. NothingVanishes'
  BY <1>1, <1>12, <1>13, <1>14, Balance
<1> QED
  BY <1>10, <1>11, <1>15 DEF CountInv

\* The second store of a torn wrap.
LEMMA WrapCount == ASSUME CountInv, GetWrap PROVE CountInv'
<1>1. /\ TypeInv /\ OpenInv /\ TakeInv /\ NothingVanishes /\ 1 \in BothUarts
      /\ app.uart = 1 /\ app.pc = "wrap" /\ 1 \in opened /\ rx[1].first = PacketSize
      /\ rx[1].last \in 0 .. PacketSize - 1 /\ rx[1].size = PacketSize
  BY Numbers DEF CountInv, GetWrap, TypeInv, TakeInv, OpenInv
<1>2. /\ rx' = [rx EXCEPT ![1].first = 0] /\ app' = [app EXCEPT !.pc = "idle"]
      /\ UNCHANGED <<opened, mem, isr, byte, got, fifo, line, hwLost, heard>>
  BY <1>1 DEF GetWrap, hwVars
<1>3. /\ DOMAIN rx' = BothUarts
      /\ rx'[1] \in [first : 0 .. PacketSize, last : 0 .. PacketSize - 1,
                     overrun : Nat, size : {0, PacketSize}]
      /\ rx'[1].first = 0 /\ rx'[1].last = rx[1].last /\ rx'[1].overrun = rx[1].overrun
      /\ rx'[1].size = PacketSize
  <2>1. rx'[1] = [rx[1] EXCEPT !.first = 0] /\ DOMAIN rx' = BothUarts
    BY <1>1, <1>2 DEF TypeInv
  <2>2. rx[1] \in [first : 0 .. PacketSize, last : 0 .. PacketSize - 1,
                  overrun : Nat, size : {0, PacketSize}] /\ 0 \in 0 .. PacketSize
    BY <1>1, Size DEF TypeInv
  <2> QED
    BY <1>1, <2>1, <2>2
<1>4. TypeInv'
  BY <1>1, <1>2, <1>3, Size DEF TypeInv
<1>5. OpenInv' /\ TakeInv'
  BY <1>1, <1>2, <1>3 DEF OpenInv, TakeInv
<1>6. Waiting(1)' = Waiting(1)
  BY <1>1, <1>3, WrapSame DEF Waiting
<1>7. NothingVanishes'
  BY <1>1, <1>2, <1>3, <1>6 DEF NothingVanishes
<1> QED
  BY <1>4, <1>5, <1>7 DEF CountInv

LEMMA CountStep ==
    ASSUME Uarts = {1}, CountInv, [Next]_vars
    PROVE  CountInv'
<1>1. CASE Setup
  BY <1>1, SetupCount DEF Setup
<1>2. CASE Hw
  BY <1>2, ArriveCount DEF Hw
<1>3. CASE Call
  BY <1>3, QuietCount DEF Call
<1>4. CASE Driver
  BY <1>4, QuietCount, AdvanceCount, WrapCount DEF Driver
<1>5. CASE Isr
  BY <1>5, QuietCount, IsrReceiveCount DEF Isr
<1>6. CASE UNCHANGED vars
  BY <1>6 DEF vars, mainVars, hwVars, CountInv, TypeInv, OpenInv, TakeInv, NothingVanishes,
     Waiting
<1> QED
  BY <1>1, <1>2, <1>3, <1>4, <1>5, <1>6 DEF Next

\* The count of bytes balances in every state: no interleaving of the handler
\* with serial_getchar loses one unseen.
THEOREM CountsBalance ==
    ASSUME Uarts = {1}
    PROVE  Spec => []NothingVanishes
<1>1. Spec => []CountInv
  BY InitCount, CountStep, PTL DEF Spec
<1>2. CountInv => NothingVanishes
  BY DEF CountInv
<1> QED
  BY <1>1, <1>2, PTL

\* A byte is counted as overrun only when all the slots that may be in use hold
\* bytes the application has not taken.
THEOREM NoEarlyOverrun ==
    ASSUME Uarts = {1}
    PROVE  Spec => RefusesOnlyWhenFull
<1> DEFINE Refusal == rx'[1].overrun > rx[1].overrun => Untaken(1) = PacketSize - 1
<1>1. Spec => []CountInv
  BY InitCount, CountStep, PTL DEF Spec
<1>2. ASSUME CountInv, Next PROVE Refusal
  <2> SUFFICES ASSUME rx'[1].overrun > rx[1].overrun PROVE Untaken(1) = PacketSize - 1
    OBVIOUS
  <2>1. /\ TypeInv /\ NothingVanishes /\ rx[1].overrun \in Nat /\ 1 \in BothUarts
        /\ DOMAIN rx = BothUarts
    BY <1>2, Numbers DEF CountInv, TypeInv
  <2>2. Waiting(1) = PacketSize - 1
    <3>1. CASE Setup
      <4>1. PICK u \in {1} : SerialInit(u) \/ SetHandler(u) \/ ClearFifo(u)
        BY <3>1 DEF Setup
      <4>2. rx' = rx \/ (1 \notin opened /\ rx'[1].overrun = 0)
        BY <4>1, <2>1 DEF SerialInit, SetHandler, ClearFifo
      <4> QED
        BY <4>2, <2>1
    <3>2. CASE Hw \/ Call
      BY <3>2, <2>1 DEF Hw, Arrive, Call, GetChar
    <3>3. CASE Driver
      <4>1. CASE GetCheck \/ GetRead
        BY <4>1, <2>1 DEF GetCheck, GetRead
      <4>2. CASE GetAdvance
        <5>1. app.uart = 1 /\ \E f : rx' = [rx EXCEPT ![1].first = f]
          BY <4>2, <2>1 DEF GetAdvance, TypeInv
        <5> QED
          BY <5>1, <2>1 DEF TypeInv
      <4>3. CASE GetWrap
        <5>1. rx' = [rx EXCEPT ![1].first = 0]
          BY <4>3, <2>1 DEF GetWrap, TypeInv
        <5> QED
          BY <5>1, <2>1 DEF TypeInv
      <4> QED
        BY <3>3, <4>1, <4>2, <4>3 DEF Driver
    <3>4. CASE Isr
      <4>1. rx' # rx
        BY <2>1
      <4>2. IsrReceive /\ isr = 1 /\ 1 \in opened /\ BufferPut(1, Head(fifo[1]))
        BY <3>4, <4>1, <2>1 DEF Isr, IsrEnter, IsrLeave, IsrReceive, TypeInv
      <4>3. BufferFull(rx[1].first, rx[1].last, PacketSize)
        <5>1. SUFFICES ASSUME ~BufferFull(rx[1].first, rx[1].last, PacketSize) PROVE FALSE
          OBVIOUS
        <5>2. rx'[1] = [rx[1] EXCEPT !.last = NextIndex(@, PacketSize)]
          BY <1>2, <4>2, <5>1, PutCases
        <5>3. rx'[1].overrun = rx[1].overrun
          BY <5>2, <2>1 DEF TypeInv
        <5> QED
          BY <5>3, <2>1
      <4>4. rx[1].size = PacketSize
        BY <1>2, <4>2 DEF CountInv, OpenInv
      <4> QED
        BY <4>3, <4>4, <2>1, Numbers, Size DEF Waiting, BufferFull, BufferNum, NextIndex
    <3> QED
      BY <1>2, <3>1, <3>2, <3>3, <3>4 DEF Next
  <2>3. Untaken(1) = line[1] - (InFifo + Dropped + Overrun + Heard) - Returned
    BY DEF Untaken, InFifo, Dropped, Overrun, Heard, Returned
  <2>4. line[1] = InFifo + Dropped + Waiting(1) + Overrun + Returned + Heard
    BY <2>1 DEF NothingVanishes, InFifo, Dropped, Overrun, Heard, Returned
  <2>5. Untaken(1) = Waiting(1)
    BY <2>1, <2>3, <2>4, Parts
  <2> QED
    BY <2>2, <2>5
<1>3. CountInv /\ [Next]_vars => [Refusal]_vars
  BY <1>2
<1> QED
  BY <1>1, <1>3, PTL DEF Spec, RefusesOnlyWhenFull

-----------------------------------------------------------------------------
(* Bytes keep their order.                                                 *)

\* Steps that leave the buffer, what has been returned and the application's
\* byte alone, and at most forget bytes of the FIFO.
LEMMA LosingKeepsOrder ==
    ASSUME TypeInv, OrderInv, UNCHANGED <<mem, byte, got, line>>,
           rx'[1].first = rx[1].first, rx'[1].last = rx[1].last, rx'[1].size = rx[1].size,
           app'.pc = "advance" => app.pc = "advance",
           \/ fifo'[1] = fifo[1]
           \/ fifo'[1] = <<>>
           \/ fifo[1] # <<>> /\ fifo'[1] = Tail(fifo[1])
    PROVE  OrderInv'
<1>1. \A s \in Slots : Waits(s)' = Waits(s) /\ Behind(s)' = Behind(s)
  BY DEF Waits, Behind, Dist, Waiting
<1>2. CASE fifo'[1] = fifo[1]
  BY <1>1, <1>2 DEF OrderInv
<1>3. CASE fifo'[1] = <<>>
  BY <1>1, <1>3 DEF OrderInv
<1>4. CASE fifo[1] # <<>> /\ fifo'[1] = Tail(fifo[1])
  <2>1. \A i \in 1 .. Len(fifo'[1]) : i + 1 \in 1 .. Len(fifo[1]) /\ fifo'[1][i] = fifo[1][i + 1]
    BY <1>4 DEF TypeInv
  <2>2. \A i, j \in 1 .. Len(fifo'[1]) : j < i => j + 1 < i + 1
    BY <1>4 DEF TypeInv
  <2> QED
    BY <1>1, <2>1, <2>2 DEF OrderInv
<1> QED
  BY <1>2, <1>3, <1>4

LEMMA InitOrder == Init => OrderInv
BY Size DEF Init, OrderInv, Waits, Behind, Dist, Waiting, BufferNum, BothUarts, Slots

LEMMA SetupOrder ==
    ASSUME CountInv, OrderInv, NEW u \in {1}, SerialInit(u) \/ SetHandler(u) \/ ClearFifo(u)
    PROVE  OrderInv'
<1>1. TypeInv /\ u = 1 /\ 1 \in BothUarts
  BY Numbers DEF CountInv
<1>2. CASE SerialInit(u)
  <2>1. /\ rx'[1].first = 0 /\ rx'[1].last = 0 /\ fifo'[1] = <<>>
        /\ UNCHANGED <<app, byte, got, line>> /\ app.pc = "idle"
    BY <1>1, <1>2 DEF SerialInit, MainIdle, mainVars, TypeInv
  <2>2. \A s \in Slots : ~Waits(s)'
    BY <2>1, Size DEF Waits, Behind, Dist, Waiting, BufferNum, Slots
  <2> QED
    BY <2>1, <2>2 DEF OrderInv
<1>3. CASE SetHandler(u)
  BY <1>1, <1>3, LosingKeepsOrder DEF SetHandler, hwVars, mainVars
<1>4. CASE ClearFifo(u)
  <2>1. fifo'[1] = <<>> /\ UNCHANGED <<rx, mem, app, byte, got, line>>
    BY <1>1, <1>4 DEF ClearFifo, mainVars, TypeInv
  <2> QED
    BY <1>1, <2>1, LosingKeepsOrder
<1> QED
  BY <1>2, <1>3, <1>4

LEMMA ArriveOrder == ASSUME CountInv, OrderInv, Arrive(1) PROVE OrderInv'
<1>1. TypeInv /\ 1 \in BothUarts /\ line[1] \in Nat
  BY Numbers DEF CountInv
<1>2. line'[1] = line[1] + 1 /\ UNCHANGED <<rx, mem, app, byte, got>>
  BY <1>1 DEF Arrive, mainVars, TypeInv
<1>3. \A s \in Slots : Waits(s)' = Waits(s) /\ Behind(s)' = Behind(s)
  BY <1>2 DEF Waits, Behind, Dist, Waiting
<1>4. \A n \in 1 .. line[1] : n \in 1 .. line'[1] /\ n < line[1] + 1
  BY <1>1, <1>2
<1>5. CASE UNCHANGED fifo
  BY <1>2, <1>3, <1>4, <1>5 DEF OrderInv
<1>6. CASE fifo'[1] = Append(fifo[1], [from |-> 1, n |-> line[1] + 1])
  <2>1. /\ Len(fifo[1]) \in Nat /\ Len(fifo'[1]) = Len(fifo[1]) + 1
        /\ \A i \in 1 .. Len(fifo[1]) : fifo'[1][i] = fifo[1][i]
        /\ fifo'[1][Len(fifo[1]) + 1].n = line[1] + 1
    BY <1>1, <1>6 DEF TypeInv
  <2>2. /\ 1 .. Len(fifo'[1]) = 1 .. Len(fifo[1]) \cup {Len(fifo[1]) + 1}
        /\ \A i \in 1 .. Len(fifo[1]) : ~(Len(fifo[1]) + 1 < i)
        /\ ~(Len(fifo[1]) + 1 < Len(fifo[1]) + 1)
    BY <2>1
  <2>3. line[1] + 1 \in 1 .. line'[1]
    BY <1>1, <1>2
  <2> QED
    BY <1>2, <1>3, <1>4, <2>1, <2>2, <2>3 DEF OrderInv
<1>7. \/ fifo'[1] = Append(fifo[1], [from |-> 1, n |-> line[1] + 1])
      \/ UNCHANGED fifo
  BY <1>1 DEF Arrive, TypeInv
<1> QED
  BY <1>5, <1>6, <1>7

\* A byte put waits behind all others and came after them.
LEMMA IsrReceiveOrder == ASSUME CountInv, OrderInv, IsrReceive PROVE OrderInv'
<1>1. /\ TypeInv /\ 1 \in BothUarts /\ isr = 1 /\ 1 \in opened /\ rx[1].size = PacketSize
      /\ fifo[1] # <<>> /\ fifo[1] \in Seq(Byte)
      /\ UNCHANGED <<app, byte, got, line>> /\ fifo'[1] = Tail(fifo[1])
  BY Numbers DEF CountInv, OpenInv, IsrReceive, mainVars, TypeInv
<1>2. CASE UNCHANGED <<rx, mem>>
  BY <1>1, <1>2, LosingKeepsOrder
<1>3. CASE /\ rx'[1] = [rx[1] EXCEPT !.overrun = @ + 1] /\ UNCHANGED mem
  <2>1. rx'[1].first = rx[1].first /\ rx'[1].last = rx[1].last /\ rx'[1].size = rx[1].size
    BY <1>1, <1>3 DEF TypeInv
  <2> QED
    BY <1>1, <1>3, <2>1, LosingKeepsOrder
<1>4. CASE /\ ~BufferFull(rx[1].first, rx[1].last, PacketSize)
           /\ rx'[1] = [rx[1] EXCEPT !.last = NextIndex(@, PacketSize)]
           /\ mem' = [mem EXCEPT ![rx[1].last] = Head(fifo[1])]
  <2> DEFINE end == rx[1].last
             n == Waiting(1)
  <2>1. /\ rx'[1].first = rx[1].first /\ rx'[1].last = NextIndex(end, PacketSize)
        /\ rx'[1].size = PacketSize /\ end \in Slots
        /\ rx[1].first \in 0 .. PacketSize /\ end \in 0 .. PacketSize - 1
    BY <1>1, <1>4, Numbers DEF TypeInv, Slots
  <2>2. /\ Waiting(1)' = n + 1 /\ Behind(end) = n /\ n \in Int
        /\ \A s \in Slots : s # end => Behind(s) # n
        /\ \A s \in Slots : Behind(s) \in Int
    <3>1. /\ BufferNum(rx[1].first, NextIndex(end, PacketSize), PacketSize)
               = BufferNum(rx[1].first, end, PacketSize) + 1
          /\ Dist(end, rx[1].first) = BufferNum(rx[1].first, end, PacketSize)
          /\ \A s \in Slots : s # end => Dist(s, rx[1].first) # BufferNum(rx[1].first, end, PacketSize)
      BY <1>4, <2>1, PutOne
    <3>2. \A s \in Slots : Dist(s, rx[1].first) \in Int
      BY <2>1, Size DEF Dist, Slots
    <3> QED
      BY <1>1, <2>1, <3>1, <3>2, Numbers DEF Waiting, Behind
  <2>3. \A s \in Slots : /\ Behind(s)' = Behind(s)
                         /\ Waits(s)' <=> Waits(s) \/ s = end
                         /\ ~Waits(end)
                         /\ Waits(s) => Behind(s) < Behind(end)
    <3>1. \A s \in Slots : Behind(s)' = Behind(s)
      BY <2>1 DEF Behind
    <3>2. \A s \in Slots : (Waits(s)' <=> Behind(s)' < n + 1) /\ (Waits(s) <=> Behind(s) < n)
      BY <2>2 DEF Waits
    <3>3. ASSUME NEW s \in Slots
          PROVE  /\ Behind(s)' = Behind(s) /\ (Waits(s)' <=> Waits(s) \/ s = end)
                 /\ ~Waits(end) /\ (Waits(s) => Behind(s) < Behind(end))
      <4> HIDE DEF end, n
      <4>1. /\ Behind(s) \in Int /\ n \in Int /\ Behind(end) = n /\ (s # end => Behind(s) # n)
            /\ Behind(s)' = Behind(s) /\ (Waits(end) <=> Behind(end) < n)
            /\ (Waits(s)' <=> Behind(s)' < n + 1) /\ (Waits(s) <=> Behind(s) < n)
        BY <2>1, <2>2, <3>1, <3>2
      <4> QED
        BY <4>1
    <3> QED
      BY <3>3
  <2>4. \A s \in Slots : mem'[s] = IF s = end THEN fifo[1][1] ELSE mem[s]
    BY <1>1, <1>4, <2>1 DEF TypeInv
  <2>5. \A i \in 1 .. Len(fifo'[1]) : /\ i + 1 \in 1 .. Len(fifo[1]) /\ 1 < i + 1
                                      /\ fifo'[1][i] = fifo[1][i + 1]
    BY <1>1
  <2>6. \A i, j \in 1 .. Len(fifo'[1]) : j < i => j + 1 < i + 1
    BY <1>1
  <2>7. 1 \in 1 .. Len(fifo[1])
    BY <1>1
  <2>8. app.pc = "advance" => rx[1].first # end /\ rx[1].first \in Slots
    <3>1. app.pc = "advance" => rx[1].first # end /\ rx[1].first # PacketSize
      BY <1>1 DEF CountInv, TakeInv, TypeInv
    <3> QED
      BY <2>1, <3>1, Size DEF Slots
  <2>9. /\ \A s \in Slots : Waits(s)' => mem'[s].n \in 1 .. line'[1]
        /\ \A s, t \in Slots : Waits(s)' /\ Waits(t)' /\ Behind(s)' < Behind(t)'
                                => mem'[s].n < mem'[t].n
    <3>1. \A s \in Slots : Waits(s) \/ s = end => ~(Behind(end) < Behind(s))
      BY <2>2 DEF Waits
    <3>2. fifo[1][1].n \in 1 .. line[1] /\ \A s \in Slots : Waits(s) => mem[s].n < fifo[1][1].n
      BY <2>7 DEF OrderInv
    <3>3. ASSUME NEW s \in Slots, Waits(s)' PROVE mem'[s].n \in 1 .. line'[1]
      BY <1>1, <2>3, <2>4, <3>2, <3>3 DEF OrderInv
    <3>4. ASSUME NEW s \in Slots, NEW t \in Slots, Waits(s)', Waits(t)', Behind(s)' < Behind(t)'
          PROVE  mem'[s].n < mem'[t].n
      <4>1. s # end /\ Waits(s) /\ (Waits(t) \/ t = end) /\ Behind(s) < Behind(t)
        BY <2>3, <3>1, <3>4
      <4> QED
        BY <2>4, <3>2, <4>1 DEF OrderInv
    <3> QED
      BY <3>3, <3>4
  <2>10. ASSUME NEW i \in 1 .. Len(got'[1]), NEW s \in Slots, Waits(s)'
         PROVE  got'[1][i].n < mem'[s].n
    <3>1. (Waits(s) /\ s # end /\ mem'[s] = mem[s]) \/ mem'[s] = fifo[1][1]
      BY <2>3, <2>4, <2>10
    <3> QED
      BY <1>1, <2>7, <3>1 DEF OrderInv
  <2>11. ASSUME NEW s \in Slots, NEW j \in 1 .. Len(fifo'[1]), Waits(s)'
         PROVE  mem'[s].n < fifo'[1][j].n
    <3>1. (Waits(s) /\ s # end /\ mem'[s] = mem[s]) \/ mem'[s] = fifo[1][1]
      BY <2>3, <2>4, <2>11
    <3> QED
      BY <2>5, <2>7, <3>1 DEF OrderInv
  <2>12. /\ \A i \in 1 .. Len(got'[1]) : got'[1][i].n \in 1 .. line'[1]
         /\ \A i \in 1 .. Len(fifo'[1]) : fifo'[1][i].n \in 1 .. line'[1]
         /\ \A i, j \in 1 .. Len(got'[1]) : j < i => got'[1][j].n < got'[1][i].n
         /\ \A i, j \in 1 .. Len(fifo'[1]) : j < i => fifo'[1][j].n < fifo'[1][i].n
         /\ \A i \in 1 .. Len(got'[1]), j \in 1 .. Len(fifo'[1]) : got'[1][i].n < fifo'[1][j].n
    BY <1>1, <2>5, <2>6 DEF OrderInv
  <2>13. app'.pc = "advance" => byte' = mem'[rx'[1].first]
    BY <1>1, <2>1, <2>4, <2>8 DEF OrderInv
  <2> QED
    BY <2>9, <2>10, <2>11, <2>12, <2>13 DEF OrderInv
<1>5. UNCHANGED <<rx, mem>> \/ BufferPut(1, Head(fifo[1]))
  BY <1>1 DEF IsrReceive
<1> QED
  BY <1>1, <1>2, <1>3, <1>4, <1>5, PutCases

\* The byte returned is the one at first: it came before those that still wait.
LEMMA AdvanceOrder == ASSUME CountInv, OrderInv, GetAdvance PROVE OrderInv'
<1>1. /\ TypeInv /\ 1 \in BothUarts /\ app.uart = 1 /\ app.pc = "advance" /\ 1 \in opened
      /\ rx[1].first # rx[1].last /\ rx[1].size = PacketSize
      /\ UNCHANGED <<mem, fifo, line>>
  BY Numbers DEF CountInv, OpenInv, GetAdvance, hwVars, TypeInv, TakeInv
<1>2. /\ rx[1].first \in 0 .. PacketSize - 1 /\ rx[1].last \in 0 .. PacketSize - 1
      /\ rx[1].first \in Slots
  BY <1>1, Size, Numbers DEF TypeInv, Slots
<1>3. PICK f \in FirstStore(rx[1].first, PacketSize, TornStores) :
         /\ rx' = [rx EXCEPT ![1].first = f]
         /\ app' = [app EXCEPT !.pc = IF f = PacketSize THEN "wrap" ELSE "idle"]
         /\ got' = [got EXCEPT ![1] = Append(got[1], byte)]
  BY <1>1 DEF GetAdvance
<1>4. /\ rx'[1].first = f /\ rx'[1].last = rx[1].last /\ rx'[1].size = PacketSize
      /\ app'.pc # "advance" /\ got'[1] = Append(got[1], byte)
  BY <1>1, <1>3 DEF TypeInv
<1>5. /\ Waiting(1)' = Waiting(1) - 1 /\ Waiting(1) > 0 /\ Waiting(1) \in Int
      /\ Behind(rx[1].first) = 0
      /\ \A s \in Slots : Behind(s)' < Waiting(1) - 1 => Behind(s) = Behind(s)' + 1
      /\ \A s \in Slots : Behind(s)' \in Nat
  <2>1. /\ f \in 0 .. PacketSize
        /\ BufferNum(f, rx[1].last, PacketSize)
             = BufferNum(rx[1].first, rx[1].last, PacketSize) - 1
        /\ BufferNum(rx[1].first, rx[1].last, PacketSize) > 0
        /\ Dist(rx[1].first, rx[1].first) = 0
        /\ \A s \in Slots : Dist(s, f) < BufferNum(rx[1].first, rx[1].last, PacketSize) - 1
                            => Dist(s, rx[1].first) = Dist(s, f) + 1
    BY <1>1, <1>2, TakeOne
  <2>2. \A s \in Slots : Dist(s, f) \in Nat
    BY <2>1, Size DEF Dist, Slots
  <2> QED
    BY <1>1, <1>4, <2>1, <2>2, Numbers DEF Waiting, Behind
<1>6. \A s \in Slots : Waits(s)' => Waits(s) /\ Behind(s) = Behind(s)' + 1 /\ Behind(s) > 0
  BY <1>5 DEF Waits
<1>7. Waits(rx[1].first) /\ byte = mem[rx[1].first]
  BY <1>1, <1>5 DEF Waits, OrderInv
<1>8. /\ 1 .. Len(got'[1]) = 1 .. Len(got[1]) \cup {Len(got[1]) + 1}
      /\ \A i \in 1 .. Len(got[1]) : got'[1][i] = got[1][i] /\ ~(Len(got[1]) + 1 < i)
      /\ got'[1][Len(got[1]) + 1] = mem[rx[1].first]
      /\ ~(Len(got[1]) + 1 < Len(got[1]) + 1)
  BY <1>1, <1>4, <1>7 DEF TypeInv
<1>9. /\ \A s \in Slots : Waits(s)' => mem'[s].n \in 1 .. line'[1]
      /\ \A s, t \in Slots : Waits(s)' /\ Waits(t)' /\ Behind(s)' < Behind(t)'
                              => mem'[s].n < mem'[t].n
      /\ \A s \in Slots, j \in 1 .. Len(fifo'[1]) : Waits(s)' => mem'[s].n < fifo'[1][j].n
  <2>1. \A s, t \in Slots : Waits(s)' /\ Waits(t)' /\ Behind(s)' < Behind(t)' => Behind(s) < Behind(t)
    BY <1>5, <1>6
  <2> QED
    BY <1>1, <1>6, <2>1 DEF OrderInv
<1>10. \A i \in 1 .. Len(got'[1]), s \in Slots : Waits(s)' => got'[1][i].n < mem'[s].n
  <2>1. \A s \in Slots : Waits(s)' => mem[rx[1].first].n < mem[s].n
    BY <1>2, <1>5, <1>6, <1>7 DEF OrderInv
  <2> QED
    BY <1>1, <1>6, <1>8, <2>1 DEF OrderInv
<1>11. /\ \A i \in 1 .. Len(got'[1]) : got'[1][i].n \in 1 .. line'[1]
       /\ \A i \in 1 .. Len(got'[1]), j \in 1 .. Len(fifo'[1]) : got'[1][i].n < fifo'[1][j].n
       /\ \A i, j \in 1 .. Len(got'[1]) : j < i => got'[1][j].n < got'[1][i].n
  BY <1>1, <1>2, <1>7, <1>8 DEF OrderInv
<1>12. /\ \A i \in 1 .. Len(fifo'[1]) : fifo'[1][i].n \in 1 .. line'[1]
       /\ \A i, j \in 1 .. Len(fifo'[1]) : j < i => fifo'[1][j].n < fifo'[1][i].n
  BY <1>1 DEF OrderInv
<1> QED
  BY <1>4, <1>9, <1>10, <1>11, <1>12 DEF OrderInv

\* The main program's other steps.
LEMMA QuietOrder ==
    ASSUME CountInv, OrderInv,
           \/ IsrEnter(1) \/ IsrLeave \/ (\E w \in BOOLEAN : GetChar(1, w))
           \/ GetCheck \/ GetRead \/ GetWrap
    PROVE  OrderInv'
<1>1. TypeInv /\ 1 \in BothUarts
  BY Numbers DEF CountInv
<1>2. CASE IsrEnter(1) \/ IsrLeave \/ GetCheck \/ \E w \in BOOLEAN : GetChar(1, w)
  <2>1. /\ UNCHANGED <<rx, mem, byte, got, line, fifo>>
        /\ app'.pc = "advance" => app.pc = "advance"
    <3>1. CASE IsrEnter(1) \/ IsrLeave
      BY <3>1 DEF IsrEnter, IsrLeave, mainVars, hwVars
    <3>2. CASE GetCheck
      BY <3>2 DEF GetCheck, hwVars
    <3>3. CASE \E w \in BOOLEAN : GetChar(1, w)
      BY <3>3 DEF GetChar, hwVars
    <3> QED
      BY <1>2, <3>1, <3>2, <3>3
  <2> QED
    BY <1>1, <2>1, LosingKeepsOrder
<1>3. CASE GetRead
  <2>1. UNCHANGED <<rx, mem, got, line, fifo>> /\ byte' = mem[rx[1].first]
    BY <1>1, <1>3 DEF GetRead, hwVars, TypeInv
  <2>2. \A s \in Slots : Waits(s)' = Waits(s) /\ Behind(s)' = Behind(s)
    BY <2>1 DEF Waits, Behind, Waiting
  <2> QED
    BY <2>1, <2>2 DEF OrderInv
<1>4. CASE GetWrap
  <2>1. /\ rx[1].first = PacketSize /\ rx[1].last \in 0 .. PacketSize - 1
        /\ rx[1].size = PacketSize /\ app'.pc = "idle"
        /\ rx' = [rx EXCEPT ![1].first = 0] /\ UNCHANGED <<mem, got, line, fifo>>
    <3>1. app.pc = "wrap" /\ app.uart = 1 /\ 1 \in opened /\ rx[1].first = PacketSize
      BY <1>1, <1>4 DEF GetWrap, TypeInv
    <3>2. /\ rx' = [rx EXCEPT ![1].first = 0] /\ app' = [app EXCEPT !.pc = "idle"]
          /\ UNCHANGED <<mem, got, line, fifo>>
      BY <1>4, <3>1 DEF GetWrap, hwVars
    <3>3. app'.pc = "idle"
      BY <1>1, <1>4, WrapCount DEF GetWrap, TypeInv
    <3>4. rx[1].size = PacketSize /\ rx[1].last \in 0 .. PacketSize - 1
      BY <1>1, <3>1, Numbers DEF CountInv, OpenInv
    <3> QED
      BY <3>1, <3>2, <3>3, <3>4
  <2>2. rx'[1].first = 0 /\ rx'[1].last = rx[1].last /\ rx'[1].size = PacketSize
    BY <1>1, <2>1 DEF TypeInv
  <2>3. \A s \in Slots : Waits(s)' = Waits(s) /\ Behind(s)' = Behind(s)
    BY <2>1, <2>2, WrapSame DEF Waits, Behind, Waiting
  <2> QED
    BY <2>1, <2>3 DEF OrderInv
<1> QED
  BY <1>2, <1>3, <1>4

LEMMA OrderStep ==
    ASSUME Uarts = {1}, CountInv, OrderInv, [Next]_vars
    PROVE  OrderInv'
<1>1. CASE Setup
  BY <1>1, SetupOrder DEF Setup
<1>2. CASE Hw
  BY <1>2, ArriveOrder DEF Hw
<1>3. CASE Call
  BY <1>3, QuietOrder DEF Call
<1>4. CASE Driver
  BY <1>4, QuietOrder, AdvanceOrder DEF Driver
<1>5. CASE Isr
  BY <1>5, QuietOrder, IsrReceiveOrder DEF Isr
<1>6. CASE UNCHANGED vars
  <2>1. UNCHANGED <<rx, mem, app, byte, got, line, fifo>>
    BY <1>6 DEF vars, mainVars, hwVars
  <2> QED
    BY <2>1, LosingKeepsOrder DEF CountInv
<1> QED
  BY <1>1, <1>2, <1>3, <1>4, <1>5, <1>6 DEF Next

\* serial_getchar returns bytes in the order they arrived, each at most once.
THEOREM ReturnedInOrder ==
    ASSUME Uarts = {1}
    PROVE  Spec => []ReceivedInOrder
<1>1. Spec => [](CountInv /\ OrderInv)
  <2>1. Init => CountInv /\ OrderInv
    BY InitCount, InitOrder
  <2>2. CountInv /\ OrderInv /\ [Next]_vars => (CountInv /\ OrderInv)'
    BY CountStep, OrderStep
  <2> QED
    BY <2>1, <2>2, PTL DEF Spec
<1>2. CountInv /\ OrderInv => ReceivedInOrder
  <2> SUFFICES ASSUME CountInv, OrderInv, NEW u \in BothUarts, NEW i \in 1 .. Len(got[u])
               PROVE  /\ got[u][i].n > 0
                      /\ \A j \in 1 .. (i - 1) : got[u][j].n < got[u][i].n
    BY DEF ReceivedInOrder
  <2>1. u = 1 /\ Len(got[1]) \in Nat
    BY Numbers DEF CountInv, TypeInv, BothUarts
  <2>2. \A j \in 1 .. (i - 1) : j \in 1 .. Len(got[1]) /\ j < i
    BY <2>1
  <2>3. got[1][i].n > 0
    BY <2>1, Numbers DEF OrderInv, CountInv
  <2> QED
    BY <2>1, <2>2, <2>3 DEF OrderInv
<1> QED
  BY <1>1, <1>2, PTL

=============================================================================
