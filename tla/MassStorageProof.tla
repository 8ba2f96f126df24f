-------------------------- MODULE MassStorageProof --------------------------
(***************************************************************************)
(* The USB card reader tells its host the truth, for every size of block   *)
(* and card, every command and every interleaving with the host: the data  *)
(* is the card's, the status is that of the command and says what was      *)
(* done, and no packet meets the transport in a state where it would take  *)
(* it for a phase error.                                                   *)
(***************************************************************************)
EXTENDS MassStorage, SequenceTheorems, TLAPS

-----------------------------------------------------------------------------
(* Types.                                                                  *)

Stages   == {"idle", "dataIn", "dataOut", "csw", "reset"}
States   == {"eCBW", "eDataOut", "eDataIn", "eCSW", "eStalled"}
Senses   == {"none", "READ_ERROR", "INVALID_CMD_OPCODE"}
Statuses == {"none", "PASSED", "FAILED", "PHASE_ERR"}

Cards  == 0 .. Blocks - 1
Values == (Nat \X Nat) \cup (Short \X Senses)
Block  == [Pos -> Values]

CommandType ==
    {c \in [cmd : Short \cup NoData \cup Unknown \cup {"READ", "WRITE"}, lba : Nat, n : Nat] :
        c.cmd \in {"READ", "WRITE"} => c.n >= 1 /\ c.lba + c.n <= Blocks}
Cbws == {x \in [tag : Nat, good : BOOLEAN, c : CommandType, len : Nat, hostIn : BOOLEAN] :
            x.len = 0 => x.hostIn}
Csws == [tag : Nat, residue : Nat, status : Statuses]

OutPackets == [kind : {"cbw"}, val : Cbws] \cup [kind : {"full"}, val : Values]
InPackets  == [kind : {"csw"}, val : Csws] \cup [kind : {"full", "short"}, val : Values]

HostType == [stage : Stages, cbw : Cbws, got : Seq(Values), sent : Nat, tries : 0 .. 1, csw : Csws]

TypeInv ==
    /\ h \in HostType
    /\ disk \in [Cards -> Block] /\ abBlockBuf \in Block
    /\ eState \in States /\ CBW \in Cbws /\ CSW \in Csws
    /\ dwOffset \in Nat /\ dwTransferSize \in Nat /\ dwOffset <= dwTransferSize
    /\ dwSense \in Senses
    /\ epOut \in Seq(OutPackets) /\ epIn \in Seq(InPackets)
    /\ outInt \in BOOLEAN /\ inInt \in BOOLEAN /\ outStall \in BOOLEAN /\ inStall \in BOOLEAN
    /\ isr \in {"off", "checkOut", "out", "checkIn", "in"}

-----------------------------------------------------------------------------
(* Blocks and positions.                                                   *)

\* The block of the packet at offset k.
Blk(k) == k \div BlockPackets

LEMMA Quotient ==
    ASSUME NEW k \in Nat
    PROVE  Blk(k) \in Nat /\ BufPos(k) \in Pos /\ k = BlockPackets * Blk(k) + BufPos(k)
BY SizesAssumption DEF Blk, BufPos, Pos

\* Quotient and remainder are the only ones.
LEMMA QuotientIs ==
    ASSUME NEW q \in Nat, NEW r \in Pos
    PROVE  Blk(BlockPackets * q + r) = q /\ BufPos(BlockPackets * q + r) = r
BY SizesAssumption DEF Blk, BufPos, Pos

LEMMA NextPosition ==
    ASSUME NEW k \in Nat
    PROVE  /\ BufPos(k + 1) # 0 => Blk(k + 1) = Blk(k) /\ BufPos(k + 1) = BufPos(k) + 1
           /\ BufPos(k + 1) = 0 => Blk(k + 1) = Blk(k) + 1
<1> DEFINE q == Blk(k)
           r == BufPos(k)
<1>1. q \in Nat /\ r \in Pos /\ k = BlockPackets * q + r
  BY Quotient
<1> HIDE DEF q, r
<1>2. CASE r + 1 \in Pos
  <2>1. k + 1 = BlockPackets * q + (r + 1)
    BY <1>1, <1>2, SizesAssumption DEF Pos
  <2>2. Blk(k + 1) = q /\ BufPos(k + 1) = r + 1
    BY <1>1, <1>2, <2>1, QuotientIs
  <2> QED
    BY <1>1, <2>2 DEF q, r, Pos
<1>3. CASE r + 1 \notin Pos
  <2>1. r + 1 = BlockPackets /\ 0 \in Pos /\ BlockPackets \in Nat
    BY <1>1, <1>3, SizesAssumption DEF Pos
  <2>2. k + 1 = BlockPackets * (q + 1) + 0
    <3>1. BlockPackets * (q + 1) = BlockPackets * q + BlockPackets
      BY <1>1, SizesAssumption
    <3> QED
      BY <1>1, <2>1, <3>1, SizesAssumption DEF Pos
  <2>3. Blk(k + 1) = q + 1 /\ BufPos(k + 1) = 0
    BY <1>1, <2>1, <2>2, QuotientIs
  <2> QED
    BY <2>3 DEF q
<1> QED
  BY <1>2, <1>3

\* Packets before a block's bound are in the blocks before it.
LEMMA BlockBound ==
    ASSUME NEW n \in Nat, NEW k \in Nat
    PROVE  /\ k < n * BlockPackets => Blk(k) < n
           /\ BufPos(n * BlockPackets) = 0
<1> DEFINE q == Blk(k)
<1>1. q \in Nat /\ k >= BlockPackets * q /\ BlockPackets \in Nat /\ BlockPackets > 0
  BY Quotient, SizesAssumption DEF Pos
<1> HIDE DEF q
<1>2. q >= n => BlockPackets * q >= BlockPackets * n
  BY <1>1
<1>3. BlockPackets * n = n * BlockPackets /\ BlockPackets * q \in Nat /\ BlockPackets * n \in Nat
  BY <1>1
<1>4. k < n * BlockPackets => q < n
  BY <1>1, <1>2, <1>3
<1>5. BufPos(BlockPackets * n + 0) = 0
  <2>1. 0 \in Pos
    BY SizesAssumption DEF Pos
  <2> QED
    BY <2>1, QuotientIs
<1>6. BlockPackets * n + 0 = n * BlockPackets
  BY <1>1
<1> QED
  BY <1>4, <1>5, <1>6 DEF q

\* Offsets grow with their blocks, and an offset is told by block and position.
LEMMA BlockOrder ==
    ASSUME NEW j \in Nat, NEW k \in Nat
    PROVE  /\ j <= k => Blk(j) <= Blk(k)
           /\ Blk(j) = Blk(k) /\ BufPos(j) = BufPos(k) => j = k
<1>1. /\ Blk(j) \in Nat /\ Blk(k) \in Nat /\ BufPos(j) \in Pos /\ BufPos(k) \in Pos
      /\ j = BlockPackets * Blk(j) + BufPos(j) /\ k = BlockPackets * Blk(k) + BufPos(k)
  BY Quotient
<1>2. j < Blk(j) * BlockPackets + BlockPackets
  BY <1>1, SizesAssumption DEF Pos
<1>3. j <= k => j < (Blk(k) + 1) * BlockPackets
  <2> DEFINE q == Blk(k)
             r == BufPos(k)
  <2>1. q \in Nat /\ r \in Pos /\ k = BlockPackets * q + r
    BY <1>1
  <2> HIDE DEF q, r
  <2>2. k < (q + 1) * BlockPackets
    BY <2>1, SizesAssumption DEF Pos
  <2>3. (q + 1) * BlockPackets \in Nat
    BY <2>1, SizesAssumption
  <2> QED
    BY <2>2, <2>3 DEF q
<1>4. j <= k => Blk(j) < Blk(k) + 1
  BY <1>1, <1>3, BlockBound
<1> QED
  BY <1>1, <1>4
\* The lengths and blocks of commands.
LEMMA CommandFacts ==
    ASSUME NEW c \in CommandType
    PROVE  /\ RspLen(c) \in Nat
           /\ c.cmd \in Short => RspLen(c) = 1
           /\ c.cmd \notin Short \cup {"READ", "WRITE"} => RspLen(c) = 0
           /\ c.cmd \in {"READ", "WRITE"} =>
                /\ BufPos(RspLen(c)) = 0 /\ RspLen(c) >= 1
                /\ \A k \in Nat : k < RspLen(c) => BlockNr(c, k) \in Cards
<1>1. CASE c.cmd \in {"READ", "WRITE"}
  <2>1. c.n \in Nat /\ c.lba \in Nat /\ c.lba + c.n <= Blocks /\ c.cmd \notin Short
    BY <1>1 DEF CommandType, Short
  <2>2. RspLen(c) = c.n * BlockPackets
    BY <1>1, <2>1 DEF RspLen
  <2>3. c.n * BlockPackets \in Nat /\ c.n * BlockPackets >= 1
    <3>1. c.n >= 1
      BY <1>1 DEF CommandType
    <3> QED
      BY <2>1, <3>1, SizesAssumption
  <2>4. ASSUME NEW k \in Nat, k < c.n * BlockPackets
        PROVE  BlockNr(c, k) \in Cards
    <3>1. Blk(k) \in Nat /\ Blk(k) < c.n
      BY <2>1, <2>4, BlockBound, Quotient
    <3>2. BlockNr(c, k) = c.lba + Blk(k)
      BY DEF BlockNr, Blk
    <3> QED
      BY <2>1, <3>1, <3>2, SizesAssumption DEF Cards
  <2> QED
    BY <1>1, <2>1, <2>2, <2>3, <2>4, BlockBound
<1>2. CASE c.cmd \notin {"READ", "WRITE"}
  BY <1>2 DEF RspLen, Short
<1> QED
  BY <1>1, <1>2

\* The last element of a sequence put at its end, and those before it.
LEMMA AppendFacts ==
    ASSUME NEW S, NEW s \in Seq(S), NEW e \in S
    PROVE  /\ Append(s, e) \in Seq(S) /\ Len(Append(s, e)) = Len(s) + 1 /\ Append(s, e) # <<>>
           /\ Append(s, e)[Len(s) + 1] = e
           /\ \A i \in 1 .. Len(s) : Append(s, e)[i] = s[i]
OBVIOUS

LEMMA TailFacts ==
    ASSUME NEW S, NEW s \in Seq(S), s # <<>>
    PROVE  /\ Head(s) = s[1] /\ s[1] \in S /\ Len(s) \in Nat /\ Len(s) >= 1
           /\ Tail(s) \in Seq(S) /\ Len(Tail(s)) = Len(s) - 1
           /\ \A i \in 1 .. Len(s) - 1 : Tail(s)[i] = s[i + 1]
<1>1. Head(s) = s[1] /\ Len(s) \in Nat /\ Len(s) >= 1 /\ s[1] \in S
  OBVIOUS
<1>2. Tail(s) \in Seq(S) /\ Len(Tail(s)) = Len(s) - 1
  OBVIOUS
<1> QED
  BY <1>1, <1>2, HeadTailProperties

LEMMA EmptyFacts ==
    ASSUME NEW S, NEW s \in Seq(S)
    PROVE  Len(s) \in Nat /\ (s = <<>> <=> Len(s) = 0)
OBVIOUS
-----------------------------------------------------------------------------
(* The invariant.                                                          *)

Cmd == h.cbw.c
Got == Len(h.got)

\* The command block is on its way; the status is.
Pending == epOut # <<>> /\ epOut[1].kind = "cbw"
Status  == epIn # <<>> /\ epIn[Len(epIn)].kind = "csw"

\* Packets of data on their way to the host: a status comes last.
NData == IF Status THEN Len(epIn) - 1 ELSE Len(epIn)

\* What the bits say of the endpoints.  The OUT bit is set while there is a packet
\* nobody has been called for; the IN bit was set when a buffer was free, and
\* only a bulk IN event fills one.
LinkInv ==
    /\ Len(epIn) <= 2 /\ Len(epOut) <= 2
    /\ outInt => epOut # <<>>
    /\ isr = "out" => epOut # <<>> /\ ~outStall
    /\ isr = "out" /\ outInt => Len(epOut) = 2
    /\ epOut # <<>> => outInt \/ outStall \/ isr = "out"
    /\ inInt => Len(epIn) < 2
    /\ isr = "in" => Len(epIn) < 2 /\ ~inStall
    /\ isr = "in" /\ inInt => Len(epIn) = 0

\* Where the host is in its command.
HostInv ==
    /\ h.sent <= h.cbw.len /\ Got + NData <= RspLen(Cmd) /\ Got + NData <= h.cbw.len
    /\ h.stage = "idle" => eState = "eCBW" /\ epIn = <<>> /\ ~Pending
    /\ h.stage = "dataIn" => h.cbw.hostIn /\ Got < h.cbw.len
    /\ h.stage = "dataOut" => /\ ~h.cbw.hostIn /\ h.sent < h.cbw.len
                              /\ Pending \/ eState = "eDataOut" \/ outStall
    /\ h.stage = "csw" => NData = 0
    /\ h.cbw.hostIn => h.sent = 0
    /\ ~h.cbw.hostIn => Got = 0 /\ NData = 0

\* A command block on its way is that of the running command, and nothing has
\* been answered.
PendInv ==
    Pending =>
        /\ eState = "eCBW" /\ epOut[1].val = h.cbw /\ epIn = <<>> /\ ~inStall /\ ~outStall
        /\ Got = 0 /\ h.csw = NoCsw /\ h.sent = Len(epOut) - 1 /\ h.stage # "idle"
        /\ h.stage = "csw" /\ h.cbw.hostIn => h.cbw.len = 0

\* The data of the host is in order behind its command block.
OutDataInv ==
    /\ Len(epOut) = 2 => epOut[2].kind # "cbw"
    /\ Pending \/ eState = "eDataOut" =>
         \A k \in 1 .. Len(epOut) :
            epOut[k].kind # "cbw" => epOut[k].val = <<h.cbw.tag, h.sent - Len(epOut) + k - 1>>

\* Packet k of a WRITE is on the card, unless the card refused its block.
OnDisk(k) ==
    \/ BlockNr(Cmd, k) \in refused
    \/ disk[BlockNr(Cmd, k)][BufPos(k)] = <<h.cbw.tag, k>>

\* Data is being read: the block buffer is that of the packet sent last.
DataInInv ==
    eState = "eDataIn" =>
        /\ Cmd.cmd = "READ" /\ h.cbw.hostIn /\ CBW = h.cbw
        /\ dwTransferSize = RspLen(Cmd) /\ RspLen(Cmd) <= h.cbw.len
        /\ dwOffset >= 1 /\ dwOffset < dwTransferSize
        /\ ~Status /\ Got + Len(epIn) = dwOffset
        /\ ~inStall /\ ~outStall /\ epOut = <<>> /\ h.stage \in {"dataIn", "reset"}
        /\ abBlockBuf = disk[BlockNr(Cmd, dwOffset - 1)]

\* Data is being written: full blocks are on the card, the rest is in the buffer.
DataOutInv ==
    eState = "eDataOut" =>
        /\ Cmd.cmd = "WRITE" /\ ~h.cbw.hostIn /\ CBW = h.cbw
        /\ dwTransferSize = RspLen(Cmd) /\ RspLen(Cmd) <= h.cbw.len
        /\ dwOffset < dwTransferSize /\ h.sent = dwOffset + Len(epOut) /\ ~Pending
        /\ epIn = <<>> /\ ~inStall /\ ~outStall /\ h.stage \in {"dataOut", "csw", "reset"}
        /\ \A k \in Nat :
             /\ k < dwOffset /\ Blk(k) < Blk(dwOffset) => OnDisk(k)
             /\ k < dwOffset /\ Blk(k) = Blk(dwOffset) => abBlockBuf[BufPos(k)] = <<h.cbw.tag, k>>

\* A status is of the running command and true.
CswTrue(s) ==
    /\ s.tag = h.cbw.tag /\ s.status \in {"PASSED", "FAILED", "PHASE_ERR"}
    /\ s.status = "FAILED" /\ Cmd.cmd # "VERIFY_BYTCHK" => dwSense # "none"
    /\ s.status = "PASSED" /\ s.residue = 0 =>
         /\ ~inStall
         /\ h.cbw.hostIn => Got + NData = h.cbw.len
         /\ Cmd.cmd = "WRITE" => \A k \in Nat : k < RspLen(Cmd) => OnDisk(k)

\* From when the status is ready until the host has it.
StatusInv ==
    /\ eState = "eCSW" =>
         /\ CBW = h.cbw /\ CswTrue(CSW) /\ ~Status /\ ~Pending
         /\ epOut = <<>> \/ outStall
         /\ h.stage = "dataIn" => inStall \/ Got + NData = h.cbw.len
    /\ Status =>
         /\ eState = "eCBW" /\ ~Pending /\ CswTrue(epIn[Len(epIn)].val)
         /\ h.stage = "dataIn" => Got + NData = h.cbw.len
    /\ h.csw.status # "none" => h.csw.tag = h.cbw.tag
    /\ h.csw.status \in {"PASSED", "FAILED"} => h.stage = "idle" /\ CswTrue(h.csw)
    /\ eState = "eCBW" => ~inStall /\ (Pending \/ epOut = <<>> \/ outStall)
    /\ eState = "eStalled" => epIn = <<>> /\ ~Pending /\ (epOut = <<>> \/ outStall)

\* What the host has of a READ, and what is on its way to it, is the card's.
ReadInv ==
    /\ \A k \in 1 .. NData : epIn[k].kind = IF Cmd.cmd \in Short THEN "short" ELSE "full"
    /\ Cmd.cmd = "READ" =>
         /\ \A i \in 1 .. Got : h.got[i] = disk[BlockNr(Cmd, i - 1)][BufPos(i - 1)]
         /\ \A k \in 1 .. NData :
              epIn[k].val = disk[BlockNr(Cmd, Got + k - 1)][BufPos(Got + k - 1)]

MInv == /\ TypeInv /\ LinkInv /\ HostInv /\ PendInv /\ OutDataInv
        /\ DataInInv /\ DataOutInv /\ StatusInv /\ ReadInv
LEMMA InitInv == Init => MInv
<1> SUFFICES ASSUME Init PROVE MInv
  OBVIOUS
<1>1. /\ epOut = <<>> /\ epIn = <<>> /\ h.got = <<>> /\ Len(epOut) = 0 /\ Len(epIn) = 0 /\ Got = 0
      /\ h.stage = "idle" /\ h.cbw = NoCbw /\ h.sent = 0 /\ h.csw = NoCsw
      /\ eState = "eCBW" /\ isr = "off" /\ ~outInt /\ ~inInt /\ ~inStall /\ ~outStall
  BY DEF Init, Got
<1>2. ~Pending /\ ~Status /\ NData = 0
  BY <1>1 DEF Pending, Status, NData
<1>3. NoCbw \in Cbws /\ NoCsw \in Csws /\ NoCbw.c \in CommandType
  BY DEF NoCbw, NoCsw, Cbws, Csws, CommandType, Command, NoData, Statuses
<1>4. TypeInv
  <2>1. h \in HostType
    <3>1. <<>> \in Seq(Values)
      OBVIOUS
    <3> QED
      BY <1>3, <3>1 DEF Init, Stages, HostType
  <2>2. \A b \in Cards : [p \in Pos |-> <<0, b * BlockPackets + p>>] \in Block
    BY SizesAssumption DEF Cards, Pos, Block, Values
  <2>3. disk \in [Cards -> Block]
    BY <2>2 DEF Init, Cards
  <2>4. abBlockBuf \in Block
    BY DEF Init, Block, Values
  <2>5. epOut \in Seq(OutPackets) /\ epIn \in Seq(InPackets)
    BY <1>1
  <2>6. eState \in States /\ CBW \in Cbws /\ CSW \in Csws /\ dwSense \in Senses
    BY <1>3 DEF Init, States, Senses
  <2>7. dwOffset \in Nat /\ dwTransferSize \in Nat /\ dwOffset <= dwTransferSize
    BY DEF Init
  <2>8. outInt \in BOOLEAN /\ inInt \in BOOLEAN /\ outStall \in BOOLEAN /\ inStall \in BOOLEAN
        /\ isr \in {"off", "checkOut", "out", "checkIn", "in"}
    BY DEF Init
  <2> QED
    BY <2>1, <2>3, <2>4, <2>5, <2>6, <2>7, <2>8 DEF TypeInv
<1>5. NoCbw.len = 0 /\ NoCbw.hostIn /\ RspLen(NoCbw.c) \in Nat /\ NoCbw.c.cmd = "TEST_UNIT_READY"
      /\ NoCsw.status = "none"
  BY <1>3, CommandFacts DEF NoCbw, NoCsw, Command
<1>6. LinkInv /\ HostInv /\ PendInv /\ OutDataInv
  BY <1>1, <1>2, <1>5 DEF LinkInv, HostInv, PendInv, OutDataInv, Cmd
<1>7. DataInInv /\ DataOutInv /\ StatusInv /\ ReadInv
  BY <1>1, <1>2, <1>5 DEF DataInInv, DataOutInv, StatusInv, ReadInv, Cmd
<1> QED
  BY <1>4, <1>6, <1>7 DEF MInv

-----------------------------------------------------------------------------
(* Steps that only tell of events, and the host's that end a command.      *)

\* The rest of the invariant does not look at interrupts.
LEMMA EventKeeps ==
    ASSUME MInv, UNCHANGED <<h, cardVars, eState, CBW, CSW, dwOffset, dwTransferSize, dwSense,
                             abBlockBuf, epOut, epIn, outStall, inStall>>
    PROVE  /\ HostInv' /\ PendInv' /\ OutDataInv' /\ DataInInv' /\ DataOutInv' /\ StatusInv'
           /\ ReadInv'
<1> USE DEF cardVars
<1>1. HostInv' /\ PendInv' /\ OutDataInv'
  BY DEF MInv, HostInv, PendInv, OutDataInv, Pending, Status, NData, Got, Cmd
<1>2. DataInInv' /\ DataOutInv'
  BY DEF MInv, DataInInv, DataOutInv, Pending, Status, Got, Cmd, OnDisk
<1>3. /\ (Pending' <=> Pending) /\ (Status' <=> Status) /\ NData' = NData /\ Got' = Got
      /\ Cmd' = Cmd /\ Len(epIn)' = Len(epIn)
  BY DEF Pending, Status, NData, Got, Cmd
<1>4. \A k : OnDisk(k)' <=> OnDisk(k)
  BY <1>3 DEF OnDisk
<1>5. ASSUME NEW s, CswTrue(s) PROVE CswTrue(s)'
  BY <1>3, <1>4, <1>5 DEF CswTrue
<1>6. StatusInv'
  BY <1>3, <1>5 DEF MInv, StatusInv
<1>7. ReadInv'
  BY <1>3 DEF MInv, ReadInv
<1> QED
  BY <1>1, <1>2, <1>6, <1>7

LEMMA EventInv == MInv /\ (IsrEnter \/ IsrOut \/ IsrIn \/ HostNak \/ OldAck) => MInv'
<1> SUFFICES ASSUME MInv, IsrEnter \/ IsrOut \/ IsrIn \/ HostNak \/ OldAck PROVE MInv'
  OBVIOUS
<1> USE DEF botVars, scsiVars, outVars, inVars
<1>1. UNCHANGED <<h, cardVars, eState, CBW, CSW, dwOffset, dwTransferSize, dwSense,
                  abBlockBuf, epOut, epIn, outStall, inStall>>
  BY DEF IsrEnter, IsrOut, IsrIn, HostNak, OldAck
<1>2. epOut \in Seq(OutPackets) /\ epIn \in Seq(InPackets) /\ TypeInv /\ LinkInv
  BY DEF MInv, TypeInv
<1>3. Len(epOut) \in Nat /\ Len(epIn) \in Nat /\ (epOut = <<>> <=> Len(epOut) = 0)
      /\ (epIn = <<>> <=> Len(epIn) = 0)
  BY <1>2, EmptyFacts
<1>4. TypeInv'
  BY <1>1, <1>2 DEF TypeInv, IsrEnter, IsrOut, IsrIn, HostNak, OldAck, cardVars
<1>5. LinkInv'
  <2>1. CASE IsrEnter
    BY <1>1, <1>2, <2>1 DEF IsrEnter, LinkInv, TypeInv
  <2>2. CASE IsrOut
    BY <1>1, <1>2, <2>2 DEF IsrOut, LinkInv, TypeInv
  <2>3. CASE IsrIn
    BY <1>1, <1>2, <1>3, <2>3 DEF IsrIn, LinkInv, TypeInv
  <2>4. CASE HostNak
    BY <1>1, <1>2, <1>3, <2>4 DEF HostNak, LinkInv, TypeInv
  <2>5. CASE OldAck
    BY <1>1, <1>2, <2>5 DEF OldAck, LinkInv, TypeInv
  <2> QED
    BY <2>1, <2>2, <2>3, <2>4, <2>5
<1> QED
  BY <1>1, <1>4, <1>5, EventKeeps DEF MInv

\* A host that stops looks at nothing until it has reset the device.
LEMMA HostStops ==
    ASSUME MInv, UNCHANGED <<botVars, scsiVars, outVars, inVars, isr>>,
           NEW csw \in {h.csw, NoCsw}, h.stage # "idle" \/ csw = NoCsw,
           h' = [h EXCEPT !.stage = "reset", !.csw = csw]
    PROVE  MInv'
<1> USE DEF botVars, scsiVars, cardVars, outVars, inVars
<1>1. TypeInv
  BY DEF MInv
<1>2. NoCsw \in Csws /\ NoCsw.status = "none"
  BY DEF NoCsw, Csws, Statuses
<1>3. /\ h'.stage = "reset" /\ h'.cbw = h.cbw /\ h'.got = h.got /\ h'.sent = h.sent
      /\ h'.csw = csw /\ csw \in Csws
      /\ h' \in HostType
  BY <1>1, <1>2 DEF TypeInv, Stages, HostType
<1>4. TypeInv' /\ LinkInv'
  BY <1>1, <1>3 DEF TypeInv, MInv, LinkInv
<1>5. /\ (Pending' <=> Pending) /\ (Status' <=> Status) /\ NData' = NData /\ Got' = Got
      /\ Cmd' = Cmd /\ Len(epIn)' = Len(epIn)
  BY <1>3 DEF Pending, Status, NData, Got, Cmd
<1>6. \A k : OnDisk(k)' <=> OnDisk(k)
  BY <1>3, <1>5 DEF OnDisk
<1>7. ASSUME NEW s, CswTrue(s) PROVE CswTrue(s)'
  BY <1>3, <1>5, <1>6, <1>7 DEF CswTrue
<1>8. csw.status \notin {"PASSED", "FAILED"} /\ (csw.status # "none" => csw.tag = h.cbw.tag)
  BY <1>2 DEF MInv, StatusInv
<1>9. HostInv' /\ OutDataInv' /\ DataInInv' /\ DataOutInv'
  BY <1>3, <1>5, <1>6 DEF MInv, HostInv, OutDataInv, DataInInv, DataOutInv
<1>10. PendInv' /\ StatusInv' /\ ReadInv'
  BY <1>3, <1>5, <1>7, <1>8 DEF MInv, HostInv, PendInv, StatusInv, ReadInv
<1> QED
  BY <1>4, <1>9, <1>10 DEF MInv

LEMMA StopInv == MInv /\ (HostGivesUp \/ HostRefused) => MInv'
<1> SUFFICES ASSUME MInv, HostGivesUp \/ HostRefused PROVE MInv'
  OBVIOUS
<1>1. h \in HostType
  BY DEF MInv, TypeInv
<1>2. CASE HostGivesUp
  <2>1. h.stage # "idle" /\ h' = [h EXCEPT !.stage = "reset", !.csw = h.csw]
    BY <1>1, <1>2 DEF HostGivesUp, HostType
  <2> QED
    BY <1>2, <2>1, HostStops DEF HostGivesUp
<1>3. CASE HostRefused
  BY <1>3, HostStops DEF HostRefused
<1> QED
  BY <1>2, <1>3

\* A step after which no data is on its way in and the host waits for nothing.
LEMMA HostClearInInv == MInv /\ HostClearIn => MInv'
<1> SUFFICES ASSUME MInv, HostClearIn PROVE MInv'
  OBVIOUS
<1> USE DEF botVars, scsiVars, cardVars, outVars
<1>1. TypeInv
  BY DEF MInv
<1>2. CASE h.stage = "csw" /\ h.tries > 0
  <2>1. h' = [h EXCEPT !.stage = "reset", !.csw = h.csw] /\ UNCHANGED <<epIn, inStall, inInt>>
        /\ h.stage # "idle"
    BY <1>1, <1>2 DEF HostClearIn, TypeInv, HostType
  <2> QED
    BY <2>1, HostStops DEF HostClearIn, inVars
<1>3. CASE ~(h.stage = "csw" /\ h.tries > 0)
  <2> DEFINE tries == h.tries + (IF h.stage = "csw" THEN 1 ELSE 0)
  <2>1. /\ h' = [h EXCEPT !.stage = "csw", !.tries = tries] /\ epIn' = <<>> /\ ~inStall'
        /\ inStall /\ isr = "off" /\ isr' = isr /\ ~inInt /\ inInt' = inInt /\ h.stage \in {"dataIn", "csw"}
        /\ UNCHANGED <<outVars, botVars, scsiVars>> /\ inStall' \in BOOLEAN
    BY <1>3 DEF HostClearIn, Quiet
  <2>2. tries \in 0 .. 1
    BY <1>1, <1>3, <2>1 DEF TypeInv, HostType
  <2> HIDE DEF tries
  <2>3. /\ h'.stage = "csw" /\ h'.cbw = h.cbw /\ h'.got = h.got /\ h'.sent = h.sent /\ h'.csw = h.csw
        /\ h' \in HostType
    BY <1>1, <2>1, <2>2 DEF TypeInv, Stages, HostType
  <2>4. Len(epIn)' = 0 /\ epIn' \in Seq(InPackets) /\ Got \in Nat /\ NData \in Nat
    <3>1. Len(epIn) \in Nat /\ (epIn = <<>> <=> Len(epIn) = 0) /\ Len(h.got) \in Nat
      BY <1>1, EmptyFacts DEF TypeInv, HostType
    <3> QED
      BY <2>1, <3>1 DEF Got, NData, Status
  <2>5. TypeInv' /\ LinkInv'
    BY <1>1, <2>1, <2>3, <2>4 DEF TypeInv, MInv, LinkInv
  <2>6. /\ (Pending' <=> Pending) /\ ~Status' /\ NData' = 0 /\ Got' = Got /\ Cmd' = Cmd
    BY <2>1, <2>3, <2>4 DEF Pending, Status, NData, Got, Cmd
  <2>7. ~Pending /\ eState \notin {"eCBW", "eDataIn", "eDataOut"}
    BY <2>1 DEF MInv, PendInv, StatusInv, DataInInv, DataOutInv
  <2>8. RspLen(Cmd) \in Nat /\ h.cbw.len \in Nat /\ Got <= RspLen(Cmd) /\ Got <= h.cbw.len
    <3>1. RspLen(Cmd) \in Nat /\ h.cbw.len \in Nat
      BY <1>1, CommandFacts DEF TypeInv, HostType, Cmd, Cbws
    <3> QED
      BY <2>4, <3>1 DEF MInv, HostInv
  <2>9. HostInv'
    BY <2>1, <2>3, <2>4, <2>6, <2>8 DEF MInv, HostInv
  <2>10. PendInv' /\ OutDataInv' /\ DataInInv' /\ DataOutInv'
    BY <2>1, <2>3, <2>6, <2>7 DEF MInv, PendInv, OutDataInv, DataInInv, DataOutInv
  <2>11. CswTrue(CSW) => CswTrue(CSW)'
    BY <2>1, <2>3, <2>6 DEF CswTrue
  <2>12. StatusInv'
    BY <2>1, <2>3, <2>6, <2>7, <2>11 DEF MInv, StatusInv
  <2>13. ReadInv'
    BY <2>1, <2>3, <2>6 DEF MInv, ReadInv
  <2> QED
    BY <2>5, <2>9, <2>10, <2>12, <2>13 DEF MInv
<1> QED
  BY <1>2, <1>3

LEMMA HostClearOutInv == MInv /\ HostClearOut => MInv'
<1> SUFFICES ASSUME MInv, HostClearOut PROVE MInv'
  OBVIOUS
<1> USE DEF botVars, scsiVars, cardVars, inVars
<1>1. TypeInv
  BY DEF MInv
<1>2. /\ h.stage = "dataOut" /\ h' = [h EXCEPT !.stage = "csw"] /\ epOut' = <<>> /\ outStall' = FALSE
      /\ outStall /\ isr = "off" /\ isr' = isr /\ ~outInt /\ outInt' = outInt
      /\ UNCHANGED <<inVars, botVars, scsiVars>>
  BY DEF HostClearOut, Quiet
<1>3. /\ h'.stage = "csw" /\ h'.cbw = h.cbw /\ h'.got = h.got /\ h'.sent = h.sent /\ h'.csw = h.csw
      /\ h' \in HostType
  BY <1>1, <1>2 DEF TypeInv, Stages, HostType
<1>4. Len(epOut)' = 0 /\ epOut' \in Seq(OutPackets)
  BY <1>2
<1>5. TypeInv' /\ LinkInv'
  <2>1. outStall' \in BOOLEAN
    BY <1>2
  <2>2. TypeInv'
    BY <1>1, <1>2, <1>3, <1>4, <2>1 DEF TypeInv
  <2> QED
    BY <1>2, <1>4, <2>2 DEF MInv, LinkInv
<1>6. /\ ~Pending' /\ (Status' <=> Status) /\ NData' = NData /\ Got' = Got /\ Cmd' = Cmd
      /\ Len(epIn)' = Len(epIn)
  BY <1>2, <1>3 DEF Pending, Status, NData, Got, Cmd
<1>7. ~Pending /\ eState \notin {"eDataIn", "eDataOut"} /\ ~h.cbw.hostIn /\ NData = 0
  BY <1>2 DEF MInv, PendInv, HostInv, DataInInv, DataOutInv
<1>8. HostInv' /\ PendInv' /\ OutDataInv' /\ DataInInv' /\ DataOutInv'
  BY <1>2, <1>3, <1>4, <1>6, <1>7 DEF MInv, HostInv, PendInv, OutDataInv, DataInInv, DataOutInv
<1>9. \A k : OnDisk(k)' <=> OnDisk(k)
  BY <1>2, <1>3, <1>6 DEF OnDisk
<1>10. ASSUME NEW s, CswTrue(s) PROVE CswTrue(s)'
  BY <1>2, <1>3, <1>6, <1>9, <1>10 DEF CswTrue
<1>11. StatusInv' /\ ReadInv'
  BY <1>2, <1>3, <1>6, <1>7, <1>10 DEF MInv, StatusInv, ReadInv
<1> QED
  BY <1>5, <1>8, <1>11 DEF MInv

LEMMA HostResetInv == MInv /\ HostReset => MInv'
<1> SUFFICES ASSUME MInv, HostReset PROVE MInv'
  OBVIOUS
<1> USE DEF cardVars
<1>1. TypeInv
  BY DEF MInv
<1>2. /\ h.stage = "reset" /\ h' = [h EXCEPT !.stage = "idle"] /\ epOut' = <<>> /\ epIn' = <<>>
      /\ outStall' = FALSE /\ inStall' = FALSE /\ isr = "off" /\ isr' = isr
      /\ ~outInt /\ outInt' = outInt /\ ~inInt /\ inInt' = inInt /\ eState' = "eCBW" /\ dwSense' = "none"
      /\ UNCHANGED <<CBW, CSW, dwOffset, dwTransferSize, abBlockBuf, cardVars>>
  BY DEF HostReset, Quiet, MSCBotReset
<1>3. /\ h'.stage = "idle" /\ h'.cbw = h.cbw /\ h'.got = h.got /\ h'.sent = h.sent /\ h'.csw = h.csw
      /\ h' \in HostType
  BY <1>1, <1>2 DEF TypeInv, Stages, HostType
<1>4. /\ Len(epOut)' = 0 /\ epOut' \in Seq(OutPackets) /\ Len(epIn)' = 0 /\ epIn' \in Seq(InPackets)
      /\ eState' \in States /\ dwSense' \in Senses
  BY <1>2 DEF States, Senses
<1>5. TypeInv' /\ LinkInv'
  <2>1. outStall' \in BOOLEAN /\ inStall' \in BOOLEAN
    BY <1>2
  <2>2. TypeInv'
    BY <1>1, <1>2, <1>3, <1>4, <2>1 DEF TypeInv
  <2> QED
    BY <1>2, <1>4, <2>2 DEF LinkInv
<1>6. ~Pending' /\ ~Status' /\ NData' = 0 /\ Got' = Got /\ Cmd' = Cmd
  BY <1>2, <1>3, <1>4 DEF Pending, Status, NData, Got, Cmd
<1>7. Got \in Nat /\ NData \in Nat /\ RspLen(Cmd) \in Nat /\ h.cbw.len \in Nat
  <2>1. Len(epIn) \in Nat /\ (epIn = <<>> <=> Len(epIn) = 0) /\ Len(h.got) \in Nat
    BY <1>1, EmptyFacts DEF TypeInv, HostType
  <2>2. RspLen(Cmd) \in Nat /\ h.cbw.len \in Nat
    BY <1>1, CommandFacts DEF TypeInv, HostType, Cmd, Cbws
  <2> QED
    BY <2>1, <2>2 DEF Got, NData, Status
<1>8. HostInv'
  BY <1>2, <1>3, <1>6, <1>7 DEF MInv, HostInv
<1>9. PendInv' /\ OutDataInv' /\ DataInInv' /\ DataOutInv'
  BY <1>2, <1>4, <1>6 DEF PendInv, OutDataInv, DataInInv, DataOutInv
<1>10. h.csw.status \notin {"PASSED", "FAILED"}
  BY <1>2 DEF MInv, StatusInv
<1>11. StatusInv' /\ ReadInv'
  BY <1>2, <1>3, <1>6, <1>10 DEF MInv, StatusInv, ReadInv
<1> QED
  BY <1>5, <1>8, <1>9, <1>11 DEF MInv

-----------------------------------------------------------------------------
(* The host's steps that start a command, move data or take the status.    *)

LEMMA TypedLengths ==
    ASSUME TypeInv
    PROVE  /\ Len(epIn) \in Nat /\ (epIn = <<>> <=> Len(epIn) = 0)
           /\ Len(epOut) \in Nat /\ (epOut = <<>> <=> Len(epOut) = 0)
           /\ Got \in Nat /\ NData \in Nat /\ NData <= Len(epIn)
           /\ Cmd \in CommandType /\ h.cbw \in Cbws /\ h.cbw.len \in Nat /\ h.cbw.tag \in Nat
           /\ h.sent \in Nat /\ RspLen(Cmd) \in Nat
<1>1. /\ Len(epIn) \in Nat /\ (epIn = <<>> <=> Len(epIn) = 0)
      /\ Len(epOut) \in Nat /\ (epOut = <<>> <=> Len(epOut) = 0) /\ Len(h.got) \in Nat
  BY EmptyFacts DEF TypeInv, HostType
<1>2. NData \in Nat /\ NData <= Len(epIn)
  BY <1>1 DEF NData, Status
<1>3. h.cbw \in Cbws /\ h.sent \in Nat
  BY DEF TypeInv, HostType
<1>4. Cmd \in CommandType /\ h.cbw.len \in Nat /\ h.cbw.tag \in Nat
  BY <1>3 DEF Cmd, Cbws
<1> QED
  BY <1>1, <1>2, <1>3, <1>4, CommandFacts DEF Got

LEMMA CommandsTyped == AllCommands \subseteq CommandType
<1>1. ASSUME NEW c \in [cmd : {"READ", "WRITE"}, lba : 0 .. (Blocks - 1), n : 1 .. Blocks],
             c.lba + c.n <= Blocks
      PROVE  c \in CommandType
  BY <1>1, SizesAssumption DEF CommandType
<1>2. ASSUME NEW m \in Short \cup NoData \cup Unknown
      PROVE  Command(m, 0, 0) \in CommandType
  BY DEF CommandType, Command, Short, NoData, Unknown
<1> QED
  BY <1>1, <1>2 DEF AllCommands

LEMMA HostCommandInv == MInv /\ HostCommand => MInv'
<1> SUFFICES ASSUME MInv, HostCommand PROVE MInv'
  OBVIOUS
<1> USE DEF botVars, scsiVars, cardVars, inVars
<1>1. TypeInv
  BY DEF MInv
<1>2. PICK cbw \in AllCbws(h.cbw.tag + 1) :
        /\ Sensible(cbw) /\ HostSends([kind |-> "cbw", val |-> cbw])
        /\ h' = [stage |-> IF cbw.len = 0 THEN "csw"
                           ELSE IF cbw.hostIn THEN "dataIn" ELSE "dataOut",
                 cbw |-> cbw, got |-> <<>>, sent |-> 0, tries |-> 0, csw |-> NoCsw]
  BY DEF HostCommand
<1> DEFINE p == [kind |-> "cbw", val |-> cbw]
<1>3. cbw \in Cbws /\ cbw.len \in Nat
  <2>1. PICK g \in BOOLEAN, c \in AllCommands, d \in BOOLEAN, n \in 0 .. (Blocks * BlockPackets + 1) :
          cbw = [tag |-> h.cbw.tag + 1, good |-> g, c |-> c, len |-> n, hostIn |-> d]
    BY <1>2 DEF AllCbws
  <2>2. n \in Nat /\ c \in CommandType /\ h.cbw.tag + 1 \in Nat
    BY <2>1, <1>1, TypedLengths, CommandsTyped
  <2>3. cbw.len = 0 => cbw.hostIn
    BY <1>2 DEF Sensible
  <2> QED
    BY <2>1, <2>2, <2>3 DEF Cbws
<1>4. /\ h.stage = "idle" /\ eState = "eCBW" /\ epIn = <<>> /\ ~outStall /\ ~inStall /\ epOut = <<>>
      /\ isr # "out"
  BY <1>2 DEF HostCommand, HostSends, MInv, HostInv, StatusInv, LinkInv
<1>5. /\ epOut' = <<p>> /\ outInt' = TRUE /\ UNCHANGED <<outStall, inVars, botVars, scsiVars, isr>>
  BY <1>2, <1>4 DEF HostSends
<1>6. /\ Len(epOut)' = 1 /\ epOut'[1] = p /\ epOut' # <<>> /\ epOut' \in Seq(OutPackets)
      /\ p.kind = "cbw" /\ p.val = cbw /\ Len(epIn) = 0
  <2>1. p \in OutPackets
    BY <1>3 DEF OutPackets
  <2> QED
    BY <1>4, <1>5, <2>1
<1>7. /\ h'.stage \in {"csw", "dataIn", "dataOut"} /\ h'.cbw = cbw /\ h'.got = <<>> /\ h'.sent = 0
      /\ h'.csw = NoCsw /\ (h'.stage = "csw" <=> cbw.len = 0)
      /\ (h'.stage = "dataIn" => cbw.hostIn) /\ (h'.stage = "dataOut" => ~cbw.hostIn)
  BY <1>2
<1>8. TypeInv'
  <2>1. h' \in HostType
    <3>1. NoCsw \in Csws /\ <<>> \in Seq(Values)
      BY DEF NoCsw, Csws, Statuses
    <3> QED
      BY <1>2, <1>3, <3>1 DEF Stages, HostType
  <2>2. outInt' \in BOOLEAN
    BY <1>5
  <2> QED
    BY <1>1, <1>5, <1>6, <2>1, <2>2 DEF TypeInv
<1>9. LinkInv'
  BY <1>4, <1>5, <1>6 DEF MInv, LinkInv
<1>10. Pending' /\ ~Status' /\ NData' = 0 /\ Got' = 0 /\ RspLen(Cmd)' \in Nat
  <2>1. Cmd' \in CommandType
    BY <1>3, <1>7 DEF Cmd, Cbws
  <2>2. RspLen(Cmd)' \in Nat
    BY <2>1, CommandFacts
  <2> QED
    BY <1>4, <1>5, <1>6, <1>7, <2>2 DEF Pending, Status, NData, Got
<1>11. HostInv' /\ PendInv' /\ OutDataInv'
  BY <1>3, <1>4, <1>5, <1>6, <1>7, <1>10 DEF HostInv, PendInv, OutDataInv
<1>12. DataInInv' /\ DataOutInv'
  BY <1>4, <1>5 DEF DataInInv, DataOutInv
<1>13. StatusInv' /\ ReadInv'
  <2>1. NoCsw.status = "none"
    BY DEF NoCsw
  <2> QED
    BY <2>1, <1>4, <1>5, <1>7, <1>10 DEF StatusInv, ReadInv
<1> QED
  BY <1>8, <1>9, <1>11, <1>12, <1>13 DEF MInv

LEMMA HostDataOutInv == MInv /\ HostDataOut => MInv'
<1> SUFFICES ASSUME MInv, HostDataOut PROVE MInv'
  OBVIOUS
<1> USE DEF botVars, scsiVars, cardVars, inVars
<1>1. TypeInv
  BY DEF MInv
<1> DEFINE p == [kind |-> "full", val |-> <<h.cbw.tag, h.sent>>]
<1>2. /\ h.stage = "dataOut" /\ Len(epOut) < 2 /\ ~outStall
      /\ epOut' = Append(epOut, p) /\ outInt' = TRUE
      /\ UNCHANGED <<outStall, inVars, botVars, scsiVars, isr>>
      /\ h' = [h EXCEPT !.sent = @ + 1, !.stage = IF h.sent + 1 = h.cbw.len THEN "csw" ELSE @]
  BY DEF HostDataOut, HostSends
<1>3. /\ h'.stage \in {"dataOut", "csw"} /\ (h'.stage = "csw" <=> h.sent + 1 = h.cbw.len)
      /\ h'.cbw = h.cbw /\ h'.got = h.got
      /\ h'.sent = h.sent + 1 /\ h'.csw = h.csw /\ h.sent \in Nat
      /\ h' \in HostType
  <2> DEFINE stage == IF h.sent + 1 = h.cbw.len THEN "csw" ELSE "dataOut"
  <2>1. h \in HostType
    BY <1>1 DEF TypeInv
  <2>2. h' = [[h EXCEPT !.sent = h.sent + 1] EXCEPT !.stage = stage]
    BY <1>2
  <2>3. stage \in {"dataOut", "csw"} /\ stage \in Stages /\ (stage = "csw" <=> h.sent + 1 = h.cbw.len)
    BY DEF Stages
  <2> HIDE DEF stage
  <2>4. /\ h'.stage = stage /\ h'.cbw = h.cbw /\ h'.got = h.got /\ h'.sent = h.sent + 1 /\ h'.csw = h.csw
        /\ h.sent \in Nat
    BY <2>1, <2>2 DEF HostType
  <2>5. h' \in HostType
    <3>1. [h EXCEPT !.sent = h.sent + 1] \in HostType
      BY <2>1, <2>4 DEF HostType
    <3> QED
      BY <2>2, <2>3, <3>1 DEF HostType
  <2> QED
    BY <2>3, <2>4, <2>5
<1>4. p \in OutPackets /\ p.kind = "full" /\ p.val = <<h.cbw.tag, h.sent>>
  BY <1>1, TypedLengths DEF OutPackets, Values
<1> HIDE DEF p
<1>5. /\ epOut' \in Seq(OutPackets) /\ Len(epOut)' = Len(epOut) + 1 /\ epOut' # <<>>
      /\ epOut'[Len(epOut) + 1] = p /\ \A i \in 1 .. Len(epOut) : epOut'[i] = epOut[i]
  BY <1>1, <1>2, <1>4, AppendFacts DEF TypeInv
<1>6. Len(epOut) \in Nat /\ (epOut = <<>> <=> Len(epOut) = 0) /\ h.cbw.len \in Nat
  BY <1>1, TypedLengths
<1>7. (Pending' <=> Pending) /\ Got' = Got /\ Cmd' = Cmd
  BY <1>3, <1>4, <1>5, <1>6 DEF Pending, Got, Cmd
<1>8. /\ ~h.cbw.hostIn /\ h.sent < h.cbw.len /\ NData = 0 /\ Got = 0 /\ (Pending \/ eState = "eDataOut")
      /\ epIn = <<>> /\ ~inStall
  BY <1>2 DEF MInv, HostInv, PendInv, DataOutInv
<1>9. ~Status' /\ NData' = 0 /\ epIn' = <<>> /\ ~inStall'
  BY <1>2, <1>8, TypedLengths, <1>1 DEF Status, NData
<1>10. TypeInv'
  <2>1. outInt' \in BOOLEAN
    BY <1>2
  <2> QED
    BY <1>1, <1>2, <1>3, <1>5, <2>1 DEF TypeInv
<1>11. LinkInv'
  BY <1>2, <1>5, <1>6 DEF MInv, LinkInv
<1>12. HostInv' /\ PendInv'
  BY <1>2, <1>3, <1>5, <1>6, <1>7, <1>8, <1>9 DEF MInv, HostInv, PendInv
<1>13. OutDataInv'
  <2>1. Len(epOut') = 2 => epOut'[2].kind # "cbw"
    BY <1>4, <1>5, <1>6
  <2>2. ASSUME NEW k \in 1 .. Len(epOut'), epOut'[k].kind # "cbw"
        PROVE  epOut'[k].val = <<h.cbw.tag, h.sent + 1 - Len(epOut') + k - 1>>
    <3>1. CASE k = Len(epOut) + 1
      <4>1. h.sent + 1 - Len(epOut') + k - 1 = h.sent
        BY <1>3, <1>5, <1>6, <3>1
      <4> QED
        BY <1>4, <1>5, <3>1, <4>1
    <3>2. CASE k # Len(epOut) + 1
      <4>1. k \in 1 .. Len(epOut)
        BY <1>5, <1>6, <3>2
      <4>2. epOut[k].val = <<h.cbw.tag, h.sent - Len(epOut) + k - 1>>
        BY <1>5, <1>8, <2>2, <4>1 DEF MInv, OutDataInv
      <4>3. h.sent + 1 - Len(epOut') + k - 1 = h.sent - Len(epOut) + k - 1
        BY <1>3, <1>5, <1>6, <4>1
      <4> QED
        BY <1>5, <4>1, <4>2, <4>3
    <3> QED
      BY <3>1, <3>2
  <2> QED
    BY <1>3, <2>1, <2>2 DEF OutDataInv
<1>14. \A k : OnDisk(k)' <=> OnDisk(k)
  BY <1>2, <1>3, <1>7 DEF OnDisk
<1>15. DataInInv' /\ DataOutInv'
  <2>1. eState # "eDataIn" /\ (eState = "eDataOut" => ~Pending)
    BY <1>8 DEF MInv, PendInv
  <2>2. CASE eState # "eDataOut"
    BY <1>2, <2>1, <2>2 DEF DataInInv, DataOutInv
  <2>3. CASE eState = "eDataOut"
    <3>1. h.sent = dwOffset + Len(epOut) /\ dwOffset \in Nat
      BY <1>1, <2>3 DEF MInv, DataOutInv, TypeInv
    <3>2. h'.sent = dwOffset + Len(epOut')
      BY <1>3, <1>5, <1>6, <3>1
    <3> QED
      BY <1>2, <1>3, <1>7, <1>8, <1>9, <1>14, <2>1, <2>3, <3>2 DEF MInv, DataInInv, DataOutInv
  <2> QED
    BY <2>2, <2>3
<1>16. eState \notin {"eCSW", "eStalled"} /\ eState' = eState
  BY <1>2, <1>8 DEF MInv, PendInv
<1>17. StatusInv' /\ ReadInv'
  <2>1. h.csw.status \notin {"PASSED", "FAILED"}
    BY <1>2 DEF MInv, StatusInv
  <2>2. eState = "eCBW" => Pending
    BY <1>8
  <2> QED
    BY <1>2, <1>3, <1>7, <1>8, <1>9, <1>16, <2>1, <2>2, <1>1, TypedLengths DEF MInv, StatusInv, ReadInv, Got
<1> QED
  BY <1>10, <1>11, <1>12, <1>13, <1>15, <1>17 DEF MInv

LEMMA HostDataInInv == MInv /\ HostDataIn => MInv'
<1> SUFFICES ASSUME MInv, HostDataIn PROVE MInv'
  OBVIOUS
<1> USE DEF botVars, scsiVars, cardVars, outVars
<1>1. TypeInv
  BY DEF MInv
<1> DEFINE p == epIn[1]
           last == p.kind # "full" \/ Len(h.got) + 1 = h.cbw.len
<1>2. /\ h.stage = "dataIn" /\ epIn # <<>> /\ ~inStall /\ epIn' = Tail(epIn) /\ inInt' = TRUE
      /\ UNCHANGED <<inStall, outVars, botVars, scsiVars, isr>>
      /\ h' = [h EXCEPT !.got = Append(h.got, p.val), !.stage = IF last THEN "csw" ELSE h.stage]
  BY <1>1, TailFacts DEF HostDataIn, TakeIn, TypeInv
<1>3. /\ epIn' \in Seq(InPackets) /\ Len(epIn') = Len(epIn) - 1 /\ p \in InPackets
      /\ \A i \in 1 .. Len(epIn) - 1 : epIn'[i] = epIn[i + 1]
  BY <1>1, <1>2, TailFacts DEF TypeInv
<1>4. /\ Len(epIn) \in Nat /\ Len(epIn) >= 1 /\ Got \in Nat /\ NData \in Nat /\ NData <= Len(epIn)
      /\ h.cbw.len \in Nat /\ RspLen(Cmd) \in Nat /\ Cmd \in CommandType
  BY <1>1, <1>2, TypedLengths
<1>5. h.cbw.hostIn /\ Got < h.cbw.len /\ Got + NData <= h.cbw.len /\ Got + NData <= RspLen(Cmd)
  BY <1>2 DEF MInv, HostInv
<1>6. NData >= 1
  BY <1>2, <1>4, <1>5 DEF MInv, StatusInv, NData
<1>7. p.kind \in {"short", "full"} /\ (p.kind = "short" => Cmd.cmd \in Short /\ NData = 1)
      /\ (Cmd.cmd = "READ" => p.kind = "full")
  <2>1. p.kind = IF Cmd.cmd \in Short THEN "short" ELSE "full"
    BY <1>4, <1>6 DEF MInv, ReadInv
  <2>2. "READ" \notin Short
    BY DEF Short
  <2> QED
    BY <1>4, <1>5, <1>6, <2>1, <2>2, CommandFacts
<1>8. p.val \in Values
  BY <1>3, <1>7 DEF InPackets
<1> DEFINE stage == IF last THEN "csw" ELSE h.stage
<1>9. stage \in {"dataIn", "csw"} /\ (stage = "csw" => NData = 1) /\ (stage = "dataIn" => Got + 1 # h.cbw.len)
      /\ (stage = "csw" => Cmd.cmd \in Short \/ Got + 1 = h.cbw.len)
  <2>1. last => NData = 1 /\ (Cmd.cmd \in Short \/ Got + 1 = h.cbw.len)
    BY <1>4, <1>5, <1>6, <1>7 DEF Got
  <2> QED
    BY <1>2, <2>1 DEF Got
<1>10. h' = [h EXCEPT !.got = Append(h.got, p.val), !.stage = stage]
  BY <1>2
<1> HIDE DEF p, last, stage
<1>11. /\ h'.stage = stage /\ h'.cbw = h.cbw /\ h'.got = Append(h.got, p.val) /\ h'.sent = h.sent
       /\ h'.csw = h.csw /\ h' \in HostType
  <2>1. Append(h.got, p.val) \in Seq(Values)
    BY <1>1, <1>8, AppendFacts DEF TypeInv, HostType
  <2> QED
    BY <1>1, <1>9, <1>10, <2>1 DEF TypeInv, HostType, Stages
<1>12. /\ Len(h'.got) = Got + 1 /\ h'.got[Got + 1] = p.val /\ \A i \in 1 .. Got : h'.got[i] = h.got[i]
  BY <1>1, <1>8, <1>11, AppendFacts DEF TypeInv, HostType, Got
<1>13. /\ (Pending' <=> Pending) /\ (Status' <=> Status) /\ NData' = NData - 1 /\ Got' = Got + 1
       /\ Cmd' = Cmd /\ Got' + NData' = Got + NData
  <2>1. (Pending' <=> Pending) /\ Got' = Got + 1 /\ Cmd' = Cmd
    BY <1>2, <1>11, <1>12 DEF Pending, Got, Cmd
  <2>2. Status' <=> Status
    <3>1. CASE Len(epIn) = 1
      BY <1>3, <1>4, <1>6, <3>1, TypedLengths, <1>1 DEF Status, NData
    <3>2. CASE Len(epIn) > 1
      <4>1. epIn'[Len(epIn')] = epIn[Len(epIn)] /\ epIn' # <<>>
        BY <1>3, <1>4, <3>2
      <4> QED
        BY <1>2, <4>1 DEF Status
    <3>3. \A n \in Nat : n >= 1 => n = 1 \/ n > 1
      OBVIOUS
    <3>4. Len(epIn) = 1 \/ Len(epIn) > 1
      BY <1>4, <3>3, Zenon
    <3> QED
      BY <3>1, <3>2, <3>4
  <2>3. NData' = NData - 1
    BY <1>3, <1>4, <2>2 DEF NData
  <2> QED
    BY <1>4, <2>1, <2>2, <2>3
<1>14. Status => epIn'[Len(epIn')] = epIn[Len(epIn)]
  BY <1>3, <1>4, <1>6 DEF NData
<1>15. TypeInv'
  <2>1. inInt' \in BOOLEAN
    BY <1>2
  <2> QED
    BY <1>1, <1>2, <1>3, <1>11, <2>1 DEF TypeInv
<1>16. LinkInv'
  BY <1>2, <1>3, <1>4, TypedLengths, <1>1 DEF MInv, LinkInv
<1>17. ~Pending
  BY <1>2 DEF MInv, PendInv
<1>18. HostInv'
  BY <1>2, <1>4, <1>5, <1>9, <1>11, <1>13, <1>17 DEF MInv, HostInv
<1>19. PendInv' /\ OutDataInv'
  BY <1>2, <1>11, <1>13, <1>17 DEF MInv, PendInv, OutDataInv
<1>20. eState # "eDataOut"
  BY <1>2 DEF MInv, DataOutInv
<1>21. DataInInv' /\ DataOutInv'
  <2>1. CASE eState = "eDataIn"
    <3>1. /\ Cmd.cmd = "READ" /\ CBW = h.cbw /\ dwTransferSize = RspLen(Cmd) /\ RspLen(Cmd) <= h.cbw.len
          /\ dwOffset >= 1 /\ dwOffset < dwTransferSize /\ ~Status /\ Got + Len(epIn) = dwOffset
          /\ ~inStall /\ ~outStall /\ epOut = <<>> /\ abBlockBuf = disk[BlockNr(Cmd, dwOffset - 1)]
      BY <2>1 DEF MInv, DataInInv
    <3>2. Got' + Len(epIn') = dwOffset
      BY <1>3, <1>4, <1>13, <3>1
    <3>3. stage # "csw"
      <4>1. "READ" \notin Short
        BY DEF Short
      <4>2. dwOffset \in Nat
        BY <1>1 DEF TypeInv
      <4> QED
        BY <1>4, <1>9, <3>1, <4>1, <4>2
    <3> QED
      BY <1>2, <1>5, <1>9, <1>11, <1>13, <2>1, <3>1, <3>2, <3>3 DEF DataInInv, DataOutInv
  <2>2. CASE eState # "eDataIn"
    BY <1>2, <1>20, <2>2 DEF DataInInv, DataOutInv
  <2> QED
    BY <2>1, <2>2
<1>22. \A k : OnDisk(k)' <=> OnDisk(k)
  BY <1>2, <1>11, <1>13 DEF OnDisk
<1>23. ASSUME NEW c, CswTrue(c) PROVE CswTrue(c)'
  BY <1>2, <1>11, <1>13, <1>22, <1>23 DEF CswTrue
<1>24. StatusInv'
  <2>1. h.csw.status \notin {"PASSED", "FAILED"}
    BY <1>2 DEF MInv, StatusInv
  <2>2. eState # "eStalled"
    BY <1>2 DEF MInv, StatusInv
  <2>3. Status => CswTrue(epIn[Len(epIn)].val)'
    <3>1. PICK c : c = epIn[Len(epIn)].val
      OBVIOUS
    <3>2. Status => CswTrue(c)'
      BY <1>23, <3>1 DEF MInv, StatusInv
    <3>3. Status => (epIn[Len(epIn)].val)' = c
      BY <1>14, <3>1
    <3> QED
      BY <3>2, <3>3
  <2> QED
    BY <1>2, <1>9, <1>11, <1>13, <1>17, <1>23, <2>1, <2>2, <2>3 DEF MInv, StatusInv
<1>25. ReadInv'
  <2>1. ASSUME NEW k \in 1 .. NData - 1
        PROVE  k + 1 \in 1 .. NData /\ epIn'[k] = epIn[k + 1]
    BY <1>3, <1>4, <2>1
  <2>2. \A k \in 1 .. NData - 1 : epIn'[k].kind = IF Cmd.cmd \in Short THEN "short" ELSE "full"
    BY <2>1 DEF MInv, ReadInv
  <2>3. ASSUME Cmd.cmd = "READ", NEW k \in 1 .. NData - 1
        PROVE  epIn'[k].val = disk[BlockNr(Cmd, Got + 1 + k - 1)][BufPos(Got + 1 + k - 1)]
    <3>1. epIn[k + 1].val = disk[BlockNr(Cmd, Got + (k + 1) - 1)][BufPos(Got + (k + 1) - 1)]
      BY <2>1, <2>3 DEF MInv, ReadInv
    <3>2. Got + (k + 1) - 1 = Got + 1 + k - 1
      BY <1>4
    <3> QED
      BY <2>1, <3>1, <3>2
  <2>4. ASSUME Cmd.cmd = "READ", NEW i \in 1 .. Got + 1
        PROVE  h'.got[i] = disk[BlockNr(Cmd, i - 1)][BufPos(i - 1)]
    <3>1. CASE i = Got + 1
      <4>1. epIn[1].val = disk[BlockNr(Cmd, Got + 1 - 1)][BufPos(Got + 1 - 1)]
        BY <1>4, <1>6, <2>4 DEF MInv, ReadInv
      <4> QED
        BY <1>4, <1>12, <3>1, <4>1 DEF p
    <3>2. CASE i # Got + 1
      <4>1. i \in 1 .. Got
        BY <1>4, <3>2
      <4> QED
        BY <1>12, <2>4, <4>1 DEF MInv, ReadInv
    <3> QED
      BY <3>1, <3>2
  <2> QED
    BY <1>2, <1>11, <1>13, <2>2, <2>3, <2>4 DEF ReadInv
<1> QED
  BY <1>15, <1>16, <1>18, <1>19, <1>21, <1>24, <1>25 DEF MInv

LEMMA HostCswInv == MInv /\ HostCsw => MInv'
<1> SUFFICES ASSUME MInv, HostCsw PROVE MInv'
  OBVIOUS
<1> USE DEF botVars, scsiVars, cardVars, outVars
<1>1. TypeInv
  BY DEF MInv
<1> DEFINE p == epIn[1]
           stage == IF p.kind = "csw" /\ p.val.status # "PHASE_ERR" THEN "idle" ELSE "reset"
<1>2. /\ h.stage = "csw" /\ epIn # <<>> /\ ~inStall /\ epIn' = Tail(epIn) /\ inInt' = TRUE
      /\ UNCHANGED <<inStall, outVars, botVars, scsiVars, isr>>
      /\ h' = [h EXCEPT !.csw = p.val, !.stage = stage]
  BY <1>1, TailFacts DEF HostCsw, TakeIn, TypeInv
<1>3. Len(epIn) \in Nat /\ Len(epIn) >= 1 /\ NData = 0 /\ Got \in Nat
  BY <1>1, <1>2, TypedLengths DEF MInv, HostInv
<1>4. Status /\ Len(epIn) = 1
  BY <1>3 DEF NData
<1>5. p.kind = "csw" /\ CswTrue(p.val) /\ eState = "eCBW" /\ ~Pending /\ p.val.tag = h.cbw.tag
      /\ p.val.status \in {"PASSED", "FAILED", "PHASE_ERR"}
  BY <1>4 DEF MInv, StatusInv, Status, CswTrue
<1>6. p.val \in Csws
  <2>1. p \in InPackets
    BY <1>1, <1>2, TailFacts DEF TypeInv
  <2> QED
    BY <1>5, <2>1 DEF InPackets
<1>7. epIn' = <<>> /\ Len(epIn') = 0 /\ epIn' \in Seq(InPackets)
  <2>1. epIn' \in Seq(InPackets) /\ Len(epIn') = 0
    BY <1>1, <1>2, <1>4, TailFacts DEF TypeInv
  <2> QED
    BY <2>1, EmptyFacts
<1>8. stage \in {"idle", "reset"} /\ (stage = "reset" <=> p.val.status = "PHASE_ERR")
  BY <1>5
<1> HIDE DEF p, stage
<1>9. /\ h'.stage = stage /\ h'.cbw = h.cbw /\ h'.got = h.got /\ h'.sent = h.sent /\ h'.csw = p.val
      /\ h' \in HostType
  BY <1>1, <1>2, <1>6, <1>8 DEF TypeInv, HostType, Stages
<1>10. TypeInv'
  <2>1. inInt' \in BOOLEAN
    BY <1>2
  <2> QED
    BY <1>1, <1>2, <1>7, <1>9, <2>1 DEF TypeInv
<1>11. LinkInv'
  BY <1>2, <1>7 DEF MInv, LinkInv
<1>12. ~Pending' /\ ~Status' /\ NData' = 0 /\ Got' = Got /\ Cmd' = Cmd
  BY <1>2, <1>5, <1>7, <1>9 DEF Pending, Status, NData, Got, Cmd
<1>13. HostInv' /\ PendInv' /\ OutDataInv' /\ DataInInv' /\ DataOutInv'
  BY <1>2, <1>3, <1>5, <1>7, <1>8, <1>9, <1>12 DEF MInv, HostInv, PendInv, OutDataInv, DataInInv, DataOutInv
<1>14. \A k : OnDisk(k)' <=> OnDisk(k)
  BY <1>2, <1>9, <1>12 DEF OnDisk
<1>15. ASSUME NEW c, CswTrue(c) PROVE CswTrue(c)'
  BY <1>2, <1>3, <1>9, <1>12, <1>14, <1>15 DEF CswTrue
<1>16. StatusInv' /\ ReadInv'
  BY <1>2, <1>5, <1>8, <1>9, <1>12, <1>15 DEF MInv, StatusInv, ReadInv
<1> QED
  BY <1>10, <1>11, <1>13, <1>16 DEF MInv

-----------------------------------------------------------------------------
(* The transport's steps.                                                  *)

LEMMA WriteCSWInv == MInv /\ WriteCSW => MInv'
<1> SUFFICES ASSUME MInv, WriteCSW PROVE MInv'
  OBVIOUS
<1> USE DEF scsiVars, cardVars, outVars
<1>1. TypeInv
  BY DEF MInv
<1> DEFINE p == [kind |-> "csw", val |-> CSW]
<1>2. /\ isr = "in" /\ isr' = "off" /\ eState = "eCSW" /\ eState' = "eCBW" /\ epIn' = Append(epIn, p)
      /\ UNCHANGED <<h, CBW, CSW, dwOffset, dwTransferSize, scsiVars, outVars, inInt, inStall>>
  BY DEF WriteCSW, WriteIn, AfterCSW
<1>3. p \in InPackets /\ p.kind = "csw" /\ p.val = CSW
  BY <1>1 DEF InPackets, TypeInv
<1> HIDE DEF p
<1>4. /\ epIn' \in Seq(InPackets) /\ Len(epIn') = Len(epIn) + 1 /\ epIn' # <<>>
      /\ epIn'[Len(epIn) + 1] = p /\ \A i \in 1 .. Len(epIn) : epIn'[i] = epIn[i]
  BY <1>1, <1>2, <1>3, AppendFacts DEF TypeInv
<1>5. Len(epIn) \in Nat /\ NData = Len(epIn) /\ ~Status /\ ~Pending /\ CswTrue(CSW)
      /\ (epOut = <<>> \/ outStall) /\ Len(epIn) < 2 /\ ~inStall /\ (inInt => Len(epIn) = 0)
      /\ h.stage # "idle"
  BY <1>1, <1>2, TypedLengths DEF MInv, StatusInv, LinkInv, HostInv, NData
<1>6. /\ (Pending' <=> Pending) /\ Status' /\ NData' = NData /\ Got' = Got /\ Cmd' = Cmd
      /\ epIn'[Len(epIn')].val = CSW
  BY <1>2, <1>3, <1>4, <1>5 DEF Pending, Status, NData, Got, Cmd
<1>7. TypeInv' /\ LinkInv'
  <2>1. eState' \in States
    BY <1>2 DEF States
  <2>2. TypeInv'
    BY <1>1, <1>2, <1>4, <2>1 DEF TypeInv
  <2> QED
    BY <1>2, <1>4, <1>5, <2>2 DEF MInv, LinkInv
<1>8. HostInv' /\ PendInv' /\ OutDataInv' /\ DataInInv' /\ DataOutInv'
  BY <1>2, <1>5, <1>6 DEF MInv, HostInv, PendInv, OutDataInv, DataInInv, DataOutInv
<1>9. \A k : OnDisk(k)' <=> OnDisk(k)
  BY <1>2, <1>6 DEF OnDisk
<1>10. ASSUME NEW c, CswTrue(c) PROVE CswTrue(c)'
  BY <1>2, <1>6, <1>9, <1>10 DEF CswTrue
<1>11. StatusInv'
  BY <1>2, <1>5, <1>6, <1>10 DEF MInv, StatusInv
<1>12. ReadInv'
  BY <1>2, <1>4, <1>5, <1>6 DEF MInv, ReadInv
<1> QED
  BY <1>7, <1>8, <1>11, <1>12 DEF MInv

\* Only a stalled transport is called when it does not wait.
LEMMA UnexpectedInv == MInv /\ Unexpected => MInv'
<1> SUFFICES ASSUME MInv, Unexpected PROVE MInv'
  OBVIOUS
<1> USE DEF scsiVars, cardVars
<1>1. TypeInv
  BY DEF MInv
<1>2. isr = "out" => eState \notin {"eDataIn", "eCSW", "eStalled"}
  BY DEF MInv, LinkInv, DataInInv, StatusInv
<1>3. /\ isr = "in" /\ eState = "eStalled" /\ isr' = "off" /\ inStall' = TRUE /\ outStall' = outStall
      /\ UNCHANGED <<h, eState, CBW, CSW, dwOffset, dwTransferSize, scsiVars, epIn, inInt, epOut, outInt>>
  BY <1>1, <1>2 DEF Unexpected, TypeInv
<1>4. TypeInv' /\ LinkInv'
  <2>1. inStall' \in BOOLEAN
    BY <1>3
  <2> QED
    BY <1>1, <1>3, <2>1 DEF TypeInv, MInv, LinkInv
<1>5. /\ (Pending' <=> Pending) /\ (Status' <=> Status) /\ NData' = NData /\ Got' = Got
      /\ Cmd' = Cmd /\ Len(epIn)' = Len(epIn)
  BY <1>3 DEF Pending, Status, NData, Got, Cmd
<1>6. ~Pending /\ h.stage # "idle" /\ ~Status
  BY <1>3 DEF MInv, StatusInv, HostInv, Status
<1>7. HostInv' /\ PendInv' /\ OutDataInv' /\ DataInInv' /\ DataOutInv'
  BY <1>3, <1>5, <1>6 DEF MInv, HostInv, PendInv, OutDataInv, DataInInv, DataOutInv
<1>8. StatusInv' /\ ReadInv'
  BY <1>3, <1>5, <1>6 DEF MInv, StatusInv, ReadInv
<1> QED
  BY <1>4, <1>7, <1>8 DEF MInv

\* The stall that a failed or short transfer ends in: the direction is the host's.
LEMMA StallFacts ==
    ASSUME TypeInv, BOTStall(h.cbw)
    PROVE  /\ h.cbw.hostIn => inStall' = TRUE /\ outStall' = outStall
           /\ ~h.cbw.hostIn => outStall' = TRUE /\ inStall' = inStall
           /\ inStall' \in BOOLEAN /\ outStall' \in BOOLEAN
<1>1. h.cbw \in Cbws /\ inStall \in BOOLEAN /\ outStall \in BOOLEAN
  BY DEF TypeInv, HostType
<1>2. h.cbw.len = 0 => h.cbw.hostIn
  BY <1>1 DEF Cbws
<1>3. /\ h.cbw.hostIn => inStall' = TRUE /\ outStall' = outStall
      /\ ~h.cbw.hostIn => outStall' = TRUE /\ inStall' = inStall
  BY <1>2 DEF BOTStall
<1>4. inStall' \in BOOLEAN
  BY <1>1, <1>3
<1>5. outStall' \in BOOLEAN
  BY <1>1, <1>3
<1> QED
  BY <1>3, <1>4, <1>5

\* What the status says.
LEMMA StatusFacts ==
    ASSUME TypeInv, NEW n \in Nat, NEW status \in {"PASSED", "FAILED", "PHASE_ERR"},
           SendCSW(h.cbw, n, status)
    PROVE  /\ eState' = "eCSW" /\ CSW' \in Csws /\ CSW'.tag = h.cbw.tag /\ CSW'.status = status
           /\ CSW'.residue = 0 => h.cbw.len <= n
<1>1. h.cbw.len \in Nat /\ h.cbw.tag \in Nat
  BY TypedLengths
<1> DEFINE r == IF h.cbw.len > n THEN h.cbw.len - n ELSE 0
<1>2. r \in Nat /\ (r = 0 => h.cbw.len <= n)
  BY <1>1
<1> HIDE DEF r
<1>3. CSW' = [tag |-> h.cbw.tag, status |-> status, residue |-> r] /\ eState' = "eCSW"
  BY DEF SendCSW, r
<1> QED
  BY <1>1, <1>2, <1>3 DEF Csws, Statuses

\* The status is ready: nothing more is coming in, and the host will not wait
\* for data that does not come.
LEMMA StatusReady ==
    ASSUME MInv, h' = h, eState' = "eCSW", CBW' = h.cbw, CswTrue(CSW)', ~Status', ~Pending',
           epOut' = <<>> \/ outStall', Len(epOut') \in 0 .. 1, h.stage # "idle",
           h.stage = "dataIn" => inStall' \/ Got + NData' = h.cbw.len,
           h.stage = "dataOut" => outStall', h.stage = "csw" => NData' = 0,
           ~h.cbw.hostIn => NData' = 0, Got + NData' <= RspLen(Cmd), Got + NData' <= h.cbw.len
    PROVE  HostInv' /\ PendInv' /\ OutDataInv' /\ DataInInv' /\ DataOutInv' /\ StatusInv'
<1>1. Got' = Got /\ Cmd' = Cmd
  BY DEF Got, Cmd
<1>2. HostInv'
  BY <1>1 DEF MInv, HostInv
<1>3. PendInv' /\ OutDataInv' /\ DataInInv' /\ DataOutInv'
  <2>1. Len(epOut') # 2
    OBVIOUS
  <2> QED
    BY <2>1 DEF PendInv, OutDataInv, DataInInv, DataOutInv
<1>4. h.csw.status \notin {"PASSED", "FAILED"}
  BY DEF MInv, StatusInv
<1>5. StatusInv'
  BY <1>1, <1>4 DEF MInv, StatusInv
<1> QED
  BY <1>2, <1>3, <1>5

\* The transport takes the command block, which is the running command's.
LEMMA CbwTaken ==
    ASSUME MInv, isr = "out", eState = "eCBW", ReadOut
    PROVE  /\ Head(epOut).kind = "cbw" /\ Head(epOut).val = h.cbw
           /\ epIn = <<>> /\ ~inStall /\ ~outStall
           /\ Got = 0 /\ NData = 0 /\ ~Status /\ h.csw = NoCsw /\ h.stage # "idle"
           /\ h.stage = "csw" /\ h.cbw.hostIn => h.cbw.len = 0
           /\ epOut' \in Seq(OutPackets) /\ outInt' \in BOOLEAN
           /\ Len(epOut') = h.sent /\ Len(epOut') \in 0 .. 1 /\ ~Pending' /\ (outInt' <=> epOut' # <<>>)
           /\ (Len(epOut') = 1 => epOut'[1].kind # "cbw" /\ epOut'[1].val = <<h.cbw.tag, 0>>)
           /\ h.cbw.hostIn => epOut' = <<>>
<1>1. TypeInv
  BY DEF MInv
<1>2. epOut # <<>> /\ ~outStall /\ (outInt => Len(epOut) = 2) /\ Len(epOut) <= 2
  BY DEF MInv, LinkInv
<1>3. Pending
  BY <1>2 DEF MInv, StatusInv
<1>4. Head(epOut) = epOut[1] /\ Len(epOut) \in Nat /\ Len(epOut) >= 1 /\ epOut' = Tail(epOut)
      /\ epOut' \in Seq(OutPackets) /\ Len(epOut') = Len(epOut) - 1
      /\ \A i \in 1 .. Len(epOut) - 1 : epOut'[i] = epOut[i + 1]
  BY <1>1, <1>2, TailFacts DEF TypeInv, ReadOut
<1>5. Head(epOut).kind = "cbw" /\ Head(epOut).val = h.cbw
  BY <1>3, <1>4 DEF Pending, MInv, PendInv
<1>6. /\ epIn = <<>> /\ ~inStall /\ Got = 0 /\ h.csw = NoCsw /\ h.stage # "idle"
      /\ (h.stage = "csw" /\ h.cbw.hostIn => h.cbw.len = 0) /\ h.sent = Len(epOut) - 1
  BY <1>3 DEF MInv, PendInv
<1>7. ~Status /\ NData = 0
  BY <1>6, TypedLengths, <1>1 DEF Status, NData
<1>8. Len(epOut') = 1 => epOut'[1] = epOut[2] /\ Len(epOut) = 2
  <2>1. \A n \in Nat : n - 1 = 1 => n = 2 /\ 1 \in 1 .. n - 1
    OBVIOUS
  <2>2. 1 + 1 = 2
    OBVIOUS
  <2> QED
    BY <1>4, <2>1, <2>2, Zenon
<1>9. Len(epOut') = 1 => epOut'[1].kind # "cbw" /\ epOut'[1].val = <<h.cbw.tag, 0>>
  <2>1. SUFFICES ASSUME Len(epOut') = 1
                 PROVE  epOut[2].kind # "cbw" /\ epOut[2].val = <<h.cbw.tag, 0>>
    BY <1>8
  <2>2. epOut[2].kind # "cbw"
    BY <1>8, <2>1 DEF MInv, OutDataInv
  <2>3. epOut[2].val = <<h.cbw.tag, h.sent - Len(epOut) + 2 - 1>>
    BY <1>3, <1>8, <2>1, <2>2 DEF MInv, OutDataInv
  <2>4. h.sent - Len(epOut) + 2 - 1 = 0
    BY <1>6, <1>8, <2>1
  <2> QED
    BY <2>2, <2>3, <2>4
<1>10. epOut' = <<>> <=> Len(epOut') = 0
  BY <1>4, EmptyFacts
<1>11. Len(epOut') \in 0 .. 1 /\ ~Pending'
  <2>1. Len(epOut') \in 0 .. 1
    BY <1>2, <1>4
  <2>2. epOut' # <<>> => epOut'[1].kind # "cbw"
    BY <1>4, <1>9, <1>10, <2>1
  <2> QED
    BY <2>1, <2>2 DEF Pending
<1>12. outInt' \in BOOLEAN /\ (outInt' <=> epOut' # <<>>)
  <2>1. outInt' = (outInt \/ Len(epOut) > 1) /\ outInt \in BOOLEAN
    BY <1>1 DEF ReadOut, TypeInv
  <2>2. outInt' <=> Len(epOut) > 1
    <3>1. outInt' <=> (outInt \/ Len(epOut) > 1)
      BY <2>1
    <3>2. outInt => Len(epOut) > 1
      BY <1>2
    <3> QED
      BY <3>1, <3>2
  <2>3. outInt' \in BOOLEAN
    BY <2>1
  <2> QED
    BY <1>4, <1>10, <2>2, <2>3
<1>13. h.cbw.hostIn => epOut' = <<>>
  BY <1>4, <1>6, <1>10 DEF MInv, HostInv
<1> QED
  BY <1>2, <1>4, <1>5, <1>6, <1>7, <1>9, <1>11, <1>12, <1>13

\* A bulk OUT event is over: the bit tells of the packet that is left.
LEMMA OutDone ==
    ASSUME LinkInv, isr = "out", isr' = "checkIn", inInt' = inInt,
           Len(epIn') <= 2, inInt => Len(epIn') < 2,
           Len(epOut') \in 0 .. 1, outInt' <=> epOut' # <<>>
    PROVE  LinkInv'
BY DEF LinkInv

LEMMA CbwBadInv == MInv /\ CbwBad => MInv'
<1> SUFFICES ASSUME MInv, CbwBad PROVE MInv'
  OBVIOUS
<1> USE DEF scsiVars, cardVars
<1>1. TypeInv
  BY DEF MInv
<1>2. /\ isr = "out" /\ isr' = "checkIn" /\ eState = "eCBW" /\ ReadOut
      /\ inStall' = TRUE /\ outStall' = TRUE /\ eState' = "eStalled"
      /\ UNCHANGED <<h, CSW, dwOffset, dwTransferSize, scsiVars, epIn, inInt>>
  BY DEF CbwBad
<1>3. /\ Head(epOut).kind = "cbw" /\ Head(epOut).val = h.cbw
      /\ epIn = <<>> /\ Got = 0 /\ NData = 0 /\ ~Status /\ h.csw = NoCsw /\ h.stage # "idle"
      /\ epOut' \in Seq(OutPackets) /\ outInt' \in BOOLEAN
      /\ Len(epOut') \in 0 .. 1 /\ ~Pending' /\ (outInt' <=> epOut' # <<>>)
  BY <1>2, CbwTaken
<1>4. CBW' = h.cbw /\ h.cbw \in Cbws
  BY <1>1, <1>3 DEF CbwBad, TypeInv, HostType
<1>5. TypeInv'
  <2>1. inStall' \in BOOLEAN /\ outStall' \in BOOLEAN /\ eState' \in States
    BY <1>2 DEF States
  <2> QED
    BY <1>1, <1>2, <1>3, <1>4, <2>1 DEF TypeInv
<1>6. LinkInv'
  BY <1>2, <1>3, OutDone, TypedLengths, <1>1 DEF MInv
<1>7. ~Status' /\ NData' = NData /\ Got' = Got /\ Cmd' = Cmd
  BY <1>2, <1>3 DEF Status, NData, Got, Cmd
<1>8. NoCsw.status = "none" /\ Len(epOut') # 2
  BY <1>3 DEF NoCsw
<1>9. HostInv' /\ PendInv' /\ OutDataInv' /\ DataInInv' /\ DataOutInv'
  BY <1>2, <1>3, <1>7 DEF MInv, HostInv, PendInv, OutDataInv, DataInInv, DataOutInv
<1>10. StatusInv' /\ ReadInv'
  BY <1>2, <1>3, <1>7, <1>8 DEF MInv, StatusInv, ReadInv
<1> QED
  BY <1>5, <1>6, <1>9, <1>10 DEF MInv

\* A command answered without data: unknown, or one host and device disagree on.
LEMMA RefusedInv == MInv /\ (CbwUnknown \/ CbwDisagrees) => MInv'
<1> SUFFICES ASSUME MInv, CbwUnknown \/ CbwDisagrees PROVE MInv'
  OBVIOUS
<1>1. TypeInv
  BY DEF MInv
<1>2. /\ isr = "out" /\ isr' = "checkIn" /\ eState = "eCBW" /\ ReadOut /\ CBW' = Head(epOut).val
      /\ refused' = {} /\ UNCHANGED <<h, disk, inInt, abBlockBuf, epIn>>
      /\ dwOffset' = 0 /\ dwTransferSize' = 0 /\ BOTStall(CBW')
  BY DEF CbwUnknown, CbwDisagrees, CbwGood
<1>3. /\ Head(epOut).val = h.cbw /\ epIn = <<>> /\ ~inStall /\ ~outStall
      /\ Got = 0 /\ NData = 0 /\ ~Status /\ h.csw = NoCsw /\ h.stage # "idle"
      /\ epOut' \in Seq(OutPackets) /\ outInt' \in BOOLEAN
      /\ Len(epOut') \in 0 .. 1 /\ ~Pending' /\ (outInt' <=> epOut' # <<>>)
      /\ (h.cbw.hostIn => epOut' = <<>>)
  BY <1>2, CbwTaken
<1>4. CBW' = h.cbw /\ h.cbw \in Cbws /\ BOTStall(h.cbw)
  BY <1>1, <1>2, <1>3 DEF TypeInv, HostType
<1>5. PICK status \in {"FAILED", "PHASE_ERR"} :
        /\ SendCSW(h.cbw, 0, status)
        /\ status = "FAILED" => Cmd.cmd = "VERIFY_BYTCHK" \/ dwSense' # "none"
        /\ dwSense' \in Senses
  <2>1. CASE CbwUnknown
    BY <1>1, <1>4, <2>1 DEF CbwUnknown, Cmd, Unknown, Senses, TypeInv
  <2>2. CASE CbwDisagrees
    BY <1>1, <1>4, <2>2 DEF CbwDisagrees, TypeInv
  <2> QED
    BY <2>1, <2>2
<1>6. /\ eState' = "eCSW" /\ CSW' \in Csws /\ CSW'.tag = h.cbw.tag /\ CSW'.status = status
  BY <1>1, <1>5, StatusFacts
<1>7. /\ h.cbw.hostIn => inStall' /\ ~outStall'
      /\ ~h.cbw.hostIn => outStall' /\ ~inStall'
      /\ inStall' \in BOOLEAN /\ outStall' \in BOOLEAN
  <2>1. /\ h.cbw.hostIn => inStall' = TRUE /\ outStall' = outStall
        /\ ~h.cbw.hostIn => outStall' = TRUE /\ inStall' = inStall
        /\ inStall' \in BOOLEAN /\ outStall' \in BOOLEAN
    BY <1>1, <1>4, StallFacts, Zenon
  <2>2. inStall' \in BOOLEAN /\ outStall' \in BOOLEAN
    BY <2>1
  <2>3. h.cbw.hostIn => inStall' /\ ~outStall'
    BY <1>3, <2>1
  <2>4. ~h.cbw.hostIn => outStall' /\ ~inStall'
    BY <1>3, <2>1
  <2> QED
    BY <2>2, <2>3, <2>4
<1>8. TypeInv'
  <2>1. eState' \in States
    BY <1>6 DEF States
  <2> QED
    BY <1>1, <1>2, <1>3, <1>4, <1>5, <1>6, <1>7, <2>1 DEF TypeInv
<1>9. Len(epIn) = 0 /\ h.cbw.len \in Nat /\ RspLen(Cmd) \in Nat /\ Len(epIn') = 0
  BY <1>1, <1>2, <1>3, TypedLengths
<1>10. LinkInv'
  BY <1>2, <1>3, <1>9, OutDone DEF MInv
<1>11. ~Status' /\ NData' = 0 /\ Got' = Got /\ Cmd' = Cmd /\ epIn' = <<>>
  BY <1>2, <1>3, <1>9 DEF Status, NData, Got, Cmd
<1>12. CswTrue(CSW)'
  <2>1. /\ CSW'.tag = h.cbw.tag /\ CSW'.status \in {"PASSED", "FAILED", "PHASE_ERR"}
        /\ CSW'.status # "PASSED"
        /\ CSW'.status = "FAILED" /\ Cmd.cmd # "VERIFY_BYTCHK" => dwSense' # "none"
    BY <1>5, <1>6
  <2> QED
    BY <1>2, <1>11, <2>1 DEF CswTrue
<1>13. h.stage = "dataIn" => h.cbw.hostIn
  BY DEF MInv, HostInv
<1>14. h.stage = "dataOut" => ~h.cbw.hostIn
  BY DEF MInv, HostInv
<1>15. HostInv' /\ PendInv' /\ OutDataInv' /\ DataInInv' /\ DataOutInv' /\ StatusInv'
  <2>1. Got + NData' <= RspLen(Cmd) /\ Got + NData' <= h.cbw.len
    BY <1>3, <1>9, <1>11
  <2> QED
    BY <1>2, <1>3, <1>4, <1>6, <1>7, <1>11, <1>12, <1>13, <1>14, <2>1, StatusReady
<1>16. ReadInv'
  BY <1>2, <1>3, <1>11 DEF MInv, ReadInv
<1> QED
  BY <1>8, <1>10, <1>15, <1>16 DEF MInv

LEMMA CbwDataOutInv == MInv /\ CbwDataOut => MInv'
<1> SUFFICES ASSUME MInv, CbwDataOut PROVE MInv'
  OBVIOUS
<1>1. TypeInv
  BY DEF MInv
<1>2. /\ isr = "out" /\ isr' = "checkIn" /\ eState = "eCBW" /\ ReadOut /\ CBW' = Head(epOut).val
      /\ refused' = {} /\ UNCHANGED <<h, disk, inInt, CSW, dwSense, abBlockBuf, epIn, inStall, outStall>>
      /\ eState' = "eDataOut" /\ dwOffset' = 0 /\ dwTransferSize' = RspLen(CBW'.c)
      /\ RspLen(CBW'.c) > 0 /\ ~DevIn(CBW'.c) /\ ~Disagree(CBW')
  BY DEF CbwDataOut, CbwGood
<1>3. /\ Head(epOut).val = h.cbw /\ epIn = <<>> /\ ~inStall /\ ~outStall
      /\ Got = 0 /\ NData = 0 /\ ~Status /\ h.csw = NoCsw /\ h.stage # "idle"
      /\ epOut' \in Seq(OutPackets) /\ outInt' \in BOOLEAN /\ Len(epOut') = h.sent
      /\ Len(epOut') \in 0 .. 1 /\ ~Pending' /\ (outInt' <=> epOut' # <<>>)
      /\ (Len(epOut') = 1 => epOut'[1].kind # "cbw" /\ epOut'[1].val = <<h.cbw.tag, 0>>)
  BY <1>2, CbwTaken
<1>4. CBW' = h.cbw /\ h.cbw \in Cbws /\ CBW'.c = Cmd
  BY <1>1, <1>2, <1>3 DEF TypeInv, HostType, Cmd
<1>5. /\ Cmd.cmd = "WRITE" /\ ~h.cbw.hostIn /\ RspLen(Cmd) <= h.cbw.len /\ RspLen(Cmd) > 0
      /\ RspLen(Cmd) \in Nat /\ dwTransferSize' = RspLen(Cmd) /\ h.cbw.len \in Nat
  <2>1. RspLen(Cmd) \in Nat /\ h.cbw.len \in Nat
    BY <1>1, TypedLengths
  <2>2. h.cbw.hostIn \in BOOLEAN
    BY <1>4 DEF Cbws
  <2>3. Cmd.cmd = "WRITE" /\ ~h.cbw.hostIn
    BY <1>2, <1>4, <2>2 DEF Disagree, DevIn
  <2> QED
    BY <1>2, <1>4, <2>1, <2>3 DEF Disagree
<1>6. TypeInv'
  <2>1. eState' \in States /\ dwOffset' <= dwTransferSize'
    BY <1>2, <1>5 DEF States
  <2> QED
    BY <1>1, <1>2, <1>3, <1>4, <1>5, <2>1 DEF TypeInv
<1>7. Len(epIn) = 0 /\ Len(epIn') = 0
  BY <1>1, <1>2, <1>3, TypedLengths
<1>8. LinkInv'
  BY <1>2, <1>3, <1>7, OutDone DEF MInv
<1>9. ~Status' /\ NData' = 0 /\ Got' = Got /\ Cmd' = Cmd /\ epIn' = <<>>
  BY <1>2, <1>3, <1>7 DEF Status, NData, Got, Cmd
<1>10. HostInv' /\ PendInv'
  BY <1>2, <1>3, <1>5, <1>9 DEF MInv, HostInv, PendInv
<1>11. OutDataInv'
  <2>1. Len(epOut') # 2
    BY <1>3
  <2>2. ASSUME NEW k \in 1 .. Len(epOut')
        PROVE  epOut'[k].val = <<h.cbw.tag, h.sent - Len(epOut') + k - 1>>
    <3>1. k = 1 /\ Len(epOut') = 1
      BY <1>3, <2>2
    <3>2. h.sent - Len(epOut') + k - 1 = 0
      BY <1>3, <3>1
    <3> QED
      BY <1>3, <3>1, <3>2
  <2> QED
    BY <1>2, <2>1, <2>2 DEF OutDataInv
<1>12. DataInInv' /\ DataOutInv'
  <2>1. h.sent = 0 + Len(epOut') /\ \A k \in Nat : ~(k < 0)
    BY <1>3
  <2>2. h.stage \in {"dataOut", "csw", "reset"}
    BY <1>1, <1>3, <1>5 DEF MInv, HostInv, TypeInv, HostType, Stages
  <2>3. DataInInv'
    BY <1>2 DEF DataInInv
  <2> QED
    BY <1>2, <1>3, <1>4, <1>5, <1>9, <2>1, <2>2, <2>3 DEF DataOutInv
<1>13. StatusInv' /\ ReadInv'
  <2>1. NoCsw.status = "none"
    BY DEF NoCsw
  <2> QED
    BY <1>2, <1>3, <1>9, <2>1 DEF StatusInv, ReadInv
<1> QED
  BY <1>6, <1>8, <1>10, <1>11, <1>12, <1>13 DEF MInv

\* What a packet of data is taken from.
LEMMA BufferFacts ==
    ASSUME TypeInv, NEW off \in Nat, off < RspLen(Cmd) \/ RspLen(Cmd) = 0
    PROVE  /\ BufferToSend(Cmd, off) \in Block
           /\ Cmd.cmd = "READ" /\ BufPos(off) = 0 => BufferToSend(Cmd, off) = disk[BlockNr(Cmd, off)]
           /\ Cmd.cmd = "READ" /\ BufPos(off) # 0 => BufferToSend(Cmd, off) = abBlockBuf
<1>1. Cmd \in CommandType /\ RspLen(Cmd) \in Nat
  BY TypedLengths
<1>2. CASE Cmd.cmd \in Short
  <2>1. BufferToSend(Cmd, off) = [abBlockBuf EXCEPT ![0] = <<Cmd.cmd, dwSense>>]
    BY <1>2 DEF BufferToSend, Short
  <2>2. <<Cmd.cmd, dwSense>> \in Values
    BY <1>2 DEF TypeInv, Values
  <2>3. BufferToSend(Cmd, off) \in Block
    BY <2>1, <2>2 DEF Block, TypeInv
  <2> QED
    BY <1>2, <2>3 DEF Short
<1>3. CASE Cmd.cmd = "READ" /\ BufPos(off) = 0
  <2>1. BufferToSend(Cmd, off) = disk[BlockNr(Cmd, off)]
    BY <1>3 DEF BufferToSend, Short
  <2>2. BlockNr(Cmd, off) \in Cards
    BY <1>1, <1>3, CommandFacts
  <2> QED
    BY <1>3, <2>1, <2>2 DEF TypeInv
<1>4. CASE Cmd.cmd \notin Short /\ ~(Cmd.cmd = "READ" /\ BufPos(off) = 0)
  BY <1>4 DEF BufferToSend, TypeInv
<1> QED
  BY <1>2, <1>3, <1>4

LEMMA DataInKeeps ==
    ASSUME MInv, NEW off \in Nat, NEW ok \in BOOLEAN, HandleDataIn(h.cbw, off, RspLen(Cmd), ok),
           h' = h, CBW' = h.cbw, disk' = disk, ~Pending', ~Status, Got + Len(epIn) = off,
           off < RspLen(Cmd) \/ (off = 0 /\ RspLen(Cmd) = 0),
           RspLen(Cmd) > 0 => h.cbw.hostIn /\ Cmd.cmd # "WRITE", RspLen(Cmd) <= h.cbw.len,
           off >= 1 => Cmd.cmd = "READ" /\ abBlockBuf = disk[BlockNr(Cmd, off - 1)],
           Cmd.cmd \notin Unknown,
           h.cbw.hostIn => epOut' = <<>>, Len(epOut') \in 0 .. 1,
           ~inStall, ~outStall, h.stage # "idle", h.stage = "csw" /\ h.cbw.hostIn => h.cbw.len = 0
    PROVE  /\ HostInv' /\ PendInv' /\ OutDataInv' /\ DataInInv' /\ DataOutInv' /\ StatusInv' /\ ReadInv'
           /\ epIn' \in Seq(InPackets) /\ Len(epIn') <= Len(epIn) + 1 /\ abBlockBuf' \in Block
           /\ dwSense' \in Senses /\ eState' \in States /\ CSW' \in Csws
           /\ dwOffset' \in Nat /\ dwTransferSize' \in Nat /\ dwOffset' <= dwTransferSize'
           /\ inStall' \in BOOLEAN /\ outStall' \in BOOLEAN
<1>1. TypeInv
  BY DEF MInv
<1>2. PICK size : size = RspLen(Cmd)
  OBVIOUS
<1> DEFINE fails == ReadFails(Cmd, off, ok)
           kind  == IF Cmd.cmd \in Short THEN "short" ELSE "full"
           p     == [kind |-> kind, val |-> abBlockBuf'[BufPos(off)]]
<1>3. /\ dwTransferSize' = size /\ dwSense' = SenseAfterRead(Cmd, off, ok)
      /\ fails => /\ BOTStall(h.cbw) /\ SendCSW(h.cbw, size, "FAILED") /\ dwOffset' = off
                  /\ UNCHANGED <<epIn, abBlockBuf>>
      /\ ~fails => abBlockBuf' = BufferToSend(Cmd, off)
      /\ ~fails /\ off < size => dwOffset' = off + 1 /\ epIn' = Append(epIn, p)
      /\ ~fails /\ ~(off < size) => dwOffset' = off /\ epIn' = epIn
      /\ ~fails => IF dwOffset' = size /\ size # h.cbw.len THEN BOTStall(h.cbw) ELSE NoStall
      /\ ~fails => IF dwOffset' = size THEN SendCSW(h.cbw, size, "PASSED")
                                       ELSE eState' = "eDataIn" /\ UNCHANGED CSW
  BY <1>2 DEF HandleDataIn, WriteIn, Cmd
<1>4. /\ size \in Nat /\ Len(epIn) \in Nat /\ Got \in Nat /\ NData = Len(epIn) /\ Cmd \in CommandType
      /\ h.cbw.len \in Nat /\ h.cbw \in Cbws /\ (epIn = <<>> <=> Len(epIn) = 0)
  BY <1>1, <1>2, TypedLengths DEF NData
<1>5. Cmd.cmd # "WRITE"
  BY <1>2, <1>4, CommandFacts
<1>6. Got' = Got /\ Cmd' = Cmd
  BY DEF Got, Cmd
<1>7. h.cbw.len = 0 => h.cbw.hostIn
  BY <1>4 DEF Cbws
\* A packet of data.
<1>8. ASSUME ~fails
      PROVE  /\ abBlockBuf' \in Block /\ (Cmd.cmd = "READ" => abBlockBuf' = disk[BlockNr(Cmd, off)])
  <2>1. abBlockBuf' \in Block
    BY <1>1, <1>3, <1>8, BufferFacts
  <2>2. CASE BufPos(off) = 0
    BY <1>1, <1>3, <1>8, <2>1, <2>2, BufferFacts
  <2>3. CASE Cmd.cmd = "READ" /\ BufPos(off) # 0
    <3>1. off >= 1
      BY <2>3, SizesAssumption DEF BufPos
    <3>2. PICK k \in Nat : off = k + 1 /\ k = off - 1
      BY <3>1
    <3>3. Blk(off) = Blk(k)
      BY <2>3, <3>2, NextPosition
    <3>4. BlockNr(Cmd, off) = BlockNr(Cmd, off - 1)
      BY <3>2, <3>3 DEF BlockNr, Blk
    <3>5. abBlockBuf' = abBlockBuf
      BY <1>1, <1>3, <1>8, <2>3, BufferFacts
    <3> QED
      BY <2>1, <3>1, <3>4, <3>5
  <2> QED
    BY <2>1, <2>2, <2>3
<1>9. ASSUME ~fails, off < size
      PROVE  /\ epIn' \in Seq(InPackets) /\ Len(epIn') = Len(epIn) + 1 /\ epIn' # <<>>
             /\ epIn'[Len(epIn) + 1] = p /\ p.kind = kind /\ p.val = abBlockBuf'[BufPos(off)]
             /\ \A i \in 1 .. Len(epIn) : epIn'[i] = epIn[i]
  <2>1. kind \in {"short", "full"} /\ BufPos(off) \in Pos
    BY Quotient
  <2>2. p \in InPackets
    <3>1. abBlockBuf'[BufPos(off)] \in Values
      BY <1>8, <1>9, <2>1 DEF Block
    <3> QED
      BY <2>1, <3>1 DEF InPackets
  <2>3. PICK q : q = p
    OBVIOUS
  <2>4. p.kind = kind /\ p.val = abBlockBuf'[BufPos(off)]
    OBVIOUS
  <2>5. epIn' = Append(epIn, q) /\ q \in InPackets /\ epIn \in Seq(InPackets)
    BY <1>1, <1>3, <1>9, <2>2, <2>3 DEF TypeInv
  <2> HIDE DEF p
  <2>6. /\ epIn' \in Seq(InPackets) /\ Len(epIn') = Len(epIn) + 1 /\ epIn' # <<>>
        /\ epIn'[Len(epIn) + 1] = q /\ \A i \in 1 .. Len(epIn) : epIn'[i] = epIn[i]
    BY <2>5, AppendFacts
  <2> QED
    BY <2>3, <2>4, <2>6
<1>10. fails \/ ~(off < size) => epIn' = epIn
  BY <1>3
<1> HIDE DEF fails, kind, p
<1>11. epIn' \in Seq(InPackets) /\ Len(epIn') \in Nat /\ Len(epIn') <= Len(epIn) + 1
  <2>1. CASE fails \/ ~(off < size)
    BY <1>1, <1>4, <1>10, <2>1 DEF TypeInv
  <2>2. CASE ~fails /\ off < size
    BY <1>4, <1>9, <2>2
  <2> QED
    BY <2>1, <2>2
<1>12. ~Status' /\ NData' = Len(epIn')
  <2>1. ~Status'
    <3>1. CASE fails \/ ~(off < size)
      BY <1>10, <3>1 DEF Status
    <3>2. CASE ~fails /\ off < size
      <4>1. epIn'[Len(epIn')].kind = kind
        BY <1>9, <3>2
      <4> QED
        BY <4>1 DEF Status, kind
    <3> QED
      BY <3>1, <3>2
  <2> QED
    BY <2>1 DEF NData
\* What has been sent is what the offset says.
<1>13. /\ fails \/ ~(off < size) => Got + NData' = off
       /\ ~fails /\ off < size => Got + NData' = off + 1
  <2>1. fails \/ ~(off < size) => Len(epIn') = Len(epIn)
    BY <1>10
  <2>2. ~fails /\ off < size => Len(epIn') = Len(epIn) + 1
    BY <1>9
  <2> QED
    BY <1>4, <1>11, <1>12, <2>1, <2>2
<1>14. /\ Got + NData' <= size /\ Got + NData' <= h.cbw.len /\ dwOffset' \in Nat /\ dwOffset' <= size
       /\ ~fails => dwOffset' = Got + NData'
       /\ ~(off < size) => off = 0 /\ size = 0 /\ Got + NData' = 0
  <2>1. PICK n \in Nat : n = NData'
    BY <1>11, <1>12
  <2>2. PICK d : d = dwOffset'
    OBVIOUS
  <2>3. (fails \/ ~(off < size) => Got + n = off /\ d = off) /\ (~fails /\ off < size => Got + n = off + 1 /\ d = off + 1)
    BY <1>3, <1>13, <2>1, <2>2
  <2>4. size <= h.cbw.len /\ (off < size \/ (off = 0 /\ size = 0))
    BY <1>2
  <2>5. Got + n <= size /\ Got + n <= h.cbw.len /\ d \in Nat /\ d <= size
    BY <1>4, <2>3, <2>4
  <2>6. ~fails => d = Got + n
    BY <2>3
  <2>7. ~(off < size) => off = 0 /\ size = 0 /\ Got + n = 0
    BY <2>3, <2>4
  <2> QED
    BY <2>1, <2>2, <2>5, <2>6, <2>7
<1>15. ReadInv'
  <2>1. \A k \in 1 .. NData' : epIn'[k].kind = IF Cmd.cmd \in Short THEN "short" ELSE "full"
    <3>1. ASSUME NEW k \in 1 .. Len(epIn) PROVE epIn[k].kind = IF Cmd.cmd \in Short THEN "short" ELSE "full"
      BY <1>4, <3>1 DEF MInv, ReadInv
    <3>2. CASE fails \/ ~(off < size)
      BY <1>10, <1>12, <3>1, <3>2
    <3>3. CASE ~fails /\ off < size
      <4>1. ASSUME NEW k \in 1 .. Len(epIn) + 1 PROVE k \in 1 .. Len(epIn) \/ k = Len(epIn) + 1
        BY <1>4, <4>1
      <4> QED
        BY <1>9, <1>12, <3>1, <3>3, <4>1 DEF kind
    <3> QED
      BY <3>2, <3>3
  <2>2. ASSUME Cmd.cmd = "READ", NEW k \in 1 .. NData'
        PROVE  epIn'[k].val = disk[BlockNr(Cmd, Got + k - 1)][BufPos(Got + k - 1)]
    <3>1. ASSUME k \in 1 .. Len(epIn)
          PROVE  epIn[k].val = disk[BlockNr(Cmd, Got + k - 1)][BufPos(Got + k - 1)]
      BY <1>4, <2>2, <3>1 DEF MInv, ReadInv
    <3>2. CASE fails \/ ~(off < size)
      BY <1>10, <1>12, <2>2, <3>1, <3>2
    <3>3. CASE ~fails /\ off < size
      <4>1. k \in 1 .. Len(epIn) \/ k = Len(epIn) + 1
        BY <1>4, <1>9, <1>12, <2>2, <3>3
      <4>2. CASE k \in 1 .. Len(epIn)
        BY <1>9, <3>1, <3>3, <4>2
      <4>3. CASE k = Len(epIn) + 1
        <5>1. Got + k - 1 = off
          BY <1>4, <4>3
        <5>2. epIn'[k].val = disk[BlockNr(Cmd, off)][BufPos(off)]
          BY <1>8, <1>9, <2>2, <3>3, <4>3
        <5> QED
          BY <5>1, <5>2
      <4> QED
        BY <4>1, <4>2, <4>3
    <3> QED
      BY <3>2, <3>3
  <2> QED
    BY <1>6, <2>1, <2>2 DEF MInv, ReadInv
<1>16. dwSense' \in Senses
  BY <1>1, <1>3 DEF SenseAfterRead, Senses, TypeInv
<1>17. abBlockBuf' \in Block
  BY <1>1, <1>3, <1>8 DEF TypeInv
\* The last packet, or none to send.
<1>18. CASE fails \/ dwOffset' = size
  <2>1. PICK status \in {"PASSED", "FAILED"} : SendCSW(h.cbw, size, status) /\ (status = "FAILED" <=> fails)
    BY <1>3, <1>18
  <2>2. /\ eState' = "eCSW" /\ CSW' \in Csws /\ CSW'.tag = h.cbw.tag /\ CSW'.status = status
        /\ (CSW'.residue = 0 => h.cbw.len <= size)
    BY <1>1, <1>4, <2>1, StatusFacts
  <2>3. /\ fails \/ size # h.cbw.len => BOTStall(h.cbw)
        /\ ~(fails \/ size # h.cbw.len) => NoStall
    BY <1>3, <1>18
  <2>4. inStall' \in BOOLEAN /\ outStall' \in BOOLEAN
    <3>1. inStall \in BOOLEAN /\ outStall \in BOOLEAN
      BY <1>1 DEF TypeInv
    <3>2. CASE BOTStall(h.cbw)
      BY <1>1, <3>2, StallFacts, Zenon
    <3>3. CASE NoStall
      BY <3>1, <3>3 DEF NoStall
    <3> QED
      BY <2>3, <3>2, <3>3
  <2>5. /\ fails \/ size # h.cbw.len => (h.cbw.hostIn => inStall') /\ (~h.cbw.hostIn => outStall')
        /\ ~(fails \/ size # h.cbw.len) => ~inStall' /\ ~outStall'
    <3>1. CASE fails \/ size # h.cbw.len
      <4>1. (h.cbw.hostIn => inStall' = TRUE) /\ (~h.cbw.hostIn => outStall' = TRUE)
        BY <1>1, <2>3, <3>1, StallFacts, Zenon
      <4> QED
        BY <3>1, <4>1
    <3>2. CASE ~(fails \/ size # h.cbw.len)
      BY <2>3, <3>2 DEF NoStall
    <3> QED
      BY <3>1, <3>2
  <2>6. ~h.cbw.hostIn => size # h.cbw.len /\ size = 0
    BY <1>2, <1>4, <1>7
  <2>7. CswTrue(CSW)'
    <3>1. status = "FAILED" => dwSense' # "none"
      <4>1. fails => dwSense' # "none"
        BY <1>3 DEF fails, ReadFails, SenseAfterRead
      <4> QED
        BY <2>1, <4>1
    <3>2. status = "PASSED" /\ CSW'.residue = 0 =>
            ~inStall' /\ (h.cbw.hostIn => Got + NData' = h.cbw.len)
      <4>1. SUFFICES ASSUME status = "PASSED", CSW'.residue = 0
                     PROVE  ~inStall' /\ Got + NData' = h.cbw.len
        OBVIOUS
      <4>2. ~fails /\ dwOffset' = size /\ size = h.cbw.len
        BY <1>2, <1>4, <1>18, <2>1, <2>2, <4>1
      <4> QED
        BY <1>14, <2>5, <4>2
    <3> QED
      BY <1>5, <1>6, <2>2, <3>1, <3>2 DEF CswTrue
  <2>8. h.stage = "dataIn" => inStall' \/ Got + NData' = h.cbw.len
    <3>1. h.stage = "dataIn" => h.cbw.hostIn
      BY DEF MInv, HostInv
    <3> QED
      BY <1>14, <1>18, <2>5, <3>1
  <2>9. h.stage = "dataOut" => outStall'
    <3>1. h.stage = "dataOut" => ~h.cbw.hostIn
      BY DEF MInv, HostInv
    <3> QED
      BY <2>5, <2>6, <3>1
  <2>10. (~h.cbw.hostIn => NData' = 0) /\ (h.stage = "csw" => NData' = 0)
    <3>1. size = 0 => NData' = 0
      BY <1>4, <1>11, <1>12, <1>14
    <3>2. h.stage = "csw" /\ h.cbw.hostIn => size = 0
      BY <1>2, <1>4
    <3> QED
      BY <2>6, <3>1, <3>2
  <2>11. epOut' = <<>> \/ outStall'
    BY <2>5, <2>6
  <2>12. HostInv' /\ PendInv' /\ OutDataInv' /\ DataInInv' /\ DataOutInv' /\ StatusInv'
    BY <1>2, <1>12, <1>14, <2>2, <2>7, <2>8, <2>9, <2>10, <2>11, StatusReady
  <2>13. eState' \in States
    BY <2>2 DEF States
  <2> QED
    BY <1>3, <1>4, <1>11, <1>14, <1>15, <1>16, <1>17, <2>2, <2>4, <2>12, <2>13
\* There is more to come.
<1>19. CASE ~fails /\ dwOffset' # size
  <2>1. off < size /\ off + 1 < size /\ dwOffset' = off + 1
    BY <1>3, <1>4, <1>14, <1>19
  <2>2. /\ Cmd.cmd = "READ" /\ h.cbw.hostIn /\ size <= h.cbw.len /\ size > 0
    <3>1. size # 0 /\ size # 1
      BY <1>4, <2>1
    <3>2. Cmd.cmd = "READ"
      BY <1>2, <1>4, <1>5, <3>1, CommandFacts
    <3> QED
      BY <1>2, <1>4, <3>1, <3>2
  <2>3. eState' = "eDataIn" /\ CSW' = CSW /\ inStall' = inStall /\ outStall' = outStall
    BY <1>3, <1>19 DEF NoStall
  <2>4. h.stage \in {"dataIn", "reset"}
    <3>1. h.stage \in Stages
      BY <1>1 DEF TypeInv, HostType
    <3>2. h.stage # "dataOut"
      BY <2>2 DEF MInv, HostInv
    <3>3. h.stage # "csw"
      BY <1>4, <2>2
    <3> QED
      BY <3>1, <3>2, <3>3 DEF Stages
  <2>5. abBlockBuf' = disk[BlockNr(Cmd, dwOffset' - 1)]
    <3>1. dwOffset' - 1 = off
      BY <2>1
    <3> QED
      BY <1>8, <1>19, <2>2, <3>1
  <2>6. epOut' = <<>> /\ Got + Len(epIn') = dwOffset'
    BY <1>12, <1>14, <1>19, <2>2
  <2>7. DataInInv' /\ DataOutInv'
    <3>1. dwOffset' >= 1 /\ dwOffset' < dwTransferSize' /\ dwTransferSize' = size
      BY <1>3, <2>1
    <3> QED
      BY <1>2, <1>6, <1>12, <2>2, <2>3, <2>4, <2>5, <2>6, <3>1 DEF DataInInv, DataOutInv
  <2>8. HostInv'
    BY <1>2, <1>6, <1>14, <2>2, <2>3, <2>4 DEF MInv, HostInv
  <2>9. PendInv' /\ OutDataInv'
    <3>1. Len(epOut') # 2
      OBVIOUS
    <3> QED
      BY <2>3, <3>1 DEF PendInv, OutDataInv
  <2>10. StatusInv'
    <3>1. h.csw.status \notin {"PASSED", "FAILED"}
      BY DEF MInv, StatusInv
    <3> QED
      BY <1>12, <2>3, <3>1 DEF MInv, StatusInv
  <2>11. eState' \in States /\ CSW' \in Csws /\ inStall' \in BOOLEAN /\ outStall' \in BOOLEAN
    BY <1>1, <2>3 DEF States, TypeInv
  <2> QED
    BY <1>3, <1>4, <1>11, <1>14, <1>15, <1>16, <1>17, <2>7, <2>8, <2>9, <2>10, <2>11
<1> QED
  BY <1>18, <1>19

LEMMA CbwDataInInv == MInv /\ CbwDataIn => MInv'
<1> SUFFICES ASSUME MInv, CbwDataIn PROVE MInv'
  OBVIOUS
<1>1. TypeInv
  BY DEF MInv
<1>2. /\ isr = "out" /\ isr' = "checkIn" /\ eState = "eCBW" /\ ReadOut /\ CBW' = Head(epOut).val
      /\ h' = h /\ disk' = disk /\ inInt' = inInt
      /\ CBW'.c.cmd \notin Unknown /\ ~Disagree(CBW') /\ (RspLen(CBW'.c) = 0 \/ DevIn(CBW'.c))
  BY DEF CbwDataIn, CbwGood
<1>3. /\ Head(epOut).val = h.cbw /\ epIn = <<>> /\ ~inStall /\ ~outStall
      /\ Got = 0 /\ NData = 0 /\ ~Status /\ h.stage # "idle"
      /\ (h.stage = "csw" /\ h.cbw.hostIn => h.cbw.len = 0)
      /\ epOut' \in Seq(OutPackets) /\ outInt' \in BOOLEAN
      /\ Len(epOut') \in 0 .. 1 /\ ~Pending' /\ (outInt' <=> epOut' # <<>>)
      /\ (h.cbw.hostIn => epOut' = <<>>)
  BY <1>2, CbwTaken
<1>4. CBW' = h.cbw /\ h.cbw \in Cbws /\ CBW'.c = Cmd
  BY <1>1, <1>2, <1>3 DEF TypeInv, HostType, Cmd
<1>5. PICK ok \in BOOLEAN : HandleDataIn(h.cbw, 0, RspLen(Cmd), ok)
  BY <1>4 DEF CbwDataIn
<1>6. /\ Len(epIn) = 0 /\ Got + Len(epIn) = 0 /\ RspLen(Cmd) \in Nat /\ h.cbw.len \in Nat
      /\ (0 < RspLen(Cmd) \/ (0 = 0 /\ RspLen(Cmd) = 0))
  BY <1>1, <1>3, TypedLengths
<1>7. (RspLen(Cmd) > 0 => h.cbw.hostIn /\ Cmd.cmd # "WRITE") /\ RspLen(Cmd) <= h.cbw.len
  <2>1. h.cbw.hostIn \in BOOLEAN
    BY <1>4 DEF Cbws
  <2>2. ~(RspLen(Cmd) > h.cbw.len) /\ ~(RspLen(Cmd) > 0 /\ h.cbw.hostIn # DevIn(Cmd))
        /\ (RspLen(Cmd) = 0 \/ DevIn(Cmd))
    BY <1>2, <1>4 DEF Disagree
  <2> QED
    BY <1>6, <2>1, <2>2 DEF DevIn
<1>8. Cmd.cmd \notin Unknown /\ ~(0 >= 1)
  BY <1>2, <1>4
<1>9. /\ HostInv' /\ PendInv' /\ OutDataInv' /\ DataInInv' /\ DataOutInv' /\ StatusInv' /\ ReadInv'
      /\ epIn' \in Seq(InPackets) /\ Len(epIn') <= Len(epIn) + 1 /\ abBlockBuf' \in Block
      /\ dwSense' \in Senses /\ eState' \in States /\ CSW' \in Csws
      /\ dwOffset' \in Nat /\ dwTransferSize' \in Nat /\ dwOffset' <= dwTransferSize'
      /\ inStall' \in BOOLEAN /\ outStall' \in BOOLEAN
  BY <1>2, <1>3, <1>4, <1>5, <1>6, <1>7, <1>8, DataInKeeps
<1>10. TypeInv'
  BY <1>1, <1>2, <1>3, <1>4, <1>9 DEF TypeInv
<1>11. LinkInv'
  <2>1. Len(epIn') <= 2 /\ (inInt => Len(epIn') < 2)
    BY <1>6, <1>9, EmptyFacts
  <2> QED
    BY <1>2, <1>3, <2>1, OutDone DEF MInv
<1> QED
  BY <1>9, <1>10, <1>11 DEF MInv

LEMMA MoreDataInInv == MInv /\ MoreDataIn => MInv'
<1> SUFFICES ASSUME MInv, MoreDataIn PROVE MInv'
  OBVIOUS
<1> USE DEF cardVars
<1>1. TypeInv
  BY DEF MInv
<1>2. /\ isr = "in" /\ isr' = "off" /\ eState = "eDataIn"
      /\ UNCHANGED <<h, CBW, cardVars, epOut, outInt, inInt>>
  BY DEF MoreDataIn
<1>3. /\ Cmd.cmd = "READ" /\ h.cbw.hostIn /\ CBW = h.cbw
      /\ dwTransferSize = RspLen(Cmd) /\ RspLen(Cmd) <= h.cbw.len
      /\ dwOffset >= 1 /\ dwOffset < dwTransferSize
      /\ ~Status /\ Got + Len(epIn) = dwOffset
      /\ ~inStall /\ ~outStall /\ epOut = <<>> /\ h.stage \in {"dataIn", "reset"}
      /\ abBlockBuf = disk[BlockNr(Cmd, dwOffset - 1)]
  BY <1>2 DEF MInv, DataInInv
<1>4. PICK off \in Nat : off = dwOffset
  BY <1>1 DEF TypeInv
<1>5. PICK ok \in BOOLEAN : HandleDataIn(h.cbw, off, RspLen(Cmd), ok)
  BY <1>3, <1>4 DEF MoreDataIn
<1>6. Len(epIn) \in Nat /\ Len(epIn) < 2 /\ (inInt => Len(epIn) = 0) /\ ~outInt
  BY <1>1, <1>2, <1>3, TypedLengths DEF MInv, LinkInv
<1>7. epOut' = <<>> /\ Len(epOut') \in 0 .. 1 /\ ~Pending' /\ epOut' \in Seq(OutPackets)
  <2>1. epOut' = <<>> /\ Len(epOut') = 0
    BY <1>2, <1>3
  <2> QED
    BY <2>1 DEF Pending
<1>8. Cmd.cmd \notin Unknown /\ Cmd.cmd # "WRITE" /\ h.stage # "idle" /\ h.stage # "csw"
  BY <1>3 DEF Unknown
<1>9. /\ HostInv' /\ PendInv' /\ OutDataInv' /\ DataInInv' /\ DataOutInv' /\ StatusInv' /\ ReadInv'
      /\ epIn' \in Seq(InPackets) /\ Len(epIn') <= Len(epIn) + 1 /\ abBlockBuf' \in Block
      /\ dwSense' \in Senses /\ eState' \in States /\ CSW' \in Csws
      /\ dwOffset' \in Nat /\ dwTransferSize' \in Nat /\ dwOffset' <= dwTransferSize'
      /\ inStall' \in BOOLEAN /\ outStall' \in BOOLEAN
  BY <1>2, <1>3, <1>4, <1>5, <1>7, <1>8, DataInKeeps
<1>10. TypeInv'
  BY <1>1, <1>2, <1>7, <1>9 DEF TypeInv
<1>11. LinkInv'
  <2>1. Len(epIn') \in Nat /\ Len(epIn') <= 2 /\ (inInt => Len(epIn') < 2) /\ Len(epOut') <= 2
    BY <1>6, <1>7, <1>9, EmptyFacts
  <2> QED
    BY <1>2, <1>6, <1>7, <2>1 DEF LinkInv
<1> QED
  BY <1>9, <1>10, <1>11 DEF MInv

\* A block that is written takes the packets of it that are in the buffer to the
\* card, and nothing else changes there.
LEMMA WriteFacts ==
    ASSUME TypeInv, NEW b \in Cards, NEW block \in Block, BlockDevWrite(b, block)
    PROVE  /\ disk' \in [Cards -> Block]
           /\ \A x \in Cards : x # b => disk'[x] = disk[x]
           /\ b \in refused' \/ disk'[b] = block
           /\ refused \subseteq refused'
<1>1. disk \in [Cards -> Block]
  BY DEF TypeInv
<1>2. CASE disk' = [disk EXCEPT ![b] = block] /\ refused' = refused
  BY <1>1, <1>2
<1>3. CASE refused' = refused \cup {b} /\ disk' = disk
  BY <1>1, <1>3
<1> QED
  BY <1>2, <1>3 DEF BlockDevWrite

LEMMA DataOutStep == MInv /\ DataOut => MInv'
<1> SUFFICES ASSUME MInv, DataOut PROVE MInv'
  OBVIOUS
<1> USE DEF cardVars
<1>1. TypeInv
  BY DEF MInv
<1>2. /\ isr = "out" /\ isr' = "checkIn" /\ eState = "eDataOut" /\ ReadOut
      /\ abBlockBuf' = [abBlockBuf EXCEPT ![BufPos(dwOffset)] = Head(epOut).val]
      /\ WritesBlock(dwOffset) => BlockDevWrite(BlockNr(CBW.c, dwOffset), abBlockBuf')
      /\ ~WritesBlock(dwOffset) => UNCHANGED cardVars
      /\ dwOffset' = dwOffset + 1
      /\ dwOffset' = dwTransferSize => /\ IF dwTransferSize # CBW.len THEN BOTStall(CBW) ELSE NoStall
                                       /\ SendCSW(CBW, dwTransferSize, "PASSED")
      /\ dwOffset' # dwTransferSize => NoStall /\ UNCHANGED <<eState, CSW>>
      /\ UNCHANGED <<h, CBW, dwTransferSize, dwSense, epIn, inInt>>
  BY DEF DataOut
<1>3. /\ Cmd.cmd = "WRITE" /\ ~h.cbw.hostIn /\ CBW = h.cbw
      /\ dwTransferSize = RspLen(Cmd) /\ RspLen(Cmd) <= h.cbw.len
      /\ dwOffset < dwTransferSize /\ h.sent = dwOffset + Len(epOut) /\ ~Pending
      /\ epIn = <<>> /\ ~inStall /\ ~outStall /\ h.stage \in {"dataOut", "csw", "reset"}
  BY <1>2 DEF MInv, DataOutInv
<1>4. PICK off \in Nat : off = dwOffset
  BY <1>1 DEF TypeInv
<1>5. ASSUME NEW k \in Nat, k < off
      PROVE  /\ Blk(k) < Blk(off) => OnDisk(k)
             /\ Blk(k) = Blk(off) => abBlockBuf[BufPos(k)] = <<h.cbw.tag, k>>
  BY <1>2, <1>4, <1>5 DEF MInv, DataOutInv
<1>6. /\ RspLen(Cmd) \in Nat /\ h.cbw.len \in Nat /\ h.cbw.tag \in Nat /\ h.sent \in Nat
      /\ Cmd \in CommandType /\ h.cbw \in Cbws /\ Len(epOut) \in Nat /\ Len(epIn) = 0 /\ Got \in Nat
      /\ NData = 0 /\ Got = 0
  BY <1>1, <1>3, TypedLengths DEF MInv, HostInv, NData, Status
\* The packet that is taken is the one at the offset.
<1>7. /\ epOut # <<>> /\ (outInt => Len(epOut) = 2) /\ Len(epOut) <= 2
  BY <1>2 DEF MInv, LinkInv
<1>8. /\ Head(epOut) = epOut[1] /\ Len(epOut) >= 1 /\ epOut' = Tail(epOut)
      /\ epOut' \in Seq(OutPackets) /\ Len(epOut') = Len(epOut) - 1
      /\ \A i \in 1 .. Len(epOut) - 1 : epOut'[i] = epOut[i + 1]
  BY <1>1, <1>2, <1>7, TailFacts DEF TypeInv, ReadOut
<1>9. epOut[1].kind # "cbw"
  BY <1>3, <1>7 DEF Pending
<1>10. Head(epOut).val = <<h.cbw.tag, off>> /\ Head(epOut).val \in Values
  <2>1. epOut[1].val = <<h.cbw.tag, h.sent - Len(epOut) + 1 - 1>>
    BY <1>2, <1>6, <1>8, <1>9 DEF MInv, OutDataInv
  <2>2. h.sent - Len(epOut) + 1 - 1 = off
    BY <1>3, <1>4, <1>6
  <2>3. <<h.cbw.tag, off>> \in Values
    BY <1>6 DEF Values
  <2> QED
    BY <1>8, <2>1, <2>2, <2>3
<1>11. Len(epOut') = 1 => epOut'[1] = epOut[2] /\ Len(epOut) = 2
  <2>1. \A n \in Nat : n - 1 = 1 => n = 2 /\ 1 \in 1 .. n - 1
    OBVIOUS
  <2>2. 1 + 1 = 2
    OBVIOUS
  <2> QED
    BY <1>6, <1>8, <2>1, <2>2, Zenon
<1>12. Len(epOut') \in 0 .. 1 /\ (epOut' = <<>> <=> Len(epOut') = 0)
  <2>1. epOut' = <<>> <=> Len(epOut') = 0
    BY <1>8, EmptyFacts
  <2>2. \A n \in Nat : n >= 1 /\ n <= 2 => n - 1 \in 0 .. 1
    OBVIOUS
  <2>3. Len(epOut) - 1 \in 0 .. 1
    BY <1>6, <1>7, <1>8, <2>2, Zenon
  <2> QED
    BY <1>8, <2>1, <2>3
<1>13. /\ Len(epOut') = 1 => epOut'[1].kind # "cbw" /\ epOut'[1].val = <<h.cbw.tag, off + 1>>
       /\ ~Pending'
  <2>1. Len(epOut') = 1 => epOut'[1].kind # "cbw" /\ epOut'[1].val = <<h.cbw.tag, off + 1>>
    <3>1. SUFFICES ASSUME Len(epOut') = 1
                   PROVE  epOut[2].kind # "cbw" /\ epOut[2].val = <<h.cbw.tag, off + 1>>
      BY <1>11
    <3>2. epOut[2].kind # "cbw"
      BY <1>11, <3>1 DEF MInv, OutDataInv
    <3>3. epOut[2].val = <<h.cbw.tag, h.sent - Len(epOut) + 2 - 1>>
      <4>1. \A k \in 1 .. Len(epOut) : epOut[k].kind # "cbw" =>
              epOut[k].val = <<h.cbw.tag, h.sent - Len(epOut) + k - 1>>
        BY <1>2 DEF MInv, OutDataInv
      <4>2. 2 \in 1 .. Len(epOut)
        BY <1>11, <3>1
      <4> QED
        BY <3>2, <4>1, <4>2
    <3>4. h.sent - Len(epOut) + 2 - 1 = off + 1
      BY <1>3, <1>4, <1>6
    <3> QED
      BY <3>2, <3>3, <3>4
  <2>2. epOut' # <<>> => epOut'[1].kind # "cbw"
    BY <1>12, <2>1
  <2> QED
    BY <2>1, <2>2 DEF Pending
<1>14. outInt' \in BOOLEAN /\ (outInt' <=> epOut' # <<>>)
  <2>1. outInt' = (outInt \/ Len(epOut) > 1) /\ outInt \in BOOLEAN
    BY <1>1, <1>2 DEF ReadOut, TypeInv
  <2>2. outInt' <=> Len(epOut) > 1
    <3>1. outInt' <=> (outInt \/ Len(epOut) > 1)
      BY <2>1
    <3>2. outInt => Len(epOut) > 1
      BY <1>7
    <3> QED
      BY <3>1, <3>2
  <2>3. outInt' \in BOOLEAN
    BY <2>1
  <2> QED
    BY <1>6, <1>8, <1>12, <2>2, <2>3
\* The block buffer.
<1>15. /\ Blk(off) \in Nat /\ BufPos(off) \in Pos /\ abBlockBuf' \in Block
       /\ \A k \in Nat : k <= off /\ Blk(k) = Blk(off) => abBlockBuf'[BufPos(k)] = <<h.cbw.tag, k>>
  <2>1. Blk(off) \in Nat /\ BufPos(off) \in Pos /\ abBlockBuf \in Block
    BY <1>1, Quotient DEF TypeInv
  <2>2. abBlockBuf' \in Block /\ abBlockBuf'[BufPos(off)] = <<h.cbw.tag, off>>
        /\ \A q \in Pos : q # BufPos(off) => abBlockBuf'[q] = abBlockBuf[q]
    BY <1>2, <1>4, <1>10, <2>1 DEF Block
  <2>3. ASSUME NEW k \in Nat, k <= off, Blk(k) = Blk(off)
        PROVE  abBlockBuf'[BufPos(k)] = <<h.cbw.tag, k>>
    <3>1. CASE k = off
      BY <2>2, <3>1
    <3>2. CASE k # off
      <4>1. BufPos(k) \in Pos /\ BufPos(k) # BufPos(off) /\ k < off
        BY <2>3, <3>2, Quotient, BlockOrder
      <4> QED
        BY <1>5, <2>2, <2>3, <4>1
    <3> QED
      BY <3>1, <3>2
  <2> QED
    BY <2>1, <2>2, <2>3
<1>16. Got' = Got /\ Cmd' = Cmd /\ ~Status' /\ NData' = 0 /\ Len(epIn') = 0 /\ epIn' = <<>>
  BY <1>2, <1>3, <1>6 DEF Got, Cmd, Status, NData
\* The card, when the block is full.
<1>17. ASSUME WritesBlock(off)
       PROVE  disk' \in [Cards -> Block] /\ \A k \in Nat : k <= off => OnDisk(k)'
  <2> DEFINE b == BlockNr(Cmd, off)
  <2>1. b \in Cards /\ \A k \in Nat : k <= off => BlockNr(Cmd, k) \in Cards
    BY <1>3, <1>4, <1>6, CommandFacts
  <2>2. BlockDevWrite(b, abBlockBuf')
    BY <1>2, <1>3, <1>4, <1>17 DEF Cmd
  <2>3. PICK block \in Block : block = abBlockBuf'
    BY <1>15
  <2>4. PICK c \in Cards : c = b
    BY <2>1
  <2>5. /\ disk' \in [Cards -> Block] /\ (\A x \in Cards : x # c => disk'[x] = disk[x])
        /\ (c \in refused' \/ disk'[c] = abBlockBuf') /\ refused \subseteq refused'
    BY <1>1, <2>2, <2>3, <2>4, WriteFacts
  <2>6. ASSUME NEW k \in Nat, k <= off PROVE OnDisk(k)'
    <3>1. Blk(k) \in Nat /\ Blk(k) <= Blk(off)
      BY <2>6, Quotient, BlockOrder
    <3>2. CASE Blk(k) = Blk(off)
      <4>1. BlockNr(Cmd, k) = c
        BY <2>4, <3>2 DEF BlockNr, Blk
      <4>2. abBlockBuf'[BufPos(k)] = <<h.cbw.tag, k>>
        BY <1>15, <2>6, <3>2
      <4> QED
        BY <1>2, <1>16, <2>5, <4>1, <4>2 DEF OnDisk
    <3>3. CASE Blk(k) # Blk(off)
      <4>1. k < off /\ Blk(k) < Blk(off)
        BY <1>15, <2>6, <3>1, <3>3
      <4>2. OnDisk(k)
        BY <1>5, <4>1
      <4>3. BlockNr(Cmd, k) # c
        <5>1. Cmd.lba \in Nat
          BY <1>6 DEF CommandType
        <5>2. BlockNr(Cmd, k) = Cmd.lba + Blk(k) /\ c = Cmd.lba + Blk(off)
          BY <2>4 DEF BlockNr, Blk
        <5> QED
          BY <1>15, <3>1, <3>3, <5>1, <5>2
      <4>4. BlockNr(Cmd, k) \in Cards
        BY <2>1, <2>6
      <4> QED
        BY <1>2, <1>16, <2>5, <4>2, <4>3, <4>4 DEF OnDisk
    <3> QED
      BY <3>2, <3>3
  <2> QED
    BY <2>5, <2>6
<1>18. /\ (WritesBlock(off) => Blk(off + 1) = Blk(off) + 1)
       /\ (~WritesBlock(off) => Blk(off + 1) = Blk(off) /\ disk' = disk /\ refused' = refused)
  BY <1>2, <1>4, NextPosition DEF WritesBlock
<1>19. disk' \in [Cards -> Block]
  BY <1>1, <1>17, <1>18 DEF TypeInv
<1>20. ASSUME NEW k \in Nat, k < off + 1
       PROVE  /\ Blk(k) < Blk(off + 1) => OnDisk(k)'
              /\ Blk(k) = Blk(off + 1) => abBlockBuf'[BufPos(k)] = <<h.cbw.tag, k>>
  <2>1. k <= off /\ Blk(k) \in Nat /\ Blk(k) <= Blk(off)
    BY <1>20, Quotient, BlockOrder
  <2>2. CASE WritesBlock(off)
    BY <1>15, <1>17, <1>18, <2>1, <2>2
  <2>3. CASE ~WritesBlock(off)
    <3>1. Blk(k) < Blk(off) => k < off
      <4>1. k = off => Blk(k) = Blk(off)
        OBVIOUS
      <4> QED
        BY <1>15, <2>1, <4>1
    <3>2. OnDisk(k) => OnDisk(k)'
      BY <1>2, <1>16, <1>18, <2>3 DEF OnDisk
    <3> QED
      BY <1>5, <1>15, <1>18, <2>1, <2>3, <3>1, <3>2
  <2> QED
    BY <2>2, <2>3
<1>21. LinkInv'
  BY <1>2, <1>12, <1>14, <1>16, OutDone DEF MInv
<1>22. ReadInv'
  BY <1>3, <1>16 DEF ReadInv
<1>23. dwOffset' = off + 1 /\ off + 1 <= RspLen(Cmd) /\ dwTransferSize' = RspLen(Cmd)
       /\ h.sent = off + 1 + Len(epOut')
  BY <1>2, <1>3, <1>4, <1>6, <1>8
\* The last packet.
<1>24. CASE off + 1 = RspLen(Cmd)
  <2>1. /\ SendCSW(h.cbw, RspLen(Cmd), "PASSED")
        /\ (RspLen(Cmd) # h.cbw.len => BOTStall(h.cbw)) /\ (RspLen(Cmd) = h.cbw.len => NoStall)
    BY <1>2, <1>3, <1>23, <1>24
  <2>2. eState' = "eCSW" /\ CSW' \in Csws /\ CSW'.tag = h.cbw.tag /\ CSW'.status = "PASSED"
    BY <1>1, <1>6, <2>1, StatusFacts
  <2>3. /\ inStall' \in BOOLEAN /\ outStall' \in BOOLEAN /\ ~inStall'
        /\ (RspLen(Cmd) # h.cbw.len => outStall')
    <3>1. CASE RspLen(Cmd) # h.cbw.len
      <4>1. inStall' \in BOOLEAN /\ outStall' \in BOOLEAN /\ outStall' = TRUE /\ inStall' = inStall
        BY <1>1, <1>3, <2>1, <3>1, StallFacts, Zenon
      <4> QED
        BY <1>3, <4>1
    <3>2. CASE RspLen(Cmd) = h.cbw.len
      BY <1>1, <1>3, <2>1, <3>2 DEF NoStall, TypeInv
    <3> QED
      BY <3>1, <3>2
  <2>4. epOut' = <<>> \/ outStall'
    <3>1. h.sent <= h.cbw.len
      BY DEF MInv, HostInv
    <3> QED
      BY <1>6, <1>12, <1>23, <1>24, <2>3, <3>1
  <2>5. h.stage = "dataOut" => outStall'
    <3>1. h.stage = "dataOut" => h.sent < h.cbw.len
      BY DEF MInv, HostInv
    <3> QED
      BY <1>6, <1>12, <1>23, <1>24, <2>3, <3>1
  <2>6. WritesBlock(off)
    BY <1>3, <1>6, <1>24, CommandFacts DEF WritesBlock
  <2>7. CswTrue(CSW)'
    <3>1. \A k \in Nat : k < RspLen(Cmd) => OnDisk(k)'
      BY <1>17, <1>24, <2>6
    <3> QED
      BY <1>2, <1>3, <1>16, <2>2, <2>3, <3>1 DEF CswTrue
  <2>8. HostInv' /\ PendInv' /\ OutDataInv' /\ DataInInv' /\ DataOutInv' /\ StatusInv'
    <3>1. CBW' = h.cbw /\ h' = h /\ h.stage # "idle" /\ h.stage # "dataIn"
          /\ Got + NData' <= RspLen(Cmd) /\ Got + NData' <= h.cbw.len
      BY <1>2, <1>3, <1>6, <1>16
    <3> QED
      BY <1>12, <1>13, <1>16, <2>2, <2>4, <2>5, <2>7, <3>1, StatusReady
  <2>9. TypeInv'
    <3>1. eState' \in States /\ dwOffset' <= dwTransferSize' /\ dwOffset' \in Nat
      BY <1>6, <1>23, <2>2 DEF States
    <3> QED
      BY <1>1, <1>2, <1>8, <1>14, <1>15, <1>19, <2>2, <2>3, <3>1 DEF TypeInv
  <2> QED
    BY <1>21, <1>22, <2>8, <2>9 DEF MInv
\* There is more to come.
<1>25. CASE off + 1 # RspLen(Cmd)
  <2>1. off + 1 < RspLen(Cmd) /\ inStall' = inStall /\ outStall' = outStall /\ eState' = eState /\ CSW' = CSW
    BY <1>2, <1>3, <1>6, <1>23, <1>25 DEF NoStall
  <2>2. TypeInv'
    <3>1. dwOffset' <= dwTransferSize' /\ dwOffset' \in Nat
      BY <1>6, <1>23, <2>1
    <3> QED
      BY <1>1, <1>2, <1>8, <1>14, <1>15, <1>19, <2>1, <3>1 DEF TypeInv
  <2>3. HostInv' /\ PendInv'
    BY <1>2, <1>3, <1>6, <1>13, <1>16, <2>1 DEF MInv, HostInv, PendInv
  <2>4. OutDataInv'
    <3>1. Len(epOut') # 2
      BY <1>12
    <3>2. ASSUME NEW k \in 1 .. Len(epOut')
          PROVE  epOut'[k].val = <<h.cbw.tag, h.sent - Len(epOut') + k - 1>>
      <4>1. k = 1 /\ Len(epOut') = 1
        BY <1>12, <3>2
      <4>2. h.sent - Len(epOut') + k - 1 = off + 1
        BY <1>23, <4>1
      <4> QED
        BY <1>13, <4>1, <4>2
    <3> QED
      BY <1>2, <3>1, <3>2 DEF OutDataInv
  <2>5. DataInInv' /\ DataOutInv'
    <3>1. DataInInv'
      BY <1>2, <2>1 DEF DataInInv
    <3>2. h'.sent = dwOffset' + Len(epOut') /\ dwOffset' < dwTransferSize'
      BY <1>2, <1>23, <2>1
    <3>3. \A k \in Nat : /\ k < dwOffset' /\ Blk(k) < Blk(dwOffset') => OnDisk(k)'
                         /\ k < dwOffset' /\ Blk(k) = Blk(dwOffset') => abBlockBuf'[BufPos(k)] = <<h.cbw.tag, k>>
      BY <1>20, <1>23
    <3>4. DataOutInv'
      BY <1>2, <1>3, <1>13, <1>16, <1>23, <2>1, <3>2, <3>3 DEF DataOutInv
    <3> QED
      BY <3>1, <3>4
  <2>6. StatusInv'
    <3>1. h.csw.status \notin {"PASSED", "FAILED"}
      BY <1>3 DEF MInv, StatusInv
    <3> QED
      BY <1>2, <1>16, <2>1, <3>1 DEF MInv, StatusInv
  <2> QED
    BY <1>21, <1>22, <2>2, <2>3, <2>4, <2>5, <2>6 DEF MInv
<1> QED
  BY <1>24, <1>25

-----------------------------------------------------------------------------
(* The theorems.                                                           *)

LEMMA StutterInv == MInv /\ UNCHANGED vars => MInv'
<1> SUFFICES ASSUME MInv, UNCHANGED vars PROVE MInv'
  OBVIOUS
<1> USE DEF vars, botVars, scsiVars, cardVars, outVars, inVars
<1>1. TypeInv' /\ LinkInv'
  BY DEF MInv, TypeInv, LinkInv
<1>2. /\ HostInv' /\ PendInv' /\ OutDataInv' /\ DataInInv' /\ DataOutInv' /\ StatusInv'
      /\ ReadInv'
  BY EventKeeps
<1> QED
  BY <1>1, <1>2 DEF MInv

LEMMA NextInv == MInv /\ [Next]_vars => MInv'
<1> SUFFICES ASSUME MInv, [Next]_vars PROVE MInv'
  OBVIOUS
<1>1. CASE HostMoves
  BY <1>1, HostDataOutInv, HostDataInInv, HostCswInv, EventInv, HostClearInInv, HostClearOutInv,
     HostResetInv DEF HostMoves
<1>2. CASE BulkOut
  BY <1>2, CbwBadInv, RefusedInv, CbwDataInInv, CbwDataOutInv, DataOutStep DEF BulkOut
<1>3. CASE BulkIn
  BY <1>3, MoreDataInInv, WriteCSWInv, EventInv DEF BulkIn
<1>4. CASE IsrEnter \/ IsrOut \/ IsrIn \/ Unexpected
  BY <1>4, EventInv, UnexpectedInv
<1>5. CASE HostCommand \/ HostRefused \/ HostGivesUp
  BY <1>5, HostCommandInv, StopInv
<1>6. CASE UNCHANGED vars
  BY <1>6, StutterInv
<1> QED
  BY <1>1, <1>2, <1>3, <1>4, <1>5, <1>6 DEF Next, Isr

\* The invariant of which the properties are parts, for every size of block and card.
THEOREM Invariant == Spec => []MInv
BY InitInv, NextInv, PTL DEF Spec

LEMMA Promises ==
    MInv => /\ TypeOK /\ NoPhaseError /\ ReadsTheCard /\ StatusTellsTruth /\ StatusMatches
            /\ FailureLeavesSense
<1> SUFFICES ASSUME MInv
             PROVE  /\ TypeOK /\ NoPhaseError /\ ReadsTheCard /\ StatusTellsTruth /\ StatusMatches
                    /\ FailureLeavesSense
  OBVIOUS
<1>1. TypeInv /\ LinkInv /\ HostInv
  BY DEF MInv
<1>2. /\ Len(epIn) \in Nat /\ (epIn = <<>> <=> Len(epIn) = 0) /\ Got \in Nat /\ NData \in Nat
      /\ h.cbw.len \in Nat /\ h.sent \in Nat /\ RspLen(Cmd) \in Nat
  BY <1>1, TypedLengths
<1>3. TypeOK
  <2>1. /\ h.stage \in Stages /\ h.tries \in 0 .. 1
    BY <1>1 DEF TypeInv, HostType
  <2>2. h.sent \in 0 .. h.cbw.len /\ Len(h.got) <= h.cbw.len
    <3>1. h.sent <= h.cbw.len /\ Got + NData <= h.cbw.len
      BY <1>1 DEF HostInv
    <3>2. Got <= h.cbw.len
      BY <1>2, <3>1
    <3> QED
      BY <1>2, <3>1, <3>2 DEF Got
  <2>3. DOMAIN disk = 0 .. (Blocks - 1) /\ DOMAIN abBlockBuf = Pos
    BY <1>1 DEF TypeInv, Cards, Block
  <2>4. dwOffset \in 0 .. dwTransferSize
    BY <1>1 DEF TypeInv
  <2> QED
    BY <1>1, <2>1, <2>2, <2>3, <2>4 DEF TypeOK, TypeInv, LinkInv, Stages, States, Senses
<1>4. NoPhaseError
  BY DEF MInv, LinkInv, DataInInv, StatusInv, NoPhaseError
<1>5. ReadsTheCard
  BY DEF MInv, ReadInv, ReadsTheCard, Cmd, Got
<1>6. StatusTellsTruth
  <2>1. SUFFICES ASSUME h.csw.status = "PASSED", h.csw.residue = 0
                 PROVE  /\ Len(h.got) = IF h.cbw.hostIn THEN h.cbw.len ELSE 0
                        /\ h.cbw.c.cmd = "WRITE" => \A k \in 0 .. (RspLen(h.cbw.c) - 1) : OnDisk(k)
    BY DEF StatusTellsTruth, OnDisk, Cmd
  <2>2. h.stage = "idle" /\ CswTrue(h.csw)
    BY <2>1 DEF MInv, StatusInv
  <2>3. NData = 0
    <3>1. epIn = <<>>
      BY <1>1, <2>2 DEF HostInv
    <3> QED
      BY <1>2, <3>1 DEF NData, Status
  <2>4. /\ h.cbw.hostIn => Got + NData = h.cbw.len
        /\ Cmd.cmd = "WRITE" => \A k \in Nat : k < RspLen(Cmd) => OnDisk(k)
    BY <2>1, <2>2 DEF CswTrue
  <2>5. ~h.cbw.hostIn => Got = 0
    BY <1>1 DEF HostInv
  <2>6. ASSUME NEW k \in 0 .. (RspLen(Cmd) - 1) PROVE k \in Nat /\ k < RspLen(Cmd)
    BY <1>2, <2>6
  <2>7. Len(h.got) = IF h.cbw.hostIn THEN h.cbw.len ELSE 0
    BY <1>2, <2>3, <2>4, <2>5 DEF Got
  <2> QED
    BY <2>4, <2>6, <2>7 DEF Cmd
<1>7. StatusMatches
  BY DEF MInv, StatusInv, StatusMatches
<1>8. FailureLeavesSense
  BY DEF MInv, StatusInv, CswTrue, FailureLeavesSense, Cmd
<1> QED
  BY <1>3, <1>4, <1>5, <1>6, <1>7, <1>8

\* The variables keep their types, no transfer runs past its end and the bulk
\* IN endpoint is never written with both its buffers full.
THEOREM TypeCorrect == Spec => []TypeOK
BY Invariant, Promises, PTL

\* No packet meets the transport where it would take it for a phase error and
\* throw the status away (MSCBotBulkOut): a stall stops the host first.
THEOREM NothingThrownAway == Spec => []NoPhaseError
BY Invariant, Promises, PTL

\* What the host has of a READ is the card's blocks, in order (SCSIHandleData).
THEOREM DataIsTheCards == Spec => []ReadsTheCard
BY Invariant, Promises, PTL

\* PASSED without residue: all of the data was moved (HandleDataIn, HandleDataOut).
THEOREM StatusIsTrue == Spec => []StatusTellsTruth
BY Invariant, Promises, PTL

\* The status belongs to the last command (SendCSW).
THEOREM StatusIsTheCommands == Spec => []StatusMatches
BY Invariant, Promises, PTL

\* A command that fails leaves a sense code (SCSIHandleData, SCSIHandleCmd).
THEOREM FailuresLeaveSense == Spec => []FailureLeavesSense
BY Invariant, Promises, PTL
=============================================================================
