---------------------------- MODULE MassStorage ----------------------------
(***************************************************************************)
(* The USB card reader (src/examples/C/microSD_USB_reader): the bulk-only  *)
(* transport of msc_bot.c over the SCSI layer of msc_scsi.c and the card   *)
(* of blockdev_sd.c, driven by the USB interrupt handler that main polls.  *)
(* A host sends commands that agree or disagree with the device on length  *)
(* and direction, or that it does not know; the card may fail a read and   *)
(* refuse a write.                                                         *)
(*                                                                         *)
(* Lengths are in packets; a block is BlockPackets of them (8 in the       *)
(* code).  Both bulk endpoints have two packet buffers and one interrupt   *)
(* bit; the IN bit is set by a packet taken and by a poll that found none, *)
(* the OUT bit by a packet and again when a buffer is cleared while the    *)
(* other is full.  A stall takes effect at once and lifting it empties the *)
(* endpoint's buffers.                                                     *)
(***************************************************************************)
EXTENDS Naturals, Sequences, FiniteSets

CONSTANTS BlockPackets,   \* packets in a block
          Blocks,         \* blocks of the card
          Commands        \* bound: how many commands the host sends

ASSUME SizesAssumption == BlockPackets \in Nat \ {0} /\ Blocks \in Nat \ {0}
ASSUME BoundAssumption == Commands \in Nat

VARIABLES
    h,          \* the host: its stage, command, data, retries and last CSW
    disk,       \* the card
    refused,    \* history: blocks it refused to write for the running command
    eState, CBW, CSW, dwOffset, dwTransferSize,   \* msc_bot.c
    dwSense, abBlockBuf,                          \* msc_scsi.c
    epOut, epIn,       \* packets in the bulk endpoints, oldest first
    outInt, inInt,     \* their bits in USBEpIntSt
    outStall, inStall, \* their stall bits
    isr                \* where USBHwISR is

botVars  == <<eState, CBW, CSW, dwOffset, dwTransferSize>>
cardVars == <<disk, refused>>
scsiVars == <<dwSense, abBlockBuf, cardVars>>
outVars  == <<epOut, outInt, outStall>>
inVars   == <<epIn, inInt, inStall>>
vars     == <<h, botVars, scsiVars, outVars, inVars, isr>>

Pos      == 0 .. (BlockPackets - 1)
Short    == {"INQUIRY", "REQUEST_SENSE"}   \* answered by one short packet
NoData   == {"TEST_UNIT_READY"}
Unknown  == {"UNKNOWN", "VERIFY_BYTCHK"}

-----------------------------------------------------------------------------
(* Commands.                                                               *)

Command(cmd, lba, n) == [cmd |-> cmd, lba |-> lba, n |-> n]

AllCommands ==
    {Command(c, 0, 0) : c \in Short \cup NoData \cup Unknown}
    \cup {c \in [cmd : {"READ", "WRITE"}, lba : 0 .. (Blocks - 1), n : 1 .. Blocks] :
            c.lba + c.n <= Blocks}

\* SCSIHandleCmd: the length of the data and whether the device sends it.
RspLen(c) ==
    CASE c.cmd \in {"READ", "WRITE"} -> c.n * BlockPackets
      [] c.cmd \in Short             -> 1
      [] OTHER                       -> 0

DevIn(c) == c.cmd # "WRITE"

\* The command blocks a host sends: any length up to one packet too many,
\* either direction, intact or damaged.
AllCbws(tag) ==
    {[tag |-> tag, good |-> g, c |-> c, len |-> n, hostIn |-> d] :
        g \in BOOLEAN, c \in AllCommands, d \in BOOLEAN,
        n \in 0 .. (Blocks * BlockPackets + 1)}

Sensible(cbw) ==
    /\ cbw.len <= RspLen(cbw.c) + 1
    /\ cbw.len = 0 => cbw.hostIn
    /\ cbw.good \/ (cbw.c.cmd = "INQUIRY" /\ cbw.len > 0)

NoCbw == [tag |-> 0, good |-> TRUE, c |-> Command("TEST_UNIT_READY", 0, 0),
          len |-> 0, hostIn |-> TRUE]
NoCsw == [tag |-> 0, residue |-> 0, status |-> "none"]

Init ==
    /\ h = [stage |-> "idle", cbw |-> NoCbw, got |-> <<>>, sent |-> 0,
            tries |-> 0, csw |-> NoCsw]
    /\ disk = [b \in 0 .. (Blocks - 1) |-> [p \in Pos |-> <<0, b * BlockPackets + p>>]]
    /\ refused = {}
    /\ eState = "eCBW" /\ CBW = NoCbw /\ CSW = NoCsw
    /\ dwOffset = 0 /\ dwTransferSize = 0
    /\ dwSense = "none" /\ abBlockBuf = [p \in Pos |-> <<0, 0>>]
    /\ epOut = <<>> /\ epIn = <<>> /\ outInt = FALSE /\ inInt = FALSE
    /\ outStall = FALSE /\ inStall = FALSE
    /\ isr = "off"

-----------------------------------------------------------------------------
(* The host and the endpoints.                                             *)

HostSends(p) ==
    /\ Len(epOut) < 2 /\ ~outStall
    /\ epOut' = Append(epOut, p) /\ outInt' = TRUE
    /\ UNCHANGED <<outStall, inVars, botVars, scsiVars, isr>>

HostCommand ==
    /\ h.stage = "idle" /\ h.cbw.tag < Commands
    /\ \E cbw \in {x \in AllCbws(h.cbw.tag + 1) : Sensible(x)} :
         /\ HostSends([kind |-> "cbw", val |-> cbw])
         /\ h' = [stage |-> IF cbw.len = 0 THEN "csw"
                           ELSE IF cbw.hostIn THEN "dataIn" ELSE "dataOut",
                  cbw |-> cbw, got |-> <<>>, sent |-> 0, tries |-> 0, csw |-> NoCsw]

\* Its next command meets the stall that ended the data of the last one.
HostRefused ==
    /\ h.stage = "idle" /\ h.cbw.tag < Commands /\ outStall
    /\ h' = [h EXCEPT !.stage = "reset", !.csw = NoCsw]
    /\ UNCHANGED <<botVars, scsiVars, outVars, inVars, isr>>

HostDataOut ==
    /\ h.stage = "dataOut"
    /\ HostSends([kind |-> "full", val |-> <<h.cbw.tag, h.sent>>])
    /\ h' = [h EXCEPT !.sent = @ + 1,
                      !.stage = IF h.sent + 1 = h.cbw.len THEN "csw" ELSE @]

TakeIn ==
    /\ epIn # <<>> /\ ~inStall
    /\ epIn' = Tail(epIn) /\ inInt' = TRUE
    /\ UNCHANGED <<inStall, outVars, botVars, scsiVars, isr>>

\* A short packet, or the last one asked for, ends the data.
HostDataIn ==
    /\ h.stage = "dataIn" /\ TakeIn
    /\ LET p    == Head(epIn)
           last == p.kind # "full" \/ Len(h.got) + 1 = h.cbw.len
       IN h' = [h EXCEPT !.got = Append(@, p.val),
                         !.stage = IF last THEN "csw" ELSE @]

\* A status that is not a valid one for the command calls for a reset.
HostCsw ==
    /\ h.stage = "csw" /\ TakeIn
    /\ LET p == Head(epIn)
       IN h' = [h EXCEPT !.csw = p.val,
                  !.stage = IF p.kind = "csw" /\ p.val.status # "PHASE_ERR"
                              THEN "idle" ELSE "reset"]

\* The host polls and finds nothing: a NAK interrupt.
HostNak ==
    /\ h.stage \in {"dataIn", "csw"} /\ epIn = <<>> /\ ~inStall
    /\ inInt' = TRUE
    /\ UNCHANGED <<h, epIn, inStall, outVars, botVars, scsiVars, isr>>

\* Control transfers come through the same handler, which has served the
\* bulk endpoints many times by then.
Quiet == isr = "off" /\ ~outInt /\ ~inInt

\* A stalled IN endpoint ends the data; for the status it is retried once.
HostClearIn ==
    /\ h.stage \in {"dataIn", "csw"} /\ inStall /\ Quiet
    /\ IF h.stage = "csw" /\ h.tries > 0
         THEN /\ h' = [h EXCEPT !.stage = "reset"]
              /\ UNCHANGED <<epIn, inStall>>
         ELSE /\ h' = [h EXCEPT !.stage = "csw", !.tries = @ + (IF h.stage = "csw" THEN 1 ELSE 0)]
              /\ epIn' = <<>> /\ inStall' = FALSE
    /\ UNCHANGED <<inInt, outVars, botVars, scsiVars, isr>>

HostClearOut ==
    /\ h.stage = "dataOut" /\ outStall /\ Quiet
    /\ h' = [h EXCEPT !.stage = "csw"]
    /\ epOut' = <<>> /\ outStall' = FALSE
    /\ UNCHANGED <<outInt, inVars, botVars, scsiVars, isr>>

\* The host loses patience.
HostGivesUp ==
    /\ h.stage \in {"dataIn", "dataOut", "csw"}
    /\ h' = [h EXCEPT !.stage = "reset"]
    /\ UNCHANGED <<botVars, scsiVars, outVars, inVars, isr>>

\* Mutant: only the SCSI layer is reset.
MSCBotResetScsiOnly == UNCHANGED eState /\ dwSense' = "none"

MSCBotReset == eState' = "eCBW" /\ dwSense' = "none"

\* Reset recovery: MSCBotReset and both stalls lifted.
HostReset ==
    /\ h.stage = "reset" /\ Quiet
    /\ h' = [h EXCEPT !.stage = "idle"]
    /\ MSCBotReset
    /\ epIn' = <<>> /\ epOut' = <<>> /\ inStall' = FALSE /\ outStall' = FALSE
    /\ UNCHANGED <<CBW, CSW, dwOffset, dwTransferSize, abBlockBuf, cardVars,
                   outInt, inInt, isr>>

-----------------------------------------------------------------------------
(* The interrupt handler: bulk OUT, then bulk IN.  It fetches an endpoint's *)
(* status and calls its handler, which ignores events of a stalled one.    *)

IsrEnter ==
    /\ isr = "off" /\ (outInt \/ inInt)
    /\ isr' = "checkOut"
    /\ UNCHANGED <<h, botVars, scsiVars, outVars, inVars>>

IsrOut ==
    /\ isr = "checkOut"
    /\ outInt' = FALSE
    /\ isr' = IF outInt /\ ~outStall THEN "out" ELSE "checkIn"
    /\ UNCHANGED <<h, botVars, scsiVars, epOut, outStall, inVars>>

IsrIn ==
    /\ isr = "checkIn"
    /\ inInt' = FALSE
    /\ isr' = IF inInt /\ ~inStall THEN "in" ELSE "off"
    /\ UNCHANGED <<h, botVars, scsiVars, epIn, inStall, outVars>>

-----------------------------------------------------------------------------
(* The SCSI layer: SCSIHandleData.                                         *)

\* Where in its block the data at offset off is.
BufPos(off) == off % BlockPackets

BlockNr(c, off) == c.lba + (off \div BlockPackets)

\* Mutant: a read error leaves no sense code.
SenseAfterReadSilent(c, off, cardOk) ==
    IF c.cmd = "REQUEST_SENSE" THEN "none" ELSE dwSense

\* REQUEST SENSE forgets the code, a read the card fails leaves one.
SenseAfterRead(c, off, cardOk) ==
    CASE c.cmd = "REQUEST_SENSE" -> "none"
      [] c.cmd = "READ" /\ BufPos(off) = 0 /\ ~cardOk -> "READ_ERROR"
      [] OTHER -> dwSense

\* The data cannot be had.
ReadFails(c, off, cardOk) ==
    \/ c.cmd = "TEST_UNIT_READY" /\ dwSense # "none"
    \/ c.cmd = "READ" /\ BufPos(off) = 0 /\ ~cardOk

\* Mutant: every block of a read is the first one.
BufferToSendFirst(c, off) ==
    CASE c.cmd \in Short -> [abBlockBuf EXCEPT ![0] = <<c.cmd, dwSense>>]
      [] c.cmd = "READ" /\ BufPos(off) = 0 -> disk[c.lba]
      [] OTHER -> abBlockBuf

\* The block buffer when the packet at off is to be sent: a new block is
\* read at the start of each block.
BufferToSend(c, off) ==
    CASE c.cmd \in Short -> [abBlockBuf EXCEPT ![0] = <<c.cmd, dwSense>>]
      [] c.cmd = "READ" /\ BufPos(off) = 0 -> disk[BlockNr(c, off)]
      [] OTHER -> abBlockBuf

\* Mutant: a block is written when its first packet is there.
WritesBlockEarly(off) == BufPos(off) = 0

\* A block is written when its last packet is there.
WritesBlock(off) == BufPos(off + 1) = 0

\* The card's response to a write is read and not looked at.
BlockDevWrite(b, block) ==
    \/ disk' = [disk EXCEPT ![b] = block] /\ UNCHANGED refused
    \/ refused' = refused \cup {b} /\ UNCHANGED disk

-----------------------------------------------------------------------------
(* The transport.                                                          *)

\* Mutant: the IN endpoint is stalled whatever the direction.
BOTStallIn(cbw) == inStall' = TRUE /\ UNCHANGED outStall

\* BOTStall: the endpoint to stall follows the direction the host meant.
BOTStall(cbw) ==
    IF cbw.hostIn \/ cbw.len = 0
      THEN inStall' = TRUE /\ UNCHANGED outStall
      ELSE outStall' = TRUE /\ UNCHANGED inStall

NoStall == UNCHANGED <<inStall, outStall>>

\* SendCSW: the status waits for the next bulk IN interrupt.
SendCSW(cbw, size, status) ==
    /\ CSW' = [tag |-> cbw.tag, status |-> status,
               residue |-> IF cbw.len > size THEN cbw.len - size ELSE 0]
    /\ eState' = "eCSW"

\* Mutant: both packet buffers are filled.
WriteInTwice(kind, val) == epIn' = Append(Append(epIn, [kind |-> kind, val |-> val]),
                                          [kind |-> kind, val |-> val])

\* USBHwEPWrite to the bulk IN endpoint.
WriteIn(kind, val) == epIn' = Append(epIn, [kind |-> kind, val |-> val])

\* HandleDataIn at offset off of size: one packet, or none when there is
\* nothing to send, or a stall; then the status if that was the last.
HandleDataIn(cbw, off, size, cardOk) ==
    LET sends == off < size
        next  == IF sends THEN off + 1 ELSE off
        fails == ReadFails(cbw.c, off, cardOk)
    IN /\ dwTransferSize' = size
       /\ dwSense' = SenseAfterRead(cbw.c, off, cardOk)
       /\ IF fails
            THEN /\ BOTStall(cbw) /\ SendCSW(cbw, size, "FAILED")
                 /\ dwOffset' = off /\ UNCHANGED <<epIn, abBlockBuf>>
            ELSE /\ abBlockBuf' = BufferToSend(cbw.c, off)
                 /\ dwOffset' = next
                 /\ IF sends
                      THEN WriteIn(IF cbw.c.cmd \in Short THEN "short" ELSE "full",
                                   abBlockBuf'[BufPos(off)])
                      ELSE UNCHANGED epIn
                 /\ IF next = size /\ size # cbw.len THEN BOTStall(cbw) ELSE NoStall
                 /\ IF next = size THEN SendCSW(cbw, size, "PASSED")
                                   ELSE eState' = "eDataIn" /\ UNCHANGED CSW

\* Clearing a buffer raises the interrupt for a packet in the other one.
ReadOut ==
    /\ epOut' = Tail(epOut)
    /\ outInt' = (outInt \/ Len(epOut) > 1)

\* CheckCBW: its length, signature and fields.
CheckCBW(p) == p.kind = "cbw" /\ p.val.good

\* MSCBotBulkOut in state eCBW: the command block is not valid.
CbwBad ==
    /\ isr = "out" /\ isr' = "checkIn" /\ eState = "eCBW" /\ ReadOut
    /\ ~CheckCBW(Head(epOut))
    /\ CBW' = IF Head(epOut).kind = "cbw" THEN Head(epOut).val ELSE CBW
    /\ inStall' = TRUE /\ outStall' = TRUE /\ eState' = "eStalled"
    /\ UNCHANGED <<h, CSW, dwOffset, dwTransferSize, scsiVars, epIn, inInt>>

\* It is valid: the offsets start from zero.
CbwGood ==
    /\ isr = "out" /\ isr' = "checkIn" /\ eState = "eCBW" /\ ReadOut
    /\ CheckCBW(Head(epOut))
    /\ CBW' = Head(epOut).val
    /\ refused' = {}
    /\ UNCHANGED <<h, disk, inInt>>

\* The SCSI layer does not know the command.
CbwUnknown ==
    /\ CbwGood
    /\ CBW'.c.cmd \in Unknown
    /\ dwSense' = IF CBW'.c.cmd = "UNKNOWN" THEN "INVALID_CMD_OPCODE" ELSE dwSense
    /\ BOTStall(CBW') /\ SendCSW(CBW', 0, "FAILED")
    /\ dwOffset' = 0 /\ dwTransferSize' = 0
    /\ UNCHANGED <<abBlockBuf, epIn>>

\* Host and device disagree on the direction, or the host expects less.
Disagree(cbw) ==
    \/ RspLen(cbw.c) > 0 /\ cbw.hostIn # DevIn(cbw.c)
    \/ RspLen(cbw.c) > cbw.len

CbwDisagrees ==
    /\ CbwGood
    /\ CBW'.c.cmd \notin Unknown /\ Disagree(CBW')
    /\ BOTStall(CBW') /\ SendCSW(CBW', 0, "PHASE_ERR")
    /\ dwOffset' = 0 /\ dwTransferSize' = 0
    /\ UNCHANGED <<dwSense, abBlockBuf, epIn>>

CbwDataIn ==
    /\ CbwGood
    /\ CBW'.c.cmd \notin Unknown /\ ~Disagree(CBW')
    /\ RspLen(CBW'.c) = 0 \/ DevIn(CBW'.c)
    /\ \E cardOk \in BOOLEAN : HandleDataIn(CBW', 0, RspLen(CBW'.c), cardOk)

CbwDataOut ==
    /\ CbwGood
    /\ CBW'.c.cmd \notin Unknown /\ ~Disagree(CBW')
    /\ RspLen(CBW'.c) > 0 /\ ~DevIn(CBW'.c)
    /\ eState' = "eDataOut"
    /\ dwOffset' = 0 /\ dwTransferSize' = RspLen(CBW'.c)
    /\ UNCHANGED <<CSW, dwSense, abBlockBuf, epIn, inStall, outStall>>

\* HandleDataOut: a packet into the block buffer, a full buffer to the card,
\* and the status after the last.
DataOut ==
    /\ isr = "out" /\ isr' = "checkIn" /\ eState = "eDataOut" /\ ReadOut
    /\ abBlockBuf' = [abBlockBuf EXCEPT ![BufPos(dwOffset)] = Head(epOut).val]
    /\ IF WritesBlock(dwOffset)
         THEN BlockDevWrite(BlockNr(CBW.c, dwOffset), abBlockBuf')
         ELSE UNCHANGED cardVars
    /\ dwOffset' = dwOffset + 1
    /\ IF dwOffset' = dwTransferSize
         THEN /\ IF dwTransferSize # CBW.len THEN BOTStall(CBW) ELSE NoStall
              /\ SendCSW(CBW, dwTransferSize, "PASSED")
         ELSE NoStall /\ UNCHANGED <<eState, CSW>>
    /\ UNCHANGED <<h, CBW, dwTransferSize, dwSense, epIn, inInt>>

\* MSCBotBulkIn.
MoreDataIn ==
    /\ isr = "in" /\ isr' = "off" /\ eState = "eDataIn"
    /\ \E cardOk \in BOOLEAN : HandleDataIn(CBW, dwOffset, dwTransferSize, cardOk)
    /\ UNCHANGED <<h, CBW, cardVars, epOut, outInt, inInt>>

\* Mutant: the state machine waits for the status to be acknowledged.
AfterCSWStays == "eCSW"

AfterCSW == "eCBW"

WriteCSW ==
    /\ isr = "in" /\ isr' = "off" /\ eState = "eCSW"
    /\ WriteIn("csw", CSW)
    /\ eState' = AfterCSW
    /\ UNCHANGED <<h, CBW, CSW, dwOffset, dwTransferSize, scsiVars, outVars,
                   inInt, inStall>>

OldAck ==
    /\ isr = "in" /\ isr' = "off" /\ eState \in {"eCBW", "eDataOut"}
    /\ UNCHANGED <<h, botVars, scsiVars, outVars, inVars>>

\* An event nobody waits for: a stalled transport stalls the endpoint again,
\* any other takes a packet for a phase error, throws it away and waits for
\* a command.
Unexpected ==
    /\ eState \in IF isr = "out" THEN {"eDataIn", "eCSW", "eStalled"} ELSE {"eStalled"}
    /\ isr \in {"out", "in"}
    /\ isr' = IF isr = "out" THEN "checkIn" ELSE "off"
    /\ IF eState = "eStalled"
         THEN /\ outStall' = (outStall \/ isr = "out")
              /\ inStall' = (inStall \/ isr = "in")
              /\ UNCHANGED <<eState, epOut, outInt>>
         ELSE eState' = "eCBW" /\ ReadOut /\ UNCHANGED <<outStall, inStall>>
    /\ UNCHANGED <<h, CBW, CSW, dwOffset, dwTransferSize, scsiVars, epIn, inInt>>

-----------------------------------------------------------------------------
HostMoves == HostDataOut \/ HostDataIn \/ HostCsw \/ HostNak \/ HostClearIn
             \/ HostClearOut \/ HostReset
BulkOut == CbwBad \/ CbwUnknown \/ CbwDisagrees \/ CbwDataIn \/ CbwDataOut
           \/ DataOut
BulkIn  == MoreDataIn \/ WriteCSW \/ OldAck
Isr     == IsrEnter \/ IsrOut \/ IsrIn \/ BulkOut \/ BulkIn \/ Unexpected
Next    == HostCommand \/ HostRefused \/ HostMoves \/ HostGivesUp \/ Isr

\* The main loop polls the handler; a host in the middle of a command goes
\* on with it.
Spec == Init /\ [][Next]_vars /\ WF_vars(Isr) /\ WF_vars(HostMoves)

-----------------------------------------------------------------------------
(* Properties.                                                             *)

\* The variables keep their types, and the transfer never runs past its
\* end.  The bulk IN endpoint is never written with both its buffers full,
\* though the handlers write it on every interrupt without asking.
TypeOK ==
    /\ Len(epIn) <= 2 /\ Len(epOut) <= 2
    /\ h.stage \in {"idle", "dataIn", "dataOut", "csw", "reset"}
    /\ h.tries \in 0 .. 1 /\ h.sent \in 0 .. h.cbw.len
    /\ Len(h.got) <= h.cbw.len
    /\ DOMAIN disk = 0 .. (Blocks - 1) /\ DOMAIN abBlockBuf = Pos
    /\ eState \in {"eCBW", "eDataOut", "eDataIn", "eCSW", "eStalled"}
    /\ dwOffset \in 0 .. dwTransferSize
    /\ dwSense \in {"none", "READ_ERROR", "INVALID_CMD_OPCODE"}
    /\ isr \in {"off", "checkOut", "out", "checkIn", "in"}

\* No packet comes in where the handler would take it for a phase error and
\* throw the status away (msc_bot.c:340): with a host that follows the
\* protocol data the device does not want is stopped by a stall.
NoPhaseError == isr = "out" => eState \notin {"eDataIn", "eCSW"}

\* What the host has read of a READ is the card's blocks from the one it
\* asked for, in order.
ReadsTheCard ==
    h.cbw.c.cmd = "READ" =>
        \A i \in 1 .. Len(h.got) :
            h.got[i] = disk[BlockNr(h.cbw.c, i - 1)][BufPos(i - 1)]

\* A status of PASSED with no residue means that all of the data was moved:
\* the host has every packet of a READ, and the card every one of a WRITE, but
\* for the blocks it refused (BlockDevWrite tells nobody).
StatusTellsTruth ==
    (h.csw.status = "PASSED" /\ h.csw.residue = 0) =>
        /\ Len(h.got) = IF h.cbw.hostIn THEN h.cbw.len ELSE 0
        /\ h.cbw.c.cmd = "WRITE" =>
             \A k \in 0 .. (RspLen(h.cbw.c) - 1) :
                 \/ BlockNr(h.cbw.c, k) \in refused
                 \/ disk[BlockNr(h.cbw.c, k)][BufPos(k)] = <<h.cbw.tag, k>>

\* The status the host gets belongs to the command it sent last.
StatusMatches == h.csw.status # "none" => h.csw.tag = h.cbw.tag

\* A command that fails leaves a sense code (msc_scsi.c:127), unless it was
\* refused for a field of its command block.
FailureLeavesSense ==
    (h.csw.status = "FAILED" /\ h.cbw.c.cmd # "VERIFY_BYTCHK") => dwSense # "none"

\* Every command comes to its end, by a status or by reset recovery.
CommandsEnd == h.stage # "idle" ~> h.stage = "idle"
=============================================================================
