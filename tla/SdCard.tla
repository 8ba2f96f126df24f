------------------------------- MODULE SdCard -------------------------------
(***************************************************************************)
(* The SD/MMC driver under FatFs                                           *)
(* (src/openlibs/chanff/sd_spi_lpc2000.c): disk_initialize finds out what  *)
(* card is in the slot, disk_read and disk_write move blocks, disk_ioctl   *)
(* synchronises, queries and switches power.                               *)
(*                                                                         *)
(* The driver is one thread; the card moves on its own.  It takes its time *)
(* to leave the idle state and to finish a write, refuses commands and     *)
(* blocks, and can be taken out or changed at any time: between two        *)
(* commands, inside a block that is read, while it still writes.  A        *)
(* command, with the wait for the card before it, is one step; so is the   *)
(* token of a block, a block read after it, and a block sent.              *)
(***************************************************************************)
EXTENDS Naturals, Sequences

CONSTANTS LastSector,   \* a card has sectors 0 .. LastSector
          Types,        \* kinds of card that may be in the slot
          Payloads,     \* what disk_write may be given, tuples of blocks
          Blank,        \* content of a new card, and of a spoilt sector
          Unit,         \* bytes in a block (512)
          InitPolls,    \* 1000 * TIMER_EQV / 10, polls of a card that starts
          MaxSwaps,     \* how often a card is taken out
          None          \* stands for "no call"

ASSUME TypesAssumption == Types \subseteq {"MMC", "SD1", "SD2", "SDHC"}
ASSUME SizeAssumption  == LastSector \in Nat /\ Unit \in Nat \ {0, 1}

VARIABLES
    pc,         \* where the driver is
    call,       \* [op, sector, data] of the running call; data of a read only has a length
    left,       \* count
    ty, cmd,    \* disk_initialize: the type found, the command it polls with
    Timer1,
    noInit,     \* STA_NOINIT in Stat
    CardType,
    reply,      \* what the last call returned
    buff,       \* blocks read by the running call
    mode,       \* card: "out", "native", "idle", "ready", or the transfer it is in
    kind, at,   \* card: its type; the next sector of the transfer
    busy,       \* card: it may be writing
    writing,    \* card: sectors it has accepted and perhaps not yet written
    flash,      \* card: content
    swaps,
    moved,      \* history: blocks moved by the running call
    broken,     \* history: the card was taken out during the running call
    torn,       \* history: the running call took a block of a card that was not there
    known,      \* history: it has not been since disk_initialize last succeeded
    late        \* history: it was busy for longer than the wait for the stop token

driverVars  == <<pc, call, left, ty, cmd, Timer1, noInit, CardType, reply, buff>>
cardVars    == <<mode, kind, at, busy, writing, flash, swaps>>
historyVars == <<moved, broken, torn, known, late>>
vars        == <<driverVars, cardVars, historyVars>>

Sectors == 0 .. LastSector
Blocks  == {Blank} \union UNION {{p[i] : i \in DOMAIN p} : p \in Payloads}
Counts  == {Len(p) : p \in Payloads}

ASSUME CallAssumption ==
    /\ Payloads \subseteq Seq(Blocks)
    /\ None \notin [op : {"init", "read", "write", "sync", "query", "off", "on"},
                    sector : Sectors, data : Seq(Blocks)]

Init ==
    /\ pc = "idle" /\ call = None /\ left = 0 /\ ty = "none" /\ cmd = "none"
    /\ Timer1 = 0 /\ noInit = TRUE /\ CardType = "none" /\ reply = "ok" /\ buff = <<>>
    /\ mode = "native" /\ kind \in Types /\ at = 0 /\ busy = FALSE /\ writing = {}
    /\ flash = [s \in Sectors |-> Blank] /\ swaps = 0
    /\ moved = 0 /\ broken = FALSE /\ torn = FALSE /\ known = FALSE /\ late = FALSE

-----------------------------------------------------------------------------
(* The card.                                                               *)

\* The sector an address means: cards of high capacity count blocks, others
\* bytes, and want the beginning of a block.
Meant(arg) ==
    IF kind = "SDHC" THEN {s \in Sectors : s = arg}
                     ELSE {s \in Sectors : s * Unit = arg}

\* What a card that is there may answer, and the mode it then is in: "idle" is
\* the response 1, "ready" the response 0, "refused" one with an error bit,
\* "mismatch" a response to CMD8 whose voltage or pattern is wrong.
Idle(c) ==
    CASE c = "CMD8" /\ kind \in {"SD2", "SDHC"} -> {<<"idle", "idle">>, <<"mismatch", "idle">>}
      [] \/ c = "ACMD41" /\ kind \in {"SD1", "SD2"}
         \/ c = "ACMD41HCS" /\ kind # "MMC"
         \/ c = "CMD1" /\ kind # "SDHC" -> {<<"idle", "idle">>, <<"ready", "ready">>}
      [] kind = "SDHC" /\ c \in {"ACMD41", "CMD1"} -> {<<"idle", "idle">>}
      [] c = "CMD58" -> {<<"idle", "idle">>}
      [] OTHER -> {<<"refused", "idle">>}

Transfers == {"CMD17", "CMD18", "CMD24", "CMD25"}

\* The card's modes in these.
Streams == {"read1", "read", "write1", "write"}

Ready(c, arg) ==
    CASE c \in Transfers /\ Meant(arg) # {} ->
           {<<"refused", "ready">>,
            <<"ready", CASE c = "CMD17" -> "read1" [] c = "CMD18" -> "read"
                         [] c = "CMD24" -> "write1" [] OTHER -> "write">>}
      [] c \in {"CMD9", "ACMD23"} -> {<<"ready", "ready">>, <<"refused", "ready">>}
      [] c \in {"CMD1", "CMD16", "CMD58"} \/ (c \in {"ACMD41", "ACMD41HCS"} /\ kind # "MMC") ->
           {<<"ready", "ready">>}
      [] OTHER -> {<<"refused", "ready">>}

\* A card that waits for a block takes nothing else for a command.
Answers(c, arg) ==
    IF mode \in {"out", "write", "write1"} THEN {<<"silent", mode>>}
    ELSE IF c = "CMD0" THEN {<<"idle", "idle">>}
    ELSE CASE mode = "native" -> {<<"silent", mode>>}
           [] mode = "read" /\ c = "CMD12" -> {<<"ready", "ready">>}
           [] mode = "idle" -> Idle(c)
           [] mode = "ready" -> Ready(c, arg)
           [] OTHER -> {<<"refused", mode>>}

\* send_cmd: wait until the card is ready, send, take the answer.  A card that
\* is busy longer than the wait gets no command; one that is ready has written.
SendCmd(c, arg, res) ==
    \/ busy /\ res = "silent" /\ UNCHANGED cardVars
    \/ \E a \in Answers(c, arg) :
         /\ res = a[1] /\ mode' = a[2]
         /\ at' = IF a[2] \notin Streams THEN 0 ELSE IF a[2] = mode THEN at
                  ELSE CHOOSE s \in Meant(arg) : TRUE
         /\ busy' = FALSE /\ writing' = {}
         /\ UNCHANGED <<kind, flash, swaps>>

\* Without power the sectors it was still writing are left with anything.
Remove ==
    /\ mode # "out" /\ swaps < MaxSwaps
    /\ mode' = "out" /\ at' = 0 /\ busy' = FALSE /\ writing' = {} /\ swaps' = swaps + 1
    /\ \E lost \in [writing -> Blocks] :
         flash' = [s \in Sectors |-> IF s \in writing THEN lost[s] ELSE flash[s]]
    /\ broken' = (call # None) /\ known' = FALSE /\ late' = FALSE
    /\ UNCHANGED <<driverVars, kind, moved, torn>>

\* The same card comes back, or a new one.
Insert ==
    /\ mode = "out"
    /\ mode' = "native"
    /\ \/ UNCHANGED <<kind, flash>>
       \/ kind' \in Types /\ flash' = [s \in Sectors |-> Blank]
    /\ broken' = (call # None)
    /\ UNCHANGED <<driverVars, at, busy, writing, swaps, moved, torn, known, late>>

-----------------------------------------------------------------------------
(* The calls.                                                              *)

Start(op, sector, data, entry) ==
    /\ pc = "idle"
    /\ pc' = entry
    /\ call' = [op |-> op, sector |-> sector, data |-> data]
    /\ left' = Len(data)
    /\ UNCHANGED <<ty, cmd, Timer1, noInit, CardType, reply, buff, cardVars, historyVars>>

\* A call returns, and its locals are gone.  Timer1 is static, but every use
\* sets it first.
Finish(r) ==
    /\ pc' = "idle" /\ call' = None /\ reply' = r
    /\ left' = 0 /\ ty' = "none" /\ cmd' = "none" /\ Timer1' = 0 /\ buff' = <<>>
    /\ moved' = 0 /\ broken' = FALSE /\ torn' = FALSE

\* The driver goes on at p.
Goto(p) == pc' = p /\ UNCHANGED <<call, reply>>

CallInitialize == Start("init", 0, <<>>, "cmd0")
CallRead ==
    \E s \in Sectors, n \in {0} \union Counts :
        Start("read", s, [i \in 1 .. n |-> Blank], "begin")
CallWrite  == \E s \in Sectors, p \in Payloads : Start("write", s, p, "begin")
CallSync   == Start("sync", 0, <<>>, "begin")
CallQuery  == Start("query", 0, <<>>, "begin")
CallPower  == \E op \in {"off", "on"} : Start(op, 0, <<>>, "power")

-----------------------------------------------------------------------------
(* disk_initialize.                                                        *)

\* power_on, then CMD0.
Cmd0 ==
    /\ pc = "cmd0"
    /\ \E res \in {"idle", "silent"} :
         /\ SendCmd("CMD0", 0, res)
         /\ Goto(IF res = "idle" THEN "cmd8" ELSE "identified")
         /\ Timer1' = IF res = "idle" THEN InitPolls ELSE 0
    /\ ty' = "none"
    /\ UNCHANGED <<left, cmd, noInit, CardType, buff, historyVars>>

Responses == {"ready", "idle", "refused", "mismatch", "silent"}

Cmd8 ==
    /\ pc = "cmd8"
    /\ \E res \in Responses :
         /\ SendCmd("CMD8", 0, res)
         /\ cmd' = IF res = "idle" THEN "ACMD41HCS" ELSE cmd
         /\ Goto(CASE res = "idle" -> "poll" [] res = "mismatch" -> "identified"
                   [] OTHER -> "acmd41")
    /\ UNCHANGED <<left, ty, Timer1, noInit, CardType, buff, historyVars>>

\* An old SD card knows ACMD41, an MMC does not.
Acmd41 ==
    /\ pc = "acmd41"
    /\ \E res \in Responses :
         /\ SendCmd("ACMD41", 0, res)
         /\ IF res \in {"ready", "idle"} THEN ty' = "SD1" /\ cmd' = "ACMD41"
                                         ELSE ty' = "MMC" /\ cmd' = "CMD1"
    /\ Goto("poll")
    /\ UNCHANGED <<left, Timer1, noInit, CardType, buff, historyVars>>

\* Mutant: the wait has no end.
PollTicksNot == UNCHANGED Timer1

PollTicks == Timer1' = Timer1 - 1

Poll ==
    /\ pc = "poll" /\ Timer1 > 0
    /\ \E res \in Responses :
         /\ SendCmd(cmd, 0, res)
         /\ IF res = "ready" THEN Goto("started") /\ UNCHANGED Timer1
                             ELSE Goto("poll") /\ PollTicks
    /\ UNCHANGED <<left, ty, cmd, noInit, CardType, buff, historyVars>>

PollTimeout ==
    /\ pc = "poll" /\ Timer1 = 0
    /\ ty' = "none"
    /\ Goto("identified")
    /\ UNCHANGED <<left, cmd, Timer1, noInit, CardType, buff, cardVars, historyVars>>

\* The CCS bit of the OCR.
HighCapacity(k) == IF k = "SDHC" THEN "SD2BLOCK" ELSE "SD2"

\* CMD58 tells a card of version 2 what it counts; CMD16 sets the block length
\* of the others.
Started ==
    /\ pc = "started"
    /\ \E res \in Responses :
         IF cmd = "ACMD41HCS"
           THEN SendCmd("CMD58", 0, res) /\ ty' = IF res = "ready" THEN HighCapacity(kind) ELSE "none"
           ELSE SendCmd("CMD16", 0, res) /\ ty' = IF res = "ready" THEN ty ELSE "none"
    /\ Goto("identified")
    /\ UNCHANGED <<left, cmd, Timer1, noInit, CardType, buff, historyVars>>

\* Mutant: a failed attempt leaves the state of an earlier one.
PowerOffForgets == UNCHANGED noInit

\* power_off, as far as the driver remembers it.
PowerOff == noInit' = TRUE

Identified ==
    /\ pc = "identified"
    /\ CardType' = ty
    /\ IF ty # "none" THEN noInit' = FALSE /\ Finish("ok") ELSE PowerOff /\ Finish("error")
    /\ known' = IF ty # "none" THEN ~broken ELSE known
    /\ UNCHANGED <<cardVars, late>>

-----------------------------------------------------------------------------
(* disk_read.                                                              *)

\* The tests every call begins with: no sectors, no card initialised.
Refused ==
    /\ pc = "begin"
    /\ noInit \/ (call.op \in {"read", "write"} /\ left = 0)
    /\ Finish("error")
    /\ UNCHANGED <<noInit, CardType, cardVars, known, late>>

Begin ==
    /\ pc = "begin"
    /\ ~noInit
    /\ call.op \in {"read", "write"} => left > 0
    /\ Goto(CASE call.op = "write" /\ left > 1 /\ CardType \in {"SD1", "SD2", "SD2BLOCK"} -> "acmd23"
              [] OTHER -> call.op)
    /\ UNCHANGED <<left, ty, cmd, Timer1, noInit, CardType, buff, cardVars, historyVars>>

\* Mutant: the address of every card is in bytes.
AddressInBytes(sector) == sector * Unit

\* "Convert to byte address if needed".
Address(sector) == IF CardType = "SD2BLOCK" THEN sector ELSE sector * Unit

Single == Len(call.data) = 1

ReadCmd ==
    /\ pc = "read"
    /\ \E res \in Responses :
         /\ SendCmd(IF Single THEN "CMD17" ELSE "CMD18", Address(call.sector), res)
         /\ Goto(IF res = "ready" THEN "rcvr" ELSE "release")
    /\ UNCHANGED <<left, ty, cmd, Timer1, noInit, CardType, buff, historyVars>>

\* A single transfer is over after its block, whatever became of it; another
\* is n blocks on.
AfterBlock(n) ==
    IF mode \in {"read1", "write1"} THEN mode' = "ready" /\ at' = 0
                                   ELSE mode' = mode /\ at' = at + n

\* Where the driver goes after a block: single transfers have nothing to stop.
AfterTransfer(more) ==
    IF Single THEN "release" ELSE IF ~more THEN "stop"
    ELSE IF call.op = "read" THEN "rcvr" ELSE "xmit"

\* rcvr_datablock: the token comes in time.
RcvrToken ==
    /\ pc = "rcvr" /\ mode \in {"read1", "read"} /\ at \in Sectors
    /\ Goto("block")
    /\ Timer1' = 0
    /\ UNCHANGED <<left, ty, cmd, noInit, CardType, buff, cardVars, historyVars>>

\* The block after it.  The CRC is thrown away and TRUE returned, whether it was
\* the card that sent the bytes or, when it has gone since, the open line.
RcvrBlock ==
    /\ pc = "block"
    /\ \/ /\ mode \in {"read1", "read"}
          /\ buff' = Append(buff, flash[at])
          /\ AfterBlock(1) /\ UNCHANGED torn
       \/ /\ mode \notin {"read1", "read"}
          /\ \E b \in Blocks : buff' = Append(buff, b)
          /\ AfterBlock(0) /\ torn' = TRUE
    /\ moved' = moved + 1 /\ left' = left - 1
    /\ Goto(AfterTransfer(left' > 0))
    /\ UNCHANGED <<ty, cmd, Timer1, noInit, CardType, kind, busy, writing, flash, swaps,
                   broken, known, late>>

\* It does not: the card has an error, no more sectors, or is gone.
RcvrError ==
    /\ pc = "rcvr"
    /\ AfterBlock(0)
    /\ Goto(AfterTransfer(FALSE))
    /\ Timer1' = 0
    /\ UNCHANGED <<left, ty, cmd, noInit, CardType, buff, kind, busy, writing, flash, swaps, historyVars>>

\* STOP_TRANSMISSION; its answer is not looked at.
ReadStop ==
    /\ pc = "stop" /\ call.op = "read"
    /\ \E res \in Responses : SendCmd("CMD12", 0, res)
    /\ Goto("release")
    /\ UNCHANGED <<left, ty, cmd, Timer1, noInit, CardType, buff, historyVars>>

Release ==
    /\ pc = "release"
    /\ Finish(IF left = 0 THEN "ok" ELSE "error")
    /\ UNCHANGED <<noInit, CardType, cardVars, known, late>>

-----------------------------------------------------------------------------
(* disk_write.                                                             *)

\* The number of blocks to come, for the card to erase ahead; a hint.
PreErase ==
    /\ pc = "acmd23"
    /\ \E res \in Responses : SendCmd("ACMD23", 0, res)
    /\ Goto("write")
    /\ UNCHANGED <<left, ty, cmd, Timer1, noInit, CardType, buff, historyVars>>

WriteCmd ==
    /\ pc = "write"
    /\ \E res \in Responses :
         /\ SendCmd(IF Single THEN "CMD24" ELSE "CMD25", Address(call.sector), res)
         /\ Goto(IF res = "ready" THEN "xmit" ELSE "release")
    /\ UNCHANGED <<left, ty, cmd, Timer1, noInit, CardType, buff, historyVars>>

NextBlock == call.data[Len(call.data) - left + 1]

\* xmit_datablock: the card is ready, and accepts the block.  It reads back as
\* written from here on, but is not safe until the card is ready again.
XmitBlock ==
    /\ pc = "xmit" /\ mode \in {"write1", "write"} /\ at \in Sectors
    /\ flash' = [flash EXCEPT ![at] = NextBlock]
    /\ AfterBlock(1) /\ busy' = TRUE /\ writing' = writing \union {at}
    /\ moved' = moved + 1 /\ left' = left - 1
    /\ Goto(AfterTransfer(left' > 0))
    /\ UNCHANGED <<ty, cmd, Timer1, noInit, CardType, buff, kind, swaps, broken, torn, known, late>>

\* The card rejects it; a sector it could not write may be spoilt.
XmitRejected ==
    /\ pc = "xmit" /\ mode \in {"write1", "write"}
    /\ at \in Sectors => flash' \in {flash, [flash EXCEPT ![at] = Blank]}
    /\ at \notin Sectors => UNCHANGED flash
    /\ AfterBlock(0) /\ busy' = TRUE /\ writing' = writing \union ({at} \intersect Sectors)
    /\ Goto(AfterTransfer(FALSE))
    /\ UNCHANGED <<left, ty, cmd, Timer1, noInit, CardType, buff, kind, swaps, historyVars>>

\* It is not ready in time, or it is gone and answers nothing.
XmitFails ==
    /\ pc = "xmit"
    /\ busy \/ mode \notin {"write1", "write"}
    /\ Goto(AfterTransfer(FALSE))
    /\ UNCHANGED <<left, ty, cmd, Timer1, noInit, CardType, buff, cardVars, historyVars>>

\* Mutant: the token goes out only after a complete transfer.
StopTokenIfWhole ==
    IF mode = "write" /\ left = 0 THEN mode' = "ready" /\ at' = 0 ELSE UNCHANGED <<mode, at>>

\* The STOP_TRAN token goes out however the transfer went.
StopToken == IF mode = "write" THEN mode' = "ready" /\ at' = 0 ELSE UNCHANGED <<mode, at>>

\* STOP_TRANSMISSION of a write.  A slot without a card looks ready.
WriteStop ==
    /\ pc = "stop" /\ call.op = "write"
    /\ StopToken
    /\ Goto("release")
    /\ UNCHANGED <<left, ty, cmd, Timer1, noInit, CardType, buff, kind, busy, writing, flash, swaps, historyVars>>

\* The card is busy too long for it and stays in the transfer.
WriteStopFails ==
    /\ pc = "stop" /\ call.op = "write" /\ busy
    /\ left' = 1 /\ late' = TRUE
    /\ Goto("release")
    /\ UNCHANGED <<ty, cmd, Timer1, noInit, CardType, buff, cardVars, moved, broken, torn, known>>

-----------------------------------------------------------------------------
(* disk_ioctl.                                                             *)

\* CTRL_SYNC: wait_ready.
Sync ==
    /\ pc = "sync"
    /\ \/ busy' = FALSE /\ writing' = {} /\ Finish("ok")
       \/ busy /\ UNCHANGED <<busy, writing>> /\ Finish("error")
    /\ UNCHANGED <<noInit, CardType, mode, kind, at, flash, swaps, known, late>>

\* The GET and MMC_GET codes: what the driver knows itself, or a command and
\* for most of them a block of registers.
Query ==
    /\ pc = "query"
    /\ \/ UNCHANGED cardVars /\ Finish("ok")
       \/ \E res \in Responses :
            /\ SendCmd("CMD9", 0, res)
            /\ res = "ready" \/ reply' = "error"
            /\ \E r \in {"ok", "error"} : Finish(r)
    /\ UNCHANGED <<noInit, CardType, known, late>>

\* CTRL_POWER: neither direction tells the card anything.
Power ==
    /\ pc = "power"
    /\ IF call.op = "off" THEN PowerOff ELSE UNCHANGED noInit
    /\ Finish("ok")
    /\ UNCHANGED <<CardType, cardVars, known, late>>

-----------------------------------------------------------------------------
Calls  == CallInitialize \/ CallRead \/ CallWrite \/ CallSync \/ CallQuery \/ CallPower
Driver ==
    \/ Cmd0 \/ Cmd8 \/ Acmd41 \/ Poll \/ PollTimeout \/ Started \/ Identified
    \/ Refused \/ Begin \/ ReadCmd \/ RcvrToken \/ RcvrBlock \/ RcvrError \/ ReadStop \/ Release
    \/ PreErase \/ WriteCmd \/ XmitBlock \/ XmitRejected \/ XmitFails
    \/ WriteStop \/ WriteStopFails \/ Sync \/ Query \/ Power
Next == Calls \/ Driver \/ Remove \/ Insert

\* The processor runs; nothing is asked of the card.
Spec == Init /\ [][Next]_vars /\ WF_vars(Driver)

-----------------------------------------------------------------------------
(* Properties.                                                             *)

\* A read or write that reports success moved the blocks it names between the
\* buffer and those sectors of the card, but for the last one when the card is
\* taken out inside it; a call that fails touches no other sector; and what a
\* synchronisation has acknowledged survives taking the card out at any moment.
\* disk_read, disk_write and CTRL_SYNC keep the promise of BlockDevice, whatever
\* kind the card is and whenever it is changed.
Device == INSTANCE BlockDevice WITH
    Sectors <- Sectors, Block <- Blocks, medium <- flash, unsafe <- writing, present <- mode # "out"

IsBlockDevice == Device!Spec

\* Between calls, Stat and CardType tell the truth while the card stays in: a
\* card they call initialised, by the last attempt or an earlier one, has left
\* the idle state and is addressed in its own unit.
InitialisedIsTrue ==
    (pc = "idle" /\ known /\ ~noInit) => /\ mode \notin {"native", "idle", "out"}
                         /\ (CardType = "SD2BLOCK") <=> (kind = "SDHC")

\* Between calls no card is in the middle of a transfer, where it would take
\* the next command for data or not answer it, whichever step of the last
\* transfer failed; but for one that was busy for longer than the driver waits
\* before the stop token.
TransfersStopped == (pc = "idle" /\ ~late) => mode \notin Streams

\* Every call returns, with a card that does not answer, goes on being busy,
\* never starts, or is taken out: all loops count.
CallsReturn == (pc # "idle") ~> (pc = "idle")
=============================================================================
