----------------------------- MODULE UsbControl -----------------------------
(***************************************************************************)
(* Control transfers of the USB device stack (src/openlibs/vcom:           *)
(* usbcontrol.c, usbstdreq.c, usbinit.c, the endpoint part of usbhw_lpc.c  *)
(* and the class requests of main_serial.c).  The host sends a SETUP       *)
(* packet, moves data in the direction it announced and closes the         *)
(* transfer with an empty packet the other way; it may give a transfer up  *)
(* at any time with a new SETUP, and may reset the bus.                    *)
(*                                                                         *)
(* Endpoint 0 has one packet buffer in each direction and one interrupt    *)
(* bit for each.  The interrupt handler serves OUT before IN; the host may *)
(* act between any two of its steps.  A SETUP is always accepted: it       *)
(* replaces what the OUT buffer holds, empties the IN buffer and ends a    *)
(* stall, and while it is unread the IN buffer cannot be filled.           *)
(*                                                                         *)
(* A byte is <<what it describes, which one, its position>>.               *)
(***************************************************************************)
EXTENDS Naturals, Integers, Sequences

CONSTANTS MaxPacket,   \* MAX_PACKET_SIZE0
          LineLen,     \* bytes of a line coding (7 in the code)
          DescLen,     \* bytes of the descriptor the host asks for
          Asked,       \* the lengths it asks for
          Requests,    \* bound: how many requests the host makes
          Resets,      \* bound: how many times it resets the bus
          EarlySetup   \* a SETUP may come before the handler has served
                       \* the host's last IN transaction

ASSUME MaxPacketAssumption == MaxPacket \in Nat \ {0}
ASSUME LengthAssumption ==
    LineLen \in Nat \ {0} /\ DescLen \in Nat \ {0} /\ Asked \subseteq Nat \ {0}
ASSUME BoundAssumption == Requests \in Nat /\ Resets \in Nat
ASSUME EarlyAssumption == EarlySetup \in BOOLEAN

VARIABLES
    host,         \* the host's transfer: stage, req, id, sent, got
    done,         \* the host's last transfer ended well
    resets,       \* bus resets so far
    epOut, epIn,  \* the packet buffers of endpoint 0
    outInt, inInt,\* their bits in USBEpIntSt
    stalled,      \* endpoint 0 is stalled
    hwConfigured, \* the configured bit of the controller
    isr,          \* where USBHwISR is
    setupStat,    \* EP_STATUS_SETUP in the status byte it read
    Setup,        \* the SETUP packet being served
    pbData,       \* where the next byte is stored or sent from
    iResidue,     \* bytes left
    mem,          \* the data stores, LineCoding and the descriptor; the
                  \* store of vendor requests is the null pointer
    bConfiguration

hostVars == <<host, done, resets>>
epVars   == <<epOut, epIn, outInt, inInt, stalled>>
isrVars  == <<isr, setupStat>>
reqVars  == <<Setup, pbData, iResidue, mem, bConfiguration, hwConfigured>>
vars     == <<hostVars, epVars, isrVars, reqVars>>

\* The OUT buffer: what it has, and the bytes of a data packet.
Empty == [has |-> "none", bytes |-> <<>>]

Least(a, b) == IF a <= b THEN a ELSE b

-----------------------------------------------------------------------------
(* Requests and what their handlers answer.                                *)

Ask(name, type, dir, len, val) ==
    [name |-> name, type |-> type, dir |-> dir, len |-> len, val |-> val]

NoRequest == Ask("none", "std", "out", 0, 0)

\* The requests a host makes of this device; SYNCH_FRAME and SET_DESCRIPTOR
\* are refused by the standard handler, a vendor request has no handler.
AllRequests ==
    {Ask("GET_DESCRIPTOR", "std", "in", n, 0) : n \in Asked}
    \cup {Ask("SET_CONFIGURATION", "std", "out", 0, v) : v \in {0, 1}}
    \cup {Ask("GET_STATUS", "std", "in", 2, 0),
          Ask("GET_CONFIGURATION", "std", "in", 1, 0),
          Ask("SET_DESCRIPTOR", "std", "out", 2, 0),
          Ask("SYNCH_FRAME", "std", "in", 2, 0),
          Ask("SET_LINE_CODING", "class", "out", LineLen, 0),
          Ask("GET_LINE_CODING", "class", "in", LineLen, 0),
          Ask("SET_CONTROL_LINE_STATE", "class", "out", 0, 0),
          Ask("VENDOR", "vendor", "in", 1, 0)}

Desc      == [i \in 1 .. DescLen |-> <<"desc", 0, i>>]
Coding(n) == [i \in 1 .. LineLen |-> <<"line", n, i>>]
Config(v) == <<"config", v, 1>>
Zeros     == [i \in 1 .. 2 |-> <<"zero", 0, i>>]

Refused == {"SET_DESCRIPTOR", "SYNCH_FRAME", "VENDOR"}

\* Where the handler says its answer is, and how long it is.
AnswerAt(r) ==
    CASE r.name = "GET_DESCRIPTOR"  -> "desc"
      [] r.name = "GET_LINE_CODING" -> "line"
      [] OTHER                      -> r.type

Offered(r) ==
    CASE r.name = "GET_DESCRIPTOR"    -> DescLen
      [] r.name = "GET_LINE_CODING"   -> LineLen
      [] r.name = "GET_STATUS"        -> 2
      [] r.name = "GET_CONFIGURATION" -> 1
      [] OTHER                        -> r.len

\* What is in memory when the handler of r has run.
MemAfter(r) ==
    CASE r.name = "GET_STATUS"        -> [mem EXCEPT !.std = Zeros]
      [] r.name = "GET_CONFIGURATION" -> [mem EXCEPT !.std[1] = Config(bConfiguration)]
      [] r.name = "SET_LINE_CODING"   -> [mem EXCEPT !.line = mem.class]
      [] OTHER                        -> mem

-----------------------------------------------------------------------------

Init ==
    /\ host = [stage |-> "idle", req |-> NoRequest, id |-> 0, sent |-> 0, got |-> <<>>]
    /\ done = FALSE /\ resets = 0
    /\ epOut = Empty /\ epIn = <<>> /\ outInt = FALSE /\ inInt = FALSE
    /\ stalled = FALSE /\ hwConfigured = FALSE
    /\ isr = "off" /\ setupStat = FALSE
    /\ Setup = NoRequest
    /\ pbData = [area |-> "std", off |-> 0] /\ iResidue = 0
    /\ mem = [std |-> Zeros, class |-> Coding(0), line |-> Coding(0),
              desc |-> Desc, vendor |-> <<<<"null", 0, 1>>>>]
    /\ bConfiguration = 0

\* A packet buffer for IN holds at most one packet.
InFull == epIn # <<>>

-----------------------------------------------------------------------------
(* The host and the controller.                                            *)

\* A new request.  A host that gives a transfer up does so after a timeout,
\* when the handler has long served what came before.
HostSetup(r) ==
    /\ host.id < Requests
    /\ IF host.stage = "idle" THEN EarlySetup \/ ~inInt
                             ELSE isr = "off" /\ ~outInt /\ ~inInt
    /\ host' = [stage |-> IF r.len = 0 THEN "statusIn"
                         ELSE IF r.dir = "in" THEN "dataIn" ELSE "dataOut",
                req |-> r, id |-> host.id + 1, sent |-> 0, got |-> <<>>]
    /\ done' = FALSE
    /\ epOut' = [has |-> "setup", bytes |-> <<>>] /\ outInt' = TRUE
    /\ epIn' = <<>> /\ stalled' = FALSE
    /\ UNCHANGED <<resets, inInt, isrVars, Setup, pbData, iResidue, mem,
                   bConfiguration, hwConfigured>>

HostDataOut ==
    /\ host.stage = "dataOut" /\ epOut = Empty
    /\ LET n == Least(MaxPacket, host.req.len - host.sent)
       IN /\ host' = [host EXCEPT !.sent = @ + n,
                        !.stage = IF host.sent + n = host.req.len THEN "statusIn" ELSE @]
          /\ epOut' = [has |-> "data",
                       bytes |-> [i \in 1 .. n |-> <<"line", host.id, host.sent + i>>]]
    /\ outInt' = TRUE
    /\ UNCHANGED <<done, resets, epIn, inInt, stalled, isrVars, reqVars>>

\* The host reads a packet; a short one, or the last byte, ends the data.
HostDataIn ==
    /\ host.stage = "dataIn" /\ InFull /\ ~stalled
    /\ LET p    == epIn[1]
           got  == host.got \o p
           last == Len(p) < MaxPacket \/ Len(got) >= host.req.len
       IN host' = [host EXCEPT !.got = got,
                               !.stage = IF last THEN "statusOut" ELSE @]
    /\ epIn' = <<>> /\ inInt' = TRUE
    /\ UNCHANGED <<done, resets, epOut, outInt, stalled, isrVars, reqVars>>

HostStatusOut ==
    /\ host.stage = "statusOut" /\ epOut = Empty
    /\ host' = [host EXCEPT !.stage = "idle"] /\ done' = TRUE
    /\ epOut' = [has |-> "data", bytes |-> <<>>] /\ outInt' = TRUE
    /\ UNCHANGED <<resets, epIn, inInt, stalled, isrVars, reqVars>>

\* An empty packet acknowledges the request, one with data does not.
HostStatusIn ==
    /\ host.stage = "statusIn" /\ InFull /\ ~stalled
    /\ host' = [host EXCEPT !.stage = "idle"] /\ done' = (epIn[1] = <<>>)
    /\ epIn' = <<>> /\ inInt' = TRUE
    /\ UNCHANGED <<resets, epOut, outInt, stalled, isrVars, reqVars>>

HostSeesStall ==
    /\ host.stage \in {"dataIn", "statusIn"} /\ stalled
    /\ host' = [host EXCEPT !.stage = "idle"]
    /\ UNCHANGED <<done, resets, epVars, isrVars, reqVars>>

\* HandleUsbReset only logs it; the controller empties its buffers and
\* leaves the configured state.
BusReset ==
    /\ resets < Resets /\ resets' = resets + 1
    /\ isr = "off" /\ ~outInt /\ ~inInt
    /\ host' = [host EXCEPT !.stage = "idle"] /\ done' = FALSE
    /\ epOut' = Empty /\ epIn' = <<>> /\ stalled' = FALSE
    /\ hwConfigured' = FALSE
    /\ UNCHANGED <<outInt, inInt, isrVars, Setup, pbData, iResidue, mem,
                   bConfiguration>>

-----------------------------------------------------------------------------
(* The interrupt handler: endpoint 0 OUT, then endpoint 0 IN.              *)

IsrEnter ==
    /\ isr = "off" /\ (outInt \/ inInt)
    /\ isr' = "checkOut"
    /\ UNCHANGED <<hostVars, epVars, setupStat, reqVars>>

\* Clearing the OUT bit returns the endpoint's status.
IsrOut ==
    /\ isr = "checkOut" /\ outInt
    /\ outInt' = FALSE /\ setupStat' = (epOut.has = "setup")
    /\ isr' = "out"
    /\ UNCHANGED <<hostVars, epOut, epIn, inInt, stalled, reqVars>>

IsrNoOut ==
    /\ isr = "checkOut" /\ ~outInt
    /\ isr' = "checkIn"
    /\ UNCHANGED <<hostVars, epVars, setupStat, reqVars>>

IsrIn ==
    /\ isr = "checkIn"
    /\ isr' = IF inInt THEN "in" ELSE "off"
    /\ inInt' = FALSE
    /\ UNCHANGED <<hostVars, epOut, epIn, outInt, stalled, setupStat, reqVars>>

-----------------------------------------------------------------------------
(* USBHandleControlTransfer.                                               *)

\* Mutant: the data pointer is not advanced.
SendChunkAgain(at, left, m, setupPending) ==
    LET n == Least(MaxPacket, left)
        p == [i \in 1 .. n |-> m[at.area][at.off + i]]
    IN /\ epIn' = IF setupPending THEN epIn ELSE <<p>>
       /\ pbData' = at
       /\ iResidue' = left - n

\* Mutant: an empty packet is sent only to close a transfer of its own.
SendChunkNoEmpty(at, left, m, setupPending) ==
    LET n == Least(MaxPacket, left)
        p == [i \in 1 .. n |-> m[at.area][at.off + i]]
    IN /\ epIn' = IF setupPending \/ (n = 0 /\ at.off > 0) THEN epIn ELSE <<p>>
       /\ pbData' = [at EXCEPT !.off = @ + n]
       /\ iResidue' = left - n

\* DataIn: the next chunk, possibly empty, goes to the IN buffer.
DataIn(at, left, m, setupPending) ==
    LET n == Least(MaxPacket, left)
        p == [i \in 1 .. n |-> m[at.area][at.off + i]]
    IN /\ epIn' = IF setupPending THEN epIn ELSE <<p>>
       /\ pbData' = [at EXCEPT !.off = @ + n]
       /\ iResidue' = left - n

\* The smaller of what was requested and what is offered.
ToSend(r) == Least(Offered(r), r.len)

\* Mutant: the configuration is stored but the controller is not told.
HandleRequestQuietly(r) ==
    /\ mem' = MemAfter(r)
    /\ bConfiguration' = IF r.name = "SET_CONFIGURATION" THEN r.val ELSE bConfiguration
    /\ UNCHANGED hwConfigured

\* _HandleRequest: what the handler of an accepted request does.
HandleRequest(r) ==
    /\ mem' = MemAfter(r)
    /\ IF r.name = "SET_CONFIGURATION"
         THEN bConfiguration' = r.val /\ hwConfigured' = (r.val # 0)
         ELSE UNCHANGED <<bConfiguration, hwConfigured>>

DataToHost(r) == r.len = 0 \/ r.dir = "in"

\* A SETUP resets the state machine; the OUT buffer is read and freed.
ReadSetup ==
    /\ isr = "out" /\ setupStat /\ isr' = "checkIn"
    /\ Setup' = host.req
    /\ epOut' = Empty
    /\ UNCHANGED <<hostVars, outInt, inInt, setupStat>>

\* Nothing to receive: the request is handled and answered at once.
SetupAnswer ==
    /\ ReadSetup
    /\ DataToHost(host.req) /\ host.req.name \notin Refused
    /\ HandleRequest(host.req)
    /\ DataIn([area |-> AnswerAt(host.req), off |-> 0], ToSend(host.req),
              MemAfter(host.req), FALSE)
    /\ UNCHANGED stalled

\* The handler refuses, or there is none.
SetupRefuse ==
    /\ ReadSetup
    /\ DataToHost(host.req) /\ host.req.name \in Refused
    /\ pbData' = [area |-> host.req.type, off |-> 0] /\ iResidue' = host.req.len
    /\ stalled' = TRUE
    /\ UNCHANGED <<epIn, mem, bConfiguration, hwConfigured>>

\* Mutant: the data pointer keeps its place when a new request comes.
DataStoreOnward(r) == [pbData EXCEPT !.area = r.type]

\* The data store of this type of request, from its start.
DataStore(r) == [area |-> r.type, off |-> 0]

\* Data will follow.
SetupCollect ==
    /\ ReadSetup
    /\ ~DataToHost(host.req)
    /\ pbData' = DataStore(host.req) /\ iResidue' = host.req.len
    /\ UNCHANGED <<epIn, stalled, mem, bConfiguration, hwConfigured>>

\* USBHwEPRead of a data packet; a SETUP that came after the status was
\* read stays in the buffer.
ReadPacket ==
    /\ isr = "out" /\ ~setupStat /\ isr' = "checkIn"
    /\ epOut' = IF epOut.has = "setup" THEN epOut ELSE Empty
    /\ UNCHANGED <<hostVars, outInt, inInt, setupStat, Setup>>

\* The data stores once the packet is copied to pbData.
Stored == [mem EXCEPT ![pbData.area] =
             [i \in DOMAIN @ |->
                IF i - pbData.off \in 1 .. Least(iResidue, Len(epOut.bytes))
                  THEN epOut.bytes[i - pbData.off] ELSE @[i]]]

\* Not yet the last byte.
CollectMore ==
    /\ ReadPacket
    /\ iResidue > 0 /\ iResidue # Len(epOut.bytes)
    /\ mem' = Stored
    /\ pbData' = [pbData EXCEPT !.off = @ + Len(epOut.bytes)]
    /\ iResidue' = iResidue - Len(epOut.bytes)
    /\ UNCHANGED <<epIn, stalled, bConfiguration, hwConfigured>>

\* The last byte: the handler gets the data and the status goes out.
CollectLast ==
    /\ ReadPacket
    /\ iResidue > 0 /\ iResidue = Len(epOut.bytes)
    /\ Setup.name \notin Refused
    /\ mem' = [Stored EXCEPT !.line = Stored.class]
    /\ DataIn(DataStore(Setup), 0, mem, epOut.has = "setup")
    /\ UNCHANGED <<stalled, bConfiguration, hwConfigured>>

CollectRefuse ==
    /\ ReadPacket
    /\ iResidue > 0 /\ iResidue = Len(epOut.bytes)
    /\ Setup.name \in Refused
    /\ mem' = Stored /\ pbData' = DataStore(Setup) /\ iResidue' = 0
    /\ stalled' = TRUE
    /\ UNCHANGED <<epIn, bConfiguration, hwConfigured>>

\* The host's empty status packet.
AbsorbStatus ==
    /\ ReadPacket
    /\ iResidue <= 0
    /\ UNCHANGED <<epIn, stalled, pbData, iResidue, mem, bConfiguration, hwConfigured>>

\* An IN packet was taken: send more, possibly an empty packet.
SendMore ==
    /\ isr = "in" /\ isr' = "off"
    /\ DataIn(pbData, iResidue, mem, epOut.has = "setup")
    /\ UNCHANGED <<hostVars, epOut, outInt, inInt, stalled, setupStat, Setup,
                   mem, bConfiguration, hwConfigured>>

-----------------------------------------------------------------------------

HostTokens == HostDataOut \/ HostDataIn \/ HostStatusOut \/ HostStatusIn \/ HostSeesStall

Isr ==
    \/ IsrEnter \/ IsrOut \/ IsrNoOut \/ IsrIn
    \/ SetupAnswer \/ SetupRefuse \/ SetupCollect
    \/ CollectMore \/ CollectLast \/ CollectRefuse \/ AbsorbStatus
    \/ SendMore

Next == (\E r \in AllRequests : HostSetup(r)) \/ HostTokens \/ BusReset \/ Isr

\* Interrupts are served, and a host waiting for a packet polls for it.
Spec == Init /\ [][Next]_vars /\ WF_vars(Isr) /\ WF_vars(HostTokens)

-----------------------------------------------------------------------------
(* Properties.                                                             *)

\* What the device answers to r, as far as it has any answer.
Answer(r) ==
    CASE r.name = "GET_DESCRIPTOR"    -> SubSeq(Desc, 1, Least(r.len, DescLen))
      [] r.name = "GET_LINE_CODING"   -> mem.line
      [] r.name = "GET_STATUS"        -> Zeros
      [] r.name = "GET_CONFIGURATION" -> <<Config(bConfiguration)>>
      [] OTHER                        -> <<>>

\* The host reads the answer to the request it made last from its first
\* byte on, no byte missing, repeated or left from another transfer, and
\* all of it when the transfer ends well (DataIn, the ACK interrupts that
\* drive it, and the reset of the state machine by a SETUP).
AnswerInOrder ==
    /\ Len(host.got) <= Len(Answer(host.req))
    /\ host.got = SubSeq(Answer(host.req), 1, Len(host.got))
    /\ done => host.got = Answer(host.req)

\* LineCoding always holds the bytes of one transfer, in order: data of a
\* transfer the host gave up halfway never mix with the next one's.
LineCodingWhole == \E n \in 0 .. host.id : mem.line = Coding(n)

\* A request whose status stage ended well has taken effect: the device is
\* as the host believes it is.
DoneMeansApplied ==
    done => /\ host.req.name = "SET_LINE_CODING" => mem.line = Coding(host.id)
            /\ host.req.name = "SET_CONFIGURATION" =>
                 bConfiguration = host.req.val /\ hwConfigured = (host.req.val # 0)
            /\ host.req.name \notin Refused

\* Every control transfer ends, answered or stalled.
TransferEnds == host.stage # "idle" ~> host.stage = "idle"
=============================================================================
