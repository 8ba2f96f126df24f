------------------------------- MODULE I2c -------------------------------
(***************************************************************************)
(* The I2C driver (src/espardino/i2c_device.c): devices that run the       *)
(* library on one bus.  Programs start writes and reads; the interrupt     *)
(* handler moves the bytes; a device that is addressed serves its register *)
(* map i2c_mmap, a write going to i2c_mmap_tmp until the STOP.  On the same *)
(* bus is one foreign chip that may refuse its address or a byte.          *)
(*                                                                         *)
(* The bus hardware is modelled by the status codes it raises (the ones    *)
(* the handler switches on, in decimal): a transfer waits for the handlers *)
(* of both ends, the lowest address byte wins arbitration, and a bus error *)
(* ends a transfer between two bytes.  Programs never make two masters     *)
(* send the same address byte, so arbitration ends with the address.       *)
(***************************************************************************)
EXTENDS Integers, Sequences, SequencesExt

CONSTANTS Devices,     \* devices that run the library
          I2CADR,      \* own address of each, even
          ChipAddr,    \* address of the foreign chip
          MmapSize,    \* I2C_MMAP_SIZE
          Requests,    \* operations each device's program may ask for
          Operations,  \* bound: operations each device's program starts
          BusErrors    \* bound: bus errors

None == "none"
Chip == "chip"

\* A request: dev is the register sent ahead of p, or -1; a program that
\* gives -1 puts the register in p.
Write(tgt, dev, p) == [kind |-> "WRITE", tgt |-> tgt, dev |-> dev, p |-> p, len |-> Len(p)]
Read(tgt, dev, n)  == [kind |-> "READ", tgt |-> tgt, dev |-> dev, p |-> <<>>, len |-> n]

RequestType == [kind : {"WRITE", "READ"}, tgt : Devices \cup {Chip}, dev : Nat \cup {-1},
                p : Seq(Nat), len : Nat]
NoRequest   == Write(None, -1, <<>>)

ASSUME AddressAssumption ==
    /\ None \notin Devices /\ Chip \notin Devices
    /\ I2CADR \in [Devices -> Nat] /\ ChipAddr \in Nat /\ ChipAddr % 2 = 0
    /\ \A d \in Devices : I2CADR[d] # ChipAddr /\ I2CADR[d] % 2 = 0
    /\ \A d, e \in Devices : d # e => I2CADR[d] # I2CADR[e]
ASSUME RequestAssumption == Requests \in [Devices -> SUBSET RequestType]
ASSUME SizeAssumption == MmapSize \in Nat \ {0}
ASSUME BoundAssumption == Operations \in [Devices -> Nat] /\ BusErrors \in Nat

-----------------------------------------------------------------------------
(* Requests R for which the driver keeps what it promises: no device is    *)
(* both master and slave, a read is of a byte or more, and a write to a    *)
(* device names a register and ends before the last one.                   *)

\* What a write puts on the wire.
WireBytes(r) == IF r.dev >= 0 THEN <<r.dev>> \o r.p ELSE r.p

\* The bytes w, a register ahead of its data, end before the last register.
Fits(w) == w # <<>> => w[1] + Len(w) <= MmapSize

Orderly(R) ==
    \A d \in Devices : \A r \in R[d] :
        /\ r.tgt \in Devices => R[r.tgt] = {}
        /\ r.kind = "READ" => r.len >= 1
        /\ r.kind = "WRITE" /\ r.tgt \in Devices => WireBytes(r) # <<>> /\ Fits(WireBytes(r))

-----------------------------------------------------------------------------
VARIABLES
    mst,      \* i2c_state of each device, master half
    slv,      \* its slave half
    hw,       \* its I2C block: status, interrupt, STA, STO, AA and data
    bus,      \* who owns the bus, with whom it talks, and in which phase
    started,  \* operations each program has started
    errors,   \* bus errors so far
    request, expect, wire, landed, struck
              \* history: the last request of each device, the bytes its
              \* read is to return, the bytes of the last write to it, the
              \* last write to it that was completed; the masters a bus
              \* error hit

history == <<request, expect, wire, landed, struck>>
vars    == <<mst, slv, hw, bus, started, errors, history>>

FreeBus == [phase |-> "free", owner |-> None, target |-> None, contend |-> {}]

Init ==
    /\ mst = [d \in Devices |-> [operation |-> "NOP", remote_i2c_addr |-> 0,
                remote_dev_addr |-> 0, should_send_devaddr |-> FALSE,
                result |-> 0, write |-> <<>>, read_len |-> 0, buf |-> <<>>]]
    /\ slv = [d \in Devices |-> [waiting_addr |-> FALSE, operation |-> "NOP",
                addr |-> 0, addr_start |-> 0,
                mmap |-> [i \in 0 .. MmapSize - 1 |-> i],
                tmp |-> [i \in 0 .. MmapSize - 1 |-> 0]]]
    /\ hw = [d \in Devices |-> [stat |-> 248, si |-> FALSE, sta |-> FALSE,
                sto |-> FALSE, aa |-> TRUE, dat |-> 0]]
    /\ bus = FreeBus
    /\ started = [d \in Devices |-> 0] /\ errors = 0
    /\ request = [d \in Devices |-> NoRequest]
    /\ expect = [d \in Devices |-> <<>>]
    /\ wire = [d \in Devices |-> <<>>] /\ landed = [d \in Devices |-> NoRequest]
    /\ struck = {}

-----------------------------------------------------------------------------
(* The program.  A start while an operation runs is refused and does       *)
(* nothing; I2C_wait spins until operation is NOP.                         *)

AddressOf(tgt) == IF tgt = Chip THEN ChipAddr ELSE I2CADR[tgt]

\* A pending interrupt is taken before the program gets this far (~si), so that
\* clearing SI, which the code does before it asks for the bus, changes nothing.
Start(d, r, m) ==
    /\ started[d] < Operations[d] /\ ~hw[d].si
    /\ mst[d].operation = "NOP"
    /\ request' = [request EXCEPT ![d] = r]
    /\ started' = [started EXCEPT ![d] = @ + 1]
    /\ mst' = [mst EXCEPT ![d] =
         [m EXCEPT !.remote_i2c_addr = AddressOf(r.tgt), !.result = 0,
                   !.operation = r.kind,
                   !.remote_dev_addr = IF r.dev >= 0 THEN r.dev ELSE @,
                   !.should_send_devaddr = (r.dev >= 0)]]
    /\ hw' = [hw EXCEPT ![d].sta = TRUE]
    /\ expect' = [expect EXCEPT ![d] = <<>>]
    /\ UNCHANGED <<slv, bus, errors, wire, landed, struck>>

i2c_start_write(d) ==
    \E r \in Requests[d] :
        r.kind = "WRITE" /\ Start(d, r, [mst[d] EXCEPT !.write = r.p])

i2c_start_read(d) ==
    \E r \in Requests[d] :
        r.kind = "READ" /\ Start(d, r, [mst[d] EXCEPT !.read_len = r.len, !.buf = <<>>])

-----------------------------------------------------------------------------
(* i2c_irq_handler, master states.                                         *)

\* The handler is called for one of the states S, leaves the registers c of
\* the I2C block and clears the interrupt.
Handles(d, S, c) ==
    /\ hw[d].si /\ hw[d].stat \in S
    /\ hw' = [hw EXCEPT ![d] = [c EXCEPT !.si = FALSE]]
    /\ UNCHANGED <<bus, started, errors, request, expect, wire, struck>>

MasterBecomes(d, m) == mst' = [mst EXCEPT ![d] = m] /\ UNCHANGED slv

StopAndAck(c) == [c EXCEPT !.sto = TRUE, !.aa = TRUE]

BusErrorSeen(d) ==
    /\ Handles(d, {0}, StopAndAck(hw[d]))
    /\ UNCHANGED <<mst, slv, landed>>

\* A start or a repeated start is out: the address follows.
StartSent(d) ==
    /\ Handles(d, {8, 16},
         [hw[d] EXCEPT !.aa = TRUE, !.sta = FALSE,
            !.dat = mst[d].remote_i2c_addr + IF mst[d].operation = "READ" THEN 1 ELSE 0])
    /\ UNCHANGED <<mst, slv, landed>>

\* SLA+W acknowledged: the register, or the first byte.
AddressAcked(d) ==
    LET m     == mst[d]
        first == ~m.should_send_devaddr /\ m.write # <<>>
    IN /\ Handles(d, {24},
            [hw[d] EXCEPT !.aa = TRUE,
               !.dat = IF m.should_send_devaddr THEN m.remote_dev_addr
                       ELSE IF first THEN Head(m.write) ELSE 0])
       /\ MasterBecomes(d, [m EXCEPT !.should_send_devaddr = FALSE,
                                     !.write = IF first THEN Tail(@) ELSE @])
       /\ UNCHANGED landed

\* SLA+W or SLA+R refused: I2C_RES_ADDR_NACK.
AddressRefused(d) ==
    /\ Handles(d, {32, 72}, StopAndAck(hw[d]))
    /\ MasterBecomes(d, [mst[d] EXCEPT !.result = 1, !.operation = "NOP",
                                       !.write = <<>>, !.read_len = 0])
    /\ UNCHANGED landed

ByteAcked(d) ==
    /\ mst[d].write # <<>>
    /\ Handles(d, {40}, [hw[d] EXCEPT !.aa = TRUE, !.dat = Head(mst[d].write)])
    /\ MasterBecomes(d, [mst[d] EXCEPT !.write = Tail(@)])
    /\ UNCHANGED landed

LastByteAcked(d) ==
    /\ mst[d].write = <<>>
    /\ Handles(d, {40}, StopAndAck(hw[d]))
    /\ MasterBecomes(d, [mst[d] EXCEPT !.operation = "NOP"])
    /\ landed' = [t \in Devices |-> IF t = request[d].tgt THEN request[d] ELSE landed[t]]

ByteRefused(d) ==
    /\ Handles(d, {48}, StopAndAck(hw[d]))
    /\ MasterBecomes(d, [mst[d] EXCEPT !.operation = "NOP"])
    /\ UNCHANGED landed

\* Mutant: the operation is not started again.
RestartNot(c) == [c EXCEPT !.aa = TRUE]

Restart(c) == [c EXCEPT !.aa = TRUE, !.sta = TRUE]

ArbitrationLost(d) ==
    /\ Handles(d, {56}, Restart(hw[d]))
    /\ UNCHANGED <<mst, slv, landed>>

\* SLA+R acknowledged.
ReadAddressAcked(d) ==
    /\ Handles(d, {64}, [hw[d] EXCEPT !.aa = (mst[d].read_len # 1)])
    /\ UNCHANGED <<mst, slv, landed>>

\* Mutant: one byte too many is acknowledged.
MoreAfterOff(n) == n >= 1

\* After this byte there is more than the last one to come.
MoreAfter(n) == n > 1

ByteReceived(d) ==
    /\ Handles(d, {80}, [hw[d] EXCEPT !.aa = MoreAfter(mst[d].read_len - 1)])
    /\ MasterBecomes(d, [mst[d] EXCEPT !.buf = Append(@, hw[d].dat),
                                       !.read_len = @ - 1])
    /\ UNCHANGED landed

\* Mutant: the acknowledge stays off.
StopAfterReadDeaf(c) == [c EXCEPT !.sto = TRUE]

StopAfterRead(c) == StopAndAck(c)

LastByteReceived(d) ==
    /\ Handles(d, {88}, StopAfterRead(hw[d]))
    /\ MasterBecomes(d, [mst[d] EXCEPT !.buf = Append(@, hw[d].dat),
                                       !.operation = "NOP"])
    /\ UNCHANGED landed

-----------------------------------------------------------------------------
(* i2c_irq_handler, slave states.                                          *)

SlaveBecomes(d, s) == slv' = [slv EXCEPT ![d] = s] /\ UNCHANGED <<mst, landed>>

\* Own SLA+W; after lost arbitration (104) the last operation stays.
AddressedToWrite(d) ==
    /\ Handles(d, {96, 104}, [hw[d] EXCEPT !.aa = TRUE])
    /\ SlaveBecomes(d,
         IF hw[d].stat = 96
           THEN [slv[d] EXCEPT !.operation = "WRITE", !.addr_start = slv[d].addr,
                               !.waiting_addr = TRUE]
           ELSE [slv[d] EXCEPT !.waiting_addr = TRUE])

RegisterReceived(d) ==
    /\ slv[d].waiting_addr
    /\ Handles(d, {128}, [hw[d] EXCEPT !.aa = TRUE])
    /\ SlaveBecomes(d, [slv[d] EXCEPT !.waiting_addr = FALSE, !.addr = hw[d].dat,
                                      !.addr_start = hw[d].dat])

\* The pointer after a byte written; it rolls over past I2C_MMAP_SIZE.
AfterWrite(a) == IF a + 1 > MmapSize THEN 0 ELSE a + 1

\* Mutant: the byte goes to the registers at once.
StoreAtOnce(s, byte) == [s EXCEPT !.tmp[s.addr] = byte, !.mmap[s.addr] = byte]

\* i2c_mmap_tmp[MmapSize] is the low byte of i2c_addr_start.
Store(s, byte) ==
    IF s.addr < MmapSize THEN [s EXCEPT !.tmp[s.addr] = byte]
                         ELSE [s EXCEPT !.addr_start = byte]

DataReceived(d) ==
    /\ ~slv[d].waiting_addr
    /\ Handles(d, {128}, [hw[d] EXCEPT !.aa = TRUE])
    /\ SlaveBecomes(d, [Store(slv[d], hw[d].dat) EXCEPT !.addr = AfterWrite(@)])

\* The registers from i to the pointer, round the end.
Flushed(s) ==
    LET from == s.addr_start
    IN {i \in 0 .. MmapSize - 1 :
          IF from <= s.addr THEN i >= from /\ i < s.addr
                            ELSE i >= from \/ i < s.addr}

\* Mutant: the last register is left out.
FlushShort(s) ==
    [s EXCEPT !.mmap = [i \in DOMAIN s.mmap |->
                          IF i \in Flushed(s) /\ i + 1 # s.addr THEN s.tmp[i] ELSE s.mmap[i]]]

Flush(s) ==
    [s EXCEPT !.mmap = [i \in DOMAIN s.mmap |->
                          IF i \in Flushed(s) THEN s.tmp[i] ELSE s.mmap[i]],
              !.addr_start = s.addr]

\* STOP: a write goes to the registers.  The loop that copies them never
\* gets to a pointer of MmapSize: the handler does not come back.
StopSeen(d) ==
    /\ slv[d].operation = "WRITE" => slv[d].addr < MmapSize
    /\ Handles(d, {160}, [hw[d] EXCEPT !.aa = TRUE])
    /\ SlaveBecomes(d, IF slv[d].operation = "WRITE" THEN Flush(slv[d]) ELSE slv[d])

\* The pointer after a byte read.
AfterRead(a) == IF a + 1 >= MmapSize THEN 0 ELSE a + 1

\* Own SLA+R (168) or a byte acknowledged: the next register.
\* i2c_mmap[MmapSize] is i2c_mmap_tmp[0].
SendRegister(d) ==
    LET s == slv[d]
    IN /\ Handles(d, {168, 184},
            [hw[d] EXCEPT !.dat = IF s.addr < MmapSize THEN s.mmap[s.addr] ELSE s.tmp[0]])
       /\ SlaveBecomes(d, [s EXCEPT !.addr = AfterRead(@),
                             !.operation = IF hw[d].stat = 168 THEN "READ" ELSE @])

\* The last byte is over, or a state the handler does not know (176).
Released(d) ==
    /\ Handles(d, {136, 192, 200, 176},
         [hw[d] EXCEPT !.aa = (hw[d].stat # 176 \/ @)])
    /\ UNCHANGED <<mst, slv, landed>>

-----------------------------------------------------------------------------
(* The bus.                                                                *)

Event(c, code) == [c EXCEPT !.stat = code, !.si = TRUE]
Quiet(d)       == d \notin {e \in Devices : hw[e].si}
BusUnchanged   == UNCHANGED <<mst, slv, started, request, landed>>

\* Some of the devices that asked for the bus start together.
BusStart ==
    /\ bus.phase = "free"
    /\ \E C \in SUBSET {d \in Devices : hw[d].sta /\ ~hw[d].sto /\ ~hw[d].si} :
         /\ C # {}
         /\ hw' = [d \in Devices |-> IF d \in C THEN Event(hw[d], 8) ELSE hw[d]]
         /\ bus' = [FreeBus EXCEPT !.phase = "address", !.contend = C]
    /\ BusUnchanged /\ UNCHANGED <<errors, expect, wire, struck>>

\* The lowest address byte wins; who it is for acknowledges it.
BusAddress ==
    /\ bus.phase = "address"
    /\ \A d \in bus.contend : ~hw[d].si
    /\ \E owner \in bus.contend :
         /\ \A e \in bus.contend : hw[owner].dat <= hw[e].dat
         /\ LET rd    == hw[owner].dat % 2 = 1
                named == {d \in Devices \ {owner} : I2CADR[d] \div 2 = hw[owner].dat \div 2}
                lost  == bus.contend \ {owner}
            IN \E ack \in BOOLEAN :
                 /\ \A d \in named : ~hw[d].si /\ ack = hw[d].aa
                 /\ ack => named # {} \/ request[owner].tgt = Chip
                 /\ hw' = [d \in Devices |->
                      CASE d = owner -> Event(hw[d], IF rd THEN (IF ack THEN 64 ELSE 72)
                                                           ELSE (IF ack THEN 24 ELSE 32))
                        [] d \in named /\ ack /\ d \notin lost -> Event(hw[d], IF rd THEN 168 ELSE 96)
                        [] d \in named /\ ack /\ d \in lost -> Event(hw[d], IF rd THEN 176 ELSE 104)
                        [] d \in lost \ named -> Event(hw[d], 56)
                        [] OTHER -> hw[d]]
                 /\ bus' = [phase |-> IF ~ack THEN "refused" ELSE IF rd THEN "read" ELSE "write",
                            owner |-> owner, contend |-> {},
                            target |-> IF named # {} THEN CHOOSE d \in named : TRUE ELSE Chip]
                 /\ wire' = [d \in Devices |-> IF d \in named /\ ~rd THEN <<>> ELSE wire[d]]
                 /\ expect' = [expect EXCEPT ![owner] =
                      IF ~rd \/ named = {} THEN <<>>
                      ELSE LET s == slv[CHOOSE d \in named : TRUE]
                           IN [i \in 1 .. request[owner].len |-> s.mmap[(s.addr + i - 1) % MmapSize]]]
    /\ BusUnchanged /\ UNCHANGED <<errors, struck>>

Transferring(phase) ==
    /\ bus.phase = phase /\ Quiet(bus.owner) /\ Quiet(bus.target)
    /\ ~hw[bus.owner].sto

\* A byte from the owner.
BusWriteByte ==
    /\ Transferring("write")
    /\ LET byte == hw[bus.owner].dat
       IN \E ack \in BOOLEAN :
            /\ bus.target # Chip => ack = hw[bus.target].aa
            /\ hw' = [d \in Devices |->
                 CASE d = bus.owner  -> Event(hw[d], IF ack THEN 40 ELSE 48)
                   [] d = bus.target -> Event([hw[d] EXCEPT !.dat = byte], IF ack THEN 128 ELSE 136)
                   [] OTHER -> hw[d]]
            /\ wire' = [d \in Devices |-> IF d = bus.target THEN Append(wire[d], byte) ELSE wire[d]]
    /\ BusUnchanged /\ UNCHANGED <<bus, errors, expect, struck>>

\* A byte to the owner, which acknowledges it if it wants more.
BusReadByte ==
    /\ Transferring("read")
    /\ LET ack == hw[bus.owner].aa
       IN hw' = [d \in Devices |->
            CASE d = bus.owner ->
                   Event([hw[d] EXCEPT !.dat = IF bus.target = Chip THEN 0 ELSE hw[bus.target].dat],
                         IF ack THEN 80 ELSE 88)
              [] d = bus.target -> Event(hw[d], IF ack THEN 184 ELSE 192)
              [] OTHER -> hw[d]]
    /\ BusUnchanged /\ UNCHANGED <<bus, errors, expect, wire, struck>>

\* The STOP the owner asked for; a slave that was written to sees it.
BusStop ==
    /\ bus.owner # None /\ Quiet(bus.owner) /\ Quiet(bus.target)
    /\ hw[bus.owner].sto
    /\ hw' = [d \in Devices |->
         CASE d = bus.owner -> [hw[d] EXCEPT !.sto = FALSE]
           [] d = bus.target /\ bus.phase = "write" -> Event(hw[d], 160)
           [] OTHER -> hw[d]]
    /\ bus' = FreeBus
    /\ BusUnchanged /\ UNCHANGED <<errors, expect, wire, struck>>

\* A bus error strikes both ends; the STO of their handlers releases them.
BusError ==
    /\ errors < BusErrors /\ errors' = errors + 1
    /\ Transferring("write") \/ Transferring("read")
    /\ hw' = [d \in Devices |->
         IF d \in {bus.owner, bus.target} THEN Event(hw[d], 0) ELSE hw[d]]
    /\ bus' = FreeBus
    /\ struck' = struck \cup {bus.owner}
    /\ BusUnchanged /\ UNCHANGED <<expect, wire>>

BusReleased(d) ==
    /\ d # bus.owner /\ hw[d].sto /\ ~hw[d].si
    /\ hw' = [hw EXCEPT ![d].sto = FALSE]
    /\ BusUnchanged /\ UNCHANGED <<bus, errors, expect, wire, struck>>

-----------------------------------------------------------------------------
Program(d) == i2c_start_write(d) \/ i2c_start_read(d)
Irq(d) == \/ BusErrorSeen(d) \/ StartSent(d) \/ AddressAcked(d) \/ AddressRefused(d)
          \/ ByteAcked(d) \/ LastByteAcked(d) \/ ByteRefused(d) \/ ArbitrationLost(d)
          \/ ReadAddressAcked(d) \/ ByteReceived(d) \/ LastByteReceived(d)
          \/ AddressedToWrite(d) \/ RegisterReceived(d) \/ DataReceived(d)
          \/ StopSeen(d) \/ SendRegister(d) \/ Released(d)
Bus == BusStart \/ BusAddress \/ BusWriteByte \/ BusReadByte \/ BusStop
       \/ \E d \in Devices : BusReleased(d)
Next == (\E d \in Devices : Program(d) \/ Irq(d)) \/ Bus \/ BusError

\* Interrupts are served and the bus clocks on; programs need not start
\* anything and errors need not happen.
Spec == Init /\ [][Next]_vars /\ WF_vars(Bus) /\ \A d \in Devices : WF_vars(Irq(d))

-----------------------------------------------------------------------------
(* Properties.                                                             *)

\* "rollover the i2c_addr pointer" (i2c_device.c:280): the pointer is always
\* that of a register, also after a write to the last one.
PointerRollsOver == \A d \in Devices : slv[d].addr \in 0 .. MmapSize - 1

\* The registers with data put at r and after it.
Put(map, r, data) ==
    [i \in DOMAIN map |-> IF i >= r /\ i < r + Len(data) THEN data[i - r + 1] ELSE map[i]]

\* "make write sequences atomic" (i2c_device.c:295): the registers change
\* only from what they were to all that one write carried, once its master
\* has seen the last byte acknowledged, whatever was cut off by a bus error
\* before.
WritesAreAtomic ==
    [][\A d \in Devices :
         slv'[d].mmap # slv[d].mmap =>
             /\ landed[d].tgt = d /\ wire[d] = WireBytes(landed[d])
             /\ slv'[d].mmap = Put(slv[d].mmap, Head(wire[d]), Tail(wire[d]))]_slv

\* Once the bus is quiet the registers of each device hold the last write that
\* a master completed without an error, byte for byte.
CompletedWritesLand ==
    \A d \in Devices :
        (landed[d].tgt = d /\ bus.phase = "free" /\ ~hw[d].si) =>
            LET bytes == WireBytes(landed[d])
            IN \A i \in 2 .. Len(bytes) : slv[d].mmap[Head(bytes) + i - 2] = bytes[i]

\* A read gets the registers from the pointer on, round the end, no byte
\* more than was asked for, and all of them unless it reports an error.
ReadsInOrder ==
    \A d \in Devices :
        request[d].kind = "READ" =>
            /\ request[d].tgt # Chip => IsPrefix(mst[d].buf, expect[d])
            /\ Len(mst[d].buf) <= request[d].len
            /\ (mst[d].operation = "NOP" /\ mst[d].result = 0) =>
                  Len(mst[d].buf) = request[d].len

\* A device that has cleared AA to end its own read sets it again: while it
\* does not own the bus it answers to its address.
NeverDeaf ==
    \A d \in Devices : (d # bus.owner /\ ~hw[d].si) => hw[d].aa

\* I2C_wait comes back: every operation ends, lost arbitration and refusals
\* included, unless a bus error strikes it.
OperationsEnd ==
    \A d \in Devices :
        mst[d].operation # "NOP" ~> (mst[d].operation = "NOP" \/ d \in struck)
=============================================================================
