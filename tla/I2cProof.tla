------------------------------ MODULE I2cProof ------------------------------
(***************************************************************************)
(* For every set of devices, size of the register map and number of bus    *)
(* errors.                                                                 *)
(*                                                                         *)
(* Whatever the programs ask for, an event that waits for its handler is   *)
(* one of the part its device has in the transfer (LinkInv), and a device  *)
(* that does not own the bus answers to its address.                       *)
(*                                                                         *)
(* For the programs of Orderly, TransferInv says where each byte of the    *)
(* transfer that is on has got to: what the owner has left, what is on the *)
(* wire, what the slave has taken in, and what its registers hold.  From   *)
(* it follow the promises of the driver: a completed write is in the       *)
(* registers, they change only by whole writes, and a read returns them.   *)
(***************************************************************************)
EXTENDS I2c, SequenceTheorems, TLAPS

-----------------------------------------------------------------------------
(* Types.                                                                  *)

Operation == {"NOP", "READ", "WRITE"}
Registers == [0 .. MmapSize - 1 -> Nat]

MasterType == [operation : Operation, remote_i2c_addr : Nat, remote_dev_addr : Nat,
               should_send_devaddr : BOOLEAN, result : 0 .. 1, write : Seq(Nat),
               read_len : Int, buf : Seq(Nat)]
SlaveType  == [waiting_addr : BOOLEAN, operation : Operation, addr : Nat,
               addr_start : Nat, mmap : Registers, tmp : Registers]
BlockType  == [stat : Nat, si : BOOLEAN, sta : BOOLEAN, sto : BOOLEAN, aa : BOOLEAN, dat : Nat]
BusType    == [phase : {"free", "address", "write", "read", "refused"},
               owner : Devices \cup {None}, target : Devices \cup {None, Chip},
               contend : SUBSET Devices]

TypeInv ==
    /\ mst \in [Devices -> MasterType] /\ slv \in [Devices -> SlaveType]
    /\ hw \in [Devices -> BlockType] /\ bus \in BusType
    /\ started \in [Devices -> Nat] /\ errors \in Nat
    /\ request \in [Devices -> RequestType \cup {NoRequest}]
    /\ landed \in [Devices -> RequestType \cup {NoRequest}]
    /\ expect \in [Devices -> Seq(Nat)] /\ wire \in [Devices -> Seq(Nat)]

-----------------------------------------------------------------------------
(* Who may have which event: the part of the invariant that holds of any   *)
(* programs.                                                               *)

\* The bus has an owner, and contenders, in their phases.
PhaseInv ==
    /\ bus.phase = "free" => bus = FreeBus
    /\ bus.phase = "address" => bus.owner = None /\ bus.target = None /\ bus.contend # {}
    /\ bus.phase # "address" => bus.contend = {}
    /\ bus.phase \in {"write", "read", "refused"} => bus.owner \in Devices /\ bus.target # None
    /\ bus.owner # bus.target \/ bus.owner = None

Outside(d) == d # bus.owner /\ d # bus.target /\ d \notin bus.contend

\* An event that waits for its handler is one of the part its device has in the
\* transfer that is going on, or was left by one that is over.
EventInv ==
    \A d \in Devices : hw[d].si =>
        \/ hw[d].stat = 8 /\ d \in bus.contend
        \/ hw[d].stat \in {24, 40, 48} /\ d = bus.owner /\ bus.phase = "write"
        \/ hw[d].stat \in {64, 80, 88} /\ d = bus.owner /\ bus.phase = "read"
        \/ hw[d].stat \in {32, 72} /\ d = bus.owner /\ bus.phase = "refused"
        \/ hw[d].stat \in {96, 104, 128, 136} /\ d = bus.target /\ bus.phase = "write"
        \/ hw[d].stat \in {168, 176, 184, 192} /\ d = bus.target /\ bus.phase = "read"
        \/ hw[d].stat \in {0, 56, 160} /\ Outside(d)

\* A STOP is asked for by the handler that ends a transfer, with AA set, and
\* until it is out its device gets no event as a master.
StopInv ==
    \A d \in Devices : hw[d].sto =>
        /\ hw[d].aa /\ d \notin bus.contend
        /\ d = bus.owner => ~hw[d].si

\* AA is off only for a master that is about to refuse its last byte, or that
\* was struck by a bus error then and has not handled it.
AckInv ==
    \A d \in Devices : ~hw[d].aa =>
        \/ d = bus.owner /\ bus.phase = "read"
        \/ hw[d].si /\ hw[d].stat = 0

LinkInv == TypeInv /\ PhaseInv /\ EventInv /\ StopInv /\ AckInv

-----------------------------------------------------------------------------
(* Lemmas about the constants and the model's operators.                   *)

LEMMA NameFacts == None \notin Devices /\ Chip \notin Devices /\ None # Chip
BY AddressAssumption DEF None, Chip

LEMMA AddressOfNat == \A t \in Devices \cup {Chip} : AddressOf(t) \in Nat
BY AddressAssumption DEF AddressOf

\* Two devices are never meant by one address byte.
LEMMA OneIsNamed ==
    \A d, e \in Devices : I2CADR[d] \div 2 = I2CADR[e] \div 2 => d = e
<1> TAKE d, e \in Devices
<1>1. \A x, y \in Nat : x % 2 = 0 /\ y % 2 = 0 /\ x \div 2 = y \div 2 => x = y
  OBVIOUS
<1> QED  BY <1>1, AddressAssumption

\* The fields of the records.
LEMMA RequestFields ==
    ASSUME NEW r \in RequestType \cup {NoRequest}
    PROVE  r.p \in Seq(Nat) /\ r.len \in Nat /\ r.dev \in Nat \cup {-1}
<1>1. CASE r \in RequestType  BY <1>1 DEF RequestType
<1>2. CASE r = NoRequest
  <2>1. r.p = <<>> /\ r.len = Len(<<>>) /\ r.dev = -1  BY <1>2 DEF NoRequest, Write
  <2>2. Len(<<>>) = 0 /\ <<>> \in Seq(Nat)  OBVIOUS
  <2> QED  BY <2>1, <2>2
<1> QED  BY <1>1, <1>2

LEMMA Fields ==
    ASSUME TypeInv, NEW d \in Devices
    PROVE  /\ mst[d] \in MasterType /\ slv[d] \in SlaveType /\ hw[d] \in BlockType
           /\ request[d] \in RequestType \cup {NoRequest}
           /\ landed[d] \in RequestType \cup {NoRequest}
           /\ expect[d] \in Seq(Nat) /\ wire[d] \in Seq(Nat)
BY DEF TypeInv

-----------------------------------------------------------------------------
(* LinkInv is inductive: the programs and the handlers.                    *)

\* What a handler may leave in the registers of its I2C block.
Leaves(d, c) ==
    /\ c \in BlockType
    /\ c.sto => c.aa /\ d \notin bus.contend
    /\ ~c.aa => d = bus.owner /\ bus.phase = "read"

LEMMA HandlerKeepsLink ==
    ASSUME LinkInv, NEW d \in Devices, NEW S, NEW c, Handles(d, S, c), Leaves(d, c),
           mst' \in [Devices -> MasterType], slv' \in [Devices -> SlaveType],
           landed' \in [Devices -> RequestType \cup {NoRequest}]
    PROVE  LinkInv'
<1>1. TypeInv /\ PhaseInv /\ EventInv /\ StopInv /\ AckInv  BY DEF LinkInv
<1>2. PICK b : b = [c EXCEPT !.si = FALSE]  OBVIOUS
<1>3. /\ b \in BlockType /\ b.si = FALSE /\ b.sto = c.sto /\ b.aa = c.aa /\ b.stat = c.stat
      /\ b.sta = c.sta /\ b.dat = c.dat
  BY <1>2 DEF Leaves, BlockType
<1>4. hw' = [hw EXCEPT ![d] = b] /\ bus' = bus
  BY <1>2 DEF Handles
<1>5. \A e \in Devices : hw'[e] = IF e = d THEN b ELSE hw[e]
  BY <1>1, <1>4 DEF TypeInv
<1>6. TypeInv'
  BY <1>1, <1>3, <1>4 DEF TypeInv, Handles
<1>7. PhaseInv'
  BY <1>1, <1>4 DEF PhaseInv, FreeBus
<1>8. EventInv'
  BY <1>1, <1>3, <1>4, <1>5 DEF EventInv, Outside
<1>9. StopInv'
  BY <1>1, <1>3, <1>4, <1>5 DEF StopInv, Leaves
<1>10. AckInv'
  BY <1>1, <1>3, <1>4, <1>5 DEF AckInv, Leaves
<1> QED  BY <1>6, <1>7, <1>8, <1>9, <1>10 DEF LinkInv

\* What ends a transfer, and what sets or clears AA, may be left.
LEMMA StopLeaves ==
    ASSUME NEW d, hw[d] \in BlockType, d \notin bus.contend, NEW c, c = StopAndAck(hw[d])
    PROVE  Leaves(d, c)
<1>1. PICK h \in BlockType : h = hw[d]  OBVIOUS
<1>2. StopAndAck(h) \in BlockType /\ StopAndAck(h).aa  BY DEF StopAndAck, BlockType
<1> QED  BY <1>1, <1>2 DEF Leaves

LEMMA AckLeaves ==
    ASSUME NEW d, hw[d] \in BlockType, ~hw[d].sto,
           d = bus.owner, bus.phase = "read",
           NEW a \in BOOLEAN, NEW c, c = [hw[d] EXCEPT !.aa = a]
    PROVE  Leaves(d, c)
<1>1. PICK h \in BlockType : h = hw[d]  OBVIOUS
<1>2. LET k == [h EXCEPT !.aa = a] IN k \in BlockType /\ ~k.sto
  BY <1>1 DEF BlockType
<1> QED  BY <1>1, <1>2 DEF Leaves

\* A field of a master's record may be set.
LEMMA MasterUpdates ==
    ASSUME NEW m \in MasterType
    PROVE  /\ [m EXCEPT !.operation = "NOP"] \in MasterType
           /\ [m EXCEPT !.result = 1] \in MasterType
           /\ [m EXCEPT !.write = <<>>] \in MasterType
           /\ [m EXCEPT !.read_len = 0] \in MasterType
<1>1. "NOP" \in Operation /\ 1 \in 0 .. 1 /\ 0 \in Int /\ <<>> \in Seq(Nat)
  BY DEF Operation
<1> QED  BY <1>1 DEF MasterType

LEMMA MasterKeepsLink ==
    ASSUME LinkInv, NEW d \in Devices, NEW S, NEW c, Handles(d, S, c), Leaves(d, c),
           NEW m \in MasterType, MasterBecomes(d, m),
           landed' \in [Devices -> RequestType \cup {NoRequest}]
    PROVE  LinkInv'
<1>1. mst' \in [Devices -> MasterType] /\ slv' \in [Devices -> SlaveType]
  BY DEF LinkInv, TypeInv, MasterBecomes
<1> QED  BY <1>1, HandlerKeepsLink, Zenon

LEMMA SlaveKeepsLink ==
    ASSUME LinkInv, NEW d \in Devices, NEW S, NEW c, Handles(d, S, c), Leaves(d, c),
           NEW s \in SlaveType, SlaveBecomes(d, s)
    PROVE  LinkInv'
<1>1. /\ mst' \in [Devices -> MasterType] /\ slv' \in [Devices -> SlaveType]
      /\ landed' \in [Devices -> RequestType \cup {NoRequest}]
  BY DEF LinkInv, TypeInv, SlaveBecomes
<1> QED  BY <1>1, HandlerKeepsLink, Zenon

LEMMA BlockKeepsLink ==
    ASSUME LinkInv, NEW d \in Devices, NEW S, NEW c, Handles(d, S, c), Leaves(d, c),
           UNCHANGED <<mst, slv, landed>>
    PROVE  LinkInv'
<1>1. /\ mst' \in [Devices -> MasterType] /\ slv' \in [Devices -> SlaveType]
      /\ landed' \in [Devices -> RequestType \cup {NoRequest}]
  BY DEF LinkInv, TypeInv
<1> QED  BY <1>1, HandlerKeepsLink, Zenon

LEMMA MasterHandlersKeepLink ==
    ASSUME LinkInv, NEW d \in Devices,
           \/ BusErrorSeen(d) \/ StartSent(d) \/ AddressAcked(d) \/ AddressRefused(d)
           \/ ByteAcked(d) \/ LastByteAcked(d) \/ ByteRefused(d) \/ ArbitrationLost(d)
           \/ ReadAddressAcked(d) \/ ByteReceived(d) \/ LastByteReceived(d)
    PROVE  LinkInv'
<1> USE DEF LinkInv
<1>1. /\ mst[d] \in MasterType /\ hw[d] \in BlockType /\ mst[d].write \in Seq(Nat)
      /\ request[d] \in RequestType \cup {NoRequest}
      /\ hw[d].sto \in BOOLEAN /\ hw[d].dat \in Nat
      /\ landed \in [Devices -> RequestType \cup {NoRequest}]
  BY Fields DEF MasterType, BlockType, TypeInv
<1>2. hw[d].sto => d \notin bus.contend
  BY DEF StopInv
<1>3. ASSUME NEW S, NEW c, Handles(d, S, c) PROVE hw[d].si /\ hw[d].stat \in S
  BY <1>3 DEF Handles
<1>4. ASSUME hw[d].si, hw[d].stat # 8 PROVE d \notin bus.contend
  BY <1>4, NameFacts DEF PhaseInv, EventInv, Outside, TypeInv, BusType, FreeBus
<1>5. ASSUME mst[d].write # <<>> PROVE Head(mst[d].write) \in Nat /\ Tail(mst[d].write) \in Seq(Nat)
  BY <1>1, <1>5
<1>6. ASSUME BusErrorSeen(d) PROVE LinkInv'
  <2>1. PICK c : c = StopAndAck(hw[d])  OBVIOUS
  <2>2. Handles(d, {0}, c) /\ UNCHANGED <<mst, slv, landed>>  BY <1>6, <2>1 DEF BusErrorSeen
  <2>3. Leaves(d, c)  BY <1>1, <1>3, <1>4, <2>1, <2>2, StopLeaves
  <2> QED  BY <2>2, <2>3, BlockKeepsLink, Zenon
<1>7. ASSUME StartSent(d) PROVE LinkInv'
  <2>1. PICK n \in Nat : n = mst[d].remote_i2c_addr + IF mst[d].operation = "READ" THEN 1 ELSE 0
    BY <1>1 DEF MasterType
  <2>2. PICK c : c = [hw[d] EXCEPT !.aa = TRUE, !.sta = FALSE, !.dat = n]  OBVIOUS
  <2>3. Handles(d, {8, 16}, c) /\ UNCHANGED <<mst, slv, landed>>
    BY <1>7, <2>1, <2>2 DEF StartSent
  <2>4. Leaves(d, c)  BY <1>1, <1>2, <2>2 DEF Leaves, BlockType, StopAndAck, Restart
  <2> QED  BY <2>3, <2>4, BlockKeepsLink, Zenon
<1>8. ASSUME AddressAcked(d) PROVE LinkInv'
  <2> DEFINE first == ~mst[d].should_send_devaddr /\ mst[d].write # <<>>
  <2>1. PICK n \in Nat : n = IF mst[d].should_send_devaddr THEN mst[d].remote_dev_addr
                             ELSE IF first THEN Head(mst[d].write) ELSE 0
    BY <1>1, <1>5 DEF MasterType
  <2>2. PICK c : c = [hw[d] EXCEPT !.aa = TRUE, !.dat = n]  OBVIOUS
  <2>3. PICK m : m = [mst[d] EXCEPT !.should_send_devaddr = FALSE,
                                    !.write = IF first THEN Tail(@) ELSE @]  OBVIOUS
  <2>4. Handles(d, {24}, c) /\ MasterBecomes(d, m) /\ UNCHANGED landed
    BY <1>8, <2>1, <2>2, <2>3 DEF AddressAcked
  <2>5. Leaves(d, c)  BY <1>1, <1>2, <2>2 DEF Leaves, BlockType, StopAndAck, Restart
  <2>6. m \in MasterType  BY <1>1, <1>5, <2>3 DEF MasterType
  <2>7. landed' \in [Devices -> RequestType \cup {NoRequest}]  BY <1>1, <2>4
  <2> QED  BY <2>4, <2>5, <2>6, <2>7, MasterKeepsLink, Zenon
<1>9. ASSUME AddressRefused(d) PROVE LinkInv'
  <2>1. PICK c : c = StopAndAck(hw[d])  OBVIOUS
  <2>2. PICK m : m = [mst[d] EXCEPT !.result = 1, !.operation = "NOP",
                                    !.write = <<>>, !.read_len = 0]  OBVIOUS
  <2>3. Handles(d, {32, 72}, c) /\ MasterBecomes(d, m) /\ UNCHANGED landed
    BY <1>9, <2>1, <2>2 DEF AddressRefused
  <2>4. Leaves(d, c)  BY <1>1, <1>3, <1>4, <2>1, <2>3, StopLeaves
  <2>5. m \in MasterType
    <3>1. PICK j \in MasterType : j = [mst[d] EXCEPT !.result = 1]  BY <1>1, MasterUpdates
    <3>2. PICK k \in MasterType : k = [j EXCEPT !.operation = "NOP"]  BY MasterUpdates
    <3>3. PICK l \in MasterType : l = [k EXCEPT !.write = <<>>]  BY MasterUpdates
    <3>4. m = [l EXCEPT !.read_len = 0]  BY <2>2, <3>1, <3>2, <3>3
    <3> QED  BY <3>4, MasterUpdates
  <2>6. landed' \in [Devices -> RequestType \cup {NoRequest}]  BY <1>1, <2>3
  <2> QED  BY <2>3, <2>4, <2>5, <2>6, MasterKeepsLink, Zenon
<1>10. ASSUME ByteAcked(d) PROVE LinkInv'
  <2>1. PICK n \in Nat : n = Head(mst[d].write)  BY <1>5, <1>10 DEF ByteAcked
  <2>2. PICK c : c = [hw[d] EXCEPT !.aa = TRUE, !.dat = n]  OBVIOUS
  <2>3. PICK m : m = [mst[d] EXCEPT !.write = Tail(@)]  OBVIOUS
  <2>4. Handles(d, {40}, c) /\ MasterBecomes(d, m) /\ UNCHANGED landed
    BY <1>10, <2>1, <2>2, <2>3 DEF ByteAcked
  <2>5. Leaves(d, c)  BY <1>1, <1>2, <2>2 DEF Leaves, BlockType, StopAndAck, Restart
  <2>6. m \in MasterType  BY <1>1, <1>5, <1>10, <2>3 DEF MasterType, ByteAcked
  <2>7. landed' \in [Devices -> RequestType \cup {NoRequest}]  BY <1>1, <2>4
  <2> QED  BY <2>4, <2>5, <2>6, <2>7, MasterKeepsLink, Zenon
<1>11. ASSUME LastByteAcked(d) PROVE LinkInv'
  <2>1. PICK c : c = StopAndAck(hw[d])  OBVIOUS
  <2>2. PICK m : m = [mst[d] EXCEPT !.operation = "NOP"]  OBVIOUS
  <2>3. Handles(d, {40}, c) /\ MasterBecomes(d, m)
    BY <1>11, <2>1, <2>2 DEF LastByteAcked
  <2>4. Leaves(d, c)  BY <1>1, <1>3, <1>4, <2>1, <2>3, StopLeaves
  <2>5. m \in MasterType  BY <1>1, <2>2 DEF MasterType, Operation
  <2>6. landed' \in [Devices -> RequestType \cup {NoRequest}]
    BY <1>1, <1>11 DEF LastByteAcked
  <2> QED  BY <2>3, <2>4, <2>5, <2>6, MasterKeepsLink, Zenon
<1>12. ASSUME ByteRefused(d) PROVE LinkInv'
  <2>1. PICK c : c = StopAndAck(hw[d])  OBVIOUS
  <2>2. PICK m : m = [mst[d] EXCEPT !.operation = "NOP"]  OBVIOUS
  <2>3. Handles(d, {48}, c) /\ MasterBecomes(d, m) /\ UNCHANGED landed
    BY <1>12, <2>1, <2>2 DEF ByteRefused
  <2>4. Leaves(d, c)  BY <1>1, <1>3, <1>4, <2>1, <2>3, StopLeaves
  <2>5. m \in MasterType  BY <1>1, <2>2 DEF MasterType, Operation
  <2>6. landed' \in [Devices -> RequestType \cup {NoRequest}]  BY <1>1, <2>3
  <2> QED  BY <2>3, <2>4, <2>5, <2>6, MasterKeepsLink, Zenon
<1>13. ASSUME ArbitrationLost(d) PROVE LinkInv'
  <2>1. PICK c : c = Restart(hw[d])  OBVIOUS
  <2>2. Handles(d, {56}, c) /\ UNCHANGED <<mst, slv, landed>>  BY <1>13, <2>1 DEF ArbitrationLost
  <2>3. Leaves(d, c)  BY <1>1, <1>2, <2>1 DEF Leaves, BlockType, StopAndAck, Restart
  <2> QED  BY <2>2, <2>3, BlockKeepsLink, Zenon
<1>14. ASSUME ReadAddressAcked(d) PROVE LinkInv'
  <2>1. PICK a \in BOOLEAN : a = (mst[d].read_len # 1)  OBVIOUS
  <2>2. PICK c : c = [hw[d] EXCEPT !.aa = a]  OBVIOUS
  <2>3. Handles(d, {64}, c) /\ UNCHANGED <<mst, slv, landed>>
    BY <1>14, <2>1, <2>2 DEF ReadAddressAcked
  <2>4. d = bus.owner /\ bus.phase = "read" /\ ~hw[d].sto
    BY <2>3 DEF Handles, EventInv, StopInv
  <2>5. Leaves(d, c)  BY <1>1, <1>2, <2>2, <2>4, AckLeaves
  <2> QED  BY <2>3, <2>5, BlockKeepsLink, Zenon
<1>15. ASSUME ByteReceived(d) PROVE LinkInv'
  <2>1. PICK a \in BOOLEAN : a = MoreAfter(mst[d].read_len - 1)
    <3>1. MoreAfter(mst[d].read_len - 1) \in BOOLEAN  BY DEF MoreAfter
    <3> QED  BY <3>1
  <2>2. PICK c : c = [hw[d] EXCEPT !.aa = a]  OBVIOUS
  <2>3. PICK m : m = [mst[d] EXCEPT !.buf = Append(@, hw[d].dat), !.read_len = @ - 1]  OBVIOUS
  <2>4. Handles(d, {80}, c) /\ MasterBecomes(d, m) /\ UNCHANGED landed
    BY <1>15, <2>1, <2>2, <2>3 DEF ByteReceived
  <2>5. d = bus.owner /\ bus.phase = "read" /\ ~hw[d].sto
    BY <2>4 DEF Handles, EventInv, StopInv
  <2>6. Leaves(d, c)  BY <1>1, <1>2, <2>2, <2>5, AckLeaves
  <2>7. m \in MasterType
    <3>1. Append(mst[d].buf, hw[d].dat) \in Seq(Nat)  BY <1>1 DEF MasterType
    <3>2. PICK k : k = [mst[d] EXCEPT !.buf = Append(@, hw[d].dat)]  OBVIOUS
    <3>3. k \in MasterType  BY <1>1, <3>1, <3>2 DEF MasterType
    <3>4. m = [k EXCEPT !.read_len = @ - 1]  BY <1>1, <2>3, <3>2 DEF MasterType
    <3> QED  BY <3>3, <3>4 DEF MasterType
  <2>8. landed' \in [Devices -> RequestType \cup {NoRequest}]  BY <1>1, <2>4
  <2> QED  BY <2>4, <2>6, <2>7, <2>8, MasterKeepsLink, Zenon
<1>16. ASSUME LastByteReceived(d) PROVE LinkInv'
  <2>1. PICK c : c = StopAndAck(hw[d])  OBVIOUS
  <2>2. PICK m : m = [mst[d] EXCEPT !.buf = Append(@, hw[d].dat), !.operation = "NOP"]  OBVIOUS
  <2>3. Handles(d, {88}, c) /\ MasterBecomes(d, m) /\ UNCHANGED landed
    BY <1>16, <2>1, <2>2 DEF LastByteReceived, StopAfterRead
  <2>4. Leaves(d, c)  BY <1>1, <1>3, <1>4, <2>1, <2>3, StopLeaves
  <2>5. m \in MasterType
    <3>1. Append(mst[d].buf, hw[d].dat) \in Seq(Nat)  BY <1>1 DEF MasterType
    <3> QED  BY <1>1, <2>2, <3>1 DEF MasterType, Operation
  <2>6. landed' \in [Devices -> RequestType \cup {NoRequest}]  BY <1>1, <2>3
  <2> QED  BY <2>3, <2>4, <2>5, <2>6, MasterKeepsLink, Zenon
<1> QED  BY <1>6, <1>7, <1>8, <1>9, <1>10, <1>11, <1>12, <1>13, <1>14, <1>15, <1>16

\* AA set, a byte in the data register, or nothing but the interrupt cleared.
LEMMA SlaveLeaves ==
    ASSUME NEW d, hw[d] \in BlockType, d \notin bus.contend, NEW c,
           \/ c = [hw[d] EXCEPT !.aa = TRUE]
           \/ hw[d].aa /\ \E n \in Nat : c = [hw[d] EXCEPT !.dat = n]
    PROVE  Leaves(d, c)
<1>1. PICK h \in BlockType : h = hw[d]  OBVIOUS
<1>2. LET k == [h EXCEPT !.aa = TRUE] IN k \in BlockType /\ k.aa
  BY DEF BlockType
<1>3. ASSUME NEW n \in Nat, h.aa
      PROVE  LET k == [h EXCEPT !.dat = n] IN k \in BlockType /\ k.aa
  BY <1>3 DEF BlockType
<1> QED  BY <1>1, <1>2, <1>3 DEF Leaves

LEMMA StoreTyped ==
    ASSUME NEW s \in SlaveType, NEW n \in Nat
    PROVE  [Store(s, n) EXCEPT !.addr = AfterWrite(s.addr)] \in SlaveType
<1>1. AfterWrite(s.addr) \in Nat  BY SizeAssumption DEF AfterWrite, SlaveType
<1>2. Store(s, n) \in SlaveType
  <2>1. CASE s.addr < MmapSize
    <3>1. PICK t : t = [s.tmp EXCEPT ![s.addr] = n]  OBVIOUS
    <3>2. t \in Registers  BY <3>1, <2>1 DEF SlaveType, Registers
    <3>3. Store(s, n) = [s EXCEPT !.tmp = t]  BY <2>1, <3>1 DEF Store, SlaveType
    <3> QED  BY <3>2, <3>3 DEF SlaveType
  <2>2. CASE ~(s.addr < MmapSize)
    BY <2>2 DEF Store, SlaveType
  <2> QED  BY <2>1, <2>2
<1> QED  BY <1>1, <1>2 DEF SlaveType

LEMMA FlushTyped ==
    ASSUME NEW s \in SlaveType
    PROVE  Flush(s) \in SlaveType
<1>1. PICK t : t = [i \in DOMAIN s.mmap |-> IF i \in Flushed(s) THEN s.tmp[i] ELSE s.mmap[i]]
  OBVIOUS
<1>2. t \in Registers  BY <1>1 DEF SlaveType, Registers
<1>3. PICK k : k = [s EXCEPT !.mmap = t]  OBVIOUS
<1>4. k \in SlaveType /\ s.addr \in Nat  BY <1>2, <1>3 DEF SlaveType
<1>5. Flush(s) = [k EXCEPT !.addr_start = s.addr]  BY <1>1, <1>3 DEF Flush
<1> QED  BY <1>4, <1>5 DEF SlaveType

LEMMA SlaveHandlersKeepLink ==
    ASSUME LinkInv, NEW d \in Devices,
           \/ AddressedToWrite(d) \/ RegisterReceived(d) \/ DataReceived(d)
           \/ StopSeen(d) \/ SendRegister(d) \/ Released(d)
    PROVE  LinkInv'
<1> USE DEF LinkInv
<1>1. /\ hw[d] \in BlockType /\ hw[d].dat \in Nat
      /\ slv[d] \in SlaveType /\ slv[d].addr \in Nat
  BY Fields DEF BlockType, SlaveType
<1>2. ASSUME hw[d].si, hw[d].stat # 8 PROVE d \notin bus.contend
  BY <1>2, NameFacts DEF PhaseInv, EventInv, Outside, TypeInv, BusType, FreeBus
<1>3. ASSUME hw[d].si, hw[d].stat \in {168, 176, 184} PROVE hw[d].aa
  BY <1>3, NameFacts DEF PhaseInv, EventInv, AckInv
<1>4. ASSUME AddressedToWrite(d) PROVE LinkInv'
  <2>1. PICK c : c = [hw[d] EXCEPT !.aa = TRUE]  OBVIOUS
  <2>2. PICK s : s = IF hw[d].stat = 96
           THEN [slv[d] EXCEPT !.operation = "WRITE", !.addr_start = slv[d].addr,
                               !.waiting_addr = TRUE]
           ELSE [slv[d] EXCEPT !.waiting_addr = TRUE]  OBVIOUS
  <2>3. Handles(d, {96, 104}, c) /\ SlaveBecomes(d, s)
    BY <1>4, <2>1, <2>2 DEF AddressedToWrite
  <2>4. Leaves(d, c)  BY <1>1, <1>2, <2>1, <2>3, SlaveLeaves DEF Handles
  <2>5. s \in SlaveType  BY <1>1, <2>2 DEF SlaveType, Operation
  <2> QED  BY <2>3, <2>4, <2>5, SlaveKeepsLink, Zenon
<1>5. ASSUME RegisterReceived(d) PROVE LinkInv'
  <2>1. PICK c : c = [hw[d] EXCEPT !.aa = TRUE]  OBVIOUS
  <2>2. PICK s : s = [slv[d] EXCEPT !.waiting_addr = FALSE, !.addr = hw[d].dat,
                                    !.addr_start = hw[d].dat]  OBVIOUS
  <2>3. Handles(d, {128}, c) /\ SlaveBecomes(d, s)
    BY <1>5, <2>1, <2>2 DEF RegisterReceived
  <2>4. Leaves(d, c)  BY <1>1, <1>2, <2>1, <2>3, SlaveLeaves DEF Handles
  <2>5. s \in SlaveType  BY <1>1, <2>2 DEF SlaveType
  <2> QED  BY <2>3, <2>4, <2>5, SlaveKeepsLink, Zenon
<1>6. ASSUME DataReceived(d) PROVE LinkInv'
  <2>1. PICK c : c = [hw[d] EXCEPT !.aa = TRUE]  OBVIOUS
  <2>2. PICK s : s = [Store(slv[d], hw[d].dat) EXCEPT !.addr = AfterWrite(slv[d].addr)]  OBVIOUS
  <2>3. s \in SlaveType  BY <1>1, <2>2, StoreTyped
  <2>4. s = [Store(slv[d], hw[d].dat) EXCEPT !.addr = AfterWrite(@)]
    <3>1. Store(slv[d], hw[d].dat).addr = slv[d].addr  BY <1>1 DEF Store, SlaveType
    <3> QED  BY <2>2, <3>1
  <2>5. Handles(d, {128}, c) /\ SlaveBecomes(d, s)
    BY <1>6, <2>1, <2>4 DEF DataReceived
  <2>6. Leaves(d, c)  BY <1>1, <1>2, <2>1, <2>5, SlaveLeaves DEF Handles
  <2> QED  BY <2>3, <2>5, <2>6, SlaveKeepsLink, Zenon
<1>7. ASSUME StopSeen(d) PROVE LinkInv'
  <2>1. PICK c : c = [hw[d] EXCEPT !.aa = TRUE]  OBVIOUS
  <2>2. PICK s : s = IF slv[d].operation = "WRITE" THEN Flush(slv[d]) ELSE slv[d]  OBVIOUS
  <2>3. Handles(d, {160}, c) /\ SlaveBecomes(d, s)
    BY <1>7, <2>1, <2>2 DEF StopSeen
  <2>4. Leaves(d, c)  BY <1>1, <1>2, <2>1, <2>3, SlaveLeaves DEF Handles
  <2>5. s \in SlaveType  BY <1>1, <2>2, FlushTyped
  <2> QED  BY <2>3, <2>4, <2>5, SlaveKeepsLink, Zenon
<1>8. ASSUME SendRegister(d) PROVE LinkInv'
  <2>1. PICK n \in Nat : n = IF slv[d].addr < MmapSize THEN slv[d].mmap[slv[d].addr] ELSE slv[d].tmp[0]
    BY <1>1, SizeAssumption DEF SlaveType, Registers
  <2>2. PICK c : c = [hw[d] EXCEPT !.dat = n]  OBVIOUS
  <2>3. PICK s : s = [slv[d] EXCEPT !.addr = AfterRead(@),
                             !.operation = IF hw[d].stat = 168 THEN "READ" ELSE @]  OBVIOUS
  <2>4. Handles(d, {168, 184}, c) /\ SlaveBecomes(d, s)
    BY <1>8, <2>1, <2>2, <2>3 DEF SendRegister
  <2>5. Leaves(d, c)  BY <1>1, <1>2, <1>3, <2>2, <2>4, SlaveLeaves DEF Handles
  <2>6. s \in SlaveType
    <3>1. AfterRead(slv[d].addr) \in Nat  BY <1>1, SizeAssumption DEF AfterRead
    <3> QED  BY <1>1, <2>3, <3>1 DEF SlaveType, Operation
  <2> QED  BY <2>4, <2>5, <2>6, SlaveKeepsLink, Zenon
<1>9. ASSUME Released(d) PROVE LinkInv'
  <2>1. PICK c : c = [hw[d] EXCEPT !.aa = (hw[d].stat # 176 \/ @)]  OBVIOUS
  <2>2. Handles(d, {136, 192, 200, 176}, c) /\ UNCHANGED <<mst, slv, landed>>
    BY <1>9, <2>1 DEF Released
  <2>3. hw[d].stat # 176 \/ hw[d].aa = TRUE
    BY <1>1, <1>3, <2>2 DEF Handles, BlockType
  <2>4. c = [hw[d] EXCEPT !.aa = TRUE]
    BY <1>1, <2>1, <2>3 DEF BlockType
  <2>5. Leaves(d, c)  BY <1>1, <1>2, <2>2, <2>4, SlaveLeaves DEF Handles
  <2> QED  BY <2>2, <2>5, BlockKeepsLink, Zenon
<1> QED  BY <1>4, <1>5, <1>6, <1>7, <1>8, <1>9

LEMMA IrqKeepsLink ==
    ASSUME LinkInv, NEW d \in Devices, Irq(d)
    PROVE  LinkInv'
BY MasterHandlersKeepLink, SlaveHandlersKeepLink DEF Irq

LEMMA ProgramKeepsLink ==
    ASSUME LinkInv, NEW d \in Devices, Program(d)
    PROVE  LinkInv'
<1> USE DEF LinkInv
<1>1. PICK r \in Requests[d] : \E m : /\ Start(d, r, m)
                                      /\ \/ m = [mst[d] EXCEPT !.write = r.p]
                                         \/ m = [mst[d] EXCEPT !.read_len = r.len, !.buf = <<>>]
  BY DEF Program, i2c_start_write, i2c_start_read
<1>2. PICK m : /\ Start(d, r, m)
               /\ \/ m = [mst[d] EXCEPT !.write = r.p]
                  \/ m = [mst[d] EXCEPT !.read_len = r.len, !.buf = <<>>]
  BY <1>1
<1>3. r \in RequestType /\ mst[d] \in MasterType /\ hw[d] \in BlockType
  BY RequestAssumption, Fields
<1>4. m \in MasterType
  <2>1. CASE m = [mst[d] EXCEPT !.write = r.p]
    BY <1>3, <2>1 DEF MasterType, RequestType
  <2>2. CASE m = [mst[d] EXCEPT !.read_len = r.len, !.buf = <<>>]
    <3>1. PICK j : j = [mst[d] EXCEPT !.read_len = r.len]  OBVIOUS
    <3>4. r.len \in Int  BY <1>3 DEF RequestType
    <3>2. j \in MasterType  BY <1>3, <3>1, <3>4 DEF MasterType
    <3>3. m = [j EXCEPT !.buf = <<>>] /\ <<>> \in Seq(Nat)  BY <2>2, <3>1
    <3> QED  BY <3>2, <3>3 DEF MasterType
  <2> QED  BY <1>2, <2>1, <2>2
<1>5. PICK k : k = [m EXCEPT !.remote_i2c_addr = AddressOf(r.tgt), !.result = 0,
                   !.operation = r.kind,
                   !.remote_dev_addr = IF r.dev >= 0 THEN r.dev ELSE @,
                   !.should_send_devaddr = (r.dev >= 0)]
  OBVIOUS
<1>6. k \in MasterType
  <2>1. AddressOf(r.tgt) \in Nat  BY <1>3, AddressOfNat DEF RequestType
  <2>2. PICK i : i = [m EXCEPT !.remote_i2c_addr = AddressOf(r.tgt), !.result = 0]  OBVIOUS
  <2>3. i \in MasterType /\ i.remote_dev_addr = m.remote_dev_addr
    <3>1. PICK j : j = [m EXCEPT !.remote_i2c_addr = AddressOf(r.tgt)]  OBVIOUS
    <3>2. j \in MasterType /\ j.remote_dev_addr = m.remote_dev_addr
      BY <1>4, <2>1, <3>1 DEF MasterType
    <3>3. i = [j EXCEPT !.result = 0] /\ 0 \in 0 .. 1  BY <2>2, <3>1
    <3> QED  BY <3>2, <3>3 DEF MasterType
  <2>4. r.kind \in Operation /\ (r.dev >= 0) \in BOOLEAN
    BY <1>3 DEF Operation, RequestType
  <2>5. PICK j : j = [i EXCEPT !.operation = r.kind, !.should_send_devaddr = (r.dev >= 0)]  OBVIOUS
  <2>6. j \in MasterType /\ j.remote_dev_addr = m.remote_dev_addr
    BY <2>3, <2>4, <2>5 DEF MasterType
  <2>7. PICK n : n = IF r.dev >= 0 THEN r.dev ELSE m.remote_dev_addr  OBVIOUS
  <2>8. n \in Nat  BY <1>3, <1>4, <2>7 DEF MasterType, RequestType
  <2>9. k = [j EXCEPT !.remote_dev_addr = n]
    BY <1>4, <1>5, <2>2, <2>5, <2>7 DEF MasterType
  <2> QED  BY <2>6, <2>8, <2>9 DEF MasterType
<1>7. PICK c : c = [hw[d] EXCEPT !.sta = TRUE]  OBVIOUS
<1>8. /\ c \in BlockType /\ c.si = hw[d].si /\ c.sto = hw[d].sto /\ c.aa = hw[d].aa
      /\ c.stat = hw[d].stat
  BY <1>3, <1>7 DEF BlockType
<1>9. /\ hw' = [hw EXCEPT ![d] = c] /\ mst' = [mst EXCEPT ![d] = k]
      /\ request' = [request EXCEPT ![d] = r] /\ started' = [started EXCEPT ![d] = @ + 1]
      /\ expect' = [expect EXCEPT ![d] = <<>>] /\ UNCHANGED <<slv, bus, errors, wire, landed>>
  <2>1. hw' = [hw EXCEPT ![d].sta = TRUE]  BY <1>2 DEF Start
  <2>2. hw' = [hw EXCEPT ![d] = c]  BY <2>1, <1>7 DEF TypeInv
  <2> QED  BY <1>2, <1>5, <2>2 DEF Start
<1>10. TypeInv'
  <2>1. <<>> \in Seq(Nat)  OBVIOUS
  <2>2. started' \in [Devices -> Nat]  BY <1>9 DEF TypeInv
  <2>3. request' \in [Devices -> RequestType \cup {NoRequest}]  BY <1>3, <1>9 DEF TypeInv
  <2>4. expect' \in [Devices -> Seq(Nat)]  BY <1>9, <2>1 DEF TypeInv
  <2>5. hw' \in [Devices -> BlockType] /\ mst' \in [Devices -> MasterType]
    BY <1>6, <1>8, <1>9 DEF TypeInv
  <2> QED  BY <1>9, <2>2, <2>3, <2>4, <2>5 DEF TypeInv
<1>11. \A e \in Devices : /\ hw'[e].si = hw[e].si /\ hw'[e].sto = hw[e].sto
                          /\ hw'[e].aa = hw[e].aa /\ hw'[e].stat = hw[e].stat
  BY <1>8, <1>9 DEF TypeInv
<1>12. PhaseInv' /\ EventInv'
  BY <1>9, <1>11 DEF PhaseInv, EventInv, Outside, FreeBus
<1>13. StopInv' /\ AckInv'
  BY <1>9, <1>11 DEF StopInv, AckInv
<1> QED  BY <1>10, <1>12, <1>13

-----------------------------------------------------------------------------
(* LinkInv is inductive: the bus.                                          *)

LEMMA EventTyped ==
    ASSUME NEW h \in BlockType, NEW n \in Nat
    PROVE  LET k == Event(h, n)
           IN /\ k \in BlockType /\ k.stat = n /\ k.si /\ k.sto = h.sto /\ k.aa = h.aa
              /\ k.sta = h.sta /\ k.dat = h.dat
<1>1. PICK j : j = [h EXCEPT !.stat = n]  OBVIOUS
<1>2. /\ j \in BlockType /\ j.stat = n /\ j.sto = h.sto /\ j.aa = h.aa
      /\ j.sta = h.sta /\ j.dat = h.dat
  BY <1>1 DEF BlockType
<1>3. Event(h, n) = [j EXCEPT !.si = TRUE]  BY <1>1 DEF Event
<1> QED  BY <1>2, <1>3 DEF BlockType

\* What the bus did to the block of device d: nothing, an event (perhaps with a
\* byte), or the end of its STOP.
Struck(d, n) == \E b \in Nat : hw'[d] = Event([hw[d] EXCEPT !.dat = b], n)

LEMMA StruckFields ==
    ASSUME NEW d, hw[d] \in BlockType, NEW n \in Nat, Struck(d, n)
    PROVE  /\ hw'[d] \in BlockType /\ hw'[d].stat = n /\ hw'[d].si /\ hw'[d].sto = hw[d].sto
           /\ hw'[d].aa = hw[d].aa /\ hw'[d].sta = hw[d].sta
<1>1. PICK b \in Nat : hw'[d] = Event([hw[d] EXCEPT !.dat = b], n)  BY DEF Struck
<1>2. PICK g \in BlockType : g = hw[d]  OBVIOUS
<1>3. PICK h : h = [g EXCEPT !.dat = b]  OBVIOUS
<1>4. h \in BlockType /\ h.sto = g.sto /\ h.aa = g.aa /\ h.sta = g.sta
  BY <1>3 DEF BlockType
<1>5. hw'[d] = Event(h, n)  BY <1>1, <1>2, <1>3
<1>6. LET k == Event(h, n)
      IN k \in BlockType /\ k.stat = n /\ k.si /\ k.sto = h.sto /\ k.aa = h.aa /\ k.sta = h.sta
  BY <1>4, EventTyped
<1> QED  BY <1>2, <1>4, <1>5, <1>6

LEMMA BusStartKeepsLink ==
    ASSUME LinkInv, BusStart
    PROVE  LinkInv'
<1> USE DEF LinkInv
<1>1. PICK C \in SUBSET {d \in Devices : hw[d].sta /\ ~hw[d].sto /\ ~hw[d].si} :
         /\ C # {}
         /\ hw' = [d \in Devices |-> IF d \in C THEN Event(hw[d], 8) ELSE hw[d]]
         /\ bus' = [FreeBus EXCEPT !.phase = "address", !.contend = C]
  BY DEF BusStart
<1>2. /\ bus'.phase = "address" /\ bus'.owner = None /\ bus'.target = None /\ bus'.contend = C
      /\ bus = FreeBus
  BY <1>1 DEF FreeBus, BusStart, PhaseInv
<1>3. \A d \in Devices : hw[d] \in BlockType  BY Fields
<1>4. \A d \in C : /\ d \in Devices /\ hw'[d] \in BlockType /\ hw'[d].stat = 8 /\ hw'[d].si
                   /\ ~hw'[d].sto /\ hw'[d].aa = hw[d].aa
  BY <1>1, <1>3, EventTyped
<1>5. \A d \in Devices \ C : hw'[d] = hw[d]  BY <1>1
<1>6. TypeInv'
  <2>1. hw' \in [Devices -> BlockType]  BY <1>1, <1>3, <1>4, <1>5
  <2>2. bus' \in BusType  BY <1>1 DEF BusType, FreeBus
  <2> QED  BY <2>1, <2>2 DEF TypeInv, BusStart, BusUnchanged
<1>7. PhaseInv'  BY <1>1, <1>2 DEF PhaseInv
<1>8. EventInv'
  BY <1>2, <1>4, <1>5, NameFacts DEF EventInv, Outside, FreeBus
<1>9. StopInv'
  BY <1>2, <1>4, <1>5, NameFacts DEF StopInv, FreeBus
<1>10. AckInv'
  BY <1>1, <1>2, <1>4, <1>5, NameFacts DEF AckInv, FreeBus
<1> QED  BY <1>6, <1>7, <1>8, <1>9, <1>10

\* A transfer between two bytes.
LEMMA TransferringFacts ==
    ASSUME TypeInv, PhaseInv, NEW phase \in {"write", "read"}, Transferring(phase)
    PROVE  /\ bus.owner \in Devices /\ ~hw[bus.owner].si /\ ~hw[bus.owner].sto
           /\ bus.target \in Devices \cup {Chip} /\ bus.target # bus.owner /\ bus.contend = {}
           /\ bus.target \in Devices => ~hw[bus.target].si
<1>1. bus.owner \in Devices /\ bus.target # None /\ bus.contend = {} /\ bus.target # bus.owner
  BY NameFacts DEF PhaseInv, Transferring
<1> QED  BY <1>1 DEF Transferring, Quiet, TypeInv, BusType

LEMMA BusWriteByteKeepsLink ==
    ASSUME LinkInv, BusWriteByte
    PROVE  LinkInv'
<1> USE DEF LinkInv
<1>1. PICK byte : byte = hw[bus.owner].dat  OBVIOUS
<1>2. PICK ack \in BOOLEAN :
        /\ hw' = [d \in Devices |->
             CASE d = bus.owner  -> Event(hw[d], IF ack THEN 40 ELSE 48)
               [] d = bus.target -> Event([hw[d] EXCEPT !.dat = byte], IF ack THEN 128 ELSE 136)
               [] OTHER -> hw[d]]
        /\ wire' = [d \in Devices |-> IF d = bus.target THEN Append(wire[d], byte) ELSE wire[d]]
  BY <1>1 DEF BusWriteByte
<1>3. /\ bus.owner \in Devices /\ ~hw[bus.owner].si /\ ~hw[bus.owner].sto
      /\ bus.target \in Devices \cup {Chip} /\ bus.target # bus.owner /\ bus.contend = {}
      /\ bus.target \in Devices => ~hw[bus.target].si
      /\ bus.phase = "write" /\ bus' = bus
  BY TransferringFacts DEF BusWriteByte, Transferring
<1>4. \A d \in Devices : hw[d] \in BlockType  BY Fields
<1>5. byte \in Nat  BY <1>1, <1>3, <1>4 DEF BlockType
<1>6. /\ hw'[bus.owner] \in BlockType /\ hw'[bus.owner].stat \in {40, 48} /\ hw'[bus.owner].si
      /\ ~hw'[bus.owner].sto /\ hw'[bus.owner].aa = hw[bus.owner].aa
  <2>1. hw'[bus.owner] = Event(hw[bus.owner], IF ack THEN 40 ELSE 48)  BY <1>2, <1>3
  <2> QED  BY <2>1, <1>3, <1>4, EventTyped
<1>7. ASSUME bus.target \in Devices
      PROVE  /\ hw'[bus.target] \in BlockType /\ hw'[bus.target].stat \in {128, 136}
             /\ hw'[bus.target].si /\ hw'[bus.target].sto = hw[bus.target].sto
             /\ hw'[bus.target].aa = hw[bus.target].aa
  <2>1. PICK n \in {128, 136} : n = IF ack THEN 128 ELSE 136  OBVIOUS
  <2>2. hw'[bus.target] = Event([hw[bus.target] EXCEPT !.dat = byte], n)
    BY <1>2, <1>3, <1>7, <2>1
  <2> QED  BY <1>4, <1>5, <1>7, <2>1, <2>2, StruckFields DEF Struck
<1>8. \A d \in Devices \ {bus.owner, bus.target} : hw'[d] = hw[d]  BY <1>2
<1>9. TypeInv'
  <2>1. hw' \in [Devices -> BlockType]
    <3>1. \A d \in Devices : hw'[d] \in BlockType  BY <1>4, <1>6, <1>7, <1>8
    <3> QED  BY <1>2, <3>1
  <2>2. wire' \in [Devices -> Seq(Nat)]
    <3>1. \A d \in Devices : Append(wire[d], byte) \in Seq(Nat)  BY <1>5, Fields
    <3> QED  BY <1>2, <3>1, Fields
  <2> QED  BY <1>3, <2>1, <2>2 DEF TypeInv, BusWriteByte, BusUnchanged
<1>10. PhaseInv'  BY <1>3 DEF PhaseInv, FreeBus
<1>11. EventInv'
  BY <1>3, <1>6, <1>7, <1>8 DEF EventInv, Outside
<1>12. StopInv'
  BY <1>3, <1>6, <1>7, <1>8 DEF StopInv
<1>13. AckInv'
  BY <1>3, <1>6, <1>7, <1>8 DEF AckInv
<1> QED  BY <1>9, <1>10, <1>11, <1>12, <1>13

LEMMA BusReadByteKeepsLink ==
    ASSUME LinkInv, BusReadByte
    PROVE  LinkInv'
<1> USE DEF LinkInv
<1>1. PICK ack : ack = hw[bus.owner].aa  OBVIOUS
<1>2. PICK byte : byte = IF bus.target = Chip THEN 0 ELSE hw[bus.target].dat  OBVIOUS
<1>3. hw' = [d \in Devices |->
            CASE d = bus.owner -> Event([hw[d] EXCEPT !.dat = byte], IF ack THEN 80 ELSE 88)
              [] d = bus.target -> Event(hw[d], IF ack THEN 184 ELSE 192)
              [] OTHER -> hw[d]]
  BY <1>1, <1>2 DEF BusReadByte
<1>4. /\ bus.owner \in Devices /\ ~hw[bus.owner].si /\ ~hw[bus.owner].sto
      /\ bus.target \in Devices \cup {Chip} /\ bus.target # bus.owner /\ bus.contend = {}
      /\ bus.target \in Devices => ~hw[bus.target].si
      /\ bus.phase = "read" /\ bus' = bus
  BY TransferringFacts DEF BusReadByte, Transferring
<1>5. \A d \in Devices : hw[d] \in BlockType  BY Fields
<1>6. byte \in Nat  BY <1>2, <1>4, <1>5 DEF BlockType
<1>7. /\ hw'[bus.owner] \in BlockType /\ hw'[bus.owner].stat \in {80, 88} /\ hw'[bus.owner].si
      /\ ~hw'[bus.owner].sto /\ hw'[bus.owner].aa = hw[bus.owner].aa
  <2>1. PICK n \in {80, 88} : n = IF ack THEN 80 ELSE 88  OBVIOUS
  <2>2. hw'[bus.owner] = Event([hw[bus.owner] EXCEPT !.dat = byte], n)
    BY <1>3, <1>4, <2>1
  <2> QED  BY <1>4, <1>5, <1>6, <2>1, <2>2, StruckFields DEF Struck
<1>8. ASSUME bus.target \in Devices
      PROVE  /\ hw'[bus.target] \in BlockType /\ hw'[bus.target].stat \in {184, 192}
             /\ hw'[bus.target].si /\ hw'[bus.target].sto = hw[bus.target].sto
             /\ hw'[bus.target].aa = hw[bus.target].aa
  <2>1. hw'[bus.target] = Event(hw[bus.target], IF ack THEN 184 ELSE 192)
    BY <1>3, <1>4, <1>8
  <2> QED  BY <2>1, <1>5, <1>8, EventTyped
<1>9. \A d \in Devices \ {bus.owner, bus.target} : hw'[d] = hw[d]  BY <1>3
<1>10. TypeInv'
  <2>1. hw' \in [Devices -> BlockType]
    <3>1. \A d \in Devices : hw'[d] \in BlockType  BY <1>5, <1>7, <1>8, <1>9
    <3> QED  BY <1>3, <3>1
  <2> QED  BY <1>4, <2>1 DEF TypeInv, BusReadByte, BusUnchanged
<1>11. PhaseInv'  BY <1>4 DEF PhaseInv, FreeBus
<1>12. EventInv'
  BY <1>4, <1>7, <1>8, <1>9 DEF EventInv, Outside
<1>13. StopInv'
  BY <1>4, <1>7, <1>8, <1>9 DEF StopInv
<1>14. AckInv'
  BY <1>4, <1>7, <1>8, <1>9 DEF AckInv
<1> QED  BY <1>10, <1>11, <1>12, <1>13, <1>14

LEMMA BusStopKeepsLink ==
    ASSUME LinkInv, BusStop
    PROVE  LinkInv'
<1> USE DEF LinkInv
<1>1. /\ hw' = [d \in Devices |->
             CASE d = bus.owner -> [hw[d] EXCEPT !.sto = FALSE]
               [] d = bus.target /\ bus.phase = "write" -> Event(hw[d], 160)
               [] OTHER -> hw[d]]
      /\ bus' = FreeBus /\ hw[bus.owner].sto
  BY DEF BusStop
<1>2. /\ bus.owner \in Devices /\ ~hw[bus.owner].si /\ bus.target # bus.owner /\ bus.contend = {}
      /\ bus.target \in Devices => ~hw[bus.target].si
  BY NameFacts DEF BusStop, Quiet, TypeInv, BusType, PhaseInv, FreeBus
<1>3. \A d \in Devices : hw[d] \in BlockType  BY Fields
<1>4. /\ hw'[bus.owner] \in BlockType /\ ~hw'[bus.owner].si /\ ~hw'[bus.owner].sto
      /\ hw'[bus.owner].aa
  <2>1. hw'[bus.owner] = [hw[bus.owner] EXCEPT !.sto = FALSE]  BY <1>1, <1>2
  <2>2. PICK h \in BlockType : h = hw[bus.owner]  BY <1>2, <1>3
  <2>3. LET k == [h EXCEPT !.sto = FALSE]
        IN k \in BlockType /\ k.si = h.si /\ k.aa = h.aa /\ ~k.sto
    BY DEF BlockType
  <2>4. hw[bus.owner].aa  BY <1>1, <1>2 DEF StopInv
  <2> QED  BY <1>2, <2>1, <2>2, <2>3, <2>4
<1>5. ASSUME NEW d \in Devices, d # bus.owner
      PROVE  /\ hw'[d] \in BlockType /\ hw'[d].aa = hw[d].aa /\ hw'[d].sto = hw[d].sto
             /\ hw'[d] = hw[d] \/ (d = bus.target /\ hw'[d].stat = 160)
  <2>1. CASE d = bus.target /\ bus.phase = "write"
    <3>1. hw'[d] = Event(hw[d], 160)  BY <1>1, <1>5, <2>1
    <3> QED  BY <1>3, <2>1, <3>1, EventTyped
  <2>2. CASE ~(d = bus.target /\ bus.phase = "write")
    <3>1. hw'[d] = hw[d]  BY <1>1, <1>5, <2>2
    <3> QED  BY <1>3, <3>1
  <2> QED  BY <2>1, <2>2
<1>6. TypeInv'
  <2>1. hw' \in [Devices -> BlockType]
    <3>1. \A d \in Devices : hw'[d] \in BlockType  BY <1>4, <1>5
    <3> QED  BY <1>1, <3>1
  <2>2. bus' \in BusType  BY <1>1 DEF BusType, FreeBus
  <2> QED  BY <2>1, <2>2 DEF TypeInv, BusStop, BusUnchanged
<1>7. PhaseInv'  BY <1>1 DEF PhaseInv, FreeBus
<1>8. EventInv'
  <2> SUFFICES ASSUME NEW d \in Devices, hw'[d].si
               PROVE  hw'[d].stat \in {0, 56, 160}
    BY <1>1, NameFacts DEF EventInv, Outside, FreeBus
  <2>1. d # bus.owner  BY <1>4
  <2>2. CASE hw'[d] = hw[d]
    BY <1>2, <2>1, <2>2 DEF EventInv
  <2>3. CASE hw'[d].stat = 160
    BY <2>3
  <2> QED  BY <1>5, <2>1, <2>2, <2>3
<1>9. StopInv'
  BY <1>1, <1>4, <1>5, NameFacts DEF StopInv, FreeBus
<1>10. AckInv'
  BY <1>2, <1>4, <1>5 DEF AckInv
<1> QED  BY <1>6, <1>7, <1>8, <1>9, <1>10

LEMMA BusErrorKeepsLink ==
    ASSUME LinkInv, BusError
    PROVE  LinkInv'
<1> USE DEF LinkInv
<1>1. /\ hw' = [d \in Devices |->
            IF d \in {bus.owner, bus.target} THEN Event(hw[d], 0) ELSE hw[d]]
      /\ bus' = FreeBus
  BY DEF BusError
<1>2. /\ bus.owner \in Devices /\ ~hw[bus.owner].si /\ ~hw[bus.owner].sto
      /\ bus.target \in Devices \cup {Chip} /\ bus.target # bus.owner /\ bus.contend = {}
      /\ bus.target \in Devices => ~hw[bus.target].si
  BY TransferringFacts DEF BusError
<1>3. \A d \in Devices : hw[d] \in BlockType  BY Fields
<1>4. ASSUME NEW d \in Devices
      PROVE  /\ hw'[d] \in BlockType /\ hw'[d].aa = hw[d].aa /\ hw'[d].sto = hw[d].sto
             /\ hw'[d].si = (d \in {bus.owner, bus.target} \/ hw[d].si)
             /\ d \in {bus.owner, bus.target} => hw'[d].stat = 0
             /\ d \notin {bus.owner, bus.target} => hw'[d] = hw[d]
  <2>1. CASE d \in {bus.owner, bus.target}
    <3>1. hw'[d] = Event(hw[d], 0)  BY <1>1, <2>1
    <3>2. PICK h \in BlockType : h = hw[d]  BY <1>3
    <3>3. Event(h, 0).si = TRUE /\ Event(h, 0) \in BlockType /\ Event(h, 0).stat = 0
          /\ Event(h, 0).sto = h.sto /\ Event(h, 0).aa = h.aa
      BY EventTyped DEF BlockType
    <3> QED  BY <2>1, <3>1, <3>2, <3>3
  <2>2. CASE d \notin {bus.owner, bus.target}
    <3>1. hw'[d] = hw[d]  BY <1>1, <2>2
    <3> QED  BY <1>3, <2>2, <3>1 DEF BlockType
  <2> QED  BY <2>1, <2>2
<1>5. TypeInv'
  <2>1. hw' \in [Devices -> BlockType]  BY <1>1, <1>4
  <2>2. bus' \in BusType  BY <1>1 DEF BusType, FreeBus
  <2>3. errors' \in Nat  BY DEF BusError, TypeInv
  <2> QED  BY <2>1, <2>2, <2>3 DEF TypeInv, BusError, BusUnchanged
<1>6. PhaseInv'  BY <1>1 DEF PhaseInv, FreeBus
<1>7. EventInv'
  <2> SUFFICES ASSUME NEW d \in Devices, hw'[d].si
               PROVE  hw'[d].stat \in {0, 56, 160}
    BY <1>1, NameFacts DEF EventInv, Outside, FreeBus
  <2>1. CASE d \in {bus.owner, bus.target}
    BY <1>4, <2>1
  <2>2. CASE d \notin {bus.owner, bus.target}
    <3>1. hw'[d] = hw[d]  BY <1>4, <2>2
    <3> QED  BY <1>2, <2>2, <3>1 DEF EventInv
  <2> QED  BY <2>1, <2>2
<1>8. StopInv'
  BY <1>1, <1>4, NameFacts DEF StopInv, FreeBus
<1>9. AckInv'
  <2> SUFFICES ASSUME NEW d \in Devices, ~hw'[d].aa
               PROVE  hw'[d].si /\ hw'[d].stat = 0
    BY DEF AckInv
  <2>1. CASE d \in {bus.owner, bus.target}
    <3>1. hw'[d].si = TRUE  BY <1>4, <2>1, Zenon
    <3> QED  BY <1>4, <2>1, <3>1
  <2>2. CASE d \notin {bus.owner, bus.target}
    <3>1. hw'[d] = hw[d]  BY <1>4, <2>2
    <3> QED  BY <1>2, <2>2, <3>1 DEF AckInv
  <2> QED  BY <2>1, <2>2
<1> QED  BY <1>5, <1>6, <1>7, <1>8, <1>9

LEMMA BusReleasedKeepsLink ==
    ASSUME LinkInv, NEW d \in Devices, BusReleased(d)
    PROVE  LinkInv'
<1> USE DEF LinkInv
<1>1. hw[d] \in BlockType /\ hw[d].aa  BY Fields DEF StopInv, BusReleased
<1>2. PICK h \in BlockType : h = hw[d]  BY <1>1
<1>3. PICK c : c = [h EXCEPT !.sto = FALSE]  OBVIOUS
<1>4. c \in BlockType /\ c.si = h.si /\ c.aa = h.aa /\ ~c.sto /\ c.stat = h.stat
  BY <1>3 DEF BlockType
<1>5. hw' = [hw EXCEPT ![d] = c] /\ bus' = bus
  BY <1>2, <1>3 DEF BusReleased, TypeInv
<1>6. \A e \in Devices : hw'[e] = IF e = d THEN c ELSE hw[e]
  BY <1>5 DEF TypeInv
<1>7. TypeInv'
  BY <1>4, <1>5 DEF TypeInv, BusReleased, BusUnchanged
<1>8. PhaseInv'  BY <1>5 DEF PhaseInv, FreeBus
<1>9. EventInv'  BY <1>2, <1>4, <1>5, <1>6 DEF EventInv, Outside
<1>10. StopInv'  BY <1>2, <1>4, <1>5, <1>6 DEF StopInv
<1>11. AckInv'  BY <1>1, <1>2, <1>4, <1>5, <1>6 DEF AckInv
<1> QED  BY <1>7, <1>8, <1>9, <1>10, <1>11

\* Who wins the arbitration, and whom its address byte names.
Wins(o) == o \in bus.contend /\ \A e \in bus.contend : hw[o].dat <= hw[e].dat

Named(o) == {d \in Devices \ {o} : I2CADR[d] \div 2 = hw[o].dat \div 2}

\* What BusAddress does once o has won, t being the device it names or the chip
\* and ack what it answers.
Addressed(o, t, rd, ack) ==
    /\ o \in Devices /\ Wins(o) /\ rd = (hw[o].dat % 2 = 1) /\ ack \in BOOLEAN
    /\ t \in Devices => t # o /\ Named(o) = {t} /\ ~hw[t].si /\ ack = hw[t].aa
    /\ t \notin Devices => t = Chip /\ Named(o) = {} /\ (ack => request[o].tgt = Chip)
    /\ hw' = [d \in Devices |->
         CASE d = o -> Event(hw[d], IF rd THEN (IF ack THEN 64 ELSE 72)
                                          ELSE (IF ack THEN 24 ELSE 32))
           [] d = t /\ ack /\ d \notin bus.contend -> Event(hw[d], IF rd THEN 168 ELSE 96)
           [] d = t /\ ack /\ d \in bus.contend -> Event(hw[d], IF rd THEN 176 ELSE 104)
           [] d \in bus.contend /\ d # o /\ d # t -> Event(hw[d], 56)
           [] OTHER -> hw[d]]
    /\ bus' = [phase |-> IF ~ack THEN "refused" ELSE IF rd THEN "read" ELSE "write",
               owner |-> o, contend |-> {}, target |-> t]
    /\ wire' = [d \in Devices |-> IF d = t /\ ~rd THEN <<>> ELSE wire[d]]
    /\ expect' = [expect EXCEPT ![o] =
         IF ~rd \/ t \notin Devices THEN <<>>
         ELSE [i \in 1 .. request[o].len |-> slv[t].mmap[(slv[t].addr + i - 1) % MmapSize]]]

LEMMA AddressedBy ==
    ASSUME LinkInv, BusAddress
    PROVE  \E o, t, rd, ack : Addressed(o, t, rd, ack)
<1> USE DEF LinkInv
<1>1. PICK o \in bus.contend :
        LET rd    == hw[o].dat % 2 = 1
            named == Named(o)
            lost  == bus.contend \ {o}
        IN /\ Wins(o)
           /\ \E ack \in BOOLEAN :
                /\ \A d \in named : ~hw[d].si /\ ack = hw[d].aa
                /\ ack => named # {} \/ request[o].tgt = Chip
                /\ hw' = [d \in Devices |->
                     CASE d = o -> Event(hw[d], IF rd THEN (IF ack THEN 64 ELSE 72)
                                                      ELSE (IF ack THEN 24 ELSE 32))
                       [] d \in named /\ ack /\ d \notin lost -> Event(hw[d], IF rd THEN 168 ELSE 96)
                       [] d \in named /\ ack /\ d \in lost -> Event(hw[d], IF rd THEN 176 ELSE 104)
                       [] d \in lost \ named -> Event(hw[d], 56)
                       [] OTHER -> hw[d]]
                /\ bus' = [phase |-> IF ~ack THEN "refused" ELSE IF rd THEN "read" ELSE "write",
                           owner |-> o, contend |-> {},
                           target |-> IF named # {} THEN CHOOSE d \in named : TRUE ELSE Chip]
                /\ wire' = [d \in Devices |-> IF d \in named /\ ~rd THEN <<>> ELSE wire[d]]
                /\ expect' = [expect EXCEPT ![o] =
                     IF ~rd \/ named = {} THEN <<>>
                     ELSE LET s == slv[CHOOSE d \in named : TRUE]
                          IN [i \in 1 .. request[o].len |-> s.mmap[(s.addr + i - 1) % MmapSize]]]
  BY Zenon DEF BusAddress, Named, Wins
<1>2. o \in Devices  BY DEF TypeInv, BusType
<1> DEFINE rd == hw[o].dat % 2 = 1
<1> DEFINE t == IF Named(o) # {} THEN CHOOSE d \in Named(o) : TRUE ELSE Chip
<1>3. \/ t \in Devices /\ t # o /\ Named(o) = {t}
      \/ t = Chip /\ Named(o) = {}
  <2>1. CASE Named(o) = {}  BY <2>1
  <2>2. CASE Named(o) # {}
    <3>1. t \in Named(o)  BY <2>2
    <3>2. \A d \in Named(o) : d = t  BY <3>1, OneIsNamed DEF Named
    <3> QED  BY <3>1, <3>2 DEF Named
  <2> QED  BY <2>1, <2>2
<1>4. PICK ack \in BOOLEAN :
        /\ \A d \in Named(o) : ~hw[d].si /\ ack = hw[d].aa
        /\ ack => Named(o) # {} \/ request[o].tgt = Chip
        /\ hw' = [d \in Devices |->
             CASE d = o -> Event(hw[d], IF rd THEN (IF ack THEN 64 ELSE 72)
                                              ELSE (IF ack THEN 24 ELSE 32))
               [] d \in Named(o) /\ ack /\ d \notin bus.contend \ {o} ->
                    Event(hw[d], IF rd THEN 168 ELSE 96)
               [] d \in Named(o) /\ ack /\ d \in bus.contend \ {o} ->
                    Event(hw[d], IF rd THEN 176 ELSE 104)
               [] d \in (bus.contend \ {o}) \ Named(o) -> Event(hw[d], 56)
               [] OTHER -> hw[d]]
        /\ bus' = [phase |-> IF ~ack THEN "refused" ELSE IF rd THEN "read" ELSE "write",
                   owner |-> o, contend |-> {}, target |-> t]
        /\ wire' = [d \in Devices |-> IF d \in Named(o) /\ ~rd THEN <<>> ELSE wire[d]]
        /\ expect' = [expect EXCEPT ![o] =
             IF ~rd \/ Named(o) = {} THEN <<>>
             ELSE LET s == slv[CHOOSE d \in Named(o) : TRUE]
                  IN [i \in 1 .. request[o].len |-> s.mmap[(s.addr + i - 1) % MmapSize]]]
  BY <1>1, Zenon
<1> HIDE DEF t
<1>5. \A d \in Devices : d \in Named(o) <=> d = t
  BY <1>3, NameFacts
<1>6. Named(o) = {} <=> t \notin Devices
  BY <1>3, NameFacts
<1>7. hw' = [d \in Devices |->
         CASE d = o -> Event(hw[d], IF rd THEN (IF ack THEN 64 ELSE 72)
                                          ELSE (IF ack THEN 24 ELSE 32))
           [] d = t /\ ack /\ d \notin bus.contend -> Event(hw[d], IF rd THEN 168 ELSE 96)
           [] d = t /\ ack /\ d \in bus.contend -> Event(hw[d], IF rd THEN 176 ELSE 104)
           [] d \in bus.contend /\ d # o /\ d # t -> Event(hw[d], 56)
           [] OTHER -> hw[d]]
  BY <1>3, <1>4, <1>5
<1>8. wire' = [d \in Devices |-> IF d = t /\ ~rd THEN <<>> ELSE wire[d]]
  BY <1>4, <1>5
<1>9. expect' = [expect EXCEPT ![o] =
         IF ~rd \/ t \notin Devices THEN <<>>
         ELSE [i \in 1 .. request[o].len |-> slv[t].mmap[(slv[t].addr + i - 1) % MmapSize]]]
  <2>1. CASE t \in Devices
    <3>1. Named(o) # {} /\ t = CHOOSE d \in Named(o) : TRUE  BY <1>6, <2>1 DEF t
    <3> QED  BY <1>4, <2>1, <3>1, Zenon
  <2>2. CASE t \notin Devices
    BY <1>4, <1>6, <2>2
  <2> QED  BY <2>1, <2>2
<1>10. Addressed(o, t, rd, ack)
  BY <1>1, <1>2, <1>3, <1>4, <1>7, <1>8, <1>9, NameFacts DEF Addressed
<1> QED  BY <1>10

\* What that does to the blocks of the devices.
AddressedBlocks(o, t, rd, ack) ==
    /\ \A d \in Devices : /\ hw'[d] \in BlockType /\ hw'[d].sto = hw[d].sto
                          /\ hw'[d].aa = hw[d].aa /\ hw'[d].sta = hw[d].sta
                          /\ hw'[d].dat = hw[d].dat
    /\ hw'[o].si /\ hw'[o].stat = IF rd THEN (IF ack THEN 64 ELSE 72)
                                        ELSE (IF ack THEN 24 ELSE 32)
    /\ t \in Devices /\ ack =>
         hw'[t].si /\ hw'[t].stat = IF t \in bus.contend THEN (IF rd THEN 176 ELSE 104)
                                                         ELSE (IF rd THEN 168 ELSE 96)
    /\ t \in Devices /\ ~ack => hw'[t] = hw[t]
    /\ \A d \in bus.contend : d # o /\ d # t => hw'[d].si /\ hw'[d].stat = 56
    /\ \A d \in Devices : d # o /\ d # t /\ d \notin bus.contend => hw'[d] = hw[d]

LEMMA AddressReachesBlocks ==
    ASSUME LinkInv, BusAddress, NEW o, NEW t, NEW rd, NEW ack, Addressed(o, t, rd, ack)
    PROVE  AddressedBlocks(o, t, rd, ack)
<1> USE DEF LinkInv
<1>1. \A d \in Devices : hw[d] \in BlockType  BY Fields
<1>2. bus.contend \subseteq Devices  BY DEF TypeInv, BusType
<1>3. /\ o \in Devices /\ ack \in BOOLEAN /\ (t \in Devices => t # o)
      /\ hw' = [d \in Devices |->
           CASE d = o -> Event(hw[d], IF rd THEN (IF ack THEN 64 ELSE 72)
                                            ELSE (IF ack THEN 24 ELSE 32))
             [] d = t /\ ack /\ d \notin bus.contend -> Event(hw[d], IF rd THEN 168 ELSE 96)
             [] d = t /\ ack /\ d \in bus.contend -> Event(hw[d], IF rd THEN 176 ELSE 104)
             [] d \in bus.contend /\ d # o /\ d # t -> Event(hw[d], 56)
             [] OTHER -> hw[d]]
  BY DEF Addressed
<1>4. hw'[o] = Event(hw[o], IF rd THEN (IF ack THEN 64 ELSE 72) ELSE (IF ack THEN 24 ELSE 32))
  BY <1>3
<1>5. ASSUME t \in Devices, ack
      PROVE  hw'[t] = Event(hw[t], IF t \in bus.contend THEN (IF rd THEN 176 ELSE 104)
                                                        ELSE (IF rd THEN 168 ELSE 96))
  <2>1. CASE t \in bus.contend  BY <1>3, <1>5, <2>1
  <2>2. CASE t \notin bus.contend  BY <1>3, <1>5, <2>2
  <2> QED  BY <2>1, <2>2
<1>6. t \in Devices /\ ~ack => hw'[t] = hw[t]  BY <1>3
<1>7. \A d \in bus.contend : d # o /\ d # t => hw'[d] = Event(hw[d], 56)  BY <1>2, <1>3
<1>8. \A d \in Devices : d # o /\ d # t /\ d \notin bus.contend => hw'[d] = hw[d]  BY <1>3
<1>9. ASSUME NEW d \in Devices
      PROVE  hw'[d] = hw[d] \/ \E n \in Nat : hw'[d] = Event(hw[d], n)
  <2>1. CASE d = o  BY <1>4, <2>1
  <2>2. CASE d = t /\ ack  BY <1>5, <2>2
  <2>3. CASE d = t /\ ~ack  BY <1>6, <2>3
  <2>4. CASE d # o /\ d # t /\ d \in bus.contend  BY <1>7, <2>4
  <2>5. CASE d # o /\ d # t /\ d \notin bus.contend  BY <1>8, <2>5
  <2> QED  BY <1>3, <2>1, <2>2, <2>3, <2>4, <2>5
<1>10. \A d \in Devices : /\ hw'[d] \in BlockType /\ hw'[d].sto = hw[d].sto
                          /\ hw'[d].aa = hw[d].aa /\ hw'[d].sta = hw[d].sta
                          /\ hw'[d].dat = hw[d].dat
  BY <1>1, <1>9, EventTyped
<1>11. /\ hw'[o].si /\ hw'[o].stat = IF rd THEN (IF ack THEN 64 ELSE 72)
                                           ELSE (IF ack THEN 24 ELSE 32)
  BY <1>1, <1>3, <1>4, EventTyped
<1>12. ASSUME t \in Devices, ack
       PROVE  hw'[t].si /\ hw'[t].stat = IF t \in bus.contend THEN (IF rd THEN 176 ELSE 104)
                                                              ELSE (IF rd THEN 168 ELSE 96)
  BY <1>1, <1>5, <1>12, EventTyped
<1>13. \A d \in bus.contend : d # o /\ d # t => hw'[d].si /\ hw'[d].stat = 56
  BY <1>1, <1>2, <1>7, EventTyped
<1> QED  BY <1>6, <1>8, <1>10, <1>11, <1>12, <1>13 DEF AddressedBlocks

\* The rest of what it does.
LEMMA AddressFacts ==
    ASSUME BusAddress, NEW o, NEW t, NEW rd, NEW ack, Addressed(o, t, rd, ack)
    PROVE  /\ bus.phase = "address" /\ \A d \in bus.contend : ~hw[d].si
           /\ UNCHANGED <<mst, slv, started, errors, request, landed>>
           /\ o \in Devices /\ o \in bus.contend /\ ack \in BOOLEAN
           /\ t \in Devices \cup {Chip} /\ t # o
           /\ t \in Devices => ~hw[t].si /\ Named(o) = {t}
           /\ t \notin Devices => Named(o) = {}
           /\ bus' = [phase |-> IF ~ack THEN "refused" ELSE IF rd THEN "read" ELSE "write",
                      owner |-> o, contend |-> {}, target |-> t]
<1>1. bus.phase = "address" /\ \A d \in bus.contend : ~hw[d].si  BY Zenon DEF BusAddress
<1>2. UNCHANGED <<mst, slv, started, errors, request, landed>>
  BY Zenon DEF BusAddress, BusUnchanged
<1>3. /\ o \in Devices /\ Wins(o) /\ ack \in BOOLEAN
      /\ t \in Devices => t # o /\ ~hw[t].si /\ Named(o) = {t}
      /\ t \notin Devices => t = Chip /\ Named(o) = {}
      /\ bus' = [phase |-> IF ~ack THEN "refused" ELSE IF rd THEN "read" ELSE "write",
                 owner |-> o, contend |-> {}, target |-> t]
  BY Zenon DEF Addressed
<1>4. o \in bus.contend  BY <1>3, Zenon DEF Wins
<1>5. t # o /\ t \in Devices \cup {Chip}  BY <1>3, NameFacts, Zenon
<1> QED  BY <1>1, <1>2, <1>3, <1>4, <1>5, Zenon

LEMMA BusAddressKeepsLink ==
    ASSUME LinkInv, BusAddress
    PROVE  LinkInv'
<1> USE DEF LinkInv
<1>1. PICK o, t, rd, ack : Addressed(o, t, rd, ack)  BY AddressedBy
<1>2. AddressedBlocks(o, t, rd, ack)
  BY <1>1, AddressReachesBlocks
<1>3. /\ o \in Devices /\ o \in bus.contend /\ ack \in BOOLEAN /\ t \in Devices \cup {Chip} /\ t # o
      /\ t \in Devices => ~hw[t].si
  BY <1>1, AddressFacts, Zenon
<1>4. /\ bus' = [phase |-> IF ~ack THEN "refused" ELSE IF rd THEN "read" ELSE "write",
                 owner |-> o, contend |-> {}, target |-> t]
      /\ bus'.phase = IF ~ack THEN "refused" ELSE IF rd THEN "read" ELSE "write"
      /\ bus'.owner = o /\ bus'.contend = {} /\ bus'.target = t
  <2>1. PICK p : p = IF ~ack THEN "refused" ELSE IF rd THEN "read" ELSE "write"  OBVIOUS
  <2>2. bus' = [phase |-> p, owner |-> o, contend |-> {}, target |-> t]
    BY <1>1, <2>1, AddressFacts, Zenon
  <2>3. bus'.phase = p /\ bus'.owner = o /\ bus'.contend = {} /\ bus'.target = t
    BY <2>2
  <2> QED  BY <2>1, <2>2, <2>3, Zenon
<1>5. /\ bus.phase = "address" /\ bus.owner = None /\ bus.target = None
      /\ \A d \in bus.contend : ~hw[d].si
  <2>1. bus.phase = "address" /\ \A d \in bus.contend : ~hw[d].si
    BY <1>1, AddressFacts, Zenon
  <2> QED  BY <2>1 DEF PhaseInv
<1>6. TypeInv'
  <2>1. hw' \in [Devices -> BlockType]
    <3>1. hw' = [d \in Devices |-> hw'[d]]  BY <1>1 DEF Addressed
    <3> QED  BY <1>2, <3>1 DEF AddressedBlocks
  <2>2. bus' \in BusType
    <3>1. bus'.phase \in {"refused", "read", "write"}  BY <1>4
    <3> QED  BY <1>3, <1>4, <3>1 DEF BusType
  <2>3. wire' \in [Devices -> Seq(Nat)]
    <3>1. <<>> \in Seq(Nat)  OBVIOUS
    <3> QED  BY <1>1, <3>1 DEF Addressed, TypeInv
  <2>4. expect' \in [Devices -> Seq(Nat)]
    <3>1. PICK e : e = IF ~rd \/ t \notin Devices THEN <<>>
         ELSE [i \in 1 .. request[o].len |-> slv[t].mmap[(slv[t].addr + i - 1) % MmapSize]]
      OBVIOUS
    <3>2. expect' = [expect EXCEPT ![o] = e]  BY <1>1, <3>1 DEF Addressed
    <3>3. e \in Seq(Nat)
      <4>1. CASE ~rd \/ t \notin Devices
        <5>1. <<>> \in Seq(Nat)  OBVIOUS
        <5> QED  BY <3>1, <4>1, <5>1
      <4>2. CASE ~(~rd \/ t \notin Devices)
        <5>1. request[o].len \in Nat  BY <1>3, Fields, RequestFields
        <5>2. slv[t] \in SlaveType  BY <4>2, Fields
        <5>3. slv[t].mmap \in [0 .. MmapSize - 1 -> Nat] /\ slv[t].addr \in Nat
          BY <5>2 DEF SlaveType, Registers
        <5>4. \A i \in 1 .. request[o].len : (slv[t].addr + i - 1) % MmapSize \in 0 .. MmapSize - 1
          BY <5>1, <5>3, SizeAssumption
        <5>5. e = [i \in 1 .. request[o].len |-> slv[t].mmap[(slv[t].addr + i - 1) % MmapSize]]
          BY <3>1, <4>2
        <5>6. \A i \in 1 .. request[o].len : slv[t].mmap[(slv[t].addr + i - 1) % MmapSize] \in Nat
          BY <5>3, <5>4
        <5>7. e \in [1 .. request[o].len -> Nat]  BY <5>5, <5>6
        <5> QED  BY <5>1, <5>7
      <4> QED  BY <4>1, <4>2
    <3> QED  BY <3>2, <3>3 DEF TypeInv
  <2>5. UNCHANGED <<mst, slv, started, errors, request, landed>>
    BY <1>1, AddressFacts, Zenon
  <2> QED  BY <2>1, <2>2, <2>3, <2>4, <2>5 DEF TypeInv
<1>7. PhaseInv'
  <2>1. bus'.phase \in {"refused", "read", "write"}  BY <1>4
  <2> QED  BY <1>3, <1>4, <2>1, NameFacts DEF PhaseInv
<1>8. EventInv'
  <2>1. CASE ~ack
    <3>1. /\ bus'.phase = "refused"
          /\ hw'[o].stat \in {32, 72} /\ \A d \in Devices : d = t => ~hw'[d].si
      BY <1>2, <1>3, <1>4, <2>1 DEF AddressedBlocks
    <3>2. \A d \in Devices : d # o /\ d # t /\ hw'[d].si => hw'[d].stat \in {0, 56, 160}
      BY <1>2, <1>5, NameFacts DEF AddressedBlocks, EventInv
    <3> QED  BY <1>4, <3>1, <3>2 DEF EventInv, Outside
  <2>2. CASE ack
    <3>1. \A d \in Devices : d # o /\ d # t /\ hw'[d].si => hw'[d].stat \in {0, 56, 160}
      BY <1>2, <1>5, NameFacts DEF AddressedBlocks, EventInv
    <3>2. CASE rd
      <4>1. /\ bus'.phase = "read"
            /\ hw'[o].stat = 64 /\ \A d \in Devices : d = t => hw'[d].stat \in {168, 176}
        BY <1>2, <1>4, <2>2, <3>2 DEF AddressedBlocks
      <4> QED  BY <1>4, <3>1, <4>1 DEF EventInv, Outside
    <3>3. CASE ~rd
      <4>1. /\ bus'.phase = "write"
            /\ hw'[o].stat = 24 /\ \A d \in Devices : d = t => hw'[d].stat \in {96, 104}
        BY <1>2, <1>4, <2>2, <3>3 DEF AddressedBlocks
      <4> QED  BY <1>4, <3>1, <4>1 DEF EventInv, Outside
    <3> QED  BY <3>2, <3>3
  <2> QED  BY <1>3, <2>1, <2>2
<1>9. StopInv'
  BY <1>2, <1>3, <1>4 DEF AddressedBlocks, StopInv
<1>10. AckInv'
  <2> SUFFICES ASSUME NEW d \in Devices, ~hw'[d].aa
               PROVE  hw'[d].si /\ hw'[d].stat = 0
    BY DEF AckInv
  <2>1. hw[d].si /\ hw[d].stat = 0  BY <1>2, <1>5, NameFacts DEF AddressedBlocks, AckInv
  <2>2. d # o /\ d # t /\ d \notin bus.contend  BY <1>3, <1>5, <2>1
  <2> QED  BY <1>2, <2>1, <2>2 DEF AddressedBlocks
<1> QED  BY <1>6, <1>7, <1>8, <1>9, <1>10

-----------------------------------------------------------------------------
(* LinkInv is an invariant.                                                *)

LEMMA LinkInit == Init => LinkInv
<1> SUFFICES ASSUME Init PROVE LinkInv  OBVIOUS
<1>1. <<>> \in Seq(Nat) /\ Len(<<>>) = 0  OBVIOUS
<1>2. TypeInv
  <2>1. mst \in [Devices -> MasterType]
    BY <1>1 DEF Init, MasterType, Operation
  <2>2. slv \in [Devices -> SlaveType]
    BY SizeAssumption DEF Init, SlaveType, Operation, Registers
  <2>3. hw \in [Devices -> BlockType] /\ bus \in BusType
    BY DEF Init, BlockType, BusType, FreeBus
  <2>4. /\ started \in [Devices -> Nat] /\ errors \in Nat
        /\ expect \in [Devices -> Seq(Nat)] /\ wire \in [Devices -> Seq(Nat)]
    BY <1>1 DEF Init
  <2>5. /\ request \in [Devices -> RequestType \cup {NoRequest}]
        /\ landed \in [Devices -> RequestType \cup {NoRequest}]
    BY DEF Init
  <2> QED  BY <2>1, <2>2, <2>3, <2>4, <2>5 DEF TypeInv
<1>3. PhaseInv  BY DEF Init, PhaseInv, FreeBus
<1>4. EventInv /\ StopInv /\ AckInv  BY DEF Init, EventInv, StopInv, AckInv
<1> QED  BY <1>2, <1>3, <1>4 DEF LinkInv

LEMMA LinkStep == LinkInv /\ [Next]_vars => LinkInv'
<1> SUFFICES ASSUME LinkInv, [Next]_vars PROVE LinkInv'  OBVIOUS
<1>1. ASSUME NEW d \in Devices, Program(d) PROVE LinkInv'
  BY <1>1, ProgramKeepsLink
<1>2. ASSUME NEW d \in Devices, Irq(d) PROVE LinkInv'
  BY <1>2, IrqKeepsLink
<1>3. CASE BusStart  BY <1>3, BusStartKeepsLink
<1>4. CASE BusAddress  BY <1>4, BusAddressKeepsLink
<1>5. CASE BusWriteByte  BY <1>5, BusWriteByteKeepsLink
<1>6. CASE BusReadByte  BY <1>6, BusReadByteKeepsLink
<1>7. CASE BusStop  BY <1>7, BusStopKeepsLink
<1>8. ASSUME NEW d \in Devices, BusReleased(d) PROVE LinkInv'
  BY <1>8, BusReleasedKeepsLink
<1>9. CASE BusError  BY <1>9, BusErrorKeepsLink
<1>10. CASE UNCHANGED vars
  BY <1>10 DEF vars, history, LinkInv, TypeInv, PhaseInv, EventInv, StopInv, AckInv,
               Outside, FreeBus
<1> QED  BY <1>1, <1>2, <1>3, <1>4, <1>5, <1>6, <1>7, <1>8, <1>9, <1>10 DEF Next, Bus

\* The types hold, and every event that waits for its handler belongs to the
\* transfer its device takes part in, whatever the programs ask for: the
\* handler of i2c_device.c never meets a state of a transfer that is not on.
THEOREM LinkCorrect == Spec => []LinkInv
<1>1. Init => LinkInv  BY LinkInit
<1>2. LinkInv /\ [Next]_vars => LinkInv'  BY LinkStep
<1> QED  BY <1>1, <1>2, PTL DEF Spec

\* Every handler that clears AA to refuse the last byte of its own read sets it
\* again at the end of that read (i2c_device.c, state 0x58): a device that does
\* not own the bus, and has no event waiting, answers to its address.
THEOREM AlwaysAnswers == Spec => []NeverDeaf
<1>1. LinkInv => NeverDeaf
  BY DEF LinkInv, AckInv, NeverDeaf
<1> QED  BY <1>1, LinkCorrect, PTL

-----------------------------------------------------------------------------
(* The programs the rest is about.                                         *)

Programs == Orderly(Requests)

-----------------------------------------------------------------------------
(* The invariant of a transfer.  o is the owner of the bus and t whom it   *)
(* talks to.                                                               *)

Writes(o, t) == bus.phase = "write" /\ bus.owner = o /\ bus.target = t
Reads(o, t)  == bus.phase = "read" /\ bus.owner = o /\ bus.target = t

\* The owner has not ended its transfer.
Busy(o) == hw[o].si \/ ~hw[o].sto

\* Nothing of the request of d has been done yet.
Fresh(d) ==
    /\ request[d] \in Requests[d]
    /\ mst[d].operation = request[d].kind /\ mst[d].result = 0
    /\ mst[d].remote_i2c_addr = AddressOf(request[d].tgt)
    /\ mst[d].should_send_devaddr = (request[d].dev >= 0)
    /\ request[d].dev >= 0 => mst[d].remote_dev_addr = request[d].dev
    /\ request[d].kind = "WRITE" => mst[d].write = request[d].p
    /\ request[d].kind = "READ" => mst[d].read_len = request[d].len /\ mst[d].buf = <<>>

AddressByte(r) == AddressOf(r.tgt) + IF r.kind = "READ" THEN 1 ELSE 0

\* A device that waits for the bus, contends for it, or has just got it or been
\* refused has its request before it.
StartAt(d) ==
    /\ hw[d].sta \/ d \in bus.contend \/ (hw[d].si /\ hw[d].stat \in {24, 32, 56, 64, 72})
         => Fresh(d)
    /\ d \in bus.contend /\ ~hw[d].si => hw[d].dat = AddressByte(request[d]) /\ ~hw[d].sta
    /\ d = bus.owner /\ hw[d].sta => hw[d].sto
    /\ d = bus.owner /\ bus.phase = "refused" => hw[d].si \/ hw[d].sto

\* The request of the owner of the bus, until it ends the transfer.
Asks(o, t, kind) ==
    /\ request[o] \in Requests[o] /\ request[o].kind = kind /\ request[o].tgt = t
    /\ mst[o].operation = kind /\ mst[o].result = 0

\* The bytes on the wire of t are the first of the request of o, and what o has
\* left is the rest after k.
Sent(o, t, k) ==
    LET w == WireBytes(request[o])
        n == Len(wire[t])
    IN /\ Len(w) = n + k + Len(mst[o].write)
       /\ \A i \in 1 .. n : wire[t][i] = w[i]
       /\ \A i \in 1 .. Len(mst[o].write) : mst[o].write[i] = w[n + k + i]
       /\ k = 1 => hw[o].dat = w[n + 1]

\* The write to t has ended.
Landed(t) == landed[t].tgt = t /\ wire[t] = WireBytes(landed[t]) /\ wire[t] # <<>>

\* The owner in a write.
WriterAt(o, t) ==
    Writes(o, t) =>
        /\ Busy(o) => Asks(o, t, "WRITE")
        /\ t \in Devices =>
             /\ hw[o].si => hw[o].stat # 48
             /\ hw[o].si /\ hw[o].stat = 24 => wire[t] = <<>>
             /\ hw[o].si /\ hw[o].stat = 40 => Sent(o, t, 0)
             /\ ~hw[o].si /\ ~hw[o].sto => Sent(o, t, 1)
             /\ ~hw[o].si /\ hw[o].sto => Landed(t)

\* The slave has taken in n bytes of the wire.
Taken(t, n) ==
    /\ slv[t].operation = "WRITE"
    /\ n = 0 => slv[t].waiting_addr
    /\ n >= 1 =>
         /\ ~slv[t].waiting_addr /\ slv[t].addr_start = wire[t][1]
         /\ slv[t].addr = wire[t][1] + n - 1
         /\ \A i \in 2 .. n : slv[t].tmp[wire[t][1] + i - 2] = wire[t][i]

\* The slave in a write, and at the STOP after it.
WrittenAt(t) ==
    /\ bus.phase = "write" /\ bus.target = t =>
         /\ hw[t].si => hw[t].stat \in {96, 128}
         /\ hw[t].si /\ hw[t].stat = 96 => wire[t] = <<>>
         /\ hw[t].si /\ hw[t].stat = 128 =>
              /\ wire[t] # <<>> /\ hw[t].dat = wire[t][Len(wire[t])]
              /\ Taken(t, Len(wire[t]) - 1)
         /\ ~hw[t].si => Taken(t, Len(wire[t]))
    /\ hw[t].si /\ hw[t].stat = 160 => Landed(t) /\ Taken(t, Len(wire[t]))

\* The registers hold the last write that ended.
Holds(t) ==
    LET w == WireBytes(landed[t])
    IN \A i \in 2 .. Len(w) : slv[t].mmap[w[1] + i - 2] = w[i]

\* They do unless its STOP has still to be seen by t or sent to it.
MapAt(t) ==
    /\ slv[t].addr < MmapSize /\ Fits(wire[t])
    /\ landed[t].tgt = t =>
         \/ Holds(t)
         \/ hw[t].si /\ hw[t].stat = 160
         \/ \E o \in Devices : Writes(o, t) /\ ~Busy(o)

\* Bytes o has received, one it has yet to store included.
Received(o) == Len(mst[o].buf) + IF hw[o].si /\ hw[o].stat \in {80, 88} THEN 1 ELSE 0

\* The owner in a read: what it has and what is left make up the request, and AA
\* tells the last byte.
ReaderAt(o, t) ==
    Reads(o, t) /\ Busy(o) =>
        /\ Asks(o, t, "READ") /\ Len(mst[o].buf) + mst[o].read_len = request[o].len
        /\ mst[o].read_len >= 1
        /\ hw[o].si /\ hw[o].stat = 80 => mst[o].read_len > 1
        /\ hw[o].si /\ hw[o].stat = 88 => mst[o].read_len = 1
        /\ ~hw[o].si => (hw[o].aa <=> mst[o].read_len > 1)

\* From the pointer on, round the end, the registers are what is expected after
\* the first k bytes.
Serves(t, o, k) ==
    \A i \in k + 1 .. Len(expect[o]) :
        expect[o][i] = slv[t].mmap[(slv[t].addr + (i - k - 1)) % MmapSize]

\* After k bytes: the one o has to store, and the next ones.
Following(o, t, k) ==
    /\ hw[o].si /\ hw[o].stat \in {80, 88} => hw[o].dat = expect[o][k]
    /\ k < Len(expect[o]) =>
         /\ hw[t].si  => hw[t].stat \in {168, 184} /\ Serves(t, o, k)
         /\ ~hw[t].si => hw[t].dat = expect[o][k + 1] /\ Serves(t, o, k + 1)

\* The slave in a read.
ReadAt(o, t) ==
    Reads(o, t) =>
        /\ hw[t].si => hw[t].stat # 176
        /\ Busy(o) => /\ Len(expect[o]) = request[o].len
                      /\ \A k \in {Received(o)} : Following(o, t, k)

\* What a read has stored is what was expected.
BufAt(d) ==
    request[d].kind = "READ" =>
        LET b == mst[d].buf
        IN /\ request[d].tgt # Chip =>
                Len(b) <= Len(expect[d]) /\ \A i \in 1 .. Len(b) : b[i] = expect[d][i]
           /\ Len(b) <= request[d].len
           /\ mst[d].operation = "NOP" /\ mst[d].result = 0 => Len(b) = request[d].len

TransferInv ==
    /\ \A d \in Devices : StartAt(d) /\ WrittenAt(d) /\ MapAt(d) /\ BufAt(d)
    /\ \A o \in Devices, t \in Devices \cup {Chip} : WriterAt(o, t) /\ ReaderAt(o, t)
    /\ \A o, t \in Devices : ReadAt(o, t)

-----------------------------------------------------------------------------
(* Lemmas about the register map.                                          *)

LEMMA OnceRound ==
    ASSUME NEW m \in Nat \ {0}, NEW n \in Nat
    PROVE  (m + n) % m = n % m
<1>1. PICK q \in Int : q = n \div m  OBVIOUS
<1>2. PICK r \in 0 .. m - 1 : r = n % m  OBVIOUS
<1>3. n = (m * q) + r  BY <1>1, <1>2
<1>4. m + n = (m * (q + 1)) + r  BY <1>3
<1>5. ((m * (q + 1)) + r) % m = r  OBVIOUS
<1> QED  BY <1>2, <1>4, <1>5

LEMMA PointerFacts ==
    ASSUME NEW a \in 0 .. MmapSize - 1
    PROVE  /\ AfterRead(a) \in 0 .. MmapSize - 1 /\ a % MmapSize = a
           /\ \A j \in Nat : (AfterRead(a) + j) % MmapSize = (a + 1 + j) % MmapSize
<1>1. MmapSize \in Nat \ {0} /\ a \in Nat /\ a < MmapSize  BY SizeAssumption
<1>2. a % MmapSize = a  BY <1>1
<1>3. CASE a + 1 >= MmapSize
  <2>1. AfterRead(a) = 0 /\ a + 1 = MmapSize  BY <1>1, <1>3 DEF AfterRead
  <2>2. \A j \in Nat : (MmapSize + j) % MmapSize = j % MmapSize  BY <1>1, OnceRound
  <2>3. \A j \in Nat : 0 + j = j  OBVIOUS
  <2>4. \A j \in Nat : (0 + j) % MmapSize = (a + 1 + j) % MmapSize
    BY <2>1, <2>2, <2>3, Zenon
  <2> QED  BY <1>1, <1>2, <2>1, <2>4
<1>4. CASE ~(a + 1 >= MmapSize)
  <2>1. AfterRead(a) = a + 1  BY <1>4 DEF AfterRead
  <2> QED  BY <1>1, <1>2, <1>4, <2>1
<1> QED  BY <1>3, <1>4

\* The STOP puts all that was written into the registers, and nothing else.
LEMMA FlushPuts ==
    ASSUME NEW s \in SlaveType, NEW w \in Seq(Nat), w # <<>>, w[1] + Len(w) <= MmapSize,
           s.addr_start = w[1], s.addr = w[1] + Len(w) - 1,
           \A i \in 2 .. Len(w) : s.tmp[w[1] + i - 2] = w[i]
    PROVE  /\ Flush(s).mmap = Put(s.mmap, Head(w), Tail(w))
           /\ \A i \in 2 .. Len(w) : Flush(s).mmap[w[1] + i - 2] = w[i]
           /\ Flush(s).addr = s.addr
<1>1. PICK n \in Nat : n = Len(w)  OBVIOUS
<1>2. PICK r : r = w[1]  OBVIOUS
<1>3. r \in Nat /\ n >= 1 /\ Head(w) = r /\ Tail(w) \in Seq(Nat) /\ Len(Tail(w)) = n - 1
  BY <1>1, <1>2
<1>4. \A j \in 1 .. n - 1 : Tail(w)[j] = w[j + 1]
  BY <1>1, <1>3
<1>5. /\ s.mmap \in [0 .. MmapSize - 1 -> Nat] /\ s.tmp \in [0 .. MmapSize - 1 -> Nat]
      /\ MmapSize \in Nat
  BY SizeAssumption DEF SlaveType, Registers
<1>6. DOMAIN s.mmap = 0 .. MmapSize - 1  BY <1>5
<1>7. PICK m : m = [i \in DOMAIN s.mmap |-> IF i \in Flushed(s) THEN s.tmp[i] ELSE s.mmap[i]]
  OBVIOUS
<1>8. Flush(s).mmap = m /\ Flush(s).addr = s.addr
  <2>1. PICK k : k = [s EXCEPT !.mmap = m]  OBVIOUS
  <2>2. k.mmap = m /\ k.addr = s.addr /\ DOMAIN k = DOMAIN s
    BY <2>1 DEF SlaveType
  <2>3. Flush(s) = [k EXCEPT !.addr_start = s.addr]  BY <1>7, <2>1 DEF Flush
  <2>4. DOMAIN s = {"waiting_addr", "operation", "addr", "addr_start", "mmap", "tmp"}
    BY DEF SlaveType
  <2> QED  BY <2>2, <2>3, <2>4
<1>9. \A i \in 0 .. MmapSize - 1 :
        i \in Flushed(s) <=> (i >= r /\ i < r + (n - 1))
  <2>1. s.addr = r + n - 1 /\ s.addr_start = r  BY <1>1, <1>2
  <2>2. s.addr_start <= s.addr  BY <1>3, <2>1
  <2>3. \A i \in 0 .. MmapSize - 1 : i \in Flushed(s) <=> (i >= s.addr_start /\ i < s.addr)
    BY <2>2 DEF Flushed
  <2>4. s.addr = r + (n - 1)  BY <1>3, <2>1
  <2> QED  BY <2>1, <2>3, <2>4
<1>10. \A i \in 0 .. MmapSize - 1 :
         i >= r /\ i < r + (n - 1) => s.tmp[i] = w[i - r + 2]
  <2> SUFFICES ASSUME NEW i \in 0 .. MmapSize - 1, i >= r, i < r + (n - 1)
               PROVE  s.tmp[i] = w[i - r + 2]
    OBVIOUS
  <2>1. PICK j \in 2 .. n : j = i - r + 2  BY <1>3
  <2>2. i = r + j - 2  BY <1>3, <2>1
  <2> QED  BY <1>1, <1>2, <2>1, <2>2
<1>11. \A i \in 0 .. MmapSize - 1 :
         m[i] = IF i >= r /\ i < r + (n - 1) THEN w[i - r + 2] ELSE s.mmap[i]
  BY <1>6, <1>7, <1>9, <1>10
<1>12. m = Put(s.mmap, Head(w), Tail(w))
  <2>1. ASSUME NEW i \in 0 .. MmapSize - 1
        PROVE  m[i] = IF i >= Head(w) /\ i < Head(w) + Len(Tail(w)) THEN Tail(w)[i - Head(w) + 1]
                                                                    ELSE s.mmap[i]
    <3>1. CASE i >= r /\ i < r + (n - 1)
      <4>1. PICK j \in 1 .. n - 1 : j = i - r + 1  BY <1>3, <3>1
      <4>2. Tail(w)[j] = w[j + 1] /\ j + 1 = i - r + 2  BY <1>3, <1>4, <4>1
      <4> QED  BY <1>3, <1>11, <3>1, <4>1, <4>2
    <3>2. CASE ~(i >= r /\ i < r + (n - 1))
      BY <1>3, <1>11, <3>2
    <3> QED  BY <3>1, <3>2
  <2>2. m = [i \in DOMAIN s.mmap |-> m[i]]  BY <1>7
  <2> QED  BY <1>6, <2>1, <2>2 DEF Put
<1>13. ASSUME NEW i \in 2 .. n PROVE m[r + i - 2] = w[i]
  <2>1. PICK j \in 0 .. MmapSize - 1 : j = r + i - 2
    BY <1>1, <1>2, <1>3, <1>5
  <2>2. j >= r /\ j < r + (n - 1) /\ j - r + 2 = i  BY <1>3, <2>1
  <2> QED  BY <1>11, <2>1, <2>2
<1> QED  BY <1>1, <1>2, <1>8, <1>12, <1>13

-----------------------------------------------------------------------------
(* The invariant starts true and says what the runs check.                 *)

LEMMA TransferInit == Init => TransferInv
<1> SUFFICES ASSUME Init PROVE TransferInv  OBVIOUS
<1>1. ASSUME NEW d \in Devices PROVE StartAt(d) /\ WrittenAt(d) /\ BufAt(d)
  <2>1. ~hw[d].si /\ ~hw[d].sta /\ bus = FreeBus  BY DEF Init
  <2>2. request[d].kind = "WRITE"  BY DEF Init, NoRequest, Write
  <2> QED  BY <2>1, <2>2, NameFacts DEF StartAt, WrittenAt, BufAt, FreeBus
<1>2. ASSUME NEW d \in Devices PROVE MapAt(d)
  <2>1. slv[d].addr = 0 /\ wire[d] = <<>>  BY DEF Init
  <2>2. landed[d].tgt # d  BY NameFacts DEF Init, NoRequest, Write
  <2> QED  BY <2>1, <2>2, SizeAssumption DEF MapAt, Fits
<1>3. bus.phase = "free"  BY DEF Init, FreeBus
<1> QED  BY <1>1, <1>2, <1>3 DEF TransferInv, WriterAt, ReaderAt, ReadAt, Writes, Reads

LEMMA TransferImplies ==
    ASSUME LinkInv, TransferInv
    PROVE  CompletedWritesLand /\ ReadsInOrder
<1>1. CompletedWritesLand
  <2> SUFFICES ASSUME NEW d \in Devices, landed[d].tgt = d, bus.phase = "free", ~hw[d].si,
                      NEW i \in 2 .. Len(WireBytes(landed[d]))
               PROVE  slv[d].mmap[Head(WireBytes(landed[d])) + i - 2] = WireBytes(landed[d])[i]
    BY DEF CompletedWritesLand
  <2>1. Holds(d)  BY DEF TransferInv, MapAt, Writes
  <2>2. Head(WireBytes(landed[d])) = WireBytes(landed[d])[1]  OBVIOUS
  <2> QED  BY <2>1, <2>2 DEF Holds
<1>2. ReadsInOrder
  <2> SUFFICES ASSUME NEW d \in Devices, request[d].kind = "READ"
               PROVE  /\ request[d].tgt # Chip => IsPrefix(mst[d].buf, expect[d])
                      /\ Len(mst[d].buf) <= request[d].len
                      /\ (mst[d].operation = "NOP" /\ mst[d].result = 0) =>
                            Len(mst[d].buf) = request[d].len
    BY DEF ReadsInOrder
  <2>1. BufAt(d)  BY DEF TransferInv
  <2>2. ASSUME request[d].tgt # Chip PROVE IsPrefix(mst[d].buf, expect[d])
    <3>1. /\ Len(mst[d].buf) <= Len(expect[d])
          /\ \A i \in 1 .. Len(mst[d].buf) : mst[d].buf[i] = expect[d][i]
      BY <2>1, <2>2 DEF BufAt
    <3>2. mst[d].buf \in Seq(Nat) /\ expect[d] \in Seq(Nat)
      BY Fields DEF LinkInv, MasterType
    <3> QED  BY <3>1, <3>2 DEF IsPrefix
  <2> QED  BY <2>1, <2>2 DEF BufAt
<1> QED  BY <1>1, <1>2

-----------------------------------------------------------------------------
(* The transfer's invariant is inductive: the handlers of the master.      *)

\* The handler of d was run: nothing else changed but the record of the last
\* write, if at all.
Served(d) ==
    /\ hw[d].si /\ ~hw'[d].si
    /\ \A e \in Devices \ {d} : hw'[e] = hw[e] /\ mst'[e] = mst[e] /\ slv'[e] = slv[e]
    /\ UNCHANGED <<bus, request, expect, wire>>

LEMMA HandlerServes ==
    ASSUME LinkInv, NEW d \in Devices, NEW S, NEW c \in BlockType, Handles(d, S, c),
           \/ UNCHANGED <<mst, slv>>
           \/ \E m : MasterBecomes(d, m)
           \/ \E s : SlaveBecomes(d, s)
    PROVE  /\ Served(d) /\ hw[d].stat \in S
           /\ hw'[d].sta = c.sta /\ hw'[d].sto = c.sto /\ hw'[d].aa = c.aa /\ hw'[d].dat = c.dat
<1>1. PICK b : b = [c EXCEPT !.si = FALSE]  OBVIOUS
<1>2. /\ b.si = FALSE /\ b.sta = c.sta /\ b.sto = c.sto /\ b.aa = c.aa /\ b.dat = c.dat
  BY <1>1 DEF BlockType
<1>3. /\ hw' = [hw EXCEPT ![d] = b] /\ hw[d].si /\ hw[d].stat \in S
      /\ UNCHANGED <<bus, request, expect, wire>>
  BY <1>1 DEF Handles
<1>4. hw'[d] = b /\ \A e \in Devices \ {d} : hw'[e] = hw[e]
  BY <1>3 DEF LinkInv, TypeInv
<1>5. \A e \in Devices \ {d} : mst'[e] = mst[e] /\ slv'[e] = slv[e]
  BY DEF MasterBecomes, SlaveBecomes, LinkInv, TypeInv
<1> QED  BY <1>2, <1>3, <1>4, <1>5 DEF Served

\* What d has no part in is as it was.
LEMMA Elsewhere ==
    ASSUME LinkInv, TransferInv, NEW d \in Devices, Served(d),
           \A e \in Devices : landed'[e] = landed[e] \/ Writes(d, e)
    PROVE  /\ \A e \in Devices \ {d} : StartAt(e)' /\ BufAt(e)' /\ WrittenAt(e)'
           /\ \A o \in Devices \ {d}, t \in Devices \cup {Chip} : WriterAt(o, t)' /\ ReaderAt(o, t)'
           /\ \A o, t \in Devices \ {d} : ReadAt(o, t)'
           /\ \A t \in Devices \ {d} : bus.owner # d => MapAt(t)'
<1>1. ASSUME NEW e \in Devices \ {d} PROVE StartAt(e)' /\ BufAt(e)' /\ WrittenAt(e)'
  <2>1. hw'[e] = hw[e] /\ mst'[e] = mst[e] /\ slv'[e] = slv[e]  BY DEF Served
  <2>2. StartAt(e) /\ BufAt(e) /\ WrittenAt(e)  BY DEF TransferInv
  <2>3. StartAt(e)'  BY <2>1, <2>2 DEF StartAt, Fresh, Served
  <2>4. BufAt(e)'  BY <2>1, <2>2 DEF BufAt, Served
  <2>5. WrittenAt(e)'
    <3>1. hw[e].si /\ hw[e].stat = 160 => (Landed(e)' <=> Landed(e))
      BY DEF LinkInv, EventInv, Outside, Writes, Landed, Served
    <3>2. \A n : Taken(e, n)' <=> Taken(e, n)  BY <2>1 DEF Taken, Served
    <3> QED  BY <2>1, <2>2, <3>1, <3>2 DEF WrittenAt, Served
  <2> QED  BY <2>3, <2>4, <2>5
<1>2. ASSUME NEW o \in Devices \ {d}, NEW t \in Devices \cup {Chip}
      PROVE  WriterAt(o, t)' /\ ReaderAt(o, t)'
  <2>1. hw'[o] = hw[o] /\ mst'[o] = mst[o]  BY DEF Served
  <2>2. WriterAt(o, t) /\ ReaderAt(o, t)  BY DEF TransferInv
  <2>3. WriterAt(o, t)'
    <3>1. Sent(o, t, 0)' <=> Sent(o, t, 0)  BY <2>1 DEF Sent, Served
    <3>2. Sent(o, t, 1)' <=> Sent(o, t, 1)  BY <2>1 DEF Sent, Served
    <3>3. t \in Devices /\ Writes(o, t) => (Landed(t)' <=> Landed(t))
      BY DEF Landed, Writes, Served
    <3>4. Asks(o, t, "WRITE")' <=> Asks(o, t, "WRITE")  BY <2>1 DEF Asks, Served
    <3> QED  BY <2>1, <2>2, <3>1, <3>2, <3>3, <3>4 DEF WriterAt, Writes, Busy, Served
  <2>4. ReaderAt(o, t)'  BY <2>1, <2>2 DEF ReaderAt, Reads, Busy, Asks, Served
  <2> QED  BY <2>3, <2>4
<1>3. ASSUME NEW o \in Devices \ {d}, NEW t \in Devices \ {d} PROVE ReadAt(o, t)'
  <2>1. hw'[o] = hw[o] /\ hw'[t] = hw[t] /\ mst'[o] = mst[o] /\ slv'[t] = slv[t]  BY DEF Served
  <2>2. ReadAt(o, t)  BY DEF TransferInv
  <2>3. Received(o)' = Received(o)  BY <2>1 DEF Received
  <2>4. ASSUME NEW k PROVE Following(o, t, k)' <=> Following(o, t, k)
    BY <2>1 DEF Following, Serves, Served
  <2> QED  BY <2>1, <2>2, <2>3, <2>4 DEF ReadAt, Reads, Busy, Served
<1>4. ASSUME NEW t \in Devices \ {d}, bus.owner # d PROVE MapAt(t)'
  <2>1. hw'[t] = hw[t] /\ slv'[t] = slv[t]  BY DEF Served
  <2>2. \A o \in Devices : Writes(o, t) => hw'[o] = hw[o]  BY <1>4 DEF Writes, Served
  <2>3. MapAt(t) /\ landed'[t] = landed[t]  BY <1>4 DEF TransferInv, Writes
  <2>4. \A o \in Devices : Writes(o, t) /\ ~Busy(o) => Writes(o, t)' /\ ~Busy(o)'
    BY <2>2 DEF Writes, Busy, Served
  <2> QED  BY <2>1, <2>3, <2>4 DEF MapAt, Holds, Served
<1> QED  BY <1>1, <1>2, <1>3, <1>4

\* A device outside of the transfer, or that contends for the bus.
LEMMA OutsiderServed ==
    ASSUME LinkInv, TransferInv, NEW d \in Devices, Served(d), hw[d].stat \in {0, 8, 56},
           UNCHANGED <<mst, slv, landed>>, StartAt(d)'
    PROVE  TransferInv'
<1>1. d # bus.owner /\ d # bus.target
  BY NameFacts DEF LinkInv, EventInv, PhaseInv, Outside, Served
<1>2. /\ \A e \in Devices \ {d} : StartAt(e)' /\ BufAt(e)' /\ WrittenAt(e)'
      /\ \A o \in Devices \ {d}, t \in Devices \cup {Chip} : WriterAt(o, t)' /\ ReaderAt(o, t)'
      /\ \A o, t \in Devices \ {d} : ReadAt(o, t)'
      /\ \A t \in Devices \ {d} : bus.owner # d => MapAt(t)'
  BY Elsewhere
<1>3. BufAt(d)'  BY DEF TransferInv, BufAt, Served
<1>4. WrittenAt(d)'  BY <1>1 DEF WrittenAt, Served
<1>5. MapAt(d)'
  <2>1. MapAt(d) /\ \A o \in Devices : ~Writes(o, d)  BY <1>1 DEF TransferInv, Writes
  <2> QED  BY <2>1 DEF MapAt, Holds, Served
<1>6. \A t \in Devices \cup {Chip} : WriterAt(d, t)' /\ ReaderAt(d, t)'
  BY <1>1 DEF WriterAt, ReaderAt, Writes, Reads, Served
<1>7. \A o, t \in Devices : o = d \/ t = d => ReadAt(o, t)'
  BY <1>1 DEF ReadAt, Reads, Served
<1> QED  BY <1>1, <1>2, <1>3, <1>4, <1>5, <1>6, <1>7 DEF TransferInv

\* The owner, when it does not end a write to a device.
LEMMA OwnerServed ==
    ASSUME LinkInv, TransferInv, NEW d \in Devices, Served(d),
           hw[d].stat \in {24, 32, 40, 48, 64, 72, 80, 88}, hw'[d].sta = hw[d].sta,
           UNCHANGED <<slv, landed>>, bus.phase = "refused" => hw'[d].sto,
           bus.phase = "write" /\ bus.target \in Devices => ~hw'[d].sto,
           BufAt(d)', \A t \in Devices \cup {Chip} : WriterAt(d, t)' /\ ReaderAt(d, t)',
           \A t \in Devices : ReadAt(d, t)'
    PROVE  TransferInv'
<1>1. d = bus.owner /\ d # bus.target /\ d \notin bus.contend /\ ~hw[d].sto
  BY NameFacts DEF LinkInv, EventInv, PhaseInv, StopInv, Outside, Served
<1>2. /\ \A e \in Devices \ {d} : StartAt(e)' /\ BufAt(e)' /\ WrittenAt(e)'
      /\ \A o \in Devices \ {d}, t \in Devices \cup {Chip} : WriterAt(o, t)' /\ ReaderAt(o, t)'
      /\ \A o, t \in Devices \ {d} : ReadAt(o, t)'
  BY Elsewhere
<1>3. StartAt(d)'
  <2>1. ~hw'[d].sta  BY <1>1 DEF TransferInv, StartAt
  <2> QED  BY <1>1, <2>1 DEF StartAt, Served
<1>4. WrittenAt(d)'  BY <1>1 DEF WrittenAt, Served
<1>5. ASSUME NEW t \in Devices PROVE MapAt(t)'
  <2>1. MapAt(t) /\ \A o \in Devices : ~(Writes(o, t) /\ ~Busy(o))
    BY <1>1 DEF TransferInv, Writes, Busy, Served
  <2>2. Holds(t)' <=> Holds(t)  BY DEF Holds
  <2>3. hw[t].si /\ hw[t].stat = 160 => hw'[t].si /\ hw'[t].stat = 160
    BY DEF Served
  <2> QED  BY <2>1, <2>2, <2>3 DEF MapAt, Served
<1>6. \A o \in Devices : ReadAt(o, d)'
  BY <1>1 DEF ReadAt, Reads, Served
<1> QED  BY <1>2, <1>3, <1>4, <1>5, <1>6 DEF TransferInv

\* The owner in a write, when it goes on or the chip refused.
LEMMA WriterServed ==
    ASSUME LinkInv, TransferInv, NEW d \in Devices, Served(d), hw[d].stat \in {24, 40, 48},
           hw'[d].sta = hw[d].sta, UNCHANGED <<slv, landed>>, NEW t, t = bus.target,
           t \in Devices => ~hw'[d].sto, WriterAt(d, t)'
    PROVE  TransferInv'
<1>1. d = bus.owner /\ bus.phase = "write"  BY DEF LinkInv, EventInv, Served
<1>2. request[d].kind = "WRITE"
  <2>1. t \in Devices \cup {Chip}  BY <1>1 DEF LinkInv, TypeInv, BusType, PhaseInv
  <2>2. WriterAt(d, t)  BY <2>1 DEF TransferInv
  <2> QED  BY <1>1, <2>2 DEF WriterAt, Writes, Busy, Asks, Served
<1>3. BufAt(d)'  BY <1>2 DEF BufAt, Served
<1>4. ASSUME NEW u \in Devices \cup {Chip} PROVE WriterAt(d, u)' /\ ReaderAt(d, u)'
  <2>1. bus' = bus  BY DEF Served
  <2>2. CASE u = t  BY <1>1, <2>1, <2>2 DEF ReaderAt, Reads
  <2>3. CASE u # t  BY <1>1, <2>1, <2>3 DEF WriterAt, Writes, ReaderAt, Reads
  <2> QED  BY <2>2, <2>3
<1>5. \A u \in Devices : ReadAt(d, u)'  BY <1>1 DEF ReadAt, Reads, Served
<1> QED  BY <1>1, <1>3, <1>4, <1>5, OwnerServed

\* The owner in a read.
LEMMA ReaderServed ==
    ASSUME LinkInv, TransferInv, NEW d \in Devices, Served(d), hw[d].stat \in {64, 80, 88},
           hw'[d].sta = hw[d].sta, UNCHANGED <<slv, landed>>, NEW t, t = bus.target,
           Received(d)' = Received(d), ReaderAt(d, t)', BufAt(d)'
    PROVE  TransferInv'
<1>1. /\ d = bus.owner /\ bus.phase = "read" /\ bus.target # d /\ bus' = bus
  BY NameFacts DEF LinkInv, EventInv, PhaseInv, Served
<1>2. ASSUME NEW u \in Devices \cup {Chip} PROVE WriterAt(d, u)' /\ ReaderAt(d, u)'
  <2>1. CASE u = t  BY <1>1, <2>1 DEF WriterAt, Writes
  <2>2. CASE u # t  BY <1>1, <2>2 DEF WriterAt, Writes, ReaderAt, Reads
  <2> QED  BY <2>1, <2>2
<1>3. ASSUME NEW u \in Devices PROVE ReadAt(d, u)'
  <2> SUFFICES ASSUME Reads(d, u) PROVE ReadAt(d, u)'
    BY <1>1 DEF ReadAt, Reads
  <2>1. ReadAt(d, u) /\ u # d /\ hw'[u] = hw[u] /\ UNCHANGED <<expect, request, slv>>
    BY <1>1 DEF TransferInv, Reads, Served
  <2>2. /\ hw[u].si => hw[u].stat # 176
        /\ Len(expect[d]) = request[d].len
        /\ \A k \in {Received(d)} : Following(d, u, k)
    BY <2>1 DEF ReadAt, Busy, Served
  <2>3. ASSUME NEW k, Following(d, u, k) PROVE Following(d, u, k)'
    BY <2>1, <2>3 DEF Following, Serves, Served
  <2> QED  BY <2>1, <2>2, <2>3 DEF ReadAt
<1> QED  BY <1>1, <1>2, <1>3, OwnerServed

LEMMA WireBytesFacts ==
    ASSUME NEW r \in RequestType \cup {NoRequest}
    PROVE  /\ WireBytes(r) \in Seq(Nat)
           /\ r.dev >= 0 => /\ Len(WireBytes(r)) = 1 + Len(r.p) /\ WireBytes(r)[1] = r.dev
                            /\ \A i \in 1 .. Len(r.p) : WireBytes(r)[1 + i] = r.p[i]
           /\ ~(r.dev >= 0) => WireBytes(r) = r.p
<1>1. r.p \in Seq(Nat) /\ r.dev \in Nat \cup {-1}  BY RequestFields
<1>2. CASE r.dev >= 0
  <2>1. r.dev \in Nat /\ WireBytes(r) = <<r.dev>> \o r.p  BY <1>1, <1>2 DEF WireBytes
  <2>2. PICK v \in Nat, q \in Seq(Nat) : v = r.dev /\ q = r.p  BY <1>1, <2>1
  <2>3. <<v>> \o q \in Seq(Nat) /\ Len(<<v>> \o q) = 1 + Len(q) /\ (<<v>> \o q)[1] = v
    OBVIOUS
  <2>4. \A i \in 1 .. Len(q) : (<<v>> \o q)[1 + i] = q[i]
    OBVIOUS
  <2> QED  BY <1>2, <2>1, <2>2, <2>3, <2>4
<1>3. CASE ~(r.dev >= 0)
  BY <1>1, <1>3 DEF WireBytes
<1> QED  BY <1>2, <1>3

LEMMA AddressAckedKeepsTransfer ==
    ASSUME Programs, LinkInv, TransferInv, NEW d \in Devices, AddressAcked(d)
    PROVE  TransferInv'
<1>1. /\ mst[d] \in MasterType /\ hw[d] \in BlockType /\ mst[d].write \in Seq(Nat)
      /\ request[d] \in RequestType \cup {NoRequest}
  BY Fields DEF LinkInv, MasterType
<1> DEFINE first == ~mst[d].should_send_devaddr /\ mst[d].write # <<>>
<1>2. PICK n \in Nat : n = IF mst[d].should_send_devaddr THEN mst[d].remote_dev_addr
                           ELSE IF first THEN Head(mst[d].write) ELSE 0
  BY <1>1 DEF MasterType
<1>3. PICK h \in BlockType : h = hw[d]  BY <1>1
<1>4. PICK c : c = [h EXCEPT !.aa = TRUE, !.dat = n]  OBVIOUS
<1>5. c \in BlockType /\ c.sta = h.sta /\ c.sto = h.sto /\ c.dat = n  BY <1>4 DEF BlockType
<1>6. PICK m : m = [mst[d] EXCEPT !.should_send_devaddr = FALSE,
                                  !.write = IF first THEN Tail(@) ELSE @]  OBVIOUS
<1>7. Handles(d, {24}, c) /\ MasterBecomes(d, m) /\ UNCHANGED <<slv, landed>>
  BY <1>2, <1>3, <1>4, <1>6 DEF AddressAcked, MasterBecomes
<1>8. /\ Served(d) /\ hw[d].stat = 24
      /\ hw'[d].sta = hw[d].sta /\ hw'[d].sto = hw[d].sto /\ hw'[d].dat = n
  BY <1>3, <1>5, <1>7, HandlerServes
<1>9. /\ mst'[d] = m /\ m.operation = mst[d].operation /\ m.result = mst[d].result
      /\ m.write = IF first THEN Tail(mst[d].write) ELSE mst[d].write
  BY <1>1, <1>6, <1>7 DEF MasterBecomes, MasterType, LinkInv, TypeInv
<1>10. PICK t : t = bus.target  OBVIOUS
<1>11. /\ d = bus.owner /\ bus.phase = "write" /\ ~hw[d].sto /\ t \in Devices \cup {Chip}
       /\ hw[d].si
  <2>1. hw[d].si  BY <1>8 DEF Served
  <2>2. d = bus.owner /\ bus.phase = "write"
    BY <1>8, <2>1, NameFacts DEF LinkInv, EventInv, PhaseInv, Outside
  <2>3. ~hw[d].sto  BY <2>1, <2>2 DEF LinkInv, StopInv
  <2>4. t \in Devices \cup {Chip}
    BY <1>10, <2>2 DEF LinkInv, PhaseInv, TypeInv, BusType
  <2> QED  BY <2>1, <2>2, <2>3, <2>4
<1>12. /\ Fresh(d)
       /\ Asks(d, t, "WRITE")
       /\ t \in Devices => wire[t] = <<>>
  <2>1. StartAt(d) /\ WriterAt(d, t)  BY <1>11 DEF TransferInv
  <2>2. Fresh(d)  BY <1>8, <1>11, <2>1 DEF StartAt
  <2> QED  BY <1>8, <1>10, <1>11, <2>1, <2>2 DEF WriterAt, Writes, Busy
<1>13. ASSUME t \in Devices PROVE Sent(d, t, 1)'
  <2>1. PICK w \in Seq(Nat) : w = WireBytes(request[d])  BY <1>1, WireBytesFacts
  <2>2. PICK p \in Seq(Nat) : p = request[d].p  BY <1>1, RequestFields
  <2>3. w # <<>> /\ mst[d].write = p /\ mst[d].should_send_devaddr = (request[d].dev >= 0)
    BY <1>12, <1>13, <2>1, <2>2 DEF Programs, Orderly, Fresh, Asks
  <2>4. /\ Len(w) = 1 + Len(m.write) /\ w[1] = n
        /\ \A i \in 1 .. Len(m.write) : m.write[i] = w[1 + i]
    <3>1. CASE request[d].dev >= 0
      <4>1. /\ Len(w) = 1 + Len(p) /\ w[1] = request[d].dev
            /\ \A i \in 1 .. Len(p) : w[1 + i] = p[i]
        BY <1>1, <2>1, <2>2, <3>1, WireBytesFacts
      <4>2. m.write = p /\ n = request[d].dev
        BY <1>2, <1>9, <1>12, <2>3, <3>1 DEF Fresh
      <4> QED  BY <4>1, <4>2
    <3>2. CASE ~(request[d].dev >= 0)
      <4>1. w = p  BY <1>1, <2>1, <2>2, <3>2, WireBytesFacts
      <4>2. m.write = Tail(p) /\ n = Head(p)
        BY <1>2, <1>9, <2>3, <3>2, <4>1
      <4>3. Len(p) = 1 + Len(Tail(p)) /\ Head(p) = p[1] /\ \A i \in 1 .. Len(Tail(p)) : Tail(p)[i] = p[1 + i]
        BY <2>3, <4>1
      <4> QED  BY <4>1, <4>2, <4>3
    <3> QED  BY <3>1, <3>2
  <2>5. /\ request'[d] = request[d] /\ wire'[t] = <<>> /\ mst'[d].write = m.write
        /\ hw'[d].dat = n /\ Len(<<>>) = 0
    BY <1>8, <1>9, <1>12, <1>13 DEF Served
  <2>6. Len(m.write) \in Nat /\ \A i \in 1 .. Len(m.write) : 0 + 1 + i = 1 + i
    BY <1>1, <1>9
  <2> QED  BY <2>1, <2>4, <2>5, <2>6 DEF Sent
<1>14. WriterAt(d, t)'
  <2>1. Asks(d, t, "WRITE")'  BY <1>8, <1>9, <1>12 DEF Asks, Served
  <2> QED  BY <1>8, <1>11, <1>13, <2>1 DEF WriterAt, Served
<1> QED  BY <1>7, <1>8, <1>10, <1>11, <1>14, WriterServed

LEMMA OwnerFacts ==
    ASSUME LinkInv, NEW d \in Devices, hw[d].si,
           hw[d].stat \in {24, 32, 40, 48, 64, 72, 80, 88}
    PROVE  /\ d = bus.owner /\ ~hw[d].sto /\ bus.target \in Devices \cup {Chip} /\ bus.target # d
           /\ bus.phase = IF hw[d].stat \in {24, 40, 48} THEN "write"
                          ELSE IF hw[d].stat \in {32, 72} THEN "refused" ELSE "read"
<1>1. /\ d = bus.owner
      /\ bus.phase = IF hw[d].stat \in {24, 40, 48} THEN "write"
                     ELSE IF hw[d].stat \in {32, 72} THEN "refused" ELSE "read"
  BY DEF LinkInv, EventInv, PhaseInv, Outside
<1>2. ~hw[d].sto  BY <1>1 DEF LinkInv, StopInv
<1>3. bus.target # None /\ bus.target # d
  BY <1>1, NameFacts DEF LinkInv, PhaseInv
<1> QED  BY <1>1, <1>2, <1>3 DEF LinkInv, TypeInv, BusType

LEMMA StopFields ==
    ASSUME NEW h \in BlockType
    PROVE  /\ StopAndAck(h) \in BlockType /\ StopAndAck(h).sto /\ StopAndAck(h).sta = h.sta
           /\ StopAndAck(h).dat = h.dat
BY DEF StopAndAck, BlockType

\* What the handlers at the ends of a transfer, and outside of one, do.
LEMMA BusErrorSeenKeepsTransfer ==
    ASSUME LinkInv, TransferInv, NEW d \in Devices, BusErrorSeen(d)
    PROVE  TransferInv'
<1>1. PICK h \in BlockType : h = hw[d]  BY Fields DEF LinkInv
<1>2. PICK c \in BlockType : c = StopAndAck(h) /\ c.sta = h.sta  BY StopFields
<1>3. Handles(d, {0}, c) /\ UNCHANGED <<mst, slv, landed>>  BY <1>1, <1>2 DEF BusErrorSeen
<1>4. Served(d) /\ hw[d].stat = 0 /\ hw'[d].sta = hw[d].sta
  BY <1>1, <1>2, <1>3, HandlerServes
<1>5. Outside(d)  BY <1>4 DEF LinkInv, EventInv, Served
<1>6. StartAt(d)'
  <2>1. StartAt(d)  BY DEF TransferInv
  <2> QED  BY <1>3, <1>4, <1>5, <2>1 DEF StartAt, Fresh, Outside, Served
<1> QED  BY <1>3, <1>4, <1>6, OutsiderServed

LEMMA StartSentKeepsTransfer ==
    ASSUME LinkInv, TransferInv, NEW d \in Devices, StartSent(d)
    PROVE  TransferInv'
<1>1. PICK h \in BlockType : h = hw[d]  BY Fields DEF LinkInv
<1>2. PICK n \in Nat : n = mst[d].remote_i2c_addr + IF mst[d].operation = "READ" THEN 1 ELSE 0
  <2>1. mst[d].remote_i2c_addr \in Nat  BY Fields DEF LinkInv, MasterType
  <2> QED  BY <2>1
<1>3. PICK c \in BlockType : c = [h EXCEPT !.aa = TRUE, !.sta = FALSE, !.dat = n]
  BY DEF BlockType
<1>4. c.dat = n /\ ~c.sta /\ c.sto = h.sto  BY <1>3 DEF BlockType
<1>5. Handles(d, {8, 16}, c) /\ UNCHANGED <<mst, slv, landed>>
  BY <1>1, <1>2, <1>3 DEF StartSent
<1>6. Served(d) /\ hw[d].stat \in {8, 16} /\ hw'[d].dat = n /\ ~hw'[d].sta
  BY <1>4, <1>5, HandlerServes
<1>7. hw[d].stat = 8 /\ d \in bus.contend
  BY <1>6 DEF LinkInv, EventInv, Served
<1>8. d # bus.owner  BY <1>7, NameFacts DEF LinkInv, PhaseInv
<1>9. StartAt(d)'
  <2>1. Fresh(d)  BY <1>7 DEF TransferInv, StartAt
  <2>2. Fresh(d)'  BY <1>5, <1>6, <2>1 DEF Fresh, Served
  <2>3. n = AddressByte(request[d])  BY <1>2, <2>1 DEF Fresh, AddressByte
  <2> QED  BY <1>6, <1>7, <1>8, <2>2, <2>3 DEF StartAt, Served
<1> QED  BY <1>5, <1>6, <1>7, <1>9, OutsiderServed

LEMMA ArbitrationLostKeepsTransfer ==
    ASSUME LinkInv, TransferInv, NEW d \in Devices, ArbitrationLost(d)
    PROVE  TransferInv'
<1>1. PICK h \in BlockType : h = hw[d]  BY Fields DEF LinkInv
<1>2. PICK c \in BlockType : c = Restart(h)  BY DEF Restart, BlockType
<1>3. Handles(d, {56}, c) /\ UNCHANGED <<mst, slv, landed>>  BY <1>1, <1>2 DEF ArbitrationLost
<1>4. Served(d) /\ hw[d].stat = 56  BY <1>3, HandlerServes
<1>5. Outside(d)  BY <1>4 DEF LinkInv, EventInv, Served
<1>6. StartAt(d)'
  <2>1. Fresh(d)  BY <1>4 DEF TransferInv, StartAt, Served
  <2>2. Fresh(d)'  BY <1>3, <1>4, <2>1 DEF Fresh, Served
  <2> QED  BY <1>4, <1>5, <2>2 DEF StartAt, Outside, Served
<1> QED  BY <1>3, <1>4, <1>6, OutsiderServed

LEMMA AddressRefusedKeepsTransfer ==
    ASSUME LinkInv, TransferInv, NEW d \in Devices, AddressRefused(d)
    PROVE  TransferInv'
<1>1. PICK h \in BlockType : h = hw[d]  BY Fields DEF LinkInv
<1>2. PICK c \in BlockType : c = StopAndAck(h) /\ c.sta = h.sta /\ c.sto  BY StopFields
<1>3. PICK m : m = [mst[d] EXCEPT !.result = 1, !.operation = "NOP",
                                  !.write = <<>>, !.read_len = 0]  OBVIOUS
<1>4. Handles(d, {32, 72}, c) /\ MasterBecomes(d, m) /\ UNCHANGED <<slv, landed>>
  BY <1>1, <1>2, <1>3 DEF AddressRefused, MasterBecomes
<1>5. Served(d) /\ hw[d].stat \in {32, 72} /\ hw'[d].sta = hw[d].sta /\ hw'[d].sto
  BY <1>1, <1>2, <1>4, HandlerServes
<1>6. d = bus.owner /\ bus.phase = "refused" /\ bus' = bus
  BY <1>5, OwnerFacts DEF Served
<1>7. mst'[d] = m /\ m.result = 1 /\ m.buf = mst[d].buf
  BY <1>3, <1>4, Fields DEF MasterBecomes, MasterType, LinkInv, TypeInv
<1>8. BufAt(d)'
  BY <1>5, <1>7 DEF TransferInv, BufAt, Served
<1>9. \A t \in Devices \cup {Chip} : WriterAt(d, t)' /\ ReaderAt(d, t)'
  BY <1>6 DEF WriterAt, ReaderAt, Writes, Reads
<1>10. \A t \in Devices : ReadAt(d, t)'  BY <1>6 DEF ReadAt, Reads
<1> QED  BY <1>4, <1>5, <1>6, <1>8, <1>9, <1>10, OwnerServed

LEMMA ByteAckedKeepsTransfer ==
    ASSUME LinkInv, TransferInv, NEW d \in Devices, ByteAcked(d)
    PROVE  TransferInv'
<1>1. PICK h \in BlockType : h = hw[d]  BY Fields DEF LinkInv
<1>2. PICK p \in Seq(Nat) : p = mst[d].write  BY Fields DEF LinkInv, MasterType
<1>3. p # <<>>  BY <1>2 DEF ByteAcked
<1>4. PICK n \in Nat : n = Head(p)  BY <1>3
<1>5. PICK c \in BlockType : c = [h EXCEPT !.aa = TRUE, !.dat = n]  BY DEF BlockType
<1>6. c.sta = h.sta /\ c.sto = h.sto /\ c.dat = n  BY <1>5 DEF BlockType
<1>7. PICK m : m = [mst[d] EXCEPT !.write = Tail(@)]  OBVIOUS
<1>8. Handles(d, {40}, c) /\ MasterBecomes(d, m) /\ UNCHANGED <<slv, landed>>
  BY <1>1, <1>2, <1>4, <1>5, <1>7 DEF ByteAcked, MasterBecomes
<1>9. /\ Served(d) /\ hw[d].stat = 40
      /\ hw'[d].sta = hw[d].sta /\ hw'[d].sto = hw[d].sto /\ hw'[d].dat = n
  BY <1>1, <1>6, <1>8, HandlerServes
<1>10. PICK t : t = bus.target  OBVIOUS
<1>11. /\ d = bus.owner /\ bus.phase = "write" /\ ~hw[d].sto /\ t \in Devices \cup {Chip}
       /\ hw[d].si
  BY <1>9, <1>10, OwnerFacts DEF Served
<1>12. /\ mst'[d] = m /\ m.operation = mst[d].operation /\ m.result = mst[d].result
       /\ m.write = Tail(p)
  BY <1>2, <1>7, <1>8, Fields DEF MasterBecomes, MasterType, LinkInv, TypeInv
<1>13. /\ Asks(d, t, "WRITE")
       /\ t \in Devices => Sent(d, t, 0)
  <2>1. WriterAt(d, t)  BY <1>11 DEF TransferInv
  <2> QED  BY <1>9, <1>10, <1>11, <2>1 DEF WriterAt, Writes, Busy
<1>14. ASSUME t \in Devices PROVE Sent(d, t, 1)'
  <2>1. PICK w \in Seq(Nat) : w = WireBytes(request[d])
    BY Fields, WireBytesFacts DEF LinkInv
  <2>2. PICK v \in Seq(Nat) : v = wire[t]  BY <1>14, Fields DEF LinkInv
  <2>3. PICK j \in Nat : j = Len(v)  BY <2>2
  <2>4. PICK k \in Nat : k = Len(p)  OBVIOUS
  <2>5. /\ Len(w) = j + k /\ \A i \in 1 .. j : v[i] = w[i]
        /\ \A i \in 1 .. k : p[i] = w[j + i]
    <3>1. /\ Len(w) = j + 0 + k /\ \A i \in 1 .. j : v[i] = w[i]
          /\ \A i \in 1 .. k : p[i] = w[j + 0 + i]
      BY <1>2, <1>13, <1>14, <2>1, <2>2, <2>3, <2>4 DEF Sent
    <3>2. \A i \in Int : j + 0 + i = j + i  OBVIOUS
    <3> QED  BY <3>1, <3>2
  <2>6. PICK q \in Seq(Nat) : q = Tail(p)
    <3>1. Tail(p) \in Seq(Nat)  BY <1>3
    <3> QED  BY <3>1
  <2>7. k >= 1 /\ Len(q) = k - 1 /\ n = p[1] /\ \A i \in 1 .. k - 1 : q[i] = p[i + 1]
    BY <1>3, <1>4, <2>4, <2>6
  <2>8. /\ Len(w) = j + 1 + Len(q) /\ n = w[j + 1]
        /\ \A i \in 1 .. Len(q) : q[i] = w[j + 1 + i]
    BY <2>5, <2>7
  <2>9. request'[d] = request[d] /\ wire'[t] = v /\ mst'[d].write = q /\ hw'[d].dat = n
    BY <1>9, <1>12, <2>2, <2>6 DEF Served
  <2> QED  BY <2>1, <2>3, <2>5, <2>8, <2>9 DEF Sent
<1>15. WriterAt(d, t)'
  <2>1. Asks(d, t, "WRITE")'  BY <1>9, <1>12, <1>13 DEF Asks, Served
  <2> QED  BY <1>9, <1>11, <1>14, <2>1 DEF WriterAt, Served
<1> QED  BY <1>8, <1>9, <1>10, <1>11, <1>15, WriterServed

\* Only the chip refuses a byte: the handlers of this driver leave AA set while
\* they are written to.
LEMMA ByteRefusedKeepsTransfer ==
    ASSUME LinkInv, TransferInv, NEW d \in Devices, ByteRefused(d)
    PROVE  TransferInv'
<1>1. PICK h \in BlockType : h = hw[d]  BY Fields DEF LinkInv
<1>2. PICK c \in BlockType : c = StopAndAck(h) /\ c.sta = h.sta /\ c.sto  BY StopFields
<1>3. PICK m : m = [mst[d] EXCEPT !.operation = "NOP"]  OBVIOUS
<1>4. Handles(d, {48}, c) /\ MasterBecomes(d, m) /\ UNCHANGED <<slv, landed>>
  BY <1>1, <1>2, <1>3 DEF ByteRefused, MasterBecomes
<1>5. Served(d) /\ hw[d].stat = 48 /\ hw'[d].sta = hw[d].sta /\ hw'[d].sto
  BY <1>1, <1>2, <1>4, HandlerServes
<1>6. PICK t : t = bus.target  OBVIOUS
<1>7. /\ d = bus.owner /\ bus.phase = "write" /\ t \in Devices \cup {Chip} /\ bus' = bus
      /\ hw[d].si
  BY <1>5, <1>6, OwnerFacts DEF Served
<1>8. t \notin Devices
  <2>1. WriterAt(d, t)  BY <1>7 DEF TransferInv
  <2> QED  BY <1>5, <1>6, <1>7, <2>1 DEF WriterAt, Writes
<1>9. WriterAt(d, t)'  BY <1>5, <1>8 DEF WriterAt, Busy, Served
<1> QED  BY <1>4, <1>5, <1>6, <1>8, <1>9, WriterServed

\* The last byte of a write to a device was acknowledged: all of it is on the
\* wire, and the registers will have it at the STOP.
LEMMA LastByteAckedKeepsTransfer ==
    ASSUME Programs, LinkInv, TransferInv, NEW d \in Devices, LastByteAcked(d)
    PROVE  TransferInv'
<1>1. PICK h \in BlockType : h = hw[d]  BY Fields DEF LinkInv
<1>2. PICK c \in BlockType : c = StopAndAck(h) /\ c.sta = h.sta /\ c.sto  BY StopFields
<1>3. PICK m : m = [mst[d] EXCEPT !.operation = "NOP"]  OBVIOUS
<1>4. Handles(d, {40}, c) /\ MasterBecomes(d, m) /\ mst[d].write = <<>> /\ UNCHANGED slv
  BY <1>1, <1>2, <1>3 DEF LastByteAcked, MasterBecomes
<1>5. Served(d) /\ hw[d].stat = 40 /\ hw'[d].sta = hw[d].sta /\ hw'[d].sto
  BY <1>1, <1>2, <1>4, HandlerServes
<1>6. PICK t : t = bus.target  OBVIOUS
<1>7. /\ d = bus.owner /\ bus.phase = "write" /\ ~hw[d].sto /\ t \in Devices \cup {Chip}
      /\ t # d /\ bus' = bus /\ hw[d].si
  BY <1>5, <1>6, OwnerFacts DEF Served
<1>8. /\ request[d] \in Requests[d] /\ request[d].kind = "WRITE" /\ request[d].tgt = t
      /\ t \in Devices => Sent(d, t, 0)
  <2>1. WriterAt(d, t)  BY <1>7 DEF TransferInv
  <2> QED  BY <1>5, <1>6, <1>7, <2>1 DEF WriterAt, Writes, Busy, Asks
<1>9. CASE t = Chip
  <2>1. UNCHANGED landed
    <3>1. landed' = [e \in Devices |-> IF e = t THEN request[d] ELSE landed[e]]
      BY <1>8 DEF LastByteAcked
    <3> QED  BY <1>9, <3>1, NameFacts DEF LinkInv, TypeInv
  <2>2. WriterAt(d, t)'  BY <1>5, <1>9, NameFacts DEF WriterAt, Busy, Served
  <2> QED  BY <1>4, <1>5, <1>6, <1>9, <2>1, <2>2, NameFacts, WriterServed
<1>10. CASE t \in Devices
  <2>1. /\ landed'[t] = request[d] /\ \A e \in Devices \ {t} : landed'[e] = landed[e]
    BY <1>8, <1>10 DEF LastByteAcked
  <2>2. Landed(t)'
    <3>1. PICK w \in Seq(Nat) : w = WireBytes(request[d])
      BY Fields, WireBytesFacts DEF LinkInv
    <3>2. PICK v \in Seq(Nat) : v = wire[t]  BY <1>10, Fields DEF LinkInv
    <3>3. PICK j \in Nat : j = Len(v)  OBVIOUS
    <3>4. Len(w) = j + 0 + 0 /\ \A i \in 1 .. j : v[i] = w[i]
      <4>1. Len(mst[d].write) = 0  BY <1>4
      <4> QED  BY <1>8, <1>10, <3>1, <3>2, <3>3, <4>1 DEF Sent
    <3>5. v = w  BY <3>3, <3>4, SeqEqual
    <3>6. w # <<>>  BY <1>8, <1>10, <3>1 DEF Programs, Orderly
    <3>7. wire'[t] = wire[t] /\ WireBytes(landed'[t]) = w /\ landed'[t].tgt = t
      BY <1>5, <1>8, <2>1, <3>1 DEF Served
    <3> QED  BY <3>2, <3>5, <3>6, <3>7 DEF Landed
  <2>3. /\ \A e \in Devices \ {d} : StartAt(e)' /\ BufAt(e)' /\ WrittenAt(e)'
        /\ \A o \in Devices \ {d}, u \in Devices \cup {Chip} : WriterAt(o, u)' /\ ReaderAt(o, u)'
        /\ \A o, u \in Devices \ {d} : ReadAt(o, u)'
    <3>1. \A e \in Devices : landed'[e] = landed[e] \/ Writes(d, e)
      BY <1>6, <1>7, <2>1 DEF Writes
    <3> QED  BY <1>5, <3>1, Elsewhere
  <2>4. StartAt(d)'
    <3>1. ~hw[d].sta /\ d \notin bus.contend
      BY <1>7 DEF TransferInv, StartAt, LinkInv, PhaseInv
    <3> QED  BY <1>5, <1>7, <3>1 DEF StartAt, Served
  <2>5. WrittenAt(d)'  BY <1>6, <1>7, <1>5 DEF WrittenAt, Served
  <2>6. BufAt(d)'  BY <1>5, <1>8 DEF BufAt, Served
  <2>7. ASSUME NEW u \in Devices \cup {Chip} PROVE WriterAt(d, u)' /\ ReaderAt(d, u)'
    <3>1. CASE u = t
      BY <1>5, <1>7, <1>10, <2>2, <3>1 DEF WriterAt, Busy, ReaderAt, Reads, Served
    <3>2. CASE u # t
      BY <1>6, <1>7, <3>2 DEF WriterAt, Writes, ReaderAt, Reads
    <3> QED  BY <3>1, <3>2
  <2>8. \A o, u \in Devices : o = d \/ u = d => ReadAt(o, u)'
    BY <1>7 DEF ReadAt, Reads
  <2>9. ASSUME NEW u \in Devices PROVE MapAt(u)'
    <3>1. MapAt(u) /\ UNCHANGED <<slv, wire>>  BY <1>4, <1>5 DEF TransferInv, Served
    <3>2. CASE u = t
      <4>1. Writes(d, t)' /\ ~Busy(d)'  BY <1>5, <1>6, <1>7 DEF Writes, Busy, Served
      <4> QED  BY <3>1, <3>2, <4>1 DEF MapAt
    <3>3. CASE u # t
      <4>1. landed'[u] = landed[u] /\ \A o \in Devices : ~Writes(o, u)
        BY <1>6, <2>1, <3>3 DEF Writes
      <4>2. Holds(u)' <=> Holds(u)  BY <3>1, <4>1 DEF Holds
      <4>3. hw[u].si /\ hw[u].stat = 160 => hw'[u].si /\ hw'[u].stat = 160
        BY <1>5 DEF Served
      <4> QED  BY <3>1, <4>1, <4>2, <4>3 DEF MapAt
    <3> QED  BY <3>2, <3>3
  <2> QED  BY <2>3, <2>4, <2>5, <2>6, <2>7, <2>8, <2>9 DEF TransferInv
<1> QED  BY <1>7, <1>9, <1>10

\* The byte a master is about to store, the last of b, is the next one it
\* expects: it has k, and has l to get.
NextIs(d, b, k, l) ==
    /\ k = Len(mst[d].buf) /\ l = mst[d].read_len /\ k + l = request[d].len
    /\ IF hw[d].stat = 80 THEN l > 1 ELSE l = 1
    /\ b \in Seq(Nat) /\ Len(b) = k + 1
    /\ request[d].tgt # Chip => /\ k + 1 <= Len(expect[d])
                                /\ \A i \in 1 .. k + 1 : b[i] = expect[d][i]

LEMMA NextByte ==
    ASSUME LinkInv, TransferInv, NEW d \in Devices, hw[d].si, hw[d].stat \in {80, 88},
           NEW b, b = Append(mst[d].buf, hw[d].dat)
    PROVE  /\ Asks(d, bus.target, "READ")
           /\ \E k \in Nat, l \in Int : NextIs(d, b, k, l)
<1>1. PICK t : t = bus.target  OBVIOUS
<1>2. Reads(d, t) /\ Busy(d) /\ t \in Devices \cup {Chip}
  BY <1>1, OwnerFacts DEF Reads, Busy
<1>3. ReaderAt(d, t) /\ BufAt(d) /\ (t \in Devices => ReadAt(d, t))
  BY <1>2 DEF TransferInv
<1>4. mst[d] \in MasterType /\ hw[d] \in BlockType /\ request[d] \in RequestType \cup {NoRequest}
  BY Fields DEF LinkInv
<1>5. PICK s \in Seq(Nat) : s = mst[d].buf  BY <1>4 DEF MasterType
<1>6. PICK n \in Nat : n = hw[d].dat  BY <1>4 DEF BlockType
<1>7. PICK k \in Nat : k = Len(s)  OBVIOUS
<1>8. /\ b \in Seq(Nat) /\ Len(b) = k + 1 /\ b[k + 1] = n /\ \A i \in 1 .. k : b[i] = s[i]
  BY <1>5, <1>6, <1>7
<1>9. /\ Asks(d, t, "READ") /\ k + mst[d].read_len = request[d].len
      /\ IF hw[d].stat = 80 THEN mst[d].read_len > 1 ELSE mst[d].read_len = 1
  BY <1>2, <1>3, <1>5, <1>7 DEF ReaderAt
<1>10. mst[d].read_len \in Int /\ request[d].len \in Nat
  BY <1>4, RequestFields DEF MasterType
<1>11. ASSUME request[d].tgt # Chip
       PROVE  k + 1 <= Len(expect[d]) /\ \A i \in 1 .. k + 1 : b[i] = expect[d][i]
  <2>1. t \in Devices /\ request[d].kind = "READ"  BY <1>2, <1>9, <1>11 DEF Asks
  <2>2. Len(expect[d]) = request[d].len /\ Following(d, t, Received(d))
    BY <1>2, <1>3, <2>1 DEF ReadAt
  <2>3. Received(d) = k + 1  BY <1>5, <1>7 DEF Received
  <2>4. n = expect[d][k + 1]  BY <1>6, <2>2, <2>3 DEF Following
  <2>5. \A i \in 1 .. k : s[i] = expect[d][i]
    BY <1>3, <1>5, <1>7, <1>11, <2>1 DEF BufAt
  <2>6. k + 1 <= request[d].len  BY <1>9, <1>10
  <2>7. \A i \in 1 .. k + 1 : i \in 1 .. k \/ i = k + 1  OBVIOUS
  <2> QED  BY <1>8, <2>2, <2>4, <2>5, <2>6, <2>7
<1>12. PICK l \in Int : l = mst[d].read_len  BY <1>10
<1>13. NextIs(d, b, k, l)
  BY <1>5, <1>7, <1>8, <1>9, <1>11, <1>12 DEF NextIs
<1> QED  BY <1>1, <1>9, <1>13

LEMMA ReadAddressAckedKeepsTransfer ==
    ASSUME LinkInv, TransferInv, NEW d \in Devices, ReadAddressAcked(d)
    PROVE  TransferInv'
<1>1. PICK h \in BlockType : h = hw[d]  BY Fields DEF LinkInv
<1>2. PICK a \in BOOLEAN : a = (mst[d].read_len # 1)  OBVIOUS
<1>3. PICK c \in BlockType : c = [h EXCEPT !.aa = a]  BY DEF BlockType
<1>4. c.sta = h.sta /\ c.sto = h.sto /\ c.aa = a  BY <1>3 DEF BlockType
<1>5. Handles(d, {64}, c) /\ UNCHANGED <<mst, slv, landed>>
  BY <1>1, <1>2, <1>3 DEF ReadAddressAcked
<1>6. /\ Served(d) /\ hw[d].stat = 64 /\ hw[d].si /\ ~hw'[d].si
      /\ hw'[d].sta = hw[d].sta /\ hw'[d].aa = a
  BY <1>1, <1>4, <1>5, HandlerServes DEF Served
<1>7. PICK t : t = bus.target  OBVIOUS
<1>8. Reads(d, t) /\ Busy(d) /\ t \in Devices \cup {Chip} /\ bus' = bus
  BY <1>6, <1>7, OwnerFacts DEF Reads, Busy, Served
<1>9. Received(d)' = Received(d)  BY <1>5, <1>6 DEF Received
<1>10. ReaderAt(d, t)'
  <2>1. /\ Asks(d, t, "READ") /\ Len(mst[d].buf) + mst[d].read_len = request[d].len
        /\ mst[d].read_len >= 1
    BY <1>8 DEF TransferInv, ReaderAt
  <2>2. Asks(d, t, "READ")'  BY <1>5, <1>6, <2>1 DEF Asks, Served
  <2>3. PICK l \in Int : l = mst[d].read_len  BY Fields DEF LinkInv, MasterType
  <2>4. a <=> l > 1
    <3>1. a <=> l # 1  BY <1>2, <2>3
    <3> QED  BY <2>1, <2>3, <3>1
  <2> QED  BY <1>5, <1>6, <2>1, <2>2, <2>3, <2>4 DEF ReaderAt, Served
<1>11. BufAt(d)'  BY <1>5, <1>6 DEF TransferInv, BufAt, Served
<1> QED  BY <1>5, <1>6, <1>7, <1>9, <1>10, <1>11, ReaderServed

LEMMA ByteReceivedKeepsTransfer ==
    ASSUME LinkInv, TransferInv, NEW d \in Devices, ByteReceived(d)
    PROVE  TransferInv'
<1>1. PICK h \in BlockType : h = hw[d]  BY Fields DEF LinkInv
<1>2. PICK a \in BOOLEAN : a = MoreAfter(mst[d].read_len - 1)
  <2>1. MoreAfter(mst[d].read_len - 1) \in BOOLEAN  BY DEF MoreAfter
  <2> QED  BY <2>1
<1>3. PICK c \in BlockType : c = [h EXCEPT !.aa = a]  BY DEF BlockType
<1>4. c.sta = h.sta /\ c.sto = h.sto /\ c.aa = a  BY <1>3 DEF BlockType
<1>5. PICK b : b = Append(mst[d].buf, hw[d].dat)  OBVIOUS
<1>6. PICK m : m = [mst[d] EXCEPT !.buf = b, !.read_len = @ - 1]  OBVIOUS
<1>7. Handles(d, {80}, c) /\ MasterBecomes(d, m) /\ UNCHANGED <<slv, landed>>
  BY <1>1, <1>2, <1>3, <1>5, <1>6 DEF ByteReceived, MasterBecomes
<1>8. /\ Served(d) /\ hw[d].stat = 80 /\ hw[d].si /\ ~hw'[d].si
      /\ hw'[d].sta = hw[d].sta /\ hw'[d].aa = a
  BY <1>1, <1>4, <1>7, HandlerServes DEF Served
<1>9. PICK t : t = bus.target  OBVIOUS
<1>10. /\ mst'[d] = m /\ m.operation = mst[d].operation /\ m.result = mst[d].result
       /\ m.buf = b /\ m.read_len = mst[d].read_len - 1
  <2>1. mst'[d] = m  BY <1>7 DEF MasterBecomes, LinkInv, TypeInv
  <2>2. mst[d] \in MasterType  BY Fields DEF LinkInv
  <2> QED  BY <1>6, <2>1, <2>2 DEF MasterType
<1>11. Asks(d, t, "READ")  BY <1>5, <1>8, <1>9, NextByte
<1>12. PICK k \in Nat, l \in Int : NextIs(d, b, k, l)  BY <1>5, <1>8, NextByte
<1>13. l > 1 /\ k + 1 + (l - 1) = request[d].len /\ (a <=> l - 1 > 1)
  <2>1. k + 1 + (l - 1) = k + l  OBVIOUS
  <2>2. l > 1 /\ l = mst[d].read_len /\ k + l = request[d].len  BY <1>8, <1>12 DEF NextIs
  <2> QED  BY <1>2, <2>1, <2>2 DEF MoreAfter
<1>14. Received(d)' = Received(d)
  <2>1. mst'[d].buf = b  BY <1>10
  <2>2. Len(b) = k + 1 /\ Len(mst[d].buf) = k  BY <1>12 DEF NextIs
  <2> QED  BY <1>8, <2>1, <2>2 DEF Received
<1>15. ReaderAt(d, t)'
  <2>1. Asks(d, t, "READ")'  BY <1>8, <1>10, <1>11 DEF Asks, Served
  <2>2. mst'[d].read_len = l - 1 /\ Len(mst'[d].buf) = k + 1 /\ l - 1 >= 1
    BY <1>10, <1>12, <1>13 DEF NextIs
  <2> QED  BY <1>8, <1>13, <2>1, <2>2 DEF ReaderAt, Served
<1>16. BufAt(d)'
  <2>1. k + 1 <= request[d].len
    <3>1. request[d].len \in Nat  BY Fields, RequestFields DEF LinkInv
    <3> QED  BY <1>13, <3>1
  <2>2. mst'[d].operation # "NOP"  BY <1>10, <1>11 DEF Asks
  <2>3. mst'[d].buf = b /\ UNCHANGED <<request, expect>>  BY <1>8, <1>10 DEF Served
  <2> QED  BY <1>12, <2>1, <2>2, <2>3 DEF BufAt, NextIs
<1> QED  BY <1>7, <1>8, <1>9, <1>14, <1>15, <1>16, ReaderServed

LEMMA LastByteReceivedKeepsTransfer ==
    ASSUME LinkInv, TransferInv, NEW d \in Devices, LastByteReceived(d)
    PROVE  TransferInv'
<1>1. PICK h \in BlockType : h = hw[d]  BY Fields DEF LinkInv
<1>2. PICK c \in BlockType : c = StopAndAck(h) /\ c.sta = h.sta /\ c.sto  BY StopFields
<1>3. PICK b : b = Append(mst[d].buf, hw[d].dat)  OBVIOUS
<1>4. PICK m : m = [mst[d] EXCEPT !.buf = b, !.operation = "NOP"]  OBVIOUS
<1>5. Handles(d, {88}, c) /\ MasterBecomes(d, m) /\ UNCHANGED <<slv, landed>>
  BY <1>1, <1>2, <1>3, <1>4 DEF LastByteReceived, StopAfterRead, MasterBecomes
<1>6. /\ Served(d) /\ hw[d].stat = 88 /\ hw[d].si /\ ~hw'[d].si
      /\ hw'[d].sta = hw[d].sta /\ hw'[d].sto
  BY <1>1, <1>2, <1>5, HandlerServes DEF Served
<1>7. PICK t : t = bus.target  OBVIOUS
<1>8. mst'[d] = m /\ m.buf = b
  BY <1>4, <1>5, Fields DEF MasterBecomes, MasterType, LinkInv, TypeInv
<1>9. PICK k \in Nat, l \in Int : NextIs(d, b, k, l)  BY <1>3, <1>6, NextByte
<1>10. k + 1 = request[d].len  BY <1>6, <1>9 DEF NextIs
<1>11. Received(d)' = Received(d)
  <2>1. mst'[d].buf = b  BY <1>8
  <2>2. Len(b) = k + 1 /\ Len(mst[d].buf) = k  BY <1>9 DEF NextIs
  <2> QED  BY <1>6, <2>1, <2>2 DEF Received
<1>12. ReaderAt(d, t)'  BY <1>6 DEF ReaderAt, Busy
<1>13. BufAt(d)'
  <2>1. mst'[d].buf = b /\ UNCHANGED <<request, expect>>  BY <1>6, <1>8 DEF Served
  <2> QED  BY <1>9, <1>10, <2>1 DEF BufAt, NextIs
<1> QED  BY <1>5, <1>6, <1>7, <1>11, <1>12, <1>13, ReaderServed

-----------------------------------------------------------------------------
(* The handlers of the slave.                                              *)

LEMMA SlaveServed ==
    ASSUME LinkInv, TransferInv, NEW d \in Devices, Served(d),
           hw[d].stat \in {96, 128, 136, 160, 168, 176, 184, 192},
           hw'[d].sta = hw[d].sta, hw'[d].sto = hw[d].sto, UNCHANGED <<mst, landed>>,
           WrittenAt(d)', MapAt(d)', \A o \in Devices : ReadAt(o, d)'
    PROVE  TransferInv'
<1>1. d # bus.owner /\ d \notin bus.contend
  BY NameFacts DEF LinkInv, EventInv, PhaseInv, FreeBus, Outside, Served
<1>2. /\ \A e \in Devices \ {d} : StartAt(e)' /\ BufAt(e)' /\ WrittenAt(e)'
      /\ \A o \in Devices \ {d}, t \in Devices \cup {Chip} : WriterAt(o, t)' /\ ReaderAt(o, t)'
      /\ \A o, t \in Devices \ {d} : ReadAt(o, t)'
      /\ \A t \in Devices \ {d} : bus.owner # d => MapAt(t)'
  BY Elsewhere
<1>3. StartAt(d)'
  <2>1. StartAt(d)  BY DEF TransferInv
  <2> QED  BY <1>1, <2>1 DEF StartAt, Fresh, Served
<1>4. BufAt(d)'  BY DEF TransferInv, BufAt, Served
<1>5. \A t \in Devices \cup {Chip} : WriterAt(d, t)' /\ ReaderAt(d, t)'
  BY <1>1 DEF WriterAt, ReaderAt, Writes, Reads, Served
<1>6. \A t \in Devices : ReadAt(d, t)'  BY <1>1 DEF ReadAt, Reads, Served
<1> QED  BY <1>1, <1>2, <1>3, <1>4, <1>5, <1>6 DEF TransferInv

\* Who is addressed in a write has the event of its address or of a byte.
LEMMA WrittenFacts ==
    ASSUME LinkInv, TransferInv, NEW d \in Devices, hw[d].si,
           hw[d].stat \in {96, 104, 128, 136}
    PROVE  /\ bus.phase = "write" /\ bus.target = d /\ hw[d].stat \in {96, 128}
           /\ WrittenAt(d) /\ MapAt(d)
<1>1. WrittenAt(d) /\ MapAt(d)  BY DEF TransferInv
<1>2. bus.phase = "write" /\ bus.target = d  BY DEF LinkInv, EventInv, Outside
<1> QED  BY <1>1, <1>2 DEF WrittenAt

\* The registers do not change, and t has no STOP to see.
LEMMA MapStays ==
    ASSUME LinkInv, TransferInv, NEW d \in Devices, Served(d), hw[d].stat # 160,
           UNCHANGED landed, slv'[d].mmap = slv[d].mmap, slv'[d].addr < MmapSize
    PROVE  MapAt(d)'
<1>1. MapAt(d)  BY DEF TransferInv
<1>2. Holds(d)' <=> Holds(d)  BY DEF Holds
<1>3. \A o \in Devices : Writes(o, d) /\ ~Busy(o) => Writes(o, d)' /\ ~Busy(o)'
  <2> SUFFICES ASSUME NEW o \in Devices, Writes(o, d), ~Busy(o)
               PROVE  Writes(o, d)' /\ ~Busy(o)'
    OBVIOUS
  <2>1. o # d  BY NameFacts DEF Writes, LinkInv, PhaseInv
  <2> QED  BY <2>1 DEF Writes, Busy, Served
<1> QED  BY <1>1, <1>2, <1>3 DEF MapAt, Served

LEMMA AckFields ==
    ASSUME NEW h \in BlockType
    PROVE  \E c \in BlockType : /\ c = [h EXCEPT !.aa = TRUE] /\ c.sta = h.sta /\ c.sto = h.sto
<1>1. PICK c : c = [h EXCEPT !.aa = TRUE]  OBVIOUS
<1>2. c \in BlockType /\ c.sta = h.sta /\ c.sto = h.sto  BY <1>1 DEF BlockType
<1> QED  BY <1>1, <1>2

LEMMA AddressedToWriteKeepsTransfer ==
    ASSUME LinkInv, TransferInv, NEW d \in Devices, AddressedToWrite(d)
    PROVE  TransferInv'
<1>1. PICK h \in BlockType : h = hw[d]  BY Fields DEF LinkInv
<1>2. PICK c \in BlockType : c = [h EXCEPT !.aa = TRUE] /\ c.sta = h.sta /\ c.sto = h.sto
  BY AckFields
<1>3. hw[d].si /\ hw[d].stat \in {96, 104}  BY DEF AddressedToWrite, Handles
<1>4. bus.phase = "write" /\ bus.target = d /\ hw[d].stat = 96 /\ WrittenAt(d) /\ MapAt(d)
  BY <1>3, WrittenFacts
<1>5. PICK s : s = [slv[d] EXCEPT !.operation = "WRITE", !.addr_start = slv[d].addr,
                                  !.waiting_addr = TRUE]  OBVIOUS
<1>6. Handles(d, {96, 104}, c) /\ SlaveBecomes(d, s) /\ UNCHANGED <<mst, landed>>
  BY <1>1, <1>2, <1>4, <1>5 DEF AddressedToWrite, SlaveBecomes
<1>7. Served(d) /\ hw'[d].sta = hw[d].sta /\ hw'[d].sto = hw[d].sto
  <2>1. PICK S : Handles(d, S, c)  BY <1>6
  <2>2. UNCHANGED <<mst, slv>> \/ \E s1 : SlaveBecomes(d, s1)  BY <1>6
  <2>3. Served(d) /\ hw'[d].sta = c.sta /\ hw'[d].sto = c.sto
    BY <1>2, <2>1, <2>2, HandlerServes
  <2> QED  BY <1>1, <1>2, <2>3
<1>8. /\ slv'[d] = s /\ s.operation = "WRITE" /\ s.waiting_addr
      /\ s.mmap = slv[d].mmap /\ s.addr = slv[d].addr
  BY <1>5, <1>6, Fields DEF SlaveBecomes, SlaveType, LinkInv, TypeInv
<1>9. WrittenAt(d)'
  <2>1. wire'[d] = <<>> /\ Len(<<>>) = 0  BY <1>3, <1>4, <1>7 DEF WrittenAt, Served
  <2>2. Taken(d, 0)'  BY <1>8 DEF Taken
  <2>3. Taken(d, Len(wire[d]))'  BY <2>1, <2>2 DEF Taken
  <2> QED  BY <1>7, <2>3 DEF WrittenAt, Served
<1>10. MapAt(d)'  BY <1>4, <1>6, <1>7, <1>8, MapStays DEF MapAt
<1>11. \A o \in Devices : ReadAt(o, d)'  BY <1>4, <1>7 DEF ReadAt, Reads, Served
<1> QED  BY <1>4, <1>6, <1>7, <1>9, <1>10, <1>11, SlaveServed

LEMMA RegisterReceivedKeepsTransfer ==
    ASSUME LinkInv, TransferInv, NEW d \in Devices, RegisterReceived(d)
    PROVE  TransferInv'
<1>1. PICK h \in BlockType : h = hw[d]  BY Fields DEF LinkInv
<1>2. PICK c \in BlockType : c = [h EXCEPT !.aa = TRUE] /\ c.sta = h.sta /\ c.sto = h.sto
  BY AckFields
<1>3. hw[d].si /\ hw[d].stat = 128 /\ slv[d].waiting_addr  BY DEF RegisterReceived, Handles
<1>4. bus.phase = "write" /\ bus.target = d /\ WrittenAt(d) /\ MapAt(d)
  BY <1>3, WrittenFacts
<1>5. PICK s : s = [slv[d] EXCEPT !.waiting_addr = FALSE, !.addr = hw[d].dat,
                                  !.addr_start = hw[d].dat]  OBVIOUS
<1>6. Handles(d, {128}, c) /\ SlaveBecomes(d, s) /\ UNCHANGED <<mst, landed>>
  BY <1>1, <1>2, <1>5 DEF RegisterReceived, SlaveBecomes
<1>7. Served(d) /\ hw'[d].sta = hw[d].sta /\ hw'[d].sto = hw[d].sto
  <2>1. PICK S : Handles(d, S, c)  BY <1>6
  <2>2. UNCHANGED <<mst, slv>> \/ \E s1 : SlaveBecomes(d, s1)  BY <1>6
  <2>3. Served(d) /\ hw'[d].sta = c.sta /\ hw'[d].sto = c.sto
    BY <1>2, <2>1, <2>2, HandlerServes
  <2> QED  BY <1>1, <1>2, <2>3
<1>8. /\ slv'[d] = s /\ s.operation = slv[d].operation /\ ~s.waiting_addr
      /\ s.mmap = slv[d].mmap /\ s.addr = hw[d].dat /\ s.addr_start = hw[d].dat
  BY <1>5, <1>6, Fields DEF SlaveBecomes, SlaveType, LinkInv, TypeInv
<1>9. PICK w \in Seq(Nat) : w = wire[d]  BY Fields DEF LinkInv
<1>10. Len(w) = 1 /\ hw[d].dat = w[1] /\ slv[d].operation = "WRITE"
  <2>1. w # <<>> /\ hw[d].dat = w[Len(w)] /\ Taken(d, Len(w) - 1)
    BY <1>3, <1>4, <1>9 DEF WrittenAt
  <2>2. PICK n \in Nat : n = Len(w) - 1  BY <2>1
  <2>3. Len(w) = n + 1 /\ Taken(d, n)  BY <2>1, <2>2
  <2>4. n = 0  BY <1>3, <2>3 DEF Taken
  <2> QED  BY <2>1, <2>3, <2>4 DEF Taken
<1>11. WrittenAt(d)'
  <2>1. Taken(d, 1)'
    <3>1. w[1] \in Nat  BY <1>9, <1>10
    <3>2. w[1] + 1 - 1 = w[1]  BY <3>1
    <3>3. wire'[d] = w  BY <1>7, <1>9 DEF Served
    <3> QED  BY <1>8, <1>10, <3>2, <3>3 DEF Taken
  <2>2. wire'[d] = w  BY <1>7, <1>9 DEF Served
  <2>3. Taken(d, Len(wire[d]))'  BY <1>10, <2>1, <2>2 DEF Taken
  <2> QED  BY <1>7, <2>3 DEF WrittenAt, Served
<1>12. MapAt(d)'
  <2>1. w[1] + 1 <= MmapSize /\ w[1] \in Nat  BY <1>4, <1>9, <1>10 DEF MapAt, Fits
  <2>2. s.addr < MmapSize  BY <1>8, <1>10, <2>1, SizeAssumption
  <2> QED  BY <1>3, <1>6, <1>7, <1>8, <2>2, MapStays
<1>13. \A o \in Devices : ReadAt(o, d)'  BY <1>4, <1>7 DEF ReadAt, Reads, Served
<1> QED  BY <1>3, <1>6, <1>7, <1>11, <1>12, <1>13, SlaveServed

LEMMA DataReceivedKeepsTransfer ==
    ASSUME LinkInv, TransferInv, NEW d \in Devices, DataReceived(d)
    PROVE  TransferInv'
<1>1. PICK h \in BlockType : h = hw[d]  BY Fields DEF LinkInv
<1>2. PICK c \in BlockType : c = [h EXCEPT !.aa = TRUE] /\ c.sta = h.sta /\ c.sto = h.sto
  BY AckFields
<1>3. hw[d].si /\ hw[d].stat = 128 /\ ~slv[d].waiting_addr  BY DEF DataReceived, Handles
<1>4. bus.phase = "write" /\ bus.target = d /\ WrittenAt(d) /\ MapAt(d)
  BY <1>3, WrittenFacts
<1>5. PICK w \in Seq(Nat) : w = wire[d]  BY Fields DEF LinkInv
<1>6. PICK r \in SlaveType : r = slv[d]  BY Fields DEF LinkInv
<1>7. PICK n \in Nat \ {0} : /\ Len(w) = n + 1 /\ Taken(d, n) /\ hw[d].dat = w[n + 1]
  <2>1. w # <<>> /\ hw[d].dat = w[Len(w)] /\ Taken(d, Len(w) - 1)
    BY <1>3, <1>4, <1>5 DEF WrittenAt
  <2>2. PICK n \in Nat : n = Len(w) - 1  BY <2>1
  <2>3. Len(w) = n + 1 /\ Taken(d, n) /\ hw[d].dat = w[n + 1]  BY <2>1, <2>2
  <2>4. n # 0  BY <1>3, <2>3 DEF Taken
  <2> QED  BY <2>3, <2>4
<1>8. PICK a \in Nat : a = w[1]  BY <1>7
<1>9. /\ a + (n + 1) <= MmapSize /\ r.addr = a + n - 1 /\ r.addr_start = a
      /\ r.operation = "WRITE" /\ ~r.waiting_addr /\ \A i \in 2 .. n : r.tmp[a + i - 2] = w[i]
  <2>1. w # <<>>  BY <1>7
  <2> QED  BY <1>4, <1>5, <1>6, <1>7, <1>8, <2>1 DEF MapAt, Fits, Taken
<1>10. r.addr \in Nat /\ r.addr + 1 < MmapSize /\ MmapSize \in Nat
  BY <1>6, <1>9, SizeAssumption DEF SlaveType
<1>11. PICK m : m = [r.tmp EXCEPT ![r.addr] = w[n + 1]]  OBVIOUS
<1>12. \A i \in 2 .. n + 1 : m[a + i - 2] = w[i]
  <2>1. r.tmp \in [0 .. MmapSize - 1 -> Nat]  BY <1>6 DEF SlaveType, Registers
  <2>2. m[r.addr] = w[n + 1] /\ \A i \in 0 .. MmapSize - 1 : i # r.addr => m[i] = r.tmp[i]
    BY <1>10, <1>11, <2>1
  <2>3. ASSUME NEW i \in 2 .. n PROVE m[a + i - 2] = w[i]
    <3>1. a + i - 2 \in 0 .. MmapSize - 1 /\ a + i - 2 # r.addr  BY <1>9, <1>10
    <3> QED  BY <1>9, <2>2, <3>1
  <2>4. a + (n + 1) - 2 = r.addr  BY <1>9
  <2>5. \A i \in 2 .. n + 1 : i \in 2 .. n \/ i = n + 1  OBVIOUS
  <2> QED  BY <2>2, <2>3, <2>4, <2>5
<1>13. PICK s : s = [r EXCEPT !.tmp = m, !.addr = r.addr + 1]  OBVIOUS
<1>14. /\ s.operation = "WRITE" /\ ~s.waiting_addr /\ s.mmap = r.mmap
       /\ s.addr = r.addr + 1 /\ s.addr_start = a /\ s.tmp = m
  BY <1>9, <1>13 DEF SlaveType
<1>15. [Store(r, hw[d].dat) EXCEPT !.addr = AfterWrite(@)] = s
  <2>1. PICK j : j = [r EXCEPT !.tmp = m]  OBVIOUS
  <2>2. Store(r, hw[d].dat) = j
    BY <1>7, <1>10, <1>11, <2>1 DEF Store, SlaveType
  <2>3. j.addr = r.addr  BY <2>1 DEF SlaveType
  <2>4. AfterWrite(r.addr) = r.addr + 1  BY <1>10 DEF AfterWrite
  <2> QED  BY <1>13, <2>1, <2>2, <2>3, <2>4
<1>16. Handles(d, {128}, c) /\ SlaveBecomes(d, s) /\ UNCHANGED <<mst, landed>>
  BY <1>1, <1>2, <1>6, <1>15 DEF DataReceived, SlaveBecomes
<1>17. Served(d) /\ hw'[d].sta = hw[d].sta /\ hw'[d].sto = hw[d].sto
  <2>1. PICK S : Handles(d, S, c)  BY <1>16
  <2>2. UNCHANGED <<mst, slv>> \/ \E s1 : SlaveBecomes(d, s1)  BY <1>16
  <2>3. Served(d) /\ hw'[d].sta = c.sta /\ hw'[d].sto = c.sto
    BY <1>2, <2>1, <2>2, HandlerServes
  <2> QED  BY <1>1, <1>2, <2>3
<1>18. slv'[d] = s  BY <1>16 DEF SlaveBecomes, LinkInv, TypeInv
<1>19. WrittenAt(d)'
  <2>1. Taken(d, n + 1)'
    <3>1. wire'[d] = w  BY <1>5, <1>17 DEF Served
    <3>2. s.addr = a + (n + 1) - 1  BY <1>9, <1>14
    <3>3. /\ slv'[d].operation = "WRITE" /\ ~slv'[d].waiting_addr /\ slv'[d].addr_start = a
          /\ slv'[d].addr = a + (n + 1) - 1 /\ slv'[d].tmp = m
      BY <1>14, <1>18, <3>2
    <3>4. wire'[d][1] = a /\ n + 1 # 0  BY <1>8, <3>1
    <3>5. \A i \in 2 .. n + 1 : slv'[d].tmp[wire'[d][1] + i - 2] = wire'[d][i]
      BY <1>12, <3>1, <3>3, <3>4
    <3> QED  BY <3>3, <3>4, <3>5 DEF Taken
  <2>2. wire'[d] = w  BY <1>5, <1>17 DEF Served
  <2>3. Taken(d, Len(wire[d]))'  BY <1>7, <2>1, <2>2 DEF Taken
  <2> QED  BY <1>17, <2>3 DEF WrittenAt, Served
<1>20. MapAt(d)'  BY <1>3, <1>6, <1>10, <1>14, <1>16, <1>17, <1>18, MapStays
<1>21. \A o \in Devices : ReadAt(o, d)'  BY <1>4, <1>17 DEF ReadAt, Reads, Served
<1> QED  BY <1>3, <1>16, <1>17, <1>19, <1>20, <1>21, SlaveServed

\* What the STOP does: the invariant is kept, and the registers change to what
\* the write carried.
LEMMA StopSeenKeepsTransfer ==
    ASSUME LinkInv, TransferInv, NEW d \in Devices, StopSeen(d)
    PROVE  /\ TransferInv'
           /\ Landed(d) /\ slv'[d].mmap = Put(slv[d].mmap, Head(wire[d]), Tail(wire[d]))
<1>1. PICK h \in BlockType : h = hw[d]  BY Fields DEF LinkInv
<1>2. PICK c \in BlockType : c = [h EXCEPT !.aa = TRUE] /\ c.sta = h.sta /\ c.sto = h.sto
  BY AckFields
<1>3. hw[d].si /\ hw[d].stat = 160  BY DEF StopSeen, Handles
<1>4. Landed(d) /\ Taken(d, Len(wire[d])) /\ MapAt(d) /\ Outside(d)
  BY <1>3 DEF TransferInv, WrittenAt, LinkInv, EventInv
<1>5. PICK w \in Seq(Nat) : w = wire[d]  BY Fields DEF LinkInv
<1>6. PICK r \in SlaveType : r = slv[d]  BY Fields DEF LinkInv
<1>7. PICK n \in Nat \ {0} : n = Len(w)  BY <1>4, <1>5 DEF Landed
<1>8. /\ w # <<>> /\ w[1] + Len(w) <= MmapSize /\ r.addr_start = w[1]
      /\ r.addr = w[1] + Len(w) - 1 /\ r.operation = "WRITE"
      /\ \A i \in 2 .. Len(w) : r.tmp[w[1] + i - 2] = w[i]
  <2>1. w # <<>>  BY <1>7
  <2>2. Taken(d, n)  BY <1>4, <1>5, <1>7
  <2>3. w[1] + Len(w) <= MmapSize  BY <1>4, <1>5, <2>1 DEF MapAt, Fits
  <2> QED  BY <1>5, <1>6, <1>7, <2>1, <2>2, <2>3 DEF Taken
<1>9. /\ Flush(r).mmap = Put(r.mmap, Head(w), Tail(w))
      /\ \A i \in 2 .. Len(w) : Flush(r).mmap[w[1] + i - 2] = w[i]
      /\ Flush(r).addr = r.addr
  BY <1>8, FlushPuts
<1>10. PICK s : s = Flush(r)  OBVIOUS
<1>11. Handles(d, {160}, c) /\ SlaveBecomes(d, s) /\ UNCHANGED <<mst, landed>>
  BY <1>1, <1>2, <1>6, <1>8, <1>10 DEF StopSeen, SlaveBecomes
<1>12. Served(d) /\ hw'[d].sta = hw[d].sta /\ hw'[d].sto = hw[d].sto
  <2>1. PICK S : Handles(d, S, c)  BY <1>11
  <2>2. UNCHANGED <<mst, slv>> \/ \E s1 : SlaveBecomes(d, s1)  BY <1>11
  <2>3. Served(d) /\ hw'[d].sta = c.sta /\ hw'[d].sto = c.sto
    BY <1>2, <2>1, <2>2, HandlerServes
  <2> QED  BY <1>1, <1>2, <2>3
<1>13. slv'[d] = s  BY <1>11 DEF SlaveBecomes, LinkInv, TypeInv
<1>14. WrittenAt(d)'  BY <1>4, <1>12 DEF WrittenAt, Outside, Served
<1>15. MapAt(d)'
  <2>1. w = WireBytes(landed[d])  BY <1>4, <1>5 DEF Landed
  <2>2. Holds(d)'  BY <1>9, <1>10, <1>11, <1>13, <2>1 DEF Holds
  <2>3. s.addr < MmapSize  BY <1>4, <1>6, <1>9, <1>10 DEF MapAt
  <2>4. Fits(wire[d])'  BY <1>4, <1>12 DEF MapAt, Fits, Served
  <2> QED  BY <1>13, <2>2, <2>3, <2>4 DEF MapAt
<1>16. \A o \in Devices : ReadAt(o, d)'  BY <1>4, <1>12 DEF ReadAt, Reads, Outside, Served
<1>17. TransferInv'  BY <1>3, <1>11, <1>12, <1>14, <1>15, <1>16, SlaveServed
<1> QED  BY <1>4, <1>5, <1>6, <1>9, <1>10, <1>13, <1>17

LEMMA SendRegisterKeepsTransfer ==
    ASSUME LinkInv, TransferInv, NEW d \in Devices, SendRegister(d)
    PROVE  TransferInv'
<1>1. PICK h \in BlockType : h = hw[d]  BY Fields DEF LinkInv
<1>2. hw[d].si /\ hw[d].stat \in {168, 184}  BY DEF SendRegister, Handles
<1>3. bus.phase = "read" /\ bus.target = d /\ MapAt(d)
  BY <1>2 DEF LinkInv, EventInv, Outside, TransferInv
<1>4. PICK r \in SlaveType : r = slv[d]  BY Fields DEF LinkInv
<1>5. PICK a \in 0 .. MmapSize - 1 : a = r.addr
  BY <1>3, <1>4, SizeAssumption DEF MapAt, SlaveType
<1>6. PICK n \in Nat : n = r.mmap[a]  BY <1>4 DEF SlaveType, Registers
<1>7. PICK c : c = [h EXCEPT !.dat = n]  OBVIOUS
<1>8. c \in BlockType /\ c.sta = h.sta /\ c.sto = h.sto /\ c.dat = n  BY <1>7 DEF BlockType
<1>9. PICK s : s = [r EXCEPT !.addr = AfterRead(@),
                             !.operation = IF hw[d].stat = 168 THEN "READ" ELSE @]  OBVIOUS
<1>10. s.mmap = r.mmap /\ s.addr = AfterRead(a)  BY <1>5, <1>9 DEF SlaveType
<1>11. Handles(d, {168, 184}, c) /\ SlaveBecomes(d, s) /\ UNCHANGED <<mst, landed>>
  <2>1. a < MmapSize  BY <1>5, SizeAssumption
  <2> QED  BY <1>1, <1>4, <1>5, <1>6, <1>7, <1>9, <2>1 DEF SendRegister, SlaveBecomes
<1>12. Served(d) /\ hw'[d].sta = hw[d].sta /\ hw'[d].sto = hw[d].sto /\ hw'[d].dat = n
  BY <1>1, <1>8, <1>11, HandlerServes
<1>13. slv'[d] = s  BY <1>11 DEF SlaveBecomes, LinkInv, TypeInv
<1>14. WrittenAt(d)'  BY <1>3, <1>12 DEF WrittenAt, Served
<1>15. MapAt(d)'
  <2>1. s.addr \in 0 .. MmapSize - 1  BY <1>10, PointerFacts
  <2>2. s.addr < MmapSize  BY <2>1, SizeAssumption
  <2> QED  BY <2>2, <1>2, <1>4, <1>10, <1>11, <1>12, <1>13, MapStays
<1>16. ASSUME NEW o \in Devices PROVE ReadAt(o, d)'
  <2> SUFFICES ASSUME Reads(o, d) PROVE ReadAt(o, d)'
    BY <1>12 DEF ReadAt, Reads, Served
  <2>1. o # d  BY <1>3, NameFacts DEF Reads, LinkInv, PhaseInv
  <2>2. hw'[o] = hw[o] /\ mst'[o] = mst[o] /\ UNCHANGED <<expect, request>>
    BY <1>12, <2>1 DEF Served
  <2>3. (Busy(o)' <=> Busy(o)) /\ Received(o)' = Received(o)  BY <2>2 DEF Busy, Received
  <2> SUFFICES ASSUME Busy(o), NEW k, k = Received(o)
               PROVE  Len(expect[o]) = request[o].len /\ Following(o, d, k)'
    BY <1>12, <2>2, <2>3 DEF ReadAt, Served
  <2>4. Len(expect[o]) = request[o].len /\ Following(o, d, k)
    BY DEF TransferInv, ReadAt
  <2>5. k \in Nat
    <3>1. PICK j \in Nat : j = Len(mst[o].buf)  BY Fields DEF LinkInv, MasterType
    <3>2. k = j + IF hw[o].si /\ hw[o].stat \in {80, 88} THEN 1 ELSE 0  BY <3>1 DEF Received
    <3> QED  BY <3>2
  <2>6. ASSUME k < Len(expect[o])
        PROVE  n = expect[o][k + 1] /\ Serves(d, o, k + 1)'
    <3>1. PICK l \in Nat : l = Len(expect[o])
      <4>1. expect[o] \in Seq(Nat)  BY Fields DEF LinkInv
      <4> QED  BY <4>1
    <3>2. \A i \in k + 1 .. l : expect[o][i] = r.mmap[(a + (i - k - 1)) % MmapSize]
      BY <1>2, <1>4, <1>5, <2>4, <2>6, <3>1 DEF Following, Serves
    <3>3. n = expect[o][k + 1]
      <4>1. PICK i \in k + 1 .. l : i = k + 1 /\ a + (i - k - 1) = a  BY <2>5, <2>6, <3>1
      <4>2. a % MmapSize = a  BY PointerFacts
      <4> QED  BY <1>6, <3>2, <4>1, <4>2
    <3>4. ASSUME NEW i \in k + 1 + 1 .. l
          PROVE  expect[o][i] = r.mmap[(AfterRead(a) + (i - (k + 1) - 1)) % MmapSize]
      <4>1. PICK j \in Nat : j = i - (k + 1) - 1  BY <2>5
      <4>2. i \in k + 1 .. l /\ a + (i - k - 1) = a + 1 + j  BY <2>5, <4>1
      <4>3. (AfterRead(a) + j) % MmapSize = (a + 1 + j) % MmapSize  BY PointerFacts
      <4> QED  BY <3>2, <4>1, <4>2, <4>3
    <3> QED  BY <1>10, <1>13, <2>2, <3>1, <3>3, <3>4 DEF Serves
  <2>7. ~hw'[d].si  BY <1>12 DEF Served
  <2> QED  BY <1>12, <2>2, <2>4, <2>6, <2>7 DEF Following
<1> QED  BY <1>2, <1>11, <1>12, <1>14, <1>15, <1>16, SlaveServed

LEMMA ReleasedKeepsTransfer ==
    ASSUME LinkInv, TransferInv, NEW d \in Devices, Released(d)
    PROVE  TransferInv'
<1>1. PICK h \in BlockType : h = hw[d]  BY Fields DEF LinkInv
<1>2. PICK c \in BlockType : c = [h EXCEPT !.aa = TRUE] /\ c.sta = h.sta /\ c.sto = h.sto
  BY AckFields
<1>3. hw[d].si /\ hw[d].stat \in {136, 192, 200, 176}  BY DEF Released, Handles
<1>4. bus.target = d /\ hw[d].stat = 192 /\ bus.phase = "read" /\ bus.owner \in Devices
  <2>1. hw[d].stat # 136  BY <1>3, WrittenFacts
  <2>2. bus.target = d /\ bus.phase = "read" /\ hw[d].stat # 200
    BY <1>3, <2>1 DEF LinkInv, EventInv, Outside
  <2>3. bus.owner \in Devices  BY <2>2 DEF LinkInv, PhaseInv
  <2>4. ReadAt(bus.owner, d)  BY <2>3 DEF TransferInv
  <2>5. hw[d].stat # 176  BY <1>3, <2>2, <2>4 DEF ReadAt, Reads
  <2> QED  BY <1>3, <2>1, <2>2, <2>3, <2>5
<1>5. Handles(d, {192}, c) /\ UNCHANGED <<mst, slv, landed>>
  <2>1. hw[d].stat # 176  BY <1>4
  <2>2. hw' = [hw EXCEPT ![d] = [[h EXCEPT !.aa = TRUE] EXCEPT !.si = FALSE]]
    BY <1>1, <2>1 DEF Released, Handles
  <2> QED  BY <1>2, <1>3, <1>4, <2>2 DEF Released, Handles
<1>6. Served(d) /\ hw'[d].sta = hw[d].sta /\ hw'[d].sto = hw[d].sto
  <2>1. PICK S : Handles(d, S, c)  BY <1>5
  <2>2. UNCHANGED <<mst, slv>> \/ \E s1 : SlaveBecomes(d, s1)  BY <1>5
  <2>3. Served(d) /\ hw'[d].sta = c.sta /\ hw'[d].sto = c.sto
    BY <1>2, <2>1, <2>2, HandlerServes
  <2> QED  BY <1>1, <1>2, <2>3
<1>7. WrittenAt(d)'  BY <1>4, <1>6 DEF WrittenAt, Served
<1>8. MapAt(d)'
  <2>1. MapAt(d)  BY DEF TransferInv
  <2> QED  BY <1>4, <1>5, <1>6, <2>1, MapStays DEF MapAt
<1>9. ASSUME NEW o \in Devices PROVE ReadAt(o, d)'
  <2>1. hw'[o] = hw[o] \/ ~Reads(o, d)
    BY <1>4, <1>6, NameFacts DEF Reads, LinkInv, PhaseInv, Served
  <2>2. CASE ~Reads(o, d)  BY <1>6, <2>2 DEF ReadAt, Reads, Served
  <2>3. CASE Reads(o, d) /\ hw'[o] = hw[o]
    <3>1. (Busy(o)' <=> Busy(o)) /\ Received(o)' = Received(o)
      BY <1>5, <2>3 DEF Busy, Received
    <3>2. ReadAt(o, d)  BY DEF TransferInv
    <3>3. ASSUME NEW k, Following(o, d, k) PROVE Following(o, d, k)'
      BY <1>3, <1>4, <1>6, <2>3, <3>3 DEF Following, Served
    <3> QED  BY <1>6, <2>3, <3>1, <3>2, <3>3 DEF ReadAt, Served
  <2> QED  BY <2>1, <2>2, <2>3
<1> QED  BY <1>4, <1>5, <1>6, <1>7, <1>8, <1>9, SlaveServed

-----------------------------------------------------------------------------
(* The programs, and the bus.                                              *)

\* A request that has not begun is one of the program's.
LEMMA FreshFacts ==
    ASSUME NEW d \in Devices, Fresh(d)
    PROVE  /\ request[d] \in RequestType /\ request[d] \in Requests[d]
           /\ mst[d].operation \in {"READ", "WRITE"}
<1>1. request[d] \in RequestType  BY RequestAssumption DEF Fresh
<1> QED  BY <1>1 DEF Fresh, RequestType

\* A device whose operation is over has ended its transfer.
LEMMA NotBusy ==
    ASSUME LinkInv, TransferInv, NEW d \in Devices, ~hw[d].si, mst[d].operation = "NOP"
    PROVE  d \notin bus.contend /\ ~hw[d].sta /\ (d = bus.owner => ~Busy(d))
<1>1. StartAt(d)  BY DEF TransferInv
<1>2. ~Fresh(d)  BY FreshFacts
<1>3. d \notin bus.contend /\ ~hw[d].sta  BY <1>1, <1>2 DEF StartAt
<1>4. ASSUME d = bus.owner PROVE ~Busy(d)
  <2>1. bus.phase \in {"write", "read", "refused"} /\ bus.target \in Devices \cup {Chip}
    BY <1>4, NameFacts DEF LinkInv, TypeInv, BusType, PhaseInv, FreeBus
  <2>2. PICK t \in Devices \cup {Chip} : t = bus.target  BY <2>1
  <2>3. WriterAt(d, t) /\ ReaderAt(d, t)  BY DEF TransferInv
  <2>4. CASE bus.phase = "write"  BY <1>4, <2>2, <2>3, <2>4 DEF WriterAt, Writes, Asks
  <2>5. CASE bus.phase = "read"  BY <1>4, <2>2, <2>3, <2>5 DEF ReaderAt, Reads, Asks
  <2>6. CASE bus.phase = "refused"  BY <1>1, <1>4, <2>6 DEF StartAt, Busy
  <2> QED  BY <2>1, <2>4, <2>5, <2>6
<1> QED  BY <1>3, <1>4

LEMMA ProgramKeepsTransfer ==
    ASSUME LinkInv, TransferInv, NEW d \in Devices, Program(d)
    PROVE  TransferInv'
<1>1. PICK r \in Requests[d] : \E m :
         /\ Start(d, r, m)
         /\ r.kind = "WRITE" => m = [mst[d] EXCEPT !.write = r.p]
         /\ r.kind = "READ" => m = [mst[d] EXCEPT !.read_len = r.len, !.buf = <<>>]
  BY DEF Program, i2c_start_write, i2c_start_read
<1>2. PICK m : /\ Start(d, r, m)
               /\ r.kind = "WRITE" => m = [mst[d] EXCEPT !.write = r.p]
               /\ r.kind = "READ" => m = [mst[d] EXCEPT !.read_len = r.len, !.buf = <<>>]
  BY <1>1
<1>3. r \in RequestType /\ mst[d] \in MasterType /\ hw[d] \in BlockType
  BY RequestAssumption, Fields DEF LinkInv
<1>4. PICK k : k = [m EXCEPT !.remote_i2c_addr = AddressOf(r.tgt), !.result = 0,
                   !.operation = r.kind,
                   !.remote_dev_addr = IF r.dev >= 0 THEN r.dev ELSE @,
                   !.should_send_devaddr = (r.dev >= 0)]
  OBVIOUS
<1>5. /\ k.remote_i2c_addr = AddressOf(r.tgt) /\ k.result = 0 /\ k.operation = r.kind
      /\ r.dev >= 0 => k.remote_dev_addr = r.dev
      /\ k.should_send_devaddr = (r.dev >= 0)
      /\ r.kind = "WRITE" => k.write = r.p
      /\ r.kind = "READ" => k.read_len = r.len /\ k.buf = <<>>
  <2>1. r.kind \in {"WRITE", "READ"}  BY <1>3 DEF RequestType
  <2>2. CASE r.kind = "WRITE"  BY <1>2, <1>3, <1>4, <2>2 DEF MasterType
  <2>3. CASE r.kind = "READ"
    <3>1. PICK j : j = [mst[d] EXCEPT !.read_len = r.len]  OBVIOUS
    <3>2. j.read_len = r.len /\ DOMAIN j = DOMAIN mst[d]  BY <1>3, <3>1 DEF MasterType
    <3>3. m = [j EXCEPT !.buf = <<>>]  BY <1>2, <2>3, <3>1
    <3>4. m.buf = <<>> /\ m.read_len = r.len /\ DOMAIN m = DOMAIN mst[d]
      BY <1>3, <3>1, <3>2, <3>3 DEF MasterType
    <3> QED  BY <1>3, <1>4, <2>3, <3>4 DEF MasterType
  <2> QED  BY <2>1, <2>2, <2>3
<1>6. /\ mst' = [mst EXCEPT ![d] = k] /\ request' = [request EXCEPT ![d] = r]
      /\ expect' = [expect EXCEPT ![d] = <<>>] /\ UNCHANGED <<slv, bus, wire, landed>>
      /\ ~hw[d].si /\ mst[d].operation = "NOP"
  BY <1>2, <1>4 DEF Start
<1>7. PICK c : c = [hw[d] EXCEPT !.sta = TRUE]  OBVIOUS
<1>8. /\ c.sta /\ c.si = hw[d].si /\ c.sto = hw[d].sto /\ c.aa = hw[d].aa
      /\ c.stat = hw[d].stat /\ c.dat = hw[d].dat
  BY <1>3, <1>7 DEF BlockType
<1>9. hw' = [hw EXCEPT ![d] = c]
  <2>1. hw' = [hw EXCEPT ![d].sta = TRUE]  BY <1>2 DEF Start
  <2> QED  BY <2>1, <1>7 DEF LinkInv, TypeInv
<1>10. /\ mst'[d] = k /\ request'[d] = r /\ expect'[d] = <<>> /\ hw'[d] = c
       /\ \A e \in Devices \ {d} : /\ mst'[e] = mst[e] /\ request'[e] = request[e]
                                   /\ expect'[e] = expect[e] /\ hw'[e] = hw[e]
  BY <1>6, <1>9 DEF LinkInv, TypeInv
<1>11. \A e \in Devices : /\ hw'[e].si = hw[e].si /\ hw'[e].sto = hw[e].sto
                          /\ hw'[e].aa = hw[e].aa /\ hw'[e].stat = hw[e].stat
                          /\ hw'[e].dat = hw[e].dat
  BY <1>8, <1>10
<1>12. d \notin bus.contend /\ (d = bus.owner => ~Busy(d))  BY <1>6, NotBusy
<1>13. ASSUME NEW e \in Devices PROVE StartAt(e)' /\ BufAt(e)'
  <2>1. CASE e = d
    <3>1. Fresh(d)'  BY <1>5, <1>10 DEF Fresh
    <3>2. StartAt(d)'
      BY <1>6, <1>11, <1>12, <3>1 DEF StartAt, Busy
    <3>3. ASSUME r.kind = "READ" PROVE BufAt(d)'
      <4>1. /\ Len(<<>>) = 0 /\ k.buf = <<>> /\ k.operation # "NOP" /\ r.len \in Nat
        BY <1>3, <1>5, <3>3 DEF RequestType
      <4> QED  BY <1>10, <4>1 DEF BufAt
    <3>4. r.kind # "READ" => BufAt(d)'  BY <1>10 DEF BufAt
    <3> QED  BY <2>1, <3>2, <3>3, <3>4
  <2>2. CASE e # d
    <3>1. StartAt(e) /\ BufAt(e)  BY DEF TransferInv
    <3> QED  BY <1>6, <1>10, <2>2, <3>1 DEF StartAt, BufAt, Fresh
  <2> QED  BY <2>1, <2>2
<1>14. ASSUME NEW e \in Devices PROVE WrittenAt(e)' /\ MapAt(e)'
  <2>1. WrittenAt(e) /\ MapAt(e)  BY DEF TransferInv
  <2>2. \A n : Taken(e, n)' <=> Taken(e, n)  BY <1>6 DEF Taken
  <2>3. (Landed(e)' <=> Landed(e)) /\ (Holds(e)' <=> Holds(e)) /\ (Fits(wire[e])' <=> Fits(wire[e]))
    BY <1>6 DEF Landed, Holds, Fits
  <2>4. \A o \in Devices : (Writes(o, e)' <=> Writes(o, e)) /\ (Busy(o)' <=> Busy(o))
    BY <1>6, <1>11 DEF Writes, Busy
  <2>5. WrittenAt(e)'  BY <1>6, <1>11, <2>1, <2>2, <2>3 DEF WrittenAt
  <2>6. MapAt(e)'  BY <1>6, <1>11, <2>1, <2>3, <2>4 DEF MapAt
  <2> QED  BY <2>5, <2>6
<1>15. ASSUME NEW o \in Devices, NEW t \in Devices \cup {Chip}
       PROVE  WriterAt(o, t)' /\ ReaderAt(o, t)'
  <2>1. WriterAt(o, t) /\ ReaderAt(o, t)  BY DEF TransferInv
  <2>2. CASE o = d
    <3>1. (Writes(d, t) \/ Reads(d, t)) => ~Busy(d)'
      BY <1>11, <1>12 DEF Writes, Reads, Busy
    <3>2. Landed(t)' <=> Landed(t)  BY <1>6 DEF Landed
    <3>3. WriterAt(d, t)'
      BY <1>6, <1>11, <2>1, <2>2, <3>1, <3>2 DEF WriterAt, Writes, Busy
    <3>4. ReaderAt(d, t)'  BY <1>6, <3>1 DEF ReaderAt, Reads
    <3> QED  BY <2>2, <3>3, <3>4
  <2>3. CASE o # d
    <3>1. mst'[o] = mst[o] /\ request'[o] = request[o] /\ hw'[o] = hw[o]  BY <1>10, <2>3
    <3>2. Sent(o, t, 0)' <=> Sent(o, t, 0)  BY <1>6, <3>1 DEF Sent
    <3>3. Sent(o, t, 1)' <=> Sent(o, t, 1)  BY <1>6, <3>1 DEF Sent
    <3>4. Landed(t)' <=> Landed(t)  BY <1>6 DEF Landed
    <3>5. Asks(o, t, "WRITE")' <=> Asks(o, t, "WRITE")  BY <3>1 DEF Asks
    <3>6. WriterAt(o, t)'
      BY <1>6, <2>1, <3>1, <3>2, <3>3, <3>4, <3>5 DEF WriterAt, Writes, Busy
    <3>7. ReaderAt(o, t)'  BY <1>6, <2>1, <3>1 DEF ReaderAt, Reads, Busy, Asks
    <3> QED  BY <3>6, <3>7
  <2> QED  BY <2>2, <2>3
<1>16. ASSUME NEW o \in Devices, NEW t \in Devices PROVE ReadAt(o, t)'
  <2>1. ReadAt(o, t)  BY DEF TransferInv
  <2>2. CASE o = d
    <3>1. Reads(d, t) => ~Busy(d)'  BY <1>11, <1>12 DEF Reads, Busy
    <3> QED  BY <1>6, <1>11, <2>1, <2>2, <3>1 DEF ReadAt, Reads
  <2>3. CASE o # d
    <3>1. /\ mst'[o] = mst[o] /\ request'[o] = request[o] /\ hw'[o] = hw[o]
          /\ expect'[o] = expect[o]
      BY <1>10, <2>3
    <3>2. Received(o)' = Received(o)  BY <3>1 DEF Received
    <3>3. ASSUME NEW n PROVE Following(o, t, n)' <=> Following(o, t, n)
      BY <1>6, <1>11, <3>1 DEF Following, Serves
    <3> QED  BY <1>6, <1>11, <2>1, <3>1, <3>2, <3>3 DEF ReadAt, Reads, Busy
  <2> QED  BY <2>2, <2>3
<1> QED  BY <1>13, <1>14, <1>15, <1>16 DEF TransferInv

\* A device that neither wins nor contends for the bus.
LEMMA StartStays ==
    ASSUME TransferInv, NEW d \in Devices, d \notin bus'.contend, UNCHANGED <<mst, request>>,
           hw'[d].sta => hw[d].sta,
           hw'[d].si /\ hw'[d].stat \in {24, 32, 56, 64, 72} =>
             hw[d].si /\ hw[d].stat \in {24, 32, 56, 64, 72},
           d = bus'.owner => d = bus.owner /\ bus'.phase = bus.phase /\ hw'[d].sto = hw[d].sto
                             /\ (hw[d].si => hw'[d].si)
    PROVE  StartAt(d)'
<1>1. StartAt(d)  BY DEF TransferInv
<1>2. Fresh(d)' <=> Fresh(d)  BY DEF Fresh
<1> QED  BY <1>1, <1>2 DEF StartAt

\* The bus is free, or is being asked for: no one writes or reads.
LEMMA FreeKeepsTransfer ==
    ASSUME LinkInv, TransferInv, bus'.phase \in {"free", "address"},
           UNCHANGED <<mst, slv, request, landed, expect, wire>>,
           \A d \in Devices : /\ StartAt(d)' /\ MapAt(d)'
                              /\ hw'[d].si /\ hw'[d].stat = 160 =>
                                   Landed(d) /\ Taken(d, Len(wire[d]))
    PROVE  TransferInv'
<1>1. ASSUME NEW d \in Devices PROVE WrittenAt(d)' /\ BufAt(d)'
  <2>1. BufAt(d)'  BY DEF TransferInv, BufAt
  <2>2. Landed(d)' <=> Landed(d)  BY DEF Landed
  <2>3. Taken(d, Len(wire[d]))' <=> Taken(d, Len(wire[d]))  BY DEF Taken
  <2> QED  BY <2>1, <2>2, <2>3 DEF WrittenAt
<1>2. \A o \in Devices, t \in Devices \cup {Chip} : WriterAt(o, t)' /\ ReaderAt(o, t)'
  BY DEF WriterAt, ReaderAt, Writes, Reads
<1>3. \A o, t \in Devices : ReadAt(o, t)'  BY DEF ReadAt, Reads
<1> QED  BY <1>1, <1>2, <1>3 DEF TransferInv

LEMMA BusStartKeepsTransfer ==
    ASSUME LinkInv, TransferInv, BusStart
    PROVE  TransferInv'
<1>1. PICK C \in SUBSET {d \in Devices : hw[d].sta /\ ~hw[d].sto /\ ~hw[d].si} :
         /\ hw' = [d \in Devices |-> IF d \in C THEN Event(hw[d], 8) ELSE hw[d]]
         /\ bus' = [FreeBus EXCEPT !.phase = "address", !.contend = C]
         /\ UNCHANGED <<mst, slv, request, landed, expect, wire>>
  BY DEF BusStart, BusUnchanged
<1>2. /\ bus'.phase = "address" /\ bus'.owner = None /\ bus'.contend = C /\ bus.phase = "free"
  <2>1. bus' = [phase |-> "address", owner |-> None, target |-> None, contend |-> C]
    BY <1>1 DEF FreeBus
  <2>2. bus.phase = "free"  BY DEF BusStart
  <2> QED  BY <2>1, <2>2
<1>3. ASSUME NEW d \in C
      PROVE  d \in Devices /\ hw'[d].stat = 8 /\ hw'[d].si /\ hw[d].sta /\ ~hw[d].si
  <2>1. d \in Devices /\ hw[d].sta /\ ~hw[d].si  OBVIOUS
  <2>2. hw'[d] = Event(hw[d], 8)  BY <1>1, <2>1
  <2>3. hw[d] \in BlockType  BY <2>1, Fields DEF LinkInv
  <2> QED  BY <2>1, <2>2, <2>3, EventTyped
<1>4. \A d \in Devices \ C : hw'[d] = hw[d]  BY <1>1
<1>5. ASSUME NEW d \in Devices PROVE StartAt(d)'
  <2>1. CASE d \in C
    <3>1. Fresh(d)  BY <1>3, <2>1 DEF TransferInv, StartAt
    <3>2. Fresh(d)'  BY <1>1, <3>1 DEF Fresh
    <3> QED  BY <1>2, <1>3, <2>1, <3>2, NameFacts DEF StartAt
  <2>2. CASE d \notin C
    BY <1>1, <1>2, <1>4, <2>2, StartStays, NameFacts
  <2> QED  BY <2>1, <2>2
<1>6. ASSUME NEW d \in Devices PROVE MapAt(d)'
  <2>1. MapAt(d) /\ \A o \in Devices : ~Writes(o, d)  BY <1>2 DEF TransferInv, Writes
  <2>2. Holds(d)' <=> Holds(d)  BY <1>1 DEF Holds
  <2>3. hw[d].si /\ hw[d].stat = 160 => hw'[d].si /\ hw'[d].stat = 160  BY <1>3, <1>4
  <2> QED  BY <1>1, <2>1, <2>2, <2>3 DEF MapAt
<1>7. \A d \in Devices : hw'[d].si /\ hw'[d].stat = 160 => Landed(d) /\ Taken(d, Len(wire[d]))
  BY <1>3, <1>4 DEF TransferInv, WrittenAt
<1> QED  BY <1>1, <1>2, <1>5, <1>6, <1>7, FreeKeepsTransfer

LEMMA BusStopKeepsTransfer ==
    ASSUME LinkInv, TransferInv, BusStop
    PROVE  TransferInv'
<1>1. /\ hw' = [d \in Devices |->
             CASE d = bus.owner -> [hw[d] EXCEPT !.sto = FALSE]
               [] d = bus.target /\ bus.phase = "write" -> Event(hw[d], 160)
               [] OTHER -> hw[d]]
      /\ bus' = FreeBus /\ hw[bus.owner].sto
      /\ UNCHANGED <<mst, slv, request, landed, expect, wire>>
  BY DEF BusStop, BusUnchanged
<1>2. /\ bus.owner \in Devices /\ ~hw[bus.owner].si /\ bus.target # bus.owner
      /\ bus.target \in Devices => ~hw[bus.target].si
  BY NameFacts DEF BusStop, Quiet, LinkInv, TypeInv, BusType, PhaseInv, FreeBus
<1>3. \A d \in Devices : hw[d] \in BlockType  BY Fields DEF LinkInv
<1>4. ASSUME NEW d \in Devices
      PROVE  /\ hw'[d].sta = hw[d].sta
             /\ IF d = bus.target /\ bus.phase = "write"
                  THEN hw'[d].si /\ hw'[d].stat = 160
                  ELSE hw'[d].si = hw[d].si /\ hw'[d].stat = hw[d].stat
  <2>1. PICK h \in BlockType : h = hw[d]  BY <1>3
  <2>2. CASE d = bus.owner
    <3>1. hw'[d] = [hw[d] EXCEPT !.sto = FALSE]  BY <1>1, <1>2, <2>2
    <3>2. hw'[d] = [h EXCEPT !.sto = FALSE]  BY <2>1, <3>1
    <3> QED  BY <1>2, <2>1, <2>2, <3>2 DEF BlockType
  <2>3. CASE d # bus.owner /\ d = bus.target /\ bus.phase = "write"
    <3>1. hw'[d] = Event(h, 160)  BY <1>1, <2>1, <2>3
    <3> QED  BY <2>1, <2>3, <3>1, EventTyped
  <2>4. CASE d # bus.owner /\ ~(d = bus.target /\ bus.phase = "write")
    <3>1. hw'[d] = hw[d]  BY <1>1, <2>4
    <3> QED  BY <2>4, <3>1
  <2> QED  BY <2>2, <2>3, <2>4
<1>5. bus'.phase = "free" /\ bus'.owner = None /\ bus'.contend = {}  BY <1>1 DEF FreeBus
<1>6. ASSUME NEW d \in Devices PROVE StartAt(d)'
  <2>1. /\ hw'[d].sta = hw[d].sta
        /\ hw'[d].si /\ hw'[d].stat # 160 => hw[d].si /\ hw'[d].stat = hw[d].stat
    BY <1>4
  <2>2. /\ hw'[d].sta => hw[d].sta
        /\ hw'[d].si /\ hw'[d].stat \in {24, 32, 56, 64, 72} =>
             hw[d].si /\ hw[d].stat \in {24, 32, 56, 64, 72}
    BY <2>1
  <2> QED  BY <1>1, <1>5, <2>2, StartStays, NameFacts
<1>7. ASSUME NEW d \in Devices PROVE MapAt(d)'
  <2>1. MapAt(d)  BY DEF TransferInv
  <2>2. Holds(d)' <=> Holds(d)  BY <1>1 DEF Holds
  <2>3. (hw[d].si /\ hw[d].stat = 160) \/ (\E o \in Devices : Writes(o, d)) =>
          hw'[d].si /\ hw'[d].stat = 160
    BY <1>2, <1>4 DEF Writes
  <2> QED  BY <1>1, <2>1, <2>2, <2>3 DEF MapAt
<1>8. ASSUME NEW d \in Devices, hw'[d].si, hw'[d].stat = 160
      PROVE  Landed(d) /\ Taken(d, Len(wire[d]))
  <2>1. WrittenAt(d) /\ WriterAt(bus.owner, d)  BY <1>2 DEF TransferInv
  <2>2. CASE d = bus.target /\ bus.phase = "write"
    BY <1>1, <1>2, <2>1, <2>2 DEF WrittenAt, WriterAt, Writes
  <2>3. CASE ~(d = bus.target /\ bus.phase = "write")
    BY <1>4, <1>8, <2>1, <2>3 DEF WrittenAt
  <2> QED  BY <2>2, <2>3
<1> QED  BY <1>1, <1>5, <1>6, <1>7, <1>8, FreeKeepsTransfer

LEMMA BusErrorKeepsTransfer ==
    ASSUME LinkInv, TransferInv, BusError
    PROVE  TransferInv'
<1>1. /\ hw' = [d \in Devices |->
            IF d \in {bus.owner, bus.target} THEN Event(hw[d], 0) ELSE hw[d]]
      /\ bus' = FreeBus
      /\ UNCHANGED <<mst, slv, request, landed, expect, wire>>
  BY DEF BusError, BusUnchanged
<1>2. /\ bus.owner \in Devices /\ ~hw[bus.owner].si /\ ~hw[bus.owner].sto
      /\ bus.target \in Devices => ~hw[bus.target].si
  BY TransferringFacts DEF BusError, LinkInv
<1>3. ASSUME NEW d \in Devices
      PROVE  /\ hw'[d].sta = hw[d].sta
             /\ IF d \in {bus.owner, bus.target} THEN hw'[d].stat = 0 /\ ~hw[d].si
                                                 ELSE hw'[d] = hw[d]
  <2>1. CASE d \in {bus.owner, bus.target}
    <3>1. hw'[d] = Event(hw[d], 0) /\ hw[d] \in BlockType  BY <1>1, <2>1, Fields DEF LinkInv
    <3> QED  BY <1>2, <2>1, <3>1, EventTyped
  <2>2. CASE d \notin {bus.owner, bus.target}
    <3>1. hw'[d] = hw[d]  BY <1>1, <2>2
    <3> QED  BY <2>2, <3>1
  <2> QED  BY <2>1, <2>2
<1>4. bus'.phase = "free" /\ bus'.owner = None /\ bus'.contend = {}  BY <1>1 DEF FreeBus
<1>5. \A d \in Devices : StartAt(d)'
  BY <1>1, <1>3, <1>4, StartStays, NameFacts
<1>6. ASSUME NEW d \in Devices PROVE MapAt(d)'
  <2>1. MapAt(d)  BY DEF TransferInv
  <2>2. Holds(d)' <=> Holds(d)  BY <1>1 DEF Holds
  <2>3. hw[d].si /\ hw[d].stat = 160 => hw'[d].si /\ hw'[d].stat = 160  BY <1>3
  <2>4. \A o \in Devices : Writes(o, d) => Busy(o)  BY <1>2 DEF Writes, Busy
  <2> QED  BY <1>1, <2>1, <2>2, <2>3, <2>4 DEF MapAt
<1>7. \A d \in Devices : hw'[d].si /\ hw'[d].stat = 160 => Landed(d) /\ Taken(d, Len(wire[d]))
  BY <1>3 DEF TransferInv, WrittenAt
<1> QED  BY <1>1, <1>4, <1>5, <1>6, <1>7, FreeKeepsTransfer

LEMMA BusReleasedKeepsTransfer ==
    ASSUME LinkInv, TransferInv, NEW d \in Devices, BusReleased(d)
    PROVE  TransferInv'
<1>1. /\ d # bus.owner /\ hw' = [hw EXCEPT ![d].sto = FALSE]
      /\ UNCHANGED <<mst, slv, request, landed, bus, expect, wire>>
  BY DEF BusReleased, BusUnchanged
<1>2. PICK h \in BlockType : h = hw[d]  BY Fields DEF LinkInv
<1>3. PICK c : c = [h EXCEPT !.sto = FALSE]  OBVIOUS
<1>4. c.si = h.si /\ c.stat = h.stat /\ c.sta = h.sta /\ c.dat = h.dat /\ c.aa = h.aa
  BY <1>3 DEF BlockType
<1>5. hw'[d] = c /\ \A e \in Devices \ {d} : hw'[e] = hw[e]
  BY <1>1, <1>2, <1>3 DEF LinkInv, TypeInv
<1>6. \A e \in Devices : /\ hw'[e].si = hw[e].si /\ hw'[e].stat = hw[e].stat
                         /\ hw'[e].sta = hw[e].sta /\ hw'[e].dat = hw[e].dat
                         /\ hw'[e].aa = hw[e].aa
  BY <1>2, <1>4, <1>5
<1>7. ASSUME NEW e \in Devices PROVE StartAt(e)' /\ BufAt(e)' /\ WrittenAt(e)' /\ MapAt(e)'
  <2>1. StartAt(e) /\ BufAt(e) /\ WrittenAt(e) /\ MapAt(e)  BY DEF TransferInv
  <2>2. Fresh(e)' <=> Fresh(e)  BY <1>1 DEF Fresh
  <2>3. e = bus.owner => hw'[e] = hw[e]  BY <1>1, <1>5
  <2>4. StartAt(e)'  BY <1>1, <1>6, <2>1, <2>2, <2>3 DEF StartAt
  <2>5. BufAt(e)'  BY <1>1, <2>1 DEF BufAt
  <2>6. WrittenAt(e)'
    <3>1. \A n : Taken(e, n)' <=> Taken(e, n)  BY <1>1 DEF Taken
    <3>2. Landed(e)' <=> Landed(e)  BY <1>1 DEF Landed
    <3> QED  BY <1>1, <1>6, <2>1, <3>1, <3>2 DEF WrittenAt
  <2>7. MapAt(e)'
    <3>1. Holds(e)' <=> Holds(e)  BY <1>1 DEF Holds
    <3>2. \A o \in Devices : Writes(o, e) /\ ~Busy(o) => Writes(o, e)' /\ ~Busy(o)'
      BY <1>1, <1>5 DEF Writes, Busy
    <3> QED  BY <1>1, <1>6, <2>1, <3>1, <3>2 DEF MapAt
  <2> QED  BY <2>4, <2>5, <2>6, <2>7
<1>8. ASSUME NEW o \in Devices, NEW t \in Devices \cup {Chip} PROVE WriterAt(o, t)' /\ ReaderAt(o, t)'
  <2>1. WriterAt(o, t) /\ ReaderAt(o, t)  BY DEF TransferInv
  <2>2. CASE o = d  BY <1>1, <2>2 DEF WriterAt, ReaderAt, Writes, Reads
  <2>3. CASE o # d
    <3>1. hw'[o] = hw[o]  BY <1>5, <2>3
    <3>2. (Sent(o, t, 0)' <=> Sent(o, t, 0)) /\ (Sent(o, t, 1)' <=> Sent(o, t, 1))
      BY <1>1, <3>1 DEF Sent
    <3>3. Landed(t)' <=> Landed(t)  BY <1>1 DEF Landed
    <3>4. WriterAt(o, t)'
      BY <1>1, <2>1, <3>1, <3>2, <3>3 DEF WriterAt, Writes, Busy, Asks
    <3>5. ReaderAt(o, t)'  BY <1>1, <2>1, <3>1 DEF ReaderAt, Reads, Busy, Asks
    <3> QED  BY <3>4, <3>5
  <2> QED  BY <2>2, <2>3
<1>9. ASSUME NEW o \in Devices, NEW t \in Devices PROVE ReadAt(o, t)'
  <2>1. ReadAt(o, t)  BY DEF TransferInv
  <2>2. Received(o)' = Received(o)  BY <1>1, <1>6 DEF Received
  <2>3. ASSUME NEW n PROVE Following(o, t, n)' <=> Following(o, t, n)
    BY <1>1, <1>6 DEF Following, Serves
  <2>4. Reads(o, t) => hw'[o] = hw[o]  BY <1>1, <1>5 DEF Reads
  <2> QED  BY <1>1, <1>6, <2>1, <2>2, <2>3, <2>4 DEF ReadAt, Reads, Busy
<1> QED  BY <1>7, <1>8, <1>9 DEF TransferInv

LEMMA BusWriteByteKeepsTransfer ==
    ASSUME Programs, LinkInv, TransferInv, BusWriteByte
    PROVE  TransferInv'
<1>1. PICK o, t : o = bus.owner /\ t = bus.target  OBVIOUS
<1>2. /\ o \in Devices /\ ~hw[o].si /\ ~hw[o].sto
      /\ t \in Devices \cup {Chip} /\ t # o /\ bus.contend = {}
      /\ t \in Devices => ~hw[t].si
      /\ Writes(o, t) /\ Busy(o)
  BY <1>1, TransferringFacts DEF BusWriteByte, Transferring, Writes, Busy, LinkInv
<1>3. t \in Devices => hw[t].aa
  BY <1>2 DEF Writes, LinkInv, AckInv
<1>4. PICK byte \in Nat : byte = hw[o].dat  BY <1>2, Fields DEF LinkInv, BlockType
<1>5. PICK ack \in BOOLEAN :
        /\ t # Chip => ack = hw[t].aa
        /\ hw' = [d \in Devices |->
             CASE d = o -> Event(hw[d], IF ack THEN 40 ELSE 48)
               [] d = t -> Event([hw[d] EXCEPT !.dat = byte], IF ack THEN 128 ELSE 136)
               [] OTHER -> hw[d]]
        /\ wire' = [d \in Devices |-> IF d = t THEN Append(wire[d], byte) ELSE wire[d]]
        /\ UNCHANGED <<mst, slv, request, landed, bus, expect>>
  BY <1>1, <1>4 DEF BusWriteByte, BusUnchanged
<1>6. t \in Devices => ack
  BY <1>3, <1>5, NameFacts
<1>7. /\ hw'[o].si /\ hw'[o].stat = IF ack THEN 40 ELSE 48
      /\ hw'[o].sta = hw[o].sta /\ hw'[o].sto = hw[o].sto /\ hw'[o].dat = hw[o].dat
  <2>1. hw'[o] = Event(hw[o], IF ack THEN 40 ELSE 48) /\ hw[o] \in BlockType
    BY <1>2, <1>5, Fields DEF LinkInv
  <2> QED  BY <2>1, EventTyped
<1>8. ASSUME t \in Devices
      PROVE  /\ hw'[t].si /\ hw'[t].stat = 128 /\ hw'[t].sta = hw[t].sta
             /\ hw'[t].dat = byte /\ hw'[t].sto = hw[t].sto
  <2>1. PICK h \in BlockType : h = hw[t]  BY <1>8, Fields DEF LinkInv
  <2>2. PICK g : g = [h EXCEPT !.dat = byte]  OBVIOUS
  <2>3. g \in BlockType /\ g.dat = byte /\ g.sta = h.sta /\ g.sto = h.sto  BY <2>2 DEF BlockType
  <2>4. hw'[t] = Event(g, 128)  BY <1>2, <1>5, <1>6, <1>8, <2>1, <2>2
  <2> QED  BY <2>1, <2>3, <2>4, EventTyped
<1>9. \A d \in Devices : d # o /\ d # t => hw'[d] = hw[d]  BY <1>5
<1>10. PICK w \in Seq(Nat) : w = WireBytes(request[o])
  BY <1>2, Fields, WireBytesFacts DEF LinkInv
<1>11. Asks(o, t, "WRITE") /\ (t \in Devices => Sent(o, t, 1))
  BY <1>2 DEF TransferInv, WriterAt
<1>12. ASSUME t \in Devices
       PROVE  /\ Sent(o, t, 0)' /\ Taken(t, Len(wire[t]) - 1)' /\ Fits(wire'[t])
              /\ wire'[t] # <<>> /\ byte = wire'[t][Len(wire'[t])]
  <2>1. PICK v \in Seq(Nat) : v = wire[t]  BY <1>12, Fields DEF LinkInv
  <2>2. PICK n \in Nat : n = Len(v)  OBVIOUS
  <2>3. PICK u : u = Append(v, byte)  OBVIOUS
  <2>4. u \in Seq(Nat) /\ Len(u) = n + 1 /\ u[n + 1] = byte /\ \A i \in 1 .. n : u[i] = v[i]
    BY <2>2, <2>3
  <2>5. wire'[t] = u  BY <1>5, <1>12, <2>1, <2>3
  <2>6. PICK p \in Seq(Nat) : p = mst[o].write  BY <1>2, Fields DEF LinkInv, MasterType
  <2>7. PICK k \in Nat : k = Len(p)  OBVIOUS
  <2>8. /\ Len(w) = n + 1 + k /\ \A i \in 1 .. n : v[i] = w[i]
        /\ \A i \in 1 .. k : p[i] = w[n + 1 + i]
        /\ byte = w[n + 1]
    BY <1>4, <1>10, <1>11, <1>12, <2>1, <2>2, <2>6, <2>7 DEF Sent
  <2>9. Sent(o, t, 0)'
    <3>1. \A i \in 1 .. n + 1 : i \in 1 .. n \/ i = n + 1  OBVIOUS
    <3>2. \A i \in 1 .. n + 1 : u[i] = w[i]  BY <2>4, <2>8, <3>1
    <3>3. Len(w) = n + 1 + 0 + k /\ \A i \in 1 .. k : p[i] = w[n + 1 + 0 + i]
      <4>1. n + 1 + 0 + k = n + 1 + k /\ \A i \in 1 .. k : n + 1 + 0 + i = n + 1 + i  OBVIOUS
      <4> QED  BY <2>8, <4>1
    <3>4. WireBytes(request'[o]) = w /\ mst'[o].write = p /\ Len(u) = n + 1
      BY <1>5, <1>10, <2>4, <2>6
    <3>5. Len(WireBytes(request'[o])) = Len(wire'[t]) + 0 + Len(mst'[o].write)
      BY <2>5, <2>7, <3>3, <3>4
    <3>6. \A i \in 1 .. Len(wire'[t]) : wire'[t][i] = WireBytes(request'[o])[i]
      BY <2>5, <3>2, <3>4
    <3>7. \A i \in 1 .. Len(mst'[o].write) :
            mst'[o].write[i] = WireBytes(request'[o])[Len(wire'[t]) + 0 + i]
      BY <2>5, <2>7, <3>3, <3>4
    <3> QED  BY <3>5, <3>6, <3>7 DEF Sent
  <2>10. Fits(u)
    <3>1. Fits(w)  BY <1>2, <1>10, <1>11, <1>12 DEF Programs, Orderly, Asks
    <3>2. w # <<>> /\ w[1] \in Nat  BY <2>8
    <3>3. u[1] = w[1]
      <4>1. CASE n = 0  BY <2>4, <2>8, <4>1
      <4>2. CASE n # 0  BY <2>4, <2>8, <4>2
      <4> QED  BY <4>1, <4>2
    <3>4. w[1] + (n + 1 + k) <= MmapSize  BY <2>8, <3>1, <3>2 DEF Fits
    <3>5. u[1] + (n + 1) <= MmapSize  BY <3>2, <3>3, <3>4, SizeAssumption
    <3> QED  BY <2>4, <3>5 DEF Fits
  <2>11. Taken(t, n)  BY <1>2, <1>12, <2>1, <2>2 DEF TransferInv, WrittenAt, Writes
  <2>12. Taken(t, n)'
    <3>1. n >= 1 => u[1] = v[1] /\ \A i \in 2 .. n : u[i] = v[i]  BY <2>4
    <3>2. /\ slv[t].operation = "WRITE"
          /\ n = 0 => slv[t].waiting_addr
          /\ n >= 1 => /\ ~slv[t].waiting_addr /\ slv[t].addr_start = v[1]
                       /\ slv[t].addr = v[1] + n - 1
                       /\ \A i \in 2 .. n : slv[t].tmp[v[1] + i - 2] = v[i]
      BY <2>1, <2>11 DEF Taken
    <3>3. n >= 1 => /\ ~slv[t].waiting_addr /\ slv[t].addr_start = u[1]
                    /\ slv[t].addr = u[1] + n - 1
                    /\ \A i \in 2 .. n : slv[t].tmp[u[1] + i - 2] = u[i]
      BY <3>1, <3>2
    <3>4. slv' = slv  BY <1>5
    <3> QED  BY <2>5, <3>2, <3>3, <3>4 DEF Taken
  <2>13. Len(u) - 1 = n  BY <2>4
  <2>14. Taken(t, Len(wire[t]) - 1)'  BY <2>5, <2>12, <2>13 DEF Taken
  <2>15. u # <<>> /\ byte = u[Len(u)]  BY <2>4
  <2> QED  BY <2>5, <2>9, <2>10, <2>14, <2>15
<1>13. ASSUME NEW d \in Devices PROVE StartAt(d)'
  <2>1. bus'.contend = {} /\ bus'.owner = o /\ bus'.phase = bus.phase /\ bus.owner = o
    BY <1>1, <1>2, <1>5
  <2>2. CASE d = o
    <3>1. hw'[d].sta = hw[d].sta /\ hw'[d].sto = hw[d].sto /\ hw'[d].si
      BY <1>7, <2>2
    <3>2. hw'[d].stat \notin {24, 32, 56, 64, 72}  BY <1>7, <2>2
    <3> QED  BY <1>5, <2>1, <2>2, <3>1, <3>2, StartStays
  <2>3. CASE d # o
    <3>1. hw'[d] = hw[d] \/ (hw'[d].sta = hw[d].sta /\ hw'[d].stat = 128)
      BY <1>8, <1>9, <2>3
    <3> QED  BY <1>5, <2>1, <2>3, <3>1, StartStays
  <2> QED  BY <2>2, <2>3
<1>14. ASSUME NEW d \in Devices PROVE BufAt(d)' /\ WrittenAt(d)' /\ MapAt(d)'
  <2>1. BufAt(d) /\ WrittenAt(d) /\ MapAt(d)  BY DEF TransferInv
  <2>2. BufAt(d)'  BY <1>5, <2>1 DEF BufAt
  <2>3. CASE d = t
    <3>1. WrittenAt(d)'
      BY <1>8, <1>12, <2>3 DEF WrittenAt
    <3>2. MapAt(d)'
      <4>1. landed[t].tgt = t => Holds(t)
        BY <1>2, <2>1, <2>3 DEF MapAt, Writes
      <4>2. Holds(t)' <=> Holds(t)  BY <1>5 DEF Holds
      <4>3. Fits(wire[t])'  BY <1>12, <2>3 DEF Fits
      <4> QED  BY <1>5, <2>1, <2>3, <4>1, <4>2, <4>3 DEF MapAt
    <3> QED  BY <2>2, <3>1, <3>2
  <2>4. CASE d # t
    <3>1. wire'[d] = wire[d]  BY <1>5, <2>4
    <3>2. hw'[d].si /\ hw'[d].stat = 160 <=> hw[d].si /\ hw[d].stat = 160
      BY <1>2, <1>7, <1>9, <2>4
    <3>3. Landed(d)' <=> Landed(d)  BY <1>5, <3>1 DEF Landed
    <3>4. Taken(d, Len(wire[d]))' <=> Taken(d, Len(wire[d]))  BY <1>5, <3>1 DEF Taken
    <3>5. WrittenAt(d)'
      BY <1>1, <1>5, <2>1, <2>4, <3>2, <3>3, <3>4 DEF WrittenAt
    <3>6. MapAt(d)'
      <4>1. \A x \in Devices : ~Writes(x, d)  BY <1>1, <2>4 DEF Writes
      <4>2. Holds(d)' <=> Holds(d)  BY <1>5 DEF Holds
      <4> QED  BY <1>5, <2>1, <3>1, <3>2, <4>1, <4>2 DEF MapAt
    <3> QED  BY <2>2, <3>5, <3>6
  <2> QED  BY <2>3, <2>4
<1>15. ASSUME NEW x \in Devices, NEW u \in Devices \cup {Chip} PROVE WriterAt(x, u)' /\ ReaderAt(x, u)'
  <2>1. ReaderAt(x, u)'  BY <1>2, <1>5 DEF ReaderAt, Reads, Writes
  <2>2. CASE x = o /\ u = t
    <3>1. Asks(o, t, "WRITE")'  BY <1>5, <1>11 DEF Asks
    <3>2. t \in Devices => hw'[o].stat = 40  BY <1>6, <1>7
    <3> QED  BY <1>7, <1>12, <2>1, <2>2, <3>1, <3>2 DEF WriterAt
  <2>3. CASE ~(x = o /\ u = t)  BY <1>1, <1>5, <2>1, <2>3 DEF WriterAt, Writes
  <2> QED  BY <2>2, <2>3
<1>16. \A x, u \in Devices : ReadAt(x, u)'  BY <1>2, <1>5 DEF ReadAt, Reads, Writes
<1> QED  BY <1>13, <1>14, <1>15, <1>16 DEF TransferInv

LEMMA BusReadByteKeepsTransfer ==
    ASSUME LinkInv, TransferInv, BusReadByte
    PROVE  TransferInv'
<1>1. PICK o, t : o = bus.owner /\ t = bus.target  OBVIOUS
<1>2. /\ o \in Devices /\ ~hw[o].si /\ ~hw[o].sto
      /\ t \in Devices \cup {Chip} /\ t # o /\ bus.contend = {}
      /\ t \in Devices => ~hw[t].si
      /\ Reads(o, t) /\ Busy(o)
  BY <1>1, TransferringFacts DEF BusReadByte, Transferring, Reads, Busy, LinkInv
<1>3. PICK ack \in BOOLEAN : ack = hw[o].aa  BY <1>2, Fields DEF LinkInv, BlockType
<1>4. PICK byte \in Nat : byte = IF t = Chip THEN 0 ELSE hw[t].dat
  BY <1>2, Fields DEF LinkInv, BlockType
<1>5. /\ hw' = [d \in Devices |->
           CASE d = o -> Event([hw[d] EXCEPT !.dat = byte], IF ack THEN 80 ELSE 88)
             [] d = t -> Event(hw[d], IF ack THEN 184 ELSE 192)
             [] OTHER -> hw[d]]
      /\ UNCHANGED <<mst, slv, request, landed, bus, expect, wire>>
  BY <1>1, <1>3, <1>4 DEF BusReadByte, BusUnchanged
<1>6. /\ hw'[o].si /\ hw'[o].stat = IF ack THEN 80 ELSE 88
      /\ hw'[o].sta = hw[o].sta /\ hw'[o].sto = hw[o].sto /\ hw'[o].dat = byte
  <2>1. PICK h \in BlockType : h = hw[o]  BY <1>2, Fields DEF LinkInv
  <2>2. PICK g : g = [h EXCEPT !.dat = byte]  OBVIOUS
  <2>3. g \in BlockType /\ g.dat = byte /\ g.sta = h.sta /\ g.sto = h.sto  BY <2>2 DEF BlockType
  <2>4. hw'[o] = Event(g, IF ack THEN 80 ELSE 88)  BY <1>2, <1>5, <2>1, <2>2
  <2> QED  BY <2>1, <2>3, <2>4, EventTyped
<1>7. ASSUME t \in Devices
      PROVE  /\ hw'[t].si /\ hw'[t].stat = IF ack THEN 184 ELSE 192
             /\ hw'[t].sta = hw[t].sta
  <2>1. hw'[t] = Event(hw[t], IF ack THEN 184 ELSE 192) /\ hw[t] \in BlockType
    BY <1>2, <1>5, <1>7, Fields DEF LinkInv
  <2> QED  BY <2>1, EventTyped
<1>8. \A d \in Devices : d # o /\ d # t => hw'[d] = hw[d]  BY <1>5
<1>9. PICK l \in Int : l = mst[o].read_len  BY <1>2, Fields DEF LinkInv, MasterType
<1>10. PICK k \in Nat : k = Len(mst[o].buf)  BY <1>2, Fields DEF LinkInv, MasterType
<1>11. /\ Asks(o, t, "READ") /\ k + l = request[o].len /\ l >= 1 /\ (ack <=> l > 1)
  BY <1>2, <1>3, <1>9, <1>10 DEF TransferInv, ReaderAt
<1>12. ASSUME NEW d \in Devices PROVE StartAt(d)'
  <2>1. bus'.contend = {} /\ bus'.owner = o /\ bus'.phase = bus.phase /\ bus.owner = o
    BY <1>1, <1>2, <1>5
  <2>2. CASE d = o
    <3>1. hw'[d].sta = hw[d].sta /\ hw'[d].sto = hw[d].sto /\ hw'[d].si
      BY <1>6, <2>2
    <3>2. hw'[d].stat \notin {24, 32, 56, 64, 72}  BY <1>6, <2>2
    <3> QED  BY <1>5, <2>1, <2>2, <3>1, <3>2, StartStays
  <2>3. CASE d # o
    <3>1. CASE d = t
      <4>1. hw'[d].sta = hw[d].sta /\ hw'[d].stat \notin {24, 32, 56, 64, 72}
        BY <1>7, <3>1
      <4>2. d \notin bus'.contend /\ d # bus'.owner  BY <2>1, <2>3
      <4> QED  BY <1>5, <4>1, <4>2, StartStays
    <3>2. CASE d # t
      <4>1. hw'[d] = hw[d]  BY <1>8, <2>3, <3>2
      <4> QED  BY <1>5, <2>1, <2>3, <4>1, StartStays
    <3> QED  BY <3>1, <3>2
  <2> QED  BY <2>2, <2>3
<1>13. ASSUME NEW d \in Devices PROVE BufAt(d)' /\ WrittenAt(d)' /\ MapAt(d)'
  <2>1. BufAt(d) /\ WrittenAt(d) /\ MapAt(d)  BY DEF TransferInv
  <2>2. BufAt(d)'  BY <1>5, <2>1 DEF BufAt
  <2>3. hw'[d].si /\ hw'[d].stat = 160 <=> hw[d].si /\ hw[d].stat = 160
    BY <1>2, <1>6, <1>7, <1>8
  <2>4. Landed(d)' <=> Landed(d)  BY <1>5 DEF Landed
  <2>5. Taken(d, Len(wire[d]))' <=> Taken(d, Len(wire[d]))  BY <1>5 DEF Taken
  <2>6. WrittenAt(d)'
    BY <1>2, <1>5, <2>1, <2>3, <2>4, <2>5 DEF WrittenAt, Reads
  <2>7. MapAt(d)'
    <3>1. \A x \in Devices : ~Writes(x, d)  BY <1>2 DEF Writes, Reads
    <3>2. Holds(d)' <=> Holds(d)  BY <1>5 DEF Holds
    <3> QED  BY <1>5, <2>1, <2>3, <3>1, <3>2 DEF MapAt
  <2> QED  BY <2>2, <2>6, <2>7
<1>14. ASSUME NEW x \in Devices, NEW u \in Devices \cup {Chip} PROVE WriterAt(x, u)' /\ ReaderAt(x, u)'
  <2>1. WriterAt(x, u)'  BY <1>2, <1>5 DEF WriterAt, Reads, Writes
  <2>2. CASE x = o /\ u = t
    <3>1. Asks(o, t, "READ")'  BY <1>5, <1>11 DEF Asks
    <3>2. mst' = mst /\ request' = request  BY <1>5
    <3> QED  BY <1>6, <1>9, <1>10, <1>11, <2>1, <2>2, <3>1, <3>2 DEF ReaderAt
  <2>3. CASE ~(x = o /\ u = t)  BY <1>1, <1>5, <2>1, <2>3 DEF ReaderAt, Reads
  <2> QED  BY <2>2, <2>3
<1>15. ASSUME NEW x \in Devices, NEW u \in Devices PROVE ReadAt(x, u)'
  <2>1. CASE x = o /\ u = t
    <3>1. Len(expect[o]) = request[o].len /\ Following(o, t, Received(o)) /\ t \in Devices
      BY <1>2, <2>1 DEF TransferInv, ReadAt
    <3>2. Received(o) = k /\ Received(o)' = k + 1
      <4>1. hw'[o].si /\ hw'[o].stat \in {80, 88} /\ Len(mst'[o].buf) = k
        BY <1>5, <1>6, <1>10
      <4>2. Received(o)' = k + 1  BY <4>1 DEF Received
      <4>3. Received(o) = k + 0  BY <1>2, <1>10 DEF Received
      <4> QED  BY <4>2, <4>3
    <3>3. PICK n \in Nat : n = Len(expect[o]) /\ n = k + l
      BY <1>2, <1>11, <3>1, Fields DEF LinkInv
    <3>4. hw[t].dat = expect[o][k + 1] /\ Serves(t, o, k + 1)
      BY <1>2, <1>11, <3>1, <3>2, <3>3 DEF Following
    <3>5. byte = expect[o][k + 1]  BY <1>4, <3>1, <3>4, NameFacts
    <3>6. k + 1 < n => ack  BY <1>11, <3>3
    <3>7. Serves(t, o, k + 1)'  BY <1>5, <3>4 DEF Serves
    <3>8. Following(o, t, k + 1)'
      BY <1>5, <1>6, <1>7, <3>1, <3>3, <3>5, <3>6, <3>7 DEF Following
    <3>9. hw'[t].stat # 176  BY <1>7, <3>1
    <3> QED  BY <1>5, <2>1, <3>1, <3>2, <3>8, <3>9 DEF ReadAt
  <2>2. CASE ~(x = o /\ u = t)  BY <1>1, <1>5, <2>2 DEF ReadAt, Reads
  <2> QED  BY <2>1, <2>2
<1> QED  BY <1>12, <1>13, <1>14, <1>15 DEF TransferInv

\* The winner of the arbitration talks to whom its program meant.
LEMMA AddressesTarget ==
    ASSUME Programs, LinkInv, TransferInv, BusAddress,
           NEW o, NEW t, NEW rd, NEW ack, Addressed(o, t, rd, ack)
    PROVE  /\ o \in Devices /\ Fresh(o) /\ ~hw[o].si /\ ~hw[o].sta
           /\ t = request[o].tgt /\ t \in Devices \cup {Chip} /\ t # o
           /\ t \in Devices => ~hw[t].si /\ t \notin bus.contend
           /\ rd <=> request[o].kind = "READ"
<1>1. o \in Devices /\ o \in bus.contend /\ ~hw[o].si
  BY AddressFacts, Zenon
<1>2. Fresh(o) /\ hw[o].dat = AddressByte(request[o]) /\ ~hw[o].sta
  BY <1>1 DEF TransferInv, StartAt
<1>3. request[o] \in RequestType /\ request[o] \in Requests[o]  BY <1>1, <1>2, FreshFacts
<1>4. PICK u \in Devices \cup {Chip} : u = request[o].tgt  BY <1>3 DEF RequestType
<1>5. request[o].kind \in {"READ", "WRITE"}  BY <1>3 DEF RequestType
<1>6. PICK a \in Nat : a = AddressOf(u) /\ a % 2 = 0
  BY AddressAssumption DEF AddressOf
<1>7. PICK b \in Nat : b = hw[o].dat  BY <1>1, Fields DEF LinkInv, BlockType
<1>8. b = a + IF request[o].kind = "READ" THEN 1 ELSE 0
  BY <1>2, <1>4, <1>6, <1>7 DEF AddressByte
<1>9. b \div 2 = a \div 2 /\ (b % 2 = 1 <=> request[o].kind = "READ")
  <2>1. CASE request[o].kind = "READ"  BY <1>6, <1>8, <2>1
  <2>2. CASE request[o].kind # "READ"  BY <1>6, <1>8, <2>2
  <2> QED  BY <2>1, <2>2
<1>10. \A d \in Devices : Requests[d] # {} => d # u
  BY <1>1, <1>3, <1>4 DEF Programs, Orderly
<1>11. Named(o) = {d \in Devices \ {o} : I2CADR[d] \div 2 = a \div 2}
  BY <1>7, <1>9 DEF Named
<1>12. t = u
  <2>1. CASE u \in Devices
    <3>1. u # o /\ a = I2CADR[u]  BY <1>3, <1>6, <1>10, <2>1, NameFacts DEF AddressOf
    <3>2. u \in Named(o)  BY <1>11, <2>1, <3>1
    <3> QED  BY <3>2, AddressFacts, NameFacts
  <2>2. CASE u = Chip
    <3>1. a = ChipAddr  BY <1>6, <2>2 DEF AddressOf
    <3>2. \A x, y \in Nat : x % 2 = 0 /\ y % 2 = 0 /\ x \div 2 = y \div 2 => x = y
      OBVIOUS
    <3>3. Named(o) = {}  BY <1>6, <1>11, <3>1, <3>2, AddressAssumption
    <3>4. t \in Devices => Named(o) = {t}  BY AddressFacts, Zenon
    <3> QED  BY <2>2, <3>3, <3>4, AddressFacts, Zenon
  <2> QED  BY <2>1, <2>2
<1>13. ASSUME t \in Devices PROVE ~hw[t].si /\ t \notin bus.contend
  <2>1. ~hw[t].si  BY <1>13, AddressFacts, Zenon
  <2>2. t \in bus.contend => Fresh(t)  BY <1>13 DEF TransferInv, StartAt
  <2>3. t \in bus.contend => Requests[t] # {}  BY <1>13, <2>2, FreshFacts
  <2> QED  BY <1>10, <1>12, <1>13, <2>1, <2>3
<1>14. t # o  BY <1>1, <1>3, <1>10, <1>12
<1>15. rd <=> request[o].kind = "READ"
  <2>1. rd = (hw[o].dat % 2 = 1)  BY Zenon DEF Addressed
  <2> QED  BY <1>7, <1>9, <2>1
<1> QED  BY <1>1, <1>2, <1>4, <1>12, <1>13, <1>14, <1>15

LEMMA BusAddressKeepsTransfer ==
    ASSUME Programs, LinkInv, TransferInv, BusAddress
    PROVE  TransferInv'
<1>1. PICK o, t, rd, ack : Addressed(o, t, rd, ack)  BY AddressedBy
<1>2. AddressedBlocks(o, t, rd, ack)  BY <1>1, AddressReachesBlocks
<1>3. /\ o \in Devices /\ Fresh(o) /\ ~hw[o].sta
      /\ t = request[o].tgt /\ t \in Devices \cup {Chip} /\ t # o
      /\ t \in Devices => ~hw[t].si /\ t \notin bus.contend
      /\ rd <=> request[o].kind = "READ"
  BY <1>1, AddressesTarget
<1>4. /\ bus'.phase = IF ~ack THEN "refused" ELSE IF rd THEN "read" ELSE "write"
      /\ bus'.owner = o /\ bus'.contend = {} /\ bus'.target = t
      /\ wire' = [d \in Devices |-> IF d = t /\ ~rd THEN <<>> ELSE wire[d]]
      /\ expect' = [expect EXCEPT ![o] =
           IF ~rd \/ t \notin Devices THEN <<>>
           ELSE [i \in 1 .. request[o].len |-> slv[t].mmap[(slv[t].addr + i - 1) % MmapSize]]]
  <2>1. PICK p : p = IF ~ack THEN "refused" ELSE IF rd THEN "read" ELSE "write"  OBVIOUS
  <2>2. bus' = [phase |-> p, owner |-> o, contend |-> {}, target |-> t]
    BY <1>1, <2>1, AddressFacts, Zenon
  <2>3. bus'.phase = p /\ bus'.owner = o /\ bus'.contend = {} /\ bus'.target = t
    BY <2>2
  <2>4. /\ wire' = [d \in Devices |-> IF d = t /\ ~rd THEN <<>> ELSE wire[d]]
        /\ expect' = [expect EXCEPT ![o] =
             IF ~rd \/ t \notin Devices THEN <<>>
             ELSE [i \in 1 .. request[o].len |-> slv[t].mmap[(slv[t].addr + i - 1) % MmapSize]]]
    BY <1>1, Zenon DEF Addressed
  <2> QED  BY <2>1, <2>3, <2>4, Zenon
<1>5. UNCHANGED <<mst, slv, request, landed>>  BY <1>1, AddressFacts, Zenon
<1>6. bus.phase = "address" /\ bus.owner = None /\ \A d \in bus.contend : ~hw[d].si
  <2>1. bus.phase = "address" /\ \A d \in bus.contend : ~hw[d].si
    BY <1>1, AddressFacts, Zenon
  <2> QED  BY <2>1 DEF LinkInv, PhaseInv
<1>7. \A d \in Devices : hw'[d].sta = hw[d].sta  BY <1>2 DEF AddressedBlocks
<1>8. hw'[o].si /\ hw'[o].stat = IF rd THEN (IF ack THEN 64 ELSE 72) ELSE (IF ack THEN 24 ELSE 32)
  BY <1>2 DEF AddressedBlocks
<1>9. t \in Devices => IF ack THEN hw'[t].si /\ hw'[t].stat = IF rd THEN 168 ELSE 96
                              ELSE hw'[t] = hw[t]
  BY <1>2, <1>3 DEF AddressedBlocks
<1>10. \A d \in Devices : d # o /\ d # t =>
         IF d \in bus.contend THEN hw'[d].si /\ hw'[d].stat = 56 ELSE hw'[d] = hw[d]
  BY <1>2 DEF AddressedBlocks
<1>11. \A d \in Devices : Fresh(d)' <=> Fresh(d)  BY <1>5 DEF Fresh
<1>12. \A d \in Devices : hw'[d].si /\ hw'[d].stat = 160 => d # o /\ d # t /\ hw'[d] = hw[d]
  <2> SUFFICES ASSUME NEW d \in Devices, hw'[d].si, hw'[d].stat = 160
               PROVE  d # o /\ d # t /\ hw'[d] = hw[d]
    OBVIOUS
  <2>1. d # o  BY <1>8
  <2>2. d # t  BY <1>3, <1>9
  <2> QED  BY <1>10, <2>1, <2>2
<1>13. \A d \in Devices : hw[d].si /\ hw[d].stat = 160 => hw'[d] = hw[d]
  <2> SUFFICES ASSUME NEW d \in Devices, hw[d].si, hw[d].stat = 160
               PROVE  hw'[d] = hw[d]
    OBVIOUS
  <2>1. d \notin bus.contend  BY <1>6
  <2>2. o \in bus.contend  BY <1>1, AddressFacts, Zenon
  <2>3. d # o /\ d # t  BY <1>3, <2>1, <2>2
  <2> QED  BY <1>10, <2>1, <2>3
<1>14. ASSUME NEW d \in Devices PROVE StartAt(d)'
  <2>1. CASE d = o
    <3>1. Fresh(d)' /\ ~hw'[d].sta /\ hw'[d].si  BY <1>3, <1>7, <1>8, <1>11, <2>1
    <3> QED  BY <1>4, <3>1 DEF StartAt
  <2>2. CASE d # o /\ d # t /\ d \in bus.contend
    <3>1. Fresh(d)' /\ d # bus'.owner /\ d \notin bus'.contend
      BY <1>4, <1>11, <2>2 DEF TransferInv, StartAt
    <3> QED  BY <3>1 DEF StartAt
  <2>3. CASE d # o /\ ~(d # t /\ d \in bus.contend)
    <3>1. hw'[d].si /\ hw'[d].stat \in {24, 32, 56, 64, 72} =>
            hw[d].si /\ hw[d].stat \in {24, 32, 56, 64, 72}
      <4>1. CASE d = t /\ ack
        <5>1. hw'[d].stat \in {96, 168}  BY <1>9, <4>1
        <5> QED  BY <5>1
      <4>2. CASE ~(d = t /\ ack)
        <5>1. hw'[d] = hw[d]  BY <1>9, <1>10, <2>3, <4>2
        <5> QED  BY <5>1
      <4> QED  BY <4>1, <4>2
    <3>2. d \notin bus'.contend /\ d # bus'.owner  BY <1>4, <2>3
    <3> QED  BY <1>5, <1>7, <3>1, <3>2, StartStays
  <2> QED  BY <2>1, <2>2, <2>3
<1>15. ASSUME NEW d \in Devices PROVE WrittenAt(d)'
  <2>1. ASSUME bus'.phase = "write", bus'.target = d
        PROVE  hw'[d].stat = 96 /\ hw'[d].si /\ wire'[d] = <<>>
    <3>1. d = t /\ ack /\ ~rd  BY <1>4, <2>1
    <3> QED  BY <1>4, <1>9, <3>1
  <2>2. ASSUME hw'[d].si, hw'[d].stat = 160
        PROVE  Landed(d)' /\ Taken(d, Len(wire[d]))'
    <3>1. hw'[d] = hw[d] /\ wire'[d] = wire[d]  BY <1>4, <1>12, <2>2
    <3>2. Landed(d) /\ Taken(d, Len(wire[d]))  BY <2>2, <3>1 DEF TransferInv, WrittenAt
    <3>3. Landed(d)'  BY <1>5, <3>1, <3>2 DEF Landed
    <3>4. Taken(d, Len(wire[d]))'  BY <1>5, <3>1, <3>2 DEF Taken
    <3> QED  BY <3>3, <3>4
  <2>3. bus'.phase = "write" /\ bus'.target = d =>
          /\ hw'[d].si => hw'[d].stat \in {96, 128}
          /\ hw'[d].si /\ hw'[d].stat = 96 => wire'[d] = <<>>
          /\ ~(hw'[d].si /\ hw'[d].stat = 128) /\ hw'[d].si
    BY <2>1
  <2> QED  BY <2>2, <2>3 DEF WrittenAt
<1>16. ASSUME NEW d \in Devices PROVE MapAt(d)'
  <2>1. MapAt(d) /\ \A x \in Devices : ~Writes(x, d)
    BY <1>6 DEF TransferInv, Writes
  <2>2. Holds(d)' <=> Holds(d)  BY <1>5 DEF Holds
  <2>3. Fits(wire[d])'
    <3>1. wire'[d] = <<>> \/ wire'[d] = wire[d]  BY <1>4
    <3> QED  BY <2>1, <3>1 DEF MapAt, Fits
  <2> QED  BY <1>5, <1>13, <2>1, <2>2, <2>3 DEF MapAt
<1>17. ASSUME NEW d \in Devices PROVE BufAt(d)'
  <2>1. CASE d = o
    <3>1. ASSUME request[o].kind = "READ"
          PROVE  mst'[o].buf = <<>> /\ mst'[o].operation # "NOP"
      BY <1>3, <1>5, <3>1 DEF Fresh
    <3>2. request[o].kind = "READ" => request[o].len \in Nat /\ Len(expect'[o]) \in Nat
      <4>1. expect'[o] \in Seq(Nat)  BY <1>3, BusAddressKeepsLink DEF LinkInv, TypeInv
      <4>2. request[o].len \in Nat  BY <1>3, FreshFacts DEF RequestType
      <4> QED  BY <4>1, <4>2
    <3>3. Len(<<>>) = 0  OBVIOUS
    <3> QED  BY <1>5, <2>1, <3>1, <3>2, <3>3 DEF BufAt
  <2>2. CASE d # o
    <3>1. expect'[d] = expect[d]  BY <1>4, <2>2
    <3> QED  BY <1>5, <3>1 DEF TransferInv, BufAt
  <2> QED  BY <2>1, <2>2
<1>18. request[o].kind = IF rd THEN "READ" ELSE "WRITE"
  BY <1>3, FreshFacts DEF Fresh
<1>19. ASSUME NEW kind, request[o].kind = kind PROVE Asks(o, t, kind)'
  BY <1>3, <1>5, <1>19 DEF Asks, Fresh
<1>20. ASSUME NEW x \in Devices, NEW u \in Devices \cup {Chip} PROVE WriterAt(x, u)'
  <2> SUFFICES ASSUME Writes(x, u)' PROVE WriterAt(x, u)'  BY DEF WriterAt
  <2>1. x = o /\ u = t /\ ack /\ ~rd  BY <1>4 DEF Writes
  <2>2. Asks(o, t, "WRITE")'  BY <1>18, <1>19, <2>1
  <2>3. hw'[o].si /\ hw'[o].stat = 24  BY <1>8, <2>1
  <2>4. t \in Devices => wire'[t] = <<>>  BY <1>4, <2>1
  <2> QED  BY <2>1, <2>2, <2>3, <2>4 DEF WriterAt
<1>21. ASSUME NEW x \in Devices, NEW u \in Devices \cup {Chip} PROVE ReaderAt(x, u)'
  <2> SUFFICES ASSUME Reads(x, u)' PROVE ReaderAt(x, u)'  BY DEF ReaderAt
  <2>1. x = o /\ u = t /\ ack /\ rd  BY <1>4 DEF Reads
  <2>2. Asks(o, t, "READ")'  BY <1>18, <1>19, <2>1
  <2>3. hw'[o].si /\ hw'[o].stat = 64  BY <1>8, <2>1
  <2>4. /\ mst'[o].buf = <<>> /\ mst'[o].read_len = request'[o].len
        /\ request'[o].len >= 1 /\ request'[o].len \in Nat
    BY <1>3, <1>5, <1>18, <2>1, FreshFacts DEF Programs, Orderly, Fresh, RequestType
  <2>5. Len(<<>>) = 0  OBVIOUS
  <2>6. Len(mst'[o].buf) + mst'[o].read_len = request'[o].len  BY <2>4, <2>5
  <2> QED  BY <2>1, <2>2, <2>3, <2>4, <2>6 DEF ReaderAt
<1>22. ASSUME NEW x \in Devices, NEW u \in Devices PROVE ReadAt(x, u)'
  <2> SUFFICES ASSUME Reads(x, u)' PROVE ReadAt(x, u)'  BY DEF ReadAt
  <2>1. x = o /\ u = t /\ ack /\ rd /\ t \in Devices  BY <1>4 DEF Reads
  <2>2. PICK n \in Nat : n = request[o].len
    <3>1. request[o] \in RequestType  BY <1>3, FreshFacts
    <3> QED  BY <3>1 DEF RequestType
  <2>3. expect'[o] = [i \in 1 .. n |-> slv[t].mmap[(slv[t].addr + i - 1) % MmapSize]]
    BY <1>3, <1>4, <2>1, <2>2 DEF LinkInv, TypeInv
  <2>4. Len(expect'[o]) = n  BY <2>3
  <2>5. slv[t].addr \in Nat  BY <2>1, Fields DEF LinkInv, SlaveType
  <2>6. \A i \in 0 + 1 .. n : slv[t].addr + i - 1 = slv[t].addr + (i - 0 - 1)  BY <2>5
  <2>7. Serves(t, o, 0)'  BY <1>5, <2>3, <2>4, <2>6 DEF Serves
  <2>8. hw'[t].si /\ hw'[t].stat = 168  BY <1>9, <2>1
  <2>9. hw'[o].stat = 64  BY <1>8, <2>1
  <2>10. Following(o, t, 0)'  BY <2>7, <2>8, <2>9 DEF Following
  <2>11. Received(o)' = 0
    <3>1. mst'[o].buf = <<>> /\ Len(<<>>) = 0  BY <1>3, <1>5, <1>18, <2>1 DEF Fresh
    <3> QED  BY <2>9, <3>1 DEF Received
  <2>12. request'[o].len = n  BY <1>5, <2>2
  <2> QED  BY <2>1, <2>4, <2>8, <2>10, <2>11, <2>12 DEF ReadAt
<1> QED  BY <1>14, <1>15, <1>16, <1>17, <1>20, <1>21, <1>22 DEF TransferInv

-----------------------------------------------------------------------------
(* TransferInv is an invariant.                                            *)

LEMMA IrqKeepsTransfer ==
    ASSUME Programs, LinkInv, TransferInv, NEW d \in Devices, Irq(d)
    PROVE  TransferInv'
<1>1. CASE BusErrorSeen(d)  BY <1>1, BusErrorSeenKeepsTransfer
<1>2. CASE StartSent(d)  BY <1>2, StartSentKeepsTransfer
<1>3. CASE AddressAcked(d)  BY <1>3, AddressAckedKeepsTransfer
<1>4. CASE AddressRefused(d)  BY <1>4, AddressRefusedKeepsTransfer
<1>5. CASE ByteAcked(d)  BY <1>5, ByteAckedKeepsTransfer
<1>6. CASE LastByteAcked(d)  BY <1>6, LastByteAckedKeepsTransfer
<1>7. CASE ByteRefused(d)  BY <1>7, ByteRefusedKeepsTransfer
<1>8. CASE ArbitrationLost(d)  BY <1>8, ArbitrationLostKeepsTransfer
<1>9. CASE ReadAddressAcked(d)  BY <1>9, ReadAddressAckedKeepsTransfer
<1>10. CASE ByteReceived(d)  BY <1>10, ByteReceivedKeepsTransfer
<1>11. CASE LastByteReceived(d)  BY <1>11, LastByteReceivedKeepsTransfer
<1>12. CASE AddressedToWrite(d)  BY <1>12, AddressedToWriteKeepsTransfer
<1>13. CASE RegisterReceived(d)  BY <1>13, RegisterReceivedKeepsTransfer
<1>14. CASE DataReceived(d)  BY <1>14, DataReceivedKeepsTransfer
<1>15. CASE StopSeen(d)  BY <1>15, StopSeenKeepsTransfer
<1>16. CASE SendRegister(d)  BY <1>16, SendRegisterKeepsTransfer
<1>17. CASE Released(d)  BY <1>17, ReleasedKeepsTransfer
<1> QED  BY <1>1, <1>2, <1>3, <1>4, <1>5, <1>6, <1>7, <1>8, <1>9, <1>10, <1>11, <1>12,
            <1>13, <1>14, <1>15, <1>16, <1>17 DEF Irq

LEMMA StutterKeepsTransfer == TransferInv /\ UNCHANGED vars => TransferInv'
<1> SUFFICES ASSUME TransferInv, UNCHANGED vars PROVE TransferInv'  OBVIOUS
<1>1. UNCHANGED <<mst, slv, hw, bus, request, expect, wire, landed>>  BY DEF vars, history
<1>2. ASSUME NEW d \in Devices PROVE StartAt(d)' /\ WrittenAt(d)' /\ MapAt(d)' /\ BufAt(d)'
  <2>1. StartAt(d)' <=> StartAt(d)  BY <1>1 DEF StartAt, Fresh
  <2>2. WrittenAt(d)' <=> WrittenAt(d)  BY <1>1 DEF WrittenAt, Taken, Landed
  <2>3. MapAt(d)' <=> MapAt(d)  BY <1>1 DEF MapAt, Holds, Writes, Busy
  <2>4. BufAt(d)' <=> BufAt(d)  BY <1>1 DEF BufAt
  <2> QED  BY <2>1, <2>2, <2>3, <2>4 DEF TransferInv
<1>3. ASSUME NEW o \in Devices, NEW t \in Devices \cup {Chip} PROVE WriterAt(o, t)' /\ ReaderAt(o, t)'
  <2>1. WriterAt(o, t)' <=> WriterAt(o, t)
    BY <1>1 DEF WriterAt, Writes, Busy, Asks, Sent, Landed
  <2>2. ReaderAt(o, t)' <=> ReaderAt(o, t)  BY <1>1 DEF ReaderAt, Reads, Busy, Asks
  <2> QED  BY <2>1, <2>2 DEF TransferInv
<1>4. ASSUME NEW o \in Devices, NEW t \in Devices PROVE ReadAt(o, t)'
  <2>1. ReadAt(o, t)' <=> ReadAt(o, t)
    BY <1>1 DEF ReadAt, Reads, Busy, Received, Following, Serves
  <2> QED  BY <2>1 DEF TransferInv
<1> QED  BY <1>2, <1>3, <1>4 DEF TransferInv

LEMMA TransferStep ==
    ASSUME Programs, LinkInv, TransferInv, [Next]_vars
    PROVE  TransferInv'
<1>1. ASSUME NEW d \in Devices, Program(d) PROVE TransferInv'
  BY <1>1, ProgramKeepsTransfer
<1>2. ASSUME NEW d \in Devices, Irq(d) PROVE TransferInv'
  BY <1>2, IrqKeepsTransfer
<1>3. CASE BusStart  BY <1>3, BusStartKeepsTransfer
<1>4. CASE BusAddress  BY <1>4, BusAddressKeepsTransfer
<1>5. CASE BusWriteByte  BY <1>5, BusWriteByteKeepsTransfer
<1>6. CASE BusReadByte  BY <1>6, BusReadByteKeepsTransfer
<1>7. CASE BusStop  BY <1>7, BusStopKeepsTransfer
<1>8. ASSUME NEW d \in Devices, BusReleased(d) PROVE TransferInv'
  BY <1>8, BusReleasedKeepsTransfer
<1>9. CASE BusError  BY <1>9, BusErrorKeepsTransfer
<1>10. CASE UNCHANGED vars  BY <1>10, StutterKeepsTransfer
<1> QED  BY <1>1, <1>2, <1>3, <1>4, <1>5, <1>6, <1>7, <1>8, <1>9, <1>10 DEF Next, Bus

THEOREM TransferCorrect == ASSUME Programs PROVE Spec => []TransferInv
<1>1. Init => TransferInv  BY TransferInit
<1>2. LinkInv /\ TransferInv /\ [Next]_vars => TransferInv'  BY TransferStep
<1> QED  BY <1>1, <1>2, LinkCorrect, PTL DEF Spec

\* The registers of a device that no STOP is waiting for hold the last write
\* that a master completed, byte for byte: what i2c_irq_handler counted in
\* i2c_addr and kept in i2c_mmap_tmp is what the STOP copies.
THEOREM WritesLand == ASSUME Programs PROVE Spec => []CompletedWritesLand
<1>1. LinkInv /\ TransferInv => CompletedWritesLand  BY TransferImplies
<1> QED  BY <1>1, LinkCorrect, TransferCorrect, PTL

\* A read stores the registers of its slave from the pointer on, in order, no
\* byte more than i2c_start_read was given, and all of them unless it reports an
\* error (i2c_device.c, states 0x50, 0x58 of the one and 0xA8, 0xB8 of the other).
THEOREM ReadsReturnRegisters == ASSUME Programs PROVE Spec => []ReadsInOrder
<1>1. LinkInv /\ TransferInv => ReadsInOrder  BY TransferImplies
<1> QED  BY <1>1, LinkCorrect, TransferCorrect, PTL

LEMMA OnlyStopWritesMap ==
    ASSUME LinkInv, TransferInv, [Next]_vars, NEW d \in Devices,
           slv'[d].mmap # slv[d].mmap
    PROVE  Landed(d) /\ slv'[d].mmap = Put(slv[d].mmap, Head(wire[d]), Tail(wire[d]))
<1>1. slv' # slv  OBVIOUS
<1>2. PICK e \in Devices : \/ AddressedToWrite(e) \/ RegisterReceived(e) \/ DataReceived(e)
                           \/ StopSeen(e) \/ SendRegister(e)
  <2>1. ASSUME NEW e \in Devices PROVE ~Program(e)
    <3>1. Program(e) => \E r, m : Start(e, r, m)
      BY DEF Program, i2c_start_write, i2c_start_read
    <3>2. \A r, m : ~Start(e, r, m)  BY <1>1, Zenon DEF Start
    <3> QED  BY <3>1, <3>2
  <2>2. ~Bus
    <3>1. ~BusUnchanged  BY <1>1 DEF BusUnchanged
    <3>2. ~BusStart /\ ~BusStop /\ \A e \in Devices : ~BusReleased(e)
      BY <3>1, Zenon DEF BusStart, BusStop, BusReleased
    <3>3. ~BusAddress /\ ~BusWriteByte /\ ~BusReadByte
      BY <3>1, Zenon DEF BusAddress, BusWriteByte, BusReadByte
    <3> QED  BY <3>2, <3>3 DEF Bus
  <2>3. ~BusError /\ ~UNCHANGED vars  BY <1>1 DEF BusError, BusUnchanged, vars
  <2>4. PICK e \in Devices : Irq(e)  BY <2>1, <2>2, <2>3 DEF Next
  <2>5. /\ ~BusErrorSeen(e) /\ ~StartSent(e) /\ ~AddressAcked(e) /\ ~AddressRefused(e)
        /\ ~ByteAcked(e) /\ ~LastByteAcked(e) /\ ~ByteRefused(e) /\ ~ArbitrationLost(e)
        /\ ~ReadAddressAcked(e) /\ ~ByteReceived(e) /\ ~LastByteReceived(e) /\ ~Released(e)
    <3>1. \A m : ~MasterBecomes(e, m)  BY <1>1 DEF MasterBecomes
    <3>2. ~BusErrorSeen(e) /\ ~StartSent(e) /\ ~ArbitrationLost(e) /\ ~ReadAddressAcked(e)
          /\ ~Released(e)
      BY <1>1, Zenon DEF BusErrorSeen, StartSent, ArbitrationLost, ReadAddressAcked, Released
    <3>3. ~AddressAcked(e) /\ ~AddressRefused(e) /\ ~ByteAcked(e) /\ ~LastByteAcked(e)
      BY <3>1, Zenon DEF AddressAcked, AddressRefused, ByteAcked, LastByteAcked
    <3>4. ~ByteRefused(e) /\ ~ByteReceived(e) /\ ~LastByteReceived(e)
      BY <3>1, Zenon DEF ByteRefused, ByteReceived, LastByteReceived
    <3> QED  BY <3>2, <3>3, <3>4
  <2> QED  BY <2>4, <2>5 DEF Irq
<1>3. \E s : slv' = [slv EXCEPT ![e] = s]
  BY <1>2 DEF AddressedToWrite, RegisterReceived, DataReceived, StopSeen, SendRegister,
              SlaveBecomes
<1>4. e = d  BY <1>3 DEF LinkInv, TypeInv
<1>5. PICK s \in SlaveType : s = slv[d]  BY Fields DEF LinkInv
<1>6. ~AddressedToWrite(d)
  <2> SUFFICES ASSUME AddressedToWrite(d) PROVE FALSE  OBVIOUS
  <2>1. slv'[d] = IF hw[d].stat = 96
           THEN [s EXCEPT !.operation = "WRITE", !.addr_start = s.addr, !.waiting_addr = TRUE]
           ELSE [s EXCEPT !.waiting_addr = TRUE]
    BY <1>5 DEF AddressedToWrite, SlaveBecomes, LinkInv, TypeInv
  <2>2. slv'[d].mmap = s.mmap  BY <2>1 DEF SlaveType
  <2> QED  BY <1>5, <2>2
<1>7. ~RegisterReceived(d)
  <2> SUFFICES ASSUME RegisterReceived(d) PROVE FALSE  OBVIOUS
  <2>1. slv'[d] = [s EXCEPT !.waiting_addr = FALSE, !.addr = hw[d].dat, !.addr_start = hw[d].dat]
    BY <1>5 DEF RegisterReceived, SlaveBecomes, LinkInv, TypeInv
  <2>2. slv'[d].mmap = s.mmap  BY <2>1 DEF SlaveType
  <2> QED  BY <1>5, <2>2
<1>8. ~DataReceived(d)
  <2> SUFFICES ASSUME DataReceived(d) PROVE FALSE  OBVIOUS
  <2>1. slv'[d] = [Store(s, hw[d].dat) EXCEPT !.addr = AfterWrite(@)]
    BY <1>5 DEF DataReceived, SlaveBecomes, LinkInv, TypeInv
  <2>2. PICK u : u = Store(s, hw[d].dat)  OBVIOUS
  <2>3. u.mmap = s.mmap /\ DOMAIN u = DOMAIN s  BY <2>2 DEF Store, SlaveType
  <2>4. "mmap" \in DOMAIN u /\ slv'[d] = [u EXCEPT !.addr = AfterWrite(@)]
    BY <2>1, <2>2, <2>3 DEF SlaveType
  <2>5. slv'[d].mmap = u.mmap  BY <2>4
  <2> QED  BY <1>5, <2>3, <2>5
<1>9. ~SendRegister(d)
  <2> SUFFICES ASSUME SendRegister(d) PROVE FALSE  OBVIOUS
  <2>1. slv'[d] = [s EXCEPT !.addr = AfterRead(@),
                            !.operation = IF hw[d].stat = 168 THEN "READ" ELSE @]
    BY <1>5 DEF SendRegister, SlaveBecomes, LinkInv, TypeInv
  <2>2. slv'[d].mmap = s.mmap  BY <2>1 DEF SlaveType
  <2> QED  BY <1>5, <2>2
<1>10. StopSeen(d)  BY <1>2, <1>4, <1>6, <1>7, <1>8, <1>9
<1> QED  BY <1>10, StopSeenKeepsTransfer

\* "make write sequences atomic" (i2c_device.c:295): the registers change only
\* at a STOP, from what they were to all that one write carried, its master
\* having seen the last byte acknowledged, whatever a bus error cut off before.
THEOREM WritesAtomic == ASSUME Programs PROVE Spec => WritesAreAtomic
<1>1. ASSUME LinkInv, TransferInv, [Next]_vars
      PROVE  [\A d \in Devices :
                slv'[d].mmap # slv[d].mmap =>
                  /\ landed[d].tgt = d /\ wire[d] = WireBytes(landed[d])
                  /\ slv'[d].mmap = Put(slv[d].mmap, Head(wire[d]), Tail(wire[d]))]_slv
  BY <1>1, OnlyStopWritesMap DEF Landed
<1> QED  BY <1>1, LinkCorrect, TransferCorrect, PTL DEF Spec, WritesAreAtomic
=============================================================================
