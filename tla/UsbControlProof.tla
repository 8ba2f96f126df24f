--------------------------- MODULE UsbControlProof ---------------------------
(***************************************************************************)
(* The line coding is always one the host sent, a request whose status     *)
(* ended well has taken effect, and the host reads the answer to its own   *)
(* request in order: for every size of packet, line coding and descriptor  *)
(* and any number of requests and bus resets, from a host that waits with  *)
(* a new SETUP until its last IN transaction was served                    *)
(* (EarlySetup = FALSE).                                                   *)
(***************************************************************************)
EXTENDS UsbControl, TLAPS

Areas  == {"std", "class", "line", "desc", "vendor"}
Stages == {"idle", "dataIn", "dataOut", "statusIn", "statusOut"}
Isrs   == {"off", "checkOut", "out", "checkIn", "in"}
Byte   == {<<"line", id, i>> : id \in Nat, i \in Nat}

Pending == epOut.has = "setup"

\* The request announces data for the device.
Sends(r) == r.dir = "out" /\ r.len > 0

FirstStage(r) == IF r.len = 0 THEN "statusIn" ELSE IF r.dir = "in" THEN "dataIn" ELSE "dataOut"

\* The handler knows the request, and data is still to come or in the buffer.
Collecting == /\ ~Pending /\ Sends(host.req)
              /\ host.stage = "dataOut" \/ (host.stage = "statusIn" /\ epOut.has = "data")

\* How many bytes the handler has stored.
Taken == host.sent - Len(epOut.bytes)

TypeInv ==
    /\ host \in [stage : Stages, req : AllRequests \cup {NoRequest}, id : Nat, sent : Nat,
                 got : {host.got}]
    /\ epOut \in [has : {"none", "setup", "data"}, bytes : Seq(Byte)]
    /\ epOut.has # "data" => epOut.bytes = <<>>
    /\ pbData \in [area : Areas, off : Int] /\ iResidue \in Int
    /\ isr \in Isrs /\ setupStat \in BOOLEAN /\ inInt \in BOOLEAN /\ outInt \in BOOLEAN
    /\ done \in BOOLEAN /\ stalled \in BOOLEAN
    /\ mem = [a \in Areas |-> mem[a]]
    /\ mem.class = [i \in 1 .. LineLen |-> mem.class[i]]

\* The host's stage fits its request.
StageInv ==
    /\ host.stage # "idle" => host.req \in AllRequests
    /\ host.stage \in {"dataIn", "statusOut"} => host.req.dir = "in"
    /\ host.stage \in {"dataOut", "statusIn"} => host.req.len = 0 \/ host.req.dir = "out"
    /\ host.stage = "dataOut" => Sends(host.req) /\ host.sent < host.req.len /\ ~inInt
    /\ host.stage = "statusIn" /\ Sends(host.req) => host.sent = host.req.len
    /\ done => host.stage = "idle"

\* A SETUP the handler has not read is the first packet of its transfer, and
\* the handler will find it.
SetupInv ==
    /\ Pending => /\ outInt \/ (isr = "out" /\ setupStat)
                  /\ host.stage = FirstStage(host.req) /\ host.stage # "idle" /\ host.sent = 0
                  /\ epIn = <<>> /\ ~inInt /\ ~stalled
    /\ isr = "out" /\ setupStat => Pending

\* What was stored and what is in the buffer are the host's bytes in order, and
\* nothing else moves the data pointer.
CollectInv ==
    /\ Collecting =>
         /\ Setup = host.req /\ epIn = <<>> /\ ~inInt /\ isr # "in" /\ ~stalled
         /\ Taken \in Nat /\ pbData.area = host.req.type /\ pbData.off = Taken
         /\ iResidue = host.req.len - Taken /\ iResidue > 0
         /\ \A i \in 1 .. Len(epOut.bytes) : epOut.bytes[i] = <<"line", host.id, Taken + i>>
         /\ host.req.name = "SET_LINE_CODING" =>
              \A i \in 1 .. Taken : mem.class[i] = <<"line", host.id, i>>
    /\ epOut.bytes # <<>> => Collecting

\* A request that can end well has taken effect when its status can go out.
EffectInv ==
    /\ host.req.name = "SET_LINE_CODING" /\ ~Pending /\ ~Collecting
         /\ (host.stage = "statusIn" \/ done) => mem.line = Coding(host.id)
    /\ host.req.name = "SET_CONFIGURATION" /\ ~Pending /\ (host.stage = "statusIn" \/ done) =>
         bConfiguration = host.req.val /\ hwConfigured = (host.req.val # 0)
    /\ host.req.name \in Refused =>
         /\ ~done /\ host.stage # "statusOut"
         /\ host.stage # "idle" => epIn = <<>> /\ ~inInt /\ (isr = "in" => Pending)

IInv == TypeInv /\ StageInv /\ SetupInv /\ CollectInv /\ EffectInv /\ LineCodingWhole

-----------------------------------------------------------------------------
(* Requests, and the stores.                                               *)

LEMMA RequestFacts ==
    ASSUME NEW r \in AllRequests
    PROVE  /\ r.len \in Nat /\ r.type \in {"std", "class", "vendor"} /\ r.dir \in {"in", "out"}
           /\ r.name = "SET_LINE_CODING" => r.dir = "out" /\ r.len = LineLen /\ r.type = "class"
           /\ r.name = "SET_CONFIGURATION" => r.dir = "out" /\ r.len = 0
           /\ r.name \in Refused => r.len > 0
           /\ Sends(r) => \/ r.name = "SET_LINE_CODING"
                          \/ r.name \in Refused /\ r.type = "std"
           /\ r.dir = "in" => r.len > 0
           /\ r.name # "none"
<1>1. CASE \E n \in Asked : r = Ask("GET_DESCRIPTOR", "std", "in", n, 0)
  BY <1>1, LengthAssumption DEF Ask, Refused, Sends
<1>2. CASE \E v \in {0, 1} : r = Ask("SET_CONFIGURATION", "std", "out", 0, v)
  BY <1>2 DEF Ask, Refused, Sends
<1>3. CASE r \in {Ask("GET_STATUS", "std", "in", 2, 0),
                  Ask("GET_CONFIGURATION", "std", "in", 1, 0),
                  Ask("SET_DESCRIPTOR", "std", "out", 2, 0),
                  Ask("SYNCH_FRAME", "std", "in", 2, 0)}
  BY <1>3 DEF Ask, Refused, Sends
<1>4. CASE r \in {Ask("SET_LINE_CODING", "class", "out", LineLen, 0),
                  Ask("GET_LINE_CODING", "class", "in", LineLen, 0),
                  Ask("SET_CONTROL_LINE_STATE", "class", "out", 0, 0),
                  Ask("VENDOR", "vendor", "in", 1, 0)}
  BY <1>4, LengthAssumption DEF Ask, Refused, Sends
<1> QED
  BY <1>1, <1>2, <1>3, <1>4 DEF AllRequests

\* A host that is in a transfer has made a request.
LEMMA HostRequest ==
    ASSUME IInv
    PROVE  /\ host.req.len \in Nat /\ host.req.type \in Areas
           /\ host.req.name = "SET_LINE_CODING" =>
                host.req.dir = "out" /\ host.req.len = LineLen /\ host.req.type = "class"
           /\ host.req.name = "SET_CONFIGURATION" => host.req.dir = "out" /\ host.req.len = 0
           /\ host.req.name \in Refused => host.req.len > 0
           /\ Sends(host.req) => \/ host.req.name = "SET_LINE_CODING"
                                 \/ host.req.name \in Refused /\ host.req.type = "std"
<1>1. host.req \in AllRequests \cup {NoRequest}
  BY DEF IInv, TypeInv
<1>2. CASE host.req \in AllRequests
  BY <1>2, RequestFacts DEF Areas
<1>3. CASE host.req = NoRequest
  BY <1>3 DEF NoRequest, Ask, Refused, Sends, Areas
<1> QED
  BY <1>1, <1>2, <1>3

LEMMA InitInv == Init => IInv
<1> SUFFICES ASSUME Init PROVE IInv
  OBVIOUS
<1>1. TypeInv
  <2>1. host \in [stage : Stages, req : AllRequests \cup {NoRequest}, id : Nat, sent : Nat, got : {host.got}]
    BY DEF Init, Stages
  <2>2. epOut \in [has : {"none", "setup", "data"}, bytes : Seq(Byte)] /\ epOut.bytes = <<>>
    BY DEF Init, Empty
  <2>3. DOMAIN mem = Areas /\ mem = [a \in DOMAIN mem |-> mem[a]]
    BY DEF Init, Areas
  <2>4. mem.class = [i \in 1 .. LineLen |-> mem.class[i]]
    BY DEF Init, Coding
  <2>5. pbData \in [area : Areas, off : Int]
    BY DEF Init, Areas
  <2> QED
    BY <2>1, <2>2, <2>3, <2>4, <2>5 DEF Init, TypeInv, Isrs
<1>2. StageInv
  BY DEF Init, StageInv
<1>3. SetupInv
  BY DEF Init, SetupInv, Pending, Empty
<1>4. CollectInv
  BY DEF Init, CollectInv, Collecting, Empty
<1>5. EffectInv
  BY DEF Init, EffectInv, NoRequest, Ask, Refused
<1>6. LineCodingWhole
  BY DEF Init, LineCodingWhole
<1> QED
  BY <1>1, <1>2, <1>3, <1>4, <1>5, <1>6 DEF IInv

\* What the handler knows and has stored stays as it is.
DeviceRests == UNCHANGED <<Setup, pbData, iResidue, mem, bConfiguration, setupStat>>

-----------------------------------------------------------------------------
(* The host.                                                               *)

LEMMA SetupStep ==
    ASSUME EarlySetup = FALSE, IInv, NEW r \in AllRequests, HostSetup(r)
    PROVE  IInv'
<1>1. /\ ~Pending' => FALSE
      /\ host'.stage = FirstStage(r) /\ host'.stage # "idle" /\ host'.req = r
      /\ host'.id = host.id + 1 /\ host'.sent = 0
      /\ ~done' /\ epOut' = [has |-> "setup", bytes |-> <<>>] /\ outInt' /\ epIn' = <<>> /\ ~stalled'
      /\ UNCHANGED <<inInt, isr, hwConfigured>> /\ DeviceRests
  BY DEF HostSetup, FirstStage, isrVars, Pending, DeviceRests
<1>2. ~inInt /\ ~(isr = "out" /\ setupStat)
  <2>1. CASE host.stage = "idle"
    BY <2>1 DEF HostSetup, IInv, SetupInv
  <2>2. CASE host.stage # "idle"
    BY <2>2 DEF HostSetup
  <2> QED
    BY <2>1, <2>2
<1>3. TypeInv'
  <2>1. host' \in [stage : Stages, req : AllRequests \cup {NoRequest}, id : Nat, sent : Nat, got : {host'.got}]
    BY DEF HostSetup, IInv, TypeInv, Stages
  <2>2. epOut' \in [has : {"none", "setup", "data"}, bytes : Seq(Byte)] /\ epOut'.bytes = <<>>
    BY <1>1
  <2> QED
    BY <1>1, <2>1, <2>2 DEF HostSetup, IInv, TypeInv, DeviceRests
<1>4. StageInv'
  BY <1>1, <1>2, RequestFacts DEF StageInv, FirstStage, Sends
<1>5. SetupInv'
  BY <1>1, <1>2 DEF SetupInv, DeviceRests, Pending
<1>6. CollectInv'
  BY <1>1 DEF CollectInv, Collecting, Pending
<1>7. EffectInv'
  BY <1>1, <1>2, RequestFacts DEF EffectInv, Pending, FirstStage
<1>8. LineCodingWhole'
  <2>1. PICK n \in 0 .. host.id : mem.line = Coding(n)
    BY DEF IInv, LineCodingWhole
  <2>2. host.id \in Nat /\ n \in 0 .. host'.id /\ mem' = mem
    BY <1>1, <2>1 DEF IInv, TypeInv, DeviceRests
  <2> QED
    BY <2>1, <2>2 DEF LineCodingWhole, Coding
<1> QED
  BY <1>3, <1>4, <1>5, <1>6, <1>7, <1>8 DEF IInv

\* What no action of the host touches.
LEMMA HostFrame ==
    ASSUME IInv, DeviceRests, isr' = isr, UNCHANGED <<host.req, host.id>>
    PROVE  LineCodingWhole'
BY DEF IInv, LineCodingWhole, DeviceRests, Coding

LEMMA DataOutStep ==
    ASSUME IInv, HostDataOut
    PROVE  IInv'
<1> DEFINE n == Least(MaxPacket, host.req.len - host.sent)
<1>1. /\ host.stage = "dataOut" /\ epOut = Empty /\ ~Pending /\ outInt'
      /\ host' = [host EXCEPT !.sent = @ + n,
                    !.stage = IF host.sent + n = host.req.len THEN "statusIn" ELSE @]
      /\ epOut' = [has |-> "data", bytes |-> [i \in 1 .. n |-> <<"line", host.id, host.sent + i>>]]
      /\ UNCHANGED <<done, epIn, inInt, stalled, isr, hwConfigured>> /\ DeviceRests
  BY DEF HostDataOut, Empty, Pending, isrVars, reqVars, DeviceRests
<1>2. /\ host \in [stage : Stages, req : AllRequests \cup {NoRequest}, id : Nat, sent : Nat, got : {host.got}]
      /\ Sends(host.req) /\ host.sent < host.req.len /\ ~inInt /\ host.req \in AllRequests
  BY <1>1 DEF IInv, TypeInv, StageInv
<1>3. n \in Nat \ {0} /\ n <= host.req.len - host.sent /\ host.req.len \in Nat
  BY <1>2, RequestFacts, MaxPacketAssumption DEF Least
<1> HIDE DEF n
<1>4. /\ host'.sent = host.sent + n /\ host'.id = host.id /\ host'.req = host.req
      /\ host'.stage = (IF host.sent + n = host.req.len THEN "statusIn" ELSE "dataOut")
      /\ host' \in [stage : Stages, req : AllRequests \cup {NoRequest}, id : Nat, sent : Nat, got : {host'.got}]
  <2>1. /\ host'.sent = host.sent + n /\ host'.id = host.id /\ host'.req = host.req
        /\ host'.stage = (IF host.sent + n = host.req.len THEN "statusIn" ELSE "dataOut")
    BY <1>1, <1>2
  <2>2. host.sent + n \in Nat /\ host'.stage \in Stages
    BY <1>2, <1>3, <2>1 DEF Stages
  <2> QED
    BY <1>1, <1>2, <2>1, <2>2
<1>5. /\ epOut'.has = "data" /\ epOut'.bytes \in Seq(Byte) /\ Len(epOut'.bytes) = n
      /\ \A i \in 1 .. n : epOut'.bytes[i] = <<"line", host.id, host.sent + i>>
  <2>1. \A i \in 1 .. n : <<"line", host.id, host.sent + i>> \in Byte
    BY <1>2, <1>3 DEF Byte
  <2>2. epOut'.has = "data" /\ epOut'.bytes = [i \in 1 .. n |-> <<"line", host.id, host.sent + i>>]
    BY <1>1
  <2> QED
    BY <1>3, <2>1, <2>2
<1>6. Collecting /\ Taken = host.sent
  BY <1>1, <1>2 DEF Collecting, Taken, Empty, Pending
<1>7. Collecting' /\ Taken' = host.sent /\ ~Pending'
  BY <1>2, <1>3, <1>4, <1>5 DEF Collecting, Taken, Pending, Sends
<1>8. TypeInv'
  BY <1>1, <1>4, <1>5 DEF IInv, TypeInv, DeviceRests
<1>9. StageInv'
  BY <1>1, <1>2, <1>3, <1>4 DEF IInv, StageInv, Sends
<1>10. SetupInv'
  BY <1>1, <1>7 DEF IInv, SetupInv, Pending, DeviceRests
<1>11. CollectInv'
  <2>1. epOut'.bytes # <<>>
    BY <1>3, <1>5
  <2> QED
    BY <1>1, <1>4, <1>5, <1>6, <1>7, <2>1 DEF IInv, CollectInv, DeviceRests
<1>12. EffectInv'
  <2>1. ~done /\ host.req.name # "SET_CONFIGURATION"
    BY <1>1, <1>2, RequestFacts DEF IInv, StageInv, Sends
  <2>2. host.req.name \in Refused => epIn = <<>> /\ ~inInt /\ isr # "in"
    BY <1>1 DEF IInv, EffectInv
  <2> QED
    BY <1>1, <1>4, <1>7, <2>1, <2>2 DEF EffectInv
<1>13. LineCodingWhole'
  BY <1>1, <1>4, HostFrame
<1> QED
  BY <1>8, <1>9, <1>10, <1>11, <1>12, <1>13 DEF IInv

\* The host takes a packet, sends the empty one that ends a transfer, gives the
\* transfer up, or resets the bus: no data is under way and none comes.
LEMMA TokenFacts ==
    ASSUME IInv, HostDataIn \/ HostStatusOut \/ HostStatusIn \/ HostSeesStall \/ BusReset
    PROVE  /\ ~Pending /\ ~Pending' /\ epOut'.bytes = <<>>
           /\ host'.stage \in {"dataIn", "statusOut", "idle"}
           /\ host'.stage # "idle" => host.stage = "dataIn" /\ ~done'
           /\ done' => /\ host.req.name \notin Refused
                       /\ host.stage \in {"statusIn", "statusOut"} /\ ~Collecting
                       /\ hwConfigured' = hwConfigured
           /\ host.req.name \in Refused => host'.stage = "idle"
<1>1. CASE HostDataIn
  <2>1. /\ host.stage = "dataIn" /\ InFull /\ epOut' = epOut /\ done' = done
        /\ host'.stage \in {"dataIn", "statusOut"}
    BY <1>1 DEF HostDataIn, IInv, TypeInv
  <2>2. ~Pending /\ ~Collecting /\ ~done /\ host.req.name \notin Refused
    BY <2>1 DEF IInv, SetupInv, StageInv, EffectInv, InFull, Collecting
  <2> QED
    BY <2>1, <2>2 DEF IInv, CollectInv, Pending
<1>2. CASE HostStatusOut
  <2>1. /\ host.stage = "statusOut" /\ epOut = Empty /\ epOut' = [has |-> "data", bytes |-> <<>>]
        /\ host'.stage = "idle" /\ hwConfigured' = hwConfigured
    BY <1>2 DEF HostStatusOut, IInv, TypeInv, reqVars
  <2>2. host.req.name \notin Refused
    BY <2>1 DEF IInv, EffectInv
  <2> QED
    BY <2>1, <2>2 DEF Pending, Collecting, Empty
<1>3. CASE HostStatusIn
  <2>1. /\ host.stage = "statusIn" /\ InFull /\ epOut' = epOut
        /\ host'.stage = "idle" /\ hwConfigured' = hwConfigured
    BY <1>3 DEF HostStatusIn, IInv, TypeInv, reqVars
  <2>2. ~Pending /\ ~Collecting /\ host.req.name \notin Refused
    BY <2>1 DEF IInv, SetupInv, CollectInv, EffectInv, InFull
  <2> QED
    BY <2>1, <2>2 DEF IInv, CollectInv, Pending
<1>4. CASE HostSeesStall
  <2>1. host.stage # "idle" /\ stalled /\ epOut' = epOut /\ host'.stage = "idle" /\ done' = done
    BY <1>4 DEF HostSeesStall, IInv, TypeInv, epVars
  <2>2. ~Pending /\ ~Collecting /\ ~done
    BY <2>1 DEF IInv, SetupInv, CollectInv, StageInv
  <2> QED
    BY <2>1, <2>2 DEF IInv, CollectInv, Pending
<1>5. CASE BusReset
  <2>1. isr = "off" /\ ~outInt /\ epOut' = Empty /\ host'.stage = "idle" /\ ~done'
    BY <1>5 DEF BusReset, IInv, TypeInv
  <2> QED
    BY <2>1 DEF IInv, SetupInv, Pending, Empty
<1> QED
  BY <1>1, <1>2, <1>3, <1>4, <1>5

LEMMA TokenStep ==
    ASSUME IInv, HostDataIn \/ HostStatusOut \/ HostStatusIn \/ HostSeesStall \/ BusReset
    PROVE  IInv'
<1>1. /\ UNCHANGED isr /\ DeviceRests
      /\ host'.req = host.req /\ host'.id = host.id
      /\ host' \in [stage : Stages, req : AllRequests \cup {NoRequest}, id : Nat, sent : Nat, got : {host'.got}]
      /\ epOut' \in {epOut, Empty, [has |-> "data", bytes |-> <<>>]}
      /\ inInt' \in BOOLEAN /\ outInt' \in BOOLEAN /\ done' \in BOOLEAN /\ stalled' \in BOOLEAN
  <2>1. host \in [stage : Stages, req : AllRequests \cup {NoRequest}, id : Nat, sent : Nat, got : {host.got}]
    BY DEF IInv, TypeInv
  <2>2. inInt \in BOOLEAN /\ outInt \in BOOLEAN /\ done \in BOOLEAN /\ stalled \in BOOLEAN
    BY DEF IInv, TypeInv
  <2>3. CASE HostDataIn
    BY <2>1, <2>2, <2>3 DEF HostDataIn, Stages, isrVars, reqVars, DeviceRests
  <2>4. CASE HostStatusOut
    BY <2>1, <2>2, <2>4 DEF HostStatusOut, Stages, isrVars, reqVars, DeviceRests
  <2>5. CASE HostStatusIn
    BY <2>1, <2>2, <2>5 DEF HostStatusIn, Stages, isrVars, reqVars, DeviceRests
  <2>6. CASE HostSeesStall
    BY <2>1, <2>2, <2>6 DEF HostSeesStall, Stages, isrVars, reqVars, epVars, DeviceRests
  <2>7. CASE BusReset
    BY <2>1, <2>2, <2>7 DEF BusReset, Stages, isrVars, DeviceRests
  <2> QED
    BY <2>3, <2>4, <2>5, <2>6, <2>7
<1>2. TypeInv'
  <2>1. epOut' \in [has : {"none", "setup", "data"}, bytes : Seq(Byte)]
    <3>1. /\ epOut \in [has : {"none", "setup", "data"}, bytes : Seq(Byte)]
          /\ Empty \in [has : {"none", "setup", "data"}, bytes : Seq(Byte)]
          /\ [has |-> "data", bytes |-> <<>>] \in [has : {"none", "setup", "data"}, bytes : Seq(Byte)]
      BY DEF IInv, TypeInv, Empty
    <3> QED
      BY <1>1, <3>1
  <2> QED
    BY <1>1, <2>1, TokenFacts DEF IInv, TypeInv, DeviceRests
<1>3. StageInv'
  BY <1>1, TokenFacts DEF IInv, StageInv
<1>4. SetupInv'
  BY <1>1, TokenFacts DEF IInv, SetupInv, DeviceRests
<1>5. CollectInv'
  BY TokenFacts DEF CollectInv, Collecting
<1>6. EffectInv'
  <2>1. host.req.name \in Refused => ~done' /\ host'.stage = "idle"
    BY TokenFacts
  <2>2. /\ host.req.name = "SET_LINE_CODING" /\ done' => mem.line = Coding(host.id)
        /\ host.req.name = "SET_CONFIGURATION" /\ done' =>
             bConfiguration = host.req.val /\ hwConfigured = (host.req.val # 0)
    BY TokenFacts, HostRequest DEF IInv, EffectInv, StageInv
  <2> QED
    BY <1>1, <2>1, <2>2, TokenFacts DEF EffectInv, DeviceRests, Coding
<1>7. LineCodingWhole'
  BY <1>1, HostFrame
<1> QED
  BY <1>2, <1>3, <1>4, <1>5, <1>6, <1>7 DEF IInv

-----------------------------------------------------------------------------
(* The interrupt handler.                                                  *)

LEMMA DispatchStep ==
    ASSUME IInv, IsrEnter \/ IsrOut \/ IsrNoOut \/ IsrIn
    PROVE  IInv'
<1>1. /\ UNCHANGED <<host, done, epOut, epIn, stalled, reqVars>>
      /\ isr' \in Isrs /\ outInt' \in BOOLEAN /\ setupStat' \in BOOLEAN /\ inInt' \in BOOLEAN
      /\ inInt' => inInt
      /\ isr' = "in" => inInt
      /\ \/ outInt' = outInt /\ (isr' # "out" /\ isr # "out")
         \/ isr' = "out" /\ setupStat' = Pending
  <2>1. CASE IsrEnter
    BY <2>1 DEF IsrEnter, hostVars, epVars, IInv, TypeInv, Isrs
  <2>2. CASE IsrOut
    BY <2>2 DEF IsrOut, hostVars, IInv, TypeInv, Isrs, Pending
  <2>3. CASE IsrNoOut
    BY <2>3 DEF IsrNoOut, hostVars, epVars, IInv, TypeInv, Isrs
  <2>4. CASE IsrIn
    BY <2>4 DEF IsrIn, hostVars, IInv, TypeInv, Isrs
  <2> QED
    BY <2>1, <2>2, <2>3, <2>4
<1> USE DEF reqVars
<1>2. Pending' = Pending /\ Collecting' = Collecting /\ Taken' = Taken
  BY <1>1 DEF Pending, Collecting, Taken
<1>3. TypeInv' /\ StageInv'
  BY <1>1 DEF IInv, TypeInv, StageInv
<1>4. SetupInv'
  BY <1>1, <1>2 DEF IInv, SetupInv
<1>5. CollectInv' /\ EffectInv'
  BY <1>1, <1>2 DEF IInv, CollectInv, EffectInv, Coding
<1>6. LineCodingWhole'
  BY <1>1 DEF IInv, LineCodingWhole, Coding
<1> QED
  BY <1>3, <1>4, <1>5, <1>6 DEF IInv

\* What a step that reads a SETUP finds and leaves.
LEMMA ReadSetupFacts ==
    ASSUME IInv, ReadSetup
    PROVE  /\ host.stage = FirstStage(host.req) /\ host.stage # "idle" /\ host.sent = 0
           /\ host.req \in AllRequests /\ epIn = <<>> /\ ~inInt /\ ~stalled /\ ~done
           /\ ~Pending' /\ epOut' = Empty /\ epOut'.bytes = <<>> /\ Len(epOut'.bytes) = 0
           /\ epOut' \in [has : {"none", "setup", "data"}, bytes : Seq(Byte)]
           /\ isr' = "checkIn" /\ Setup' = host.req
           /\ UNCHANGED <<host, done, outInt, inInt, setupStat>>
<1>1. Empty \in [has : {"none", "setup", "data"}, bytes : Seq(Byte)] /\ Empty.bytes = <<>> /\ Len(<<>>) = 0
  BY DEF Empty
<1>2. epOut' = Empty
  BY DEF ReadSetup
<1>3. /\ host.stage = FirstStage(host.req) /\ host.stage # "idle" /\ host.sent = 0
      /\ host.req \in AllRequests /\ epIn = <<>> /\ ~inInt /\ ~stalled /\ ~done
      /\ ~Pending' /\ isr' = "checkIn" /\ Setup' = host.req
      /\ UNCHANGED <<host, done, outInt, inInt, setupStat>>
  BY DEF IInv, ReadSetup, SetupInv, StageInv, Pending, Empty, hostVars
<1> QED
  BY <1>1, <1>2, <1>3

\* The handler of a request without data leaves class store and line coding alone.
LEMMA MemAfterFacts ==
    ASSUME IInv, NEW r \in AllRequests, ~Sends(r)
    PROVE  /\ MemAfter(r) = [a \in Areas |-> MemAfter(r)[a]]
           /\ MemAfter(r).class = mem.class /\ MemAfter(r).line = mem.line
<1>1. r.name # "SET_LINE_CODING"
  BY RequestFacts, LengthAssumption DEF Sends
<1>2. mem = [a \in Areas |-> mem[a]]
  BY DEF IInv, TypeInv
<1>3. CASE r.name = "GET_STATUS"
  BY <1>2, <1>3 DEF MemAfter, Areas
<1>4. CASE r.name = "GET_CONFIGURATION"
  BY <1>2, <1>4 DEF MemAfter, Areas
<1>5. CASE r.name \notin {"GET_STATUS", "GET_CONFIGURATION"}
  BY <1>1, <1>2, <1>5 DEF MemAfter, Areas
<1> QED
  BY <1>3, <1>4, <1>5

LEMMA AnswerStep ==
    ASSUME IInv, SetupAnswer
    PROVE  IInv'
<1>1. /\ ReadSetup /\ DataToHost(host.req) /\ host.req.name \notin Refused
      /\ HandleRequest(host.req) /\ stalled' = stalled
      /\ DataIn([area |-> AnswerAt(host.req), off |-> 0], ToSend(host.req), MemAfter(host.req), FALSE)
  BY DEF SetupAnswer
<1> USE ReadSetupFacts
<1>2. ~Sends(host.req)
  BY <1>1, RequestFacts DEF DataToHost, Sends
<1>3. /\ mem' = [a \in Areas |-> mem'[a]] /\ mem'.class = mem.class /\ mem'.line = mem.line
  BY <1>1, <1>2, MemAfterFacts DEF HandleRequest
<1>4. pbData' \in [area : Areas, off : Int] /\ iResidue' \in Int
  <2> DEFINE at == [area |-> AnswerAt(host.req), off |-> 0]
             n == Least(MaxPacket, ToSend(host.req))
  <2>1. AnswerAt(host.req) \in Areas /\ host.req.len \in Nat
    BY <1>1, RequestFacts DEF AnswerAt, Areas
  <2>2. ToSend(host.req) \in Int
    BY <2>1, LengthAssumption DEF ToSend, Offered, Least
  <2>3. n \in Int
    BY <2>2, MaxPacketAssumption DEF Least
  <2>4. pbData' = [at EXCEPT !.off = @ + n] /\ iResidue' = ToSend(host.req) - n
    BY <1>1 DEF DataIn
  <2>5. at \in [area : Areas, off : Int] /\ at.off = 0
    BY <2>1
  <2> HIDE DEF at, n
  <2> QED
    BY <2>2, <2>3, <2>4, <2>5
<1>5. /\ epOut' \in [has : {"none", "setup", "data"}, bytes : Seq(Byte)] /\ epOut'.bytes = <<>>
  BY <1>1, ReadSetupFacts
<1>6. TypeInv'
  BY <1>1, <1>3, <1>4, <1>5 DEF IInv, TypeInv, Isrs
<1>7. StageInv'
  BY <1>1 DEF IInv, StageInv
<1>8. SetupInv'
  BY <1>1 DEF SetupInv
<1>9. CollectInv'
  BY <1>1, <1>2, <1>5 DEF CollectInv, Collecting
<1>10. EffectInv'
  <2>1. host.req.name # "SET_LINE_CODING"
    BY <1>1, <1>2, RequestFacts, LengthAssumption DEF Sends
  <2>2. host.req.name = "SET_CONFIGURATION" => bConfiguration' = host.req.val /\ hwConfigured' = (host.req.val # 0)
    BY <1>1 DEF HandleRequest
  <2> QED
    BY <1>1, <2>1, <2>2 DEF EffectInv
<1>11. LineCodingWhole'
  BY <1>1, <1>3 DEF IInv, LineCodingWhole, Coding
<1> QED
  BY <1>6, <1>7, <1>8, <1>9, <1>10, <1>11 DEF IInv

LEMMA RefuseStep ==
    ASSUME IInv, SetupRefuse
    PROVE  IInv'
<1>1. /\ ReadSetup /\ DataToHost(host.req) /\ host.req.name \in Refused
      /\ UNCHANGED <<epIn, mem, bConfiguration, hwConfigured>> /\ stalled'
      /\ stalled' \in BOOLEAN
      /\ pbData' = [area |-> host.req.type, off |-> 0] /\ iResidue' = host.req.len
  BY DEF SetupRefuse
<1> USE ReadSetupFacts
<1>2. ~Sends(host.req)
  BY <1>1, RequestFacts DEF DataToHost, Sends
<1>3. pbData' \in [area : Areas, off : Int] /\ iResidue' \in Int
  BY <1>1, RequestFacts DEF Areas
<1>4. /\ epOut' \in [has : {"none", "setup", "data"}, bytes : Seq(Byte)] /\ epOut'.bytes = <<>>
  BY <1>1, ReadSetupFacts
<1>5. TypeInv'
  BY <1>1, <1>3, <1>4 DEF IInv, TypeInv, Isrs
<1>6. StageInv' /\ SetupInv'
  BY <1>1 DEF IInv, StageInv, SetupInv
<1>7. CollectInv'
  BY <1>1, <1>2, <1>4 DEF CollectInv, Collecting
<1>8. EffectInv'
  BY <1>1 DEF IInv, EffectInv, Refused
<1>9. LineCodingWhole'
  BY <1>1 DEF IInv, LineCodingWhole, Coding
<1> QED
  BY <1>5, <1>6, <1>7, <1>8, <1>9 DEF IInv

LEMMA CollectStep ==
    ASSUME IInv, SetupCollect
    PROVE  IInv'
<1>1. /\ ReadSetup /\ ~DataToHost(host.req)
      /\ UNCHANGED <<epIn, mem, stalled, bConfiguration, hwConfigured>>
      /\ pbData' = [area |-> host.req.type, off |-> 0] /\ iResidue' = host.req.len
  BY DEF SetupCollect, DataStore
<1> USE ReadSetupFacts
<1>2. Sends(host.req) /\ host.stage = "dataOut" /\ host.req.len \in Nat
  BY <1>1, RequestFacts DEF DataToHost, Sends, FirstStage
<1>3. pbData' \in [area : Areas, off : Int] /\ iResidue' \in Int /\ pbData'.area = host.req.type /\ pbData'.off = 0
  BY <1>1, <1>2, RequestFacts DEF Areas
<1>4. /\ epOut' \in [has : {"none", "setup", "data"}, bytes : Seq(Byte)] /\ epOut'.bytes = <<>>
      /\ Len(epOut'.bytes) = 0
  BY <1>1, ReadSetupFacts
<1>5. TypeInv'
  BY <1>1, <1>3, <1>4 DEF IInv, TypeInv, Isrs
<1>6. StageInv' /\ SetupInv'
  BY <1>1 DEF IInv, StageInv, SetupInv
<1>7. CollectInv'
  <2>1. Taken' = 0
    BY <1>1, <1>4 DEF Taken
  <2> QED
    BY <1>1, <1>2, <1>3, <1>4, <2>1 DEF CollectInv, Sends
<1>8. EffectInv'
  <2>1. Collecting' /\ host.req.name # "SET_CONFIGURATION"
    BY <1>1, <1>2, RequestFacts DEF Collecting, Sends
  <2> QED
    BY <1>1, <1>2, <2>1 DEF IInv, EffectInv
<1>9. LineCodingWhole'
  BY <1>1 DEF IInv, LineCodingWhole, Coding
<1> QED
  BY <1>5, <1>6, <1>7, <1>8, <1>9 DEF IInv

-----------------------------------------------------------------------------
(* The handler takes a packet of data.                                     *)

\* What a step that reads a data packet finds and leaves: a SETUP that came
\* since stays in the buffer, and then it has nothing of the host's.
LEMMA ReadPacketFacts ==
    ASSUME IInv, ReadPacket
    PROVE  /\ Pending' = Pending /\ isr = "out" /\ ~setupStat /\ isr' = "checkIn"
           /\ epOut' \in [has : {"none", "setup", "data"}, bytes : Seq(Byte)]
           /\ epOut'.bytes = <<>> /\ Len(epOut'.bytes) = 0 /\ epOut'.has # "data"
           /\ UNCHANGED <<host, done, outInt, inInt, setupStat, Setup>>
<1>1. Empty \in [has : {"none", "setup", "data"}, bytes : Seq(Byte)] /\ Empty.bytes = <<>> /\ Empty.has = "none"
  BY DEF Empty
<1>2. isr = "out" /\ ~setupStat /\ isr' = "checkIn" /\ UNCHANGED <<host, done, outInt, inInt, setupStat, Setup>>
  BY DEF ReadPacket, hostVars
<1>3. CASE Pending
  <2>1. epOut' = epOut /\ epOut.bytes = <<>> /\ epOut.has = "setup"
    BY <1>3 DEF ReadPacket, Pending, IInv, TypeInv
  <2>2. epOut \in [has : {"none", "setup", "data"}, bytes : Seq(Byte)]
    BY DEF IInv, TypeInv
  <2>3. Len(<<>>) = 0
    OBVIOUS
  <2> QED
    BY <1>2, <2>1, <2>2, <2>3 DEF Pending
<1>4. CASE ~Pending
  <2>1. epOut' = Empty
    BY <1>4 DEF ReadPacket, Pending
  <2>2. Len(<<>>) = 0
    OBVIOUS
  <2> QED
    BY <1>1, <1>2, <1>4, <2>1, <2>2 DEF Pending
<1> QED
  BY <1>3, <1>4

\* The stores keep their shape, and only the one pbData points to changes.
LEMMA StoredFacts ==
    ASSUME IInv
    PROVE  /\ Stored = [a \in Areas |-> Stored[a]]
           /\ Stored.class = [i \in 1 .. LineLen |-> Stored.class[i]]
           /\ pbData.area # "class" => Stored.class = mem.class
           /\ pbData.area = "class" => \A i \in 1 .. LineLen :
                Stored.class[i] = IF i - pbData.off \in 1 .. Least(iResidue, Len(epOut.bytes))
                                    THEN epOut.bytes[i - pbData.off] ELSE mem.class[i]
           /\ pbData.area # "line" => Stored.line = mem.line
<1>1. mem = [a \in Areas |-> mem[a]] /\ pbData.area \in Areas /\ mem.class = [i \in 1 .. LineLen |-> mem.class[i]]
  BY DEF IInv, TypeInv
<1> DEFINE f == [i \in DOMAIN mem[pbData.area] |->
                   IF i - pbData.off \in 1 .. Least(iResidue, Len(epOut.bytes))
                     THEN epOut.bytes[i - pbData.off] ELSE mem[pbData.area][i]]
<1>2. Stored = [mem EXCEPT ![pbData.area] = f]
  BY DEF Stored
<1>3. pbData.area = "class" => f = [i \in 1 .. LineLen |->
                   IF i - pbData.off \in 1 .. Least(iResidue, Len(epOut.bytes))
                     THEN epOut.bytes[i - pbData.off] ELSE mem.class[i]]
  <2> SUFFICES ASSUME pbData.area = "class" PROVE DOMAIN mem[pbData.area] = 1 .. LineLen
    OBVIOUS
  <2> QED
    BY <1>1
<1> HIDE DEF f
<1>4. Stored = [a \in Areas |-> IF a = pbData.area THEN f ELSE mem[a]]
  BY <1>1, <1>2
<1>5. "class" \in Areas /\ "line" \in Areas
  BY DEF Areas
<1>6. CASE pbData.area = "class"
  BY <1>3, <1>4, <1>5, <1>6
<1>7. CASE pbData.area # "class"
  BY <1>1, <1>4, <1>5, <1>7
<1> QED
  BY <1>4, <1>5, <1>6, <1>7

\* An empty packet stores nothing.
LEMMA NothingStored ==
    ASSUME IInv, epOut.bytes = <<>>
    PROVE  Stored.class = mem.class /\ Stored.line = mem.line
<1>1. mem = [a \in Areas |-> mem[a]] /\ pbData.area \in Areas
      /\ mem.class = [i \in 1 .. LineLen |-> mem.class[i]] /\ iResidue \in Int /\ pbData.off \in Int
  BY DEF IInv, TypeInv
<1>2. mem.line = [i \in 1 .. LineLen |-> mem.line[i]]
  BY DEF IInv, LineCodingWhole, Coding
<1>3. Len(epOut.bytes) = 0
  OBVIOUS
<1>4. 1 .. Least(iResidue, Len(epOut.bytes)) = {}
  BY <1>1, <1>3 DEF Least
<1>5. Stored = [mem EXCEPT ![pbData.area] = [i \in DOMAIN mem[pbData.area] |-> mem[pbData.area][i]]]
  BY <1>4 DEF Stored
<1>6. "class" \in Areas /\ "line" \in Areas
  BY DEF Areas
<1>7. Stored.class = mem.class
  BY <1>1, <1>5, <1>6
<1>8. Stored.line = mem.line
  BY <1>1, <1>2, <1>5, <1>6
<1> QED
  BY <1>7, <1>8

\* The packet of a transfer that collects goes where the next byte belongs.
LEMMA StoredInOrder ==
    ASSUME IInv, Collecting
    PROVE  /\ Len(epOut.bytes) <= iResidue /\ Taken + Len(epOut.bytes) = host.sent
           /\ Stored.line = mem.line
           /\ host.req.name = "SET_LINE_CODING" =>
                \A i \in 1 .. host.sent : Stored.class[i] = <<"line", host.id, i>>
<1> DEFINE l == Len(epOut.bytes)
<1>1. /\ Taken \in Nat /\ pbData.area = host.req.type /\ pbData.off = Taken
      /\ iResidue = host.req.len - Taken /\ Sends(host.req)
      /\ \A i \in 1 .. l : epOut.bytes[i] = <<"line", host.id, Taken + i>>
      /\ host.req.name = "SET_LINE_CODING" => \A i \in 1 .. Taken : mem.class[i] = <<"line", host.id, i>>
      /\ host.sent \in Nat /\ epOut.bytes \in Seq(Byte)
  BY DEF IInv, CollectInv, Collecting, TypeInv
<1>2. l \in Nat /\ Taken = host.sent - l
  BY <1>1 DEF Taken
<1>3. host.sent <= host.req.len /\ host.req.len \in Nat
  BY <1>1, HostRequest DEF IInv, StageInv, Collecting
<1>4. pbData.area # "line"
  BY <1>1, HostRequest
<1> HIDE DEF l
<1>5. l <= iResidue /\ Taken + l = host.sent
  BY <1>1, <1>2, <1>3
<1>6. Least(iResidue, Len(epOut.bytes)) = l
  BY <1>1, <1>2, <1>3, <1>5 DEF Least, l
<1>7. ASSUME host.req.name = "SET_LINE_CODING", NEW i \in 1 .. host.sent
      PROVE  Stored.class[i] = <<"line", host.id, i>>
  <2>1. pbData.area = "class" /\ host.req.len = LineLen
    BY <1>1, <1>7, HostRequest
  <2>2. i \in 1 .. LineLen /\ i \in Int /\ i <= host.sent
    BY <1>1, <1>3, <2>1
  <2>3. Stored.class[i] = IF i - Taken \in 1 .. l THEN epOut.bytes[i - Taken] ELSE mem.class[i]
    BY <1>1, <1>6, <2>1, <2>2, StoredFacts
  <2>4. CASE i <= Taken
    <3>1. ~(i - Taken \in 1 .. l) /\ i \in 1 .. Taken
      BY <1>1, <1>2, <2>4
    <3> QED
      BY <1>1, <1>7, <2>3, <3>1
  <2>5. CASE i > Taken
    <3>1. i - Taken \in 1 .. l /\ Taken + (i - Taken) = i
      <4> DEFINE t == Taken
      <4>1. t \in Nat /\ l \in Nat /\ t + l = host.sent /\ i > t /\ i <= t + l /\ i \in Int
        BY <1>1, <1>2, <1>5, <2>2, <2>5
      <4> HIDE DEF t
      <4>2. i - t \in 1 .. l /\ t + (i - t) = i
        BY <4>1
      <4> QED
        BY <4>2 DEF t
    <3> QED
      BY <1>1, <2>3, <3>1
  <2> QED
    BY <1>1, <2>4, <2>5
<1> QED
  BY <1>4, <1>5, <1>7, StoredFacts DEF l

LEMMA MoreStep ==
    ASSUME IInv, CollectMore
    PROVE  IInv'
<1> DEFINE l == Len(epOut.bytes)
<1>1. /\ ReadPacket /\ iResidue > 0 /\ iResidue # l /\ mem' = Stored
      /\ pbData' = [pbData EXCEPT !.off = @ + l] /\ iResidue' = iResidue - l
      /\ UNCHANGED <<epIn, stalled, bConfiguration, hwConfigured>>
  BY DEF CollectMore
<1>2. /\ epOut.bytes \in Seq(Byte) /\ pbData \in [area : Areas, off : Int] /\ iResidue \in Int
      /\ host.sent \in Nat
  BY DEF IInv, TypeInv
<1>3. l \in Nat /\ (epOut.bytes = <<>> => l = 0)
  BY <1>2
<1> HIDE DEF l
<1> USE ReadPacketFacts
<1>4. /\ pbData' \in [area : Areas, off : Int] /\ iResidue' \in Int
      /\ pbData'.area = pbData.area /\ pbData'.off = pbData.off + l
  BY <1>1, <1>2, <1>3
<1>5. TypeInv'
  <2>1. mem' = [a \in Areas |-> mem'[a]] /\ mem'.class = [i \in 1 .. LineLen |-> mem'.class[i]]
    BY <1>1, StoredFacts
  <2> QED
    BY <1>1, <1>4, <2>1 DEF IInv, TypeInv, Isrs
<1>6. StageInv'
  BY <1>1 DEF IInv, StageInv
<1>7. SetupInv'
  BY <1>1 DEF IInv, SetupInv
\* Collecting goes on exactly if it has not ended.
<1>8. ASSUME Collecting
      PROVE  /\ host.stage = "dataOut" /\ Collecting' /\ Taken' = host.sent
             /\ iResidue' = host.req.len - host.sent /\ iResidue' > 0 /\ pbData'.off = host.sent
  <2>1. /\ Sends(host.req) /\ ~Pending
        /\ host.stage = "dataOut" \/ (host.stage = "statusIn" /\ host.sent = host.req.len)
        /\ host.stage = "dataOut" => host.sent < host.req.len
    BY <1>8 DEF Collecting, IInv, StageInv
  <2>2. Taken \in Nat /\ pbData.off = Taken /\ iResidue = host.req.len - Taken
    BY <1>8 DEF IInv, CollectInv
  <2>3. Taken + l = host.sent /\ host.req.len \in Nat
    BY <1>8, StoredInOrder, HostRequest DEF l
  <2>4. Taken' = host.sent
    BY <1>1, <1>2 DEF Taken
  <2>5. host.sent # host.req.len
    BY <1>1, <1>2, <1>3, <2>2, <2>3
  <2>6. Collecting'
    BY <1>1, <2>1, <2>5 DEF Collecting
  <2> DEFINE t == Taken
  <2>7. t \in Nat /\ t + l = host.sent /\ iResidue = host.req.len - t /\ pbData.off = t
    BY <2>2, <2>3
  <2> HIDE DEF t
  <2>8. iResidue' = host.req.len - host.sent /\ pbData'.off = host.sent
    BY <1>1, <1>2, <1>3, <1>4, <2>3, <2>7
  <2> QED
    BY <1>2, <2>1, <2>3, <2>4, <2>5, <2>6, <2>8
<1>9. Collecting' => Collecting
  BY <1>1 DEF Collecting
<1>10. mem'.line = mem.line
  <2>1. CASE epOut.bytes = <<>>
    BY <1>1, <2>1, NothingStored
  <2>2. CASE epOut.bytes # <<>>
    BY <1>1, <2>2, StoredInOrder DEF IInv, CollectInv
  <2> QED
    BY <2>1, <2>2
<1>11. CollectInv'
  <2> SUFFICES ASSUME Collecting' PROVE CollectInv'
    BY <1>1 DEF CollectInv
  <2>1. /\ Setup = host.req /\ epIn = <<>> /\ ~inInt /\ ~stalled /\ pbData.area = host.req.type
    BY <1>9 DEF IInv, CollectInv
  <2>2. host.req.name = "SET_LINE_CODING" =>
           \A i \in 1 .. host.sent : mem'.class[i] = <<"line", host.id, i>>
    BY <1>1, <1>9, StoredInOrder
  <2>3. 1 .. Len(epOut'.bytes) = {}
    BY <1>1
  <2>4. isr' = "checkIn" /\ UNCHANGED <<host, inInt, Setup>> /\ epOut'.bytes = <<>>
    BY <1>1
  <2> QED
    BY <1>1, <1>2, <1>4, <1>8, <1>9, <2>1, <2>2, <2>3, <2>4 DEF CollectInv
<1>12. EffectInv'
  <2>1. UNCHANGED <<host, done, inInt, epIn, bConfiguration, hwConfigured>> /\ isr' = "checkIn"
    BY <1>1
  <2>2. (~Pending' => ~Pending) /\ (~Collecting' => ~Collecting)
    BY <1>1, <1>8
  <2>3. mem.line = Coding(host.id) => mem'.line = Coding(host'.id)
    BY <1>10, <2>1 DEF Coding
  <2> QED
    BY <2>1, <2>2, <2>3 DEF IInv, EffectInv, Coding
<1>13. LineCodingWhole'
  BY <1>1, <1>10 DEF IInv, LineCodingWhole, Coding
<1> QED
  BY <1>5, <1>6, <1>7, <1>11, <1>12, <1>13 DEF IInv

\* The packet that fills the transfer is the host's last.
LEMMA FullFacts ==
    ASSUME IInv, ReadPacket, iResidue > 0, iResidue = Len(epOut.bytes)
    PROVE  /\ Collecting /\ ~Pending /\ ~Collecting' /\ host.stage = "statusIn"
           /\ host.sent = host.req.len /\ Setup = host.req
<1>1. epOut.bytes # <<>>
  <2>1. Len(<<>>) = 0
    OBVIOUS
  <2> QED
    BY <2>1
<1>2. Collecting /\ ~Pending
  BY <1>1 DEF IInv, CollectInv, Collecting
<1>3. Taken \in Nat /\ iResidue = host.req.len - Taken /\ Setup = host.req /\ iResidue \in Int
  BY <1>2 DEF IInv, CollectInv, TypeInv
<1>4. Taken + Len(epOut.bytes) = host.sent
  BY <1>2, StoredInOrder
<1>5. Taken + iResidue = host.sent
  BY <1>4
<1>6. host.req.len \in Nat
  BY HostRequest
<1>7. host.sent = host.req.len
  <2> DEFINE t == Taken
  <2>1. t \in Nat /\ iResidue = host.req.len - t /\ t + iResidue = host.sent
    BY <1>3, <1>5
  <2> HIDE DEF t
  <2> QED
    BY <1>6, <2>1
<1>8. host.stage = "statusIn"
  BY <1>2, <1>6, <1>7 DEF Collecting, IInv, StageInv
<1>9. ~Collecting'
  BY <1>8, ReadPacketFacts DEF Collecting
<1> QED
  BY <1>2, <1>3, <1>7, <1>8, <1>9

LEMMA LastStep ==
    ASSUME IInv, CollectLast
    PROVE  IInv'
<1>1. /\ ReadPacket /\ iResidue > 0 /\ iResidue = Len(epOut.bytes)
      /\ Setup.name \notin Refused /\ mem' = [Stored EXCEPT !.line = Stored.class]
      /\ DataIn(DataStore(Setup), 0, mem, epOut.has = "setup")
      /\ UNCHANGED <<stalled, bConfiguration, hwConfigured>>
  BY DEF CollectLast
<1> USE ReadPacketFacts, FullFacts
<1>2. host.req.name = "SET_LINE_CODING" /\ host.req.len = LineLen
  BY <1>1, HostRequest DEF Collecting
<1>3. Stored.class = Coding(host.id)
  <2>1. \A i \in 1 .. LineLen : Stored.class[i] = <<"line", host.id, i>>
    BY <1>1, <1>2, StoredInOrder
  <2> QED
    BY <2>1, StoredFacts DEF Coding
<1>4. /\ mem'.line = Coding(host.id) /\ mem'.class = Stored.class /\ mem' = [a \in Areas |-> mem'[a]]
  BY <1>1, <1>3, StoredFacts DEF Areas
<1>5. pbData' \in [area : Areas, off : Int] /\ iResidue' \in Int
  <2> DEFINE n == Least(MaxPacket, 0)
             at == DataStore(Setup)
  <2>1. at \in [area : Areas, off : Int] /\ at.off = 0
    BY <1>1, HostRequest DEF DataStore
  <2>2. n \in Int
    BY MaxPacketAssumption DEF Least
  <2>3. pbData' = [at EXCEPT !.off = @ + n] /\ iResidue' = 0 - n
    BY <1>1 DEF DataIn
  <2> HIDE DEF n, at
  <2> QED
    BY <2>1, <2>2, <2>3
<1>6. TypeInv'
  <2>1. mem'.class = [i \in 1 .. LineLen |-> mem'.class[i]]
    BY <1>4, StoredFacts
  <2> QED
    BY <1>1, <1>4, <1>5, <2>1 DEF IInv, TypeInv, Isrs
<1>7. StageInv'
  BY <1>1 DEF IInv, StageInv
<1>8. SetupInv'
  BY <1>1 DEF IInv, SetupInv
<1>9. CollectInv'
  BY <1>1 DEF CollectInv
<1>10. EffectInv'
  BY <1>1, <1>2, <1>4 DEF EffectInv, Refused, Coding
<1>11. LineCodingWhole'
  <2>1. host.id \in 0 .. host.id
    BY DEF IInv, TypeInv
  <2> QED
    BY <1>1, <1>4, <2>1 DEF LineCodingWhole, Coding
<1> QED
  BY <1>6, <1>7, <1>8, <1>9, <1>10, <1>11 DEF IInv

LEMMA LastRefusedStep ==
    ASSUME IInv, CollectRefuse
    PROVE  IInv'
<1>1. /\ ReadPacket /\ iResidue > 0 /\ iResidue = Len(epOut.bytes)
      /\ Setup.name \in Refused /\ mem' = Stored /\ pbData' = DataStore(Setup) /\ iResidue' = 0
      /\ stalled' = TRUE /\ UNCHANGED <<epIn, bConfiguration, hwConfigured>>
  BY DEF CollectRefuse
<1> USE ReadPacketFacts, FullFacts
<1>2. host.req.name \in Refused
  BY <1>1
<1>3. mem'.line = mem.line
  BY <1>1, StoredInOrder
<1>4. pbData' \in [area : Areas, off : Int] /\ iResidue' \in Int
  BY <1>1, HostRequest DEF DataStore
<1>5. TypeInv'
  <2>1. mem' = [a \in Areas |-> mem'[a]] /\ mem'.class = [i \in 1 .. LineLen |-> mem'.class[i]]
    BY <1>1, StoredFacts
  <2> QED
    BY <1>1, <1>4, <2>1 DEF IInv, TypeInv, Isrs
<1>6. StageInv'
  BY <1>1 DEF IInv, StageInv
<1>7. SetupInv'
  BY <1>1 DEF IInv, SetupInv
<1>8. CollectInv'
  BY <1>1 DEF CollectInv
<1>9. EffectInv'
  <2>1. epIn = <<>> /\ ~inInt /\ ~done
    BY <1>1 DEF IInv, CollectInv, EffectInv
  <2> QED
    BY <1>1, <1>2, <2>1 DEF EffectInv, Refused
<1>10. LineCodingWhole'
  BY <1>1, <1>3 DEF IInv, LineCodingWhole, Coding
<1> QED
  BY <1>5, <1>6, <1>7, <1>8, <1>9, <1>10 DEF IInv

LEMMA AbsorbStep ==
    ASSUME IInv, AbsorbStatus
    PROVE  IInv'
<1>1. /\ ReadPacket /\ iResidue <= 0
      /\ UNCHANGED <<epIn, stalled, pbData, iResidue, mem, bConfiguration, hwConfigured>>
  BY DEF AbsorbStatus
<1> USE ReadPacketFacts
<1>2. ~Collecting /\ ~Collecting'
  <2>1. ~Collecting
    BY <1>1 DEF IInv, CollectInv, TypeInv
  <2> QED
    BY <1>1, <2>1 DEF Collecting
<1>3. TypeInv'
  BY <1>1 DEF IInv, TypeInv, Isrs
<1>4. StageInv' /\ SetupInv'
  BY <1>1 DEF IInv, StageInv, SetupInv
<1>5. CollectInv'
  BY <1>1, <1>2 DEF CollectInv
<1>6. EffectInv'
  <2>1. UNCHANGED <<host, done, inInt, epIn, mem, bConfiguration, hwConfigured>> /\ isr' = "checkIn"
    BY <1>1
  <2>2. ~Pending' => ~Pending
    BY <1>1
  <2> QED
    BY <1>2, <2>1, <2>2 DEF IInv, EffectInv, Coding
<1>7. LineCodingWhole'
  BY <1>1 DEF IInv, LineCodingWhole, Coding
<1> QED
  BY <1>3, <1>4, <1>5, <1>6, <1>7 DEF IInv

LEMMA SendStep ==
    ASSUME IInv, SendMore
    PROVE  IInv'
<1>1. /\ isr = "in" /\ isr' = "off" /\ DataIn(pbData, iResidue, mem, Pending)
      /\ UNCHANGED <<host, done, epOut, outInt, inInt, stalled, setupStat, Setup,
                     mem, bConfiguration, hwConfigured>>
  BY DEF SendMore, hostVars, Pending
<1>2. ~Collecting /\ ~Collecting' /\ Pending' = Pending /\ (Pending => epIn' = epIn)
  <2>1. ~Collecting
    BY <1>1 DEF IInv, CollectInv
  <2> QED
    BY <1>1, <2>1 DEF Collecting, Pending, DataIn
<1>3. pbData' \in [area : Areas, off : Int] /\ iResidue' \in Int
  <2> DEFINE n == Least(MaxPacket, iResidue)
  <2>1. pbData \in [area : Areas, off : Int] /\ iResidue \in Int
    BY DEF IInv, TypeInv
  <2>2. n \in Int
    BY <2>1, MaxPacketAssumption DEF Least
  <2>3. pbData' = [pbData EXCEPT !.off = @ + n] /\ iResidue' = iResidue - n
    BY <1>1 DEF DataIn
  <2> HIDE DEF n
  <2> QED
    BY <2>1, <2>2, <2>3
<1>4. TypeInv'
  BY <1>1, <1>3 DEF IInv, TypeInv, Isrs
<1>5. StageInv'
  BY <1>1 DEF IInv, StageInv
<1>6. SetupInv'
  BY <1>1, <1>2 DEF IInv, SetupInv
<1>7. CollectInv'
  BY <1>1, <1>2 DEF IInv, CollectInv
<1>8. EffectInv'
  <2>1. host.req.name \in Refused /\ host.stage # "idle" => epIn' = <<>>
    BY <1>1, <1>2 DEF IInv, EffectInv
  <2> QED
    BY <1>1, <1>2, <2>1 DEF IInv, EffectInv, Coding
<1>9. LineCodingWhole'
  BY <1>1 DEF IInv, LineCodingWhole, Coding
<1> QED
  BY <1>4, <1>5, <1>6, <1>7, <1>8, <1>9 DEF IInv

LEMMA StutterStep ==
    ASSUME IInv, UNCHANGED vars
    PROVE  IInv'
<1>1. UNCHANGED <<host, done, epOut, epIn, outInt, inInt, stalled, isr, setupStat, Setup, pbData,
                  iResidue, mem, bConfiguration, hwConfigured>>
  BY DEF vars, hostVars, epVars, isrVars, reqVars
<1>2. Pending' = Pending /\ Collecting' = Collecting /\ Taken' = Taken
  BY <1>1 DEF Pending, Collecting, Taken
<1>3. TypeInv' /\ StageInv' /\ SetupInv'
  BY <1>1, <1>2 DEF IInv, TypeInv, StageInv, SetupInv
<1>4. CollectInv' /\ EffectInv' /\ LineCodingWhole'
  BY <1>1, <1>2 DEF IInv, CollectInv, EffectInv, LineCodingWhole, Coding
<1> QED
  BY <1>3, <1>4 DEF IInv

LEMMA StepInv ==
    ASSUME EarlySetup = FALSE, IInv, [Next]_vars
    PROVE  IInv'
<1>1. CASE \E r \in AllRequests : HostSetup(r)
  BY <1>1, SetupStep
<1>2. CASE HostDataOut
  BY <1>2, DataOutStep
<1>3. CASE HostDataIn \/ HostStatusOut \/ HostStatusIn \/ HostSeesStall \/ BusReset
  BY <1>3, TokenStep
<1>4. CASE IsrEnter \/ IsrOut \/ IsrNoOut \/ IsrIn
  BY <1>4, DispatchStep
<1>5. CASE SetupAnswer \/ SetupRefuse \/ SetupCollect
  BY <1>5, AnswerStep, RefuseStep, CollectStep
<1>6. CASE CollectMore \/ CollectLast \/ CollectRefuse \/ AbsorbStatus
  BY <1>6, MoreStep, LastStep, LastRefusedStep, AbsorbStep
<1>7. CASE SendMore
  BY <1>7, SendStep
<1>8. CASE UNCHANGED vars
  BY <1>8, StutterStep
<1> QED
  BY <1>1, <1>2, <1>3, <1>4, <1>5, <1>6, <1>7, <1>8 DEF Next, HostTokens, Isr

-----------------------------------------------------------------------------
(* What the device answers, on its way to the host: from the data store,   *)
(* chunk by chunk through the IN buffer, to what the host has read.        *)

Cell == {"desc", "line", "config", "zero"} \X Nat \X Nat

\* The whole answer to the host's request.
Given == Answer(host.req)

IsPrefix(s, a) == Len(s) <= Len(a) /\ \A i \in 1 .. Len(s) : s[i] = a[i]

\* The answer is under way.
Answering == host.stage = "dataIn" /\ ~Pending /\ host.req.name \notin Refused

\* Only the stores meant to be written are written.
StoresInv ==
    /\ mem.desc = Desc /\ mem.std = [i \in 1 .. 2 |-> mem.std[i]]
    /\ mem.vendor = <<<<"null", 0, 1>>>> /\ bConfiguration \in Nat

\* The IN buffer, its interrupt bit and the handler have one turn between them.
TurnInv ==
    /\ epIn # <<>> => ~inInt /\ isr # "in"
    /\ inInt => isr # "in"

\* The data pointer is where the host and the packet in the buffer got to.
ChunkInv ==
    Answering =>
      /\ pbData.area = AnswerAt(host.req)
      /\ \A i \in 1 .. Len(Given) : mem[pbData.area][i] = Given[i]
      /\ pbData.off \in 0 .. Len(Given) /\ iResidue = Len(Given) - pbData.off
      /\ epIn = <<>> => Len(host.got) = pbData.off
      /\ epIn # <<>> =>
           /\ epIn[1] \in Seq(Cell) /\ Len(host.got) + Len(epIn[1]) = pbData.off
           /\ \A i \in 1 .. Len(epIn[1]) : epIn[1][i] = Given[Len(host.got) + i]
           /\ Len(epIn[1]) = MaxPacket \/ iResidue = 0

\* What the host has is the beginning of the answer, and all of it at the end.
GotInv ==
    /\ host.got \in Seq(Cell) /\ IsPrefix(host.got, Given)
    /\ host.stage = "statusOut" \/ done => Len(host.got) = Len(Given)
    /\ (host.stage \in {"dataOut", "statusIn"} \/ Pending \/ host.req.name \in Refused)
         => host.got = <<>>

AnswerInv == StoresInv /\ TurnInv /\ ChunkInv /\ GotInv

\* The answer is a sequence as long as what is sent of it; only requests that
\* read from the device have one.
LEMMA AnswerFacts ==
    ASSUME IInv, AnswerInv, NEW r \in AllRequests \cup {NoRequest}
    PROVE  /\ Answer(r) \in Seq(Cell) /\ Len(Answer(r)) \in Nat
           /\ r.dir = "in" /\ r.name \notin Refused =>
                Len(Answer(r)) = ToSend(r) /\ Len(Answer(r)) <= r.len
           /\ r.dir # "in" \/ r.name \in Refused => Answer(r) = <<>>
<1>1. PICK n \in Nat : mem.line = Coding(n)
  BY DEF IInv, LineCodingWhole, TypeInv
<1>2. /\ mem.line \in Seq(Cell) /\ Len(mem.line) = LineLen
  <2>1. \A i \in 1 .. LineLen : <<"line", n, i>> \in Cell
    BY LengthAssumption DEF Cell
  <2> QED
    BY <1>1, <2>1, LengthAssumption DEF Coding
<1>3. Zeros \in Seq(Cell) /\ Len(Zeros) = 2
  <2>1. \A i \in 1 .. 2 : <<"zero", 0, i>> \in Cell
    BY DEF Cell
  <2> QED
    BY <2>1 DEF Zeros
<1>4. <<Config(bConfiguration)>> \in Seq(Cell) /\ Len(<<Config(bConfiguration)>>) = 1
  BY DEF AnswerInv, StoresInv, Cell, Config
<1>5. ASSUME NEW k \in Nat
      PROVE  SubSeq(Desc, 1, Least(k, DescLen)) \in Seq(Cell) /\ Len(SubSeq(Desc, 1, Least(k, DescLen))) = Least(k, DescLen)
  <2> DEFINE l == Least(k, DescLen)
  <2>1. l \in Nat /\ l <= DescLen
    BY LengthAssumption DEF Least
  <2>2. \A i \in 1 .. DescLen : <<"desc", 0, i>> \in Cell
    BY LengthAssumption DEF Cell
  <2>3. Desc \in Seq(Cell) /\ Len(Desc) = DescLen
    BY <2>2, LengthAssumption DEF Desc
  <2> HIDE DEF l
  <2>4. SubSeq(Desc, 1, l) \in Seq(Cell) /\ Len(SubSeq(Desc, 1, l)) = l
    BY <2>1, <2>3, LengthAssumption
  <2> QED
    BY <2>4 DEF l
<1>6. <<>> \in Seq(Cell) /\ Len(<<>>) = 0
  OBVIOUS
<1>7. CASE r = NoRequest
  BY <1>6, <1>7 DEF NoRequest, Ask, Answer
<1>8. CASE \E k \in Asked : r = Ask("GET_DESCRIPTOR", "std", "in", k, 0)
  <2>1. PICK k \in Asked : r = Ask("GET_DESCRIPTOR", "std", "in", k, 0)
    BY <1>8
  <2>2. k \in Nat /\ r.name = "GET_DESCRIPTOR" /\ r.len = k /\ r.dir = "in"
    BY <2>1, LengthAssumption DEF Ask
  <2>3. Answer(r) = SubSeq(Desc, 1, Least(k, DescLen))
    BY <2>2 DEF Answer
  <2>4. ToSend(r) = Least(k, DescLen) /\ Least(k, DescLen) <= k /\ Least(k, DescLen) \in Nat
    BY <2>2, LengthAssumption DEF ToSend, Offered, Least
  <2> QED
    BY <1>5, <2>2, <2>3, <2>4 DEF Refused
<1>9. CASE r = Ask("GET_LINE_CODING", "class", "in", LineLen, 0)
  BY <1>2, <1>9, LengthAssumption DEF Ask, Answer, ToSend, Offered, Least, Refused
<1>10. CASE r = Ask("GET_STATUS", "std", "in", 2, 0)
  <2>1. r.name = "GET_STATUS" /\ r.len = 2 /\ r.dir = "in"
    BY <1>10 DEF Ask
  <2>2. Answer(r) = Zeros /\ ToSend(r) = 2 /\ r.name \notin Refused
    BY <2>1 DEF Answer, ToSend, Offered, Least, Refused
  <2>3. Answer(r) \in Seq(Cell) /\ Len(Answer(r)) = 2
    BY <1>3, <2>2
  <2> QED
    BY <2>1, <2>2, <2>3
<1>11. CASE r = Ask("GET_CONFIGURATION", "std", "in", 1, 0)
  BY <1>4, <1>11 DEF Ask, Answer, ToSend, Offered, Least, Refused
<1>12. CASE \/ \E v \in {0, 1} : r = Ask("SET_CONFIGURATION", "std", "out", 0, v)
            \/ r \in {Ask("SET_LINE_CODING", "class", "out", LineLen, 0),
                             Ask("SET_CONTROL_LINE_STATE", "class", "out", 0, 0),
                             Ask("SET_DESCRIPTOR", "std", "out", 2, 0)}
  BY <1>6, <1>12 DEF Ask, Answer
<1>13. CASE r \in {Ask("SYNCH_FRAME", "std", "in", 2, 0), Ask("VENDOR", "vendor", "in", 1, 0)}
  BY <1>6, <1>13 DEF Ask, Answer, Refused
<1> QED
  BY <1>7, <1>8, <1>9, <1>10, <1>11, <1>12, <1>13 DEF AllRequests

LEMMA GivenKept ==
    ASSUME host'.req = host.req, mem'.line = mem.line,
           bConfiguration' = bConfiguration \/ host.req.name # "GET_CONFIGURATION"
    PROVE  Given' = Given
BY DEF Given, Answer, Desc, Zeros, Config

\* The IN buffer gets the bytes of a that follow at, the data pointer goes on
\* behind them, and only the last packet is short.
NextChunk(a, at) ==
    /\ epIn' # <<>> /\ epIn'[1] \in Seq(Cell)
    /\ pbData'.area = at.area /\ pbData'.off = at.off + Len(epIn'[1])
    /\ pbData'.off \in 0 .. Len(a) /\ iResidue' = Len(a) - pbData'.off
    /\ \A i \in 1 .. Len(epIn'[1]) : epIn'[1][i] = a[at.off + i]
    /\ Len(epIn'[1]) = MaxPacket \/ iResidue' = 0

\* DataIn sends the next chunk of the answer a.
LEMMA ChunkFacts ==
    ASSUME NEW a \in Seq(Cell), NEW at \in [area : Areas, off : Int], NEW left, NEW m,
           at.off \in 0 .. Len(a), left = Len(a) - at.off,
           \A i \in 1 .. Len(a) : m[at.area][i] = a[i],
           DataIn(at, left, m, FALSE)
    PROVE  NextChunk(a, at)
<1> DEFINE l == Len(a)
           n == Least(MaxPacket, left)
           p == [i \in 1 .. n |-> m[at.area][at.off + i]]
<1>1. epIn' = <<p>> /\ pbData' = [at EXCEPT !.off = @ + n] /\ iResidue' = left - n
  BY DEF DataIn
<1>2. l \in Nat /\ at.off \in Nat /\ at.off <= l /\ left = l - at.off /\ left \in Nat
  OBVIOUS
<1>3. n \in Nat /\ n <= left /\ (n = MaxPacket \/ n = left)
  BY <1>2, MaxPacketAssumption DEF Least
<1>4. \A i \in 1 .. l : a[i] \in Cell /\ m[at.area][i] = a[i]
  OBVIOUS
<1> HIDE DEF l, n
<1>5. \A i \in 1 .. n : at.off + i \in 1 .. l
  BY <1>2, <1>3
<1>6. /\ \A i \in 1 .. n : p[i] = a[at.off + i]
      /\ \A i \in 1 .. n : m[at.area][at.off + i] \in Cell
  BY <1>4, <1>5
<1>7. p \in Seq(Cell) /\ Len(p) = n
  BY <1>3, <1>6
<1>8. pbData'.area = at.area /\ pbData'.off = at.off + n
  BY <1>1, <1>3
<1> HIDE DEF p
<1>9. epIn' # <<>> /\ epIn'[1] = p
  BY <1>1
<1>10. pbData'.off \in 0 .. l /\ iResidue' = l - pbData'.off /\ (n = MaxPacket \/ iResidue' = 0)
  BY <1>1, <1>2, <1>3, <1>8
<1> QED
  BY <1>6, <1>7, <1>8, <1>9, <1>10 DEF l, NextChunk

LEMMA InitAnswer == Init => AnswerInv
<1> SUFFICES ASSUME Init PROVE AnswerInv
  OBVIOUS
<1>1. host.got = <<>> /\ Given = <<>> /\ Len(<<>>) = 0 /\ <<>> \in Seq(Cell)
  BY DEF Init, Given, Answer, NoRequest, Ask
<1>2. StoresInv /\ TurnInv
  BY DEF Init, StoresInv, TurnInv, Zeros
<1>3. ChunkInv
  BY DEF Init, ChunkInv, Answering
<1>4. GotInv
  BY <1>1 DEF GotInv, IsPrefix
<1> QED
  BY <1>2, <1>3, <1>4 DEF AnswerInv

LEMMA SetupAnswers ==
    ASSUME IInv, AnswerInv, NEW r \in AllRequests, HostSetup(r)
    PROVE  AnswerInv'
<1>1. /\ Pending' /\ epIn' = <<>> /\ host'.got = <<>> /\ host'.stage # "statusOut" /\ ~done'
      /\ UNCHANGED <<inInt, isr, mem, bConfiguration>>
  BY DEF HostSetup, Pending, isrVars
<1>2. Len(<<>>) = 0 /\ <<>> \in Seq(Cell)
  OBVIOUS
<1>3. StoresInv' /\ TurnInv'
  BY <1>1 DEF AnswerInv, StoresInv, TurnInv, Desc
<1>4. ChunkInv'
  BY <1>1 DEF ChunkInv, Answering
<1>5. GotInv'
  <2>1. 1 .. Len(host'.got) = {}
    BY <1>1, <1>2
  <2>2. Len(Given') \in Nat
    <3>1. Given' = Answer(r)
      BY <1>1 DEF HostSetup, Given, Answer, Desc, Zeros, Config
    <3> QED
      BY <3>1, AnswerFacts
  <2> QED
    BY <1>1, <1>2, <2>1, <2>2 DEF GotInv, IsPrefix
<1> QED
  BY <1>3, <1>4, <1>5 DEF AnswerInv

LEMMA OfferAnswers ==
    ASSUME IInv, AnswerInv, HostDataOut
    PROVE  AnswerInv'
<1>1. /\ host.stage = "dataOut" /\ host'.stage \in {"dataOut", "statusIn"} /\ ~Pending'
      /\ host'.req = host.req /\ host'.got = host.got
      /\ UNCHANGED <<done, epIn, inInt, isr, mem, bConfiguration>>
  BY DEF HostDataOut, Pending, isrVars, reqVars, IInv, TypeInv
<1>2. Given' = Given
  BY <1>1, GivenKept
<1>3. StoresInv' /\ TurnInv'
  BY <1>1 DEF AnswerInv, StoresInv, TurnInv, Desc
<1>4. ChunkInv'
  BY <1>1 DEF ChunkInv, Answering
<1>5. GotInv'
  BY <1>1, <1>2 DEF AnswerInv, GotInv, IsPrefix
<1> QED
  BY <1>3, <1>4, <1>5 DEF AnswerInv

\* What continues a beginning of a makes a longer beginning of it.
LEMMA AppendFacts ==
    ASSUME NEW a, NEW g \in Seq(Cell), NEW p \in Seq(Cell),
           \A i \in 1 .. Len(g) : g[i] = a[i],
           \A i \in 1 .. Len(p) : p[i] = a[Len(g) + i]
    PROVE  /\ g \o p \in Seq(Cell) /\ Len(g \o p) = Len(g) + Len(p)
           /\ \A i \in 1 .. Len(g \o p) : (g \o p)[i] = a[i]
<1>1. g \o p \in Seq(Cell) /\ Len(g \o p) = Len(g) + Len(p)
  OBVIOUS
<1>2. ASSUME NEW i \in 1 .. Len(g) + Len(p)
      PROVE  (g \o p)[i] = a[i]
  <2> DEFINE k == Len(g)
             l == Len(p)
  <2>1. k \in Nat /\ l \in Nat /\ i \in Int /\ i >= 1 /\ i <= k + l
    OBVIOUS
  <2>2. (g \o p)[i] = IF i <= k THEN g[i] ELSE p[i - k]
    OBVIOUS
  <2>3. CASE i <= k
    BY <2>1, <2>2, <2>3
  <2>4. CASE i > k
    <3> HIDE DEF k, l
    <3>1. i - k \in 1 .. l /\ k + (i - k) = i
      BY <2>1, <2>4
    <3>2. \A j \in 1 .. l : p[j] = a[k + j]
      BY DEF k, l
    <3>3. p[i - k] = a[k + (i - k)]
      BY <3>1, <3>2
    <3> QED
      BY <2>1, <2>2, <2>4, <3>1, <3>3
  <2> QED
    BY <2>1, <2>3, <2>4
<1> QED
  BY <1>1, <1>2

\* The host reads the next chunk after what it has.
LEMMA TakeAnswers ==
    ASSUME IInv, AnswerInv, HostDataIn
    PROVE  AnswerInv'
<1> DEFINE p == epIn[1]
           g == host.got
           b == g \o p
<1>1. /\ host.stage = "dataIn" /\ epIn # <<>> /\ epIn' = <<>> /\ inInt'
      /\ host'.req = host.req /\ host'.got = b
      /\ host'.stage = (IF Len(p) < MaxPacket \/ Len(b) >= host.req.len THEN "statusOut" ELSE "dataIn")
      /\ UNCHANGED <<done, epOut, isr, mem, bConfiguration, pbData, iResidue>>
  BY DEF HostDataIn, InFull, isrVars, reqVars, IInv, TypeInv
<1>2. ~Pending /\ host.req.name \notin Refused /\ ~done /\ host.req.dir = "in" /\ host.req \in AllRequests
  BY <1>1 DEF IInv, SetupInv, EffectInv, StageInv
<1>3. Answering /\ Given' = Given /\ Pending' = Pending
  BY <1>1, <1>2, GivenKept DEF Answering, Pending
<1>4. /\ g \in Seq(Cell) /\ p \in Seq(Cell) /\ Given \in Seq(Cell)
      /\ Len(Given) = ToSend(host.req) /\ Len(Given) <= host.req.len
  BY <1>1, <1>2, <1>3, AnswerFacts DEF AnswerInv, GotInv, ChunkInv, Given
<1>5. /\ Len(g) + Len(p) = pbData.off /\ pbData.off \in 0 .. Len(Given) /\ iResidue = Len(Given) - pbData.off
      /\ \A i \in 1 .. Len(g) : g[i] = Given[i]
      /\ \A i \in 1 .. Len(p) : p[i] = Given[Len(g) + i]
      /\ Len(p) = MaxPacket \/ iResidue = 0
  BY <1>1, <1>3 DEF AnswerInv, GotInv, ChunkInv, IsPrefix
<1>6. /\ b \in Seq(Cell) /\ Len(b) = Len(g) + Len(p)
      /\ \A i \in 1 .. Len(b) : b[i] = Given[i]
  <2> HIDE DEF g, p
  <2> QED
    BY <1>4, <1>5, AppendFacts
<1>7. Len(b) = pbData.off
  BY <1>5, <1>6
<1>8. host'.stage = "statusOut" => Len(b) = Len(Given)
  <2>1. CASE Len(p) < MaxPacket
    BY <1>4, <1>5, <1>7, <2>1
  <2>2. CASE Len(b) >= host.req.len
    <3>1. Len(Given) \in Nat /\ host.req.len \in Nat
      BY <1>2, <1>4, RequestFacts
    <3> QED
      BY <1>4, <1>5, <1>7, <2>2, <3>1
  <2> QED
    BY <1>1, <2>1, <2>2
<1> HIDE DEF b
<1>9. GotInv'
  <2>1. Len(b) <= Len(Given)
    BY <1>4, <1>5, <1>7
  <2>2. IsPrefix(b, Given)
    BY <1>6, <2>1 DEF IsPrefix
  <2>3. host'.stage \notin {"dataOut", "statusIn"}
    BY <1>1
  <2> QED
    BY <1>1, <1>2, <1>3, <1>6, <1>8, <2>2, <2>3 DEF GotInv, IsPrefix
<1>10. ChunkInv'
  BY <1>1, <1>3, <1>7 DEF AnswerInv, ChunkInv, AnswerAt
<1>11. StoresInv' /\ TurnInv'
  BY <1>1 DEF AnswerInv, StoresInv, TurnInv, Desc
<1> QED
  BY <1>9, <1>10, <1>11 DEF AnswerInv

\* The transfer ends, well or not.
LEMMA EndAnswers ==
    ASSUME IInv, AnswerInv, HostStatusOut \/ HostStatusIn \/ HostSeesStall \/ BusReset
    PROVE  AnswerInv'
<1>1. /\ host'.stage = "idle" /\ host'.req = host.req /\ host'.got = host.got
      /\ UNCHANGED <<isr, mem, bConfiguration, pbData, iResidue>>
      /\ done' => done \/ host.stage \in {"statusOut", "statusIn"}
      /\ epIn' \in {epIn, <<>>} /\ (inInt' # inInt => epIn # <<>> /\ epIn' = <<>> /\ inInt')
      /\ inInt' \in BOOLEAN
  <2>1. inInt \in BOOLEAN /\ host \in [stage : Stages, req : AllRequests \cup {NoRequest}, id : Nat, sent : Nat, got : {host.got}]
    BY DEF IInv, TypeInv
  <2>2. CASE HostStatusOut
    BY <2>1, <2>2 DEF HostStatusOut, isrVars, reqVars
  <2>3. CASE HostStatusIn
    BY <2>1, <2>3 DEF HostStatusIn, InFull, isrVars, reqVars
  <2>4. CASE HostSeesStall
    BY <2>1, <2>4 DEF HostSeesStall, epVars, isrVars, reqVars
  <2>5. CASE BusReset
    BY <2>1, <2>5 DEF BusReset, isrVars
  <2> QED
    BY <2>2, <2>3, <2>4, <2>5
<1>2. Given' = Given
  BY <1>1, GivenKept
<1>3. StoresInv'
  BY <1>1 DEF AnswerInv, StoresInv, Desc
<1>4. TurnInv'
  <2>1. inInt \in BOOLEAN
    BY DEF IInv, TypeInv
  <2> QED
    BY <1>1, <2>1 DEF AnswerInv, TurnInv
<1>5. ChunkInv'
  BY <1>1 DEF ChunkInv, Answering
<1>6. ASSUME done'
      PROVE  Len(host.got) = Len(Given)
  <2>1. CASE done \/ host.stage = "statusOut"
    BY <2>1 DEF AnswerInv, GotInv
  <2>2. CASE host.stage = "statusIn"
    <3>1. host.req \in AllRequests /\ host.req.dir # "in"
      BY <2>2, RequestFacts DEF IInv, StageInv
    <3> QED
      BY <2>2, <3>1, AnswerFacts DEF AnswerInv, GotInv, Given
  <2> QED
    BY <1>1, <1>6, <2>1, <2>2
<1>7. ~Pending'
  BY TokenFacts
<1>8. GotInv'
  BY <1>1, <1>2, <1>6, <1>7 DEF AnswerInv, GotInv, IsPrefix
<1> QED
  BY <1>3, <1>4, <1>5, <1>8 DEF AnswerInv

LEMMA DispatchAnswers ==
    ASSUME IInv, AnswerInv, IsrEnter \/ IsrOut \/ IsrNoOut \/ IsrIn
    PROVE  AnswerInv'
<1>1. /\ UNCHANGED <<host, done, epOut, epIn, pbData, iResidue, mem, bConfiguration>>
      /\ inInt' => inInt
      /\ isr' = "in" => inInt /\ ~inInt'
  <2>1. CASE IsrEnter
    BY <2>1 DEF IsrEnter, hostVars, epVars, reqVars
  <2>2. CASE IsrOut
    BY <2>2 DEF IsrOut, hostVars, reqVars
  <2>3. CASE IsrNoOut
    BY <2>3 DEF IsrNoOut, hostVars, epVars, reqVars
  <2>4. CASE IsrIn
    BY <2>4 DEF IsrIn, hostVars, reqVars
  <2> QED
    BY <2>1, <2>2, <2>3, <2>4
<1>2. Given' = Given /\ Pending' = Pending /\ Answering' = Answering
  BY <1>1, GivenKept DEF Pending, Answering
<1>3. StoresInv' /\ TurnInv'
  BY <1>1 DEF AnswerInv, StoresInv, TurnInv, Desc
<1>4. ChunkInv'
  BY <1>1, <1>2 DEF AnswerInv, ChunkInv, AnswerAt
<1>5. GotInv'
  BY <1>1, <1>2 DEF AnswerInv, GotInv, IsPrefix
<1> QED
  BY <1>3, <1>4, <1>5 DEF AnswerInv

\* The handler of a request that reads from the device puts its answer where it
\* says the answer is.
LEMMA StoreFacts ==
    ASSUME IInv, AnswerInv, host.req \in AllRequests, host.req.dir = "in", host.req.name \notin Refused
    PROVE  /\ AnswerAt(host.req) \in Areas
           /\ \A i \in 1 .. Len(Given) : MemAfter(host.req)[AnswerAt(host.req)][i] = Given[i]
<1> DEFINE r == host.req
<1>1. mem = [a \in Areas |-> mem[a]] /\ mem.desc = Desc /\ mem.std = [i \in 1 .. 2 |-> mem.std[i]]
  BY DEF IInv, TypeInv, AnswerInv, StoresInv
<1>2. CASE \E k \in Asked : r = Ask("GET_DESCRIPTOR", "std", "in", k, 0)
  <2>1. PICK k \in Asked : r = Ask("GET_DESCRIPTOR", "std", "in", k, 0)
    BY <1>2
  <2>2. k \in Nat /\ r.name = "GET_DESCRIPTOR" /\ r.len = k
    BY <2>1, LengthAssumption DEF Ask
  <2>3. Given = SubSeq(Desc, 1, Least(k, DescLen)) /\ AnswerAt(r) = "desc" /\ MemAfter(r) = mem
    BY <2>2 DEF Given, Answer, AnswerAt, MemAfter
  <2> DEFINE l == Least(k, DescLen)
  <2>4. l \in Nat /\ l <= DescLen /\ Desc \in Seq({"desc"} \X {0} \X Nat) /\ Len(Desc) = DescLen
    BY <2>2, LengthAssumption DEF Least, Desc
  <2> HIDE DEF l
  <2>5. Len(SubSeq(Desc, 1, l)) = l /\ \A i \in 1 .. l : SubSeq(Desc, 1, l)[i] = Desc[i]
    BY <2>4, LengthAssumption
  <2> QED
    BY <1>1, <2>3, <2>5 DEF l, Areas
<1>3. CASE r = Ask("GET_LINE_CODING", "class", "in", LineLen, 0)
  <2>1. r.name = "GET_LINE_CODING"
    BY <1>3 DEF Ask
  <2> QED
    BY <2>1 DEF Given, Answer, AnswerAt, MemAfter, Areas
<1>4. CASE r = Ask("GET_STATUS", "std", "in", 2, 0)
  <2>1. r.name = "GET_STATUS" /\ r.type = "std"
    BY <1>4 DEF Ask
  <2>2. Given = Zeros /\ AnswerAt(r) = "std" /\ MemAfter(r) = [mem EXCEPT !.std = Zeros]
    BY <2>1 DEF Given, Answer, AnswerAt, MemAfter
  <2> QED
    BY <1>1, <2>2 DEF Areas
<1>5. CASE r = Ask("GET_CONFIGURATION", "std", "in", 1, 0)
  <2>1. r.name = "GET_CONFIGURATION" /\ r.type = "std"
    BY <1>5 DEF Ask
  <2>2. /\ Given = <<Config(bConfiguration)>> /\ AnswerAt(r) = "std"
        /\ MemAfter(r) = [mem EXCEPT !.std[1] = Config(bConfiguration)]
    BY <2>1 DEF Given, Answer, AnswerAt, MemAfter
  <2>3. MemAfter(r).std[1] = Config(bConfiguration)
    BY <1>1, <2>2 DEF Areas
  <2>4. 1 .. Len(Given) = {1} /\ Given[1] = Config(bConfiguration)
    BY <2>2
  <2> QED
    BY <2>2, <2>3, <2>4 DEF Areas
<1>6. ~ \E v \in {0, 1} : r = Ask("SET_CONFIGURATION", "std", "out", 0, v)
  BY DEF Ask
<1>7. r \notin {Ask("SET_DESCRIPTOR", "std", "out", 2, 0), Ask("SYNCH_FRAME", "std", "in", 2, 0),
                Ask("SET_LINE_CODING", "class", "out", LineLen, 0),
                Ask("SET_CONTROL_LINE_STATE", "class", "out", 0, 0),
                Ask("VENDOR", "vendor", "in", 1, 0)}
  BY DEF Ask, Refused
<1> QED
  BY <1>2, <1>3, <1>4, <1>5, <1>6, <1>7 DEF AllRequests

\* The handler answers from the first byte.
LEMMA ServeAnswers ==
    ASSUME IInv, AnswerInv, SetupAnswer
    PROVE  AnswerInv'
<1> DEFINE r == host.req
           at == [area |-> AnswerAt(r), off |-> 0]
<1>1. /\ ReadSetup /\ DataToHost(r) /\ r.name \notin Refused /\ HandleRequest(r)
      /\ DataIn(at, ToSend(r), MemAfter(r), FALSE)
  BY DEF SetupAnswer
<1>2. /\ r \in AllRequests /\ host.stage = FirstStage(r) /\ epIn = <<>> /\ ~inInt /\ ~done
      /\ ~Pending' /\ isr' = "checkIn" /\ UNCHANGED <<host, done, inInt>>
  BY <1>1, ReadSetupFacts
<1>3. Pending /\ host.got = <<>>
  BY <1>1 DEF ReadSetup, IInv, SetupInv, AnswerInv, GotInv
<1>4. ~Sends(r)
  BY <1>1, <1>2, RequestFacts DEF DataToHost, Sends
<1>5. /\ mem' = MemAfter(r) /\ mem'.line = mem.line
      /\ bConfiguration' = (IF r.name = "SET_CONFIGURATION" THEN r.val ELSE bConfiguration)
  BY <1>1, <1>2, <1>4, MemAfterFacts DEF HandleRequest
<1>6. Given' = Given
  BY <1>2, <1>5, GivenKept
<1>7. StoresInv'
  <2>1. mem = [a \in Areas |-> mem[a]] /\ mem.desc = Desc /\ mem.std = [i \in 1 .. 2 |-> mem.std[i]]
        /\ mem.vendor = <<<<"null", 0, 1>>>> /\ bConfiguration \in Nat
    BY DEF IInv, TypeInv, AnswerInv, StoresInv
  <2>2. r.name # "SET_LINE_CODING"
    BY <1>2, <1>4, RequestFacts, LengthAssumption DEF Sends
  <2>3. mem' \in {mem, [mem EXCEPT !.std = Zeros], [mem EXCEPT !.std[1] = Config(bConfiguration)]}
    BY <1>5, <2>2 DEF MemAfter
  <2>4. mem'.desc = Desc /\ mem'.vendor = mem.vendor /\ mem'.std = [i \in 1 .. 2 |-> mem'.std[i]]
    <3>1. CASE mem' = mem
      BY <2>1, <3>1
    <3>2. CASE mem' = [mem EXCEPT !.std = Zeros]
      BY <2>1, <3>2 DEF Areas, Zeros
    <3>3. CASE mem' = [mem EXCEPT !.std[1] = Config(bConfiguration)]
      BY <2>1, <3>3 DEF Areas
    <3> QED
      BY <2>3, <3>1, <3>2, <3>3
  <2>5. bConfiguration' \in Nat
    <3>1. r.name = "SET_CONFIGURATION" => r.val \in Nat
      BY <1>2 DEF AllRequests, Ask
    <3> QED
      BY <1>5, <2>1, <3>1
  <2> QED
    BY <2>1, <2>4, <2>5 DEF StoresInv, Desc
<1>8. TurnInv'
  BY <1>2 DEF TurnInv
<1>9. GotInv'
  BY <1>2, <1>3, <1>6 DEF AnswerInv, GotInv, IsPrefix, FirstStage
<1>10. ChunkInv'
  <2> SUFFICES ASSUME host.stage = "dataIn" PROVE ChunkInv'
    BY <1>2 DEF ChunkInv, Answering
  <2>1. r.dir = "in"
    BY DEF IInv, StageInv
  <2>2. /\ at.area \in Areas /\ Given \in Seq(Cell) /\ Len(Given) = ToSend(r)
        /\ \A i \in 1 .. Len(Given) : MemAfter(r)[at.area][i] = Given[i]
    BY <1>1, <1>2, <2>1, StoreFacts, AnswerFacts DEF Given
  <2>3. at \in [area : Areas, off : Int] /\ at.off = 0 /\ at.off \in 0 .. Len(Given) /\ ToSend(r) = Len(Given) - at.off
    BY <2>2
  <2>4. at.area = AnswerAt(r) /\ Len(host.got) = at.off
    BY <1>3
  <2> HIDE DEF at
  <2>5. NextChunk(Given, at)
    BY <1>1, <2>2, <2>3, ChunkFacts, ZenonT(60)
  <2>6. AnswerAt(r)' = AnswerAt(r)
    BY <1>2 DEF AnswerAt
  <2> QED
    BY <1>2, <1>5, <1>6, <2>2, <2>4, <2>5, <2>6 DEF ChunkInv, NextChunk
<1> QED
  BY <1>7, <1>8, <1>9, <1>10 DEF AnswerInv

\* A SETUP that is refused or announces data for the device.
LEMMA NoAnswer ==
    ASSUME IInv, AnswerInv, SetupRefuse \/ SetupCollect
    PROVE  AnswerInv'
<1>1. /\ ReadSetup /\ UNCHANGED <<epIn, mem, bConfiguration>>
      /\ host.req.name \in Refused \/ ~DataToHost(host.req)
  BY DEF SetupRefuse, SetupCollect
<1>2. /\ host.req \in AllRequests /\ host.stage = FirstStage(host.req) /\ epIn = <<>> /\ ~inInt
      /\ isr' = "checkIn" /\ UNCHANGED <<host, done, inInt>> /\ ~Pending'
  BY <1>1, ReadSetupFacts
<1>3. Pending /\ host.got = <<>>
  BY <1>1 DEF ReadSetup, IInv, SetupInv, AnswerInv, GotInv
<1>4. Given' = Given
  BY <1>1, <1>2, GivenKept
<1>5. StoresInv' /\ TurnInv'
  BY <1>1, <1>2 DEF AnswerInv, StoresInv, TurnInv, Desc
<1>6. ChunkInv'
  BY <1>1, <1>2 DEF ChunkInv, Answering, FirstStage, DataToHost
<1>7. GotInv'
  BY <1>2, <1>3, <1>4 DEF AnswerInv, GotInv, IsPrefix
<1> QED
  BY <1>5, <1>6, <1>7 DEF AnswerInv

\* The stores that answers are read from are not written by a data packet.
LEMMA StoredAnswers ==
    ASSUME IInv, AnswerInv
    PROVE  /\ Stored.desc = Desc /\ Stored.std = [i \in 1 .. 2 |-> Stored.std[i]]
           /\ Stored.vendor = mem.vendor /\ Stored.line = mem.line
           /\ epOut.bytes = <<>> => Stored = mem
<1>1. /\ mem = [a \in Areas |-> mem[a]] /\ pbData.area \in Areas /\ iResidue \in Int /\ pbData.off \in Int
      /\ mem.class = [i \in 1 .. LineLen |-> mem.class[i]]
      /\ mem.desc = Desc /\ mem.std = [i \in 1 .. 2 |-> mem.std[i]] /\ mem.vendor = <<<<"null", 0, 1>>>>
  BY DEF IInv, TypeInv, AnswerInv, StoresInv
<1>2. mem.line = [i \in 1 .. LineLen |-> mem.line[i]]
  BY DEF IInv, LineCodingWhole, Coding
<1>3. CASE epOut.bytes = <<>>
  <2>1. Len(epOut.bytes) = 0
    BY <1>3
  <2>2. 1 .. Least(iResidue, Len(epOut.bytes)) = {}
    BY <1>1, <2>1 DEF Least
  <2>3. Stored = [mem EXCEPT ![pbData.area] = [i \in DOMAIN mem[pbData.area] |-> mem[pbData.area][i]]]
    BY <2>2 DEF Stored
  <2>4. mem[pbData.area] = [i \in DOMAIN mem[pbData.area] |-> mem[pbData.area][i]]
    BY <1>1, <1>2 DEF Areas, Desc
  <2>5. Stored = mem
    BY <1>1, <2>3, <2>4
  <2> QED
    BY <1>1, <2>5
<1>4. CASE epOut.bytes # <<>>
  <2>1. Collecting /\ pbData.area = host.req.type
    BY <1>4 DEF IInv, CollectInv
  <2>2. host.req.type \in {"class", "std"}
    BY <2>1, HostRequest DEF Collecting
  <2> DEFINE f == [i \in DOMAIN mem[pbData.area] |->
                     IF i - pbData.off \in 1 .. Least(iResidue, Len(epOut.bytes))
                       THEN epOut.bytes[i - pbData.off] ELSE mem[pbData.area][i]]
  <2>3. Stored = [mem EXCEPT ![pbData.area] = f]
    BY DEF Stored
  <2>4. DOMAIN f = DOMAIN mem[pbData.area] /\ f = [i \in DOMAIN f |-> f[i]]
    OBVIOUS
  <2> HIDE DEF f
  <2>5. pbData.area = "std" => f = [i \in 1 .. 2 |-> f[i]]
    BY <1>1, <2>4
  <2>6. Stored = [a \in Areas |-> IF a = pbData.area THEN f ELSE mem[a]]
    BY <1>1, <2>3
  <2>7. {"desc", "std", "vendor", "line"} \subseteq Areas
    BY DEF Areas
  <2> QED
    BY <1>1, <1>4, <2>1, <2>2, <2>5, <2>6, <2>7
<1> QED
  BY <1>3, <1>4

\* The host's data, and its empty status, leave the answer where it is.
LEMMA AbsorbAnswers ==
    ASSUME IInv, AnswerInv, CollectMore \/ CollectRefuse \/ AbsorbStatus
    PROVE  AnswerInv'
<1>1. /\ ReadPacket /\ UNCHANGED <<epIn, bConfiguration>> /\ mem' \in {mem, Stored}
      /\ \/ CollectMore
         \/ iResidue > 0 /\ iResidue = Len(epOut.bytes)
         \/ UNCHANGED <<pbData, iResidue, mem>>
  BY DEF CollectMore, CollectRefuse, AbsorbStatus
<1>2. Pending' = Pending /\ isr' = "checkIn" /\ UNCHANGED <<host, done, inInt>>
  BY <1>1, ReadPacketFacts
<1>3. /\ mem'.line = mem.line /\ mem'.desc = Desc /\ mem'.vendor = mem.vendor
      /\ mem'.std = [i \in 1 .. 2 |-> mem'.std[i]]
  BY <1>1, StoredAnswers DEF AnswerInv, StoresInv
<1>4. Given' = Given
  BY <1>1, <1>2, <1>3, GivenKept
<1>5. StoresInv' /\ TurnInv'
  BY <1>1, <1>2, <1>3 DEF AnswerInv, StoresInv, TurnInv, Desc
<1>6. GotInv'
  BY <1>2, <1>4 DEF AnswerInv, GotInv, IsPrefix
<1>7. ASSUME Answering
      PROVE  mem' = mem /\ pbData'.area = pbData.area /\ pbData'.off = pbData.off /\ iResidue' = iResidue
  <2>1. ~Collecting
    BY <1>7 DEF Answering, Collecting
  <2>2. epOut.bytes = <<>> /\ mem' = mem
    BY <1>1, <2>1, StoredAnswers DEF IInv, CollectInv
  <2>3. CASE CollectMore
    <3>1. Len(epOut.bytes) = 0
      BY <2>2
    <3>2. pbData' = [pbData EXCEPT !.off = @ + 0] /\ iResidue' = iResidue - 0
      BY <2>3, <3>1 DEF CollectMore
    <3>3. pbData \in [area : Areas, off : Int] /\ iResidue \in Int
      BY DEF IInv, TypeInv
    <3> QED
      BY <2>2, <3>2, <3>3
  <2>4. CASE iResidue > 0 /\ iResidue = Len(epOut.bytes)
    BY <1>1, <2>1, <2>4, FullFacts
  <2>5. CASE UNCHANGED <<pbData, iResidue, mem>>
    BY <2>5
  <2> QED
    BY <1>1, <2>3, <2>4, <2>5
<1>8. ChunkInv'
  <2>1. Answering' = Answering
    BY <1>2 DEF Answering
  <2> QED
    BY <1>1, <1>2, <1>4, <1>7, <2>1 DEF AnswerInv, ChunkInv, AnswerAt
<1> QED
  BY <1>5, <1>6, <1>8 DEF AnswerInv

\* A request that stores something has no answer.
LEMMA StoreAnswers ==
    ASSUME IInv, AnswerInv, CollectLast
    PROVE  AnswerInv'
<1>1. /\ ReadPacket /\ iResidue > 0 /\ iResidue = Len(epOut.bytes)
      /\ Setup.name \notin Refused /\ mem' = [Stored EXCEPT !.line = Stored.class]
      /\ UNCHANGED bConfiguration
  BY DEF CollectLast
<1>2. /\ ~Pending /\ Pending' = Pending /\ isr' = "checkIn" /\ UNCHANGED <<host, done, inInt>>
      /\ host.stage = "statusIn" /\ Collecting /\ Setup = host.req
  BY <1>1, ReadPacketFacts, FullFacts
<1>3. host.req.name = "SET_LINE_CODING" /\ ~inInt
  BY <1>1, <1>2, HostRequest DEF Collecting, IInv, CollectInv
<1>4. Given' = Given /\ Given = <<>>
  BY <1>2, <1>3 DEF Given, Answer
<1>5. StoresInv'
  <2>1. Stored = [a \in Areas |-> Stored[a]]
    BY StoredFacts
  <2>2. mem'.desc = Stored.desc /\ mem'.std = Stored.std /\ mem'.vendor = Stored.vendor
    BY <1>1, <2>1 DEF Areas
  <2> QED
    BY <1>1, <2>2, StoredAnswers DEF AnswerInv, StoresInv, Desc
<1>6. TurnInv'
  BY <1>2, <1>3 DEF TurnInv
<1>7. ChunkInv'
  BY <1>2 DEF ChunkInv, Answering
<1>8. GotInv'
  BY <1>2, <1>4 DEF AnswerInv, GotInv, IsPrefix
<1> QED
  BY <1>5, <1>6, <1>7, <1>8 DEF AnswerInv

\* The next chunk goes out when the host has taken the last one.
LEMMA SendAnswers ==
    ASSUME IInv, AnswerInv, SendMore
    PROVE  AnswerInv'
<1>1. /\ isr = "in" /\ isr' = "off" /\ DataIn(pbData, iResidue, mem, Pending)
      /\ UNCHANGED <<host, done, epOut, inInt, mem, bConfiguration>>
  BY DEF SendMore, hostVars, Pending
<1>2. Pending' = Pending /\ Answering' = Answering /\ Given' = Given
  BY <1>1, GivenKept DEF Pending, Answering
<1>3. ~inInt /\ epIn = <<>>
  BY <1>1 DEF AnswerInv, TurnInv
<1>4. StoresInv' /\ TurnInv'
  BY <1>1, <1>3 DEF AnswerInv, StoresInv, TurnInv, Desc
<1>5. GotInv'
  BY <1>1, <1>2 DEF AnswerInv, GotInv, IsPrefix
<1>6. ChunkInv'
  <2> SUFFICES ASSUME Answering PROVE ChunkInv'
    BY <1>2 DEF ChunkInv
  <2>1. /\ pbData.area = AnswerAt(host.req)
        /\ \A i \in 1 .. Len(Given) : mem[pbData.area][i] = Given[i]
        /\ pbData.off \in 0 .. Len(Given) /\ iResidue = Len(Given) - pbData.off
        /\ Len(host.got) = pbData.off
    BY <1>3 DEF AnswerInv, ChunkInv
  <2>2. Given \in Seq(Cell) /\ pbData \in [area : Areas, off : Int]
    BY AnswerFacts DEF IInv, TypeInv, Given
  <2>3. DataIn(pbData, iResidue, mem, FALSE)
    BY <1>1 DEF Answering, DataIn
  <2>4. NextChunk(Given, pbData)
    BY <2>1, <2>2, <2>3, ChunkFacts, ZenonT(60)
  <2>5. AnswerAt(host.req)' = AnswerAt(host.req)
    BY <1>1 DEF AnswerAt
  <2> QED
    BY <1>1, <1>2, <2>1, <2>4, <2>5 DEF ChunkInv, NextChunk
<1> QED
  BY <1>4, <1>5, <1>6 DEF AnswerInv

LEMMA StepAnswers ==
    ASSUME EarlySetup = FALSE, IInv, AnswerInv, [Next]_vars
    PROVE  AnswerInv'
<1>1. CASE \E r \in AllRequests : HostSetup(r)
  BY <1>1, SetupAnswers
<1>2. CASE HostDataOut
  BY <1>2, OfferAnswers
<1>3. CASE HostDataIn
  BY <1>3, TakeAnswers
<1>4. CASE HostStatusOut \/ HostStatusIn \/ HostSeesStall \/ BusReset
  BY <1>4, EndAnswers
<1>5. CASE IsrEnter \/ IsrOut \/ IsrNoOut \/ IsrIn
  BY <1>5, DispatchAnswers
<1>6. CASE SetupAnswer
  BY <1>6, ServeAnswers
<1>7. CASE SetupRefuse \/ SetupCollect
  BY <1>7, NoAnswer
<1>8. CASE CollectMore \/ CollectRefuse \/ AbsorbStatus
  BY <1>8, AbsorbAnswers
<1>9. CASE CollectLast
  BY <1>9, StoreAnswers
<1>10. CASE SendMore
  BY <1>10, SendAnswers
<1>11. CASE UNCHANGED vars
  <2>1. UNCHANGED <<host, done, epOut, epIn, inInt, isr, pbData, iResidue, mem, bConfiguration>>
    BY <1>11 DEF vars, hostVars, epVars, isrVars, reqVars
  <2>2. Pending' = Pending /\ Answering' = Answering /\ Given' = Given
    BY <2>1, GivenKept DEF Pending, Answering
  <2>3. StoresInv' /\ TurnInv'
    BY <2>1 DEF AnswerInv, StoresInv, TurnInv, Desc
  <2>4. ChunkInv'
    BY <2>1, <2>2 DEF AnswerInv, ChunkInv, AnswerAt
  <2>5. GotInv'
    BY <2>1, <2>2 DEF AnswerInv, GotInv, IsPrefix
  <2> QED
    BY <2>3, <2>4, <2>5 DEF AnswerInv
<1> QED
  BY <1>1, <1>2, <1>3, <1>4, <1>5, <1>6, <1>7, <1>8, <1>9, <1>10, <1>11 DEF Next, HostTokens, Isr

-----------------------------------------------------------------------------
(* The theorems.                                                           *)

\* LineCoding (main_serial.c) is always one whole coding the host sent: the
\* data of a transfer given up halfway never mix with the next one's.
THEOREM LineCodingIsWhole ==
    ASSUME EarlySetup = FALSE
    PROVE  Spec => []LineCodingWhole
<1>1. IInv /\ [Next]_vars => IInv'
  BY StepInv
<1>2. IInv => LineCodingWhole
  BY DEF IInv
<1> QED
  BY <1>1, <1>2, InitInv, PTL DEF Spec

\* The status of a request goes out only after its handler has run
\* (USBHandleControlTransfer): a host that saw it finds the request applied.
THEOREM DoneIsApplied ==
    ASSUME EarlySetup = FALSE
    PROVE  Spec => []DoneMeansApplied
<1>1. IInv /\ [Next]_vars => IInv'
  BY StepInv
<1>2. IInv => DoneMeansApplied
  <2> SUFFICES ASSUME IInv, done PROVE DoneMeansApplied
    BY DEF DoneMeansApplied
  <2>1. ~Pending /\ ~Collecting
    BY DEF IInv, StageInv, SetupInv, Collecting
  <2> QED
    BY <2>1 DEF IInv, EffectInv, DoneMeansApplied
<1> QED
  BY <1>1, <1>2, InitInv, PTL DEF Spec

\* The host reads the answer to its request from the first byte on, none missing,
\* repeated or left from another transfer, and all of it when the transfer ends
\* well (USBHandleControlTransfer, DataIn and the interrupts that drive them).
THEOREM AnswersInOrder ==
    ASSUME EarlySetup = FALSE
    PROVE  Spec => []AnswerInOrder
<1>1. IInv /\ [Next]_vars => IInv'
  BY StepInv
<1>2. IInv /\ AnswerInv /\ [Next]_vars => AnswerInv'
  BY StepAnswers
<1>3. IInv /\ AnswerInv => AnswerInOrder
  <2> SUFFICES ASSUME IInv, AnswerInv PROVE AnswerInOrder
    OBVIOUS
  <2> DEFINE g == host.got
             a == Given
  <2>1. /\ g \in Seq(Cell) /\ a \in Seq(Cell) /\ Len(g) <= Len(a)
        /\ \A i \in 1 .. Len(g) : g[i] = a[i]
        /\ done => Len(g) = Len(a)
    BY AnswerFacts DEF IInv, TypeInv, AnswerInv, GotInv, IsPrefix, Given
  <2> HIDE DEF g, a
  <2>2. g = SubSeq(a, 1, Len(g))
    BY <2>1
  <2>3. Len(g) = Len(a) => g = a
    BY <2>1
  <2> QED
    BY <2>1, <2>2, <2>3 DEF AnswerInOrder, Given, g, a
<1> QED
  BY <1>1, <1>2, <1>3, InitInv, InitAnswer, PTL DEF Spec
=============================================================================
