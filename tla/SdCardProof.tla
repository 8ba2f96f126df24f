----------------------------- MODULE SdCardProof -----------------------------
(***************************************************************************)
(* The SD driver keeps the promise of a block device, remembers the truth  *)
(* about its card and leaves no card in a transfer, for every size of card *)
(* and block, every payload and any number of changes of card, inside a    *)
(* block and while the card writes as well as between two commands.        *)
(***************************************************************************)
EXTENDS SdCard, TLAPS

InitPcs == {"cmd0", "cmd8", "acmd41", "poll", "started", "identified"}
XferPcs == {"begin", "read", "rcvr", "block", "acmd23", "write", "xmit", "stop", "release"}
Pcs     == {"idle", "sync", "query", "power"} \cup InitPcs \cup XferPcs
Ops     == {"init", "read", "write", "sync", "query", "off", "on"}
Modes   == {"out", "native", "idle", "ready"} \cup Streams

\* A card that is there and has left the idle state; none, or one just put in.
Up   == {"ready"} \cup Streams
Down == {"out", "native"}

TypeInv ==
    /\ pc \in Pcs /\ (pc = "idle" <=> call = None)
    /\ call # None => call \in [op : Ops, sector : Sectors, data : Seq(Blocks)]
    /\ left \in Nat /\ moved \in Nat /\ at \in Nat
    /\ noInit \in BOOLEAN /\ busy \in BOOLEAN /\ broken \in BOOLEAN
    /\ known \in BOOLEAN /\ late \in BOOLEAN
    /\ mode \in Modes /\ flash \in [Sectors -> Blocks]

\* Which call is where, and that a transfer's blocks are those moved and those
\* left.
CallInv ==
    /\ pc \in InitPcs => call.op = "init"
    /\ pc \in {"sync", "query"} => call.op = pc
    /\ pc = "power" => call.op \in {"off", "on"}
    /\ pc = "begin" => call.op \in {"read", "write", "sync", "query"}
    /\ pc \in {"read", "rcvr", "block"} => call.op = "read"
    /\ pc \in {"acmd23", "write", "xmit"} => call.op = "write"
    /\ pc \in {"stop", "release"} => call.op \in {"read", "write"}
    /\ pc \notin XferPcs \ {"begin"} => moved = 0
    /\ pc # "idle" /\ call.op \notin {"read", "write"} => Len(call.data) = 0
    /\ pc \in {"read", "acmd23", "write"} => moved = 0
    /\ pc \in {"read", "acmd23", "write", "rcvr", "block", "xmit"} => left > 0
    /\ pc \in XferPcs \ {"release"} => left + moved = Len(call.data)
    /\ pc = "release" /\ left = 0 => moved = Len(call.data)
    /\ pc = "idle" => ~broken
    /\ pc \in {"sync", "query"} \cup (XferPcs \ {"begin"}) => ~noInit

Fits(type) == type = "SD2BLOCK" <=> kind = "SDHC"

\* The identification: where the card has got to, if it has not been changed,
\* and that only the command that asks for it starts one of high capacity.
IdentInv ==
    /\ pc \in {"cmd8", "acmd41"} =>
         ty = "none" /\ mode \in {"idle"} \cup Down /\ (~broken => mode = "idle")
    /\ pc = "poll" =>
         mode \in {"idle", "ready"} \cup Down /\ (~broken => mode \in {"idle", "ready"})
    /\ pc = "started" => mode \in {"ready"} \cup Down /\ (~broken => mode = "ready")
    /\ pc \in {"poll", "started"} =>
         /\ cmd \in {"ACMD41HCS", "ACMD41", "CMD1"}
         /\ cmd # "ACMD41HCS" => ty \in {"SD1", "MMC"}
         /\ mode = "ready" => cmd = "ACMD41HCS" \/ kind # "SDHC"
    /\ pc = "identified" /\ ty # "none" =>
         /\ mode \in {"ready"} \cup Down /\ (~broken => mode = "ready")
         /\ mode = "ready" => Fits(ty)

\* What is remembered is true of a card that has left the idle state.
TruthInv ==
    pc \notin InitPcs /\ ~noInit => /\ mode \in Up => Fits(CardType)
                                    /\ known => mode \in Up
                                    /\ mode # "idle"

\* A transfer that runs is this call's, with its next block at the right sector.
Aimed == ~broken /\ at = call.sector + moved

StreamInv ==
    /\ pc \in {"rcvr", "block"} => \/ mode \in Down
                                   \/ mode = (IF Single THEN "read1" ELSE "read") /\ Aimed
    /\ pc = "block" => call.sector + moved \in Sectors
    /\ pc = "block" /\ mode \in Down => broken
    /\ pc = "xmit" => \/ mode \in Down
                      \/ mode = (IF Single THEN "write1" ELSE "write") /\ Aimed
    /\ pc = "stop" => mode \in Down \/ mode = call.op
    /\ pc \notin {"rcvr", "block", "xmit", "stop"} /\ mode \in Streams => late
    /\ late => mode = "write" /\ pc \notin {"rcvr", "block", "xmit", "stop"}
    /\ mode \in {"read", "read1"} \cup Down => ~busy
    /\ mode = "write1" => ~busy
    /\ pc \notin InitPcs /\ broken => mode \in Down

IInv == TypeInv /\ CallInv /\ IdentInv /\ TruthInv /\ StreamInv

\* Only a busy card has something to write, and a call takes at most one block
\* of a card that has gone.
MediumInv ==
    /\ writing # {} => busy
    /\ torn \in BOOLEAN /\ (torn => broken)
    /\ pc = "block" => ~torn

-----------------------------------------------------------------------------
(* What a command does to the card.                                        *)

Stream(c) ==
    CASE c = "CMD17" -> "read1" [] c = "CMD18" -> "read" [] c = "CMD24" -> "write1" [] OTHER -> "write"

\* The commands that may start the card.
Starts(c) == c # "CMD8" /\ (c = "ACMD41HCS" \/ kind # "SDHC")

LEMMA IdleAnswers ==
    ASSUME NEW c, NEW a \in Idle(c)
    PROVE  \/ a[2] = "idle" /\ a[1] # "ready"
           \/ a = <<"ready", "ready">> /\ Starts(c)
<1>1. CASE c = "CMD8" /\ kind \in {"SD2", "SDHC"}
  BY <1>1 DEF Idle, Starts
<1>2. CASE \/ c = "ACMD41" /\ kind \in {"SD1", "SD2"}
           \/ c = "ACMD41HCS" /\ kind # "MMC"
           \/ c = "CMD1" /\ kind # "SDHC"
  BY <1>2 DEF Idle, Starts
<1>3. CASE /\ ~(c = "CMD8" /\ kind \in {"SD2", "SDHC"})
           /\ ~(\/ c = "ACMD41" /\ kind \in {"SD1", "SD2"}
                \/ c = "ACMD41HCS" /\ kind # "MMC"
                \/ c = "CMD1" /\ kind # "SDHC")
  BY <1>3 DEF Idle, Starts
<1> QED
  BY <1>1, <1>2, <1>3

LEMMA ReadyAnswers ==
    ASSUME NEW c, NEW arg, NEW a \in Ready(c, arg)
    PROVE  \/ a[2] = "ready" /\ (c \in Transfers => a[1] = "refused")
           \/ c \in Transfers /\ Meant(arg) # {} /\ a = <<"ready", Stream(c)>>
<1>1. CASE c \in Transfers /\ Meant(arg) # {}
  BY <1>1 DEF Ready, Stream, Transfers
<1>2. CASE ~(c \in Transfers /\ Meant(arg) # {})
  BY <1>2 DEF Ready, Transfers
<1> QED
  BY <1>1, <1>2

\* A command takes the card along its modes only.
LEMMA Answered ==
    ASSUME TypeInv, NEW c, NEW arg, NEW a \in Answers(c, arg), c # "CMD0"
    PROVE  /\ mode \in Down \cup {"write", "write1"} => a = <<"silent", mode>>
           /\ mode \in {"read", "read1"} =>
                \/ a = <<"refused", mode>>
                \/ mode = "read" /\ c = "CMD12" /\ a = <<"ready", "ready">>
           /\ mode = "read" /\ c = "CMD12" => a = <<"ready", "ready">>
           /\ mode = "idle" =>
                \/ a[2] = "idle" /\ a[1] # "ready"
                \/ a = <<"ready", "ready">> /\ Starts(c)
           /\ mode = "ready" =>
                \/ a[2] = "ready" /\ (c \in Transfers => a[1] = "refused")
                \/ c \in Transfers /\ Meant(arg) # {} /\ a = <<"ready", Stream(c)>>
<1>1. CASE mode \in Down \cup {"write", "write1"}
  BY <1>1 DEF Answers, Down
<1>2. CASE mode \in {"read", "read1"}
  BY <1>2 DEF Answers, Down
<1>3. CASE mode = "idle"
  <2>1. a \in Idle(c)
    BY <1>3 DEF Answers
  <2> QED
    BY <1>3, <2>1, IdleAnswers DEF Down
<1>4. CASE mode = "ready"
  <2>1. a \in Ready(c, arg)
    BY <1>4 DEF Answers
  <2> QED
    BY <1>4, <2>1, ReadyAnswers DEF Down
<1> QED
  BY <1>1, <1>2, <1>3, <1>4 DEF TypeInv, Modes, Streams, Down

\* What a command other than CMD0 may do to the card.
Effect(c, arg, res) ==
    /\ kind' = kind /\ flash' = flash /\ mode' \in Modes /\ at' \in Nat
    /\ busy' \in BOOLEAN /\ (busy' => busy)
    /\ mode \in Down \cup {"write", "write1"} => mode' = mode /\ res = "silent"
    /\ mode \in {"read", "read1"} =>
         /\ mode' = mode \/ mode' = "ready"
         /\ res = "ready" => c = "CMD12"
    /\ mode = "read" /\ c = "CMD12" /\ ~busy => mode' = "ready"
    /\ mode = "idle" =>
         \/ mode' = "idle" /\ res # "ready"
         \/ mode' = "ready" /\ res = "ready" /\ Starts(c)
    /\ mode = "ready" =>
         \/ mode' = "ready" /\ (c \in Transfers => res # "ready")
         \/ /\ c \in Transfers /\ Meant(arg) # {} /\ res = "ready"
            /\ mode' = Stream(c) /\ at' = (CHOOSE s \in Meant(arg) : TRUE) /\ ~busy'

LEMMA Sent ==
    ASSUME TypeInv, NEW c, NEW arg, NEW res, SendCmd(c, arg, res), c # "CMD0"
    PROVE  Effect(c, arg, res)
<1>1. CASE busy /\ res = "silent" /\ UNCHANGED cardVars
  BY <1>1 DEF cardVars, TypeInv, Effect, Modes, Streams, Down, Transfers
<1>2. CASE ~(busy /\ res = "silent" /\ UNCHANGED cardVars)
  <2>1. PICK a \in Answers(c, arg) :
           /\ res = a[1] /\ mode' = a[2] /\ busy' = FALSE /\ UNCHANGED <<kind, flash>>
           /\ at' = IF a[2] \notin Streams THEN 0 ELSE IF a[2] = mode THEN at
                    ELSE CHOOSE s \in Meant(arg) : TRUE
    BY <1>2 DEF SendCmd
  <2>2. \A s \in Meant(arg) : s \in Nat
    BY SizeAssumption DEF Meant, Sectors
  <2>3. CASE mode \in Down \cup {"write", "write1"}
    <3>1. a[1] = "silent" /\ a[2] = mode
      BY <2>3, Answered
    <3> QED
      BY <2>1, <2>3, <3>1 DEF Effect, TypeInv, Modes, Streams, Down
  <2>4. CASE mode \in {"read", "read1"}
    <3>1. \/ a[1] = "refused" /\ a[2] = mode /\ ~(mode = "read" /\ c = "CMD12")
          \/ c = "CMD12" /\ a[2] = "ready"
      BY <2>4, Answered
    <3>2. res = a[1] /\ mode' = a[2] /\ at' \in Nat
      BY <2>1, <2>4, <3>1 DEF Streams, TypeInv
    <3> QED
      BY <2>1, <2>4, <3>1, <3>2 DEF Effect, TypeInv, Modes, Streams, Down
  <2>5. CASE mode = "idle"
    <3>1. \/ a[2] = "idle" /\ a[1] # "ready"
          \/ a[1] = "ready" /\ a[2] = "ready" /\ Starts(c)
      BY <2>5, Answered
    <3>2. res = a[1] /\ mode' = a[2] /\ at' \in Nat
      BY <2>1, <2>5, <3>1 DEF Streams, TypeInv
    <3> QED
      BY <2>1, <2>5, <3>1, <3>2 DEF Effect, TypeInv, Modes, Streams, Down
  <2>6. CASE mode = "ready"
    <3>1. CASE a[2] = "ready" /\ (c \in Transfers => a[1] = "refused")
      BY <2>1, <2>6, <3>1 DEF Effect, TypeInv, Modes, Streams, Down
    <3>2. CASE c \in Transfers /\ Meant(arg) # {} /\ a = <<"ready", Stream(c)>>
      <4>1. Stream(c) \in Streams
        BY DEF Stream, Streams
      <4>2. a[1] = "ready" /\ a[2] = Stream(c) /\ at' = (CHOOSE s \in Meant(arg) : TRUE)
        BY <2>1, <2>6, <3>2, <4>1 DEF Streams
      <4>3. at' \in Meant(arg)
        BY <3>2, <4>2
      <4> QED
        BY <2>1, <2>2, <2>6, <3>2, <4>1, <4>2, <4>3 DEF Effect, TypeInv, Modes, Streams, Down
    <3> QED
      BY <2>6, <3>1, <3>2, Answered
  <2> QED
    BY <2>3, <2>4, <2>5, <2>6 DEF TypeInv, Modes, Streams, Down
<1> QED
  BY <1>1, <1>2

-----------------------------------------------------------------------------
(* The invariant.                                                          *)

LEMMA InitInv == Init => IInv
<1> SUFFICES ASSUME Init PROVE IInv
  OBVIOUS
<1>1. [s \in Sectors |-> Blank] \in [Sectors -> Blocks]
  BY DEF Blocks
<1>2. TypeInv
  BY <1>1 DEF Init, TypeInv, Pcs, Modes
<1>3. CallInv /\ IdentInv /\ TruthInv /\ StreamInv
  BY DEF Init, CallInv, IdentInv, TruthInv, StreamInv, InitPcs, XferPcs, Streams, Down
<1> QED
  BY <1>2, <1>3 DEF IInv

LEMMA CallsInv == IInv /\ Calls => IInv'
<1> SUFFICES ASSUME IInv, Calls PROVE IInv'
  OBVIOUS
<1>1. PICK op \in Ops, sector \in Sectors, data \in Seq(Blocks),
           entry \in {"cmd0", "begin", "power"} :
         /\ Start(op, sector, data, entry)
         /\ entry = "cmd0" => op = "init"
         /\ entry = "begin" => op \in {"read", "write", "sync", "query"}
         /\ entry = "power" => op \in {"off", "on"}
         /\ op \notin {"read", "write"} => data = <<>>
  <2>1. 0 \in Sectors /\ <<>> \in Seq(Blocks)
    BY SizeAssumption DEF Sectors
  <2>2. CASE CallInitialize
    BY <2>1, <2>2 DEF CallInitialize, Ops
  <2>3. CASE CallRead
    <3>1. PICK s \in Sectors, n \in {0} \union Counts :
             Start("read", s, [i \in 1 .. n |-> Blank], "begin")
      BY <2>3 DEF CallRead
    <3>2. n \in Nat /\ Blank \in Blocks
      BY CallAssumption DEF Counts, Blocks
    <3>3. [i \in 1 .. n |-> Blank] \in Seq(Blocks)
      BY <3>2
    <3> QED
      BY <3>1, <3>3 DEF Ops
  <2>4. CASE CallWrite
    BY <2>4, CallAssumption DEF CallWrite, Ops
  <2>5. CASE CallSync \/ CallQuery
    BY <2>1, <2>5 DEF CallSync, CallQuery, Ops
  <2>6. CASE CallPower
    BY <2>1, <2>6 DEF CallPower, Ops
  <2> QED
    BY <2>2, <2>3, <2>4, <2>5, <2>6 DEF Calls
<1>2. /\ pc = "idle" /\ pc' = entry /\ left' = Len(data) /\ Len(data) \in Nat
      /\ call' = [op |-> op, sector |-> sector, data |-> data]
      /\ UNCHANGED <<ty, noInit, CardType, mode, kind, at, busy, flash, moved, broken, known, late>>
  BY <1>1 DEF Start, cardVars, historyVars
<1>3. /\ call' \in [op : Ops, sector : Sectors, data : Seq(Blocks)]
      /\ call'.op = op /\ call'.data = data
  BY <1>2
<1>4. call' # None
  BY <1>3, CallAssumption DEF Ops
<1>5. TypeInv'
  BY <1>1, <1>2, <1>3, <1>4 DEF IInv, TypeInv, Pcs, InitPcs, XferPcs
<1>6. CallInv'
  BY <1>1, <1>2, <1>3 DEF IInv, CallInv, InitPcs, XferPcs, TypeInv
<1>7. IdentInv'
  BY <1>1, <1>2 DEF IdentInv
<1>8. TruthInv'
  BY <1>1, <1>2 DEF IInv, TruthInv, InitPcs, Fits
<1>9. StreamInv'
  BY <1>1, <1>2 DEF IInv, StreamInv, CallInv
<1> QED
  BY <1>5, <1>6, <1>7, <1>8, <1>9 DEF IInv

\* A call that returns, with the card where it was or further up.
LEMMA FinishInv ==
    ASSUME IInv, pc \in {"begin", "release", "sync", "query", "power"}, NEW r, Finish(r),
           noInit' \in BOOLEAN, noInit => noInit',
           CardType' = CardType, known' = known, late' = late, kind' = kind, flash' = flash,
           at' \in Nat, mode' \in Modes, busy' \in BOOLEAN, busy' => busy,
           \/ mode' = mode
           \/ mode \in {"ready", "read", "read1"} /\ mode' = "ready"
    PROVE  IInv'
<1>1. /\ pc' = "idle" /\ call' = None /\ left' = 0 /\ ty' = "none" /\ moved' = 0
      /\ broken' = FALSE
  BY DEF Finish
<1>2. TypeInv'
  BY <1>1 DEF IInv, TypeInv, Pcs
<1>3. CallInv' /\ IdentInv'
  BY <1>1 DEF CallInv, IdentInv, InitPcs, XferPcs
<1>4. TruthInv'
  <2>1. pc \notin InitPcs
    BY DEF InitPcs
  <2>2. mode' \in Up <=> mode \in Up
    BY DEF Up, Streams
  <2>3. Fits(CardType)' <=> Fits(CardType)
    BY DEF Fits
  <2> QED
    BY <2>1, <2>2, <2>3 DEF IInv, TruthInv, Up
<1>5. StreamInv'
  BY <1>1 DEF IInv, StreamInv, Streams, Down
<1> QED
  BY <1>2, <1>3, <1>4, <1>5 DEF IInv

\* Refusals, the ioctl codes and the end of a transfer.
LEMMA ReturnsInv == IInv /\ (Refused \/ Release \/ Sync \/ Query \/ Power) => IInv'
<1> SUFFICES ASSUME IInv, Refused \/ Release \/ Sync \/ Query \/ Power PROVE IInv'
  OBVIOUS
<1>1. CASE Refused
  <2>1. PICK r : Finish(r)
    BY <1>1 DEF Refused
  <2> QED
    BY <1>1, <2>1, FinishInv DEF Refused, cardVars, IInv, TypeInv
<1>2. CASE Release
  <2>1. PICK r : Finish(r)
    BY <1>2 DEF Release
  <2> QED
    BY <1>2, <2>1, FinishInv DEF Release, cardVars, IInv, TypeInv
<1>3. CASE Sync
  <2>1. PICK r : Finish(r)
    BY <1>3 DEF Sync
  <2>2. busy' \in BOOLEAN /\ (busy' => busy)
    BY <1>3 DEF Sync, IInv, TypeInv
  <2> QED
    BY <1>3, <2>1, <2>2, FinishInv DEF Sync, IInv, TypeInv
<1>4. CASE Query
  <2>1. CASE UNCHANGED cardVars /\ Finish("ok")
    BY <1>4, <2>1, FinishInv DEF Query, cardVars, IInv, TypeInv
  <2>2. ASSUME NEW res, NEW r, SendCmd("CMD9", 0, res), Finish(r) PROVE IInv'
    <3>1. Effect("CMD9", 0, res)
      BY <2>2, Sent DEF IInv
    <3>2. /\ kind' = kind /\ flash' = flash /\ mode' \in Modes /\ at' \in Nat
          /\ busy' \in BOOLEAN /\ (busy' => busy)
      BY <3>1 DEF Effect
    <3>3. mode # "idle" /\ mode \in Modes
      BY <1>4 DEF Query, IInv, TruthInv, CallInv, InitPcs, TypeInv
    <3>4. mode' = mode \/ (mode \in {"ready", "read", "read1"} /\ mode' = "ready")
      <4>1. CASE mode \in Down \cup {"write", "write1"}
        BY <4>1, <3>1 DEF Effect
      <4>2. CASE mode \in {"read", "read1"}
        BY <4>2, <3>1 DEF Effect
      <4>3. CASE mode = "ready"
        BY <4>3, <3>1 DEF Effect, Transfers
      <4> QED
        BY <3>3, <4>1, <4>2, <4>3 DEF Modes, Streams, Down
    <3> QED
      BY <1>4, <2>2, <3>2, <3>4, FinishInv DEF Query, IInv, TypeInv
  <2> QED
    BY <1>4, <2>1, <2>2 DEF Query
<1>5. CASE Power
  <2>1. PICK r : Finish(r)
    BY <1>5 DEF Power
  <2>2. noInit' \in BOOLEAN /\ (noInit => noInit')
    BY <1>5 DEF Power, PowerOff, IInv, TypeInv
  <2> QED
    BY <1>5, <2>1, <2>2, FinishInv DEF Power, cardVars, IInv, TypeInv
<1> QED
  BY <1>1, <1>2, <1>3, <1>4, <1>5

-----------------------------------------------------------------------------
(* disk_initialize.                                                        *)

\* What its steps have in common: a card that was in a transfer stays there or
\* leaves it, and no other gets into one.
LEMMA IdentFrame ==
    ASSUME IInv, pc \in InitPcs, pc' \in InitPcs,
           UNCHANGED <<call, left, noInit, CardType, moved, broken, known, late, kind, flash>>,
           mode' \in Modes, at' \in Nat, busy' \in BOOLEAN, busy' => busy,
           mode' = mode \/ mode' \in {"idle", "ready"},
           mode = "write" => mode' = mode
    PROVE  TypeInv' /\ CallInv' /\ TruthInv' /\ StreamInv'
<1>1. TypeInv'
  BY DEF IInv, TypeInv, Pcs, InitPcs
<1>2. CallInv'
  BY DEF IInv, CallInv, InitPcs, XferPcs
<1>3. TruthInv'
  BY DEF TruthInv
<1>4. StreamInv'
  BY DEF IInv, StreamInv, InitPcs, Streams, Down
<1> QED
  BY <1>1, <1>2, <1>3, <1>4

\* The commands of disk_initialize after the first.
LEMMA PlainCommand ==
    ASSUME IInv, NEW c, NEW arg, NEW res, SendCmd(c, arg, res), c \notin Transfers \cup {"CMD0"}
    PROVE  /\ kind' = kind /\ flash' = flash /\ mode' \in Modes /\ at' \in Nat
           /\ busy' \in BOOLEAN /\ (busy' => busy)
           /\ mode' = mode \/ mode' = "ready"
           /\ mode \in Down \cup {"write", "write1"} => mode' = mode /\ res = "silent"
           /\ mode = "idle" => \/ mode' = mode /\ res # "ready"
                               \/ mode' = "ready" /\ res = "ready" /\ Starts(c)
<1>1. Effect(c, arg, res)
  BY Sent DEF IInv
<1>2. mode' = mode \/ mode' = "ready"
  <2>1. CASE mode \in Down \cup {"write", "write1"}
    BY <1>1, <2>1 DEF Effect
  <2>2. CASE mode \in {"read", "read1"}
    BY <1>1, <2>2 DEF Effect
  <2>3. CASE mode \in {"idle", "ready"}
    BY <1>1, <2>3 DEF Effect
  <2> QED
    BY <2>1, <2>2, <2>3 DEF IInv, TypeInv, Modes, Streams, Down
<1> QED
  BY <1>1, <1>2 DEF Effect

LEMMA ResetAnswered ==
    ASSUME NEW c, NEW arg, NEW a \in Answers(c, arg), c = "CMD0"
    PROVE  a = IF mode \in {"out", "write", "write1"} THEN <<"silent", mode>> ELSE <<"idle", "idle">>
<1>1. CASE mode \in {"out", "write", "write1"}
  BY <1>1 DEF Answers
<1>2. CASE mode \notin {"out", "write", "write1"}
  BY <1>2 DEF Answers
<1> QED
  BY <1>1, <1>2

\* CMD0 brings a card into the idle state, one that waits for data excepted.
LEMMA SentReset ==
    ASSUME TypeInv, NEW c, NEW arg, NEW res, SendCmd(c, arg, res), c = "CMD0"
    PROVE  /\ UNCHANGED <<kind, flash>> /\ at' \in Nat /\ busy' \in BOOLEAN /\ (busy' => busy)
           /\ mode' = mode \/ mode' = "idle"
           /\ mode = "write" => mode' = mode
           /\ res = "idle" => mode' = "idle"
<1>1. CASE busy /\ res = "silent" /\ UNCHANGED cardVars
  BY <1>1 DEF cardVars, TypeInv
<1>2. CASE ~(busy /\ res = "silent" /\ UNCHANGED cardVars)
  <2>1. PICK a \in Answers(c, arg) :
           /\ res = a[1] /\ mode' = a[2] /\ busy' = FALSE /\ UNCHANGED <<kind, flash>>
           /\ at' = IF a[2] \notin Streams THEN 0 ELSE IF a[2] = mode THEN at
                    ELSE CHOOSE s \in Meant(arg) : TRUE
    BY <1>2 DEF SendCmd
  <2>2. CASE mode \in {"out", "write", "write1"}
    <3>1. a[1] = "silent" /\ a[2] = mode
      BY <2>2, ResetAnswered
    <3>2. at' \in Nat
      BY <2>1, <3>1 DEF TypeInv
    <3> QED
      BY <2>1, <2>2, <3>1, <3>2
  <2>3. CASE mode \notin {"out", "write", "write1"}
    <3>1. a[1] = "idle" /\ a[2] = "idle"
      BY <2>3, ResetAnswered
    <3>2. at' \in Nat
      BY <2>1, <2>3, <3>1 DEF Streams
    <3> QED
      BY <2>1, <2>3, <3>1, <3>2
  <2> QED
    BY <2>2, <2>3
<1> QED
  BY <1>1, <1>2

LEMMA FirstCommandInv == IInv /\ Cmd0 => IInv'
<1> SUFFICES ASSUME IInv, Cmd0 PROVE IInv'
  OBVIOUS
<1>1. PICK res \in {"idle", "silent"} :
         /\ SendCmd("CMD0", 0, res)
         /\ Goto(IF res = "idle" THEN "cmd8" ELSE "identified")
  BY DEF Cmd0
<1>2. /\ pc = "cmd0" /\ pc' = (IF res = "idle" THEN "cmd8" ELSE "identified") /\ ty' = "none"
      /\ UNCHANGED <<call, left, noInit, CardType, moved, broken, known, late>>
  BY <1>1 DEF Cmd0, Goto, historyVars
<1>3. /\ UNCHANGED <<kind, flash>> /\ at' \in Nat /\ busy' \in BOOLEAN /\ (busy' => busy)
      /\ mode' = mode \/ mode' = "idle"
      /\ mode = "write" => mode' = mode
      /\ res = "idle" => mode' = "idle"
  BY <1>1, SentReset DEF IInv
<1>4. mode' \in Modes
  BY <1>3 DEF IInv, TypeInv, Modes
<1>5. TypeInv' /\ CallInv' /\ TruthInv' /\ StreamInv'
  BY <1>2, <1>3, <1>4, IdentFrame DEF InitPcs
<1>6. IdentInv'
  BY <1>2, <1>3 DEF IdentInv
<1> QED
  BY <1>5, <1>6 DEF IInv

LEMMA DetectInv == IInv /\ (Cmd8 \/ Acmd41) => IInv'
<1> SUFFICES ASSUME IInv, Cmd8 \/ Acmd41 PROVE IInv'
  OBVIOUS
<1>1. PICK c \in {"CMD8", "ACMD41"}, res \in Responses :
         /\ SendCmd(c, 0, res)
         /\ \/ pc = "cmd8" /\ c = "CMD8" /\ pc' \in {"identified", "acmd41"} /\ ty' = ty
            \/ pc = "cmd8" /\ c = "CMD8" /\ pc' = "poll" /\ cmd' = "ACMD41HCS"
            \/ /\ pc = "acmd41" /\ c = "ACMD41" /\ pc' = "poll"
               /\ cmd' \in {"ACMD41", "CMD1"} /\ ty' \in {"SD1", "MMC"}
  <2>1. CASE Cmd8
    <3>1. PICK res \in Responses :
             /\ SendCmd("CMD8", 0, res)
             /\ cmd' = IF res = "idle" THEN "ACMD41HCS" ELSE cmd
             /\ Goto(CASE res = "idle" -> "poll" [] res = "mismatch" -> "identified"
                       [] OTHER -> "acmd41")
      BY <2>1 DEF Cmd8
    <3>2. pc = "cmd8" /\ ty' = ty
      BY <2>1 DEF Cmd8
    <3> QED
      BY <3>1, <3>2 DEF Goto
  <2>2. CASE Acmd41
    BY <2>2 DEF Acmd41, Goto
  <2> QED
    BY <2>1, <2>2
<1>2. UNCHANGED <<call, left, noInit, CardType, moved, broken, known, late>>
  BY DEF Cmd8, Acmd41, Goto, historyVars
<1>3. /\ UNCHANGED <<kind, flash>> /\ mode' \in Modes /\ at' \in Nat
      /\ busy' \in BOOLEAN /\ (busy' => busy)
      /\ mode' = mode \/ mode' = "ready"
      /\ mode \in Down \cup {"write", "write1"} => mode' = mode
      /\ mode = "idle" => mode' = mode \/ (mode' = "ready" /\ Starts(c))
  BY <1>1, PlainCommand DEF Transfers
<1>4. TypeInv' /\ CallInv' /\ TruthInv' /\ StreamInv'
  BY <1>1, <1>2, <1>3, IdentFrame DEF InitPcs
<1>5. IdentInv'
  <2>1. mode \in {"idle"} \cup Down /\ (~broken => mode = "idle") /\ (pc = "cmd8" => ty = "none")
    BY <1>1 DEF IInv, IdentInv
  <2>2. mode' \in {"idle", "ready"} \cup Down /\ (~broken => mode' \in {"idle", "ready"})
    BY <1>3, <2>1
  <2>3. mode' = "ready" => Starts(c)
    BY <1>3, <2>1 DEF Down
  <2>4. CASE pc' \in {"identified", "acmd41"}
    <3>1. pc = "cmd8" /\ c = "CMD8"
      BY <1>1, <2>4
    <3>2. mode' # "ready"
      BY <2>3, <3>1 DEF Starts
    <3> QED
      BY <1>1, <1>2, <2>1, <2>2, <2>4, <3>1, <3>2 DEF IdentInv
  <2>5. CASE pc' = "poll"
    <3>1. mode' = "ready" => cmd' = "ACMD41HCS" \/ kind' # "SDHC"
      BY <1>1, <1>3, <2>3, <2>5 DEF Starts
    <3> QED
      BY <1>1, <1>2, <2>2, <2>5, <3>1 DEF IdentInv, Down
  <2> QED
    BY <1>1, <2>4, <2>5
<1> QED
  BY <1>4, <1>5 DEF IInv

LEMMA PollInv == IInv /\ (Poll \/ PollTimeout) => IInv'
<1> SUFFICES ASSUME IInv, Poll \/ PollTimeout PROVE IInv'
  OBVIOUS
<1>1. /\ pc = "poll"
      /\ UNCHANGED <<call, left, cmd, noInit, CardType, moved, broken, known, late>>
  BY DEF Poll, PollTimeout, Goto, historyVars
<1>2. /\ mode \in {"idle", "ready"} \cup Down /\ (~broken => mode \in {"idle", "ready"})
      /\ cmd \in {"ACMD41HCS", "ACMD41", "CMD1"} /\ (cmd # "ACMD41HCS" => ty \in {"SD1", "MMC"})
      /\ mode = "ready" => cmd = "ACMD41HCS" \/ kind # "SDHC"
  BY <1>1 DEF IInv, IdentInv
<1>3. CASE Poll
  <2>1. PICK res \in Responses :
           SendCmd(cmd, 0, res) /\ Goto(IF res = "ready" THEN "started" ELSE "poll")
    BY <1>3 DEF Poll
  <2>2. pc' = (IF res = "ready" THEN "started" ELSE "poll") /\ ty' = ty
    BY <1>3, <2>1 DEF Poll, Goto
  <2>3. /\ UNCHANGED <<kind, flash>> /\ mode' \in Modes /\ at' \in Nat
        /\ busy' \in BOOLEAN /\ (busy' => busy)
        /\ mode' = mode \/ mode' = "ready"
        /\ mode \in Down \cup {"write", "write1"} => mode' = mode /\ res = "silent"
        /\ mode = "idle" => \/ mode' = mode /\ res # "ready"
                            \/ mode' = "ready" /\ res = "ready" /\ Starts(cmd)
    BY <1>2, <2>1, PlainCommand DEF Transfers
  <2>4. TypeInv' /\ CallInv' /\ TruthInv' /\ StreamInv'
    BY <1>1, <2>2, <2>3, IdentFrame DEF InitPcs
  <2>5. IdentInv'
    <3>1. mode' = "ready" => cmd = "ACMD41HCS" \/ kind # "SDHC"
      BY <1>2, <2>3 DEF Starts, Down
    <3>2. res = "ready" => mode' = "ready"
      BY <1>2, <2>3
    <3> QED
      BY <1>1, <1>2, <2>2, <2>3, <3>1, <3>2 DEF IdentInv
  <2> QED
    BY <2>4, <2>5 DEF IInv
<1>4. CASE PollTimeout
  <2>1. pc' = "identified" /\ ty' = "none" /\ UNCHANGED <<mode, kind, at, busy, flash>>
    BY <1>4 DEF PollTimeout, Goto, cardVars
  <2>2. TypeInv' /\ CallInv' /\ TruthInv' /\ StreamInv'
    BY <1>1, <2>1, IdentFrame DEF InitPcs, IInv, TypeInv
  <2>3. IdentInv'
    BY <2>1 DEF IdentInv
  <2> QED
    BY <2>2, <2>3 DEF IInv
<1> QED
  BY <1>3, <1>4

LEMMA StartedInv == IInv /\ Started => IInv'
<1> SUFFICES ASSUME IInv, Started PROVE IInv'
  OBVIOUS
<1>1. /\ pc = "started" /\ pc' = "identified"
      /\ UNCHANGED <<call, left, cmd, noInit, CardType, moved, broken, known, late>>
  BY DEF Started, Goto, historyVars
<1>2. PICK c \in {"CMD58", "CMD16"}, res \in Responses :
         /\ SendCmd(c, 0, res)
         /\ ty' = IF res = "ready" THEN IF cmd = "ACMD41HCS" THEN HighCapacity(kind) ELSE ty
                                   ELSE "none"
  BY DEF Started
<1>3. /\ mode \in {"ready"} \cup Down /\ (~broken => mode = "ready")
      /\ cmd # "ACMD41HCS" => ty \in {"SD1", "MMC"}
      /\ mode = "ready" => cmd = "ACMD41HCS" \/ kind # "SDHC"
  BY <1>1 DEF IInv, IdentInv
<1>4. /\ UNCHANGED <<kind, flash>> /\ mode' = mode /\ mode \in Modes /\ at' \in Nat
      /\ busy' \in BOOLEAN /\ (busy' => busy)
      /\ mode \in Down => res = "silent"
  BY <1>2, <1>3, PlainCommand DEF Transfers
<1>5. TypeInv' /\ CallInv' /\ TruthInv' /\ StreamInv'
  BY <1>1, <1>4, IdentFrame DEF InitPcs
<1>6. IdentInv'
  <2>1. ty' # "none" /\ mode' = "ready" => Fits(ty)'
    BY <1>2, <1>3, <1>4 DEF Fits, HighCapacity
  <2> QED
    BY <1>1, <1>3, <1>4, <2>1 DEF IdentInv
<1> QED
  BY <1>5, <1>6 DEF IInv

LEMMA IdentifiedInv == IInv /\ Identified => IInv'
<1> SUFFICES ASSUME IInv, Identified PROVE IInv'
  OBVIOUS
<1>1. /\ pc = "identified" /\ CardType' = ty /\ UNCHANGED <<mode, kind, at, busy, flash, late>>
      /\ pc' = "idle" /\ call' = None /\ left' = 0 /\ ty' = "none" /\ moved' = 0
      /\ broken' = FALSE
      /\ IF ty # "none" THEN noInit' = FALSE /\ known' = ~broken
                        ELSE noInit' = TRUE /\ known' = known
  BY DEF Identified, Finish, PowerOff, cardVars
<1>2. TypeInv'
  BY <1>1 DEF IInv, TypeInv, Pcs
<1>3. CallInv' /\ IdentInv'
  BY <1>1 DEF CallInv, IdentInv, InitPcs, XferPcs
<1>4. TruthInv'
  <2>1. CASE ty = "none"
    BY <1>1, <2>1 DEF TruthInv
  <2>2. CASE ty # "none"
    <3>1. mode \in {"ready"} \cup Down /\ (~broken => mode = "ready") /\ (mode = "ready" => Fits(ty))
      BY <1>1, <2>2 DEF IInv, IdentInv
    <3>2. Fits(ty) <=> Fits(CardType)'
      BY <1>1 DEF Fits
    <3> QED
      BY <1>1, <2>2, <3>1, <3>2 DEF TruthInv, Up, Down, Streams
  <2> QED
    BY <2>1, <2>2
<1>5. StreamInv'
  BY <1>1 DEF IInv, StreamInv, Streams, Down
<1> QED
  BY <1>2, <1>3, <1>4, <1>5 DEF IInv

-----------------------------------------------------------------------------
(* disk_read and disk_write.                                               *)

\* What is remembered stays true while a transfer takes an initialised card
\* through its modes.
LEMMA XferFrame ==
    ASSUME IInv, pc \in XferPcs, pc' \in {"sync", "query"} \cup XferPcs,
           UNCHANGED <<call, noInit, CardType, known, broken, kind>>,
           left' \in Nat, moved' \in Nat, at' \in Nat, busy' \in BOOLEAN, late' \in BOOLEAN,
           mode' \in Modes, flash' \in [Sectors -> Blocks],
           mode' = mode \/ (mode \in Up /\ mode' \in Up)
    PROVE  TypeInv' /\ IdentInv' /\ TruthInv'
<1>1. TypeInv'
  BY DEF IInv, TypeInv, Pcs, XferPcs
<1>2. IdentInv'
  BY DEF IdentInv, XferPcs
<1>3. TruthInv'
  <2>1. mode' \in Up <=> mode \in Up
    OBVIOUS
  <2>2. Fits(CardType)' <=> Fits(CardType)
    BY DEF Fits
  <2>3. mode = "idle" <=> mode' = "idle"
    BY DEF Up, Streams
  <2> QED
    BY <2>1, <2>2, <2>3 DEF IInv, TruthInv, InitPcs, XferPcs
<1> QED
  BY <1>1, <1>2, <1>3

LEMMA BeginInv == IInv /\ Begin => IInv'
<1> SUFFICES ASSUME IInv, Begin PROVE IInv'
  OBVIOUS
<1>1. /\ pc = "begin" /\ ~noInit /\ (call.op \in {"read", "write"} => left > 0)
      /\ pc' = call.op \/ (call.op = "write" /\ pc' = "acmd23")
      /\ UNCHANGED <<call, left, noInit, CardType, moved, broken, known, late>>
      /\ UNCHANGED <<mode, kind, at, busy, flash>>
  BY DEF Begin, Goto, cardVars, historyVars
<1>2. call.op \in {"read", "write", "sync", "query"}
  BY <1>1 DEF IInv, CallInv
<1>3. pc' \in {"read", "acmd23", "write", "sync", "query"}
  BY <1>1, <1>2
<1>4. TypeInv' /\ IdentInv' /\ TruthInv'
  BY <1>1, <1>3, XferFrame DEF XferPcs, IInv, TypeInv
<1>5. CallInv'
  BY <1>1, <1>2, <1>3 DEF IInv, CallInv, InitPcs, XferPcs
<1>6. StreamInv'
  BY <1>1, <1>3 DEF IInv, StreamInv, InitPcs
<1> QED
  BY <1>4, <1>5, <1>6 DEF IInv

LEMMA Cancel ==
    ASSUME NEW a \in Nat, NEW b \in Nat, NEW u \in Nat \ {0}, a * u = b * u
    PROVE  a = b
OBVIOUS

\* A card that is addressed in its own unit gets the sector that is meant.
LEMMA Addressed ==
    ASSUME Fits(CardType), NEW sector \in Sectors
    PROVE  Meant(Address(sector)) = {sector}
<1>1. CASE kind = "SDHC"
  BY <1>1 DEF Fits, Meant, Address
<1>2. CASE kind # "SDHC"
  <2>1. Address(sector) = sector * Unit
    BY <1>2 DEF Fits, Address
  <2>2. \A s \in Sectors : s * Unit = sector * Unit => s = sector
    BY Cancel, SizeAssumption DEF Sectors
  <2> QED
    BY <1>2, <2>1, <2>2 DEF Meant
<1> QED
  BY <1>1, <1>2

\* The command that begins a transfer.
LEMMA CommandInv == IInv /\ (ReadCmd \/ WriteCmd) => IInv'
<1> SUFFICES ASSUME IInv, ReadCmd \/ WriteCmd PROVE IInv'
  OBVIOUS
<1> DEFINE opc == IF pc = "read" THEN IF Single THEN "CMD17" ELSE "CMD18"
                                 ELSE IF Single THEN "CMD24" ELSE "CMD25"
           go  == IF pc = "read" THEN "rcvr" ELSE "xmit"
<1>1. PICK c \in Transfers, res \in Responses :
         /\ SendCmd(c, Address(call.sector), res)
         /\ c = opc /\ pc \in {"read", "write"}
         /\ Goto(IF res = "ready" THEN go ELSE "release")
  BY DEF ReadCmd, WriteCmd, Transfers
<1>2. /\ pc' = (IF res = "ready" THEN go ELSE "release")
      /\ UNCHANGED <<call, left, noInit, CardType, moved, broken, known, late>>
  BY <1>1 DEF ReadCmd, WriteCmd, Goto, historyVars
<1>3. /\ call.op = pc /\ moved = 0 /\ left > 0 /\ left = Len(call.data) /\ ~noInit
      /\ mode # "idle" /\ (mode \in Up => Fits(CardType)) /\ mode \in Modes
      /\ (mode \in Streams => mode = "write") /\ (broken => mode \in Down)
      /\ call.sector \in Sectors /\ left \in Nat
  BY <1>1 DEF IInv, CallInv, TruthInv, StreamInv, TypeInv, InitPcs, XferPcs
<1>4. Effect(c, Address(call.sector), res)
  BY <1>1, Sent DEF IInv, Transfers
<1>5. /\ UNCHANGED <<kind, flash>> /\ mode' \in Modes /\ at' \in Nat
      /\ busy' \in BOOLEAN /\ (busy' => busy)
  BY <1>4 DEF Effect
<1>6. \/ mode \in Down \cup {"write"} /\ mode' = mode /\ res = "silent"
      \/ mode = "ready" /\ mode' = "ready" /\ res # "ready"
      \/ mode = "ready" /\ mode' = Stream(c) /\ res = "ready" /\ at' = call.sector /\ ~busy'
  <2>1. CASE mode \in Down \cup {"write"}
    BY <1>4, <2>1 DEF Effect
  <2>2. CASE mode = "ready"
    <3>1. \/ mode' = "ready" /\ res # "ready"
          \/ /\ Meant(Address(call.sector)) # {} /\ res = "ready" /\ mode' = Stream(c)
             /\ at' = (CHOOSE s \in Meant(Address(call.sector)) : TRUE) /\ ~busy'
      BY <1>4, <2>2 DEF Effect
    <3>2. Meant(Address(call.sector)) = {call.sector}
      BY <1>3, <2>2, Addressed DEF Up
    <3> QED
      BY <2>2, <3>1, <3>2
  <2> QED
    BY <1>3, <2>1, <2>2 DEF Modes, Down
<1>7. Stream(c) = (IF pc = "read" THEN IF Single THEN "read1" ELSE "read"
                                  ELSE IF Single THEN "write1" ELSE "write")
  BY <1>1 DEF Stream
<1>8. TypeInv' /\ IdentInv' /\ TruthInv'
  <2>1. mode' = mode \/ (mode \in Up /\ mode' \in Up)
    BY <1>6, <1>7 DEF Up, Streams
  <2>2. pc \in XferPcs /\ pc' \in XferPcs
    BY <1>1, <1>2 DEF XferPcs
  <2> QED
    BY <1>2, <1>5, <2>1, <2>2, XferFrame DEF IInv, TypeInv
<1>9. CallInv'
  BY <1>1, <1>2, <1>3 DEF CallInv, InitPcs, XferPcs
<1>10. StreamInv'
  <2>1. CASE res # "ready"
    <3>1. pc' = "release" /\ mode' = mode
      BY <1>2, <1>6, <2>1
    <3> QED
      BY <1>1, <1>2, <1>5, <3>1 DEF IInv, StreamInv, InitPcs
  <2>2. CASE res = "ready"
    <3>1. pc' = go /\ mode = "ready" /\ mode' = Stream(c) /\ at' = call.sector /\ ~busy'
      BY <1>2, <1>6, <2>2
    <3>2. ~broken /\ ~late
      BY <1>3, <3>1 DEF IInv, StreamInv, Down
    <3>3. Aimed'
      BY <1>2, <1>3, <3>1, <3>2 DEF Aimed, Sectors
    <3>4. Single' = Single
      BY <1>2 DEF Single
    <3> QED
      BY <1>1, <1>2, <1>7, <3>1, <3>2, <3>3, <3>4 DEF StreamInv, Down
  <2> QED
    BY <2>1, <2>2
<1> QED
  BY <1>8, <1>9, <1>10 DEF IInv

LEMMA PreEraseInv == IInv /\ PreErase => IInv'
<1> SUFFICES ASSUME IInv, PreErase PROVE IInv'
  OBVIOUS
<1>1. PICK res \in Responses : SendCmd("ACMD23", 0, res)
  BY DEF PreErase
<1>2. /\ pc = "acmd23" /\ pc' = "write"
      /\ UNCHANGED <<call, left, noInit, CardType, moved, broken, known, late>>
  BY DEF PreErase, Goto, historyVars
<1>3. /\ mode # "idle" /\ mode \in Modes /\ (mode \in Streams => mode = "write")
  BY <1>2 DEF IInv, CallInv, TruthInv, StreamInv, TypeInv, InitPcs, XferPcs
<1>4. /\ UNCHANGED <<kind, flash>> /\ mode' = mode /\ at' \in Nat
      /\ busy' \in BOOLEAN /\ (busy' => busy)
  BY <1>1, <1>3, PlainCommand DEF Transfers, Modes, Down
<1>5. TypeInv' /\ IdentInv' /\ TruthInv'
  BY <1>2, <1>4, XferFrame DEF IInv, TypeInv, XferPcs
<1>6. CallInv'
  BY <1>2 DEF IInv, CallInv, InitPcs, XferPcs
<1>7. StreamInv'
  BY <1>2, <1>4 DEF IInv, StreamInv, InitPcs
<1> QED
  BY <1>5, <1>6, <1>7 DEF IInv

\* Where a transfer is before its next block.
BlockFacts(op, op1) ==
    /\ call.op = op /\ ~noInit /\ ~late /\ left \in Nat /\ left > 0
    /\ moved \in Nat /\ left + moved = Len(call.data)
    /\ \/ mode \in Down
       \/ mode = (IF Single THEN op1 ELSE op) /\ Aimed

LEMMA BeforeBlock ==
    ASSUME IInv
    PROVE  /\ pc \in {"rcvr", "block"} => BlockFacts("read", "read1")
           /\ pc = "xmit" => BlockFacts("write", "write1")
BY DEF IInv, CallInv, StreamInv, TypeInv, XferPcs, BlockFacts

Loop(op) == IF op = "read" THEN "rcvr" ELSE "xmit"

\* A block was moved, or was not, and the driver goes where AfterTransfer says.
LEMMA BlockInv ==
    ASSUME IInv, NEW op, NEW op1, NEW n \in {0, 1},
           \/ op = "read" /\ op1 = "read1" /\ pc \in {"rcvr", "block"}
           \/ op = "write" /\ op1 = "write1" /\ pc = "xmit",
           UNCHANGED <<call, noInit, CardType, known, broken, late, kind>>,
           left' = left - n, moved' = moved + n,
           \/ AfterBlock(n)
           \/ (mode \in Down \/ (n = 0 /\ busy)) /\ UNCHANGED <<mode, at>>,
           pc' = (IF Single THEN "release" ELSE IF n = 1 /\ left' > 0 THEN Loop(op) ELSE "stop"),
           busy' = busy \/ (op = "write" /\ busy' = TRUE /\ mode \notin Down),
           flash' \in [Sectors -> Blocks]
    PROVE  IInv'
<1>1. BlockFacts(op, op1)
  BY BeforeBlock
<1>2. /\ \/ op = "read" /\ op1 = "read1" /\ pc \in {"rcvr", "block"}
         \/ op = "write" /\ op1 = "write1" /\ pc = "xmit"
      /\ pc' = (IF Single THEN "release" ELSE IF n = 1 /\ left' > 0 THEN Loop(op) ELSE "stop")
  OBVIOUS
<1>3. at \in Nat /\ mode \in Modes /\ busy \in BOOLEAN
  BY DEF IInv, TypeInv
<1>4. at' \in Nat /\ (IF mode \in {"read1", "write1"} THEN mode' = "ready" \/ (mode' = mode /\ busy)
                                                ELSE mode' = mode /\ (mode \notin Down => at' = at + n))
  BY <1>3 DEF AfterBlock, Down, Streams
<1>5. /\ left' \in Nat /\ moved' \in Nat /\ left' + moved' = Len(call'.data)
      /\ call'.op = op /\ ~noInit' /\ ~late' /\ Single' = Single
      /\ left' = 0 => moved' = Len(call'.data)
  <2>1. left \in Nat /\ left > 0 /\ moved \in Nat /\ left + moved = Len(call.data)
    BY <1>1 DEF BlockFacts
  <2>2. left' \in Nat /\ moved' \in Nat /\ left' + moved' = left + moved
    BY <2>1
  <2>3. left' + moved' = Len(call'.data)
    BY <2>1, <2>2
  <2>4. call'.op = op /\ ~noInit' /\ ~late' /\ Single' = Single
    BY <1>1 DEF BlockFacts, Single
  <2> QED
    BY <2>2, <2>3, <2>4
<1>6. mode \in Down \/ (mode = (IF Single THEN op1 ELSE op) /\ Aimed)
  BY <1>1 DEF BlockFacts
<1>7. mode = op1 => mode' = "ready"
  BY <1>2, <1>4 DEF IInv, StreamInv
<1>8. /\ mode \in Down => mode' = mode
      /\ mode = op => mode' = mode /\ at' = at + n
  BY <1>2, <1>4 DEF Down
<1>9. mode' = mode \/ (mode \in Up /\ mode' \in Up)
  BY <1>2, <1>6, <1>7, <1>8 DEF Up, Streams
<1>10. mode' \in Modes
  BY <1>3, <1>9 DEF Up, Modes
<1>11. TypeInv' /\ IdentInv' /\ TruthInv'
  <2>1. pc \in XferPcs /\ pc' \in XferPcs /\ busy' \in BOOLEAN /\ late' \in BOOLEAN
    BY <1>2, <1>3, <1>5 DEF Loop, XferPcs, IInv, TypeInv
  <2> QED
    BY <1>4, <1>5, <1>9, <1>10, <2>1, XferFrame
<1>12. CallInv'
  BY <1>1, <1>2, <1>5 DEF CallInv, BlockFacts, Loop, InitPcs, XferPcs
<1>13. StreamInv'
  <2>1. /\ pc' # "stop" => pc' \in {"release", Loop(op)} /\ (pc' = Loop(op) => ~Single /\ n = 1)
        /\ pc' = "stop" => ~Single
        /\ pc' = "release" => Single
        /\ pc' \notin InitPcs \cup {"block"} /\ pc \notin InitPcs
        /\ (pc' = "rcvr" => op = "read") /\ (pc' = "xmit" => op = "write")
    BY <1>2 DEF Loop, InitPcs
  <2>2. (mode \in Down \cup {"read", "read1"} => ~busy) /\ (broken => mode \in Down)
    BY <2>1 DEF IInv, StreamInv
  <2>3. CASE mode \in Down
    <3>1. mode' \in Down /\ ~busy'
      BY <1>8, <2>2, <2>3
    <3>2. mode' \notin Streams
      BY <3>1 DEF Down, Streams
    <3> QED
      BY <1>5, <2>1, <3>1, <3>2 DEF StreamInv, Down
  <2>4. CASE Single /\ mode = op1 /\ Aimed
    <3>1. pc' = "release" /\ mode' = "ready" /\ ~broken'
      BY <1>2, <1>7, <2>4 DEF Aimed
    <3> QED
      BY <1>5, <3>1 DEF StreamInv, Streams, Down
  <2>5. CASE ~Single /\ mode = op /\ Aimed
    <3>1. pc' \in {Loop(op), "stop"} /\ mode' = op /\ ~broken'
      BY <1>2, <1>8, <2>5 DEF Aimed
    <3>2. at' = call'.sector + moved'
      <4>1. at = call.sector + moved /\ call.sector \in Nat /\ moved \in Nat /\ at' = at + n
        BY <1>1, <1>8, <2>5 DEF Aimed, BlockFacts, IInv, TypeInv, Sectors
      <4> QED
        BY <4>1
    <3>3. op = "read" => ~busy'
      BY <1>2, <2>2, <2>5
    <3> QED
      BY <1>2, <1>5, <2>1, <2>5, <3>1, <3>2, <3>3 DEF Loop, StreamInv, Aimed, Streams, Down
  <2> QED
    BY <1>6, <2>3, <2>4, <2>5
<1> QED
  BY <1>11, <1>12, <1>13 DEF IInv

\* The token of a block came from the card that is there.
LEMMA TokenInv == IInv /\ RcvrToken => IInv'
<1> SUFFICES ASSUME IInv, RcvrToken PROVE IInv'
  OBVIOUS
<1>1. /\ pc = "rcvr" /\ pc' = "block" /\ mode \notin Down /\ at \in Sectors
      /\ UNCHANGED <<call, left, noInit, CardType, moved, broken, known, late>>
      /\ UNCHANGED <<mode, kind, at, busy, flash>>
  BY DEF RcvrToken, Goto, cardVars, historyVars, Down
<1>2. TypeInv' /\ IdentInv' /\ TruthInv'
  BY <1>1, XferFrame DEF XferPcs, IInv, TypeInv
<1>3. CallInv'
  BY <1>1 DEF IInv, CallInv, InitPcs, XferPcs
<1>4. StreamInv'
  BY <1>1 DEF IInv, StreamInv, InitPcs, Aimed, Single
<1> QED
  BY <1>2, <1>3, <1>4 DEF IInv

LEMMA RcvrInv == IInv /\ (RcvrBlock \/ RcvrError) => IInv'
<1> SUFFICES ASSUME IInv, RcvrBlock \/ RcvrError PROVE IInv'
  OBVIOUS
<1>1. flash \in [Sectors -> Blocks] /\ left \in Nat /\ moved \in Nat /\ mode \in Modes /\ at \in Nat
  BY DEF IInv, TypeInv
<1>2. CASE RcvrBlock
  <2>1. /\ pc = "block" /\ left' = left - 1 /\ moved' = moved + 1
        /\ pc' = AfterTransfer(left' > 0)
        /\ UNCHANGED <<call, noInit, CardType, known, broken, late, kind, busy, flash>>
        /\ AfterBlock(1) \/ (mode \notin {"read1", "read"} /\ AfterBlock(0))
    BY <1>2 DEF RcvrBlock, Goto
  <2>2. BlockFacts("read", "read1")
    BY <2>1, BeforeBlock
  <2>3. pc' = (IF Single THEN "release" ELSE IF 1 = 1 /\ left' > 0 THEN Loop("read") ELSE "stop")
    BY <2>1, <2>2 DEF AfterTransfer, Loop, BlockFacts
  <2>4. AfterBlock(1) \/ (mode \in Down /\ UNCHANGED <<mode, at>>)
    BY <1>1, <2>1, <2>2 DEF AfterBlock, BlockFacts, Down
  <2> QED
    BY <1>1, <2>1, <2>3, <2>4, BlockInv
<1>3. CASE RcvrError
  <2>1. /\ pc = "rcvr" /\ left' = left - 0 /\ moved' = moved + 0 /\ AfterBlock(0)
        /\ pc' = (IF Single THEN "release" ELSE IF 0 = 1 /\ left' > 0 THEN Loop("read") ELSE "stop")
        /\ UNCHANGED <<call, noInit, CardType, known, broken, late, kind, busy, flash>>
    BY <1>1, <1>3 DEF RcvrError, Goto, AfterTransfer, historyVars
  <2> QED
    BY <1>1, <2>1, BlockInv
<1> QED
  BY <1>2, <1>3

LEMMA XmitInv == IInv /\ (XmitBlock \/ XmitRejected \/ XmitFails) => IInv'
<1> SUFFICES ASSUME IInv, XmitBlock \/ XmitRejected \/ XmitFails PROVE IInv'
  OBVIOUS
<1>1. /\ flash \in [Sectors -> Blocks] /\ left \in Nat /\ moved \in Nat /\ Blank \in Blocks
      /\ mode \in Modes
  BY DEF IInv, TypeInv, Blocks
<1>2. CASE XmitBlock
  <2>1. /\ pc = "xmit" /\ left' = left - 1 /\ moved' = moved + 1 /\ mode \notin Down
        /\ AfterBlock(1) /\ pc' = AfterTransfer(left' > 0) /\ busy' = TRUE
        /\ flash' = [flash EXCEPT ![at] = NextBlock]
        /\ UNCHANGED <<call, noInit, CardType, known, broken, late, kind>>
    BY <1>2 DEF XmitBlock, Goto, Down
  <2>2. NextBlock \in Blocks
    <3>1. BlockFacts("write", "write1") /\ call.data \in Seq(Blocks)
      BY <2>1, BeforeBlock DEF IInv, TypeInv
    <3>2. Len(call.data) - left + 1 \in 1 .. Len(call.data)
      BY <3>1 DEF BlockFacts
    <3> QED
      BY <3>1, <3>2 DEF NextBlock
  <2>3. flash' \in [Sectors -> Blocks]
    BY <1>1, <2>1, <2>2
  <2>4. pc' = (IF Single THEN "release" ELSE IF 1 = 1 /\ left' > 0 THEN Loop("write") ELSE "stop")
    BY <2>1, BeforeBlock DEF AfterTransfer, Loop, BlockFacts
  <2> QED
    BY <1>1, <2>1, <2>3, <2>4, BlockInv
<1>3. CASE XmitRejected
  <2>1. /\ pc = "xmit" /\ left' = left - 0 /\ moved' = moved + 0 /\ mode \notin Down
        /\ AfterBlock(0) /\ pc' = (IF Single THEN "release" ELSE IF 0 = 1 /\ left' > 0 THEN Loop("write") ELSE "stop") /\ busy' = TRUE
        /\ UNCHANGED <<call, noInit, CardType, known, broken, late, kind>>
    BY <1>1, <1>3 DEF XmitRejected, Goto, AfterTransfer, historyVars, Down
  <2>2. flash' \in [Sectors -> Blocks]
    BY <1>1, <1>3 DEF XmitRejected
  <2> QED
    BY <1>1, <2>1, <2>2, BlockInv
<1>4. CASE XmitFails
  <2>1. /\ pc = "xmit" /\ left' = left - 0 /\ moved' = moved + 0
        /\ busy \/ mode \notin {"write1", "write"}
        /\ pc' = (IF Single THEN "release" ELSE IF 0 = 1 /\ left' > 0 THEN Loop("write") ELSE "stop")
        /\ UNCHANGED <<call, noInit, CardType, known, broken, late, mode, kind, at, busy, flash>>
    BY <1>1, <1>4 DEF XmitFails, Goto, AfterTransfer, historyVars, cardVars
  <2>2. busy \/ mode \in Down
    BY <2>1, BeforeBlock DEF BlockFacts
  <2> QED
    BY <1>1, <2>1, <2>2, BlockInv
<1> QED
  BY <1>2, <1>3, <1>4

\* The end of a transfer of several blocks.
LEMMA StopInv == IInv /\ (ReadStop \/ WriteStop \/ WriteStopFails) => IInv'
<1> SUFFICES ASSUME IInv, ReadStop \/ WriteStop \/ WriteStopFails PROVE IInv'
  OBVIOUS
<1>1. /\ pc = "stop" /\ pc' = "release" /\ UNCHANGED <<call, noInit, CardType, moved, broken, known>>
  BY DEF ReadStop, WriteStop, WriteStopFails, Goto, historyVars
<1>2. /\ call.op \in {"read", "write"} /\ left \in Nat /\ moved \in Nat /\ left + moved = Len(call.data)
      /\ ~noInit /\ mode \in Down \cup {call.op} /\ ~late /\ (mode \in Down \cup {"read"} => ~busy)
      /\ (broken => mode \in Down) /\ mode \in Modes
  BY <1>1 DEF IInv, CallInv, StreamInv, TypeInv, XferPcs, InitPcs
<1>3. CASE ReadStop \/ WriteStop
  <2>1. UNCHANGED <<left, late>>
    BY <1>3 DEF ReadStop, WriteStop, historyVars
  <2>2. /\ UNCHANGED <<kind, flash>> /\ at' \in Nat /\ busy' \in BOOLEAN /\ (busy' => busy)
        /\ IF mode \in Down THEN mode' = mode ELSE mode' = "ready"
    <3>1. CASE ReadStop
      <4>1. PICK res \in Responses : SendCmd("CMD12", 0, res)
        BY <3>1 DEF ReadStop
      <4>2. Effect("CMD12", 0, res) /\ call.op = "read"
        BY <3>1, <4>1, Sent DEF IInv, ReadStop
      <4> QED
        BY <1>2, <4>2 DEF Effect, Down
    <3>2. CASE WriteStop
      BY <1>2, <3>2 DEF WriteStop, StopToken, Down, IInv, TypeInv
    <3> QED
      BY <1>3, <3>1, <3>2
  <2>3. TypeInv' /\ IdentInv' /\ TruthInv'
    <3>1. mode' = mode \/ (mode \in Up /\ mode' \in Up)
      BY <1>2, <2>2 DEF Up, Streams
    <3> QED
      BY <1>1, <2>1, <2>2, <3>1, XferFrame DEF XferPcs, IInv, TypeInv, Up, Modes
  <2>4. CallInv'
    BY <1>1, <1>2, <2>1 DEF CallInv, InitPcs, XferPcs
  <2>5. StreamInv'
    BY <1>1, <1>2, <2>1, <2>2 DEF StreamInv, Streams, Down
  <2> QED
    BY <2>3, <2>4, <2>5 DEF IInv
<1>4. CASE WriteStopFails
  <2>1. left' = 1 /\ late' = TRUE /\ busy /\ call.op = "write"
        /\ UNCHANGED <<mode, kind, at, busy, flash>>
    BY <1>4 DEF WriteStopFails, cardVars
  <2>2. TypeInv' /\ IdentInv' /\ TruthInv'
    BY <1>1, <2>1, XferFrame DEF XferPcs, IInv, TypeInv
  <2>3. CallInv'
    BY <1>1, <1>2, <2>1 DEF CallInv, InitPcs, XferPcs
  <2>4. StreamInv'
    BY <1>1, <1>2, <2>1 DEF StreamInv, Streams, Down
  <2> QED
    BY <2>2, <2>3, <2>4 DEF IInv
<1> QED
  BY <1>3, <1>4

-----------------------------------------------------------------------------
(* The slot.                                                               *)

LEMMA SlotInv == IInv /\ (Remove \/ Insert) => IInv'
<1> SUFFICES ASSUME IInv, Remove \/ Insert PROVE IInv'
  OBVIOUS
<1>1. /\ UNCHANGED <<pc, call, left, ty, cmd, noInit, CardType, moved>> /\ broken' = (call # None)
      /\ mode' \in Down /\ known' \in BOOLEAN /\ at' \in Nat /\ busy' = FALSE /\ late' = FALSE
      /\ (known' => known /\ mode = "out") /\ flash' \in [Sectors -> Blocks]
  <2>1. CASE Remove
    <3>1. PICK lost \in [writing -> Blocks] :
             flash' = [s \in Sectors |-> IF s \in writing THEN lost[s] ELSE flash[s]]
      BY <2>1 DEF Remove
    <3>2. flash' \in [Sectors -> Blocks]
      BY <3>1 DEF IInv, TypeInv
    <3> QED
      BY <2>1, <3>2 DEF Remove, driverVars, IInv, TypeInv, Down
  <2>2. CASE Insert
    <3>1. [s \in Sectors |-> Blank] \in [Sectors -> Blocks]
      BY DEF Blocks
    <3>2. flash' \in [Sectors -> Blocks]
      BY <2>2, <3>1 DEF Insert, IInv, TypeInv
    <3>3. late = FALSE /\ busy = FALSE
      BY <2>2 DEF Insert, IInv, TypeInv, StreamInv, Down
    <3> QED
      BY <2>2, <3>2, <3>3 DEF Insert, driverVars, IInv, TypeInv, Down
  <2> QED
    BY <2>1, <2>2
<1>2. TypeInv'
  <2>1. busy' \in BOOLEAN /\ late' \in BOOLEAN /\ mode' \in Modes
    BY <1>1 DEF Modes, Down
  <2>2. broken' \in BOOLEAN
    BY <1>1
  <2> QED
    BY <1>1, <2>1, <2>2 DEF IInv, TypeInv
<1>3. CallInv'
  BY <1>1 DEF IInv, CallInv, TypeInv
<1>4. IdentInv'
  BY <1>1 DEF IInv, IdentInv, TypeInv, Down
<1>5. TruthInv'
  <2>1. mode' \notin Up /\ mode' # "idle"
    BY <1>1 DEF Up, Down, Streams
  <2> QED
    BY <1>1, <2>1 DEF IInv, TruthInv, Up, Streams
<1>6. StreamInv'
  <2>1. pc' = "block" => broken'
    BY <1>1 DEF IInv, TypeInv
  <2>2. pc' = "block" => call'.sector + moved' \in Sectors
    BY <1>1 DEF IInv, StreamInv
  <2> QED
    BY <1>1, <2>1, <2>2 DEF StreamInv, Streams, Down
<1> QED
  BY <1>2, <1>3, <1>4, <1>5, <1>6 DEF IInv

LEMMA StutterInv == IInv /\ UNCHANGED vars => IInv'
<1> SUFFICES ASSUME IInv, UNCHANGED vars PROVE IInv'
  OBVIOUS
<1> USE DEF vars, driverVars, cardVars, historyVars
<1>1. TypeInv' /\ CallInv'
  BY DEF IInv, TypeInv, CallInv
<1>2. IdentInv' /\ TruthInv' /\ StreamInv'
  BY DEF IInv, IdentInv, TruthInv, Fits, StreamInv, Aimed, Single
<1> QED
  BY <1>1, <1>2 DEF IInv

LEMMA StepInv == IInv /\ [Next]_vars => IInv'
BY CallsInv, ReturnsInv, FirstCommandInv, DetectInv, PollInv, StartedInv, IdentifiedInv,
   BeginInv, CommandInv, PreEraseInv, TokenInv, RcvrInv, XmitInv, StopInv, SlotInv, StutterInv
   DEF Next, Driver

\* What a command does to what the card has still to write, and that it brings
\* no card into the slot.
LEMMA SendFrame ==
    ASSUME TypeInv, NEW c, NEW arg, NEW res, SendCmd(c, arg, res)
    PROVE  /\ flash' = flash /\ (mode' = "out" <=> mode = "out")
           /\ writing' = {} \/ UNCHANGED <<busy, writing>>
<1>1. flash' = flash /\ (writing' = {} \/ UNCHANGED <<busy, writing>>)
  BY DEF SendCmd, cardVars
<1>2. CASE c = "CMD0"
  <2>1. UNCHANGED mode \/ \E a \in Answers(c, arg) : mode' = a[2]
    BY DEF SendCmd, cardVars
  <2> QED
    BY <1>1, <1>2, <2>1, ResetAnswered
<1>3. CASE c # "CMD0"
  <2>1. Effect(c, arg, res) /\ mode \in Modes
    BY <1>3, Sent DEF TypeInv
  <2>2. mode = "out" => mode' = "out"
    BY <2>1 DEF Effect, Down
  <2>3. mode = "native" => mode' = "native"
    BY <2>1 DEF Effect, Down
  <2>4. mode \in {"write", "write1", "read", "read1"} => mode' \in {mode, "ready"}
    BY <2>1 DEF Effect
  <2>5. mode = "idle" => mode' \in {"idle", "ready"}
    BY <2>1 DEF Effect
  <2>6. mode = "ready" => mode' \in {"ready", Stream(c)}
    BY <2>1 DEF Effect
  <2>7. Stream(c) # "out"
    BY DEF Stream
  <2> QED
    BY <1>1, <2>1, <2>2, <2>3, <2>4, <2>5, <2>6, <2>7 DEF Modes, Streams
<1> QED
  BY <1>2, <1>3

LEMMA MediumStep == IInv /\ MediumInv /\ [Next]_vars => MediumInv'
<1> SUFFICES ASSUME IInv, MediumInv, [Next]_vars PROVE MediumInv'
  OBVIOUS
<1>1. CASE Calls \/ UNCHANGED vars
  <2>1. /\ UNCHANGED <<writing, busy, torn, broken>> /\ (pc' = "block" => pc = "block")
    BY <1>1 DEF Calls, CallInitialize, CallRead, CallWrite, CallSync, CallQuery, CallPower, Start,
                cardVars, historyVars, vars, driverVars
  <2> QED
    BY <2>1 DEF MediumInv
<1>2. CASE Remove \/ Insert
  <2>1. /\ writing' = {} \/ UNCHANGED <<busy, writing>>
        /\ UNCHANGED <<pc, torn>> /\ broken' = (call # None)
    BY <1>2 DEF Remove, Insert, driverVars
  <2>2. torn => call # None
    BY DEF MediumInv, IInv, CallInv, TypeInv
  <2> QED
    BY <2>1, <2>2 DEF MediumInv
<1>3. CASE Identified \/ Refused \/ Release \/ Sync \/ Query \/ Power
  <2>1. \E r : Finish(r)
    BY <1>3 DEF Identified, Refused, Release, Sync, Query, Power
  <2>2. pc' = "idle" /\ torn' = FALSE
    BY <2>1 DEF Finish
  <2>3. writing' = {} \/ UNCHANGED <<busy, writing>>
    BY <1>3, SendFrame DEF Identified, Refused, Release, Sync, Query, Power, cardVars, IInv
  <2> QED
    BY <2>2, <2>3 DEF MediumInv
<1>4. CASE Cmd0 \/ Cmd8 \/ Acmd41 \/ Poll \/ PollTimeout \/ Started
  <2>1. UNCHANGED <<torn, broken>> /\ pc' # "block"
    BY <1>4 DEF Cmd0, Cmd8, Acmd41, Poll, PollTimeout, Started, Goto, historyVars
  <2>2. writing' = {} \/ UNCHANGED <<busy, writing>>
    BY <1>4, SendFrame DEF Cmd0, Cmd8, Acmd41, Poll, PollTimeout, Started, cardVars, IInv
  <2> QED
    BY <2>1, <2>2 DEF MediumInv
<1>5. CASE Begin \/ ReadCmd \/ ReadStop \/ PreErase \/ WriteCmd
  <2>1. UNCHANGED <<torn, broken>> /\ pc' # "block"
    BY <1>5 DEF Begin, ReadCmd, ReadStop, PreErase, WriteCmd, Goto, historyVars, IInv, CallInv
  <2>2. writing' = {} \/ UNCHANGED <<busy, writing>>
    BY <1>5, SendFrame DEF Begin, ReadCmd, ReadStop, PreErase, WriteCmd, cardVars, IInv
  <2> QED
    BY <2>1, <2>2 DEF MediumInv
<1>6. CASE RcvrToken
  <2>1. ~broken
    BY <1>6 DEF RcvrToken, IInv, StreamInv, Down, InitPcs
  <2> QED
    BY <1>6, <2>1 DEF RcvrToken, cardVars, historyVars, MediumInv
<1>7. CASE RcvrBlock
  <2>1. pc = "block" /\ pc' # "block" /\ UNCHANGED <<busy, writing, broken>>
    BY <1>7 DEF RcvrBlock, Goto, AfterTransfer
  <2>2. torn' = torn \/ (torn' = TRUE /\ mode \notin {"read1", "read"})
    BY <1>7 DEF RcvrBlock
  <2>3. mode \notin {"read1", "read"} => broken
    BY <2>1, BeforeBlock DEF BlockFacts, IInv, StreamInv
  <2>4. torn' \in BOOLEAN /\ (torn' => broken')
    <3>1. CASE torn' = torn
      BY <2>1, <3>1 DEF MediumInv
    <3>2. CASE torn' = TRUE /\ mode \notin {"read1", "read"}
      BY <2>1, <2>3, <3>2
    <3> QED
      BY <2>2, <3>1, <3>2
  <2> QED
    BY <2>1, <2>4 DEF MediumInv
<1>8. CASE RcvrError \/ XmitFails \/ WriteStop \/ WriteStopFails
  <2>1. UNCHANGED <<writing, busy, torn, broken>> /\ pc' # "block"
    BY <1>8 DEF RcvrError, XmitFails, WriteStop, WriteStopFails, Goto, AfterTransfer, cardVars, historyVars
  <2> QED
    BY <2>1 DEF MediumInv
<1>9. CASE XmitBlock \/ XmitRejected
  <2>1. UNCHANGED <<torn, broken>> /\ busy' = TRUE /\ pc' # "block"
    BY <1>9 DEF XmitBlock, XmitRejected, Goto, AfterTransfer, historyVars
  <2> QED
    BY <2>1 DEF MediumInv
<1> QED
  BY <1>1, <1>2, <1>3, <1>4, <1>5, <1>6, <1>7, <1>8, <1>9 DEF Next, Driver

LEMMA Invariance == Spec => [](IInv /\ MediumInv)
<1>1. Init => MediumInv
  BY DEF Init, MediumInv
<1> QED
  BY <1>1, InitInv, StepInv, MediumStep, PTL DEF Spec

-----------------------------------------------------------------------------
(* The steps of a block device.                                            *)

\* What the block device does not see, but for a card that has written.
Unseen ==
    /\ UNCHANGED <<flash, call, moved, buff, broken, torn, reply>>
    /\ mode' = "out" <=> mode = "out"
    /\ writing' \in {writing, {}}

LEMMA UnseenStep == IInv /\
    (\/ Cmd0 \/ Cmd8 \/ Acmd41 \/ Poll \/ PollTimeout \/ Started \/ Begin \/ ReadCmd \/ RcvrToken
     \/ RcvrError \/ ReadStop \/ PreErase \/ WriteCmd \/ XmitFails \/ WriteStop \/ WriteStopFails)
    => Unseen
<1> SUFFICES ASSUME IInv PROVE
    (\/ Cmd0 \/ Cmd8 \/ Acmd41 \/ Poll \/ PollTimeout \/ Started \/ Begin \/ ReadCmd \/ RcvrToken
     \/ RcvrError \/ ReadStop \/ PreErase \/ WriteCmd \/ XmitFails \/ WriteStop \/ WriteStopFails)
    => Unseen
  OBVIOUS
<1> DEFINE CardFrame == flash' = flash /\ (mode' = "out" <=> mode = "out") /\ writing' \in {writing, {}}
<1>1. ASSUME NEW c, NEW arg, NEW res, SendCmd(c, arg, res) PROVE CardFrame
  BY <1>1, SendFrame DEF IInv
<1>2. UNCHANGED cardVars => CardFrame
  BY DEF cardVars
<1>3. Cmd0 \/ Cmd8 \/ Acmd41 \/ Poll \/ PollTimeout \/ Started => Unseen
  <2> SUFFICES ASSUME Cmd0 \/ Cmd8 \/ Acmd41 \/ Poll \/ PollTimeout \/ Started PROVE Unseen
    OBVIOUS
  <2>1. CardFrame
    BY <1>1, <1>2 DEF Cmd0, Cmd8, Acmd41, Poll, PollTimeout, Started
  <2>2. UNCHANGED <<call, moved, buff, broken, torn, reply>>
    BY DEF Cmd0, Cmd8, Acmd41, Poll, PollTimeout, Started, Goto, historyVars
  <2> QED
    BY <2>1, <2>2 DEF Unseen
<1>4. Begin \/ ReadCmd \/ RcvrToken \/ ReadStop \/ PreErase \/ WriteCmd => Unseen
  <2> SUFFICES ASSUME Begin \/ ReadCmd \/ RcvrToken \/ ReadStop \/ PreErase \/ WriteCmd PROVE Unseen
    OBVIOUS
  <2>1. CardFrame
    BY <1>1, <1>2 DEF Begin, ReadCmd, RcvrToken, ReadStop, PreErase, WriteCmd
  <2>2. UNCHANGED <<call, moved, buff, broken, torn, reply>>
    BY DEF Begin, ReadCmd, RcvrToken, ReadStop, PreErase, WriteCmd, Goto, historyVars
  <2> QED
    BY <2>1, <2>2 DEF Unseen
<1>5. RcvrError \/ XmitFails \/ WriteStop \/ WriteStopFails => Unseen
  <2> SUFFICES ASSUME RcvrError \/ XmitFails \/ WriteStop \/ WriteStopFails PROVE Unseen
    OBVIOUS
  <2>1. UNCHANGED <<flash, writing, call, moved, buff, broken, torn, reply>>
    BY DEF RcvrError, XmitFails, WriteStop, WriteStopFails, Goto, historyVars, cardVars
  <2>2. mode' = "out" <=> mode = "out"
    BY DEF RcvrError, XmitFails, WriteStop, WriteStopFails, AfterBlock, StopToken, cardVars
  <2> QED
    BY <2>1, <2>2 DEF Unseen
<1> QED
  BY <1>3, <1>4, <1>5

LEMMA ReturnStep == IInv /\ (Identified \/ Refused \/ Release \/ Sync \/ Query \/ Power) => Device!Return
<1> SUFFICES ASSUME IInv, Identified \/ Refused \/ Release \/ Sync \/ Query \/ Power
             PROVE  Device!Return
  OBVIOUS
<1>1. /\ pc \in {"identified", "begin", "release", "sync", "query", "power"}
      /\ \E r \in {"ok", "error"} : Finish(r) /\ (r = "ok" => pc # "begin")
      /\ flash' = flash /\ (mode' = "out" <=> mode = "out") /\ writing' \in {writing, {}}
      /\ pc = "release" /\ reply' = "ok" => left = 0
      /\ pc = "sync" /\ reply' = "ok" => writing' = {}
  <2>1. CASE Identified
    BY <2>1 DEF Identified, cardVars
  <2>2. CASE Refused
    BY <2>2 DEF Refused, cardVars
  <2>3. CASE Release
    BY <2>3 DEF Release, cardVars, Finish
  <2>4. CASE Sync
    BY <2>4 DEF Sync, Finish
  <2>5. CASE Query
    BY <2>5, SendFrame DEF Query, cardVars, IInv
  <2>6. CASE Power
    BY <2>6 DEF Power, cardVars
  <2> QED
    BY <2>1, <2>2, <2>3, <2>4, <2>5, <2>6
<1>2. call # None
  BY <1>1 DEF IInv, TypeInv
<1>3. /\ call' = None /\ moved' = 0 /\ buff' = <<>> /\ broken' = FALSE /\ torn' = FALSE
      /\ reply' \in {"ok", "error"} /\ (reply' = "ok" => pc # "begin")
  BY <1>1 DEF Finish
<1>4. reply' = "ok" => moved = Len(call.data)
  BY <1>1, <1>3 DEF IInv, CallInv, InitPcs, XferPcs
<1>5. reply' = "ok" /\ call.op = "sync" => writing' = {}
  BY <1>1, <1>3 DEF IInv, CallInv, InitPcs
<1> QED
  BY <1>1, <1>2, <1>3, <1>4, <1>5 DEF Device!Return

LEMMA RcvrStep == IInv /\ MediumInv /\ RcvrBlock => Device!Fetch \/ Device!Garble
<1> SUFFICES ASSUME IInv, MediumInv, RcvrBlock PROVE Device!Fetch \/ Device!Garble
  OBVIOUS
<1>1. /\ pc = "block" /\ moved' = moved + 1 /\ (mode' = "out" <=> mode = "out")
      /\ UNCHANGED <<flash, writing, call, broken, reply>>
  BY DEF RcvrBlock, Goto, AfterBlock
<1>2. BlockFacts("read", "read1") /\ call # None
  BY <1>1, BeforeBlock DEF IInv, TypeInv
<1>3. Device!Unfinished("read")
  BY <1>1, <1>2 DEF BlockFacts, IInv, StreamInv, Device!Unfinished, Device!NextSector
<1>4. CASE mode \in {"read1", "read"}
  <2>1. Aimed /\ at = Device!NextSector
    BY <1>2, <1>4 DEF BlockFacts, Down, Aimed, Device!NextSector
  <2>2. buff' = Append(buff, flash[at]) /\ UNCHANGED torn
    BY <1>4 DEF RcvrBlock
  <2> QED
    BY <1>1, <1>3, <2>1, <2>2 DEF Device!Fetch, Aimed
<1>5. CASE mode \notin {"read1", "read"}
  <2>1. broken /\ ~torn
    BY <1>1, <1>2, <1>5 DEF BlockFacts, IInv, StreamInv, MediumInv
  <2>2. (\E b \in Blocks : buff' = Append(buff, b)) /\ torn' = TRUE
    BY <1>5 DEF RcvrBlock
  <2> QED
    BY <1>1, <1>3, <2>1, <2>2 DEF Device!Garble
<1> QED
  BY <1>4, <1>5

LEMMA XmitStep == IInv /\ (XmitBlock \/ XmitRejected) => Device!Store \/ Device!Spoil \/ Unseen
<1> SUFFICES ASSUME IInv, XmitBlock \/ XmitRejected PROVE Device!Store \/ Device!Spoil \/ Unseen
  OBVIOUS
<1>1. /\ pc = "xmit" /\ mode \in {"write1", "write"} /\ UNCHANGED <<call, buff, broken, torn, reply>>
      /\ (mode' = "out" <=> mode = "out")
  BY DEF XmitBlock, XmitRejected, Goto, AfterBlock, historyVars
<1>2. BlockFacts("write", "write1") /\ call # None
  BY <1>1, BeforeBlock DEF IInv, TypeInv
<1>3. Aimed
  BY <1>1, <1>2 DEF BlockFacts, Down
<1>4. moved < Len(call.data) /\ Len(call.data) - left + 1 = moved + 1
  BY <1>2 DEF BlockFacts
<1>5. at \in Sectors => Device!Unfinished("write") /\ Device!NextSector = at /\ ~broken
  BY <1>2, <1>3, <1>4 DEF Device!Unfinished, Device!NextSector, Aimed, BlockFacts
<1>6. CASE XmitBlock
  BY <1>1, <1>4, <1>5, <1>6 DEF XmitBlock, NextBlock, Device!Store
<1>7. CASE XmitRejected
  <2>1. moved' = moved /\ writing' = writing \union ({at} \intersect Sectors)
    BY <1>7 DEF XmitRejected, historyVars
  <2>2. CASE at \in Sectors
    <3>1. \E b \in Blocks : flash' = [flash EXCEPT ![at] = b]
      <4>1. flash = [flash EXCEPT ![at] = flash[at]] /\ flash[at] \in Blocks /\ Blank \in Blocks
        BY <2>2 DEF IInv, TypeInv, Blocks
      <4> QED
        BY <1>7, <2>2, <4>1 DEF XmitRejected
    <3>2. writing' = writing \union {at}
      BY <2>1, <2>2
    <3> QED
      BY <1>1, <1>5, <2>1, <2>2, <3>1, <3>2 DEF Device!Spoil, Device!callVars
  <2>3. CASE at \notin Sectors
    <3>1. writing' = writing
      BY <2>1, <2>3
    <3> QED
      BY <1>1, <1>7, <2>1, <2>3, <3>1 DEF XmitRejected, Unseen
  <2> QED
    BY <2>2, <2>3
<1> QED
  BY <1>6, <1>7

LEMMA DeviceStep == IInv /\ MediumInv /\ [Next]_vars => [Device!Next]_(Device!vars)
<1> SUFFICES ASSUME IInv, MediumInv, [Next]_vars PROVE [Device!Next]_(Device!vars)
  OBVIOUS
<1>1. Unseen => [Device!Next]_(Device!vars)
  <2>1. Unseen /\ writing' = writing => UNCHANGED Device!vars
    BY DEF Unseen, Device!vars, Device!callVars
  <2>2. Unseen /\ writing' = {} => Device!Settle
    BY DEF Unseen, Device!Settle, Device!callVars
  <2> QED
    BY <2>1, <2>2 DEF Unseen, Device!Next
<1>2. CASE Calls
  <2>1. pc = "idle" /\ pc' # "idle" /\ UNCHANGED <<cardVars, historyVars, buff, reply>>
    BY <1>2 DEF Calls, CallInitialize, CallRead, CallWrite, CallSync, CallQuery, CallPower, Start
  <2>2. call = None /\ call' # None
    BY <1>2, <2>1, CallsInv DEF IInv, TypeInv
  <2> QED
    BY <2>1, <2>2 DEF Device!Next, Device!Call, cardVars, historyVars
<1>3. CASE Driver
  BY <1>1, <1>3, UnseenStep, ReturnStep, RcvrStep, XmitStep DEF Driver, Device!Next
<1>4. CASE Remove
  <2>1. /\ broken' = (call # None) /\ UNCHANGED <<call, moved, buff, torn, reply>>
        /\ mode # "out" /\ mode' = "out" /\ writing' = {}
    BY <1>4 DEF Remove, driverVars
  <2>2. flash' \in [Sectors -> Blocks]
    BY <1>4, SlotInv DEF IInv, TypeInv
  <2>3. \A s \in Sectors \ writing : flash'[s] = flash[s]
    BY <1>4 DEF Remove
  <2> QED
    BY <2>1, <2>2, <2>3 DEF Device!Next, Device!Pull
<1>5. CASE Insert
  <2>1. /\ broken' = (call # None) /\ UNCHANGED <<writing, call, moved, buff, torn, reply>>
        /\ mode = "out" /\ mode' = "native"
    BY <1>5 DEF Insert, driverVars
  <2>2. flash' \in [Sectors -> Blocks]
    BY <1>5, SlotInv DEF IInv, TypeInv
  <2> QED
    BY <2>1, <2>2 DEF Device!Next, Device!Put
<1>6. CASE UNCHANGED vars
  BY <1>1, <1>6 DEF vars, driverVars, cardVars, historyVars, Unseen
<1> QED
  BY <1>2, <1>3, <1>4, <1>5, <1>6 DEF Next

-----------------------------------------------------------------------------
(* The theorems.                                                           *)

\* disk_read and disk_write: success means that every block moved between the
\* buffer and the sector it was meant for, but for the last one when the card is
\* taken out inside it (rcvr_datablock discards the CRC), and nothing else on the
\* card changes; disk_ioctl: what CTRL_SYNC has acknowledged survives taking the
\* card out at any moment.
THEOREM KeepsTheDevicePromise == Spec => IsBlockDevice
<1>1. Init => Device!Init
  <2>1. [s \in Sectors |-> Blank] \in [Sectors -> Blocks]
    BY DEF Blocks
  <2> QED
    BY <2>1 DEF Init, Device!Init
<1> QED
  BY <1>1, Invariance, DeviceStep, PTL DEF Spec, IsBlockDevice, Device!Spec

\* disk_initialize, and the calls after it: Stat and CardType are true of a card
\* that has not been changed since.
THEOREM RemembersTheTruth == Spec => []InitialisedIsTrue
<1>1. IInv => InitialisedIsTrue
  BY DEF IInv, TruthInv, InitialisedIsTrue, InitPcs, Up, Streams, Fits
<1> QED
  BY <1>1, Invariance, PTL

\* The CMD12 and stop token paths: every transfer is stopped before its call
\* returns, whichever step failed.
THEOREM NoCardLeftInTransfer == Spec => []TransfersStopped
<1>1. IInv => TransfersStopped
  BY DEF IInv, StreamInv, TransfersStopped
<1> QED
  BY <1>1, Invariance, PTL

=============================================================================
