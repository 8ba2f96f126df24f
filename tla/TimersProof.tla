--------------------------- MODULE TimersProof ---------------------------
(***************************************************************************)
(* Proofs about what runs on the two timers: the DAC player alone, then    *)
(* the processor that serves both timers, for every ring size, number of   *)
(* samples, inputs and edges; and delay_us, late by what interrupts take   *)
(* and hide and long enough if no wrap is near, for every width of the     *)
(* counter, delay and length of interrupts.                                *)
(***************************************************************************)
EXTENDS TimerIrqs, Timer1, SequenceTheorems, TLAPS

USE SizeAssumption, SamplesAssumption, OrderAssumption

\* The wrapped successor of a slot is a slot.
LEMMA NextSlot ==
    ASSUME NEW i \in Slots
    PROVE  NextIndex(i, Size) \in Slots
BY DEF NextIndex, Slots

\* The sample in hand is not counted until its index is stored.
InHand == \/ pc \in {"spin", "advance"}
          \/ pc = "store" /\ StoresInOrder

CountInv == data = added + IF InHand THEN 1 ELSE 0

TypeInv == TypeOK /\ CountInv

\* Every step keeps the types and the count.
LEMMA TypeInvStep == TypeInv /\ [Next]_vars => TypeInv'
<1> SUFFICES ASSUME TypeInv, [Next]_vars PROVE TypeInv'
  OBVIOUS
<1> USE DEF TypeInv, TypeOK, CountInv, InHand, Values
<1>1. CASE SetFrequency
  BY <1>1 DEF SetFrequency, Slots
<1>2. CASE Add
  BY <1>2 DEF Add, ringVars, tickVars
<1>3. CASE AddSpin
  BY <1>3 DEF AddSpin, ringVars, tickVars
<1>4. CASE AddStore
  BY <1>4 DEF AddStore, tickVars, SampleSlot
<1>5. CASE AddAdvance
  BY <1>5, NextSlot DEF AddAdvance, tickVars
<1>6. CASE Destroy
  BY <1>6 DEF Destroy, ringVars
<1>7. CASE Tick
  <2>1. buffer[buffer_p_play] \in Values
    BY <1>7
  <2>2. Append(played, buffer[buffer_p_play]) \in Seq(Values)
    BY <2>1
  <2>3. played' \in Seq(Values) /\ buffer_p_play' \in Slots
    BY <1>7, <2>2, NextSlot DEF Tick
  <2>4. dac' \in Values /\ starved' \in BOOLEAN
    BY <1>7, <2>1 DEF Tick, MovesOn
  <2> QED
    BY <1>7, <2>3, <2>4 DEF Tick, mainVars
<1>8. CASE UNCHANGED vars
  BY <1>8 DEF vars, mainVars, ringVars, tickVars
<1> QED
  BY <1>1, <1>2, <1>3, <1>4, <1>5, <1>6, <1>7, <1>8 DEF Next, Driver

LEMMA TypeInvInit == Init => TypeInv
<1> SUFFICES ASSUME Init PROVE TypeInv
  OBVIOUS
<1> USE DEF Init, Values, Slots
<1>1. 0 \in Values /\ 0 \in Slots
  OBVIOUS
<1>2. played \in Seq(Values)
  OBVIOUS
<1>3. buffer \in [Slots -> Values]
  BY <1>1
<1>4. TypeOK
  BY <1>1, <1>2, <1>3 DEF TypeOK
<1>5. CountInv
  BY DEF CountInv, InHand
<1> QED
  BY <1>4, <1>5 DEF TypeInv

\* Type correctness, in whatever order the build stores.
THEOREM TypeCorrect == Spec => []TypeOK
BY TypeInvInit, TypeInvStep, PTL DEF Spec, TypeInv

-----------------------------------------------------------------------------
(* The ring, for a build that stores the sample before the index.          *)

Waiting == BufferNum(buffer_p_play, buffer_p, Size)

\* Samples in the ring: the waiting ones and one stored but not yet visible.
Held == Waiting + IF pc = "advance" THEN 1 ELSE 0

\* What the slot of the n-th sample holds before it is written.
Old(n) == IF n > Size THEN n - Size ELSE 0

\* Every slot holds the sample that is to be played from it next, or the one
\* it held a turn ago.
RingInv ==
    /\ added = Len(played) + Waiting
    /\ \A k \in Slots :
         buffer[SlotOf(buffer_p_play, k, Size)] =
             IF k < Held THEN Len(played) + k + 1 ELSE Old(Len(played) + k + 1)
    /\ pc \in {"store", "advance"} => HasSpace
    /\ pc = "new" => buffer_p = 0 /\ buffer_p_play = 0

PlayInv == SamplesInOrder /\ UnderrunSound

Inv == RingInv /\ PlayInv

\* Distances in the ring.
LEMMA RingFacts ==
    ASSUME TypeInv
    PROVE  /\ Waiting \in 0 .. (Size - 1) /\ Held \in Nat
           /\ Len(played) \in Nat
           /\ \A k \in Slots : SlotOf(buffer_p_play, k, Size) \in Slots
           /\ SlotOf(buffer_p_play, Waiting, Size) = buffer_p
           /\ \A k \in Slots : k # Waiting => SlotOf(buffer_p_play, k, Size) # buffer_p
           /\ HasSpace <=> Waiting + 1 < Size
           /\ Waiting = 0 <=> ~MovesOn
<1> USE DEF TypeInv, TypeOK, Slots
<1>1. Waiting \in 0 .. (Size - 1)
  BY DEF Waiting, BufferNum
<1>2. Held \in Nat
  BY <1>1 DEF Held
<1>3. Len(played) \in Nat
  OBVIOUS
<1>4. \A k \in Slots : SlotOf(buffer_p_play, k, Size) \in Slots
  BY DEF SlotOf
<1>5. SlotOf(buffer_p_play, Waiting, Size) = buffer_p
  BY DEF SlotOf, Waiting, BufferNum
<1>6. \A k \in Slots : k # Waiting => SlotOf(buffer_p_play, k, Size) # buffer_p
  BY DEF SlotOf, Waiting, BufferNum
<1>7. HasSpace <=> Waiting + 1 < Size
  BY DEF HasSpace, NextIndex, Waiting, BufferNum
<1>8. Waiting = 0 <=> ~MovesOn
  BY DEF MovesOn, Waiting, BufferNum
<1> QED
  BY <1>1, <1>2, <1>3, <1>4, <1>5, <1>6, <1>7, <1>8

LEMMA InvInit == Init => Inv
<1> SUFFICES ASSUME Init PROVE Inv
  OBVIOUS
<1>1. Len(played) = 0 /\ Waiting = 0 /\ Held = 0
  BY DEF Init, Waiting, Held, BufferNum
<1>2. RingInv
  BY <1>1 DEF Init, RingInv, SlotOf, Slots, Old
<1>3. PlayInv
  BY <1>1 DEF Init, PlayInv, SamplesInOrder, UnderrunSound
<1> QED
  BY <1>2, <1>3 DEF Inv

\* A step that plays nothing keeps PlayInv.
LEMMA NothingPlayed ==
    ASSUME PlayInv, UNCHANGED <<played, dac, starved>>
    PROVE  PlayInv'
BY DEF PlayInv, SamplesInOrder, UnderrunSound

LEMMA InvStep == StoresInOrder /\ TypeInv /\ Inv /\ [Next]_vars => Inv'
<1> SUFFICES ASSUME StoresInOrder, TypeInv, Inv, [Next]_vars PROVE Inv'
  OBVIOUS
<1>0. RingInv /\ PlayInv
  BY DEF Inv
<1>1. CASE SetFrequency \/ Add \/ AddSpin \/ Destroy \/ UNCHANGED vars
  <2>1. /\ UNCHANGED <<added, ringVars, played, dac, starved>>
        /\ pc' = "advance" <=> pc = "advance"
        /\ pc' \in {"store", "advance"} =>
             HasSpace \/ pc \in {"store", "advance"}
        /\ pc' = "new" => pc = "new"
    BY <1>1, <1>0 DEF RingInv, SetFrequency, Add, AddSpin, Destroy, vars, mainVars,
       ringVars, tickVars
  <2>2. Waiting' = Waiting /\ Held' = Held
    BY <2>1 DEF Waiting, Held, ringVars
  <2>3. RingInv'
    BY <2>1, <2>2, <1>0 DEF RingInv, HasSpace, ringVars
  <2> QED
    BY <2>1, <2>3, <1>0, NothingPlayed DEF Inv
<1>2. CASE AddStore
  <2>1. /\ UNCHANGED <<added, buffer_p, buffer_p_play, played, dac, starved>>
        /\ pc = "store" /\ pc' = "advance"
        /\ buffer' = [buffer EXCEPT ![buffer_p] = data]
    BY <1>2 DEF AddStore, tickVars, SampleSlot
  <2>2. Waiting' = Waiting /\ Held = Waiting /\ Held' = Waiting + 1
    BY <2>1, RingFacts DEF Waiting, Held
  <2>3. data = Len(played) + Waiting + 1
    BY <2>1, <1>0, RingFacts DEF RingInv, TypeInv, CountInv, InHand, TypeOK, Values
  <2>4. ASSUME NEW k \in Slots
        PROVE  buffer'[SlotOf(buffer_p_play, k, Size)] =
                 IF k < Held' THEN Len(played) + k + 1 ELSE Old(Len(played) + k + 1)
    <3>1. CASE k = Waiting
      BY <2>1, <2>2, <2>3, <3>1, RingFacts DEF TypeInv, TypeOK
    <3>2. CASE k # Waiting
      <4>1. buffer'[SlotOf(buffer_p_play, k, Size)] = buffer[SlotOf(buffer_p_play, k, Size)]
        BY <2>1, <3>2, RingFacts DEF TypeInv, TypeOK
      <4>2. k < Held' <=> k < Held
        BY <2>2, <3>2, RingFacts DEF Slots
      <4> QED
        BY <4>1, <4>2, <1>0 DEF RingInv
    <3> QED
      BY <3>1, <3>2
  <2>5. RingInv'
    BY <2>1, <2>2, <2>4, <1>0 DEF RingInv, HasSpace
  <2> QED
    BY <2>1, <2>5, <1>0, NothingPlayed DEF Inv
<1>3. CASE AddAdvance
  <2>1. /\ UNCHANGED <<buffer, buffer_p_play, played, dac, starved>>
        /\ pc = "advance" /\ pc' = "idle" /\ added' = added + 1
        /\ buffer_p' = NextIndex(buffer_p, Size)
    BY <1>3 DEF AddAdvance, tickVars
  <2>2. Waiting' = Waiting + 1
    <3>1. buffer_p \in Slots /\ buffer_p_play \in Slots
      BY DEF TypeInv, TypeOK
    <3>2. NextIndex(buffer_p, Size) # buffer_p_play
      BY <2>1, <1>0 DEF RingInv, HasSpace
    <3>3. buffer_p' = NextIndex(buffer_p, Size) /\ buffer_p_play' = buffer_p_play
      BY <2>1
    <3> QED
      BY <3>1, <3>2, <3>3 DEF Waiting, BufferNum, NextIndex, Slots
  <2>3. Held' = Held
    BY <2>1, <2>2, RingFacts DEF Held
  <2>4. RingInv'
    BY <2>1, <2>2, <2>3, <1>0, RingFacts DEF RingInv, TypeInv, TypeOK, Values
  <2> QED
    BY <2>1, <2>4, <1>0, NothingPlayed DEF Inv
<1>4. CASE Tick /\ ~MovesOn
  <2>1. /\ UNCHANGED <<pc, added, ringVars, played>>
        /\ dac' = buffer[buffer_p_play]
    BY <1>4 DEF Tick, mainVars, ringVars
  <2>2. Waiting' = Waiting /\ Held' = Held /\ Waiting = 0 /\ Held \in Nat
    BY <1>4, <2>1, RingFacts DEF Waiting, Held, ringVars
  <2>3. RingInv'
    BY <2>1, <2>2, <1>0 DEF RingInv, HasSpace, ringVars
  <2>4. 0 \in Slots /\ SlotOf(buffer_p_play, 0, Size) = buffer_p_play
    BY DEF SlotOf, Slots, TypeInv, TypeOK
  <2>5. buffer[buffer_p_play] =
          IF 0 < Held THEN Len(played) + 0 + 1 ELSE Old(Len(played) + 0 + 1)
    BY <2>4, <1>0 DEF RingInv
  <2>6. UnderrunSound'
    BY <2>1, <2>5, RingFacts DEF UnderrunSound, Old
  <2>7. SamplesInOrder'
    BY <2>1, <1>0 DEF PlayInv, SamplesInOrder
  <2> QED
    BY <2>3, <2>6, <2>7 DEF Inv, PlayInv
<1>5. CASE Tick /\ MovesOn
  <2>1. /\ UNCHANGED <<pc, added, buffer, buffer_p>>
        /\ buffer_p_play' = NextIndex(buffer_p_play, Size)
        /\ played' = Append(played, buffer[buffer_p_play])
        /\ starved' = FALSE
    BY <1>5 DEF Tick, mainVars
  <2>2. Waiting > 0 /\ Waiting' = Waiting - 1 /\ Held' = Held - 1 /\ Held > 0
    <3>1. Waiting > 0 /\ Held > 0
      BY <1>5, RingFacts DEF Held
    <3>2. Waiting' = Waiting - 1
      BY <1>5, <2>1 DEF MovesOn, Waiting, BufferNum, NextIndex, TypeInv, TypeOK, Slots
    <3> QED
      BY <2>1, <3>1, <3>2, RingFacts DEF Held
  <2>3. buffer[buffer_p_play] = Len(played) + 1
    <3>1. 0 \in Slots /\ SlotOf(buffer_p_play, 0, Size) = buffer_p_play
      BY DEF SlotOf, Slots, TypeInv, TypeOK
    <3>2. buffer[buffer_p_play] = Len(played) + 0 + 1
      BY <2>2, <3>1, <1>0 DEF RingInv
    <3> QED
      BY <3>2, RingFacts
  <2>4. /\ Len(played') = Len(played) + 1
        /\ \A i \in 1 .. Len(played) : played'[i] = played[i]
        /\ played'[Len(played) + 1] = Len(played) + 1
    BY <2>1, <2>3 DEF TypeInv, TypeOK
  <2>5. PlayInv'
    <3>1. SamplesInOrder'
      BY <2>4, <1>0, RingFacts DEF PlayInv, SamplesInOrder
    <3> QED
      BY <2>1, <3>1 DEF PlayInv, UnderrunSound
  <2>6. added' = Len(played') + Waiting'
    BY <2>1, <2>2, <2>4, <1>0, RingFacts DEF RingInv
  <2>7. Held <= Size
    BY <1>0, RingFacts DEF Held, RingInv
  <2>8. ASSUME NEW k \in Slots
        PROVE  buffer[SlotOf(buffer_p_play', k, Size)] =
                 IF k < Held - 1 THEN Len(played) + 1 + k + 1
                                 ELSE Old(Len(played) + 1 + k + 1)
    <3>1. CASE k = Size - 1
      <4>1. SlotOf(buffer_p_play', k, Size) = buffer_p_play
        BY <2>1, <3>1 DEF SlotOf, NextIndex, TypeInv, TypeOK, Slots
      <4>2. ~(k < Held - 1) /\ Old(Len(played) + 1 + k + 1) = Len(played) + 1
        BY <2>7, <3>1, RingFacts DEF Old
      <4> QED
        BY <4>1, <4>2, <2>3
    <3>2. CASE k # Size - 1
      <4>1. k + 1 \in Slots
        BY <3>2 DEF Slots
      <4>2. SlotOf(buffer_p_play', k, Size) = SlotOf(buffer_p_play, k + 1, Size)
        BY <2>1, <3>2 DEF SlotOf, NextIndex, TypeInv, TypeOK, Slots
      <4>3. buffer[SlotOf(buffer_p_play, k + 1, Size)] =
              IF k + 1 < Held THEN Len(played) + (k + 1) + 1
                              ELSE Old(Len(played) + (k + 1) + 1)
        BY <4>1, <1>0 DEF RingInv
      <4>4. /\ k + 1 < Held <=> k < Held - 1
            /\ Len(played) + (k + 1) + 1 = Len(played) + 1 + k + 1
        BY RingFacts DEF Slots
      <4> QED
        BY <4>2, <4>3, <4>4
    <3> QED
      BY <3>1, <3>2
  <2>9. HasSpace' /\ pc' # "new"
    <3>1. NextIndex(buffer_p, Size) # NextIndex(buffer_p_play, Size)
      BY <1>5 DEF MovesOn, NextIndex, TypeInv, TypeOK, Slots
    <3>2. pc # "new"
      BY <1>5, <1>0 DEF MovesOn, RingInv
    <3> QED
      BY <2>1, <3>1, <3>2 DEF HasSpace
  <2>10. \A k \in Slots :
          buffer'[SlotOf(buffer_p_play', k, Size)] =
              IF k < Held' THEN Len(played') + k + 1 ELSE Old(Len(played') + k + 1)
    BY <2>1, <2>2, <2>4, <2>8
  <2>11. RingInv'
    BY <2>6, <2>9, <2>10 DEF RingInv
  <2> QED
    BY <2>5, <2>11 DEF Inv
<1> QED
  BY <1>1, <1>2, <1>3, <1>4, <1>5 DEF Next, Driver

\* With the sample stored before its index, the samples are played in the
\* order they were added, each once as a new one.
THEOREM SamplesKeepOrder ==
    ASSUME StoresInOrder
    PROVE  Spec => []SamplesInOrder
<1>1. TypeInv /\ Inv /\ [Next]_vars => Inv'
  BY InvStep
<1>2. Inv => SamplesInOrder
  BY DEF Inv, PlayInv
<1> QED
  BY <1>1, <1>2, InvInit, TypeInvInit, TypeInvStep, PTL DEF Spec

\* An underrun plays the sample add is storing or the one a whole turn of
\* the ring ago, whatever the size of the ring.
THEOREM UnderrunIsOld ==
    ASSUME StoresInOrder
    PROVE  Spec => []UnderrunSound
<1>1. TypeInv /\ Inv /\ [Next]_vars => Inv'
  BY InvStep
<1>2. Inv => UnderrunSound
  BY DEF Inv, PlayInv
<1> QED
  BY <1>1, <1>2, InvInit, TypeInvInit, TypeInvStep, PTL DEF Spec

-----------------------------------------------------------------------------
(* Refinement.                                                             *)

LEMMA ChannelStep ==
    StoresInOrder /\ TypeInv /\ Inv /\ [Next]_vars => [Channel!Next]_(Channel!vars)
<1> SUFFICES ASSUME StoresInOrder, TypeInv, Inv, [Next]_vars
             PROVE  [Channel!Next]_(Channel!vars)
  OBVIOUS
<1>0. RingInv
  BY DEF Inv
<1>1. CASE AddAdvance
  <2>1. added' = added + 1 /\ UNCHANGED played /\ Waiting + 1 < Size
    BY <1>1, <1>0, RingFacts DEF AddAdvance, RingInv, tickVars
  <2>2. added = Len(played) + Waiting
    BY <1>0 DEF RingInv
  <2>3. 1 \in 1 .. (Size - 1) /\ added' <= Len(played) + (Size - 1)
    BY <2>1, <2>2, RingFacts
  <2> QED
    BY <2>1, <2>3 DEF Channel!Next, Channel!Accept
<1>2. CASE Tick /\ MovesOn
  <2>1. 0 \in Slots /\ SlotOf(buffer_p_play, 0, Size) = buffer_p_play
    BY DEF SlotOf, Slots, TypeInv, TypeOK
  <2>2. Waiting > 0 /\ 0 < Held
    BY <1>2, RingFacts DEF Held
  <2>3. buffer[buffer_p_play] = Len(played) + 1
    <3>1. buffer[buffer_p_play] = Len(played) + 0 + 1
      BY <2>1, <2>2, <1>0 DEF RingInv
    <3> QED
      BY <3>1, RingFacts
  <2>4. played' = Append(played, Len(played) + 1) /\ UNCHANGED added
    BY <1>2, <2>3 DEF Tick, mainVars
  <2>5. played' = played \o [i \in 1 .. 1 |-> Len(played) + i]
    <3>1. played' = played \o <<Len(played) + 1>>
      BY <2>4 DEF TypeInv, TypeOK
    <3>2. <<Len(played) + 1>> = [i \in 1 .. 1 |-> Len(played) + i]
      <4>1. \A i \in 1 .. 1 : Len(played) + i = Len(played) + 1
        OBVIOUS
      <4>2. <<Len(played) + 1>> = [i \in 1 .. 1 |-> Len(played) + 1]
        OBVIOUS
      <4> QED
        BY <4>1, <4>2
    <3> QED
      BY <3>1, <3>2
  <2>6. 1 \in 1 .. (Size - 1) /\ Len(played) + 1 <= added
    BY <2>2, <1>0, RingFacts DEF RingInv
  <2> QED
    BY <2>4, <2>5, <2>6 DEF Channel!Next, Channel!Deliver
<1>3. CASE \/ SetFrequency \/ Add \/ AddSpin \/ AddStore \/ Destroy
           \/ (Tick /\ ~MovesOn) \/ UNCHANGED vars
  BY <1>3 DEF Channel!vars, SetFrequency, Add, AddSpin, AddStore, Destroy, Tick,
     vars, mainVars, ringVars, tickVars
<1> QED
  BY <1>1, <1>2, <1>3 DEF Next, Driver

\* With the sample stored before its index, the ring implements a channel of
\* Size - 1 samples.
THEOREM RingIsChannel ==
    ASSUME StoresInOrder
    PROVE  Spec => IsChannel
<1>1. Init => Channel!Init
  BY DEF Init, Channel!Init
<1>2. TypeInv /\ Inv /\ [Next]_vars => Inv'
  BY InvStep
<1>3. TypeInv /\ Inv /\ [Next]_vars => [Channel!Next]_(Channel!vars)
  BY ChannelStep
<1> QED
  BY <1>1, <1>2, <1>3, InvInit, TypeInvInit, TypeInvStep, PTL DEF Spec, IsChannel

-----------------------------------------------------------------------------
(* Pulse measurement.                                                      *)

\* An interrupt of the input that the handler has not looked at.
Open(c) == c \in T1IR \ served

\* A pulse that starts or ends at edge e can only be spoilt by e being lost
\* already or the one edge that still waits for the handler.
LeftOpen(c, e) == e \in lost[c] \/ (e = edge[c] /\ Open(c))

Covered(c, e) == \E i \in DOMAIN measured[c] : e \in measured[c][i][1] .. measured[c][i][2]

PwmTypeInv ==
    /\ edge \in [Pwm!Channels -> Nat] /\ T1CR \in [Pwm!Channels -> Nat]
    /\ start \in [Pwm!Channels -> Nat] /\ lost \in [Pwm!Channels -> SUBSET Nat]
    /\ measured \in [Pwm!Channels -> Seq(Nat \X Nat)]
    /\ T1IR \subseteq Pwm!Channels /\ waitsFall \subseteq Pwm!Channels
    /\ at \in 0 .. Pwm!Off

\* T1CR is the last edge of an input with an interrupt, and until the handler
\* has looked at it, it is of the kind the input waits for.
CapturedInv ==
    \A c \in Pwm!Channels :
        /\ c \in T1IR => T1CR[c] = edge[c]
        /\ Open(c) => (Pwm!Rises(edge[c]) <=> c \notin waitsFall)

\* The handler serves an input once, and acknowledges what it has served.
HandlerInv ==
    /\ served \subseteq T1IR /\ seen \subseteq T1IR
    /\ \A c \in served : c < at
    /\ at = Pwm!Off => served = {}
    /\ at = Pwm!WritesIR => served \subseteq seen

\* Pulses stored are whole, in order and apart.
StoredInv(c) ==
    LET m == measured[c]
    IN \A i \in DOMAIN m :
         /\ Pwm!Rises(m[i][1]) /\ m[i][1] < m[i][2] /\ ~Pwm!Rises(m[i][2]) /\ m[i][2] <= edge[c]
         /\ \A e \in m[i][1] + 1 .. m[i][2] - 1 : Pwm!Rises(e) \/ e \in lost[c]
         /\ i > 1 => m[i - 1][2] < m[i][1]

\* A pulse has begun at start, after the last one stored, and has not ended.
BegunInv(c) ==
    /\ Pwm!Rises(start[c]) /\ start[c] <= edge[c]
    /\ \A i \in DOMAIN measured[c] : measured[c][i][2] < start[c]
    /\ \A e \in start[c] + 1 .. edge[c] : Pwm!Rises(e) \/ LeftOpen(c, e)
    /\ \A e \in 1 .. start[c] - 1 : Pwm!Rises(e) => e \in lost[c] \/ Covered(c, e)

\* No pulse has begun: every one so far is stored, lost, or waits for the handler.
PauseInv(c) ==
    \A e \in 1 .. edge[c] : Pwm!Rises(e) => LeftOpen(c, e) \/ Covered(c, e)

PulseInv(c) ==
    /\ StoredInv(c)
    /\ c \in waitsFall => BegunInv(c)
    /\ c \notin waitsFall => PauseInv(c)

PwmInv ==
    /\ PwmTypeInv /\ CapturedInv /\ HandlerInv
    /\ \A c \in Pwm!Channels : PulseInv(c)

LEMMA PwmInvInit == Pwm!Init => PwmInv
<1> SUFFICES ASSUME Pwm!Init PROVE PwmInv
  OBVIOUS
<1> USE DEF Pwm!Init
<1>1. PwmTypeInv
  <2>1. \A c \in Pwm!Channels : <<>> \in Seq(Nat \X Nat)
    OBVIOUS
  <2> QED
    BY <2>1, InputsAssumption DEF PwmTypeInv, Pwm!Off
<1>2. CapturedInv /\ HandlerInv
  BY DEF CapturedInv, HandlerInv, Open
<1>3. ASSUME NEW c \in Pwm!Channels
      PROVE  PulseInv(c)
  <2>1. measured[c] = <<>> /\ edge[c] = 0 /\ c \notin waitsFall
    BY <1>3
  <2>2. DOMAIN measured[c] = {}
    BY <2>1
  <2> QED
    BY <2>1, <2>2 DEF PulseInv, StoredInv, PauseInv
<1> QED
  BY <1>1, <1>2, <1>3 DEF PwmInv

\* What happens to other inputs leaves an input's pulses as they are.
LEMMA PulseKept ==
    ASSUME NEW c \in Pwm!Channels, PulseInv(c),
           edge'[c] = edge[c], start'[c] = start[c], measured'[c] = measured[c],
           lost[c] \subseteq lost'[c], c \in waitsFall' <=> c \in waitsFall,
           Open(c) => Open(c)' \/ edge[c] \in lost'[c]
    PROVE  PulseInv(c)'
<1>1. \A e : LeftOpen(c, e) => LeftOpen(c, e)'
  BY DEF LeftOpen
<1>2. \A e : Covered(c, e) => Covered(c, e)'
  BY DEF Covered
<1>3. StoredInv(c)'
  BY DEF PulseInv, StoredInv
<1>4. c \in waitsFall => BegunInv(c)'
  BY <1>1, <1>2 DEF PulseInv, BegunInv
<1>5. c \notin waitsFall => PauseInv(c)'
  BY <1>1, <1>2 DEF PulseInv, PauseInv
<1> QED
  BY <1>3, <1>4, <1>5 DEF PulseInv

\* An edge is captured if the input waits for it; if not, it is the edge that
\* ends a lost pulse or begins one within another's.
LEMMA EdgeStep ==
    ASSUME PwmInv, NEW c \in Pwm!Channels, Pwm!Edge(c)
    PROVE  PwmInv'
<1>0. PICK n \in Nat : n = edge[c] + 1
  BY DEF PwmInv, PwmTypeInv
<1> DEFINE kind == Pwm!Rises(n) <=> c \notin waitsFall
<1>1. /\ c \notin T1IR /\ edge' = [edge EXCEPT ![c] = n]
      /\ UNCHANGED <<waitsFall, at, seen, start, measured, served, lost>>
      /\ kind => T1CR' = [T1CR EXCEPT ![c] = n] /\ T1IR' = T1IR \cup {c}
      /\ ~kind => T1CR' = T1CR /\ T1IR' = T1IR
  BY <1>0 DEF Pwm!Edge, PwmInv, PwmTypeInv
<1>2. edge[c] \in Nat /\ n = edge[c] + 1 /\ edge'[c] = n /\ \A d \in Pwm!Channels \ {c} : edge'[d] = edge[d]
  BY <1>0, <1>1 DEF PwmInv, PwmTypeInv
<1>3. c \notin served /\ ~Open(c) /\ (Open(c)' <=> kind) /\ \A d \in Pwm!Channels \ {c} : (Open(d)' <=> Open(d))
  BY <1>1 DEF PwmInv, HandlerInv, Open
<1>4. PwmTypeInv'
  BY <1>1, <1>2 DEF PwmInv, PwmTypeInv
<1>5. CapturedInv'
  BY <1>1, <1>2, <1>3 DEF PwmInv, PwmTypeInv, CapturedInv, Open
<1>6. HandlerInv'
  BY <1>1 DEF PwmInv, HandlerInv
<1>7. ASSUME NEW d \in Pwm!Channels \ {c}
      PROVE  PulseInv(d)'
  BY <1>1, <1>2, <1>3, PulseKept DEF PwmInv
<1>8. PulseInv(c)'
  <2>1. PulseInv(c)
    BY DEF PwmInv
  <2>2. /\ \A e : Covered(c, e)' <=> Covered(c, e)
        /\ \A e : LeftOpen(c, e) => LeftOpen(c, e)'
        /\ kind => LeftOpen(c, n)'
    BY <1>1, <1>2, <1>3 DEF Covered, LeftOpen
  <2>3. StoredInv(c)'
    <3>1. \A i \in DOMAIN measured[c] : measured[c][i][2] \in Nat
      BY DEF PwmInv, PwmTypeInv
    <3>2. \A i \in DOMAIN measured[c] : measured[c][i][2] <= n
      BY <1>2, <2>1, <3>1 DEF PulseInv, StoredInv
    <3> QED
      BY <1>1, <1>2, <2>1, <3>2 DEF PulseInv, StoredInv
  <2>4. c \in waitsFall => BegunInv(c)'
    <3> SUFFICES ASSUME c \in waitsFall PROVE BegunInv(c)'
      OBVIOUS
    <3>1. BegunInv(c) /\ start[c] \in Nat
      BY <2>1 DEF PulseInv, PwmInv, PwmTypeInv
    <3>2. ASSUME NEW e \in start[c] + 1 .. n
          PROVE  Pwm!Rises(e) \/ LeftOpen(c, e)'
      <4>1. CASE e = n
        BY <2>2, <4>1
      <4>2. CASE e # n
        BY <1>2, <2>2, <3>1, <4>2 DEF BegunInv
      <4> QED
        BY <4>1, <4>2
    <3> QED
      BY <1>1, <1>2, <2>2, <3>1, <3>2 DEF BegunInv
  <2>5. c \notin waitsFall => PauseInv(c)'
    <3> SUFFICES ASSUME c \notin waitsFall, NEW e \in 1 .. n, Pwm!Rises(e)
                 PROVE  LeftOpen(c, e)' \/ Covered(c, e)
      BY <1>2, <2>2 DEF PauseInv
    <3>1. CASE e = n
      BY <2>2, <3>1
    <3>2. CASE e # n
      BY <1>2, <2>1, <2>2, <3>2 DEF PulseInv, PauseInv
    <3> QED
      BY <3>1, <3>2
  <2> QED
    BY <1>1, <2>3, <2>4, <2>5 DEF PulseInv
<1> QED
  BY <1>4, <1>5, <1>6, <1>7, <1>8 DEF PwmInv

\* The handler moves on.
LEMMA LookStep ==
    ASSUME PwmInv, Pwm!Enter \/ Pwm!Skip \/ Pwm!ReadIR
    PROVE  PwmInv'
<1>1. UNCHANGED <<edge, T1IR, T1CR, waitsFall, start, measured, lost>>
  BY DEF Pwm!Enter, Pwm!Skip, Pwm!ReadIR
<1>2. /\ at' \in 0 .. Pwm!Off /\ served' = served
      /\ HandlerInv'
  <2> USE InputsAssumption DEF PwmInv, PwmTypeInv, HandlerInv, Pwm!Off, Pwm!WritesIR, Pwm!ReadsIR, Pwm!Channels
  <2>1. CASE Pwm!Enter
    BY <2>1 DEF Pwm!Enter
  <2>2. CASE Pwm!Skip
    BY <2>2 DEF Pwm!Skip
  <2>3. CASE Pwm!ReadIR
    BY <2>3 DEF Pwm!ReadIR
  <2> QED
    BY <2>1, <2>2, <2>3
<1>3. \A c : Open(c)' <=> Open(c)
  BY <1>1, <1>2 DEF Open
<1>4. PwmTypeInv' /\ CapturedInv'
  BY <1>1, <1>2, <1>3 DEF PwmInv, PwmTypeInv, CapturedInv
<1>5. ASSUME NEW c \in Pwm!Channels
      PROVE  PulseInv(c)'
  BY <1>1, <1>3, PulseKept DEF PwmInv
<1> QED
  BY <1>2, <1>4, <1>5 DEF PwmInv
\* What a step that serves input c does to the others, and to the handler.
LEMMA ServeFrame ==
    ASSUME PwmInv, NEW c \in T1IR, at = c, UNCHANGED <<edge, T1IR, T1CR, seen, lost>>,
           Pwm!Switch(c), served' = served \cup {c}, at' = c + 1,
           start' \in [Pwm!Channels -> Nat], measured' \in [Pwm!Channels -> Seq(Nat \X Nat)],
           \A d \in Pwm!Channels \ {c} : start'[d] = start[d] /\ measured'[d] = measured[d],
           PulseInv(c)'
    PROVE  PwmInv'
<1> USE InputsAssumption DEF Pwm!Off, Pwm!WritesIR, Pwm!Channels
<1>0. c \in Pwm!Channels /\ c \in Nat
  BY DEF PwmInv, PwmTypeInv
<1>1. \A d \in Pwm!Channels \ {c} : (d \in waitsFall' <=> d \in waitsFall) /\ (Open(d)' <=> Open(d))
  BY DEF Pwm!Switch, Open
<1>2. PwmTypeInv'
  <2>1. at' \in 0 .. Pwm!Off
    BY <1>0
  <2>2. waitsFall' \subseteq Pwm!Channels
    BY <1>0 DEF PwmInv, PwmTypeInv, Pwm!Switch
  <2> HIDE DEF Pwm!Off, Pwm!Channels
  <2> QED
    BY <2>1, <2>2 DEF PwmInv, PwmTypeInv
<1>3. CapturedInv'
  BY <1>0, <1>1 DEF PwmInv, CapturedInv, Open, Pwm!Switch
<1>4. HandlerInv'
  <2>1. \A d \in served : d < c /\ d \in Int
    BY DEF PwmInv, PwmTypeInv, HandlerInv
  <2> QED
    BY <1>0, <1>1, <2>1 DEF PwmInv, HandlerInv
<1>5. ASSUME NEW d \in Pwm!Channels, d # c
      PROVE  PulseInv(d)'
  BY <1>1, <1>5, PulseKept DEF PwmInv
<1> QED
  BY <1>2, <1>3, <1>4, <1>5 DEF PwmInv

\* What the handler finds at an input with an interrupt: the last edge, of the
\* kind the input waits for, and everything before it accounted for.
LEMMA ServeFacts ==
    ASSUME PwmInv, NEW c \in T1IR, at = c
    PROVE  /\ c \in Pwm!Channels /\ Open(c) /\ T1CR[c] = edge[c] /\ edge[c] \in Nat /\ start[c] \in Nat
           /\ Pwm!Rises(edge[c]) <=> c \notin waitsFall
           /\ PulseInv(c) /\ measured[c] \in Seq(Nat \X Nat)
           /\ \A i \in DOMAIN measured[c] : measured[c][i][1] \in Nat /\ measured[c][i][2] \in Nat
<1>1. c \in Pwm!Channels /\ PulseInv(c) /\ measured[c] \in Seq(Nat \X Nat) /\ edge[c] \in Nat /\ start[c] \in Nat
  BY DEF PwmInv, PwmTypeInv
<1>2. Open(c)
  <2>1. c \in Int
    BY <1>1, InputsAssumption DEF Pwm!Channels
  <2> QED
    BY <2>1 DEF PwmInv, HandlerInv, Open
<1> QED
  BY <1>1, <1>2 DEF PwmInv, CapturedInv

\* A rising edge begins a pulse.
LEMMA RiseStep ==
    ASSUME PwmInv, Pwm!ServeRise
    PROVE  PwmInv'
<1>1. PICK c \in T1IR : c = at /\ c \notin waitsFall
  BY DEF Pwm!ServeRise
<1>2. /\ Pwm!Switch(c) /\ served' = served \cup {c} /\ at' = c + 1
      /\ start' = [start EXCEPT ![c] = edge[c]]
      /\ UNCHANGED <<edge, T1IR, T1CR, seen, measured, lost>>
  BY <1>1, ServeFacts DEF Pwm!ServeRise
<1> USE <1>1, ServeFacts
<1>3. /\ start'[c] = edge[c] /\ start' \in [Pwm!Channels -> Nat] /\ c \in waitsFall'
      /\ \A d \in Pwm!Channels \ {c} : start'[d] = start[d]
      /\ measured' \in [Pwm!Channels -> Seq(Nat \X Nat)]
  BY <1>2 DEF PwmInv, PwmTypeInv, Pwm!Switch
<1>4. BegunInv(c)'
  <2>1. Pwm!Rises(edge[c]) /\ StoredInv(c) /\ PauseInv(c)
    BY DEF PulseInv
  <2>2. \A i \in DOMAIN measured[c] : measured[c][i][2] < edge[c]
    BY <2>1 DEF StoredInv
  <2>3. \A e \in 1 .. edge[c] - 1 : Pwm!Rises(e) => e \in lost[c] \/ Covered(c, e)
    BY <2>1 DEF PauseInv, LeftOpen
  <2>4. edge[c] + 1 .. edge[c] = {}
    OBVIOUS
  <2> QED
    BY <1>2, <1>3, <2>1, <2>2, <2>3, <2>4 DEF BegunInv, Covered
<1>5. StoredInv(c)'
  BY <1>2 DEF PulseInv, StoredInv
<1>6. PulseInv(c)'
  BY <1>3, <1>4, <1>5 DEF PulseInv
<1> QED
  BY <1>2, <1>3, <1>6, ServeFrame

\* A falling edge ends it, and the pulse is stored.
LEMMA FallStep ==
    ASSUME PwmInv, Pwm!ServeFall
    PROVE  PwmInv'
<1>1. PICK c \in T1IR : c = at /\ c \in waitsFall
  BY DEF Pwm!ServeFall
<1> USE <1>1, ServeFacts
<1>2. PICK m \in Seq(Nat \X Nat), k \in Nat, p \in Nat \X Nat :
        m = measured[c] /\ k = Len(m) /\ p = <<start[c], edge[c]>>
  <2>1. measured[c] \in Seq(Nat \X Nat) /\ <<start[c], edge[c]>> \in Nat \X Nat
    OBVIOUS
  <2>2. Len(measured[c]) \in Nat
    BY <2>1
  <2> QED
    BY <2>1, <2>2
<1>3. /\ Pwm!Switch(c) /\ served' = served \cup {c} /\ at' = c + 1
      /\ measured' = [measured EXCEPT ![c] = Append(m, p)]
      /\ UNCHANGED <<edge, T1IR, T1CR, seen, start, lost>>
  BY <1>2 DEF Pwm!ServeFall
<1>4. /\ measured'[c] = Append(m, p) /\ c \notin waitsFall'
      /\ \A d \in Pwm!Channels \ {c} : measured'[d] = measured[d]
      /\ measured' \in [Pwm!Channels -> Seq(Nat \X Nat)] /\ start' \in [Pwm!Channels -> Nat]
  BY <1>3 DEF PwmInv, PwmTypeInv, Pwm!Switch
<1>5. /\ DOMAIN measured'[c] = 1 .. k + 1 /\ DOMAIN m = 1 .. k
      /\ \A i \in 1 .. k : measured'[c][i] = m[i]
      /\ measured'[c][k + 1] = p /\ p[1] = start[c] /\ p[2] = edge[c]
  BY <1>2, <1>4
<1>6. /\ ~Pwm!Rises(edge[c]) /\ start[c] < edge[c] /\ Pwm!Rises(start[c])
      /\ \A i \in 1 .. k :
           /\ Pwm!Rises(m[i][1]) /\ m[i][1] < m[i][2] /\ ~Pwm!Rises(m[i][2])
           /\ m[i][2] <= edge[c] /\ m[i][2] < start[c]
           /\ \A e \in m[i][1] + 1 .. m[i][2] - 1 : Pwm!Rises(e) \/ e \in lost[c]
           /\ i > 1 => m[i - 1][2] < m[i][1]
      /\ \A e \in start[c] + 1 .. edge[c] - 1 : Pwm!Rises(e) \/ e \in lost[c]
      /\ \A e \in 1 .. start[c] - 1 :
           Pwm!Rises(e) => e \in lost[c] \/ \E i \in 1 .. k : e \in m[i][1] .. m[i][2]
  <2>1. StoredInv(c) /\ BegunInv(c)
    BY <1>1 DEF PulseInv
  <2>2. start[c] \in Nat /\ edge[c] \in Nat /\ ~Pwm!Rises(edge[c])
    OBVIOUS
  <2>3. Pwm!Rises(start[c]) /\ start[c] < edge[c]
    <3>1. start[c] # edge[c]
      BY <2>1, <2>2 DEF BegunInv
    <3> QED
      BY <2>1, <2>2, <3>1 DEF BegunInv
  <2>4. ASSUME NEW i \in 1 .. k
        PROVE  /\ Pwm!Rises(m[i][1]) /\ m[i][1] < m[i][2] /\ ~Pwm!Rises(m[i][2])
               /\ m[i][2] <= edge[c]
               /\ \A e \in m[i][1] + 1 .. m[i][2] - 1 : Pwm!Rises(e) \/ e \in lost[c]
               /\ i > 1 => m[i - 1][2] < m[i][1]
    BY <1>2, <1>5, <2>1, <2>4 DEF StoredInv
  <2>5. \A i \in 1 .. k : m[i][2] < start[c]
    BY <1>2, <1>5, <2>1 DEF BegunInv
  <2>6. ASSUME NEW e \in start[c] + 1 .. edge[c] - 1
        PROVE  Pwm!Rises(e) \/ e \in lost[c]
    <3>1. e # edge[c] /\ e \in start[c] + 1 .. edge[c]
      BY <2>2, <2>6
    <3> QED
      BY <2>1, <3>1 DEF BegunInv, LeftOpen
  <2>7. ASSUME NEW e \in 1 .. start[c] - 1, Pwm!Rises(e)
        PROVE  e \in lost[c] \/ \E i \in 1 .. k : e \in m[i][1] .. m[i][2]
    BY <1>2, <1>5, <2>1, <2>7 DEF BegunInv, Covered
  <2> QED
    BY <2>2, <2>3, <2>4, <2>5, <2>6, <2>7
<1>7. StoredInv(c)'
  <2> SUFFICES ASSUME NEW i \in 1 .. k + 1
               PROVE  /\ Pwm!Rises(measured'[c][i][1]) /\ measured'[c][i][1] < measured'[c][i][2]
                      /\ ~Pwm!Rises(measured'[c][i][2]) /\ measured'[c][i][2] <= edge[c]
                      /\ \A e \in measured'[c][i][1] + 1 .. measured'[c][i][2] - 1 : Pwm!Rises(e) \/ e \in lost[c]
                      /\ i > 1 => measured'[c][i - 1][2] < measured'[c][i][1]
    BY <1>3, <1>5 DEF StoredInv
  <2>1. i > 1 => i - 1 \in 1 .. k /\ measured'[c][i - 1] = m[i - 1]
    BY <1>5
  <2>2. CASE i \in 1 .. k
    BY <1>5, <1>6, <2>1, <2>2
  <2>3. CASE i = k + 1
    <3>1. measured'[c][i][1] = start[c] /\ measured'[c][i][2] = edge[c]
      BY <1>5, <2>3
    <3>2. i > 1 => k \in 1 .. k /\ measured'[c][i - 1] = m[k]
      BY <1>5, <2>3
    <3>3. i > 1 => measured'[c][i - 1][2] < start[c]
      BY <1>6, <3>2
    <3>4. edge[c] <= edge[c]
      OBVIOUS
    <3> QED
      BY <1>6, <3>1, <3>3, <3>4
  <2> QED
    BY <2>2, <2>3
<1>8. PauseInv(c)'
  <2> SUFFICES ASSUME NEW e \in 1 .. edge[c], Pwm!Rises(e)
               PROVE  e \in lost[c] \/ \E i \in 1 .. k + 1 : e \in measured'[c][i][1] .. measured'[c][i][2]
    BY <1>3, <1>5 DEF PauseInv, LeftOpen, Covered
  <2>1. CASE e < start[c]
    <3>0. e \in 1 .. start[c] - 1
      <4>1. start[c] \in Nat /\ edge[c] \in Nat
        OBVIOUS
      <4> QED
        BY <2>1, <4>1
    <3>1. e \in lost[c] \/ \E i \in 1 .. k : e \in m[i][1] .. m[i][2]
      BY <1>6, <3>0
    <3>2. 1 .. k \subseteq 1 .. k + 1
      OBVIOUS
    <3> QED
      BY <1>5, <3>1, <3>2
  <2>2. CASE e >= start[c]
    <3>1. e \in p[1] .. p[2] /\ k + 1 \in 1 .. k + 1
      BY <1>5, <2>2
    <3> QED
      BY <1>5, <3>1
  <2> QED
    BY <2>1, <2>2
<1>9. PulseInv(c)'
  BY <1>4, <1>7, <1>8 DEF PulseInv
<1> QED
  BY <1>3, <1>4, <1>9, ServeFrame

\* What the handler acknowledges without having looked at it is lost.
LEMMA AcknowledgeStep ==
    ASSUME PwmInv, Pwm!WriteIR
    PROVE  PwmInv'
<1>1. /\ at = Pwm!WritesIR /\ T1IR' = T1IR \ seen /\ at' = Pwm!Off /\ seen' = {} /\ served' = {}
      /\ UNCHANGED <<edge, T1CR, waitsFall, start, measured>>
      /\ lost' = [c \in Pwm!Channels |->
                    IF c \in seen \ served THEN lost[c] \cup {T1CR[c]} ELSE lost[c]]
  BY DEF Pwm!WriteIR
<1>2. PwmTypeInv'
  <2>1. \A c \in Pwm!Channels : lost[c] \in SUBSET Nat /\ T1CR[c] \in Nat
    BY DEF PwmInv, PwmTypeInv
  <2>2. lost' \in [Pwm!Channels -> SUBSET Nat]
    BY <1>1, <2>1
  <2> QED
    BY <1>1, <2>2, InputsAssumption DEF PwmInv, PwmTypeInv, Pwm!Off
<1>3. served \subseteq seen
  BY <1>1 DEF PwmInv, HandlerInv
<1>4. \A c \in Pwm!Channels : Open(c)' => Open(c)
  BY <1>1, <1>3 DEF Open
<1>5. CapturedInv'
  BY <1>1, <1>4 DEF PwmInv, CapturedInv
<1>6. HandlerInv'
  BY <1>1, InputsAssumption DEF HandlerInv, Pwm!Off, Pwm!WritesIR
<1>7. ASSUME NEW c \in Pwm!Channels
      PROVE  PulseInv(c)'
  <2>1. lost[c] \subseteq lost'[c]
    BY <1>1
  <2>2. Open(c) => Open(c)' \/ edge[c] \in lost'[c]
    BY <1>1 DEF PwmInv, CapturedInv, Open
  <2> QED
    BY <1>1, <2>1, <2>2, PulseKept DEF PwmInv
<1> QED
  BY <1>2, <1>5, <1>6, <1>7 DEF PwmInv

LEMMA PwmInvStep ==
    ASSUME PwmInv, [AllNext]_allVars
    PROVE  PwmInv'
<1>1. CASE \E c \in Pwm!Channels : Pwm!Edge(c)
  BY <1>1, EdgeStep
<1>2. CASE Pwm!Enter \/ Pwm!Skip \/ Pwm!ReadIR
  BY <1>2, LookStep
<1>3. CASE Pwm!ServeRise \/ Pwm!ServeFall
  BY <1>3, RiseStep, FallStep
<1>4. CASE Pwm!WriteIR
  BY <1>4, AcknowledgeStep
<1>5. CASE UNCHANGED captureVars
  <2>1. UNCHANGED <<edge, T1IR, T1CR, waitsFall, at, seen, start, measured, served, lost>>
    BY <1>5 DEF captureVars
  <2>2. PwmTypeInv' /\ CapturedInv' /\ HandlerInv'
    BY <2>1 DEF PwmInv, PwmTypeInv, CapturedInv, HandlerInv, Open
  <2>3. ASSUME NEW c \in Pwm!Channels
        PROVE  PulseInv(c)'
    BY <2>1, PulseKept DEF PwmInv, Open
  <2> QED
    BY <2>2, <2>3 DEF PwmInv
<1> QED
  BY <1>1, <1>2, <1>3, <1>4, <1>5 DEF AllNext, allVars, Play, Capture, Pwm!Next, Pwm!Handler

\* Pulses are measured from a rising edge to the falling edge after it, none
\* twice, left out or mixed with another, but for the edges CCP_IRQ_T1
\* (pwm_in.c) acknowledges without having looked at them: for any number of
\* inputs and edges, whatever the player does in between.
THEOREM PulsesAreMeasured == AllSpec => []PulsesMeasured
<1>1. AllInit => PwmInv
  BY PwmInvInit DEF AllInit
<1>2. PwmInv /\ [AllNext]_allVars => PwmInv'
  BY PwmInvStep
<1>3. PwmInv => PulsesMeasured
  <2> SUFFICES ASSUME PwmInv, NEW c \in Pwm!Channels
               PROVE  /\ \A i \in DOMAIN measured[c] :
                           /\ Pwm!Rises(measured[c][i][1]) /\ measured[c][i][1] < measured[c][i][2]
                           /\ ~Pwm!Rises(measured[c][i][2])
                           /\ \A e \in measured[c][i][1] + 1 .. measured[c][i][2] - 1 :
                                Pwm!Rises(e) \/ e \in lost[c]
                           /\ i > 1 => measured[c][i - 1][2] < measured[c][i][1]
                      /\ c \notin T1IR \cup waitsFall =>
                           \A e \in 1 .. edge[c] : Pwm!Rises(e) =>
                             e \in lost[c] \/ \E i \in DOMAIN measured[c] : e \in measured[c][i][1] .. measured[c][i][2]
    BY DEF PulsesMeasured, Pwm!PulsesMeasured
  <2>1. PulseInv(c)
    BY DEF PwmInv
  <2>2. StoredInv(c)
    BY <2>1 DEF PulseInv
  <2>3. c \notin T1IR \cup waitsFall => PauseInv(c) /\ ~Open(c)
    BY <2>1 DEF PulseInv, Open
  <2> QED
    BY <2>2, <2>3 DEF StoredInv, PauseInv, LeftOpen, Covered
<1> QED
  BY <1>1, <1>2, <1>3, PTL DEF AllSpec

-----------------------------------------------------------------------------
(* The player, on the processor it shares.                                 *)

\* Whatever the other timer's handler does, what the player promises holds:
\* every step of the processor is one of the player's or leaves it alone.
THEOREM PlayerUndisturbed ==
    ASSUME StoresInOrder
    PROVE  AllSpec => []UnderrunSound /\ IsChannel
<1>1. AllInit => Init
  BY DEF AllInit
<1>2. [AllNext]_allVars => [Next]_vars
  BY DEF AllNext, allVars, Play, Capture
<1>3. TypeInv /\ Inv /\ [Next]_vars => Inv'
  BY InvStep
<1>4. TypeInv /\ Inv /\ [Next]_vars => [Channel!Next]_(Channel!vars)
  BY ChannelStep
<1>5. Inv => UnderrunSound
  BY DEF Inv, PlayInv
<1>6. Init => Channel!Init
  BY DEF Init, Channel!Init
<1> QED
  BY <1>1, <1>2, <1>3, <1>4, <1>5, <1>6, InvInit, TypeInvInit, TypeInvStep, PTL DEF AllSpec, IsChannel

-----------------------------------------------------------------------------
(* Timer 1 as the clock of delay_us.                                       *)

Max3 == 3 * MaxGap

\* The time a delay has taken, but for the turns its missed windows have cost.
Late == missed * Width
Net  == elapsed - Late

\* The types of what delay_us uses; a running delay is not close to a turn.
ClockTypeInv ==
    /\ T1TC \in 0 .. Width - 1
    /\ look \in {"idle", "upper", "first", "second"}
    /\ c_T1TC \in 0 .. Width - 1 /\ next_T1TC \in 0 .. Width - 1
    /\ asked \in 0 .. Width - Low - Max3
    /\ elapsed \in Nat /\ missed \in Nat /\ gap \in 0 .. MaxGap

\* The counter is as far from where the delay began as time has passed since, or
\* since the turn it has missed, and the value waited for as far as was asked, each
\* at most one wrap on.
ElapsedInv ==
    /\ Net \in Int /\ Net <= Width
    /\ \/ T1TC = c_T1TC + Net
       \/ T1TC = c_T1TC + Net - Width
    /\ next_T1TC \in {c_T1TC + asked, c_T1TC + asked - Width}
    /\ next_T1TC >= c_T1TC => missed = 0

\* What the last look at the counter, gap ticks ago, has shown.  A delay that waits
\* for the wrap starts above the window; while it waits, the counter is below the
\* wrap or still in the window after it.
LookInv ==
    /\ look = "upper" =>
         /\ next_T1TC < c_T1TC /\ c_T1TC + (Net - gap) < Width
         /\ c_T1TC + Net >= Low
         /\ T1TC = c_T1TC + Net \/ T1TC < Low
    /\ look \in {"first", "second"} /\ next_T1TC < c_T1TC =>
         c_T1TC + Net >= Width
    /\ look = "first"  => Net - gap <= asked + MaxGap
    /\ look = "second" =>
         /\ Net - gap <= asked + 2 * MaxGap
         /\ Net - gap < asked \/ c_T1TC + (Net - gap) >= Width

ClockInv == ClockTypeInv /\ (look # "idle" => ElapsedInv /\ LookInv)

-----------------------------------------------------------------------------
\* A sum that passes the width once comes out one width lower.
LEMMA WrapsOnce ==
    ASSUME NEW a \in 0 .. Width - 1, NEW b \in 0 .. Width - 1
    PROVE  /\ (a + b) % Width \in {a + b, a + b - Width}
           /\ (a + b) % Width \in 0 .. Width - 1
<1>1. CASE a + b < Width
  BY <1>1, WidthAssumption
<1>2. CASE a + b >= Width
  <2>1. a + b = (a + b - Width) + 1 * Width /\ a + b - Width \in 0 .. Width - 1
    BY <1>2, WidthAssumption
  <2> QED
    BY <1>2, <2>1, WidthAssumption
<1> QED
  BY <1>1, <1>2, WidthAssumption

\* In the invariant, a running delay has not been on for long, but for the turns
\* it has missed: it is the last look that bounds it.
LEMMA InvOnTime ==
    ASSUME ClockTypeInv, ElapsedInv, LookInv, look # "idle"
    PROVE  /\ Net <= asked + Max3 /\ Net <= Width - Low
           /\ look = "upper"  => Net < asked + MaxGap
           /\ look = "first"  => Net <= asked + 2 * MaxGap
<1> HIDE DEF Net
<1>1. CASE look = "upper"
  BY <1>1, WidthAssumption DEF ClockTypeInv, ElapsedInv, LookInv, Max3
<1>2. CASE look = "first"
  BY <1>2, WidthAssumption DEF ClockTypeInv, ElapsedInv, LookInv, Max3
<1>3. CASE look = "second"
  BY <1>3, WidthAssumption DEF ClockTypeInv, ElapsedInv, LookInv, Max3
<1> QED
  BY <1>1, <1>2, <1>3 DEF ClockTypeInv

\* A product of naturals is one, and a missed window adds a turn.
LEMMA LateByTurns ==
    ASSUME NEW n \in Nat
    PROVE  n * Width \in Nat /\ (n + 1) * Width = n * Width + Width /\ 0 * Width = 0
BY WidthAssumption

LEMMA ClockInvInit == ClockInit => ClockInv
BY WidthAssumption DEF ClockInit, ClockInv, ClockTypeInv, Max3

\* A tick: a window an interrupt hides takes a turn off what is left to account for.
LEMMA CountKeeps == ClockInv /\ Count => ClockInv'
<1> SUFFICES ASSUME ClockInv, Count PROVE ClockInv'
  OBVIOUS
<1>1. missed' \in Nat
  BY DEF Count, ClockInv, ClockTypeInv
<1>2. CASE look = "idle"
  BY <1>1, <1>2, WidthAssumption DEF ClockInv, ClockTypeInv, Count, Max3
<1>3. CASE look # "idle"
  <2>0. ClockTypeInv /\ ElapsedInv /\ LookInv
    BY <1>3 DEF ClockInv
  <2>1. /\ ClockTypeInv /\ ElapsedInv /\ LookInv
        /\ Net < Width /\ Net \in Int
        /\ look = "upper" => Net < asked + MaxGap
    <3> HIDE DEF Net
    <3>1. Net \in Int  BY <2>0 DEF ElapsedInv
    <3> QED  BY <1>3, <2>0, <3>1, InvOnTime, WidthAssumption
  <2>2. /\ elapsed' = elapsed + 1 /\ gap' = gap + 1 /\ gap < MaxGap
        /\ UNCHANGED <<look, c_T1TC, next_T1TC, asked>>
        /\ missed' = IF WindowHidden THEN missed + 1 ELSE missed
    BY <1>3, <2>1 DEF Count, ClockTypeInv
  <2>3. T1TC' = IF T1TC = Width - 1 THEN 0 ELSE T1TC + 1
    BY DEF Count
  <2>4. ClockTypeInv'
    BY <1>1, <2>1, <2>2, <2>3, WidthAssumption DEF ClockTypeInv, Max3
  <2>5. Net' = IF WindowHidden THEN Net + 1 - Width ELSE Net + 1
    <3>1. missed * Width \in Nat /\ (missed + 1) * Width = missed * Width + Width
      BY <2>1, LateByTurns DEF ClockTypeInv
    <3>2. elapsed \in Nat /\ Width \in Nat
      BY <2>1, WidthAssumption DEF ClockTypeInv
    <3>3. CASE WindowHidden
      <4>1. Late' = Late + Width  BY <2>2, <3>1, <3>3 DEF Late
      <4>2. Late \in Nat  BY <3>1 DEF Late
      <4> QED  BY <2>2, <3>2, <3>3, <4>1, <4>2 DEF Net
    <3>4. CASE ~WindowHidden
      <4>1. Late' = Late  BY <2>2, <3>4 DEF Late
      <4>2. Late \in Nat  BY <3>1 DEF Late
      <4> QED  BY <2>2, <3>2, <3>4, <4>1, <4>2 DEF Net
    <3> QED  BY <3>3, <3>4
  <2>6. gap \in 0 .. MaxGap /\ elapsed \in Nat /\ missed \in Nat
    BY <2>1 DEF ClockTypeInv
  <2>7. CASE WindowHidden
    <3>1. look = "upper" /\ T1TC' = Low /\ next_T1TC < c_T1TC
      BY <2>1, <2>7 DEF WindowHidden, LookInv
    <3>2. c_T1TC + Net = Width + Low - 1
      <4>1. c_T1TC >= Low + Max3
        BY <2>1, <3>1, WidthAssumption DEF ClockTypeInv, ElapsedInv, Max3
      <4> HIDE DEF Net
      <4>2. T1TC = c_T1TC + Net => c_T1TC + Net >= Low
        BY <2>1, <3>1 DEF LookInv
      <4>3. CASE T1TC = c_T1TC + Net
        <5>1. T1TC = Width - 1
          BY <2>1, <2>3, <3>1, <4>2, <4>3, WidthAssumption DEF ClockTypeInv
        <5> QED
          BY <2>1, <2>3, <3>1, <5>1, <4>3, WidthAssumption DEF ClockTypeInv
      <4>4. CASE T1TC = c_T1TC + Net - Width
        BY <2>1, <2>3, <3>1, <4>4, WidthAssumption DEF ClockTypeInv
      <4> QED
        BY <2>1, <4>3, <4>4 DEF ElapsedInv
    <3>3. c_T1TC + Net' = Low /\ Net' = Low - c_T1TC
      BY <2>1, <2>5, <2>7, <3>2, WidthAssumption DEF ClockTypeInv
    <3> HIDE DEF Net
    <3>4. Net' \in Int
      BY <2>1, <2>5, WidthAssumption
    <3>5. Net' < Width /\ c_T1TC \in 0 .. Width - 1 /\ next_T1TC \in 0 .. Width - 1
      BY <2>1, <2>5, <2>7, WidthAssumption DEF ClockTypeInv
    <3>6. ElapsedInv'
      <4>1. next_T1TC' \in {c_T1TC' + asked', c_T1TC' + asked' - Width} /\ next_T1TC' < c_T1TC'
        BY <2>1, <2>2, <3>1 DEF ElapsedInv
      <4>2. T1TC' = c_T1TC' + Net'
        BY <2>2, <3>1, <3>3
      <4>3. ~(next_T1TC' >= c_T1TC')
        BY <2>2, <3>1, <3>5, WidthAssumption
      <4> QED
        BY <3>4, <3>5, <4>1, <4>2, <4>3, WidthAssumption DEF ElapsedInv
    <3>7. LookInv'
      <4>1. look' = "upper" /\ next_T1TC' < c_T1TC' /\ gap' \in Nat /\ c_T1TC' = c_T1TC
        BY <2>2, <2>6, <3>1, WidthAssumption
      <4>2. c_T1TC' + (Net' - gap') < Width /\ c_T1TC' + Net' >= Low /\ T1TC' = c_T1TC' + Net'
        <5>1. Low \in Int /\ Width \in Int /\ Low < Width /\ c_T1TC \in Int
          BY <3>5, WidthAssumption
        <5>2. gap \in Int /\ gap + 1 >= 0
          BY <2>6, WidthAssumption
        <5>3. gap' = gap + 1 /\ c_T1TC' = c_T1TC
          BY <2>2
        <5>4. Net' = Low - c_T1TC
          BY <3>3
        <5>5. c_T1TC + ((Low - c_T1TC) - (gap + 1)) < Width
          BY <5>1, <5>2
        <5> QED  BY <3>1, <3>3, <5>1, <5>3, <5>4, <5>5
      <4> QED
        BY <4>1, <4>2 DEF LookInv
    <3> QED
      BY <1>3, <2>4, <3>6, <3>7 DEF ClockInv
  <2>8. CASE ~WindowHidden
    <3> HIDE DEF Net
    <3>1. Net' = Net + 1 /\ missed' = missed
      BY <2>2, <2>5, <2>8
    <3>2. ElapsedInv'
      BY <2>1, <2>2, <2>3, <2>6, <3>1, WidthAssumption DEF ClockTypeInv, ElapsedInv, Max3
    <3>3. Net' - gap' = Net - gap
      BY <2>1, <2>2, <2>6, <3>1
    <3>4. look = "upper" => c_T1TC + Net' >= Low /\ (T1TC' = c_T1TC + Net' \/ T1TC' < Low)
      <4> SUFFICES ASSUME look = "upper"
                   PROVE  c_T1TC + Net' >= Low /\ (T1TC' = c_T1TC + Net' \/ T1TC' < Low)
        OBVIOUS
      <4>1. c_T1TC + Net >= Low /\ c_T1TC + (Net - gap) < Width
        BY <2>1 DEF LookInv
      <4>2. CASE T1TC = c_T1TC + Net /\ T1TC < Width - 1
        BY <2>1, <2>3, <3>1, <4>1, <4>2, WidthAssumption DEF ClockTypeInv
      <4>3. CASE T1TC = Width - 1
        <5>1. CASE T1TC = c_T1TC + Net
          <6>1. T1TC' = 0 /\ c_T1TC + Net' = Width
            BY <2>1, <2>3, <3>1, <4>3, <5>1, WidthAssumption DEF ClockTypeInv
          <6> QED
            BY <6>1, WidthAssumption
        <5>2. CASE T1TC < Low
          BY <4>3, <5>2, WidthAssumption
        <5> QED
          BY <2>1, <5>1, <5>2 DEF LookInv
      <4>4. CASE T1TC < Low
        <5>1. T1TC' = T1TC + 1 /\ T1TC' <= Low
          BY <2>1, <2>3, <4>4, WidthAssumption DEF ClockTypeInv
        <5>2. T1TC = c_T1TC + Net - Width
          BY <2>1, <4>1, <4>4, WidthAssumption DEF ElapsedInv, ClockTypeInv
        <5>3. CASE T1TC' = Low
          <6>1. gap' > Low
            BY <2>1, <2>2, <2>6, <4>1, <5>1, <5>2, <5>3, WidthAssumption DEF ClockTypeInv
          <6> QED
            BY <2>8, <5>3, <6>1 DEF WindowHidden
        <5>4. CASE T1TC' < Low
          BY <2>1, <3>1, <4>1, <5>4, WidthAssumption DEF ClockTypeInv
        <5> QED
          BY <5>1, <5>3, <5>4, WidthAssumption DEF ClockTypeInv
      <4>5. T1TC < Low \/ T1TC = c_T1TC + Net
        BY <2>1 DEF LookInv
      <4>6. T1TC < Width - 1 \/ T1TC = Width - 1
        BY <2>1, WidthAssumption DEF ClockTypeInv
      <4> QED
        BY <4>2, <4>3, <4>4, <4>5, <4>6
    <3>5. LookInv'
      BY <2>1, <2>2, <2>6, <3>1, <3>3, <3>4, WidthAssumption DEF ClockTypeInv, LookInv
    <3> QED
      BY <1>3, <2>4, <3>2, <3>5 DEF ClockInv
  <2> QED
    BY <2>7, <2>8
<1> QED
  BY <1>2, <1>3

LEMMA StartKeeps == ASSUME NEW d \in Delays PROVE ClockInv /\ DelayStart(d) => ClockInv'
<1> SUFFICES ASSUME ClockInv, DelayStart(d) PROVE ClockInv'
  OBVIOUS
<1> DEFINE ticks == d * Coef
<1>1. ticks \in 0 .. Width - Low - Max3
  BY DelayAssumption DEF Max3
<1> HIDE DEF ticks
<1>2. /\ c_T1TC' = T1TC /\ T1TC' = T1TC /\ asked' = ticks
      /\ elapsed' = 0 /\ gap' = 0 /\ missed' = 0
      /\ next_T1TC' = (T1TC + ticks) % Width
      /\ look' = IF next_T1TC' < c_T1TC' THEN "upper" ELSE "first"
  BY DEF DelayStart, Wraps, ticks
<1>3. T1TC \in 0 .. Width - 1
  BY DEF ClockInv, ClockTypeInv
<1>4. ticks \in 0 .. Width - 1
  BY <1>1, WidthAssumption DEF Max3
<1>5. next_T1TC' \in {T1TC + ticks, T1TC + ticks - Width} /\ next_T1TC' \in 0 .. Width - 1
  BY <1>2, <1>3, <1>4, WrapsOnce
<1>6. ClockTypeInv'
  BY <1>1, <1>2, <1>3, <1>5, WidthAssumption DEF ClockTypeInv
<1>7. Net' = 0
  BY <1>2, LateByTurns DEF Net, Late
<1> HIDE DEF Net
<1>8. ElapsedInv'
  BY <1>2, <1>3, <1>5, <1>7, WidthAssumption DEF ElapsedInv
<1>9. look' = "upper" => T1TC >= Low
  BY <1>1, <1>2, <1>3, <1>5, WidthAssumption DEF Max3
<1>10. LookInv'
  BY <1>1, <1>2, <1>3, <1>5, <1>7, <1>9, WidthAssumption DEF LookInv
<1> QED
  BY <1>6, <1>8, <1>10 DEF ClockInv

\* A look at the counter that does not end the delay.
LEMMA PollKeeps == ClockInv /\ Poll => ClockInv'
<1> SUFFICES ASSUME ClockInv, Poll PROVE ClockInv'
  OBVIOUS
<1>1. ClockTypeInv /\ look # "idle" /\ ElapsedInv /\ LookInv
  BY DEF ClockInv, Poll, AwaitWrap, FirstTest, SecondTest
<1>2. CASE Return
  BY <1>1, <1>2, WidthAssumption DEF ClockInv, ClockTypeInv, Return, Max3
<1>3. CASE \E p \in {"upper", "first", "second"} : Goto(p)
  <2>1. /\ UNCHANGED <<T1TC, c_T1TC, next_T1TC, asked, elapsed, missed>> /\ gap' = 0
        /\ look' \in {"upper", "first", "second"}
    BY <1>3 DEF Goto
  <2>2. ClockTypeInv' /\ Net' = Net
    BY <1>1, <2>1, WidthAssumption DEF ClockTypeInv, Net, Late
  <2> HIDE DEF Net
  <2>3. ElapsedInv' /\ Net' - gap' = Net
    BY <1>1, <2>1, <2>2, WidthAssumption DEF ElapsedInv
  <2>4. CASE AwaitWrap
    <3>1. look = "upper" /\ look' \in {"upper", "first"} /\ (look' = "upper" <=> T1TC >= Low)
      BY <2>4, <1>1, WidthAssumption DEF AwaitWrap, UpperBits, Goto, ClockTypeInv
    <3>2. Net <= asked + MaxGap /\ next_T1TC < c_T1TC
      BY <1>1, <3>1, InvOnTime, WidthAssumption DEF LookInv, ElapsedInv, ClockTypeInv
    <3>3. CASE T1TC >= Low
      <4>1. look' = "upper" /\ c_T1TC + Net < Width
        BY <1>1, <3>1, <3>3, InvOnTime, WidthAssumption DEF ClockTypeInv, ElapsedInv, LookInv
      <4>2. LookInv'
        BY <1>1, <2>1, <2>2, <2>3, <3>1, <3>2, <4>1, WidthAssumption DEF ClockTypeInv, ElapsedInv, LookInv
      <4> QED
        BY <2>2, <2>3, <4>2 DEF ClockInv
    <3>4. CASE T1TC < Low
      <4>1. look' = "first" /\ c_T1TC + Net >= Width
        BY <1>1, <3>1, <3>4, WidthAssumption DEF ClockTypeInv, ElapsedInv, LookInv
      <4>2. LookInv'
        BY <1>1, <2>1, <2>2, <2>3, <3>2, <4>1, WidthAssumption DEF ClockTypeInv, ElapsedInv, LookInv
      <4> QED
        BY <2>2, <2>3, <4>2 DEF ClockInv
    <3> QED
      BY <1>1, <3>3, <3>4, WidthAssumption DEF ClockTypeInv
  <2>5. CASE FirstTest
    <3>1. look = "first" /\ look' = "second" /\ T1TC < next_T1TC
      BY <2>1, <2>5 DEF FirstTest, Goto, Return
    <3>2. Net <= asked + 2 * MaxGap
      BY <1>1, <3>1, InvOnTime
    <3>3. Net < asked \/ c_T1TC + Net >= Width
      BY <1>1, <3>1, WidthAssumption DEF ClockTypeInv, ElapsedInv
    <3>4. LookInv'
      BY <1>1, <2>1, <2>2, <2>3, <3>1, <3>2, <3>3, WidthAssumption DEF ClockTypeInv, ElapsedInv, LookInv
    <3> QED
      BY <2>2, <2>3, <3>4 DEF ClockInv
  <2>6. CASE SecondTest
    <3>1. look = "second" /\ look' = "first" /\ T1TC > c_T1TC
      BY <2>1, <2>6 DEF SecondTest, Goto, Return
    <3>2. c_T1TC + Net < Width
      BY <1>1, <3>1, InvOnTime, WidthAssumption DEF ClockTypeInv, ElapsedInv
    <3>3. Net <= asked + MaxGap /\ ~(next_T1TC < c_T1TC)
      BY <1>1, <3>1, <3>2, WidthAssumption DEF ClockTypeInv, ElapsedInv, LookInv
    <3>4. LookInv'
      BY <1>1, <2>1, <2>2, <2>3, <3>1, <3>2, <3>3, WidthAssumption DEF ClockTypeInv, ElapsedInv, LookInv
    <3> QED
      BY <2>2, <2>3, <3>4 DEF ClockInv
  <2> QED
    BY <2>4, <2>5, <2>6 DEF Poll
<1> QED
  BY <1>2, <1>3 DEF Poll, AwaitWrap, FirstTest, SecondTest

LEMMA ClockInvStep == ClockInv /\ [ClockNext]_clockVars => ClockInv'
<1> SUFFICES ASSUME ClockInv, [ClockNext]_clockVars PROVE ClockInv'
  OBVIOUS
<1>1. CASE T1Get
  BY <1>1 DEF ClockInv, ClockTypeInv, ElapsedInv, LookInv, Net, Late, T1Get, delayVars
<1>2. CASE UNCHANGED clockVars
  BY <1>2 DEF ClockInv, ClockTypeInv, ElapsedInv, LookInv, Net, Late, clockVars, delayVars
<1> QED
  BY <1>1, <1>2, CountKeeps, StartKeeps, PollKeeps DEF ClockNext

LEMMA ClockIsInvariant == ClockSpec => []ClockInv
<1> QED
  BY ClockInvInit, ClockInvStep, PTL DEF ClockSpec

-----------------------------------------------------------------------------
\* For every counter, delay and length of interrupts: a delay is late by three of
\* them and by a turn for each window one of them hid, whatever their length.
THEOREM DelayIsOnTime == ClockSpec => []DelayOnTime
<1>1. ClockInv => DelayOnTime
  BY InvOnTime, LateByTurns, WidthAssumption
  DEF ClockInv, ClockTypeInv, ElapsedInv, DelayOnTime, Max3, Net, Late
<1> QED
  BY <1>1, ClockIsInvariant, PTL

\* A delay that reaches its target without a wrap is never short.
THEOREM UnwrappedDelayIsLongEnough == ClockSpec => UnwrappedDelayLasts
<1> DEFINE Enough == (look # "idle" /\ look' = "idle" /\ next_T1TC >= c_T1TC)
                        => elapsed >= asked
<1>1. ClockInv /\ [ClockNext]_clockVars => [Enough]_clockVars
  <2> SUFFICES ASSUME ClockInv, ClockNext, look # "idle", look' = "idle",
                      next_T1TC >= c_T1TC
               PROVE  elapsed >= asked
    OBVIOUS
  <2>1. ClockTypeInv /\ ElapsedInv /\ LookInv
    BY DEF ClockInv
  <2>2. FirstTest \/ SecondTest
    BY DEF ClockNext, Poll, Count, DelayStart, Wraps, T1Get, delayVars, AwaitWrap, Goto
  <2>3. missed = 0 /\ elapsed \in Nat /\ Net = elapsed
    BY <2>1, LateByTurns DEF ClockTypeInv, ElapsedInv, Net, Late
  <2> HIDE DEF Net
  <2>4. next_T1TC = c_T1TC + asked
    BY <2>1, WidthAssumption, <2>3 DEF ClockTypeInv, ElapsedInv, Max3
  <2>5. CASE FirstTest
    <3>1. T1TC >= next_T1TC
      BY <2>1, <2>5 DEF FirstTest, Goto, ClockTypeInv
    <3> QED
      BY <2>1, <2>3, <2>4, <3>1, WidthAssumption DEF ClockTypeInv, ElapsedInv
  <2>6. CASE SecondTest
    <3>1. elapsed > 0 /\ T1TC <= c_T1TC
      BY <2>1, <2>6 DEF SecondTest, Goto, ClockTypeInv
    <3> QED
      BY <2>1, <2>3, <2>4, <3>1, WidthAssumption DEF ClockTypeInv, ElapsedInv
  <2> QED
    BY <2>2, <2>5, <2>6
<1> QED
  BY <1>1, ClockIsInvariant, PTL DEF ClockSpec, UnwrappedDelayLasts
-----------------------------------------------------------------------------
(* The readings of the clock.                                              *)

\* A reading is made of what t1_get_us stored, and the counter is as far from
\* the last one as time has passed, at most one wrap on.
ReadingInv ==
    /\ T1TC \in 0 .. Width - 1 /\ last \in 0 .. Width - 1 /\ ovf \in 0 .. Width - 1
    /\ ago \in 0 .. Width
    /\ reading = (last \div Coef + ovf) % Width
    /\ ago < Width => T1TC = last + ago \/ T1TC = last + ago - Width

\* What is left over by a division is less than the unit.
LEMMA UnitsOf ==
    ASSUME NEW t \in 0 .. Width - 1
    PROVE  /\ t \div Coef \in 0 .. t
           /\ t - Coef < (t \div Coef) * Coef /\ (t \div Coef) * Coef <= t
<1>1. Coef \in Nat /\ Coef > 0 /\ t \in Nat  BY WidthAssumption
<1>2. t \div Coef \in Int /\ t = Coef * (t \div Coef) + (t % Coef) /\ t % Coef \in 0 .. Coef - 1
  BY <1>1
<1> DEFINE q == t \div Coef
           r == t % Coef
<1>3. q \in Int /\ r \in 0 .. Coef - 1 /\ t = Coef * q + r
  BY <1>2
<1> HIDE DEF q, r
<1>4. q >= 0
  BY <1>1, <1>3
<1>5. q <= t
  BY <1>1, <1>3, <1>4
<1>6. q * Coef = t - r
  BY <1>1, <1>3
<1> QED
  BY <1>1, <1>3, <1>4, <1>5, <1>6, WidthAssumption DEF q

\* A difference of two counts, taken to the width of a count.
LEMMA DifferenceWraps ==
    ASSUME NEW a \in 0 .. Width - 1, NEW b \in 0 .. Width - 1
    PROVE  /\ (a - b) % Width \in {a - b, a - b + Width}
           /\ (a - b) % Width \in 0 .. Width - 1
<1>1. CASE a >= b
  BY <1>1, WidthAssumption
<1>2. CASE a < b
  <2>1. a - b = (a - b + Width) + (-1) * Width /\ a - b + Width \in 0 .. Width - 1
    BY <1>2, WidthAssumption
  <2> QED
    BY <1>2, <2>1, WidthAssumption
<1> QED
  BY <1>1, <1>2

\* The two sums a reading is made of, and what they differ by, each come out at
\* most one width off: the difference is right when it is less than the width.
LEMMA WidthsCancel ==
    ASSUME NEW p \in 0 .. Width - 1, NEW q \in 0 .. Width - 1, NEW w \in 0 .. Width - 1,
           NEW o \in 0 .. Width - 1, NEW n \in 0 .. Width - 1,
           NEW r \in 0 .. Width - 1, NEW s \in 0 .. Width - 1, NEW u \in 0 .. Width - 1,
           r \in {p + o, p + o - Width}, n \in {o + w, o + w - Width},
           s \in {q + n, q + n - Width}, u \in {s - r, s - r + Width},
           q + w - p \in 0 .. Width - 1
    PROVE  u = q + w - p
<1>1. Width \in Nat  BY WidthAssumption
<1>2. s - r = q + w - p \/ s - r = q + w - p + Width \/ s - r = q + w - p - Width
      \/ s - r = q + w - p - 2 * Width
  BY <1>1
<1> QED  BY <1>1, <1>2

LEMMA ReadingInvInit == ClockInit => ReadingInv
<1> SUFFICES ASSUME ClockInit PROVE ReadingInv  OBVIOUS
<1>1. 0 \div Coef = 0  BY WidthAssumption
<1>2. (0 \div Coef + 0) % Width = 0  BY <1>1, WidthAssumption
<1> QED  BY <1>2, WidthAssumption DEF ClockInit, ReadingInv

LEMMA ReadingInvStep == ReadingInv /\ [ClockNext]_clockVars => ReadingInv'
<1> SUFFICES ASSUME ReadingInv, [ClockNext]_clockVars PROVE ReadingInv'
  OBVIOUS
<1>1. CASE Count
  <2>1. UNCHANGED <<last, ovf, reading>>  BY <1>1 DEF Count
  <2>2. /\ T1TC' = IF T1TC = Width - 1 THEN 0 ELSE T1TC + 1
        /\ ago' = IF ago < Width THEN ago + 1 ELSE ago
    BY <1>1 DEF Count
  <2> QED
    BY <2>1, <2>2, WidthAssumption DEF ReadingInv
<1>2. CASE T1Get
  <2>1. /\ T1TC' = T1TC /\ last' = T1TC /\ ago' = 0
        /\ ovf' = IF T1TC < last THEN (ovf + OvfInc) % Width ELSE ovf
        /\ reading' = (last' \div Coef + ovf') % Width
    BY <1>2 DEF T1Get, Remember, delayVars
  <2>2. OvfInc \in 0 .. Width - 1
    <3>1. Width - 1 \in 0 .. Width - 1  BY WidthAssumption
    <3> QED  BY <3>1, UnitsOf DEF OvfInc
  <2>3. ovf' \in 0 .. Width - 1
    BY <2>1, <2>2, WrapsOnce DEF ReadingInv
  <2> QED
    BY <2>1, <2>3, WidthAssumption DEF ReadingInv
<1>3. ASSUME UNCHANGED <<T1TC, getVars>> PROVE ReadingInv'
  BY <1>3 DEF ReadingInv, getVars
<1>4. CASE (\E d \in Delays : DelayStart(d)) \/ Poll
  <2>1. UNCHANGED <<T1TC, getVars>>
    BY <1>4 DEF DelayStart, Poll, AwaitWrap, FirstTest, SecondTest, Goto, Return
  <2> QED  BY <2>1, <1>3
<1>5. CASE UNCHANGED clockVars
  BY <1>3, <1>5 DEF clockVars
<1> QED
  BY <1>1, <1>2, <1>4, <1>5 DEF ClockNext

LEMMA TellsTime ==
    ASSUME ReadingInv, T1Get, ago < Width
    PROVE  LET units == (reading' - reading) % Width
           IN  ago - 2 * Coef <= units * Coef /\ units * Coef < ago + Coef
<1> DEFINE p == last \div Coef
           q == T1TC \div Coef
           w == OvfInc
           units == (reading' - reading) % Width
<1>1. /\ last \in 0 .. Width - 1 /\ T1TC \in 0 .. Width - 1 /\ ovf \in 0 .. Width - 1
      /\ Width \in Nat /\ Coef \in Nat \ {0} /\ ago \in 0 .. Width - 1
      /\ T1TC = last + ago \/ T1TC = last + ago - Width
  BY WidthAssumption DEF ReadingInv
<1>2. /\ p \in 0 .. last /\ last - Coef < p * Coef /\ p * Coef <= last
      /\ q \in 0 .. T1TC /\ T1TC - Coef < q * Coef /\ q * Coef <= T1TC
  BY <1>1, UnitsOf
<1>3. w \in 0 .. Width - 1 /\ Width - 1 - Coef < w * Coef /\ w * Coef <= Width - 1
  BY <1>1, UnitsOf DEF OvfInc
<1>4. p <= w
  <2>1. last <= Width - 1  BY <1>1
  <2> HIDE DEF p, w
  <2>2. p * Coef < (w + 1) * Coef
    <3>1. p * Coef \in Int /\ w * Coef \in Int  BY <1>1, <1>2, <1>3
    <3>2. (w + 1) * Coef = w * Coef + Coef  BY <1>1, <1>3
    <3> QED  BY <1>1, <1>2, <1>3, <2>1, <3>1, <3>2
  <2>3. p < w + 1 
    <3>1. SUFFICES ASSUME p >= w + 1 PROVE FALSE  BY <1>1, <1>2, <1>3
    <3>2. p * Coef >= (w + 1) * Coef  BY <3>1, <1>1, <1>2, <1>3
    <3> QED BY <3>2, <2>2, <1>1, <1>2, <1>3
  <2> QED  BY <2>3, <1>1, <1>2, <1>3
<1>5. /\ reading = (p + ovf) % Width
      /\ reading' = (q + ovf') % Width
      /\ ovf' = IF T1TC < last THEN (ovf + w) % Width ELSE ovf
  BY DEF ReadingInv, T1Get
<1> HIDE DEF p, q, w
<1>9. p \in 0 .. Width - 1 /\ q \in 0 .. Width - 1
  BY <1>1, <1>2
<1>6. /\ reading \in {p + ovf, p + ovf - Width} /\ reading \in 0 .. Width - 1
  BY <1>1, <1>9, <1>5, WrapsOnce
<1>7. CASE T1TC < last
  <2>1. ovf' \in {ovf + w, ovf + w - Width} /\ ovf' \in 0 .. Width - 1
    BY <1>1, <1>3, <1>5, <1>7, WrapsOnce
  <2>2. reading' \in {q + ovf', q + ovf' - Width} /\ reading' \in 0 .. Width - 1
    BY <1>1, <1>9, <1>5, <2>1, WrapsOnce
  <2>3. units \in {reading' - reading, reading' - reading + Width} /\ units \in 0 .. Width - 1
    BY <1>6, <2>2, DifferenceWraps
  <2>4. q + w - p \in 0 .. Width - 1
    <3>1. q <= p
      <4>1. SUFFICES ASSUME q >= p + 1 PROVE FALSE  BY <1>1, <1>2
      <4>2. q * Coef >= (p + 1) * Coef  BY <4>1, <1>1, <1>2
      <4>3. (p + 1) * Coef = p * Coef + Coef BY <1>1, <1>2
      <4> QED  BY <4>2, <4>3, <1>1, <1>2, <1>7
    <3> QED  BY <3>1, <1>1, <1>2, <1>3, <1>4
  <2> HIDE DEF units
  <2>5. units = q + w - p
    BY <1>9, <1>3, <1>6, <1>1, <2>1, <2>2, <2>3, <2>4, WidthsCancel
  <2>6. units * Coef = q * Coef + w * Coef - p * Coef
    BY <2>5, <1>1, <1>2, <1>3
  <2>7. T1TC = last + ago - Width  BY <1>1, <1>7
  <2>8. q * Coef \in Int /\ w * Coef \in Int /\ p * Coef \in Int /\ units * Coef \in Int
    BY <1>1, <1>2, <1>3, <2>3
  <2>9. ago - 2 * Coef <= units * Coef /\ units * Coef < ago + Coef
    BY <2>6, <2>7, <2>8, <1>1, <1>2, <1>3
  <2> QED  BY <2>9 DEF units
<1>8. CASE T1TC >= last
  <2>1. ovf' = ovf  BY <1>1, <1>5, <1>8
  <2>2. reading' \in {q + ovf, q + ovf - Width} /\ reading' \in 0 .. Width - 1
    BY <1>1, <1>9, <1>5, <2>1, WrapsOnce
  <2>3. units \in {reading' - reading, reading' - reading + Width} /\ units \in 0 .. Width - 1
    BY <1>6, <2>2, DifferenceWraps
  <2>4. q - p \in 0 .. Width - 1
    <3>1. q >= p
      <4>1. SUFFICES ASSUME p >= q + 1 PROVE FALSE  BY <1>1, <1>2
      <4>2. p * Coef >= (q + 1) * Coef  BY <4>1, <1>1, <1>2
      <4>3. (q + 1) * Coef = q * Coef + Coef BY <1>1, <1>2
      <4> QED  BY <4>2, <4>3, <1>1, <1>2, <1>8
    <3> QED  BY <3>1, <1>1, <1>2
  <2> HIDE DEF units
  <2>5. units = q - p
    <3>1. 0 \in 0 .. Width - 1 /\ ovf \in {ovf + 0, ovf + 0 - Width}
          /\ q + 0 - p \in 0 .. Width - 1
      BY <1>1, <1>9, <2>4
    <3>2. units = q + 0 - p
      BY <1>9, <1>6, <1>1, <2>2, <2>3, <3>1, WidthsCancel
    <3> QED  BY <3>2, <1>1, <1>9
  <2>6. units * Coef = q * Coef - p * Coef
    BY <2>5, <1>1, <1>2
  <2>7. T1TC = last + ago
    BY <1>1, <1>8
  <2>8. q * Coef \in Int /\ p * Coef \in Int /\ units * Coef \in Int
    BY <1>1, <1>2, <2>3
  <2>9. ago - 2 * Coef <= units * Coef /\ units * Coef < ago + Coef
    BY <2>6, <2>7, <2>8, <1>1, <1>2
  <2> QED  BY <2>9 DEF units
<1> QED
  BY <1>1, <1>7, <1>8

\* Two readings tell the time between them, whatever wrapped: for every width
\* of the counter and unit of time.  t1_get_us sees a wrap as a count below the
\* last one, and what it adds to ovf_t1tc for it is never less than what the
\* count has lost.
THEOREM ReadingsAreTrue == ClockSpec => ReadingsTellTime
<1> DEFINE units == (reading' - reading) % Width
           Tells == (ago' = 0 /\ ago < Width) =>
                       ago - 2 * Coef <= units * Coef /\ units * Coef < ago + Coef
<1>1. ReadingInv /\ [ClockNext]_clockVars => [Tells]_clockVars
  <2> SUFFICES ASSUME ReadingInv, ClockNext, ago' = 0, ago < Width
               PROVE  ago - 2 * Coef <= units * Coef /\ units * Coef < ago + Coef
    OBVIOUS
  <2>1. CASE T1Get
    BY <2>1, TellsTime
  <2>2. CASE ~T1Get
    <3>1. ~Count
      BY DEF Count, ReadingInv
    <3>2. (\E d \in Delays : DelayStart(d)) \/ Poll
      BY <2>2, <3>1 DEF ClockNext
    <3>3. ago' = ago /\ reading' = reading
      BY <3>2 DEF DelayStart, Poll, AwaitWrap, FirstTest, SecondTest, Goto, Return, getVars
    <3>4. ago = 0  BY <3>3
    <3>5. reading \in 0 .. Width - 1
      <4>1. last \div Coef \in 0 .. Width - 1
        <5>1. last \div Coef \in 0 .. last /\ last \in 0 .. Width - 1
          BY UnitsOf DEF ReadingInv
        <5> QED  BY <5>1, WidthAssumption
      <4> QED  BY <4>1, WrapsOnce DEF ReadingInv
    <3>6. units = 0
      BY <3>3, <3>5, WidthAssumption
    <3> QED  BY <3>4, <3>6, WidthAssumption
  <2> QED  BY <2>1, <2>2
<1> QED
  BY <1>1, ReadingInvInit, ReadingInvStep, PTL DEF ClockSpec, ReadingsTellTime
=============================================================================
