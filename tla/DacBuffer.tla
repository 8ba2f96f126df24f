----------------------------- MODULE DacBuffer -----------------------------
(***************************************************************************)
(* The DAC player (src/espardino/dac.cpp) on a Ticker of timer 0           *)
(* (src/espardino/ticker.cpp): add puts samples into a ring that the timer *)
(* interrupt plays at a fixed rate, without a lock and, but for            *)
(* buffer_p_play, without volatile.                                        *)
(*                                                                         *)
(* The main program stops at every access to memory the interrupt shares;  *)
(* the interrupt runs as one step.  A sample is its position in the stream *)
(* the application adds, 1, 2, 3, ...; 0 is what malloc left in the ring.  *)
(***************************************************************************)
EXTENDS CBuffer, Sequences

CONSTANTS Size,          \* buffer_size
          Samples,       \* how many samples the application adds
          StoresInOrder  \* does the build store a sample before its index?

ASSUME SizeAssumption    == Size \in Nat /\ Size >= 2
ASSUME SamplesAssumption == Samples \in Nat
ASSUME OrderAssumption   == StoresInOrder \in BOOLEAN

VARIABLES
    pc, data,              \* the main program in add, and its sample
    added,                 \* samples the interrupt can see, or has played
    buffer, buffer_p, buffer_p_play,
    ticking,               \* timer 0 runs with tickPlay attached
    played,                \* samples played as new, in order
    dac,                   \* the last value written to DACR
    starved                \* the last tick found nothing new

mainVars == <<pc, data, added>>
ringVars == <<buffer, buffer_p, buffer_p_play>>
tickVars == <<ticking, played, dac, starved>>
vars     == <<mainVars, ringVars, tickVars>>

Slots  == 0 .. (Size - 1)
Values == 0 .. Samples

\* DACBuffer(): no ring, no ticker.
Init ==
    /\ pc = "new" /\ data = 0 /\ added = 0
    /\ buffer = [s \in Slots |-> 0] /\ buffer_p = 0 /\ buffer_p_play = 0
    /\ ticking = FALSE /\ played = <<>> /\ dac = 0 /\ starved = FALSE

-----------------------------------------------------------------------------
(* The main program.                                                       *)

\* setFrequency: a ring, its indices, and the ticker started.
SetFrequency ==
    /\ pc = "new"
    /\ buffer_p' = 0 /\ buffer_p_play' = 0
    /\ ticking' = TRUE
    /\ pc' = "idle"
    /\ UNCHANGED <<data, added, buffer, played, dac, starved>>

Add ==
    /\ pc = "idle" /\ data < Samples
    /\ data' = data + 1
    /\ pc' = "spin"
    /\ UNCHANGED <<added, ringVars, tickVars>>

\* Mutant: the ring may be filled to the last slot.
HasSpaceAlways == TRUE

\* One slot always stays free.
HasSpace == NextIndex(buffer_p, Size) # buffer_p_play

\* Round the do-while until there is space.
AddSpin ==
    /\ pc = "spin" /\ HasSpace
    /\ pc' = IF StoresInOrder THEN "store" ELSE "advance"
    /\ UNCHANGED <<data, added, ringVars, tickVars>>

\* The sample goes to the slot buffer_p named when add looked for space, in
\* whichever order the build stores.
SampleSlot == IF StoresInOrder THEN buffer_p ELSE (buffer_p + Size - 1) % Size

AddStore ==
    /\ pc = "store"
    /\ buffer' = [buffer EXCEPT ![SampleSlot] = data]
    /\ pc' = IF StoresInOrder THEN "advance" ELSE "idle"
    /\ UNCHANGED <<data, added, buffer_p, buffer_p_play, tickVars>>

\* The store to buffer_p that makes the sample visible to the interrupt.
AddAdvance ==
    /\ pc = "advance"
    /\ buffer_p' = NextIndex(buffer_p, Size)
    /\ added' = added + 1
    /\ pc' = IF StoresInOrder THEN "idle" ELSE "store"
    /\ UNCHANGED <<data, buffer, buffer_p_play, tickVars>>

\* ~DACBuffer: the ticker is stopped.
Destroy ==
    /\ pc = "idle"
    /\ ticking' = FALSE
    /\ pc' = "gone"
    /\ UNCHANGED <<data, added, ringVars, played, dac, starved>>

-----------------------------------------------------------------------------
(* The timer interrupt.                                                    *)

\* Mutant: the comparison forgets that the ring wraps.
MovesOnNoWrap == buffer_p_play < buffer_p

\* An underrun leaves the index where it is.
MovesOn == buffer_p_play # buffer_p

\* tickPlay: the slot is played whether its sample is new or not.
Tick ==
    /\ ticking
    /\ dac' = buffer[buffer_p_play]
    /\ starved' = ~MovesOn
    /\ IF MovesOn
         THEN /\ buffer_p_play' = NextIndex(buffer_p_play, Size)
              /\ played' = Append(played, buffer[buffer_p_play])
         ELSE UNCHANGED <<buffer_p_play, played>>
    /\ UNCHANGED <<mainVars, buffer, buffer_p, ticking>>

-----------------------------------------------------------------------------
Driver == AddSpin \/ AddStore \/ AddAdvance
Next == SetFrequency \/ Add \/ Driver \/ Destroy \/ Tick

\* The processor runs and the timer ticks; the application adds as it likes.
Spec == Init /\ [][Next]_vars /\ WF_vars(Driver) /\ WF_vars(Tick)

-----------------------------------------------------------------------------
(* Properties.                                                             *)

\* Every variable keeps its type.
TypeOK ==
    /\ pc \in {"new", "idle", "spin", "store", "advance", "gone"}
    /\ data \in Values /\ added \in Values
    /\ buffer \in [Slots -> Values]
    /\ buffer_p \in Slots /\ buffer_p_play \in Slots
    /\ ticking \in BOOLEAN /\ starved \in BOOLEAN
    /\ played \in Seq(Values) /\ dac \in Values

\* Whatever the interrupt comes between, the samples are played in the order
\* they were added, each once as a new one.
SamplesInOrder == \A i \in 1 .. Len(played) : played[i] = i

\* What an underrun sounds like, since tickPlay plays the slot all the same:
\* the sample add is just storing, one turn of the ring ago, or what malloc
\* left; never one that is still to come or was played in between.
UnderrunSound ==
    starved =>
        LET next == Len(played) + 1
        IN dac \in {next} \cup (IF next > Size THEN {next - Size} ELSE {0})

\* add returns: the wait for space ends.
AddReturns == (pc = "spin") ~> (pc = "idle")

\* The ring is a channel for samples.
Channel == INSTANCE ByteChannel WITH
    Capacity <- Size - 1, accepted <- added, delivered <- played

IsChannel == Channel!Init /\ [][Channel!Next]_(Channel!vars)
=============================================================================
