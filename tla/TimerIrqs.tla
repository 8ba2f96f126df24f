----------------------------- MODULE TimerIrqs -----------------------------
(***************************************************************************)
(* The DAC player on timer 0 and pulse measurement on timer 1 on one       *)
(* processor: each handler runs to its end before the other or the main    *)
(* program goes on (arm_irqs.c nests none), while edges and the main       *)
(* program's loops wait for whoever has the processor.                     *)
(***************************************************************************)
EXTENDS DacBuffer

CONSTANTS Inputs, Edges

ASSUME InputsAssumption == Inputs \in Nat

VARIABLES edge, T1IR, T1CR, waitsFall, at, seen, start, measured, served, lost

Pwm == INSTANCE PwmIn

captureVars == <<edge, T1IR, T1CR, waitsFall, at, seen, start, measured, served, lost>>
allVars     == <<vars, captureVars>>

\* The player has the processor: no capture is being served.
Play == at = Pwm!Off /\ Next /\ UNCHANGED captureVars

Capture == Pwm!Next /\ UNCHANGED vars

AllInit == Init /\ Pwm!Init

AllNext == Play \/ Capture

\* The processor goes on with the handler, then the main program; the timer
\* ticks.
AllSpec ==
    /\ AllInit /\ [][AllNext]_allVars
    /\ WF_allVars(at = Pwm!Off /\ Driver /\ UNCHANGED captureVars)
    /\ WF_allVars(at = Pwm!Off /\ Tick /\ UNCHANGED captureVars)
    /\ WF_allVars(Pwm!Handler /\ UNCHANGED vars)

-----------------------------------------------------------------------------
\* What pwm_in promises of the pulses it measures, while the other handler and
\* the player's main program take their turns.
PulsesMeasured == Pwm!PulsesMeasured
=============================================================================
