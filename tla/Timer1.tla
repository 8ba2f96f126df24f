------------------------------- MODULE Timer1 -------------------------------
(***************************************************************************)
(* Timer 1 as the clock of the library (src/espardino/delay.c): delay_us   *)
(* waits for the free-running counter to reach a value, t1_get_us and      *)
(* t1_get_ms add up its turns.  The counter wraps, and an interrupt may    *)
(* keep the main program from looking at it for some ticks.                *)
(***************************************************************************)
EXTENDS Integers

CONSTANTS Width,      \* counter and unsigned int hold 0 .. Width - 1 (2^32)
          Low,        \* upper bits are clear below this (256)
          Coef,       \* delay_coef_us or delay_coef_ms, ticks per unit
          Delays,     \* what delay_us is called with
          MaxGap,     \* ticks an interrupt may take between two looks
          MaxMissed   \* bound on the windows one delay may miss

\* No delay is close to a whole turn of the counter.  An interrupt may well be
\* longer than the window delay_us looks for.
ASSUME WidthAssumption ==
    /\ Width \in Nat /\ Low \in Nat \ {0} /\ Coef \in Nat \ {0}
    /\ MaxGap \in Nat \ {0} /\ MaxMissed \in Nat
    /\ Coef < Width /\ Low + 3 * MaxGap < Width
ASSUME DelayAssumption ==
    \A d \in Delays : d * Coef \in 0 .. (Width - Low - 3 * MaxGap)

VARIABLES
    T1TC,
    look,               \* main program: "idle", or the test of delay_us it is at
    c_T1TC, next_T1TC,
    last,             \* last_t1tc
    ovf,              \* ovf_t1tc
    reading,          \* what t1_get returned last
    asked, elapsed,   \* history: the running delay, in ticks
    gap,              \* history: ticks since delay_us last looked
    missed,           \* history: windows an interrupt has hidden from the delay
    ago               \* history: ticks since the last reading, to Width

delayVars == <<look, c_T1TC, next_T1TC, asked, elapsed, gap, missed>>
getVars   == <<last, ovf, reading, ago>>
clockVars == <<T1TC, delayVars, getVars>>

\* delay_init leaves the count alone; its last_t1tc says that the clock was read
\* when the counter was last 0.
ClockInit ==
    /\ T1TC \in 0 .. Width - 1
    /\ look = "idle" /\ c_T1TC = 0 /\ next_T1TC = 0
    /\ asked = 0 /\ elapsed = 0 /\ gap = 0 /\ missed = 0
    /\ last = 0 /\ ovf = 0 /\ reading = 0 /\ ago = T1TC

\* The counter leaves the window delay_us waits for, and one interrupt has lasted
\* since before it got there.
WindowHidden == look = "upper" /\ T1TC' = Low /\ gap' > Low

Count ==
    /\ look # "idle" => gap < MaxGap
    /\ T1TC' = IF T1TC = Width - 1 THEN 0 ELSE T1TC + 1
    /\ IF look = "idle" THEN UNCHANGED <<elapsed, gap>>
                      ELSE elapsed' = elapsed + 1 /\ gap' = gap + 1
    /\ missed' = IF WindowHidden THEN missed + 1 ELSE missed
    /\ missed' <= MaxMissed
    /\ ago' = IF ago < Width THEN ago + 1 ELSE ago
    /\ UNCHANGED <<look, c_T1TC, next_T1TC, asked, last, ovf, reading>>

-----------------------------------------------------------------------------
(* delay_us.                                                               *)

\* "overflow"
Wraps(next, c) == next < c

DelayStart(d) ==
    /\ look = "idle"
    /\ c_T1TC' = T1TC
    /\ next_T1TC' = (T1TC + d * Coef) % Width
    /\ look' = IF Wraps(next_T1TC', c_T1TC') THEN "upper" ELSE "first"
    /\ asked' = d * Coef /\ elapsed' = 0 /\ gap' = 0 /\ missed' = 0
    /\ UNCHANGED <<T1TC, getVars>>

Goto(p) ==
    /\ look' = p /\ gap' = 0
    /\ UNCHANGED <<T1TC, c_T1TC, next_T1TC, asked, elapsed, missed, getVars>>

Return ==
    /\ look' = "idle"
    /\ c_T1TC' = 0 /\ next_T1TC' = 0
    /\ asked' = 0 /\ elapsed' = 0 /\ gap' = 0 /\ missed' = 0
    /\ UNCHANGED <<T1TC, getVars>>

\* Mutant: all bits are waited for.
UpperBitsAll == T1TC # 0

UpperBits == T1TC >= Low

\* "wait while all the upper bits are ON"
AwaitWrap ==
    /\ look = "upper"
    /\ Goto(IF UpperBits THEN "upper" ELSE "first")

\* The loop condition reads the counter twice.
FirstTest ==
    /\ look = "first"
    /\ IF T1TC < next_T1TC THEN Goto("second") ELSE Return

\* Mutant: the loop is reached while the counter still is where it was.
SecondTestAtOnce ==
    /\ look = "second"
    /\ IF T1TC > c_T1TC THEN Goto("first") ELSE Return

\* The counter has moved since delay_us first read it.
SecondTest ==
    /\ look = "second" /\ elapsed > 0
    /\ IF T1TC > c_T1TC THEN Goto("first") ELSE Return

Poll == AwaitWrap \/ FirstTest \/ SecondTest

-----------------------------------------------------------------------------
(* t1_get_us, t1_get_ms.                                                   *)

OvfInc == (Width - 1) \div Coef

\* Mutant: last_t1tc is brought up to date only by a wrap.
RememberWrap == last' = IF T1TC < last THEN T1TC ELSE last

Remember == last' = T1TC

T1Get ==
    /\ look = "idle"
    /\ ovf' = IF T1TC < last THEN (ovf + OvfInc) % Width ELSE ovf
    /\ Remember
    /\ reading' = (T1TC \div Coef + ovf') % Width
    /\ ago' = 0
    /\ UNCHANGED <<T1TC, delayVars>>

-----------------------------------------------------------------------------
ClockNext == Count \/ (\E d \in Delays : DelayStart(d)) \/ Poll \/ T1Get

ClockSpec == ClockInit /\ [][ClockNext]_clockVars

-----------------------------------------------------------------------------
(* Properties.                                                             *)

\* delay.h:70, "Reliable delay is managed thanks to Timer1 control": a delay lasts
\* for the time asked for.
DelayLasts == [][(look # "idle" /\ look' = "idle") => elapsed >= asked]_clockVars

\* A delay whose target the counter reaches without a wrap lasts for the time
\* asked for, even when an interrupt hides the target and the counter wraps while
\* delay_us is between its two readings.
UnwrappedDelayLasts ==
    [][(look # "idle" /\ look' = "idle" /\ next_T1TC >= c_T1TC) => elapsed >= asked]_clockVars

\* A delay is late by no more than three times what an interrupt takes, and by a
\* turn of the counter for every window below Low that one interrupt hid from it,
\* from before the wrap to after: nothing else costs a turn.
DelayOnTime ==
    (look # "idle") => (elapsed <= asked + 3 * MaxGap + missed * Width)

\* Two readings less than a turn of the counter apart differ by the time between
\* them, a unit more or two less, across wraps of the counter and of the reading.
ReadingsTellTime ==
    [][(ago' = 0 /\ ago < Width) =>
          LET units == (reading' - reading) % Width
          IN  ago - 2 * Coef <= units * Coef /\ units * Coef < ago + Coef]_clockVars
=============================================================================
