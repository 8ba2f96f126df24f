------------------------------- MODULE PwmIn -------------------------------
(***************************************************************************)
(* Pulse measurement on the capture inputs of timer 1                      *)
(* (src/espardino/pwm_in.c).  An edge of the kind an input waits for       *)
(* copies the counter into T1CR and raises the input's bit in T1IR; one    *)
(* handler serves all inputs in turn, switches each to the other kind of   *)
(* edge, and acknowledges at its end whatever T1IR holds by then.          *)
(*                                                                         *)
(* An edge is its number on its input, 1, 2, 3, ...; odd ones rise.  It    *)
(* stands for the count captured at it, a pair of edges for the length     *)
(* between them.  PWM_in_init has been called for all inputs.              *)
(***************************************************************************)
EXTENDS Naturals, Sequences

CONSTANTS Inputs,   \* how many inputs are measured (4)
          Edges     \* bound: edges of each input

VARIABLES
    edge,       \* edges the input has made
    T1IR,       \* inputs with an interrupt
    T1CR,       \* the edge captured last
    waitsFall,  \* T1CCR: inputs that wait for a falling edge, not a rising one
    at,         \* where CCP_IRQ_T1 is: the input it looks at next, or its end
    seen,       \* what it read from T1IR to write it back
    start,      \* CCP1_start
    measured,   \* CCP1_length, all that were stored: <<start, end>>
    served,     \* history: inputs this run of the handler has served
    lost        \* history: edges captured and acknowledged, but not served

Channels == 0 .. Inputs - 1

\* The end of the handler: T1IR is read, and written back.
ReadsIR  == Inputs
WritesIR == Inputs + 1
Off      == Inputs + 2

Rises(e) == e % 2 = 1

Init ==
    /\ edge = [c \in Channels |-> 0] /\ T1IR = {} /\ T1CR = [c \in Channels |-> 0]
    /\ waitsFall = {} /\ at = Off /\ seen = {}
    /\ start = [c \in Channels |-> 0] /\ measured = [c \in Channels |-> <<>>]
    /\ served = {} /\ lost = [c \in Channels |-> {}]

\* The next edge of an input.  Pulses and pauses are longer than the handler
\* takes: the edge before was acknowledged.
Edge(c) ==
    /\ edge[c] < Edges /\ c \notin T1IR
    /\ edge' = [edge EXCEPT ![c] = @ + 1]
    /\ IF Rises(edge'[c]) <=> c \notin waitsFall
         THEN T1CR' = [T1CR EXCEPT ![c] = edge'[c]] /\ T1IR' = T1IR \cup {c}
         ELSE UNCHANGED <<T1CR, T1IR>>
    /\ UNCHANGED <<waitsFall, at, seen, start, measured, served, lost>>

-----------------------------------------------------------------------------
(* CCP_IRQ_T1.                                                             *)

Enter ==
    /\ at = Off /\ T1IR # {}
    /\ at' = 0 /\ served' = {}
    /\ UNCHANGED <<edge, T1IR, T1CR, waitsFall, seen, start, measured, lost>>

Skip ==
    /\ at \in Channels \ T1IR
    /\ at' = at + 1
    /\ UNCHANGED <<edge, T1IR, T1CR, waitsFall, seen, start, measured, served, lost>>

\* Mutant: the input goes on waiting for the same edge.
SwitchNot(c) == waitsFall' = waitsFall

\* The other kind of edge is waited for.
Switch(c) == waitsFall' = (waitsFall \ {c}) \cup ({c} \ waitsFall)

ServeRise ==
    /\ at \in T1IR \ waitsFall
    /\ start' = [start EXCEPT ![at] = T1CR[at]]
    /\ Switch(at)
    /\ served' = served \cup {at} /\ at' = at + 1
    /\ UNCHANGED <<edge, T1IR, T1CR, seen, measured, lost>>

ServeFall ==
    /\ at \in T1IR \cap waitsFall
    /\ measured' = [measured EXCEPT ![at] = Append(@, <<start[at], T1CR[at]>>)]
    /\ Switch(at)
    /\ served' = served \cup {at} /\ at' = at + 1
    /\ UNCHANGED <<edge, T1IR, T1CR, seen, start, lost>>

\* T1IR = T1IR: an input that came since it was looked at is in it, too.
ReadIR ==
    /\ at = ReadsIR
    /\ seen' = T1IR /\ at' = WritesIR
    /\ UNCHANGED <<edge, T1IR, T1CR, waitsFall, start, measured, served, lost>>

WriteIR ==
    /\ at = WritesIR
    /\ T1IR' = T1IR \ seen
    /\ lost' = [c \in Channels |->
                  IF c \in seen \ served THEN lost[c] \cup {T1CR[c]} ELSE lost[c]]
    /\ at' = Off /\ seen' = {} /\ served' = {}
    /\ UNCHANGED <<edge, T1CR, waitsFall, start, measured>>

Handler == Enter \/ Skip \/ ServeRise \/ ServeFall \/ ReadIR \/ WriteIR

Next == (\E c \in Channels : Edge(c)) \/ Handler

-----------------------------------------------------------------------------
(* Properties.                                                             *)

\* A measurement goes from a rising edge to the falling edge after it, and no
\* pulse is measured twice, left out or mixed with another, however the inputs'
\* edges fall between the steps of the handler; but for an edge the handler
\* acknowledged without having looked at it, which costs its own pulse or
\* stretches it to the end of the next.
PulsesMeasured ==
    \A c \in Channels :
        LET m == measured[c]
        IN /\ \A i \in DOMAIN m :
                /\ Rises(m[i][1]) /\ m[i][1] < m[i][2] /\ ~Rises(m[i][2])
                /\ \A e \in m[i][1] + 1 .. m[i][2] - 1 : Rises(e) \/ e \in lost[c]
                /\ i > 1 => m[i - 1][2] < m[i][1]
           /\ c \notin T1IR \cup waitsFall =>
                \A e \in 1 .. edge[c] :
                    Rises(e) => e \in lost[c] \/ \E i \in DOMAIN m : e \in m[i][1] .. m[i][2]
=============================================================================
