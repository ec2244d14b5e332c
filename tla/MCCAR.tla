------------------------------- MODULE MCCAR -------------------------------
(***************************************************************************)
(* Instances of CAR for TLC, with two or three latches.                    *)
(***************************************************************************)
EXTENDS CAR

Off(x) == <<x, FALSE>>
On(x) == <<x, TRUE>>

\* The functions of the systems below are made of gates of their own.
NoSharedGates(sys, s, in) == <<>>

-----------------------------------------------------------------------------
(* The engine runs forward or backward, with the options the paper calls   *)
(* for, which are the defaults, or with all of them the other way.         *)

Uniform(fwd, default) ==
    [ forward |-> fwd, propagateCores |-> default, repush |-> ~default,
      mucBlocked |-> default, mucPredecessor |-> default ]

BothWays == {Uniform(fwd, default) : fwd, default \in BOOLEAN}

MinimalCores == {c \in ConfigurationType : c.mucBlocked /\ c.mucPredecessor}

DefaultForward == {Uniform(TRUE, TRUE)}

DefaultBackward == {Uniform(FALSE, TRUE)}

-----------------------------------------------------------------------------
(* Two latches and one input valuation: every transition function.         *)

SystemsOfTwo ==
    [ init  : {{Off(1), Off(2)}, {On(1)}},
      next  : [States \X Inputs -> States],
      error : {{s \in States : s[1] /\ s[2]} \X Inputs} ]

-----------------------------------------------------------------------------
(* Three latches and the input valuations 0 and 1: systems whose cotraces  *)
(* become longer than their traces.                                        *)

FromStep(step(_, _)) == [si \in States \X Inputs |-> step(si[1], si[2])]

\* The system with all latches reset to zero, the step function and the error.
FromZero(step(_, _), error(_, _)) ==
    [ init  |-> {Off(x) : x \in Latches},
      next  |-> FromStep(step),
      error |-> {si \in States \X Inputs : error(si[1], si[2])} ]

\* A shift register fed by the input.
Shift(s, in) == [x \in Latches |-> IF x = 1 THEN in = 1 ELSE s[x - 1]]

\* A counter the input can hold, with latch 1 as the lowest bit.
Count(s, in) ==
    IF in = 1 THEN s ELSE [x \in Latches |-> s[x] # \A y \in 1 .. x - 1 : s[y]]

\* The same, except that it stops at three.
CountToThree(s, in) == IF s[1] /\ s[2] /\ ~s[3] THEN s ELSE Count(s, in)

\* The error is six steps from the initial state.
CountersToSix == {FromZero(Count, LAMBDA s, in : ~s[1] /\ s[2] /\ s[3])}

SystemsOfThree ==
    CountersToSix \cup
    { FromZero(Shift, LAMBDA s, in : s[2] /\ s[3]),
      FromZero(Shift, LAMBDA s, in : s[2] /\ s[3] /\ in = 1),
      FromZero(CountToThree, LAMBDA s, in : s[3]) }

-----------------------------------------------------------------------------
(* A register that is loaded with the negated input, and an error that     *)
(* needs an input of 1 once it is loaded.                                  *)

LoadNegated(s, in) == [x \in Latches |-> in = 0]

LoadingSystems == {FromZero(LoadNegated, LAMBDA s, in : s[1] /\ in = 1)}
=============================================================================
