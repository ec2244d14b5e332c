------------------------------- MODULE MCBMC -------------------------------
(***************************************************************************)
(* Instances of BMC for TLC: two latches and two input valuations.         *)
(***************************************************************************)
EXTENDS BMC

MCBounds == {-1, 0, 2, 4}

Off(x) == <<x, FALSE>>
On(x) == <<x, TRUE>>

FromStep(step1(_, _)) == [si \in States \X Inputs |-> step1(si[1], si[2])]

\* A shift register fed by the input.
Shift(s, in) == [x \in Latches |-> IF x = 1 THEN in = 1 ELSE s[1]]

\* A counter the input can hold: the longest way to an error has three steps.
Count(s, in) == IF in = 1 THEN s ELSE [x \in Latches |-> s[x] # (x = 1 \/ s[1])]

\* A pair of latches that swap their values, or keep them.
Swap(s, in) == IF in = 1 THEN s ELSE [x \in Latches |-> s[3 - x]]

\* The initial cubes reset both latches, one or none; the errors are of one or
\* of two states and may depend on the inputs.
MCSystems ==
    [ init  : {{}, {Off(1)}, {Off(1), Off(2)}, {On(1), Off(2)}},
      next  : {FromStep(Shift), FromStep(Count), FromStep(Swap)},
      error : {E \X I : E \in {{s \in States : s[2]}, {s \in States : s[1] /\ s[2]}},
                        I \in {Inputs, {1}}} ]
=============================================================================
