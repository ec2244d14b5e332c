------------------------------- MODULE MCPDR -------------------------------
(***************************************************************************)
(* Instances of PDR for TLC. The latches are 1, 2 and, in some, 3.         *)
(***************************************************************************)
EXTENDS PDR

Off(x) == <<x, FALSE>>
On(x) == <<x, TRUE>>

-----------------------------------------------------------------------------
(* Two latches and one input valuation: every transition function, with    *)
(* initial cubes that leave both, one or no latch open and with a latch    *)
(* that resets to one, and an error of one or of two states.               *)

SystemsOfTwo ==
    [ init  : {{}, {Off(1)}, {Off(1), Off(2)}, {On(1), Off(2)}},
      next  : [States \X Inputs -> States],
      error : {{s \in States : s[2]} \X Inputs, {s \in States : s[1] /\ s[2]} \X Inputs} ]

-----------------------------------------------------------------------------
(* Three latches and two input valuations: systems with long traces. The   *)
(* error may depend on the inputs.                                         *)

FromStep(step(_, _)) == [si \in States \X Inputs |-> step(si[1], si[2])]

\* A shift register fed by the input.
Shift(s, in) == [x \in Latches |-> IF x = 1 THEN in = 1 ELSE s[x - 1]]

\* A counter the input can hold, with latch 1 as the lowest bit.
Count(s, in) ==
    IF in = 1 THEN s
    ELSE [x \in Latches |-> s[x] # \A y \in 1 .. x - 1 : s[y]]

\* A ring whose last latch the input can hold.
Ring(s, in) ==
    [x \in Latches |-> IF x = 1 THEN s[3] ELSE IF x = 2 \/ in = 1 THEN s[x - 1] ELSE s[3]]

SystemsOfThree ==
    [ init  : {{Off(1), Off(2), Off(3)}, {Off(1), On(3)}},
      next  : {FromStep(Shift), FromStep(Count), FromStep(Ring)},
      error : {E \X I : E \in {{s \in States : s[2] /\ s[3]}, {s \in States : \A x \in Latches : s[x]}},
                        I \in {Inputs, {1}}} ]
=============================================================================
