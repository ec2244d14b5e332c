-------------------------- MODULE TransitionSystem --------------------------
(***************************************************************************)
(* The symbolic transition system that every engine of Geyser works on     *)
(* (transition_system.hpp) and the cubes the engines compute with          *)
(* (logic.hpp).                                                            *)
(*                                                                         *)
(* A state is a valuation of the latches (the state variables).  A         *)
(* valuation of all the input variables is an opaque element of Inputs:    *)
(* the engines only copy whole input valuations out of a model.  The       *)
(* auxiliary Tseitin variables are functions of the state and the inputs,  *)
(* so they are folded into next and error.                                 *)
(***************************************************************************)
EXTENDS Integers, Sequences

CONSTANTS
    Latches,    \* the state variables
    Inputs,     \* the valuations of the input variables
    Systems     \* the transition systems the program may be run on

\* A system without input variables still has their one, empty, valuation.
ASSUME InputsAssumption == Inputs # {}

States == [Latches -> BOOLEAN]

-----------------------------------------------------------------------------
(* Literals and cubes. The pair of a variable and its polarity is a        *)
(* literal; a cube is the set of its literals, which is what the sorted    *)
(* vector of class cube stands for.                                        *)

Literals == Latches \X BOOLEAN

Cubes == SUBSET Literals

\* operator!( literal )
Neg(l) == <<l[1], ~l[2]>>

\* "Assuming the cube doesn't contain a pair of literals with the same
\* variable but different polarities"
Consistent(c) == \A l \in c : Neg(l) \notin c

\* State s is a model of the conjunction of the literals of cube c.
Holds(c, s) == \A l \in c : s[l[1]] = l[2]

\* cube::subsumes: the literals of c are a subset of those of d.
Subsumes(c, d) == c \subseteq d

\* The cube of a whole model, solver::get_model( state_vars ).
CubeOf(s) == {<<x, s[x]>> : x \in Latches}

\* Mutant of GetVars: a variable the cube does not mention is made true.
GetVarsTrue(c) == [x \in Latches |-> <<x, FALSE>> \notin c]

\* The valuation build_counterexample reads out of a cube: a variable the
\* cube does not mention is made false (get_vars).
GetVars(c) == [x \in Latches |-> <<x, TRUE>> \in c]

-----------------------------------------------------------------------------
(* Systems. Init is a cube: each latch has a constant reset or none. The   *)
(* transition relation of an AIG is a total function of the state and the  *)
(* inputs. The error formula ranges over states and inputs.                *)

SystemType ==
    [ init  : {c \in Cubes : Consistent(c)},
      next  : [States \X Inputs -> States],
      error : SUBSET (States \X Inputs) ]

ASSUME SystemsAssumption == Systems \subseteq SystemType

\* The successor of state s under the inputs in.
NextState(sys, s, in) == sys.next[<<s, in>>]

\* Syntactic disjointness from the initial cube: no literal of c is negated
\* in it (pdr::intersects_initial_states).
IntersectsInit(sys, c) == \A l \in c : Neg(l) \notin sys.init

-----------------------------------------------------------------------------
(* What the verdicts mean, stated independently of any engine.             *)

\* Inv is an inductive invariant of sys that excludes the error.
SafeInvariant(sys, Inv) ==
    /\ \A s \in States : Holds(sys.init, s) => s \in Inv
    /\ \A s \in Inv, i \in Inputs : NextState(sys, s, i) \in Inv
    /\ \A s \in Inv, i \in Inputs : <<s, i>> \notin sys.error

\* No reachable state violates the property. The set of reachable states is
\* the least candidate for Inv, so this is safety in the usual sense.
Safe(sys) == \E Inv \in SUBSET States : SafeInvariant(sys, Inv)

\* No initial state is an error and none leads to a step of last. With the steps
\* into an error that a reversed system has as last, the reversed system is safe.
ReversedSafe(sys, last) ==
    /\ \A s \in States, i \in Inputs : Holds(sys.init, s) => <<s, i>> \notin sys.error
    /\ \E Inv \in SUBSET States :
        /\ \A s \in States : Holds(sys.init, s) => s \in Inv
        /\ \A s \in Inv, i \in Inputs : NextState(sys, s, i) \in Inv
        /\ \A s \in Inv, i \in Inputs : <<s, i>> \notin last

\* The state after the first n - 1 of the inputs ins have been applied to s.
StateAt(sys, s, ins, n) ==
    LET run[k \in 1 .. Len(ins)] ==
            IF k = 1 THEN s ELSE NextState(sys, run[k - 1], ins[k - 1])
    IN  run[n]

\* Feeding the inputs ins to sys from state s ends in an error.
ReachesError(sys, s, ins) ==
    /\ ins # <<>>
    /\ <<StateAt(sys, s, ins, Len(ins)), ins[Len(ins)]>> \in sys.error
=============================================================================
