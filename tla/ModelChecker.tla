---------------------------- MODULE ModelChecker ----------------------------
(***************************************************************************)
(* What an engine promises to its caller (engine/base.hpp and the use      *)
(* main.cpp makes of it): it is run on one transition system and returns   *)
(* one result, once. An engine that gives up may return "unknown"; the     *)
(* other two alternatives are claims about the system.                     *)
(***************************************************************************)
EXTENDS TransitionSystem

CONSTANT MayGiveUp      \* TRUE for an engine that explores up to a bound

VARIABLES
    system,     \* the argument of run
    result      \* the returned alternative, "none" before run returns

vars == <<system, result>>

Init ==
    /\ system \in Systems
    /\ result = "none"

\* ok{}
ReturnOk ==
    /\ result = "none"
    /\ result' = "ok"
    /\ Safe(system)
    /\ UNCHANGED system

\* counterexample{ ... }
ReturnCounterexample ==
    /\ result = "none"
    /\ result' = "counterexample"
    /\ ~Safe(system)
    /\ UNCHANGED system

\* unknown{ ... }
ReturnUnknown ==
    /\ MayGiveUp
    /\ result = "none"
    /\ result' = "unknown"
    /\ UNCHANGED system

Next == ReturnOk \/ ReturnCounterexample \/ ReturnUnknown

SafetySpec == Init /\ [][Next]_vars
=============================================================================
