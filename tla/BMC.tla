-------------------------------- MODULE BMC --------------------------------
(***************************************************************************)
(* The bounded model checking engine, engine/bmc.hpp and engine/bmc.cpp,   *)
(* run on one transition system.                                           *)
(*                                                                         *)
(* The engine asks one query per step. What it has put into the solver is  *)
(* kept as the set of steps whose transition formula and the set of steps  *)
(* whose guarded error formula are there; the answer of the solver is any  *)
(* model of them. The assertions of the code are compiled out of a release *)
(* build, so they are properties and not guards.                           *)
(***************************************************************************)
EXTENDS TransitionSystem

CONSTANTS
    Bounds,             \* the values of the option -k, any integers
    SolverRefreshRate   \* bmc::solver_refresh_rate

ASSUME BoundsAssumption == Bounds \subseteq Int

ASSUME RefreshAssumption == SolverRefreshRate \in Nat \ {0}

VARIABLES
    system,     \* _system
    bound,      \* the value of -k
    pc,         \* where in run and check_for the program is
    step,       \* the variable i of run
    solver,     \* the formulas in _solver
    activators, \* _activators, each named by the step it was made for
    versions,   \* the number of versions of the state, input and aux variables
    cached,     \* the length of _versioned_trans
    result,     \* the alternative of the result variant, "none" while running
    cex         \* the counterexample, when there is one

vars == <<system, bound, pc, step, solver, activators, versions, cached, result, cex>>

AtLeast(m, n) == IF m >= n THEN m ELSE n

-----------------------------------------------------------------------------

\* The constructor, the options and setup_versioning.
Init ==
    /\ system \in Systems
    /\ bound \in Bounds
    /\ pc = "loop"
    /\ step = 0
    /\ solver = [init |-> FALSE, trans |-> {}, errors |-> {}]
    /\ activators = <<>>
    /\ versions = 1
    /\ cached = 0
    /\ result = "none"
    /\ cex = [initial |-> <<>>, inputs |-> <<>>]

\* Mutant of MakeTrans: no version is made for the next state.
MakeTransHere(n) ==
    /\ cached' = AtLeast(cached, n)
    /\ versions' = IF n > cached THEN AtLeast(versions, n) ELSE versions

\* make_trans for all of 0 .. n - 1: a formula that is not cached is made, and
\* with it the versions of the variables up to the next state.
MakeTrans(n) ==
    /\ cached' = AtLeast(cached, n)
    /\ versions' = IF n > cached THEN AtLeast(versions, n + 1) ELSE versions

\* Mutant of Reloaded: one transition too many is asserted.
ReloadedTooFar == [init |-> TRUE, trans |-> 0 .. step, errors |-> {}]

\* Mutant of Reloaded: the unrolled transitions are not asserted again.
ReloadedWithoutTrans == [init |-> TRUE, trans |-> {}, errors |-> {}]

\* Mutant of Reloaded: Init is asserted the first time only.
ReloadedWithoutInit == [init |-> step = 0, trans |-> 0 .. step - 1, errors |-> {}]

\* What a refreshed solver has.
Reloaded == [init |-> TRUE, trans |-> 0 .. step - 1, errors |-> {}]

\* refresh_solver, every SolverRefreshRate steps.
Refresh ==
    /\ pc = "loop"
    /\ step <= bound
    /\ step % SolverRefreshRate = 0
    /\ solver' = Reloaded
    /\ activators' = <<>>
    /\ MakeTrans(step)
    /\ pc' = "trans"
    /\ UNCHANGED <<system, bound, step, result, cex>>

KeepSolver ==
    /\ pc = "loop"
    /\ step <= bound
    /\ step % SolverRefreshRate # 0
    /\ pc' = "trans"
    /\ UNCHANGED <<system, bound, step, solver, activators, versions, cached, result, cex>>

\* check_for: the transition into this step, also right after a refresh that
\* has already asserted it.
AssertTrans ==
    /\ pc = "trans"
    /\ IF step > 0
       THEN /\ solver' = [solver EXCEPT !.trans = @ \cup {step - 1}]
            /\ MakeTrans(step)
       ELSE UNCHANGED <<solver, versions, cached>>
    /\ pc' = "error"
    /\ UNCHANGED <<system, bound, step, activators, result, cex>>

\* make_error: the error of this step, guarded by a new activator.
AssertError ==
    /\ pc = "error"
    /\ activators' = Append(activators, step)
    /\ solver' = [solver EXCEPT !.errors = @ \cup {step}]
    /\ pc' = "query"
    /\ UNCHANGED <<system, bound, step, versions, cached, result, cex>>

\* The states st and the inputs in are a model of what the solver has, when the
\* last activator is assumed and all the others are assumed to be false.
IsModel(st, in) ==
    /\ solver.init => Holds(system.init, st[0])
    /\ \A k \in solver.trans : st[k + 1] = NextState(system, st[k], in[k])
    /\ \A k \in solver.errors : k = activators[Len(activators)] => <<st[k], in[k]>> \in system.error

\* The query is satisfiable: build_counterexample, and run returns it.
ReturnCounterexample ==
    /\ pc = "query"
    /\ \E st \in [0 .. step -> States], in \in [0 .. step -> Inputs] :
        /\ IsModel(st, in)
        /\ cex' = [initial |-> st[0], inputs |-> [k \in 1 .. step + 1 |-> in[k - 1]]]
    /\ result' = "counterexample"
    /\ pc' = "done"
    /\ UNCHANGED <<system, bound, step, solver, activators, versions, cached>>

\* Mutant of NextStep: the step is not advanced.
SameStep ==
    /\ pc = "query"
    /\ ~\E st \in [0 .. step -> States], in \in [0 .. step -> Inputs] : IsModel(st, in)
    /\ pc' = "loop"
    /\ UNCHANGED <<system, bound, step, solver, activators, versions, cached, result, cex>>

\* It is not: the next step.
NextStep ==
    /\ pc = "query"
    /\ ~\E st \in [0 .. step -> States], in \in [0 .. step -> Inputs] : IsModel(st, in)
    /\ step' = step + 1
    /\ pc' = "loop"
    /\ UNCHANGED <<system, bound, solver, activators, versions, cached, result, cex>>

\* Mutant of ReturnUnknown: the bound itself is not searched.
ReturnUnknownAtBound ==
    /\ pc = "loop"
    /\ step >= bound
    /\ result' = "unknown"
    /\ pc' = "done"
    /\ UNCHANGED <<system, bound, step, solver, activators, versions, cached, cex>>

\* The end of the loop of run.
ReturnUnknown ==
    /\ pc = "loop"
    /\ step > bound
    /\ result' = "unknown"
    /\ pc' = "done"
    /\ UNCHANGED <<system, bound, step, solver, activators, versions, cached, cex>>

\* The engine has returned.
Returned == pc = "done" /\ UNCHANGED vars

Next ==
    \/ Refresh \/ KeepSolver \/ AssertTrans \/ AssertError
    \/ ReturnCounterexample \/ NextStep \/ ReturnUnknown
    \/ Returned

SafetySpec == Init /\ [][Next]_vars

\* The only thread of the program keeps running until run() returns.
Spec == SafetySpec /\ WF_vars(Next)
-----------------------------------------------------------------------------
(* Properties.                                                             *)

TypeOK ==
    /\ system \in Systems
    /\ bound \in Bounds
    /\ pc \in {"loop", "trans", "error", "query", "done"}
    /\ step \in Nat
    /\ solver \in [init : BOOLEAN, trans : SUBSET (0 .. step - 1), errors : SUBSET (0 .. step)]
    /\ activators \in Seq(0 .. step)
    /\ versions \in Nat
    /\ cached \in Nat
    /\ result \in {"none", "unknown", "counterexample"}
    /\ pc = "query" => activators # <<>>

\* The states st and inputs in are an execution of sys from an initial state
\* with an error after k steps.
ErrorPath(sys, st, in, k) ==
    /\ Holds(sys.init, st[0])
    /\ \A j \in 0 .. k - 1 : st[j + 1] = NextState(sys, st[j], in[j])
    /\ <<st[k], in[k]>> \in sys.error

ErrorAfter(sys, k) ==
    \E st \in [0 .. k -> States], in \in [0 .. k -> Inputs] : ErrorPath(sys, st, in, k)

\* What "counterexample not found after {} steps" claims: no execution of at
\* most bound steps has an error, however often the solver was thrown away.
UnknownIsHonest ==
    result = "unknown" => \A k \in 0 .. bound : ~ErrorAfter(system, k)

\* The counterexample is an execution with an error at its end, and there is
\* no shorter one.
CounterexampleIsShortest ==
    result = "counterexample" =>
        LET last == Len(cex.inputs) - 1
            in == [k \in 0 .. last |-> cex.inputs[k + 1]]
        IN  /\ \E st \in [0 .. last -> States] :
                    st[0] = cex.initial /\ ErrorPath(system, st, in, last)
            /\ \A k \in 0 .. last - 1 : ~ErrorAfter(system, k)

\* The assertions of make_trans and make_error on the versioned variables:
\* make_trans is called for the steps in sequence or for one that is cached,
\* and the versions an error formula or a counterexample reads exist.
VersionsExist ==
    /\ pc \in {"loop", "trans"} => step - 1 <= cached
    /\ pc \in {"error", "query"} => step < versions

\* The assertion of make_error: the activators are numbered by the steps.
ActivatorsMatchSteps ==
    pc = "error" => step = Len(activators)

\* The engine implements what its callers rely on; it may give up.
Engine == INSTANCE ModelChecker WITH MayGiveUp <- TRUE

ImplementsEngine == Engine!SafetySpec

\* With a bound, run() returns.
Termination == <>(pc = "done")
=============================================================================
