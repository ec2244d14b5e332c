-------------------------------- MODULE CAR --------------------------------
(***************************************************************************)
(* The complementary approximate reachability engines, engine/car.hpp and  *)
(* engine/car.cpp, run on one transition system: forward_car, and          *)
(* backward_car, which runs the same code on the reversed system.          *)
(*                                                                         *)
(* The engine is sequential and the solver external, as in PDR. A system   *)
(* reaches the engine as three formulas over the state, the next state and *)
(* the input variables. The reversed system has the original error as its  *)
(* initial formula, so that a query over that formula and the transition   *)
(* relation has one valuation of the inputs for both, and one of the       *)
(* auxiliary variables of the gates that the two share.                    *)
(***************************************************************************)
EXTENDS TransitionSystem

CONSTANTS
    SolverRefreshRate,  \* car::solver_refresh_rate
    Configurations,     \* the engine and the options it is run with
    SharedGates(_, _, _)
                        \* the values, for a system, a state and inputs, of the gates that
                        \* both the error and the next state functions depend on

ASSUME RefreshAssumption == SolverRefreshRate \in Nat \ {0}

\* car_options, and whether the engine is forward_car.
ConfigurationType ==
    [ forward : BOOLEAN, propagateCores : BOOLEAN, repush : BOOLEAN,
      mucBlocked : BOOLEAN, mucPredecessor : BOOLEAN ]

ASSUME ConfigurationsAssumption == Configurations \subseteq ConfigurationType

VARIABLES
    system,     \* the argument of run, before it is reversed
    opts,       \* _opts and _forward
    pc,         \* the loop the program is in
    phase,      \* where check() waits for solve_obligation
    depth,      \* depth(), the index of the last frame
    blocked,    \* _trace_blocked_cubes, a set of cubes per level 0 .. depth
    solver,     \* the clauses in _solver and the counter _queries
    codepth,    \* codepth(), the index of the last coframe
    reaching,   \* _cotrace_found_cubes, a set of handles per level 0 .. codepth
    pool,       \* _cotrace, which is never flushed
    queue,      \* min_queue of solve_obligation
    po,         \* the proof obligation that was popped last
    model,      \* the model of the last satisfiable predecessor query
    cand,       \* the core of get_minimal_core
    lits,       \* the literals get_minimal_core has yet to try to drop
    level,      \* j of check_existing_cotrace, i of propagate
    handles,    \* the handles check_existing_cotrace has yet to visit
    cubes,      \* the cubes propagate has yet to visit
    pushed,     \* pushed_all of propagate
    result,     \* the alternative of the result variant, "none" while running
    cex         \* the counterexample, when there is one

input   == <<system, opts>>
trace   == <<depth, blocked>>
cotrace == <<codepth, reaching, pool>>
generalization == <<model, cand, lits>>
scan    == <<level, handles, cubes, pushed>>
verdict == <<result, cex>>
vars    == <<input, pc, phase, trace, solver, cotrace, queue, po, generalization, scan, verdict>>

-----------------------------------------------------------------------------
(* The three formulas the engine works on, reverse_system included.        *)

\* _system->init()
IsInitial(s, in) ==
    IF opts.forward THEN Holds(system.init, s) ELSE <<s, in>> \in system.error

\* _system->error()
IsError(s, in) ==
    IF opts.forward THEN <<s, in>> \in system.error ELSE Holds(system.init, s)

\* _system->trans(): the next states of s under the inputs in.
Successors(s, in) ==
    IF opts.forward THEN {NextState(system, s, in)}
    ELSE {t \in States : NextState(system, t, in) = s}

\* _init_negated. In the backward mode the empty clause negate_cnf reads after
\* the last separator makes the negation true of every state. (Only an error
\* formula without clauses has a negation that is false. Every state is an error
\* then, and check returns a counterexample in its first round.)
IsNotInitial(s) == opts.forward => ~Holds(system.init, s)

-----------------------------------------------------------------------------
(* Proof obligations and the pool. An obligation is a level, a colevel and *)
(* a handle, compared in this order.                                       *)

Handles == 1 .. Len(pool)

NoSuccessor == 0
NoObligation == <<0, 0, 0>>
NoModel == <<>>

Obligation(h, l, cl) == <<l, cl, h>>
Level(o) == o[1]
Colevel(o) == o[2]
Handle(o) == o[3]

Before(o, p) ==
    \/ Level(o) < Level(p)
    \/ Level(o) = Level(p) /\ Colevel(o) < Colevel(p)
    \/ Level(o) = Level(p) /\ Colevel(o) = Colevel(p) /\ Handle(o) <= Handle(p)

IsTop(o) == o \in queue /\ \A p \in queue : Before(o, p)

StateVars(o) == pool[Handle(o)].state

NextHandle == Len(pool) + 1

\* cotrace_pool::make and add_reaching_at: a new entry at coframe cl, which may
\* be new too. The cubes it subsumes leave the coframe, their entries stay.
Reach(c, in, successor, cl) ==
    /\ pool' = Append(pool, [state |-> c, input |-> in, succ |-> successor])
    /\ codepth' = IF cl <= codepth THEN codepth ELSE cl
    /\ reaching' = [j \in 0 .. codepth' |->
            LET old == IF j <= codepth THEN reaching[j] ELSE {}
            IN  IF j = cl
                THEN {h \in old : ~Subsumes(c, pool[h].state)} \cup {NextHandle}
                ELSE old]

-----------------------------------------------------------------------------
(* The solver and the frames. Frames are not cumulative: a frame is        *)
(* described by the cubes of its own level only.                           *)

\* refresh_solver
RefreshedSolver ==
    [ clauses |-> UNION {{<<k, c>> : c \in blocked[k]} : k \in 0 .. depth}, queries |-> 0 ]

\* with_solver
WithSolver ==
    LET s == IF solver.queries % SolverRefreshRate = 0 THEN RefreshedSolver ELSE solver
    IN  [clauses |-> s.clauses, queries |-> s.queries + 1]

\* The valuation satisfies the formulas under the activator of level i.
InFrame(sv, i, s, in) ==
    /\ i = 0 => IsInitial(s, in)
    /\ \A cl \in sv.clauses : cl[1] = i => ~Holds(cl[2], s)

\* A model of R_{i - 1} /\ T /\ c', the query of has_predecessor. The gates of T
\* have their values at the earlier state of a step, which is t in the backward
\* mode, and those of the formula of R_0 at s.
StepModel(sv, i, c, s, in) ==
    /\ InFrame(sv, i - 1, s, in)
    /\ \E t \in Successors(s, in) :
        /\ Holds(c, t)
        /\ ~opts.forward /\ i = 1 => SharedGates(system, s, in) = SharedGates(system, t, in)

HasPredecessor(sv, c, i) == \E s \in States, in \in Inputs : StepModel(sv, i, c, s, in)

\* Mutant of IsPredecessorCore: some state of c steps into d.
IsSomePredecessor(c, d, in) ==
    \E s \in States : Holds(c, s) /\ \E t \in Successors(s, in) : Holds(d, t)

\* T /\ in /\ c /\ -d' is unsatisfiable: every state of c steps into d.
IsPredecessorCore(c, d, in) ==
    \A s \in States : Holds(c, s) => \A t \in Successors(s, in) : Holds(d, t)

\* Mutant of BlockedWith: one frame too high.
BlockedAbove(c, lvl) ==
    [blocked EXCEPT ![IF lvl < depth THEN lvl + 1 ELSE lvl] = {d \in @ : ~Subsumes(c, d)} \cup {c}]

\* Mutant of BlockedWith: drops the cubes that subsume the new one.
BlockedDroppingGeneral(c, lvl) ==
    [blocked EXCEPT ![lvl] = {d \in @ : ~Subsumes(d, c)} \cup {c}]

\* add_blocked_at: what the frames are afterwards...
BlockedWith(c, lvl) ==
    [blocked EXCEPT ![lvl] = {d \in @ : ~Subsumes(c, d)} \cup {c}]

\* Mutant of AssertedAt: under the activator of the level below.
AssertedBelow(sv, c, lvl) ==
    [clauses |-> sv.clauses \cup {<<lvl - 1, c>>}, queries |-> sv.queries]

\* ... and what the solver sv is.
AssertedAt(sv, c, lvl) ==
    [clauses |-> sv.clauses \cup {<<lvl, c>>}, queries |-> sv.queries]

-----------------------------------------------------------------------------

\* The constructor and initialize().
Init ==
    /\ system \in Systems
    /\ opts \in Configurations
    /\ pc = "scan"
    /\ phase = "scan"
    /\ depth = 0
    /\ blocked = [d \in 0 .. 0 |-> {}]
    /\ solver = [clauses |-> {}, queries |-> 0]
    /\ codepth = 0
    /\ reaching = [j \in 0 .. 0 |-> {}]
    /\ pool = <<>>
    /\ queue = {}
    /\ po = NoObligation
    /\ model = NoModel
    /\ cand = {}
    /\ lits = {}
    /\ level = 0
    /\ handles = {}
    /\ cubes = {}
    /\ pushed = FALSE
    /\ result = "none"
    /\ cex = [initial |-> <<>>, inputs |-> <<>>]

-----------------------------------------------------------------------------
(* check_existing_cotrace(), from the last coframe to the first.           *)

ScanCube ==
    /\ pc = "scan"
    /\ \E h \in handles :
        /\ handles' = handles \ {h}
        /\ queue' = {Obligation(h, depth, level)}
    /\ phase' = "scan"
    /\ pc' = "solve"
    /\ UNCHANGED <<input, trace, solver, cotrace, po, generalization, level, cubes, pushed, verdict>>

\* Mutant of ScanNext: the level is not decremented.
ScanSameAgain ==
    /\ pc = "scan"
    /\ handles = {}
    /\ level > 0
    /\ level' = level
    /\ handles' = reaching[level]
    /\ UNCHANGED <<input, pc, phase, trace, solver, cotrace, queue, po, generalization, cubes,
                   pushed, verdict>>

ScanNext ==
    /\ pc = "scan"
    /\ handles = {}
    /\ level > 0
    /\ level' = level - 1
    /\ handles' = reaching[level - 1]
    /\ UNCHANGED <<input, pc, phase, trace, solver, cotrace, queue, po, generalization, cubes,
                   pushed, verdict>>

ScanDone ==
    /\ pc = "scan"
    /\ handles = {}
    /\ level = 0
    /\ pc' = "error"
    /\ UNCHANGED <<input, phase, trace, solver, cotrace, queue, po, generalization, scan, verdict>>

-----------------------------------------------------------------------------
(* check_new_error_states() and get_error_state().                         *)

NewErrorState ==
    /\ pc = "error"
    /\ solver' = WithSolver
    /\ \E s \in States, in \in Inputs :
        /\ InFrame(WithSolver, depth, s, in)
        /\ IsError(s, in)
        /\ Reach(CubeOf(s), in, NoSuccessor, 0)
    /\ queue' = {Obligation(NextHandle, depth, 0)}
    /\ phase' = "error"
    /\ pc' = "solve"
    /\ UNCHANGED <<input, trace, po, generalization, scan, verdict>>

\* Mutant of NoErrorState: the search for error states stops too early.
NoErrorStateEarly ==
    /\ pc = "error"
    /\ solver' = WithSolver
    /\ depth' = depth + 1
    /\ blocked' = [d \in 0 .. depth + 1 |-> IF d <= depth THEN blocked[d] ELSE {}]
    /\ level' = 1
    /\ cubes' = blocked'[1]
    /\ pushed' = TRUE
    /\ pc' = "propagate"
    /\ UNCHANGED <<input, phase, cotrace, queue, po, generalization, handles, verdict>>

\* There are no more: push a frame and start to propagate.
NoErrorState ==
    /\ pc = "error"
    /\ solver' = WithSolver
    /\ ~\E s \in States, in \in Inputs : InFrame(WithSolver, depth, s, in) /\ IsError(s, in)
    /\ depth' = depth + 1
    /\ blocked' = [d \in 0 .. depth + 1 |-> IF d <= depth THEN blocked[d] ELSE {}]
    /\ level' = 1
    /\ cubes' = blocked'[1]
    /\ pushed' = TRUE
    /\ pc' = "propagate"
    /\ UNCHANGED <<input, phase, cotrace, queue, po, generalization, handles, verdict>>

-----------------------------------------------------------------------------
(* solve_obligation().                                                     *)

\* The handles on the way from entry h to the entry without a successor.
PathFrom(h) ==
    LET walk[g \in Handles] ==
            IF pool[g].succ = NoSuccessor THEN <<g>> ELSE <<g>> \o walk[pool[g].succ]
    IN  walk[h]

\* Mutant of Counterexample: the inputs of the backward mode are not reversed.
CounterexampleUnreversed(h) ==
    LET path == PathFrom(h)
        n == Len(path)
    IN  [ initial |-> GetVars(pool[IF opts.forward THEN h ELSE path[n]].state),
          inputs  |-> [k \in 1 .. n |-> pool[path[k]].input] ]

\* Mutant of Counterexample: the execution starts at the entry that was found
\* last in the backward mode too.
CounterexampleFromHead(h) ==
    LET path == PathFrom(h)
        n == Len(path)
    IN  [ initial |-> GetVars(pool[h].state),
          inputs  |-> [k \in 1 .. n |-> pool[path[k]].input] ]

\* build_counterexample. In the backward mode the path is an execution read
\* from its end; the inputs of an entry are those of the step into it, and
\* those of the entry itself serve the error as well.
Counterexample(h) ==
    LET path == PathFrom(h)
        n == Len(path)
    IN  IF opts.forward
        THEN [ initial |-> GetVars(pool[h].state),
               inputs  |-> [k \in 1 .. n |-> pool[path[k]].input] ]
        ELSE [ initial |-> GetVars(pool[path[n]].state),
               inputs  |-> Append([k \in 1 .. n - 1 |-> pool[path[n - k]].input], pool[h].input) ]

\* An obligation at level 0.
FoundCounterexample ==
    /\ pc = "solve"
    /\ \E o \in queue :
        /\ IsTop(o)
        /\ Level(o) = 0
        /\ cex' = Counterexample(Handle(o))
        /\ queue' = queue \ {o}
    /\ result' = "counterexample"
    /\ pc' = "done"
    /\ UNCHANGED <<input, phase, trace, solver, cotrace, po, generalization, scan>>

\* The two halves of is_already_blocked.
SubsumedInFrame(o) == \E c \in blocked[Level(o)] : Subsumes(c, StateVars(o))

SkipSubsumed ==
    /\ pc = "solve"
    /\ \E o \in queue :
        /\ IsTop(o)
        /\ Level(o) > 0
        /\ SubsumedInFrame(o)
        /\ queue' = queue \ {o}
    /\ UNCHANGED <<input, pc, phase, trace, solver, cotrace, po, generalization, scan, verdict>>

PopObligation ==
    /\ pc = "solve"
    /\ solver' = WithSolver
    /\ \E o \in queue :
        /\ IsTop(o)
        /\ Level(o) > 0
        /\ ~SubsumedInFrame(o)
        /\ queue' = queue \ {o}
        /\ IF \E s \in States, in \in Inputs :
                InFrame(WithSolver, Level(o), s, in) /\ Holds(StateVars(o), s)
           THEN po' = o /\ pc' = "query"
           ELSE UNCHANGED <<po, pc>>
    /\ UNCHANGED <<input, phase, trace, cotrace, generalization, scan, verdict>>

\* No obligation is left: back to the loop of check() that called.
AllBlocked ==
    /\ pc = "solve"
    /\ queue = {}
    /\ pc' = phase
    /\ UNCHANGED <<input, phase, trace, solver, cotrace, queue, po, generalization, scan, verdict>>

\* The obligation has the cube c as a predecessor.
PushPredecessor(c, in) ==
    /\ Reach(c, in, Handle(po), Colevel(po) + 1)
    /\ queue' = queue \cup {Obligation(NextHandle, Level(po) - 1, Colevel(po) + 1), po}
    /\ po' = NoObligation
    /\ pc' = "solve"

\* The predecessor of the backward mode is the whole state of the model.
WholePredecessor ==
    /\ pc = "query"
    /\ ~opts.forward
    /\ solver' = WithSolver
    /\ \E s \in States, in \in Inputs :
        /\ StepModel(WithSolver, Level(po), StateVars(po), s, in)
        /\ PushPredecessor(CubeOf(s), in)
    /\ UNCHANGED <<input, phase, trace, generalization, scan, verdict>>

\* In the forward mode the model is read and generalized.
FoundPredecessor ==
    /\ pc = "query"
    /\ opts.forward
    /\ solver' = WithSolver
    /\ \E s \in States, in \in Inputs :
        /\ StepModel(WithSolver, Level(po), StateVars(po), s, in)
        /\ model' = [state |-> s, input |-> in]
    /\ pc' = "generalize"
    /\ UNCHANGED <<input, phase, trace, cotrace, queue, po, cand, lits, scan, verdict>>

GeneralizePredecessor ==
    /\ pc = "generalize"
    /\ solver' = WithSolver
    /\ \E core \in SUBSET CubeOf(model.state) :
        /\ IsPredecessorCore(core, StateVars(po), model.input)
        /\ IF opts.mucPredecessor
           THEN /\ cand' = core
                /\ lits' = core
                /\ pc' = "shrinkpred"
                /\ UNCHANGED <<cotrace, queue, po, model>>
           ELSE /\ PushPredecessor(core, model.input)
                /\ model' = NoModel
                /\ UNCHANGED <<cand, lits>>
    /\ UNCHANGED <<input, phase, trace, scan, verdict>>

\* Mutant of BlockObligation: pushed again past the last frame.
RepushUnguarded(sv, c) ==
    /\ blocked' = BlockedWith(c, Level(po))
    /\ solver' = AssertedAt(sv, c, Level(po))
    /\ queue' = IF opts.repush
                THEN queue \cup {Obligation(Handle(po), Level(po) + 1, Colevel(po))} ELSE queue
    /\ po' = NoObligation
    /\ pc' = "solve"

\* The obligation has no predecessor and the cube c of it is blocked.
BlockObligation(sv, c) ==
    /\ blocked' = BlockedWith(c, Level(po))
    /\ solver' = AssertedAt(sv, c, Level(po))
    /\ queue' = IF opts.repush /\ Level(po) < depth
                THEN queue \cup {Obligation(Handle(po), Level(po) + 1, Colevel(po))} ELSE queue
    /\ po' = NoObligation
    /\ pc' = "solve"

\* generalize_blocked
NoPredecessor ==
    /\ pc = "query"
    /\ ~HasPredecessor(WithSolver, StateVars(po), Level(po))
    /\ \E core \in SUBSET StateVars(po) :
        /\ ~HasPredecessor(WithSolver, core, Level(po))
        /\ IF opts.mucBlocked
           THEN /\ cand' = core
                /\ lits' = core
                /\ solver' = WithSolver
                /\ pc' = "shrinkblocked"
                /\ UNCHANGED <<blocked, queue, po>>
           ELSE /\ BlockObligation(WithSolver, core)
                /\ UNCHANGED <<cand, lits>>
    /\ UNCHANGED <<input, phase, depth, cotrace, model, scan, verdict>>

-----------------------------------------------------------------------------
(* get_minimal_core(), with the query of each of its two callers.          *)

\* One iteration, given the subsets of the candidate that are unsatisfiable: a
\* core of the candidate without the literal l, or the candidate itself when it
\* is satisfiable without l.
Shrunk(l, unsat) ==
    LET cores == unsat \cap SUBSET (cand \ {l})
    IN  IF cand \ {l} \in cores THEN cores ELSE {cand}

ShrinkPredecessor ==
    /\ pc = "shrinkpred"
    /\ \E l \in lits :
        /\ lits' = lits \ {l}
        /\ cand' \in Shrunk(l, {c \in SUBSET cand : IsPredecessorCore(c, StateVars(po), model.input)})
    /\ solver' = WithSolver
    /\ UNCHANGED <<input, pc, phase, trace, cotrace, queue, po, model, scan, verdict>>

MinimalPredecessor ==
    /\ pc = "shrinkpred"
    /\ lits = {}
    /\ PushPredecessor(cand, model.input)
    /\ cand' = {}
    /\ model' = NoModel
    /\ UNCHANGED <<input, phase, trace, solver, lits, scan, verdict>>

ShrinkBlocked ==
    /\ pc = "shrinkblocked"
    /\ \E l \in lits :
        /\ lits' = lits \ {l}
        /\ cand' \in Shrunk(l, {c \in SUBSET cand : ~HasPredecessor(WithSolver, c, Level(po))})
    /\ solver' = WithSolver
    /\ UNCHANGED <<input, pc, phase, trace, cotrace, queue, po, model, scan, verdict>>

MinimalBlocked ==
    /\ pc = "shrinkblocked"
    /\ lits = {}
    /\ BlockObligation(solver, cand)
    /\ cand' = {}
    /\ UNCHANGED <<input, phase, depth, cotrace, model, lits, scan, verdict>>

-----------------------------------------------------------------------------
(* propagate() and is_inductive().                                         *)

\* A cube, or the core of it, moves to the next frame and stays in this one.
PropagateCube ==
    /\ pc = "propagate"
    /\ level < depth
    /\ \E c \in cubes :
        /\ cubes' = cubes \ {c}
        /\ IF HasPredecessor(WithSolver, c, level + 1)
           THEN /\ pushed' = FALSE
                /\ solver' = WithSolver
                /\ UNCHANGED blocked
           ELSE /\ \E d \in IF opts.propagateCores THEN SUBSET c ELSE {c} :
                    /\ ~HasPredecessor(WithSolver, d, level + 1)
                    /\ blocked' = BlockedWith(d, level + 1)
                    /\ solver' = AssertedAt(WithSolver, d, level + 1)
                /\ UNCHANGED pushed
    /\ UNCHANGED <<input, pc, phase, depth, cotrace, queue, po, generalization, level, handles, verdict>>

PropagateNext ==
    /\ pc = "propagate"
    /\ level < depth
    /\ cubes = {}
    /\ ~pushed
    /\ level' = level + 1
    /\ cubes' = IF level + 1 < depth THEN blocked[level + 1] ELSE {}
    /\ pushed' = TRUE
    /\ UNCHANGED <<input, pc, phase, trace, solver, cotrace, queue, po, generalization, handles, verdict>>

\* Mutant of PushedAll: not all of the cubes were.
PushedSome ==
    /\ pc = "propagate"
    /\ level < depth
    /\ cubes = {}
    /\ result' = "ok"
    /\ pc' = "done"
    /\ UNCHANGED <<input, phase, trace, solver, cotrace, queue, po, generalization, scan, cex>>

\* All cubes of a frame were pushed.
PushedAll ==
    /\ pc = "propagate"
    /\ level < depth
    /\ cubes = {}
    /\ pushed
    /\ result' = "ok"
    /\ pc' = "done"
    /\ UNCHANGED <<input, phase, trace, solver, cotrace, queue, po, generalization, scan, cex>>

\* The states of the frame i that the trace describes, for i > 0.
Frame(i) == {s \in States : \A c \in blocked[i] : ~Holds(c, s)}

\* Mutant of IsInductive: a frame is compared with itself too.
IsInductiveWithItself ==
    \E i \in 1 .. depth : \A s \in Frame(i) :
        ~IsNotInitial(s) \/ \E j \in 1 .. i : s \in Frame(j)

\* Some frame is covered by the frames before it.
IsInductive ==
    \E i \in 1 .. depth : \A s \in Frame(i) :
        ~IsNotInitial(s) \/ \E j \in 1 .. i - 1 : s \in Frame(j)

FoundInductive ==
    /\ pc = "propagate"
    /\ level = depth
    /\ IsInductive
    /\ result' = "ok"
    /\ pc' = "done"
    /\ UNCHANGED <<input, phase, trace, solver, cotrace, queue, po, generalization, scan, cex>>

\* Another round of check().
NextRound ==
    /\ pc = "propagate"
    /\ level = depth
    /\ ~IsInductive
    /\ level' = codepth
    /\ handles' = reaching[codepth]
    /\ cubes' = {}
    /\ pushed' = FALSE
    /\ pc' = "scan"
    /\ UNCHANGED <<input, phase, trace, solver, cotrace, queue, po, generalization, verdict>>

-----------------------------------------------------------------------------

\* The engine has returned.
Returned == pc = "done" /\ UNCHANGED vars

Next ==
    \/ ScanCube \/ ScanNext \/ ScanDone
    \/ NewErrorState \/ NoErrorState
    \/ FoundCounterexample \/ SkipSubsumed \/ PopObligation \/ AllBlocked
    \/ WholePredecessor \/ FoundPredecessor \/ GeneralizePredecessor \/ NoPredecessor
    \/ ShrinkPredecessor \/ MinimalPredecessor \/ ShrinkBlocked \/ MinimalBlocked
    \/ PropagateCube \/ PropagateNext \/ PushedAll \/ FoundInductive \/ NextRound
    \/ Returned

SafetySpec == Init /\ [][Next]_vars

\* The only thread of the program keeps running until run() returns.
Spec == SafetySpec /\ WF_vars(Next)
-----------------------------------------------------------------------------
(* Properties.                                                             *)

\* The variables have their types. In particular obligations stay between the
\* first and the last frame and coframe, which the assertions of
\* solve_obligation, add_blocked_at and proof_obligation ask for.
TypeOK ==
    /\ system \in Systems
    /\ opts \in Configurations
    /\ pc \in {"scan", "error", "solve", "query", "generalize", "shrinkpred", "shrinkblocked",
               "propagate", "done"}
    /\ phase \in {"scan", "error"}
    /\ depth \in Nat
    /\ blocked \in [0 .. depth -> SUBSET Cubes]
    /\ solver \in [clauses : SUBSET ((0 .. depth) \X Cubes), queries : Nat]
    /\ codepth \in Nat
    /\ reaching \in [0 .. codepth -> SUBSET Handles]
    /\ pool \in Seq([state : Cubes, input : Inputs, succ : Nat])
    /\ queue \subseteq (0 .. depth) \X (0 .. codepth) \X Handles
    /\ cand \in Cubes
    /\ lits \in Cubes
    /\ handles \subseteq Handles
    /\ cubes \subseteq Cubes
    /\ pushed \in BOOLEAN
    /\ result \in {"none", "ok", "counterexample"}
    /\ pc \in {"query", "generalize", "shrinkpred", "shrinkblocked"} =>
            po \in (1 .. depth) \X (0 .. codepth) \X Handles
    /\ pc = "propagate" => level \in 1 .. depth
    /\ pc # "propagate" /\ result # "ok" => level \in 0 .. codepth

\* The frame R_i and the coframe B_j as sets of states.
R(i) == {s \in States : /\ i = 0 => \E in \in Inputs : IsInitial(s, in)
                        /\ \A c \in blocked[i] : ~Holds(c, s)}

B(j) == {s \in States : \E h \in reaching[j] : Holds(pool[h].state, s)}

\* What the solver knows about a frame is what the trace says, whatever was
\* subsumed, propagated or refreshed since.
SolverMirrorsTrace ==
    solver.queries > 0 =>
        \A i \in 1 .. depth : R(i) = {s \in States : \A in \in Inputs : InFrame(solver, i, s, in)}

\* R_i over-approximates the states reachable in exactly i steps, although no
\* frame need contain the one before it.
TraceOverapproximates ==
    \A i \in 0 .. depth - 1 : \A s \in R(i), in \in Inputs : Successors(s, in) \subseteq R(i + 1)

\* check_new_error_states leaves no error in the last frame, and nothing brings
\* one back into the frames before it.
FramesBelowLastAreSafe ==
    \A i \in 0 .. depth - 1 : \A s \in R(i), in \in Inputs : ~IsError(s, in)

\* A cube of coframe j was reached over exactly j entries of the pool, also
\* when entries on its way were subsumed and left their coframes, and each of
\* its states has a step into the next entry's cube, or is an error.
CotraceLeadsToError ==
    /\ \A j \in 0 .. codepth : \A h \in reaching[j] : Len(PathFrom(h)) = j + 1
    /\ \A h \in Handles : \A s \in States : Holds(pool[h].state, s) =>
            IF pool[h].succ = NoSuccessor
            THEN IsError(s, pool[h].input)
            ELSE \E t \in Successors(s, pool[h].input) : Holds(pool[pool[h].succ].state, t)

\* "ok" is only said of a safe system, a counterexample only given for an
\* unsafe one.
VerdictIsCorrect ==
    /\ result = "ok" => Safe(system)
    /\ result = "counterexample" => ~Safe(system)

\* The reported inputs, fed to the system from the reported state, end in an
\* error; in the backward mode the path was found and is stored from its end.
CounterexampleReplays ==
    result = "counterexample" => ReachesError(system, cex.initial, cex.inputs)

\* The reported state is an initial one as long as no latch resets to one, and
\* always in the backward mode, where the initial state is a whole model.
CounterexampleStartsInInit ==
    result = "counterexample" /\ (opts.forward => \A x \in Latches : <<x, TRUE>> \notin system.init) =>
        Holds(system.init, cex.initial)

\* The note of doc/car.txt on solve_obligation: a cube that is not blocked "is
\* guaranteed not to intersect with the initial states".
ObligationsAvoidInit ==
    pc = "query" =>
        \A s \in States, in \in Inputs : Holds(StateVars(po), s) => ~IsInitial(s, in)

\* No step gives a state back to a frame or takes one out of a coframe: what
\* was dropped as subsumed is still covered.
SetsAreMonotone ==
    [][/\ \A i \in 0 .. depth : R(i)' \subseteq R(i)
       /\ \A j \in 0 .. codepth : B(j) \subseteq B(j)']_vars

\* The engine implements what main() relies on: one result, once, and never a
\* wrong one. The trace, the cotrace and the queue are hidden.
Engine == INSTANCE ModelChecker WITH MayGiveUp <- FALSE

ImplementsEngine == Engine!SafetySpec

\* run() returns, although obligations are pushed again next to their
\* predecessors and the whole cotrace is scanned again in every round.
Termination == <>(pc = "done")
=============================================================================
