-------------------------------- MODULE PDR --------------------------------
(***************************************************************************)
(* The property directed reachability engine, engine/pdr.hpp and           *)
(* engine/pdr.cpp, run on one transition system.                           *)
(*                                                                         *)
(* The engine is sequential. pc names the loop the program is in and each  *)
(* action is one iteration of it, so a solver query and everything that is *)
(* read from its answer belong to one action. What CaDiCaL answers is      *)
(* external: a model is any satisfying valuation and an unsat core is any  *)
(* set of assumptions that is still unsatisfiable, neither minimal nor     *)
(* unique. The vectors that hold the cubes of a frame and the literals of  *)
(* a cube are sets here; the order in which a loop visits them is left     *)
(* open, which covers the order of every input file.                       *)
(***************************************************************************)
EXTENDS TransitionSystem

CONSTANT SolverRefreshRate      \* pdr::solver_refresh_rate

ASSUME RefreshAssumption == SolverRefreshRate \in Nat \ {0}

VARIABLES
    system,     \* _system, the constant argument of run
    pc,         \* the loop the program is in
    depth,      \* depth(), the index of the last frame
    blocked,    \* _trace_blocked_cubes, a set of cubes per level 0 .. depth
    solver,     \* the clauses in _solver and the counter _queries
    pool,       \* _ctis, the entries [0, _num_entries)
    queue,      \* min_queue of solve_obligation
    po,         \* the proof obligation that was popped last
    model,      \* the model of the last satisfiable inductiveness query
    cand,       \* res_lits of generalize_inductive
    lits,       \* the literals generalize_inductive has yet to try to drop
    level,      \* res_level of generalize_inductive, i of propagate
    cubes,      \* the cubes of the copied frame propagate has yet to visit
    result,     \* the alternative of the result variant, "none" while running
    cex         \* the counterexample, when there is one

trace   == <<depth, blocked>>
search  == <<pool, queue>>
locals  == <<po, model, cand, lits, level, cubes>>
verdict == <<result, cex>>
vars    == <<system, pc, trace, solver, search, locals, verdict>>

-----------------------------------------------------------------------------
(* Proof obligations and the CTI pool. A handle is a position in the pool. *)
(* An obligation is a pair of a level and a handle and is ordered by the   *)
(* level first (the defaulted comparison of proof_obligation).             *)

Handles == 1 .. Len(pool)

NoSuccessor == 0

Obligation(l, h) == <<l, h>>
Level(o) == o[1]
Handle(o) == o[2]

Before(o, p) == \/ Level(o) < Level(p)
                \/ Level(o) = Level(p) /\ Handle(o) <= Handle(p)

IsTop(o) == o \in queue /\ \A p \in queue : Before(o, p)

\* The state cube of an obligation.
StateVars(o) == pool[Handle(o)].state

\* cti_pool::make
MakeCti(state, input, successor) ==
    pool' = Append(pool, [state |-> state, input |-> input, succ |-> successor])

\* Mutant of NextHandle: the handle of the entry before the new one.
LastHandle == Len(pool)

NextHandle == Len(pool) + 1

NoObligation == <<0, 0>>
NoModel == <<>>

-----------------------------------------------------------------------------
(* The solver. Blocked cubes are in it as clauses guarded by the activator *)
(* of a level; Init is guarded by the activator of level 0, and T and E by *)
(* activators of their own. None of the three is in the solver until it is *)
(* refreshed for the first time. A clause is never taken out except by a   *)
(* refresh.                                                                *)

\* Mutant of RefreshedSolver: the last frame is not asserted.
RefreshedWithoutLast ==
    [ loaded  |-> TRUE,
      clauses |-> UNION {{<<k, c>> : c \in blocked[k]} : k \in 0 .. depth - 1},
      queries |-> 0 ]

\* refresh_solver: a new solver with the system and the current trace.
RefreshedSolver ==
    [ loaded  |-> TRUE,
      clauses |-> UNION {{<<k, c>> : c \in blocked[k]} : k \in 0 .. depth},
      queries |-> 0 ]

\* with_solver: what the solver is when the query is made.
WithSolver ==
    LET s == IF solver.queries % SolverRefreshRate = 0
             THEN RefreshedSolver ELSE solver
    IN  [loaded |-> s.loaded, clauses |-> s.clauses, queries |-> s.queries + 1]

\* State s satisfies the formulas assumed by activators_from( i ).
InFrame(sv, i, s) ==
    /\ i = 0 /\ sv.loaded => Holds(system.init, s)
    /\ \A cl \in sv.clauses : cl[1] >= i => ~Holds(cl[2], s)

\* The values of the next state variables under the transition activator.
Successors(sv, s, i) == IF sv.loaded THEN {NextState(system, s, i)} ELSE States

\* The valuation satisfies the error formula under the error activator.
IsError(sv, s, i) == sv.loaded => <<s, i>> \in system.error

\* A model of R_{i - 1} /\ -c /\ T /\ d', the query is_relative_inductive
\* makes when d is c.
StepModel(sv, i, c, d, s, in) ==
    /\ InFrame(sv, i - 1, s)
    /\ ~Holds(c, s)
    /\ \E t \in Successors(sv, s, in) : Holds(d, t)

StepSat(sv, i, c, d) == \E s \in States, in \in Inputs : StepModel(sv, i, c, d, s, in)

\* Mutant of IsRelativeInductive: relative to the frame one too low.
IsInductiveBelow(sv, c, i) == ~StepSat(sv, i - 1, c, c)

\* is_relative_inductive
IsRelativeInductive(sv, c, i) == ~StepSat(sv, i, c, c)

-----------------------------------------------------------------------------
(* The trace.                                                              *)

\* Mutant of BlockedWith: subsumed cubes are dropped above the level too.
BlockedDroppingAbove(c, lvl, startFrom) ==
    LET k == IF lvl <= depth THEN lvl ELSE depth
        kept(d) == IF startFrom <= d
                   THEN {e \in blocked[d] : ~Subsumes(c, e)} ELSE blocked[d]
    IN  [d \in 0 .. depth |-> IF d = k THEN kept(d) \cup {c} ELSE kept(d)]

\* Mutant of BlockedWith: the level of the generalization is off by one.
BlockedOneBelow(c, lvl, startFrom) ==
    LET k == lvl - 1
        kept(d) == IF startFrom <= d /\ d <= k
                   THEN {e \in blocked[d] : ~Subsumes(c, e)} ELSE blocked[d]
    IN  [d \in 0 .. depth |-> IF d = k THEN kept(d) \cup {c} ELSE kept(d)]

\* add_blocked_at: what the frames are afterwards...
BlockedWith(c, lvl, startFrom) ==
    LET k == IF lvl <= depth THEN lvl ELSE depth
        kept(d) == IF startFrom <= d /\ d <= k
                   THEN {e \in blocked[d] : ~Subsumes(c, e)} ELSE blocked[d]
    IN  [d \in 0 .. depth |-> IF d = k THEN kept(d) \cup {c} ELSE kept(d)]

\* Mutant of AssertedAt: the activator of the frame below guards the clause.
AssertedBelow(sv, c, lvl) ==
    LET k == IF lvl <= depth THEN lvl ELSE depth
    IN  [loaded |-> sv.loaded, clauses |-> sv.clauses \cup {<<k - 1, c>>}, queries |-> sv.queries]

\* ... and what the solver sv is.
AssertedAt(sv, c, lvl) ==
    LET k == IF lvl <= depth THEN lvl ELSE depth
    IN  [loaded |-> sv.loaded, clauses |-> sv.clauses \cup {<<k, c>>}, queries |-> sv.queries]

\* Mutant of PushFrame: two frames are pushed.
PushTwoFrames ==
    /\ depth' = depth + 2
    /\ blocked' = [d \in 0 .. depth + 2 |-> IF d <= depth THEN blocked[d] ELSE {}]

\* push_frame
PushFrame ==
    /\ depth' = depth + 1
    /\ blocked' = [d \in 0 .. depth + 1 |-> IF d <= depth THEN blocked[d] ELSE {}]

-----------------------------------------------------------------------------
(* The constructor and initialize(): one empty frame, and a solver that    *)
(* has not been loaded.                                                    *)

Init ==
    /\ system \in Systems
    /\ pc = "check"
    /\ depth = 0
    /\ blocked = [d \in 0 .. 0 |-> {}]
    /\ solver = [loaded |-> FALSE, clauses |-> {}, queries |-> 0]
    /\ pool = <<>>
    /\ queue = {}
    /\ po = NoObligation
    /\ model = NoModel
    /\ cand = {}
    /\ lits = {}
    /\ level = 0
    /\ cubes = {}
    /\ result = "none"
    /\ cex = [initial |-> <<>>, inputs |-> <<>>]

-----------------------------------------------------------------------------
(* check() and get_error_cti().                                            *)

\* The last frame has an error state: start an obligation at its level.
ErrorCti ==
    /\ pc = "check"
    /\ solver' = WithSolver
    /\ \E s \in States, in \in Inputs :
        /\ InFrame(WithSolver, depth, s)
        /\ IsError(WithSolver, s, in)
        /\ MakeCti(CubeOf(s), in, NoSuccessor)
    /\ queue' = {Obligation(depth, NextHandle)}
    /\ pc' = "solve"
    /\ UNCHANGED <<system, trace, locals, verdict>>

\* It has none: push a frame and start to propagate.
NoErrorCti ==
    /\ pc = "check"
    /\ solver' = WithSolver
    /\ \A s \in States, in \in Inputs :
        ~(InFrame(WithSolver, depth, s) /\ IsError(WithSolver, s, in))
    /\ PushFrame
    /\ level' = 1
    /\ cubes' = blocked'[1]
    /\ pc' = "propagate"
    /\ UNCHANGED <<system, search, po, model, cand, lits, verdict>>

-----------------------------------------------------------------------------
(* solve_obligation().                                                     *)

\* Mutant of InputsFrom: the walk stops before the inputs of the error.
InputsBeforeError(h) ==
    LET walk[g \in Handles] ==
            IF pool[g].succ = NoSuccessor
            THEN <<>>
            ELSE <<pool[g].input>> \o walk[pool[g].succ]
    IN  walk[h]

\* The inputs on the way from entry h to the error, the walk over successors
\* in build_counterexample.
InputsFrom(h) ==
    LET walk[g \in Handles] ==
            IF pool[g].succ = NoSuccessor
            THEN <<pool[g].input>>
            ELSE <<pool[g].input>> \o walk[pool[g].succ]
    IN  walk[h]

\* An obligation at level 0: build_counterexample, and check() returns it.
FoundCounterexample ==
    /\ pc = "solve"
    /\ \E o \in queue :
        /\ IsTop(o)
        /\ Level(o) = 0
        /\ cex' = [ initial |-> GetVars(StateVars(o)), inputs |-> InputsFrom(Handle(o)) ]
        /\ queue' = queue \ {o}
    /\ result' = "counterexample"
    /\ pc' = "done"
    /\ UNCHANGED <<system, trace, solver, pool, locals>>

\* The first half of is_already_blocked: a cube of some frame from the
\* obligation's level on subsumes it.
SubsumedInTrace(o) ==
    \E k \in Level(o) .. depth : \E c \in blocked[k] : Subsumes(c, StateVars(o))

SkipSubsumed ==
    /\ pc = "solve"
    /\ \E o \in queue :
        /\ IsTop(o)
        /\ Level(o) > 0
        /\ SubsumedInTrace(o)
        /\ queue' = queue \ {o}
    /\ UNCHANGED <<system, pc, trace, solver, pool, locals, verdict>>

\* The second half asks the solver; an obligation that is not blocked is the
\* one to work on.
PopObligation ==
    /\ pc = "solve"
    /\ solver' = WithSolver
    /\ \E o \in queue :
        /\ IsTop(o)
        /\ Level(o) > 0
        /\ ~SubsumedInTrace(o)
        /\ queue' = queue \ {o}
        /\ IF \E s \in States : InFrame(WithSolver, Level(o), s) /\ Holds(StateVars(o), s)
           THEN po' = o /\ pc' = "inductive"
           ELSE UNCHANGED <<po, pc>>
    /\ UNCHANGED <<system, trace, pool, model, cand, lits, level, cubes, verdict>>

\* Mutant of AllBlocked: the pool is flushed with obligations still queued.
FlushedEarly ==
    /\ pc = "solve"
    /\ pool' = <<>>
    /\ pc' = "check"
    /\ UNCHANGED <<system, trace, solver, queue, locals, verdict>>

\* No obligation is left; check() flushes the pool and goes round.
AllBlocked ==
    /\ pc = "solve"
    /\ queue = {}
    /\ pool' = <<>>
    /\ pc' = "check"
    /\ UNCHANGED <<system, trace, solver, queue, locals, verdict>>

\* The obligation has a predecessor in the previous frame. The model is read
\* before get_predecessor makes its own query.
HasPredecessor ==
    /\ pc = "inductive"
    /\ solver' = WithSolver
    /\ \E s \in States, in \in Inputs :
        /\ StepModel(WithSolver, Level(po), StateVars(po), StateVars(po), s, in)
        /\ model' = [state |-> s, input |-> in]
    /\ pc' = "predecessor"
    /\ UNCHANGED <<system, trace, search, po, cand, lits, level, cubes, verdict>>

\* Mutant of IsPredecessorCore: the core is of a query about one state only.
IsSomePredecessor(sv, c, d, in) ==
    \E s \in States : Holds(c, s) /\ \A t \in Successors(sv, s, in) : Holds(d, t)

\* c is an unsat core of the predecessor's literals: every state of it steps
\* into the cube d under the inputs of the model.
IsPredecessorCore(sv, c, d, in) ==
    \A s \in States : Holds(c, s) => \A t \in Successors(sv, s, in) : Holds(d, t)

\* get_predecessor and the two pushes that follow it.
GetPredecessor ==
    /\ pc = "predecessor"
    /\ solver' = WithSolver
    /\ \E c \in SUBSET CubeOf(model.state) :
        /\ IsPredecessorCore(WithSolver, c, StateVars(po), model.input)
        /\ MakeCti(c, model.input, Handle(po))
    /\ queue' = queue \cup {Obligation(Level(po) - 1, NextHandle), po}
    /\ po' = NoObligation
    /\ model' = NoModel
    /\ pc' = "solve"
    /\ UNCHANGED <<system, trace, cand, lits, level, cubes, verdict>>

-----------------------------------------------------------------------------
(* generalize_inductive().                                                 *)

\* Mutant of DropNonCore: the initial states are not looked at.
TakeCore(c, core) == {core}

\* The first loop over the literals: those outside the core are dropped as
\* long as what is left does not intersect the initial states. So when the
\* core alone does, the last of c's literals that tell c from them stays;
\* when no literal does, nothing is dropped.
DropNonCore(c, core) ==
    LET separating == {l \in c : Neg(l) \in system.init}
    IN  IF ~IntersectsInit(system, core) THEN {core}
        ELSE IF separating = {} THEN {c}
        ELSE {core \cup {l} : l \in separating}

\* The obligation is inductive relative to the previous frame. The core names
\* the first activator j that was needed and the literals that were.
IsInductive ==
    /\ pc = "inductive"
    /\ solver' = WithSolver
    /\ ~StepSat(WithSolver, Level(po), StateVars(po), StateVars(po))
    /\ \E j \in Level(po) - 1 .. depth, core \in SUBSET StateVars(po) :
        /\ ~StepSat(WithSolver, j + 1, StateVars(po), core)
        /\ level' = j + 1
        /\ cand' \in DropNonCore(StateVars(po), core)
    /\ lits' = cand'
    /\ pc' = "shrink"
    /\ UNCHANGED <<system, trace, search, po, model, cubes, verdict>>

\* One iteration of the second loop over the literals.
TryDrop ==
    /\ pc = "shrink"
    /\ \E l \in lits :
        /\ lits' = lits \ {l}
        /\ IF IntersectsInit(system, cand \ {l})
           THEN UNCHANGED <<solver, cand>>
           ELSE /\ solver' = WithSolver
                /\ cand' = IF IsRelativeInductive(WithSolver, cand \ {l}, level)
                           THEN cand \ {l} ELSE cand
    /\ UNCHANGED <<system, pc, trace, search, po, model, level, cubes, verdict>>

AllTried ==
    /\ pc = "shrink"
    /\ lits = {}
    /\ pc' = "raise"
    /\ UNCHANGED <<system, trace, solver, search, locals, verdict>>

\* An iteration of the while loop that finds the cube inductive one level up.
RaiseLevel ==
    /\ pc = "raise"
    /\ level <= depth
    /\ solver' = WithSolver
    /\ IsRelativeInductive(WithSolver, cand, level + 1)
    /\ level' = level + 1
    /\ UNCHANGED <<system, pc, trace, search, po, model, cand, lits, cubes, verdict>>

\* The loop ends: add_blocked_at, and the obligation is pushed again one level
\* up. sv is the solver after the query that ended the loop, if there was one.
Block(sv) ==
    /\ blocked' = BlockedWith(cand, level, 1)
    /\ solver' = AssertedAt(sv, cand, level)
    /\ queue' = IF Level(po) < depth
                THEN queue \cup {Obligation(Level(po) + 1, Handle(po))} ELSE queue
    /\ po' = NoObligation
    /\ cand' = {}
    /\ level' = 0
    /\ pc' = "solve"
    /\ UNCHANGED <<system, depth, pool, model, lits, cubes, verdict>>

BlockAtLevel ==
    /\ pc = "raise"
    /\ level <= depth
    /\ ~IsRelativeInductive(WithSolver, cand, level + 1)
    /\ Block(WithSolver)

BlockAtDepth ==
    /\ pc = "raise"
    /\ level > depth
    /\ Block(solver)

-----------------------------------------------------------------------------
(* propagate().                                                            *)

\* One cube of the copied frame; it moves up when it is inductive.
PropagateCube ==
    /\ pc = "propagate"
    /\ level < depth
    /\ \E c \in cubes :
        /\ cubes' = cubes \ {c}
        /\ IF IsRelativeInductive(WithSolver, c, level + 1)
           THEN /\ blocked' = BlockedWith(c, level + 1, level)
                /\ solver' = AssertedAt(WithSolver, c, level + 1)
           ELSE /\ solver' = WithSolver
                /\ UNCHANGED blocked
    /\ UNCHANGED <<system, pc, depth, search, po, model, cand, lits, level, verdict>>

\* The frame is done and not empty: copy the next one.
PropagateNext ==
    /\ pc = "propagate"
    /\ level < depth
    /\ cubes = {}
    /\ blocked[level] # {}
    /\ level' = level + 1
    /\ cubes' = IF level + 1 < depth THEN blocked[level + 1] ELSE {}
    /\ UNCHANGED <<system, pc, trace, solver, search, po, model, cand, lits, verdict>>

\* The frame is empty, so it equals the next one: the system is safe.
FoundInvariant ==
    /\ pc = "propagate"
    /\ level < depth
    /\ cubes = {}
    /\ blocked[level] = {}
    /\ result' = "ok"
    /\ pc' = "done"
    /\ UNCHANGED <<system, trace, solver, search, locals, cex>>

\* The end of the loop over the frames; check() flushes the pool.
PropagateDone ==
    /\ pc = "propagate"
    /\ level = depth
    /\ level' = 0
    /\ cubes' = {}
    /\ pool' = <<>>
    /\ pc' = "check"
    /\ UNCHANGED <<system, trace, solver, queue, po, model, cand, lits, verdict>>

-----------------------------------------------------------------------------

\* The engine has returned.
Returned == pc = "done" /\ UNCHANGED vars

Next ==
    \/ ErrorCti \/ NoErrorCti
    \/ FoundCounterexample \/ SkipSubsumed \/ PopObligation \/ AllBlocked
    \/ HasPredecessor \/ GetPredecessor
    \/ IsInductive \/ TryDrop \/ AllTried \/ RaiseLevel \/ BlockAtLevel \/ BlockAtDepth
    \/ PropagateCube \/ PropagateNext \/ FoundInvariant \/ PropagateDone
    \/ Returned

SafetySpec == Init /\ [][Next]_vars

\* The only thread of the program keeps running until run() returns.
Spec == SafetySpec /\ WF_vars(Next)
-----------------------------------------------------------------------------
(* Properties.                                                             *)

TypeOK ==
    /\ system \in Systems
    /\ pc \in {"check", "solve", "inductive", "predecessor", "shrink", "raise", "propagate", "done"}
    /\ depth \in Nat
    /\ blocked \in [0 .. depth -> SUBSET Cubes]
    /\ solver \in [loaded : BOOLEAN, clauses : SUBSET ((0 .. depth) \X Cubes), queries : Nat]
    /\ pool \in Seq([state : Cubes, input : Inputs, succ : Nat])
    /\ queue \subseteq (0 .. depth) \X (1 .. Len(pool))
    /\ cand \in Cubes
    /\ lits \in Cubes
    /\ level \in 0 .. depth + 1
    /\ cubes \subseteq Cubes
    /\ result \in {"none", "ok", "counterexample"}
    /\ pc \in {"inductive", "predecessor", "shrink", "raise"} =>
            po \in (1 .. depth) \X (1 .. Len(pool))
    /\ pc = "predecessor" => model \in [state : States, input : Inputs]
    /\ pc \in {"shrink", "raise"} => level \in Level(po) .. depth + 1
    /\ pc = "propagate" => level \in 1 .. depth

\* The frame R_i as the trace describes it.
R(i) == {s \in States : /\ i = 0 => Holds(system.init, s)
                        /\ \A k \in i .. depth : \A c \in blocked[k] : ~Holds(c, s)}

\* What the solver knows about R_i is what the trace says, for every level and
\* whatever was subsumed, moved up or refreshed since: dropping a subsumed cube
\* in add_blocked_at only drops what the clause that stays implies.
SolverMirrorsTrace ==
    solver.loaded =>
        \A i \in 0 .. depth : R(i) = {s \in States : InFrame(solver, i, s)}

\* R_0, R_1, ... over-approximate the states reachable in 0, 1, ... steps: a
\* frame contains the initial states and the successors of the frame before it.
TraceOverapproximates ==
    \A i \in 0 .. depth - 1 :
        /\ R(0) \subseteq R(i + 1)
        /\ \A s \in R(i), in \in Inputs : NextState(system, s, in) \in R(i + 1)

\* Every frame before the last one excludes the error: check() pushes a frame
\* only when the last one does, and frames only shrink.
FramesBelowLastAreSafe ==
    \A i \in 0 .. depth - 1 : \A s \in R(i), in \in Inputs : <<s, in>> \notin system.error

\* Obligations that are alive: queued, or popped and being worked on.
LiveObligations ==
    queue \cup (IF pc \in {"inductive", "predecessor", "shrink", "raise"} THEN {po} ELSE {})

\* An obligation at level l was ruled out at all lower levels, however it got
\* there: by a predecessor query, or by being blocked and pushed again.
ObligationsAreNew ==
    \A o \in LiveObligations : Level(o) > 0 =>
        \A s \in R(Level(o) - 1) : ~Holds(StateVars(o), s)

\* The assertion of solve_obligation: a cube that is about to be blocked does
\* not intersect the initial states. It is what keeps them out of every
\* generalization, since relative inductiveness alone would not.
CtiAvoidsInit ==
    pc \in {"inductive", "predecessor", "shrink", "raise"} =>
        ~IntersectsInit(system, StateVars(po))

\* Every live handle is an entry of the pool (the assertion of cti_pool::get,
\* despite flush), and no two live obligations share one, so the queue never
\* works on a cube twice.
LiveHandles ==
    /\ \A o \in LiveObligations : Handle(o) \in Handles
    /\ \A o, p \in LiveObligations : Handle(o) = Handle(p) => o = p
    /\ pc \in {"check", "propagate"} => LiveObligations = {}

\* Every state of a pool entry's cube, not only the model it came from, goes
\* into the successor's cube under the entry's inputs, or is an error.
CtisLeadToError ==
    \A h \in Handles : \A s \in States : Holds(pool[h].state, s) =>
        IF pool[h].succ = NoSuccessor
        THEN <<s, pool[h].input>> \in system.error
        ELSE Holds(pool[pool[h].succ].state, NextState(system, s, pool[h].input))

\* "ok" is only said of a safe system, a counterexample only given for an
\* unsafe one.
VerdictIsCorrect ==
    /\ result = "ok" => Safe(system)
    /\ result = "counterexample" => ~Safe(system)

\* The reported inputs, fed to the system from the reported state, end in an
\* error, although the state was completed with arbitrary values.
CounterexampleReplays ==
    result = "counterexample" => ReachesError(system, cex.initial, cex.inputs)

\* The reported state is an initial one as long as no latch resets to one:
\* the values that complete it are the reset values then.
CounterexampleStartsInInit ==
    result = "counterexample" /\ (\A x \in Latches : <<x, TRUE>> \notin system.init) =>
        Holds(system.init, cex.initial)

\* The comment of build_counterexample, "If a variable doesn't appear in any
\* literal, its value is not important": whatever the resets are, the reported
\* state is an initial one.
MissingValuesAreUnimportant ==
    result = "counterexample" => Holds(system.init, cex.initial)

\* A step never adds a state back to a frame: moving or dropping a cube may
\* not lose what it excluded.
FramesOnlyShrink ==
    [][\A i \in 0 .. depth : R(i)' \subseteq R(i)]_vars

\* Blocking pays: the obligation that was worked on is excluded from the frames
\* up to its level by the cube that was learned from it, so it can only come
\* back at a higher one.
BlockedIsExcluded ==
    [][pc = "raise" /\ pc' = "solve" =>
        \A i \in 0 .. Level(po), s \in States : Holds(StateVars(po), s) => s \notin R(i)']_vars

\* The engine implements what its callers rely on: it returns one verdict,
\* once, and the right one of the two.
Engine == INSTANCE ModelChecker WITH MayGiveUp <- FALSE

ImplementsEngine == Engine!SafetySpec

\* run() returns: neither the queue of obligations nor the trace grows forever.
Termination == <>(pc = "done")
=============================================================================
