# Geyser, specified

Geyser is a symbolic model checker: it reads a hardware circuit in the Aiger
format, translates it into a transition system and runs one of its engines on
it. A wrong "safe" from a model checker is worse than no answer, and its engines
are exactly the kind of code where a wrong index or a missing guard only shows
on one circuit in a thousand. This directory holds TLA+ models of the engines
and of the program around them, from the command line and the file to the
witness, TLC runs that check them on small circuits, and TLAPS proofs for all
circuits, of any size.

## 1. The system and its parts

| Part | Source | State | Operations |
| --- | --- | --- | --- |
| Transition system | `transition_system.hpp` | ranges of state, next state, input and auxiliary variables, three CNF formulas | read only |
| Literals, cubes, CNF | `logic.hpp` | a counter of variables | negation, `subsumes`, `find`, `activate` |
| AIGER library | `dep/aiger/aiger.c` | the graph, the stacks of `aiger_check` and of `aiger_reencode`, the new codes | reading, checking, reencoding |
| AIGER builder | `aiger_builder.cpp` | the set of gates still required | `make_context`, `build_init`, `build_trans`, `build_error` |
| Engine contract | `engine/base.hpp` | none | `run`, which returns `ok`, `unknown` or `counterexample` |
| SAT solver wrapper | `engine/solver.hpp` | the clauses in CaDiCaL | assert, query under assumptions, model, unsat core, reset |
| PDR | `engine/pdr.*` | trace of blocked cubes, pool of CTIs, queue of obligations, solver and its query counter | `check`, `solve_obligation`, `generalize_inductive`, `propagate` |
| CAR, backward CAR | `engine/car.*` | trace, cotrace, pool that is never flushed, queue, solver | `check`, `solve_obligation`, `get_minimal_core`, `propagate`, `is_inductive`, `reverse_system` |
| BMC | `engine/bmc.*` | versioned variables, cached formulas, activators, solver | `check_for`, `refresh_solver`, `build_counterexample` |
| Command line | `options.*`, `main.cpp` | the options so far | `parse_cli`, `get_engine`, the exits of `main` |
| Witness writer | `witness_writer.*` | none | `write_aiger_witness` |
| Logger | `logger.hpp` | the verbosity | output |

`main` parses the options, builds the system, makes one engine and calls `run`
once. An engine owns its solver and calls it through `with_solver`, which from
time to time throws the solver away and loads a new one from the engine's own
data. There is one thread; nothing is persistent and nothing can be lost. What is
hard is elsewhere:

- **the solver's freedom.** Which model and which unsat core a query returns is
  not determined. Every decision that follows must be right for all of them.
- **two copies of the same knowledge.** The trace is pruned by subsumption, the
  solver keeps all clauses it was given, until a refresh rebuilds it from the
  pruned trace. Refreshes happen after millions of queries, so that no test
  reaches them.
- **long sequences.** The obligations that a queue holds were put there many
  queries ago; frames have changed since. Copies of frames are iterated while
  the frames change.
- **indices.** Levels, colevels, depths, steps and versions, most of them with a
  reason to be one off.
- **termination.** Queues refill themselves.
- **orders nobody states.** The builder turns gates into clauses in one pass and
  relies on the numbering that `aiger_reencode` computes with a stack of its own;
  a row of the witness relies on the order of variables; which of several faults
  of an invocation is reported depends on the order of the checks.

What makes each part correct: an engine's verdict must be true of the system; a
counterexample must be an execution that ends in an error; frames must
over-approximate what is reachable and only shrink; the solver must describe the
frames the trace describes; the engine must return. The formulas must have
exactly the models that the circuit in the file has, through every renumbering
of it, and the witness must be about that circuit. `PROJECT.json` lists the
hazards line by line, with the properties that watch them.

## 2. The modules

- `TransitionSystem` - literals, cubes, states, a system as an initial cube, a
  total transition function and an error set, and what it means for a system to
  be safe (`Safe`) or for inputs to reach an error (`ReachesError`), stated
  without any engine. A valuation of all inputs is one opaque value; Tseitin
  variables are functions of the state and the inputs and are folded into the
  transition function and the error set.
- `ModelChecker` - the contract of an engine: one result, once; `ok` only of a
  safe system, a counterexample only of an unsafe one, `unknown` only from an
  engine that may give up.
- `PDR`, `CAR`, `BMC` - the engines, each with its properties and the refinement
  of `ModelChecker`.
- `InductiveCheck` - `is_inductive` and `negate_cnf` of CAR at the level of the
  clauses they build, with the flat formulas of `logic.hpp` and a small solver that
  gives the variables values one after the other. `CAR` has the condition they
  decide.
- `Aiger`, extended by `AigerBuilder`, extended by `Geyser` - the program around
  the engines. `Aiger` reads a graph line by line, checks it and renumbers it;
  `AigerBuilder` turns it into formulas, gate by gate; `Geyser` parses the
  arguments, composes the other two with an engine, and prints the witness. The
  run of an engine is one step of `Geyser`, on the system that the formulas denote
  (`Encoded`); a composition with the engines' own actions would multiply two state
  spaces that share nothing but this system. What the step may return depends on
  the engine, findings of section 4 included: see "The engine step" below.
- `SystemLemmas` - facts about numbers, sequences, cubes, systems and paths of a
  pool that the proofs share.
- `PDRProof`, `BMCProof`, `CARProof` - inductive invariants of the engines and
  theorems about their frames, queries, verdicts and counterexamples.
- `InductiveCheckProof` - what the clauses of `is_inductive` and `negate_cnf` say,
  for traces and formulas of any size.
- `AigerProof`, and on top of it `GeyserProof` and `WitnessProof`, each extending
  the one before - the program around the engines: the traversals of the library
  with the order of the gates they lead to, the way from the arguments and the file
  to the exit, the formulas, and the answer.
- `MCPDR`, `MCCAR`, `MCBMC`, `MCInductiveCheck`, `MCGeyser` - families of systems,
  circuits, traces and command lines for TLC.

How the models correspond to the code:

- One SAT query, with the code up to the next one, is one action. The variable
  `pc` says in which loop the program is. A loop that ranges over a vector picks
  the elements in any order, so that no property depends on the order of a vector
  after a swap-and-pop.
- A query is a quantifier over states and inputs. The model it returns is any
  witness; a core is any subset of the assumptions that is still unsatisfiable,
  the smallest and the largest included. CaDiCaL itself is external: it is
  assumed to answer correctly.
- `solver` holds what has been asserted and the counter `_queries`; `WithSolver`
  is `with_solver`, with the refresh in it.
- `blocked`, `pool`, `queue`, `reaching` are the containers of the classes;
  handles are positions of the pool, 0 stands for no successor.
- The `assert`s of the code are compiled out of a release build. They are
  properties and never guards. Several of them are parts of `TypeOK`
  (levels in range, handles in the pool), one is `CtiAvoidsInit`, and one is
  `ActivatorsMatchSteps`.
- In `CAR`, one module stands for both directions: `IsInitial`, `IsError` and
  `Successors` are the three formulas after `reverse_system`. The reversed
  system's initial formula is the error over states *and inputs*, and a query
  over it and the transition relation has one valuation of the inputs. The
  negation that `negate_cnf` computes is true of every state, since the separator
  after the last clause yields an empty clause more; `IsNotInitial` says so, and
  `InductiveCheck` shows it. The check of `is_inductive` is only weaker for it. A
  gate that the error and the next state functions share is one variable in the
  reversed system; `SharedGates` gives the values of these gates, on which the
  error and the step into it must agree. The instances share none.
- In `Aiger`, a file is the graph that its numbers spell. The explicit stacks of
  the cycle check and of `aiger_reencode_lit` are kept, with their marks, since
  the order in which they leave the gates is what the properties are about. One
  iteration of a loop is one action.
- In `AigerBuilder`, a variable is named by its range and position, as
  `get_var_info` returns them, and a formula is a set of clauses.
- In `Geyser`, an argument is a path, or a key with at most one value. Each error
  of `parse_cli` has a message of its own, named after what is missing, so that the
  order in which it looks for them shows; only the key it is about is left out.
- *The engine step.* A counterexample is, for each kind of engine, what its module
  shows that the engine may return: for BMC an execution of at most as many steps
  as its bound (`BoundedRun`); for PDR and forward CAR a state that `get_vars` reads
  from a cube which contains an initial state and whose states all reach the error
  (`GeneralizedRun`), so that it need not be initial; for backward CAR an execution
  of the reversed system, read from its end (`ReversedRun`). The last step of such
  an execution is a model of the transition and the error formula with *one*
  valuation of the inputs and of the gates (`LastSteps`), as `reverse_system` leaves
  them. `ReturnOk` is possible for PDR and forward CAR when the system is safe, and
  for backward CAR when no initial state is an error and no last step is reachable
  (`ReversedSafe`). That the engines return no more than this is proved of them:
  `VerdictsAreCorrect` and `CARVerdictsAreCorrect`, `BMCUnknownIsHonest`,
  `CtisStayOnPaths` and `CounterexamplesReplay`, `CARCotraceLeadsToError` and
  `CARCounterexamplesReplay`, and `CARBackwardOkIsReversedSafe`. So the model prints
  0 of the unsafe circuit with a latch that is loaded with the negated input and the
  property input /\ latch when it is asked for `bcar`, and a row 0 of a latch that
  resets to one when it is asked for `pdr`, as the program does.
- Operators whose comment begins with "Mutant of" are faulty variants of the
  operator they name. They are used by no specification; each is known to violate
  a property of the list below, which shows that the property is about the code.

## 3. What the runs check

| Run | Instance | Distinct states | Properties |
| --- | --- | --- | --- |
| `pdr_two_latches` | all 256 transition functions of two latches, 4 initial cubes, 2 errors; refresh after 3 queries | 90585 | types, `SolverMirrorsTrace`, `TraceOverapproximates`, `FramesBelowLastAreSafe`, `ObligationsAreNew`, `LiveHandles`, `CtisLeadToError`, `VerdictIsCorrect` |
| `pdr_three_latches` | shift register, counter, ring of three latches with an input, errors with and without inputs; refresh after 4 queries | 41505 | `CtiAvoidsInit`, `CounterexampleReplays`, `CounterexampleStartsInInit`, `FramesOnlyShrink`, `BlockedIsExcluded`, `ImplementsEngine`, `Termination` |
| `pdr_missing_values` | the same | violation | `MissingValuesAreUnimportant` |
| `bmc` | three systems of two latches, four initial cubes, bounds -1, 0, 2, 4; refresh after 2 steps | 1429 | types, `UnknownIsHonest`, `CounterexampleIsShortest`, `VersionsExist`, `ImplementsEngine`, `Termination` |
| `bmc_activator_assertion` | the same | violation | `ActivatorsMatchSteps` |
| `car_two_latches` | all transition functions of two latches, two initial cubes, both directions, options as by default and all the other way; refresh after 3 queries | 262106 | types, `SolverMirrorsTrace`, `TraceOverapproximates`, `FramesBelowLastAreSafe`, `VerdictIsCorrect` |
| `car_three_latches` | shift registers and counters of three latches with an input, both directions, minimal cores, the other options in every combination; refresh after 4 queries | 102764 | `CotraceLeadsToError`, `CounterexampleReplays`, `CounterexampleStartsInInit`, `SetsAreMonotone`, `ImplementsEngine`, `Termination` |
| `car_backward_inputs` | one latch loaded with the negated input | violation | `VerdictIsCorrect` |
| `car_note_on_init` | a counter of three latches, its error six steps away | violation | `ObligationsAvoidInit` |
| `geyser` | circuits of at most two latches, an input and three gates, one of them in all 720 numberings; all command lines of at most three of 15 arguments; every kind of engine | 105888 | types, `ExitIsDeserved`, `NothingIsMissed`, `EncodingIsExact`, `WitnessIsTrue`, `BackwardOkIsTrue`, `Termination` |
| `car_is_inductive` | traces of at most three frames over two latches, initial formulas with and without inputs, both modes | 30444 | `AnswerIsRight` |
| `car_negate_cnf` | the questions of the backward mode | violation | `NegationIsExact` |

**Bounds.** The number of latches is the only bound that cuts the engines' own
behaviour. Two latches with *all* transition functions give every pattern of
successors of four states, with frames, subsumption, generalization and refreshes
happening in every order; three latches give traces long enough for cubes to be
pushed over several frames, for counterexamples of six steps and for cotraces
longer than the trace. Depth, pool and queue are not bounded: TLC exhausts them,
since the engines terminate. Refresh rates are small, so that a refresh falls
between any two queries of some run; the code's rates (5000000 queries, 100
steps for BMC) are instances of the proved theorems. The three-latch runs of CAR
keep the options that minimize cores: arbitrary cores of three latches are out of
TLC's reach, and the two-latch run has them.

The circuits of `geyser` are chosen by what the code distinguishes: every pair of
operands of a gate, constants and repeated literals included; every reset, next
state and error of a lone latch; a chain of three gates in every numbering of its
variables, every order of its lines and with gaps, so that the reencoding meets
every shape of its stack; and one graph for each way in which a file can be
malformed or a property unsupported. `MaxRows` is 4, the number of states of two
latches, so every shortest counterexample fits, in both directions. `MaxInt` is 100 and stands for
the largest `int`; no bound of a command line is near it.

`WitnessIsTrue` says what a row means whichever engine printed it, but for the two
exceptions it names: a 0 of PDR or forward CAR where a latch resets to one, and the
verdict 0 of backward CAR. `BackwardOkIsTrue` says what is left of the second: no
error in an initial state, and none after a reachable *steady* step, one whose
inputs trigger the error again and which leaves the gates that the property shares
with the next state functions as they are (`SteadySteps`, defined on the graph in
the file, by the cones of its literals). If the property depends on no input and
shares no gate, the circuit is safe. Backward CAR is run on the pairs of gates,
where sharing occurs in every form, on the lone latches, the constants, the chain
and the others, the unsafe circuit it misjudges among them.

In the runs of CAR that include the backward mode, the error does not depend on
the inputs, or, in one system of `car_three_latches`, does so in a way that does
not matter. Where it matters, `car_backward_inputs` shows the verdict to be wrong.

**Fairness.** `Spec` is weak fairness of the whole next-state relation: the one
thread of the program keeps running until `run`, or `main`, returns. Nothing is
assumed about the choices of the solver, so `Termination` holds for all of them.
In `Geyser` the engine returns, which the engines' own runs show, but for BMC
without a bound on a safe circuit: it searches forever (`SearchForever`), and
`Termination` says that nothing else does.

**Deadlock** is checked everywhere; a returned engine, and a program that has
exited, stutters explicitly.

## 4. What the code disagrees with

1. *Reset values in counterexamples* (`pdr_missing_values`). `build_counterexample`
   makes a latch false that the generalized cube does not mention, because "its
   value is not important". It is when the latch resets to one: the reported
   state is then no initial state. `CounterexampleReplays` shows the rest of the
   claim: the inputs reach the error from the reported state. Forward CAR has the
   same function, and `CounterexampleStartsInInit` states in both modules what is
   left: the claim holds when no latch resets to one.
2. *Activators of BMC* (`bmc_activator_assertion`). The assertion in `make_error`
   fails at the first refresh after step 0. It only concerns a debug build.
3. *Inputs in backward CAR* (`car_backward_inputs`). The error and the step into
   it share their input variables in the reversed system; `bcar` says `ok` of an
   unsafe system that needs different values.
4. *A note on CAR* (`car_note_on_init`). `doc/car.txt` says that an obligation
   that is not blocked does not intersect the initial states. It may, when a cube
   of the cotrace is followed past the depth. Nothing relies on the note.
5. *The negation of CAR* (`car_negate_cnf`). What `negate_cnf` returns is
   satisfied by every state: the split at the separators yields one clause too
   many, the empty one. `is_inductive` of the backward mode is weaker for it, and
   right: `AnswerIsRight`, with the initial states that are left, and the runs of
   CAR show that.

Two things met on the way have no run: `doc/pdr.txt` writes `m = max(i, k)` where
the code takes the minimum, and the code is right; and the loop of BMC with `-k`
at its default would overflow `int` after 2^31 - 1 steps, which no run reaches.

## 5. What is proved

The proofs hold for every set of latches and inputs, every set of systems of type
`SystemType`, every refresh rate of at least one, every bound, every combination
of options, every graph and every command line, and every choice of the solver.
The assumptions are the ASSUMEs of the modules and no others: apart from the types
of the parameters, that there is a valuation of the inputs (`InputsAssumption`),
and that a reset in a file is 0, 1 or the latch itself, which `aiger_add_reset` asserts,
and that a file without justice constraints has no literals in them
(`InvocationsAssumption`). One more says that the sets of states and inputs are large enough for the files: a
state and an input have a value for each latch and each input of a well-formed file
(`SpaceAssumption`). Each invariant is a conjunction of named parts;
there is one lemma per action, and lemmas on cubes, frames, queries, stacks and
sequences that they share.

**PDR** (`PDRProof`). None of the properties is inductive alone. A verdict of `ok`
is right because an empty frame makes the frame before it an inductive invariant;
that needs `TraceOverapproximates` and `FramesBelowLastAreSafe`; those need each
blocked cube to be relatively inductive and disjoint from the initial states *in
the trace*, while the query is answered by *the solver*; and the first half of
that needs the obligation to be outside the frame below its level. So `IInv` has

- `SolverInv`: the solver has the clause of every cube of the trace, and each of
  its clauses is subsumed by a cube that the trace has at the same level or
  higher, which makes the two descriptions of a frame equal across subsumption,
  propagation and refreshes;
- `TraceInv`: blocked cubes avoid the initial states, frames step into the next
  one, frames before the last exclude the error;
- `PoolInv`: each CTI is inhabited, and disjoint from every inductive invariant
  that excludes the error;
- `QueueInv`: `ObligationsAreNew`, and an obligation of level 0 contains an
  initial state;
- `LocalInv`: what is known of the candidate, the model and the copied frame
  while `generalize_inductive`, `get_predecessor` and `propagate` run.

Theorems: `TypeCorrect`, `VerdictsAreCorrect`, `AssertionHolds`, `SolverAgrees`,
`FramesOverapproximate`, `ObligationsStayNew`, `FramesStaySafe`, `FramesShrink`,
`BlockedStaysOut` and `PDRImplementsEngine`, the refinement of `ModelChecker`.

**The counterexamples of PDR** (`PDRProof`). `HandlesInv`: live obligations
have different handles, and the one that is worked on is not in the queue.
`PathInv`: an entry's successor is an older entry, so that `PathFrom`, a recursive
function, unfolds to a finite path, and all states of an entry go where the entry
says. `CexInv`: what `build_counterexample` reads along a path replays. Theorems:
`HandlesStayLive`, `CtisStayOnPaths`, `CounterexamplesReplay`,
`CounterexamplesStartInInit`.

**BMC** (`BMCProof`). `IInv` says which transitions and errors are in the solver
at each point of `run`, before and after a refresh (`Unrolled`,
`LastErrorEnabled`), that all shorter executions have been searched (`Searched`),
and how the cache relates to the versions (`CacheInv`). The lemma
`QueryIsErrorPath` then equates the models of the query with the executions that
have an error at their end. Theorems: `BMCTypeCorrect`, `BMCUnknownIsHonest`,
`BMCShortestCounterexample`, `BMCVersionsExist`, `BMCImplementsEngine`.

**CAR** (`CARProof`). The invariant is proved in layers: `TypeInv`; `FrameInv`,
which has what PDR's `SolverInv` and `TraceInv` have, in the direction of the
engine; and `ObligationInv`, on the pool, the queue and the verdict. The backward
engine works on what `reverse_system` makes of the system, and that is its reverse
only if the error does not need other inputs than the step into it. This condition
is `ReversalIsExact`. It holds of all the systems of `car_two_latches` and
`car_three_latches` and fails on the one of `car_backward_inputs`, where the
verdict is wrong; the forward engine always satisfies it. Without it are proved
`CARTypeCorrect`, `CARSolverAgrees`, `CARFramesStaySafe`, `CARSetsAreMonotone` and
`CARCounterexamplesAreDeserved`; with it `CARFramesOverapproximate`,
`CARVerdictsAreCorrect` and `CARImplementsEngine`. So what the third finding of
section 4 can make wrong is a verdict of `ok`, and never a counterexample.
`CARBackwardOkIsReversedSafe` says what such a verdict still means, without any
condition: the states that are in no frame from the first on contain the initial
states, are closed under steps, and no step from one of them leads into an error
that the inputs of the step trigger too, with the shared gates as they were.

**The counterexamples of CAR** (`CARProof`). Besides a `PathInv` as for PDR,
whose entries also are inhabited, there is `CountInv`: a cube in coframe j, or an
obligation of colevel j, is j steps from the end of its path, which is what the
scan over the cotrace relies on. `LevelZeroHasInputs` says that in the backward
mode the entry that reached level 0 has the inputs of the error. Theorems:
`CARCotraceLeadsToError`, `CARCounterexamplesReplay`,
`CARCounterexamplesStartInInit`.

**The library and the builder** (`AigerProof`). `NothingIsMissed` depends on the
order of the gates, that on the codes `aiger_reencode_lit` hands out, and those on
the absence of cycles, which is what `aiger_check_for_cycles` has found. So
`AigerInv` follows the program from the reader on:

- `ReadInv`: the lines so far are readable, hence each literal is defined once;
- `CyclesInv` and `CodesInv`: the stack of either traversal (`Traversed`). A gate
  that has been entered has a 0 on top of it; each of its operands is done or
  above that; and whatever is above it has a lower rank, in every ranking of the
  gates by dependency. The cycle check leaves the gates in an order
  (`LeftInOrder`), which is such a ranking once all are left; reaching a gate that
  has been entered means that there is none. Reencoding gives a gate a larger code
  than its operands, since by the ranking no gate is met while it is entered;
- `OrderInv`: the sorted gates come after their operands, whether the library has
  reencoded the graph or found it in order;
- `GateInv` and `NothingIsMissed` itself: by the order, what a visited gate
  requires is still ahead of the pass.

Theorems: `AigerInvariant` and `NoGateIsMissed`.

**The exit** (`GeyserProof`). `CommandInv`: the options collected so far are those
of the arguments so far, the first of each key, and there is at most one path
among them. `StageInv`: the point the program has reached says which conditions
its arguments and its file satisfy. In between are the lemmas
`WellFormedIsChecked` and `CheckedIsWellFormed`: a graph passes the reader,
`aiger_check` and the traversal if and only if it is well-formed, a condition that
mentions no line, mark or stack. Theorems: `CommandInvariant` and
`ExitsAreDeserved`.

**What reencoding makes of a graph** (`GeyserProof`). The codes are 2, 4, ... without
a gap and belong to different variables, so there are never more of them than
variables (`CodesFit`). `RootInv`: a root that has been passed on has a code, or is
at the bottom of the stack. So when the last root is done, everything a latch, a
property or a gate that was reached uses has a code, and the graph that comes out,
without the gates that were not reached, is one that `aiger_check` would accept
(`RecodedSound`). `GraphInv` says that the builder works on that graph, or on the
one in the file. Theorems: `ProgramInvariant` and `GeyserTypeCorrect`.

**The formulas** (`WitnessProof`). `EncodingIsExact` compares the models of the
formulas with the values of the graph *in the file*. Between the two are the
renumbering and a builder that leaves gates out, and the proof has a part for each:

- *Values.* `Values` is a recursive function over the variables. Once the gates
  have a ranking by dependency, which is what the cycle check has found, its
  equations have a solution (`SolutionExists`, by induction on the rank), so it is
  an evaluation (`Evaluates`) of the graph.
- *Reencoding.* No two variables have one code (`CodesDiffer`), so the values of
  the file, read through the codes (`RecodedValues`), are well-defined and are an
  evaluation of the graph that comes out, in which the operands of a gate may be
  swapped and gates may be missing. Next states, the property and the constant
  resets have the values they had (`RecodedSameValues`, `SameResets`).
- *The passes.* `FormulaInv` says of each formula, while it is built and after,
  that it has clauses of gates only, and for a set of gates that contains those of
  its roots and is closed under operands all of their clauses (`Encodes`,
  `Covers`). During a pass, what is closed is the part already visited
  (`PassInv`); that the rest is ahead is `NothingIsMissed` again.
- *Models.* The clauses of a gate say that its variable is the conjunction of its
  operands, in every case that `clausify_and` distinguishes, constant operands
  included (`GateSat`); those of a latch, that its next value is that of its
  function (`LatchSat`). So an evaluation is a model, and a model agrees with the
  evaluation on the gates its roots depend on, by the least gate on which it would
  not (`ModelAgrees`). Gates that are left out may have any value.

Theorems: `FormulaInvariant` and `FormulasAreExact`.

**The answer** (`WitnessProof`). `AnswerInv`: the bound the engine is given is that
of the first `-k`; `ResultInv` says of each result what the engine step makes of it
in terms of the circuit in the file, to which the system it was asked about is equal
(`EncodedIsCircuit`, from the proof before); and what is printed is the result
(`Printed`). The parts:

- *Counterexamples.* The start state is initial but for latches that reset to one
  and are reported as false by an engine that generalizes (`MayStart`;
  `GeneralizedStart` gets it from a cube that contains an initial state: a latch that
  resets to zero can be in the cube only as false). A row fixes the latches and
  inputs of the file only, and a state of the model may have more; so `ErrorsAgree`
  shows that executions that agree on those reach the error together, and `RowsReplay`
  that every reading of the rows is such an execution. An execution of the reversed
  system is one of the circuit because a last step leads to an error under its own
  inputs (`LastIsError`, `ReversedReaches`).
- *ok of backward CAR.* `BackwardOkIsTrue` is about the graph in the file,
  `ReturnOk` about the models of two sets of clauses of a renumbered one.
  `SteadyIsLast` connects them: a steady step is a last step. Both formulas need a
  valuation of the gates, and there is one for both as soon as the gates that are in
  both have the same values before and after the step (`MixedModel`); so the
  invariant of the formulas says of each that the gates it has clauses of are in the
  cone of its roots (`InCone`), and `RecodedCone` and `SharedGateComes` follow a cone
  through the renumbering: a gate that the two formulas share comes from a shared
  gate of the file. With fewer last steps the reversed system stays safe
  (`FewerLastSteps`), and when the property depends on no input and no gate is
  shared every step into an error is steady. Then the circuit is safe, by the
  invariant that consists of the initial states and the successors of the states in
  the invariant of the reversed system (`ReversedSafeIsSafe`).

What the step of an engine may return is part of the model here, and what section 2
lists is proved of the engines; that the engine returns at all is assumed, and
checked in the engines' own runs. Theorems: `AnswerInvariant`, `WitnessesAreTrue`
and `BackwardOkIsRight`. The program as a whole does not implement `ModelChecker`:
with `bcar` it does so only for circuits of which `BackwardOkIsTrue` says that 0
means safe.

**The clauses of `is_inductive`** (`InductiveCheckProof`). `AnswerIsRight` says that
one solver, asked about frame after frame with all the clauses of the earlier frames
left in it, decides a condition that mentions no clause. The proof has three layers:

- *Formulas.* A formula is a flat sequence of literals and separators. `Split` is
  followed along the sequence (`ExtendedView`), so that the clauses of a formula
  that was made of clauses are these (`FormulaClauses`), the activated negation of
  a cube is one clause more with the activator in it (`ActivateClauses`), the cube
  of a formula has its literals, sorted or not (`CubeLiterals`), and the two
  negations have the clauses `FrameNegation` and `FormulaNegation`.
- *Valuations.* The solver finds a valuation if there is one (`SolverIsRight`): its
  set of partial valuations after k variables is the set of all those that leave
  every clause open (`OpenGrows`). The clauses of `clausify_frame_negation` hold of
  a valuation if the new variables have the values of the cubes and one of them is
  true (`FrameNegationTruth`), those of `negate_cnf` if they have the values of the
  parts and one of them is false (`FormulaNegationTruth`).
- *The loop.* `CheckerInv`: at frame i the clauses in the solver can be satisfied in
  exactly the states that are left (`IsExact`), those that are not initial and in no
  frame before i; and no frame before i is covered. In the backward mode no state
  counts as initial, unless the formula is empty: what `negate_cnf` leaves of the
  negated formula excludes none (`NegationExcludesNothing`). Both directions of "exactly"
  are needed: if the clauses of earlier frames excluded a state that is left, a
  frame could pass for covered that is not, and if they admitted another, a covered
  one could be overlooked. A step extends a valuation by a false activator and the
  values of the cubes (`NextFrameIsExact`).

So that the prover accepts the module, the solver and `Split` are recursive functions
and no recursive operators, and the sort of `cube` is any surjection that sorts. The
proof assumes of the constants that the state variables are among
the variables of the system (`VariablesAssumption`), and of a question what the
callers of `is_inductive` guarantee (`QuestionsAssumption`): there is a frame, cubes
are over state variables, a formula ends in a separator, and in the forward mode,
whose initial formula `formula_as_cube` takes for a cube, it is a conjunction of
literals of state variables. In the backward mode the initial formula is any.
Theorems: `CheckerInvariant`, `InductiveAnswersAreRight`, and
`NegationExcludesNothing`: whatever the formula, as long as it has a clause, the
result of `negate_cnf` excludes no state, because the last part is empty.

**Inductions over data.** Where a proof has to go along a path or a sequence it
takes the least number for which a claim fails (`LeastNatural`, `LeastNumber`), and
uses a recursive function only through its defining equation. What a loop computes
is a function from the number of iterations; that it exists is `LoopExists`, by
`BoundedInduction` on the set of numbers of iterations for which it does.

**Only model-checked.** `Termination` of everything: liveness under fairness is out
of the prover's reach. Every other property of a passing run is stated by a theorem.
The five runs that expect a violation have no theorem of their property: each is a
counterexample.

## 6. What is not modelled

- CaDiCaL and Catch2, which are vendored and are most of the lines of this
  repository: CaDiCaL is modelled by what the engines get from it. Its own
  algorithms (clause learning, inprocessing, proof tracing) are another project's
  subject, and no model of this program is more faithful for having them. For
  this reason the map covers the program and the part of the AIGER library that
  it runs, and only a small share of all the lines under `src/`.
- Of the AIGER library: the binary format (its graphs are in order by the way
  they are written), the header, symbols and comments, the writers, and what the
  program does not call. A reset is 0, 1 or the latch itself, which
  `aiger_add_reset` asserts and does not check.
- The logger: output only.
- The characters of arguments and of the witness, variable names and memory.

## 7. Plan

Done: `TransitionSystem`, `ModelChecker`, then the engines in the order of their
weight, PDR, BMC and CAR; the clauses of `is_inductive`; the program around the
engines; the proofs about PDR, BMC and CAR with their counterexamples and their
refinements; the order of the gates, what reencoding makes of a graph, the exit of
the program, its formulas, its witness and what 0 of backward CAR says; the
clauses of `is_inductive` for traces of any length.

Next: the runs of section 4 say where the code and a claim about it part ways. For
reset values and for the inputs of the backward mode the theorems give conditions
under which the claim holds; whether these conditions are also necessary is open.
