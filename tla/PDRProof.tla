------------------------------ MODULE PDRProof ------------------------------
(***************************************************************************)
(* The verdicts of the PDR engine are right, for every set of latches and  *)
(* inputs, every system, every refresh rate and every choice of models and *)
(* unsat cores the solver may make.                                        *)
(***************************************************************************)
EXTENDS PDR, SystemLemmas, TLAPS

-----------------------------------------------------------------------------
(* The inductive invariant, grouped by the variables it is about.          *)

Working == {"inductive", "predecessor", "shrink", "raise"}

\* The solver sv has Init, T and E once a query was made; it has the clause of
\* every cube of the trace, and each of its clauses is subsumed by a cube that
\* the trace still has at the same level or higher.
Matches(sv) ==
    /\ sv \in [loaded : BOOLEAN, clauses : SUBSET ((0 .. depth) \X Cubes), queries : Nat]
    /\ sv.queries # 0 => sv.loaded
    /\ \A k \in 0 .. depth : \A c \in blocked[k] : <<k, c>> \in sv.clauses
    /\ \A cl \in sv.clauses : \E k \in cl[1] .. depth : \E c \in blocked[k] : Subsumes(c, cl[2])

SolverInv == Matches(solver)

\* A frame's successors are in the next frame.
FramesStep ==
    \A i \in 0 .. depth - 1 : \A s \in R(i), in \in Inputs :
        NextState(system, s, in) \in R(i + 1)

\* No blocked cube intersects the initial states.
BlockedAvoidInit ==
    \A k \in 0 .. depth : \A c \in blocked[k] : ~IntersectsInit(system, c)

TraceInv ==
    /\ system \in Systems
    /\ depth \in Nat
    /\ blocked \in [0 .. depth -> SUBSET Cubes]
    /\ BlockedAvoidInit
    /\ FramesStep
    /\ FramesBelowLastAreSafe

\* Each CTI cube has a state in it, and none of its states is in any inductive
\* invariant that excludes the error.
CtisAreInhabited == \A h \in Handles : \E s \in States : Holds(pool[h].state, s)

CtisAreUnsafe ==
    \A Inv \in SUBSET States : SafeInvariant(system, Inv) =>
        \A h \in Handles : \A s \in Inv : ~Holds(pool[h].state, s)

PoolInv == CtisAreInhabited /\ CtisAreUnsafe

\* An obligation that reached level 0 contains an initial state.
LevelZeroIsInitial ==
    \A o \in queue : Level(o) = 0 =>
        \E s \in States : Holds(system.init, s) /\ Holds(StateVars(o), s)

\* Nothing is queued outside of solve_obligation.
QueueIsLocal == pc \in {"check", "propagate"} => queue = {}

QueueInv == ObligationsAreNew /\ LevelZeroIsInitial /\ QueueIsLocal

\* The candidate generalizes the obligation, avoids the initial states and is
\* inductive relative to the frame before its level.
CandidateIsInductive ==
    pc \in {"shrink", "raise"} =>
        /\ cand \subseteq StateVars(po)
        /\ ~IntersectsInit(system, cand)
        /\ \A s \in R(level - 1), in \in Inputs :
                ~Holds(cand, s) => ~Holds(cand, NextState(system, s, in))

\* The predecessor that was found is in the frame before the obligation.
ModelInFrame == pc = "predecessor" => model.state \in R(Level(po) - 1)

\* The cubes of the frame being propagated avoid the initial states.
CopiedAvoidInit == \A c \in cubes : ~IntersectsInit(system, c)

LocalInv == CandidateIsInductive /\ ModelInFrame /\ CopiedAvoidInit

IInv ==
    /\ TypeOK
    /\ SolverInv
    /\ TraceInv
    /\ PoolInv
    /\ QueueInv
    /\ LocalInv
    /\ VerdictIsCorrect

-----------------------------------------------------------------------------
(* The solver and the trace.                                               *)

\* What a solver that matches the trace knows of a frame.
LEMMA FrameInSolver ==
    ASSUME NEW sv, Matches(sv), sv.loaded, depth \in Nat,
           NEW i \in 0 .. depth, NEW s \in States
    PROVE  InFrame(sv, i, s) <=> s \in R(i)
<1>1. ASSUME InFrame(sv, i, s), NEW k \in i .. depth, NEW c \in blocked[k]
      PROVE  ~Holds(c, s)
  <2>1. <<k, c>> \in sv.clauses
    BY DEF Matches
  <2> QED
    BY <1>1, <2>1 DEF InFrame
<1>2. ASSUME s \in R(i), NEW cl \in sv.clauses, cl[1] >= i
      PROVE  ~Holds(cl[2], s)
  <2>1. PICK k \in cl[1] .. depth : \E c \in blocked[k] : Subsumes(c, cl[2])
    BY DEF Matches
  <2>2. PICK c \in blocked[k] : Subsumes(c, cl[2])
    BY <2>1
  <2>3. cl[1] \in 0 .. depth
    BY DEF Matches
  <2>4. ~Holds(c, s)
    BY <1>2, <2>1, <2>2, <2>3 DEF R
  <2> QED
    BY <2>2, <2>4, SubsumesHolds
<1> QED
  BY <1>1, <1>2 DEF InFrame, R

\* A refreshed solver matches the trace.
LEMMA RefreshMatches ==
    ASSUME depth \in Nat, blocked \in [0 .. depth -> SUBSET Cubes]
    PROVE  Matches(RefreshedSolver) /\ RefreshedSolver.loaded
<1> DEFINE cls == UNION {{<<k, c>> : c \in blocked[k]} : k \in 0 .. depth}
<1>1. cls \in SUBSET ((0 .. depth) \X Cubes)
  OBVIOUS
<1>2. \A k \in 0 .. depth : \A c \in blocked[k] : <<k, c>> \in cls
  OBVIOUS
<1>3. ASSUME NEW cl \in cls
      PROVE  \E k \in cl[1] .. depth : \E c \in blocked[k] : Subsumes(c, cl[2])
  <2>1. PICK k \in 0 .. depth : \E c \in blocked[k] : cl = <<k, c>>
    OBVIOUS
  <2>2. PICK c \in blocked[k] : cl = <<k, c>>
    BY <2>1
  <2> QED
    BY <2>1, <2>2 DEF Subsumes
<1>4. RefreshedSolver = [loaded |-> TRUE, clauses |-> cls, queries |-> 0]
  BY DEF RefreshedSolver
<1> HIDE DEF cls
<1> QED
  BY <1>1, <1>2, <1>3, <1>4 DEF Matches

\* with_solver returns a solver that matches the trace and has the system
\* loaded, whether it refreshed it or not.
LEMMA WithSolverMatches ==
    ASSUME SolverInv, depth \in Nat, blocked \in [0 .. depth -> SUBSET Cubes]
    PROVE  Matches(WithSolver) /\ WithSolver.loaded
<1> DEFINE sv == IF solver.queries % SolverRefreshRate = 0 THEN RefreshedSolver ELSE solver
<1>1. Matches(RefreshedSolver) /\ RefreshedSolver.loaded
  BY RefreshMatches
<1>2. solver.queries = 0 => solver.queries % SolverRefreshRate = 0
  BY RefreshAssumption
<1>3. solver.queries # 0 => solver.loaded
  BY DEF SolverInv, Matches
<1>4. Matches(sv) /\ sv.loaded
  BY <1>1, <1>2, <1>3 DEF SolverInv
<1>5. WithSolver = [loaded |-> sv.loaded, clauses |-> sv.clauses, queries |-> sv.queries + 1]
  BY DEF WithSolver
<1> HIDE DEF sv
<1>6. /\ WithSolver.loaded = sv.loaded
      /\ WithSolver.clauses = sv.clauses
      /\ WithSolver \in [loaded : BOOLEAN, clauses : SUBSET ((0 .. depth) \X Cubes), queries : Nat]
      /\ WithSolver.queries = sv.queries + 1
  BY <1>4, <1>5 DEF Matches
<1> QED
  BY <1>4, <1>6 DEF Matches

\* What the answer of a one-step query tells about the frames.
LEMMA StepQuery ==
    ASSUME SolverInv, TraceInv, NEW i \in 1 .. depth + 1, NEW c, NEW d
    PROVE  /\ \A s \in States, in \in Inputs :
                StepModel(WithSolver, i, c, d, s, in) <=>
                    s \in R(i - 1) /\ ~Holds(c, s) /\ Holds(d, NextState(system, s, in))
           /\ StepSat(WithSolver, i, c, d) <=>
                \E s \in R(i - 1), in \in Inputs : ~Holds(c, s) /\ Holds(d, NextState(system, s, in))
<1>1. Matches(WithSolver) /\ WithSolver.loaded
  BY WithSolverMatches DEF TraceInv
<1>2. i - 1 \in 0 .. depth
  BY DEF TraceInv
<1>3. \A s \in States : InFrame(WithSolver, i - 1, s) <=> s \in R(i - 1)
  BY <1>1, <1>2, FrameInSolver DEF TraceInv
<1>4. ASSUME NEW s \in States, NEW in \in Inputs
      PROVE  StepModel(WithSolver, i, c, d, s, in) <=>
                s \in R(i - 1) /\ ~Holds(c, s) /\ Holds(d, NextState(system, s, in))
  BY <1>1, <1>3 DEF StepModel, Successors
<1>5. R(i - 1) \subseteq States
  BY DEF R
<1> QED
  BY <1>4, <1>5 DEF StepSat

\* Frames grow with the level.
LEMMA FramesMonotone ==
    ASSUME depth \in Nat, NEW i \in 0 .. depth, NEW j \in i .. depth
    PROVE  R(i) \subseteq R(j)
BY DEF R

\* Every frame contains the initial states.
LEMMA InitInFrames ==
    ASSUME TraceInv, NEW i \in 0 .. depth, NEW s \in States, Holds(system.init, s)
    PROVE  s \in R(i)
<1>1. system \in SystemType
  BY SystemsAssumption DEF TraceInv
<1>2. ASSUME NEW k \in i .. depth, NEW c \in blocked[k] PROVE ~Holds(c, s)
  <2>1. k \in 0 .. depth /\ c \in Cubes
    BY DEF TraceInv
  <2>2. ~IntersectsInit(system, c)
    BY <2>1 DEF TraceInv, BlockedAvoidInit
  <2> QED
    BY <1>1, <2>1, <2>2, AvoidsInit
<1> QED
  BY <1>2 DEF R

-----------------------------------------------------------------------------
(* add_blocked_at.                                                         *)

\* What blocking a cube does to the frames: those up to its level lose the
\* states of the cube and nothing else changes, whatever was dropped as
\* subsumed.
LEMMA BlockedFrames ==
    ASSUME TraceInv, NEW c \in Cubes, NEW lvl \in 1 .. depth + 1, NEW from \in 1 .. lvl,
           depth >= 1,
           blocked' = BlockedWith(c, lvl, from), UNCHANGED <<system, depth>>
    PROVE  /\ blocked' \in [0 .. depth -> SUBSET Cubes]
           /\ \A i \in 0 .. depth : \A s \in States :
                s \in R(i)' <=> s \in R(i) /\ (i <= lvl => ~Holds(c, s))
<1> DEFINE k == IF lvl <= depth THEN lvl ELSE depth
           kept(d) == IF from <= d /\ d <= k
                      THEN {e \in blocked[d] : ~Subsumes(c, e)} ELSE blocked[d]
<1>1. k \in 1 .. depth /\ depth \in Nat
  BY DEF TraceInv
<1>2. blocked' = [d \in 0 .. depth |-> IF d = k THEN kept(d) \cup {c} ELSE kept(d)]
  BY DEF BlockedWith
<1>3. blocked' \in [0 .. depth -> SUBSET Cubes]
  BY <1>1, <1>2 DEF TraceInv
<1>4. ASSUME NEW i \in 0 .. depth, NEW s \in States, s \in R(i)'
      PROVE  s \in R(i) /\ (i <= lvl => ~Holds(c, s))
  <2>1. /\ i = 0 => Holds(system.init, s)
        /\ \A m \in i .. depth : \A e \in blocked'[m] : ~Holds(e, s)
    BY <1>4 DEF R
  <2>2. i <= lvl => ~Holds(c, s)
    <3>1. c \in blocked'[k]
      BY <1>1, <1>2
    <3>2. i <= lvl => k \in i .. depth
      BY <1>1
    <3> QED
      BY <2>1, <3>1, <3>2
  <2>3. ASSUME NEW m \in i .. depth, NEW e \in blocked[m] PROVE ~Holds(e, s)
    <3>1. CASE e \in blocked'[m]
      BY <2>1, <3>1
    <3>2. CASE e \notin blocked'[m]
      <4>1. m <= k /\ Subsumes(c, e)
        BY <1>1, <1>2, <3>2
      <4>2. i <= lvl
        BY <1>1, <4>1
      <4> QED
        BY <2>2, <4>1, <4>2, SubsumesHolds
    <3> QED
      BY <3>1, <3>2
  <2> QED
    BY <2>1, <2>2, <2>3 DEF R
<1>5. ASSUME NEW i \in 0 .. depth, NEW s \in R(i), i <= lvl => ~Holds(c, s)
      PROVE  s \in R(i)'
  <2>1. ASSUME NEW m \in i .. depth, NEW e \in blocked'[m] PROVE ~Holds(e, s)
    <3>1. e \in blocked[m] \/ (m = k /\ e = c)
      BY <1>1, <1>2
    <3>2. e \in blocked[m] => ~Holds(e, s)
      BY DEF R
    <3>3. m = k => i <= lvl
      BY <1>1
    <3> QED
      BY <1>5, <3>1, <3>2, <3>3
  <2> QED
    BY <2>1 DEF R
<1> QED
  BY <1>3, <1>4, <1>5

\* Blocking a cube that avoids the initial states and is inductive relative to
\* the frame before its level keeps the trace a trace.
LEMMA BlockingKeepsTrace ==
    ASSUME TraceInv, NEW c \in Cubes, NEW lvl \in 1 .. depth + 1, NEW from \in 1 .. lvl,
           depth >= 1,
           blocked' = BlockedWith(c, lvl, from), UNCHANGED <<system, depth>>,
           ~IntersectsInit(system, c),
           \A s \in R(lvl - 1), in \in Inputs : ~Holds(c, s) => ~Holds(c, NextState(system, s, in))
    PROVE  TraceInv'
<1>1. /\ blocked' \in [0 .. depth -> SUBSET Cubes]
      /\ \A i \in 0 .. depth : \A s \in States :
            s \in R(i)' <=> s \in R(i) /\ (i <= lvl => ~Holds(c, s))
  BY BlockedFrames
<1>2. \A i \in 0 .. depth : R(i) \subseteq States /\ R(i)' \subseteq States
  BY DEF R
<1>3. BlockedAvoidInit'
  <2>1. ASSUME NEW k \in 0 .. depth, NEW e \in blocked'[k] PROVE e = c \/ e \in blocked[k]
    BY DEF BlockedWith
  <2> QED
    BY <2>1 DEF TraceInv, BlockedAvoidInit, IntersectsInit
<1>4. FramesStep'
  <2> SUFFICES ASSUME NEW i \in 0 .. depth - 1, NEW s \in R(i)', NEW in \in Inputs
               PROVE  NextState(system, s, in) \in R(i + 1)'
    BY DEF FramesStep
  <2>1. /\ i \in 0 .. depth /\ i + 1 \in 0 .. depth /\ lvl - 1 \in 0 .. depth
        /\ i <= lvl - 1 => lvl - 1 \in i .. depth
    BY DEF TraceInv
  <2>2. s \in R(i) /\ (i <= lvl => ~Holds(c, s)) /\ s \in States
    BY <1>1, <1>2, <2>1
  <2>3. NextState(system, s, in) \in R(i + 1)
    BY <2>2 DEF TraceInv, FramesStep
  <2>4. ASSUME i + 1 <= lvl PROVE ~Holds(c, NextState(system, s, in))
    <3>1. i <= lvl - 1 /\ i <= lvl
      BY <2>4 DEF TraceInv
    <3>2. s \in R(lvl - 1)
      BY <2>1, <2>2, <3>1, FramesMonotone DEF TraceInv
    <3> QED
      BY <2>2, <3>1, <3>2
  <2> QED
    BY <1>1, <1>2, <2>1, <2>3, <2>4
<1>5. FramesBelowLastAreSafe'
  <2>1. \A i \in 0 .. depth - 1 : i \in 0 .. depth /\ R(i)' \subseteq R(i)
    BY <1>1, <1>2 DEF TraceInv
  <2> QED
    BY <2>1 DEF FramesBelowLastAreSafe, TraceInv
<1> QED
  BY <1>1, <1>3, <1>4, <1>5 DEF TraceInv

\* The solver that got the clause matches the trace that got the cube.
LEMMA BlockingKeepsSolver ==
    ASSUME TraceInv, NEW c \in Cubes, NEW lvl \in 1 .. depth + 1, NEW from \in 1 .. lvl,
           depth >= 1,
           blocked' = BlockedWith(c, lvl, from), UNCHANGED depth,
           NEW sv, Matches(sv), solver' = AssertedAt(sv, c, lvl)
    PROVE  SolverInv'
<1> DEFINE k == IF lvl <= depth THEN lvl ELSE depth
           kept(d) == IF from <= d /\ d <= k
                      THEN {e \in blocked[d] : ~Subsumes(c, e)} ELSE blocked[d]
<1>1. k \in 1 .. depth /\ depth \in Nat
  BY DEF TraceInv
<1>2. blocked' = [d \in 0 .. depth |-> IF d = k THEN kept(d) \cup {c} ELSE kept(d)]
  BY DEF BlockedWith
<1>3. solver' = [loaded |-> sv.loaded, clauses |-> sv.clauses \cup {<<k, c>>}, queries |-> sv.queries]
  BY DEF AssertedAt
<1>4. /\ solver' \in [loaded : BOOLEAN, clauses : SUBSET ((0 .. depth) \X Cubes), queries : Nat]
      /\ solver'.queries # 0 => solver'.loaded
  BY <1>1, <1>3 DEF Matches
<1>5. ASSUME NEW m \in 0 .. depth, NEW e \in blocked'[m] PROVE <<m, e>> \in solver'.clauses
  <2>1. e \in blocked[m] \/ (m = k /\ e = c)
    BY <1>1, <1>2
  <2> QED
    BY <1>3, <2>1 DEF Matches
<1>6. ASSUME NEW cl \in solver'.clauses
      PROVE  \E m \in cl[1] .. depth : \E e \in blocked'[m] : Subsumes(e, cl[2])
  <2>1. c \in blocked'[k] /\ Subsumes(c, c)
    BY <1>1, <1>2 DEF Subsumes
  <2>2. CASE cl = <<k, c>>
    BY <1>1, <2>1, <2>2
  <2>3. CASE cl \in sv.clauses
    <3>1. PICK m \in cl[1] .. depth : \E e \in blocked[m] : Subsumes(e, cl[2])
      BY <2>3 DEF Matches
    <3>2. PICK e \in blocked[m] : Subsumes(e, cl[2])
      BY <3>1
    <3>3. cl[1] \in 0 .. depth
      BY <2>3 DEF Matches
    <3>4. CASE e \in blocked'[m]
      BY <3>1, <3>2, <3>4
    <3>5. CASE e \notin blocked'[m]
      <4>1. m <= k /\ Subsumes(c, e)
        BY <1>1, <1>2, <3>1, <3>3, <3>5
      <4>2. Subsumes(c, cl[2])
        BY <3>2, <4>1 DEF Subsumes
      <4>3. k \in cl[1] .. depth
        BY <1>1, <3>1, <3>3, <4>1
      <4> QED
        BY <2>1, <4>2, <4>3
    <3> QED
      BY <3>4, <3>5
  <2> QED
    BY <1>3, <2>2, <2>3
<1> QED
  BY <1>4, <1>5, <1>6 DEF SolverInv, Matches

-----------------------------------------------------------------------------
(* What a step that leaves some variables alone preserves.                 *)

\* A step that leaves the trace alone keeps its frames.
LEMMA TraceUnchanged ==
    ASSUME TraceInv, UNCHANGED <<system, trace>>
    PROVE  TraceInv' /\ \A i \in Nat : R(i)' = R(i)
<1>1. \A i \in Nat : R(i)' = R(i)
  BY DEF R, trace
<1> QED
  BY <1>1 DEF TraceInv, BlockedAvoidInit, FramesStep, FramesBelowLastAreSafe, IntersectsInit, R, trace

\* A step that leaves the trace and the solver alone keeps them matched.
LEMMA SolverUnchanged ==
    ASSUME SolverInv, UNCHANGED <<trace, solver>>
    PROVE  SolverInv'
BY DEF SolverInv, Matches, trace

\* A query leaves a solver that matches the trace.
LEMMA SolverQueried ==
    ASSUME SolverInv, TraceInv, UNCHANGED trace, solver' = WithSolver
    PROVE  SolverInv'
<1>1. Matches(WithSolver)
  BY WithSolverMatches DEF TraceInv
<1> QED
  BY <1>1 DEF SolverInv, Matches, trace

\* A step that leaves the pool alone keeps its entries.
LEMMA PoolUnchanged ==
    ASSUME PoolInv, UNCHANGED <<system, pool>>
    PROVE  PoolInv'
BY DEF PoolInv, CtisAreInhabited, CtisAreUnsafe, SafeInvariant, Handles

\* A step that returns nothing keeps the verdict right.
LEMMA VerdictUnchanged ==
    ASSUME VerdictIsCorrect, UNCHANGED <<system, result>>
    PROVE  VerdictIsCorrect'
BY DEF VerdictIsCorrect, Safe, SafeInvariant

\* A pool entry that has a state in it and none that is in a safe inductive
\* invariant may be added.
LEMMA PoolGrows ==
    ASSUME PoolInv, UNCHANGED system,
           pool \in Seq([state : Cubes, input : Inputs, succ : Nat]),
           NEW e \in [state : Cubes, input : Inputs, succ : Nat], pool' = Append(pool, e),
           \E s \in States : Holds(e.state, s),
           \A Inv \in SUBSET States : SafeInvariant(system, Inv) => \A s \in Inv : ~Holds(e.state, s)
    PROVE  /\ PoolInv'
           /\ pool' \in Seq([state : Cubes, input : Inputs, succ : Nat])
           /\ Len(pool') = Len(pool) + 1
           /\ pool'[Len(pool) + 1] = e
           /\ \A h \in 1 .. Len(pool) : pool'[h] = pool[h]
<1>1. /\ pool' \in Seq([state : Cubes, input : Inputs, succ : Nat])
      /\ Len(pool) \in Nat
      /\ Len(pool') = Len(pool) + 1
      /\ pool'[Len(pool) + 1] = e
      /\ \A h \in 1 .. Len(pool) : pool'[h] = pool[h]
  OBVIOUS
<1>2. \A h \in 1 .. Len(pool') : h = Len(pool) + 1 \/ h \in 1 .. Len(pool)
  BY <1>1
<1>3. CtisAreInhabited'
  BY <1>1, <1>2 DEF PoolInv, CtisAreInhabited, Handles
<1>4. CtisAreUnsafe'
  BY <1>1, <1>2 DEF PoolInv, CtisAreUnsafe, SafeInvariant, Handles
<1> QED
  BY <1>1, <1>3, <1>4 DEF PoolInv

-----------------------------------------------------------------------------
(* check().                                                                *)

\* get_error_cti finds a model: it becomes an obligation of the last frame.
LEMMA ErrorCtiStep ==
    ASSUME IInv, ErrorCti
    PROVE  IInv'
<1> USE DEF Level, Handle, Obligation
<1>1. TypeOK /\ SolverInv /\ TraceInv /\ PoolInv /\ LocalInv /\ VerdictIsCorrect
  BY DEF IInv
<1>2. UNCHANGED <<system, trace>> /\ UNCHANGED <<locals, verdict>>
  BY DEF ErrorCti
<1>3. TraceInv' /\ \A i \in Nat : R(i)' = R(i)
  BY <1>1, <1>2, TraceUnchanged
<1>4. SolverInv'
  BY <1>1, <1>2, SolverQueried DEF ErrorCti
<1>5. PICK s \in States, in \in Inputs :
        /\ InFrame(WithSolver, depth, s)
        /\ IsError(WithSolver, s, in)
        /\ pool' = Append(pool, [state |-> CubeOf(s), input |-> in, succ |-> 0])
  BY DEF ErrorCti, MakeCti, NoSuccessor
<1>6. depth \in 0 .. depth /\ Matches(WithSolver) /\ WithSolver.loaded
  BY <1>1, WithSolverMatches DEF TraceInv
<1>7. s \in R(depth) /\ <<s, in>> \in system.error
  BY <1>1, <1>5, <1>6, FrameInSolver DEF IsError, TraceInv
<1> DEFINE e == [state |-> CubeOf(s), input |-> in, succ |-> 0]
<1>8. e \in [state : Cubes, input : Inputs, succ : Nat] /\ Holds(CubeOf(s), s)
  BY CubeOfState
<1>9. \A Inv \in SUBSET States : SafeInvariant(system, Inv) => \A t \in Inv : ~Holds(e.state, t)
  BY <1>7, CubeOfState DEF SafeInvariant
<1>10. /\ PoolInv'
       /\ pool' \in Seq([state : Cubes, input : Inputs, succ : Nat])
       /\ Len(pool') = Len(pool) + 1
       /\ pool'[Len(pool) + 1] = e
       /\ Len(pool) \in Nat
  <2>1. pool \in Seq([state : Cubes, input : Inputs, succ : Nat])
    BY <1>1 DEF TypeOK
  <2>2. \E t \in States : Holds(e.state, t)
    BY <1>8
  <2> HIDE DEF e
  <2> QED
    BY <1>1, <1>2, <1>5, <1>8, <1>9, <2>1, <2>2, PoolGrows DEF e
<1>11. queue' = {<<depth, Len(pool) + 1>>} /\ pc' = "solve" /\ pc = "check"
  BY DEF ErrorCti, NextHandle
<1>12. TypeOK'
  BY <1>1, <1>2, <1>4, <1>10, <1>11 DEF TypeOK, SolverInv, Matches, trace, locals, verdict
<1>13. LocalInv'
  BY <1>1, <1>2, <1>11 DEF LocalInv, CandidateIsInductive, ModelInFrame, CopiedAvoidInit, locals, IntersectsInit
<1>14. ObligationsAreNew'
  <2>1. LiveObligations' = {<<depth, Len(pool) + 1>>}
    BY <1>11 DEF LiveObligations
  <2>2. ASSUME depth > 0, NEW t \in R(depth - 1) PROVE ~Holds(CubeOf(s), t)
    <3>1. depth - 1 \in 0 .. depth - 1
      BY <1>1, <2>2 DEF TraceInv
    <3>2. t \in States
      BY DEF R
    <3>3. <<t, in>> \notin system.error
      BY <1>1, <3>1 DEF TraceInv, FramesBelowLastAreSafe
    <3> QED
      BY <1>7, <3>2, <3>3, CubeOfState
  <2>3. \A i \in Nat : R(i)' = R(i)
    BY <1>3
  <2> QED
    BY <1>1, <1>10, <2>1, <2>2, <2>3 DEF ObligationsAreNew, StateVars, TraceInv
<1>15. LevelZeroIsInitial'
  <2>1. depth = 0 => Holds(system.init, s)
    BY <1>7 DEF R
  <2> QED
    BY <1>2, <1>8, <1>10, <1>11, <2>1 DEF LevelZeroIsInitial, StateVars
<1>16. QueueIsLocal'
  BY <1>11 DEF QueueIsLocal
<1>17. VerdictIsCorrect'
  BY <1>1, <1>2, VerdictUnchanged DEF verdict
<1> QED
  BY <1>3, <1>4, <1>10, <1>12, <1>13, <1>14, <1>15, <1>16, <1>17 DEF IInv, QueueInv

\* get_error_cti finds none: the last frame has no error, and there is a new one.
LEMMA NoErrorCtiStep ==
    ASSUME IInv, NoErrorCti
    PROVE  IInv'
<1>1. TypeOK /\ SolverInv /\ TraceInv /\ PoolInv /\ QueueInv /\ LocalInv /\ VerdictIsCorrect
  BY DEF IInv
<1>2. /\ UNCHANGED <<system, pool, queue, po, model, cand, lits, result, cex>>
      /\ depth' = depth + 1
      /\ blocked' = [d \in 0 .. depth + 1 |-> IF d <= depth THEN blocked[d] ELSE {}]
      /\ pc = "check" /\ pc' = "propagate" /\ level' = 1 /\ cubes' = blocked'[1]
      /\ solver' = WithSolver
  BY DEF NoErrorCti, PushFrame, search, verdict
<1>3. depth \in Nat /\ blocked \in [0 .. depth -> SUBSET Cubes] /\ Matches(WithSolver) /\ WithSolver.loaded
  BY <1>1, WithSolverMatches DEF TraceInv
<1>4. blocked' \in [0 .. depth' -> SUBSET Cubes]
  BY <1>2, <1>3
<1>5. SolverInv'
  <2>1. \A k \in 0 .. depth' : \A c \in blocked'[k] : k \in 0 .. depth /\ c \in blocked[k]
    BY <1>2, <1>3
  <2>2. WithSolver \in [loaded : BOOLEAN, clauses : SUBSET ((0 .. depth') \X Cubes), queries : Nat]
    BY <1>2, <1>3 DEF Matches
  <2>3. ASSUME NEW cl \in WithSolver.clauses
        PROVE  \E k \in cl[1] .. depth' : \E c \in blocked'[k] : Subsumes(c, cl[2])
    <3>1. PICK k \in cl[1] .. depth : \E c \in blocked[k] : Subsumes(c, cl[2])
      BY <1>3 DEF Matches
    <3>2. cl[1] \in 0 .. depth
      BY <1>3 DEF Matches
    <3> QED
      BY <1>2, <1>3, <3>1, <3>2
  <2> QED
    BY <1>2, <1>3, <2>1, <2>2, <2>3 DEF SolverInv, Matches
<1>6. ASSUME NEW i \in 0 .. depth PROVE R(i)' = R(i)
  <2>1. \A s \in States : (\A k \in i .. depth + 1 : \A c \in blocked'[k] : ~Holds(c, s)) <=>
                          (\A k \in i .. depth : \A c \in blocked[k] : ~Holds(c, s))
    <3>1. \A k \in i .. depth + 1 : k \in i .. depth \/ blocked'[k] = {}
      BY <1>2, <1>3
    <3>2. \A k \in i .. depth : k \in i .. depth + 1 /\ blocked'[k] = blocked[k]
      BY <1>2, <1>3
    <3> QED
      BY <3>1, <3>2
  <2> QED
    BY <1>2, <2>1 DEF R
<1>7. TraceInv'
  <2>1. BlockedAvoidInit'
    BY <1>1, <1>2, <1>3 DEF TraceInv, BlockedAvoidInit, IntersectsInit
  <2>2. \A i \in Nat : i = depth + 1 => \A s \in States : s \in R(i)'
    BY <1>2, <1>3 DEF R
  <2>3. FramesStep'
    <3> SUFFICES ASSUME NEW i \in 0 .. depth, NEW s \in R(i)', NEW in \in Inputs
                 PROVE  NextState(system, s, in) \in R(i + 1)'
      BY <1>2, <1>3 DEF FramesStep
    <3>1. s \in R(i) /\ s \in States
      BY <1>6 DEF R
    <3>2. CASE i = depth
      BY <1>1, <1>3, <2>2, <3>1, <3>2, NextIsState DEF TraceInv
    <3>3. CASE i \in 0 .. depth - 1
      <4>1. NextState(system, s, in) \in R(i + 1) /\ i + 1 \in 0 .. depth
        BY <1>1, <1>3, <3>1, <3>3 DEF TraceInv, FramesStep
      <4> QED
        BY <1>6, <4>1
    <3> QED
      BY <1>3, <3>2, <3>3
  <2>4. FramesBelowLastAreSafe'
    <3> SUFFICES ASSUME NEW i \in 0 .. depth, NEW s \in R(i)', NEW in \in Inputs
                 PROVE  <<s, in>> \notin system.error
      <4>1. depth' - 1 = depth
        BY <1>2, <1>3
      <4> QED
        BY <1>2, <4>1 DEF FramesBelowLastAreSafe
    <3>1. s \in R(i) /\ s \in States
      BY <1>6 DEF R
    <3>2. CASE i = depth
      <4>1. InFrame(WithSolver, depth, s)
        BY <1>3, <3>1, <3>2, FrameInSolver
      <4> QED
        BY <1>3, <3>1, <4>1 DEF NoErrorCti, IsError
    <3>3. CASE i \in 0 .. depth - 1
      BY <1>1, <3>1, <3>3 DEF TraceInv, FramesBelowLastAreSafe
    <3> QED
      BY <1>3, <3>2, <3>3
  <2> QED
    BY <1>1, <1>2, <1>3, <1>4, <2>1, <2>3, <2>4 DEF TraceInv
<1>8. PoolInv'
  BY <1>1, <1>2, PoolUnchanged
<1>9. queue = {} /\ queue' = {}
  BY <1>1, <1>2 DEF QueueInv, QueueIsLocal
<1>10. QueueInv'
  BY <1>2, <1>9 DEF QueueInv, QueueIsLocal, ObligationsAreNew, LiveObligations, LevelZeroIsInitial
<1>11. LocalInv'
  <2>1. CopiedAvoidInit'
    <3>1. 1 \in 0 .. depth'
      BY <1>2, <1>3
    <3>2. BlockedAvoidInit'
      BY <1>7 DEF TraceInv
    <3> QED
      BY <1>2, <3>1, <3>2 DEF CopiedAvoidInit, BlockedAvoidInit
  <2> QED
    BY <1>2, <2>1 DEF LocalInv, CandidateIsInductive, ModelInFrame
<1>12. TypeOK'
  <2>1. cubes' \subseteq Cubes
    BY <1>2, <1>3, <1>4
  <2> QED
    BY <1>1, <1>2, <1>3, <1>4, <1>5, <1>9, <2>1 DEF TypeOK, SolverInv, Matches
<1>13. VerdictIsCorrect'
  BY <1>1, <1>2, VerdictUnchanged
<1> QED
  BY <1>5, <1>7, <1>8, <1>10, <1>11, <1>12, <1>13 DEF IInv

-----------------------------------------------------------------------------
(* solve_obligation().                                                     *)

\* Where the obligations that are alive point to.
LEMMA LiveType ==
    ASSUME TypeOK
    PROVE  LiveObligations \subseteq (0 .. depth) \X (1 .. Len(pool))
BY DEF LiveObligations, TypeOK

\* The obligation that is being worked on has a cube and a positive level.
LEMMA WorkingType ==
    ASSUME TypeOK, pc \in Working
    PROVE  /\ depth \in Nat
           /\ Level(po) \in 1 .. depth
           /\ Handle(po) \in 1 .. Len(pool)
           /\ StateVars(po) \in Cubes
           /\ po \in LiveObligations
<1>1. /\ po \in (1 .. depth) \X (1 .. Len(pool)) /\ depth \in Nat
      /\ pool \in Seq([state : Cubes, input : Inputs, succ : Nat])
  BY DEF TypeOK, Working
<1>2. Level(po) \in 1 .. depth /\ Handle(po) \in 1 .. Len(pool)
  BY <1>1 DEF Level, Handle
<1>3. pool[Handle(po)] \in [state : Cubes, input : Inputs, succ : Nat]
  <2> DEFINE T == [state : Cubes, input : Inputs, succ : Nat]
  <2>1. pool \in Seq(T)
    BY <1>1
  <2> HIDE DEF T
  <2>2. pool[Handle(po)] \in T
    BY <1>2, <2>1, ElementInRange
  <2> QED
    BY <2>2 DEF T
<1>4. po \in LiveObligations
  BY DEF LiveObligations, Working
<1> QED
  BY <1>1, <1>2, <1>3, <1>4 DEF StateVars

\* The facts about obligations survive a step that adds none, while the frames
\* do not grow.
LEMMA ObligationsKept ==
    ASSUME TypeOK, ObligationsAreNew, LevelZeroIsInitial,
           UNCHANGED <<system, depth, pool>>,
           \A i \in 0 .. depth : R(i)' \subseteq R(i),
           queue' \subseteq queue, LiveObligations' \subseteq LiveObligations
    PROVE  ObligationsAreNew' /\ LevelZeroIsInitial'
<1>1. LiveObligations \subseteq (0 .. depth) \X (1 .. Len(pool)) /\ depth \in Nat
  BY LiveType DEF TypeOK
<1>2. ASSUME NEW o \in LiveObligations', Level(o) > 0, NEW s \in R(Level(o) - 1)'
      PROVE  ~Holds(StateVars(o), s)
  <2>1. o \in LiveObligations /\ Level(o) - 1 \in 0 .. depth
    BY <1>1, <1>2 DEF Level
  <2>2. s \in R(Level(o) - 1)
    BY <2>1 DEF Level
  <2> QED
    BY <1>2, <2>1, <2>2 DEF ObligationsAreNew
<1>3. ObligationsAreNew'
  BY <1>2 DEF ObligationsAreNew, StateVars, Level, Handle
<1>4. LevelZeroIsInitial'
  BY DEF LevelZeroIsInitial, StateVars, Level, Handle
<1> QED
  BY <1>3, <1>4

\* An obligation at level 0 ends the search.
LEMMA FoundCounterexampleStep ==
    ASSUME IInv, FoundCounterexample
    PROVE  IInv'
<1>1. TypeOK /\ SolverInv /\ TraceInv /\ PoolInv /\ QueueInv /\ LocalInv /\ VerdictIsCorrect
  BY DEF IInv
<1>2. /\ UNCHANGED <<system, trace>> /\ UNCHANGED <<solver, pool, locals>>
      /\ pc = "solve" /\ pc' = "done" /\ result' = "counterexample"
  BY DEF FoundCounterexample
<1>3. PICK o \in queue : Level(o) = 0 /\ queue' = queue \ {o}
  BY DEF FoundCounterexample
<1>4. TraceInv' /\ \A i \in Nat : R(i)' = R(i)
  BY <1>1, <1>2, TraceUnchanged
<1>5. SolverInv' /\ PoolInv'
  BY <1>1, <1>2, SolverUnchanged, PoolUnchanged
<1>6. TypeOK'
  BY <1>1, <1>2, <1>3 DEF TypeOK, trace, locals
<1>7. QueueInv'
  <2>1. queue' \subseteq queue /\ LiveObligations' \subseteq LiveObligations /\ UNCHANGED <<system, depth, pool>>
    BY <1>2, <1>3 DEF LiveObligations, trace
  <2>2. \A i \in 0 .. depth : R(i)' \subseteq R(i)
    BY <1>1, <1>4 DEF TraceInv
  <2>3. ObligationsAreNew' /\ LevelZeroIsInitial'
    BY <1>1, <2>1, <2>2, ObligationsKept DEF QueueInv
  <2> QED
    BY <1>2, <2>3 DEF QueueInv, QueueIsLocal
<1>8. LocalInv'
  BY <1>1, <1>2 DEF LocalInv, CandidateIsInductive, ModelInFrame, CopiedAvoidInit, IntersectsInit, locals
<1>9. ~Safe(system)
  <2> SUFFICES ASSUME NEW Inv \in SUBSET States, SafeInvariant(system, Inv)
               PROVE  FALSE
    BY DEF Safe
  <2>1. PICK s \in States : Holds(system.init, s) /\ Holds(StateVars(o), s)
    BY <1>1, <1>3 DEF QueueInv, LevelZeroIsInitial
  <2>2. s \in Inv
    BY <2>1 DEF SafeInvariant
  <2>3. Handle(o) \in Handles
    BY <1>1 DEF TypeOK, Handle, Handles
  <2> QED
    BY <1>1, <2>1, <2>2, <2>3 DEF PoolInv, CtisAreUnsafe, StateVars
<1>10. VerdictIsCorrect'
  BY <1>2, <1>9 DEF VerdictIsCorrect
<1> QED
  BY <1>4, <1>5, <1>6, <1>7, <1>8, <1>10 DEF IInv

\* An obligation that is already blocked is dropped.
LEMMA SkipSubsumedStep ==
    ASSUME IInv, SkipSubsumed
    PROVE  IInv'
<1>1. TypeOK /\ SolverInv /\ TraceInv /\ PoolInv /\ QueueInv /\ LocalInv /\ VerdictIsCorrect
  BY DEF IInv
<1>2. /\ UNCHANGED <<system, trace>> /\ UNCHANGED <<pc, solver, pool, locals, verdict>>
      /\ pc = "solve" /\ queue' \subseteq queue
  BY DEF SkipSubsumed
<1>3. TraceInv' /\ \A i \in Nat : R(i)' = R(i)
  BY <1>1, <1>2, TraceUnchanged
<1>4. SolverInv' /\ PoolInv' /\ VerdictIsCorrect'
  BY <1>1, <1>2, SolverUnchanged, PoolUnchanged, VerdictUnchanged DEF verdict
<1>5. TypeOK'
  BY <1>1, <1>2 DEF TypeOK, trace, locals, verdict
<1>6. QueueInv'
  <2>1. LiveObligations' \subseteq LiveObligations /\ UNCHANGED <<system, depth, pool>>
    BY <1>2 DEF LiveObligations, trace
  <2>2. \A i \in 0 .. depth : R(i)' \subseteq R(i)
    BY <1>1, <1>3 DEF TraceInv
  <2>3. ObligationsAreNew' /\ LevelZeroIsInitial'
    BY <1>1, <1>2, <2>1, <2>2, ObligationsKept DEF QueueInv
  <2> QED
    BY <1>2, <2>3 DEF QueueInv, QueueIsLocal
<1>7. LocalInv'
  BY <1>1, <1>2 DEF LocalInv, CandidateIsInductive, ModelInFrame, CopiedAvoidInit, IntersectsInit, locals
<1> QED
  BY <1>3, <1>4, <1>5, <1>6, <1>7 DEF IInv

\* An obligation is taken out of the queue.
LEMMA PopObligationStep ==
    ASSUME IInv, PopObligation
    PROVE  IInv'
<1>1. TypeOK /\ SolverInv /\ TraceInv /\ PoolInv /\ QueueInv /\ LocalInv /\ VerdictIsCorrect
  BY DEF IInv
<1>2. /\ UNCHANGED <<system, trace>>
      /\ UNCHANGED <<pool, model, cand, lits, level, cubes, verdict>>
      /\ pc = "solve" /\ solver' = WithSolver
  BY DEF PopObligation
<1>3. PICK o \in queue : /\ Level(o) > 0 /\ queue' = queue \ {o}
                         /\ (po' = o /\ pc' = "inductive") \/ UNCHANGED <<po, pc>>
  BY DEF PopObligation
<1>4. TraceInv' /\ \A i \in Nat : R(i)' = R(i)
  BY <1>1, <1>2, TraceUnchanged
<1>5. SolverInv' /\ PoolInv' /\ VerdictIsCorrect'
  BY <1>1, <1>2, SolverQueried, PoolUnchanged, VerdictUnchanged DEF verdict
<1>6. TypeOK'
  BY <1>1, <1>2, <1>3, <1>5 DEF TypeOK, trace, verdict, Level, SolverInv, Matches
<1>7. QueueInv'
  <2>1. /\ queue' \subseteq queue /\ LiveObligations' \subseteq LiveObligations
        /\ UNCHANGED <<system, depth, pool>>
    BY <1>2, <1>3 DEF LiveObligations, trace
  <2>2. \A i \in 0 .. depth : R(i)' \subseteq R(i)
    BY <1>1, <1>4 DEF TraceInv
  <2>3. ObligationsAreNew' /\ LevelZeroIsInitial'
    BY <1>1, <2>1, <2>2, ObligationsKept DEF QueueInv
  <2> QED
    BY <1>2, <1>3, <2>3 DEF QueueInv, QueueIsLocal
<1>8. LocalInv'
  BY <1>1, <1>2, <1>3 DEF LocalInv, CandidateIsInductive, ModelInFrame, CopiedAvoidInit, IntersectsInit
<1> QED
  BY <1>4, <1>5, <1>6, <1>7, <1>8 DEF IInv

\* The queue is empty.
LEMMA AllBlockedStep ==
    ASSUME IInv, AllBlocked
    PROVE  IInv'
<1>1. TypeOK /\ SolverInv /\ TraceInv /\ PoolInv /\ QueueInv /\ LocalInv /\ VerdictIsCorrect
  BY DEF IInv
<1>2. /\ UNCHANGED <<system, trace>> /\ UNCHANGED <<solver, locals, verdict>>
      /\ pc = "solve" /\ pc' = "check" /\ queue = {} /\ queue' = {} /\ pool' = <<>>
  BY DEF AllBlocked
<1>3. TraceInv'
  BY <1>1, <1>2, TraceUnchanged
<1>4. SolverInv' /\ VerdictIsCorrect'
  BY <1>1, <1>2, SolverUnchanged, VerdictUnchanged DEF verdict
<1>5. PoolInv'
  BY <1>2 DEF PoolInv, CtisAreInhabited, CtisAreUnsafe, Handles
<1>6. TypeOK'
  BY <1>1, <1>2 DEF TypeOK, trace, locals, verdict
<1>7. QueueInv'
  BY <1>2 DEF QueueInv, QueueIsLocal, ObligationsAreNew, LiveObligations, LevelZeroIsInitial
<1>8. LocalInv'
  BY <1>1, <1>2 DEF LocalInv, CandidateIsInductive, ModelInFrame, CopiedAvoidInit, IntersectsInit, locals
<1> QED
  BY <1>3, <1>4, <1>5, <1>6, <1>7, <1>8 DEF IInv

\* The query of an obligation has a model.
LEMMA HasPredecessorStep ==
    ASSUME IInv, HasPredecessor
    PROVE  IInv'
<1>1. TypeOK /\ SolverInv /\ TraceInv /\ PoolInv /\ QueueInv /\ LocalInv /\ VerdictIsCorrect
  BY DEF IInv
<1>2. /\ UNCHANGED <<system, trace>> /\ UNCHANGED <<pool, queue, po, cand, lits, level, cubes, verdict>>
      /\ pc = "inductive" /\ pc' = "predecessor" /\ solver' = WithSolver
  BY DEF HasPredecessor, search
<1>3. PICK s \in States, in \in Inputs :
        /\ StepModel(WithSolver, Level(po), StateVars(po), StateVars(po), s, in)
        /\ model' = [state |-> s, input |-> in]
  BY DEF HasPredecessor
<1>4. TraceInv' /\ \A i \in Nat : R(i)' = R(i)
  BY <1>1, <1>2, TraceUnchanged
<1>5. SolverInv' /\ PoolInv' /\ VerdictIsCorrect'
  BY <1>1, <1>2, SolverQueried, PoolUnchanged, VerdictUnchanged DEF verdict
<1>6. TypeOK'
  BY <1>1, <1>2, <1>3, <1>5 DEF TypeOK, trace, verdict, SolverInv, Matches
<1>7. QueueInv'
  <2>1. /\ queue' \subseteq queue /\ LiveObligations' \subseteq LiveObligations
        /\ UNCHANGED <<system, depth, pool>>
    BY <1>2 DEF LiveObligations, trace
  <2>2. \A i \in 0 .. depth : R(i)' \subseteq R(i)
    BY <1>1, <1>4 DEF TraceInv
  <2>3. ObligationsAreNew' /\ LevelZeroIsInitial'
    BY <1>1, <2>1, <2>2, ObligationsKept DEF QueueInv
  <2> QED
    BY <1>2, <2>3 DEF QueueInv, QueueIsLocal
<1>8. Level(po) \in 1 .. depth /\ depth \in Nat
  BY <1>1, <1>2 DEF TypeOK, Level
<1>9. s \in R(Level(po) - 1)
  <2>1. Level(po) \in 1 .. depth + 1
    BY <1>8
  <2> QED
    BY <1>1, <1>3, <2>1, StepQuery
<1>10. LocalInv'
  <2>1. ModelInFrame'
    BY <1>2, <1>3, <1>4, <1>8, <1>9 DEF ModelInFrame, Level
  <2> QED
    BY <1>1, <1>2, <2>1 DEF LocalInv, CandidateIsInductive, CopiedAvoidInit, IntersectsInit
<1> QED
  BY <1>4, <1>5, <1>6, <1>7, <1>10 DEF IInv

\* The generalized predecessor becomes an obligation one level below.
LEMMA GetPredecessorStep ==
    ASSUME IInv, GetPredecessor
    PROVE  IInv'
<1>1. TypeOK /\ SolverInv /\ TraceInv /\ PoolInv /\ QueueInv /\ LocalInv /\ VerdictIsCorrect
  BY DEF IInv
<1>2. /\ UNCHANGED <<system, trace>> /\ UNCHANGED <<cand, lits, level, cubes, verdict>>
      /\ pc = "predecessor" /\ pc' = "solve" /\ solver' = WithSolver
  BY DEF GetPredecessor
<1>3. PICK c \in SUBSET CubeOf(model.state) :
        /\ IsPredecessorCore(WithSolver, c, StateVars(po), model.input)
        /\ pool' = Append(pool, [state |-> c, input |-> model.input, succ |-> Handle(po)])
  BY DEF GetPredecessor, MakeCti
<1>4. TraceInv' /\ \A i \in Nat : R(i)' = R(i)
  BY <1>1, <1>2, TraceUnchanged
<1>5. SolverInv' /\ VerdictIsCorrect'
  BY <1>1, <1>2, SolverQueried, VerdictUnchanged DEF verdict
<1>6. /\ Level(po) \in 1 .. depth /\ Handle(po) \in 1 .. Len(pool) /\ po = <<Level(po), Handle(po)>>
      /\ model.state \in States /\ model.input \in Inputs
      /\ depth \in Nat /\ Len(pool) \in Nat
      /\ pool \in Seq([state : Cubes, input : Inputs, succ : Nat])
      /\ queue \subseteq (0 .. depth) \X (1 .. Len(pool))
  BY <1>1, <1>2 DEF TypeOK, Level, Handle
<1>7. c \in Cubes /\ Holds(c, model.state)
  <2>1. CubeOf(model.state) \in Cubes /\ Holds(CubeOf(model.state), model.state)
    BY <1>6, CubeOfState
  <2> QED
    BY <2>1, SubsumesHolds DEF Cubes, Subsumes
<1>8. \A s \in States : Holds(c, s) => Holds(StateVars(po), NextState(system, s, model.input))
  <2>1. WithSolver.loaded
    BY <1>1, WithSolverMatches DEF TraceInv
  <2> QED
    BY <1>3, <2>1 DEF IsPredecessorCore, Successors
<1> DEFINE e == [state |-> c, input |-> model.input, succ |-> Handle(po)]
<1>9. e \in [state : Cubes, input : Inputs, succ : Nat] /\ e.state = c
  BY <1>6, <1>7
<1>10. ASSUME NEW Inv \in SUBSET States, SafeInvariant(system, Inv), NEW s \in Inv
       PROVE  ~Holds(e.state, s)
  <2>1. NextState(system, s, model.input) \in Inv
    BY <1>6, <1>10 DEF SafeInvariant
  <2>2. ~Holds(StateVars(po), NextState(system, s, model.input))
    BY <1>1, <1>6, <1>10, <2>1 DEF PoolInv, CtisAreUnsafe, StateVars, Handles
  <2> QED
    BY <1>8, <1>9, <2>2
<1>11. /\ PoolInv'
       /\ pool' \in Seq([state : Cubes, input : Inputs, succ : Nat])
       /\ Len(pool') = Len(pool) + 1
       /\ pool'[Len(pool) + 1] = e
       /\ \A h \in 1 .. Len(pool) : pool'[h] = pool[h]
  <2>1. \E s \in States : Holds(e.state, s)
    BY <1>6, <1>7, <1>9
  <2>2. pool' = Append(pool, e) /\ UNCHANGED system
    BY <1>2, <1>3
  <2> HIDE DEF e
  <2> QED
    BY <1>1, <1>6, <1>9, <1>10, <2>1, <2>2, PoolGrows
<1>12. queue' = queue \cup {<<Level(po) - 1, Len(pool) + 1>>, po}
  BY DEF GetPredecessor, Obligation, NextHandle
<1>13. TypeOK'
  <2>1. queue' \subseteq (0 .. depth) \X (1 .. Len(pool) + 1)
    <3>1. queue \subseteq (0 .. depth) \X (1 .. Len(pool) + 1)
      BY <1>6
    <3>2. po \in (0 .. depth) \X (1 .. Len(pool) + 1)
      BY <1>6
    <3>3. <<Level(po) - 1, Len(pool) + 1>> \in (0 .. depth) \X (1 .. Len(pool) + 1)
      BY <1>6
    <3> QED
      BY <1>12, <3>1, <3>2, <3>3
  <2> QED
    BY <1>1, <1>2, <1>5, <1>11, <2>1 DEF TypeOK, trace, verdict, SolverInv, Matches
<1>14. /\ LiveObligations' = LiveObligations \cup {<<Level(po) - 1, Len(pool) + 1>>}
       /\ LiveObligations \subseteq (0 .. depth) \X (1 .. Len(pool))
  BY <1>1, <1>2, <1>12, LiveType DEF LiveObligations
<1>15. ObligationsAreNew'
  <2> SUFFICES ASSUME NEW o \in LiveObligations', o[1] > 0, NEW s \in States,
                      NEW j, j = o[1] - 1, s \in R(j)'
               PROVE  ~Holds(pool'[o[2]].state, s)
    BY DEF ObligationsAreNew, StateVars, Level, Handle, R
  <2>1. CASE o \in LiveObligations
    <3>1. o[1] \in 0 .. depth /\ o[2] \in 1 .. Len(pool) /\ j \in Nat
      BY <1>6, <1>14, <2>1
    <3>2. s \in R(j)
      BY <1>4, <3>1
    <3>3. ~Holds(pool[o[2]].state, s)
      BY <1>1, <2>1, <3>1, <3>2 DEF QueueInv, ObligationsAreNew, StateVars, Level, Handle
    <3> QED
      BY <1>11, <3>1, <3>3
  <2>2. CASE o = <<Level(po) - 1, Len(pool) + 1>>
    <3>1. j = Level(po) - 2 /\ j \in 0 .. depth - 1 /\ j + 1 = Level(po) - 1 /\ Level(po) > 0
      BY <1>6, <2>2
    <3>2. s \in R(j)
      BY <1>4, <1>6, <3>1
    <3>3. NextState(system, s, model.input) \in R(Level(po) - 1)
      BY <1>1, <1>6, <3>1, <3>2 DEF TraceInv, FramesStep
    <3>4. po \in LiveObligations
      BY <1>2 DEF LiveObligations
    <3>5. ~Holds(StateVars(po), NextState(system, s, model.input))
      BY <1>1, <3>1, <3>3, <3>4 DEF QueueInv, ObligationsAreNew
    <3>6. ~Holds(c, s)
      BY <1>8, <3>5
    <3> QED
      BY <1>9, <1>11, <2>2, <3>6
  <2> QED
    BY <1>14, <2>1, <2>2
<1>16. LevelZeroIsInitial'
  <2> SUFFICES ASSUME NEW o \in queue', o[1] = 0
               PROVE  \E s \in States : Holds(system.init, s) /\ Holds(pool'[o[2]].state, s)
    BY <1>2 DEF LevelZeroIsInitial, StateVars, Level, Handle
  <2>1. CASE o \in queue
    <3>1. o[2] \in 1 .. Len(pool)
      BY <1>6, <2>1
    <3> QED
      BY <1>1, <1>11, <2>1, <3>1 DEF QueueInv, LevelZeroIsInitial, StateVars, Level, Handle
  <2>2. CASE o = <<Level(po) - 1, Len(pool) + 1>>
    <3>1. Level(po) - 1 = 0
      BY <2>2
    <3>2. model.state \in R(0)
      BY <1>1, <1>2, <3>1 DEF LocalInv, ModelInFrame
    <3>3. Holds(system.init, model.state)
      BY <3>2 DEF R
    <3> QED
      BY <1>6, <1>7, <1>9, <1>11, <2>2, <3>3
  <2>3. CASE o = po
    BY <1>6, <2>3 DEF Level
  <2> QED
    BY <1>12, <2>1, <2>2, <2>3
<1>17. QueueIsLocal'
  BY <1>2 DEF QueueIsLocal
<1>18. LocalInv'
  BY <1>1, <1>2 DEF LocalInv, CandidateIsInductive, ModelInFrame, CopiedAvoidInit, IntersectsInit
<1> QED
  BY <1>4, <1>5, <1>11, <1>13, <1>15, <1>16, <1>17, <1>18 DEF IInv, QueueInv

-----------------------------------------------------------------------------
(* generalize_inductive().                                                 *)

\* The assertion of solve_obligation follows: the obligation was ruled out of
\* the frame before its level, and that frame has all the initial states.
LEMMA WorkingAvoidsInit ==
    ASSUME IInv
    PROVE  CtiAvoidsInit
<1> SUFFICES ASSUME pc \in Working, IntersectsInit(system, StateVars(po))
             PROVE  FALSE
  BY DEF CtiAvoidsInit, Working
<1>1. TypeOK /\ TraceInv /\ PoolInv /\ QueueInv
  BY DEF IInv
<1>2. /\ po \in LiveObligations /\ Level(po) \in 1 .. depth /\ depth \in Nat
      /\ Handle(po) \in Handles /\ StateVars(po) \in Cubes
  BY <1>1, WorkingType DEF Handles
<1>3. PICK s \in States : Holds(StateVars(po), s)
  BY <1>1, <1>2 DEF PoolInv, CtisAreInhabited, StateVars
<1>4. system \in SystemType
  BY <1>1, SystemsAssumption DEF TraceInv
<1>5. PICK t \in States : Holds(system.init, t) /\ Holds(StateVars(po), t)
  BY <1>2, <1>3, <1>4, MeetsInit
<1>6. t \in R(Level(po) - 1)
  <2>1. Level(po) - 1 \in 0 .. depth
    BY <1>2
  <2> QED
    BY <1>1, <1>5, <2>1, InitInFrames
<1> QED
  BY <1>1, <1>2, <1>5, <1>6 DEF QueueInv, ObligationsAreNew

\* What the first loop leaves is between the core and the whole cube, and it
\* avoids the initial states when the whole cube does.
LEMMA DropNonCoreBounds ==
    ASSUME NEW c, NEW core \in SUBSET c, ~IntersectsInit(system, c), NEW d \in DropNonCore(c, core)
    PROVE  core \subseteq d /\ d \subseteq c /\ ~IntersectsInit(system, d)
<1> DEFINE separating == {l \in c : Neg(l) \in system.init}
<1>1. separating # {}
  BY DEF IntersectsInit
<1>2. CASE ~IntersectsInit(system, core)
  BY <1>2 DEF DropNonCore
<1>3. CASE IntersectsInit(system, core)
  <2>1. PICK l \in separating : d = core \cup {l}
    BY <1>1, <1>3 DEF DropNonCore
  <2> QED
    BY <2>1 DEF IntersectsInit
<1> QED
  BY <1>2, <1>3

\* The query has no model: the core of the cube is inductive relative to the frame.
LEMMA IsInductiveStep ==
    ASSUME IInv, IsInductive
    PROVE  IInv'
<1>1. TypeOK /\ SolverInv /\ TraceInv /\ PoolInv /\ QueueInv /\ LocalInv /\ VerdictIsCorrect
  BY DEF IInv
<1>2. /\ UNCHANGED <<system, trace>> /\ UNCHANGED <<pool, queue, po, model, cubes, verdict>>
      /\ pc = "inductive" /\ pc' = "shrink" /\ solver' = WithSolver /\ lits' = cand'
  BY DEF IsInductive, search
<1>3. PICK j \in Level(po) - 1 .. depth, core \in SUBSET StateVars(po) :
        /\ ~StepSat(WithSolver, j + 1, StateVars(po), core)
        /\ level' = j + 1
        /\ cand' \in DropNonCore(StateVars(po), core)
  BY DEF IsInductive
<1>4. TraceInv' /\ \A i \in Nat : R(i)' = R(i)
  BY <1>1, <1>2, TraceUnchanged
<1>5. SolverInv' /\ PoolInv' /\ VerdictIsCorrect'
  BY <1>1, <1>2, SolverQueried, PoolUnchanged, VerdictUnchanged DEF verdict
<1>6. /\ Level(po) \in 1 .. depth /\ depth \in Nat /\ StateVars(po) \in Cubes
      /\ j \in 0 .. depth /\ j + 1 \in Level(po) .. depth + 1
  <2>1. Level(po) \in 1 .. depth /\ depth \in Nat /\ StateVars(po) \in Cubes
    BY <1>1, <1>2, WorkingType DEF Working
  <2> QED
    BY <1>3, <2>1
<1>7. core \subseteq cand' /\ cand' \subseteq StateVars(po) /\ ~IntersectsInit(system, cand')
  <2>1. ~IntersectsInit(system, StateVars(po))
    BY <1>2, WorkingAvoidsInit DEF CtiAvoidsInit
  <2> QED
    BY <1>3, <2>1, DropNonCoreBounds
<1>8. TypeOK'
  BY <1>1, <1>2, <1>3, <1>5, <1>6, <1>7 DEF TypeOK, trace, verdict, Level, SolverInv, Matches, Cubes
<1>9. QueueInv'
  <2>1. /\ queue' \subseteq queue /\ LiveObligations' \subseteq LiveObligations
        /\ UNCHANGED <<system, depth, pool>>
    BY <1>2 DEF LiveObligations, trace
  <2>2. \A i \in 0 .. depth : R(i)' \subseteq R(i)
    BY <1>1, <1>4 DEF TraceInv
  <2>3. ObligationsAreNew' /\ LevelZeroIsInitial'
    BY <1>1, <2>1, <2>2, ObligationsKept DEF QueueInv
  <2> QED
    BY <1>2, <2>3 DEF QueueInv, QueueIsLocal
<1>10. ASSUME NEW s \in R(j), NEW in \in Inputs, ~Holds(cand', s)
       PROVE  ~Holds(cand', NextState(system, s, in))
  <2>1. ~Holds(StateVars(po), s)
    BY <1>7, <1>10, SubsumesHolds DEF Subsumes
  <2>2. j + 1 \in 1 .. depth + 1 /\ (j + 1) - 1 = j
    BY <1>6
  <2>3. ~Holds(core, NextState(system, s, in))
    BY <1>1, <1>3, <2>1, <2>2, StepQuery
  <2> QED
    BY <1>7, <2>3, SubsumesHolds DEF Subsumes
<1>11. CandidateIsInductive'
  <2>1. level' - 1 = j /\ R(j)' = R(j)
    BY <1>3, <1>4, <1>6
  <2>2. UNCHANGED StateVars(po)
    BY <1>2 DEF StateVars, Handle
  <2> QED
    BY <1>2, <1>7, <1>10, <2>1, <2>2 DEF CandidateIsInductive, IntersectsInit
<1>12. LocalInv'
  BY <1>1, <1>2, <1>11 DEF LocalInv, ModelInFrame, CopiedAvoidInit, IntersectsInit
<1> QED
  BY <1>4, <1>5, <1>8, <1>9, <1>12 DEF IInv

\* generalize_inductive tries to drop a literal.
LEMMA TryDropStep ==
    ASSUME IInv, TryDrop
    PROVE  IInv'
<1>1. TypeOK /\ SolverInv /\ TraceInv /\ PoolInv /\ QueueInv /\ LocalInv /\ VerdictIsCorrect
  BY DEF IInv
<1>2. /\ UNCHANGED <<system, trace>> /\ UNCHANGED <<pc, pool, queue, po, model, level, cubes, verdict>>
      /\ pc = "shrink" /\ lits' \subseteq lits
      /\ solver' = WithSolver \/ solver' = solver
  BY DEF TryDrop, search
<1>3. \/ cand' = cand
      \/ \E l \in lits : /\ cand' = cand \ {l}
                         /\ ~IntersectsInit(system, cand')
                         /\ IsRelativeInductive(WithSolver, cand', level)
  BY DEF TryDrop
<1>4. TraceInv' /\ \A i \in Nat : R(i)' = R(i)
  BY <1>1, <1>2, TraceUnchanged
<1>5. SolverInv' /\ PoolInv' /\ VerdictIsCorrect'
  BY <1>1, <1>2, SolverQueried, SolverUnchanged, PoolUnchanged, VerdictUnchanged DEF verdict
<1>6. cand' \subseteq cand
  BY <1>3
<1>7. TypeOK'
  BY <1>1, <1>2, <1>5, <1>6 DEF TypeOK, trace, verdict, SolverInv, Matches, Cubes
<1>8. QueueInv'
  <2>1. /\ queue' \subseteq queue /\ LiveObligations' \subseteq LiveObligations
        /\ UNCHANGED <<system, depth, pool>>
    BY <1>2 DEF LiveObligations, trace
  <2>2. \A i \in 0 .. depth : R(i)' \subseteq R(i)
    BY <1>1, <1>4 DEF TraceInv
  <2>3. ObligationsAreNew' /\ LevelZeroIsInitial'
    BY <1>1, <2>1, <2>2, ObligationsKept DEF QueueInv
  <2> QED
    BY <1>2, <2>3 DEF QueueInv, QueueIsLocal
<1>9. level \in 1 .. depth + 1 /\ depth \in Nat
  BY <1>1, <1>2 DEF TypeOK, Level
<1>10. /\ ~IntersectsInit(system, cand')
       /\ \A s \in R(level - 1), in \in Inputs :
            ~Holds(cand', s) => ~Holds(cand', NextState(system, s, in))
  <2>1. CASE cand' = cand
    BY <1>1, <1>2, <2>1 DEF LocalInv, CandidateIsInductive
  <2>2. CASE ~IntersectsInit(system, cand') /\ IsRelativeInductive(WithSolver, cand', level)
    BY <1>1, <1>9, <2>2, StepQuery DEF IsRelativeInductive
  <2> QED
    BY <1>3, <2>1, <2>2
<1>11. CandidateIsInductive'
  <2>1. \A i \in Nat : i = level - 1 => R(i)' = R(i)
    BY <1>4
  <2>2. level - 1 \in Nat /\ UNCHANGED level /\ UNCHANGED StateVars(po)
    BY <1>2, <1>9 DEF StateVars, Handle
  <2>3. cand' \subseteq StateVars(po)
    BY <1>1, <1>2, <1>6 DEF LocalInv, CandidateIsInductive
  <2> QED
    BY <1>2, <1>10, <2>1, <2>2, <2>3 DEF CandidateIsInductive, IntersectsInit
<1>12. LocalInv'
  BY <1>1, <1>2, <1>11 DEF LocalInv, ModelInFrame, CopiedAvoidInit, IntersectsInit
<1> QED
  BY <1>4, <1>5, <1>7, <1>8, <1>12 DEF IInv

\* All literals have been tried.
LEMMA AllTriedStep ==
    ASSUME IInv, AllTried
    PROVE  IInv'
<1>1. TypeOK /\ SolverInv /\ TraceInv /\ PoolInv /\ QueueInv /\ LocalInv /\ VerdictIsCorrect
  BY DEF IInv
<1>2. /\ UNCHANGED <<system, trace>>
      /\ UNCHANGED <<solver, pool, queue, po, model, cand, lits, level, cubes, verdict>>
      /\ pc = "shrink" /\ pc' = "raise"
  BY DEF AllTried, search, locals
<1>3. TraceInv' /\ \A i \in Nat : R(i)' = R(i)
  BY <1>1, <1>2, TraceUnchanged
<1>4. SolverInv' /\ PoolInv' /\ VerdictIsCorrect'
  BY <1>1, <1>2, SolverUnchanged, PoolUnchanged, VerdictUnchanged DEF verdict
<1>5. TypeOK'
  BY <1>1, <1>2 DEF TypeOK, trace, verdict
<1>6. QueueInv'
  <2>1. /\ queue' \subseteq queue /\ LiveObligations' \subseteq LiveObligations
        /\ UNCHANGED <<system, depth, pool>>
    BY <1>2 DEF LiveObligations, trace
  <2>2. \A i \in 0 .. depth : R(i)' \subseteq R(i)
    BY <1>1, <1>3 DEF TraceInv
  <2>3. ObligationsAreNew' /\ LevelZeroIsInitial'
    BY <1>1, <2>1, <2>2, ObligationsKept DEF QueueInv
  <2> QED
    BY <1>2, <2>3 DEF QueueInv, QueueIsLocal
<1>7. LocalInv'
  <2>1. CandidateIsInductive'
    <3>1. level \in 1 .. depth + 1 /\ depth \in Nat /\ UNCHANGED level /\ UNCHANGED StateVars(po)
      BY <1>1, <1>2 DEF TypeOK, Level, StateVars, Handle
    <3>2. \A i \in Nat : i = level - 1 => R(i)' = R(i)
      BY <1>3
    <3> QED
      BY <1>1, <1>2, <3>1, <3>2 DEF LocalInv, CandidateIsInductive, IntersectsInit
  <2> QED
    BY <1>1, <1>2, <2>1 DEF LocalInv, ModelInFrame, CopiedAvoidInit, IntersectsInit
<1> QED
  BY <1>3, <1>4, <1>5, <1>6, <1>7 DEF IInv

\* The cube is inductive relative to a higher frame, too.
LEMMA RaiseLevelStep ==
    ASSUME IInv, RaiseLevel
    PROVE  IInv'
<1>1. TypeOK /\ SolverInv /\ TraceInv /\ PoolInv /\ QueueInv /\ LocalInv /\ VerdictIsCorrect
  BY DEF IInv
<1>2. /\ UNCHANGED <<system, trace>>
      /\ UNCHANGED <<pc, pool, queue, po, model, cand, lits, cubes, verdict>>
      /\ pc = "raise" /\ level <= depth /\ level' = level + 1 /\ solver' = WithSolver
      /\ IsRelativeInductive(WithSolver, cand, level + 1)
  BY DEF RaiseLevel, search
<1>3. TraceInv' /\ \A i \in Nat : R(i)' = R(i)
  BY <1>1, <1>2, TraceUnchanged
<1>4. SolverInv' /\ PoolInv' /\ VerdictIsCorrect'
  BY <1>1, <1>2, SolverQueried, PoolUnchanged, VerdictUnchanged DEF verdict
<1>5. Level(po) \in 1 .. depth /\ level \in Level(po) .. depth + 1 /\ depth \in Nat
  BY <1>1, <1>2, WorkingType DEF TypeOK, Working
<1>6. TypeOK'
  <2>1. level' \in 0 .. depth + 1 /\ level' \in Level(po) .. depth + 1
    BY <1>2, <1>5
  <2> QED
    BY <1>1, <1>2, <1>4, <2>1 DEF TypeOK, trace, verdict, SolverInv, Matches, Level
<1>7. QueueInv'
  <2>1. /\ queue' \subseteq queue /\ LiveObligations' \subseteq LiveObligations
        /\ UNCHANGED <<system, depth, pool>>
    BY <1>2 DEF LiveObligations, trace
  <2>2. \A i \in 0 .. depth : R(i)' \subseteq R(i)
    BY <1>1, <1>3 DEF TraceInv
  <2>3. ObligationsAreNew' /\ LevelZeroIsInitial'
    BY <1>1, <2>1, <2>2, ObligationsKept DEF QueueInv
  <2> QED
    BY <1>2, <2>3 DEF QueueInv, QueueIsLocal
<1>8. \A s \in R(level), in \in Inputs : ~Holds(cand, s) => ~Holds(cand, NextState(system, s, in))
  <2>1. level + 1 \in 1 .. depth + 1 /\ (level + 1) - 1 = level
    BY <1>2, <1>5
  <2> QED
    BY <1>1, <1>2, <2>1, StepQuery DEF IsRelativeInductive
<1>9. CandidateIsInductive'
  <2>1. level' - 1 = level /\ level \in Nat /\ UNCHANGED StateVars(po)
    BY <1>2, <1>5 DEF StateVars, Handle
  <2>2. \A i \in Nat : i = level => R(i)' = R(i)
    BY <1>3
  <2> QED
    BY <1>1, <1>2, <1>8, <2>1, <2>2 DEF LocalInv, CandidateIsInductive, IntersectsInit
<1>10. LocalInv'
  BY <1>1, <1>2, <1>9 DEF LocalInv, ModelInFrame, CopiedAvoidInit, IntersectsInit
<1> QED
  BY <1>3, <1>4, <1>6, <1>7, <1>10 DEF IInv

\* The cube is blocked, with the solver as it is or rebuilt.
LEMMA BlockStep ==
    ASSUME IInv, pc = "raise", NEW sv, Matches(sv), Block(sv)
    PROVE  IInv'
<1>1. TypeOK /\ SolverInv /\ TraceInv /\ PoolInv /\ QueueInv /\ LocalInv /\ VerdictIsCorrect
  BY DEF IInv
<1>2. /\ UNCHANGED <<system, depth>> /\ UNCHANGED <<pool, model, lits, cubes, verdict>>
      /\ blocked' = BlockedWith(cand, level, 1) /\ solver' = AssertedAt(sv, cand, level)
      /\ po' = NoObligation /\ cand' = {} /\ level' = 0 /\ pc' = "solve"
  BY DEF Block
<1>3. /\ Level(po) \in 1 .. depth /\ Handle(po) \in 1 .. Len(pool) /\ po \in LiveObligations
      /\ level \in Level(po) .. depth + 1 /\ depth \in Nat /\ depth >= 1 /\ cand \in Cubes
      /\ level \in 1 .. depth + 1 /\ 1 \in 1 .. level
  <2>1. /\ Level(po) \in 1 .. depth /\ Handle(po) \in 1 .. Len(pool) /\ po \in LiveObligations
        /\ level \in Level(po) .. depth + 1 /\ depth \in Nat /\ cand \in Cubes
    BY <1>1, WorkingType DEF TypeOK, Working
  <2> QED
    BY <2>1
<1>4. /\ cand \subseteq StateVars(po) /\ ~IntersectsInit(system, cand)
      /\ \A s \in R(level - 1), in \in Inputs :
            ~Holds(cand, s) => ~Holds(cand, NextState(system, s, in))
  BY <1>1 DEF LocalInv, CandidateIsInductive
<1>5. TraceInv'
  BY <1>1, <1>2, <1>3, <1>4, BlockingKeepsTrace
<1>6. SolverInv'
  BY <1>1, <1>2, <1>3, BlockingKeepsSolver
<1>7. \A i \in 0 .. depth : \A s \in States :
        s \in R(i)' <=> s \in R(i) /\ (i <= level => ~Holds(cand, s))
  BY <1>1, <1>2, <1>3, BlockedFrames
<1>8. PoolInv' /\ VerdictIsCorrect'
  BY <1>1, <1>2, PoolUnchanged, VerdictUnchanged DEF verdict
<1>9. /\ queue' \subseteq queue \cup {<<Level(po) + 1, Handle(po)>>}
      /\ <<Level(po) + 1, Handle(po)>> \in queue' \ queue => Level(po) + 1 <= depth
  BY <1>3 DEF Block, Obligation
<1>10. TypeOK'
  <2>1. queue' \subseteq (0 .. depth) \X (1 .. Len(pool))
    <3>1. queue \subseteq (0 .. depth) \X (1 .. Len(pool))
      BY <1>1 DEF TypeOK
    <3>2. \A o \in queue' : o \in queue \/ (o = <<Level(po) + 1, Handle(po)>> /\ Level(po) + 1 <= depth)
      BY <1>9
    <3> QED
      BY <1>3, <3>1, <3>2
  <2> QED
    BY <1>1, <1>2, <1>5, <1>6, <2>1 DEF TypeOK, TraceInv, SolverInv, Matches, verdict, Cubes
<1>11. LiveObligations' = queue' /\ queue \subseteq LiveObligations
  BY <1>2 DEF LiveObligations
<1>12. ObligationsAreNew'
  <2> SUFFICES ASSUME NEW o \in queue', o[1] > 0, NEW s \in States,
                      NEW j, j = o[1] - 1, s \in R(j)'
               PROVE  ~Holds(pool[o[2]].state, s)
    BY <1>2, <1>11 DEF ObligationsAreNew, StateVars, Level, Handle, R
  <2>1. o[1] \in 0 .. depth /\ j \in 0 .. depth
    BY <1>2, <1>3, <1>10 DEF TypeOK
  <2>2. s \in R(j) /\ (j <= level => ~Holds(cand, s))
    BY <1>7, <2>1
  <2>3. CASE o \in queue
    BY <1>1, <1>11, <2>2, <2>3 DEF QueueInv, ObligationsAreNew, StateVars, Level, Handle
  <2>4. CASE o = <<Level(po) + 1, Handle(po)>>
    <3>1. j = Level(po) /\ j <= level
      BY <1>3, <2>4
    <3>2. ~Holds(StateVars(po), s)
      BY <1>4, <2>2, <3>1, SubsumesHolds DEF Subsumes
    <3> QED
      BY <2>4, <3>2 DEF StateVars
  <2> QED
    BY <1>9, <2>3, <2>4
<1>13. LevelZeroIsInitial'
  <2>1. \A o \in queue' : o \in queue \/ o[1] # 0
    BY <1>3, <1>9
  <2> QED
    BY <1>1, <1>2, <2>1 DEF QueueInv, LevelZeroIsInitial, StateVars, Level, Handle
<1>14. QueueIsLocal'
  BY <1>2 DEF QueueIsLocal
<1>15. LocalInv'
  BY <1>1, <1>2 DEF LocalInv, CandidateIsInductive, ModelInFrame, CopiedAvoidInit, IntersectsInit
<1> QED
  BY <1>5, <1>6, <1>8, <1>10, <1>12, <1>13, <1>14, <1>15 DEF IInv, QueueInv

-----------------------------------------------------------------------------
(* propagate().                                                            *)

\* Outside of solve_obligation there is no obligation to say anything of.
LEMMA NoObligations ==
    ASSUME pc' \in {"check", "propagate", "done"}, queue' = {}
    PROVE  QueueInv'
BY DEF QueueInv, QueueIsLocal, ObligationsAreNew, LiveObligations, LevelZeroIsInitial

\* propagate moves a cube up, or leaves it.
LEMMA PropagateCubeStep ==
    ASSUME IInv, PropagateCube
    PROVE  IInv'
<1>1. TypeOK /\ SolverInv /\ TraceInv /\ PoolInv /\ QueueInv /\ LocalInv /\ VerdictIsCorrect
  BY DEF IInv
<1>2. /\ UNCHANGED <<system, depth>>
      /\ UNCHANGED <<pc, pool, queue, po, model, cand, lits, level, verdict>>
      /\ pc = "propagate" /\ level < depth
  BY DEF PropagateCube, search
<1>3. PICK c \in cubes :
        /\ cubes' = cubes \ {c}
        /\ \/ /\ IsRelativeInductive(WithSolver, c, level + 1)
              /\ blocked' = BlockedWith(c, level + 1, level)
              /\ solver' = AssertedAt(WithSolver, c, level + 1)
           \/ solver' = WithSolver /\ UNCHANGED blocked
  BY DEF PropagateCube
<1>4. /\ level \in 1 .. depth /\ depth \in Nat /\ depth >= 1
      /\ level + 1 \in 1 .. depth + 1 /\ level \in 1 .. level + 1 /\ (level + 1) - 1 = level
      /\ c \in Cubes
  BY <1>1, <1>2 DEF TypeOK
<1>5. Matches(WithSolver)
  BY <1>1, WithSolverMatches DEF TraceInv
<1>6. ~IntersectsInit(system, c)
  BY <1>1 DEF LocalInv, CopiedAvoidInit
<1>7. TraceInv' /\ SolverInv'
  <2>1. CASE UNCHANGED blocked /\ solver' = WithSolver
    <3>1. UNCHANGED <<system, trace>>
      BY <1>2, <2>1 DEF trace
    <3> QED
      BY <1>1, <2>1, <3>1, TraceUnchanged, SolverQueried
  <2>2. CASE /\ IsRelativeInductive(WithSolver, c, level + 1)
             /\ blocked' = BlockedWith(c, level + 1, level)
             /\ solver' = AssertedAt(WithSolver, c, level + 1)
    <3>1. \A s \in R((level + 1) - 1), in \in Inputs :
            ~Holds(c, s) => ~Holds(c, NextState(system, s, in))
      BY <1>1, <1>4, <2>2, StepQuery DEF IsRelativeInductive
    <3>2. TraceInv'
      BY <1>1, <1>2, <1>4, <1>6, <2>2, <3>1, BlockingKeepsTrace
    <3>3. SolverInv'
      BY <1>1, <1>2, <1>4, <1>5, <2>2, BlockingKeepsSolver
    <3> QED
      BY <3>2, <3>3
  <2> QED
    BY <1>3, <2>1, <2>2
<1>8. PoolInv' /\ VerdictIsCorrect'
  BY <1>1, <1>2, PoolUnchanged, VerdictUnchanged DEF verdict
<1>9. queue = {}
  BY <1>1, <1>2 DEF QueueInv, QueueIsLocal
<1>10. QueueInv'
  BY <1>2, <1>9, NoObligations
<1>11. TypeOK'
  BY <1>1, <1>2, <1>3, <1>7 DEF TypeOK, TraceInv, SolverInv, Matches, verdict
<1>12. LocalInv'
  BY <1>1, <1>2, <1>3 DEF LocalInv, CandidateIsInductive, ModelInFrame, CopiedAvoidInit, IntersectsInit
<1> QED
  BY <1>7, <1>8, <1>10, <1>11, <1>12 DEF IInv

\* propagate goes on to the next frame.
LEMMA PropagateNextStep ==
    ASSUME IInv, PropagateNext
    PROVE  IInv'
<1>1. TypeOK /\ SolverInv /\ TraceInv /\ PoolInv /\ QueueInv /\ LocalInv /\ VerdictIsCorrect
  BY DEF IInv
<1>2. /\ UNCHANGED <<system, trace>>
      /\ UNCHANGED <<pc, solver, pool, queue, po, model, cand, lits, verdict>>
      /\ pc = "propagate" /\ level < depth /\ level' = level + 1
      /\ cubes' \in {{}, blocked[level + 1]}
  BY DEF PropagateNext, search
<1>3. level + 1 \in 1 .. depth /\ depth \in Nat /\ level + 1 \in 0 .. depth
  BY <1>1, <1>2 DEF TypeOK
<1>4. TraceInv'
  BY <1>1, <1>2, TraceUnchanged
<1>5. SolverInv' /\ PoolInv' /\ VerdictIsCorrect'
  BY <1>1, <1>2, SolverUnchanged, PoolUnchanged, VerdictUnchanged DEF verdict
<1>6. QueueInv'
  <2>1. queue = {}
    BY <1>1, <1>2 DEF QueueInv, QueueIsLocal
  <2> QED
    BY <1>2, <2>1, NoObligations
<1>7. TypeOK'
  <2>1. cubes' \subseteq Cubes
    BY <1>1, <1>2, <1>3 DEF TraceInv
  <2> QED
    BY <1>1, <1>2, <1>3, <2>1 DEF TypeOK, trace, verdict
<1>8. LocalInv'
  <2>1. \A c \in cubes' : ~IntersectsInit(system, c)
    BY <1>1, <1>2, <1>3 DEF TraceInv, BlockedAvoidInit
  <2> QED
    BY <1>2, <2>1 DEF LocalInv, CandidateIsInductive, ModelInFrame, CopiedAvoidInit, IntersectsInit
<1> QED
  BY <1>4, <1>5, <1>6, <1>7, <1>8 DEF IInv

\* An empty frame before the last equals the frame after it, so it is an
\* inductive invariant, and it excludes the error.
LEMMA FoundInvariantStep ==
    ASSUME IInv, FoundInvariant
    PROVE  IInv'
<1>1. TypeOK /\ SolverInv /\ TraceInv /\ PoolInv /\ QueueInv /\ LocalInv /\ VerdictIsCorrect
  BY DEF IInv
<1>2. /\ UNCHANGED <<system, trace>>
      /\ UNCHANGED <<solver, pool, queue, po, model, cand, lits, level, cubes>>
      /\ pc = "propagate" /\ pc' = "done" /\ level < depth /\ blocked[level] = {} /\ result' = "ok"
  BY DEF FoundInvariant, search, locals
<1>3. level \in 1 .. depth - 1 /\ depth \in Nat /\ level + 1 \in 0 .. depth /\ level \in 0 .. depth
  BY <1>1, <1>2 DEF TypeOK
<1>4. TraceInv'
  BY <1>1, <1>2, TraceUnchanged
<1>5. SolverInv' /\ PoolInv'
  BY <1>1, <1>2, SolverUnchanged, PoolUnchanged
<1>6. QueueInv'
  <2>1. queue = {}
    BY <1>1, <1>2 DEF QueueInv, QueueIsLocal
  <2> QED
    BY <1>2, <2>1, NoObligations
<1>7. TypeOK'
  BY <1>1, <1>2 DEF TypeOK, trace
<1>8. LocalInv'
  BY <1>1, <1>2 DEF LocalInv, CandidateIsInductive, ModelInFrame, CopiedAvoidInit, IntersectsInit
<1>9. Safe(system)
  <2>1. R(level) \in SUBSET States
    BY DEF R
  <2>2. R(level + 1) \subseteq R(level)
    BY <1>2, <1>3 DEF R
  <2>3. ASSUME NEW s \in States, Holds(system.init, s) PROVE s \in R(level)
    BY <1>1, <1>3, <2>3, InitInFrames
  <2>4. ASSUME NEW s \in R(level), NEW in \in Inputs PROVE NextState(system, s, in) \in R(level)
    BY <1>1, <1>3, <2>2 DEF TraceInv, FramesStep
  <2>5. ASSUME NEW s \in R(level), NEW in \in Inputs PROVE <<s, in>> \notin system.error
    BY <1>1, <1>3 DEF TraceInv, FramesBelowLastAreSafe
  <2>6. SafeInvariant(system, R(level))
    BY <2>3, <2>4, <2>5 DEF SafeInvariant
  <2> QED
    BY <2>1, <2>6 DEF Safe
<1>10. VerdictIsCorrect'
  BY <1>2, <1>9 DEF VerdictIsCorrect
<1> QED
  BY <1>4, <1>5, <1>6, <1>7, <1>8, <1>10 DEF IInv

\* The end of propagate.
LEMMA PropagateDoneStep ==
    ASSUME IInv, PropagateDone
    PROVE  IInv'
<1>1. TypeOK /\ SolverInv /\ TraceInv /\ PoolInv /\ QueueInv /\ LocalInv /\ VerdictIsCorrect
  BY DEF IInv
<1>2. /\ UNCHANGED <<system, trace>>
      /\ UNCHANGED <<solver, queue, po, model, cand, lits, verdict>>
      /\ pc = "propagate" /\ pc' = "check" /\ level' = 0 /\ cubes' = {} /\ pool' = <<>>
  BY DEF PropagateDone
<1>3. TraceInv'
  BY <1>1, <1>2, TraceUnchanged
<1>4. SolverInv' /\ VerdictIsCorrect'
  BY <1>1, <1>2, SolverUnchanged, VerdictUnchanged DEF verdict
<1>5. PoolInv'
  BY <1>2 DEF PoolInv, CtisAreInhabited, CtisAreUnsafe, Handles
<1>6. queue = {}
  BY <1>1, <1>2 DEF QueueInv, QueueIsLocal
<1>7. QueueInv'
  BY <1>2, <1>6, NoObligations
<1>8. TypeOK'
  BY <1>1, <1>2, <1>6 DEF TypeOK, trace, verdict
<1>9. LocalInv'
  BY <1>2 DEF LocalInv, CandidateIsInductive, ModelInFrame, CopiedAvoidInit
<1> QED
  BY <1>3, <1>4, <1>5, <1>7, <1>8, <1>9 DEF IInv

-----------------------------------------------------------------------------
(* The invariant is inductive.                                             *)

\* A run starts with one empty frame, an unloaded solver and no obligation.
LEMMA InitEstablishes == Init => IInv
<1> SUFFICES ASSUME Init PROVE IInv
  OBVIOUS
<1> USE DEF Init
<1>1. TypeOK
  BY DEF TypeOK, Cubes
<1>2. SolverInv
  BY DEF SolverInv, Matches
<1>3. TraceInv
  BY DEF TraceInv, BlockedAvoidInit, FramesStep, FramesBelowLastAreSafe
<1>4. PoolInv
  BY DEF PoolInv, CtisAreInhabited, CtisAreUnsafe, Handles
<1>5. QueueInv
  BY DEF QueueInv, QueueIsLocal, ObligationsAreNew, LiveObligations, LevelZeroIsInitial
<1>6. LocalInv
  BY DEF LocalInv, CandidateIsInductive, ModelInFrame, CopiedAvoidInit
<1>7. VerdictIsCorrect
  BY DEF VerdictIsCorrect
<1> QED
  BY <1>1, <1>2, <1>3, <1>4, <1>5, <1>6, <1>7 DEF IInv

\* A step that changes nothing keeps the invariant.
LEMMA StutterKeeps ==
    ASSUME IInv, UNCHANGED vars
    PROVE  IInv'
<1>1. TypeOK /\ SolverInv /\ TraceInv /\ PoolInv /\ QueueInv /\ LocalInv /\ VerdictIsCorrect
  BY DEF IInv
<1>2. /\ UNCHANGED <<system, trace>>
      /\ UNCHANGED <<pc, solver, pool, queue, po, model, cand, lits, level, cubes, result, cex>>
  BY DEF vars, search, locals, verdict
<1>3. TraceInv' /\ \A i \in Nat : R(i)' = R(i)
  BY <1>1, <1>2, TraceUnchanged
<1>4. SolverInv' /\ PoolInv' /\ VerdictIsCorrect'
  BY <1>1, <1>2, SolverUnchanged, PoolUnchanged, VerdictUnchanged
<1>5. TypeOK'
  BY <1>1, <1>2 DEF TypeOK, trace
<1>6. QueueInv'
  <2>1. /\ queue' \subseteq queue /\ LiveObligations' \subseteq LiveObligations
        /\ UNCHANGED <<system, depth, pool>>
    BY <1>2 DEF LiveObligations, trace
  <2>2. \A i \in 0 .. depth : R(i)' \subseteq R(i)
    BY <1>1, <1>3 DEF TraceInv
  <2>3. ObligationsAreNew' /\ LevelZeroIsInitial'
    BY <1>1, <2>1, <2>2, ObligationsKept DEF QueueInv
  <2> QED
    BY <1>1, <1>2, <2>3 DEF QueueInv, QueueIsLocal
<1>7. CandidateIsInductive'
  <2>1. UNCHANGED <<cand, level, StateVars(po), R(level - 1)>>
    BY <1>2 DEF R, StateVars, Handle, trace
  <2> QED
    BY <1>1, <1>2, <2>1 DEF LocalInv, CandidateIsInductive, IntersectsInit
<1>8. ModelInFrame'
  <2>1. UNCHANGED <<model, R(Level(po) - 1)>>
    BY <1>2 DEF R, Level, trace
  <2> QED
    BY <1>1, <1>2, <2>1 DEF LocalInv, ModelInFrame
<1>9. CopiedAvoidInit'
  BY <1>1, <1>2 DEF LocalInv, CopiedAvoidInit, IntersectsInit
<1> QED
  BY <1>3, <1>4, <1>5, <1>6, <1>7, <1>8, <1>9 DEF IInv, LocalInv

\* The invariant is inductive.
LEMMA NextPreserves == IInv /\ [Next]_vars => IInv'
<1> SUFFICES ASSUME IInv, [Next]_vars PROVE IInv'
  OBVIOUS
<1>1. CASE ErrorCti
  BY <1>1, ErrorCtiStep
<1>2. CASE NoErrorCti
  BY <1>2, NoErrorCtiStep
<1>3. CASE FoundCounterexample
  BY <1>3, FoundCounterexampleStep
<1>4. CASE SkipSubsumed
  BY <1>4, SkipSubsumedStep
<1>5. CASE PopObligation
  BY <1>5, PopObligationStep
<1>6. CASE AllBlocked
  BY <1>6, AllBlockedStep
<1>7. CASE HasPredecessor
  BY <1>7, HasPredecessorStep
<1>8. CASE GetPredecessor
  BY <1>8, GetPredecessorStep
<1>9. CASE IsInductive
  BY <1>9, IsInductiveStep
<1>10. CASE TryDrop
  BY <1>10, TryDropStep
<1>11. CASE AllTried
  BY <1>11, AllTriedStep
<1>12. CASE RaiseLevel
  BY <1>12, RaiseLevelStep
<1>13. CASE BlockAtLevel
  <2>1. Matches(WithSolver)
    BY WithSolverMatches DEF IInv, TraceInv
  <2> QED
    BY <1>13, <2>1, BlockStep DEF BlockAtLevel
<1>14. CASE BlockAtDepth
  <2>1. Matches(solver)
    BY DEF IInv, SolverInv
  <2> QED
    BY <1>14, <2>1, BlockStep DEF BlockAtDepth
<1>15. CASE PropagateCube
  BY <1>15, PropagateCubeStep
<1>16. CASE PropagateNext
  BY <1>16, PropagateNextStep
<1>17. CASE FoundInvariant
  BY <1>17, FoundInvariantStep
<1>18. CASE PropagateDone
  BY <1>18, PropagateDoneStep
<1>19. CASE UNCHANGED vars
  BY <1>19, StutterKeeps
<1>20. CASE Returned
  BY <1>20, StutterKeeps DEF Returned
<1> QED
  BY <1>1, <1>2, <1>3, <1>4, <1>5, <1>6, <1>7, <1>8, <1>9, <1>10, <1>11, <1>12, <1>13, <1>14,
     <1>15, <1>16, <1>17, <1>18, <1>19, <1>20 DEF Next

\* The invariant holds in every state of every execution.
LEMMA Invariant == Spec => []IInv
<1> QED
  BY InitEstablishes, NextPreserves, PTL DEF Spec, SafetySpec

-----------------------------------------------------------------------------
(* The theorems.                                                           *)

\* Every variable keeps its type; in particular the indices that the trace,
\* the pool and the solver are accessed with are in range.
THEOREM TypeCorrect == Spec => []TypeOK
<1>1. IInv => TypeOK
  BY DEF IInv
<1> QED
  BY <1>1, Invariant, PTL

\* pdr::run says ok only of safe systems and returns counterexamples only for
\* unsafe ones.
THEOREM VerdictsAreCorrect == Spec => []VerdictIsCorrect
<1>1. IInv => VerdictIsCorrect
  BY DEF IInv
<1> QED
  BY <1>1, Invariant, PTL

\* The assertion of solve_obligation never fails.
THEOREM AssertionHolds == Spec => []CtiAvoidsInit
<1>1. IInv => CtiAvoidsInit
  BY WorkingAvoidsInit
<1> QED
  BY <1>1, Invariant, PTL

\* The incremental solver and the trace never disagree about a frame.
THEOREM SolverAgrees == Spec => []SolverMirrorsTrace
<1>1. ASSUME IInv PROVE SolverMirrorsTrace
  <2>1. \A i \in 0 .. depth : R(i) \subseteq States
    BY DEF R
  <2>2. ASSUME solver.loaded, NEW i \in 0 .. depth, NEW s \in States
        PROVE  InFrame(solver, i, s) <=> s \in R(i)
    BY <1>1, <2>2, FrameInSolver DEF IInv, SolverInv, TraceInv
  <2> QED
    BY <2>1, <2>2 DEF SolverMirrorsTrace
<1> QED
  BY <1>1, Invariant, PTL

\* The frames over-approximate the states reachable in as many steps.
THEOREM FramesOverapproximate == Spec => []TraceOverapproximates
<1>1. ASSUME IInv PROVE TraceOverapproximates
  <2>1. TraceInv
    BY <1>1 DEF IInv
  <2>2. \A i \in 0 .. depth - 1 : R(0) \subseteq R(i + 1)
    BY <2>1 DEF TraceInv, R
  <2> QED
    BY <2>1, <2>2 DEF TraceOverapproximates, TraceInv, FramesStep
<1> QED
  BY <1>1, Invariant, PTL

\* A live obligation was ruled out of the frame below its level.
THEOREM ObligationsStayNew == Spec => []ObligationsAreNew
<1>1. IInv => ObligationsAreNew
  BY DEF IInv, QueueInv
<1> QED
  BY <1>1, Invariant, PTL

\* The queries of check() have emptied every frame but the last of error states,
\* and what is blocked later keeps them so.
THEOREM FramesStaySafe == Spec => []FramesBelowLastAreSafe
<1>1. IInv => FramesBelowLastAreSafe
  BY DEF IInv, TraceInv
<1> QED
  BY <1>1, Invariant, PTL

\* No step gives a state back to a frame.
THEOREM FramesShrink == Spec => FramesOnlyShrink
<1>1. ASSUME IInv, [Next]_vars PROVE [\A i \in 0 .. depth : R(i)' \subseteq R(i)]_vars
  <2>1. TypeOK /\ TraceInv /\ depth \in Nat
    BY <1>1 DEF IInv, TraceInv
  <2>2. CASE UNCHANGED <<system, trace>>
    BY <2>1, <2>2, TraceUnchanged
  <2>3. CASE NoErrorCti
    <3>1. /\ UNCHANGED system /\ depth' = depth + 1
          /\ blocked' = [d \in 0 .. depth + 1 |-> IF d <= depth THEN blocked[d] ELSE {}]
      BY <2>3 DEF NoErrorCti, PushFrame
    <3>2. ASSUME NEW i \in 0 .. depth PROVE R(i)' \subseteq R(i)
      <4>1. \A k \in i .. depth : k \in i .. depth + 1 /\ blocked'[k] = blocked[k]
        BY <2>1, <3>1
      <4> QED
        BY <3>1, <4>1 DEF R
    <3> QED
      BY <3>2
  <2>4. ASSUME NEW c \in Cubes, NEW lvl \in 1 .. depth + 1, NEW from \in 1 .. lvl, depth >= 1,
               blocked' = BlockedWith(c, lvl, from), UNCHANGED <<system, depth>>
        PROVE  \A i \in 0 .. depth : R(i)' \subseteq R(i)
    <3>1. \A i \in 0 .. depth : R(i)' \subseteq States
      BY DEF R
    <3>2. \A i \in 0 .. depth : \A s \in States : s \in R(i)' => s \in R(i)
      BY <2>1, <2>4, BlockedFrames
    <3> QED
      BY <3>1, <3>2
  <2>5. CASE BlockAtLevel \/ BlockAtDepth
    <3>1. /\ pc = "raise" /\ blocked' = BlockedWith(cand, level, 1) /\ UNCHANGED <<system, depth>>
      BY <2>5 DEF BlockAtLevel, BlockAtDepth, Block
    <3>2. cand \in Cubes /\ level \in 1 .. depth + 1 /\ 1 \in 1 .. level /\ depth >= 1
      BY <2>1, <3>1, WorkingType DEF TypeOK, Working
    <3> QED
      BY <2>4, <3>1, <3>2
  <2>6. CASE PropagateCube
    <3>1. /\ pc = "propagate" /\ UNCHANGED <<system, depth>> /\ level < depth
          /\ \E c \in cubes : blocked' \in {BlockedWith(c, level + 1, level), blocked}
      BY <2>6 DEF PropagateCube
    <3>2. level \in 1 .. depth /\ level + 1 \in 1 .. depth + 1 /\ level \in 1 .. level + 1 /\ depth >= 1
          /\ cubes \subseteq Cubes
      BY <2>1, <3>1 DEF TypeOK
    <3>3. PICK c \in cubes : blocked' \in {BlockedWith(c, level + 1, level), blocked}
      BY <3>1
    <3>4. CASE blocked' = blocked
      BY <2>2, <3>1, <3>4 DEF trace
    <3>5. CASE blocked' = BlockedWith(c, level + 1, level)
      BY <2>4, <3>1, <3>2, <3>3, <3>5
    <3> QED
      BY <3>3, <3>4, <3>5
  <2>7. CASE UNCHANGED vars
    BY <2>2, <2>7 DEF vars
  <2> QED
    BY <1>1, <2>2, <2>3, <2>5, <2>6, <2>7 DEF Next, ErrorCti, FoundCounterexample, SkipSubsumed,
        PopObligation, AllBlocked, HasPredecessor, GetPredecessor, IsInductive, TryDrop,
        AllTried, RaiseLevel, PropagateNext, FoundInvariant, PropagateDone, Returned
<1> QED
  BY <1>1, Invariant, PTL DEF Spec, SafetySpec, FramesOnlyShrink

\* Blocking an obligation excludes its cube from the frames up to its level,
\* whatever was generalized.
THEOREM BlockedStaysOut == Spec => BlockedIsExcluded
<1>1. ASSUME IInv, [Next]_vars, pc = "raise", pc' = "solve",
             NEW i \in 0 .. Level(po), NEW s \in States, Holds(StateVars(po), s)
      PROVE  s \notin R(i)'
  <2>1. BlockAtLevel \/ BlockAtDepth
    BY <1>1 DEF Next, vars, ErrorCti, NoErrorCti, FoundCounterexample, SkipSubsumed, PopObligation,
       AllBlocked, HasPredecessor, GetPredecessor, IsInductive, TryDrop, AllTried, RaiseLevel,
       PropagateCube, PropagateNext, FoundInvariant, PropagateDone, Returned
  <2>2. blocked' = BlockedWith(cand, level, 1) /\ UNCHANGED <<system, depth>>
    BY <2>1 DEF BlockAtLevel, BlockAtDepth, Block
  <2>3. TypeOK /\ TraceInv /\ depth \in Nat
    BY <1>1 DEF IInv, TraceInv
  <2>4. /\ cand \in Cubes /\ level \in 1 .. depth + 1 /\ 1 \in 1 .. level /\ depth >= 1
        /\ i \in 0 .. depth /\ i <= level
    BY <1>1, <2>3, WorkingType DEF TypeOK, Working
  <2>5. Holds(cand, s)
    BY <1>1 DEF IInv, LocalInv, CandidateIsInductive, Holds
  <2> QED
    BY <2>2, <2>3, <2>4, <2>5, BlockedFrames
<1>2. IInv /\ [Next]_vars =>
        [pc = "raise" /\ pc' = "solve" =>
            \A i \in 0 .. Level(po), s \in States : Holds(StateVars(po), s) => s \notin R(i)']_vars
  BY <1>1
<1> QED
  BY <1>2, Invariant, PTL DEF Spec, SafetySpec, BlockedIsExcluded

\* The result is there when run() returns and not before.
LEMMA ReturnedWithResult == Spec => [](pc # "done" => result = "none")
<1> DEFINE P == pc # "done" => result = "none"
<1>1. Init => P
  BY DEF Init
<1>2. P /\ [Next]_vars => P'
  BY DEF Next, vars, verdict, ErrorCti, NoErrorCti, FoundCounterexample, SkipSubsumed,
     PopObligation, AllBlocked, HasPredecessor, GetPredecessor, IsInductive, TryDrop, AllTried,
     RaiseLevel, BlockAtLevel, BlockAtDepth, Block, PropagateCube, PropagateNext,
     FoundInvariant, PropagateDone, Returned
<1> QED
  BY <1>1, <1>2, PTL DEF Spec, SafetySpec

\* The contract reads the transition system as the engine does.
LEMMA SafeInEngine == ASSUME NEW sys PROVE Engine!Safe(sys) = Safe(sys)
<1>1. \A c, s : Engine!Holds(c, s) = Holds(c, s)
  BY DEF Engine!Holds, Holds
<1>2. Engine!States = States
  BY DEF Engine!States, States
<1>3. \A s, i : Engine!NextState(sys, s, i) = NextState(sys, s, i)
  BY DEF Engine!NextState, NextState
<1>4. \A Inv : Engine!SafeInvariant(sys, Inv) = SafeInvariant(sys, Inv)
  BY <1>1, <1>2, <1>3 DEF Engine!SafeInvariant, SafeInvariant
<1> QED
  BY <1>2, <1>4 DEF Engine!Safe, Safe

\* The engine implements the contract its callers rely on: each step either
\* returns the one verdict that is right or is invisible to the caller.
THEOREM PDRImplementsEngine == Spec => ImplementsEngine
<1>1. Init => Engine!Init
  BY DEF Init, Engine!Init
<1>2. ASSUME IInv', pc # "done" => result = "none", [Next]_vars
      PROVE  [Engine!Next]_<<system, result>>
  <2>1. UNCHANGED system
    BY <1>2 DEF Next, vars, ErrorCti, NoErrorCti, FoundCounterexample, SkipSubsumed,
       PopObligation, AllBlocked, HasPredecessor, GetPredecessor, IsInductive, TryDrop, AllTried,
       RaiseLevel, BlockAtLevel, BlockAtDepth, Block, PropagateCube, PropagateNext,
       FoundInvariant, PropagateDone, Returned
  <2>2. \/ UNCHANGED result
        \/ pc # "done" /\ result' \in {"ok", "counterexample"}
    BY <1>2 DEF Next, vars, verdict, ErrorCti, NoErrorCti, FoundCounterexample, SkipSubsumed,
       PopObligation, AllBlocked, HasPredecessor, GetPredecessor, IsInductive, TryDrop, AllTried,
       RaiseLevel, BlockAtLevel, BlockAtDepth, Block, PropagateCube, PropagateNext,
       FoundInvariant, PropagateDone, Returned
  <2>3. /\ result' = "ok" => Safe(system)
        /\ result' = "counterexample" => ~Safe(system)
    BY <1>2, <2>1 DEF IInv, VerdictIsCorrect
  <2>4. CASE result' = "ok" /\ pc # "done"
    BY <1>2, <2>1, <2>3, <2>4, SafeInEngine DEF Engine!Next, Engine!ReturnOk
  <2>5. CASE result' = "counterexample" /\ pc # "done"
    BY <1>2, <2>1, <2>3, <2>5, SafeInEngine DEF Engine!Next, Engine!ReturnCounterexample
  <2>6. CASE UNCHANGED result
    BY <2>1, <2>6
  <2> QED
    BY <2>2, <2>4, <2>5, <2>6
<1> QED
  BY <1>1, <1>2, Invariant, ReturnedWithResult, PTL DEF Spec, SafetySpec, ImplementsEngine, Engine!SafetySpec,
     Engine!vars

-----------------------------------------------------------------------------
(* The counterexamples of the PDR engine are executions: the pool of CTIs  *)
(* is a forest whose paths lead to the error, and build_counterexample     *)
(* reads one of them.                                                      *)

\* No two live obligations share a handle.
HandlesDiffer == \A o, p \in LiveObligations : Handle(o) = Handle(p) => o = p

\* The obligation that is worked on was taken out of the queue.
PoppedOnce == pc \in Working => po \notin queue

HandlesInv == HandlesDiffer /\ PoppedOnce

\* Successors are older entries, and every entry is on a path to the error.
PathInv == Linked(pool) /\ CtisLeadToError

CexInv == CounterexampleReplays /\ CounterexampleStartsInInit

-----------------------------------------------------------------------------
(* Handles.                                                                *)

\* Handles stay distinct when no obligation is added.
LEMMA HandlesKept ==
    ASSUME HandlesDiffer, LiveObligations' \subseteq LiveObligations
    PROVE  HandlesDiffer'
BY DEF HandlesDiffer, Handle

\* They stay distinct when a predecessor gets the handle of a new entry and the
\* obligation it was found for is queued again.
LEMMA PredecessorHandles ==
    ASSUME IInv, HandlesInv, GetPredecessor
    PROVE  HandlesInv'
<1>1. /\ pc = "predecessor" /\ pc' = "solve"
      /\ queue' = queue \cup {<<Level(po) - 1, Len(pool) + 1>>, po}
  BY DEF GetPredecessor, Obligation, NextHandle
<1>2. TypeOK
  BY DEF IInv
<1>3. LiveObligations \subseteq (0 .. depth) \X (1 .. Len(pool)) /\ Len(pool) \in Nat
  BY <1>2, LiveType DEF TypeOK
<1> DEFINE o == <<Level(po) - 1, Len(pool) + 1>>
<1>4. LiveObligations' = LiveObligations \cup {o}
  BY <1>1 DEF LiveObligations
<1>5. Handle(o) = Len(pool) + 1
  BY DEF Handle
<1>6. \A p \in LiveObligations : Handle(p) # Len(pool) + 1
  BY <1>3 DEF Handle
<1> HIDE DEF o
<1>7. HandlesDiffer'
  BY <1>4, <1>5, <1>6 DEF HandlesInv, HandlesDiffer, Handle
<1> QED
  BY <1>1, <1>7 DEF HandlesInv, PoppedOnce, Working

\* They stay distinct when the obligation that was blocked is queued one level
\* up: it is not in the queue at the old level any more.
LEMMA BlockHandles ==
    ASSUME IInv, HandlesInv, pc = "raise", NEW sv, Block(sv)
    PROVE  HandlesInv'
<1> DEFINE o == <<Level(po) + 1, Handle(po)>>
<1>1. pc' = "solve" /\ queue' \subseteq queue \cup {o}
  BY DEF Block, Obligation
<1>2. LiveObligations = queue \cup {po} /\ LiveObligations' \subseteq queue \cup {o}
  BY <1>1 DEF LiveObligations
<1>3. po \notin queue
  BY DEF HandlesInv, PoppedOnce, Working
<1>4. Handle(o) = Handle(po)
  BY DEF Handle
<1> HIDE DEF o
<1>5. \A p \in queue : Handle(p) # Handle(o)
  BY <1>2, <1>3, <1>4 DEF HandlesInv, HandlesDiffer
<1>6. HandlesDiffer'
  <2> SUFFICES ASSUME NEW p \in LiveObligations', NEW q \in LiveObligations', p[2] = q[2]
               PROVE  p = q
    BY DEF HandlesDiffer, Handle
  <2>1. p \in queue /\ q \in queue => p = q
    BY <1>2 DEF HandlesInv, HandlesDiffer, Handle
  <2> QED
    BY <1>2, <1>5, <2>1 DEF Handle
<1> QED
  BY <1>1, <1>6 DEF HandlesInv, PoppedOnce, Working

\* Every step keeps the handles of live obligations apart.
LEMMA HandlesStep == IInv /\ HandlesInv /\ [Next]_vars => HandlesInv'
<1> SUFFICES ASSUME IInv, HandlesInv, [Next]_vars PROVE HandlesInv'
  OBVIOUS
<1>1. HandlesDiffer /\ PoppedOnce /\ QueueIsLocal
  BY DEF HandlesInv, IInv, QueueInv
<1>2. CASE ErrorCti
  <2>1. /\ pc' = "solve"
        /\ queue' = {Obligation(depth, NextHandle)}
    BY <1>2 DEF ErrorCti
  <2> QED
    BY <2>1 DEF HandlesInv, HandlesDiffer, PoppedOnce, LiveObligations, Working
<1>3. CASE FoundCounterexample \/ SkipSubsumed
  <2>1. /\ pc = "solve" /\ pc' \in {"solve", "done"}
        /\ queue' \subseteq queue
    BY <1>3 DEF FoundCounterexample, SkipSubsumed
  <2>2. LiveObligations' \subseteq LiveObligations
    BY <2>1 DEF LiveObligations
  <2> QED
    BY <1>1, <2>1, <2>2, HandlesKept DEF HandlesInv, PoppedOnce, Working
<1>4. CASE PopObligation
  <2>1. PICK o \in queue : /\ queue' = queue \ {o}
                           /\ \/ po' = o /\ pc' = "inductive"
                              \/ pc' = "solve"
                           /\ pc = "solve"
    BY <1>4 DEF PopObligation
  <2>2. LiveObligations' \subseteq LiveObligations
    BY <2>1 DEF LiveObligations
  <2>3. PoppedOnce'
    BY <2>1 DEF PoppedOnce, Working
  <2> QED
    BY <1>1, <2>2, <2>3, HandlesKept DEF HandlesInv
<1>5. CASE GetPredecessor
  BY <1>5, PredecessorHandles
<1>6. CASE BlockAtLevel
  BY <1>6, BlockHandles DEF BlockAtLevel
<1>7. CASE BlockAtDepth
  BY <1>7, BlockHandles DEF BlockAtDepth
<1>8. CASE HasPredecessor \/ IsInductive \/ TryDrop \/ AllTried \/ RaiseLevel
  <2>1. UNCHANGED <<queue, po>> /\ pc \in Working /\ pc' \in Working
    BY <1>8 DEF HasPredecessor, IsInductive, TryDrop, AllTried, RaiseLevel, search, locals, Working
  <2>2. LiveObligations' \subseteq LiveObligations
    BY <2>1 DEF LiveObligations, Working
  <2> QED
    BY <1>1, <2>1, <2>2, HandlesKept DEF HandlesInv, PoppedOnce
<1>9. CASE NoErrorCti \/ AllBlocked \/ PropagateCube \/ PropagateNext \/ FoundInvariant \/ PropagateDone
  <2>1. UNCHANGED queue /\ pc' \notin Working
    BY <1>9 DEF NoErrorCti, AllBlocked, PropagateCube, PropagateNext, FoundInvariant, PropagateDone,
       search, Working
  <2>2. LiveObligations' \subseteq LiveObligations
    BY <2>1 DEF LiveObligations, Working
  <2> QED
    BY <1>1, <2>1, <2>2, HandlesKept DEF HandlesInv, PoppedOnce
<1>10. CASE UNCHANGED vars
  <2>1. UNCHANGED <<pc, queue, po>>
    BY <1>10 DEF vars, search, locals
  <2>2. LiveObligations' \subseteq LiveObligations
    BY <2>1 DEF LiveObligations
  <2> QED
    BY <1>1, <2>1, <2>2, HandlesKept DEF HandlesInv, PoppedOnce
<1> QED
  BY <1>2, <1>3, <1>4, <1>5, <1>6, <1>7, <1>8, <1>9, <1>10 DEF Next, Returned

-----------------------------------------------------------------------------
(* Paths.                                                                  *)

\* An entry whose states go into its successor's cube, or to the error, may be
\* added.
LEMMA PathGrows ==
    ASSUME pool \in Seq(PoolEntry), PathInv, UNCHANGED system,
           NEW e \in PoolEntry, e.succ \in 0 .. Len(pool), pool' = Append(pool, e),
           \A s \in States : Holds(e.state, s) =>
                IF e.succ = 0 THEN <<s, e.input>> \in system.error
                ELSE Holds(pool[e.succ].state, NextState(system, s, e.input))
    PROVE  PathInv'
<1>1. /\ Len(pool') = Len(pool) + 1 /\ Len(pool) \in Nat
      /\ pool'[Len(pool) + 1] = e
      /\ \A h \in 1 .. Len(pool) : pool'[h] = pool[h]
  OBVIOUS
<1>2. \A h \in 1 .. Len(pool) : pool[h].succ \in 0 .. h - 1
  BY DEF PathInv, Linked
<1>3. Linked(pool)'
  BY <1>1, <1>2 DEF Linked
<1>4. ASSUME NEW h \in 1 .. Len(pool'), NEW s \in States, Holds(pool'[h].state, s)
      PROVE  IF pool'[h].succ = 0 THEN <<s, pool'[h].input>> \in system.error
             ELSE Holds(pool'[pool'[h].succ].state, NextState(system, s, pool'[h].input))
  <2>1. CASE h = Len(pool) + 1
    <3>1. pool'[h] = e
      BY <1>1, <2>1
    <3>2. e.succ # 0 => pool'[e.succ] = pool[e.succ]
      BY <1>1
    <3>3. Holds(e.state, s)
      BY <1>4, <3>1
    <3>4. CASE e.succ = 0
      BY <3>1, <3>3, <3>4
    <3>5. CASE e.succ # 0
      BY <3>1, <3>2, <3>3, <3>5
    <3> QED
      BY <3>4, <3>5
  <2>2. CASE h \in 1 .. Len(pool)
    <3>1. pool'[h] = pool[h] /\ pool[h].succ \in 0 .. h - 1
      BY <1>1, <1>2, <2>2
    <3>2. pool[h].succ # 0 => pool'[pool[h].succ] = pool[pool[h].succ]
      BY <1>1, <2>2, <3>1
    <3>3. Holds(pool[h].state, s)
      BY <1>4, <3>1
    <3>4. IF pool[h].succ = 0 THEN <<s, pool[h].input>> \in system.error
          ELSE Holds(pool[pool[h].succ].state, NextState(system, s, pool[h].input))
      BY <2>2, <3>3 DEF PathInv, CtisLeadToError, Handles, NoSuccessor
    <3> QED
      BY <3>1, <3>2, <3>4
  <2>3. h = Len(pool) + 1 \/ h \in 1 .. Len(pool)
    BY <1>1
  <2> QED
    BY <2>1, <2>2, <2>3
<1>5. CtisLeadToError'
  BY <1>4 DEF CtisLeadToError, Handles, NoSuccessor
<1> QED
  BY <1>3, <1>5 DEF PathInv

\* A new error state is the end of a path.
LEMMA ErrorCtiPath ==
    ASSUME IInv, PathInv, ErrorCti
    PROVE  PathInv'
<1>1. TypeOK /\ SolverInv /\ TraceInv
  BY DEF IInv
<1>2. PICK s \in States, in \in Inputs :
        /\ IsError(WithSolver, s, in)
        /\ pool' = Append(pool, [state |-> CubeOf(s), input |-> in, succ |-> 0])
  BY DEF ErrorCti, MakeCti, NoSuccessor
<1>3. WithSolver.loaded
  BY <1>1, WithSolverMatches DEF TraceInv
<1>4. <<s, in>> \in system.error
  BY <1>2, <1>3 DEF IsError
<1> DEFINE e == [state |-> CubeOf(s), input |-> in, succ |-> 0]
<1>5. pool \in Seq(PoolEntry) /\ UNCHANGED system
  BY <1>1 DEF TypeOK, PoolEntry, ErrorCti
<1>6. Len(pool) \in Nat
  BY <1>5
<1>7. e \in PoolEntry /\ e.succ = 0 /\ e.succ \in 0 .. Len(pool)
  BY <1>6, CubeOfState DEF PoolEntry
<1>8. \A t \in States : Holds(e.state, t) => <<t, e.input>> \in system.error
  BY <1>4, CubeOfState
<1>9. pool' = Append(pool, e)
  BY <1>2
<1> HIDE DEF e
<1> QED
  BY <1>5, <1>7, <1>8, <1>9, PathGrows

\* A predecessor continues the path of the obligation it was found for.
LEMMA GetPredecessorPath ==
    ASSUME IInv, PathInv, GetPredecessor
    PROVE  PathInv'
<1>1. TypeOK /\ SolverInv /\ TraceInv
  BY DEF IInv
<1>2. pc = "predecessor" /\ UNCHANGED system
  BY DEF GetPredecessor
<1>3. PICK c \in SUBSET CubeOf(model.state) :
        /\ IsPredecessorCore(WithSolver, c, StateVars(po), model.input)
        /\ pool' = Append(pool, [state |-> c, input |-> model.input, succ |-> Handle(po)])
  BY DEF GetPredecessor, MakeCti
<1>4. /\ Handle(po) \in 1 .. Len(pool) /\ model.state \in States /\ model.input \in Inputs
      /\ pool \in Seq(PoolEntry) /\ Len(pool) \in Nat
  BY <1>1, <1>2 DEF TypeOK, Handle, PoolEntry
<1>5. c \in Cubes
  BY <1>4, CubeOfState DEF Cubes
<1>6. WithSolver.loaded
  BY <1>1, WithSolverMatches DEF TraceInv
<1>7. \A s \in States : Holds(c, s) => Holds(pool[Handle(po)].state, NextState(system, s, model.input))
  BY <1>3, <1>6 DEF IsPredecessorCore, Successors, StateVars
<1> DEFINE e == [state |-> c, input |-> model.input, succ |-> Handle(po)]
<1>8. /\ e \in PoolEntry /\ e.succ # 0 /\ e.succ \in 0 .. Len(pool)
      /\ e.state = c /\ e.input = model.input /\ e.succ = Handle(po)
  BY <1>4, <1>5 DEF PoolEntry
<1>9. pool' = Append(pool, e)
  BY <1>3
<1> HIDE DEF e
<1> QED
  BY <1>2, <1>4, <1>7, <1>8, <1>9, PathGrows

\* Every step keeps the pool a forest of paths to the error.
LEMMA PathStep == IInv /\ PathInv /\ [Next]_vars => PathInv'
<1> SUFFICES ASSUME IInv, PathInv, [Next]_vars PROVE PathInv'
  OBVIOUS
<1>1. CASE UNCHANGED <<system, pool>>
  BY <1>1 DEF PathInv, CtisLeadToError, Handles, Linked
<1>2. CASE AllBlocked \/ PropagateDone
  <2>1. pool' = <<>>
    BY <1>2 DEF AllBlocked, PropagateDone
  <2> QED
    BY <2>1 DEF PathInv, CtisLeadToError, Handles, Linked
<1>3. CASE ErrorCti
  BY <1>3, ErrorCtiPath
<1>4. CASE GetPredecessor
  BY <1>4, GetPredecessorPath
<1> QED
  BY <1>1, <1>2, <1>3, <1>4 DEF Next, vars, search, NoErrorCti, FoundCounterexample, SkipSubsumed,
     PopObligation, HasPredecessor, IsInductive, TryDrop, AllTried, RaiseLevel, BlockAtLevel,
     BlockAtDepth, Block, PropagateCube, PropagateNext, FoundInvariant, Returned

\* InputsFrom collects the inputs along the successors.
LEMMA InputsFromWalk ==
    ASSUME pool \in Seq(PoolEntry), Linked(pool)
    PROVE  \E w : /\ \A h : InputsFrom(h) = w[h]
                  /\ \A h \in 1 .. Len(pool) :
                        w[h] = IF pool[h].succ = 0 THEN <<pool[h].input>>
                               ELSE <<pool[h].input>> \o w[pool[h].succ]
<1> DEFINE walk[g \in Handles] ==
                IF pool[g].succ = NoSuccessor
                THEN <<pool[g].input>>
                ELSE <<pool[g].input>> \o walk[pool[g].succ]
           Is(f) == f = [g \in Handles |-> IF pool[g].succ = NoSuccessor
                                           THEN <<pool[g].input>>
                                           ELSE <<pool[g].input>> \o f[pool[g].succ]]
           v == [g \in 1 .. Len(pool) |-> pool[g].input]
<1>1. \E f : Is(f)
  <2>1. \A g \in 1 .. Len(pool) : pool[g].succ \in 0 .. g - 1
    BY DEF Linked
  <2> HIDE DEF v
  <2>2. PICK f : IsWalk(f, pool, v, Len(pool))
    <3>1. Len(pool) \in Nat
      OBVIOUS
    <3> QED
      BY <2>1, <3>1, WalkExists
  <2>3. \A g \in 1 .. Len(pool) : v[g] = pool[g].input
    BY DEF v
  <2>4. f = [g \in 1 .. Len(pool) |-> IF pool[g].succ = 0 THEN <<pool[g].input>>
                                        ELSE <<pool[g].input>> \o f[pool[g].succ]]
    BY <2>2, <2>3 DEF IsWalk
  <2>5. Is(f)
    BY <2>4 DEF Handles, NoSuccessor
  <2> HIDE DEF Is
  <2> QED
    BY <2>5
<1>2. Is(walk)
  BY <1>1, Zenon
<1>3. \A h : InputsFrom(h) = walk[h]
  BY DEF InputsFrom
<1> HIDE DEF walk
<1>4. ASSUME NEW h \in 1 .. Len(pool)
      PROVE  walk[h] = IF pool[h].succ = 0 THEN <<pool[h].input>>
                       ELSE <<pool[h].input>> \o walk[pool[h].succ]
  BY <1>2 DEF Handles, NoSuccessor
<1> QED
  BY <1>3, <1>4

\* From every state of an entry's cube these inputs lead to the error.
LEMMA InputsFromReplay ==
    ASSUME TypeOK, PathInv, NEW h \in Handles, NEW s \in States, Holds(pool[h].state, s)
    PROVE  ReachesError(system, s, InputsFrom(h))
<1>1. pool \in Seq(PoolEntry) /\ Linked(pool) /\ system \in Systems
  BY DEF TypeOK, PoolEntry, PathInv
<1>2. PICK w : /\ \A g : InputsFrom(g) = w[g]
               /\ \A g \in 1 .. Len(pool) :
                        w[g] = IF pool[g].succ = 0 THEN <<pool[g].input>>
                               ELSE <<pool[g].input>> \o w[pool[g].succ]
  BY <1>1, InputsFromWalk
<1>3. \A g \in 1 .. Len(pool) : \A t \in States : Holds(pool[g].state, t) =>
                IF pool[g].succ = 0 THEN <<t, pool[g].input>> \in system.error
                ELSE Holds(pool[pool[g].succ].state, NextState(system, t, pool[g].input))
  BY DEF PathInv, CtisLeadToError, Handles, NoSuccessor
<1>4. \A g \in 1 .. Len(pool) : \A t \in States : Holds(pool[g].state, t) => ReachesError(system, t, w[g])
  BY <1>1, <1>2, <1>3, WalksReplay
<1> QED
  BY <1>2, <1>4 DEF Handles

\* The counterexample starts in the cube of an obligation at level 0.
LEMMA FoundCounterexamplePath ==
    ASSUME IInv, PathInv, FoundCounterexample
    PROVE  CexInv'
<1>1. TypeOK /\ QueueInv /\ PoolInv /\ UNCHANGED system
  BY DEF IInv, FoundCounterexample
<1>2. PICK o \in queue :
        /\ Level(o) = 0
        /\ cex' = [initial |-> GetVars(StateVars(o)), inputs |-> InputsFrom(Handle(o))]
  BY DEF FoundCounterexample
<1>3. Handle(o) \in Handles /\ pool \in Seq(PoolEntry) /\ system \in Systems
  BY <1>1 DEF TypeOK, Handle, Handles, PoolEntry
<1>4. pool[Handle(o)] \in PoolEntry
  BY <1>3, ElementInRange DEF Handles
<1>5. StateVars(o) \in Cubes
  BY <1>4 DEF PoolEntry, StateVars
<1>6. PICK s \in States : Holds(system.init, s) /\ Holds(StateVars(o), s)
  BY <1>1, <1>2 DEF QueueInv, LevelZeroIsInitial
<1> DEFINE t == GetVars(StateVars(o))
<1>7. t \in States /\ Holds(StateVars(o), t)
  BY <1>5, <1>6, GetVarsHolds
<1>8. ReachesError(system, t, InputsFrom(Handle(o)))
  <2> HIDE DEF t
  <2> QED
    BY <1>1, <1>3, <1>7, InputsFromReplay DEF StateVars
<1>9. (\A x \in Latches : <<x, TRUE>> \notin system.init) => Holds(system.init, t)
  BY <1>3, <1>5, <1>6, GetVarsInitial
<1>10. cex'.initial = t /\ cex'.inputs = InputsFrom(Handle(o))
  BY <1>2
<1> HIDE DEF t
<1>11. CounterexampleReplays'
  BY <1>1, <1>8, <1>10 DEF CounterexampleReplays
<1>12. CounterexampleStartsInInit'
  BY <1>1, <1>9, <1>10 DEF CounterexampleStartsInInit
<1> QED
  BY <1>11, <1>12 DEF CexInv

\* Every step keeps the counterexample an execution.
LEMMA CexStep == IInv /\ PathInv /\ CexInv /\ [Next]_vars => CexInv'
<1> SUFFICES ASSUME IInv, PathInv, CexInv, [Next]_vars PROVE CexInv'
  OBVIOUS
<1>1. CASE FoundCounterexample
  BY <1>1, FoundCounterexamplePath
<1>2. CASE UNCHANGED <<system, result, cex>>
  BY <1>2 DEF CexInv, CounterexampleReplays, CounterexampleStartsInInit
<1>3. CASE result' = "ok"
  BY <1>3 DEF CexInv, CounterexampleReplays, CounterexampleStartsInInit
<1> QED
  BY <1>1, <1>2, <1>3 DEF Next, vars, verdict, ErrorCti, NoErrorCti, SkipSubsumed, PopObligation,
     AllBlocked, HasPredecessor, GetPredecessor, IsInductive, TryDrop, AllTried, RaiseLevel,
     BlockAtLevel, BlockAtDepth, Block, PropagateCube, PropagateNext, FoundInvariant,
     PropagateDone, Returned

-----------------------------------------------------------------------------
(* The theorems.                                                           *)

\* The pool is empty at first.
LEMMA InitPaths == Init => HandlesInv /\ PathInv /\ CexInv
<1> SUFFICES ASSUME Init PROVE HandlesInv /\ PathInv /\ CexInv
  OBVIOUS
<1>1. HandlesInv
  BY DEF Init, HandlesInv, HandlesDiffer, PoppedOnce, LiveObligations, Working
<1>2. PathInv
  BY DEF Init, PathInv, Linked, CtisLeadToError, Handles
<1>3. CexInv
  BY DEF Init, CexInv, CounterexampleReplays, CounterexampleStartsInInit
<1> QED
  BY <1>1, <1>2, <1>3

\* What is known of handles, paths and counterexamples holds in every state.
LEMMA PathInvariant == Spec => [](HandlesInv /\ PathInv /\ CexInv)
<1>1. IInv /\ (HandlesInv /\ PathInv /\ CexInv) /\ [Next]_vars => (HandlesInv /\ PathInv /\ CexInv)'
  BY HandlesStep, PathStep, CexStep
<1> QED
  BY <1>1, InitPaths, Invariant, PTL DEF Spec, SafetySpec

\* The assertion of cti_pool::get never fails, although the pool is flushed, and
\* the queue never holds one cube twice.
THEOREM HandlesStayLive == Spec => []LiveHandles
<1>1. ASSUME IInv, HandlesInv PROVE LiveHandles
  <2>1. LiveObligations \subseteq (0 .. depth) \X (1 .. Len(pool))
    BY <1>1, LiveType DEF IInv
  <2>2. \A o \in LiveObligations : Handle(o) \in Handles
    BY <2>1 DEF Handle, Handles
  <2>3. pc \in {"check", "propagate"} => LiveObligations = {}
    BY <1>1 DEF IInv, QueueInv, QueueIsLocal, LiveObligations
  <2> QED
    BY <1>1, <2>2, <2>3 DEF LiveHandles, HandlesInv, HandlesDiffer
<1> QED
  BY <1>1, Invariant, PathInvariant, PTL

\* Generalizing a predecessor to an unsat core keeps it a predecessor: all of
\* the states of an entry's cube go where the entry says.
THEOREM CtisStayOnPaths == Spec => []CtisLeadToError
<1>1. PathInv => CtisLeadToError
  BY DEF PathInv
<1> QED
  BY <1>1, PathInvariant, PTL

\* build_counterexample returns the inputs of an execution that ends in the
\* error, from the state it completes with arbitrary values.
THEOREM CounterexamplesReplay == Spec => []CounterexampleReplays
<1>1. CexInv => CounterexampleReplays
  BY DEF CexInv
<1> QED
  BY <1>1, PathInvariant, PTL

\* And that state is an initial one when no latch resets to one.
THEOREM CounterexamplesStartInInit == Spec => []CounterexampleStartsInInit
<1>1. CexInv => CounterexampleStartsInInit
  BY DEF CexInv
<1> QED
  BY <1>1, PathInvariant, PTL
=============================================================================
