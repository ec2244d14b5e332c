------------------------------ MODULE CARProof ------------------------------
(***************************************************************************)
(* What the forward and the backward CAR engine compute is right, for      *)
(* every set of latches and inputs, every system, every combination of     *)
(* options, every refresh rate and every choice of models and unsat cores  *)
(* the solver may make.                                                    *)
(*                                                                         *)
(* The invariant is proved in layers: the types, the frames, and the       *)
(* obligations with the verdict. A layer may use the ones before it.       *)
(***************************************************************************)
EXTENDS CAR, SystemLemmas, TLAPS

Working == {"query", "generalize", "shrinkpred", "shrinkblocked"}

Entry == [state : Cubes, input : Inputs, succ : Nat]

-----------------------------------------------------------------------------
(* Types.                                                                  *)

\* While a predecessor is generalized there is a model, of a forward engine; a
\* result is there when run() returns and not before.
TypeInv ==
    /\ TypeOK
    /\ pc \in {"generalize", "shrinkpred"} =>
            model \in [state : States, input : Inputs] /\ opts.forward
    /\ pc # "done" => result = "none"

\* cotrace_pool::make and add_reaching_at only add: entries keep their handles,
\* and there is a coframe for the new one.
LEMMA ReachGrows ==
    ASSUME TypeOK, NEW c \in Cubes, NEW in \in Inputs, NEW h \in Nat, NEW cl \in 0 .. codepth + 1,
           Reach(c, in, h, cl)
    PROVE  /\ pool' \in Seq(Entry)
           /\ Len(pool) \in Nat
           /\ Len(pool') = Len(pool) + 1
           /\ pool'[Len(pool) + 1] = [state |-> c, input |-> in, succ |-> h]
           /\ \A g \in Handles : pool'[g] = pool[g]
           /\ Handles' = Handles \cup {NextHandle}
           /\ NextHandle \notin Handles
           /\ codepth' \in Nat /\ codepth <= codepth' /\ cl <= codepth'
           /\ reaching' \in [0 .. codepth' -> SUBSET Handles']
<1> DEFINE e == [state |-> c, input |-> in, succ |-> h]
<1>1. pool \in Seq(Entry) /\ codepth \in Nat /\ reaching \in [0 .. codepth -> SUBSET Handles]
  BY DEF TypeOK, Entry
<1>2. e \in Entry /\ pool' = Append(pool, e)
  BY DEF Entry, Reach
<1> HIDE DEF e
<1>3. /\ pool' \in Seq(Entry)
      /\ Len(pool) \in Nat
      /\ Len(pool') = Len(pool) + 1
      /\ pool'[Len(pool) + 1] = e
      /\ \A g \in 1 .. Len(pool) : pool'[g] = pool[g]
  BY <1>1, <1>2
<1>4. Handles' = Handles \cup {NextHandle} /\ NextHandle \notin Handles
  BY <1>3 DEF Handles, NextHandle
<1>5. codepth' \in Nat /\ codepth <= codepth' /\ cl <= codepth'
  BY <1>1 DEF Reach
<1>6. reaching' \in [0 .. codepth' -> SUBSET Handles']
  BY <1>1, <1>4, <1>5 DEF Reach
<1> QED
  BY <1>3, <1>4, <1>5, <1>6 DEF e, Handles

\* The obligation that is being worked on.
LEMMA WorkingType ==
    ASSUME TypeOK, pc \in Working
    PROVE  /\ depth \in Nat /\ codepth \in Nat
           /\ Level(po) \in 1 .. depth
           /\ Colevel(po) \in 0 .. codepth
           /\ Handle(po) \in Handles
           /\ pool[Handle(po)] \in Entry
           /\ StateVars(po) \in Cubes
           /\ po = <<Level(po), Colevel(po), Handle(po)>>
<1>1. /\ po \in (1 .. depth) \X (0 .. codepth) \X Handles
      /\ depth \in Nat /\ codepth \in Nat /\ pool \in Seq(Entry)
  BY DEF TypeOK, Working, Entry
<1>2. /\ Level(po) \in 1 .. depth /\ Colevel(po) \in 0 .. codepth /\ Handle(po) \in Handles
      /\ po = <<Level(po), Colevel(po), Handle(po)>>
  BY <1>1 DEF Level, Colevel, Handle
<1>3. pool[Handle(po)] \in Entry
  BY <1>1, <1>2, ElementInRange DEF Handles
<1> QED
  BY <1>1, <1>2, <1>3 DEF StateVars, Entry

\* A solver has its type after a query.
LEMMA WithSolverType ==
    ASSUME TypeOK
    PROVE  WithSolver \in [clauses : SUBSET ((0 .. depth) \X Cubes), queries : Nat]
<1> DEFINE cls == UNION {{<<k, c>> : c \in blocked[k]} : k \in 0 .. depth}
<1>1. cls \in SUBSET ((0 .. depth) \X Cubes)
  BY DEF TypeOK
<1>2. RefreshedSolver = [clauses |-> cls, queries |-> 0]
  BY DEF RefreshedSolver
<1> HIDE DEF cls
<1>3. RefreshedSolver \in [clauses : SUBSET ((0 .. depth) \X Cubes), queries : Nat]
  BY <1>1, <1>2
<1>4. solver \in [clauses : SUBSET ((0 .. depth) \X Cubes), queries : Nat]
  BY DEF TypeOK
<1> QED
  BY <1>3, <1>4 DEF WithSolver

\* Blocking a cube gives the trace and the solver their types.
LEMMA BlockingType ==
    ASSUME TypeOK, NEW c \in Cubes, NEW lvl \in 0 .. depth,
           NEW sv \in [clauses : SUBSET ((0 .. depth) \X Cubes), queries : Nat]
    PROVE  /\ BlockedWith(c, lvl) \in [0 .. depth -> SUBSET Cubes]
           /\ AssertedAt(sv, c, lvl) \in [clauses : SUBSET ((0 .. depth) \X Cubes), queries : Nat]
<1>1. BlockedWith(c, lvl) \in [0 .. depth -> SUBSET Cubes]
  BY DEF TypeOK, BlockedWith
<1>2. AssertedAt(sv, c, lvl) \in [clauses : SUBSET ((0 .. depth) \X Cubes), queries : Nat]
  BY DEF AssertedAt
<1> QED
  BY <1>1, <1>2

\* A predecessor goes to the pool, the cotrace and the queue.
LEMMA PushPredecessorType ==
    ASSUME TypeOK, pc \in Working, result = "none", NEW c \in Cubes, NEW in \in Inputs,
           PushPredecessor(c, in), UNCHANGED <<input, phase, trace, scan, verdict>>,
           solver' \in [clauses : SUBSET ((0 .. depth) \X Cubes), queries : Nat],
           cand' \in Cubes, lits' \in Cubes
    PROVE  TypeOK'
<1>1. /\ depth \in Nat /\ codepth \in Nat
      /\ Level(po) \in 1 .. depth /\ Colevel(po) \in 0 .. codepth /\ Handle(po) \in Handles
      /\ po = <<Level(po), Colevel(po), Handle(po)>>
  BY WorkingType
<1>2. /\ Reach(c, in, Handle(po), Colevel(po) + 1)
      /\ queue' = queue \cup {<<Level(po) - 1, Colevel(po) + 1, NextHandle>>, po}
      /\ pc' = "solve"
  BY DEF PushPredecessor, Obligation
<1>3. Handle(po) \in Nat /\ Colevel(po) + 1 \in 0 .. codepth + 1
  BY <1>1 DEF Handles
<1>4. /\ pool' \in Seq(Entry)
      /\ Handles' = Handles \cup {NextHandle}
      /\ codepth' \in Nat /\ codepth <= codepth' /\ Colevel(po) + 1 <= codepth'
      /\ reaching' \in [0 .. codepth' -> SUBSET Handles']
  BY <1>2, <1>3, ReachGrows
<1>5. queue' \subseteq (0 .. depth) \X (0 .. codepth') \X Handles'
  <2>1. queue \subseteq (0 .. depth) \X (0 .. codepth) \X Handles
    BY DEF TypeOK
  <2>2. /\ <<Level(po) - 1, Colevel(po) + 1, NextHandle>> \in (0 .. depth) \X (0 .. codepth') \X Handles'
        /\ po \in (0 .. depth) \X (0 .. codepth') \X Handles'
    BY <1>1, <1>4
  <2>3. (0 .. depth) \X (0 .. codepth) \X Handles \subseteq (0 .. depth) \X (0 .. codepth') \X Handles'
    BY <1>1, <1>4
  <2> QED
    BY <1>2, <2>1, <2>2, <2>3
<1>6. level' \in 0 .. codepth'
  BY <1>1, <1>4 DEF TypeOK, scan, Working
<1> QED
  BY <1>2, <1>4, <1>5, <1>6 DEF TypeOK, Entry, input, trace, scan, verdict, Handles

\* A blocked obligation may be pushed again, one level up.
LEMMA BlockObligationType ==
    ASSUME TypeOK, pc \in Working, NEW c \in Cubes,
           NEW sv \in [clauses : SUBSET ((0 .. depth) \X Cubes), queries : Nat],
           BlockObligation(sv, c), UNCHANGED <<input, phase, depth, cotrace, model, scan, verdict>>,
           cand' \in Cubes, lits' \in Cubes
    PROVE  TypeOK'
<1>1. /\ depth \in Nat /\ codepth \in Nat
      /\ Level(po) \in 1 .. depth /\ Colevel(po) \in 0 .. codepth /\ Handle(po) \in Handles
  BY WorkingType
<1>2. /\ blocked' \in [0 .. depth -> SUBSET Cubes]
      /\ solver' \in [clauses : SUBSET ((0 .. depth) \X Cubes), queries : Nat]
  BY <1>1, BlockingType DEF BlockObligation
<1>3. queue' \subseteq (0 .. depth) \X (0 .. codepth) \X Handles
  BY <1>1 DEF TypeOK, BlockObligation, Obligation
<1>4. pc' = "solve"
  BY DEF BlockObligation
<1> QED
  BY <1>2, <1>3, <1>4 DEF TypeOK, input, cotrace, scan, verdict, Handles, Working

\* The variables have their types at first.
LEMMA InitType == Init => TypeInv
<1> SUFFICES ASSUME Init PROVE TypeInv
  OBVIOUS
<1>1. /\ depth \in Nat /\ blocked \in [0 .. depth -> SUBSET Cubes]
      /\ codepth \in Nat /\ reaching \in [0 .. codepth -> SUBSET Handles]
      /\ pool \in Seq([state : Cubes, input : Inputs, succ : Nat])
  BY DEF Init
<1>2. cand \in Cubes /\ lits \in Cubes /\ cubes \subseteq Cubes
  BY DEF Init, Cubes
<1> QED
  BY <1>1, <1>2 DEF Init, TypeInv, TypeOK

\* Every step keeps the types.
LEMMA TypeStep == ASSUME TypeInv, [Next]_vars PROVE TypeInv'
<1> DEFINE Solvers == [clauses : SUBSET ((0 .. depth) \X Cubes), queries : Nat]
<1>1. TypeOK /\ depth \in Nat /\ codepth \in Nat /\ (pc # "done" => result = "none")
  BY DEF TypeInv, TypeOK
<1>2. WithSolver \in Solvers /\ solver \in Solvers
  BY <1>1, WithSolverType DEF TypeOK
<1>3. CASE ScanCube
  BY <1>1, <1>3 DEF ScanCube, TypeInv, TypeOK, Obligation, Handles, input, trace, cotrace, generalization, verdict
<1>4. CASE ScanNext
  BY <1>1, <1>4 DEF ScanNext, TypeInv, TypeOK, Handles, input, trace, cotrace, generalization, verdict
<1>5. CASE ScanDone
  BY <1>1, <1>5 DEF ScanDone, TypeInv, TypeOK, Handles, input, trace, cotrace, generalization, scan, verdict
<1>6. CASE NewErrorState
  <2>1. PICK s \in States, in \in Inputs : Reach(CubeOf(s), in, 0, 0)
    BY <1>6 DEF NewErrorState, NoSuccessor
  <2>2. CubeOf(s) \in Cubes /\ 0 \in Nat /\ 0 \in 0 .. codepth + 1
    BY <1>1, CubeOfState
  <2>3. /\ pool' \in Seq(Entry)
        /\ Handles' = Handles \cup {NextHandle}
        /\ codepth' \in Nat /\ codepth <= codepth'
        /\ reaching' \in [0 .. codepth' -> SUBSET Handles']
    BY <1>1, <2>1, <2>2, ReachGrows
  <2>4. queue' \subseteq (0 .. depth) \X (0 .. codepth') \X Handles'
    BY <1>1, <1>6, <2>3 DEF NewErrorState, Obligation
  <2>5. /\ UNCHANGED <<input, trace, po, generalization, scan, verdict>>
        /\ pc = "error" /\ pc' = "solve" /\ phase' = "error" /\ solver' = WithSolver
    BY <1>6 DEF NewErrorState
  <2>6. handles' \subseteq Handles' /\ level' \in 0 .. codepth'
    BY <1>1, <2>3, <2>5 DEF TypeOK, scan
  <2>7. TypeOK'
    BY <1>1, <1>2, <2>3, <2>4, <2>5, <2>6 DEF TypeOK, Entry, input, trace, generalization, scan, verdict
  <2> QED
    BY <1>1, <2>5, <2>7 DEF TypeInv, verdict
<1>7. CASE NoErrorState
  <2>1. /\ UNCHANGED <<input, phase, cotrace, queue, po, generalization, handles, verdict>>
        /\ depth' = depth + 1 /\ level' = 1 /\ pc' = "propagate" /\ pc = "error" /\ pushed' = TRUE
        /\ blocked' = [d \in 0 .. depth + 1 |-> IF d <= depth THEN blocked[d] ELSE {}]
        /\ cubes' = blocked'[1] /\ solver' = WithSolver
    BY <1>7 DEF NoErrorState
  <2>2. blocked' \in [0 .. depth' -> SUBSET Cubes]
    BY <1>1, <2>1 DEF TypeOK
  <2>3. cubes' \subseteq Cubes /\ level' \in 1 .. depth'
    BY <1>1, <2>1, <2>2
  <2>4. solver' \in [clauses : SUBSET ((0 .. depth') \X Cubes), queries : Nat]
    BY <1>1, <1>2, <2>1
  <2>5. queue' \subseteq (0 .. depth') \X (0 .. codepth') \X Handles'
    BY <1>1, <2>1 DEF TypeOK, cotrace, Handles
  <2> QED
    BY <1>1, <2>1, <2>2, <2>3, <2>4, <2>5 DEF TypeInv, TypeOK, Handles, input, cotrace, generalization, verdict
<1>8. CASE FoundCounterexample
  BY <1>1, <1>8 DEF FoundCounterexample, TypeInv, TypeOK, Handles, input, trace, cotrace, generalization, scan
<1>9. CASE SkipSubsumed
  BY <1>1, <1>9 DEF SkipSubsumed, TypeInv, TypeOK, Handles, input, trace, cotrace, generalization, scan, verdict
<1>10. CASE PopObligation
  <2>1. PICK o \in queue : /\ Level(o) > 0 /\ queue' = queue \ {o}
                           /\ (po' = o /\ pc' = "query") \/ UNCHANGED <<po, pc>>
    BY <1>10 DEF PopObligation
  <2>2. o \in (1 .. depth) \X (0 .. codepth) \X Handles
    BY <1>1, <2>1 DEF TypeOK, Level
  <2> QED
    BY <1>1, <1>2, <1>10, <2>1, <2>2 DEF PopObligation, TypeInv, TypeOK, Handles, input, trace, cotrace, generalization, scan, verdict
<1>11. CASE AllBlocked
  BY <1>1, <1>11 DEF AllBlocked, TypeInv, TypeOK, Handles, input, trace, cotrace, generalization, scan, verdict
<1>12. CASE WholePredecessor
  <2>1. PICK s \in States, in \in Inputs : PushPredecessor(CubeOf(s), in)
    BY <1>12 DEF WholePredecessor
  <2>2. /\ pc \in Working /\ UNCHANGED <<input, phase, trace, scan, verdict>> /\ solver' = WithSolver
        /\ cand' = cand /\ lits' = lits /\ CubeOf(s) \in Cubes /\ pc # "done"
    BY <1>12, CubeOfState DEF WholePredecessor, Working, generalization
  <2>3. TypeOK'
    BY <1>1, <1>2, <2>1, <2>2, PushPredecessorType DEF TypeOK
  <2> QED
    BY <1>1, <2>1, <2>2, <2>3 DEF PushPredecessor, TypeInv, verdict
<1>13. CASE FoundPredecessor
  BY <1>1, <1>2, <1>13 DEF FoundPredecessor, TypeInv, TypeOK, Handles, input, trace, cotrace, scan, verdict
<1>14. CASE GeneralizePredecessor
  <2>1. /\ pc \in Working /\ UNCHANGED <<input, phase, trace, scan, verdict>> /\ solver' = WithSolver
        /\ pc = "generalize" /\ model \in [state : States, input : Inputs] /\ opts.forward
    BY <1>14 DEF GeneralizePredecessor, Working, TypeInv
  <2>2. PICK core \in SUBSET CubeOf(model.state) :
            IF opts.mucPredecessor
            THEN cand' = core /\ lits' = core /\ pc' = "shrinkpred" /\ UNCHANGED <<cotrace, queue, po, model>>
            ELSE PushPredecessor(core, model.input) /\ UNCHANGED <<cand, lits>>
    BY <1>14 DEF GeneralizePredecessor
  <2>3. core \in Cubes /\ model.input \in Inputs
    BY <2>1, CubeOfState DEF Cubes
  <2>4. CASE opts.mucPredecessor
    BY <1>1, <1>2, <2>1, <2>2, <2>3, <2>4 DEF TypeInv, TypeOK, Handles, input, trace, cotrace, scan, verdict
  <2>5. CASE ~opts.mucPredecessor
    <3>1. TypeOK'
      BY <1>1, <1>2, <2>1, <2>2, <2>3, <2>5, PushPredecessorType DEF TypeOK
    <3> QED
      BY <1>1, <2>1, <2>2, <2>5, <3>1 DEF PushPredecessor, TypeInv, verdict
  <2> QED
    BY <2>4, <2>5
<1>15. CASE NoPredecessor
  <2>1. /\ pc \in Working /\ UNCHANGED <<input, phase, depth, cotrace, model, scan, verdict>> /\ pc = "query"
    BY <1>15 DEF NoPredecessor, Working
  <2>2. PICK core \in SUBSET StateVars(po) :
            IF opts.mucBlocked
            THEN /\ cand' = core /\ lits' = core /\ solver' = WithSolver /\ pc' = "shrinkblocked"
                 /\ UNCHANGED <<blocked, queue, po>>
            ELSE BlockObligation(WithSolver, core) /\ UNCHANGED <<cand, lits>>
    BY <1>15 DEF NoPredecessor
  <2>3. core \in Cubes
    BY <1>1, <2>1, WorkingType DEF Cubes
  <2>4. CASE opts.mucBlocked
    BY <1>1, <1>2, <2>1, <2>2, <2>3, <2>4 DEF TypeInv, TypeOK, Handles, input, cotrace, scan, verdict
  <2>5. CASE ~opts.mucBlocked
    <3>1. TypeOK'
      BY <1>1, <1>2, <2>1, <2>2, <2>3, <2>5, BlockObligationType DEF TypeOK
    <3> QED
      BY <1>1, <2>1, <2>2, <2>5, <3>1 DEF BlockObligation, TypeInv, verdict
  <2> QED
    BY <2>4, <2>5
<1>16. CASE ShrinkPredecessor
  <2>1. cand' \in Cubes /\ lits' \in Cubes
    BY <1>1, <1>16 DEF ShrinkPredecessor, Shrunk, TypeOK, Cubes
  <2> QED
    BY <1>1, <1>2, <1>16, <2>1 DEF ShrinkPredecessor, TypeInv, TypeOK, Handles, input, trace, cotrace, scan, verdict
<1>17. CASE MinimalPredecessor
  <2>1. /\ pc \in Working /\ UNCHANGED <<input, phase, trace, scan, verdict>> /\ UNCHANGED <<solver, lits>>
        /\ pc = "shrinkpred" /\ model \in [state : States, input : Inputs]
        /\ PushPredecessor(cand, model.input) /\ cand' = {}
    BY <1>17 DEF MinimalPredecessor, Working, TypeInv
  <2>2. cand \in Cubes /\ cand' \in Cubes /\ lits' \in Cubes /\ model.input \in Inputs
    BY <1>1, <2>1 DEF TypeOK, Cubes
  <2>3. TypeOK'
    BY <1>1, <1>2, <2>1, <2>2, PushPredecessorType
  <2> QED
    BY <1>1, <2>1, <2>3 DEF PushPredecessor, TypeInv, verdict
<1>18. CASE ShrinkBlocked
  <2>1. cand' \in Cubes /\ lits' \in Cubes
    BY <1>1, <1>18 DEF ShrinkBlocked, Shrunk, TypeOK, Cubes
  <2> QED
    BY <1>1, <1>2, <1>18, <2>1 DEF ShrinkBlocked, TypeInv, TypeOK, Handles, input, trace, cotrace, scan, verdict
<1>19. CASE MinimalBlocked
  <2>1. /\ pc \in Working /\ UNCHANGED <<input, phase, depth, cotrace, model, scan, verdict>> /\ lits' = lits
        /\ pc = "shrinkblocked" /\ BlockObligation(solver, cand) /\ cand' = {}
    BY <1>19 DEF MinimalBlocked, Working
  <2>2. cand \in Cubes /\ cand' \in Cubes /\ lits' \in Cubes
    BY <1>1, <2>1 DEF TypeOK, Cubes
  <2>3. TypeOK'
    BY <1>1, <1>2, <2>1, <2>2, BlockObligationType
  <2> QED
    BY <1>1, <2>1, <2>3 DEF BlockObligation, TypeInv, verdict
<1>20. CASE PropagateCube
  <2>1. /\ UNCHANGED <<input, pc, phase, depth, cotrace, queue, po, generalization, level, handles, verdict>>
        /\ pc = "propagate" /\ level < depth
    BY <1>20 DEF PropagateCube
  <2>2. cubes' \subseteq Cubes /\ pushed' \in BOOLEAN
    BY <1>1, <1>20 DEF PropagateCube, TypeOK
  <2>3. /\ blocked' \in [0 .. depth -> SUBSET Cubes]
        /\ solver' \in Solvers
    <3>1. CASE blocked' = blocked /\ solver' = WithSolver
      BY <1>1, <1>2, <3>1 DEF TypeOK
    <3>2. CASE \E c \in cubes : \E d \in SUBSET c :
                blocked' = BlockedWith(d, level + 1) /\ solver' = AssertedAt(WithSolver, d, level + 1)
      <4>1. PICK c \in cubes : \E d \in SUBSET c :
                blocked' = BlockedWith(d, level + 1) /\ solver' = AssertedAt(WithSolver, d, level + 1)
        BY <3>2
      <4>2. PICK d \in SUBSET c :
                blocked' = BlockedWith(d, level + 1) /\ solver' = AssertedAt(WithSolver, d, level + 1)
        BY <4>1
      <4>3. level + 1 \in 0 .. depth /\ d \in Cubes
        BY <1>1, <2>1 DEF TypeOK, Cubes
      <4> QED
        BY <1>1, <1>2, <4>2, <4>3, BlockingType
    <3> QED
      BY <1>20, <3>1, <3>2 DEF PropagateCube
  <2> QED
    BY <1>1, <2>1, <2>2, <2>3 DEF TypeInv, TypeOK, Handles, input, cotrace, generalization, verdict
<1>21. CASE PropagateNext
  <2>1. /\ UNCHANGED <<input, pc, phase, trace, solver, cotrace, queue, po, generalization, handles, verdict>>
        /\ pc = "propagate" /\ level < depth /\ level' = level + 1 /\ pushed' = TRUE
        /\ cubes' = IF level + 1 < depth THEN blocked[level + 1] ELSE {}
    BY <1>21 DEF PropagateNext
  <2>2. level' \in 1 .. depth /\ cubes' \subseteq Cubes
    BY <1>1, <2>1 DEF TypeOK
  <2>3. TypeOK'
    BY <1>1, <2>1, <2>2 DEF TypeOK, Handles, input, trace, cotrace, generalization, verdict
  <2> QED
    BY <1>1, <2>1, <2>3 DEF TypeInv, verdict
<1>22. CASE PushedAll
  BY <1>1, <1>22 DEF PushedAll, TypeInv, TypeOK, Handles, input, trace, cotrace, generalization, scan
<1>23. CASE FoundInductive
  BY <1>1, <1>23 DEF FoundInductive, TypeInv, TypeOK, Handles, input, trace, cotrace, generalization, scan
<1>24. CASE NextRound
  <2>1. /\ UNCHANGED <<input, phase, trace, solver, cotrace, queue, po, generalization, verdict>>
        /\ pc = "propagate" /\ pc' = "scan" /\ level' = codepth /\ handles' = reaching[codepth]
        /\ cubes' = {} /\ pushed' = FALSE
    BY <1>24 DEF NextRound
  <2>2. handles' \subseteq Handles /\ level' \in 0 .. codepth
    BY <1>1, <2>1 DEF TypeOK
  <2>3. TypeOK'
    BY <1>1, <2>1, <2>2 DEF TypeOK, Handles, input, trace, cotrace, generalization, verdict
  <2> QED
    BY <1>1, <2>1, <2>3 DEF TypeInv, verdict
<1>25. CASE UNCHANGED vars
  BY <1>1, <1>25 DEF vars, TypeInv, TypeOK, Handles, input, trace, cotrace, generalization, scan, verdict
<1> QED
  BY <1>3, <1>4, <1>5, <1>6, <1>7, <1>8, <1>9, <1>10, <1>11, <1>12, <1>13, <1>14, <1>15, <1>16, <1>17,
     <1>18, <1>19, <1>20, <1>21, <1>22, <1>23, <1>24, <1>25 DEF Next, Returned

\* The variables of the engine keep their types, as the assertions of
\* solve_obligation, add_blocked_at and proof_obligation ask: no obligation is
\* past the last frame or coframe, and no handle is outside the pool.
THEOREM CARTypeCorrect == Spec => []TypeOK
<1>1. TypeInv => TypeOK
  BY DEF TypeInv
<1> QED
  BY <1>1, InitType, TypeStep, PTL DEF Spec, SafetySpec

-----------------------------------------------------------------------------
(* The frames.                                                             *)

\* What the trace says about the frame i: the valuation satisfies it.
FrameModel(i, s, in) ==
    /\ i = 0 => IsInitial(s, in)
    /\ \A c \in blocked[i] : ~Holds(c, s)

\* And about the query of has_predecessor.
TraceModel(i, c, s, in) ==
    /\ FrameModel(i - 1, s, in)
    /\ \E t \in Successors(s, in) :
        /\ Holds(c, t)
        /\ ~opts.forward /\ i = 1 => SharedGates(system, s, in) = SharedGates(system, t, in)

\* The query for predecessors of the cube c of frame i is unsatisfiable.
Unreached(c, i) == ~\E s \in States, in \in Inputs : TraceModel(i, c, s, in)

\* The solver sv has the clause of every cube of the trace, and each of its
\* clauses is subsumed by a cube that the trace still has at the same level.
Matches(sv) ==
    /\ sv \in [clauses : SUBSET ((0 .. depth) \X Cubes), queries : Nat]
    /\ \A k \in 0 .. depth : \A c \in blocked[k] : <<k, c>> \in sv.clauses
    /\ \A cl \in sv.clauses : \E c \in blocked[cl[1]] : Subsumes(c, cl[2])

\* No query finds a predecessor of a blocked cube any more.
BlockedHaveNoPredecessor == \A k \in 1 .. depth : \A c \in blocked[k] : Unreached(c, k)

TraceInv ==
    /\ Matches(solver)
    /\ blocked[0] = {}
    /\ BlockedHaveNoPredecessor
    /\ FramesBelowLastAreSafe

\* The candidate of generalize_blocked can be blocked; the cubes that propagate
\* has visited so far were pushed, unless pushed_all says otherwise.
CandidateInv ==
    /\ pc = "shrinkblocked" => Unreached(cand, Level(po))
    /\ pc = "propagate" /\ level < depth /\ pushed =>
            \A c \in blocked[level] : c \in cubes \/ \E d \in blocked[level + 1] : Subsumes(d, c)

FrameInv == TraceInv /\ CandidateInv

\* What a solver that matches the trace knows of a frame.
LEMMA FrameInSolver ==
    ASSUME NEW sv, Matches(sv), depth \in Nat, NEW i \in 0 .. depth, NEW s, NEW in
    PROVE  InFrame(sv, i, s, in) <=> FrameModel(i, s, in)
<1>1. ASSUME InFrame(sv, i, s, in), NEW c \in blocked[i] PROVE ~Holds(c, s)
  <2>1. <<i, c>> \in sv.clauses
    BY DEF Matches
  <2> QED
    BY <1>1, <2>1 DEF InFrame
<1>2. ASSUME FrameModel(i, s, in), NEW cl \in sv.clauses, cl[1] = i PROVE ~Holds(cl[2], s)
  <2>1. PICK c \in blocked[i] : Subsumes(c, cl[2])
    BY <1>2 DEF Matches
  <2> QED
    BY <1>2, <2>1, SubsumesHolds DEF FrameModel
<1> QED
  BY <1>1, <1>2 DEF InFrame, FrameModel

\* What it answers to the query of has_predecessor.
LEMMA QueryIsExact ==
    ASSUME NEW sv, Matches(sv), depth \in Nat, NEW i \in 1 .. depth, NEW c
    PROVE  /\ \A s, in : StepModel(sv, i, c, s, in) <=> TraceModel(i, c, s, in)
           /\ HasPredecessor(sv, c, i) <=> ~Unreached(c, i)
<1>1. i - 1 \in 0 .. depth
  OBVIOUS
<1>2. \A s, in : InFrame(sv, i - 1, s, in) <=> FrameModel(i - 1, s, in)
  BY <1>1, FrameInSolver
<1>3. \A s, in : StepModel(sv, i, c, s, in) <=> TraceModel(i, c, s, in)
  BY <1>2 DEF StepModel, TraceModel
<1> QED
  BY <1>3 DEF HasPredecessor, Unreached

\* with_solver returns a solver that matches the trace, whether it refreshed it
\* or not.
LEMMA WithSolverMatches ==
    ASSUME TypeOK, Matches(solver)
    PROVE  Matches(WithSolver)
<1> DEFINE cls == UNION {{<<k, c>> : c \in blocked[k]} : k \in 0 .. depth}
<1>1. depth \in Nat /\ blocked \in [0 .. depth -> SUBSET Cubes]
  BY DEF TypeOK
<1>2. \A k \in 0 .. depth : \A c \in blocked[k] : <<k, c>> \in cls
  OBVIOUS
<1>3. ASSUME NEW cl \in cls PROVE \E c \in blocked[cl[1]] : Subsumes(c, cl[2])
  <2>1. PICK k \in 0 .. depth : \E c \in blocked[k] : cl = <<k, c>>
    OBVIOUS
  <2>2. PICK c \in blocked[k] : cl = <<k, c>>
    BY <2>1
  <2> QED
    BY <2>1, <2>2 DEF Subsumes
<1>4. RefreshedSolver.clauses = cls
  BY DEF RefreshedSolver
<1> HIDE DEF cls
<1>5. WithSolver.clauses \in {cls, solver.clauses}
  BY <1>4 DEF WithSolver
<1>6. WithSolver \in [clauses : SUBSET ((0 .. depth) \X Cubes), queries : Nat]
  BY WithSolverType
<1> QED
  BY <1>2, <1>3, <1>5, <1>6 DEF Matches

\* add_blocked_at: the frame of the level loses the states of the cube and the
\* other frames stay, whatever was dropped as subsumed.
LEMMA BlockedFrames ==
    ASSUME TypeOK, NEW c \in Cubes, NEW lvl \in 1 .. depth,
           blocked' = BlockedWith(c, lvl), UNCHANGED <<input, depth>>
    PROVE  /\ \A i \in 0 .. depth : \A s, in :
                FrameModel(i, s, in)' <=> FrameModel(i, s, in) /\ (i = lvl => ~Holds(c, s))
           /\ \A i \in 0 .. depth : i # lvl => blocked'[i] = blocked[i]
           /\ c \in blocked'[lvl]
           /\ \A d \in blocked'[lvl] : d = c \/ d \in blocked[lvl]
           /\ \A d \in blocked[lvl] : d \in blocked'[lvl] \/ Subsumes(c, d)
<1>1. depth \in Nat /\ blocked \in [0 .. depth -> SUBSET Cubes]
  BY DEF TypeOK
<1>2. /\ \A i \in 0 .. depth : i # lvl => blocked'[i] = blocked[i]
      /\ blocked'[lvl] = {d \in blocked[lvl] : ~Subsumes(c, d)} \cup {c}
  BY <1>1 DEF BlockedWith
<1>3. \A s, in : IsInitial(s, in)' <=> IsInitial(s, in)
  BY DEF IsInitial, input
<1>4. ASSUME NEW s
      PROVE  (\A d \in blocked'[lvl] : ~Holds(d, s)) <=> (\A d \in blocked[lvl] : ~Holds(d, s)) /\ ~Holds(c, s)
  BY <1>2, SubsumesHolds
<1>5. ASSUME NEW i \in 0 .. depth, NEW s, NEW in
      PROVE  FrameModel(i, s, in)' <=> FrameModel(i, s, in) /\ (i = lvl => ~Holds(c, s))
  <2>1. FrameModel(i, s, in)' <=> (i = 0 => IsInitial(s, in)) /\ \A d \in blocked'[i] : ~Holds(d, s)
    BY <1>3 DEF FrameModel
  <2> QED
    BY <1>2, <1>4, <2>1 DEF FrameModel
<1> QED
  BY <1>2, <1>5

\* Frames that lose states have fewer predecessors in them.
LEMMA UnreachedKept ==
    ASSUME UNCHANGED input, NEW d, NEW k \in 1 .. depth, Unreached(d, k), depth \in Nat,
           \A s, in : FrameModel(k - 1, s, in)' => FrameModel(k - 1, s, in)
    PROVE  Unreached(d, k)'
BY DEF Unreached, TraceModel, Successors, input

\* A frame is empty of what it does not contain.
LEMMA SafeKept ==
    ASSUME UNCHANGED input, FramesBelowLastAreSafe, depth \in Nat, depth' = depth,
           \A i \in 0 .. depth : \A s, in : FrameModel(i, s, in)' => FrameModel(i, s, in)
    PROVE  FramesBelowLastAreSafe'
<1>1. \A s, in : IsError(s, in)' <=> IsError(s, in)
  BY DEF IsError, input
<1>2. ASSUME NEW i \in 0 .. depth - 1, NEW s \in R(i)' PROVE s \in R(i)
  <2>1. /\ s \in States
        /\ \A c \in blocked'[i] : ~Holds(c, s)
        /\ i = 0 => \E in \in Inputs : IsInitial(s, in)'
    BY DEF R
  <2>2. CASE i = 0
    <3>1. PICK in \in Inputs : IsInitial(s, in)'
      BY <2>1, <2>2
    <3>2. FrameModel(i, s, in)
      BY <2>1, <3>1 DEF FrameModel
    <3> QED
      BY <2>1, <3>2 DEF FrameModel, R
  <2>3. CASE i # 0
    <3>1. FrameModel(i, s, 0)
      BY <2>1, <2>3 DEF FrameModel
    <3> QED
      BY <2>1, <2>3, <3>1 DEF FrameModel, R
  <2> QED
    BY <2>2, <2>3
<1> QED
  BY <1>1, <1>2 DEF FramesBelowLastAreSafe

\* Blocking a cube without predecessors keeps the trace a trace, and the solver
\* sv that got its clause matches it.
LEMMA BlockingKeepsTrace ==
    ASSUME TypeOK, TraceInv, NEW c \in Cubes, NEW lvl \in 1 .. depth, Unreached(c, lvl),
           blocked' = BlockedWith(c, lvl), UNCHANGED <<input, depth>>,
           NEW sv, Matches(sv), solver' = AssertedAt(sv, c, lvl)
    PROVE  TraceInv'
<1>1. depth \in Nat /\ blocked \in [0 .. depth -> SUBSET Cubes]
  BY DEF TypeOK
<1>2. \A i \in 0 .. depth : \A s, in :
        FrameModel(i, s, in)' <=> FrameModel(i, s, in) /\ (i = lvl => ~Holds(c, s))
  BY BlockedFrames
<1>3. /\ \A i \in 0 .. depth : i # lvl => blocked'[i] = blocked[i]
      /\ c \in blocked'[lvl]
      /\ \A d \in blocked'[lvl] : d = c \/ d \in blocked[lvl]
      /\ \A d \in blocked[lvl] : d \in blocked'[lvl] \/ Subsumes(c, d)
  BY BlockedFrames
<1>4. Matches(solver)'
  <2>1. solver' \in [clauses : SUBSET ((0 .. depth) \X Cubes), queries : Nat]
    BY <1>1, BlockingType DEF Matches
  <2>2. solver'.clauses = sv.clauses \cup {<<lvl, c>>}
    BY DEF AssertedAt
  <2>3. ASSUME NEW k \in 0 .. depth, NEW d \in blocked'[k] PROVE <<k, d>> \in solver'.clauses
    <3>1. d \in blocked[k] \/ (k = lvl /\ d = c)
      BY <1>3
    <3> QED
      BY <2>2, <3>1 DEF Matches
  <2>4. ASSUME NEW cl \in solver'.clauses PROVE \E d \in blocked'[cl[1]] : Subsumes(d, cl[2])
    <3>1. CASE cl = <<lvl, c>>
      BY <1>3, <3>1 DEF Subsumes
    <3>2. CASE cl \in sv.clauses
      <4>1. PICK d \in blocked[cl[1]] : Subsumes(d, cl[2])
        BY <3>2 DEF Matches
      <4>2. cl[1] \in 0 .. depth
        BY <3>2 DEF Matches
      <4>3. d \in blocked'[cl[1]] \/ (cl[1] = lvl /\ Subsumes(c, d))
        BY <1>3, <4>1, <4>2
      <4>4. Subsumes(c, d) => Subsumes(c, cl[2])
        BY <4>1 DEF Subsumes
      <4> QED
        BY <1>3, <4>1, <4>3, <4>4
    <3> QED
      BY <2>2, <3>1, <3>2
  <2> QED
    BY <2>1, <2>3, <2>4 DEF Matches
<1>5. blocked'[0] = {}
  BY <1>1, <1>3 DEF TraceInv
<1>6. BlockedHaveNoPredecessor'
  <2>1. ASSUME NEW k \in 1 .. depth, NEW d \in blocked'[k] PROVE Unreached(d, k)'
    <3>1. Unreached(d, k)
      BY <1>3 DEF TraceInv, BlockedHaveNoPredecessor
    <3>2. \A s, in : FrameModel(k - 1, s, in)' => FrameModel(k - 1, s, in)
      BY <1>1, <1>2
    <3> QED
      BY <1>1, <3>1, <3>2, UnreachedKept
  <2> QED
    BY <2>1 DEF BlockedHaveNoPredecessor
<1>7. FramesBelowLastAreSafe'
  BY <1>1, <1>2, SafeKept DEF TraceInv
<1> QED
  BY <1>4, <1>5, <1>6, <1>7 DEF TraceInv

\* A query leaves a solver that matches the trace.
LEMMA QuietKeepsTrace ==
    ASSUME TypeOK, TraceInv, UNCHANGED <<input, trace>>, solver' \in {solver, WithSolver}
    PROVE  /\ TraceInv'
           /\ \A c, i : Unreached(c, i)' <=> Unreached(c, i)
<1>1. Matches(solver) /\ Matches(WithSolver)
  BY WithSolverMatches DEF TraceInv
<1>2. Matches(solver)'
  BY <1>1 DEF Matches, trace
<1>3. \A c, i : Unreached(c, i)' <=> Unreached(c, i)
  BY DEF Unreached, TraceModel, FrameModel, IsInitial, Successors, input, trace
<1>4. BlockedHaveNoPredecessor'
  BY <1>3 DEF TraceInv, BlockedHaveNoPredecessor, trace
<1>5. \A i, s, in : FrameModel(i, s, in)' => FrameModel(i, s, in)
  BY DEF FrameModel, IsInitial, input, trace
<1>6. FramesBelowLastAreSafe'
  BY <1>5, SafeKept DEF TraceInv, TypeOK, trace
<1> QED
  BY <1>2, <1>3, <1>4, <1>6 DEF TraceInv, trace

\* push_frame: the new frame is not constrained, and the query for error states
\* had no model in the one that was last.
LEMMA NoErrorStateTrace ==
    ASSUME TypeOK, TraceInv, NoErrorState
    PROVE  TraceInv'
<1>1. depth \in Nat /\ blocked \in [0 .. depth -> SUBSET Cubes]
  BY DEF TypeOK
<1>2. /\ UNCHANGED input /\ depth' = depth + 1 /\ solver' = WithSolver
      /\ blocked' = [d \in 0 .. depth + 1 |-> IF d <= depth THEN blocked[d] ELSE {}]
      /\ ~\E s \in States, in \in Inputs : InFrame(WithSolver, depth, s, in) /\ IsError(s, in)
  BY DEF NoErrorState
<1>3. (\A k \in 0 .. depth : blocked'[k] = blocked[k]) /\ blocked'[depth + 1] = {}
  BY <1>1, <1>2
<1>4. Matches(WithSolver)
  BY WithSolverMatches DEF TraceInv
<1>5. Matches(solver)'
  <2>1. solver' \in [clauses : SUBSET ((0 .. depth') \X Cubes), queries : Nat]
    BY <1>1, <1>2, <1>4 DEF Matches
  <2>2. ASSUME NEW k \in 0 .. depth', NEW d \in blocked'[k] PROVE <<k, d>> \in solver'.clauses
    <3>1. k \in 0 .. depth /\ d \in blocked[k]
      BY <1>1, <1>2, <1>3
    <3> QED
      BY <1>2, <1>4, <3>1 DEF Matches
  <2>3. ASSUME NEW cl \in solver'.clauses PROVE \E d \in blocked'[cl[1]] : Subsumes(d, cl[2])
    <3>1. cl[1] \in 0 .. depth /\ \E d \in blocked[cl[1]] : Subsumes(d, cl[2])
      BY <1>2, <1>4 DEF Matches
    <3> QED
      BY <1>3, <3>1
  <2> QED
    BY <2>1, <2>2, <2>3 DEF Matches
<1>6. \A i \in 0 .. depth : \A s, in : FrameModel(i, s, in)' <=> FrameModel(i, s, in)
  BY <1>2, <1>3 DEF FrameModel, IsInitial, input
<1>7. BlockedHaveNoPredecessor'
  <2>1. ASSUME NEW k \in 1 .. depth', NEW d \in blocked'[k] PROVE Unreached(d, k)'
    <3>1. k \in 1 .. depth /\ d \in blocked[k]
      BY <1>1, <1>2, <1>3
    <3>2. Unreached(d, k)
      BY <3>1 DEF TraceInv, BlockedHaveNoPredecessor
    <3>3. k - 1 \in 0 .. depth
      BY <1>1, <3>1
    <3>4. \A s, in : FrameModel(k - 1, s, in)' => FrameModel(k - 1, s, in)
      BY <1>6, <3>3
    <3> QED
      BY <1>1, <1>2, <3>1, <3>2, <3>4, UnreachedKept
  <2> QED
    BY <2>1 DEF BlockedHaveNoPredecessor
<1>8. FramesBelowLastAreSafe'
  <2> SUFFICES ASSUME NEW i \in 0 .. depth' - 1, NEW s \in R(i)', NEW in \in Inputs
               PROVE  ~IsError(s, in)'
    BY DEF FramesBelowLastAreSafe
  <2>1. i \in 0 .. depth
    BY <1>1, <1>2
  <2>2. IsError(s, in)' <=> IsError(s, in)
    BY <1>2 DEF IsError, input
  <2>3. s \in R(i)
    BY <1>2, <1>3, <2>1 DEF R, IsInitial, input
  <2>4. CASE i < depth
    <3>1. i \in 0 .. depth - 1
      BY <1>1, <2>1, <2>4
    <3> QED
      BY <2>2, <2>3, <3>1 DEF TraceInv, FramesBelowLastAreSafe
  <2>5. CASE i = depth
    <3>1. \A jn \in Inputs : FrameModel(depth, s, jn) => ~IsError(s, jn)
      <4>1. \A jn : InFrame(WithSolver, depth, s, jn) <=> FrameModel(depth, s, jn)
        BY <1>1, <1>4, <2>1, <2>5, FrameInSolver
      <4> QED
        BY <1>2, <2>3, <4>1 DEF R
    <3>2. PICK jn \in Inputs : FrameModel(depth, s, jn) /\ (opts.forward => jn = in)
      BY <2>3, <2>5 DEF R, FrameModel, IsInitial
    <3>3. ~IsError(s, jn)
      BY <3>1, <3>2
    <3> QED
      BY <2>2, <3>2, <3>3 DEF IsError
  <2> QED
    BY <1>1, <2>1, <2>4, <2>5
<1> QED
  BY <1>1, <1>3, <1>5, <1>7, <1>8 DEF TraceInv

\* The candidate of get_minimal_core never grows and stays unsatisfiable.
LEMMA ShrunkIsCore ==
    ASSUME NEW l, NEW unsat, cand \in unsat, NEW d \in Shrunk(l, unsat)
    PROVE  d \in unsat /\ d \subseteq cand
BY DEF Shrunk

\* The actions that neither block a cube nor push a frame.
Quiet == UNCHANGED <<input, trace>> /\ solver' \in {solver, WithSolver}

\* A step is quiet, or it pushes a frame, or it blocks a cube without
\* predecessors at the level of an obligation or of propagate.
Blocks(c, lvl) ==
    /\ blocked' = BlockedWith(c, lvl)
    /\ UNCHANGED <<input, depth>>
    /\ solver' \in {AssertedAt(WithSolver, c, lvl), AssertedAt(solver, c, lvl)}

\* A step leaves the frames alone, adds a frame, or blocks a cube that cannot be
\* reached.
LEMMA StepKinds ==
    ASSUME TypeInv, FrameInv, [Next]_vars
    PROVE  \/ Quiet
           \/ NoErrorState
           \/ \E c \in Cubes, lvl \in 1 .. depth : Unreached(c, lvl) /\ Blocks(c, lvl)
<1>1. TypeOK /\ depth \in Nat /\ Matches(WithSolver)
  BY WithSolverMatches DEF TypeInv, TypeOK, FrameInv, TraceInv
<1>2. CASE NoPredecessor /\ ~opts.mucBlocked
  <2>1. PICK core \in SUBSET StateVars(po) :
            ~HasPredecessor(WithSolver, core, Level(po)) /\ BlockObligation(WithSolver, core)
    BY <1>2 DEF NoPredecessor
  <2>2. pc \in Working /\ UNCHANGED <<input, depth>>
    BY <1>2 DEF NoPredecessor, Working
  <2>3. Level(po) \in 1 .. depth /\ core \in Cubes
    BY <1>1, <2>2, WorkingType DEF Cubes
  <2>4. Unreached(core, Level(po))
    BY <1>1, <2>1, <2>3, QueryIsExact
  <2> QED
    BY <2>1, <2>2, <2>3, <2>4 DEF BlockObligation, Blocks
<1>3. CASE MinimalBlocked
  <2>1. BlockObligation(solver, cand) /\ UNCHANGED <<input, depth>> /\ pc = "shrinkblocked"
    BY <1>3 DEF MinimalBlocked
  <2>2. Level(po) \in 1 .. depth /\ cand \in Cubes /\ Unreached(cand, Level(po))
    BY <1>1, <2>1, WorkingType DEF Working, TypeOK, FrameInv, CandidateInv
  <2> QED
    BY <2>1, <2>2 DEF BlockObligation, Blocks
<1>4. CASE PropagateCube
  <2>1. UNCHANGED <<input, depth>> /\ level + 1 \in 1 .. depth
    BY <1>1, <1>4 DEF PropagateCube, TypeOK
  <2>2. CASE UNCHANGED blocked /\ solver' = WithSolver
    BY <2>1, <2>2 DEF Quiet, trace
  <2>3. CASE \E c \in cubes : \E d \in SUBSET c :
                /\ ~HasPredecessor(WithSolver, d, level + 1)
                /\ blocked' = BlockedWith(d, level + 1)
                /\ solver' = AssertedAt(WithSolver, d, level + 1)
    <3>1. PICK c \in cubes : \E d \in SUBSET c :
                /\ ~HasPredecessor(WithSolver, d, level + 1)
                /\ blocked' = BlockedWith(d, level + 1)
                /\ solver' = AssertedAt(WithSolver, d, level + 1)
      BY <2>3
    <3>2. PICK d \in SUBSET c :
                /\ ~HasPredecessor(WithSolver, d, level + 1)
                /\ blocked' = BlockedWith(d, level + 1)
                /\ solver' = AssertedAt(WithSolver, d, level + 1)
      BY <3>1
    <3>3. d \in Cubes
      BY <1>1 DEF TypeOK, Cubes
    <3>4. Unreached(d, level + 1)
      BY <1>1, <2>1, <3>2, QueryIsExact
    <3> QED
      BY <2>1, <3>2, <3>3, <3>4 DEF Blocks
  <2> QED
    BY <1>4, <2>2, <2>3 DEF PropagateCube
<1>5. CASE NoPredecessor /\ opts.mucBlocked
  BY <1>5 DEF NoPredecessor, Quiet, trace
<1>6. CASE NewErrorState
  BY <1>6 DEF NewErrorState, Quiet
<1>7. CASE UNCHANGED vars
  BY <1>7 DEF vars, Quiet
<1> QED
  BY <1>2, <1>3, <1>4, <1>5, <1>6, <1>7 DEF Next, Quiet, ScanCube, ScanNext, ScanDone, FoundCounterexample,
     SkipSubsumed, PopObligation, AllBlocked, WholePredecessor, FoundPredecessor, GeneralizePredecessor,
     ShrinkPredecessor, MinimalPredecessor, ShrinkBlocked, PropagateNext, PushedAll, FoundInductive,
     NextRound, Returned

\* Every step keeps the trace a trace.
LEMMA TraceStep == ASSUME TypeInv, FrameInv, [Next]_vars PROVE TraceInv'
<1>1. TypeOK /\ TraceInv /\ Matches(solver) /\ Matches(WithSolver)
  BY WithSolverMatches DEF TypeInv, FrameInv, TraceInv
<1>2. CASE Quiet
  BY <1>1, <1>2, QuietKeepsTrace DEF Quiet
<1>3. CASE NoErrorState
  BY <1>1, <1>3, NoErrorStateTrace
<1>4. CASE \E c \in Cubes, lvl \in 1 .. depth : Unreached(c, lvl) /\ Blocks(c, lvl)
  <2>1. PICK c \in Cubes, lvl \in 1 .. depth : Unreached(c, lvl) /\ Blocks(c, lvl)
    BY <1>4
  <2> QED
    BY <1>1, <2>1, BlockingKeepsTrace DEF Blocks
<1> QED
  BY <1>2, <1>3, <1>4, StepKinds

\* The candidate and the bookkeeping of propagate.
LEMMA CandidateStep == ASSUME TypeInv, FrameInv, [Next]_vars PROVE CandidateInv'
<1>1. TypeOK /\ TraceInv /\ CandidateInv /\ Matches(WithSolver) /\ depth \in Nat
  BY WithSolverMatches DEF TypeInv, TypeOK, FrameInv, TraceInv
<1>2. CASE NoErrorState
  BY <1>1, <1>2 DEF NoErrorState, CandidateInv
<1>3. CASE NoPredecessor
  <2>1. CASE opts.mucBlocked
    <3>1. PICK core \in SUBSET StateVars(po) :
            ~HasPredecessor(WithSolver, core, Level(po)) /\ cand' = core
      BY <1>3, <2>1 DEF NoPredecessor
    <3>2. /\ pc = "query" /\ pc' = "shrinkblocked" /\ UNCHANGED <<input, trace>> /\ po' = po
          /\ solver' = WithSolver
      BY <1>3, <2>1 DEF NoPredecessor, trace
    <3>3. Unreached(core, Level(po))
      BY <1>1, <3>1, <3>2, WorkingType, QueryIsExact DEF Working
    <3>4. Unreached(core, Level(po))'
      BY <1>1, <3>2, <3>3, QuietKeepsTrace DEF Level
    <3> QED
      BY <3>1, <3>2, <3>4 DEF CandidateInv
  <2>2. CASE ~opts.mucBlocked
    BY <1>3, <2>2 DEF NoPredecessor, BlockObligation, CandidateInv
  <2> QED
    BY <2>1, <2>2
<1>4. CASE ShrinkBlocked
  <2>1. /\ pc = "shrinkblocked" /\ pc' = "shrinkblocked" /\ UNCHANGED <<input, trace>> /\ po' = po
        /\ solver' = WithSolver
    BY <1>4 DEF ShrinkBlocked
  <2>2. PICK l \in lits :
            cand' \in Shrunk(l, {c \in SUBSET cand : ~HasPredecessor(WithSolver, c, Level(po))})
    BY <1>4 DEF ShrinkBlocked
  <2>3. \A c : HasPredecessor(WithSolver, c, Level(po)) <=> ~Unreached(c, Level(po))
    BY <1>1, <2>1, WorkingType, QueryIsExact DEF Working
  <2>4. cand \in {c \in SUBSET cand : ~HasPredecessor(WithSolver, c, Level(po))}
    BY <1>1, <2>1, <2>3 DEF CandidateInv
  <2>5. Unreached(cand', Level(po))
    BY <2>2, <2>3, <2>4, ShrunkIsCore
  <2>6. Unreached(cand, Level(po))'
    BY <2>1, <2>5 DEF Unreached, TraceModel, FrameModel, IsInitial, Successors, input, trace, Level
  <2> QED
    BY <2>1, <2>6 DEF CandidateInv
<1>5. CASE PropagateCube
  <2>1. /\ pc = "propagate" /\ pc' = "propagate" /\ UNCHANGED <<input, depth, level>> /\ level < depth
        /\ level \in 1 .. depth
    BY <1>1, <1>5 DEF PropagateCube, TypeOK
  <2> SUFFICES ASSUME pushed' = TRUE, NEW c \in blocked'[level]
               PROVE  c \in cubes' \/ \E d \in blocked'[level + 1] : Subsumes(d, c)
    BY <2>1, TypeStep DEF CandidateInv, TypeInv, TypeOK
  <2>2. PICK e \in cubes : cubes' = cubes \ {e} /\
            \E d \in SUBSET e : blocked' = BlockedWith(d, level + 1)
    BY <1>5, TypeStep DEF PropagateCube, TypeInv, TypeOK
  <2>3. PICK d \in SUBSET e : blocked' = BlockedWith(d, level + 1)
    BY <2>2
  <2>4. d \in Cubes /\ level + 1 \in 1 .. depth /\ level \in 0 .. depth /\ level # level + 1
    BY <1>1, <2>1 DEF TypeOK, Cubes
  <2>5. /\ blocked'[level] = blocked[level]
        /\ d \in blocked'[level + 1]
        /\ \A f \in blocked[level + 1] : f \in blocked'[level + 1] \/ Subsumes(d, f)
    BY <1>1, <2>1, <2>3, <2>4, BlockedFrames
  <2>6. c = e => Subsumes(d, c)
    BY DEF Subsumes
  <2>7. pushed
    BY <1>5 DEF PropagateCube
  <2>8. c \in cubes \/ \E f \in blocked[level + 1] : Subsumes(f, c)
    BY <1>1, <2>1, <2>5, <2>7 DEF CandidateInv
  <2>9. ASSUME NEW f \in blocked[level + 1], Subsumes(f, c)
        PROVE  \E g \in blocked'[level + 1] : Subsumes(g, c)
    BY <2>5, <2>9 DEF Subsumes
  <2> QED
    BY <2>2, <2>5, <2>6, <2>8, <2>9
<1>6. CASE PropagateNext
  BY <1>1, <1>6 DEF PropagateNext, CandidateInv, trace, TypeOK
<1>7. CASE UNCHANGED vars
  BY <1>1, <1>7 DEF vars, CandidateInv, Unreached, TraceModel, FrameModel, IsInitial, Successors, input, trace,
     generalization, scan, Level
<1>8. CASE pc' \notin {"shrinkblocked", "propagate"}
  BY <1>8 DEF CandidateInv
<1>9. CASE SkipSubsumed \/ PopObligation \/ AllBlocked \/ ShrinkPredecessor
  BY <1>1, <1>8, <1>9 DEF SkipSubsumed, PopObligation, AllBlocked, ShrinkPredecessor, TypeOK
<1> QED
  BY <1>2, <1>3, <1>4, <1>5, <1>6, <1>7, <1>8, <1>9 DEF Next, ScanCube, ScanNext, ScanDone, NewErrorState,
     FoundCounterexample, WholePredecessor, FoundPredecessor, GeneralizePredecessor,
     MinimalPredecessor, MinimalBlocked, PushedAll, FoundInductive, NextRound, Returned,
     PushPredecessor, BlockObligation

\* The frames are right at first.
LEMMA InitFrames == Init => FrameInv
<1> SUFFICES ASSUME Init PROVE FrameInv
  OBVIOUS
<1>1. Matches(solver)
  BY DEF Init, Matches
<1>2. blocked[0] = {} /\ BlockedHaveNoPredecessor /\ FramesBelowLastAreSafe
  BY DEF Init, BlockedHaveNoPredecessor, FramesBelowLastAreSafe
<1> QED
  BY <1>1, <1>2 DEF Init, FrameInv, TraceInv, CandidateInv

\* The types and the frames are right in every state.
LEMMA FramesInvariant == Spec => [](TypeInv /\ FrameInv)
<1>1. TypeInv /\ FrameInv /\ [Next]_vars => (TypeInv /\ FrameInv)'
  BY TypeStep, TraceStep, CandidateStep DEF FrameInv
<1> QED
  BY <1>1, InitType, InitFrames, PTL DEF Spec, SafetySpec

\* The incremental solver and the trace never disagree about a frame.
THEOREM CARSolverAgrees == Spec => []SolverMirrorsTrace
<1>1. ASSUME TypeInv, FrameInv PROVE SolverMirrorsTrace
  <2> SUFFICES ASSUME NEW i \in 1 .. depth
               PROVE  R(i) = {s \in States : \A in \in Inputs : InFrame(solver, i, s, in)}
    BY DEF SolverMirrorsTrace
  <2>1. Matches(solver) /\ depth \in Nat /\ i \in 0 .. depth /\ i # 0
    BY <1>1 DEF TypeInv, TypeOK, FrameInv, TraceInv
  <2>2. \A s, in : InFrame(solver, i, s, in) <=> FrameModel(i, s, in)
    BY <2>1, FrameInSolver
  <2>3. \A s, in : FrameModel(i, s, in) <=> \A c \in blocked[i] : ~Holds(c, s)
    BY <2>1 DEF FrameModel
  <2> QED
    BY <2>1, <2>2, <2>3, InputsAssumption DEF R
<1> QED
  BY <1>1, FramesInvariant, PTL

\* check_new_error_states has emptied every frame but the last of error states,
\* and what is blocked or propagated later keeps them so.
THEOREM CARFramesStaySafe == Spec => []FramesBelowLastAreSafe
<1>1. TypeInv /\ FrameInv => FramesBelowLastAreSafe
  BY DEF FrameInv, TraceInv
<1> QED
  BY <1>1, FramesInvariant, PTL

\* What reverse_system relies on: when a state steps into an error state under
\* some inputs, then it does so under inputs that make the error true as well and
\* give the gates that the error shares with the next state functions the same
\* values before and after the step. The forward engine does not reverse.
ReversalIsExact ==
    opts.forward \/
    \A t \in States, in, jn \in Inputs : <<NextState(system, t, in), jn>> \in system.error =>
        \E k \in Inputs :
            /\ <<NextState(system, t, k), k>> \in system.error
            /\ SharedGates(system, NextState(system, t, k), k) = SharedGates(system, t, k)

\* The successors of a frame, in the direction of the engine, are in the next; of
\* the error states, which are the first frame backwards, only if the reversal is
\* exact.
LEMMA FrameStep ==
    ASSUME TypeInv, FrameInv, NEW i \in 0 .. depth - 1, i # 0 \/ ReversalIsExact,
           NEW s \in R(i), NEW in \in Inputs, NEW t \in Successors(s, in)
    PROVE  t \in R(i + 1)
<1>1. /\ system \in Systems /\ depth \in Nat /\ i \in Nat /\ i + 1 \in 1 .. depth /\ s \in States
      /\ blocked[0] = {} /\ (i + 1) - 1 = i
  BY DEF TypeInv, TypeOK, FrameInv, TraceInv, R
<1>2. t \in States
  BY <1>1, NextIsState DEF Successors
<1>3. ASSUME NEW c \in blocked[i + 1], Holds(c, t) PROVE FALSE
  <2>1. ~\E u \in States, jn \in Inputs : TraceModel(i + 1, c, u, jn)
    BY <1>1 DEF FrameInv, TraceInv, BlockedHaveNoPredecessor, Unreached
  <2>2. CASE i # 0 \/ opts.forward
    <3>1. FrameModel(i, s, in)
      BY <2>2 DEF R, FrameModel, IsInitial
    <3>2. TraceModel(i + 1, c, s, in)
      BY <1>1, <1>3, <2>2, <3>1 DEF TraceModel
    <3> QED
      BY <1>1, <2>1, <3>2
  <2>3. CASE i = 0 /\ ~opts.forward
    <3>1. NextState(system, t, in) = s
      BY <2>3 DEF Successors
    <3>2. PICK jn \in Inputs : <<s, jn>> \in system.error
      BY <2>3 DEF R, IsInitial
    <3>3. PICK k \in Inputs :
            /\ <<NextState(system, t, k), k>> \in system.error
            /\ SharedGates(system, NextState(system, t, k), k) = SharedGates(system, t, k)
      BY <1>2, <2>3, <3>1, <3>2 DEF ReversalIsExact
    <3> DEFINE u == NextState(system, t, k)
    <3>4. u \in States
      BY <1>1, <1>2, NextIsState
    <3>5. FrameModel(0, u, k)
      BY <1>1, <2>3, <3>3 DEF FrameModel, IsInitial
    <3>6. t \in Successors(u, k)
      BY <1>2, <2>3 DEF Successors
    <3>7. SharedGates(system, u, k) = SharedGates(system, t, k)
      BY <3>3
    <3>8. TraceModel(i + 1, c, u, k)
      BY <1>1, <1>3, <2>3, <3>5, <3>6, <3>7 DEF TraceModel
    <3> QED
      BY <2>1, <3>4, <3>8
  <2> QED
    BY <2>2, <2>3
<1> QED
  BY <1>1, <1>2, <1>3 DEF R

LEMMA FramesStep ==
    ASSUME TypeInv, FrameInv, ReversalIsExact
    PROVE  TraceOverapproximates
BY FrameStep DEF TraceOverapproximates

\* The frames over-approximate the states reachable in as many steps, backwards
\* as long as the reversed system is the reverse of the system.
THEOREM CARFramesOverapproximate == Spec => [](ReversalIsExact => TraceOverapproximates)
<1>1. TypeInv /\ FrameInv => (ReversalIsExact => TraceOverapproximates)
  BY FramesStep
<1> QED
  BY <1>1, FramesInvariant, PTL

-----------------------------------------------------------------------------
(* What no step does to the frames and the coframes.                       *)

\* A coframe keeps the states of the cubes that left it as subsumed.
LEMMA ReachKeepsCoframes ==
    ASSUME TypeOK, NEW c \in Cubes, NEW in \in Inputs, NEW h \in Nat, NEW cl \in 0 .. codepth + 1,
           Reach(c, in, h, cl)
    PROVE  \A j \in 0 .. codepth : B(j) \subseteq B(j)'
<1>1. /\ Len(pool) \in Nat
      /\ pool'[Len(pool) + 1] = [state |-> c, input |-> in, succ |-> h]
      /\ \A g \in Handles : pool'[g] = pool[g]
      /\ codepth' \in Nat /\ codepth <= codepth'
  BY ReachGrows
<1>2. codepth \in Nat /\ reaching \in [0 .. codepth -> SUBSET Handles]
  BY DEF TypeOK
<1> SUFFICES ASSUME NEW j \in 0 .. codepth, NEW s \in States, NEW g \in reaching[j], Holds(pool[g].state, s)
             PROVE  \E f \in reaching'[j] : Holds(pool'[f].state, s)
  BY DEF B
<1>3. g \in Handles /\ pool'[g].state = pool[g].state
  BY <1>1, <1>2
<1>4. j \in 0 .. codepth' /\ j <= codepth
  BY <1>1, <1>2
<1>5. reaching'[j] = IF j = cl THEN {f \in reaching[j] : ~Subsumes(c, pool[f].state)} \cup {NextHandle}
                     ELSE reaching[j]
  BY <1>4 DEF Reach
<1>6. CASE g \in reaching'[j]
  BY <1>3, <1>6
<1>7. CASE g \notin reaching'[j]
  <2>1. Subsumes(c, pool[g].state) /\ NextHandle \in reaching'[j]
    BY <1>5, <1>7
  <2>2. Holds(c, s)
    BY <2>1, SubsumesHolds
  <2>3. pool'[NextHandle].state = c
    BY <1>1 DEF NextHandle
  <2> QED
    BY <2>1, <2>2, <2>3
<1> QED
  BY <1>6, <1>7

\* Frames only lose states and coframes only gain them.
THEOREM CARSetsAreMonotone == Spec => SetsAreMonotone
<1> DEFINE Monotone == /\ \A i \in 0 .. depth : R(i)' \subseteq R(i)
                       /\ \A j \in 0 .. codepth : B(j) \subseteq B(j)'
<1>1. ASSUME TypeInv, FrameInv, [Next]_vars PROVE [Monotone]_vars
  <2>1. TypeOK /\ depth \in Nat /\ codepth \in Nat
    BY <1>1 DEF TypeInv, TypeOK
  <2>2. \A i \in 0 .. depth : R(i)' \subseteq R(i)
    <3>1. CASE Quiet
      BY <3>1 DEF Quiet, R, IsInitial, input, trace
    <3>2. CASE NoErrorState
      <4>1. /\ UNCHANGED input
            /\ blocked' = [d \in 0 .. depth + 1 |-> IF d <= depth THEN blocked[d] ELSE {}]
        BY <3>2 DEF NoErrorState
      <4>2. \A i \in 0 .. depth : blocked'[i] = blocked[i]
        BY <2>1, <4>1
      <4> QED
        BY <4>1, <4>2 DEF R, IsInitial, input
    <3>3. CASE \E c \in Cubes, lvl \in 1 .. depth : Unreached(c, lvl) /\ Blocks(c, lvl)
      <4>1. PICK c \in Cubes, lvl \in 1 .. depth : Blocks(c, lvl)
        BY <3>3
      <4>2. UNCHANGED <<input, depth>> /\ blocked' = BlockedWith(c, lvl)
        BY <4>1 DEF Blocks
      <4>3. ASSUME NEW i \in 0 .. depth, NEW s PROVE
                (\A d \in blocked'[i] : ~Holds(d, s)) => (\A d \in blocked[i] : ~Holds(d, s))
        <5>1. /\ \A k \in 0 .. depth : k # lvl => blocked'[k] = blocked[k]
              /\ c \in blocked'[lvl]
              /\ \A d \in blocked[lvl] : d \in blocked'[lvl] \/ Subsumes(c, d)
          BY <2>1, <4>2, BlockedFrames
        <5> QED
          BY <5>1, SubsumesHolds
      <4> QED
        BY <4>2, <4>3 DEF R, IsInitial, input
    <3> QED
      BY <1>1, <3>1, <3>2, <3>3, StepKinds
  <2>3. \A j \in 0 .. codepth : B(j) \subseteq B(j)'
    <3>1. CASE UNCHANGED cotrace
      BY <3>1 DEF B, cotrace
    <3>2. CASE NewErrorState
      <4>1. PICK s \in States, in \in Inputs : Reach(CubeOf(s), in, 0, 0)
        BY <3>2 DEF NewErrorState, NoSuccessor
      <4>2. CubeOf(s) \in Cubes /\ 0 \in Nat /\ 0 \in 0 .. codepth + 1
        BY <2>1, CubeOfState
      <4> QED
        BY <2>1, <4>1, <4>2, ReachKeepsCoframes
    <3>3. ASSUME NEW c \in Cubes, NEW in \in Inputs, PushPredecessor(c, in), pc \in Working
          PROVE  \A j \in 0 .. codepth : B(j) \subseteq B(j)'
      <4>1. Handle(po) \in Handles /\ Colevel(po) \in 0 .. codepth
        BY <2>1, <3>3, WorkingType
      <4>2. Handle(po) \in Nat /\ Colevel(po) + 1 \in 0 .. codepth + 1
        BY <2>1, <4>1 DEF Handles
      <4>3. Reach(c, in, Handle(po), Colevel(po) + 1)
        BY <3>3 DEF PushPredecessor
      <4> QED
        BY <2>1, <4>2, <4>3, ReachKeepsCoframes
    <3>4. CASE WholePredecessor
      <4>1. PICK s \in States, in \in Inputs : PushPredecessor(CubeOf(s), in)
        BY <3>4 DEF WholePredecessor
      <4>2. pc \in Working /\ CubeOf(s) \in Cubes
        BY <3>4, CubeOfState DEF WholePredecessor, Working
      <4> QED
        BY <3>3, <4>1, <4>2
    <3>5. CASE GeneralizePredecessor
      <4>1. pc \in Working /\ model \in [state : States, input : Inputs]
        BY <1>1, <3>5 DEF GeneralizePredecessor, Working, TypeInv
      <4>2. PICK core \in SUBSET CubeOf(model.state) :
                UNCHANGED cotrace \/ PushPredecessor(core, model.input)
        BY <3>5 DEF GeneralizePredecessor
      <4>3. core \in Cubes /\ model.input \in Inputs
        BY <4>1, CubeOfState DEF Cubes
      <4> QED
        BY <3>1, <3>3, <4>1, <4>2, <4>3
    <3>6. CASE MinimalPredecessor
      <4>1. /\ pc \in Working /\ model.input \in Inputs /\ cand \in Cubes
            /\ PushPredecessor(cand, model.input)
        BY <1>1, <2>1, <3>6 DEF MinimalPredecessor, Working, TypeInv, TypeOK
      <4> QED
        BY <3>3, <4>1
    <3>7. CASE UNCHANGED vars
      BY <3>1, <3>7 DEF vars
    <3> QED
      BY <1>1, <3>1, <3>2, <3>4, <3>5, <3>6, <3>7 DEF Next, ScanCube, ScanNext, ScanDone, NoErrorState,
         FoundCounterexample, SkipSubsumed, PopObligation, AllBlocked, FoundPredecessor, NoPredecessor,
         ShrinkPredecessor, ShrinkBlocked, MinimalBlocked, PropagateCube, PropagateNext, PushedAll,
         FoundInductive, NextRound, Returned
  <2> QED
    BY <2>2, <2>3
<1>2. TypeInv /\ FrameInv /\ [Next]_vars => [Monotone]_vars
  BY <1>1
<1> QED
  BY <1>2, FramesInvariant, PTL DEF Spec, SafetySpec, SetsAreMonotone

-----------------------------------------------------------------------------
(* The obligations and the verdict.                                        *)

\* No safe inductive invariant has a state of the cotrace in it; in the backward
\* mode, where the cotrace grows from the initial states, it has all of them.
PoolInv ==
    \A Inv \in SUBSET States : SafeInvariant(system, Inv) =>
        \A h \in Handles : \A s \in States : Holds(pool[h].state, s) => (s \in Inv <=> ~opts.forward)

\* An obligation that reached level 0 has a model of the initial formula in it.
LevelZeroIsInitial ==
    \A o \in queue : Level(o) = 0 =>
        \E s \in States, in \in Inputs : IsInitial(s, in) /\ Holds(StateVars(o), s)

\* The cotrace is empty while there is one frame only: nothing is scanned.
ScanIsLate == depth = 0 => handles = {} /\ level = 0

\* What is known of the predecessor while it is generalized.
PredecessorInv ==
    /\ pc \in {"generalize", "shrinkpred"} => FrameModel(Level(po) - 1, model.state, model.input)
    /\ pc = "shrinkpred" =>
            /\ cand \subseteq CubeOf(model.state)
            /\ IsPredecessorCore(cand, StateVars(po), model.input)

\* The last steps of the executions that the backward engine looks for: steps into
\* an error under inputs that serve the error too, and that leave the gates alone
\* which the error shares with the next state functions.
ReversedSteps ==
    {si \in States \X Inputs :
        LET t == NextState(system, si[1], si[2])
        IN  /\ <<t, si[2]>> \in system.error
            /\ SharedGates(system, t, si[2]) = SharedGates(system, si[1], si[2])}

\* What the backward engine answers for.
BackwardInv == result = "ok" /\ ~opts.forward => ReversedSafe(system, ReversedSteps)

\* Part of VerdictIsCorrect: "ok" in the backward mode is right when the reversed
\* system is.
VerdictInv ==
    /\ result = "ok" /\ ReversalIsExact => Safe(system)
    /\ BackwardInv
    /\ result = "counterexample" => ~Safe(system)

ObligationInv == PoolInv /\ LevelZeroIsInitial /\ ScanIsLate /\ PredecessorInv /\ VerdictInv

IInv == TypeInv /\ FrameInv /\ ObligationInv

\* The pool after a new entry, for an entry that may be there.
LEMMA ReachKeepsPool ==
    ASSUME TypeOK, PoolInv, NEW c \in Cubes, NEW in \in Inputs, NEW h \in Nat, NEW cl \in 0 .. codepth + 1,
           Reach(c, in, h, cl), UNCHANGED input,
           \A Inv \in SUBSET States : SafeInvariant(system, Inv) =>
                \A s \in States : Holds(c, s) => (s \in Inv <=> ~opts.forward)
    PROVE  PoolInv'
<1>1. /\ pool'[NextHandle] = [state |-> c, input |-> in, succ |-> h]
      /\ \A g \in Handles : pool'[g] = pool[g]
      /\ Handles' = Handles \cup {NextHandle}
  BY ReachGrows DEF NextHandle
<1>2. system' = system /\ opts' = opts
  BY DEF input
<1>3. ASSUME NEW Inv \in SUBSET States, SafeInvariant(system, Inv)', NEW g \in Handles', NEW s \in States,
             Holds(pool'[g].state, s)
      PROVE  s \in Inv <=> ~opts'.forward
  <2>1. SafeInvariant(system, Inv)
    BY <1>2, <1>3 DEF SafeInvariant
  <2>2. CASE g = NextHandle
    <3>1. Holds(c, s)
      BY <1>1, <1>3, <2>2
    <3> QED
      BY <1>2, <2>1, <3>1
  <2>3. CASE g \in Handles
    BY <1>1, <1>2, <1>3, <2>1, <2>3 DEF PoolInv
  <2> QED
    BY <1>1, <2>2, <2>3
<1> QED
  BY <1>3 DEF PoolInv

\* The verdict as long as nothing is returned.
LEMMA VerdictUnchanged ==
    ASSUME VerdictInv, UNCHANGED <<input, verdict>>
    PROVE  VerdictInv'
<1>1. system' = system /\ opts' = opts /\ result' = result
  BY DEF input, verdict
<1>2. ReversedSteps' = ReversedSteps
  BY <1>1 DEF ReversedSteps
<1>3. BackwardInv => BackwardInv'
  BY <1>1, <1>2 DEF BackwardInv, ReversedSafe
<1> QED
  BY <1>1, <1>3 DEF VerdictInv, ReversalIsExact, Safe, SafeInvariant

\* A new obligation may join the queue.
LEMMA QueueGrows ==
    ASSUME TypeOK, LevelZeroIsInitial, UNCHANGED input, NEW Q, queue' \subseteq queue \cup Q,
           \A g \in Handles : pool'[g] = pool[g],
           \A o \in Q : Level(o) = 0 =>
                \E s \in States, in \in Inputs : IsInitial(s, in) /\ Holds(pool'[Handle(o)].state, s)
    PROVE  LevelZeroIsInitial'
<1>1. \A s, in : IsInitial(s, in)' <=> IsInitial(s, in)
  BY DEF IsInitial, input
<1>2. \A o \in queue : Handle(o) \in Handles
  BY DEF TypeOK, Handle
<1>3. ASSUME NEW o \in queue', Level(o) = 0
      PROVE  \E s \in States, in \in Inputs : IsInitial(s, in)' /\ Holds(pool'[Handle(o)].state, s)
  <2>1. CASE o \in Q
    BY <1>1, <1>3, <2>1
  <2>2. CASE o \in queue
    <3>1. pool'[Handle(o)] = pool[Handle(o)]
      BY <1>2, <2>2
    <3> QED
      BY <1>1, <1>3, <2>2, <3>1 DEF LevelZeroIsInitial, StateVars
  <2> QED
    BY <2>1, <2>2
<1> QED
  BY <1>3 DEF LevelZeroIsInitial, StateVars, Level, Handle

\* What makes a cube the predecessor of an obligation, and what follows.
IsPredecessor(c, s, in) ==
    /\ FrameModel(Level(po) - 1, s, in)
    /\ Holds(c, s)
    /\ IF opts.forward THEN IsPredecessorCore(c, StateVars(po), in)
       ELSE c = CubeOf(s) /\ \E t \in Successors(s, in) : Holds(StateVars(po), t)

\* A predecessor becomes an entry of the pool and an obligation.
LEMMA PushPredecessorObligations ==
    ASSUME IInv, pc \in Working, NEW c \in Cubes, NEW s \in States, NEW in \in Inputs,
           IsPredecessor(c, s, in), PushPredecessor(c, in), UNCHANGED <<input, trace, scan, verdict>>
    PROVE  ObligationInv'
<1>1. TypeOK /\ PoolInv /\ LevelZeroIsInitial /\ ScanIsLate /\ VerdictInv /\ system \in Systems
  BY DEF IInv, TypeInv, TypeOK, ObligationInv
<1>2. /\ depth \in Nat /\ codepth \in Nat
      /\ Level(po) \in 1 .. depth /\ Colevel(po) \in 0 .. codepth /\ Handle(po) \in Handles
      /\ pool[Handle(po)] \in Entry
  BY <1>1, WorkingType
<1>3. /\ Reach(c, in, Handle(po), Colevel(po) + 1)
      /\ queue' = queue \cup {<<Level(po) - 1, Colevel(po) + 1, NextHandle>>, po}
      /\ pc' = "solve" /\ UNCHANGED input
  BY DEF PushPredecessor, Obligation
<1>4. Handle(po) \in Nat /\ Colevel(po) + 1 \in 0 .. codepth + 1
  BY <1>2 DEF Handles
<1>5. /\ pool'[NextHandle] = [state |-> c, input |-> in, succ |-> Handle(po)]
      /\ \A g \in Handles : pool'[g] = pool[g]
  BY <1>1, <1>3, <1>4, ReachGrows DEF NextHandle
<1>6. PoolInv'
  <2>1. ASSUME NEW Inv \in SUBSET States, SafeInvariant(system, Inv), NEW u \in States, Holds(c, u)
        PROVE  u \in Inv <=> ~opts.forward
    <3>1. \A t \in States : Holds(StateVars(po), t) => (t \in Inv <=> ~opts.forward)
      BY <1>1, <1>2, <2>1 DEF PoolInv, StateVars
    <3>2. CASE opts.forward
      <4>1. NextState(system, u, in) \in States
        BY <1>1, NextIsState
      <4>2. Holds(StateVars(po), NextState(system, u, in))
        BY <2>1, <3>2 DEF IsPredecessor, IsPredecessorCore, Successors
      <4>3. NextState(system, u, in) \notin Inv
        BY <3>1, <3>2, <4>1, <4>2
      <4> QED
        BY <2>1, <3>2, <4>3 DEF SafeInvariant
    <3>3. CASE ~opts.forward
      <4>1. u = s
        BY <2>1, <3>3, CubeOfState DEF IsPredecessor
      <4>2. PICK t \in States : NextState(system, t, in) = s /\ Holds(StateVars(po), t)
        BY <3>3 DEF IsPredecessor, Successors
      <4>3. t \in Inv
        BY <3>1, <3>3, <4>2
      <4> QED
        BY <2>1, <3>3, <4>1, <4>2, <4>3 DEF SafeInvariant
    <3> QED
      BY <3>2, <3>3
  <2> QED
    BY <1>1, <1>3, <1>4, <2>1, ReachKeepsPool
<1>7. LevelZeroIsInitial'
  <2> DEFINE Q == {<<Level(po) - 1, Colevel(po) + 1, NextHandle>>, po}
  <2>1. ASSUME NEW o \in Q, Level(o) = 0
        PROVE  \E u \in States, jn \in Inputs : IsInitial(u, jn) /\ Holds(pool'[Handle(o)].state, u)
    <3>1. o # po
      BY <1>2, <2>1
    <3>2. Handle(o) = NextHandle /\ Level(po) - 1 = 0
      <4> DEFINE l == Level(po) - 1
                 cl == Colevel(po) + 1
      <4>1. o = <<l, cl, NextHandle>>
        BY <3>1
      <4> HIDE DEF l, cl
      <4>2. Handle(o) = NextHandle /\ l = 0
        BY <2>1, <4>1 DEF Handle, Level
      <4> QED
        BY <4>2 DEF l
    <3>3. IsInitial(s, in) /\ Holds(c, s)
      BY <3>2 DEF IsPredecessor, FrameModel
    <3> QED
      BY <1>5, <3>2, <3>3
  <2>2. queue' \subseteq queue \cup Q
    BY <1>3
  <2> HIDE DEF Q
  <2> QED
    BY <1>1, <1>3, <1>5, <2>1, <2>2, QueueGrows
<1>8. ScanIsLate' /\ VerdictInv'
  BY <1>1, VerdictUnchanged DEF ScanIsLate, scan, trace
<1> QED
  BY <1>3, <1>6, <1>7, <1>8 DEF ObligationInv, PredecessorInv

\* A step that adds nothing to the cotrace and no obligation at level 0.
LEMMA ObligationsKept ==
    ASSUME TypeOK, PoolInv, LevelZeroIsInitial, UNCHANGED <<input, pool>>,
           \A o \in queue' : o \in queue \/ Level(o) # 0
    PROVE  PoolInv' /\ LevelZeroIsInitial'
<1>1. PoolInv'
  BY DEF PoolInv, SafeInvariant, Handles, input
<1>2. LevelZeroIsInitial'
  BY DEF LevelZeroIsInitial, IsInitial, StateVars, Level, Handle, input
<1> QED
  BY <1>1, <1>2

\* get_error_state: a model of the error formula in the last frame, which is the
\* first one in the first round.
LEMMA NewErrorStateObligations == ASSUME IInv, NewErrorState PROVE ObligationInv'
<1>1. TypeOK /\ PoolInv /\ LevelZeroIsInitial /\ ScanIsLate /\ VerdictInv /\ depth \in Nat /\ codepth \in Nat
  BY DEF IInv, TypeInv, TypeOK, ObligationInv
<1>2. PICK s \in States, in \in Inputs :
            InFrame(WithSolver, depth, s, in) /\ IsError(s, in) /\ Reach(CubeOf(s), in, 0, 0)
  BY DEF NewErrorState, NoSuccessor
<1>3. CubeOf(s) \in Cubes /\ 0 \in Nat /\ 0 \in 0 .. codepth + 1 /\ \A t \in States : Holds(CubeOf(s), t) <=> t = s
  BY <1>1, CubeOfState
<1>4. /\ UNCHANGED <<input, trace, scan, verdict>> /\ pc' = "solve"
      /\ queue' = {<<depth, 0, NextHandle>>}
  BY DEF NewErrorState, Obligation
<1>5. pool'[NextHandle] = [state |-> CubeOf(s), input |-> in, succ |-> 0] /\ \A g \in Handles : pool'[g] = pool[g]
  BY <1>1, <1>2, <1>3, ReachGrows DEF NextHandle
<1>6. PoolInv'
  <2>1. ASSUME NEW Inv \in SUBSET States, SafeInvariant(system, Inv), NEW u \in States, Holds(CubeOf(s), u)
        PROVE  u \in Inv <=> ~opts.forward
    BY <1>2, <1>3, <2>1 DEF SafeInvariant, IsError
  <2> QED
    BY <1>1, <1>2, <1>3, <1>4, <2>1, ReachKeepsPool
<1>7. LevelZeroIsInitial'
  <2> DEFINE Q == {<<depth, 0, NextHandle>>}
  <2>1. ASSUME NEW o \in Q, Level(o) = 0
        PROVE  \E u \in States, jn \in Inputs : IsInitial(u, jn) /\ Holds(pool'[Handle(o)].state, u)
    <3>1. Handle(o) = NextHandle /\ depth = 0
      BY <2>1 DEF Handle, Level
    <3>2. IsInitial(s, in) /\ Holds(CubeOf(s), s)
      BY <1>2, <1>3, <3>1 DEF InFrame
    <3> QED
      BY <1>5, <3>1, <3>2
  <2>2. queue' \subseteq queue \cup Q
    BY <1>4
  <2> HIDE DEF Q
  <2> QED
    BY <1>1, <1>4, <1>5, <2>1, <2>2, QueueGrows
<1>8. ScanIsLate' /\ VerdictInv'
  BY <1>1, <1>4, VerdictUnchanged DEF ScanIsLate, scan, trace
<1> QED
  BY <1>4, <1>6, <1>7, <1>8 DEF ObligationInv, PredecessorInv

\* An obligation at level 0 is a reason for a counterexample: a safe inductive
\* invariant would have the state in it and not have it.
LEMMA FoundCounterexampleObligations == ASSUME IInv, FoundCounterexample PROVE ObligationInv'
<1>1. TypeOK /\ PoolInv /\ LevelZeroIsInitial /\ ScanIsLate
  BY DEF IInv, TypeInv, ObligationInv
<1>2. PICK o \in queue : Level(o) = 0 /\ queue' = queue \ {o}
  BY DEF FoundCounterexample
<1>3. UNCHANGED <<input, trace, cotrace, scan>> /\ pc' = "done" /\ result' = "counterexample"
  BY DEF FoundCounterexample
<1>4. PICK s \in States, in \in Inputs : IsInitial(s, in) /\ Holds(StateVars(o), s)
  BY <1>1, <1>2 DEF LevelZeroIsInitial
<1>5. Handle(o) \in Handles
  BY <1>1 DEF TypeOK, Handle
<1>6. ASSUME NEW Inv \in SUBSET States, SafeInvariant(system, Inv) PROVE FALSE
  <2>1. s \in Inv <=> ~opts.forward
    BY <1>1, <1>4, <1>5, <1>6 DEF PoolInv, StateVars
  <2> QED
    BY <1>4, <1>6, <2>1 DEF IsInitial, SafeInvariant
<1>7. ~Safe(system)'
  BY <1>3, <1>6 DEF Safe, SafeInvariant, input
<1>8. PoolInv' /\ LevelZeroIsInitial'
  BY <1>1, <1>2, <1>3, ObligationsKept DEF cotrace
<1>9. ScanIsLate'
  BY <1>1, <1>3 DEF ScanIsLate, scan, trace
<1> QED
  BY <1>3, <1>7, <1>8, <1>9 DEF ObligationInv, PredecessorInv, VerdictInv, BackwardInv

\* The query of an obligation found a predecessor.
LEMMA PredecessorFound ==
    ASSUME IInv, pc = "query", NEW s \in States, NEW in \in Inputs,
           StepModel(WithSolver, Level(po), StateVars(po), s, in)
    PROVE  /\ FrameModel(Level(po) - 1, s, in)
           /\ \E t \in Successors(s, in) : Holds(StateVars(po), t)
<1>1. TypeOK /\ depth \in Nat /\ Matches(WithSolver)
  BY WithSolverMatches DEF IInv, TypeInv, TypeOK, FrameInv, TraceInv
<1>2. Level(po) \in 1 .. depth
  BY <1>1, WorkingType DEF Working
<1>3. TraceModel(Level(po), StateVars(po), s, in)
  BY <1>1, <1>2, QueryIsExact
<1> QED
  BY <1>3 DEF TraceModel

\* A predecessor that is not generalized.
LEMMA WholePredecessorObligations == ASSUME IInv, WholePredecessor PROVE ObligationInv'
<1>1. PICK s \in States, in \in Inputs :
            StepModel(WithSolver, Level(po), StateVars(po), s, in) /\ PushPredecessor(CubeOf(s), in)
  BY DEF WholePredecessor
<1>2. pc = "query" /\ pc \in Working /\ ~opts.forward /\ UNCHANGED <<input, trace, scan, verdict>>
  BY DEF WholePredecessor, Working
<1>3. CubeOf(s) \in Cubes /\ Holds(CubeOf(s), s)
  BY CubeOfState
<1>4. IsPredecessor(CubeOf(s), s, in)
  BY <1>1, <1>2, <1>3, PredecessorFound DEF IsPredecessor
<1> QED
  BY <1>1, <1>2, <1>3, <1>4, PushPredecessorObligations

\* The core of a model's cube holds in the model.
LEMMA CoreIsPredecessor ==
    ASSUME IInv, pc \in {"generalize", "shrinkpred"}, NEW c \in SUBSET CubeOf(model.state),
           IsPredecessorCore(c, StateVars(po), model.input)
    PROVE  /\ c \in Cubes
           /\ model.state \in States /\ model.input \in Inputs
           /\ IsPredecessor(c, model.state, model.input)
<1>1. model.state \in States /\ model.input \in Inputs /\ opts.forward
  BY DEF IInv, TypeInv
<1>2. CubeOf(model.state) \in Cubes /\ Holds(CubeOf(model.state), model.state)
  BY <1>1, CubeOfState
<1>3. c \in Cubes /\ Holds(c, model.state)
  BY <1>2 DEF Cubes, Holds
<1> QED
  BY <1>1, <1>3 DEF IsPredecessor, IInv, ObligationInv, PredecessorInv

\* A predecessor that is generalized, literal by literal.
LEMMA GeneralizeObligations ==
    ASSUME IInv, GeneralizePredecessor \/ ShrinkPredecessor \/ MinimalPredecessor
    PROVE  ObligationInv'
<1>1. TypeOK /\ PoolInv /\ LevelZeroIsInitial /\ ScanIsLate /\ VerdictInv /\ PredecessorInv
  BY DEF IInv, TypeInv, ObligationInv
<1>2. /\ pc \in {"generalize", "shrinkpred"} /\ pc \in Working /\ UNCHANGED <<input, trace, scan, verdict>>
      /\ FrameModel(Level(po) - 1, model.state, model.input)
  BY <1>1 DEF GeneralizePredecessor, ShrinkPredecessor, MinimalPredecessor, Working, PredecessorInv
<1>3. ASSUME UNCHANGED <<pool, queue, po, model>>, pc' = "shrinkpred",
             cand' \subseteq CubeOf(model.state), IsPredecessorCore(cand', StateVars(po), model.input)
      PROVE  ObligationInv'
  <2>1. PoolInv' /\ LevelZeroIsInitial'
    BY <1>1, <1>2, <1>3, ObligationsKept
  <2>2. ScanIsLate' /\ VerdictInv'
    BY <1>1, <1>2, VerdictUnchanged DEF ScanIsLate, scan, trace
  <2>3. FrameModel(Level(po) - 1, model.state, model.input)'
    BY <1>2, <1>3 DEF FrameModel, IsInitial, Level, input, trace
  <2>4. IsPredecessorCore(cand, StateVars(po), model.input)'
    BY <1>2, <1>3 DEF IsPredecessorCore, Successors, StateVars, Handle, input
  <2> QED
    BY <1>3, <2>1, <2>2, <2>3, <2>4 DEF ObligationInv, PredecessorInv
<1>4. CASE GeneralizePredecessor
  <2>1. PICK core \in SUBSET CubeOf(model.state) :
            /\ IsPredecessorCore(core, StateVars(po), model.input)
            /\ \/ cand' = core /\ pc' = "shrinkpred" /\ UNCHANGED <<cotrace, queue, po, model>>
               \/ PushPredecessor(core, model.input)
    BY <1>4 DEF GeneralizePredecessor
  <2>2. CASE PushPredecessor(core, model.input)
    BY <1>2, <2>1, <2>2, CoreIsPredecessor, PushPredecessorObligations
  <2>3. CASE cand' = core /\ pc' = "shrinkpred" /\ UNCHANGED <<cotrace, queue, po, model>>
    BY <1>3, <2>1, <2>3 DEF cotrace
  <2> QED
    BY <2>1, <2>2, <2>3
<1>5. CASE ShrinkPredecessor
  <2>1. pc = "shrinkpred" /\ UNCHANGED <<pool, queue, po, model>> /\ pc' = "shrinkpred"
    BY <1>5 DEF ShrinkPredecessor, cotrace
  <2> DEFINE unsat == {c \in SUBSET cand : IsPredecessorCore(c, StateVars(po), model.input)}
  <2>2. PICK l \in lits : cand' \in Shrunk(l, unsat)
    BY <1>5 DEF ShrinkPredecessor
  <2>3. cand \in unsat /\ cand \subseteq CubeOf(model.state)
    BY <1>1, <2>1 DEF PredecessorInv
  <2>4. cand' \in unsat /\ cand' \subseteq cand
    <3> HIDE DEF unsat
    <3> QED
      BY <2>2, <2>3, ShrunkIsCore
  <2> QED
    BY <1>3, <2>1, <2>3, <2>4
<1>6. CASE MinimalPredecessor
  <2>1. /\ pc = "shrinkpred" /\ PushPredecessor(cand, model.input)
        /\ cand \in SUBSET CubeOf(model.state) /\ IsPredecessorCore(cand, StateVars(po), model.input)
    BY <1>1, <1>6 DEF MinimalPredecessor, PredecessorInv
  <2> QED
    BY <1>2, <2>1, CoreIsPredecessor, PushPredecessorObligations
<1> QED
  BY <1>4, <1>5, <1>6

-----------------------------------------------------------------------------
(* The answer "ok".                                                        *)

\* When propagate pushed all cubes of a frame, the next frame is covered by it.
LEMMA PushedAllIsInductive ==
    ASSUME TypeInv, FrameInv, pc = "propagate", level < depth, cubes = {}, pushed
    PROVE  IsInductive
<1>1. level \in 1 .. depth /\ depth \in Nat
  BY DEF TypeInv, TypeOK
<1>2. \A c \in blocked[level] : \E d \in blocked[level + 1] : Subsumes(d, c)
  BY DEF FrameInv, CandidateInv
<1>3. Frame(level + 1) \subseteq Frame(level)
  BY <1>2, SubsumesHolds DEF Frame
<1>4. level + 1 \in 1 .. depth /\ level \in 1 .. (level + 1) - 1
  BY <1>1
<1> QED
  BY <1>3, <1>4 DEF IsInductive

\* When a frame is covered by the frames before it, these together are an
\* inductive invariant without an error, forwards; backwards, they are all the
\* states that lead to an error, and none of them is initial.
LEMMA InductiveIsSafe ==
    ASSUME TypeInv, FrameInv, ReversalIsExact, IsInductive
    PROVE  Safe(system)
<1>1. PICK i \in 1 .. depth : \A s \in Frame(i) :
            ~IsNotInitial(s) \/ \E j \in 1 .. i - 1 : s \in Frame(j)
  BY DEF IsInductive
<1>2. system \in Systems /\ depth \in Nat /\ i \in Nat /\ blocked[0] = {}
  BY DEF TypeInv, TypeOK, FrameInv, TraceInv
<1>3. TraceOverapproximates /\ FramesBelowLastAreSafe
  BY FramesStep DEF FrameInv, TraceInv
<1> DEFINE W == {s \in States : \E j \in 0 .. i - 1 : s \in R(j)}
<1>4. \A k \in 1 .. depth : R(k) = Frame(k)
  BY <1>2 DEF R, Frame
<1>5. \A s \in States : s \in R(0) <=> \E in \in Inputs : IsInitial(s, in)
  BY <1>2 DEF R
<1>6. ASSUME NEW s \in R(i) PROVE s \in W
  <2>1. s \in Frame(i) /\ s \in States
    BY <1>2, <1>4 DEF R
  <2>2. CASE ~IsNotInitial(s)
    <3>1. PICK in \in Inputs : TRUE
      BY InputsAssumption
    <3>2. IsInitial(s, in)
      BY <2>2 DEF IsNotInitial, IsInitial
    <3>3. s \in R(0) /\ 0 \in 0 .. i - 1
      BY <1>2, <1>5, <2>1, <3>2
    <3> QED
      BY <2>1, <3>3
  <2>3. CASE \E j \in 1 .. i - 1 : s \in Frame(j)
    <3>1. PICK j \in 1 .. i - 1 : s \in Frame(j)
      BY <2>3
    <3>2. j \in 1 .. depth /\ j \in 0 .. i - 1
      BY <1>2
    <3> QED
      BY <1>4, <2>1, <3>1, <3>2
  <2> QED
    BY <1>1, <2>1, <2>2, <2>3
<1>7. ASSUME NEW s \in W, NEW in \in Inputs, NEW t \in Successors(s, in) PROVE t \in W
  <2>1. PICK j \in 0 .. i - 1 : s \in R(j)
    OBVIOUS
  <2>2. j \in 0 .. depth - 1
    BY <1>2
  <2>3. t \in R(j + 1)
    BY <1>3, <2>1, <2>2 DEF TraceOverapproximates
  <2>4. CASE j + 1 = i
    BY <1>6, <2>3, <2>4
  <2>5. CASE j + 1 # i
    <3>1. j + 1 \in 0 .. i - 1 /\ t \in States
      BY <1>2, <2>3, <2>5 DEF R
    <3> QED
      BY <2>3, <3>1
  <2> QED
    BY <2>4, <2>5
<1>8. ASSUME NEW s \in W, NEW in \in Inputs PROVE ~IsError(s, in)
  <2>1. PICK j \in 0 .. i - 1 : s \in R(j)
    OBVIOUS
  <2>2. j \in 0 .. depth - 1
    BY <1>2
  <2> QED
    BY <1>3, <2>1, <2>2 DEF FramesBelowLastAreSafe
<1>9. ASSUME NEW s \in States, NEW in \in Inputs, IsInitial(s, in) PROVE s \in W
  <2>1. 0 \in 0 .. i - 1 /\ s \in R(0)
    BY <1>2, <1>5, <1>9
  <2> QED
    BY <2>1
<1>10. W \in SUBSET States
  OBVIOUS
<1> HIDE DEF W
<1>11. CASE opts.forward
  <2>1. ASSUME NEW s \in States, Holds(system.init, s) PROVE s \in W
    <3>1. PICK in \in Inputs : TRUE
      BY InputsAssumption
    <3> QED
      BY <1>9, <1>11, <2>1, <3>1 DEF IsInitial
  <2>2. \A s \in W, in \in Inputs : NextState(system, s, in) \in W /\ <<s, in>> \notin system.error
    BY <1>7, <1>8, <1>11 DEF Successors, IsError
  <2> QED
    BY <1>10, <2>1, <2>2 DEF Safe, SafeInvariant
<1>12. CASE ~opts.forward
  <2> DEFINE V == States \ W
  <2>1. ASSUME NEW s \in States, Holds(system.init, s) PROVE s \in V
    <3>1. PICK in \in Inputs : TRUE
      BY InputsAssumption
    <3> QED
      BY <1>8, <1>12, <2>1, <3>1 DEF IsError
  <2>2. ASSUME NEW s \in V, NEW in \in Inputs PROVE NextState(system, s, in) \in V
    <3>1. NextState(system, s, in) \in States
      BY <1>2, NextIsState
    <3>2. s \in Successors(NextState(system, s, in), in)
      BY <1>12 DEF Successors
    <3> QED
      BY <1>7, <3>1, <3>2
  <2>3. \A s \in V, in \in Inputs : <<s, in>> \notin system.error
    BY <1>9, <1>12 DEF IsInitial
  <2> HIDE DEF V
  <2>4. SafeInvariant(system, V)
    BY <2>1, <2>2, <2>3 DEF SafeInvariant
  <2>5. V \in SUBSET States
    BY DEF V
  <2> QED
    BY <2>4, <2>5 DEF Safe
<1> QED
  BY <1>11, <1>12

\* When a frame is covered by the frames before it, which never counts the error
\* states backwards, the states in none of the frames from the first on are an
\* invariant: they include the initial states and those that no reversed step leads
\* to.
LEMMA InductiveIsReversedSafe ==
    ASSUME TypeInv, FrameInv, ~opts.forward, IsInductive
    PROVE  ReversedSafe(system, ReversedSteps)
<1>1. PICK i \in 1 .. depth : \A s \in Frame(i) :
            ~IsNotInitial(s) \/ \E j \in 1 .. i - 1 : s \in Frame(j)
  BY DEF IsInductive
<1>2. system \in Systems /\ depth \in Nat /\ i \in Nat /\ blocked[0] = {}
  BY DEF TypeInv, TypeOK, FrameInv, TraceInv
<1>3. FramesBelowLastAreSafe
  BY DEF FrameInv, TraceInv
<1> DEFINE W == {s \in States : \E j \in 1 .. i - 1 : s \in R(j)}
           V == States \ W
<1>4. \A k \in 1 .. depth : R(k) = Frame(k)
  BY <1>2 DEF R, Frame
<1>5. \A s \in States : s \in R(0) <=> \E in \in Inputs : <<s, in>> \in system.error
  BY <1>2 DEF R, IsInitial
<1>6. ASSUME NEW s \in R(i) PROVE s \in W
  <2>1. s \in Frame(i) /\ s \in States /\ IsNotInitial(s)
    BY <1>2, <1>4 DEF R, IsNotInitial
  <2>2. PICK j \in 1 .. i - 1 : s \in Frame(j)
    BY <1>1, <2>1
  <2>3. j \in 1 .. depth
    BY <1>2
  <2> QED
    BY <1>4, <2>1, <2>2, <2>3
<1>7. ASSUME NEW k \in 1 .. i, NEW s \in R(k) PROVE s \in W
  <2>1. CASE k = i
    BY <1>6, <1>7, <2>1
  <2>2. CASE k # i
    <3>1. k \in 1 .. i - 1 /\ s \in States
      BY <1>2, <2>2 DEF R
    <3> QED
      BY <1>7, <3>1
  <2> QED
    BY <2>1, <2>2
<1>8. ASSUME NEW s \in W, NEW in \in Inputs, NEW t \in Successors(s, in) PROVE t \in W
  <2>1. PICK j \in 1 .. i - 1 : s \in R(j)
    OBVIOUS
  <2>2. j \in 0 .. depth - 1 /\ j # 0 /\ j + 1 \in 1 .. i
    BY <1>2
  <2>3. t \in R(j + 1)
    BY <2>1, <2>2, FrameStep
  <2> QED
    BY <1>7, <2>2, <2>3
<1>9. ASSUME NEW s \in States, NEW in \in Inputs, Holds(system.init, s) PROVE s \in V /\ <<s, in>> \notin system.error
  <2>1. IsError(s, in)
    BY <1>9 DEF IsError
  <2>2. ASSUME NEW j \in 0 .. i - 1 PROVE s \notin R(j)
    <3>1. j \in 0 .. depth - 1
      BY <1>2
    <3> QED
      BY <1>3, <2>1, <3>1 DEF FramesBelowLastAreSafe
  <2>3. s \notin R(0)
    BY <1>2, <2>2
  <2>4. s \notin W
    <3> SUFFICES ASSUME s \in W PROVE FALSE
      OBVIOUS
    <3>1. PICK j \in 1 .. i - 1 : s \in R(j)
      OBVIOUS
    <3>2. j \in 0 .. i - 1
      BY <1>2
    <3> QED
      BY <2>2, <3>1, <3>2
  <2> QED
    BY <1>5, <2>3, <2>4
<1>10. ASSUME NEW s \in V, NEW in \in Inputs PROVE NextState(system, s, in) \in V
  <2>1. NextState(system, s, in) \in States /\ s \in States
    BY <1>2, NextIsState
  <2>2. s \in Successors(NextState(system, s, in), in)
    BY <2>1 DEF Successors
  <2> QED
    BY <1>8, <2>1, <2>2
<1>11. ASSUME NEW s \in V, NEW in \in Inputs PROVE <<s, in>> \notin ReversedSteps
  <2> SUFFICES ASSUME <<s, in>> \in ReversedSteps PROVE FALSE
    OBVIOUS
  <2>1. PICK u : u = NextState(system, s, in)
    OBVIOUS
  <2>2. <<u, in>> \in system.error /\ SharedGates(system, u, in) = SharedGates(system, s, in)
    BY <2>1 DEF ReversedSteps
  <2>3. u \in States /\ s \in States /\ s \in Successors(u, in)
    BY <1>2, <2>1, NextIsState DEF Successors
  <2>4. FrameModel(0, u, in)
    BY <1>2, <2>2, <2>3 DEF FrameModel, IsInitial
  <2>5. 1 \in 1 .. depth /\ 1 \in 1 .. i
    BY <1>2
  <2>6. ASSUME NEW c \in blocked[1], Holds(c, s) PROVE FALSE
    <3>1. ~\E v \in States, jn \in Inputs : TraceModel(1, c, v, jn)
      BY <2>5 DEF FrameInv, TraceInv, BlockedHaveNoPredecessor, Unreached
    <3>2. TraceModel(1, c, u, in)
      BY <2>2, <2>3, <2>4, <2>6 DEF TraceModel
    <3> QED
      BY <2>3, <3>1, <3>2
  <2>7. s \in R(1)
    BY <2>3, <2>6 DEF R
  <2>8. s \in W
    BY <1>7, <2>5, <2>7
  <2> QED
    BY <2>8
<1>12. V \in SUBSET States
  OBVIOUS
<1> HIDE DEF W, V
<1>13. PICK in \in Inputs : TRUE
  BY InputsAssumption
<1> QED
  BY <1>9, <1>10, <1>11, <1>12, <1>13 DEF ReversedSafe

\* No error state is left to push, or an inductive frame was found.
LEMMA ReturnOkObligations == ASSUME IInv, PushedAll \/ FoundInductive PROVE ObligationInv'
<1>1. TypeInv /\ TypeOK /\ FrameInv /\ PoolInv /\ LevelZeroIsInitial /\ ScanIsLate
  BY DEF IInv, TypeInv, ObligationInv
<1>2. UNCHANGED <<input, trace, cotrace, queue, scan>> /\ pc' = "done" /\ result' = "ok"
  BY DEF PushedAll, FoundInductive
<1>3. IsInductive
  BY <1>1, PushedAllIsInductive DEF PushedAll, FoundInductive
<1>4. ReversalIsExact => Safe(system)
  BY <1>1, <1>3, InductiveIsSafe
<1>r. system' = system /\ opts' = opts /\ ReversedSteps' = ReversedSteps
  BY <1>2 DEF input, ReversedSteps
<1>b. BackwardInv'
  BY <1>1, <1>3, <1>r, InductiveIsReversedSafe DEF BackwardInv, ReversedSafe
<1>5. VerdictInv'
  BY <1>2, <1>4, <1>b, <1>r DEF VerdictInv, ReversalIsExact, Safe, SafeInvariant
<1>6. PoolInv' /\ LevelZeroIsInitial'
  BY <1>1, <1>2, ObligationsKept DEF cotrace
<1>7. ScanIsLate'
  BY <1>1, <1>2 DEF ScanIsLate, scan, trace
<1> QED
  BY <1>2, <1>5, <1>6, <1>7 DEF ObligationInv, PredecessorInv

\* The other steps.
LEMMA ObligationStep == ASSUME IInv, [Next]_vars PROVE ObligationInv'
<1>1. /\ TypeInv /\ TypeOK /\ PoolInv /\ LevelZeroIsInitial /\ ScanIsLate /\ PredecessorInv /\ VerdictInv
      /\ depth \in Nat
  BY DEF IInv, TypeInv, TypeOK, ObligationInv
<1>2. ASSUME UNCHANGED <<input, cotrace, verdict>>, \A o \in queue' : o \in queue \/ Level(o) # 0,
             ScanIsLate', PredecessorInv'
      PROVE  ObligationInv'
  BY <1>1, <1>2, ObligationsKept, VerdictUnchanged DEF ObligationInv, cotrace
<1>3. CASE ScanCube
  <2>1. /\ UNCHANGED <<input, trace, cotrace, level, verdict>> /\ pc' = "solve"
        /\ \E h \in handles : handles' = handles \ {h} /\ queue' = {<<depth, level, h>>}
    BY <1>3 DEF ScanCube, Obligation
  <2>2. ScanIsLate' /\ PredecessorInv' /\ depth # 0
    BY <1>1, <2>1 DEF ScanIsLate, PredecessorInv, trace
  <2>3. \A o \in queue' : Level(o) # 0
    BY <2>1, <2>2 DEF Level
  <2> QED
    BY <1>2, <2>1, <2>2, <2>3
<1>4. CASE ScanNext
  BY <1>1, <1>2, <1>4 DEF ScanNext, ScanIsLate, PredecessorInv, trace
<1>5. CASE ScanDone
  BY <1>1, <1>2, <1>5 DEF ScanDone, ScanIsLate, PredecessorInv, trace, scan
<1>6. CASE NoErrorState
  BY <1>1, <1>2, <1>6 DEF NoErrorState, ScanIsLate, PredecessorInv
<1>7. CASE SkipSubsumed
  BY <1>1, <1>2, <1>7 DEF SkipSubsumed, ScanIsLate, PredecessorInv, trace, scan
<1>8. CASE PopObligation
  BY <1>1, <1>2, <1>8 DEF PopObligation, ScanIsLate, PredecessorInv, trace, scan
<1>9. CASE AllBlocked
  BY <1>1, <1>2, <1>9 DEF AllBlocked, ScanIsLate, PredecessorInv, trace, scan, TypeOK
<1>10. CASE FoundPredecessor
  <2>1. /\ UNCHANGED <<input, trace, cotrace, queue, po, scan, verdict>> /\ pc = "query" /\ pc' = "generalize"
        /\ \E s \in States, in \in Inputs :
            /\ StepModel(WithSolver, Level(po), StateVars(po), s, in)
            /\ model' = [state |-> s, input |-> in]
    BY <1>10 DEF FoundPredecessor
  <2>2. PICK s \in States, in \in Inputs :
            /\ StepModel(WithSolver, Level(po), StateVars(po), s, in)
            /\ model' = [state |-> s, input |-> in]
    BY <2>1
  <2>3. FrameModel(Level(po) - 1, s, in)
    BY <2>1, <2>2, PredecessorFound
  <2>4. FrameModel(Level(po) - 1, model.state, model.input)'
    BY <2>1, <2>2, <2>3 DEF FrameModel, IsInitial, Level, input, trace
  <2> QED
    BY <1>1, <1>2, <2>1, <2>4 DEF PredecessorInv, ScanIsLate, trace, scan
<1>11. ASSUME NEW sv, NEW c, BlockObligation(sv, c), UNCHANGED <<input, depth, cotrace, scan, verdict>>, pc \in Working
       PROVE  ObligationInv'
  <2>1. queue' \subseteq queue \cup {<<Level(po) + 1, Colevel(po), Handle(po)>>} /\ pc' = "solve"
    BY <1>11 DEF BlockObligation, Obligation
  <2>2. Level(po) \in Nat
    BY <1>1, <1>11, WorkingType
  <2>3. \A o \in queue' : o \in queue \/ Level(o) # 0
    <3> DEFINE l == Level(po) + 1
    <3>1. l # 0 /\ queue' \subseteq queue \cup {<<l, Colevel(po), Handle(po)>>}
      BY <2>1, <2>2
    <3> HIDE DEF l
    <3> QED
      BY <3>1 DEF Level
  <2> QED
    BY <1>1, <1>2, <1>11, <2>1, <2>3 DEF PredecessorInv, ScanIsLate, scan
<1>12. CASE NoPredecessor
  <2>1. CASE opts.mucBlocked
    BY <1>1, <1>2, <1>12, <2>1 DEF NoPredecessor, ScanIsLate, PredecessorInv, scan
  <2>2. CASE ~opts.mucBlocked
    BY <1>11, <1>12, <2>2 DEF NoPredecessor, Working
  <2> QED
    BY <2>1, <2>2
<1>13. CASE ShrinkBlocked
  BY <1>1, <1>2, <1>13 DEF ShrinkBlocked, ScanIsLate, PredecessorInv, trace, scan
<1>14. CASE MinimalBlocked
  BY <1>11, <1>14 DEF MinimalBlocked, Working
<1>15. CASE PropagateCube
  <2>1. depth # 0 /\ depth' = depth
    BY <1>1, <1>15 DEF PropagateCube, TypeOK
  <2> QED
    BY <1>1, <1>2, <1>15, <2>1 DEF PropagateCube, ScanIsLate, PredecessorInv
<1>16. CASE PropagateNext \/ NextRound
  <2>1. depth # 0 /\ depth' = depth
    BY <1>1, <1>16 DEF PropagateNext, NextRound, TypeOK, trace
  <2> QED
    BY <1>1, <1>2, <1>16, <2>1 DEF PropagateNext, NextRound, ScanIsLate, PredecessorInv
<1>17. CASE UNCHANGED vars
  BY <1>1, <1>2, <1>17 DEF vars, ScanIsLate, PredecessorInv, FrameModel, IsInitial, IsPredecessorCore, Successors,
     StateVars, Level, Handle, input, trace, cotrace, generalization, scan
<1> QED
  BY <1>3, <1>4, <1>5, <1>6, <1>7, <1>8, <1>9, <1>10, <1>12, <1>13, <1>14, <1>15, <1>16, <1>17,
     NewErrorStateObligations, FoundCounterexampleObligations, WholePredecessorObligations,
     GeneralizeObligations, ReturnOkObligations DEF Next, Returned

\* There is no obligation at first.
LEMMA InitObligations == Init => ObligationInv
BY DEF Init, ObligationInv, PoolInv, LevelZeroIsInitial, ScanIsLate, PredecessorInv, VerdictInv, BackwardInv, Handles

\* The invariant holds in every state of every execution.
LEMMA Invariant == Spec => []IInv
<1>1. Init => IInv
  BY InitType, InitFrames, InitObligations DEF IInv
<1>2. IInv /\ [Next]_vars => IInv'
  BY TypeStep, TraceStep, CandidateStep, ObligationStep DEF IInv, FrameInv
<1> QED
  BY <1>1, <1>2, PTL DEF Spec, SafetySpec

\* A counterexample is only ever returned for an unsafe system, by both engines
\* and whatever the reversal does.
THEOREM CARCounterexamplesAreDeserved == Spec => [](result = "counterexample" => ~Safe(system))
<1>1. IInv => (result = "counterexample" => ~Safe(system))
  BY DEF IInv, ObligationInv, VerdictInv
<1> QED
  BY <1>1, Invariant, PTL

\* "ok" of the backward engine, whatever the reversal does: no initial state is an
\* error and no execution of the system ends in a step into one that its own inputs
\* trigger and that leaves the shared gates alone.
THEOREM CARBackwardOkIsReversedSafe ==
    Spec => [](result = "ok" /\ ~opts.forward => ReversedSafe(system, ReversedSteps))
<1>1. IInv => (result = "ok" /\ ~opts.forward => ReversedSafe(system, ReversedSteps))
  BY DEF IInv, ObligationInv, VerdictInv, BackwardInv
<1> QED
  BY <1>1, Invariant, PTL

\* The verdicts of the forward engine are right, and those of the backward engine
\* when the reversed system is the reverse of the system.
THEOREM CARVerdictsAreCorrect == Spec => [](ReversalIsExact => VerdictIsCorrect)
<1>1. IInv => (ReversalIsExact => VerdictIsCorrect)
  BY DEF IInv, ObligationInv, VerdictInv, VerdictIsCorrect
<1> QED
  BY <1>1, Invariant, PTL

\* The contract reads the transition system as the engine does.
LEMMA SafeInEngine == ASSUME NEW sys PROVE Engine!Safe(sys) = Safe(sys)
<1>1. \A c, s : Engine!Holds(c, s) = Holds(c, s)
  BY DEF Engine!Holds, Holds
<1>2. Engine!States = States
  BY DEF Engine!States, States
<1>3. \A s, i : Engine!NextState(sys, s, i) = NextState(sys, s, i)
  BY DEF Engine!NextState, NextState
<1>4. \A Inv : Engine!SafeInvariant(sys, Inv) = SafeInvariant(sys, Inv)
  BY <1>1, <1>2, <1>3 DEF Engine!SafeInvariant, SafeInvariant
<1> QED
  BY <1>2, <1>4 DEF Engine!Safe, Safe

\* The system and the options stay, and a result is only set while there is none.
LEMMA StepsReturnOnce ==
    ASSUME IInv, [Next]_vars
    PROVE  /\ UNCHANGED input
           /\ \/ UNCHANGED result
              \/ result = "none" /\ result' \in {"ok", "counterexample"}
<1>1. pc # "done" => result = "none"
  BY DEF IInv, TypeInv
<1>2. UNCHANGED input
  BY DEF Next, vars, ScanCube, ScanNext, ScanDone, NewErrorState, NoErrorState, FoundCounterexample,
     SkipSubsumed, PopObligation, AllBlocked, WholePredecessor, FoundPredecessor, GeneralizePredecessor,
     NoPredecessor, ShrinkPredecessor, MinimalPredecessor, ShrinkBlocked, MinimalBlocked, PropagateCube,
     PropagateNext, PushedAll, FoundInductive, NextRound, Returned
<1>3. \/ UNCHANGED result
      \/ pc # "done" /\ result' \in {"ok", "counterexample"}
  BY DEF Next, vars, verdict, ScanCube, ScanNext, ScanDone, NewErrorState, NoErrorState, FoundCounterexample,
     SkipSubsumed, PopObligation, AllBlocked, WholePredecessor, FoundPredecessor, GeneralizePredecessor,
     NoPredecessor, ShrinkPredecessor, MinimalPredecessor, ShrinkBlocked, MinimalBlocked, PropagateCube,
     PropagateNext, PushedAll, FoundInductive, NextRound, Returned
<1> QED
  BY <1>1, <1>2, <1>3

\* The engines implement the contract their callers rely on: each step returns
\* the one verdict that is right or is invisible to the caller.
THEOREM CARImplementsEngine == Spec /\ ReversalIsExact => ImplementsEngine
<1>1. Init => Engine!Init
  BY DEF Init, Engine!Init
<1>2. ASSUME ReversalIsExact, UNCHANGED input PROVE ReversalIsExact'
  BY <1>2 DEF ReversalIsExact, input
<1>3. ASSUME IInv, IInv', ReversalIsExact, [Next]_vars
      PROVE  ReversalIsExact' /\ [Engine!Next]_<<system, result>>
  <2>1. UNCHANGED input
    BY <1>3, StepsReturnOnce
  <2>2. ReversalIsExact' /\ system' = system
    BY <1>2, <1>3, <2>1 DEF input
  <2>3. /\ result' = "ok" => Safe(system)
        /\ result' = "counterexample" => ~Safe(system)
    BY <1>3, <2>2 DEF IInv, ObligationInv, VerdictInv, Safe, SafeInvariant
  <2>4. CASE result = "none" /\ result' = "ok"
    BY <2>2, <2>3, <2>4, SafeInEngine DEF Engine!Next, Engine!ReturnOk
  <2>5. CASE result = "none" /\ result' = "counterexample"
    BY <2>2, <2>3, <2>5, SafeInEngine DEF Engine!Next, Engine!ReturnCounterexample
  <2>6. CASE UNCHANGED result
    BY <2>2, <2>6
  <2> QED
    BY <1>3, <2>2, <2>4, <2>5, <2>6, StepsReturnOnce
<1> QED
  BY <1>1, <1>3, Invariant, PTL DEF Spec, SafetySpec, ImplementsEngine, Engine!SafetySpec, Engine!vars

-----------------------------------------------------------------------------
(* The counterexamples of the CAR engines are executions: the pool of the  *)
(* cotrace is a forest whose paths are as long as the coframes say and     *)
(* lead to the error, or in the backward mode from the initial states, and *)
(* build_counterexample reads one of them in the right direction.          *)

\* Every state of an entry has a step into the next entry's cube, or is an error.
EntriesLead ==
    \A h \in Handles : \A s \in States : Holds(pool[h].state, s) =>
        IF pool[h].succ = NoSuccessor
        THEN IsError(s, pool[h].input)
        ELSE \E t \in Successors(s, pool[h].input) : Holds(pool[pool[h].succ].state, t)

\* An entry has a state in it, and in the backward mode it is one whole state.
EntriesInhabited ==
    \A h \in Handles : \E s \in States :
        Holds(pool[h].state, s) /\ (~opts.forward => pool[h].state = CubeOf(s))

PathInv == Linked(pool) /\ EntriesLead /\ EntriesInhabited

\* In the backward mode the inputs of the entry that reached level 0 are those
\* that make its state an error of the system.
LevelZeroHasInputs ==
    \A o \in queue : Level(o) = 0 /\ ~opts.forward =>
        <<GetVars(StateVars(o)), pool[Handle(o)].input>> \in system.error

\* The number of steps from an entry to the end of its path.
Steps(q, h) == Len(PathIn(q, h)) - 1

\* Coframes, obligations and the scan count them.
CoframesCount == \A j \in 0 .. codepth : \A h \in reaching[j] : Steps(pool, h) = j

ObligationsCount ==
    /\ \A o \in queue : Steps(pool, Handle(o)) = Colevel(o)
    /\ pc \in Working => Steps(pool, Handle(po)) = Colevel(po)

ScanCounts == \A h \in handles : Steps(pool, h) = level

\* check_existing_cotrace is over when the new error states are looked for, so
\* that propagate may use its variable.
ScanIsOver ==
    pc \in {"error", "propagate"} \/ (pc \in {"solve"} \cup Working /\ phase = "error") => handles = {}

CountInv == CoframesCount /\ ObligationsCount /\ ScanCounts /\ ScanIsOver

CexInv == CounterexampleReplays /\ CounterexampleStartsInInit

PathsInv == PathInv /\ CountInv /\ LevelZeroHasInputs /\ CexInv

-----------------------------------------------------------------------------
(* New entries.                                                            *)

\* The path build_counterexample follows is the path of the pool.
LEMMA PathFromIs == \A h : PathFrom(h) = PathIn(pool, h)
BY DEF PathFrom, PathIn, Handles, NoSuccessor

\* A new entry in front of entry h, or of none, gives the pool one more path and
\* changes none.
LEMMA ReachKeepsPaths ==
    ASSUME TypeOK, PathInv, NEW c \in Cubes, NEW in \in Inputs, NEW h \in 0 .. Len(pool),
           NEW cl \in 0 .. codepth + 1, Reach(c, in, h, cl), UNCHANGED input,
           NEW s \in States, Holds(c, s), ~opts.forward => c = CubeOf(s),
           \A u \in States : Holds(c, u) =>
                IF h = 0 THEN IsError(u, in) ELSE \E t \in Successors(u, in) : Holds(pool[h].state, t)
    PROVE  /\ PathInv'
           /\ \A g \in Handles : PathIn(pool', g) = PathIn(pool, g)
           /\ h = 0 => Len(PathIn(pool', NextHandle)) = 1
           /\ h # 0 => Len(PathIn(pool', NextHandle)) = Len(PathIn(pool, h)) + 1
<1>1. Len(pool) \in Nat /\ h \in Nat /\ (h # 0 => h \in Handles)
  BY DEF TypeOK, Handles
<1>2. /\ Len(pool') = Len(pool) + 1
      /\ pool'[NextHandle] = [state |-> c, input |-> in, succ |-> h]
      /\ \A g \in Handles : pool'[g] = pool[g]
      /\ Handles' = Handles \cup {NextHandle}
      /\ NextHandle \notin Handles
  BY <1>1, ReachGrows DEF NextHandle
<1>3. pool'[NextHandle].state = c /\ pool'[NextHandle].input = in /\ pool'[NextHandle].succ = h
  BY <1>2
<1>4. Linked(pool')
  <2>1. \A g \in Handles : pool'[g].succ \in 0 .. g - 1
    BY <1>2 DEF PathInv, Linked, Handles
  <2>2. pool'[NextHandle].succ \in 0 .. NextHandle - 1
    BY <1>1, <1>3 DEF NextHandle
  <2>3. \A g \in 1 .. Len(pool') : g = NextHandle \/ g \in Handles
    BY <1>1, <1>2 DEF NextHandle, Handles
  <2> QED
    BY <2>1, <2>2, <2>3 DEF Linked
<1>5. \A u, jn : (IsError(u, jn)' <=> IsError(u, jn)) /\ Successors(u, jn)' = Successors(u, jn)
  BY DEF IsError, Successors, input
<1>6. EntriesLead'
  <2> SUFFICES ASSUME NEW g \in Handles', NEW u \in States, Holds(pool'[g].state, u)
               PROVE  IF pool'[g].succ = 0 THEN IsError(u, pool'[g].input)
                      ELSE \E t \in Successors(u, pool'[g].input) : Holds(pool'[pool'[g].succ].state, t)
    BY <1>5 DEF EntriesLead, NoSuccessor
  <2>1. CASE g = NextHandle
    <3>1. h # 0 => pool'[h] = pool[h]
      BY <1>1, <1>2
    <3>2. Holds(c, u)
      BY <1>3, <2>1
    <3>3. CASE h = 0
      BY <1>3, <2>1, <3>2, <3>3
    <3>4. CASE h # 0
      BY <1>3, <2>1, <3>1, <3>2, <3>4
    <3> QED
      BY <3>3, <3>4
  <2>2. CASE g \in Handles
    <3>1. pool'[g] = pool[g] /\ Holds(pool[g].state, u)
      BY <1>2, <2>2
    <3>2. pool[g].succ # 0 => pool'[pool[g].succ] = pool[pool[g].succ]
      <4>1. pool[g].succ \in 0 .. g - 1
        BY <2>2 DEF PathInv, Linked, Handles
      <4>2. pool[g].succ # 0 => pool[g].succ \in Handles
        BY <1>1, <2>2, <4>1 DEF Handles
      <4> QED
        BY <1>2, <4>2
    <3>3. IF pool[g].succ = 0 THEN IsError(u, pool[g].input)
          ELSE \E t \in Successors(u, pool[g].input) : Holds(pool[pool[g].succ].state, t)
      BY <2>2, <3>1 DEF PathInv, EntriesLead, NoSuccessor
    <3> QED
      BY <3>1, <3>2, <3>3
  <2> QED
    BY <1>2, <2>1, <2>2
<1>7. EntriesInhabited'
  <2>1. ASSUME NEW g \in Handles'
        PROVE  \E u \in States : Holds(pool'[g].state, u) /\ (~opts.forward => pool'[g].state = CubeOf(u))
    <3>1. CASE g = NextHandle
      BY <1>3, <3>1
    <3>2. CASE g \in Handles
      BY <1>2, <3>2 DEF PathInv, EntriesInhabited
    <3> QED
      BY <1>2, <3>1, <3>2
  <2> QED
    BY <2>1 DEF EntriesInhabited, input
<1>8. \A g \in Handles : PathIn(pool', g) = PathIn(pool, g)
  <2>1. /\ Len(pool') \in Nat /\ Len(pool) <= Len(pool') /\ Linked(pool)
        /\ \A g \in 1 .. Len(pool) : pool'[g] = pool[g]
    BY <1>1, <1>2 DEF PathInv, Handles
  <2> QED
    BY <1>1, <1>4, <2>1, PathsAgree DEF Handles
<1>9. /\ h = 0 => Len(PathIn(pool', NextHandle)) = 1
      /\ h # 0 => Len(PathIn(pool', NextHandle)) = Len(PathIn(pool', h)) + 1
  <2>1. NextHandle \in 1 .. Len(pool') /\ Len(pool') \in Nat
    BY <1>1, <1>2 DEF NextHandle
  <2> QED
    BY <1>3, <1>4, <2>1, PathInLength
<1> QED
  BY <1>1, <1>4, <1>6, <1>7, <1>8, <1>9 DEF PathInv

\* The counts after a new entry with cl steps in coframe cl.
LEMMA ReachKeepsCounts ==
    ASSUME TypeOK, CoframesCount, NEW c \in Cubes, NEW in \in Inputs, NEW h \in Nat,
           NEW cl \in 0 .. codepth + 1, Reach(c, in, h, cl),
           \A g \in Handles : PathIn(pool', g) = PathIn(pool, g),
           Len(PathIn(pool', NextHandle)) = cl + 1
    PROVE  /\ \A g \in Handles : Steps(pool', g) = Steps(pool, g)
           /\ Steps(pool', NextHandle) = cl
           /\ CoframesCount'
<1>1. /\ codepth \in Nat /\ reaching \in [0 .. codepth -> SUBSET Handles]
      /\ codepth' \in Nat /\ codepth <= codepth'
  BY ReachGrows DEF TypeOK
<1>2. \A g \in Handles : Steps(pool', g) = Steps(pool, g)
  BY DEF Steps
<1>3. Steps(pool', NextHandle) = cl
  BY <1>1 DEF Steps
<1>4. ASSUME NEW j \in 0 .. codepth', NEW g \in reaching'[j] PROVE Steps(pool', g) = j
  <2>1. reaching'[j] \subseteq (IF j <= codepth THEN reaching[j] ELSE {}) \cup (IF j = cl THEN {NextHandle} ELSE {})
    BY DEF Reach
  <2>2. CASE j <= codepth /\ g \in reaching[j]
    <3>1. j \in 0 .. codepth /\ g \in Handles
      BY <1>1, <2>2
    <3> QED
      BY <1>2, <2>2, <3>1 DEF CoframesCount
  <2>3. CASE j = cl /\ g = NextHandle
    BY <1>3, <2>3
  <2> QED
    BY <2>1, <2>2, <2>3
<1>5. CoframesCount'
  BY <1>4 DEF CoframesCount
<1> QED
  BY <1>2, <1>3, <1>5

-----------------------------------------------------------------------------
(* Steps.                                                                  *)

\* The cotrace stays, or gets an error state, or a predecessor of an obligation.
LEMMA PathKinds ==
    ASSUME IInv, [Next]_vars
    PROVE  \/ UNCHANGED cotrace
           \/ NewErrorState
           \/ /\ pc \in Working
              /\ UNCHANGED <<input, phase, trace, scan, verdict>>
              /\ \E c \in Cubes, s \in States, in \in Inputs : IsPredecessor(c, s, in) /\ PushPredecessor(c, in)
<1>1. CASE WholePredecessor
  <2>1. PICK s \in States, in \in Inputs :
            StepModel(WithSolver, Level(po), StateVars(po), s, in) /\ PushPredecessor(CubeOf(s), in)
    BY <1>1 DEF WholePredecessor
  <2>2. pc = "query" /\ pc \in Working /\ ~opts.forward /\ UNCHANGED <<input, phase, trace, scan, verdict>>
    BY <1>1 DEF WholePredecessor, Working
  <2>3. CubeOf(s) \in Cubes /\ Holds(CubeOf(s), s)
    BY CubeOfState
  <2>4. IsPredecessor(CubeOf(s), s, in)
    BY <2>1, <2>2, <2>3, PredecessorFound DEF IsPredecessor
  <2> QED
    BY <2>1, <2>2, <2>3, <2>4
<1>2. CASE GeneralizePredecessor
  <2>1. PICK core \in SUBSET CubeOf(model.state) :
            /\ IsPredecessorCore(core, StateVars(po), model.input)
            /\ UNCHANGED cotrace \/ PushPredecessor(core, model.input)
    BY <1>2 DEF GeneralizePredecessor
  <2>2. pc = "generalize" /\ pc \in Working /\ UNCHANGED <<input, phase, trace, scan, verdict>>
    BY <1>2 DEF GeneralizePredecessor, Working
  <2>3. /\ core \in Cubes /\ model.state \in States /\ model.input \in Inputs
        /\ IsPredecessor(core, model.state, model.input)
    BY <2>1, <2>2, CoreIsPredecessor
  <2> QED
    BY <2>1, <2>2, <2>3
<1>3. CASE MinimalPredecessor
  <2>1. /\ pc = "shrinkpred" /\ pc \in Working /\ PushPredecessor(cand, model.input)
        /\ cand \in SUBSET CubeOf(model.state) /\ IsPredecessorCore(cand, StateVars(po), model.input)
        /\ UNCHANGED <<input, phase, trace, scan, verdict>>
    BY <1>3 DEF MinimalPredecessor, Working, IInv, ObligationInv, PredecessorInv
  <2>2. /\ cand \in Cubes /\ model.state \in States /\ model.input \in Inputs
        /\ IsPredecessor(cand, model.state, model.input)
    BY <2>1, CoreIsPredecessor
  <2> QED
    BY <2>1, <2>2
<1>4. CASE UNCHANGED vars
  BY <1>4 DEF vars
<1> QED
  BY <1>1, <1>2, <1>3, <1>4 DEF Next, ScanCube, ScanNext, ScanDone, NoErrorState,
     FoundCounterexample, SkipSubsumed, PopObligation, AllBlocked, FoundPredecessor, NoPredecessor,
     ShrinkPredecessor, ShrinkBlocked, MinimalBlocked, PropagateCube, PropagateNext, PushedAll,
     FoundInductive, NextRound, Returned

\* get_error_state adds a path of one entry.
LEMMA NewErrorStatePaths ==
    ASSUME IInv, PathsInv, NewErrorState
    PROVE  PathInv' /\ CountInv' /\ LevelZeroHasInputs'
<1>1. TypeOK /\ PathInv /\ CountInv /\ depth \in Nat /\ codepth \in Nat /\ Len(pool) \in Nat
  BY DEF IInv, TypeInv, TypeOK, PathsInv
<1>2. PICK s \in States, in \in Inputs :
            InFrame(WithSolver, depth, s, in) /\ IsError(s, in) /\ Reach(CubeOf(s), in, 0, 0)
  BY DEF NewErrorState, NoSuccessor
<1>3. /\ CubeOf(s) \in Cubes /\ 0 \in 0 .. Len(pool) /\ 0 \in Nat /\ 0 \in 0 .. codepth + 1
      /\ Holds(CubeOf(s), s) /\ \A t \in States : Holds(CubeOf(s), t) <=> t = s
  BY <1>1, CubeOfState
<1>4. /\ UNCHANGED <<input, scan>> /\ pc = "error" /\ pc' = "solve"
      /\ queue' = {<<depth, 0, NextHandle>>}
  BY DEF NewErrorState, Obligation
<1>5. /\ PathInv'
      /\ \A g \in Handles : PathIn(pool', g) = PathIn(pool, g)
      /\ Len(PathIn(pool', NextHandle)) = 1
  BY <1>1, <1>2, <1>3, <1>4, ReachKeepsPaths
<1>6. Steps(pool', NextHandle) = 0 /\ CoframesCount'
  BY <1>1, <1>2, <1>3, <1>5, ReachKeepsCounts DEF CountInv
<1>7. ObligationsCount'
  BY <1>4, <1>6 DEF ObligationsCount, Handle, Colevel, Working
<1>8. handles = {} /\ handles' = {}
  BY <1>1, <1>4 DEF CountInv, ScanIsOver, scan
<1>9. CountInv'
  BY <1>6, <1>7, <1>8 DEF CountInv, ScanCounts, ScanIsOver
<1>10. LevelZeroHasInputs'
  <2> SUFFICES ASSUME depth = 0, ~opts.forward
               PROVE  <<GetVars(pool'[NextHandle].state), pool'[NextHandle].input>> \in system.error
    BY <1>4 DEF LevelZeroHasInputs, Level, Handle, StateVars, input
  <2>1. <<s, in>> \in system.error
    BY <1>2 DEF InFrame, IsInitial
  <2>2. pool'[NextHandle] = [state |-> CubeOf(s), input |-> in, succ |-> 0]
    BY <1>1, <1>2, <1>3, ReachGrows DEF NextHandle
  <2> QED
    BY <2>1, <2>2, GetVarsOfState
<1> QED
  BY <1>5, <1>9, <1>10

\* A predecessor gets a path one longer than that of its obligation, in the next
\* coframe.
LEMMA PushPredecessorPaths ==
    ASSUME IInv, PathsInv, pc \in Working, UNCHANGED <<input, phase, scan>>,
           NEW c \in Cubes, NEW s \in States, NEW in \in Inputs,
           IsPredecessor(c, s, in), PushPredecessor(c, in)
    PROVE  PathInv' /\ CountInv' /\ LevelZeroHasInputs'
<1>1. /\ TypeOK /\ PathInv /\ CountInv /\ LevelZeroHasInputs /\ Len(pool) \in Nat /\ system \in Systems
      /\ queue \subseteq (0 .. depth) \X (0 .. codepth) \X Handles /\ handles \subseteq Handles
  BY DEF IInv, TypeInv, TypeOK, PathsInv
<1>2. /\ depth \in Nat /\ codepth \in Nat
      /\ Level(po) \in 1 .. depth /\ Colevel(po) \in 0 .. codepth /\ Handle(po) \in Handles
  BY <1>1, WorkingType
<1> DEFINE h == Handle(po)
           l == Level(po) - 1
           cl == Colevel(po) + 1
<1>3. /\ Reach(c, in, h, cl) /\ UNCHANGED input
      /\ queue' = queue \cup {<<l, cl, NextHandle>>, po}
      /\ pc' = "solve" /\ UNCHANGED <<phase, scan>>
  BY DEF PushPredecessor, Obligation
<1>4. /\ h \in Nat /\ h # 0 /\ h \in 0 .. Len(pool) /\ h \in Handles
      /\ cl \in 0 .. codepth + 1 /\ cl \in Nat /\ l \in Nat
      /\ l = 0 <=> Level(po) - 1 = 0
  BY <1>1, <1>2 DEF Handles
<1>5. Holds(c, s) /\ (~opts.forward => c = CubeOf(s))
  BY DEF IsPredecessor
<1>6. ASSUME NEW u \in States, Holds(c, u)
      PROVE  \E t \in Successors(u, in) : Holds(pool[h].state, t)
  <2>1. CASE opts.forward
    <3>1. \A t \in Successors(u, in) : Holds(StateVars(po), t)
      BY <1>6, <2>1 DEF IsPredecessor, IsPredecessorCore
    <3> QED
      BY <2>1, <3>1 DEF Successors, StateVars
  <2>2. CASE ~opts.forward
    <3>1. u = s
      BY <1>5, <1>6, <2>2, CubeOfState
    <3> QED
      BY <2>2, <3>1 DEF IsPredecessor, StateVars
  <2> QED
    BY <2>1, <2>2
<1> HIDE DEF h, l, cl
<1>7. /\ PathInv'
      /\ \A g \in Handles : PathIn(pool', g) = PathIn(pool, g)
      /\ Len(PathIn(pool', NextHandle)) = Len(PathIn(pool, h)) + 1
  BY <1>1, <1>3, <1>4, <1>5, <1>6, ReachKeepsPaths
<1>8. Steps(pool, h) = Colevel(po)
  BY <1>1 DEF CountInv, ObligationsCount, h
<1>9. Len(PathIn(pool', NextHandle)) = cl + 1
  <2>1. Len(PathIn(pool, h)) \in Nat
    <3>1. IsPathOf(pool, h, PathIn(pool, h))
      BY <1>1, <1>4, PathInLinks DEF PathInv, Handles
    <3> QED
      BY <3>1 DEF IsPathOf
  <2> QED
    BY <1>2, <1>7, <1>8, <2>1 DEF Steps, cl
<1>10. /\ \A g \in Handles : Steps(pool', g) = Steps(pool, g)
       /\ Steps(pool', NextHandle) = cl
       /\ CoframesCount'
  BY <1>1, <1>3, <1>4, <1>7, <1>9, ReachKeepsCounts DEF CountInv
<1>11. ObligationsCount'
  <2>1. ASSUME NEW o \in queue' PROVE Steps(pool', Handle(o)) = Colevel(o)
    <3>1. CASE o \in queue
      <4>1. Handle(o) \in Handles
        BY <1>1, <3>1 DEF Handle
      <4> QED
        BY <1>1, <1>10, <3>1, <4>1 DEF CountInv, ObligationsCount
    <3>2. CASE o = <<l, cl, NextHandle>>
      BY <1>10, <3>2 DEF Handle, Colevel
    <3>3. CASE o = po
      BY <1>4, <1>8, <1>10, <3>3 DEF h
    <3> QED
      BY <1>3, <2>1, <3>1, <3>2, <3>3
  <2> QED
    BY <1>3, <2>1 DEF ObligationsCount, Handle, Colevel, Working
<1>12. ScanCounts' /\ ScanIsOver'
  <2>1. UNCHANGED <<level, handles>>
    BY <1>3 DEF scan
  <2>2. ScanCounts'
    BY <1>1, <1>10, <2>1 DEF CountInv, ScanCounts
  <2> QED
    BY <1>1, <1>3, <2>1, <2>2 DEF CountInv, ScanIsOver
<1>13. LevelZeroHasInputs'
  <2> SUFFICES ASSUME NEW o \in queue', o[1] = 0, ~opts.forward
               PROVE  <<GetVars(pool'[o[3]].state), pool'[o[3]].input>> \in system.error
    BY <1>3 DEF LevelZeroHasInputs, Level, Handle, StateVars, input
  <2>1. CASE o \in queue
    <3>1. o[3] \in Handles
      BY <1>1, <2>1
    <3>2. pool'[o[3]] = pool[o[3]]
      BY <1>1, <1>3, <1>4, <3>1, ReachGrows
    <3> QED
      BY <1>1, <2>1, <3>2 DEF LevelZeroHasInputs, Level, Handle, StateVars
  <2>2. CASE o = <<l, cl, NextHandle>>
    <3>1. l = 0 /\ o[3] = NextHandle
      BY <2>2
    <3>2. <<s, in>> \in system.error
      BY <1>4, <3>1 DEF IsPredecessor, FrameModel, IsInitial
    <3>3. pool'[NextHandle] = [state |-> c, input |-> in, succ |-> h]
      BY <1>1, <1>3, <1>4, ReachGrows DEF NextHandle
    <3> QED
      BY <1>5, <3>1, <3>2, <3>3, GetVarsOfState
  <2>3. CASE o = po
    <3>1. Level(po) = 0
      BY <2>3 DEF Level
    <3> QED
      BY <1>2, <3>1
  <2> QED
    BY <1>3, <2>1, <2>2, <2>3
<1> QED
  BY <1>7, <1>10, <1>11, <1>12, <1>13 DEF CountInv

\* A step that leaves the cotrace alone keeps its paths, given what it does to the
\* obligations and to the scan.
LEMMA QuietPaths ==
    ASSUME PathsInv, UNCHANGED <<input, cotrace>>,
           \A o \in queue' : o \in queue \/ Level(o) # 0,
           \A o \in queue' : Steps(pool, Handle(o)) = Colevel(o),
           pc' \in Working => Steps(pool, Handle(po')) = Colevel(po'),
           \A h \in handles' : Steps(pool, h) = level',
           ScanIsOver'
    PROVE  PathInv' /\ CountInv' /\ LevelZeroHasInputs'
<1>1. PathInv'
  BY DEF PathsInv, PathInv, EntriesLead, EntriesInhabited, IsError, Successors, Handles, input, cotrace
<1>2. CountInv'
  BY DEF PathsInv, CountInv, CoframesCount, ObligationsCount, ScanCounts, Handle, Colevel, cotrace
<1>3. LevelZeroHasInputs'
  BY DEF PathsInv, LevelZeroHasInputs, Level, Handle, StateVars, input, cotrace
<1> QED
  BY <1>1, <1>2, <1>3

\* The blocked obligation may come back one level up, with the same path.
LEMMA BlockObligationPaths ==
    ASSUME IInv, PathsInv, pc \in Working, NEW sv, NEW c, BlockObligation(sv, c),
           UNCHANGED <<input, phase, cotrace, scan>>
    PROVE  PathInv' /\ CountInv' /\ LevelZeroHasInputs'
<1>1. Level(po) \in Nat
  BY WorkingType DEF IInv, TypeInv
<1> DEFINE l == Level(po) + 1
<1>2. l # 0 /\ queue' \subseteq queue \cup {<<l, Colevel(po), Handle(po)>>} /\ pc' = "solve"
  BY <1>1 DEF BlockObligation, Obligation
<1>3. Steps(pool, Handle(po)) = Colevel(po) /\ \A o \in queue : Steps(pool, Handle(o)) = Colevel(o)
  BY DEF PathsInv, CountInv, ObligationsCount
<1> HIDE DEF l
<1>4. \A o \in queue' : o \in queue \/ Level(o) # 0
  BY <1>2 DEF Level
<1>5. ASSUME NEW o \in queue' PROVE Steps(pool, Handle(o)) = Colevel(o)
  <2>1. CASE o \in queue
    BY <1>3, <2>1
  <2>2. CASE o = <<l, Colevel(po), Handle(po)>>
    <3>1. Handle(o) = Handle(po) /\ Colevel(o) = Colevel(po)
      BY <2>2 DEF Handle, Colevel
    <3> QED
      BY <1>3, <3>1
  <2> QED
    BY <1>2, <2>1, <2>2
<1>6. (\A h \in handles' : Steps(pool, h) = level') /\ ScanIsOver'
  BY <1>2 DEF PathsInv, CountInv, ScanCounts, ScanIsOver, Working, scan
<1> QED
  BY <1>2, <1>4, <1>5, <1>6, QuietPaths DEF Working

\* Every step keeps the paths of the pool, their lengths and their inputs.
LEMMA PathsStep == ASSUME IInv, PathsInv, [Next]_vars PROVE PathInv' /\ CountInv' /\ LevelZeroHasInputs'
<1>1. /\ \A o \in queue : Steps(pool, Handle(o)) = Colevel(o)
      /\ pc \in Working => Steps(pool, Handle(po)) = Colevel(po)
      /\ \A h \in handles : Steps(pool, h) = level
      /\ ScanIsOver /\ CoframesCount
  BY DEF PathsInv, CountInv, ObligationsCount, ScanCounts
<1>2. TypeOK /\ depth \in Nat /\ codepth \in Nat /\ ScanIsLate
  BY DEF IInv, TypeInv, TypeOK, ObligationInv
<1>3. CASE ScanCube
  <2>1. /\ UNCHANGED <<input, cotrace, level>> /\ pc' = "solve" /\ phase' = "scan"
        /\ \E h \in handles : handles' = handles \ {h} /\ queue' = {<<depth, level, h>>}
    BY <1>3 DEF ScanCube, Obligation
  <2>2. depth # 0
    BY <1>2, <2>1 DEF ScanIsLate
  <2>3. \A o \in queue' : Level(o) # 0 /\ Steps(pool, Handle(o)) = Colevel(o)
    BY <1>1, <2>1, <2>2 DEF Level, Handle, Colevel
  <2>4. ScanIsOver'
    BY <2>1 DEF ScanIsOver
  <2>5. \A h \in handles' : Steps(pool, h) = level'
    BY <1>1, <2>1
  <2> QED
    BY <2>1, <2>3, <2>4, <2>5, QuietPaths DEF Working
<1>4. CASE ScanNext
  <2>1. /\ UNCHANGED <<input, pc, phase, cotrace, queue, po>> /\ pc = "scan"
        /\ level > 0 /\ level' = level - 1 /\ handles' = reaching[level - 1]
    BY <1>4 DEF ScanNext
  <2>2. level - 1 \in 0 .. codepth
    BY <1>2, <2>1 DEF TypeOK, IInv, TypeInv
  <2>3. \A h \in handles' : Steps(pool, h) = level'
    BY <1>1, <2>1, <2>2 DEF CoframesCount
  <2>4. ScanIsOver'
    BY <2>1 DEF ScanIsOver, Working
  <2> QED
    BY <1>1, <2>1, <2>3, <2>4, QuietPaths
<1>5. CASE ScanDone
  BY <1>1, <1>5, QuietPaths DEF ScanDone, ScanIsOver, Working, scan
<1>6. CASE NoErrorState
  BY <1>1, <1>6, QuietPaths DEF NoErrorState, ScanIsOver, Working
<1>7. CASE FoundCounterexample \/ SkipSubsumed \/ AllBlocked
  <2>1. /\ UNCHANGED <<input, phase, cotrace, po, scan>> /\ queue' \subseteq queue /\ pc = "solve"
        /\ pc' \in {"done", "solve", phase}
    BY <1>7 DEF FoundCounterexample, SkipSubsumed, AllBlocked
  <2>2. UNCHANGED <<level, handles>> /\ phase \in {"scan", "error"}
    BY <1>2, <2>1 DEF scan, TypeOK
  <2>3. ScanIsOver' /\ pc' \notin Working
    BY <1>1, <2>1, <2>2 DEF ScanIsOver, Working
  <2> QED
    BY <1>1, <2>1, <2>2, <2>3, QuietPaths
<1>8. CASE PopObligation
  <2>1. /\ UNCHANGED <<input, phase, cotrace, scan>> /\ pc = "solve"
        /\ \E o \in queue : queue' = queue \ {o} /\ ((po' = o /\ pc' = "query") \/ UNCHANGED <<po, pc>>)
    BY <1>8 DEF PopObligation
  <2>2. UNCHANGED <<level, handles>>
    BY <2>1 DEF scan
  <2>3. ScanIsOver'
    BY <1>1, <2>1, <2>2 DEF ScanIsOver, Working
  <2>4. pc' \in Working => Steps(pool, Handle(po')) = Colevel(po')
    BY <1>1, <2>1 DEF Working
  <2> QED
    BY <1>1, <2>1, <2>2, <2>3, <2>4, QuietPaths
<1>9. ASSUME pc \in Working, pc' \in Working, UNCHANGED <<input, phase, cotrace, queue, po, scan>>
      PROVE  PathInv' /\ CountInv' /\ LevelZeroHasInputs'
  <2>1. UNCHANGED <<level, handles>>
    BY <1>9 DEF scan
  <2>2. ScanIsOver'
    BY <1>1, <1>9, <2>1 DEF ScanIsOver, Working
  <2> QED
    BY <1>1, <1>9, <2>1, <2>2, QuietPaths
<1>10. CASE FoundPredecessor \/ ShrinkPredecessor \/ ShrinkBlocked
  BY <1>9, <1>10 DEF FoundPredecessor, ShrinkPredecessor, ShrinkBlocked, Working
<1>11. CASE NoPredecessor
  <2>1. CASE opts.mucBlocked
    BY <1>9, <1>11, <2>1 DEF NoPredecessor, Working
  <2>2. CASE ~opts.mucBlocked
    BY <1>11, <2>2, BlockObligationPaths DEF NoPredecessor, Working
  <2> QED
    BY <2>1, <2>2
<1>12. CASE MinimalBlocked
  BY <1>12, BlockObligationPaths DEF MinimalBlocked, Working
<1>13. CASE PropagateCube \/ PropagateNext \/ PushedAll \/ FoundInductive
  <2>1. /\ UNCHANGED <<input, phase, cotrace, queue, po>> /\ handles' = handles /\ handles = {} /\ pc' \notin Working
    BY <1>1, <1>13 DEF PropagateCube, PropagateNext, PushedAll, FoundInductive, ScanIsOver, Working, scan
  <2>2. ScanIsOver'
    BY <2>1 DEF ScanIsOver
  <2> QED
    BY <1>1, <2>1, <2>2, QuietPaths
<1>14. CASE NextRound
  <2>1. /\ UNCHANGED <<input, phase, cotrace, queue, po>> /\ pc' = "scan"
        /\ level' = codepth /\ handles' = reaching[codepth]
    BY <1>14 DEF NextRound
  <2>2. \A h \in handles' : Steps(pool, h) = level'
    BY <1>1, <1>2, <2>1 DEF CoframesCount
  <2>3. ScanIsOver'
    BY <2>1 DEF ScanIsOver, Working
  <2> QED
    BY <1>1, <2>1, <2>2, <2>3, QuietPaths DEF Working
<1>15. CASE UNCHANGED vars
  <2>1. UNCHANGED <<input, pc, phase, cotrace, queue, po, level, handles>>
    BY <1>15 DEF vars, scan
  <2>2. ScanIsOver'
    BY <1>1, <2>1 DEF ScanIsOver
  <2> QED
    BY <1>1, <2>1, <2>2, QuietPaths
<1>16. ASSUME NEW c, NEW in, PushPredecessor(c, in), UNCHANGED cotrace PROVE FALSE
  <2>1. pool \in Seq(Entry)
    BY <1>2 DEF TypeOK, Entry
  <2>2. \A e : Append(pool, e) # pool
    BY <2>1
  <2> QED
    BY <1>16, <2>2 DEF PushPredecessor, Reach, cotrace
<1>17. CASE UNCHANGED cotrace /\ (WholePredecessor \/ MinimalPredecessor)
  BY <1>16, <1>17 DEF WholePredecessor, MinimalPredecessor
<1>18. CASE UNCHANGED cotrace /\ GeneralizePredecessor
  <2>1. opts.mucPredecessor
    BY <1>16, <1>18 DEF GeneralizePredecessor
  <2> QED
    BY <1>9, <1>18, <2>1 DEF GeneralizePredecessor, Working
<1>19. CASE UNCHANGED cotrace
  BY <1>3, <1>4, <1>5, <1>6, <1>7, <1>8, <1>10, <1>11, <1>12, <1>13, <1>14, <1>15, <1>17, <1>18, <1>19,
     NewErrorStatePaths DEF Next, Returned
<1> QED
  BY <1>19, PathKinds, NewErrorStatePaths, PushPredecessorPaths

-----------------------------------------------------------------------------
(* build_counterexample.                                                   *)

\* The entries of the pool have their types.
LEMMA EntryType == ASSUME TypeOK, NEW h \in Handles PROVE pool[h].state \in Cubes /\ pool[h].input \in Inputs
<1>1. pool \in Seq(Entry) /\ h \in 1 .. Len(pool)
  BY DEF TypeOK, Entry, Handles
<1>2. pool[h] \in Entry
  BY <1>1, ElementInRange
<1> QED
  BY <1>2 DEF Entry

\* An obligation of the forward engine at level 0.
LEMMA ForwardCounterexample ==
    ASSUME TypeOK, PathInv, opts.forward, NEW h \in Handles,
           NEW s \in States, Holds(system.init, s), Holds(pool[h].state, s)
    PROVE  /\ ReachesError(system, Counterexample(h).initial, Counterexample(h).inputs)
           /\ (\A x \in Latches : <<x, TRUE>> \notin system.init) =>
                    Holds(system.init, Counterexample(h).initial)
<1> DEFINE path == PathIn(pool, h)
           n == Len(path)
           ins == [k \in 1 .. n |-> pool[path[k]].input]
<1>1. /\ system \in Systems /\ pool \in Seq(PoolEntry) /\ Len(pool) \in Nat /\ Linked(pool)
      /\ h \in 1 .. Len(pool)
  BY DEF TypeOK, PoolEntry, PathInv, Handles
<1>2. path \in Seq(1 .. Len(pool)) /\ n \in Nat
  BY <1>1, PathInLinks DEF IsPathOf
<1>3. Counterexample(h).initial = GetVars(pool[h].state) /\ Counterexample(h).inputs = ins
  BY PathFromIs DEF Counterexample
<1>4. pool[h].state \in Cubes
  BY EntryType
<1>5. GetVars(pool[h].state) \in States /\ Holds(pool[h].state, GetVars(pool[h].state))
  BY <1>4, GetVarsHolds
<1>6. Leads(system, pool)
  BY DEF PathInv, EntriesLead, Leads, IsError, Successors, Handles, NoSuccessor
<1>7. ins \in Seq(Inputs) /\ Len(ins) = n /\ \A k \in 1 .. Len(ins) : ins[k] = pool[path[k]].input
  <2>1. \A k \in 1 .. n : pool[path[k]].input \in Inputs
    <3>1. \A k \in 1 .. n : path[k] \in Handles
      BY <1>2, ElementInRange DEF Handles
    <3> QED
      BY <3>1, EntryType
  <2>2. ins \in [1 .. n -> Inputs]
    BY <2>1
  <2>3. \A k \in 1 .. n : ins[k] = pool[path[k]].input
    OBVIOUS
  <2> HIDE DEF ins, n
  <2>4. ins \in Seq(Inputs) /\ Len(ins) = n
    BY <1>2, <2>2, FunctionIsSequence
  <2> QED
    BY <2>3, <2>4
<1> HIDE DEF ins
<1>8. ReachesError(system, GetVars(pool[h].state), ins)
  BY <1>1, <1>5, <1>6, <1>7, PathReplays
<1>9. (\A x \in Latches : <<x, TRUE>> \notin system.init) => Holds(system.init, GetVars(pool[h].state))
  BY <1>1, <1>4, GetVarsInitial
<1> QED
  BY <1>3, <1>8, <1>9

\* An obligation of the backward engine at level 0: the path is an execution from
\* its last entry to its first.
LEMMA BackwardCounterexample ==
    ASSUME TypeOK, PathInv, ~opts.forward, NEW h \in Handles,
           <<GetVars(pool[h].state), pool[h].input>> \in system.error
    PROVE  /\ ReachesError(system, Counterexample(h).initial, Counterexample(h).inputs)
           /\ Holds(system.init, Counterexample(h).initial)
<1> DEFINE p == PathIn(pool, h)
           n == Len(p)
           x == [g \in Handles |-> GetVars(pool[g].state)]
           front == [k \in 1 .. n - 1 |-> pool[p[n - k]].input]
           ins == Append(front, pool[h].input)
<1>1. /\ pool \in Seq(PoolEntry) /\ Len(pool) \in Nat /\ Linked(pool) /\ h \in 1 .. Len(pool)
  BY DEF TypeOK, PoolEntry, PathInv, Handles
<1>2. IsPathOf(pool, h, p)
  BY <1>1, PathInLinks
<1>3. p \in Seq(1 .. Len(pool)) /\ n \in Nat /\ n >= 1
  BY <1>2 DEF IsPathOf
<1>4. p[n] \in Handles /\ pool[p[n]].succ = 0
  BY <1>2, <1>3, ElementInRange DEF IsPathOf, Handles
<1>5. Counterexample(h).initial = x[p[n]] /\ Counterexample(h).inputs = ins
  BY <1>4, PathFromIs DEF Counterexample
<1>6. \A g \in Handles : x[g] \in States /\ pool[g].state = CubeOf(x[g]) /\ Holds(pool[g].state, x[g])
  <2>1. ASSUME NEW g \in Handles
        PROVE  x[g] \in States /\ pool[g].state = CubeOf(x[g]) /\ Holds(pool[g].state, x[g])
    <3>1. PICK s \in States : pool[g].state = CubeOf(s)
      BY DEF PathInv, EntriesInhabited
    <3>2. x[g] = s
      BY <3>1, GetVarsOfState
    <3> QED
      BY <3>1, <3>2, CubeOfState
  <2> QED
    BY <2>1
<1>7. ASSUME NEW g \in 1 .. Len(pool), pool[g].succ # 0
      PROVE  NextState(system, x[pool[g].succ], pool[g].input) = x[g]
  <2>1. g \in Handles /\ pool[g].succ \in Handles
    BY <1>1, <1>7 DEF Linked, Handles
  <2>2. PICK t \in Successors(x[g], pool[g].input) : Holds(pool[pool[g].succ].state, t)
    BY <1>6, <1>7, <2>1 DEF PathInv, EntriesLead, NoSuccessor
  <2>3. t \in States /\ NextState(system, t, pool[g].input) = x[g]
    BY <2>2 DEF Successors
  <2>4. t = x[pool[g].succ]
    <3> DEFINE j == pool[g].succ
    <3>1. x[j] \in States /\ pool[j].state = CubeOf(x[j]) /\ Holds(pool[j].state, t)
      BY <1>6, <2>1, <2>2
    <3> HIDE DEF x, j
    <3> QED
      BY <2>3, <3>1, CubeOfState DEF j
  <2> QED
    BY <2>3, <2>4
<1>8. <<x[h], pool[h].input>> \in system.error
  OBVIOUS
<1>9. /\ Len(ins) = n /\ ins[n] = pool[h].input
      /\ \A k, m \in 1 .. n : m = n - k => ins[k] = pool[p[m]].input
  <2>1. \A g \in Handles : pool[g].input \in Inputs
    BY EntryType
  <2>2. \A k \in 1 .. n - 1 : n - k \in 1 .. n /\ p[n - k] \in Handles
    BY <1>3, ElementInRange DEF Handles
  <2>3. front \in [1 .. n - 1 -> Inputs] /\ n - 1 \in Nat
    BY <1>3, <2>1, <2>2
  <2>4. \A k \in 1 .. n - 1 : front[k] = pool[p[n - k]].input
    OBVIOUS
  <2> HIDE DEF front
  <2>5. front \in Seq(Inputs) /\ Len(front) = n - 1
    BY <2>3, FunctionIsSequence
  <2>6. pool[h].input \in Inputs
    BY <2>1
  <2>7. Len(ins) = n /\ ins[n] = pool[h].input /\ \A k \in 1 .. n - 1 : ins[k] = front[k]
    <3> DEFINE e == pool[h].input
    <3>1. e \in Inputs /\ ins = Append(front, e)
      BY <2>6
    <3> HIDE DEF e, ins, n
    <3> QED
      BY <1>3, <2>5, <3>1 DEF e
  <2>8. ASSUME NEW k \in 1 .. n, NEW m \in 1 .. n, m = n - k PROVE ins[k] = pool[p[m]].input
    <3>1. k \in 1 .. n - 1
      BY <1>3, <2>8
    <3> QED
      BY <2>4, <2>7, <2>8, <3>1
  <2> QED
    BY <2>7, <2>8
<1> HIDE DEF x, ins, n, p
<1>10. ReachesError(system, x[p[n]], ins)
  <2>1. p = PathIn(pool, h) /\ n = Len(p)
    BY DEF p, n
  <2>2. Follows(system, pool, x) /\ ReadBackward(pool, h, p, n, ins)
    BY <1>7, <1>9 DEF Follows, ReadBackward
  <2> QED
    BY <1>1, <1>8, <2>1, <2>2, PathReplaysBackward
<1>11. Holds(system.init, x[p[n]])
  BY <1>4, <1>6 DEF PathInv, EntriesLead, IsError, NoSuccessor
<1> QED
  BY <1>5, <1>10, <1>11

\* The counterexample that is returned is an execution.
LEMMA FoundCounterexamplePath == ASSUME IInv, PathsInv, FoundCounterexample PROVE CexInv'
<1>1. TypeOK /\ PathInv /\ LevelZeroIsInitial /\ LevelZeroHasInputs
  BY DEF IInv, TypeInv, ObligationInv, PathsInv
<1>2. PICK o \in queue : Level(o) = 0 /\ cex' = Counterexample(Handle(o))
  BY DEF FoundCounterexample
<1>3. Handle(o) \in Handles /\ UNCHANGED <<system, opts>>
  BY <1>1 DEF TypeOK, Handle, FoundCounterexample, input
<1>4. CASE opts.forward
  <2>1. PICK s \in States : Holds(system.init, s) /\ Holds(pool[Handle(o)].state, s)
    BY <1>1, <1>2, <1>4 DEF LevelZeroIsInitial, IsInitial, StateVars
  <2>2. /\ ReachesError(system, cex'.initial, cex'.inputs)
        /\ (\A x \in Latches : <<x, TRUE>> \notin system.init) => Holds(system.init, cex'.initial)
    BY <1>1, <1>2, <1>3, <1>4, <2>1, ForwardCounterexample
  <2> QED
    BY <1>3, <1>4, <2>2 DEF CexInv, CounterexampleReplays, CounterexampleStartsInInit
<1>5. CASE ~opts.forward
  <2>1. <<GetVars(pool[Handle(o)].state), pool[Handle(o)].input>> \in system.error
    BY <1>1, <1>2, <1>5 DEF LevelZeroHasInputs, StateVars
  <2>2. ReachesError(system, cex'.initial, cex'.inputs) /\ Holds(system.init, cex'.initial)
    BY <1>1, <1>2, <1>3, <1>5, <2>1, BackwardCounterexample
  <2> QED
    BY <1>3, <2>2 DEF CexInv, CounterexampleReplays, CounterexampleStartsInInit
<1> QED
  BY <1>4, <1>5

\* Every step keeps the counterexample an execution.
LEMMA CexStep == ASSUME IInv, PathsInv, [Next]_vars PROVE CexInv'
<1>1. CexInv
  BY DEF PathsInv
<1>2. CASE UNCHANGED <<input, verdict>>
  BY <1>1, <1>2 DEF CexInv, CounterexampleReplays, CounterexampleStartsInInit, input, verdict
<1>3. CASE result' = "ok"
  BY <1>3 DEF CexInv, CounterexampleReplays, CounterexampleStartsInInit
<1> QED
  BY <1>2, <1>3, FoundCounterexamplePath DEF Next, vars, ScanCube, ScanNext, ScanDone, NewErrorState,
     NoErrorState, SkipSubsumed, PopObligation, AllBlocked, WholePredecessor, FoundPredecessor,
     GeneralizePredecessor, NoPredecessor, ShrinkPredecessor, MinimalPredecessor, ShrinkBlocked,
     MinimalBlocked, PropagateCube, PropagateNext, PushedAll, FoundInductive, NextRound, Returned

-----------------------------------------------------------------------------
(* The theorems.                                                           *)

\* The pool is empty at first.
LEMMA InitPaths == Init => PathsInv
<1> SUFFICES ASSUME Init PROVE PathsInv
  OBVIOUS
<1>1. PathInv
  BY DEF Init, PathInv, Linked, EntriesLead, EntriesInhabited, Handles
<1>2. CountInv
  BY DEF Init, CountInv, CoframesCount, ObligationsCount, ScanCounts, ScanIsOver, Working
<1>3. LevelZeroHasInputs /\ CexInv
  BY DEF Init, LevelZeroHasInputs, CexInv, CounterexampleReplays, CounterexampleStartsInInit
<1> QED
  BY <1>1, <1>2, <1>3 DEF PathsInv

\* What is known of paths and counterexamples holds in every state.
LEMMA PathsInvariant == Spec => [](IInv /\ PathsInv)
<1>1. ASSUME IInv, PathsInv, [Next]_vars PROVE PathsInv'
  BY <1>1, PathsStep, CexStep DEF PathsInv
<1> QED
  BY <1>1, InitPaths, Invariant, PTL DEF Spec, SafetySpec

\* A cube of coframe j was reached over exactly j entries, also when entries on
\* its way were subsumed and left their coframes, and all of its states go where
\* its entry says.
THEOREM CARCotraceLeadsToError == Spec => []CotraceLeadsToError
<1>1. ASSUME IInv, PathsInv PROVE CotraceLeadsToError
  <2>1. /\ Linked(pool) /\ Len(pool) \in Nat /\ codepth \in Nat
        /\ reaching \in [0 .. codepth -> SUBSET Handles]
    BY <1>1 DEF IInv, TypeInv, TypeOK, PathsInv, PathInv
  <2>2. ASSUME NEW j \in 0 .. codepth, NEW h \in reaching[j] PROVE Len(PathFrom(h)) = j + 1
    <3>1. h \in 1 .. Len(pool) /\ j \in Nat
      BY <2>1 DEF Handles
    <3>2. Len(PathIn(pool, h)) \in Nat
      BY <2>1, <3>1, PathInLinks DEF IsPathOf
    <3>3. Len(PathIn(pool, h)) - 1 = j
      BY <1>1 DEF PathsInv, CountInv, CoframesCount, Steps
    <3> QED
      BY <3>1, <3>2, <3>3, PathFromIs
  <2>3. EntriesLead
    BY <1>1 DEF PathsInv, PathInv
  <2> QED
    BY <2>2, <2>3 DEF CotraceLeadsToError, EntriesLead
<1> QED
  BY <1>1, PathsInvariant, PTL

\* build_counterexample returns the inputs of an execution that ends in the
\* error, by both engines: read along the path, or from its end.
THEOREM CARCounterexamplesReplay == Spec => []CounterexampleReplays
<1>1. PathsInv => CounterexampleReplays
  BY DEF PathsInv, CexInv
<1> QED
  BY <1>1, PathsInvariant, PTL

\* And its first state is an initial one: always backwards, and forwards when no
\* latch resets to one.
THEOREM CARCounterexamplesStartInInit == Spec => []CounterexampleStartsInInit
<1>1. PathsInv => CounterexampleStartsInInit
  BY DEF PathsInv, CexInv
<1> QED
  BY <1>1, PathsInvariant, PTL
=============================================================================
