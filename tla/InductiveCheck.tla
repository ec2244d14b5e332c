--------------------------- MODULE InductiveCheck ---------------------------
(***************************************************************************)
(* car::is_inductive and car::negate_cnf at the level of the clauses they  *)
(* build: the formulas of logic.hpp, which are flat sequences of literals, *)
(* and the solver of engine/solver.hpp they are passed to. The module CAR  *)
(* has the condition they are to decide.                                   *)
(*                                                                         *)
(* A literal is the identifier of its variable or its negation, as an      *)
(* integer; 0 terminates a clause.                                         *)
(***************************************************************************)
EXTENDS Integers, Sequences, SequencesExt, Functions

CONSTANTS
    VarCount,       \* the variables of the system are 1 .. VarCount
    StateVars,      \* the state variables among them
    Questions       \* the mode, the initial formula and the trace of the engine

ASSUME VariablesAssumption == VarCount \in Nat /\ StateVars \subseteq 1 .. VarCount

Separator == 0

\* literal::var, and the value of a literal in a valuation of the variables.
Id(l) == IF l < 0 THEN -l ELSE l

IsTrue(v, l) == v[Id(l)] = (l > 0)

-----------------------------------------------------------------------------
(* cnf_formula and cube.                                                   *)

\* cnf_formula::clause, and add_clause for several clauses in turn.
Clause(c) == Append(c, Separator)

Formula(cs) == FlattenSeq([k \in DOMAIN cs |-> Clause(cs[k])])

NegateAll(lits) == [i \in DOMAIN lits |-> -lits[i]]

\* cube::negate: a formula of one clause.
Negate(c) == Clause(NegateAll(c))

\* cnf_formula::activate
Activate(f, act) ==
    FlattenSeq([i \in DOMAIN f |-> IF f[i] = Separator THEN <<-act, Separator>> ELSE <<f[i]>>])

\* The order of the literals of a cube, cube_literal_lt.
CubeLiteralLt(k, l) == Id(k) < Id(l) \/ (Id(k) = Id(l) /\ k < l)

\* The constructor of cube, which sorts its literals.
Cube(lits) ==
    LET order == CHOOSE p \in Surjection(DOMAIN lits, DOMAIN lits) :
                     \A j, k \in DOMAIN lits : j < k => ~CubeLiteralLt(lits[p[k]], lits[p[j]])
    IN  [k \in DOMAIN lits |-> lits[order[k]]]

\* formula_as_cube: the cube of all literals of the formula.
FormulaAsCube(f) ==
    Cube(FlattenSeq([k \in DOMAIN f |-> IF f[k] = Separator THEN <<>> ELSE <<f[k]>>]))

\* std::views::split: the parts before, between and after the separators, the
\* last of them empty; there is none of an empty sequence.
Split(f) ==
    LET extend(ps, l) == IF l = Separator THEN Append(ps, <<>>)
                         ELSE [ps EXCEPT ![Len(ps)] = Append(@, l)]
        parts[k \in 0 .. Len(f)] == IF k = 0 THEN <<<<>>>> ELSE extend(parts[k - 1], f[k])
    IN  IF f = <<>> THEN <<>> ELSE parts[Len(f)]

-----------------------------------------------------------------------------
(* The two negations. The variables that are made are numbered from x on.  *)

\* negate_cnf
NegateCnf(f, x) ==
    LET clauses == Split(f)
        y(k) == x + k
        ys == [k \in DOMAIN clauses |-> y(k)]
        \* y <-> clause
        defs(k) == Append([i \in DOMAIN clauses[k] |-> <<-clauses[k][i], y(k)>>],
                          <<-y(k)>> \o clauses[k])
    IN  Formula(<<<<-x>>>>
                         \o FlattenSeq([k \in DOMAIN clauses |-> defs(k)])
                         \o [k \in DOMAIN clauses |-> <<-x, y(k)>>]
                         \o <<Append(NegateAll(ys), x)>>)

\* Mutant of ClausifyFrameNegation: x does not imply that one of the cubes holds.
ClausifyFrameNegationHalf(cubes, x) ==
    LET y(k) == x + k
        defs(k) == Append([i \in DOMAIN cubes[k] |-> <<-y(k), cubes[k][i]>>],
                          Append(NegateAll(cubes[k]), y(k)))
    IN  Formula(<<<<x>>>>
                         \o FlattenSeq([k \in DOMAIN cubes |-> defs(k)])
                         \o [k \in DOMAIN cubes |-> <<-y(k), x>>])

\* clausify_frame_negation: some cube of the frame holds.
ClausifyFrameNegation(cubes, x) ==
    LET y(k) == x + k
        defs(k) == Append([i \in DOMAIN cubes[k] |-> <<-y(k), cubes[k][i]>>],
                          Append(NegateAll(cubes[k]), y(k)))
    IN  Formula(<<<<x>>>>
                         \o FlattenSeq([k \in DOMAIN cubes |-> defs(k)])
                         \o <<<<-x>> \o [k \in DOMAIN cubes |-> y(k)]>>
                         \o [k \in DOMAIN cubes |-> <<-y(k), x>>])

-----------------------------------------------------------------------------
(* CaDiCaL.                                                                *)

\* assert_formula: the clauses the calls of add make of a formula.
Clauses(f) == IF f = <<>> THEN {} ELSE {ToSet(c) : c \in ToSet(Front(Split(f)))}

\* solve, for clauses over the variables 1 .. n: the valuations of the first k
\* variables that leave no clause without a literal that is or may become true,
\* one variable after the other.
IsSatisfiable(cs, n) ==
    LET isOpen(c, v) == \E l \in c : Id(l) > Len(v) \/ IsTrue(v, l)
        longer(vs) == {Append(v, b) : v \in vs, b \in BOOLEAN}
        partial[k \in 0 .. n] ==
            {v \in IF k = 0 THEN {<<>>} ELSE longer(partial[k - 1]) : \A c \in cs : isOpen(c, v)}
    IN  partial[n] # {}

-----------------------------------------------------------------------------

Literals(vs) == vs \cup {-x : x \in vs}

\* There is a frame, which is_inductive asserts. Cubes are over the state
\* variables, each clause of a formula ends in a separator, and the initial
\* formula of the forward mode is the cube that formula_as_cube takes it for.
ASSUME QuestionsAssumption ==
    \A q \in Questions :
        /\ q.forward \in BOOLEAN
        /\ q.trace \in Seq(Seq(Seq(Literals(StateVars)))) \ {<<>>}
        /\ q.init \in Seq(Literals(1 .. VarCount) \cup {Separator})
        /\ q.init = <<>> \/ Last(q.init) = Separator
        /\ q.forward => \A c \in Clauses(q.init) : \E l \in Literals(StateVars) : c = {l}

VARIABLES
    question,       \* what is_inductive is called on
    pc,
    nextId,         \* the next identifier variable_store hands out
    initNegated,    \* _init_negated
    checker,        \* the clauses in the solver checker
    i,              \* the frame the loop is at
    answer          \* what is_inductive returns

vars == <<question, pc, nextId, initNegated, checker, i, answer>>

depth == Len(question.trace)

cubes == question.trace[i]

Init ==
    /\ question \in Questions
    /\ pc = "initialize"
    /\ nextId = VarCount + 1
    /\ initNegated = <<>>
    /\ checker = {}
    /\ i = 1
    /\ answer = FALSE

\* The end of car::initialize, and the beginning of is_inductive.
Initialize ==
    /\ pc = "initialize"
    /\ IF question.forward
       THEN /\ initNegated' = Negate(FormulaAsCube(question.init))
            /\ UNCHANGED nextId
       ELSE /\ initNegated' = NegateCnf(question.init, nextId)
            /\ nextId' = nextId + 1 + Len(Split(question.init))
    /\ checker' = Clauses(initNegated')
    /\ pc' = "frame"
    /\ UNCHANGED <<question, i, answer>>

\* The activator is the next variable.
act == nextId

\* The cubes of frame i, under the activator.
FrameClauses == UNION {Clauses(Activate(Negate(c), act)) : c \in ToSet(cubes)}

\* The query of frame i.
IsUnsat == ~IsSatisfiable(checker \cup FrameClauses \cup {{act}}, act)

Covered ==
    /\ pc = "frame"
    /\ IsUnsat
    /\ answer' = TRUE
    /\ pc' = "done"
    /\ checker' = checker \cup FrameClauses
    /\ nextId' = nextId + 1
    /\ UNCHANGED <<question, initNegated, i>>

\* The activator is retired, and the frame is excluded from the frames to come.
NextFrame ==
    /\ pc = "frame"
    /\ ~IsUnsat
    /\ i < depth
    /\ checker' = checker \cup FrameClauses \cup Clauses(Clause(<<-act>>))
                        \cup Clauses(ClausifyFrameNegation(cubes, act + 1))
    /\ nextId' = nextId + 2 + Len(cubes)
    /\ i' = i + 1
    /\ UNCHANGED <<question, pc, initNegated, answer>>

NotCovered ==
    /\ pc = "frame"
    /\ ~IsUnsat
    /\ i = depth
    /\ pc' = "done"
    /\ checker' = checker \cup FrameClauses
    /\ nextId' = nextId + 1
    /\ UNCHANGED <<question, initNegated, i, answer>>

Answered == pc = "done" /\ UNCHANGED vars

Next == Initialize \/ Covered \/ NextFrame \/ NotCovered \/ Answered

Spec == Init /\ [][Next]_vars

-----------------------------------------------------------------------------
(* Properties.                                                             *)

\* The valuation v is a model of a cube or of a formula.
IsModelOfCube(v, c) == \A l \in ToSet(c) : IsTrue(v, l)
IsModel(v, f) == \A c \in Clauses(f) : \E l \in c : IsTrue(v, l)

Valuations(vs) == [vs -> BOOLEAN]

InFrame(v, k) == \A j \in DOMAIN question.trace[k] : ~IsModelOfCube(v, question.trace[k][j])

\* Frame k is covered by the initial states and the frames before it, with the
\* initial states that CAR assumes: none of them in the backward mode, unless
\* every state is one.
IsCovered(k) ==
    \A v \in Valuations(StateVars) : InFrame(v, k) =>
        \/ IF question.forward THEN IsModel(v, question.init) ELSE question.init = <<>>
        \/ \E j \in 1 .. k - 1 : InFrame(v, j)

\* is_inductive, which asks one solver about one frame after the other and leaves
\* the clauses, the activators and the negated frames of the earlier ones in it,
\* finds a covered frame if there is one, and no other.
AnswerIsRight == pc = "done" => (answer <=> \E k \in 1 .. depth : IsCovered(k))

\* The comment in negate_cnf, "Finally add -x, saying that the whole formula is
\* false": what it returns can be satisfied where the formula is false, and
\* nowhere else.
NegationIsExact ==
    pc # "initialize" => \A v \in Valuations(1 .. VarCount) :
        LET units == {{IF v[x] THEN x ELSE -x} : x \in 1 .. VarCount}
        IN  IsSatisfiable(Clauses(initNegated) \cup units, nextId - 1) <=> ~IsModel(v, question.init)
=============================================================================
