---------------------------- MODULE AigerBuilder ----------------------------
(***************************************************************************)
(* The translation of an and-inverter graph into the three formulas of a   *)
(* transition system, aiger_builder.hpp and aiger_builder.cpp.             *)
(*                                                                         *)
(* A formula in conjunctive normal form is a set of clauses, a clause a    *)
(* set of literals and a literal a pair of a variable and its polarity;    *)
(* the variables are named by the range they are from and their position   *)
(* in it, so that different ranges do not overlap.                         *)
(***************************************************************************)
EXTENDS Aiger, TransitionSystem

VARIABLES
    required,   \* required of clausify_subgraph
    gate,       \* the number of gates clausify_subgraph has yet to visit
    init,       \* the formulas, as far as they have been built
    trans,
    error

formulas == <<init, trans, error>>
clausification == <<required, gate>>

BuilderInit ==
    /\ required = {}
    /\ gate = 0
    /\ init = {}
    /\ trans = {}
    /\ error = {}

\* literal from_aiger_lit( ctx, l ), for a literal that is no constant.
FromAigerLit(g, l) ==
    LET v == Var(l)
        var == IF IsInput(g, v) THEN <<"input", CHOOSE i \in DOMAIN g.inputs : g.inputs[i] = 2 * v>>
               ELSE IF IsLatch(g, v)
               THEN <<"state", CHOOSE i \in DOMAIN g.latches : g.latches[i].lit = 2 * v>>
               ELSE <<"and", CHOOSE i \in DOMAIN g.ands : g.ands[i].lhs = 2 * v>>
    IN  <<var, Sign(l) = 0>>

\* The clauses of x <-> y.
Equivalence(x, y) == {{Neg(x), y}, {Neg(y), x}}

\* Mutant of ClausifyAnd: one half of the equivalence is missing.
ClausifyAndHalf(g, a) ==
    LET lit(l) == FromAigerLit(g, l)
    IN  IF a.rhs0 = 0 \/ a.rhs1 = 0 THEN {{Neg(lit(a.lhs))}}
        ELSE IF a.rhs0 = 1 /\ a.rhs1 = 1 THEN {{lit(a.lhs)}}
        ELSE IF a.rhs0 = 1 THEN Equivalence(lit(a.lhs), lit(a.rhs1))
        ELSE IF a.rhs1 = 1 THEN {{Neg(lit(a.lhs)), lit(a.rhs0)}}
        ELSE { {Neg(lit(a.lhs)), lit(a.rhs0)}, {Neg(lit(a.lhs)), lit(a.rhs1)},
               {Neg(lit(a.rhs0)), Neg(lit(a.rhs1)), lit(a.lhs)} }

\* clausify_and: the Tseitin clauses of a gate, with constant operands.
ClausifyAnd(g, a) ==
    LET lit(l) == FromAigerLit(g, l)
    IN  IF a.rhs0 = 0 \/ a.rhs1 = 0 THEN {{Neg(lit(a.lhs))}}
        ELSE IF a.rhs0 = 1 /\ a.rhs1 = 1 THEN {{lit(a.lhs)}}
        ELSE IF a.rhs0 = 1 THEN Equivalence(lit(a.lhs), lit(a.rhs1))
        ELSE IF a.rhs1 = 1 THEN Equivalence(lit(a.lhs), lit(a.rhs0))
        ELSE { {Neg(lit(a.lhs)), lit(a.rhs0)}, {Neg(lit(a.lhs)), lit(a.rhs1)},
               {Neg(lit(a.rhs0)), Neg(lit(a.rhs1)), lit(a.lhs)} }

-----------------------------------------------------------------------------
(* make_context.                                                           *)

\* The errors of make_context: not precisely one property, or one of a kind
\* that is not supported.
IsSupported(g) ==
    /\ Len(g.outputs) + Len(g.bad) = 1
    /\ g.fairness = <<>> /\ g.numJustice = 0
    /\ g.constraints = <<>>

Unsupported == pc = "context" /\ ~IsSupported(aig)

MakeContext ==
    /\ pc = "context"
    /\ IsSupported(aig)
    /\ IF IsReencoded(aig)
       THEN /\ pc' = "init"
            /\ UNCHANGED library
       ELSE /\ pc' = "reencode"
            /\ StartReencode
    /\ UNCHANGED <<clausification, formulas>>

\* The end of make_context, after a reencoding.
ContextReencoded ==
    /\ FinishReencode
    /\ pc' = "init"
    /\ UNCHANGED <<clausification, formulas>>

-----------------------------------------------------------------------------
(* build_from_context: build_init, build_trans and build_error, in this    *)
(* order.                                                                  *)

\* build_init: a latch with a constant reset has a unit clause.
ResetClauses(g) ==
    {{<<<<"state", i>>, g.latches[i].reset # 0>>}
        : i \in {j \in DOMAIN g.latches : IsConstant(g.latches[j].reset)}}

\* The literals build_trans requires.
NextLiterals(g) ==
    {l \in {g.latches[i].next : i \in DOMAIN g.latches} : ~IsConstant(l)}

BuildInit ==
    /\ pc = "init"
    /\ init' = ResetClauses(aig)
    /\ required' = NextLiterals(aig)
    /\ gate' = Len(aig.ands)
    /\ pc' = "trans"
    /\ UNCHANGED <<library, trans, error>>

IsRequired(a) == a.lhs \in required \/ Not(a.lhs) \in required

\* One iteration of clausify_subgraph, from the last gate to the first.
ClausifyGate ==
    /\ pc \in {"trans", "error"}
    /\ gate > 0
    /\ gate' = gate - 1
    /\ LET a == aig.ands[gate]
           clauses == IF IsRequired(a) THEN ClausifyAnd(aig, a) ELSE {}
       IN  /\ required' = IF IsRequired(a) THEN required \cup {a.rhs0, a.rhs1} ELSE required
           /\ trans' = IF pc = "trans" THEN trans \cup clauses ELSE trans
           /\ error' = IF pc = "error" THEN error \cup clauses ELSE error
    /\ UNCHANGED <<pc, library, init>>

\* The clauses that tie the next state variable of latch i to its function.
LatchClauses(g, i) ==
    LET next == <<<<"next", i>>, TRUE>>
        l == g.latches[i].next
    IN  IF l = 1 THEN {{next}}
        ELSE IF l = 0 THEN {{Neg(next)}}
        ELSE Equivalence(next, FromAigerLit(g, l))

\* The literal of the one property.
ErrorLiteral(g) == IF Len(g.outputs) > 0 THEN g.outputs[1] ELSE g.bad[1]

\* The end of build_trans, and build_error up to the call of clausify_subgraph.
\* A constant error is the empty formula or the empty clause.
FinishTrans ==
    /\ pc = "trans"
    /\ gate = 0
    /\ trans' = trans \cup UNION {LatchClauses(aig, i) : i \in DOMAIN aig.latches}
    /\ IF IsConstant(ErrorLiteral(aig))
       THEN /\ error' = IF ErrorLiteral(aig) = 1 THEN {} ELSE {{}}
            /\ pc' = "built"
            /\ UNCHANGED clausification
       ELSE /\ required' = {ErrorLiteral(aig)}
            /\ gate' = Len(aig.ands)
            /\ pc' = "error"
            /\ UNCHANGED error
    /\ UNCHANGED <<library, init>>

FinishError ==
    /\ pc = "error"
    /\ gate = 0
    /\ error' = error \cup {{FromAigerLit(aig, ErrorLiteral(aig))}}
    /\ pc' = "built"
    /\ UNCHANGED <<library, clausification, init, trans>>

-----------------------------------------------------------------------------
(* What a graph means, by evaluation. Latches and input variables are      *)
(* numbered as in the file; Latches may have more elements, which are      *)
(* latches that are never set.                                             *)

\* The values of the variables of g in state s under the inputs in.
Values(g, s, in) ==
    LET value[v \in 0 .. g.maxvar] ==
            LET lit(l) == value[Var(l)] # (Sign(l) = 1)
            IN  \/ \E i \in DOMAIN g.inputs : g.inputs[i] = 2 * v /\ in[i]
                \/ \E i \in DOMAIN g.latches : g.latches[i].lit = 2 * v /\ s[i]
                \/ \E i \in DOMAIN g.ands :
                        g.ands[i].lhs = 2 * v /\ lit(g.ands[i].rhs0) /\ lit(g.ands[i].rhs1)
    IN  value

LitValue(values, l) == values[Var(l)] # (Sign(l) = 1)

\* The transition system a graph describes.
Circuit(g) ==
    [ init  |-> {<<i, g.latches[i].reset = 1>>
                    : i \in {j \in DOMAIN g.latches : IsConstant(g.latches[j].reset)}},
      next  |-> [si \in States \X Inputs |->
                    LET values == Values(g, si[1], si[2])
                    IN  [x \in Latches |->
                            x \in DOMAIN g.latches /\ LitValue(values, g.latches[x].next)]],
      error |-> {si \in States \X Inputs : LitValue(Values(g, si[1], si[2]), ErrorLiteral(g))} ]

-----------------------------------------------------------------------------
(* What the formulas mean, by their models.                                *)

AuxValuations == [DOMAIN aig.ands -> BOOLEAN]

\* The next state and auxiliary variables t and aux complete s and in to a model.
IsCnfModel(f, s, in, t, aux) ==
    \A c \in f : \E l \in c :
        l[2] = CASE l[1][1] = "state" -> s[l[1][2]]
                 [] l[1][1] = "input" -> in[l[1][2]]
                 [] l[1][1] = "next"  -> t[l[1][2]]
                 [] l[1][1] = "and"   -> aux[l[1][2]]

\* The states that are models of f as next states of s under in.
NextModels(f, s, in) ==
    {t \in States : /\ \A x \in Latches \ DOMAIN aig.latches : ~t[x]
                    /\ \E aux \in AuxValuations : IsCnfModel(f, s, in, t, aux)}

\* The system the engines are given, when each state has one next state.
Encoded ==
    [ init  |-> {<<l[1][2], l[2]>> : l \in UNION init},
      next  |-> [si \in States \X Inputs |-> CHOOSE t \in NextModels(trans, si[1], si[2]) : TRUE],
      error |-> {si \in States \X Inputs : NextModels(error, si[1], si[2]) # {}} ]

-----------------------------------------------------------------------------
(* Properties of the builder.                                              *)

\* clausify_subgraph visits each gate once: a gate that a gate of the formula
\* depends on is still to be visited, or is in the formula.
NothingIsMissed ==
    pc \in {"trans", "error"} =>
        \A i \in DOMAIN aig.ands : IsRequired(aig.ands[i]) =>
            \/ i <= gate
            \/ ClausifyAnd(aig, aig.ands[i]) \subseteq IF pc = "trans" THEN trans ELSE error

\* The formulas describe the circuit in the file, whatever the library renumbered,
\* sorted and dropped: each state has one next state under each input, and an
\* error formula that agrees with the property, alone and together with the
\* transition formula, whose auxiliary variables it shares.
EncodingIsExact ==
    pc = "built" =>
        /\ \A c \in init : \E i \in DOMAIN aig.latches, b \in BOOLEAN : c = {<<<<"state", i>>, b>>}
        /\ Encoded = Circuit(file)
        /\ \A s \in States, in \in Inputs :
            /\ NextModels(trans, s, in) = {NextState(Circuit(file), s, in)}
            /\ NextModels(trans \cup error, s, in) =
                    IF <<s, in>> \in Circuit(file).error THEN {NextState(Circuit(file), s, in)} ELSE {}
=============================================================================
