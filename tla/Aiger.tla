------------------------------- MODULE Aiger -------------------------------
(***************************************************************************)
(* The part of the Aiger library (dep/aiger/aiger.c) that stands between   *)
(* an input file and the builder: the reader of definitions, aiger_check   *)
(* and aiger_reencode.                                                     *)
(*                                                                         *)
(* An and-inverter graph is a record of vectors of literals. A literal is  *)
(* twice its variable, plus one when it is negated; 0 and 1 are the        *)
(* constants false and true. The text of a file is left out: a file is the *)
(* graph its numbers spell, which need not be a well-formed one. The       *)
(* format is the ASCII one: the binary one has no graph that is out of     *)
(* order. A latch resets to 0, to 1 or, uninitialized, to itself. The      *)
(* header, symbols and comments are left out.                              *)
(***************************************************************************)
EXTENDS Integers, Sequences, SequencesExt

Var(l) == l \div 2
Sign(l) == l % 2
Strip(l) == l - Sign(l)
Not(l) == IF Sign(l) = 1 THEN l - 1 ELSE l + 1
IsConstant(l) == l < 2

\* aiger_is_input, aiger_is_latch and aiger_is_and, by variable.
IsInput(g, v) == \E i \in DOMAIN g.inputs : g.inputs[i] = 2 * v
IsLatch(g, v) == \E i \in DOMAIN g.latches : g.latches[i].lit = 2 * v
IsAnd(g, v) == \E i \in DOMAIN g.ands : g.ands[i].lhs = 2 * v

\* The gate of variable v; a variable is defined once.
And(g, v) == g.ands[CHOOSE i \in DOMAIN g.ands : g.ands[i].lhs = 2 * v]

\* The literals of the properties of a graph, those of all justice constraints
\* in one sequence.
Properties(g) == g.outputs \o g.bad \o g.constraints \o g.justice \o g.fairness

WithoutJustice(g) == g.outputs \o g.bad \o g.constraints \o g.fairness

\* The graphs a file may spell. A graph has numJustice justice constraints, with the
\* literals in justice between them. A reset is 0, 1 or the latch itself.
Graphs ==
    [ inputs : Seq(Nat), latches : Seq([lit : Nat, next : Nat, reset : Nat]),
      ands : Seq([lhs : Nat, rhs0 : Nat, rhs1 : Nat]), outputs : Seq(Nat), bad : Seq(Nat),
      constraints : Seq(Nat), numJustice : Nat, justice : Seq(Nat), fairness : Seq(Nat), maxvar : Nat ]

\* The literals of justice constraints come with the constraints, which may be empty.
HasJustice(g) == g.numJustice = 0 => g.justice = <<>>

HasResets(g) == \A i \in DOMAIN g.latches : g.latches[i].reset \in {0, 1, g.latches[i].lit}

VARIABLES
    pc,         \* the function the program is in
    file,       \* the graph in the input file
    aig,        \* the graph as the library has it
    line,       \* the number of lines of the file that have been read
    stack,      \* the stack of aiger_check_for_cycles and aiger_reencode_lit
    marked,     \* type->mark: the gates the cycle check has entered
    onstack,    \* type->onstack
    code,       \* code of aiger_reencode, by variable; 0 when there is none
    new,        \* the next literal to be handed out
    root        \* the number of literals aiger_reencode has passed on

traversal == <<stack, marked, onstack, code, new, root>>
library == <<file, aig, line, traversal>>

\* The graph is loaded from an empty library.
LibraryInit ==
    /\ aig = file
    /\ line = 0
    /\ stack = <<>>
    /\ marked = {}
    /\ onstack = {}
    /\ code = [v \in 0 .. file.maxvar |-> 0]
    /\ new = 2
    /\ root = 0

-----------------------------------------------------------------------------
(* aiger_read_generic: one definition or one property at a time. The       *)
(* vectors grow with every line; nothing looks at them before the last.    *)

\* The lines after the header: the literal a line defines, none for a property,
\* and the literals it uses. Nothing is checked of the lines of a justice
\* constraint, which are left out.
Lines(f) ==
    [i \in DOMAIN f.inputs |-> [def |-> <<f.inputs[i]>>, uses |-> {}]]
    \o [i \in DOMAIN f.latches |-> [def |-> <<f.latches[i].lit>>, uses |-> {f.latches[i].next}]]
    \o [i \in DOMAIN WithoutJustice(f) |-> [def |-> <<>>, uses |-> {WithoutJustice(f)[i]}]]
    \o [i \in DOMAIN f.ands |-> [def |-> <<f.ands[i].lhs>>, uses |-> {f.ands[i].rhs0, f.ands[i].rhs1}]]

\* Mutant of IsReadable: a literal may be defined again.
IsReadableAgain(f, k) ==
    /\ \A l \in ToSet(Lines(f)[k].def) : l # 0 /\ Sign(l) = 0 /\ Var(l) <= f.maxvar
    /\ \A l \in Lines(f)[k].uses : Var(l) <= f.maxvar

\* Line k is read without an error: what it defines is a positive literal in
\* range, not defined before (aiger_already_defined).
IsReadable(f, k) ==
    /\ \A l \in ToSet(Lines(f)[k].def) :
        /\ l # 0 /\ Sign(l) = 0 /\ Var(l) <= f.maxvar
        /\ \A j \in 1 .. k - 1 : l \notin ToSet(Lines(f)[j].def)
    /\ \A l \in Lines(f)[k].uses : Var(l) <= f.maxvar

ReadLine ==
    /\ pc = "read"
    /\ line < Len(Lines(file))
    /\ IsReadable(file, line + 1)
    /\ line' = line + 1
    /\ UNCHANGED <<pc, file, aig, traversal>>

\* The reader returns an error.
Unreadable == pc = "read" /\ line < Len(Lines(file)) /\ ~IsReadable(file, line + 1)

-----------------------------------------------------------------------------
(* aiger_check.                                                            *)

\* aiger_literal_defined
IsDefined(g, l) == \/ Var(l) = 0
                   \/ IsAnd(g, Var(l)) \/ IsInput(g, Var(l)) \/ IsLatch(g, Var(l))

\* The checks of the next states, of the properties and of the gates.
AllDefined(g) ==
    /\ \A i \in DOMAIN g.latches : IsDefined(g, g.latches[i].next)
    /\ \A i \in DOMAIN Properties(g) : IsDefined(g, Properties(g)[i])
    /\ \A i \in DOMAIN g.ands : IsDefined(g, g.ands[i].rhs0) /\ IsDefined(g, g.ands[i].rhs1)

CheckDefined ==
    /\ pc = "read"
    /\ line = Len(Lines(file))
    /\ AllDefined(aig)
    /\ pc' = "cycles"
    /\ UNCHANGED library

Undefined == pc = "read" /\ line = Len(Lines(file)) /\ ~AllDefined(aig)

Pushed(v) == IF v = 0 THEN <<>> ELSE <<v>>

\* aiger_check_for_cycles: a traversal from the lowest gate that is left...
CycleRoot ==
    /\ pc = "cycles"
    /\ stack = <<>>
    /\ \E v \in 1 .. aig.maxvar :
        /\ IsAnd(aig, v) /\ v \notin marked
        /\ \A u \in 1 .. v - 1 : IsAnd(aig, u) => u \in marked
        /\ stack' = <<v>>
    /\ UNCHANGED <<pc, file, aig, line, marked, onstack, code, new, root>>

\* ... which enters a gate once, and leaves a 0 on top of it...
EnterGate ==
    /\ pc = "cycles"
    /\ stack # <<>>
    /\ LET v == Last(stack)
       IN  /\ v # 0
           /\ ~(v \in marked /\ v \in onstack)
           /\ IF ~IsAnd(aig, v) \/ v \in marked
              THEN /\ stack' = Front(stack)
                   /\ UNCHANGED <<marked, onstack>>
              ELSE /\ marked' = marked \cup {v}
                   /\ onstack' = onstack \cup {v}
                   /\ stack' = stack \o <<0>> \o Pushed(Var(And(aig, v).rhs0))
                                              \o Pushed(Var(And(aig, v).rhs1))
    /\ UNCHANGED <<pc, file, aig, line, code, new, root>>

\* Mutant of LeaveGate: the gate stays on the stack for the checks to come.
LeaveGateOnStack ==
    /\ pc = "cycles"
    /\ stack # <<>>
    /\ Last(stack) = 0
    /\ stack' = Front(Front(stack))
    /\ UNCHANGED <<pc, file, aig, line, marked, onstack, code, new, root>>

\* ... until its descendants have been traversed.
LeaveGate ==
    /\ pc = "cycles"
    /\ stack # <<>>
    /\ Last(stack) = 0
    /\ stack' = Front(Front(stack))
    /\ onstack' = onstack \ {Last(Front(stack))}
    /\ UNCHANGED <<pc, file, aig, line, marked, code, new, root>>

\* A gate that is reached while it is entered depends on itself.
Cyclic ==
    /\ pc = "cycles"
    /\ stack # <<>>
    /\ Last(stack) # 0
    /\ Last(stack) \in marked /\ Last(stack) \in onstack

\* aiger_check returns no error, and with it aiger_open_and_read_from_file.
Acyclic ==
    /\ pc = "cycles"
    /\ stack = <<>>
    /\ \A v \in 1 .. aig.maxvar : IsAnd(aig, v) => v \in marked

-----------------------------------------------------------------------------
(* aiger_reencode.                                                         *)

\* aiger_max_input_or_latch
MaxInputOrLatch(g) ==
    CHOOSE m \in {0} \cup ToSet(g.inputs) \cup {g.latches[i].lit : i \in DOMAIN g.latches} :
        /\ \A i \in DOMAIN g.inputs : g.inputs[i] <= m
        /\ \A i \in DOMAIN g.latches : g.latches[i].lit <= m

\* aiger_is_reencoded
IsReencoded(g) ==
    /\ \A i \in DOMAIN g.inputs : g.inputs[i] = 2 * i
    /\ \A i \in DOMAIN g.latches : g.latches[i].lit = 2 * (Len(g.inputs) + i)
    /\ \A i \in DOMAIN g.ands :
        /\ g.ands[i].lhs = MaxInputOrLatch(g) + 2 * i
        /\ g.ands[i].lhs >= g.ands[i].rhs0
        /\ g.ands[i].rhs0 >= g.ands[i].rhs1

\* The literals that are reencoded, in the order of the calls.
Roots(g) ==
    [k \in 1 .. 2 * Len(g.latches) |->
        LET l == g.latches[(k + 1) \div 2] IN IF k % 2 = 1 THEN l.next ELSE l.reset]
    \o Properties(g)

\* Inputs and latches come first.
StartReencode ==
    /\ code' = [v \in 0 .. aig.maxvar |->
            IF IsInput(aig, v) THEN 2 * (CHOOSE i \in DOMAIN aig.inputs : aig.inputs[i] = 2 * v)
            ELSE IF IsLatch(aig, v)
            THEN 2 * (Len(aig.inputs) + CHOOSE i \in DOMAIN aig.latches : aig.latches[i].lit = 2 * v)
            ELSE 0]
    /\ new' = 2 * (Len(aig.inputs) + Len(aig.latches) + 1)
    /\ UNCHANGED <<file, aig, line, stack, marked, onstack, root>>

\* aiger_reencode_lit: a constant or a literal with a code is done.
ReencodeRoot ==
    /\ pc = "reencode"
    /\ stack = <<>>
    /\ root < Len(Roots(aig))
    /\ LET l == Roots(aig)[root + 1]
       IN  stack' = IF IsConstant(l) \/ code[Var(l)] # 0 THEN <<>> ELSE <<Var(l)>>
    /\ root' = root + 1
    /\ UNCHANGED <<pc, file, aig, line, marked, onstack, code, new>>

\* A child that has to be traversed before its gate.
PushedChild(v) ==
    IF v = 0 \/ IsInput(aig, v) \/ IsLatch(aig, v) \/ v \in onstack THEN <<>> ELSE <<v>>

\* The gate goes back on the stack under a 0, and its children on top, the
\* smaller one last. A gate never has itself as a child.
ExpandGate ==
    /\ pc = "reencode"
    /\ stack # <<>>
    /\ LET v == Last(stack)
           g == And(aig, v)
           larger == IF Var(g.rhs0) >= Var(g.rhs1) THEN Var(g.rhs0) ELSE Var(g.rhs1)
           smaller == IF Var(g.rhs0) >= Var(g.rhs1) THEN Var(g.rhs1) ELSE Var(g.rhs0)
       IN  /\ v # 0
           /\ IF code[v] # 0 \/ v \in onstack
              THEN /\ stack' = Front(stack)
                   /\ UNCHANGED onstack
              ELSE /\ onstack' = onstack \cup {v}
                   /\ stack' = stack \o <<0>> \o PushedChild(larger) \o PushedChild(smaller)
    /\ UNCHANGED <<pc, file, aig, line, marked, code, new, root>>

\* aiger_new_code, when the children have theirs.
CodeGate ==
    /\ pc = "reencode"
    /\ stack # <<>>
    /\ Last(stack) = 0
    /\ LET v == Last(Front(stack))
       IN  /\ code' = [code EXCEPT ![v] = new]
           /\ onstack' = onstack \ {v}
    /\ stack' = Front(Front(stack))
    /\ new' = new + 2
    /\ UNCHANGED <<pc, file, aig, line, marked, root>>

\* code, by literal.
Code(l) == IF IsConstant(l) THEN l ELSE code[Var(l)] + Sign(l)

\* Mutant of RecodedAnds: the gates keep the order they had.
RecodedAndsUnsorted(g) ==
    LET recoded(a) == [lhs |-> Code(a.lhs), rhs0 |-> Code(a.rhs0), rhs1 |-> Code(a.rhs1)]
        kept == SelectSeq(g.ands, LAMBDA a : code[Var(a.lhs)] # 0)
    IN  [i \in DOMAIN kept |-> recoded(kept[i])]

\* The gates that were reached, with the larger operand first, by their codes.
\* The others are dropped.
RecodedAnds(g) ==
    LET ordered(l, r0, r1) ==
            [lhs |-> l, rhs0 |-> IF r0 < r1 THEN r1 ELSE r0, rhs1 |-> IF r0 < r1 THEN r0 ELSE r1]
        reached == {i \in DOMAIN g.ands : code[Var(g.ands[i].lhs)] # 0}
        gates == {ordered(Code(g.ands[i].lhs), Code(g.ands[i].rhs0), Code(g.ands[i].rhs1)) : i \in reached}
    IN  CHOOSE s \in [1 .. Cardinality(gates) -> gates] :
            \A i, j \in DOMAIN s : i < j => s[i].lhs < s[j].lhs

Recoded(g) ==
    LET recode(ls) == [i \in DOMAIN ls |-> Code(ls[i])]
    IN  [ inputs      |-> recode(g.inputs),
          latches     |-> [i \in DOMAIN g.latches |->
                            [ lit   |-> Code(g.latches[i].lit),
                              next  |-> Code(g.latches[i].next),
                              reset |-> Code(g.latches[i].reset) ]],
          ands        |-> RecodedAnds(g),
          outputs     |-> recode(g.outputs),
          bad         |-> recode(g.bad),
          constraints |-> recode(g.constraints),
          numJustice  |-> g.numJustice,
          justice     |-> recode(g.justice),
          fairness    |-> recode(g.fairness),
          maxvar      |-> Var(new - 1) ]

\* The end of aiger_reencode.
FinishReencode ==
    /\ pc = "reencode"
    /\ stack = <<>>
    /\ root = Len(Roots(aig))
    /\ aig' = Recoded(aig)
    /\ UNCHANGED <<file, line, traversal>>
=============================================================================
