------------------------------ MODULE MCGeyser ------------------------------
(***************************************************************************)
(* Instances of Geyser for TLC: circuits of at most two latches and one    *)
(* input, and command lines of at most three arguments.                    *)
(***************************************************************************)
EXTENDS Geyser

MCInputs == [{1} -> BOOLEAN]

Latch(l, n, r) == [lit |-> l, next |-> n, reset |-> r]
Gate(l, r0, r1) == [lhs |-> l, rhs0 |-> r0, rhs1 |-> r1]

\* A graph with one output.
Graph(ins, ls, as, out, max) ==
    [ inputs |-> ins, latches |-> ls, ands |-> as, outputs |-> <<out>>, bad |-> <<>>,
      constraints |-> <<>>, numJustice |-> 0, justice |-> <<>>, fairness |-> <<>>, maxvar |-> max ]

-----------------------------------------------------------------------------
(* Circuits.                                                               *)

\* Two gates over an input, a latch and the constants, the second on top of the
\* first: every pair of operands of the first one.
PairsOfGates ==
    { Graph(<<2>>, <<Latch(4, n, 0)>>, <<Gate(6, a, b), Gate(8, c, 4)>>, e, 4)
        : a \in 0 .. 5, b \in 0 .. 5, c \in {6, 7}, n \in {8, 9}, e \in {7, 8} }

\* A gate with constants, required in one polarity.
ConstantGates ==
    { Graph(<<2>>, <<Latch(4, 6, 1)>>, <<Gate(6, a, b)>>, e, 3)
        : a \in {0, 1, 5}, b \in {0, 1, 3}, e \in {6, 7} }

\* A latch with every reset, next state and error, without gates and inputs.
LoneLatches ==
    { Graph(<<>>, <<Latch(2, n, r)>>, <<>>, e, 1) : n \in 0 .. 3, r \in 0 .. 2, e \in 0 .. 3 }

\* A circuit that takes three steps to its error and is through all its states
\* by then. The gates 4, 5 and 6 are a chain; the resets of the latches 2 and 3
\* differ.
Chain ==
    Graph(<<2>>, <<Latch(4, 9, 0), Latch(6, 7, 1)>>,
          <<Gate(8, 2, 4), Gate(10, 2, 9), Gate(12, 7, 10)>>, 12, 6)

\* The variables of g renamed by p.
Renamed(g, p) ==
    LET lit(l) == IF l < 2 THEN l ELSE 2 * p[Var(l)] + Sign(l)
    IN  [ g EXCEPT !.inputs = [i \in DOMAIN @ |-> lit(@[i])],
                   !.latches = [i \in DOMAIN @ |->
                                    Latch(lit(@[i].lit), lit(@[i].next), lit(@[i].reset))],
                   !.ands = [i \in DOMAIN @ |->
                                    Gate(lit(@[i].lhs), lit(@[i].rhs0), lit(@[i].rhs1))],
                   !.outputs = [i \in DOMAIN @ |-> lit(@[i])] ]

Permutations6 == {p \in [1 .. 6 -> 1 .. 6] : \A i, j \in 1 .. 6 : i # j => p[i] # p[j]}

\* The chain in every numbering of its variables, in every order of its gates
\* and with gaps in its variables.
Chains ==
    {Renamed(Chain, p) : p \in Permutations6}
    \cup {[Chain EXCEPT !.ands = <<@[p[1]], @[p[2]], @[p[3]]>>]
            : p \in {q \in [1 .. 3 -> 1 .. 3] : \A i, j \in 1 .. 3 : i # j => q[i] # q[j]}}
    \cup {[Renamed(Chain, [v \in 1 .. 6 |-> 2 * v]) EXCEPT !.maxvar = 12],
          [Renamed(Chain, [v \in 1 .. 6 |-> 8 - v]) EXCEPT !.maxvar = 8]}

\* Graphs with a gate nothing depends on, without latches and with a negated
\* output.
Others ==
    { Graph(<<2>>, <<Latch(4, 3, 0)>>, <<Gate(6, 2, 4), Gate(8, 2, 5)>>, 6, 4),
      Graph(<<2>>, <<Latch(4, 3, 0)>>, <<Gate(8, 2, 4), Gate(6, 8, 5)>>, 8, 4),
      Graph(<<2>>, <<>>, <<Gate(4, 2, 3)>>, 4, 2),
      Graph(<<>>, <<>>, <<>>, 1, 0),
      [Graph(<<2>>, <<Latch(4, 2, 0)>>, <<>>, 4, 2) EXCEPT !.outputs = <<>>, !.bad = <<4>>] }

\* Graphs that are not well-formed, or have a property the builder rejects.
Rejected ==
    LET ok == Graph(<<2>>, <<Latch(4, 6, 0)>>, <<Gate(6, 2, 8), Gate(8, 4, 3)>>, 6, 4)
    IN  { [ok EXCEPT !.ands[2].rhs0 = 6],        \* a cycle of two gates
          [ok EXCEPT !.ands[2].rhs1 = 9],        \* a gate on itself
          [ok EXCEPT !.ands = Append(@, Gate(4, 2, 3))],    \* a latch that is also a gate
          [ok EXCEPT !.inputs = <<2, 4>>],       \* ... and an input
          [ok EXCEPT !.ands = Append(@, Gate(8, 2, 4))],    \* two gates of one variable
          [ok EXCEPT !.ands[1].lhs = 7],         \* an odd definition
          [ok EXCEPT !.ands[1].lhs = 10],        \* one out of range
          [ok EXCEPT !.latches[1].next = 10],    \* a use out of range
          [ok EXCEPT !.inputs = <<>>],           \* uses of what is not defined
          [ok EXCEPT !.maxvar = 5, !.outputs = <<11>>],
          [ok EXCEPT !.maxvar = 5, !.outputs = <<>>, !.numJustice = 1, !.justice = <<10>>],
          [ok EXCEPT !.outputs = <<0>>, !.ands[1].rhs1 = 6],
          [ok EXCEPT !.outputs = <<>>],
          [ok EXCEPT !.outputs = <<6, 8>>],
          [ok EXCEPT !.bad = <<6>>],
          [ok EXCEPT !.constraints = <<3>>],
          [ok EXCEPT !.numJustice = 1, !.justice = <<6>>],
          [ok EXCEPT !.numJustice = 1],
          [ok EXCEPT !.fairness = <<2>>] }

-----------------------------------------------------------------------------
(* Command lines.                                                          *)

Path(p) == [key |-> "", value |-> <<p>>]
Toggle(k) == [key |-> k, value |-> <<>>]
Option(k, v) == [key |-> k, value |-> <<v>>]

MCPaths == {"in"}
MCNumerals == ("-1" :> -1) @@ ("0" :> 0) @@ ("1" :> 1)

Arguments ==
    { Path("in"), Path("missing"),
      Option("-e", "pdr"), Option("-e", "bmc"), Option("--engine", "car"),
      Option("--engine", "z3"), Toggle("-e"),
      Option("-k", "-1"), Option("-k", "0"), Option("-k", "1"), Option("-k", "x"), Toggle("-k"),
      Toggle("--help"), Option("-h", "1"), Toggle("-v") }

Run(name) == <<Option("-e", name), Path("in")>>

\* Command lines with two bounds for BMC.
TwoBounds ==
    {<<Path("in"), b, Option("-e", "bmc"), c>>
        : b, c \in {Option("-k", "-1"), Option("-k", "0"), Option("-k", "1"), Toggle("-k")}}

Unsafe == Graph(<<>>, <<Latch(2, 3, 0)>>, <<>>, 2, 1)
Harmless == Graph(<<>>, <<Latch(2, 2, 0)>>, <<>>, 2, 1)

\* The command lines are run on a small circuit; every engine, with and without
\* a bound, on a few circuits, and PDR and backward CAR on others.
Tried == LoneLatches \cup ConstantGates \cup Others \cup Rejected

MCInvocations ==
    {[args |-> a, file |-> Unsafe] : a \in UNION {[1 .. n -> Arguments] : n \in 0 .. 3}}
    \cup {[args |-> a, file |-> g] : a \in TwoBounds, g \in {Unsafe, Harmless}}
    \cup {[args |-> Run(e), file |-> g] : e \in {"pdr", "bmc", "fcar", "bcar", "abc"}, g \in Tried}
    \cup {[args |-> Append(Run("bmc"), Option("-k", "1")), file |-> g] : g \in Tried}
    \cup {[args |-> Run("pdr"), file |-> g] : g \in PairsOfGates \cup Chains}
    \cup {[args |-> Run("bcar"), file |-> g] : g \in PairsOfGates \cup {Chain}}
=============================================================================
