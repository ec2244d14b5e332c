---------------------------- MODULE WitnessProof ----------------------------
(***************************************************************************)
(* Proofs about what the builder makes of a graph, and about the answer of *)
(* the program: the formulas have the models that the evaluation of the    *)
(* graph in the file gives them, whatever reencoding did to it, and the    *)
(* witness is about the circuit in that file, for all arguments and files: *)
(* what it says depends on the engine, and what backward CAR says on the   *)
(* gates that the property shares with the next state functions.           *)
(***************************************************************************)
EXTENDS GeyserProof

-----------------------------------------------------------------------------
(* The equations of a graph have a solution when its gates can be ordered. *)

LeafValue(g, s, in, v) ==
    \/ \E i \in DOMAIN g.inputs : g.inputs[i] = 2 * v /\ in[i]
    \/ \E i \in DOMAIN g.latches : g.latches[i].lit = 2 * v /\ s[i]

GateValue(f, a) == LitValue(f, a.rhs0) /\ LitValue(f, a.rhs1)

\* The right side of the equation of variable v.
Equation(g, s, in, f, v) ==
    \/ LeafValue(g, s, in, v)
    \/ \E i \in DOMAIN g.ands : g.ands[i].lhs = 2 * v /\ GateValue(f, g.ands[i])

IsSolution(g, s, in, f) == f = [v \in 0 .. g.maxvar |-> Equation(g, s, in, f, v)]

\* The gates of variable v are at most n-th in the order.
UpTo(g, rank, v, n) == \A i \in DOMAIN g.ands : g.ands[i].lhs = 2 * v => rank[i] <= n

SolvesUpTo(g, s, in, rank, f, n) ==
    /\ f \in [0 .. g.maxvar -> BOOLEAN]
    /\ \A v \in 0 .. g.maxvar : UpTo(g, rank, v, n) => f[v] = Equation(g, s, in, f, v)

\* What a gate of rank n + 1 depends on is at most n-th.
LEMMA OperandsUpTo ==
    ASSUME NEW g, Sound(g), NEW rank \in [DOMAIN g.ands -> DOMAIN g.ands], IsGateOrder(g, rank),
           NEW n \in Nat, NEW i \in DOMAIN g.ands, rank[i] <= n + 1,
           NEW l, l \in {g.ands[i].rhs0, g.ands[i].rhs1}
    PROVE  Var(l) \in 0 .. g.maxvar /\ UpTo(g, rank, Var(l), n)
<1>1. g \in Graphs /\ DOMAIN g.ands = 1 .. Len(g.ands) /\ Len(g.ands) \in Nat
  BY GraphParts DEF Sound
<1>2. g.ands[i].rhs0 \in Nat /\ g.ands[i].rhs1 \in Nat /\ l \in Nat
  BY <1>1, GraphElements
<1>3. IsDefined(g, l)
  BY DEF Sound, AllDefined
<1>4. Var(l) \in 0 .. g.maxvar
  BY <1>2, <1>3, DefinedInRange
<1>5. ASSUME NEW j \in DOMAIN g.ands, g.ands[j].lhs = 2 * Var(l) PROVE rank[j] <= n
  <2>1. g.ands[j].lhs \in Nat
    BY <1>1, GraphElements
  <2>2. Var(l) \in Nat /\ Var(g.ands[j].lhs) = Var(l)
    BY <1>2, <1>5, LiteralParts, VarOfPositive
  <2>3. Strip(g.ands[j].lhs) = 2 * Var(l) /\ Strip(l) = 2 * Var(l)
    BY <1>2, <2>1, <2>2, StripIs
  <2>4. Strip(g.ands[j].lhs) \in {Strip(g.ands[i].rhs0), Strip(g.ands[i].rhs1)}
    BY <2>3
  <2>5. rank[j] < rank[i]
    BY <2>4 DEF IsGateOrder
  <2>6. rank[j] \in Nat /\ rank[i] \in Nat
    BY <1>1
  <2> QED
    BY <2>5, <2>6
<1> QED
  BY <1>4, <1>5 DEF UpTo

\* The equation of a variable depends on the values of its operands only.
LEMMA EquationAgrees ==
    ASSUME NEW g, Sound(g), NEW s, NEW in, NEW f, NEW h, NEW v,
           \A i \in DOMAIN g.ands : g.ands[i].lhs = 2 * v =>
                f[Var(g.ands[i].rhs0)] = h[Var(g.ands[i].rhs0)]
                /\ f[Var(g.ands[i].rhs1)] = h[Var(g.ands[i].rhs1)]
    PROVE  Equation(g, s, in, f, v) = Equation(g, s, in, h, v)
BY DEF Equation, GateValue, LitValue

\* What solves the equations up to rank n is extended to rank n + 1.
LEMMA SolutionGrows ==
    ASSUME NEW g, Sound(g), NEW rank \in [DOMAIN g.ands -> DOMAIN g.ands], IsGateOrder(g, rank),
           NEW s, NEW in, NEW n \in Nat, NEW f, SolvesUpTo(g, s, in, rank, f, n),
           NEW h, h = [v \in 0 .. g.maxvar |-> Equation(g, s, in, f, v)]
    PROVE  SolvesUpTo(g, s, in, rank, h, n + 1)
<1>1. h \in [0 .. g.maxvar -> BOOLEAN]
  BY DEF Equation
<1>2. ASSUME NEW v \in 0 .. g.maxvar, UpTo(g, rank, v, n + 1) PROVE h[v] = Equation(g, s, in, h, v)
  <2>1. ASSUME NEW i \in DOMAIN g.ands, g.ands[i].lhs = 2 * v, NEW l, l \in {g.ands[i].rhs0, g.ands[i].rhs1}
        PROVE  f[Var(l)] = h[Var(l)]
    <3>1. rank[i] <= n + 1
      BY <1>2, <2>1 DEF UpTo
    <3>2. Var(l) \in 0 .. g.maxvar /\ UpTo(g, rank, Var(l), n)
      BY <2>1, <3>1, OperandsUpTo
    <3>3. f[Var(l)] = Equation(g, s, in, f, Var(l))
      BY <3>2 DEF SolvesUpTo
    <3> QED
      BY <3>2, <3>3
  <2>2. \A i \in DOMAIN g.ands : g.ands[i].lhs = 2 * v =>
            f[Var(g.ands[i].rhs0)] = h[Var(g.ands[i].rhs0)]
            /\ f[Var(g.ands[i].rhs1)] = h[Var(g.ands[i].rhs1)]
    BY <2>1
  <2>3. Equation(g, s, in, f, v) = Equation(g, s, in, h, v)
    BY ONLY <2>2, EquationAgrees, Sound(g)
  <2> QED
    BY <2>3
<1> QED
  BY <1>1, <1>2 DEF SolvesUpTo

\* The equations have a solution, by induction on the rank of the gates.
LEMMA SolutionExists ==
    ASSUME NEW g, Sound(g), NEW rank \in [DOMAIN g.ands -> DOMAIN g.ands], IsGateOrder(g, rank),
           NEW s, NEW in
    PROVE  \E f : IsSolution(g, s, in, f)
<1>1. DOMAIN g.ands = 1 .. Len(g.ands) /\ Len(g.ands) \in Nat /\ g.maxvar \in Nat
  BY GraphParts DEF Sound
<1> DEFINE T == {n \in Nat : \E f : SolvesUpTo(g, s, in, rank, f, n)}
<1>2. 0 \in T
  <2> DEFINE f == [v \in 0 .. g.maxvar |-> LeafValue(g, s, in, v)]
  <2>1. f \in [0 .. g.maxvar -> BOOLEAN]
    BY DEF LeafValue
  <2>2. ASSUME NEW v \in 0 .. g.maxvar, UpTo(g, rank, v, 0) PROVE f[v] = Equation(g, s, in, f, v)
    <3>1. \A i \in DOMAIN g.ands : g.ands[i].lhs # 2 * v
      BY <1>1, <2>2 DEF UpTo
    <3>2. Equation(g, s, in, f, v) = LeafValue(g, s, in, v)
      BY <3>1 DEF Equation, LeafValue
    <3> QED
      BY <3>2
  <2>3. SolvesUpTo(g, s, in, rank, f, 0)
    BY <2>1, <2>2 DEF SolvesUpTo
  <2> QED
    BY <2>3
<1>3. ASSUME NEW n \in Nat, n \in T PROVE n + 1 \in T
  <2>1. PICK f : SolvesUpTo(g, s, in, rank, f, n)
    BY <1>3
  <2>2. SolvesUpTo(g, s, in, rank, [v \in 0 .. g.maxvar |-> Equation(g, s, in, f, v)], n + 1)
    BY <2>1, SolutionGrows
  <2> QED
    BY <2>2
<1>4. Len(g.ands) \in T
  <2> HIDE DEF T
  <2> QED
    BY <1>1, <1>2, <1>3, SetInduction
<1>5. PICK f : SolvesUpTo(g, s, in, rank, f, Len(g.ands))
  BY <1>4
<1>6. ASSUME NEW v \in 0 .. g.maxvar PROVE UpTo(g, rank, v, Len(g.ands))
  BY <1>1 DEF UpTo
<1>7. f = [v \in 0 .. g.maxvar |-> Equation(g, s, in, f, v)]
  BY <1>5, <1>6 DEF SolvesUpTo
<1> QED
  BY <1>7 DEF IsSolution

\* Values, the recursive function, is a solution of its equations.
LEMMA ValuesSolve ==
    ASSUME NEW g, Sound(g), NEW rank \in [DOMAIN g.ands -> DOMAIN g.ands], IsGateOrder(g, rank),
           NEW s, NEW in
    PROVE  IsSolution(g, s, in, Values(g, s, in))
<1>1. \E f : IsSolution(g, s, in, f)
  BY SolutionExists
<1>2. Values(g, s, in) = CHOOSE f : IsSolution(g, s, in, f)
  BY Zenon DEF Values, IsSolution, Equation, LeafValue, GateValue, LitValue
<1> QED
  BY <1>1, <1>2, Zenon

\* The inputs and the latches of g have truth values.
Fits(g, s, in) ==
    /\ \A i \in 1 .. Len(g.inputs) : in[i] \in BOOLEAN
    /\ \A i \in 1 .. Len(g.latches) : s[i] \in BOOLEAN

IsValuation(g, f) == f \in [0 .. g.maxvar -> BOOLEAN] /\ f[0] = FALSE

\* f evaluates g in state s under the inputs in.
Evaluates(g, s, in, f) ==
    /\ IsValuation(g, f)
    /\ \A i \in 1 .. Len(g.inputs) : f[Var(g.inputs[i])] = in[i]
    /\ \A i \in 1 .. Len(g.latches) : f[Var(g.latches[i].lit)] = s[i]
    /\ \A i \in 1 .. Len(g.ands) : f[Var(g.ands[i].lhs)] = GateValue(f, g.ands[i])

\* A definition is the positive literal of a variable in the range.
LEMMA DefinitionIs ==
    ASSUME NEW g, g.maxvar \in Nat, NEW l, IsDefinition(g, l)
    PROVE  Var(l) \in 1 .. g.maxvar /\ l = 2 * Var(l) /\ l \in Nat /\ Sign(l) = 0
<1>1. PICK v \in 1 .. g.maxvar : l = 2 * v
  BY DEF IsDefinition
<1> QED
  BY <1>1, VarOfPositive

\* A solution of the equations is an evaluation.
LEMMA SolutionEvaluates ==
    ASSUME NEW g, Sound(g), NEW s, NEW in, Fits(g, s, in), NEW f, IsSolution(g, s, in, f)
    PROVE  Evaluates(g, s, in, f)
<1>1. /\ DOMAIN g.ands = 1 .. Len(g.ands) /\ Len(g.ands) \in Nat /\ g.maxvar \in Nat
      /\ DOMAIN g.inputs = 1 .. Len(g.inputs) /\ DOMAIN g.latches = 1 .. Len(g.latches)
  BY GraphParts DEF Sound
<1>2. f \in [0 .. g.maxvar -> BOOLEAN] /\ \A v \in 0 .. g.maxvar : f[v] = Equation(g, s, in, f, v)
  BY DEF IsSolution, Equation
<1>d. DefinedOnce(g)
  BY DEF Sound
<1>3. f[0] = FALSE
  <2>1. \A i \in 1 .. Len(g.inputs) : g.inputs[i] # 2 * 0
    BY <1>1, <1>d, DefinitionIs DEF DefinedOnce
  <2>2. \A i \in 1 .. Len(g.latches) : g.latches[i].lit # 2 * 0
    BY <1>1, <1>d, DefinitionIs DEF DefinedOnce
  <2>3. \A i \in 1 .. Len(g.ands) : g.ands[i].lhs # 2 * 0
    BY <1>1, <1>d, DefinitionIs DEF DefinedOnce
  <2>4. ~Equation(g, s, in, f, 0)
    BY <1>1, <2>1, <2>2, <2>3 DEF Equation, LeafValue
  <2>5. 0 \in 0 .. g.maxvar
    BY <1>1
  <2> QED
    BY <1>2, <2>4, <2>5
<1>4. ASSUME NEW i \in 1 .. Len(g.inputs) PROVE f[Var(g.inputs[i])] = in[i]
  <2>1. PICK v \in 1 .. g.maxvar : v = Var(g.inputs[i]) /\ g.inputs[i] = 2 * v
    BY <1>1, <1>d, DefinitionIs DEF DefinedOnce
  <2>2. \A j \in 1 .. Len(g.inputs) : g.inputs[j] = 2 * v => j = i
    BY <1>d, <2>1 DEF DefinedOnce
  <2>3. \A j \in 1 .. Len(g.latches) : g.latches[j].lit # 2 * v
    BY <1>d, <2>1 DEF DefinedOnce
  <2>4. \A j \in 1 .. Len(g.ands) : g.ands[j].lhs # 2 * v
    BY <1>d, <2>1 DEF DefinedOnce
  <2>5. Equation(g, s, in, f, v) <=> in[i]
    BY <1>1, <2>1, <2>2, <2>3, <2>4 DEF Equation, LeafValue
  <2>6. in[i] \in BOOLEAN /\ f[v] \in BOOLEAN /\ f[v] = Equation(g, s, in, f, v)
    BY <1>2 DEF Fits
  <2> QED
    BY <2>1, <2>5, <2>6
<1>5. ASSUME NEW i \in 1 .. Len(g.latches) PROVE f[Var(g.latches[i].lit)] = s[i]
  <2>1. PICK v \in 1 .. g.maxvar : v = Var(g.latches[i].lit) /\ g.latches[i].lit = 2 * v
    BY <1>1, <1>d, DefinitionIs DEF DefinedOnce
  <2>2. \A j \in 1 .. Len(g.inputs) : g.inputs[j] # 2 * v
    BY <1>d, <2>1 DEF DefinedOnce
  <2>3. \A j \in 1 .. Len(g.latches) : g.latches[j].lit = 2 * v => j = i
    BY <1>d, <2>1 DEF DefinedOnce
  <2>4. \A j \in 1 .. Len(g.ands) : g.ands[j].lhs # 2 * v
    BY <1>d, <2>1 DEF DefinedOnce
  <2>5. Equation(g, s, in, f, v) <=> s[i]
    BY <1>1, <2>1, <2>2, <2>3, <2>4 DEF Equation, LeafValue
  <2>6. s[i] \in BOOLEAN /\ f[v] \in BOOLEAN /\ f[v] = Equation(g, s, in, f, v)
    BY <1>2 DEF Fits
  <2> QED
    BY <2>1, <2>5, <2>6
<1>6. ASSUME NEW i \in 1 .. Len(g.ands) PROVE f[Var(g.ands[i].lhs)] = GateValue(f, g.ands[i])
  <2>1. PICK v \in 1 .. g.maxvar : v = Var(g.ands[i].lhs) /\ g.ands[i].lhs = 2 * v
    BY <1>1, <1>d, DefinitionIs DEF DefinedOnce
  <2>2. \A j \in 1 .. Len(g.inputs) : g.inputs[j] # 2 * v
    BY <1>d, <2>1 DEF DefinedOnce
  <2>3. \A j \in 1 .. Len(g.latches) : g.latches[j].lit # 2 * v
    BY <1>d, <2>1 DEF DefinedOnce
  <2>4. \A j \in 1 .. Len(g.ands) : g.ands[j].lhs = 2 * v => j = i
    BY <1>d, <2>1 DEF DefinedOnce
  <2>5. Equation(g, s, in, f, v) <=> GateValue(f, g.ands[i])
    BY <1>1, <2>1, <2>2, <2>3, <2>4 DEF Equation, LeafValue
  <2>6. f[v] \in BOOLEAN /\ f[v] = Equation(g, s, in, f, v) /\ GateValue(f, g.ands[i]) \in BOOLEAN
    BY <1>2 DEF GateValue
  <2> QED
    BY <2>1, <2>5, <2>6
<1> QED
  BY <1>2, <1>3, <1>4, <1>5, <1>6 DEF Evaluates, IsValuation

-----------------------------------------------------------------------------
(* Reencoding keeps the values.                                            *)

\* No two variables have one code.
LEMMA CodesDiffer ==
    ASSUME NEW g, Sound(g), NEW cd, NEW nw, CodeInv(g, cd, nw),
           NEW u \in 1 .. g.maxvar, NEW v \in 1 .. g.maxvar, cd[u] # 0, cd[u] = cd[v]
    PROVE  u = v
<1>1. PICK I \in Nat, L \in Nat : I = Len(g.inputs) /\ L = Len(g.latches)
  BY GraphParts DEF Sound
<1>2. /\ g.maxvar \in Nat /\ DOMAIN g.inputs = 1 .. I /\ DOMAIN g.latches = 1 .. L
  BY <1>1, GraphParts DEF Sound
<1>3. PICK n \in Nat : \E o : IsCodeOrder(g, cd, nw, n, o)
  BY DEF CodeInv, CodedInOrder
<1>4. PICK o : IsCodeOrder(g, cd, nw, n, o)
  BY <1>3
<1>5. PICK F : F = FirstCode(g)
  OBVIOUS
<1>6. F = 2 * (I + L + 1)
  BY <1>1, <1>5 DEF FirstCode
<1>7. ASSUME NEW w \in 1 .. g.maxvar, cd[w] # 0
      PROVE  \/ \E i \in 1 .. I : g.inputs[i] = 2 * w /\ cd[w] = 2 * i
             \/ \E i \in 1 .. L : g.latches[i].lit = 2 * w /\ cd[w] = 2 * (I + i)
             \/ \E k \in 1 .. n : o[k] = w /\ cd[w] = F + 2 * (k - 1)
  <2>1. IsInput(g, w) \/ IsLatch(g, w) \/ IsAnd(g, w)
    BY <1>7, <1>2 DEF CodeInv, LeavesCoded
  <2>2. CASE IsInput(g, w)
    <3>1. PICK i \in 1 .. I : g.inputs[i] = 2 * w
      BY <1>2, <2>2 DEF IsInput
    <3>2. cd[w] = 2 * i
      BY <1>1, <1>2, <3>1 DEF CodeInv, LeavesCoded
    <3> QED
      BY <3>1, <3>2
  <2>3. CASE IsLatch(g, w)
    <3>1. PICK i \in 1 .. L : g.latches[i].lit = 2 * w
      BY <1>2, <2>3 DEF IsLatch
    <3>2. cd[w] = 2 * (I + i)
      BY <1>1, <1>2, <3>1 DEF CodeInv, LeavesCoded
    <3> QED
      BY <3>1, <3>2
  <2>4. CASE IsAnd(g, w)
    BY <1>4, <1>5, <1>7, <2>4 DEF IsCodeOrder
  <2> QED
    BY <2>1, <2>2, <2>3, <2>4
<1>8. cd[v] # 0
  OBVIOUS
<1>9. CASE \E i \in 1 .. I : g.inputs[i] = 2 * u /\ cd[u] = 2 * i
  <2>1. PICK i \in 1 .. I : g.inputs[i] = 2 * u /\ cd[u] = 2 * i
    BY <1>9
  <2>2. PICK z : z = cd[v]
    OBVIOUS
  <2>3. z = 2 * i
    BY <2>1, <2>2
  <2>4. \E j \in 1 .. I : g.inputs[j] = 2 * v /\ z = 2 * j
    <3>1. \A j \in 1 .. L : z # 2 * (I + j)
      BY ONLY <2>3, i \in 1 .. I, I \in Nat, L \in Nat
    <3>2. \A k \in 1 .. n : z # F + 2 * (k - 1)
      BY ONLY <2>3, <1>6, i \in 1 .. I, I \in Nat, L \in Nat, n \in Nat
    <3> QED
      BY <1>7, <1>8, <2>2, <3>1, <3>2
  <2>5. \A j \in 1 .. I : z = 2 * j => i = j
    BY ONLY <2>3, i \in 1 .. I, I \in Nat
  <2>6. 2 * u = 2 * v
    BY <2>1, <2>4, <2>5
  <2> QED
    BY <2>6
<1>10. CASE \E i \in 1 .. L : g.latches[i].lit = 2 * u /\ cd[u] = 2 * (I + i)
  <2>1. PICK i \in 1 .. L : g.latches[i].lit = 2 * u /\ cd[u] = 2 * (I + i)
    BY <1>10
  <2>2. PICK z : z = cd[v]
    OBVIOUS
  <2>3. z = 2 * (I + i)
    BY <2>1, <2>2
  <2>4. \E j \in 1 .. L : g.latches[j].lit = 2 * v /\ z = 2 * (I + j)
    <3>1. \A j \in 1 .. I : z # 2 * j
      BY ONLY <2>3, i \in 1 .. L, I \in Nat, L \in Nat
    <3>2. \A k \in 1 .. n : z # F + 2 * (k - 1)
      BY ONLY <2>3, <1>6, i \in 1 .. L, I \in Nat, L \in Nat, n \in Nat
    <3> QED
      BY <1>7, <1>8, <2>2, <3>1, <3>2
  <2>5. \A j \in 1 .. L : z = 2 * (I + j) => i = j
    BY ONLY <2>3, i \in 1 .. L, I \in Nat, L \in Nat
  <2>6. 2 * u = 2 * v
    BY <2>1, <2>4, <2>5
  <2> QED
    BY <2>6
<1>11. CASE \E k \in 1 .. n : o[k] = u /\ cd[u] = F + 2 * (k - 1)
  <2>1. PICK i \in 1 .. n : o[i] = u /\ cd[u] = F + 2 * (i - 1)
    BY <1>11
  <2>2. PICK z : z = cd[v]
    OBVIOUS
  <2>3. z = F + 2 * (i - 1)
    BY <2>1, <2>2
  <2>4. \E j \in 1 .. n : o[j] = v /\ z = F + 2 * (j - 1)
    <3>1. \A j \in 1 .. I : z # 2 * j
      BY ONLY <2>3, <1>6, i \in 1 .. n, I \in Nat, L \in Nat, n \in Nat
    <3>2. \A j \in 1 .. L : z # 2 * (I + j)
      BY ONLY <2>3, <1>6, i \in 1 .. n, I \in Nat, L \in Nat, n \in Nat
    <3> QED
      BY <1>7, <1>8, <2>2, <3>1, <3>2
  <2>5. \A j \in 1 .. n : z = F + 2 * (j - 1) => i = j
    BY ONLY <2>3, <1>6, i \in 1 .. n, I \in Nat, L \in Nat, n \in Nat
  <2> QED
    BY <2>1, <2>4, <2>5
<1> QED
  BY <1>7, <1>9, <1>10, <1>11

\* The values V of a graph, by the codes of its variables.
RecodedValues(g, V, N) ==
    [u \in 0 .. N |-> \E v \in 1 .. g.maxvar : u # 0 /\ code[v] = 2 * u /\ V[v]]

\* The last code is that of variable N.
LastIs(N) == N \in Nat /\ new = 2 * (N + 1)

\* Variable v becomes variable u.
Becomes(v, u) == u \in Nat /\ u # 0 /\ code[v] = 2 * u

\* The constants are the two literals of variable 0.
LEMMA ConstantIs ==
    ASSUME NEW l \in Nat
    PROVE  IsConstant(l) <=> Var(l) = 0
<1>1. PICK v \in Nat, b \in {0, 1} : v = Var(l) /\ l = 2 * v + b
  BY LiteralParts
<1>2. l < 2 <=> v = 0
  BY ONLY <1>1, v \in Nat, b \in {0, 1}
<1> QED
  BY <1>1, <1>2 DEF IsConstant

\* The new number of a variable has its value.
LEMMA RecodedValueAt ==
    ASSUME NEW g, Sound(g), CodeInv(g, code, new), NEW V, IsValuation(g, V), NEW N,
           LastIs(N), NEW W, W = RecodedValues(g, V, N), NEW v \in 1 .. g.maxvar, NEW u, Becomes(v, u)
    PROVE  u \in 1 .. N /\ W[u] = V[v]
<1> USE DEF LastIs, Becomes, IsValuation
<1>1. g.maxvar \in Nat
  BY GraphParts DEF Sound
<1>2. code[v] < new /\ v \in 0 .. g.maxvar
  BY <1>1 DEF CodeInv
<1>3. u \in 1 .. N /\ u \in 0 .. N
  BY <1>2
<1>4. \A w \in 1 .. g.maxvar : code[w] = 2 * u => w = v
  <2> SUFFICES ASSUME NEW w \in 1 .. g.maxvar, code[w] = 2 * u PROVE v = w
    OBVIOUS
  <2>1. code[v] # 0 /\ code[v] = code[w]
    OBVIOUS
  <2> QED
    BY <2>1, CodesDiffer
<1>5. W[u] <=> V[v]
  BY <1>3, <1>4 DEF RecodedValues
<1>6. W[u] \in BOOLEAN /\ V[v] \in BOOLEAN
  BY <1>2, <1>3 DEF RecodedValues
<1> QED
  BY <1>3, <1>5, <1>6

\* A literal and its code have the same value.
LEMMA RecodedLitValue ==
    ASSUME NEW g, Sound(g), CodeInv(g, code, new), NEW V, IsValuation(g, V),
           NEW N, LastIs(N), NEW W, W = RecodedValues(g, V, N), NEW l \in Nat, IsDefined(g, l), HasCode(l)
    PROVE  LitValue(W, Code(l)) = LitValue(V, l)
<1>1. /\ Code(l) \in Nat /\ Sign(Code(l)) = Sign(l)
      /\ IsConstant(l) => Code(l) = l
      /\ ~IsConstant(l) => Var(l) \in 1 .. g.maxvar /\ 2 * Var(Code(l)) = code[Var(l)]
  BY CodeOf
<1>2. CASE IsConstant(l)
  <2>1. Var(l) = 0
    BY <1>2, ConstantIs
  <2>2. W[0] = FALSE
    BY DEF RecodedValues, LastIs
  <2> QED
    BY <1>1, <1>2, <2>1, <2>2 DEF LitValue, IsValuation
<1>3. CASE ~IsConstant(l)
  <2>1. PICK u \in Nat : u = Var(Code(l))
    BY <1>1, LiteralParts
  <2>2. Var(l) \in 1 .. g.maxvar /\ Becomes(Var(l), u)
    BY <1>1, <1>3, <2>1 DEF HasCode, Becomes
  <2>3. W[u] = V[Var(l)]
    BY ONLY <2>2, RecodedValueAt, Sound(g), CodeInv(g, code, new), IsValuation(g, V),
            LastIs(N), W = RecodedValues(g, V, N)
  <2> QED
    BY <1>1, <2>1, <2>3 DEF LitValue
<1> QED
  BY <1>2, <1>3

\* The value of a gate does not depend on the order of its operands.
LEMMA RecodedGateValue ==
    ASSUME NEW f, NEW a
    PROVE  GateValue(f, RecodedGate(a)) = (LitValue(f, Code(a.rhs0)) /\ LitValue(f, Code(a.rhs1)))
<1>1. RecodedGate(a).rhs0 = (IF Code(a.rhs0) < Code(a.rhs1) THEN Code(a.rhs1) ELSE Code(a.rhs0))
  BY DEF RecodedGate, LargerFirst
<1>2. RecodedGate(a).rhs1 = (IF Code(a.rhs0) < Code(a.rhs1) THEN Code(a.rhs0) ELSE Code(a.rhs1))
  BY DEF RecodedGate, LargerFirst
<1>3. PICK x, y, p, q : x = Code(a.rhs0) /\ y = Code(a.rhs1) /\ p = RecodedGate(a).rhs0 /\ q = RecodedGate(a).rhs1
  OBVIOUS
<1>4. (p = x /\ q = y) \/ (p = y /\ q = x)
  BY <1>1, <1>2, <1>3
<1>5. (LitValue(f, p) /\ LitValue(f, q)) = (LitValue(f, x) /\ LitValue(f, y))
  BY ONLY <1>4
<1> QED
  BY <1>3, <1>5 DEF GateValue

\* The operands of a gate with a code have a code.
LEMMA OperandsHaveCode ==
    ASSUME NEW g, Sound(g), CodeInv(g, code, new), NEW v \in 1 .. g.maxvar, IsAnd(g, v), code[v] # 0,
           NEW l, l \in {And(g, v).rhs0, And(g, v).rhs1}
    PROVE  l \in Nat /\ IsDefined(g, l) /\ HasCode(l)
<1>0. v \in Nat /\ g.maxvar \in Nat
  BY GraphParts DEF Sound
<1>1. /\ And(g, v) \in [lhs : Nat, rhs0 : Nat, rhs1 : Nat]
      /\ IsDefined(g, And(g, v).rhs0) /\ IsDefined(g, And(g, v).rhs1)
  BY <1>0, GateOf
<1>2. l \in Nat /\ IsDefined(g, l)
  BY <1>1
<1>3. IsChild(g, Var(l), v) /\ Var(l) \in 0 .. g.maxvar
  BY <1>0, ChildrenOf
<1>4. CASE Var(l) = 0
  BY <1>2, <1>4, ConstantIs DEF HasCode
<1>5. CASE Var(l) # 0
  <2>1. Var(l) \in 1 .. g.maxvar
    BY <1>0, <1>3, <1>5
  <2>2. code[Var(l)] # 0
    BY <1>3, <2>1 DEF CodeInv, OperandsCoded
  <2> QED
    BY <1>2, <2>2 DEF HasCode
<1> QED
  BY <1>2, <1>4, <1>5

\* The codes of the inputs and the latches, in their order.
LEMMA LeavesBecome ==
    ASSUME NEW g, Sound(g), CodeInv(g, code, new), NEW I \in Nat, I = Len(g.inputs)
    PROVE  /\ \A i \in 1 .. Len(g.inputs) : Var(g.inputs[i]) \in 1 .. g.maxvar /\ Becomes(Var(g.inputs[i]), i)
           /\ \A i \in 1 .. Len(g.latches) :
                Var(g.latches[i].lit) \in 1 .. g.maxvar /\ Becomes(Var(g.latches[i].lit), I + i)
<1>1. DefinedOnce(g) /\ g.maxvar \in Nat /\ Len(g.latches) \in Nat
  BY GraphParts DEF Sound
<1>2. ASSUME NEW i \in 1 .. Len(g.inputs)
      PROVE  Var(g.inputs[i]) \in 1 .. g.maxvar /\ Becomes(Var(g.inputs[i]), i)
  <2>1. PICK v \in 1 .. g.maxvar : v = Var(g.inputs[i]) /\ g.inputs[i] = 2 * v
    BY <1>1, DefinitionIs DEF DefinedOnce
  <2>2. v \in 0 .. g.maxvar /\ LeavesCoded(g, code)
    BY <1>1 DEF CodeInv
  <2>3. code[v] = 2 * i
    BY <2>1, <2>2 DEF LeavesCoded
  <2> QED
    BY <2>1, <2>3 DEF Becomes
<1>3. ASSUME NEW i \in 1 .. Len(g.latches)
      PROVE  Var(g.latches[i].lit) \in 1 .. g.maxvar /\ Becomes(Var(g.latches[i].lit), I + i)
  <2>1. PICK v \in 1 .. g.maxvar : v = Var(g.latches[i].lit) /\ g.latches[i].lit = 2 * v
    BY <1>1, DefinitionIs DEF DefinedOnce
  <2>2. v \in 0 .. g.maxvar /\ LeavesCoded(g, code)
    BY <1>1 DEF CodeInv
  <2>3. code[v] = 2 * (I + i)
    BY <2>1, <2>2 DEF LeavesCoded
  <2>4. I + i \in Nat /\ I + i # 0
    BY <1>1
  <2> QED
    BY <2>1, <2>3, <2>4 DEF Becomes
<1> QED
  BY <1>2, <1>3

\* The values of a graph evaluate what it is reencoded to.
LEMMA RecodedEvaluates ==
    ASSUME NEW g, Sound(g), CodeInv(g, code, new), NEW h, h = Recoded(g), NEW s, NEW in,
           NEW V, Evaluates(g, s, in, V), NEW W, W = RecodedValues(g, V, h.maxvar)
    PROVE  Evaluates(h, s, in, W)
<1>0. IsValuation(g, V)
  BY DEF Evaluates
<1>1. PICK N \in Nat : N = h.maxvar
  BY RecodedLeaves
<1>l. LastIs(N)
  BY <1>1, RecodedLeaves DEF LastIs
<1>2. PICK I \in Nat : I = Len(g.inputs)
  BY GraphParts DEF Sound
<1>m. g.maxvar \in Nat
  BY GraphParts DEF Sound
<1>3. W = RecodedValues(g, V, N)
  BY <1>1
<1>4. W \in [0 .. N -> BOOLEAN] /\ W[0] = FALSE
  BY ONLY <1>3, N \in Nat DEF RecodedValues
<1>v. ASSUME NEW v \in 1 .. g.maxvar, NEW u, Becomes(v, u) PROVE W[u] = V[v]
  BY ONLY <1>0, <1>3, <1>l, <1>v, RecodedValueAt, Sound(g), CodeInv(g, code, new)
<1>5. ASSUME NEW i \in 1 .. Len(h.inputs) PROVE W[Var(h.inputs[i])] = in[i]
  <2>0. Len(h.inputs) = Len(g.inputs) /\ \A k \in 1 .. Len(g.inputs) : h.inputs[k] = 2 * k
    BY RecodedLeaves
  <2>1. i \in 1 .. Len(g.inputs) /\ h.inputs[i] = 2 * i /\ i \in Nat
    BY <2>0
  <2>2. Var(g.inputs[i]) \in 1 .. g.maxvar /\ Becomes(Var(g.inputs[i]), i)
    BY <1>2, <2>1, LeavesBecome
  <2>4. W[i] = V[Var(g.inputs[i])]
    BY <1>v, <2>2
  <2>5. V[Var(g.inputs[i])] = in[i]
    BY <2>1 DEF Evaluates
  <2>6. Var(h.inputs[i]) = i
    BY <2>1, VarOfPositive
  <2> QED
    BY <2>4, <2>5, <2>6
<1>6. ASSUME NEW i \in 1 .. Len(h.latches) PROVE W[Var(h.latches[i].lit)] = s[i]
  <2>0. Len(h.latches) = Len(g.latches) /\ \A k \in 1 .. Len(g.latches) : h.latches[k].lit = 2 * (I + k)
    BY <1>2, RecodedLeaves
  <2>1. i \in 1 .. Len(g.latches) /\ h.latches[i].lit = 2 * (I + i) /\ I + i \in Nat
    BY <2>0
  <2>2. Var(g.latches[i].lit) \in 1 .. g.maxvar /\ Becomes(Var(g.latches[i].lit), I + i)
    BY <1>2, <2>1, LeavesBecome
  <2>4. W[I + i] = V[Var(g.latches[i].lit)]
    BY <1>v, <2>2
  <2>5. V[Var(g.latches[i].lit)] = s[i]
    BY <2>1 DEF Evaluates
  <2>6. Var(h.latches[i].lit) = I + i
    BY <2>1, VarOfPositive
  <2> QED
    BY <2>4, <2>5, <2>6
<1>7. ASSUME NEW i \in 1 .. Len(h.ands) PROVE W[Var(h.ands[i].lhs)] = GateValue(W, h.ands[i])
  <2>0. h.ands = RecodedAnds(g)
    BY RecodedIs
  <2>1. PICK v \in 1 .. g.maxvar :
            IsAnd(g, v) /\ code[v] # 0 /\ h.ands[i] = RecodedGate(And(g, v)) /\ h.ands[i].lhs = code[v]
    BY <2>0, RecodedGatesAre
  <2>2. PICK u \in 1 .. N : code[v] = 2 * u
    BY <1>l, <2>1, GateCodeRange DEF LastIs
  <2>u. u \in Nat /\ Becomes(v, u)
    BY <2>2 DEF Becomes
  <2>3. W[u] = V[v]
    BY <1>v, <2>u
  <2>4. Var(h.ands[i].lhs) = u
    BY <2>1, <2>2, <2>u, VarOfPositive
  <2>5. PICK a : a = And(g, v)
    OBVIOUS
  <2>6. V[v] = (LitValue(V, a.rhs0) /\ LitValue(V, a.rhs1))
    <3>1. PICK j \in DOMAIN g.ands : g.ands[j].lhs = 2 * v
      BY <2>1 DEF IsAnd
    <3>2. j \in 1 .. Len(g.ands)
      BY <3>1, GraphParts DEF Sound
    <3>3. g.ands[j] = a
      BY <1>m, <2>1, <2>5, <3>1, GateOf
    <3>4. Var(g.ands[j].lhs) = v
      BY <1>m, <3>1, VarOfPositive
    <3> QED
      BY <3>2, <3>3, <3>4 DEF Evaluates, GateValue
  <2>7. /\ a.rhs0 \in Nat /\ IsDefined(g, a.rhs0) /\ HasCode(a.rhs0)
        /\ a.rhs1 \in Nat /\ IsDefined(g, a.rhs1) /\ HasCode(a.rhs1)
    BY <2>1, <2>5, OperandsHaveCode
  <2>8. LitValue(W, Code(a.rhs0)) = LitValue(V, a.rhs0) /\ LitValue(W, Code(a.rhs1)) = LitValue(V, a.rhs1)
    BY ONLY <1>0, <1>l, <1>3, <2>7, RecodedLitValue, Sound(g), CodeInv(g, code, new)
  <2>9. GateValue(W, h.ands[i]) = (LitValue(W, Code(a.rhs0)) /\ LitValue(W, Code(a.rhs1)))
    BY <2>1, <2>5, RecodedGateValue
  <2> QED
    BY <2>3, <2>4, <2>6, <2>8, <2>9
<1> QED
  BY <1>1, <1>4, <1>5, <1>6, <1>7 DEF Evaluates, IsValuation

\* The literal of the one property is one of the literals of the properties.
LEMMA ErrorLiteralIs ==
    ASSUME NEW g \in Graphs, IsSupported(g)
    PROVE  ErrorLiteral(g) \in Nat /\ ErrorLiteral(g) \in Elements(Properties(g))
<1>1. g.outputs \in Seq(Nat) /\ g.bad \in Seq(Nat)
  BY GraphParts
<1>2. PICK p, q : p = g.outputs /\ q = g.bad
  OBVIOUS
<1>3. Len(p) \in Nat /\ Len(q) \in Nat /\ Len(p) + Len(q) = 1
  BY <1>1, <1>2, LengthOf DEF IsSupported
<1>4. CASE Len(p) > 0
  <2>1. 1 \in 1 .. Len(p)
    BY <1>3, <1>4
  <2>2. p[1] \in Nat /\ p[1] \in Elements(p)
    BY <1>1, <1>2, <2>1, ElementOfSequence DEF Elements
  <2> QED
    BY <1>2, <1>4, <2>2, PropertyElements DEF ErrorLiteral
<1>5. CASE ~(Len(p) > 0)
  <2>1. 1 \in 1 .. Len(q)
    BY <1>3, <1>5
  <2>2. q[1] \in Nat /\ q[1] \in Elements(q)
    BY <1>1, <1>2, <2>1, ElementOfSequence DEF Elements
  <2> QED
    BY <1>2, <1>5, <2>2, PropertyElements DEF ErrorLiteral
<1> QED
  BY <1>4, <1>5

\* The literal of the property is recoded as the others are.
LEMMA RecodedErrorLiteral ==
    ASSUME NEW g, Sound(g), CodeInv(g, code, new), IsSupported(g), NEW h, h = Recoded(g)
    PROVE  ErrorLiteral(h) = Code(ErrorLiteral(g))
<1>1. g.outputs \in Seq(Nat) /\ g.bad \in Seq(Nat) /\ g \in Graphs
  BY GraphParts DEF Sound
<1>2. h.outputs = Recode(g.outputs) /\ h.bad = Recode(g.bad)
  BY RecodedIs
<1>3. PICK p, q : p = g.outputs /\ q = g.bad
  OBVIOUS
<1>4. Len(p) \in Nat /\ Len(q) \in Nat /\ Len(p) + Len(q) = 1 /\ DOMAIN p = 1 .. Len(p) /\ DOMAIN q = 1 .. Len(q)
  BY <1>1, <1>3, LengthOf DEF IsSupported
<1>5. \A l \in Elements(p) \cup Elements(q) : IsDefined(g, l)
  BY <1>3, UsesDefined
<1>6. Len(Recode(p)) = Len(p)
  BY <1>1, <1>3, <1>5, RecodeType
<1>7. CASE Len(p) > 0
  <2>1. 1 \in DOMAIN p
    BY <1>4, <1>7
  <2>2. Recode(p)[1] = Code(p[1])
    BY <2>1 DEF Recode
  <2> QED
    BY <1>2, <1>3, <1>6, <1>7, <2>2 DEF ErrorLiteral
<1>8. CASE ~(Len(p) > 0)
  <2>1. 1 \in DOMAIN q
    BY <1>4, <1>8
  <2>2. Recode(q)[1] = Code(q[1])
    BY <2>1 DEF Recode
  <2> QED
    BY <1>2, <1>3, <1>6, <1>8, <2>2 DEF ErrorLiteral
<1> QED
  BY <1>7, <1>8

\* A literal that is a next state or the property has the same value in both
\* graphs, by the valuations V and W of them.
SameValues(g, h, V, W) ==
    /\ \A i \in 1 .. Len(g.latches) : LitValue(W, h.latches[i].next) = LitValue(V, g.latches[i].next)
    /\ LitValue(W, ErrorLiteral(h)) = LitValue(V, ErrorLiteral(g))

\* Reencoding changes neither the next values of the latches nor the property.
LEMMA RecodedSameValues ==
    ASSUME NEW g, Sound(g), HasResets(g), CodeInv(g, code, new), RootsCoded(g), IsSupported(g),
           NEW h, h = Recoded(g), NEW V, IsValuation(g, V), NEW W, W = RecodedValues(g, V, h.maxvar)
    PROVE  SameValues(g, h, V, W)
<1>1. PICK N : N = h.maxvar /\ LastIs(N)
  BY RecodedLeaves DEF LastIs
<1>2. W = RecodedValues(g, V, N)
  BY <1>1
<1>g. g \in Graphs
  BY DEF Sound
<1>3. ASSUME NEW l \in Nat, IsDefined(g, l), HasCode(l) PROVE LitValue(W, Code(l)) = LitValue(V, l)
  BY ONLY <1>1, <1>2, <1>3, RecodedLitValue, Sound(g), CodeInv(g, code, new), IsValuation(g, V)
<1>4. ASSUME NEW i \in 1 .. Len(g.latches)
      PROVE  LitValue(W, h.latches[i].next) = LitValue(V, g.latches[i].next)
  <2>1. g.latches[i].next \in Nat /\ IsDefined(g, g.latches[i].next)
    BY <1>g, GraphElements, UsesDefined
  <2>2. HasCode(g.latches[i].next)
    BY <1>g, RootsAre DEF RootsCoded
  <2>3. h.latches[i].next = Code(g.latches[i].next)
    BY RecodedLatches
  <2> QED
    BY <1>3, <2>1, <2>2, <2>3
<1>5. LitValue(W, ErrorLiteral(h)) = LitValue(V, ErrorLiteral(g))
  <2>1. ErrorLiteral(g) \in Nat /\ ErrorLiteral(g) \in Elements(Properties(g))
    BY <1>g, ErrorLiteralIs
  <2>2. IsDefined(g, ErrorLiteral(g))
    BY <2>1, UsesDefined
  <2>3. HasCode(ErrorLiteral(g))
    BY <1>g, <2>1, RootsAre DEF RootsCoded
  <2> QED
    BY <1>3, <2>1, <2>2, <2>3, RecodedErrorLiteral
<1> QED
  BY <1>4, <1>5 DEF SameValues

\* What the codes of literals depend on has its number from what the literals depend
\* on.
LEMMA RecodedCone ==
    ASSUME NEW g, Sound(g), CodeInv(g, code, new), NEW h, h = Recoded(g), NEW roots, NEW ls,
           \A l \in ls : \E k \in roots : k \in Nat /\ IsDefined(g, k) /\ HasCode(k) /\ l = Code(k),
           NEW v \in 1 .. g.maxvar, NEW u, Becomes(v, u), u \in Cone(h, ls)
    PROVE  v \in Cone(g, roots)
<1> SUFFICES ASSUME NEW vs \in SUBSET (0 .. g.maxvar), IsCone(g, roots, vs) PROVE v \in vs
  <2>1. v \in 0 .. g.maxvar
    BY GraphParts DEF Sound
  <2> QED
    BY <2>1 DEF Cone
<1>1. h.maxvar \in Nat /\ new = 2 * (h.maxvar + 1) /\ g.maxvar \in Nat /\ h.ands = RecodedAnds(g)
  BY RecodedLeaves, RecodedIs, GraphParts DEF Sound
<1> DEFINE Numbered(w) == \E x \in vs : x \in 1 .. g.maxvar /\ Becomes(x, w)
           us == {w \in 0 .. h.maxvar : w = 0 \/ Numbered(w)}
<1>2. ASSUME NEW x \in 1 .. g.maxvar, NEW w, Becomes(x, w) PROVE w \in 0 .. h.maxvar
  <2>1. code[x] < new
    BY <1>1 DEF CodeInv
  <2> QED
    BY <1>1, <1>2, <2>1 DEF Becomes
<1>3. ASSUME NEW l \in Nat, IsDefined(g, l), HasCode(l), Var(l) \in vs PROVE Var(Code(l)) \in us
  <2>1. /\ Code(l) \in Nat
        /\ IsConstant(l) => Code(l) = l
        /\ ~IsConstant(l) => Var(l) \in 1 .. g.maxvar /\ 2 * Var(Code(l)) = code[Var(l)]
    BY <1>3, CodeOf
  <2>2. CASE IsConstant(l)
    <3>1. Var(Code(l)) = 0
      BY <2>1, <2>2, ConstantIs
    <3> QED
      BY <1>1, <3>1
  <2>3. CASE ~IsConstant(l)
    <3>1. PICK w \in Nat : w = Var(Code(l))
      BY <2>1, LiteralParts
    <3>2. Becomes(Var(l), w)
      BY <1>3, <2>1, <2>3, <3>1 DEF HasCode, Becomes
    <3>3. w \in 0 .. h.maxvar
      BY <1>2, <2>1, <2>3, <3>2
    <3> QED
      BY <1>3, <2>1, <2>3, <3>1, <3>2, <3>3
  <2> QED
    BY <2>2, <2>3
<1>4. ASSUME NEW x \in vs, x \in 1 .. g.maxvar, NEW y \in 1 .. g.maxvar, NEW w, Becomes(x, w), Becomes(y, w)
      PROVE  y \in vs
  <2>1. code[x] # 0 /\ code[x] = code[y]
    BY <1>4 DEF Becomes
  <2>2. x = y
    BY <1>4, <2>1, CodesDiffer
  <2> QED
    BY <1>4, <2>2
<1>5. ASSUME NEW l \in ls PROVE Var(l) \in us
  <2>1. PICK k \in roots : k \in Nat /\ IsDefined(g, k) /\ HasCode(k) /\ l = Code(k)
    OBVIOUS
  <2>2. Var(k) \in vs
    BY <2>1 DEF IsCone
  <2> QED
    BY <1>3, <2>1, <2>2
<1>6. ASSUME NEW i \in DOMAIN h.ands, Var(h.ands[i].lhs) \in us
      PROVE  Var(h.ands[i].rhs0) \in us /\ Var(h.ands[i].rhs1) \in us
  <2>0. i \in 1 .. Len(h.ands)
    BY <1>1, RecodedGatesAre
  <2>1. PICK x \in 1 .. g.maxvar :
            IsAnd(g, x) /\ code[x] # 0 /\ h.ands[i] = RecodedGate(And(g, x)) /\ h.ands[i].lhs = code[x]
    <3>1. PICK gs : gs = h.ands
      OBVIOUS
    <3>2. gs = RecodedAnds(g) /\ i \in 1 .. Len(gs)
      BY <1>1, <2>0, <3>1
    <3>3. \E x \in 1 .. g.maxvar :
              IsAnd(g, x) /\ code[x] # 0 /\ gs[i] = RecodedGate(And(g, x)) /\ gs[i].lhs = code[x]
      BY ONLY RecodedGatesAre, Sound(g), CodeInv(g, code, new), <3>2
    <3> QED
      BY ONLY <3>1, <3>3
  <2>2. PICK w \in 1 .. h.maxvar : code[x] = 2 * w
    BY <1>1, <2>1, GateCodeRange
  <2>3. w \in Nat /\ w # 0 /\ Becomes(x, w) /\ Var(h.ands[i].lhs) = w
    BY <2>1, <2>2, VarOfPositive DEF Becomes
  <2>4. Numbered(w)
    BY <1>6, <2>3
  <2>5. x \in vs
    BY <1>4, <2>3, <2>4
  <2>6. PICK k \in DOMAIN g.ands : g.ands[k].lhs = 2 * x
    BY <2>1 DEF IsAnd
  <2>7. PICK a : a = And(g, x)
    OBVIOUS
  <2>8. g.ands[k] = a /\ Var(g.ands[k].lhs) = x
    BY <1>1, <2>1, <2>6, <2>7, GateOf, VarOfPositive
  <2>9. Var(a.rhs0) \in vs /\ Var(a.rhs1) \in vs
    BY <2>5, <2>8 DEF IsCone
  <2>10. /\ a.rhs0 \in Nat /\ IsDefined(g, a.rhs0) /\ HasCode(a.rhs0)
         /\ a.rhs1 \in Nat /\ IsDefined(g, a.rhs1) /\ HasCode(a.rhs1)
    BY <2>1, <2>7, OperandsHaveCode
  <2>11. Var(Code(a.rhs0)) \in us /\ Var(Code(a.rhs1)) \in us
    BY <1>3, <2>9, <2>10
  <2>12. /\ h.ands[i].rhs0 = (IF Code(a.rhs0) < Code(a.rhs1) THEN Code(a.rhs1) ELSE Code(a.rhs0))
         /\ h.ands[i].rhs1 = (IF Code(a.rhs0) < Code(a.rhs1) THEN Code(a.rhs0) ELSE Code(a.rhs1))
    BY <2>1, <2>7 DEF RecodedGate, LargerFirst
  <2> HIDE DEF us
  <2> QED
    BY <2>11, <2>12
<1>7. IsCone(h, ls, us)
  <2> HIDE DEF us
  <2> QED
    BY <1>5, <1>6 DEF IsCone
<1>8. u \in us
  <2>1. us \in SUBSET (0 .. h.maxvar)
    OBVIOUS
  <2> HIDE DEF us
  <2> QED
    BY <1>7, <2>1 DEF Cone
<1>9. Numbered(u)
  BY <1>8 DEF Becomes
<1> QED
  BY <1>4, <1>9

-----------------------------------------------------------------------------
(* The graph that is translated: its gates depend on gates before them.    *)

OperandsBelow(gs) ==
    \A j \in 1 .. Len(gs) : Var(gs[j].rhs0) < Var(gs[j].lhs) /\ Var(gs[j].rhs1) < Var(gs[j].lhs)

\* An even literal is twice its variable.
LEMMA EvenLiteral ==
    ASSUME NEW l \in Nat, l % 2 = 0
    PROVE  Var(l) \in Nat /\ l = 2 * Var(l)
<1>1. Var(l) \in Nat /\ l = 2 * Var(l) + Sign(l)
  BY LiteralParts
<1>2. Sign(l) = 0
  BY DEF Sign
<1> QED
  BY <1>1, <1>2

\* When the file is in the order of a reencoded graph, its gates are above their
\* operands.
LEMMA OrderedOperandsBelow ==
    ASSUME NEW g, Sound(g), NEW rank \in [DOMAIN g.ands -> DOMAIN g.ands], IsGateOrder(g, rank),
           OrderedGates(g.ands)
    PROVE  OperandsBelow(g.ands)
<1>1. DOMAIN g.ands = 1 .. Len(g.ands) /\ g \in Graphs
  BY GraphParts DEF Sound
<1>2. ASSUME NEW j \in 1 .. Len(g.ands), NEW l, l \in {g.ands[j].rhs0, g.ands[j].rhs1}
      PROVE  Var(l) < Var(g.ands[j].lhs)
  <2>1. l \in Nat /\ g.ands[j].lhs \in Nat
    BY <1>1, <1>2, GraphElements
  <2>2. l <= g.ands[j].lhs + 1 /\ g.ands[j].lhs % 2 = 0
    BY <1>2 DEF OrderedGates
  <2>3. PICK v \in Nat, b \in {0, 1}, w \in Nat, k \in Nat :
            v = Var(l) /\ l = 2 * v + b /\ k = g.ands[j].lhs /\ w = Var(k) /\ k = 2 * w
    <3>1. Var(l) \in Nat /\ Sign(l) \in {0, 1} /\ l = 2 * Var(l) + Sign(l)
      BY <2>1, LiteralParts
    <3>2. PICK k \in Nat : k = g.ands[j].lhs
      BY <2>1
    <3>3. Var(k) \in Nat /\ k = 2 * Var(k)
      BY <2>2, <3>2, EvenLiteral
    <3> QED
      BY <3>1, <3>2, <3>3
  <2>4. v <= w
    <3>1. 2 * v + b <= 2 * w + 1
      BY <2>2, <2>3
    <3> QED
      BY ONLY <3>1, v \in Nat, w \in Nat, b \in {0, 1}
  <2>5. v # w
    <3> SUFFICES ASSUME v = w PROVE FALSE
      OBVIOUS
    <3>1. Strip(g.ands[j].lhs) = Strip(l)
      BY <2>1, <2>3, StripIs
    <3>2. rank[j] < rank[j]
      BY <1>1, <1>2, <3>1 DEF IsGateOrder
    <3>3. rank[j] \in Nat
      BY <1>1
    <3> QED
      BY <3>2, <3>3
  <2> QED
    BY <2>3, <2>4, <2>5
<1> QED
  BY <1>2 DEF OperandsBelow

\* Reencoding numbers each gate after its operands.
LEMMA RecodedOperandsBelow ==
    ASSUME NEW g, Sound(g), CodeInv(g, code, new), NEW gs, gs = RecodedAnds(g)
    PROVE  OperandsBelow(gs)
<1>m. g.maxvar \in Nat
  BY GraphParts DEF Sound
<1>1. ASSUME NEW j \in 1 .. Len(gs) PROVE Var(gs[j].rhs0) < Var(gs[j].lhs) /\ Var(gs[j].rhs1) < Var(gs[j].lhs)
  <2>1. PICK v \in 1 .. g.maxvar :
            IsAnd(g, v) /\ code[v] # 0 /\ gs[j] = RecodedGate(And(g, v)) /\ gs[j].lhs = code[v]
    BY ONLY RecodedGatesAre, Sound(g), CodeInv(g, code, new), gs = RecodedAnds(g), j \in 1 .. Len(gs)
  <2>2. code[v] \in Nat /\ code[v] % 2 = 0
    BY <1>m DEF CodeInv
  <2>3. PICK u \in Nat : code[v] = 2 * u /\ u # 0 /\ Var(gs[j].lhs) = u
    <3>1. PICK k \in Nat : k = code[v]
      BY <2>2
    <3>2. Var(k) \in Nat /\ k = 2 * Var(k)
      BY <2>2, <3>1, EvenLiteral
    <3>3. Var(k) # 0
      BY <2>1, <3>1, <3>2
    <3> QED
      BY <2>1, <3>1, <3>2, <3>3
  <2>4. ASSUME NEW l, l \in {And(g, v).rhs0, And(g, v).rhs1} PROVE Var(Code(l)) < u
    <3>1. l \in Nat /\ IsDefined(g, l) /\ HasCode(l)
      BY <2>1, <2>4, OperandsHaveCode
    <3>2. CASE IsConstant(l)
      <4>1. Code(l) = l /\ Var(l) = 0
        BY <3>1, <3>2, ConstantIs, CodeOf
      <4> QED
        BY <2>3, <4>1
    <3>3. CASE ~IsConstant(l)
      <4>1. Var(l) \in 1 .. g.maxvar /\ 2 * Var(Code(l)) = code[Var(l)] /\ Code(l) \in Nat
        BY <3>1, <3>3, CodeOf
      <4>2. IsChild(g, Var(l), v)
        BY <1>m, <2>1, <2>4, ChildrenOf
      <4>3. code[Var(l)] < code[v]
        BY <2>1, <4>1, <4>2 DEF CodeInv, OperandsCoded
      <4>4. PICK w \in Nat : w = Var(Code(l))
        BY <4>1, LiteralParts
      <4>5. 2 * w < 2 * u
        BY <2>3, <4>1, <4>3, <4>4
      <4>6. w < u
        BY ONLY <4>5, w \in Nat, u \in Nat
      <4> QED
        BY <4>4, <4>6
    <3> QED
      BY <3>2, <3>3
  <2>5. PICK a : a = And(g, v)
    OBVIOUS
  <2>6. /\ gs[j].rhs0 = (IF Code(a.rhs0) < Code(a.rhs1) THEN Code(a.rhs1) ELSE Code(a.rhs0))
        /\ gs[j].rhs1 = (IF Code(a.rhs0) < Code(a.rhs1) THEN Code(a.rhs0) ELSE Code(a.rhs1))
    BY <2>1, <2>5 DEF RecodedGate, LargerFirst
  <2>7. Var(Code(a.rhs0)) < u /\ Var(Code(a.rhs1)) < u
    BY <2>4, <2>5
  <2> QED
    BY <2>3, <2>6, <2>7
<1> QED
  BY <1>1 DEF OperandsBelow

\* What is known of the graph in the file when the formulas are built.
LEMMA BuiltFile ==
    ASSUME AigerInv, GraphInv, StageInv, Building
    PROVE  /\ Sound(file) /\ HasResets(file) /\ WellFormed(file) /\ IsSupported(file)
           /\ \E rank \in [DOMAIN file.ands -> DOMAIN file.ands] : IsGateOrder(file, rank)
<1>1. Sound(file) /\ HasResets(file) /\ file \in Graphs
  BY DEF AigerInv, GraphInv, Sound
<1>2. /\ pc \notin {"help", "parse", "open", "read", "cycles", "exit"}
      /\ pc \notin {"help", "parse", "open", "read", "cycles", "context", "exit"}
  BY DEF Building
<1>3. PastEngine /\ HasOneProperty(file)
  BY <1>2 DEF StageInv
<1>4. WellFormed(file)
  BY <1>3 DEF PastEngine, PastInput
<1>5. IsSupported(file)
  BY <1>1, <1>3, SupportedIs
<1>6. \E rank \in [DOMAIN file.ands -> DOMAIN file.ands] : IsGateOrder(file, rank)
  BY <1>4, WellFormedIs
<1> QED
  BY <1>1, <1>4, <1>5, <1>6

\* What is known of the graph the formulas are built of.
LEMMA BuiltGates ==
    ASSUME AigerInv, GraphInv, StageInv, Building
    PROVE  Sound(aig) /\ OrderedGates(aig.ands) /\ OperandsBelow(aig.ands)
<1>1. Sound(aig) /\ OrderedGates(aig.ands)
  BY BuiltGraph DEF GraphInv
<1>2. CASE aig = file
  BY <1>1, <1>2, BuiltFile, OrderedOperandsBelow
<1>3. CASE IsRecoded(file)
  <2>1. aig = Recoded(file) /\ CodeInv(file, code, new) /\ Sound(file)
    BY <1>3, BuiltFile DEF IsRecoded
  <2>2. aig.ands = RecodedAnds(file)
    BY <2>1, RecodedIs
  <2> QED
    BY <1>1, <2>1, <2>2, RecodedOperandsBelow
<1> QED
  BY <1>2, <1>3 DEF GraphInv

-----------------------------------------------------------------------------
(* The passes of clausify_subgraph.                                        *)

\* The clauses of the gates in R.
ClausesOf(g, R) == UNION {ClausifyAnd(g, g.ands[j]) : j \in R}

\* The gate of literal l, if it has one, is in R.
GateIn(g, R, l) == \A k \in 1 .. Len(g.ands) : Var(g.ands[k].lhs) = Var(l) => k \in R

\* The formula f has the clauses of the gates in R, which are those that the
\* roots depend on.
Covers(g, R, f, roots) ==
    /\ R \in SUBSET (1 .. Len(g.ands))
    /\ f = ClausesOf(g, R)
    /\ \A j \in R : GateIn(g, R, g.ands[j].rhs0) /\ GateIn(g, R, g.ands[j].rhs1)
    /\ \A l \in roots : GateIn(g, R, l)
    /\ \A j \in R : Var(g.ands[j].lhs) \in Cone(g, roots)

Encodes(g, f, roots) == \E R : Covers(g, R, f, roots)

\* The gates that are required.
Required == {j \in 1 .. Len(aig.ands) : IsRequired(aig.ands[j])}

\* During a pass: the operands of a gate that was visited and is required are
\* required, and nothing that the roots do not depend on is.
PassInv(f, roots) ==
    /\ f \subseteq ClausesOf(aig, Required)
    /\ roots \subseteq required
    /\ required \subseteq Nat
    /\ \A l \in required : Var(l) \in Cone(aig, roots)
    /\ \A j \in 1 .. Len(aig.ands) : gate < j /\ IsRequired(aig.ands[j]) =>
            aig.ands[j].rhs0 \in required /\ aig.ands[j].rhs1 \in required

\* A cone has the variables of its roots.
LEMMA RootsInCone ==
    ASSUME NEW g, Sound(g), NEW roots, NEW l \in roots, l \in Nat, IsDefined(g, l)
    PROVE  Var(l) \in Cone(g, roots)
<1>1. Var(l) \in 0 .. g.maxvar
  BY DefinedInRange
<1> QED
  BY <1>1 DEF Cone, IsCone

\* A cone has the operands of its gates.
LEMMA ConeGrows ==
    ASSUME NEW g, Sound(g), NEW roots, NEW j \in 1 .. Len(g.ands), Var(g.ands[j].lhs) \in Cone(g, roots)
    PROVE  Var(g.ands[j].rhs0) \in Cone(g, roots) /\ Var(g.ands[j].rhs1) \in Cone(g, roots)
<1>1. DOMAIN g.ands = 1 .. Len(g.ands) /\ g.ands[j].rhs0 \in Nat /\ g.ands[j].rhs1 \in Nat
  BY GraphParts, GraphElements DEF Sound
<1>2. IsDefined(g, g.ands[j].rhs0) /\ IsDefined(g, g.ands[j].rhs1)
  BY <1>1 DEF Sound, AllDefined
<1>3. Var(g.ands[j].rhs0) \in 0 .. g.maxvar /\ Var(g.ands[j].rhs1) \in 0 .. g.maxvar
  BY <1>1, <1>2, DefinedInRange
<1>4. ASSUME NEW vs \in SUBSET (0 .. g.maxvar), IsCone(g, roots, vs)
      PROVE  Var(g.ands[j].rhs0) \in vs /\ Var(g.ands[j].rhs1) \in vs
  <2>1. Var(g.ands[j].lhs) \in vs
    BY <1>4 DEF Cone
  <2> QED
    BY <1>1, <1>4, <2>1 DEF IsCone
<1> QED
  BY <1>3, <1>4 DEF Cone

\* A literal of the variable of a gate is its output or the negation of it.
LEMMA LiteralOfGate ==
    ASSUME NEW g, Sound(g), NEW k \in 1 .. Len(g.ands), NEW l \in Nat
    PROVE  Var(g.ands[k].lhs) = Var(l) <=> l = g.ands[k].lhs \/ l = Not(g.ands[k].lhs)
<1>1. g.maxvar \in Nat /\ IsDefinition(g, g.ands[k].lhs)
  BY GraphParts DEF Sound, DefinedOnce
<1>2. PICK n \in Nat, v \in Nat : n = g.ands[k].lhs /\ v = Var(n) /\ n = 2 * v /\ Sign(n) = 0
  BY <1>1, DefinitionIs
<1>3. Not(n) = n + 1
  BY <1>2 DEF Not
<1>4. PICK w \in Nat, b \in {0, 1} : w = Var(l) /\ l = 2 * w + b
  BY LiteralParts
<1>5. v = w <=> l = n \/ l = n + 1
  BY ONLY <1>2, <1>4, n \in Nat, v \in Nat, w \in Nat, b \in {0, 1}
<1> QED
  BY <1>2, <1>3, <1>4, <1>5

\* A pass that has visited all gates has the clauses of all gates its roots depend
\* on.
LEMMA PassEnds ==
    ASSUME NEW f, NEW roots, PassInv(f, roots), gate = 0, Sound(aig),
           \A j \in 1 .. Len(aig.ands) : IsRequired(aig.ands[j]) => ClausifyAnd(aig, aig.ands[j]) \subseteq f
    PROVE  Encodes(aig, f, roots)
<1> DEFINE R == Required
<1> USE DEF Required
<1>1. ASSUME NEW l \in required PROVE GateIn(aig, R, l)
  <2> SUFFICES ASSUME NEW k \in 1 .. Len(aig.ands), Var(aig.ands[k].lhs) = Var(l) PROVE IsRequired(aig.ands[k])
    BY DEF GateIn
  <2>1. l \in Nat
    BY DEF PassInv
  <2>2. l = aig.ands[k].lhs \/ l = Not(aig.ands[k].lhs)
    BY <2>1, LiteralOfGate
  <2> QED
    BY <2>2 DEF IsRequired
<1>2. ASSUME NEW j \in R PROVE GateIn(aig, R, aig.ands[j].rhs0) /\ GateIn(aig, R, aig.ands[j].rhs1)
  <2>1. aig.ands[j].rhs0 \in required /\ aig.ands[j].rhs1 \in required
    BY DEF PassInv
  <2> QED
    BY <1>1, <2>1
<1>3. ASSUME NEW j \in R PROVE Var(aig.ands[j].lhs) \in Cone(aig, roots)
  <2>1. PICK l \in required : l = aig.ands[j].lhs \/ l = Not(aig.ands[j].lhs)
    BY DEF IsRequired
  <2>2. l \in Nat /\ Var(l) \in Cone(aig, roots)
    BY DEF PassInv
  <2>3. Var(aig.ands[j].lhs) = Var(l)
    BY <2>1, <2>2, LiteralOfGate
  <2> QED
    BY <2>2, <2>3
<1>4. f = ClausesOf(aig, R)
  <2>1. ClausesOf(aig, R) \subseteq f
    BY DEF ClausesOf
  <2> QED
    BY <2>1 DEF PassInv
<1>5. Covers(aig, R, f, roots)
  BY <1>1, <1>2, <1>3, <1>4 DEF Covers, PassInv
<1> QED
  BY <1>5 DEF Encodes

\* A pass visits a gate after all gates that depend on it.
LEMMA PassContinues ==
    ASSUME NEW f, NEW roots, PassInv(f, roots), Sound(aig), OrderedGates(aig.ands), OperandsBelow(aig.ands),
           gate \in 1 .. Len(aig.ands), gate' = gate - 1, aig' = aig, NEW a, a = aig.ands[gate],
           required' = IF IsRequired(a) THEN required \cup {a.rhs0, a.rhs1} ELSE required,
           NEW h, h = f \cup (IF IsRequired(a) THEN ClausifyAnd(aig, a) ELSE {})
    PROVE  PassInv(h, roots)'
<1>0. Len(aig.ands) \in Nat
  BY GraphParts DEF Sound
<1>1. h \subseteq ClausesOf(aig', Required')
  <2>1. ASSUME NEW j \in Required PROVE j \in Required'
    BY DEF Required, IsRequired
  <2>2. IsRequired(a) => gate \in Required'
    BY DEF Required, IsRequired
  <2>3. ClausesOf(aig, Required) \subseteq ClausesOf(aig', Required')
    BY <2>1 DEF ClausesOf
  <2>4. IsRequired(a) => ClausifyAnd(aig, a) \subseteq ClausesOf(aig', Required')
    BY <2>2 DEF ClausesOf
  <2> QED
    BY <2>3, <2>4 DEF PassInv
<1>2. roots \subseteq required'
  BY DEF PassInv
<1>n. a.rhs0 \in Nat /\ a.rhs1 \in Nat
  BY GraphElements DEF Sound
<1>3. required' \subseteq Nat
  BY <1>n DEF PassInv
<1>c. ASSUME NEW l \in required' PROVE Var(l) \in Cone(aig, roots)
  <2>1. CASE l \in required
    BY <2>1 DEF PassInv
  <2>2. CASE IsRequired(a) /\ l \in {a.rhs0, a.rhs1}
    <3>1. PICK o \in required : o = a.lhs \/ o = Not(a.lhs)
      BY <2>2 DEF IsRequired
    <3>2. o \in Nat /\ Var(o) \in Cone(aig, roots)
      BY DEF PassInv
    <3>3. Var(aig.ands[gate].lhs) = Var(o)
      BY <3>1, <3>2, LiteralOfGate
    <3>4. Var(aig.ands[gate].rhs0) \in Cone(aig, roots) /\ Var(aig.ands[gate].rhs1) \in Cone(aig, roots)
      BY <3>2, <3>3, ConeGrows
    <3> QED
      BY <2>2, <3>4
  <2> QED
    BY <1>c, <2>1, <2>2
<1>4. ASSUME NEW j \in 1 .. Len(aig.ands), gate - 1 < j, IsRequired(aig.ands[j])'
      PROVE  aig.ands[j].rhs0 \in required' /\ aig.ands[j].rhs1 \in required'
  <2>1. aig.ands[j].lhs \in required' \/ Not(aig.ands[j].lhs) \in required'
    BY <1>4 DEF IsRequired
  <2>2. CASE ~IsRequired(a)
    <3>1. IsRequired(aig.ands[j]) /\ required' = required
      BY <2>1, <2>2 DEF IsRequired
    <3>2. gate < j
      BY <1>0, <1>4, <2>2, <3>1
    <3> QED
      BY <3>1, <3>2 DEF PassInv
  <2>3. CASE IsRequired(a) /\ j = gate
    BY <2>3
  <2>4. CASE IsRequired(a) /\ j # gate
    <3>0. gate < j
      BY <1>0, <1>4, <2>4
    <3>1. ASSUME NEW l, l \in {a.rhs0, a.rhs1} PROVE l # aig.ands[j].lhs /\ l # Not(aig.ands[j].lhs)
      <4>1. l \in Nat
        BY <1>n, <3>1
      <4>2. Var(l) < Var(a.lhs)
        BY <3>1 DEF OperandsBelow
      <4>3. a.lhs < aig.ands[j].lhs /\ a.lhs \in Nat /\ aig.ands[j].lhs \in Nat
        BY <3>0, GraphElements DEF OrderedGates, Sound
      <4>4. PICK m \in Nat, n \in Nat, v \in Nat, w \in Nat :
                m = a.lhs /\ n = aig.ands[j].lhs /\ v = Var(m) /\ w = Var(n) /\ m = 2 * v /\ n = 2 * w
        <5>1. a.lhs % 2 = 0 /\ aig.ands[j].lhs % 2 = 0
          BY DEF OrderedGates
        <5> QED
          BY <4>3, <5>1, EvenLiteral
      <4>5. v < w
        BY ONLY <4>3, <4>4, m \in Nat, n \in Nat, v \in Nat, w \in Nat
      <4>6. Var(l) # Var(aig.ands[j].lhs)
        <5>1. Var(l) \in Nat
          BY <4>1, LiteralParts
        <5> QED
          BY <4>2, <4>4, <4>5, <5>1
      <4> QED
        BY <4>1, <4>6, LiteralOfGate
    <3>2. IsRequired(aig.ands[j])
      BY <2>1, <2>4, <3>1 DEF IsRequired
    <3> QED
      BY <2>4, <3>0, <3>2 DEF PassInv
  <2> QED
    BY <2>2, <2>3, <2>4
<1>5. \A j \in 1 .. Len(aig'.ands) : gate' < j /\ IsRequired(aig.ands[j])' =>
            aig'.ands[j].rhs0 \in required' /\ aig'.ands[j].rhs1 \in required'
  BY <1>4
<1> QED
  BY <1>1, <1>2, <1>3, <1>c, <1>5 DEF PassInv

TransInv ==
    \E f : /\ Encodes(aig, f, NextLiterals(aig))
           /\ trans = f \cup UNION {LatchClauses(aig, i) : i \in DOMAIN aig.latches}

ErrorInv ==
    IF IsConstant(ErrorLiteral(aig)) THEN error = IF ErrorLiteral(aig) = 1 THEN {} ELSE {{}}
    ELSE \E f : /\ Encodes(aig, f, {ErrorLiteral(aig)})
                /\ error = f \cup {{FromAigerLit(aig, ErrorLiteral(aig))}}

\* The formulas, as far as they have been built.
FormulaInv ==
    /\ pc \in {"help", "parse", "open", "read", "cycles", "context", "reencode", "init"} =>
            trans = {} /\ error = {}
    /\ pc = "trans" => PassInv(trans, NextLiterals(aig)) /\ error = {}
    /\ pc = "error" => PassInv(error, {ErrorLiteral(aig)}) /\ ~IsConstant(ErrorLiteral(aig))
    /\ pc \in {"error", "built", "witness"} => TransInv
    /\ pc \in {"built", "witness"} => ErrorInv
    /\ pc \in {"trans", "error", "built", "witness"} => init = ResetClauses(aig)

\* Nothing is built at first.
LEMMA InitFormulaInv == Init => FormulaInv
BY DEF Init, BuilderInit, FormulaInv

\* Nothing is built before build_init.
LEMMA EarlyFormulas ==
    ASSUME FormulaInv, UNCHANGED formulas,
           pc \in {"help", "parse", "open", "read", "cycles", "context", "reencode", "init"},
           pc' \in {"help", "parse", "open", "read", "cycles", "context", "reencode", "init", "exit"}
    PROVE  FormulaInv'
BY DEF FormulaInv, formulas

\* Nothing is built after build_error.
LEMMA LateFormulas ==
    ASSUME FormulaInv, UNCHANGED <<aig, formulas>>,
           (pc \in {"built", "witness"} /\ pc' \in {"built", "witness"}) \/ pc' = "exit"
    PROVE  FormulaInv'
<1>1. CASE pc \in {"built", "witness"} /\ pc' \in {"built", "witness"}
  <2>1. TransInv /\ ErrorInv /\ init = ResetClauses(aig)
    BY <1>1 DEF FormulaInv
  <2>2. TransInv'
    BY <2>1 DEF TransInv, formulas
  <2>3. ErrorInv'
    BY <2>1 DEF ErrorInv, formulas
  <2> QED
    BY <1>1, <2>1, <2>2, <2>3 DEF FormulaInv, formulas
<1>2. CASE pc' = "exit"
  BY <1>2 DEF FormulaInv
<1> QED
  BY <1>1, <1>2

\* The roots of the pass of build_trans are literals.
LEMMA LiteralsAreNatural ==
    ASSUME NEW g, Sound(g), NEW l, l \in NextLiterals(g)
    PROVE  l \in Nat
<1>1. PICK i \in DOMAIN g.latches : l = g.latches[i].next
  BY DEF NextLiterals
<1>2. i \in 1 .. Len(g.latches)
  BY GraphParts DEF Sound
<1> QED
  BY <1>1, <1>2, GraphElements DEF Sound

\* build_init, and the start of the pass of build_trans.
LEMMA BuildInitFormulas ==
    ASSUME FormulaInv, Sound(aig), BuildInit
    PROVE  FormulaInv'
<1>1. pc = "init" /\ pc' = "trans" /\ trans' = {} /\ error' = {} /\ init' = ResetClauses(aig)
      /\ aig' = aig /\ required' = NextLiterals(aig) /\ gate' = Len(aig.ands)
  BY DEF BuildInit, FormulaInv, library
<1>2. required' \subseteq Nat
  BY <1>1, LiteralsAreNatural
<1>3. Len(aig.ands) \in Nat
  BY GraphParts DEF Sound
<1>c. ASSUME NEW l \in NextLiterals(aig) PROVE Var(l) \in Cone(aig, NextLiterals(aig))
  <2>1. l \in Nat
    BY LiteralsAreNatural
  <2>2. IsDefined(aig, l)
    BY DEF NextLiterals, Sound, AllDefined
  <2> QED
    BY <2>1, <2>2, RootsInCone
<1>4. PassInv(trans, NextLiterals(aig))'
  BY <1>1, <1>2, <1>3, <1>c DEF PassInv
<1> QED
  BY <1>1, <1>4 DEF FormulaInv

\* The gates of a pass that has ended.
LEMMA PassIsComplete ==
    ASSUME AigerInv, Sound(aig), gate = 0, pc \in {"trans", "error"}, NEW f, f = IF pc = "trans" THEN trans ELSE error
    PROVE  \A j \in 1 .. Len(aig.ands) : IsRequired(aig.ands[j]) => ClausifyAnd(aig, aig.ands[j]) \subseteq f
<1>1. NothingIsMissed
  BY DEF AigerInv
<1>2. DOMAIN aig.ands = 1 .. Len(aig.ands) /\ Len(aig.ands) \in Nat
  BY GraphParts DEF Sound
<1> QED
  BY <1>1, <1>2 DEF NothingIsMissed

\* An iteration of clausify_subgraph continues the pass of one of the formulas.
LEMMA ClausifyGateFormulas ==
    ASSUME FormulaInv, AigerInv, GateRange, Sound(aig), OrderedGates(aig.ands), OperandsBelow(aig.ands), ClausifyGate
    PROVE  FormulaInv'
<1>1. gate \in 1 .. Len(aig.ands) /\ gate' = gate - 1 /\ aig' = aig /\ pc' = pc /\ init' = init
  BY DEF GateRange, ClausifyGate, library
<1>2. PICK a : a = aig.ands[gate]
  OBVIOUS
<1>3. required' = IF IsRequired(a) THEN required \cup {a.rhs0, a.rhs1} ELSE required
  BY <1>2 DEF ClausifyGate
<1>4. PICK cs : cs = IF IsRequired(a) THEN ClausifyAnd(aig, a) ELSE {}
  OBVIOUS
<1>5. /\ trans' = IF pc = "trans" THEN trans \cup cs ELSE trans
      /\ error' = IF pc = "error" THEN error \cup cs ELSE error
  BY <1>2, <1>4 DEF ClausifyGate
<1>6. CASE pc = "trans"
  <2>1. PassInv(trans, NextLiterals(aig)) /\ error = {} /\ init = ResetClauses(aig)
    BY <1>6 DEF FormulaInv
  <2>2. PICK h, r : h = trans' /\ r = NextLiterals(aig)
    OBVIOUS
  <2>3. h = trans \cup (IF IsRequired(a) THEN ClausifyAnd(aig, a) ELSE {})
    BY <1>4, <1>5, <1>6, <2>2
  <2>4. PassInv(h, r)'
    BY ONLY <1>1, <1>2, <1>3, <2>1, <2>2, <2>3, PassContinues,
            Sound(aig), OrderedGates(aig.ands), OperandsBelow(aig.ands)
  <2>5. PassInv(trans, NextLiterals(aig))'
    BY <1>1, <2>2, <2>4 DEF PassInv
  <2> QED
    BY <1>1, <1>5, <1>6, <2>1, <2>5 DEF FormulaInv
<1>7. CASE pc = "error"
  <2>1. PassInv(error, {ErrorLiteral(aig)}) /\ ~IsConstant(ErrorLiteral(aig)) /\ TransInv /\ init = ResetClauses(aig)
    BY <1>7 DEF FormulaInv
  <2>2. PICK h, r : h = error' /\ r = {ErrorLiteral(aig)}
    OBVIOUS
  <2>3. h = error \cup (IF IsRequired(a) THEN ClausifyAnd(aig, a) ELSE {})
    BY <1>4, <1>5, <1>7, <2>2
  <2>4. PassInv(h, r)'
    BY ONLY <1>1, <1>2, <1>3, <2>1, <2>2, <2>3, PassContinues,
            Sound(aig), OrderedGates(aig.ands), OperandsBelow(aig.ands)
  <2>5. PassInv(error, {ErrorLiteral(aig)})'
    BY <1>1, <2>2, <2>4 DEF PassInv
  <2>6. TransInv'
    BY <1>1, <1>5, <1>7, <2>1 DEF TransInv
  <2> QED
    BY <1>1, <1>5, <1>7, <2>1, <2>5, <2>6 DEF FormulaInv
<1> QED
  BY <1>6, <1>7 DEF ClausifyGate

\* The end of build_trans, and the start of the pass of build_error.
LEMMA FinishTransFormulas ==
    ASSUME FormulaInv, AigerInv, Sound(aig), ErrorLiteral(aig) \in Nat, IsDefined(aig, ErrorLiteral(aig)),
           FinishTrans
    PROVE  FormulaInv'
<1>1. pc = "trans" /\ gate = 0 /\ aig' = aig /\ init' = init
      /\ trans' = trans \cup UNION {LatchClauses(aig, i) : i \in DOMAIN aig.latches}
  BY DEF FinishTrans, library
<1>2. PassInv(trans, NextLiterals(aig)) /\ error = {} /\ init = ResetClauses(aig)
  BY <1>1 DEF FormulaInv
<1>3. \A j \in 1 .. Len(aig.ands) : IsRequired(aig.ands[j]) => ClausifyAnd(aig, aig.ands[j]) \subseteq trans
  BY <1>1, PassIsComplete
<1>4. Encodes(aig, trans, NextLiterals(aig))
  BY ONLY <1>1, <1>2, <1>3, PassEnds, Sound(aig)
<1>5. TransInv'
  BY <1>1, <1>4 DEF TransInv
<1>6. CASE IsConstant(ErrorLiteral(aig))
  <2>1. error' = (IF ErrorLiteral(aig) = 1 THEN {} ELSE {{}}) /\ pc' = "built"
    BY <1>6 DEF FinishTrans
  <2>2. ErrorInv'
    BY <1>1, <1>6, <2>1 DEF ErrorInv
  <2> QED
    BY <1>1, <1>2, <1>5, <2>1, <2>2 DEF FormulaInv
<1>7. CASE ~IsConstant(ErrorLiteral(aig))
  <2>1. error' = {} /\ pc' = "error" /\ required' = {ErrorLiteral(aig)} /\ gate' = Len(aig.ands)
    BY <1>2, <1>7 DEF FinishTrans
  <2>2. Len(aig.ands) \in Nat
    BY GraphParts DEF Sound
  <2>c. Var(ErrorLiteral(aig)) \in Cone(aig, {ErrorLiteral(aig)})
    BY RootsInCone
  <2>3. PassInv(error, {ErrorLiteral(aig)})'
    BY <1>1, <2>1, <2>2, <2>c DEF PassInv
  <2> QED
    BY <1>1, <1>2, <1>5, <1>7, <2>1, <2>3 DEF FormulaInv
<1> QED
  BY <1>6, <1>7

\* The end of build_error.
LEMMA FinishErrorFormulas ==
    ASSUME FormulaInv, AigerInv, Sound(aig), FinishError
    PROVE  FormulaInv'
<1>1. pc = "error" /\ pc' = "built" /\ gate = 0 /\ aig' = aig /\ init' = init /\ trans' = trans
      /\ error' = error \cup {{FromAigerLit(aig, ErrorLiteral(aig))}}
  BY DEF FinishError, library
<1>2. PassInv(error, {ErrorLiteral(aig)}) /\ ~IsConstant(ErrorLiteral(aig)) /\ TransInv /\ init = ResetClauses(aig)
  BY <1>1 DEF FormulaInv
<1>3. \A j \in 1 .. Len(aig.ands) : IsRequired(aig.ands[j]) => ClausifyAnd(aig, aig.ands[j]) \subseteq error
  BY <1>1, PassIsComplete
<1>4. Encodes(aig, error, {ErrorLiteral(aig)})
  BY ONLY <1>1, <1>2, <1>3, PassEnds, Sound(aig)
<1>5. ErrorInv'
  BY <1>1, <1>2, <1>4 DEF ErrorInv
<1>6. TransInv'
  BY <1>1, <1>2 DEF TransInv
<1> QED
  BY <1>1, <1>2, <1>5, <1>6 DEF FormulaInv

\* The property of the graph the formulas are built of is a literal it defines.
LEMMA BuiltErrorLiteral ==
    ASSUME AigerInv, GraphInv, StageInv, Building
    PROVE  ErrorLiteral(aig) \in Nat /\ IsDefined(aig, ErrorLiteral(aig))
<1>1. Sound(file) /\ IsSupported(file) /\ file \in Graphs
  BY BuiltFile DEF Sound
<1>2. ErrorLiteral(file) \in Nat /\ ErrorLiteral(file) \in Elements(Properties(file))
  BY <1>1, ErrorLiteralIs
<1>3. IsDefined(file, ErrorLiteral(file))
  BY <1>1, <1>2, UsesDefined
<1>4. CASE aig = file
  BY <1>2, <1>3, <1>4
<1>5. CASE IsRecoded(file)
  <2>1. aig = Recoded(file) /\ CodeInv(file, code, new) /\ RootsCoded(file)
    BY <1>5 DEF IsRecoded
  <2>2. HasCode(ErrorLiteral(file))
    BY <1>1, <1>2, <2>1, RootsAre DEF RootsCoded
  <2>3. ErrorLiteral(aig) = Code(ErrorLiteral(file))
    BY <1>1, <2>1, RecodedErrorLiteral
  <2> QED
    BY <1>1, <1>2, <1>3, <2>1, <2>2, <2>3, CodeIsDefined
<1> QED
  BY <1>4, <1>5 DEF GraphInv

\* Every step of the program keeps what is known of the formulas.
LEMMA NextFormulaInv ==
    FormulaInv /\ AigerInv /\ GraphInv /\ StageInv /\ GateRange /\ OutcomeInv /\ [Next]_vars => FormulaInv'
<1> SUFFICES ASSUME FormulaInv, AigerInv, GraphInv, StageInv, GateRange, OutcomeInv, [Next]_vars PROVE FormulaInv'
  OBVIOUS
<1>1. CASE UNCHANGED vars
  <2>1. UNCHANGED <<pc, aig, gate, required, init, trans, error>>
    BY <1>1 DEF vars, translation, library, clausification, formulas
  <2>2. (PassInv(trans, NextLiterals(aig)) => PassInv(trans, NextLiterals(aig))')
        /\ (PassInv(error, {ErrorLiteral(aig)}) => PassInv(error, {ErrorLiteral(aig)})')
    BY <2>1 DEF PassInv, IsRequired, Required
  <2>3. (TransInv => TransInv') /\ (ErrorInv => ErrorInv')
    BY <2>1 DEF TransInv, ErrorInv
  <2> QED
    BY <2>1, <2>2, <2>3 DEF FormulaInv
<1>2. CASE PrintHelp \/ UsageError \/ EngineError \/ BuildError \/ InputError
  <2>1. pc' = "exit"
    BY <1>2 DEF PrintHelp, UsageError, EngineError, BuildError, InputError, Exit
  <2> QED
    BY <2>1 DEF FormulaInv
<1>3. CASE NoHelp \/ ParseArgument \/ FinishParse \/ OpenFile \/ GetEngine
  <2>1. UNCHANGED formulas
    BY <1>3 DEF NoHelp, ParseArgument, FinishParse, OpenFile, GetEngine, translation
  <2>2. pc \in {"help", "parse", "open", "cycles"} /\ pc' \in {"parse", "open", "read", "context"}
    BY <1>3 DEF NoHelp, ParseArgument, FinishParse, OpenFile, GetEngine, Acyclic
  <2> QED
    BY <2>1, <2>2, EarlyFormulas
<1>4. CASE Read
  <2>1. UNCHANGED formulas
    BY <1>4 DEF Read
  <2>2. pc \in {"read", "cycles"} /\ pc' \in {"read", "cycles"}
    BY <1>4 DEF Read, ReadLine, CheckDefined, CycleRoot, EnterGate, LeaveGate
  <2> QED
    BY <2>1, <2>2, EarlyFormulas
<1>5. CASE Build
  <2>1. CASE \/ MakeContext \/ ContextReencoded
             \/ (ReencodeRoot \/ ExpandGate \/ CodeGate) /\ UNCHANGED <<clausification, formulas>>
    <3>1. UNCHANGED formulas
      BY <2>1 DEF MakeContext, ContextReencoded
    <3>2. pc \in {"context", "reencode"} /\ pc' \in {"reencode", "init"}
      BY <2>1 DEF MakeContext, ContextReencoded, ReencodeRoot, ExpandGate, CodeGate, FinishReencode
    <3> QED
      BY <3>1, <3>2, EarlyFormulas
  <2>2. CASE BuildInit \/ ClausifyGate \/ FinishTrans \/ FinishError
    <3>1. Building
      BY <2>2 DEF Building, BuildInit, ClausifyGate, FinishTrans, FinishError
    <3>2. /\ Sound(aig) /\ OrderedGates(aig.ands) /\ OperandsBelow(aig.ands)
          /\ ErrorLiteral(aig) \in Nat /\ IsDefined(aig, ErrorLiteral(aig))
      BY <3>1, BuiltGates, BuiltErrorLiteral
    <3> QED
      BY <2>2, <3>2, BuildInitFormulas, ClausifyGateFormulas, FinishTransFormulas, FinishErrorFormulas
  <2> QED
    BY <1>5, <2>1, <2>2 DEF Build
<1>6. CASE ReturnCounterexample \/ ReturnOk \/ ReturnUnknown \/ SearchForever \/ WriteWitness \/ Exited
  <2>1. UNCHANGED <<aig, formulas>>
    BY <1>6 DEF ReturnCounterexample, ReturnOk, ReturnUnknown, SearchForever, WriteWitness, Exited, vars,
                translation, library
  <2>2. (pc \in {"built", "witness"} /\ pc' \in {"built", "witness"}) \/ pc' = "exit"
    BY <1>6 DEF ReturnCounterexample, ReturnOk, ReturnUnknown, SearchForever, WriteWitness, Exited, Exit, vars
  <2> QED
    BY <2>1, <2>2, LateFormulas
<1> QED
  BY <1>1, <1>2, <1>3, <1>4, <1>5, <1>6 DEF Next

-----------------------------------------------------------------------------
(* Models of the formulas, as records of valuations.                       *)

VariableValue(m, x) ==
    CASE x[1] = "state" -> m.state[x[2]]
      [] x[1] = "input" -> m.input[x[2]]
      [] x[1] = "next"  -> m.next[x[2]]
      [] x[1] = "and"   -> m.aux[x[2]]

LitTrue(m, l) == l[2] = VariableValue(m, l[1])

Sat(m, f) == \A c \in f : \E l \in c : LitTrue(m, l)

Model(s, in, t, aux) == [state |-> s, input |-> in, next |-> t, aux |-> aux]

\* Models as records are those of AigerBuilder.
LEMMA CnfModelIs ==
    ASSUME NEW f, NEW s, NEW in, NEW t, NEW aux
    PROVE  IsCnfModel(f, s, in, t, aux) <=> Sat(Model(s, in, t, aux), f)
BY DEF IsCnfModel, Sat, LitTrue, VariableValue, Model

\* The value of a variable is looked up in the valuation of its range.
LEMMA VariableValueIs ==
    ASSUME NEW m, NEW i
    PROVE  /\ VariableValue(m, <<"state", i>>) = m.state[i]
           /\ VariableValue(m, <<"input", i>>) = m.input[i]
           /\ VariableValue(m, <<"next", i>>) = m.next[i]
           /\ VariableValue(m, <<"and", i>>) = m.aux[i]
BY DEF VariableValue

\* The pair x is a literal that m gives a truth value.
IsLit(m, x) == x = <<x[1], x[2]>> /\ x[2] \in BOOLEAN /\ VariableValue(m, x[1]) \in BOOLEAN

\* A literal or its negation is true in a model, and not both.
LEMMA NegTrue ==
    ASSUME NEW m, NEW x, IsLit(m, x)
    PROVE  LitTrue(m, Neg(x)) <=> ~LitTrue(m, x)
<1>1. Neg(x)[1] = x[1] /\ Neg(x)[2] = ~x[2]
  BY DEF Neg
<1>2. PICK b, c \in BOOLEAN : b = x[2] /\ c = VariableValue(m, x[1])
  BY DEF IsLit
<1>3. (~b) = c <=> ~(b = c)
  OBVIOUS
<1> QED
  BY <1>1, <1>2, <1>3 DEF LitTrue

\* What the clauses of clausify_and say.
LEMMA ClausesSay ==
    ASSUME NEW m, NEW x, NEW y, NEW z, IsLit(m, x), IsLit(m, y), IsLit(m, z)
    PROVE  /\ Sat(m, {{x}}) <=> LitTrue(m, x)
           /\ Sat(m, {{Neg(x)}}) <=> ~LitTrue(m, x)
           /\ Sat(m, Equivalence(x, y)) <=> (LitTrue(m, x) <=> LitTrue(m, y))
           /\ Sat(m, {{Neg(x), y}, {Neg(x), z}, {Neg(y), Neg(z), x}}) <=>
                    (LitTrue(m, x) <=> LitTrue(m, y) /\ LitTrue(m, z))
<1>1. /\ LitTrue(m, Neg(x)) <=> ~LitTrue(m, x)
      /\ LitTrue(m, Neg(y)) <=> ~LitTrue(m, y)
      /\ LitTrue(m, Neg(z)) <=> ~LitTrue(m, z)
  BY NegTrue
<1>2. Sat(m, {{x}}) <=> LitTrue(m, x)
  BY DEF Sat
<1>3. Sat(m, {{Neg(x)}}) <=> LitTrue(m, Neg(x))
  BY DEF Sat
<1>4. Sat(m, {{Neg(x), y}, {Neg(y), x}}) <=>
        (LitTrue(m, Neg(x)) \/ LitTrue(m, y)) /\ (LitTrue(m, Neg(y)) \/ LitTrue(m, x))
  BY DEF Sat
<1>5. Sat(m, {{Neg(x), y}, {Neg(x), z}, {Neg(y), Neg(z), x}}) <=>
        /\ LitTrue(m, Neg(x)) \/ LitTrue(m, y)
        /\ LitTrue(m, Neg(x)) \/ LitTrue(m, z)
        /\ LitTrue(m, Neg(y)) \/ LitTrue(m, Neg(z)) \/ LitTrue(m, x)
  BY DEF Sat
<1> QED
  BY <1>1, <1>2, <1>3, <1>4, <1>5 DEF Equivalence

\* A model of two formulas is a model of both.
LEMMA SatUnion ==
    ASSUME NEW m, NEW f, NEW h
    PROVE  Sat(m, f \cup h) <=> Sat(m, f) /\ Sat(m, h)
BY DEF Sat

\* m has a truth value for each variable of g.
IsModel(g, m) ==
    /\ \A i \in 1 .. Len(g.inputs) : m.input[i] \in BOOLEAN
    /\ \A i \in 1 .. Len(g.latches) : m.state[i] \in BOOLEAN /\ m.next[i] \in BOOLEAN
    /\ \A i \in 1 .. Len(g.ands) : m.aux[i] \in BOOLEAN

\* The variable of a literal of a graph, as the builder finds it.
LEMMA VariableOf ==
    ASSUME NEW g, Sound(g), NEW l \in Nat, NEW x, x = FromAigerLit(g, l)
    PROVE  /\ x = <<x[1], x[2]>> /\ x[2] = (Sign(l) = 0)
           /\ \A i \in 1 .. Len(g.inputs) : Var(g.inputs[i]) = Var(l) => x[1] = <<"input", i>>
           /\ \A i \in 1 .. Len(g.latches) : Var(g.latches[i].lit) = Var(l) => x[1] = <<"state", i>>
           /\ \A i \in 1 .. Len(g.ands) : Var(g.ands[i].lhs) = Var(l) => x[1] = <<"and", i>>
<1>1. /\ DOMAIN g.ands = 1 .. Len(g.ands) /\ DOMAIN g.inputs = 1 .. Len(g.inputs)
      /\ DOMAIN g.latches = 1 .. Len(g.latches) /\ g.maxvar \in Nat /\ DefinedOnce(g)
  BY GraphParts DEF Sound
<1>2. PICK v \in Nat : v = Var(l)
  BY LiteralParts
<1>3. x[1] = IF IsInput(g, v) THEN <<"input", CHOOSE i \in DOMAIN g.inputs : g.inputs[i] = 2 * v>>
             ELSE IF IsLatch(g, v)
             THEN <<"state", CHOOSE i \in DOMAIN g.latches : g.latches[i].lit = 2 * v>>
             ELSE <<"and", CHOOSE i \in DOMAIN g.ands : g.ands[i].lhs = 2 * v>>
  BY <1>2 DEF FromAigerLit
<1>4. x = <<x[1], x[2]>> /\ x[2] = (Sign(l) = 0)
  BY DEF FromAigerLit
<1>5. ASSUME NEW i \in 1 .. Len(g.inputs), Var(g.inputs[i]) = v PROVE x[1] = <<"input", i>>
  <2>1. g.inputs[i] = 2 * v
    BY <1>1, <1>5, DefinitionIs DEF DefinedOnce
  <2>2. \A j \in DOMAIN g.inputs : g.inputs[j] = 2 * v <=> j = i
    BY <1>1, <2>1 DEF DefinedOnce
  <2>3. (CHOOSE j \in DOMAIN g.inputs : g.inputs[j] = 2 * v) = i
    BY <1>1, <2>2
  <2>4. IsInput(g, v)
    BY <1>1, <2>1 DEF IsInput
  <2> QED
    BY <1>3, <2>3, <2>4
<1>6. ASSUME NEW i \in 1 .. Len(g.latches), Var(g.latches[i].lit) = v PROVE x[1] = <<"state", i>>
  <2>1. g.latches[i].lit = 2 * v
    BY <1>1, <1>6, DefinitionIs DEF DefinedOnce
  <2>2. \A j \in DOMAIN g.latches : g.latches[j].lit = 2 * v <=> j = i
    BY <1>1, <2>1 DEF DefinedOnce
  <2>3. (CHOOSE j \in DOMAIN g.latches : g.latches[j].lit = 2 * v) = i
    BY <1>1, <2>2
  <2>4. IsLatch(g, v) /\ ~IsInput(g, v)
    BY <1>1, <2>1 DEF IsLatch, IsInput, DefinedOnce
  <2> QED
    BY <1>3, <2>3, <2>4
<1>7. ASSUME NEW i \in 1 .. Len(g.ands), Var(g.ands[i].lhs) = v PROVE x[1] = <<"and", i>>
  <2>1. g.ands[i].lhs = 2 * v
    BY <1>1, <1>7, DefinitionIs DEF DefinedOnce
  <2>2. \A j \in DOMAIN g.ands : g.ands[j].lhs = 2 * v <=> j = i
    BY <1>1, <2>1 DEF DefinedOnce
  <2>3. (CHOOSE j \in DOMAIN g.ands : g.ands[j].lhs = 2 * v) = i
    BY <1>1, <2>2
  <2>4. ~IsLatch(g, v) /\ ~IsInput(g, v)
    BY <1>1, <2>1 DEF IsLatch, IsInput, DefinedOnce
  <2> QED
    BY <1>3, <2>3, <2>4
<1> QED
  BY <1>2, <1>4, <1>5, <1>6, <1>7

\* What m makes of a literal of the graph, and of a constant.
Truth(g, m, l) == IF IsConstant(l) THEN l = 1 ELSE LitTrue(m, FromAigerLit(g, l))

\* The auxiliary variable of the gate of l, if it has one, is as in W.
AuxAgrees(g, m, W, l) ==
    \A k \in 1 .. Len(g.ands) : Var(g.ands[k].lhs) = Var(l) => m.aux[k] = W[Var(l)]

\* A literal that is defined is a constant, or of an input, a latch or a gate.
LEMMA DefinedLiteral ==
    ASSUME NEW g, Sound(g), NEW l \in Nat, IsDefined(g, l), ~IsConstant(l)
    PROVE  \/ \E i \in 1 .. Len(g.inputs) : Var(g.inputs[i]) = Var(l)
           \/ \E i \in 1 .. Len(g.latches) : Var(g.latches[i].lit) = Var(l)
           \/ \E i \in 1 .. Len(g.ands) : Var(g.ands[i].lhs) = Var(l)
<1>1. /\ DOMAIN g.ands = 1 .. Len(g.ands) /\ DOMAIN g.inputs = 1 .. Len(g.inputs)
      /\ DOMAIN g.latches = 1 .. Len(g.latches)
  BY GraphParts DEF Sound
<1>2. Var(l) \in Nat /\ Var(l) # 0 /\ Var(2 * Var(l)) = Var(l)
  BY LiteralParts, VarOfPositive, ConstantIs
<1>3. IsAnd(g, Var(l)) \/ IsInput(g, Var(l)) \/ IsLatch(g, Var(l))
  BY <1>2 DEF IsDefined
<1> QED
  BY <1>1, <1>2, <1>3 DEF IsAnd, IsInput, IsLatch

\* What from_aiger_lit returns is a literal of a variable with a truth value.
LEMMA LiteralIsLit ==
    ASSUME NEW g, Sound(g), NEW m, IsModel(g, m), NEW l \in Nat, IsDefined(g, l), ~IsConstant(l),
           NEW x, x = FromAigerLit(g, l)
    PROVE  IsLit(m, x)
<1>1. x = <<x[1], x[2]>> /\ x[2] = (Sign(l) = 0)
  BY ONLY VariableOf, Sound(g), l \in Nat, x = FromAigerLit(g, l)
<1>2. VariableValue(m, x[1]) \in BOOLEAN
  <2>1. CASE \E i \in 1 .. Len(g.inputs) : Var(g.inputs[i]) = Var(l)
    <3>1. PICK i \in 1 .. Len(g.inputs) : Var(g.inputs[i]) = Var(l)
      BY <2>1
    <3>2. x[1] = <<"input", i>>
      BY <3>1, VariableOf
    <3>3. m.input[i] \in BOOLEAN
      BY DEF IsModel
    <3>4. VariableValue(m, <<"input", i>>) = m.input[i]
      BY VariableValueIs
    <3> QED
      BY ONLY <3>2, <3>3, <3>4, Zenon
  <2>2. CASE \E i \in 1 .. Len(g.latches) : Var(g.latches[i].lit) = Var(l)
    <3>1. PICK i \in 1 .. Len(g.latches) : Var(g.latches[i].lit) = Var(l)
      BY <2>2
    <3>2. x[1] = <<"state", i>>
      BY <3>1, VariableOf
    <3>3. m.state[i] \in BOOLEAN
      BY DEF IsModel
    <3>4. VariableValue(m, <<"state", i>>) = m.state[i]
      BY VariableValueIs
    <3> QED
      BY ONLY <3>2, <3>3, <3>4, Zenon
  <2>3. CASE \E i \in 1 .. Len(g.ands) : Var(g.ands[i].lhs) = Var(l)
    <3>1. PICK i \in 1 .. Len(g.ands) : Var(g.ands[i].lhs) = Var(l)
      BY <2>3
    <3>2. x[1] = <<"and", i>>
      BY <3>1, VariableOf
    <3>3. m.aux[i] \in BOOLEAN
      BY DEF IsModel
    <3>4. VariableValue(m, <<"and", i>>) = m.aux[i]
      BY VariableValueIs
    <3> QED
      BY ONLY <3>2, <3>3, <3>4, Zenon
  <2> QED
    BY <2>1, <2>2, <2>3, DefinedLiteral
<1>3. x[2] \in BOOLEAN
  BY <1>1
<1> QED
  BY ONLY <1>1, <1>2, <1>3, Zenon DEF IsLit

\* A literal is true in a model whose auxiliary variables are as in the
\* evaluation W precisely when W says so.
LEMMA TruthIs ==
    ASSUME NEW g, Sound(g), NEW m, IsModel(g, m), NEW W, Evaluates(g, m.state, m.input, W),
           NEW l \in Nat, IsDefined(g, l), AuxAgrees(g, m, W, l)
    PROVE  Truth(g, m, l) <=> LitValue(W, l)
<1>1. Sign(l) \in {0, 1} /\ l = 2 * Var(l) + Sign(l) /\ Var(l) \in Nat
  BY LiteralParts
<1>2. CASE IsConstant(l)
  <2>1. Var(l) = 0
    BY <1>2, ConstantIs
  <2>2. l = Sign(l)
    BY <1>1, <2>1
  <2>3. W[0] = FALSE
    BY DEF Evaluates, IsValuation
  <2>4. Truth(g, m, l) <=> Sign(l) = 1
    BY <1>2, <2>2 DEF Truth
  <2> QED
    BY <2>1, <2>3, <2>4 DEF LitValue
<1>3. CASE ~IsConstant(l)
  <2>1. PICK x : x = FromAigerLit(g, l)
    OBVIOUS
  <2>2. x[2] = (Sign(l) = 0)
    BY <2>1, VariableOf
  <2>3. VariableValue(m, x[1]) = W[Var(l)]
    <3>1. CASE \E i \in 1 .. Len(g.inputs) : Var(g.inputs[i]) = Var(l)
      <4>1. PICK i \in 1 .. Len(g.inputs) : Var(g.inputs[i]) = Var(l)
        BY <3>1
      <4>2. x[1] = <<"input", i>>
        BY <2>1, <4>1, VariableOf
      <4>3. VariableValue(m, <<"input", i>>) = m.input[i]
        BY VariableValueIs
      <4>4. W[Var(l)] = m.input[i]
        BY <4>1 DEF Evaluates
      <4> QED
        BY ONLY <4>2, <4>3, <4>4, Zenon
    <3>2. CASE \E i \in 1 .. Len(g.latches) : Var(g.latches[i].lit) = Var(l)
      <4>1. PICK i \in 1 .. Len(g.latches) : Var(g.latches[i].lit) = Var(l)
        BY <3>2
      <4>2. x[1] = <<"state", i>>
        BY <2>1, <4>1, VariableOf
      <4>3. VariableValue(m, <<"state", i>>) = m.state[i]
        BY VariableValueIs
      <4>4. W[Var(l)] = m.state[i]
        BY <4>1 DEF Evaluates
      <4> QED
        BY ONLY <4>2, <4>3, <4>4, Zenon
    <3>3. CASE \E i \in 1 .. Len(g.ands) : Var(g.ands[i].lhs) = Var(l)
      <4>1. PICK i \in 1 .. Len(g.ands) : Var(g.ands[i].lhs) = Var(l)
        BY <3>3
      <4>2. x[1] = <<"and", i>>
        BY <2>1, <4>1, VariableOf
      <4>3. VariableValue(m, <<"and", i>>) = m.aux[i]
        BY VariableValueIs
      <4>4. W[Var(l)] = m.aux[i]
        BY <4>1 DEF AuxAgrees
      <4> QED
        BY ONLY <4>2, <4>3, <4>4, Zenon
    <3> QED
      BY <1>3, <3>1, <3>2, <3>3, DefinedLiteral
  <2>4. W[Var(l)] \in BOOLEAN
    <3>1. Var(l) \in 0 .. g.maxvar
      BY DefinedInRange
    <3> QED
      BY <3>1 DEF Evaluates, IsValuation
  <2>5. PICK b \in BOOLEAN : b = W[Var(l)]
    BY <2>4
  <2>6. Truth(g, m, l) <=> (Sign(l) = 0) = b
    BY <1>3, <2>1, <2>2, <2>3, <2>5 DEF Truth, LitTrue
  <2>7. LitValue(W, l) <=> b # (Sign(l) = 1)
    BY <2>5 DEF LitValue
  <2>8. Sign(l) = 0 <=> ~(Sign(l) = 1)
    BY <1>1
  <2> QED
    BY <2>6, <2>7, <2>8
<1> QED
  BY <1>2, <1>3

\* The constants are 0 and 1.
LEMMA ConstantsAre ==
    ASSUME NEW l \in Nat
    PROVE  IsConstant(l) <=> l = 0 \/ l = 1
BY DEF IsConstant

\* The output of a gate is its auxiliary variable.
LEMMA OutputTruth ==
    ASSUME NEW g, Sound(g), NEW m, IsModel(g, m), NEW j \in 1 .. Len(g.ands),
           NEW x, x = FromAigerLit(g, g.ands[j].lhs)
    PROVE  IsLit(m, x) /\ (LitTrue(m, x) <=> m.aux[j])
<1>1. g.maxvar \in Nat /\ IsDefinition(g, g.ands[j].lhs) /\ DOMAIN g.ands = 1 .. Len(g.ands)
  BY GraphParts DEF Sound, DefinedOnce
<1>2. PICK l \in Nat : l = g.ands[j].lhs /\ Sign(l) = 0 /\ l = 2 * Var(l) /\ Var(l) # 0
  BY <1>1, DefinitionIs
<1>3. ~IsConstant(l)
  BY <1>2, ConstantIs
<1>4. IsDefined(g, l)
  BY <1>1, <1>2 DEF IsDefined, IsAnd
<1>5. IsLit(m, x)
  BY <1>2, <1>3, <1>4, LiteralIsLit
<1>6. x[2] = (Sign(l) = 0) /\ x[1] = <<"and", j>>
  BY <1>2, VariableOf
<1>7. VariableValue(m, <<"and", j>>) = m.aux[j] /\ m.aux[j] \in BOOLEAN
  BY VariableValueIs DEF IsModel
<1>8. VariableValue(m, x[1]) = m.aux[j]
  BY ONLY <1>6, <1>7, Zenon
<1>9. x[2] = TRUE
  BY <1>2, <1>6
<1> QED
  BY <1>5, <1>7, <1>8, <1>9 DEF LitTrue

\* clausify_and: the clauses of a gate hold precisely when its auxiliary variable
\* is the conjunction of its operands, constant or not.
LEMMA GateSat ==
    ASSUME NEW g, Sound(g), NEW m, IsModel(g, m), NEW j \in 1 .. Len(g.ands), NEW a, a = g.ands[j]
    PROVE  Sat(m, ClausifyAnd(g, a)) <=> (m.aux[j] <=> Truth(g, m, a.rhs0) /\ Truth(g, m, a.rhs1))
<1>1. a.rhs0 \in Nat /\ a.rhs1 \in Nat /\ DOMAIN g.ands = 1 .. Len(g.ands)
  BY GraphElements, GraphParts DEF Sound
<1>2. IsDefined(g, a.rhs0) /\ IsDefined(g, a.rhs1)
  BY <1>1 DEF Sound, AllDefined
<1>3. PICK x, y, z : x = FromAigerLit(g, a.lhs) /\ y = FromAigerLit(g, a.rhs0) /\ z = FromAigerLit(g, a.rhs1)
  OBVIOUS
<1>4. IsLit(m, x) /\ (LitTrue(m, x) <=> m.aux[j])
  BY <1>3, OutputTruth
<1>5. PICK p, q : p = a.rhs0 /\ q = a.rhs1
  OBVIOUS
<1>6. ClausifyAnd(g, a) =
        IF p = 0 \/ q = 0 THEN {{Neg(x)}}
        ELSE IF p = 1 /\ q = 1 THEN {{x}}
        ELSE IF p = 1 THEN Equivalence(x, z)
        ELSE IF q = 1 THEN Equivalence(x, y)
        ELSE {{Neg(x), y}, {Neg(x), z}, {Neg(y), Neg(z), x}}
  BY <1>3, <1>5 DEF ClausifyAnd
<1>7. IsConstant(p) <=> p = 0 \/ p = 1
  BY <1>1, <1>5, ConstantsAre
<1>8. IsConstant(q) <=> q = 0 \/ q = 1
  BY <1>1, <1>5, ConstantsAre
<1>9. Truth(g, m, p) <=> IF p = 0 \/ p = 1 THEN p = 1 ELSE LitTrue(m, y)
  BY <1>3, <1>5, <1>7 DEF Truth
<1>10. Truth(g, m, q) <=> IF q = 0 \/ q = 1 THEN q = 1 ELSE LitTrue(m, z)
  BY <1>3, <1>5, <1>8 DEF Truth
<1>11. ~(p = 0 \/ p = 1) => IsLit(m, y)
  BY <1>1, <1>2, <1>3, <1>5, <1>7, LiteralIsLit
<1>12. ~(q = 0 \/ q = 1) => IsLit(m, z)
  BY <1>1, <1>2, <1>3, <1>5, <1>8, LiteralIsLit
<1>13. CASE p = 0 \/ q = 0
  <2>1. Sat(m, {{Neg(x)}}) <=> ~LitTrue(m, x)
    BY <1>4, ClausesSay
  <2>2. ~(Truth(g, m, p) /\ Truth(g, m, q))
    BY <1>9, <1>10, <1>13
  <2> QED
    BY <1>4, <1>5, <1>6, <1>13, <2>1, <2>2
<1>14. CASE ~(p = 0 \/ q = 0) /\ p = 1 /\ q = 1
  <2>1. Sat(m, {{x}}) <=> LitTrue(m, x)
    BY <1>4, ClausesSay
  <2>2. Truth(g, m, p) /\ Truth(g, m, q)
    BY <1>9, <1>10, <1>14
  <2> QED
    BY <1>4, <1>5, <1>6, <1>14, <2>1, <2>2
<1>15. CASE ~(p = 0 \/ q = 0) /\ p = 1 /\ q # 1
  <2>1. Sat(m, Equivalence(x, z)) <=> (LitTrue(m, x) <=> LitTrue(m, z))
    BY <1>4, <1>12, <1>15, ClausesSay
  <2>2. Truth(g, m, p) /\ (Truth(g, m, q) <=> LitTrue(m, z))
    BY <1>9, <1>10, <1>15
  <2> QED
    BY <1>4, <1>5, <1>6, <1>15, <2>1, <2>2
<1>16. CASE ~(p = 0 \/ q = 0) /\ p # 1 /\ q = 1
  <2>1. Sat(m, Equivalence(x, y)) <=> (LitTrue(m, x) <=> LitTrue(m, y))
    BY <1>4, <1>11, <1>16, ClausesSay
  <2>2. Truth(g, m, q) /\ (Truth(g, m, p) <=> LitTrue(m, y))
    BY <1>9, <1>10, <1>16
  <2> QED
    BY <1>4, <1>5, <1>6, <1>16, <2>1, <2>2
<1>17. CASE ~(p = 0 \/ q = 0) /\ p # 1 /\ q # 1
  <2>1. Sat(m, {{Neg(x), y}, {Neg(x), z}, {Neg(y), Neg(z), x}}) <=>
            (LitTrue(m, x) <=> LitTrue(m, y) /\ LitTrue(m, z))
    BY <1>4, <1>11, <1>12, <1>17, ClausesSay
  <2>2. (Truth(g, m, p) <=> LitTrue(m, y)) /\ (Truth(g, m, q) <=> LitTrue(m, z))
    BY <1>9, <1>10, <1>17
  <2> QED
    BY <1>4, <1>5, <1>6, <1>17, <2>1, <2>2
<1> QED
  BY <1>13, <1>14, <1>15, <1>16, <1>17

\* build_trans: the clauses of a latch hold precisely when its next state is the
\* value of its function.
LEMMA LatchSat ==
    ASSUME NEW g, Sound(g), NEW m, IsModel(g, m), NEW i \in 1 .. Len(g.latches)
    PROVE  Sat(m, LatchClauses(g, i)) <=> (m.next[i] <=> Truth(g, m, g.latches[i].next))
<1>1. DOMAIN g.latches = 1 .. Len(g.latches)
  BY GraphParts DEF Sound
<1>2. PICK l \in Nat : l = g.latches[i].next
  BY GraphElements DEF Sound
<1>3. IsDefined(g, l)
  BY <1>1, <1>2 DEF Sound, AllDefined
<1>4. PICK x, y : x = <<<<"next", i>>, TRUE>> /\ y = FromAigerLit(g, l)
  OBVIOUS
<1>5. LatchClauses(g, i) = IF l = 1 THEN {{x}} ELSE IF l = 0 THEN {{Neg(x)}} ELSE Equivalence(x, y)
  BY <1>2, <1>4 DEF LatchClauses
<1>6. IsLit(m, x) /\ (LitTrue(m, x) <=> m.next[i])
  <2>1. VariableValue(m, <<"next", i>>) = m.next[i] /\ m.next[i] \in BOOLEAN
    BY VariableValueIs DEF IsModel
  <2>2. x[1] = <<"next", i>> /\ x[2] = TRUE /\ x = <<x[1], x[2]>>
    BY <1>4
  <2>3. VariableValue(m, x[1]) = m.next[i]
    BY ONLY <2>1, <2>2, Zenon
  <2>4. VariableValue(m, x[1]) \in BOOLEAN /\ x[2] \in BOOLEAN
    BY <2>1, <2>2, <2>3
  <2>5. IsLit(m, x)
    BY ONLY <2>2, <2>4, Zenon DEF IsLit
  <2> QED
    BY <2>1, <2>2, <2>3, <2>5 DEF LitTrue
<1>7. IsConstant(l) <=> l = 0 \/ l = 1
  BY ConstantsAre
<1>8. Truth(g, m, l) <=> IF l = 0 \/ l = 1 THEN l = 1 ELSE LitTrue(m, y)
  BY <1>4, <1>7 DEF Truth
<1>9. ~(l = 0 \/ l = 1) => IsLit(m, y)
  BY <1>3, <1>4, <1>7, LiteralIsLit
<1>10. Sat(m, {{x}}) <=> LitTrue(m, x)
  BY <1>6, ClausesSay
<1>11. Sat(m, {{Neg(x)}}) <=> ~LitTrue(m, x)
  BY <1>6, ClausesSay
<1>12. ~(l = 0 \/ l = 1) => (Sat(m, Equivalence(x, y)) <=> (LitTrue(m, x) <=> LitTrue(m, y)))
  BY <1>6, <1>9, ClausesSay
<1> QED
  BY <1>2, <1>5, <1>6, <1>8, <1>10, <1>11, <1>12

-----------------------------------------------------------------------------
(* The models are the evaluations.                                         *)

\* The auxiliary variables of the gates in R are as in W.
IsEvaluation(g, m, W, R) == \A j \in R : m.aux[j] = W[Var(g.ands[j].lhs)]

\* In a model that is an evaluation of the gates in R, literals that depend on
\* these have the values it gives them.
LEMMA EvaluationTruth ==
    ASSUME NEW g, Sound(g), NEW m, IsModel(g, m), NEW W, Evaluates(g, m.state, m.input, W),
           NEW R, IsEvaluation(g, m, W, R), NEW l \in Nat, IsDefined(g, l), GateIn(g, R, l)
    PROVE  Truth(g, m, l) <=> LitValue(W, l)
<1>1. AuxAgrees(g, m, W, l)
  BY DEF AuxAgrees, IsEvaluation, GateIn
<1> QED
  BY <1>1, TruthIs

\* An evaluation of the gates that the roots depend on satisfies their clauses.
LEMMA EvaluationSatisfies ==
    ASSUME NEW g, Sound(g), NEW R, NEW f, NEW roots, Covers(g, R, f, roots), NEW m, IsModel(g, m),
           NEW W, Evaluates(g, m.state, m.input, W), IsEvaluation(g, m, W, R)
    PROVE  Sat(m, f)
<1>1. ASSUME NEW j \in R PROVE Sat(m, ClausifyAnd(g, g.ands[j]))
  <2>0. j \in 1 .. Len(g.ands)
    BY DEF Covers
  <2>1. PICK a : a = g.ands[j]
    OBVIOUS
  <2>2. a.rhs0 \in Nat /\ a.rhs1 \in Nat /\ DOMAIN g.ands = 1 .. Len(g.ands)
    BY <2>0, <2>1, GraphElements, GraphParts DEF Sound
  <2>3. IsDefined(g, a.rhs0) /\ IsDefined(g, a.rhs1)
    BY <2>0, <2>1, <2>2 DEF Sound, AllDefined
  <2>c. GateIn(g, R, a.rhs0) /\ GateIn(g, R, a.rhs1)
    BY <2>1 DEF Covers
  <2>4. (Truth(g, m, a.rhs0) <=> LitValue(W, a.rhs0)) /\ (Truth(g, m, a.rhs1) <=> LitValue(W, a.rhs1))
    BY <2>2, <2>3, <2>c, EvaluationTruth
  <2>5. m.aux[j] = GateValue(W, a)
    BY <2>0, <2>1 DEF IsEvaluation, Evaluates
  <2>6. m.aux[j] <=> Truth(g, m, a.rhs0) /\ Truth(g, m, a.rhs1)
    BY <2>4, <2>5 DEF GateValue
  <2> QED
    BY <2>0, <2>1, <2>6, GateSat
<1> QED
  BY <1>1 DEF Sat, Covers, ClausesOf

\* A model of the clauses that the roots depend on gives them their values.
LEMMA ModelAgrees ==
    ASSUME NEW g, Sound(g), OrderedGates(g.ands), OperandsBelow(g.ands), NEW f, NEW roots,
           Encodes(g, f, roots), NEW m, IsModel(g, m), NEW W, Evaluates(g, m.state, m.input, W), Sat(m, f),
           NEW l \in roots, l \in Nat, IsDefined(g, l)
    PROVE  Truth(g, m, l) <=> LitValue(W, l)
<1>1. PICK R : Covers(g, R, f, roots)
  BY DEF Encodes
<1>2. Len(g.ands) \in Nat /\ DOMAIN g.ands = 1 .. Len(g.ands) /\ g \in Graphs /\ g.maxvar \in Nat
  BY GraphParts DEF Sound
<1>3. R \in SUBSET (1 .. Len(g.ands))
  BY <1>1 DEF Covers
<1> DEFINE Bad == {j \in R : m.aux[j] # W[Var(g.ands[j].lhs)]}
<1>4. Bad = {}
  <2> SUFFICES ASSUME Bad # {} PROVE FALSE
    OBVIOUS
  <2>1. Bad \in SUBSET Nat
    <3>1. 1 .. Len(g.ands) \subseteq Nat
      BY <1>2
    <3>2. Bad \subseteq R
      OBVIOUS
    <3> QED
      BY <1>3, <3>1, <3>2, Zenon
  <2>2. PICK j \in Bad : \A k \in Bad : j <= k
    BY <2>1, LeastNatural
  <2>3. j \in 1 .. Len(g.ands) /\ j \in R /\ m.aux[j] # W[Var(g.ands[j].lhs)]
    BY <1>3
  <2>4. PICK a : a = g.ands[j]
    OBVIOUS
  <2>5. ASSUME NEW k \in 1 .. Len(g.ands), NEW o, o \in {a.rhs0, a.rhs1}, Var(g.ands[k].lhs) = Var(o)
        PROVE  m.aux[k] = W[Var(o)]
    <3>1. k \in R
      BY <1>1, <2>3, <2>4, <2>5 DEF Covers, GateIn
    <3>2. Var(o) < Var(a.lhs)
      BY <2>3, <2>4, <2>5 DEF OperandsBelow
    <3>3. PICK p \in Nat, q \in Nat : p = g.ands[k].lhs /\ q = a.lhs
      BY <1>2, <2>3, <2>4, GraphElements
    <3>4. Var(p) \in Nat /\ p = 2 * Var(p) /\ Var(q) \in Nat /\ q = 2 * Var(q)
      BY <2>3, <2>4, <3>3, EvenLiteral DEF OrderedGates
    <3>5. p < q
      BY <2>5, <3>2, <3>3, <3>4
    <3>6. ~(j <= k)
      <4>1. k # j
        BY <2>4, <3>3, <3>5
      <4>2. ~(j < k)
        <5> SUFFICES ASSUME j < k PROVE FALSE
          OBVIOUS
        <5>1. q < p
          BY <2>3, <2>4, <3>3 DEF OrderedGates
        <5> QED
          BY <3>5, <5>1
      <4> QED
        BY <1>2, <2>3, <4>1, <4>2
    <3>7. k \notin Bad
      BY <2>2, <3>6
    <3> QED
      BY <2>5, <3>1, <3>7
  <2>6. AuxAgrees(g, m, W, a.rhs0) /\ AuxAgrees(g, m, W, a.rhs1)
    BY <2>5 DEF AuxAgrees
  <2>7. a.rhs0 \in Nat /\ a.rhs1 \in Nat
    BY <1>2, <2>3, <2>4, GraphElements
  <2>8. IsDefined(g, a.rhs0) /\ IsDefined(g, a.rhs1)
    BY <1>2, <2>3, <2>4 DEF Sound, AllDefined
  <2>9. (Truth(g, m, a.rhs0) <=> LitValue(W, a.rhs0)) /\ (Truth(g, m, a.rhs1) <=> LitValue(W, a.rhs1))
    BY <2>6, <2>7, <2>8, TruthIs
  <2>10. Sat(m, ClausifyAnd(g, a))
    BY <1>1, <2>3, <2>4 DEF Covers, ClausesOf, Sat
  <2>11. m.aux[j] <=> Truth(g, m, a.rhs0) /\ Truth(g, m, a.rhs1)
    BY <2>3, <2>4, <2>10, GateSat
  <2>12. W[Var(a.lhs)] = GateValue(W, a)
    BY <2>3, <2>4 DEF Evaluates
  <2>13. m.aux[j] \in BOOLEAN /\ GateValue(W, a) \in BOOLEAN
    BY <2>3 DEF IsModel, GateValue
  <2>14. m.aux[j] <=> GateValue(W, a)
    BY <2>9, <2>11 DEF GateValue
  <2> QED
    BY <2>3, <2>4, <2>12, <2>13, <2>14
<1>5. AuxAgrees(g, m, W, l)
  <2> SUFFICES ASSUME NEW k \in 1 .. Len(g.ands), Var(g.ands[k].lhs) = Var(l) PROVE m.aux[k] = W[Var(l)]
    BY DEF AuxAgrees
  <2>1. k \in R
    BY <1>1 DEF Covers, GateIn
  <2>2. k \notin Bad
    BY <1>4
  <2> QED
    BY <2>1, <2>2
<1> QED
  BY <1>5, TruthIs

\* The models of the clauses of the latches have the next values of all latches.
LEMMA LatchClausesSat ==
    ASSUME NEW g, Sound(g), NEW m, IsModel(g, m)
    PROVE  Sat(m, UNION {LatchClauses(g, i) : i \in DOMAIN g.latches}) <=>
                \A i \in 1 .. Len(g.latches) : m.next[i] <=> Truth(g, m, g.latches[i].next)
<1>1. DOMAIN g.latches = 1 .. Len(g.latches)
  BY GraphParts DEF Sound
<1>2. Sat(m, UNION {LatchClauses(g, i) : i \in DOMAIN g.latches}) <=>
            \A i \in 1 .. Len(g.latches) : Sat(m, LatchClauses(g, i))
  BY <1>1 DEF Sat
<1> QED
  BY <1>2, LatchSat

\* The next value of a latch is a constant, or one of the roots of build_trans.
LEMMA NextIsDefined ==
    ASSUME NEW g, Sound(g), NEW i \in 1 .. Len(g.latches)
    PROVE  g.latches[i].next \in Nat /\ IsDefined(g, g.latches[i].next)
           /\ (~IsConstant(g.latches[i].next) => g.latches[i].next \in NextLiterals(g))
<1>1. DOMAIN g.latches = 1 .. Len(g.latches)
  BY GraphParts DEF Sound
<1> QED
  BY <1>1, GraphElements DEF Sound, AllDefined, NextLiterals

\* A constant has the same value in every model.
LEMMA ConstantTruth ==
    ASSUME NEW g, Sound(g), NEW m, IsModel(g, m), NEW W, Evaluates(g, m.state, m.input, W),
           NEW l \in Nat, IsConstant(l)
    PROVE  Truth(g, m, l) <=> LitValue(W, l)
<1>1. Var(l) = 0 /\ IsDefined(g, l)
  BY ConstantIs DEF IsDefined
<1>2. AuxAgrees(g, m, W, l)
  <2> SUFFICES ASSUME NEW k \in 1 .. Len(g.ands) PROVE Var(g.ands[k].lhs) # 0
    BY <1>1 DEF AuxAgrees
  <2>1. g.maxvar \in Nat /\ IsDefinition(g, g.ands[k].lhs)
    BY GraphParts DEF Sound, DefinedOnce
  <2> QED
    BY <2>1, DefinitionIs
<1> QED
  BY <1>1, <1>2, TruthIs

\* The models of the transition formula are next states.
LEMMA TransSays ==
    ASSUME TransInv, Sound(aig), OrderedGates(aig.ands), OperandsBelow(aig.ands), NEW m, IsModel(aig, m),
           NEW W, Evaluates(aig, m.state, m.input, W), Sat(m, trans), NEW i \in 1 .. Len(aig.latches)
    PROVE  m.next[i] <=> LitValue(W, aig.latches[i].next)
<1>1. PICK f : /\ Encodes(aig, f, NextLiterals(aig))
               /\ trans = f \cup UNION {LatchClauses(aig, k) : k \in DOMAIN aig.latches}
  BY DEF TransInv
<1>2. Sat(m, f) /\ Sat(m, UNION {LatchClauses(aig, k) : k \in DOMAIN aig.latches})
  BY <1>1, SatUnion
<1>3. m.next[i] <=> Truth(aig, m, aig.latches[i].next)
  BY <1>2, LatchClausesSat
<1>4. PICK l \in Nat : l = aig.latches[i].next /\ IsDefined(aig, l) /\ (~IsConstant(l) => l \in NextLiterals(aig))
  BY NextIsDefined
<1>5. Truth(aig, m, l) <=> LitValue(W, l)
  <2>1. CASE IsConstant(l)
    BY <2>1, ConstantTruth
  <2>2. CASE l \in NextLiterals(aig)
    BY ONLY <1>1, <1>2, <1>4, <2>2, ModelAgrees, Sound(aig), OrderedGates(aig.ands), OperandsBelow(aig.ands),
            IsModel(aig, m), Evaluates(aig, m.state, m.input, W)
  <2> QED
    BY <1>4, <2>1, <2>2
<1> QED
  BY <1>3, <1>4, <1>5

\* A model of the error formula is an error.
LEMMA ErrorSays ==
    ASSUME ErrorInv, Sound(aig), OrderedGates(aig.ands), OperandsBelow(aig.ands), NEW m, IsModel(aig, m),
           NEW W, Evaluates(aig, m.state, m.input, W), Sat(m, error),
           ErrorLiteral(aig) \in Nat, IsDefined(aig, ErrorLiteral(aig))
    PROVE  LitValue(W, ErrorLiteral(aig))
<1>1. PICK l \in Nat : l = ErrorLiteral(aig)
  OBVIOUS
<1>2. CASE IsConstant(l)
  <2>1. error = IF l = 1 THEN {} ELSE {{}}
    BY <1>1, <1>2 DEF ErrorInv
  <2>2. l = 1
    BY <2>1 DEF Sat
  <2>3. Truth(aig, m, l)
    BY <1>2, <2>2 DEF Truth
  <2> QED
    BY <1>1, <1>2, <2>3, ConstantTruth
<1>3. CASE ~IsConstant(l)
  <2>1. PICK f : Encodes(aig, f, {l}) /\ error = f \cup {{FromAigerLit(aig, l)}}
    BY <1>1, <1>3 DEF ErrorInv
  <2>2. Sat(m, f) /\ Sat(m, {{FromAigerLit(aig, l)}})
    BY <2>1, SatUnion
  <2>3. Truth(aig, m, l)
    BY <1>3, <2>2 DEF Sat, Truth
  <2>4. l \in {l} /\ IsDefined(aig, l)
    BY <1>1
  <2>5. Truth(aig, m, l) <=> LitValue(W, l)
    BY ONLY <2>1, <2>2, <2>4, ModelAgrees, Sound(aig), OrderedGates(aig.ands), OperandsBelow(aig.ands),
            IsModel(aig, m), Evaluates(aig, m.state, m.input, W), l \in Nat
  <2> QED
    BY <1>1, <2>3, <2>5
<1> QED
  BY <1>2, <1>3

\* In an evaluation of the gates in R, the next state variables have their values
\* only if the transition formula is satisfied.
DecideTrans(R) ==
    \A m, W :
        /\ IsModel(aig, m) /\ Evaluates(aig, m.state, m.input, W) /\ IsEvaluation(aig, m, W, R)
        /\ \A i \in 1 .. Len(aig.latches) : m.next[i] <=> LitValue(W, aig.latches[i].next)
        => Sat(m, trans)

\* ... and an error satisfies the error formula.
DecideError(R) ==
    \A m, W :
        /\ IsModel(aig, m) /\ Evaluates(aig, m.state, m.input, W) /\ IsEvaluation(aig, m, W, R)
        /\ LitValue(W, ErrorLiteral(aig))
        => Sat(m, error)

\* The gates in R are in the cone of the roots.
InCone(R, roots) ==
    R \subseteq 1 .. Len(aig.ands) /\ \A j \in R : Var(aig.ands[j].lhs) \in Cone(aig, roots)

\* The evaluations of the gates that the next states depend on are models of the
\* transition formula.
LEMMA TransDecided ==
    ASSUME TransInv, Sound(aig)
    PROVE  \E R : InCone(R, NextLiterals(aig)) /\ DecideTrans(R)
<1>1. PICK f, R : /\ Covers(aig, R, f, NextLiterals(aig))
                  /\ trans = f \cup UNION {LatchClauses(aig, k) : k \in DOMAIN aig.latches}
  BY DEF TransInv, Encodes
<1>2. InCone(R, NextLiterals(aig))
  BY <1>1 DEF Covers, InCone
<1>3. ASSUME NEW m, NEW W, IsModel(aig, m), Evaluates(aig, m.state, m.input, W), IsEvaluation(aig, m, W, R),
             \A i \in 1 .. Len(aig.latches) : m.next[i] <=> LitValue(W, aig.latches[i].next)
      PROVE  Sat(m, trans)
  <2>1. Sat(m, f)
    BY <1>1, <1>3, EvaluationSatisfies
  <2>2. ASSUME NEW i \in 1 .. Len(aig.latches) PROVE m.next[i] <=> Truth(aig, m, aig.latches[i].next)
    <3>1. PICK l \in Nat : l = aig.latches[i].next /\ IsDefined(aig, l)
                           /\ (~IsConstant(l) => l \in NextLiterals(aig))
      BY NextIsDefined
    <3>2. CASE IsConstant(l)
      BY <1>3, <3>1, <3>2, ConstantTruth
    <3>3. CASE l \in NextLiterals(aig)
      <4>1. GateIn(aig, R, l)
        BY <1>1, <3>3 DEF Covers
      <4> QED
        BY <1>3, <3>1, <4>1, EvaluationTruth
    <3> QED
      BY <3>1, <3>2, <3>3
  <2>3. Sat(m, UNION {LatchClauses(aig, k) : k \in DOMAIN aig.latches})
    BY <1>3, <2>2, LatchClausesSat
  <2> QED
    BY <1>1, <2>1, <2>3, SatUnion
<1> QED
  BY <1>2, <1>3 DEF DecideTrans

\* The evaluations of the gates that the property depends on are models of the error
\* formula if they are errors.
LEMMA ErrorDecided ==
    ASSUME ErrorInv, Sound(aig), ErrorLiteral(aig) \in Nat, IsDefined(aig, ErrorLiteral(aig))
    PROVE  \E R : InCone(R, {ErrorLiteral(aig)}) /\ DecideError(R)
<1>1. PICK l \in Nat : l = ErrorLiteral(aig) /\ IsDefined(aig, l)
  OBVIOUS
<1>2. CASE IsConstant(l)
  <2>1. error = IF l = 1 THEN {} ELSE {{}}
    BY <1>1, <1>2 DEF ErrorInv
  <2>2. ASSUME NEW m, NEW W, IsModel(aig, m), Evaluates(aig, m.state, m.input, W), LitValue(W, l)
        PROVE  Sat(m, error)
    <3>1. Truth(aig, m, l)
      BY <1>2, <2>2, ConstantTruth
    <3>2. l = 1
      BY <1>2, <3>1 DEF Truth
    <3> QED
      BY <2>1, <3>2 DEF Sat
  <2>3. DecideError({})
    BY <1>1, <2>2 DEF DecideError
  <2> QED
    BY <2>3 DEF InCone
<1>3. CASE ~IsConstant(l)
  <2>1. PICK f, R : Covers(aig, R, f, {l}) /\ error = f \cup {{FromAigerLit(aig, l)}}
    BY <1>1, <1>3 DEF ErrorInv, Encodes
  <2>2. InCone(R, {ErrorLiteral(aig)})
    BY <1>1, <2>1 DEF Covers, InCone
  <2>3. ASSUME NEW m, NEW W, IsModel(aig, m), Evaluates(aig, m.state, m.input, W), IsEvaluation(aig, m, W, R),
               LitValue(W, l)
        PROVE  Sat(m, error)
    <3>1. Sat(m, f)
      BY <2>1, <2>3, EvaluationSatisfies
    <3>2. GateIn(aig, R, l)
      BY <2>1 DEF Covers
    <3>3. Truth(aig, m, l)
      BY <1>1, <2>3, <3>2, EvaluationTruth
    <3>4. Sat(m, {{FromAigerLit(aig, l)}})
      BY <1>3, <3>3 DEF Sat, Truth
    <3> QED
      BY <2>1, <3>1, <3>4, SatUnion
  <2> QED
    BY <1>1, <2>2, <2>3 DEF DecideError
<1> QED
  BY <1>2, <1>3

-----------------------------------------------------------------------------
(* The models of the formulas and the values of the graph in the file.     *)

\* The file is one the program is run on: it is read once.
FileInv == \E i \in Invocations : file = i.file

\* The file is never written.
LEMMA FileStays == [Next]_vars => file' = file
<1> SUFFICES ASSUME [Next]_vars PROVE file' = file
  OBVIOUS
<1>1. CASE UNCHANGED vars \/ Exited \/ SearchForever
  BY <1>1 DEF vars, translation, library, Exited, SearchForever
<1>2. CASE PrintHelp \/ NoHelp \/ ParseArgument \/ UsageError \/ FinishParse \/ OpenFile \/ InputError
  BY <1>2 DEF PrintHelp, NoHelp, ParseArgument, UsageError, FinishParse, OpenFile, InputError, translation, library
<1>3. CASE GetEngine \/ EngineError \/ BuildError
  BY <1>3 DEF GetEngine, EngineError, BuildError, translation, library
<1>4. CASE ReturnCounterexample \/ ReturnOk \/ ReturnUnknown \/ WriteWitness
  BY <1>4 DEF ReturnCounterexample, ReturnOk, ReturnUnknown, WriteWitness, translation, library
<1>5. CASE Read
  BY <1>5 DEF Read, ReadLine, CheckDefined, CycleRoot, EnterGate, LeaveGate, library
<1>6. CASE Build
  <2>1. CASE MakeContext \/ ContextReencoded
    <3>1. UNCHANGED library \/ StartReencode \/ FinishReencode
      BY <2>1, Zenon DEF MakeContext, ContextReencoded
    <3> QED
      BY <3>1, Zenon DEF StartReencode, FinishReencode, library
  <2>2. CASE ReencodeRoot \/ ExpandGate \/ CodeGate
    BY <2>2, Zenon DEF ReencodeRoot, ExpandGate, CodeGate
  <2>3. CASE BuildInit \/ ClausifyGate \/ FinishTrans \/ FinishError
    BY <2>3, Zenon DEF BuildInit, ClausifyGate, FinishTrans, FinishError, library
  <2> QED
    BY <1>6, <2>1, <2>2, <2>3 DEF Build
<1> QED
  BY <1>1, <1>2, <1>3, <1>4, <1>5, <1>6 DEF Next

\* Every step of the program keeps the file among those it is run on.
LEMMA NextFileInv == FileInv /\ [Next]_vars => FileInv'
BY FileStays DEF FileInv

\* What is known when the formulas have been built.
Built == AigerInv /\ GraphInv /\ StageInv /\ FormulaInv /\ FileInv /\ pc \in {"built", "witness"}

\* What is known when both formulas are complete.
LEMMA BuiltIsBuilding == Built => Building /\ TransInv /\ ErrorInv /\ init = ResetClauses(aig)
BY DEF Built, Building, FormulaInv

\* States and inputs have a value for each latch and input of the file.
LEMMA FileFits ==
    ASSUME Built, NEW s \in States, NEW in \in Inputs
    PROVE  Fits(file, s, in) /\ DOMAIN file.latches \subseteq Latches
<1>1. WellFormed(file) /\ Sound(file)
  BY BuiltFile, BuiltIsBuilding DEF Built
<1>2. DOMAIN file.inputs = 1 .. Len(file.inputs) /\ DOMAIN file.latches = 1 .. Len(file.latches)
  BY <1>1, GraphParts DEF Sound
<1>3. PICK i \in Invocations : file = i.file
  BY DEF Built, FileInv
<1>4. /\ DOMAIN file.latches \subseteq Latches
      /\ \A k \in DOMAIN file.inputs : in[k] \in BOOLEAN
  BY <1>1, <1>3, SpaceAssumption
<1>5. \A k \in 1 .. Len(file.latches) : s[k] \in BOOLEAN
  BY <1>2, <1>4 DEF States
<1> QED
  BY <1>2, <1>4, <1>5 DEF Fits

\* Reencoding keeps the number of latches and inputs, and their order.
LEMMA SameShape ==
    ASSUME Built
    PROVE  /\ DOMAIN file.latches = 1 .. Len(file.latches) /\ DOMAIN aig.latches = 1 .. Len(file.latches)
           /\ DOMAIN aig.ands = 1 .. Len(aig.ands)
           /\ Len(aig.latches) = Len(file.latches) /\ Len(aig.inputs) = Len(file.inputs)
           /\ Len(file.latches) \in Nat /\ Len(file.inputs) \in Nat
<1>1. Sound(file) /\ HasResets(file) /\ Sound(aig)
  BY BuiltFile, BuiltGates, BuiltIsBuilding DEF Built
<1>2. /\ DOMAIN file.latches = 1 .. Len(file.latches) /\ Len(file.latches) \in Nat
      /\ DOMAIN file.inputs = 1 .. Len(file.inputs) /\ Len(file.inputs) \in Nat
      /\ DOMAIN aig.latches = 1 .. Len(aig.latches) /\ Len(aig.latches) \in Nat
      /\ DOMAIN aig.inputs = 1 .. Len(aig.inputs) /\ Len(aig.inputs) \in Nat
      /\ DOMAIN aig.ands = 1 .. Len(aig.ands)
  BY <1>1, GraphParts DEF Sound
<1>3. CASE aig = file
  BY <1>2, <1>3
<1>4. CASE IsRecoded(file)
  <2>1. DOMAIN aig.latches = 1 .. Len(file.latches)
    BY <1>1, <1>4, RecodedLatches DEF IsRecoded
  <2>2. DOMAIN aig.inputs = DOMAIN file.inputs
    BY <1>4, RecodedIs DEF IsRecoded, Recode
  <2>3. Len(aig.latches) = Len(file.latches)
    BY <1>2, <2>1
  <2>4. Len(aig.inputs) = Len(file.inputs)
    BY <1>2, <2>2
  <2> QED
    BY <1>2, <2>1, <2>3, <2>4
<1> QED
  BY <1>3, <1>4, BuiltIsBuilding DEF Built, GraphInv

\* Variable u of the file is variable v of the graph the formulas are made of.
Comes(u, v) == IF aig = file THEN u = v ELSE Becomes(u, v)

\* The graph the formulas are made of has the values of the graph in the file.
LEMMA BuiltEvaluation ==
    ASSUME Built, NEW s \in States, NEW in \in Inputs, NEW V, V = Values(file, s, in)
    PROVE  \E W : /\ Evaluates(aig, s, in, W) /\ SameValues(file, aig, V, W)
                  /\ \A v : \A u \in 1 .. file.maxvar : Comes(u, v) => W[v] = V[u]
<1>1. /\ Sound(file) /\ HasResets(file) /\ IsSupported(file)
      /\ \E rank \in [DOMAIN file.ands -> DOMAIN file.ands] : IsGateOrder(file, rank)
  BY BuiltFile, BuiltIsBuilding DEF Built
<1>2. IsSolution(file, s, in, V)
  BY <1>1, ValuesSolve
<1>3. Evaluates(file, s, in, V)
  BY <1>1, <1>2, FileFits, SolutionEvaluates
<1>4. CASE aig = file
  BY <1>3, <1>4 DEF SameValues, Comes
<1>5. CASE IsRecoded(file) /\ aig # file
  <2>1. aig = Recoded(file) /\ CodeInv(file, code, new) /\ RootsCoded(file)
    BY <1>5 DEF IsRecoded
  <2>2. PICK N, W : N = aig.maxvar /\ LastIs(N) /\ W = RecodedValues(file, V, N)
    BY <1>1, <2>1, RecodedLeaves DEF LastIs
  <2>3. Evaluates(aig, s, in, W)
    BY ONLY <1>1, <1>3, <2>1, <2>2, RecodedEvaluates
  <2>4. IsValuation(file, V)
    BY <1>3 DEF Evaluates
  <2>5. SameValues(file, aig, V, W)
    BY ONLY <1>1, <2>1, <2>2, <2>4, RecodedSameValues
  <2>6. ASSUME NEW u \in 1 .. file.maxvar, NEW v, Comes(u, v) PROVE W[v] = V[u]
    <3>1. Becomes(u, v)
      BY <1>5, <2>6 DEF Comes
    <3> QED
      BY ONLY <1>1, <2>1, <2>2, <2>4, <3>1, RecodedValueAt, u \in 1 .. file.maxvar
  <2> QED
    BY <2>3, <2>5, <2>6
<1> QED
  BY <1>4, <1>5, BuiltIsBuilding DEF Built, GraphInv

\* A gate that both formulas have clauses of is a gate of the file that both the next
\* states and the property depend on.
LEMMA SharedGateComes ==
    ASSUME Built, NEW j \in 1 .. Len(aig.ands), NEW v, v = Var(aig.ands[j].lhs),
           v \in Cone(aig, NextLiterals(aig)), v \in Cone(aig, {ErrorLiteral(aig)})
    PROVE  \E u \in SharedGates(file) : u \in 1 .. file.maxvar /\ Comes(u, v)
<1>1. Sound(file) /\ HasResets(file) /\ IsSupported(file) /\ file \in Graphs
  BY BuiltFile, BuiltIsBuilding DEF Built, Sound
<1>2. file.maxvar \in Nat
  BY <1>1, GraphParts
<1>3. CASE aig = file
  <2>1. IsDefinition(file, file.ands[j].lhs) /\ j \in DOMAIN file.ands
    BY <1>1, <1>3, GraphParts DEF Sound, DefinedOnce
  <2>2. v \in 1 .. file.maxvar /\ file.ands[j].lhs = 2 * v
    BY <1>2, <1>3, <2>1, DefinitionIs
  <2>3. IsAnd(file, v)
    BY <2>1, <2>2 DEF IsAnd
  <2> QED
    BY <1>3, <2>2, <2>3 DEF SharedGates, Comes
<1>4. CASE IsRecoded(file) /\ aig # file
  <2>1. aig = Recoded(file) /\ CodeInv(file, code, new) /\ RootsCoded(file)
    BY <1>4 DEF IsRecoded
  <2>2. aig.ands = RecodedAnds(file)
    BY <2>1, RecodedIs
  <2>3. PICK u \in 1 .. file.maxvar : IsAnd(file, u) /\ code[u] # 0 /\ aig.ands[j].lhs = code[u]
    BY <1>1, <2>1, <2>2, RecodedGatesAre
  <2>4. PICK N \in Nat : new = 2 * (N + 1)
    BY <1>1, <2>1, RecodedLeaves
  <2>5. PICK w \in 1 .. N : code[u] = 2 * w
    BY <1>1, <2>1, <2>3, <2>4, GateCodeRange
  <2>6. Becomes(u, v)
    BY <2>3, <2>5, VarOfPositive DEF Becomes
  <2>7. ASSUME NEW l \in NextLiterals(aig)
        PROVE  \E k \in NextLiterals(file) : k \in Nat /\ IsDefined(file, k) /\ HasCode(k) /\ l = Code(k)
    <3>1. PICK i \in DOMAIN aig.latches : l = aig.latches[i].next /\ ~IsConstant(l)
      BY DEF NextLiterals
    <3>2. i \in 1 .. Len(file.latches) /\ i \in DOMAIN file.latches
      BY <3>1, SameShape
    <3>3. PICK k \in Nat : k = file.latches[i].next /\ IsDefined(file, k)
      BY <1>1, <3>2, GraphElements, UsesDefined
    <3>4. HasCode(k)
      BY <1>1, <2>1, <3>2, <3>3, RootsAre DEF RootsCoded
    <3>5. l = Code(k)
      BY <1>1, <2>1, <3>1, <3>2, <3>3, RecodedLatches
    <3>6. ~IsConstant(k)
      BY <1>1, <2>1, <3>1, <3>3, <3>5, CodeOf
    <3> QED
      BY <3>2, <3>3, <3>4, <3>5, <3>6 DEF NextLiterals
  <2>8. ASSUME NEW l \in {ErrorLiteral(aig)}
        PROVE  \E k \in {ErrorLiteral(file)} : k \in Nat /\ IsDefined(file, k) /\ HasCode(k) /\ l = Code(k)
    <3>1. ErrorLiteral(file) \in Nat /\ ErrorLiteral(file) \in Elements(Properties(file))
      BY <1>1, ErrorLiteralIs
    <3>2. IsDefined(file, ErrorLiteral(file))
      BY <1>1, <3>1, UsesDefined
    <3>3. HasCode(ErrorLiteral(file))
      BY <1>1, <2>1, <3>1, RootsAre DEF RootsCoded
    <3> QED
      BY <1>1, <2>1, <3>1, <3>2, <3>3, RecodedErrorLiteral
  <2>9. u \in Cone(file, NextLiterals(file))
    BY <1>1, <2>1, <2>6, <2>7, RecodedCone
  <2>10. u \in Cone(file, {ErrorLiteral(file)})
    BY <1>1, <2>1, <2>6, <2>8, RecodedCone
  <2> QED
    BY <1>4, <2>3, <2>6, <2>9, <2>10 DEF SharedGates, Comes
<1> QED
  BY <1>3, <1>4, BuiltIsBuilding DEF Built, GraphInv

\* The next state and the error of the graph in the file.
Target(s, in) ==
    [x \in Latches |-> x \in DOMAIN file.latches /\ LitValue(Values(file, s, in), file.latches[x].next)]

Fails(s, in) == LitValue(Values(file, s, in), ErrorLiteral(file))

\* A next state of the file is a state.
LEMMA TargetIsState == \A s, in : Target(s, in) \in States
BY DEF Target, States, LitValue

\* A state, inputs, a next state and auxiliary variables are a model of the graph.
LEMMA CompletionIsModel ==
    ASSUME Built, NEW s \in States, NEW in \in Inputs, NEW t \in States, NEW aux \in AuxValuations
    PROVE  IsModel(aig, Model(s, in, t, aux))
<1>1. PICK m : m = Model(s, in, t, aux)
  OBVIOUS
<1>2. m.state = s /\ m.input = in /\ m.next = t /\ m.aux = aux
  BY <1>1 DEF Model
<1>3. \A i \in 1 .. Len(aig.inputs) : in[i] \in BOOLEAN
  BY FileFits, SameShape DEF Fits
<1>4. \A i \in 1 .. Len(aig.latches) : s[i] \in BOOLEAN
  BY FileFits, SameShape DEF Fits
<1>5. \A i \in 1 .. Len(aig.latches) : t[i] \in BOOLEAN
  BY FileFits, SameShape DEF States
<1>6. \A i \in 1 .. Len(aig.ands) : aux[i] \in BOOLEAN
  BY SameShape DEF AuxValuations
<1> QED
  BY <1>1, <1>2, <1>3, <1>4, <1>5, <1>6 DEF IsModel

\* t is among the next states of a model of f.
LEMMA NextModelIs ==
    ASSUME NEW f, NEW s, NEW in, NEW t
    PROVE  t \in NextModels(f, s, in) <=>
                /\ t \in States
                /\ \A x \in Latches \ DOMAIN aig.latches : ~t[x]
                /\ \E aux \in AuxValuations : Sat(Model(s, in, t, aux), f)
BY CnfModelIs DEF NextModels

\* Every model of the transition formula has the next state of the file.
LEMMA TransHasTarget ==
    ASSUME Built, NEW s \in States, NEW in \in Inputs, NEW t \in NextModels(trans, s, in)
    PROVE  t = Target(s, in)
<1>1. PICK aux \in AuxValuations : Sat(Model(s, in, t, aux), trans)
  BY NextModelIs
<1>2. t \in States /\ \A x \in Latches \ DOMAIN aig.latches : ~t[x]
  BY NextModelIs
<1>3. PICK V : V = Values(file, s, in)
  OBVIOUS
<1>4. PICK W : Evaluates(aig, s, in, W) /\ SameValues(file, aig, V, W)
  BY <1>3, BuiltEvaluation
<1>5. PICK m : m = Model(s, in, t, aux)
  OBVIOUS
<1>6. m.state = s /\ m.input = in /\ m.next = t /\ m.aux = aux
  BY <1>5 DEF Model
<1>7. IsModel(aig, m)
  BY <1>1, <1>2, <1>5, CompletionIsModel
<1>8. TransInv /\ Sound(aig) /\ OrderedGates(aig.ands) /\ OperandsBelow(aig.ands)
  BY BuiltIsBuilding, BuiltGates DEF Built
<1>9. ASSUME NEW x \in Latches PROVE t[x] = Target(s, in)[x]
  <2>1. Target(s, in)[x] = (x \in DOMAIN file.latches /\ LitValue(V, file.latches[x].next))
    BY <1>3 DEF Target
  <2>2. t[x] \in BOOLEAN
    BY <1>2 DEF States
  <2>3. CASE x \in DOMAIN file.latches
    <3>1. x \in 1 .. Len(aig.latches) /\ x \in 1 .. Len(file.latches)
      BY <2>3, SameShape
    <3>2. Sat(m, trans) /\ Evaluates(aig, m.state, m.input, W)
      BY <1>1, <1>4, <1>5, <1>6
    <3>3. m.next[x] <=> LitValue(W, aig.latches[x].next)
      BY ONLY <1>7, <1>8, <3>1, <3>2, TransSays
    <3>4. LitValue(W, aig.latches[x].next) = LitValue(V, file.latches[x].next)
      BY <1>4, <3>1 DEF SameValues
    <3> QED
      BY <1>6, <2>1, <2>2, <2>3, <3>3, <3>4
  <2>4. CASE x \notin DOMAIN file.latches
    BY <1>2, <2>1, <2>2, <2>4, SameShape
  <2> QED
    BY <2>3, <2>4
<1> QED
  BY <1>2, <1>9, TargetIsState DEF States

\* An error formula with a model is an error of the file.
LEMMA ErrorHasFailed ==
    ASSUME Built, NEW s \in States, NEW in \in Inputs, NEW t \in NextModels(error, s, in)
    PROVE  Fails(s, in)
<1>1. PICK aux \in AuxValuations : Sat(Model(s, in, t, aux), error)
  BY NextModelIs
<1>2. t \in States
  BY NextModelIs
<1>3. PICK V : V = Values(file, s, in)
  OBVIOUS
<1>4. PICK W : Evaluates(aig, s, in, W) /\ SameValues(file, aig, V, W)
  BY <1>3, BuiltEvaluation
<1>5. PICK m : m = Model(s, in, t, aux)
  OBVIOUS
<1>6. m.state = s /\ m.input = in
  BY <1>5 DEF Model
<1>7. IsModel(aig, m) /\ Sat(m, error) /\ Evaluates(aig, m.state, m.input, W)
  BY <1>1, <1>2, <1>4, <1>5, <1>6, CompletionIsModel
<1>8. /\ ErrorInv /\ Sound(aig) /\ OrderedGates(aig.ands) /\ OperandsBelow(aig.ands)
      /\ ErrorLiteral(aig) \in Nat /\ IsDefined(aig, ErrorLiteral(aig))
  BY BuiltIsBuilding, BuiltGates, BuiltErrorLiteral DEF Built
<1>9. LitValue(W, ErrorLiteral(aig))
  BY ONLY <1>7, <1>8, ErrorSays
<1> QED
  BY <1>3, <1>4, <1>9 DEF SameValues, Fails

\* With the gates of the transition formula evaluated in s and those of the error
\* formula in t, when this agrees on the gates they share, both are satisfied.
LEMMA MixedModel ==
    ASSUME Built, NEW s \in States, NEW t \in States, NEW in \in Inputs,
           NEW P, InCone(P, NextLiterals(aig)), DecideTrans(P),
           NEW Q, InCone(Q, {ErrorLiteral(aig)}), DecideError(Q),
           NEW W, Evaluates(aig, s, in, W), SameValues(file, aig, Values(file, s, in), W),
           NEW X, Evaluates(aig, t, in, X), SameValues(file, aig, Values(file, t, in), X),
           \A j \in P \cap Q : W[Var(aig.ands[j].lhs)] = X[Var(aig.ands[j].lhs)]
    PROVE  \E aux \in AuxValuations :
                /\ Sat(Model(s, in, Target(s, in), aux), trans)
                /\ Fails(t, in) => \A u \in States : Sat(Model(t, in, u, aux), error)
<1>1. PICK aux : aux = [j \in DOMAIN aig.ands |-> IF j \in P THEN W[Var(aig.ands[j].lhs)]
                                                             ELSE X[Var(aig.ands[j].lhs)]]
  OBVIOUS
<1>2. \A j \in DOMAIN aig.ands : W[Var(aig.ands[j].lhs)] \in BOOLEAN /\ X[Var(aig.ands[j].lhs)] \in BOOLEAN
  BY SameShape DEF Evaluates, GateValue
<1>3. aux \in AuxValuations
  BY <1>1, <1>2 DEF AuxValuations
<1>4. P \subseteq DOMAIN aig.ands /\ Q \subseteq DOMAIN aig.ands
  BY SameShape DEF InCone
<1>5. PICK u : u = Target(s, in)
  OBVIOUS
<1>6. u \in States
  BY <1>5, TargetIsState
<1>7. Sat(Model(s, in, u, aux), trans)
  <2>1. PICK m : m = Model(s, in, u, aux)
    OBVIOUS
  <2>2. m.state = s /\ m.input = in /\ m.next = u /\ m.aux = aux
    BY <2>1 DEF Model
  <2>3. IsModel(aig, m)
    BY <1>3, <1>6, <2>1, CompletionIsModel
  <2>4. IsEvaluation(aig, m, W, P)
    BY <1>1, <1>4, <2>2 DEF IsEvaluation
  <2>5. ASSUME NEW i \in 1 .. Len(aig.latches) PROVE m.next[i] <=> LitValue(W, aig.latches[i].next)
    <3>1. i \in DOMAIN file.latches /\ i \in 1 .. Len(file.latches) /\ i \in Latches
      BY SameShape, FileFits
    <3>2. u[i] = LitValue(Values(file, s, in), file.latches[i].next)
      BY <1>5, <3>1 DEF Target, LitValue
    <3>3. LitValue(W, aig.latches[i].next) = LitValue(Values(file, s, in), file.latches[i].next)
      BY <3>1 DEF SameValues
    <3> QED
      BY <2>2, <3>2, <3>3
  <2> QED
    BY <2>1, <2>2, <2>3, <2>4, <2>5 DEF DecideTrans
<1>8. ASSUME Fails(t, in), NEW w \in States PROVE Sat(Model(t, in, w, aux), error)
  <2>1. PICK m : m = Model(t, in, w, aux)
    OBVIOUS
  <2>2. m.state = t /\ m.input = in /\ m.aux = aux
    BY <2>1 DEF Model
  <2>3. IsModel(aig, m)
    BY <1>3, <2>1, CompletionIsModel
  <2>4. IsEvaluation(aig, m, X, Q)
    BY <1>1, <1>4, <2>2 DEF IsEvaluation
  <2>5. LitValue(X, ErrorLiteral(aig))
    BY <1>8 DEF Fails, SameValues
  <2> QED
    BY <2>1, <2>2, <2>3, <2>4, <2>5 DEF DecideError
<1> QED
  BY <1>3, <1>5, <1>7, <1>8

\* Both formulas can be satisfied by the evaluations of the gates they have.
LEMMA BothDecided ==
    ASSUME Built
    PROVE  \E P, Q : /\ InCone(P, NextLiterals(aig)) /\ DecideTrans(P)
                     /\ InCone(Q, {ErrorLiteral(aig)}) /\ DecideError(Q)
<1>1. /\ TransInv /\ ErrorInv /\ Sound(aig)
      /\ ErrorLiteral(aig) \in Nat /\ IsDefined(aig, ErrorLiteral(aig))
  BY BuiltIsBuilding, BuiltGates, BuiltErrorLiteral DEF Built
<1> QED
  BY <1>1, TransDecided, ErrorDecided

\* The values of the file are a model of the transition formula, and of the
\* error formula if they are an error.
LEMMA TargetIsModel ==
    ASSUME Built, NEW s \in States, NEW in \in Inputs
    PROVE  \E aux \in AuxValuations :
                /\ Sat(Model(s, in, Target(s, in), aux), trans)
                /\ Fails(s, in) => Sat(Model(s, in, Target(s, in), aux), error)
<1>1. PICK W : Evaluates(aig, s, in, W) /\ SameValues(file, aig, Values(file, s, in), W)
  BY BuiltEvaluation
<1>2. PICK P, Q : /\ InCone(P, NextLiterals(aig)) /\ DecideTrans(P)
                  /\ InCone(Q, {ErrorLiteral(aig)}) /\ DecideError(Q)
  BY BothDecided
<1>3. PICK aux \in AuxValuations :
            /\ Sat(Model(s, in, Target(s, in), aux), trans)
            /\ Fails(s, in) => \A u \in States : Sat(Model(s, in, u, aux), error)
  BY <1>1, <1>2, MixedModel
<1> QED
  BY <1>3, TargetIsState

\* The models of the formulas, in the terms of the graph in the file.
LEMMA ModelsAre ==
    ASSUME Built, NEW s \in States, NEW in \in Inputs
    PROVE  /\ NextModels(trans, s, in) = {Target(s, in)}
           /\ NextModels(error, s, in) # {} <=> Fails(s, in)
           /\ NextModels(trans \cup error, s, in) = IF Fails(s, in) THEN {Target(s, in)} ELSE {}
<1>1. PICK t : t = Target(s, in)
  OBVIOUS
<1>2. t \in States /\ \A x \in Latches \ DOMAIN aig.latches : ~t[x]
  BY <1>1, TargetIsState, SameShape DEF Target
<1>3. PICK aux \in AuxValuations : /\ Sat(Model(s, in, t, aux), trans)
                                   /\ Fails(s, in) => Sat(Model(s, in, t, aux), error)
  BY <1>1, TargetIsModel
<1>4. t \in NextModels(trans, s, in)
  BY <1>2, <1>3, NextModelIs
<1>5. Fails(s, in) => t \in NextModels(error, s, in) /\ t \in NextModels(trans \cup error, s, in)
  BY <1>2, <1>3, NextModelIs, SatUnion
<1>6. ASSUME NEW u \in NextModels(trans \cup error, s, in)
      PROVE  u \in NextModels(trans, s, in) /\ u \in NextModels(error, s, in)
  BY NextModelIs, SatUnion
<1>7. \A u \in NextModels(trans, s, in) : u = t
  BY <1>1, TransHasTarget
<1>8. \A u \in NextModels(error, s, in) : Fails(s, in)
  BY ErrorHasFailed
<1> QED
  BY <1>1, <1>4, <1>5, <1>6, <1>7, <1>8

-----------------------------------------------------------------------------
(* The initial states, and the theorem.                                    *)

\* Reencoding keeps the constant resets, and makes no other reset constant.
LEMMA SameResets ==
    ASSUME Built, NEW i \in 1 .. Len(file.latches)
    PROVE  /\ IsConstant(aig.latches[i].reset) <=> IsConstant(file.latches[i].reset)
           /\ IsConstant(file.latches[i].reset) => /\ aig.latches[i].reset = file.latches[i].reset
                                                   /\ file.latches[i].reset \in {0, 1}
<1>1. Sound(file) /\ HasResets(file) /\ DOMAIN file.latches = 1 .. Len(file.latches)
  BY BuiltFile, BuiltIsBuilding, SameShape DEF Built
<1>2. file.latches[i].reset \in Nat
  BY <1>1, GraphElements DEF Sound
<1>3. IsConstant(file.latches[i].reset) => file.latches[i].reset \in {0, 1}
  BY <1>2 DEF IsConstant
<1>4. CASE aig = file
  BY <1>3, <1>4
<1>5. CASE IsRecoded(file)
  <2>1. /\ IsConstant(file.latches[i].reset) => aig.latches[i].reset = file.latches[i].reset
        /\ ~IsConstant(file.latches[i].reset) => aig.latches[i].reset = aig.latches[i].lit
        /\ ~IsConstant(aig.latches[i].lit)
    BY <1>1, <1>5, RecodedLatches DEF IsRecoded
  <2> QED
    BY <1>3, <2>1
<1> QED
  BY <1>4, <1>5, BuiltIsBuilding DEF Built, GraphInv

\* The unit clause of latch i with value b.
ResetClause(i, b) == {<<<<"state", i>>, b>>}

Resets == {j \in 1 .. Len(file.latches) : IsConstant(file.latches[j].reset)}

\* The clauses of the initial states are the constant resets in the file.
LEMMA ResetsAre ==
    ASSUME Built
    PROVE  /\ init = {ResetClause(i, file.latches[i].reset = 1) : i \in Resets}
           /\ Circuit(file).init = {<<i, file.latches[i].reset = 1>> : i \in Resets}
<1>1. init = {ResetClause(i, aig.latches[i].reset # 0)
                : i \in {j \in DOMAIN aig.latches : IsConstant(aig.latches[j].reset)}}
  BY BuiltIsBuilding DEF ResetClauses, ResetClause
<1>2. {j \in DOMAIN aig.latches : IsConstant(aig.latches[j].reset)} = Resets
  BY SameShape, SameResets DEF Resets
<1>3. ASSUME NEW i \in Resets PROVE (aig.latches[i].reset # 0) = (file.latches[i].reset = 1)
  BY SameResets DEF Resets
<1>4. {ResetClause(i, aig.latches[i].reset # 0) : i \in Resets}
        = {ResetClause(i, file.latches[i].reset = 1) : i \in Resets}
  BY <1>3
<1>5. Circuit(file).init = {<<i, file.latches[i].reset = 1>> : i \in Resets}
  BY SameShape DEF Circuit, Resets
<1> QED
  BY <1>1, <1>2, <1>4, <1>5

\* The initial cube the engines are given is that of the circuit in the file.
LEMMA EncodedInit ==
    ASSUME Built
    PROVE  {<<l[1][2], l[2]>> : l \in UNION init} = Circuit(file).init
<1>1. UNION init = {<<<<"state", i>>, file.latches[i].reset = 1>> : i \in Resets}
  <2>1. init = {{<<<<"state", i>>, file.latches[i].reset = 1>>} : i \in Resets}
    BY ResetsAre, Zenon DEF ResetClause
  <2> DEFINE unit(i) == <<<<"state", i>>, file.latches[i].reset = 1>>
  <2>2. init = {{unit(i)} : i \in Resets}
    BY <2>1, Zenon
  <2> HIDE DEF unit
  <2>3. UNION init = {unit(i) : i \in Resets}
    BY <2>2
  <2> QED
    BY <2>3, Zenon DEF unit
<1>2. {<<l[1][2], l[2]>> : l \in UNION init} = {<<i, file.latches[i].reset = 1>> : i \in Resets}
  <2>1. ASSUME NEW i \in Resets
        PROVE  <<<<"state", i>>, file.latches[i].reset = 1>> \in UNION init
    BY <1>1
  <2>2. ASSUME NEW l \in UNION init
        PROVE  \E i \in Resets : <<l[1][2], l[2]>> = <<i, file.latches[i].reset = 1>>
    <3>1. PICK i \in Resets : l = <<<<"state", i>>, file.latches[i].reset = 1>>
      BY <1>1
    <3>2. l[1] = <<"state", i>> /\ l[2] = (file.latches[i].reset = 1)
      BY <3>1
    <3>3. l[1][2] = i
      BY <3>2
    <3> QED
      BY <3>2, <3>3
  <2>3. ASSUME NEW i \in Resets
        PROVE  \E l \in UNION init : <<l[1][2], l[2]>> = <<i, file.latches[i].reset = 1>>
    BY <2>1
  <2> QED
    BY <2>2, <2>3
<1> QED
  BY <1>2, ResetsAre

\* The next states and the errors of the circuit, by the values of its variables.
LEMMA CircuitIs ==
    ASSUME NEW s \in States, NEW in \in Inputs
    PROVE  /\ NextState(Circuit(file), s, in) = Target(s, in)
           /\ <<s, in>> \in Circuit(file).error <=> Fails(s, in)
<1>1. Circuit(file).next = [si \in States \X Inputs |-> Target(si[1], si[2])]
  BY DEF Circuit, Target
<1>2. Circuit(file).error = {si \in States \X Inputs : Fails(si[1], si[2])}
  BY DEF Circuit, Fails
<1> QED
  BY <1>1, <1>2 DEF NextState

\* The system the engines are given is the circuit in the file.
LEMMA EncodedIsCircuit ==
    ASSUME Built
    PROVE  Encoded = Circuit(file)
<1>1. ASSUME NEW si \in States \X Inputs
      PROVE  /\ (CHOOSE t \in NextModels(trans, si[1], si[2]) : TRUE) = Target(si[1], si[2])
             /\ NextModels(error, si[1], si[2]) # {} <=> Fails(si[1], si[2])
  <2>1. si[1] \in States /\ si[2] \in Inputs
    OBVIOUS
  <2>2. NextModels(trans, si[1], si[2]) = {Target(si[1], si[2])}
    BY <2>1, ModelsAre
  <2> QED
    BY <2>1, <2>2, ModelsAre
<1>2. [si \in States \X Inputs |-> CHOOSE t \in NextModels(trans, si[1], si[2]) : TRUE] = Circuit(file).next
  <2>1. Circuit(file).next = [si \in States \X Inputs |-> Target(si[1], si[2])]
    BY DEF Circuit, Target
  <2> QED
    BY <1>1, <2>1
<1>3. {si \in States \X Inputs : NextModels(error, si[1], si[2]) # {}} = Circuit(file).error
  <2>1. Circuit(file).error = {si \in States \X Inputs : Fails(si[1], si[2])}
    BY DEF Circuit, Fails
  <2> QED
    BY <1>1, <2>1
<1>4. Encoded = [init |-> Circuit(file).init, next |-> Circuit(file).next, error |-> Circuit(file).error]
  BY <1>2, <1>3, EncodedInit DEF Encoded
<1> QED
  BY <1>4 DEF Circuit

\* A step of the circuit into an error is a last step of the reversed system if its
\* inputs trigger the error and it keeps the gates that the formulas share.
LEMMA SteadyIsLast == Built => SteadySteps(file) \subseteq LastSteps
<1> SUFFICES ASSUME Built, NEW si \in SteadySteps(file) PROVE si \in LastSteps
  OBVIOUS
<1>1. PICK s \in States, in \in Inputs : si = <<s, in>>
  BY DEF SteadySteps
<1>t. PICK t : t = NextState(Circuit(file), s, in)
  OBVIOUS
<1>2. /\ <<t, in>> \in Circuit(file).error
      /\ \A v \in SharedGates(file) : Values(file, t, in)[v] = Values(file, s, in)[v]
  BY <1>1, <1>t DEF SteadySteps
<1>3. t = Target(s, in) /\ t \in States
  BY <1>t, CircuitIs, TargetIsState
<1>4. Fails(t, in)
  BY <1>2, <1>3, CircuitIs
<1>5. PICK W : /\ Evaluates(aig, s, in, W) /\ SameValues(file, aig, Values(file, s, in), W)
               /\ \A v : \A u \in 1 .. file.maxvar : Comes(u, v) => W[v] = Values(file, s, in)[u]
  BY BuiltEvaluation
<1>6. PICK X : /\ Evaluates(aig, t, in, X) /\ SameValues(file, aig, Values(file, t, in), X)
               /\ \A v : \A u \in 1 .. file.maxvar : Comes(u, v) => X[v] = Values(file, t, in)[u]
  BY <1>3, BuiltEvaluation
<1>7. PICK P, Q : /\ InCone(P, NextLiterals(aig)) /\ DecideTrans(P)
                  /\ InCone(Q, {ErrorLiteral(aig)}) /\ DecideError(Q)
  BY BothDecided
<1>8. ASSUME NEW j \in P \cap Q PROVE W[Var(aig.ands[j].lhs)] = X[Var(aig.ands[j].lhs)]
  <2>1. PICK v : v = Var(aig.ands[j].lhs)
    OBVIOUS
  <2>2. /\ j \in 1 .. Len(aig.ands)
        /\ v \in Cone(aig, NextLiterals(aig)) /\ v \in Cone(aig, {ErrorLiteral(aig)})
    BY <1>7, <2>1 DEF InCone
  <2>3. PICK u \in SharedGates(file) : u \in 1 .. file.maxvar /\ Comes(u, v)
    BY <2>1, <2>2, SharedGateComes
  <2> QED
    BY <1>2, <1>5, <1>6, <2>1, <2>3
<1>9. PICK aux \in AuxValuations :
            /\ Sat(Model(s, in, t, aux), trans)
            /\ \A u \in States : Sat(Model(t, in, u, aux), error)
  BY <1>3, <1>4, <1>5, <1>6, <1>7, <1>8, MixedModel
<1>10. IsCnfModel(trans, s, in, t, aux) /\ IsCnfModel(error, t, in, t, aux)
  BY <1>3, <1>9, CnfModelIs
<1>11. \A x \in Latches \ DOMAIN aig.latches : ~t[x]
  BY <1>3, SameShape DEF Target
<1> QED
  BY <1>1, <1>3, <1>10, <1>11 DEF LastSteps

\* A last step of the reversed system leads to an error of the circuit under the
\* inputs of the step.
LEMMA LastIsError ==
    ASSUME Built, NEW s \in States, NEW in \in Inputs, <<s, in>> \in LastSteps
    PROVE  <<NextState(Circuit(file), s, in), in>> \in Circuit(file).error
<1>1. PICK t \in States, aux \in AuxValuations :
            /\ \A x \in Latches \ DOMAIN aig.latches : ~t[x]
            /\ IsCnfModel(trans, s, in, t, aux)
            /\ IsCnfModel(error, t, in, t, aux)
  BY DEF LastSteps
<1>2. t \in NextModels(trans, s, in) /\ t \in NextModels(error, t, in)
  BY <1>1 DEF NextModels
<1>3. t = NextState(Circuit(file), s, in)
  <2>1. t = Target(s, in)
    BY <1>2, TransHasTarget
  <2> QED
    BY <2>1, CircuitIs
<1>4. Fails(t, in)
  BY <1>2, ErrorHasFailed
<1>5. <<t, in>> \in Circuit(file).error
  BY <1>4, CircuitIs
<1> QED
  BY ONLY <1>3, <1>5

\* The formulas are exact once they have been built.
LEMMA BuiltIsExact ==
    ASSUME Built
    PROVE  EncodingIsExact
<1>1. ASSUME NEW c \in init PROVE \E i \in DOMAIN aig.latches, b \in BOOLEAN : c = {<<<<"state", i>>, b>>}
  <2>1. PICK i \in Resets : c = ResetClause(i, file.latches[i].reset = 1)
    BY ResetsAre
  <2>2. i \in DOMAIN aig.latches /\ (file.latches[i].reset = 1) \in BOOLEAN
    BY SameShape DEF Resets
  <2> QED
    BY <2>1, <2>2 DEF ResetClause
<1>2. ASSUME NEW s \in States, NEW in \in Inputs
      PROVE  /\ NextModels(trans, s, in) = {NextState(Circuit(file), s, in)}
             /\ NextModels(trans \cup error, s, in) =
                    IF <<s, in>> \in Circuit(file).error THEN {NextState(Circuit(file), s, in)} ELSE {}
  BY ModelsAre, CircuitIs
<1> QED
  BY <1>1, <1>2, EncodedIsCircuit DEF EncodingIsExact

\* What the builder keeps true of the formulas: a pass of clausify_subgraph has the
\* clauses of the gates it has visited and that its roots depend on, and none that
\* is not a gate's, and what it has finished stays as it is.
THEOREM FormulaInvariant == Spec => [](FormulaInv /\ FileInv)
<1>1. Init => FormulaInv /\ FileInv
  BY InitFormulaInv DEF Init, FileInv
<1>2. FormulaInv /\ FileInv /\ AigerInv /\ ProgramInv /\ StageInv /\ [Next]_vars => FormulaInv' /\ FileInv'
  BY NextFormulaInv, NextFileInv DEF ProgramInv
<1> QED
  BY <1>1, <1>2, AigerInvariant, ProgramInvariant, CommandInvariant, PTL DEF Spec, SafetySpec

\* For every file and all states and inputs, the formulas that build_init,
\* build_trans and build_error make have the models that the evaluation of the
\* circuit in the file gives them: aiger_reencode may renumber it, swap the
\* operands of its gates, sort them and drop those it does not reach, and
\* clausify_subgraph leaves out the gates the roots do not depend on, but each
\* state keeps its one next state under each input, and its error.
THEOREM FormulasAreExact == Spec => []EncodingIsExact
<1>1. FormulaInv /\ FileInv /\ AigerInv /\ ProgramInv /\ StageInv => EncodingIsExact
  <2> SUFFICES ASSUME FormulaInv, FileInv, AigerInv, ProgramInv, StageInv, pc = "built" PROVE EncodingIsExact
    BY DEF EncodingIsExact
  <2> QED
    BY BuiltIsExact DEF Built, ProgramInv
<1> QED
  BY <1>1, FormulaInvariant, AigerInvariant, ProgramInvariant, CommandInvariant, PTL

-----------------------------------------------------------------------------
(* Executions of the circuit depend on its latches and inputs only.        *)

\* s and t agree on the latches of g, ins and jns on its inputs.
SameLatches(g, s, t) == \A i \in DOMAIN g.latches : s[i] = t[i]
SameInputs(g, in, jn) == \A i \in DOMAIN g.inputs : in[i] = jn[i]

\* The values of a graph are a function of its latches and inputs.
LEMMA ValuesAgree ==
    ASSUME NEW g, NEW s, NEW t, SameLatches(g, s, t), NEW in, NEW jn, SameInputs(g, in, jn)
    PROVE  Values(g, s, in) = Values(g, t, jn)
<1>1. \A v : LeafValue(g, s, in, v) = LeafValue(g, t, jn, v)
  BY DEF LeafValue, SameLatches, SameInputs
<1>2. \A f, v : Equation(g, s, in, f, v) = Equation(g, t, jn, f, v)
  BY <1>1, Zenon DEF Equation
<1>3. \A f : IsSolution(g, s, in, f) <=> IsSolution(g, t, jn, f)
  <2> TAKE f
  <2>1. [v \in 0 .. g.maxvar |-> Equation(g, s, in, f, v)] = [v \in 0 .. g.maxvar |-> Equation(g, t, jn, f, v)]
    BY <1>2, Zenon
  <2> QED
    BY <2>1, Zenon DEF IsSolution
<1>4. Values(g, s, in) = CHOOSE f : IsSolution(g, s, in, f)
  BY Zenon DEF Values, IsSolution, Equation, LeafValue, GateValue, LitValue
<1>5. Values(g, t, jn) = CHOOSE f : IsSolution(g, t, jn, f)
  BY Zenon DEF Values, IsSolution, Equation, LeafValue, GateValue, LitValue
<1>6. (CHOOSE f : IsSolution(g, s, in, f)) = (CHOOSE f : IsSolution(g, t, jn, f))
  BY <1>3, Zenon
<1> QED
  BY <1>4, <1>5, <1>6, Zenon

\* Inputs that agree on the inputs of the file lead from states that agree on its
\* latches to such states.
LEMMA RunsStayTogether ==
    ASSUME NEW s \in States, NEW t \in States, SameLatches(file, s, t), NEW n \in Nat, n >= 1,
           NEW ins \in [1 .. n -> Inputs], NEW jns \in [1 .. n -> Inputs],
           \A k \in 1 .. n : SameInputs(file, ins[k], jns[k]), NEW sys, sys = Circuit(file)
    PROVE  /\ StateAt(sys, s, ins, n) \in States /\ StateAt(sys, t, jns, n) \in States
           /\ SameLatches(file, StateAt(sys, s, ins, n), StateAt(sys, t, jns, n))
<1>1. Len(ins) = n /\ Len(jns) = n
  BY FunctionIsSequence
<1> DEFINE A(k) == StateAt(sys, s, ins, k)
           B(k) == StateAt(sys, t, jns, k)
           T == {k \in Nat : k + 1 <= n =>
                    A(k + 1) \in States /\ B(k + 1) \in States /\ SameLatches(file, A(k + 1), B(k + 1))}
<1>2. 0 \in T
  <2>1. A(1) = s /\ B(1) = t
    BY <1>1, RunStarts
  <2> QED
    BY <2>1
<1>3. ASSUME NEW k \in Nat, k \in T PROVE k + 1 \in T
  <2> SUFFICES ASSUME k + 2 <= n
               PROVE  A(k + 2) \in States /\ B(k + 2) \in States /\ SameLatches(file, A(k + 2), B(k + 2))
    OBVIOUS
  <2>1. k + 1 \in 1 .. n /\ k + 2 \in 1 .. n /\ k + 2 = (k + 1) + 1
    OBVIOUS
  <2>2. PICK a, b : a = A(k + 1) /\ b = B(k + 1)
    OBVIOUS
  <2>3. a \in States /\ b \in States /\ SameLatches(file, a, b)
    BY <1>3, <2>1, <2>2
  <2>p. PICK i \in 1 .. n, j \in 1 .. n : i = k + 1 /\ j = k + 2 /\ j = i + 1
    BY <2>1
  <2>4. A(k + 2) = NextState(sys, a, ins[k + 1])
    <3>1. Len(ins) \in Nat /\ i \in 1 .. Len(ins) /\ j \in 1 .. Len(ins) /\ j = i + 1
      BY <1>1, <2>p
    <3>2. StateAt(sys, s, ins, j) = NextState(sys, StateAt(sys, s, ins, i), ins[i])
      BY ONLY <3>1, RunContinues
    <3> QED
      BY <2>2, <2>p, <3>2
  <2>5. B(k + 2) = NextState(sys, b, jns[k + 1])
    <3>1. Len(jns) \in Nat /\ i \in 1 .. Len(jns) /\ j \in 1 .. Len(jns) /\ j = i + 1
      BY <1>1, <2>p
    <3>2. StateAt(sys, t, jns, j) = NextState(sys, StateAt(sys, t, jns, i), jns[i])
      BY ONLY <3>1, RunContinues
    <3> QED
      BY <2>2, <2>p, <3>2
  <2>6. ins[k + 1] \in Inputs /\ jns[k + 1] \in Inputs /\ SameInputs(file, ins[k + 1], jns[k + 1])
    BY <2>1
  <2>7. Values(file, a, ins[k + 1]) = Values(file, b, jns[k + 1])
    BY <2>3, <2>6, ValuesAgree
  <2>8. Target(a, ins[k + 1]) = Target(b, jns[k + 1])
    BY <2>7 DEF Target
  <2>9. A(k + 2) = Target(a, ins[k + 1]) /\ B(k + 2) = Target(b, jns[k + 1])
    BY <2>3, <2>4, <2>5, <2>6, CircuitIs
  <2> QED
    BY <2>8, <2>9, TargetIsState DEF SameLatches
<1>4. n - 1 \in T
  <2>1. Nat \subseteq T
    <3> HIDE DEF T
    <3> QED
      BY <1>2, <1>3, SetInduction
  <2> QED
    BY <2>1
<1> QED
  BY <1>4

\* Inputs that agree on the inputs of the file reach an error from states that
\* agree on its latches together.
LEMMA ErrorsAgree ==
    ASSUME NEW s \in States, NEW t \in States, SameLatches(file, s, t), NEW n \in Nat, n >= 1,
           NEW ins \in [1 .. n -> Inputs], NEW jns \in [1 .. n -> Inputs],
           \A k \in 1 .. n : SameInputs(file, ins[k], jns[k]), ReachesError(Circuit(file), s, ins)
    PROVE  ReachesError(Circuit(file), t, jns)
<1>1. Len(ins) = n /\ Len(jns) = n /\ jns \in Seq(Inputs)
  BY FunctionIsSequence
<1>2. PICK sys : sys = Circuit(file)
  OBVIOUS
<1>3. PICK a, b : a = StateAt(sys, s, ins, n) /\ b = StateAt(sys, t, jns, n)
  OBVIOUS
<1>4. a \in States /\ b \in States /\ SameLatches(file, a, b)
  BY <1>2, <1>3, RunsStayTogether
<1>5. ins[n] \in Inputs /\ jns[n] \in Inputs /\ SameInputs(file, ins[n], jns[n])
  OBVIOUS
<1>6. <<a, ins[n]>> \in sys.error
  BY <1>1, <1>2, <1>3 DEF ReachesError
<1>7. Fails(b, jns[n])
  <2>1. Fails(a, ins[n])
    BY <1>2, <1>4, <1>5, <1>6, CircuitIs
  <2>2. Values(file, a, ins[n]) = Values(file, b, jns[n])
    BY <1>4, <1>5, ValuesAgree
  <2> QED
    BY <2>1, <2>2 DEF Fails
<1>8. <<b, jns[n]>> \in sys.error
  BY <1>2, <1>4, <1>5, <1>7, CircuitIs
<1>9. jns # <<>>
  BY <1>1
<1> QED
  BY <1>1, <1>2, <1>3, <1>8, <1>9 DEF ReachesError

-----------------------------------------------------------------------------
(* What is known of the engine, its result, and what is printed.           *)

\* PDR and forward CAR may report a state in which latches that reset to one are
\* false.
MayStart(s) ==
    \A l \in Circuit(file).init : s[l[1]] = l[2] \/ (l[2] /\ engine.kind \in {"pdr", "forward_car"})

\* The counterexample reaches the error of the circuit in the file.
CexInv ==
    \E s \in States, ins \in InputSequences :
        /\ MayStart(s)
        /\ ReachesError(Circuit(file), s, ins)
        /\ \A k \in DOMAIN ins : Fits(file, s, ins[k])
        /\ cex = [ initial |-> Valuation("state", s, Len(file.latches)),
                   inputs  |-> [k \in DOMAIN ins |-> Valuation("input", ins[k], Len(file.inputs))] ]

\* No execution up to the bound on the command line has an error.
NoneInBound ==
    ~\E s \in States, ins \in InputSequences :
        /\ Holds(Circuit(file).init, s)
        /\ ReachesError(Circuit(file), s, ins)
        /\ Len(ins) - 1 <= GivenBound

\* What ok says of the circuit in the file.
OkInv ==
    /\ engine.kind \in {"pdr", "forward_car"} => Safe(Circuit(file))
    /\ engine.kind = "backward_car" => ReversedSafe(Circuit(file), SteadySteps(file))

\* What the result of an engine says is true of the circuit in the file.
ResultInv ==
    /\ result = "ok" => OkInv
    /\ result = "counterexample" => CexInv
    /\ result = "unknown" => NoneInBound

\* What write_aiger_witness prints of the result.
Printed ==
    [ status |-> Status[result],
      rows   |-> IF result # "counterexample" THEN <<>>
                 ELSE <<Row(cex.initial)>> \o [k \in DOMAIN cex.inputs |-> Row(cex.inputs[k])] ]

HasEngine == pc \in {"context", "reencode"} \/ Building

AnswerInv ==
    /\ pc \notin {"help", "parse", "exit"} => ValueOr(options, "-k", MaxInt) = GivenBound
    /\ HasEngine =>
            engine.bound = GivenBound /\ engine.kind \in {"bmc", "pdr", "forward_car", "backward_car"}
    /\ pc \notin {"witness", "exit"} => result = "none"
    /\ pc = "witness" => result \in {"ok", "counterexample", "unknown"}
    /\ pc # "exit" => exit = NoExit
    /\ exit.message = "witness" => result \in {"ok", "counterexample", "unknown"} /\ witness = Printed
    /\ ResultInv

\* There is no answer at first.
LEMMA InitAnswerInv == Init => AnswerInv
BY DEF Init, NoExit, AnswerInv, ResultInv, HasEngine, Building

\* The parts of the invariant depend on the variables that are named here.
LEMMA AnswerStays ==
    ASSUME UNCHANGED <<args, file, result, cex>>
    PROVE  /\ GivenBound' = GivenBound
           /\ UNCHANGED engine => (ResultInv => ResultInv')
           /\ Printed' = Printed
<1>1. GivenBound' = GivenBound
  BY DEF GivenBound
<1>2. UNCHANGED engine => CexInv' = CexInv /\ OkInv' = OkInv
  BY DEF CexInv, MayStart, OkInv
<1>3. NoneInBound' = NoneInBound
  BY <1>1 DEF NoneInBound
<1>4. Printed' = Printed
  BY DEF Printed
<1> QED
  BY <1>1, <1>2, <1>3, <1>4 DEF ResultInv

\* A step that leaves the options, the engine and its result alone.
LEMMA InnerAnswer ==
    ASSUME AnswerInv, UNCHANGED <<args, file, options, engine, result, cex, witness, exit>>,
           pc' \in {"help", "parse", "exit"} \/ pc \notin {"help", "parse", "exit"},
           HasEngine' => HasEngine,
           pc' = pc \/ (pc \notin {"witness", "exit"} /\ pc' \notin {"witness", "exit"})
    PROVE  AnswerInv'
<1>1. GivenBound' = GivenBound /\ (ResultInv => ResultInv') /\ Printed' = Printed
  BY AnswerStays
<1>2. (ValueOr(options, "-k", MaxInt))' = ValueOr(options, "-k", MaxInt)
  OBVIOUS
<1> QED
  BY <1>1, <1>2 DEF AnswerInv

\* A step that ends the program with an error.
LEMMA ExitAnswer ==
    ASSUME AnswerInv, UNCHANGED <<args, file, engine, result, cex>>, pc' = "exit", exit'.message # "witness"
    PROVE  AnswerInv'
<1>1. ResultInv'
  BY AnswerStays DEF AnswerInv
<1> QED
  BY <1>1 DEF AnswerInv, HasEngine, Building

\* parse_cli keeps the first value of -k, or none.
LEMMA FinishParseAnswer ==
    ASSUME AnswerInv, CommandInv, FinishParse
    PROVE  AnswerInv'
<1>1. /\ pc = "parse" /\ pc' = "open" /\ UNCHANGED <<args, file, engine, result, cex, witness, exit>>
      /\ arg = Len(args)
      /\ options'.other = [k \in OtherKeys |-> IF opts[k] = <<>> THEN <<>> ELSE <<Numerals[opts[k][1]]>>]
  BY DEF FinishParse, translation, library, outcome
<1>2. GivenBound' = GivenBound /\ ResultInv' /\ Printed' = Printed
  BY <1>1, AnswerStays DEF AnswerInv
<1>3. PICK o : o = options'
  OBVIOUS
<1>4. ValueOr(o, "-k", MaxInt) = GivenBound
  <2>1. "-k" \in OtherKeys <=> "-k" \in DOMAIN opts
    BY DEF OtherKeys, Reserved
  <2>2. DOMAIN args = 1 .. Len(args)
    <3>1. PICK K : K = [key : STRING, value : Seq(STRING)]
      OBVIOUS
    <3>2. args \in Seq(K)
      BY <3>1 DEF CommandInv, IsCommandLine
    <3> QED
      BY ONLY <3>2, LengthOf
  <2>3. CASE "-k" \in DOMAIN opts
    <3>1. PICK v : v = opts["-k"]
      OBVIOUS
    <3>2. v = FirstOf(args, "-k")
      BY <2>3, <3>1 DEF CommandInv, OptsInv
    <3>3. o.other["-k"] = IF v = <<>> THEN <<>> ELSE <<Numerals[v[1]]>>
      BY <1>1, <1>3, <2>1, <2>3, <3>1
    <3>4. "-k" \in DOMAIN o.other
      BY <1>1, <1>3, <2>1, <2>3
    <3>5. GivenBound = IF v = <<>> THEN MaxInt ELSE Numerals[v[1]]
      BY <3>2 DEF GivenBound
    <3> QED
      BY <3>3, <3>4, <3>5 DEF ValueOr
  <2>4. CASE "-k" \notin DOMAIN opts
    <3>1. ~\E i \in DOMAIN args : args[i].key = "-k"
      BY <1>1, <2>2, <2>4 DEF CommandInv, OptsInv
    <3>2. FirstOf(args, "-k") = <<>>
      BY <3>1 DEF FirstOf
    <3>3. "-k" \notin DOMAIN o.other
      BY <1>1, <1>3, <2>1, <2>4
    <3> QED
      BY <3>2, <3>3 DEF ValueOr, GivenBound
  <2> QED
    BY <2>3, <2>4
<1> QED
  BY <1>1, <1>2, <1>3, <1>4 DEF AnswerInv, HasEngine, Building

\* get_engine makes one of the engines, and gives BMC the bound of the options.
LEMMA GetEngineAnswer ==
    ASSUME AnswerInv, GetEngine
    PROVE  AnswerInv'
<1>1. /\ pc = "cycles" /\ pc' = "context" /\ UNCHANGED <<args, file, options, result, cex, witness, exit>>
      /\ engine'.bound = ValueOr(options, "-k", MaxInt)
      /\ engine'.kind = EngineKind(options.engine) /\ EngineKind(options.engine) # "none"
  BY DEF GetEngine, Acyclic, commandLine, translation, library
<1>2. GivenBound' = GivenBound /\ Printed' = Printed
  BY <1>1, AnswerStays
<1>r. ResultInv'
  <2>1. result' = "none"
    BY <1>1 DEF AnswerInv
  <2> QED
    BY <2>1 DEF ResultInv
<1>k. engine'.kind \in {"bmc", "pdr", "forward_car", "backward_car"}
  BY <1>1 DEF EngineKind
<1>3. (ValueOr(options, "-k", MaxInt))' = ValueOr(options, "-k", MaxInt)
  BY <1>1
<1> QED
  BY <1>1, <1>2, <1>r, <1>k, <1>3 DEF AnswerInv

\* The initial cube of a circuit gives values to latches.
LEMMA InitIs ==
    ASSUME NEW g, NEW l \in Circuit(g).init
    PROVE  l[1] \in DOMAIN g.latches /\ l[2] \in BOOLEAN
<1>1. PICK i \in DOMAIN g.latches : l = <<i, g.latches[i].reset = 1>>
  BY DEF Circuit
<1> QED
  BY <1>1

\* Every state of a cube that get_vars reads a state out of is a counterexample: so is
\* that state, but a latch the cube does not mention may reset to one.
LEMMA GeneralizedStart ==
    ASSUME Built, NEW s \in States, NEW ins, GeneralizedRun(Circuit(file), s, ins),
           engine.kind \in {"pdr", "forward_car"}
    PROVE  MayStart(s) /\ ReachesError(Circuit(file), s, ins)
<1>1. PICK c \in SUBSET CubeOf(s) :
            /\ s = GetVars(c)
            /\ \E t \in States : Holds(c, t) /\ Holds(Circuit(file).init, t)
            /\ \A t \in States : Holds(c, t) => ReachesError(Circuit(file), t, ins)
  BY DEF GeneralizedRun
<1>2. PICK t \in States : Holds(c, t) /\ Holds(Circuit(file).init, t)
  BY <1>1
<1>3. Holds(c, s)
  BY <1>1 DEF Holds, CubeOf
<1>4. ASSUME NEW l \in Circuit(file).init, ~l[2] PROVE s[l[1]] = l[2]
  <2>0. PICK in \in Inputs : TRUE
    BY InputsAssumption
  <2>1. l[1] \in Latches /\ l[2] = FALSE
    BY <1>4, InitIs, FileFits
  <2>2. t[l[1]] = FALSE
    BY <1>2, <2>1 DEF Holds
  <2>3. ~(<<l[1], TRUE>> \in c)
    <3> SUFFICES ASSUME <<l[1], TRUE>> \in c PROVE FALSE
      OBVIOUS
    <3>1. t[l[1]] = TRUE
      BY <1>2 DEF Holds
    <3> QED
      BY <2>2, <3>1
  <2>4. s[l[1]] = (<<l[1], TRUE>> \in c)
    BY <1>1, <2>1 DEF GetVars
  <2>6. s[l[1]] = FALSE
    <3> DEFINE inCube == <<l[1], TRUE>> \in c
    <3>1. ~inCube /\ s[l[1]] = inCube
      BY <2>3, <2>4
    <3> HIDE DEF inCube
    <3>2. inCube \in BOOLEAN
      BY DEF inCube
    <3> QED
      BY ONLY <3>1, <3>2
  <2> QED
    BY ONLY <2>1, <2>6, Zenon
<1>5. MayStart(s)
  BY <1>4, InitIs DEF MayStart
<1> QED
  BY <1>1, <1>3, <1>5

\* An execution of the reversed system, read from its end, is one of the circuit.
LEMMA ReversedReaches ==
    ASSUME Built, NEW s \in States, NEW ins \in InputSequences, ReversedRun(Circuit(file), s, ins)
    PROVE  ReachesError(Circuit(file), s, ins)
<1>1. PICK n \in 1 .. MaxRows : ins \in [1 .. n -> Inputs]
  BY DEF InputSequences
<1>2. n \in Nat /\ Len(ins) = n /\ ins # <<>> /\ ins[n] \in Inputs
  BY <1>1, FunctionIsSequence
<1>3. PICK g : g = Circuit(file)
  OBVIOUS
<1>4. CASE n = 1
  <2>1. StateAt(g, s, ins, 1) = s
    BY <1>2, <1>4, RunStarts
  <2>2. <<s, ins[1]>> \in g.error
    BY <1>2, <1>3, <1>4 DEF ReversedRun
  <2> QED
    BY <1>2, <1>3, <1>4, <2>1, <2>2 DEF ReachesError
<1>5. CASE n # 1
  <2>1. PICK m : m = n - 1
    OBVIOUS
  <2>2. m \in 1 .. Len(ins) /\ n = m + 1 /\ ins[m] \in Inputs /\ n \in 1 .. Len(ins)
    BY <1>1, <1>2, <1>5, <2>1
  <2>3. PICK u : u = StateAt(g, s, ins, m)
    OBVIOUS
  <2>4. ins[m] = ins[n] /\ <<u, ins[m]>> \in LastSteps
    BY <1>2, <1>3, <1>5, <2>1, <2>3 DEF ReversedRun
  <2>5. u \in States
    BY <2>4 DEF LastSteps
  <2>6. StateAt(g, s, ins, n) = NextState(g, u, ins[m])
    BY <1>2, <2>2, <2>3, RunContinues
  <2>7. <<NextState(g, u, ins[m]), ins[m]>> \in g.error
    BY <1>3, <2>2, <2>4, <2>5, LastIsError
  <2> QED
    BY <1>2, <1>3, <2>4, <2>6, <2>7 DEF ReachesError
<1> QED
  BY <1>4, <1>5

\* A system that is safe when reversed is safe when there are fewer last steps.
LEMMA FewerLastSteps ==
    ASSUME NEW sys, NEW last, NEW fewer, fewer \subseteq last, ReversedSafe(sys, last)
    PROVE  ReversedSafe(sys, fewer)
BY DEF ReversedSafe

\* What an engine returns is true of the circuit in the file, as the formulas it is
\* given describe it.
LEMMA ReturnAnswer ==
    ASSUME AnswerInv, Built, ReturnCounterexample \/ ReturnOk \/ ReturnUnknown
    PROVE  AnswerInv'
<1>1. pc = "built" /\ pc' = "witness" /\ UNCHANGED <<args, file, options, engine, witness, exit>>
  BY DEF ReturnCounterexample, ReturnOk, ReturnUnknown, commandLine, translation, library
<1>2. Encoded = Circuit(file)
  BY EncodedIsCircuit
<1>3. engine.bound = GivenBound /\ GivenBound' = GivenBound /\ exit = NoExit
      /\ ValueOr(options, "-k", MaxInt) = GivenBound
      /\ engine.kind \in {"bmc", "pdr", "forward_car", "backward_car"}
  BY <1>1 DEF AnswerInv, HasEngine, Building, GivenBound
<1>4. ResultInv' /\ result' \in {"ok", "counterexample", "unknown"}
  <2>1. CASE ReturnOk
    <3>1. result' = "ok" /\ \/ engine.kind \in {"pdr", "forward_car"} /\ Safe(Circuit(file))
                            \/ engine.kind = "backward_car" /\ ReversedSafe(Circuit(file), LastSteps)
      BY <1>2, <2>1 DEF ReturnOk
    <3>2. OkInv
      BY <3>1, SteadyIsLast, FewerLastSteps DEF OkInv
    <3>3. OkInv'
      BY <1>1, <3>2 DEF OkInv
    <3> QED
      BY <3>1, <3>3 DEF ResultInv
  <2>2. CASE ReturnUnknown
    <3>1. result' = "unknown" /\ engine.kind = "bmc" /\ FindsNothing
      BY <2>2 DEF ReturnUnknown
    <3>2. NoneInBound
      BY <1>2, <1>3, <3>1 DEF FindsNothing, NoneInBound, IsCounterexample, BoundedRun
    <3>3. NoneInBound'
      BY <1>1, <1>3, <3>2 DEF NoneInBound
    <3> QED
      BY <3>1, <3>3 DEF ResultInv
  <2>3. CASE ReturnCounterexample
    <3>1. result' = "counterexample"
      BY <2>3 DEF ReturnCounterexample
    <3>2. PICK s \in States, ins \in InputSequences :
            /\ IsCounterexample(Circuit(file), s, ins)
            /\ cex' = [ initial |-> Valuation("state", s, Len(aig.latches)),
                        inputs  |-> [k \in DOMAIN ins |-> Valuation("input", ins[k], Len(aig.inputs))] ]
      BY <1>2, <2>3 DEF ReturnCounterexample
    <3>3. MayStart(s) /\ ReachesError(Circuit(file), s, ins)
      <4>1. CASE engine.kind \in {"pdr", "forward_car"}
        <5>1. GeneralizedRun(Circuit(file), s, ins)
          BY <3>2, <4>1 DEF IsCounterexample
        <5> QED
          BY <4>1, <5>1, GeneralizedStart
      <4>2. CASE engine.kind = "bmc"
        <5>1. BoundedRun(Circuit(file), s, ins)
          BY <3>2, <4>2 DEF IsCounterexample
        <5> QED
          BY <5>1 DEF BoundedRun, MayStart, Holds
      <4>3. CASE engine.kind = "backward_car"
        <5>1. ReversedRun(Circuit(file), s, ins)
          BY <3>2, <4>3 DEF IsCounterexample
        <5>2. ReachesError(Circuit(file), s, ins)
          BY <5>1, ReversedReaches
        <5> QED
          BY <5>1, <5>2 DEF ReversedRun, MayStart, Holds
      <4> QED
        BY <1>3, <4>1, <4>2, <4>3
    <3>4. Len(aig.latches) = Len(file.latches) /\ Len(aig.inputs) = Len(file.inputs)
      BY SameShape
    <3>5. \A k \in DOMAIN ins : ins[k] \in Inputs
      BY DEF InputSequences
    <3>6. \A k \in DOMAIN ins : Fits(file, s, ins[k])
      BY <3>5, FileFits
    <3>7. CexInv'
      BY <1>1, <3>2, <3>3, <3>4, <3>6 DEF CexInv, MayStart
    <3> QED
      BY <3>1, <3>7 DEF ResultInv
  <2> QED
    BY <2>1, <2>2, <2>3
<1>5. (ValueOr(options, "-k", MaxInt))' = GivenBound
  BY <1>1, <1>3
<1> QED
  BY <1>1, <1>3, <1>4, <1>5 DEF AnswerInv, HasEngine, Building, NoExit

\* write_aiger_witness prints the result.
LEMMA WriteWitnessAnswer ==
    ASSUME AnswerInv, WriteWitness
    PROVE  AnswerInv'
<1>1. pc = "witness" /\ pc' = "exit" /\ UNCHANGED <<args, file, engine, result, cex>> /\ witness' = Printed
  BY DEF WriteWitness, Exit, commandLine, translation, library, Printed
<1>2. ResultInv' /\ Printed' = Printed /\ result \in {"ok", "counterexample", "unknown"}
  BY <1>1, AnswerStays DEF AnswerInv
<1> QED
  BY <1>1, <1>2 DEF AnswerInv, HasEngine, Building

\* Every step of the program keeps what is known of its answer.
LEMMA NextAnswerInv ==
    ASSUME AnswerInv, CommandInv, OutcomeInv, pc = "built" => Built, [Next]_vars
    PROVE  AnswerInv'
<1>1. CASE UNCHANGED vars \/ SearchForever \/ Exited
  <2>1. UNCHANGED <<pc, args, file, options, engine, result, cex, witness, exit>>
    BY <1>1 DEF SearchForever, Exited, vars, commandLine, translation, library, outcome
  <2> QED
    BY <2>1, InnerAnswer DEF HasEngine, Building
<1>2. CASE PrintHelp \/ UsageError \/ EngineError \/ BuildError \/ InputError
  <2>1. pc' = "exit" /\ UNCHANGED <<args, file, engine, result, cex>>
    BY <1>2 DEF PrintHelp, UsageError, EngineError, BuildError, InputError, Exit, commandLine, translation, library
  <2>2. \E message, status : Exit(message, status) /\ message # "witness"
    <3>1. LastError # "witness"
      BY DEF LastError
    <3>2. CASE UsageError
      <4>1. CASE arg < Len(args)
        <5>1. Exit("second path", 1)
          BY <3>2, <4>1 DEF UsageError
        <5> QED
          BY ONLY <5>1, "second path" # "witness"
      <4>2. CASE ~(arg < Len(args))
        <5>1. Exit(LastError, 1)
          BY <3>2, <4>2 DEF UsageError
        <5> QED
          BY ONLY <3>1, <5>1
      <4> QED
        BY <4>1, <4>2
    <3>3. CASE PrintHelp \/ EngineError \/ BuildError \/ InputError
      BY <3>3 DEF PrintHelp, EngineError, BuildError, InputError
    <3> QED
      BY <1>2, <3>2, <3>3
  <2>3. exit'.message # "witness"
    BY <2>2 DEF Exit
  <2> QED
    BY <2>1, <2>3, ExitAnswer
<1>3. CASE NoHelp \/ ParseArgument \/ OpenFile
  <2>1. UNCHANGED <<args, file, options, engine, result, cex, witness, exit>>
    BY <1>3 DEF NoHelp, ParseArgument, OpenFile, commandLine, translation, library, outcome
  <2>2. pc \in {"help", "parse", "open"} /\ pc' \in {"parse", "read"} /\ (pc' = "read" => pc = "open")
    BY <1>3 DEF NoHelp, ParseArgument, OpenFile
  <2> QED
    BY <2>1, <2>2, InnerAnswer DEF HasEngine, Building
<1>4. CASE Read
  <2>1. UNCHANGED <<args, file, options, engine, result, cex, witness, exit>>
    BY <1>4 DEF Read, ReadLine, CheckDefined, CycleRoot, EnterGate, LeaveGate, library, commandLine, outcome
  <2>2. pc \in {"read", "cycles"} /\ pc' \in {"read", "cycles"}
    BY <1>4 DEF Read, ReadLine, CheckDefined, CycleRoot, EnterGate, LeaveGate
  <2> QED
    BY <2>1, <2>2, InnerAnswer DEF HasEngine, Building
<1>5. CASE Build
  <2>1. UNCHANGED <<args, options, engine, result, cex, witness, exit>>
    BY <1>5 DEF Build, commandLine, outcome
  <2>2. file' = file
    BY FileStays
  <2>3. /\ pc \in {"context", "reencode", "init", "trans", "error"}
        /\ pc' \in {"reencode", "init", "trans", "error", "built"}
    <3>1. CASE MakeContext \/ ContextReencoded
      BY <3>1 DEF MakeContext, ContextReencoded, FinishReencode
    <3>2. CASE ReencodeRoot \/ ExpandGate \/ CodeGate
      BY <3>2 DEF ReencodeRoot, ExpandGate, CodeGate
    <3>3. CASE BuildInit \/ ClausifyGate \/ FinishTrans \/ FinishError
      BY <3>3 DEF BuildInit, ClausifyGate, FinishTrans, FinishError
    <3> QED
      BY <1>5, <3>1, <3>2, <3>3 DEF Build
  <2>4. HasEngine
    BY <2>3 DEF HasEngine, Building
  <2> QED
    BY <2>1, <2>2, <2>3, <2>4, InnerAnswer
<1>6. CASE ReturnCounterexample \/ ReturnOk \/ ReturnUnknown
  <2>1. pc = "built"
    BY <1>6 DEF ReturnCounterexample, ReturnOk, ReturnUnknown
  <2> QED
    BY <1>6, <2>1, ReturnAnswer
<1> QED
  BY <1>1, <1>2, <1>3, <1>4, <1>5, <1>6, FinishParseAnswer, GetEngineAnswer, WriteWitnessAnswer DEF Next

\* What the program keeps true of its answer: the engine has the bound of the first
\* -k on the command line, the counterexample reaches the error of the circuit in
\* the file, ok of backward CAR excludes the steady steps of that circuit and ok of
\* the others its errors, and the witness is printed of this result.
THEOREM AnswerInvariant == Spec => []AnswerInv
<1>1. Init => AnswerInv
  BY InitAnswerInv
<1>2. /\ AnswerInv /\ FormulaInv /\ FileInv /\ AigerInv /\ ProgramInv /\ CommandInv /\ StageInv /\ [Next]_vars
      => AnswerInv'
  <2>1. FormulaInv /\ FileInv /\ AigerInv /\ ProgramInv /\ StageInv => (pc = "built" => Built)
    BY DEF Built, ProgramInv
  <2>2. ProgramInv => OutcomeInv
    BY DEF ProgramInv
  <2> QED
    BY <2>1, <2>2, NextAnswerInv
<1> QED
  BY <1>1, <1>2, FormulaInvariant, AigerInvariant, ProgramInvariant, CommandInvariant, PTL DEF Spec, SafetySpec

-----------------------------------------------------------------------------
(* The rows of the witness.                                                *)

\* The values of a row, for the first n latches or inputs.
RowOf(f, n) == [i \in 1 .. n |-> IF f[i] THEN 1 ELSE 0]

\* The row of a valuation, by the values it stands for.
LEMMA RowIs == \A range, f, n : Row(Valuation(range, f, n)) = RowOf(f, n)
<1> TAKE range, f, n
<1>1. PICK val : val = Valuation(range, f, n)
  OBVIOUS
<1>2. DOMAIN val = 1 .. n /\ \A i \in 1 .. n : val[i][2] = f[i]
  BY <1>1 DEF Valuation
<1>3. Row(val) = [i \in DOMAIN val |-> IF val[i][2] THEN 1 ELSE 0]
  BY DEF Row
<1> QED
  BY <1>1, <1>2, <1>3 DEF RowOf

\* What agrees with a row agrees with what it was printed of.
LEMMA RowAgrees ==
    ASSUME NEW n, NEW f, \A i \in 1 .. n : f[i] \in BOOLEAN, NEW row, row = RowOf(f, n),
           NEW h, \A i \in DOMAIN row : h[i] = (row[i] = 1)
    PROVE  \A i \in 1 .. n : f[i] = h[i]
<1>1. DOMAIN row = 1 .. n /\ \A i \in 1 .. n : row[i] = IF f[i] THEN 1 ELSE 0
  BY DEF RowOf
<1> QED
  BY <1>1

\* The rows of a counterexample of n inputs.
LEMMA RowsAre ==
    ASSUME NEW n \in Nat, NEW T, NEW first \in T, NEW q \in [1 .. n -> T], NEW rows, rows = <<first>> \o q
    PROVE  Len(rows) = n + 1 /\ rows[1] = first /\ \A k \in 1 .. n : rows[k + 1] = q[k]
<1>1. q \in Seq(T) /\ Len(q) = n
  BY FunctionIsSequence
<1>2. PICK p : p = <<first>>
  OBVIOUS
<1>3. p \in Seq(T) /\ Len(p) = 1 /\ p[1] = first /\ rows = p \o q
  BY <1>2
<1> QED
  BY <1>1, <1>3

\* The valuations that agree with a row.
RowStates(row) == {s \in States : \A i \in DOMAIN row : s[i] = (row[i] = 1)}
RowInputs(row) == {in \in Inputs : \A i \in DOMAIN row : in[i] = (row[i] = 1)}

\* Replayed on the circuit in the file, the rows reach the error.
Replays(rows) ==
    /\ Len(rows[1]) = Len(file.latches)
    /\ \A k \in 2 .. Len(rows) : Len(rows[k]) = Len(file.inputs)
    /\ \A s \in RowStates(rows[1]) : MayStart(s)
    /\ \A s \in RowStates(rows[1]) :
       \A ins \in {f \in [1 .. Len(rows) - 1 -> Inputs] : \A k \in DOMAIN f : f[k] \in RowInputs(rows[k + 1])} :
            ReachesError(Circuit(file), s, ins)

\* The rows of the counterexample of an engine do.
LEMMA RowsReplay ==
    ASSUME CexInv, file \in Graphs, NEW rows,
           rows = <<Row(cex.initial)>> \o [k \in DOMAIN cex.inputs |-> Row(cex.inputs[k])]
    PROVE  Replays(rows)
<1>1. PICK L \in Nat, I \in Nat : /\ L = Len(file.latches) /\ I = Len(file.inputs)
                                  /\ DOMAIN file.latches = 1 .. L /\ DOMAIN file.inputs = 1 .. I
  BY GraphParts
<1>2. PICK s \in States, ins \in InputSequences :
        /\ MayStart(s) /\ ReachesError(Circuit(file), s, ins)
        /\ \A k \in DOMAIN ins : Fits(file, s, ins[k])
        /\ cex = [ initial |-> Valuation("state", s, L),
                   inputs  |-> [k \in DOMAIN ins |-> Valuation("input", ins[k], I)] ]
  BY <1>1 DEF CexInv
<1>3. PICK n \in 1 .. MaxRows : ins \in [1 .. n -> Inputs]
  BY DEF InputSequences
<1>4. n \in Nat /\ n >= 1 /\ DOMAIN ins = 1 .. n
  BY <1>3
<1> DEFINE F(k) == RowOf(ins[k], I)
<1>5. rows = <<RowOf(s, L)>> \o [k \in 1 .. n |-> F(k)]
  <2>1. Row(cex.initial) = RowOf(s, L)
    BY <1>2, RowIs
  <2>2. PICK ci : ci = cex.inputs
    OBVIOUS
  <2>3. ci = [k \in 1 .. n |-> Valuation("input", ins[k], I)]
    BY <1>2, <1>4, <2>2
  <2>4. [k \in DOMAIN ci |-> Row(ci[k])] = [k \in 1 .. n |-> F(k)]
    BY <2>3, RowIs
  <2> QED
    BY <2>1, <2>2, <2>4
<1>6. Len(rows) = n + 1 /\ rows[1] = RowOf(s, L) /\ \A k \in 1 .. n : rows[k + 1] = F(k)
  <2>1. PICK q, first, T : /\ q = [k \in 1 .. n |-> F(k)] /\ first = RowOf(s, L)
                           /\ T = {F(k) : k \in 1 .. n} \cup {first}
    OBVIOUS
  <2>2. q \in [1 .. n -> T] /\ first \in T
    BY <2>1
  <2>3. rows = <<first>> \o q
    BY <1>5, <2>1
  <2>4. Len(rows) = n + 1 /\ rows[1] = first /\ \A k \in 1 .. n : rows[k + 1] = q[k]
    BY ONLY <1>4, <2>2, <2>3, RowsAre
  <2> QED
    BY <2>1, <2>4
<1>7. ASSUME NEW f, NEW m \in Nat PROVE Len(RowOf(f, m)) = m
  <2>1. RowOf(f, m) \in [1 .. m -> {0, 1}]
    BY DEF RowOf
  <2> QED
    BY ONLY <2>1, m \in Nat, FunctionIsSequence
<1>8. ASSUME NEW k \in 2 .. Len(rows) PROVE Len(rows[k]) = I
  <2>1. PICK j \in 1 .. n : k = j + 1
    BY <1>4, <1>6
  <2> QED
    BY <1>6, <1>7, <2>1
<1>9. /\ \A i \in 1 .. L : s[i] \in BOOLEAN
      /\ \A k \in 1 .. n : \A i \in 1 .. I : ins[k][i] \in BOOLEAN
  <2>1. \A k \in 1 .. n : Fits(file, s, ins[k])
    BY <1>2, <1>4
  <2>2. \A k \in 1 .. n : /\ \A i \in 1 .. I : ins[k][i] \in BOOLEAN
                          /\ \A i \in 1 .. L : s[i] \in BOOLEAN
    BY <1>1, <2>1 DEF Fits
  <2>3. 1 \in 1 .. n
    BY <1>4
  <2> QED
    BY <2>2, <2>3
<1>10. ASSUME NEW t \in RowStates(rows[1]) PROVE t \in States /\ SameLatches(file, s, t)
  <2>0. t \in States /\ \A i \in DOMAIN rows[1] : t[i] = (rows[1][i] = 1)
    BY DEF RowStates
  <2>1. \A i \in 1 .. L : s[i] = t[i]
    BY <1>6, <1>9, <2>0, RowAgrees
  <2> QED
    BY <1>1, <2>0, <2>1 DEF SameLatches
<1>11. ASSUME NEW t \in States, SameLatches(file, s, t) PROVE MayStart(t)
  <2>1. MayStart(s)
    BY <1>2
  <2>2. \A l \in Circuit(file).init : l[1] \in DOMAIN file.latches
    BY InitIs
  <2> QED
    BY <1>11, <2>1, <2>2 DEF MayStart, SameLatches
<1>12. ASSUME NEW t \in States, SameLatches(file, s, t), NEW jns \in [1 .. Len(rows) - 1 -> Inputs],
              \A k \in DOMAIN jns : jns[k] \in RowInputs(rows[k + 1])
       PROVE  ReachesError(Circuit(file), t, jns)
  <2>0. Len(rows) - 1 = n
    BY <1>4, <1>6
  <2>1. jns \in [1 .. n -> Inputs]
    BY <2>0
  <2>2. ASSUME NEW k \in 1 .. n PROVE SameInputs(file, ins[k], jns[k])
    <3>1. \A i \in DOMAIN rows[k + 1] : jns[k][i] = (rows[k + 1][i] = 1)
      BY <1>12, <2>1 DEF RowInputs
    <3>2. rows[k + 1] = RowOf(ins[k], I)
      BY <1>6
    <3>p. PICK f, h, row : f = ins[k] /\ h = jns[k] /\ row = rows[k + 1]
      OBVIOUS
    <3>q. /\ \A i \in 1 .. I : f[i] \in BOOLEAN
          /\ row = RowOf(f, I)
          /\ \A i \in DOMAIN row : h[i] = (row[i] = 1)
      BY <1>9, <3>1, <3>2, <3>p
    <3>r. \A i \in 1 .. I : f[i] = h[i]
      BY ONLY <3>q, RowAgrees
    <3>3. \A i \in 1 .. I : ins[k][i] = jns[k][i]
      BY <3>p, <3>r
    <3> QED
      BY <1>1, <3>3 DEF SameInputs
  <2>3. ReachesError(Circuit(file), s, ins)
    BY <1>2
  <2> QED
    BY ONLY <1>3, <1>4, <1>12, <2>1, <2>2, <2>3, ErrorsAgree, s \in States, t \in States
<1>13. Len(rows[1]) = Len(file.latches)
  BY <1>1, <1>6, <1>7
<1>14. \A k \in 2 .. Len(rows) : Len(rows[k]) = Len(file.inputs)
  BY <1>1, <1>8
<1> QED
  BY <1>10, <1>11, <1>12, <1>13, <1>14 DEF Replays

\* The rows of the witness are true, for all arguments and files: write_visitor
\* prints the literals of the counterexample with the right signs and in the order
\* of the latches and the inputs of the file, although the engine read them off
\* the reencoded graph. The first row is an initial state, but PDR and forward CAR
\* may print 0 for a latch that resets to one. They print 0 of safe circuits only,
\* and BMC prints 2 only when no execution up to the bound of the first -k on the
\* command line has an error.
THEOREM WitnessesAreTrue == Spec => []WitnessIsTrue
<1>1. AnswerInv /\ AigerInv => WitnessIsTrue
  <2> SUFFICES ASSUME AnswerInv, AigerInv, exit.message = "witness" PROVE WitnessIsTrue
    BY DEF WitnessIsTrue
  <2>1. result \in {"ok", "counterexample", "unknown"} /\ witness = Printed /\ ResultInv
    BY DEF AnswerInv
  <2>2. witness.status = Status[result]
    BY <2>1 DEF Printed
  <2>3. CASE result = "ok"
    <3>1. witness.status = 0 /\ OkInv
      BY <2>1, <2>2, <2>3 DEF Status, ResultInv
    <3> QED
      BY <3>1 DEF WitnessIsTrue, OkInv
  <2>4. CASE result = "unknown"
    <3>1. witness.status = 2 /\ NoneInBound
      BY <2>1, <2>2, <2>4 DEF Status, ResultInv
    <3> QED
      BY <3>1 DEF WitnessIsTrue, NoneInBound
  <2>5. CASE result = "counterexample"
    <3>1. witness.status = 1 /\ CexInv
      BY <2>1, <2>2, <2>5 DEF Status, ResultInv
    <3>2. PICK rows : rows = witness.rows
      OBVIOUS
    <3>3. rows = <<Row(cex.initial)>> \o [k \in DOMAIN cex.inputs |-> Row(cex.inputs[k])]
      BY <2>1, <2>5, <3>2 DEF Printed
    <3>4. file \in Graphs
      BY DEF AigerInv
    <3>5. Replays(rows)
      BY <3>1, <3>3, <3>4, RowsReplay
    <3> QED
      BY <3>1, <3>2, <3>5 DEF WitnessIsTrue, Replays, RowStates, RowInputs, MayStart
  <2> QED
    BY <2>1, <2>3, <2>4, <2>5
<1> QED
  BY <1>1, AnswerInvariant, AigerInvariant, PTL

-----------------------------------------------------------------------------
(* What 0 of backward CAR says.                                            *)

\* If the error does not depend on the inputs and every step into it is a last step,
\* a system that is safe when reversed is safe. The invariant has the initial states
\* and the successors of the invariant of the reversed system: one step is left out,
\* the last.
LEMMA ReversedSafeIsSafe ==
    ASSUME NEW sys, NEW last, ReversedSafe(sys, last), IgnoresInputs(sys),
           \A s \in States, in \in Inputs : <<NextState(sys, s, in), in>> \in sys.error => <<s, in>> \in last
    PROVE  Safe(sys)
<1>1. PICK Inv \in SUBSET States :
            /\ \A s \in States : Holds(sys.init, s) => s \in Inv
            /\ \A s \in Inv, in \in Inputs : NextState(sys, s, in) \in Inv
            /\ \A s \in Inv, in \in Inputs : <<s, in>> \notin last
  BY DEF ReversedSafe
<1>2. PICK R : R = {s \in States : \/ Holds(sys.init, s)
                                   \/ \E t \in Inv, in \in Inputs : s = NextState(sys, t, in)}
  OBVIOUS
<1>3. R \in SUBSET States /\ R \subseteq Inv
  BY <1>1, <1>2
<1>4. \A s \in States : Holds(sys.init, s) => s \in R
  BY <1>2
<1>5. ASSUME NEW s \in R, NEW in \in Inputs PROVE NextState(sys, s, in) \in R
  <2>1. s \in Inv /\ NextState(sys, s, in) \in States
    BY <1>1, <1>3
  <2> QED
    BY <1>2, <2>1
<1>6. ASSUME NEW s \in R, NEW jn \in Inputs, <<s, jn>> \in sys.error PROVE FALSE
  <2>1. s \in States
    BY <1>3
  <2>2. CASE Holds(sys.init, s)
    BY <1>6, <2>1, <2>2 DEF ReversedSafe
  <2>3. CASE \E t \in Inv, in \in Inputs : s = NextState(sys, t, in)
    <3>1. PICK t \in Inv, in \in Inputs : s = NextState(sys, t, in)
      BY <2>3
    <3>2. <<s, in>> \in sys.error
      BY <1>6, <2>1 DEF IgnoresInputs
    <3>3. t \in States
      BY <1>1
    <3>4. <<t, in>> \in last
      BY <3>1, <3>2, <3>3
    <3> QED
      BY <1>1, <3>1, <3>4
  <2> QED
    BY <1>2, <2>2, <2>3
<1>7. SafeInvariant(sys, R)
  BY <1>4, <1>5, <1>6 DEF SafeInvariant
<1> QED
  BY <1>3, <1>7 DEF Safe

\* When backward CAR prints 0, no execution of the circuit in the file has an error at
\* once or after a step that repeats the inputs of the error and keeps the shared
\* gates, whatever reencoding did to them, since reverse_system puts the step and the
\* error under one valuation of the inputs and the gates. The circuit is safe if no
\* gate is shared and the error does not depend on the inputs.
THEOREM BackwardOkIsRight == Spec => []BackwardOkIsTrue
<1>1. AnswerInv => BackwardOkIsTrue
  <2> SUFFICES ASSUME AnswerInv, exit.message = "witness", witness.status = 0, engine.kind = "backward_car"
               PROVE  /\ ReversedSafe(Circuit(file), SteadySteps(file))
                      /\ IgnoresInputs(Circuit(file)) /\ SharedGates(file) = {} => Safe(Circuit(file))
    BY DEF BackwardOkIsTrue
  <2>1. result \in {"ok", "counterexample", "unknown"} /\ witness = Printed /\ ResultInv
    BY DEF AnswerInv
  <2>2. Status[result] = 0
    BY <2>1 DEF Printed
  <2>3. result = "ok"
    BY <2>1, <2>2 DEF Status
  <2>4. ReversedSafe(Circuit(file), SteadySteps(file))
    BY <2>1, <2>3 DEF ResultInv, OkInv
  <2>5. ASSUME SharedGates(file) = {}, NEW s \in States, NEW in \in Inputs,
               <<NextState(Circuit(file), s, in), in>> \in Circuit(file).error
        PROVE  <<s, in>> \in SteadySteps(file)
    BY <2>5 DEF SteadySteps
  <2> QED
    BY <2>4, <2>5, ReversedSafeIsSafe
<1> QED
  BY <1>1, AnswerInvariant, PTL
=============================================================================
