---------------------------- MODULE GeyserProof ----------------------------
(***************************************************************************)
(* The program ends as its arguments and its file deserve, for all command *)
(* lines and all files: what the parser leaves of the arguments, and what  *)
(* the reader, aiger_check and its traversal decide about a graph, are the *)
(* conditions that are stated about the arguments and the file alone.      *)
(***************************************************************************)
EXTENDS AigerProof

-----------------------------------------------------------------------------
(* Well-formed graphs: the parts of WellFormed, one by one.                *)

Definitions(g) ==
    [i \in DOMAIN g.inputs |-> g.inputs[i]]
    \o [i \in DOMAIN g.latches |-> g.latches[i].lit]
    \o [i \in DOMAIN g.ands |-> g.ands[i].lhs]

Known(g) == {0, 1} \cup ToSet(Definitions(g)) \cup {l + 1 : l \in ToSet(Definitions(g))}

KnownUses(g) ==
    /\ ToSet(Properties(g)) \subseteq Known(g)
    /\ \A i \in DOMAIN g.latches : g.latches[i].next \in Known(g)
    /\ \A i \in DOMAIN g.ands : {g.ands[i].rhs0, g.ands[i].rhs1} \subseteq Known(g)

IsGateOrder(g, rank) ==
    \A i, j \in DOMAIN g.ands :
        Strip(g.ands[i].lhs) \in {Strip(g.ands[j].rhs0), Strip(g.ands[j].rhs1)} => rank[i] < rank[j]

\* WellFormed, by the names this module uses.
LEMMA WellFormedIs ==
    ASSUME NEW g
    PROVE  WellFormed(g) <=>
            /\ \A l \in ToSet(Definitions(g)) : l \in {2 * v : v \in 1 .. g.maxvar}
            /\ Cardinality(ToSet(Definitions(g))) = Len(Definitions(g))
            /\ KnownUses(g)
            /\ \E rank \in [DOMAIN g.ands -> DOMAIN g.ands] : IsGateOrder(g, rank)
BY DEF WellFormed, Definitions, KnownUses, Known, IsGateOrder

\* The literal l is that of an input, of a latch or of a gate.
IsDefinedBy(g, l) ==
    \/ \E i \in 1 .. Len(g.inputs) : l = g.inputs[i]
    \/ \E i \in 1 .. Len(g.latches) : l = g.latches[i].lit
    \/ \E i \in 1 .. Len(g.ands) : l = g.ands[i].lhs

\* The sequence d has the I inputs, the L latches and the A gates of g.
HasDefinitions(g, d, I, L, A) ==
    /\ d \in Seq(Nat) /\ Len(d) = I + L + A
    /\ \A i \in 1 .. I : d[i] = g.inputs[i]
    /\ \A i \in 1 .. L : d[I + i] = g.latches[i].lit
    /\ \A i \in 1 .. A : d[I + L + i] = g.ands[i].lhs

\* The definitions of a graph, part by part.
LEMMA DefinitionsAre ==
    ASSUME NEW g \in Graphs, NEW I \in Nat, NEW L \in Nat, NEW A \in Nat,
           I = Len(g.inputs), L = Len(g.latches), A = Len(g.ands)
    PROVE  HasDefinitions(g, Definitions(g), I, L, A)
<1>1. PICK a, b, c :
        /\ a = [i \in DOMAIN g.inputs |-> g.inputs[i]]
        /\ b = [i \in DOMAIN g.latches |-> g.latches[i].lit]
        /\ c = [i \in DOMAIN g.ands |-> g.ands[i].lhs]
  OBVIOUS
<1>2. DOMAIN g.inputs = 1 .. I /\ DOMAIN g.latches = 1 .. L /\ DOMAIN g.ands = 1 .. A
  BY GraphParts
<1>3. /\ \A i \in 1 .. I : g.inputs[i] \in Nat
      /\ \A i \in 1 .. L : g.latches[i].lit \in Nat
      /\ \A i \in 1 .. A : g.ands[i].lhs \in Nat
  BY GraphElements
<1>4. a \in [1 .. I -> Nat] /\ b \in [1 .. L -> Nat] /\ c \in [1 .. A -> Nat]
  BY <1>1, <1>2, <1>3
<1>5. /\ a \in Seq(Nat) /\ Len(a) = I
      /\ b \in Seq(Nat) /\ Len(b) = L
      /\ c \in Seq(Nat) /\ Len(c) = A
  BY <1>4, FunctionIsSequence
<1>6. /\ \A i \in 1 .. I : a[i] = g.inputs[i]
      /\ \A i \in 1 .. L : b[i] = g.latches[i].lit
      /\ \A i \in 1 .. A : c[i] = g.ands[i].lhs
  BY <1>1, <1>2
<1>7. PICK x, y : x = a \o b /\ y = x \o c
  OBVIOUS
<1>8. y = Definitions(g)
  BY <1>1, <1>7 DEF Definitions
<1>9. /\ y \in Seq(Nat) /\ Len(y) = Len(a) + Len(b) + Len(c)
      /\ \A i \in 1 .. Len(a) : y[i] = a[i]
      /\ \A i \in 1 .. Len(b) : y[Len(a) + i] = b[i]
      /\ \A i \in 1 .. Len(c) : y[Len(a) + Len(b) + i] = c[i]
  <2>1. PICK T : T = Nat
    OBVIOUS
  <2>2. a \in Seq(T) /\ b \in Seq(T) /\ c \in Seq(T)
    BY <1>5, <2>1
  <2>3. /\ y \in Seq(T) /\ Len(y) = Len(a) + Len(b) + Len(c)
        /\ \A i \in 1 .. Len(a) : y[i] = a[i]
        /\ \A i \in 1 .. Len(b) : y[Len(a) + i] = b[i]
        /\ \A i \in 1 .. Len(c) : y[Len(a) + Len(b) + i] = c[i]
    BY ONLY <1>7, <2>2, Concatenated
  <2> QED
    BY <2>1, <2>3
<1> QED
  BY ONLY <1>5, <1>6, <1>8, <1>9 DEF HasDefinitions

\* The set of the definitions.
LEMMA SetOfDefinitions ==
    ASSUME NEW g \in Graphs, NEW l
    PROVE  l \in ToSet(Definitions(g)) <=> IsDefinedBy(g, l)
<1>1. PICK I \in Nat, L \in Nat, A \in Nat : I = Len(g.inputs) /\ L = Len(g.latches) /\ A = Len(g.ands)
  BY GraphParts
<1>2. PICK d : d = Definitions(g)
  OBVIOUS
<1>3. /\ d \in Seq(Nat) /\ Len(d) = I + L + A
      /\ \A i \in 1 .. I : d[i] = g.inputs[i]
      /\ \A i \in 1 .. L : d[I + i] = g.latches[i].lit
      /\ \A i \in 1 .. A : d[I + L + i] = g.ands[i].lhs
  <2>1. HasDefinitions(g, d, I, L, A)
    BY <1>1, <1>2, DefinitionsAre
  <2> QED
    BY <2>1 DEF HasDefinitions
<1>4. DOMAIN d = 1 .. I + L + A
  BY <1>3
<1>5. ASSUME NEW k \in 1 .. I + L + A
      PROVE  IsDefinedBy(g, d[k])
  <2>1. CASE k <= I
    <3>1. k \in 1 .. I /\ d[k] = g.inputs[k]
      BY <1>3, <2>1
    <3> QED
      BY <1>1, <3>1 DEF IsDefinedBy
  <2>2. CASE I < k /\ k <= I + L
    <3>1. k - I \in 1 .. L /\ I + (k - I) = k
      BY <2>2
    <3>2. d[k] = g.latches[k - I].lit
      BY <1>3, <3>1
    <3> QED
      BY <1>1, <3>1, <3>2 DEF IsDefinedBy
  <2>3. CASE I + L < k
    <3>1. k - I - L \in 1 .. A /\ I + L + (k - I - L) = k
      BY <2>3
    <3>2. d[k] = g.ands[k - I - L].lhs
      BY <1>3, <3>1
    <3> QED
      BY <1>1, <3>1, <3>2 DEF IsDefinedBy
  <2> QED
    BY <2>1, <2>2, <2>3
<1>6. ASSUME IsDefinedBy(g, l) PROVE \E k \in 1 .. I + L + A : d[k] = l
  <2>1. CASE \E i \in 1 .. I : l = g.inputs[i]
    <3>1. PICK i \in 1 .. I : l = g.inputs[i]
      BY <2>1
    <3>2. i \in 1 .. I + L + A /\ d[i] = l
      BY <1>3, <3>1
    <3> QED
      BY <3>2
  <2>2. CASE \E i \in 1 .. L : l = g.latches[i].lit
    <3>1. PICK i \in 1 .. L : l = g.latches[i].lit
      BY <2>2
    <3>2. I + i \in 1 .. I + L + A /\ d[I + i] = l
      BY <1>3, <3>1
    <3> QED
      BY <3>2
  <2>3. CASE \E i \in 1 .. A : l = g.ands[i].lhs
    <3>1. PICK i \in 1 .. A : l = g.ands[i].lhs
      BY <2>3
    <3>2. I + L + i \in 1 .. I + L + A /\ d[I + L + i] = l
      BY <1>3, <3>1
    <3> QED
      BY <3>2
  <2> QED
    BY <1>1, <1>6, <2>1, <2>2, <2>3 DEF IsDefinedBy
<1>7. ToSet(d) = {d[k] : k \in 1 .. I + L + A}
  BY <1>4 DEF ToSet
<1> QED
  BY <1>2, <1>5, <1>6, <1>7

\* A variable is defined if it is one of an input, a latch or a gate.
LEMMA DefinedByIs ==
    ASSUME NEW g \in Graphs, NEW v \in Nat
    PROVE  IsDefinedBy(g, 2 * v) <=> IsInput(g, v) \/ IsLatch(g, v) \/ IsAnd(g, v)
BY GraphParts DEF IsDefinedBy, IsInput, IsLatch, IsAnd

\* The literals that aiger_literal_defined accepts.
LEMMA KnownIsDefined ==
    ASSUME NEW g \in Graphs, NEW l \in Nat, \A d : IsDefinedBy(g, d) => IsDefinition(g, d)
    PROVE  l \in Known(g) <=> IsDefined(g, l)
<1>1. PICK v \in Nat, s \in {0, 1} : v = Var(l) /\ l = 2 * v + s
  BY LiteralParts
<1>2. l \in Known(g) <=> l \in {0, 1} \/ IsDefinedBy(g, l) \/ \E d : IsDefinedBy(g, d) /\ l = d + 1
  BY SetOfDefinitions DEF Known
<1>3. ASSUME NEW d, IsDefinedBy(g, d), l = d \/ l = d + 1
      PROVE  d = 2 * v
  <2>1. PICK u \in 1 .. g.maxvar : d = 2 * u
    BY <1>3 DEF IsDefinition
  <2>2. u \in Nat
    BY GraphParts
  <2>3. l = 2 * u \/ l = 2 * u + 1
    BY <1>3, <2>1
  <2>4. u = v
    BY ONLY <1>1, <2>2, <2>3
  <2> QED
    BY <2>1, <2>4
<1>4. l \in Known(g) <=> l \in {0, 1} \/ IsDefinedBy(g, 2 * v)
  <2>1. l = 2 * v \/ l = 2 * v + 1
    BY <1>1
  <2> QED
    BY <1>2, <1>3, <2>1
<1>5. l \in {0, 1} <=> v = 0
  BY <1>1
<1> QED
  BY <1>1, <1>4, <1>5, DefinedByIs DEF IsDefined

\* What is used is defined, in the terms of the reader and of WellFormed.
LEMMA KnownUsesIs ==
    ASSUME NEW g \in Graphs, \A d : IsDefinedBy(g, d) => IsDefinition(g, d)
    PROVE  KnownUses(g) <=> AllDefined(g)
<1>1. PICK P : P = Properties(g)
  OBVIOUS
<1>2. P \in Seq(Nat)
  BY <1>1, PropertiesType
<1>3. ToSet(P) \subseteq Known(g) <=> \A i \in DOMAIN P : IsDefined(g, P[i])
  <2>1. \A i \in DOMAIN P : P[i] \in Nat
    BY <1>2
  <2>2. ToSet(P) = {P[i] : i \in DOMAIN P}
    BY DEF ToSet
  <2>3. \A i \in DOMAIN P : P[i] \in Known(g) <=> IsDefined(g, P[i])
    BY <2>1, KnownIsDefined
  <2> QED
    BY <2>2, <2>3
<1>4. \A i \in DOMAIN g.latches : g.latches[i].next \in Known(g) <=> IsDefined(g, g.latches[i].next)
  BY GraphParts, GraphElements, KnownIsDefined
<1>5. \A i \in DOMAIN g.ands :
        /\ g.ands[i].rhs0 \in Known(g) <=> IsDefined(g, g.ands[i].rhs0)
        /\ g.ands[i].rhs1 \in Known(g) <=> IsDefined(g, g.ands[i].rhs1)
  BY GraphParts, GraphElements, KnownIsDefined
<1> QED
  BY <1>1, <1>3, <1>4, <1>5 DEF KnownUses, AllDefined

\* Each literal is defined once, as the number of definitions says.
LEMMA DefinedOnceIs ==
    ASSUME NEW g \in Graphs
    PROVE  DefinedOnce(g) <=>
            /\ \A d : IsDefinedBy(g, d) => IsDefinition(g, d)
            /\ Cardinality(ToSet(Definitions(g))) = Len(Definitions(g))
<1>1. PICK I \in Nat, L \in Nat, A \in Nat : I = Len(g.inputs) /\ L = Len(g.latches) /\ A = Len(g.ands)
  BY GraphParts
<1>2. PICK d : d = Definitions(g)
  OBVIOUS
<1>3. /\ d \in Seq(Nat) /\ Len(d) = I + L + A
      /\ \A i \in 1 .. I : d[i] = g.inputs[i]
      /\ \A i \in 1 .. L : d[I + i] = g.latches[i].lit
      /\ \A i \in 1 .. A : d[I + L + i] = g.ands[i].lhs
  <2>1. HasDefinitions(g, d, I, L, A)
    BY <1>1, <1>2, DefinitionsAre
  <2> QED
    BY <2>1 DEF HasDefinitions
<1>4. PICK n \in Nat : n = I + L + A
  OBVIOUS
<1>5. DOMAIN d = 1 .. n
  BY <1>3, <1>4
<1>6. Cardinality(ToSet(d)) = n <=> \A i, j \in 1 .. n : d[i] = d[j] => i = j
  <2>1. d \in Surjection(1 .. n, ToSet(d))
    <3>1. ToSet(d) = {d[i] : i \in 1 .. n}
      BY <1>5 DEF ToSet
    <3>2. d \in [1 .. n -> ToSet(d)]
      BY <1>3, <1>5, <3>1
    <3> QED
      BY <3>1, <3>2 DEF Surjection
  <2>2. IsFiniteSet(1 .. n) /\ Cardinality(1 .. n) = n
    BY FS_Interval
  <2>3. Cardinality(ToSet(d)) = Cardinality(1 .. n) <=> d \in Injection(1 .. n, ToSet(d))
    BY <2>1, <2>2, FS_Surjection
  <2>4. d \in [1 .. n -> ToSet(d)]
    BY <2>1 DEF Surjection
  <2>5. d \in Injection(1 .. n, ToSet(d)) <=> \A i, j \in 1 .. n : d[i] = d[j] => i = j
    BY <1>5, <2>4 DEF Injection, IsInjective
  <2> QED
    BY <2>2, <2>3, <2>5
<1> DEFINE Once ==
            /\ \A i, j \in 1 .. I : g.inputs[i] = g.inputs[j] => i = j
            /\ \A i, j \in 1 .. L : g.latches[i].lit = g.latches[j].lit => i = j
            /\ \A i, j \in 1 .. A : g.ands[i].lhs = g.ands[j].lhs => i = j
            /\ \A i \in 1 .. I, j \in 1 .. L : g.inputs[i] # g.latches[j].lit
            /\ \A i \in 1 .. I, j \in 1 .. A : g.inputs[i] # g.ands[j].lhs
            /\ \A i \in 1 .. L, j \in 1 .. A : g.latches[i].lit # g.ands[j].lhs
<1>7. DefinedOnce(g) <=> (\A x : IsDefinedBy(g, x) => IsDefinition(g, x)) /\ Once
  BY <1>1 DEF DefinedOnce, IsDefinedBy
<1>8. ASSUME \A i, j \in 1 .. n : d[i] = d[j] => i = j
      PROVE  Once
  <2>0. /\ \A i \in 1 .. I : i \in 1 .. n
        /\ \A i \in 1 .. L : I + i \in 1 .. n
        /\ \A i \in 1 .. A : I + L + i \in 1 .. n
    BY <1>4
  <2>1. ASSUME NEW i \in 1 .. I, NEW j \in 1 .. I, g.inputs[i] = g.inputs[j] PROVE i = j
    BY ONLY <1>3, <1>8, <2>0, <2>1
  <2>2. ASSUME NEW i \in 1 .. L, NEW j \in 1 .. L, g.latches[i].lit = g.latches[j].lit PROVE i = j
    <3>1. I + i = I + j
      BY ONLY <1>3, <1>8, <2>0, <2>2
    <3> QED
      BY <3>1
  <2>3. ASSUME NEW i \in 1 .. A, NEW j \in 1 .. A, g.ands[i].lhs = g.ands[j].lhs PROVE i = j
    <3>1. I + L + i = I + L + j
      BY ONLY <1>3, <1>8, <2>0, <2>3
    <3> QED
      BY <3>1
  <2>4. ASSUME NEW i \in 1 .. I, NEW j \in 1 .. L, g.inputs[i] = g.latches[j].lit PROVE FALSE
    <3>1. i = I + j
      BY ONLY <1>3, <1>8, <2>0, <2>4
    <3> QED
      BY <3>1
  <2>5. ASSUME NEW i \in 1 .. I, NEW j \in 1 .. A, g.inputs[i] = g.ands[j].lhs PROVE FALSE
    <3>1. i = I + L + j
      BY ONLY <1>3, <1>8, <2>0, <2>5
    <3> QED
      BY <3>1
  <2>6. ASSUME NEW i \in 1 .. L, NEW j \in 1 .. A, g.latches[i].lit = g.ands[j].lhs PROVE FALSE
    <3>1. I + i = I + L + j
      BY ONLY <1>3, <1>8, <2>0, <2>6
    <3> QED
      BY <3>1
  <2> QED
    BY <2>1, <2>2, <2>3, <2>4, <2>5, <2>6
<1>9. ASSUME Once, NEW i \in 1 .. n, NEW j \in 1 .. n, d[i] = d[j]
      PROVE  i = j
  <2>1. ASSUME NEW k \in 1 .. n
        PROVE  \/ k \in 1 .. I /\ d[k] = g.inputs[k]
               \/ \E m \in 1 .. L : k = I + m /\ d[k] = g.latches[m].lit
               \/ \E m \in 1 .. A : k = I + L + m /\ d[k] = g.ands[m].lhs
    <3>1. CASE k <= I
      BY <1>3, <3>1
    <3>2. CASE I < k /\ k <= I + L
      <4>1. k - I \in 1 .. L /\ k = I + (k - I)
        BY <3>2
      <4> QED
        BY <1>3, <4>1
    <3>3. CASE I + L < k
      <4>1. k - I - L \in 1 .. A /\ k = I + L + (k - I - L)
        BY <1>4, <3>3
      <4> QED
        BY <1>3, <4>1
    <3> QED
      BY <3>1, <3>2, <3>3
  <2>2. CASE i \in 1 .. I /\ d[i] = g.inputs[i]
    <3>1. ~\E m \in 1 .. L : j = I + m /\ d[j] = g.latches[m].lit
      BY ONLY <1>9, <2>2
    <3>2. ~\E m \in 1 .. A : j = I + L + m /\ d[j] = g.ands[m].lhs
      BY ONLY <1>9, <2>2
    <3>3. j \in 1 .. I /\ d[j] = g.inputs[j]
      BY <2>1, <3>1, <3>2
    <3> QED
      BY ONLY <1>9, <2>2, <3>3
  <2>3. CASE \E m \in 1 .. L : i = I + m /\ d[i] = g.latches[m].lit
    <3>1. PICK m \in 1 .. L : i = I + m /\ d[i] = g.latches[m].lit
      BY <2>3
    <3>2. ~(j \in 1 .. I /\ d[j] = g.inputs[j])
      BY ONLY <1>9, <3>1
    <3>3. ~\E k \in 1 .. A : j = I + L + k /\ d[j] = g.ands[k].lhs
      BY ONLY <1>9, <3>1
    <3>4. PICK k \in 1 .. L : j = I + k /\ d[j] = g.latches[k].lit
      BY <2>1, <3>2, <3>3
    <3>5. m = k
      BY ONLY <1>9, <3>1, <3>4
    <3> QED
      BY <3>1, <3>4, <3>5
  <2>4. CASE \E m \in 1 .. A : i = I + L + m /\ d[i] = g.ands[m].lhs
    <3>1. PICK m \in 1 .. A : i = I + L + m /\ d[i] = g.ands[m].lhs
      BY <2>4
    <3>2. ~(j \in 1 .. I /\ d[j] = g.inputs[j])
      BY ONLY <1>9, <3>1
    <3>3. ~\E k \in 1 .. L : j = I + k /\ d[j] = g.latches[k].lit
      BY ONLY <1>9, <3>1
    <3>4. PICK k \in 1 .. A : j = I + L + k /\ d[j] = g.ands[k].lhs
      BY <2>1, <3>2, <3>3
    <3>5. m = k
      BY ONLY <1>9, <3>1, <3>4
    <3> QED
      BY <3>1, <3>4, <3>5
  <2> QED
    BY <2>1, <2>2, <2>3, <2>4
<1> QED
  BY <1>2, <1>3, <1>4, <1>6, <1>7, <1>8, <1>9

\* A property that the reader checks is one that aiger_check checks.
LEMMA WithoutJusticeDefined ==
    ASSUME NEW g \in Graphs, AllDefined(g), NEW i \in 1 .. Len(WithoutJustice(g))
    PROVE  WithoutJustice(g)[i] \in Nat /\ IsDefined(g, WithoutJustice(g)[i])
<1>1. PICK a, b, c, j, f : /\ a = g.outputs /\ b = g.bad /\ c = g.constraints
                           /\ j = g.justice /\ f = g.fairness
  OBVIOUS
<1>2. a \in Seq(Nat) /\ b \in Seq(Nat) /\ c \in Seq(Nat) /\ j \in Seq(Nat) /\ f \in Seq(Nat)
  BY <1>1, GraphParts
<1>3. PICK h : h = a \o b \o c
  OBVIOUS
<1>4. h \in Seq(Nat)
  BY ONLY <1>2, <1>3
<1>5. WithoutJustice(g) = h \o f /\ Properties(g) = h \o j \o f
  BY <1>1, <1>3 DEF WithoutJustice, Properties
<1>6. PICK w, p : w = h \o f /\ p = h \o j \o f
  OBVIOUS
<1>7. PICK H \in Nat, J \in Nat, F \in Nat : H = Len(h) /\ J = Len(j) /\ F = Len(f)
  BY ONLY <1>2, <1>4
<1>8. /\ w \in Seq(Nat) /\ Len(w) = H + F
      /\ \A k \in 1 .. H : w[k] = h[k]
      /\ \A k \in 1 .. F : w[H + k] = f[k]
  <2>1. w = h \o f
    BY <1>6
  <2>2. w \in Seq(Nat)
    BY ONLY <1>2, <1>4, <2>1
  <2>3. Len(w) = Len(h) + Len(f)
    BY ONLY <1>2, <1>4, <2>1
  <2>4. \A k \in 1 .. Len(h) : w[k] = h[k]
    BY ONLY <1>2, <1>4, <2>1
  <2>5. \A k \in 1 .. Len(f) : w[Len(h) + k] = f[k]
    BY ONLY <1>2, <1>4, <2>1
  <2> QED
    BY ONLY <1>7, <2>2, <2>3, <2>4, <2>5
<1>9. /\ p \in Seq(Nat) /\ Len(p) = H + J + F
      /\ \A k \in 1 .. H : p[k] = h[k]
      /\ \A k \in 1 .. F : p[H + J + k] = f[k]
  <2>1. PICK T : T = Nat
    OBVIOUS
  <2>2. h \in Seq(T) /\ j \in Seq(T) /\ f \in Seq(T)
    BY <1>2, <1>4, <2>1
  <2>3. PICK x : x = h \o j /\ p = x \o f
    BY <1>6
  <2>4. /\ p \in Seq(T) /\ Len(p) = Len(h) + Len(j) + Len(f)
        /\ \A k \in 1 .. Len(h) : p[k] = h[k]
        /\ \A k \in 1 .. Len(f) : p[Len(h) + Len(j) + k] = f[k]
    BY ONLY <2>2, <2>3, Concatenated
  <2> QED
    BY ONLY <1>7, <2>1, <2>4
<1>10. \A k \in 1 .. Len(p) : IsDefined(g, p[k])
  <2>1. DOMAIN p = 1 .. Len(p)
    BY ONLY <1>9
  <2>2. Properties(g) = p
    BY ONLY <1>5, <1>6
  <2> QED
    BY <2>1, <2>2, Zenon DEF AllDefined
<1>11. i \in 1 .. H + F
  BY <1>5, <1>6, <1>8
<1>12. \E k \in 1 .. H + J + F : w[i] = p[k]
  <2>1. CASE i <= H
    <3>1. i \in 1 .. H /\ i \in 1 .. H + J + F
      BY <1>11, <2>1
    <3> QED
      BY <1>8, <1>9, <3>1
  <2>2. CASE i > H
    <3>1. PICK k \in 1 .. F : i = H + k
      <4>1. i - H \in 1 .. F /\ i = H + (i - H)
        BY <1>11, <2>2
      <4> QED
        BY <4>1
    <3>2. H + J + k \in 1 .. H + J + F
      BY <3>1
    <3> QED
      BY <1>8, <1>9, <3>1, <3>2
  <2> QED
    BY <1>11, <2>1, <2>2
<1>13. w[i] \in Nat
  BY <1>8, <1>11
<1> QED
  BY <1>5, <1>6, <1>9, <1>10, <1>12, <1>13

\* A graph that is well-formed is read to its end.
LEMMA WellFormedIsReadable ==
    ASSUME NEW g \in Graphs, DefinedOnce(g), AllDefined(g), NEW k \in 1 .. Len(Lines(g))
    PROVE  IsReadable(g, k)
<1>0. WithoutJustice(g) \in Seq(Nat)
  BY WithoutJusticeType
<1>1. PICK I \in Nat, L \in Nat, W \in Nat, A \in Nat, N \in Nat :
            /\ I = Len(g.inputs) /\ L = Len(g.latches) /\ W = Len(WithoutJustice(g)) /\ A = Len(g.ands)
            /\ N = Len(Lines(g))
  <2>1. Len(Lines(g)) \in Nat /\ Len(WithoutJustice(g)) \in Nat
    BY <1>0, LinesAre
  <2>2. Len(g.inputs) \in Nat /\ Len(g.latches) \in Nat /\ Len(g.ands) \in Nat
    BY GraphParts
  <2> QED
    BY ONLY <2>1, <2>2, Zenon
<1>2. N = I + L + W + A
  BY <1>1, LinesAre
<1> DEFINE Is(m, l) == \/ m \in 1 .. I /\ l = g.inputs[m]
                       \/ \E i \in 1 .. L : m = I + i /\ l = g.latches[i].lit
                       \/ \E i \in 1 .. A : m = I + L + W + i /\ l = g.ands[i].lhs
<1>3. \A x : ToSet(<<x>>) = {x}
  BY DEF ToSet
<1>4. ToSet(<<>>) = {}
  BY DEF ToSet
<1>5. ASSUME NEW m \in 1 .. N
      PROVE  /\ \A l \in ToSet(Lines(g)[m].def) : Is(m, l)
             /\ \A l \in Lines(g)[m].uses : l \in Nat /\ IsDefined(g, l)
  <2>1. CASE m <= I
    <3>1. m \in 1 .. I /\ m \in 1 .. Len(g.inputs) /\ m = InputLine(g, m)
      BY <1>1, <2>1 DEF InputLine
    <3>2. Lines(g)[m] = [def |-> <<g.inputs[m]>>, uses |-> {}]
      BY <3>1, LinesAre, Zenon
    <3> QED
      BY ONLY <1>3, <3>1, <3>2
  <2>2. CASE I < m /\ m <= I + L
    <3>1. PICK i \in 1 .. L : m = I + i
      <4>1. m - I \in 1 .. L /\ m = I + (m - I)
        BY <2>2
      <4> QED
        BY <4>1
    <3>2. i \in 1 .. Len(g.latches) /\ m = LatchLine(g, i)
      BY <1>1, <3>1 DEF LatchLine
    <3>3. Lines(g)[m] = [def |-> <<g.latches[i].lit>>, uses |-> {g.latches[i].next}]
      BY <3>2, LinesAre, Zenon
    <3>4. g.latches[i].next \in Nat /\ IsDefined(g, g.latches[i].next)
      BY <3>2, GraphParts, GraphElements DEF AllDefined
    <3> QED
      BY ONLY <1>3, <3>1, <3>3, <3>4
  <2>3. CASE I + L < m /\ m <= I + L + W
    <3>1. PICK i \in 1 .. W : m = I + L + i
      <4>1. m - I - L \in 1 .. W /\ m = I + L + (m - I - L)
        BY <2>3
      <4> QED
        BY <4>1
    <3>2. i \in 1 .. Len(WithoutJustice(g)) /\ m = PropertyLine(g, i)
      BY <1>1, <3>1 DEF PropertyLine
    <3>3. Lines(g)[m] = [def |-> <<>>, uses |-> {WithoutJustice(g)[i]}]
      BY <3>2, LinesAre, Zenon
    <3>4. WithoutJustice(g)[i] \in Nat /\ IsDefined(g, WithoutJustice(g)[i])
      BY <3>2, WithoutJusticeDefined
    <3> QED
      BY ONLY <1>4, <3>3, <3>4
  <2>4. CASE I + L + W < m
    <3>1. PICK i \in 1 .. A : m = I + L + W + i
      <4>1. m - I - L - W \in 1 .. A /\ m = I + L + W + (m - I - L - W)
        BY <1>2, <2>4
      <4> QED
        BY <4>1
    <3>2. i \in 1 .. Len(g.ands) /\ m = GateLine(g, i)
      BY <1>1, <3>1 DEF GateLine
    <3>3. Lines(g)[m] = [def |-> <<g.ands[i].lhs>>, uses |-> {g.ands[i].rhs0, g.ands[i].rhs1}]
      BY <3>2, LinesAre, Zenon
    <3>4. /\ g.ands[i].rhs0 \in Nat /\ IsDefined(g, g.ands[i].rhs0)
          /\ g.ands[i].rhs1 \in Nat /\ IsDefined(g, g.ands[i].rhs1)
      BY <3>2, GraphParts, GraphElements DEF AllDefined
    <3> QED
      BY ONLY <1>3, <3>1, <3>3, <3>4
  <2> QED
    BY <2>1, <2>2, <2>3, <2>4
<1>6. /\ \A i, j \in 1 .. I : g.inputs[i] = g.inputs[j] => i = j
      /\ \A i, j \in 1 .. L : g.latches[i].lit = g.latches[j].lit => i = j
      /\ \A i, j \in 1 .. A : g.ands[i].lhs = g.ands[j].lhs => i = j
      /\ \A i \in 1 .. I, j \in 1 .. L : g.inputs[i] # g.latches[j].lit
      /\ \A i \in 1 .. I, j \in 1 .. A : g.inputs[i] # g.ands[j].lhs
      /\ \A i \in 1 .. L, j \in 1 .. A : g.latches[i].lit # g.ands[j].lhs
  BY <1>1 DEF DefinedOnce
<1>7. ASSUME NEW m, NEW q, NEW l, Is(m, l), Is(q, l) PROVE m = q
  <2>1. CASE m \in 1 .. I /\ l = g.inputs[m]
    BY ONLY <1>6, <1>7, <2>1
  <2>2. CASE \E i \in 1 .. L : m = I + i /\ l = g.latches[i].lit
    BY ONLY <1>6, <1>7, <2>2
  <2>3. CASE \E i \in 1 .. A : m = I + L + W + i /\ l = g.ands[i].lhs
    BY ONLY <1>6, <1>7, <2>3
  <2> QED
    BY ONLY <1>7, <2>1, <2>2, <2>3
<1>8. ASSUME NEW m, NEW l, Is(m, l) PROVE IsDefinition(g, l)
  BY <1>1, <1>8 DEF DefinedOnce
<1> HIDE DEF Is
<1>9. k \in 1 .. N
  BY <1>1
<1>10. ASSUME NEW l \in ToSet(Lines(g)[k].def)
       PROVE  /\ l # 0 /\ Sign(l) = 0 /\ Var(l) <= g.maxvar
              /\ \A j \in 1 .. k - 1 : l \notin ToSet(Lines(g)[j].def)
  <2>1. Is(k, l)
    BY <1>5, <1>9, <1>10
  <2>2. PICK v \in 1 .. g.maxvar : l = 2 * v
    BY <1>8, <2>1 DEF IsDefinition
  <2>3. v \in Nat /\ v <= g.maxvar /\ v # 0
    BY GraphParts
  <2>4. Sign(l) = 0 /\ Var(l) = v /\ l # 0
    <3>1. Var(2 * v) = v /\ Sign(2 * v) = 0
      BY <2>3, VarOfPositive
    <3>2. 2 * v # 0
      BY <2>3
    <3> QED
      BY <2>2, <3>1, <3>2
  <2>5. ASSUME NEW j \in 1 .. k - 1, l \in ToSet(Lines(g)[j].def) PROVE FALSE
    <3>1. j \in 1 .. N /\ j # k
      BY <1>9
    <3>2. Is(j, l)
      BY <1>5, <2>5, <3>1
    <3> QED
      BY <1>7, <2>1, <3>1, <3>2
  <2> QED
    BY <2>3, <2>4, <2>5
<1>11. ASSUME NEW l \in Lines(g)[k].uses PROVE Var(l) <= g.maxvar
  <2>1. l \in Nat /\ IsDefined(g, l)
    BY <1>5, <1>9, <1>11
  <2>2. Var(l) \in 0 .. g.maxvar
    BY <2>1, DefinedInRange DEF Sound
  <2> QED
    BY <2>2, GraphParts
<1> QED
  BY <1>10, <1>11 DEF IsReadable

-----------------------------------------------------------------------------
(* Ranks of gates by position, and by variable.                            *)

\* The positive literal of a variable.
LEMMA StripIs ==
    ASSUME NEW l \in Nat
    PROVE  Strip(l) = 2 * Var(l)
BY DEF Strip, Sign, Var

\* A rank of the gates is one of their variables.
LEMMA GateOrderIsRank ==
    ASSUME NEW g, Sound(g), NEW rank \in [DOMAIN g.ands -> DOMAIN g.ands], IsGateOrder(g, rank)
    PROVE  Ranks(g) # {}
<1>1. PICK A \in Nat : DOMAIN g.ands = 1 .. A
  BY GraphParts DEF Sound
<1> DEFINE at(v) == CHOOSE i \in DOMAIN g.ands : g.ands[i].lhs = 2 * v
           q == [v \in 1 .. g.maxvar |-> IF IsAnd(g, v) THEN rank[at(v)] ELSE 0]
<1>2. ASSUME NEW v \in 1 .. g.maxvar, IsAnd(g, v)
      PROVE  at(v) \in DOMAIN g.ands /\ g.ands[at(v)].lhs = 2 * v
  BY <1>2 DEF IsAnd
<1>3. \A v \in 1 .. g.maxvar : IsAnd(g, v) => q[v] = rank[at(v)] /\ q[v] \in Nat
  BY <1>1, <1>2
<1>4. q \in [1 .. g.maxvar -> Nat]
  BY <1>1, <1>2
<1> HIDE DEF q
<1>5. ASSUME NEW v \in 1 .. g.maxvar, NEW c \in 1 .. g.maxvar,
             IsAnd(g, v), IsAnd(g, c), IsChild(g, c, v)
      PROVE  q[c] < q[v]
  <2>1. PICK j \in DOMAIN g.ands :
            g.ands[j].lhs = 2 * v /\ c \in {Var(g.ands[j].rhs0), Var(g.ands[j].rhs1)}
    BY <1>5 DEF IsChild
  <2>2. v \in Nat /\ c \in Nat
    BY GraphParts DEF Sound
  <2>3. \A i \in DOMAIN g.ands : g.ands[i] \in [lhs : Nat, rhs0 : Nat, rhs1 : Nat]
    BY GraphParts, ElementOfSequence DEF Sound
  <2>4. \A i, k \in DOMAIN g.ands : g.ands[i].lhs = g.ands[k].lhs => i = k
    <3>1. DOMAIN g.ands = 1 .. Len(g.ands)
      BY GraphParts DEF Sound
    <3>2. \A i, k \in 1 .. Len(g.ands) : g.ands[i].lhs = g.ands[k].lhs => i = k
      BY DEF Sound, DefinedOnce
    <3> QED
      BY ONLY <3>1, <3>2, Zenon
  <2>5. j = at(v)
    BY <1>2, <1>5, <2>1, <2>4
  <2>6. PICK i \in DOMAIN g.ands : i = at(c) /\ g.ands[i].lhs = 2 * c
    BY <1>2, <1>5
  <2>7. Strip(g.ands[i].lhs) = 2 * c
    <3>1. Strip(2 * c) = 2 * Var(2 * c) /\ Var(2 * c) = c
      BY <2>2, StripIs, VarOfPositive
    <3> QED
      BY <2>6, <3>1
  <2>8. /\ Strip(g.ands[j].rhs0) = 2 * Var(g.ands[j].rhs0)
        /\ Strip(g.ands[j].rhs1) = 2 * Var(g.ands[j].rhs1)
    BY <2>3, StripIs
  <2>9. Strip(g.ands[i].lhs) \in {Strip(g.ands[j].rhs0), Strip(g.ands[j].rhs1)}
    BY <2>1, <2>7, <2>8
  <2>10. rank[i] < rank[j]
    BY <2>9 DEF IsGateOrder
  <2> QED
    BY <1>3, <1>5, <2>5, <2>6, <2>10
<1>6. q \in Ranks(g)
  BY <1>4, <1>5 DEF Ranks
<1> QED
  BY <1>6

\* The order in which gates are left is a rank of the gates.
LEMMA OrderIsGateOrder ==
    ASSUME NEW g, Sound(g), LeftInOrder(g, {v \in 1 .. g.maxvar : IsAnd(g, v)})
    PROVE  \E rank \in [DOMAIN g.ands -> DOMAIN g.ands] : IsGateOrder(g, rank)
<1>1. PICK A \in Nat : DOMAIN g.ands = 1 .. A
  BY GraphParts DEF Sound
<1>2. PICK fin : fin = {v \in 1 .. g.maxvar : IsAnd(g, v)}
  OBVIOUS
<1>3. PICK r \in [1 .. g.maxvar -> Nat] :
        /\ \A v \in fin : r[v] \in 1 .. Cardinality(fin)
        /\ \A v \in fin : \A c : IsChild(g, c, v) /\ c # 0 /\ IsAnd(g, c) => c \in fin /\ r[c] < r[v]
  BY <1>2 DEF LeftInOrder
<1>4. ASSUME NEW i \in 1 .. A
      PROVE  /\ Var(g.ands[i].lhs) \in fin /\ g.ands[i].lhs = 2 * Var(g.ands[i].lhs)
             /\ Var(g.ands[i].lhs) \in Nat /\ Var(g.ands[i].lhs) # 0
  <2>1. PICK v \in 1 .. g.maxvar : g.ands[i].lhs = 2 * v
    BY <1>1, GraphParts DEF Sound, DefinedOnce, IsDefinition
  <2>2. v \in Nat /\ v # 0
    BY GraphParts DEF Sound
  <2>3. Var(g.ands[i].lhs) = v
    BY <2>1, <2>2, VarOfPositive
  <2>4. IsAnd(g, v)
    BY <1>1, <2>1 DEF IsAnd
  <2> QED
    BY <1>2, <2>1, <2>2, <2>3, <2>4
<1> DEFINE h == [i \in 1 .. A |-> Var(g.ands[i].lhs)]
<1>5. Cardinality(fin) = A
  <2>1. h \in [1 .. A -> fin] /\ DOMAIN h = 1 .. A
    BY <1>4
  <2>2. \A i, j \in 1 .. A : h[i] = h[j] => i = j
    <3>1. \A i, j \in 1 .. A : g.ands[i].lhs = g.ands[j].lhs => i = j
      BY <1>1, GraphParts DEF Sound, DefinedOnce
    <3> QED
      BY <1>4, <3>1
  <2>3. \A v \in fin : \E i \in 1 .. A : h[i] = v
    <3> SUFFICES ASSUME NEW v \in fin PROVE \E i \in 1 .. A : h[i] = v
      OBVIOUS
    <3>1. PICK i \in 1 .. A : g.ands[i].lhs = 2 * v
      BY <1>1, <1>2 DEF IsAnd
    <3>2. v \in Nat
      BY <1>2, GraphParts DEF Sound
    <3>3. Var(g.ands[i].lhs) = v
      BY <3>1, <3>2, VarOfPositive
    <3> QED
      BY <3>3
  <2> HIDE DEF h
  <2>4. h \in Injection(1 .. A, fin)
    BY <2>1, <2>2 DEF Injection, IsInjective
  <2>5. h \in Surjection(1 .. A, fin)
    BY <2>1, <2>3 DEF Surjection
  <2>6. ExistsBijection(1 .. A, fin)
    BY <2>4, <2>5 DEF ExistsBijection, Bijection
  <2> QED
    BY <2>6, FS_CountingElements
<1> DEFINE rank == [i \in 1 .. A |-> r[Var(g.ands[i].lhs)]]
<1>6. rank \in [1 .. A -> 1 .. A]
  BY <1>3, <1>4, <1>5
<1>7. ASSUME NEW i \in 1 .. A, NEW j \in 1 .. A,
             Strip(g.ands[i].lhs) \in {Strip(g.ands[j].rhs0), Strip(g.ands[j].rhs1)}
      PROVE  rank[i] < rank[j]
  <2>1. PICK u, v : u = Var(g.ands[i].lhs) /\ v = Var(g.ands[j].lhs)
    OBVIOUS
  <2>2. /\ u \in fin /\ g.ands[i].lhs = 2 * u /\ u \in Nat /\ u # 0
        /\ v \in fin /\ g.ands[j].lhs = 2 * v
    BY <1>4, <2>1
  <2>3. g.ands[j] \in [lhs : Nat, rhs0 : Nat, rhs1 : Nat]
    BY <1>1, GraphParts, ElementOfSequence DEF Sound
  <2>4. PICK x \in Nat, y \in Nat : x = g.ands[j].rhs0 /\ y = g.ands[j].rhs1
    BY <2>3
  <2>5. 2 * u = 2 * Var(x) \/ 2 * u = 2 * Var(y)
    <3>1. Strip(g.ands[i].lhs) = 2 * u
      BY <2>1, <2>2, StripIs
    <3>2. Strip(x) = 2 * Var(x) /\ Strip(y) = 2 * Var(y)
      BY StripIs
    <3> QED
      BY ONLY <1>7, <2>4, <3>1, <3>2
  <2>6. u \in {Var(x), Var(y)}
    <3>1. Var(x) \in Nat /\ Var(y) \in Nat
      BY LiteralParts
    <3> QED
      BY ONLY <2>2, <2>5, <3>1
  <2>7. IsChild(g, u, v)
    BY <1>1, <2>2, <2>4, <2>6 DEF IsChild
  <2>8. IsAnd(g, u)
    BY <1>2, <2>2
  <2>9. r[u] < r[v]
    BY <1>3, <2>2, <2>7, <2>8
  <2> QED
    BY <2>1, <2>9
<1> HIDE DEF rank
<1>8. IsGateOrder(g, rank)
  BY <1>1, <1>7 DEF IsGateOrder
<1> QED
  BY <1>1, <1>6, <1>8

-----------------------------------------------------------------------------
(* The checks of the library, and well-formed graphs.                      *)

\* A well-formed graph passes the checks.
LEMMA WellFormedIsChecked ==
    ASSUME NEW g \in Graphs, WellFormed(g)
    PROVE  /\ \A k \in 1 .. Len(Lines(g)) : IsReadable(g, k)
           /\ AllDefined(g)
           /\ Ranks(g) # {}
<1>1. \A d : IsDefinedBy(g, d) => IsDefinition(g, d)
  BY WellFormedIs, SetOfDefinitions DEF IsDefinition
<1>2. DefinedOnce(g)
  BY <1>1, WellFormedIs, DefinedOnceIs
<1>3. AllDefined(g)
  BY <1>1, WellFormedIs, KnownUsesIs
<1>4. Sound(g)
  BY <1>2, <1>3 DEF Sound
<1>5. Ranks(g) # {}
  BY <1>4, WellFormedIs, GateOrderIsRank
<1> QED
  BY <1>2, <1>3, <1>5, WellFormedIsReadable

\* A graph that passes the checks is well-formed.
LEMMA CheckedIsWellFormed ==
    ASSUME NEW g, Sound(g), LeftInOrder(g, {v \in 1 .. g.maxvar : IsAnd(g, v)})
    PROVE  WellFormed(g)
<1>1. /\ \A d : IsDefinedBy(g, d) => IsDefinition(g, d)
      /\ Cardinality(ToSet(Definitions(g))) = Len(Definitions(g))
  BY DefinedOnceIs DEF Sound
<1>2. \A l \in ToSet(Definitions(g)) : l \in {2 * v : v \in 1 .. g.maxvar}
  BY <1>1, SetOfDefinitions DEF Sound, IsDefinition
<1>3. KnownUses(g)
  BY <1>1, KnownUsesIs DEF Sound
<1> QED
  BY <1>1, <1>2, <1>3, OrderIsGateOrder, WellFormedIs

-----------------------------------------------------------------------------
(* The command line: what the parser has collected of the arguments it has *)
(* passed.                                                                 *)

\* The first occurrence of a key counts.
LEMMA FirstIs ==
    ASSUME NEW cl, IsCommandLine(cl), NEW i \in 1 .. Len(cl), \A j \in 1 .. i - 1 : cl[j].key # cl[i].key
    PROVE  FirstOf(cl, cl[i].key) = cl[i].value
<1>1. PICK n \in Nat : n = Len(cl) /\ DOMAIN cl = 1 .. n
  BY LengthOf DEF IsCommandLine
<1>2. PICK k : k = cl[i].key
  OBVIOUS
<1> DEFINE at == {j \in DOMAIN cl : cl[j].key = k}
<1>3. i \in at /\ at \subseteq Nat
  BY <1>1, <1>2
<1>a. ASSUME NEW j \in at PROVE i <= j
  <2>1. j \in 1 .. n /\ i \in 1 .. n /\ cl[j].key = cl[i].key
    BY <1>1, <1>2
  <2>2. j \notin 1 .. i - 1
    BY <2>1
  <2> QED
    BY ONLY <2>1, <2>2, n \in Nat
<1>4. ASSUME NEW j \in at, \A m \in at : j <= m PROVE j = i
  <2>1. j <= i /\ i <= j /\ i \in Nat /\ j \in Nat
    BY <1>3, <1>a, <1>4
  <2> QED
    BY ONLY <2>1
<1>5. (CHOOSE j \in at : \A m \in at : j <= m) = i
  BY <1>3, <1>a, <1>4
<1>6. FirstOf(cl, k) = IF at = {} THEN <<>> ELSE cl[CHOOSE j \in at : \A m \in at : j <= m].value
  BY DEF FirstOf
<1> HIDE DEF at
<1> QED
  BY <1>2, <1>3, <1>5, <1>6

\* The options among the first n arguments have been collected.
OptsInv ==
    /\ \A k : k \in DOMAIN opts <=> k # "" /\ \E i \in 1 .. arg : args[i].key = k
    /\ \A k \in DOMAIN opts : opts[k] = FirstOf(args, k)

\* There is at most one path among them, and inputFile has it.
PathInv ==
    /\ inputFile = <<>> => \A i \in 1 .. arg : ~IsPath(args[i])
    /\ inputFile # <<>> => \E p \in 1 .. arg :
            /\ IsPath(args[p]) /\ inputFile = args[p].value
            /\ \A i \in 1 .. arg : IsPath(args[i]) => i = p

CommandInv ==
    /\ IsCommandLine(args)
    /\ arg \in 0 .. Len(args)
    /\ OptsInv
    /\ PathInv

\* Nothing has been parsed at first.
LEMMA InitCommandInv == Init => CommandInv
<1> SUFFICES ASSUME Init PROVE CommandInv
  OBVIOUS
<1>1. IsCommandLine(args)
  BY InvocationsAssumption DEF Init
<1>2. Len(args) \in Nat
  BY <1>1, LengthOf DEF IsCommandLine
<1>3. arg = 0 /\ inputFile = <<>> /\ opts = <<>>
  BY DEF Init
<1>4. DOMAIN opts = {} /\ \A i \in 1 .. arg : FALSE
  BY <1>3
<1>5. OptsInv /\ PathInv
  BY <1>3, <1>4 DEF OptsInv, PathInv
<1> QED
  BY <1>1, <1>2, <1>3, <1>5 DEF CommandInv

\* An argument is parsed.
LEMMA ParseArgumentKeeps ==
    ASSUME CommandInv, ParseArgument
    PROVE  CommandInv'
<1>1. PICK n \in Nat : n = Len(args) /\ DOMAIN args = 1 .. n
  BY LengthOf DEF CommandInv, IsCommandLine
<1>2. PICK a : a = args[arg + 1]
  OBVIOUS
<1>3. arg < n /\ arg' = arg + 1 /\ UNCHANGED args
  BY <1>1 DEF ParseArgument
<1>4. arg \in 0 .. n /\ arg + 1 \in 1 .. n
  BY <1>1, <1>3 DEF CommandInv
<1>5. /\ IsCommandLine(args)
      /\ \A k : k \in DOMAIN opts <=> k # "" /\ \E i \in 1 .. arg : args[i].key = k
      /\ \A k \in DOMAIN opts : opts[k] = FirstOf(args, k)
      /\ inputFile = <<>> => \A i \in 1 .. arg : ~IsPath(args[i])
      /\ inputFile # <<>> => \E p \in 1 .. arg :
            /\ IsPath(args[p]) /\ inputFile = args[p].value
            /\ \A i \in 1 .. arg : IsPath(args[i]) => i = p
  BY DEF CommandInv, OptsInv, PathInv
<1>6. \A i : i \in 1 .. arg + 1 <=> i \in 1 .. arg \/ i = arg + 1
  BY <1>4
<1>a. arg' \in 0 .. Len(args')
  BY <1>1, <1>3, <1>4
<1>b. IsCommandLine(args')
  BY <1>3, <1>5
<1>7. CASE IsPath(a)
  <2>1. inputFile = <<>> /\ inputFile' = a.value /\ UNCHANGED opts
    BY <1>2, <1>7 DEF ParseArgument
  <2>2. a.value # <<>>
    BY <1>1, <1>2, <1>4, <1>5, <1>7 DEF IsCommandLine, IsPath
  <2>3. OptsInv'
    BY <1>2, <1>3, <1>5, <1>6, <1>7, <2>1 DEF OptsInv, IsPath
  <2>4. PathInv'
    BY <1>2, <1>3, <1>5, <1>6, <1>7, <2>1, <2>2 DEF PathInv
  <2> QED
    BY <1>a, <1>b, <2>3, <2>4 DEF CommandInv
<1>8. CASE ~IsPath(a)
  <2>1. opts' = Emplace(opts, a.key, a.value) /\ UNCHANGED inputFile
    BY <1>2, <1>8 DEF ParseArgument
  <2>2. a.key # ""
    BY <1>8 DEF IsPath
  <2>3. /\ DOMAIN opts' = DOMAIN opts \cup {a.key}
        /\ \A k \in DOMAIN opts : opts'[k] = opts[k]
        /\ a.key \notin DOMAIN opts => opts'[a.key] = a.value
    BY <2>1 DEF Emplace
  <2>4. \A k : k \in DOMAIN opts' <=> k # "" /\ \E i \in 1 .. arg + 1 : args[i].key = k
    BY <1>2, <1>5, <1>6, <2>2, <2>3
  <2>5. a.key \notin DOMAIN opts => a.value = FirstOf(args, a.key)
    <3> SUFFICES ASSUME a.key \notin DOMAIN opts PROVE a.value = FirstOf(args, a.key)
      OBVIOUS
    <3>1. \A i \in 1 .. arg : args[i].key # a.key
      BY <1>5, <2>2
    <3>2. PICK m : m = arg + 1
      OBVIOUS
    <3>3. m \in 1 .. Len(args) /\ 1 .. m - 1 = 1 .. arg
      BY <1>1, <1>4, <3>2
    <3> QED
      BY <1>2, <1>5, <3>1, <3>2, <3>3, FirstIs
  <2>6. \A k \in DOMAIN opts' : opts'[k] = FirstOf(args, k)
    BY <1>5, <2>3, <2>5
  <2>7. OptsInv'
    BY <1>3, <2>4, <2>6 DEF OptsInv
  <2>8. PathInv'
    BY <1>2, <1>3, <1>5, <1>6, <1>8, <2>1 DEF PathInv
  <2> QED
    BY <1>a, <1>b, <2>7, <2>8 DEF CommandInv
<1> QED
  BY <1>7, <1>8

-----------------------------------------------------------------------------
(* The parts of ExpectedExit.                                              *)

Keys == {args[i].key : i \in DOMAIN args}

PathArguments == {i \in DOMAIN args : IsPath(args[i])}

EngineName == IF "-e" \in Keys THEN FirstOf(args, "-e") ELSE FirstOf(args, "--engine")

BadUsage ==
    \/ PathArguments = {}
    \/ Cardinality(PathArguments) # 1
    \/ \A k \in {"-e", "--engine"} : k \notin Keys
    \/ \E k \in {"-e", "--engine"} \cap Keys : FirstOf(args, k) = <<>>
    \/ \E k \in Keys \ (Reserved \cup {""}) :
            FirstOf(args, k) # <<>> /\ FirstOf(args, k)[1] \notin DOMAIN Numerals

\* What the first of the errors is about.
UsageMessage ==
    IF PathArguments = {} THEN "no path"
    ELSE IF Cardinality(PathArguments) # 1 THEN "second path"
    ELSE IF \A k \in {"-e", "--engine"} : k \notin Keys THEN "no engine"
    ELSE IF \E k \in {"-e", "--engine"} \cap Keys : FirstOf(args, k) = <<>> THEN "no engine name"
    ELSE "not an integer"

GivenPath == args[CHOOSE i \in PathArguments : TRUE].value[1]

IsEngineName(name) == name \in {"bmc", "pdr", "car", "fcar", "bcar"}

\* One property, which is an output or a bad state, and nothing else.
HasOneProperty(g) ==
    ~(\/ Len(g.outputs \o g.bad) # 1 \/ g.numJustice # 0
      \/ g.constraints \o g.fairness # <<>>)

\* The arguments and the file get the program past the named check.
PastUsage == ~HelpRequested /\ ~BadUsage
PastInput == PastUsage /\ GivenPath \in Paths /\ WellFormed(file)
PastEngine == PastInput /\ IsEngineName(EngineName[1])

\* The cases of ExpectedExit.
LEMMA ExpectedExitIs ==
    /\ HelpRequested => ExpectedExit = [message |-> "help", code |-> 0]
    /\ ~HelpRequested /\ BadUsage => ExpectedExit = [message |-> UsageMessage, code |-> 1]
    /\ PastUsage /\ ~PastInput => ExpectedExit = [message |-> "input", code |-> 1]
    /\ PastInput /\ ~PastEngine => ExpectedExit = [message |-> "engine", code |-> 1]
    /\ PastEngine /\ ~HasOneProperty(file) => ExpectedExit = [message |-> "unsupported", code |-> 1]
    /\ PastEngine /\ HasOneProperty(file) => ExpectedExit = [message |-> "witness", code |-> 0]
<1>1. ExpectedExit =
        IF HelpRequested THEN [message |-> "help", code |-> 0]
        ELSE IF PathArguments = {} THEN [message |-> "no path", code |-> 1]
        ELSE IF Cardinality(PathArguments) # 1 THEN [message |-> "second path", code |-> 1]
        ELSE IF \A k \in {"-e", "--engine"} : k \notin Keys THEN [message |-> "no engine", code |-> 1]
        ELSE IF \E k \in {"-e", "--engine"} \cap Keys : FirstOf(args, k) = <<>>
        THEN [message |-> "no engine name", code |-> 1]
        ELSE IF \E k \in Keys \ (Reserved \cup {""}) :
                    FirstOf(args, k) # <<>> /\ FirstOf(args, k)[1] \notin DOMAIN Numerals
        THEN [message |-> "not an integer", code |-> 1]
        ELSE IF GivenPath \notin Paths \/ ~WellFormed(file) THEN [message |-> "input", code |-> 1]
        ELSE IF ~IsEngineName(EngineName[1]) THEN [message |-> "engine", code |-> 1]
        ELSE IF \/ Len(file.outputs \o file.bad) # 1 \/ file.numJustice # 0
                \/ file.constraints \o file.fairness # <<>>
        THEN [message |-> "unsupported", code |-> 1]
        ELSE [message |-> "witness", code |-> 0]
  BY Zenon DEF ExpectedExit, GivenPath, EngineName, IsEngineName, Keys, PathArguments
<1>a. ExpectedExit =
        IF HelpRequested THEN [message |-> "help", code |-> 0]
        ELSE IF BadUsage THEN [message |-> UsageMessage, code |-> 1]
        ELSE IF GivenPath \notin Paths \/ ~WellFormed(file) THEN [message |-> "input", code |-> 1]
        ELSE IF ~IsEngineName(EngineName[1]) THEN [message |-> "engine", code |-> 1]
        ELSE IF ~HasOneProperty(file) THEN [message |-> "unsupported", code |-> 1]
        ELSE [message |-> "witness", code |-> 0]
  BY ONLY <1>1, Zenon DEF BadUsage, UsageMessage, HasOneProperty
<1>2. ASSUME HelpRequested PROVE ExpectedExit = [message |-> "help", code |-> 0]
  BY ONLY <1>a, <1>2, Zenon
<1>3. ASSUME ~HelpRequested, BadUsage PROVE ExpectedExit = [message |-> UsageMessage, code |-> 1]
  BY ONLY <1>a, <1>3, Zenon
<1>4. ASSUME PastUsage, ~PastInput PROVE ExpectedExit = [message |-> "input", code |-> 1]
  BY ONLY <1>a, <1>4, Zenon DEF PastUsage, PastInput
<1>5. ASSUME PastInput, ~PastEngine PROVE ExpectedExit = [message |-> "engine", code |-> 1]
  BY ONLY <1>a, <1>5, Zenon DEF PastUsage, PastInput, PastEngine
<1>6. ASSUME PastEngine, ~HasOneProperty(file) PROVE ExpectedExit = [message |-> "unsupported", code |-> 1]
  BY ONLY <1>a, <1>6, Zenon DEF PastUsage, PastInput, PastEngine
<1>7. ASSUME PastEngine, HasOneProperty(file) PROVE ExpectedExit = [message |-> "witness", code |-> 0]
  BY ONLY <1>a, <1>7, Zenon DEF PastUsage, PastInput, PastEngine
<1> QED
  BY ONLY <1>2, <1>3, <1>4, <1>5, <1>6, <1>7, Zenon

\* It is about the arguments and the file alone.
LEMMA ExpectedExitStays ==
    ASSUME UNCHANGED <<args, file>>
    PROVE  /\ ExpectedExit' = ExpectedExit /\ (HelpRequested' <=> HelpRequested)
           /\ (BadUsage' <=> BadUsage) /\ GivenPath' = GivenPath /\ EngineName' = EngineName
<1>1. args' = args /\ file' = file
  OBVIOUS
<1>2. ExpectedExit' = ExpectedExit
  BY <1>1 DEF ExpectedExit, HelpRequested
<1>3. (HelpRequested' <=> HelpRequested) /\ (BadUsage' <=> BadUsage)
  BY <1>1 DEF HelpRequested, BadUsage, Keys, PathArguments
<1>4. GivenPath' = GivenPath /\ EngineName' = EngineName
  BY <1>1 DEF GivenPath, EngineName, Keys, PathArguments
<1> QED
  BY <1>2, <1>3, <1>4

\* The length of two sequences, joined.
LEMMA JoinedLength ==
    ASSUME NEW p \in Seq(Nat), NEW q \in Seq(Nat)
    PROVE  p \o q \in Seq(Nat) /\ Len(p \o q) = Len(p) + Len(q)
<1>1. p \o q \in Seq(Nat)
  OBVIOUS
<1>2. Len(p \o q) = Len(p) + Len(q)
  OBVIOUS
<1> QED
  BY <1>1, <1>2

\* IsSupported, in the terms of ExpectedExit.
LEMMA SupportedIs ==
    ASSUME NEW g \in Graphs
    PROVE  IsSupported(g) <=> HasOneProperty(g)
<1>1. PICK o, b, c, f : o = g.outputs /\ b = g.bad /\ c = g.constraints /\ f = g.fairness
  OBVIOUS
<1>2. o \in Seq(Nat) /\ b \in Seq(Nat) /\ c \in Seq(Nat) /\ f \in Seq(Nat)
  BY <1>1, GraphParts
<1>3. Len(o \o b) = Len(o) + Len(b)
  BY ONLY <1>2
<1>4. c \o f # <<>> <=> ~(f = <<>> /\ c = <<>>)
  <2>1. c \o f \in Seq(Nat) /\ Len(c \o f) = Len(c) + Len(f)
    BY ONLY <1>2, JoinedLength
  <2>2. \A s \in Seq(Nat) : s = <<>> <=> Len(s) = 0
    OBVIOUS
  <2>3. Len(c) \in Nat /\ Len(f) \in Nat
    BY ONLY <1>2
  <2>4. Len(c \o f) = 0 <=> Len(c) = 0 /\ Len(f) = 0
    BY ONLY <2>1, <2>3
  <2> QED
    BY ONLY <1>2, <2>1, <2>2, <2>4, Zenon
<1>5. IsSupported(g) <=> Len(o) + Len(b) = 1 /\ f = <<>> /\ g.numJustice = 0 /\ c = <<>>
  BY <1>1 DEF IsSupported
<1> QED
  BY ONLY <1>1, <1>3, <1>4, <1>5 DEF HasOneProperty

\* The parser's conditions, at the end of the arguments.
LEMMA UsableIs ==
    ASSUME CommandInv, arg = Len(args)
    PROVE  /\ IsUsable <=> ~BadUsage
           /\ IsUsable => /\ inputFile[1] = GivenPath
                          /\ EngineName[1] = IF "-e" \in DOMAIN opts THEN opts["-e"][1]
                                             ELSE opts["--engine"][1]
           /\ ~IsUsable => LastError = UsageMessage
<1>1. DOMAIN args = 1 .. arg
  BY LengthOf DEF CommandInv, IsCommandLine
<1>2. \A k : k \in DOMAIN opts <=> k # "" /\ k \in Keys
  BY <1>1 DEF CommandInv, OptsInv, Keys
<1>3. \A k \in DOMAIN opts : opts[k] = FirstOf(args, k)
  BY DEF CommandInv, OptsInv
<1>4. inputFile = <<>> => PathArguments = {}
  BY <1>1 DEF CommandInv, PathInv, PathArguments
<1>5. inputFile # <<>> =>
        PathArguments # {} /\ Cardinality(PathArguments) = 1 /\ inputFile[1] = GivenPath
  <2> SUFFICES ASSUME inputFile # <<>>
               PROVE  PathArguments # {} /\ Cardinality(PathArguments) = 1 /\ inputFile[1] = GivenPath
    OBVIOUS
  <2>1. PICK p \in 1 .. arg : /\ IsPath(args[p]) /\ inputFile = args[p].value
                              /\ \A i \in 1 .. arg : IsPath(args[i]) => i = p
    BY DEF CommandInv, PathInv
  <2>2. PathArguments = {p}
    BY <1>1, <2>1 DEF PathArguments
  <2>3. (CHOOSE i \in PathArguments : TRUE) = p
    BY <2>2
  <2> QED
    BY <2>1, <2>2, <2>3, FS_Singleton DEF GivenPath
<1>6. {"-e", "--engine"} \cap DOMAIN opts = {"-e", "--engine"} \cap Keys
  BY <1>2
<1>7. OtherKeys = Keys \ (Reserved \cup {""})
  BY <1>2 DEF OtherKeys
<1>b. NamesEngine <=> ~\A k \in {"-e", "--engine"} : k \notin Keys
  BY <1>2 DEF NamesEngine
<1>c. EngineHasName <=> \A k \in {"-e", "--engine"} \cap Keys : FirstOf(args, k) # <<>>
  <2>1. \A k \in {"-e", "--engine"} \cap Keys : opts[k] = FirstOf(args, k)
    BY <1>3, <1>6
  <2> QED
    BY <1>6, <2>1 DEF EngineHasName
<1>8. IsUsable <=>
        /\ inputFile # <<>>
        /\ NamesEngine
        /\ EngineHasName
        /\ \A k \in Keys \ (Reserved \cup {""}) :
                FirstOf(args, k) # <<>> => FirstOf(args, k)[1] \in DOMAIN Numerals
  <2>1. \A k \in Keys \ (Reserved \cup {""}) : opts[k] = FirstOf(args, k)
    BY <1>2, <1>3
  <2> QED
    BY <1>7, <2>1 DEF IsUsable
<1>9. IsUsable <=> ~BadUsage
  BY <1>4, <1>5, <1>8, <1>b, <1>c DEF BadUsage
<1>d. ~IsUsable => LastError = UsageMessage
  BY <1>4, <1>5, <1>b, <1>c DEF LastError, UsageMessage
<1>10. ASSUME IsUsable
       PROVE  EngineName[1] = IF "-e" \in DOMAIN opts THEN opts["-e"][1] ELSE opts["--engine"][1]
  <2>1. "-e" \in Keys <=> "-e" \in DOMAIN opts
    BY <1>2
  <2>2. "-e" \notin DOMAIN opts => "--engine" \in DOMAIN opts
    BY <1>10 DEF IsUsable, NamesEngine
  <2> QED
    BY <1>3, <2>1, <2>2 DEF EngineName
<1>11. IsUsable => inputFile # <<>>
  BY DEF IsUsable
<1> QED
  BY <1>5, <1>9, <1>10, <1>11, <1>d

\* A second path.
LEMMA SecondPathIsBad ==
    ASSUME CommandInv, arg < Len(args), IsPath(args[arg + 1]), inputFile # <<>>
    PROVE  BadUsage /\ UsageMessage = "second path"
<1>1. PICK n \in Nat : n = Len(args) /\ DOMAIN args = 1 .. n
  BY LengthOf DEF CommandInv, IsCommandLine
<1>2. arg \in 0 .. n
  BY <1>1 DEF CommandInv
<1>3. PICK p \in 1 .. arg : IsPath(args[p])
  BY DEF CommandInv, PathInv
<1>4. p \in 1 .. n /\ arg + 1 \in 1 .. n /\ p # arg + 1
  BY <1>1, <1>2
<1>5. p \in PathArguments /\ arg + 1 \in PathArguments
  BY <1>1, <1>3, <1>4 DEF PathArguments
<1>6. IsFiniteSet(PathArguments)
  <2>1. IsFiniteSet(1 .. n)
    BY FS_Interval
  <2>2. PathArguments \subseteq 1 .. n
    BY <1>1 DEF PathArguments
  <2> QED
    BY <2>1, <2>2, FS_Subset
<1>7. Cardinality(PathArguments) # 1
  BY <1>4, <1>5, <1>6, FS_Singleton
<1> QED
  BY <1>5, <1>7 DEF BadUsage, UsageMessage

\* get_engine knows five names.
LEMMA EngineKindIs ==
    ASSUME NEW name
    PROVE  EngineKind(name) # "none" <=> IsEngineName(name)
BY DEF EngineKind, IsEngineName

-----------------------------------------------------------------------------
(* How far the program has come says which checks have passed.             *)

StageInv ==
    /\ pc \notin {"help", "exit"} => ~HelpRequested
    /\ pc \notin {"help", "parse", "exit"} =>
            PastUsage /\ options.file = GivenPath /\ options.engine = EngineName[1]
    /\ pc \notin {"help", "parse", "open", "exit"} => GivenPath \in Paths
    /\ pc \notin {"help", "parse", "open", "read", "cycles", "exit"} => PastEngine
    /\ pc \notin {"help", "parse", "open", "read", "cycles", "context", "exit"} => HasOneProperty(file)
    /\ pc = "exit" => exit = ExpectedExit

\* The stages depend on the arguments and the file only.
LEMMA StagesStay ==
    ASSUME UNCHANGED <<args, file>>
    PROVE  /\ PastUsage' <=> PastUsage
           /\ PastEngine' <=> PastEngine
           /\ HasOneProperty(file)' <=> HasOneProperty(file)
<1>1. PastUsage' <=> PastUsage
  BY ExpectedExitStays DEF PastUsage
<1>2. WellFormed(file)' <=> WellFormed(file)
  BY DEF WellFormed
<1>3. HasOneProperty(file)' <=> HasOneProperty(file)
  BY DEF HasOneProperty
<1>4. IsEngineName(EngineName[1])' <=> IsEngineName(EngineName[1])
  BY ExpectedExitStays DEF IsEngineName
<1>5. PastEngine' <=> PastEngine
  BY <1>1, <1>2, <1>4, ExpectedExitStays DEF PastInput, PastEngine
<1> QED
  BY <1>1, <1>3, <1>5

\* A step that ends the program.
LEMMA ExitStep ==
    ASSUME UNCHANGED <<args, file>>, pc' = "exit", exit' = ExpectedExit
    PROVE  StageInv'
BY ExpectedExitStays DEF StageInv

\* A step that is no check.
LEMMA InnerStep ==
    ASSUME StageInv, UNCHANGED <<args, file, options, exit>>,
           \/ pc' = pc
           \/ pc \in {"read", "cycles"} /\ pc' \in {"read", "cycles"}
           \/ /\ pc \in {"reencode", "init", "trans", "error", "built", "witness"}
              /\ pc' \in {"reencode", "init", "trans", "error", "built", "witness"}
    PROVE  StageInv'
<1>1. CASE pc' = pc
  BY <1>1, ExpectedExitStays, StagesStay DEF StageInv
<1>2. CASE pc \in {"read", "cycles"} /\ pc' \in {"read", "cycles"}
  BY <1>2, ExpectedExitStays, StagesStay DEF StageInv
<1>3. CASE /\ pc \in {"reencode", "init", "trans", "error", "built", "witness"}
           /\ pc' \in {"reencode", "init", "trans", "error", "built", "witness"}
  BY <1>3, ExpectedExitStays, StagesStay DEF StageInv
<1> QED
  BY <1>1, <1>2, <1>3

\* requests_help comes first.
LEMMA HelpKeepsStage ==
    ASSUME StageInv, PrintHelp \/ NoHelp
    PROVE  StageInv'
<1>1. pc = "help" /\ UNCHANGED <<args, file, options>>
  BY DEF PrintHelp, NoHelp, commandLine, translation, library
<1>2. CASE PrintHelp
  <2>1. HelpRequested /\ pc' = "exit" /\ exit' = [message |-> "help", code |-> 0]
    BY <1>2 DEF PrintHelp, Exit
  <2> QED
    BY <1>1, <2>1, ExpectedExitIs, ExitStep
<1>3. CASE NoHelp
  BY <1>1, <1>3, ExpectedExitStays DEF NoHelp, StageInv
<1> QED
  BY <1>2, <1>3

\* The errors of parse_cli.
LEMMA UsageErrorKeepsStage ==
    ASSUME StageInv, CommandInv, UsageError
    PROVE  StageInv'
<1>1. pc = "parse" /\ UNCHANGED <<args, file>>
  BY DEF UsageError, Exit, commandLine, translation, library
<1>2. ~HelpRequested
  BY <1>1 DEF StageInv
<1>3. CASE arg < Len(args)
  <2>1. /\ IsPath(args[arg + 1]) /\ inputFile # <<>>
        /\ pc' = "exit" /\ exit' = [message |-> "second path", code |-> 1]
    BY <1>3 DEF UsageError, Exit
  <2> QED
    BY <1>1, <1>2, <1>3, <2>1, SecondPathIsBad, ExpectedExitIs, ExitStep
<1>4. CASE ~(arg < Len(args))
  <2>1. Len(args) \in Nat
    BY LengthOf DEF CommandInv, IsCommandLine
  <2>2. /\ arg = Len(args) /\ ~IsUsable
        /\ pc' = "exit" /\ exit' = [message |-> LastError, code |-> 1]
    BY <1>4, <2>1 DEF UsageError, CommandInv, Exit
  <2>3. BadUsage /\ UsageMessage = LastError
    BY <2>2, UsableIs
  <2> QED
    BY <1>1, <1>2, <2>2, <2>3, ExpectedExitIs, ExitStep
<1> QED
  BY <1>3, <1>4

\* The end of parse_cli.
LEMMA FinishParseKeepsStage ==
    ASSUME StageInv, CommandInv, FinishParse
    PROVE  StageInv'
<1>1. pc = "parse" /\ pc' = "open" /\ UNCHANGED <<args, file>> /\ arg = Len(args) /\ IsUsable
  BY DEF FinishParse, translation, library
<1>2. /\ options'.file = inputFile[1]
      /\ options'.engine = IF "-e" \in DOMAIN opts THEN opts["-e"][1] ELSE opts["--engine"][1]
  BY DEF FinishParse
<1>3. ~BadUsage /\ inputFile[1] = GivenPath
  BY <1>1, UsableIs
<1>a. EngineName[1] = options'.engine
  BY <1>1, <1>2, UsableIs
<1>4. PastUsage
  BY <1>1, <1>3 DEF PastUsage, StageInv
<1>5. PastUsage' /\ ~HelpRequested'
  BY <1>1, <1>4, StagesStay, ExpectedExitStays DEF PastUsage
<1>6. options'.file = GivenPath' /\ options'.engine = EngineName'[1]
  BY <1>1, <1>2, <1>3, <1>a, ExpectedExitStays
<1> QED
  BY <1>1, <1>5, <1>6 DEF StageInv

\* The file is opened.
LEMMA OpenFileKeepsStage ==
    ASSUME StageInv, OpenFile
    PROVE  StageInv'
<1>1. pc = "open" /\ pc' = "read" /\ options.file \in Paths /\ UNCHANGED <<args, file, options>>
  BY DEF OpenFile, commandLine, translation, library
<1>2. ~HelpRequested /\ PastUsage /\ options.file = GivenPath /\ options.engine = EngineName[1]
  BY <1>1 DEF StageInv
<1> QED
  BY <1>1, <1>2, ExpectedExitStays, StagesStay DEF StageInv

\* The errors of the library.
LEMMA InputErrorKeepsStage ==
    ASSUME StageInv, AigerInv, InputError
    PROVE  StageInv'
<1>1. UNCHANGED <<args, file>> /\ pc' = "exit" /\ exit' = [message |-> "input", code |-> 1]
  BY DEF InputError, Exit, commandLine, translation, library
<1>2. file \in Graphs
  BY DEF AigerInv
<1>3. pc \in {"open", "read", "cycles"}
  BY DEF InputError, Unreadable, Undefined, Cyclic
<1>4. PastUsage /\ options.file = GivenPath
  BY <1>3 DEF StageInv
<1>5. ~PastInput
  <2>1. CASE pc = "open" /\ options.file \notin Paths
    BY <1>4, <2>1 DEF PastInput
  <2>2. CASE Unreadable
    <3>1. pc = "read" /\ line < Len(Lines(file)) /\ ~IsReadable(file, line + 1)
      BY <2>2 DEF Unreadable
    <3>2. line \in 0 .. Len(Lines(file)) /\ Len(Lines(file)) \in Nat
      BY <1>2, <3>1, LinesAre DEF AigerInv, ReadInv
    <3>3. line + 1 \in 1 .. Len(Lines(file))
      BY ONLY <3>1, <3>2
    <3> QED
      BY <1>2, <3>1, <3>3, WellFormedIsChecked DEF PastInput
  <2>3. CASE Undefined
    BY <1>2, <2>3, WellFormedIsChecked DEF Undefined, AigerInv, ReadInv, PastInput
  <2>4. CASE Cyclic
    <3>1. pc = "cycles" /\ stack # <<>> /\ Last(stack) # 0 /\ Last(stack) \in onstack
      BY <2>4 DEF Cyclic
    <3>2. aig = file /\ Sound(aig) /\ CycleInv(aig, stack, marked, onstack)
      BY <3>1 DEF AigerInv, CyclesInv
    <3>3. Ranks(file) = {}
      BY <3>1, <3>2, CyclicHasNoRanks
    <3> QED
      BY <1>2, <3>3, WellFormedIsChecked DEF PastInput
  <2> QED
    BY <2>1, <2>2, <2>3, <2>4 DEF InputError
<1> QED
  BY <1>1, <1>4, <1>5, ExpectedExitIs, ExitStep

\* A file that passes all checks of the library is well-formed.
LEMMA AcyclicIsWellFormed ==
    ASSUME StageInv, AigerInv, Acyclic
    PROVE  PastInput /\ options.engine = EngineName[1]
<1>1. pc = "cycles" /\ stack = <<>> /\ \A v \in 1 .. aig.maxvar : IsAnd(aig, v) => v \in marked
  BY DEF Acyclic
<1>2. aig = file /\ Sound(aig) /\ CycleInv(aig, <<>>, marked, onstack)
  BY <1>1 DEF AigerInv, CyclesInv
<1>3. LeftInOrder(aig, {v \in 1 .. aig.maxvar : IsAnd(aig, v)})
  BY <1>1, <1>2, AcyclicRanks
<1>4. WellFormed(file)
  BY <1>2, <1>3, CheckedIsWellFormed
<1> QED
  BY <1>1, <1>4 DEF StageInv, PastInput

\* get_engine makes an engine, or fails.
LEMMA EngineKeepsStage ==
    ASSUME StageInv, AigerInv, GetEngine \/ EngineError
    PROVE  StageInv'
<1>1. Acyclic /\ UNCHANGED <<args, file, options>>
  BY DEF GetEngine, EngineError, commandLine, translation, library
<1>2. PastInput /\ options.engine = EngineName[1]
  BY <1>1, AcyclicIsWellFormed
<1>3. CASE GetEngine
  <2>1. PastEngine /\ pc' = "context"
    BY <1>2, <1>3, EngineKindIs DEF GetEngine, PastEngine
  <2>2. pc = "cycles"
    BY <1>1 DEF Acyclic
  <2>3. ~HelpRequested /\ PastUsage /\ options.file = GivenPath /\ GivenPath \in Paths
    BY <2>2 DEF StageInv
  <2> QED
    BY <1>1, <1>2, <2>1, <2>3, ExpectedExitStays, StagesStay DEF StageInv
<1>4. CASE EngineError
  <2>1. ~PastEngine /\ pc' = "exit" /\ exit' = [message |-> "engine", code |-> 1]
    BY <1>2, <1>4, EngineKindIs DEF EngineError, PastEngine, Exit
  <2> QED
    BY <1>1, <1>2, <2>1, ExpectedExitIs, ExitStep
<1> QED
  BY <1>3, <1>4

\* make_context continues, or fails.
LEMMA ContextKeepsStage ==
    ASSUME StageInv, AigerInv, BuildError \/ (MakeContext /\ UNCHANGED commandLine)
    PROVE  StageInv'
<1>1. pc = "context" /\ UNCHANGED <<args, file, options>>
  BY DEF BuildError, Unsupported, MakeContext, StartReencode, commandLine, translation, library
<1>2. PastEngine /\ file \in Graphs /\ aig = file
  BY <1>1 DEF StageInv, AigerInv, ContextInv
<1>3. IsSupported(aig) <=> HasOneProperty(file)
  BY <1>2, SupportedIs
<1>4. CASE BuildError
  <2>1. ~HasOneProperty(file) /\ pc' = "exit" /\ exit' = [message |-> "unsupported", code |-> 1]
    BY <1>3, <1>4 DEF BuildError, Unsupported, Exit
  <2> QED
    BY <1>1, <1>2, <2>1, ExpectedExitIs, ExitStep
<1>5. CASE MakeContext
  <2>1. HasOneProperty(file) /\ pc' \in {"init", "reencode"}
    BY <1>3, <1>5 DEF MakeContext
  <2>2. ~HelpRequested /\ PastUsage /\ options.file = GivenPath /\ options.engine = EngineName[1]
        /\ GivenPath \in Paths
    BY <1>1 DEF StageInv
  <2> QED
    BY <1>1, <1>2, <2>1, <2>2, ExpectedExitStays, StagesStay DEF StageInv
<1> QED
  BY <1>4, <1>5

\* The witness is printed.
LEMMA WriteWitnessKeepsStage ==
    ASSUME StageInv, WriteWitness
    PROVE  StageInv'
<1>1. /\ pc = "witness" /\ UNCHANGED <<args, file>> /\ pc' = "exit"
      /\ exit' = [message |-> "witness", code |-> 0]
  BY DEF WriteWitness, Exit, commandLine, translation, library
<1>2. PastEngine /\ HasOneProperty(file)
  BY <1>1 DEF StageInv
<1> QED
  BY <1>1, <1>2, ExpectedExitIs, ExitStep

\* The steps that the parser's variables, the file and the exit do not change in.
LEMMA QuietSteps ==
    ASSUME \/ Read \/ Build \/ ReturnCounterexample \/ ReturnOk \/ ReturnUnknown
    PROVE  UNCHANGED <<args, arg, inputFile, opts, options, file, exit>>
<1>1. CASE Read
  BY <1>1 DEF Read, ReadLine, CheckDefined, CycleRoot, EnterGate, LeaveGate, library, commandLine, outcome
<1>2. CASE Build
  <2>1. UNCHANGED <<args, arg, inputFile, opts, options, exit>>
    BY <1>2 DEF Build, commandLine, outcome
  <2>2. UNCHANGED file
    BY <1>2 DEF Build, MakeContext, StartReencode, ReencodeRoot, ExpandGate, CodeGate, ContextReencoded,
                FinishReencode, BuildInit, ClausifyGate, FinishTrans, FinishError, library
  <2> QED
    BY <2>1, <2>2
<1>3. CASE ReturnCounterexample \/ ReturnOk \/ ReturnUnknown
  BY <1>3 DEF ReturnCounterexample, ReturnOk, ReturnUnknown, commandLine, translation, library
<1> QED
  BY <1>1, <1>2, <1>3

\* What is known of the command line depends on the variables that are named here.
LEMMA CommandStays ==
    ASSUME CommandInv, UNCHANGED <<args, arg, inputFile, opts>>
    PROVE  CommandInv'
<1>1. OptsInv' /\ PathInv'
  BY DEF CommandInv, OptsInv, PathInv
<1> QED
  BY <1>1 DEF CommandInv

\* Every step keeps what is known of the command line.
LEMMA NextCommandInv == CommandInv /\ [Next]_vars => CommandInv'
<1> SUFFICES ASSUME CommandInv, [Next]_vars PROVE CommandInv'
  OBVIOUS
<1>1. CASE ParseArgument
  BY <1>1, ParseArgumentKeeps
<1>2. CASE \/ Read \/ Build \/ ReturnCounterexample \/ ReturnOk \/ ReturnUnknown
  BY <1>2, QuietSteps, CommandStays
<1>3. CASE UNCHANGED vars \/ SearchForever \/ Exited
  <2>1. UNCHANGED commandLine
    BY <1>3 DEF SearchForever, Exited, vars
  <2> QED
    BY <2>1, CommandStays DEF commandLine
<1>4. CASE \/ PrintHelp \/ NoHelp \/ UsageError \/ FinishParse \/ OpenFile \/ InputError
           \/ GetEngine \/ EngineError \/ BuildError \/ WriteWitness
  <2>1. UNCHANGED <<args, arg, inputFile, opts>>
    BY <1>4 DEF PrintHelp, NoHelp, UsageError, FinishParse, OpenFile, InputError, GetEngine, EngineError,
                BuildError, WriteWitness, commandLine
  <2> QED
    BY <2>1, CommandStays
<1> QED
  BY <1>1, <1>2, <1>3, <1>4 DEF Next

\* Every step keeps what is known of the stages.
LEMMA NextStageInv == StageInv /\ CommandInv /\ AigerInv /\ [Next]_vars => StageInv'
<1> SUFFICES ASSUME StageInv, CommandInv, AigerInv, [Next]_vars PROVE StageInv'
  OBVIOUS
<1>1. CASE PrintHelp \/ NoHelp
  BY <1>1, HelpKeepsStage
<1>2. CASE ParseArgument
  <2>1. pc' = pc /\ UNCHANGED <<args, file, options, exit>>
    BY <1>2 DEF ParseArgument, translation, library, outcome
  <2> QED
    BY <2>1, InnerStep
<1>3. CASE UsageError \/ FinishParse \/ OpenFile \/ InputError
  BY <1>3, UsageErrorKeepsStage, FinishParseKeepsStage, OpenFileKeepsStage, InputErrorKeepsStage
<1>4. CASE Read
  <2>1. pc \in {"read", "cycles"} /\ pc' \in {"read", "cycles"}
    BY <1>4 DEF Read, ReadLine, CheckDefined, CycleRoot, EnterGate, LeaveGate
  <2> QED
    BY <1>4, <2>1, QuietSteps, InnerStep
<1>5. CASE GetEngine \/ EngineError \/ BuildError \/ WriteWitness
  BY <1>5, EngineKeepsStage, ContextKeepsStage, WriteWitnessKeepsStage
<1>6. CASE Build
  <2>1. CASE MakeContext
    BY <1>6, <2>1, ContextKeepsStage DEF Build
  <2>2. CASE ~MakeContext
    <3>1. /\ pc \in {"reencode", "init", "trans", "error", "built", "witness"}
          /\ pc' \in {"reencode", "init", "trans", "error", "built", "witness"}
      BY <1>6, <2>2 DEF Build, ReencodeRoot, ExpandGate, CodeGate, ContextReencoded, FinishReencode,
                        BuildInit, ClausifyGate, FinishTrans, FinishError
    <3> QED
      BY <1>6, <3>1, QuietSteps, InnerStep
  <2> QED
    BY <2>1, <2>2
<1>7. CASE ReturnCounterexample \/ ReturnOk \/ ReturnUnknown
  <2>1. pc = "built" /\ pc' = "witness"
    BY <1>7 DEF ReturnCounterexample, ReturnOk, ReturnUnknown
  <2> QED
    BY <1>7, <2>1, QuietSteps, InnerStep
<1>8. CASE UNCHANGED vars \/ SearchForever \/ Exited
  <2>1. UNCHANGED vars
    BY <1>8 DEF SearchForever, Exited
  <2>2. pc' = pc /\ UNCHANGED <<args, file, options, exit>>
    BY <2>1 DEF vars, commandLine, translation, library, outcome
  <2> QED
    BY <2>2, InnerStep
<1> QED
  BY <1>1, <1>2, <1>3, <1>4, <1>5, <1>6, <1>7, <1>8 DEF Next

\* The parser has collected what the arguments it has passed say, and the
\* program is past the checks that its arguments and its file pass.
THEOREM CommandInvariant == Spec => [](CommandInv /\ StageInv)
<1>1. Init => CommandInv /\ StageInv
  <2>1. Init => StageInv
    BY DEF Init, StageInv
  <2> QED
    BY <2>1, InitCommandInv
<1>2. CommandInv /\ StageInv /\ AigerInv /\ [Next]_vars => CommandInv' /\ StageInv'
  BY NextCommandInv, NextStageInv
<1> QED
  BY <1>1, <1>2, AigerInvariant, PTL DEF Spec, SafetySpec

\* For all arguments and files, whichever check of parse_cli, of the library, of
\* get_engine or of make_context fails first decides how main ends, and main
\* gets to the witness when none does. In particular aiger_check_for_cycles
\* rejects precisely the graphs whose gates cannot be ranked.
THEOREM ExitsAreDeserved == Spec => []ExitIsDeserved
<1>1. StageInv => ExitIsDeserved
  BY DEF StageInv, ExitIsDeserved
<1> QED
  BY <1>1, CommandInvariant, PTL

-----------------------------------------------------------------------------
(* What aiger_reencode makes of a graph.                                   *)

\* The codes that have been handed out are 2, 4, ..., 2 N.
AreDense(g, cd, nw, N) ==
    /\ nw = 2 * (N + 1)
    /\ Len(g.inputs) + Len(g.latches) <= N
    /\ \A c \in 1 .. N : \E v \in 1 .. g.maxvar : cd[v] = 2 * c

\* The codes are a prefix of the positive literals.
LEMMA CodesAreDense ==
    ASSUME NEW g, Sound(g), NEW cd, NEW nw, CodeInv(g, cd, nw)
    PROVE  \E N \in Nat : AreDense(g, cd, nw, N)
<1>1. PICK I \in Nat, L \in Nat : I = Len(g.inputs) /\ L = Len(g.latches)
  BY GraphParts DEF Sound
<1>2. PICK n \in Nat : \E o : IsCodeOrder(g, cd, nw, n, o)
  BY DEF CodeInv, CodedInOrder
<1>3. PICK o : IsCodeOrder(g, cd, nw, n, o)
  BY <1>2
<1>4. PICK F : F = FirstCode(g)
  OBVIOUS
<1>5. F = 2 * (I + L + 1)
  BY <1>1, <1>4 DEF FirstCode
<1>6. nw = F + 2 * n /\ \A k \in 1 .. n : o[k] \in 1 .. g.maxvar /\ cd[o[k]] = F + 2 * (k - 1)
  BY <1>3, <1>4 DEF IsCodeOrder
<1>7. nw = 2 * (I + L + n + 1) /\ I + L + n \in Nat /\ I + L <= I + L + n
  BY ONLY <1>5, <1>6, I \in Nat, L \in Nat, n \in Nat
<1>8. ASSUME NEW c \in 1 .. I + L + n PROVE \E v \in 1 .. g.maxvar : cd[v] = 2 * c
  <2>a. g.maxvar \in Nat
    BY GraphParts DEF Sound
  <2>1. CASE c <= I
    <3>1. c \in 1 .. Len(g.inputs)
      BY <1>1, <2>1
    <3>2. PICK v \in 1 .. g.maxvar : g.inputs[c] = 2 * v
      BY <3>1 DEF Sound, DefinedOnce, IsDefinition
    <3>3. v \in 0 .. g.maxvar
      BY <2>a
    <3>4. cd[v] = 2 * c
      BY <3>1, <3>2, <3>3 DEF CodeInv, LeavesCoded
    <3> QED
      BY <3>4
  <2>2. CASE I < c /\ c <= I + L
    <3>1. PICK m \in 1 .. L : c = I + m
      <4>1. c - I \in 1 .. L /\ c = I + (c - I)
        BY ONLY <2>2, I \in Nat, L \in Nat, n \in Nat, c \in 1 .. I + L + n
      <4> QED
        BY ONLY <4>1
    <3>2. PICK v \in 1 .. g.maxvar : g.latches[m].lit = 2 * v
      BY <1>1 DEF Sound, DefinedOnce, IsDefinition
    <3>3. v \in 0 .. g.maxvar /\ m \in 1 .. Len(g.latches)
      BY <1>1, <2>a
    <3>4. cd[v] = 2 * (Len(g.inputs) + m)
      BY <3>2, <3>3 DEF CodeInv, LeavesCoded
    <3> QED
      BY <1>1, <3>1, <3>4
  <2>3. CASE I + L < c
    <3>1. PICK k \in 1 .. n : c = I + L + k
      <4>1. c - (I + L) \in 1 .. n /\ c = I + L + (c - (I + L))
        BY ONLY <2>3, I \in Nat, L \in Nat, n \in Nat, c \in 1 .. I + L + n
      <4> QED
        BY ONLY <4>1
    <3>2. o[k] \in 1 .. g.maxvar /\ cd[o[k]] = F + 2 * (k - 1)
      BY <1>6
    <3>3. F + 2 * (k - 1) = 2 * c
      BY ONLY <1>5, <3>1, I \in Nat, L \in Nat, n \in Nat, k \in 1 .. n
    <3> QED
      BY <3>2, <3>3
  <2> QED
    BY ONLY <2>1, <2>2, <2>3, I \in Nat, L \in Nat, n \in Nat, c \in 1 .. I + L + n
<1>9. PICK N : N = I + L + n
  OBVIOUS
<1>10. N \in Nat /\ nw = 2 * (N + 1) /\ Len(g.inputs) + Len(g.latches) <= N
  BY <1>1, <1>7, <1>9
<1>11. \A c \in 1 .. N : \E v \in 1 .. g.maxvar : cd[v] = 2 * c
  BY <1>8, <1>9
<1>12. AreDense(g, cd, nw, N)
  BY <1>10, <1>11 DEF AreDense
<1> QED
  BY <1>10, <1>12

\* There are no more codes than variables.
LEMMA CodesFit ==
    ASSUME NEW g, Sound(g), NEW cd, NEW nw, CodeInv(g, cd, nw)
    PROVE  nw <= 2 * (g.maxvar + 1)
<1>a. PICK N \in Nat : AreDense(g, cd, nw, N)
  BY CodesAreDense
<1>1. nw = 2 * (N + 1) /\ \A c \in 1 .. N : \E v \in 1 .. g.maxvar : cd[v] = 2 * c
  BY <1>a DEF AreDense
<1>2. PICK M \in Nat : M = g.maxvar
  BY GraphParts DEF Sound
<1>3. CASE N = 0
  BY ONLY <1>1, <1>2, <1>3
<1>4. CASE N # 0
  <2> DEFINE f == [v \in 1 .. M |-> IF \E c \in 1 .. N : cd[v] = 2 * c
                                    THEN CHOOSE c \in 1 .. N : cd[v] = 2 * c ELSE 1]
  <2>a. ASSUME NEW v \in 1 .. M, \E c \in 1 .. N : cd[v] = 2 * c
        PROVE  (CHOOSE c \in 1 .. N : cd[v] = 2 * c) \in 1 .. N
    BY ONLY <2>a, Zenon
  <2>b. 1 \in 1 .. N
    BY <1>4
  <2>1. f \in [1 .. M -> 1 .. N]
    BY <2>a, <2>b
  <2>2. ASSUME NEW c \in 1 .. N PROVE \E v \in 1 .. M : f[v] = c
    <3>1. PICK v \in 1 .. M : cd[v] = 2 * c
      BY <1>1, <1>2
    <3>2. \A d \in 1 .. N : cd[v] = 2 * d => d = c
      BY <3>1
    <3>3. (CHOOSE d \in 1 .. N : cd[v] = 2 * d) = c
      BY <3>1, <3>2
    <3>4. f[v] = c
      BY <3>1, <3>3
    <3> QED
      BY <3>4
  <2> HIDE DEF f
  <2>3. f \in Surjection(1 .. M, 1 .. N)
    BY <2>1, <2>2 DEF Surjection
  <2>4. /\ IsFiniteSet(1 .. M) /\ Cardinality(1 .. M) = M
        /\ IsFiniteSet(1 .. N) /\ Cardinality(1 .. N) = N
    BY FS_Interval
  <2>5. N <= M
    BY <2>3, <2>4, FS_Surjection
  <2> QED
    BY ONLY <1>1, <1>2, <2>5
<1> QED
  BY <1>3, <1>4

\* The gates after reencoding are those that have a code, each once.
LEMMA RecodedAndsReach ==
    ASSUME NEW g, Sound(g), CodeInv(g, code, new)
    PROVE  /\ \A j \in 1 .. Len(RecodedAnds(g)) : \E v \in 1 .. g.maxvar :
                IsAnd(g, v) /\ code[v] # 0 /\ RecodedAnds(g)[j] = RecodedGate(And(g, v))
           /\ \A v \in 1 .. g.maxvar : IsAnd(g, v) /\ code[v] # 0 =>
                \E j \in 1 .. Len(RecodedAnds(g)) : RecodedAnds(g)[j] = RecodedGate(And(g, v))
<1>1. PICK n, S : n = Cardinality(RecodedGates(g)) /\ S = RecodedGates(g)
  OBVIOUS
<1>2. /\ n \in Nat /\ IsFiniteSet(S)
      /\ \E s \in [1 .. n -> S] : SortedByLhs(s)
      /\ \A b \in S : \E v \in 1 .. g.maxvar : IsAnd(g, v) /\ code[v] # 0 /\ b = RecodedGate(And(g, v))
  BY <1>1, RecodedGatesSorted
<1>3. PICK gs : gs = RecodedAnds(g)
  OBVIOUS
<1>4. gs = CHOOSE s \in [1 .. n -> S] : SortedByLhs(s)
  BY <1>1, <1>3, RecodedAndsIs
<1>5. gs \in [1 .. n -> S] /\ SortedByLhs(gs)
  BY ONLY <1>2, <1>4, Zenon
<1>6. Len(gs) = n
  BY ONLY <1>2, <1>5, FunctionIsSequence
<1>7. \A i, j \in 1 .. n : gs[i] = gs[j] => i = j
  <2> SUFFICES ASSUME NEW i \in 1 .. n, NEW j \in 1 .. n, gs[i] = gs[j], i < j PROVE FALSE
    BY <1>2
  <2>1. gs[i].lhs < gs[j].lhs
    BY <1>5 DEF SortedByLhs
  <2>2. PICK v \in 1 .. g.maxvar : IsAnd(g, v) /\ code[v] # 0 /\ gs[i] = RecodedGate(And(g, v))
    BY <1>2, <1>5
  <2>3. gs[i].lhs \in Nat
    BY <2>2, RecodedGateIs
  <2> QED
    BY <2>1, <2>3
<1>8. gs \in Injection(1 .. n, S)
  BY <1>5, <1>7 DEF Injection, IsInjective
<1>9. IsFiniteSet(1 .. n) /\ Cardinality(1 .. n) = n
  BY <1>2, FS_Interval
<1>10. gs \in Surjection(1 .. n, S)
  BY <1>1, <1>2, <1>8, <1>9, FS_Injection
<1>11. ASSUME NEW v \in 1 .. g.maxvar, IsAnd(g, v), code[v] # 0
       PROVE  \E j \in 1 .. n : gs[j] = RecodedGate(And(g, v))
  <2>1. PICK i \in DOMAIN g.ands : g.ands[i].lhs = 2 * v
    BY <1>11 DEF IsAnd
  <2>2. v \in Nat
    OBVIOUS
  <2>3. g.ands[i] = And(g, v) /\ Var(g.ands[i].lhs) = v
    BY <1>11, <2>1, <2>2, GateOf, VarOfPositive
  <2>4. RecodedGate(And(g, v)) \in S
    BY <1>1, <1>11, <2>3 DEF RecodedGates
  <2> QED
    BY <1>10, <2>4 DEF Surjection
<1>12. \A j \in 1 .. n : gs[j] \in S
  BY <1>5
<1> QED
  BY <1>2, <1>3, <1>6, <1>11, <1>12

\* The elements of a sequence.
Elements(s) == {s[i] : i \in 1 .. Len(s)}

\* The elements of two sequences, joined.
LEMMA ElementsOfJoin ==
    ASSUME NEW p \in Seq(Nat), NEW q \in Seq(Nat)
    PROVE  Elements(p \o q) = Elements(p) \cup Elements(q)
<1>1. PICK e : e = p \o q
  OBVIOUS
<1>2. PICK m \in Nat, n \in Nat : m = Len(p) /\ n = Len(q)
  OBVIOUS
<1>3. Len(e) = m + n
  BY ONLY <1>1, <1>2, p \in Seq(Nat), q \in Seq(Nat), JoinedLength
<1>4. \A i \in 1 .. m : e[i] = p[i]
  BY ONLY <1>1, <1>2, p \in Seq(Nat), q \in Seq(Nat)
<1>5. \A i \in 1 .. n : e[m + i] = q[i]
  BY ONLY <1>1, <1>2, p \in Seq(Nat), q \in Seq(Nat)
<1>6. ASSUME NEW x \in Elements(e) PROVE x \in Elements(p) \cup Elements(q)
  <2>1. PICK k \in 1 .. m + n : x = e[k]
    BY <1>3 DEF Elements
  <2>2. CASE k \in 1 .. m
    BY <1>2, <1>4, <2>1, <2>2 DEF Elements
  <2>3. CASE k \notin 1 .. m
    <3>1. k - m \in 1 .. n /\ k = m + (k - m)
      BY <2>3
    <3>2. x = q[k - m]
      BY <1>5, <2>1, <3>1
    <3> QED
      BY <1>2, <3>1, <3>2 DEF Elements
  <2> QED
    BY <2>2, <2>3
<1>7. ASSUME NEW x \in Elements(p) PROVE x \in Elements(e)
  <2>1. PICK k \in 1 .. m : x = p[k]
    BY <1>2 DEF Elements
  <2>2. k \in 1 .. m + n /\ x = e[k]
    BY <1>4, <2>1
  <2> QED
    BY <1>3, <2>2 DEF Elements
<1>8. ASSUME NEW x \in Elements(q) PROVE x \in Elements(e)
  <2>1. PICK k \in 1 .. n : x = q[k]
    BY <1>2 DEF Elements
  <2>2. m + k \in 1 .. m + n /\ x = e[m + k]
    BY <1>5, <2>1
  <2> QED
    BY <1>3, <2>2 DEF Elements
<1> QED
  BY <1>1, <1>6, <1>7, <1>8

\* The elements of five sequences, joined.
LEMMA ElementsOfFive ==
    ASSUME NEW o \in Seq(Nat), NEW b \in Seq(Nat), NEW c \in Seq(Nat), NEW j \in Seq(Nat), NEW f \in Seq(Nat)
    PROVE  /\ Elements(o \o b \o c \o j \o f) =
                Elements(o) \cup Elements(b) \cup Elements(c) \cup Elements(j) \cup Elements(f)
           /\ o \o b \o c \o j \o f \in Seq(Nat)
<1>1. PICK x : x = o \o b
  OBVIOUS
<1>2. x \in Seq(Nat) /\ Elements(x) = Elements(o) \cup Elements(b)
  BY ONLY <1>1, o \in Seq(Nat), b \in Seq(Nat), JoinedLength, ElementsOfJoin
<1>3. PICK y : y = x \o c
  OBVIOUS
<1>4. y \in Seq(Nat) /\ Elements(y) = Elements(x) \cup Elements(c)
  BY ONLY <1>2, <1>3, c \in Seq(Nat), JoinedLength, ElementsOfJoin
<1>5. PICK z : z = y \o j
  OBVIOUS
<1>6. z \in Seq(Nat) /\ Elements(z) = Elements(y) \cup Elements(j)
  BY ONLY <1>4, <1>5, j \in Seq(Nat), JoinedLength, ElementsOfJoin
<1>7. z \o f \in Seq(Nat) /\ Elements(z \o f) = Elements(z) \cup Elements(f)
  BY ONLY <1>6, f \in Seq(Nat), JoinedLength, ElementsOfJoin
<1>8. o \o b \o c \o j \o f = z \o f
  BY ONLY <1>1, <1>3, <1>5
<1> QED
  BY ONLY <1>2, <1>4, <1>6, <1>7, <1>8

\* The literals of the properties, kind by kind.
LEMMA PropertyElements ==
    ASSUME NEW g \in Graphs
    PROVE  Elements(Properties(g)) = Elements(g.outputs) \cup Elements(g.bad) \cup Elements(g.constraints)
                                     \cup Elements(g.justice) \cup Elements(g.fairness)
<1>1. PICK o, b, c, j, f : o = g.outputs /\ b = g.bad /\ c = g.constraints /\ j = g.justice /\ f = g.fairness
  OBVIOUS
<1>2. o \in Seq(Nat) /\ b \in Seq(Nat) /\ c \in Seq(Nat) /\ j \in Seq(Nat) /\ f \in Seq(Nat)
  BY <1>1, GraphParts
<1>3. Properties(g) = o \o b \o c \o j \o f
  BY <1>1 DEF Properties
<1>4. Elements(o \o b \o c \o j \o f) =
        Elements(o) \cup Elements(b) \cup Elements(c) \cup Elements(j) \cup Elements(f)
  BY ONLY <1>2, ElementsOfFive
<1> QED
  BY ONLY <1>1, <1>3, <1>4

-----------------------------------------------------------------------------

HasCode(l) == IsConstant(l) \/ code[Var(l)] # 0

\* A literal and its code.
LEMMA CodeOf ==
    ASSUME NEW g, Sound(g), CodeInv(g, code, new), NEW l \in Nat, IsDefined(g, l)
    PROVE  /\ Code(l) \in Nat /\ Sign(Code(l)) = Sign(l)
           /\ IsConstant(l) => Code(l) = l
           /\ ~IsConstant(l) => Var(l) \in 1 .. g.maxvar /\ 2 * Var(Code(l)) = code[Var(l)]
<1>1. Var(l) \in 0 .. g.maxvar /\ g.maxvar \in Nat
  BY DefinedInRange, GraphParts DEF Sound
<1>2. PICK k \in Nat : k = code[Var(l)] /\ k % 2 = 0
  BY <1>1 DEF CodeInv
<1>3. CASE IsConstant(l)
  BY <1>3 DEF Code
<1>4. CASE ~IsConstant(l)
  <2>1. Code(l) = k + Sign(l)
    BY <1>2, <1>4 DEF Code
  <2>2. Sign(l) \in {0, 1} /\ Var(l) # 0
    BY <1>4 DEF Sign, IsConstant, Var
  <2>3. \A x \in {0, 1} : k + x \in Nat /\ (k + x) % 2 = x /\ 2 * ((k + x) \div 2) = k
    BY ONLY <1>2
  <2>4. k + Sign(l) \in Nat /\ (k + Sign(l)) % 2 = Sign(l) /\ 2 * ((k + Sign(l)) \div 2) = k
    BY <2>2, <2>3
  <2>5. Sign(Code(l)) = Sign(l) /\ 2 * Var(Code(l)) = k
    BY <2>1, <2>4 DEF Sign, Var
  <2> QED
    BY <1>1, <1>2, <1>4, <2>1, <2>2, <2>4, <2>5
<1> QED
  BY <1>3, <1>4

\* The code of a positive literal is that of its variable.
LEMMA CodeOfPositive ==
    ASSUME NEW g, Sound(g), CodeInv(g, code, new), NEW v \in 1 .. g.maxvar
    PROVE  Code(2 * v) = code[v]
<1>1. g.maxvar \in Nat /\ v \in 0 .. g.maxvar /\ v \in Nat
  BY GraphParts DEF Sound
<1>2. ~IsConstant(2 * v)
  BY <1>1 DEF IsConstant
<1>3. Var(2 * v) = v /\ Sign(2 * v) = 0
  BY <1>1, VarOfPositive
<1>4. code[v] \in Nat
  BY <1>1 DEF CodeInv
<1>5. Code(2 * v) = code[v] + 0
  BY <1>2, <1>3 DEF Code
<1> QED
  BY <1>4, <1>5

Recode(ls) == [i \in DOMAIN ls |-> Code(ls[i])]

\* The parts of a recoded graph.
LEMMA RecodedIs ==
    ASSUME NEW g
    PROVE  /\ Recoded(g).inputs = Recode(g.inputs)
           /\ DOMAIN Recoded(g).latches = DOMAIN g.latches
           /\ \A i \in DOMAIN g.latches :
                Recoded(g).latches[i] = [ lit   |-> Code(g.latches[i].lit),
                                          next  |-> Code(g.latches[i].next),
                                          reset |-> Code(g.latches[i].reset) ]
           /\ Recoded(g).ands = RecodedAnds(g)
           /\ Recoded(g).outputs = Recode(g.outputs) /\ Recoded(g).bad = Recode(g.bad)
           /\ Recoded(g).constraints = Recode(g.constraints) /\ Recoded(g).justice = Recode(g.justice)
           /\ Recoded(g).fairness = Recode(g.fairness) /\ Recoded(g).numJustice = g.numJustice
           /\ Recoded(g).maxvar = Var(new - 1)
BY DEF Recoded, Recode

\* Sequences of literals that are defined.
LEMMA RecodeType ==
    ASSUME NEW g, Sound(g), CodeInv(g, code, new), NEW ls \in Seq(Nat),
           \A l \in Elements(ls) : IsDefined(g, l)
    PROVE  /\ Recode(ls) \in Seq(Nat) /\ Len(Recode(ls)) = Len(ls)
           /\ Elements(Recode(ls)) = {Code(l) : l \in Elements(ls)}
<1>1. PICK n \in Nat : n = Len(ls) /\ DOMAIN ls = 1 .. n
  BY LengthOf
<1>2. \A i \in 1 .. n : ls[i] \in Nat /\ IsDefined(g, ls[i])
  BY <1>1 DEF Elements
<1>3. PICK r : r = Recode(ls)
  OBVIOUS
<1>4. r = [i \in 1 .. n |-> Code(ls[i])]
  BY <1>1, <1>3 DEF Recode
<1>5. r \in [1 .. n -> Nat]
  BY <1>2, <1>4, CodeOf
<1>6. r \in Seq(Nat) /\ Len(r) = n
  BY ONLY <1>5, FunctionIsSequence, n \in Nat
<1>7. Elements(r) = {Code(l) : l \in Elements(ls)}
  BY <1>1, <1>4, <1>6 DEF Elements
<1> QED
  BY <1>1, <1>3, <1>6, <1>7

\* Everything a graph uses is defined, sequence by sequence.
LEMMA UsesDefined ==
    ASSUME NEW g, Sound(g)
    PROVE  /\ \A l \in Elements(g.inputs) : IsDefined(g, l)
           /\ \A i \in 1 .. Len(g.latches) : IsDefined(g, g.latches[i].lit) /\ IsDefined(g, g.latches[i].next)
           /\ \A l \in Elements(Properties(g)) : IsDefined(g, l)
           /\ \A l \in Elements(g.outputs) \cup Elements(g.bad) \cup Elements(g.constraints)
                        \cup Elements(g.justice) \cup Elements(g.fairness) : IsDefined(g, l)
<1>1. ASSUME NEW v \in Nat PROVE Var(2 * v) = v
  BY VarOfPositive
<1>2. ASSUME NEW l \in Elements(g.inputs) PROVE IsDefined(g, l)
  <2>1. PICK i \in 1 .. Len(g.inputs) : l = g.inputs[i]
    BY DEF Elements
  <2>2. PICK v \in 1 .. g.maxvar : l = 2 * v
    BY <2>1 DEF Sound, DefinedOnce, IsDefinition
  <2>3. v \in Nat /\ i \in DOMAIN g.inputs
    BY <2>1, GraphParts DEF Sound
  <2>4. IsInput(g, Var(l))
    BY <1>1, <2>1, <2>2, <2>3 DEF IsInput
  <2> QED
    BY <2>4 DEF IsDefined
<1>3. ASSUME NEW i \in 1 .. Len(g.latches)
      PROVE  IsDefined(g, g.latches[i].lit) /\ IsDefined(g, g.latches[i].next)
  <2>1. PICK v \in 1 .. g.maxvar : g.latches[i].lit = 2 * v
    BY DEF Sound, DefinedOnce, IsDefinition
  <2>2. v \in Nat /\ i \in DOMAIN g.latches
    BY GraphParts DEF Sound
  <2>3. IsLatch(g, Var(g.latches[i].lit))
    BY <1>1, <2>1, <2>2 DEF IsLatch
  <2>4. IsDefined(g, g.latches[i].next)
    BY <2>2 DEF Sound, AllDefined
  <2> QED
    BY <2>3, <2>4 DEF IsDefined
<1>4. \A l \in Elements(Properties(g)) : IsDefined(g, l)
  <2>1. DOMAIN Properties(g) = 1 .. Len(Properties(g))
    BY PropertiesType, LengthOf DEF Sound
  <2> QED
    BY <2>1 DEF Sound, AllDefined, Elements
<1> QED
  BY <1>2, <1>3, <1>4, PropertyElements DEF Sound

\* The numbering after aiger_reencode: the inputs, the latches and the gates, from
\* 1 to maxvar.
LEMMA RecodedLeaves ==
    ASSUME NEW g, Sound(g), CodeInv(g, code, new), NEW h, h = Recoded(g)
    PROVE  /\ Len(h.inputs) = Len(g.inputs) /\ h.inputs \in Seq(Nat)
           /\ \A i \in 1 .. Len(g.inputs) : h.inputs[i] = 2 * i
           /\ Len(h.latches) = Len(g.latches)
           /\ \A i \in 1 .. Len(g.latches) : h.latches[i].lit = 2 * (Len(g.inputs) + i)
           /\ h.maxvar \in Nat /\ new = 2 * (h.maxvar + 1) /\ Len(g.inputs) + Len(g.latches) <= h.maxvar
<1>1. PICK I \in Nat, L \in Nat : /\ I = Len(g.inputs) /\ DOMAIN g.inputs = 1 .. I
                                  /\ L = Len(g.latches) /\ DOMAIN g.latches = 1 .. L
  BY GraphParts DEF Sound
<1>2. g.maxvar \in Nat /\ g.inputs \in Seq(Nat)
  BY GraphParts DEF Sound
<1>3. h.inputs \in Seq(Nat) /\ Len(h.inputs) = I
  BY <1>1, <1>2, UsesDefined, RecodedIs, RecodeType
<1>4. ASSUME NEW i \in 1 .. I PROVE h.inputs[i] = 2 * i
  <2>1. PICK v \in 1 .. g.maxvar : g.inputs[i] = 2 * v
    BY <1>1 DEF Sound, DefinedOnce, IsDefinition
  <2>a. h.inputs = Recode(g.inputs)
    BY RecodedIs
  <2>b. i \in DOMAIN g.inputs
    BY <1>1
  <2>2. h.inputs[i] = Code(g.inputs[i])
    BY <2>a, <2>b DEF Recode
  <2>3. v \in 0 .. g.maxvar /\ i \in 1 .. Len(g.inputs)
    BY <1>1, <1>2
  <2>4. code[v] = 2 * i
    BY <2>1, <2>3 DEF CodeInv, LeavesCoded
  <2> QED
    BY <2>1, <2>2, <2>4, CodeOfPositive
<1>5. DOMAIN h.latches = 1 .. L
  BY <1>1, RecodedIs
<1>6. \A i \in 1 .. L : h.latches[i] = [ lit   |-> Code(g.latches[i].lit), next  |-> Code(g.latches[i].next),
                                         reset |-> Code(g.latches[i].reset) ]
  BY <1>1, RecodedIs
<1>7. ASSUME NEW i \in 1 .. L PROVE h.latches[i].lit = 2 * (Len(g.inputs) + i)
  <2>1. PICK v \in 1 .. g.maxvar : g.latches[i].lit = 2 * v
    BY <1>1 DEF Sound, DefinedOnce, IsDefinition
  <2>a. PICK a, b, c : /\ a = Code(g.latches[i].lit) /\ b = Code(g.latches[i].next)
                       /\ c = Code(g.latches[i].reset)
    OBVIOUS
  <2>b. h.latches[i] = [lit |-> a, next |-> b, reset |-> c]
    BY <1>6, <2>a
  <2>2. h.latches[i].lit = Code(g.latches[i].lit)
    BY ONLY <2>a, <2>b
  <2>3. v \in 0 .. g.maxvar /\ i \in 1 .. Len(g.latches)
    BY <1>1, <1>2
  <2>4. code[v] = 2 * (Len(g.inputs) + i)
    BY <2>1, <2>3 DEF CodeInv, LeavesCoded
  <2> QED
    BY <2>1, <2>2, <2>4, CodeOfPositive
<1>8. Len(h.latches) = L
  <2>1. h.latches = [i \in 1 .. L |-> [ lit   |-> Code(g.latches[i].lit), next  |-> Code(g.latches[i].next),
                                        reset |-> Code(g.latches[i].reset) ]]
    BY <1>1 DEF Recoded
  <2>2. PICK q : q = h.latches
    OBVIOUS
  <2>a. PICK T : T = {q[i] : i \in 1 .. L}
    OBVIOUS
  <2>b. q = [i \in 1 .. L |-> q[i]]
    BY <2>1, <2>2
  <2>3. q \in [1 .. L -> T]
    BY ONLY <2>a, <2>b
  <2>4. Len(q) = L
    BY ONLY <2>3, L \in Nat, FunctionIsSequence
  <2> QED
    BY <2>2, <2>4
<1>9. PICK N \in Nat : AreDense(g, code, new, N)
  BY CodesAreDense
<1>10. new = 2 * (N + 1) /\ I + L <= N
  BY <1>1, <1>9 DEF AreDense
<1>11. h.maxvar = N
  <2>1. (new - 1) \div 2 = N
    BY <1>10
  <2> QED
    BY <2>1, RecodedIs DEF Var
<1> QED
  BY <1>1, <1>3, <1>4, <1>7, <1>8, <1>10, <1>11

\* The gates of a recoded graph are those with a code, each once.
LEMMA RecodedGatesAre ==
    ASSUME NEW g, Sound(g), CodeInv(g, code, new), NEW gs, gs = RecodedAnds(g)
    PROVE  /\ gs \in Seq([lhs : Nat, rhs0 : Nat, rhs1 : Nat]) /\ Len(gs) \in Nat
           /\ DOMAIN gs = 1 .. Len(gs)
           /\ \A i, j \in 1 .. Len(gs) : gs[i].lhs = gs[j].lhs => i = j
           /\ \A j \in 1 .. Len(gs) : \E v \in 1 .. g.maxvar :
                IsAnd(g, v) /\ code[v] # 0 /\ gs[j] = RecodedGate(And(g, v)) /\ gs[j].lhs = code[v]
           /\ \A v \in 1 .. g.maxvar : IsAnd(g, v) /\ code[v] # 0 =>
                \E j \in 1 .. Len(gs) : gs[j] = RecodedGate(And(g, v)) /\ gs[j].lhs = code[v]
<1>3. OrderedGates(gs)
  BY RecodedAndsOrdered
<1>4. gs \in Seq([lhs : Nat, rhs0 : Nat, rhs1 : Nat]) /\ \A i, j \in 1 .. Len(gs) : i < j => gs[i].lhs < gs[j].lhs
  BY <1>3 DEF OrderedGates
<1>5. Len(gs) \in Nat /\ DOMAIN gs = 1 .. Len(gs)
  <2>1. PICK T : T = [lhs : Nat, rhs0 : Nat, rhs1 : Nat]
    OBVIOUS
  <2>2. gs \in Seq(T)
    BY <1>4, <2>1
  <2> QED
    BY ONLY <2>2, LengthOf
<1>6. \A j \in 1 .. Len(gs) : \E v \in 1 .. g.maxvar :
            IsAnd(g, v) /\ code[v] # 0 /\ gs[j] = RecodedGate(And(g, v)) /\ gs[j].lhs = code[v]
  <2> SUFFICES ASSUME NEW j \in 1 .. Len(gs)
               PROVE  \E v \in 1 .. g.maxvar :
                        IsAnd(g, v) /\ code[v] # 0 /\ gs[j] = RecodedGate(And(g, v)) /\ gs[j].lhs = code[v]
    OBVIOUS
  <2>1. PICK v \in 1 .. g.maxvar : IsAnd(g, v) /\ code[v] # 0 /\ gs[j] = RecodedGate(And(g, v))
    BY RecodedAndsReach
  <2>2. gs[j].lhs = code[v]
    BY <2>1, RecodedGateIs
  <2> QED
    BY <2>1, <2>2
<1>7. \A v \in 1 .. g.maxvar : IsAnd(g, v) /\ code[v] # 0 =>
            \E j \in 1 .. Len(gs) : gs[j] = RecodedGate(And(g, v)) /\ gs[j].lhs = code[v]
  <2> SUFFICES ASSUME NEW v \in 1 .. g.maxvar, IsAnd(g, v), code[v] # 0
               PROVE  \E j \in 1 .. Len(gs) : gs[j] = RecodedGate(And(g, v)) /\ gs[j].lhs = code[v]
    OBVIOUS
  <2>1. PICK j \in 1 .. Len(gs) : gs[j] = RecodedGate(And(g, v))
    BY RecodedAndsReach
  <2>2. gs[j].lhs = code[v]
    BY <2>1, RecodedGateIs
  <2> QED
    BY <2>1, <2>2
<1>8. \A i, j \in 1 .. Len(gs) : gs[i].lhs = gs[j].lhs => i = j
  <2> SUFFICES ASSUME NEW i \in 1 .. Len(gs), NEW j \in 1 .. Len(gs), gs[i].lhs = gs[j].lhs, i < j PROVE FALSE
    BY <1>5
  <2>1. gs[i].lhs < gs[j].lhs
    BY <1>4
  <2>2. gs[i].lhs \in Nat
    <3>1. PICK v \in 1 .. g.maxvar : IsAnd(g, v) /\ code[v] # 0 /\ gs[i] = RecodedGate(And(g, v))
      BY <1>6
    <3> QED
      BY <3>1, RecodedGateIs
  <2> QED
    BY <2>1, <2>2
<1> QED
  BY <1>4, <1>5, <1>6, <1>7, <1>8

\* Where aiger_reencode has passed on all roots, all roots have a code.
RootsCoded(g) == \A k \in 1 .. Len(Roots(g)) : HasCode(Roots(g)[k])

\* The next states, the resets and the properties are roots.
LEMMA RootsAre ==
    ASSUME NEW g \in Graphs
    PROVE  /\ \A i \in 1 .. Len(g.latches) :
                /\ \E k \in 1 .. Len(Roots(g)) : Roots(g)[k] = g.latches[i].next
                /\ \E k \in 1 .. Len(Roots(g)) : Roots(g)[k] = g.latches[i].reset
           /\ \A l \in Elements(Properties(g)) : \E k \in 1 .. Len(Roots(g)) : Roots(g)[k] = l
<1>1. PICK L \in Nat : L = Len(g.latches)
  BY GraphParts
<1>2. PICK p : p = [k \in 1 .. 2 * L |->
                        LET l == g.latches[(k + 1) \div 2] IN IF k % 2 = 1 THEN l.next ELSE l.reset]
  OBVIOUS
<1>3. PICK q : q = Properties(g)
  OBVIOUS
<1>4. PICK e : e = p \o q
  OBVIOUS
<1>5. Roots(g) = e
  BY <1>1, <1>2, <1>3, <1>4 DEF Roots
<1>6. \A i \in 1 .. L : g.latches[i].next \in Nat /\ g.latches[i].reset \in Nat
  BY <1>1, GraphElements
<1>7. ASSUME NEW k \in 1 .. 2 * L
      PROVE  (k + 1) \div 2 \in 1 .. L
  OBVIOUS
<1>8. p \in [1 .. 2 * L -> Nat]
  BY <1>2, <1>6, <1>7
<1>9. 2 * L \in Nat
  OBVIOUS
<1>10. p \in Seq(Nat) /\ Len(p) = 2 * L
  BY ONLY <1>8, <1>9, FunctionIsSequence
<1>11. q \in Seq(Nat)
  BY <1>3, PropertiesType
<1>12. Elements(e) = Elements(p) \cup Elements(q)
  BY ONLY <1>4, <1>10, <1>11, ElementsOfJoin
<1>13. ASSUME NEW x \in Elements(e) PROVE \E k \in 1 .. Len(e) : e[k] = x
  BY <1>13 DEF Elements
<1>14. ASSUME NEW i \in 1 .. L
       PROVE  g.latches[i].next \in Elements(p) /\ g.latches[i].reset \in Elements(p)
  <2>1. /\ 2 * i - 1 \in 1 .. 2 * L /\ 2 * i \in 1 .. 2 * L
        /\ (2 * i - 1) % 2 = 1 /\ (2 * i) % 2 # 1
        /\ ((2 * i - 1) + 1) \div 2 = i /\ (2 * i + 1) \div 2 = i
    BY ONLY L \in Nat, i \in 1 .. L
  <2>2. p[2 * i - 1] = g.latches[i].next /\ p[2 * i] = g.latches[i].reset
    BY <1>2, <2>1
  <2> QED
    BY <1>10, <2>1, <2>2 DEF Elements
<1>15. ASSUME NEW i \in 1 .. L
       PROVE  /\ \E k \in 1 .. Len(e) : e[k] = g.latches[i].next
              /\ \E k \in 1 .. Len(e) : e[k] = g.latches[i].reset
  BY <1>12, <1>13, <1>14
<1> QED
  BY <1>1, <1>3, <1>5, <1>12, <1>13, <1>15

\* The codes of gates are above those of inputs and latches, and below new.
LEMMA GateCodeRange ==
    ASSUME NEW g, Sound(g), CodeInv(g, code, new), NEW v \in 1 .. g.maxvar, IsAnd(g, v), code[v] # 0,
           NEW N \in Nat, new = 2 * (N + 1)
    PROVE  \E u \in 1 .. N : code[v] = 2 * u /\ Len(g.inputs) + Len(g.latches) < u
<1>1. PICK I \in Nat, L \in Nat : I = Len(g.inputs) /\ L = Len(g.latches)
  BY GraphParts DEF Sound
<1>2. PICK n \in Nat : \E o : IsCodeOrder(g, code, new, n, o)
  BY DEF CodeInv, CodedInOrder
<1>3. PICK o : IsCodeOrder(g, code, new, n, o)
  BY <1>2
<1>4. PICK F : F = FirstCode(g)
  OBVIOUS
<1>5. F = 2 * (I + L + 1)
  BY <1>1, <1>4 DEF FirstCode
<1>6. PICK k \in 1 .. n : o[k] = v
  BY <1>3 DEF IsCodeOrder
<1>7. code[v] = F + 2 * (k - 1) /\ new = F + 2 * n
  BY <1>3, <1>4, <1>6 DEF IsCodeOrder
<1>8. PICK u : u = I + L + k
  OBVIOUS
<1>9. u \in 1 .. N /\ code[v] = 2 * u /\ I + L < u
  BY ONLY <1>5, <1>7, <1>8, new = 2 * (N + 1), N \in Nat, I \in Nat, L \in Nat, n \in Nat, k \in 1 .. n
<1> QED
  BY <1>1, <1>9

\* What has a code is defined after reencoding.
LEMMA CodeIsDefined ==
    ASSUME NEW g, Sound(g), CodeInv(g, code, new), NEW h, h = Recoded(g),
           NEW l \in Nat, IsDefined(g, l), HasCode(l)
    PROVE  Code(l) \in Nat /\ IsDefined(h, Code(l))
<1>1. Code(l) \in Nat
  BY CodeOf
<1>2. CASE IsConstant(l)
  <2>1. Code(l) = l /\ Var(l) = 0
    BY <1>2, CodeOf DEF IsConstant, Var
  <2> QED
    BY <1>1, <2>1 DEF IsDefined
<1>3. CASE ~IsConstant(l)
  <2>1. PICK v \in 1 .. g.maxvar : v = Var(l) /\ code[v] # 0
    BY <1>3, CodeOf DEF HasCode
  <2>2. 2 * Var(Code(l)) = code[v] /\ v \in 0 .. g.maxvar
    BY <1>3, <2>1, CodeOf, DefinedInRange
  <2>3. IsInput(g, v) \/ IsLatch(g, v) \/ IsAnd(g, v)
    BY <2>1, <2>2 DEF CodeInv, LeavesCoded
  <2>4. CASE IsInput(g, v)
    <3>1. PICK i \in 1 .. Len(g.inputs) : g.inputs[i] = 2 * v
      BY <2>4, GraphParts DEF IsInput, Sound
    <3>2. code[v] = 2 * i
      BY <2>2, <3>1 DEF CodeInv, LeavesCoded
    <3>3. h.inputs[i] = 2 * i
      BY RecodedLeaves
    <3>4. i \in DOMAIN h.inputs
      <4>1. h.inputs \in Seq(Nat) /\ Len(h.inputs) = Len(g.inputs)
        BY RecodedLeaves
      <4>2. DOMAIN h.inputs = 1 .. Len(h.inputs)
        BY <4>1, LengthOf
      <4> QED
        BY <4>1, <4>2
    <3>5. IsInput(h, Var(Code(l)))
      BY <2>2, <3>2, <3>3, <3>4 DEF IsInput
    <3> QED
      BY <1>1, <3>5 DEF IsDefined
  <2>5. CASE IsLatch(g, v)
    <3>1. PICK i \in 1 .. Len(g.latches) : g.latches[i].lit = 2 * v
      BY <2>5, GraphParts DEF IsLatch, Sound
    <3>2. code[v] = 2 * (Len(g.inputs) + i)
      BY <2>2, <3>1 DEF CodeInv, LeavesCoded
    <3>3. h.latches[i].lit = 2 * (Len(g.inputs) + i)
      BY RecodedLeaves
    <3>4. i \in DOMAIN h.latches
      BY <3>1, GraphParts, RecodedIs DEF Sound
    <3>5. IsLatch(h, Var(Code(l)))
      BY <2>2, <3>2, <3>3, <3>4 DEF IsLatch
    <3> QED
      BY <1>1, <3>5 DEF IsDefined
  <2>6. CASE IsAnd(g, v)
    <3>1. PICK gs : gs = RecodedAnds(g)
      OBVIOUS
    <3>2. PICK j \in 1 .. Len(gs) : gs[j].lhs = code[v]
      BY <2>1, <2>6, <3>1, RecodedGatesAre
    <3>3. DOMAIN gs = 1 .. Len(gs) /\ h.ands = gs
      BY <3>1, RecodedGatesAre, RecodedIs
    <3>4. IsAnd(h, Var(Code(l)))
      BY <2>2, <3>2, <3>3 DEF IsAnd
    <3> QED
      BY <1>1, <3>4 DEF IsDefined
  <2> QED
    BY <2>3, <2>4, <2>5, <2>6
<1> QED
  BY <1>2, <1>3

\* The operands of the gates that were reached.
LEMMA RecodedOperands ==
    ASSUME NEW g, Sound(g), CodeInv(g, code, new), NEW h, h = Recoded(g),
           NEW v \in 1 .. g.maxvar, IsAnd(g, v), code[v] # 0, NEW b, b = RecodedGate(And(g, v))
    PROVE  IsDefined(h, b.rhs0) /\ IsDefined(h, b.rhs1)
<1>1. PICK r0, r1 : r0 = And(g, v).rhs0 /\ r1 = And(g, v).rhs1
  OBVIOUS
<1>2. v \in Nat
  OBVIOUS
<1>3. r0 \in Nat /\ r1 \in Nat /\ IsDefined(g, r0) /\ IsDefined(g, r1)
  BY <1>1, <1>2, GateOf
<1>4. IsChild(g, Var(r0), v) /\ IsChild(g, Var(r1), v)
  BY <1>1, <1>2, ChildrenOf
<1>5. ASSUME NEW r \in Nat, IsDefined(g, r), IsChild(g, Var(r), v) PROVE IsDefined(h, Code(r))
  <2>1. HasCode(r)
    <3>1. CASE IsConstant(r)
      BY <3>1 DEF HasCode
    <3>2. CASE ~IsConstant(r)
      <4>1. Var(r) \in 1 .. g.maxvar
        BY <1>5, <3>2, CodeOf
      <4>2. code[Var(r)] # 0
        BY <1>5, <4>1 DEF CodeInv, OperandsCoded
      <4> QED
        BY <4>2 DEF HasCode
    <3> QED
      BY <3>1, <3>2
  <2> QED
    BY <1>5, <2>1, CodeIsDefined
<1>6. PICK x, y, z : x = Code(And(g, v).lhs) /\ y = Code(r0) /\ z = Code(r1)
  OBVIOUS
<1>7. IsDefined(h, y) /\ IsDefined(h, z)
  BY <1>3, <1>4, <1>5, <1>6
<1>8. b = LargerFirst(x, y, z)
  BY <1>1, <1>6 DEF RecodedGate
<1>9. b.rhs0 \in {y, z} /\ b.rhs1 \in {y, z}
  BY ONLY <1>8 DEF LargerFirst
<1> QED
  BY <1>7, <1>9

\* The numbering is that of a graph in which each literal is defined once.
LEMMA RecodedDefinedOnce ==
    ASSUME NEW g, Sound(g), CodeInv(g, code, new), NEW h, h = Recoded(g)
    PROVE  DefinedOnce(h)
<1>1. PICK I \in Nat, L \in Nat : I = Len(g.inputs) /\ L = Len(g.latches)
  BY GraphParts DEF Sound
<1>2. PICK N \in Nat : N = h.maxvar /\ new = 2 * (N + 1) /\ I + L <= N
  BY <1>1, RecodedLeaves
<1>3. PICK gs : gs = RecodedAnds(g)
  OBVIOUS
<1>4. h.ands = gs
  BY <1>3, RecodedIs
<1>5. Len(h.inputs) = I /\ Len(h.latches) = L
  BY <1>1, RecodedLeaves
<1>6. /\ \A i \in 1 .. I : h.inputs[i] = 2 * i
      /\ \A i \in 1 .. L : h.latches[i].lit = 2 * (I + i)
  BY <1>1, RecodedLeaves
<1>7. ASSUME NEW j \in 1 .. Len(gs) PROVE \E u \in 1 .. N : gs[j].lhs = 2 * u /\ I + L < u
  <2>1. PICK v \in 1 .. g.maxvar : IsAnd(g, v) /\ code[v] # 0 /\ gs[j].lhs = code[v]
    BY <1>3, RecodedGatesAre
  <2>2. PICK u \in 1 .. N : code[v] = 2 * u /\ Len(g.inputs) + Len(g.latches) < u
    BY <1>2, <2>1, GateCodeRange
  <2> QED
    BY <1>1, <2>1, <2>2
<1>8. \A i, j \in 1 .. Len(gs) : gs[i].lhs = gs[j].lhs => i = j
  BY <1>3, RecodedGatesAre
<1>9. \A i \in 1 .. I : IsDefinition(h, h.inputs[i])
  <2> SUFFICES ASSUME NEW i \in 1 .. I PROVE IsDefinition(h, h.inputs[i])
    OBVIOUS
  <2>1. i \in 1 .. N
    BY <1>2
  <2> QED
    BY <1>2, <1>6, <2>1 DEF IsDefinition
<1>10. \A i \in 1 .. L : IsDefinition(h, h.latches[i].lit)
  <2> SUFFICES ASSUME NEW i \in 1 .. L PROVE IsDefinition(h, h.latches[i].lit)
    OBVIOUS
  <2>1. I + i \in 1 .. N
    BY <1>2
  <2> QED
    BY <1>2, <1>6, <2>1 DEF IsDefinition
<1>11. \A j \in 1 .. Len(gs) : IsDefinition(h, gs[j].lhs)
  BY <1>2, <1>7 DEF IsDefinition
<1>12. \A i, j \in 1 .. I : h.inputs[i] = h.inputs[j] => i = j
  BY <1>6
<1>13. \A i, j \in 1 .. L : h.latches[i].lit = h.latches[j].lit => i = j
  <2> SUFFICES ASSUME NEW i \in 1 .. L, NEW j \in 1 .. L, h.latches[i].lit = h.latches[j].lit PROVE i = j
    OBVIOUS
  <2>1. 2 * (I + i) = 2 * (I + j)
    BY <1>6
  <2> QED
    BY ONLY <2>1, i \in 1 .. L, j \in 1 .. L, I \in Nat, L \in Nat
<1>14. \A i \in 1 .. I, j \in 1 .. L : h.inputs[i] # h.latches[j].lit
  <2> SUFFICES ASSUME NEW i \in 1 .. I, NEW j \in 1 .. L, h.inputs[i] = h.latches[j].lit PROVE FALSE
    OBVIOUS
  <2>1. 2 * i = 2 * (I + j)
    BY <1>6
  <2> QED
    BY ONLY <2>1, i \in 1 .. I, j \in 1 .. L, I \in Nat, L \in Nat
<1>15. \A i \in 1 .. I, j \in 1 .. Len(gs) : h.inputs[i] # gs[j].lhs
  <2> SUFFICES ASSUME NEW i \in 1 .. I, NEW j \in 1 .. Len(gs), h.inputs[i] = gs[j].lhs PROVE FALSE
    OBVIOUS
  <2>1. PICK u \in 1 .. N : gs[j].lhs = 2 * u /\ I + L < u
    BY <1>7
  <2>2. 2 * i = 2 * u
    BY <1>6, <2>1
  <2> QED
    BY ONLY <2>1, <2>2, i \in 1 .. I, u \in 1 .. N, I \in Nat, L \in Nat, N \in Nat
<1>16. \A i \in 1 .. L, j \in 1 .. Len(gs) : h.latches[i].lit # gs[j].lhs
  <2> SUFFICES ASSUME NEW i \in 1 .. L, NEW j \in 1 .. Len(gs), h.latches[i].lit = gs[j].lhs PROVE FALSE
    OBVIOUS
  <2>1. PICK u \in 1 .. N : gs[j].lhs = 2 * u /\ I + L < u
    BY <1>7
  <2>2. 2 * (I + i) = 2 * u
    BY <1>6, <2>1
  <2> QED
    BY ONLY <2>1, <2>2, i \in 1 .. L, u \in 1 .. N, I \in Nat, L \in Nat, N \in Nat
<1> QED
  BY <1>4, <1>5, <1>8, <1>9, <1>10, <1>11, <1>12, <1>13, <1>14, <1>15, <1>16 DEF DefinedOnce

\* The latches after reencoding.
LEMMA RecodedLatches ==
    ASSUME NEW g, Sound(g), HasResets(g), CodeInv(g, code, new), RootsCoded(g), NEW h, h = Recoded(g)
    PROVE  /\ h.latches \in Seq([lit : Nat, next : Nat, reset : Nat])
           /\ DOMAIN h.latches = 1 .. Len(g.latches)
           /\ \A i \in 1 .. Len(g.latches) :
                /\ IsDefined(h, h.latches[i].next)
                /\ h.latches[i].next = Code(g.latches[i].next)
                /\ h.latches[i].reset \in {0, 1, h.latches[i].lit}
                /\ IsConstant(g.latches[i].reset) => h.latches[i].reset = g.latches[i].reset
                /\ ~IsConstant(g.latches[i].reset) => h.latches[i].reset = h.latches[i].lit
                /\ ~IsConstant(h.latches[i].lit)
<1>1. PICK I \in Nat, L \in Nat : I = Len(g.inputs) /\ L = Len(g.latches) /\ DOMAIN g.latches = 1 .. L
  BY GraphParts DEF Sound
<1>2. \A i \in 1 .. L : /\ g.latches[i].lit \in Nat /\ g.latches[i].next \in Nat /\ g.latches[i].reset \in Nat
                        /\ IsDefined(g, g.latches[i].lit) /\ IsDefined(g, g.latches[i].next)
                        /\ g.latches[i].reset \in {0, 1, g.latches[i].lit}
  BY <1>1, GraphElements, UsesDefined DEF Sound, HasResets
<1>3. PICK q : q = h.latches
  OBVIOUS
<1>4. q = [i \in 1 .. L |-> [ lit   |-> Code(g.latches[i].lit), next  |-> Code(g.latches[i].next),
                              reset |-> Code(g.latches[i].reset) ]]
  BY <1>1, <1>3 DEF Recoded
<1>5. ASSUME NEW i \in 1 .. L
      PROVE  /\ q[i] \in [lit : Nat, next : Nat, reset : Nat]
             /\ q[i].lit = Code(g.latches[i].lit) /\ q[i].next = Code(g.latches[i].next)
             /\ q[i].reset = Code(g.latches[i].reset)
             /\ Code(g.latches[i].next) \in Nat
  <2>1. PICK a, b, c : /\ a = Code(g.latches[i].lit) /\ b = Code(g.latches[i].next)
                       /\ c = Code(g.latches[i].reset)
    OBVIOUS
  <2>2. q[i] = [lit |-> a, next |-> b, reset |-> c]
    BY <1>4, <2>1
  <2>3. a \in Nat /\ b \in Nat
    BY <1>2, <2>1, CodeOf
  <2>4. \A x \in {0, 1} : Code(x) = x
    BY DEF Code, IsConstant
  <2>5. c \in {0, 1, a}
    BY <1>2, <2>1, <2>4
  <2>6. c \in Nat
    BY <2>3, <2>5
  <2>7. /\ q[i] \in [lit : Nat, next : Nat, reset : Nat]
        /\ q[i].lit = a /\ q[i].next = b /\ q[i].reset = c
    BY ONLY <2>2, <2>3, <2>6
  <2> QED
    BY <2>1, <2>3, <2>7
<1>6. PICK T : T = [lit : Nat, next : Nat, reset : Nat]
  OBVIOUS
<1>7. DOMAIN q = 1 .. L /\ q = [i \in 1 .. L |-> q[i]]
  BY <1>4
<1>8. q \in [1 .. L -> T]
  BY ONLY <1>5, <1>6, <1>7
<1>9. q \in Seq(T)
  BY ONLY <1>8, L \in Nat, FunctionIsSequence
<1>10. ASSUME NEW i \in 1 .. L
       PROVE  /\ IsDefined(h, q[i].next)
              /\ q[i].reset \in {0, 1, q[i].lit}
              /\ IsConstant(g.latches[i].reset) => q[i].reset = g.latches[i].reset
              /\ ~IsConstant(g.latches[i].reset) => q[i].reset = q[i].lit
              /\ ~IsConstant(q[i].lit)
  <2>1. HasCode(g.latches[i].next)
    <3>1. PICK k \in 1 .. Len(Roots(g)) : Roots(g)[k] = g.latches[i].next
      BY <1>1, RootsAre DEF Sound
    <3> QED
      BY <3>1 DEF RootsCoded
  <2>2. IsDefined(h, Code(g.latches[i].next))
    BY <1>2, <2>1, CodeIsDefined
  <2>3. \A x \in {0, 1} : Code(x) = x /\ IsConstant(x)
    BY DEF Code, IsConstant
  <2>4. q[i].lit = 2 * (I + i)
    BY <1>1, <1>3, RecodedLeaves
  <2>5. ~IsConstant(q[i].lit)
    BY <2>4 DEF IsConstant
  <2>6. ~IsConstant(g.latches[i].lit)
    <3>1. PICK v \in 1 .. g.maxvar : g.latches[i].lit = 2 * v
      BY <1>1 DEF Sound, DefinedOnce, IsDefinition
    <3> QED
      BY <3>1 DEF IsConstant
  <2>7. \A x \in Nat : IsConstant(x) => x \in {0, 1}
    BY DEF IsConstant
  <2> QED
    BY <1>2, <1>5, <2>2, <2>3, <2>5, <2>6, <2>7
<1> QED
  BY <1>1, <1>3, <1>5, <1>6, <1>7, <1>9, <1>10

\* The properties after reencoding.
LEMMA RecodedProperties ==
    ASSUME NEW g, Sound(g), CodeInv(g, code, new), NEW h, h = Recoded(g)
    PROVE  /\ h.outputs \in Seq(Nat) /\ h.bad \in Seq(Nat) /\ h.constraints \in Seq(Nat)
           /\ h.justice \in Seq(Nat) /\ h.fairness \in Seq(Nat)
           /\ Elements(h.outputs) \cup Elements(h.bad) \cup Elements(h.constraints)
                \cup Elements(h.justice) \cup Elements(h.fairness)
                = {Code(l) : l \in Elements(Properties(g))}
<1>1. PICK o, b, c, j, f : o = g.outputs /\ b = g.bad /\ c = g.constraints /\ j = g.justice /\ f = g.fairness
  OBVIOUS
<1>2. o \in Seq(Nat) /\ b \in Seq(Nat) /\ c \in Seq(Nat) /\ j \in Seq(Nat) /\ f \in Seq(Nat)
  BY <1>1, GraphParts DEF Sound
<1>3. \A l \in Elements(o) \cup Elements(b) \cup Elements(c) \cup Elements(j) \cup Elements(f) : IsDefined(g, l)
  BY <1>1, UsesDefined
<1>4. PICK ro, rb, rc, rj, rf : /\ ro = Recode(o) /\ rb = Recode(b) /\ rc = Recode(c)
                                /\ rj = Recode(j) /\ rf = Recode(f)
  OBVIOUS
<1>5. ro \in Seq(Nat) /\ Elements(ro) = {Code(l) : l \in Elements(o)}
  BY <1>2, <1>3, <1>4, RecodeType
<1>6. rb \in Seq(Nat) /\ Elements(rb) = {Code(l) : l \in Elements(b)}
  BY <1>2, <1>3, <1>4, RecodeType
<1>7. rc \in Seq(Nat) /\ Elements(rc) = {Code(l) : l \in Elements(c)}
  BY <1>2, <1>3, <1>4, RecodeType
<1>8. rj \in Seq(Nat) /\ Elements(rj) = {Code(l) : l \in Elements(j)}
  BY <1>2, <1>3, <1>4, RecodeType
<1>9. rf \in Seq(Nat) /\ Elements(rf) = {Code(l) : l \in Elements(f)}
  BY <1>2, <1>3, <1>4, RecodeType
<1>10. h.outputs = ro /\ h.bad = rb /\ h.constraints = rc /\ h.justice = rj /\ h.fairness = rf
  BY <1>1, <1>4, RecodedIs
<1>11. Elements(Properties(g)) = Elements(o) \cup Elements(b) \cup Elements(c) \cup Elements(j) \cup Elements(f)
  BY <1>1, PropertyElements DEF Sound
<1>12. Elements(ro) \cup Elements(rb) \cup Elements(rc) \cup Elements(rj) \cup Elements(rf)
        = {Code(l) : l \in Elements(Properties(g))}
  BY ONLY <1>5, <1>6, <1>7, <1>8, <1>9, <1>11
<1> QED
  BY <1>5, <1>6, <1>7, <1>8, <1>9, <1>10, <1>12

\* A recoded graph is a graph.
LEMMA RecodedIsGraph ==
    ASSUME NEW g, Sound(g), HasResets(g), CodeInv(g, code, new), RootsCoded(g), NEW h, h = Recoded(g)
    PROVE  h \in Graphs
<1>1. PICK i, l, a, o, b, c, n, j, f, m :
        /\ i = h.inputs /\ l = h.latches /\ a = h.ands /\ o = h.outputs /\ b = h.bad
        /\ c = h.constraints /\ n = h.numJustice /\ j = h.justice /\ f = h.fairness /\ m = h.maxvar
  OBVIOUS
<1>2. h = [inputs |-> i, latches |-> l, ands |-> a, outputs |-> o, bad |-> b, constraints |-> c,
           numJustice |-> n, justice |-> j, fairness |-> f, maxvar |-> m]
  BY <1>1 DEF Recoded
<1>3. i \in Seq(Nat) /\ m \in Nat
  BY <1>1, RecodedLeaves
<1>n. n \in Nat
  BY <1>1, RecodedIs, GraphParts DEF Sound
<1>4. l \in Seq([lit : Nat, next : Nat, reset : Nat])
  BY <1>1, RecodedLatches
<1>5. a \in Seq([lhs : Nat, rhs0 : Nat, rhs1 : Nat])
  BY <1>1, RecodedIs, RecodedGatesAre
<1>6. o \in Seq(Nat) /\ b \in Seq(Nat) /\ c \in Seq(Nat) /\ j \in Seq(Nat) /\ f \in Seq(Nat)
  BY <1>1, RecodedProperties
<1>7. PICK S, TL, TA : /\ S = Seq(Nat) /\ TL = Seq([lit : Nat, next : Nat, reset : Nat])
                       /\ TA = Seq([lhs : Nat, rhs0 : Nat, rhs1 : Nat])
  OBVIOUS
<1>8. h \in [inputs : S, latches : TL, ands : TA, outputs : S, bad : S, constraints : S,
             numJustice : Nat, justice : S, fairness : S, maxvar : Nat]
  <2>1. /\ i \in S /\ m \in Nat /\ n \in Nat /\ l \in TL /\ a \in TA
        /\ o \in S /\ b \in S /\ c \in S /\ j \in S /\ f \in S
    BY ONLY <1>3, <1>n, <1>4, <1>5, <1>6, <1>7
  <2> QED
    BY ONLY <1>2, <2>1
<1> QED
  BY <1>7, <1>8 DEF Graphs

\* aiger_reencode turns a graph that aiger_check accepts into one.
LEMMA RecodedSound ==
    ASSUME NEW g, Sound(g), HasResets(g), CodeInv(g, code, new), RootsCoded(g), NEW h, h = Recoded(g)
    PROVE  Sound(h) /\ HasResets(h) /\ h.maxvar <= g.maxvar
<1>1. h \in Graphs
  BY RecodedIsGraph
<1>2. DefinedOnce(h)
  BY RecodedDefinedOnce
<1>3. \A i \in DOMAIN h.latches : IsDefined(h, h.latches[i].next)
  BY RecodedLatches
<1>4. \A i \in DOMAIN Properties(h) : IsDefined(h, Properties(h)[i])
  <2> SUFFICES ASSUME NEW i \in DOMAIN Properties(h) PROVE IsDefined(h, Properties(h)[i])
    OBVIOUS
  <2>1. Properties(h)[i] \in Elements(Properties(h))
    BY <1>1, PropertiesType, LengthOf DEF Elements
  <2>2. PICK l \in Elements(Properties(g)) : Properties(h)[i] = Code(l)
    <3>1. PICK P, Q : P = Elements(Properties(h)) /\ Q = Elements(Properties(g))
      OBVIOUS
    <3>2. P = {Code(l) : l \in Q}
      BY <1>1, <3>1, PropertyElements, RecodedProperties
    <3> QED
      BY <2>1, <3>1, <3>2
  <2>3. PICK k \in 1 .. Len(Roots(g)) : Roots(g)[k] = l
    BY RootsAre DEF Sound
  <2>4. HasCode(l)
    BY <2>3 DEF RootsCoded
  <2>5. Roots(g) \in Seq(Nat)
    BY RootsDefined
  <2>6. l \in Nat /\ IsDefined(g, l)
    BY <2>3, <2>5, ElementOfSequence, UsesDefined
  <2> QED
    BY <2>2, <2>4, <2>6, CodeIsDefined
<1>5. \A i \in DOMAIN h.ands : IsDefined(h, h.ands[i].rhs0) /\ IsDefined(h, h.ands[i].rhs1)
  <2>1. PICK gs : gs = RecodedAnds(g)
    OBVIOUS
  <2>2. h.ands = gs /\ DOMAIN gs = 1 .. Len(gs)
    BY <2>1, RecodedIs, RecodedGatesAre
  <2>3. ASSUME NEW i \in 1 .. Len(gs) PROVE IsDefined(h, gs[i].rhs0) /\ IsDefined(h, gs[i].rhs1)
    <3>0. \A j \in 1 .. Len(gs) : \E v \in 1 .. g.maxvar :
                IsAnd(g, v) /\ code[v] # 0 /\ gs[j] = RecodedGate(And(g, v))
      BY ONLY <2>1, RecodedAndsReach, Sound(g), CodeInv(g, code, new)
    <3>1. PICK v \in 1 .. g.maxvar : IsAnd(g, v) /\ code[v] # 0 /\ gs[i] = RecodedGate(And(g, v))
      BY <3>0, Zenon
    <3>2. PICK b : b = gs[i]
      OBVIOUS
    <3>3. IsDefined(h, b.rhs0) /\ IsDefined(h, b.rhs1)
      BY <3>1, <3>2, RecodedOperands
    <3> QED
      BY <3>2, <3>3
  <2> QED
    BY <2>2, <2>3
<1>6. AllDefined(h)
  BY <1>3, <1>4, <1>5 DEF AllDefined
<1>7. HasResets(h)
  BY RecodedLatches DEF HasResets
<1>8. h.maxvar <= g.maxvar
  <2>1. PICK M \in Nat, N \in Nat : M = g.maxvar /\ N = h.maxvar
    BY RecodedLeaves, GraphParts DEF Sound
  <2>2. new = 2 * (N + 1) /\ new <= 2 * (M + 1)
    BY <2>1, RecodedLeaves, CodesFit
  <2> QED
    BY ONLY <2>1, <2>2
<1> QED
  BY <1>1, <1>2, <1>6, <1>7, <1>8 DEF Sound

-----------------------------------------------------------------------------
(* The types of the program's variables.                                   *)

\* The first r roots have a code, or are being given one.
RootsPassed(g, s, cd, r) ==
    \A k \in 1 .. r : \/ IsConstant(Roots(g)[k]) \/ cd[Var(Roots(g)[k])] # 0
                      \/ s # <<>> /\ s[1] = Var(Roots(g)[k])

RootInv ==
    /\ pc \in {"help", "parse", "open", "read", "cycles", "context"} => root = 0
    /\ pc = "reencode" => root \in 0 .. Len(Roots(aig)) /\ RootsPassed(aig, stack, code, root)

\* The bottom of the stack.
LEMMA BottomStays ==
    ASSUME NEW T, NEW s \in Seq(T), NEW e \in Seq(T), s # <<>>, e # <<>>, Len(e) <= Len(s),
           \A k \in 1 .. Len(e) : e[k] = s[k]
    PROVE  e[1] = s[1]
<1>1. Len(e) \in Nat /\ Len(e) # 0
  OBVIOUS
<1>2. 1 \in 1 .. Len(e)
  BY ONLY <1>1
<1> QED
  BY <1>2

\* Roots are kept when the stack grows, or what has a code is popped.
LEMMA ExpandKeepsRoots ==
    ASSUME NEW g, Sound(g), Ranks(g) # {}, NEW s, NEW on, NEW cd, NEW nw, NEW r,
           ReencodeInv(g, s, on, cd, nw), s # <<>>, RootsPassed(g, s, cd, r)
    PROVE  /\ Last(s) # 0 /\ cd[Last(s)] # 0 => RootsPassed(g, Front(s), cd, r)
           /\ \A p, q \in Seq(0 .. g.maxvar) : RootsPassed(g, s \o << 0 >> \o p \o q, cd, r)
<1>1. PICK T : T = 0 .. g.maxvar
  OBVIOUS
<1>2. s \in Seq(T) /\ 0 \in T
  BY <1>1, GraphParts DEF ReencodeInv, Traversed, Shape, Sound
<1>3. ASSUME Last(s) # 0, cd[Last(s)] # 0 PROVE RootsPassed(g, Front(s), cd, r)
  <2>1. PICK e : e = Front(s)
    OBVIOUS
  <2>2. e \in Seq(T) /\ Len(s) \in Nat /\ Len(s) > 0 /\ Len(e) = Len(s) - 1 /\ \A k \in 1 .. Len(s) - 1 : e[k] = s[k]
    BY <1>2, <2>1, FrontOf
  <2>3. CASE e = <<>>
    <3>1. Len(s) = 1
      BY <2>2, <2>3
    <3>2. s[1] = Last(s)
      BY <3>1 DEF Last
    <3> QED
      BY <1>3, <2>1, <2>3, <3>2 DEF RootsPassed
  <2>4. CASE e # <<>>
    <3>1. e[1] = s[1]
      BY <1>2, <2>2, <2>4, BottomStays
    <3> QED
      BY <2>1, <2>4, <3>1 DEF RootsPassed
  <2> QED
    BY <2>3, <2>4
<1>4. ASSUME NEW p \in Seq(T), NEW q \in Seq(T) PROVE RootsPassed(g, s \o << 0 >> \o p \o q, cd, r)
  <2>1. PICK a : a = s \o << 0 >>
    OBVIOUS
  <2>2. a \in Seq(T)
    BY ONLY <1>2, <2>1
  <2>3. Len(a) = Len(s) + 1 /\ \A k \in 1 .. Len(s) : a[k] = s[k]
    BY ONLY <1>2, <2>1
  <2>4. PICK e : e = a \o p \o q
    OBVIOUS
  <2>5. e \in Seq(T) /\ \A k \in 1 .. Len(a) : e[k] = a[k]
    BY <2>2, <2>4, Concatenated
  <2>6. Len(e) = Len(a) + Len(p) + Len(q) /\ Len(a) \in Nat /\ Len(p) \in Nat /\ Len(q) \in Nat
    BY <2>2, <2>4, Concatenated, LengthOf
  <2>7. Len(s) \in Nat /\ Len(s) # 0
    BY ONLY <1>2, s # <<>>
  <2>8. 1 \in 1 .. Len(s) /\ 1 \in 1 .. Len(a) /\ Len(e) # 0
    BY ONLY <2>3, <2>6, <2>7
  <2>9. e[1] = s[1]
    BY <2>3, <2>5, <2>8
  <2>10. e # <<>>
    BY <2>8
  <2> QED
    BY <2>1, <2>4, <2>9, <2>10 DEF RootsPassed
<1> QED
  BY <1>1, <1>3, <1>4

\* Roots are kept when a gate gets its code.
LEMMA CodeKeepsRoots ==
    ASSUME NEW g, Sound(g), NEW s, NEW on, NEW cd, NEW nw, NEW r,
           ReencodeInv(g, s, on, cd, nw), s # <<>>, Last(s) = 0, RootsPassed(g, s, cd, r),
           NEW v, v = Last(Front(s)), HasResets(g), r \in 0 .. Len(Roots(g))
    PROVE  RootsPassed(g, Front(Front(s)), [cd EXCEPT ![v] = nw], r)
<1>1. PICK T : T = 0 .. g.maxvar
  OBVIOUS
<1>2. s \in Seq(T) /\ 0 \in T
  BY <1>1, GraphParts DEF ReencodeInv, Traversed, Shape, Sound
<1>3. PICK d : d = Front(s)
  OBVIOUS
<1>4. d \in Seq(T) /\ Len(s) \in Nat /\ Len(s) > 0 /\ Len(d) = Len(s) - 1 /\ \A k \in 1 .. Len(s) - 1 : d[k] = s[k]
  BY <1>2, <1>3, FrontOf
<1>5. Len(s) > 1
  <2>1. s[Len(s)] = 0 /\ Len(s) \in 1 .. Len(s)
    BY <1>4 DEF Last
  <2>2. Len(s) - 1 \in 1 .. Len(s)
    BY <2>1 DEF ReencodeInv, Traversed, Shape
  <2> QED
    BY <1>4, <2>2
<1>6. d # <<>>
  BY <1>4, <1>5
<1>7. PICK e : e = Front(d)
  OBVIOUS
<1>8. e \in Seq(T) /\ Len(e) = Len(d) - 1 /\ \A k \in 1 .. Len(d) - 1 : e[k] = d[k]
  BY <1>4, <1>6, <1>7, FrontOf
<1>9. PICK ce : ce = [cd EXCEPT ![v] = nw]
  OBVIOUS
<1>10. nw # 0 /\ cd \in [0 .. g.maxvar -> Nat]
  <2>1. CodeInv(g, cd, nw) /\ g.maxvar \in Nat
    BY GraphParts DEF ReencodeInv, Sound
  <2>2. cd[0] < nw /\ cd[0] = 0 /\ nw \in Nat
    BY <2>1 DEF CodeInv
  <2> QED
    BY <2>1, <2>2 DEF CodeInv
<1>11. ASSUME NEW u \in 0 .. g.maxvar, cd[u] # 0 \/ u = v PROVE ce[u] # 0
  BY <1>9, <1>10, <1>11
<1>12. ASSUME NEW k \in 1 .. r PROVE Var(Roots(g)[k]) \in 0 .. g.maxvar
  <2>1. Roots(g) \in Seq(Nat) /\ \A j \in 1 .. Len(Roots(g)) : IsDefined(g, Roots(g)[j])
    BY RootsDefined
  <2>2. PICK R \in Seq(Nat) : R = Roots(g)
    BY <2>1
  <2>3. k \in 1 .. Len(R)
    BY <2>2
  <2>4. R[k] \in Nat
    BY <2>3, ElementOfSequence
  <2> QED
    BY <2>1, <2>2, <2>3, <2>4, DefinedInRange
<1>13. ASSUME NEW k \in 1 .. r
       PROVE  \/ IsConstant(Roots(g)[k]) \/ ce[Var(Roots(g)[k])] # 0
              \/ e # <<>> /\ e[1] = Var(Roots(g)[k])
  <2>1. CASE IsConstant(Roots(g)[k])
    BY <2>1
  <2>2. CASE cd[Var(Roots(g)[k])] # 0
    BY <1>11, <1>12, <2>2
  <2>3. CASE s[1] = Var(Roots(g)[k])
    <3>1. CASE e = <<>>
      <4>1. Len(d) = 1 /\ 1 \in 1 .. Len(s) - 1
        <5>1. Len(e) = 0
          BY <3>1
        <5>2. PICK m \in Nat : m = Len(s) /\ m > 1
          BY <1>4, <1>5
        <5>3. Len(d) = m - 1 /\ Len(e) = Len(d) - 1
          BY <1>4, <1>8, <5>2
        <5>4. 0 = (m - 1) - 1
          BY ONLY <5>1, <5>3
        <5>5. m = 2
          BY ONLY <5>4, m \in Nat
        <5>6. Len(d) = 1 /\ Len(s) = 2
          BY ONLY <5>2, <5>3, <5>5
        <5> QED
          BY ONLY <5>6
      <4>2. v = d[1] /\ d[1] = s[1]
        BY <1>3, <1>4, <4>1 DEF Last
      <4> QED
        BY <1>11, <1>12, <2>3, <4>2
    <3>2. CASE e # <<>>
      <4>1. e[1] = d[1]
        BY <1>4, <1>6, <1>8, <3>2, BottomStays
      <4>2. d[1] = s[1]
        <5>1. 1 \in 1 .. Len(s) - 1
          BY <1>4, <1>5
        <5> QED
          BY <1>4, <5>1
      <4> QED
        BY <2>3, <3>2, <4>1, <4>2
    <3> QED
      BY <3>1, <3>2
  <2> QED
    BY <2>1, <2>2, <2>3 DEF RootsPassed
<1> QED
  BY <1>3, <1>7, <1>9, <1>13 DEF RootsPassed

\* The roots that were passed have a code, or are being traversed.
LEMMA ReencodeKeepsRoots ==
    ASSUME AigerInv, RootInv, ReencodeRoot \/ ExpandGate \/ CodeGate
    PROVE  RootInv'
<1>1. pc = "reencode" /\ pc' = "reencode" /\ UNCHANGED aig
  BY DEF ReencodeRoot, ExpandGate, CodeGate
<1>2. /\ aig = file /\ Sound(aig) /\ Ranks(aig) # {} /\ HasResets(aig)
      /\ ReencodeInv(aig, stack, onstack, code, new)
  BY <1>1 DEF AigerInv, CodesInv
<1>3. root \in 0 .. Len(Roots(aig)) /\ RootsPassed(aig, stack, code, root)
  BY <1>1 DEF RootInv
<1>4. PICK N \in Nat : N = Len(Roots(aig))
  BY <1>2, RootsDefined, LengthOf
<1>5. SUFFICES root' \in 0 .. N /\ RootsPassed(aig, stack', code', root')
  BY <1>1, <1>4 DEF RootInv
<1>6. CASE ReencodeRoot
  <2>1. PICK l : l = Roots(aig)[root + 1]
    OBVIOUS
  <2>2. /\ stack = <<>> /\ root < N /\ UNCHANGED code /\ root' = root + 1
        /\ stack' = IF IsConstant(l) \/ code[Var(l)] # 0 THEN <<>> ELSE <<Var(l)>>
    BY <1>4, <1>6, <2>1 DEF ReencodeRoot
  <2>3. root' \in 0 .. N /\ \A k \in 1 .. root' : k \in 1 .. root \/ k = root + 1
    BY <1>3, <1>4, <2>2
  <2>4. ASSUME NEW k \in 1 .. root'
        PROVE  \/ IsConstant(Roots(aig)[k]) \/ code[Var(Roots(aig)[k])] # 0
               \/ stack' # <<>> /\ stack'[1] = Var(Roots(aig)[k])
    <3>1. CASE k \in 1 .. root
      BY <1>3, <2>2, <3>1 DEF RootsPassed
    <3>2. CASE k = root + 1
      <4>1. CASE IsConstant(l) \/ code[Var(l)] # 0
        BY <2>1, <3>2, <4>1
      <4>2. CASE ~(IsConstant(l) \/ code[Var(l)] # 0)
        <5>1. stack' = <<Var(l)>>
          BY <2>2, <4>2
        <5>2. stack' # <<>> /\ stack'[1] = Var(l)
          BY <5>1
        <5> QED
          BY <2>1, <3>2, <5>2
      <4> QED
        BY <4>1, <4>2
    <3> QED
      BY <2>3, <3>1, <3>2
  <2> QED
    BY <2>2, <2>3, <2>4 DEF RootsPassed
<1>7. CASE ExpandGate
  <2>1. PICK v : v = Last(stack)
    OBVIOUS
  <2>2. stack # <<>> /\ v # 0 /\ UNCHANGED <<code, root>>
    BY <1>7, <2>1 DEF ExpandGate
  <2>3. v \notin onstack
    BY <1>2, <2>1, <2>2, ReencodeTop
  <2>4. CASE code[v] # 0
    <3>1. stack' = Front(stack)
      BY <1>7, <2>1, <2>4 DEF ExpandGate
    <3>2. RootsPassed(aig, stack', code, root)
      BY <1>2, <1>3, <2>1, <2>2, <2>4, <3>1, ExpandKeepsRoots
    <3> QED
      BY <1>3, <1>4, <2>2, <3>2
  <2>5. CASE code[v] = 0
    <3>1. PICK r0, r1 : r0 = Var(And(aig, v).rhs0) /\ r1 = Var(And(aig, v).rhs1)
      OBVIOUS
    <3>2. PICK c0, c1 : /\ c0 = IF r0 >= r1 THEN r0 ELSE r1
                        /\ c1 = IF r0 >= r1 THEN r1 ELSE r0
      OBVIOUS
    <3>3. stack' = stack \o <<0>> \o PushedChild(c0) \o PushedChild(c1)
      BY <1>7, <2>1, <2>3, <2>5, <3>1, <3>2 DEF ExpandGate
    <3>4. v \in 1 .. aig.maxvar /\ IsAnd(aig, v)
      BY <1>2, <2>1, <2>2, ReencodeTop
    <3>5. r0 \in 0 .. aig.maxvar /\ r1 \in 0 .. aig.maxvar
      BY <1>2, <3>1, <3>4, ChildrenOf
    <3>6. c0 \in 0 .. aig.maxvar /\ c1 \in 0 .. aig.maxvar
      BY <3>2, <3>5
    <3>7. PICK T : T = 0 .. aig.maxvar
      OBVIOUS
    <3>8. PushedChild(c0) \in Seq(T) /\ PushedChild(c1) \in Seq(T)
      <4>1. \A c \in T : <<>> \in Seq(T) /\ <<c>> \in Seq(T)
        OBVIOUS
      <4> QED
        BY <3>6, <3>7, <4>1 DEF PushedChild
    <3>9. RootsPassed(aig, stack', code, root)
      <4>1. \A p, q \in Seq(T) : RootsPassed(aig, stack \o << 0 >> \o p \o q, code, root)
        BY <1>2, <1>3, <2>2, <3>7, ExpandKeepsRoots
      <4> QED
        BY <3>3, <3>8, <4>1
    <3> QED
      BY <1>3, <1>4, <2>2, <3>9
  <2> QED
    BY <2>4, <2>5
<1>8. CASE CodeGate
  <2>1. PICK v : v = Last(Front(stack))
    OBVIOUS
  <2>2. /\ stack # <<>> /\ Last(stack) = 0 /\ stack' = Front(Front(stack))
        /\ code' = [code EXCEPT ![v] = new] /\ UNCHANGED root
    BY <1>8, <2>1 DEF CodeGate
  <2>3. RootsPassed(aig, Front(Front(stack)), [code EXCEPT ![v] = new], root)
    BY <1>2, <1>3, <2>1, <2>2, CodeKeepsRoots
  <2> QED
    BY <1>3, <1>4, <2>2, <2>3
<1> QED
  BY <1>6, <1>7, <1>8

\* Every step keeps what is known of the roots.
LEMMA NextRootInv == RootInv /\ AigerInv /\ [Next]_vars => RootInv'
<1> SUFFICES ASSUME RootInv, AigerInv, [Next]_vars PROVE RootInv'
  OBVIOUS
<1>1. CASE /\ UNCHANGED translation /\ pc' # "reencode"
           /\ (pc' # "exit" => pc \in {"help", "parse", "open", "cycles"})
  BY <1>1 DEF RootInv, translation, library, traversal
<1>2. CASE UNCHANGED vars \/ SearchForever \/ Exited
  <2>1. UNCHANGED <<pc, aig, stack, code, root>>
    BY <1>2 DEF SearchForever, Exited, vars, translation, library, traversal
  <2> QED
    BY <2>1 DEF RootInv
<1>3. CASE \/ PrintHelp \/ NoHelp \/ ParseArgument \/ UsageError \/ FinishParse \/ OpenFile \/ InputError
           \/ GetEngine \/ EngineError \/ BuildError
  <2>1. UNCHANGED translation /\ pc' # "reencode"
    BY <1>3 DEF PrintHelp, NoHelp, ParseArgument, UsageError, FinishParse, OpenFile, InputError, GetEngine,
                EngineError, BuildError, Exit
  <2>2. pc' # "exit" => pc \in {"help", "parse", "open", "cycles"}
    BY <1>3 DEF PrintHelp, NoHelp, ParseArgument, UsageError, FinishParse, OpenFile, InputError, GetEngine,
                EngineError, BuildError, Exit, Acyclic
  <2> QED
    BY <1>1, <2>1, <2>2
<1>4. CASE ReturnCounterexample \/ ReturnOk \/ ReturnUnknown \/ WriteWitness
  <2>1. pc' \in {"witness", "exit"}
    BY <1>4 DEF ReturnCounterexample, ReturnOk, ReturnUnknown, WriteWitness, Exit
  <2> QED
    BY <2>1 DEF RootInv
<1>5. CASE Read
  <2>1. pc \in {"read", "cycles"} /\ pc' \in {"read", "cycles"} /\ UNCHANGED root
    BY <1>5 DEF Read, ReadLine, CheckDefined, CycleRoot, EnterGate, LeaveGate, library, traversal
  <2> QED
    BY <2>1 DEF RootInv
<1>6. CASE Build
  <2>1. CASE MakeContext
    <3>1. pc' = "init" \/ (pc' = "reencode" /\ StartReencode /\ pc = "context")
      BY <2>1 DEF MakeContext
    <3>2. CASE pc' = "init"
      BY <3>2 DEF RootInv
    <3>3. CASE pc' = "reencode" /\ StartReencode /\ pc = "context"
      <4>1. root' = 0
        BY <3>3 DEF StartReencode, RootInv
      <4>2. aig' = aig /\ aig = file /\ Sound(aig) /\ HasResets(aig)
        BY <3>3 DEF StartReencode, AigerInv, ContextInv
      <4>3. Len(Roots(aig)) \in Nat
        BY <4>2, RootsDefined, LengthOf
      <4>4. root' \in 0 .. Len(Roots(aig')) /\ \A k \in 1 .. root' : FALSE
        BY <4>1, <4>2, <4>3
      <4> QED
        BY <3>3, <4>4 DEF RootInv, RootsPassed
    <3> QED
      BY <2>1, <3>1, <3>2, <3>3 DEF MakeContext
  <2>2. CASE ReencodeRoot \/ ExpandGate \/ CodeGate
    BY <2>2, ReencodeKeepsRoots
  <2>3. CASE ContextReencoded \/ BuildInit \/ ClausifyGate \/ FinishTrans \/ FinishError
    <3>1. pc' \in {"init", "trans", "error", "built"}
      BY <2>3 DEF ContextReencoded, BuildInit, ClausifyGate, FinishTrans, FinishError
    <3> QED
      BY <3>1 DEF RootInv
  <2> QED
    BY <1>6, <2>1, <2>2, <2>3 DEF Build
<1> QED
  BY <1>2, <1>3, <1>4, <1>5, <1>6 DEF Next

\* The graph aiger_reencode has made of g.
IsRecoded(g) == aig = Recoded(g) /\ CodeInv(g, code, new) /\ RootsCoded(g)

Building == pc \in {"init", "trans", "error", "built", "witness"}

\* The builder works on the graph in the file, or on what aiger_reencode made of it.
GraphInv ==
    Building =>
        /\ Sound(file) /\ Ranks(file) # {}
        /\ OrderedGates(aig.ands)
        /\ aig = file \/ IsRecoded(file)

RecodeLatches(ls) ==
    [i \in DOMAIN ls |-> [lit |-> Code(ls[i].lit), next |-> Code(ls[i].next), reset |-> Code(ls[i].reset)]]

\* The recoded graph depends on the file and the codes only.
LEMMA RecodedStays ==
    ASSUME UNCHANGED <<file, code, new>>
    PROVE  Recoded(file)' = Recoded(file)
<1>1. \A l : Code(l)' = Code(l)
  BY DEF Code
<1>2. RecodedGates(file)' = RecodedGates(file)
  BY <1>1 DEF RecodedGates, RecodedGate, LargerFirst
<1>3. RecodedAnds(file)' =
        CHOOSE s \in [1 .. Cardinality(RecodedGates(file)') -> RecodedGates(file)'] : SortedByLhs(s)
  BY DEF RecodedAnds, RecodedGates, RecodedGate, LargerFirst, SortedByLhs
<1>4. RecodedAnds(file) =
        CHOOSE s \in [1 .. Cardinality(RecodedGates(file)) -> RecodedGates(file)] : SortedByLhs(s)
  BY DEF RecodedAnds, RecodedGates, RecodedGate, LargerFirst, SortedByLhs
<1>5. RecodedAnds(file)' = RecodedAnds(file)
  BY ONLY <1>2, <1>3, <1>4
<1>6. \A ls : Recode(ls)' = Recode(ls)
  BY <1>1 DEF Recode
<1>7. \A ls : RecodeLatches(ls)' = RecodeLatches(ls)
  BY <1>1 DEF RecodeLatches
<1>8. PICK f : f = file /\ f = file'
  OBVIOUS
<1>9. Recoded(file)' = [ inputs |-> Recode(f.inputs)', latches |-> RecodeLatches(f.latches)',
                         ands |-> RecodedAnds(file)', outputs |-> Recode(f.outputs)', bad |-> Recode(f.bad)',
                         constraints |-> Recode(f.constraints)', numJustice |-> f.numJustice,
                         justice |-> Recode(f.justice)', fairness |-> Recode(f.fairness)',
                         maxvar |-> Var(new' - 1) ]
  BY <1>8, Zenon DEF Recoded, Recode, RecodeLatches
<1>10. Recoded(file) = [ inputs |-> Recode(f.inputs), latches |-> RecodeLatches(f.latches),
                         ands |-> RecodedAnds(file), outputs |-> Recode(f.outputs), bad |-> Recode(f.bad),
                         constraints |-> Recode(f.constraints), numJustice |-> f.numJustice,
                         justice |-> Recode(f.justice), fairness |-> Recode(f.fairness),
                         maxvar |-> Var(new - 1) ]
  BY <1>8, Zenon DEF Recoded, Recode, RecodeLatches
<1> QED
  BY <1>5, <1>6, <1>7, <1>9, <1>10

\* Every step keeps what is known of the graph.
LEMMA NextGraphInv == GraphInv /\ RootInv /\ AigerInv /\ [Next]_vars => GraphInv'
<1> SUFFICES ASSUME GraphInv, RootInv, AigerInv, [Next]_vars, Building' PROVE GraphInv'
  BY DEF GraphInv
<1>1. CASE Building /\ UNCHANGED library
  <2>1. UNCHANGED <<file, aig, code, new>>
    BY <1>1 DEF library, traversal
  <2>2. IsRecoded(file) => IsRecoded(file)'
    BY <2>1, RecodedStays DEF IsRecoded, RootsCoded, HasCode
  <2> QED
    BY <1>1, <2>1, <2>2 DEF GraphInv
<1>2. CASE UNCHANGED vars \/ SearchForever \/ Exited
  <2>1. UNCHANGED <<pc, library>>
    BY <1>2 DEF SearchForever, Exited, vars, translation
  <2> QED
    BY <1>1, <2>1 DEF Building
<1>3. CASE \/ PrintHelp \/ NoHelp \/ ParseArgument \/ UsageError \/ FinishParse \/ OpenFile \/ InputError
           \/ GetEngine \/ EngineError \/ BuildError \/ WriteWitness
  <2>1. pc' \in {"parse", "open", "read", "context", "exit"}
    BY <1>3 DEF PrintHelp, NoHelp, ParseArgument, UsageError, FinishParse, OpenFile, InputError, GetEngine,
                EngineError, BuildError, WriteWitness, Exit
  <2> QED
    BY <2>1 DEF Building
<1>4. CASE ReturnCounterexample \/ ReturnOk \/ ReturnUnknown
  BY <1>1, <1>4 DEF ReturnCounterexample, ReturnOk, ReturnUnknown, translation, Building
<1>5. CASE Read
  <2>1. pc' \in {"read", "cycles"}
    BY <1>5 DEF Read, ReadLine, CheckDefined, CycleRoot, EnterGate, LeaveGate
  <2> QED
    BY <2>1 DEF Building
<1>6. CASE Build
  <2>1. CASE MakeContext
    <3>1. pc = "context" /\ pc' # "reencode"
      BY <2>1 DEF MakeContext, Building
    <3>2. UNCHANGED <<file, aig>> /\ IsReencoded(aig)
      BY <2>1, <3>1 DEF MakeContext, library
    <3>3. aig = file /\ Sound(aig) /\ LeftInOrder(aig, {v \in 1 .. aig.maxvar : IsAnd(aig, v)})
      BY <3>1 DEF AigerInv, ContextInv
    <3>4. Ranks(aig) # {} /\ OrderedGates(aig.ands)
      <4>1. aig.maxvar \in Nat
        BY <3>3, GraphParts DEF Sound
      <4> QED
        BY <3>2, <3>3, <4>1, OrderIsRank, ReencodedIsOrdered
    <3> QED
      BY <3>2, <3>3, <3>4 DEF GraphInv
  <2>2. CASE ReencodeRoot \/ ExpandGate \/ CodeGate
    <3>1. pc' = "reencode"
      BY <2>2 DEF ReencodeRoot, ExpandGate, CodeGate
    <3> QED
      BY <3>1 DEF Building
  <2>3. CASE ContextReencoded
    <3>1. /\ pc = "reencode" /\ stack = <<>> /\ root = Len(Roots(aig)) /\ aig' = Recoded(aig)
          /\ UNCHANGED <<file, code, new>>
      BY <2>3 DEF ContextReencoded, FinishReencode, traversal
    <3>2. aig = file /\ Sound(file) /\ Ranks(file) # {} /\ CodeInv(file, code, new)
      BY <3>1 DEF AigerInv, CodesInv, ReencodeInv
    <3>3. RootsCoded(file)
      BY <3>1, <3>2 DEF RootInv, RootsPassed, RootsCoded, HasCode
    <3>4. OrderedGates(RecodedAnds(file))
      BY <3>2, RecodedAndsOrdered
    <3>5. aig'.ands = RecodedAnds(file)
      BY <3>1, <3>2, RecodedIs
    <3>6. IsRecoded(file)'
      <4>1. Recoded(file)' = Recoded(file)
        BY <3>1, RecodedStays
      <4>2. RootsCoded(file)'
        BY <3>1, <3>3 DEF RootsCoded, HasCode
      <4> QED
        BY <3>1, <3>2, <4>1, <4>2 DEF IsRecoded
    <3> QED
      BY <3>1, <3>2, <3>4, <3>5, <3>6 DEF GraphInv
  <2>4. CASE BuildInit \/ ClausifyGate \/ FinishTrans \/ FinishError
    BY <1>1, <2>4 DEF BuildInit, ClausifyGate, FinishTrans, FinishError, Building
  <2> QED
    BY <1>6, <2>1, <2>2, <2>3, <2>4 DEF Build
<1> QED
  BY <1>2, <1>3, <1>4, <1>5, <1>6 DEF Next

\* What the builder works on is a graph, with no more variables than the file has.
LEMMA BuiltGraph ==
    ASSUME AigerInv, GraphInv, Building
    PROVE  Sound(aig) /\ HasResets(aig) /\ aig.maxvar <= file.maxvar
<1>1. Sound(file) /\ HasResets(file) /\ (aig = file \/ IsRecoded(file))
  BY DEF AigerInv, GraphInv
<1>2. CASE aig = file
  <2>1. file.maxvar \in Nat
    BY <1>1, GraphParts DEF Sound
  <2> QED
    BY <1>1, <1>2, <2>1
<1>3. CASE IsRecoded(file)
  BY <1>1, <1>3, RecodedSound DEF IsRecoded
<1> QED
  BY <1>1, <1>2, <1>3

-----------------------------------------------------------------------------
\* clausify_subgraph stays within the gates.
GateRange ==
    /\ ~Building /\ pc # "exit" => gate = 0
    /\ pc = "init" => gate = 0
    /\ Len(aig.ands) \in Nat
    /\ gate \in 0 .. Len(aig.ands)

\* Every step keeps clausify_subgraph within the gates.
LEMMA NextGateRange == GateRange /\ GraphInv' /\ AigerInv' /\ [Next]_vars => GateRange'
<1> SUFFICES ASSUME GateRange, GraphInv', AigerInv', [Next]_vars PROVE GateRange'
  OBVIOUS
<1>1. CASE UNCHANGED <<gate, aig>> /\ ((Building' /\ pc' # "init") \/ pc' = "exit" \/ (~Building /\ pc # "exit"))
  BY <1>1 DEF GateRange
<1>2. CASE UNCHANGED vars \/ SearchForever \/ Exited
  <2>1. UNCHANGED <<pc, gate, aig>>
    BY <1>2 DEF SearchForever, Exited, vars, translation, library, clausification
  <2> QED
    BY <2>1 DEF GateRange, Building
<1>3. CASE \/ PrintHelp \/ NoHelp \/ ParseArgument \/ UsageError \/ FinishParse \/ OpenFile \/ InputError
           \/ GetEngine \/ EngineError \/ BuildError \/ WriteWitness
  <2>1. UNCHANGED <<gate, aig>>
    BY <1>3 DEF PrintHelp, NoHelp, ParseArgument, UsageError, FinishParse, OpenFile, InputError, GetEngine,
                EngineError, BuildError, WriteWitness, translation, library, clausification
  <2>2. pc' = "exit" \/ pc \in {"help", "parse", "open", "cycles"}
    BY <1>3 DEF PrintHelp, NoHelp, ParseArgument, UsageError, FinishParse, OpenFile, InputError, GetEngine,
                EngineError, BuildError, WriteWitness, Exit, Acyclic
  <2> QED
    BY <1>1, <2>1, <2>2 DEF Building
<1>4. CASE ReturnCounterexample \/ ReturnOk \/ ReturnUnknown
  <2>1. UNCHANGED <<gate, aig>> /\ pc' = "witness"
    BY <1>4 DEF ReturnCounterexample, ReturnOk, ReturnUnknown, translation, library, clausification
  <2> QED
    BY <1>1, <2>1 DEF Building
<1>5. CASE Read
  <2>1. pc \in {"read", "cycles"} /\ UNCHANGED <<gate, aig>>
    BY <1>5 DEF Read, ReadLine, CheckDefined, CycleRoot, EnterGate, LeaveGate, library, clausification
  <2> QED
    BY <1>1, <2>1 DEF Building
<1>6. CASE Build
  <2>1. CASE MakeContext \/ ReencodeRoot \/ ExpandGate \/ CodeGate
    <3>1. pc \in {"context", "reencode"} /\ UNCHANGED aig
      BY <2>1 DEF MakeContext, StartReencode, ReencodeRoot, ExpandGate, CodeGate, library
    <3>2. UNCHANGED gate
      BY <1>6, <2>1, <3>1 DEF Build, MakeContext, ContextReencoded, BuildInit, ClausifyGate, FinishTrans,
            FinishError, clausification
    <3> QED
      BY <1>1, <3>1, <3>2 DEF Building
  <2>2. CASE ContextReencoded
    <3>1. pc = "reencode" /\ pc' = "init" /\ UNCHANGED gate
      BY <2>2 DEF ContextReencoded, FinishReencode, clausification
    <3>2. OrderedGates(aig'.ands)
      BY <3>1 DEF AigerInv, OrderInv
    <3>3. Len(aig'.ands) \in Nat
      BY <3>2, LengthOf DEF OrderedGates
    <3>4. gate' = 0
      BY <3>1 DEF GateRange, Building
    <3> QED
      BY <3>1, <3>3, <3>4 DEF GateRange, Building
  <2>3. CASE BuildInit \/ ClausifyGate \/ FinishTrans \/ FinishError
    <3>1. pc' \in {"trans", "error", "built"} /\ UNCHANGED aig
      BY <2>3 DEF BuildInit, ClausifyGate, FinishTrans, FinishError, library
    <3>2. PICK N \in Nat : N = Len(aig.ands) /\ gate \in 0 .. N
      BY DEF GateRange
    <3>3. gate' \in {N, gate} \/ (gate > 0 /\ gate' = gate - 1)
      BY <2>3, <3>2 DEF BuildInit, ClausifyGate, FinishTrans, FinishError, clausification
    <3>4. gate' \in 0 .. N
      BY ONLY <3>2, <3>3
    <3> QED
      BY <3>1, <3>2, <3>4 DEF GateRange, Building
  <2> QED
    BY <1>6, <2>1, <2>2, <2>3 DEF Build
<1> QED
  BY <1>2, <1>3, <1>4, <1>5, <1>6 DEF Next

\* The traversals stay within the variables and the lines of the file.
TraversalRange ==
    /\ line \in 0 .. Len(Lines(file))
    /\ marked \subseteq 1 .. file.maxvar
    /\ onstack \subseteq ToSet(stack)
    /\ pc \notin {"cycles", "reencode", "exit"} => stack = <<>> /\ onstack = {}
    /\ new <= 2 * (file.maxvar + 1)

\* What was entered and not left is on the stack.
LEMMA EnteredIsOnStack ==
    ASSUME NEW g, NEW s, NEW on, NEW done, Traversed(g, s, on, done)
    PROVE  on \subseteq ToSet(s)
<1>1. s \in Seq(0 .. g.maxvar)
  BY DEF Traversed, Shape
<1>2. ASSUME NEW v \in on PROVE v \in ToSet(s)
  <2>1. PICK k : Opened(s, k, v)
    BY DEF Traversed, Shape
  <2>2. k \in DOMAIN s /\ s[k] = v
    BY <1>1, <2>1, LengthOf DEF Opened
  <2> QED
    BY <2>2 DEF ToSet
<1> QED
  BY <1>2

\* Every step keeps the traversals and the codes within the variables.
LEMMA NextTraversalRange ==
    TraversalRange /\ AigerInv /\ AigerInv' /\ [Next]_vars => TraversalRange'
<1> SUFFICES ASSUME TraversalRange, AigerInv, AigerInv', [Next]_vars PROVE TraversalRange'
  OBVIOUS
<1>1. CASE /\ UNCHANGED <<file, line, stack, marked, onstack, new>>
           /\ \/ pc' = pc \/ pc' = "exit" \/ pc \notin {"cycles", "reencode", "exit"}
              \/ stack = <<>> /\ onstack = {}
  <2>1. pc' \notin {"cycles", "reencode", "exit"} => stack = <<>> /\ onstack = {}
    BY <1>1 DEF TraversalRange
  <2> QED
    BY <1>1, <2>1 DEF TraversalRange
<1>2. CASE UNCHANGED vars \/ SearchForever \/ Exited
  <2>1. UNCHANGED <<pc, file, line, stack, marked, onstack, new>>
    BY <1>2 DEF SearchForever, Exited, vars, translation, library, traversal
  <2> QED
    BY <1>1, <2>1
<1>3. CASE \/ PrintHelp \/ NoHelp \/ ParseArgument \/ UsageError \/ FinishParse \/ OpenFile \/ InputError
           \/ EngineError \/ BuildError \/ WriteWitness \/ ReturnCounterexample \/ ReturnOk \/ ReturnUnknown
  <2>1. UNCHANGED <<file, line, stack, marked, onstack, new>>
    BY <1>3 DEF PrintHelp, NoHelp, ParseArgument, UsageError, FinishParse, OpenFile, InputError,
                EngineError, BuildError, WriteWitness, ReturnCounterexample, ReturnOk, ReturnUnknown,
                translation, library, traversal
  <2>2. pc' = "exit" \/ pc \in {"help", "parse", "open", "built"}
    BY <1>3 DEF PrintHelp, NoHelp, ParseArgument, UsageError, FinishParse, OpenFile, InputError,
                EngineError, BuildError, WriteWitness, ReturnCounterexample, ReturnOk, ReturnUnknown, Exit
  <2>3. pc' = "exit" \/ pc \notin {"cycles", "reencode", "exit"}
    BY <2>2
  <2> QED
    BY <1>1, <2>1, <2>3
<1>4. CASE GetEngine
  <2>1. UNCHANGED <<file, line, stack, marked, onstack, new>> /\ pc' = "context"
    BY <1>4 DEF GetEngine, translation, library, traversal
  <2>2. stack' = <<>> /\ onstack' = {}
    BY <2>1 DEF AigerInv, ContextInv
  <2> QED
    BY <1>1, <2>1, <2>2
<1>5. CASE Read
  <2>1. CASE ReadLine
    <3>1. pc = "read" /\ pc' = "read" /\ UNCHANGED <<file, stack, marked, onstack, new>>
      BY <2>1 DEF ReadLine, traversal
    <3>2. line' \in 0 .. Len(Lines(file'))
      BY <3>1 DEF AigerInv, ReadInv
    <3> QED
      BY <3>1, <3>2 DEF TraversalRange
  <2>2. CASE CheckDefined
    <3>1. pc = "read" /\ UNCHANGED <<file, line, stack, marked, onstack, new>>
      BY <2>2 DEF CheckDefined, library, traversal
    <3>2. pc \notin {"cycles", "reencode", "exit"}
      BY <3>1
    <3> QED
      BY <1>1, <3>1, <3>2
  <2>3. CASE CycleRoot \/ EnterGate \/ LeaveGate
    <3>1. pc' = "cycles" /\ UNCHANGED <<file, line, new>>
      BY <2>3 DEF CycleRoot, EnterGate, LeaveGate
    <3>2. CycleInv(aig', stack', marked', onstack') /\ aig' = file'
      BY <3>1 DEF AigerInv, CyclesInv
    <3>3. marked' \subseteq 1 .. file'.maxvar
      BY <3>2 DEF CycleInv
    <3>4. onstack' \subseteq ToSet(stack')
      BY <3>2, EnteredIsOnStack DEF CycleInv
    <3> QED
      BY <3>1, <3>3, <3>4 DEF TraversalRange
  <2> QED
    BY <1>5, <2>1, <2>2, <2>3 DEF Read
<1>6. CASE Build
  <2>1. CASE (MakeContext /\ pc' = "init") \/ BuildInit \/ ClausifyGate \/ FinishTrans \/ FinishError
    <3>1. UNCHANGED <<file, line, stack, marked, onstack, new>> /\ pc \in {"context", "init", "trans", "error"}
      BY <2>1 DEF MakeContext, BuildInit, ClausifyGate, FinishTrans, FinishError, library, traversal
    <3>2. pc \notin {"cycles", "reencode", "exit"}
      BY <3>1
    <3> QED
      BY <1>1, <3>1, <3>2
  <2>2. CASE (MakeContext /\ pc' # "init") \/ ReencodeRoot \/ ExpandGate \/ CodeGate
    <3>1. pc' = "reencode" /\ UNCHANGED <<file, line, marked>>
      BY <2>2 DEF MakeContext, StartReencode, ReencodeRoot, ExpandGate, CodeGate
    <3>2. ReencodeInv(aig', stack', onstack', code', new') /\ aig' = file' /\ Sound(aig')
      BY <3>1 DEF AigerInv, CodesInv
    <3>3. new' <= 2 * (file'.maxvar + 1)
      BY <3>2, CodesFit DEF ReencodeInv
    <3>4. onstack' \subseteq ToSet(stack')
      BY <3>2, EnteredIsOnStack DEF ReencodeInv
    <3> QED
      BY <3>1, <3>3, <3>4 DEF TraversalRange
  <2>3. CASE ContextReencoded
    <3>1. pc = "reencode" /\ stack = <<>> /\ UNCHANGED <<file, line, stack, marked, onstack, new>>
      BY <2>3 DEF ContextReencoded, FinishReencode, traversal
    <3>2. ReencodeInv(aig, <<>>, onstack, code, new)
      BY <3>1 DEF AigerInv, CodesInv
    <3>3. onstack = {}
      BY <3>2, NothingEntered DEF ReencodeInv
    <3> QED
      BY <1>1, <3>1, <3>3
  <2> QED
    BY <1>6, <2>1, <2>2, <2>3 DEF Build
<1> QED
  BY <1>2, <1>3, <1>4, <1>5, <1>6 DEF Next

\* What the program has come to.
OutcomeInv ==
    /\ pc \in {"help", "parse", "open", "read", "cycles", "context", "reencode", "exit"} \/ Building
    /\ engine.kind \in {"none", "bmc", "pdr", "forward_car", "backward_car"}
    /\ result \in {"none", "ok", "counterexample", "unknown"}
    /\ exit.code \in {0, 1}

\* Every step keeps the engine, the result and the exit code in their ranges.
LEMMA NextOutcomeInv == OutcomeInv /\ [Next]_vars => OutcomeInv'
<1> SUFFICES ASSUME OutcomeInv, [Next]_vars PROVE OutcomeInv'
  OBVIOUS
<1>1. CASE UNCHANGED vars \/ SearchForever \/ Exited
  <2>1. UNCHANGED <<pc, engine, result, exit>>
    BY <1>1 DEF SearchForever, Exited, vars, outcome
  <2> QED
    BY <2>1 DEF OutcomeInv, Building
<1>2. CASE PrintHelp \/ UsageError \/ InputError \/ EngineError \/ BuildError \/ WriteWitness
  <2>1. \E message, status : Exit(message, status) /\ status \in {0, 1}
    BY <1>2 DEF PrintHelp, UsageError, InputError, EngineError, BuildError, WriteWitness
  <2>2. UNCHANGED <<engine, result>>
    BY <1>2 DEF PrintHelp, UsageError, InputError, EngineError, BuildError, WriteWitness
  <2>3. pc' = "exit" /\ exit'.code \in {0, 1}
    BY <2>1 DEF Exit
  <2> QED
    BY <2>2, <2>3 DEF OutcomeInv
<1>3. CASE NoHelp \/ ParseArgument \/ FinishParse \/ OpenFile
  <2>1. pc' \in {"parse", "open", "read"} /\ UNCHANGED <<engine, result, exit>>
    BY <1>3 DEF NoHelp, ParseArgument, FinishParse, OpenFile, outcome
  <2> QED
    BY <2>1 DEF OutcomeInv
<1>4. CASE Read
  <2>1. pc' \in {"read", "cycles"} /\ UNCHANGED <<engine, result, exit>>
    BY <1>4 DEF Read, ReadLine, CheckDefined, CycleRoot, EnterGate, LeaveGate, outcome
  <2> QED
    BY <2>1 DEF OutcomeInv
<1>5. CASE Build
  <2>1. pc' \in {"reencode", "init", "trans", "error", "built"}
    BY <1>5 DEF Build, MakeContext, ReencodeRoot, ExpandGate, CodeGate, ContextReencoded, BuildInit,
                ClausifyGate, FinishTrans, FinishError
  <2>2. UNCHANGED <<engine, result, exit>>
    BY <1>5 DEF Build, outcome
  <2> QED
    BY <2>1, <2>2 DEF OutcomeInv, Building
<1>6. CASE GetEngine
  <2>1. pc' = "context" /\ UNCHANGED <<result, exit>>
    BY <1>6 DEF GetEngine
  <2>2. engine'.kind = EngineKind(options.engine)
    BY <1>6 DEF GetEngine
  <2>3. EngineKind(options.engine) \in {"none", "bmc", "pdr", "forward_car", "backward_car"}
    BY DEF EngineKind
  <2> QED
    BY <2>1, <2>2, <2>3 DEF OutcomeInv
<1>7. CASE ReturnCounterexample \/ ReturnOk \/ ReturnUnknown
  <2>1. pc' = "witness" /\ result' \in {"ok", "counterexample", "unknown"} /\ UNCHANGED <<engine, exit>>
    BY <1>7 DEF ReturnCounterexample, ReturnOk, ReturnUnknown
  <2> QED
    BY <2>1 DEF OutcomeInv, Building
<1> QED
  BY <1>1, <1>2, <1>3, <1>4, <1>5, <1>6, <1>7 DEF Next

ProgramInv == RootInv /\ GraphInv /\ GateRange /\ TraversalRange /\ OutcomeInv

\* What the program keeps true of its graph is true at first.
LEMMA InitProgramInv == Init => ProgramInv
<1> SUFFICES ASSUME Init PROVE ProgramInv
  OBVIOUS
<1>1. AigerInv
  BY InitAigerInv
<1>2. /\ pc = "help" /\ aig = file /\ stack = <<>> /\ marked = {} /\ onstack = {} /\ new = 2
      /\ line = 0 /\ root = 0 /\ gate = 0 /\ file \in Graphs
  BY <1>1 DEF Init, LibraryInit, BuilderInit, AigerInv
<1>3. RootInv /\ GraphInv
  BY <1>2 DEF RootInv, GraphInv, Building
<1>4. Len(aig.ands) \in Nat /\ file.maxvar \in Nat
  BY <1>2, GraphParts
<1>5. GateRange
  BY <1>2, <1>4 DEF GateRange
<1>6. TraversalRange
  <2>1. line \in 0 .. Len(Lines(file))
    BY <1>1, <1>2 DEF AigerInv, ReadInv
  <2>2. new <= 2 * (file.maxvar + 1)
    BY <1>2, <1>4
  <2> QED
    BY <1>2, <2>1, <2>2 DEF TraversalRange
<1>7. OutcomeInv
  BY <1>2 DEF Init, NoExit, OutcomeInv
<1> QED
  BY <1>3, <1>5, <1>6, <1>7 DEF ProgramInv

\* What the program keeps true of its graph: the roots it has passed on have a
\* code, and what the builder works on is the graph in the file or what
\* aiger_reencode made of it.
THEOREM ProgramInvariant == Spec => []ProgramInv
<1>1. Init => ProgramInv
  BY InitProgramInv
<1>2. ProgramInv /\ AigerInv /\ AigerInv' /\ [Next]_vars => ProgramInv'
  BY NextRootInv, NextGraphInv, NextGateRange, NextTraversalRange, NextOutcomeInv DEF ProgramInv
<1> QED
  BY <1>1, <1>2, AigerInvariant, PTL DEF Spec, SafetySpec

\* Type correctness of the whole program, for all arguments and files: the
\* traversals and the codes stay within the variables of the file, there are
\* never more codes than variables, and whatever a latch, a gate or a property
\* uses is still defined after aiger_reencode has renumbered the graph and dropped
\* the gates it did not reach.
THEOREM GeyserTypeCorrect == Spec => []TypeOK
<1>1. ProgramInv /\ CommandInv /\ AigerInv => TypeOK
  <2> SUFFICES ASSUME ProgramInv, CommandInv, AigerInv PROVE TypeOK
    OBVIOUS
  <2>1. TraversalRange /\ GateRange /\ OutcomeInv /\ GraphInv
    BY DEF ProgramInv
  <2>2. arg \in 0 .. Len(args)
    BY DEF CommandInv
  <2>3. Len(inputFile) <= 1
    <3>1. CASE inputFile = <<>>
      BY <3>1
    <3>2. CASE inputFile # <<>>
      <4>1. PICK p \in 1 .. arg : inputFile = args[p].value
        BY <3>2 DEF CommandInv, PathInv
      <4>2. PICK K : K = [key : STRING, value : Seq(STRING)]
        OBVIOUS
      <4>3. args \in Seq(K) /\ \A i \in DOMAIN args : Len(args[i].value) <= 1
        BY <4>2 DEF CommandInv, IsCommandLine
      <4>4. DOMAIN args = 1 .. Len(args) /\ Len(args) \in Nat
        BY ONLY <4>3, LengthOf
      <4>5. p \in DOMAIN args
        BY <2>2, <4>4
      <4> QED
        BY <4>1, <4>3, <4>5
    <3> QED
      BY <3>1, <3>2
  <2>4. ASSUME pc \in {"context", "reencode", "init", "trans", "error", "built", "witness"}
        PROVE  AllDefined(aig) /\ aig.maxvar <= file.maxvar
    <3>1. CASE pc \in {"context", "reencode"}
      <4>1. aig = file /\ Sound(aig)
        BY <3>1 DEF AigerInv, ContextInv, CodesInv
      <4>2. aig.maxvar \in Nat
        BY <4>1, GraphParts DEF Sound
      <4> QED
        BY <4>1, <4>2 DEF Sound
    <3>2. CASE Building
      BY <2>1, <3>2, BuiltGraph DEF Sound
    <3> QED
      BY <2>4, <3>1, <3>2 DEF Building
  <2>5. pc \in {"help", "parse", "open", "read", "cycles", "context", "reencode", "init", "trans",
                "error", "built", "witness", "exit"}
    BY <2>1 DEF OutcomeInv, Building
  <2> QED
    BY <2>1, <2>2, <2>3, <2>4, <2>5 DEF TypeOK, TraversalRange, GateRange, OutcomeInv
<1> QED
  BY <1>1, ProgramInvariant, CommandInvariant, AigerInvariant, PTL
=============================================================================
