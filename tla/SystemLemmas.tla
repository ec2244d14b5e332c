---------------------------- MODULE SystemLemmas ----------------------------
(***************************************************************************)
(* Facts about natural numbers, cubes, systems and sequences that the      *)
(* proofs about the engines share.                                         *)
(***************************************************************************)
EXTENDS TransitionSystem, WellFoundedInduction, TLAPS

-----------------------------------------------------------------------------
(* Induction, for sets of natural numbers.                                 *)

\* Every set of natural numbers with an element has a least one.
LEMMA LeastNatural ==
    ASSUME NEW T \in SUBSET Nat, T # {}
    PROVE  \E n \in T : \A m \in T : n <= m
<1> DEFINE less == {ss \in Nat \X Nat : ss[1] < ss[2]}
<1>1. IsWellFoundedOn(less, Nat)
  BY NatLessThanWellFounded, Zenon DEF OpToRel
<1>2. PICK n \in T : \A m \in T : ~(<<m, n>> \in less)
  <2> HIDE DEF less
  <2> QED
    BY <1>1, WFMin
<1>3. ASSUME NEW m \in T PROVE n <= m
  <2>1. m \in Nat /\ n \in Nat
    OBVIOUS
  <2>2. <<m, n>> \notin less
    BY <1>2
  <2> QED
    BY <2>1, <2>2
<1> QED
  BY <1>3

\* A set that has 0, and n + 1 with every n, has all natural numbers.
LEMMA SetInduction ==
    ASSUME NEW T, 0 \in T, \A n \in Nat : n \in T => n + 1 \in T
    PROVE  Nat \subseteq T
<1> SUFFICES ASSUME Nat \ T # {} PROVE FALSE
  OBVIOUS
<1>1. PICK n \in Nat \ T : \A m \in Nat \ T : n <= m
  BY LeastNatural
<1>2. n # 0 /\ n - 1 \in Nat
  BY <1>1
<1>3. n - 1 \in T
  BY <1>1, <1>2
<1> QED
  BY <1>1, <1>2, <1>3

-----------------------------------------------------------------------------
(* Cubes.                                                                  *)

\* A cube entails every cube that subsumes it (the comment of cube::subsumes).
LEMMA SubsumesHolds ==
    ASSUME NEW c, NEW d, NEW s, Subsumes(c, d), Holds(d, s)
    PROVE  Holds(c, s)
BY DEF Subsumes, Holds

\* A cube that does not syntactically intersect the initial cube has no initial
\* state in it: what intersects_initial_states decides is sound.
LEMMA AvoidsInit ==
    ASSUME NEW sys \in SystemType, NEW c \in Cubes, NEW s \in States,
           ~IntersectsInit(sys, c), Holds(sys.init, s)
    PROVE  ~Holds(c, s)
<1>1. PICK l \in c : Neg(l) \in sys.init
  BY DEF IntersectsInit
<1>2. l \in Latches \X BOOLEAN
  BY DEF Cubes, Literals
<1>3. s[l[1]] = ~l[2]
  BY <1>1 DEF Holds, Neg
<1>4. s[l[1]] # l[2]
  BY <1>2, <1>3
<1> QED
  BY <1>1, <1>4 DEF Holds

\* And it is complete: a cube with a state in it that does intersect the
\* initial cube syntactically has an initial state in it.
LEMMA MeetsInit ==
    ASSUME NEW sys \in SystemType, NEW c \in Cubes, NEW s \in States,
           Holds(c, s), IntersectsInit(sys, c)
    PROVE  \E t \in States : Holds(sys.init, t) /\ Holds(c, t)
<1> DEFINE t == [x \in Latches |-> IF <<x, TRUE>> \in sys.init THEN TRUE
                                   ELSE IF <<x, FALSE>> \in sys.init THEN FALSE ELSE s[x]]
<1>1. t \in States
  BY DEF States
<1>2. /\ sys.init \in SUBSET (Latches \X BOOLEAN)
      /\ \A l \in sys.init : <<l[1], ~l[2]>> \notin sys.init
  BY DEF SystemType, Cubes, Literals, Consistent, Neg
<1>3. ASSUME NEW l \in sys.init PROVE t[l[1]] = l[2]
  <2>1. PICK x \in Latches, v \in BOOLEAN : l = <<x, v>>
    BY <1>2
  <2>2. <<x, ~v>> \notin sys.init
    BY <1>2, <2>1
  <2>3. CASE v = TRUE
    BY <2>1, <2>3
  <2>4. CASE v = FALSE
    BY <2>1, <2>2, <2>4
  <2> QED
    BY <2>3, <2>4
<1>4. ASSUME NEW l \in c PROVE t[l[1]] = l[2]
  <2>1. PICK x \in Latches, v \in BOOLEAN : l = <<x, v>>
    BY DEF Cubes, Literals
  <2>2. s[x] = v
    BY <2>1 DEF Holds
  <2>3. <<x, ~v>> \notin sys.init
    BY <2>1 DEF IntersectsInit, Neg
  <2>4. CASE v = TRUE
    BY <2>1, <2>2, <2>3, <2>4
  <2>5. CASE v = FALSE
    BY <2>1, <2>2, <2>3, <2>5
  <2> QED
    BY <2>4, <2>5
<1> HIDE DEF t
<1> QED
  BY <1>1, <1>3, <1>4 DEF Holds

\* The cube of a model holds in that state only.
LEMMA CubeOfState ==
    ASSUME NEW s \in States
    PROVE  /\ CubeOf(s) \in Cubes
           /\ \A t \in States : Holds(CubeOf(s), t) <=> t = s
<1>1. CubeOf(s) \in Cubes
  BY DEF CubeOf, Cubes, Literals, States
<1>2. ASSUME NEW t \in States, Holds(CubeOf(s), t) PROVE t = s
  <2>1. ASSUME NEW x \in Latches PROVE t[x] = s[x]
    <3>1. <<x, s[x]>> \in CubeOf(s)
      BY DEF CubeOf
    <3> QED
      BY <1>2, <3>1 DEF Holds
  <2> QED
    BY <2>1 DEF States
<1>3. Holds(CubeOf(s), s)
  BY DEF Holds, CubeOf
<1> QED
  BY <1>1, <1>2, <1>3

-----------------------------------------------------------------------------
(* Systems and sequences.                                                  *)

\* A system's transition function is total on states.
LEMMA NextIsState ==
    ASSUME NEW sys \in Systems, NEW s \in States, NEW in \in Inputs
    PROVE  NextState(sys, s, in) \in States
<1>1. sys.next \in [States \X Inputs -> States]
  BY SystemsAssumption DEF SystemType
<1> QED
  BY <1>1 DEF NextState

\* A function on 1 .. n is a sequence of length n.
LEMMA FunctionIsSequence ==
    ASSUME NEW T, NEW n \in Nat, NEW f \in [1 .. n -> T]
    PROVE  f \in Seq(T) /\ Len(f) = n
OBVIOUS

\* The elements of a sequence are of its type.
LEMMA ElementInRange ==
    ASSUME NEW T, NEW q \in Seq(T), NEW h \in 1 .. Len(q)
    PROVE  q[h] \in T
OBVIOUS

-----------------------------------------------------------------------------
(* Executions. What a recursive function computes is used through its      *)
(* recursive equation, once that is known to have a solution.              *)

IsRun(f, sys, s, ins, n) ==
    f = [k \in 1 .. n |-> IF k = 1 THEN s ELSE NextState(sys, f[k - 1], ins[k - 1])]

\* The recursive equation of StateAt has a solution, by induction on the number
\* of inputs.
LEMMA RunExists ==
    ASSUME NEW sys, NEW s, NEW ins, NEW n \in Nat
    PROVE  \E f : IsRun(f, sys, s, ins, n)
<1> DEFINE e(f, k) == IF k = 1 THEN s ELSE NextState(sys, f[k - 1], ins[k - 1])
           T == {m \in Nat : \E f : f = [k \in 1 .. m |-> e(f, k)]}
<1>1. 0 \in T
  <2> DEFINE f == [k \in 1 .. 0 |-> s]
  <2>1. f = [k \in 1 .. 0 |-> e(f, k)]
    OBVIOUS
  <2> QED
    BY <2>1
<1>2. ASSUME NEW m \in Nat, m \in T PROVE m + 1 \in T
  <2>1. PICK f : f = [k \in 1 .. m |-> e(f, k)]
    BY <1>2
  <2> DEFINE g == [k \in 1 .. m + 1 |-> e(f, k)]
  <2>2. ASSUME NEW k \in 1 .. m + 1 PROVE e(g, k) = e(f, k)
    <3>1. CASE k = 1
      BY <3>1
    <3>2. CASE k # 1
      <4>1. k - 1 \in 1 .. m /\ k - 1 \in 1 .. m + 1
        BY <3>2
      <4>2. f[k - 1] = g[k - 1]
        BY <2>1, <4>1
      <4> QED
        BY <4>2
    <3> QED
      BY <3>1, <3>2
  <2>3. g = [k \in 1 .. m + 1 |-> e(g, k)]
    BY <2>2
  <2>4. \E h : h = [k \in 1 .. m + 1 |-> e(h, k)]
    <3> HIDE DEF g, e
    <3> QED
      BY <2>3, Zenon
  <2> QED
    BY <2>4
<1> HIDE DEF T
<1>3. n \in T
  BY <1>1, <1>2, SetInduction
<1> QED
  BY <1>3, Zenon DEF T, IsRun

\* StateAt reads a solution of it.
LEMMA RunFunction ==
    ASSUME NEW sys, NEW s, NEW ins, Len(ins) \in Nat
    PROVE  \E f : IsRun(f, sys, s, ins, Len(ins)) /\ \A m : StateAt(sys, s, ins, m) = f[m]
<1> DEFINE run[k \in 1 .. Len(ins)] == IF k = 1 THEN s ELSE NextState(sys, run[k - 1], ins[k - 1])
<1>1. \E f : IsRun(f, sys, s, ins, Len(ins))
  BY RunExists
<1>2. IsRun(run, sys, s, ins, Len(ins))
  BY <1>1, Zenon DEF IsRun
<1>3. \A m : StateAt(sys, s, ins, m) = run[m]
  BY DEF StateAt
<1> HIDE DEF run
<1> QED
  BY <1>2, <1>3

\* No input was applied to the first state, and one more to each of the others.
LEMMA RunSteps ==
    ASSUME NEW sys, NEW s, NEW ins, Len(ins) \in Nat
    PROVE  /\ Len(ins) >= 1 => StateAt(sys, s, ins, 1) = s
           /\ \A m, n \in 1 .. Len(ins) : n = m + 1 =>
                StateAt(sys, s, ins, n) = NextState(sys, StateAt(sys, s, ins, m), ins[m])
<1>1. PICK f : IsRun(f, sys, s, ins, Len(ins)) /\ \A m : StateAt(sys, s, ins, m) = f[m]
  BY RunFunction
<1>2. ASSUME Len(ins) >= 1 PROVE f[1] = s
  <2>1. 1 \in 1 .. Len(ins)
    BY <1>2
  <2> QED
    BY <1>1, <2>1 DEF IsRun
<1>3. ASSUME NEW m \in 1 .. Len(ins), NEW n \in 1 .. Len(ins), n = m + 1
      PROVE  f[n] = NextState(sys, f[m], ins[m])
  <2>1. n # 1 /\ n - 1 = m
    BY <1>3
  <2> QED
    BY <1>1, <2>1 DEF IsRun
<1> QED
  BY <1>1, <1>2, <1>3

\* An execution starts in its first state.
LEMMA RunStarts ==
    ASSUME NEW sys, NEW s, NEW ins, Len(ins) \in Nat, Len(ins) >= 1
    PROVE  StateAt(sys, s, ins, 1) = s
BY RunSteps

\* Each state of an execution is the successor of the one before it.
LEMMA RunContinues ==
    ASSUME NEW sys, NEW s, NEW ins, Len(ins) \in Nat,
           NEW m \in 1 .. Len(ins), NEW n \in 1 .. Len(ins), n = m + 1
    PROVE  StateAt(sys, s, ins, n) = NextState(sys, StateAt(sys, s, ins, m), ins[m])
BY RunSteps

\* The states of an execution are in sets that the steps do not leave.
LEMMA RunInvariant ==
    ASSUME NEW sys, NEW s, NEW ins, Len(ins) \in Nat, Len(ins) >= 1, NEW F, s \in F[1],
           \A k, m \in 1 .. Len(ins) : m = k + 1 => \A t \in F[k] : NextState(sys, t, ins[k]) \in F[m]
    PROVE  StateAt(sys, s, ins, Len(ins)) \in F[Len(ins)]
<1> DEFINE n == Len(ins)
           T == {k \in Nat : k + 1 <= n => StateAt(sys, s, ins, k + 1) \in F[k + 1]}
<1>1. 0 \in T
  BY RunStarts
<1>2. ASSUME NEW k \in Nat, k \in T PROVE k + 1 \in T
  <2> SUFFICES ASSUME k + 2 <= n PROVE StateAt(sys, s, ins, k + 2) \in F[k + 2]
    OBVIOUS
  <2>1. k + 1 \in 1 .. Len(ins) /\ k + 2 \in 1 .. Len(ins) /\ k + 2 = (k + 1) + 1 /\ k + 1 <= n
    OBVIOUS
  <2>2. StateAt(sys, s, ins, k + 2) = NextState(sys, StateAt(sys, s, ins, k + 1), ins[k + 1])
    BY <2>1, RunContinues
  <2>3. StateAt(sys, s, ins, k + 1) \in F[k + 1]
    BY <1>2, <2>1
  <2> QED
    BY <2>1, <2>2, <2>3
<1> HIDE DEF T
<1>3. Nat \subseteq T
  BY <1>1, <1>2, SetInduction
<1>4. n - 1 \in Nat /\ (n - 1) + 1 = n
  OBVIOUS
<1>5. n - 1 \in T
  BY <1>3, <1>4
<1> QED
  BY <1>4, <1>5 DEF T

\* The state after n - 1 inputs depends on these inputs only.
LEMMA RunsAgree ==
    ASSUME NEW sys, NEW s, NEW ins, NEW jns, Len(ins) \in Nat, Len(jns) \in Nat,
           NEW n \in 1 .. Len(ins), n <= Len(jns), \A k \in 1 .. n - 1 : ins[k] = jns[k]
    PROVE  StateAt(sys, s, ins, n) = StateAt(sys, s, jns, n)
<1> DEFINE T == {m \in Nat : m + 1 <= n => StateAt(sys, s, ins, m + 1) = StateAt(sys, s, jns, m + 1)}
<1>1. 0 \in T
  BY RunStarts
<1>2. ASSUME NEW m \in Nat, m \in T PROVE m + 1 \in T
  <2> SUFFICES ASSUME m + 2 <= n
               PROVE  StateAt(sys, s, ins, m + 2) = StateAt(sys, s, jns, m + 2)
    OBVIOUS
  <2>1. /\ m + 2 \in 1 .. Len(ins) /\ m + 2 \in 1 .. Len(jns) /\ m + 2 # 1
        /\ (m + 2) - 1 = m + 1 /\ m + 1 \in 1 .. n - 1 /\ m + 1 <= n
    OBVIOUS
  <2>2. /\ m + 1 \in 1 .. Len(ins) /\ m + 1 \in 1 .. Len(jns)
        /\ m + 2 = (m + 1) + 1
    OBVIOUS
  <2>3. /\ StateAt(sys, s, ins, m + 2) = NextState(sys, StateAt(sys, s, ins, m + 1), ins[m + 1])
        /\ StateAt(sys, s, jns, m + 2) = NextState(sys, StateAt(sys, s, jns, m + 1), jns[m + 1])
    BY <2>1, <2>2, RunContinues
  <2>4. StateAt(sys, s, ins, m + 1) = StateAt(sys, s, jns, m + 1) /\ ins[m + 1] = jns[m + 1]
    BY <1>2, <2>1
  <2> QED
    BY <2>3, <2>4
<1> HIDE DEF T
<1>3. Nat \subseteq T
  BY <1>1, <1>2, SetInduction
<1>4. n - 1 \in Nat /\ (n - 1) + 1 = n
  OBVIOUS
<1>5. n - 1 \in T
  BY <1>3, <1>4
<1> QED
  BY <1>4, <1>5 DEF T

\* The first input can be applied first.
LEMMA RunShifts ==
    ASSUME NEW sys, NEW s, NEW S, NEW in \in S, NEW ins \in Seq(S), NEW n \in 1 .. Len(ins)
    PROVE  StateAt(sys, s, <<in>> \o ins, n + 1) = StateAt(sys, NextState(sys, s, in), ins, n)
<1> DEFINE jns == <<in>> \o ins
           t == NextState(sys, s, in)
           T == {m \in Nat : m + 1 <= n => StateAt(sys, s, jns, m + 2) = StateAt(sys, t, ins, m + 1)}
<1>1. /\ Len(ins) \in Nat /\ Len(jns) = Len(ins) + 1 /\ jns[1] = in
      /\ \A k \in 1 .. Len(ins) : jns[k + 1] = ins[k]
  OBVIOUS
<1> HIDE DEF jns
<1>2. 0 \in T
  <2>1. 1 \in 1 .. Len(jns) /\ 2 \in 1 .. Len(jns) /\ 1 \in 1 .. Len(ins)
    BY <1>1
  <2>2. StateAt(sys, s, jns, 1) = s
    BY <1>1, <2>1, RunStarts
  <2>3. StateAt(sys, s, jns, 2) = NextState(sys, StateAt(sys, s, jns, 1), jns[1])
    BY <1>1, <2>1, RunContinues
  <2>4. StateAt(sys, t, ins, 1) = t
    <3> HIDE DEF t
    <3> QED
      BY <1>1, <2>1, RunStarts
  <2> QED
    BY <1>1, <2>2, <2>3, <2>4
<1>3. ASSUME NEW m \in Nat, m \in T PROVE m + 1 \in T
  <2> SUFFICES ASSUME m + 2 <= n
               PROVE  StateAt(sys, s, jns, m + 3) = StateAt(sys, t, ins, m + 2)
    OBVIOUS
  <2>1. /\ m + 3 \in 1 .. Len(jns) /\ m + 2 \in 1 .. Len(ins) /\ m + 2 # 1 /\ m + 3 # 1
        /\ (m + 2) - 1 = m + 1 /\ (m + 3) - 1 = m + 2 /\ m + 1 <= n /\ m + 1 \in 1 .. Len(ins)
        /\ (m + 1) + 1 = m + 2
    BY <1>1
  <2>2. /\ StateAt(sys, s, jns, m + 3) = NextState(sys, StateAt(sys, s, jns, m + 2), jns[m + 2])
        /\ StateAt(sys, t, ins, m + 2) = NextState(sys, StateAt(sys, t, ins, m + 1), ins[m + 1])
    <3> HIDE DEF t
    <3>1. m + 2 \in 1 .. Len(jns) /\ m + 3 = (m + 2) + 1
      BY <2>1
    <3> QED
      BY <1>1, <2>1, <3>1, RunContinues
  <2>3. StateAt(sys, s, jns, m + 2) = StateAt(sys, t, ins, m + 1)
    BY <1>3, <2>1
  <2>4. jns[m + 2] = ins[m + 1]
    BY <1>1, <2>1
  <2> QED
    BY <2>2, <2>3, <2>4
<1> HIDE DEF T
<1>4. Nat \subseteq T
  BY <1>2, <1>3, SetInduction
<1>5. n - 1 \in Nat /\ (n - 1) + 1 = n /\ (n - 1) + 2 = n + 1
  OBVIOUS
<1>6. n - 1 \in T
  BY <1>4, <1>5
<1> QED
  BY <1>5, <1>6 DEF T, jns

\* One input is enough when the state is an error under it.
LEMMA ErrorNow ==
    ASSUME NEW sys, NEW s, NEW in, <<s, in>> \in sys.error
    PROVE  ReachesError(sys, s, <<in>>)
<1> DEFINE ins == <<in>>
<1>1. Len(ins) = 1 /\ ins[1] = in /\ ins # <<>>
  OBVIOUS
<1> HIDE DEF ins
<1>2. StateAt(sys, s, ins, 1) = s
  BY <1>1, RunStarts
<1> QED
  BY <1>1, <1>2 DEF ReachesError, ins

\* And an input may be put before the inputs from the next state.
LEMMA ErrorLater ==
    ASSUME NEW sys, NEW s, NEW S, NEW in \in S, NEW ins \in Seq(S), ReachesError(sys, NextState(sys, s, in), ins)
    PROVE  ReachesError(sys, s, <<in>> \o ins)
<1> DEFINE jns == <<in>> \o ins
           n == Len(ins)
<1>1. n \in 1 .. Len(ins)
  BY DEF ReachesError
<1>2. jns # <<>> /\ Len(jns) = n + 1 /\ jns[n + 1] = ins[n]
  BY <1>1
<1>3. StateAt(sys, s, jns, n + 1) = StateAt(sys, NextState(sys, s, in), ins, n)
  BY <1>1, RunShifts
<1>4. <<StateAt(sys, NextState(sys, s, in), ins, n), ins[n]>> \in sys.error
  BY DEF ReachesError
<1> HIDE DEF jns, n
<1>5. ReachesError(sys, s, jns)
  BY <1>2, <1>3, <1>4 DEF ReachesError
<1> QED
  BY <1>5 DEF jns

-----------------------------------------------------------------------------
(* Pools: sequences of entries with a cube, inputs and the handle of a     *)
(* successor, which was there before, or 0.                                *)

PoolEntry == [state : Cubes, input : Inputs, succ : Nat]

Linked(q) == \A h \in 1 .. Len(q) : q[h].succ \in 0 .. h - 1

\* f collects the values v of the entries on the way from each of the first n
\* entries to one without a successor.
IsWalk(f, q, v, n) ==
    f = [g \in 1 .. n |-> IF q[g].succ = 0 THEN <<v[g]>> ELSE <<v[g]>> \o f[q[g].succ]]

\* The recursive equation of build_counterexample's walk has a solution, by
\* induction on the number of entries.
LEMMA WalkExists ==
    ASSUME NEW q, NEW v, NEW n \in Nat, \A g \in 1 .. n : q[g].succ \in 0 .. g - 1
    PROVE  \E f : IsWalk(f, q, v, n)
<1> DEFINE T == {m \in Nat : m <= n => \E f : IsWalk(f, q, v, m)}
<1>1. 0 \in T
  <2> DEFINE f == [g \in 1 .. 0 |-> <<>>]
  <2>1. IsWalk(f, q, v, 0)
    BY DEF IsWalk
  <2> QED
    BY <2>1
<1>2. ASSUME NEW m \in Nat, m \in T PROVE m + 1 \in T
  <2> SUFFICES ASSUME m + 1 <= n PROVE \E h : IsWalk(h, q, v, m + 1)
    OBVIOUS
  <2>1. PICK f : IsWalk(f, q, v, m)
    BY <1>2
  <2> DEFINE e(d, g) == IF q[g].succ = 0 THEN <<v[g]>> ELSE <<v[g]>> \o d[q[g].succ]
             h == [g \in 1 .. m + 1 |-> e(f, g)]
  <2>2. f = [g \in 1 .. m |-> e(f, g)]
    BY <2>1 DEF IsWalk
  <2>3. ASSUME NEW g \in 1 .. m + 1 PROVE e(h, g) = e(f, g)
    <3>1. q[g].succ \in 0 .. g - 1
      OBVIOUS
    <3>2. CASE q[g].succ = 0
      BY <3>2
    <3>3. CASE q[g].succ # 0
      <4>1. q[g].succ \in 1 .. m /\ q[g].succ \in 1 .. m + 1
        BY <3>1, <3>3
      <4>2. f[q[g].succ] = h[q[g].succ]
        BY <2>2, <4>1
      <4> QED
        BY <4>2
    <3> QED
      BY <3>2, <3>3
  <2>4. h = [g \in 1 .. m + 1 |-> e(h, g)]
    BY <2>3
  <2>5. IsWalk(h, q, v, m + 1)
    BY <2>4 DEF IsWalk
  <2> HIDE DEF h
  <2> QED
    BY <2>5
<1>3. n \in T
  <2> HIDE DEF T
  <2> QED
    BY <1>1, <1>2, SetInduction
<1> QED
  BY <1>3

\* When every state of an entry's cube goes into the cube of the successor under
\* the entry's inputs, or is an error, then the inputs on the way from an entry
\* lead each of its states to the error.
LEMMA WalksReplay ==
    ASSUME NEW sys \in Systems, NEW q \in Seq(PoolEntry), Linked(q), NEW w,
           \A h \in 1 .. Len(q) :
                w[h] = IF q[h].succ = 0 THEN <<q[h].input>> ELSE <<q[h].input>> \o w[q[h].succ],
           \A h \in 1 .. Len(q) : \A s \in States : Holds(q[h].state, s) =>
                IF q[h].succ = 0 THEN <<s, q[h].input>> \in sys.error
                ELSE Holds(q[q[h].succ].state, NextState(sys, s, q[h].input))
    PROVE  \A h \in 1 .. Len(q) : \A s \in States : Holds(q[h].state, s) => ReachesError(sys, s, w[h])
<1> DEFINE Good(h) == /\ w[h] \in Seq(Inputs)
                      /\ \A s \in States : Holds(q[h].state, s) => ReachesError(sys, s, w[h])
           Bad == {h \in 1 .. Len(q) : ~Good(h)}
<1>1. SUFFICES ASSUME Bad # {} PROVE FALSE
  OBVIOUS
<1>2. Bad \in SUBSET Nat
  OBVIOUS
<1>3. PICK h \in Bad : \A g \in Bad : h <= g
  BY <1>1, <1>2, LeastNatural
<1>4. h \in 1 .. Len(q) /\ Len(q) \in Nat
  OBVIOUS
<1>5. q[h] \in PoolEntry
  BY <1>4, ElementInRange
<1>6. q[h].input \in Inputs /\ q[h].succ \in 0 .. h - 1
  BY <1>4, <1>5 DEF PoolEntry, Linked
<1> DEFINE in == q[h].input
           p == q[h].succ
<1>7. CASE p = 0
  <2>1. w[h] = <<in>> /\ in \in Inputs
    BY <1>4, <1>6, <1>7
  <2>2. w[h] \in Seq(Inputs)
    BY <2>1
  <2>3. ASSUME NEW s \in States, Holds(q[h].state, s) PROVE ReachesError(sys, s, w[h])
    <3>1. <<s, in>> \in sys.error
      BY <1>4, <1>7, <2>3
    <3> QED
      BY <2>1, <3>1, ErrorNow
  <2> QED
    BY <2>2, <2>3
<1>8. CASE p # 0
  <2>1. p \in 1 .. Len(q) /\ p < h
    BY <1>4, <1>6, <1>8
  <2>2. Good(p)
    BY <1>3, <1>4, <2>1
  <2>3. w[h] = <<in>> \o w[p] /\ in \in Inputs
    BY <1>4, <1>6, <1>8
  <2>4. w[h] \in Seq(Inputs)
    BY <2>2, <2>3
  <2>5. ASSUME NEW s \in States, Holds(q[h].state, s) PROVE ReachesError(sys, s, w[h])
    <3>1. Holds(q[p].state, NextState(sys, s, in)) /\ NextState(sys, s, in) \in States
      BY <1>4, <1>6, <1>8, <2>5, NextIsState
    <3>2. ReachesError(sys, NextState(sys, s, in), w[p])
      BY <2>2, <3>1
    <3> QED
      BY <2>2, <2>3, <3>2, ErrorLater
  <2> QED
    BY <2>4, <2>5
<1> QED
  BY <1>7, <1>8

\* A cube that has a state in it holds in the state that get_vars reads out of it.
LEMMA GetVarsHolds ==
    ASSUME NEW c \in Cubes, NEW s \in States, Holds(c, s)
    PROVE  GetVars(c) \in States /\ Holds(c, GetVars(c))
<1>1. GetVars(c) \in States
  BY DEF GetVars, States
<1>2. ASSUME NEW l \in c PROVE GetVars(c)[l[1]] = l[2]
  <2>1. PICK x \in Latches, b \in BOOLEAN : l = <<x, b>>
    BY DEF Cubes, Literals
  <2>2. GetVars(c)[x] = (<<x, TRUE>> \in c)
    BY DEF GetVars
  <2>3. CASE b = TRUE
    BY <2>1, <2>2, <2>3
  <2>4. CASE b = FALSE
    <3>1. s[x] = FALSE
      BY <2>1, <2>4 DEF Holds
    <3>2. <<x, TRUE>> \notin c
      BY <3>1 DEF Holds
    <3> QED
      BY <2>1, <2>2, <2>4, <3>2
  <2> QED
    BY <2>3, <2>4
<1> QED
  BY <1>1, <1>2 DEF Holds

\* It is an initial state when the cube has one and no latch resets to one.
LEMMA GetVarsInitial ==
    ASSUME NEW sys \in Systems, NEW c \in Cubes, NEW s \in States, Holds(c, s), Holds(sys.init, s),
           \A x \in Latches : <<x, TRUE>> \notin sys.init
    PROVE  Holds(sys.init, GetVars(c))
<1>1. sys.init \in Cubes
  BY SystemsAssumption DEF SystemType
<1>2. ASSUME NEW l \in sys.init PROVE GetVars(c)[l[1]] = l[2]
  <2>1. PICK x \in Latches, b \in BOOLEAN : l = <<x, b>>
    BY <1>1 DEF Cubes, Literals
  <2>2. b = FALSE /\ s[x] = FALSE
    BY <2>1 DEF Holds
  <2>3. <<x, TRUE>> \notin c
    BY <2>2 DEF Holds
  <2>4. GetVars(c)[x] = (<<x, TRUE>> \in c)
    BY DEF GetVars
  <2> QED
    BY <2>1, <2>2, <2>3, <2>4
<1> QED
  BY <1>2 DEF Holds

\* The cube of a model is read back as the model.
LEMMA GetVarsOfState ==
    ASSUME NEW s \in States
    PROVE  GetVars(CubeOf(s)) = s
<1>1. CubeOf(s) \in Cubes /\ Holds(CubeOf(s), s) /\ \A t \in States : Holds(CubeOf(s), t) <=> t = s
  BY CubeOfState
<1> QED
  BY <1>1, GetVarsHolds

-----------------------------------------------------------------------------
(* Paths in a pool.                                                        *)

\* The handles on the way from entry h to an entry without a successor.
PathIn(q, h) ==
    LET walk[g \in 1 .. Len(q)] ==
            IF q[g].succ = 0 THEN <<g>> ELSE <<g>> \o walk[q[g].succ]
    IN  walk[h]

\* A path starts with the entry and goes on as the path of its successor.
LEMMA PathInSteps ==
    ASSUME NEW q, Len(q) \in Nat, Linked(q)
    PROVE  \A h \in 1 .. Len(q) :
                PathIn(q, h) = IF q[h].succ = 0 THEN <<h>> ELSE <<h>> \o PathIn(q, q[h].succ)
<1> DEFINE walk[g \in 1 .. Len(q)] == IF q[g].succ = 0 THEN <<g>> ELSE <<g>> \o walk[q[g].succ]
           Is(f) == f = [g \in 1 .. Len(q) |-> IF q[g].succ = 0 THEN <<g>> ELSE <<g>> \o f[q[g].succ]]
           v == [g \in 1 .. Len(q) |-> g]
<1>1. \E f : Is(f)
  <2>1. \A g \in 1 .. Len(q) : q[g].succ \in 0 .. g - 1
    BY DEF Linked
  <2> HIDE DEF v
  <2>2. PICK f : IsWalk(f, q, v, Len(q))
    BY <2>1, WalkExists
  <2>3. \A g \in 1 .. Len(q) : v[g] = g
    BY DEF v
  <2>4. Is(f)
    BY <2>2, <2>3 DEF IsWalk
  <2> HIDE DEF Is
  <2> QED
    BY <2>4
<1>2. Is(walk)
  BY <1>1, Zenon
<1>3. \A h : PathIn(q, h) = walk[h]
  BY DEF PathIn
<1> HIDE DEF walk
<1> QED
  BY <1>2, <1>3

\* p is a sequence of handles that starts with h and ends without a successor,
\* each one the successor of the one before.
IsPathOf(q, h, p) ==
    /\ p \in Seq(1 .. Len(q))
    /\ Len(p) >= 1
    /\ p[1] = h
    /\ \A k, m \in 1 .. Len(p) : m = k + 1 => q[p[k]].succ = p[m]
    /\ \A k \in 1 .. Len(p) : q[p[k]].succ = 0 <=> k = Len(p)

\* The path of an entry follows the links of the pool.
LEMMA PathInLinks ==
    ASSUME NEW q, Len(q) \in Nat, Linked(q), NEW h \in 1 .. Len(q)
    PROVE  IsPathOf(q, h, PathIn(q, h))
<1> DEFINE Bad == {g \in 1 .. Len(q) : ~IsPathOf(q, g, PathIn(q, g))}
<1>1. SUFFICES ASSUME Bad # {} PROVE FALSE
  OBVIOUS
<1>2. Bad \in SUBSET Nat
  OBVIOUS
<1>3. PICK b \in Bad : \A g \in Bad : b <= g
  BY <1>1, <1>2, LeastNatural
<1> DEFINE c == q[b].succ
<1>4. b \in 1 .. Len(q) /\ c \in 0 .. b - 1 /\ ~IsPathOf(q, b, PathIn(q, b))
  BY DEF Linked
<1>5. PathIn(q, b) = IF c = 0 THEN <<b>> ELSE <<b>> \o PathIn(q, c)
  BY <1>4, PathInSteps
<1>6. CASE c = 0
  <2>1. IsPathOf(q, b, <<b>>)
    BY <1>4, <1>6 DEF IsPathOf
  <2> QED
    BY <1>4, <1>5, <1>6, <2>1
<1>7. CASE c # 0
  <2> DEFINE p == PathIn(q, c)
             r == <<b>> \o p
  <2>1. c \in 1 .. Len(q) /\ c < b
    BY <1>4, <1>7
  <2>2. IsPathOf(q, c, p)
    BY <1>3, <2>1
  <2> HIDE DEF p, c
  <2>3. /\ r \in Seq(1 .. Len(q)) /\ Len(r) = Len(p) + 1 /\ r[1] = b /\ Len(p) \in Nat
        /\ \A k \in 1 .. Len(p) : r[k + 1] = p[k]
    BY <1>4, <2>2 DEF IsPathOf
  <2> HIDE DEF r
  <2>4. \A k \in 1 .. Len(r) : k = 1 \/ (k - 1 \in 1 .. Len(p) /\ r[k] = p[k - 1])
    <3>1. ASSUME NEW k \in 1 .. Len(r), k # 1 PROVE k - 1 \in 1 .. Len(p) /\ k = (k - 1) + 1
      BY <2>3, <3>1
    <3> QED
      BY <2>3, <3>1
  <2>5. ASSUME NEW k \in 1 .. Len(r), NEW m \in 1 .. Len(r), m = k + 1 PROVE q[r[k]].succ = r[m]
    <3>1. m - 1 = k /\ r[m] = p[k] /\ k \in 1 .. Len(p)
      BY <2>4, <2>5
    <3>2. CASE k = 1
      <4>1. r[k] = b /\ r[m] = p[1] /\ p[1] = c
        BY <2>2, <2>3, <3>1, <3>2 DEF IsPathOf
      <4> QED
        BY <4>1 DEF c
    <3>3. CASE k # 1
      <4>1. k - 1 \in 1 .. Len(p) /\ r[k] = p[k - 1] /\ k = (k - 1) + 1
        BY <2>4, <3>3
      <4> QED
        BY <2>2, <3>1, <4>1 DEF IsPathOf
    <3> QED
      BY <3>2, <3>3
  <2>6. ASSUME NEW k \in 1 .. Len(r) PROVE q[r[k]].succ = 0 <=> k = Len(r)
    <3>1. CASE k = 1
      BY <1>7, <2>2, <2>3, <3>1 DEF c, IsPathOf
    <3>2. CASE k # 1
      <4>1. k - 1 \in 1 .. Len(p) /\ r[k] = p[k - 1]
        BY <2>4, <3>2
      <4>2. q[p[k - 1]].succ = 0 <=> k - 1 = Len(p)
        BY <2>2, <4>1 DEF IsPathOf
      <4>3. k - 1 = Len(p) <=> k = Len(r)
        BY <2>3, <4>1
      <4> QED
        BY <4>1, <4>2, <4>3
    <3> QED
      BY <3>1, <3>2
  <2>7. IsPathOf(q, b, r)
    BY <2>2, <2>3, <2>5, <2>6 DEF IsPathOf
  <2>8. PathIn(q, b) = r
    BY <1>5, <1>7 DEF p, r, c
  <2> QED
    BY <1>4, <2>7, <2>8
<1> QED
  BY <1>6, <1>7

\* A path has one entry more than the path of its first entry's successor.
LEMMA PathInLength ==
    ASSUME NEW q, Len(q) \in Nat, Linked(q), NEW h \in 1 .. Len(q)
    PROVE  /\ q[h].succ = 0 => Len(PathIn(q, h)) = 1
           /\ q[h].succ # 0 => Len(PathIn(q, h)) = Len(PathIn(q, q[h].succ)) + 1
<1> DEFINE c == q[h].succ
<1>1. PathIn(q, h) = IF c = 0 THEN <<h>> ELSE <<h>> \o PathIn(q, c)
  BY PathInSteps
<1>2. ASSUME c # 0 PROVE PathIn(q, c) \in Seq(1 .. Len(q))
  <2>1. c \in 1 .. Len(q)
    BY <1>2 DEF Linked
  <2> QED
    BY <2>1, PathInLinks DEF IsPathOf
<1> HIDE DEF c
<1>3. ASSUME c # 0 PROVE Len(PathIn(q, h)) = Len(PathIn(q, c)) + 1
  <2> DEFINE p == PathIn(q, c)
  <2>1. p \in Seq(1 .. Len(q)) /\ PathIn(q, h) = <<h>> \o p
    BY <1>1, <1>2, <1>3
  <2> HIDE DEF p
  <2>2. Len(PathIn(q, h)) = Len(p) + 1
    BY <2>1
  <2> QED
    BY <2>2 DEF p
<1> QED
  BY <1>1, <1>3 DEF c

\* The path of an entry stays when entries are added.
LEMMA PathsAgree ==
    ASSUME NEW q, NEW r, Len(q) \in Nat, Len(r) \in Nat, Len(q) <= Len(r), Linked(q), Linked(r),
           \A g \in 1 .. Len(q) : r[g] = q[g]
    PROVE  \A h \in 1 .. Len(q) : PathIn(r, h) = PathIn(q, h)
<1> DEFINE Bad == {g \in 1 .. Len(q) : PathIn(r, g) # PathIn(q, g)}
<1>1. SUFFICES ASSUME Bad # {} PROVE FALSE
  OBVIOUS
<1>2. Bad \in SUBSET Nat
  OBVIOUS
<1>3. PICK b \in Bad : \A g \in Bad : b <= g
  BY <1>1, <1>2, LeastNatural
<1> DEFINE c == q[b].succ
<1>4. b \in 1 .. Len(q) /\ b \in 1 .. Len(r) /\ c \in 0 .. b - 1 /\ r[b].succ = c
  BY DEF Linked
<1>5. /\ PathIn(q, b) = IF c = 0 THEN <<b>> ELSE <<b>> \o PathIn(q, c)
      /\ PathIn(r, b) = IF c = 0 THEN <<b>> ELSE <<b>> \o PathIn(r, c)
  BY <1>4, PathInSteps
<1>6. c # 0 => PathIn(r, c) = PathIn(q, c)
  BY <1>3, <1>4
<1> QED
  BY <1>3, <1>5, <1>6

\* Every state of an entry's cube goes into the successor's cube under the
\* entry's inputs, or is an error.
Leads(sys, q) ==
    \A g \in 1 .. Len(q) : \A t \in States : Holds(q[g].state, t) =>
        IF q[g].succ = 0 THEN <<t, q[g].input>> \in sys.error
        ELSE Holds(q[q[g].succ].state, NextState(sys, t, q[g].input))

\* Then a path is an execution with the inputs of its entries, from each of the
\* first entry's states.
LEMMA PathReplays ==
    ASSUME NEW sys \in Systems, NEW q \in Seq(PoolEntry), Linked(q), Leads(sys, q),
           NEW h \in 1 .. Len(q), NEW s \in States, Holds(q[h].state, s),
           NEW ins \in Seq(Inputs), Len(ins) = Len(PathIn(q, h)),
           \A k \in 1 .. Len(ins) : ins[k] = q[PathIn(q, h)[k]].input
    PROVE  ReachesError(sys, s, ins)
<1> DEFINE p == PathIn(q, h)
           n == Len(ins)
<1>1. Len(q) \in Nat /\ n \in Nat
  OBVIOUS
<1>2. IsPathOf(q, h, p)
  BY <1>1, PathInLinks
<1>3. Len(p) = n /\ \A k \in 1 .. n : ins[k] = q[p[k]].input /\ ins[k] \in Inputs
  OBVIOUS
<1> HIDE DEF p
<1>4. n >= 1 /\ n \in 1 .. n /\ \A k \in 1 .. n : p[k] \in 1 .. Len(q)
  BY <1>1, <1>2, <1>3 DEF IsPathOf
<1> HIDE DEF n
<1> DEFINE X(k) == {t \in States : Holds(q[p[k]].state, t)}
<1>5. ASSUME NEW k \in 1 .. n, NEW m \in 1 .. n, m = k + 1, NEW t \in X(k)
      PROVE  NextState(sys, t, ins[k]) \in X(m)
  <2>1. p[k] \in 1 .. Len(q) /\ q[p[k]].succ = p[m] /\ q[p[k]].succ # 0
    BY <1>1, <1>2, <1>3, <1>4, <1>5 DEF IsPathOf
  <2>2. NextState(sys, t, ins[k]) \in States
    BY <1>3, NextIsState
  <2>3. Holds(q[q[p[k]].succ].state, NextState(sys, t, q[p[k]].input))
    BY <2>1 DEF Leads
  <2> QED
    BY <1>3, <2>1, <2>2, <2>3
<1>6. s \in X(1)
  BY <1>2 DEF IsPathOf
<1> DEFINE F == [k \in 1 .. n |-> X(k)]
<1>7. /\ s \in F[1]
      /\ \A k, m \in 1 .. n : m = k + 1 => \A t \in F[k] : NextState(sys, t, ins[k]) \in F[m]
  BY <1>4, <1>5, <1>6
<1>8. StateAt(sys, s, ins, n) \in F[n]
  <2> HIDE DEF F
  <2> QED
    BY <1>1, <1>4, <1>7, RunInvariant DEF n
<1>9. StateAt(sys, s, ins, n) \in States /\ Holds(q[p[n]].state, StateAt(sys, s, ins, n))
  BY <1>4, <1>8
<1>10. p[n] \in 1 .. Len(q) /\ q[p[n]].succ = 0 /\ ins[n] = q[p[n]].input
  BY <1>2, <1>3, <1>4 DEF IsPathOf
<1>11. <<StateAt(sys, s, ins, n), ins[n]>> \in sys.error
  BY <1>9, <1>10 DEF Leads
<1>12. ins # <<>>
  BY <1>4 DEF n
<1> QED
  BY <1>11, <1>12 DEF ReachesError, n

\* The state x of an entry is the successor of the state of the entry after it.
Follows(sys, q, x) ==
    \A g \in 1 .. Len(q) : q[g].succ # 0 => NextState(sys, x[q[g].succ], q[g].input) = x[g]

\* The inputs of the path p read from its end, followed by those of the first
\* entry again, which serve the error.
ReadBackward(q, h, p, n, ins) ==
    /\ Len(ins) = n
    /\ ins[n] = q[h].input
    /\ \A k, m \in 1 .. n : m = n - k => ins[k] = q[p[m]].input

\* Then a path is an execution read from its end.
LEMMA PathReplaysBackward ==
    ASSUME NEW sys, NEW q, Len(q) \in Nat, Linked(q), NEW x, Follows(sys, q, x),
           NEW h \in 1 .. Len(q), <<x[h], q[h].input>> \in sys.error,
           NEW p, p = PathIn(q, h), NEW n, n = Len(p), NEW ins, ReadBackward(q, h, p, n, ins)
    PROVE  ReachesError(sys, x[p[n]], ins)
<1>0. /\ Len(ins) = n /\ ins[n] = q[h].input
      /\ \A k, m \in 1 .. n : m = n - k => ins[k] = q[p[m]].input
  BY DEF ReadBackward
<1>1. IsPathOf(q, h, p)
  BY PathInLinks
<1>2. n \in Nat /\ n >= 1 /\ n \in 1 .. n /\ \A k \in 1 .. n : p[k] \in 1 .. Len(q)
  BY <1>1 DEF IsPathOf
<1> DEFINE F == [k \in 1 .. n |-> {x[p[(n - k) + 1]]}]
<1>3. x[p[n]] \in F[1]
  BY <1>2
<1>4. ASSUME NEW k \in 1 .. n, NEW m \in 1 .. n, m = k + 1, NEW t \in F[k]
      PROVE  NextState(sys, t, ins[k]) \in F[m]
  <2> DEFINE j == n - k
             i == (n - k) + 1
  <2>1. j \in 1 .. n /\ i \in 1 .. n /\ i = j + 1 /\ (n - m) + 1 = j /\ j # n
    BY <1>2, <1>4
  <2>2. t = x[p[i]] /\ F[m] = {x[p[j]]} /\ ins[k] = q[p[j]].input
    BY <1>0, <1>2, <1>4, <2>1
  <2> HIDE DEF i, j, F
  <2>3. p[j] \in 1 .. Len(q) /\ q[p[j]].succ = p[i] /\ q[p[j]].succ # 0
    BY <1>1, <1>2, <2>1 DEF IsPathOf
  <2> QED
    BY <2>2, <2>3 DEF Follows
<1> HIDE DEF F
<1>5. StateAt(sys, x[p[n]], ins, n) \in F[n]
  <2>1. /\ Len(ins) \in Nat /\ Len(ins) >= 1
        /\ \A k, m \in 1 .. Len(ins) : m = k + 1 => \A t \in F[k] : NextState(sys, t, ins[k]) \in F[m]
    BY <1>0, <1>2, <1>4
  <2>2. StateAt(sys, x[p[n]], ins, Len(ins)) \in F[Len(ins)]
    BY <1>3, <2>1, RunInvariant
  <2> QED
    BY <1>0, <2>2
<1>6. StateAt(sys, x[p[n]], ins, n) = x[h]
  <2>1. F[n] = {x[p[1]]}
    BY <1>2 DEF F
  <2> QED
    BY <1>1, <1>5, <2>1 DEF IsPathOf
<1>7. ins # <<>>
  BY <1>0, <1>2
<1> QED
  BY <1>0, <1>6, <1>7 DEF ReachesError
=============================================================================
