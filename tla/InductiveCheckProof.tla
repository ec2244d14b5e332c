------------------------ MODULE InductiveCheckProof ------------------------
(***************************************************************************)
(* Proofs about is_inductive: the clauses it gives to its solver, frame    *)
(* after frame, decide whether a frame is covered, for traces and formulas *)
(* of any size.                                                            *)
(***************************************************************************)
EXTENDS InductiveCheck, WellFoundedInduction, TLAPS

-----------------------------------------------------------------------------
(* Induction, for sets of natural numbers.                                 *)

\* Every set of natural numbers with an element has a least one.
LEMMA LeastNumber ==
    ASSUME NEW T \in SUBSET Nat, NEW x \in T
    PROVE  \E n \in T : \A m \in T : n <= m
<1> DEFINE less == {ss \in Nat \X Nat : ss[1] < ss[2]}
<1>1. IsWellFoundedOn(less, Nat)
  BY NatLessThanWellFounded, Zenon DEF OpToRel
<1>2. PICK n \in T : \A m \in T : ~(<<m, n>> \in less)
  <2> HIDE DEF less
  <2> QED
    BY <1>1, WFMin
<1>3. \A m \in T : ~(m < n)
  BY <1>2
<1> QED
  BY <1>3

\* A set that has 0, and n + 1 with every n, has all natural numbers.
LEMMA SetInduction ==
    ASSUME NEW T, 0 \in T, \A n \in Nat : n \in T => n + 1 \in T
    PROVE  Nat \subseteq T
<1> SUFFICES ASSUME NEW x \in Nat \ T PROVE FALSE
  OBVIOUS
<1>1. PICK n \in Nat \ T : \A m \in Nat \ T : n <= m
  BY LeastNumber
<1>2. n # 0 /\ n - 1 \in Nat /\ ~(n <= n - 1)
  BY <1>1
<1>3. n - 1 \in T
  BY <1>1, <1>2
<1>4. n - 1 + 1 = n
  BY <1>2
<1> QED
  BY <1>1, <1>2, <1>3, <1>4

\* The same for the numbers up to n.
LEMMA BoundedInduction ==
    ASSUME NEW n \in Nat, NEW T, 0 \in T, \A k \in 0 .. n - 1 : k \in T => k + 1 \in T
    PROVE  \A k \in 0 .. n : k \in T
<1> DEFINE U == {k \in Nat : k <= n => k \in T}
<1>1. 0 \in U
  OBVIOUS
<1>2. \A k \in Nat : k \in U => k + 1 \in U
  OBVIOUS
<1>3. Nat \subseteq U
  <2> HIDE DEF U
  <2> QED
    BY <1>1, <1>2, SetInduction
<1> QED
  BY <1>3

\* A loop of n iterations over values in T. It starts with a, and step[k] is what
\* iteration k does.
IsBody(step, n, T) == step \in [1 .. n -> [T -> T]]

IsLoopOf(h, n, T, a, step) ==
    h \in [0 .. n -> T] /\ h[0] = a /\ \A k \in 0 .. n - 1 : h[k + 1] = step[k + 1][h[k]]

\* There is a value for each step of a loop.
LEMMA LoopExists ==
    ASSUME NEW n \in Nat, NEW T, NEW a \in T, NEW step, IsBody(step, n, T)
    PROVE  \E h : IsLoopOf(h, n, T, a, step)
<1>0. step \in [1 .. n -> [T -> T]]
  BY DEF IsBody
<1> DEFINE IsLoop(h, m) == h[0] = a /\ \A k \in 0 .. m - 1 : h[k + 1] = step[k + 1][h[k]]
           U == {m \in 0 .. n : \E h \in [0 .. m -> T] : IsLoop(h, m)}
<1>1. 0 \in U
  <2> DEFINE h == [k \in 0 .. 0 |-> a]
  <2>1. h \in [0 .. 0 -> T] /\ IsLoop(h, 0)
    OBVIOUS
  <2> HIDE DEF h, IsLoop
  <2> QED
    BY <2>1
<1>2. ASSUME NEW m \in 0 .. n - 1, m \in U PROVE m + 1 \in U
  <2>1. PICK h \in [0 .. m -> T] : IsLoop(h, m)
    BY <1>2
  <2> DEFINE g == [k \in 0 .. m + 1 |-> IF k = m + 1 THEN step[m + 1][h[m]] ELSE h[k]]
  <2>2. step[m + 1][h[m]] \in T
    BY <1>0
  <2>3. g \in [0 .. m + 1 -> T]
    BY <2>2
  <2>4. g[0] = a
    BY <2>1
  <2>5. ASSUME NEW k \in 0 .. m PROVE g[k + 1] = step[k + 1][g[k]]
    <3>1. CASE k = m
      BY <3>1
    <3>2. CASE k # m
      <4>1. k \in 0 .. m - 1 /\ k + 1 # m + 1 /\ k # m + 1 /\ k + 1 \in 0 .. m
        BY <3>2
      <4>2. h[k + 1] = step[k + 1][h[k]]
        BY <2>1, <4>1
      <4> QED
        BY <4>1, <4>2
    <3> QED
      BY <3>1, <3>2
  <2> HIDE DEF g
  <2>6. \E f \in [0 .. m + 1 -> T] : IsLoop(f, m + 1)
    BY <2>3, <2>4, <2>5
  <2> HIDE DEF IsLoop
  <2> QED
    BY <2>6
<1> HIDE DEF U
<1>3. n \in U
  <2>1. \A k \in 0 .. n - 1 : k \in U => k + 1 \in U
    BY <1>2
  <2>2. \A k \in 0 .. n : k \in U
    BY <1>1, <2>1, BoundedInduction, Zenon
  <2> QED
    BY <2>2
<1> QED
  BY <1>3 DEF U, IsLoopOf

-----------------------------------------------------------------------------
(* FlattenSeq.                                                             *)

\* The concatenation, one sequence after the other.
IsConcatenation(h, ss) == h[0] = <<>> /\ \A k \in 0 .. Len(ss) - 1 : h[k + 1] = h[k] \o ss[k + 1]

\* FlattenSeq is what its loop ends with.
LEMMA FlattenLoop ==
    ASSUME NEW T, NEW ss \in Seq(Seq(T))
    PROVE  \E h \in [0 .. Len(ss) -> Seq(T)] :
               IsConcatenation(h, ss) /\ FlattenSeq(ss) = h[Len(ss)]
<1> DEFINE n == Len(ss)
           step == [k \in 1 .. n |-> [s \in Seq(T) |-> s \o ss[k]]]
<1>1. n \in Nat /\ <<>> \in Seq(T)
  OBVIOUS
<1>2. step \in [1 .. n -> [Seq(T) -> Seq(T)]]
  OBVIOUS
<1>3. PICK h \in [0 .. n -> Seq(T)] : h[0] = <<>> /\ \A k \in 0 .. n - 1 : h[k + 1] = step[k + 1][h[k]]
  <2>1. IsBody(step, n, Seq(T))
    BY <1>2, Zenon DEF IsBody
  <2> HIDE DEF step, n
  <2>2. \E h : IsLoopOf(h, n, Seq(T), <<>>, step)
    BY <1>1, <2>1, LoopExists
  <2> QED
    BY <2>2 DEF IsLoopOf
<1>4. ASSUME NEW k \in 0 .. n - 1 PROVE h[k + 1] = h[k] \o ss[k + 1]
  <2>1. k \in 0 .. n /\ k + 1 \in 1 .. n
    BY <1>1
  <2>2. h[k] \in Seq(T)
    BY <1>3, <2>1
  <2>3. step[k + 1][h[k]] = h[k] \o ss[k + 1]
    BY <2>1, <2>2
  <2> QED
    BY <1>3, <2>3, Zenon
<1>5. ASSUME NEW k \in 1 .. n PROVE h[k] = h[k - 1] \o ss[k]
  <2> DEFINE j == k - 1
  <2>1. j \in 0 .. n - 1 /\ j + 1 = k
    BY <1>1
  <2> HIDE DEF j
  <2>2. h[j + 1] = h[j] \o ss[j + 1]
    BY <1>4, <2>1
  <2> QED
    BY <2>1, <2>2 DEF j
<1>6. FlattenSeq(ss) = h[n]
  <2>1. CASE n = 0
    <3>1. ss = <<>>
      BY <2>1
    <3> QED
      BY <1>3, <2>1, <3>1 DEF FlattenSeq
  <2>2. CASE n # 0
    <3> DEFINE e(f, k) == IF k = 1 THEN ss[k] ELSE f[k - 1] \o ss[k]
               IsFlat(f) == f = [k \in 1 .. n |-> e(f, k)]
               g == [k \in 1 .. n |-> h[k]]
               flatten[k \in 1 .. n] == e(flatten, k)
    <3>1. ASSUME NEW k \in 1 .. n PROVE g[k] = e(g, k)
      <4>1. CASE k = 1
        <5>1. h[k] = h[k - 1] \o ss[k]
          BY <1>5
        <5>2. k - 1 = 0 /\ h[k - 1] = <<>>
          BY <1>3, <4>1
        <5>3. <<>> \o ss[k] = ss[k]
          OBVIOUS
        <5>4. h[k] = ss[k]
          BY <5>1, <5>2, <5>3, Zenon
        <5> QED
          BY <4>1, <5>4
      <4>2. CASE k # 1
        <5>1. h[k] = h[k - 1] \o ss[k]
          BY <1>5
        <5>2. g[k] = h[k] /\ g[k - 1] = h[k - 1]
          BY <4>2
        <5> HIDE DEF g
        <5> QED
          BY <4>2, <5>1, <5>2
      <4> QED
        BY <4>1, <4>2
    <3>2. IsFlat(g)
      BY <3>1
    <3>3. \E f : IsFlat(f)
      <4> HIDE DEF g, e
      <4> QED
        BY <3>2, Zenon
    <3>4. IsFlat(flatten)
      <4> HIDE DEF e
      <4> QED
        BY <3>3, Zenon
    <3>5. FlattenSeq(ss) = flatten[n]
      BY <2>2, Zenon DEF FlattenSeq
    <3> HIDE DEF flatten
    <3> DEFINE U == {k \in 0 .. n : k # 0 => flatten[k] = h[k]}
    <3>6. 0 \in U
      OBVIOUS
    <3>7. ASSUME NEW k \in 0 .. n - 1, k \in U PROVE k + 1 \in U
      <4>0. k + 1 \in 1 .. n /\ k + 1 - 1 = k
        OBVIOUS
      <4>1. flatten[k + 1] = e(flatten, k + 1)
        BY <3>4, <4>0
      <4>2. CASE k = 0
        <5>1. g[k + 1] = e(g, k + 1)
          BY <3>1, <4>0
        <5>2. k + 1 = 1 /\ g[k + 1] = h[k + 1]
          BY <4>0, <4>2
        <5> HIDE DEF g
        <5>3. e(g, k + 1) = ss[k + 1] /\ e(flatten, k + 1) = ss[k + 1]
          BY <5>2
        <5> QED
          BY <4>1, <5>1, <5>2, <5>3
      <4>3. CASE k # 0
        <5>1. flatten[k] = h[k]
          BY <3>7, <4>3
        <5>2. h[k + 1] = h[k] \o ss[k + 1]
          BY <1>4
        <5>3. \A j : j # 1 => e(flatten, j) = flatten[j - 1] \o ss[j]
          OBVIOUS
        <5> HIDE DEF e
        <5>4. e(flatten, k + 1) = flatten[k] \o ss[k + 1]
          <6> DEFINE j == k + 1
          <6>1. j # 1 /\ j - 1 = k
            BY <4>3
          <6> HIDE DEF j
          <6>2. e(flatten, j) = flatten[k] \o ss[j]
            BY <5>3, <6>1
          <6> QED
            BY <6>2 DEF j
        <5>5. flatten[k + 1] = h[k + 1]
          BY <4>1, <5>1, <5>2, <5>4
        <5> QED
          BY <4>0, <5>5
      <4> QED
        BY <4>2, <4>3
    <3> HIDE DEF U
    <3>8. n \in U
      <4> HIDE DEF n
      <4>1. \A k \in 0 .. n : k \in U
        BY <1>1, <3>6, <3>7, BoundedInduction, Zenon
      <4> QED
        BY <1>1, <4>1
    <3> QED
      BY <2>2, <3>5, <3>8 DEF U
  <2> QED
    BY <2>1, <2>2
<1>7. IsConcatenation(h, ss)
  BY <1>3, <1>4, Zenon DEF IsConcatenation
<1> QED
  BY <1>6, <1>7

\* A sequence is a function.
LEMMA SequenceIsFunction ==
    ASSUME NEW T, NEW s \in Seq(T)
    PROVE  s \in [1 .. Len(s) -> T]
OBVIOUS

\* The elements of a concatenation.
LEMMA ConcatElements ==
    ASSUME NEW T, NEW s \in Seq(T), NEW t \in Seq(T)
    PROVE  ToSet(s \o t) = ToSet(s) \cup ToSet(t)
<1> DEFINE u == s \o t
<1>1. u \in Seq(T) /\ Len(u) = Len(s) + Len(t)
  OBVIOUS
<1>2. \A k \in 1 .. Len(s) : u[k] = s[k]
  OBVIOUS
<1>3. \A k \in 1 .. Len(t) : u[Len(s) + k] = t[k]
  OBVIOUS
<1>4. \A k \in 1 .. Len(u) : k \in 1 .. Len(s) \/ (k - Len(s) \in 1 .. Len(t) /\ k = Len(s) + (k - Len(s)))
  BY <1>1
<1>5. DOMAIN u = 1 .. Len(u) /\ DOMAIN s = 1 .. Len(s) /\ DOMAIN t = 1 .. Len(t)
  BY <1>1
<1> HIDE DEF u
<1>6. ASSUME NEW x \in ToSet(u) PROVE x \in ToSet(s) \cup ToSet(t)
  <2>1. PICK k \in 1 .. Len(u) : x = u[k]
    BY <1>5 DEF ToSet
  <2>2. CASE k \in 1 .. Len(s)
    BY <1>2, <1>5, <2>1, <2>2 DEF ToSet
  <2>3. CASE k - Len(s) \in 1 .. Len(t) /\ k = Len(s) + (k - Len(s))
    <3>1. x = t[k - Len(s)]
      BY <1>3, <2>1, <2>3
    <3> QED
      BY <1>5, <2>3, <3>1 DEF ToSet
  <2> QED
    BY <1>4, <2>2, <2>3
<1>7. ASSUME NEW k \in 1 .. Len(s) PROVE s[k] \in ToSet(u)
  <2>1. k \in 1 .. Len(u)
    BY <1>1
  <2> QED
    BY <1>2, <1>5, <2>1 DEF ToSet
<1>8. ASSUME NEW k \in 1 .. Len(t) PROVE t[k] \in ToSet(u)
  <2>1. Len(s) + k \in 1 .. Len(u)
    BY <1>1
  <2> QED
    BY <1>3, <1>5, <2>1 DEF ToSet
<1> QED
  BY <1>5, <1>6, <1>7, <1>8 DEF ToSet, u

\* The elements of FlattenSeq(ss) are those of the sequences in ss.
LEMMA FlattenElements ==
    ASSUME NEW T, NEW ss \in Seq(Seq(T))
    PROVE  /\ FlattenSeq(ss) \in Seq(T)
           /\ ToSet(FlattenSeq(ss)) = UNION {ToSet(ss[k]) : k \in 1 .. Len(ss)}
<1>1. PICK h \in [0 .. Len(ss) -> Seq(T)] : IsConcatenation(h, ss) /\ FlattenSeq(ss) = h[Len(ss)]
  BY FlattenLoop
<1> DEFINE U == {m \in 0 .. Len(ss) : ToSet(h[m]) = UNION {ToSet(ss[k]) : k \in 1 .. m}}
<1>2. 0 \in U
  BY <1>1 DEF IsConcatenation, ToSet
<1>3. ASSUME NEW m \in 0 .. Len(ss) - 1, m \in U PROVE m + 1 \in U
  <2>1. m + 1 \in 1 .. Len(ss) /\ m + 1 - 1 = m /\ m \in 0 .. Len(ss) /\ m + 1 \in 0 .. Len(ss)
    OBVIOUS
  <2>2. h[m + 1] = h[m] \o ss[m + 1]
    BY <1>1, Zenon DEF IsConcatenation
  <2>3. h[m] \in Seq(T) /\ ss[m + 1] \in Seq(T)
    <3> HIDE DEF U
    <3> QED
      BY <1>1, <2>1
  <2>4. ToSet(h[m] \o ss[m + 1]) = ToSet(h[m]) \cup ToSet(ss[m + 1])
    BY <2>3, ConcatElements
  <2>5. 1 .. m + 1 = (1 .. m) \cup {m + 1}
    BY <2>1
  <2>6. ToSet(h[m]) = UNION {ToSet(ss[k]) : k \in 1 .. m}
    BY <1>3
  <2>7. UNION {ToSet(ss[k]) : k \in (1 .. m) \cup {m + 1}} = (UNION {ToSet(ss[k]) : k \in 1 .. m}) \cup ToSet(ss[m + 1])
    <3> HIDE DEF U
    <3> QED
      BY Zenon
  <2>8. ToSet(h[m + 1]) = UNION {ToSet(ss[k]) : k \in 1 .. m + 1}
    <3> HIDE DEF U
    <3> QED
      BY <2>2, <2>4, <2>5, <2>6, <2>7, Zenon
  <2> QED
    BY <2>1, <2>8, Zenon
<1> HIDE DEF U
<1>4. Len(ss) \in U
  <2>1. Len(ss) \in Nat
    OBVIOUS
  <2>2. \A k \in 0 .. Len(ss) : k \in U
    BY <1>2, <1>3, <2>1, BoundedInduction, Zenon
  <2> QED
    BY <2>1, <2>2
<1> QED
  BY <1>1, <1>4, Zenon DEF U

-----------------------------------------------------------------------------
(* Split and Clauses: what is between the separators of a formula.         *)

\* The literals, and the lists of clauses that split leaves.
Lits == Int \ {0}
Parts == Seq(Seq(Lits)) \ {<<>>}

\* One element of a formula more.
Extended(ps, l) ==
    IF l = Separator THEN Append(ps, <<>>) ELSE [ps EXCEPT ![Len(ps)] = Append(@, l)]

\* It is added to the last part, or begins a new one.
LEMMA ExtendedIs ==
    ASSUME NEW ps \in Parts, NEW l \in Int
    PROVE  /\ Extended(ps, l) \in Parts
           /\ l = 0 => /\ Len(Extended(ps, l)) = Len(ps) + 1
                       /\ \A j \in 1 .. Len(ps) : Extended(ps, l)[j] = ps[j]
                       /\ Extended(ps, l)[Len(ps) + 1] = <<>>
           /\ l # 0 => /\ Len(Extended(ps, l)) = Len(ps)
                       /\ \A j \in 1 .. Len(ps) - 1 : Extended(ps, l)[j] = ps[j]
                       /\ Extended(ps, l)[Len(ps)] = Append(ps[Len(ps)], l)
<1>1. ps \in Seq(Seq(Lits)) /\ Len(ps) \in Nat /\ Len(ps) >= 1
  BY DEF Parts
<1>2. CASE l = 0
  <2>1. Extended(ps, l) = Append(ps, <<>>) /\ <<>> \in Seq(Lits)
    BY <1>2 DEF Extended, Separator
  <2> DEFINE qs == Append(ps, <<>>)
  <2>2. qs \in Seq(Seq(Lits)) /\ Len(qs) = Len(ps) + 1
    BY <1>1, <2>1
  <2>3. \A j \in 1 .. Len(ps) : qs[j] = ps[j]
    BY <1>1
  <2>4. qs[Len(ps) + 1] = <<>>
    BY <1>1
  <2>5. qs # <<>>
    BY <1>1, <2>2
  <2> HIDE DEF qs
  <2> QED
    BY <1>2, <2>1, <2>2, <2>3, <2>4, <2>5 DEF Parts, qs
<1>3. CASE l # 0
  <2> DEFINE n == Len(ps)
             t == Append(ps[n], l)
             qs == [ps EXCEPT ![n] = t]
  <2>1. Extended(ps, l) = qs
    BY <1>3 DEF Extended, Separator
  <2>2. ps[n] \in Seq(Lits) /\ l \in Lits
    BY <1>1, <1>3 DEF Lits
  <2>3. t \in Seq(Lits)
    BY <2>2
  <2> HIDE DEF t
  <2>4. qs \in Seq(Seq(Lits)) /\ Len(qs) = n
    BY <1>1, <2>3
  <2>5. \A j \in 1 .. n - 1 : qs[j] = ps[j]
    BY <1>1
  <2>6. qs[n] = t
    BY <1>1
  <2>7. qs # <<>>
    BY <1>1, <2>4
  <2> HIDE DEF qs
  <2> QED
    BY <1>3, <2>1, <2>4, <2>5, <2>6, <2>7 DEF Parts, t
<1> QED
  BY <1>2, <1>3

\* The parts of each beginning of f.
IsSplit(p, f) ==
    /\ p \in [0 .. Len(f) -> Parts]
    /\ p[0] = <<<<>>>>
    /\ \A k \in 0 .. Len(f) - 1 : p[k + 1] = Extended(p[k], f[k + 1])

\* Split is what its loop ends with.
LEMMA SplitLoop ==
    ASSUME NEW f \in Seq(Int)
    PROVE  \E p : IsSplit(p, f) /\ Split(f) = IF f = <<>> THEN <<>> ELSE p[Len(f)]
<1> DEFINE n == Len(f)
           step == [k \in 1 .. n |-> [ps \in Parts |-> Extended(ps, f[k])]]
<1>1. n \in Nat
  OBVIOUS
<1>2. \A k \in 1 .. n : f[k] \in Int
  OBVIOUS
<1>3. step \in [1 .. n -> [Parts -> Parts]]
  BY <1>2, ExtendedIs
<1>4. <<<<>>>> \in Parts
  BY DEF Parts
<1>5. PICK p \in [0 .. n -> Parts] : p[0] = <<<<>>>> /\ \A k \in 0 .. n - 1 : p[k + 1] = step[k + 1][p[k]]
  <2>1. IsBody(step, n, Parts)
    BY <1>3, Zenon DEF IsBody
  <2> DEFINE a == <<<<>>>>
  <2> HIDE DEF step, n, a
  <2>2. a \in Parts
    BY <1>4 DEF a
  <2>3. \E h : IsLoopOf(h, n, Parts, a, step)
    BY <1>1, <2>1, <2>2, LoopExists
  <2> QED
    BY <2>3 DEF IsLoopOf, a
<1>6. ASSUME NEW k \in 0 .. n - 1 PROVE p[k + 1] = Extended(p[k], f[k + 1])
  <2>1. k \in 0 .. n /\ k + 1 \in 1 .. n
    BY <1>1
  <2>2. p[k] \in Parts
    BY <1>5, <2>1
  <2>3. step[k + 1][p[k]] = Extended(p[k], f[k + 1])
    BY <2>1, <2>2
  <2> QED
    BY <1>5, <2>3, Zenon
<1>7. IsSplit(p, f)
  BY <1>5, <1>6, Zenon DEF IsSplit
<1>8. ASSUME f # <<>> PROVE Split(f) = p[n]
  <2> DEFINE e(q, k) == IF k = 0 THEN <<<<>>>> ELSE Extended(q[k - 1], f[k])
             IsRun(q) == q = [k \in 0 .. n |-> e(q, k)]
             parts[k \in 0 .. n] == e(parts, k)
  <2>1. ASSUME NEW k \in 0 .. n PROVE p[k] = e(p, k)
    <3>1. CASE k = 0
      BY <1>5, <3>1
    <3>2. CASE k # 0
      <4> DEFINE j == k - 1
      <4>1. j \in 0 .. n - 1 /\ j + 1 = k
        BY <1>1, <3>2
      <4> HIDE DEF j
      <4>2. p[j + 1] = Extended(p[j], f[j + 1])
        BY <1>6, <4>1
      <4> QED
        BY <3>2, <4>1, <4>2 DEF j
    <3> QED
      BY <3>1, <3>2
  <2>2. IsRun(p)
    <3> HIDE DEF e
    <3> QED
      BY <2>1, <1>5
  <2>3. IsRun(parts)
    <3> HIDE DEF e
    <3> QED
      BY <2>2, Zenon
  <2>4. Split(f) = parts[n]
    BY <1>8, Zenon DEF Split, Extended
  <2> HIDE DEF parts
  <2> DEFINE U == {k \in 0 .. n : parts[k] = p[k]}
  <2>5. \A k \in 0 .. n : parts[k] = e(parts, k)
    <3> HIDE DEF e
    <3> QED
      BY <2>3
  <2>6. 0 \in U
    <3>1. 0 \in 0 .. n
      BY <1>1
    <3>2. parts[0] = <<<<>>>>
      BY <2>5, <3>1, Zenon
    <3> QED
      BY <1>5, <3>1, <3>2
  <2>7. ASSUME NEW k \in 0 .. n - 1, k \in U PROVE k + 1 \in U
    <3> DEFINE j == k + 1
    <3>1. j \in 0 .. n /\ j # 0 /\ j - 1 = k
      BY <1>1
    <3> HIDE DEF j
    <3>2. parts[j] = Extended(parts[k], f[j])
      BY <2>5, <3>1
    <3>3. parts[k] = p[k]
      BY <2>7
    <3>4. p[j] = Extended(p[k], f[j])
      BY <1>6 DEF j
    <3> QED
      BY <3>1, <3>2, <3>3, <3>4 DEF j
  <2> HIDE DEF U, n
  <2>8. \A k \in 0 .. n : k \in U
    BY <1>1, <2>6, <2>7, BoundedInduction, Zenon
  <2>9. n \in U
    BY <1>1, <2>8
  <2> QED
    BY <2>4, <2>9 DEF U
<1>9. f = <<>> => Split(f) = <<>>
  BY DEF Split
<1> QED
  BY <1>7, <1>8, <1>9

\* The sets of literals of the parts that have ended, and of the last one.
Closed(ps) == {ToSet(ps[j]) : j \in 1 .. Len(ps) - 1}
Current(ps) == ToSet(ps[Len(ps)])

\* A literal is added to the last part, and a separator ends it.
LEMMA ExtendedView ==
    ASSUME NEW ps \in Parts, NEW l \in Int
    PROVE  /\ l = 0 => /\ Closed(Extended(ps, l)) = Closed(ps) \cup {Current(ps)}
                       /\ Current(Extended(ps, l)) = {}
           /\ l # 0 => /\ Closed(Extended(ps, l)) = Closed(ps)
                       /\ Current(Extended(ps, l)) = Current(ps) \cup {l}
<1> DEFINE n == Len(ps)
           qs == Extended(ps, l)
<1>1. n \in Nat /\ n >= 1 /\ ps \in Seq(Seq(Lits))
  BY DEF Parts
<1>2. /\ l = 0 => Len(qs) = n + 1 /\ (\A j \in 1 .. n : qs[j] = ps[j]) /\ qs[n + 1] = <<>>
      /\ l # 0 => Len(qs) = n /\ (\A j \in 1 .. n - 1 : qs[j] = ps[j]) /\ qs[n] = Append(ps[n], l)
  BY ExtendedIs
<1>3. ps[n] \in Seq(Lits)
  BY <1>1
<1> HIDE DEF qs, n
<1>4. CASE l = 0
  <2>1. Closed(qs) = {ToSet(qs[j]) : j \in 1 .. n}
    <3>1. Len(qs) - 1 = n
      BY <1>1, <1>2, <1>4
    <3> QED
      BY <3>1, Zenon DEF Closed
  <2>2. 1 .. n = (1 .. n - 1) \cup {n}
    BY <1>1
  <2>3. \A j \in 1 .. n : ToSet(qs[j]) = ToSet(ps[j])
    BY <1>2, <1>4
  <2>4. {ToSet(qs[j]) : j \in 1 .. n} = {ToSet(ps[j]) : j \in 1 .. n}
    BY <2>3, Zenon
  <2>5. {ToSet(ps[j]) : j \in (1 .. n - 1) \cup {n}} = {ToSet(ps[j]) : j \in 1 .. n - 1} \cup {ToSet(ps[n])}
    BY Zenon
  <2>6. Closed(qs) = Closed(ps) \cup {Current(ps)}
    BY <2>1, <2>2, <2>4, <2>5, Zenon DEF Closed, Current, n
  <2>7. Current(qs) = {}
    BY <1>2, <1>4 DEF Current, ToSet
  <2> QED
    BY <1>4, <2>6, <2>7 DEF qs
<1>5. CASE l # 0
  <2>1. \A j \in 1 .. n - 1 : ToSet(qs[j]) = ToSet(ps[j])
    BY <1>2, <1>5
  <2>2. {ToSet(qs[j]) : j \in 1 .. n - 1} = {ToSet(ps[j]) : j \in 1 .. n - 1}
    BY <2>1, Zenon
  <2>3. Closed(qs) = Closed(ps)
    BY <1>2, <1>5, <2>2, Zenon DEF Closed, n
  <2>4. ToSet(Append(ps[n], l)) = ToSet(ps[n]) \cup {l}
    <3> DEFINE s == ps[n]
    <3>1. s \in Seq(Lits)
      BY <1>3
    <3> HIDE DEF s
    <3>2. Append(s, l) \in Seq(Lits)
      BY <1>5, <3>1 DEF Lits
    <3>3. DOMAIN Append(s, l) = (1 .. Len(s)) \cup {Len(s) + 1}
      BY <3>1, <3>2
    <3>4. (\A j \in 1 .. Len(s) : Append(s, l)[j] = s[j]) /\ Append(s, l)[Len(s) + 1] = l
      BY <3>1
    <3>5. DOMAIN s = 1 .. Len(s)
      BY <3>1
    <3>6. ToSet(Append(s, l)) = ToSet(s) \cup {l}
      <4> DEFINE t == Append(s, l)
      <4> HIDE DEF t
      <4> QED
        BY <3>3, <3>4, <3>5, Zenon DEF ToSet, t
    <3> QED
      BY <3>6 DEF s
  <2>5. Current(qs) = Current(ps) \cup {l}
    BY <1>2, <1>5, <2>4, Zenon DEF Current, n
  <2> QED
    BY <1>5, <2>3, <2>5 DEF qs
<1> QED
  BY <1>4, <1>5

\* The clauses of a formula are the parts that have ended.
LEMMA ClausesView ==
    ASSUME NEW f \in Seq(Int), NEW p, IsSplit(p, f), Split(f) = IF f = <<>> THEN <<>> ELSE p[Len(f)]
    PROVE  Clauses(f) = Closed(p[Len(f)])
<1>1. CASE f = <<>>
  <2>1. p[Len(f)] = <<<<>>>>
    BY <1>1 DEF IsSplit
  <2>2. Closed(p[Len(f)]) = {}
    BY <2>1 DEF Closed
  <2> QED
    BY <1>1, <2>2 DEF Clauses
<1>2. CASE f # <<>>
  <2> DEFINE ps == p[Len(f)]
  <2>1. ps \in Parts
    BY DEF IsSplit
  <2>2. Clauses(f) = {ToSet(c) : c \in ToSet(Front(ps))}
    BY <1>2, Zenon DEF Clauses
  <2> HIDE DEF ps
  <2>3. ps \in Seq(Seq(Lits)) /\ Len(ps) \in Nat /\ Len(ps) >= 1
    BY <2>1 DEF Parts
  <2>4. DOMAIN Front(ps) = 1 .. Len(ps) - 1 /\ \A j \in 1 .. Len(ps) - 1 : Front(ps)[j] = ps[j]
    BY <2>3 DEF Front
  <2>5. ToSet(Front(ps)) = {ps[j] : j \in 1 .. Len(ps) - 1}
    BY <2>4, Zenon DEF ToSet
  <2>6. {ToSet(c) : c \in {ps[j] : j \in 1 .. Len(ps) - 1}} = {ToSet(ps[j]) : j \in 1 .. Len(ps) - 1}
    BY Zenon
  <2> QED
    BY <2>2, <2>5, <2>6, Zenon DEF Closed, ps
<1> QED
  BY <1>1, <1>2

\* Every clause of a formula ends in a separator.
Terminated(f) == f = <<>> \/ f[Len(f)] = 0

\* What ends in a separator has an empty last part.
LEMMA TerminatedView ==
    ASSUME NEW f \in Seq(Int), NEW p, IsSplit(p, f), Terminated(f)
    PROVE  /\ Current(p[Len(f)]) = {}
           /\ p[Len(f)][Len(p[Len(f)])] = <<>>
<1>1. CASE f = <<>>
  <2>1. p[Len(f)] = <<<<>>>>
    BY <1>1 DEF IsSplit
  <2> QED
    BY <2>1 DEF Current, ToSet
<1>2. CASE f # <<>>
  <2> DEFINE k == Len(f) - 1
  <2>1. k \in 0 .. Len(f) - 1 /\ k \in 0 .. Len(f) /\ k + 1 = Len(f)
    BY <1>2
  <2> HIDE DEF k
  <2>2. p[k] \in Parts /\ f[k + 1] = 0 /\ p[k + 1] = Extended(p[k], f[k + 1])
    <3>1. p[k] \in Parts
      BY <2>1 DEF IsSplit
    <3>2. p[k + 1] = Extended(p[k], f[k + 1])
      BY <2>1, Zenon DEF IsSplit
    <3>3. f[k + 1] = 0
      BY <1>2, <2>1 DEF Terminated
    <3> QED
      BY <3>1, <3>2, <3>3
  <2>3. p[k + 1] = Extended(p[k], 0)
    BY <2>2, Zenon
  <2>4. Current(Extended(p[k], 0)) = {}
    BY <2>2, ExtendedView
  <2>5. Extended(p[k], 0)[Len(Extended(p[k], 0))] = <<>>
    <3> DEFINE ps == p[k]
               qs == Extended(ps, 0)
    <3>1. ps \in Parts
      BY <2>2
    <3> HIDE DEF ps
    <3>2. Len(qs) = Len(ps) + 1 /\ qs[Len(ps) + 1] = <<>>
      BY <3>1, ExtendedIs
    <3> HIDE DEF qs
    <3> QED
      BY <3>2, Zenon DEF qs, ps
  <2> QED
    BY <2>1, <2>3, <2>4, <2>5
<1> QED
  BY <1>1, <1>2

\* The literals of a formula are those of its clauses; the parts have no others.
LEMMA ClausesLiterals ==
    ASSUME NEW f \in Seq(Int), Terminated(f)
    PROVE  UNION Clauses(f) = ToSet(f) \ {0}
<1>1. PICK p : IsSplit(p, f) /\ Split(f) = IF f = <<>> THEN <<>> ELSE p[Len(f)]
  BY SplitLoop
<1> DEFINE n == Len(f)
           All(ps) == (UNION Closed(ps)) \cup Current(ps)
           U == {k \in 0 .. n : All(p[k]) = {f[j] : j \in 1 .. k} \ {0}}
<1>2. n \in Nat /\ \A j \in 1 .. n : f[j] \in Int
  OBVIOUS
<1>3. 0 \in U
  <2>1. p[0] = <<<<>>>>
    BY <1>1 DEF IsSplit
  <2>2. Closed(p[0]) = {} /\ Current(p[0]) = {}
    BY <2>1 DEF Closed, Current, ToSet
  <2>3. {f[j] : j \in 1 .. 0} = {}
    OBVIOUS
  <2> QED
    BY <2>2, <2>3
<1>4. ASSUME NEW k \in 0 .. n - 1, k \in U PROVE k + 1 \in U
  <2>1. k \in 0 .. n /\ k + 1 \in 0 .. n /\ k + 1 \in 1 .. n
    BY <1>2
  <2>2. p[k] \in Parts
    BY <1>1, <2>1 DEF IsSplit
  <2>3. p[k + 1] = Extended(p[k], f[k + 1])
    BY <1>1, Zenon DEF IsSplit
  <2>4. All(p[k]) = {f[j] : j \in 1 .. k} \ {0}
    BY <1>4
  <2>5. f[k + 1] \in Int
    BY <1>2, <2>1
  <2> HIDE DEF U, n
  <2>6. 1 .. k + 1 = (1 .. k) \cup {k + 1}
    BY <2>1
  <2>7. {f[j] : j \in 1 .. k + 1} = {f[j] : j \in 1 .. k} \cup {f[k + 1]}
    BY <2>6, Zenon
  <2>8. All(Extended(p[k], f[k + 1])) = All(p[k]) \cup ({f[k + 1]} \ {0})
    <3> DEFINE qs == Extended(p[k], f[k + 1])
    <3>1. CASE f[k + 1] = 0
      <4>1. Closed(qs) = Closed(p[k]) \cup {Current(p[k])} /\ Current(qs) = {}
        BY <2>2, <2>5, <3>1, ExtendedView
      <4> HIDE DEF qs
      <4> QED
        BY <3>1, <4>1 DEF qs
    <3>2. CASE f[k + 1] # 0
      <4>1. Closed(qs) = Closed(p[k]) /\ Current(qs) = Current(p[k]) \cup {f[k + 1]}
        BY <2>2, <2>5, <3>2, ExtendedView
      <4> HIDE DEF qs
      <4> QED
        BY <3>2, <4>1 DEF qs
    <3> QED
      BY <3>1, <3>2
  <2> HIDE DEF All
  <2>9. All(p[k + 1]) = {f[j] : j \in 1 .. k + 1} \ {0}
    BY <2>3, <2>4, <2>7, <2>8
  <2> QED
    BY <2>1, <2>9, Zenon DEF U
<1> HIDE DEF U
<1>5. n \in U
  <2> HIDE DEF n
  <2>1. \A k \in 0 .. n : k \in U
    BY <1>2, <1>3, <1>4, BoundedInduction, Zenon
  <2> QED
    BY <1>2, <2>1
<1>6. Current(p[n]) = {}
  BY <1>1, TerminatedView
<1>7. Clauses(f) = Closed(p[n])
  BY <1>1, ClausesView
<1>8. All(p[n]) = {f[j] : j \in 1 .. n} \ {0}
  BY <1>5 DEF U
<1>9. ToSet(f) = {f[j] : j \in 1 .. n}
  <2>1. DOMAIN f = 1 .. n
    OBVIOUS
  <2> HIDE DEF n
  <2> QED
    BY <2>1, Zenon DEF ToSet
<1> HIDE DEF n
<1> QED
  BY <1>6, <1>7, <1>8, <1>9

\* Equal beginnings have equal parts.
LEMMA SplitsAgree ==
    ASSUME NEW f \in Seq(Int), NEW g \in Seq(Int), NEW p, NEW q, IsSplit(p, f), IsSplit(q, g),
           Len(f) <= Len(g), \A k \in 1 .. Len(f) : g[k] = f[k]
    PROVE  \A k \in 0 .. Len(f) : q[k] = p[k]
<1> DEFINE n == Len(f)
           U == {k \in 0 .. n : q[k] = p[k]}
<1>1. n \in Nat /\ Len(g) \in Nat /\ n <= Len(g)
  OBVIOUS
<1>2. 0 \in U
  BY <1>1 DEF IsSplit
<1>3. ASSUME NEW k \in 0 .. n - 1, k \in U PROVE k + 1 \in U
  <2>1. k + 1 \in 0 .. n /\ k + 1 \in 1 .. n /\ k \in 0 .. Len(g) - 1
    BY <1>1
  <2>2. p[k + 1] = Extended(p[k], f[k + 1])
    BY Zenon DEF IsSplit
  <2>3. q[k + 1] = Extended(q[k], g[k + 1])
    BY <2>1, Zenon DEF IsSplit
  <2>4. g[k + 1] = f[k + 1]
    BY <2>1
  <2>5. q[k] = p[k]
    BY <1>3
  <2> HIDE DEF n
  <2> QED
    BY <2>1, <2>2, <2>3, <2>4, <2>5, Zenon
<1> HIDE DEF U, n
<1>4. \A k \in 0 .. n : k \in U
  BY <1>1, <1>2, <1>3, BoundedInduction, Zenon
<1> QED
  BY <1>4 DEF U, n

\* add_clause adds a clause.
LEMMA ClauseAdded ==
    ASSUME NEW f \in Seq(Int), Terminated(f), NEW c \in Seq(Lits)
    PROVE  /\ f \o Clause(c) \in Seq(Int) /\ Terminated(f \o Clause(c))
           /\ Clauses(f \o Clause(c)) = Clauses(f) \cup {ToSet(c)}
<1> DEFINE g == f \o Clause(c)
           n == Len(f)
           m == Len(c)
<1>1. n \in Nat /\ m \in Nat /\ c \in Seq(Int)
  BY DEF Lits
<1>2. Clause(c) \in Seq(Int) /\ Len(Clause(c)) = m + 1
  BY <1>1 DEF Clause, Separator
<1>3. /\ g \in Seq(Int) /\ Len(g) = n + (m + 1)
      /\ \A k \in 1 .. n : g[k] = f[k]
      /\ \A k \in 1 .. m + 1 : g[n + k] = Clause(c)[k]
  <2> DEFINE d == Clause(c)
  <2> HIDE DEF d, m
  <2>1. d \in Seq(Int) /\ Len(d) = m + 1
    BY <1>2 DEF d
  <2>2. f \o d \in Seq(Int) /\ Len(f \o d) = n + Len(d)
    <3>1. d \in Seq(Int)
      BY <2>1
    <3> QED
      BY <3>1
  <2>3. \A k \in 1 .. n : (f \o d)[k] = f[k]
    BY <2>1
  <2>4. \A k \in 1 .. Len(d) : (f \o d)[n + k] = d[k]
    BY <2>1
  <2>5. g = f \o d
    BY DEF d
  <2> HIDE DEF n, g
  <2>6. g \in Seq(Int) /\ Len(g) = n + (m + 1)
    BY <2>1, <2>2, <2>5
  <2>7. \A k \in 1 .. n : g[k] = f[k]
    BY <2>3, <2>5
  <2>8. \A k \in 1 .. m + 1 : g[n + k] = d[k]
    BY <2>1, <2>4, <2>5
  <2> QED
    BY <2>6, <2>7, <2>8 DEF d
<1>4. \A k \in 1 .. n : g[k] = f[k]
  BY <1>3
<1>5. \A k \in 1 .. m + 1 : g[n + k] = Clause(c)[k]
  BY <1>3
<1>6. \A k \in 1 .. m : Clause(c)[k] = c[k]
  BY DEF Clause
<1>7. Clause(c)[m + 1] = 0
  BY <1>1 DEF Clause, Separator
<1> HIDE DEF g, n, m
<1>8. \A k \in 1 .. m : g[n + k] = c[k] /\ c[k] \in Lits
  BY <1>1, <1>5, <1>6 DEF m
<1>9. g[n + (m + 1)] = 0
  BY <1>1, <1>5, <1>7
<1>10. PICK p : IsSplit(p, f) /\ Split(f) = IF f = <<>> THEN <<>> ELSE p[Len(f)]
  BY SplitLoop
<1>11. PICK q : IsSplit(q, g) /\ Split(g) = IF g = <<>> THEN <<>> ELSE q[Len(g)]
  BY <1>3, SplitLoop
<1>12. q[n] = p[n]
  <2>1. Len(f) <= Len(g) /\ n \in 0 .. Len(f)
    BY <1>1, <1>3 DEF n
  <2>2. \A k \in 0 .. Len(f) : q[k] = p[k]
    BY <1>3, <1>4, <1>10, <1>11, <2>1, SplitsAgree DEF n
  <2> QED
    BY <2>1, <2>2
<1> DEFINE U == {k \in 0 .. m : Closed(q[n + k]) = Clauses(f) /\ Current(q[n + k]) = {c[j] : j \in 1 .. k}}
<1>13. 0 \in U
  <2>1. Closed(p[n]) = Clauses(f) /\ Current(p[n]) = {}
    BY <1>10, ClausesView, TerminatedView DEF n
  <2>2. n + 0 = n /\ 0 \in 0 .. m
    BY <1>1
  <2>3. {c[j] : j \in 1 .. 0} = {}
    OBVIOUS
  <2> QED
    BY <1>12, <2>1, <2>2, <2>3
<1>14. ASSUME NEW k \in 0 .. m PROVE /\ q[n + k] \in Parts
                                     /\ q[n + (k + 1)] = Extended(q[n + k], g[n + (k + 1)])
  <2> DEFINE h == n + k
  <2>1. h \in 0 .. Len(g) /\ h \in 0 .. Len(g) - 1 /\ h + 1 = n + (k + 1)
    BY <1>1, <1>3
  <2> HIDE DEF h
  <2>2. q[h] \in Parts
    BY <1>11, <2>1 DEF IsSplit
  <2>3. q[h + 1] = Extended(q[h], g[h + 1])
    BY <1>11, <2>1, Zenon DEF IsSplit
  <2> QED
    BY <2>1, <2>2, <2>3 DEF h
<1>15. ASSUME NEW k \in 0 .. m - 1, k \in U PROVE k + 1 \in U
  <2>1. k \in 0 .. m /\ k + 1 \in 1 .. m /\ k + 1 \in 0 .. m
    BY <1>1
  <2>2. q[n + k] \in Parts /\ q[n + (k + 1)] = Extended(q[n + k], c[k + 1])
    BY <1>8, <1>14, <2>1
  <2>3. c[k + 1] \in Int /\ c[k + 1] # 0
    BY <1>8, <2>1 DEF Lits
  <2>4. /\ Closed(q[n + (k + 1)]) = Closed(q[n + k])
        /\ Current(q[n + (k + 1)]) = Current(q[n + k]) \cup {c[k + 1]}
    BY <2>2, <2>3, ExtendedView
  <2>5. Closed(q[n + k]) = Clauses(f) /\ Current(q[n + k]) = {c[j] : j \in 1 .. k}
    BY <1>15
  <2>6. 1 .. k + 1 = (1 .. k) \cup {k + 1}
    BY <2>1
  <2>7. {c[j] : j \in 1 .. k + 1} = {c[j] : j \in 1 .. k} \cup {c[k + 1]}
    BY <2>6, Zenon
  <2> QED
    BY <2>1, <2>4, <2>5, <2>7, Zenon
<1> HIDE DEF U
<1>16. m \in U
  <2>1. \A k \in 0 .. m : k \in U
    BY <1>1, <1>13, <1>15, BoundedInduction, Zenon
  <2> QED
    BY <1>1, <2>1
<1>17. Clauses(g) = Closed(q[n + (m + 1)])
  BY <1>3, <1>11, ClausesView
<1>18. m \in 0 .. m
  BY <1>1
<1>19. Closed(q[n + (m + 1)]) = Closed(q[n + m]) \cup {Current(q[n + m])}
  BY <1>9, <1>14, <1>18, ExtendedView
<1>20. {c[j] : j \in 1 .. m} = ToSet(c)
  <2>1. DOMAIN c = 1 .. m
    BY DEF m
  <2> QED
    BY <2>1, Zenon DEF ToSet
<1>21. Terminated(g)
  BY <1>3, <1>9 DEF Terminated
<1> QED
  BY <1>3, <1>16, <1>17, <1>19, <1>20, <1>21 DEF U, g

\* The clauses of a formula of one clause.
LEMMA OneClause ==
    ASSUME NEW c \in Seq(Lits)
    PROVE  Clauses(Clause(c)) = {ToSet(c)} /\ Clause(c) \in Seq(Int) /\ Terminated(Clause(c))
<1>1. <<>> \in Seq(Int) /\ Terminated(<<>>) /\ Clauses(<<>>) = {}
  BY DEF Terminated, Clauses
<1>2. Clause(c) \in Seq(Int)
  BY DEF Clause, Lits, Separator
<1>3. <<>> \o Clause(c) = Clause(c)
  BY <1>2
<1>4. /\ <<>> \o Clause(c) \in Seq(Int) /\ Terminated(<<>> \o Clause(c))
      /\ Clauses(<<>> \o Clause(c)) = Clauses(<<>>) \cup {ToSet(c)}
  BY <1>1, ClauseAdded
<1> QED
  BY <1>1, <1>3, <1>4

\* The clauses of a formula of several.
LEMMA FormulaClauses ==
    ASSUME NEW cs \in Seq(Seq(Lits))
    PROVE  Clauses(Formula(cs)) = {ToSet(cs[k]) : k \in 1 .. Len(cs)}
<1> DEFINE n == Len(cs)
           ss == [k \in DOMAIN cs |-> Clause(cs[k])]
<1>1. n \in Nat /\ DOMAIN cs = 1 .. n /\ \A k \in 1 .. n : cs[k] \in Seq(Lits)
  OBVIOUS
<1>2. \A k \in 1 .. n : Clause(cs[k]) \in Seq(Int)
  BY <1>1, OneClause
<1>3. ss \in Seq(Seq(Int)) /\ Len(ss) = n /\ \A k \in 1 .. n : ss[k] = Clause(cs[k])
  <2> HIDE DEF n
  <2> QED
    BY <1>1, <1>2
<1>4. Formula(cs) = FlattenSeq(ss)
  BY DEF Formula
<1> HIDE DEF ss, n
<1>5. PICK h \in [0 .. n -> Seq(Int)] : IsConcatenation(h, ss) /\ FlattenSeq(ss) = h[n]
  BY <1>3, FlattenLoop
<1> DEFINE U == {m \in 0 .. n : Terminated(h[m]) /\ Clauses(h[m]) = {ToSet(cs[k]) : k \in 1 .. m}}
<1>6. 0 \in U
  <2>1. h[0] = <<>> /\ 0 \in 0 .. n
    BY <1>1, <1>5 DEF IsConcatenation
  <2>2. {ToSet(cs[k]) : k \in 1 .. 0} = {}
    OBVIOUS
  <2> QED
    BY <2>1, <2>2 DEF Terminated, Clauses
<1>7. ASSUME NEW m \in 0 .. n - 1, m \in U PROVE m + 1 \in U
  <2>1. m \in 0 .. n /\ m + 1 \in 0 .. n /\ m + 1 \in 1 .. n
    BY <1>1
  <2>2. h[m + 1] = h[m] \o ss[m + 1]
    BY <1>3, <1>5, Zenon DEF IsConcatenation
  <2>3. h[m] \in Seq(Int) /\ cs[m + 1] \in Seq(Lits) /\ ss[m + 1] = Clause(cs[m + 1])
    BY <1>1, <1>3, <1>5, <2>1
  <2>4. Terminated(h[m]) /\ Clauses(h[m]) = {ToSet(cs[k]) : k \in 1 .. m}
    BY <1>7
  <2>5. /\ Terminated(h[m + 1])
        /\ Clauses(h[m + 1]) = Clauses(h[m]) \cup {ToSet(cs[m + 1])}
    <3> DEFINE g == h[m]
               c == cs[m + 1]
    <3>1. g \in Seq(Int) /\ Terminated(g) /\ c \in Seq(Lits) /\ h[m + 1] = g \o Clause(c)
      BY <2>2, <2>3, <2>4
    <3> HIDE DEF g, c
    <3>2. Terminated(h[m + 1]) /\ Clauses(h[m + 1]) = Clauses(g) \cup {ToSet(c)}
      BY <3>1, ClauseAdded
    <3> QED
      BY <3>2 DEF g, c
  <2>6. 1 .. m + 1 = (1 .. m) \cup {m + 1}
    BY <2>1
  <2>7. {ToSet(cs[k]) : k \in 1 .. m + 1} = {ToSet(cs[k]) : k \in 1 .. m} \cup {ToSet(cs[m + 1])}
    BY <2>6, Zenon
  <2> QED
    BY <2>1, <2>4, <2>5, <2>7, Zenon
<1> HIDE DEF U
<1>8. n \in U
  <2>1. \A k \in 0 .. n : k \in U
    BY <1>1, <1>6, <1>7, BoundedInduction, Zenon
  <2> QED
    BY <1>1, <2>1
<1> QED
  BY <1>4, <1>5, <1>8, Zenon DEF U, n

\* The negation of a cube of literals over vs, and of it under an activator.
Negated(c) == {-l : l \in ToSet(c)}

\* cube::negate makes the one clause of the negated literals.
LEMMA NegateClauses ==
    ASSUME NEW c \in Seq(Lits)
    PROVE  /\ NegateAll(c) \in Seq(Lits) /\ Len(NegateAll(c)) = Len(c)
           /\ ToSet(NegateAll(c)) = Negated(c)
           /\ Clauses(Negate(c)) = {Negated(c)}
<1>1. DOMAIN c = 1 .. Len(c) /\ Len(c) \in Nat /\ \A k \in 1 .. Len(c) : c[k] \in Lits
  OBVIOUS
<1>2. \A k \in 1 .. Len(c) : -c[k] \in Lits
  BY <1>1 DEF Lits
<1>3. NegateAll(c) \in Seq(Lits) /\ Len(NegateAll(c)) = Len(c) /\ DOMAIN NegateAll(c) = 1 .. Len(c)
  BY <1>1, <1>2 DEF NegateAll
<1>4. ToSet(NegateAll(c)) = Negated(c)
  BY <1>1, Zenon DEF NegateAll, Negated, ToSet
<1>5. Clauses(Negate(c)) = {ToSet(NegateAll(c))}
  BY <1>3, OneClause DEF Negate
<1> QED
  BY <1>3, <1>4, <1>5

\* cnf_formula::activate adds the negated activator to it.
LEMMA ActivateClauses ==
    ASSUME NEW c \in Seq(Lits), NEW a \in Nat \ {0}
    PROVE  Clauses(Activate(Negate(c), a)) = {Negated(c) \cup {-a}}
<1> DEFINE n == Len(c)
           f == Negate(c)
           ss == [k \in DOMAIN f |-> IF f[k] = Separator THEN <<-a, Separator>> ELSE <<f[k]>>]
           d == Append(NegateAll(c), -a)
<1>1. n \in Nat /\ NegateAll(c) \in Seq(Lits) /\ Len(NegateAll(c)) = n /\ ToSet(NegateAll(c)) = Negated(c)
  BY NegateClauses
<1>2. f = Append(NegateAll(c), 0)
  BY DEF Negate, Clause, Separator
<1>3. f \in Seq(Int) /\ Len(f) = n + 1 /\ DOMAIN f = 1 .. n + 1
  BY <1>1, <1>2 DEF Lits
<1>4. (\A k \in 1 .. n : f[k] = NegateAll(c)[k] /\ f[k] \in Lits) /\ f[n + 1] = 0
  BY <1>1, <1>2
<1> HIDE DEF f, n
<1>5. \A k \in 1 .. n : ss[k] = <<NegateAll(c)[k]>>
  BY <1>1, <1>3, <1>4 DEF Separator, Lits
<1>6. ss[n + 1] = <<-a, 0>>
  BY <1>1, <1>3, <1>4 DEF Separator
<1>7. ss \in Seq(Seq(Int)) /\ Len(ss) = n + 1
  BY <1>1, <1>3 DEF Separator
<1>8. Activate(f, a) = FlattenSeq(ss)
  BY DEF Activate
<1> HIDE DEF ss
<1>9. PICK h \in [0 .. n + 1 -> Seq(Int)] : IsConcatenation(h, ss) /\ FlattenSeq(ss) = h[n + 1]
  BY <1>7, FlattenLoop
<1> DEFINE U == {m \in 0 .. n : h[m] = SubSeq(NegateAll(c), 1, m)}
<1>10. 0 \in U
  BY <1>1, <1>9 DEF IsConcatenation
<1>11. ASSUME NEW m \in 0 .. n - 1, m \in U PROVE m + 1 \in U
  <2>1. m \in 0 .. n /\ m + 1 \in 0 .. n /\ m + 1 \in 1 .. n /\ m \in 0 .. (n + 1) - 1
    BY <1>1
  <2>2. h[m + 1] = h[m] \o ss[m + 1]
    BY <1>7, <1>9, <2>1, Zenon DEF IsConcatenation
  <2>3. h[m] = SubSeq(NegateAll(c), 1, m) /\ ss[m + 1] = <<NegateAll(c)[m + 1]>>
    BY <1>5, <1>11, <2>1
  <2>4. SubSeq(NegateAll(c), 1, m) \o <<NegateAll(c)[m + 1]>> = SubSeq(NegateAll(c), 1, m + 1)
    <3> DEFINE s == NegateAll(c)
    <3>1. s \in Seq(Lits) /\ Len(s) = n
      BY <1>1
    <3> HIDE DEF s
    <3> QED
      BY <1>1, <2>1, <3>1
  <2> QED
    BY <2>1, <2>2, <2>3, <2>4, Zenon
<1> HIDE DEF U
<1>12. h[n] = NegateAll(c)
  <2>1. \A k \in 0 .. n : k \in U
    BY <1>1, <1>10, <1>11, BoundedInduction, Zenon
  <2>2. n \in 0 .. n
    BY <1>1
  <2>3. h[n] = SubSeq(NegateAll(c), 1, n)
    BY <2>1, <2>2 DEF U
  <2>4. SubSeq(NegateAll(c), 1, n) = NegateAll(c)
    <3> DEFINE s == NegateAll(c)
    <3>1. s \in Seq(Lits) /\ Len(s) = n
      BY <1>1
    <3> HIDE DEF s
    <3> QED
      BY <1>1, <3>1
  <2> QED
    BY <2>3, <2>4
<1>13. h[n + 1] = NegateAll(c) \o <<-a, 0>>
  <2>1. n \in 0 .. (n + 1) - 1
    BY <1>1
  <2> QED
    BY <1>6, <1>7, <1>9, <1>12, <2>1, Zenon DEF IsConcatenation
<1>14. NegateAll(c) \o <<-a, 0>> = Clause(d)
  <2> DEFINE s == NegateAll(c)
  <2>1. s \in Seq(Lits)
    BY <1>1
  <2> HIDE DEF s
  <2>2. s \o <<-a, 0>> = Append(Append(s, -a), 0)
    BY <2>1 DEF Lits
  <2> QED
    BY <2>2 DEF s, Clause, Separator
<1>15. d \in Seq(Lits) /\ ToSet(d) = Negated(c) \cup {-a}
  <2> DEFINE s == NegateAll(c)
  <2>1. s \in Seq(Lits) /\ <<-a>> \in Seq(Lits) /\ -a \in Lits
    BY <1>1 DEF Lits
  <2> HIDE DEF s
  <2>2. Append(s, -a) = s \o <<-a>> /\ Append(s, -a) \in Seq(Lits)
    BY <2>1
  <2>3. ToSet(s \o <<-a>>) = ToSet(s) \cup ToSet(<<-a>>)
    BY <2>1, ConcatElements
  <2>4. ToSet(<<-a>>) = {-a}
    BY DEF ToSet
  <2> QED
    BY <1>1, <2>2, <2>3, <2>4 DEF s
<1> HIDE DEF d
<1>16. Clauses(Clause(d)) = {ToSet(d)}
  BY <1>15, OneClause
<1> QED
  BY <1>8, <1>9, <1>13, <1>14, <1>15, <1>16 DEF f

-----------------------------------------------------------------------------
(* The solver.                                                             *)

Satisfies(v, cs) == \A c \in cs : \E l \in c : IsTrue(v, l)

\* The clauses are over the variables 1 .. n.
Over(cs, n) == \A c \in cs : c \subseteq Literals(1 .. n)

\* A literal is not zero, and its variable is that of one of the two literals.
LEMMA LiteralIs ==
    ASSUME NEW vs \in SUBSET (Nat \ {0}), NEW l \in Literals(vs)
    PROVE  l \in Lits /\ Id(l) \in vs /\ (l = Id(l) \/ l = -Id(l)) /\ -l \in Literals(vs)
<1>1. CASE l \in vs
  BY <1>1 DEF Lits, Id, Literals
<1>2. CASE l \notin vs
  <2>1. PICK x \in vs : l = -x
    BY <1>2 DEF Literals
  <2> QED
    BY <2>1 DEF Lits, Id, Literals
<1> QED
  BY <1>1, <1>2

\* No clause is false in the valuation v of the first variables.
IsOpen(cs, v) == \A c \in cs : \E l \in c : Id(l) > Len(v) \/ IsTrue(v, l)

Longer(vs) == {Append(v, b) : v \in vs, b \in BOOLEAN}

OpenAt(cs, k) == {v \in [1 .. k -> BOOLEAN] : IsOpen(cs, v)}

\* The valuations of one variable more that leave all clauses open are found among
\* the extensions of those that do.
LEMMA OpenGrows ==
    ASSUME NEW k \in Nat, NEW cs, \A c \in cs : \A l \in c : Id(l) \in Nat \ {0}
    PROVE  {v \in Longer(OpenAt(cs, k)) : IsOpen(cs, v)} = OpenAt(cs, k + 1)
<1>1. ASSUME NEW u \in [1 .. k -> BOOLEAN], NEW b \in BOOLEAN
      PROVE  /\ Append(u, b) \in [1 .. k + 1 -> BOOLEAN]
             /\ Append(u, b)[k + 1] = b
             /\ \A x \in 1 .. k : Append(u, b)[x] = u[x]
  <2>1. u \in Seq(BOOLEAN) /\ Len(u) = k
    OBVIOUS
  <2>2. Append(u, b) \in Seq(BOOLEAN) /\ Len(Append(u, b)) = k + 1
    BY <2>1
  <2>3. Append(u, b)[k + 1] = b /\ \A x \in 1 .. k : Append(u, b)[x] = u[x]
    BY <2>1
  <2> DEFINE w == Append(u, b)
  <2> HIDE DEF w
  <2>4. w \in [1 .. k + 1 -> BOOLEAN]
    BY <2>2, SequenceIsFunction, Zenon DEF w
  <2> QED
    BY <2>3, <2>4 DEF w
<1>2. ASSUME NEW v \in [1 .. k + 1 -> BOOLEAN], IsOpen(cs, v) PROVE v \in Longer(OpenAt(cs, k))
  <2> DEFINE u == [x \in 1 .. k |-> v[x]]
             b == v[k + 1]
  <2>1. u \in [1 .. k -> BOOLEAN] /\ b \in BOOLEAN
    OBVIOUS
  <2>2. v = Append(u, b)
    <3>1. Append(u, b) \in [1 .. k + 1 -> BOOLEAN]
      BY <1>1, <2>1
    <3>2. \A x \in 1 .. k : u[x] = v[x]
      OBVIOUS
    <3> HIDE DEF u
    <3> DEFINE w == Append(u, b)
    <3>3. w[k + 1] = b /\ \A x \in 1 .. k : w[x] = u[x]
      BY <1>1, <2>1
    <3>4. w \in [1 .. k + 1 -> BOOLEAN]
      BY <3>1
    <3> HIDE DEF w
    <3>5. \A x \in 1 .. k + 1 : w[x] = v[x]
      BY <3>2, <3>3
    <3>6. w = v
      BY <3>4, <3>5
    <3> QED
      BY <3>6 DEF w
  <2>3. Len(u) = k /\ Len(v) = k + 1
    OBVIOUS
  <2>4. \A x \in 1 .. k : u[x] = v[x]
    OBVIOUS
  <2> HIDE DEF u, b
  <2>5. ASSUME NEW c \in cs PROVE \E l \in c : Id(l) > Len(u) \/ IsTrue(u, l)
    <3>1. PICK l \in c : Id(l) > Len(v) \/ IsTrue(v, l)
      BY <1>2 DEF IsOpen
    <3>2. Id(l) \in Nat \ {0}
      OBVIOUS
    <3>3. CASE Id(l) > k
      BY <2>3, <3>3
    <3>4. CASE Id(l) <= k
      <4>1. Id(l) \in 1 .. k /\ ~(Id(l) > k + 1)
        BY <3>2, <3>4
      <4>2. IsTrue(v, l)
        BY <2>3, <3>1, <4>1
      <4>3. IsTrue(u, l)
        BY <2>4, <4>1, <4>2 DEF IsTrue
      <4> QED
        BY <4>3
    <3> QED
      BY <3>2, <3>3, <3>4
  <2>6. u \in OpenAt(cs, k)
    BY <2>1, <2>5 DEF OpenAt, IsOpen
  <2> QED
    BY <2>1, <2>2, <2>6 DEF Longer
<1>3. ASSUME NEW v \in Longer(OpenAt(cs, k)) PROVE v \in [1 .. k + 1 -> BOOLEAN]
  <2>1. PICK u \in OpenAt(cs, k), b \in BOOLEAN : v = Append(u, b)
    BY DEF Longer
  <2>2. u \in [1 .. k -> BOOLEAN]
    BY DEF OpenAt
  <2> QED
    BY <1>1, <2>1, <2>2
<1>4. ASSUME NEW v \in Longer(OpenAt(cs, k)), IsOpen(cs, v) PROVE v \in OpenAt(cs, k + 1)
  BY <1>3, <1>4, Zenon DEF OpenAt
<1>5. ASSUME NEW v \in OpenAt(cs, k + 1) PROVE v \in Longer(OpenAt(cs, k)) /\ IsOpen(cs, v)
  <2>1. v \in [1 .. k + 1 -> BOOLEAN] /\ IsOpen(cs, v)
    BY Zenon DEF OpenAt
  <2> QED
    BY <1>2, <2>1
<1> QED
  BY <1>4, <1>5, Zenon

\* The solver is right: it finds a valuation if and only if there is one.
LEMMA SolverIsRight ==
    ASSUME NEW n \in Nat, NEW cs, Over(cs, n)
    PROVE  IsSatisfiable(cs, n) <=> \E v \in [1 .. n -> BOOLEAN] : Satisfies(v, cs)
<1>1. \A c \in cs : \A l \in c : Id(l) \in 1 .. n
  <2>1. ASSUME NEW c \in cs, NEW l \in c PROVE Id(l) \in 1 .. n
    <3>1. l \in Literals(1 .. n) /\ 1 .. n \in SUBSET (Nat \ {0})
      BY DEF Over
    <3> QED
      BY <3>1, LiteralIs
  <2> QED
    BY <2>1
<1> DEFINE e(g, k) == {v \in IF k = 0 THEN {<<>>} ELSE Longer(g[k - 1]) : IsOpen(cs, v)}
           IsRun(g) == g = [k \in 0 .. n |-> e(g, k)]
           G == [k \in 0 .. n |-> OpenAt(cs, k)]
           partial[k \in 0 .. n] == e(partial, k)
<1>2. \A k \in 0 .. n : k + 1 \in 0 .. n => OpenAt(cs, k + 1) = {v \in Longer(OpenAt(cs, k)) : IsOpen(cs, v)}
  <2>1. \A c \in cs : \A l \in c : Id(l) \in Nat \ {0}
    BY <1>1
  <2> QED
    BY <2>1, OpenGrows
<1>3. OpenAt(cs, 0) = {v \in {<<>>} : IsOpen(cs, v)}
  <2>1. [1 .. 0 -> BOOLEAN] = {<<>>}
    <3>1. <<>> \in [1 .. 0 -> BOOLEAN]
      OBVIOUS
    <3>2. ASSUME NEW v \in [1 .. 0 -> BOOLEAN] PROVE v = <<>>
      <4>1. v \in Seq(BOOLEAN) /\ Len(v) = 0
        OBVIOUS
      <4> QED
        BY <4>1
    <3> QED
      BY <3>1, <3>2
  <2> QED
    BY <2>1, Zenon DEF OpenAt
<1>4. ASSUME NEW k \in 0 .. n PROVE OpenAt(cs, k) = e(G, k)
  <2>1. CASE k = 0
    BY <1>3, <2>1, Zenon
  <2>2. CASE k # 0
    <3> DEFINE j == k - 1
    <3>1. j \in 0 .. n /\ j + 1 \in 0 .. n /\ j + 1 = k
      BY <2>2
    <3>2. G[j] = OpenAt(cs, j)
      BY <3>1, Zenon
    <3>3. OpenAt(cs, j + 1) = {v \in Longer(OpenAt(cs, j)) : IsOpen(cs, v)}
      BY <1>2, <3>1, Zenon
    <3>4. e(G, k) = {v \in Longer(G[j]) : IsOpen(cs, v)}
      BY <2>2, Zenon
    <3> HIDE DEF e, G, j
    <3> QED
      BY <3>1, <3>2, <3>3, <3>4, Zenon
  <2> QED
    BY <2>1, <2>2
<1>5. IsRun(G)
  <2> HIDE DEF e
  <2> QED
    BY <1>4, Zenon
<1>6. IsRun(partial)
  <2> HIDE DEF e, G
  <2> QED
    BY <1>5, Zenon
<1>7. IsSatisfiable(cs, n) <=> partial[n] # {}
  BY DEF IsSatisfiable, IsOpen, Longer
<1> HIDE DEF partial
<1>8. \A k \in 0 .. n : partial[k] = e(partial, k)
  <2> HIDE DEF e
  <2> QED
    BY <1>6
<1> DEFINE U == {k \in 0 .. n : partial[k] = OpenAt(cs, k)}
<1>9. 0 \in U
  <2>1. 0 \in 0 .. n
    OBVIOUS
  <2>2. partial[0] = {v \in {<<>>} : IsOpen(cs, v)}
    BY <1>8, <2>1, Zenon
  <2> QED
    BY <1>3, <2>1, <2>2, Zenon
<1>10. ASSUME NEW k \in 0 .. n - 1, k \in U PROVE k + 1 \in U
  <2> DEFINE j == k + 1
  <2>1. j \in 0 .. n /\ j # 0 /\ j - 1 = k /\ k \in 0 .. n
    OBVIOUS
  <2> HIDE DEF j
  <2>2. partial[j] = {v \in Longer(partial[k]) : IsOpen(cs, v)}
    BY <1>8, <2>1, Zenon
  <2>3. partial[k] = OpenAt(cs, k)
    BY <1>10, Zenon
  <2>4. OpenAt(cs, j) = {v \in Longer(OpenAt(cs, k)) : IsOpen(cs, v)}
    BY <1>2, <2>1, Zenon DEF j
  <2> QED
    BY <2>1, <2>2, <2>3, <2>4, Zenon DEF j
<1> HIDE DEF U
<1>11. \A k \in 0 .. n : k \in U
  BY <1>9, <1>10, BoundedInduction, Zenon
<1>12. partial[n] = OpenAt(cs, n)
  BY <1>11 DEF U
<1>13. ASSUME NEW v \in [1 .. n -> BOOLEAN] PROVE IsOpen(cs, v) <=> Satisfies(v, cs)
  <2>1. Len(v) = n
    OBVIOUS
  <2>2. \A c \in cs : \A l \in c : ~(Id(l) > Len(v))
    BY <1>1, <2>1
  <2> QED
    BY <2>2, Zenon DEF IsOpen, Satisfies
<1>14. OpenAt(cs, n) # {} <=> \E v \in [1 .. n -> BOOLEAN] : Satisfies(v, cs)
  BY <1>13, Zenon DEF OpenAt
<1> QED
  BY <1>7, <1>12, <1>14

-----------------------------------------------------------------------------
(* The constructor of cube.                                                *)

\* The order of literals is total and transitive.
LEMMA LiteralOrder ==
    ASSUME NEW a \in Int, NEW b \in Int, NEW c \in Int
    PROVE  /\ CubeLiteralLt(a, b) => ~CubeLiteralLt(b, a)
           /\ CubeLiteralLt(a, b) /\ ~CubeLiteralLt(c, b) => ~CubeLiteralLt(c, a)
BY DEF CubeLiteralLt, Id

IsSorting(p, lits, n) ==
    /\ p \in [1 .. n -> 1 .. n]
    /\ \A x \in 1 .. n : \E j \in 1 .. n : p[j] = x
    /\ \A j, k \in 1 .. n : j < k => ~CubeLiteralLt(lits[p[k]], lits[p[j]])

\* The first n + 1 literals can be sorted if the first n can, by inserting one.
LEMMA SortingGrows ==
    ASSUME NEW n \in Nat, NEW lits, \A k \in 1 .. n + 1 : lits[k] \in Int, NEW p, IsSorting(p, lits, n)
    PROVE  \E q : IsSorting(q, lits, n + 1)
<1> DEFINE x == lits[n + 1]
           Q == {j \in 1 .. n + 1 : j = n + 1 \/ CubeLiteralLt(x, lits[p[j]])}
<1>1. /\ p \in [1 .. n -> 1 .. n]
      /\ \A y \in 1 .. n : \E j \in 1 .. n : p[j] = y
      /\ \A j, k \in 1 .. n : j < k => ~CubeLiteralLt(lits[p[k]], lits[p[j]])
  BY DEF IsSorting
<1>2. x \in Int /\ \A j \in 1 .. n : lits[p[j]] \in Int
  <2>1. n + 1 \in 1 .. n + 1 /\ 1 .. n \subseteq 1 .. n + 1
    OBVIOUS
  <2>2. ASSUME NEW j \in 1 .. n PROVE lits[p[j]] \in Int
    <3>1. p[j] \in 1 .. n + 1
      BY <1>1, <2>1, Zenon
    <3> QED
      BY <3>1, Zenon
  <2> QED
    BY <2>1, <2>2, Zenon
<1>3. PICK r \in Q : \A j \in Q : r <= j
  <2>1. Q \in SUBSET Nat /\ n + 1 \in Q
    OBVIOUS
  <2> HIDE DEF Q
  <2> QED
    BY <2>1, LeastNumber
<1>4. r \in 1 .. n + 1 /\ (r # n + 1 => CubeLiteralLt(x, lits[p[r]]))
  OBVIOUS
<1>5. ASSUME NEW j \in 1 .. n, j < r PROVE ~CubeLiteralLt(x, lits[p[j]])
  BY <1>3, <1>5
<1> HIDE DEF Q
<1> DEFINE q == [j \in 1 .. n + 1 |-> IF j < r THEN p[j] ELSE IF j = r THEN n + 1 ELSE p[j - 1]]
<1>6. /\ \A j \in 1 .. n + 1 : j < r => j \in 1 .. n /\ q[j] = p[j]
      /\ q[r] = n + 1
      /\ \A j \in 1 .. n + 1 : j > r => j - 1 \in 1 .. n /\ q[j] = p[j - 1]
  BY <1>4
<1>7. q \in [1 .. n + 1 -> 1 .. n + 1]
  <2>1. ASSUME NEW j \in 1 .. n + 1 PROVE q[j] \in 1 .. n + 1
    <3>1. \A h \in 1 .. n : p[h] \in 1 .. n + 1
      <4>1. ASSUME NEW h \in 1 .. n PROVE p[h] \in 1 .. n + 1
        <5>1. p[h] \in 1 .. n
          BY <1>1, Zenon
        <5> QED
          BY <5>1
      <4> QED
        BY <4>1
    <3>2. n + 1 \in 1 .. n + 1
      OBVIOUS
    <3> HIDE DEF q
    <3>3. CASE j < r
      BY <1>6, <3>1, <3>3, Zenon
    <3>4. CASE j = r
      BY <1>6, <3>2, <3>4, Zenon
    <3>5. CASE j > r
      BY <1>6, <3>1, <3>5, Zenon
    <3> QED
      BY <1>4, <3>3, <3>4, <3>5
  <2> HIDE DEF Q
  <2>2. q = [j \in 1 .. n + 1 |-> q[j]]
    BY Zenon
  <2> HIDE DEF q
  <2> QED
    BY <2>1, <2>2, Zenon
<1> HIDE DEF q
<1>8. ASSUME NEW y \in 1 .. n + 1 PROVE \E j \in 1 .. n + 1 : q[j] = y
  <2>1. CASE y = n + 1
    BY <1>4, <1>6, <2>1
  <2>2. CASE y # n + 1
    <3>1. PICK j \in 1 .. n : p[j] = y
      BY <1>1, <2>2
    <3>2. CASE j < r
      BY <1>6, <3>1, <3>2
    <3>3. CASE ~(j < r)
      <4> DEFINE k == j + 1
      <4>1. k \in 1 .. n + 1 /\ k > r /\ k - 1 = j
        BY <1>4, <3>3
      <4> HIDE DEF k
      <4>2. q[k] = p[j]
        BY <1>6, <4>1
      <4> QED
        BY <3>1, <4>1, <4>2
    <3> QED
      BY <3>2, <3>3
  <2> QED
    BY <2>1, <2>2
<1>9. ASSUME NEW j \in 1 .. n + 1, NEW k \in 1 .. n + 1, j < k
      PROVE  ~CubeLiteralLt(lits[q[k]], lits[q[j]])
  <2>1. CASE k < r
    <3>1. j \in 1 .. n /\ k \in 1 .. n /\ q[j] = p[j] /\ q[k] = p[k]
      BY <1>4, <1>6, <1>9, <2>1
    <3> QED
      BY <1>1, <1>9, <3>1
  <2>2. CASE k = r
    <3>1. j \in 1 .. n /\ j < r /\ q[j] = p[j] /\ q[k] = n + 1
      BY <1>4, <1>6, <1>9, <2>2
    <3> QED
      BY <1>5, <3>1
  <2>3. CASE k > r
    <3> DEFINE m == k - 1
    <3>1. m \in 1 .. n /\ q[k] = p[m] /\ r <= m
      BY <1>4, <1>6, <2>3
    <3>2. CASE j < r
      <4>1. j \in 1 .. n /\ j < m /\ q[j] = p[j]
        BY <1>4, <1>6, <2>3, <3>2
      <4> HIDE DEF m
      <4> QED
        BY <1>1, <3>1, <4>1
    <3>3. CASE j = r
      <4>1. q[j] = n + 1 /\ r \in 1 .. n /\ CubeLiteralLt(x, lits[p[r]])
        BY <1>4, <1>6, <3>1, <3>3
      <4>2. ~CubeLiteralLt(lits[p[m]], lits[p[r]])
        <5>1. CASE m = r
          <6>1. lits[p[r]] \in Int
            BY <1>2, <4>1
          <6>2. ~CubeLiteralLt(lits[p[r]], lits[p[r]])
            BY <6>1, LiteralOrder
          <6> HIDE DEF m
          <6> QED
            BY <5>1, <6>2
        <5>2. CASE m # r
          <6>1. r < m
            BY <1>4, <3>1, <5>2
          <6> HIDE DEF m
          <6> QED
            BY <1>1, <3>1, <4>1, <6>1
        <5> QED
          BY <5>1, <5>2
      <4> HIDE DEF m, x
      <4>3. ~CubeLiteralLt(lits[p[m]], x)
        BY <1>2, <3>1, <4>1, <4>2, LiteralOrder
      <4> QED
        BY <3>1, <4>1, <4>3 DEF x
    <3>4. CASE j > r
      <4> DEFINE h == j - 1
      <4>1. h \in 1 .. n /\ h < m /\ q[j] = p[h]
        BY <1>4, <1>6, <1>9, <3>4
      <4> HIDE DEF m, h
      <4> QED
        BY <1>1, <3>1, <4>1
    <3> QED
      BY <1>4, <3>2, <3>3, <3>4
  <2> QED
    BY <1>4, <2>1, <2>2, <2>3
<1>10. IsSorting(q, lits, n + 1)
  BY <1>7, <1>8, <1>9 DEF IsSorting
<1> QED
  BY <1>10

\* The constructor of cube keeps the literals.
LEMMA CubeLiterals ==
    ASSUME NEW lits \in Seq(Lits)
    PROVE  Cube(lits) \in Seq(Lits) /\ ToSet(Cube(lits)) = ToSet(lits)
<1> DEFINE n == Len(lits)
           U == {m \in 0 .. n : \E p : IsSorting(p, lits, m)}
<1>1. n \in Nat /\ DOMAIN lits = 1 .. n /\ \A k \in 1 .. n : lits[k] \in Lits /\ lits[k] \in Int
  BY DEF Lits
<1> HIDE DEF n
<1>2. 0 \in U
  <2>1. IsSorting(<<>>, lits, 0)
    BY DEF IsSorting
  <2> QED
    BY <1>1, <2>1
<1>3. ASSUME NEW m \in 0 .. n - 1, m \in U PROVE m + 1 \in U
  <2>1. m \in Nat /\ m + 1 \in 0 .. n /\ \A k \in 1 .. m + 1 : lits[k] \in Int
    BY <1>1
  <2>2. PICK p : IsSorting(p, lits, m)
    BY <1>3
  <2>3. \E q : IsSorting(q, lits, m + 1)
    BY <2>1, <2>2, SortingGrows
  <2> QED
    BY <2>1, <2>3
<1> HIDE DEF U
<1>4. \A m \in 0 .. n : m \in U
  BY <1>1, <1>2, <1>3, BoundedInduction, Zenon
<1>5. PICK p : IsSorting(p, lits, n)
  BY <1>1, <1>4 DEF U
<1> DEFINE D == DOMAIN lits
           isOrder(o) == \A j, k \in D : j < k => ~CubeLiteralLt(lits[o[k]], lits[o[j]])
           order == CHOOSE o \in Surjection(D, D) : isOrder(o)
<1>6. p \in Surjection(D, D) /\ isOrder(p)
  BY <1>1, <1>5, Zenon DEF IsSorting, Surjection
<1> HIDE DEF isOrder
<1>7. order \in Surjection(D, D)
  BY <1>6, Zenon
<1>8. Cube(lits) = [k \in D |-> lits[order[k]]]
  BY Zenon DEF Cube, isOrder
<1> HIDE DEF order
<1>9. order \in [1 .. n -> 1 .. n] /\ \A x \in 1 .. n : \E j \in 1 .. n : order[j] = x
  BY <1>1, <1>7, Zenon DEF Surjection
<1>10. Cube(lits) \in Seq(Lits) /\ DOMAIN Cube(lits) = 1 .. n /\ \A k \in 1 .. n : Cube(lits)[k] = lits[order[k]]
  BY <1>1, <1>8, <1>9
<1>11. ToSet(Cube(lits)) = ToSet(lits)
  <2>1. ASSUME NEW y \in ToSet(Cube(lits)) PROVE y \in ToSet(lits)
    BY <1>1, <1>9, <1>10 DEF ToSet
  <2>2. ASSUME NEW y \in ToSet(lits) PROVE y \in ToSet(Cube(lits))
    <3>1. PICK k \in 1 .. n : y = lits[k]
      BY <1>1 DEF ToSet
    <3>2. PICK j \in 1 .. n : order[j] = k
      BY <1>9
    <3>3. Cube(lits)[j] = y
      BY <1>10, <3>1, <3>2
    <3> QED
      BY <1>10, <3>3 DEF ToSet
  <2> QED
    BY <2>1, <2>2
<1> QED
  BY <1>10, <1>11

\* formula_as_cube has the literals of the formula.
LEMMA FormulaAsCubeLiterals ==
    ASSUME NEW f \in Seq(Int)
    PROVE  FormulaAsCube(f) \in Seq(Lits) /\ ToSet(FormulaAsCube(f)) = ToSet(f) \ {0}
<1> DEFINE n == Len(f)
           ss == [k \in DOMAIN f |-> IF f[k] = Separator THEN <<>> ELSE <<f[k]>>]
<1>1. n \in Nat /\ DOMAIN f = 1 .. n /\ \A k \in 1 .. n : f[k] \in Int
  OBVIOUS
<1> HIDE DEF n
<1>2. \A k \in 1 .. n : ss[k] \in Seq(Lits) /\ ToSet(ss[k]) = {f[k]} \ {0}
  <2>1. ASSUME NEW k \in 1 .. n PROVE ss[k] \in Seq(Lits) /\ ToSet(ss[k]) = {f[k]} \ {0}
    <3>1. CASE f[k] = 0
      <4>1. ss[k] = <<>>
        BY <1>1, <3>1 DEF Separator
      <4>2. <<>> \in Seq(Lits) /\ ToSet(<<>>) = {}
        BY DEF ToSet
      <4> HIDE DEF ss
      <4> QED
        BY <3>1, <4>1, <4>2, Zenon
    <3>2. CASE f[k] # 0
      <4>1. ss[k] = <<f[k]>> /\ f[k] \in Lits
        BY <1>1, <3>2 DEF Separator, Lits
      <4>2. ToSet(<<f[k]>>) = {f[k]}
        BY DEF ToSet
      <4> HIDE DEF ss
      <4> QED
        BY <3>2, <4>1, <4>2
    <3> QED
      BY <3>1, <3>2
  <2> QED
    BY <2>1
<1>3. ss \in Seq(Seq(Lits)) /\ Len(ss) = n
  <2>1. ss = [k \in 1 .. n |-> ss[k]]
    BY <1>1, Zenon
  <2> HIDE DEF ss
  <2>2. ss \in [1 .. n -> Seq(Lits)]
    BY <1>2, <2>1, Zenon
  <2> QED
    BY <1>1, <2>2
<1>4. FormulaAsCube(f) = Cube(FlattenSeq(ss))
  BY DEF FormulaAsCube
<1> HIDE DEF ss
<1>5. FlattenSeq(ss) \in Seq(Lits) /\ ToSet(FlattenSeq(ss)) = UNION {ToSet(ss[k]) : k \in 1 .. n}
  BY <1>3, FlattenElements
<1>6. UNION {ToSet(ss[k]) : k \in 1 .. n} = ToSet(f) \ {0}
  <2>1. ASSUME NEW x \in UNION {ToSet(ss[k]) : k \in 1 .. n} PROVE x \in ToSet(f) \ {0}
    <3>1. PICK k \in 1 .. n : x \in ToSet(ss[k])
      BY <2>1, Zenon
    <3>2. x = f[k] /\ x # 0
      BY <1>2, <3>1
    <3> QED
      BY <1>1, <3>2, Zenon DEF ToSet
  <2>2. ASSUME NEW x \in ToSet(f) \ {0} PROVE x \in UNION {ToSet(ss[k]) : k \in 1 .. n}
    <3>1. PICK k \in 1 .. n : x = f[k]
      BY <1>1, <2>2, Zenon DEF ToSet
    <3>2. x \in ToSet(ss[k])
      BY <1>2, <3>1
    <3> QED
      BY <3>2, Zenon
  <2> QED
    BY <2>1, <2>2, Zenon
<1>7. Cube(FlattenSeq(ss)) \in Seq(Lits) /\ ToSet(Cube(FlattenSeq(ss))) = ToSet(FlattenSeq(ss))
  BY <1>5, CubeLiterals
<1> QED
  BY <1>4, <1>5, <1>6, <1>7, Zenon

-----------------------------------------------------------------------------
(* The clauses of the two negations.                                       *)

LEMMA UnitList ==
    ASSUME NEW T, NEW a \in T
    PROVE  <<a>> \in Seq(T) /\ ToSet(<<a>>) = {a}
BY DEF ToSet

LEMMA PairList ==
    ASSUME NEW T, NEW a \in T, NEW b \in T
    PROVE  <<a, b>> \in Seq(T) /\ ToSet(<<a, b>>) = {a, b}
<1> DEFINE s == <<a, b>>
<1>1. s \in Seq(T) /\ DOMAIN s = {1, 2} /\ s[1] = a /\ s[2] = b
  OBVIOUS
<1> HIDE DEF s
<1>2. ToSet(s) = {a, b}
  BY <1>1 DEF ToSet
<1> QED
  BY <1>1, <1>2 DEF s

LEMMA AppendList ==
    ASSUME NEW T, NEW c \in Seq(T), NEW a \in T
    PROVE  Append(c, a) \in Seq(T) /\ ToSet(Append(c, a)) = ToSet(c) \cup {a}
<1>1. Append(c, a) = c \o <<a>>
  OBVIOUS
<1>2. <<a>> \in Seq(T) /\ ToSet(<<a>>) = {a}
  BY UnitList
<1>3. ToSet(c \o <<a>>) = ToSet(c) \cup ToSet(<<a>>)
  BY <1>2, ConcatElements, Zenon
<1> QED
  BY <1>1, <1>2, <1>3

LEMMA ConsList ==
    ASSUME NEW T, NEW a \in T, NEW c \in Seq(T)
    PROVE  <<a>> \o c \in Seq(T) /\ ToSet(<<a>> \o c) = {a} \cup ToSet(c)
<1> DEFINE s == <<a>>
<1>1. s \in Seq(T) /\ ToSet(s) = {a}
  BY UnitList
<1> HIDE DEF s
<1>2. ToSet(s \o c) = ToSet(s) \cup ToSet(c)
  BY <1>1, ConcatElements
<1>3. s \o c \in Seq(T)
  BY <1>1
<1> QED
  BY <1>1, <1>2, <1>3, Zenon DEF s

\* The parts of a formula: the last is empty, and their literals are those of the
\* formula.
LEMMA SplitIs ==
    ASSUME NEW f \in Seq(Int), Terminated(f)
    PROVE  /\ Split(f) \in Seq(Seq(Lits))
           /\ f = <<>> => Split(f) = <<>>
           /\ f # <<>> => Len(Split(f)) >= 1 /\ Split(f)[Len(Split(f))] = <<>>
           /\ \A k \in 1 .. Len(Split(f)) : ToSet(Split(f)[k]) \subseteq ToSet(f) \ {0}
<1>1. PICK p : IsSplit(p, f) /\ Split(f) = IF f = <<>> THEN <<>> ELSE p[Len(f)]
  BY SplitLoop
<1>2. CASE f = <<>>
  BY <1>1, <1>2
<1>3. CASE f # <<>>
  <2> DEFINE ps == Split(f)
  <2>1. ps = p[Len(f)]
    BY <1>1, <1>3
  <2>2. p[Len(f)] \in Parts
    BY <1>1 DEF IsSplit
  <2>3. ps[Len(ps)] = <<>>
    BY <1>1, <2>1, TerminatedView
  <2>4. Closed(ps) = Clauses(f)
    BY <1>1, <2>1, ClausesView
  <2>5. UNION Closed(ps) = ToSet(f) \ {0}
    BY <2>4, ClausesLiterals
  <2>6. ps \in Seq(Seq(Lits)) /\ Len(ps) \in Nat /\ Len(ps) >= 1
    BY <2>1, <2>2 DEF Parts
  <2> HIDE DEF ps
  <2>7. ASSUME NEW k \in 1 .. Len(ps) PROVE ToSet(ps[k]) \subseteq ToSet(f) \ {0}
    <3>1. CASE k = Len(ps)
      <4>1. ToSet(<<>>) = {}
        BY DEF ToSet
      <4> QED
        BY <2>3, <3>1, <4>1
    <3>2. CASE k # Len(ps)
      <4>1. k \in 1 .. Len(ps) - 1
        BY <2>6, <3>2
      <4>2. ToSet(ps[k]) \in Closed(ps)
        BY <4>1, Zenon DEF Closed
      <4> QED
        BY <2>5, <4>2, Zenon
    <3> QED
      BY <3>1, <3>2
  <2> QED
    BY <1>3, <2>3, <2>6, <2>7 DEF ps
<1> QED
  BY <1>2, <1>3

\* The elements of the sequences the negations are made of.
LEMMA AssembledElements ==
    ASSUME NEW T, NEW u \in Seq(T), NEW dd \in Seq(Seq(T)), NEW w \in Seq(T), NEW z \in Seq(T)
    PROVE  /\ u \o FlattenSeq(dd) \o w \o z \in Seq(T)
           /\ ToSet(u \o FlattenSeq(dd) \o w \o z) =
                  ToSet(u) \cup (UNION {ToSet(dd[k]) : k \in 1 .. Len(dd)}) \cup ToSet(w) \cup ToSet(z)
<1> DEFINE d == FlattenSeq(dd)
<1>1. d \in Seq(T) /\ ToSet(d) = UNION {ToSet(dd[k]) : k \in 1 .. Len(dd)}
  BY FlattenElements
<1> HIDE DEF d
<1>2. u \o d \in Seq(T) /\ ToSet(u \o d) = ToSet(u) \cup ToSet(d)
  BY <1>1, ConcatElements
<1> DEFINE ud == u \o d
<1> HIDE DEF ud
<1>3. ud \in Seq(T)
  BY <1>2, Zenon DEF ud
<1>4. ud \o w \in Seq(T) /\ ToSet(ud \o w) = ToSet(ud) \cup ToSet(w)
  BY <1>3, ConcatElements
<1> DEFINE udw == ud \o w
<1> HIDE DEF udw
<1>5. udw \in Seq(T)
  BY <1>4, Zenon DEF udw
<1>6. udw \o z \in Seq(T) /\ ToSet(udw \o z) = ToSet(udw) \cup ToSet(z)
  BY <1>5, ConcatElements
<1>7. ToSet(udw \o z) = ToSet(u) \cup ToSet(d) \cup ToSet(w) \cup ToSet(z)
  BY <1>2, <1>4, <1>6, Zenon DEF udw, ud
<1> QED
  BY <1>1, <1>6, <1>7, Zenon DEF udw, ud, d

\* The clauses that say that y is the value of the cube c, or of the clause c.
CubeDefinition(c, y) == {{-y, l} : l \in ToSet(c)} \cup {Negated(c) \cup {y}}
ClauseDefinition(c, y) == {{-l, y} : l \in ToSet(c)} \cup {{-y} \cup ToSet(c)}

LEMMA CubeDefinitionIs ==
    ASSUME NEW c \in Seq(Lits), NEW y \in Nat \ {0}, NEW d,
           d = Append([j \in DOMAIN c |-> <<-y, c[j]>>], Append(NegateAll(c), y))
    PROVE  d \in Seq(Seq(Lits)) /\ {ToSet(e) : e \in ToSet(d)} = CubeDefinition(c, y)
<1>1. y \in Lits /\ -y \in Lits
  BY DEF Lits
<1> DEFINE n == Len(c)
           g == [j \in 1 .. n |-> <<-y, c[j]>>]
           h == Append(NegateAll(c), y)
<1>2. n \in Nat /\ DOMAIN c = 1 .. n /\ \A j \in 1 .. n : c[j] \in Lits
  OBVIOUS
<1>3. \A j \in 1 .. n : g[j] = <<-y, c[j]>> /\ g[j] \in Seq(Lits) /\ ToSet(g[j]) = {-y, c[j]}
  <2>1. ASSUME NEW j \in 1 .. n
        PROVE  g[j] = <<-y, c[j]>> /\ g[j] \in Seq(Lits) /\ ToSet(g[j]) = {-y, c[j]}
    <3>1. c[j] \in Lits /\ g[j] = <<-y, c[j]>>
      BY <1>2
    <3>2. <<-y, c[j]>> \in Seq(Lits) /\ ToSet(<<-y, c[j]>>) = {-y, c[j]}
      BY <1>1, <3>1, PairList
    <3> HIDE DEF g
    <3> QED
      BY <3>1, <3>2, Zenon
  <2> QED
    BY <2>1
<1>4. g = [j \in 1 .. n |-> g[j]] /\ d = Append(g, h)
  BY <1>2, Zenon
<1> HIDE DEF g, n
<1>5. g \in Seq(Seq(Lits)) /\ ToSet(g) = {g[j] : j \in 1 .. n}
  <2>1. g \in [1 .. n -> Seq(Lits)]
    BY <1>3, <1>4, Zenon
  <2>2. n \in Nat
    BY <1>2
  <2> DEFINE T == Seq(Lits)
  <2>3. g \in [1 .. n -> T]
    BY <2>1
  <2> HIDE DEF T
  <2>4. g \in Seq(T) /\ DOMAIN g = 1 .. n
    BY <2>2, <2>3
  <2>5. ToSet(g) = {g[j] : j \in 1 .. n}
    BY <2>4, Zenon DEF ToSet
  <2> QED
    BY <2>4, <2>5, Zenon DEF T
<1>6. h \in Seq(Lits) /\ ToSet(h) = Negated(c) \cup {y}
  <2>1. NegateAll(c) \in Seq(Lits) /\ ToSet(NegateAll(c)) = Negated(c)
    BY NegateClauses
  <2> QED
    BY <1>1, <2>1, AppendList
<1> HIDE DEF h
<1>7. d \in Seq(Seq(Lits)) /\ ToSet(d) = ToSet(g) \cup {h}
  <2>1. g \in Seq(Seq(Lits)) /\ h \in Seq(Lits)
    BY <1>5, <1>6, Zenon
  <2>2. Append(g, h) \in Seq(Seq(Lits)) /\ ToSet(Append(g, h)) = ToSet(g) \cup {h}
    BY <2>1, AppendList
  <2> QED
    BY <1>4, <2>2, Zenon
<1>8. ToSet(c) = {c[j] : j \in 1 .. n}
  BY <1>2, Zenon DEF ToSet
<1>9. {ToSet(e) : e \in ToSet(g)} = {{-y, l} : l \in ToSet(c)}
  <2>1. {ToSet(e) : e \in ToSet(g)} = {ToSet(g[j]) : j \in 1 .. n}
    BY <1>5, Zenon
  <2>2. {{-y, l} : l \in ToSet(c)} = {{-y, c[j]} : j \in 1 .. n}
    BY <1>8, Zenon
  <2>3. {ToSet(g[j]) : j \in 1 .. n} = {{-y, c[j]} : j \in 1 .. n}
    BY <1>3, Zenon
  <2> QED
    BY <2>1, <2>2, <2>3, Zenon
<1>10. {ToSet(e) : e \in ToSet(d)} = {ToSet(e) : e \in ToSet(g)} \cup {ToSet(h)}
  BY <1>7, Zenon
<1> QED
  BY <1>6, <1>7, <1>9, <1>10, Zenon DEF CubeDefinition

LEMMA ClauseDefinitionIs ==
    ASSUME NEW c \in Seq(Lits), NEW y \in Nat \ {0}, NEW d,
           d = Append([j \in DOMAIN c |-> <<-c[j], y>>], <<-y>> \o c)
    PROVE  d \in Seq(Seq(Lits)) /\ {ToSet(e) : e \in ToSet(d)} = ClauseDefinition(c, y)
<1>1. y \in Lits /\ -y \in Lits
  BY DEF Lits
<1> DEFINE n == Len(c)
           g == [j \in 1 .. n |-> <<-c[j], y>>]
           h == <<-y>> \o c
<1>2. n \in Nat /\ DOMAIN c = 1 .. n /\ \A j \in 1 .. n : c[j] \in Lits /\ -c[j] \in Lits
  BY DEF Lits
<1>3. \A j \in 1 .. n : g[j] = <<-c[j], y>> /\ g[j] \in Seq(Lits) /\ ToSet(g[j]) = {-c[j], y}
  <2>1. ASSUME NEW j \in 1 .. n
        PROVE  g[j] = <<-c[j], y>> /\ g[j] \in Seq(Lits) /\ ToSet(g[j]) = {-c[j], y}
    <3>1. -c[j] \in Lits /\ g[j] = <<-c[j], y>>
      BY <1>2
    <3>2. <<-c[j], y>> \in Seq(Lits) /\ ToSet(<<-c[j], y>>) = {-c[j], y}
      BY <1>1, <3>1, PairList
    <3> HIDE DEF g
    <3> QED
      BY <3>1, <3>2, Zenon
  <2> QED
    BY <2>1
<1>4. g = [j \in 1 .. n |-> g[j]] /\ d = Append(g, h)
  BY <1>2, Zenon
<1> HIDE DEF g, n
<1>5. g \in Seq(Seq(Lits)) /\ ToSet(g) = {g[j] : j \in 1 .. n}
  <2>1. g \in [1 .. n -> Seq(Lits)]
    BY <1>3, <1>4, Zenon
  <2>2. n \in Nat
    BY <1>2
  <2> DEFINE T == Seq(Lits)
  <2>3. g \in [1 .. n -> T]
    BY <2>1
  <2> HIDE DEF T
  <2>4. g \in Seq(T) /\ DOMAIN g = 1 .. n
    BY <2>2, <2>3
  <2>5. ToSet(g) = {g[j] : j \in 1 .. n}
    BY <2>4, Zenon DEF ToSet
  <2> QED
    BY <2>4, <2>5, Zenon DEF T
<1>6. h \in Seq(Lits) /\ ToSet(h) = {-y} \cup ToSet(c)
  BY <1>1, ConsList
<1> HIDE DEF h
<1>7. d \in Seq(Seq(Lits)) /\ ToSet(d) = ToSet(g) \cup {h}
  <2>1. g \in Seq(Seq(Lits)) /\ h \in Seq(Lits)
    BY <1>5, <1>6, Zenon
  <2>2. Append(g, h) \in Seq(Seq(Lits)) /\ ToSet(Append(g, h)) = ToSet(g) \cup {h}
    BY <2>1, AppendList
  <2> QED
    BY <1>4, <2>2, Zenon
<1>8. ToSet(c) = {c[j] : j \in 1 .. n}
  BY <1>2, Zenon DEF ToSet
<1>9. {ToSet(e) : e \in ToSet(g)} = {{-l, y} : l \in ToSet(c)}
  <2>1. {ToSet(e) : e \in ToSet(g)} = {ToSet(g[j]) : j \in 1 .. n}
    BY <1>5, Zenon
  <2>2. {{-l, y} : l \in ToSet(c)} = {{-c[j], y} : j \in 1 .. n}
    BY <1>8, Zenon
  <2>3. {ToSet(g[j]) : j \in 1 .. n} = {{-c[j], y} : j \in 1 .. n}
    BY <1>3, Zenon
  <2> QED
    BY <2>1, <2>2, <2>3, Zenon
<1>10. {ToSet(e) : e \in ToSet(d)} = {ToSet(e) : e \in ToSet(g)} \cup {ToSet(h)}
  BY <1>7, Zenon
<1> QED
  BY <1>6, <1>7, <1>9, <1>10, Zenon DEF ClauseDefinition

\* The clauses that are the elements of a list, or of the lists in one.
ClauseSet(cs) == {ToSet(e) : e \in ToSet(cs)}
ClauseSets(dd) == UNION {ClauseSet(dd[k]) : k \in 1 .. Len(dd)}

\* The clauses of a formula that is assembled from unit, definitions and two lists.
LEMMA AssembledClauses ==
    ASSUME NEW u \in Seq(Seq(Lits)), NEW dd \in Seq(Seq(Seq(Lits))),
           NEW w \in Seq(Seq(Lits)), NEW z \in Seq(Seq(Lits))
    PROVE  Clauses(Formula(u \o FlattenSeq(dd) \o w \o z)) =
               ClauseSet(u) \cup ClauseSets(dd) \cup ClauseSet(w) \cup ClauseSet(z)
<1> DEFINE cs == u \o FlattenSeq(dd) \o w \o z
           D == UNION {ToSet(dd[k]) : k \in 1 .. Len(dd)}
           T == Seq(Lits)
<1>1. cs \in Seq(T) /\ ToSet(cs) = ToSet(u) \cup D \cup ToSet(w) \cup ToSet(z)
  <2>1. u \in Seq(T) /\ dd \in Seq(Seq(T)) /\ w \in Seq(T) /\ z \in Seq(T)
    OBVIOUS
  <2> HIDE DEF T
  <2> QED
    BY <2>1, AssembledElements
<1> HIDE DEF cs
<1>2. Clauses(Formula(cs)) = {ToSet(cs[k]) : k \in 1 .. Len(cs)}
  BY <1>1, FormulaClauses
<1>3. ToSet(cs) = {cs[k] : k \in 1 .. Len(cs)}
  <2>1. DOMAIN cs = 1 .. Len(cs)
    BY <1>1
  <2> QED
    BY <2>1, Zenon DEF ToSet
<1>4. Clauses(Formula(cs)) = {ToSet(e) : e \in ToSet(cs)}
  BY <1>2, <1>3, Zenon
<1>5. {ToSet(e) : e \in D} = UNION {{ToSet(e) : e \in ToSet(dd[k])} : k \in 1 .. Len(dd)}
  <2> DEFINE E == UNION {{ToSet(e) : e \in ToSet(dd[k])} : k \in 1 .. Len(dd)}
  <2>1. ASSUME NEW e \in D PROVE ToSet(e) \in E
    <3>1. PICK k \in 1 .. Len(dd) : e \in ToSet(dd[k])
      BY <2>1, Zenon
    <3>2. ToSet(e) \in {ToSet(g) : g \in ToSet(dd[k])}
      BY <3>1, Zenon
    <3> QED
      BY <3>2, Zenon
  <2>2. ASSUME NEW s \in E PROVE \E e \in D : s = ToSet(e)
    BY <2>2, Zenon
  <2> HIDE DEF D, E
  <2>3. {ToSet(e) : e \in D} = E
    BY <2>1, <2>2, Zenon
  <2> QED
    BY <2>3 DEF E
<1> HIDE DEF D
<1>6. {ToSet(e) : e \in ToSet(cs)} = {ToSet(e) : e \in ToSet(u)} \cup {ToSet(e) : e \in D}
                                     \cup {ToSet(e) : e \in ToSet(w)} \cup {ToSet(e) : e \in ToSet(z)}
  BY <1>1, Zenon
<1> QED
  BY <1>4, <1>5, <1>6, Zenon DEF cs, ClauseSet, ClauseSets

\* The clauses that say that some cube holds.
FrameNegation(cs, x) ==
    {{x}} \cup (UNION {CubeDefinition(cs[k], x + k) : k \in 1 .. Len(cs)})
          \cup {{-x} \cup {x + k : k \in 1 .. Len(cs)}} \cup {{-(x + k), x} : k \in 1 .. Len(cs)}

\* clausify_frame_negation makes these.
LEMMA FrameNegationClauses ==
    ASSUME NEW cs \in Seq(Seq(Lits)), NEW x \in Nat \ {0}
    PROVE  Clauses(ClausifyFrameNegation(cs, x)) = FrameNegation(cs, x)
<1> DEFINE n == Len(cs)
           d(k) == Append([j \in DOMAIN cs[k] |-> <<-(x + k), cs[k][j]>>],
                          Append(NegateAll(cs[k]), x + k))
           u == <<<<x>>>>
           dd == [k \in DOMAIN cs |-> d(k)]
           ys == [k \in DOMAIN cs |-> x + k]
           w == <<<<-x>> \o ys>>
           z == [k \in DOMAIN cs |-> <<-(x + k), x>>]
           T == Seq(Lits)
<1>1. ClausifyFrameNegation(cs, x) = Formula(u \o FlattenSeq(dd) \o w \o z)
  BY DEF ClausifyFrameNegation
<1>2. n \in Nat /\ DOMAIN cs = 1 .. n /\ \A k \in 1 .. n : cs[k] \in Seq(Lits)
  OBVIOUS
<1>3. x \in Lits /\ -x \in Lits
        /\ \A k \in 1 .. n : x + k \in Nat \ {0} /\ x + k \in Lits /\ -(x + k) \in Lits
  BY DEF Lits
<1> HIDE DEF n
<1>4. u \in Seq(T) /\ {ToSet(e) : e \in ToSet(u)} = {{x}}
  <2>1. <<x>> \in T /\ ToSet(<<x>>) = {x}
    BY <1>3, UnitList
  <2> DEFINE xs == <<x>>
  <2> HIDE DEF xs, T
  <2>2. <<xs>> \in Seq(T) /\ ToSet(<<xs>>) = {xs}
    BY <2>1, UnitList DEF xs
  <2> QED
    BY <2>1, <2>2, Zenon DEF xs
<1>5. ASSUME NEW k \in 1 .. n
      PROVE  d(k) \in Seq(T) /\ {ToSet(e) : e \in ToSet(d(k))} = CubeDefinition(cs[k], x + k)
  BY <1>2, <1>3, CubeDefinitionIs, Zenon
<1>6. dd \in Seq(Seq(T)) /\ Len(dd) = n /\ \A k \in 1 .. n : dd[k] = d(k)
  <2>1. \A k \in 1 .. n : dd[k] = d(k)
    BY <1>2, Zenon
  <2>2. dd = [k \in 1 .. n |-> d(k)]
    BY <1>2, Zenon
  <2> DEFINE S == Seq(T)
  <2> HIDE DEF T, d
  <2>3. dd \in [1 .. n -> S]
    BY <1>5, <2>2, Zenon
  <2> HIDE DEF dd, S
  <2>4. dd \in Seq(S) /\ Len(dd) = n
    BY <1>2, <2>3
  <2> QED
    BY <2>1, <2>4 DEF S
<1>7. w \in Seq(T) /\ {ToSet(e) : e \in ToSet(w)} = {{-x} \cup {x + k : k \in 1 .. n}}
  <2>1. ys \in [1 .. n -> Lits] /\ \A k \in 1 .. n : ys[k] = x + k
    BY <1>2, <1>3
  <2> HIDE DEF ys
  <2>2. ys \in Seq(Lits) /\ DOMAIN ys = 1 .. n
    BY <1>2, <2>1
  <2>3. ToSet(ys) = {x + k : k \in 1 .. n}
    BY <2>1, <2>2, Zenon DEF ToSet
  <2> DEFINE xs == <<-x>> \o ys
  <2>4. xs \in T /\ ToSet(xs) = {-x} \cup ToSet(ys)
    BY <1>3, <2>2, ConsList
  <2> HIDE DEF xs, T
  <2>5. <<xs>> \in Seq(T) /\ ToSet(<<xs>>) = {xs}
    BY <2>4, UnitList
  <2> QED
    BY <2>3, <2>4, <2>5, Zenon DEF xs
<1>8. z \in Seq(T) /\ {ToSet(e) : e \in ToSet(z)} = {{-(x + k), x} : k \in 1 .. n}
  <2>1. ASSUME NEW k \in 1 .. n PROVE z[k] \in T /\ ToSet(z[k]) = {-(x + k), x}
    <3>1. -(x + k) \in Lits /\ z[k] = <<-(x + k), x>>
      BY <1>2, <1>3, Zenon
    <3> HIDE DEF z
    <3> QED
      BY <1>3, <3>1, PairList
  <2>2. z = [k \in 1 .. n |-> z[k]]
    BY <1>2, Zenon
  <2> HIDE DEF z, T
  <2>3. z \in [1 .. n -> T]
    BY <2>1, <2>2, Zenon
  <2>4. z \in Seq(T) /\ DOMAIN z = 1 .. n
    BY <1>2, <2>3
  <2>5. {ToSet(e) : e \in ToSet(z)} = {ToSet(z[k]) : k \in 1 .. n}
    <3>1. ToSet(z) = {z[k] : k \in 1 .. n}
      BY <2>4, Zenon DEF ToSet
    <3> QED
      BY <3>1, Zenon
  <2> QED
    BY <2>1, <2>4, <2>5, Zenon
<1> HIDE DEF u, dd, w, z, d
<1>9. Clauses(Formula(u \o FlattenSeq(dd) \o w \o z)) =
          ClauseSet(u) \cup ClauseSets(dd) \cup ClauseSet(w) \cup ClauseSet(z)
  BY <1>4, <1>6, <1>7, <1>8, AssembledClauses
<1>10. ClauseSets(dd) = UNION {CubeDefinition(cs[k], x + k) : k \in 1 .. n}
  <2>1. {ClauseSet(dd[k]) : k \in 1 .. Len(dd)} = {CubeDefinition(cs[k], x + k) : k \in 1 .. n}
    BY <1>5, <1>6, Zenon DEF ClauseSet
  <2> QED
    BY <2>1, Zenon DEF ClauseSets
<1> QED
  BY <1>1, <1>4, <1>7, <1>8, <1>9, <1>10, Zenon DEF FrameNegation, ClauseSet, n

\* The clauses that say that x is false and is the conjunction of all the parts.
FormulaNegation(ps, x) ==
    {{-x}} \cup (UNION {ClauseDefinition(ps[k], x + k) : k \in 1 .. Len(ps)})
           \cup {{-x, x + k} : k \in 1 .. Len(ps)} \cup {{-(x + k) : k \in 1 .. Len(ps)} \cup {x}}

\* negate_cnf makes these of the parts of its formula.
LEMMA FormulaNegationClauses ==
    ASSUME NEW f, Split(f) \in Seq(Seq(Lits)), NEW x \in Nat \ {0}
    PROVE  Clauses(NegateCnf(f, x)) = FormulaNegation(Split(f), x)
<1> DEFINE ps == Split(f)
           n == Len(ps)
           d(k) == Append([j \in DOMAIN ps[k] |-> <<-ps[k][j], x + k>>], <<-(x + k)>> \o ps[k])
           u == <<<<-x>>>>
           dd == [k \in DOMAIN ps |-> d(k)]
           ys == [k \in DOMAIN ps |-> x + k]
           w == [k \in DOMAIN ps |-> <<-x, x + k>>]
           z == <<Append(NegateAll(ys), x)>>
           T == Seq(Lits)
<1>1. NegateCnf(f, x) = Formula(u \o FlattenSeq(dd) \o w \o z)
  BY DEF NegateCnf
<1>2. n \in Nat /\ DOMAIN ps = 1 .. n /\ \A k \in 1 .. n : ps[k] \in Seq(Lits)
  OBVIOUS
<1>3. x \in Lits /\ -x \in Lits
        /\ \A k \in 1 .. n : x + k \in Nat \ {0} /\ x + k \in Lits /\ -(x + k) \in Lits
  BY DEF Lits
<1> HIDE DEF n, ps
<1>4. u \in Seq(T) /\ {ToSet(e) : e \in ToSet(u)} = {{-x}}
  <2>1. <<-x>> \in T /\ ToSet(<<-x>>) = {-x}
    BY <1>3, UnitList
  <2> DEFINE xs == <<-x>>
  <2> HIDE DEF xs, T
  <2>2. <<xs>> \in Seq(T) /\ ToSet(<<xs>>) = {xs}
    BY <2>1, UnitList DEF xs
  <2> QED
    BY <2>1, <2>2, Zenon DEF xs
<1>5. ASSUME NEW k \in 1 .. n
      PROVE  d(k) \in Seq(T) /\ {ToSet(e) : e \in ToSet(d(k))} = ClauseDefinition(ps[k], x + k)
  BY <1>2, <1>3, ClauseDefinitionIs, Zenon
<1>6. dd \in Seq(Seq(T)) /\ Len(dd) = n /\ \A k \in 1 .. n : dd[k] = d(k)
  <2>1. \A k \in 1 .. n : dd[k] = d(k)
    BY <1>2, Zenon
  <2>2. dd = [k \in 1 .. n |-> d(k)]
    BY <1>2, Zenon
  <2> DEFINE S == Seq(T)
  <2> HIDE DEF T, d
  <2>3. dd \in [1 .. n -> S]
    BY <1>5, <2>2, Zenon
  <2> HIDE DEF dd, S
  <2>4. dd \in Seq(S) /\ Len(dd) = n
    BY <1>2, <2>3
  <2> QED
    BY <2>1, <2>4 DEF S
<1>7. z \in Seq(T) /\ {ToSet(e) : e \in ToSet(z)} = {{-(x + k) : k \in 1 .. n} \cup {x}}
  <2>1. ys \in [1 .. n -> Lits] /\ \A k \in 1 .. n : ys[k] = x + k
    BY <1>2, <1>3
  <2> HIDE DEF ys
  <2>2. ys \in Seq(Lits) /\ DOMAIN ys = 1 .. n
    BY <1>2, <2>1
  <2>3. ToSet(ys) = {x + k : k \in 1 .. n}
    BY <2>1, <2>2, Zenon DEF ToSet
  <2>4. NegateAll(ys) \in Seq(Lits) /\ ToSet(NegateAll(ys)) = Negated(ys)
    BY <2>2, NegateClauses
  <2>5. Negated(ys) = {-(x + k) : k \in 1 .. n}
    BY <2>3, Zenon DEF Negated
  <2> DEFINE ns == NegateAll(ys)
             xs == Append(ns, x)
  <2>6. ns \in Seq(Lits)
    BY <2>4
  <2> HIDE DEF ns
  <2>7. xs \in T /\ ToSet(xs) = ToSet(ns) \cup {x}
    BY <1>3, <2>6, AppendList
  <2> HIDE DEF xs, T
  <2>8. <<xs>> \in Seq(T) /\ ToSet(<<xs>>) = {xs}
    BY <2>7, UnitList
  <2> QED
    BY <2>4, <2>5, <2>7, <2>8, Zenon DEF xs, ns
<1>8. w \in Seq(T) /\ {ToSet(e) : e \in ToSet(w)} = {{-x, x + k} : k \in 1 .. n}
  <2>1. ASSUME NEW k \in 1 .. n PROVE w[k] \in T /\ ToSet(w[k]) = {-x, x + k}
    <3>1. x + k \in Lits /\ w[k] = <<-x, x + k>>
      BY <1>2, <1>3, Zenon
    <3> HIDE DEF w
    <3> QED
      BY <1>3, <3>1, PairList
  <2>2. w = [k \in 1 .. n |-> w[k]]
    BY <1>2, Zenon
  <2> HIDE DEF w, T
  <2>3. w \in [1 .. n -> T]
    BY <2>1, <2>2, Zenon
  <2>4. w \in Seq(T) /\ DOMAIN w = 1 .. n
    BY <1>2, <2>3
  <2>5. {ToSet(e) : e \in ToSet(w)} = {ToSet(w[k]) : k \in 1 .. n}
    <3>1. ToSet(w) = {w[k] : k \in 1 .. n}
      BY <2>4, Zenon DEF ToSet
    <3> QED
      BY <3>1, Zenon
  <2> QED
    BY <2>1, <2>4, <2>5, Zenon
<1> HIDE DEF u, dd, w, z, d
<1>9. Clauses(Formula(u \o FlattenSeq(dd) \o w \o z)) =
          ClauseSet(u) \cup ClauseSets(dd) \cup ClauseSet(w) \cup ClauseSet(z)
  BY <1>4, <1>6, <1>7, <1>8, AssembledClauses
<1>10. ClauseSets(dd) = UNION {ClauseDefinition(ps[k], x + k) : k \in 1 .. n}
  <2>1. {ClauseSet(dd[k]) : k \in 1 .. Len(dd)} = {ClauseDefinition(ps[k], x + k) : k \in 1 .. n}
    BY <1>5, <1>6, Zenon DEF ClauseSet
  <2> QED
    BY <2>1, Zenon DEF ClauseSets
<1> QED
  BY <1>1, <1>4, <1>7, <1>8, <1>9, <1>10, Zenon DEF FormulaNegation, ClauseSet, n, ps

-----------------------------------------------------------------------------
(* What the negations say of a valuation.                                  *)

Holds(v, c) == \E l \in c : IsTrue(v, l)

\* The value of a literal and of its negation.
LEMMA LiteralTruth ==
    ASSUME NEW n \in Nat, NEW v \in [1 .. n -> BOOLEAN], NEW l \in Literals(1 .. n)
    PROVE  IsTrue(v, -l) <=> ~IsTrue(v, l)
<1>1. l \in Lits /\ Id(l) \in 1 .. n /\ Id(-l) = Id(l) /\ (-l > 0 <=> ~(l > 0))
  <2>1. l \in Lits /\ Id(l) \in 1 .. n
    BY LiteralIs
  <2> QED
    BY <2>1 DEF Lits, Id
<1>2. v[Id(l)] \in BOOLEAN
  BY <1>1
<1>3. (-l > 0) \in BOOLEAN /\ (l > 0) \in BOOLEAN
  BY <1>1 DEF Lits
<1> QED
  BY <1>1, <1>2, <1>3, Zenon DEF IsTrue

LEMMA VariableTruth ==
    ASSUME NEW n \in Nat, NEW v \in [1 .. n -> BOOLEAN], NEW a \in 1 .. n
    PROVE  /\ a \in Literals(1 .. n) /\ -a \in Literals(1 .. n)
           /\ IsTrue(v, a) <=> v[a]
           /\ IsTrue(v, -a) <=> ~v[a]
<1>1. a \in Literals(1 .. n) /\ -a \in Literals(1 .. n)
  BY DEF Literals
<1>2. Id(a) = a /\ (a > 0) = TRUE
  BY DEF Id
<1>3. v[a] \in BOOLEAN
  OBVIOUS
<1>4. IsTrue(v, a) <=> v[a]
  BY <1>2, <1>3, Zenon DEF IsTrue
<1>5. IsTrue(v, -a) <=> ~IsTrue(v, a)
  BY <1>1, LiteralTruth, Zenon
<1> QED
  BY <1>1, <1>4, <1>5, Zenon

LEMMA EveryClauseHolds == \A v, cs : Satisfies(v, cs) <=> \A c \in cs : Holds(v, c)
BY Zenon DEF Satisfies, Holds

LEMMA CubeDefinitionTruth ==
    ASSUME NEW n \in Nat, NEW c \in Seq(Literals(1 .. n)), NEW y \in 1 .. n
    PROVE  /\ Over(CubeDefinition(c, y), n)
           /\ \A v \in [1 .. n -> BOOLEAN] :
                  Satisfies(v, CubeDefinition(c, y)) <=> (v[y] <=> IsModelOfCube(v, c))
<1>1. ASSUME NEW l \in ToSet(c) PROVE l \in Literals(1 .. n) /\ -l \in Literals(1 .. n)
  <2>1. l \in Literals(1 .. n)
    BY <1>1 DEF ToSet
  <2>2. 1 .. n \in SUBSET (Nat \ {0})
    OBVIOUS
  <2> QED
    BY <2>1, <2>2, LiteralIs, Zenon
<1>2. y \in Literals(1 .. n) /\ -y \in Literals(1 .. n)
  BY DEF Literals
<1>3. Over(CubeDefinition(c, y), n)
  <2>1. ASSUME NEW l \in ToSet(c) PROVE {-y, l} \subseteq Literals(1 .. n)
    BY <1>1, <1>2, Zenon
  <2>2. Negated(c) \cup {y} \subseteq Literals(1 .. n)
    BY <1>1, <1>2, Zenon DEF Negated
  <2> QED
    BY <2>1, <2>2, Zenon DEF Over, CubeDefinition
<1>4. ASSUME NEW v \in [1 .. n -> BOOLEAN]
      PROVE  Satisfies(v, CubeDefinition(c, y)) <=> (v[y] <=> IsModelOfCube(v, c))
  <2>1. IsTrue(v, y) <=> v[y]
    BY VariableTruth
  <2>2. IsTrue(v, -y) <=> ~v[y]
    BY VariableTruth
  <2>3. ASSUME NEW l \in ToSet(c) PROVE IsTrue(v, -l) <=> ~IsTrue(v, l)
    BY <1>1, <2>3, LiteralTruth, Zenon
  <2>4. Satisfies(v, CubeDefinition(c, y)) <=>
            /\ \A l \in ToSet(c) : IsTrue(v, -y) \/ IsTrue(v, l)
            /\ IsTrue(v, y) \/ \E l \in Negated(c) : IsTrue(v, l)
    <3>1. \A l \in ToSet(c) : Holds(v, {-y, l}) <=> IsTrue(v, -y) \/ IsTrue(v, l)
      BY Zenon DEF Holds
    <3>2. Holds(v, Negated(c) \cup {y}) <=> IsTrue(v, y) \/ \E l \in Negated(c) : IsTrue(v, l)
      BY Zenon DEF Holds
    <3>3. Satisfies(v, CubeDefinition(c, y)) <=>
              (\A l \in ToSet(c) : Holds(v, {-y, l})) /\ Holds(v, Negated(c) \cup {y})
      BY EveryClauseHolds, Zenon DEF CubeDefinition
    <3> QED
      BY <3>1, <3>2, <3>3, Zenon
  <2>5. (\E l \in Negated(c) : IsTrue(v, l)) <=> \E l \in ToSet(c) : ~IsTrue(v, l)
    BY <2>3, Zenon DEF Negated
  <2>6. v[y] \in BOOLEAN
    OBVIOUS
  <2> QED
    BY <2>1, <2>2, <2>4, <2>5, <2>6, Zenon DEF IsModelOfCube
<1> QED
  BY <1>3, <1>4, Zenon

LEMMA ClauseDefinitionTruth ==
    ASSUME NEW n \in Nat, NEW c \in Seq(Literals(1 .. n)), NEW y \in 1 .. n
    PROVE  /\ Over(ClauseDefinition(c, y), n)
           /\ \A v \in [1 .. n -> BOOLEAN] :
                  Satisfies(v, ClauseDefinition(c, y)) <=> (v[y] <=> Holds(v, ToSet(c)))
<1>1. ASSUME NEW l \in ToSet(c) PROVE l \in Literals(1 .. n) /\ -l \in Literals(1 .. n)
  <2>1. l \in Literals(1 .. n)
    BY <1>1 DEF ToSet
  <2>2. 1 .. n \in SUBSET (Nat \ {0})
    OBVIOUS
  <2> QED
    BY <2>1, <2>2, LiteralIs, Zenon
<1>2. y \in Literals(1 .. n) /\ -y \in Literals(1 .. n)
  BY DEF Literals
<1>3. Over(ClauseDefinition(c, y), n)
  <2>1. ASSUME NEW l \in ToSet(c) PROVE {-l, y} \subseteq Literals(1 .. n)
    BY <1>1, <1>2, Zenon
  <2>2. {-y} \cup ToSet(c) \subseteq Literals(1 .. n)
    BY <1>1, <1>2, Zenon
  <2> QED
    BY <2>1, <2>2, Zenon DEF Over, ClauseDefinition
<1>4. ASSUME NEW v \in [1 .. n -> BOOLEAN]
      PROVE  Satisfies(v, ClauseDefinition(c, y)) <=> (v[y] <=> Holds(v, ToSet(c)))
  <2>1. IsTrue(v, y) <=> v[y]
    BY VariableTruth
  <2>2. IsTrue(v, -y) <=> ~v[y]
    BY VariableTruth
  <2>3. ASSUME NEW l \in ToSet(c) PROVE IsTrue(v, -l) <=> ~IsTrue(v, l)
    BY <1>1, <2>3, LiteralTruth, Zenon
  <2>4. Satisfies(v, ClauseDefinition(c, y)) <=>
            /\ \A l \in ToSet(c) : IsTrue(v, -l) \/ IsTrue(v, y)
            /\ IsTrue(v, -y) \/ Holds(v, ToSet(c))
    <3>1. \A l \in ToSet(c) : Holds(v, {-l, y}) <=> IsTrue(v, -l) \/ IsTrue(v, y)
      BY Zenon DEF Holds
    <3>2. Holds(v, {-y} \cup ToSet(c)) <=> IsTrue(v, -y) \/ Holds(v, ToSet(c))
      BY Zenon DEF Holds
    <3>3. Satisfies(v, ClauseDefinition(c, y)) <=>
              (\A l \in ToSet(c) : Holds(v, {-l, y})) /\ Holds(v, {-y} \cup ToSet(c))
      BY EveryClauseHolds, Zenon DEF ClauseDefinition
    <3> QED
      BY <3>1, <3>2, <3>3, Zenon
  <2>6. v[y] \in BOOLEAN
    OBVIOUS
  <2> QED
    BY <2>1, <2>2, <2>3, <2>4, <2>6, Zenon DEF Holds
<1> QED
  BY <1>3, <1>4, Zenon

\* The clauses of clausify_frame_negation name the values of the cubes, and say
\* that one of them holds.
LEMMA FrameNegationTruth ==
    ASSUME NEW n \in Nat, NEW cs \in Seq(Seq(Literals(1 .. n))), NEW x \in 1 .. n, x + Len(cs) <= n
    PROVE  /\ Over(FrameNegation(cs, x), n)
           /\ \A v \in [1 .. n -> BOOLEAN] :
                  Satisfies(v, FrameNegation(cs, x)) <=>
                      /\ v[x]
                      /\ \A k \in 1 .. Len(cs) : v[x + k] <=> IsModelOfCube(v, cs[k])
                      /\ \E k \in 1 .. Len(cs) : v[x + k]
<1> DEFINE K == 1 .. Len(cs)
           D == UNION {CubeDefinition(cs[k], x + k) : k \in K}
<1>1. \A k \in K : x + k \in 1 .. n /\ cs[k] \in Seq(Literals(1 .. n))
  OBVIOUS
<1>2. \A a \in 1 .. n : a \in Literals(1 .. n) /\ -a \in Literals(1 .. n)
  BY DEF Literals
<1> HIDE DEF K
<1>3. \A k \in K : /\ Over(CubeDefinition(cs[k], x + k), n)
                   /\ \A v \in [1 .. n -> BOOLEAN] :
                          Satisfies(v, CubeDefinition(cs[k], x + k)) <=> (v[x + k] <=> IsModelOfCube(v, cs[k]))
  BY <1>1, CubeDefinitionTruth, Zenon
<1>4. Over(FrameNegation(cs, x), n)
  <2>1. Over({{x}}, n)
    BY <1>2, Zenon DEF Over
  <2>2. Over(D, n)
    BY <1>3, Zenon DEF Over
  <2>3. Over({{-x} \cup {x + k : k \in K}}, n)
    BY <1>1, <1>2, Zenon DEF Over
  <2>4. Over({{-(x + k), x} : k \in K}, n)
    BY <1>1, <1>2, Zenon DEF Over
  <2> HIDE DEF D
  <2> QED
    BY <2>1, <2>2, <2>3, <2>4, Zenon DEF Over, FrameNegation, D, K
<1>5. ASSUME NEW v \in [1 .. n -> BOOLEAN]
      PROVE  Satisfies(v, FrameNegation(cs, x)) <=>
                 /\ v[x]
                 /\ \A k \in K : v[x + k] <=> IsModelOfCube(v, cs[k])
                 /\ \E k \in K : v[x + k]
  <2>1. \A a \in 1 .. n : (IsTrue(v, a) <=> v[a]) /\ (IsTrue(v, -a) <=> ~v[a])
    BY VariableTruth, Zenon
  <2>2. Satisfies(v, {{x}}) <=> v[x]
    BY <2>1, Zenon DEF Satisfies
  <2>3. Satisfies(v, D) <=> \A k \in K : v[x + k] <=> IsModelOfCube(v, cs[k])
    <3>1. Satisfies(v, D) <=> \A k \in K : Satisfies(v, CubeDefinition(cs[k], x + k))
      BY Zenon DEF Satisfies
    <3> HIDE DEF D
    <3> QED
      BY <1>3, <3>1, Zenon
  <2>4. Satisfies(v, {{-x} \cup {x + k : k \in K}}) <=> ~v[x] \/ \E k \in K : v[x + k]
    <3>1. Holds(v, {-x} \cup {x + k : k \in K}) <=> IsTrue(v, -x) \/ \E k \in K : IsTrue(v, x + k)
      BY Zenon DEF Holds
    <3>2. Satisfies(v, {{-x} \cup {x + k : k \in K}}) <=> Holds(v, {-x} \cup {x + k : k \in K})
      BY Zenon DEF Satisfies, Holds
    <3> QED
      BY <1>1, <2>1, <3>1, <3>2, Zenon
  <2>5. Satisfies(v, {{-(x + k), x} : k \in K}) <=> \A k \in K : ~v[x + k] \/ v[x]
    <3>1. \A k \in K : Holds(v, {-(x + k), x}) <=> IsTrue(v, -(x + k)) \/ IsTrue(v, x)
      BY Zenon DEF Holds
    <3>2. Satisfies(v, {{-(x + k), x} : k \in K}) <=> \A k \in K : Holds(v, {-(x + k), x})
      BY EveryClauseHolds, Zenon
    <3> QED
      BY <1>1, <2>1, <3>1, <3>2, Zenon
  <2>6. Satisfies(v, FrameNegation(cs, x)) <=>
            /\ Satisfies(v, {{x}})
            /\ Satisfies(v, D)
            /\ Satisfies(v, {{-x} \cup {x + k : k \in K}})
            /\ Satisfies(v, {{-(x + k), x} : k \in K})
    <3> HIDE DEF D
    <3> QED
      BY Zenon DEF Satisfies, FrameNegation, D, K
  <2> QED
    BY <2>2, <2>3, <2>4, <2>5, <2>6, Zenon
<1> QED
  BY <1>4, <1>5, Zenon DEF K

\* The clauses of negate_cnf name the values of the parts, and say that one of
\* them is false.
LEMMA FormulaNegationTruth ==
    ASSUME NEW n \in Nat, NEW cs \in Seq(Seq(Literals(1 .. n))), NEW x \in 1 .. n, x + Len(cs) <= n
    PROVE  /\ Over(FormulaNegation(cs, x), n)
           /\ \A v \in [1 .. n -> BOOLEAN] :
                  Satisfies(v, FormulaNegation(cs, x)) <=>
                      /\ ~v[x]
                      /\ \A k \in 1 .. Len(cs) : v[x + k] <=> Holds(v, ToSet(cs[k]))
                      /\ \E k \in 1 .. Len(cs) : ~v[x + k]
<1> DEFINE K == 1 .. Len(cs)
           D == UNION {ClauseDefinition(cs[k], x + k) : k \in K}
<1>1. \A k \in K : x + k \in 1 .. n /\ cs[k] \in Seq(Literals(1 .. n))
  OBVIOUS
<1>2. \A a \in 1 .. n : a \in Literals(1 .. n) /\ -a \in Literals(1 .. n)
  BY DEF Literals
<1> HIDE DEF K
<1>3. \A k \in K : /\ Over(ClauseDefinition(cs[k], x + k), n)
                   /\ \A v \in [1 .. n -> BOOLEAN] :
                          Satisfies(v, ClauseDefinition(cs[k], x + k)) <=> (v[x + k] <=> Holds(v, ToSet(cs[k])))
  BY <1>1, ClauseDefinitionTruth, Zenon
<1>4. Over(FormulaNegation(cs, x), n)
  <2>1. Over({{-x}}, n)
    BY <1>2, Zenon DEF Over
  <2>2. Over(D, n)
    BY <1>3, Zenon DEF Over
  <2>3. Over({{-(x + k) : k \in K} \cup {x}}, n)
    BY <1>1, <1>2, Zenon DEF Over
  <2>4. Over({{-x, x + k} : k \in K}, n)
    BY <1>1, <1>2, Zenon DEF Over
  <2> HIDE DEF D
  <2> QED
    BY <2>1, <2>2, <2>3, <2>4, Zenon DEF Over, FormulaNegation, D, K
<1>5. ASSUME NEW v \in [1 .. n -> BOOLEAN]
      PROVE  Satisfies(v, FormulaNegation(cs, x)) <=>
                 /\ ~v[x]
                 /\ \A k \in K : v[x + k] <=> Holds(v, ToSet(cs[k]))
                 /\ \E k \in K : ~v[x + k]
  <2>1. \A a \in 1 .. n : (IsTrue(v, a) <=> v[a]) /\ (IsTrue(v, -a) <=> ~v[a])
    BY VariableTruth, Zenon
  <2>2. Satisfies(v, {{-x}}) <=> ~v[x]
    BY <2>1, Zenon DEF Satisfies
  <2>3. Satisfies(v, D) <=> \A k \in K : v[x + k] <=> Holds(v, ToSet(cs[k]))
    <3>1. Satisfies(v, D) <=> \A k \in K : Satisfies(v, ClauseDefinition(cs[k], x + k))
      BY Zenon DEF Satisfies
    <3> HIDE DEF D
    <3> QED
      BY <1>3, <3>1, Zenon
  <2>4. Satisfies(v, {{-(x + k) : k \in K} \cup {x}}) <=> v[x] \/ \E k \in K : ~v[x + k]
    <3>1. Holds(v, {-(x + k) : k \in K} \cup {x}) <=> IsTrue(v, x) \/ \E k \in K : IsTrue(v, -(x + k))
      BY Zenon DEF Holds
    <3>2. Satisfies(v, {{-(x + k) : k \in K} \cup {x}}) <=> Holds(v, {-(x + k) : k \in K} \cup {x})
      BY Zenon DEF Satisfies, Holds
    <3> QED
      BY <1>1, <2>1, <3>1, <3>2, Zenon
  <2>5. Satisfies(v, {{-x, x + k} : k \in K}) <=> \A k \in K : ~v[x] \/ v[x + k]
    <3>1. \A k \in K : Holds(v, {-x, x + k}) <=> IsTrue(v, -x) \/ IsTrue(v, x + k)
      BY Zenon DEF Holds
    <3>2. Satisfies(v, {{-x, x + k} : k \in K}) <=> \A k \in K : Holds(v, {-x, x + k})
      BY EveryClauseHolds, Zenon
    <3> QED
      BY <1>1, <2>1, <3>1, <3>2, Zenon
  <2>6. Satisfies(v, FormulaNegation(cs, x)) <=>
            /\ Satisfies(v, {{-x}})
            /\ Satisfies(v, D)
            /\ Satisfies(v, {{-x, x + k} : k \in K})
            /\ Satisfies(v, {{-(x + k) : k \in K} \cup {x}})
    <3> HIDE DEF D
    <3> QED
      BY Zenon DEF Satisfies, FormulaNegation, D, K
  <2> QED
    BY <2>2, <2>3, <2>4, <2>5, <2>6, Zenon
<1> QED
  BY <1>4, <1>5, Zenon DEF K

-----------------------------------------------------------------------------
(* The clauses in the solver, and the states they leave.                   *)

\* The state w is not initial, as CAR takes it, and is in no frame before k.
NotInitial(w) == IF question.forward THEN ~IsModel(w, question.init) ELSE question.init # <<>>

Left(w, k) == NotInitial(w) /\ \A j \in 1 .. k - 1 : ~InFrame(w, j)

Agree(v, w, vs) == \A a \in vs : v[a] = w[a]

\* The clauses over the variables 1 .. n can be satisfied in exactly the states
\* that are left for frame k.
IsExact(cs, n, k) ==
    /\ Over(cs, n)
    /\ \A v \in [1 .. n -> BOOLEAN] : Satisfies(v, cs) => Left(v, k)
    /\ \A w \in [StateVars -> BOOLEAN] :
           Left(w, k) => \E v \in [1 .. n -> BOOLEAN] : Satisfies(v, cs) /\ Agree(v, w, StateVars)

\* The inductive invariant of is_inductive. At a frame, the solver has the states
\* that are left for it, under all the variables made so far; no earlier frame is
\* covered.
CheckerInv ==
    /\ question \in Questions
    /\ pc \in {"initialize", "frame", "done"}
    /\ i \in 1 .. depth
    /\ pc = "initialize" => nextId = VarCount + 1 /\ i = 1 /\ answer = FALSE
    /\ pc = "frame" => /\ \E m \in Nat : m >= VarCount /\ nextId = m + 1 /\ IsExact(checker, m, i)
                       /\ answer = FALSE
                       /\ \A k \in 1 .. i - 1 : ~IsCovered(k)
    /\ pc = "done" => \/ answer = TRUE /\ IsCovered(i)
                      \/ answer = FALSE /\ \A k \in 1 .. depth : ~IsCovered(k)

LEMMA StateVariables == StateVars \in SUBSET (Nat \ {0})
BY VariablesAssumption

LEMMA QuestionIs ==
    ASSUME question \in Questions
    PROVE  /\ question.forward \in BOOLEAN
           /\ depth \in Nat \ {0}
           /\ \A k \in 1 .. depth : question.trace[k] \in Seq(Seq(Literals(StateVars)))
           /\ question.init \in Seq(Int) /\ Terminated(question.init)
           /\ ToSet(question.init) \ {0} \subseteq Literals(1 .. VarCount)
           /\ question.forward => \A c \in Clauses(question.init) : \E l \in Literals(StateVars) : c = {l}
<1> DEFINE q == question
<1>1. /\ q.forward \in BOOLEAN
      /\ q.trace \in Seq(Seq(Seq(Literals(StateVars)))) \ {<<>>}
      /\ q.init \in Seq(Literals(1 .. VarCount) \cup {Separator})
      /\ q.init = <<>> \/ Last(q.init) = Separator
      /\ q.forward => \A c \in Clauses(q.init) : \E l \in Literals(StateVars) : c = {l}
  BY QuestionsAssumption, Zenon
<1> DEFINE L == Literals(1 .. VarCount)
           t == q.trace
           f == q.init
           S == Seq(Seq(Literals(StateVars)))
<1>2. L \subseteq Int
  BY VariablesAssumption DEF Literals
<1>3. f \in Seq(L \cup {0}) /\ t \in Seq(S) \ {<<>>}
  BY <1>1 DEF Separator
<1> HIDE DEF L, t, f, S
<1>4. f \in Seq(Int)
  <2>1. Len(f) \in Nat /\ f \in [1 .. Len(f) -> L \cup {0}]
    BY <1>3, SequenceIsFunction
  <2>2. \A k \in 1 .. Len(f) : f[k] \in Int
    <3>1. L \cup {0} \subseteq Int
      BY <1>2
    <3> QED
      BY <2>1, <3>1, Zenon
  <2>3. f \in [1 .. Len(f) -> Int]
    BY <2>1, <2>2, Zenon
  <2> QED
    BY <2>1, <2>3
<1>5. Terminated(f)
  BY <1>1, <1>3, Zenon DEF Terminated, Last, Separator, f
<1>6. ToSet(f) \ {0} \subseteq L
  BY <1>3 DEF ToSet
<1>7. Len(t) \in Nat \ {0} /\ \A k \in 1 .. Len(t) : t[k] \in S
  BY <1>3
<1> QED
  BY <1>1, <1>4, <1>5, <1>6, <1>7, Zenon DEF L, t, f, S, depth

LEMMA AgreeTruth ==
    ASSUME NEW vs \in SUBSET (Nat \ {0}), NEW v, NEW w, Agree(v, w, vs), NEW l \in Literals(vs)
    PROVE  IsTrue(v, l) <=> IsTrue(w, l)
<1>1. Id(l) \in vs
  BY LiteralIs
<1>2. v[Id(l)] = w[Id(l)]
  BY <1>1, Zenon DEF Agree
<1> QED
  BY <1>2, Zenon DEF IsTrue

LEMMA SatisfiesAgree ==
    ASSUME NEW n \in Nat, NEW cs, Over(cs, n), NEW v, NEW w, Agree(v, w, 1 .. n), Satisfies(v, cs)
    PROVE  Satisfies(w, cs)
<1>1. 1 .. n \in SUBSET (Nat \ {0})
  OBVIOUS
<1>2. \A l \in Literals(1 .. n) : IsTrue(v, l) <=> IsTrue(w, l)
  BY <1>1, AgreeTruth, Zenon
<1> QED
  BY <1>2, Zenon DEF Satisfies, Over

LEMMA InFrameAgree ==
    ASSUME question \in Questions, NEW v, NEW w, Agree(v, w, StateVars), NEW k \in 1 .. depth, InFrame(v, k)
    PROVE  InFrame(w, k)
<1> DEFINE t == question.trace[k]
<1>1. t \in Seq(Seq(Literals(StateVars)))
  BY QuestionIs
<1>2. \A l \in Literals(StateVars) : IsTrue(v, l) <=> IsTrue(w, l)
  BY StateVariables, AgreeTruth, Zenon
<1>3. ASSUME NEW j \in DOMAIN t PROVE ~IsModelOfCube(w, t[j])
  <2>1. t[j] \in Seq(Literals(StateVars))
    BY <1>1
  <2>2. ToSet(t[j]) \subseteq Literals(StateVars)
    BY <2>1 DEF ToSet
  <2>3. ~IsModelOfCube(v, t[j])
    BY <1>3, Zenon DEF InFrame
  <2> QED
    BY <1>2, <2>2, <2>3, Zenon DEF IsModelOfCube
<1> QED
  BY <1>3, Zenon DEF InFrame

\* The states left depend on the state variables only.
LEMMA LeftAgree ==
    ASSUME question \in Questions, NEW v, NEW w, Agree(v, w, StateVars), NEW k \in 1 .. depth + 1, Left(v, k)
    PROVE  Left(w, k)
<1>1. depth \in Nat /\ \A j \in 1 .. k - 1 : j \in 1 .. depth
  BY QuestionIs
<1>2. Agree(w, v, StateVars)
  BY Zenon DEF Agree
<1>3. ASSUME NEW j \in 1 .. k - 1 PROVE ~InFrame(w, j)
  BY <1>1, <1>2, <1>3, InFrameAgree, Zenon DEF Left
<1>4. NotInitial(w)
  <2>1. CASE question.forward
    <3>1. \A c \in Clauses(question.init) : \E l \in Literals(StateVars) : c = {l}
      BY <2>1, QuestionIs
    <3>2. \A l \in Literals(StateVars) : IsTrue(v, l) <=> IsTrue(w, l)
      BY StateVariables, AgreeTruth, Zenon
    <3>3. ~IsModel(v, question.init)
      BY <2>1, Zenon DEF Left, NotInitial
    <3>4. \A c \in Clauses(question.init) : (\E l \in c : IsTrue(w, l)) => \E l \in c : IsTrue(v, l)
      BY <3>1, <3>2, Zenon
    <3> QED
      BY <2>1, <3>3, <3>4, Zenon DEF NotInitial, IsModel
  <2>2. CASE ~question.forward
    BY <2>2, Zenon DEF Left, NotInitial
  <2> QED
    BY <2>1, <2>2
<1> QED
  BY <1>3, <1>4, Zenon DEF Left

\* The values of the first variables, and one value more.
LEMMA Restricted ==
    ASSUME NEW n \in Nat, NEW m \in 0 .. n, NEW v \in [1 .. n -> BOOLEAN]
    PROVE  \E u \in [1 .. m -> BOOLEAN] : Agree(u, v, 1 .. m)
<1> DEFINE u == [a \in 1 .. m |-> v[a]]
<1>1. \A a \in 1 .. m : a \in 1 .. n
  OBVIOUS
<1>2. u \in [1 .. m -> BOOLEAN]
  BY <1>1, Zenon
<1>3. Agree(u, v, 1 .. m)
  BY Zenon DEF Agree
<1> QED
  BY <1>2, <1>3, Zenon

LEMMA AgreeSub ==
    ASSUME NEW v, NEW w, NEW vs, NEW ws, vs \subseteq ws, Agree(v, w, ws)
    PROVE  Agree(v, w, vs)
BY Zenon DEF Agree

\* The clauses of the frame that is_inductive asks about: under the activator they
\* say that the state is in the frame, and without it nothing.
LEMMA FrameClausesTruth ==
    ASSUME question \in Questions, i \in 1 .. depth, NEW m \in Nat, m >= VarCount, nextId = m + 1,
           NEW n \in Nat, n >= m + 1
    PROVE  /\ Over(FrameClauses, n)
           /\ \A v \in [1 .. n -> BOOLEAN] :
                  /\ v[m + 1] => (Satisfies(v, FrameClauses) <=> InFrame(v, i))
                  /\ ~v[m + 1] => Satisfies(v, FrameClauses)
<1> DEFINE t == question.trace[i]
           C(c) == Negated(c) \cup {-act}
<1>1. t \in Seq(Seq(Literals(StateVars)))
  BY QuestionIs
<1>2. act \in Nat \ {0} /\ act = m + 1 /\ act \in 1 .. n
  BY DEF act
<1>3. ASSUME NEW c \in ToSet(t)
      PROVE  /\ Clauses(Activate(Negate(c), act)) = {C(c)}
             /\ \A l \in ToSet(c) : l \in Literals(1 .. n) /\ -l \in Literals(1 .. n)
  <2>1. c \in Seq(Literals(StateVars))
    BY <1>1, <1>3 DEF ToSet
  <2>2. ASSUME NEW l \in Literals(StateVars)
        PROVE  l \in Lits /\ l \in Literals(1 .. n) /\ -l \in Literals(1 .. n)
    BY <2>2, VariablesAssumption DEF Literals, Lits
  <2>3. Len(c) \in Nat /\ c \in [1 .. Len(c) -> Literals(StateVars)]
    BY <2>1, SequenceIsFunction
  <2>4. c \in [1 .. Len(c) -> Lits]
    BY <2>2, <2>3, Zenon
  <2>5. c \in Seq(Lits)
    BY <2>3, <2>4
  <2>6. Clauses(Activate(Negate(c), act)) = {C(c)}
    BY <1>2, <2>5, ActivateClauses, Zenon
  <2>7. ToSet(c) \subseteq Literals(StateVars)
    BY <2>1 DEF ToSet
  <2> QED
    BY <2>2, <2>6, <2>7, Zenon
<1>4. FrameClauses = {C(c) : c \in ToSet(t)}
  <2>1. {Clauses(Activate(Negate(c), act)) : c \in ToSet(t)} = {{C(c)} : c \in ToSet(t)}
    BY <1>3, Zenon
  <2>2. UNION {{C(c)} : c \in ToSet(t)} = {C(c) : c \in ToSet(t)}
    BY Zenon
  <2> QED
    BY <2>1, <2>2, Zenon DEF FrameClauses, cubes
<1>5. Over(FrameClauses, n)
  <2>1. -act \in Literals(1 .. n)
    BY <1>2 DEF Literals
  <2>2. ASSUME NEW c \in ToSet(t) PROVE C(c) \subseteq Literals(1 .. n)
    BY <1>3, <2>1, Zenon DEF Negated
  <2> HIDE DEF C
  <2> QED
    BY <1>4, <2>2, Zenon DEF Over
<1>6. ASSUME NEW v \in [1 .. n -> BOOLEAN]
      PROVE  /\ v[m + 1] => (Satisfies(v, FrameClauses) <=> InFrame(v, i))
             /\ ~v[m + 1] => Satisfies(v, FrameClauses)
  <2>1. IsTrue(v, -act) <=> ~v[m + 1]
    BY <1>2, VariableTruth, Zenon
  <2>2. ASSUME NEW c \in ToSet(t) PROVE Holds(v, C(c)) <=> ~v[m + 1] \/ ~IsModelOfCube(v, c)
    <3>1. \A l \in ToSet(c) : IsTrue(v, -l) <=> ~IsTrue(v, l)
      BY <1>3, LiteralTruth, Zenon
    <3>2. Holds(v, C(c)) <=> IsTrue(v, -act) \/ \E l \in ToSet(c) : IsTrue(v, -l)
      BY Zenon DEF Holds, Negated
    <3> HIDE DEF C
    <3> QED
      BY <2>1, <3>1, <3>2, Zenon DEF IsModelOfCube
  <2>3. Satisfies(v, FrameClauses) <=> \A c \in ToSet(t) : Holds(v, C(c))
    <3> HIDE DEF C
    <3> QED
      BY <1>4, EveryClauseHolds, Zenon
  <2>4. InFrame(v, i) <=> \A c \in ToSet(t) : ~IsModelOfCube(v, c)
    BY Zenon DEF InFrame, ToSet
  <2> HIDE DEF C
  <2> QED
    BY <2>2, <2>3, <2>4, Zenon
<1> QED
  BY <1>5, <1>6, Zenon

LEMMA Unions ==
    /\ \A v, a, b : Satisfies(v, a \cup b) <=> Satisfies(v, a) /\ Satisfies(v, b)
    /\ \A n, a, b : Over(a \cup b, n) <=> Over(a, n) /\ Over(b, n)
BY Zenon DEF Satisfies, Over

LEMMA OverMore ==
    ASSUME NEW m \in Nat, NEW n \in Nat, m <= n, NEW cs, Over(cs, m)
    PROVE  Over(cs, n)
<1>1. Literals(1 .. m) \subseteq Literals(1 .. n)
  BY DEF Literals
<1> QED
  BY <1>1, Zenon DEF Over

LEMMA CoveredIs ==
    ASSUME NEW k
    PROVE  IsCovered(k) <=> \A w \in [StateVars -> BOOLEAN] : ~(Left(w, k) /\ InFrame(w, k))
BY Zenon DEF IsCovered, Valuations, Left, NotInitial

\* The query of frame i is unsatisfiable exactly if the frame is covered.
LEMMA QueryIsRight ==
    ASSUME question \in Questions, i \in 1 .. depth, NEW m \in Nat, m >= VarCount, nextId = m + 1,
           IsExact(checker, m, i)
    PROVE  IsUnsat <=> IsCovered(i)
<1> DEFINE n == m + 1
           cs == checker \cup FrameClauses \cup {{act}}
<1>1. n \in Nat /\ m <= n /\ m \in 0 .. n /\ n \in 1 .. n /\ act = n
  BY DEF act
<1>2. /\ Over(FrameClauses, n)
      /\ \A v \in [1 .. n -> BOOLEAN] : v[n] => (Satisfies(v, FrameClauses) <=> InFrame(v, i))
  BY FrameClausesTruth
<1>3. StateVars \subseteq 1 .. m /\ i \in 1 .. depth + 1
  BY VariablesAssumption, QuestionIs
<1>4. Over(checker, m)
  BY Zenon DEF IsExact
<1> HIDE DEF n
<1>5. Over(cs, n)
  <2>1. Over(checker, n)
    BY <1>1, <1>4, OverMore, Zenon
  <2>2. Over({{act}}, n)
    <3>1. act \in Literals(1 .. n)
      BY <1>1, Zenon DEF Literals
    <3> QED
      BY <3>1, Zenon DEF Over
  <2> QED
    BY <1>2, <2>1, <2>2, Unions, Zenon
<1>6. \A v \in [1 .. n -> BOOLEAN] : Satisfies(v, {{act}}) <=> v[n]
  <2>1. ASSUME NEW v \in [1 .. n -> BOOLEAN] PROVE Satisfies(v, {{act}}) <=> v[n]
    <3>1. IsTrue(v, act) <=> v[n]
      BY <1>1, VariableTruth, Zenon
    <3> QED
      BY <3>1, Zenon DEF Satisfies
  <2> QED
    BY <2>1, Zenon
<1>7. \A v \in [1 .. n -> BOOLEAN] : Satisfies(v, cs) <=> Satisfies(v, checker) /\ v[n] /\ InFrame(v, i)
  BY <1>2, <1>6, Unions, Zenon
<1> HIDE DEF cs
<1>8. IsUnsat <=> ~\E v \in [1 .. n -> BOOLEAN] : Satisfies(v, cs)
  <2>1. IsSatisfiable(cs, n) <=> \E v \in [1 .. n -> BOOLEAN] : Satisfies(v, cs)
    BY <1>1, <1>5, SolverIsRight, Zenon
  <2> QED
    BY <1>1, <2>1, Zenon DEF IsUnsat, cs
<1>9. ASSUME NEW v \in [1 .. n -> BOOLEAN], Satisfies(v, cs)
      PROVE  \E w \in [StateVars -> BOOLEAN] : Left(w, i) /\ InFrame(w, i)
  <2>1. PICK u \in [1 .. m -> BOOLEAN] : Agree(u, v, 1 .. m)
    BY <1>1, Restricted, Zenon
  <2>2. Agree(v, u, 1 .. m)
    BY <2>1, Zenon DEF Agree
  <2>3. Satisfies(u, checker)
    BY <1>4, <1>7, <1>9, <2>2, SatisfiesAgree, Zenon
  <2>4. Left(u, i)
    BY <2>3, Zenon DEF IsExact
  <2> DEFINE w == [a \in StateVars |-> v[a]]
  <2>5. w \in [StateVars -> BOOLEAN]
    <3>1. \A a \in StateVars : a \in 1 .. n
      BY <1>1, <1>3
    <3> QED
      BY <3>1, Zenon
  <2>6. Agree(v, w, StateVars)
    BY Zenon DEF Agree
  <2> HIDE DEF w
  <2>7. Agree(u, w, StateVars)
    BY <1>3, <2>1, <2>6, Zenon DEF Agree
  <2>8. Left(w, i)
    BY <1>3, <2>4, <2>7, LeftAgree, Zenon
  <2>9. InFrame(w, i)
    BY <1>7, <1>9, <2>6, InFrameAgree, Zenon
  <2> QED
    BY <2>5, <2>8, <2>9, Zenon
<1>10. ASSUME NEW w \in [StateVars -> BOOLEAN], Left(w, i), InFrame(w, i)
       PROVE  \E v \in [1 .. n -> BOOLEAN] : Satisfies(v, cs)
  <2>1. PICK u \in [1 .. m -> BOOLEAN] : Satisfies(u, checker) /\ Agree(u, w, StateVars)
    BY <1>10, Zenon DEF IsExact
  <2> DEFINE v == [a \in 1 .. n |-> IF a = n THEN TRUE ELSE u[a]]
  <2>2. \A a \in 1 .. n : a # n => a \in 1 .. m
    BY DEF n
  <2>3. \A a \in 1 .. m : a # n /\ a \in 1 .. n
    BY DEF n
  <2>4. v \in [1 .. n -> BOOLEAN]
    BY <2>2, Zenon
  <2>5. v[n] = TRUE /\ Agree(u, v, 1 .. m)
    BY <1>1, <2>3, Zenon DEF Agree
  <2> HIDE DEF v
  <2>6. Satisfies(v, checker)
    BY <1>4, <2>1, <2>5, SatisfiesAgree, Zenon
  <2>7. Agree(w, v, StateVars)
    BY <1>3, <2>1, <2>5, Zenon DEF Agree
  <2>8. InFrame(v, i)
    BY <1>10, <2>7, InFrameAgree, Zenon
  <2> QED
    BY <1>7, <2>4, <2>5, <2>6, <2>8, Zenon
<1>11. IsCovered(i) <=> \A w \in [StateVars -> BOOLEAN] : ~(Left(w, i) /\ InFrame(w, i))
  BY CoveredIs
<1> QED
  BY <1>8, <1>9, <1>10, <1>11, Zenon

\* A list of lists over a set is one over a larger set.
LEMMA ListSub ==
    ASSUME NEW S, NEW T, S \subseteq T, NEW s \in Seq(S)
    PROVE  s \in Seq(T)
<1>1. Len(s) \in Nat /\ s \in [1 .. Len(s) -> S]
  BY SequenceIsFunction
<1>2. s \in [1 .. Len(s) -> T]
  BY <1>1, Zenon
<1> QED
  BY <1>1, <1>2

LEMMA ListsSub ==
    ASSUME NEW S, NEW T, S \subseteq T, NEW ss \in Seq(Seq(S))
    PROVE  ss \in Seq(Seq(T))
<1>1. Seq(S) \subseteq Seq(T)
  BY ListSub, Zenon
<1> QED
  BY <1>1, ListSub, Zenon

\* After a frame that is not covered, the solver has the states that are not in it
\* either: the activator is false, and the values of the cubes have variables.
LEMMA NextFrameIsExact ==
    ASSUME question \in Questions, i \in 1 .. depth, NEW m \in Nat, m >= VarCount, nextId = m + 1,
           IsExact(checker, m, i), NEW n \in Nat, n = m + 2 + Len(cubes)
    PROVE  IsExact(checker \cup FrameClauses \cup Clauses(Clause(<<-act>>))
                           \cup Clauses(ClausifyFrameNegation(cubes, act + 1)), n, i + 1)
<1> DEFINE t == question.trace[i]
           N == Len(t)
           x == m + 2
           b == m + 1
           F == FrameNegation(t, x)
           cs == checker \cup FrameClauses \cup {{-act}} \cup F
<1>1. t \in Seq(Seq(Literals(StateVars)))
  BY QuestionIs
<1>2. N \in Nat /\ n = x + N /\ x \in Nat \ {0} /\ act = b /\ act + 1 = x /\ x \in 1 .. n /\ b \in 1 .. n
        /\ m <= n /\ m \in 0 .. n
  <2>1. N \in Nat /\ N = Len(cubes)
    BY <1>1 DEF cubes
  <2> HIDE DEF N
  <2> QED
    BY <2>1 DEF act
<1>3. StateVars \subseteq 1 .. m /\ i \in 1 .. depth + 1 /\ i + 1 \in 1 .. depth + 1
        /\ StateVars \subseteq 1 .. n
  BY VariablesAssumption, QuestionIs
<1>4. t \in Seq(Seq(Lits)) /\ t \in Seq(Seq(Literals(1 .. n)))
  <2>1. Literals(StateVars) \subseteq Lits /\ Literals(StateVars) \subseteq Literals(1 .. n)
    <3>1. Literals(StateVars) \subseteq Literals(1 .. n)
      BY <1>3, Zenon DEF Literals
    <3>2. \A l \in Literals(StateVars) : l \in Lits
      BY StateVariables, LiteralIs, Zenon
    <3> QED
      BY <3>1, <3>2, Zenon
  <2> QED
    BY <1>1, <2>1, ListsSub, Zenon
<1>5. Clauses(ClausifyFrameNegation(cubes, act + 1)) = F
  BY <1>2, <1>4, FrameNegationClauses, Zenon DEF cubes
<1>6. Clauses(Clause(<<-act>>)) = {{-act}}
  <2>1. -act \in Lits
    BY <1>2 DEF Lits
  <2> DEFINE c == <<-act>>
  <2>2. c \in Seq(Lits) /\ ToSet(c) = {-act}
    BY <2>1, UnitList
  <2> HIDE DEF c
  <2>3. Clauses(Clause(c)) = {ToSet(c)}
    BY <2>2, OneClause
  <2> QED
    BY <2>2, <2>3, Zenon DEF c
<1>7. /\ Over(FrameClauses, n)
      /\ \A v \in [1 .. n -> BOOLEAN] : ~v[b] => Satisfies(v, FrameClauses)
  <2>1. n >= m + 1
    BY <1>2
  <2> QED
    BY <2>1, FrameClausesTruth
<1>8. /\ Over(F, n)
      /\ \A v \in [1 .. n -> BOOLEAN] :
             Satisfies(v, F) <=> /\ v[x]
                                 /\ \A k \in 1 .. N : v[x + k] <=> IsModelOfCube(v, t[k])
                                 /\ \E k \in 1 .. N : v[x + k]
  <2> HIDE DEF x, t, F
  <2>1. x + Len(t) <= n
    BY <1>2
  <2>2. /\ Over(FrameNegation(t, x), n)
        /\ \A v \in [1 .. n -> BOOLEAN] :
               Satisfies(v, FrameNegation(t, x)) <=>
                   /\ v[x]
                   /\ \A k \in 1 .. Len(t) : v[x + k] <=> IsModelOfCube(v, t[k])
                   /\ \E k \in 1 .. Len(t) : v[x + k]
    <3>1. n \in Nat /\ t \in Seq(Seq(Literals(1 .. n))) /\ x \in 1 .. n
      BY <1>2, <1>4
    <3> QED
      BY <2>1, <3>1, FrameNegationTruth
  <2> QED
    BY <2>2, Zenon DEF F
<1>9. Over(checker, m) /\ Over(checker, n)
  <2>1. Over(checker, m)
    BY Zenon DEF IsExact
  <2> QED
    BY <1>2, <2>1, OverMore, Zenon
<1>10. \A v \in [1 .. n -> BOOLEAN] : Satisfies(v, {{-act}}) <=> ~v[b]
  <2>1. ASSUME NEW v \in [1 .. n -> BOOLEAN] PROVE Satisfies(v, {{-act}}) <=> ~v[b]
    <3>1. IsTrue(v, -act) <=> ~v[b]
      BY <1>2, VariableTruth, Zenon
    <3> QED
      BY <3>1, Zenon DEF Satisfies
  <2> QED
    BY <2>1, Zenon
<1>11. Over(cs, n)
  <2>1. Over({{-act}}, n)
    <3>1. -act \in Literals(1 .. n)
      BY <1>2, VariableTruth, Zenon DEF Literals
    <3> QED
      BY <3>1, Zenon DEF Over
  <2> HIDE DEF F
  <2> QED
    BY <1>7, <1>8, <1>9, <2>1, Unions, Zenon
<1>12. \A v : Satisfies(v, cs) <=> /\ Satisfies(v, checker) /\ Satisfies(v, FrameClauses)
                                   /\ Satisfies(v, {{-act}}) /\ Satisfies(v, F)
  <2> HIDE DEF F
  <2> QED
    BY Zenon DEF Satisfies
<1> HIDE DEF F, b, cs
<1>13. \A v : InFrame(v, i) <=> \A k \in 1 .. N : ~IsModelOfCube(v, t[k])
  <2>1. DOMAIN t = 1 .. N
    BY <1>1
  <2> QED
    BY <2>1, Zenon DEF InFrame
<1>14. \A w : Left(w, i + 1) <=> Left(w, i) /\ ~InFrame(w, i)
  <2>1. \A j : j \in 1 .. (i + 1) - 1 <=> j \in 1 .. i - 1 \/ j = i
    BY QuestionIs
  <2> QED
    BY <2>1, Zenon DEF Left
<1> HIDE DEF t, N
<1>15. ASSUME NEW v \in [1 .. n -> BOOLEAN], Satisfies(v, cs) PROVE Left(v, i + 1)
  <2>1. PICK u \in [1 .. m -> BOOLEAN] : Agree(u, v, 1 .. m)
    BY <1>2, Restricted, Zenon
  <2>2. Agree(v, u, 1 .. m)
    BY <2>1, Zenon DEF Agree
  <2>3. Satisfies(u, checker)
    BY <1>9, <1>12, <1>15, <2>2, SatisfiesAgree, Zenon
  <2>4. Left(u, i)
    BY <2>3, Zenon DEF IsExact
  <2>5. Agree(u, v, StateVars)
    BY <1>3, <2>1, AgreeSub, Zenon
  <2>6. Left(v, i)
    BY <1>3, <2>4, <2>5, LeftAgree, Zenon
  <2>7. ~InFrame(v, i)
    BY <1>8, <1>12, <1>13, <1>15, Zenon
  <2> QED
    BY <1>14, <2>6, <2>7, Zenon
<1>16. ASSUME NEW w \in [StateVars -> BOOLEAN], Left(w, i + 1)
       PROVE  \E v \in [1 .. n -> BOOLEAN] : Satisfies(v, cs) /\ Agree(v, w, StateVars)
  <2>1. PICK u \in [1 .. m -> BOOLEAN] : Satisfies(u, checker) /\ Agree(u, w, StateVars)
    BY <1>14, <1>16, Zenon DEF IsExact
  <2> DEFINE v == [a \in 1 .. n |-> IF a <= m THEN u[a] ELSE IF a = b THEN FALSE
                                    ELSE IF a = x THEN TRUE ELSE IsModelOfCube(w, t[a - x])]
  <2>2. v \in [1 .. n -> BOOLEAN]
    <3>1. \A a \in 1 .. n : a <= m => a \in 1 .. m
      BY <1>2
    <3>2. \A a \in 1 .. n : IsModelOfCube(w, t[a - x]) \in BOOLEAN
      BY Zenon DEF IsModelOfCube
    <3> HIDE DEF x
    <3> QED
      BY <3>1, <3>2, Zenon
  <2>3. Agree(u, v, 1 .. m)
    <3>1. \A a \in 1 .. m : a \in 1 .. n /\ a <= m
      BY <1>2
    <3> HIDE DEF x
    <3> QED
      BY <3>1, Zenon DEF Agree
  <2>4. v[b] = FALSE /\ v[x] = TRUE
    <3>1. ~(b <= m) /\ ~(x <= m) /\ x # b
      BY DEF b
    <3> HIDE DEF x
    <3> QED
      BY <1>2, <3>1, Zenon
  <2>5. \A k \in 1 .. N : v[x + k] = IsModelOfCube(w, t[k])
    <3>1. ASSUME NEW k \in 1 .. N PROVE v[x + k] = IsModelOfCube(w, t[k])
      <4> DEFINE a == x + k
      <4>1. a \in 1 .. n /\ ~(a <= m) /\ a # b /\ a # x /\ a - x = k
        BY <1>2 DEF b
      <4> HIDE DEF a, x
      <4> QED
        BY <4>1, Zenon DEF a
    <3> QED
      BY <3>1, Zenon
  <2> HIDE DEF v, x
  <2>6. Satisfies(v, checker)
    BY <1>9, <2>1, <2>3, SatisfiesAgree, Zenon
  <2>7. Agree(w, v, StateVars) /\ Agree(v, w, StateVars)
    BY <1>3, <2>1, <2>3, Zenon DEF Agree
  <2>8. ~InFrame(w, i) /\ ~InFrame(v, i)
    BY <1>14, <1>16, <2>7, InFrameAgree, Zenon
  <2>9. ASSUME NEW k \in 1 .. N PROVE IsModelOfCube(w, t[k]) <=> IsModelOfCube(v, t[k])
    <3>1. t[k] \in Seq(Literals(StateVars))
      BY <1>1 DEF N
    <3>2. ToSet(t[k]) \subseteq Literals(StateVars)
      BY <3>1 DEF ToSet
    <3>3. \A l \in Literals(StateVars) : IsTrue(v, l) <=> IsTrue(w, l)
      BY <2>7, StateVariables, AgreeTruth, Zenon
    <3> QED
      BY <3>2, <3>3, Zenon DEF IsModelOfCube
  <2>10. Satisfies(v, F)
    <3>1. \A k \in 1 .. N : v[x + k] <=> IsModelOfCube(v, t[k])
      BY <2>5, <2>9, Zenon
    <3>2. \E k \in 1 .. N : v[x + k]
      BY <1>13, <2>8, <3>1, Zenon
    <3> QED
      BY <1>8, <2>2, <2>4, <3>1, <3>2, Zenon
  <2>11. Satisfies(v, cs)
    BY <1>7, <1>10, <1>12, <2>2, <2>4, <2>6, <2>10, Zenon
  <2> QED
    BY <2>2, <2>7, <2>11, Zenon
<1>17. IsExact(cs, n, i + 1)
  BY <1>11, <1>15, <1>16, Zenon DEF IsExact
<1> QED
  BY <1>5, <1>6, <1>17, Zenon DEF cs

\* The solver begins with the states that are not initial in the forward mode.
LEMMA ForwardIsExact ==
    ASSUME question \in Questions, question.forward
    PROVE  IsExact(Clauses(Negate(FormulaAsCube(question.init))), VarCount, 1)
<1> DEFINE f == question.init
           c == FormulaAsCube(f)
           n == VarCount
<1>1. n \in Nat /\ StateVars \subseteq 1 .. n /\ 1 \in 1 .. depth + 1
  BY VariablesAssumption, QuestionIs
<1>2. f \in Seq(Int) /\ Terminated(f) /\ ToSet(f) \ {0} \subseteq Literals(1 .. n)
        /\ \A d \in Clauses(f) : \E l \in Literals(StateVars) : d = {l}
  BY QuestionIs
<1> HIDE DEF f, n
<1>3. c \in Seq(Lits) /\ ToSet(c) = ToSet(f) \ {0}
  BY <1>2, FormulaAsCubeLiterals
<1>4. UNION Clauses(f) = ToSet(f) \ {0}
  BY <1>2, ClausesLiterals
<1> HIDE DEF c
<1>5. Clauses(Negate(c)) = {Negated(c)}
  BY <1>3, NegateClauses
<1>6. ASSUME NEW l \in ToSet(c) PROVE l \in Literals(1 .. n) /\ -l \in Literals(1 .. n)
  <2>1. 1 .. n \in SUBSET (Nat \ {0}) /\ l \in Literals(1 .. n)
    BY <1>1, <1>2, <1>3, <1>6
  <2> QED
    BY <2>1, LiteralIs, Zenon
<1>7. Over({Negated(c)}, n)
  BY <1>6, Zenon DEF Over, Negated
<1>8. ASSUME NEW v PROVE Left(v, 1) <=> ~IsModel(v, f)
  <2>1. \A j : ~(j \in 1 .. 1 - 1)
    OBVIOUS
  <2> QED
    BY <2>1, Zenon DEF Left, NotInitial, f
<1>9. ASSUME NEW v \in [1 .. n -> BOOLEAN] PROVE Satisfies(v, {Negated(c)}) <=> Left(v, 1)
  <2>1. \A l \in ToSet(c) : IsTrue(v, -l) <=> ~IsTrue(v, l)
    BY <1>1, <1>6, LiteralTruth, Zenon
  <2>2. Satisfies(v, {Negated(c)}) <=> \E l \in ToSet(c) : ~IsTrue(v, l)
    BY <2>1, Zenon DEF Satisfies, Negated
  <2>3. IsModel(v, f) <=> \A l \in UNION Clauses(f) : IsTrue(v, l)
    <3>1. ASSUME NEW d \in Clauses(f)
          PROVE  (\E l \in d : IsTrue(v, l)) <=> \A l \in d : IsTrue(v, l)
      <4>1. PICK l : d = {l}
        BY <1>2, Zenon
      <4> QED
        BY <4>1, Zenon
    <3> QED
      BY <3>1, Zenon DEF IsModel
  <2> QED
    BY <1>3, <1>4, <1>8, <2>2, <2>3, Zenon
<1>10. ASSUME NEW w \in [StateVars -> BOOLEAN], Left(w, 1)
       PROVE  \E v \in [1 .. n -> BOOLEAN] : Satisfies(v, {Negated(c)}) /\ Agree(v, w, StateVars)
  <2> DEFINE v == [a \in 1 .. n |-> IF a \in StateVars THEN w[a] ELSE FALSE]
  <2>1. v \in [1 .. n -> BOOLEAN]
    BY Zenon
  <2>2. Agree(v, w, StateVars) /\ Agree(w, v, StateVars)
    BY <1>1, Zenon DEF Agree
  <2> HIDE DEF v
  <2>3. Left(v, 1)
    BY <1>1, <1>10, <2>2, LeftAgree, Zenon
  <2> QED
    BY <1>9, <2>1, <2>2, <2>3, Zenon
<1> QED
  BY <1>5, <1>7, <1>9, <1>10, Zenon DEF IsExact, c, f, n

\* A list over a set that its elements are in.
LEMMA ListOver ==
    ASSUME NEW S, NEW T, NEW s \in Seq(T), ToSet(s) \subseteq S
    PROVE  s \in Seq(S)
<1>1. Len(s) \in Nat /\ s \in [1 .. Len(s) -> T]
  BY SequenceIsFunction
<1>2. DOMAIN s = 1 .. Len(s)
  OBVIOUS
<1>3. \A k \in 1 .. Len(s) : s[k] \in S
  BY <1>2, Zenon DEF ToSet
<1>4. s \in [1 .. Len(s) -> S]
  BY <1>1, <1>3, Zenon
<1> QED
  BY <1>1, <1>4

\* The parts of a formula over the first m variables, with variables enough for
\* what negate_cnf makes of it.
LEMMA NegationVariables ==
    ASSUME NEW m \in Nat, NEW f \in Seq(Int), Terminated(f), ToSet(f) \ {0} \subseteq Literals(1 .. m)
    PROVE  /\ m + 1 + Len(Split(f)) \in Nat
           /\ Clauses(NegateCnf(f, m + 1)) = FormulaNegation(Split(f), m + 1)
           /\ Split(f) \in Seq(Seq(Literals(1 .. m + 1 + Len(Split(f)))))
           /\ \A k \in 1 .. Len(Split(f)) : ToSet(Split(f)[k]) \subseteq Literals(1 .. m)
<1> DEFINE ps == Split(f)
           n == m + 1 + Len(ps)
           x == m + 1
<1>1. /\ ps \in Seq(Seq(Lits))
      /\ \A k \in 1 .. Len(ps) : ToSet(ps[k]) \subseteq ToSet(f) \ {0}
  BY SplitIs
<1>2. Clauses(NegateCnf(f, x)) = FormulaNegation(ps, x)
  <2>1. x \in Nat \ {0}
    OBVIOUS
  <2> HIDE DEF x
  <2> QED
    BY <1>1, <2>1, FormulaNegationClauses
<1> HIDE DEF ps
<1>3. n \in Nat /\ 1 .. m \subseteq 1 .. n /\ Len(ps) \in Nat
  BY <1>1
<1>4. Literals(1 .. m) \subseteq Literals(1 .. n)
  BY <1>3, Zenon DEF Literals
<1>5. \A k \in 1 .. Len(ps) : ToSet(ps[k]) \subseteq Literals(1 .. m)
  BY <1>1, Zenon
<1> HIDE DEF n
<1>6. ASSUME NEW k \in 1 .. Len(ps) PROVE ps[k] \in Seq(Literals(1 .. n))
  <2>1. ps[k] \in Seq(Lits)
    BY <1>1
  <2>2. ToSet(ps[k]) \subseteq Literals(1 .. n)
    BY <1>4, <1>5, Zenon
  <2> QED
    BY <2>1, <2>2, ListOver, Zenon
<1> DEFINE S == Seq(Literals(1 .. n))
<1>7. ps \in [1 .. Len(ps) -> S]
  <2>1. ps \in [1 .. Len(ps) -> Seq(Lits)]
    BY <1>1, SequenceIsFunction
  <2> QED
    BY <1>6, <2>1, Zenon
<1> HIDE DEF S
<1>8. ps \in Seq(S)
  BY <1>3, <1>7
<1> QED
  BY <1>2, <1>3, <1>5, <1>8, Zenon DEF S, n, ps

LEMMA FormulaNegationSatisfied ==
    ASSUME NEW n \in Nat, NEW cs \in Seq(Seq(Literals(1 .. n))), NEW x \in 1 .. n, x + Len(cs) <= n,
           NEW v \in [1 .. n -> BOOLEAN], ~v[x],
           \A k \in 1 .. Len(cs) : v[x + k] <=> Holds(v, ToSet(cs[k])),
           NEW j \in 1 .. Len(cs), ~v[x + j]
    PROVE  Satisfies(v, FormulaNegation(cs, x))
BY FormulaNegationTruth, Zenon

\* What negate_cnf returns for a formula with a clause excludes no state: every
\* valuation u of the variables, those that satisfy the formula included, extends
\* to one of the variables it makes that satisfies it. The part after the last
\* separator, which std::views::split yields too, is a clause that is false.
THEOREM NegationExcludesNothing ==
    ASSUME NEW m \in Nat, NEW f \in Seq(Int), Terminated(f), ToSet(f) \ {0} \subseteq Literals(1 .. m),
           f # <<>>, NEW u \in [1 .. m -> BOOLEAN]
    PROVE  \E v \in [1 .. m + 1 + Len(Split(f)) -> BOOLEAN] :
               Agree(u, v, 1 .. m) /\ Satisfies(v, Clauses(NegateCnf(f, m + 1)))
<1> DEFINE ps == Split(f)
           K == 1 .. Len(ps)
           x == m + 1
           n == x + Len(ps)
           v == [a \in 1 .. n |-> IF a <= m THEN u[a] ELSE IF a = x THEN FALSE
                                  ELSE Holds(u, ToSet(ps[a - x]))]
<1>1. /\ n \in Nat
      /\ Clauses(NegateCnf(f, x)) = FormulaNegation(ps, x)
      /\ ps \in Seq(Seq(Literals(1 .. n)))
      /\ \A k \in K : ToSet(ps[k]) \subseteq Literals(1 .. m)
  BY NegationVariables
<1>2. ps \in Seq(Seq(Lits)) /\ Len(ps) >= 1 /\ ps[Len(ps)] = <<>>
  BY SplitIs
<1> HIDE DEF ps
<1>3. Len(ps) \in K /\ Len(ps) \in Nat /\ x \in 1 .. n /\ x + Len(ps) <= n
  BY <1>2
<1>4. v \in [1 .. n -> BOOLEAN]
  <2>1. \A a \in 1 .. n : a <= m => a \in 1 .. m
    OBVIOUS
  <2>2. \A a \in 1 .. n : Holds(u, ToSet(ps[a - x])) \in BOOLEAN
    BY Zenon DEF Holds
  <2> HIDE DEF x, n
  <2> QED
    BY <2>1, <2>2, Zenon
<1>5. Agree(u, v, 1 .. m) /\ v[x] = FALSE
  <2>1. \A a \in 1 .. m : a \in 1 .. n /\ a <= m
    BY <1>3
  <2>2. ~(x <= m)
    OBVIOUS
  <2> HIDE DEF x, n
  <2> QED
    BY <1>3, <2>1, <2>2, Zenon DEF Agree
<1>6. \A k \in K : v[x + k] = Holds(u, ToSet(ps[k]))
  <2>1. ASSUME NEW k \in K PROVE v[x + k] = Holds(u, ToSet(ps[k]))
    <3> DEFINE a == x + k
    <3>1. a \in 1 .. n /\ ~(a <= m) /\ a # x /\ a - x = k
      BY <1>3
    <3> HIDE DEF a, x, n
    <3> QED
      BY <3>1, Zenon DEF a
  <2> QED
    BY <2>1, Zenon
<1> HIDE DEF v, x, n
<1>7. ASSUME NEW k \in K PROVE Holds(u, ToSet(ps[k])) <=> Holds(v, ToSet(ps[k]))
  <2>1. 1 .. m \in SUBSET (Nat \ {0})
    OBVIOUS
  <2>2. \A l \in Literals(1 .. m) : IsTrue(u, l) <=> IsTrue(v, l)
    BY <1>5, <2>1, AgreeTruth, Zenon
  <2> QED
    BY <1>1, <2>2, Zenon DEF Holds
<1>8. v[x + Len(ps)] = FALSE
  <2>1. ToSet(<<>>) = {}
    BY DEF ToSet
  <2>2. ~Holds(u, {})
    BY Zenon DEF Holds
  <2>3. v[x + Len(ps)] = Holds(u, ToSet(ps[Len(ps)]))
    BY <1>3, <1>6, Zenon
  <2>4. ToSet(ps[Len(ps)]) = {}
    BY <1>2, <2>1, Zenon
  <2>5. v[x + Len(ps)] = Holds(u, {})
    BY <2>3, <2>4, Zenon
  <2>6. Holds(u, {}) \in BOOLEAN
    BY Zenon DEF Holds
  <2> QED
    BY <2>2, <2>5, <2>6, Zenon
<1>9. Satisfies(v, FormulaNegation(ps, x))
  <2>1. n \in Nat /\ ps \in Seq(Seq(Literals(1 .. n))) /\ x \in 1 .. n /\ x + Len(ps) <= n
    BY <1>1, <1>3
  <2>2. \A k \in 1 .. Len(ps) : v[x + k] <=> Holds(v, ToSet(ps[k]))
    BY <1>6, <1>7, Zenon
  <2>3. ~v[x] /\ ~v[x + Len(ps)] /\ Len(ps) \in 1 .. Len(ps)
    BY <1>3, <1>5, <1>8, Zenon
  <2> HIDE DEF K
  <2> QED
    BY <1>4, <2>1, <2>2, <2>3, FormulaNegationSatisfied, Zenon
<1> QED
  BY <1>1, <1>4, <1>5, <1>9, Zenon DEF n, x, ps

\* The solver begins with all states in the backward mode, with none if the initial
\* formula has no clause.
LEMMA BackwardIsExact ==
    ASSUME question \in Questions, ~question.forward
    PROVE  IsExact(Clauses(NegateCnf(question.init, VarCount + 1)), VarCount + 1 + Len(Split(question.init)), 1)
<1> DEFINE f == question.init
           m == VarCount
           n == m + 1 + Len(Split(f))
           cs == Clauses(NegateCnf(f, m + 1))
<1>1. m \in Nat /\ StateVars \subseteq 1 .. m
  BY VariablesAssumption
<1>2. f \in Seq(Int) /\ Terminated(f) /\ ToSet(f) \ {0} \subseteq Literals(1 .. m)
  BY QuestionIs
<1> HIDE DEF f, m
<1>3. ASSUME NEW v PROVE Left(v, 1) <=> f # <<>>
  <2>1. \A j : ~(j \in 1 .. 1 - 1)
    OBVIOUS
  <2> QED
    BY <2>1, Zenon DEF Left, NotInitial, f
<1> DEFINE ps == Split(f)
           x == m + 1
<1>4. /\ n \in Nat
      /\ cs = FormulaNegation(ps, x)
      /\ ps \in Seq(Seq(Literals(1 .. n)))
  BY <1>1, <1>2, NegationVariables
<1>5. f = <<>> => ps = <<>>
  BY <1>2, SplitIs
<1> HIDE DEF ps
<1>6. Len(ps) \in Nat /\ n = x + Len(ps) /\ x \in 1 .. n /\ x + Len(ps) <= n
  BY <1>1, <1>4 DEF ps
<1> HIDE DEF n, x, cs
<1>7. /\ Over(FormulaNegation(ps, x), n)
      /\ \A v \in [1 .. n -> BOOLEAN] :
             Satisfies(v, FormulaNegation(ps, x)) =>
                 \E k \in 1 .. Len(ps) : ~v[x + k]
  BY <1>4, <1>6, FormulaNegationTruth
<1>8. ASSUME NEW v \in [1 .. n -> BOOLEAN], Satisfies(v, cs) PROVE Left(v, 1)
  <2>1. PICK k \in 1 .. Len(ps) : TRUE
    BY <1>4, <1>7, <1>8, Zenon
  <2>2. ps # <<>>
    BY <2>1
  <2> QED
    BY <1>3, <1>5, <2>2, Zenon
<1>9. ASSUME NEW w \in [StateVars -> BOOLEAN], Left(w, 1)
      PROVE  \E v \in [1 .. n -> BOOLEAN] : Satisfies(v, cs) /\ Agree(v, w, StateVars)
  <2> DEFINE u == [a \in 1 .. m |-> IF a \in StateVars THEN w[a] ELSE FALSE]
  <2>1. u \in [1 .. m -> BOOLEAN] /\ Agree(u, w, StateVars)
    BY <1>1, Zenon DEF Agree
  <2> HIDE DEF u
  <2>2. f # <<>>
    BY <1>3, <1>9, Zenon
  <2>3. PICK v \in [1 .. n -> BOOLEAN] : Agree(u, v, 1 .. m) /\ Satisfies(v, cs)
    BY <1>1, <1>2, <2>1, <2>2, NegationExcludesNothing, Zenon DEF n, cs
  <2>4. Agree(v, w, StateVars)
    BY <1>1, <2>1, <2>3, Zenon DEF Agree
  <2> QED
    BY <2>3, <2>4, Zenon
<1> QED
  BY <1>4, <1>7, <1>8, <1>9, Zenon DEF IsExact, n, cs, m, f

-----------------------------------------------------------------------------
(* is_inductive.                                                           *)

LEMMA CheckerInit == Init => CheckerInv
<1> SUFFICES ASSUME Init PROVE CheckerInv
  OBVIOUS
<1>1. question \in Questions /\ pc = "initialize" /\ nextId = VarCount + 1 /\ i = 1 /\ answer = FALSE
  BY DEF Init
<1>2. i \in 1 .. depth
  BY <1>1, QuestionIs
<1> QED
  BY <1>1, <1>2 DEF CheckerInv

\* IsCovered, Left and what they are made of depend on the question only.
LEMMA SameQuestion ==
    ASSUME question' = question
    PROVE  /\ depth' = depth
           /\ \A k : IsCovered(k)' <=> IsCovered(k)
           /\ \A cs, n, k : IsExact(cs, n, k)' <=> IsExact(cs, n, k)
<1>1. depth' = depth
  BY DEF depth
<1>2. \A v, k : InFrame(v, k)' <=> InFrame(v, k)
  BY Zenon DEF InFrame
<1>3. \A k : IsCovered(k)' <=> IsCovered(k)
  BY <1>2, Zenon DEF IsCovered
<1>4. \A v, k : Left(v, k)' <=> Left(v, k)
  BY <1>2, Zenon DEF Left, NotInitial
<1>5. \A cs, n, k : IsExact(cs, n, k)' <=> IsExact(cs, n, k)
  BY <1>4, Zenon DEF IsExact
<1> QED
  BY <1>1, <1>3, <1>5

LEMMA InitializeStep == CheckerInv /\ Initialize => CheckerInv'
<1> SUFFICES ASSUME CheckerInv, Initialize PROVE CheckerInv'
  OBVIOUS
<1>1. question \in Questions /\ nextId = VarCount + 1 /\ i = 1 /\ answer = FALSE /\ i \in 1 .. depth
  BY DEF CheckerInv, Initialize
<1>2. question' = question /\ pc' = "frame" /\ i' = i /\ answer' = answer /\ checker' = Clauses(initNegated')
  BY DEF Initialize
<1>3. \E m \in Nat : m >= VarCount /\ nextId' = m + 1 /\ IsExact(checker', m, 1)
  <2>1. CASE question.forward
    <3>1. checker' = Clauses(Negate(FormulaAsCube(question.init))) /\ nextId' = VarCount + 1
      BY <1>1, <1>2, <2>1, Zenon DEF Initialize
    <3>2. IsExact(checker', VarCount, 1)
      BY <1>1, <2>1, <3>1, ForwardIsExact, Zenon
    <3>3. VarCount \in Nat /\ VarCount >= VarCount
      BY VariablesAssumption
    <3> QED
      BY <3>1, <3>2, <3>3, Zenon
  <2>2. CASE ~question.forward
    <3> DEFINE m == VarCount + 1 + Len(Split(question.init))
    <3>1. checker' = Clauses(NegateCnf(question.init, VarCount + 1))
            /\ nextId' = VarCount + 1 + 1 + Len(Split(question.init))
      BY <1>1, <1>2, <2>2, Zenon DEF Initialize
    <3>2. IsExact(checker', m, 1)
      BY <1>1, <2>2, <3>1, BackwardIsExact, Zenon
    <3>3. Len(Split(question.init)) \in Nat
      <4>1. Split(question.init) \in Seq(Seq(Lits))
        BY <1>1, QuestionIs, SplitIs
      <4> QED
        BY <4>1
    <3>4. m \in Nat /\ m >= VarCount /\ nextId' = m + 1
      <4> DEFINE k == Len(Split(question.init))
      <4> HIDE DEF k
      <4> QED
        BY <3>1, <3>3, VariablesAssumption DEF k
    <3> HIDE DEF m
    <3> QED
      BY <3>2, <3>4, Zenon
  <2> QED
    BY <2>1, <2>2
<1>4. \E m \in Nat : m >= VarCount /\ nextId' = m + 1 /\ IsExact(checker, m, i)'
  <2>1. PICK m \in Nat : m >= VarCount /\ nextId' = m + 1 /\ IsExact(checker', m, 1)
    BY <1>3
  <2>2. IsExact(checker, m, i)'
    BY <1>1, <1>2, <2>1, SameQuestion, Zenon DEF IsExact, Left, NotInitial, InFrame
  <2> QED
    BY <2>1, <2>2, Zenon
<1>5. \A k \in 1 .. i' - 1 : ~IsCovered(k)'
  BY <1>1, <1>2
<1>6. i' \in 1 .. depth'
  BY <1>1, <1>2, SameQuestion
<1> QED
  BY <1>1, <1>2, <1>4, <1>5, <1>6, Zenon DEF CheckerInv

LEMMA CoveredStep == CheckerInv /\ Covered => CheckerInv'
<1> SUFFICES ASSUME CheckerInv, Covered PROVE CheckerInv'
  OBVIOUS
<1>1. /\ question \in Questions /\ i \in 1 .. depth
      /\ \E m \in Nat : m >= VarCount /\ nextId = m + 1 /\ IsExact(checker, m, i)
  BY DEF CheckerInv, Covered
<1>2. IsUnsat /\ question' = question /\ pc' = "done" /\ i' = i /\ answer' = TRUE
  BY DEF Covered
<1>3. IsCovered(i)
  BY <1>1, <1>2, QueryIsRight, Zenon
<1>4. IsCovered(i)'
  <2>1. IsCovered(i') <=> IsCovered(i)
    BY <1>2, Zenon
  <2> QED
    BY <1>2, <1>3, SameQuestion, Zenon DEF IsCovered, InFrame
<1>5. i' \in 1 .. depth'
  BY <1>1, <1>2, SameQuestion
<1> QED
  BY <1>1, <1>2, <1>4, <1>5 DEF CheckerInv

LEMMA NextFrameStep == CheckerInv /\ NextFrame => CheckerInv'
<1> SUFFICES ASSUME CheckerInv, NextFrame PROVE CheckerInv'
  OBVIOUS
<1>1. /\ question \in Questions /\ i \in 1 .. depth /\ answer = FALSE /\ pc = "frame"
      /\ \E m \in Nat : m >= VarCount /\ nextId = m + 1 /\ IsExact(checker, m, i)
      /\ \A k \in 1 .. i - 1 : ~IsCovered(k)
  BY DEF CheckerInv, NextFrame
<1> DEFINE cs == checker \cup FrameClauses \cup Clauses(Clause(<<-act>>))
                         \cup Clauses(ClausifyFrameNegation(cubes, act + 1))
<1>2. /\ ~IsUnsat /\ i < depth /\ question' = question /\ pc' = pc /\ i' = i + 1 /\ answer' = answer
      /\ checker' = cs /\ nextId' = nextId + 2 + Len(cubes)
  BY DEF NextFrame
<1> HIDE DEF cs
<1>3. ~IsCovered(i)
  BY <1>1, <1>2, QueryIsRight, Zenon
<1>4. depth \in Nat /\ i + 1 \in 1 .. depth
  BY <1>1, <1>2, QuestionIs
<1>5. \E n \in Nat : n >= VarCount /\ nextId' = n + 1 /\ IsExact(cs, n, i + 1)
  <2>1. PICK m \in Nat : m >= VarCount /\ nextId = m + 1 /\ IsExact(checker, m, i)
    BY <1>1
  <2> DEFINE n == m + 2 + Len(cubes)
  <2>2. Len(cubes) \in Nat
    <3>1. cubes \in Seq(Seq(Literals(StateVars)))
      BY <1>1, QuestionIs DEF cubes
    <3> QED
      BY <3>1
  <2>3. n \in Nat /\ n >= VarCount /\ nextId' = n + 1
    BY <1>2, <2>1, <2>2, VariablesAssumption
  <2>4. IsExact(cs, n, i + 1)
    <3>1. n \in Nat /\ n = m + 2 + Len(cubes)
      BY <2>3
    <3> HIDE DEF n
    <3> QED
      BY <1>1, <2>1, <3>1, NextFrameIsExact, Zenon DEF cs
  <2> HIDE DEF n
  <2> QED
    BY <2>3, <2>4, Zenon
<1>6. \E n \in Nat : n >= VarCount /\ nextId' = n + 1 /\ IsExact(checker, n, i)'
  <2>1. PICK n \in Nat : n >= VarCount /\ nextId' = n + 1 /\ IsExact(cs, n, i + 1)
    BY <1>5
  <2>2. IsExact(checker, n, i)'
    BY <1>2, <2>1, Zenon DEF IsExact, Left, NotInitial, InFrame
  <2> QED
    BY <2>1, <2>2, Zenon
<1>7. ASSUME NEW k \in 1 .. i' - 1 PROVE ~IsCovered(k)'
  <2>1. k \in 1 .. i - 1 \/ k = i
    BY <1>1, <1>2, <1>4
  <2>2. ~IsCovered(k)
    BY <1>1, <1>3, <2>1, Zenon
  <2> QED
    BY <1>2, <2>2, SameQuestion, Zenon
<1>8. i' \in 1 .. depth'
  BY <1>2, <1>4, SameQuestion
<1>9. question' \in Questions /\ pc' = "frame" /\ answer' = FALSE
  BY <1>1, <1>2
<1> QED
  BY <1>6, <1>7, <1>8, <1>9, Zenon DEF CheckerInv

LEMMA NotCoveredStep == CheckerInv /\ NotCovered => CheckerInv'
<1> SUFFICES ASSUME CheckerInv, NotCovered PROVE CheckerInv'
  OBVIOUS
<1>1. /\ question \in Questions /\ i \in 1 .. depth /\ answer = FALSE
      /\ \E m \in Nat : m >= VarCount /\ nextId = m + 1 /\ IsExact(checker, m, i)
      /\ \A k \in 1 .. i - 1 : ~IsCovered(k)
  BY DEF CheckerInv, NotCovered
<1>2. ~IsUnsat /\ i = depth /\ question' = question /\ pc' = "done" /\ i' = i /\ answer' = answer
  BY DEF NotCovered
<1>3. ~IsCovered(i)
  BY <1>1, <1>2, QueryIsRight, Zenon
<1>4. ASSUME NEW k \in 1 .. depth' PROVE ~IsCovered(k)'
  <2>1. k \in 1 .. i - 1 \/ k = i
    BY <1>1, <1>2, SameQuestion, QuestionIs
  <2>2. ~IsCovered(k)
    BY <1>1, <1>3, <2>1, Zenon
  <2> QED
    BY <1>2, <2>2, SameQuestion, Zenon
<1>5. i' \in 1 .. depth'
  BY <1>1, <1>2, SameQuestion
<1>6. question' \in Questions /\ pc' = "done" /\ answer' = FALSE
  BY <1>1, <1>2
<1> QED
  BY <1>4, <1>5, <1>6 DEF CheckerInv

LEMMA UnchangedStep == CheckerInv /\ UNCHANGED vars => CheckerInv'
<1> SUFFICES ASSUME CheckerInv, UNCHANGED vars PROVE CheckerInv'
  OBVIOUS
<1>1. /\ question' = question /\ pc' = pc /\ nextId' = nextId /\ checker' = checker
      /\ i' = i /\ answer' = answer
  BY DEF vars
<1>2. depth' = depth
  BY <1>1, SameQuestion
<1>3. \A m : IsExact(checker, m, i)' <=> IsExact(checker, m, i)
  BY <1>1, Zenon DEF IsExact, Left, NotInitial, InFrame
<1>4. \A k : IsCovered(k)' <=> IsCovered(k)
  BY <1>1, SameQuestion, Zenon
<1>5. IsCovered(i)' <=> IsCovered(i)
  BY <1>1, Zenon DEF IsCovered, InFrame
<1> QED
  BY <1>1, <1>2, <1>3, <1>4, <1>5, Zenon DEF CheckerInv

\* CheckerInv holds for every set of questions: at a frame, the clauses in the
\* solver of is_inductive can be satisfied in exactly the states that are neither
\* initial nor in an earlier frame, whatever the trace and the initial formula.
THEOREM CheckerInvariant == Spec => []CheckerInv
<1>1. CheckerInv /\ [Next]_vars => CheckerInv'
  BY InitializeStep, CoveredStep, NextFrameStep, NotCoveredStep, UnchangedStep DEF Next, Answered
<1> QED
  BY <1>1, CheckerInit, PTL DEF Spec

\* is_inductive returns true exactly if a frame is covered, for every trace of
\* cubes and every initial formula over any number of variables.
THEOREM InductiveAnswersAreRight == Spec => []AnswerIsRight
<1>1. CheckerInv => AnswerIsRight
  BY DEF CheckerInv, AnswerIsRight
<1> QED
  BY <1>1, CheckerInvariant, PTL
=============================================================================
