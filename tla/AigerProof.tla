----------------------------- MODULE AigerProof -----------------------------
(***************************************************************************)
(* The builder's one pass over the gates misses none of them, for graphs   *)
(* of any size in any numbering. It relies on the order of the gates,      *)
(* which is the order in which aiger_reencode_lit leaves them, and which   *)
(* is right because aiger_check has found no cycle. The two traversals     *)
(* have the same kind of stack and share the lemmas about it.              *)
(***************************************************************************)
EXTENDS Geyser, SystemLemmas, FiniteSetTheorems, TLAPS

-----------------------------------------------------------------------------
(* Literals and graphs.                                                    *)

\* A literal is twice its variable, plus its sign.
LEMMA LiteralParts ==
    ASSUME NEW l \in Nat
    PROVE  Var(l) \in Nat /\ Sign(l) \in {0, 1} /\ l = 2 * Var(l) + Sign(l)
BY DEF Var, Sign

\* The variable of a positive literal.
LEMMA VarOfPositive ==
    ASSUME NEW v \in Nat
    PROVE  Var(2 * v) = v /\ Sign(2 * v) = 0
BY DEF Var, Sign

\* The variable c is an operand of the gate v.
IsChild(g, c, v) ==
    \E i \in DOMAIN g.ands : g.ands[i].lhs = 2 * v /\ c \in {Var(g.ands[i].rhs0), Var(g.ands[i].rhs1)}

\* The ranks that are higher for a gate than for the gates it depends on. A graph
\* with a cycle has none.
Ranks(g) ==
    {q \in [1 .. g.maxvar -> Nat] : \A v, c \in 1 .. g.maxvar :
        IsAnd(g, v) /\ IsAnd(g, c) /\ IsChild(g, c, v) => q[c] < q[v]}

-----------------------------------------------------------------------------
(* The stack of a traversal: a gate that has been entered has a 0 on top   *)
(* of it, and above that those of its operands that are still to be        *)
(* traversed.                                                              *)

\* The gate v has been entered at position k of the stack s.
Opened(s, k, v) ==
    /\ k \in 1 .. Len(s) /\ k + 1 \in 1 .. Len(s)
    /\ s[k] = v /\ v # 0 /\ s[k + 1] = 0

\* The gates in on are those that have been entered, each once.
Shape(g, s, on) ==
    /\ s \in Seq(0 .. g.maxvar)
    /\ \A k \in 1 .. Len(s) : s[k] = 0 => k - 1 \in 1 .. Len(s) /\ s[k - 1] # 0
    /\ \A k, v : Opened(s, k, v) => IsAnd(g, v)
    /\ \A v : v \in on <=> \E k : Opened(s, k, v)
    /\ \A k, m, v : Opened(s, k, v) /\ Opened(s, m, v) => k = m

\* An operand of a gate that has been entered is done, or above it.
Covered(g, s, done) ==
    \A k, v, c : Opened(s, k, v) /\ IsChild(g, c, v) =>
        c \in done \/ \E m \in 1 .. Len(s) : k + 1 < m /\ s[m] = c

\* What is above a gate has a lower rank.
Descends(g, s, q) ==
    \A k, v : Opened(s, k, v) =>
        \A m \in 1 .. Len(s) : k + 1 < m /\ s[m] # 0 /\ IsAnd(g, s[m]) => q[s[m]] < q[v]

Traversed(g, s, on, done) ==
    /\ Shape(g, s, on)
    /\ Covered(g, s, done)
    /\ \A q \in Ranks(g) : Descends(g, s, q)

\* A stack without its top.
LEMMA FrontOf ==
    ASSUME NEW T, NEW s \in Seq(T), s # <<>>
    PROVE  /\ Len(s) \in Nat /\ Len(s) > 0
           /\ Front(s) \in Seq(T)
           /\ Len(Front(s)) = Len(s) - 1
           /\ \A m \in 1 .. Len(s) - 1 : Front(s)[m] = s[m]
<1>1. Front(s) \in Seq(T)
  BY DEF Front
<1>2. Len(Front(s)) = Len(s) - 1
  BY DEF Front
<1>3. \A m \in 1 .. Len(s) - 1 : Front(s)[m] = s[m]
  BY DEF Front
<1>4. Len(s) \in Nat /\ Len(s) > 0
  OBVIOUS
<1> QED
  BY <1>1, <1>2, <1>3, <1>4

\* Taking off a variable that has not been entered.
LEMMA OpenedAfterPop ==
    ASSUME NEW T, NEW s \in Seq(T), s # <<>>, Last(s) # 0
    PROVE  /\ Front(s) \in Seq(T)
           /\ Len(Front(s)) = Len(s) - 1
           /\ \A m \in 1 .. Len(s) - 1 : Front(s)[m] = s[m]
           /\ \A k, v : Opened(Front(s), k, v) <=> Opened(s, k, v)
<1>1. Len(s) \in Nat /\ Len(s) > 0 /\ Front(s) \in Seq(T)
  BY FrontOf
<1>2. Len(Front(s)) = Len(s) - 1 /\ \A m \in 1 .. Len(s) - 1 : Front(s)[m] = s[m]
  BY FrontOf
<1>3. s[Len(s)] # 0
  BY DEF Last
<1>4. ASSUME NEW k, NEW v PROVE Opened(Front(s), k, v) <=> Opened(s, k, v)
  BY <1>1, <1>2, <1>3 DEF Opened
<1> QED
  BY <1>1, <1>2, <1>4

\* The elements of three sequences, joined.
LEMMA Concatenated ==
    ASSUME NEW T, NEW a \in Seq(T), NEW p \in Seq(T), NEW q \in Seq(T),
           NEW b, b = a \o p, NEW e, e = b \o q
    PROVE  /\ e \in Seq(T)
           /\ Len(e) = Len(a) + Len(p) + Len(q)
           /\ \A m \in 1 .. Len(a) : e[m] = a[m]
           /\ \A m \in 1 .. Len(p) : e[Len(a) + m] = p[m]
           /\ \A m \in 1 .. Len(q) : e[Len(a) + Len(p) + m] = q[m]
<1>1. b \in Seq(T)
  OBVIOUS
<1>2. Len(b) = Len(a) + Len(p)
  OBVIOUS
<1>3. \A m \in 1 .. Len(a) : b[m] = a[m]
  OBVIOUS
<1>4. \A m \in 1 .. Len(p) : b[Len(a) + m] = p[m]
  OBVIOUS
<1>5. e \in Seq(T)
  BY <1>1
<1>6. Len(e) = Len(b) + Len(q)
  BY <1>1
<1>7. \A m \in 1 .. Len(b) : e[m] = b[m]
  BY <1>1
<1>8. \A m \in 1 .. Len(q) : e[Len(b) + m] = q[m]
  BY <1>1
<1>9. Len(a) \in Nat /\ Len(p) \in Nat /\ Len(q) \in Nat
  OBVIOUS
<1>10. /\ Len(e) = Len(a) + Len(p) + Len(q)
       /\ \A m \in 1 .. Len(a) : e[m] = a[m]
       /\ \A m \in 1 .. Len(p) : e[Len(a) + m] = p[m]
       /\ \A m \in 1 .. Len(q) : e[Len(a) + Len(p) + m] = q[m]
  BY ONLY <1>2, <1>3, <1>4, <1>6, <1>7, <1>8, <1>9
<1> QED
  BY <1>5, <1>10

\* The stack e is s with a 0 and the sequences p and q above it.
Stacked(s, p, q, e) ==
    /\ Len(e) = Len(s) + 1 + Len(p) + Len(q)
    /\ \A m \in 1 .. Len(s) : e[m] = s[m]
    /\ e[Len(s) + 1] = 0
    /\ \A m \in 1 .. Len(p) : e[Len(s) + 1 + m] = p[m]
    /\ \A m \in 1 .. Len(q) : e[Len(s) + 1 + Len(p) + m] = q[m]
    /\ \A m \in 1 .. Len(e) : m > Len(s) + 1 =>
        \/ \E j \in 1 .. Len(p) : e[m] = p[j]
        \/ \E j \in 1 .. Len(q) : e[m] = q[j]
    /\ \A k, v : Opened(e, k, v) <=> Opened(s, k, v) \/ (k = Len(s) /\ v = Last(s))

\* Entering the variable on top.
LEMMA OpenedAfterEnter ==
    ASSUME NEW T, 0 \in T, NEW s \in Seq(T), s # <<>>, Last(s) # 0,
           NEW p \in Seq(T \ {0}), NEW q \in Seq(T \ {0}), NEW e, e = s \o << 0 >> \o p \o q
    PROVE  e \in Seq(T) /\ Stacked(s, p, q, e)
<1>1. /\ Len(s) \in Nat /\ Len(s) > 0 /\ Len(p) \in Nat /\ Len(q) \in Nat
      /\ p \in Seq(T) /\ q \in Seq(T)
  OBVIOUS
<1>2. PICK a, b : a = s \o <<0>> /\ b = a \o p /\ e = b \o q
  OBVIOUS
<1>3. a \in Seq(T)
  BY <1>2
<1>4. Len(a) = Len(s) + 1 /\ (\A m \in 1 .. Len(s) : a[m] = s[m]) /\ a[Len(s) + 1] = 0
  BY <1>2
<1>5. /\ e \in Seq(T) /\ Len(e) = Len(a) + Len(p) + Len(q)
      /\ \A m \in 1 .. Len(a) : e[m] = a[m]
      /\ \A m \in 1 .. Len(p) : e[Len(a) + m] = p[m]
      /\ \A m \in 1 .. Len(q) : e[Len(a) + Len(p) + m] = q[m]
  BY ONLY <1>1, <1>2, <1>3, Concatenated
<1>6. /\ e \in Seq(T)
      /\ Len(e) = Len(s) + 1 + Len(p) + Len(q)
      /\ \A m \in 1 .. Len(s) : e[m] = s[m]
      /\ e[Len(s) + 1] = 0
      /\ \A m \in 1 .. Len(p) : e[Len(s) + 1 + m] = p[m]
      /\ \A m \in 1 .. Len(q) : e[Len(s) + 1 + Len(p) + m] = q[m]
  BY ONLY <1>1, <1>4, <1>5
<1>7. ASSUME NEW m \in 1 .. Len(e), m > Len(s) + 1
      PROVE  (\E j \in 1 .. Len(p) : e[m] = p[j]) \/ (\E j \in 1 .. Len(q) : e[m] = q[j])
  <2>1. CASE m <= Len(s) + 1 + Len(p)
    <3>1. m - (Len(s) + 1) \in 1 .. Len(p) /\ m = Len(s) + 1 + (m - (Len(s) + 1))
      BY <1>1, <1>6, <1>7, <2>1
    <3> QED
      BY <1>6, <3>1
  <2>2. CASE m > Len(s) + 1 + Len(p)
    <3>1. /\ m - (Len(s) + 1 + Len(p)) \in 1 .. Len(q)
          /\ m = Len(s) + 1 + Len(p) + (m - (Len(s) + 1 + Len(p)))
      BY <1>1, <1>6, <1>7, <2>2
    <3> QED
      BY <1>6, <3>1
  <2> QED
    BY <1>1, <1>6, <1>7, <2>1, <2>2
<1>8. \A m \in 1 .. Len(e) : m > Len(s) + 1 => e[m] # 0
  <2>1. (\A j \in 1 .. Len(p) : p[j] # 0) /\ (\A j \in 1 .. Len(q) : q[j] # 0)
    OBVIOUS
  <2> QED
    BY <1>7, <2>1
<1>9. ASSUME NEW k, NEW v PROVE Opened(e, k, v) <=> Opened(s, k, v) \/ (k = Len(s) /\ v = Last(s))
  <2>1. s[Len(s)] # 0
    BY DEF Last
  <2>2. ASSUME Opened(e, k, v) PROVE Opened(s, k, v) \/ (k = Len(s) /\ v = Last(s))
    <3>1. k \in 1 .. Len(e) /\ k + 1 \in 1 .. Len(e) /\ e[k] = v /\ v # 0 /\ e[k + 1] = 0
      BY <2>2 DEF Opened
    <3>2. k + 1 <= Len(s) + 1
      BY <1>1, <1>8, <3>1
    <3>3. CASE k = Len(s)
      BY <1>1, <1>6, <3>1, <3>3 DEF Last
    <3>4. CASE k < Len(s)
      BY <1>1, <1>6, <3>1, <3>4 DEF Opened
    <3> QED
      BY <1>1, <3>1, <3>2, <3>3, <3>4
  <2>3. ASSUME Opened(s, k, v) PROVE Opened(e, k, v)
    BY <1>1, <1>6, <2>3 DEF Opened
  <2>4. ASSUME k = Len(s), v = Last(s) PROVE Opened(e, k, v)
    BY <1>1, <1>6, <2>1, <2>4 DEF Opened, Last
  <2> QED
    BY <2>2, <2>3, <2>4
<1> QED
  BY ONLY <1>6, <1>7, <1>9 DEF Stacked

\* Leaving the gate under the 0 on top.
LEMMA OpenedAfterLeave ==
    ASSUME NEW T, NEW s \in Seq(T), Len(s) > 1, Last(s) = 0, s[Len(s) - 1] # 0
    PROVE  /\ Front(Front(s)) \in Seq(T)
           /\ Len(Front(Front(s))) = Len(s) - 2
           /\ \A m \in 1 .. Len(s) - 2 : Front(Front(s))[m] = s[m]
           /\ Last(Front(s)) = s[Len(s) - 1]
           /\ Opened(s, Len(s) - 1, Last(Front(s)))
           /\ \A k, v : Opened(Front(Front(s)), k, v) <=> Opened(s, k, v) /\ k # Len(s) - 1
<1> DEFINE f == Front(s)
           e == Front(f)
<1>1. Len(s) \in Nat /\ s[Len(s)] = 0
  BY DEF Last
<1>2. f \in Seq(T) /\ Len(f) = Len(s) - 1 /\ \A m \in 1 .. Len(s) - 1 : f[m] = s[m]
  <2>1. s # <<>>
    BY <1>1
  <2> QED
    BY <2>1, FrontOf
<1> HIDE DEF f
<1>3. e \in Seq(T) /\ Len(e) = Len(f) - 1 /\ \A m \in 1 .. Len(f) - 1 : e[m] = f[m]
  <2>1. f # <<>>
    BY <1>1, <1>2
  <2> QED
    BY <1>2, <2>1, FrontOf
<1> HIDE DEF e
<1>4. e \in Seq(T) /\ Len(e) = Len(s) - 2 /\ \A m \in 1 .. Len(s) - 2 : e[m] = s[m]
  BY <1>1, <1>2, <1>3
<1>5. Last(f) = s[Len(s) - 1]
  BY <1>1, <1>2 DEF Last
<1>6. Opened(s, Len(s) - 1, Last(f))
  BY <1>1, <1>5 DEF Opened
<1>7. ASSUME NEW k, NEW v PROVE Opened(e, k, v) <=> Opened(s, k, v) /\ k # Len(s) - 1
  <2>1. ASSUME Opened(e, k, v) PROVE Opened(s, k, v) /\ k # Len(s) - 1
    BY <1>1, <1>4, <2>1 DEF Opened
  <2>2. ASSUME Opened(s, k, v), k # Len(s) - 1 PROVE Opened(e, k, v)
    <3>1. k \in 1 .. Len(s) /\ k + 1 \in 1 .. Len(s) /\ s[k] = v /\ v # 0 /\ s[k + 1] = 0
      BY <2>2 DEF Opened
    <3>2. k + 1 # Len(s) /\ k + 1 # Len(s) - 1
      BY <1>1, <2>2, <3>1
    <3>3. k \in 1 .. Len(s) - 2 /\ k + 1 \in 1 .. Len(s) - 2
      BY <1>1, <3>1, <3>2
    <3> QED
      BY <1>4, <3>1, <3>3 DEF Opened
  <2> QED
    BY <2>1, <2>2
<1> QED
  BY <1>4, <1>5, <1>6, <1>7 DEF e, f

-----------------------------------------------------------------------------
(* What the steps of a traversal keep.                                     *)

\* There is nothing to traverse on an empty stack.
LEMMA EmptyTraversal ==
    ASSUME NEW g, NEW done
    PROVE  Traversed(g, <<>>, {}, done)
<1>1. \A k, v : ~Opened(<<>>, k, v)
  BY DEF Opened
<1>2. Shape(g, <<>>, {})
  BY <1>1 DEF Shape
<1>3. Covered(g, <<>>, done)
  BY <1>1 DEF Covered
<1>4. \A q : Descends(g, <<>>, q)
  BY <1>1 DEF Descends
<1> QED
  BY <1>2, <1>3, <1>4 DEF Traversed

\* A traversal starts at a variable.
LEMMA TraversalStarts ==
    ASSUME NEW g, NEW done, g.maxvar \in Nat, NEW v \in 1 .. g.maxvar
    PROVE  Traversed(g, <<v>>, {}, done)
<1>1. \A k, u : ~Opened(<<v>>, k, u)
  BY DEF Opened
<1>2. Shape(g, <<v>>, {})
  <2>1. <<v>> \in Seq(0 .. g.maxvar)
    OBVIOUS
  <2>2. \A k \in 1 .. Len(<<v>>) : <<v>>[k] # 0
    OBVIOUS
  <2> QED
    BY <1>1, <2>1, <2>2 DEF Shape
<1>3. Covered(g, <<v>>, done)
  BY <1>1 DEF Covered
<1>4. \A q : Descends(g, <<v>>, q)
  BY <1>1 DEF Descends
<1> QED
  BY <1>2, <1>3, <1>4 DEF Traversed

\* A traversal is not disturbed when more is done.
LEMMA DoneGrows ==
    ASSUME NEW g, NEW s, NEW on, NEW done, NEW more, Traversed(g, s, on, done), done \subseteq more
    PROVE  Traversed(g, s, on, more)
<1>1. Covered(g, s, more)
  BY DEF Traversed, Covered
<1> QED
  BY <1>1 DEF Traversed

\* An entered gate is on the stack, so nothing is entered when the stack is empty.
LEMMA NothingEntered ==
    ASSUME NEW g, NEW on, NEW done, Traversed(g, <<>>, on, done)
    PROVE  on = {}
<1>1. \A k, v : ~Opened(<<>>, k, v)
  BY DEF Opened
<1> QED
  BY <1>1 DEF Traversed, Shape

\* In a graph that can be ranked, neither the gate on top nor one of its operands
\* has been entered.
LEMMA TopIsNew ==
    ASSUME NEW g, NEW s, NEW on, NEW done, Traversed(g, s, on, done),
           g.maxvar \in Nat, s # <<>>, Last(s) # 0, IsAnd(g, Last(s)), Ranks(g) # {}
    PROVE  /\ Last(s) \notin on
           /\ \A c \in on : ~IsChild(g, c, Last(s))
<1>1. s \in Seq(0 .. g.maxvar) /\ Len(s) \in Nat /\ Len(s) > 0 /\ Last(s) = s[Len(s)]
  BY DEF Traversed, Shape, Last
<1>2. PICK q \in Ranks(g) : TRUE
  OBVIOUS
<1>3. Last(s) \in 1 .. g.maxvar
  BY <1>1
<1>4. ASSUME NEW c \in on PROVE c \in 1 .. g.maxvar /\ IsAnd(g, c) /\ q[Last(s)] < q[c]
  <2>1. PICK k : Opened(s, k, c)
    BY DEF Traversed, Shape
  <2>2. k \in 1 .. Len(s) /\ k + 1 \in 1 .. Len(s) /\ s[k] = c /\ c # 0 /\ s[k + 1] = 0
    BY <2>1 DEF Opened
  <2>3. k + 1 < Len(s) /\ c \in 1 .. g.maxvar
    BY <1>1, <2>2
  <2>4. IsAnd(g, c)
    BY <2>1 DEF Traversed, Shape
  <2>5. Descends(g, s, q)
    BY <1>2 DEF Traversed
  <2>6. q[s[Len(s)]] < q[c]
    BY <1>1, <2>1, <2>3, <2>5 DEF Descends
  <2> QED
    BY <1>1, <2>3, <2>4, <2>6
<1>5. q \in [1 .. g.maxvar -> Nat]
  BY <1>2 DEF Ranks
<1>6. Last(s) \notin on
  BY <1>3, <1>4, <1>5
<1>7. ASSUME NEW c \in on, IsChild(g, c, Last(s)) PROVE FALSE
  <2>1. q[c] < q[Last(s)]
    BY <1>2, <1>3, <1>4, <1>7 DEF Ranks
  <2> QED
    BY <1>3, <1>4, <1>5, <2>1
<1> QED
  BY <1>6, <1>7

\* Taking a variable that is done off the stack.
LEMMA PopKeepsTraversed ==
    ASSUME NEW g, NEW s, NEW on, NEW done, Traversed(g, s, on, done),
           s # <<>>, Last(s) # 0, Last(s) \in done
    PROVE  Traversed(g, Front(s), on, done)
<1> DEFINE e == Front(s)
           N == Len(s)
<1>1. s \in Seq(0 .. g.maxvar) /\ N \in Nat /\ N > 0 /\ Last(s) = s[N]
  BY DEF Traversed, Shape, Last
<1>2. /\ e \in Seq(0 .. g.maxvar) /\ Len(e) = N - 1 /\ (\A m \in 1 .. N - 1 : e[m] = s[m])
      /\ \A k, v : Opened(e, k, v) <=> Opened(s, k, v)
  BY <1>1, OpenedAfterPop
<1> HIDE DEF e
<1>3. Shape(g, e, on)
  <2>1. \A k \in 1 .. Len(e) : e[k] = 0 => k - 1 \in 1 .. Len(e) /\ e[k - 1] # 0
    BY <1>1, <1>2 DEF Traversed, Shape
  <2> QED
    BY <1>2, <2>1 DEF Traversed, Shape
<1>4. Covered(g, e, done)
  <2> SUFFICES ASSUME NEW k, NEW v, NEW c, Opened(e, k, v), IsChild(g, c, v), c \notin done
               PROVE  \E m \in 1 .. Len(e) : k + 1 < m /\ e[m] = c
    BY DEF Covered
  <2>1. PICK m \in 1 .. N : k + 1 < m /\ s[m] = c
    BY <1>2 DEF Traversed, Covered
  <2>2. m # N
    BY <1>1, <2>1
  <2> QED
    BY <1>1, <1>2, <2>1, <2>2
<1>5. ASSUME NEW q \in Ranks(g) PROVE Descends(g, e, q)
  <2>1. Descends(g, s, q)
    BY DEF Traversed
  <2> QED
    BY <1>1, <1>2, <2>1 DEF Descends
<1> QED
  BY <1>3, <1>4, <1>5 DEF Traversed, e

\* The stack e is s with a 0 and operands of the variable on top of s above it,
\* among them all that are not done.
Extends(g, s, e, done) ==
    /\ Len(s) < Len(e)
    /\ \A m \in 1 .. Len(s) : e[m] = s[m]
    /\ e[Len(s) + 1] = 0
    /\ \A m \in 1 .. Len(e) : m > Len(s) + 1 => e[m] \in 1 .. g.maxvar /\ IsChild(g, e[m], Last(s))
    /\ \A c : IsChild(g, c, Last(s)) => c \in done \/ \E m \in 1 .. Len(e) : m > Len(s) + 1 /\ e[m] = c
    /\ \A k, v : Opened(e, k, v) <=> Opened(s, k, v) \/ (k = Len(s) /\ v = Last(s))

\* Entering the gate on top.
LEMMA ExtensionKeepsTraversed ==
    ASSUME NEW g, g.maxvar \in Nat, NEW s, NEW on, NEW done, Traversed(g, s, on, done),
           s # <<>>, Last(s) # 0, Last(s) \notin on, IsAnd(g, Last(s)),
           NEW e \in Seq(0 .. g.maxvar), Extends(g, s, e, done)
    PROVE  Traversed(g, e, on \cup {Last(s)}, done)
<1>1. /\ s \in Seq(0 .. g.maxvar) /\ Len(s) \in Nat /\ Len(s) > 0 /\ Last(s) = s[Len(s)]
      /\ Len(e) \in Nat
  BY DEF Traversed, Shape, Last
<1>2. PICK N \in Nat : N = Len(s) /\ N > 0
  BY <1>1
<1>3. \A k, v : Opened(s, k, v) => k \in 1 .. N /\ k + 1 \in 1 .. N /\ v \in 1 .. g.maxvar /\ s[k] = v
  BY <1>1, <1>2 DEF Opened
<1>4. /\ N < Len(e)
      /\ \A m \in 1 .. N : e[m] = s[m]
      /\ e[N + 1] = 0
      /\ \A m \in 1 .. Len(e) : m > N + 1 => e[m] \in 1 .. g.maxvar /\ IsChild(g, e[m], Last(s))
  BY <1>2 DEF Extends
<1>5. \A c : IsChild(g, c, Last(s)) => c \in done \/ \E m \in 1 .. Len(e) : m > N + 1 /\ e[m] = c
  BY <1>2 DEF Extends
<1>6. \A k, v : Opened(e, k, v) <=> Opened(s, k, v) \/ (k = N /\ v = Last(s))
  BY <1>2 DEF Extends
<1>7. Shape(g, e, on \cup {Last(s)})
  <2>1. \A k \in 1 .. Len(e) : e[k] = 0 => k - 1 \in 1 .. Len(e) /\ e[k - 1] # 0
    <3> SUFFICES ASSUME NEW k \in 1 .. Len(e), e[k] = 0
                 PROVE  k - 1 \in 1 .. Len(e) /\ e[k - 1] # 0
      OBVIOUS
    <3>1. k <= N + 1
      BY <1>1, <1>4
    <3>2. CASE k = N + 1
      BY <1>1, <1>2, <1>4, <3>2
    <3>3. CASE k <= N
      <4>1. k \in 1 .. N /\ s[k] = 0
        BY <1>1, <1>4, <3>3
      <4>2. k - 1 \in 1 .. N /\ s[k - 1] # 0
        BY <1>2, <4>1 DEF Traversed, Shape
      <4> QED
        BY <1>1, <1>4, <4>1, <4>2
    <3> QED
      BY <1>1, <3>1, <3>2, <3>3
  <2>2. ASSUME NEW k, NEW v, Opened(e, k, v) PROVE IsAnd(g, v)
    BY <1>6, <2>2 DEF Traversed, Shape
  <2>3. ASSUME NEW v PROVE v \in on \cup {Last(s)} <=> \E k : Opened(e, k, v)
    BY <1>6 DEF Traversed, Shape
  <2>4. ASSUME NEW k, NEW m, NEW v, Opened(e, k, v), Opened(e, m, v) PROVE k = m
    <3>1. CASE v = Last(s)
      <4>1. ~Opened(s, k, v) /\ ~Opened(s, m, v)
        BY <3>1 DEF Traversed, Shape
      <4> QED
        BY ONLY <1>6, <2>4, <4>1
    <3>2. CASE v # Last(s)
      BY <1>6, <2>4, <3>2 DEF Traversed, Shape
    <3> QED
      BY <3>1, <3>2
  <2> QED
    BY <2>1, <2>2, <2>3, <2>4 DEF Shape
<1>8. Covered(g, e, done)
  <2> SUFFICES ASSUME NEW k, NEW v, NEW c, Opened(e, k, v), IsChild(g, c, v), c \notin done
               PROVE  \E m \in 1 .. Len(e) : k + 1 < m /\ e[m] = c
    BY DEF Covered
  <2>1. CASE Opened(s, k, v)
    <3>1. PICK m \in 1 .. N : k + 1 < m /\ s[m] = c
      BY <1>2, <2>1 DEF Traversed, Covered
    <3>2. m \in 1 .. Len(e) /\ e[m] = s[m]
      BY <1>1, <1>4
    <3> QED
      BY ONLY <3>1, <3>2
  <2>2. CASE k = N /\ v = Last(s)
    BY <1>5, <2>2
  <2> QED
    BY <1>6, <2>1, <2>2
<1>9. ASSUME NEW r \in Ranks(g) PROVE Descends(g, e, r)
  <2>0. r \in [1 .. g.maxvar -> Nat]
    BY DEF Ranks
  <2>1. \A k, v : Opened(s, k, v) =>
            \A m \in 1 .. N : k + 1 < m /\ s[m] # 0 /\ IsAnd(g, s[m]) => r[s[m]] < r[v]
    BY <1>2 DEF Traversed, Descends
  <2>2. Last(s) \in 1 .. g.maxvar
    BY <1>1
  <2>3. ASSUME NEW m \in 1 .. Len(e), m > N + 1, IsAnd(g, e[m])
        PROVE  e[m] \in 1 .. g.maxvar /\ r[e[m]] < r[Last(s)]
    BY <1>4, <2>2, <2>3 DEF Ranks
  <2> SUFFICES ASSUME NEW k, NEW v, Opened(e, k, v),
                      NEW m \in 1 .. Len(e), k + 1 < m, e[m] # 0, IsAnd(g, e[m])
               PROVE  r[e[m]] < r[v]
    BY DEF Descends
  <2>4. CASE Opened(s, k, v)
    <3>1. k \in 1 .. N /\ k + 1 \in 1 .. N /\ v \in 1 .. g.maxvar
      BY <1>3, <2>4
    <3>2. CASE m <= N
      <4>1. m \in 1 .. N /\ e[m] = s[m]
        BY <1>1, <1>4, <3>2
      <4> QED
        BY <2>1, <2>4, <4>1
    <3>3. CASE m > N + 1
      <4>1. k + 1 # N
        BY <1>1, <1>2, <2>4 DEF Opened
      <4>2. k + 1 < N /\ N \in 1 .. N
        BY <3>1, <4>1
      <4>3. r[Last(s)] < r[v]
        BY <1>1, <1>2, <2>1, <2>4, <4>2
      <4>4. r[e[m]] < r[Last(s)] /\ e[m] \in 1 .. g.maxvar
        BY <2>3, <3>3
      <4>5. r[e[m]] \in Nat /\ r[Last(s)] \in Nat /\ r[v] \in Nat
        BY <2>0, <2>2, <3>1, <4>4
      <4> QED
        BY ONLY <4>3, <4>4, <4>5
    <3>4. m # N + 1
      BY <1>4
    <3> QED
      BY <1>1, <3>1, <3>2, <3>3, <3>4
  <2>5. CASE k = N /\ v = Last(s)
    BY <2>3, <2>5
  <2> QED
    BY <1>6, <2>4, <2>5
<1> QED
  BY <1>7, <1>8, <1>9 DEF Traversed

\* The sequences p and q hold operands of the gate v, and all that are not done.
HoldOperands(g, p, q, v, done) ==
    /\ \A i \in 1 .. Len(p) : IsChild(g, p[i], v)
    /\ \A i \in 1 .. Len(q) : IsChild(g, q[i], v)
    /\ \A c : IsChild(g, c, v) =>
        \/ c \in done
        \/ \E i \in 1 .. Len(p) : p[i] = c
        \/ \E i \in 1 .. Len(q) : q[i] = c

\* Entering a gate pushes its operands above it.
LEMMA EnterKeepsTraversed ==
    ASSUME NEW g, g.maxvar \in Nat, NEW s, NEW on, NEW done, Traversed(g, s, on, done),
           s # <<>>, Last(s) # 0, Last(s) \notin on, IsAnd(g, Last(s)),
           NEW p \in Seq(1 .. g.maxvar), NEW q \in Seq(1 .. g.maxvar),
           HoldOperands(g, p, q, Last(s), done), NEW e, e = s \o << 0 >> \o p \o q
    PROVE  Traversed(g, e, on \cup {Last(s)}, done)
<1>1. /\ 0 \in 0 .. g.maxvar /\ p \in Seq((0 .. g.maxvar) \ {0}) /\ q \in Seq((0 .. g.maxvar) \ {0})
  <2>1. 0 \in 0 .. g.maxvar /\ (0 .. g.maxvar) \ {0} = 1 .. g.maxvar
    OBVIOUS
  <2> QED
    BY <2>1
<1>2. s \in Seq(0 .. g.maxvar)
  BY DEF Traversed, Shape
<1>4. /\ e \in Seq(0 .. g.maxvar)
      /\ Len(e) = Len(s) + 1 + Len(p) + Len(q)
      /\ \A m \in 1 .. Len(s) : e[m] = s[m]
      /\ e[Len(s) + 1] = 0
      /\ \A m \in 1 .. Len(p) : e[Len(s) + 1 + m] = p[m]
      /\ \A m \in 1 .. Len(q) : e[Len(s) + 1 + Len(p) + m] = q[m]
      /\ \A m \in 1 .. Len(e) : m > Len(s) + 1 =>
            \/ \E j \in 1 .. Len(p) : e[m] = p[j]
            \/ \E j \in 1 .. Len(q) : e[m] = q[j]
      /\ \A k, v : Opened(e, k, v) <=> Opened(s, k, v) \/ (k = Len(s) /\ v = Last(s))
  <2>1. PICK T : T = 0 .. g.maxvar
    OBVIOUS
  <2>2. 0 \in T /\ s \in Seq(T) /\ p \in Seq(T \ {0}) /\ q \in Seq(T \ {0})
    BY <1>1, <1>2, <2>1
  <2>3. e \in Seq(T) /\ Stacked(s, p, q, e)
    BY ONLY <2>2, s # <<>>, Last(s) # 0, e = s \o <<0>> \o p \o q, OpenedAfterEnter
  <2> QED
    BY ONLY <2>1, <2>3 DEF Stacked
<1>5. PICK N \in Nat, P \in Nat, Q \in Nat : N = Len(s) /\ P = Len(p) /\ Q = Len(q)
  BY <1>2
<1>6. \A i \in 1 .. P : p[i] \in 1 .. g.maxvar /\ IsChild(g, p[i], Last(s))
  BY <1>5 DEF HoldOperands
<1>7. \A i \in 1 .. Q : q[i] \in 1 .. g.maxvar /\ IsChild(g, q[i], Last(s))
  BY <1>5 DEF HoldOperands
<1>8. \A m \in 1 .. Len(e) : m > N + 1 => e[m] \in 1 .. g.maxvar /\ IsChild(g, e[m], Last(s))
  BY ONLY <1>4, <1>5, <1>6, <1>7
<1>9. ASSUME NEW c, IsChild(g, c, Last(s)), c \notin done
      PROVE  \E m \in 1 .. Len(e) : m > N + 1 /\ e[m] = c
  <2>1. CASE \E i \in 1 .. P : p[i] = c
    <3>1. PICK i \in 1 .. P : p[i] = c
      BY <2>1
    <3>2. N + 1 + i \in 1 .. Len(e) /\ N + 1 + i > N + 1 /\ e[N + 1 + i] = c
      BY ONLY <1>4, <1>5, <3>1
    <3> QED
      BY ONLY <3>2
  <2>2. CASE \E i \in 1 .. Q : q[i] = c
    <3>1. PICK i \in 1 .. Q : q[i] = c
      BY <2>2
    <3>2. N + 1 + P + i \in 1 .. Len(e) /\ N + 1 + P + i > N + 1 /\ e[N + 1 + P + i] = c
      BY ONLY <1>4, <1>5, <3>1
    <3> QED
      BY ONLY <3>2
  <2> QED
    BY <1>5, <1>9, <2>1, <2>2 DEF HoldOperands
<1>10. Len(s) < Len(e)
  BY ONLY <1>4, <1>5
<1>11. Extends(g, s, e, done)
  BY ONLY <1>4, <1>5, <1>8, <1>9, <1>10 DEF Extends
<1> QED
  BY ONLY <1>4, <1>11, ExtensionKeepsTraversed, g.maxvar \in Nat, Traversed(g, s, on, done),
          s # <<>>, Last(s) # 0, Last(s) \notin on, IsAnd(g, Last(s))

\* Leaving the gate under the 0 on top: its operands are done, and so is the gate.
LEMMA LeaveKeepsTraversed ==
    ASSUME NEW g, NEW s, NEW on, NEW done, Traversed(g, s, on, done),
           0 \in done, s # <<>>, Last(s) = 0, NEW v, v = Last(Front(s))
    PROVE  /\ v \in on /\ v # 0 /\ IsAnd(g, v) /\ v \in 0 .. g.maxvar
           /\ \A c : IsChild(g, c, v) => c \in done
           /\ Traversed(g, Front(Front(s)), on \ {v}, done \cup {v})
<1> DEFINE e == Front(Front(s))
<1>1. s \in Seq(0 .. g.maxvar) /\ Len(s) \in Nat /\ Len(s) > 0 /\ Last(s) = s[Len(s)]
  BY DEF Traversed, Shape, Last
<1>2. Len(s) - 1 \in 1 .. Len(s) /\ s[Len(s) - 1] # 0
  BY <1>1 DEF Traversed, Shape
<1>3. /\ e \in Seq(0 .. g.maxvar)
      /\ Len(e) = Len(s) - 2
      /\ \A m \in 1 .. Len(s) - 2 : e[m] = s[m]
      /\ v = s[Len(s) - 1]
      /\ Opened(s, Len(s) - 1, v)
      /\ \A k, u : Opened(e, k, u) <=> Opened(s, k, u) /\ k # Len(s) - 1
  BY <1>1, <1>2, OpenedAfterLeave
<1> HIDE DEF e
<1>4. v \in on /\ v # 0 /\ IsAnd(g, v) /\ v \in 0 .. g.maxvar
  <2>0. v = s[Len(s) - 1]
    BY <1>3
  <2>a. \A T, k : s \in Seq(T) /\ k \in 1 .. Len(s) => s[k] \in T
    BY <1>1
  <2>b. v \in 0 .. g.maxvar
    BY <1>1, <1>2, <2>0, <2>a
  <2>1. v # 0 /\ v \in 0 .. g.maxvar
    BY ONLY <1>2, <2>0, <2>b
  <2>2. v \in on /\ IsAnd(g, v)
    BY <1>3 DEF Traversed, Shape
  <2> QED
    BY <2>1, <2>2
<1>5. ASSUME NEW c, IsChild(g, c, v) PROVE c \in done
  <2>1. ~\E m \in 1 .. Len(s) : Len(s) - 1 + 1 < m
    BY <1>1
  <2> QED
    BY <1>3, <1>5, <2>1 DEF Traversed, Covered
<1>6. Shape(g, e, on \ {v})
  <2>1. \A k \in 1 .. Len(e) : e[k] = 0 => k - 1 \in 1 .. Len(e) /\ e[k - 1] # 0
    BY <1>1, <1>3 DEF Traversed, Shape
  <2>2. ASSUME NEW u PROVE u \in on \ {v} <=> \E k : Opened(e, k, u)
    <3>1. ASSUME NEW k, Opened(s, k, u) PROVE k # Len(s) - 1 <=> u # v
      <4>1. Opened(s, Len(s) - 1, v) /\ (\A j, m, w : Opened(s, j, w) /\ Opened(s, m, w) => j = m)
        BY <1>3 DEF Traversed, Shape
      <4>2. ASSUME k = Len(s) - 1 PROVE u = v
        BY <3>1, <4>1, <4>2 DEF Opened
      <4>3. ASSUME u = v PROVE k = Len(s) - 1
        BY ONLY <3>1, <4>1, <4>3
      <4> QED
        BY <4>2, <4>3
    <3>2. u \in on <=> \E k : Opened(s, k, u)
      BY DEF Traversed, Shape
    <3> QED
      BY <1>3, <3>1, <3>2
  <2> QED
    BY <1>3, <2>1, <2>2 DEF Traversed, Shape
<1>7. Covered(g, e, done \cup {v})
  <2> SUFFICES ASSUME NEW k, NEW u, NEW c, Opened(e, k, u), IsChild(g, c, u), c \notin done, c # v
               PROVE  \E m \in 1 .. Len(e) : k + 1 < m /\ e[m] = c
    BY DEF Covered
  <2>1. PICK m \in 1 .. Len(s) : k + 1 < m /\ s[m] = c
    BY <1>3 DEF Traversed, Covered
  <2>2. m # Len(s) - 1
    BY <1>3, <2>1
  <2>3. m # Len(s)
    BY <1>1, <2>1
  <2> QED
    BY <1>1, <1>3, <2>1, <2>2, <2>3
<1>8. ASSUME NEW q \in Ranks(g) PROVE Descends(g, e, q)
  <2>1. Descends(g, s, q)
    BY DEF Traversed
  <2> QED
    BY <1>1, <1>3, <2>1 DEF Descends
<1> QED
  BY <1>4, <1>5, <1>6, <1>7, <1>8 DEF Traversed, e

-----------------------------------------------------------------------------
(* What reading a file establishes.                                        *)

\* The sequence e is made of a, b, c and d.
Joined(a, b, c, d, e) ==
    /\ Len(e) = Len(a) + Len(b) + Len(c) + Len(d)
    /\ \A i \in 1 .. Len(a) : e[i] = a[i]
    /\ \A i \in 1 .. Len(b) : e[Len(a) + i] = b[i]
    /\ \A i \in 1 .. Len(c) : e[Len(a) + Len(b) + i] = c[i]
    /\ \A i \in 1 .. Len(d) : e[Len(a) + Len(b) + Len(c) + i] = d[i]

\* The elements of four sequences, joined.
LEMMA FourParts ==
    ASSUME NEW T, NEW a \in Seq(T), NEW b \in Seq(T), NEW c \in Seq(T), NEW d \in Seq(T),
           NEW e, e = a \o b \o c \o d
    PROVE  e \in Seq(T) /\ Joined(a, b, c, d, e)
<1>1. PICK x, y : x = a \o b /\ y = x \o c /\ e = y \o d
  OBVIOUS
<1>2. x \in Seq(T)
  BY <1>1
<1>3. /\ y \in Seq(T) /\ Len(y) = Len(a) + Len(b) + Len(c)
      /\ \A i \in 1 .. Len(a) : y[i] = a[i]
      /\ \A i \in 1 .. Len(b) : y[Len(a) + i] = b[i]
      /\ \A i \in 1 .. Len(c) : y[Len(a) + Len(b) + i] = c[i]
  BY ONLY <1>1, a \in Seq(T), b \in Seq(T), c \in Seq(T), Concatenated
<1>4. e \in Seq(T)
  BY ONLY <1>1, <1>3, d \in Seq(T)
<1>5. Len(e) = Len(y) + Len(d)
  BY ONLY <1>1, <1>3, d \in Seq(T)
<1>6. \A i \in 1 .. Len(y) : e[i] = y[i]
  BY ONLY <1>1, <1>3, d \in Seq(T)
<1>7. \A i \in 1 .. Len(d) : e[Len(y) + i] = d[i]
  BY ONLY <1>1, <1>3, d \in Seq(T)
<1>8. Len(a) \in Nat /\ Len(b) \in Nat /\ Len(c) \in Nat /\ Len(d) \in Nat
  OBVIOUS
<1>9. PICK A \in Nat, B \in Nat, C \in Nat, D \in Nat :
            A = Len(a) /\ B = Len(b) /\ C = Len(c) /\ D = Len(d)
  BY <1>8
<1>10. Len(y) = A + B + C /\ Len(e) = A + B + C + D
  BY ONLY <1>3, <1>5, <1>9
<1>11. ASSUME NEW i \in 1 .. A PROVE e[i] = a[i]
  BY ONLY <1>3, <1>6, <1>9, <1>10, <1>11
<1>12. ASSUME NEW i \in 1 .. B PROVE e[A + i] = b[i]
  BY ONLY <1>3, <1>6, <1>9, <1>10, <1>12
<1>13. ASSUME NEW i \in 1 .. C PROVE e[A + B + i] = c[i]
  BY ONLY <1>3, <1>6, <1>9, <1>10, <1>13
<1>14. ASSUME NEW i \in 1 .. D PROVE e[A + B + C + i] = d[i]
  BY ONLY <1>7, <1>9, <1>10, <1>14
<1> QED
  BY ONLY <1>4, <1>9, <1>10, <1>11, <1>12, <1>13, <1>14 DEF Joined

\* The literals line k of f defines.
Defs(f, k) == ToSet(Lines(f)[k].def)

\* The numbers of the line of an input, a latch, a property and a gate.
InputLine(f, i) == i
LatchLine(f, i) == Len(f.inputs) + i
PropertyLine(f, i) == Len(f.inputs) + Len(f.latches) + i
GateLine(f, i) == Len(f.inputs) + Len(f.latches) + Len(WithoutJustice(f)) + i

\* The parts of a graph are sequences.
LEMMA GraphParts ==
    ASSUME NEW f \in Graphs
    PROVE  /\ f.maxvar \in Nat
           /\ f.inputs \in Seq(Nat) /\ Len(f.inputs) \in Nat /\ DOMAIN f.inputs = 1 .. Len(f.inputs)
           /\ f.latches \in Seq([lit : Nat, next : Nat, reset : Nat])
           /\ Len(f.latches) \in Nat /\ DOMAIN f.latches = 1 .. Len(f.latches)
           /\ f.ands \in Seq([lhs : Nat, rhs0 : Nat, rhs1 : Nat])
           /\ Len(f.ands) \in Nat /\ DOMAIN f.ands = 1 .. Len(f.ands)
           /\ f.outputs \in Seq(Nat) /\ f.bad \in Seq(Nat) /\ f.constraints \in Seq(Nat)
           /\ f.justice \in Seq(Nat) /\ f.fairness \in Seq(Nat) /\ f.numJustice \in Nat
<1>1. /\ f.maxvar \in Nat /\ f.inputs \in Seq(Nat)
      /\ f.latches \in Seq([lit : Nat, next : Nat, reset : Nat])
      /\ f.ands \in Seq([lhs : Nat, rhs0 : Nat, rhs1 : Nat])
      /\ f.outputs \in Seq(Nat) /\ f.bad \in Seq(Nat) /\ f.constraints \in Seq(Nat)
      /\ f.justice \in Seq(Nat) /\ f.fairness \in Seq(Nat) /\ f.numJustice \in Nat
  BY DEF Graphs
<1> QED
  BY <1>1

\* The elements of a sequence are of its type.
LEMMA ElementOfSequence ==
    ASSUME NEW T, NEW s \in Seq(T), NEW i \in 1 .. Len(s)
    PROVE  s[i] \in T
OBVIOUS

\* The domain of a sequence is given by its length.
LEMMA LengthOf ==
    ASSUME NEW T, NEW s \in Seq(T)
    PROVE  Len(s) \in Nat /\ DOMAIN s = 1 .. Len(s)
OBVIOUS

\* The literals of a graph are natural numbers.
LEMMA GraphElements ==
    ASSUME NEW f \in Graphs
    PROVE  /\ \A i \in 1 .. Len(f.inputs) : f.inputs[i] \in Nat
           /\ \A i \in 1 .. Len(f.latches) :
                f.latches[i].lit \in Nat /\ f.latches[i].next \in Nat /\ f.latches[i].reset \in Nat
           /\ \A i \in 1 .. Len(f.ands) :
                f.ands[i].lhs \in Nat /\ f.ands[i].rhs0 \in Nat /\ f.ands[i].rhs1 \in Nat
<1>1. \A i \in 1 .. Len(f.inputs) : f.inputs[i] \in Nat
  BY GraphParts
<1>2. \A i \in 1 .. Len(f.latches) : f.latches[i] \in [lit : Nat, next : Nat, reset : Nat]
  BY GraphParts, ElementOfSequence
<1>3. \A i \in 1 .. Len(f.ands) : f.ands[i] \in [lhs : Nat, rhs0 : Nat, rhs1 : Nat]
  BY GraphParts, ElementOfSequence
<1> QED
  BY <1>1, <1>2, <1>3

\* The properties that are read in the first place are literals.
LEMMA WithoutJusticeType ==
    ASSUME NEW f \in Graphs
    PROVE  WithoutJustice(f) \in Seq(Nat)
BY GraphParts, FourParts DEF WithoutJustice

\* The lines of a file, part by part.
LEMMA LinesAre ==
    ASSUME NEW f \in Graphs
    PROVE  /\ Lines(f) \in Seq([def : Seq(Nat), uses : SUBSET Nat])
           /\ Len(Lines(f)) = Len(f.inputs) + Len(f.latches) + Len(WithoutJustice(f)) + Len(f.ands)
           /\ \A i \in 1 .. Len(f.inputs) :
                Lines(f)[InputLine(f, i)] = [def |-> <<f.inputs[i]>>, uses |-> {}]
           /\ \A i \in 1 .. Len(f.latches) :
                Lines(f)[LatchLine(f, i)] = [def |-> <<f.latches[i].lit>>, uses |-> {f.latches[i].next}]
           /\ \A i \in 1 .. Len(WithoutJustice(f)) :
                Lines(f)[PropertyLine(f, i)] = [def |-> <<>>, uses |-> {WithoutJustice(f)[i]}]
           /\ \A i \in 1 .. Len(f.ands) :
                Lines(f)[GateLine(f, i)] =
                    [def |-> <<f.ands[i].lhs>>, uses |-> {f.ands[i].rhs0, f.ands[i].rhs1}]
<1> DEFINE T == [def : Seq(Nat), uses : SUBSET Nat]
           w == WithoutJustice(f)
<1>1. PICK a : a = [i \in DOMAIN f.inputs |-> [def |-> <<f.inputs[i]>>, uses |-> {}]]
  OBVIOUS
<1>2. PICK b : b = [i \in DOMAIN f.latches |-> [def |-> <<f.latches[i].lit>>, uses |-> {f.latches[i].next}]]
  OBVIOUS
<1>3. PICK c : c = [i \in DOMAIN w |-> [def |-> <<>>, uses |-> {w[i]}]]
  OBVIOUS
<1>4. PICK d : d = [i \in DOMAIN f.ands |->
                        [def |-> <<f.ands[i].lhs>>, uses |-> {f.ands[i].rhs0, f.ands[i].rhs1}]]
  OBVIOUS
<1>5. Lines(f) = a \o b \o c \o d
  BY ONLY <1>1, <1>2, <1>3, <1>4, Zenon DEF Lines
<1>6. w \in Seq(Nat) /\ Len(w) \in Nat /\ DOMAIN w = 1 .. Len(w)
  BY WithoutJusticeType
<1>7. a \in Seq(T) /\ Len(a) = Len(f.inputs)
  <2>1. \A i \in 1 .. Len(f.inputs) : [def |-> <<f.inputs[i]>>, uses |-> {}] \in T
    BY GraphElements
  <2> HIDE DEF T
  <2>2. a \in [1 .. Len(f.inputs) -> T] /\ Len(f.inputs) \in Nat
    BY <1>1, <2>1, GraphParts
  <2> QED
    BY ONLY <2>2
<1>8. b \in Seq(T) /\ Len(b) = Len(f.latches)
  <2>1. \A i \in 1 .. Len(f.latches) : [def |-> <<f.latches[i].lit>>, uses |-> {f.latches[i].next}] \in T
    BY GraphElements
  <2> HIDE DEF T
  <2>2. b \in [1 .. Len(f.latches) -> T] /\ Len(f.latches) \in Nat
    BY <1>2, <2>1, GraphParts
  <2> QED
    BY ONLY <2>2
<1>9. c \in Seq(T) /\ Len(c) = Len(w)
  <2>1. \A i \in 1 .. Len(w) : [def |-> <<>>, uses |-> {w[i]}] \in T
    <3>1. \A i \in 1 .. Len(w) : w[i] \in Nat
      BY ONLY <1>6, ElementOfSequence
    <3>2. <<>> \in Seq(Nat)
      OBVIOUS
    <3> QED
      BY ONLY <3>1, <3>2
  <2> HIDE DEF T
  <2>2. c \in [1 .. Len(w) -> T] /\ Len(w) \in Nat
    BY ONLY <1>3, <1>6, <2>1
  <2> QED
    BY ONLY <2>2
<1>10. d \in Seq(T) /\ Len(d) = Len(f.ands)
  <2>1. \A i \in 1 .. Len(f.ands) :
            [def |-> <<f.ands[i].lhs>>, uses |-> {f.ands[i].rhs0, f.ands[i].rhs1}] \in T
    BY GraphElements
  <2> HIDE DEF T
  <2>2. d \in [1 .. Len(f.ands) -> T] /\ Len(f.ands) \in Nat
    BY <1>4, <2>1, GraphParts
  <2> QED
    BY ONLY <2>2
<1>11. PICK e : e = Lines(f)
  OBVIOUS
<1>12. /\ e \in Seq(T)
       /\ Len(e) = Len(a) + Len(b) + Len(c) + Len(d)
       /\ \A i \in 1 .. Len(a) : e[i] = a[i]
       /\ \A i \in 1 .. Len(b) : e[Len(a) + i] = b[i]
       /\ \A i \in 1 .. Len(c) : e[Len(a) + Len(b) + i] = c[i]
       /\ \A i \in 1 .. Len(d) : e[Len(a) + Len(b) + Len(c) + i] = d[i]
  <2> HIDE DEF T, w
  <2>1. e = a \o b \o c \o d
    BY <1>5, <1>11
  <2>2. e \in Seq(T) /\ Joined(a, b, c, d, e)
    BY ONLY <1>7, <1>8, <1>9, <1>10, <2>1, FourParts
  <2> QED
    BY ONLY <2>2 DEF Joined
<1> HIDE DEF T
<1>13. /\ e \in Seq(T)
       /\ Len(e) = Len(f.inputs) + Len(f.latches) + Len(w) + Len(f.ands)
       /\ \A i \in 1 .. Len(f.inputs) : e[i] = a[i]
       /\ \A i \in 1 .. Len(f.latches) : e[Len(f.inputs) + i] = b[i]
       /\ \A i \in 1 .. Len(w) : e[Len(f.inputs) + Len(f.latches) + i] = c[i]
       /\ \A i \in 1 .. Len(f.ands) : e[Len(f.inputs) + Len(f.latches) + Len(w) + i] = d[i]
  BY ONLY <1>7, <1>8, <1>9, <1>10, <1>12
<1>14. DOMAIN f.inputs = 1 .. Len(f.inputs) /\ DOMAIN f.latches = 1 .. Len(f.latches)
       /\ DOMAIN f.ands = 1 .. Len(f.ands)
  BY GraphParts
<1>15. ASSUME NEW i \in 1 .. Len(f.inputs)
       PROVE  e[InputLine(f, i)] = [def |-> <<f.inputs[i]>>, uses |-> {}]
  BY ONLY <1>1, <1>13, <1>14, <1>15, Zenon DEF InputLine
<1>16. ASSUME NEW i \in 1 .. Len(f.latches)
       PROVE  e[LatchLine(f, i)] = [def |-> <<f.latches[i].lit>>, uses |-> {f.latches[i].next}]
  BY ONLY <1>2, <1>13, <1>14, <1>16, Zenon DEF LatchLine
<1>17. ASSUME NEW i \in 1 .. Len(w)
       PROVE  e[PropertyLine(f, i)] = [def |-> <<>>, uses |-> {w[i]}]
  BY ONLY <1>3, <1>6, <1>13, <1>17, Zenon DEF PropertyLine
<1>18. ASSUME NEW i \in 1 .. Len(f.ands)
       PROVE  e[GateLine(f, i)] = [def |-> <<f.ands[i].lhs>>, uses |-> {f.ands[i].rhs0, f.ands[i].rhs1}]
  BY ONLY <1>4, <1>13, <1>14, <1>18, Zenon DEF GateLine
<1> QED
  BY ONLY <1>11, <1>13, <1>15, <1>16, <1>17, <1>18 DEF T

\* The literal of a variable of g.
IsDefinition(g, l) == \E v \in 1 .. g.maxvar : l = 2 * v

\* Each input, latch and gate is a variable of its own.
DefinedOnce(g) ==
    /\ \A i \in 1 .. Len(g.inputs) : IsDefinition(g, g.inputs[i])
    /\ \A i \in 1 .. Len(g.latches) : IsDefinition(g, g.latches[i].lit)
    /\ \A i \in 1 .. Len(g.ands) : IsDefinition(g, g.ands[i].lhs)
    /\ \A i, j \in 1 .. Len(g.inputs) : g.inputs[i] = g.inputs[j] => i = j
    /\ \A i, j \in 1 .. Len(g.latches) : g.latches[i].lit = g.latches[j].lit => i = j
    /\ \A i, j \in 1 .. Len(g.ands) : g.ands[i].lhs = g.ands[j].lhs => i = j
    /\ \A i \in 1 .. Len(g.inputs), j \in 1 .. Len(g.latches) : g.inputs[i] # g.latches[j].lit
    /\ \A i \in 1 .. Len(g.inputs), j \in 1 .. Len(g.ands) : g.inputs[i] # g.ands[j].lhs
    /\ \A i \in 1 .. Len(g.latches), j \in 1 .. Len(g.ands) : g.latches[i].lit # g.ands[j].lhs

\* The lines that define something, and what.
LEMMA LineNumbers ==
    ASSUME NEW f \in Graphs
    PROVE  /\ \A i \in 1 .. Len(f.inputs) :
                InputLine(f, i) \in 1 .. Len(Lines(f)) /\ Defs(f, InputLine(f, i)) = {f.inputs[i]}
           /\ \A i \in 1 .. Len(f.latches) :
                LatchLine(f, i) \in 1 .. Len(Lines(f)) /\ Defs(f, LatchLine(f, i)) = {f.latches[i].lit}
           /\ \A i \in 1 .. Len(f.ands) :
                GateLine(f, i) \in 1 .. Len(Lines(f)) /\ Defs(f, GateLine(f, i)) = {f.ands[i].lhs}
<1>0. WithoutJustice(f) \in Seq(Nat)
  BY WithoutJusticeType
<1>1. PICK I \in Nat, L \in Nat, W \in Nat, A \in Nat, N \in Nat :
            /\ I = Len(f.inputs) /\ L = Len(f.latches) /\ W = Len(WithoutJustice(f)) /\ A = Len(f.ands)
            /\ N = Len(Lines(f))
  <2>1. Len(Lines(f)) \in Nat /\ Len(WithoutJustice(f)) \in Nat
    BY <1>0, LinesAre
  <2>2. Len(f.inputs) \in Nat /\ Len(f.latches) \in Nat /\ Len(f.ands) \in Nat
    BY GraphParts
  <2> QED
    BY ONLY <2>1, <2>2, Zenon
<1>2. N = I + L + W + A
  BY <1>1, LinesAre
<1>3. /\ \A i : InputLine(f, i) = i
      /\ \A i : LatchLine(f, i) = I + i
      /\ \A i : GateLine(f, i) = I + L + W + i
  BY <1>1 DEF InputLine, LatchLine, GateLine
<1>4. \A x : ToSet(<<x>>) = {x}
  BY DEF ToSet
<1>5. ASSUME NEW i \in 1 .. I
      PROVE  InputLine(f, i) \in 1 .. N /\ Defs(f, InputLine(f, i)) = {f.inputs[i]}
  <2>1. InputLine(f, i) \in 1 .. N
    BY ONLY <1>2, <1>3, <1>5
  <2>a. i \in 1 .. Len(f.inputs)
    BY <1>1, Zenon
  <2>b. Lines(f)[InputLine(f, i)] = [def |-> <<f.inputs[i]>>, uses |-> {}]
    BY <2>a, LinesAre, Zenon
  <2>2. Lines(f)[InputLine(f, i)].def = <<f.inputs[i]>>
    BY ONLY <2>b
  <2> QED
    BY ONLY <1>4, <2>1, <2>2 DEF Defs
<1>6. ASSUME NEW i \in 1 .. L
      PROVE  LatchLine(f, i) \in 1 .. N /\ Defs(f, LatchLine(f, i)) = {f.latches[i].lit}
  <2>1. LatchLine(f, i) \in 1 .. N
    BY ONLY <1>2, <1>3, <1>6
  <2>a. i \in 1 .. Len(f.latches)
    BY <1>1, Zenon
  <2>b. Lines(f)[LatchLine(f, i)] = [def |-> <<f.latches[i].lit>>, uses |-> {f.latches[i].next}]
    BY <2>a, LinesAre, Zenon
  <2>2. Lines(f)[LatchLine(f, i)].def = <<f.latches[i].lit>>
    BY ONLY <2>b
  <2> QED
    BY ONLY <1>4, <2>1, <2>2 DEF Defs
<1>7. ASSUME NEW i \in 1 .. A
      PROVE  GateLine(f, i) \in 1 .. N /\ Defs(f, GateLine(f, i)) = {f.ands[i].lhs}
  <2>1. GateLine(f, i) \in 1 .. N
    BY ONLY <1>2, <1>3, <1>7
  <2>a. i \in 1 .. Len(f.ands)
    BY <1>1, Zenon
  <2>b. Lines(f)[GateLine(f, i)] = [def |-> <<f.ands[i].lhs>>, uses |-> {f.ands[i].rhs0, f.ands[i].rhs1}]
    BY <2>a, LinesAre, Zenon
  <2>2. Lines(f)[GateLine(f, i)].def = <<f.ands[i].lhs>>
    BY ONLY <2>b
  <2> QED
    BY ONLY <1>4, <2>1, <2>2 DEF Defs
<1> QED
  BY <1>1, <1>5, <1>6, <1>7

\* What the reader checks of each line, taken together.
LEMMA ReadDefinesOnce ==
    ASSUME NEW f \in Graphs, \A k \in 1 .. Len(Lines(f)) : IsReadable(f, k)
    PROVE  DefinedOnce(f)
<1>1. PICK N \in Nat : N = Len(Lines(f))
  BY LinesAre
<1>2. \A j, k \in 1 .. N : \A l : l \in Defs(f, j) /\ l \in Defs(f, k) => j = k
  <2>1. \A k \in 1 .. N : \A l \in Defs(f, k) : \A j \in 1 .. k - 1 : l \notin Defs(f, j)
    BY <1>1 DEF IsReadable, Defs
  <2> QED
    BY <2>1
<1>3. ASSUME NEW k \in 1 .. N, NEW l \in Nat, l \in Defs(f, k) PROVE IsDefinition(f, l)
  <2>1. l # 0 /\ Sign(l) = 0 /\ Var(l) <= f.maxvar
    BY <1>1, <1>3 DEF IsReadable, Defs
  <2>2. Var(l) \in 1 .. f.maxvar /\ l = 2 * Var(l)
    BY <2>1, LiteralParts, GraphParts
  <2> QED
    BY <2>2 DEF IsDefinition
<1>4. /\ \A i \in 1 .. Len(f.inputs) : IsDefinition(f, f.inputs[i])
      /\ \A i \in 1 .. Len(f.latches) : IsDefinition(f, f.latches[i].lit)
      /\ \A i \in 1 .. Len(f.ands) : IsDefinition(f, f.ands[i].lhs)
  BY <1>1, <1>3, LineNumbers, GraphElements
<1>5. PICK I \in Nat, L \in Nat, A \in Nat, W \in Nat :
            I = Len(f.inputs) /\ L = Len(f.latches) /\ A = Len(f.ands) /\ W = Len(WithoutJustice(f))
  <2>1. WithoutJustice(f) \in Seq(Nat)
    BY WithoutJusticeType
  <2> QED
    BY <2>1, GraphParts
<1>6. /\ \A i : InputLine(f, i) = i
      /\ \A i : LatchLine(f, i) = I + i
      /\ \A i : GateLine(f, i) = I + L + W + i
  BY <1>5 DEF InputLine, LatchLine, GateLine
<1>7. \A i \in 1 .. I : i \in 1 .. N /\ f.inputs[i] \in Defs(f, i)
  BY <1>1, <1>5, <1>6, LineNumbers
<1>8. \A i \in 1 .. L : I + i \in 1 .. N /\ f.latches[i].lit \in Defs(f, I + i)
  BY <1>1, <1>5, <1>6, LineNumbers
<1>9. \A i \in 1 .. A : I + L + W + i \in 1 .. N /\ f.ands[i].lhs \in Defs(f, I + L + W + i)
  BY <1>1, <1>5, <1>6, LineNumbers
<1>10. ASSUME NEW i \in 1 .. I, NEW j \in 1 .. I, f.inputs[i] = f.inputs[j] PROVE i = j
  BY ONLY <1>2, <1>7, <1>10
<1>11. ASSUME NEW i \in 1 .. L, NEW j \in 1 .. L, f.latches[i].lit = f.latches[j].lit PROVE i = j
  <2>1. I + i = I + j
    BY ONLY <1>2, <1>8, <1>11
  <2> QED
    BY <2>1
<1>12. ASSUME NEW i \in 1 .. A, NEW j \in 1 .. A, f.ands[i].lhs = f.ands[j].lhs PROVE i = j
  <2>1. I + L + W + i = I + L + W + j
    BY ONLY <1>2, <1>9, <1>12
  <2> QED
    BY <2>1
<1>13. ASSUME NEW i \in 1 .. I, NEW j \in 1 .. L, f.inputs[i] = f.latches[j].lit PROVE FALSE
  <2>1. i = I + j
    BY ONLY <1>2, <1>7, <1>8, <1>13
  <2> QED
    BY <2>1
<1>14. ASSUME NEW i \in 1 .. I, NEW j \in 1 .. A, f.inputs[i] = f.ands[j].lhs PROVE FALSE
  <2>1. i = I + L + W + j
    BY ONLY <1>2, <1>7, <1>9, <1>14
  <2> QED
    BY <2>1
<1>15. ASSUME NEW i \in 1 .. L, NEW j \in 1 .. A, f.latches[i].lit = f.ands[j].lhs PROVE FALSE
  <2>1. I + i = I + L + W + j
    BY ONLY <1>2, <1>8, <1>9, <1>15
  <2> QED
    BY <2>1
<1> QED
  BY <1>4, <1>5, <1>10, <1>11, <1>12, <1>13, <1>14, <1>15 DEF DefinedOnce

\* A graph that has passed the checks for definitions.
Sound(g) == g \in Graphs /\ DefinedOnce(g) /\ AllDefined(g)

\* A literal that is defined is a constant or that of a variable in range.
LEMMA DefinedInRange ==
    ASSUME NEW g, Sound(g), NEW l \in Nat, IsDefined(g, l)
    PROVE  /\ Var(l) \in 0 .. g.maxvar
           /\ \/ Var(l) = 0 
              \/ IsAnd(g, Var(l)) \/ IsInput(g, Var(l)) \/ IsLatch(g, Var(l))
<1>1. Var(l) \in Nat
  BY LiteralParts
<1>2. g.maxvar \in Nat
  BY GraphParts DEF Sound
<1>3. ASSUME NEW x, IsDefinition(g, x), x = 2 * Var(l) PROVE Var(l) \in 0 .. g.maxvar
  BY <1>1, <1>2, <1>3 DEF IsDefinition
<1>4. ASSUME IsAnd(g, Var(l)) PROVE Var(l) \in 0 .. g.maxvar
  <2>1. PICK i \in DOMAIN g.ands : g.ands[i].lhs = 2 * Var(l)
    BY <1>4 DEF IsAnd
  <2>2. IsDefinition(g, g.ands[i].lhs)
    BY GraphParts DEF Sound, DefinedOnce
  <2> QED
    BY <1>3, <2>1, <2>2
<1>5. ASSUME IsInput(g, Var(l)) PROVE Var(l) \in 0 .. g.maxvar
  <2>1. PICK i \in DOMAIN g.inputs : g.inputs[i] = 2 * Var(l)
    BY <1>5 DEF IsInput
  <2>2. IsDefinition(g, g.inputs[i])
    BY GraphParts DEF Sound, DefinedOnce
  <2> QED
    BY <1>3, <2>1, <2>2
<1>6. ASSUME IsLatch(g, Var(l)) PROVE Var(l) \in 0 .. g.maxvar
  <2>1. PICK i \in DOMAIN g.latches : g.latches[i].lit = 2 * Var(l)
    BY <1>6 DEF IsLatch
  <2>2. IsDefinition(g, g.latches[i].lit)
    BY GraphParts DEF Sound, DefinedOnce
  <2> QED
    BY <1>3, <2>1, <2>2
<1>7. Var(l) = 0 => Var(l) \in 0 .. g.maxvar
  BY <1>2
<1> QED
  BY <1>4, <1>5, <1>6, <1>7 DEF IsDefined

\* A gate is the only definition of its variable, and what it uses is defined.
LEMMA GateOf ==
    ASSUME NEW g, Sound(g), NEW v \in Nat, IsAnd(g, v)
    PROVE  /\ v \in 1 .. g.maxvar
           /\ ~IsInput(g, v) /\ ~IsLatch(g, v)
           /\ And(g, v) \in [lhs : Nat, rhs0 : Nat, rhs1 : Nat]
           /\ \A i \in DOMAIN g.ands : g.ands[i].lhs = 2 * v => g.ands[i] = And(g, v)
           /\ And(g, v).lhs = 2 * v
           /\ IsDefined(g, And(g, v).rhs0) /\ IsDefined(g, And(g, v).rhs1)
<1>1. PICK i \in DOMAIN g.ands : g.ands[i].lhs = 2 * v
  BY DEF IsAnd
<1>2. i \in 1 .. Len(g.ands) /\ DOMAIN g.ands = 1 .. Len(g.ands)
  BY GraphParts DEF Sound
<1>3. \A j \in DOMAIN g.ands : g.ands[j].lhs = 2 * v => j = i
  BY <1>1, <1>2 DEF Sound, DefinedOnce
<1>4. And(g, v) = g.ands[i]
  BY <1>1, <1>3 DEF And
<1>5. v \in 1 .. g.maxvar
  <2>1. PICK u \in 1 .. g.maxvar : g.ands[i].lhs = 2 * u
    BY <1>2 DEF Sound, DefinedOnce, IsDefinition
  <2>2. u = v
    BY <1>1, <2>1
  <2> QED
    BY <2>1, <2>2
<1>6. ~IsInput(g, v)
  <2>1. DOMAIN g.inputs = 1 .. Len(g.inputs)
    BY GraphParts DEF Sound
  <2>2. \A j \in 1 .. Len(g.inputs) : g.inputs[j] # g.ands[i].lhs
    BY <1>2 DEF Sound, DefinedOnce
  <2> QED
    BY <1>1, <2>1, <2>2 DEF IsInput
<1>7. ~IsLatch(g, v)
  <2>1. DOMAIN g.latches = 1 .. Len(g.latches)
    BY GraphParts DEF Sound
  <2>2. \A j \in 1 .. Len(g.latches) : g.latches[j].lit # g.ands[i].lhs
    BY <1>2 DEF Sound, DefinedOnce
  <2> QED
    BY <1>1, <2>1, <2>2 DEF IsLatch
<1>8. g.ands[i] \in [lhs : Nat, rhs0 : Nat, rhs1 : Nat]
  <2>1. g.ands \in Seq([lhs : Nat, rhs0 : Nat, rhs1 : Nat])
    BY GraphParts DEF Sound
  <2> QED
    BY <1>2, <2>1, ElementOfSequence
<1>9. IsDefined(g, g.ands[i].rhs0) /\ IsDefined(g, g.ands[i].rhs1)
  BY DEF Sound, AllDefined
<1> QED
  BY <1>1, <1>3, <1>4, <1>5, <1>6, <1>7, <1>8, <1>9

\* The operands of a gate.
LEMMA ChildrenOf ==
    ASSUME NEW g, Sound(g), NEW v \in Nat, IsAnd(g, v)
    PROVE  /\ \A c : IsChild(g, c, v) <=> c = Var(And(g, v).rhs0) \/ c = Var(And(g, v).rhs1)
           /\ Var(And(g, v).rhs0) \in 0 .. g.maxvar /\ Var(And(g, v).rhs1) \in 0 .. g.maxvar
           /\ \A c : IsChild(g, c, v) =>
                /\ c \in 0 .. g.maxvar
                /\ c = 0 \/ IsAnd(g, c) \/ IsInput(g, c) \/ IsLatch(g, c)
<1>1. PICK i \in DOMAIN g.ands : g.ands[i].lhs = 2 * v
  BY DEF IsAnd
<1>2. /\ \A j \in DOMAIN g.ands : g.ands[j].lhs = 2 * v => g.ands[j] = And(g, v)
      /\ And(g, v) \in [lhs : Nat, rhs0 : Nat, rhs1 : Nat]
      /\ IsDefined(g, And(g, v).rhs0) /\ IsDefined(g, And(g, v).rhs1)
  BY GateOf
<1>3. \A c : IsChild(g, c, v) <=> c = Var(And(g, v).rhs0) \/ c = Var(And(g, v).rhs1)
  <2>1. ASSUME NEW c, IsChild(g, c, v) PROVE c = Var(And(g, v).rhs0) \/ c = Var(And(g, v).rhs1)
    <3>1. PICK j \in DOMAIN g.ands : g.ands[j].lhs = 2 * v /\ c \in {Var(g.ands[j].rhs0), Var(g.ands[j].rhs1)}
      BY <2>1 DEF IsChild
    <3>2. g.ands[j] = And(g, v)
      BY <1>2, <3>1
    <3> QED
      BY <3>1, <3>2
  <2>2. ASSUME NEW c, c = Var(And(g, v).rhs0) \/ c = Var(And(g, v).rhs1) PROVE IsChild(g, c, v)
    <3>1. g.ands[i] = And(g, v)
      BY <1>1, <1>2
    <3> QED
      BY <1>1, <2>2, <3>1 DEF IsChild
  <2> QED
    BY <2>1, <2>2
<1>4. And(g, v).rhs0 \in Nat /\ And(g, v).rhs1 \in Nat
  BY <1>2
<1>5. Var(And(g, v).rhs0) \in 0 .. g.maxvar /\ Var(And(g, v).rhs1) \in 0 .. g.maxvar
  BY <1>2, <1>4, DefinedInRange
<1>6. ASSUME NEW c, IsChild(g, c, v)
      PROVE  c \in 0 .. g.maxvar /\ (c = 0 \/ IsAnd(g, c) \/ IsInput(g, c) \/ IsLatch(g, c))
  BY <1>2, <1>3, <1>5, <1>6 DEF IsDefined
<1> QED
  BY <1>3, <1>5, <1>6

-----------------------------------------------------------------------------
(* aiger_check_for_cycles.                                                 *)

\* The variables that have been traversed: those of the gates that were left, and
\* all that are no gates.
CycleDone(g, fin) == {c \in 0 .. g.maxvar : c = 0 \/ ~IsAnd(g, c) \/ c \in fin}

\* The gates in fin have been left one after the other: a gate comes after its
\* operands.
LeftInOrder(g, fin) ==
    \E r \in [1 .. g.maxvar -> Nat] :
        /\ \A v \in fin : r[v] \in 1 .. Cardinality(fin)
        /\ \A v \in fin : \A c : IsChild(g, c, v) /\ c # 0 /\ IsAnd(g, c) => c \in fin /\ r[c] < r[v]

CycleInv(g, s, m, on) ==
    /\ m \subseteq {v \in 1 .. g.maxvar : IsAnd(g, v)}
    /\ on \subseteq m
    /\ Traversed(g, s, on, CycleDone(g, m \ on))
    /\ LeftInOrder(g, m \ on)

\* aiger_check_for_cycles starts with an empty stack.
LEMMA CycleStarts ==
    ASSUME NEW g, g \in Graphs
    PROVE  CycleInv(g, <<>>, {}, {})
<1>1. g.maxvar \in Nat
  BY GraphParts
<1>2. LeftInOrder(g, {} \ {})
  <2>1. [v \in 1 .. g.maxvar |-> 0] \in [1 .. g.maxvar -> Nat]
    OBVIOUS
  <2> QED
    BY <2>1 DEF LeftInOrder
<1> QED
  BY <1>2, EmptyTraversal DEF CycleInv

\* A gate is the root of a new traversal.
LEMMA CycleRootKeeps ==
    ASSUME NEW g, Sound(g), NEW m, NEW on, CycleInv(g, <<>>, m, on), NEW v \in 1 .. g.maxvar
    PROVE  CycleInv(g, <<v>>, m, on)
<1>1. on = {}
  BY NothingEntered DEF CycleInv
<1>2. Traversed(g, <<v>>, {}, CycleDone(g, m \ on))
  BY TraversalStarts, GraphParts DEF Sound
<1> QED
  BY <1>1, <1>2 DEF CycleInv

\* What is no gate, or was visited, is popped.
LEMMA PopGateKeeps ==
    ASSUME NEW g, Sound(g), NEW s, NEW m, NEW on, CycleInv(g, s, m, on),
           s # <<>>, Last(s) # 0, ~(Last(s) \in m /\ Last(s) \in on),
           ~IsAnd(g, Last(s)) \/ Last(s) \in m
    PROVE  CycleInv(g, Front(s), m, on)
<1>1. s \in Seq(0 .. g.maxvar)
  BY DEF CycleInv, Traversed, Shape
<1>2. Last(s) \in 0 .. g.maxvar
  <2>1. Last(s) = s[Len(s)] /\ Len(s) \in 1 .. Len(s)
    BY <1>1 DEF Last
  <2> QED
    BY <1>1, <2>1, ElementOfSequence
<1>3. Last(s) \in CycleDone(g, m \ on)
  BY <1>2 DEF CycleDone
<1> QED
  BY <1>3, PopKeepsTraversed DEF CycleInv

\* An operand that is no constant is pushed.
LEMMA PushedIs ==
    ASSUME NEW n \in Nat, NEW v \in 0 .. n
    PROVE  /\ Pushed(v) \in Seq(1 .. n)
           /\ \A i \in 1 .. Len(Pushed(v)) : Pushed(v)[i] = v
           /\ v # 0 => \E i \in 1 .. Len(Pushed(v)) : Pushed(v)[i] = v
<1>1. CASE v = 0
  <2>1. Pushed(v) = <<>>
    BY <1>1 DEF Pushed
  <2>2. <<>> \in Seq(1 .. n) /\ Len(<<>>) = 0
    OBVIOUS
  <2>3. \A i \in 1 .. Len(<<>>) : <<>>[i] = v
    BY <2>2
  <2> QED
    BY ONLY <1>1, <2>1, <2>2, <2>3
<1>2. CASE v # 0
  <2>1. Pushed(v) = <<v>> /\ v \in 1 .. n
    BY <1>2 DEF Pushed
  <2>2. Len(<<v>>) = 1 /\ <<v>>[1] = v /\ <<v>> \in Seq(1 .. n)
    BY <2>1
  <2> QED
    BY <2>1, <2>2
<1> QED
  BY <1>1, <1>2

\* A gate is entered.
LEMMA EnterGateKeeps ==
    ASSUME NEW g, Sound(g), NEW s, NEW m, NEW on, CycleInv(g, s, m, on),
           s # <<>>, Last(s) # 0, Last(s) \notin m, IsAnd(g, Last(s)), NEW v, v = Last(s),
           NEW e, e = s \o << 0 >> \o Pushed(Var(And(g, v).rhs0)) \o Pushed(Var(And(g, v).rhs1))
    PROVE  CycleInv(g, e, m \cup {v}, on \cup {v})
<1> DEFINE c0 == Var(And(g, v).rhs0)
           c1 == Var(And(g, v).rhs1)
           p == Pushed(c0)
           q == Pushed(c1)
           done == CycleDone(g, m \ on)
<1>1. g.maxvar \in Nat /\ v \in 1 .. g.maxvar
  <2>1. s \in Seq(0 .. g.maxvar) /\ g.maxvar \in Nat
    BY GraphParts DEF CycleInv, Traversed, Shape, Sound
  <2>2. Last(s) = s[Len(s)] /\ Len(s) \in 1 .. Len(s)
    BY <2>1 DEF Last
  <2>3. Last(s) \in 0 .. g.maxvar
    BY <2>1, <2>2, ElementOfSequence
  <2> QED
    BY <2>1, <2>3
<1>2. /\ \A c : IsChild(g, c, v) <=> c = c0 \/ c = c1
      /\ c0 \in 0 .. g.maxvar /\ c1 \in 0 .. g.maxvar
  BY <1>1, ChildrenOf
<1> HIDE DEF c0, c1
<1>3. /\ p \in Seq(1 .. g.maxvar)
      /\ \A i \in 1 .. Len(p) : p[i] = c0
      /\ c0 # 0 => \E i \in 1 .. Len(p) : p[i] = c0
  BY <1>1, <1>2, PushedIs
<1>4. /\ q \in Seq(1 .. g.maxvar)
      /\ \A i \in 1 .. Len(q) : q[i] = c1
      /\ c1 # 0 => \E i \in 1 .. Len(q) : q[i] = c1
  BY <1>1, <1>2, PushedIs
<1>5. e = s \o <<0>> \o p \o q
  BY DEF c0, c1
<1> HIDE DEF p, q
<1>6. 0 \in done
  BY <1>1 DEF CycleDone
<1> HIDE DEF done
<1>7. v \notin on
  BY DEF CycleInv
<1>8. Traversed(g, s, on, done)
  BY DEF CycleInv, done
<1>9. HoldOperands(g, p, q, v, done)
  BY <1>2, <1>3, <1>4, <1>6 DEF HoldOperands
<1>10. s # <<>> /\ v = Last(s) /\ v # 0 /\ IsAnd(g, v)
  OBVIOUS
<1>11. Traversed(g, e, on \cup {v}, done)
  BY ONLY <1>1, <1>3, <1>4, <1>5, <1>7, <1>8, <1>9, <1>10, EnterKeepsTraversed
<1>12. (m \cup {v}) \ (on \cup {v}) = m \ on
  OBVIOUS
<1>13. LeftInOrder(g, m \ on) /\ m \subseteq {u \in 1 .. g.maxvar : IsAnd(g, u)} /\ on \subseteq m
  BY DEF CycleInv
<1> QED
  BY <1>1, <1>11, <1>12, <1>13 DEF CycleInv, done

\* A gate whose operands were left before it extends the order in which gates are
\* left.
LEMMA LeftOneMore ==
    ASSUME NEW g, g.maxvar \in Nat, NEW fin, fin \subseteq 1 .. g.maxvar, LeftInOrder(g, fin),
           NEW v \in 1 .. g.maxvar, v \notin fin, \A c : IsChild(g, c, v) => c \in CycleDone(g, fin)
    PROVE  LeftInOrder(g, fin \cup {v})
<1> DEFINE n == Cardinality(fin)
<1>1. PICK r \in [1 .. g.maxvar -> Nat] :
        /\ \A u \in fin : r[u] \in 1 .. n
        /\ \A u \in fin : \A c : IsChild(g, c, u) /\ c # 0 /\ IsAnd(g, c) => c \in fin /\ r[c] < r[u]
  BY DEF LeftInOrder
<1>2. IsFiniteSet(fin)
  <2>1. IsFiniteSet(1 .. g.maxvar)
    BY FS_Interval
  <2> QED
    BY <2>1, FS_Subset
<1>3. n \in Nat /\ Cardinality(fin \cup {v}) = n + 1
  BY <1>2, FS_CardinalityType, FS_AddElement
<1> HIDE DEF n
<1> DEFINE t == [r EXCEPT ![v] = n + 1]
<1>4. t \in [1 .. g.maxvar -> Nat] /\ t[v] = n + 1 /\ \A u \in fin : t[u] = r[u]
  BY <1>3
<1> HIDE DEF t
<1>5. ASSUME NEW u \in fin \cup {v} PROVE t[u] \in 1 .. n + 1
  BY <1>1, <1>3, <1>4
<1>6. ASSUME NEW u \in fin \cup {v}, NEW c, IsChild(g, c, u), c # 0, IsAnd(g, c)
      PROVE  c \in fin \cup {v} /\ t[c] < t[u]
  <2>1. CASE u \in fin
    <3>1. c \in fin /\ r[c] < r[u]
      BY <1>1, <1>6, <2>1
    <3> QED
      BY <1>4, <2>1, <3>1
  <2>2. CASE u = v
    <3>1. c \in fin
      BY <1>6, <2>2 DEF CycleDone
    <3>2. r[c] \in 1 .. n /\ t[c] = r[c]
      BY <1>1, <1>4, <3>1
    <3> QED
      BY <1>3, <1>4, <2>2, <3>1, <3>2
  <2> QED
    BY <1>6, <2>1, <2>2
<1> QED
  BY <1>3, <1>4, <1>5, <1>6 DEF LeftInOrder

\* A gate is left.
LEMMA LeaveGateKeeps ==
    ASSUME NEW g, Sound(g), NEW s, NEW m, NEW on, CycleInv(g, s, m, on),
           s # <<>>, Last(s) = 0, NEW v, v = Last(Front(s))
    PROVE  CycleInv(g, Front(Front(s)), m, on \ {v})
<1> DEFINE done == CycleDone(g, m \ on)
<1>1. g.maxvar \in Nat
  BY GraphParts DEF Sound
<1>2. 0 \in done
  BY <1>1 DEF CycleDone
<1>3. Traversed(g, s, on, done) /\ on \subseteq m /\ m \subseteq 1 .. g.maxvar /\ LeftInOrder(g, m \ on)
  BY DEF CycleInv
<1> HIDE DEF done
<1>4. /\ v \in on
      /\ \A c : IsChild(g, c, v) => c \in done
      /\ Traversed(g, Front(Front(s)), on \ {v}, done \cup {v})
  BY <1>2, <1>3, LeaveKeepsTraversed
<1>5. m \ (on \ {v}) = (m \ on) \cup {v} /\ v \notin m \ on /\ v \in 1 .. g.maxvar
  BY <1>3, <1>4
<1>6. done \cup {v} \subseteq CycleDone(g, (m \ on) \cup {v})
  BY <1>5 DEF done, CycleDone
<1>7. Traversed(g, Front(Front(s)), on \ {v}, CycleDone(g, (m \ on) \cup {v}))
  BY <1>4, <1>6, DoneGrows
<1>8. LeftInOrder(g, (m \ on) \cup {v})
  <2>1. PICK fin : fin = m \ on
    OBVIOUS
  <2>2. fin \subseteq 1 .. g.maxvar /\ LeftInOrder(g, fin) /\ v \notin fin
    BY <1>3, <1>5, <2>1
  <2>3. \A c : IsChild(g, c, v) => c \in CycleDone(g, fin)
    BY <1>4, <2>1 DEF done
  <2>4. LeftInOrder(g, fin \cup {v})
    BY ONLY <1>1, <1>5, <2>2, <2>3, LeftOneMore
  <2> QED
    BY <2>1, <2>4
<1>9. m \subseteq {u \in 1 .. g.maxvar : IsAnd(g, u)} /\ on \ {v} \subseteq m
  BY DEF CycleInv
<1> QED
  BY <1>5, <1>7, <1>8, <1>9 DEF CycleInv

\* The traversal ends with an order of all gates.
LEMMA AcyclicRanks ==
    ASSUME NEW g, Sound(g), NEW m, NEW on, CycleInv(g, <<>>, m, on),
           \A v \in 1 .. g.maxvar : IsAnd(g, v) => v \in m
    PROVE  LeftInOrder(g, {v \in 1 .. g.maxvar : IsAnd(g, v)})
<1>1. on = {}
  BY NothingEntered DEF CycleInv
<1>2. m = {v \in 1 .. g.maxvar : IsAnd(g, v)}
  BY DEF CycleInv
<1> QED
  BY <1>1, <1>2 DEF CycleInv

\* The order in which gates are left ranks them.
LEMMA OrderIsRank ==
    ASSUME NEW g, g.maxvar \in Nat, LeftInOrder(g, {v \in 1 .. g.maxvar : IsAnd(g, v)})
    PROVE  Ranks(g) # {}
<1> DEFINE fin == {v \in 1 .. g.maxvar : IsAnd(g, v)}
<1>1. PICK r \in [1 .. g.maxvar -> Nat] :
        \A v \in fin : \A c : IsChild(g, c, v) /\ c # 0 /\ IsAnd(g, c) => c \in fin /\ r[c] < r[v]
  BY DEF LeftInOrder
<1>2. r \in Ranks(g)
  BY <1>1 DEF Ranks
<1> QED
  BY <1>2

\* The traversal finds a cycle only where there is one.
LEMMA CyclicHasNoRanks ==
    ASSUME NEW g, Sound(g), NEW s, NEW m, NEW on, CycleInv(g, s, m, on),
           s # <<>>, Last(s) # 0, Last(s) \in on
    PROVE  Ranks(g) = {}
<1>1. IsAnd(g, Last(s)) /\ g.maxvar \in Nat /\ Traversed(g, s, on, CycleDone(g, m \ on))
  BY GraphParts DEF CycleInv, Sound
<1> QED
  BY <1>1, TopIsNew

-----------------------------------------------------------------------------
(* aiger_reencode.                                                         *)

\* The properties are literals.
LEMMA PropertiesType ==
    ASSUME NEW g \in Graphs
    PROVE  Properties(g) \in Seq(Nat)
<1>1. PICK a : a = g.outputs \o g.bad \o g.constraints \o g.justice
  OBVIOUS
<1>2. a \in Seq(Nat)
  BY <1>1, GraphParts, FourParts
<1>3. Properties(g) = a \o g.fairness /\ g.fairness \in Seq(Nat)
  BY <1>1, GraphParts DEF Properties
<1> QED
  BY <1>2, <1>3

\* Whatever is reencoded is defined.
LEMMA RootsDefined ==
    ASSUME NEW g, Sound(g), HasResets(g)
    PROVE  /\ Roots(g) \in Seq(Nat)
           /\ \A k \in 1 .. Len(Roots(g)) : IsDefined(g, Roots(g)[k])
<1>1. PICK L \in Nat : L = Len(g.latches)
  BY GraphParts DEF Sound
<1>2. PICK a : a = [k \in 1 .. 2 * L |->
                        LET l == g.latches[(k + 1) \div 2] IN IF k % 2 = 1 THEN l.next ELSE l.reset]
  OBVIOUS
<1>3. PICK b : b = Properties(g)
  OBVIOUS
<1>4. Roots(g) = a \o b
  BY <1>1, <1>2, <1>3 DEF Roots
<1>5. \A i \in 1 .. L :
        /\ g.latches[i].next \in Nat /\ IsDefined(g, g.latches[i].next)
        /\ g.latches[i].reset \in Nat /\ IsDefined(g, g.latches[i].reset)
  <2> SUFFICES ASSUME NEW i \in 1 .. L
               PROVE  /\ g.latches[i].next \in Nat /\ IsDefined(g, g.latches[i].next)
                      /\ g.latches[i].reset \in Nat /\ IsDefined(g, g.latches[i].reset)
    OBVIOUS
  <2>1. i \in DOMAIN g.latches
    BY <1>1, GraphParts DEF Sound
  <2>2. g.latches[i].lit \in Nat /\ g.latches[i].next \in Nat /\ g.latches[i].reset \in Nat
    BY <1>1, GraphElements DEF Sound
  <2>3. IsDefined(g, g.latches[i].next)
    BY <2>1 DEF Sound, AllDefined
  <2>4. g.latches[i].reset \in {0, 1, g.latches[i].lit}
    BY <2>1 DEF HasResets
  <2>5. Var(0) = 0 /\ Var(1) = 0
    BY DEF Var
  <2>6. IsLatch(g, Var(g.latches[i].lit))
    <3>1. PICK v \in 1 .. g.maxvar : g.latches[i].lit = 2 * v
      BY <1>1 DEF Sound, DefinedOnce, IsDefinition
    <3>2. Var(2 * v) = v
      BY <3>1, VarOfPositive
    <3> QED
      BY <2>1, <3>1, <3>2 DEF IsLatch
  <2> QED
    BY <2>2, <2>3, <2>4, <2>5, <2>6 DEF IsDefined
<1>6. ASSUME NEW k \in 1 .. 2 * L PROVE a[k] \in Nat /\ IsDefined(g, a[k])
  <2>1. (k + 1) \div 2 \in 1 .. L
    BY <1>1
  <2>2. a[k] = g.latches[(k + 1) \div 2].next \/ a[k] = g.latches[(k + 1) \div 2].reset
    BY <1>2
  <2> QED
    BY <1>5, <2>1, <2>2
<1>7. a \in Seq(Nat) /\ Len(a) = 2 * L
  <2>1. a \in [1 .. 2 * L -> Nat] /\ 2 * L \in Nat
    BY <1>2, <1>6
  <2> QED
    BY ONLY <2>1
<1>8. b \in Seq(Nat) /\ Len(b) \in Nat /\ \A k \in 1 .. Len(b) : IsDefined(g, b[k])
  <2>1. b \in Seq(Nat)
    BY <1>3, PropertiesType DEF Sound
  <2>2. \A k \in DOMAIN b : IsDefined(g, b[k])
    BY <1>3 DEF Sound, AllDefined
  <2> QED
    BY <2>1, <2>2
<1>9. PICK e : e = a \o b
  OBVIOUS
<1>10. e \in Seq(Nat) /\ Len(e) = 2 * L + Len(b)
  <2>1. a \in Seq(Nat) /\ b \in Seq(Nat)
    BY <1>7, <1>8
  <2>2. e \in Seq(Nat) /\ Len(e) = Len(a) + Len(b)
    BY ONLY <1>9, <2>1
  <2> QED
    BY ONLY <1>7, <2>2
<1>11. /\ \A k \in 1 .. Len(a) : e[k] = a[k]
       /\ \A k \in 1 .. Len(b) : e[Len(a) + k] = b[k]
  BY ONLY <1>7, <1>8, <1>9
<1>12. ASSUME NEW k \in 1 .. Len(e) PROVE IsDefined(g, e[k])
  <2>1. CASE k <= 2 * L
    <3>1. k \in 1 .. 2 * L /\ e[k] = a[k]
      BY ONLY <1>7, <1>10, <1>11, <1>12, <2>1
    <3> QED
      BY <1>6, <3>1
  <2>2. CASE k > 2 * L
    <3>1. PICK j \in 1 .. Len(b) : k = Len(a) + j
      <4>1. k - 2 * L \in 1 .. Len(b) /\ k = Len(a) + (k - 2 * L)
        BY ONLY <1>1, <1>7, <1>8, <1>10, <1>12, <2>2
      <4> QED
        BY ONLY <4>1
    <3>2. e[k] = b[j]
      BY ONLY <1>11, <3>1
    <3> QED
      BY <1>8, <3>2
  <2> QED
    BY <1>1, <2>1, <2>2
<1> QED
  BY <1>4, <1>9, <1>10, <1>12

\* The first code of a gate.
FirstCode(g) == 2 * (Len(g.inputs) + Len(g.latches) + 1)

\* The gates that have a code are the n gates in o, in the order of their codes.
IsCodeOrder(g, cd, nw, n, o) ==
    /\ o \in [1 .. n -> 1 .. g.maxvar]
    /\ nw = FirstCode(g) + 2 * n
    /\ \A k \in 1 .. n : IsAnd(g, o[k]) /\ cd[o[k]] = FirstCode(g) + 2 * (k - 1)
    /\ \A v \in 1 .. g.maxvar : IsAnd(g, v) /\ cd[v] # 0 => \E k \in 1 .. n : o[k] = v

\* The gates got their codes one after the other.
CodedInOrder(g, cd, nw) == \E n \in Nat : \E o : IsCodeOrder(g, cd, nw, n, o)

\* Inputs and latches have the codes of their positions.
LeavesCoded(g, cd) ==
    \A v \in 0 .. g.maxvar :
        /\ \A i \in 1 .. Len(g.inputs) : g.inputs[i] = 2 * v => cd[v] = 2 * i
        /\ \A i \in 1 .. Len(g.latches) : g.latches[i].lit = 2 * v => cd[v] = 2 * (Len(g.inputs) + i)
        /\ cd[v] # 0 => IsInput(g, v) \/ IsLatch(g, v) \/ IsAnd(g, v)

\* A gate gets its code after its operands.
OperandsCoded(g, cd) ==
    \A v \in 1 .. g.maxvar : IsAnd(g, v) /\ cd[v] # 0 =>
        \A c \in 1 .. g.maxvar : IsChild(g, c, v) => cd[c] # 0 /\ cd[c] < cd[v]

CodeInv(g, cd, nw) ==
    /\ cd \in [0 .. g.maxvar -> Nat] /\ nw \in Nat
    /\ cd[0] = 0
    /\ \A v \in 0 .. g.maxvar : cd[v] < nw /\ cd[v] % 2 = 0
    /\ LeavesCoded(g, cd)
    /\ OperandsCoded(g, cd)
    /\ CodedInOrder(g, cd, nw)

CodeDone(g, cd) == {c \in 0 .. g.maxvar : c = 0 \/ cd[c] # 0}

\* Only gates are traversed, and those that have been entered have no code yet.
ReencodeInv(g, s, on, cd, nw) ==
    /\ CodeInv(g, cd, nw)
    /\ Traversed(g, s, on, CodeDone(g, cd))
    /\ \A k \in 1 .. Len(s) : s[k] # 0 => IsAnd(g, s[k])
    /\ \A v \in on : cd[v] = 0

\* Inputs and latches have variables in the range.
LEMMA InputOrLatchInRange ==
    ASSUME NEW g, Sound(g), NEW v \in Nat, IsInput(g, v) \/ IsLatch(g, v)
    PROVE  v \in 1 .. g.maxvar
<1>1. ASSUME IsInput(g, v) PROVE v \in 1 .. g.maxvar
  <2>1. PICK i \in 1 .. Len(g.inputs) : g.inputs[i] = 2 * v
    BY <1>1, GraphParts DEF IsInput, Sound
  <2>2. PICK u \in 1 .. g.maxvar : g.inputs[i] = 2 * u
    BY DEF Sound, DefinedOnce, IsDefinition
  <2>3. u = v
    BY <2>1, <2>2
  <2> QED
    BY <2>3
<1>2. ASSUME IsLatch(g, v) PROVE v \in 1 .. g.maxvar
  <2>1. PICK i \in 1 .. Len(g.latches) : g.latches[i].lit = 2 * v
    BY <1>2, GraphParts DEF IsLatch, Sound
  <2>2. PICK u \in 1 .. g.maxvar : g.latches[i].lit = 2 * u
    BY DEF Sound, DefinedOnce, IsDefinition
  <2>3. u = v
    BY <2>1, <2>2
  <2> QED
    BY <2>3
<1> QED
  BY <1>1, <1>2

\* The codes aiger_reencode starts with.
FirstCodes(g) ==
    [v \in 0 .. g.maxvar |->
        IF IsInput(g, v) THEN 2 * (CHOOSE i \in DOMAIN g.inputs : g.inputs[i] = 2 * v)
        ELSE IF IsLatch(g, v)
        THEN 2 * (Len(g.inputs) + CHOOSE i \in DOMAIN g.latches : g.latches[i].lit = 2 * v)
        ELSE 0]

\* Inputs and then latches have the first codes, in their order.
LEMMA FirstCodesAre ==
    ASSUME NEW g, Sound(g), NEW v \in 0 .. g.maxvar
    PROVE  /\ \A i \in 1 .. Len(g.inputs) : g.inputs[i] = 2 * v => FirstCodes(g)[v] = 2 * i
           /\ \A i \in 1 .. Len(g.latches) :
                g.latches[i].lit = 2 * v => FirstCodes(g)[v] = 2 * (Len(g.inputs) + i)
           /\ FirstCodes(g)[v] # 0 => IsInput(g, v) \/ IsLatch(g, v)
           /\ \E k \in 0 .. Len(g.inputs) + Len(g.latches) : FirstCodes(g)[v] = 2 * k
<1>1. PICK I \in Nat, L \in Nat :
        /\ I = Len(g.inputs) /\ DOMAIN g.inputs = 1 .. I
        /\ L = Len(g.latches) /\ DOMAIN g.latches = 1 .. L
  BY GraphParts DEF Sound
<1>2. FirstCodes(g)[v] =
        IF IsInput(g, v) THEN 2 * (CHOOSE i \in 1 .. I : g.inputs[i] = 2 * v)
        ELSE IF IsLatch(g, v)
        THEN 2 * (I + CHOOSE i \in 1 .. L : g.latches[i].lit = 2 * v)
        ELSE 0
  BY <1>1 DEF FirstCodes
<1>3. ASSUME NEW i \in 1 .. I, g.inputs[i] = 2 * v PROVE FirstCodes(g)[v] = 2 * i
  <2>1. \A j \in 1 .. I : g.inputs[j] = 2 * v => j = i
    BY <1>1, <1>3 DEF Sound, DefinedOnce
  <2>2. (CHOOSE j \in 1 .. I : g.inputs[j] = 2 * v) = i
    BY <1>3, <2>1
  <2>3. IsInput(g, v)
    BY <1>1, <1>3 DEF IsInput
  <2> QED
    BY <1>2, <2>2, <2>3
<1>4. ASSUME NEW i \in 1 .. L, g.latches[i].lit = 2 * v PROVE FirstCodes(g)[v] = 2 * (I + i)
  <2>1. \A j \in 1 .. L : g.latches[j].lit = 2 * v => j = i
    BY <1>1, <1>4 DEF Sound, DefinedOnce
  <2>2. (CHOOSE j \in 1 .. L : g.latches[j].lit = 2 * v) = i
    BY <1>4, <2>1
  <2>3. IsLatch(g, v)
    BY <1>1, <1>4 DEF IsLatch
  <2>4. ~IsInput(g, v)
    BY <1>1, <1>4 DEF IsInput, Sound, DefinedOnce
  <2> QED
    BY <1>2, <2>2, <2>3, <2>4
<1>5. CASE IsInput(g, v)
  <2>1. PICK i \in 1 .. I : g.inputs[i] = 2 * v
    BY <1>1, <1>5 DEF IsInput
  <2>2. FirstCodes(g)[v] = 2 * i /\ i \in 0 .. I + L
    BY <1>3, <2>1
  <2> QED
    BY <1>1, <1>3, <1>4, <1>5, <2>2
<1>6. CASE ~IsInput(g, v) /\ IsLatch(g, v)
  <2>1. PICK i \in 1 .. L : g.latches[i].lit = 2 * v
    BY <1>1, <1>6 DEF IsLatch
  <2>2. FirstCodes(g)[v] = 2 * (I + i) /\ I + i \in 0 .. I + L
    BY <1>4, <2>1
  <2> QED
    BY <1>1, <1>3, <1>4, <1>6, <2>2
<1>7. CASE ~IsInput(g, v) /\ ~IsLatch(g, v)
  <2>1. FirstCodes(g)[v] = 0
    BY <1>2, <1>7
  <2>2. \E k \in 0 .. I + L : FirstCodes(g)[v] = 2 * k
    BY <2>1
  <2> QED
    BY <1>1, <1>3, <1>4, <2>1, <2>2
<1> QED
  BY <1>5, <1>6, <1>7

\* aiger_reencode starts with the codes of inputs and latches.
LEMMA ReencodeStarts ==
    ASSUME NEW g, Sound(g)
    PROVE  ReencodeInv(g, <<>>, {}, FirstCodes(g), FirstCode(g))
<1>1. PICK I \in Nat, L \in Nat : I = Len(g.inputs) /\ L = Len(g.latches)
  BY GraphParts DEF Sound
<1>2. g.maxvar \in Nat
  BY GraphParts DEF Sound
<1>3. FirstCode(g) = 2 * (I + L + 1)
  BY <1>1 DEF FirstCode
<1>4. PICK cd : cd = FirstCodes(g)
  OBVIOUS
<1>5. ASSUME NEW v \in 0 .. g.maxvar PROVE \E k \in 0 .. I + L : cd[v] = 2 * k
  BY <1>1, <1>4, FirstCodesAre
<1>6. cd \in [0 .. g.maxvar -> Nat]
  <2>1. \A v \in 0 .. g.maxvar : cd[v] \in Nat
    BY <1>5
  <2>2. cd = [v \in 0 .. g.maxvar |-> cd[v]]
    BY <1>4 DEF FirstCodes
  <2> QED
    BY <2>1, <2>2
<1>7. \A v \in 0 .. g.maxvar : cd[v] < FirstCode(g) /\ cd[v] % 2 = 0
  BY <1>3, <1>5
<1>8. LeavesCoded(g, cd)
  BY <1>4, FirstCodesAre DEF LeavesCoded
<1>9. cd[0] = 0
  <2>1. 0 \in 0 .. g.maxvar
    BY <1>2
  <2>2. ~IsInput(g, 0) /\ ~IsLatch(g, 0)
    BY InputOrLatchInRange
  <2> QED
    BY <1>4, <2>1, <2>2, FirstCodesAre
<1>10. \A v \in 1 .. g.maxvar : IsAnd(g, v) => cd[v] = 0
  <2> SUFFICES ASSUME NEW v \in 1 .. g.maxvar, IsAnd(g, v) PROVE cd[v] = 0
    OBVIOUS
  <2>1. ~IsInput(g, v) /\ ~IsLatch(g, v)
    BY GateOf
  <2>2. v \in 0 .. g.maxvar
    BY <1>2
  <2> QED
    BY <1>4, <2>1, <2>2, FirstCodesAre
<1>11. OperandsCoded(g, cd)
  BY <1>10 DEF OperandsCoded
<1>12. CodedInOrder(g, cd, FirstCode(g))
  <2>1. <<>> \in [1 .. 0 -> 1 .. g.maxvar]
    OBVIOUS
  <2>2. FirstCode(g) = FirstCode(g) + 2 * 0
    BY <1>3
  <2>3. IsCodeOrder(g, cd, FirstCode(g), 0, <<>>)
    BY <1>10, <2>1, <2>2 DEF IsCodeOrder
  <2> QED
    BY <2>3 DEF CodedInOrder
<1>13. CodeInv(g, cd, FirstCode(g))
  BY <1>3, <1>6, <1>7, <1>8, <1>9, <1>11, <1>12 DEF CodeInv
<1> QED
  BY <1>4, <1>13, EmptyTraversal DEF ReencodeInv

\* A literal that is defined is a constant, or has a code, or is that of a gate.
LEMMA CodedOrGate ==
    ASSUME NEW g, Sound(g), NEW cd, LeavesCoded(g, cd), NEW v \in 0 .. g.maxvar,
           v = 0 \/ IsAnd(g, v) \/ IsInput(g, v) \/ IsLatch(g, v)
    PROVE  /\ v = 0 \/ IsAnd(g, v) \/ cd[v] # 0
           /\ IsInput(g, v) \/ IsLatch(g, v) => cd[v] # 0
<1>1. PICK I \in Nat, L \in Nat :
        /\ I = Len(g.inputs) /\ DOMAIN g.inputs = 1 .. I
        /\ L = Len(g.latches) /\ DOMAIN g.latches = 1 .. L
  BY GraphParts DEF Sound
<1>2. ASSUME IsInput(g, v) PROVE cd[v] # 0
  <2>1. PICK i \in 1 .. I : g.inputs[i] = 2 * v
    BY <1>1, <1>2 DEF IsInput
  <2>2. cd[v] = 2 * i
    BY <1>1, <2>1 DEF LeavesCoded
  <2> QED
    BY <2>2
<1>3. ASSUME IsLatch(g, v) PROVE cd[v] # 0
  <2>1. PICK i \in 1 .. L : g.latches[i].lit = 2 * v
    BY <1>1, <1>3 DEF IsLatch
  <2>2. cd[v] = 2 * (I + i)
    BY <1>1, <2>1 DEF LeavesCoded
  <2> QED
    BY <2>2
<1> QED
  BY <1>2, <1>3

\* A root without a code starts a traversal.
LEMMA ReencodeRootKeeps ==
    ASSUME NEW g, Sound(g), NEW on, NEW cd, NEW nw, ReencodeInv(g, <<>>, on, cd, nw),
           NEW l \in Nat, IsDefined(g, l), ~IsConstant(l), cd[Var(l)] = 0
    PROVE  ReencodeInv(g, <<Var(l)>>, on, cd, nw)
<1>1. on = {}
  BY NothingEntered DEF ReencodeInv
<1>2. Var(l) \in 0 .. g.maxvar /\ Var(l) # 0 /\ g.maxvar \in Nat
  <2>1. Var(l) # 0
    BY DEF Var, IsConstant
  <2> QED
    BY <2>1, DefinedInRange, GraphParts DEF Sound
<1>3. IsAnd(g, Var(l))
  BY <1>2, CodedOrGate DEF ReencodeInv, CodeInv, IsDefined
<1>4. Traversed(g, <<Var(l)>>, {}, CodeDone(g, cd))
  <2>1. Var(l) \in 1 .. g.maxvar
    BY <1>2
  <2> QED
    BY <1>2, <2>1, TraversalStarts
<1>5. \A k \in 1 .. Len(<<Var(l)>>) : IsAnd(g, <<Var(l)>>[k])
  BY <1>3
<1> QED
  BY <1>1, <1>4, <1>5 DEF ReencodeInv

\* The gate on top is a gate, and has not been entered.
LEMMA ReencodeTop ==
    ASSUME NEW g, Sound(g), Ranks(g) # {}, NEW s, NEW on, NEW cd, NEW nw,
           ReencodeInv(g, s, on, cd, nw), s # <<>>, Last(s) # 0
    PROVE  /\ Last(s) \in 1 .. g.maxvar /\ IsAnd(g, Last(s)) /\ Last(s) \notin on
           /\ \A c \in on : ~IsChild(g, c, Last(s))
<1>1. s \in Seq(0 .. g.maxvar) /\ Traversed(g, s, on, CodeDone(g, cd)) /\ g.maxvar \in Nat
  BY GraphParts DEF ReencodeInv, Traversed, Shape, Sound
<1>2. Last(s) = s[Len(s)] /\ Len(s) \in 1 .. Len(s)
  BY <1>1 DEF Last
<1>3. IsAnd(g, Last(s))
  BY <1>2 DEF ReencodeInv
<1>4. Last(s) \in 0 .. g.maxvar
  BY <1>1, <1>2, ElementOfSequence
<1> QED
  BY <1>1, <1>3, <1>4, TopIsNew

\* What has a code is popped.
LEMMA PopCodedKeeps ==
    ASSUME NEW g, Sound(g), Ranks(g) # {}, NEW s, NEW on, NEW cd, NEW nw,
           ReencodeInv(g, s, on, cd, nw), s # <<>>, Last(s) # 0, cd[Last(s)] # 0
    PROVE  ReencodeInv(g, Front(s), on, cd, nw)
<1>1. Last(s) \in CodeDone(g, cd)
  BY ReencodeTop DEF CodeDone
<1>2. Traversed(g, Front(s), on, CodeDone(g, cd))
  BY <1>1, PopKeepsTraversed DEF ReencodeInv
<1>3. s \in Seq(0 .. g.maxvar)
  BY DEF ReencodeInv, Traversed, Shape
<1>4. Len(s) \in Nat /\ Len(Front(s)) = Len(s) - 1 /\ \A k \in 1 .. Len(s) - 1 : Front(s)[k] = s[k]
  BY <1>3, FrontOf
<1>5. \A k \in 1 .. Len(Front(s)) : Front(s)[k] # 0 => IsAnd(g, Front(s)[k])
  BY <1>4 DEF ReencodeInv
<1> QED
  BY <1>2, <1>5 DEF ReencodeInv

\* What PushedChild is, for the gates in on.
PushedUnless(g, on, v) ==
    IF v = 0 \/ IsInput(g, v) \/ IsLatch(g, v) \/ v \in on THEN <<>> ELSE <<v>>

\* An operand that is a gate and not on the stack is pushed.
LEMMA PushedUnlessIs ==
    ASSUME NEW g, Sound(g), NEW cd, LeavesCoded(g, cd), NEW on, NEW v \in 0 .. g.maxvar,
           v = 0 \/ IsAnd(g, v) \/ IsInput(g, v) \/ IsLatch(g, v), v \notin on,
           NEW p, p = PushedUnless(g, on, v)
    PROVE  /\ p \in Seq(1 .. g.maxvar)
           /\ \A i \in 1 .. Len(p) : p[i] = v /\ IsAnd(g, p[i])
           /\ v \in CodeDone(g, cd) \/ \E i \in 1 .. Len(p) : p[i] = v
<1>1. g.maxvar \in Nat
  BY GraphParts DEF Sound
<1>2. CASE v = 0 \/ IsInput(g, v) \/ IsLatch(g, v)
  <2>1. p = <<>>
    BY <1>2 DEF PushedUnless
  <2>2. v \in CodeDone(g, cd)
    BY <1>2, CodedOrGate DEF CodeDone
  <2>3. p \in Seq(1 .. g.maxvar) /\ Len(p) = 0
    BY ONLY <2>1
  <2> QED
    BY ONLY <2>2, <2>3
<1>3. CASE ~(v = 0 \/ IsInput(g, v) \/ IsLatch(g, v))
  <2>1. p = <<v>> /\ IsAnd(g, v) /\ v \in 1 .. g.maxvar
    BY <1>1, <1>3 DEF PushedUnless
  <2>2. p \in Seq(1 .. g.maxvar) /\ Len(p) = 1 /\ p[1] = v
    BY ONLY <2>1
  <2>3. 1 \in 1 .. Len(p) /\ \A i \in 1 .. Len(p) : i = 1
    BY ONLY <2>2
  <2> QED
    BY ONLY <2>1, <2>2, <2>3
<1> QED
  BY <1>2, <1>3

\* The operands of a gate come before it.
LEMMA ExpandGateKeeps ==
    ASSUME NEW g, Sound(g), Ranks(g) # {}, NEW s, NEW on, NEW cd, NEW nw,
           ReencodeInv(g, s, on, cd, nw), s # <<>>, Last(s) # 0, cd[Last(s)] = 0,
           NEW v, v = Last(s), NEW c0, NEW c1,
           {c0, c1} = {Var(And(g, v).rhs0), Var(And(g, v).rhs1)},
           NEW e, e = s \o << 0 >> \o PushedUnless(g, on, c0) \o PushedUnless(g, on, c1)
    PROVE  ReencodeInv(g, e, on \cup {v}, cd, nw)
<1>1. g.maxvar \in Nat /\ v \in 1 .. g.maxvar /\ IsAnd(g, v) /\ v \notin on
  BY ReencodeTop, GraphParts DEF Sound
<1>2. /\ \A c : IsChild(g, c, v) <=> c = c0 \/ c = c1
      /\ \A c : IsChild(g, c, v) =>
            c \in 0 .. g.maxvar /\ (c = 0 \/ IsAnd(g, c) \/ IsInput(g, c) \/ IsLatch(g, c))
  <2>1. \A c : IsChild(g, c, v) <=> c \in {Var(And(g, v).rhs0), Var(And(g, v).rhs1)}
    BY <1>1, ChildrenOf
  <2>2. \A c : IsChild(g, c, v) =>
            c \in 0 .. g.maxvar /\ (c = 0 \/ IsAnd(g, c) \/ IsInput(g, c) \/ IsLatch(g, c))
    BY <1>1, ChildrenOf
  <2> QED
    BY <2>1, <2>2
<1>3. c0 \notin on /\ c1 \notin on
  BY <1>2, ReencodeTop
<1>4. LeavesCoded(g, cd)
  BY DEF ReencodeInv, CodeInv
<1>5. PICK p, q : p = PushedUnless(g, on, c0) /\ q = PushedUnless(g, on, c1)
  OBVIOUS
<1>6. /\ p \in Seq(1 .. g.maxvar)
      /\ \A i \in 1 .. Len(p) : p[i] = c0 /\ IsAnd(g, p[i])
      /\ c0 \in CodeDone(g, cd) \/ \E i \in 1 .. Len(p) : p[i] = c0
  <2>1. c0 \in 0 .. g.maxvar /\ (c0 = 0 \/ IsAnd(g, c0) \/ IsInput(g, c0) \/ IsLatch(g, c0))
    BY <1>2
  <2> QED
    BY <1>3, <1>4, <1>5, <2>1, PushedUnlessIs
<1>7. /\ q \in Seq(1 .. g.maxvar)
      /\ \A i \in 1 .. Len(q) : q[i] = c1 /\ IsAnd(g, q[i])
      /\ c1 \in CodeDone(g, cd) \/ \E i \in 1 .. Len(q) : q[i] = c1
  <2>1. c1 \in 0 .. g.maxvar /\ (c1 = 0 \/ IsAnd(g, c1) \/ IsInput(g, c1) \/ IsLatch(g, c1))
    BY <1>2
  <2> QED
    BY <1>3, <1>4, <1>5, <2>1, PushedUnlessIs
<1>8. HoldOperands(g, p, q, v, CodeDone(g, cd))
  BY ONLY <1>2, <1>6, <1>7 DEF HoldOperands
<1>9. e = s \o <<0>> \o p \o q /\ s # <<>> /\ v = Last(s) /\ v # 0
  BY <1>5
<1>10. Traversed(g, s, on, CodeDone(g, cd))
  BY DEF ReencodeInv
<1>11. Traversed(g, e, on \cup {v}, CodeDone(g, cd))
  BY ONLY <1>1, <1>6, <1>7, <1>8, <1>9, <1>10, EnterKeepsTraversed
<1>12. \A k \in 1 .. Len(e) : e[k] # 0 => IsAnd(g, e[k])
  <2>1. PICK T : T = 0 .. g.maxvar
    OBVIOUS
  <2>2. 0 \in T /\ s \in Seq(T) /\ p \in Seq(T \ {0}) /\ q \in Seq(T \ {0})
    <3>1. T \ {0} = 1 .. g.maxvar /\ 0 \in T
      BY <1>1, <2>1
    <3> QED
      BY <1>6, <1>7, <1>10, <2>1, <3>1 DEF Traversed, Shape
  <2>3. Stacked(s, p, q, e)
    BY ONLY <1>9, <2>2, OpenedAfterEnter
  <2>4. \A k \in 1 .. Len(s) : s[k] # 0 => IsAnd(g, s[k])
    BY DEF ReencodeInv
  <2>5. e \in Seq(0 .. g.maxvar) /\ Len(e) \in Nat /\ Len(s) \in Nat
    BY <1>11, <2>2 DEF Traversed, Shape
  <2> SUFFICES ASSUME NEW k \in 1 .. Len(e), e[k] # 0 PROVE IsAnd(g, e[k])
    OBVIOUS
  <2>6. CASE k <= Len(s)
    <3>1. k \in 1 .. Len(s) /\ e[k] = s[k]
      BY ONLY <2>3, <2>5, <2>6, k \in 1 .. Len(e) DEF Stacked
    <3> QED
      BY <2>4, <3>1
  <2>7. k # Len(s) + 1
    BY <2>3 DEF Stacked
  <2>8. CASE k > Len(s) + 1
    <3>1. (\E j \in 1 .. Len(p) : e[k] = p[j]) \/ (\E j \in 1 .. Len(q) : e[k] = q[j])
      BY ONLY <2>3, <2>8, k \in 1 .. Len(e) DEF Stacked
    <3> QED
      BY <1>6, <1>7, <3>1
  <2> QED
    BY <2>5, <2>6, <2>7, <2>8
<1>13. \A u \in on \cup {v} : cd[u] = 0
  BY DEF ReencodeInv
<1> QED
  BY <1>11, <1>12, <1>13 DEF ReencodeInv

\* A gate whose operands have codes gets the next one.
LEMMA NewCodeKeeps ==
    ASSUME NEW g, Sound(g), NEW cd, NEW nw, CodeInv(g, cd, nw),
           NEW v \in 1 .. g.maxvar, IsAnd(g, v), cd[v] = 0,
           \A c : IsChild(g, c, v) => c \in CodeDone(g, cd),
           NEW ce, ce = [cd EXCEPT ![v] = nw]
    PROVE  CodeInv(g, ce, nw + 2)
<1>1. g.maxvar \in Nat /\ v \in 0 .. g.maxvar
  BY GraphParts DEF Sound
<1>2. cd \in [0 .. g.maxvar -> Nat] /\ nw \in Nat /\ cd[0] = 0
  BY DEF CodeInv
<1>3. /\ ce \in [0 .. g.maxvar -> Nat]
      /\ ce[v] = nw
      /\ \A u \in 0 .. g.maxvar : u # v => ce[u] = cd[u]
  BY <1>1, <1>2
<1>n. PICK n \in Nat : \E o : IsCodeOrder(g, cd, nw, n, o)
  BY DEF CodeInv, CodedInOrder
<1>4. PICK o : IsCodeOrder(g, cd, nw, n, o)
  BY <1>n
<1>5. PICK F \in Nat : F = FirstCode(g) /\ F % 2 = 0 /\ F > 0
  <2>1. PICK I \in Nat, L \in Nat : I = Len(g.inputs) /\ L = Len(g.latches)
    BY GraphParts DEF Sound
  <2>2. FirstCode(g) = 2 * (I + L + 1)
    BY <2>1 DEF FirstCode
  <2> QED
    BY ONLY <2>2
<1>6. /\ o \in [1 .. n -> 1 .. g.maxvar]
      /\ nw = F + 2 * n
      /\ \A k \in 1 .. n : IsAnd(g, o[k]) /\ cd[o[k]] = F + 2 * (k - 1)
      /\ \A u \in 1 .. g.maxvar : IsAnd(g, u) /\ cd[u] # 0 => \E k \in 1 .. n : o[k] = u
  BY <1>4, <1>5 DEF IsCodeOrder
<1>7. nw % 2 = 0 /\ nw > 0
  BY <1>5, <1>6
<1>8. ASSUME NEW u \in 0 .. g.maxvar PROVE ce[u] < nw + 2 /\ ce[u] % 2 = 0
  <2>1. cd[u] < nw /\ cd[u] % 2 = 0 /\ cd[u] \in Nat
    BY <1>2 DEF CodeInv
  <2> QED
    BY <1>2, <1>3, <1>7, <2>1
<1>9. LeavesCoded(g, ce)
  <2> SUFFICES ASSUME NEW u \in 0 .. g.maxvar
               PROVE  /\ \A i \in 1 .. Len(g.inputs) : g.inputs[i] = 2 * u => ce[u] = 2 * i
                      /\ \A i \in 1 .. Len(g.latches) :
                            g.latches[i].lit = 2 * u => ce[u] = 2 * (Len(g.inputs) + i)
                      /\ ce[u] # 0 => IsInput(g, u) \/ IsLatch(g, u) \/ IsAnd(g, u)
    BY DEF LeavesCoded
  <2>1. CASE u # v
    BY <1>3, <2>1 DEF CodeInv, LeavesCoded
  <2>2. CASE u = v
    <3>1. ~IsInput(g, v) /\ ~IsLatch(g, v)
      BY GateOf
    <3>2. DOMAIN g.inputs = 1 .. Len(g.inputs) /\ DOMAIN g.latches = 1 .. Len(g.latches)
      BY GraphParts DEF Sound
    <3> QED
      BY <2>2, <3>1, <3>2 DEF IsInput, IsLatch
  <2> QED
    BY <2>1, <2>2
<1>10. OperandsCoded(g, ce)
  <2> SUFFICES ASSUME NEW u \in 1 .. g.maxvar, IsAnd(g, u), ce[u] # 0,
                      NEW c \in 1 .. g.maxvar, IsChild(g, c, u)
               PROVE  ce[c] # 0 /\ ce[c] < ce[u]
    BY DEF OperandsCoded
  <2>0. u \in 0 .. g.maxvar /\ c \in 0 .. g.maxvar
    BY <1>1
  <2>1. CASE u = v
    <3>1. cd[c] # 0
      BY <2>1 DEF CodeDone
    <3>2. c # v
      BY <3>1
    <3>3. cd[c] < nw
      BY <2>0 DEF CodeInv
    <3> QED
      BY <1>3, <2>0, <2>1, <3>1, <3>2, <3>3
  <2>2. CASE u # v
    <3>1. cd[u] # 0
      BY <1>3, <2>0, <2>2
    <3>2. cd[c] # 0 /\ cd[c] < cd[u]
      BY <3>1 DEF CodeInv, OperandsCoded
    <3>3. c # v
      BY <3>2
    <3> QED
      BY <1>3, <2>0, <2>2, <3>2, <3>3
  <2> QED
    BY <2>1, <2>2
<1>11. CodedInOrder(g, ce, nw + 2)
  <2> DEFINE t == [k \in 1 .. n + 1 |-> IF k = n + 1 THEN v ELSE o[k]]
  <2>1. t \in [1 .. n + 1 -> 1 .. g.maxvar] /\ t[n + 1] = v /\ \A k \in 1 .. n : t[k] = o[k]
    BY <1>6
  <2> HIDE DEF t
  <2>2. \A k \in 1 .. n : o[k] \in 1 .. g.maxvar /\ o[k] # v
    BY <1>5, <1>6
  <2>3. ASSUME NEW k \in 1 .. n + 1 PROVE IsAnd(g, t[k]) /\ ce[t[k]] = F + 2 * (k - 1)
    <3>1. CASE k = n + 1
      BY <1>3, <1>6, <2>1, <3>1
    <3>2. CASE k # n + 1
      <4>1. k \in 1 .. n
        BY <3>2
      <4>2. o[k] \in 0 .. g.maxvar /\ ce[o[k]] = cd[o[k]]
        BY <1>1, <1>3, <2>2, <4>1
      <4> QED
        BY <1>6, <2>1, <4>1, <4>2
    <3> QED
      BY <3>1, <3>2
  <2>4. ASSUME NEW u \in 1 .. g.maxvar, IsAnd(g, u), ce[u] # 0 PROVE \E k \in 1 .. n + 1 : t[k] = u
    <3>1. CASE u = v
      BY <2>1, <3>1
    <3>2. CASE u # v
      <4>1. cd[u] # 0
        BY <1>1, <1>3, <2>4, <3>2
      <4>2. PICK k \in 1 .. n : o[k] = u
        BY <1>6, <2>4, <4>1
      <4>3. k \in 1 .. n + 1 /\ t[k] = u
        BY <2>1, <4>2
      <4> QED
        BY <4>3
    <3> QED
      BY <3>1, <3>2
  <2>5. nw + 2 = F + 2 * (n + 1)
    BY <1>6
  <2>6. IsCodeOrder(g, ce, nw + 2, n + 1, t)
    BY <1>5, <2>1, <2>3, <2>4, <2>5 DEF IsCodeOrder
  <2>7. n + 1 \in Nat
    OBVIOUS
  <2> QED
    BY <2>6, <2>7 DEF CodedInOrder
<1>12. ce[0] = 0
  BY <1>1, <1>2, <1>3
<1> QED
  BY <1>2, <1>3, <1>8, <1>9, <1>10, <1>11, <1>12 DEF CodeInv

\* A gate has its code after its operands have theirs.
LEMMA CodeGateKeeps ==
    ASSUME NEW g, Sound(g), NEW s, NEW on, NEW cd, NEW nw,
           ReencodeInv(g, s, on, cd, nw), s # <<>>, Last(s) = 0,
           NEW v, v = Last(Front(s)), NEW ce, ce = [cd EXCEPT ![v] = nw]
    PROVE  ReencodeInv(g, Front(Front(s)), on \ {v}, ce, nw + 2)
<1>1. g.maxvar \in Nat
  BY GraphParts DEF Sound
<1>2. 0 \in CodeDone(g, cd) /\ Traversed(g, s, on, CodeDone(g, cd)) /\ CodeInv(g, cd, nw)
  BY <1>1 DEF CodeDone, ReencodeInv
<1>3. /\ v \in on /\ v # 0 /\ IsAnd(g, v) /\ v \in 0 .. g.maxvar
      /\ \A c : IsChild(g, c, v) => c \in CodeDone(g, cd)
      /\ Traversed(g, Front(Front(s)), on \ {v}, CodeDone(g, cd) \cup {v})
  BY <1>2, LeaveKeepsTraversed
<1>4. v \in 1 .. g.maxvar /\ cd[v] = 0
  BY <1>1, <1>3 DEF ReencodeInv
<1>5. CodeInv(g, ce, nw + 2)
  BY <1>2, <1>3, <1>4, NewCodeKeeps
<1>6. nw # 0 /\ cd \in [0 .. g.maxvar -> Nat]
  <2>1. cd[0] < nw /\ cd[0] = 0 /\ nw \in Nat
    BY <1>1, <1>2 DEF CodeInv
  <2> QED
    BY <1>2, <2>1 DEF CodeInv
<1>7. CodeDone(g, cd) \cup {v} \subseteq CodeDone(g, ce)
  BY <1>3, <1>6 DEF CodeDone
<1>8. Traversed(g, Front(Front(s)), on \ {v}, CodeDone(g, ce))
  BY <1>3, <1>7, DoneGrows
<1>9. \A k \in 1 .. Len(Front(Front(s))) : Front(Front(s))[k] # 0 => IsAnd(g, Front(Front(s))[k])
  <2>1. s \in Seq(0 .. g.maxvar)
    BY <1>2 DEF Traversed, Shape
  <2>2. /\ Len(s) \in Nat /\ Len(Front(s)) = Len(s) - 1 /\ Front(s) \in Seq(0 .. g.maxvar)
        /\ \A k \in 1 .. Len(s) - 1 : Front(s)[k] = s[k]
    BY <2>1, FrontOf
  <2>3. Len(s) > 1
    <3>1. s[Len(s)] = 0 /\ Len(s) \in 1 .. Len(s)
      BY <2>1 DEF Last
    <3>2. Len(s) - 1 \in 1 .. Len(s)
      BY <1>2, <3>1 DEF Traversed, Shape
    <3> QED
      BY <2>2, <3>2
  <2>4. Front(s) # <<>>
    BY <2>2, <2>3
  <2>5. /\ Len(Front(Front(s))) = Len(Front(s)) - 1
        /\ \A k \in 1 .. Len(Front(s)) - 1 : Front(Front(s))[k] = Front(s)[k]
    BY <2>2, <2>4, FrontOf
  <2> QED
    BY <2>2, <2>5 DEF ReencodeInv
<1>10. \A u \in on \ {v} : ce[u] = 0
  <2> SUFFICES ASSUME NEW u \in on \ {v} PROVE ce[u] = 0
    OBVIOUS
  <2>1. cd[u] = 0
    BY DEF ReencodeInv
  <2>2. u \in 0 .. g.maxvar
    <3>1. PICK k : Opened(s, k, u)
      BY <1>2 DEF Traversed, Shape
    <3>2. k \in 1 .. Len(s) /\ s[k] = u /\ s \in Seq(0 .. g.maxvar)
      BY <1>2, <3>1 DEF Opened, Traversed, Shape
    <3> QED
      BY <3>2, ElementOfSequence
  <2> QED
    BY <1>6, <2>1, <2>2
<1> QED
  BY <1>5, <1>8, <1>9, <1>10 DEF ReencodeInv

-----------------------------------------------------------------------------
(* The gates after reencoding.                                             *)

\* The gates are in an order in which each comes after its operands. An operand
\* may be negated, so that it is at most one more than the gate.
OrderedGates(gs) ==
    /\ gs \in Seq([lhs : Nat, rhs0 : Nat, rhs1 : Nat])
    /\ \A i, j \in 1 .. Len(gs) : i < j => gs[i].lhs < gs[j].lhs
    /\ \A i \in 1 .. Len(gs) :
        gs[i].lhs % 2 = 0 /\ gs[i].rhs0 <= gs[i].lhs + 1 /\ gs[i].rhs1 <= gs[i].lhs + 1

\* The parts of RecodedAnds.
LargerFirst(l, r0, r1) ==
    [lhs |-> l, rhs0 |-> IF r0 < r1 THEN r1 ELSE r0, rhs1 |-> IF r0 < r1 THEN r0 ELSE r1]

RecodedGate(a) == LargerFirst(Code(a.lhs), Code(a.rhs0), Code(a.rhs1))

RecodedGates(g) == {RecodedGate(g.ands[i]) : i \in {j \in DOMAIN g.ands : code[Var(g.ands[j].lhs)] # 0}}

SortedByLhs(s) == \A i, j \in DOMAIN s : i < j => s[i].lhs < s[j].lhs

\* The recoded gates are sorted by their outputs.
LEMMA RecodedAndsIs ==
    ASSUME NEW g
    PROVE  RecodedAnds(g) =
                CHOOSE s \in [1 .. Cardinality(RecodedGates(g)) -> RecodedGates(g)] : SortedByLhs(s)
BY DEF RecodedAnds, RecodedGates, RecodedGate, LargerFirst, SortedByLhs

\* The gate v after reencoding.
LEMMA RecodedGateIs ==
    ASSUME NEW g, Sound(g), CodeInv(g, code, new), NEW v \in 1 .. g.maxvar, IsAnd(g, v), code[v] # 0,
           NEW b, b = RecodedGate(And(g, v))
    PROVE  /\ b \in [lhs : Nat, rhs0 : Nat, rhs1 : Nat]
           /\ b.lhs = code[v] /\ code[v] % 2 = 0
           /\ b.rhs0 <= b.lhs /\ b.rhs1 <= b.lhs
<1>1. g.maxvar \in Nat /\ v \in 0 .. g.maxvar
  BY GraphParts DEF Sound
<1>2. code \in [0 .. g.maxvar -> Nat] /\ code[v] % 2 = 0
  BY <1>1 DEF CodeInv
<1>3. PICK a : a = And(g, v)
  OBVIOUS
<1>4. /\ a \in [lhs : Nat, rhs0 : Nat, rhs1 : Nat] /\ a.lhs = 2 * v
      /\ IsDefined(g, a.rhs0) /\ IsDefined(g, a.rhs1)
  BY <1>3, GateOf
<1>5. Code(a.lhs) = code[v]
  <2>1. ~IsConstant(a.lhs)
    BY <1>4 DEF IsConstant
  <2>2. Var(a.lhs) = v /\ Sign(a.lhs) = 0
    BY <1>4, VarOfPositive
  <2>3. code[v] \in Nat
    BY <1>1, <1>2
  <2>4. Code(a.lhs) = code[v] + 0
    BY <2>1, <2>2 DEF Code
  <2> QED
    BY <2>3, <2>4
<1>6. ASSUME NEW r \in Nat, IsDefined(g, r), IsChild(g, Var(r), v)
      PROVE  Code(r) \in Nat /\ Code(r) <= code[v]
  <2>1. code[v] \in Nat /\ code[v] >= 2
    BY <1>1, <1>2
  <2>2. CASE IsConstant(r)
    BY <1>6, <2>1, <2>2 DEF Code, IsConstant
  <2>3. CASE ~IsConstant(r)
    <3>1. Var(r) \in 0 .. g.maxvar
      BY <1>6, DefinedInRange
    <3>2. Var(r) # 0
      BY <1>6, <2>3 DEF Var, IsConstant
    <3>3. Var(r) \in 1 .. g.maxvar
      BY <3>1, <3>2
    <3>4. code[Var(r)] < code[v]
      BY <1>6, <3>3 DEF CodeInv, OperandsCoded
    <3>5. code[Var(r)] \in Nat /\ Sign(r) \in {0, 1}
      BY <1>2, <1>6, <3>1, LiteralParts
    <3>6. Code(r) = code[Var(r)] + Sign(r)
      BY <2>3 DEF Code
    <3> QED
      BY <2>1, <3>4, <3>5, <3>6
  <2> QED
    BY <2>2, <2>3
<1>7. IsChild(g, Var(a.rhs0), v) /\ IsChild(g, Var(a.rhs1), v)
  BY <1>3, ChildrenOf
<1>8. PICK x \in Nat, y \in Nat : x = Code(a.rhs0) /\ y = Code(a.rhs1) /\ x <= code[v] /\ y <= code[v]
  BY <1>4, <1>6, <1>7
<1>9. b = LargerFirst(code[v], x, y)
  BY <1>3, <1>5, <1>8 DEF RecodedGate
<1>10. code[v] \in Nat
  BY <1>1, <1>2
<1> QED
  BY <1>2, <1>8, <1>9, <1>10 DEF LargerFirst

\* The gates that were reached can be sorted by their codes.
LEMMA RecodedGatesSorted ==
    ASSUME NEW g, Sound(g), CodeInv(g, code, new)
    PROVE  /\ IsFiniteSet(RecodedGates(g)) /\ Cardinality(RecodedGates(g)) \in Nat
           /\ \E s \in [1 .. Cardinality(RecodedGates(g)) -> RecodedGates(g)] : SortedByLhs(s)
           /\ \A b \in RecodedGates(g) : \E v \in 1 .. g.maxvar :
                IsAnd(g, v) /\ code[v] # 0 /\ b = RecodedGate(And(g, v))
<1>n. PICK n \in Nat : \E o : IsCodeOrder(g, code, new, n, o)
  BY DEF CodeInv, CodedInOrder
<1>1. PICK o : IsCodeOrder(g, code, new, n, o)
  BY <1>n
<1>2. PICK F \in Nat : F = FirstCode(g) /\ F > 0
  <2>1. PICK I \in Nat, L \in Nat : I = Len(g.inputs) /\ L = Len(g.latches)
    BY GraphParts DEF Sound
  <2>2. FirstCode(g) = 2 * (I + L + 1)
    BY <2>1 DEF FirstCode
  <2> QED
    BY ONLY <2>2
<1>3. /\ o \in [1 .. n -> 1 .. g.maxvar]
      /\ \A k \in 1 .. n : IsAnd(g, o[k]) /\ code[o[k]] = F + 2 * (k - 1)
      /\ \A v \in 1 .. g.maxvar : IsAnd(g, v) /\ code[v] # 0 => \E k \in 1 .. n : o[k] = v
  BY <1>1, <1>2 DEF IsCodeOrder
<1> DEFINE G == [k \in 1 .. n |-> RecodedGate(And(g, o[k]))]
           S == RecodedGates(g)
<1>4. ASSUME NEW k \in 1 .. n
      PROVE  o[k] \in 1 .. g.maxvar /\ IsAnd(g, o[k]) /\ code[o[k]] # 0 /\ G[k].lhs = F + 2 * (k - 1)
  <2>1. o[k] \in 1 .. g.maxvar /\ IsAnd(g, o[k]) /\ code[o[k]] = F + 2 * (k - 1)
    BY <1>3
  <2>2. code[o[k]] # 0
    BY <1>2, <2>1
  <2>3. G[k] = RecodedGate(And(g, o[k]))
    OBVIOUS
  <2>4. G[k].lhs = code[o[k]]
    BY <2>1, <2>2, <2>3, RecodedGateIs
  <2> QED
    BY <2>1, <2>2, <2>4
<1>5. \A b \in S : \E v \in 1 .. g.maxvar : IsAnd(g, v) /\ code[v] # 0 /\ b = RecodedGate(And(g, v))
  <2> SUFFICES ASSUME NEW b \in S
               PROVE  \E v \in 1 .. g.maxvar : IsAnd(g, v) /\ code[v] # 0 /\ b = RecodedGate(And(g, v))
    OBVIOUS
  <2>1. PICK i \in DOMAIN g.ands : code[Var(g.ands[i].lhs)] # 0 /\ b = RecodedGate(g.ands[i])
    BY DEF RecodedGates
  <2>2. PICK v \in 1 .. g.maxvar : g.ands[i].lhs = 2 * v
    BY GraphParts DEF Sound, DefinedOnce, IsDefinition
  <2>3. Var(g.ands[i].lhs) = v /\ v \in Nat
    BY <2>2, VarOfPositive
  <2>4. IsAnd(g, v)
    BY <2>2 DEF IsAnd
  <2>5. g.ands[i] = And(g, v)
    BY <2>2, <2>3, <2>4, GateOf
  <2> QED
    BY <2>1, <2>3, <2>4, <2>5
<1>6. \A b \in S : \E k \in 1 .. n : G[k] = b
  BY <1>3, <1>5
<1>7. ASSUME NEW k \in 1 .. n PROVE G[k] \in S
  <2>1. PICK i \in DOMAIN g.ands : g.ands[i].lhs = 2 * o[k]
    BY <1>4 DEF IsAnd
  <2>2. o[k] \in Nat
    BY <1>4
  <2>3. g.ands[i] = And(g, o[k]) /\ Var(g.ands[i].lhs) = o[k]
    BY <1>4, <2>1, <2>2, GateOf, VarOfPositive
  <2>4. G[k] = RecodedGate(g.ands[i]) /\ code[Var(g.ands[i].lhs)] # 0
    BY <1>4, <2>3
  <2> QED
    BY <2>4 DEF RecodedGates
<1>8. G \in [1 .. n -> S] /\ DOMAIN G = 1 .. n
  BY <1>7
<1> HIDE DEF G, S
<1>9. \A i, j \in 1 .. n : G[i] = G[j] => i = j
  <2> SUFFICES ASSUME NEW i \in 1 .. n, NEW j \in 1 .. n, G[i] = G[j] PROVE i = j
    OBVIOUS
  <2>1. F + 2 * (i - 1) = F + 2 * (j - 1)
    BY <1>4
  <2> QED
    BY <2>1
<1>10. G \in Bijection(1 .. n, S)
  <2>1. G \in Injection(1 .. n, S)
    BY <1>8, <1>9 DEF Injection, IsInjective
  <2>2. G \in Surjection(1 .. n, S)
    BY <1>6, <1>8 DEF Surjection
  <2> QED
    BY <2>1, <2>2 DEF Bijection
<1>11. IsFiniteSet(1 .. n) /\ Cardinality(1 .. n) = n
  BY FS_Interval
<1>12. IsFiniteSet(S) /\ Cardinality(S) = n
  BY <1>10, <1>11, FS_Bijection DEF ExistsBijection
<1>13. SortedByLhs(G)
  <2> SUFFICES ASSUME NEW i \in 1 .. n, NEW j \in 1 .. n, i < j PROVE G[i].lhs < G[j].lhs
    BY <1>8 DEF SortedByLhs
  <2> QED
    BY <1>4
<1> QED
  BY <1>5, <1>8, <1>12, <1>13 DEF S

\* Recoded gates are in the order clausify_subgraph relies on.
LEMMA RecodedAndsOrdered ==
    ASSUME NEW g, Sound(g), CodeInv(g, code, new)
    PROVE  OrderedGates(RecodedAnds(g))
<1>1. PICK n, S : n = Cardinality(RecodedGates(g)) /\ S = RecodedGates(g)
  OBVIOUS
<1>2. /\ n \in Nat
      /\ \E s \in [1 .. n -> S] : SortedByLhs(s)
      /\ \A b \in S : \E v \in 1 .. g.maxvar : IsAnd(g, v) /\ code[v] # 0 /\ b = RecodedGate(And(g, v))
  BY <1>1, RecodedGatesSorted
<1>3. PICK gs : gs = RecodedAnds(g)
  OBVIOUS
<1>4. gs = CHOOSE s \in [1 .. n -> S] : SortedByLhs(s)
  BY <1>1, <1>3, RecodedAndsIs
<1>5. gs \in [1 .. n -> S] /\ SortedByLhs(gs)
  BY ONLY <1>2, <1>4, Zenon
<1>6. ASSUME NEW b \in S
      PROVE  /\ b \in [lhs : Nat, rhs0 : Nat, rhs1 : Nat]
             /\ b.lhs % 2 = 0 /\ b.rhs0 <= b.lhs /\ b.rhs1 <= b.lhs
  <2>1. PICK v \in 1 .. g.maxvar : IsAnd(g, v) /\ code[v] # 0 /\ b = RecodedGate(And(g, v))
    BY <1>2
  <2>2. /\ b \in [lhs : Nat, rhs0 : Nat, rhs1 : Nat]
        /\ b.lhs = code[v] /\ code[v] % 2 = 0
        /\ b.rhs0 <= b.lhs /\ b.rhs1 <= b.lhs
    BY <2>1, RecodedGateIs
  <2> QED
    BY <2>2
<1>7. gs \in [1 .. n -> [lhs : Nat, rhs0 : Nat, rhs1 : Nat]]
  BY <1>5, <1>6
<1>8. gs \in Seq([lhs : Nat, rhs0 : Nat, rhs1 : Nat]) /\ Len(gs) = n
  <2>1. PICK T : T = [lhs : Nat, rhs0 : Nat, rhs1 : Nat]
    OBVIOUS
  <2>2. n \in Nat /\ gs \in [1 .. n -> T]
    BY <1>2, <1>7, <2>1
  <2>3. gs \in Seq(T) /\ Len(gs) = n
    BY ONLY <2>2, FunctionIsSequence
  <2> QED
    BY <2>1, <2>3
<1>9. \A i, j \in 1 .. Len(gs) : i < j => gs[i].lhs < gs[j].lhs
  BY <1>5, <1>8 DEF SortedByLhs
<1>10. ASSUME NEW i \in 1 .. Len(gs)
       PROVE  gs[i].lhs % 2 = 0 /\ gs[i].rhs0 <= gs[i].lhs + 1 /\ gs[i].rhs1 <= gs[i].lhs + 1
  <2>1. gs[i] \in S
    BY <1>5, <1>8
  <2>2. /\ gs[i] \in [lhs : Nat, rhs0 : Nat, rhs1 : Nat]
        /\ gs[i].lhs % 2 = 0 /\ gs[i].rhs0 <= gs[i].lhs /\ gs[i].rhs1 <= gs[i].lhs
    BY <1>6, <2>1
  <2>3. PICK l \in Nat, r \in Nat, q \in Nat : l = gs[i].lhs /\ r = gs[i].rhs0 /\ q = gs[i].rhs1
    BY <2>2
  <2>4. l % 2 = 0 /\ r <= l /\ q <= l
    BY <2>2, <2>3
  <2>5. r <= l + 1 /\ q <= l + 1
    BY ONLY <2>4, l \in Nat, r \in Nat, q \in Nat
  <2> QED
    BY <2>3, <2>4, <2>5
<1> QED
  BY <1>3, <1>8, <1>9, <1>10 DEF OrderedGates

\* The largest input or latch of a graph with the numbering of aiger_reencode.
LEMMA MaxInputOrLatchType ==
    ASSUME NEW g \in Graphs, IsReencoded(g)
    PROVE  MaxInputOrLatch(g) \in Nat
<1>1. PICK I \in Nat, L \in Nat :
        /\ I = Len(g.inputs) /\ DOMAIN g.inputs = 1 .. I
        /\ L = Len(g.latches) /\ DOMAIN g.latches = 1 .. L
  BY GraphParts
<1>2. /\ \A i \in 1 .. I : g.inputs[i] = 2 * i
      /\ \A i \in 1 .. L : g.latches[i].lit = 2 * (I + i)
  BY <1>1 DEF IsReencoded
<1> DEFINE S == {0} \cup ToSet(g.inputs) \cup {g.latches[i].lit : i \in DOMAIN g.latches}
           P(m) == /\ \A i \in DOMAIN g.inputs : g.inputs[i] <= m
                   /\ \A i \in DOMAIN g.latches : g.latches[i].lit <= m
<1>3. S \subseteq Nat
  <2>1. ToSet(g.inputs) \subseteq Nat
    BY <1>1, <1>2 DEF ToSet
  <2>2. {g.latches[i].lit : i \in DOMAIN g.latches} \subseteq Nat
    BY <1>1, <1>2
  <2> QED
    BY <2>1, <2>2
<1>4. 2 * (I + L) \in S
  <2>1. CASE L > 0
    <3>1. L \in 1 .. L
      BY <2>1
    <3>2. L \in DOMAIN g.latches /\ g.latches[L].lit = 2 * (I + L)
      BY <3>1, <1>1, <1>2, <2>1
    <3> QED
      BY <3>2
  <2>2. CASE L = 0 /\ I > 0
    <3>0. I \in 1 .. I /\ 2 * (I + L) = 2 * I
      BY <2>2
    <3>1. I \in DOMAIN g.inputs /\ g.inputs[I] = 2 * (I + L)
      BY <1>1, <1>2, <3>0
    <3>2. 2 * (I + L) \in ToSet(g.inputs)
      BY <3>1 DEF ToSet
    <3> QED
      BY <3>2
  <2>3. CASE L = 0 /\ I = 0
    BY <2>3
  <2> QED
    BY <2>1, <2>2, <2>3
<1>5. P(2 * (I + L))
  <2>1. ASSUME NEW i \in DOMAIN g.inputs PROVE g.inputs[i] <= 2 * (I + L)
    <3>1. i \in 1 .. I /\ g.inputs[i] = 2 * i
      BY <1>1, <1>2
    <3>2. 2 * i <= 2 * (I + L)
      BY <3>1
    <3> QED
      BY <3>1, <3>2
  <2>2. ASSUME NEW i \in DOMAIN g.latches PROVE g.latches[i].lit <= 2 * (I + L)
    <3>1. i \in 1 .. L /\ g.latches[i].lit = 2 * (I + i)
      BY <1>1, <1>2
    <3>2. 2 * (I + i) <= 2 * (I + L)
      BY <3>1
    <3> QED
      BY <3>1, <3>2
  <2> QED
    BY <2>1, <2>2
<1>6. MaxInputOrLatch(g) = CHOOSE m \in S : P(m)
  BY DEF MaxInputOrLatch
<1> HIDE DEF S, P
<1>7. MaxInputOrLatch(g) \in S
  BY ONLY <1>4, <1>5, <1>6, Zenon
<1> QED
  BY <1>3, <1>7

\* So are those of a file that needs no reencoding.
LEMMA ReencodedIsOrdered ==
    ASSUME NEW g, Sound(g), IsReencoded(g)
    PROVE  OrderedGates(g.ands)
<1>m. PICK M \in Nat : M = MaxInputOrLatch(g)
  BY MaxInputOrLatchType DEF Sound
<1>1. PICK gs : M = MaxInputOrLatch(g) /\ gs = g.ands
  BY <1>m
<1>2. gs \in Seq([lhs : Nat, rhs0 : Nat, rhs1 : Nat]) /\ DOMAIN gs = 1 .. Len(gs) /\ Len(gs) \in Nat
  BY <1>1, GraphParts DEF Sound
<1>3. \A i \in 1 .. Len(gs) : gs[i].lhs = M + 2 * i /\ gs[i].lhs >= gs[i].rhs0 /\ gs[i].rhs0 >= gs[i].rhs1
  BY <1>1, <1>2 DEF IsReencoded
<1>4. ASSUME NEW i \in 1 .. Len(gs), NEW j \in 1 .. Len(gs), i < j PROVE gs[i].lhs < gs[j].lhs
  <2>1. gs[i].lhs = M + 2 * i /\ gs[j].lhs = M + 2 * j
    BY <1>3
  <2>2. i \in Nat /\ j \in Nat
    BY <1>2
  <2>3. M + 2 * i < M + 2 * j
    BY ONLY <1>4, <2>2, M \in Nat
  <2> QED
    BY <2>1, <2>3
<1>5. ASSUME NEW i \in 1 .. Len(gs)
      PROVE  gs[i].lhs % 2 = 0 /\ gs[i].rhs0 <= gs[i].lhs + 1 /\ gs[i].rhs1 <= gs[i].lhs + 1
  <2>1. gs[i] \in [lhs : Nat, rhs0 : Nat, rhs1 : Nat]
    BY <1>2, ElementOfSequence
  <2>2. PICK l \in Nat, r \in Nat, q \in Nat : l = gs[i].lhs /\ r = gs[i].rhs0 /\ q = gs[i].rhs1
    BY <2>1
  <2>3. PICK v \in 1 .. g.maxvar : l = 2 * v
    BY <1>1, <2>2 DEF Sound, DefinedOnce, IsDefinition
  <2>4. l % 2 = 0
    BY <2>3, GraphParts DEF Sound
  <2>5. l >= r /\ r >= q
    BY <1>3, <2>2
  <2>6. r <= l + 1 /\ q <= l + 1
    BY ONLY <2>5, l \in Nat, r \in Nat, q \in Nat
  <2> QED
    BY <2>2, <2>4, <2>6
<1> QED
  BY <1>1, <1>2, <1>4, <1>5 DEF OrderedGates

-----------------------------------------------------------------------------
(* The invariant of the program, up to the formulas.                       *)

\* The graph is that of the file, of which line lines have been read.
ReadInv ==
    pc \in {"help", "parse", "open", "read"} =>
        /\ aig = file /\ stack = <<>> /\ marked = {} /\ onstack = {} /\ root \in Nat
        /\ line \in 0 .. Len(Lines(file))
        /\ \A k \in 1 .. line : IsReadable(file, k)

CyclesInv ==
    pc = "cycles" =>
        /\ aig = file /\ Sound(aig) /\ root \in Nat
        /\ CycleInv(aig, stack, marked, onstack)

ContextInv ==
    pc = "context" =>
        /\ aig = file /\ Sound(aig)
        /\ stack = <<>> /\ onstack = {} /\ root \in Nat
        /\ LeftInOrder(aig, {v \in 1 .. aig.maxvar : IsAnd(aig, v)})

CodesInv ==
    pc = "reencode" =>
        /\ aig = file /\ Sound(aig) /\ Ranks(aig) # {}
        /\ root \in Nat
        /\ ReencodeInv(aig, stack, onstack, code, new)

OrderInv == pc \in {"init", "trans", "error"} => OrderedGates(aig.ands)

GateInv == pc \in {"trans", "error"} => gate \in 0 .. Len(aig.ands)

AigerInv ==
    /\ file \in Graphs /\ HasResets(file)
    /\ ReadInv
    /\ CyclesInv
    /\ ContextInv
    /\ CodesInv
    /\ OrderInv
    /\ GateInv
    /\ NothingIsMissed

\* Nothing has been read at first.
LEMMA InitAigerInv == Init => AigerInv
<1> SUFFICES ASSUME Init PROVE AigerInv
  OBVIOUS
<1>1. file \in Graphs /\ HasResets(file)
  BY InvocationsAssumption DEF Init
<1>2. /\ pc = "help" /\ aig = file /\ stack = <<>> /\ marked = {} /\ onstack = {}
      /\ line = 0 /\ root = 0
  BY DEF Init, LibraryInit
<1>3. ReadInv
  <2>1. Len(Lines(file)) \in Nat
    BY <1>1, LinesAre
  <2>2. line \in 0 .. Len(Lines(file)) /\ \A k \in 1 .. line : IsReadable(file, k)
    BY <1>2, <2>1
  <2> QED
    BY <1>2, <2>2 DEF ReadInv
<1> QED
  BY <1>1, <1>2, <1>3 DEF AigerInv, CyclesInv, ContextInv, CodesInv, OrderInv, GateInv, NothingIsMissed

\* The steps before the file is read change nothing of the graph.
LEMMA EarlySteps ==
    ASSUME AigerInv, pc \in {"help", "parse", "open"}, pc' \in {"parse", "open", "read", "exit"},
           UNCHANGED translation
    PROVE  AigerInv'
<1>1. UNCHANGED <<file, aig, line, stack, marked, onstack, root>>
  BY DEF translation, library, traversal
<1>2. (file \in Graphs /\ HasResets(file))'
  BY <1>1 DEF AigerInv
<1>3. ReadInv'
  BY <1>1 DEF AigerInv, ReadInv
<1> QED
  BY <1>2, <1>3 DEF AigerInv, CyclesInv, ContextInv, CodesInv, OrderInv, GateInv, NothingIsMissed

\* So do the steps that end the program, and those of the engine.
LEMMA LateSteps ==
    ASSUME AigerInv, pc' \in {"built", "witness", "exit"}, UNCHANGED file
    PROVE  AigerInv'
BY DEF AigerInv, ReadInv, CyclesInv, ContextInv, CodesInv, OrderInv, GateInv, NothingIsMissed

\* A line is read.
LEMMA ReadLineKeeps ==
    ASSUME AigerInv, ReadLine
    PROVE  AigerInv'
<1>1. /\ pc = "read" /\ pc' = "read" /\ UNCHANGED <<file, aig, stack, marked, onstack, root>>
      /\ line < Len(Lines(file)) /\ IsReadable(file, line + 1) /\ line' = line + 1
  BY DEF ReadLine, traversal
<1>2. /\ aig = file /\ stack = <<>> /\ marked = {} /\ onstack = {}
      /\ line \in 0 .. Len(Lines(file)) /\ \A k \in 1 .. line : IsReadable(file, k)
      /\ root \in Nat /\ file \in Graphs /\ HasResets(file)
  BY <1>1 DEF AigerInv, ReadInv
<1>3. PICK N \in Nat : N = Len(Lines(file))
  BY <1>2, LinesAre
<1>4. line' \in 0 .. N /\ \A k \in 1 .. line' : k \in 1 .. line \/ k = line + 1
  BY ONLY <1>1, <1>2, <1>3
<1>5. \A k \in 1 .. line' : IsReadable(file, k)
  BY <1>1, <1>2, <1>4
<1>6. line' \in 0 .. Len(Lines(file'))
  BY <1>1, <1>3, <1>4
<1>7. ReadInv'
  BY <1>1, <1>2, <1>5, <1>6 DEF ReadInv
<1> QED
  BY <1>1, <1>2, <1>7 DEF AigerInv, CyclesInv, ContextInv, CodesInv, OrderInv, GateInv, NothingIsMissed

\* Whatever is used is defined.
LEMMA CheckDefinedKeeps ==
    ASSUME AigerInv, CheckDefined
    PROVE  AigerInv'
<1>1. /\ pc = "read" /\ pc' = "cycles" /\ UNCHANGED <<file, aig, stack, marked, onstack, root>>
      /\ line = Len(Lines(file)) /\ AllDefined(aig)
  BY DEF CheckDefined, library, traversal
<1>2. /\ aig = file /\ stack = <<>> /\ marked = {} /\ onstack = {}
      /\ \A k \in 1 .. line : IsReadable(file, k)
      /\ root \in Nat /\ file \in Graphs /\ HasResets(file)
  BY <1>1 DEF AigerInv, ReadInv
<1>3. DefinedOnce(file)
  BY <1>1, <1>2, ReadDefinesOnce
<1>4. Sound(aig) /\ CycleInv(aig, stack, marked, onstack)
  BY <1>1, <1>2, <1>3, CycleStarts DEF Sound
<1>5. CyclesInv'
  BY <1>1, <1>2, <1>4 DEF CyclesInv
<1> QED
  BY <1>1, <1>2, <1>5 DEF AigerInv, ReadInv, ContextInv, CodesInv, OrderInv, GateInv, NothingIsMissed

\* A step of the traversal.
LEMMA CycleStep ==
    ASSUME AigerInv, pc = "cycles", pc' = "cycles", UNCHANGED <<file, aig, root>>,
           CycleInv(aig, stack', marked', onstack')
    PROVE  AigerInv'
<1>1. file \in Graphs /\ HasResets(file) /\ aig = file /\ Sound(aig) /\ root \in Nat
  BY DEF AigerInv, CyclesInv
<1>2. CyclesInv'
  BY <1>1 DEF CyclesInv
<1> QED
  BY <1>1, <1>2 DEF AigerInv, ReadInv, ContextInv, CodesInv, OrderInv, GateInv, NothingIsMissed

\* The steps of aiger_check_for_cycles.
LEMMA CyclesKeep ==
    ASSUME AigerInv, CycleRoot \/ EnterGate \/ LeaveGate
    PROVE  AigerInv'
<1>1. pc = "cycles" /\ pc' = "cycles" /\ UNCHANGED <<file, aig, root>>
  BY DEF CycleRoot, EnterGate, LeaveGate
<1>2. Sound(aig) /\ CycleInv(aig, stack, marked, onstack)
  BY <1>1 DEF AigerInv, CyclesInv
<1>3. CASE CycleRoot
  <2>1. PICK v \in 1 .. aig.maxvar : stack' = <<v>>
    BY <1>3 DEF CycleRoot
  <2>2. stack = <<>> /\ UNCHANGED <<marked, onstack>>
    BY <1>3 DEF CycleRoot
  <2>3. CycleInv(aig, stack', marked', onstack')
    BY <1>2, <2>1, <2>2, CycleRootKeeps
  <2> QED
    BY <1>1, <2>3, CycleStep
<1>4. CASE EnterGate
  <2>1. PICK v : v = Last(stack)
    OBVIOUS
  <2>2. stack # <<>> /\ v # 0 /\ ~(v \in marked /\ v \in onstack)
    BY <1>4, <2>1 DEF EnterGate
  <2>3. CASE ~IsAnd(aig, v) \/ v \in marked
    <3>1. stack' = Front(stack) /\ UNCHANGED <<marked, onstack>>
      BY <1>4, <2>1, <2>3 DEF EnterGate
    <3>2. CycleInv(aig, stack', marked', onstack')
      BY <1>2, <2>1, <2>2, <2>3, <3>1, PopGateKeeps
    <3> QED
      BY <1>1, <3>2, CycleStep
  <2>4. CASE ~(~IsAnd(aig, v) \/ v \in marked)
    <3>1. /\ marked' = marked \cup {v} /\ onstack' = onstack \cup {v}
          /\ stack' = stack \o <<0>> \o Pushed(Var(And(aig, v).rhs0)) \o Pushed(Var(And(aig, v).rhs1))
      BY <1>4, <2>1, <2>4 DEF EnterGate
    <3>2. CycleInv(aig, stack', marked \cup {v}, onstack \cup {v})
      BY <1>2, <2>1, <2>2, <2>4, <3>1, EnterGateKeeps
    <3> QED
      BY <1>1, <3>1, <3>2, CycleStep
  <2> QED
    BY <2>3, <2>4
<1>5. CASE LeaveGate
  <2>1. PICK v : v = Last(Front(stack))
    OBVIOUS
  <2>2. /\ stack # <<>> /\ Last(stack) = 0 /\ stack' = Front(Front(stack))
        /\ onstack' = onstack \ {v} /\ UNCHANGED marked
    BY <1>5, <2>1 DEF LeaveGate
  <2>3. CycleInv(aig, stack', marked', onstack')
    BY <1>2, <2>1, <2>2, LeaveGateKeeps
  <2> QED
    BY <1>1, <2>3, CycleStep
<1> QED
  BY <1>3, <1>4, <1>5

\* There is no cycle.
LEMMA GetEngineKeeps ==
    ASSUME AigerInv, Acyclic, pc' = "context", UNCHANGED translation
    PROVE  AigerInv'
<1>1. UNCHANGED <<file, aig, stack, onstack, root>>
  BY DEF translation, library, traversal
<1>2. pc = "cycles" /\ stack = <<>> /\ \A v \in 1 .. aig.maxvar : IsAnd(aig, v) => v \in marked
  BY DEF Acyclic
<1>3. /\ file \in Graphs /\ HasResets(file) /\ aig = file /\ Sound(aig)
      /\ root \in Nat /\ CycleInv(aig, <<>>, marked, onstack)
  BY <1>2 DEF AigerInv, CyclesInv
<1>4. LeftInOrder(aig, {v \in 1 .. aig.maxvar : IsAnd(aig, v)})
  BY <1>2, <1>3, AcyclicRanks
<1>5. onstack = {}
  BY <1>3, NothingEntered DEF CycleInv
<1>6. ContextInv'
  BY <1>1, <1>2, <1>3, <1>4, <1>5 DEF ContextInv
<1> QED
  BY <1>1, <1>3, <1>6 DEF AigerInv, ReadInv, CyclesInv, CodesInv, OrderInv, GateInv, NothingIsMissed

\* A step of aiger_reencode.
LEMMA ReencodeStep ==
    ASSUME AigerInv, aig = file, Sound(aig), Ranks(aig) # {}, pc' = "reencode", UNCHANGED <<file, aig>>,
           root' \in Nat, ReencodeInv(aig, stack', onstack', code', new')
    PROVE  AigerInv'
<1>1. file \in Graphs /\ HasResets(file)
  BY DEF AigerInv
<1>2. CodesInv'
  BY <1>1 DEF CodesInv
<1> QED
  BY <1>1, <1>2 DEF AigerInv, ReadInv, CyclesInv, ContextInv, OrderInv, GateInv, NothingIsMissed

\* The steps into build_init.
LEMMA InitStep ==
    ASSUME AigerInv, pc' = "init", UNCHANGED file, OrderedGates(aig'.ands)
    PROVE  AigerInv'
<1>1. file \in Graphs /\ HasResets(file)
  BY DEF AigerInv
<1>2. OrderInv'
  BY DEF OrderInv
<1> QED
  BY <1>1, <1>2 DEF AigerInv, ReadInv, CyclesInv, ContextInv, CodesInv, GateInv, NothingIsMissed

\* The graph is supported, and is reencoded if it has to be.
LEMMA MakeContextKeeps ==
    ASSUME AigerInv, MakeContext
    PROVE  AigerInv'
<1>1. pc = "context" /\ UNCHANGED file
  BY DEF MakeContext, library, StartReencode
<1>2. /\ aig = file /\ Sound(aig) /\ stack = <<>> /\ onstack = {} /\ root \in Nat /\ aig.maxvar \in Nat
      /\ LeftInOrder(aig, {v \in 1 .. aig.maxvar : IsAnd(aig, v)})
  BY <1>1, GraphParts DEF AigerInv, ContextInv, Sound
<1>3. CASE IsReencoded(aig)
  <2>1. pc' = "init" /\ UNCHANGED aig
    BY <1>3 DEF MakeContext, library
  <2>2. OrderedGates(aig.ands)
    BY <1>2, <1>3, ReencodedIsOrdered
  <2> QED
    BY <1>1, <2>1, <2>2, InitStep
<1>4. CASE ~IsReencoded(aig)
  <2>1. pc' = "reencode" /\ StartReencode
    BY <1>4 DEF MakeContext
  <2>2. /\ code' = FirstCodes(aig) /\ new' = FirstCode(aig)
        /\ UNCHANGED <<aig, stack, onstack, root>>
    BY <2>1 DEF StartReencode, FirstCodes, FirstCode
  <2>3. Ranks(aig) # {}
    BY <1>2, OrderIsRank
  <2>4. ReencodeInv(aig, stack', onstack', code', new')
    BY <1>2, <2>2, ReencodeStarts
  <2> QED
    BY <1>1, <1>2, <2>1, <2>2, <2>3, <2>4, ReencodeStep
<1> QED
  BY <1>3, <1>4

\* The steps of aiger_reencode_lit.
LEMMA ReencodeKeeps ==
    ASSUME AigerInv, ReencodeRoot \/ ExpandGate \/ CodeGate
    PROVE  AigerInv'
<1>1. pc = "reencode" /\ pc' = "reencode" /\ UNCHANGED <<file, aig>>
  BY DEF ReencodeRoot, ExpandGate, CodeGate
<1>2. /\ aig = file /\ Sound(aig) /\ Ranks(aig) # {} /\ root \in Nat
      /\ ReencodeInv(aig, stack, onstack, code, new) /\ HasResets(aig)
  BY <1>1 DEF AigerInv, CodesInv
<1>3. CASE ReencodeRoot
  <2>1. PICK l : l = Roots(aig)[root + 1]
    OBVIOUS
  <2>2. /\ stack = <<>> /\ root < Len(Roots(aig)) /\ UNCHANGED <<onstack, code, new>>
        /\ stack' = IF IsConstant(l) \/ code[Var(l)] # 0 THEN <<>> ELSE <<Var(l)>>
        /\ root' = root + 1
    BY <1>3, <2>1 DEF ReencodeRoot
  <2>3. l \in Nat /\ IsDefined(aig, l)
    <3>1. Roots(aig) \in Seq(Nat) /\ \A k \in 1 .. Len(Roots(aig)) : IsDefined(aig, Roots(aig)[k])
      BY <1>2, RootsDefined
    <3>2. PICK R : R = Roots(aig)
      OBVIOUS
    <3>3. root + 1 \in 1 .. Len(R)
      BY <1>2, <2>2, <3>1, <3>2
    <3> QED
      BY <2>1, <3>1, <3>2, <3>3, ElementOfSequence
  <2>4. ReencodeInv(aig, stack', onstack', code', new')
    <3>1. CASE IsConstant(l) \/ code[Var(l)] # 0
      BY <1>2, <2>2, <3>1
    <3>2. CASE ~(IsConstant(l) \/ code[Var(l)] # 0)
      <4>1. stack' = <<Var(l)>> /\ ReencodeInv(aig, <<>>, onstack, code, new)
        BY <1>2, <2>2, <3>2
      <4>2. ReencodeInv(aig, <<Var(l)>>, onstack, code, new)
        BY <1>2, <2>3, <3>2, <4>1, ReencodeRootKeeps
      <4> QED
        BY <2>2, <4>1, <4>2
    <3> QED
      BY <3>1, <3>2
  <2>5. root' \in Nat
    BY <1>2, <2>2
  <2> QED
    BY <1>1, <1>2, <2>4, <2>5, ReencodeStep
<1>4. CASE ExpandGate
  <2>1. PICK v : v = Last(stack)
    OBVIOUS
  <2>2. stack # <<>> /\ v # 0 /\ UNCHANGED <<code, new, root>>
    BY <1>4, <2>1 DEF ExpandGate
  <2>3. v \notin onstack
    BY <1>2, <2>1, <2>2, ReencodeTop
  <2>4. CASE code[v] # 0
    <3>1. stack' = Front(stack) /\ UNCHANGED onstack
      BY <1>4, <2>1, <2>4 DEF ExpandGate
    <3>2. ReencodeInv(aig, stack', onstack', code', new')
      BY <1>2, <2>1, <2>2, <2>4, <3>1, PopCodedKeeps
    <3> QED
      BY <1>1, <1>2, <2>2, <3>2, ReencodeStep
  <2>5. CASE code[v] = 0
    <3>1. PICK r0, r1 : r0 = Var(And(aig, v).rhs0) /\ r1 = Var(And(aig, v).rhs1)
      OBVIOUS
    <3>2. PICK c0, c1 : /\ c0 = IF r0 >= r1 THEN r0 ELSE r1
                        /\ c1 = IF r0 >= r1 THEN r1 ELSE r0
      OBVIOUS
    <3>3. /\ onstack' = onstack \cup {v}
          /\ stack' = stack \o <<0>> \o PushedChild(c0) \o PushedChild(c1)
      BY <1>4, <2>1, <2>3, <2>5, <3>1, <3>2 DEF ExpandGate
    <3>4. /\ PushedChild(c0) = PushedUnless(aig, onstack, c0)
          /\ PushedChild(c1) = PushedUnless(aig, onstack, c1)
      BY DEF PushedChild, PushedUnless
    <3>5. {c0, c1} = {Var(And(aig, v).rhs0), Var(And(aig, v).rhs1)}
      BY ONLY <3>1, <3>2
    <3>6. stack' = stack \o <<0>> \o PushedUnless(aig, onstack, c0) \o PushedUnless(aig, onstack, c1)
      BY ONLY <3>3, <3>4
    <3>7. ReencodeInv(aig, stack', onstack \cup {v}, code, new)
      BY <1>2, <2>1, <2>2, <2>5, <3>5, <3>6, ExpandGateKeeps
    <3>8. ReencodeInv(aig, stack', onstack', code', new')
      BY <2>2, <3>3, <3>7
    <3> QED
      BY <1>1, <1>2, <2>2, <3>8, ReencodeStep
  <2> QED
    BY <2>4, <2>5
<1>5. CASE CodeGate
  <2>1. PICK v : v = Last(Front(stack))
    OBVIOUS
  <2>2. /\ stack # <<>> /\ Last(stack) = 0 /\ stack' = Front(Front(stack))
        /\ code' = [code EXCEPT ![v] = new] /\ onstack' = onstack \ {v}
        /\ new' = new + 2 /\ UNCHANGED root
    BY <1>5, <2>1 DEF CodeGate
  <2>3. ReencodeInv(aig, stack', onstack', code', new')
    BY <1>2, <2>1, <2>2, CodeGateKeeps
  <2> QED
    BY <1>1, <1>2, <2>2, <2>3, ReencodeStep
<1> QED
  BY <1>3, <1>4, <1>5

\* The end of aiger_reencode.
LEMMA ContextReencodedKeeps ==
    ASSUME AigerInv, ContextReencoded
    PROVE  AigerInv'
<1>1. pc = "reencode" /\ pc' = "init" /\ UNCHANGED file /\ aig' = Recoded(aig)
  BY DEF ContextReencoded, FinishReencode
<1>2. Sound(aig) /\ CodeInv(aig, code, new)
  BY <1>1 DEF AigerInv, CodesInv, ReencodeInv
<1>3. OrderedGates(RecodedAnds(aig))
  BY <1>2, RecodedAndsOrdered
<1>4. aig'.ands = RecodedAnds(aig)
  BY <1>1 DEF Recoded
<1> QED
  BY <1>1, <1>3, <1>4, InitStep

\* The pass of build_trans starts with the next values of the latches.
LEMMA BuildInitKeeps ==
    ASSUME AigerInv, BuildInit
    PROVE  AigerInv'
<1>1. pc = "init" /\ pc' = "trans" /\ gate' = Len(aig.ands) /\ UNCHANGED <<file, aig>>
  BY DEF BuildInit, library
<1>2. file \in Graphs /\ HasResets(file) /\ OrderedGates(aig.ands)
  BY <1>1 DEF AigerInv, OrderInv
<1>3. aig.ands \in Seq([lhs : Nat, rhs0 : Nat, rhs1 : Nat])
  BY <1>2 DEF OrderedGates
<1>4. Len(aig.ands) \in Nat /\ DOMAIN aig.ands = 1 .. Len(aig.ands)
  BY <1>3
<1>5. GateInv' /\ OrderInv'
  BY <1>1, <1>2, <1>4 DEF GateInv, OrderInv
<1>6. \A i \in DOMAIN aig'.ands : i <= gate'
  BY <1>1, <1>4
<1>7. NothingIsMissed'
  BY <1>6 DEF NothingIsMissed
<1> QED
  BY <1>1, <1>2, <1>5, <1>7 DEF AigerInv, ReadInv, CyclesInv, ContextInv, CodesInv

\* The gate at gate is visited: what it requires is only below it.
LEMMA ClausifyGateKeeps ==
    ASSUME AigerInv, ClausifyGate
    PROVE  AigerInv'
<1>1. /\ pc \in {"trans", "error"} /\ pc' = pc /\ gate > 0 /\ gate' = gate - 1
      /\ UNCHANGED <<file, aig>>
  BY DEF ClausifyGate, library
<1>2. /\ file \in Graphs /\ HasResets(file) /\ OrderedGates(aig.ands)
      /\ gate \in 0 .. Len(aig.ands)
  BY <1>1 DEF AigerInv, OrderInv, GateInv
<1>3. PICK gs : gs = aig.ands
  OBVIOUS
<1>4. gs \in Seq([lhs : Nat, rhs0 : Nat, rhs1 : Nat])
  BY <1>2, <1>3 DEF OrderedGates
<1>5. PICK N \in Nat : N = Len(gs) /\ DOMAIN gs = 1 .. N
  BY <1>4, LengthOf
<1>6. gate \in 1 .. N /\ gate - 1 \in 0 .. N
  BY <1>1, <1>2, <1>3, <1>5
<1>7. GateInv' /\ OrderInv'
  BY <1>1, <1>2, <1>3, <1>5, <1>6 DEF GateInv, OrderInv
<1>8. PICK a : a = gs[gate]
  OBVIOUS
<1>9. PICK formula, formula1 :
        /\ formula = IF pc = "trans" THEN trans ELSE error
        /\ formula1 = IF pc = "trans" THEN trans' ELSE error'
  OBVIOUS
<1>10. /\ required' = IF IsRequired(a) THEN required \cup {a.rhs0, a.rhs1} ELSE required
       /\ formula1 = formula \cup IF IsRequired(a) THEN ClausifyAnd(aig, a) ELSE {}
  BY <1>1, <1>3, <1>8, <1>9 DEF ClausifyGate
<1>11. ASSUME NEW i \in 1 .. N, IsRequired(gs[i])
       PROVE  i <= gate \/ ClausifyAnd(aig, gs[i]) \subseteq formula
  BY <1>1, <1>3, <1>5, <1>9, <1>11 DEF AigerInv, NothingIsMissed
<1>12. ASSUME NEW i \in 1 .. N, i > gate
       PROVE  \A l \in {a.rhs0, a.rhs1} : gs[i].lhs # l /\ Not(gs[i].lhs) # l
  <2>1. PICK x \in Nat, y \in Nat, p \in Nat, q \in Nat :
            x = gs[i].lhs /\ y = a.lhs /\ p = a.rhs0 /\ q = a.rhs1
    <3>1. gs[i] \in [lhs : Nat, rhs0 : Nat, rhs1 : Nat] /\ a \in [lhs : Nat, rhs0 : Nat, rhs1 : Nat]
      BY <1>4, <1>5, <1>6, <1>8, ElementOfSequence
    <3> QED
      BY <3>1
  <2>2. y < x /\ x % 2 = 0 /\ y % 2 = 0 /\ p <= y + 1 /\ q <= y + 1
    BY <1>2, <1>3, <1>5, <1>6, <1>8, <1>12, <2>1 DEF OrderedGates
  <2>3. Not(x) = x + 1
    BY <2>2 DEF Not, Sign
  <2>4. x >= y + 2
    BY ONLY <2>2, x \in Nat, y \in Nat
  <2>5. x # p /\ x # q /\ x + 1 # p /\ x + 1 # q
    BY ONLY <2>2, <2>4, x \in Nat, y \in Nat, p \in Nat, q \in Nat
  <2> QED
    BY ONLY <2>1, <2>3, <2>5
<1>13. ASSUME NEW i \in 1 .. N, (gs[i].lhs \in required' \/ Not(gs[i].lhs) \in required'), i > gate - 1
       PROVE  ClausifyAnd(aig, gs[i]) \subseteq formula1
  <2>1. CASE i = gate
    <3>1. gs[i] = a
      BY <1>8, <2>1
    <3>2. IsRequired(a)
      BY <1>10, <1>13, <3>1 DEF IsRequired
    <3> QED
      BY <1>10, <3>1, <3>2
  <2>2. CASE i > gate
    <3>1. \A l \in {a.rhs0, a.rhs1} : gs[i].lhs # l /\ Not(gs[i].lhs) # l
      BY <1>12, <2>2
    <3>2. required' \subseteq required \cup {a.rhs0, a.rhs1}
      BY <1>10
    <3>3. IsRequired(gs[i])
      BY <1>13, <3>1, <3>2 DEF IsRequired
    <3>4. ~(i <= gate)
      BY <1>6, <2>2
    <3> QED
      BY <1>10, <1>11, <3>3, <3>4
  <2>3. i = gate \/ i > gate
    BY ONLY <1>6, <1>13, i \in 1 .. N, N \in Nat
  <2> QED
    BY <2>1, <2>2, <2>3
<1>14. ASSUME NEW i \in DOMAIN aig'.ands, IsRequired(aig.ands[i])'
       PROVE  i <= gate' \/ ClausifyAnd(aig', aig'.ands[i]) \subseteq formula1
  <2>1. i \in 1 .. N /\ aig'.ands[i] = gs[i] /\ aig' = aig
    BY <1>1, <1>3, <1>5, <1>14
  <2>2. gs[i].lhs \in required' \/ Not(gs[i].lhs) \in required'
    BY <1>14, <2>1 DEF IsRequired
  <2>3. i <= gate' \/ i > gate - 1
    BY <1>1, <1>6, <2>1
  <2> QED
    BY <1>13, <2>1, <2>2, <2>3
<1>15. NothingIsMissed'
  <2>1. formula1 = IF pc' = "trans" THEN trans' ELSE error'
    BY <1>1, <1>9
  <2> QED
    BY <1>14, <2>1 DEF NothingIsMissed
<1> QED
  BY <1>1, <1>2, <1>7, <1>15 DEF AigerInv, ReadInv, CyclesInv, ContextInv, CodesInv

\* The pass of build_error starts with the property.
LEMMA FinishTransKeeps ==
    ASSUME AigerInv, FinishTrans
    PROVE  AigerInv'
<1>1. pc = "trans" /\ UNCHANGED <<file, aig>>
  BY DEF FinishTrans, library
<1>2. file \in Graphs /\ HasResets(file) /\ OrderedGates(aig.ands)
  BY <1>1 DEF AigerInv, OrderInv
<1>3. CASE IsConstant(ErrorLiteral(aig))
  <2>1. pc' = "built"
    BY <1>3 DEF FinishTrans
  <2> QED
    BY <1>1, <2>1, LateSteps
<1>4. CASE ~IsConstant(ErrorLiteral(aig))
  <2>1. pc' = "error" /\ gate' = Len(aig.ands)
    BY <1>4 DEF FinishTrans
  <2>2. aig.ands \in Seq([lhs : Nat, rhs0 : Nat, rhs1 : Nat])
    BY <1>2 DEF OrderedGates
  <2>3. Len(aig.ands) \in Nat /\ DOMAIN aig.ands = 1 .. Len(aig.ands)
    BY <2>2
  <2>4. GateInv' /\ OrderInv'
    BY <1>1, <1>2, <2>1, <2>3 DEF GateInv, OrderInv
  <2>5. \A i \in DOMAIN aig'.ands : i <= gate'
    BY <1>1, <2>1, <2>3
  <2>6. NothingIsMissed'
    BY <2>5 DEF NothingIsMissed
  <2> QED
    BY <1>1, <1>2, <2>1, <2>4, <2>6 DEF AigerInv, ReadInv, CyclesInv, ContextInv, CodesInv
<1> QED
  BY <1>3, <1>4

\* The invariant is inductive.
LEMMA NextAigerInv == AigerInv /\ [Next]_vars => AigerInv'
<1> SUFFICES ASSUME AigerInv, [Next]_vars PROVE AigerInv'
  OBVIOUS
<1>1. CASE UNCHANGED vars
  <2>1. UNCHANGED <<pc, file, aig, line, stack, marked, onstack, code, new, root, required, gate,
                    trans, error>>
    BY <1>1 DEF vars, translation, library, traversal, clausification, formulas
  <2>2. ReadInv' /\ CyclesInv' /\ ContextInv'
    BY <2>1 DEF AigerInv, ReadInv, CyclesInv, ContextInv
  <2>3. CodesInv' /\ OrderInv' /\ GateInv'
    BY <2>1 DEF AigerInv, CodesInv, OrderInv, GateInv
  <2>4. NothingIsMissed'
    BY <2>1 DEF AigerInv, NothingIsMissed, IsRequired
  <2> QED
    BY <2>1, <2>2, <2>3, <2>4 DEF AigerInv
<1>2. CASE PrintHelp \/ NoHelp \/ FinishParse \/ OpenFile
  <2>1. /\ pc \in {"help", "parse", "open"} /\ pc' \in {"parse", "open", "read", "exit"}
        /\ UNCHANGED translation
    BY <1>2 DEF PrintHelp, NoHelp, FinishParse, OpenFile, Exit
  <2> QED
    BY <2>1, EarlySteps
<1>3. CASE ParseArgument
  <2>1. pc = "parse" /\ pc' = "parse" /\ UNCHANGED translation
    BY <1>3 DEF ParseArgument
  <2> QED
    BY <2>1, EarlySteps
<1>4. CASE UsageError \/ InputError \/ EngineError \/ BuildError
  <2>1. pc' = "exit" /\ UNCHANGED translation
    BY <1>4 DEF UsageError, InputError, EngineError, BuildError, Exit
  <2> QED
    BY <2>1, LateSteps DEF translation, library
<1>5. CASE Read
  BY <1>5, ReadLineKeeps, CheckDefinedKeeps, CyclesKeep DEF Read
<1>6. CASE GetEngine
  BY <1>6, GetEngineKeeps DEF GetEngine
<1>7. CASE Build
  <2>1. CASE FinishError
    BY <2>1, LateSteps DEF FinishError, library
  <2> QED
    BY <1>7, <2>1, MakeContextKeeps, ReencodeKeeps, ContextReencodedKeeps, BuildInitKeeps,
       ClausifyGateKeeps, FinishTransKeeps DEF Build
<1>8. CASE ReturnCounterexample \/ ReturnOk \/ ReturnUnknown \/ WriteWitness
  <2>1. pc' \in {"witness", "exit"} /\ UNCHANGED translation
    BY <1>8 DEF ReturnCounterexample, ReturnOk, ReturnUnknown, WriteWitness, Exit
  <2> QED
    BY <2>1, LateSteps DEF translation, library
<1>9. CASE SearchForever \/ Exited
  BY <1>1, <1>9 DEF SearchForever, Exited
<1> QED
  BY <1>1, <1>2, <1>3, <1>4, <1>5, <1>6, <1>7, <1>8, <1>9 DEF Next

\* What the library and the builder keep true, for all files: the lines that were
\* read define each literal once, the traversals of aiger_check_for_cycles and
\* aiger_reencode_lit hold the gates they are in, gates are numbered after their
\* operands, and clausify_subgraph gets them in this order.
THEOREM AigerInvariant == Spec => []AigerInv
<1>1. Init => AigerInv
  BY InitAigerInv
<1>2. AigerInv /\ [Next]_vars => AigerInv'
  BY NextAigerInv
<1> QED
  BY <1>1, <1>2, PTL DEF Spec, SafetySpec

\* The backward pass of clausify_subgraph visits each gate once and misses none
\* that a gate of the formula depends on, in whatever order the file lists its
\* gates.
THEOREM NoGateIsMissed == Spec => []NothingIsMissed
<1>1. AigerInv => NothingIsMissed
  BY DEF AigerInv
<1> QED
  BY <1>1, AigerInvariant, PTL
=============================================================================
