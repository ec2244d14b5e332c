------------------------------ MODULE BMCProof ------------------------------
(***************************************************************************)
(* What the BMC engine says about the executions up to its bound is right, *)
(* for every system, every bound and every refresh rate.                   *)
(***************************************************************************)
EXTENDS BMC, SystemLemmas, TLAPS

-----------------------------------------------------------------------------
(* The inductive invariant.                                                *)

\* The solver has the initial formula once it was refreshed, and the unrolled
\* transitions up to the step that is about to be, or was, asserted.
Unrolled ==
    /\ pc \in {"trans", "error", "query"} \/ step > 0 => solver.init
    /\ pc \in {"loop", "trans"} => 0 .. step - 2 \subseteq solver.trans
    /\ pc \in {"error", "query"} => 0 .. step - 1 \subseteq solver.trans

\* The error that is enabled in the query is the one of this step.
LastErrorEnabled ==
    pc = "query" =>
        /\ step \in solver.errors
        /\ Len(activators) \in Nat \ {0}
        /\ activators[Len(activators)] = step

\* No error was found before this step.
Searched == \A k \in 0 .. step - 1 : ~ErrorAfter(system, k)

\* There is a result exactly when run() has returned; "unknown" is returned
\* after the last step.
ResultInv ==
    /\ pc # "done" => result = "none"
    /\ result = "unknown" => step > bound

\* The caches have what the next formula needs.
CacheInv ==
    /\ pc \in {"loop", "trans"} => step - 1 <= cached
    /\ pc \in {"error", "query"} => step <= cached
    /\ versions >= cached + 1

IInv ==
    /\ TypeOK
    /\ Unrolled
    /\ LastErrorEnabled
    /\ Searched
    /\ ResultInv
    /\ CacheInv
    /\ CounterexampleIsShortest

-----------------------------------------------------------------------------
(* A query decides whether there is an error after this many steps.        *)

\* In the states where the query is made, its models are the executions with
\* an error after step steps.
LEMMA QueryIsErrorPath ==
    ASSUME IInv, pc = "query",
           NEW st \in [0 .. step -> States], NEW in \in [0 .. step -> Inputs]
    PROVE  IsModel(st, in) <=> ErrorPath(system, st, in, step)
<1>1. solver.init /\ solver.trans = 0 .. step - 1
  BY DEF IInv, TypeOK, Unrolled
<1>2. step \in solver.errors /\ activators[Len(activators)] = step
  BY DEF IInv, LastErrorEnabled
<1> QED
  BY <1>1, <1>2 DEF IsModel, ErrorPath

-----------------------------------------------------------------------------
(* The actions.                                                            *)

\* The constructor and setup_versioning establish the invariant.
LEMMA InitEstablishes == Init => IInv
<1> SUFFICES ASSUME Init PROVE IInv
  OBVIOUS
<1>1. TypeOK
  BY DEF Init, TypeOK
<1>2. Unrolled /\ LastErrorEnabled /\ ResultInv /\ CacheInv /\ CounterexampleIsShortest
  BY DEF Init, Unrolled, LastErrorEnabled, ResultInv, CacheInv, CounterexampleIsShortest
<1>3. Searched
  BY DEF Init, Searched
<1> QED
  BY <1>1, <1>2, <1>3 DEF IInv

\* A step that changes neither the system nor the step number nor the verdict
\* keeps what is known of the steps searched.
LEMMA SearchedKept ==
    ASSUME IInv, UNCHANGED <<system, step, result, cex>>
    PROVE  Searched' /\ CounterexampleIsShortest'
<1>1. \A k : ErrorAfter(system, k)' = ErrorAfter(system, k)
  BY DEF ErrorAfter, ErrorPath
<1>2. Searched'
  BY <1>1 DEF IInv, Searched
<1>3. CounterexampleIsShortest'
  BY <1>1 DEF IInv, CounterexampleIsShortest, ErrorPath
<1> QED
  BY <1>2, <1>3

\* refresh_solver keeps the invariant.
LEMMA RefreshStep == ASSUME IInv, Refresh PROVE IInv'
<1>1. TypeOK'
  BY RefreshAssumption, BoundsAssumption DEF IInv, Refresh, Reloaded, TypeOK, MakeTrans, AtLeast
<1>2. Unrolled' /\ LastErrorEnabled' /\ ResultInv'
  BY DEF IInv, TypeOK, Refresh, Reloaded, Unrolled, LastErrorEnabled, ResultInv
<1>3. CacheInv'
  BY DEF IInv, TypeOK, Refresh, CacheInv, MakeTrans, AtLeast
<1>4. Searched' /\ CounterexampleIsShortest'
  BY SearchedKept DEF Refresh
<1> QED
  BY <1>1, <1>2, <1>3, <1>4 DEF IInv

\* A step without a refresh keeps the invariant.
LEMMA KeepSolverStep == ASSUME IInv, KeepSolver PROVE IInv'
<1>1. step > 0
  BY RefreshAssumption DEF IInv, TypeOK, KeepSolver
<1>2. TypeOK'
  BY DEF IInv, KeepSolver, TypeOK
<1>3. Unrolled' /\ LastErrorEnabled' /\ ResultInv' /\ CacheInv'
  BY <1>1 DEF IInv, TypeOK, KeepSolver, Unrolled, LastErrorEnabled, ResultInv, CacheInv
<1>4. Searched' /\ CounterexampleIsShortest'
  BY SearchedKept DEF KeepSolver
<1> QED
  BY <1>2, <1>3, <1>4 DEF IInv

\* Asserting the transition into this step completes the unrolling.
LEMMA AssertTransStep == ASSUME IInv, AssertTrans PROVE IInv'
<1>1. CASE step > 0
  <2>1. solver' = [solver EXCEPT !.trans = @ \cup {step - 1}]
    BY <1>1 DEF AssertTrans
  <2>2. /\ solver'.init = solver.init
        /\ solver'.trans = solver.trans \cup {step - 1}
        /\ solver'.errors = solver.errors
    BY <2>1 DEF IInv, TypeOK
  <2>3. TypeOK'
    BY <1>1, <2>1, <2>2 DEF IInv, AssertTrans, TypeOK, MakeTrans, AtLeast
  <2>4. Unrolled' /\ LastErrorEnabled' /\ ResultInv'
    BY <1>1, <2>2 DEF IInv, TypeOK, AssertTrans, Unrolled, LastErrorEnabled, ResultInv
  <2>5. CacheInv'
    BY <1>1 DEF IInv, TypeOK, AssertTrans, CacheInv, MakeTrans, AtLeast
  <2> QED
    BY <2>3, <2>4, <2>5, SearchedKept DEF IInv, AssertTrans
<1>2. CASE step = 0
  <2>1. TypeOK'
    BY <1>2 DEF IInv, AssertTrans, TypeOK
  <2>2. Unrolled' /\ LastErrorEnabled' /\ ResultInv' /\ CacheInv'
    BY <1>2 DEF IInv, TypeOK, AssertTrans, Unrolled, LastErrorEnabled, ResultInv, CacheInv
  <2> QED
    BY <2>1, <2>2, SearchedKept DEF IInv, AssertTrans
<1> QED
  BY <1>1, <1>2 DEF IInv, TypeOK

\* make_error enables the error of this step and no other.
LEMMA AssertErrorStep == ASSUME IInv, AssertError PROVE IInv'
<1>1. /\ solver'.init = solver.init
      /\ solver'.trans = solver.trans
      /\ solver'.errors = solver.errors \cup {step}
  BY DEF IInv, TypeOK, AssertError
<1>2. /\ activators' \in Seq(0 .. step)
      /\ Len(activators') = Len(activators) + 1
      /\ activators'[Len(activators')] = step
      /\ activators' # <<>>
      /\ Len(activators') \in Nat \ {0}
  BY DEF IInv, TypeOK, AssertError
<1>3. TypeOK'
  <2>1. solver' = [init |-> solver.init, trans |-> solver.trans, errors |-> solver.errors \cup {step}]
    BY DEF IInv, TypeOK, AssertError
  <2>2. step \in 0 .. step
    BY DEF IInv, TypeOK
  <2> QED
    BY <1>2, <2>1, <2>2 DEF IInv, AssertError, TypeOK
<1>4. Unrolled' /\ LastErrorEnabled' /\ ResultInv' /\ CacheInv'
  BY <1>1, <1>2 DEF IInv, TypeOK, AssertError, Unrolled, LastErrorEnabled, ResultInv, CacheInv
<1> QED
  BY <1>3, <1>4, SearchedKept DEF IInv, AssertError

\* The counterexample that is returned is the execution the model describes.
LEMMA ReturnCounterexampleStep == ASSUME IInv, ReturnCounterexample PROVE IInv'
<1>1. PICK st \in [0 .. step -> States], in \in [0 .. step -> Inputs] :
        /\ IsModel(st, in)
        /\ cex' = [initial |-> st[0], inputs |-> [k \in 1 .. step + 1 |-> in[k - 1]]]
  BY DEF ReturnCounterexample
<1>2. ErrorPath(system, st, in, step)
  BY <1>1, QueryIsErrorPath DEF ReturnCounterexample
<1>3. step \in Nat /\ UNCHANGED system
  BY DEF IInv, TypeOK, ReturnCounterexample
<1>4. /\ Len(cex'.inputs) = step + 1
      /\ \A k \in 1 .. step + 1 : cex'.inputs[k] = in[k - 1]
      /\ cex'.initial = st[0]
  BY <1>1, <1>3
<1> DEFINE read == [k \in 0 .. step |-> cex'.inputs[k + 1]]
<1>5. read = in
  BY <1>3, <1>4
<1>6. CounterexampleIsShortest'
  <2>1. Len(cex'.inputs) - 1 = step
    BY <1>3, <1>4
  <2>2. \E s \in [0 .. step -> States] : s[0] = cex'.initial /\ ErrorPath(system', s, read, step)
    BY <1>2, <1>3, <1>4, <1>5
  <2>3. \A k \in 0 .. step - 1 : ~ErrorAfter(system', k)
    BY <1>3 DEF IInv, Searched
  <2> QED
    BY <2>1, <2>2, <2>3 DEF CounterexampleIsShortest
<1>7. TypeOK'
  BY DEF IInv, ReturnCounterexample, TypeOK
<1>8. Unrolled' /\ LastErrorEnabled' /\ ResultInv' /\ CacheInv'
  BY DEF IInv, TypeOK, ReturnCounterexample, Unrolled, LastErrorEnabled, ResultInv, CacheInv
<1>9. Searched'
  BY <1>3 DEF IInv, Searched, ReturnCounterexample
<1> QED
  BY <1>6, <1>7, <1>8, <1>9 DEF IInv

\* An unsatisfiable query adds its step to the ones that were searched.
LEMMA NextStepStep == ASSUME IInv, NextStep PROVE IInv'
<1>1. ~ErrorAfter(system, step)
  BY QueryIsErrorPath DEF NextStep, ErrorAfter
<1>2. step \in Nat /\ step' = step + 1 /\ UNCHANGED <<system, result, cex>> /\ result = "none"
  BY DEF IInv, TypeOK, NextStep, ResultInv
<1>3. Searched'
  BY <1>1, <1>2 DEF IInv, Searched
<1>4. CounterexampleIsShortest'
  BY <1>2 DEF CounterexampleIsShortest
<1>5. TypeOK'
  <2>1. 0 .. step \subseteq 0 .. step' /\ 0 .. step - 1 \subseteq 0 .. step' - 1
    BY <1>2
  <2>2. activators \in Seq(0 .. step')
    BY <1>2, <2>1 DEF IInv, TypeOK
  <2> QED
    BY <1>2, <2>1, <2>2 DEF IInv, NextStep, TypeOK
<1>6. Unrolled' /\ LastErrorEnabled' /\ ResultInv' /\ CacheInv'
  BY <1>2 DEF IInv, TypeOK, NextStep, Unrolled, LastErrorEnabled, ResultInv, CacheInv
<1> QED
  BY <1>3, <1>4, <1>5, <1>6 DEF IInv

\* The loop ends only after the last step was searched.
LEMMA ReturnUnknownStep == ASSUME IInv, ReturnUnknown PROVE IInv'
<1>1. TypeOK'
  BY DEF IInv, ReturnUnknown, TypeOK
<1>2. Unrolled' /\ LastErrorEnabled' /\ ResultInv' /\ CacheInv'
  BY DEF IInv, TypeOK, ReturnUnknown, Unrolled, LastErrorEnabled, ResultInv, CacheInv
<1>3. Searched' /\ CounterexampleIsShortest'
  BY DEF IInv, Searched, ReturnUnknown, CounterexampleIsShortest
<1> QED
  BY <1>1, <1>2, <1>3 DEF IInv

\* Nothing changes after run() has returned.
LEMMA StutterKeeps == ASSUME IInv, UNCHANGED vars PROVE IInv'
<1>1. TypeOK'
  BY DEF IInv, vars, TypeOK
<1>2. Unrolled' /\ LastErrorEnabled' /\ ResultInv' /\ CacheInv'
  BY DEF IInv, vars, Unrolled, LastErrorEnabled, ResultInv, CacheInv
<1> QED
  BY <1>1, <1>2, SearchedKept DEF IInv, vars

\* The invariant holds throughout.
LEMMA Invariant == Spec => []IInv
<1>1. IInv /\ [Next]_vars => IInv'
  BY RefreshStep, KeepSolverStep, AssertTransStep, AssertErrorStep, ReturnCounterexampleStep,
     NextStepStep, ReturnUnknownStep, StutterKeeps DEF Next, Returned
<1> QED
  BY <1>1, InitEstablishes, PTL DEF Spec, SafetySpec

-----------------------------------------------------------------------------
(* The theorems.                                                           *)

\* The variables of run and check_for have their types.
THEOREM BMCTypeCorrect == Spec => []TypeOK
<1>1. IInv => TypeOK
  BY DEF IInv
<1> QED
  BY <1>1, Invariant, PTL

\* When bmc::run gives up, no execution of at most -k steps has an error.
THEOREM BMCUnknownIsHonest == Spec => []UnknownIsHonest
<1>1. IInv => UnknownIsHonest
  <2> SUFFICES ASSUME IInv, result = "unknown", NEW k \in 0 .. bound
               PROVE  ~ErrorAfter(system, k)
    BY DEF UnknownIsHonest
  <2>1. bound \in Int /\ step \in Nat /\ step > bound
    BY BoundsAssumption DEF IInv, TypeOK, ResultInv
  <2> QED
    BY <2>1 DEF IInv, Searched
<1> QED
  BY <1>1, Invariant, PTL

\* The counterexample bmc::run returns is an execution with an error, and a
\* shortest one.
THEOREM BMCShortestCounterexample == Spec => []CounterexampleIsShortest
<1>1. IInv => CounterexampleIsShortest
  BY DEF IInv
<1> QED
  BY <1>1, Invariant, PTL

\* The assertions of make_trans and make_error on the versions hold.
THEOREM BMCVersionsExist == Spec => []VersionsExist
<1>1. IInv => VersionsExist
  BY DEF IInv, TypeOK, CacheInv, VersionsExist
<1> QED
  BY <1>1, Invariant, PTL

-----------------------------------------------------------------------------
(* Refinement.                                                             *)

\* An execution with an error refutes every inductive invariant: by induction
\* on its length, the invariant would contain all of its states.
LEMMA ErrorPathIsUnsafe ==
    ASSUME NEW sys, NEW k \in Nat, NEW st \in [0 .. k -> States], NEW in \in [0 .. k -> Inputs],
           ErrorPath(sys, st, in, k)
    PROVE  ~Safe(sys)
<1> SUFFICES ASSUME NEW Inv \in SUBSET States, SafeInvariant(sys, Inv) PROVE FALSE
  BY DEF Safe
<1> DEFINE T == {n \in Nat : n <= k => st[n] \in Inv}
<1>1. 0 \in T
  BY DEF SafeInvariant, ErrorPath
<1>2. ASSUME NEW n \in Nat, n \in T PROVE n + 1 \in T
  <2>1. CASE n + 1 <= k
    <3>1. n \in 0 .. k - 1 /\ n \in 0 .. k /\ st[n] \in Inv
      BY <1>2, <2>1
    <3>2. st[n + 1] = NextState(sys, st[n], in[n]) /\ in[n] \in Inputs
      BY <3>1 DEF ErrorPath
    <3>3. st[n + 1] \in Inv
      BY <3>1, <3>2 DEF SafeInvariant
    <3> QED
      BY <3>3
  <2>2. CASE ~(n + 1 <= k)
    BY <2>2
  <2> QED
    BY <2>1, <2>2
<1> HIDE DEF T
<1>3. Nat \subseteq T
  BY <1>1, <1>2, SetInduction
<1>4. st[k] \in Inv
  BY <1>3 DEF T
<1> QED
  BY <1>4 DEF SafeInvariant, ErrorPath

\* A query that is satisfiable says that the system is unsafe.
LEMMA ReturnedIsUnsafe ==
    ASSUME IInv, ReturnCounterexample
    PROVE  ~Safe(system)
<1>1. pc = "query" /\ step \in Nat
  BY DEF ReturnCounterexample, IInv, TypeOK
<1>2. PICK st \in [0 .. step -> States], in \in [0 .. step -> Inputs] : IsModel(st, in)
  BY DEF ReturnCounterexample
<1> QED
  BY <1>1, <1>2, QueryIsErrorPath, ErrorPathIsUnsafe

\* The contract reads the transition system as the engine does.
LEMMA SafeInEngine == ASSUME NEW sys PROVE Engine!Safe(sys) = Safe(sys)
<1>1. \A c, s : Engine!Holds(c, s) = Holds(c, s)
  BY DEF Engine!Holds, Holds
<1>2. Engine!States = States
  BY DEF Engine!States, States
<1>3. \A s, i : Engine!NextState(sys, s, i) = NextState(sys, s, i)
  BY DEF Engine!NextState, NextState
<1>4. \A Inv : Engine!SafeInvariant(sys, Inv) = SafeInvariant(sys, Inv)
  BY <1>1, <1>2, <1>3 DEF Engine!SafeInvariant, SafeInvariant
<1> QED
  BY <1>2, <1>4 DEF Engine!Safe, Safe

\* The engine implements the contract its callers rely on: it returns once, a
\* counterexample only for an unsafe system, and otherwise gives up.
THEOREM BMCImplementsEngine == Spec => ImplementsEngine
<1>1. Init => Engine!Init
  BY DEF Init, Engine!Init
<1>2. ASSUME IInv, [Next]_vars PROVE [Engine!Next]_<<system, result>>
  <2>1. UNCHANGED system
    BY <1>2 DEF Next, vars, Refresh, KeepSolver, AssertTrans, AssertError, ReturnCounterexample,
       NextStep, ReturnUnknown, Returned
  <2>2. pc # "done" => result = "none"
    BY <1>2 DEF IInv, ResultInv
  <2>3. CASE ReturnCounterexample
    <3>1. result = "none" /\ result' = "counterexample"
      BY <2>2, <2>3 DEF ReturnCounterexample
    <3>2. ~Engine!Safe(system)
      BY <1>2, <2>3, ReturnedIsUnsafe, SafeInEngine
    <3> QED
      BY <2>1, <3>1, <3>2 DEF Engine!Next, Engine!ReturnCounterexample
  <2>4. CASE ReturnUnknown
    BY <2>1, <2>2, <2>4 DEF ReturnUnknown, Engine!Next, Engine!ReturnUnknown
  <2>5. CASE UNCHANGED result
    BY <2>1, <2>5
  <2> QED
    BY <1>2, <2>3, <2>4, <2>5 DEF Next, vars, Refresh, KeepSolver, AssertTrans, AssertError, NextStep, Returned
<1> QED
  BY <1>1, <1>2, Invariant, PTL DEF Spec, SafetySpec, ImplementsEngine, Engine!SafetySpec, Engine!vars
=============================================================================
