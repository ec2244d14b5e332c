------------------------------- MODULE Geyser -------------------------------
(***************************************************************************)
(* The program from its arguments to the witness it prints: main.cpp, the  *)
(* parser of options.cpp, the reader and the builder, an engine and        *)
(* witness_writer.cpp.                                                     *)
(*                                                                         *)
(* The run of an engine is one step here: what it may return follows from  *)
(* its kind and the formulas it is given, in the way the modules BMC, PDR  *)
(* and CAR show of it step by step. PDR and forward CAR may report a state *)
(* that is not initial, and backward CAR finds the errors of the reversed  *)
(* system, which are not all of those of the system.                       *)
(*                                                                         *)
(* An argument is a path or an option, which is a key with at most one     *)
(* value. The text of messages and of the log is left out; a message is    *)
(* named after what it is about.                                           *)
(***************************************************************************)
EXTENDS AigerBuilder, FiniteSets, TLC

CONSTANTS
    Invocations,    \* the arguments the program is run with, and the graph in its file
    Paths,          \* the paths of files that can be opened
    Numerals,       \* the values that std::stoi reads to their end, as integers
    MaxInt,         \* std::numeric_limits< int >::max()
    MaxRows         \* the longest counterexample an engine returns here

\* An option has at most one value. A path, whose key is empty, has one.
IsCommandLine(as) ==
    /\ as \in Seq([key : STRING, value : Seq(STRING)])
    /\ \A i \in DOMAIN as : Len(as[i].value) <= 1 /\ (as[i].key = "" => as[i].value # <<>>)

ASSUME InvocationsAssumption ==
    \A i \in Invocations :
        IsCommandLine(i.args) /\ i.file \in Graphs /\ HasResets(i.file) /\ HasJustice(i.file)

VARIABLES
    args,           \* argv, without the name of the program
    arg,            \* the number of arguments that have been parsed
    inputFile,      \* input_file of parse_cli: none or one path
    opts,           \* opts of parse_cli: the optional value of each key
    options,        \* the options that parse_cli returns
    engine,         \* the engine get_engine makes
    result,         \* the alternative of the result variant
    cex,            \* the counterexample, when there is one
    witness,        \* what write_aiger_witness prints
    exit            \* the message and the exit code of main

commandLine == <<args, arg, inputFile, opts, options>>
translation == <<library, clausification, formulas>>
outcome == <<engine, result, cex, witness, exit>>
vars == <<pc, commandLine, translation, outcome>>

NoExit == [message |-> "none", code |-> 0]

Init ==
    /\ \E i \in Invocations : args = i.args /\ file = i.file
    /\ pc = "help"
    /\ arg = 0
    /\ inputFile = <<>>
    /\ opts = <<>>
    /\ options = <<>>
    /\ LibraryInit
    /\ BuilderInit
    /\ engine = [kind |-> "none", bound |-> 0]
    /\ result = "none"
    /\ cex = [initial |-> <<>>, inputs |-> <<>>]
    /\ witness = <<>>
    /\ exit = NoExit

\* main returns.
Exit(message, status) ==
    /\ exit' = [message |-> message, code |-> status]
    /\ pc' = "exit"

-----------------------------------------------------------------------------
(* parse_cli.                                                              *)

IsPath(a) == a.key = ""

HelpRequested == \E i \in DOMAIN args : args[i] \in {[key |-> k, value |-> <<>>] : k \in {"-h", "--help"}}

\* requests_help comes before everything else, also before errors.
PrintHelp ==
    /\ pc = "help"
    /\ HelpRequested
    /\ Exit("help", 0)
    /\ UNCHANGED <<commandLine, translation, engine, result, cex, witness>>

NoHelp ==
    /\ pc = "help"
    /\ ~HelpRequested
    /\ pc' = "parse"
    /\ UNCHANGED <<commandLine, translation, outcome>>

\* Mutant of Emplace: the last occurrence of a key counts.
EmplaceLast(m, k, v) == (k :> v) @@ m

\* std::map::emplace keeps the value a key already has.
Emplace(m, k, v) == [x \in DOMAIN m \cup {k} |-> IF x \in DOMAIN m THEN m[x] ELSE v]

\* One argument.
ParseArgument ==
    /\ pc = "parse"
    /\ arg < Len(args)
    /\ arg' = arg + 1
    /\ LET a == args[arg + 1]
       IN  IF IsPath(a)
           THEN /\ inputFile = <<>>
                /\ inputFile' = a.value
                /\ UNCHANGED opts
           ELSE /\ opts' = Emplace(opts, a.key, a.value)
                /\ UNCHANGED inputFile
    /\ UNCHANGED <<pc, args, options, translation, outcome>>

Reserved == {"-h", "--help", "-e", "--engine", "-v", "--verbose", "--debug"}

OtherKeys == DOMAIN opts \ Reserved

Verbosity ==
    IF "-v" \in DOMAIN opts \/ "--verbose" \in DOMAIN opts THEN "loud"
    ELSE IF "--debug" \in DOMAIN opts THEN "debug" ELSE "silent"

NamesEngine == "-e" \in DOMAIN opts \/ "--engine" \in DOMAIN opts

EngineHasName == \A k \in {"-e", "--engine"} \cap DOMAIN opts : opts[k] # <<>>

\* What parse_cli asks of the arguments once it is through them.
IsUsable ==
    /\ inputFile # <<>>
    /\ NamesEngine
    /\ EngineHasName
    /\ \A k \in OtherKeys : opts[k] # <<>> => opts[k][1] \in DOMAIN Numerals

\* Mutant of LastError: the engine is looked for before the path.
LastErrorEngineFirst ==
    IF ~NamesEngine THEN "no engine"
    ELSE IF inputFile = <<>> THEN "no path"
    ELSE IF ~EngineHasName THEN "no engine name"
    ELSE "not an integer"

\* The first of the errors after the last argument.
LastError ==
    IF inputFile = <<>> THEN "no path"
    ELSE IF ~NamesEngine THEN "no engine"
    ELSE IF ~EngineHasName THEN "no engine name"
    ELSE "not an integer"

\* A second path, or an error after the last argument.
UsageError ==
    /\ pc = "parse"
    /\ IF arg < Len(args)
       THEN IsPath(args[arg + 1]) /\ inputFile # <<>> /\ Exit("second path", 1)
       ELSE ~IsUsable /\ Exit(LastError, 1)
    /\ UNCHANGED <<commandLine, translation, engine, result, cex, witness>>

\* The options, and main up to the reading of the file.
FinishParse ==
    /\ pc = "parse"
    /\ arg = Len(args)
    /\ IsUsable
    /\ options' = [ file      |-> inputFile[1],
                    engine    |-> IF "-e" \in DOMAIN opts THEN opts["-e"][1] ELSE opts["--engine"][1],
                    verbosity |-> Verbosity,
                    other     |-> [k \in OtherKeys |->
                                    IF opts[k] = <<>> THEN <<>> ELSE <<Numerals[opts[k][1]]>>] ]
    /\ pc' = "open"
    /\ UNCHANGED <<args, arg, inputFile, opts, translation, outcome>>

\* options::value_or
ValueOr(o, k, def) ==
    IF k \notin DOMAIN o.other \/ o.other[k] = <<>> THEN def ELSE o.other[k][1]

-----------------------------------------------------------------------------
(* aiger_open_and_read_from_file and get_engine.                           *)

OpenFile ==
    /\ pc = "open"
    /\ options.file \in Paths
    /\ pc' = "read"
    /\ UNCHANGED <<commandLine, translation, outcome>>

\* The file cannot be opened, or is not an and-inverter graph.
InputError ==
    /\ \/ pc = "open" /\ options.file \notin Paths
       \/ Unreadable
       \/ Undefined
       \/ Cyclic
    /\ Exit("input", 1)
    /\ UNCHANGED <<commandLine, translation, engine, result, cex, witness>>

Read ==
    /\ ReadLine \/ CheckDefined \/ CycleRoot \/ EnterGate \/ LeaveGate
    /\ UNCHANGED <<commandLine, clausification, formulas, outcome>>

EngineKind(name) ==
    CASE name = "bmc"             -> "bmc"
      [] name = "pdr"             -> "pdr"
      [] name \in {"car", "fcar"} -> "forward_car"
      [] name = "bcar"            -> "backward_car"
      [] OTHER                    -> "none"

\* The file has been read; get_engine. The bound is read by BMC only.
GetEngine ==
    /\ Acyclic
    /\ EngineKind(options.engine) # "none"
    /\ engine' = [kind |-> EngineKind(options.engine), bound |-> ValueOr(options, "-k", MaxInt)]
    /\ pc' = "context"
    /\ UNCHANGED <<commandLine, translation, result, cex, witness, exit>>

EngineError ==
    /\ Acyclic
    /\ EngineKind(options.engine) = "none"
    /\ Exit("engine", 1)
    /\ UNCHANGED <<commandLine, translation, engine, result, cex, witness>>

-----------------------------------------------------------------------------
(* build_from_aiger.                                                       *)

BuildError ==
    /\ Unsupported
    /\ Exit("unsupported", 1)
    /\ UNCHANGED <<commandLine, translation, engine, result, cex, witness>>

Build ==
    /\ \/ MakeContext
       \/ /\ ReencodeRoot \/ ExpandGate \/ CodeGate
          /\ UNCHANGED <<clausification, formulas>>
       \/ ContextReencoded
       \/ BuildInit \/ ClausifyGate \/ FinishTrans \/ FinishError
    /\ UNCHANGED <<commandLine, outcome>>

-----------------------------------------------------------------------------
(* engine::run and write_aiger_witness.                                    *)

\* A valuation, the literals of a range in its order, and the values it stands
\* for.
Valuation(range, f, n) == [i \in 1 .. n |-> <<<<range, i>>, f[i]>>]

\* Mutant of LastSteps: reverse_system primes the state variables and leaves the
\* next state variables as they are.
LastStepsPrimedOnly ==
    {si \in States \X Inputs : \E t \in States, aux \in AuxValuations :
        /\ \A x \in Latches \ DOMAIN aig.latches : ~t[x]
        /\ IsCnfModel(trans, si[1], si[2], si[1], aux)
        /\ IsCnfModel(error, t, si[2], t, aux)}

\* The steps from a state under inputs that a model of the first two formulas of
\* the reversed system stands for. Only the state variables are primed and
\* unprimed by reverse_system: the inputs of the step serve the error too, and
\* so do the values of the gates.
LastSteps ==
    {si \in States \X Inputs : \E t \in States, aux \in AuxValuations :
        /\ \A x \in Latches \ DOMAIN aig.latches : ~t[x]
        /\ IsCnfModel(trans, si[1], si[2], t, aux)
        /\ IsCnfModel(error, t, si[2], t, aux)}

\* BMC: a model of the unrolling, of at most as many steps as its bound.
BoundedRun(sys, s, ins) ==
    /\ Holds(sys.init, s)
    /\ ReachesError(sys, s, ins)
    /\ Len(ins) - 1 <= engine.bound

\* PDR and forward CAR: every state of a cube reaches the error and some state of
\* it is initial. What is reported is what get_vars makes of the cube.
GeneralizedRun(sys, s, ins) ==
    \E c \in SUBSET CubeOf(s) :
        /\ s = GetVars(c)
        /\ \E t \in States : Holds(c, t) /\ Holds(sys.init, t)
        /\ \A t \in States : Holds(c, t) => ReachesError(sys, t, ins)

\* Backward CAR: an execution of the reversed system, read from its end.
ReversedRun(sys, s, ins) ==
    LET n == Len(ins)
    IN  /\ Holds(sys.init, s)
        /\ IF n = 1
           THEN <<s, ins[1]>> \in sys.error
           ELSE /\ ins[n - 1] = ins[n]
                /\ <<StateAt(sys, s, ins, n - 1), ins[n - 1]>> \in LastSteps

\* The state s and the inputs ins are a counterexample the engine may return.
IsCounterexample(sys, s, ins) ==
    CASE engine.kind = "bmc"                    -> BoundedRun(sys, s, ins)
      [] engine.kind \in {"pdr", "forward_car"} -> GeneralizedRun(sys, s, ins)
      [] engine.kind = "backward_car"           -> ReversedRun(sys, s, ins)

InputSequences == UNION {[1 .. n -> Inputs] : n \in 1 .. MaxRows}

ReturnCounterexample ==
    /\ pc = "built"
    /\ LET sys == Encoded
       IN  \E s \in States, ins \in InputSequences :
            /\ IsCounterexample(sys, s, ins)
            /\ cex' = [ initial |-> Valuation("state", s, Len(aig.latches)),
                        inputs  |-> [k \in DOMAIN ins |-> Valuation("input", ins[k], Len(aig.inputs))] ]
    /\ result' = "counterexample"
    /\ pc' = "witness"
    /\ UNCHANGED <<commandLine, translation, engine, witness, exit>>

\* BMC proves nothing. Backward CAR proves that there is no execution of the
\* reversed system, the others that there is none of the system.
ReturnOk ==
    /\ pc = "built"
    /\ \/ engine.kind \in {"pdr", "forward_car"} /\ Safe(Encoded)
       \/ engine.kind = "backward_car" /\ ReversedSafe(Encoded, LastSteps)
    /\ result' = "ok"
    /\ pc' = "witness"
    /\ UNCHANGED <<commandLine, translation, engine, cex, witness, exit>>

FindsNothing ==
    LET sys == Encoded
    IN  ~\E s \in States, ins \in InputSequences : IsCounterexample(sys, s, ins)

\* BMC has searched up to its bound.
ReturnUnknown ==
    /\ pc = "built"
    /\ engine.kind = "bmc"
    /\ engine.bound < MaxInt
    /\ FindsNothing
    /\ result' = "unknown"
    /\ pc' = "witness"
    /\ UNCHANGED <<commandLine, translation, engine, cex, witness, exit>>

\* Without a bound there is no step after which it gives up.
SearchForever ==
    /\ pc = "built"
    /\ engine.kind = "bmc"
    /\ engine.bound >= MaxInt
    /\ FindsNothing
    /\ UNCHANGED vars

\* Mutant of Row: the signs are inverted, as they are in the constructor of
\* literal.
RowInverted(val) == [i \in DOMAIN val |-> IF val[i][2] THEN 0 ELSE 1]

\* row
Row(val) == [i \in DOMAIN val |-> IF val[i][2] THEN 1 ELSE 0]

Status == [ok |-> 0, counterexample |-> 1, unknown |-> 2]

\* write_visitor
WriteWitness ==
    /\ pc = "witness"
    /\ witness' = [ status |-> Status[result],
                    rows   |-> IF result # "counterexample" THEN <<>>
                               ELSE <<Row(cex.initial)>> \o [k \in DOMAIN cex.inputs |-> Row(cex.inputs[k])] ]
    /\ Exit("witness", 0)
    /\ UNCHANGED <<commandLine, translation, engine, result, cex>>

\* The process has ended.
Exited == pc = "exit" /\ UNCHANGED vars

Next ==
    \/ PrintHelp \/ NoHelp \/ ParseArgument \/ UsageError \/ FinishParse
    \/ OpenFile \/ InputError \/ Read
    \/ GetEngine \/ EngineError
    \/ BuildError \/ Build
    \/ ReturnCounterexample \/ ReturnOk \/ ReturnUnknown \/ SearchForever
    \/ WriteWitness
    \/ Exited

SafetySpec == Init /\ [][Next]_vars

\* The only thread of the program keeps running.
Spec == SafetySpec /\ WF_vars(Next)

-----------------------------------------------------------------------------
(* Properties.                                                             *)

\* The variables have their types. The literals a gate, a latch or a property
\* is given by are in the range of the variables, before and after reencoding.
TypeOK ==
    /\ pc \in {"help", "parse", "open", "read", "cycles", "context", "reencode", "init", "trans",
               "error", "built", "witness", "exit"}
    /\ arg \in 0 .. Len(args)
    /\ Len(inputFile) <= 1
    /\ line \in 0 .. Len(Lines(file))
    /\ marked \subseteq 1 .. file.maxvar
    /\ onstack \subseteq ToSet(stack)
    /\ pc \notin {"cycles", "reencode", "exit"} => stack = <<>> /\ onstack = {}
    /\ new <= 2 * (file.maxvar + 1)
    /\ pc \in {"context", "reencode", "init", "trans", "error", "built", "witness"} =>
            /\ AllDefined(aig)
            /\ aig.maxvar <= file.maxvar
    /\ gate \in 0 .. Len(aig.ands)
    /\ engine.kind \in {"none", "bmc", "pdr", "forward_car", "backward_car"}
    /\ result \in {"none", "ok", "counterexample", "unknown"}
    /\ exit.code \in {0, 1}

\* The value of the first occurrence of the key k among the arguments as, or
\* none.
FirstOf(as, k) ==
    LET at == {i \in DOMAIN as : as[i].key = k}
    IN  IF at = {} THEN <<>> ELSE as[CHOOSE i \in at : \A j \in at : i <= j].value

\* The bound on the command line.
GivenBound == IF FirstOf(args, "-k") = <<>> THEN MaxInt ELSE Numerals[FirstOf(args, "-k")[1]]

\* A graph in which each literal is defined once, whatever is used is defined
\* and the gates can be ranked so that each depends on lower ones.
WellFormed(g) ==
    LET defs == [i \in DOMAIN g.inputs |-> g.inputs[i]]
                \o [i \in DOMAIN g.latches |-> g.latches[i].lit]
                \o [i \in DOMAIN g.ands |-> g.ands[i].lhs]
        known == {0, 1} \cup ToSet(defs) \cup {l + 1 : l \in ToSet(defs)}
    IN  /\ \A l \in ToSet(defs) : l \in {2 * v : v \in 1 .. g.maxvar}
        /\ Cardinality(ToSet(defs)) = Len(defs)
        /\ ToSet(Properties(g)) \subseteq known
        /\ \A i \in DOMAIN g.latches : g.latches[i].next \in known
        /\ \A i \in DOMAIN g.ands : {g.ands[i].rhs0, g.ands[i].rhs1} \subseteq known
        /\ \E rank \in [DOMAIN g.ands -> DOMAIN g.ands] : \A i, j \in DOMAIN g.ands :
                Strip(g.ands[i].lhs) \in {Strip(g.ands[j].rhs0), Strip(g.ands[j].rhs1)} =>
                    rank[i] < rank[j]

\* States and Inputs have a value for each latch and input of a graph that is read.
ASSUME SpaceAssumption ==
    \A g \in {i.file : i \in Invocations} : WellFormed(g) =>
        /\ DOMAIN g.latches \subseteq Latches
        /\ \A in \in Inputs, k \in DOMAIN g.inputs : in[k] \in BOOLEAN

\* How the program ends, from its arguments and its file alone.
ExpectedExit ==
    LET keys == {args[i].key : i \in DOMAIN args}
        paths == {i \in DOMAIN args : IsPath(args[i])}
        engineName == IF "-e" \in keys THEN FirstOf(args, "-e") ELSE FirstOf(args, "--engine")
    IN  IF HelpRequested THEN [message |-> "help", code |-> 0]
        ELSE IF paths = {} THEN [message |-> "no path", code |-> 1]
        ELSE IF Cardinality(paths) # 1 THEN [message |-> "second path", code |-> 1]
        ELSE IF \A k \in {"-e", "--engine"} : k \notin keys THEN [message |-> "no engine", code |-> 1]
        ELSE IF \E k \in {"-e", "--engine"} \cap keys : FirstOf(args, k) = <<>>
        THEN [message |-> "no engine name", code |-> 1]
        ELSE IF \E k \in keys \ (Reserved \cup {""}) :
                    FirstOf(args, k) # <<>> /\ FirstOf(args, k)[1] \notin DOMAIN Numerals
        THEN [message |-> "not an integer", code |-> 1]
        ELSE IF args[CHOOSE i \in paths : TRUE].value[1] \notin Paths \/ ~WellFormed(file)
        THEN [message |-> "input", code |-> 1]
        ELSE IF engineName[1] \notin {"bmc", "pdr", "car", "fcar", "bcar"}
        THEN [message |-> "engine", code |-> 1]
        ELSE IF \/ Len(file.outputs \o file.bad) # 1 \/ file.numJustice # 0
                \/ file.constraints \o file.fairness # <<>>
        THEN [message |-> "unsupported", code |-> 1]
        ELSE [message |-> "witness", code |-> 0]

\* Whichever check fails first decides how the program ends: the program gets as
\* far as its arguments and its file deserve, reports the error they have, and
\* the library's traversal rejects precisely the graphs with a cycle.
ExitIsDeserved == pc = "exit" => exit = ExpectedExit

\* The rows of the witness are about the circuit in the file: replayed on it, in
\* the order of its latches and inputs, they reach the error. They start in an
\* initial state, except that PDR and forward CAR may print a 0 for latches that
\* reset to one. A witness without rows says 2 when no execution up to the bound
\* on the command line has an error and 0 of safe circuits only, except that of
\* backward CAR, which BackwardOkIsTrue is about.
WitnessIsTrue ==
    exit.message = "witness" =>
        LET sys == Circuit(file)
            states(row) == {s \in States : \A i \in DOMAIN row : s[i] = (row[i] = 1)}
            inputs(row) == {in \in Inputs : \A i \in DOMAIN row : in[i] = (row[i] = 1)}
            rows == witness.rows
        IN  CASE witness.status = 0 -> engine.kind \in {"pdr", "forward_car"} => Safe(sys)
              [] witness.status = 1 ->
                    /\ Len(rows[1]) = Len(file.latches)
                    /\ \A k \in 2 .. Len(rows) : Len(rows[k]) = Len(file.inputs)
                    /\ \A s \in states(rows[1]) : \A l \in sys.init :
                            s[l[1]] = l[2] \/ (l[2] /\ engine.kind \in {"pdr", "forward_car"})
                    /\ \A s \in states(rows[1]) :
                       \A ins \in {f \in [1 .. Len(rows) - 1 -> Inputs] :
                                    \A k \in DOMAIN f : f[k] \in inputs(rows[k + 1])} :
                            ReachesError(sys, s, ins)
              [] witness.status = 2 ->
                    ~\E s \in States, ins \in InputSequences :
                        /\ Holds(sys.init, s)
                        /\ ReachesError(sys, s, ins)
                        /\ Len(ins) - 1 <= GivenBound

\* The variables in vs include those of the literals ls and the operands of each
\* of their gates.
IsCone(g, ls, vs) ==
    /\ \A l \in ls : Var(l) \in vs
    /\ \A i \in DOMAIN g.ands :
        Var(g.ands[i].lhs) \in vs => Var(g.ands[i].rhs0) \in vs /\ Var(g.ands[i].rhs1) \in vs

\* The variables that the literals ls of g depend on.
Cone(g, ls) ==
    {v \in 0 .. g.maxvar : \A vs \in SUBSET (0 .. g.maxvar) : IsCone(g, ls, vs) => v \in vs}

\* The gates that both the next state functions and the property depend on.
SharedGates(g) == {v \in Cone(g, NextLiterals(g)) \cap Cone(g, {ErrorLiteral(g)}) : IsAnd(g, v)}

\* The steps of the circuit g into an error that the inputs of the step trigger
\* again, and that leave the shared gates as they are.
SteadySteps(g) ==
    {si \in States \X Inputs :
        LET t == NextState(Circuit(g), si[1], si[2])
        IN  /\ <<t, si[2]>> \in Circuit(g).error
            /\ \A v \in SharedGates(g) : Values(g, t, si[2])[v] = Values(g, si[1], si[2])[v]}

\* Which inputs there are makes no difference to the error.
IgnoresInputs(sys) ==
    \A s \in States, in, jn \in Inputs : <<s, in>> \in sys.error => <<s, jn>> \in sys.error

\* 0 of backward CAR says of the circuit in the file that there is no error in an
\* initial state and none after a step that repeats its inputs and keeps the
\* gates that the property shares with the next state functions. So the circuit
\* is safe if the property depends on no input and shares no gate.
BackwardOkIsTrue ==
    exit.message = "witness" /\ witness.status = 0 /\ engine.kind = "backward_car" =>
        LET sys == Circuit(file)
        IN  /\ ReversedSafe(sys, SteadySteps(file))
            /\ IgnoresInputs(sys) /\ SharedGates(file) = {} => Safe(sys)

\* The program exits, unless BMC is asked to search a circuit in which there is
\* nothing to find and no bound is on the command line.
Termination ==
    \/ <>(pc = "exit")
    \/ <>[](/\ pc = "built" /\ engine.kind = "bmc" /\ GivenBound >= MaxInt
            /\ Safe(Circuit(file)))
=============================================================================
