SPECIFICATION Spec
CONSTANTS
    Latches = {1, 2, 3}
    Inputs = {0, 1}
    Systems <- SystemsOfThree
    Configurations <- MinimalCores
    SharedGates <- NoSharedGates
    SolverRefreshRate = 4
INVARIANTS
    CotraceLeadsToError
    CounterexampleReplays
    CounterexampleStartsInInit
PROPERTIES
    SetsAreMonotone
    ImplementsEngine
    Termination
