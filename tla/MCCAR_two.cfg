SPECIFICATION SafetySpec
CONSTANTS
    Latches = {1, 2}
    Inputs = {0}
    Systems <- SystemsOfTwo
    Configurations <- BothWays
    SharedGates <- NoSharedGates
    SolverRefreshRate = 3
INVARIANTS
    TypeOK
    SolverMirrorsTrace
    TraceOverapproximates
    FramesBelowLastAreSafe
    VerdictIsCorrect
