SPECIFICATION Spec
CONSTANTS
    Latches = {1, 2}
    Inputs = {0}
    Systems <- SystemsOfTwo
    SolverRefreshRate = 3
INVARIANTS
    TypeOK
    SolverMirrorsTrace
    TraceOverapproximates
    FramesBelowLastAreSafe
    ObligationsAreNew
    LiveHandles
    CtisLeadToError
    VerdictIsCorrect
