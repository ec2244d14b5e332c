SPECIFICATION Spec
CONSTANTS
    Latches = {1}
    Inputs = {0, 1}
    Systems <- LoadingSystems
    Configurations <- DefaultBackward
    SharedGates <- NoSharedGates
    SolverRefreshRate = 4
INVARIANT
    VerdictIsCorrect
