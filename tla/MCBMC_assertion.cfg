SPECIFICATION Spec
CONSTANTS
    Latches = {1, 2}
    Inputs = {0, 1}
    Systems <- MCSystems
    Bounds <- MCBounds
    SolverRefreshRate = 2
INVARIANT
    ActivatorsMatchSteps
