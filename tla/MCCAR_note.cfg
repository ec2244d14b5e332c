SPECIFICATION Spec
CONSTANTS
    Latches = {1, 2, 3}
    Inputs = {0, 1}
    Systems <- CountersToSix
    Configurations <- DefaultForward
    SharedGates <- NoSharedGates
    SolverRefreshRate = 3
INVARIANT
    ObligationsAvoidInit
