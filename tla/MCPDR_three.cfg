SPECIFICATION Spec
CONSTANTS
    Latches = {1, 2, 3}
    Inputs = {0, 1}
    Systems <- SystemsOfThree
    SolverRefreshRate = 4
INVARIANTS
    CtiAvoidsInit
    CounterexampleReplays
    CounterexampleStartsInInit
PROPERTIES
    FramesOnlyShrink
    BlockedIsExcluded
    ImplementsEngine
    Termination
