SPECIFICATION Spec
CONSTANTS
    Latches = {1, 2}
    Inputs <- MCInputs
    Systems = {}
    Invocations <- MCInvocations
    Paths <- MCPaths
    Numerals <- MCNumerals
    MaxInt = 100
    MaxRows = 4
INVARIANTS
    TypeOK
    ExitIsDeserved
    NothingIsMissed
    EncodingIsExact
    WitnessIsTrue
    BackwardOkIsTrue
PROPERTIES
    Termination
