SPECIFICATION Spec
CONSTANTS
    VarCount = 3
    StateVars = {1, 2}
    Questions <- BackwardQuestions
INVARIANT
    NegationIsExact
