SPECIFICATION Spec
CONSTANTS
    None = None
    N = 30
    Programs <- ReturnBeside
INVARIANT OutcomesCovered
