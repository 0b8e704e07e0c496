SPECIFICATION Spec
CONSTANTS
    None = None
    N = 30
    Programs <- MCPrograms
INVARIANTS OutcomesCovered NothingInvented StatesComplete
