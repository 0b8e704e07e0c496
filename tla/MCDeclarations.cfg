CONSTANTS
    Themes <- AllThemes
    Written <- Allowed
SPECIFICATION Spec
INVARIANTS DefinitionsOwned ContractPrecedence MethodsAnswer VisibilityKept ClassesAgree
CHECK_DEADLOCK FALSE
