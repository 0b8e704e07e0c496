SPECIFICATION Spec
CONSTANTS
    Classes = {"Integer", "String"}
    Names = {"k", "l"}
    Longest = 2
    Sources <- MCSources
INVARIANTS EvidenceExact ErrorsAreReal AcceptedCallsFit PassedAliasHolds
CHECK_DEADLOCK FALSE
