SPECIFICATION Spec
CONSTANTS
    Absent = Absent
    Name <- Names
    Key = {"k", "j"}
    Type <- Types
    AnyType <- MCAny
    NeverType <- MCNever
    NilType <- MCNil
    BoolType <- Bool
    Literals <- MCLiterals
    Join <- MCJoin
    Meet <- MCMeet
    Without <- MCWithout
    TruthyPart <- MCTruthyPart
    FalsyPart <- MCFalsyPart
    ArrayOf <- ArrayType
    ElementOf <- MCElementOf
    Ivar <- Ivars
    IvarType <- Maybe
    Scalar <- Scalars
    Element <- Elements
    Class <- Classes
    Describes <- MCDescribes
    IsAssignable <- MCIsAssignable
    MeetPredicate <- MCMeetPredicate
    WithoutPredicate <- MCWithoutPredicate
    CaseReachability <- MCCaseReachability
    HashOf <- MCHashOf
    HashValueOf <- MCHashValueOf
    SymbolType <- MCSymbol
    LiteralType <- TypeOf
    Families <- MCFamilies
    Excluded = {"alias", "placeholder", "optional", "refinement", "operand", "respond"}
    MaxSteps <- MCMaxSteps
INVARIANTS EnvironmentDescribes FactsHold AliasesHold ShapesHold BranchAlive
