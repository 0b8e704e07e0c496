SPECIFICATION FairSpec
CONSTANTS
    None = None
    Unit <- MCUnit
    Method <- MCMethod
    Body <- MCBody
    Key <- MCKey
    Type <- MCType
    Never <- NeverT
    Any <- AnyT
    Nil <- NilT
    Join <- MCJoin
    NonNil <- MCNonNil
    Program <- MutualProgram
PROPERTY Terminates
