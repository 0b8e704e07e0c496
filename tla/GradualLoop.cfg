SPECIFICATION FairSpec
CONSTANTS
    N = 9
    None = None
    State <- LoopState
    Join <- LoopJoin
    Program <- LoopProgram
    Edges <- LoopEdges
    Fails <- LoopFails
PROPERTY Terminates
