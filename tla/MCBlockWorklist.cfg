SPECIFICATION FairSpec
CONSTANTS
    N = 3
    None = None
    State <- MCState
    Join <- MCJoin
    Program <- MCProgram
    Edges <- MCEdges
    Fails <- MCFails
INVARIANTS TypeOK FlagsMatchHeap Settled StableResult LeastResult
PROPERTIES RefinesChaotic Terminates
