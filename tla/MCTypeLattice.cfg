SPECIFICATION Spec
CONSTANTS
    Universe <- Regular
    MaxObservations = 3
    ClassGraph <- MCClassGraph
    ClassTests <- Tested
INVARIANTS JoinStable OrderSound CutSound RefineWithin TestSound ArmsAlive
