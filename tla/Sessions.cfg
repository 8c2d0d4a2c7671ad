SPECIFICATION Spec
CONSTANTS
    r1 = r1
    r2 = r2
    q1 = q1
    q2 = q2
    Runtimes <- MCRuntimes
    Main <- MCMain
    Paths <- MCPaths
    Slots <- MCSlots
    MaxSessions = 2
    MaxSteps <- MCSteps
SYMMETRY MCSymmetry
INVARIANTS
    TypeOK
    HealthSettles
    StoreCatchesUp
    ConnectedPill
    MarkerMeansSubscribed
    NoLeak
