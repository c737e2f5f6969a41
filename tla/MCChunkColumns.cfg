SPECIFICATION Spec
CONSTANTS
    Width = 6
    Height = 12
    WaterLevel = 4
    LakeFloor = 1
    CaveTop = 3
    Positions = {p1, p2}
    Saved = {p1}
    Partial = {p2}
    Jobs <- MCJobs
    Workers = {w1, w2}
    Worlds <- MCWorlds
    Noises <- MCNoises
    None = None
INVARIANTS
    SavedTerrainIsKept
    ReadyIsFinished
    LeftReadyAndLit
PROPERTY
    EveryJobEnds
CHECK_DEADLOCK FALSE
