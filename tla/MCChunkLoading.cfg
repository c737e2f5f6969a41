SPECIFICATION Spec
CONSTANTS
    p1 = p1
    p2 = p2
    c1 = c1
    c2 = c2
    Players <- MCPlayers
    Chunks <- MCChunks
    Windows <- MCWindows
    Quitters = {p1}
    Spawned = {}
    Unsteady = {c2}
    None = None
    NbWorkers = 2
    MaxMoves = 2
    MaxJobs = 3
INVARIANTS
    RequestHasJob
    QueuedJobIsWanted
    RequestsGenerateOnce
    NoLostRequest
    GoneIsForgotten
PROPERTIES
    UsesBoard
    EveryChunkArrives
