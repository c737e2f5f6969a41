SPECIFICATION Spec
CONSTANTS
    w1 = w1
    w2 = w2
    c1 = c1
    c2 = c2
    Main = Main
    Workers <- MCWorkers
    Callers <- MCCallers
    NbSpawn = 2
    MaxJobs = 5
INVARIANTS
    NoStrandedJob
    StopIsQuiescent
    OneOwner
PROPERTIES
    EveryJobLeaves
    StopEnds
    KeepsBoard
