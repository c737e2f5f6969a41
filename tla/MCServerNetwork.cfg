SPECIFICATION Spec
CONSTANTS
    c1 = c1
    c2 = c2
    None = None
    Clients <- MCClients
    Scenarios <- MCScenarios
    MaxAsks = 1
    MaxPushes = 1
INVARIANTS
    JoinedBeforeErased
PROPERTIES
    InOrder
    OutputFlows
    OnlyPeersDelayStop
