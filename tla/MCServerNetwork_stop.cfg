SPECIFICATION HelpfulSpec
CHECK_DEADLOCK FALSE
CONSTANTS
    c1 = c1
    c2 = c2
    None = None
    Clients <- MCClients
    Scenarios <- MCStopWithGuest
    MaxAsks = 1
    MaxPushes = 1
PROPERTIES
    StopEnds
