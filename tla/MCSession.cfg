SPECIFICATION Spec
CONSTANTS
    p1 = p1
    p2 = p2
    Players = {p1, p2}
    Nobody = Nobody
    Console = Console
    Absent = Absent
    Malformed = Malformed
    FirstOperators = {p1}
    FirstList = {p1, p2}
    Lists = {{p1}}
    Files <- MCFiles
    GivenValues <- MCGiven
    Invokers = {p1}
    MaxActs = 2
    MaxPermits = 1
INVARIANTS
    EveryoneIsSeen
    NoGhosts
PROPERTY ShutdownEnds
