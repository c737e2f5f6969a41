SPECIFICATION Spec
CONSTANTS
    TickRate = 2
    MaxTicks = 6
INVARIANTS
    IdleBeforeKick
