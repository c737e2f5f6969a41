SPECIFICATION LifeSpec
CONSTANTS
    TickRate = 2
    MaxTicks = 6
    RenderDistance = 1
    Xs = {0, 1, 4}
    Zs = {0, 1, 3}
INVARIANTS
    NeverWrong
    PatienceKept
    ViewIsHeld
PROPERTIES
    SilenceIsNoticed
    MovesAreMinimal
