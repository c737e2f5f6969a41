SPECIFICATION SurvivalSpec
CONSTANTS
    Items = {1, 2}
    MaxStack = 2
    Main = {0}
    Hotbar = {1, 2}
    Offhand = 3
    Grid = {}
    Food <- MCFood
    BiggestMeal = 2
    Parts = 2
    Gifts <- MCGifts
    MaxFood = 3
    RegenFood = 2
    MaxHealth = 3
    StarveHealth = 1
    SlowTimer = 3
    FastTimer = 1
    Starts <- MCStarts
PROPERTIES
    LevelsStayInRange
    ItemsAreConserved
    NoItemIsMade
CHECK_DEADLOCK FALSE
