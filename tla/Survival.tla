------------------------------ MODULE Survival ------------------------------
(***************************************************************************)
(* What a player does with its items and its body: the handlers of Player  *)
(* for the inventory, digging, placing, eating and fighting, which run in  *)
(* the thread of its client, and _foodTick(), which the thread of the      *)
(* dimension runs every tick.  No lock keeps the two apart: _eat() and     *)
(* _foodTick() go by sections, and each section works on levels loaded     *)
(* when the one before it ended, or loaded again.                          *)
(*                                                                         *)
(* The float levels are whole numbers of small units: saturation in parts  *)
(* of a point (fifths in the game), and health in sixths of those, since   *)
(* regeneration adds a sixth of the saturation; rounding is left out.  The *)
(* small exhaustions of a fight or of digging (0.1, 0.005) may or may not  *)
(* carry into the next whole point.                                        *)
(***************************************************************************)
EXTENDS Inventory

CONSTANTS
    Food,             \* food item -> [value, saturation]
    BiggestMeal,      \* the largest value of a food: 10
    Parts,            \* of a point of saturation
    Gifts,            \* slots that a creative mode packet may hold
    MaxFood,          \* MAX_FOOD_LEVEL: 20
    RegenFood,        \* MIN_FOOD_LEVEL_FOR_REGENERATION: 18
    MaxHealth,        \* in points: 20
    StarveHealth,     \* starving stops there: 10
    SlowTimer,        \* 80 ticks
    FastTimer,        \* 10 ticks
    Starts            \* what the player starts with and how many packets it sends

ASSUME SurvivalAssumption ==
    /\ DOMAIN Food \subseteq Items
    /\ RegenFood \in 1 .. MaxFood /\ StarveHealth \in 0 .. MaxHealth
    /\ FastTimer \in 0 .. SlowTimer
    /\ MaxFood \in Nat /\ MaxHealth \in Nat /\ SlowTimer \in Nat \ {0}
    /\ Parts \in Nat \ {0} /\ Gifts \subseteq Slot

\* A meal feeds, and a player starts with slots and with levels in range.
ASSUME LevelsAssumption ==
    /\ BiggestMeal \in Nat \ {0}
    /\ \A id \in DOMAIN Food : Food[id].value \in 1 .. BiggestMeal /\ Food[id].saturation \in Nat
    /\ \A s \in Starts : /\ s.slots \in [Slots -> Slot]
                         /\ s.food \in 0 .. MaxFood /\ s.saturation \in 0 .. Parts * s.food
                         /\ s.health \in 0 .. MaxHealth

VARIABLES
    gamemode,
    heldItem,         \* _heldItem: a slot of the hotbar, or NoSlot
    block,            \* the item id of the block the player works on, 0 for air
    food,             \* _foodLevel
    saturation,       \* _foodSaturationLevel, in parts
    exhaustion,       \* _foodExhaustionLevel, whole points
    health,           \* _health, in sixths of parts
    timer,            \* _foodTickTimer
    meal,             \* _eat() in the client's thread: its next section, the food and the levels it has loaded
    ticking,          \* _foodTick() in the dimension's: its next section, needUpdate and the levels it has loaded
    clicks            \* bound on the packets still to come

body == <<food, saturation, exhaustion, health, timer>>
survivalVars == <<inventory, gamemode, heldItem, block, body, meal, ticking, clicks>>

Gamemodes == {"Survival", "Creative", "Adventure", "Spectator"}
Point == 6 * Parts
Hungry == gamemode \in {"Survival", "Adventure"}

\* hotbar().at() throws for an index that is no slot of it, which nobody catches: no action stands for it.
NoSlot == -2
Holds == heldItem \in Hotbar
Held == slots[heldItem]

\* The levels as a thread finds them.
Levels == [food |-> food, saturation |-> saturation, health |-> health]
NoLevels == [food |-> 0, saturation |-> 0, health |-> 0]
NoMeal == [at |-> "none", of |-> 0, seen |-> NoLevels]
NoTick == [at |-> "none", changed |-> FALSE, seen |-> NoLevels]

SurvivalInit ==
    \E s \in Starts :
        /\ slots = s.slots /\ cursor = None /\ dragging = "Normal"
        /\ dropped = [i \in Items |-> 0]
        /\ gamemode = s.gamemode /\ heldItem = Min(Hotbar) /\ block = 0
        /\ food = s.food /\ saturation = s.saturation /\ exhaustion = 0
        /\ health = s.health * Point /\ timer = 0
        /\ meal = NoMeal /\ ticking = NoTick
        /\ clicks = s.clicks

\* Something is done to the player by others.
Event == clicks > 0 /\ clicks' = clicks - 1

\* A packet of the client is handled, by its thread.
Packet == meal.at = "none" /\ Event

-----------------------------------------------------------------------------
(* The inventory window                                                    *)

\* _onClickContainer() for window 0, mode by mode, and closeContainer().
ConservingClick ==
    \/ \E b \in {0, 1} : ClickOutside(b)
    \/ \E i \in Slots, b \in {0, 1} : Click(i, b) \/ DropButton(i, b)
    \/ \E i \in Places, j \in Hotbar \cup {Offhand} : Keys(i, j)
    \/ Close

StackingClick ==
    \/ \E i \in Slots : DoubleClick(i)
    \/ \E i \in Places : ShiftClick(i)

OtherClick ==
    \/ \E b \in {0, 1} : ClickCursor(b)
    \/ \E i \in Places : gamemode = "Creative" /\ MiddleClick(i)
    \/ \E index \in {Outside, Min(Slots)}, b \in {0, 1, 2, 4, 8}, n \in 1 .. 2 :
          \E updates \in [1 .. n -> Places] :
              /\ n = 1 \/ b = 2
              /\ Drag(index, b, gamemode = "Creative", updates)

OnClickContainer ==
    /\ Packet
    /\ ConservingClick \/ StackingClick \/ OtherClick
    /\ UNCHANGED <<gamemode, heldItem, block, body, meal, ticking>>

\* _onSetHeldItem(): the index is not checked.
OnSetHeldItem ==
    /\ Packet
    /\ heldItem' \in Hotbar \cup {NoSlot}
    /\ UNCHANGED <<inventory, gamemode, block, body, meal, ticking>>

\* _onSetCreativeModeSlot(): a slot or the cursor is what the client says, in any mode.
OnSetCreativeModeSlot ==
    /\ Packet
    /\ \E i \in Places, s \in Gifts :
          \/ i \in Slots /\ slots' = [slots EXCEPT ![i] = s] /\ UNCHANGED cursor
          \/ i = Carried /\ cursor' = s /\ UNCHANGED slots
    /\ UNCHANGED <<dragging, dropped, gamemode, heldItem, block, body, meal, ticking>>

-----------------------------------------------------------------------------
(* _onPlayerAction()                                                       *)

\* A tenth of a point or less: it may complete a whole one.
Exert == exhaustion' \in {exhaustion, exhaustion + 1}

\* StartedDigging: the block goes at once, in any mode.
StartDigging ==
    /\ Packet
    /\ block' = 0
    /\ UNCHANGED <<inventory, gamemode, heldItem, body, meal, ticking>>

\* FinishedDigging: a plugin may cancel it, else the block goes and an item of
\* a fixed kind is dropped.
FinishDigging ==
    /\ Packet
    /\ \/ UNCHANGED <<block, dropped, exhaustion>>
       \/ /\ block' = 0
          /\ Exert
          /\ DropItem(Stack(Max(Items), 1))
    /\ UNCHANGED <<slots, cursor, dragging, gamemode, heldItem, food, saturation, health, timer, meal, ticking>>

\* DropItemStack and DropItem
DropHeld ==
    /\ \/ DropItem(Held) /\ slots' = [slots EXCEPT ![heldItem] = None]
       \/ /\ Held.present
          /\ DropItem(Stack(Held.id, 1))
          /\ slots' = [slots EXCEPT ![heldItem] = TakeOne(@)]
    /\ UNCHANGED <<cursor, dragging>>

\* SwapItemInHand
SwapHands ==
    LET r == Swap(slots[Offhand], Held)
    IN  /\ slots' = [slots EXCEPT ![Offhand] = r[1], ![heldItem] = r[2]]
        /\ UNCHANGED <<cursor, dragging, dropped>>

HandAction ==
    /\ Packet /\ Holds
    /\ DropHeld \/ SwapHands
    /\ UNCHANGED <<gamemode, heldItem, block, body, meal, ticking>>

\* _onUseItemOn(): the held item is placed, and outside of creative mode one is
\* taken, whether there was one or not.
OnUseItemOn ==
    /\ Packet /\ Holds
    /\ block' = IF Held.present THEN Held.id ELSE block
    /\ slots' = IF gamemode = "Creative" THEN slots ELSE [slots EXCEPT ![heldItem] = TakeOne(@)]
    /\ UNCHANGED <<cursor, dragging, dropped, gamemode, heldItem, body, meal, ticking>>

\* _onInteract() with type Attack: another player or a mob is hit.
OnAttack ==
    /\ Packet
    /\ Exert
    /\ UNCHANGED <<inventory, gamemode, heldItem, block, food, saturation, health, timer, meal, ticking>>

\* LivingEntity::attack() of this player, in any mode and in the thread of who
\* hits it; a plugin may cancel it.  Nothing happens at zero: the bound here
\* only keeps the health from falling for ever.
Attacked ==
    /\ Event
    /\ health > -Point
    /\ health' = health - Point
    /\ UNCHANGED <<inventory, gamemode, heldItem, block, food, saturation, exhaustion, timer, meal, ticking>>

\* The gamemode command: setGamemode(), in the thread of who gives it.
SetGamemode ==
    /\ Event
    /\ gamemode' \in Gamemodes \ {gamemode}
    /\ UNCHANGED <<inventory, heldItem, block, body, meal, ticking>>

-----------------------------------------------------------------------------
(* ShootArrowOrFinishEating: _eat()                                        *)

\* The conditions on which a meal begins.
Eat ==
    /\ Packet /\ Holds
    /\ Hungry /\ Held.present /\ Held.id \in DOMAIN Food /\ food < MaxFood
    /\ meal' = [at |-> "food", of |-> Held.id, seen |-> Levels]
    /\ UNCHANGED <<inventory, gamemode, heldItem, block, body, ticking>>

\* The food level rises, beyond its maximum for now.
EatFood ==
    /\ meal.at = "food"
    /\ \E f \in {meal.seen.food, food} : food' = f + Food[meal.of].value
    /\ UNCHANGED <<inventory, gamemode, heldItem, block, saturation, exhaustion, health, timer, ticking, clicks>>
    /\ meal' = [meal EXCEPT !.at = "saturation", !.seen = Levels']

EatSaturation ==
    /\ meal.at = "saturation"
    /\ \E s \in {meal.seen.saturation, saturation} : saturation' = s + Food[meal.of].saturation
    /\ UNCHANGED <<inventory, gamemode, heldItem, block, food, exhaustion, health, timer, ticking, clicks>>
    /\ meal' = [meal EXCEPT !.at = "limit food", !.seen = Levels']

\* The food level is set to its maximum when it is above it.
LimitFood ==
    /\ meal.at = "limit food"
    /\ food' = IF meal.seen.food > MaxFood THEN MaxFood ELSE food
    /\ UNCHANGED <<inventory, gamemode, heldItem, block, saturation, exhaustion, health, timer, ticking, clicks>>
    /\ meal' = [meal EXCEPT !.at = "limit saturation", !.seen = Levels']

\* Variant: the saturation is not limited by the food level.
LimitSaturationNever ==
    /\ meal.at = "limit saturation"
    /\ meal' = NoMeal
    /\ slots' = [slots EXCEPT ![heldItem].count = Int8(@ - 1)]
    /\ UNCHANGED <<cursor, dragging, dropped, gamemode, heldItem, block, body, ticking, clicks>>

\* The saturation is set to the food level when it is above it, and one item is
\* gone; the slot is not reset at zero.
LimitSaturation ==
    /\ meal.at = "limit saturation"
    /\ IF meal.seen.saturation > Parts * meal.seen.food
       THEN \E f \in {meal.seen.food, food} : saturation' = Parts * f
       ELSE UNCHANGED saturation
    /\ meal' = NoMeal
    /\ slots' = [slots EXCEPT ![heldItem].count = Int8(@ - 1)]
    /\ UNCHANGED <<cursor, dragging, dropped, gamemode, heldItem, block, food, exhaustion, health, timer, ticking, clicks>>

EatStep == EatFood \/ EatSaturation \/ LimitFood \/ LimitSaturation

-----------------------------------------------------------------------------
(* _foodTick(), from Player::tick()                                        *)

FoodTick ==
    /\ ticking.at = "none" /\ Hungry
    /\ ticking' = [at |-> "starve", changed |-> FALSE, seen |-> Levels]
    /\ UNCHANGED <<inventory, gamemode, heldItem, block, body, meal, clicks>>

\* A player without food loses health.
Starve ==
    LET seen == ticking.seen
        starves == seen.food = 0 /\ seen.health > StarveHealth * Point /\ timer >= SlowTimer
    IN  /\ ticking.at = "starve"
        /\ \E h \in {seen.health, health} : health' = IF starves THEN h - Point ELSE health
        /\ timer' = IF starves THEN 0 ELSE timer
        /\ UNCHANGED <<inventory, gamemode, heldItem, block, food, saturation, exhaustion, meal, clicks>>
        /\ ticking' = [at |-> "regenerate", changed |-> starves, seen |-> Levels']

\* A player with enough food gains it, quickly or slowly.
Regenerate ==
    LET seen == ticking.seen
        mends == seen.food >= RegenFood /\ seen.health < MaxHealth * Point
        fast == mends /\ seen.saturation > 0 /\ seen.food = MaxFood /\ timer >= FastTimer
        slow == mends /\ ~fast /\ timer >= SlowTimer
        gain == IF fast /\ seen.saturation < Point THEN seen.saturation ELSE Point
    IN  /\ ticking.at = "regenerate"
        /\ \E h \in {seen.health, health} : health' = IF fast \/ slow THEN h + gain ELSE health
        /\ exhaustion' = exhaustion + (IF fast \/ slow THEN 6 ELSE 0)
        /\ timer' = IF fast \/ slow THEN 0 ELSE timer
        /\ UNCHANGED <<inventory, gamemode, heldItem, block, food, saturation, meal, clicks>>
        /\ ticking' = [at |-> "pay", changed |-> ticking.changed \/ fast \/ slow, seen |-> Levels']

\* The exhaustion is paid with saturation, or with food when there is none.
Pay ==
    LET seen == ticking.seen
        pays == ~ticking.changed /\ exhaustion >= 4
        burns == pays /\ seen.saturation > 0
        hungers == pays /\ seen.saturation <= 0 /\ seen.food > 0
    IN  /\ ticking.at = "pay"
        /\ exhaustion' = exhaustion - (IF pays THEN 4 ELSE 0)
        /\ \E s \in {seen.saturation, saturation} : saturation' = IF burns THEN s - Parts ELSE saturation
        /\ \E f \in {seen.food, food} : food' = IF hungers THEN f - 1 ELSE food
        /\ UNCHANGED <<inventory, gamemode, heldItem, block, health, timer, meal, clicks>>
        /\ ticking' = [at |-> "count", changed |-> ticking.changed \/ pays, seen |-> Levels']

\* The ticks until the next loss or gain are counted, when one is due.
CountTick ==
    LET seen == ticking.seen
        due == \/ seen.food >= RegenFood /\ seen.health < MaxHealth * Point
               \/ seen.food = 0 /\ seen.health > StarveHealth * Point
    IN  /\ ticking.at = "count"
        /\ timer' = IF seen.food \in 1 .. RegenFood - 1 THEN 0
                    ELSE IF ~ticking.changed /\ due THEN timer + 1 ELSE timer
        /\ ticking' = NoTick
        /\ UNCHANGED <<inventory, gamemode, heldItem, block, food, saturation, exhaustion, health, meal, clicks>>

TickStep == FoodTick \/ Starve \/ Regenerate \/ Pay \/ CountTick

SurvivalNext ==
    \/ OnClickContainer \/ OnSetHeldItem \/ OnSetCreativeModeSlot
    \/ StartDigging \/ FinishDigging \/ HandAction \/ OnUseItemOn
    \/ OnAttack \/ Attacked \/ SetGamemode
    \/ Eat \/ EatStep \/ TickStep

SurvivalSpec == SurvivalInit /\ [][SurvivalNext]_survivalVars

-----------------------------------------------------------------------------

SlotsInOrder == WellFormed(cursor) /\ \A i \in Slots : WellFormed(slots[i])

\* No item appears and none is lost: from slots in order, a click, a drop or a
\* change of hands only moves items between slots, cursor and world.  Shift and
\* double clicks are claimed only while no stack is full, for two full stacks
\* overflow the int8_t count.  Left drags, which lose what they could not place,
\* and clicks on the cursor, which is then swapped with itself, are left out.
ItemsAreConserved ==
    [][ /\ SlotsInOrder
        /\ \/ ConservingClick
           \/ Holds /\ (DropHeld \/ SwapHands)
           \/ StackingClick /\ \A i \in Slots : slots[i].count < MaxStack /\ cursor.count < MaxStack
        => \A id \in Items : Balance(id)' = Balance(id) ]_survivalVars

\* No click makes an item, not even those that ItemsAreConserved leaves out:
\* from slots in order, whatever the slots a client names, the order it names
\* them in and the stacks that overflow, there is afterwards as much of an item
\* as before, or less.  The middle click of creative mode is meant to make items.
NoItemIsMade ==
    [][ SlotsInOrder /\ gamemode # "Creative" /\ (OnClickContainer \/ HandAction \/ OnUseItemOn \/ LimitSaturation)
        => \A id \in Items : Balance(id)' <= Balance(id) ]_survivalVars

\* A meal and the payment for exhaustion in a tick are under way at once.
Overlap == meal.at # "none" /\ ticking.at = "pay"

\* The range of the levels in any case, and when no meal is under way.
InBounds == food \in 0 .. MaxFood + BiggestMeal - 1 /\ health < (MaxHealth + 1) * Point
AtRest == meal.at = "none" => food <= MaxFood /\ saturation <= Parts * food

\* The levels stay in range over any mix of meals, fights and ticks.  Whatever
\* the two threads do, food is not negative and less than a meal above its
\* maximum, and health less than a point above its own.  As long as no payment
\* for exhaustion overlaps with a meal, which no lock excludes, food is at most
\* its maximum after each meal and saturation at most the food; fights, losses
\* and gains of health in the middle of a meal do no harm.
LevelsStayInRange ==
    /\ []InBounds
    /\ []~Overlap => []AtRest
=============================================================================
