------------------------------ MODULE Terrain -------------------------------
(***************************************************************************)
(* What the generation stages of ChunkColumn write into a column.  A       *)
(* terrain is a function from the cells of a column to kinds of blocks.    *)
(* The noise library is external: a noise record gives, for one column,    *)
(* the surface level of each (x, z), the cells where the density makes a   *)
(* cave, the places where the tree noise is high enough, and the two tree  *)
(* sizes the generator answers (oak.cpp asks with positions relative to    *)
(* the column when it looks for room and with world positions when it      *)
(* plants, so the two may differ).                                         *)
(***************************************************************************)
EXTENDS Integers, Sequences, FiniteSetsExt

CONSTANTS
    Width,            \* SECTION_WIDTH
    Height,           \* CHUNK_HEIGHT_MAX - CHUNK_HEIGHT_MIN; 0 is the lowest layer
    WaterLevel,       \* 86
    LakeFloor,        \* lakes stay above it: 0
    CaveTop           \* heightOffset - 10: caves above it are repaired

ASSUME TerrainAssumption ==
    /\ Width \in Nat \ {0} /\ Height \in Nat /\ CaveTop \in Int
    /\ LakeFloor \in 0 .. WaterLevel /\ WaterLevel \in 0 .. Height - 2

Side == 0 .. Width - 1
Layers == 0 .. Height - 1
Cells == Side \X Layers \X Side
Blocks == {"Air", "Bedrock", "Stone", "Dirt", "Grass", "Sand", "Water", "Log", "Leaves", "Debug"}

\* generator.getBlock(): stone below the surface, except where there is a cave.
GetBlock(noise, c) ==
    IF /\ c[2] < noise.surface[<<c[1], c[3]>>]
       /\ c \notin noise.caves \/ c[2] > CaveTop
    THEN "Stone" ELSE "Air"

\* _generateRawGeneration(): every block is replaced, then the bedrock.
RawGeneration(noise) ==
    [c \in Cells |-> IF c[2] = 0 THEN "Bedrock" ELSE GetBlock(noise, c)]

\* The highest layer of `among` where the pillar (x, z) has one of the blocks.
Highest(t, x, z, among, blocks) ==
    LET found == {y \in among : t[<<x, y, z>>] \in blocks}
    IN  IF found = {} THEN -1 ELSE Max(found)

\* _generateLakes(): water from the water level down to the first stone.
Lakes(t) ==
    [c \in Cells |->
        IF /\ c[2] \in LakeFloor + 1 .. WaterLevel
           /\ c[2] > Highest(t, c[1], c[3], LakeFloor + 1 .. WaterLevel, {"Stone"})
        THEN "Water" ELSE t[c]]

\* _generateLocalModifications(): the highest stone becomes sand under water,
\* and grass on two layers of dirt otherwise.
LocalModifications(t) ==
    LET Scanned == 0 .. Height - 2
        Top(x, z) == Highest(t, x, z, Scanned, {"Stone"})
        Drowned(x, z) == Highest(t, x, z, Scanned, {"Water"}) > Top(x, z)
    IN  [c \in Cells |->
            LET top == Top(c[1], c[3])
            IN  CASE top = -1 \/ c[2] \notin top - 2 .. top -> t[c]
                  [] Drowned(c[1], c[3]) -> IF c[2] = top THEN "Sand" ELSE t[c]
                  [] OTHER -> IF c[2] = top THEN "Grass" ELSE "Dirt"]

-----------------------------------------------------------------------------
(* oak.cpp                                                                 *)

\* The order in which the pillars of a column are visited.
Pillars == [i \in 1 .. Width * Width |-> <<(i - 1) % Width, (i - 1) \div Width>>]

\* getPosForTreeGeneration(): above the highest block of a pillar, if that is
\* grass or dirt and the noise lets a tree grow.
TreePosition(t, noise, x, z) ==
    LET top == Highest(t, x, z, 0 .. Height - 5, Blocks \ {"Air"})
    IN  IF <<x, z>> \in noise.trees /\ top # -1 /\ t[<<x, top, z>>] \in {"Grass", "Dirt"}
        THEN <<x, top + 1, z>> ELSE <<>>

\* getTree(): the block of a tree of a size at an offset from its foot; where
\* the list names an offset twice the trunk is kept.
TreeBlock(size, x, y, z) ==
    CASE x = 0 /\ z = 0 /\ y \in 0 .. size -> "Log"
      [] y \in size - 2 .. size - 1 /\ y >= 0 /\ x \in -2 .. 2 /\ z \in -2 .. 2 -> "Leaves"
      [] y \in size .. size + 1 /\ x \in -1 .. 1 /\ z \in -1 .. 1 /\ (x = 0 \/ z = 0) -> "Leaves"
      [] OTHER -> "none"

\* generateTree() for the trees at some feet: the block a cell ends up with.  A
\* log is never replaced and replaces anything, so the order does not matter.
WithTrees(t, size, feet, c) ==
    LET planted == {TreeBlock(size, c[1] - f[1], c[2] - f[2], c[3] - f[3]) : f \in feet}
    IN  CASE t[c] = "Log" \/ "Log" \in planted -> "Log"
          [] t[c] # "Log" /\ planted \subseteq {"none"} -> t[c]
          [] OTHER -> "Leaves"

\* filterTreeGrowSpace(): room for the trunk, no trunk near, and all the
\* leaves inside the column, given the trees planted before.
HasGrowSpace(t, noise, feet, pos) ==
    /\ pos[1] \in 2 .. Width - 3 /\ pos[3] \in 2 .. Width - 3
    /\ \A y \in 0 .. noise.room :
          /\ WithTrees(t, noise.size, feet, <<pos[1], pos[2] + y, pos[3]>>) = "Air"
          /\ \A x, z \in -2 .. 2 :
                WithTrees(t, noise.size, feet, <<pos[1] + x, pos[2] + y, pos[3] + z>>) # "Log"

\* The loop of _generateVegetalDecoration(): filter, plant the first, filter
\* again.  Blocks never become air again, so a position once filtered out stays
\* out, and one pass over the positions plants the same trees.
TreeFeet(t, noise) ==
    LET feet[i \in 0 .. Width * Width] ==
            IF i = 0 THEN {}
            ELSE LET before == feet[i - 1]
                     pos == TreePosition(t, noise, Pillars[i][1], Pillars[i][2])
                 IN  IF pos # <<>> /\ HasGrowSpace(t, noise, before, pos)
                     THEN before \cup {pos} ELSE before
    IN  feet[Width * Width]

\* _generateVegetalDecoration()
VegetalDecoration(t, noise) ==
    LET feet == TreeFeet(t, noise)
    IN  [c \in Cells |-> WithTrees(t, noise.size, feet, c)]

-----------------------------------------------------------------------------
(* The flat world types                                                    *)

Layer(y) == CASE y = 0 -> "Bedrock" [] y \in 1 .. 2 -> "Dirt" [] y = 3 -> "Grass"

\* _generateFlat()
Flat(t) == [c \in Cells |-> IF c[2] <= 3 THEN Layer(c[2]) ELSE t[c]]

\* _generateFlatCubicServer(): the layers and one tree in the middle.
FlatCubicServer(t) ==
    LET mid == Width \div 2
        dx(c) == c[1] - mid
        dz(c) == c[3] - mid
    IN  [c \in Cells |->
            CASE c[2] <= 3 -> Layer(c[2])
              [] c[2] \in 4 .. 8 /\ dx(c) = 0 /\ dz(c) = 0 -> "Log"
              [] c[2] \in 7 .. 8 /\ dx(c) \in -2 .. 2 /\ dz(c) \in -2 .. 2 -> "Leaves"
              [] c[2] \in 9 .. 10 /\ dx(c) \in -1 .. 1 /\ dz(c) \in -1 .. 1 /\ (dx(c) = 0 \/ dz(c) = 0) -> "Leaves"
              [] OTHER -> t[c]]

\* _generateDebug(): one block in the middle of every section, numbered in turn.
Debug(t) == [c \in Cells |-> IF c[1] = 7 /\ c[2] % 16 = 7 /\ c[3] = 7 THEN "Debug" ELSE t[c]]

-----------------------------------------------------------------------------
(* What a finished column looks like, whatever the noise                   *)

\* The bottom is bedrock, no pillar ends in bare stone, lakes reach up to the
\* water level, and every trunk stands on the ground.
Finished(t) ==
    \A x, z \in Side :
        LET B(y) == t[<<x, y, z>>]
        IN  /\ B(0) = "Bedrock"
            /\ \A y \in Layers :
                  /\ B(y) = "Stone" => \E above \in y + 1 .. Height - 1 : B(above) # "Air"
                  /\ B(y) = "Water" => y <= WaterLevel /\ \A up \in y .. WaterLevel : B(up) = "Water"
                  /\ B(y) = "Log" => B(y - 1) \in {"Log", "Grass", "Dirt"}
=============================================================================
