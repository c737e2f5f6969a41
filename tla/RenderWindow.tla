---------------------------- MODULE RenderWindow ----------------------------
(***************************************************************************)
(* Which chunks Player::_updateRenderedChunks() unloads and loads when a   *)
(* player gets from one chunk to another: eight loops over rectangles,     *)
(* four of them unloading, four loading, whose bounds depend on the signs  *)
(* of the two displacements.  The state is the chunk the player is in and  *)
(* the chunks it holds (the keys of Player::_chunks); that a requested     *)
(* chunk takes its time to arrive is the matter of ChunkLoading.           *)
(***************************************************************************)
EXTENDS Integers

CONSTANTS
    RenderDistance,
    Xs, Zs            \* coordinates of the chunks a player can get to

ASSUME RenderDistanceAssumption == RenderDistance \in Nat
ASSUME CoordinateAssumption == Xs \subseteq Int /\ Zs \subseteq Int

VARIABLES
    pos,              \* the chunk the player is in
    held              \* the keys of _chunks

windowVars == <<pos, held>>

SmallerOf(a, b) == IF a < b THEN a ELSE b
LargerOf(a, b) == IF a > b THEN a ELSE b

Rectangle(x1, x2, z1, z2) == (x1 .. x2) \X (z1 .. z2)

\* The chunks in view of a player in chunk p.
Window(p) ==
    Rectangle(p[1] - RenderDistance, p[1] + RenderDistance, p[2] - RenderDistance, p[2] + RenderDistance)

\* Variant: only the first loop, and it ends one column late.
UnloadedFromEdge(old, new) ==
    LET r == RenderDistance IN
    Rectangle(old[1] - r, SmallerOf(new[1] - r, old[1] + r), old[2] - r, old[2] + r)

\* The four loops over "Old chunks".
Unloaded(old, new) ==
    LET r == RenderDistance
        dx == new[1] - old[1]
    IN  Rectangle(old[1] - r, SmallerOf(new[1] - r, old[1] + r + 1) - 1, old[2] - r, old[2] + r)
        \cup Rectangle(old[1] - r + dx, old[1] + r, old[2] - r, SmallerOf(new[2] - r, old[2] + r + 1) - 1)
        \cup Rectangle(LargerOf(new[1] + r + 1, old[1] - r), old[1] + r, old[2] - r, old[2] + r)
        \cup Rectangle(old[1] - r, old[1] + r + dx, LargerOf(new[2] + r + 1, old[2] - r), old[2] + r)

\* Variant: the loops of the negative changes are missing.
LoadedPositive(old, new) ==
    LET r == RenderDistance IN
    Rectangle(LargerOf(old[1] + r + 1, new[1] - r), new[1] + r, new[2] - r, new[2] + r)
    \cup Rectangle(new[1] - r, old[1] + r, LargerOf(old[2] + r + 1, new[2] - r), new[2] + r)

\* The four loops over "New chunks".
Loaded(old, new) ==
    LET r == RenderDistance
        dx == new[1] - old[1]
    IN  Rectangle(LargerOf(old[1] + r + 1, new[1] - r), new[1] + r, new[2] - r, new[2] + r)
        \cup Rectangle(new[1] - r, new[1] + r - dx, LargerOf(old[2] + r + 1, new[2] - r), new[2] + r)
        \cup Rectangle(new[1] - r, SmallerOf(old[1] - r, new[1] + r + 1) - 1, new[2] - r, new[2] + r)
        \cup Rectangle(new[1] - r - dx, new[1] + r, new[2] - r, SmallerOf(old[2] - r, new[2] + r + 1) - 1)

\* The login sequence sends the window around chunk (0, 0).
WindowInit ==
    /\ pos = <<0, 0>>
    /\ held = Window(<<0, 0>>)

\* setPosition(): _updateRenderedChunks(old, new).
SetPosition(new) ==
    /\ new # pos
    /\ pos' = new
    /\ held' = (held \ Unloaded(pos, new)) \cup Loaded(pos, new)

WindowNext == \E new \in Xs \X Zs : SetPosition(new)

WindowSpec == WindowInit /\ [][WindowNext]_windowVars

-----------------------------------------------------------------------------
(* Properties                                                              *)

\* After any moves, diagonal ones and jumps further than the window included,
\* every chunk in view has been loaded and not unloaded since.
ViewIsHeld == Window(pos) \subseteq held

\* A move touches no chunk that is in view before and after it, and unloads
\* every chunk that leaves the view.
StepUnloadsOnlyLeaving ==
    /\ Unloaded(pos, pos') \cap Window(pos') = {}
    /\ Loaded(pos, pos') \cap Window(pos) = {}
    /\ held' \cap (Window(pos) \ Window(pos')) = {}

MovesAreMinimal == [][StepUnloadsOnlyLeaving]_windowVars
=============================================================================
