----------------------------- MODULE BlockGrid ------------------------------
(***************************************************************************)
(* What a section of a chunk promises: it holds one value per position,     *)
(* zero at first; setting a position changes that position and no other     *)
(* that holds a value, and is refused only for want of room; a section that *)
(* a region file saved is read as it was written, before anything else      *)
(* happens to it.  Of a file that is not readable nothing is promised but   *)
(* that writes are still kept apart.                                        *)
(***************************************************************************)
EXTENDS Integers
CONSTANTS
  Positions, Ids,
  Nothing,        \* of a position that a file left without a value
  Read,           \* the value of saved once there is nothing left to read
  Unreadable      \* the value of saved that is not read as it was written
VARIABLES
  grid,
  saved,          \* the grid in the region file, or Unreadable or Read
  room            \* there is room to write

vars == <<grid, saved>>

Init == grid = [p \in Positions |-> 0] /\ saved \in [Positions -> Int] \cup {Read, Unreadable}

Keeps(P) == DOMAIN grid' = Positions /\ \A p \in P : grid[p] # Nothing => grid'[p] = grid[p]

Set(p, id) == Keeps(Positions \ {p}) /\ grid'[p] = id /\ saved' = Read

Refuse == ~room /\ Keeps(Positions) /\ saved' = Read

Load ==
  /\ saved # Read
  /\ IF saved = Unreadable THEN DOMAIN grid' = Positions ELSE grid' = saved
  /\ saved' = Read

Next == Load \/ Refuse \/ \E p \in Positions, id \in Ids : Set(p, id)

Spec == Init /\ [][Next]_vars
=============================================================================
