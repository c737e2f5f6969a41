--------------------------- MODULE MCChunkColumns ---------------------------
(* A region with one saved and one unfinished column; two jobs for a       *)
(* position that must be generated.                                        *)
EXTENDS ChunkColumns

MCJobs == [p \in Positions |-> IF p \in Partial THEN 2 ELSE 1]

\* A slope from a shore to a meadow, a cave under it.
Slope == [s \in Side \X Side |-> IF s[1] <= 1 THEN 3 ELSE IF s[2] <= 3 THEN 5 ELSE 6]
Noise(room, size) ==
    [surface |-> Slope, caves |-> {<<x, y, 2>> : x \in 1 .. 3, y \in 2 .. 3},
     trees |-> Side \X Side, room |-> room, size |-> size]
MCNoises == {Noise(2, 3), Noise(3, 1)}

MCWorlds == {[type |-> "default", generation |-> TRUE],
             [type |-> "superflat", generation |-> TRUE],
             [type |-> "superflat_cubic_server", generation |-> TRUE],
             [type |-> "debug", generation |-> TRUE],
             [type |-> "amplified", generation |-> TRUE],
             [type |-> "default", generation |-> FALSE]}

\* What ChunkColumnsProofs reduces ReadyIsFinished to.
ASSUME StagesFinishAssumption == StagesFinish
=============================================================================
