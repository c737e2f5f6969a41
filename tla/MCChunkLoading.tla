--------------------------- MODULE MCChunkLoading ---------------------------
(* A small instance of ChunkLoading for TLC: two players who meet in one   *)
(* chunk, which both may leave; one of them asks for a second chunk with   *)
(* it, an unsteady one, and may quit.                                      *)
EXTENDS ChunkLoading, TLC

CONSTANTS p1, p2, c1, c2

MCPlayers == {p1, p2}
MCChunks == {c1, c2}
MCWindows == p1 :> {{c1, c2}, {c2}} @@ p2 :> {{c1}, {}}
=============================================================================
