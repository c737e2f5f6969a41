-------------------------- MODULE MCGenerationPool --------------------------
(* A small instance of GenerationPool for TLC.                             *)
EXTENDS GenerationPool, TLC

CONSTANTS w1, w2, c1, c2

MCWorkers == {w1, w2}
MCCallers == {c1, c2}

=============================================================================
