----------------------------- MODULE CheckpointMC -----------------------------
(* Instance of Checkpoint for TLC: two ranks and four equal time steps.    *)
EXTENDS Checkpoint

CONSTANTS r1, r2

Ranks == {r1, r2}
Uniform == <<1, 1, 1, 1>>
=============================================================================
