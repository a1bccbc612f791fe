---------------------------- MODULE MCFileReceive ----------------------------
(* Instances of FileReceive for TLC. *)
EXTENDS FileReceive, TLC

CONSTANTS w1, w2

TwoWorkers == {w1, w2}
NoFaults == {}
EveryFault == AllFaults

\* Threads of IoPool are interchangeable (safety runs only).
Symmetry == Permutations(TwoWorkers)
==============================================================================
