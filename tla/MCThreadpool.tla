---------------------------- MODULE MCThreadpool -----------------------------
(* An instance of Threadpool for TLC. *)
EXTENDS Threadpool

CONSTANTS w1, w2, w3, c1, c2, i1, i2, i3

ThreeWorkers == {w1, w2, w3}
TwoCallers == {c1, c2}
ThreeItems == {i1, i2, i3}
==============================================================================
