------------------------------ MODULE MCFileSend ------------------------------
(* An instance of FileSend for TLC. *)
EXTENDS FileSend

CONSTANTS s1, s2

TwoStreams == {s1, s2}
EveryFault == {"open", "lookup", "send", "abort", "connection"}
===============================================================================
