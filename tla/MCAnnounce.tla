----------------------------- MODULE MCAnnounce -----------------------------
(* Instances of Announce for TLC. *)
EXTENDS Announce

CONSTANTS f1, f2

TwoFiles == {f1, f2}
\* Two ids, or the same one twice: then the second file collides with the
\* first unless that was answered.
OneOrTwoIds == {i \in [TwoFiles -> {1, 2}] : i[f1] = 1}
EveryFault == {"send", "connection"}
=============================================================================
