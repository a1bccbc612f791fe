----------------------------- MODULE MCSession -----------------------------
(* Instances of Session for TLC. *)
EXTENDS Session

CONSTANTS server, c1, c2, none, empty, p, q

TwoClients == {c1, c2}
\* The same one; a client without it, or with another one; a server without.
SomePasswords ==
  {[e \in {server, c1, c2} |-> CASE e = server -> t[1] [] e = c1 -> t[2] [] e = c2 -> t[3]] :
     t \in {<<p, p, p>>, <<p, p, empty>>, <<p, q, p>>,
           <<empty, p, empty>>}}
ServerAndOne == {server, c1}
EveryFault == {"start", "configuration", "connection"}

\* Both kinds of salt at either end: with a leading zero and without.
SomeSalts ==
  [e \in {server, c1, c2} |-> IF e = c2 THEN <<1, 0>> ELSE <<0, 1>>]
=============================================================================
