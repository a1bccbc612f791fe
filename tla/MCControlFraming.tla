--------------------------- MODULE MCControlFraming ---------------------------
(* Instances of ControlFraming for TLC. *)
EXTENDS ControlFraming

\* A one-byte body, one the size of a size and a longer one: buffers end
\* before, within and after each of them.
FourMessages == <<1, 4, 6, 2>>
ThreeMessages == <<1, 3, 2>>

===============================================================================
