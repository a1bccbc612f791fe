------------------------------- MODULE MCSync -------------------------------
(* A folder "d" with a file "f" in it, and a file "g" beside it.           *)
EXTENDS Sync

dir(time) == [kind |-> "dir", time |-> time, size |-> 0]
file(time, size) == [kind |-> "file", time |-> time, size |-> size]

ThreeItems == {"d", "f", "g"}
FInD == [i \in ThreeItems |-> IF i = "f" THEN "d" ELSE "base"]

\* f was modified in the middle of a second.
OneSource == {[i \in ThreeItems |-> CASE i = "d" -> dir(4)
                                      [] i = "f" -> file(5, 1)
                                      [] i = "g" -> file(6, 1)]}

\* Nothing; copies that are older, of the same second, newer, of another size;
\* a file where the client has a folder, and the reverse.
Copies ==
  [d : {"absent"}, f : {None}, g : {None, dir(2)}]
    \cup [d : {"old"}, f : {None, file(4, 1), file(2, 1)}, g : {None, file(7, 2)}]
    \cup [d : {"new"}, f : {file(5, 1), file(3, 1)}, g : {file(7, 1)}]
    \cup [d : {"file"}, f : {None}, g : {file(6, 1)}]

\* The server's clock: behind what the client announces for d, and ahead of it.
TwoTimes == {3, 9}

Folder(d) == CASE d = "absent" -> None [] d = "old" -> dir(2)
               [] d = "new" -> dir(6) [] d = "file" -> file(2, 1)

SomeDestinations ==
  {[i \in ThreeItems |-> CASE i = "d" -> Folder(c.d) [] i = "f" -> c.f [] i = "g" -> c.g] :
     c \in Copies}

EveryFault == {"size", "send", "status", "create", "reply", "stream", "open", "transfer"}

===============================================================================
