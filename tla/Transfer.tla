------------------------------ MODULE Transfer ------------------------------
(***************************************************************************)
(* What receiving a file promises to whoever looks at the destination: the *)
(* file that is there is replaced once or not at all, by the whole of what *)
(* was announced, and only if it is the one that was seen when the file    *)
(* was asked for.                                                          *)
(*                                                                         *)
(* The comparison and the replacement are two steps, and so is setting the *)
(* time: what somebody else puts at the destination between them is        *)
(* overwritten, or given the client's modification time.                   *)
(***************************************************************************)
EXTENDS Naturals

CONSTANTS
  NoFile,        \* nothing there
  LocalFiles,    \* what others may put there
  WrittenTime, FileTime

VARIABLES
  dest,          \* what is at the destination
  state,         \* how far the transfer is
  seen,          \* the time of the file that was there, or NoFile
  whole,         \* the client's file
  \* what the promise is not kept after
  astray, cut, blind

vars == <<dest, state, seen, whole, astray, cut, blind>>
excuses == <<astray, cut, blind>>

Init ==
  /\ dest \in {NoFile} \cup LocalFiles
  /\ state = "idle" /\ seen = NoFile
  /\ ~astray /\ ~cut /\ ~blind

\* The destination is looked at, before the file is asked for.
Look ==
  /\ state = "idle"
  /\ dest # NoFile
  /\ seen' = dest.mtime
  /\ UNCHANGED <<dest, state, whole, excuses>>

Ask ==
  /\ state = "idle"
  /\ state' = "under way"
  /\ UNCHANGED <<dest, seen, whole, excuses>>

\* The destination is as it was, or nobody could look.
Check ==
  /\ state = "under way"
  /\ seen = NoFile \/ dest = NoFile \/ dest.mtime = seen \/ blind'
  /\ state' = "checked"
  /\ UNCHANGED <<dest, seen, whole, astray, cut>>

Install ==
  /\ state = "checked"
  /\ dest' # NoFile /\ dest'.mtime = WrittenTime /\ dest'.by = "server"
  /\ dest'.data = whole \/ cut
  /\ state' = "installed"
  /\ UNCHANGED <<seen, whole, excuses>>

Stamp ==
  /\ state = "installed"
  /\ dest' = IF dest = NoFile THEN NoFile ELSE [dest EXCEPT !.mtime = FileTime]
  /\ state' = "over"
  /\ UNCHANGED <<seen, whole, excuses>>

End ==
  /\ state # "over"
  /\ state' = "over"
  /\ seen' \in {seen, NoFile}
  /\ UNCHANGED <<dest, whole, excuses>>

Edit ==
  /\ dest' \in {NoFile} \cup LocalFiles
  /\ UNCHANGED <<state, seen, whole, excuses>>

\* The file was cut short on its way to the disk.
Cut ==
  /\ cut'
  /\ UNCHANGED <<dest, state, seen, whole, astray, blind>>

\* Anything, once a worker has acted on the flag of a later receive.
Stray == astray'

Next ==
  \/ Look \/ Ask \/ Check \/ Install \/ Stamp \/ End
  \/ Edit \/ Cut \/ Stray

Spec == Init /\ [][Next]_vars

=============================================================================
