----------------------------- MODULE MCFindFiles -----------------------------
(* Instances of FindFiles for TLC. *)
EXTENDS FindFiles

\* Entries are numbered so that a folder comes before what is in it.
FourEntries == 1..4
Zero == 0

\* The trees of four entries in which a folder comes before what is in it and
\* the last entry may be one that is not sent.
TreesOfFour ==
  {t \in [parent : [FourEntries -> 0..3], kind : [FourEntries -> Kinds]] :
     /\ \A e \in FourEntries :
          /\ t.parent[e] < e
          /\ t.parent[e] # 0 => t.kind[t.parent[e]] = "dir"
          /\ e # 4 => t.kind[e] \in {"dir", "file"}
     /\ \A d, e \in FourEntries : d < e => t.parent[d] <= t.parent[e]}

BothFunctions == {"FindFiles", "FindFilesParallel"}
EveryFault == {"root", "open", "size"}
==============================================================================
