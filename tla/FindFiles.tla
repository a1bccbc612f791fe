------------------------------ MODULE FindFiles ------------------------------
(***************************************************************************)
(* The scan of the client's folder, files.cpp: FindFiles, which reads one  *)
(* folder after the other, and FindFilesParallel, which reads all folders  *)
(* of one depth at once, each in a thread of its own.  Both number what    *)
(* they find with the counter FileId and give it to a callback.            *)
(*                                                                         *)
(* An entry is a path: links are followed, so what a link leads to is an   *)
(* entry below the link.  A call that fails, fails for any reason; what    *)
(* is done about it is modelled, the reason is not.                        *)
(***************************************************************************)
EXTENDS Naturals, Sequences, FiniteSets, Functions

CONSTANTS
  Entries,      \* the paths below the folder
  Root,         \* the folder
  Trees,        \* the trees there may be: what an entry is in, and what it is
  Functions,    \* FindFiles, FindFilesParallel: those that are called
  Faults,       \* the calls that may fail
  MaxFailed     \* bound: how many calls fail unnoticed

Folders == Entries \cup {Root}
Kinds == {"dir", "file", "other", "broken"}   \* status() fails on a broken one

ASSUME FindFilesAssumption ==
  /\ IsFiniteSet(Entries) /\ Root \notin Entries
  /\ Trees \subseteq [parent : [Entries -> Folders], kind : [Entries -> Kinds]]
  /\ \A t \in Trees : \A e \in Entries :
       t.parent[e] # Root => t.kind[t.parent[e]] = "dir"
  /\ Functions \subseteq {"FindFiles", "FindFilesParallel"}
  /\ Faults \subseteq {"root", "open", "size"} /\ MaxFailed \in Nat

VARIABLES
  tree,             \* what is in the folder
  function,         \* the function that was called ...
  stem,             \* ... and whether the path it was given ends in a name
  at,               \* where it is
  Result,           \* what it returns
  UnexploredDirs,
  ParallelResults,  \* the futures that FindFilesParallel has not got yet
  pc,               \* where each call of ProcessFolder is
  todo,             \* the items its directory_iterator has not come to
  item,             \* its DirItem
  id,               \* FileId as ++FileId read it
  Directories,      \* the folders it has found
  Error,            \* whether its Error is set, which it looks at for each item
  FileId,
  announced,        \* the calls of the callback
  failed            \* history: the calls that failed and changed no result

callVars == <<tree, function, stem>>
dirVars == <<UnexploredDirs, ParallelResults>>
folderVars == <<pc, todo, item, id, Directories, Error>>
vars == <<callVars, at, Result, dirVars, folderVars, FileId, announced, failed>>

MayFail(call) == call \in Faults /\ Cardinality(failed) < MaxFailed
Children(d) == {e \in Entries : tree.parent[e] = d}
Bound == Cardinality(Folders)

Init ==
  /\ tree \in Trees
  /\ function \in Functions
  /\ stem \in BOOLEAN
  /\ at = "start" /\ Result = TRUE /\ UnexploredDirs = << >> /\ ParallelResults = << >>
  /\ pc = [d \in Folders |-> "none"]
  /\ todo = [d \in Folders |-> {}]
  /\ item = [d \in Folders |-> Root]
  /\ id = [d \in Folders |-> 0]
  /\ Directories = [d \in Folders |-> << >>]
  /\ Error = [d \in Folders |-> FALSE]
  /\ FileId = 0
  /\ announced = << >> /\ failed = {}

TypeOK ==
  /\ tree \in Trees /\ function \in Functions /\ stem \in BOOLEAN
  /\ at \in {"start", "loop", "folder", "round", "returned"}
  /\ Result \in BOOLEAN
  /\ UnexploredDirs \in Seq(Folders) /\ Len(UnexploredDirs) <= Bound
  /\ ParallelResults \in Seq(Folders)
  /\ pc \in [Folders -> {"none", "open", "items", "size", "load", "store",
                         "callback", "done"}]
  /\ todo \in [Folders -> SUBSET Entries]
  /\ item \in [Folders -> Folders]
  /\ id \in [Folders -> 0..Bound]
  /\ Directories \in [Folders -> Seq(Entries)]
  /\ Error \in [Folders -> BOOLEAN]
  /\ FileId \in 0..Bound
  /\ announced \in Seq([id : 1..Bound, entry : Folders])
  /\ failed \subseteq {"open", "size"} \X Folders

-----------------------------------------------------------------------------
(* The two functions                                                       *)

\* Not a folder, or no canonical path.
RootFails ==
  /\ at = "start" /\ "root" \in Faults
  /\ at' = "returned" /\ Result' = FALSE
  /\ UNCHANGED <<callVars, dirVars, folderVars, FileId, announced, failed>>

\* A bug: the folder itself is not announced.
StartQuiet ==
  /\ at = "start"
  /\ at' = "loop" /\ UnexploredDirs' = <<Root>>
  /\ UNCHANGED <<callVars, Result, ParallelResults, folderVars, FileId, announced, failed>>

\* If the path ends in a name, what is sent are paths that begin with it, and
\* FindFiles announces the folder itself.  FindFilesParallel does not.
RootIsSent == stem /\ function = "FindFiles"

Start ==
  /\ at = "start"
  /\ at' = "loop" /\ UnexploredDirs' = <<Root>>
  /\ \/ /\ RootIsSent
        /\ FileId' = FileId + 1
        /\ announced' = Append(announced, [id |-> FileId + 1, entry |-> Root])
        /\ UNCHANGED failed
     \/ /\ RootIsSent /\ MayFail("size")
        /\ failed' = failed \cup {<<"size", Root>>}
        /\ UNCHANGED <<FileId, announced>>
     \/ /\ ~RootIsSent
        /\ UNCHANGED <<FileId, announced, failed>>
  /\ UNCHANGED <<callVars, Result, ParallelResults, folderVars>>

\* A bug: the folder is read and not removed.
NextFolderKeeping ==
  /\ at = "loop" /\ function = "FindFiles" /\ UnexploredDirs # << >>
  /\ at' = "folder"
  /\ pc' = [pc EXCEPT ![Head(UnexploredDirs)] = "open"]
  /\ UNCHANGED <<callVars, Result, dirVars, todo, item, id, Directories, Error,
                 FileId, announced, failed>>

\* FindFiles: the front of UnexploredDirs.
NextFolder ==
  /\ at = "loop" /\ function = "FindFiles" /\ UnexploredDirs # << >>
  /\ at' = "folder"
  /\ UnexploredDirs' = Tail(UnexploredDirs)
  /\ pc' = [pc EXCEPT ![Head(UnexploredDirs)] = "open"]
  /\ UNCHANGED <<callVars, Result, ParallelResults, todo, item, id, Directories, Error, FileId,
                 announced, failed>>

\* FindFilesParallel: async(ProcessFolder) for all of UnexploredDirs, which is
\* not looked at again before it is swapped with what is then collected: here
\* that is collected in it from the start.
NextRound ==
  /\ at = "loop" /\ function = "FindFilesParallel" /\ UnexploredDirs # << >>
  /\ at' = "round"
  /\ ParallelResults' = UnexploredDirs /\ UnexploredDirs' = << >>
  /\ pc' = [d \in Folders |-> IF d \in Range(UnexploredDirs) THEN "open" ELSE pc[d]]
  /\ UNCHANGED <<callVars, Result, todo, item, id, Directories, Error, FileId, announced, failed>>

\* for (auto DirItem : directory_iterator): a round of the loop with the item
\* e, or its end, which is also where it is left when Error is still set.
AtItem(d, e) == pc[d] = "items" /\ ~Error[d] /\ e \in todo[d]
LoopOver(d) == pc[d] = "items" /\ (Error[d] \/ todo[d] = {})

\* ProcessFolder has returned to FindFiles.
FolderDone(d) ==
  /\ at = "folder" /\ LoopOver(d)
  /\ at' = "loop" /\ pc' = [pc EXCEPT ![d] = "done"]
  /\ UnexploredDirs' = UnexploredDirs \o Directories[d]
  /\ UNCHANGED <<callVars, Result, ParallelResults, todo, item, id, Directories, Error, FileId,
                 announced, failed>>

\* ProcessFolder has returned to its future.
ThreadDone(d) ==
  /\ at = "round" /\ LoopOver(d)
  /\ pc' = [pc EXCEPT ![d] = "done"]
  /\ UNCHANGED <<callVars, at, Result, dirVars, todo, item, id, Directories, Error,
                 FileId, announced, failed>>

\* get() of the next future, which waits for it.
GetResult ==
  /\ at = "round" /\ ParallelResults # << >> /\ pc[Head(ParallelResults)] = "done"
  /\ ParallelResults' = Tail(ParallelResults)
  /\ UnexploredDirs' = UnexploredDirs \o Directories[Head(ParallelResults)]
  /\ UNCHANGED <<callVars, at, Result, folderVars, FileId, announced, failed>>

RoundDone ==
  /\ at = "round" /\ ParallelResults = << >>
  /\ at' = "loop"
  /\ UNCHANGED <<callVars, Result, dirVars, folderVars, FileId, announced, failed>>

Return ==
  /\ at = "loop" /\ UnexploredDirs = << >>
  /\ at' = "returned"
  /\ UNCHANGED <<callVars, Result, dirVars, folderVars, FileId, announced, failed>>

-----------------------------------------------------------------------------
(* ProcessFolder(d)                                                        *)

Goto(d, label) == pc' = [pc EXCEPT ![d] = label]

\* directory_iterator.  One that cannot be made is at its end, and Error is
\* only looked at in the loop's body: the folder counts as empty.
Open(d) ==
  /\ pc[d] = "open"
  /\ Goto(d, "items")
  /\ \/ todo' = [todo EXCEPT ![d] = Children(d)] /\ UNCHANGED failed
     \/ /\ MayFail("open")
        /\ failed' = failed \cup {<<"open", d>>} /\ UNCHANGED todo
  /\ UNCHANGED <<callVars, at, Result, dirVars, item, id, Directories, Error, FileId, announced>>

\* A bug: Success = false is left to the break, which the last item has not.
SkipBrokenLate(d, e) ==
  /\ AtItem(d, e) /\ tree.kind[e] = "broken"
  /\ todo' = [todo EXCEPT ![d] = @ \ {e}]
  /\ Error' = [Error EXCEPT ![d] = TRUE]
  /\ Result' = (Result /\ todo[d] = {e})
  /\ UNCHANGED <<callVars, at, dirVars, pc, item, id, Directories,
                 FileId, announced, failed>>

\* status() fails, as for a link that leads nowhere: Success = false, and the
\* loop is continued with Error set.  Its next round, if there is one, breaks:
\* what is left of the folder is not looked at.
SkipBroken(d, e) ==
  /\ AtItem(d, e) /\ tree.kind[e] = "broken"
  /\ todo' = [todo EXCEPT ![d] = @ \ {e}]
  /\ Error' = [Error EXCEPT ![d] = TRUE]
  /\ Result' = FALSE
  /\ UNCHANGED <<callVars, at, dirVars, pc, item, id, Directories,
                 FileId, announced, failed>>

\* A bug: the loop goes on and its iterator is not incremented.
SkipOtherStanding(d, e) ==
  /\ AtItem(d, e) /\ tree.kind[e] = "other"
  /\ UNCHANGED vars

\* Neither a folder nor a regular file.  (A link never is: status() follows it.)
SkipOther(d, e) ==
  /\ AtItem(d, e) /\ tree.kind[e] = "other"
  /\ todo' = [todo EXCEPT ![d] = @ \ {e}]
  /\ UNCHANGED <<callVars, at, Result, dirVars, pc, item, id, Directories, Error,
                 FileId, announced, failed>>

\* A folder or a file: DirItemToFileInfo.
Take(d, e) ==
  /\ AtItem(d, e) /\ tree.kind[e] \in {"dir", "file"}
  /\ todo' = [todo EXCEPT ![d] = @ \ {e}]
  /\ item' = [item EXCEPT ![d] = e]
  /\ Directories' = IF tree.kind[e] = "dir"
                      THEN [Directories EXCEPT ![d] = Append(@, e)] ELSE Directories
  /\ Goto(d, "size")
  /\ UNCHANGED <<callVars, at, Result, dirVars, id, Error, FileId, announced, failed>>

\* file_size(); without it nothing is announced, and Success stays as it was.
Size(d) ==
  /\ pc[d] = "size"
  /\ \/ Goto(d, "load") /\ UNCHANGED failed
     \/ /\ MayFail("size") /\ Goto(d, "items")
        /\ failed' = failed \cup {<<"size", item[d]>>}
  /\ UNCHANGED <<callVars, at, Result, dirVars, todo, item, id, Directories, Error,
                 FileId, announced>>

\* A bug: each call of ProcessFolder counts from the start.
LoadFileIdLocal(d) ==
  /\ pc[d] = "load"
  /\ id' = [id EXCEPT ![d] = @ + 1]
  /\ Goto(d, "store")
  /\ UNCHANGED <<callVars, at, Result, dirVars, todo, item, Directories, Error,
                 FileId, announced, failed>>

\* ++FileId is a load ...
LoadFileId(d) ==
  /\ pc[d] = "load"
  /\ id' = [id EXCEPT ![d] = FileId]
  /\ Goto(d, "store")
  /\ UNCHANGED <<callVars, at, Result, dirVars, todo, item, Directories, Error,
                 FileId, announced, failed>>

\* ... and a store.
StoreFileId(d) ==
  /\ pc[d] = "store"
  /\ FileId' = id[d] + 1
  /\ Goto(d, "callback")
  /\ UNCHANGED <<callVars, at, Result, dirVars, todo, item, id, Directories, Error,
                 announced, failed>>

Callback(d) ==
  /\ pc[d] = "callback"
  /\ announced' = Append(announced, [id |-> id[d] + 1, entry |-> item[d]])
  /\ Goto(d, "items")
  /\ UNCHANGED <<callVars, at, Result, dirVars, todo, item, id, Directories, Error,
                 FileId, failed>>

-----------------------------------------------------------------------------

ProcessFolder(d) ==
  \/ Open(d) \/ Size(d) \/ LoadFileId(d) \/ StoreFileId(d) \/ Callback(d)
  \/ \E e \in Entries : SkipBroken(d, e) \/ SkipOther(d, e) \/ Take(d, e)
  \/ FolderDone(d) \/ ThreadDone(d)

Done == at = "returned" /\ UNCHANGED vars

Next ==
  \/ RootFails \/ Start \/ NextFolder \/ NextRound \/ GetResult \/ RoundDone \/ Return
  \/ \E d \in Folders : ProcessFolder(d)
  \/ Done

(* Fairness: the threads run, and file system calls return.                *)
Fairness ==
  /\ WF_vars(\/ RootFails \/ Start \/ Return
             \/ NextFolder \/ NextRound \/ GetResult \/ RoundDone)
  /\ \A d \in Folders : WF_vars(ProcessFolder(d))

Safety == Init /\ [][Next]_vars
Spec == Safety /\ Fairness

-----------------------------------------------------------------------------
(* Properties *)

(* The server creates a folder when it is announced, and files are written *)
(* into folders that are there: a folder is announced before what is in    *)
(* it, whatever the threads of a round do, unless its size was not to be   *)
(* had.                                                                    *)
ParentFirst ==
  \A k \in DOMAIN announced :
    LET e == announced[k].entry
        p == tree.parent[e]
    IN  e # Root /\ (p # Root \/ RootIsSent) /\ <<"size", p>> \notin failed
          => \E j \in 1..(k - 1) : announced[j].entry = p

\* The entries a scan comes to are in the folder, or in a folder that it comes
\* to and that could be opened.
Closed(S) ==
  /\ Root \in S
  /\ \A e \in Entries :
       LET p == tree.parent[e]
       IN  p \in S /\ <<"open", p>> \notin failed /\ tree.kind[e] \in {"dir", "file"}
             => e \in S
Reached == {e \in Folders : \A S \in SUBSET Folders : Closed(S) => e \in S}

(* "Failed to finish parsing!" (qsync.cpp) is what main says of a scan     *)
(* that returns false: one that returns true has come to every entry and   *)
(* announced each once, but for what a call that failed unnoticed has cost.*)
Complete ==
  /\ at = "returned" /\ Result =>
       \A e \in Entries :
         /\ tree.kind[e] = "broken" =>
              tree.parent[e] \notin Reached \/ <<"open", tree.parent[e]>> \in failed
         /\ e \in Reached /\ <<"size", e>> \notin failed =>
              \E k \in DOMAIN announced : announced[k].entry = e
  /\ \A j, k \in DOMAIN announced : announced[j].entry = announced[k].entry => j = k

(* "Using this to guarantee a unique FileId for each file." (files.cpp):   *)
(* replies and requests name an entry by its id alone.  FindFiles keeps    *)
(* that, whatever fails; FindFilesParallel, whose threads share the        *)
(* counter, does not.                                                      *)
UniqueIds ==
  function = "FindFiles" =>
    \A j, k \in DOMAIN announced : announced[j].id = announced[k].id => j = k

(* The scan ends.                                                          *)
Returns == <>(at = "returned")

==============================================================================
