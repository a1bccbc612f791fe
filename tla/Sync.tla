--------------------------------- MODULE Sync ---------------------------------
(***************************************************************************)
(* One synchronisation: the client's scan announces what is in its folder  *)
(* on the control stream; for each entry the server decides whether its    *)
(* copy is current, and either replies with the entry's id on the control  *)
(* stream or acts: it makes a folder, or opens a data stream on which it   *)
(* asks for the file.                                                      *)
(*                                                                         *)
(* Composed from: the scan, which announces a folder before what is in it  *)
(* (FindFiles!ParentFirst); the control stream, a FIFO channel of messages *)
(* one way (ControlFraming) and ids the other way (FileIdFraming); the     *)
(* server's Pool (WorkQueue); a transfer, which installs the file or does  *)
(* not (FileSend, FileReceive).  An entry stands for its FileId, which is  *)
(* unique (FindFiles!UniqueIds, for the function the client calls).        *)
(*                                                                         *)
(* FileInfos has no lock: the scan adds to it on the main thread while the *)
(* callbacks look up and erase on MsQuic's.  When an emplace and a callback*)
(* meet, the lookup may miss and the emplace or the erase may be lost.     *)
(*                                                                         *)
(* The times announced are the client's, and what is put into a folder at  *)
(* the server moves the folder's time to the server's clock: nothing in    *)
(* the program orders the two.                                             *)
(***************************************************************************)
EXTENDS Naturals, Sequences, FiniteSets

CONSTANTS
  Items,        \* what is in the client's folder
  Base,         \* the folder itself, at either end
  Parent,       \* the folder each item is in
  None,         \* no item; nothing at that path
  Sources,      \* what the client's items may be
  Destinations, \* what may be at the same paths at the server before
  Clock,        \* what the server's clock may show, ahead of Sources or behind
  MaxStreams,   \* the streams the client lets the server have open
  Faults,       \* the calls that may fail
  MaxFailed     \* bound: how many calls fail

Node == [kind : {"dir", "file"}, time : Nat, size : Nat]

ASSUME SyncAssumption ==
  /\ IsFiniteSet(Items) /\ Base \notin Items /\ None \notin Items
  /\ Parent \in [Items -> Items \cup {Base}]
  /\ None \notin Node
  /\ Sources \subseteq [Items -> Node]
  /\ Destinations \subseteq [Items -> Node \cup {None}]
  /\ \A s \in Sources : \A i \in Items : Parent[i] # Base => s[Parent[i]].kind = "dir"
  /\ Clock \subseteq Nat /\ Clock # {}
  /\ MaxStreams \in Nat \ {0}
  /\ Faults \subseteq {"size", "send", "status", "create", "reply", "stream",
                       "open", "transfer"}
  /\ MaxFailed \in Nat

\* A bug: the server's Pool is given a second thread.
PoolSizeTwo == 2

\* Pool(1)
PoolSize == 1

Threads == 1..PoolSize

VARIABLES
  src, dst,         \* the two folders
  toScan,           \* items FindFiles has not come to
  step, item,       \* where the scan's callback is, and with which item
  FileInfos,        \* the client's map
  control, replies, \* the control stream, to the server and back
  queue, running,   \* the server's Pool
  pc,               \* where its threads are in QSyncServerWorkerCallback
  streams,          \* the data stream of each item
  failed,           \* history: items for which a call has failed
  orphans,          \* history: items whose folder was not there
  raced,            \* history: an emplace and a callback have met in FileInfos
  behind            \* history: folders a clock behind the client's moved last

dstVars == <<dst, behind>>
scanVars == <<toScan, step, item>>
poolVars == <<queue, running>>
history == <<failed, orphans, raced>>
vars == <<src, dstVars, scanVars, FileInfos, control, replies, poolVars, pc, streams, history>>

Pool == INSTANCE WorkQueue WITH
          Workers <- Threads, Idle <- None, stopped <- FALSE

MayFail(call) == call \in Faults /\ Cardinality(failed) < MaxFailed
Fail(i) == failed' = failed \cup {i} /\ UNCHANGED <<orphans, raced>>

Init ==
  /\ src \in Sources /\ dst \in Destinations
  /\ toScan = Items /\ step = "scan" /\ item = None
  /\ FileInfos = {} /\ control = << >> /\ replies = << >>
  /\ Pool!Init
  /\ pc = [t \in Threads |-> "idle"]
  /\ streams = [i \in Items |-> "none"]
  /\ failed = {} /\ orphans = {} /\ raced = FALSE /\ behind = {}

TypeOK ==
  /\ src \in Sources /\ dst \in [Items -> Node \cup {None}]
  /\ toScan \subseteq Items
  /\ step \in {"scan", "emplace", "send"} /\ item \in Items \cup {None}
  /\ FileInfos \subseteq Items
  /\ control \in Seq(Items) /\ replies \in Seq(Items)
  /\ queue \in Seq(Items) /\ running \in [Threads -> Items \cup {None}]
  /\ pc \in [Threads -> {"idle", "decide", "dir", "file", "current", "done"}]
  /\ \A t \in Threads : running[t] = None <=> pc[t] = "idle"
  /\ streams \in [Items -> {"none", "started", "open", "sending", "stalled",
                         "unanswered", "closed"}]
  /\ failed \subseteq Items /\ orphans \subseteq Items /\ behind \subseteq Items
  /\ raced \in BOOLEAN

-----------------------------------------------------------------------------
(* The client's scan: the callback QsyncClient::Start gives to FindFiles.  *)

\* DirItemToFileInfo of an item whose folder has been announced.
ScanItem(i) ==
  /\ step = "scan" /\ i \in toScan /\ Parent[i] \notin toScan
  /\ toScan' = toScan \ {i}
  /\ \/ step' = "emplace" /\ item' = i /\ UNCHANGED history
     \/ MayFail("size") /\ Fail(i) /\ UNCHANGED <<step, item>>
  /\ UNCHANGED <<src, dstVars, FileInfos, control, replies, poolVars, pc, streams>>

\* FileInfos.emplace
Emplace ==
  /\ step = "emplace" /\ step' = "send"
  /\ \/ FileInfos' = FileInfos \cup {item}
     \/ raced /\ UNCHANGED FileInfos
  /\ UNCHANGED <<src, dstVars, toScan, item, control, replies, poolVars, pc, streams, history>>

\* ControlStream->Send
Send ==
  /\ step = "send" /\ step' = "scan" /\ item' = None
  /\ \/ control' = Append(control, item) /\ UNCHANGED history
     \/ MayFail("send") /\ Fail(item) /\ UNCHANGED control
  /\ UNCHANGED <<src, dstVars, toScan, FileInfos, replies, poolVars, pc, streams>>

-----------------------------------------------------------------------------
(* The server: its control stream's callback and its Pool.                 *)

\* AddFileToList
ReceiveMessage ==
  /\ control # << >>
  /\ control' = Tail(control)
  /\ Pool!Submit(Head(control))
  /\ UNCHANGED <<src, dstVars, scanVars, FileInfos, replies, pc, streams, history>>

WorkerStart(t) ==
  /\ Pool!Start(t)
  /\ pc' = [pc EXCEPT ![t] = "decide"]
  /\ UNCHANGED <<src, dstVars, scanVars, FileInfos, control, replies, streams, history>>

\* Times are in half seconds; the time announced, and set, is in seconds.
Seconds(time) == time - (time % 2)

\* A bug: a copy as old as the client's file is not current.
NeedsUpdateAgain(i) ==
  \/ dst[i] = None
  \/ /\ dst[i].kind = src[i].kind
     /\ \/ Seconds(src[i].time) >= dst[i].time
        \/ src[i].kind = "file" /\ dst[i].size # src[i].size

\* DoesFileNeedUpdate, when none of its calls fails.
NeedsUpdate(i) ==
  \/ dst[i] = None
  \/ /\ dst[i].kind = src[i].kind
     /\ \/ Seconds(src[i].time) > dst[i].time
        \/ src[i].kind = "file" /\ dst[i].size # src[i].size

\* One that fails has the same answer as a current copy.
WorkerDecide(t) ==
  LET i == running[t] IN
  /\ pc[t] = "decide"
  /\ \/ /\ pc' = [pc EXCEPT ![t] = IF NeedsUpdate(i) THEN src[i].kind ELSE "current"]
        /\ UNCHANGED history
     \/ MayFail("status") /\ Fail(i) /\ pc' = [pc EXCEPT ![t] = "current"]
  /\ UNCHANGED <<src, dstVars, scanVars, FileInfos, control, replies, poolVars, streams>>

IsFolder(p) == p # Base => dst[p] # None /\ dst[p].kind = "dir"

\* Something is put into folder p, whose time is then that of the clock.
Touched(d, p, now) == IF p = Base THEN d ELSE [d EXCEPT ![p].time = now]
BehindAfter(p, now) ==
  IF p # Base /\ now < Seconds(src[p].time) THEN behind \cup {p} ELSE behind \ {p}

\* Item i is made, by the name it has or as a temporary file.
Make(i, node, now) ==
  /\ IsFolder(Parent[i])
  /\ dst' = Touched([dst EXCEPT ![i] = node], Parent[i], now)
  /\ behind' = BehindAfter(Parent[i], now)

\* A folder: create_directory unless it is there, and last_write_time.
WorkerDir(t) ==
  LET i == running[t]
      there == dst[i] # None
      copy(time) == [kind |-> "dir", time |-> time, size |-> src[i].size]
  IN
  /\ pc[t] = "dir"
  /\ pc' = [pc EXCEPT ![t] = "done"]
  /\ \/ /\ there /\ dst' = [dst EXCEPT ![i].time = Seconds(src[i].time)]
        /\ behind' = behind \ {i} /\ UNCHANGED history
     \/ /\ ~there /\ \E now \in Clock : Make(i, copy(Seconds(src[i].time)), now)
        /\ UNCHANGED history
     \/ /\ ~there /\ ~IsFolder(Parent[i])
        /\ orphans' = orphans \cup {i} /\ UNCHANGED <<dstVars, failed, raced>>
     \/ /\ MayFail("create") /\ Fail(i)
        /\ \/ UNCHANGED dstVars
           \/ ~there /\ \E now \in Clock : Make(i, copy(now), now)
  /\ UNCHANGED <<src, scanVars, FileInfos, control, replies, poolVars, streams>>

\* A bug: the client is told that the file is done with.
WorkerFileReplies(t) ==
  /\ pc[t] = "file"
  /\ pc' = [pc EXCEPT ![t] = "done"]
  /\ streams' = [streams EXCEPT ![running[t]] = "started"]
  /\ replies' = Append(replies, running[t])
  /\ UNCHANGED <<src, dstVars, scanVars, FileInfos, control, poolVars, history>>

\* A file: the snapshot of the copy, and a data stream with the id.
WorkerFile(t) ==
  /\ pc[t] = "file"
  /\ pc' = [pc EXCEPT ![t] = "done"]
  /\ \/ streams' = [streams EXCEPT ![running[t]] = "started"] /\ UNCHANGED history
     \/ MayFail("stream") /\ Fail(running[t]) /\ UNCHANGED streams
  /\ UNCHANGED <<src, dstVars, scanVars, FileInfos, control, replies, poolVars>>

\* A bug: nothing is said of a current file.
WorkerCurrentQuietly(t) ==
  /\ pc[t] = "current"
  /\ pc' = [pc EXCEPT ![t] = "done"]
  /\ UNCHANGED <<src, dstVars, scanVars, FileInfos, control, replies, poolVars, streams, history>>

\* A current copy, a folder's or a file's: the id on the control stream.
WorkerCurrent(t) ==
  /\ pc[t] = "current"
  /\ pc' = [pc EXCEPT ![t] = "done"]
  /\ \/ replies' = Append(replies, running[t]) /\ UNCHANGED history
     \/ MayFail("reply") /\ Fail(running[t]) /\ UNCHANGED replies
  /\ UNCHANGED <<src, dstVars, scanVars, FileInfos, control, poolVars, streams>>

WorkerDone(t) ==
  /\ pc[t] = "done"
  /\ Pool!Finish(t)
  /\ pc' = [pc EXCEPT ![t] = "idle"]
  /\ UNCHANGED <<src, dstVars, scanVars, FileInfos, control, replies, streams, history>>

-----------------------------------------------------------------------------
(* The client's callbacks, and what becomes of a transfer.                 *)

\* A callback of the client looks into FileInfos.
Meets == raced' = (raced \/ step = "emplace") /\ UNCHANGED orphans

\* An id on the control stream: the entry is erased.
ReceiveReply ==
  /\ replies # << >>
  /\ replies' = Tail(replies)
  /\ \/ FileInfos' = FileInfos \ {Head(replies)}
     \/ step = "emplace" /\ UNCHANGED FileInfos
  /\ Meets /\ UNCHANGED failed
  /\ UNCHANGED <<src, dstVars, scanVars, control, poolVars, pc, streams>>

Holding == {i \in Items : streams[i] \in {"open", "sending", "stalled", "unanswered"}}

\* PEER_STREAM_STARTED, as soon as the client allows another stream.
StreamStarted(i) ==
  /\ streams[i] = "started" /\ Cardinality(Holding) < MaxStreams
  /\ streams' = [streams EXCEPT ![i] = "open"]
  /\ UNCHANGED <<src, dstVars, scanVars, FileInfos, control, replies, poolVars, pc, history>>

\* An id on its data stream, and the file opens: the entry is erased.
ReceiveFileId(i) ==
  /\ streams[i] = "open" /\ i \in FileInfos
  /\ streams' = [streams EXCEPT ![i] = "sending"]
  /\ \/ FileInfos' = FileInfos \ {i}
     \/ step = "emplace" /\ UNCHANGED FileInfos
  /\ Meets /\ UNCHANGED failed
  /\ UNCHANGED <<src, dstVars, scanVars, control, replies, poolVars, pc>>

\* A bug: the stream is not shut down.
ReceiveFileIdRefusedQuietly(i) ==
  /\ streams[i] = "open" /\ i \in FileInfos /\ MayFail("open")
  /\ streams' = [streams EXCEPT ![i] = "unanswered"]
  /\ Meets /\ failed' = failed \cup {i}
  /\ UNCHANGED <<src, dstVars, scanVars, FileInfos, control, replies, poolVars, pc>>

\* The file does not open: the stream is shut down, and the entry kept.
ReceiveFileIdRefused(i) ==
  /\ streams[i] = "open" /\ i \in FileInfos /\ MayFail("open")
  /\ streams' = [streams EXCEPT ![i] = "closed"]
  /\ Meets /\ failed' = failed \cup {i}
  /\ UNCHANGED <<src, dstVars, scanVars, FileInfos, control, replies, poolVars, pc>>

\* No entry has this id: no answer, and the stream stays.
ReceiveFileIdUnknown(i) ==
  /\ streams[i] = "open" /\ (i \notin FileInfos \/ step = "emplace")
  /\ streams' = [streams EXCEPT ![i] = "unanswered"]
  /\ Meets /\ UNCHANGED failed
  /\ UNCHANGED <<src, dstVars, scanVars, FileInfos, control, replies, poolVars, pc>>

\* The transfer ends, the last worker having renamed the temporary file.
Install(i) ==
  LET copy(time) == [kind |-> "file", time |-> time, size |-> src[i].size] IN
  /\ streams[i] = "sending"
  /\ streams' = [streams EXCEPT ![i] = "closed"]
  /\ \/ /\ \E now \in Clock : Make(i, copy(Seconds(src[i].time)), now)
        /\ UNCHANGED history
     \/ /\ ~IsFolder(Parent[i])
        /\ orphans' = orphans \cup {i} /\ UNCHANGED <<dstVars, failed, raced>>
     \/ /\ MayFail("transfer") /\ Fail(i)
        /\ \/ UNCHANGED dstVars
           \/ \E now \in Clock : Make(i, dst[i], now) \/ Make(i, copy(now), now)
  /\ UNCHANGED <<src, scanVars, FileInfos, control, replies, poolVars, pc>>

\* A send of the client's fails and none is left under way: no FIN comes, and
\* nobody shuts the stream down.
Stall(i) ==
  /\ streams[i] = "sending" /\ MayFail("transfer") /\ Fail(i)
  /\ streams' = [streams EXCEPT ![i] = "stalled"]
  /\ UNCHANGED dstVars \/ \E now \in Clock : Make(i, dst[i], now)
  /\ UNCHANGED <<src, scanVars, FileInfos, control, replies, poolVars, pc>>

-----------------------------------------------------------------------------

Scan == (\E i \in Items : ScanItem(i)) \/ Emplace \/ Send

Worker(t) ==
  \/ WorkerStart(t) \/ WorkerDecide(t) \/ WorkerDir(t) \/ WorkerFile(t)
  \/ WorkerCurrent(t) \/ WorkerDone(t)

Transfer(i) ==
  \/ StreamStarted(i) \/ ReceiveFileId(i) \/ ReceiveFileIdRefused(i)
  \/ ReceiveFileIdUnknown(i) \/ Install(i) \/ Stall(i)

\* Nothing is left to be said or decided.
Decided ==
  /\ toScan = {} /\ step = "scan"
  /\ control = << >> /\ replies = << >>
  /\ queue = << >> /\ \A t \in Threads : pc[t] = "idle"

\* ... or transferred, but on streams that have stalled or are not answered.
Quiet ==
  /\ Decided
  /\ \A i \in Items : streams[i] \in {"none", "closed", "stalled", "unanswered"}

\* These leave no room for the others.
Full ==
  /\ Decided /\ Cardinality(Holding) = MaxStreams
  /\ \A i \in Holding : streams[i] \in {"stalled", "unanswered"}

Done == (Quiet \/ Full) /\ UNCHANGED vars

Next ==
  \/ Scan \/ ReceiveMessage \/ ReceiveReply
  \/ \E t \in Threads : Worker(t)
  \/ \E i \in Items : Transfer(i)
  \/ Done

(* Fairness: the scan's thread and the Pool's run, the connection delivers *)
(* what is sent on it, and a transfer comes to its end or stalls.          *)
Fairness ==
  /\ WF_vars(Scan) /\ WF_vars(ReceiveMessage) /\ WF_vars(ReceiveReply)
  /\ \A t \in Threads : WF_vars(Worker(t))
  /\ \A i \in Items : WF_vars(Transfer(i))

Safety == Init /\ [][Next]_vars
Spec == Safety /\ Fairness

-----------------------------------------------------------------------------
(* Properties *)

(* "No File found for FileId" (client.cpp): what the server asks for is in *)
(* FileInfos until the stream has found it there, however the replies, the *)
(* streams and the scan interleave, unless FileInfos has been raced.       *)
AskedIsKnown ==
  ~raced => \A i \in Items : /\ streams[i] \in {"started", "open"} => i \in FileInfos
                             /\ streams[i] # "unanswered"

(* The server makes and writes things only in folders that are there: only *)
(* the order of the scan, of the control stream and of Pool(1) sees to it. *)
(* It misses a folder that failed, or whose name is a file's.              *)
ParentThere ==
  \A i \in orphans :
    LET p == Parent[i] IN
    p \in failed \cup orphans \/ (dst[p] # None /\ dst[p].kind = "file")

(* A second run has nothing to do: for every item for which nothing failed *)
(* the server's copy is current, although its time has lost its fraction.  *)
(* What is put into a folder moves the folder's time: that too leaves it   *)
(* current, unless the server's clock is behind the time the client has    *)
(* announced for the folder.                                               *)
NextRunIdle ==
  Quiet /\ ~raced =>
    \A i \in Items \ (failed \cup orphans) : NeedsUpdate(i) => i \in behind

(* FileInfos holds on to nothing but the folders the server has updated,   *)
(* of which it does not tell the client, and what has failed.              *)
Released ==
  Quiet /\ ~raced =>
    \A i \in FileInfos : src[i].kind = "dir" \/ i \in failed

(* Every stream has its turn, however few the client allows, and the run   *)
(* comes to rest, unless all the streams it allows have stalled.           *)
Settles ==
  <>(Quiet \/ raced \/ Cardinality({i \in Items : streams[i] = "stalled"}) = MaxStreams)

===============================================================================
