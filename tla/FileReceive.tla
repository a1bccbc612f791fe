----------------------------- MODULE FileReceive -----------------------------
(***************************************************************************)
(* One file on its way into the server: QsyncServer::DataStreamContext,    *)
(* from the snapshot of the destination that QSyncServerWorkerCallback     *)
(* takes, through the receives that the stream callback hands to IoPool,   *)
(* to the rename of the temporary file over the destination.               *)
(*                                                                         *)
(* Actors: the server's Pool thread (the snapshot), MsQuic's thread (the   *)
(* stream callback), the threads of IoPool (FileIoWorker), and somebody    *)
(* who edits the destination folder meanwhile.  Every file system call and *)
(* every access to a field that another actor writes is a step of its own. *)
(*                                                                         *)
(* Data: the bytes of a file are a sequence of chunks; chunk i of the      *)
(* stream is i, a chunk somebody else wrote is 0.                          *)
(***************************************************************************)
EXTENDS Integers, Sequences, FiniteSets

CONSTANTS
  IoWorkers,    \* the threads of IoPool
  MaxChunks,    \* bound: chunks in a file
  MaxEdits,     \* bound: local edits of the destination
  LocalSizes,   \* the sizes of what others put there
  Faults,       \* the calls that may fail
  Job, Idle,    \* a FileIoWorker item of this context; a free thread
  NoFile        \* nothing at that path

AllFaults == {"exists", "stream", "open", "write", "close", "rename", "settime", "remove",
              "connection"}

ASSUME FileReceiveAssumption ==
  /\ IsFiniteSet(IoWorkers)
  /\ MaxChunks \in Nat /\ MaxEdits \in Nat /\ LocalSizes \subseteq Nat
  /\ Faults \subseteq AllFaults
  /\ Job # Idle

VARIABLES
  \* QSyncServerWorkerCallback
  phase,                 \* how far the Pool thread is
  FileExists, SnapshotDestModTime, SnapshotDestSize,
  NewFileSize,           \* the size the client announced
  \* the rest of DataStreamContext
  RefCount, FinalReceive, Buffers, BytesWritten,
  FileWriteStream,       \* what the file stream writes to
  \* IoPool and its threads' places in FileIoWorker
  queue, running, pc,
  \* the file system
  temp, dest, edits,
  \* MsQuic's side of the stream
  stream, total, delivered, recvPending,
  \* history
  mine,      \* FinalReceive as each worker's own receive set it
  stale,     \* a worker saw FinalReceive set by a later receive than its own
  leaked,    \* a worker returned without giving back its reference
  cut,       \* close() lost bytes
  blind,     \* the worker could not look at the destination
  lost       \* the connection was lost

contextVars == <<phase, FileExists, SnapshotDestModTime, SnapshotDestSize, NewFileSize>>
receiveVars == <<FinalReceive, Buffers, BytesWritten, FileWriteStream>>
poolVars == <<queue, running>>
fileVars == <<temp, dest, edits>>
streamVars == <<stream, total, delivered, recvPending>>
history == <<mine, stale, leaked, cut, blind, lost>>
vars == <<contextVars, RefCount, receiveVars, poolVars, pc, fileVars, streamVars, history>>

Pool == INSTANCE WorkQueue WITH
          Workers <- IoWorkers, Items <- {Job}, stopped <- FALSE

(* Modification times: 0 before the transfer, k at the k-th local edit,    *)
(* then the time the temporary file was written and the client's time.    *)
WrittenTime == MaxEdits + 1
FileTime == MaxEdits + 2

File(data, mtime, by) == [data |-> data, mtime |-> mtime, by |-> by]
Local(size, mtime) == File([i \in 1..size |-> 0], mtime, "local")
Chunks(lo, hi) == [i \in 1..(hi - lo + 1) |-> lo + i - 1]
Sizes == 0..MaxChunks
Files == [data : Seq(Nat), mtime : 0..FileTime, by : {"local", "server"}]

ASSUME NoFileAssumption == NoFile \notin Seq(Nat) \cup Files

Init ==
  /\ phase = "exists"
  /\ FileExists = FALSE /\ SnapshotDestModTime = 0 /\ SnapshotDestSize = 0
  /\ NewFileSize \in Sizes
  /\ RefCount = 0 /\ FinalReceive = FALSE /\ Buffers = << >> /\ BytesWritten = 0
  /\ FileWriteStream = "closed"
  /\ Pool!Init
  /\ pc = [w \in IoWorkers |-> "idle"]
  /\ temp \in {NoFile, <<0>>}         \* <<0>>: left behind by an earlier run
  /\ dest \in {NoFile} \cup {Local(s, 0) : s \in LocalSizes}
  /\ edits = 0
  /\ stream = "none" /\ total \in Sizes /\ delivered = 0 /\ recvPending = FALSE
  /\ mine = [w \in IoWorkers |-> FALSE]
  /\ stale = FALSE /\ leaked = FALSE /\ cut = FALSE /\ blind = FALSE /\ lost = FALSE

TypeOK ==
  /\ phase \in {"exists", "mtime", "size", "open", "live", "abandoned"}
  /\ FileExists \in BOOLEAN
  /\ SnapshotDestModTime \in 0..FileTime /\ SnapshotDestSize \in Nat
  /\ NewFileSize \in Sizes
  /\ RefCount \in Nat /\ FinalReceive \in BOOLEAN
  /\ Buffers \in Seq(Nat) /\ BytesWritten \in Nat
  /\ FileWriteStream \in {"closed", "temp", "dest", "orphan"}
  /\ queue \in Seq({Job}) /\ running \in [IoWorkers -> {Job, Idle}]
  /\ pc \in [IoWorkers -> {"idle", "open", "write", "complete", "final", "close",
                           "exists", "size", "mtime", "verify", "rename",
                           "settime", "discard", "deref", "terminated"}]
  /\ temp \in {NoFile} \cup Seq(Nat)
  /\ dest \in {NoFile} \cup Files
  /\ edits \in 0..MaxEdits
  /\ stream \in {"none", "open", "aborted", "closed"}
  /\ total \in Sizes /\ delivered \in 0..total /\ recvPending \in BOOLEAN
  /\ mine \in [IoWorkers -> BOOLEAN]
  /\ {stale, leaked, cut, blind, lost} \subseteq BOOLEAN

-----------------------------------------------------------------------------
(* The destination is looked at before the stream is opened.  An error     *)
(* code, as when the file has just been removed, ends the callback, the    *)
(* context never freed; but exists() is false when it fails, and the file  *)
(* is taken not to be there.                                               *)

SnapshotExists ==
  /\ phase = "exists"
  /\ \/ FileExists' = (dest # NoFile)
     \/ "exists" \in Faults /\ FileExists' = FALSE
  /\ phase' = IF FileExists' THEN "mtime" ELSE "open"
  /\ UNCHANGED <<SnapshotDestModTime, SnapshotDestSize, NewFileSize, RefCount,
                 receiveVars, poolVars, pc, fileVars, streamVars, history>>

SnapshotModTime ==
  /\ phase = "mtime"
  /\ IF dest = NoFile
       THEN phase' = "abandoned" /\ UNCHANGED SnapshotDestModTime
       ELSE phase' = "size" /\ SnapshotDestModTime' = dest.mtime
  /\ UNCHANGED <<FileExists, SnapshotDestSize, NewFileSize, RefCount,
                 receiveVars, poolVars, pc, fileVars, streamVars, history>>

SnapshotSize ==
  /\ phase = "size"
  /\ IF dest = NoFile
       THEN phase' = "abandoned" /\ UNCHANGED SnapshotDestSize
       ELSE phase' = "open" /\ SnapshotDestSize' = Len(dest.data)
  /\ UNCHANGED <<FileExists, SnapshotDestModTime, NewFileSize, RefCount,
                 receiveVars, poolVars, pc, fileVars, streamVars, history>>

\* new MsQuicStream, RefCount = 1 for it, Send of the FileId, Start.
OpenStream ==
  /\ phase = "open"
  /\ phase' = "live"
  /\ stream' = "open"
  /\ RefCount' = 1
  /\ UNCHANGED <<FileExists, SnapshotDestModTime, SnapshotDestSize, NewFileSize,
                 receiveVars, poolVars, pc, fileVars, total, delivered,
                 recvPending, history>>

OpenStreamFails ==
  /\ phase = "open"
  /\ "stream" \in Faults
  /\ phase' = "abandoned"
  /\ UNCHANGED <<FileExists, SnapshotDestModTime, SnapshotDestSize, NewFileSize, RefCount,
                 receiveVars, poolVars, pc, fileVars, streamVars, history>>

-----------------------------------------------------------------------------
(* QSyncServerDataStreamCallback.  Returning QUIC_STATUS_PENDING keeps     *)
(* MsQuic from indicating more data until ReceiveComplete.                 *)

\* A bug: the callback returns SUCCESS, which completes the receive.
ReceiveNotPending(n, fin) ==
  /\ stream = "open" /\ ~recvPending /\ ~FinalReceive
  /\ n > 0 \/ fin
  /\ fin => delivered + n = total
  /\ FinalReceive' = fin
  /\ Buffers' = Chunks(delivered + 1, delivered + n)
  /\ delivered' = delivered + n
  /\ RefCount' = RefCount + 1
  /\ Pool!Submit(Job)
  /\ UNCHANGED recvPending
  /\ UNCHANGED <<contextVars, BytesWritten, FileWriteStream, pc, fileVars,
                 stream, total, history>>

\* QUIC_STREAM_EVENT_RECEIVE: the next n chunks, in one buffer or two, and the
\* FIN with the last of them or by itself.  (ASSERT(BufferCount == 2), when
\* there are not zero or one, is taken not to be compiled: the source does not
\* define it, and MsQuic gives two buffers at most.)
Receive(n, fin) ==
  /\ stream = "open" /\ ~recvPending /\ ~FinalReceive
  /\ n > 0 \/ fin
  /\ fin => delivered + n = total
  /\ FinalReceive' = fin
  /\ Buffers' = Chunks(delivered + 1, delivered + n)
  /\ delivered' = delivered + n
  /\ RefCount' = RefCount + 1
  /\ Pool!Submit(Job)
  /\ recvPending' = TRUE
  /\ UNCHANGED <<contextVars, BytesWritten, FileWriteStream, pc, fileVars,
                 stream, total, history>>

\* The client could not open the file: it aborts the stream, having sent
\* nothing (QsyncClient::QSyncClientDataStreamCallback).
PeerAborts ==
  /\ stream = "open" /\ delivered = 0 /\ ~recvPending /\ ~FinalReceive
  /\ stream' = "aborted"
  /\ UNCHANGED <<contextVars, RefCount, receiveVars, poolVars, pc, fileVars,
                 total, delivered, recvPending, history>>

\* The connection is lost, or its idle or disconnect timeout expires.
ConnectionLost ==
  /\ "connection" \in Faults
  /\ stream = "open"
  /\ stream' = "aborted"
  /\ lost' = TRUE
  /\ UNCHANGED <<contextVars, RefCount, receiveVars, poolVars, pc, fileVars,
                 total, delivered, recvPending, mine, stale, leaked, cut, blind>>

\* QUIC_STREAM_EVENT_SHUTDOWN_COMPLETE; the MsQuicStream deletes itself after.
ShutdownComplete ==
  /\ \/ stream = "open" /\ FinalReceive /\ ~recvPending
     \/ stream = "aborted"
  /\ stream' = "closed"
  /\ RefCount' = RefCount - 1
  /\ UNCHANGED <<contextVars, receiveVars, poolVars, pc, fileVars,
                 total, delivered, recvPending, history>>

-----------------------------------------------------------------------------
(* FileIoWorker *)

Goto(w, label) == pc' = [pc EXCEPT ![w] = label]

WorkerStart(w) ==
  /\ Pool!Start(w)
  /\ Goto(w, "open")
  /\ UNCHANGED <<contextVars, RefCount, receiveVars, fileVars, streamVars, history>>

\* Stream->Shutdown with an error: an abortive shutdown of both directions.
StreamShutdown == stream' = IF stream = "open" THEN "aborted" ELSE stream

\* if (!is_open()) open(..., trunc)
WorkerOpen(w) ==
  /\ pc[w] = "open"
  /\ Goto(w, "write")
  /\ IF FileWriteStream = "closed"
       THEN FileWriteStream' = "temp" /\ temp' = << >>
       ELSE UNCHANGED <<FileWriteStream, temp>>
  /\ UNCHANGED <<contextVars, RefCount, FinalReceive, Buffers, BytesWritten,
                 poolVars, dest, edits, streamVars, history>>

\* The early return: neither ReceiveComplete nor --RefCount.
WorkerOpenFails(w) ==
  /\ pc[w] = "open"
  /\ "open" \in Faults
  /\ FileWriteStream = "closed"
  /\ StreamShutdown
  /\ Goto(w, "idle") /\ Pool!Finish(w)
  /\ leaked' = TRUE
  /\ UNCHANGED <<contextVars, RefCount, receiveVars, fileVars,
                 total, delivered, recvPending, mine, stale, cut, blind, lost>>

\* The loop over Buffers, into whatever file the stream has open.
WorkerWrite(w) ==
  /\ pc[w] = "write"
  /\ FileWriteStream # "closed" \/ Buffers = << >>
  /\ Goto(w, "complete")
  /\ temp' = IF FileWriteStream = "temp" THEN temp \o Buffers ELSE temp
  /\ dest' = IF FileWriteStream = "dest"
               THEN File(dest.data \o Buffers, WrittenTime, dest.by) ELSE dest
  /\ UNCHANGED <<contextVars, RefCount, receiveVars, poolVars, edits, streamVars, history>>

\* fail(): the disk's, or because another worker closed the file stream.
WorkerWriteFails(w) ==
  /\ pc[w] = "write"
  /\ Buffers # << >>
  /\ "write" \in Faults \/ FileWriteStream = "closed"
  /\ StreamShutdown
  /\ Goto(w, "deref")
  /\ UNCHANGED <<contextVars, RefCount, receiveVars, poolVars, fileVars,
                 total, delivered, recvPending, history>>

\* BytesWritten += TotalWritten; Stream->ReceiveComplete(TotalWritten)
WorkerComplete(w) ==
  /\ pc[w] = "complete"
  /\ BytesWritten' = BytesWritten + Len(Buffers)
  /\ recvPending' = FALSE
  /\ mine' = [mine EXCEPT ![w] = FinalReceive]
  /\ Goto(w, "final")
  /\ UNCHANGED <<contextVars, RefCount, FinalReceive, Buffers, FileWriteStream,
                 poolVars, fileVars, stream, total, delivered, stale, leaked, cut, blind, lost>>

-----------------------------------------------------------------------------
(* if (FinalReceive): read after ReceiveComplete, so that the next receive  *)
(* may have set it already.                                                *)

WorkerFinal(w) ==
  /\ pc[w] = "final"
  /\ Goto(w, IF FinalReceive THEN "close" ELSE "deref")
  /\ stale' = (stale \/ (FinalReceive /\ ~mine[w]))
  /\ UNCHANGED <<contextVars, RefCount, receiveVars, poolVars, fileVars,
                 streamVars, mine, leaked, cut, blind, lost>>

\* flush, close.  Their errors are not looked at: what the file stream still
\* held is lost when the disk is full.
WorkerClose(w) ==
  /\ pc[w] = "close"
  /\ FileWriteStream' = "closed"
  /\ Goto(w, "exists")
  /\ \/ UNCHANGED <<temp, cut>>
     \/ /\ "close" \in Faults
        /\ FileWriteStream = "temp" /\ temp # << >>
        /\ temp' = SubSeq(temp, 1, Len(temp) - 1)
        /\ cut' = TRUE
  /\ UNCHANGED <<contextVars, RefCount, FinalReceive, Buffers, BytesWritten,
                 poolVars, dest, edits, streamVars, mine, stale, leaked, blind, lost>>

\* StillExists is false when exists() fails, which passes the comparison by.
WorkerExistsFails(w) ==
  /\ pc[w] = "exists"
  /\ "exists" \in Faults
  /\ Goto(w, "verify")
  /\ blind' = TRUE
  /\ UNCHANGED <<contextVars, RefCount, receiveVars, poolVars, fileVars,
                 streamVars, mine, stale, leaked, cut, lost>>

\* StillExists.
WorkerExists(w) ==
  /\ pc[w] = "exists"
  /\ Goto(w, IF FileExists /\ dest # NoFile THEN "size" ELSE "verify")
  /\ UNCHANGED <<contextVars, RefCount, receiveVars, poolVars, fileVars,
                 streamVars, history>>

\* file_size; an error code when the file is gone.
WorkerSize(w) ==
  /\ pc[w] = "size"
  /\ Goto(w, IF dest # NoFile /\ Len(dest.data) = SnapshotDestSize
               THEN "mtime" ELSE "discard")
  /\ UNCHANGED <<contextVars, RefCount, receiveVars, poolVars, fileVars,
                 streamVars, history>>

\* A bug: only the size is compared.
WorkerModTimeIgnored(w) ==
  /\ pc[w] = "mtime"
  /\ Goto(w, IF dest # NoFile THEN "verify" ELSE "discard")
  /\ UNCHANGED <<contextVars, RefCount, receiveVars, poolVars, fileVars,
                 streamVars, history>>

\* last_write_time.
WorkerModTime(w) ==
  /\ pc[w] = "mtime"
  /\ Goto(w, IF dest # NoFile /\ dest.mtime = SnapshotDestModTime
               THEN "verify" ELSE "discard")
  /\ UNCHANGED <<contextVars, RefCount, receiveVars, poolVars, fileVars,
                 streamVars, history>>

\* A bug: the size received is not compared with the size announced.
WorkerVerifyNothing(w) ==
  /\ pc[w] = "verify"
  /\ Goto(w, "rename")
  /\ UNCHANGED <<contextVars, RefCount, receiveVars, poolVars, fileVars,
                 streamVars, history>>

\* A bug: a size mismatch returns without giving back the reference.
WorkerVerifyReturns(w) ==
  /\ pc[w] = "verify"
  /\ IF BytesWritten = NewFileSize
       THEN Goto(w, "rename") /\ UNCHANGED <<queue, running>>
       ELSE Goto(w, "idle") /\ Pool!Finish(w)
  /\ UNCHANGED <<contextVars, RefCount, receiveVars, fileVars, streamVars, history>>

\* BytesWritten != NewFileSize leaves the temporary file where it is.
WorkerVerify(w) ==
  /\ pc[w] = "verify"
  /\ Goto(w, IF BytesWritten = NewFileSize THEN "rename" ELSE "deref")
  /\ UNCHANGED <<contextVars, RefCount, receiveVars, poolVars, fileVars,
                 streamVars, history>>

\* fs::rename replaces the destination.  A file stream that another worker
\* has open on the temporary file goes on writing to it under its new name.
WorkerRename(w) ==
  /\ pc[w] = "rename"
  /\ temp # NoFile
  /\ dest' = File(temp, WrittenTime, "server")
  /\ temp' = NoFile
  /\ FileWriteStream' = CASE FileWriteStream = "temp" -> "dest"
                          [] FileWriteStream = "dest" -> "orphan"
                          [] OTHER -> FileWriteStream
  /\ Goto(w, "settime")
  /\ UNCHANGED <<contextVars, RefCount, FinalReceive, Buffers, BytesWritten,
                 poolVars, edits, streamVars, history>>

\* A bug: a failed rename keeps the temporary file.
WorkerRenameFailsQuietly(w) ==
  /\ pc[w] = "rename"
  /\ "rename" \in Faults \/ temp = NoFile
  /\ Goto(w, "deref")
  /\ UNCHANGED <<contextVars, RefCount, receiveVars, poolVars, fileVars,
                 streamVars, history>>

WorkerRenameFails(w) ==
  /\ pc[w] = "rename"
  /\ "rename" \in Faults \/ temp = NoFile
  /\ Goto(w, "discard")
  /\ UNCHANGED <<contextVars, RefCount, receiveVars, poolVars, fileVars,
                 streamVars, history>>

\* last_write_time of whatever is at the destination by now.
WorkerSetTime(w) ==
  /\ pc[w] = "settime"
  /\ dest' = IF dest = NoFile THEN dest ELSE File(dest.data, FileTime, dest.by)
  /\ Goto(w, "deref")
  /\ UNCHANGED <<contextVars, RefCount, receiveVars, poolVars, temp, edits,
                 streamVars, history>>

WorkerSetTimeFails(w) ==
  /\ pc[w] = "settime"
  /\ "settime" \in Faults
  /\ Goto(w, "deref")
  /\ UNCHANGED <<contextVars, RefCount, receiveVars, poolVars, fileVars,
                 streamVars, history>>

\* fs::remove of the temporary file, in the form that throws: nothing catches
\* the exception in a thread of the pool, and the program is terminated.
WorkerDiscard(w) ==
  /\ pc[w] = "discard"
  /\ \/ /\ temp' = NoFile
        /\ FileWriteStream' = IF FileWriteStream = "temp" THEN "orphan" ELSE FileWriteStream
        /\ Goto(w, "deref")
     \/ /\ "remove" \in Faults
        /\ Goto(w, "terminated") /\ UNCHANGED <<temp, FileWriteStream>>
  /\ UNCHANGED <<contextVars, RefCount, FinalReceive, Buffers, BytesWritten,
                 poolVars, dest, edits, streamVars, history>>

\* if (--RefCount == 0) delete this
WorkerDeref(w) ==
  /\ pc[w] = "deref"
  /\ RefCount' = RefCount - 1
  /\ Goto(w, "idle") /\ Pool!Finish(w)
  /\ UNCHANGED <<contextVars, receiveVars, fileVars, streamVars, history>>

-----------------------------------------------------------------------------
(* Somebody else at the destination *)

\* The file is written in place, or created.
LocalEdit(size) ==
  /\ edits < MaxEdits
  /\ edits' = edits + 1
  /\ dest' = Local(size, edits + 1)
  /\ UNCHANGED <<contextVars, RefCount, receiveVars, poolVars, pc, temp,
                 streamVars, history>>

LocalRemove ==
  /\ edits < MaxEdits
  /\ dest # NoFile
  /\ edits' = edits + 1
  /\ dest' = NoFile
  /\ FileWriteStream' = IF FileWriteStream = "dest" THEN "orphan" ELSE FileWriteStream
  /\ UNCHANGED <<contextVars, RefCount, FinalReceive, Buffers, BytesWritten,
                 poolVars, pc, temp, streamVars, history>>

-----------------------------------------------------------------------------

Freed == phase = "live" /\ RefCount = 0

\* No exception has terminated the program.
Alive == \A w \in IoWorkers : pc[w] # "terminated"

\* Nothing is left to happen to this context.
Done ==
  /\ \/ /\ phase = "abandoned" \/ (phase = "live" /\ stream = "closed")
        /\ queue = << >> /\ \A w \in IoWorkers : pc[w] = "idle"
     \/ ~Alive
  /\ UNCHANGED vars

Snapshot == SnapshotExists \/ SnapshotModTime \/ SnapshotSize \/ OpenStream
Receives == \E n \in 0..(total - delivered), fin \in BOOLEAN : Receive(n, fin)

WorkerStep(w) ==
  \/ WorkerStart(w) \/ WorkerOpen(w) \/ WorkerOpenFails(w)
  \/ WorkerWrite(w) \/ WorkerWriteFails(w) \/ WorkerComplete(w)
  \/ WorkerFinal(w) \/ WorkerClose(w) \/ WorkerExists(w) \/ WorkerExistsFails(w)
  \/ WorkerSize(w) \/ WorkerModTime(w) \/ WorkerVerify(w)
  \/ WorkerRename(w) \/ WorkerRenameFails(w)
  \/ WorkerSetTime(w) \/ WorkerSetTimeFails(w)
  \/ WorkerDiscard(w) \/ WorkerDeref(w)

Next ==
  \/ /\ Alive
     /\ \/ Snapshot \/ OpenStreamFails
        \/ Receives \/ PeerAborts \/ ConnectionLost \/ ShutdownComplete
        \/ \E w \in IoWorkers : WorkerStep(w)
        \/ (\E s \in LocalSizes : LocalEdit(s)) \/ LocalRemove
  \/ Done

(* Fairness: threads are scheduled and their calls return, and the client  *)
(* and the network deliver what was sent, which MsQuic then indicates.     *)
Fairness ==
  /\ WF_vars(Alive /\ Snapshot) /\ WF_vars(Alive /\ Receives)
  /\ WF_vars(Alive /\ ShutdownComplete)
  /\ \A w \in IoWorkers : WF_vars(Alive /\ WorkerStep(w))

Safety == Init /\ [][Next]_vars
Spec == Safety /\ Fairness

-----------------------------------------------------------------------------
(* Properties *)

InReceive == {w \in IoWorkers : pc[w] \in {"open", "write", "complete"}}
Busy == {w \in IoWorkers : pc[w] # "idle"}

(* Every reference to the context is counted: one for the stream, one for  *)
(* each item that waits in IoPool or runs, and the ones open failures have *)
(* leaked.  So "delete this" runs once, after the last user.               *)
RefsCounted ==
  phase = "live" =>
    RefCount = (IF stream = "closed" THEN 0 ELSE 1) + Len(queue)
               + Cardinality(Busy) + (IF leaked THEN 1 ELSE 0)

(* FileIoWorker may use Stream, which deletes itself after                 *)
(* SHUTDOWN_COMPLETE: only the worker of the pending receive does, and the *)
(* stream is not shut down under it unless the connection is lost.         *)
StreamAliveWhenUsed ==
  stream = "closed" /\ ~lost => InReceive = {} /\ queue = << >>

(* What the size check is for: a file that was installed is the file the   *)
(* client sent, whole and in order, provided each worker acted on the      *)
(* FinalReceive of its own receive and close() wrote what it was given.    *)
WholeUnlessStale ==
  dest # NoFile /\ dest.by = "server" /\ ~stale /\ ~cut
    => dest.data = Chunks(1, NewFileSize)

(* A transfer of which everything arrived, in the size announced, leaves   *)
(* no temporary file: it was renamed or, where the destination was edited  *)
(* or the rename failed, removed.  (A wrong size, a failed write and a     *)
(* stream that is aborted leave it.)                                       *)
NoTempLeft ==
  Freed /\ FinalReceive /\ BytesWritten = total /\ total = NewFileSize /\ ~stale
    => temp = NoFile

(* "New file size doesn't equal the bytes written to disk!" (server.cpp):  *)
(* a file whose size is wrong on disk is reported and not installed.       *)
WrongSizeNotInstalled ==
  dest # NoFile /\ dest.by = "server" => Len(dest.data) = NewFileSize

(* The context keeps the promise of Transfer: what it puts in the place of *)
(* what it saw there, when, and what it sets the time of.                  *)
TransferState ==
  LET Somebody(labels) == \E w \in IoWorkers : pc[w] \in labels
      Finished == \E w \in IoWorkers : mine[w] /\ pc[w] \in {"discard", "deref", "idle", "terminated"}
  IN  IF phase \in {"exists", "mtime", "size", "open"} THEN "idle"
      ELSE IF phase = "abandoned" \/ Freed \/ Finished THEN "over"
      ELSE IF Somebody({"settime"}) THEN "installed"
      ELSE IF Somebody({"verify", "rename"}) THEN "checked"
      ELSE "under way"

Promise == INSTANCE Transfer WITH
             LocalFiles <- {Local(s, k) : s \in LocalSizes, k \in 0..MaxEdits},
             state <- TransferState,
             seen <- IF FileExists /\ phase \in {"size", "open", "live"}
                       THEN SnapshotDestModTime ELSE NoFile,
             whole <- Chunks(1, NewFileSize),
             astray <- stale

ImplementsTransfer == Promise!Spec

(* A context whose stream was started is freed: the client's FIN, an       *)
(* abort, and every early exit of FileIoWorker but a failed open give up   *)
(* their reference, as long as no exception terminates the program.        *)
FreedAtLast == phase = "live" ~> Freed \/ leaked \/ ~Alive

=============================================================================
