# Specifications of qsync

qsync copies a folder from a client to a server over one QUIC connection
(MsQuic). The client scans its folder and announces every entry on a control
stream; for each entry the server either replies that its copy is current, or
makes the folder, or opens a data stream on which it asks for the file. This
directory holds TLA+ specifications of the C++ program, TLC configurations that
check them on small instances, and TLAPS proofs of theorems about them.

    tlc -config MCFileSend.cfg MCFileSend      # one run
    tlapm FileSendProofs.tla                   # one proof module

`PROJECT.json` lists the runs, the mutants, the source lines each definition
stands for, the findings, the hazards and the theorems.

## Inventory

### Threads

| thread | runs |
|---|---|
| main (client) | `QsyncClient::Start`: `FindFiles` and its callback, then waits for a key |
| MsQuic's worker (either end) | the listener, connection and stream callbacks; for one connection, one callback at a time |
| `QsyncClient::Pool`, 1 thread | `DataStreamContext::FileIoWorker` of the client: reads and sends blocks |
| `QsyncServer::Pool`, 1 thread | `QSyncServerWorkerCallback`: decides for each announced entry |
| `QsyncServer::IoPool`, 8 threads | `DataStreamContext::FileIoWorker` of the server: writes received blocks, installs the file |

### Components

| component | state | operations | what makes it correct |
|---|---|---|---|
| **Thread pool** `threadpool.h` | deque, mutex, condition variable, `WorkerContinue` | worker loop, `Enqueue`, destructor | items start once, in order, none forgotten; no `front()` of an empty deque; the destructor returns |
| **File scan** `files.cpp` | `UnexploredDirs`, the static `FileId` | `FindFiles`, `FindFilesParallel`, `ProcessFolder`, `DirItemToFileInfo` | folders before what they hold; every entry once; one id per entry; an end |
| **Update decision** `files.cpp:17` | the destination | `DoesFileNeedUpdate` | a second run finds nothing to do |
| **Synchronisation** `client.cpp`, `server.cpp` | `FileInfos`, the two directions of the control stream, the data streams | scan callback, `AddFileToList`, `QSyncServerWorkerCallback`, the reply and id lookups | what is asked for is known; folders exist before their files; entries are released; the run comes to rest |
| **Control stream framing** `server.cpp:316-413` | `PartialData`, `Remainder*`, `SkipMessageBytes` | the RECEIVE case | every message once, whole, in order, wherever buffers cut the stream |
| **Id framing** `client.cpp:61-98, 157-202` | `FileIdBytes`, `PartialFileIdBytes` | the receive loop of both client callbacks | every id once, in order |
| **Sending a file** `client.cpp:10-138` | `OutstandingSends`, `EndOfFile`, the file stream | client `FileIoWorker`, RECEIVE, SEND_COMPLETE, SHUTDOWN_COMPLETE | blocks in order, one FIN, no stall, nothing used after it is freed |
| **Receiving a file** `server.cpp:28-106, 194-236, 425-458` | `RefCount`, `FinalReceive`, `BytesWritten`, the snapshot of the destination, the temporary file | snapshot, RECEIVE, server `FileIoWorker`, SHUTDOWN_COMPLETE | a destination file is replaced by the whole file or not at all, and not if it was edited meanwhile; the context is freed once |
| **Session** `auth.cpp`, listener and connection callbacks, destructors | `Connection`, `ControlStream`, `Listener`, `CertPw`, the order of the members | `Start`, NEW_CONNECTION, PEER_CERTIFICATE_RECEIVED, CONNECTED, PEER_STREAM_STARTED, SHUTDOWN_COMPLETE, `~Server`, `~Client` | a session only with the same password; who has it gets one; answers go to whom they belong; nothing is used once destroyed; the programs end |
| **Announcements** `client.cpp:189-207, 353-388` | the bytes of a `FileInfos` entry, the header of each `Send` | the callback of `Start`, SEND_COMPLETE, the erasing of entries, the graceful shutdown | what is transmitted is what was found; headers are freed once, and not too soon; everything announced arrives |
| **Command line** `qsync.cpp` | the passwords | `main`: start, wait for Enter, destroy | part of Session |
| **Serialisation**, **Rust port** | none of its own, or unfinished | | not modelled (see the end) |

### How they interact

* The scan calls a callback that puts the entry into `FileInfos` and then sends
  it. Callbacks on MsQuic's thread look entries up and erase them.
* The control stream's callback gives each message to `Pool`. Its single thread
  is what keeps a folder ahead of the files in it; the client's single-threaded
  pool keeps the blocks of a file in order.
* A receive is answered `QUIC_STATUS_PENDING`: MsQuic indicates no other receive
  on that stream before `ReceiveComplete`, called by an `IoPool` thread.
* A send's completion and the worker that sent it both enqueue the next read.
* An announcement's body is not copied: MsQuic reads it, whenever it transmits,
  from the entry that the answer erases.
* `main` destroys `Server` or `Client` while MsQuic's and the pools' threads go on;
  the members are destroyed one by one, last declared first.

### What is hard here

Notifications outside the mutex; a counter incremented after the send it counts,
so that it passes through 2^32 - 1; a context deleted while items of it are
queued; a flag read after the receive it belongs to was completed; edits of the
destination between snapshot and rename; buffers that cut a size or an id; a
counter and a map shared without a lock; a limit on streams with refused and
unanswered files; members replaced and destroyed under the feet of callbacks;
memory read again long after it was handed over; failures that look like success.
Each is a hazard of `PROJECT.json`, with the properties that would catch it, but for
the limit on outstanding sends, which the code does not keep and nothing relies on.

## Modules

    WorkQueue        what a pool promises: a FIFO of items                (abstract)
     ^ implemented by  Threadpool        mutex, condition variable, worker loops
     ^ used by         FileSend, FileReceive, Sync
    Transfer         what receiving a file does to the destination        (abstract)
     ^ implemented by  FileReceive       receives, workers, file system calls
    Auth             certificates and salts
     ^ used by         Session           handshake, members, destructors
    Announce         the memory of what the client announces
    FindFiles        the scan
    ControlFraming   the server's reading of messages
    FileIdFraming    the client's reading of ids
    Sync             one synchronisation, composed from what the others promise
    *Proofs          theorems about Threadpool, FileReceive, FileSend, Session,
                     Announce, Sync, FindFiles, ControlFraming and
                     FileIdFraming (the last two in FramingProofs)
    MC*              instances for TLC

**Threadpool** has a program counter for each worker, for each call of `Enqueue`
and for the destructor. Steps are cut where the code takes or releases the mutex
and where it touches shared state outside it: `WorkerContinue` in the loop's
condition, and the notifications. A work item may call `Enqueue` while it runs.
`ImplementsWorkQueue` is the refinement: the deque is the queue, the callable in
a worker's hand the item it runs, `~WorkerContinue` the stop.

**WorkQueue** is that promise. `FileSend` and `FileReceive` take it as their
pool, with one item per stream or the one item of a context; `Sync` takes it as
the server's `Pool`. None of them shuts the pool down.

**FileReceive** follows one context from the snapshot
(`SnapshotExists/ModTime/Size`, `OpenStream`) through the receives
(`Receive`, `PeerAborts`, `ConnectionLost`, `ShutdownComplete`) and the worker,
one action for each file system call and each access to a shared field
(`WorkerOpen` ... `WorkerDeref`), to the rename. `LocalEdit` and `LocalRemove`
are somebody at the destination. A file's bytes are a run of numbered chunks, so
that a chunk missing, twice or out of place shows. A file stream that outlives
its file writes to an orphan. The removals of the temporary file are the throwing
`fs::remove`, in a thread without a handler: one that fails ends the program
(`Alive`). `ASSERT(BufferCount == 2)` of the callback is taken as not compiled.

**Transfer** is the abstract specification of the destination: it is looked at, the
file is asked for, the destination is compared with what was seen, replaced by the
whole file in one step, and given the client's time in another; or the transfer
ends. Others may edit the destination between any two steps. `ImplementsTransfer`
maps the places of the worker in `FileReceive` to these states. The promise has
three excuses, each an event of the code: a worker has used a later receive's flag
(`astray`), a close lost bytes (`cut`), `exists` or the time failed at the second
look (`blind`). What `Sync` assumes of a transfer is its `Install` and `End`.

**FileSend** has every stream of a connection on the one thread of the client's
`Pool`. Block number k is k. `WorkerTest`, `WorkerRead`, `WorkerSend`,
`WorkerCount`, `WorkerCheck` are `FileIoWorker` in its order; `SendComplete`,
`SendCompleteTest`, `SendCompleteCheck` the three looks SEND_COMPLETE takes at
shared fields. `WorkerUndefined` is an item that finds its context deleted: it
reads either what was there or anything, and in the second case nothing is
assumed of that thread any more. A stream's SHUTDOWN_COMPLETE has three causes: the
FIN with everything sent, or the refusal of the file; the server's abort, after a write
or an open of its own failed (`PeerAborts`); the loss of the connection
(`ConnectionLost`). After the last two (`aborted`) the callback deletes the context
whatever the worker is doing with it, and sends that are under way are completed
as cancelled.

**ControlFraming** and **FileIdFraming** name a byte by its place in the stream,
so a buffer is an interval and a message found in the wrong place is visible.
In `ControlFraming` buffers and events end anywhere. The callback does not cope with
every receive: it takes the message of a completed size from the same buffer, drops the
second buffer of an event that does not have all of a message, and forgets what it had
to skip beyond one buffer. `SizeIsProvidedFor`, `EventIsProvidedFor` and
`SkipIsProvidedFor` say which receives it copes with, and the history `regular`
remembers whether all were so far; the model goes on after others until something is
taken for a size that is none (`Misframed`). In `FileIdFraming`, `RestIsAlone` says
which cuts a run allows.
`Due(b)` is the set of messages that should have been added when the bytes up to b
have arrived, `Rank(m, b)` the place of m among them.
`FileIdFraming` stands for the two callbacks that have the same loop.
`InitialFileIdBytes` in it, and `Unset` in `ControlFraming`, is what the counter the
loop starts from may hold: zero in the context of a data stream, which
`new DataStreamContext()` clears, and anything in the members of
`QsyncClient` (client.h:37) and `QsyncServer` (server.h:41), which their
user-provided constructors do not set. In `ControlFraming` a start from something else
is in the model, and irregular. The run of `FileIdFraming` takes zero: with anything
else TLC finds the first reply misread.

**FindFiles** has both scans, and for the second a thread per folder of the
current depth, whose futures (`ParallelResults`) are got in their order
(`GetResult`) while other threads still run. `++FileId` is a load and a store
(`LoadFileId`, `StoreFileId`). What a scan can come to (`Reached`) is the least set
that has the folder and, with a folder that could be opened, what is in it.
`status()` follows links, so an entry is a folder, a file, something else or
broken; the branches of `ProcessFolder` for links are never reached
(`SkipOther`). `Error` is one variable for the loop and the calls in it: the
`status()` of a broken entry leaves it set, the loop is continued, and finds it set
at the next entry (`SkipBroken`, `AtItem`, `LoopOver`).

**Sync** takes from the others what they promise: an announcement order in which
folders come first (`ParentFirst`), FIFO channels, the work queue, and a transfer
that installs the file or does not. Its own subject is `FileInfos`, the decision
`NeedsUpdate`, the replies, the streams with the client's limit, and times: in
half seconds, cut to seconds when announced, and moved, by the server's `Clock`, when
something is put into a folder. Nothing orders that clock and the times announced, so a
folder may end up with a time before its announced one (`behind`). `FileInfos` is shared without a lock. When an emplace and a
callback meet, the lookup may miss and an emplace or erase may be lost; `raced`
remembers it. `Stall` is a file that is asked for and never sent to its end, the
client's Send having failed for good: its stream stays open and keeps its slot.

**Auth** keeps of a certificate its serial number and who can verify it. A salt is
a sequence of bytes, a serial number the same without leading zeros, and
`Padded` puts these back; keys are equal only if password and salt are.

**Session** has a main thread for the server and for each client (`at`, `gone`),
each connection as its two ends see it (`cside`, `sside`), the two members through
which the server reaches a client, and one announcement per client with its answer,
so that it shows whom an item of the server's `Pool` answers. `Members` is the order
of the declarations backwards; `Destroy` runs one member's destructor, once what it
waits for (`MayGo`) is so: RegistrationClose waits for the connections, ~Threadpool
for its thread. A callback that uses a destroyed member is noted in `dead`, and the
program it happened to is followed no further (`Sound`).

**Announce** splits a message into the two buffers given to `Send`: the header,
freed by SEND_COMPLETE, and the body, in the entry. `Read` puts a part into a packet
as it is in memory at that time; packets are lost, overtake each other and are sent
again, acknowledgements are late. A part read after it was freed is garbage.

Variables named `lost`, `stale`, `leaked`, `cut`, `blind`, `mine`, `failed`,
`orphans`, `skipped`, `regular`, `behind`, `raced`, `crossed`, `stray` and `submitted` are history: no
guard of the code's depends on them, except that `failed` counts against
`MaxFailed`, `submitted` bounds the items, and `raced` opens the outcomes of a race
in `Sync`. (`lost` of `Announce` counts packets against `MaxLost`.) `dead` of
`Session` is history that ends the program it concerns. Operators marked "A bug:" are
used by the mutants only.

## Runs

| run | instance | states | shows |
|---|---|---|---|
| `threadpool` | 3 workers, 2 callers, 3 items | 55 198 | `DispatchHasItem`, `NoIdleWorkerWhileBacklog`, refinement of `WorkQueue` with its liveness, `DestructorReturns` |
| `receive` | 2 workers, files of 0-2 chunks, 1 local edit of size 1 or 2, every fault | 1 506 798 | references add up, contexts are freed; the stream is alive when used; what is installed is whole; what is left behind; refinement of `Transfer`: an edit the server could see is not overwritten |
| `receive_stale_fin` | 2 workers, 2 chunks, no fault | - | finding |
| `send` | 2 streams, limit 2, counter modulo 4, up to 3 blocks, streams aborted, the connection lost, every other fault | 346 528 | counter, FIN, deletion, no stall, order, completion |
| `id_framing` | 3 ids of 8 bytes, any cuts, rest of an id alone in its buffer | 297 | every id is found, in order |
| `id_framing_control` | any cuts | - | finding |
| `framing` | sizes of 4 bytes, bodies of 1, 4, 6 and 2, any cuts, events of 1 or 2 buffers, failing allocations, `SkipMessageBytes` 0 or 2 at the start | 2 204 005 | `FramedWhileRegular`: every message is added, whole and in order, unless skipped, up to the first receive the callback does not provide for |
| `framing_two_buffers` | sizes of 2 bytes, bodies of 1, 3, 2 | - | finding |
| `find_files` | every tree of 4 entries (up to the order of siblings), both functions, one unnoticed failure | 603 749 | `ParentFirst`, `Complete`, `UniqueIds` of the sequential scan, `Returns` |
| `sync` | a folder, a file in it, a file beside it; 11 destinations; a server's clock behind or ahead; 2 failures; 1 stream | 118 960 | `AskedIsKnown`, `ParentThere`, `NextRunIdle`, `Released`, `Settles` |
| `session` | a server, 2 clients, 4 ways to give passwords, a salt with a leading zero and one with a trailing one, Enter at the server and one client, every fault | 341 159 | `SamePassword`, `AnswersGoBack`, `UsesAlive`, `Connects`, `ExitReturns` |
| `announce` | 2 files with the same or different ids, 1 packet lost, 1 sent without need, every fault | 214 466 | `TakenIntact`, `HeadersOutliveReads`, `HeadersFreed`, `AnnouncedArrives` |

The types of `Threadpool`, `FileReceive`, `FileSend`, `Announce` and `Sync` are
proved and not run; those of `Session`, `FindFiles`, `ControlFraming` and
`FileIdFraming` (`IdTypeOK`) are both.

### Why the bounds are enough

* Pool: three workers let one run, one wait and one be between the two; three
  items outnumber the workers on their way to one; two callers notify at once.
* Receive: two workers are needed and enough for a worker to be overtaken by the
  next receive's, as MsQuic has one receive of a stream pending at a time. Two
  chunks make a first, a last and, with an empty FIN, a later receive. One edit,
  before or after each look, suffices for `ImplementsTransfer`, whose comparison is
  with one snapshot; its sizes are those a received file has. The theorems hold for
  every number of workers, chunks and edits.
* Send: with `MAX_OUTSTANDING_SENDS` 2 (4 in the code) and 3 blocks the limit is
  reached with blocks left. The counter's modulus, 2^32 in the code, only has to
  be larger than the sends there can be (`FileSendAssumption`): 4 makes it wrap.
  Two streams share the pool. The theorems hold for every limit, length and
  number of streams.
* Framing: the bodies are shorter than, equal to and longer than a size, so that
  a buffer may end before, within and after each. The finding's sizes are of 2 bytes to
  make its trace the shortest; with 4 there is one as well. Ids have their real 8 bytes.
* Scan: four entries give three levels, siblings, and two folders of one depth.
* Sync: every combination of kinds and of older, same, newer and other size at
  the destination; one time of the clock before everything announced and one after;
  one stream makes every refused or unanswered one matter. The
  theorems hold for every tree.
* Session: two clients are one that is there and one that comes late. Passwords:
  the same; a client with none, or another one; a server with none. Enter at one
  client only, the two being alike.
* Announce: two files make an order, a collision of ids, and a body erased while the
  other message is under way; one loss and one needless retransmission make every
  packet that may come twice or late.

`MaxChunks`, `MaxEdits`, `MaxBlocks`, `MaxFailed`, `MaxLost`, `MaxAgain`, `Quitters`,
`Items` of the pool and the constants of the MC modules are the only bounds. No run
uses a state constraint. Symmetry is used in `receive_stale_fin` only, which checks
no liveness.

Deadlock is not checked in `session` and `announce`: nobody has to press Enter, and
a client that has ended does nothing more. It is in the others, whose last states
are named (`Done` and the like).

### Fairness

Threads are scheduled and system calls return, so every thread's own steps are
weakly fair. Re-acquiring the pool's mutex is strongly fair: a thread that finds
it free again and again gets it at last. Nobody owes a call of `Enqueue`, of the
destructor, a spurious wakeup or a local edit. Of MsQuic it is assumed that it
delivers what was sent while the connection lasts, completes every send and
indicates the events it owes, which is its contract; loss of the connection is an
action without fairness; so is the server's abort of a stream. In `Sync` a transfer comes
to an end or stalls: `FreedAtLast` and `SentToTheEnd` say of its two halves that it
ends, but for what these exclude. One that stalls has failed and keeps its slot, and
`Settles` excepts that all slots are kept so. In `Session`
MsQuic indicates what it has to and notices that an end is gone, which its timeouts
see to, and a destructor goes on once what it waits for is so; starting a program
and pressing Enter are not fair. In `Announce` a part that is not acknowledged is
transmitted, and only `MaxLost` packets are lost.

### Findings

1. `receive_stale_fin` - `FinalReceive` is read after `ReceiveComplete`
   (server.cpp:50-51). The callback of the last receive may set it in between;
   the worker of the one before closes the file, the size check passes or fails
   on the wrong moment, and while it renames, the next worker opens the same
   temporary path with `ios::trunc`. A file of the wrong size is installed.
2. `id_framing_control` - `FileIdBytes` is cleared before it is used to move on
   (client.cpp:177), so after the rest of a cut id 8 bytes are passed over.
3. `framing_two_buffers` - after a cut size the message is taken from the buffer
   whether it ends there or not (server.cpp:337).

### Observations

What the models show, or had to be told, without a line of the repository that says
otherwise:

* The body of an announcement is read after its entry was erased, when a packet is
  sent again although the server has answered (`TransmitAgain` with `stray`). The
  server never takes the garbage in (`TakenIntact`); the read of freed memory stays.
  A client that is left early can send garbage for the first time.
* `Connection` and `ControlStream` are destroyed before the pools and while
  callbacks run; `UsesAlive` says which members are out of reach of this.
* A connection that is indicated before the listener stops, and handled after,
  replaces `Connection`: items of the first client then ask the second
  (`AnswersGoBack` excepts it by `raced`).
* A connection that SetConfiguration refuses is closed by MsQuic and again by the
  member that keeps it (server.cpp:257-262).
* `FindFilesParallel`, which nothing calls, gives the same id twice: `++FileId` is
  a plain `uint64_t` (files.cpp:128). `UniqueIds` is about `FindFiles`.
* A file that is newer at the server is overwritten when the sizes differ
  (files.cpp:93); `NeedsUpdate` does the same.
* A worker whose open fails does not give its buffer and reference back
  (server.cpp:33-37): `FreedAtLast` excepts it by `leaked`.
* A broken link costs the entries that follow it in its folder: `status()` leaves `Error`
  set and the loop, continued, breaks on it (files.cpp:154-163). The scan then returns
  false (`Complete`), and what it has announced until then is synchronised all the same.
* A context of the client's is deleted while an item reads its file or sends, when the
  server aborts the stream or the connection is lost (client.cpp:131-132):
  `DeletedIsFinished` excepts it by `aborted`.
* Where the server's clock is behind the client's, a folder in which something was put
  has a time before the announced one (server.cpp:32, 89, 138 against files.cpp:118-125):
  the next run sets it again. `NextRunIdle` excepts it by `behind`.
* A Send of the client's that fails for good sends no FIN and shuts nothing down
  (client.cpp:31-35): its stream keeps one of the slots until the connection ends
  (`Stall`), and once all are kept so nothing more is transferred.
* An `fs::remove` that fails (server.cpp:65, 70, 76, 81, 92) throws in a thread of
  `IoPool`, which nothing catches: the server ends.
* Almost every receive that the callback does not provide for loses its place in the
  control stream: the message after a cut size is read beyond the buffer, the second
  buffer is dropped, what is left to skip is forgotten, or the first message is looked
  for at the wrong byte. (Not if what is lost belongs to a last message that is skipped.)
* A `close()` that fails unnoticed (server.cpp:53) leaves a file short on disk, which
  is installed: `WholeUnlessStale` excepts it by `cut`.

## Proofs

Proved for every value of the constants that the ASSUMEs of the modules admit
(finite sets of threads, distinct model values, a counter wider than the sends).

**ThreadpoolProofs.** `Base`, the conjunction of `TypeOK`, `NestedCalls` (only a
running item calls `Enqueue` from a worker), `MutexDiscipline` and
`DispatchHasItem`, is inductive; mutual exclusion is what makes the item seen by
the predicate still be there at `front()`. `TypeAndMutexCorrect` and
`DispatchSafe` follow. `NoLostWakeup` adds `NoIdleWorkerWhileBacklog`, which is
inductive relative to `Base`: an item enqueued is paid for by a notification on
its way, a notification turns into a worker that comes to the deque, and a worker leaves
for an item with an item fewer in the deque, or goes to sleep on an empty one. Workers
inside an item count for nothing. `JoinReturns` is the destructor's: clearing `WorkerContinue` and
notifying are two steps, between which a worker may still be about to sleep, and by
`Stopping` none is after them. `ThreadpoolImplementsWorkQueue` maps every step to one of
`WorkQueue` or a stutter (safety part).

**FileReceiveProofs.** `Control` says where the one receive MsQuic waits for is:
queued, or with one worker that has not completed it, or, after a failed open,
nowhere. With it the references count: `ReferencesCounted`, whatever fails. From the
count follow both sides of `delete this`: `NoUseAfterDelete`, that nothing happens to a
context that is freed, and `NothingKept`, that at rest it is freed or a failed open has
leaked a reference.
`StreamOutlivesUse` adds that a stream going down has no such receive, if the
connection is not lost. `InstalledWhole` rests on `Assembled`: as long as no worker
has acted on another receive's flag, a worker past its last receive is alone, the
file stream is open while receives come, and the temporary file is the run of
chunks delivered so far. The strengthening is needed because `WholeUnlessStale`
speaks of the destination only, which a single rename changes; histories only grow
(`HistoryStays`), so each theorem is unconditional and the exceptions are the
property's own. `TypeCorrect` adds `DataTypes`: a file stream that is open at the
temporary file has one there. `Finished` is about the worker of the last receive:
where it is says what has become of the temporary file and what was compared. From it
`TempCleanedUp` follows, and `PromiseImplemented`: `ImplementsTransfer` as it is run,
that is, the initial states map to initial states of `Transfer` and each step of the
threads, callbacks and failures is a step of it or a stutter.

**FileSendProofs.** `Sound` says what the only thread of `Pool` may be doing for
which stream: nothing for one that is not open, surplus items only for a deleted
one, and the order of blocks read, sent and under way. `SendsCounted` (the counter
is exact but for the send being counted, in arithmetic modulo `CounterModulus`),
`FinIsLast`, `DeletedLeftAlone`, `StreamsNeverStall` and `BlocksInOrder` follow, the
last two with one more invariant each (`Moving`, `Ordered`). A send that fails loses
its block for good (`LostForGood`), so the last two speak of streams without one. A
context is deleted at any time once its stream is `aborted`, also while its item reads,
sends or counts: `Sound` then says nothing of that item's block, and all that is left to
need is that what is deleted stays so (`DeletedForGood`); the order of its blocks is
that of the file up to there.
`BlocksInOrder` is where `PoolSize = 1` is used.

**SessionProofs.** `SamePassword` is inductive with `Accepted`: a connected client
has verified the server's certificate. Only its own password verifies a certificate
(`VerifiesSame`), whatever the salts; loss, refusal, replacement and destruction only
take connections away (`NoProgress`). `AnsweredToWhoAsked` needs `One`: unless a late
connection has replaced it, `Connection` and `ControlStream` lead to the client whose
items are in the Pool, and no other can come, the listener being stopped.
`PoolsOutlive` needs `Gone`, what each destructor has waited for, and `Handle`, that
`Connection` leads to a connection that is open or was refused. `PasswordDecides` is
the lemma of `SamePassword` with its converse: a certificate made with the same
password is accepted, because a salt that travels as a serial number comes back whole
however many leading zeros it has (`SaltComesBack`; how many there are, `Zeros`, is a
least number). `OthersRefused` is what that gives for steps: neither end ever
refuses one that has its password.

**AnnounceProofs.** `TakenIntact` needs `Unique` (entries have different ids, so an
answer erases no other's), `Kept` (an entry is gone only after its answer), `Heard`
(the server answers what it has whole) and `Harmless` (garbage under way is of parts
the server has). `HeaderKept` gives `HeadersOutliveReads`.

**SyncProofs.** `Once` says that an item is in one place at a time on its way from
the scan over the control stream, the queue and the thread to a reply or a stream.
`Known` is inductive with it: nothing erases the entry of an item on its way.
`Ordered` says that an item is behind its folder on each stretch, which uses
`PoolSize = 1`; with `Folders`, that a folder behind the Pool is at the destination,
failed, or an orphan itself, it gives `FoldersThere`. That the folder an item is in
is a folder of the client's, is an assumption on `Sources`. `Caught` says of an item
that has left the Pool that its copy is current or being transferred, or that it
failed or has no folder; at rest nothing is under way, which is
`NothingLeftToDo`: the times of a folder, moved by what is put into it, and the
fractions of seconds are the work of that proof. `Fine` is what `Caught` keeps of a
copy: it is current, or a folder that is `behind`. Nothing is assumed of `Clock`: what
a step puts into a folder leaves it fine (`TouchedFine`, `MadeFine`), whether it moves
it forward or, with `behind`, back. `Held` says in the same way why an
entry is still in `FileInfos`; `EntriesReleased` follows.

**FindFilesProofs.** The theorems share `ScanInv`. `Items` relates what a call of
`ProcessFolder` has put into `Directories` to what its iterator has passed; `Queue`
says that a folder's turn comes once and after that of the folder it is in,
`Covered` that it comes, if the scan reaches it; `Callbacks` that what was passed is
announced, once, or about to be, or its size was not to be had. Without these
`ParentFirst` is not inductive: it looks only at the calls already made. `Complete`
needs besides that the set of entries come to is closed (`Closed`), so that it has
all of `Reached`: which is why that is a least closed set and no recursion, and why
no assumption on cycles is needed. `Counted` (no id is more than the number of
entries that have one) bounds the counter for `TypeCorrect`, in the threads of a
round too; `Broken` says that a loop that will be left early has made the scan a failure,
so that one that succeeds has passed everything; `Numbered`, that the id in hand is the next after those given, holds in
`FindFiles` only, and gives `IdsUnique`. The only assumption on trees is that what
is in something is in a folder.

**FramingProofs.** A message begins at the sum of the sizes before it, which the
recursive function `First` adds up. What such a function is for every argument is
shown by the least counterexample (`LeastNumber`, from the well-foundedness of the
order on the numbers, with no induction scheme): that there is such a function
(`FirstIs`) and that it rises (`InTurn`). `FramingInv` is then
inductive: `Framed` alone says nothing of what is kept. It names the message m that is
read next; `Reading` says where it begins or how much of its size or body is kept,
`Skipping` that what is passed over is the rest of the message before it, `Ahead` that
the buffer to come has enough of it, `Recorded` that those before it were added, each
once and in order, or skipped; `EventCut` that a message cut by an event of two buffers
is all in that event. Together they are `Following`, and `FramingInv` is the types with
`regular => Following`. A receive keeps it if the callback provides for it
(`ReceiveReads`, where the three conditions of `regular` are used, each for one of
`Ahead` and `EventCut`), and if not, nothing is left to show, since `regular` does not
come back (`RegularBefore`). `FramingCorrect` has no hypothesis: any number and sizes
of messages, empty ones too, any ends of buffers and events, any lack of memory, any
`SkipMessageBytes` to start from. Nor has `FramingTypeCorrect`, which also holds after
an irregular receive: the callback keeps less than a size or a message and only bytes of
the stream.

For the ids, `AtPlace` says where in the stream the loop is: after the ids found and the
bytes kept; `PartIsKept`, that these are the first of the next id; `Alone`, that a
buffer which begins within an id ends within it or with it. `ReadRest` moves on by a
whole id where the rest of one was meant, which `Alone` makes harmless; without it the
invariant fails in `AtPlace`, as the finding shows. `IdsLookedUp` has this as a
hypothesis: no buffer holds the rest of an id and more (`RestIsAlone`), or there is one
id (`Ids = 1`, any data stream, where it need not be assumed), and the counter
starts from zero. `IdTypeCorrect` has no hypothesis. The arithmetic is two lemmas on
multiples (`TimesMonotone`, `Quotient`).

Only model-checked: all liveness (`DestructorReturns`, the fair part of
`ImplementsWorkQueue`, `FreedAtLast`, `SentToTheEnd`, `Returns`, `Settles`,
`Connects`, `ExitReturns`, `HeadersFreed`, `AnnouncedArrives`), which is beyond the
prover. What of it is safety is proved where it says something by itself:
`JoinReturns`, `NothingKept`, `StreamsNeverStall`, `OthersRefused`.

## Plan

Done: the pool and its abstraction; receiving and sending a file, the first against
an abstract transfer; the framing of both directions; the scan; the session with its
authentication and teardown; the memory of the announcements; the composition; a
theorem for each safety property of the passing runs.

Next, in this order:

1. The loss of the connection in `Sync`, and a second run after it.
2. `UsesAlive` as a theorem for any order of members, not only the one declared.

## Not modelled

* The branches of `QSyncServerWorkerCallback` for links (server.cpp:151-192): this
  client never announces a link.
* The contents of a `FileInfo`, its packed encoding (`vector_stream.h`,
  `fileinfo.capnp`) and path handling: a message is a value, an entry is its id.
* Cryptography: PBKDF2, Ed448 and X.509 are taken to be what they should be; their
  calls do not fail but as one (`StartFails`).
* The parsing of arguments and the printing of a folder (`qsync.cpp`).
* The loss of the connection in the middle of a synchronisation (`Sync`); it is in
  `FileReceive`, `Session` and `Announce`.
* The Rust port (`src/src`): it listens and authenticates and transfers nothing.
* Memory that is leaked without being used again.
* `PartialData` before it is set: a value of 1 or 2 there makes the first callback
  write through an unset length or pointer. The model starts it from none.
