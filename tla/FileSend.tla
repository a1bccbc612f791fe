------------------------------- MODULE FileSend -------------------------------
(***************************************************************************)
(* The files on their way out of the client: QsyncClient's                 *)
(* DataStreamContext, one per stream the server opens, whose FileIoWorker  *)
(* items the client's Pool runs.                                           *)
(*                                                                         *)
(* A stream is kept busy from two sides: the worker enqueues itself again  *)
(* while fewer than MAX_OUTSTANDING_SENDS sends are under way, and MsQuic's*)
(* SEND_COMPLETE enqueues it as well.  The two run on different threads    *)
(* and share OutstandingSends and EndOfFile, so every access is a step.    *)
(*                                                                         *)
(* SHUTDOWN_COMPLETE deletes the context, whatever the Pool still holds of *)
(* it: after the FIN, when the server aborts the stream, or when the       *)
(* connection is lost.  A step of an item of a deleted context finds the   *)
(* values the context had, or the behaviour is undefined from then on.     *)
(*                                                                         *)
(* Data: a file is the sequence of the blocks that read() returns; the     *)
(* short block that ends it (it may be empty) is the one sent with FIN.    *)
(***************************************************************************)
EXTENDS Naturals, Sequences

CONSTANTS
  Streams,                 \* the data streams of a connection
  NoStream,
  MAX_OUTSTANDING_SENDS,
  CounterModulus,          \* OutstandingSends is an atomic_uint32_t
  MaxBlocks,               \* bound: full blocks of a file
  Faults                   \* the calls that may fail, and the aborts

ASSUME FileSendAssumption ==
  /\ NoStream \notin Streams
  /\ MAX_OUTSTANDING_SENDS \in Nat \ {0}
  /\ MaxBlocks \in Nat
  /\ CounterModulus \in Nat /\ MaxBlocks + 1 < CounterModulus
  /\ MAX_OUTSTANDING_SENDS < CounterModulus
  /\ Faults \subseteq {"open", "lookup", "send", "abort", "connection"}

\* A bug: the client's Pool is given a second thread.
PoolSizeTwo == 2

\* Pool(1)
PoolSize == 1

Threads == 1..PoolSize

VARIABLES
  queue, running,     \* Pool
  pc,                 \* where each thread of the Pool is in FileIoWorker
  block,              \* the block in the Buffer of that item
  callback,           \* the stream whose SEND_COMPLETE is being handled ...
  callbackPc,         \* ... and how far
  phase,              \* of each stream and its context
  aborted,            \* streams the server or the end of the connection cut off
  EndOfFile, OutstandingSends,
  read,               \* blocks taken from FileReadStream
  sent,               \* the blocks given to Stream->Send, in order
  finSent,            \* the last of them had QUIC_SEND_FLAG_FIN
  inflight,           \* sends MsQuic has not completed
  lost                \* history: a send has failed

poolVars == <<queue, running>>
callVars == <<callback, callbackPc>>
streamVars == <<phase, aborted>>
fileVars == <<read, EndOfFile>>
sendVars == <<sent, finSent, inflight, lost>>
vars == <<poolVars, pc, block, callVars, streamVars, fileVars, OutstandingSends, sendVars>>

Pool == INSTANCE WorkQueue WITH
          Workers <- Threads, Items <- Streams, Idle <- NoStream,
          stopped <- FALSE

\* uint32_t arithmetic.
Incremented(n) == IF n + 1 = CounterModulus THEN 0 ELSE n + 1
Decremented(n) == IF n = 0 THEN CounterModulus - 1 ELSE n - 1

Init ==
  /\ Pool!Init
  /\ pc = [t \in Threads |-> "idle"] /\ block = [t \in Threads |-> 0]
  /\ callback = NoStream /\ callbackPc = "idle"
  /\ phase = [s \in Streams |-> "waiting"]
  /\ aborted = [s \in Streams |-> FALSE]
  /\ EndOfFile = [s \in Streams |-> FALSE]
  /\ OutstandingSends = [s \in Streams |-> 0]
  /\ read = [s \in Streams |-> 0]
  /\ sent = [s \in Streams |-> << >>]
  /\ finSent = [s \in Streams |-> FALSE]
  /\ inflight = [s \in Streams |-> 0]
  /\ lost = [s \in Streams |-> FALSE]

TypeOK ==
  /\ queue \in Seq(Streams)
  /\ running \in [Threads -> Streams \cup {NoStream}]
  /\ pc \in [Threads -> {"idle", "test", "read", "send", "count", "check",
                         "done", "undefined"}]
  /\ block \in [Threads -> 0..(MaxBlocks + 1)]
  /\ \A t \in Threads : running[t] = NoStream <=> pc[t] = "idle"
  /\ callback \in Streams \cup {NoStream}
  /\ callbackPc \in {"idle", "test", "check"}
  /\ callback = NoStream <=> callbackPc = "idle"
  /\ phase \in [Streams -> {"waiting", "open", "refused", "unknown", "deleted"}]
  /\ aborted \in [Streams -> BOOLEAN]
  /\ EndOfFile \in [Streams -> BOOLEAN]
  /\ OutstandingSends \in [Streams -> 0..(CounterModulus - 1)]
  /\ read \in [Streams -> 0..(MaxBlocks + 1)]
  /\ sent \in [Streams -> Seq(1..(MaxBlocks + 1))]
  /\ finSent \in [Streams -> BOOLEAN]
  /\ inflight \in [Streams -> 0..(MaxBlocks + 1)]
  /\ lost \in [Streams -> BOOLEAN]

-----------------------------------------------------------------------------
(* QSyncClientDataStreamCallback.  MsQuic runs the callbacks of one        *)
(* connection one at a time.                                               *)

\* QUIC_STREAM_EVENT_RECEIVE with the FileId: the file is known and opens.
ReceiveFileId(s) ==
  /\ callback = NoStream
  /\ phase[s] = "waiting" /\ ~aborted[s]
  /\ phase' = [phase EXCEPT ![s] = "open"]
  /\ Pool!Submit(s)
  /\ UNCHANGED <<aborted, pc, block, callVars, fileVars, OutstandingSends, sendVars>>

\* The file does not open: Stream->Shutdown(QUIC_STATUS_NOT_FOUND).
ReceiveFileIdRefused(s) ==
  /\ "open" \in Faults
  /\ callback = NoStream
  /\ phase[s] = "waiting" /\ ~aborted[s]
  /\ phase' = [phase EXCEPT ![s] = "refused"]
  /\ UNCHANGED <<aborted, poolVars, pc, block, callVars, fileVars, OutstandingSends, sendVars>>

\* No file has this id: nothing is sent and nothing is shut down.
ReceiveFileIdUnknown(s) ==
  /\ "lookup" \in Faults
  /\ callback = NoStream
  /\ phase[s] = "waiting" /\ ~aborted[s]
  /\ phase' = [phase EXCEPT ![s] = "unknown"]
  /\ UNCHANGED <<aborted, poolVars, pc, block, callVars, fileVars, OutstandingSends, sendVars>>

\* QUIC_STREAM_EVENT_SEND_COMPLETE: --OutstandingSends.
SendComplete(s) ==
  /\ callback = NoStream
  /\ inflight[s] > 0
  /\ inflight' = [inflight EXCEPT ![s] = @ - 1]
  /\ OutstandingSends' = [OutstandingSends EXCEPT ![s] = Decremented(@)]
  /\ callback' = s /\ callbackPc' = "test"
  /\ UNCHANGED <<poolVars, pc, block, streamVars, fileVars, sent, finSent, lost>>

HasRoom(s) == OutstandingSends[s] < MAX_OUTSTANDING_SENDS

\* ... if (!EndOfFile
SendCompleteTest ==
  /\ callbackPc = "test"
  /\ IF EndOfFile[callback]
       THEN callback' = NoStream /\ callbackPc' = "idle"
       ELSE callbackPc' = "check" /\ UNCHANGED callback
  /\ UNCHANGED <<poolVars, pc, block, streamVars, fileVars, OutstandingSends, sendVars>>

\* A bug: only the worker enqueues itself.
SendCompleteCheckNothing ==
  /\ callbackPc = "check"
  /\ callback' = NoStream /\ callbackPc' = "idle"
  /\ UNCHANGED <<poolVars, pc, block, streamVars, fileVars, OutstandingSends, sendVars>>

\* ... && OutstandingSends < MAX_OUTSTANDING_SENDS) Pool.Enqueue.
SendCompleteCheck ==
  /\ callbackPc = "check"
  /\ IF HasRoom(callback) THEN Pool!Submit(callback) ELSE UNCHANGED poolVars
  /\ callback' = NoStream /\ callbackPc' = "idle"
  /\ UNCHANGED <<pc, block, streamVars, fileVars, OutstandingSends, sendVars>>

\* A bug: the context is deleted as soon as nothing is under way.
ShutdownCompleteEarly(s) ==
  /\ callback = NoStream
  /\ phase[s] # "deleted" /\ inflight[s] = 0
  /\ \/ phase[s] = "open" /\ sent[s] # << >>
     \/ phase[s] = "refused"
     \/ aborted[s]
  /\ phase' = [phase EXCEPT ![s] = "deleted"]
  /\ UNCHANGED <<aborted, poolVars, pc, block, callVars, fileVars, OutstandingSends, sendVars>>

\* QUIC_STREAM_EVENT_SHUTDOWN_COMPLETE: delete This.  Both directions are over,
\* or cut off, and every send has been completed; the Pool is not asked.
ShutdownComplete(s) ==
  /\ callback = NoStream
  /\ phase[s] # "deleted" /\ inflight[s] = 0
  /\ \/ phase[s] = "open" /\ finSent[s]
     \/ phase[s] = "refused"
     \/ aborted[s]
  /\ phase' = [phase EXCEPT ![s] = "deleted"]
  /\ UNCHANGED <<aborted, poolVars, pc, block, callVars, fileVars, OutstandingSends, sendVars>>

\* The server's Stream->Shutdown: it could not open or write the file for the
\* data it received.  The sends under way are completed as canceled.
PeerAborts(s) ==
  /\ "abort" \in Faults
  /\ callback = NoStream
  /\ phase[s] = "open" /\ sent[s] # << >> /\ ~aborted[s]
  /\ aborted' = [aborted EXCEPT ![s] = TRUE]
  /\ UNCHANGED <<poolVars, pc, block, callVars, phase, fileVars, OutstandingSends, sendVars>>

\* The connection is shut down or times out, and every stream with it.
ConnectionLost ==
  /\ "connection" \in Faults
  /\ callback = NoStream
  /\ \E s \in Streams : phase[s] # "deleted" /\ ~aborted[s]
  /\ aborted' = [s \in Streams |-> aborted[s] \/ phase[s] # "deleted"]
  /\ UNCHANGED <<poolVars, pc, block, callVars, phase, fileVars, OutstandingSends, sendVars>>

-----------------------------------------------------------------------------
(* FileIoWorker, on thread t of the Pool; running[t] is "this".            *)

WorkerStart(t) ==
  /\ Pool!Start(t)
  /\ pc' = [pc EXCEPT ![t] = "test"]
  /\ UNCHANGED <<block, callVars, streamVars, fileVars, OutstandingSends, sendVars>>

\* "this" has been deleted, and its members are no longer what they were.
WorkerUndefined(t) ==
  /\ pc[t] \in {"test", "read", "send", "count", "check"}
  /\ phase[running[t]] = "deleted"
  /\ pc' = [pc EXCEPT ![t] = "undefined"]
  /\ UNCHANGED <<poolVars, block, callVars, streamVars, fileVars, OutstandingSends, sendVars>>

\* A bug: the item does not look at EndOfFile.
WorkerTestNothing(t) ==
  /\ pc[t] = "test"
  /\ pc' = [pc EXCEPT ![t] = "read"]
  /\ UNCHANGED <<poolVars, block, callVars, streamVars, fileVars, OutstandingSends, sendVars>>

\* if (EndOfFile) return
WorkerTest(t) ==
  /\ pc[t] = "test"
  /\ pc' = [pc EXCEPT ![t] = IF EndOfFile[running[t]] THEN "done" ELSE "read"]
  /\ UNCHANGED <<poolVars, block, callVars, streamVars, fileVars, OutstandingSends, sendVars>>

\* FileReadStream.read: a full block, or the short one that ends the file.
WorkerRead(t) ==
  /\ pc[t] = "read"
  /\ pc' = [pc EXCEPT ![t] = "send"]
  /\ LET s == running[t] IN
       /\ \E eof \in BOOLEAN :
            /\ eof \/ read[s] < MaxBlocks
            /\ EndOfFile' = [EndOfFile EXCEPT ![s] = eof]
       /\ read' = [read EXCEPT ![s] = @ + 1]
       /\ block' = [block EXCEPT ![t] = read[s] + 1]
  /\ UNCHANGED <<poolVars, callVars, streamVars, OutstandingSends, sendVars>>

\* Stream->Send, with FIN at the end of the file.
WorkerSend(t) ==
  /\ pc[t] = "send" /\ phase[running[t]] # "deleted"
  /\ pc' = [pc EXCEPT ![t] = "count"]
  /\ LET s == running[t] IN
       /\ sent' = [sent EXCEPT ![s] = Append(@, block[t])]
       /\ finSent' = [finSent EXCEPT ![s] = EndOfFile[s]]
       /\ inflight' = [inflight EXCEPT ![s] = @ + 1]
  /\ UNCHANGED <<poolVars, block, callVars, streamVars, fileVars, OutstandingSends, lost>>

\* The block is lost, and the item does not enqueue itself.  A stream that has
\* been cut off may refuse the send, and one that is gone does.
WorkerSendFails(t) ==
  /\ pc[t] = "send"
  /\ "send" \in Faults \/ aborted[running[t]]
  /\ pc' = [pc EXCEPT ![t] = "done"]
  /\ lost' = [lost EXCEPT ![running[t]] = TRUE]
  /\ UNCHANGED <<poolVars, block, callVars, streamVars, fileVars, OutstandingSends,
                 sent, finSent, inflight>>

\* A bug: the counter is not incremented.
WorkerCountNothing(t) ==
  /\ pc[t] = "count"
  /\ pc' = [pc EXCEPT ![t] = "check"]
  /\ UNCHANGED <<poolVars, block, callVars, streamVars, fileVars, OutstandingSends, sendVars>>

\* ++OutstandingSends, when SEND_COMPLETE may already have decremented it.
WorkerCount(t) ==
  /\ pc[t] = "count"
  /\ pc' = [pc EXCEPT ![t] = "check"]
  /\ OutstandingSends' = [OutstandingSends EXCEPT ![running[t]] = Incremented(@)]
  /\ UNCHANGED <<poolVars, block, callVars, streamVars, fileVars, sendVars>>

\* Pool.Enqueue(FileIoWorker) while there is room for another send.
WorkerCheck(t) ==
  /\ pc[t] = "check"
  /\ pc' = [pc EXCEPT ![t] = "done"]
  /\ IF ~EndOfFile[running[t]] /\ HasRoom(running[t])
       THEN Pool!Submit(running[t])
       ELSE UNCHANGED poolVars
  /\ UNCHANGED <<block, callVars, streamVars, fileVars, OutstandingSends, sendVars>>

WorkerDone(t) ==
  /\ pc[t] = "done"
  /\ pc' = [pc EXCEPT ![t] = "idle"]
  /\ Pool!Finish(t)
  /\ UNCHANGED <<block, callVars, streamVars, fileVars, OutstandingSends, sendVars>>

-----------------------------------------------------------------------------

Worker(t) ==
  \/ WorkerStart(t) \/ WorkerUndefined(t) \/ WorkerTest(t) \/ WorkerRead(t)
  \/ WorkerSend(t) \/ WorkerSendFails(t) \/ WorkerCount(t) \/ WorkerCheck(t)
  \/ WorkerDone(t)

Callback(s) ==
  \/ ReceiveFileId(s) \/ ReceiveFileIdRefused(s) \/ ReceiveFileIdUnknown(s)
  \/ SendComplete(s) \/ ShutdownComplete(s)

\* No stream has anything left to do, and neither has the Pool.
Done ==
  /\ \A t \in Threads :
       \/ pc[t] = "idle" /\ queue = << >>
       \/ pc[t] = "undefined"
  /\ callback = NoStream
  /\ \A s \in Streams :
       \/ phase[s] = "deleted"
       \/ /\ phase[s] \in {"open", "unknown"} /\ ~aborted[s]
          /\ ~finSent[s] /\ inflight[s] = 0
  /\ UNCHANGED vars

Next ==
  \/ \E t \in Threads : Worker(t)
  \/ SendCompleteTest \/ SendCompleteCheck
  \/ \E s \in Streams : Callback(s) \/ PeerAborts(s)
  \/ ConnectionLost
  \/ Done

(* Fairness: the Pool's thread runs, and MsQuic completes the sends the    *)
(* peer acknowledges and indicates the events it owes.                     *)
Fairness ==
  /\ \A t \in Threads : WF_vars(Worker(t))
  /\ WF_vars(SendCompleteTest \/ SendCompleteCheck)
  /\ \A s \in Streams : WF_vars(Callback(s))

Safety == Init /\ [][Next]_vars
Spec == Safety /\ Fairness

-----------------------------------------------------------------------------
(* Properties *)

Queued(s) == \E i \in DOMAIN queue : queue[i] = s
Working(s) == \E t \in Threads : running[t] = s

\* A send of s has been handed to MsQuic and is not counted yet.
Uncounted(s) == \E t \in Threads : running[t] = s /\ pc[t] = "count"

\* An item of s may still read the file or send.
Sending(s) == \E t \in Threads : running[t] = s /\ pc[t] \in {"read", "send"}

(* OutstandingSends counts the sends under way, off by the one being       *)
(* counted: it passes through 2^32 - 1 when SEND_COMPLETE overtakes the    *)
(* increment, and comes back.                                              *)
CounterMatches ==
  \A s \in Streams :
    phase[s] # "deleted" =>
      OutstandingSends[s] =
        IF Uncounted(s) THEN Decremented(inflight[s]) ELSE inflight[s]

(* No stream is forgotten: until the end of its file has been read, an     *)
(* opened stream has an item in the Pool, or a send under way or being     *)
(* completed that will enqueue one, unless a send of it has failed.  So    *)
(* neither the limit at which the worker stops nor a counter read at its   *)
(* wrapped value stalls anything.                                          *)
NoStall ==
  \A s \in Streams :
    phase[s] = "open" /\ ~EndOfFile[s] /\ ~lost[s]
      => Queued(s) \/ Working(s) \/ callback = s \/ inflight[s] > 0

(* The items enqueued from both sides are too many, and the surplus ones   *)
(* find EndOfFile set and neither read nor send: the FIN is sent once, and *)
(* nothing after it.                                                       *)
NothingAfterFin ==
  \A s \in Streams : finSent[s] => EndOfFile[s] /\ ~Sending(s)

(* No context is deleted under an item that has still to read or send, but *)
(* that of a stream cut off by the server or with the connection: a stream *)
(* that ends by itself is deleted after its FIN, when the items left over  *)
(* look at EndOfFile and the counter only.  And none is deleted under its  *)
(* own SEND_COMPLETE.                                                      *)
DeletedIsFinished ==
  \A s \in Streams :
    phase[s] = "deleted" =>
      /\ callback # s
      /\ Queued(s) \/ Working(s) => (finSent[s] \/ aborted[s])

(* Pool(1), and nothing else, keeps the blocks of a file in order: however *)
(* many items a stream has, what is given to Send is the file so far, with *)
(* no block left out, repeated or overtaken, until a send fails.           *)
InOrder ==
  \A s \in Streams : ~lost[s] => \A i \in DOMAIN sent[s] : sent[s][i] = i

(* A file that was opened is sent to its end and its context freed, unless *)
(* a send of it fails, the server or the end of the connection cuts it     *)
(* off, or an item of another stream outlives its deleted context.         *)
SentToTheEnd ==
  \A s \in Streams :
    phase[s] = "open"
      ~> \/ phase[s] = "deleted" /\ finSent[s]
         \/ lost[s] \/ aborted[s]
         \/ \E t \in Threads : pc[t] = "undefined"

===============================================================================
