---------------------------- MODULE FileSendProofs ----------------------------
(***************************************************************************)
(* Theorems about FileSend, for any number of streams, any length of file, *)
(* any MAX_OUTSTANDING_SENDS and any set of failing calls.                 *)
(*                                                                         *)
(* Everything rests on Pool(1): the inductive invariant, Sound, says what  *)
(* the only thread may be doing for which stream.                          *)
(***************************************************************************)
EXTENDS FileSend, SequenceTheorems, TLAPS

\* Nothing is done for a stream whose file has not been opened.
Unopened ==
  \A s \in Streams :
    phase[s] \in {"waiting", "refused", "unknown"}
      => /\ ~Queued(s) /\ ~Working(s) /\ callback # s
         /\ ~finSent[s] /\ inflight[s] = 0

\* Of a deleted context only surplus items are left, unless it was cut off.
Deleted ==
  \A s \in Streams :
    phase[s] = "deleted" => /\ inflight[s] = 0 /\ callback # s
                            /\ Queued(s) \/ Working(s) => (finSent[s] \/ aborted[s])

\* The blocks read, sent and under way.
Blocks ==
  /\ \A s \in Streams :
       /\ EndOfFile[s] \/ read[s] <= MaxBlocks
       /\ inflight[s] <= Len(sent[s]) /\ Len(sent[s]) <= read[s]
  /\ pc[1] = "read" => ~EndOfFile[running[1]]
  /\ pc[1] = "send" => /\ block[1] = read[running[1]]
                       /\ Len(sent[running[1]]) < read[running[1]]

Sound == TypeOK /\ Unopened /\ Deleted /\ Blocks /\ NothingAfterFin /\ CounterMatches

\* The client's Pool has one thread.
LEMMA OneThread == Threads = {1}
  BY DEF Threads, PoolSize

\* What Pool.Enqueue does to the set of waiting items.
LEMMA QueueGrows ==
  ASSUME queue \in Seq(Streams), NEW x \in Streams, queue' = Append(queue, x)
  PROVE  /\ queue' \in Seq(Streams) /\ queue' # << >>
         /\ \A s \in Streams : Queued(s)' <=> Queued(s) \/ s = x
<1>1. queue' \in Seq(Streams) /\ Len(queue') = Len(queue) + 1
  OBVIOUS
<1>2. /\ \A i \in 1..Len(queue) : queue'[i] = queue[i]
      /\ queue'[Len(queue) + 1] = x
  OBVIOUS
<1>3. DOMAIN queue = 1..Len(queue) /\ DOMAIN queue' = 1..(Len(queue) + 1) /\ Len(queue) \in Nat
  BY <1>1
<1>4. ASSUME NEW s \in Streams PROVE Queued(s)' <=> Queued(s) \/ s = x
  BY <1>2, <1>3 DEF Queued
<1>5. QED
  BY <1>1, <1>4

\* What taking its head does to the set of waiting items.
LEMMA QueueShrinks ==
  ASSUME queue \in Seq(Streams), queue # << >>, queue' = Tail(queue)
  PROVE  /\ queue' \in Seq(Streams) /\ Head(queue) \in Streams
         /\ \A s \in Streams : Queued(s) <=> Queued(s)' \/ s = Head(queue)
<1>1. /\ queue' \in Seq(Streams) /\ Head(queue) \in Streams
      /\ Len(queue') = Len(queue) - 1 /\ Len(queue) \in Nat \ {0}
  BY HeadTailProperties, EmptySeq, LenProperties
<1>2. /\ \A i \in 1..Len(queue') : queue'[i] = queue[i + 1]
      /\ Head(queue) = queue[1]
  BY <1>1, HeadTailProperties
<1>3. DOMAIN queue = 1..Len(queue) /\ DOMAIN queue' = 1..Len(queue')
  BY <1>1
<1>4. ASSUME NEW s \in Streams PROVE Queued(s) <=> Queued(s)' \/ s = Head(queue)
  <2>1. ASSUME NEW i \in 1..Len(queue), queue[i] = s, i # 1 PROVE Queued(s)'
    <3>1. i - 1 \in 1..Len(queue') /\ queue'[i - 1] = s
      BY <1>1, <1>2, <2>1
    <3>2. QED
      BY <3>1, <1>3 DEF Queued
  <2>2. ASSUME NEW i \in 1..Len(queue'), queue'[i] = s PROVE Queued(s)
    <3>1. i + 1 \in 1..Len(queue) /\ queue[i + 1] = s
      BY <1>1, <1>2, <2>2
    <3>2. QED
      BY <3>1, <1>3 DEF Queued
  <2>3. 1 \in 1..Len(queue)
    BY <1>1
  <2>4. QED
    BY <2>1, <2>2, <2>3, <1>2, <1>3 DEF Queued
<1>5. QED
  BY <1>1, <1>4

\* The counter under uint32_t arithmetic.
LEMMA CounterArithmetic ==
  ASSUME NEW n \in 0..(CounterModulus - 1)
  PROVE  /\ Decremented(n) \in 0..(CounterModulus - 1)
         /\ Incremented(n) \in 0..(CounterModulus - 1)
         /\ Incremented(Decremented(n)) = n
         /\ Decremented(Incremented(n)) = n
         /\ n # 0 => Decremented(n) = n - 1
  BY FileSendAssumption DEF Incremented, Decremented

\* Nothing has happened.
LEMMA InitSound == Init => Sound
<1> SUFFICES ASSUME Init PROVE Sound
  OBVIOUS
<1>1. \A s \in Streams : ~Queued(s) /\ ~Working(s) /\ ~Sending(s) /\ ~Uncounted(s)
  <2>1. DOMAIN queue = {} /\ running = [t \in Threads |-> NoStream]
    BY DEF Init, Pool!Init
  <2>2. QED
    BY <2>1, FileSendAssumption, OneThread DEF Queued, Working, Sending, Uncounted
<1>2. \A s \in Streams : Len(sent[s]) = 0 /\ sent[s] \in Seq(1..(MaxBlocks + 1))
  <2>1. \A s \in Streams : sent[s] = << >>
    BY DEF Init
  <2>2. QED
    BY <2>1, EmptySeq
<1>3. TypeOK
  <2>1. queue \in Seq(Streams) /\ sent \in [Streams -> Seq(1..(MaxBlocks + 1))]
    BY <1>2 DEF Init, Pool!Init
  <2>2. QED
    BY <2>1, FileSendAssumption, OneThread DEF Init, Pool!Init, TypeOK
<1>4. QED
  BY <1>1, <1>2, <1>3, FileSendAssumption, OneThread
     DEF Init, Pool!Init, Sound, Unopened, Deleted, Blocks, NothingAfterFin, CounterMatches

\* What the predicates about the Pool's threads say of the only one.
LEMMA OnlyThread ==
  \A s \in Streams :
    /\ Working(s) <=> running[1] = s
    /\ Sending(s) <=> running[1] = s /\ pc[1] \in {"read", "send"}
    /\ Uncounted(s) <=> running[1] = s /\ pc[1] = "count"
  BY OneThread DEF Working, Sending, Uncounted

LEMMA OnlyThreadNext ==
  \A s \in Streams :
    /\ Working(s)' <=> running'[1] = s
    /\ Sending(s)' <=> running'[1] = s /\ pc'[1] \in {"read", "send"}
    /\ Uncounted(s)' <=> running'[1] = s /\ pc'[1] = "count"
  BY OneThread DEF Working, Sending, Uncounted

\* A stream that has lost a block has lost it for good.
LEMMA LostForGood ==
  ASSUME TypeOK, [Next]_vars
  PROVE  /\ lost' \in [Streams -> BOOLEAN]
         /\ \A s \in Streams : lost[s] => lost'[s]
<1>0. lost \in [Streams -> BOOLEAN]
  BY DEF TypeOK
<1>1. CASE \E t \in Threads : WorkerSendFails(t)
  BY <1>0, <1>1 DEF WorkerSendFails
<1>2. CASE lost' = lost
  BY <1>0, <1>2
<1>3. lost' = lost \/ \E t \in Threads : WorkerSendFails(t)
  BY DEF Next, Worker, Callback, ReceiveFileId, ReceiveFileIdRefused, ReceiveFileIdUnknown,
         SendComplete, SendCompleteTest, SendCompleteCheck, ShutdownComplete, WorkerStart,
         WorkerUndefined, WorkerTest, WorkerRead, WorkerSend, WorkerCount, WorkerCheck,
         WorkerDone, PeerAborts, ConnectionLost, Done, sendVars, vars
<1>4. QED
  BY <1>1, <1>2, <1>3

\* A context that has been deleted is not made again.
LEMMA DeletedForGood ==
  ASSUME TypeOK, [Next]_vars
  PROVE  \A s \in Streams : phase[s] = "deleted" => phase'[s] = "deleted"
<1>0. phase \in [Streams -> {"waiting", "open", "refused", "unknown", "deleted"}]
  BY DEF TypeOK
<1>1. ASSUME NEW x \in Streams,
             ReceiveFileId(x) \/ ReceiveFileIdRefused(x) \/ ReceiveFileIdUnknown(x)
      PROVE  \A s \in Streams : phase[s] = "deleted" => phase'[s] = "deleted"
  BY <1>0, <1>1 DEF ReceiveFileId, ReceiveFileIdRefused, ReceiveFileIdUnknown
<1>2. ASSUME NEW x \in Streams, ShutdownComplete(x)
      PROVE  \A s \in Streams : phase[s] = "deleted" => phase'[s] = "deleted"
  BY <1>0, <1>2 DEF ShutdownComplete
<1>3. \/ phase' = phase
      \/ \E x \in Streams : \/ ReceiveFileId(x) \/ ReceiveFileIdRefused(x)
                            \/ ReceiveFileIdUnknown(x) \/ ShutdownComplete(x)
  BY DEF Next, Worker, Callback, SendComplete, SendCompleteTest, SendCompleteCheck, WorkerStart,
         WorkerUndefined, WorkerTest, WorkerRead, WorkerSend, WorkerSendFails, WorkerCount,
         WorkerCheck, WorkerDone, PeerAborts, ConnectionLost, Done, streamVars, vars
<1>4. QED
  BY <1>1, <1>2, <1>3

\* Every step of the Pool's thread and of the callbacks keeps Sound.
LEMMA NextSound == Sound /\ [Next]_vars => Sound'
<1> SUFFICES ASSUME Sound, [Next]_vars PROVE Sound'
  OBVIOUS
<1> USE FileSendAssumption
<1>0. TypeOK /\ Unopened /\ Deleted /\ Blocks /\ NothingAfterFin /\ CounterMatches
  BY DEF Sound
<1>a. /\ running \in [{1} -> Streams \cup {NoStream}]
      /\ pc \in [{1} -> {"idle", "test", "read", "send", "count", "check",
                         "done", "undefined"}]
      /\ block \in [{1} -> 0..(MaxBlocks + 1)]
      /\ running[1] = NoStream <=> pc[1] = "idle"
  BY <1>0, OneThread DEF TypeOK
<1>b. lost' \in [Streams -> BOOLEAN]
  BY <1>0, LostForGood
<1>1. ASSUME NEW x \in Streams, ReceiveFileId(x) PROVE Sound'
  <2>1. /\ UNCHANGED <<running, pc, block, callback, callbackPc, aborted, EndOfFile, read,
                       OutstandingSends, sent, finSent, inflight>>
        /\ queue' = Append(queue, x)
        /\ phase[x] = "waiting" /\ phase' = [phase EXCEPT ![x] = "open"]
    BY <1>1 DEF ReceiveFileId, Pool!Submit, callVars, fileVars, streamVars, sendVars
  <2>2. /\ queue' \in Seq(Streams)
        /\ \A s \in Streams : Queued(s)' <=> Queued(s) \/ s = x
    BY <2>1, <1>0, QueueGrows DEF TypeOK
  <2>3. TypeOK'
    BY SMTT(30), <1>b, <2>1, <2>2, <1>0 DEF TypeOK
  <2>4. Unopened' /\ Deleted'
    BY SMTT(30), <2>1, <2>2, <1>a, <1>0, OnlyThread, OnlyThreadNext
       DEF Unopened, Deleted, NothingAfterFin, TypeOK
  <2>5. Blocks' /\ NothingAfterFin'
    BY SMTT(30), <2>1, <1>0, OnlyThread, OnlyThreadNext DEF Blocks, NothingAfterFin
  <2>6. CounterMatches'
    <3>1. \A s \in Streams : /\ phase'[s] = "deleted" <=> phase[s] = "deleted"
                             /\ Uncounted(s)' <=> Uncounted(s)
      BY <2>1, <1>0, OnlyThread, OnlyThreadNext DEF TypeOK
    <3>2. QED
      BY <2>1, <3>1, <1>0 DEF CounterMatches
  <2>7. QED
    BY <2>3, <2>4, <2>5, <2>6 DEF Sound
<1>2. ASSUME NEW x \in Streams, ReceiveFileIdRefused(x) \/ ReceiveFileIdUnknown(x)
      PROVE  Sound'
  <2>1. /\ UNCHANGED <<queue, running, pc, block, callback, callbackPc, aborted, EndOfFile,
                       OutstandingSends, read, sent, finSent, inflight>>
        /\ phase[x] = "waiting"
        /\ \/ phase' = [phase EXCEPT ![x] = "refused"]
           \/ phase' = [phase EXCEPT ![x] = "unknown"]
    BY <1>2
       DEF ReceiveFileIdRefused, ReceiveFileIdUnknown, poolVars, callVars, fileVars, sendVars
  <2>2. TypeOK'
    BY <1>b, <2>1, <1>a, <1>0, OneThread DEF TypeOK
  <2>3. \A s \in Streams : Queued(s)' <=> Queued(s)
    BY <2>1 DEF Queued
  <2>4. /\ \A s \in Streams : s # x => phase'[s] = phase[s]
        /\ phase'[x] \in {"refused", "unknown"}
    BY <2>1, <1>0 DEF TypeOK
  <2>5. \A s \in Streams : Working(s)' <=> Working(s)
    BY <2>1, OnlyThread, OnlyThreadNext
  <2>6. Unopened' /\ Deleted'
    <3>1. Unopened'
      BY <2>1, <2>4, <2>3, <2>5, <1>0 DEF Unopened
    <3>2. Deleted'
      BY <2>1, <2>4, <2>3, <2>5, <1>0 DEF Deleted
    <3>3. QED
      BY <3>1, <3>2
  <2>7. Blocks' /\ NothingAfterFin'
    BY SMTT(30), <2>1, <1>a, <1>0, OnlyThread, OnlyThreadNext DEF Blocks, NothingAfterFin, TypeOK
  <2>8. CounterMatches'
    BY SMTT(30), <2>1, <1>a, <1>0, OnlyThread, OnlyThreadNext DEF CounterMatches, TypeOK
  <2>9. QED
    BY <2>2, <2>6, <2>7, <2>8 DEF Sound
<1>3. ASSUME NEW x \in Streams, SendComplete(x) PROVE Sound'
  <2>1. /\ UNCHANGED <<queue, running, pc, block, phase, aborted, EndOfFile, read, sent,
                       finSent>>
        /\ callback = NoStream /\ callback' = x /\ callbackPc' = "test"
        /\ inflight[x] > 0
        /\ inflight' = [inflight EXCEPT ![x] = @ - 1]
        /\ OutstandingSends' = [OutstandingSends EXCEPT ![x] = Decremented(@)]
    BY <1>3 DEF SendComplete, poolVars, callVars, fileVars, streamVars, sendVars
  <2>2. /\ OutstandingSends[x] \in 0..(CounterModulus - 1)
        /\ inflight[x] \in 1..(MaxBlocks + 1) /\ inflight[x] - 1 \in 0..(CounterModulus - 1)
        /\ phase[x] = "open"
    <3>1. inflight[x] \in 0..(MaxBlocks + 1) /\ inflight[x] # 0
      BY <2>1, <1>0 DEF TypeOK
    <3>2. phase[x] = "open"
      BY <3>1, <1>0 DEF TypeOK, Deleted, Unopened
    <3>3. OutstandingSends[x] \in 0..(CounterModulus - 1)
      BY <1>0 DEF TypeOK
    <3>4. QED
      BY <3>1, <3>2, <3>3
  <2>3. Decremented(OutstandingSends[x]) \in 0..(CounterModulus - 1)
    BY <2>2, CounterArithmetic
  <2>4. /\ OutstandingSends[x] = inflight[x] =>
             Decremented(OutstandingSends[x]) = inflight[x] - 1
        /\ OutstandingSends[x] = Decremented(inflight[x]) =>
             Decremented(OutstandingSends[x]) = Decremented(inflight[x] - 1)
    BY <2>1, <2>2 DEF Decremented
  <2>5. TypeOK'
    <3>1. inflight' \in [Streams -> 0..(MaxBlocks + 1)]
      <4>1. inflight[x] - 1 \in 0..(MaxBlocks + 1)
        BY <2>2
      <4>2. QED
        BY <2>1, <4>1, <1>0 DEF TypeOK
    <3>2. OutstandingSends' \in [Streams -> 0..(CounterModulus - 1)]
      BY <2>1, <2>3, <1>0 DEF TypeOK
    <3>3. QED
      BY <1>b, <2>1, <3>1, <3>2, <1>0 DEF TypeOK
  <2>6. \A s \in Streams : Queued(s)' <=> Queued(s)
    BY <2>1 DEF Queued
  <2>7. Unopened' /\ Deleted'
    <3>1. \A s \in Streams : s # x => inflight'[s] = inflight[s]
      BY <2>1, <1>0 DEF TypeOK
    <3>2. \A s \in Streams : Working(s)' <=> Working(s)
      BY <2>1, OnlyThread, OnlyThreadNext
    <3>3. Unopened'
      BY <2>1, <2>2, <2>6, <3>1, <3>2, <1>0 DEF Unopened
    <3>4. Deleted'
      BY <2>1, <2>2, <2>6, <3>1, <3>2, <1>0 DEF Deleted
    <3>5. QED
      BY <3>3, <3>4
  <2>8. Blocks' /\ NothingAfterFin'
    <3>1. /\ inflight'[x] = inflight[x] - 1
          /\ \A s \in Streams : s # x => inflight'[s] = inflight[s]
      BY <2>1, <1>0 DEF TypeOK
    <3>2. \A s \in Streams : Sending(s)' <=> Sending(s)
      BY <2>1, OnlyThread, OnlyThreadNext
    <3>3. NothingAfterFin'
      BY <2>1, <3>2, <1>0 DEF NothingAfterFin
    <3>4. \A s \in Streams : Len(sent[s]) \in Nat
      BY <1>0 DEF TypeOK
    <3>5. Blocks'
      BY <2>1, <2>2, <3>1, <3>4, <1>0 DEF Blocks
    <3>6. QED
      BY <3>3, <3>5
  <2>9. CounterMatches'
    <3>1. /\ OutstandingSends'[x] = Decremented(OutstandingSends[x])
          /\ inflight'[x] = inflight[x] - 1
          /\ \A s \in Streams : s # x => /\ OutstandingSends'[s] = OutstandingSends[s]
                                       /\ inflight'[s] = inflight[s]
      BY <2>1, <1>0 DEF TypeOK
    <3>2. \A s \in Streams : Uncounted(s)' <=> Uncounted(s)
      BY <2>1, OnlyThread, OnlyThreadNext
    <3>3. QED
      BY <2>1, <2>2, <2>4, <3>1, <3>2, <1>0 DEF CounterMatches
  <2>10. QED
    BY <2>5, <2>7, <2>8, <2>9 DEF Sound
<1>4. CASE SendCompleteTest
  <2>1. /\ UNCHANGED <<queue, running, pc, block, phase, aborted, EndOfFile, OutstandingSends,
                       read, sent, finSent, inflight>>
        /\ callbackPc = "test"
        /\ \/ callback' = NoStream /\ callbackPc' = "idle"
           \/ callback' = callback /\ callbackPc' = "check"
    BY <1>4 DEF SendCompleteTest, poolVars, callVars, fileVars, streamVars, sendVars
  <2>2. TypeOK'
    BY SMTT(30), <1>b, <2>1, <1>a, <1>0, OneThread DEF TypeOK
  <2>3. \A s \in Streams : Queued(s)' <=> Queued(s)
    BY <2>1 DEF Queued
  <2>4. Unopened' /\ Deleted'
    <3>1. \A s \in Streams : Working(s)' <=> Working(s)
      BY <2>1, OnlyThread, OnlyThreadNext
    <3>2. Unopened'
      BY <2>1, <2>3, <3>1, <1>0 DEF Unopened
    <3>3. Deleted'
      BY <2>1, <2>3, <3>1, <1>0 DEF Deleted
    <3>4. QED
      BY <3>2, <3>3
  <2>5. Blocks' /\ NothingAfterFin'
    BY SMTT(30), <2>1, <1>a, <1>0, OnlyThread, OnlyThreadNext DEF Blocks, NothingAfterFin, TypeOK
  <2>6. CounterMatches'
    BY SMTT(30), <2>1, <1>a, <1>0, OnlyThread, OnlyThreadNext DEF CounterMatches, TypeOK
  <2>7. QED
    BY <2>2, <2>4, <2>5, <2>6 DEF Sound
<1>5. CASE SendCompleteCheck
  <2>1. /\ UNCHANGED <<running, pc, block, phase, aborted, EndOfFile, OutstandingSends, read,
                       sent, finSent, inflight>>
        /\ callbackPc = "check"
        /\ callback' = NoStream /\ callbackPc' = "idle"
        /\ queue' = queue \/ queue' = Append(queue, callback)
    BY <1>5 DEF SendCompleteCheck, Pool!Submit, poolVars, callVars, fileVars, streamVars, sendVars
  <2>2. callback \in Streams
    BY <2>1, <1>0 DEF TypeOK
  <2>3. /\ queue' \in Seq(Streams)
        /\ \A s \in Streams : Queued(s)' => Queued(s) \/ s = callback
    BY <2>1, <2>2, <1>0, QueueGrows DEF TypeOK, Queued
  <2>4. TypeOK'
    BY SMTT(30), <1>b, <2>1, <2>3, <1>a, <1>0, OneThread DEF TypeOK
  <2>5. Unopened' /\ Deleted'
    BY SMTT(30), <2>1, <2>3, <1>a, <1>0, OnlyThread, OnlyThreadNext
       DEF Unopened, Deleted, NothingAfterFin, TypeOK
  <2>6. Blocks' /\ NothingAfterFin'
    BY SMTT(30), <2>1, <1>a, <1>0, OnlyThread, OnlyThreadNext DEF Blocks, NothingAfterFin, TypeOK
  <2>7. CounterMatches'
    BY SMTT(30), <2>1, <1>a, <1>0, OnlyThread, OnlyThreadNext DEF CounterMatches, TypeOK
  <2>8. QED
    BY <2>4, <2>5, <2>6, <2>7 DEF Sound
<1>6. ASSUME NEW x \in Streams, ShutdownComplete(x) PROVE Sound'
  <2>1. /\ UNCHANGED <<queue, running, pc, block, callback, callbackPc, aborted, EndOfFile,
                       OutstandingSends, read, sent, finSent, inflight>>
        /\ phase' = [phase EXCEPT ![x] = "deleted"]
        /\ callback = NoStream
        /\ inflight[x] = 0
        /\ \/ phase[x] = "open" /\ finSent[x]
           \/ phase[x] = "refused"
           \/ aborted[x]
    BY <1>6 DEF ShutdownComplete, poolVars, callVars, fileVars, streamVars, sendVars
  <2>2. TypeOK'
    BY SMTT(30), <1>b, <2>1, <1>a, <1>0, OneThread DEF TypeOK
  <2>3. \A s \in Streams : Queued(s)' <=> Queued(s)
    BY <2>1 DEF Queued
  <2>4. Unopened' /\ Deleted'
    BY SMTT(30), <2>1, <2>3, <1>a, <1>0, OnlyThread, OnlyThreadNext
       DEF Unopened, Deleted, NothingAfterFin, TypeOK
  <2>5. Blocks' /\ NothingAfterFin'
    BY SMTT(30), <2>1, <1>a, <1>0, OnlyThread, OnlyThreadNext DEF Blocks, NothingAfterFin, TypeOK
  <2>6. CounterMatches'
    BY SMTT(30), <2>1, <1>a, <1>0, OnlyThread, OnlyThreadNext DEF CounterMatches, TypeOK
  <2>7. QED
    BY <2>2, <2>4, <2>5, <2>6 DEF Sound
<1>7. CASE WorkerStart(1)
  <2>1. /\ UNCHANGED <<block, callback, callbackPc, phase, aborted, EndOfFile, OutstandingSends,
                       read, sent, finSent, inflight>>
        /\ running[1] = NoStream /\ queue # << >>
        /\ running' = [running EXCEPT ![1] = Head(queue)]
        /\ queue' = Tail(queue)
        /\ pc' = [pc EXCEPT ![1] = "test"]
    BY <1>7 DEF WorkerStart, Pool!Start, poolVars, callVars, fileVars, streamVars, sendVars
  <2>2. /\ queue' \in Seq(Streams) /\ Head(queue) \in Streams
        /\ \A s \in Streams : Queued(s) <=> Queued(s)' \/ s = Head(queue)
    BY <2>1, <1>0, QueueShrinks DEF TypeOK
  <2>3. TypeOK'
    BY SMTT(30), <1>b, <2>1, <2>2, <2>2, <1>a, <1>0, OneThread DEF TypeOK
  <2>4. Unopened' /\ Deleted'
    BY SMTT(30), <2>1, <2>2, <2>2, <1>a, <1>0, OnlyThread, OnlyThreadNext
       DEF Unopened, Deleted, NothingAfterFin, TypeOK
  <2>5. Blocks' /\ NothingAfterFin'
    BY SMTT(30), <2>1, <2>2, <1>a, <1>0, OnlyThread, OnlyThreadNext
       DEF Blocks, NothingAfterFin, TypeOK
  <2>6. CounterMatches'
    BY SMTT(30), <2>1, <2>2, <1>a, <1>0, OnlyThread, OnlyThreadNext DEF CounterMatches, TypeOK
  <2>7. QED
    BY <2>3, <2>4, <2>5, <2>6 DEF Sound
<1>8. CASE WorkerUndefined(1)
  <2>1. /\ UNCHANGED <<queue, running, block, callback, callbackPc, phase, aborted, EndOfFile,
                       OutstandingSends, read, sent, finSent, inflight>>
        /\ pc[1] \in {"test", "read", "send", "count", "check"} /\ phase[running[1]] = "deleted"
        /\ pc' = [pc EXCEPT ![1] = "undefined"]
    BY <1>8 DEF WorkerUndefined, poolVars, callVars, fileVars, streamVars, sendVars
  <2>2. TypeOK'
    BY SMTT(30), <1>b, <2>1, <1>a, <1>0, OneThread DEF TypeOK
  <2>3. \A s \in Streams : Queued(s)' <=> Queued(s)
    BY <2>1 DEF Queued
  <2>4. Unopened' /\ Deleted'
    BY SMTT(30), <2>1, <2>3, <1>a, <1>0, OnlyThread, OnlyThreadNext
       DEF Unopened, Deleted, NothingAfterFin, TypeOK
  <2>5. Blocks' /\ NothingAfterFin'
    BY SMTT(30), <2>1, <1>a, <1>0, OnlyThread, OnlyThreadNext DEF Blocks, NothingAfterFin, TypeOK
  <2>6. CounterMatches'
    BY SMTT(30), <2>1, <1>a, <1>0, OnlyThread, OnlyThreadNext DEF CounterMatches, TypeOK
  <2>7. QED
    BY <2>2, <2>4, <2>5, <2>6 DEF Sound
<1>9. CASE WorkerTest(1)
  <2>1. /\ UNCHANGED <<queue, running, block, callback, callbackPc, phase, aborted, EndOfFile,
                       OutstandingSends, read, sent, finSent, inflight>>
        /\ pc[1] = "test"
        /\ \/ pc' = [pc EXCEPT ![1] = "done"]
           \/ pc' = [pc EXCEPT ![1] = "read"] /\ ~EndOfFile[running[1]]
    BY <1>9 DEF WorkerTest, poolVars, callVars, fileVars, streamVars, sendVars
  <2>2. TypeOK'
    BY SMTT(30), <1>b, <2>1, <1>a, <1>0, OneThread DEF TypeOK
  <2>3. \A s \in Streams : Queued(s)' <=> Queued(s)
    BY <2>1 DEF Queued
  <2>4. Unopened' /\ Deleted'
    BY SMTT(30), <2>1, <2>3, <1>a, <1>0, OnlyThread, OnlyThreadNext
       DEF Unopened, Deleted, NothingAfterFin, TypeOK
  <2>5. Blocks' /\ NothingAfterFin'
    BY SMTT(30), <2>1, <1>a, <1>0, OnlyThread, OnlyThreadNext DEF Blocks, NothingAfterFin, TypeOK
  <2>6. CounterMatches'
    BY SMTT(30), <2>1, <1>a, <1>0, OnlyThread, OnlyThreadNext DEF CounterMatches, TypeOK
  <2>7. QED
    BY <2>2, <2>4, <2>5, <2>6 DEF Sound
<1>10. CASE WorkerRead(1)
  <2>1. /\ UNCHANGED <<queue, running, callback, callbackPc, phase, aborted, OutstandingSends,
                       sent, finSent, inflight>>
        /\ pc[1] = "read"
        /\ pc' = [pc EXCEPT ![1] = "send"]
        /\ read' = [read EXCEPT ![running[1]] = @ + 1]
        /\ block' = [block EXCEPT ![1] = read[running[1]] + 1]
        /\ \E eof \in BOOLEAN : /\ eof \/ read[running[1]] < MaxBlocks
                             /\ EndOfFile' = [EndOfFile EXCEPT ![running[1]] = eof]
    BY <1>10 DEF WorkerRead, poolVars, callVars, fileVars, streamVars, sendVars
  <2>2. running[1] \in Streams /\ read[running[1]] \in 0..MaxBlocks
    BY <2>1, <1>a, <1>0 DEF Blocks, TypeOK
  <2>3. TypeOK'
    <3>1. /\ pc' \in [Threads -> {"idle", "test", "read", "send", "count", "check",
                                 "done", "undefined"}]
          /\ block' \in [Threads -> 0..(MaxBlocks + 1)]
          /\ \A t \in Threads : running'[t] = NoStream <=> pc'[t] = "idle"
      <4>1. pc'[1] = "send" /\ running'[1] # NoStream
        BY <2>1, <2>2, <1>a
      <4>2. read[running[1]] + 1 \in 0..(MaxBlocks + 1)
        BY <2>2
      <4>3. block' \in [{1} -> 0..(MaxBlocks + 1)]
        BY <4>2, <2>1, <1>a
      <4>4. QED
        BY <4>1, <4>3, <2>1, <1>a, OneThread
    <3>2. read' \in [Streams -> 0..(MaxBlocks + 1)]
      <4>1. read \in [Streams -> 0..(MaxBlocks + 1)]
        BY <1>0 DEF TypeOK
      <4>2. read[running[1]] + 1 \in 0..(MaxBlocks + 1)
        BY <2>2
      <4>3. read' = [read EXCEPT ![running[1]] = read[running[1]] + 1]
        BY <2>1
      <4>4. QED
        BY <4>1, <4>2, <4>3
    <3>3. EndOfFile' \in [Streams -> BOOLEAN]
      <4>1. EndOfFile \in [Streams -> BOOLEAN]
        BY <1>0 DEF TypeOK
      <4>2. PICK eof \in BOOLEAN : EndOfFile' = [EndOfFile EXCEPT ![running[1]] = eof]
        BY <2>1
      <4>3. QED
        BY <4>1, <4>2
    <3>4. QED
      BY <1>b, <2>1, <3>1, <3>2, <3>3, <1>0 DEF TypeOK
  <2>4. \A s \in Streams : Queued(s)' <=> Queued(s)
    BY <2>1 DEF Queued
  <2>5. Unopened' /\ Deleted'
    BY SMTT(30), <2>1, <2>4, <2>2, <1>a, <1>0, OnlyThread, OnlyThreadNext
       DEF Unopened, Deleted, NothingAfterFin, TypeOK
  <2>6. Blocks' /\ NothingAfterFin'
    BY SMTT(30), <2>1, <2>2, <1>a, <1>0, OnlyThread, OnlyThreadNext
       DEF Blocks, NothingAfterFin, TypeOK
  <2>7. CounterMatches'
    BY SMTT(30), <2>1, <2>2, <1>a, <1>0, OnlyThread, OnlyThreadNext DEF CounterMatches, TypeOK
  <2>8. QED
    BY <2>3, <2>5, <2>6, <2>7 DEF Sound
<1>11. CASE WorkerSend(1)
  <2>1. /\ UNCHANGED <<queue, running, block, callback, callbackPc, phase, aborted, EndOfFile,
                       OutstandingSends, read>>
        /\ pc[1] = "send" /\ phase[running[1]] # "deleted"
        /\ pc' = [pc EXCEPT ![1] = "count"]
        /\ sent' = [sent EXCEPT ![running[1]] = Append(@, block[1])]
        /\ finSent' = [finSent EXCEPT ![running[1]] = EndOfFile[running[1]]]
        /\ inflight' = [inflight EXCEPT ![running[1]] = @ + 1]
    BY <1>11 DEF WorkerSend, poolVars, callVars, fileVars, streamVars, sendVars
  <2>2. /\ running[1] \in Streams /\ block[1] \in 1..(MaxBlocks + 1)
        /\ sent[running[1]] \in Seq(1..(MaxBlocks + 1))
        /\ Len(sent[running[1]]) \in Nat
        /\ inflight[running[1]] + 1 <= read[running[1]]
        /\ read[running[1]] \in 0..(MaxBlocks + 1)
    BY <2>1, <1>a, <1>0 DEF Blocks, TypeOK
  <2>3. /\ sent'[running[1]] \in Seq(1..(MaxBlocks + 1))
        /\ Len(sent'[running[1]]) = Len(sent[running[1]]) + 1
    <3>1. sent'[running[1]] = Append(sent[running[1]], block[1])
      BY <2>1, <2>2, <1>0 DEF TypeOK
    <3>2. QED
      BY <3>1, <2>2, AppendProperties
  <2>4. /\ inflight[running[1]] + 1 \in 0..(MaxBlocks + 1)
        /\ Decremented(inflight[running[1]] + 1) = inflight[running[1]]
        /\ \A s \in Streams : Len(sent[s]) \in Nat
    <3>1. inflight[running[1]] \in 0..(MaxBlocks + 1)
      BY <2>2, <1>0 DEF TypeOK
    <3>2. \A s \in Streams : Len(sent[s]) \in Nat
      BY <1>0 DEF TypeOK
    <3>3. /\ inflight[running[1]] + 1 \in 0..(MaxBlocks + 1)
          /\ inflight[running[1]] + 1 # 0
          /\ (inflight[running[1]] + 1) - 1 = inflight[running[1]]
      BY <2>2, <3>1
    <3>4. QED
      BY <3>2, <3>3 DEF Decremented
  <2>5. TypeOK'
    <3>1. pc' \in [Threads -> {"idle", "test", "read", "send", "count", "check",
                              "done", "undefined"}]
      BY <2>1, <1>a, OneThread
    <3>2. sent' \in [Streams -> Seq(1..(MaxBlocks + 1))]
      BY <2>1, <2>2, <2>3, <1>0 DEF TypeOK
    <3>3. finSent' \in [Streams -> BOOLEAN] /\ inflight' \in [Streams -> 0..(MaxBlocks + 1)]
      BY <2>1, <2>2, <2>4, <1>0 DEF TypeOK
    <3>4. \A t \in Threads : running'[t] = NoStream <=> pc'[t] = "idle"
      BY <2>1, <2>2, <1>a, OneThread
    <3>5. QED
      BY <1>b, <2>1, <3>1, <3>2, <3>3, <3>4, <1>0 DEF TypeOK
  <2>6. \A s \in Streams : Queued(s)' <=> Queued(s)
    BY <2>1 DEF Queued
  <2>7. Unopened' /\ Deleted'
    BY SMTT(30), <2>1, <2>6, <2>2, <2>3, <2>4, <1>a, <1>0, OnlyThread, OnlyThreadNext
       DEF Unopened, Deleted, NothingAfterFin, TypeOK
  <2>8. Blocks' /\ NothingAfterFin'
    BY SMTT(30), <2>1, <2>2, <2>3, <2>4, <1>a, <1>0, OnlyThread, OnlyThreadNext
       DEF Blocks, NothingAfterFin, TypeOK
  <2>9. CounterMatches'
    BY SMTT(30), <2>1, <2>2, <2>3, <2>4, <1>a, <1>0, OnlyThread, OnlyThreadNext
       DEF CounterMatches, TypeOK
  <2>10. QED
    BY <2>5, <2>7, <2>8, <2>9 DEF Sound
<1>12. CASE WorkerSendFails(1)
  <2>1. /\ UNCHANGED <<queue, running, block, callback, callbackPc, phase, aborted, EndOfFile,
                       OutstandingSends, read, sent, finSent, inflight>>
        /\ pc[1] = "send"
        /\ pc' = [pc EXCEPT ![1] = "done"]
    BY <1>12 DEF WorkerSendFails, poolVars, callVars, fileVars, streamVars, sendVars
  <2>2. TypeOK'
    BY SMTT(30), <1>b, <2>1, <1>a, <1>0, OneThread DEF TypeOK
  <2>3. \A s \in Streams : Queued(s)' <=> Queued(s)
    BY <2>1 DEF Queued
  <2>4. Unopened' /\ Deleted'
    BY SMTT(30), <2>1, <2>3, <1>a, <1>0, OnlyThread, OnlyThreadNext
       DEF Unopened, Deleted, NothingAfterFin, TypeOK
  <2>5. Blocks' /\ NothingAfterFin'
    BY SMTT(30), <2>1, <1>a, <1>0, OnlyThread, OnlyThreadNext DEF Blocks, NothingAfterFin, TypeOK
  <2>6. CounterMatches'
    BY SMTT(30), <2>1, <1>a, <1>0, OnlyThread, OnlyThreadNext DEF CounterMatches, TypeOK
  <2>7. QED
    BY <2>2, <2>4, <2>5, <2>6 DEF Sound
<1>13. CASE WorkerCount(1)
  <2>1. /\ UNCHANGED <<queue, running, block, callback, callbackPc, phase, aborted, EndOfFile,
                       read, sent, finSent, inflight>>
        /\ pc[1] = "count"
        /\ pc' = [pc EXCEPT ![1] = "check"]
        /\ OutstandingSends' =
             [OutstandingSends EXCEPT ![running[1]] = Incremented(@)]
    BY <1>13 DEF WorkerCount, poolVars, callVars, fileVars, streamVars, sendVars
  <2>2. /\ running[1] \in Streams
        /\ inflight[running[1]] \in 0..(CounterModulus - 1)
        /\ OutstandingSends[running[1]] \in 0..(CounterModulus - 1)
    BY <2>1, <1>a, <1>0 DEF TypeOK
  <2>3. /\ Incremented(OutstandingSends[running[1]]) \in 0..(CounterModulus - 1)
        /\ Incremented(Decremented(inflight[running[1]])) = inflight[running[1]]
    BY <2>2, CounterArithmetic
  <2>4. TypeOK'
    BY SMTT(30), <1>b, <2>1, <2>2, <2>3, <1>a, <1>0, OneThread DEF TypeOK
  <2>5. \A s \in Streams : Queued(s)' <=> Queued(s)
    BY <2>1 DEF Queued
  <2>6. Unopened' /\ Deleted'
    BY SMTT(30), <2>1, <2>5, <2>2, <2>3, <1>a, <1>0, OnlyThread, OnlyThreadNext
       DEF Unopened, Deleted, NothingAfterFin, TypeOK
  <2>7. Blocks' /\ NothingAfterFin'
    BY SMTT(30), <2>1, <2>2, <2>3, <1>a, <1>0, OnlyThread, OnlyThreadNext
       DEF Blocks, NothingAfterFin, TypeOK
  <2>8. CounterMatches'
    BY SMTT(30), <2>1, <2>2, <2>3, <1>a, <1>0, OnlyThread, OnlyThreadNext
       DEF CounterMatches, TypeOK
  <2>9. QED
    BY <2>4, <2>6, <2>7, <2>8 DEF Sound
<1>14. CASE WorkerCheck(1)
  <2>1. /\ UNCHANGED <<running, block, callback, callbackPc, phase, aborted, EndOfFile,
                       OutstandingSends, read, sent, finSent, inflight>>
        /\ pc[1] = "check"
        /\ pc' = [pc EXCEPT ![1] = "done"]
        /\ queue' = queue \/ queue' = Append(queue, running[1])
    BY <1>14 DEF WorkerCheck, Pool!Submit, poolVars, callVars, fileVars, streamVars, sendVars
  <2>2. running[1] \in Streams
    BY <2>1, <1>a
  <2>3. /\ queue' \in Seq(Streams)
        /\ \A s \in Streams : Queued(s)' => Queued(s) \/ s = running[1]
    BY <2>1, <2>2, <1>0, QueueGrows DEF TypeOK, Queued
  <2>4. TypeOK'
    BY SMTT(30), <1>b, <2>1, <2>3, <2>2, <1>a, <1>0, OneThread DEF TypeOK
  <2>5. Unopened' /\ Deleted'
    BY SMTT(30), <2>1, <2>3, <2>2, <1>a, <1>0, OnlyThread, OnlyThreadNext
       DEF Unopened, Deleted, NothingAfterFin, TypeOK
  <2>6. Blocks' /\ NothingAfterFin'
    BY SMTT(30), <2>1, <2>2, <1>a, <1>0, OnlyThread, OnlyThreadNext
       DEF Blocks, NothingAfterFin, TypeOK
  <2>7. CounterMatches'
    BY SMTT(30), <2>1, <2>2, <1>a, <1>0, OnlyThread, OnlyThreadNext DEF CounterMatches, TypeOK
  <2>8. QED
    BY <2>4, <2>5, <2>6, <2>7 DEF Sound
<1>15. CASE WorkerDone(1)
  <2>1. /\ UNCHANGED <<queue, block, callback, callbackPc, phase, aborted, EndOfFile,
                       OutstandingSends, read, sent, finSent, inflight>>
        /\ pc[1] = "done"
        /\ pc' = [pc EXCEPT ![1] = "idle"]
        /\ running' = [running EXCEPT ![1] = NoStream]
    BY <1>15 DEF WorkerDone, Pool!Finish, poolVars, callVars, fileVars, streamVars, sendVars
  <2>2. TypeOK'
    BY SMTT(30), <1>b, <2>1, <1>a, <1>0, OneThread DEF TypeOK
  <2>3. \A s \in Streams : Queued(s)' <=> Queued(s)
    BY <2>1 DEF Queued
  <2>4. Unopened' /\ Deleted'
    BY SMTT(30), <2>1, <2>3, <1>a, <1>0, OnlyThread, OnlyThreadNext
       DEF Unopened, Deleted, NothingAfterFin, TypeOK
  <2>5. Blocks' /\ NothingAfterFin'
    BY SMTT(30), <2>1, <1>a, <1>0, OnlyThread, OnlyThreadNext DEF Blocks, NothingAfterFin, TypeOK
  <2>6. CounterMatches'
    BY SMTT(30), <2>1, <1>a, <1>0, OnlyThread, OnlyThreadNext DEF CounterMatches, TypeOK
  <2>7. QED
    BY <2>2, <2>4, <2>5, <2>6 DEF Sound
<1>16. ASSUME (\E x \in Streams : PeerAborts(x)) \/ ConnectionLost PROVE Sound'
  <2>1. UNCHANGED <<queue, running, pc, block, callback, callbackPc, phase, EndOfFile,
                    OutstandingSends, read, sent, finSent, inflight, lost>>
    BY <1>16 DEF PeerAborts, ConnectionLost, poolVars, callVars, fileVars, sendVars
  <2>2. /\ aborted' \in [Streams -> BOOLEAN]
        /\ \A s \in Streams : aborted[s] => aborted'[s]
    <3>1. aborted \in [Streams -> BOOLEAN]
      BY <1>0 DEF TypeOK
    <3>2. CASE \E x \in Streams : PeerAborts(x)
      BY <3>1, <3>2 DEF PeerAborts
    <3>3. CASE ConnectionLost
      BY <3>1, <3>3 DEF ConnectionLost
    <3>4. QED
      BY <3>2, <3>3, <1>16
  <2>3. \A s \in Streams : Queued(s)' <=> Queued(s)
    BY <2>1 DEF Queued
  <2>4. \A s \in Streams : Working(s)' <=> Working(s)
    BY <2>1, OnlyThread, OnlyThreadNext
  <2>5. TypeOK'
    BY SMTT(30), <2>1, <2>2, <1>0 DEF TypeOK
  <2>6. Unopened' /\ Deleted'
    BY SMTT(30), <2>1, <2>2, <2>3, <2>4, <1>0 DEF Unopened, Deleted
  <2>7. Blocks' /\ NothingAfterFin'
    BY SMTT(30), <2>1, <1>0, OnlyThread, OnlyThreadNext DEF Blocks, NothingAfterFin
  <2>8. CounterMatches'
    BY SMTT(30), <2>1, <1>0, OnlyThread, OnlyThreadNext DEF CounterMatches
  <2>9. QED
    BY <2>5, <2>6, <2>7, <2>8 DEF Sound
<1>17. CASE Done \/ UNCHANGED vars
  <2>1. UNCHANGED <<queue, running, pc, block, callback, callbackPc, phase, aborted, EndOfFile,
                    OutstandingSends, read, sent, finSent, inflight>>
    BY <1>17 DEF Done, vars, poolVars, callVars, fileVars, streamVars, sendVars
  <2>2. TypeOK'
    BY SMTT(30), <1>b, <2>1, <1>a, <1>0, OneThread DEF TypeOK
  <2>3. \A s \in Streams : Queued(s)' <=> Queued(s)
    BY <2>1 DEF Queued
  <2>4. Unopened' /\ Deleted'
    BY SMTT(30), <2>1, <2>3, <1>a, <1>0, OnlyThread, OnlyThreadNext
       DEF Unopened, Deleted, NothingAfterFin, TypeOK
  <2>5. Blocks' /\ NothingAfterFin'
    BY SMTT(30), <2>1, <1>a, <1>0, OnlyThread, OnlyThreadNext DEF Blocks, NothingAfterFin, TypeOK
  <2>6. CounterMatches'
    BY SMTT(30), <2>1, <1>a, <1>0, OnlyThread, OnlyThreadNext DEF CounterMatches, TypeOK
  <2>7. QED
    BY <2>2, <2>4, <2>5, <2>6 DEF Sound
<1>18. CASE Next
  <2>1. \A t \in Threads : t = 1
    BY OneThread
  <2>2. CASE \E t \in Threads : Worker(t)
    BY <2>1, <2>2, <1>7, <1>8, <1>9, <1>10, <1>11, <1>12, <1>13, <1>14, <1>15 DEF Worker
  <2>3. CASE \E s \in Streams : Callback(s)
    BY <2>3, <1>1, <1>2, <1>3, <1>6 DEF Callback
  <2>4. QED
    BY <1>18, <2>2, <2>3, <1>4, <1>5, <1>16, <1>17 DEF Next
<1>19. QED
  BY <1>17, <1>18

\* The step a stream that is not at its end is at.
Moving ==
  \A s \in Streams :
    phase[s] = "open" /\ ~EndOfFile[s] /\ ~lost[s]
      => \/ Queued(s)
         \/ running[1] = s /\ pc[1] \in {"test", "read", "send", "count", "check"}
         \/ callback = s
         \/ inflight[s] > 0

\* What has been sent is what has been read, but for the block in hand.
Ordered ==
  /\ InOrder
  /\ \A s \in Streams :
       ~lost[s] /\ phase[s] # "deleted" =>
         Len(sent[s]) = IF running[1] = s /\ pc[1] = "send" THEN read[s] - 1 ELSE read[s]

\* A stream that has lost no block keeps moving.
LEMMA NextMoving ==
  ASSUME Sound, Moving, [Next]_vars PROVE Moving'
<1> USE FileSendAssumption
<1>0. TypeOK /\ Unopened /\ Deleted /\ CounterMatches
  BY DEF Sound
<1>a. /\ running \in [{1} -> Streams \cup {NoStream}]
      /\ pc \in [{1} -> {"idle", "test", "read", "send", "count", "check",
                         "done", "undefined"}]
      /\ running[1] = NoStream <=> pc[1] = "idle"
  BY <1>0, OneThread DEF TypeOK
<1>b. \A s \in Streams : lost[s] => lost'[s]
  BY <1>0, LostForGood
<1> USE <1>b
<1>1. ASSUME NEW x \in Streams, ReceiveFileId(x) PROVE Moving'
  <2>1. /\ UNCHANGED <<running, pc, callback, EndOfFile, inflight>>
        /\ queue' = Append(queue, x)
        /\ phase' = [phase EXCEPT ![x] = "open"]
    BY <1>1 DEF ReceiveFileId, Pool!Submit, callVars, fileVars, streamVars, sendVars
  <2>2. \A s \in Streams : Queued(s)' <=> Queued(s) \/ s = x
    BY <2>1, <1>0, QueueGrows DEF TypeOK
  <2>3. QED
    BY <2>1, <2>2, <1>0 DEF Moving, TypeOK
<1>2. ASSUME NEW x \in Streams,
             ReceiveFileIdRefused(x) \/ ReceiveFileIdUnknown(x) \/ ShutdownComplete(x)
      PROVE  Moving'
  <2>1. /\ UNCHANGED <<queue, running, pc, callback, EndOfFile, inflight>>
        /\ phase'[x] # "open" /\ \A s \in Streams : s # x => phase'[s] = phase[s]
    BY <1>2, <1>0 DEF ReceiveFileIdRefused, ReceiveFileIdUnknown, ShutdownComplete,
                      poolVars, callVars, fileVars, streamVars, sendVars, TypeOK
  <2>2. \A s \in Streams : Queued(s)' <=> Queued(s)
    BY <2>1 DEF Queued
  <2>3. QED
    BY <2>1, <2>2 DEF Moving
<1>3. ASSUME NEW x \in Streams, SendComplete(x) PROVE Moving'
  <2>1. /\ UNCHANGED <<queue, running, pc, phase, aborted, EndOfFile>>
        /\ callback = NoStream /\ callback' = x
        /\ \A s \in Streams : s # x => inflight'[s] = inflight[s]
    BY <1>3, <1>0 DEF SendComplete, poolVars, streamVars, fileVars, TypeOK
  <2>2. \A s \in Streams : Queued(s)' <=> Queued(s)
    BY <2>1 DEF Queued
  <2>3. QED
    BY <2>1, <2>2 DEF Moving
<1>4. CASE SendCompleteTest
  <2>1. /\ UNCHANGED <<queue, running, pc, phase, aborted, EndOfFile, inflight>>
        /\ EndOfFile[callback] \/ callback' = callback
    BY <1>4 DEF SendCompleteTest, poolVars, fileVars, streamVars, sendVars
  <2>2. \A s \in Streams : Queued(s)' <=> Queued(s)
    BY <2>1 DEF Queued
  <2>3. QED
    BY <2>1, <2>2 DEF Moving
<1>5. CASE SendCompleteCheck
  <2>1. /\ UNCHANGED <<running, pc, phase, aborted, EndOfFile, inflight, OutstandingSends>>
        /\ callbackPc = "check"
        /\ \/ queue' = Append(queue, callback)
           \/ ~HasRoom(callback) /\ queue' = queue
    BY <1>5 DEF SendCompleteCheck, Pool!Submit, poolVars, fileVars, streamVars, sendVars
  <2>2. callback \in Streams /\ phase[callback] # "deleted"
    BY <2>1, <1>0 DEF TypeOK, Deleted
  <2> PICK c \in Streams : c = callback
    BY <2>2
  <2>3. \A s \in Streams : Queued(s) => Queued(s)'
    <3>1. CASE queue' = Append(queue, c)
      BY <3>1, <1>0, QueueGrows DEF TypeOK
    <3>2. CASE queue' = queue
      BY <3>2 DEF Queued
    <3>3. QED
      BY <3>1, <3>2, <2>1
  <2>4. CASE queue' = Append(queue, c)
    <3>1. Queued(c)'
      BY <2>4, <1>0, QueueGrows DEF TypeOK
    <3>2. QED
      BY <3>1, <2>1, <2>3 DEF Moving
  \* The counter is at its limit: the sends it counts are under way.
  <2>5. CASE ~HasRoom(callback)
    <3>1. inflight[c] \in Nat /\ OutstandingSends[c] \in Nat \ {0}
      BY <2>5, <1>0 DEF TypeOK, HasRoom
    <3>2. inflight[c] > 0 \/ (running[1] = c /\ pc[1] = "count")
      BY <3>1, <2>2, <1>0, OnlyThread DEF CounterMatches
    <3>3. QED
      BY <3>2, <2>1, <2>3 DEF Moving
  <2>6. QED
    BY <2>1, <2>4, <2>5
<1>6. CASE WorkerStart(1)
  <2>1. /\ UNCHANGED <<callback, phase, aborted, EndOfFile, inflight>>
        /\ running[1] = NoStream /\ queue # << >>
        /\ running'[1] = Head(queue) /\ pc'[1] = "test"
        /\ queue' = Tail(queue)
    BY <1>6, <1>a DEF WorkerStart, Pool!Start, callVars, fileVars, streamVars, sendVars
  <2>2. \A s \in Streams : Queued(s) <=> Queued(s)' \/ s = Head(queue)
    BY <2>1, <1>0, QueueShrinks DEF TypeOK
  <2>3. QED
    BY <2>1, <2>2 DEF Moving
<1>7. CASE WorkerUndefined(1) \/ WorkerTest(1) \/ WorkerSend(1) \/ WorkerCount(1)
           \/ WorkerDone(1)
  <2>1. UNCHANGED <<queue, callback, phase, aborted, EndOfFile>>
    BY <1>7 DEF WorkerUndefined, WorkerTest, WorkerSend, WorkerCount, WorkerDone,
                Pool!Finish, poolVars, callVars, fileVars, streamVars, sendVars
  <2>2. \A s \in Streams : inflight[s] > 0 => inflight'[s] > 0
    <3>1. inflight' = inflight \/ inflight' = [inflight EXCEPT ![running[1]] = @ + 1]
      BY <1>7 DEF WorkerUndefined, WorkerTest, WorkerSend, WorkerCount, WorkerDone,
                  poolVars, callVars, fileVars, streamVars, sendVars
    <3>2. inflight \in [Streams -> 0..(MaxBlocks + 1)]
      BY <1>0 DEF TypeOK
    <3>3. ASSUME NEW s \in Streams, inflight[s] > 0 PROVE inflight'[s] > 0
      <4>1. inflight[s] \in Nat
        BY <3>2
      <4>2. inflight'[s] = inflight[s] \/ inflight'[s] = inflight[s] + 1
        BY <3>1, <3>2
      <4>3. QED
        BY <4>1, <4>2, <3>3
    <3>4. QED
      BY <3>3
  <2>3. \/ /\ running'[1] = running[1]
           /\ \/ phase[running[1]] = "deleted"
              \/ EndOfFile[running[1]]
              \/ pc'[1] \in {"test", "read", "send", "count", "check"}
        \/ pc[1] \notin {"test", "read", "send", "count", "check"}
    BY <1>7, <1>a DEF WorkerUndefined, WorkerTest, WorkerSend, WorkerCount, WorkerDone,
                poolVars, callVars, fileVars, streamVars, sendVars
  <2>4. \A s \in Streams : Queued(s)' <=> Queued(s)
    BY <2>1 DEF Queued
  <2>5. QED
    BY <2>1, <2>2, <2>3, <2>4 DEF Moving
<1>8. CASE WorkerRead(1)
  <2>1. /\ UNCHANGED <<queue, running, callback, phase, aborted, inflight>>
        /\ pc[1] = "read" /\ pc'[1] = "send"
        /\ \A s \in Streams : s # running[1] => EndOfFile'[s] = EndOfFile[s]
    <3>1. /\ UNCHANGED <<queue, running, callback, phase, aborted, inflight>>
          /\ pc[1] = "read" /\ pc'[1] = "send"
      BY <1>8, <1>a DEF WorkerRead, poolVars, callVars, streamVars, sendVars
    <3>2. PICK eof \in BOOLEAN : EndOfFile' = [EndOfFile EXCEPT ![running[1]] = eof]
      BY <1>8 DEF WorkerRead
    <3>3. QED
      BY <3>1, <3>2, <1>0 DEF TypeOK
  <2>2. \A s \in Streams : Queued(s)' <=> Queued(s)
    BY <2>1 DEF Queued
  <2>3. QED
    BY <2>1, <2>2 DEF Moving
<1>9. CASE WorkerCheck(1)
  <2>1. /\ UNCHANGED <<running, callback, phase, aborted, EndOfFile, inflight, OutstandingSends>>
        /\ pc[1] = "check"
        /\ \/ queue' = Append(queue, running[1])
           \/ EndOfFile[running[1]] /\ queue' = queue
           \/ ~HasRoom(running[1]) /\ queue' = queue
    BY <1>9 DEF WorkerCheck, Pool!Submit, poolVars, callVars, fileVars, streamVars, sendVars
  <2>2. running[1] \in Streams
    BY <2>1, <1>a
  <2> PICK c \in Streams : c = running[1]
    BY <2>2
  <2>3. \A s \in Streams : Queued(s) => Queued(s)'
    <3>1. CASE queue' = Append(queue, c)
      BY <3>1, <1>0, QueueGrows DEF TypeOK
    <3>2. CASE queue' = queue
      BY <3>2 DEF Queued
    <3>3. QED
      BY <3>1, <3>2, <2>1
  <2>4. CASE queue' = Append(queue, c)
    <3>1. Queued(c)'
      BY <2>4, <1>0, QueueGrows DEF TypeOK
    <3>2. QED
      BY <3>1, <2>1, <2>3 DEF Moving
  <2>5. CASE EndOfFile[running[1]]
    BY <2>5, <2>1, <2>3 DEF Moving
  <2>6. CASE ~HasRoom(running[1]) /\ phase[running[1]] = "open"
    <3>1. inflight[running[1]] \in Nat /\ OutstandingSends[running[1]] \in Nat \ {0}
      BY <2>2, <2>6, <1>0 DEF TypeOK, HasRoom
    <3>2. inflight[running[1]] > 0
      BY <3>1, <2>1, <2>2, <2>6, <1>0, OnlyThread DEF CounterMatches
    <3>3. QED
      BY <3>2, <2>1, <2>3 DEF Moving
  <2>7. CASE phase[running[1]] # "open"
    BY <2>7, <2>1, <2>3 DEF Moving
  <2>8. QED
    BY <2>1, <2>4, <2>5, <2>6, <2>7
<1>10. CASE WorkerSendFails(1)
  <2>1. /\ UNCHANGED <<queue, running, callback, phase, aborted, EndOfFile, inflight>>
        /\ pc[1] = "send" /\ lost'[running[1]]
    BY <1>10, <1>0, <1>a DEF WorkerSendFails, TypeOK, poolVars, callVars, streamVars, fileVars
  <2>2. \A s \in Streams : Queued(s)' <=> Queued(s)
    BY <2>1 DEF Queued
  <2>3. QED
    BY <2>1, <2>2 DEF Moving
<1>11. CASE (\E x \in Streams : PeerAborts(x)) \/ ConnectionLost \/ Done \/ UNCHANGED vars
  BY <1>11 DEF PeerAborts, ConnectionLost, Done, vars, poolVars, callVars, fileVars, streamVars,
               sendVars, Moving, Queued
<1>12. CASE Next
  <2>1. \A t \in Threads : t = 1
    BY OneThread
  <2>2. CASE \E t \in Threads : Worker(t)
    BY <2>1, <2>2, <1>6, <1>7, <1>8, <1>10, <1>9 DEF Worker
  <2>3. CASE \E s \in Streams : Callback(s)
    BY <2>3, <1>1, <1>2, <1>3 DEF Callback
  <2>4. QED
    BY <1>12, <2>2, <2>3, <1>4, <1>5, <1>11 DEF Next
<1>13. QED
  BY <1>11, <1>12

\* With one thread, blocks are sent as they are read until one is lost.
LEMMA NextOrdered ==
  ASSUME Sound, Ordered, [Next]_vars PROVE Ordered'
<1>0. TypeOK /\ Blocks
  BY DEF Sound
<1>a. /\ running \in [{1} -> Streams \cup {NoStream}]
      /\ pc \in [{1} -> {"idle", "test", "read", "send", "count", "check",
                         "done", "undefined"}]
      /\ running[1] = NoStream <=> pc[1] = "idle"
  BY <1>0, OneThread DEF TypeOK
<1>b. \A s \in Streams : /\ lost[s] => lost'[s]
                         /\ phase[s] = "deleted" => phase'[s] = "deleted"
  BY <1>0, LostForGood, DeletedForGood
<1> USE <1>b
<1>1. CASE /\ UNCHANGED <<sent, read>>
           /\ \/ pc[1] # "send" /\ pc'[1] # "send"
              \/ UNCHANGED <<pc, running>>
  BY <1>1 DEF Ordered, InOrder
<1>2. CASE WorkerRead(1)
  <2>1. /\ UNCHANGED <<running, sent>>
        /\ pc[1] = "read" /\ pc'[1] = "send" /\ running[1] \in Streams
        /\ read' = [read EXCEPT ![running[1]] = @ + 1]
    BY <1>2, <1>a DEF WorkerRead, poolVars, streamVars, sendVars
  <2>2. \A s \in Streams : read[s] \in Nat
    BY <1>0 DEF TypeOK
  <2>3. \A s \in Streams : read'[s] = IF s = running[1] THEN read[s] + 1 ELSE read[s]
    BY <2>1, <1>0 DEF TypeOK
  <2>4. QED
    BY <2>1, <2>2, <2>3 DEF Ordered, InOrder
<1>3. CASE WorkerSend(1)
  <2> DEFINE s == running[1]
  <2>1. /\ UNCHANGED <<running, read>>
        /\ pc[1] = "send" /\ pc'[1] = "count" /\ s \in Streams /\ phase[s] # "deleted"
        /\ block[1] = read[s]
        /\ sent' = [sent EXCEPT ![s] = Append(@, block[1])]
    BY <1>3, <1>a, <1>0 DEF WorkerSend, poolVars, fileVars, Blocks
  <2>a. CASE lost[s]
    <3>1. lost'[s] /\ \A u \in Streams : u # s => sent'[u] = sent[u]
      BY <2>a, <2>1, <1>0 DEF TypeOK
    <3>2. QED
      BY <2>1, <3>1 DEF Ordered, InOrder
  <2> SUFFICES ASSUME ~lost[s] PROVE Ordered'
    BY <2>a
  <2>2. /\ sent[s] \in Seq(1..(MaxBlocks + 1)) /\ read[s] \in Nat
        /\ Len(sent[s]) = read[s] - 1 /\ Len(sent[s]) \in Nat
        /\ \A i \in 1..Len(sent[s]) : sent[s][i] = i
    BY <2>1, <1>0 DEF TypeOK, Ordered, InOrder
  <2>3. \A x \in Streams : sent'[x] = IF x = s THEN Append(sent[s], read[s]) ELSE sent[x]
    BY <2>1, <1>0 DEF TypeOK
  <2>4. /\ Len(Append(sent[s], read[s])) = read[s]
        /\ DOMAIN Append(sent[s], read[s]) = 1..read[s]
        /\ \A i \in 1..read[s] : Append(sent[s], read[s])[i] = i
    BY <2>2
  <2>5. InOrder'
    BY <2>3, <2>4 DEF Ordered, InOrder
  <2>6. ASSUME NEW x \in Streams, ~lost'[x], phase'[x] # "deleted"
        PROVE  Len(sent'[x]) = read'[x]
    <3>1. CASE x = s
      BY <3>1, <2>1, <2>3, <2>4
    <3>2. CASE x # s
      BY <3>2, <2>1, <2>3, <2>6 DEF Ordered
    <3>3. QED
      BY <3>1, <3>2
  <2>7. QED
    BY <2>1, <2>5, <2>6 DEF Ordered
<1>4. CASE WorkerStart(1) \/ WorkerTest(1) \/ WorkerCount(1)
           \/ WorkerCheck(1) \/ WorkerDone(1)
  <2>1. UNCHANGED <<sent, read>> /\ pc[1] # "send" /\ pc'[1] # "send"
    BY <1>4, <1>a DEF WorkerStart, WorkerTest, WorkerCount, WorkerCheck,
                      WorkerDone, Pool!Start, fileVars, streamVars, sendVars
  <2>2. QED
    BY <2>1, <1>1
<1>5. CASE \/ \E s \in Streams : Callback(s)
           \/ \E s \in Streams : PeerAborts(s)
           \/ ConnectionLost
           \/ SendCompleteTest \/ SendCompleteCheck \/ Done \/ UNCHANGED vars
  <2>1. UNCHANGED <<sent, read, pc, running>>
    BY <1>5 DEF Callback, ReceiveFileId, ReceiveFileIdRefused, ReceiveFileIdUnknown,
                SendComplete, ShutdownComplete, PeerAborts, ConnectionLost,
                SendCompleteTest, SendCompleteCheck, Done,
                Pool!Submit, vars, poolVars, fileVars, streamVars, sendVars
  <2>2. QED
    BY <2>1, <1>1
<1>6. CASE WorkerSendFails(1)
  <2>1. /\ UNCHANGED <<sent, read, running>> /\ lost'[running[1]]
        /\ pc[1] = "send" /\ pc'[1] = "done"
    BY <1>6, <1>0, <1>a DEF WorkerSendFails, TypeOK, poolVars, fileVars
  <2>2. QED
    BY <2>1 DEF Ordered, InOrder
<1>7. CASE WorkerUndefined(1)
  <2>1. /\ UNCHANGED <<sent, read, running, phase>> /\ phase[running[1]] = "deleted"
        /\ pc' = [pc EXCEPT ![1] = "undefined"]
    BY <1>7 DEF WorkerUndefined, poolVars, streamVars, fileVars, sendVars
  <2>2. QED
    BY <2>1 DEF Ordered, InOrder
<1>8. CASE \E t \in Threads : Worker(t)
  BY <1>8, <1>2, <1>3, <1>4, <1>6, <1>7, OneThread DEF Worker
<1>9. QED
  BY <1>5, <1>8 DEF Next

(* The counter that paces a stream is right at any time, whatever the      *)
(* order in which the send is completed and counted.                       *)
THEOREM SendsCounted == Safety => []CounterMatches
<1>1. Sound => CounterMatches
  BY DEF Sound
<1>2. QED
  BY <1>1, InitSound, NextSound, PTL DEF Safety

(* However many surplus items there are: the FIN is the last thing sent.   *)
THEOREM FinIsLast == Safety => [](TypeOK /\ NothingAfterFin)
<1>1. Sound => TypeOK /\ NothingAfterFin
  BY DEF Sound
<1>2. QED
  BY <1>1, InitSound, NextSound, PTL DEF Safety

(* What outlives its context has nothing left to send, the items that go   *)
(* on using it find EndOfFile set, but for a stream the server or the end  *)
(* of the connection has cut off.                                          *)
THEOREM DeletedLeftAlone == Safety => []DeletedIsFinished
<1>1. Sound => DeletedIsFinished
  BY DEF Sound, Deleted, DeletedIsFinished
<1>2. QED
  BY <1>1, InitSound, NextSound, PTL DEF Safety

(* No stream stalls before the end of its file, unless a send of it fails. *)
THEOREM StreamsNeverStall == Safety => []NoStall
<1>1. Init => Moving
  BY DEF Init, Moving
<1>2. Sound /\ Moving => NoStall
  BY OnlyThread DEF Moving, NoStall
<1>3. Sound /\ Moving /\ [Next]_vars => Moving'
  BY NextMoving
<1>4. QED
  BY <1>1, <1>2, <1>3, InitSound, NextSound, PTL DEF Safety

(* The blocks of a file are sent in its order and none is left out, until  *)
(* a send of it fails.                                                     *)
THEOREM BlocksInOrder == Safety => []InOrder
<1>1. Init => Ordered
  <2>1. ASSUME Init PROVE Ordered
    <3>1. \A s \in Streams : sent[s] = << >> /\ read[s] = 0
      BY <2>1 DEF Init
    <3>2. pc[1] = "idle"
      BY <2>1, OneThread DEF Init
    <3>3. QED
      BY <3>1, <3>2 DEF Ordered, InOrder
  <2>2. QED
    BY <2>1
<1>2. Sound /\ Ordered /\ [Next]_vars => Ordered'
  BY NextOrdered
<1>3. Ordered => InOrder
  BY DEF Ordered
<1>4. QED
  BY <1>1, <1>2, <1>3, InitSound, NextSound, PTL DEF Safety

===============================================================================
