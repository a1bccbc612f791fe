-------------------------- MODULE FileReceiveProofs --------------------------
(***************************************************************************)
(* Theorems about FileReceive, for any number of IoPool threads, any file  *)
(* size, any number of local edits and any set of failing calls.           *)
(*                                                                         *)
(* Control is the invariant about references and receives: at any time at  *)
(* most one receive is in the pool's hands.  Assembled, which rests on it, *)
(* is the invariant about the bytes of the temporary file; Finished the    *)
(* one about the worker of the last receive, from which the state of       *)
(* Transfer is read.                                                       *)
(***************************************************************************)
EXTENDS FileReceive, FiniteSetTheorems, SequenceTheorems, TLAPS

ControlTypes ==
  /\ phase \in {"exists", "mtime", "size", "open", "live", "abandoned"}
  /\ RefCount \in Nat /\ FinalReceive \in BOOLEAN
  /\ queue \in {<< >>, <<Job>>} /\ running \in [IoWorkers -> {Job, Idle}]
  /\ pc \in [IoWorkers -> {"idle", "open", "write", "complete", "final", "close",
                           "exists", "size", "mtime", "verify", "rename",
                           "settime", "discard", "deref", "terminated"}]
  /\ stream \in {"none", "open", "aborted", "closed"}
  /\ recvPending \in BOOLEAN /\ leaked \in BOOLEAN

\* A thread runs an item exactly while it is inside FileIoWorker.
Placement == \A w \in IoWorkers : running[w] = Idle <=> pc[w] = "idle"

\* Before the stream is opened there is nothing but the snapshot.
Quiet ==
  /\ phase = "live" <=> stream # "none"
  /\ phase # "live" => /\ RefCount = 0 /\ queue = << >> /\ ~recvPending
                       /\ ~FinalReceive /\ ~leaked
                       /\ \A w \in IoWorkers : pc[w] = "idle"

(* The receive that MsQuic waits for is in one place at most: in the queue *)
(* or with one worker that has not called ReceiveComplete.  After a failed *)
(* open it is nowhere, and the stream is on its way down.                  *)
OneReceive ==
  /\ queue # << >> => InReceive = {}
  /\ \A v, w \in InReceive : v = w
  /\ queue # << >> \/ InReceive # {} => recvPending
  /\ leaked => /\ queue = << >> /\ InReceive = {} /\ recvPending
               /\ stream \in {"aborted", "closed"}

Control == ControlTypes /\ Placement /\ Quiet /\ OneReceive /\ RefsCounted

controlVars == <<phase, RefCount, FinalReceive, queue, running, stream, recvPending, leaked>>

\* The threads in FileIoWorker can be counted.
LEMMA BusyFinite ==
  /\ IsFiniteSet(Busy) /\ Cardinality(Busy) \in Nat
  /\ IsFiniteSet(Busy') /\ Cardinality(Busy') \in Nat
  BY FileReceiveAssumption, FS_Subset, FS_CardinalityType DEF Busy

\* Nothing has started.
LEMMA InitControl == Init => Control
<1> SUFFICES ASSUME Init PROVE Control
  OBVIOUS
<1>1. Busy = {} /\ InReceive = {}
  BY DEF Init, Busy, InReceive
<1>2. QED
  BY <1>1, FileReceiveAssumption, FS_EmptySet
     DEF Init, Pool!Init, Control, ControlTypes, Placement, Quiet, OneReceive, RefsCounted

\* A worker moves on inside FileIoWorker and touches none of the control state.
LEMMA WorkerMoves ==
  ASSUME Control, UNCHANGED controlVars,
         NEW w \in IoWorkers, pc[w] # "idle",
         NEW l \in {"write", "complete", "final", "close", "exists", "size",
                    "mtime", "verify", "rename", "settime", "discard", "deref", "terminated"},
         l \in {"write", "complete"} => w \in InReceive,
         pc' = [pc EXCEPT ![w] = l]
  PROVE  Control'
<1> USE DEF Control, ControlTypes, controlVars
<1>1. Busy' = Busy
  BY DEF Busy
<1>2. InReceive' \subseteq InReceive
  BY DEF InReceive
<1>3. ControlTypes' /\ Placement' /\ Quiet'
  BY DEF Placement, Quiet
<1>4. OneReceive'
  BY <1>2 DEF OneReceive
<1>5. RefsCounted'
  BY <1>1 DEF RefsCounted
<1>6. QED
  BY <1>3, <1>4, <1>5

\* Nothing of the control state and no worker moves.
LEMMA ControlUnchanged ==
  ASSUME Control, UNCHANGED <<controlVars, pc>> PROVE Control'
  BY DEF Control, ControlTypes, Placement, Quiet, OneReceive, RefsCounted,
         controlVars, Busy, InReceive

\* A worker leaves FileIoWorker.
LEMMA WorkerLeaves ==
  ASSUME Control, NEW w \in IoWorkers, pc[w] # "idle",
         pc' = [pc EXCEPT ![w] = "idle"]
  PROVE  /\ Cardinality(Busy') = Cardinality(Busy) - 1
         /\ Cardinality(Busy) \in Nat \ {0}
         /\ InReceive' = InReceive \ {w}
<1>1. Busy' = Busy \ {w} /\ w \in Busy
  BY DEF Control, ControlTypes, Busy
<1>2. Cardinality(Busy') = Cardinality(Busy) - 1
  BY <1>1, BusyFinite, FS_RemoveElement
<1>3. InReceive' = InReceive \ {w}
  BY DEF Control, ControlTypes, InReceive
<1>4. QED
  BY <1>2, <1>3, BusyFinite

\* Every step of every actor keeps the references counted.
LEMMA NextControl == Control /\ [Next]_vars => Control'
<1> SUFFICES ASSUME Control, [Next]_vars PROVE Control'
  OBVIOUS
<1> USE FileReceiveAssumption
<1>0. ControlTypes /\ Placement /\ Quiet /\ OneReceive /\ RefsCounted
  BY DEF Control
<1>1. CASE SnapshotExists \/ SnapshotModTime \/ SnapshotSize \/ OpenStreamFails
  <2>1. /\ UNCHANGED <<RefCount, FinalReceive, queue, running, pc, stream, recvPending, leaked>>
        /\ phase # "live" /\ phase' # "live"
        /\ phase' \in {"exists", "mtime", "size", "open", "live", "abandoned"}
    BY <1>1 DEF SnapshotExists, SnapshotModTime, SnapshotSize, OpenStreamFails,
                receiveVars, poolVars, streamVars, history
  <2>2. QED
    BY <2>1, <1>0 DEF Control, ControlTypes, Placement, Quiet, OneReceive,
                      RefsCounted, Busy, InReceive
<1>2. CASE OpenStream
  <2>1. Busy' = {} /\ InReceive' = {}
    BY <1>2, <1>0 DEF OpenStream, poolVars, Quiet, Busy, InReceive
  <2>2. /\ phase' = "live" /\ stream' = "open" /\ RefCount' = 1
        /\ phase = "open"
        /\ UNCHANGED <<FinalReceive, queue, running, pc, recvPending, leaked>>
    BY <1>2 DEF OpenStream, receiveVars, poolVars, history
  <2>3. QED
    BY <2>1, <2>2, <1>0, FS_EmptySet
       DEF Control, ControlTypes, Placement, Quiet, OneReceive, RefsCounted
<1>3. ASSUME NEW n \in 0..(total - delivered), NEW fin \in BOOLEAN, Receive(n, fin)
      PROVE  Control'
  <2>1. /\ UNCHANGED <<phase, running, pc, stream, leaked>>
        /\ stream = "open" /\ ~recvPending /\ recvPending'
        /\ RefCount' = RefCount + 1 /\ FinalReceive' = fin
        /\ queue' = Append(queue, Job)
    BY <1>3 DEF Receive, Pool!Submit, contextVars, history
  <2>2. queue = << >> /\ InReceive = {} /\ ~leaked
    BY <2>1, <1>0 DEF OneReceive
  <2>3. queue' = <<Job>> /\ Len(queue') = 1 /\ Len(queue) = 0
    BY <2>1, <2>2
  <2>4. Busy' = Busy /\ InReceive' = {}
    BY <2>1, <2>2 DEF Busy, InReceive
  <2>5. RefsCounted'
    BY <2>1, <2>3, <2>4, <1>0, BusyFinite DEF RefsCounted, ControlTypes, Quiet
  <2>6. QED
    BY <2>1, <2>2, <2>3, <2>4, <2>5, <1>0
       DEF Control, ControlTypes, Placement, Quiet, OneReceive
<1>4. CASE PeerAborts \/ ConnectionLost
  <2>1. /\ UNCHANGED <<phase, RefCount, FinalReceive, queue, running, pc, recvPending, leaked>>
        /\ stream = "open" /\ stream' = "aborted"
    BY <1>4 DEF PeerAborts, ConnectionLost, contextVars, receiveVars, poolVars, history
  <2>2. Busy' = Busy /\ InReceive' = InReceive
    BY <2>1 DEF Busy, InReceive
  <2>3. QED
    BY <2>1, <2>2, <1>0 DEF Control, ControlTypes, Placement, Quiet, OneReceive, RefsCounted
<1>5. CASE ShutdownComplete
  <2>1. /\ UNCHANGED <<phase, FinalReceive, queue, running, pc, recvPending, leaked>>
        /\ stream \in {"open", "aborted"} /\ stream' = "closed"
        /\ RefCount' = RefCount - 1
        /\ leaked => stream = "aborted"
    BY <1>5, <1>0 DEF ShutdownComplete, OneReceive, contextVars, receiveVars, poolVars, history
  <2>2. Busy' = Busy /\ InReceive' = InReceive
    BY <2>1 DEF Busy, InReceive
  <2>3. phase = "live" /\ Len(queue) \in Nat
    BY <2>1, <1>0 DEF Quiet, ControlTypes
  <2>4. RefsCounted' /\ RefCount' \in Nat
    BY <2>1, <2>2, <2>3, <1>0, BusyFinite DEF RefsCounted, ControlTypes
  <2>5. QED
    BY <2>1, <2>2, <2>3, <2>4, <1>0 DEF Control, ControlTypes, Placement, Quiet, OneReceive
<1>6. ASSUME NEW w \in IoWorkers, WorkerStart(w) PROVE Control'
  <2>1. /\ UNCHANGED <<phase, RefCount, FinalReceive, stream, recvPending, leaked>>
        /\ running[w] = Idle /\ queue # << >>
        /\ running' = [running EXCEPT ![w] = Head(queue)]
        /\ queue' = Tail(queue)
        /\ pc' = [pc EXCEPT ![w] = "open"]
    BY <1>6 DEF WorkerStart, Pool!Start, Goto, contextVars, receiveVars, streamVars, history
  <2>2. queue = <<Job>> /\ pc[w] = "idle" /\ InReceive = {} /\ ~leaked /\ recvPending
    BY <2>1, <1>0 DEF ControlTypes, Placement, OneReceive
  <2>3. queue' = << >> /\ Len(queue') = 0 /\ Len(queue) = 1 /\ Head(queue) = Job
    BY <2>1, <2>2
  <2>4. Busy' = Busy \cup {w} /\ w \notin Busy /\ InReceive' = {w}
    BY <2>1, <2>2, <1>0 DEF ControlTypes, Busy, InReceive
  <2>5. Cardinality(Busy') = Cardinality(Busy) + 1
    BY <2>4, BusyFinite, FS_AddElement
  <2>6. phase = "live"
    BY <2>2, <1>0 DEF Quiet
  <2>7. RefsCounted'
    <3> DEFINE s == IF stream = "closed" THEN 0 ELSE 1
    <3>1. s \in Nat /\ s' = s /\ RefCount' = RefCount
      BY <2>1
    <3>2. RefCount = s + 1 + Cardinality(Busy) + 0
      BY <2>2, <2>3, <2>6, <1>0 DEF RefsCounted
    <3>3. RefCount' = s' + Len(queue') + Cardinality(Busy') + 0
      BY <3>1, <3>2, <2>3, <2>5, BusyFinite
    <3>4. QED
      BY <3>3, <2>1, <2>2 DEF RefsCounted
  <2>8. QED
    BY <2>1, <2>2, <2>3, <2>4, <2>6, <2>7, <1>0
       DEF Control, ControlTypes, Placement, Quiet, OneReceive
<1>7. ASSUME NEW w \in IoWorkers, WorkerOpenFails(w) PROVE Control'
  <2>1. /\ UNCHANGED <<phase, RefCount, FinalReceive, queue, recvPending>>
        /\ pc[w] = "open" /\ leaked'
        /\ stream' = IF stream = "open" THEN "aborted" ELSE stream
        /\ running' = [running EXCEPT ![w] = Idle]
        /\ pc' = [pc EXCEPT ![w] = "idle"]
    BY <1>7 DEF WorkerOpenFails, Pool!Finish, Goto, StreamShutdown,
                contextVars, receiveVars
  <2>2. w \in InReceive
    BY <2>1 DEF InReceive
  <2>3. InReceive = {w} /\ queue = << >> /\ recvPending /\ ~leaked
    BY <2>2, <1>0 DEF OneReceive, ControlTypes
  <2>4. /\ Cardinality(Busy') = Cardinality(Busy) - 1
        /\ Cardinality(Busy) \in Nat \ {0} /\ InReceive' = {}
    BY <2>1, <2>3, WorkerLeaves
  <2>5. phase = "live" /\ stream # "none"
    BY <2>3, <1>0 DEF Quiet
  <2>6. RefsCounted'
    BY <2>1, <2>3, <2>4, <2>5, <1>0 DEF RefsCounted, ControlTypes
  <2>7. QED
    BY <2>1, <2>3, <2>4, <2>5, <2>6, <1>0
       DEF Control, ControlTypes, Placement, Quiet, OneReceive
<1>8. ASSUME NEW w \in IoWorkers, WorkerOpen(w) \/ WorkerWrite(w) PROVE Control'
  <2>1. UNCHANGED controlVars /\ w \in InReceive /\ pc[w] # "idle"
    BY <1>8 DEF WorkerOpen, WorkerWrite, controlVars, InReceive, contextVars,
                receiveVars, poolVars, streamVars, history
  <2>2. pc' = [pc EXCEPT ![w] = "write"] \/ pc' = [pc EXCEPT ![w] = "complete"]
    BY <1>8 DEF WorkerOpen, WorkerWrite, Goto
  <2>3. QED
    BY <2>1, <2>2, WorkerMoves
<1>9. ASSUME NEW w \in IoWorkers, WorkerWriteFails(w) PROVE Control'
  <2>1. /\ UNCHANGED <<phase, RefCount, FinalReceive, queue, running, recvPending, leaked>>
        /\ pc[w] = "write"
        /\ stream' = IF stream = "open" THEN "aborted" ELSE stream
        /\ pc' = [pc EXCEPT ![w] = "deref"]
    BY <1>9 DEF WorkerWriteFails, Goto, StreamShutdown, contextVars,
                receiveVars, poolVars, history
  <2>2. Busy' = Busy /\ InReceive' \subseteq InReceive
    BY <2>1, <1>0 DEF ControlTypes, Busy, InReceive
  <2>3. QED
    BY <2>1, <2>2, <1>0
       DEF Control, ControlTypes, Placement, Quiet, OneReceive, RefsCounted
<1>10. ASSUME NEW w \in IoWorkers, WorkerComplete(w) PROVE Control'
  <2>1. /\ UNCHANGED <<phase, RefCount, FinalReceive, queue, running, stream, leaked>>
        /\ pc[w] = "complete" /\ recvPending' = FALSE
        /\ pc' = [pc EXCEPT ![w] = "final"]
    BY <1>10 DEF WorkerComplete, Goto, contextVars, poolVars, history
  <2>2. w \in InReceive
    BY <2>1 DEF InReceive
  <2>3. queue = << >> /\ InReceive = {w} /\ ~leaked
    BY <2>2, <1>0 DEF OneReceive, ControlTypes
  <2>4. Busy' = Busy /\ InReceive' = {}
    BY <2>1, <2>3, <1>0 DEF ControlTypes, Busy, InReceive
  <2>5. QED
    BY <2>1, <2>3, <2>4, <1>0
       DEF Control, ControlTypes, Placement, Quiet, OneReceive, RefsCounted
<1>11. ASSUME NEW w \in IoWorkers,
              WorkerFinal(w) \/ WorkerClose(w) \/ WorkerExists(w) \/ WorkerExistsFails(w)
               \/ WorkerSize(w)
                \/ WorkerModTime(w) \/ WorkerVerify(w)
       PROVE  Control'
  <2>1. UNCHANGED controlVars /\ pc[w] # "idle"
    BY <1>11 DEF WorkerFinal, WorkerClose, WorkerExists, WorkerExistsFails, WorkerSize, WorkerModTime,
                 WorkerVerify, controlVars, contextVars, receiveVars, poolVars,
                 streamVars, history
  <2>2. PICK l \in {"close", "deref", "terminated", "exists", "size", "verify", "mtime",
                    "discard", "rename"} : pc' = [pc EXCEPT ![w] = l]
    BY <1>11 DEF WorkerFinal, WorkerClose, WorkerExists, WorkerExistsFails, WorkerSize, WorkerModTime,
                 WorkerVerify, Goto
  <2>3. QED
    BY <2>1, <2>2, WorkerMoves
<1>12. ASSUME NEW w \in IoWorkers,
              WorkerRename(w) \/ WorkerRenameFails(w) \/ WorkerSetTime(w)
                \/ WorkerSetTimeFails(w) \/ WorkerDiscard(w)
       PROVE  Control'
  <2>1. UNCHANGED controlVars /\ pc[w] # "idle"
    BY <1>12 DEF WorkerRename, WorkerRenameFails, WorkerSetTime, WorkerSetTimeFails,
                 WorkerDiscard, controlVars, contextVars, receiveVars, poolVars,
                 streamVars, history
  <2>2. PICK l \in {"settime", "discard", "deref", "terminated"} : pc' = [pc EXCEPT ![w] = l]
    BY <1>12 DEF WorkerRename, WorkerRenameFails, WorkerSetTime, WorkerSetTimeFails,
                 WorkerDiscard, Goto
  <2>3. QED
    BY <2>1, <2>2, WorkerMoves
<1>13. ASSUME NEW w \in IoWorkers, WorkerDeref(w) PROVE Control'
  <2>1. /\ UNCHANGED <<phase, FinalReceive, queue, stream, recvPending, leaked>>
        /\ pc[w] = "deref" /\ RefCount' = RefCount - 1
        /\ running' = [running EXCEPT ![w] = Idle]
        /\ pc' = [pc EXCEPT ![w] = "idle"]
    BY <1>13 DEF WorkerDeref, Pool!Finish, Goto, contextVars, receiveVars,
                 streamVars, history
  <2>2. /\ Cardinality(Busy') = Cardinality(Busy) - 1
        /\ Cardinality(Busy) \in Nat \ {0} /\ InReceive' \subseteq InReceive
    BY <2>1, WorkerLeaves
  <2>3. phase = "live" /\ Len(queue) \in Nat
    BY <2>1, <1>0 DEF Quiet, ControlTypes
  <2>4. RefsCounted' /\ RefCount' \in Nat
    <3> DEFINE s == IF stream = "closed" THEN 0 ELSE 1
               l == IF leaked THEN 1 ELSE 0
    <3>1. s \in Nat /\ l \in Nat /\ s' = s /\ l' = l /\ queue' = queue
      BY <2>1
    <3>2. RefCount = s + Len(queue) + Cardinality(Busy) + l
      BY <2>3, <1>0 DEF RefsCounted
    <3>3. RefCount' = s' + Len(queue') + Cardinality(Busy') + l' /\ RefCount' \in Nat
      BY <3>1, <3>2, <2>1, <2>2, <2>3
    <3>4. QED
      BY <3>3 DEF RefsCounted
  <2>5. QED
    BY <2>1, <2>2, <2>3, <2>4, <1>0
       DEF Control, ControlTypes, Placement, Quiet, OneReceive
<1>14. CASE (\E s \in LocalSizes : LocalEdit(s)) \/ LocalRemove \/ UNCHANGED vars
  <2>1. UNCHANGED <<controlVars, pc>>
    BY <1>14 DEF LocalEdit, LocalRemove, vars, controlVars, contextVars,
                 receiveVars, poolVars, streamVars, history
  <2>2. QED
    BY <2>1, ControlUnchanged
<1>15. QED
  BY <1>1, <1>2, <1>3, <1>4, <1>5, <1>6, <1>7, <1>8, <1>9, <1>10, <1>11, <1>12,
     <1>13, <1>14
     DEF Next, Snapshot, Receives, WorkerStep, Done

(* "delete this" comes once and last: for any number of threads, whatever  *)
(* fails, RefCount counts the stream, the queued items and the running     *)
(* ones.                                                                   *)
THEOREM ReferencesCounted == Spec => []RefsCounted
<1>1. Control => RefsCounted
  BY DEF Control
<1>2. QED
  BY <1>1, InitControl, NextControl, PTL DEF Spec, Safety

-----------------------------------------------------------------------------
(* The end of a context *)

\* A context is deleted when nobody is left who has a reference to it.
LEMMA FreedIsUnused ==
  ASSUME Control, Freed
  PROVE  stream = "closed" /\ queue = << >> /\ Busy = {} /\ ~leaked
<1> DEFINE s == IF stream = "closed" THEN 0 ELSE 1
           l == IF leaked THEN 1 ELSE 0
<1>1. queue \in {<< >>, <<Job>>} /\ Len(queue) \in Nat /\ Cardinality(Busy) \in Nat
  BY BusyFinite DEF Control, ControlTypes
<1>2. 0 = s + Len(queue) + Cardinality(Busy) + l
  BY DEF Control, RefsCounted, Freed
<1>3. s = 0 /\ l = 0 /\ Len(queue) = 0 /\ Cardinality(Busy) = 0
  BY <1>1, <1>2
<1>4. Busy = {}
  BY <1>3, BusyFinite, FS_EmptySet
<1>5. queue = << >>
  BY <1>1, <1>3
<1>6. QED
  BY <1>3, <1>4, <1>5

(* A deleted context is left alone: once RefCount has reached zero no      *)
(* callback comes for it and no thread of IoPool touches a field of it or  *)
(* the temporary file, for any number of threads and whatever fails.       *)
DeletedLeftAlone ==
  Freed => UNCHANGED <<contextVars, RefCount, FinalReceive, Buffers, BytesWritten,
                       poolVars, pc, temp, streamVars, history>>

THEOREM NoUseAfterDelete == Spec => [][DeletedLeftAlone]_vars
<1>1. ASSUME Control, Freed, [Next]_vars
      PROVE  UNCHANGED <<contextVars, RefCount, FinalReceive, Buffers, BytesWritten,
                         poolVars, pc, temp, streamVars, history>>
  <2>1. stream = "closed" /\ queue = << >> /\ Busy = {} /\ phase = "live"
    BY <1>1, FreedIsUnused DEF Freed
  <2>2. \A w \in IoWorkers : pc[w] = "idle"
    BY <2>1 DEF Busy
  <2>3. ~(Snapshot \/ OpenStreamFails \/ Receives \/ PeerAborts \/ ConnectionLost \/ ShutdownComplete)
    BY <2>1 DEF Snapshot, SnapshotExists, SnapshotModTime, SnapshotSize, OpenStream,
                OpenStreamFails, Receives, Receive, PeerAborts, ConnectionLost, ShutdownComplete
  <2>4. ASSUME NEW w \in IoWorkers, WorkerStep(w) PROVE FALSE
    <3>1. ~WorkerStart(w)
      BY <2>1 DEF WorkerStart, Pool!Start
    <3>2. QED
      BY <2>2, <2>4, <3>1
         DEF WorkerStep, WorkerOpen, WorkerOpenFails, WorkerWrite, WorkerWriteFails,
             WorkerComplete, WorkerFinal, WorkerClose, WorkerExists, WorkerExistsFails,
             WorkerSize, WorkerModTime, WorkerVerify, WorkerRename, WorkerRenameFails,
             WorkerSetTime, WorkerSetTimeFails, WorkerDiscard, WorkerDeref
  <2>5. (\E size \in LocalSizes : LocalEdit(size)) \/ LocalRemove \/ UNCHANGED vars
    BY <1>1, <2>3, <2>4 DEF Next, Done
  <2>6. QED
    BY <2>5 DEF LocalEdit, LocalRemove, vars, receiveVars, fileVars
<1>2. Control /\ [Next]_vars => [DeletedLeftAlone]_vars
  BY <1>1 DEF DeletedLeftAlone
<1>3. QED
  BY <1>2, InitControl, NextControl, PTL DEF Spec, Safety

(* And it is deleted by then: once the stream is down and IoPool has       *)
(* nothing of it left, the context has been freed, unless a failed open    *)
(* has kept a reference.  It never rests half finished.                    *)
FreedAtRest ==
  phase = "live" /\ stream = "closed" /\ queue = << >> /\ Busy = {} => Freed \/ leaked

THEOREM NothingKept == Spec => []FreedAtRest
<1>1. Control => FreedAtRest
  BY FS_EmptySet DEF Control, RefsCounted, FreedAtRest, Freed
<1>2. QED
  BY <1>1, InitControl, NextControl, PTL DEF Spec, Safety

-----------------------------------------------------------------------------
\* What has happened stays so.
LEMMA HistoryStays ==
  ASSUME [Next]_vars
  PROVE  (lost => lost') /\ (stale => stale') /\ (cut => cut')
<1>1. \/ lost' = lost /\ stale' = stale /\ cut' = cut
      \/ ConnectionLost
      \/ \E w \in IoWorkers : WorkerFinal(w) \/ WorkerClose(w)
  BY DEF Next, Snapshot, SnapshotExists, SnapshotModTime, SnapshotSize, OpenStream,
     OpenStreamFails, Receives, Receive, PeerAborts, ShutdownComplete,
     LocalEdit, LocalRemove, Done, vars, history, WorkerStep, WorkerStart, WorkerOpen,
     WorkerOpenFails, WorkerWrite, WorkerWriteFails, WorkerComplete,
     WorkerExists, WorkerExistsFails, WorkerSize, WorkerModTime,
     WorkerVerify, WorkerRename, WorkerRenameFails, WorkerSetTime, WorkerSetTimeFails,
     WorkerDiscard, WorkerDeref
<1>2. CASE ConnectionLost
  BY <1>2 DEF ConnectionLost
<1>3. ASSUME NEW w \in IoWorkers, WorkerFinal(w)
      PROVE  (lost => lost') /\ (stale => stale') /\ (cut => cut')
  BY <1>3 DEF WorkerFinal
<1>4. ASSUME NEW w \in IoWorkers, WorkerClose(w)
      PROVE  (lost => lost') /\ (stale => stale') /\ (cut => cut')
  BY <1>4 DEF WorkerClose
<1>5. QED
  BY <1>1, <1>2, <1>3, <1>4

(* The stream outlives its use, unless the connection is lost *)

\* A stream on its way down has no receive in the pool's hands.
DownMeansUnused ==
  /\ stream \in {"aborted", "closed"} => InReceive = {} /\ queue = << >>
  /\ stream = "none" => InReceive = {} /\ queue = << >>

\* The snapshot comes before the stream.
LEMMA InitDown == Init => DownMeansUnused
  BY DEF Init, Pool!Init, DownMeansUnused, InReceive

\* The client's abort comes before any receive, the orderly end after the last.
LEMMA NextDown ==
  ASSUME Control, DownMeansUnused, [Next]_vars, ~lost'
  PROVE  DownMeansUnused'
<1> USE DEF DownMeansUnused
<1>0. ControlTypes /\ Quiet /\ OneReceive
  BY DEF Control
<1>1. CASE Snapshot \/ OpenStreamFails
  <2>1. UNCHANGED <<queue, pc>> /\ queue = << >> /\ InReceive = {}
    BY <1>1, <1>0 DEF Snapshot, SnapshotExists, SnapshotModTime, SnapshotSize,
         OpenStream, OpenStreamFails, poolVars, Quiet, InReceive
  <2>2. QED
    BY <2>1 DEF InReceive
<1>2. CASE Receives
  <2>1. stream' = "open"
    BY <1>2 DEF Receives, Receive
  <2>2. QED
    BY <2>1
<1>3. CASE PeerAborts \/ ConnectionLost \/ ShutdownComplete
  <2>1. UNCHANGED <<queue, pc>> /\ (stream = "open" => ~recvPending)
    BY <1>3 DEF PeerAborts, ConnectionLost, ShutdownComplete, poolVars
  <2>2. stream = "open" => queue = << >> /\ InReceive = {}
    BY <2>1, <1>0 DEF OneReceive
  <2>3. stream \in {"open", "aborted"}
    BY <1>3 DEF PeerAborts, ConnectionLost, ShutdownComplete
  <2>4. QED
    BY <2>1, <2>2, <2>3 DEF InReceive
<1>4. ASSUME NEW w \in IoWorkers, WorkerStart(w) PROVE DownMeansUnused'
  <2>1. queue # << >> /\ stream' = stream
    BY <1>4 DEF WorkerStart, Pool!Start, streamVars
  <2>2. stream = "open"
    BY <2>1, <1>0 DEF ControlTypes
  <2>3. QED
    BY <2>1, <2>2
<1>5. ASSUME NEW w \in IoWorkers, WorkerOpenFails(w) \/ WorkerWriteFails(w)
      PROVE  DownMeansUnused'
  <2>1. w \in InReceive
    BY <1>5 DEF WorkerOpenFails, WorkerWriteFails, InReceive
  <2>2. queue = << >> /\ InReceive = {w}
    BY <2>1, <1>0 DEF OneReceive
  <2>3. queue' = queue /\ InReceive' = {}
    BY <1>5, <2>2, <1>0 DEF WorkerOpenFails, WorkerWriteFails, Pool!Finish, Goto,
         poolVars, InReceive, ControlTypes
  <2>4. QED
    BY <2>2, <2>3
<1>6. ASSUME NEW w \in IoWorkers, NEW l \in {"write", "complete", "final", "close",
                "exists", "size", "mtime", "verify", "rename", "settime", "discard",
                "deref", "terminated", "idle"},
             l \in {"write", "complete"} => w \in InReceive,
             pc' = [pc EXCEPT ![w] = l], UNCHANGED <<queue, stream>>
      PROVE  DownMeansUnused'
  <2>1. InReceive' \subseteq InReceive
    BY <1>6, <1>0 DEF ControlTypes, InReceive
  <2>2. QED
    BY <2>1, <1>6
<1>7. ASSUME NEW w \in IoWorkers,
             WorkerOpen(w) \/ WorkerWrite(w) \/ WorkerComplete(w)
      PROVE  DownMeansUnused'
  <2>1. UNCHANGED <<queue, stream>> /\ w \in InReceive
    BY <1>7 DEF WorkerOpen, WorkerWrite, WorkerComplete, poolVars, streamVars, InReceive
  <2>2. PICK l \in {"write", "complete", "final"} : pc' = [pc EXCEPT ![w] = l]
    BY <1>7 DEF WorkerOpen, WorkerWrite, WorkerComplete, Goto
  <2>3. QED
    BY <2>1, <2>2, <1>6
<1>8. ASSUME NEW w \in IoWorkers,
             WorkerFinal(w) \/ WorkerClose(w) \/ WorkerExists(w) \/ WorkerExistsFails(w)
               \/ WorkerSize(w)
               \/ WorkerModTime(w) \/ WorkerVerify(w)
      PROVE  DownMeansUnused'
  <2>1. UNCHANGED <<queue, stream>>
    BY <1>8 DEF WorkerFinal, WorkerClose, WorkerExists, WorkerExistsFails, WorkerSize, WorkerModTime,
         WorkerVerify, poolVars, streamVars
  <2>2. PICK l \in {"close", "deref", "terminated", "exists", "size", "verify", "mtime",
                    "discard", "rename"} : pc' = [pc EXCEPT ![w] = l]
    BY <1>8 DEF WorkerFinal, WorkerClose, WorkerExists, WorkerExistsFails, WorkerSize, WorkerModTime,
         WorkerVerify, Goto
  <2>3. QED
    BY <2>1, <2>2, <1>6
<1>9. ASSUME NEW w \in IoWorkers,
             WorkerRename(w) \/ WorkerRenameFails(w) \/ WorkerSetTime(w)
               \/ WorkerSetTimeFails(w) \/ WorkerDiscard(w) \/ WorkerDeref(w)
      PROVE  DownMeansUnused'
  <2>1. UNCHANGED <<queue, stream>>
    BY <1>9 DEF WorkerRename, WorkerRenameFails, WorkerSetTime, WorkerSetTimeFails,
         WorkerDiscard, WorkerDeref, Pool!Finish, poolVars, streamVars
  <2>2. PICK l \in {"settime", "discard", "deref", "terminated", "idle"} :
          pc' = [pc EXCEPT ![w] = l]
    BY <1>9 DEF WorkerRename, WorkerRenameFails, WorkerSetTime, WorkerSetTimeFails,
         WorkerDiscard, WorkerDeref, Goto
  <2>3. QED
    BY <2>1, <2>2, <1>6
<1>10. CASE (\E s \in LocalSizes : LocalEdit(s)) \/ LocalRemove \/ UNCHANGED vars
  <2>1. UNCHANGED <<queue, stream, pc>>
    BY <1>10 DEF LocalEdit, LocalRemove, vars, poolVars, streamVars
  <2>2. QED
    BY <2>1 DEF InReceive
<1>11. QED
  BY <1>1, <1>2, <1>3, <1>4, <1>5, <1>7, <1>8, <1>9, <1>10
     DEF Next, WorkerStep, Done

(* FileIoWorker never touches a stream that has deleted itself, until the  *)
(* connection is lost.                                                     *)
THEOREM StreamOutlivesUse == Spec => []StreamAliveWhenUsed
<1> DEFINE Down == ~lost => DownMeansUnused
<1>1. Down => StreamAliveWhenUsed
  BY DEF DownMeansUnused, StreamAliveWhenUsed
<1>2. Init => Down
  BY InitDown
<1>3. Control /\ Down /\ [Next]_vars => Down'
  BY NextDown, HistoryStays
<1> HIDE DEF Down
<1>4. QED
  BY <1>1, <1>2, <1>3, InitControl, NextControl, PTL DEF Spec, Safety

-----------------------------------------------------------------------------
(* The bytes *)

\* The worker of the last receive, once it has called ReceiveComplete.
Finishing(w) ==
  \/ pc[w] = "final" /\ mine[w]
  \/ pc[w] \in {"close", "exists", "size", "mtime", "verify", "rename",
                "settime", "discard"}

\* It is alone: nothing was received after it, nothing is received.
Alone ==
  \A w \in IoWorkers : Finishing(w) =>
    /\ FinalReceive /\ ~recvPending /\ queue = << >> /\ InReceive = {}
    /\ \A v \in IoWorkers : Finishing(v) => v = w

\* How much of the stream is in the temporary file.
Written == IF \E w \in IoWorkers : pc[w] = "complete" THEN delivered ELSE BytesWritten

FileOpen ==
  /\ FileWriteStream \in {"closed", "temp"}
  /\ \A w \in IoWorkers :
       pc[w] \in {"write", "complete", "close"} \/ (pc[w] = "final" /\ mine[w])
         => FileWriteStream = "temp"
  /\ FileWriteStream = "closed" /\ (~FinalReceive \/ queue # << >> \/ InReceive # {})
       => BytesWritten = 0

Bytes ==
  /\ FileWriteStream = "temp" => temp = Chunks(1, Written)
  /\ \A w \in IoWorkers :
       pc[w] \in {"exists", "size", "mtime", "verify", "rename", "discard"}
         => FileWriteStream = "closed" /\ temp = Chunks(1, BytesWritten)
  /\ \A w \in IoWorkers : pc[w] = "rename" => BytesWritten = NewFileSize

\* What MsQuic has indicated is what the workers have counted, but for the
\* receive in hand.
Flow ==
  /\ BytesWritten \in Nat /\ delivered \in Nat /\ BytesWritten <= delivered
  /\ total \in Nat
  /\ mine \in [IoWorkers -> BOOLEAN] /\ stale \in BOOLEAN
  /\ queue # << >> \/ InReceive # {} => Buffers = Chunks(BytesWritten + 1, delivered)
  /\ ~recvPending => delivered = BytesWritten

Assembled == /\ ~stale => Alone
             /\ ~stale /\ ~cut => FileOpen /\ Bytes /\ WholeUnlessStale

\* Adjacent runs of chunks make a run.
LEMMA ChunksAppend ==
  ASSUME NEW a \in Nat, NEW b \in Nat, a <= b
  PROVE  Chunks(1, a) \o Chunks(a + 1, b) = Chunks(1, b)
<1> DEFINE s == Chunks(1, a)
           t == Chunks(a + 1, b)
           u == Chunks(1, b)
<1>1. /\ s \in Seq(Nat) /\ Len(s) = a /\ \A i \in 1..a : s[i] = i
      /\ t \in Seq(Nat) /\ Len(t) = b - a /\ \A i \in 1..(b - a) : t[i] = a + i
      /\ u \in Seq(Nat) /\ Len(u) = b /\ \A i \in 1..b : u[i] = i
  BY DEF Chunks
<1> HIDE DEF s, t, u
<1>2. /\ s \o t \in Seq(Nat) /\ Len(s \o t) = b
      /\ \A i \in 1..b : (s \o t)[i] = IF i <= a THEN s[i] ELSE t[i - a]
  <2>1. Len(s) + Len(t) = b
    BY <1>1
  <2>2. QED
    BY <1>1, <2>1, ConcatProperties
<1>3. ASSUME NEW i \in 1..b PROVE (s \o t)[i] = u[i]
  <2>1. CASE i <= a
    BY <1>1, <1>2, <2>1
  <2>2. CASE ~(i <= a)
    <3>1. i - a \in 1..(b - a)
      BY <2>2
    <3>2. (s \o t)[i] = t[i - a] /\ t[i - a] = a + (i - a)
      BY <1>1, <1>2, <2>2, <3>1
    <3>3. QED
      BY <1>1, <3>2
  <2>3. QED
    BY <2>1, <2>2
<1>4. s \o t = u
  BY <1>1, <1>2, <1>3, SeqEqual
<1>5. QED
  BY <1>4 DEF s, t, u

\* A run of chunks is as long as it says.
LEMMA ChunksLength ==
  ASSUME NEW a \in Nat, NEW b \in Nat, a <= b
  PROVE  Len(Chunks(a + 1, b)) = b - a
  BY DEF Chunks

\* The empty run.
LEMMA ChunksEmpty == Chunks(1, 0) = << >>
  BY DEF Chunks

\* Nothing is delivered and nothing is written at first.
LEMMA InitBytes == Init => Flow /\ Assembled
<1> SUFFICES ASSUME Init PROVE Flow /\ Assembled
  OBVIOUS
<1>1. /\ queue = << >> /\ FileWriteStream = "closed"
      /\ BytesWritten = 0 /\ delivered = 0
      /\ \A w \in IoWorkers : pc[w] = "idle"
      /\ mine \in [IoWorkers -> BOOLEAN] /\ stale \in BOOLEAN
  BY DEF Init, Pool!Init
<1>4. InReceive = {} /\ total \in Nat
  BY <1>1, FileReceiveAssumption DEF Init, InReceive, Sizes
<1>2. dest = NoFile \/ dest.by = "local"
  BY DEF Init, Local, File
<1>3. QED
  BY <1>1, <1>2, <1>4 DEF Flow, Assembled, Alone, Finishing, FileOpen, Bytes, WholeUnlessStale

\* A step that takes in no receive and completes none.
LEMMA FlowUnchanged ==
  ASSUME Flow, UNCHANGED <<BytesWritten, delivered, total, Buffers, recvPending, mine>>,
         stale' \in BOOLEAN,
         queue' # << >> \/ InReceive' # {} => queue # << >> \/ InReceive # {}
  PROVE  Flow'
  BY DEF Flow

\* What a worker's move does to the set of workers with a receive in hand.
LEMMA MoveInReceive ==
  ASSUME Control, NEW w \in IoWorkers, NEW l, pc' = [pc EXCEPT ![w] = l],
         l \in {"open", "write", "complete"} => w \in InReceive
  PROVE  InReceive' \subseteq InReceive
  BY DEF Control, ControlTypes, InReceive

\* Every step keeps count of the chunks.
LEMMA NextFlow == Control /\ Flow /\ [Next]_vars => Flow'
<1> SUFFICES ASSUME Control, Flow, [Next]_vars PROVE Flow'
  OBVIOUS
<1>0. ControlTypes /\ Quiet /\ OneReceive
  BY DEF Control
<1>1. CASE Snapshot \/ OpenStreamFails \/ PeerAborts \/ ConnectionLost \/ ShutdownComplete
             \/ (\E s \in LocalSizes : LocalEdit(s)) \/ LocalRemove \/ UNCHANGED vars
  <2>1. UNCHANGED <<BytesWritten, delivered, total, Buffers, recvPending, mine,
                    stale, queue, pc>>
    BY <1>1 DEF Snapshot, SnapshotExists, SnapshotModTime, SnapshotSize, OpenStream,
         OpenStreamFails, PeerAborts, ConnectionLost, ShutdownComplete, LocalEdit,
         LocalRemove, vars, contextVars, receiveVars, poolVars, streamVars, history
  <2>2. QED
    BY <2>1, FlowUnchanged DEF InReceive, Flow
<1>2. ASSUME NEW n \in 0..(total - delivered), NEW fin \in BOOLEAN, Receive(n, fin)
      PROVE  Flow'
  <2>1. /\ ~recvPending /\ recvPending'
        /\ delivered' = delivered + n
        /\ Buffers' = Chunks(delivered + 1, delivered + n)
        /\ UNCHANGED <<BytesWritten, total, mine, stale>>
    BY <1>2 DEF Receive, history
  <2>2. delivered = BytesWritten /\ n \in Nat
    BY <2>1 DEF Flow
  <2>3. QED
    BY <2>1, <2>2 DEF Flow
<1>3. ASSUME NEW w \in IoWorkers, WorkerStart(w) PROVE Flow'
  <2>1. UNCHANGED <<BytesWritten, delivered, total, Buffers, recvPending, mine, stale>>
    BY <1>3 DEF WorkerStart, receiveVars, streamVars, history
  <2>2. queue # << >>
    BY <1>3 DEF WorkerStart, Pool!Start
  <2>3. QED
    BY <2>1, <2>2, FlowUnchanged DEF Flow
<1>4. ASSUME NEW w \in IoWorkers, WorkerComplete(w) PROVE Flow'
  <2>1. /\ BytesWritten' = BytesWritten + Len(Buffers)
        /\ mine' = [mine EXCEPT ![w] = FinalReceive]
        /\ pc[w] = "complete" /\ pc' = [pc EXCEPT ![w] = "final"]
        /\ UNCHANGED <<delivered, total, Buffers, queue, stale>>
    BY <1>4 DEF WorkerComplete, Goto, poolVars
  <2>2. w \in InReceive
    BY <2>1 DEF InReceive
  <2>3. InReceive = {w} /\ queue = << >>
    BY <2>2, <1>0 DEF OneReceive
  <2>4. InReceive' = {}
    BY <2>1, <2>3, <1>0 DEF InReceive, ControlTypes
  <2>5. Len(Buffers) = delivered - BytesWritten
    BY <2>2, ChunksLength DEF Flow
  <2>6. BytesWritten' = delivered
    BY <2>1, <2>5 DEF Flow
  <2>7. QED
    BY <2>1, <2>3, <2>4, <2>6, <1>0 DEF Flow, ControlTypes
<1>5. ASSUME NEW w \in IoWorkers,
             WorkerOpen(w) \/ WorkerOpenFails(w) \/ WorkerWrite(w) \/ WorkerWriteFails(w)
      PROVE  Flow'
  <2>1. /\ UNCHANGED <<BytesWritten, delivered, total, Buffers, recvPending, mine, stale>>
        /\ w \in InReceive
    BY <1>5 DEF WorkerOpen, WorkerOpenFails, WorkerWrite, WorkerWriteFails,
         receiveVars, streamVars, history, InReceive
  <2>2. QED
    BY <2>1, FlowUnchanged DEF Flow
<1>6. ASSUME NEW w \in IoWorkers,
             WorkerFinal(w) \/ WorkerClose(w) \/ WorkerExists(w) \/ WorkerExistsFails(w)
               \/ WorkerSize(w)
               \/ WorkerModTime(w) \/ WorkerVerify(w)
      PROVE  Flow'
  <2>1. /\ UNCHANGED <<BytesWritten, delivered, total, Buffers, recvPending, mine, queue>>
        /\ stale' \in BOOLEAN
    BY <1>6, <1>0 DEF WorkerFinal, WorkerClose, WorkerExists, WorkerExistsFails, WorkerSize, WorkerModTime,
         WorkerVerify, receiveVars, poolVars, streamVars, history, Flow, ControlTypes
  <2>2. PICK l \in {"close", "deref", "terminated", "exists", "size", "verify", "mtime",
                    "discard", "rename"} : pc' = [pc EXCEPT ![w] = l]
    BY <1>6 DEF WorkerFinal, WorkerClose, WorkerExists, WorkerExistsFails, WorkerSize, WorkerModTime,
         WorkerVerify, Goto
  <2>3. InReceive' \subseteq InReceive
    BY <2>2, MoveInReceive
  <2>4. QED
    BY <2>1, <2>3, FlowUnchanged
<1>7. ASSUME NEW w \in IoWorkers,
             WorkerRename(w) \/ WorkerRenameFails(w) \/ WorkerSetTime(w)
               \/ WorkerSetTimeFails(w) \/ WorkerDiscard(w) \/ WorkerDeref(w)
      PROVE  Flow'
  <2>1. UNCHANGED <<BytesWritten, delivered, total, Buffers, recvPending, mine, queue, stale>>
    BY <1>7 DEF WorkerRename, WorkerRenameFails, WorkerSetTime, WorkerSetTimeFails,
         WorkerDiscard, WorkerDeref, Pool!Finish, receiveVars, poolVars, streamVars, history
  <2>2. PICK l \in {"settime", "discard", "deref", "terminated", "idle"} :
          pc' = [pc EXCEPT ![w] = l]
    BY <1>7 DEF WorkerRename, WorkerRenameFails, WorkerSetTime, WorkerSetTimeFails,
         WorkerDiscard, WorkerDeref, Goto
  <2>3. InReceive' \subseteq InReceive
    BY <2>2, MoveInReceive
  <2>4. QED
    BY <2>1, <2>3, FlowUnchanged DEF Flow
<1>8. QED
  BY <1>1, <1>2, <1>3, <1>4, <1>5, <1>6, <1>7 DEF Next, Receives, WorkerStep, Done

\* A worker with a receive in hand, or an item in the queue, means that no
\* worker is finishing.
LEMMA NobodyFinishing ==
  ASSUME Alone, queue # << >> \/ InReceive # {} \/ recvPending \/ ~FinalReceive
  PROVE  \A w \in IoWorkers : ~Finishing(w)
  BY DEF Alone

\* The worker of the last receive stays alone.
LEMMA NextAlone ==
  ASSUME Control, Flow, Alone, ~stale, [Next]_vars, ~stale'
  PROVE  Alone'
<1>0. ControlTypes /\ Quiet /\ OneReceive /\ mine \in [IoWorkers -> BOOLEAN]
  BY DEF Control, Flow
<1>1. CASE Snapshot \/ OpenStreamFails \/ PeerAborts \/ ConnectionLost \/ ShutdownComplete
             \/ (\E s \in LocalSizes : LocalEdit(s)) \/ LocalRemove \/ UNCHANGED vars
  <2>1. UNCHANGED <<FinalReceive, recvPending, mine, queue, pc>>
    BY <1>1 DEF Snapshot, SnapshotExists, SnapshotModTime, SnapshotSize, OpenStream,
         OpenStreamFails, PeerAborts, ConnectionLost, ShutdownComplete, LocalEdit,
         LocalRemove, vars, contextVars, receiveVars, poolVars, streamVars, history
  <2>2. QED
    BY <2>1 DEF Alone, Finishing, InReceive
<1>2. ASSUME NEW n \in 0..(total - delivered), NEW fin \in BOOLEAN, Receive(n, fin)
      PROVE  Alone'
  <2>1. ~FinalReceive /\ UNCHANGED <<pc, mine>>
    BY <1>2 DEF Receive, history
  <2>2. QED
    BY <2>1, NobodyFinishing DEF Alone, Finishing
<1>3. ASSUME NEW w \in IoWorkers, WorkerStart(w) PROVE Alone'
  <2>1. queue # << >> /\ pc' = [pc EXCEPT ![w] = "open"] /\ mine' = mine
    BY <1>3 DEF WorkerStart, Pool!Start, Goto, history
  <2>2. \A v \in IoWorkers : ~Finishing(v)
    BY <2>1, NobodyFinishing
  <2>3. QED
    BY <2>1, <2>2, <1>0 DEF Alone, Finishing, ControlTypes
<1>4. ASSUME NEW w \in IoWorkers,
             WorkerOpen(w) \/ WorkerOpenFails(w) \/ WorkerWrite(w) \/ WorkerWriteFails(w)
      PROVE  Alone'
  <2>1. w \in InReceive /\ mine' = mine
    BY <1>4 DEF WorkerOpen, WorkerOpenFails, WorkerWrite, WorkerWriteFails, history, InReceive
  <2>2. PICK l \in {"write", "idle", "complete", "deref", "terminated"} : pc' = [pc EXCEPT ![w] = l]
    BY <1>4 DEF WorkerOpen, WorkerOpenFails, WorkerWrite, WorkerWriteFails, Goto
  <2>3. \A v \in IoWorkers : ~Finishing(v)
    BY <2>1, NobodyFinishing
  <2>4. QED
    BY <2>1, <2>2, <2>3, <1>0 DEF Alone, Finishing, ControlTypes
<1>5. ASSUME NEW w \in IoWorkers, WorkerComplete(w) PROVE Alone'
  <2>1. /\ mine' = [mine EXCEPT ![w] = FinalReceive]
        /\ pc[w] = "complete" /\ pc' = [pc EXCEPT ![w] = "final"]
        /\ recvPending' = FALSE
        /\ UNCHANGED <<FinalReceive, queue>>
    BY <1>5 DEF WorkerComplete, Goto, poolVars
  <2>2. w \in InReceive
    BY <2>1 DEF InReceive
  <2>3. InReceive = {w} /\ queue = << >>
    BY <2>2, <1>0 DEF OneReceive
  <2>4. InReceive' = {}
    BY <2>1, <2>3, <1>0 DEF InReceive, ControlTypes
  <2>5. \A v \in IoWorkers : ~Finishing(v)
    BY <2>2, NobodyFinishing
  <2>6. \A v \in IoWorkers : Finishing(v)' => v = w /\ FinalReceive
    BY <2>1, <2>5, <1>0 DEF Finishing, ControlTypes
  <2>7. QED
    BY <2>1, <2>3, <2>4, <2>6 DEF Alone
<1>6. ASSUME NEW w \in IoWorkers,
             NEW l \in {"close", "deref", "terminated", "exists", "size", "verify", "mtime",
                        "discard", "rename", "settime", "idle"},
             pc' = [pc EXCEPT ![w] = l], Finishing(w) \/ l \in {"deref", "terminated", "idle"},
             UNCHANGED <<FinalReceive, recvPending, queue, mine>>
      PROVE  Alone'
  <2>1. InReceive' \subseteq InReceive
    BY <1>6, MoveInReceive
  <2>2. \A v \in IoWorkers : Finishing(v)' => Finishing(v)
    BY <1>6, <1>0 DEF Finishing, ControlTypes
  <2>3. QED
    BY <1>6, <2>1, <2>2 DEF Alone
<1>7. ASSUME NEW w \in IoWorkers,
             WorkerFinal(w) \/ WorkerClose(w) \/ WorkerExists(w) \/ WorkerExistsFails(w)
               \/ WorkerSize(w)
               \/ WorkerModTime(w) \/ WorkerVerify(w)
      PROVE  Alone'
  <2>1. UNCHANGED <<FinalReceive, recvPending, queue, mine>>
    BY <1>7 DEF WorkerFinal, WorkerClose, WorkerExists, WorkerExistsFails, WorkerSize, WorkerModTime,
         WorkerVerify, receiveVars, poolVars, streamVars, history
  <2>2. PICK l \in {"close", "deref", "terminated", "exists", "size", "verify", "mtime",
                    "discard", "rename"} : pc' = [pc EXCEPT ![w] = l]
    BY <1>7 DEF WorkerFinal, WorkerClose, WorkerExists, WorkerExistsFails, WorkerSize, WorkerModTime,
         WorkerVerify, Goto
  <2>3. CASE WorkerFinal(w)
    <3>1. pc[w] = "final" /\ (FinalReceive => mine[w])
      BY <2>3 DEF WorkerFinal
    <3>2. CASE FinalReceive
      BY <3>1, <3>2, <2>1, <2>2, <1>6 DEF Finishing
    <3>3. CASE ~FinalReceive
      <4>1. pc' = [pc EXCEPT ![w] = "deref"]
        BY <2>3, <3>3 DEF WorkerFinal, Goto
      <4>2. QED
        BY <4>1, <2>1, <1>6
    <3>4. QED
      BY <3>2, <3>3
  <2>4. CASE ~WorkerFinal(w)
    <3>1. Finishing(w)
      BY <1>7, <2>4 DEF WorkerClose, WorkerExists, WorkerExistsFails, WorkerSize, WorkerModTime,
           WorkerVerify, Finishing
    <3>2. QED
      BY <3>1, <2>1, <2>2, <1>6
  <2>5. QED
    BY <2>3, <2>4
<1>8. ASSUME NEW w \in IoWorkers,
             WorkerRename(w) \/ WorkerRenameFails(w) \/ WorkerSetTime(w)
               \/ WorkerSetTimeFails(w) \/ WorkerDiscard(w) \/ WorkerDeref(w)
      PROVE  Alone'
  <2>1. UNCHANGED <<FinalReceive, recvPending, queue, mine>>
    BY <1>8 DEF WorkerRename, WorkerRenameFails, WorkerSetTime, WorkerSetTimeFails,
         WorkerDiscard, WorkerDeref, Pool!Finish, receiveVars, poolVars, streamVars, history
  <2>2. PICK l \in {"settime", "discard", "deref", "terminated", "idle"} :
          pc' = [pc EXCEPT ![w] = l] /\ (Finishing(w) \/ l \in {"deref", "terminated", "idle"})
    BY <1>8 DEF WorkerRename, WorkerRenameFails, WorkerSetTime, WorkerSetTimeFails,
         WorkerDiscard, WorkerDeref, Goto, Finishing
  <2>3. QED
    BY <2>1, <2>2, <1>6
<1>9. QED
  BY <1>1, <1>2, <1>3, <1>4, <1>5, <1>7, <1>8 DEF Next, Receives, WorkerStep, Done

FileInv == FileOpen /\ Bytes /\ WholeUnlessStale

\* A step that leaves the file stream and the temporary file alone, on which
\* no worker comes to rely on them in a new way.
LEMMA FileUnchanged ==
  ASSUME FileInv,
         UNCHANGED <<FileWriteStream, temp, BytesWritten, NewFileSize, Written>>,
         WholeUnlessStale',
         \A v \in IoWorkers : pc'[v] = pc[v] \/ pc'[v] \in {"idle", "deref", "terminated",
                                                            "settime", "open", "final"},
         \A v \in IoWorkers : pc'[v] = "final" /\ mine'[v] => pc[v] = "final" /\ mine[v],
         ~FinalReceive' \/ queue' # << >> \/ InReceive' # {}
           => ~FinalReceive \/ queue # << >> \/ InReceive # {}
  PROVE  FileInv'
  BY DEF FileInv, FileOpen, Bytes

\* Every step keeps the bytes in order.
LEMMA NextBytes ==
  ASSUME Control, Flow, Alone, ~stale, ~cut, FileInv,
         [Next]_vars, ~stale', ~cut'
  PROVE  FileInv'
<1>0. /\ ControlTypes /\ Quiet /\ OneReceive /\ mine \in [IoWorkers -> BOOLEAN]
      /\ FileOpen /\ Bytes /\ WholeUnlessStale
  BY DEF Control, Flow, FileInv
<1>1. CASE Snapshot \/ OpenStreamFails \/ PeerAborts \/ ConnectionLost \/ ShutdownComplete
             \/ (\E s \in LocalSizes : LocalEdit(s)) \/ LocalRemove \/ UNCHANGED vars
  <2>1. UNCHANGED <<FinalReceive, mine, queue, pc, temp, BytesWritten, NewFileSize, delivered>>
    BY <1>1 DEF Snapshot, SnapshotExists, SnapshotModTime, SnapshotSize, OpenStream,
         OpenStreamFails, PeerAborts, ConnectionLost, ShutdownComplete, LocalEdit,
         LocalRemove, vars, contextVars, receiveVars, poolVars, streamVars, fileVars, history
  <2>2. UNCHANGED FileWriteStream
    BY <1>1, <1>0 DEF Snapshot, SnapshotExists, SnapshotModTime, SnapshotSize, OpenStream,
         OpenStreamFails, PeerAborts, ConnectionLost, ShutdownComplete, LocalEdit,
         LocalRemove, vars, receiveVars, FileOpen
  <2>3. dest' = dest \/ dest' = NoFile \/ dest'.by = "local"
    BY <1>1 DEF Snapshot, SnapshotExists, SnapshotModTime, SnapshotSize, OpenStream,
         OpenStreamFails, PeerAborts, ConnectionLost, ShutdownComplete, LocalEdit,
         LocalRemove, vars, fileVars, Local, File
  <2>4. WholeUnlessStale'
    BY <2>1, <2>3, <1>0 DEF WholeUnlessStale
  <2>5. Written' = Written /\ InReceive' = InReceive
    BY <2>1 DEF Written, InReceive
  <2>6. QED
    BY <2>1, <2>2, <2>4, <2>5, FileUnchanged
<1>2. ASSUME NEW n \in 0..(total - delivered), NEW fin \in BOOLEAN, Receive(n, fin)
      PROVE  FileInv'
  <2>1. /\ UNCHANGED <<FileWriteStream, mine, pc, temp, dest, BytesWritten, NewFileSize>>
        /\ ~recvPending /\ ~FinalReceive
    BY <1>2 DEF Receive, contextVars, fileVars, history
  <2>2. InReceive = {}
    BY <2>1, <1>0 DEF OneReceive
  <2>3. Written' = Written
    BY <2>1, <2>2 DEF Written, InReceive
  <2>4. WholeUnlessStale'
    BY <2>1, <1>0 DEF WholeUnlessStale
  <2>5. QED
    BY <2>1, <2>3, <2>4, FileUnchanged
<1>3. ASSUME NEW w \in IoWorkers, WorkerStart(w) PROVE FileInv'
  <2>1. /\ UNCHANGED <<FinalReceive, FileWriteStream, mine, temp, dest, BytesWritten,
                       NewFileSize, delivered>>
        /\ queue # << >> /\ pc' = [pc EXCEPT ![w] = "open"]
    BY <1>3 DEF WorkerStart, Pool!Start, Goto, contextVars, receiveVars, streamVars,
         fileVars, history
  <2>2. InReceive = {}
    BY <2>1, <1>0 DEF OneReceive
  <2>3. Written' = Written
    BY <2>1, <2>2, <1>0 DEF Written, InReceive, ControlTypes
  <2>4. WholeUnlessStale'
    BY <2>1, <1>0 DEF WholeUnlessStale
  <2>5. QED
    BY <2>1, <2>3, <2>4, <1>0, FileUnchanged DEF ControlTypes
<1>4. ASSUME NEW w \in IoWorkers, pc[w] \in {"open", "write", "complete"}
      PROVE  /\ InReceive = {w} /\ queue = << >>
             /\ \A v \in IoWorkers : ~Finishing(v)
             /\ \A v \in IoWorkers : pc[v] \in {"open", "write", "complete"} => v = w
  <2>1. w \in InReceive
    BY <1>4 DEF InReceive
  <2>2. QED
    BY <2>1, <1>0, NobodyFinishing DEF OneReceive, InReceive
<1>5. ASSUME NEW w \in IoWorkers, WorkerOpen(w) PROVE FileInv'
  <2>1. /\ UNCHANGED <<FinalReceive, mine, dest, queue, BytesWritten, NewFileSize, delivered>>
        /\ pc[w] = "open" /\ pc' = [pc EXCEPT ![w] = "write"]
        /\ IF FileWriteStream = "closed"
             THEN FileWriteStream' = "temp" /\ temp' = << >>
             ELSE UNCHANGED <<FileWriteStream, temp>>
    BY <1>5 DEF WorkerOpen, Goto, contextVars, poolVars, streamVars, history
  <2>2. Written = BytesWritten /\ Written' = BytesWritten
    BY <2>1, <1>4, <1>0 DEF Written, ControlTypes
  <2>3. \A v \in IoWorkers : ~Finishing(v) /\ ~Finishing(v)'
    BY <2>1, <1>4, <1>0 DEF Finishing, ControlTypes
  <2>4. FileWriteStream' = "temp" /\ temp' = Chunks(1, BytesWritten)
    BY <2>1, <2>2, <1>4, <1>0, ChunksEmpty DEF FileOpen, Bytes
  <2>5. FileOpen' /\ Bytes'
    BY <2>1, <2>2, <2>3, <2>4 DEF FileOpen, Bytes, Finishing
  <2>6. QED
    BY <2>1, <2>5, <1>0 DEF FileInv, WholeUnlessStale
<1>6. ASSUME NEW w \in IoWorkers, WorkerOpenFails(w) \/ WorkerWriteFails(w)
      PROVE  FileInv'
  <2>1. /\ UNCHANGED <<FinalReceive, FileWriteStream, mine, temp, dest, queue,
                       BytesWritten, NewFileSize, delivered>>
        /\ pc[w] \in {"open", "write"}
    BY <1>6 DEF WorkerOpenFails, WorkerWriteFails, Pool!Finish, contextVars,
         receiveVars, poolVars, fileVars, history
  <2>2. PICK l \in {"idle", "deref", "terminated"} : pc' = [pc EXCEPT ![w] = l]
    BY <1>6 DEF WorkerOpenFails, WorkerWriteFails, Goto
  <2>3. Written' = Written /\ InReceive # {}
    BY <2>1, <2>2, <1>4, <1>0 DEF Written, ControlTypes
  <2>4. WholeUnlessStale'
    BY <2>1, <1>0 DEF WholeUnlessStale
  <2>5. QED
    BY <2>1, <2>2, <2>3, <2>4, <1>0, FileUnchanged DEF ControlTypes
<1>7. ASSUME NEW w \in IoWorkers, WorkerWrite(w) PROVE FileInv'
  <2>1. /\ UNCHANGED <<FinalReceive, FileWriteStream, mine, queue, BytesWritten,
                       NewFileSize, delivered>>
        /\ pc[w] = "write" /\ pc' = [pc EXCEPT ![w] = "complete"]
        /\ temp' = IF FileWriteStream = "temp" THEN temp \o Buffers ELSE temp
    BY <1>7 DEF WorkerWrite, Goto, contextVars, receiveVars, poolVars, streamVars, history
  <2>2. FileWriteStream = "temp"
    BY <2>1, <1>0 DEF FileOpen
  <2>3. dest' = dest
    BY <1>7, <2>2 DEF WorkerWrite
  <2>4. Written = BytesWritten /\ Written' = delivered
    BY <2>1, <1>4, <1>0 DEF Written, ControlTypes
  <2>5. Buffers = Chunks(BytesWritten + 1, delivered)
    BY <2>1, <1>4 DEF Flow
  <2>6. temp' = Chunks(1, delivered)
    BY <2>1, <2>2, <2>4, <2>5, <1>0, ChunksAppend DEF Bytes, Flow
  <2>7. \A v \in IoWorkers : ~Finishing(v) /\ ~Finishing(v)'
    BY <2>1, <1>4, <1>0 DEF Finishing, ControlTypes
  <2>8. FileOpen' /\ Bytes'
    BY <2>1, <2>2, <2>4, <2>6, <2>7 DEF FileOpen, Bytes, Finishing
  <2>9. QED
    BY <2>1, <2>3, <2>8, <1>0 DEF FileInv, WholeUnlessStale
<1>8. ASSUME NEW w \in IoWorkers, WorkerComplete(w) PROVE FileInv'
  <2>1. /\ UNCHANGED <<FinalReceive, FileWriteStream, temp, dest, queue, NewFileSize, delivered>>
        /\ pc[w] = "complete" /\ pc' = [pc EXCEPT ![w] = "final"]
        /\ BytesWritten' = BytesWritten + Len(Buffers)
    BY <1>8 DEF WorkerComplete, Goto, contextVars, poolVars, fileVars
  <2>2. FileWriteStream = "temp"
    BY <2>1, <1>0 DEF FileOpen
  <2>3. BytesWritten' = delivered
    <3>1. Len(Buffers) = delivered - BytesWritten
      BY <2>1, <1>4, ChunksLength DEF Flow
    <3>2. QED
      BY <2>1, <3>1 DEF Flow
  <2>4. Written = delivered /\ Written' = delivered
    BY <2>1, <2>3, <1>4, <1>0 DEF Written, ControlTypes
  <2>5. \A v \in IoWorkers : pc'[v] \notin {"exists", "size", "mtime", "verify", "rename", "discard"}
    BY <2>1, <1>4, <1>0 DEF Finishing, ControlTypes
  <2>6. FileOpen' /\ Bytes'
    BY <2>1, <2>2, <2>4, <2>5, <1>0 DEF FileOpen, Bytes
  <2>7. QED
    BY <2>1, <2>6, <1>0 DEF FileInv, WholeUnlessStale
<1>9. ASSUME NEW w \in IoWorkers, Finishing(w)
      PROVE  /\ InReceive = {} /\ queue = << >> /\ FinalReceive
             /\ \A v \in IoWorkers : Finishing(v) => v = w
             /\ Written = BytesWritten
  BY <1>9 DEF Alone, Written, InReceive
<1>10. ASSUME NEW w \in IoWorkers, WorkerFinal(w) PROVE FileInv'
  <2>1. /\ UNCHANGED <<FinalReceive, FileWriteStream, mine, temp, dest, queue,
                       BytesWritten, NewFileSize, delivered>>
        /\ pc[w] = "final"
        /\ pc' = [pc EXCEPT ![w] = IF FinalReceive THEN "close" ELSE "deref"]
        /\ FinalReceive => mine[w]
    BY <1>10 DEF WorkerFinal, Goto, contextVars, receiveVars, poolVars, fileVars, streamVars
  <2>2. Written' = Written /\ InReceive' = InReceive
    BY <2>1, <1>0 DEF Written, InReceive, ControlTypes
  <2>3. FileOpen'
    BY <2>1, <2>2, <1>0 DEF FileOpen, ControlTypes
  <2>4. Bytes'
    BY <2>1, <2>2, <1>0 DEF Bytes, ControlTypes
  <2>5. QED
    BY <2>1, <2>3, <2>4, <1>0 DEF FileInv, WholeUnlessStale
<1>11. ASSUME NEW w \in IoWorkers, WorkerClose(w) PROVE FileInv'
  <2>1. /\ UNCHANGED <<FinalReceive, mine, temp, dest, queue, BytesWritten, NewFileSize, delivered>>
        /\ pc[w] = "close" /\ pc' = [pc EXCEPT ![w] = "exists"]
        /\ FileWriteStream' = "closed"
    BY <1>11 DEF WorkerClose, Goto, contextVars, poolVars, streamVars, history
  <2>2. Finishing(w)
    BY <2>1 DEF Finishing
  <2>3. temp = Chunks(1, BytesWritten)
    BY <2>1, <2>2, <1>9, <1>0 DEF FileOpen, Bytes
  <2>4. \A v \in IoWorkers \ {w} :
          pc'[v] \notin {"write", "complete", "close", "rename"} /\ ~(pc'[v] = "final" /\ mine[v])
    BY <2>1, <2>2, <1>9, <1>0 DEF Finishing, InReceive, ControlTypes
  <2>5. InReceive' = {}
    BY <2>1, <2>2, <1>9, <1>0 DEF InReceive, ControlTypes
  <2>6. FileOpen' /\ Bytes'
    BY <2>1, <2>2, <2>3, <2>4, <2>5, <1>9, <1>0 DEF FileOpen, Bytes, ControlTypes
  <2>7. QED
    BY <2>1, <2>6, <1>0 DEF FileInv, WholeUnlessStale
<1>12. ASSUME NEW w \in IoWorkers,
              WorkerExists(w) \/ WorkerExistsFails(w) \/ WorkerSize(w)
                \/ WorkerModTime(w) \/ WorkerVerify(w)
       PROVE  FileInv'
  <2>1. /\ UNCHANGED <<FinalReceive, FileWriteStream, mine, temp, dest, queue,
                       BytesWritten, NewFileSize, delivered>>
        /\ pc[w] \in {"exists", "size", "mtime", "verify"}
    BY <1>12 DEF WorkerExists, WorkerExistsFails, WorkerSize, WorkerModTime, WorkerVerify, contextVars,
         receiveVars, poolVars, fileVars, streamVars, history
  <2>2. PICK l \in {"size", "verify", "mtime", "discard", "rename", "deref", "terminated"} :
          pc' = [pc EXCEPT ![w] = l] /\ (l = "rename" => BytesWritten = NewFileSize)
    BY <1>12 DEF WorkerExists, WorkerExistsFails, WorkerSize, WorkerModTime, WorkerVerify, Goto
  <2>3. Written' = Written /\ InReceive' = InReceive
    BY <2>1, <2>2, <1>0 DEF Written, InReceive, ControlTypes
  <2>4. FileOpen'
    BY <2>1, <2>2, <2>3, <1>0 DEF FileOpen, ControlTypes
  <2>5. Bytes'
    BY <2>1, <2>2, <2>3, <1>0 DEF Bytes, ControlTypes
  <2>6. QED
    BY <2>1, <2>4, <2>5, <1>0 DEF FileInv, WholeUnlessStale
<1>13. ASSUME NEW w \in IoWorkers, WorkerRename(w) \/ WorkerDiscard(w) PROVE FileInv'
  <2>1. /\ UNCHANGED <<FinalReceive, mine, queue, BytesWritten, NewFileSize, delivered>>
        /\ pc[w] \in {"rename", "discard"}
    BY <1>13 DEF WorkerRename, WorkerDiscard, contextVars, poolVars, streamVars, history
  <2>2. PICK l \in {"settime", "deref", "terminated"} : pc' = [pc EXCEPT ![w] = l]
    BY <1>13 DEF WorkerRename, WorkerDiscard, Goto
  <2>3. FileWriteStream = "closed" /\ temp = Chunks(1, BytesWritten)
    BY <2>1, <1>0 DEF Bytes
  <2>4. FileWriteStream' = "closed"
    BY <1>13, <2>3 DEF WorkerRename, WorkerDiscard
  <2>5. Finishing(w)
    BY <2>1 DEF Finishing
  <2>6. \A v \in IoWorkers : pc'[v] \notin {"open", "write", "complete", "close", "exists", "size",
                    "mtime", "verify", "rename", "discard"} /\ ~(pc'[v] = "final" /\ mine[v])
    BY <2>2, <2>5, <1>9, <1>0 DEF Finishing, InReceive, ControlTypes
  <2>7. InReceive' = {}
    BY <2>6 DEF InReceive
  <2>8. FileOpen' /\ Bytes'
    BY <2>1, <2>4, <2>5, <2>6, <2>7, <1>9 DEF FileOpen, Bytes
  <2>9. WholeUnlessStale'
    <3>1. CASE WorkerDiscard(w)
      BY <3>1, <2>1, <1>0 DEF WorkerDiscard, WholeUnlessStale
    <3>2. CASE WorkerRename(w)
      <4>1. dest'.data = temp /\ BytesWritten = NewFileSize
        BY <3>2, <1>0 DEF WorkerRename, File, Bytes
      <4>2. QED
        BY <4>1, <2>1, <2>3 DEF WholeUnlessStale
    <3>3. QED
      BY <1>13, <3>1, <3>2
  <2>10. QED
    BY <2>8, <2>9 DEF FileInv
<1>14. ASSUME NEW w \in IoWorkers,
              WorkerRenameFails(w) \/ WorkerSetTime(w) \/ WorkerSetTimeFails(w) \/ WorkerDeref(w)
       PROVE  FileInv'
  <2>1. /\ UNCHANGED <<FinalReceive, FileWriteStream, mine, temp, queue,
                       BytesWritten, NewFileSize, delivered>>
    BY <1>14 DEF WorkerRenameFails, WorkerSetTime, WorkerSetTimeFails, WorkerDeref,
         Pool!Finish, contextVars, receiveVars, poolVars, fileVars, streamVars, history
  <2>2. PICK l \in {"discard", "deref", "terminated", "idle"} :
          pc' = [pc EXCEPT ![w] = l] /\ (l = "discard" => pc[w] = "rename")
    BY <1>14 DEF WorkerRenameFails, WorkerSetTime, WorkerSetTimeFails, WorkerDeref, Goto
  <2>3. pc[w] \in {"rename", "settime", "deref", "terminated"}
    BY <1>14 DEF WorkerRenameFails, WorkerSetTime, WorkerSetTimeFails, WorkerDeref
  <2>4. Written' = Written /\ InReceive' = InReceive
    BY <2>1, <2>2, <2>3, <1>0 DEF Written, InReceive, ControlTypes
  <2>5. FileOpen'
    BY <2>1, <2>2, <2>3, <2>4, <1>0 DEF FileOpen, ControlTypes
  <2>6. Bytes'
    BY <2>1, <2>2, <2>3, <2>4, <1>0 DEF Bytes, ControlTypes
  <2>7. \/ dest' = dest
        \/ dest # NoFile /\ dest'.data = dest.data /\ dest'.by = dest.by
    BY <1>14 DEF WorkerRenameFails, WorkerSetTime, WorkerSetTimeFails, WorkerDeref,
         fileVars, File
  <2>8. WholeUnlessStale'
    BY <2>1, <2>7, <1>0 DEF WholeUnlessStale
  <2>9. QED
    BY <2>5, <2>6, <2>8 DEF FileInv
<1>15. QED
  BY <1>1, <1>2, <1>3, <1>5, <1>6, <1>7, <1>8, <1>10, <1>11, <1>12, <1>13, <1>14
     DEF Next, Receives, WorkerStep, Done

\* What excuses a file that is not whole lasts, so the two lemmas above cover
\* every step.
LEMMA NextAssembled ==
  ASSUME Control, Flow, Assembled, [Next]_vars
  PROVE  Assembled'
<1>1. (stale => stale') /\ (cut => cut')
  BY HistoryStays
<1>2. ~stale' => Alone'
  BY <1>1, NextAlone DEF Assembled
<1>3. ~stale' /\ ~cut' => FileInv'
  BY <1>1, NextBytes DEF Assembled, FileInv
<1>4. QED
  BY <1>2, <1>3 DEF Assembled, FileInv

(* What is installed is what the client sent.  For any file, any number of *)
(* IoPool threads and whatever fails: the destination is overwritten by    *)
(* the whole file or not at all, unless a close() lost bytes or a worker   *)
(* read FinalReceive after a later receive had set it.                     *)
THEOREM InstalledWhole == Spec => []WholeUnlessStale
<1>1. Assembled => WholeUnlessStale
  BY DEF Assembled, WholeUnlessStale
<1>2. Control /\ Flow /\ Assembled /\ [Next]_vars => Assembled'
  BY NextAssembled
<1>3. QED
  BY <1>1, <1>2, InitControl, NextControl, InitBytes, NextFlow, PTL DEF Spec, Safety

-----------------------------------------------------------------------------
(* Types *)

\* The variables that Control and Flow say nothing of.  What the file stream
\* has open is there, under the name it has it by.
DataTypes ==
  /\ FileExists \in BOOLEAN
  /\ SnapshotDestModTime \in 0..FileTime /\ SnapshotDestSize \in Nat
  /\ NewFileSize \in Sizes /\ total \in Sizes /\ delivered \in 0..total
  /\ Buffers \in Seq(Nat)
  /\ FileWriteStream \in {"closed", "temp", "dest", "orphan"}
  /\ FileWriteStream = "temp" => temp # NoFile
  /\ FileWriteStream = "dest" => dest # NoFile
  /\ temp \in {NoFile} \cup Seq(Nat)
  /\ dest \in {NoFile} \cup Files
  /\ edits \in 0..MaxEdits
  /\ {cut, blind, lost} \subseteq BOOLEAN

typeVars == <<FileExists, SnapshotDestModTime, SnapshotDestSize, NewFileSize, total,
              delivered, Buffers, FileWriteStream, temp, dest, edits, cut, blind, lost>>

LEMMA Times ==
  /\ MaxEdits \in Nat /\ FileTime \in Nat
  /\ WrittenTime \in 0..FileTime /\ FileTime \in 0..FileTime
  /\ \A k \in 0..MaxEdits : k \in 0..FileTime
BY FileReceiveAssumption DEF WrittenTime, FileTime

\* Anything with a name, bytes and a time is a file.
LEMMA FileType ==
  ASSUME NEW data \in Seq(Nat), NEW k \in 0..FileTime, NEW by \in {"local", "server"}
  PROVE  File(data, k, by) \in Files /\ File(data, k, by) # NoFile
BY NoFileAssumption DEF File, Files

LEMMA LocalType ==
  ASSUME NEW size \in LocalSizes, NEW k \in 0..MaxEdits
  PROVE  Local(size, k) \in Files /\ Local(size, k) # NoFile
<1>1. [i \in 1..size |-> 0] \in Seq(Nat)
  BY FileReceiveAssumption
<1>2. k \in 0..FileTime
  BY Times
<1>3. QED
  BY <1>1, <1>2, FileType DEF Local

LEMMA ChunksType ==
  ASSUME NEW a \in Nat, NEW b \in Nat, a <= b
  PROVE  Chunks(a + 1, b) \in Seq(Nat)
BY DEF Chunks

LEMMA SmallSeqs == << >> \in Seq(Nat) /\ << >> # NoFile /\ <<0>> \in Seq(Nat)
<1>1. << >> \in Seq(Nat) /\ <<0>> \in Seq(Nat)
  OBVIOUS
<1>2. QED
  BY <1>1, NoFileAssumption

LEMMA InitDataTypes == Init => DataTypes
<1> SUFFICES ASSUME Init PROVE DataTypes
  OBVIOUS
<1>1. dest \in {NoFile} \cup Files
  BY LocalType, Times DEF Init
<1>2. Buffers \in Seq(Nat) /\ temp \in {NoFile} \cup Seq(Nat)
  <2>1. Buffers = << >> /\ temp \in {NoFile, <<0>>}
    BY DEF Init
  <2>2. QED
    BY <2>1, SmallSeqs
<1>3. 0 \in 0..FileTime /\ 0 \in 0..total /\ 0 \in 0..MaxEdits
  BY Times, FileReceiveAssumption DEF Init, Sizes
<1>4. QED
  BY <1>1, <1>2, <1>3 DEF Init, DataTypes

LEMMA NextDataTypes == Flow /\ DataTypes /\ [Next]_vars => DataTypes'
<1> SUFFICES ASSUME Flow, DataTypes, [Next]_vars PROVE DataTypes'
  OBVIOUS
<1> USE DEF DataTypes
<1>1. CASE UNCHANGED typeVars
  BY <1>1 DEF typeVars
<1>2. CASE SnapshotExists \/ SnapshotModTime \/ SnapshotSize
  <2>1. dest # NoFile => Len(dest.data) \in Nat /\ dest.mtime \in 0..FileTime
    BY LenProperties DEF Files
  <2>2. /\ FileExists' \in BOOLEAN
        /\ SnapshotDestModTime' \in 0..FileTime /\ SnapshotDestSize' \in Nat
    BY <1>2, <2>1 DEF SnapshotExists, SnapshotModTime, SnapshotSize
  <2>3. UNCHANGED <<NewFileSize, receiveVars, fileVars, streamVars, history>>
    BY <1>2 DEF SnapshotExists, SnapshotModTime, SnapshotSize
  <2>4. QED
    BY <2>2, <2>3 DEF receiveVars, fileVars, streamVars, history
<1>3. CASE OpenStream \/ OpenStreamFails \/ PeerAborts \/ ShutdownComplete
  <2>1. UNCHANGED typeVars
    BY <1>3 DEF OpenStream, OpenStreamFails, PeerAborts, ShutdownComplete, typeVars,
       contextVars, receiveVars, fileVars, streamVars, history
  <2>2. QED
    BY <1>1, <2>1
<1>4. CASE ConnectionLost
  BY <1>4 DEF ConnectionLost, contextVars, receiveVars, fileVars
<1>5. ASSUME NEW n \in 0..(total - delivered), NEW fin \in BOOLEAN, Receive(n, fin)
      PROVE  DataTypes'
  <2>1. delivered \in Nat /\ n \in Nat /\ delivered + n \in 0..total
    BY FileReceiveAssumption DEF Sizes
  <2>2. Buffers' \in Seq(Nat) /\ delivered' \in 0..total
    BY <1>5, <2>1, ChunksType DEF Receive
  <2>3. QED
    BY <1>5, <2>2 DEF Receive, contextVars, fileVars, history
<1>6. ASSUME NEW w \in IoWorkers,
             \/ WorkerStart(w) \/ WorkerOpenFails(w) \/ WorkerWriteFails(w)
             \/ WorkerComplete(w) \/ WorkerFinal(w) \/ WorkerExists(w) \/ WorkerSize(w)
             \/ WorkerModTime(w) \/ WorkerVerify(w) \/ WorkerRenameFails(w)
             \/ WorkerSetTimeFails(w) \/ WorkerDeref(w)
      PROVE  DataTypes'
  <2>1. UNCHANGED typeVars
    BY <1>6 DEF typeVars, contextVars, receiveVars, fileVars, streamVars, history,
       WorkerStart, WorkerOpenFails, WorkerWriteFails, WorkerComplete, WorkerFinal,
       WorkerExists, WorkerSize, WorkerModTime, WorkerVerify, WorkerRenameFails,
       WorkerSetTimeFails, WorkerDeref
  <2>2. QED
    BY <1>1, <2>1
<1>7. ASSUME NEW w \in IoWorkers, WorkerExistsFails(w) PROVE DataTypes'
  BY <1>7 DEF WorkerExistsFails, contextVars, receiveVars, fileVars, streamVars
<1>8. ASSUME NEW w \in IoWorkers, WorkerOpen(w) PROVE DataTypes'
  BY <1>8, SmallSeqs DEF WorkerOpen, contextVars, streamVars, history
<1>9. ASSUME NEW w \in IoWorkers, WorkerWrite(w) PROVE DataTypes'
  <2>1. ASSUME NEW s \in Seq(Nat) PROVE s \o Buffers \in Seq(Nat)
    BY ConcatProperties
  <2>2. FileWriteStream = "temp" => temp' \in Seq(Nat)
    BY <1>9, <2>1 DEF WorkerWrite
  <2>3. FileWriteStream = "dest" => dest' \in Files /\ dest' # NoFile
    <3>1. SUFFICES ASSUME FileWriteStream = "dest"
                   PROVE  dest' \in Files /\ dest' # NoFile
      OBVIOUS
    <3>2. dest.data \in Seq(Nat) /\ dest.by \in {"local", "server"}
      BY <3>1 DEF Files
    <3>3. QED
      BY <1>9, <2>1, <3>1, <3>2, FileType, Times DEF WorkerWrite
  <2>4. QED
    BY <1>9, <2>2, <2>3, NoFileAssumption
       DEF WorkerWrite, contextVars, receiveVars, streamVars, history
<1>10. ASSUME NEW w \in IoWorkers, WorkerClose(w) PROVE DataTypes'
  <2>1. temp' \in {NoFile} \cup Seq(Nat)
    <3>1. CASE temp' = temp
      BY <3>1
    <3>2. CASE /\ FileWriteStream = "temp" /\ temp # << >>
               /\ temp' = SubSeq(temp, 1, Len(temp) - 1)
      <4>1. temp \in Seq(Nat) /\ Len(temp) \in Nat
        BY <3>2, LenProperties
      <4>2. \A i \in 1..(Len(temp) - 1) : i \in 1..Len(temp)
        BY <4>1
      <4>3. QED
        BY <3>2, <4>1, <4>2, SubSeqProperties
    <3>3. QED
      BY <1>10, <3>1, <3>2 DEF WorkerClose
  <2>2. QED
    BY <1>10, <2>1 DEF WorkerClose, contextVars, streamVars
<1>11. ASSUME NEW w \in IoWorkers, WorkerRename(w) PROVE DataTypes'
  <2>1. dest' \in Files /\ dest' # NoFile
    BY <1>11, FileType, Times DEF WorkerRename
  <2>2. QED
    BY <1>11, <2>1 DEF WorkerRename, contextVars, streamVars, history
<1>12. ASSUME NEW w \in IoWorkers, WorkerSetTime(w) PROVE DataTypes'
  <2>1. dest # NoFile => dest' \in Files /\ dest' # NoFile
    <3>1. SUFFICES ASSUME dest # NoFile PROVE dest' \in Files /\ dest' # NoFile
      OBVIOUS
    <3>2. dest.data \in Seq(Nat) /\ dest.by \in {"local", "server"}
      BY <3>1 DEF Files
    <3>3. QED
      BY <1>12, <3>1, <3>2, FileType, Times DEF WorkerSetTime
  <2>2. QED
    BY <1>12, <2>1 DEF WorkerSetTime, contextVars, receiveVars, streamVars, history
<1>13. ASSUME NEW w \in IoWorkers, WorkerDiscard(w) PROVE DataTypes'
  BY <1>13 DEF WorkerDiscard, contextVars, streamVars, history
<1>14. ASSUME NEW s \in LocalSizes, LocalEdit(s) PROVE DataTypes'
  <2>1. edits + 1 \in 0..MaxEdits
    BY <1>14, Times DEF LocalEdit
  <2>2. dest' \in Files /\ dest' # NoFile
    BY <1>14, <2>1, LocalType DEF LocalEdit
  <2>3. QED
    BY <1>14, <2>1, <2>2 DEF LocalEdit, contextVars, receiveVars, streamVars, history
<1>15. CASE LocalRemove
  <2>1. edits + 1 \in 0..MaxEdits
    BY <1>15, Times DEF LocalRemove
  <2>2. QED
    BY <1>15, <2>1 DEF LocalRemove, contextVars, streamVars, history
<1>16. CASE UNCHANGED vars
  BY <1>1, <1>16 DEF vars, typeVars, contextVars, receiveVars, fileVars, streamVars, history
<1>17. QED
  BY <1>2, <1>3, <1>4, <1>5, <1>6, <1>7, <1>8, <1>9, <1>10, <1>11, <1>12, <1>13, <1>14,
     <1>15, <1>16 DEF Next, Snapshot, Receives, WorkerStep, Done

(* Type correctness, with the counters of references and of bytes, which   *)
(* the code subtracts from, never negative, and what the file stream       *)
(* writes to always there.                                                 *)
THEOREM TypeCorrect == Spec => []TypeOK
<1>1. Control /\ Flow /\ DataTypes => TypeOK
  <2>1. << >> \in Seq({Job}) /\ <<Job>> \in Seq({Job})
    OBVIOUS
  <2>2. QED
    BY <2>1 DEF Control, ControlTypes, Flow, DataTypes, TypeOK
<1>2. Init => Flow
  BY InitBytes
<1>3. QED
  BY <1>1, <1>2, InitControl, NextControl, NextFlow, InitDataTypes, NextDataTypes, PTL
     DEF Spec, Safety

-----------------------------------------------------------------------------
(* The last receive *)

\* A worker that has called ReceiveComplete for the receive with the FIN is the
\* only one, and none comes after it.
LastReceive ==
  /\ FinalReceive => delivered = total
  /\ \A w \in IoWorkers : mine[w] =>
       /\ FinalReceive /\ ~recvPending /\ queue = << >> /\ InReceive = {}
       /\ \A v \in IoWorkers : mine[v] => v = w

\* It is the one that closes the file and goes on to the destination, and the
\* file stream is not opened again.
Shut ==
  /\ FileWriteStream \in {"closed", "temp"}
  /\ \A w \in IoWorkers :
       pc[w] \in {"close", "exists", "size", "mtime", "verify", "rename",
                  "settime", "discard"}
         => mine[w] /\ (pc[w] # "close" => FileWriteStream = "closed")

(* From the receive with the FIN on, the temporary file is in somebody's   *)
(* hands, or gone, or one of the reasons to leave it behind has come up.   *)
Settled ==
  FinalReceive =>
    \/ queue # << >> \/ InReceive # {} \/ leaked
    \/ \E w \in IoWorkers : Finishing(w) /\ pc[w] # "settime"
    \/ BytesWritten # total \/ BytesWritten # NewFileSize
    \/ temp = NoFile \/ ~Alive

Finished == LastReceive /\ (~stale => Shut /\ Settled)

LEMMA InitFinished == Init => Finished
BY DEF Init, Pool!Init, Finished, LastReceive, Shut, Settled

\* No worker has the last receive behind it while one has a receive in hand.
LEMMA NobodyLast ==
  ASSUME LastReceive, queue # << >> \/ InReceive # {} \/ recvPending \/ ~FinalReceive
  PROVE  \A w \in IoWorkers : ~mine[w]
BY DEF LastReceive

LEMMA NextLastReceive ==
  ASSUME Control, Flow, LastReceive, [Next]_vars PROVE LastReceive'
<1>0. ControlTypes /\ Quiet /\ OneReceive /\ mine \in [IoWorkers -> BOOLEAN]
  BY DEF Control, Flow
<1>1. ASSUME UNCHANGED <<FinalReceive, recvPending, queue, mine, delivered, total>>,
             InReceive' \subseteq InReceive
      PROVE  LastReceive'
  BY <1>1 DEF LastReceive
<1>2. CASE Snapshot \/ OpenStreamFails \/ PeerAborts \/ ConnectionLost \/ ShutdownComplete
             \/ (\E s \in LocalSizes : LocalEdit(s)) \/ LocalRemove \/ UNCHANGED vars
  <2>1. UNCHANGED <<FinalReceive, recvPending, queue, mine, delivered, total, pc>>
    BY <1>2 DEF Snapshot, SnapshotExists, SnapshotModTime, SnapshotSize, OpenStream,
         OpenStreamFails, PeerAborts, ConnectionLost, ShutdownComplete, LocalEdit,
         LocalRemove, vars, contextVars, receiveVars, poolVars, streamVars, history
  <2>2. QED
    BY <2>1, <1>1 DEF InReceive
<1>3. ASSUME NEW n \in 0..(total - delivered), NEW fin \in BOOLEAN, Receive(n, fin)
      PROVE  LastReceive'
  <2>1. /\ ~FinalReceive /\ mine' = mine /\ total' = total
        /\ FinalReceive' = fin /\ delivered' = delivered + n
        /\ fin => delivered + n = total
    BY <1>3 DEF Receive, history
  <2>2. \A w \in IoWorkers : ~mine[w]
    BY <2>1, NobodyLast
  <2>3. QED
    BY <2>1, <2>2 DEF LastReceive
<1>4. ASSUME NEW w \in IoWorkers, WorkerStart(w) PROVE LastReceive'
  <2>1. UNCHANGED <<FinalReceive, mine, delivered, total>> /\ queue # << >>
    BY <1>4 DEF WorkerStart, Pool!Start, receiveVars, streamVars, history
  <2>2. \A v \in IoWorkers : ~mine[v]
    BY <2>1, NobodyLast
  <2>3. QED
    BY <2>1, <2>2 DEF LastReceive
<1>5. ASSUME NEW w \in IoWorkers, WorkerComplete(w) PROVE LastReceive'
  <2>1. /\ mine' = [mine EXCEPT ![w] = FinalReceive]
        /\ pc[w] = "complete" /\ pc' = [pc EXCEPT ![w] = "final"]
        /\ recvPending' = FALSE
        /\ UNCHANGED <<FinalReceive, queue, delivered, total>>
    BY <1>5 DEF WorkerComplete, Goto, poolVars
  <2>2. InReceive = {w} /\ queue = << >>
    <3>1. w \in InReceive
      BY <2>1 DEF InReceive
    <3>2. QED
      BY <3>1, <1>0 DEF OneReceive
  <2>3. InReceive' = {}
    BY <2>1, <2>2, <1>0 DEF InReceive, ControlTypes
  <2>4. \A v \in IoWorkers : ~mine[v]
    BY <2>2, NobodyLast
  <2>5. QED
    BY <2>1, <2>2, <2>3, <2>4, <1>0 DEF LastReceive, ControlTypes
<1>6. ASSUME NEW w \in IoWorkers,
             WorkerOpen(w) \/ WorkerOpenFails(w) \/ WorkerWrite(w) \/ WorkerWriteFails(w)
      PROVE  LastReceive'
  <2>1. UNCHANGED <<FinalReceive, mine, delivered, total>> /\ w \in InReceive
    BY <1>6 DEF WorkerOpen, WorkerOpenFails, WorkerWrite, WorkerWriteFails,
         receiveVars, streamVars, history, InReceive
  <2>2. \A v \in IoWorkers : ~mine[v]
    BY <2>1, NobodyLast
  <2>3. QED
    BY <2>1, <2>2 DEF LastReceive
<1>7. ASSUME NEW w \in IoWorkers,
             WorkerFinal(w) \/ WorkerClose(w) \/ WorkerExists(w) \/ WorkerExistsFails(w)
               \/ WorkerSize(w) \/ WorkerModTime(w) \/ WorkerVerify(w)
      PROVE  LastReceive'
  <2>1. UNCHANGED <<FinalReceive, recvPending, queue, mine, delivered, total>>
    BY <1>7 DEF WorkerFinal, WorkerClose, WorkerExists, WorkerExistsFails, WorkerSize,
         WorkerModTime, WorkerVerify, receiveVars, poolVars, streamVars, history
  <2>2. PICK l \in {"close", "deref", "terminated", "exists", "size", "verify", "mtime",
                    "discard", "rename"} : pc' = [pc EXCEPT ![w] = l]
    BY <1>7 DEF WorkerFinal, WorkerClose, WorkerExists, WorkerExistsFails, WorkerSize,
         WorkerModTime, WorkerVerify, Goto
  <2>3. QED
    BY <2>1, <2>2, <1>1, MoveInReceive
<1>8. ASSUME NEW w \in IoWorkers,
             WorkerRename(w) \/ WorkerRenameFails(w) \/ WorkerSetTime(w)
               \/ WorkerSetTimeFails(w) \/ WorkerDiscard(w) \/ WorkerDeref(w)
      PROVE  LastReceive'
  <2>1. UNCHANGED <<FinalReceive, recvPending, queue, mine, delivered, total>>
    BY <1>8 DEF WorkerRename, WorkerRenameFails, WorkerSetTime, WorkerSetTimeFails,
         WorkerDiscard, WorkerDeref, Pool!Finish, receiveVars, poolVars, streamVars, history
  <2>2. PICK l \in {"settime", "discard", "deref", "terminated", "idle"} :
          pc' = [pc EXCEPT ![w] = l]
    BY <1>8 DEF WorkerRename, WorkerRenameFails, WorkerSetTime, WorkerSetTimeFails,
         WorkerDiscard, WorkerDeref, Goto
  <2>3. QED
    BY <2>1, <2>2, <1>1, MoveInReceive
<1>9. QED
  BY <1>2, <1>3, <1>4, <1>5, <1>6, <1>7, <1>8 DEF Next, Receives, WorkerStep, Done

\* A step that leaves the file stream where it is.
LEMMA ShutUnchanged ==
  ASSUME Shut, UNCHANGED <<FileWriteStream, mine>>,
         \A v \in IoWorkers : pc'[v] = pc[v] \/ pc'[v] \in {"idle", "open", "write", "complete",
                                                            "final", "deref", "terminated"}
  PROVE  Shut'
BY DEF Shut

\* While nobody has the last receive behind it, the file stream may be opened.
LEMMA ShutWhileNoneLast ==
  ASSUME \A v \in IoWorkers : ~mine[v],
         \A v \in IoWorkers : pc'[v] = pc[v] \/ pc'[v] \in {"idle", "open", "write", "complete",
                                                            "final", "deref", "terminated"},
         Shut, FileWriteStream' \in {"closed", "temp"}
  PROVE  Shut'
BY DEF Shut

LEMMA NextShut ==
  ASSUME Control, Flow, LastReceive, Shut, [Next]_vars, ~stale, ~stale'
  PROVE  Shut'
<1>0. ControlTypes /\ Quiet /\ OneReceive /\ mine \in [IoWorkers -> BOOLEAN]
  BY DEF Control, Flow
<1>1. CASE Snapshot \/ OpenStreamFails \/ Receives \/ PeerAborts \/ ConnectionLost
             \/ ShutdownComplete
             \/ (\E s \in LocalSizes : LocalEdit(s)) \/ LocalRemove \/ UNCHANGED vars
  <2>1. UNCHANGED <<mine, pc>>
    BY <1>1 DEF Snapshot, SnapshotExists, SnapshotModTime, SnapshotSize, OpenStream,
         OpenStreamFails, Receives, Receive, PeerAborts, ConnectionLost, ShutdownComplete,
         LocalEdit, LocalRemove, vars, history
  <2>2. UNCHANGED FileWriteStream
    BY <1>1 DEF Snapshot, SnapshotExists, SnapshotModTime, SnapshotSize, OpenStream,
         OpenStreamFails, Receives, Receive, PeerAborts, ConnectionLost, ShutdownComplete,
         LocalEdit, LocalRemove, vars, receiveVars, Shut
  <2>3. QED
    BY <2>1, <2>2, ShutUnchanged
<1>2. ASSUME NEW w \in IoWorkers,
             WorkerStart(w) \/ WorkerOpen(w) \/ WorkerOpenFails(w)
               \/ WorkerWrite(w) \/ WorkerWriteFails(w)
      PROVE  Shut'
  <2>1. queue # << >> \/ w \in InReceive
    BY <1>2 DEF WorkerStart, Pool!Start, WorkerOpen, WorkerOpenFails, WorkerWrite,
         WorkerWriteFails, InReceive
  <2>2. \A v \in IoWorkers : ~mine[v]
    BY <2>1, NobodyLast
  <2>3. PICK l \in {"idle", "open", "write", "complete", "deref"} : pc' = [pc EXCEPT ![w] = l]
    BY <1>2 DEF WorkerStart, WorkerOpen, WorkerOpenFails, WorkerWrite, WorkerWriteFails, Goto
  <2>4. FileWriteStream' \in {"closed", "temp"}
    BY <1>2 DEF WorkerStart, WorkerOpen, WorkerOpenFails, WorkerWrite, WorkerWriteFails,
         receiveVars, Shut
  <2>5. QED
    BY <2>2, <2>3, <2>4, <1>0, ShutWhileNoneLast DEF ControlTypes
<1>3. ASSUME NEW w \in IoWorkers, WorkerComplete(w) PROVE Shut'
  <2>1. /\ pc[w] = "complete" /\ pc' = [pc EXCEPT ![w] = "final"]
        /\ mine' = [mine EXCEPT ![w] = FinalReceive]
        /\ UNCHANGED FileWriteStream
    BY <1>3 DEF WorkerComplete, Goto
  <2>2. QED
    BY <2>1, <1>0 DEF Shut, ControlTypes
<1>4. ASSUME NEW w \in IoWorkers, WorkerFinal(w) PROVE Shut'
  <2>1. /\ pc' = [pc EXCEPT ![w] = IF FinalReceive THEN "close" ELSE "deref"]
        /\ FinalReceive => mine[w]
        /\ UNCHANGED <<FileWriteStream, mine>>
    BY <1>4 DEF WorkerFinal, Goto, receiveVars
  <2>2. QED
    BY <2>1, <1>0 DEF Shut, ControlTypes
<1>5. ASSUME NEW w \in IoWorkers, WorkerClose(w) PROVE Shut'
  <2>1. /\ pc[w] = "close" /\ pc' = [pc EXCEPT ![w] = "exists"]
        /\ FileWriteStream' = "closed" /\ mine' = mine
    BY <1>5 DEF WorkerClose, Goto
  <2>2. QED
    BY <2>1, <1>0 DEF Shut, ControlTypes
<1>6. ASSUME NEW w \in IoWorkers, 
             WorkerExists(w) \/ WorkerExistsFails(w) \/ WorkerSize(w) \/ WorkerModTime(w)
               \/ WorkerVerify(w) \/ WorkerRename(w) \/ WorkerRenameFails(w)
               \/ WorkerDiscard(w)
      PROVE  Shut'
  <2>1. pc[w] \in {"exists", "size", "mtime", "verify", "rename", "discard"} /\ mine' = mine
    BY <1>6 DEF WorkerExists, WorkerExistsFails, WorkerSize, WorkerModTime, WorkerVerify,
         WorkerRename, WorkerRenameFails, WorkerDiscard, history
  <2>2. FileWriteStream = "closed" /\ mine[w]
    BY <2>1 DEF Shut
  <2>3. FileWriteStream' = "closed"
    BY <1>6, <2>2 DEF WorkerExists, WorkerExistsFails, WorkerSize, WorkerModTime, WorkerVerify,
         WorkerRename, WorkerRenameFails, WorkerDiscard, receiveVars
  <2>4. PICK l \in {"size", "verify", "mtime", "discard", "rename", "settime", "deref",
                    "terminated"} :
          pc' = [pc EXCEPT ![w] = l]
    BY <1>6 DEF WorkerExists, WorkerExistsFails, WorkerSize, WorkerModTime, WorkerVerify,
         WorkerRename, WorkerRenameFails, WorkerDiscard, Goto
  <2>5. QED
    BY <2>1, <2>2, <2>3, <2>4, <1>0 DEF Shut, ControlTypes
<1>7. ASSUME NEW w \in IoWorkers, WorkerSetTime(w) \/ WorkerSetTimeFails(w) \/ WorkerDeref(w)
      PROVE  Shut'
  <2>1. UNCHANGED <<FileWriteStream, mine>>
    BY <1>7 DEF WorkerSetTime, WorkerSetTimeFails, WorkerDeref, receiveVars, history
  <2>2. PICK l \in {"idle", "deref", "terminated"} : pc' = [pc EXCEPT ![w] = l]
    BY <1>7 DEF WorkerSetTime, WorkerSetTimeFails, WorkerDeref, Goto
  <2>3. QED
    BY <2>1, <2>2, <1>0, ShutUnchanged DEF ControlTypes
<1>8. QED
  BY <1>1, <1>2, <1>3, <1>4, <1>5, <1>6, <1>7 DEF Next, WorkerStep, Done

\* Every step keeps the temporary file accounted for, or ends the program.
LEMMA NextSettled ==
  ASSUME Control, Flow, DataTypes, LastReceive, Settled, [Next]_vars, ~stale, ~stale'
  PROVE  Settled'
<1> SUFFICES ASSUME Alive PROVE Settled'
  BY DEF Next, Done, Alive, vars, Settled
<1>0. /\ ControlTypes /\ Quiet /\ OneReceive /\ mine \in [IoWorkers -> BOOLEAN]
      /\ delivered \in Nat /\ total \in Nat /\ BytesWritten \in Nat
  BY DEF Control, Flow
\* A step that creates no temporary file, by a worker that stays on its way.
<1>1. ASSUME UNCHANGED <<FinalReceive, queue, BytesWritten, total, NewFileSize, mine>>,
             leaked => leaked', temp = NoFile => temp' = NoFile,
             NEW w \in IoWorkers, NEW l, pc' = [pc EXCEPT ![w] = l],
             w \in InReceive => l \in {"write", "complete"},
             Finishing(w) /\ pc[w] # "settime" =>
               \/ l \in {"close", "exists", "size", "mtime", "verify", "rename", "discard"}
               \/ temp' = NoFile \/ BytesWritten # NewFileSize
      PROVE  Settled'
  <2>1. SUFFICES ASSUME FinalReceive,
                        ~(\/ queue # << >> \/ InReceive # {} \/ leaked
                          \/ BytesWritten # total \/ BytesWritten # NewFileSize
                          \/ temp = NoFile)
                 PROVE  Settled'
    <3>1. InReceive # {} => InReceive' # {}
      BY <1>1, <1>0 DEF InReceive, ControlTypes
    <3>2. QED
      BY <1>1, <2>1, <3>1 DEF Settled
  <2>2. PICK v \in IoWorkers : Finishing(v) /\ pc[v] # "settime"
    BY <2>1 DEF Settled, Alive
  <2>3. CASE v = w
    <3>1. CASE temp' = NoFile
      BY <3>1 DEF Settled
    <3>2. CASE l \in {"close", "exists", "size", "mtime", "verify", "rename", "discard"}
      <4>1. pc'[w] = l
        BY <1>1, <1>0 DEF ControlTypes
      <4>2. QED
        BY <4>1, <3>2 DEF Settled, Finishing
    <3>3. QED
      BY <1>1, <2>1, <2>2, <2>3, <3>1, <3>2
  <2>4. CASE v # w
    <3>1. pc'[v] = pc[v] /\ mine'[v] = mine[v]
      BY <1>1, <2>4, <1>0 DEF ControlTypes
    <3>2. QED
      BY <3>1, <2>2 DEF Settled, Finishing
  <2>5. QED
    BY <2>3, <2>4
<1>2. CASE Snapshot \/ OpenStreamFails \/ PeerAborts \/ ConnectionLost \/ ShutdownComplete
             \/ (\E s \in LocalSizes : LocalEdit(s)) \/ LocalRemove \/ UNCHANGED vars
  <2>1. UNCHANGED <<FinalReceive, queue, mine, BytesWritten, total, NewFileSize, pc, leaked, temp>>
    BY <1>2 DEF Snapshot, SnapshotExists, SnapshotModTime, SnapshotSize, OpenStream,
         OpenStreamFails, PeerAborts, ConnectionLost, ShutdownComplete, LocalEdit,
         LocalRemove, vars, contextVars, receiveVars, poolVars, fileVars, streamVars, history
  <2>2. QED
    BY <2>1 DEF Settled, Finishing, InReceive
<1>3. ASSUME NEW n \in 0..(total - delivered), NEW fin \in BOOLEAN, Receive(n, fin)
      PROVE  Settled'
  <2>1. queue' # << >>
    BY <1>3, <1>0 DEF Receive, Pool!Submit, ControlTypes
  <2>2. QED
    BY <2>1 DEF Settled
<1>4. ASSUME NEW w \in IoWorkers, WorkerStart(w) \/ WorkerOpen(w) \/ WorkerWrite(w)
      PROVE  Settled'
  <2>1. PICK l \in {"open", "write", "complete"} : pc' = [pc EXCEPT ![w] = l]
    BY <1>4 DEF WorkerStart, WorkerOpen, WorkerWrite, Goto
  <2>2. w \in InReceive'
    BY <2>1, <1>0 DEF InReceive, ControlTypes
  <2>3. QED
    BY <2>2 DEF Settled
<1>5. ASSUME NEW w \in IoWorkers, WorkerOpenFails(w) PROVE Settled'
  BY <1>5 DEF WorkerOpenFails, Settled
<1>6. ASSUME NEW w \in IoWorkers, WorkerWriteFails(w) PROVE Settled'
  <2>1. /\ UNCHANGED <<FinalReceive, BytesWritten, total>> /\ Buffers # << >>
        /\ w \in InReceive
    BY <1>6 DEF WorkerWriteFails, receiveVars, InReceive
  <2>2. BytesWritten # delivered
    <3>1. Buffers = Chunks(BytesWritten + 1, delivered)
      BY <2>1 DEF Flow
    <3>2. ASSUME BytesWritten = delivered PROVE FALSE
      <4>1. Buffers = Chunks(delivered + 1, delivered)
        BY <3>1, <3>2
      <4>2. Chunks(delivered + 1, delivered) = << >>
        BY <1>0 DEF Chunks
      <4>3. QED
        BY <2>1, <4>1, <4>2
    <3>3. QED
      BY <3>2
  <2>3. QED
    BY <2>1, <2>2 DEF LastReceive, Settled
<1>7. ASSUME NEW w \in IoWorkers, WorkerComplete(w) PROVE Settled'
  <2>1. /\ mine' = [mine EXCEPT ![w] = FinalReceive] /\ FinalReceive' = FinalReceive
        /\ pc' = [pc EXCEPT ![w] = "final"]
    BY <1>7 DEF WorkerComplete, Goto
  <2>2. pc'[w] = "final" /\ mine'[w] = FinalReceive
    BY <2>1, <1>0 DEF ControlTypes
  <2>3. QED
    BY <2>1, <2>2 DEF Settled, Finishing
<1>8. ASSUME NEW w \in IoWorkers, WorkerFinal(w) PROVE Settled'
  <2>1. /\ UNCHANGED <<FinalReceive, queue, BytesWritten, total, NewFileSize, mine, leaked, temp>>
        /\ pc[w] = "final"
        /\ pc' = [pc EXCEPT ![w] = IF FinalReceive THEN "close" ELSE "deref"]
    BY <1>8 DEF WorkerFinal, Goto, contextVars, receiveVars, poolVars, fileVars, streamVars
  <2>2. CASE FinalReceive
    <3>1. pc' = [pc EXCEPT ![w] = "close"]
      BY <2>1, <2>2
    <3>2. w \notin InReceive
      BY <2>1 DEF InReceive
    <3>3. QED
      BY <2>1, <3>1, <3>2, <1>1
  <2>3. CASE ~FinalReceive
    BY <2>1, <2>3 DEF Settled
  <2>4. QED
    BY <2>2, <2>3
<1>9. ASSUME NEW w \in IoWorkers,
             WorkerClose(w) \/ WorkerExists(w) \/ WorkerExistsFails(w) \/ WorkerSize(w)
               \/ WorkerModTime(w) \/ WorkerVerify(w)
      PROVE  Settled'
  <2>1. /\ UNCHANGED <<FinalReceive, queue, BytesWritten, total, NewFileSize, mine, leaked>>
        /\ pc[w] \in {"close", "exists", "size", "mtime", "verify"}
    BY <1>9 DEF WorkerClose, WorkerExists, WorkerExistsFails, WorkerSize, WorkerModTime,
         WorkerVerify, contextVars, receiveVars, poolVars, streamVars, history
  <2>2. PICK l \in {"exists", "size", "verify", "mtime", "discard", "rename", "deref"} :
          /\ pc' = [pc EXCEPT ![w] = l]
          /\ l = "deref" => BytesWritten # NewFileSize
    BY <1>9 DEF WorkerClose, WorkerExists, WorkerExistsFails, WorkerSize, WorkerModTime,
         WorkerVerify, Goto
  <2>3. temp = NoFile => temp' = NoFile
    BY <1>9 DEF WorkerClose, WorkerExists, WorkerExistsFails, WorkerSize, WorkerModTime,
         WorkerVerify, fileVars, DataTypes
  <2>4. w \notin InReceive
    BY <2>1 DEF InReceive
  <2>5. QED
    BY <2>1, <2>2, <2>3, <2>4, <1>1
<1>10. ASSUME NEW w \in IoWorkers, WorkerRename(w) \/ WorkerDiscard(w) PROVE Settled'
  <2>1. temp' = NoFile \/ pc'[w] = "terminated"
    BY <1>10, <1>0 DEF WorkerRename, WorkerDiscard, Goto, ControlTypes
  <2>2. QED
    BY <2>1 DEF Settled, Alive
<1>11. ASSUME NEW w \in IoWorkers,
              WorkerRenameFails(w) \/ WorkerSetTime(w) \/ WorkerSetTimeFails(w) \/ WorkerDeref(w)
       PROVE  Settled'
  <2>1. /\ UNCHANGED <<FinalReceive, queue, BytesWritten, total, NewFileSize, mine, leaked, temp>>
        /\ pc[w] \in {"rename", "settime", "deref", "terminated"}
    BY <1>11 DEF WorkerRenameFails, WorkerSetTime, WorkerSetTimeFails, WorkerDeref, Pool!Finish,
         contextVars, receiveVars, poolVars, fileVars, streamVars, history
  <2>2. PICK l \in {"discard", "deref", "terminated", "idle"} :
          pc' = [pc EXCEPT ![w] = l] /\ (l = "discard" <=> pc[w] = "rename")
    BY <1>11 DEF WorkerRenameFails, WorkerSetTime, WorkerSetTimeFails, WorkerDeref, Goto
  <2>3. w \notin InReceive
    BY <2>1 DEF InReceive
  <2>4. QED
    BY <2>1, <2>2, <2>3, <1>1 DEF Finishing
<1>12. QED
  BY <1>2, <1>3, <1>4, <1>5, <1>6, <1>7, <1>8, <1>9, <1>10, <1>11
     DEF Next, Receives, WorkerStep, Done

LEMMA NextFinished ==
  ASSUME Control, Flow, DataTypes, Finished, [Next]_vars PROVE Finished'
BY NextLastReceive, NextShut, NextSettled, HistoryStays DEF Finished

(* A file that came in whole, in the size that was announced, leaves no    *)
(* temporary file when its context is freed, whatever else fails: it was   *)
(* renamed, or the worker of the last receive removed it.                  *)
THEOREM TempCleanedUp == Spec => []NoTempLeft
<1>1. Control /\ Finished => NoTempLeft
  <2>1. SUFFICES ASSUME Control, Finished, Freed, FinalReceive, BytesWritten = total,
                        total = NewFileSize, ~stale
                 PROVE  temp = NoFile
    BY DEF NoTempLeft
  <2>2. Cardinality(Busy) = 0 /\ Len(queue) = 0 /\ ~leaked
    <3>1. Len(queue) \in Nat
      BY DEF Control, ControlTypes
    <3>2. QED
      BY <2>1, <3>1, BusyFinite DEF Control, RefsCounted, Freed
  <2>3. Busy = {} /\ queue = << >>
    BY <2>2, BusyFinite, FS_EmptySet DEF Control, ControlTypes
  <2>4. \A w \in IoWorkers : pc[w] = "idle"
    BY <2>3 DEF Busy
  <2>5. QED
    BY <2>1, <2>2, <2>3, <2>4 DEF Finished, Settled, Finishing, InReceive, Alive
<1>2. QED
  BY <1>1, InitControl, NextControl, InitBytes, NextFlow, InitDataTypes, NextDataTypes,
     InitFinished, NextFinished, PTL DEF Spec, Safety

-----------------------------------------------------------------------------
(* The promise of Transfer *)

\* What the worker of the last receive makes of the transfer, by where it is.
StateAt(label) ==
  CASE label \in {"discard", "deref", "terminated", "idle"} -> "over"
    [] label = "settime" -> "installed"
    [] label \in {"verify", "rename"} -> "checked"
    [] OTHER -> "under way"

\* What the state is read from, until the context is freed.
Readable == Control /\ LastReceive /\ Shut /\ phase = "live" /\ ~Freed

\* Somebody who still holds a reference keeps the context.
LEMMA NotFreed ==
  LET Held == Control /\ phase = "live" /\ \/ stream # "closed" \/ queue # << >> \/ leaked
                                           \/ \E w \in IoWorkers : pc[w] # "idle"
  IN  (Held => ~Freed) /\ (Held' => ~Freed')
<1> DEFINE Held == Control /\ phase = "live" /\ \/ stream # "closed" \/ queue # << >> \/ leaked
                                                \/ \E w \in IoWorkers : pc[w] # "idle"
<1>1. Held => ~Freed
  <2>1. SUFFICES ASSUME Held PROVE ~Freed
    OBVIOUS
  <2>2. /\ Len(queue) \in Nat /\ (queue # << >> => Len(queue) = 1)
        /\ RefCount = (IF stream = "closed" THEN 0 ELSE 1) + Len(queue)
                      + Cardinality(Busy) + (IF leaked THEN 1 ELSE 0)
    BY <2>1 DEF Control, ControlTypes, RefsCounted
  <2>3. (\E w \in IoWorkers : pc[w] # "idle") => Cardinality(Busy) # 0
    BY BusyFinite, FS_EmptySet DEF Busy
  <2>4. QED
    BY <2>1, <2>2, <2>3, BusyFinite DEF Freed
<1>2. Held' => ~Freed'
  BY <1>1, PTL
<1>3. QED
  BY <1>1, <1>2

\* The state while one worker has the last receive behind it ...
LEMMA StateOfLast ==
  ASSUME NEW w \in IoWorkers
  PROVE  /\ Readable /\ mine[w] => TransferState = StateAt(pc[w])
         /\ Readable' /\ mine'[w] => TransferState' = StateAt(pc'[w])
<1>1. Readable /\ mine[w] => TransferState = StateAt(pc[w])
  <2>1. SUFFICES ASSUME Readable, mine[w] PROVE TransferState = StateAt(pc[w])
    OBVIOUS
  <2>2. \A v \in IoWorkers : mine[v] <=> v = w
    BY <2>1 DEF Readable, LastReceive
  <2>3. \A v \in IoWorkers : pc[v] \in {"settime", "verify", "rename"} => v = w
    BY <2>1, <2>2 DEF Readable, Shut
  <2>4. QED
    BY <2>1, <2>2, <2>3 DEF Readable, TransferState, StateAt
<1>2. (Readable /\ mine[w] => TransferState = StateAt(pc[w]))'
  BY <1>1, PTL
<1>3. QED
  BY <1>1, <1>2

\* ... and before one has.
LEMMA StateOfNone ==
  LET None == Readable /\ \A w \in IoWorkers : ~mine[w]
  IN  /\ None => TransferState = "under way"
      /\ None' => TransferState' = "under way"
<1>1. Readable /\ (\A w \in IoWorkers : ~mine[w]) => TransferState = "under way"
  BY DEF Readable, Shut, TransferState
<1>2. (Readable /\ (\A w \in IoWorkers : ~mine[w]) => TransferState = "under way")'
  BY <1>1, PTL
<1>3. QED
  BY <1>1, <1>2

\* What Transfer sees besides the state.
seenVars == <<phase, FileExists, SnapshotDestModTime, NewFileSize, dest, stale, cut, blind>>

PromiseStep == [Promise!Next]_(Promise!vars)

\* A step that Transfer does not see, or by which the transfer is over.
LEMMA PromiseStutters ==
  ASSUME UNCHANGED seenVars, TransferState' = TransferState \/ TransferState' = "over"
  PROVE  PromiseStep
<1>1. CASE TransferState' = TransferState
  BY <1>1 DEF PromiseStep, Promise!vars, Promise!excuses, seenVars, Chunks
<1>2. CASE TransferState # "over" /\ TransferState' = "over"
  <2>1. Promise!End
    BY <1>2 DEF Promise!End, Promise!excuses, seenVars, Chunks
  <2>2. QED
    BY <2>1 DEF PromiseStep, Promise!Next
<1>3. QED
  BY <1>1, <1>2

\* Before the stream is started, and afterwards until the context is freed.
LEMMA StateNow ==
  /\ phase \in {"exists", "mtime", "size", "open"} => TransferState = "idle"
  /\ (phase \in {"exists", "mtime", "size", "open"})' => TransferState' = "idle"
  /\ Freed \/ phase = "abandoned" => TransferState = "over"
  /\ Freed' \/ phase' = "abandoned" => TransferState' = "over"
  /\ UNCHANGED <<phase, RefCount, mine, pc>> => TransferState' = TransferState
BY DEF TransferState, Freed

\* The move of the worker that has the last receive behind it, inside FileIoWorker.
LEMMA LastMoves ==
  ASSUME Control, LastReceive, Shut, Control', LastReceive', Shut',
         NEW w \in IoWorkers, mine[w], mine' = mine, pc[w] # "idle", phase' = phase,
         NEW l, l # "idle", pc' = [pc EXCEPT ![w] = l]
  PROVE  /\ phase = "live"
         /\ TransferState = StateAt(pc[w]) /\ TransferState' = StateAt(l)
<1>1. phase = "live" /\ pc'[w] = l
  BY DEF Control, ControlTypes, Quiet
<1>2. Readable /\ Readable'
  BY <1>1, NotFreed DEF Readable
<1>3. QED
  BY <1>1, <1>2, StateOfLast

\* The move of another worker.
LEMMA OtherMoves ==
  ASSUME Control, LastReceive, Shut, Control', LastReceive', Shut',
         NEW w \in IoWorkers, ~mine[w], mine' = mine,
         pc[w] # "idle" \/ queue # << >>, phase' = phase,
         NEW l, pc' = [pc EXCEPT ![w] = l]
  PROVE  TransferState' = TransferState \/ TransferState' = "over"
<1>1. phase = "live" /\ \A v \in IoWorkers : v # w => pc'[v] = pc[v]
  BY DEF Control, ControlTypes, Quiet
<1>2. Readable
  BY <1>1, NotFreed DEF Readable
<1>3. CASE Freed'
  BY <1>3, StateNow
<1>4. CASE ~Freed'
  <2>1. Readable'
    BY <1>1, <1>4 DEF Readable
  <2>2. ASSUME NEW v \in IoWorkers, mine[v] PROVE TransferState' = TransferState
    <3>1. TransferState = StateAt(pc[v])
      BY <2>2, <1>2, StateOfLast
    <3>2. TransferState' = StateAt(pc'[v])
      BY <2>2, <2>1, StateOfLast
    <3>3. QED
      BY <3>1, <3>2, <2>2, <1>1
  <2>3. CASE \A v \in IoWorkers : ~mine[v]
    BY <2>3, <1>2, <2>1, StateOfNone
  <2>4. QED
    BY <2>2, <2>3
<1>5. QED
  BY <1>3, <1>4

\* Every step of the context, of its workers and of whoever edits the destination
\* is one that Transfer allows.
LEMMA PromiseKept ==
  ASSUME Control, Flow, DataTypes, Assembled, Finished, [Next]_vars,
         Control', Finished'
  PROVE  PromiseStep
<1>1. CASE stale'
  BY <1>1 DEF PromiseStep, Promise!Next, Promise!Stray
<1> SUFFICES ASSUME ~stale' PROVE PromiseStep
  BY <1>1
<1>2. ~stale /\ LastReceive /\ Shut /\ LastReceive' /\ Shut'
  BY HistoryStays DEF Finished
<1>3. ControlTypes /\ Quiet /\ OneReceive /\ mine \in [IoWorkers -> BOOLEAN]
  BY DEF Control, Flow
<1>4. CASE SnapshotExists
  <2>1. phase = "exists" /\ phase' \in {"mtime", "open"}
    BY <1>4 DEF SnapshotExists
  <2>2. TransferState = "idle" /\ TransferState' = "idle"
    BY <2>1, StateNow
  <2>3. ~(FileExists' /\ phase' \in {"size", "open", "live"})
    BY <1>4 DEF SnapshotExists
  <2>4. UNCHANGED <<NewFileSize, dest, stale, cut, blind>>
    BY <1>4 DEF SnapshotExists, fileVars, history
  <2>5. QED
    BY <2>1, <2>2, <2>3, <2>4 DEF PromiseStep, Promise!vars, Promise!excuses, Chunks
<1>5. CASE SnapshotModTime
  <2>1. phase = "mtime" /\ UNCHANGED <<FileExists, NewFileSize, dest, stale, cut, blind>>
    BY <1>5 DEF SnapshotModTime, fileVars, history
  <2>2. TransferState = "idle"
    BY <2>1, StateNow
  <2>3. CASE dest = NoFile
    <3>1. phase' = "abandoned" /\ TransferState' = "over"
      BY <1>5, <2>3, StateNow DEF SnapshotModTime
    <3>2. Promise!End
      BY <2>1, <2>2, <3>1 DEF Promise!End, Promise!excuses, Chunks
    <3>3. QED
      BY <3>2 DEF PromiseStep, Promise!Next
  <2>4. CASE dest # NoFile
    <3>1. phase' = "size" /\ SnapshotDestModTime' = dest.mtime
      BY <1>5, <2>4 DEF SnapshotModTime
    <3>2. TransferState' = "idle"
      BY <3>1, StateNow
    <3>3. FileExists => Promise!Look
      BY <2>1, <2>2, <2>4, <3>1, <3>2 DEF Promise!Look, Promise!excuses, Chunks
    <3>4. ~FileExists => UNCHANGED Promise!vars
      BY <2>1, <2>2, <3>1, <3>2 DEF Promise!vars, Promise!excuses, Chunks
    <3>5. QED
      BY <3>3, <3>4 DEF PromiseStep, Promise!Next
  <2>5. QED
    BY <2>3, <2>4
<1>6. CASE SnapshotSize
  <2>1. /\ phase = "size" /\ phase' = IF dest = NoFile THEN "abandoned" ELSE "open"
        /\ UNCHANGED <<FileExists, SnapshotDestModTime, NewFileSize, dest, stale, cut, blind>>
    BY <1>6 DEF SnapshotSize, fileVars, history
  <2>2. TransferState = "idle"
    BY <2>1, StateNow
  <2>3. CASE dest = NoFile
    <3>1. TransferState' = "over" /\ phase' = "abandoned"
      BY <2>1, <2>3, StateNow
    <3>2. Promise!End
      BY <2>1, <2>2, <3>1 DEF Promise!End, Promise!excuses, Chunks
    <3>3. QED
      BY <3>2 DEF PromiseStep, Promise!Next
  <2>4. CASE dest # NoFile
    <3>1. TransferState' = "idle" /\ phase' = "open"
      BY <2>1, <2>4, StateNow
    <3>2. QED
      BY <2>1, <2>2, <3>1 DEF PromiseStep, Promise!vars, Promise!excuses, Chunks
  <2>5. QED
    BY <2>3, <2>4
<1>7. CASE OpenStream
  <2>1. /\ phase = "open" /\ phase' = "live" /\ stream' = "open"
        /\ UNCHANGED <<FileExists, SnapshotDestModTime, NewFileSize, dest, mine, stale, cut, blind>>
    BY <1>7 DEF OpenStream, fileVars, history
  <2>2. \A w \in IoWorkers : ~mine'[w]
    BY <2>1, <1>2, <1>3, NobodyLast DEF Quiet
  <2>3. Readable'
    BY <2>1, <1>2, NotFreed DEF Readable
  <2>4. TransferState = "idle" /\ TransferState' = "under way"
    BY <2>1, <2>2, <2>3, StateNow, StateOfNone
  <2>5. Promise!Ask
    BY <2>1, <2>4 DEF Promise!Ask, Promise!excuses, Chunks
  <2>6. QED
    BY <2>5 DEF PromiseStep, Promise!Next
<1>8. CASE OpenStreamFails
  <2>1. /\ phase = "open" /\ phase' = "abandoned"
        /\ UNCHANGED <<FileExists, SnapshotDestModTime, NewFileSize, dest, stale, cut, blind>>
    BY <1>8 DEF OpenStreamFails, fileVars, history
  <2>2. TransferState = "idle" /\ TransferState' = "over"
    BY <2>1, StateNow
  <2>3. Promise!End
    BY <2>1, <2>2 DEF Promise!End, Promise!excuses, Chunks
  <2>4. QED
    BY <2>3 DEF PromiseStep, Promise!Next
<1>9. CASE Receives \/ PeerAborts \/ ConnectionLost \/ ShutdownComplete
  <2>1. UNCHANGED <<pc, mine, phase>> /\ UNCHANGED seenVars
    BY <1>9 DEF Receives, Receive, PeerAborts, ConnectionLost, ShutdownComplete, seenVars,
         contextVars, fileVars, history
  <2>2. stream \in {"open", "aborted"}
    BY <1>9 DEF Receives, Receive, PeerAborts, ConnectionLost, ShutdownComplete
  <2>3. phase = "live" /\ ~Freed
    BY <2>2, <1>3, NotFreed DEF Quiet
  <2>4. TransferState' = TransferState \/ TransferState' = "over"
    BY <2>1, <2>3, StateNow DEF TransferState
  <2>5. QED
    BY <2>1, <2>4, PromiseStutters
\* The worker with the last receive, unless Transfer sees what it does.
<1>10. ASSUME NEW w \in IoWorkers, NEW l, pc' = [pc EXCEPT ![w] = l],
              pc[w] # "idle" \/ queue # << >>, mine' = mine, UNCHANGED seenVars,
              mine[w] => pc[w] # "idle" /\ l # "idle" /\ StateAt(l) \in {StateAt(pc[w]), "over"}
       PROVE  PromiseStep
  <2>1. phase' = phase
    BY <1>10 DEF seenVars
  <2>2. mine[w] => TransferState' = TransferState \/ TransferState' = "over"
    BY <1>10, <2>1, <1>2, LastMoves
  <2>3. ~mine[w] => TransferState' = TransferState \/ TransferState' = "over"
    BY <1>10, <2>1, <1>2, OtherMoves
  <2>4. QED
    BY <2>2, <2>3, <1>10, PromiseStutters
<1>11. ASSUME NEW w \in IoWorkers,
              WorkerStart(w) \/ WorkerOpen(w) \/ WorkerOpenFails(w)
                \/ WorkerWrite(w) \/ WorkerWriteFails(w)
       PROVE  PromiseStep
  <2>1. mine' = mine /\ (queue # << >> \/ w \in InReceive)
    BY <1>11 DEF WorkerStart, Pool!Start, WorkerOpen, WorkerOpenFails, WorkerWrite,
         WorkerWriteFails, history, InReceive
  <2>2. ~mine[w]
    BY <2>1, <1>2, NobodyLast
  <2>3. UNCHANGED seenVars
    BY <1>11, <1>2 DEF WorkerStart, WorkerOpen, WorkerOpenFails, WorkerWrite, WorkerWriteFails,
         seenVars, contextVars, fileVars, history, Shut
  <2>4. PICK l \in {"open", "write", "complete", "idle", "deref"} : pc' = [pc EXCEPT ![w] = l]
    BY <1>11 DEF WorkerStart, WorkerOpen, WorkerOpenFails, WorkerWrite, WorkerWriteFails, Goto
  <2>5. pc[w] # "idle" \/ queue # << >>
    BY <2>1 DEF InReceive
  <2>6. QED
    BY <2>1, <2>2, <2>3, <2>4, <2>5, <1>10
<1>12. ASSUME NEW w \in IoWorkers, WorkerComplete(w) PROVE PromiseStep
  <2>1. /\ pc[w] = "complete" /\ pc' = [pc EXCEPT ![w] = "final"]
        /\ mine' = [mine EXCEPT ![w] = FinalReceive]
        /\ UNCHANGED seenVars /\ phase' = phase
    BY <1>12 DEF WorkerComplete, Goto, seenVars, contextVars, fileVars
  <2>2. pc'[w] = "final" /\ phase = "live" /\ \A v \in IoWorkers : ~mine[v]
    <3>1. w \in InReceive
      BY <2>1 DEF InReceive
    <3>2. QED
      BY <2>1, <3>1, <1>2, <1>3, NobodyLast DEF ControlTypes, Quiet
  <2>3. Readable /\ Readable'
    BY <2>1, <2>2, <1>2, NotFreed DEF Readable
  <2>4. TransferState = "under way"
    BY <2>2, <2>3, StateOfNone
  <2>5. CASE FinalReceive
    <3>1. mine'[w]
      BY <2>1, <2>5, <1>3
    <3>2. TransferState' = "under way"
      BY <2>2, <2>3, <3>1, StateOfLast DEF StateAt
    <3>3. QED
      BY <2>1, <2>4, <3>2, PromiseStutters
  <2>6. CASE ~FinalReceive
    <3>1. \A v \in IoWorkers : ~mine'[v]
      BY <2>1, <2>2, <2>6, <1>3
    <3>2. TransferState' = "under way"
      BY <2>3, <3>1, StateOfNone
    <3>3. QED
      BY <2>1, <2>4, <3>2, PromiseStutters
  <2>7. QED
    BY <2>5, <2>6
<1>13. ASSUME NEW w \in IoWorkers, WorkerFinal(w) PROVE PromiseStep
  <2>1. /\ pc[w] = "final" /\ mine' = mine
        /\ pc' = [pc EXCEPT ![w] = IF FinalReceive THEN "close" ELSE "deref"]
        /\ FinalReceive => mine[w]
        /\ UNCHANGED <<phase, FileExists, SnapshotDestModTime, NewFileSize, dest, cut, blind>>
    BY <1>2, <1>13 DEF WorkerFinal, Goto, contextVars, fileVars
  <2>2. UNCHANGED seenVars
    <3>1. stale' \in BOOLEAN /\ stale \in BOOLEAN
      BY <1>13 DEF WorkerFinal, Flow
    <3>2. stale' = stale
      BY <3>1, <1>2
    <3>3. QED
      BY <2>1, <3>2 DEF seenVars
  <2>3. mine[w] => FinalReceive
    BY <1>2 DEF LastReceive
  <2>4. CASE FinalReceive
    <3>1. pc' = [pc EXCEPT ![w] = "close"] /\ StateAt("close") = StateAt(pc[w])
      BY <2>1, <2>4 DEF StateAt
    <3>2. QED
      BY <2>1, <2>2, <3>1, <1>10
  <2>5. CASE ~FinalReceive
    <3>1. pc' = [pc EXCEPT ![w] = "deref"]
      BY <2>1, <2>5
    <3>2. QED
      BY <2>1, <2>3, <2>5, <2>2, <3>1, <1>10
  <2>6. QED
    BY <2>4, <2>5
<1>14. ASSUME NEW w \in IoWorkers, WorkerClose(w) PROVE PromiseStep
  <2>1. /\ pc[w] = "close" /\ pc' = [pc EXCEPT ![w] = "exists"] /\ mine' = mine
        /\ UNCHANGED <<contextVars, dest, stale, blind>>
        /\ cut' = cut \/ cut'
    BY <1>14 DEF WorkerClose, Goto
  <2>2. mine[w]
    BY <2>1, <1>2 DEF Shut
  <2>3. TransferState = "under way" /\ TransferState' = "under way"
    <3>1. phase' = phase
      BY <2>1 DEF contextVars
    <3>2. phase = "live" /\ TransferState = StateAt("close") /\ TransferState' = StateAt("exists")
      BY <2>1, <2>2, <3>1, <1>2, LastMoves
    <3>3. QED
      BY <3>2 DEF StateAt
  <2>4. CASE cut' = cut
    BY <2>1, <2>3, <2>4, PromiseStutters DEF seenVars, contextVars
  <2>5. CASE cut'
    <3>1. Promise!Cut
      BY <2>1, <2>3, <2>5 DEF Promise!Cut, contextVars, Chunks
    <3>2. QED
      BY <3>1 DEF PromiseStep, Promise!Next
  <2>6. QED
    BY <2>1, <2>4, <2>5
\* The destination is looked at for the last time.
<1>15. ASSUME NEW w \in IoWorkers, pc[w] \in {"exists", "mtime"}, mine' = mine,
              pc' = [pc EXCEPT ![w] = "verify"],
              UNCHANGED <<contextVars, dest, stale, cut>>,
              \/ blind' \/ dest = NoFile \/ ~FileExists \/ dest.mtime = SnapshotDestModTime
       PROVE  PromiseStep
  <2>1. mine[w]
    BY <1>15, <1>2 DEF Shut
  <2>2. TransferState = "under way" /\ TransferState' = "checked" /\ phase = "live"
    <3>1. phase' = phase
      BY <1>15 DEF contextVars
    <3>2. phase = "live" /\ TransferState = StateAt(pc[w]) /\ TransferState' = StateAt("verify")
      BY <2>1, <1>15, <3>1, <1>2, LastMoves
    <3>3. QED
      BY <3>2, <1>15 DEF StateAt
  <2>3. Promise!Check
    BY <2>2, <1>15 DEF Promise!Check, contextVars, Chunks
  <2>4. QED
    BY <2>3 DEF PromiseStep, Promise!Next
<1>16. ASSUME NEW w \in IoWorkers,
              WorkerExists(w) \/ WorkerExistsFails(w) \/ WorkerSize(w) \/ WorkerModTime(w)
       PROVE  PromiseStep
  <2>1. /\ pc[w] \in {"exists", "size", "mtime"} /\ mine' = mine
        /\ UNCHANGED <<contextVars, dest, stale, cut>>
    BY <1>16 DEF WorkerExists, WorkerExistsFails, WorkerSize, WorkerModTime, fileVars, history
  <2>2. \/ /\ pc' = [pc EXCEPT ![w] = "verify"]
           /\ pc[w] \in {"exists", "mtime"}
           /\ \/ blind' \/ dest = NoFile \/ ~FileExists \/ dest.mtime = SnapshotDestModTime
        \/ /\ \E l \in {"size", "mtime", "discard"} : pc' = [pc EXCEPT ![w] = l]
           /\ blind' = blind
    BY <1>16 DEF WorkerExists, WorkerExistsFails, WorkerSize, WorkerModTime, Goto, history
  <2>3. ASSUME NEW l \in {"size", "mtime", "discard"}, pc' = [pc EXCEPT ![w] = l], blind' = blind
        PROVE  PromiseStep
    <3>1. UNCHANGED seenVars
      BY <2>1, <2>3 DEF seenVars, contextVars
    <3>2. StateAt(l) \in {StateAt(pc[w]), "over"}
      BY <2>1 DEF StateAt
    <3>3. QED
      BY <2>1, <2>3, <3>1, <3>2, <1>10
  <2>4. QED
    BY <2>1, <2>2, <2>3, <1>15
<1>17. ASSUME NEW w \in IoWorkers,
              WorkerVerify(w) \/ WorkerRenameFails(w) \/ WorkerSetTimeFails(w) \/ WorkerDiscard(w)
       PROVE  PromiseStep
  <2>1. /\ pc[w] \in {"verify", "rename", "settime", "discard"} /\ mine' = mine
        /\ UNCHANGED seenVars
    BY <1>17 DEF WorkerVerify, WorkerRenameFails, WorkerSetTimeFails, WorkerDiscard,
         seenVars, contextVars, fileVars, history
  <2>2. PICK l \in {"rename", "deref", "terminated", "discard"} :
          pc' = [pc EXCEPT ![w] = l] /\ (l = "rename" => pc[w] = "verify")
    BY <1>17 DEF WorkerVerify, WorkerRenameFails, WorkerSetTimeFails, WorkerDiscard, Goto
  <2>3. StateAt(l) \in {StateAt(pc[w]), "over"}
    BY <2>2 DEF StateAt
  <2>4. QED
    BY <2>1, <2>2, <2>3, <1>10
<1>18. ASSUME NEW w \in IoWorkers, WorkerRename(w) PROVE PromiseStep
  <2>1. /\ pc[w] = "rename" /\ pc' = [pc EXCEPT ![w] = "settime"] /\ mine' = mine
        /\ UNCHANGED <<contextVars, stale, cut, blind>>
        /\ temp # NoFile /\ dest' = File(temp, WrittenTime, "server")
    BY <1>18 DEF WorkerRename, Goto, history
  <2>2. mine[w]
    BY <2>1, <1>2 DEF Shut
  <2>3. TransferState = "checked" /\ TransferState' = "installed" /\ phase = "live"
    <3>1. phase' = phase
      BY <2>1 DEF contextVars
    <3>2. phase = "live" /\ TransferState = StateAt("rename") /\ TransferState' = StateAt("settime")
      BY <2>1, <2>2, <3>1, <1>2, LastMoves
    <3>3. QED
      BY <3>2 DEF StateAt
  <2>4. dest' # NoFile
    BY <2>1, FileType, Times DEF DataTypes
  <2>5. dest'.mtime = WrittenTime /\ dest'.by = "server" /\ dest'.data = temp
    BY <2>1 DEF File
  <2>6. temp = Chunks(1, NewFileSize) \/ cut
    BY <2>1, <1>2 DEF Assembled, Bytes
  <2>7. Promise!Install
    BY <2>1, <2>3, <2>4, <2>5, <2>6 DEF Promise!Install, Promise!excuses, contextVars, Chunks
  <2>8. QED
    BY <2>7 DEF PromiseStep, Promise!Next
<1>19. ASSUME NEW w \in IoWorkers, WorkerSetTime(w) PROVE PromiseStep
  <2>1. /\ pc[w] = "settime" /\ pc' = [pc EXCEPT ![w] = "deref"] /\ mine' = mine
        /\ UNCHANGED <<contextVars, stale, cut, blind>>
        /\ dest' = IF dest = NoFile THEN dest ELSE File(dest.data, FileTime, dest.by)
    BY <1>19 DEF WorkerSetTime, Goto, history
  <2>2. mine[w]
    BY <2>1, <1>2 DEF Shut
  <2>3. TransferState = "installed" /\ TransferState' = "over" /\ phase = "live"
    <3>1. phase' = phase
      BY <2>1 DEF contextVars
    <3>2. phase = "live" /\ TransferState = StateAt("settime") /\ TransferState' = StateAt("deref")
      BY <2>1, <2>2, <3>1, <1>2, LastMoves
    <3>3. QED
      BY <3>2 DEF StateAt
  <2>4. dest # NoFile => File(dest.data, FileTime, dest.by) = [dest EXCEPT !.mtime = FileTime]
    BY DEF DataTypes, Files, File
  <2>5. Promise!Stamp
    BY <2>1, <2>3, <2>4 DEF Promise!Stamp, Promise!excuses, contextVars, Chunks
  <2>6. QED
    BY <2>5 DEF PromiseStep, Promise!Next
<1>20. ASSUME NEW w \in IoWorkers, WorkerDeref(w) PROVE PromiseStep
  <2>1. /\ pc[w] = "deref" /\ pc' = [pc EXCEPT ![w] = "idle"] /\ mine' = mine
        /\ UNCHANGED seenVars /\ phase' = phase
    BY <1>20 DEF WorkerDeref, Goto, seenVars, contextVars, fileVars, history
  <2>2. CASE ~mine[w]
    BY <2>1, <2>2, <1>10
  <2>3. CASE mine[w]
    <3>1. phase = "live" /\ pc'[w] = "idle" /\ mine'[w]
      BY <2>1, <2>3, <1>3 DEF Quiet, ControlTypes
    <3>2. TransferState' = "over"
      BY <3>1, <2>1 DEF TransferState
    <3>3. QED
      BY <2>1, <3>2, PromiseStutters
  <2>4. QED
    BY <2>2, <2>3
<1>21. CASE (\E s \in LocalSizes : LocalEdit(s)) \/ LocalRemove
  <2>1. /\ UNCHANGED <<contextVars, RefCount, pc, mine, stale, cut, blind>>
        /\ dest' \in {NoFile} \cup {Local(s, k) : s \in LocalSizes, k \in 0..MaxEdits}
    <3>1. edits + 1 \in 0..MaxEdits
      BY <1>21, Times DEF LocalEdit, LocalRemove, DataTypes
    <3>2. QED
      BY <1>21, <3>1 DEF LocalEdit, LocalRemove, history
  <2>2. TransferState' = TransferState
    BY <2>1, StateNow DEF contextVars
  <2>3. Promise!Edit
    BY <2>1, <2>2 DEF Promise!Edit, Promise!excuses, contextVars, Chunks
  <2>4. QED
    BY <2>3 DEF PromiseStep, Promise!Next
<1>22. CASE UNCHANGED vars
  <2>1. UNCHANGED <<phase, RefCount, mine, pc>> /\ UNCHANGED seenVars
    BY <1>22 DEF vars, seenVars, contextVars, fileVars, history
  <2>2. QED
    BY <2>1, StateNow, PromiseStutters
<1>23. QED
  BY <1>4, <1>5, <1>6, <1>7, <1>8, <1>9, <1>11, <1>12, <1>13, <1>14, <1>16, <1>17, <1>18,
     <1>19, <1>20, <1>21, <1>22 DEF Next, Snapshot, WorkerStep, Done

\* A context starts as a transfer does.
LEMMA PromiseInit == Init => Promise!Init
<1> SUFFICES ASSUME Init PROVE Promise!Init
  OBVIOUS
<1>1. TransferState = "idle"
  BY StateNow DEF Init
<1>2. dest \in {NoFile} \cup {Local(s, k) : s \in LocalSizes, k \in 0..MaxEdits}
  BY Times DEF Init
<1>3. QED
  BY <1>1, <1>2 DEF Init, Promise!Init

(* The context keeps the promise of Transfer: for any number of IoPool     *)
(* threads, any file, and whatever fails, the destination is replaced once *)
(* at most, by the whole file, after it was found as it had been seen.     *)
THEOREM PromiseImplemented == Spec => ImplementsTransfer
<1> DEFINE Known == Control /\ Flow /\ DataTypes /\ Assembled /\ Finished
<1>1. Init => Known
  BY InitControl, InitBytes, InitDataTypes, InitFinished
<1>2. Known /\ [Next]_vars => Known'
  BY NextControl, NextFlow, NextDataTypes, NextAssembled, NextFinished
<1>3. Known /\ Known' /\ [Next]_vars => [Promise!Next]_(Promise!vars)
  BY PromiseKept DEF PromiseStep
<1> HIDE DEF Known
<1>4. QED
  BY <1>1, <1>2, <1>3, PromiseInit, PTL DEF Spec, Safety, ImplementsTransfer, Promise!Spec

==============================================================================
