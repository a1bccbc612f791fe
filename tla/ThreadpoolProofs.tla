-------------------------- MODULE ThreadpoolProofs ---------------------------
(***************************************************************************)
(* Theorems about Threadpool, for any finite sets of workers and callers   *)
(* and any set of items.  The inductive invariant is the conjunction of    *)
(* the type invariant, mutual exclusion, and the two properties it gives.  *)
(***************************************************************************)
EXTENDS Threadpool, FiniteSetTheorems, SequenceTheorems, TLAPS

\* Types and the mutex: what every other argument starts from.
Base == TypeOK /\ NestedCalls /\ MutexDiscipline /\ DispatchHasItem

\* The inductive invariant holds when the constructor returns.
LEMMA InitBase == Init => Base
  BY ThreadsAssumption DEF Init, Base, TypeOK, NestedCalls, MutexDiscipline, DispatchHasItem, Critical, Threads

\* A step of any thread respects the types and the mutex.
LEMMA NextBase == Base /\ [Next]_vars => Base'
<1> SUFFICES ASSUME Base, [Next]_vars PROVE Base'
  OBVIOUS
<1> USE ThreadsAssumption DEF Base, Threads
<1>1. ASSUME NEW w \in Workers, WorkerLoop(w) PROVE Base'
  <2>1. TypeOK'
    BY <1>1 DEF WorkerLoop, TypeOK
  <2>2. MutexDiscipline'
    BY <1>1 DEF WorkerLoop, TypeOK, NestedCalls, MutexDiscipline, Critical
  <2>3. DispatchHasItem'
    BY <1>1 DEF WorkerLoop, TypeOK, MutexDiscipline, Critical, DispatchHasItem
  <2>4. NestedCalls'
    BY <1>1 DEF WorkerLoop, TypeOK, NestedCalls
  <2>5. QED
    BY <2>1, <2>2, <2>3, <2>4
<1>2. ASSUME NEW w \in Workers, WorkerLock(w) PROVE Base'
  <2>1. TypeOK'
    BY <1>2 DEF WorkerLock, TypeOK
  <2>2. MutexDiscipline'
    BY <1>2 DEF WorkerLock, TypeOK, NestedCalls, MutexDiscipline, Critical
  <2>3. DispatchHasItem'
    BY <1>2 DEF WorkerLock, TypeOK, MutexDiscipline, Critical, DispatchHasItem
  <2>4. NestedCalls'
    BY <1>2 DEF WorkerLock, TypeOK, NestedCalls
  <2>5. QED
    BY <2>1, <2>2, <2>3, <2>4
<1>3. ASSUME NEW w \in Workers, WorkerTest(w) PROVE Base'
  <2>1. TypeOK'
    BY <1>3 DEF WorkerTest, Ready, TypeOK
  <2>2. MutexDiscipline'
    <3>1. mutex = w
      BY <1>3 DEF WorkerTest, MutexDiscipline, Critical
    <3>2. w # Owner /\ Nobody # Owner /\ \A u \in Threads : Nobody # u
      OBVIOUS
    <3>3. \A u \in Threads \cup {Owner} : u # w => ~Critical(u)
      BY <3>1 DEF MutexDiscipline
    <3>4. CASE Ready
      BY <1>3, <3>4 DEF WorkerTest, TypeOK, NestedCalls, MutexDiscipline, Critical
    <3>5. CASE ~Ready
      <4>1. \A u \in Threads \cup {Owner} : ~Critical(u)'
        BY <1>3, <3>1, <3>2, <3>3, <3>5 DEF WorkerTest, TypeOK, NestedCalls, MutexDiscipline, Critical
      <4>2. QED
        BY <1>3, <3>2, <3>5, <4>1 DEF WorkerTest, MutexDiscipline
    <3>6. QED
      BY <3>4, <3>5
  <2>3. DispatchHasItem'
    BY <1>3 DEF WorkerTest, Ready, TypeOK, MutexDiscipline, Critical, DispatchHasItem
  <2>4. NestedCalls'
    BY <1>3 DEF WorkerTest, TypeOK, NestedCalls
  <2>5. QED
    BY <2>1, <2>2, <2>3, <2>4
<1>4. ASSUME NEW w \in Workers, SpuriousWakeup(w) PROVE Base'
  <2>1. TypeOK'
    BY <1>4 DEF SpuriousWakeup, TypeOK
  <2>2. MutexDiscipline'
    BY <1>4 DEF SpuriousWakeup, TypeOK, NestedCalls, MutexDiscipline, Critical
  <2>3. DispatchHasItem'
    BY <1>4 DEF SpuriousWakeup, TypeOK, MutexDiscipline, Critical, DispatchHasItem
  <2>4. NestedCalls'
    BY <1>4 DEF SpuriousWakeup, TypeOK, NestedCalls
  <2>5. QED
    BY <2>1, <2>2, <2>3, <2>4
<1>5. ASSUME NEW w \in Workers, WorkerBreak(w) PROVE Base'
  <2>1. TypeOK'
    BY <1>5 DEF WorkerBreak, TypeOK
  <2>2. MutexDiscipline'
    <3>1. mutex = w
      BY <1>5 DEF WorkerBreak, MutexDiscipline, Critical
    <3>2. w # Owner /\ Nobody # Owner /\ \A u \in Threads : Nobody # u
      OBVIOUS
    <3>3. \A u \in Threads \cup {Owner} : u # w => ~Critical(u)
      BY <3>1 DEF MutexDiscipline
    <3>4. \A u \in Threads \cup {Owner} : ~Critical(u)'
      BY <1>5, <3>1, <3>2, <3>3 DEF WorkerBreak, TypeOK, NestedCalls, MutexDiscipline, Critical
    <3>5. QED
      BY <1>5, <3>2, <3>4 DEF WorkerBreak, MutexDiscipline
  <2>3. DispatchHasItem'
    BY <1>5 DEF WorkerBreak, TypeOK, MutexDiscipline, Critical, DispatchHasItem
  <2>4. NestedCalls'
    BY <1>5 DEF WorkerBreak, TypeOK, NestedCalls
  <2>5. QED
    BY <2>1, <2>2, <2>3, <2>4
<1>6. ASSUME NEW w \in Workers, WorkerDispatch(w) PROVE Base'
  <2>1. TypeOK'
    <3>1. Workitems \in Seq(Items) /\ Workitems # << >>
      BY <1>6 DEF WorkerDispatch, TypeOK, DispatchHasItem
    <3>2. Head(Workitems) \in Items /\ Tail(Workitems) \in Seq(Items)
      BY <3>1, HeadTailProperties
    <3>3. QED
      BY <1>6, <3>2 DEF WorkerDispatch, TypeOK
  <2>2. MutexDiscipline'
    <3>1. mutex = w
      BY <1>6 DEF WorkerDispatch, MutexDiscipline, Critical
    <3>2. w # Owner /\ Nobody # Owner /\ \A u \in Threads : Nobody # u
      OBVIOUS
    <3>3. \A u \in Threads \cup {Owner} : u # w => ~Critical(u)
      BY <3>1 DEF MutexDiscipline
    <3>4. \A u \in Threads \cup {Owner} : ~Critical(u)'
      BY <1>6, <3>1, <3>2, <3>3 DEF WorkerDispatch, TypeOK, NestedCalls, MutexDiscipline, Critical
    <3>5. QED
      BY <1>6, <3>2, <3>4 DEF WorkerDispatch, MutexDiscipline
  <2>3. DispatchHasItem'
    BY <1>6 DEF WorkerDispatch, TypeOK, MutexDiscipline, Critical, DispatchHasItem
  <2>4. NestedCalls'
    BY <1>6 DEF WorkerDispatch, TypeOK, NestedCalls
  <2>5. QED
    BY <2>1, <2>2, <2>3, <2>4
<1>7. ASSUME NEW w \in Workers, WorkerFinish(w) PROVE Base'
  <2>1. TypeOK'
    BY <1>7 DEF WorkerFinish, TypeOK
  <2>2. MutexDiscipline'
    BY <1>7 DEF WorkerFinish, TypeOK, NestedCalls, MutexDiscipline, Critical
  <2>3. DispatchHasItem'
    BY <1>7 DEF WorkerFinish, TypeOK, MutexDiscipline, Critical, DispatchHasItem
  <2>4. NestedCalls'
    BY <1>7 DEF WorkerFinish, TypeOK, NestedCalls
  <2>5. QED
    BY <2>1, <2>2, <2>3, <2>4
<1>8. ASSUME NEW t \in Threads, EnqueueLock(t) PROVE Base'
  <2>1. TypeOK'
    BY <1>8 DEF EnqueueLock, TypeOK
  <2>2. MutexDiscipline'
    BY <1>8 DEF EnqueueLock, TypeOK, NestedCalls, MutexDiscipline, Critical
  <2>3. DispatchHasItem'
    BY <1>8 DEF EnqueueLock, TypeOK, MutexDiscipline, Critical, DispatchHasItem
  <2>4. NestedCalls'
    BY <1>8 DEF EnqueueLock, MayCall, TypeOK, NestedCalls
  <2>5. QED
    BY <2>1, <2>2, <2>3, <2>4
<1>9. ASSUME NEW t \in Threads, NEW i \in Items \ submitted, EnqueuePush(t, i) PROVE Base'
  <2>1. TypeOK'
    BY <1>9 DEF EnqueuePush, TypeOK
  <2>2. MutexDiscipline'
    <3>1. mutex = t
      BY <1>9 DEF EnqueuePush, MutexDiscipline, Critical
    <3>2. t # Owner /\ Nobody # Owner /\ \A u \in Threads : Nobody # u
      OBVIOUS
    <3>3. \A u \in Threads \cup {Owner} : u # t => ~Critical(u)
      BY <3>1 DEF MutexDiscipline
    <3>4. \A u \in Threads \cup {Owner} : ~Critical(u)'
      BY <1>9, <3>1, <3>2, <3>3 DEF EnqueuePush, TypeOK, NestedCalls, MutexDiscipline, Critical
    <3>5. QED
      BY <1>9, <3>2, <3>4 DEF EnqueuePush, MutexDiscipline
  <2>3. DispatchHasItem'
    BY <1>9 DEF EnqueuePush, TypeOK, MutexDiscipline, Critical, DispatchHasItem
  <2>4. NestedCalls'
    BY <1>9 DEF EnqueuePush, TypeOK, NestedCalls
  <2>5. QED
    BY <2>1, <2>2, <2>3, <2>4
<1>10. ASSUME NEW t \in Threads, EnqueueNotify(t) PROVE Base'
  <2>1. TypeOK'
    BY <1>10 DEF EnqueueNotify, NotifyOne, Waiting, TypeOK
  <2>2. MutexDiscipline'
    BY <1>10 DEF EnqueueNotify, NotifyOne, Waiting, TypeOK, NestedCalls, MutexDiscipline, Critical
  <2>3. DispatchHasItem'
    BY <1>10 DEF EnqueueNotify, NotifyOne, Waiting, TypeOK, MutexDiscipline, Critical, DispatchHasItem
  <2>4. NestedCalls'
    BY <1>10 DEF EnqueueNotify, NotifyOne, Waiting, TypeOK, NestedCalls
  <2>5. QED
    BY <2>1, <2>2, <2>3, <2>4
<1>11. ASSUME DtorLock PROVE Base'
  <2>1. TypeOK'
    BY <1>11 DEF DtorLock, TypeOK
  <2>2. MutexDiscipline'
    BY <1>11 DEF DtorLock, TypeOK, NestedCalls, MutexDiscipline, Critical
  <2>3. DispatchHasItem'
    BY <1>11 DEF DtorLock, TypeOK, MutexDiscipline, Critical, DispatchHasItem
  <2>4. NestedCalls'
    BY <1>11 DEF DtorLock, TypeOK, NestedCalls
  <2>5. QED
    BY <2>1, <2>2, <2>3, <2>4
<1>12. ASSUME DtorClear PROVE Base'
  <2>1. TypeOK'
    BY <1>12 DEF DtorClear, TypeOK
  <2>2. MutexDiscipline'
    BY <1>12 DEF DtorClear, TypeOK, NestedCalls, MutexDiscipline, Critical
  <2>3. DispatchHasItem'
    BY <1>12 DEF DtorClear, TypeOK, MutexDiscipline, Critical, DispatchHasItem
  <2>4. NestedCalls'
    BY <1>12 DEF DtorClear, TypeOK, NestedCalls
  <2>5. QED
    BY <2>1, <2>2, <2>3, <2>4
<1>13. ASSUME DtorNotify PROVE Base'
  <2>1. TypeOK'
    BY <1>13 DEF DtorNotify, Waiting, TypeOK
  <2>2. MutexDiscipline'
    BY <1>13 DEF DtorNotify, Waiting, TypeOK, NestedCalls, MutexDiscipline, Critical
  <2>3. DispatchHasItem'
    BY <1>13 DEF DtorNotify, Waiting, TypeOK, MutexDiscipline, Critical, DispatchHasItem
  <2>4. NestedCalls'
    BY <1>13 DEF DtorNotify, Waiting, TypeOK, NestedCalls
  <2>5. QED
    BY <2>1, <2>2, <2>3, <2>4
<1>14. ASSUME DtorJoin PROVE Base'
  <2>1. TypeOK'
    BY <1>14 DEF DtorJoin, TypeOK
  <2>2. MutexDiscipline'
    BY <1>14 DEF DtorJoin, TypeOK, NestedCalls, MutexDiscipline, Critical
  <2>3. DispatchHasItem'
    BY <1>14 DEF DtorJoin, TypeOK, MutexDiscipline, Critical, DispatchHasItem
  <2>4. NestedCalls'
    BY <1>14 DEF DtorJoin, TypeOK, NestedCalls
  <2>5. QED
    BY <2>1, <2>2, <2>3, <2>4
<1>15. ASSUME UNCHANGED vars PROVE Base'
  <2>1. TypeOK'
    BY <1>15 DEF vars, TypeOK
  <2>2. MutexDiscipline'
    BY <1>15 DEF vars, TypeOK, NestedCalls, MutexDiscipline, Critical
  <2>3. DispatchHasItem'
    BY <1>15 DEF vars, TypeOK, MutexDiscipline, Critical, DispatchHasItem
  <2>4. NestedCalls'
    BY <1>15 DEF vars, TypeOK, NestedCalls
  <2>5. QED
    BY <2>1, <2>2, <2>3, <2>4
<1>16. QED
  BY <1>1, <1>2, <1>3, <1>4, <1>5, <1>6, <1>7, <1>8, <1>9, <1>10, <1>11,
     <1>12, <1>13, <1>14, <1>15
     DEF Next, WorkerStep, EnqueueStep, Destroyed

(* The types and the mutex hold in every reachable state, and no worker    *)
(* calls front() on an empty deque.                                        *)
THEOREM TypeAndMutexCorrect == Spec => [](TypeOK /\ MutexDiscipline)
<1>1. Base => TypeOK /\ MutexDiscipline
  BY DEF Base
<1>2. QED
  BY <1>1, InitBase, NextBase, PTL DEF Spec, Safety

(* A worker that dequeues finds an item: what woke it, and who emptied the *)
(* deque before it got the mutex back, do not matter.                      *)
THEOREM DispatchSafe == Spec => []DispatchHasItem
<1>1. Base => DispatchHasItem
  BY DEF Base
<1>2. QED
  BY <1>1, InitBase, NextBase, PTL DEF Spec, Safety

-----------------------------------------------------------------------------
(* No lost wakeup *)

\* Threads are finitely many, so that those awake can be counted.
LEMMA Finite ==
  /\ IsFiniteSet(Coming) /\ IsFiniteSet(Notifying)
  /\ Cardinality(Coming) \in Nat /\ Cardinality(Notifying) \in Nat
<1>1. IsFiniteSet(Threads)
  BY ThreadsAssumption, FS_Union DEF Threads
<1>2. Coming \subseteq Workers /\ Notifying \subseteq Threads
  BY DEF Coming, Notifying
<1>3. QED
  BY <1>1, <1>2, ThreadsAssumption, FS_Subset, FS_CardinalityType

\* The same in the next state.
LEMMA FinitePrimed ==
  Cardinality(Coming') \in Nat /\ Cardinality(Notifying') \in Nat
<1>1. IsFiniteSet(Threads)
  BY ThreadsAssumption, FS_Union DEF Threads
<1>2. Coming' \subseteq Workers /\ Notifying' \subseteq Threads
  BY DEF Coming, Notifying
<1>3. QED
  BY <1>1, <1>2, ThreadsAssumption, FS_Subset, FS_CardinalityType

\* No worker is blocked at first.
LEMMA InitBacklog == Init => NoIdleWorkerWhileBacklog
  BY DEF Init, NoIdleWorkerWhileBacklog, Waiting

\* A step that neither adds items nor puts anyone to sleep keeps the balance.
LEMMA SameBalance ==
  ASSUME NoIdleWorkerWhileBacklog, Base,
         WorkerContinue' => WorkerContinue,
         Waiting' = Waiting, Coming' = Coming, Notifying' = Notifying,
         Workitems' = Workitems
  PROVE  NoIdleWorkerWhileBacklog'
  BY DEF NoIdleWorkerWhileBacklog

\* Only a notification on its way, or a worker awake, pays for a new item.
LEMMA NextBacklog ==
  Base /\ NoIdleWorkerWhileBacklog /\ [Next]_vars => NoIdleWorkerWhileBacklog'
<1> SUFFICES ASSUME Base, NoIdleWorkerWhileBacklog, [Next]_vars
             PROVE  NoIdleWorkerWhileBacklog'
  OBVIOUS
<1> USE DEF NoIdleWorkerWhileBacklog
<1>0. /\ TypeOK /\ NestedCalls /\ DispatchHasItem
      /\ Len(Workitems) \in Nat
  BY DEF Base, TypeOK
<1>1. ASSUME NEW w \in Workers, WorkerLoop(w) PROVE NoIdleWorkerWhileBacklog'
  BY <1>1, <1>0, SameBalance DEF WorkerLoop, TypeOK, Waiting, Coming, Notifying
<1>2. ASSUME NEW w \in Workers, WorkerLock(w) PROVE NoIdleWorkerWhileBacklog'
  BY <1>2, <1>0, SameBalance DEF WorkerLock, TypeOK, Waiting, Coming, Notifying
<1>3. ASSUME NEW w \in Workers, WorkerTest(w) PROVE NoIdleWorkerWhileBacklog'
  <2>1. CASE Ready
    BY <1>3, <1>0, <2>1, SameBalance
       DEF WorkerTest, TypeOK, Waiting, Coming, Notifying
  <2>2. CASE ~Ready
    <3>1. WorkerContinue' => Workitems' = << >>
      BY <1>3, <2>2 DEF WorkerTest, Ready
    <3>2. Cardinality(Coming') \in Nat /\ Cardinality(Notifying') \in Nat
      BY FinitePrimed
    <3>3. QED
      BY <3>1, <3>2
  <2>3. QED
    BY <2>1, <2>2
<1>4. ASSUME NEW w \in Workers, SpuriousWakeup(w)
      PROVE  NoIdleWorkerWhileBacklog'
  <2>1. /\ Coming' = Coming \cup {w} /\ w \notin Coming
        /\ Waiting' \subseteq Waiting /\ Notifying' = Notifying
        /\ Workitems' = Workitems /\ WorkerContinue' = WorkerContinue
    BY <1>4, <1>0 DEF SpuriousWakeup, TypeOK, Waiting, Coming, Notifying
  <2>2. Cardinality(Coming') = Cardinality(Coming) + 1
    BY <2>1, Finite, FS_AddElement
  <2>3. QED
    BY <2>1, <2>2, <1>0, Finite
<1>5. ASSUME NEW w \in Workers, WorkerBreak(w) PROVE NoIdleWorkerWhileBacklog'
  BY <1>5 DEF WorkerBreak
<1>6. ASSUME NEW w \in Workers, WorkerDispatch(w)
      PROVE  NoIdleWorkerWhileBacklog'
  <2>1. /\ Coming' = Coming \ {w} /\ w \in Coming
        /\ Waiting' = Waiting /\ Notifying' = Notifying
        /\ WorkerContinue' = WorkerContinue /\ WorkerContinue
    BY <1>6, <1>0 DEF WorkerDispatch, TypeOK, Waiting, Coming, Notifying
  <2>2. Workitems \in Seq(Items) /\ Workitems # << >>
    BY <1>6, <1>0 DEF WorkerDispatch, DispatchHasItem, TypeOK
  <2>3. Len(Workitems') = Len(Workitems) - 1
    BY <1>6, <2>2, HeadTailProperties DEF WorkerDispatch
  <2>4. Cardinality(Coming') = Cardinality(Coming) - 1
    BY <2>1, Finite, FS_RemoveElement
  <2>5. QED
    BY <2>1, <2>3, <2>4, <1>0, Finite
<1>7. ASSUME NEW w \in Workers, WorkerFinish(w) PROVE NoIdleWorkerWhileBacklog'
  <2>1. /\ Coming' = Coming \cup {w} /\ w \notin Coming
        /\ Waiting' = Waiting /\ Notifying' = Notifying
        /\ Workitems' = Workitems /\ WorkerContinue' = WorkerContinue
    BY <1>7, <1>0 DEF WorkerFinish, TypeOK, Waiting, Coming, Notifying
  <2>2. Cardinality(Coming') = Cardinality(Coming) + 1
    BY <2>1, Finite, FS_AddElement
  <2>3. QED
    BY <2>1, <2>2, <1>0, Finite
<1>8. ASSUME NEW t \in Threads, EnqueueLock(t) PROVE NoIdleWorkerWhileBacklog'
  BY <1>8, <1>0, SameBalance DEF EnqueueLock, TypeOK, Waiting, Coming, Notifying
<1>9. ASSUME NEW t \in Threads, NEW i \in Items \ submitted, EnqueuePush(t, i)
      PROVE  NoIdleWorkerWhileBacklog'
  <2>1. /\ Coming' = Coming /\ Waiting' = Waiting
        /\ Notifying' = Notifying \cup {t} /\ t \notin Notifying
        /\ WorkerContinue' = WorkerContinue
    BY <1>9, <1>0 DEF EnqueuePush, TypeOK, Waiting, Coming, Notifying
  <2>2. Cardinality(Notifying') = Cardinality(Notifying) + 1
    BY <2>1, Finite, FS_AddElement
  <2>3. Len(Workitems') = Len(Workitems) + 1
    BY <1>9, <1>0 DEF EnqueuePush, TypeOK
  <2>4. QED
    BY <2>1, <2>2, <2>3, <1>0, Finite
<1>10. ASSUME NEW t \in Threads, EnqueueNotify(t)
       PROVE  NoIdleWorkerWhileBacklog'
  <2>1. /\ Notifying' = Notifying \ {t} /\ t \in Notifying
        /\ Workitems' = Workitems /\ WorkerContinue' = WorkerContinue
    BY <1>10, <1>0 DEF EnqueueNotify, TypeOK, Notifying
  <2>2. Cardinality(Notifying') = Cardinality(Notifying) - 1
    BY <2>1, Finite, FS_RemoveElement
  <2>3. CASE Waiting = {}
    BY <1>10, <2>3 DEF EnqueueNotify, NotifyOne, Waiting
  <2>4. ASSUME NEW w \in Waiting, pc' = [pc EXCEPT ![w] = "lock"]
        PROVE  NoIdleWorkerWhileBacklog'
    <3>1. Coming' = Coming \cup {w} /\ w \notin Coming /\ Waiting # {}
      BY <2>4, <1>0 DEF TypeOK, Waiting, Coming
    <3>2. Cardinality(Coming') = Cardinality(Coming) + 1
      BY <3>1, Finite, FS_AddElement
    <3>3. QED
      BY <2>1, <2>2, <3>1, <3>2, <1>0, Finite
  <2>5. QED
    BY <1>10, <2>3, <2>4 DEF EnqueueNotify, NotifyOne
<1>11. CASE DtorLock
  BY <1>11, <1>0, SameBalance DEF DtorLock, TypeOK, Waiting, Coming, Notifying
<1>12. CASE DtorClear
  BY <1>12 DEF DtorClear
<1>13. CASE DtorNotify
  BY <1>13 DEF DtorNotify, Waiting
<1>14. CASE DtorJoin
  BY <1>14, <1>0, SameBalance DEF DtorJoin, TypeOK, Waiting, Coming, Notifying
<1>15. CASE UNCHANGED vars
  BY <1>15, <1>0, SameBalance DEF vars, Waiting, Coming, Notifying
<1>16. QED
  BY <1>1, <1>2, <1>3, <1>4, <1>5, <1>6, <1>7, <1>8, <1>9, <1>10, <1>11,
     <1>12, <1>13, <1>14, <1>15
     DEF Next, WorkerStep, EnqueueStep, Destroyed

(* No wakeup is lost: a blocked worker means that every item in the deque  *)
(* has a notification of its own or a worker that comes for it, one that   *)
(* is not inside another item.                                             *)
THEOREM NoLostWakeup == Spec => []NoIdleWorkerWhileBacklog
  BY InitBase, NextBase, InitBacklog, NextBacklog, PTL DEF Spec, Safety

-----------------------------------------------------------------------------
(* The destructor *)

\* From the release of the mutex on the workers are told to stop; from
\* notify_all on none sleeps, and after the joins none is left.
Stopping ==
  /\ dtor \in {"notify", "join", "destroyed"} => ~WorkerContinue
  /\ dtor \in {"join", "destroyed"} => Waiting = {}
  /\ dtor = "destroyed" => \A w \in Workers : pc[w] = "exit"

LEMMA InitStopping == Init => Stopping
  BY DEF Init, Stopping

\* A worker that tests its predicate after the notification does not go to
\* sleep again: it holds the mutex under which WorkerContinue was cleared.
LEMMA NextStopping == Base /\ Stopping /\ [Next]_vars => Stopping'
<1> SUFFICES ASSUME Base, Stopping, [Next]_vars PROVE Stopping'
  OBVIOUS
<1> USE DEF Stopping, Waiting
<1>1. /\ pc \in [Workers -> {"loop", "lock", "test", "wait", "dispatch", "run", "exit"}]
      /\ WorkerContinue \in BOOLEAN
      /\ dtor \in {"alive", "clear", "notify", "join", "destroyed"}
  BY DEF Base, TypeOK
<1>2. ASSUME NEW w \in Workers, pc[w] # "exit",
             UNCHANGED <<WorkerContinue, dtor>>,
             \E label \in {"loop", "lock", "test", "dispatch", "run", "exit"} : pc' = [pc EXCEPT ![w] = label]
      PROVE  Stopping'
  BY <1>1, <1>2
<1>3. ASSUME NEW w \in Workers, WorkerLoop(w) PROVE Stopping'
  BY <1>2, <1>3 DEF WorkerLoop
<1>4. ASSUME NEW w \in Workers, WorkerLock(w) PROVE Stopping'
  BY <1>2, <1>4 DEF WorkerLock
<1>5. ASSUME NEW w \in Workers, WorkerTest(w) PROVE Stopping'
  <2>1. CASE Ready
    BY <1>2, <1>5, <2>1 DEF WorkerTest
  <2>2. CASE ~Ready
    <3>1. WorkerContinue /\ UNCHANGED <<WorkerContinue, dtor>>
      BY <1>1, <1>5, <2>2 DEF WorkerTest, Ready
    <3>2. QED
      BY <1>1, <3>1
  <2>3. QED
    BY <2>1, <2>2
<1>6. ASSUME NEW w \in Workers, SpuriousWakeup(w) PROVE Stopping'
  BY <1>2, <1>6 DEF SpuriousWakeup
<1>7. ASSUME NEW w \in Workers, WorkerBreak(w) PROVE Stopping'
  BY <1>2, <1>7 DEF WorkerBreak
<1>8. ASSUME NEW w \in Workers, WorkerDispatch(w) PROVE Stopping'
  BY <1>2, <1>8 DEF WorkerDispatch
<1>9. ASSUME NEW w \in Workers, WorkerFinish(w) PROVE Stopping'
  BY <1>2, <1>9 DEF WorkerFinish
<1>10. ASSUME NEW t \in Threads, EnqueueLock(t) \/ \E i \in Items \ submitted : EnqueuePush(t, i)
       PROVE  Stopping'
  BY <1>10 DEF EnqueueLock, EnqueuePush
<1>11. ASSUME NEW t \in Threads, EnqueueNotify(t) PROVE Stopping'
  <2>1. UNCHANGED <<WorkerContinue, dtor>>
    BY <1>11 DEF EnqueueNotify
  <2>2. CASE UNCHANGED pc
    BY <2>1, <2>2
  <2>3. ASSUME NEW w \in Waiting, pc' = [pc EXCEPT ![w] = "lock"] PROVE Stopping'
    BY <1>2, <2>1, <2>3
  <2>4. QED
    BY <1>11, <2>2, <2>3 DEF EnqueueNotify, NotifyOne
<1>12. CASE DtorLock \/ DtorClear
  BY <1>12 DEF DtorLock, DtorClear
<1>13. CASE DtorNotify
  BY <1>1, <1>13 DEF DtorNotify
<1>14. CASE DtorJoin
  BY <1>14 DEF DtorJoin
<1>15. CASE UNCHANGED vars
  BY <1>15 DEF vars
<1>16. QED
  BY <1>3, <1>4, <1>5, <1>6, <1>7, <1>8, <1>9, <1>10, <1>11, <1>12, <1>13, <1>14, <1>15
     DEF Next, WorkerStep, EnqueueStep, Destroyed

(* The destructor never joins a sleeping thread: once notify_all has been  *)
(* called no worker is blocked in Cv.wait, or ever will be, although       *)
(* WorkerContinue is cleared and the notification sent in two steps, and   *)
(* between them workers test, sleep and wake.  The memory of the pool is   *)
(* given up with every thread out of its loop and nobody in Enqueue.       *)
JoinsNoSleeper ==
  /\ dtor \in {"join", "destroyed"} => ~WorkerContinue /\ Waiting = {}
  /\ dtor = "destroyed" => \A w \in Workers : pc[w] = "exit" /\ call[w] = "none"

THEOREM JoinReturns == Spec => []JoinsNoSleeper
<1>1. Base /\ Stopping => JoinsNoSleeper
  BY DEF Base, NestedCalls, Stopping, JoinsNoSleeper
<1>2. QED
  BY <1>1, InitBase, NextBase, InitStopping, NextStopping, PTL DEF Spec, Safety

-----------------------------------------------------------------------------
(* Refinement *)

\* An empty deque and idle workers are an empty work queue.
LEMMA InitWQ == Init => WQ!Init
  BY DEF Init, WQ!Init

\* Every step of the pool is a step of the work queue or leaves it alone.
LEMMA NextWQ == Base /\ [Next]_vars => [WQ!Next]_(WQ!vars)
<1> SUFFICES ASSUME Base, [Next]_vars PROVE [WQ!Next]_(WQ!vars)
  OBVIOUS
<1> USE DEF WQ!vars
<1>1. ASSUME NEW w \in Workers, WorkerDispatch(w) PROVE WQ!Next
  <2>1. WQ!Start(w)
    BY <1>1 DEF WorkerDispatch, WQ!Start, Base, TypeOK, DispatchHasItem
  <2>2. QED
    BY <2>1 DEF WQ!Next
<1>2. ASSUME NEW w \in Workers, WorkerFinish(w) PROVE WQ!Next
  <2>1. WQ!Finish(w)
    BY <1>2 DEF WorkerFinish, WQ!Finish, Base, TypeOK
  <2>2. QED
    BY <2>1 DEF WQ!Next
<1>3. ASSUME NEW t \in Threads, NEW i \in Items \ submitted, EnqueuePush(t, i)
      PROVE  WQ!Next
  BY <1>3 DEF EnqueuePush, WQ!Next, WQ!Submit
<1>4. CASE DtorClear
  <2>1. CASE WorkerContinue
    BY <1>4, <2>1 DEF DtorClear, WQ!Next, WQ!Stop
  <2>2. CASE ~WorkerContinue
    BY <1>4, <2>2 DEF DtorClear, Base, TypeOK
  <2>3. QED
    BY <2>1, <2>2
<1>5. ASSUME UNCHANGED <<Workitems, item, WorkerContinue>>
      PROVE  UNCHANGED WQ!vars
  BY <1>5
<1>6. QED
  BY <1>1, <1>2, <1>3, <1>4, <1>5
     DEF Next, WorkerStep, EnqueueStep, WorkerLoop, WorkerLock, WorkerTest,
         SpuriousWakeup, WorkerBreak, EnqueueLock, EnqueueNotify, DtorLock,
         DtorNotify, DtorJoin, Destroyed, vars

(* The safety part of the refinement: for any sets of threads and items,   *)
(* what the pool does to its deque is what a work queue may do.            *)
THEOREM ThreadpoolImplementsWorkQueue == Spec => WQ!Safety
  BY InitBase, NextBase, InitWQ, NextWQ, PTL DEF Spec, Safety, WQ!Safety

==============================================================================
