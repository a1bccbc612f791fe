----------------------------- MODULE Threadpool ------------------------------
(***************************************************************************)
(* struct Threadpool of threadpool.h: a deque of callables guarded by one  *)
(* mutex and one condition variable, worker threads that loop on it,       *)
(* Enqueue, and the destructor that stops and joins the workers.           *)
(*                                                                         *)
(* Grain of atomicity: one action per region the mutex or a single shared  *)
(* access delimits.  "while (WorkerContinue)" is read without the mutex,   *)
(* notify_one and notify_all are called after it is released, and a        *)
(* condition variable may wake a thread for no reason.                     *)
(***************************************************************************)
EXTENDS Sequences, Naturals, FiniteSets

CONSTANTS
  Workers,    \* the ThreadCount threads the constructor starts
  Callers,    \* threads outside the pool that call Enqueue
  Owner,      \* the thread that runs the destructor
  Items,      \* the work items; each is enqueued at most once
  NoItem,     \* "no work item"
  Nobody      \* the mutex is free

Threads == Workers \cup Callers

ASSUME ThreadsAssumption ==
  /\ IsFiniteSet(Workers) /\ IsFiniteSet(Callers)
  /\ Workers \cap Callers = {}
  /\ Owner \notin Threads
  /\ Nobody \notin Threads \cup {Owner}
  /\ NoItem \notin Items

VARIABLES
  Workitems,       \* std::deque<std::function<void()>>
  WorkerContinue,  \* bool
  mutex,           \* the thread that holds Mutex, or Nobody
  pc,              \* where each worker is in ThreadpoolWorker
  item,            \* the Workitem local of each worker, while it runs
  call,            \* where each thread is in a call of Enqueue
  dtor,            \* where the owner is in ~Threadpool
  submitted        \* history: the items Enqueue has been given

vars == <<Workitems, WorkerContinue, mutex, pc, item, call, dtor, submitted>>

Waiting == {w \in Workers : pc[w] = "wait"}   \* blocked in Cv.wait

TypeOK ==
  /\ Workitems \in Seq(Items)
  /\ WorkerContinue \in BOOLEAN
  /\ mutex \in Threads \cup {Owner, Nobody}
  /\ pc \in [Workers -> {"loop", "lock", "test", "wait", "dispatch", "run", "exit"}]
  /\ item \in [Workers -> Items \cup {NoItem}]
  /\ call \in [Threads -> {"none", "push", "notify"}]
  /\ dtor \in {"alive", "clear", "notify", "join", "destroyed"}
  /\ submitted \in SUBSET Items
  /\ \A w \in Workers : item[w] = NoItem <=> pc[w] # "run"

\* The constructor sets WorkerContinue before it starts the threads.
Init ==
  /\ Workitems = << >>
  /\ WorkerContinue = TRUE
  /\ mutex = Nobody
  /\ pc = [w \in Workers |-> "loop"]
  /\ item = [w \in Workers |-> NoItem]
  /\ call = [t \in Threads |-> "none"]
  /\ dtor = "alive"
  /\ submitted = {}

-----------------------------------------------------------------------------
(* ThreadpoolWorker *)

\* while (WorkerContinue): read without the mutex.
WorkerLoop(w) ==
  /\ pc[w] = "loop"
  /\ pc' = [pc EXCEPT ![w] = IF WorkerContinue THEN "lock" ELSE "exit"]
  /\ UNCHANGED <<Workitems, WorkerContinue, mutex, item, call, dtor, submitted>>

\* The unique_lock, and the re-acquisition when Cv.wait returns.
WorkerLock(w) ==
  /\ pc[w] = "lock"
  /\ mutex = Nobody
  /\ mutex' = w
  /\ pc' = [pc EXCEPT ![w] = "test"]
  /\ UNCHANGED <<Workitems, WorkerContinue, item, call, dtor, submitted>>

\* A bug: Cv.wait without a predicate, which returns on any wakeup.
ReadyAlways == TRUE

\* The predicate given to Cv.wait.
Ready == Workitems # << >> \/ ~WorkerContinue

\* Cv.wait evaluates its predicate with the mutex held, and when it is false
\* releases the mutex and blocks in one step.
WorkerTest(w) ==
  /\ pc[w] = "test"
  /\ \/ /\ Ready
        /\ pc' = [pc EXCEPT ![w] = "dispatch"]
        /\ UNCHANGED mutex
     \/ /\ ~Ready
        /\ pc' = [pc EXCEPT ![w] = "wait"]
        /\ mutex' = Nobody
  /\ UNCHANGED <<Workitems, WorkerContinue, item, call, dtor, submitted>>

\* A condition variable may return without a notification.
SpuriousWakeup(w) ==
  /\ pc[w] = "wait"
  /\ pc' = [pc EXCEPT ![w] = "lock"]
  /\ UNCHANGED <<Workitems, WorkerContinue, mutex, item, call, dtor, submitted>>

\* if (!WorkerContinue) break: the lock's destructor releases the mutex.
WorkerBreak(w) ==
  /\ pc[w] = "dispatch"
  /\ ~WorkerContinue
  /\ mutex' = Nobody
  /\ pc' = [pc EXCEPT ![w] = "exit"]
  /\ UNCHANGED <<Workitems, WorkerContinue, item, call, dtor, submitted>>

\* A bug: the item at the back of the deque is taken.
WorkerDispatchBack(w) ==
  /\ pc[w] = "dispatch"
  /\ WorkerContinue
  /\ item' = [item EXCEPT ![w] = Workitems[Len(Workitems)]]
  /\ Workitems' = SubSeq(Workitems, 1, Len(Workitems) - 1)
  /\ mutex' = Nobody
  /\ pc' = [pc EXCEPT ![w] = "run"]
  /\ UNCHANGED <<WorkerContinue, call, dtor, submitted>>

\* front, pop_front, unlock.
WorkerDispatch(w) ==
  /\ pc[w] = "dispatch"
  /\ WorkerContinue
  /\ item' = [item EXCEPT ![w] = Head(Workitems)]
  /\ Workitems' = Tail(Workitems)
  /\ mutex' = Nobody
  /\ pc' = [pc EXCEPT ![w] = "run"]
  /\ UNCHANGED <<WorkerContinue, call, dtor, submitted>>

\* Workitem() returns, outside the mutex, and the loop goes round.
WorkerFinish(w) ==
  /\ pc[w] = "run"
  /\ call[w] = "none"
  /\ pc' = [pc EXCEPT ![w] = "loop"]
  /\ item' = [item EXCEPT ![w] = NoItem]
  /\ UNCHANGED <<Workitems, WorkerContinue, mutex, call, dtor, submitted>>

-----------------------------------------------------------------------------
(* Enqueue, called from outside while the pool is alive, or from a work    *)
(* item, as QsyncClient's FileIoWorker does.  The owner destroys the pool  *)
(* only after the connection and its callbacks are gone, so no outside     *)
(* call overlaps the destructor (members are destroyed in reverse order of *)
(* their declaration); a work item may.                                    *)

MayCall(t) == IF t \in Workers THEN pc[t] = "run" ELSE dtor = "alive"

EnqueueLock(t) ==
  /\ call[t] = "none"
  /\ MayCall(t)
  /\ submitted # Items
  /\ mutex = Nobody
  /\ mutex' = t
  /\ call' = [call EXCEPT ![t] = "push"]
  /\ UNCHANGED <<Workitems, WorkerContinue, pc, item, dtor, submitted>>

\* A bug: the notification is sent only when the deque was empty.
EnqueuePushQuiet(t, i) ==
  /\ call[t] = "push"
  /\ Workitems' = Append(Workitems, i)
  /\ submitted' = submitted \cup {i}
  /\ mutex' = Nobody
  /\ call' = [call EXCEPT ![t] = IF Workitems = << >> THEN "notify" ELSE "none"]
  /\ UNCHANGED <<WorkerContinue, pc, item, dtor>>

EnqueuePush(t, i) ==
  /\ call[t] = "push"
  /\ Workitems' = Append(Workitems, i)
  /\ submitted' = submitted \cup {i}
  /\ mutex' = Nobody
  /\ call' = [call EXCEPT ![t] = "notify"]
  /\ UNCHANGED <<WorkerContinue, pc, item, dtor>>

\* Cv.notify_one: wakes one blocked worker when there is one.
NotifyOne ==
  \/ \E w \in Waiting : pc' = [pc EXCEPT ![w] = "lock"]
  \/ Waiting = {} /\ UNCHANGED pc

EnqueueNotify(t) ==
  /\ call[t] = "notify"
  /\ NotifyOne
  /\ call' = [call EXCEPT ![t] = "none"]
  /\ UNCHANGED <<Workitems, WorkerContinue, mutex, item, dtor, submitted>>

-----------------------------------------------------------------------------
(* ~Threadpool *)

DtorLock ==
  /\ dtor = "alive"
  /\ \A c \in Callers : call[c] = "none"
  /\ mutex = Nobody
  /\ mutex' = Owner
  /\ dtor' = "clear"
  /\ UNCHANGED <<Workitems, WorkerContinue, pc, item, call, submitted>>

DtorClear ==
  /\ dtor = "clear"
  /\ WorkerContinue' = FALSE
  /\ mutex' = Nobody
  /\ dtor' = "notify"
  /\ UNCHANGED <<Workitems, pc, item, call, submitted>>

\* A bug: the destructor wakes one worker and joins them all.
DtorNotifyOne ==
  /\ dtor = "notify"
  /\ NotifyOne
  /\ dtor' = "join"
  /\ UNCHANGED <<Workitems, WorkerContinue, mutex, item, call, submitted>>

\* Cv.notify_all.
DtorNotify ==
  /\ dtor = "notify"
  /\ pc' = [w \in Workers |-> IF w \in Waiting THEN "lock" ELSE pc[w]]
  /\ dtor' = "join"
  /\ UNCHANGED <<Workitems, WorkerContinue, mutex, item, call, submitted>>

\* Thread.join() of every worker; what is left in the deque is destroyed.
DtorJoin ==
  /\ dtor = "join"
  /\ \A w \in Workers : pc[w] = "exit"
  /\ dtor' = "destroyed"
  /\ UNCHANGED <<Workitems, WorkerContinue, mutex, pc, item, call, submitted>>

\* The pool is gone: nothing more happens.
Destroyed == dtor = "destroyed" /\ UNCHANGED vars

-----------------------------------------------------------------------------

\* What a worker does by itself, once it is scheduled and not blocked.
WorkerStep(w) ==
  \/ WorkerLoop(w) \/ WorkerTest(w) \/ WorkerBreak(w)
  \/ WorkerDispatch(w) \/ WorkerFinish(w)

EnqueueStep(t) ==
  \/ \E i \in Items \ submitted : EnqueuePush(t, i)
  \/ EnqueueNotify(t)

Next ==
  \/ \E w \in Workers : WorkerStep(w) \/ WorkerLock(w) \/ SpuriousWakeup(w)
  \/ \E t \in Threads : EnqueueLock(t) \/ EnqueueStep(t)
  \/ DtorLock \/ DtorClear \/ DtorNotify \/ DtorJoin
  \/ Destroyed

(* Fairness: the threads are scheduled, work items return, and a thread    *)
(* that finds the mutex free again and again gets it at last.  Nobody is   *)
(* obliged to call Enqueue or the destructor, and no wakeup is owed but    *)
(* those a notification brings.                                            *)
Fairness ==
  /\ \A w \in Workers : WF_vars(WorkerStep(w)) /\ SF_vars(WorkerLock(w))
  /\ \A t \in Threads : WF_vars(EnqueueStep(t))
  /\ WF_vars(DtorClear \/ DtorNotify \/ DtorJoin)

Safety == Init /\ [][Next]_vars
Spec == Safety /\ Fairness

-----------------------------------------------------------------------------
(* Properties *)

\* The workers on their way to the deque: neither blocked nor inside an item,
\* each tests the predicate of Cv.wait before it sleeps again.
Coming == {w \in Workers : pc[w] \in {"loop", "lock", "test", "dispatch"}}
Notifying == {t \in Threads : call[t] = "notify"}

\* A thread is between taking Mutex and releasing it.
Critical(t) ==
  \/ t \in Workers /\ pc[t] \in {"test", "dispatch"}
  \/ t \in Threads /\ call[t] = "push"
  \/ t = Owner /\ dtor = "clear"

(* Mutual exclusion: the thread in a critical section is the holder of     *)
(* Mutex, so the deque and WorkerContinue have one writer at a time.       *)
MutexDiscipline ==
  \A t \in Threads \cup {Owner} : Critical(t) <=> mutex = t

\* A worker calls Enqueue only from inside a work item.
NestedCalls == \A w \in Workers : call[w] # "none" => pc[w] = "run"

(* A worker that is about to call Workitems.front() finds an item there    *)
(* (front() of an empty deque is undefined), whatever woke it and whoever  *)
(* emptied the deque between its wakeup and its re-acquisition of Mutex.   *)
DispatchHasItem ==
  \A w \in Workers :
    pc[w] = "dispatch" => Workitems # << >> \/ ~WorkerContinue

(* No lost wakeup, although notify_one is called after Mutex is released:  *)
(* while a worker is blocked in Cv.wait, there are no more items in the    *)
(* deque than workers coming to it and notifications on their way.  A      *)
(* worker inside an item counts for none, so a long item never holds up a  *)
(* queue that an idle thread could serve.                                  *)
NoIdleWorkerWhileBacklog ==
  WorkerContinue /\ Waiting # {}
    => Len(Workitems) <= Cardinality(Coming) + Cardinality(Notifying)

(* The destructor returns: once called, every worker sees WorkerContinue   *)
(* or is woken by notify_all, and is joined.                               *)
DestructorReturns == dtor # "alive" ~> dtor = "destroyed"

(* The pool is a work queue: items start once each, in the order they were *)
(* enqueued, none after the destructor cleared WorkerContinue, and an item *)
(* that a thread could start is started.                                   *)
WQ == INSTANCE WorkQueue WITH
        Idle <- NoItem, queue <- Workitems, running <- item,
        stopped <- ~WorkerContinue

ImplementsWorkQueue == WQ!Spec

=============================================================================
