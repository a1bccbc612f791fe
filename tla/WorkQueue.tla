------------------------------ MODULE WorkQueue ------------------------------
(***************************************************************************)
(* What a Threadpool (threadpool.h) promises to the code that uses it: a   *)
(* queue of work items that the pool's threads start in the order they     *)
(* were submitted, each item started by one thread, no item started once   *)
(* the pool is being destroyed.  The mutex, the condition variable and the *)
(* threads' loops are in module Threadpool, which implements this module;  *)
(* FileSend uses this module as its single-threaded pool.                  *)
(***************************************************************************)
EXTENDS Sequences

CONSTANTS
  Workers,   \* the threads of the pool
  Items,     \* the callables that may be submitted
  Idle       \* what a thread that runs no item holds

VARIABLES
  queue,     \* submitted and not started, oldest first
  running,   \* the item each thread runs, or Idle
  stopped    \* the destructor has told the threads to leave

vars == <<queue, running, stopped>>

Init ==
  /\ queue = << >>
  /\ running = [w \in Workers |-> Idle]
  /\ stopped = FALSE

Submit(i) ==
  /\ queue' = Append(queue, i)
  /\ running' = running /\ stopped' = stopped

Start(w) ==
  /\ ~stopped
  /\ running[w] = Idle
  /\ queue # << >>
  /\ running' = [running EXCEPT ![w] = Head(queue)]
  /\ queue' = Tail(queue)
  /\ stopped' = stopped

Finish(w) ==
  /\ running[w] # Idle
  /\ running' = [running EXCEPT ![w] = Idle]
  /\ queue' = queue /\ stopped' = stopped

Stop ==
  /\ ~stopped
  /\ stopped' = TRUE
  /\ UNCHANGED <<queue, running>>

Next ==
  \/ \E i \in Items : Submit(i)
  \/ \E w \in Workers : Start(w) \/ Finish(w)
  \/ Stop

\* The safety part of the promise.
Safety == Init /\ [][Next]_vars

\* An item that can be started is started: no submission is forgotten.
Spec ==
  /\ Safety
  /\ WF_vars(\E w \in Workers : Start(w))
  /\ \A w \in Workers : WF_vars(Finish(w))

==============================================================================
