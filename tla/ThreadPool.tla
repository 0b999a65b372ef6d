----------------------------- MODULE ThreadPool -----------------------------
(***************************************************************************)
(* xconn::ThreadPool: the workers, the queue under queue_mutex_, the       *)
(* condition variable, enqueue, and the destructor, which sets stop_ and   *)
(* notifies without the mutex.  Session enqueues from one thread, its      *)
(* receive thread, and destroys the pool after that thread has returned.   *)
(***************************************************************************)
EXTENDS Naturals, Sequences, FiniteSets

CONSTANTS
  Workers,   \* the worker threads
  MaxTasks,  \* bound on the tasks enqueued
  None       \* no task, no thread

ASSUME WorkersAssumption == IsFiniteSet(Workers) /\ Workers # {} /\ None \notin Workers
ASSUME TasksAssumption == MaxTasks \in Nat /\ None \notin Nat

VARIABLES
  tasks,      \* tasks_; the n-th task ever enqueued is n
  mutex,      \* the worker that holds queue_mutex_ between two steps, or None
  worker,     \* where each worker is in its loop
  hand,       \* the task a worker has taken
  producer,   \* the receive thread in enqueue: "idle", "notify" (pushed)
  enqueued,   \* how many tasks were enqueued
  stop,       \* stop_
  destroyer   \* ~ThreadPool: "none", "notify", "join", "gone"

vars == <<tasks, mutex, worker, hand, producer, enqueued, stop, destroyer>>

Places == {"lock", "check", "block", "waiting", "run", "exited"}

TypeOK ==
  /\ tasks \in Seq(1..MaxTasks)
  /\ mutex \in Workers \cup {None}
  /\ worker \in [Workers -> Places]
  /\ hand \in [Workers -> (1..MaxTasks) \cup {None}]
  /\ producer \in {"idle", "notify"}
  /\ enqueued \in 0..MaxTasks
  /\ stop \in BOOLEAN
  /\ destroyer \in {"none", "notify", "join", "gone"}

Init ==
  /\ tasks = <<>> /\ mutex = None
  /\ worker = [w \in Workers |-> "lock"] /\ hand = [w \in Workers |-> None]
  /\ producer = "idle" /\ enqueued = 0
  /\ stop = FALSE /\ destroyer = "none"

-----------------------------------------------------------------------------
(* A worker: lock, then condition_.wait with its predicate.                *)

WorkerMoves(w, from, to) ==
  /\ worker[w] = from
  /\ worker' = [worker EXCEPT ![w] = to]
  /\ UNCHANGED <<producer, enqueued, stop, destroyer>>

Lock(w) ==
  /\ mutex = None /\ mutex' = w
  /\ WorkerMoves(w, "lock", "check")
  /\ UNCHANGED <<tasks, hand>>

(* The predicate holds: leave the loop, or take the oldest task; either way*)
(* the mutex is released.                                                  *)
Leave_WhenStopped(w) ==
  /\ stop
  /\ mutex' = None
  /\ WorkerMoves(w, "check", "exited")
  /\ UNCHANGED <<tasks, hand>>

Leave(w) ==
  /\ stop /\ tasks = <<>>
  /\ mutex' = None
  /\ WorkerMoves(w, "check", "exited")
  /\ UNCHANGED <<tasks, hand>>

Take_Newest(w) ==
  /\ tasks # <<>>
  /\ mutex' = None
  /\ tasks' = SubSeq(tasks, 1, Len(tasks) - 1)
  /\ hand' = [hand EXCEPT ![w] = tasks[Len(tasks)]]
  /\ WorkerMoves(w, "check", "run")

(* A wait without the predicate: the queue may be empty, the front garbage.*)
Take_Unchecked(w) ==
  /\ mutex' = None
  /\ tasks' = IF tasks = <<>> THEN tasks ELSE Tail(tasks)
  /\ hand' = [hand EXCEPT ![w] = IF tasks = <<>> THEN 0 ELSE Head(tasks)]
  /\ WorkerMoves(w, "check", "run")

Take(w) ==
  /\ tasks # <<>>
  /\ mutex' = None
  /\ tasks' = Tail(tasks)
  /\ hand' = [hand EXCEPT ![w] = Head(tasks)]
  /\ WorkerMoves(w, "check", "run")

(* The predicate does not hold: the worker is about to block, and still    *)
(* holds the mutex ...                                                     *)
FindNothing(w) ==
  /\ ~stop /\ tasks = <<>>
  /\ WorkerMoves(w, "check", "block")
  /\ UNCHANGED <<tasks, mutex, hand>>

(* ... which it releases in the moment it becomes a waiter.                *)
Block(w) ==
  /\ mutex' = None
  /\ WorkerMoves(w, "block", "waiting")
  /\ UNCHANGED <<tasks, hand>>

WakeSpuriously(w) ==
  /\ WorkerMoves(w, "waiting", "lock")
  /\ UNCHANGED <<tasks, mutex, hand>>

(* task() ends, well or by an exception its packaged_task keeps.           *)
EndTask(w) ==
  /\ WorkerMoves(w, "run", "lock")
  /\ hand' = [hand EXCEPT ![w] = None]
  /\ UNCHANGED <<tasks, mutex>>

WorkerStep(w) ==
  Lock(w) \/ Leave(w) \/ Take(w) \/ FindNothing(w) \/ Block(w) \/ EndTask(w)

-----------------------------------------------------------------------------
(* enqueue: the push under the mutex, then notify_one without it.          *)
Push_Silent ==
  /\ destroyer = "none" /\ producer = "idle" /\ enqueued < MaxTasks
  /\ mutex = None
  /\ enqueued' = enqueued + 1
  /\ tasks' = Append(tasks, enqueued')
  /\ UNCHANGED <<mutex, worker, hand, producer, stop, destroyer>>

Push ==
  /\ destroyer = "none" /\ producer = "idle" /\ enqueued < MaxTasks
  /\ mutex = None
  /\ enqueued' = enqueued + 1
  /\ tasks' = Append(tasks, enqueued')
  /\ producer' = "notify"
  /\ UNCHANGED <<mutex, worker, hand, stop, destroyer>>

Waiting == {w \in Workers : worker[w] = "waiting"}

NotifyOne ==
  /\ producer = "notify" /\ producer' = "idle"
  /\ IF Waiting = {} THEN UNCHANGED worker
     ELSE \E w \in Waiting : worker' = [worker EXCEPT ![w] = "lock"]
  /\ UNCHANGED <<tasks, mutex, hand, enqueued, stop, destroyer>>

(* ~ThreadPool.                                                            *)
Stop ==
  /\ destroyer = "none" /\ producer = "idle"
  /\ stop' = TRUE /\ destroyer' = "notify"
  /\ UNCHANGED <<tasks, mutex, worker, hand, producer, enqueued>>

NotifyAll ==
  /\ destroyer = "notify" /\ destroyer' = "join"
  /\ worker' = [w \in Workers |-> IF w \in Waiting THEN "lock" ELSE worker[w]]
  /\ UNCHANGED <<tasks, mutex, hand, producer, enqueued, stop>>

Join ==
  /\ destroyer = "join" /\ destroyer' = "gone"
  /\ \A w \in Workers : worker[w] = "exited"
  /\ UNCHANGED <<tasks, mutex, worker, hand, producer, enqueued, stop>>

Next ==
  \/ \E w \in Workers : WorkerStep(w) \/ WakeSpuriously(w)
  \/ Push \/ NotifyOne
  \/ Stop \/ NotifyAll \/ Join

(* Every thread that can go on does, tasks end, and no thread is kept from *)
(* a mutex that is free again and again.  Nothing makes a spurious wakeup  *)
(* happen, a task be enqueued, or the pool be destroyed.                   *)
Fairness ==
  /\ \A w \in Workers : SF_vars(Lock(w)) /\ WF_vars(WorkerStep(w))
  /\ WF_vars(NotifyOne) /\ WF_vars(NotifyAll) /\ WF_vars(Join)

SafeSpec == Init /\ [][Next]_vars
Spec == SafeSpec /\ Fairness

-----------------------------------------------------------------------------
(* Properties.                                                             *)

(* A task in the queue is never forgotten: while there is one, enqueue is  *)
(* about to notify or some worker will look at the queue again without     *)
(* being woken.                                                            *)
WorkIsSeen ==
  tasks # <<>> =>
    \/ producer = "notify"
    \/ \E w \in Workers : worker[w] \in {"lock", "check", "run"}

(* When a worker has left, nothing is left to do: no task is in the queue, *)
(* and none can be enqueued any more.                                      *)
WorkersLeaveNothing ==
  (\E w \in Workers : worker[w] = "exited") => tasks = <<>> /\ destroyer # "none"

(* The queue, the workers and the destructor keep the promise of TaskPool. *)
Pool == INSTANCE TaskPool WITH
  Size <- Cardinality(Workers),
  submitted <- enqueued,
  started <- enqueued - Len(tasks),
  running <- {hand[w] : w \in {v \in Workers : worker[v] = "run"}},
  gone <- destroyer = "gone"

ImplementsTaskPool == Pool!Spec

(* What every test relies on when its session goes out of scope:           *)
(* ~ThreadPool, once it has stopped the workers, returns.                  *)
JoinReturns == destroyer = "join" ~> destroyer = "gone"

=============================================================================
