-------------------------- MODULE ThreadPoolProofs --------------------------
(***************************************************************************)
(* Theorems about ThreadPool, for any finite set of workers and any number *)
(* of tasks: its types, that no wakeup is lost in enqueue, that nothing is *)
(* left behind on stop, and that every step is one of TaskPool or none.    *)
(***************************************************************************)
EXTENDS ThreadPool, FiniteSetTheorems, TLAPS

USE WorkersAssumption, TasksAssumption DEF vars

(* Every variable keeps to its type.                                       *)
LEMMA TypeStep == TypeOK /\ [Next]_vars => TypeOK'
<1> SUFFICES ASSUME TypeOK, [Next]_vars PROVE TypeOK'
  OBVIOUS
<1> USE DEF TypeOK, Places
<1>1. ASSUME NEW w \in Workers, Take(w)
      PROVE  TypeOK'
  <2>1. Head(tasks) \in 1..MaxTasks /\ Tail(tasks) \in Seq(1..MaxTasks)
    BY <1>1 DEF Take
  <2> QED
    BY <1>1, <2>1 DEF Take, WorkerMoves
<1>2. ASSUME NEW w \in Workers, WorkerStep(w) \/ WakeSpuriously(w), ~Take(w)
      PROVE  TypeOK'
  BY <1>2 DEF WorkerStep, Lock, Leave, FindNothing, Block, EndTask, WakeSpuriously,
              WorkerMoves
<1>3. CASE Push
  <2>1. enqueued' \in 1..MaxTasks
    BY <1>3 DEF Push
  <2> QED
    BY <1>3, <2>1 DEF Push
<1>4. CASE NotifyOne
  BY <1>4 DEF NotifyOne, Waiting
<1>5. CASE Stop \/ Join
  BY <1>5 DEF Stop, Join
<1>6. CASE NotifyAll
  BY <1>6 DEF NotifyAll, Waiting
<1>7. CASE UNCHANGED vars
  BY <1>7
<1> QED
  BY <1>1, <1>2, <1>3, <1>4, <1>5, <1>6, <1>7 DEF Next

(* The mutex is held from the test of the predicate to the wait, and       *)
(* nobody else touches the queue in between.                               *)
MutexProtects ==
  \A w \in Workers :
    /\ worker[w] \in {"check", "block"} => mutex = w
    /\ worker[w] = "block" => tasks = <<>>

StopsInOrder == stop => destroyer # "none"

IInv == TypeOK /\ MutexProtects /\ StopsInOrder /\ WorkIsSeen /\ WorkersLeaveNothing

USE DEF IInv, MutexProtects, StopsInOrder, WorkIsSeen, WorkersLeaveNothing

(* IInv holds at the start ...                                             *)
LEMMA IInvInit == Init => IInv
<1> SUFFICES ASSUME Init PROVE IInv
  OBVIOUS
<1>1. tasks \in Seq(1..MaxTasks) /\ 0 \in 0..MaxTasks
  BY DEF Init
<1>2. worker \in [Workers -> Places] /\ hand \in [Workers -> (1..MaxTasks) \cup {None}]
  BY DEF Init, Places
<1>3. TypeOK
  BY <1>1, <1>2 DEF Init, TypeOK
<1> QED
  BY <1>3 DEF Init

(* ... and every step keeps it.  A notify_one that finds no waiter finds   *)
(* every worker on its way to the queue, or the queue empty.               *)
LEMMA IInvStep == IInv /\ [Next]_vars => IInv'
<1> SUFFICES ASSUME IInv, [Next]_vars PROVE IInv'
  OBVIOUS
<1>type. TypeOK'
  BY TypeStep
<1> USE DEF TypeOK, Places
<1>1. ASSUME NEW w \in Workers, Lock(w)
      PROVE  IInv'
  BY <1>1, <1>type DEF Lock, WorkerMoves
<1>2. ASSUME NEW w \in Workers, Leave(w)
      PROVE  IInv'
  BY <1>2, <1>type DEF Leave, WorkerMoves
<1>3. ASSUME NEW w \in Workers, Take(w)
      PROVE  IInv'
  BY <1>3, <1>type DEF Take, WorkerMoves
<1>4. ASSUME NEW w \in Workers, FindNothing(w) \/ Block(w)
      PROVE  IInv'
  BY <1>4, <1>type DEF FindNothing, Block, WorkerMoves
<1>5. ASSUME NEW w \in Workers, EndTask(w) \/ WakeSpuriously(w)
      PROVE  IInv'
  BY <1>5, <1>type DEF EndTask, WakeSpuriously, WorkerMoves
<1>6. CASE Push
  BY <1>6, <1>type DEF Push
<1>7. CASE NotifyOne
  BY <1>7, <1>type DEF NotifyOne, Waiting
<1>8. CASE Stop \/ Join
  BY <1>8, <1>type DEF Stop, Join
<1>9. CASE NotifyAll
  BY <1>9, <1>type DEF NotifyAll, Waiting
<1>10. CASE UNCHANGED vars
  BY <1>10
<1> QED
  BY <1>1, <1>2, <1>3, <1>4, <1>5, <1>6, <1>7, <1>8, <1>9, <1>10 DEF Next, WorkerStep

(* The invariant holds in every reachable state.                           *)
THEOREM Invariance == Spec => []IInv
BY IInvInit, IInvStep, PTL DEF Spec, SafeSpec

(* The variables of the pool keep to their types.                          *)
THEOREM TypeCorrect == Spec => []TypeOK
<1>1. IInv => TypeOK
  OBVIOUS
<1> QED
  BY <1>1, Invariance, PTL

(* No task is forgotten in the queue: notify_one after the mutex is        *)
(* released never leaves all workers asleep over a task.                   *)
THEOREM NoLostWakeup == Spec => []WorkIsSeen
<1>1. IInv => WorkIsSeen
  OBVIOUS
<1> QED
  BY <1>1, Invariance, PTL

(* A worker that leaves on stop leaves an empty queue that stays empty.    *)
THEOREM QueueDrained == Spec => []WorkersLeaveNothing
<1>1. IInv => WorkersLeaveNothing
  OBVIOUS
<1> QED
  BY <1>1, Invariance, PTL

(* The queue holds the newest tasks in the order they were enqueued; each  *)
(* worker that runs has an older task, and no two have the same.           *)
Started == enqueued - Len(tasks)

QueueInOrder ==
  /\ Started \in Nat
  /\ \A i \in 1..Len(tasks) : tasks[i] = Started + i

HandsDistinct ==
  \A v, w \in Workers :
    worker[v] = "run" =>
      /\ hand[v] \in 1..Started
      /\ worker[w] = "run" /\ hand[v] = hand[w] => v = w

RInv == IInv /\ QueueInOrder /\ HandsDistinct

(* RInv holds at the start and every step keeps it.                        *)
LEMMA RInvInit == Init => RInv
BY IInvInit DEF Init, RInv, QueueInOrder, HandsDistinct, Started

LEMMA RInvStep == RInv /\ [Next]_vars => RInv'
<1> SUFFICES ASSUME RInv, [Next]_vars PROVE QueueInOrder' /\ HandsDistinct'
  BY IInvStep DEF RInv
<1>type. TypeOK
  BY DEF RInv
<1> USE DEF RInv, QueueInOrder, HandsDistinct, Started
<1>1. ASSUME NEW w \in Workers, Take(w)
      PROVE  QueueInOrder' /\ HandsDistinct'
  <2>1. /\ Len(tasks') = Len(tasks) - 1 /\ Len(tasks) > 0 /\ Len(tasks) \in Nat
        /\ \A i \in 1..Len(tasks') : tasks'[i] = tasks[i + 1]
        /\ Head(tasks) = tasks[1]
    BY <1>1, <1>type DEF Take, TypeOK
  <2>2. Started' = Started + 1 /\ Head(tasks) = Started'
    BY <1>1, <1>type, <2>1 DEF Take, WorkerMoves, TypeOK
  <2>3. Started' \in Nat /\ \A i \in 1..Len(tasks) : tasks[i] = Started + i
    BY <2>2, <1>type DEF TypeOK
  <2>6. ASSUME NEW i \in 1..Len(tasks')
        PROVE  tasks'[i] = Started' + i
    <3>1. i \in Nat /\ i + 1 \in 1..Len(tasks)
      BY <2>1
    <3>2. tasks'[i] = Started + (i + 1)
      BY <2>1, <2>3, <3>1
    <3> HIDE DEF Started
    <3> QED
      BY <2>2, <2>3, <3>1, <3>2
  <2>7. QueueInOrder'
    BY <2>3, <2>6
  <2>4. hand' = [hand EXCEPT ![w] = Started'] /\ worker' = [worker EXCEPT ![w] = "run"]
    BY <1>1, <2>2 DEF Take, WorkerMoves
  <2>5. HandsDistinct'
    BY <2>2, <2>4, <1>type DEF TypeOK
  <2> QED
    BY <2>5, <2>7
<1>2. ASSUME NEW w \in Workers, WorkerStep(w) \/ WakeSpuriously(w), ~Take(w)
      PROVE  QueueInOrder' /\ HandsDistinct'
  <2>1. UNCHANGED <<tasks, enqueued>>
    BY <1>2 DEF WorkerStep, Lock, Leave, FindNothing, Block, EndTask, WakeSpuriously,
                WorkerMoves
  <2>2. \A v \in Workers : worker'[v] = "run" => worker[v] = "run" /\ hand'[v] = hand[v]
    BY <1>2, <1>type DEF WorkerStep, Lock, Leave, FindNothing, Block, EndTask,
                WakeSpuriously, WorkerMoves, TypeOK
  <2> QED
    BY <2>1, <2>2
<1>3. CASE Push
  <2>1. /\ Len(tasks') = Len(tasks) + 1 /\ Len(tasks) \in Nat
        /\ \A i \in 1..Len(tasks) : tasks'[i] = tasks[i]
        /\ tasks'[Len(tasks) + 1] = enqueued + 1
    BY <1>3, <1>type DEF Push, TypeOK
  <2>2. Started' = Started /\ enqueued' = enqueued + 1 /\ enqueued \in Nat
    BY <1>3, <2>1, <1>type DEF Push, TypeOK
  <2>3. ASSUME NEW i \in 1..Len(tasks')
        PROVE  tasks'[i] = Started' + i
    <3>1. CASE i \in 1..Len(tasks)
      BY <2>1, <2>2, <3>1
    <3>2. CASE i = Len(tasks) + 1
      BY <2>1, <2>2, <3>2
    <3> QED
      BY <2>1, <3>1, <3>2
  <2>4. QueueInOrder'
    BY <2>2, <2>3
  <2> QED
    BY <1>3, <2>2, <2>4 DEF Push
<1>4. CASE NotifyOne \/ NotifyAll
  <2>1. UNCHANGED <<tasks, enqueued, hand>>
    BY <1>4 DEF NotifyOne, NotifyAll
  <2>2. \A v \in Workers : worker'[v] = "run" => worker[v] = "run"
    BY <1>4, <1>type DEF NotifyOne, NotifyAll, Waiting, TypeOK
  <2> QED
    BY <2>1, <2>2
<1>5. CASE Stop \/ Join \/ UNCHANGED vars
  BY <1>5 DEF Stop, Join
<1> QED
  BY <1>1, <1>2, <1>3, <1>4, <1>5 DEF Next

(* The mapping does not touch the cardinality of a set.                    *)
LEMMA SameCardinality == \A S : Pool!Cardinality(S) = Cardinality(S)
BY DEF Pool!Cardinality, Cardinality

(* The tasks in the workers' hands, and their image in TaskPool.           *)
Busy == {v \in Workers : worker[v] = "run"}
InHand == {hand[w] : w \in Busy}

(* A worker that is not running leaves room for one more task.             *)
LEMMA RoomForOne ==
  ASSUME NEW w \in Workers, w \notin Busy
  PROVE  Cardinality(InHand) < Cardinality(Workers)
<1> DEFINE f == [v \in Busy |-> hand[v]]
<1>1. f \in Surjection(Busy, InHand)
  BY DEF Surjection, InHand
<1>2. Busy \in SUBSET Workers /\ Busy # Workers
  BY DEF Busy
<1>3. IsFiniteSet(Busy) /\ Cardinality(Busy) \in Nat /\ Cardinality(Workers) \in Nat
  BY <1>2, FS_Subset, FS_CardinalityType
<1>4. Cardinality(Busy) < Cardinality(Workers)
  BY <1>2, <1>3, FS_Subset
<1>5. Cardinality(InHand) <= Cardinality(Busy) /\ IsFiniteSet(InHand)
  BY <1>1, <1>3, FS_Surjection
<1>6. Cardinality(InHand) \in Nat
  BY <1>5, FS_CardinalityType
<1> QED
  BY <1>3, <1>4, <1>5, <1>6

(* Every step of ThreadPool is a step of TaskPool under the mapping, or    *)
(* changes nothing of it.                                                  *)
LEMMA StepSimulates == RInv /\ RInv' /\ [Next]_vars => [Pool!Next]_(Pool!vars)
<1> SUFFICES ASSUME RInv, RInv', [Next]_vars PROVE [Pool!Next]_(Pool!vars)
  OBVIOUS
<1>type. TypeOK
  BY DEF RInv
<1> USE DEF Pool!vars
<1>1. ASSUME NEW w \in Workers, Take(w)
      PROVE  Pool!Start
  <2>1. Len(tasks') = Len(tasks) - 1 /\ Len(tasks) > 0 /\ Len(tasks) \in Nat
    BY <1>1, <1>type DEF Take, TypeOK
  <2>2. Started' = Started + 1 /\ Started < enqueued /\ Head(tasks) = Started'
    BY <1>1, <2>1, <1>type DEF Take, WorkerMoves, Started, TypeOK, RInv, QueueInOrder
  <2>3. Cardinality(InHand) < Cardinality(Workers)
    BY <1>1, RoomForOne DEF Take, WorkerMoves, Busy
  <2>4. InHand' = InHand \cup {Started'}
    BY <1>1, <2>2, <1>type DEF Take, WorkerMoves, InHand, Busy, TypeOK
  <2>5. enqueued' = enqueued /\ destroyer' = destroyer
    BY <1>1 DEF Take, WorkerMoves
  <2> QED
    BY <2>2, <2>3, <2>4, <2>5, SameCardinality DEF Pool!Start, Started, InHand, Busy
<1>2. ASSUME NEW w \in Workers, EndTask(w)
      PROVE  \E t \in InHand : Pool!Finish(t)
  <2>1. hand[w] \in InHand
    BY <1>2 DEF EndTask, WorkerMoves, InHand, Busy
  <2>2. InHand' = InHand \ {hand[w]}
    BY <1>2, <1>type DEF EndTask, WorkerMoves, InHand, Busy, TypeOK, RInv, HandsDistinct
  <2>3. UNCHANGED <<enqueued, tasks, destroyer>>
    BY <1>2 DEF EndTask, WorkerMoves
  <2> QED
    BY <2>1, <2>2, <2>3 DEF Pool!Finish, InHand, Busy
<1>3. ASSUME NEW w \in Workers,
             Lock(w) \/ Leave(w) \/ FindNothing(w) \/ Block(w) \/ WakeSpuriously(w)
      PROVE  UNCHANGED Pool!vars
  <2>1. Busy' = Busy /\ UNCHANGED <<enqueued, tasks, hand, destroyer>>
    BY <1>3, <1>type DEF Lock, Leave, FindNothing, Block, WakeSpuriously, WorkerMoves,
                         Busy, TypeOK
  <2> QED
    BY <2>1 DEF Busy
<1>4. CASE Push
  <2>1. Len(tasks') = Len(tasks) + 1 /\ Len(tasks) \in Nat /\ enqueued \in Nat
    BY <1>4, <1>type DEF Push, TypeOK
  <2>2. Started' = Started
    BY <1>4, <2>1 DEF Push, Started
  <2>3. Busy' = Busy /\ hand' = hand /\ destroyer = "none" /\ destroyer' = destroyer
    BY <1>4 DEF Push, Busy
  <2>4. enqueued < MaxTasks /\ enqueued' = enqueued + 1
    BY <1>4 DEF Push
  <2>5. (destroyer = "gone") = FALSE /\ (destroyer' = "gone") = FALSE
    BY <2>3
  <2>6. enqueued' - Len(tasks') = enqueued - Len(tasks)
    BY <2>2 DEF Started
  <2>7. InHand' = InHand
    BY <2>3 DEF InHand
  <2>8. Pool!Submit
    BY <2>4, <2>5, <2>6, <2>7 DEF Pool!Submit, InHand, Busy
  <2> QED
    BY <2>8 DEF Pool!Next
<1>5. CASE NotifyOne \/ NotifyAll
  <2>1. Busy' = Busy /\ UNCHANGED <<enqueued, tasks, hand>>
    BY <1>5, <1>type DEF NotifyOne, NotifyAll, Waiting, Busy, TypeOK
  <2>2. (destroyer = "gone")' = (destroyer = "gone")
    BY <1>5 DEF NotifyOne, NotifyAll
  <2> QED
    BY <2>1, <2>2 DEF Busy
<1>6. CASE Stop
  BY <1>6 DEF Stop
<1>7. CASE Join
  <2>1. tasks = <<>> /\ Busy = {}
    BY <1>7 DEF Join, RInv, Busy
  <2>2. Started = enqueued /\ InHand = {}
    BY <2>1, <1>type DEF Started, InHand, TypeOK
  <2>3. UNCHANGED <<tasks, enqueued, hand, worker>>
    BY <1>7 DEF Join
  <2>4. (destroyer = "gone") = FALSE /\ (destroyer' = "gone") = TRUE
    BY <1>7 DEF Join
  <2>5. enqueued - Len(tasks) = enqueued /\ enqueued' - Len(tasks') = enqueued - Len(tasks)
    BY <2>2, <2>3 DEF Started
  <2>6. InHand' = InHand
    BY <2>3 DEF InHand, Busy
  <2>7. Pool!Close
    BY <2>2, <2>3, <2>4, <2>5, <2>6 DEF Pool!Close, InHand, Busy
  <2> QED
    BY <2>7 DEF Pool!Next
<1>8. CASE UNCHANGED vars
  BY <1>8
<1> QED
  BY <1>1, <1>2, <1>3, <1>4, <1>5, <1>6, <1>7, <1>8
     DEF Next, WorkerStep, Pool!Next, InHand, Busy

(* ThreadPool implements the safety of TaskPool: first in first out, each  *)
(* task once, no more at a time than workers, none left at the end.        *)
THEOREM Refinement == SafeSpec => Pool!SafeSpec
<1>1. Init => Pool!Init
  <2> SUFFICES ASSUME Init PROVE Pool!Init
    OBVIOUS
  <2>1. enqueued = 0
    BY DEF Init
  <2>2. enqueued - Len(tasks) = 0
    <3>1. Len(tasks) = 0
      BY DEF Init
    <3> QED
      BY <2>1, <3>1
  <2>3. Busy = {} /\ (destroyer = "gone") = FALSE
    BY DEF Init, Busy
  <2> QED
    BY <2>1, <2>2, <2>3 DEF Pool!Init, Busy
<1>2. SafeSpec => []RInv
  BY RInvInit, RInvStep, PTL DEF SafeSpec
<1> QED
  BY <1>1, <1>2, StepSimulates, PTL DEF SafeSpec, Pool!SafeSpec

=============================================================================
