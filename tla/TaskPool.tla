------------------------------ MODULE TaskPool ------------------------------
(***************************************************************************)
(* What ThreadPool promises its user: tasks start in the order they were   *)
(* submitted, each of them once, at most Size at a time, all of them run,  *)
(* and the pool is not gone before every task has ended.                   *)
(***************************************************************************)
EXTENDS Naturals, Sequences, FiniteSets

CONSTANTS
  Size,      \* how many tasks may run at a time
  MaxTasks   \* bound on the tasks submitted

VARIABLES
  submitted,  \* tasks submitted so far; they are numbered from 1
  started,    \* tasks started so far, the oldest first
  running,    \* the tasks that run now
  gone        \* TRUE once the pool is destroyed

vars == <<submitted, started, running, gone>>

Init == submitted = 0 /\ started = 0 /\ running = {} /\ gone = FALSE

Submit ==
  /\ ~gone /\ submitted < MaxTasks
  /\ submitted' = submitted + 1
  /\ UNCHANGED <<started, running, gone>>

Start ==
  /\ started < submitted /\ Cardinality(running) < Size
  /\ started' = started + 1
  /\ running' = running \cup {started'}
  /\ UNCHANGED <<submitted, gone>>

Finish(t) ==
  /\ t \in running
  /\ running' = running \ {t}
  /\ UNCHANGED <<submitted, started, gone>>

Close ==
  /\ ~gone /\ started = submitted /\ running = {}
  /\ gone' = TRUE
  /\ UNCHANGED <<submitted, started, running>>

Next == Submit \/ Start \/ (\E t \in running : Finish(t)) \/ Close

SafeSpec == Init /\ [][Next]_vars

Spec == SafeSpec /\ WF_vars(Start) /\ \A t \in 1..MaxTasks : WF_vars(Finish(t))

=============================================================================
