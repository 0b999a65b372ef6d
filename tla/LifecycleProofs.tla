-------------------------- MODULE LifecycleProofs --------------------------
(***************************************************************************)
(* Theorems about Lifecycle, for any set of leaving threads, any          *)
(* transports and any bound on the inbox.                                  *)
(***************************************************************************)
EXTENDS Lifecycle, TLAPS

(* The expansion of every action down to the variables.                    *)
USE DEF lifecycleVars, flags, reader, local, remote, LeaveEnds, LeaveSteps

(* Every step of the life of a session keeps the variables to their types, *)
(* whatever other messages the router sends.                               *)
LEMMA TypeStep ==
  ASSUME NEW Messages, Goodbye \in Messages,
         LifecycleTypeOK(Messages), [LifecycleNext]_lifecycleVars
  PROVE  LifecycleTypeOK(Messages)'
<1> USE DEF LifecycleTypeOK
<1>1. ASSUME NEW t \in Leavers, LeaveStep(t)
      PROVE  LifecycleTypeOK(Messages)'
  <2>1. CASE LeaveBegin(t)
    BY <2>1 DEF LeaveBegin, LeaveMoves
  <2>2. CASE LeaveSend(t)
    BY <2>2 DEF LeaveSend, LeaveMoves
  <2>3. CASE LeaveWrite(t)
    BY <2>3 DEF LeaveWrite, LeaveMoves, WriteGoodbye
  <2>4. CASE LeaveMark(t) \/ LeaveWait(t)
    BY <2>4 DEF LeaveMark, LeaveWait, LeaveMoves
  <2> QED
    BY <1>1, <2>1, <2>2, <2>3, <2>4 DEF LeaveStep
<1>2. CASE TestRunning \/ ReadFails \/ StopRunning
  BY <1>2 DEF TestRunning, ReadFails, StopRunning, RecvMoves
<1>3. CASE ReadMessage
  BY <1>3 DEF ReadMessage, RecvMoves
<1>4. CASE HandleGoodbye
  BY <1>4 DEF HandleGoodbye, RecvMoves, WriteGoodbye
<1>5. CASE CloseAfterGoodbye
  BY <1>5 DEF CloseAfterGoodbye, RecvMoves, Close
<1>6. CASE DtorStep
  BY <1>6 DEF DtorStep, DtorBegin, DtorClose, DtorStop, DtorJoin, DtorPool,
              DtorPoolWakes, DtorMembers, DtorMoves, CloseInDestructor, Close
<1>7. CASE RouterLeaves \/ RouterReplies
  <2>1. inbox' = Append(inbox, Goodbye)
    BY <1>7 DEF RouterLeaves, RouterReplies, RouterSends
  <2>2. inbox' \in Seq(Messages)
    BY <2>1
  <2>3. goodbyes' \in Nat
    BY <1>7 DEF RouterLeaves, RouterReplies
  <2> QED
    BY <1>7, <2>2, <2>3 DEF RouterLeaves, RouterReplies, RouterSends
<1>8. CASE LinkLost
  BY <1>8, LossesAssumption DEF LinkLost
<1>9. CASE UNCHANGED lifecycleVars
  BY <1>9
<1> QED
  BY <1>1, <1>2, <1>3, <1>4, <1>5, <1>6, <1>7, <1>8, <1>9 DEF LifecycleNext, RecvStep

(* What holds between the threads in every reachable state, whatever other *)
(* messages the router sends.  The promise is set on the way out of the    *)
(* loop only, so no second GOODBYE is processed; running_ is clear wherever*)
(* the descriptor may be closed.                                           *)
PromiseOnTheWayOut ==
  goodbye_promise => recv = "stop" \/ (recv \in {"close", "test", "exited"} /\ ~running)

StoppedInTime ==
  /\ recv = "close" => ~running
  /\ dtor \in {"join", "members", "pool", "stuck", "gone"} => ~running

GoodbyeWaits == \E i \in 1..Len(inbox) : inbox[i] = Goodbye

RouterLeftFirst ==
  /\ GoodbyeWaits \/ msg = Goodbye \/ goodbye_promise => router_left
  /\ \A t \in Leavers : leaver[t] = "left" => goodbye_promise

QuietDestruction == dtor # "alive" => \A t \in Leavers : leaver[t] \notin LeaveSteps

ThreadsAgree ==
  /\ PromiseOnTheWayOut
  /\ StoppedInTime
  /\ ClosedMeansStopped
  /\ RouterLeftFirst
  /\ QuietDestruction
  /\ dtor \in {"members", "pool", "stuck", "gone"} => recv = "exited"

IInv == TypeOK /\ ThreadsAgree

USE DEF IInv, ThreadsAgree, PromiseOnTheWayOut, StoppedInTime, ClosedMeansStopped,
        RouterLeftFirst, QuietDestruction

(* It holds at the start ...                                               *)
LEMMA AgreeInit == LifecycleInit => ThreadsAgree
<1> SUFFICES ASSUME LifecycleInit PROVE ThreadsAgree
  OBVIOUS
<1>1. Len(inbox) = 0
  BY DEF LifecycleInit
<1>2. ~GoodbyeWaits
  BY <1>1 DEF GoodbyeWaits
<1> QED
  BY <1>2 DEF LifecycleInit, Goodbye, NoMessage

(* ... and every step keeps it.                                            *)
LEMMA AgreeStep ==
  ASSUME NEW Messages, LifecycleTypeOK(Messages), ThreadsAgree,
         [LifecycleNext]_lifecycleVars
  PROVE  ThreadsAgree'
<1>type. /\ leaver \in [Leavers -> {"idle"} \cup LeaveSteps \cup LeaveEnds]
         /\ inbox \in Seq(Messages)
  BY DEF LifecycleTypeOK
<1>still. inbox' = inbox => GoodbyeWaits' = GoodbyeWaits
  BY DEF GoodbyeWaits
<1>1. ASSUME NEW t \in Leavers, LeaveStep(t)
      PROVE  ThreadsAgree'
  BY <1>1, <1>type, <1>still DEF LeaveStep, LeaveBegin, LeaveSend, LeaveWrite, LeaveMark,
     LeaveWait, LeaveMoves
<1>2. CASE TestRunning \/ ReadFails \/ StopRunning
  BY <1>2, <1>still DEF TestRunning, ReadFails, StopRunning, RecvMoves
<1>3. CASE ReadMessage
  <2>1. /\ msg' = inbox[1] /\ 1 \in 1..Len(inbox)
        /\ \A i \in 1..Len(inbox') : inbox'[i] = inbox[i + 1] /\ i + 1 \in 1..Len(inbox)
    BY <1>3, <1>type DEF ReadMessage
  <2>2. GoodbyeWaits' \/ msg' = Goodbye => GoodbyeWaits
    BY <2>1 DEF GoodbyeWaits
  <2> QED
    BY <1>3, <2>2 DEF ReadMessage, RecvMoves
<1>4. CASE HandleGoodbye
  BY <1>4, <1>still DEF HandleGoodbye, RecvMoves, Goodbye, NoMessage
<1>5. CASE CloseAfterGoodbye
  BY <1>5, <1>still DEF CloseAfterGoodbye, RecvMoves, Close
<1>6. CASE DtorBegin
  BY <1>6, <1>still DEF DtorBegin, DtorMoves
<1>7. CASE DtorClose \/ DtorStop \/ DtorJoin \/ DtorPool \/ DtorPoolWakes \/ DtorMembers
  BY <1>7, <1>still DEF DtorClose, DtorStop, DtorJoin, DtorPool,
              DtorPoolWakes, DtorMembers, DtorMoves, CloseInDestructor, Close
<1>8. CASE RouterLeaves \/ RouterReplies
  BY <1>8 DEF RouterLeaves, RouterReplies, RouterSends
<1>9. CASE LinkLost
  BY <1>9, <1>still DEF LinkLost
<1>10. CASE UNCHANGED lifecycleVars
  BY <1>10, <1>still
<1> QED
  BY <1>1, <1>2, <1>3, <1>4, <1>5, <1>6, <1>7, <1>8, <1>9, <1>10
     DEF LifecycleNext, RecvStep, DtorStep

LEMMA IInvInit == LifecycleInit => IInv
<1> SUFFICES ASSUME LifecycleInit PROVE IInv
  OBVIOUS
<1>1. <<>> \in Seq({Goodbye})
  OBVIOUS
<1>2. TypeOK
  BY <1>1 DEF LifecycleInit, TypeOK, LifecycleTypeOK
<1> QED
  BY <1>2, AgreeInit

LEMMA IInvStep == IInv /\ [LifecycleNext]_lifecycleVars => IInv'
BY TypeStep, AgreeStep DEF TypeOK

(* The strengthened invariant holds in every reachable state of a session. *)
THEOREM Invariance == LifecycleSpec => []IInv
BY IInvInit, IInvStep, PTL DEF LifecycleSpec

(* Every variable of a session's life keeps to its type.                   *)
THEOREM TypeCorrect == LifecycleSpec => []TypeOK
<1>1. IInv => TypeOK
  OBVIOUS
<1> QED
  BY <1>1, Invariance, PTL

(* set_value is called on an unset goodbye_promise only: however many      *)
(* GOODBYEs cross, the branch that ends the session runs once.             *)
THEOREM PromiseIsSetOnce == LifecycleSpec => []PromiseSetOnce
<1>1. IInv => PromiseSetOnce
  BY DEF PromiseSetOnce
<1> QED
  BY <1>1, Invariance, PTL

(* A closed transport belongs to a stopped session, but for the moment     *)
(* between the close() and the running_ = false of ~Session.               *)
THEOREM ClosedIsStopped == LifecycleSpec => []ClosedMeansStopped
<1>1. IInv => ClosedMeansStopped
  OBVIOUS
<1> QED
  BY <1>1, Invariance, PTL

(* A leave() that succeeds has had the router's GOODBYE.                   *)
THEOREM LeftAfterRouter == LifecycleSpec => []LeftMeansRouterLeft
<1>1. IInv => LeftMeansRouterLeft
  BY DEF LeftMeansRouterLeft
<1> QED
  BY <1>1, Invariance, PTL

(* The members of a session go when no thread is left that uses them.      *)
THEOREM MembersGoLast == LifecycleSpec => []ThreadsEndBeforeMembers
<1>1. IInv => ThreadsEndBeforeMembers
  BY DEF ThreadsEndBeforeMembers
<1> QED
  BY <1>1, Invariance, PTL

(* Over a unix socket no step ends the process with an exception.          *)
THEOREM UnixNeverTerminates == LifecycleSpec => []NeverTerminates
<1>1. LifecycleInit => NeverTerminates
  BY DEF LifecycleInit, NeverTerminates
<1>2. NeverTerminates /\ [LifecycleNext]_lifecycleVars => NeverTerminates'
  BY DEF NeverTerminates, LifecycleNext, LeaveStep, LeaveBegin, LeaveSend, LeaveWrite,
         LeaveMark, LeaveWait, LeaveMoves, RecvStep, TestRunning, ReadMessage, ReadFails,
         HandleGoodbye, StopRunning, CloseAfterGoodbye, RecvMoves, DtorStep, DtorBegin,
         DtorClose, DtorStop, DtorJoin, DtorPool, DtorPoolWakes, DtorMembers, DtorMoves,
         CloseInDestructor, CloseThrows, RouterLeaves, RouterReplies, RouterSends, LinkLost
<1> QED
  BY <1>1, <1>2, PTL DEF LifecycleSpec

=============================================================================
