----------------------- MODULE SessionCallbackProofs -----------------------
(***************************************************************************)
(* Theorems about the callbacks of Session and about its end, for any      *)
(* requests, threads and bounds.  They rest on SInv of SessionProofs.      *)
(***************************************************************************)
EXTENDS SessionProofs, FiniteSetTheorems

HIDE DEF AnswersAwaited, OneAnswerEach, IdsDiffer, EntryInTime, PromiseTellsVerdict,
         SentInTime, MapsGoLate, GInv, SInv

USE OpsAssumption, BoundsAssumption DEF vars, requestVars, callVars, mapVars, poolVars,
    routerVars, First

(* What each group of steps leaves alone.                                  *)
LEMMA RequestFrame ==
  ASSUME NEW o \in Ops, OpStep(o)
  PROVE  UNCHANGED <<msg, inbox, recv, dtor, registrations, subscriptions, mapsGone, poolVars,
                     active, delivered>>
BY DEF OpStep, GetId, Insert, Send, Write, Wait, OpMoves, reader, remote

LEMMA PoolFrame ==
  ASSUME StartTask \/ \E t \in executing : FinishTask(t)
  PROVE  /\ UNCHANGED <<msg, inbox, recv, dtor, process>>
         /\ UNCHANGED <<callVars, mapVars, routerVars>>
BY DEF StartTask, FinishTask, PoolMoves, lifecycleVars, reader, remote, local

LEMMA RouterFrame ==
  ASSUME \/ \E o \in Ops : RouterGrants(o) \/ RouterRefuses(o)
         \/ \E k \in active : RouterDelivers(k)
  PROVE  /\ UNCHANGED <<msg, recv, dtor, process>>
         /\ UNCHANGED <<callVars, mapVars, poolVars>>
BY DEF RouterGrants, RouterRefuses, RouterDelivers, RouterTells, RouterSends, reader, local

LEMMA MapsFrame ==
  ASSUME SessionDtorMaps
  PROVE  /\ UNCHANGED <<msg, inbox, recv, dtor, process, callVars, poolVars, routerVars>>
         /\ mapsGone' /\ registrations' = [r \in Ops |-> Absent]
         /\ subscriptions' = [t \in Topics |-> Absent]
BY DEF SessionDtorMaps, lifecycleVars, reader, remote, local

LEMMA MessageFrame ==
  ASSUME SInv, HandleMessage
  PROVE  /\ UNCHANGED <<inbox, dtor, callVars, executing, results, routerVars, mapsGone>>
         /\ recv = "process" /\ ~mapsGone /\ msg' = NoMessage
         /\ dtor \notin {"members", "pool", "stuck", "gone"}
<1>1. /\ UNCHANGED <<inbox, dtor, callVars, executing, results, routerVars, mapsGone>>
      /\ recv = "process" /\ msg' = NoMessage
  BY DEF HandleMessage, HandleAcknowledgement, HandleRegistered, HandleUnregistered,
         HandleSubscribed, HandleError, HandleInvocation, HandleEvent, Handles, remote
<1> QED
  BY <1>1 DEF SInv, GInv, MapsGoLate

LEMMA StillUnchanged ==
  ASSUME UNCHANGED vars
  PROVE  UNCHANGED <<msg, inbox, recv, dtor, process>> /\ UNCHANGED requestVars
BY DEF lifecycleVars, reader, remote, local

-----------------------------------------------------------------------------
(* What LifecycleProofs shows of a session that only lives and ends holds  *)
(* with its requests and callbacks: none of their steps comes between the  *)
(* flags and the threads.                                                  *)
LEMMA AgreeNoGoodbye ==
  ASSUME ThreadsAgree, inbox \in Seq(Messages), NEW m, m.type # "GOODBYE", RouterTells(m)
  PROVE  ThreadsAgree'
<1>1. /\ UNCHANGED <<flags, leaver, reader, dtor, local, router_left>>
      /\ inbox' = Append(inbox, m)
  BY DEF RouterTells, RouterSends
<1>2. m # Goodbye
  BY DEF Goodbye
<1>3. /\ Len(inbox) \in Nat /\ Len(inbox') = Len(inbox) + 1
      /\ \A i \in 1..Len(inbox) : inbox'[i] = inbox[i]
      /\ inbox'[Len(inbox) + 1] = m
  BY <1>1
<1>4. GoodbyeWaits' => GoodbyeWaits
  BY <1>2, <1>3 DEF GoodbyeWaits
<1> QED
  BY <1>1, <1>4 DEF ThreadsAgree, PromiseOnTheWayOut, StoppedInTime, ClosedMeansStopped,
     RouterLeftFirst, QuietDestruction, flags, reader, local

LEMMA AgreeStays ==
  ASSUME ThreadsAgree, UNCHANGED <<flags, leaver, dtor, socket, remote>>,
         UNCHANGED reader \/ (recv = "process" /\ recv' = "test" /\ msg' = NoMessage)
  PROVE  ThreadsAgree'
<1>1. GoodbyeWaits' = GoodbyeWaits
  BY DEF GoodbyeWaits, remote
<1> QED
  BY <1>1 DEF ThreadsAgree, PromiseOnTheWayOut, StoppedInTime, ClosedMeansStopped,
     RouterLeftFirst, QuietDestruction, flags, reader, remote, Goodbye, NoMessage

LEMMA AgreeInSession ==
  ASSUME SInv, ThreadsAgree, [Next]_vars
  PROVE  ThreadsAgree'
<1>1. TInv /\ LifecycleTypeOK(Messages) /\ inbox \in Seq(Messages)
  BY DEF SInv, TInv, TypeOKSession, LifecycleTypeOK
<1>2. CASE LifecycleActions
  BY <1>1, <1>2, LifecycleInside, AgreeStep
<1>3. ASSUME NEW o \in Ops, OpStep(o)
      PROVE  ThreadsAgree'
  BY <1>1, <1>3, RequestStepType, AgreeStays
<1>4. CASE HandleMessage
  <2>1. /\ UNCHANGED <<flags, leaver, dtor, socket, remote>>
        /\ recv = "process" /\ recv' = "test" /\ msg' = NoMessage
    BY <1>4 DEF HandleMessage, HandleAcknowledgement, HandleRegistered, HandleUnregistered,
       HandleSubscribed, HandleError, HandleInvocation, HandleEvent, Handles
  <2> QED
    BY <2>1, AgreeStays
<1>5. CASE \/ SessionDtorMaps \/ StartTask \/ (\E t \in executing : FinishTask(t))
           \/ EraseRegistration \/ UNCHANGED vars
  <2>1. UNCHANGED lifecycleVars
    BY <1>5, EraseFrame DEF SessionDtorMaps, StartTask, FinishTask, PoolMoves
  <2> QED
    BY <2>1, AgreeStays DEF lifecycleVars, local
<1>6. ASSUME NEW o \in Ops, RouterGrants(o) \/ RouterRefuses(o)
      PROVE  ThreadsAgree'
  <2>1. AnswerType[Kind[o]] # "GOODBYE"
    BY DEF AnswerType, Kinds
  <2> QED
    BY <1>1, <1>6, <2>1, AgreeNoGoodbye DEF RouterGrants, RouterRefuses
<1>7. ASSUME NEW k \in active, RouterDelivers(k)
      PROVE  ThreadsAgree'
  BY <1>1, <1>7, AgreeNoGoodbye DEF RouterDelivers
<1> QED
  BY <1>2, <1>3, <1>4, <1>5, <1>6, <1>7 DEF Next

LEMMA AgreeInvariant == Spec => []ThreadsAgree
<1>1. Init => ThreadsAgree
  BY AgreeInit DEF Init
<1>2. SInv /\ ThreadsAgree /\ [Next]_vars => ThreadsAgree'
  BY AgreeInSession
<1> QED
  BY <1>1, <1>2, SessionInvariant, PTL DEF Spec, SafeSpec

(* Requests, answers and callbacks in between do not bring the GOODBYE     *)
(* branch to set its promise twice, ...                                    *)
THEOREM SessionSetsPromiseOnce == Spec => []PromiseSetOnce
<1>1. ThreadsAgree => PromiseSetOnce
  BY DEF ThreadsAgree, PromiseOnTheWayOut, PromiseSetOnce
<1> QED
  BY <1>1, AgreeInvariant, PTL

(* ... nor leave running_ set over a closed transport, ...                 *)
THEOREM SessionClosedIsStopped == Spec => []ClosedMeansStopped
<1>1. ThreadsAgree => ClosedMeansStopped
  BY DEF ThreadsAgree
<1> QED
  BY <1>1, AgreeInvariant, PTL

(* ... nor a leave() succeed without the router's GOODBYE, ...             *)
THEOREM SessionLeftAfterRouter == Spec => []LeftMeansRouterLeft
<1>1. ThreadsAgree => LeftMeansRouterLeft
  BY DEF ThreadsAgree, RouterLeftFirst, LeftMeansRouterLeft
<1> QED
  BY <1>1, AgreeInvariant, PTL

(* ... nor the members go before the threads that use them.                *)
THEOREM SessionMembersGoLast == Spec => []ThreadsEndBeforeMembers
<1>1. SInv /\ ThreadsAgree => ThreadsEndBeforeMembers
  BY DEF ThreadsAgree, QuietDestruction, ThreadsEndBeforeMembers
<1> QED
  BY <1>1, AgreeInvariant, SessionInvariant, PTL

-----------------------------------------------------------------------------
(* A process that has ended takes no step.                                 *)
LEMMA StepsNeedProcess == Next => process = "up"
<1>1. LifecycleActions => process = "up"
  <2>1. \A t \in Leavers : LeaveStep(t) => process = "up"
    BY DEF LeaveStep, LeaveBegin, LeaveSend, LeaveWrite, LeaveMark, LeaveWait, LeaveMoves
  <2>2. RecvStep => process = "up"
    BY DEF RecvStep, TestRunning, ReadMessage, ReadFails, HandleGoodbye, StopRunning,
           CloseAfterGoodbye, RecvMoves
  <2>3. DtorStep => process = "up"
    BY DEF DtorStep, DtorBegin, DtorClose, DtorStop, DtorJoin, DtorPool, DtorPoolWakes,
           DtorMembers, DtorMoves
  <2>4. RouterLeaves \/ RouterReplies \/ LinkLost => process = "up"
    BY DEF RouterLeaves, RouterReplies, RouterSends, Delivers, LinkLost
  <2> QED
    BY <2>1, <2>2, <2>3, <2>4, LifecycleInside DEF LifecycleNext
<1>2. \A o \in Ops : OpStep(o) => process = "up"
  BY DEF OpStep, GetId, Insert, Send, Write, Wait, OpMoves
<1>3. HandleMessage \/ EraseRegistration => process = "up"
  BY DEF HandleMessage, HandleAcknowledgement, HandleRegistered, HandleUnregistered,
     HandleSubscribed, HandleError, HandleInvocation, HandleEvent, Handles, EraseRegistration
<1>4. SessionDtorMaps \/ StartTask \/ (\E t \in executing : FinishTask(t)) => process = "up"
  BY DEF SessionDtorMaps, StartTask, FinishTask, PoolMoves
<1>5. /\ \A o \in Ops : RouterGrants(o) \/ RouterRefuses(o) => process = "up"
      /\ \A k \in active : RouterDelivers(k) => process = "up"
  BY DEF RouterGrants, RouterRefuses, RouterDelivers, RouterTells, RouterSends, Delivers
<1> QED
  BY <1>1, <1>2, <1>3, <1>4, <1>5 DEF Next

(* No request of the application is under way while ~Session runs.         *)
QuietBeforeDestruction ==
  dtor # "alive" => \A o \in Ops \ Nested : pc[o] \in Ended \cup {"idle"}

LEMMA QuietStep ==
  ASSUME SInv, QuietBeforeDestruction, [Next]_vars
  PROVE  QuietBeforeDestruction'
<1> USE DEF QuietBeforeDestruction
<1>1. CASE LifecycleActions /\ UNCHANGED requestVars
  <2>1. ASSUME NEW t \in Leavers, LeaveStep(t)
        PROVE  dtor' = dtor
    BY <2>1 DEF LeaveStep, LeaveBegin, LeaveSend, LeaveWrite, LeaveMark, LeaveWait,
                LeaveMoves
  <2>2. RecvStep => dtor' = dtor
    BY DEF RecvStep, TestRunning, ReadMessage, ReadFails, HandleGoodbye, StopRunning,
           CloseAfterGoodbye, RecvMoves
  <2>3. SessionDtorStep => dtor # "alive" \/ SessionDtorBegin
    BY DEF SessionDtorStep, SessionDtorPool, SessionDtorMembers, DtorClose, DtorStop, DtorJoin,
           DtorPool, DtorPoolWakes, DtorMembers, DtorMoves
  <2>4. RouterLeaves \/ RouterReplies \/ LinkLost => dtor' = dtor
    BY DEF RouterLeaves, RouterReplies, RouterSends, LinkLost
  <2> QED
    BY <1>1, <2>1, <2>2, <2>3, <2>4 DEF LifecycleActions, SessionDtorBegin
<1>2. ASSUME NEW o \in Ops, OpStep(o)
      PROVE  QuietBeforeDestruction'
  <2>1. dtor' = dtor
    BY <1>2, RequestFrame
  <2>2. pc \in [Ops -> {"idle", "insert", "send", "write", "wait"} \cup Ended]
    BY DEF SInv, TInv, TypeOKSession
  <2>3. ASSUME dtor # "alive"
        PROVE  o \in Nested
    <3>1. GetId(o) => o \in Nested
      BY <2>3 DEF GetId, Calls
    <3>2. Insert(o) \/ Send(o) \/ Write(o) \/ Wait(o) =>
            pc[o] \in {"insert", "send", "write", "wait"}
      BY DEF Insert, Send, Write, Wait, OpMoves
    <3> QED
      BY <1>2, <2>3, <3>1, <3>2 DEF OpStep, Ended
  <2>4. \A p \in Ops : p # o => pc'[p] = pc[p]
    BY <1>2, <2>2 DEF OpStep, GetId, Insert, Send, Write, Wait, OpMoves
  <2> QED
    BY <2>1, <2>3, <2>4
<1> QED
  BY <1>1, <1>2, EraseFrame, MessageFrame, PoolFrame, RouterFrame, MapsFrame, StillUnchanged
     DEF Next

LEMMA CrashStep ==
  ASSUME SInv, QuietBeforeDestruction, CrashesOnlyInDestruction, [Next]_vars
  PROVE  CrashesOnlyInDestruction'
<1> USE DEF CrashesOnlyInDestruction
<1>1. CASE UNCHANGED vars
  BY <1>1, StillUnchanged DEF lifecycleVars, remote
<1>2. SUFFICES ASSUME Next, process = "up", process' = "terminated"
               PROVE  CrashesOnlyInDestruction'
  BY <1>1, StepsNeedProcess
<1>3. CASE LifecycleActions
  <2>1. ASSUME NEW t \in Leavers
        PROVE  ~LeaveStep(t)
    BY <1>2 DEF LeaveStep, LeaveBegin, LeaveSend, LeaveWrite, LeaveMark, LeaveWait,
                LeaveMoves, local
  <2>2. ~RecvStep
    BY <1>2 DEF RecvStep, TestRunning, ReadMessage, ReadFails, HandleGoodbye, StopRunning,
           CloseAfterGoodbye, RecvMoves
  <2>3. ~(RouterLeaves \/ RouterReplies \/ LinkLost)
    BY <1>2 DEF RouterLeaves, RouterReplies, RouterSends, LinkLost, local
  <2>4. ~(DtorBegin \/ DtorStop \/ DtorJoin \/ DtorPool \/ DtorPoolWakes)
    BY <1>2 DEF DtorBegin, DtorStop, DtorJoin, DtorPool, DtorPoolWakes, local
  <2>5. DtorClose \/ DtorMembers
    BY <1>3, <2>1, <2>2, <2>3, <2>4, LifecycleInside DEF LifecycleNext, DtorStep
  <2>6. CloseThrows /\ transport' = transport /\ dtor' \in {"stop", "gone"}
    BY <1>2, <2>5 DEF DtorClose, DtorMembers, DtorMoves, CloseInDestructor, remote
  <2> QED
    BY <2>6 DEF CloseThrows
<1>4. ASSUME NEW o \in Ops, OpStep(o)
      PROVE  CrashesOnlyInDestruction'
  <2>1. Insert(o) /\ mapsGone
    BY <1>2, <1>4 DEF OpStep, GetId, Insert, Send, Write, Wait
  <2>2. dtor # "alive"
    BY <2>1 DEF SInv, GInv, MapsGoLate
  <2>3. pc[o] = "insert" /\ pc'[o] = "send" /\ mapsGone'
    BY <2>1 DEF Insert, OpMoves, SInv, TInv, TypeOKSession
  <2>4. o \in Nested
    BY <2>2, <2>3 DEF QuietBeforeDestruction, Ended
  <2> QED
    BY <2>3, <2>4
<1>5. CASE HandleMessage
  <2>1. TInv /\ QInv
    BY <1>5, MessageFrame DEF SInv
  <2>2. CASE HandleSubscribed \/ HandleError
    <3>1. IsAnswer(msg)
      BY <2>2 DEF HandleSubscribed, HandleError, Handles, IsAnswer, AnswerTypes
    <3> QED
      BY <1>2, <2>1, <2>2, <3>1, FoundIsOwn DEF HandleSubscribed, HandleError, Dereference
  <2>3. CASE ~(HandleSubscribed \/ HandleError)
    BY <1>2, <1>5, <2>3 DEF HandleMessage, HandleAcknowledgement, HandleRegistered,
       HandleUnregistered, HandleInvocation, HandleEvent
  <2> QED
    BY <2>2, <2>3
<1> QED
  BY <1>2, <1>3, <1>4, <1>5, EraseFrame, PoolFrame, RouterFrame, MapsFrame DEF Next

LEMMA CrashInvariant == Spec => [](QuietBeforeDestruction /\ CrashesOnlyInDestruction)
<1>1. Init => QuietBeforeDestruction /\ CrashesOnlyInDestruction
  BY DEF Init, LifecycleInit, QuietBeforeDestruction, CrashesOnlyInDestruction
<1>2. SInv /\ (QuietBeforeDestruction /\ CrashesOnlyInDestruction) /\ [Next]_vars
        => (QuietBeforeDestruction /\ CrashesOnlyInDestruction)'
  BY QuietStep, CrashStep
<1> QED
  BY <1>1, <1>2, SessionInvariant, PTL DEF Spec, SafeSpec

(* No exception and no undefined behaviour of the session ends the process *)
(* but a close() in ~Session over TCP, and a handler's own request that    *)
(* meets the maps destroyed before the pool, ...                           *)
THEOREM SessionCrashesLate == Spec => []CrashesOnlyInDestruction
BY CrashInvariant, PTL

(* ... so that a session over a unix socket whose handlers make no request *)
(* never does, whatever its requests, callbacks and ends.                  *)
THEOREM SessionNeverTerminates ==
  ASSUME Nested = {}
  PROVE  Spec => []NeverTerminates
<1>1. SInv /\ CrashesOnlyInDestruction => NeverTerminates
  BY DEF CrashesOnlyInDestruction, NeverTerminates, SInv, TInv, TypeOKSession, LifecycleTypeOK
<1> QED
  BY <1>1, SessionInvariant, SessionCrashesLate, PTL

-----------------------------------------------------------------------------
(* A request that has been inserted has its entry until its promise is set *)
(* or broken, and the entries are gone with the maps.                      *)
WaitsForEntry ==
  /\ mapsGone => requests = {}
  /\ \A o \in Acknowledged : pc[o] \in {"send", "write", "wait"} =>
       o \in requests \/ promise[o] # NoMessage

LEMMA WaitsForEntryStep ==
  ASSUME SInv, WaitsForEntry, [Next]_vars
  PROVE  WaitsForEntry'
<1> USE DEF WaitsForEntry
<1>type. TypeOKSession
  BY DEF SInv, TInv
<1>1. CASE UNCHANGED <<pc, requests, promise, mapsGone>>
  BY <1>1
<1>2. ASSUME NEW o \in Ops, OpStep(o)
      PROVE  WaitsForEntry'
  <2>1. mapsGone' = mapsGone /\ \A p \in Ops : p # o => pc'[p] = pc[p]
    BY <1>2, <1>type, RequestFrame DEF OpStep, GetId, Insert, Send, Write, Wait, OpMoves,
       TypeOKSession
  <2>2. CASE Insert(o)
    <3>1. \/ ~mapsGone /\ requests' = requests \cup {o} /\ promise' = promise
          \/ requests' = requests /\ promise' = [promise EXCEPT ![o] = Broken]
      BY <2>2 DEF Insert
    <3>2. Broken # NoMessage
      BY DEF Broken, NoMessage
    <3> QED
      BY <1>type, <2>1, <3>1, <3>2 DEF TypeOKSession, Acknowledged
  <2>3. CASE GetId(o) \/ Wait(o)
    <3>1. UNCHANGED <<requests, promise>>
      BY <2>3 DEF GetId, Wait
    <3>2. o \in Acknowledged => pc'[o] \notin {"send", "write", "wait"}
      BY <1>type, <2>3 DEF GetId, Wait, OpMoves, TypeOKSession, Acknowledged, Outcome
    <3> QED
      BY <2>1, <3>1, <3>2 DEF Acknowledged
  <2>4. CASE Send(o) \/ Write(o)
    <3>1. UNCHANGED <<requests, promise>> /\ pc[o] \in {"send", "write"}
      BY <2>4 DEF Send, Write, OpMoves
    <3> QED
      BY <2>1, <3>1 DEF Acknowledged
  <2> QED
    BY <1>2, <2>2, <2>3, <2>4 DEF OpStep
<1>3. CASE HandleMessage
  <2>1. UNCHANGED <<pc, mapsGone>> /\ ~mapsGone
    BY <1>3, MessageFrame
  <2>2. \/ UNCHANGED <<requests, promise>>
        \/ Settle /\ msg.type \in AnswerTypes
    BY <1>3 DEF HandleMessage, HandleAcknowledgement, HandleRegistered, HandleUnregistered,
       HandleSubscribed, HandleError, HandleInvocation, HandleEvent, Handles, AnswerTypes
  <2>3. msg.type \in AnswerTypes => msg # NoMessage
    BY DEF NoMessage, AnswerTypes
  <2> QED
    BY <2>1, <2>2, <2>3 DEF Settle, Acknowledged
<1>4. CASE SessionDtorMaps
  <2>1. Broken # NoMessage
    BY DEF Broken, NoMessage
  <2> QED
    BY <1>4, <2>1 DEF SessionDtorMaps, Acknowledged
<1> QED
  BY <1>1, <1>2, <1>3, <1>4, EraseFrame, PoolFrame, RouterFrame, StillUnchanged DEF Next

(* Once the maps are gone no handler waits for an answer that can no longer*)
(* come, so that the pool can be joined.                                   *)
THEOREM NoHandlerWaitsOn == Spec => []NoWaitOutlivesMaps
<1>1. Init => WaitsForEntry
  BY DEF Init, WaitsForEntry, Acknowledged
<1>2. SInv /\ WaitsForEntry /\ [Next]_vars => WaitsForEntry'
  BY WaitsForEntryStep
<1>3. WaitsForEntry => NoWaitOutlivesMaps
  BY DEF WaitsForEntry, NoWaitOutlivesMaps
<1> QED
  BY <1>1, <1>2, <1>3, SessionInvariant, PTL DEF Spec, SafeSpec

-----------------------------------------------------------------------------
(* A handler map, and a task that was made from one, holds under a key the *)
(* handler that was given for that key.                                    *)
OwnTask(t) ==
  t.handler \in Ops =>
    t.delivery.of = IF t.delivery.type = "INVOCATION" THEN t.handler ELSE Topic[t.handler]

HandlersOwn ==
  /\ \A r \in Ops : registrations[r] \in Ops => registrations[r] = r
  /\ \A k \in Topics : subscriptions[k] \in Ops => Topic[subscriptions[k]] = k

TasksOwn ==
  /\ \A i \in 1..Len(tasks) : OwnTask(tasks[i])
  /\ \A t \in executing : OwnTask(t)

LEMMA OwnMessageStep ==
  ASSUME SInv, HandlersOwn, TasksOwn, HandleMessage
  PROVE  HandlersOwn' /\ TasksOwn'
<1> USE DEF HandlersOwn
<1>type. TypeOKSession
  BY DEF SInv, TInv
<1>1. executing' = executing
  BY MessageFrame
<1>2. CASE HandleAcknowledgement \/ HandleUnregistered \/ HandleError
  <2>1. /\ \A r \in Ops : registrations'[r] \in {registrations[r], Absent}
        /\ UNCHANGED <<subscriptions, tasks>>
    BY <1>2 DEF HandleAcknowledgement, HandleUnregistered, HandleError
  <2> QED
    BY <1>1, <2>1 DEF TasksOwn
<1>3. CASE HandleRegistered \/ HandleSubscribed
  <2>1. IsAnswer(msg)
    BY <1>3 DEF HandleRegistered, HandleSubscribed, Handles, IsAnswer, AnswerTypes
  <2>2. msg.of \in Ops /\ Found = {msg.of}
    BY <1>3, <2>1, FoundIsOwn, MessageFrame DEF SInv
  <2>3. CASE HandleRegistered
    <3>1. /\ \A r \in Ops : registrations'[r] \in {registrations[r], msg.of}
          /\ \A r \in Ops : r # msg.of => registrations'[r] = registrations[r]
          /\ UNCHANGED <<subscriptions, tasks>>
      BY <1>type, <2>2, <2>3 DEF HandleRegistered, Emplaced, TypeOKSession
    <3> QED
      BY <1>1, <3>1 DEF TasksOwn
  <2>4. CASE HandleSubscribed
    <3>1. /\ \A k \in Topics : subscriptions'[k] \in {subscriptions[k], msg.of}
          /\ \A k \in Topics : k # Topic[msg.of] => subscriptions'[k] = subscriptions[k]
          /\ UNCHANGED <<registrations, tasks>>
      BY <1>type, <2>2, <2>4 DEF HandleSubscribed, Emplaced, TypeOKSession
    <3> QED
      BY <1>1, <3>1 DEF TasksOwn
  <2> QED
    BY <1>3, <2>3, <2>4
<1>4. ASSUME NEW t, tasks' \in {tasks, Append(tasks, t)}, OwnTask(t)
      PROVE  TasksOwn'
  <2>1. tasks \in Seq(Tasks)
    BY <1>type DEF TypeOKSession
  <2>2. \A i \in 1..Len(tasks') : tasks'[i] = t \/ (i \in 1..Len(tasks) /\ tasks'[i] = tasks[i])
    BY <1>4, <2>1
  <2> QED
    BY <1>1, <1>4, <2>2 DEF TasksOwn, OwnTask
<1>5. CASE HandleInvocation
  <2>1. msg.type = "INVOCATION" /\ msg.of \in Ops
    BY <1>5, <1>type, MessageFields DEF HandleInvocation, Handles, TypeOKSession,
       LifecycleTypeOK
  <2> DEFINE t == [delivery |-> msg, handler |-> registrations[msg.of]]
  <2>2. OwnTask(t)
    BY <2>1 DEF OwnTask
  <2>3. tasks' \in {tasks, Append(tasks, t)}
    BY <1>5 DEF HandleInvocation, Enqueue
  <2>4. /\ \A r \in Ops : registrations'[r] \in {registrations[r], MovedOut}
        /\ UNCHANGED subscriptions
    BY <1>5, <1>type DEF HandleInvocation, MovedFrom, TypeOKSession
  <2> HIDE DEF t
  <2> QED
    BY <1>4, <2>2, <2>3, <2>4
<1>6. CASE HandleEvent
  <2>1. msg.type = "EVENT" /\ msg.of \in Topics
    BY <1>6, <1>type, MessageFields DEF HandleEvent, Handles, TypeOKSession, LifecycleTypeOK
  <2> DEFINE t == [delivery |-> msg, handler |-> subscriptions[msg.of]]
  <2>2. OwnTask(t)
    BY <2>1 DEF OwnTask
  <2>3. tasks' \in {tasks, Append(tasks, t)}
    BY <1>6 DEF HandleEvent, Enqueue
  <2>4. /\ \A k \in Topics : subscriptions'[k] \in {subscriptions[k], MovedOut}
        /\ UNCHANGED registrations
    BY <1>6, <1>type DEF HandleEvent, MovedFrom, TypeOKSession
  <2> HIDE DEF t
  <2> QED
    BY <1>4, <2>2, <2>3, <2>4
<1> QED
  BY <1>2, <1>3, <1>5, <1>6 DEF HandleMessage

LEMMA OwnStep ==
  ASSUME SInv, HandlersOwn, TasksOwn, [Next]_vars
  PROVE  HandlersOwn' /\ TasksOwn'
<1> USE DEF HandlersOwn, TasksOwn, OwnTask
<1>1. CASE UNCHANGED <<registrations, subscriptions, tasks, executing>>
  BY <1>1
<1>2. CASE SessionDtorMaps
  BY <1>2, MapsFrame
<1>3. CASE StartTask
  <2>1. /\ UNCHANGED <<registrations, subscriptions>> /\ tasks \in Seq(Tasks) /\ tasks # <<>>
        /\ tasks' = Tail(tasks) /\ executing' = executing \cup {Head(tasks)}
    BY <1>3 DEF StartTask, PoolMoves, SInv, TInv, TypeOKSession
  <2>2. /\ Head(tasks) = tasks[1] /\ 1 \in 1..Len(tasks)
        /\ \A i \in 1..Len(tasks') : tasks'[i] = tasks[i + 1] /\ i + 1 \in 1..Len(tasks)
    BY <2>1
  <2> QED
    BY <2>1, <2>2
<1>4. ASSUME NEW t \in executing, FinishTask(t)
      PROVE  HandlersOwn' /\ TasksOwn'
  BY <1>4, PoolFrame DEF FinishTask
<1>5. CASE EraseRegistration
  <2>1. \A r \in Ops : registrations'[r] \in {registrations[r], Absent}
    BY <1>5, EraseFrame DEF SInv, TInv, TypeOKSession
  <2>2. UNCHANGED <<subscriptions, tasks, executing>>
    BY <1>5, EraseFrame
  <2> QED
    BY <2>1, <2>2
<1> QED
  BY <1>1, <1>2, <1>3, <1>4, <1>5, OwnMessageStep, RequestFrame, RouterFrame, StillUnchanged
     DEF Next

(* A handler is run for deliveries of its own registration or topic only.  *)
THEOREM HandlersAreOwn == Spec => []HandlerIsOwn
<1>1. Init => HandlersOwn /\ TasksOwn
  BY DEF Init, HandlersOwn, TasksOwn
<1>2. SInv /\ (HandlersOwn /\ TasksOwn) /\ [Next]_vars => (HandlersOwn /\ TasksOwn)'
  BY OwnStep
<1>3. HandlersOwn /\ TasksOwn => HandlerIsOwn
  BY DEF TasksOwn, OwnTask, HandlerIsOwn
<1> QED
  BY <1>1, <1>2, <1>3, SessionInvariant, PTL DEF Spec, SafeSpec

-----------------------------------------------------------------------------
(* What a request that ended well, and an unregister request from its      *)
(* beginning, know: the answers they rest on are there, and stay.          *)
OkIsGranted ==
  \A o \in Ops : pc[o] = "ok" /\ Kind[o] # "notify" =>
    promise[o] \in Answers /\ promise[o].type # "ERROR"

UnregisterNamesGranted ==
  \A o \in Ops : Kind[o] = "unregister" /\ pc[o] # "idle" => promise[target[o]] \in Answers

(* The registration goes with the answer, and does not come back.          *)
RemovedWithAnswer ==
  \A o \in Ops :
    Kind[o] = "unregister" /\ promise[o] \in Answers /\ promise[o].type # "ERROR"
      => registrations[target[o]] = Absent

UInv == OkIsGranted /\ UnregisterNamesGranted /\ RemovedWithAnswer

LEMMA AnswerStays ==
  ASSUME SInv, [Next]_vars, NEW o \in Ops, promise[o] \in Answers
  PROVE  promise'[o] = promise[o]
<1>1. ASSUME NEW p \in Ops, OpStep(p)
      PROVE  promise'[o] = promise[o]
  <2>1. CASE Insert(p)
    <3>1. p # o
      BY <2>1 DEF Insert, OpMoves, SInv, GInv, SentInTime, PromiseTellsVerdict
    <3> QED
      BY <2>1, <3>1 DEF Insert, SInv, TInv, TypeOKSession
  <2>2. CASE GetId(p) \/ Send(p) \/ Write(p) \/ Wait(p)
    BY <2>2 DEF GetId, Send, Write, Wait
  <2> QED
    BY <1>1, <2>1, <2>2 DEF OpStep
<1>2. CASE HandleMessage
  <2>1. promise' = promise \/ (Settle /\ IsAnswer(msg))
    BY <1>2 DEF HandleMessage, HandleAcknowledgement, HandleRegistered, HandleUnregistered,
       HandleSubscribed, HandleError, HandleInvocation, HandleEvent, Handles, IsAnswer,
       AnswerTypes
  <2>2. QInv
    BY <1>2, MessageFrame DEF SInv
  <2>3. o \notin requests
    BY <2>2, NotAnswers DEF QInv, EntryInTime
  <2>4. Found \subseteq requests
    BY DEF Found, Entry
  <2> QED
    BY <2>1, <2>3, <2>4 DEF Settle
<1>3. CASE SessionDtorMaps
  BY <1>3, NotAnswers DEF SessionDtorMaps
<1> QED
  BY <1>1, <1>2, <1>3, PoolFrame, RouterFrame, EraseFrame, StillUnchanged DEF Next

LEMMA PromiseStays ==
  ASSUME SInv, [Next]_vars, NEW o \in Ops, promise[o] # NoMessage
  PROVE  promise'[o] = promise[o]
<1>1. CASE promise[o] \in Answers
  BY <1>1, AnswerStays
<1>2. CASE promise[o] = Broken
  <2>1. ASSUME NEW p \in Ops, OpStep(p)
        PROVE  promise'[o] = promise[o]
    BY <1>2, <2>1 DEF OpStep, GetId, Insert, Send, Write, Wait, SInv, TInv, TypeOKSession
  <2>2. CASE HandleMessage
    <3>1. QInv
      BY <2>2, MessageFrame DEF SInv
    <3>2. o \notin requests
      BY <3>1 DEF QInv, EntryInTime
    <3>3. promise' = promise \/ Settle
      BY <2>2 DEF HandleMessage, HandleAcknowledgement, HandleRegistered, HandleUnregistered,
         HandleSubscribed, HandleError, HandleInvocation, HandleEvent
    <3> QED
      BY <3>2, <3>3 DEF Settle, Found, Entry
  <2>3. CASE SessionDtorMaps
    BY <2>3 DEF SessionDtorMaps
  <2> QED
    BY <2>1, <2>2, <2>3, PoolFrame, RouterFrame, EraseFrame, StillUnchanged DEF Next
<1>3. promise[o] \in Answers \cup {NoMessage, Broken}
  BY DEF SInv, TInv, TypeOKSession
<1> QED
  BY <1>1, <1>2, <1>3

(* A promise is set once: what a caller reads from its future is the first *)
(* thing that was said about its request, and stays.                       *)
THEOREM PromisesSetOnce == Spec => PromisesAreFinal
<1>1. SInv /\ [Next]_vars
        => [\A o \in Ops : promise[o] # NoMessage => promise'[o] = promise[o]]_vars
  BY PromiseStays
<1> QED
  BY <1>1, SessionInvariant, PTL DEF Spec, SafeSpec, PromisesAreFinal

(* Only the answer itself, and to an unregister request only UNREGISTERED  *)
(* if it is no ERROR, makes a promise hold an answer.                      *)
LEMMA AnswerComes ==
  ASSUME SInv, [Next]_vars, NEW o \in Ops, promise[o] \notin Answers, promise'[o] \in Answers
  PROVE  /\ HandleMessage /\ Found = {o} /\ msg.of = o /\ promise'[o] = msg
         /\ msg.type \in {"ERROR", AnswerType[Kind[o]]}
<1>1. ASSUME NEW p \in Ops, OpStep(p)
      PROVE  FALSE
  <2>1. promise'[o] \in {promise[o], Broken}
    BY <1>1 DEF OpStep, GetId, Insert, Send, Write, Wait, SInv, TInv, TypeOKSession
  <2> QED
    BY <2>1, NotAnswers
<1>2. ~SessionDtorMaps
  BY NotAnswers DEF SessionDtorMaps
<1>3. HandleMessage
  BY <1>1, <1>2, PoolFrame, RouterFrame, EraseFrame, StillUnchanged DEF Next
<1>4. Settle /\ IsAnswer(msg)
  BY <1>3 DEF HandleMessage, HandleAcknowledgement, HandleRegistered, HandleUnregistered,
     HandleSubscribed, HandleError, HandleInvocation, HandleEvent, Handles, IsAnswer,
     AnswerTypes
<1>5. TInv /\ QInv
  BY <1>3, MessageFrame DEF SInv
<1>6. msg.of \in Ops /\ Found = {msg.of} /\ Awaited(msg)
  BY <1>4, <1>5, FoundIsOwn DEF QInv, AnswersAwaited
<1>7. msg.of = o
  BY <1>4, <1>6 DEF Settle
<1> QED
  BY <1>3, <1>4, <1>6, <1>7 DEF Settle, Awaited

LEMMA UInvStep ==
  ASSUME SInv, UInv, [Next]_vars
  PROVE  UInv'
<1> USE DEF UInv
<1>type. TypeOKSession /\ TypeOKSession' /\ OkHasAnswer
  BY TInvStep DEF SInv, TInv
<1>1. OkIsGranted'
  <2> SUFFICES ASSUME NEW o \in Ops, pc'[o] = "ok", Kind[o] # "notify"
               PROVE  promise'[o] \in Answers /\ promise'[o].type # "ERROR"
    BY DEF OkIsGranted
  <2>1. CASE pc[o] = "ok"
    BY <2>1, AnswerStays DEF OkIsGranted
  <2>2. CASE pc[o] # "ok"
    <3>1. PICK p \in Ops : OpStep(p)
      BY <2>2, MessageFrame, PoolFrame, RouterFrame, MapsFrame, EraseFrame, StillUnchanged
         DEF Next
    <3>2. p = o /\ Wait(o)
      BY <2>2, <3>1, <1>type DEF OpStep, GetId, Insert, Send, Write, Wait, OpMoves,
         TypeOKSession
    <3>3. Outcome(promise[o]) = "ok" /\ promise' = promise
      BY <3>2, <1>type DEF Wait, OpMoves, TypeOKSession
    <3> QED
      BY <3>3, <1>type DEF Outcome, TypeOKSession
  <2> QED
    BY <2>1, <2>2
<1>2. ASSUME NEW o \in Ops, pc[o] # "idle"
      PROVE  target'[o] = target[o]
  <2>1. ASSUME NEW p \in Ops, OpStep(p)
        PROVE  target'[o] = target[o]
    <3>1. CASE GetId(p)
      <4>1. p # o
        BY <1>2, <3>1 DEF GetId, OpMoves
      <4>2. target' = target \/ \E v : target' = [target EXCEPT ![p] = v]
        BY <3>1 DEF GetId
      <4> QED
        BY <4>1, <4>2, <1>type DEF TypeOKSession
    <3>2. CASE Insert(p) \/ Send(p) \/ Write(p) \/ Wait(p)
      BY <3>2 DEF Insert, Send, Write, Wait
    <3> QED
      BY <2>1, <3>1, <3>2 DEF OpStep
  <2> QED
    BY <2>1, MessageFrame, PoolFrame, RouterFrame, MapsFrame, EraseFrame, StillUnchanged DEF Next
<1>3. UnregisterNamesGranted'
  <2> SUFFICES ASSUME NEW o \in Ops, Kind[o] = "unregister", pc'[o] # "idle"
               PROVE  promise'[target'[o]] \in Answers
    BY DEF UnregisterNamesGranted
  <2>1. CASE pc[o] # "idle"
    <3>1. target'[o] = target[o] /\ target[o] \in Ops /\ promise[target[o]] \in Answers
      BY <2>1, <1>2, <1>type DEF UnregisterNamesGranted, TypeOKSession
    <3> QED
      BY <3>1, AnswerStays
  <2>2. CASE pc[o] = "idle"
    <3>1. PICK p \in Ops : OpStep(p)
      BY <2>2, MessageFrame, PoolFrame, RouterFrame, MapsFrame, EraseFrame, StillUnchanged
         DEF Next
    <3>2. GetId(o)
      <4>1. ASSUME NEW from, NEW to, OpMoves(p, from, to)
            PROVE  p = o /\ from = "idle"
        BY <2>2, <4>1, <1>type DEF OpMoves, TypeOKSession
      <4>2. CASE GetId(p)
        BY <4>1, <4>2 DEF GetId
      <4>3. CASE Insert(p) \/ Send(p) \/ Write(p) \/ Wait(p)
        BY <4>1, <4>3 DEF Insert, Send, Write, Wait
      <4> QED
        BY <3>1, <4>2, <4>3 DEF OpStep
    <3>3. PICK q \in Ops : /\ Undoes(o, q) /\ pc[q] = "ok"
                           /\ target' = [target EXCEPT ![o] = promise[q].of]
      BY <3>2 DEF GetId
    <3>4. Kind[q] # "notify"
      BY <3>3 DEF Undoes
    <3>5. promise[q] \in Answers /\ promise[q].of = q /\ promise' = promise
      BY <3>2, <3>3, <3>4 DEF GetId, OkIsGranted, SInv, GInv, PromiseTellsVerdict
    <3> QED
      BY <3>3, <3>5, <1>type DEF TypeOKSession
  <2> QED
    BY <2>1, <2>2
<1>4. ASSUME NEW o \in Ops, promise[o] \in Answers
      PROVE  pc[o] # "idle"
  BY <1>4 DEF SInv, GInv, SentInTime, PromiseTellsVerdict
<1>5. ASSUME NEW o \in Ops, Kind[o] = "unregister", promise[o] \in Answers,
             registrations[target[o]] = Absent
      PROVE  registrations'[target[o]] = Absent
  <2>1. target[o] \in Ops /\ promise[target[o]] \in Answers
    BY <1>4, <1>5, <1>type DEF UnregisterNamesGranted, TypeOKSession
  <2>2. CASE HandleRegistered
    <3>1. IsAnswer(msg) /\ TInv /\ QInv
      BY <2>2, MessageFrame DEF HandleMessage, HandleRegistered, Handles, IsAnswer, AnswerTypes,
         SInv
    <3>2. msg.of \in Ops /\ Found = {msg.of} /\ Awaited(msg)
      BY <3>1, FoundIsOwn DEF QInv, AnswersAwaited
    <3>3. msg.of # target[o]
      BY <2>1, <3>1, <3>2, NotAnswers DEF QInv, EntryInTime, Awaited
    <3> QED
      BY <1>5, <2>1, <2>2, <3>3, <1>type DEF HandleRegistered, Emplaced, TypeOKSession
  <2>3. CASE HandleInvocation
    BY <1>5, <2>1, <2>3, <1>type DEF HandleInvocation, MovedFrom, TypeOKSession
  <2>4. CASE HandleUnregistered
    BY <1>5, <2>1, <2>4 DEF HandleUnregistered
  <2>5. CASE HandleAcknowledgement \/ HandleSubscribed \/ HandleError \/ HandleEvent
    BY <1>5, <2>5 DEF HandleAcknowledgement, HandleSubscribed, HandleError, HandleEvent
  <2>6. CASE SessionDtorMaps
    BY <2>1, <2>6, MapsFrame
  <2>7. CASE EraseRegistration
    BY <1>5, <2>1, <2>7, EraseFrame, <1>type DEF TypeOKSession
  <2> QED
    BY <1>5, <2>2, <2>3, <2>4, <2>5, <2>6, <2>7, RequestFrame, PoolFrame, RouterFrame,
       StillUnchanged
       DEF Next, HandleMessage
<1>6. RemovedWithAnswer'
  <2> SUFFICES ASSUME NEW o \in Ops, Kind[o] = "unregister", promise'[o] \in Answers,
                      promise'[o].type # "ERROR"
               PROVE  registrations'[target'[o]] = Absent
    BY DEF RemovedWithAnswer
  <2>1. CASE promise[o] \in Answers
    BY <2>1, <1>2, <1>4, <1>5, AnswerStays DEF RemovedWithAnswer
  <2>2. CASE promise[o] \notin Answers
    <3>1. HandleMessage /\ Found = {o} /\ msg.type = "UNREGISTERED"
      BY <2>2, AnswerComes DEF AnswerType, Kinds
    <3>2. HandleUnregistered /\ target' = target /\ target[o] \in Ops
      BY <3>1, MessageFrame, <1>type DEF HandleMessage, HandleAcknowledgement, HandleRegistered,
         HandleSubscribed, HandleError, HandleInvocation, HandleEvent, Handles, TypeOKSession
    <3>3. registrations[target[o]] = Absent /\ registrations' = registrations
      BY <3>1, <3>2 DEF HandleUnregistered
    <3> QED
      BY <3>2, <3>3
  <2> QED
    BY <2>1, <2>2
<1> QED
  BY <1>1, <1>3, <1>6

LEMMA UInvInit == Init => UInv
BY NotAnswers DEF Init, UInv, OkIsGranted, UnregisterNamesGranted, RemovedWithAnswer

LEMMA UInvInvariant == Spec => []UInv
<1>1. SInv /\ UInv /\ [Next]_vars => UInv'
  BY UInvStep
<1> QED
  BY <1>1, UInvInit, SessionInvariant, PTL DEF Spec, SafeSpec

(* Once unregister() has returned its handler is out of the map for good.  *)
THEOREM UnregisteredIsRemoved == Spec => []UnregisterRemoves
<1>1. UInv => UnregisterRemoves
  BY DEF UInv, OkIsGranted, RemovedWithAnswer, UnregisterRemoves
<1> QED
  BY <1>1, UInvInvariant, PTL

-----------------------------------------------------------------------------
(* The message being processed and the inbox as one line.  An INVOCATION   *)
(* stands behind the REGISTERED of its registration, or the handler is in  *)
(* the map already, and before the UNREGISTERED; so would the next one the *)
(* router sends, for what it has as active.                                *)
At(i) == IF i = 0 THEN msg ELSE inbox[i]

Registers(m, r) == m.type = "REGISTERED" /\ m.of = r
Removes(m, r) == m.type = "UNREGISTERED" /\ target[m.of] = r

InForce(r, k) ==
  /\ registrations[r] # Absent \/ \E j \in 0..(k - 1) : Registers(At(j), r)
  /\ \A j \in 0..(k - 1) : ~Removes(At(j), r)

LineInOrder == ~mapsGone =>
  /\ \A r \in active \cap Ops : InForce(r, Len(inbox) + 1)
  /\ \A i \in 0..Len(inbox) : At(i).type = "INVOCATION" => InForce(At(i).of, i)

ReaderIdle == recv # "process" => msg = NoMessage

IInvocation == ReaderIdle /\ LineInOrder

LEMMA ReaderIdleStep ==
  ASSUME SInv, ReaderIdle, [Next]_vars
  PROVE  ReaderIdle'
<1> USE DEF ReaderIdle
<1>1. CASE LifecycleActions
  <2>1. ASSUME NEW t \in Leavers, LeaveStep(t)
        PROVE  UNCHANGED <<recv, msg>>
    BY <2>1 DEF LeaveStep, LeaveBegin, LeaveSend, LeaveWrite, LeaveMark, LeaveWait,
                LeaveMoves, reader
  <2>2. TestRunning \/ ReadFails \/ StopRunning \/ CloseAfterGoodbye =>
          recv # "process" /\ msg' = msg
    BY DEF TestRunning, ReadFails, StopRunning, CloseAfterGoodbye, RecvMoves
  <2>3. ReadMessage => recv' = "process"
    BY DEF ReadMessage, RecvMoves
  <2>4. HandleGoodbye => msg' = NoMessage
    BY DEF HandleGoodbye
  <2>5. DtorStep => UNCHANGED <<recv, msg>>
    BY DEF DtorStep, DtorBegin, DtorClose, DtorStop, DtorJoin, DtorPool, DtorPoolWakes,
           DtorMembers, DtorMoves, reader
  <2>6. RouterLeaves \/ RouterReplies \/ LinkLost => UNCHANGED <<recv, msg>>
    BY DEF RouterLeaves, RouterReplies, RouterSends, LinkLost, reader
  <2> QED
    BY <1>1, <2>1, <2>2, <2>3, <2>4, <2>5, <2>6, LifecycleInside DEF LifecycleNext, RecvStep
<1> QED
  BY <1>1, RequestFrame, MessageFrame, PoolFrame, RouterFrame, MapsFrame, EraseFrame, StillUnchanged
     DEF Next

(* The line stays in order when nothing in it moves, ...                   *)
LEMMA LineStays ==
  ASSUME LineInOrder, UNCHANGED <<msg, inbox, active, registrations, mapsGone>>,
         \A i \in 0..Len(inbox), r \in Ops : Removes(At(i), r)' => Removes(At(i), r),
         \A i \in 0..Len(inbox) : At(i).type = "INVOCATION" => At(i).of \in Ops,
         inbox \in Seq(Messages)
  PROVE  LineInOrder'
<1>1. \A i : At(i)' = At(i)
  BY DEF At
<1>2. Len(inbox) \in Nat
  OBVIOUS
<1>3. ASSUME NEW r \in Ops, NEW k \in 0..(Len(inbox) + 1), InForce(r, k)
      PROVE  InForce(r, k)'
  <2>1. 0..(k - 1) \subseteq 0..Len(inbox)
    BY <1>2
  <2>2. \A j \in 0..(k - 1) : ~Removes(At(j), r)'
    BY <1>3, <2>1 DEF InForce
  <2>3. registrations'[r] # Absent \/ \E j \in 0..(k - 1) : Registers(At(j), r)'
    BY <1>1, <1>3 DEF InForce, Registers
  <2> QED
    BY <2>2, <2>3 DEF InForce
<1>4. 0..Len(inbox) \subseteq 0..(Len(inbox) + 1) /\ Len(inbox) + 1 \in 0..(Len(inbox) + 1)
  BY <1>2
<1>5. ~mapsGone => \A r \in active \cap Ops : InForce(r, Len(inbox) + 1)'
  BY <1>3, <1>4 DEF LineInOrder
<1>6. ASSUME NEW i \in 0..Len(inbox), ~mapsGone, At(i).type = "INVOCATION"
      PROVE  InForce(At(i).of, i)'
  <2>1. InForce(At(i).of, i) /\ At(i).of \in Ops /\ i \in 0..(Len(inbox) + 1)
    BY <1>4, <1>6 DEF LineInOrder
  <2>2. InForce(At(i).of, i) => \A r : r = At(i).of => InForce(r, i)'
    BY <1>3, <2>1
  <2>3. \A r : r = At(i)'.of => (InForce(r, i)' => InForce(At(i).of, i)')
    BY DEF InForce
  <2> QED
    BY <1>1, <2>1, <2>2, <2>3
<1> QED
  BY <1>1, <1>5, <1>6 DEF LineInOrder

(* ... when its head is taken up for processing, ...                       *)
LEMMA LineShifts ==
  ASSUME LineInOrder, UNCHANGED <<target, active, registrations, mapsGone>>,
         msg = NoMessage, inbox \in Seq(Messages), inbox # <<>>,
         msg' = Head(inbox), inbox' = Tail(inbox),
         \A i \in 0..Len(inbox) : At(i).type = "INVOCATION" => At(i).of \in Ops
  PROVE  LineInOrder'
<1>1. /\ Len(inbox) \in Nat /\ Len(inbox) > 0 /\ Len(inbox') = Len(inbox) - 1
      /\ \A i \in 1..(Len(inbox) - 1) : inbox'[i] = inbox[i + 1]
      /\ msg' = inbox[1]
  OBVIOUS
<1>2. \A i \in 0..Len(inbox') : At(i)' = At(i + 1) /\ i + 1 \in 1..Len(inbox)
  BY <1>1 DEF At
<1>3. \A r : ~Registers(At(0), r) /\ ~Removes(At(0), r)
  BY DEF At, Registers, Removes, NoMessage
<1>4. ASSUME NEW r \in Ops, NEW k \in 0..(Len(inbox') + 1), InForce(r, k + 1)
      PROVE  InForce(r, k)'
  <2>1. ASSUME NEW j \in 0..(k - 1)
        PROVE  /\ At(j)' = At(j + 1) /\ j + 1 \in 0..((k + 1) - 1)
    BY <1>1, <1>2
  <2>2. ASSUME NEW j \in 0..(k - 1)
        PROVE  ~Removes(At(j), r)'
    <3>1. ~Removes(At(j + 1), r)
      BY <1>4, <2>1 DEF InForce
    <3> QED
      BY <2>1, <3>1 DEF Removes
  <2>3. ASSUME registrations[r] = Absent
        PROVE  \E j \in 0..(k - 1) : Registers(At(j), r)'
    <3>1. PICK j \in 0..((k + 1) - 1) : Registers(At(j), r)
      BY <1>4, <2>3 DEF InForce
    <3>2. j # 0
      BY <1>3, <3>1
    <3>3. j - 1 \in 0..(k - 1) /\ (j - 1) + 1 = j
      BY <3>2, <1>1
    <3>4. At(j - 1)' = At(j)
      BY <2>1, <3>3
    <3>5. Registers(At(j - 1), r)'
      BY <3>1, <3>4 DEF Registers
    <3> QED
      BY <3>3, <3>5
  <2> QED
    BY <2>2, <2>3 DEF InForce
<1>5. SUFFICES ASSUME ~mapsGone PROVE LineInOrder'
  BY DEF LineInOrder
<1>6. ASSUME NEW r \in active \cap Ops
      PROVE  InForce(r, Len(inbox) + 1)'
  <2>1. InForce(r, Len(inbox) + 1) /\ Len(inbox') + 1 \in 0..(Len(inbox') + 1)
        /\ (Len(inbox') + 1) + 1 = Len(inbox) + 1
    BY <1>1, <1>5 DEF LineInOrder
  <2> DEFINE k == Len(inbox') + 1
  <2>2. InForce(r, k + 1) /\ k \in 0..(Len(inbox') + 1)
    BY <2>1
  <2> HIDE DEF k
  <2>3. \A c \in 0..(Len(inbox') + 1) : InForce(r, c + 1) => InForce(r, c)'
    BY <1>4
  <2>4. \A c : c = Len(inbox') + 1 => (InForce(r, c)' => InForce(r, Len(inbox) + 1)')
    BY DEF InForce
  <2> QED
    BY <2>1, <2>3, <2>4
<1>7. ASSUME NEW i \in 0..Len(inbox'), At(i)'.type = "INVOCATION"
      PROVE  InForce(At(i).of, i)'
  <2>1. InForce(At(i + 1).of, i + 1) /\ At(i + 1).of \in Ops
    BY <1>1, <1>2, <1>5, <1>7 DEF LineInOrder
  <2>2. i \in 0..(Len(inbox') + 1)
    BY <1>1
  <2>3. \A r \in Ops : InForce(r, i + 1) => InForce(r, i)'
    BY <1>4, <2>2
  <2>4. \A r : r = At(i)'.of => (InForce(r, i)' => InForce(At(i).of, i)')
    BY DEF InForce
  <2> QED
    BY <1>2, <2>1, <2>3, <2>4
<1> QED
  BY <1>6, <1>7 DEF LineInOrder

(* ... when the router writes a message that keeps it, ...                 *)
LEMMA LineGrows ==
  ASSUME LineInOrder, UNCHANGED <<msg, target, registrations, mapsGone>>,
         inbox \in Seq(Messages), NEW m \in Messages, inbox' = Append(inbox, m),
         m.type = "INVOCATION" => m.of \in active \cap Ops,
         \A r \in active' \cap Ops :
           /\ ~Removes(m, r)
           /\ r \notin active => /\ Registers(m, r)
                               /\ \A j \in 0..Len(inbox) : ~Removes(At(j), r)
  PROVE  LineInOrder'
<1>1. /\ Len(inbox) \in Nat /\ Len(inbox') = Len(inbox) + 1
      /\ \A i \in 1..Len(inbox) : inbox'[i] = inbox[i]
      /\ inbox'[Len(inbox) + 1] = m
  OBVIOUS
<1>2. /\ \A j \in 0..Len(inbox) : At(j)' = At(j)
      /\ \A j : j = Len(inbox) + 1 => At(j)' = m
  BY <1>1 DEF At
<1>3. ASSUME NEW r, NEW k \in 0..(Len(inbox) + 1), InForce(r, k)
      PROVE  InForce(r, k)'
  <2>1. \A j \in 0..(k - 1) : At(j)' = At(j)
    BY <1>1, <1>2
  <2> QED
    BY <1>3, <2>1 DEF InForce, Registers, Removes
<1>4. SUFFICES ASSUME ~mapsGone PROVE LineInOrder'
  BY DEF LineInOrder
<1>5. ASSUME NEW r \in active' \cap Ops
      PROVE  InForce(r, Len(inbox) + 1)'
  <2> DEFINE n == Len(inbox) + 1
  <2>1. n \in Nat /\ 0..n = 0..Len(inbox) \cup {n} /\ Len(inbox') = n
    BY <1>1
  <2>2. ASSUME NEW j \in 0..n
        PROVE  ~Removes(At(j), r)'
    <3>1. CASE j = n
      BY <1>2, <1>5, <3>1 DEF Removes
    <3>2. CASE j \in 0..Len(inbox)
      <4>1. ~Removes(At(j), r)
        <5>1. CASE r \in active
          <6>1. InForce(r, Len(inbox) + 1)
            BY <1>4, <1>5, <5>1 DEF LineInOrder
          <6>2. j \in 0..((Len(inbox) + 1) - 1)
            BY <1>1, <3>2
          <6> QED
            BY <6>1, <6>2 DEF InForce
        <5>2. CASE r \notin active
          BY <1>5, <3>2, <5>2
        <5> QED
          BY <5>1, <5>2
      <4> QED
        BY <1>2, <3>2, <4>1 DEF Removes
    <3> QED
      BY <2>1, <3>1, <3>2
  <2>3. registrations'[r] # Absent \/ \E j \in 0..n : Registers(At(j), r)'
    <3>1. CASE r \in active
      <4>1. InForce(r, Len(inbox) + 1)
        BY <1>4, <1>5, <3>1 DEF LineInOrder
      <4>2. 0..((Len(inbox) + 1) - 1) = 0..Len(inbox)
        BY <1>1
      <4>3. registrations[r] # Absent \/ \E j \in 0..Len(inbox) : Registers(At(j), r)
        BY <4>1, <4>2 DEF InForce
      <4> QED
        BY <1>2, <2>1, <4>3 DEF Registers
    <3>2. CASE r \notin active
      BY <1>2, <1>5, <2>1, <3>2 DEF Registers
    <3> QED
      BY <3>1, <3>2
  <2>4. (Len(inbox') + 1) - 1 = n
    BY <1>1
  <2> HIDE DEF n
  <2> QED
    BY <2>2, <2>3, <2>4 DEF InForce
<1>6. ASSUME NEW i \in 0..Len(inbox'), At(i)'.type = "INVOCATION"
      PROVE  InForce(At(i).of, i)'
  <2>1. i \in 0..(Len(inbox) + 1)
    BY <1>1
  <2>2. InForce(At(i)'.of, i)
    <3>1. CASE i \in 0..Len(inbox)
      BY <1>2, <1>4, <1>6, <3>1 DEF LineInOrder
    <3>2. CASE i = Len(inbox) + 1
      BY <1>2, <1>4, <1>6, <3>2 DEF LineInOrder
    <3> QED
      BY <1>1, <2>1, <3>1, <3>2
  <2>3. \A r : InForce(r, i) => InForce(r, i)'
    BY <1>3, <2>1
  <2>4. \A r : r = At(i)'.of => (InForce(r, i)' => InForce(At(i).of, i)')
    BY DEF InForce
  <2> QED
    BY <2>2, <2>3, <2>4
<1> QED
  BY <1>5, <1>6 DEF LineInOrder

(* ... and when its head has been processed.                               *)
LEMMA LineHandled ==
  ASSUME LineInOrder, UNCHANGED <<inbox, target, active, mapsGone>>, msg' = NoMessage,
         inbox \in Seq(Messages),
         \A r \in Ops : Registers(msg, r) => registrations'[r] # Absent,
         \A r \in Ops : registrations[r] # Absent /\ ~Removes(msg, r) => registrations'[r] # Absent,
         \A i \in 0..Len(inbox) : At(i).type = "INVOCATION" => At(i).of \in Ops
  PROVE  LineInOrder'
<1>1. Len(inbox) \in Nat /\ \A j \in 1..Len(inbox) : At(j)' = At(j)
  BY DEF At
<1>2. At(0) = msg /\ At(0)' = NoMessage
  BY DEF At
<1>3. ASSUME NEW r \in Ops, NEW k \in 1..(Len(inbox) + 1), InForce(r, k)
      PROVE  InForce(r, k)'
  <2>1. 0..(k - 1) = {0} \cup 1..(k - 1) /\ 1..(k - 1) \subseteq 1..Len(inbox)
    BY <1>1
  <2>2. ~Removes(NoMessage, r)'
    BY DEF Removes, NoMessage
  <2>3. \A j \in 0..(k - 1) : ~Removes(At(j), r)'
    BY <1>1, <1>2, <1>3, <2>1, <2>2 DEF InForce, Removes
  <2>4. ~Removes(msg, r)
    BY <1>2, <1>3, <2>1 DEF InForce
  <2>5. CASE registrations[r] # Absent
    BY <2>3, <2>4, <2>5 DEF InForce
  <2>6. CASE registrations[r] = Absent
    <3>1. PICK j \in 0..(k - 1) : Registers(At(j), r)
      BY <1>3, <2>6 DEF InForce
    <3>2. CASE j = 0
      BY <1>2, <2>3, <3>1, <3>2 DEF InForce
    <3>3. CASE j # 0
      <4>1. Registers(At(j), r)'
        BY <1>1, <2>1, <3>1, <3>3 DEF Registers
      <4> QED
        BY <2>3, <4>1 DEF InForce
    <3> QED
      BY <3>2, <3>3
  <2> QED
    BY <2>5, <2>6
<1>4. SUFFICES ASSUME ~mapsGone PROVE LineInOrder'
  BY DEF LineInOrder
<1>5. ASSUME NEW r \in active \cap Ops
      PROVE  InForce(r, Len(inbox) + 1)'
  <2>1. InForce(r, Len(inbox) + 1) /\ Len(inbox) + 1 \in 1..(Len(inbox) + 1)
    BY <1>1, <1>4 DEF LineInOrder
  <2>2. \A c \in 1..(Len(inbox) + 1) : InForce(r, c) => InForce(r, c)'
    BY <1>3
  <2>3. \A c : c = Len(inbox) + 1 => (InForce(r, c)' => InForce(r, Len(inbox) + 1)')
    BY DEF InForce
  <2> QED
    BY <2>1, <2>2, <2>3
<1>6. ASSUME NEW i \in 0..Len(inbox'), At(i)'.type = "INVOCATION"
      PROVE  InForce(At(i).of, i)'
  <2>1. i \in 1..Len(inbox)
    BY <1>1, <1>2, <1>6 DEF NoMessage
  <2>2. At(i)' = At(i) /\ i \in 0..Len(inbox) /\ i \in 1..(Len(inbox) + 1)
    BY <1>1, <2>1
  <2>3. InForce(At(i).of, i) /\ At(i).of \in Ops
    BY <1>4, <1>6, <2>2 DEF LineInOrder
  <2>4. \A r \in Ops : InForce(r, i) => InForce(r, i)'
    BY <1>3, <2>2
  <2>5. \A r : r = At(i)'.of => (InForce(r, i)' => InForce(At(i).of, i)')
    BY DEF InForce
  <2> QED
    BY <2>2, <2>3, <2>4, <2>5
<1> QED
  BY <1>5, <1>6 DEF LineInOrder

(* So it stays while UNREGISTERED, at the head, takes its handler out.      *)
LEMMA LineErased ==
  ASSUME LineInOrder, UNCHANGED <<msg, inbox, target, active, mapsGone>>,
         inbox \in Seq(Messages), msg.type = "UNREGISTERED",
         \A r \in Ops : registrations'[r] = registrations[r] \/ Removes(msg, r),
         \A i \in 0..Len(inbox) : At(i).type = "INVOCATION" => At(i).of \in Ops
  PROVE  LineInOrder'
<1>1. Len(inbox) \in Nat /\ At(0) = msg /\ \A j : At(j)' = At(j)
  BY DEF At
<1>2. ASSUME NEW r \in Ops, NEW k \in 1..(Len(inbox) + 1), InForce(r, k)
      PROVE  InForce(r, k)'
  <2>1. ~Removes(msg, r)
    BY <1>1, <1>2 DEF InForce
  <2> QED
    BY <1>1, <1>2, <2>1 DEF InForce, Registers, Removes
<1>3. SUFFICES ASSUME ~mapsGone PROVE LineInOrder'
  BY DEF LineInOrder
<1>4. ASSUME NEW r \in active \cap Ops
      PROVE  InForce(r, Len(inbox) + 1)'
  <2>1. InForce(r, Len(inbox) + 1) /\ Len(inbox) + 1 \in 1..(Len(inbox) + 1)
    BY <1>1, <1>3 DEF LineInOrder
  <2>2. \A c \in 1..(Len(inbox) + 1) : InForce(r, c) => InForce(r, c)'
    BY <1>2
  <2>3. \A c : c = Len(inbox) + 1 => (InForce(r, c)' => InForce(r, Len(inbox) + 1)')
    BY DEF InForce
  <2> QED
    BY <2>1, <2>2, <2>3
<1>5. ASSUME NEW i \in 0..Len(inbox'), At(i)'.type = "INVOCATION"
      PROVE  InForce(At(i).of, i)'
  <2>1. i \in 1..(Len(inbox) + 1) /\ i \in 0..Len(inbox) /\ At(i)' = At(i)
    BY <1>1, <1>5
  <2>2. InForce(At(i).of, i) /\ At(i).of \in Ops
    BY <1>3, <1>5, <2>1 DEF LineInOrder
  <2>3. \A r \in Ops : InForce(r, i) => InForce(r, i)'
    BY <1>2, <2>1
  <2>4. \A r : r = At(i)'.of => (InForce(r, i)' => InForce(At(i).of, i)')
    BY DEF InForce
  <2> QED
    BY <2>1, <2>2, <2>3, <2>4
<1> QED
  BY <1>4, <1>5 DEF LineInOrder

(* What the messages of the line are about.                                *)
LEMMA LineKnown ==
  ASSUME SInv, UInv
  PROVE  /\ inbox \in Seq(Messages)
         /\ \A i \in 0..Len(inbox) : At(i).type = "INVOCATION" => At(i).of \in Ops
         /\ ~mapsGone => \A i \in 0..Len(inbox) : At(i).type = "UNREGISTERED" =>
              /\ At(i).of \in Ops /\ pc[At(i).of] # "idle"
              /\ promise[target[At(i).of]] \in Answers
<1>1. inbox \in Seq(Messages) /\ msg \in Messages \cup {NoMessage} /\ requests \subseteq Ops
  BY DEF SInv, TInv, TypeOKSession, LifecycleTypeOK
<1>2. \A i \in 0..Len(inbox) : At(i) \in Messages \cup {NoMessage}
  BY <1>1 DEF At
<1>3. ASSUME NEW i \in 0..Len(inbox), ~mapsGone, At(i).type = "UNREGISTERED"
      PROVE  /\ At(i).of \in Ops /\ pc[At(i).of] # "idle"
             /\ promise[target[At(i).of]] \in Answers
  <2>1. QInv
    BY <1>3 DEF SInv
  <2>2. IsAnswer(At(i))
    BY <1>3 DEF IsAnswer, AnswerTypes
  <2>3. Awaited(At(i))
    BY <1>1, <1>3, <2>1, <2>2 DEF At, QInv, AnswersAwaited
  <2> DEFINE u == At(i).of
  <2>4. u \in Ops /\ pc[u] # "idle"
    BY <1>1, <2>1, <2>3 DEF Awaited, QInv, EntryInTime
  <2>5. AnswerType[Kind[u]] = "UNREGISTERED"
    BY <1>3, <2>3 DEF Awaited
  <2>6. Kind[u] = "unregister"
    BY <2>4, <2>5 DEF AnswerType, Kinds
  <2> QED
    BY <2>4, <2>6 DEF UInv, UnregisterNamesGranted
<1> QED
  BY <1>1, <1>2, <1>3, MessageFields

LEMMA LineMessageStep ==
  ASSUME SInv, UInv, LineInOrder, HandleMessage
  PROVE  LineInOrder'
<1>1. /\ UNCHANGED <<inbox, target, active, mapsGone>> /\ msg' = NoMessage /\ ~mapsGone
      /\ TInv /\ QInv
  BY MessageFrame DEF SInv
<1>type. registrations \in [Ops -> Handlers \cup {Absent}]
  BY <1>1 DEF TInv, TypeOKSession
<1>2. SUFFICES ASSUME NEW r \in Ops
               PROVE  /\ Registers(msg, r) => registrations'[r] # Absent
                      /\ registrations[r] # Absent /\ ~Removes(msg, r) => registrations'[r] # Absent
  BY <1>1, LineHandled, LineKnown
<1>3. IsAnswer(msg) => msg.of \in Ops /\ Found = {msg.of}
  BY <1>1, FoundIsOwn
<1>4. CASE HandleRegistered
  <2>1. msg.of \in Ops /\ Found = {msg.of}
    BY <1>3, <1>4 DEF HandleRegistered, Handles, IsAnswer, AnswerTypes
  <2>2. registrations' = Emplaced(registrations, msg.of)
    BY <1>4 DEF HandleRegistered
  <2> QED
    BY <1>type, <2>1, <2>2 DEF Emplaced, Registers
<1>5. CASE HandleUnregistered
  BY <1>5 DEF HandleUnregistered, Handles, Registers
<1>6. CASE HandleInvocation
  BY <1>6, <1>type DEF HandleInvocation, Handles, MovedFrom, Registers
<1>7. CASE HandleAcknowledgement \/ HandleSubscribed \/ HandleError \/ HandleEvent
  BY <1>7 DEF HandleAcknowledgement, HandleSubscribed, HandleError, HandleEvent, Handles,
     Registers
<1> QED
  BY <1>4, <1>5, <1>6, <1>7 DEF HandleMessage

LEMMA LineRouterStep ==
  ASSUME SInv, UInv, LineInOrder, ~mapsGone,
         \/ \E o \in Ops : RouterGrants(o) \/ RouterRefuses(o)
         \/ \E k \in active : RouterDelivers(k)
  PROVE  LineInOrder'
<1>1. /\ UNCHANGED <<msg, target, registrations, mapsGone>> /\ inbox \in Seq(Messages)
      /\ TInv /\ QInv /\ TypeOKSession
  BY RouterFrame, LineKnown DEF SInv, TInv
<1>2. \A m : RouterTells(m) => inbox' = Append(inbox, m)
  BY DEF RouterTells, RouterSends
<1>3. ASSUME NEW o \in Ops, RouterGrants(o)
      PROVE  LineInOrder'
  <2> DEFINE m == [type |-> AnswerType[Kind[o]], kind |-> Kind[o], id |-> reqId[o], of |-> o]
  <2>1. /\ AnswerType[Kind[o]] \in AnswerTypes /\ AnswerType[Kind[o]] # "ERROR"
        /\ AnswerType[Kind[o]] = "UNREGISTERED" => Kind[o] = "unregister"
        /\ Kind[o] = "register" => AnswerType[Kind[o]] = "REGISTERED"
    BY DEF AnswerType, AnswerTypes, Kinds
  <2>2. m \in Messages /\ m.type # "INVOCATION" /\ m.type = AnswerType[Kind[o]] /\ m.of = o
    <3>1. m \in Answers
      BY <1>1, <2>1, AnswerToIsMessage
    <3>2. m.type = AnswerType[Kind[o]] /\ m.of = o
      OBVIOUS
    <3> HIDE DEF m
    <3> QED
      BY <2>1, <3>1, <3>2 DEF Messages, AnswerTypes
  <2>3. inbox' = Append(inbox, m)
    BY <1>2, <1>3 DEF RouterGrants
  <2>4. router[o] = "received" /\ o \in Acknowledged
    BY <1>3 DEF RouterGrants
  <2>5. promise[o] \notin Answers
    BY <1>1, <2>4, NotAnswers DEF QInv, EntryInTime
  <2>6. ASSUME NEW r \in active' \cap Ops
        PROVE  /\ ~Removes(m, r)
               /\ r \notin active => /\ Registers(m, r)
                                   /\ \A j \in 0..Len(inbox) : ~Removes(At(j), r)
    <3> HIDE DEF m
    <3>1. CASE Kind[o] = "register"
      <4>1. r = o \/ r \in active
        BY <1>3, <3>1 DEF RouterGrants, Key
      <4>2. \A j \in 0..Len(inbox) : ~Removes(At(j), o)
        BY <2>5, LineKnown DEF Removes
      <4> QED
        BY <2>1, <2>2, <3>1, <4>1, <4>2 DEF Removes, Registers
    <3>2. CASE Kind[o] = "unregister"
      BY <1>3, <2>1, <2>2, <2>6, <3>2 DEF RouterGrants, Key, Removes
    <3>3. CASE Kind[o] \notin {"register", "unregister"}
      <4>1. r \in active
        <5>1. CASE Kind[o] = "subscribe"
          BY <1>3, <2>6, <5>1 DEF RouterGrants, Key
        <5>2. CASE Kind[o] # "subscribe"
          BY <1>3, <2>6, <3>3, <5>2 DEF RouterGrants
        <5> QED
          BY <5>1, <5>2
      <4> QED
        BY <2>1, <2>2, <3>3, <4>1 DEF Removes
    <3> QED
      BY <3>1, <3>2, <3>3
  <2> HIDE DEF m
  <2> QED
    BY <1>1, <2>2, <2>3, <2>6, LineGrows
<1>4. ASSUME NEW o \in Ops, RouterRefuses(o)
      PROVE  LineInOrder'
  <2> DEFINE m == [type |-> "ERROR", kind |-> Kind[o], id |-> reqId[o], of |-> o]
  <2>1. m \in Messages /\ m.type = "ERROR"
    BY <1>1, AnswerToIsMessage DEF Messages, AnswerTypes
  <2>2. inbox' = Append(inbox, m) /\ active' = active
    BY <1>2, <1>4 DEF RouterRefuses
  <2> HIDE DEF m
  <2> QED
    BY <1>1, <2>1, <2>2, LineGrows DEF Removes
<1>5. ASSUME NEW k \in active, RouterDelivers(k)
      PROVE  LineInOrder'
  <2> DEFINE m == [type |-> IF k \in Ops THEN "INVOCATION" ELSE "EVENT", of |-> k,
                   n |-> delivered']
  <2>1. k \in Ops \cup Topics /\ delivered' \in Nat /\ active' = active
    BY <1>1, <1>5 DEF RouterDelivers, TypeOKSession
  <2>2. /\ m \in Messages /\ m.type # "UNREGISTERED"
        /\ m.type = "INVOCATION" => m.of \in active \cap Ops
    BY <2>1 DEF Messages, Deliveries
  <2>3. inbox' = Append(inbox, m)
    BY <1>2, <1>5 DEF RouterDelivers
  <2> HIDE DEF m
  <2>4. \A r : ~Removes(m, r)
    BY <2>2 DEF Removes
  <2>5. \A r \in active' \cap Ops : r \in active
    BY <2>1
  <2> QED
    BY <1>1, <2>1, <2>2, <2>3, <2>4, <2>5, LineGrows
<1> QED
  BY <1>3, <1>4, <1>5

LEMMA LineLifecycleStep ==
  ASSUME SInv, UInv, ReaderIdle, LineInOrder, LifecycleActions, UNCHANGED requestVars
  PROVE  LineInOrder'
<1>1. CASE UNCHANGED <<msg, inbox>>
  BY <1>1, LineStays, LineKnown DEF Removes, At
<1>2. CASE ReadMessage
  <2>1. msg = NoMessage /\ inbox # <<>> /\ msg' = Head(inbox) /\ inbox' = Tail(inbox)
    BY <1>2 DEF ReadMessage, RecvMoves, ReaderIdle
  <2> QED
    BY <2>1, LineShifts, LineKnown
<1>3. CASE HandleGoodbye
  <2>1. msg = Goodbye /\ msg' = NoMessage /\ inbox' = inbox
    BY <1>3 DEF HandleGoodbye
  <2>2. \A r : ~Registers(msg, r)
    BY <2>1 DEF Registers, Goodbye
  <2> QED
    BY <2>1, <2>2, LineHandled, LineKnown
<1>4. CASE RouterLeaves \/ RouterReplies
  <2>1. inbox' = Append(inbox, Goodbye) /\ msg' = msg
    BY <1>4 DEF RouterLeaves, RouterReplies, RouterSends, reader
  <2>2. Goodbye \in Messages /\ Goodbye.type = "GOODBYE"
    BY DEF Messages, Goodbye
  <2> QED
    BY <2>1, <2>2, LineGrows, LineKnown DEF Removes
<1>5. ASSUME NEW t \in Leavers, LeaveStep(t)
      PROVE  UNCHANGED <<msg, inbox>>
  BY <1>5 DEF LeaveStep, LeaveBegin, LeaveSend, LeaveWrite, LeaveMark, LeaveWait, LeaveMoves,
              reader
<1>6. DtorStep \/ LinkLost => UNCHANGED <<msg, inbox>>
  BY DEF DtorStep, DtorBegin, DtorClose, DtorStop, DtorJoin, DtorPool, DtorPoolWakes,
         DtorMembers, DtorMoves, LinkLost, reader, remote
<1>7. TestRunning \/ ReadFails \/ StopRunning \/ CloseAfterGoodbye => UNCHANGED <<msg, inbox>>
  BY DEF TestRunning, ReadFails, StopRunning, CloseAfterGoodbye
<1> QED
  BY <1>1, <1>2, <1>3, <1>4, <1>5, <1>6, <1>7, LifecycleInside DEF LifecycleNext, RecvStep

LEMMA IInvocationStep ==
  ASSUME SInv, UInv, IInvocation, [Next]_vars
  PROVE  IInvocation'
<1> USE DEF IInvocation
<1>1. ReaderIdle'
  BY ReaderIdleStep
<1>2. SUFFICES ASSUME ~mapsGone', ~mapsGone PROVE LineInOrder'
  <2>1. mapsGone => mapsGone'
    BY RequestFrame, MessageFrame, PoolFrame, RouterFrame, MapsFrame, EraseFrame, StillUnchanged
       DEF Next
  <2> QED
    BY <1>1, <2>1 DEF LineInOrder
<1>3. CASE LifecycleActions /\ UNCHANGED requestVars
  BY <1>3, LineLifecycleStep
<1>4. ASSUME NEW o \in Ops, OpStep(o)
      PROVE  LineInOrder'
  <2>1. UNCHANGED <<msg, inbox, active, registrations, mapsGone>>
    BY <1>4, RequestFrame
  <2>2. ASSUME NEW p \in Ops, pc[p] # "idle"
        PROVE  target'[p] = target[p]
    <3>1. CASE GetId(o)
      <4>1. p # o
        BY <2>2, <3>1 DEF GetId, OpMoves
      <4>2. target' = target \/ \E v : target' = [target EXCEPT ![o] = v]
        BY <3>1 DEF GetId
      <4> QED
        BY <4>1, <4>2 DEF SInv, TInv, TypeOKSession
    <3>2. CASE Insert(o) \/ Send(o) \/ Write(o) \/ Wait(o)
      BY <3>2 DEF Insert, Send, Write, Wait
    <3> QED
      BY <1>4, <3>1, <3>2 DEF OpStep
  <2>3. ASSUME NEW i \in 0..Len(inbox), NEW r \in Ops, Removes(At(i), r)'
        PROVE  Removes(At(i), r)
    <3>1. At(i)' = At(i) /\ At(i).type = "UNREGISTERED"
      BY <2>1, <2>3 DEF At, Removes
    <3>2. At(i).of \in Ops /\ pc[At(i).of] # "idle"
      BY <1>2, <3>1, LineKnown
    <3> QED
      BY <2>2, <2>3, <3>1, <3>2 DEF Removes
  <2> QED
    BY <2>1, <2>3, LineStays, LineKnown
<1>5. CASE HandleMessage
  BY <1>5, LineMessageStep
<1>6. CASE StartTask \/ \E t \in executing : FinishTask(t)
  BY <1>6, PoolFrame, LineStays, LineKnown DEF Removes, At
<1>7. CASE \/ \E o \in Ops : RouterGrants(o) \/ RouterRefuses(o)
           \/ \E k \in active : RouterDelivers(k)
  BY <1>2, <1>7, LineRouterStep
<1>8. CASE UNCHANGED vars
  BY <1>8, StillUnchanged, LineStays, LineKnown DEF Removes, At
<1>9. ~SessionDtorMaps
  BY <1>2, MapsFrame
<1>10. CASE EraseRegistration
  <2>1. /\ UNCHANGED <<msg, inbox, target, active, mapsGone>> /\ msg.type = "UNREGISTERED"
        /\ TInv /\ QInv /\ IsAnswer(msg)
    BY <1>2, <1>10, EraseFrame DEF SInv, IsAnswer, AnswerTypes
  <2>2. Found = {msg.of}
    BY <2>1, FoundIsOwn
  <2>3. registrations' = [registrations EXCEPT ![target[msg.of]] = Absent]
    BY <1>10, <2>2, EraseFrame
  <2>4. \A r \in Ops : registrations'[r] = registrations[r] \/ Removes(msg, r)
    BY <2>1, <2>3 DEF Removes, TInv, TypeOKSession
  <2> QED
    BY <2>1, <2>4, LineErased, LineKnown
<1> QED
  BY <1>3, <1>4, <1>5, <1>6, <1>7, <1>8, <1>9, <1>10 DEF Next

(* No INVOCATION is dropped in silence for want of its registration.       *)
THEOREM InvocationIsServed == Spec => []InvocationFindsRegistration
<1>1. Init => IInvocation
  <2> SUFFICES ASSUME Init PROVE IInvocation
    OBVIOUS
  <2>1. inbox = <<>> /\ Len(inbox) = 0 /\ msg = NoMessage /\ active = {}
    BY DEF Init, LifecycleInit
  <2>2. \A i \in 0..Len(inbox) : At(i).type # "INVOCATION"
    BY <2>1 DEF At, NoMessage
  <2> QED
    BY <2>1, <2>2 DEF IInvocation, ReaderIdle, LineInOrder
<1>2. SInv /\ UInv /\ IInvocation /\ [Next]_vars => IInvocation'
  BY IInvocationStep
<1>3. SInv /\ IInvocation => InvocationFindsRegistration
  <2> SUFFICES ASSUME SInv, IInvocation, recv = "process", msg.type = "INVOCATION"
               PROVE  registrations[msg.of] # Absent
    BY DEF InvocationFindsRegistration
  <2>1. ~mapsGone
    BY DEF SInv, GInv, MapsGoLate
  <2>2. At(0) = msg /\ 0 \in 0..Len(inbox)
    BY DEF At, SInv, TInv, TypeOKSession, LifecycleTypeOK
  <2>3. InForce(msg.of, 0)
    BY <2>1, <2>2 DEF IInvocation, LineInOrder
  <2> QED
    BY <2>3 DEF InForce
<1> QED
  BY <1>1, <1>2, <1>3, SessionInvariant, UInvInvariant, PTL DEF Spec, SafeSpec

-----------------------------------------------------------------------------
(* Session uses its pool as TaskPool promises.  A delivery goes from the   *)
(* transport through the receive thread and the queue to a worker and      *)
(* overtakes none: the numbers grow along this way, from Begun on.         *)
Queued == {tasks[i].delivery.n : i \in 1..Len(tasks)}
IsDelivery(m) == m.type \in {"INVOCATION", "EVENT"}

QueueInOrder ==
  /\ Begun \cup Queued \subseteq 1..delivered
  /\ \A i \in 1..Len(tasks) : \A n \in Begun : n < tasks[i].delivery.n
  /\ \A i, j \in 1..Len(tasks) : i < j => tasks[i].delivery.n < tasks[j].delivery.n

LineNumbered ==
  /\ \A i \in 0..Len(inbox) : IsDelivery(At(i)) =>
       At(i).n \in 1..delivered /\ \A n \in Begun \cup Queued : n < At(i).n
  /\ \A i, j \in 0..Len(inbox) :
       i < j /\ IsDelivery(At(i)) /\ IsDelivery(At(j)) => At(i).n < At(j).n

ExecutingDistinct ==
  /\ IsFiniteSet(executing)
  /\ \A t, u \in executing : t.delivery.n = u.delivery.n => t = u

NumbersInOrder == QueueInOrder /\ LineNumbered /\ ExecutingDistinct

PoolInv == ReaderIdle /\ NumbersInOrder

LEMMA PoolUntouched ==
  ASSUME UNCHANGED poolVars
  PROVE  /\ UNCHANGED <<tasks, executing, results>> /\ Begun' = Begun /\ Queued' = Queued
         /\ ExecutingDistinct => ExecutingDistinct'
BY DEF Begun, Queued, ExecutingDistinct

(* The order is kept when nothing moves, ...                               *)
LEMMA NumbersStay ==
  ASSUME NumbersInOrder, UNCHANGED <<msg, inbox, poolVars, delivered>>
  PROVE  NumbersInOrder'
<1>1. \A i : At(i)' = At(i)
  BY DEF At
<1> QED
  BY <1>1, PoolUntouched DEF NumbersInOrder, QueueInOrder, LineNumbered

(* ... when the receive thread takes up a message, ...                     *)
LEMMA NumbersShift ==
  ASSUME NumbersInOrder, UNCHANGED <<poolVars, delivered>>, inbox \in Seq(Messages),
         msg = NoMessage, inbox # <<>>, msg' = Head(inbox), inbox' = Tail(inbox)
  PROVE  NumbersInOrder'
<1>1. /\ Len(inbox) \in Nat \ {0} /\ Len(inbox') = Len(inbox) - 1
      /\ \A i \in 1..Len(inbox') : inbox'[i] = inbox[i + 1]
      /\ Head(inbox) = inbox[1]
  OBVIOUS
<1>2. \A i \in 0..Len(inbox') : At(i)' = At(i + 1) /\ i + 1 \in 0..Len(inbox)
  BY <1>1 DEF At
<1>3. \A i, j \in 0..Len(inbox') : i < j => i + 1 < j + 1
  BY <1>1
<1>4. LineNumbered'
  BY <1>2, <1>3, PoolUntouched DEF NumbersInOrder, LineNumbered
<1> QED
  BY <1>4, PoolUntouched DEF NumbersInOrder, QueueInOrder

(* ... when the router writes a message, ...                               *)
LEMMA NumbersGrow ==
  ASSUME NumbersInOrder, UNCHANGED <<msg, poolVars>>, inbox \in Seq(Messages),
         delivered \in Nat, NEW m \in Messages, inbox' = Append(inbox, m),
         \/ ~IsDelivery(m) /\ delivered' = delivered
         \/ IsDelivery(m) /\ delivered' = delivered + 1 /\ m.n = delivered'
  PROVE  NumbersInOrder'
<1>1. /\ Len(inbox) \in Nat /\ Len(inbox') = Len(inbox) + 1
      /\ \A i \in 1..Len(inbox) : inbox'[i] = inbox[i]
      /\ inbox'[Len(inbox) + 1] = m
  OBVIOUS
<1>2. \A i \in 0..Len(inbox') :
        \/ i \in 0..Len(inbox) /\ At(i)' = At(i)
        \/ i = Len(inbox) + 1 /\ At(i)' = m
  BY <1>1 DEF At
<1>3. /\ delivered' \in Nat /\ 1..delivered \subseteq 1..delivered'
      /\ IsDelivery(m) => m.n \in 1..delivered' /\ \A n \in 1..delivered : n < m.n
  OBVIOUS
<1>4. QueueInOrder'
  BY <1>3, PoolUntouched DEF NumbersInOrder, QueueInOrder
<1>5. ASSUME NEW i \in 0..Len(inbox'), IsDelivery(At(i)')
      PROVE  At(i)'.n \in 1..delivered' /\ \A n \in Begun' \cup Queued' : n < At(i)'.n
  BY <1>2, <1>3, <1>5, PoolUntouched DEF NumbersInOrder, QueueInOrder, LineNumbered
<1>6. ASSUME NEW i \in 0..Len(inbox'), NEW j \in 0..Len(inbox'), i < j,
             IsDelivery(At(i)'), IsDelivery(At(j)')
      PROVE  At(i)'.n < At(j)'.n
  <2>1. i \in 0..Len(inbox) /\ At(i)' = At(i)
    BY <1>1, <1>2, <1>6
  <2>2. At(i).n \in 1..delivered
    BY <1>6, <2>1 DEF NumbersInOrder, LineNumbered
  <2> QED
    BY <1>2, <1>3, <1>6, <2>1, <2>2 DEF NumbersInOrder, LineNumbered
<1> QED
  BY <1>4, <1>5, <1>6, PoolUntouched DEF NumbersInOrder, LineNumbered, IsDelivery

(* ... when the message is processed, which may queue a task for it, ...   *)
LEMMA NumbersHandled ==
  ASSUME NumbersInOrder, UNCHANGED <<inbox, executing, results, delivered>>,
         inbox \in Seq(Messages), tasks \in Seq(Tasks), msg' = NoMessage,
         \/ tasks' = tasks
         \/ \E h : IsDelivery(msg) /\ tasks' = Append(tasks, [delivery |-> msg, handler |-> h])
  PROVE  NumbersInOrder'
<1>1. Begun' = Begun /\ ExecutingDistinct'
  BY DEF Begun, NumbersInOrder, ExecutingDistinct
<1>2. \A i \in 0..Len(inbox') : IsDelivery(At(i)') => /\ i \in 1..Len(inbox) /\ At(i)' = At(i)
                                                   /\ i \in 0..Len(inbox)
  BY DEF At, IsDelivery, NoMessage
<1>3. CASE tasks' = tasks
  <2>1. Queued' = Queued
    BY <1>3 DEF Queued
  <2>2. QueueInOrder'
    BY <1>1, <1>3, <2>1 DEF NumbersInOrder, QueueInOrder
  <2>3. LineNumbered'
    BY <1>1, <1>2, <2>1 DEF NumbersInOrder, LineNumbered, IsDelivery
  <2> QED
    BY <1>1, <2>2, <2>3 DEF NumbersInOrder
<1>4. ASSUME NEW h, IsDelivery(msg), tasks' = Append(tasks, [delivery |-> msg, handler |-> h])
      PROVE  NumbersInOrder'
  <2>1. /\ Len(tasks) \in Nat /\ Len(tasks') = Len(tasks) + 1
        /\ \A i \in 1..Len(tasks) : tasks'[i] = tasks[i]
        /\ tasks'[Len(tasks) + 1].delivery = msg
    BY <1>4
  <2>2. At(0) = msg /\ 0 \in 0..Len(inbox)
    BY DEF At
  <2>3. msg.n \in 1..delivered /\ \A n \in Begun \cup Queued : n < msg.n
    BY <1>4, <2>2 DEF NumbersInOrder, LineNumbered
  <2>4. \A i \in 1..Len(tasks) : tasks[i].delivery.n \in Queued
    BY DEF Queued
  <2>5. \A i \in 1..Len(tasks') :
          \/ i \in 1..Len(tasks) /\ tasks'[i] = tasks[i]
          \/ i = Len(tasks) + 1 /\ tasks'[i].delivery = msg
    BY <2>1
  <2>6. Queued' = Queued \cup {msg.n}
    BY <2>1, <2>5 DEF Queued
  <2>7. QueueInOrder'
    <3>1. Begun' \cup Queued' \subseteq 1..delivered'
      BY <1>1, <2>3, <2>6 DEF NumbersInOrder, QueueInOrder
    <3>2. \A i \in 1..Len(tasks') : \A n \in Begun' : n < tasks'[i].delivery.n
      BY <1>1, <2>3, <2>5 DEF NumbersInOrder, QueueInOrder
    <3>3. \A i, j \in 1..Len(tasks') : i < j => tasks'[i].delivery.n < tasks'[j].delivery.n
      BY <2>1, <2>3, <2>4, <2>5 DEF NumbersInOrder, QueueInOrder
    <3> QED
      BY <3>1, <3>2, <3>3 DEF QueueInOrder
  <2>8. LineNumbered'
    <3>1. \A i \in 1..Len(inbox) : IsDelivery(At(i)) => msg.n < At(i).n
      BY <1>4, <2>2 DEF NumbersInOrder, LineNumbered
    <3>2. \A i \in 0..Len(inbox') : IsDelivery(At(i)') =>
            At(i)'.n \in 1..delivered' /\ \A n \in Begun' \cup Queued' : n < At(i)'.n
      BY <1>1, <1>2, <2>6, <3>1 DEF NumbersInOrder, LineNumbered
    <3> QED
      BY <1>2, <3>2 DEF NumbersInOrder, LineNumbered, IsDelivery
  <2> QED
    BY <1>1, <2>7, <2>8 DEF NumbersInOrder
<1> QED
  BY <1>3, <1>4

(* ... when a worker takes the oldest task, ...                            *)
LEMMA OldestBegins ==
  ASSUME NumbersInOrder, TypeOKSession, StartTask
  PROVE  /\ NumbersInOrder'
         /\ Head(tasks).delivery.n \in 1..delivered
         /\ \A n \in Begun : n < Head(tasks).delivery.n
         /\ Begun' = Begun \cup {Head(tasks).delivery.n}
         /\ executing' = executing \cup {Head(tasks)}
         /\ Len(tasks') = Len(tasks) - 1 /\ Len(tasks) \in Nat \ {0}
<1> DEFINE first == Head(tasks)
<1>1. /\ Len(tasks) \in Nat \ {0} /\ Len(tasks') = Len(tasks) - 1
      /\ \A i \in 1..Len(tasks') : tasks'[i] = tasks[i + 1] /\ i + 1 \in 2..Len(tasks)
      /\ first = tasks[1] /\ 1 \in 1..Len(tasks)
  BY DEF StartTask, TypeOKSession
<1>2. executing' = executing \cup {first} /\ UNCHANGED <<msg, inbox, results, delivered>>
  BY DEF StartTask, PoolMoves, lifecycleVars, reader, remote
<1>3. Begun' = Begun \cup {first.delivery.n}
  BY <1>2 DEF Begun
<1>4. \A n : n \in Queued <=> n = first.delivery.n \/ n \in Queued'
  <2>1. ASSUME NEW i \in 1..Len(tasks)
        PROVE  i = 1 \/ (i - 1 \in 1..Len(tasks') /\ tasks'[i - 1] = tasks[i])
    BY <1>1
  <2>2. ASSUME NEW n \in Queued
        PROVE  n = first.delivery.n \/ n \in Queued'
    BY <1>1, <2>1, <2>2 DEF Queued
  <2>3. ASSUME NEW n, n = first.delivery.n \/ n \in Queued'
        PROVE  n \in Queued
    <3>1. \A j \in 1..Len(tasks) : tasks[j].delivery.n \in Queued
      BY DEF Queued
    <3>2. \A i \in 1..Len(tasks') : tasks'[i].delivery.n \in Queued
      BY <1>1, <3>1
    <3> QED
      BY <1>1, <2>3, <3>1, <3>2 DEF Queued
  <2> QED
    BY <2>2, <2>3
<1>5. first.delivery.n \in 1..delivered /\ \A n \in Begun : n < first.delivery.n
  BY <1>1, <1>4 DEF NumbersInOrder, QueueInOrder
<1>6. QueueInOrder'
  <2>1. \A i \in 1..Len(tasks') : first.delivery.n < tasks'[i].delivery.n
    BY <1>1 DEF NumbersInOrder, QueueInOrder
  <2>2. \A i \in 1..Len(tasks') : \A n \in Begun' : n < tasks'[i].delivery.n
    BY <1>1, <1>3, <2>1 DEF NumbersInOrder, QueueInOrder
  <2>3. \A i, j \in 1..Len(tasks') : i < j => tasks'[i].delivery.n < tasks'[j].delivery.n
    BY <1>1 DEF NumbersInOrder, QueueInOrder
  <2> QED
    BY <1>2, <1>3, <1>4, <1>5, <2>2, <2>3 DEF NumbersInOrder, QueueInOrder
<1>7. LineNumbered'
  <2>1. \A i : At(i)' = At(i)
    BY <1>2 DEF At
  <2>2. Begun' \cup Queued' = Begun \cup Queued
    BY <1>3, <1>4
  <2> QED
    BY <1>2, <2>1, <2>2 DEF NumbersInOrder, LineNumbered
<1>8. ExecutingDistinct'
  <2>1. IsFiniteSet(executing')
    BY <1>2, FS_AddElement DEF NumbersInOrder, ExecutingDistinct
  <2>2. \A t \in executing : t.delivery.n \in Begun
    BY DEF Begun
  <2>3. \A t \in executing : t.delivery.n # first.delivery.n
    BY <1>5, <2>2
  <2> QED
    BY <1>2, <2>1, <2>3 DEF NumbersInOrder, ExecutingDistinct
<1> QED
  BY <1>1, <1>2, <1>3, <1>5, <1>6, <1>7, <1>8 DEF NumbersInOrder

(* ... and when a task ends.                                               *)
LEMMA NumbersFinish ==
  ASSUME NumbersInOrder, TypeOKSession, NEW t \in executing, FinishTask(t)
  PROVE  /\ NumbersInOrder' /\ Begun' = Begun
         /\ executing' = executing \ {t} /\ tasks' = tasks
<1>1. /\ executing' = executing \ {t} /\ UNCHANGED <<msg, inbox, tasks, delivered>>
      /\ \E r \in {"done", "lost", "untold"} : results' = [results EXCEPT ![t.delivery.n] = r]
  BY DEF FinishTask, Results, PoolMoves, lifecycleVars, reader, remote
<1>2. t.delivery.n \in 1..MaxDeliveries
  BY DEF NumbersInOrder, QueueInOrder, Begun, TypeOKSession
<1>3. \A n \in 1..MaxDeliveries :
        results'[n] # "none" <=> results[n] # "none" \/ n = t.delivery.n
  BY <1>1, <1>2 DEF TypeOKSession
<1>4. Begun' = Begun
  BY <1>1, <1>2, <1>3 DEF Begun
<1>5. Queued' = Queued /\ \A i : At(i)' = At(i)
  BY <1>1 DEF Queued, At
<1>6. QueueInOrder' /\ LineNumbered'
  BY <1>1, <1>4, <1>5 DEF NumbersInOrder, QueueInOrder, LineNumbered
<1>7. ExecutingDistinct'
  BY <1>1, FS_Subset DEF NumbersInOrder, ExecutingDistinct
<1> QED
  BY <1>1, <1>4, <1>6, <1>7 DEF NumbersInOrder

LEMMA NumbersLifecycle ==
  ASSUME SInv, PoolInv, LifecycleActions, UNCHANGED requestVars
  PROVE  NumbersInOrder'
<1>1. inbox \in Seq(Messages) /\ delivered \in Nat /\ NumbersInOrder
  BY DEF SInv, TInv, TypeOKSession, LifecycleTypeOK, PoolInv
<1>2. CASE UNCHANGED <<msg, inbox>>
  BY <1>1, <1>2, NumbersStay
<1>3. CASE ReadMessage
  <2>1. msg = NoMessage /\ inbox # <<>> /\ msg' = Head(inbox) /\ inbox' = Tail(inbox)
    BY <1>3 DEF ReadMessage, RecvMoves, PoolInv, ReaderIdle
  <2> QED
    BY <1>1, <2>1, NumbersShift
<1>4. CASE HandleGoodbye
  <2>1. msg' = NoMessage /\ inbox' = inbox
    BY <1>4 DEF HandleGoodbye
  <2>2. tasks \in Seq(Tasks)
    BY DEF SInv, TInv, TypeOKSession
  <2> QED
    BY <1>1, <2>1, <2>2, NumbersHandled
<1>5. CASE RouterLeaves \/ RouterReplies
  <2>1. inbox' = Append(inbox, Goodbye) /\ msg' = msg
    BY <1>5 DEF RouterLeaves, RouterReplies, RouterSends, reader
  <2>2. Goodbye \in Messages /\ ~IsDelivery(Goodbye)
    BY DEF Messages, Goodbye, IsDelivery
  <2> QED
    BY <1>1, <2>1, <2>2, NumbersGrow
<1>6. ASSUME NEW t \in Leavers, LeaveStep(t)
      PROVE  UNCHANGED <<msg, inbox>>
  BY <1>6 DEF LeaveStep, LeaveBegin, LeaveSend, LeaveWrite, LeaveMark, LeaveWait, LeaveMoves,
              reader
<1>7. DtorStep \/ LinkLost => UNCHANGED <<msg, inbox>>
  BY DEF DtorStep, DtorBegin, DtorClose, DtorStop, DtorJoin, DtorPool, DtorPoolWakes,
         DtorMembers, DtorMoves, LinkLost, reader, remote
<1>8. TestRunning \/ ReadFails \/ StopRunning \/ CloseAfterGoodbye => UNCHANGED <<msg, inbox>>
  BY DEF TestRunning, ReadFails, StopRunning, CloseAfterGoodbye
<1> QED
  BY <1>2, <1>3, <1>4, <1>5, <1>6, <1>7, <1>8, LifecycleInside DEF LifecycleNext, RecvStep

(* What HandleMessage does to the queue.                                   *)
LEMMA QueueMessageStep ==
  ASSUME HandleMessage
  PROVE  \/ tasks' = tasks
         \/ \E h : IsDelivery(msg) /\ tasks' = Append(tasks, [delivery |-> msg, handler |-> h])
<1>1. ASSUME NEW map, NEW key, Enqueue(map, key), IsDelivery(msg)
      PROVE  \/ tasks' = tasks
             \/ \E h : IsDelivery(msg) /\ tasks' = Append(tasks, [delivery |-> msg, handler |-> h])
  BY <1>1 DEF Enqueue
<1>2. CASE HandleInvocation \/ HandleEvent
  BY <1>1, <1>2 DEF HandleInvocation, HandleEvent, Handles, IsDelivery
<1>3. CASE ~(HandleInvocation \/ HandleEvent)
  BY <1>3 DEF HandleMessage, HandleAcknowledgement, HandleRegistered, HandleUnregistered,
     HandleSubscribed, HandleError
<1> QED
  BY <1>2, <1>3

LEMMA NumbersRouter ==
  ASSUME SInv, PoolInv,
         \/ \E o \in Ops : RouterGrants(o) \/ RouterRefuses(o)
         \/ \E k \in active : RouterDelivers(k)
  PROVE  NumbersInOrder'
<1>1. /\ inbox \in Seq(Messages) /\ delivered \in Nat /\ NumbersInOrder /\ TypeOKSession
      /\ UNCHANGED <<msg, poolVars>>
  BY RouterFrame DEF SInv, TInv, TypeOKSession, LifecycleTypeOK, PoolInv
<1>2. \A m : RouterTells(m) => inbox' = Append(inbox, m)
  BY DEF RouterTells, RouterSends
<1>3. ASSUME NEW o \in Ops, NEW type \in AnswerTypes,
             RouterTells([type |-> type, kind |-> Kind[o], id |-> reqId[o], of |-> o]),
             delivered' = delivered
      PROVE  NumbersInOrder'
  <2> DEFINE m == [type |-> type, kind |-> Kind[o], id |-> reqId[o], of |-> o]
  <2>1. m \in Messages /\ ~IsDelivery(m)
    BY <1>1, AnswerToIsMessage DEF Messages, IsDelivery, AnswerTypes
  <2>2. inbox' = Append(inbox, m)
    BY <1>2, <1>3
  <2> HIDE DEF m
  <2> QED
    BY <1>1, <1>3, <2>1, <2>2, NumbersGrow
<1>4. ASSUME NEW o \in Ops, RouterGrants(o)
      PROVE  NumbersInOrder'
  <2>1. AnswerType[Kind[o]] \in AnswerTypes
    BY DEF AnswerType, AnswerTypes, Kinds
  <2> QED
    BY <1>3, <1>4, <2>1 DEF RouterGrants
<1>5. ASSUME NEW o \in Ops, RouterRefuses(o)
      PROVE  NumbersInOrder'
  <2>1. "ERROR" \in AnswerTypes
    BY DEF AnswerTypes
  <2> QED
    BY <1>3, <1>5, <2>1 DEF RouterRefuses
<1>6. ASSUME NEW k \in active, RouterDelivers(k)
      PROVE  NumbersInOrder'
  <2> DEFINE m == [type |-> IF k \in Ops THEN "INVOCATION" ELSE "EVENT", of |-> k,
                   n |-> delivered']
  <2>1. k \in Ops \cup Topics /\ delivered' = delivered + 1
    BY <1>1, <1>6 DEF RouterDelivers, TypeOKSession
  <2>2. m \in Messages /\ IsDelivery(m) /\ m.n = delivered'
    BY <1>1, <2>1 DEF Messages, Deliveries, IsDelivery
  <2>3. inbox' = Append(inbox, m)
    BY <1>2, <1>6 DEF RouterDelivers
  <2> HIDE DEF m
  <2> QED
    BY <1>1, <2>1, <2>2, <2>3, NumbersGrow
<1> QED
  BY <1>4, <1>5, <1>6

LEMMA PoolInvStep ==
  ASSUME SInv, PoolInv, [Next]_vars
  PROVE  PoolInv'
<1>1. ReaderIdle'
  BY ReaderIdleStep DEF PoolInv
<1>2. NumbersInOrder /\ TypeOKSession
  BY DEF PoolInv, SInv, TInv
<1>3. CASE LifecycleActions /\ UNCHANGED requestVars
  BY <1>1, <1>3, NumbersLifecycle DEF PoolInv
<1>4. CASE HandleMessage
  BY <1>1, <1>2, <1>4, MessageFrame, QueueMessageStep, NumbersHandled
     DEF PoolInv, TypeOKSession, LifecycleTypeOK
<1>5. CASE StartTask
  BY <1>1, <1>2, <1>5, OldestBegins DEF PoolInv
<1>6. ASSUME NEW t \in executing, FinishTask(t)
      PROVE  PoolInv'
  BY <1>1, <1>2, <1>6, NumbersFinish DEF PoolInv
<1>7. CASE \/ \E o \in Ops : RouterGrants(o) \/ RouterRefuses(o)
           \/ \E k \in active : RouterDelivers(k)
  BY <1>1, <1>7, NumbersRouter DEF PoolInv
<1>8. CASE \/ (\E o \in Ops : OpStep(o)) \/ SessionDtorMaps \/ EraseRegistration
           \/ UNCHANGED vars
  BY <1>1, <1>2, <1>8, RequestFrame, MapsFrame, EraseFrame, StillUnchanged, NumbersStay
     DEF PoolInv
<1> QED
  BY <1>3, <1>4, <1>5, <1>6, <1>7, <1>8 DEF Next

LEMMA PoolInvInit == Init => PoolInv
<1> SUFFICES ASSUME Init PROVE PoolInv
  OBVIOUS
<1>1. /\ inbox = <<>> /\ Len(inbox) = 0 /\ msg = NoMessage /\ executing = {} /\ delivered = 0
      /\ tasks = <<>> /\ Len(tasks) = 0
  BY DEF Init, LifecycleInit
<1>2. Begun = {} /\ Queued = {}
  BY <1>1 DEF Begun, Queued, Init
<1>3. \A i \in 0..Len(inbox) : ~IsDelivery(At(i))
  BY <1>1 DEF At, NoMessage, IsDelivery
<1>4. IsFiniteSet(executing)
  BY <1>1, FS_EmptySet
<1> QED
  BY <1>1, <1>2, <1>3, <1>4 DEF PoolInv, ReaderIdle, NumbersInOrder, QueueInOrder, LineNumbered,
     ExecutingDistinct

LEMMA PoolInvariant == Spec => []PoolInv
<1>1. SInv /\ PoolInv /\ [Next]_vars => PoolInv'
  BY PoolInvStep
<1> QED
  BY <1>1, PoolInvInit, SessionInvariant, PTL DEF Spec, SafeSpec

(* The mapping does not touch the cardinality of a set.                    *)
LEMMA SameCardinality == \A S : Pool!Cardinality(S) = Cardinality(S)
BY DEF Pool!Cardinality, Cardinality

(* The tasks in the workers' hands, by the order of their start.           *)
RunningNow == {Nth(t.delivery.n) : t \in executing}

LEMMA BegunCounted ==
  ASSUME NumbersInOrder, TypeOKSession
  PROVE  /\ Begun \subseteq Nat /\ IsFiniteSet(Begun) /\ Cardinality(Begun) \in Nat
         /\ \A n : IsFiniteSet({m \in Begun : m <= n})
<1>1. Begun \subseteq 1..delivered /\ delivered \in Nat
  BY DEF NumbersInOrder, QueueInOrder, TypeOKSession
<1>2. IsFiniteSet(1..delivered)
  BY <1>1, FS_Interval
<1>3. IsFiniteSet(Begun)
  BY <1>1, <1>2, FS_Subset
<1>4. \A n : {m \in Begun : m <= n} \in SUBSET Begun
  OBVIOUS
<1> QED
  BY <1>1, <1>3, <1>4, FS_Subset, FS_CardinalityType

LEMMA UpTo ==
  ASSUME NEW n \in Nat
  PROVE  IsFiniteSet(1..n) /\ Cardinality(1..n) = n
<1>1. /\ IsFiniteSet(1..n)
      /\ Cardinality(1..n) = IF 1 > n THEN 0 ELSE n - 1 + 1
  BY FS_Interval
<1> QED
  BY <1>1

(* A delivery that the receive thread has in its hands has a task to come. *)
LEMMA OneToCome ==
  ASSUME NumbersInOrder, TypeOKSession, IsDelivery(msg)
  PROVE  Cardinality(Begun) + Len(tasks) < MaxDeliveries
<1> DEFINE f == [i \in 1..Len(tasks) |-> tasks[i].delivery.n]
<1>1. Len(tasks) \in Nat /\ delivered \in 0..MaxDeliveries /\ 0 \in 0..Len(inbox) /\ At(0) = msg
  BY DEF TypeOKSession, LifecycleTypeOK, At
<1>2. Cardinality(Queued) = Len(tasks) /\ IsFiniteSet(Queued)
  <2>1. f \in [1..Len(tasks) -> Queued] /\ \A n \in Queued : \E i \in 1..Len(tasks) : f[i] = n
    BY DEF Queued
  <2>2. ASSUME NEW i \in 1..Len(tasks), NEW j \in 1..Len(tasks), f[i] = f[j]
        PROVE  i = j
    <3>1. Queued \subseteq Nat /\ f[i] \in Queued
      BY <2>1 DEF NumbersInOrder, QueueInOrder
    <3>2. ~(i < j) /\ ~(j < i)
      BY <2>2, <3>1 DEF NumbersInOrder, QueueInOrder
    <3> QED
      BY <1>1, <3>2
  <2>3. DOMAIN f = 1..Len(tasks)
    OBVIOUS
  <2> HIDE DEF f
  <2>4. f \in Surjection(1..Len(tasks), Queued)
    BY <2>1 DEF Surjection
  <2>5. f \in Injection(1..Len(tasks), Queued)
    BY <2>1, <2>2, <2>3 DEF Injection, IsInjective
  <2> QED
    BY <1>1, <2>4, <2>5, UpTo, FS_Surjection
<1>3. /\ Cardinality(Begun \cup Queued) = Cardinality(Begun) + Len(tasks)
      /\ IsFiniteSet(Begun \cup Queued)
  <2>1. ASSUME NEW n \in Begun \cap Queued
        PROVE  FALSE
    BY BegunCounted DEF Queued, NumbersInOrder, QueueInOrder
  <2>2. Begun \cap Queued = {}
    BY <2>1
  <2>3. Cardinality(Begun \cap Queued) = 0 /\ Cardinality(Begun) \in Nat
    BY <2>2, FS_EmptySet, BegunCounted
  <2>4. IsFiniteSet(Begun) /\ IsFiniteSet(Queued)
    BY <1>2, BegunCounted
  <2>5. /\ IsFiniteSet(Begun \cup Queued)
        /\ Cardinality(Begun \cup Queued)
             = Cardinality(Begun) + Cardinality(Queued) - Cardinality(Begun \cap Queued)
    BY <2>4, FS_Union
  <2> QED
    BY <1>1, <1>2, <2>3, <2>5
<1>4. msg.n \in 1..delivered /\ \A n \in Begun \cup Queued : n < msg.n
  BY <1>1 DEF NumbersInOrder, LineNumbered
<1>5. msg.n \notin Begun \cup Queued
  BY <1>4
<1> DEFINE all == (Begun \cup Queued) \cup {msg.n}
<1>6. Cardinality(all) = Cardinality(Begun) + Len(tasks) + 1
  BY <1>3, <1>5, FS_AddElement
<1>7. all \in SUBSET (1..delivered)
  BY <1>4 DEF NumbersInOrder, QueueInOrder
<1>8. Cardinality(all) <= delivered
  <2>1. IsFiniteSet(1..delivered) /\ Cardinality(1..delivered) = delivered
    BY <1>1, UpTo
  <2> HIDE DEF all
  <2> QED
    BY <1>7, <2>1, FS_Subset
<1> HIDE DEF all
<1> QED
  BY <1>1, <1>6, <1>8, BegunCounted

(* Tasks that run have different places in the order of starts, ...        *)
LEMMA PlacesDiffer ==
  ASSUME NumbersInOrder, TypeOKSession, NEW t \in executing, NEW u \in executing, t # u
  PROVE  Nth(t.delivery.n) # Nth(u.delivery.n)
<1>1. ASSUME NEW a \in Begun, NEW b \in Begun, a < b
      PROVE  Nth(a) # Nth(b)
  <2>1. {m \in Begun : m <= a} \in SUBSET {m \in Begun : m <= b}
    BY <1>1, BegunCounted
  <2>2. b \in {m \in Begun : m <= b} /\ b \notin {m \in Begun : m <= a}
    BY <1>1, BegunCounted
  <2> QED
    BY <2>1, <2>2, BegunCounted, FS_Subset DEF Nth
<1>2. t.delivery.n \in Begun /\ u.delivery.n \in Begun /\ t.delivery.n # u.delivery.n
  BY DEF Begun, NumbersInOrder, ExecutingDistinct
<1>3. t.delivery.n < u.delivery.n \/ u.delivery.n < t.delivery.n
  BY <1>2, BegunCounted
<1> QED
  BY <1>1, <1>2, <1>3

(* ... so that no more of them run than there are workers' hands.          *)
LEMMA NoMoreThanHands ==
  ASSUME NumbersInOrder, TypeOKSession
  PROVE  /\ Cardinality(RunningNow) <= Cardinality(executing)
         /\ Cardinality(RunningNow) \in Nat /\ Cardinality(executing) \in Nat
<1> DEFINE f == [t \in executing |-> Nth(t.delivery.n)]
<1>1. f \in Surjection(executing, RunningNow)
  BY DEF Surjection, RunningNow
<1>2. IsFiniteSet(executing)
  BY DEF NumbersInOrder, ExecutingDistinct
<1> QED
  BY <1>1, <1>2, FS_Surjection, FS_CardinalityType

(* The task that starts is the next one, and the others keep their places. *)
LEMMA NextInOrder ==
  ASSUME NumbersInOrder, TypeOKSession, StartTask
  PROVE  /\ Cardinality(Begun)' = Cardinality(Begun) + 1
         /\ RunningNow' = RunningNow \cup {Cardinality(Begun) + 1}
<1> DEFINE new == Head(tasks).delivery.n
<1>1. /\ new \in Nat /\ Begun' = Begun \cup {new} /\ \A n \in Begun : n < new
      /\ executing' = executing \cup {Head(tasks)}
  BY OldestBegins
<1>2. new \notin Begun
  BY <1>1
<1>3. Cardinality(Begun') = Cardinality(Begun) + 1
  BY <1>1, <1>2, BegunCounted, FS_AddElement
<1>4. {m \in Begun' : m <= new} = Begun'
  BY <1>1, BegunCounted
<1>5. ASSUME NEW n \in Begun
      PROVE  {m \in Begun' : m <= n} = {m \in Begun : m <= n}
  BY <1>1, <1>5, BegunCounted
<1>6. \A n : Nth(n)' = Cardinality({m \in Begun' : m <= n})
  BY DEF Nth
<1>7. \A t \in executing : Nth(t.delivery.n)' = Nth(t.delivery.n)
  <2>1. \A t \in executing : t.delivery.n \in Begun
    BY DEF Begun
  <2> QED
    BY <1>5, <1>6, <2>1 DEF Nth
<1>8. Cardinality({m \in Begun' : m <= new}) = Cardinality(Begun) + 1
  BY <1>3, <1>4
<1>9. RunningNow' = {Cardinality({m \in Begun' : m <= t.delivery.n}) : t \in executing'}
  BY <1>6 DEF RunningNow
<1> QED
  BY <1>1, <1>3, <1>6, <1>7, <1>8, <1>9 DEF RunningNow

(* A step that leaves the pool alone changes nothing of TaskPool.          *)
LEMMA PoolStays ==
  ASSUME UNCHANGED poolVars, (dtor' = "gone") = (dtor = "gone")
  PROVE  UNCHANGED Pool!vars
<1>1. Begun' = Begun /\ Len(tasks') = Len(tasks)
  BY DEF Begun
<1>2. RunningNow' = RunningNow
  BY <1>1 DEF RunningNow, Nth
<1> QED
  BY <1>1, <1>2 DEF Pool!vars, RunningNow

(* The receive thread submits, ...                                         *)
LEMMA MessageSimulates ==
  ASSUME SInv, PoolInv, HandleMessage
  PROVE  Pool!Submit \/ UNCHANGED Pool!vars
<1>1. /\ NumbersInOrder /\ TypeOKSession /\ UNCHANGED <<dtor, executing, results>>
      /\ dtor # "gone"
  BY MessageFrame DEF PoolInv, SInv, TInv
<1>2. (dtor = "gone") = FALSE /\ (dtor' = "gone") = FALSE
  BY <1>1
<1>3. CASE tasks' = tasks
  BY <1>1, <1>3, PoolStays
<1>4. ASSUME NEW h, IsDelivery(msg), tasks' = Append(tasks, [delivery |-> msg, handler |-> h])
      PROVE  Pool!Submit
  <2>1. Cardinality(Begun) + Len(tasks) < MaxDeliveries
    BY <1>1, <1>4, OneToCome
  <2>2. Begun' = Begun
    BY <1>1 DEF Begun
  <2>3. RunningNow' = RunningNow
    BY <1>1, <2>2 DEF RunningNow, Nth
  <2>4. Cardinality(Begun) + Len(tasks') = (Cardinality(Begun) + Len(tasks)) + 1
    <3>1. Len(tasks) \in Nat /\ Len(tasks') = Len(tasks) + 1
      BY <1>1, <1>4 DEF TypeOKSession
    <3>2. Cardinality(Begun) \in Nat
      BY <1>1, BegunCounted
    <3> QED
      BY <3>1, <3>2
  <2> QED
    BY <1>2, <2>1, <2>2, <2>3, <2>4 DEF Pool!Submit, RunningNow
<1> QED
  BY <1>3, <1>4, QueueMessageStep

(* ... the workers start and finish, ...                                   *)
LEMMA WorkerSimulates ==
  ASSUME SInv, PoolInv, StartTask \/ \E t \in executing : FinishTask(t)
  PROVE  Pool!Next
<1>1. NumbersInOrder /\ TypeOKSession /\ dtor' = dtor
  BY PoolFrame DEF PoolInv, SInv, TInv
<1>2. CASE StartTask
  <2>1. Len(tasks') = Len(tasks) - 1 /\ Len(tasks) \in Nat \ {0} /\ Cardinality(Begun) \in Nat
    BY <1>1, <1>2, OldestBegins, BegunCounted
  <2>2. Cardinality(RunningNow) < NumWorkers
    BY <1>1, <1>2, NoMoreThanHands DEF StartTask
  <2>3. /\ Cardinality(Begun)' = Cardinality(Begun) + 1
        /\ RunningNow' = RunningNow \cup {Cardinality(Begun) + 1}
    BY <1>1, <1>2, NextInOrder
  <2>4. /\ Cardinality(Begun) < Cardinality(Begun) + Len(tasks)
        /\ Cardinality(Begun)' + Len(tasks') = Cardinality(Begun) + Len(tasks)
    BY <2>1, <2>3
  <2>5. Pool!Start
    BY <1>1, <2>2, <2>3, <2>4, SameCardinality DEF Pool!Start, RunningNow
  <2> QED
    BY <2>5 DEF Pool!Next
<1>3. ASSUME NEW t \in executing, FinishTask(t)
      PROVE  Pool!Next
  <2>1. Begun' = Begun /\ tasks' = tasks /\ executing' = executing \ {t}
    BY <1>1, <1>3, NumbersFinish
  <2>2. RunningNow' = {Nth(u.delivery.n) : u \in executing \ {t}}
    BY <2>1 DEF RunningNow, Nth
  <2>3. RunningNow' = RunningNow \ {Nth(t.delivery.n)} /\ Nth(t.delivery.n) \in RunningNow
    BY <1>1, <2>2, PlacesDiffer DEF RunningNow
  <2>4. Pool!Finish(Nth(t.delivery.n))
    BY <1>1, <2>1, <2>3 DEF Pool!Finish, RunningNow
  <2> QED
    BY <2>3, <2>4 DEF Pool!Next, RunningNow
<1> QED
  BY <1>2, <1>3

(* ... and the destruction of the transport finds the pool closed.         *)
LEMMA LifecycleSimulates ==
  ASSUME SInv, PoolInv, LifecycleActions, UNCHANGED requestVars
  PROVE  Pool!Close \/ UNCHANGED Pool!vars
<1>1. CASE SessionDtorMembers
  <2>1. tasks = <<>> /\ executing = {} /\ dtor # "gone" /\ dtor' = "gone"
    BY <1>1 DEF SessionDtorMembers, DtorMembers, DtorMoves
  <2>2. /\ (dtor = "gone") = FALSE /\ (dtor' = "gone") = TRUE
        /\ Begun' = Begun /\ tasks' = tasks
    BY <2>1 DEF Begun
  <2>3. RunningNow = {} /\ RunningNow' = RunningNow
    BY <2>1, <2>2 DEF RunningNow, Nth
  <2>4. Len(tasks) = 0 /\ Cardinality(Begun) \in Nat
    BY <2>1, BegunCounted DEF PoolInv, SInv, TInv
  <2>5. Cardinality(Begun) = Cardinality(Begun) + Len(tasks)
    BY <2>4
  <2> QED
    BY <2>2, <2>3, <2>5 DEF Pool!Close, RunningNow
<1>2. CASE ~SessionDtorMembers
  <2>1. ASSUME NEW t \in Leavers, LeaveStep(t)
        PROVE  dtor' = dtor
    BY <2>1 DEF LeaveStep, LeaveBegin, LeaveSend, LeaveWrite, LeaveMark, LeaveWait,
                LeaveMoves
  <2>2. RecvStep => dtor' = dtor
    BY DEF RecvStep, TestRunning, ReadMessage, ReadFails, HandleGoodbye, StopRunning,
           CloseAfterGoodbye, RecvMoves
  <2>3. SessionDtorStep /\ ~SessionDtorMembers => dtor # "gone" /\ dtor' # "gone"
    BY DEF SessionDtorStep, SessionDtorBegin, SessionDtorPool, DtorBegin, DtorClose, DtorStop,
           DtorJoin, DtorPool, DtorPoolWakes, DtorMoves
  <2>4. RouterLeaves \/ RouterReplies \/ LinkLost => dtor' = dtor
    BY DEF RouterLeaves, RouterReplies, RouterSends, LinkLost
  <2>5. (dtor' = "gone") = (dtor = "gone")
    BY <1>2, <2>1, <2>2, <2>3, <2>4 DEF LifecycleActions
  <2> QED
    BY <2>5, PoolStays
<1> QED
  BY <1>1, <1>2

LEMMA PoolStepSimulates ==
  ASSUME SInv, PoolInv, [Next]_vars
  PROVE  [Pool!Next]_(Pool!vars)
<1>1. CASE LifecycleActions /\ UNCHANGED requestVars
  BY <1>1, LifecycleSimulates DEF Pool!Next
<1>2. CASE HandleMessage
  BY <1>2, MessageSimulates DEF Pool!Next
<1>3. CASE StartTask \/ \E t \in executing : FinishTask(t)
  BY <1>3, WorkerSimulates
<1>4. CASE \/ \E o \in Ops : OpStep(o) \/ RouterGrants(o) \/ RouterRefuses(o)
           \/ SessionDtorMaps \/ \E k \in active : RouterDelivers(k)
           \/ EraseRegistration \/ UNCHANGED vars
  <2>1. UNCHANGED poolVars /\ dtor' = dtor
    BY <1>4, RequestFrame, RouterFrame, MapsFrame, EraseFrame, StillUnchanged
  <2> QED
    BY <2>1, PoolStays
<1> QED
  BY <1>1, <1>2, <1>3, <1>4 DEF Next

(* Session keeps to what TaskPool promises and gets it: a task at most per *)
(* delivery, started in the order in which the router sent them, no more   *)
(* at a time than workers, and none submitted to a pool that is gone.      *)
THEOREM SessionUsesTaskPool == Spec => UsesTaskPool
<1>1. Init => Pool!Init
  <2> SUFFICES ASSUME Init PROVE Pool!Init
    OBVIOUS
  <2>1. executing = {} /\ Len(tasks) = 0 /\ (dtor = "gone") = FALSE
    BY DEF Init, LifecycleInit
  <2>2. Begun = {}
    BY <2>1 DEF Init, Begun
  <2>3. Cardinality(Begun) = 0 /\ RunningNow = {}
    BY <2>1, <2>2, FS_EmptySet DEF RunningNow
  <2>4. Cardinality(Begun) + Len(tasks) = 0
    BY <2>1, <2>3
  <2> QED
    BY <2>1, <2>3, <2>4 DEF Pool!Init, RunningNow
<1>2. SInv /\ PoolInv /\ [Next]_vars => [Pool!Next]_(Pool!vars)
  BY PoolStepSimulates
<1> QED
  BY <1>1, <1>2, SessionInvariant, PoolInvariant, PTL
     DEF Spec, SafeSpec, UsesTaskPool, Pool!SafeSpec

=============================================================================
