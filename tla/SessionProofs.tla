--------------------------- MODULE SessionProofs ---------------------------
(***************************************************************************)
(* Theorems about the requests of Session, for any requests, threads and   *)
(* bounds.                                                                 *)
(***************************************************************************)
EXTENDS Session, LifecycleProofs

HIDE DEF IInv, TypeOK, LifecycleTypeOK, ThreadsAgree, PromiseOnTheWayOut, StoppedInTime,
         ClosedMeansStopped, RouterLeftFirst, QuietDestruction

USE OpsAssumption, BoundsAssumption DEF vars, requestVars, callVars, mapVars, poolVars,
    routerVars, First

(* A step of the lifecycle inside a session is one of the session alone.   *)
LEMMA LifecycleInside ==
  LifecycleActions => LifecycleNext
BY DEF LifecycleActions, LifecycleNext, SessionDtorStep, SessionDtorBegin,
       SessionDtorPool, SessionDtorMembers, DtorStep

(* What the fields of a message are follows from its type.                 *)
LEMMA MessageFields ==
  ASSUME NEW m \in Messages \cup {NoMessage}
  PROVE  /\ m.type \in AnswerTypes => m \in Answers
         /\ m.type \in {"INVOCATION", "EVENT"} => m \in Deliveries
         /\ m.type = "INVOCATION" => m.of \in Ops
         /\ m.type = "EVENT" => m.of \in Topics
BY DEF Messages, Answers, Deliveries, Goodbye, NoMessage, AnswerTypes

(* The types of the variables of Session proper, apart from Lifecycle's.   *)
RequestTypeOK ==
  /\ pc \in [Ops -> {"idle", "insert", "send", "write", "wait"} \cup Ended]
  /\ lastId \in Nat /\ reqId \in [Ops -> Nat]
  /\ host \in [Ops -> Nat]
  /\ target \in [Ops -> Ops]
  /\ requests \subseteq Ops
  /\ promise \in [Ops -> Answers \cup {NoMessage, Broken}]
  /\ registrations \in [Ops -> Handlers \cup {Absent}]
  /\ subscriptions \in [Topics -> Handlers \cup {Absent}]
  /\ mapsGone \in BOOLEAN
  /\ tasks \in Seq(Tasks) /\ executing \subseteq Tasks
  /\ results \in [1..MaxDeliveries -> {"none", "done", "lost", "untold"}]
  /\ router \in [Ops -> {"none", "received", "granted", "refused"}]
  /\ active \subseteq Ops \cup Topics
  /\ delivered \in 0..MaxDeliveries

LEMMA TypesTogether ==
  TypeOKSession <=> LifecycleTypeOK(Messages) /\ RequestTypeOK
BY DEF TypeOKSession, RequestTypeOK

LEMMA PromisesKeepTheirType ==
  ASSUME TypeOKSession, Settle, msg.type \in AnswerTypes
  PROVE  requests' \subseteq Ops /\ promise' \in [Ops -> Answers \cup {NoMessage, Broken}]
<1>1. msg \in Answers
  BY MessageFields DEF TypeOKSession, LifecycleTypeOK
<1> QED
  BY <1>1 DEF Settle, TypeOKSession

LEMMA AnswerToIsMessage ==
  ASSUME TypeOKSession, NEW o \in Ops, NEW t \in AnswerTypes
  PROVE  [type |-> t, kind |-> Kind[o], id |-> reqId[o], of |-> o] \in Answers
BY DEF Answers, TypeOKSession

(* A request that returned well, and was acknowledged, has its answer: the *)
(* id that an un-request sends comes from there.                           *)
OkHasAnswer ==
  \A o \in Ops : pc[o] = "ok" /\ Kind[o] # "notify" => promise[o] \in Answers

TInv == TypeOKSession /\ OkHasAnswer

LEMMA TasksNumbered ==
  ASSUME TypeOKSession
  PROVE  \A t \in executing : t.delivery.n \in Nat
BY DEF TypeOKSession, Tasks, Deliveries

(* The erasure of a registration changes nothing else.                     *)
LEMMA EraseFrame ==
  ASSUME EraseRegistration
  PROVE  /\ UNCHANGED <<lifecycleVars, callVars, requests, promise, subscriptions, mapsGone,
                         poolVars, routerVars>>
         /\ UNCHANGED <<msg, inbox, recv, dtor, process, transport>>
         /\ recv = "process" /\ msg.type = "UNREGISTERED"
         /\ \E p \in Found : registrations' = [registrations EXCEPT ![target[p]] = Absent]
BY DEF EraseRegistration, lifecycleVars, reader, remote, local

(* The steps of a request keep the types ...                               *)
LEMMA RequestStepType ==
  ASSUME TInv, NEW o \in Ops, OpStep(o)
  PROVE  /\ RequestTypeOK' /\ OkHasAnswer'
         /\ UNCHANGED <<flags, leaver, reader, dtor, socket, remote>>
         /\ process' \in {"up", "terminated"}
<1> USE DEF TInv, OkHasAnswer, TypeOKSession, RequestTypeOK, OpMoves, Ended
<1>1. CASE GetId(o)
  <2>1. target' \in [Ops -> Ops]
    <3>1. CASE Kind[o] \in {"unregister", "unsubscribe"}
      <4>1. PICK p \in Ops : /\ target' = [target EXCEPT ![o] = promise[p].of]
                             /\ Undoes(o, p) /\ pc[p] = "ok"
        BY <1>1, <3>1 DEF GetId
      <4>2. Kind[p] # "notify"
        BY <4>1 DEF Undoes
      <4>3. promise[p].of \in Ops
        BY <4>1, <4>2 DEF Answers
      <4> QED
        BY <4>1, <4>3
    <3>2. CASE Kind[o] \notin {"unregister", "unsubscribe"}
      BY <1>1, <3>2 DEF GetId
    <3> QED
      BY <3>1, <3>2
  <2>2. lastId' \in Nat /\ reqId' \in [Ops -> Nat] /\ host' \in [Ops -> Nat]
    <3>1. \A t \in executing : t.delivery.n \in Nat
      BY TasksNumbered
    <3> QED
      BY <1>1, <3>1 DEF GetId, Calls
  <2>3. UNCHANGED <<requests, promise, registrations, subscriptions, mapsGone, poolVars,
                    routerVars, flags, leaver, reader, dtor, socket, remote>>
        /\ process' = "up"
    BY <1>1 DEF GetId
  <2>4. /\ pc' \in [Ops -> {"idle", "insert", "send", "write", "wait"} \cup Ended]
        /\ \A p \in Ops : pc'[p] = "ok" => pc[p] = "ok"
    BY <1>1 DEF GetId
  <2> QED
    BY <2>1, <2>2, <2>3, <2>4
<1>2. CASE Insert(o)
  <2>1. requests' \subseteq Ops /\ promise' \in [Ops -> Answers \cup {NoMessage, Broken}]
    <3>1. CASE requests' = requests \cup {o} /\ UNCHANGED promise
      BY <3>1
    <3>2. CASE promise' = [promise EXCEPT ![o] = Broken] /\ UNCHANGED requests
      BY <3>2
    <3> QED
      BY <1>2, <3>1, <3>2 DEF Insert
  <2>2. \A p \in Ops : p # o => promise'[p] = promise[p]
    BY <1>2 DEF Insert
  <2>3. /\ pc' = [pc EXCEPT ![o] = "send"]
        /\ UNCHANGED <<flags, leaver, reader, dtor, socket, remote, lastId, host, reqId,
                        target, registrations, subscriptions, mapsGone, poolVars, routerVars>>
        /\ process' \in {"up", "terminated"}
    BY <1>2 DEF Insert
  <2> QED
    BY <2>1, <2>2, <2>3
<1>3. CASE Send(o)
  BY <1>3 DEF Send
<1>4. CASE Write(o)
  BY <1>4 DEF Write
<1>5. CASE Wait(o)
  <2>1. Outcome(promise[o]) = "ok" => promise[o] \in Answers
    BY DEF Outcome
  <2>2. Outcome(promise[o]) \in Ended
    BY DEF Outcome
  <2> QED
    BY <1>5, <2>1, <2>2 DEF Wait
<1> QED
  BY <1>1, <1>2, <1>3, <1>4, <1>5 DEF OpStep

(* ... so do the branches of process_incoming_message ...                  *)
LEMMA MessageStepType ==
  ASSUME TInv, HandleMessage
  PROVE  TInv'
<1> USE DEF TInv, OkHasAnswer, Handles
<1>1. /\ recv' = "test" /\ msg' = NoMessage /\ process' \in {"up", "terminated"}
      /\ UNCHANGED <<flags, leaver, dtor, socket, remote, callVars, mapsGone, executing,
                     results, routerVars>>
  BY DEF HandleMessage, HandleAcknowledgement, HandleRegistered, HandleUnregistered,
         HandleSubscribed, HandleError, HandleInvocation, HandleEvent, Dereference,
         TypeOKSession, LifecycleTypeOK
<1>2. LifecycleTypeOK(Messages)'
  BY <1>1 DEF TypeOKSession, LifecycleTypeOK, flags, remote
<1>3. ASSUME Settle, msg.type \in AnswerTypes
      PROVE  requests' \subseteq Ops /\ promise' \in [Ops -> Answers \cup {NoMessage, Broken}]
             /\ OkHasAnswer'
  <2>1. msg \in Answers
    BY <1>3, MessageFields DEF TypeOKSession, LifecycleTypeOK
  <2> QED
    BY <1>1, <1>3, <2>1, PromisesKeepTheirType DEF Settle, TypeOKSession
<1>4. CASE HandleAcknowledgement
  <2>1. Settle /\ msg.type \in AnswerTypes /\ UNCHANGED <<registrations, subscriptions, tasks>>
    BY <1>4 DEF HandleAcknowledgement, AnswerTypes
  <2> QED
    BY <1>1, <1>2, <1>3, <2>1 DEF TypeOKSession
<1>5. CASE HandleRegistered
  <2>1. Settle /\ msg.type \in AnswerTypes /\ UNCHANGED <<subscriptions, tasks>>
    BY <1>5 DEF HandleRegistered, AnswerTypes
  <2>2. registrations' \in [Ops -> Handlers \cup {Absent}]
    BY <1>5 DEF HandleRegistered, Emplaced, Found, Entry, Handlers, TypeOKSession
  <2> QED
    BY <1>1, <1>2, <1>3, <2>1, <2>2 DEF TypeOKSession
<1>6. CASE HandleUnregistered
  <2>1. Settle /\ msg.type \in AnswerTypes /\ UNCHANGED <<subscriptions, tasks>>
    BY <1>6 DEF HandleUnregistered, AnswerTypes
  <2>2. registrations' = registrations
    BY <1>6 DEF HandleUnregistered
  <2> QED
    BY <1>1, <1>2, <1>3, <2>1, <2>2 DEF TypeOKSession
<1>7. CASE HandleSubscribed
  <2>1. Settle /\ msg.type \in AnswerTypes /\ UNCHANGED <<registrations, tasks>>
    BY <1>7 DEF HandleSubscribed, AnswerTypes
  <2>2. subscriptions' \in [Topics -> Handlers \cup {Absent}]
    BY <1>7 DEF HandleSubscribed, Emplaced, Found, Entry, Handlers, TypeOKSession
  <2> QED
    BY <1>1, <1>2, <1>3, <2>1, <2>2 DEF TypeOKSession
<1>8. CASE HandleError
  <2>1. Settle /\ msg.type \in AnswerTypes /\ UNCHANGED <<registrations, subscriptions, tasks>>
    BY <1>8 DEF HandleError, AnswerTypes
  <2> QED
    BY <1>1, <1>2, <1>3, <2>1 DEF TypeOKSession
<1>9. CASE HandleInvocation
  <2>1. msg \in Deliveries /\ msg.of \in Ops
    BY <1>9, MessageFields DEF HandleInvocation, TypeOKSession, LifecycleTypeOK
  <2>2. tasks' \in Seq(Tasks)
    <3>1. registrations[msg.of] # Absent =>
            [delivery |-> msg, handler |-> registrations[msg.of]] \in Tasks
      BY <2>1 DEF TypeOKSession, Tasks
    <3>2. tasks \in Seq(Tasks)
      BY DEF TypeOKSession
    <3> QED
      BY <1>9, <3>1, <3>2 DEF HandleInvocation, Enqueue
  <2>3. registrations' \in [Ops -> Handlers \cup {Absent}]
    BY <1>9 DEF HandleInvocation, MovedFrom, Handlers, TypeOKSession
  <2> QED
    BY <1>1, <1>2, <1>9, <2>2, <2>3 DEF HandleInvocation, TypeOKSession
<1>10. CASE HandleEvent
  <2>1. msg \in Deliveries /\ msg.of \in Topics
    BY <1>10, MessageFields DEF HandleEvent, TypeOKSession, LifecycleTypeOK
  <2>2. tasks' \in Seq(Tasks)
    <3>1. subscriptions[msg.of] # Absent =>
            [delivery |-> msg, handler |-> subscriptions[msg.of]] \in Tasks
      BY <2>1 DEF TypeOKSession, Tasks
    <3>2. tasks \in Seq(Tasks)
      BY DEF TypeOKSession
    <3> QED
      BY <1>10, <3>1, <3>2 DEF HandleEvent, Enqueue
  <2>3. subscriptions' \in [Topics -> Handlers \cup {Absent}]
    BY <1>10 DEF HandleEvent, MovedFrom, Handlers, TypeOKSession
  <2> QED
    BY <1>1, <1>2, <1>10, <2>2, <2>3 DEF HandleEvent, TypeOKSession
<1> QED
  BY <1>4, <1>5, <1>6, <1>7, <1>8, <1>9, <1>10 DEF HandleMessage

LEMMA EraseStepType ==
  ASSUME TInv, EraseRegistration
  PROVE  TInv'
<1> USE DEF TInv, OkHasAnswer, TypeOKSession
<1>1. LifecycleTypeOK(Messages)'
  BY EraseFrame DEF LifecycleTypeOK, lifecycleVars, flags, reader, local, remote
<1>2. registrations' \in [Ops -> Handlers \cup {Absent}]
  BY EraseFrame
<1> QED
  BY <1>1, <1>2, EraseFrame

(* ... the pool and the router too ...                                     *)
LEMMA PoolStepType ==
  ASSUME TInv, StartTask \/ \E t \in executing : FinishTask(t)
  PROVE  TInv'
<1> USE DEF TInv, OkHasAnswer, PoolMoves
<1>1. UNCHANGED <<lifecycleVars, callVars, mapVars, routerVars>>
  BY DEF StartTask, FinishTask
<1>2. LifecycleTypeOK(Messages)' /\ OkHasAnswer'
  BY <1>1 DEF TypeOKSession, LifecycleTypeOK, lifecycleVars, flags, reader, local, remote
<1>3. CASE StartTask
  <2>1. tasks' \in Seq(Tasks) /\ Head(tasks) \in Tasks /\ results' = results
        /\ executing' = executing \cup {Head(tasks)}
    BY <1>3 DEF StartTask, TypeOKSession
  <2> QED
    BY <1>1, <1>2, <2>1 DEF TypeOKSession
<1>4. ASSUME NEW t \in executing, FinishTask(t)
      PROVE  TInv'
  <2>1. results' \in [1..MaxDeliveries -> {"none", "done", "lost", "untold"}]
    BY <1>4 DEF FinishTask, Results, TypeOKSession
  <2>2. executing' \subseteq Tasks /\ tasks' = tasks
    BY <1>4 DEF FinishTask, TypeOKSession
  <2> QED
    BY <1>1, <1>2, <2>1, <2>2 DEF TypeOKSession
<1> QED
  BY <1>3, <1>4

LEMMA RouterTellsType ==
  ASSUME TypeOKSession, NEW m \in Messages, RouterTells(m)
  PROVE  LifecycleTypeOK(Messages)' /\ UNCHANGED <<callVars, mapVars, poolVars>>
<1>1. inbox' \in Seq(Messages)
  BY DEF RouterTells, RouterSends, TypeOKSession, LifecycleTypeOK
<1> QED
  BY <1>1 DEF RouterTells, RouterSends, TypeOKSession, LifecycleTypeOK, flags, reader, local

LEMMA RouterStepType ==
  ASSUME TInv,
         \/ \E o \in Ops : RouterGrants(o) \/ RouterRefuses(o)
         \/ \E k \in active : RouterDelivers(k)
  PROVE  TInv'
<1> USE DEF TInv, OkHasAnswer
<1>1. ASSUME NEW o \in Ops, RouterGrants(o)
      PROVE  TInv'
  <2>1. AnswerType[Kind[o]] \in AnswerTypes
    BY DEF AnswerType, AnswerTypes, Kinds
  <2>2. [type |-> AnswerType[Kind[o]], kind |-> Kind[o], id |-> reqId[o], of |-> o] \in Messages
    BY <2>1, AnswerToIsMessage DEF Messages
  <2>3. LifecycleTypeOK(Messages)' /\ UNCHANGED <<callVars, mapVars, poolVars>>
    BY <1>1, <2>2, RouterTellsType DEF RouterGrants
  <2>4. Kind[o] \in {"register", "unregister"} => Key(o) \in Ops
    BY DEF Key, TypeOKSession
  <2>5. Kind[o] \in {"subscribe", "unsubscribe"} => Key(o) \in Topics
    BY DEF Key, TypeOKSession, Topics
  <2>6. active' \subseteq Ops \cup Topics
    BY <1>1, <2>4, <2>5 DEF RouterGrants, TypeOKSession
  <2>7. router' = [router EXCEPT ![o] = "granted"] /\ delivered' = delivered
    BY <1>1 DEF RouterGrants
  <2> QED
    BY <2>3, <2>6, <2>7 DEF TypeOKSession
<1>2. ASSUME NEW o \in Ops, RouterRefuses(o)
      PROVE  TInv'
  <2>1. [type |-> "ERROR", kind |-> Kind[o], id |-> reqId[o], of |-> o] \in Messages
    BY AnswerToIsMessage DEF Messages, AnswerTypes
  <2>2. LifecycleTypeOK(Messages)' /\ UNCHANGED <<callVars, mapVars, poolVars>>
    BY <1>2, <2>1, RouterTellsType DEF RouterRefuses
  <2>3. router' = [router EXCEPT ![o] = "refused"] /\ UNCHANGED <<active, delivered>>
    BY <1>2 DEF RouterRefuses
  <2> QED
    BY <2>2, <2>3 DEF TypeOKSession
<1>3. ASSUME NEW k \in active, RouterDelivers(k)
      PROVE  TInv'
  <2>1. k \in Ops \cup Topics /\ delivered' \in 0..MaxDeliveries /\ delivered' \in Nat
    BY <1>3 DEF RouterDelivers, TypeOKSession
  <2>2. [type |-> IF k \in Ops THEN "INVOCATION" ELSE "EVENT", of |-> k, n |-> delivered']
          \in Messages
    BY <2>1 DEF Messages, Deliveries
  <2>3. LifecycleTypeOK(Messages)' /\ UNCHANGED <<callVars, mapVars, poolVars>>
    BY <1>3, <2>2, RouterTellsType DEF RouterDelivers
  <2>4. UNCHANGED <<router, active>>
    BY <1>3 DEF RouterDelivers
  <2> QED
    BY <2>1, <2>3, <2>4 DEF TypeOKSession
<1> QED
  BY <1>1, <1>2, <1>3

LEMMA MapsStepType ==
  ASSUME TInv, SessionDtorMaps
  PROVE  TInv'
<1> USE DEF TInv, OkHasAnswer, TypeOKSession
<1>1. LifecycleTypeOK(Messages)'
  BY DEF SessionDtorMaps, LifecycleTypeOK, lifecycleVars, flags, reader, local, remote
<1>2. promise' \in [Ops -> Answers \cup {NoMessage, Broken}]
      /\ \A o \in Ops : promise[o] \in Answers => promise'[o] = promise[o]
  BY DEF SessionDtorMaps, Answers, NoMessage, AnswerTypes
<1> QED
  BY <1>1, <1>2 DEF SessionDtorMaps

(* ... and so does the lifecycle inside the session.                       *)
LEMMA TInvInit == Init => TInv
<1> SUFFICES ASSUME Init PROVE TInv
  OBVIOUS
<1>1. LifecycleTypeOK(Messages)
  <2>1. inbox \in Seq(Messages)
    BY DEF Init, LifecycleInit
  <2> QED
    BY <2>1 DEF Init, LifecycleInit, LifecycleTypeOK
<1>2. tasks \in Seq(Tasks) /\ 0 \in 0..MaxDeliveries
  BY DEF Init
<1>3. RequestTypeOK
  BY <1>2 DEF Init, RequestTypeOK
<1> QED
  BY <1>1, <1>3, TypesTogether DEF Init, TInv, OkHasAnswer

LEMMA TInvStep == TInv /\ [Next]_vars => TInv'
<1> SUFFICES ASSUME TInv, [Next]_vars PROVE TInv'
  OBVIOUS
<1>1. CASE LifecycleActions /\ UNCHANGED requestVars
  <2>1. LifecycleTypeOK(Messages)'
    BY <1>1, LifecycleInside, TypeStep DEF TInv, TypeOKSession, Messages
  <2> QED
    BY <1>1, <2>1 DEF TInv, TypeOKSession, OkHasAnswer
<1>2. ASSUME NEW o \in Ops, OpStep(o)
      PROVE  TInv'
  <2>1. /\ RequestTypeOK' /\ OkHasAnswer'
        /\ UNCHANGED <<flags, leaver, reader, dtor, socket, remote>>
        /\ process' \in {"up", "terminated"}
    BY <1>2, RequestStepType
  <2>2. LifecycleTypeOK(Messages)'
    BY <2>1 DEF TInv, TypeOKSession, LifecycleTypeOK, flags, reader, remote
  <2> QED
    BY <2>1, <2>2 DEF TInv, TypeOKSession, RequestTypeOK
<1>3. CASE UNCHANGED vars
  BY <1>3 DEF TInv, TypeOKSession, OkHasAnswer, LifecycleTypeOK, lifecycleVars, flags, reader,
              local, remote
<1> QED
  BY <1>1, <1>2, <1>3, EraseStepType, MessageStepType, MapsStepType, PoolStepType,
     RouterStepType DEF Next

(* The variables of the session keep to their types.                       *)
THEOREM SessionTypeCorrect == Spec => []TypeOKSession
<1>1. TInv => TypeOKSession
  BY DEF TInv
<1> QED
  BY <1>1, TInvInit, TInvStep, PTL DEF Spec, SafeSpec

-----------------------------------------------------------------------------
(* What ties an answer to its request.  The router writes one answer for a *)
(* request it received, the request has its entry before it is written and *)
(* keeps it until the answer is processed, and no two requests have one id.*)
IsAnswer(m) == m.type \in AnswerTypes

Awaited(m) ==
  /\ m.of \in requests /\ m.kind = Kind[m.of] /\ m.id = reqId[m.of]
  /\ m.type \in {"ERROR", AnswerType[m.kind]}
  /\ router[m.of] = IF m.type = "ERROR" THEN "refused" ELSE "granted"

AnswersAwaited ==
  /\ \A i \in 1..Len(inbox) : IsAnswer(inbox[i]) => Awaited(inbox[i])
  /\ IsAnswer(msg) => Awaited(msg)

OneAnswerEach ==
  /\ \A i, j \in 1..Len(inbox) :
       IsAnswer(inbox[i]) /\ IsAnswer(inbox[j]) /\ inbox[i].of = inbox[j].of => i = j
  /\ \A i \in 1..Len(inbox) :
       IsAnswer(inbox[i]) /\ IsAnswer(msg) => inbox[i].of # msg.of

IdsDiffer ==
  \A o, p \in Ops :
    pc[o] # "idle" => /\ reqId[o] <= lastId
                      /\ pc[p] # "idle" /\ reqId[o] = reqId[p] => o = p

EntryInTime ==
  \A o \in Ops :
    /\ o \in requests => promise[o] = NoMessage /\ pc[o] \notin {"idle", "insert"}
    /\ pc[o] \in {"idle", "insert"} => promise[o] = NoMessage
    /\ pc[o] \in {"idle", "insert", "send", "write"} => router[o] = "none"
    /\ o \in Acknowledged /\ (pc[o] \in {"send", "write"} \/ router[o] = "received")
         => o \in requests

PromiseTellsVerdict ==
  \A o \in Ops : promise[o] \in Answers =>
    /\ promise[o].of = o
    /\ router[o] = IF promise[o].type = "ERROR" THEN "refused" ELSE "granted"

QInv == AnswersAwaited /\ OneAnswerEach /\ IdsDiffer /\ EntryInTime /\ PromiseTellsVerdict

USE DEF AnswersAwaited, OneAnswerEach, IdsDiffer, EntryInTime, PromiseTellsVerdict

(* No kind of message but an answer looks like one.                        *)
LEMMA NotAnswers ==
  /\ ~IsAnswer(NoMessage) /\ ~IsAnswer(Goodbye)
  /\ NoMessage \notin Answers /\ Broken \notin Answers
  /\ \A m \in Answers : IsAnswer(m)
BY DEF IsAnswer, NoMessage, Goodbye, Broken, Answers, AnswerTypes

(* Under its id an answer that is awaited finds its request alone.         *)
LEMMA FoundIsOwn ==
  ASSUME TInv, QInv, IsAnswer(msg)
  PROVE  msg.of \in Ops /\ Found = {msg.of}
<1>1. msg.of \in requests /\ msg.kind = Kind[msg.of] /\ msg.id = reqId[msg.of]
  BY DEF QInv, Awaited
<1>2. requests \subseteq Ops /\ \A p \in requests : pc[p] # "idle"
  BY DEF QInv, TInv, TypeOKSession
<1> QED
  BY <1>1, <1>2 DEF QInv, Found, Entry

(* The invariant holds at the start ...                                    *)
LEMMA QInvInit == Init => QInv
<1> SUFFICES ASSUME Init PROVE QInv
  OBVIOUS
<1>1. inbox = <<>> /\ Len(inbox) = 0 /\ msg = NoMessage
  BY DEF Init, LifecycleInit
<1> QED
  BY <1>1, NotAnswers DEF Init, QInv

(* ... messages that are no answers come and go without harm ...           *)
LEMMA LifecycleMessages ==
  ASSUME LifecycleNext
  PROVE  \/ UNCHANGED <<inbox, msg>>
         \/ inbox # <<>> /\ msg' = Head(inbox) /\ inbox' = Tail(inbox)
         \/ inbox' = Append(inbox, Goodbye) /\ msg' = msg
         \/ inbox' = inbox /\ msg' = NoMessage
<1>1. ASSUME NEW t \in Leavers, LeaveStep(t)
      PROVE  UNCHANGED <<inbox, msg>>
  BY <1>1 DEF LeaveStep, LeaveBegin, LeaveSend, LeaveWrite, LeaveMark, LeaveWait, LeaveMoves,
              reader
<1>2. DtorStep \/ LinkLost => UNCHANGED <<inbox, msg>>
  BY DEF DtorStep, DtorBegin, DtorClose, DtorStop, DtorJoin, DtorPool, DtorPoolWakes,
         DtorMembers, DtorMoves, LinkLost, reader, remote
<1>3. TestRunning \/ ReadFails \/ StopRunning \/ CloseAfterGoodbye => UNCHANGED <<inbox, msg>>
  BY DEF TestRunning, ReadFails, StopRunning, CloseAfterGoodbye
<1>4. ReadMessage => inbox # <<>> /\ msg' = Head(inbox) /\ inbox' = Tail(inbox)
  BY DEF ReadMessage
<1>5. HandleGoodbye => inbox' = inbox /\ msg' = NoMessage
  BY DEF HandleGoodbye
<1>6. RouterLeaves \/ RouterReplies => inbox' = Append(inbox, Goodbye) /\ msg' = msg
  BY DEF RouterLeaves, RouterReplies, RouterSends, reader
<1> QED
  BY <1>1, <1>2, <1>3, <1>4, <1>5, <1>6 DEF LifecycleNext, RecvStep

LEMMA MessagesMove ==
  ASSUME TInv, QInv, UNCHANGED requestVars,
         \/ UNCHANGED <<inbox, msg>>
         \/ inbox # <<>> /\ msg' = Head(inbox) /\ inbox' = Tail(inbox)
         \/ inbox' = inbox /\ msg' = NoMessage
  PROVE  QInv'
<1>1. \A m : Awaited(m)' <=> Awaited(m)
  BY DEF Awaited
<1>2. inbox \in Seq(Messages)
  BY DEF TInv, TypeOKSession, LifecycleTypeOK
<1>3. AnswersAwaited' /\ OneAnswerEach'
  <2>1. CASE UNCHANGED <<inbox, msg>>
    BY <1>1, <2>1 DEF QInv, Awaited
  <2>2. CASE inbox # <<>> /\ msg' = Head(inbox) /\ inbox' = Tail(inbox)
    <3>1. /\ Len(inbox') = Len(inbox) - 1 /\ Len(inbox) \in Nat \ {0}
          /\ \A i \in 1..Len(inbox') : inbox'[i] = inbox[i + 1] /\ i + 1 \in 1..Len(inbox)
          /\ msg' = inbox[1]
      BY <1>2, <2>2
    <3>2. AnswersAwaited'
      BY <3>1 DEF QInv, Awaited
    <3>3. ASSUME NEW i \in 1..Len(inbox'), IsAnswer(inbox'[i])
          PROVE  /\ \A j \in 1..Len(inbox') :
                      IsAnswer(inbox'[j]) /\ inbox'[i].of = inbox'[j].of => i = j
                 /\ IsAnswer(msg') => inbox'[i].of # msg'.of
      <4>1. i \in Nat \ {0} /\ i + 1 # 1 /\ 1 \in 1..Len(inbox)
        BY <3>1
      <4>2. IsAnswer(inbox[i + 1]) /\ i + 1 \in 1..Len(inbox)
        BY <3>1, <3>3
      <4>3. IsAnswer(msg') => inbox'[i].of # msg'.of
        BY <3>1, <4>1, <4>2 DEF QInv
      <4>4. ASSUME NEW j \in 1..Len(inbox'), IsAnswer(inbox'[j]), inbox'[i].of = inbox'[j].of
            PROVE  i = j
        <5>1. i + 1 = j + 1
          BY <3>1, <4>2, <4>4 DEF QInv
        <5> QED
          BY <5>1
      <4> QED
        BY <4>3, <4>4
    <3>4. OneAnswerEach'
      BY <3>3 DEF IsAnswer
    <3> QED
      BY <3>2, <3>4
  <2>3. CASE inbox' = inbox /\ msg' = NoMessage
    BY <2>3, NotAnswers DEF QInv, Awaited
  <2> QED
    BY <2>1, <2>2, <2>3
<1>4. IdsDiffer' /\ EntryInTime' /\ PromiseTellsVerdict'
  BY DEF QInv
<1> QED
  BY <1>3, <1>4 DEF QInv

(* ... and one that comes answers a request the router had not answered.   *)
LEMMA MessageComes ==
  ASSUME TInv, QInv, NEW m \in Messages,
         inbox' = Append(inbox, m), UNCHANGED <<msg, callVars, mapVars>>,
         IsAnswer(m) => m.of \in Ops /\ router[m.of] = "received" /\ Awaited(m)',
         \A o \in Ops : router'[o] # router[o] => IsAnswer(m) /\ o = m.of
  PROVE  QInv'
<1>1. /\ Len(inbox') = Len(inbox) + 1 /\ Len(inbox) \in Nat
      /\ \A i \in 1..Len(inbox) : inbox'[i] = inbox[i]
      /\ inbox'[Len(inbox) + 1] = m
  BY DEF TInv, TypeOKSession, LifecycleTypeOK
<1>2. /\ \A i \in 1..Len(inbox) : IsAnswer(inbox[i]) => inbox[i].of \in Ops
      /\ IsAnswer(msg) => msg.of \in Ops
  BY DEF QInv, Awaited, TInv, TypeOKSession
<1>3. \A n : n.of \in Ops /\ Awaited(n) => Awaited(n)' /\ (IsAnswer(m) => n.of # m.of)
  BY DEF Awaited
<1>4. \A i \in 1..Len(inbox') : i \in 1..Len(inbox) \/ i = Len(inbox) + 1
  BY <1>1
<1>5. AnswersAwaited'
  BY <1>1, <1>2, <1>3, <1>4 DEF QInv
<1>6. OneAnswerEach'
  BY <1>1, <1>2, <1>3, <1>4 DEF QInv
<1>7. \A o \in Ops : router'[o] # router[o] =>
        router[o] = "received" /\ router'[o] \in {"granted", "refused"}
  BY DEF Awaited
<1>8. IdsDiffer'
  BY DEF QInv
<1>9. EntryInTime'
  BY <1>7 DEF QInv
<1>10. PromiseTellsVerdict'
  BY <1>7 DEF QInv
<1> QED
  BY <1>5, <1>6, <1>8, <1>9, <1>10 DEF QInv

LEMMA RouterKeepsQInv ==
  ASSUME TInv, QInv,
         \/ \E o \in Ops : RouterGrants(o) \/ RouterRefuses(o)
         \/ \E k \in active : RouterDelivers(k)
  PROVE  QInv'
<1>1. ASSUME NEW m, RouterTells(m)
      PROVE  inbox' = Append(inbox, m) /\ UNCHANGED <<msg, callVars, mapVars>>
  BY <1>1 DEF RouterTells, RouterSends, reader
<1>2. ASSUME NEW o \in Ops, RouterGrants(o)
      PROVE  QInv'
  <2> DEFINE m == [type |-> AnswerType[Kind[o]], kind |-> Kind[o], id |-> reqId[o], of |-> o]
  <2>1. AnswerType[Kind[o]] \in AnswerTypes /\ AnswerType[Kind[o]] # "ERROR"
    BY DEF AnswerType, AnswerTypes, Kinds
  <2>2. m \in Messages
    BY <2>1, AnswerToIsMessage DEF Messages, TInv
  <2>3. RouterTells(m) /\ router[o] = "received" /\ o \in Acknowledged
        /\ router' = [router EXCEPT ![o] = "granted"]
    BY <1>2 DEF RouterGrants
  <2>4. router'[o] = "granted" /\ \A p \in Ops : p # o => router'[p] = router[p]
    BY <2>3 DEF TInv, TypeOKSession
  <2>5. o \in requests
    BY <2>3 DEF QInv
  <2>6. Awaited(m)'
    BY <1>1, <2>1, <2>3, <2>4, <2>5 DEF Awaited
  <2> HIDE DEF m
  <2>7. m.of = o
    BY DEF m
  <2> QED
    BY <1>1, <2>2, <2>3, <2>4, <2>6, <2>7, <2>1, MessageComes DEF IsAnswer, m
<1>3. ASSUME NEW o \in Ops, RouterRefuses(o)
      PROVE  QInv'
  <2> DEFINE m == [type |-> "ERROR", kind |-> Kind[o], id |-> reqId[o], of |-> o]
  <2>1. m \in Messages
    BY AnswerToIsMessage DEF Messages, TInv, AnswerTypes
  <2>2. RouterTells(m) /\ router[o] = "received" /\ o \in Acknowledged
        /\ router' = [router EXCEPT ![o] = "refused"]
    BY <1>3 DEF RouterRefuses
  <2>3. router'[o] = "refused" /\ \A p \in Ops : p # o => router'[p] = router[p]
    BY <2>2 DEF TInv, TypeOKSession
  <2>4. o \in requests
    BY <2>2 DEF QInv
  <2>5. Awaited(m)'
    BY <1>1, <2>2, <2>3, <2>4 DEF Awaited
  <2>6. IsAnswer(m)
    BY DEF IsAnswer, AnswerTypes
  <2>7. m.of = o
    OBVIOUS
  <2> HIDE DEF m
  <2> QED
    BY <1>1, <2>1, <2>2, <2>3, <2>5, <2>6, <2>7, MessageComes DEF m
<1>4. ASSUME NEW k \in active, RouterDelivers(k)
      PROVE  QInv'
  <2> DEFINE m == [type |-> IF k \in Ops THEN "INVOCATION" ELSE "EVENT", of |-> k,
                   n |-> delivered']
  <2>1. k \in Ops \cup Topics /\ delivered' \in Nat /\ RouterTells(m) /\ router' = router
    BY <1>4 DEF RouterDelivers, TInv, TypeOKSession
  <2>2. m \in Messages
    BY <2>1 DEF Messages, Deliveries
  <2>3. ~IsAnswer(m)
    BY DEF IsAnswer, AnswerTypes
  <2> HIDE DEF m
  <2> QED
    BY <1>1, <2>1, <2>2, <2>3, MessageComes
<1> QED
  BY <1>2, <1>3, <1>4

(* The lifecycle and the pool touch no request.                            *)
LEMMA LifecycleKeepsQInv ==
  ASSUME TInv, QInv, LifecycleActions, UNCHANGED requestVars
  PROVE  QInv'
<1>1. CASE inbox' = Append(inbox, Goodbye) /\ msg' = msg
  BY <1>1, MessageComes, NotAnswers DEF Messages
<1> QED
  BY <1>1, LifecycleInside, LifecycleMessages, MessagesMove

LEMMA PoolKeepsQInv ==
  ASSUME TInv, QInv, StartTask \/ \E t \in executing : FinishTask(t)
  PROVE  QInv'
<1>1. UNCHANGED <<lifecycleVars, callVars, mapVars, routerVars>>
  BY DEF StartTask, FinishTask, PoolMoves
<1>2. UNCHANGED <<inbox, msg, pc, lastId, reqId, target, requests, promise, router>>
  BY <1>1 DEF lifecycleVars, reader, remote
<1> QED
  BY <1>2 DEF QInv, Awaited

(* A step of a request disturbs no answer: the request has had none.       *)
LEMMA RequestKeepsQInv ==
  ASSUME TInv, QInv, ~mapsGone, NEW o \in Ops, OpStep(o)
  PROVE  QInv'
<1> USE DEF OpMoves
<1>1. /\ UNCHANGED <<inbox, msg>>
      /\ pc \in [Ops -> {"idle", "insert", "send", "write", "wait"} \cup Ended]
      /\ reqId \in [Ops -> Nat] /\ lastId \in Nat /\ requests \subseteq Ops
      /\ promise \in [Ops -> Answers \cup {NoMessage, Broken}]
      /\ router \in [Ops -> {"none", "received", "granted", "refused"}]
  BY RequestStepType DEF lifecycleVars, reader, remote, TInv, TypeOKSession
<1>2. ASSUME requests \subseteq requests',
             \A p \in requests : reqId'[p] = reqId[p] /\
                                 (router[p] \in {"granted", "refused"} => router'[p] = router[p])
      PROVE  AnswersAwaited' /\ OneAnswerEach'
  BY <1>1, <1>2 DEF QInv, Awaited
<1>3. CASE GetId(o)
  <2>1. /\ \E to \in First(o) : pc' = [pc EXCEPT ![o] = to]
        /\ pc[o] = "idle" /\ lastId' = lastId + 1 /\ reqId' = [reqId EXCEPT ![o] = lastId + 1]
        /\ UNCHANGED <<requests, promise, router>>
    BY <1>3 DEF GetId
  <2>2. o \notin requests
    BY <2>1 DEF QInv
  <2>3. IdsDiffer'
    BY <1>1, <2>1 DEF QInv
  <2>4. EntryInTime'
    BY <1>1, <2>1, <2>2 DEF QInv, Acknowledged, Ended
  <2> QED
    BY <1>1, <1>2, <2>1, <2>2, <2>3, <2>4 DEF QInv
<1>4. CASE Insert(o)
  <2>1. pc[o] = "insert" /\ pc' = [pc EXCEPT ![o] = "send"] /\ UNCHANGED <<lastId, reqId, router>>
    BY <1>4 DEF Insert
  <2>2. Entry(Kind[o], reqId[o]) = {}
    BY <1>1, <2>1 DEF QInv, Entry
  <2>3. requests' = requests \cup {o} /\ promise' = promise
    BY <1>4, <2>2 DEF Insert
  <2>4. IdsDiffer'
    BY <1>1, <2>1 DEF QInv
  <2>5. EntryInTime'
    BY <1>1, <2>1, <2>3 DEF QInv
  <2> QED
    BY <1>1, <1>2, <2>1, <2>3, <2>4, <2>5 DEF QInv
<1>5. CASE Send(o)
  <2>1. /\ pc[o] = "send" /\ pc' = [pc EXCEPT ![o] = IF running THEN "write" ELSE "closed"]
        /\ UNCHANGED <<lastId, reqId, router, requests, promise>>
    BY <1>5 DEF Send
  <2>2. IdsDiffer' /\ EntryInTime'
    BY <1>1, <2>1 DEF QInv
  <2> QED
    BY <1>1, <1>2, <2>1, <2>2 DEF QInv
<1>6. CASE Write(o)
  <2>1. /\ pc[o] = "write" /\ pc' = [pc EXCEPT ![o] = IF Kind[o] = "notify" THEN "ok" ELSE "wait"]
        /\ \E v \in {"none", "received"} : router' = [router EXCEPT ![o] = v]
        /\ UNCHANGED <<lastId, reqId, requests, promise>>
    BY <1>1, <1>6 DEF Write, QInv
  <2>2. router[o] = "none"
    BY <2>1 DEF QInv
  <2>3. IdsDiffer'
    BY <1>1, <2>1 DEF QInv
  <2>4. EntryInTime'
    BY <1>1, <2>1, <2>2 DEF QInv
  <2>5. PromiseTellsVerdict'
    BY <1>1, <2>1, <2>2 DEF QInv
  <2> QED
    BY <1>1, <1>2, <2>1, <2>2, <2>3, <2>4, <2>5 DEF QInv
<1>7. CASE Wait(o)
  <2>1. pc[o] = "wait" /\ pc' = [pc EXCEPT ![o] = Outcome(promise[o])]
        /\ UNCHANGED <<lastId, reqId, router, requests, promise>>
    BY <1>7 DEF Wait
  <2>2. Outcome(promise[o]) \in Ended
    BY DEF Outcome, Ended
  <2>3. IdsDiffer' /\ EntryInTime'
    BY <1>1, <2>1, <2>2 DEF QInv, Ended
  <2> QED
    BY <1>1, <1>2, <2>1, <2>3 DEF QInv
<1> QED
  BY <1>3, <1>4, <1>5, <1>6, <1>7 DEF OpStep

(* An answer is handed to its request and to no other, and with it goes    *)
(* the entry.                                                              *)
LEMMA MessageKeepsQInv ==
  ASSUME TInv, QInv, HandleMessage
  PROVE  QInv'
<1>1. /\ msg' = NoMessage /\ UNCHANGED <<inbox, callVars, routerVars>>
      /\ \/ IsAnswer(msg) /\ Settle
         \/ UNCHANGED <<requests, promise>>
  <2>1. CASE HandleAcknowledgement \/ HandleRegistered \/ HandleUnregistered
    BY <2>1 DEF HandleAcknowledgement, HandleRegistered, HandleUnregistered, Handles, remote,
                IsAnswer, AnswerTypes
  <2>2. CASE HandleSubscribed \/ HandleError
    BY <2>2 DEF HandleSubscribed, HandleError, Handles, remote, IsAnswer, AnswerTypes
  <2>3. CASE HandleInvocation \/ HandleEvent
    BY <2>3 DEF HandleInvocation, HandleEvent, Handles, remote
  <2> QED
    BY <2>1, <2>2, <2>3 DEF HandleMessage
<1>2. CASE UNCHANGED <<requests, promise>>
  BY <1>1, <1>2, NotAnswers DEF QInv, Awaited
<1>3. CASE IsAnswer(msg) /\ Settle
  <2>1. msg.of \in Ops /\ Found = {msg.of}
    BY <1>3, FoundIsOwn
  <2>2. requests' = requests \ {msg.of}
        /\ promise' = [p \in Ops |-> IF p = msg.of THEN msg ELSE promise[p]]
    BY <1>3, <2>1 DEF Settle
  <2>3. Awaited(msg)
    BY <1>3 DEF QInv
  <2>4. AnswersAwaited'
    <3>1. ASSUME NEW n, Awaited(n), n.of # msg.of
          PROVE  Awaited(n)'
      BY <1>1, <2>2, <3>1 DEF Awaited
    <3>2. \A i \in 1..Len(inbox) :
            IsAnswer(inbox[i]) => Awaited(inbox[i]) /\ inbox[i].of # msg.of
      BY <1>3 DEF QInv
    <3>3. \A i \in 1..Len(inbox) : IsAnswer(inbox[i]) => Awaited(inbox[i])'
      BY <1>1, <3>1, <3>2
    <3>4. ~IsAnswer(msg')
      BY <1>1, NotAnswers
    <3> QED
      BY <1>1, <3>3, <3>4
  <2>5. OneAnswerEach' /\ IdsDiffer'
    BY <1>1, NotAnswers DEF QInv
  <2>6. EntryInTime'
    BY <1>1, <2>1, <2>2, <2>3 DEF QInv, Awaited
  <2>7. PromiseTellsVerdict'
    BY <1>1, <2>1, <2>2, <2>3 DEF QInv, Awaited
  <2> QED
    BY <2>4, <2>5, <2>6, <2>7 DEF QInv
<1> QED
  BY <1>1, <1>2, <1>3

(* When ~Session has destroyed the maps this much remains.  The maps go    *)
(* when the reader has gone, which would have met them empty.              *)
SentInTime ==
  \A o \in Ops : pc[o] \in {"idle", "insert", "send", "write"} => router[o] = "none"

MapsGoLate ==
  /\ dtor \in {"members", "pool", "stuck", "gone"} => recv = "exited"
  /\ mapsGone => dtor \in {"members", "pool", "stuck", "gone"}

GInv == SentInTime /\ PromiseTellsVerdict /\ MapsGoLate

SInv == TInv /\ GInv /\ (mapsGone \/ QInv)

USE DEF SentInTime, MapsGoLate, GInv, SInv

LEMMA ReaderNeedsMaps ==
  ASSUME GInv, HandleMessage
  PROVE  ~mapsGone /\ mapsGone' = mapsGone /\ UNCHANGED dtor /\ recv' = "test"
BY DEF HandleMessage, HandleAcknowledgement, HandleRegistered, HandleUnregistered,
       HandleSubscribed, HandleError, HandleInvocation, HandleEvent, Handles

LEMMA LifecycleKeepsMaps ==
  ASSUME GInv, LifecycleActions, UNCHANGED requestVars
  PROVE  MapsGoLate'
<1>1. mapsGone' = mapsGone
  OBVIOUS
<1>2. ASSUME NEW t \in Leavers, LeaveStep(t)
      PROVE  UNCHANGED <<recv, dtor>>
  BY <1>2 DEF LeaveStep, LeaveBegin, LeaveSend, LeaveWrite, LeaveMark, LeaveWait, LeaveMoves,
              reader
<1>3. RecvStep => recv # "exited" /\ dtor' = dtor
  BY DEF RecvStep, TestRunning, ReadMessage, ReadFails, HandleGoodbye, StopRunning,
         CloseAfterGoodbye, RecvMoves
<1>4. DtorStep => /\ recv' = recv
                  /\ dtor' \in {"members", "pool", "stuck", "gone"} => recv = "exited"
                  /\ dtor \in {"members", "pool", "stuck", "gone"}
                       => dtor' \in {"pool", "stuck", "gone"}
  BY DEF DtorStep, DtorBegin, DtorClose, DtorStop, DtorJoin, DtorPool, DtorPoolWakes,
         DtorMembers, DtorMoves, reader
<1>5. RouterLeaves \/ RouterReplies \/ LinkLost => UNCHANGED <<recv, dtor>>
  BY DEF RouterLeaves, RouterReplies, RouterSends, LinkLost, reader
<1> QED
  BY <1>1, <1>2, <1>3, <1>4, <1>5, LifecycleInside DEF LifecycleNext

LEMMA RequestKeepsGInv ==
  ASSUME TInv, GInv, NEW o \in Ops, OpStep(o)
  PROVE  GInv' /\ mapsGone' = mapsGone
<1> USE DEF OpMoves, TInv, TypeOKSession
<1>1. UNCHANGED <<recv, dtor, mapsGone>>
  BY DEF OpStep, GetId, Insert, Send, Write, Wait, reader
<1>2. CASE GetId(o) \/ Send(o)
  BY <1>1, <1>2 DEF GetId, Send, Answers
<1>3. CASE Insert(o)
  <2>1. \A p \in Ops : promise'[p] \in {promise[p], Broken}
    BY <1>3 DEF Insert
  <2>2. PromiseTellsVerdict'
    BY <1>3, <2>1, NotAnswers DEF Insert
  <2> QED
    BY <1>1, <1>3, <2>2 DEF Insert
<1>4. CASE Write(o)
  <2>1. /\ pc[o] = "write" /\ pc' = [pc EXCEPT ![o] = IF Kind[o] = "notify" THEN "ok" ELSE "wait"]
        /\ \E v \in {"none", "received"} : router' = [router EXCEPT ![o] = v]
        /\ router[o] = "none" /\ promise' = promise
    BY <1>4 DEF Write
  <2>2. promise[o] \notin Answers
    BY <2>1
  <2> QED
    BY <1>1, <2>1, <2>2
<1>5. CASE Wait(o)
  <2>1. Outcome(promise[o]) \in Ended
    BY DEF Outcome, Ended
  <2> QED
    BY <1>1, <1>5, <2>1 DEF Wait, Ended
<1> QED
  BY <1>2, <1>3, <1>4, <1>5 DEF OpStep

LEMMA RouterKeepsGInv ==
  ASSUME TInv, GInv,
         \/ \E o \in Ops : RouterGrants(o) \/ RouterRefuses(o)
         \/ \E k \in active : RouterDelivers(k)
  PROVE  GInv' /\ mapsGone' = mapsGone
<1>1. UNCHANGED <<recv, dtor, mapsGone, pc, promise>>
  BY DEF RouterGrants, RouterRefuses, RouterDelivers, RouterTells, RouterSends, reader
<1>2. \A o \in Ops : router'[o] # router[o] => router[o] = "received"
  <2>1. ASSUME NEW p \in Ops, RouterGrants(p) \/ RouterRefuses(p)
        PROVE  /\ router[p] = "received"
               /\ \E v \in {"granted", "refused"} : router' = [router EXCEPT ![p] = v]
    BY <2>1 DEF RouterGrants, RouterRefuses
  <2>2. (\E k \in active : RouterDelivers(k)) => router' = router
    BY DEF RouterDelivers
  <2>3. router \in [Ops -> {"none", "received", "granted", "refused"}]
    BY DEF TInv, TypeOKSession
  <2> HIDE DEF GInv
  <2> QED
    BY <2>1, <2>2, <2>3
<1> QED
  BY <1>1, <1>2

LEMMA MapsKeepGInv ==
  ASSUME TInv, GInv, SessionDtorMaps
  PROVE  GInv' /\ mapsGone'
<1>1. UNCHANGED <<recv, dtor, pc, router>> /\ dtor = "members" /\ mapsGone'
  BY DEF SessionDtorMaps, lifecycleVars, reader
<1>2. \A o \in Ops : promise'[o] \in {promise[o], Broken}
  BY DEF SessionDtorMaps
<1> QED
  BY <1>1, <1>2, NotAnswers

(* The invariant of a session, before and after its maps have gone.        *)
LEMMA SInvInit == Init => SInv
<1>1. Init => TInv /\ QInv
  BY TInvInit, QInvInit
<1>2. Init => SentInTime /\ MapsGoLate
  BY DEF Init, LifecycleInit
<1> QED
  BY <1>1, <1>2 DEF QInv

LEMMA SInvStep == SInv /\ [Next]_vars => SInv'
<1> SUFFICES ASSUME SInv, [Next]_vars PROVE SInv'
  OBVIOUS
<1>type. TInv'
  BY TInvStep
<1>1. CASE LifecycleActions /\ UNCHANGED requestVars
  <2>1. GInv' /\ mapsGone' = mapsGone
    BY <1>1, LifecycleKeepsMaps
  <2> QED
    BY <1>1, <1>type, <2>1, LifecycleKeepsQInv
<1>2. ASSUME NEW o \in Ops, OpStep(o)
      PROVE  SInv'
  BY <1>2, <1>type, RequestKeepsGInv, RequestKeepsQInv
<1>3. CASE HandleMessage
  <2>1. ~mapsGone /\ mapsGone' = mapsGone /\ UNCHANGED dtor /\ recv' = "test"
    BY <1>3, ReaderNeedsMaps
  <2>2. dtor \notin {"members", "pool", "stuck", "gone"}
    BY <1>3 DEF HandleMessage, HandleAcknowledgement, HandleRegistered, HandleUnregistered,
                HandleSubscribed, HandleError, HandleInvocation, HandleEvent, Handles
  <2>3. QInv'
    BY <1>3, <2>1, MessageKeepsQInv
  <2> QED
    BY <1>type, <2>1, <2>2, <2>3 DEF QInv
<1>4. CASE SessionDtorMaps
  BY <1>4, <1>type, MapsKeepGInv
<1>8. CASE EraseRegistration
  BY <1>8, <1>type, EraseFrame DEF QInv, Awaited
<1>5. CASE StartTask \/ \E t \in executing : FinishTask(t)
  <2>1. UNCHANGED <<recv, dtor, mapsGone, pc, promise, router>>
    BY <1>5 DEF StartTask, FinishTask, PoolMoves, lifecycleVars, reader
  <2> QED
    BY <1>5, <1>type, <2>1, PoolKeepsQInv
<1>6. CASE \/ \E o \in Ops : RouterGrants(o) \/ RouterRefuses(o)
           \/ \E k \in active : RouterDelivers(k)
  BY <1>6, <1>type, RouterKeepsGInv, RouterKeepsQInv
<1>7. CASE UNCHANGED vars
  <2>1. UNCHANGED requestVars /\ UNCHANGED <<inbox, msg, recv, dtor>>
    BY <1>7 DEF lifecycleVars, reader, remote
  <2> QED
    BY <1>type, <2>1, MessagesMove
<1> QED
  BY <1>1, <1>2, <1>3, <1>4, <1>5, <1>6, <1>7, <1>8 DEF Next

LEMMA SessionInvariant == Spec => []SInv
BY SInvInit, SInvStep, PTL DEF Spec, SafeSpec

(* An answer that is processed finds the entry of its request, so that the *)
(* branches which do not look never dereference an empty optional.         *)
THEOREM AnswerFindsRequest == Spec => []AnswersFindRequest
<1>1. SInv => AnswersFindRequest
  <2> SUFFICES ASSUME SInv, recv = "process", msg.type \in AnswerTypes PROVE Found # {}
    BY DEF AnswersFindRequest
  <2> QED
    BY FoundIsOwn DEF IsAnswer
<1> QED
  BY <1>1, SessionInvariant, PTL

(* A promise is never set with the answer to another request.              *)
THEOREM PromiseIsOwn == Spec => []AnswerIsOwn
<1>1. SInv => AnswerIsOwn
  BY DEF AnswerIsOwn
<1> QED
  BY <1>1, SessionInvariant, PTL

-----------------------------------------------------------------------------
(* The requests implement RemoteOperation.  A step that moves neither what *)
(* the caller sees nor what the router decided is a stutter.               *)
LEMMA OperationStutters ==
  ASSUME UNCHANGED <<pc, router>>
  PROVE  [Operation!Next]_(Operation!vars)
BY DEF OpStatus, OpVerdict, Operation!vars

LEMMA RequestImplements ==
  ASSUME TInv, GInv, NEW o \in Ops, OpStep(o)
  PROVE  [Operation!Next]_(Operation!vars)
<1> USE DEF OpMoves, TInv, TypeOKSession
<1>1. CASE o \notin Acknowledged
  <2>1. \A p \in Ops : p # o => pc'[p] = pc[p] /\ router'[p] = router[p]
    BY DEF OpStep, GetId, Insert, Send, Write, Wait
  <2>2. OpStatus' = OpStatus /\ OpVerdict' = OpVerdict
    BY <1>1, <2>1 DEF OpStatus, OpVerdict, Acknowledged
  <2> QED
    BY <2>2 DEF Operation!vars
<1>2. CASE o \in Acknowledged /\ GetId(o)
  <2>1. pc[o] = "idle" /\ pc' = [pc EXCEPT ![o] = "insert"] /\ router' = router
    BY <1>2 DEF GetId, Acknowledged
  <2>2. OpStatus[o] = "idle" /\ OpStatus' = [OpStatus EXCEPT ![o] = "pending"]
        /\ OpVerdict' = OpVerdict
    <3>1. OpVerdict' = OpVerdict
      BY <2>1 DEF OpVerdict
    <3>2. OpStatus[o] = "idle"
      BY <1>2, <2>1 DEF OpStatus
    <3>3. OpStatus' = [OpStatus EXCEPT ![o] = "pending"]
      BY <1>2, <2>1 DEF OpStatus, Acknowledged
    <3> QED
      BY <3>1, <3>2, <3>3
  <2>3. Operation!Issue(o)
    BY <2>2 DEF Operation!Issue, Operation!Becomes
  <2> QED
    BY <1>2, <2>3 DEF Operation!Next
<1>3. CASE o \in Acknowledged /\ Insert(o)
  <2>1. pc[o] = "insert" /\ pc' = [pc EXCEPT ![o] = "send"] /\ router' = router
    BY <1>3 DEF Insert
  <2>2. OpStatus' = OpStatus /\ OpVerdict' = OpVerdict
    BY <1>3, <2>1 DEF OpStatus, OpVerdict, Acknowledged
  <2> QED
    BY <2>2 DEF Operation!vars
<1>4. CASE o \in Acknowledged /\ Send(o)
  <2>1. pc[o] = "send" /\ pc' = [pc EXCEPT ![o] = IF running THEN "write" ELSE "closed"]
        /\ router' = router
    BY <1>4 DEF Send
  <2>2. CASE running
    <3>1. OpStatus' = OpStatus /\ OpVerdict' = OpVerdict
      BY <1>4, <2>1, <2>2 DEF OpStatus, OpVerdict, Acknowledged
    <3> QED
      BY <3>1 DEF Operation!vars
  <2>3. CASE ~running
    <3>1. OpStatus[o] = "pending" /\ OpStatus' = [OpStatus EXCEPT ![o] = "gaveup"]
          /\ OpVerdict' = OpVerdict
      <4>1. OpVerdict' = OpVerdict
        BY <2>1 DEF OpVerdict
      <4>2. OpStatus[o] = "pending"
        BY <1>4, <2>1 DEF OpStatus
      <4>3. OpStatus' = [OpStatus EXCEPT ![o] = "gaveup"]
        BY <1>4, <2>1, <2>3 DEF OpStatus, Acknowledged
      <4> QED
        BY <4>1, <4>2, <4>3
    <3>2. Operation!GiveUp(o)
      BY <3>1 DEF Operation!GiveUp, Operation!Becomes
    <3> QED
      BY <1>4, <3>2 DEF Operation!Next
  <2> QED
    BY <2>2, <2>3
<1>5. CASE o \in Acknowledged /\ Write(o)
  <2>1. pc[o] = "write" /\ pc' = [pc EXCEPT ![o] = "wait"] /\ router[o] = "none"
        /\ \E v \in {"none", "received"} : router' = [router EXCEPT ![o] = v]
    BY <1>5 DEF Write, Acknowledged
  <2>2. OpStatus' = OpStatus
    BY <1>5, <2>1 DEF OpStatus, Acknowledged
  <2>3. OpVerdict' = OpVerdict
    BY <1>5, <2>1 DEF OpVerdict, Acknowledged
  <2> QED
    BY <2>2, <2>3 DEF Operation!vars
<1>6. CASE o \in Acknowledged /\ Wait(o)
  <2>1. pc[o] = "wait" /\ pc' = [pc EXCEPT ![o] = Outcome(promise[o])] /\ router' = router
    BY <1>6 DEF Wait
  <2>2. OpVerdict' = OpVerdict /\ OpStatus[o] = "pending"
    BY <1>6, <2>1 DEF OpVerdict, OpStatus, Acknowledged
  <2>3. CASE promise[o] \in {NoMessage, Broken}
    <3>1. Outcome(promise[o]) \in {"timeout", "broken"}
      BY <2>3 DEF Outcome, NoMessage, Broken
    <3>2. OpStatus' = [OpStatus EXCEPT ![o] = "gaveup"]
      BY <1>6, <2>1, <3>1 DEF OpStatus, Acknowledged
    <3>3. Operation!GiveUp(o)
      BY <2>2, <3>2 DEF Operation!GiveUp, Operation!Becomes
    <3> QED
      BY <1>6, <3>3 DEF Operation!Next
  <2>4. CASE promise[o] \in Answers
    <3>1. promise[o] # NoMessage /\ promise[o] # Broken
      BY <2>4, NotAnswers
    <3>2. Outcome(promise[o]) = IF promise[o].type = "ERROR" THEN "error" ELSE "ok"
      BY <3>1 DEF Outcome
    <3>3. OpVerdict[o] = IF promise[o].type = "ERROR" THEN "refused" ELSE "granted"
      BY <1>6, <2>4 DEF OpVerdict
    <3>4. OpStatus' = [OpStatus EXCEPT ![o] =
                         IF promise[o].type = "ERROR" THEN "error" ELSE "ok"]
      BY <1>6, <2>1, <3>2 DEF OpStatus, Acknowledged
    <3>5. Operation!Return(o)
      BY <2>2, <3>3, <3>4 DEF Operation!Return, Operation!Becomes
    <3> QED
      BY <1>6, <3>5 DEF Operation!Next
  <2> QED
    BY <2>3, <2>4
<1> QED
  BY <1>1, <1>2, <1>3, <1>4, <1>5, <1>6 DEF OpStep

LEMMA RouterImplements ==
  ASSUME TInv, GInv, NEW o \in Ops, RouterGrants(o) \/ RouterRefuses(o)
  PROVE  [Operation!Next]_(Operation!vars)
<1>1. PICK v \in {"granted", "refused"} : router' = [router EXCEPT ![o] = v]
  BY DEF RouterGrants, RouterRefuses
<1>2. pc' = pc /\ router[o] = "received" /\ o \in Acknowledged
  BY DEF RouterGrants, RouterRefuses, RouterTells
<1>3. pc[o] # "idle" /\ router \in [Ops -> {"none", "received", "granted", "refused"}]
  BY <1>2 DEF TInv, TypeOKSession, Acknowledged
<1>4. OpStatus' = OpStatus /\ OpStatus[o] # "idle"
  BY <1>2, <1>3 DEF OpStatus
<1>5. OpVerdict[o] = "none" /\ OpVerdict' = [OpVerdict EXCEPT ![o] = v]
  BY <1>1, <1>2, <1>3 DEF OpVerdict, Acknowledged
<1>6. Operation!Decide(o)
  BY <1>4, <1>5 DEF Operation!Decide
<1> QED
  BY <1>2, <1>6 DEF Operation!Next

(* A request ends with a result only if the router granted it, and with an *)
(* error only if the router refused it: Session implements the safety part *)
(* of RemoteOperation.                                                     *)
THEOREM SessionImplementsOperation == Spec => Operation!SafeSpec
<1>1. Init => Operation!Init
  <2> SUFFICES ASSUME Init PROVE Operation!Init
    OBVIOUS
  <2> QED
    BY DEF Init, Operation!Init, OpStatus, OpVerdict, Acknowledged
<1>2. SInv /\ [Next]_vars => [Operation!Next]_(Operation!vars)
  <2> SUFFICES ASSUME TInv, GInv, [Next]_vars
               PROVE  [Operation!Next]_(Operation!vars)
    OBVIOUS
  <2>1. HandleMessage \/ SessionDtorMaps \/ StartTask \/ (\E t \in executing : FinishTask(t))
          \/ (\E k \in active : RouterDelivers(k)) => UNCHANGED <<pc, router>>
    BY DEF HandleMessage, HandleAcknowledgement, HandleRegistered, HandleUnregistered,
           HandleSubscribed, HandleError, HandleInvocation, HandleEvent, Handles, StartTask,
           FinishTask, PoolMoves, SessionDtorMaps, RouterDelivers, RouterTells
  <2>2. UNCHANGED requestVars \/ UNCHANGED vars => UNCHANGED <<pc, router>>
    OBVIOUS
  <2> QED
    BY <2>1, <2>2, EraseFrame, OperationStutters, RequestImplements, RouterImplements DEF Next
<1> QED
  BY <1>1, <1>2, SessionInvariant, PTL DEF Spec, SafeSpec, Operation!SafeSpec

=============================================================================
