------------------------------ MODULE Session ------------------------------
(***************************************************************************)
(* The requests and the callbacks of xconn::Session, on top of its life    *)
(* (module Lifecycle).  Each request of the application (CallRequest::Do,  *)
(* RegisterRequest::Do, ...) runs in a thread of its own; the receive      *)
(* thread dispatches the router's messages; the workers of the pool run    *)
(* the handlers, which may make requests themselves.                       *)
(***************************************************************************)
EXTENDS Lifecycle, FiniteSets

CONSTANTS
  Ops,            \* the requests that may be made, each of them once
  Nested,         \* those a handler makes, the application makes the others
  Kind,           \* Kind[o]: one of Kinds
  Topic,          \* Topic[o]: the topic of a subscribe request
  NumWorkers,     \* size of the thread pool
  MaxDeliveries,  \* bound on the INVOCATIONs and EVENTs the router sends
  Absent,         \* in a handler map: no such key
  MovedOut        \* in a handler map: the std::function was moved out

(* "notify" is a publish that asks for no acknowledgement.                 *)
Kinds == {"call", "register", "unregister", "publish", "notify", "subscribe",
          "unsubscribe"}

ASSUME OpsAssumption ==
  /\ Kind \in [Ops -> Kinds] /\ Nested \subseteq Ops
  /\ Absent \notin Ops /\ MovedOut \notin Ops /\ Absent # MovedOut
  /\ \A o \in Ops : Topic[o] \notin Ops
ASSUME BoundsAssumption == NumWorkers \in Nat \ {0} /\ MaxDeliveries \in Nat

VARIABLES
  pc,             \* pc[o]: where the calling thread is in Do()
  lastId,         \* the last id id_generator handed out
  host,           \* host[o]: the delivery whose handler made o, or 0
  reqId,          \* reqId[o]: the request id of o
  target,         \* the registration or subscription an un-request names
  requests,       \* the requests with an entry in their *_requests_ map
  promise,        \* promise[o]: the answer set, NoMessage (unset) or Broken
  registrations,  \* registrations_: a handler per registration id
  subscriptions,  \* subscriptions_: a handler per subscription id
  mapsGone,       \* TRUE once ~Session has destroyed these maps
  tasks,          \* the pool's queue
  executing,      \* the tasks in the workers' hands
  results,        \* results[n]: what came of delivery n
  router,         \* router[o]: "none", "received", "granted" or "refused"
  active,         \* the registrations and topics the router has for us
  delivered       \* INVOCATIONs and EVENTs the router sent so far

callVars == <<pc, lastId, host, reqId, target>>
mapVars == <<requests, promise, registrations, subscriptions, mapsGone>>
poolVars == <<tasks, executing, results>>
routerVars == <<router, active, delivered>>
requestVars == <<callVars, mapVars, poolVars, routerVars>>
vars == <<lifecycleVars, requestVars>>

Topics == {Topic[o] : o \in Ops}
Broken == [type |-> "BROKEN"]
Acknowledged == {o \in Ops : Kind[o] # "notify"}
AnswerTypes == {"RESULT", "REGISTERED", "UNREGISTERED", "PUBLISHED", "SUBSCRIBED",
                "UNSUBSCRIBED", "ERROR"}

AnswerType == [k \in Kinds |->
  CASE k = "call" -> "RESULT" [] k = "register" -> "REGISTERED"
    [] k = "unregister" -> "UNREGISTERED" [] k = "subscribe" -> "SUBSCRIBED"
    [] k = "unsubscribe" -> "UNSUBSCRIBED" [] OTHER -> "PUBLISHED"]

(* A router assigns a registration id per REGISTER, here the request, and a*)
(* subscription id per topic, here the topic.                              *)
Answers == [type : AnswerTypes, kind : Kinds, id : Nat, of : Ops]
Deliveries == [type : {"INVOCATION"}, of : Ops, n : Nat]
                \cup [type : {"EVENT"}, of : Topics, n : Nat]
Messages == {Goodbye} \cup Answers \cup Deliveries
Handlers == Ops \cup {MovedOut}
Tasks == [delivery : Deliveries, handler : Handlers]

Ended == {"ok", "error", "timeout", "closed", "broken", "misused"}

TypeOKSession ==
  /\ LifecycleTypeOK(Messages)
  /\ pc \in [Ops -> {"idle", "insert", "send", "write", "wait"} \cup Ended]
  /\ lastId \in Nat /\ reqId \in [Ops -> Nat]
  /\ host \in [Ops -> Nat]
  /\ target \in [Ops -> Ops]
  /\ requests \subseteq Ops
  /\ promise \in [Ops -> Answers \cup {NoMessage, Broken}]
  /\ registrations \in [Ops -> Handlers \cup {Absent}]
  /\ subscriptions \in [Topics -> Handlers \cup {Absent}]
  /\ mapsGone \in BOOLEAN
  /\ tasks \in Seq(Tasks) /\ executing \subseteq Tasks
  /\ results \in [1..MaxDeliveries -> {"none", "done", "lost", "untold"}]
  /\ router \in [Ops -> {"none", "received", "granted", "refused"}]
  /\ active \subseteq Ops \cup Topics
  /\ delivered \in 0..MaxDeliveries

Init ==
  /\ LifecycleInit
  /\ pc = [o \in Ops |-> "idle"] /\ lastId = 0
  /\ host = [o \in Ops |-> 0]
  /\ reqId = [o \in Ops |-> 0] /\ target = [o \in Ops |-> o]
  /\ requests = {} /\ promise = [o \in Ops |-> NoMessage]
  /\ registrations = [o \in Ops |-> Absent]
  /\ subscriptions = [t \in Topics |-> Absent]
  /\ mapsGone = FALSE
  /\ tasks = <<>> /\ executing = {}
  /\ results = [n \in 1..MaxDeliveries |-> "none"]
  /\ router = [o \in Ops |-> "none"] /\ active = {} /\ delivered = 0

-----------------------------------------------------------------------------
(* A request, from Do() to its return.                                     *)

OpMoves(o, from, to) ==
  /\ process = "up"
  /\ pc[o] = from
  /\ pc' = [pc EXCEPT ![o] = to]
  /\ UNCHANGED <<flags, leaver, reader, dtor, socket, remote, registrations,
                 subscriptions, mapsGone, poolVars, active, delivered>>

Undoes(o, p) == <<Kind[o], Kind[p]>> \in
  {<<"unregister", "register">>, <<"unsubscribe", "subscribe">>}

(* A task whose handler waits for a request of its own.                    *)
Busy(t) == \E o \in Ops : host[o] = t.delivery.n /\ pc[o] \notin Ended

(* Who calls Do(): a thread of the application while there is a session, or*)
(* the handler that a worker runs.                                         *)
Calls(o) ==
  IF o \in Nested
  THEN \E t \in executing : /\ t.handler # MovedOut /\ ~Busy(t)
                           /\ host' = [host EXCEPT ![o] = t.delivery.n]
  ELSE dtor = "alive" /\ UNCHANGED host

(* Where Do() goes with its id.  A publish whose "acknowledge" option is no*)
(* bool throws there, its id spent and nothing inserted or sent.           *)
First(o) == IF Kind[o] = "notify" THEN {"send", "misused"} ELSE {"insert"}

(* id_generator->next(), and for Unregister and Unsubscribe the id held by *)
(* a Registration or a Subscription that an earlier request returned.      *)
GetId_LostUpdate(o) ==
  /\ Calls(o)
  /\ \E to \in First(o) : OpMoves(o, "idle", to)
  /\ reqId' = [reqId EXCEPT ![o] = lastId + 1]
  /\ UNCHANGED <<process, lastId, target, requests, promise, router>>

GetId(o) ==
  /\ Calls(o)
  /\ \E to \in First(o) : OpMoves(o, "idle", to)
  /\ lastId' = lastId + 1
  /\ reqId' = [reqId EXCEPT ![o] = lastId']
  /\ IF Kind[o] \in {"unregister", "unsubscribe"}
     THEN \E p \in Ops : /\ Undoes(o, p) /\ pc[p] = "ok"
                         /\ target' = [target EXCEPT ![o] = promise[p].of]
     ELSE UNCHANGED target
  /\ UNCHANGED <<process, requests, promise, router>>

(* The entry under the request id, in the map of the kind.  emplace leaves *)
(* an entry that is there alone, and the new promise is destroyed.  To use *)
(* a map that was destroyed is undefined, and may be the end of the process*)
(* or pass with nothing inserted.                                          *)
Entry(k, id) == {p \in requests : Kind[p] = k /\ reqId[p] = id}

Insert(o) ==
  /\ OpMoves(o, "insert", "send")
  /\ process' \in IF mapsGone THEN {"up", "terminated"} ELSE {"up"}
  /\ IF ~mapsGone /\ Entry(Kind[o], reqId[o]) = {}
     THEN requests' = requests \cup {o} /\ UNCHANGED promise
     ELSE promise' = [promise EXCEPT ![o] = Broken] /\ UNCHANGED requests
  /\ UNCHANGED <<lastId, host, reqId, target, router>>

(* send_message: the is_connected() test, then the write or the exception. *)
Send(o) ==
  /\ OpMoves(o, "send", IF running THEN "write" ELSE "closed")
  /\ UNCHANGED <<process, lastId, host, reqId, target, requests, promise, router>>

(* A frame also goes nowhere, and nobody is told, when message_header_new  *)
(* refuses its length.                                                     *)
Write(o) ==
  /\ OpMoves(o, "write", IF Kind[o] = "notify" THEN "ok" ELSE "wait")
  /\ \E fits \in BOOLEAN :
       router' = [router EXCEPT ![o] = IF WriteReaches /\ fits THEN "received" ELSE @]
  /\ UNCHANGED <<process, lastId, host, reqId, target, requests, promise>>

(* wait_with_timeout.  A request that times out leaves its entry behind.   *)
Outcome_ErrorIsOk(answer) ==
  CASE answer = NoMessage -> "timeout" [] answer = Broken -> "broken" [] OTHER -> "ok"

Outcome(answer) ==
  CASE answer = NoMessage -> "timeout" [] answer = Broken -> "broken"
    [] answer.type = "ERROR" -> "error" [] OTHER -> "ok"

Wait_Erasing(o) ==
  /\ OpMoves(o, "wait", Outcome(promise[o]))
  /\ requests' = requests \ {o}
  /\ UNCHANGED <<process, lastId, host, reqId, target, promise, router>>

Wait_Breaking(o) ==
  /\ OpMoves(o, "wait", Outcome(promise[o]))
  /\ promise' = [promise EXCEPT ![o] = IF @ = NoMessage THEN Broken ELSE @]
  /\ UNCHANGED <<process, lastId, host, reqId, target, requests, router>>

Wait_NoTimeout(o) ==
  /\ promise[o] # NoMessage
  /\ OpMoves(o, "wait", Outcome(promise[o]))
  /\ UNCHANGED <<process, lastId, host, reqId, target, requests, promise, router>>

Wait(o) ==
  /\ OpMoves(o, "wait", Outcome(promise[o]))
  /\ UNCHANGED <<process, lastId, host, reqId, target, requests, promise, router>>

OpStep(o) == GetId(o) \/ Insert(o) \/ Send(o) \/ Write(o) \/ Wait(o)

-----------------------------------------------------------------------------
(* process_incoming_message, one action per kind of branch.                *)

Handles(types) ==
  /\ process = "up"
  /\ recv = "process" /\ msg.type \in types
  /\ recv' = "test" /\ msg' = NoMessage
  /\ UNCHANGED <<flags, leaver, dtor, socket, remote, callVars, mapsGone, executing,
                 results, routerVars>>

Found == Entry(msg.kind, msg.id)

(* find_from_map takes the entry out and the branch sets the promise.      *)
Settle_Unset ==
  /\ requests' = requests \ Found
  /\ UNCHANGED promise

Settle ==
  /\ requests' = requests \ Found
  /\ promise' = [p \in Ops |-> IF p \in Found THEN msg ELSE promise[p]]

HandleAcknowledgement ==
  /\ Handles({"RESULT", "PUBLISHED", "UNSUBSCRIBED"})
  /\ Settle
  /\ UNCHANGED <<process, registrations, subscriptions, tasks>>

(* emplace: an entry that is there already stays.                          *)
Emplaced(map, key) ==
  [map EXCEPT ![key] = IF Found # {} /\ @ = Absent THEN CHOOSE p \in Found : TRUE ELSE @]

HandleRegistered ==
  /\ Handles({"REGISTERED"})
  /\ Settle
  /\ registrations' = Emplaced(registrations, msg.of)
  /\ UNCHANGED <<process, subscriptions, tasks>>

(* UNREGISTERED takes the handler out of the map and tells the caller, in  *)
(* two steps.                                                              *)
EraseRegistration ==
  /\ process = "up"
  /\ recv = "process" /\ msg.type = "UNREGISTERED"
  /\ \E p \in Found :
       /\ registrations[target[p]] # Absent
       /\ registrations' = [registrations EXCEPT ![target[p]] = Absent]
  /\ UNCHANGED <<lifecycleVars, callVars, requests, promise, subscriptions, mapsGone,
                 poolVars, routerVars>>

HandleUnregistered_Early ==
  /\ Handles({"UNREGISTERED"})
  /\ Settle
  /\ UNCHANGED <<process, registrations, subscriptions, tasks>>

HandleUnregistered ==
  /\ Handles({"UNREGISTERED"})
  /\ \A p \in Found : registrations[target[p]] = Absent
  /\ Settle
  /\ UNCHANGED <<process, registrations, subscriptions, tasks>>

(* SUBSCRIBED and ERROR dereference the optional without looking: with no  *)
(* entry the behaviour is undefined, and may be the end of the process.    *)
Dereference == IF Found = {} THEN process' \in {"up", "terminated"} ELSE UNCHANGED process

HandleSubscribed ==
  /\ Handles({"SUBSCRIBED"})
  /\ Settle
  /\ subscriptions' = Emplaced(subscriptions, Topic[msg.of])
  /\ Dereference
  /\ UNCHANGED <<registrations, tasks>>

HandleError ==
  /\ Handles({"ERROR"})
  /\ Settle
  /\ Dereference
  /\ UNCHANGED <<registrations, subscriptions, tasks>>

(* INVOCATION and EVENT: find_from_map, called not to erase, moves the     *)
(* handler out of the map into the task all the same.                      *)
MovedFrom_Erasing(map, key) == [map EXCEPT ![key] = Absent]
MovedFrom(map, key) == [map EXCEPT ![key] = IF @ = Absent THEN @ ELSE MovedOut]

Enqueue(map, key) ==
  tasks' = IF map[key] = Absent THEN tasks
           ELSE Append(tasks, [delivery |-> msg, handler |-> map[key]])

HandleInvocation ==
  /\ Handles({"INVOCATION"})
  /\ Enqueue(registrations, msg.of)
  /\ registrations' = MovedFrom(registrations, msg.of)
  /\ UNCHANGED <<process, requests, promise, subscriptions>>

HandleEvent ==
  /\ Handles({"EVENT"})
  /\ Enqueue(subscriptions, msg.of)
  /\ subscriptions' = MovedFrom(subscriptions, msg.of)
  /\ UNCHANGED <<process, requests, promise, registrations>>

HandleMessage ==
  \/ HandleAcknowledgement \/ HandleRegistered \/ HandleUnregistered
  \/ HandleSubscribed \/ HandleError \/ HandleInvocation \/ HandleEvent

-----------------------------------------------------------------------------
(* The pool (module ThreadPool has its inside).  A worker takes the oldest *)
(* task; the task calls the handler and, for an INVOCATION, writes a YIELD *)
(* or an ERROR, with no is_connected() test.                               *)
PoolMoves ==
  /\ process = "up"
  /\ UNCHANGED <<lifecycleVars, callVars, mapVars, routerVars>>

StartTask_Newest ==
  /\ PoolMoves
  /\ tasks # <<>> /\ Cardinality(executing) < NumWorkers
  /\ tasks' = SubSeq(tasks, 1, Len(tasks) - 1)
  /\ executing' = executing \cup {tasks[Len(tasks)]}
  /\ UNCHANGED results

StartTask ==
  /\ PoolMoves
  /\ tasks # <<>> /\ Cardinality(executing) < NumWorkers
  /\ tasks' = Tail(tasks)
  /\ executing' = executing \cup {Head(tasks)}
  /\ UNCHANGED results

(* What comes of a task.  The handler of an EVENT has run.  The reply to an*)
(* INVOCATION reaches the router or is lost with the link; the router stays*)
(* untold when the handler throws what is no std::exception, which goes    *)
(* past the catch clauses into the task's future, or returns what is too   *)
(* long for a frame.  An empty std::function throws a std::exception.      *)
Results(t) ==
  IF t.delivery.type = "EVENT" THEN {"done"}
  ELSE (IF WriteReaches THEN {"done"} ELSE {"lost"})
         \cup (IF t.handler = MovedOut THEN {} ELSE {"untold"})

FinishTask(t) ==
  /\ PoolMoves
  /\ ~Busy(t)
  /\ executing' = executing \ {t}
  /\ \E result \in Results(t) : results' = [results EXCEPT ![t.delivery.n] = result]
  /\ UNCHANGED tasks

-----------------------------------------------------------------------------
(* The router (external): it grants or refuses a request it received, in   *)
(* any order, and calls back for what it holds as registered.              *)
Key(o) ==
  CASE Kind[o] = "register" -> o [] Kind[o] = "unregister" -> target[o]
    [] Kind[o] = "subscribe" -> Topic[o] [] OTHER -> Topic[target[o]]

RouterTells(m) ==
  /\ ~router_left
  /\ RouterSends(m)
  /\ UNCHANGED <<goodbyes, router_left, callVars, mapVars, poolVars>>

RouterGrants(o) ==
  /\ router[o] = "received" /\ o \in Acknowledged
  /\ Kind[o] \in {"unregister", "unsubscribe"} => Key(o) \in active
  /\ RouterTells([type |-> AnswerType[Kind[o]], kind |-> Kind[o], id |-> reqId[o], of |-> o])
  /\ router' = [router EXCEPT ![o] = "granted"]
  /\ active' = CASE Kind[o] \in {"register", "subscribe"} -> active \cup {Key(o)}
                 [] Kind[o] \in {"unregister", "unsubscribe"} -> active \ {Key(o)}
                 [] OTHER -> active
  /\ UNCHANGED delivered

RouterRefuses(o) ==
  /\ router[o] = "received" /\ o \in Acknowledged
  /\ RouterTells([type |-> "ERROR", kind |-> Kind[o], id |-> reqId[o], of |-> o])
  /\ router' = [router EXCEPT ![o] = "refused"]
  /\ UNCHANGED <<active, delivered>>

RouterDelivers(k) ==
  /\ delivered < MaxDeliveries
  /\ delivered' = delivered + 1
  /\ RouterTells([type |-> IF k \in Ops THEN "INVOCATION" ELSE "EVENT", of |-> k,
                  n |-> delivered'])
  /\ UNCHANGED <<router, active>>

-----------------------------------------------------------------------------
(* ~Session with its members.  No request of the application is under way  *)
(* when it begins.  The maps go before the pool, which runs its queue to   *)
(* the end before its join returns, and base_session_ goes last.           *)
SessionDtorBegin ==
  /\ \A o \in Ops \ Nested : pc[o] \in Ended \cup {"idle"}
  /\ DtorBegin

(* A promise that was not set breaks, and ends the wait for it.            *)
SessionDtorMaps_Keeping ==
  /\ process = "up" /\ dtor = "members"
  /\ ~mapsGone /\ mapsGone' = TRUE
  /\ registrations' = [r \in Ops |-> Absent]
  /\ subscriptions' = [t \in Topics |-> Absent]
  /\ UNCHANGED <<requests, promise, lifecycleVars, callVars, poolVars, routerVars>>

SessionDtorMaps ==
  /\ process = "up" /\ dtor = "members"
  /\ ~mapsGone /\ mapsGone' = TRUE
  /\ requests' = {}
  /\ promise' = [p \in Ops |->
       IF p \in requests /\ promise[p] = NoMessage THEN Broken ELSE promise[p]]
  /\ registrations' = [r \in Ops |-> Absent]
  /\ subscriptions' = [t \in Topics |-> Absent]
  /\ UNCHANGED <<lifecycleVars, callVars, poolVars, routerVars>>

(* A worker about to wait has found no task.                               *)
SessionDtorPool ==
  /\ mapsGone
  /\ DtorPool
  /\ dtor' = "stuck" => tasks = <<>> /\ Cardinality(executing) < NumWorkers

SessionDtorMembers == tasks = <<>> /\ executing = {} /\ DtorMembers

SessionDtorStep ==
  \/ SessionDtorBegin \/ DtorClose \/ DtorStop \/ DtorJoin
  \/ SessionDtorPool \/ DtorPoolWakes \/ SessionDtorMembers

LifecycleActions ==
  \/ \E t \in Leavers : LeaveStep(t)
  \/ RecvStep
  \/ SessionDtorStep
  \/ RouterLeaves \/ RouterReplies \/ LinkLost

Next ==
  \/ LifecycleActions /\ UNCHANGED requestVars
  \/ \E o \in Ops : OpStep(o) \/ RouterGrants(o) \/ RouterRefuses(o)
  \/ EraseRegistration
  \/ HandleMessage
  \/ SessionDtorMaps
  \/ StartTask
  \/ \E t \in executing : FinishTask(t)
  \/ \E k \in active : RouterDelivers(k)

(* Threads inside a call, the receive thread and the workers go on; a      *)
(* handler returns.  Nothing is assumed of the application, the router and *)
(* a worker that missed the end of the pool.                               *)
Fairness ==
  /\ \A t \in Leavers : WF_vars(leaver[t] # "idle" /\ LeaveStep(t) /\ UNCHANGED requestVars)
  /\ \A o \in Ops : WF_vars(pc[o] # "idle" /\ OpStep(o))
  /\ WF_vars(EraseRegistration \/ HandleMessage \/ (RecvStep /\ UNCHANGED requestVars))
  /\ WF_vars(\/ SessionDtorMaps
             \/ dtor \notin {"alive", "stuck"} /\ SessionDtorStep /\ UNCHANGED requestVars)
  /\ WF_vars(StartTask)
  /\ \A n \in 1..MaxDeliveries :
       WF_vars(\E t \in executing : t.delivery.n = n /\ FinishTask(t))

SafeSpec == Init /\ [][Next]_vars
Spec == SafeSpec /\ Fairness

-----------------------------------------------------------------------------
(* Properties.                                                             *)

(* An answer finds its request: the branches that dereference the optional *)
(* unlooked-at never meet an empty one, late answers included, because a   *)
(* request that timed out leaves its entry in the map.                     *)
AnswersFindRequest ==
  recv = "process" /\ msg.type \in AnswerTypes => Found # {}

(* A promise holds the answer to its own request and to no other.          *)
AnswerIsOwn == \A o \in Ops : promise[o] \in Answers => promise[o].of = o

(* set_value is called on an unset promise only: neither an answer that    *)
(* comes late, nor ~Session, changes what a request was told.              *)
PromisesAreFinal ==
  [][\A o \in Ops : promise[o] # NoMessage => promise'[o] = promise[o]]_vars

(* No answer is lost on the way: what the router decided reaches the       *)
(* promise, late or in time, unless the session or the link has ended.     *)
AnswersArrive ==
  \A o \in Ops :
    router[o] \in {"granted", "refused"}
      ~> promise[o] # NoMessage \/ ~running \/ link # "up" \/ process # "up"

(* No INVOCATION is dropped in silence: when one is processed its          *)
(* registration is in the map, whatever REGISTERED, UNREGISTERED, timeouts *)
(* and retries came between.                                               *)
InvocationFindsRegistration ==
  recv = "process" /\ msg.type = "INVOCATION" => registrations[msg.of] # Absent

(* A handler is run for its own registration, or its own topic, only.      *)
HandlerIsOwn ==
  \A t \in executing : t.handler \in Ops =>
    t.delivery.of = IF t.delivery.type = "INVOCATION" THEN t.handler ELSE Topic[t.handler]

(* Once unregister() has returned no later INVOCATION can find the handler.*)
UnregisterRemoves ==
  \A o \in Ops : Kind[o] = "unregister" /\ pc[o] = "ok" => registrations[target[o]] = Absent

(* Nothing the session does ends the process but two things in ~Session: a *)
(* close() of TCP that throws, and the request of a handler that meets the *)
(* maps destroyed before the pool.                                         *)
CrashesOnlyInDestruction ==
  process = "terminated" =>
    \/ transport = "tcp" /\ dtor \in {"stop", "gone"}
    \/ mapsGone /\ \E o \in Nested : pc[o] = "send"

(* ~Session leaves no handler to wait for an answer that can no longer     *)
(* come: once the maps are gone the promise of every request under way is  *)
(* set or broken, so that ~ThreadPool's join does not sit out the timeout. *)
NoWaitOutlivesMaps ==
  mapsGone => \A o \in Acknowledged :
    pc[o] \in {"send", "write", "wait"} => promise[o] # NoMessage

(* An INVOCATION that was read is seen through: its handler is run and the *)
(* router has the answer, or the answer was lost with the link.  One case  *)
(* is left in which a live link carries none, "untold": the handler threw  *)
(* what is no std::exception, or returned more than a frame holds.         *)
InvocationsSeenThrough ==
  \A n \in 1..MaxDeliveries :
    recv = "process" /\ msg.type = "INVOCATION" /\ msg.n = n
      ~> \/ results[n] \in {"done", "untold"}
         \/ results[n] = "lost" /\ ~WriteReaches
         \/ process # "up"

(* The requests keep the promise of RemoteOperation: what the caller sees  *)
(* of a request agrees with what the router decided about it.              *)
OpStatus == [o \in Acknowledged |->
  CASE pc[o] \in {"insert", "send", "write", "wait"} -> "pending"
    [] pc[o] \in {"timeout", "closed", "broken"} -> "gaveup"
    [] OTHER -> pc[o]]

OpVerdict == [o \in Acknowledged |->
  IF router[o] \in {"granted", "refused"} THEN router[o] ELSE "none"]

Operation == INSTANCE RemoteOperation WITH
  Requests <- Acknowledged, status <- OpStatus, verdict <- OpVerdict

ImplementsOperation == Operation!Spec

(* The pool's user gets from it what TaskPool promises, and keeps to it: a *)
(* delivery gives one task at most, tasks start in the order in which the  *)
(* router sent their deliveries, and end before the pool is gone.  The     *)
(* tasks are numbered as they start.                                       *)
Begun == {n \in 1..MaxDeliveries : results[n] # "none"} \cup {t.delivery.n : t \in executing}
Nth(n) == Cardinality({m \in Begun : m <= n})

Pool == INSTANCE TaskPool WITH
  Size <- NumWorkers, MaxTasks <- MaxDeliveries,
  submitted <- Cardinality(Begun) + Len(tasks), started <- Cardinality(Begun),
  running <- {Nth(t.delivery.n) : t \in executing}, gone <- (dtor = "gone")

UsesTaskPool == Pool!SafeSpec

(* A reading of the tests: an INVOCATION for a registration that is in     *)
(* force runs its handler, and not an empty function.                      *)
InvocationRunsHandler ==
  recv = "process" /\ msg.type = "INVOCATION" => registrations[msg.of] # MovedOut

(* A reading of the tests: an EVENT runs no handler whose subscription was *)
(* ended by an unsubscribe() that has returned.                            *)
EventHandlerInForce ==
  recv = "process" /\ msg.type = "EVENT" =>
    ~\E u \in Ops : /\ Kind[u] = "unsubscribe" /\ pc[u] = "ok"
                    /\ target[u] = subscriptions[msg.of]

=============================================================================
