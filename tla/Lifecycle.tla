----------------------------- MODULE Lifecycle -----------------------------
(***************************************************************************)
(* The life of one xconn::Session: the receive thread, Session::leave, the *)
(* GOODBYE exchange, ~Session and the transport's close.  Module Session   *)
(* adds the requests and the callbacks.                                    *)
(*                                                                         *)
(* Threads: the application threads that call leave, the receive thread,   *)
(* the thread that runs ~Session.  Environment: the router and the link.   *)
(* A step is what a thread does between two points that another thread can *)
(* observe.                                                                *)
(***************************************************************************)
EXTENDS Naturals, Sequences

CONSTANTS
  Leavers,     \* the application threads that may call leave()
  Transports,  \* the kinds of Transport it may have, of "tcp" and "unix"
  Losses,      \* the ways the link may fail, of "ended" and "reset"
  InboxLimit   \* bound on the messages written by the router and not yet read

ASSUME TransportAssumption == Transports \subseteq {"tcp", "unix"}
ASSUME LossesAssumption == Losses \subseteq {"ended", "reset"}
ASSUME InboxAssumption == InboxLimit \in Nat

VARIABLES
  running,          \* running_, which is_connected() returns
  goodbye_sent,
  goodbye_promise,  \* TRUE once goodbye_promise holds its value
  leaver,           \* where each leaving thread is in leave()
  recv,             \* where the receive thread is in wait()
  msg,              \* the message it processes
  dtor,             \* where the destroying thread is in ~Session
  socket,           \* the local descriptor: "open" or "closed"
  process,          \* "up", or "terminated" (std::terminate or a crash)
  inbox,            \* messages the router wrote and the session has not read
  goodbyes,         \* GOODBYEs that reached the router and wait for its reply
  router_left,      \* TRUE once the router has written a GOODBYE
  link,             \* "up", "ended" (the peer closed) or "reset"
  transport         \* the kind of transport_, "tcp" or "unix"

flags  == <<running, goodbye_sent, goodbye_promise>>
reader == <<recv, msg>>
local  == <<socket, process>>
remote == <<inbox, goodbyes, router_left, link, transport>>
lifecycleVars == <<flags, leaver, reader, dtor, local, remote>>

Goodbye   == [type |-> "GOODBYE"]
NoMessage == [type |-> "NONE"]

LeaveEnds  == {"left", "timeout", "closed", "already"}
LeaveSteps == {"send", "write", "mark", "wait"}

LifecycleTypeOK(Messages) ==
  /\ <<running, goodbye_sent, goodbye_promise>> \in BOOLEAN \X BOOLEAN \X BOOLEAN
  /\ leaver \in [Leavers -> {"idle"} \cup LeaveSteps \cup LeaveEnds]
  /\ recv \in {"test", "blocked", "process", "stop", "close", "exited"}
  /\ msg \in Messages \cup {NoMessage}
  /\ dtor \in {"alive", "close", "stop", "join", "members", "pool", "stuck", "gone"}
  /\ socket \in {"open", "closed"}
  /\ process \in {"up", "terminated"}
  /\ inbox \in Seq(Messages)
  /\ goodbyes \in Nat
  /\ router_left \in BOOLEAN
  /\ link \in {"up", "ended", "reset"}
  /\ transport \in Transports

(* What the constructor leaves: a joined session whose receive thread is   *)
(* about to test running_.                                                 *)
LifecycleInit ==
  /\ running = TRUE /\ goodbye_sent = FALSE /\ goodbye_promise = FALSE
  /\ leaver = [t \in Leavers |-> "idle"]
  /\ recv = "test" /\ msg = NoMessage
  /\ dtor = "alive"
  /\ socket = "open" /\ process = "up"
  /\ inbox = <<>> /\ goodbyes = 0 /\ router_left = FALSE /\ link = "up"
  /\ transport \in Transports

-----------------------------------------------------------------------------
(* The transport.  SocketTransport::write swallows every write error: a    *)
(* frame reaches the router or is lost in silence.                         *)
WriteReaches == socket = "open" /\ link = "up"

WriteGoodbye == goodbyes' = IF WriteReaches THEN goodbyes + 1 ELSE goodbyes

(* TcpTransport::close throws when shutdown fails: on a closed descriptor  *)
(* and on a connection that was reset.  UnixTransport::close has no        *)
(* shutdown, and to close a closed asio socket is no error.                *)
CloseThrows_NoTransport == socket = "closed"
CloseThrows == transport = "tcp" /\ (socket = "closed" \/ link = "reset")

Close == socket' = IF CloseThrows THEN socket ELSE "closed"

(* A close() inside a destructor: its exception is std::terminate.         *)
CloseInDestructor ==
  /\ Close
  /\ process' = IF CloseThrows THEN "terminated" ELSE process

-----------------------------------------------------------------------------
(* Session::leave.                                                         *)

LeaveMoves(t, from, to) ==
  /\ process = "up"
  /\ leaver[t] = from
  /\ leaver' = [leaver EXCEPT ![t] = to]
  /\ UNCHANGED <<running, goodbye_promise, reader, dtor, local, inbox, router_left, link, transport>>

(* A second get_future() on goodbye_promise throws.                        *)
LeaveBegin(t) ==
  /\ dtor = "alive"
  /\ LET called == \E u \in Leavers : leaver[u] # "idle"
     IN  LeaveMoves(t, "idle", IF called THEN "already" ELSE "send")
  /\ UNCHANGED <<goodbye_sent, goodbyes>>

(* send_message tests is_connected() and then writes, or throws.           *)
LeaveSend(t) ==
  /\ LeaveMoves(t, "send", IF running THEN "write" ELSE "closed")
  /\ UNCHANGED <<goodbye_sent, goodbyes>>

LeaveWrite(t) ==
  /\ LeaveMoves(t, "write", "mark")
  /\ WriteGoodbye
  /\ UNCHANGED goodbye_sent

LeaveMark(t) ==
  /\ LeaveMoves(t, "mark", "wait")
  /\ goodbye_sent' = TRUE
  /\ UNCHANGED goodbyes

(* wait_with_timeout: the value, or the exception after TIMEOUT_SECONDS.   *)
LeaveWait_IgnoringTimeout(t) ==
  /\ LeaveMoves(t, "wait", "left")
  /\ UNCHANGED <<goodbye_sent, goodbyes>>

LeaveWait_NoTimeout(t) ==
  /\ goodbye_promise
  /\ LeaveMoves(t, "wait", "left")
  /\ UNCHANGED <<goodbye_sent, goodbyes>>

LeaveWait(t) ==
  /\ LeaveMoves(t, "wait", IF goodbye_promise THEN "left" ELSE "timeout")
  /\ UNCHANGED <<goodbye_sent, goodbyes>>

LeaveStep(t) ==
  LeaveBegin(t) \/ LeaveSend(t) \/ LeaveWrite(t) \/ LeaveMark(t) \/ LeaveWait(t)

-----------------------------------------------------------------------------
(* Session::wait, the receive thread.                                      *)

RecvMoves(from, to) ==
  /\ process = "up"
  /\ recv = from
  /\ recv' = to
  /\ UNCHANGED <<leaver, dtor, process, router_left, link, transport>>

(* while (running_) { receive_message ... }.  On a closed descriptor the   *)
(* read fails at once and the loop tests again, which changes nothing.     *)
TestRunning ==
  /\ running => socket = "open"
  /\ RecvMoves("test", IF running THEN "blocked" ELSE "exited")
  /\ UNCHANGED <<flags, msg, socket, inbox, goodbyes>>

(* What has reached the socket is read even after a concurrent close.      *)
ReadMessage_Unchecked ==
  /\ RecvMoves("blocked", "process")
  /\ msg' = IF inbox = <<>> THEN [type |-> "NULL"] ELSE Head(inbox)
  /\ inbox' = IF inbox = <<>> THEN inbox ELSE Tail(inbox)
  /\ UNCHANGED <<flags, socket, goodbyes>>

ReadMessage ==
  /\ inbox # <<>>
  /\ RecvMoves("blocked", "process")
  /\ msg' = Head(inbox)
  /\ inbox' = Tail(inbox)
  /\ UNCHANGED <<flags, socket, goodbyes>>

(* read throws and wait() goes on: the peer closed and all it wrote was    *)
(* read, or the link was reset, or TCP's shutdown woke the reader.  Closing*)
(* a unix socket wakes no thread that is blocked in read.                  *)
ReadFails ==
  /\ \/ link = "ended" /\ inbox = <<>>
     \/ link = "reset"
     \/ transport = "tcp" /\ socket = "closed"
  /\ RecvMoves("blocked", "test")
  /\ UNCHANGED <<flags, msg, socket, inbox, goodbyes>>

(* GOODBYE, up to set_value.  A session that sent no GOODBYE answers, and  *)
(* send_message throws unless running_; a second set_value throws.  wait() *)
(* catches both.  Test, answer and set_value are one step: only this thread*)
(* reads goodbye_sent and sets the promise, and what others do in between, *)
(* a leave() that marks goodbye_sent or ~Session that clears running_, has *)
(* the same effect before or after the step.                               *)
HandleGoodbye_PromiseOnly ==
  /\ msg = Goodbye
  /\ RecvMoves("process", "test")
  /\ msg' = NoMessage
  /\ goodbye_promise' = TRUE
  /\ UNCHANGED <<running, goodbye_sent, goodbyes, socket, inbox>>

HandleGoodbye ==
  LET refused == ~goodbye_sent /\ ~running
  IN  /\ msg = Goodbye
      /\ RecvMoves("process", IF refused \/ goodbye_promise THEN "test" ELSE "stop")
      /\ msg' = NoMessage
      /\ goodbye_sent' = (goodbye_sent \/ running)
      /\ goodbye_promise' = (goodbye_promise \/ ~refused)
      /\ IF goodbye_sent \/ refused THEN UNCHANGED goodbyes ELSE WriteGoodbye
      /\ UNCHANGED <<running, socket, inbox>>

(* GOODBYE, the rest: running_ = false, then close(), whose exception      *)
(* wait() catches.                                                         *)
StopRunning_Forgotten ==
  /\ RecvMoves("stop", "close")
  /\ UNCHANGED <<flags, msg, socket, inbox, goodbyes>>

StopRunning ==
  /\ RecvMoves("stop", "close")
  /\ running' = FALSE
  /\ UNCHANGED <<goodbye_sent, goodbye_promise, msg, socket, inbox, goodbyes>>

CloseAfterGoodbye ==
  /\ RecvMoves("close", "test")
  /\ Close
  /\ UNCHANGED <<flags, msg, inbox, goodbyes>>

RecvStep ==
  \/ TestRunning \/ ReadMessage \/ ReadFails
  \/ HandleGoodbye \/ StopRunning \/ CloseAfterGoodbye

-----------------------------------------------------------------------------
(* ~Session.  The application destroys a session only when none of its     *)
(* threads is inside one of its calls.                                     *)

DtorMoves(from, to) ==
  /\ process = "up"
  /\ dtor = from
  /\ dtor' = to
  /\ UNCHANGED <<goodbye_sent, goodbye_promise, leaver, reader, remote>>

DtorBegin ==
  /\ \A t \in Leavers : leaver[t] \in LeaveEnds \cup {"idle"}
  /\ DtorMoves("alive", IF running THEN "close" ELSE "stop")
  /\ UNCHANGED <<running, local>>

DtorClose ==
  /\ DtorMoves("close", "stop")
  /\ CloseInDestructor
  /\ UNCHANGED running

DtorStop_Forgotten ==
  /\ DtorMoves("stop", "join")
  /\ UNCHANGED <<running, local>>

DtorStop ==
  /\ DtorMoves("stop", "join")
  /\ running' = FALSE
  /\ UNCHANGED local

DtorJoin_Skipped ==
  /\ DtorMoves("join", "members")
  /\ UNCHANGED <<running, local>>

DtorJoin ==
  /\ recv = "exited"
  /\ DtorMoves("join", "members")
  /\ UNCHANGED <<running, local>>

(* The members go in reverse order.  ~ThreadPool sets stop_ and notifies,  *)
(* without queue_mutex_, and joins: a worker that is then between its test *)
(* and its wait is not woken (module ThreadPool), and the join is stuck ...*)
DtorPool ==
  /\ \E to \in {"pool", "stuck"} : DtorMoves("members", to)
  /\ UNCHANGED <<running, local>>

(* ... until that worker wakes up spuriously, which it need never do.      *)
DtorPoolWakes ==
  /\ DtorMoves("stuck", "pool")
  /\ UNCHANGED <<running, local>>

(* base_session_ is the last, and with it the transport, whose destructor  *)
(* closes once more.                                                       *)
DtorMembers ==
  /\ DtorMoves("pool", "gone")
  /\ CloseInDestructor
  /\ UNCHANGED running

DtorStep ==
  \/ DtorBegin \/ DtorClose \/ DtorStop \/ DtorJoin
  \/ DtorPool \/ DtorPoolWakes \/ DtorMembers

-----------------------------------------------------------------------------
(* The router and the link (external).  A unix socket closed under a       *)
(* blocked reader still receives; no other closed socket does.             *)
Delivers ==
  /\ process = "up" /\ link = "up"
  /\ socket = "open" \/ (transport = "unix" /\ recv = "blocked")
  /\ Len(inbox) < InboxLimit

RouterSends(m) ==
  /\ Delivers
  /\ inbox' = Append(inbox, m)
  /\ UNCHANGED <<flags, leaver, reader, dtor, local, link, transport>>

(* The router ends the session of its own accord ...                       *)
RouterLeaves ==
  /\ RouterSends(Goodbye)
  /\ ~router_left /\ router_left' = TRUE
  /\ UNCHANGED goodbyes

(* ... or replies to a GOODBYE, even to one that answers its own.          *)
RouterReplies ==
  /\ RouterSends(Goodbye)
  /\ goodbyes > 0 /\ goodbyes' = goodbyes - 1
  /\ router_left' = TRUE

(* A connection whose peer closed may still be reset, by what is written.  *)
LinkLost ==
  /\ process = "up"
  /\ link # "reset"
  /\ link' \in Losses \ {link}
  /\ UNCHANGED <<flags, leaver, reader, dtor, local, inbox, goodbyes, router_left,
                 transport>>

-----------------------------------------------------------------------------
LifecycleNext ==
  \/ \E t \in Leavers : LeaveStep(t)
  \/ RecvStep
  \/ DtorStep
  \/ RouterLeaves \/ RouterReplies \/ LinkLost

(* A thread that is inside a call takes its next step.  Nothing makes the  *)
(* application leave or destroy the session, the router answer, the link   *)
(* fail, or a worker that missed the end of the pool wake up.              *)
LifecycleFairness ==
  /\ \A t \in Leavers : WF_lifecycleVars(leaver[t] # "idle" /\ LeaveStep(t))
  /\ WF_lifecycleVars(RecvStep)
  /\ WF_lifecycleVars(dtor \notin {"alive", "stuck"} /\ DtorStep)

LifecycleSpec == LifecycleInit /\ [][LifecycleNext]_lifecycleVars /\ LifecycleFairness

-----------------------------------------------------------------------------
(* Properties.                                                             *)

(* The values every variable keeps to.                                     *)
TypeOK == LifecycleTypeOK({Goodbye})

(* leave() reports success only after the router has said GOODBYE, however *)
(* the leave, the router's own GOODBYE and a lost link interleave.         *)
LeftMeansRouterLeft == \A t \in Leavers : leaver[t] = "left" => router_left

(* set_value of goodbye_promise never throws: the GOODBYE branch runs once *)
(* only, because it clears running_ and closes the transport before wait() *)
(* goes on.  It is what keeps a second GOODBYE from leaving the session    *)
(* running.                                                                *)
PromiseSetOnce == recv = "process" /\ msg = Goodbye => ~goodbye_promise

(* A session that gave up its descriptor says so: once the transport is    *)
(* closed is_connected() is FALSE, but for the destroying thread itself    *)
(* between its close() and its running_ = false.                           *)
ClosedMeansStopped == socket = "closed" => ~running \/ dtor = "stop"

(* The members are destroyed after the receive thread, which uses them,    *)
(* has returned, and after every leave() has.                              *)
ThreadsEndBeforeMembers ==
  dtor \in {"members", "pool", "stuck", "gone"} =>
    /\ recv = "exited"
    /\ \A t \in Leavers : leaver[t] \notin LeaveSteps

(* Over a unix socket no thread of the session ends the process with an    *)
(* uncaught exception; over TCP the second close() does.                   *)
NeverTerminates == transport = "unix" => process = "up"

(* Every call of leave() returns, or throws, whether the router answers or *)
(* not.                                                                    *)
LeaveReturns ==
  \A t \in Leavers : leaver[t] = "send" ~> leaver[t] \in LeaveEnds

(* What the GOODBYE branch began it ends: once a leave() has succeeded the *)
(* receive thread stops and the transport is closed.                       *)
LeaveClosesSession ==
  \A t \in Leavers :
    leaver[t] = "left" ~> \/ recv = "exited" /\ (socket = "closed" \/ link = "reset")
                          \/ process = "terminated"

(* ~Session ends if a leave() succeeded before it or if the transport's    *)
(* close wakes the reader; over a unix socket nothing else ends the read.  *)
(* One thing may still hold it up for good, over either transport: the join*)
(* of ~ThreadPool, when a worker missed its notification.                  *)
DestroyEnds ==
  dtor # "alive" /\ (transport = "tcp" \/ \E t \in Leavers : leaver[t] = "left")
    ~> dtor \in {"stuck", "gone"} \/ process = "terminated"

(* A reading of the tests, which hold only most of the time: after leave() *)
(* returned, is_connected() is FALSE.                                      *)
LeaveDisconnects == \A t \in Leavers : leaver[t] = "left" => ~running

(* The life every test gives its session, connect, leave and destroy with  *)
(* the link up, does not end the process.                                  *)
LeaveThenDestroy ==
  (\E t \in Leavers : leaver[t] = "left") /\ link = "up" => process = "up"

=============================================================================
