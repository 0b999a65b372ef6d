------------------------------- MODULE Joiner -------------------------------
(***************************************************************************)
(* Client::connect: SessionJoiner::join, from the URL to the constructor   *)
(* of Session, over SocketTransport.  One thread; the router and the link  *)
(* are the environment.  No step has a timeout.                            *)
(***************************************************************************)
EXTENDS UrlParser

CONSTANTS
  WellFormed,  \* the parts of the URLs that have them: scheme, host, port, path
  Malformed,   \* URLs that have not
  Losses       \* the ways the link may fail, of "ended" and "reset"

ASSUME LossesAssumption == Losses \subseteq {"ended", "reset"}

(* The host of a unix URL is a path, with nothing behind it; elsewhere     *)
(* host and port hold none of the two characters, and a path begins with   *)
(* the second.                                                             *)
ASSUME WellFormedAssumption ==
  \A u \in WellFormed :
    /\ u.scheme \in STRING /\ u.scheme \notin {":", "/"}
    /\ u.host \in Seq(STRING) /\ u.port \in Seq(STRING) /\ u.path \in Seq(STRING)
    /\ IF u.scheme \in UnixWords THEN u.port = <<>> /\ u.path = <<>>
       ELSE /\ \A i \in DOMAIN u.host : u.host[i] \notin {":", "/"}
            /\ \A i \in DOMAIN u.port : u.port[i] \notin {":", "/"}
            /\ u.path # <<>> => u.path[1] = "/"

(* The others do not begin with a scheme that has a transport.             *)
ASSUME MalformedAssumption ==
  \A url \in Malformed :
    /\ url \in Seq(STRING)
    /\ \A scheme \in {"tcp", "rs", "unix", "unix+rs"} :
         Len(url) >= 4 => SubSeq(url, 1, 4) # <<scheme, ":", "/", "/">>

(* A URL as it is written; the port is left out with its ":".              *)
Text(u) ==
  <<u.scheme, ":", "/", "/">> \o u.host
    \o (IF u.port = <<>> THEN <<>> ELSE <<":">> \o u.port) \o u.path

Urls == {Text(u) : u \in WellFormed} \cup Malformed

VARIABLES
  uri,       \* the URL given to connect()
  step,      \* where the thread is, see Steps
  address,   \* what transport->connect is given: transport, host and port
  socket,    \* "none", "unconnected", "open" or "closed"
  process,   \* "up", or "terminated" (std::terminate or a crash)
  bytes,     \* what read_bytes returned
  details,   \* TRUE once the joiner has its session_details
  spoilt,    \* TRUE once a read has come back short
  link,      \* "up", "ended" (the peer closed) or "reset"
  inbox,     \* what the router wrote and the client has not read
  outbox,    \* what the client wrote and the router has not read
  router     \* "waiting", "accepted", "refused", "welcomed" or "aborted"

client == <<uri, step, address, socket, process, bytes, details, spoilt>>
remote == <<link, inbox, outbox, router>>
joinVars == <<client, remote>>

Steps == {"create", "connect", "request", "response", "hello", "read", "receive",
          "write", "session", "unwind", "joined", "threw"}
Frames == {"CHALLENGE", "WELCOME", "ABORT"}

(* The answer to the handshake is never taken for a frame.                 *)
JoinTypeOK ==
  /\ uri \in Urls \cup {<<>>}
  /\ step \in Steps
  /\ address.transport \in {"tcp", "unix", "none"}
  /\ socket \in {"none", "unconnected", "open", "closed"}
  /\ process \in {"up", "terminated"}
  /\ bytes \in Frames \cup {"NOTHING"}
  /\ details \in BOOLEAN /\ spoilt \in BOOLEAN
  /\ link \in {"up", "ended", "reset"}
  /\ inbox \in Seq(Frames \cup {"ACCEPTED", "REFUSED"})
  /\ outbox \in Seq({"REQUEST", "HELLO", "AUTHENTICATE"})
  /\ router \in {"waiting", "accepted", "refused", "welcomed", "aborted"}

JoinInit ==
  /\ uri = <<>> /\ step = "create"
  /\ address = [transport |-> "none", host |-> <<>>, port |-> <<>>]
  /\ socket = "none" /\ process = "up"
  /\ bytes = "NOTHING" /\ details = FALSE /\ spoilt = FALSE
  /\ link = "up" /\ inbox = <<>> /\ outbox = <<>> /\ router = "waiting"

-----------------------------------------------------------------------------
Moves(from, to) ==
  /\ process = "up"
  /\ step = from
  /\ step' = to
  /\ UNCHANGED link

(* SocketTransport::Create and parse_url.  create_transport throws before  *)
(* there is a transport to destroy.                                        *)
Create(url) ==
  LET parts == parse_url(url)
      transport == create_transport(parts.scheme)
  IN  /\ Moves("create", IF transport = "none" THEN "threw" ELSE "connect")
      /\ uri' = url
      /\ address' = [transport |-> transport, host |-> parts.host, port |-> parts.port]
      /\ socket' = IF transport = "none" THEN "none" ELSE "unconnected"
      /\ UNCHANGED <<process, bytes, details, spoilt, remote>>

(* transport_->connect succeeds or throws.  SocketTransport::connect makes *)
(* FALSE of every exception, and join does not look at its result: what    *)
(* fails in the handshake goes on with HELLO.                              *)
Connect ==
  /\ \/ Moves("connect", "request") /\ socket' = "open"
     \/ Moves("connect", "hello") /\ UNCHANGED socket
  /\ UNCHANGED <<uri, address, process, bytes, details, spoilt, remote>>

Reaches == socket = "open" /\ link = "up"

Written(frame) == outbox' = IF Reaches THEN Append(outbox, frame) ELSE outbox

(* The 4 bytes of the handshake.  send_handshake refuses none of the       *)
(* serializers and sizes that join gives it.                               *)
SendRequest_Unanswered ==
  /\ Moves("request", "hello")
  /\ Written("REQUEST")
  /\ UNCHANGED <<uri, address, socket, process, bytes, details, spoilt, inbox, router>>

SendRequest ==
  /\ Moves("request", IF Reaches THEN "response" ELSE "hello")
  /\ Written("REQUEST")
  /\ UNCHANGED <<uri, address, socket, process, bytes, details, spoilt, inbox, router>>

(* The answer is looked at, but accepted, refused and short are one to     *)
(* join.  A short read leaves the rest to be taken for a frame.            *)
ReadResponse ==
  /\ Moves("response", "hello")
  /\ inbox # <<>> /\ inbox' = Tail(inbox)
  /\ spoilt' \in BOOLEAN
  /\ UNCHANGED <<uri, address, socket, process, bytes, details, outbox, router>>

(* read_some throws: nothing more will come, or never could.  What a reset *)
(* leaves unread is lost.                                                  *)
ReadThrows ==
  \/ socket # "open"
  \/ link = "ended" /\ inbox = <<>>
  \/ link = "reset"

ResponseFails ==
  /\ ReadThrows
  /\ Moves("response", "hello")
  /\ inbox' = <<>>
  /\ UNCHANGED <<uri, address, socket, process, bytes, details, spoilt, outbox, router>>

SendHello ==
  /\ Moves("hello", "read")
  /\ Written("HELLO")
  /\ UNCHANGED <<uri, address, socket, process, bytes, details, spoilt, inbox, router>>

(* read_bytes.  A short read of header or payload returns no bytes, and so *)
(* does, in effect, a read that begins inside a frame: the joiner can make *)
(* nothing of what it returns.                                             *)
ReadFrame ==
  /\ Moves("read", "receive")
  /\ inbox # <<>> /\ inbox' = Tail(inbox)
  /\ spoilt' \in {spoilt, TRUE}
  /\ bytes' = IF spoilt' THEN "NOTHING" ELSE Head(inbox)
  /\ UNCHANGED <<uri, address, socket, process, details, outbox, router>>

(* What is left of a frame that was read short.                            *)
ReadRest ==
  /\ spoilt
  /\ Moves("read", "receive")
  /\ bytes' = "NOTHING"
  /\ UNCHANGED <<uri, address, socket, process, details, spoilt, remote>>

ReadFails_Swallowed ==
  /\ ReadThrows
  /\ Moves("read", "read")
  /\ UNCHANGED <<uri, address, socket, process, bytes, details, spoilt, remote>>

ReadFails ==
  /\ ReadThrows
  /\ Moves("read", "unwind")
  /\ UNCHANGED <<uri, address, socket, process, bytes, details, spoilt, remote>>

(* joiner->receive (wampproto) answers a CHALLENGE, and takes its details  *)
(* from WELCOME.  For everything else it has nothing to send either, which *)
(* join takes for success.                                                 *)
Receive_Unanswered ==
  /\ Moves("receive", "session")
  /\ details' = (details \/ bytes = "WELCOME")
  /\ UNCHANGED <<uri, address, socket, process, bytes, spoilt, remote>>

Receive_Insatiable ==
  /\ Moves("receive", CASE bytes = "CHALLENGE" -> "write" [] bytes = "WELCOME" -> "read"
                       [] OTHER -> "session")
  /\ details' = (details \/ bytes = "WELCOME")
  /\ UNCHANGED <<uri, address, socket, process, bytes, spoilt, remote>>

Receive ==
  /\ Moves("receive", IF bytes = "CHALLENGE" THEN "write" ELSE "session")
  /\ details' = (details \/ bytes = "WELCOME")
  /\ UNCHANGED <<uri, address, socket, process, bytes, spoilt, remote>>

SendAuthenticate ==
  /\ Moves("write", "read")
  /\ Written("AUTHENTICATE")
  /\ UNCHANGED <<uri, address, socket, process, bytes, details, spoilt, inbox, router>>

(* Session::Session reads the details, through a null pointer if there are *)
(* none: undefined behaviour, and it may be the end of the process.        *)
Construct ==
  /\ Moves("session", "joined")
  /\ process' \in IF details THEN {"up"} ELSE {"up", "terminated"}
  /\ UNCHANGED <<uri, address, socket, bytes, details, spoilt, remote>>

(* The exception leaves join and destroys the transport, which closes.     *)
(* TcpTransport::close throws when its shutdown fails: on a socket that    *)
(* was never connected and on a connection that was reset.                 *)
CloseThrows_NoTransport == socket = "unconnected" \/ link = "reset"
CloseThrows == address.transport = "tcp" /\ (socket = "unconnected" \/ link = "reset")

Unwind ==
  /\ Moves("unwind", "threw")
  /\ IF CloseThrows THEN process' = "terminated" /\ UNCHANGED socket
     ELSE socket' = "closed" /\ UNCHANGED process
  /\ UNCHANGED <<uri, address, bytes, details, spoilt, remote>>

JoinStep ==
  \/ Connect \/ SendRequest \/ ReadResponse \/ ResponseFails \/ SendHello
  \/ ReadFrame \/ ReadRest \/ ReadFails \/ Receive \/ SendAuthenticate
  \/ Construct \/ Unwind

-----------------------------------------------------------------------------
(* The router (external) answers what it has read, in order; a client it   *)
(* refused it can only abort.  It may abort at any time, and may not       *)
(* answer at all.                                                          *)
Answers(heard) ==
  IF heard = "REQUEST" THEN {"ACCEPTED", "REFUSED"}
  ELSE IF router = "accepted" THEN {"CHALLENGE", "WELCOME", "ABORT"} ELSE {"ABORT"}

Becomes(answer) ==
  CASE answer = "ACCEPTED" -> "accepted" [] answer = "REFUSED" -> "refused"
    [] answer = "WELCOME" -> "welcomed" [] answer = "ABORT" -> "aborted"
    [] OTHER -> router

RouterAnswers ==
  /\ process = "up" /\ link = "up" /\ socket = "open"
  /\ router \notin {"welcomed", "aborted"}
  /\ outbox # <<>> /\ outbox' = Tail(outbox)
  /\ \E answer \in Answers(Head(outbox)) :
       /\ inbox' = Append(inbox, answer)
       /\ router' = Becomes(answer)
  /\ UNCHANGED <<client, link>>

RouterAborts ==
  /\ process = "up" /\ link = "up" /\ socket = "open"
  /\ router \in {"accepted", "refused"}
  /\ inbox' = Append(inbox, "ABORT") /\ router' = "aborted"
  /\ UNCHANGED <<client, link, outbox>>

(* A connection whose peer closed may still be reset, by what is written.  *)
LinkLost ==
  /\ process = "up" /\ socket = "open"
  /\ link # "reset" /\ link' \in Losses /\ link' # link
  /\ UNCHANGED <<client, inbox, outbox, router>>

-----------------------------------------------------------------------------
(* Properties.                                                             *)

(* What is dialled is what the URL says, with or without port and path;    *)
(* an unknown scheme dials nothing.                                        *)
AddressAsWritten ==
  step # "create" =>
    /\ \A u \in WellFormed : uri = Text(u) =>
         address = [transport |-> create_transport(<<u.scheme>>), host |-> u.host, port |-> u.port]
    /\ uri \in Malformed => socket = "none"

(* connect() returns a session with details over an open connection on     *)
(* which the router has said WELCOME, and whenever it has and every read   *)
(* was whole; from there LifecycleInit goes on.  It also returns one with  *)
(* none, whose constructor goes through a null pointer, after an ABORT or  *)
(* a short read, and after nothing else.                                   *)
DetailsMeanWelcome ==
  step \in {"session", "joined"} =>
    /\ socket = "open"
    /\ details <=> (router = "welcomed" /\ ~spoilt)
    /\ ~details => router = "aborted" \/ spoilt

(* When connect() throws it has given up its descriptor and the process    *)
(* goes on; only over TCP the close() of a socket that never connected, or *)
(* was reset, ends the process in the middle of the exception.             *)
FailsCleanly ==
  step = "threw" =>
    \/ process = "up" /\ socket \in {"none", "closed"}
    \/ /\ process = "terminated" /\ address.transport = "tcp"
       /\ socket = "unconnected" \/ link = "reset"

(* connect() ends, with a session or an exception, when the connection     *)
(* was never made or is lost; only a silent router can hold it up.         *)
JoinEnds ==
  (step = "hello" /\ socket = "unconnected") \/ link # "up"
    ~> step \in {"joined", "threw"}

(* A router that says WELCOME gets a session, whatever was challenged and  *)
(* answered before, unless the link fails or a read comes back short.      *)
WelcomeJoins ==
  router = "welcomed" ~> (step = "joined" /\ details) \/ spoilt \/ link # "up"

=============================================================================
