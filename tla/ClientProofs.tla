---------------------------- MODULE ClientProofs ----------------------------
(***************************************************************************)
(* Client::connect dials what the URL says and ends with a welcomed        *)
(* session or cleanly, and what it hands over is where module Lifecycle    *)
(* starts: proofs for every set of URLs, of values and of ways for the     *)
(* link to fail.                                                           *)
(***************************************************************************)
EXTENDS Client, SequenceTheorems, TLAPS

(* The application calls on a session only.                                *)
CallsAfterJoin == passed # NoValues => step = "joined"

(* The steps of connect() and of its environment.                          *)
ConnectNext ==
  \/ \E url \in Urls : Create(url)
  \/ JoinStep
  \/ RouterAnswers \/ RouterAborts \/ LinkLost

(* Up to the handshake there is nothing to destroy or to read; a session   *)
(* is reached only over a socket that was connected.                       *)
SocketInStep ==
  /\ step = "create" => socket = "none"
  /\ step = "connect" => socket = "unconnected"
  /\ step \in {"request", "response", "receive", "write", "session", "joined"} => socket = "open"
  /\ step \in {"hello", "read", "unwind"} => socket \in {"unconnected", "open"}
  /\ socket \in {"none", "unconnected"} => inbox = <<>> /\ outbox = <<>> /\ ~spoilt
  /\ process = "terminated" => step \in {"joined", "threw"}

(* The answer to the handshake is read, lost or never given before the     *)
(* first frame is: HELLO is not written before that.                       *)
HandshakeFirst ==
  /\ step # "response" =>
       /\ \A i \in DOMAIN inbox : inbox[i] \in Frames
       /\ link = "up" => \A i \in DOMAIN outbox : outbox[i] # "REQUEST"
  /\ step = "response" =>
       /\ \A i \in DOMAIN inbox : i > 1 => inbox[i] \in Frames
       /\ inbox # <<>> => inbox[1] \in {"ACCEPTED", "REFUSED"} /\ outbox = <<>>
       /\ inbox = <<>> => router = "waiting"
       /\ Len(outbox) <= 1
       /\ \A i \in DOMAIN outbox : outbox[i] = "REQUEST"
  /\ step \in {"create", "connect", "request"} => outbox = <<>> /\ inbox = <<>> /\ router = "waiting"

(* What the router has said last it has become, and stays.                 *)
Says(frame) ==
  /\ frame = "WELCOME" => router = "welcomed"
  /\ frame = "ABORT" => router = "aborted"

SaidIsSo ==
  /\ \A i \in DOMAIN inbox : Says(inbox[i])
  /\ step = "receive" => Says(bytes) /\ (spoilt <=> bytes = "NOTHING")
  /\ details => step \in {"session", "joined"} /\ router = "welcomed" /\ ~spoilt
  /\ step \in {"session", "joined"} /\ ~details => router = "aborted" \/ spoilt

JoinInv ==
  /\ JoinTypeOK
  /\ SocketInStep
  /\ HandshakeFirst
  /\ SaidIsSo
  /\ FailsCleanly

-----------------------------------------------------------------------------

LEMMA ConnectKeeps == JoinInv /\ Connect => JoinInv'
<1> SUFFICES ASSUME JoinInv, Connect PROVE JoinInv'
  OBVIOUS
<1> USE DEF JoinInv, Steps, Frames, client, remote
<1>1. JoinTypeOK'
  BY DEF JoinTypeOK, HandshakeFirst, SocketInStep, Connect, Moves
<1>2. SocketInStep'
  BY DEF JoinTypeOK, SocketInStep, Connect, Moves
<1>3. HandshakeFirst'
  BY DEF JoinTypeOK, SocketInStep, HandshakeFirst, Connect, Moves
<1>4. SaidIsSo'
  BY DEF JoinTypeOK, SocketInStep, HandshakeFirst, SaidIsSo, Says, Connect, Moves
<1>5. FailsCleanly'
  BY DEF JoinTypeOK, SocketInStep, FailsCleanly, Connect, Moves
<1> QED
  BY <1>1, <1>2, <1>3, <1>4, <1>5

LEMMA SendRequestKeeps == JoinInv /\ SendRequest => JoinInv'
<1> SUFFICES ASSUME JoinInv, SendRequest PROVE JoinInv'
  OBVIOUS
<1> USE DEF JoinInv, Steps, Frames, client, remote
<1>1. JoinTypeOK'
  <2>1. outbox' \in Seq({"REQUEST", "HELLO", "AUTHENTICATE"})
    BY DEF JoinTypeOK, SendRequest, Written, Reaches
  <2>2. step' \in Steps
    BY DEF SendRequest, Moves
  <2> QED
    BY <2>1, <2>2 DEF JoinTypeOK, SendRequest, Moves
<1>2. SocketInStep'
  BY DEF JoinTypeOK, SocketInStep, SendRequest, Moves, Written, Reaches
<1>3. HandshakeFirst'
  BY DEF JoinTypeOK, SocketInStep, HandshakeFirst, SendRequest, Moves, Written, Reaches
<1>4. SaidIsSo'
  BY DEF JoinTypeOK, SocketInStep, HandshakeFirst, SaidIsSo, Says, SendRequest, Moves, Written, Reaches
<1>5. FailsCleanly'
  BY DEF JoinTypeOK, SocketInStep, FailsCleanly, SendRequest, Moves, Written, Reaches
<1> QED
  BY <1>1, <1>2, <1>3, <1>4, <1>5

LEMMA ReadResponseKeeps == JoinInv /\ ReadResponse => JoinInv'
<1> SUFFICES ASSUME JoinInv, ReadResponse PROVE JoinInv'
  OBVIOUS
<1> USE DEF JoinInv, Steps, Frames, client, remote
<1>1. JoinTypeOK'
  BY DEF JoinTypeOK, HandshakeFirst, SocketInStep, ReadResponse, Moves
<1>2. SocketInStep'
  BY DEF JoinTypeOK, SocketInStep, ReadResponse, Moves
<1>3. HandshakeFirst'
  BY DEF JoinTypeOK, SocketInStep, HandshakeFirst, ReadResponse, Moves
<1>4. SaidIsSo'
  BY DEF JoinTypeOK, SocketInStep, HandshakeFirst, SaidIsSo, Says, ReadResponse, Moves
<1>5. FailsCleanly'
  BY DEF JoinTypeOK, SocketInStep, FailsCleanly, ReadResponse, Moves
<1> QED
  BY <1>1, <1>2, <1>3, <1>4, <1>5

LEMMA ResponseFailsKeeps == JoinInv /\ ResponseFails => JoinInv'
<1> SUFFICES ASSUME JoinInv, ResponseFails PROVE JoinInv'
  OBVIOUS
<1> USE DEF JoinInv, Steps, Frames, client, remote
<1>1. JoinTypeOK'
  BY DEF JoinTypeOK, HandshakeFirst, SocketInStep, ResponseFails, Moves, ReadThrows
<1>2. SocketInStep'
  BY DEF JoinTypeOK, SocketInStep, ResponseFails, Moves, ReadThrows
<1>3. HandshakeFirst'
  BY DEF JoinTypeOK, SocketInStep, HandshakeFirst, ResponseFails, Moves, ReadThrows
<1>4. SaidIsSo'
  BY DEF JoinTypeOK, SocketInStep, HandshakeFirst, SaidIsSo, Says, ResponseFails, Moves, ReadThrows
<1>5. FailsCleanly'
  BY DEF JoinTypeOK, SocketInStep, FailsCleanly, ResponseFails, Moves, ReadThrows
<1> QED
  BY <1>1, <1>2, <1>3, <1>4, <1>5

LEMMA SendHelloKeeps == JoinInv /\ SendHello => JoinInv'
<1> SUFFICES ASSUME JoinInv, SendHello PROVE JoinInv'
  OBVIOUS
<1> USE DEF JoinInv, Steps, Frames, client, remote
<1>1. JoinTypeOK'
  BY DEF JoinTypeOK, HandshakeFirst, SocketInStep, SendHello, Moves, Written, Reaches
<1>2. SocketInStep'
  BY DEF JoinTypeOK, SocketInStep, SendHello, Moves, Written, Reaches
<1>3. HandshakeFirst'
  BY DEF JoinTypeOK, SocketInStep, HandshakeFirst, SendHello, Moves, Written, Reaches
<1>4. SaidIsSo'
  BY DEF JoinTypeOK, SocketInStep, HandshakeFirst, SaidIsSo, Says, SendHello, Moves, Written, Reaches
<1>5. FailsCleanly'
  BY DEF JoinTypeOK, SocketInStep, FailsCleanly, SendHello, Moves, Written, Reaches
<1> QED
  BY <1>1, <1>2, <1>3, <1>4, <1>5

LEMMA ReadFrameKeeps == JoinInv /\ ReadFrame => JoinInv'
<1> SUFFICES ASSUME JoinInv, ReadFrame PROVE JoinInv'
  OBVIOUS
<1> USE DEF JoinInv, Steps, Frames, client, remote
<1>1. JoinTypeOK'
  <2>1. Head(inbox) \in Frames
    <3>1. 1 \in DOMAIN inbox /\ Head(inbox) = inbox[1]
      BY DEF JoinTypeOK, ReadFrame
    <3> QED
      BY <3>1 DEF HandshakeFirst, ReadFrame, Moves
  <2>2. bytes' \in Frames \cup {"NOTHING"}
    BY <2>1 DEF ReadFrame
  <2>3. inbox' \in Seq(Frames \cup {"ACCEPTED", "REFUSED"})
    BY DEF JoinTypeOK, ReadFrame
  <2> QED
    BY <2>2, <2>3 DEF JoinTypeOK, ReadFrame, Moves
<1>2. SocketInStep'
  BY DEF JoinTypeOK, SocketInStep, ReadFrame, Moves
<1>3. HandshakeFirst'
  BY DEF JoinTypeOK, SocketInStep, HandshakeFirst, ReadFrame, Moves
<1>4. SaidIsSo'
  BY DEF JoinTypeOK, SocketInStep, HandshakeFirst, SaidIsSo, Says, ReadFrame, Moves
<1>5. FailsCleanly'
  BY DEF JoinTypeOK, SocketInStep, FailsCleanly, ReadFrame, Moves
<1> QED
  BY <1>1, <1>2, <1>3, <1>4, <1>5

LEMMA ReadRestKeeps == JoinInv /\ ReadRest => JoinInv'
<1> SUFFICES ASSUME JoinInv, ReadRest PROVE JoinInv'
  OBVIOUS
<1> USE DEF JoinInv, Steps, Frames, client, remote
<1>1. JoinTypeOK'
  BY DEF JoinTypeOK, HandshakeFirst, SocketInStep, ReadRest, Moves
<1>2. SocketInStep'
  BY DEF JoinTypeOK, SocketInStep, ReadRest, Moves
<1>3. HandshakeFirst'
  BY DEF JoinTypeOK, SocketInStep, HandshakeFirst, ReadRest, Moves
<1>4. SaidIsSo'
  BY DEF JoinTypeOK, SocketInStep, HandshakeFirst, SaidIsSo, Says, ReadRest, Moves
<1>5. FailsCleanly'
  BY DEF JoinTypeOK, SocketInStep, FailsCleanly, ReadRest, Moves
<1> QED
  BY <1>1, <1>2, <1>3, <1>4, <1>5

LEMMA ReadFailsKeeps == JoinInv /\ ReadFails => JoinInv'
<1> SUFFICES ASSUME JoinInv, ReadFails PROVE JoinInv'
  OBVIOUS
<1> USE DEF JoinInv, Steps, Frames, client, remote
<1>1. JoinTypeOK'
  BY DEF JoinTypeOK, HandshakeFirst, SocketInStep, ReadFails, Moves, ReadThrows
<1>2. SocketInStep'
  BY DEF JoinTypeOK, SocketInStep, ReadFails, Moves, ReadThrows
<1>3. HandshakeFirst'
  BY DEF JoinTypeOK, SocketInStep, HandshakeFirst, ReadFails, Moves, ReadThrows
<1>4. SaidIsSo'
  BY DEF JoinTypeOK, SocketInStep, HandshakeFirst, SaidIsSo, Says, ReadFails, Moves, ReadThrows
<1>5. FailsCleanly'
  BY DEF JoinTypeOK, SocketInStep, FailsCleanly, ReadFails, Moves, ReadThrows
<1> QED
  BY <1>1, <1>2, <1>3, <1>4, <1>5

LEMMA ReceiveKeeps == JoinInv /\ Receive => JoinInv'
<1> SUFFICES ASSUME JoinInv, Receive PROVE JoinInv'
  OBVIOUS
<1> USE DEF JoinInv, Steps, Frames, client, remote
<1>1. JoinTypeOK'
  BY DEF JoinTypeOK, HandshakeFirst, SocketInStep, Receive, Moves
<1>2. SocketInStep'
  BY DEF JoinTypeOK, SocketInStep, Receive, Moves
<1>3. HandshakeFirst'
  BY DEF JoinTypeOK, SocketInStep, HandshakeFirst, Receive, Moves
<1>4. SaidIsSo'
  BY DEF JoinTypeOK, SocketInStep, HandshakeFirst, SaidIsSo, Says, Receive, Moves
<1>5. FailsCleanly'
  BY DEF JoinTypeOK, SocketInStep, FailsCleanly, Receive, Moves
<1> QED
  BY <1>1, <1>2, <1>3, <1>4, <1>5

LEMMA SendAuthenticateKeeps == JoinInv /\ SendAuthenticate => JoinInv'
<1> SUFFICES ASSUME JoinInv, SendAuthenticate PROVE JoinInv'
  OBVIOUS
<1> USE DEF JoinInv, Steps, Frames, client, remote
<1>1. JoinTypeOK'
  BY DEF JoinTypeOK, HandshakeFirst, SocketInStep, SendAuthenticate, Moves, Written, Reaches
<1>2. SocketInStep'
  BY DEF JoinTypeOK, SocketInStep, SendAuthenticate, Moves, Written, Reaches
<1>3. HandshakeFirst'
  BY DEF JoinTypeOK, SocketInStep, HandshakeFirst, SendAuthenticate, Moves, Written, Reaches
<1>4. SaidIsSo'
  BY DEF JoinTypeOK, SocketInStep, HandshakeFirst, SaidIsSo, Says, SendAuthenticate, Moves, Written, Reaches
<1>5. FailsCleanly'
  BY DEF JoinTypeOK, SocketInStep, FailsCleanly, SendAuthenticate, Moves, Written, Reaches
<1> QED
  BY <1>1, <1>2, <1>3, <1>4, <1>5

LEMMA ConstructKeeps == JoinInv /\ Construct => JoinInv'
<1> SUFFICES ASSUME JoinInv, Construct PROVE JoinInv'
  OBVIOUS
<1> USE DEF JoinInv, Steps, Frames, client, remote
<1>1. JoinTypeOK'
  BY DEF JoinTypeOK, HandshakeFirst, SocketInStep, Construct, Moves
<1>2. SocketInStep'
  BY DEF JoinTypeOK, SocketInStep, Construct, Moves
<1>3. HandshakeFirst'
  BY DEF JoinTypeOK, SocketInStep, HandshakeFirst, Construct, Moves
<1>4. SaidIsSo'
  BY DEF JoinTypeOK, SocketInStep, HandshakeFirst, SaidIsSo, Says, Construct, Moves
<1>5. FailsCleanly'
  BY DEF JoinTypeOK, SocketInStep, FailsCleanly, Construct, Moves
<1> QED
  BY <1>1, <1>2, <1>3, <1>4, <1>5

LEMMA UnwindKeeps == JoinInv /\ Unwind => JoinInv'
<1> SUFFICES ASSUME JoinInv, Unwind PROVE JoinInv'
  OBVIOUS
<1> USE DEF JoinInv, Steps, Frames, client, remote
<1>1. JoinTypeOK'
  BY DEF JoinTypeOK, HandshakeFirst, SocketInStep, Unwind, Moves, CloseThrows
<1>2. SocketInStep'
  BY DEF JoinTypeOK, SocketInStep, Unwind, Moves, CloseThrows
<1>3. HandshakeFirst'
  BY DEF JoinTypeOK, SocketInStep, HandshakeFirst, Unwind, Moves, CloseThrows
<1>4. SaidIsSo'
  BY DEF JoinTypeOK, SocketInStep, HandshakeFirst, SaidIsSo, Says, Unwind, Moves, CloseThrows
<1>5. FailsCleanly'
  BY DEF JoinTypeOK, SocketInStep, FailsCleanly, Unwind, Moves, CloseThrows
<1> QED
  BY <1>1, <1>2, <1>3, <1>4, <1>5

LEMMA RouterAnswersKeeps == JoinInv /\ RouterAnswers => JoinInv'
<1> SUFFICES ASSUME JoinInv, RouterAnswers PROVE JoinInv'
  OBVIOUS
<1> USE DEF JoinInv, Steps, Frames, client, remote
<1>1. JoinTypeOK'
  BY DEF JoinTypeOK, HandshakeFirst, SocketInStep, RouterAnswers, Answers, Becomes
<1>2. SocketInStep'
  BY DEF JoinTypeOK, SocketInStep, RouterAnswers, Answers, Becomes
<1>3. HandshakeFirst'
  <2>1. PICK answer \in Answers(Head(outbox)) : inbox' = Append(inbox, answer)
    BY DEF RouterAnswers
  <2>2. step \notin {"create", "connect", "request"}
    BY DEF RouterAnswers, HandshakeFirst
  <2>3. 1 \in DOMAIN outbox /\ Head(outbox) = outbox[1]
    BY DEF JoinTypeOK, RouterAnswers
  <2>4. CASE step = "response"
    <3>1. inbox = <<>> /\ Head(outbox) = "REQUEST" /\ outbox' = <<>> /\ router = "waiting"
      BY <2>3, <2>4 DEF JoinTypeOK, HandshakeFirst, RouterAnswers
    <3>2. answer \in {"ACCEPTED", "REFUSED"}
      BY <2>1, <3>1 DEF Answers
    <3>3. inbox' = <<answer>>
      BY <2>1, <3>1
    <3> QED
      BY <2>4, <3>1, <3>2, <3>3 DEF HandshakeFirst, RouterAnswers
  <2>5. CASE step # "response"
    <3>1. Head(outbox) # "REQUEST"
      BY <2>3, <2>5 DEF HandshakeFirst, RouterAnswers
    <3>2. answer \in Frames
      BY <3>1 DEF Answers
    <3>3. \A i \in DOMAIN inbox' : inbox'[i] \in Frames
      BY <2>1, <2>5, <3>2 DEF JoinTypeOK, HandshakeFirst
    <3>4. \A i \in DOMAIN outbox' : outbox'[i] # "REQUEST"
      BY <2>5 DEF JoinTypeOK, HandshakeFirst, RouterAnswers
    <3> QED
      BY <2>2, <2>5, <3>3, <3>4 DEF HandshakeFirst, RouterAnswers
  <2> QED
    BY <2>4, <2>5
<1>4. SaidIsSo'
  BY DEF JoinTypeOK, SocketInStep, HandshakeFirst, SaidIsSo, Says, RouterAnswers, Answers, Becomes
<1>5. FailsCleanly'
  BY DEF JoinTypeOK, SocketInStep, FailsCleanly, RouterAnswers, Answers, Becomes
<1> QED
  BY <1>1, <1>2, <1>3, <1>4, <1>5

LEMMA RouterAbortsKeeps == JoinInv /\ RouterAborts => JoinInv'
<1> SUFFICES ASSUME JoinInv, RouterAborts PROVE JoinInv'
  OBVIOUS
<1> USE DEF JoinInv, Steps, Frames, client, remote
<1>1. JoinTypeOK'
  BY DEF JoinTypeOK, HandshakeFirst, SocketInStep, RouterAborts
<1>2. SocketInStep'
  BY DEF JoinTypeOK, SocketInStep, RouterAborts
<1>3. HandshakeFirst'
  <2>1. \A i \in DOMAIN inbox' : (i \in DOMAIN inbox /\ inbox'[i] = inbox[i]) \/ inbox'[i] = "ABORT"
    BY DEF JoinTypeOK, RouterAborts
  <2>2. step = "response" => inbox # <<>> /\ inbox'[1] = inbox[1] /\ inbox' # <<>>
    BY DEF JoinTypeOK, HandshakeFirst, RouterAborts
  <2>3. step' \notin {"create", "connect", "request"}
    BY DEF HandshakeFirst, RouterAborts
  <2> QED
    BY <2>1, <2>2, <2>3 DEF HandshakeFirst, RouterAborts
<1>4. SaidIsSo'
  BY DEF JoinTypeOK, SocketInStep, HandshakeFirst, SaidIsSo, Says, RouterAborts
<1>5. FailsCleanly'
  BY DEF JoinTypeOK, SocketInStep, FailsCleanly, RouterAborts
<1> QED
  BY <1>1, <1>2, <1>3, <1>4, <1>5

LEMMA LinkLostKeeps == JoinInv /\ LinkLost => JoinInv'
<1> SUFFICES ASSUME JoinInv, LinkLost PROVE JoinInv'
  OBVIOUS
<1> USE LossesAssumption DEF JoinInv, Steps, Frames, client, remote
<1>1. JoinTypeOK'
  BY DEF JoinTypeOK, HandshakeFirst, SocketInStep, LinkLost
<1>2. SocketInStep'
  BY DEF JoinTypeOK, SocketInStep, LinkLost
<1>3. HandshakeFirst'
  BY DEF JoinTypeOK, SocketInStep, HandshakeFirst, LinkLost
<1>4. SaidIsSo'
  BY DEF JoinTypeOK, SocketInStep, HandshakeFirst, SaidIsSo, Says, LinkLost
<1>5. FailsCleanly'
  BY DEF JoinTypeOK, SocketInStep, FailsCleanly, LinkLost
<1> QED
  BY <1>1, <1>2, <1>3, <1>4, <1>5

LEMMA CreateKeeps == ASSUME NEW url \in Urls, JoinInv, Create(url) PROVE JoinInv'
<1> USE DEF JoinInv, Steps, Frames, remote
<1>1. address'.transport \in {"tcp", "unix", "none"}
  BY DEF Create, create_transport
<1>2. JoinTypeOK'
  BY <1>1 DEF JoinTypeOK, Create, Moves
<1>3. SocketInStep'
  BY DEF JoinTypeOK, SocketInStep, HandshakeFirst, Create, Moves
<1>4. HandshakeFirst'
  BY DEF HandshakeFirst, Create, Moves
<1>5. SaidIsSo'
  BY DEF SaidIsSo, Says, Create, Moves
<1>6. FailsCleanly'
  BY DEF FailsCleanly, Create, Moves
<1> QED
  BY <1>2, <1>3, <1>4, <1>5, <1>6

LEMMA JoinInitially == Init => JoinInv /\ CallsAfterJoin
<1> SUFFICES ASSUME Init PROVE JoinInv /\ CallsAfterJoin
  OBVIOUS
<1> USE DEF Init, JoinInit
<1>1. JoinTypeOK
  <2>1. <<>> \in Seq(Frames \cup {"ACCEPTED", "REFUSED"})
    OBVIOUS
  <2>2. <<>> \in Seq({"REQUEST", "HELLO", "AUTHENTICATE"})
    OBVIOUS
  <2> QED
    BY <2>1, <2>2 DEF JoinTypeOK, Steps
<1>2. SocketInStep /\ HandshakeFirst /\ SaidIsSo /\ FailsCleanly /\ CallsAfterJoin
  BY DEF SocketInStep, HandshakeFirst, SaidIsSo, Says, FailsCleanly, CallsAfterJoin
<1> QED
  BY <1>1, <1>2 DEF JoinInv

LEMMA ConnectKeepsAll == JoinInv /\ ConnectNext => JoinInv'
BY CreateKeeps, ConnectKeeps, SendRequestKeeps, ReadResponseKeeps, ResponseFailsKeeps,
   SendHelloKeeps, ReadFrameKeeps, ReadRestKeeps, ReadFailsKeeps, ReceiveKeeps,
   SendAuthenticateKeeps, ConstructKeeps, UnwindKeeps, RouterAnswersKeeps, RouterAbortsKeeps,
   LinkLostKeeps
   DEF ConnectNext, JoinStep

(* A joined client stays joined.                                           *)
LEMMA JoinedStays == ConnectNext /\ step = "joined" => step' = "joined"
BY DEF ConnectNext, JoinStep, Create, Connect, SendRequest, ReadResponse, ResponseFails, SendHello,
       ReadFrame, ReadRest, ReadFails, Receive, SendAuthenticate, Construct, Unwind, Moves,
       RouterAnswers, RouterAborts, LinkLost, client

LEMMA ApplicationKeeps ==
  JoinInv /\ CallsAfterJoin /\ ApplicationStep => JoinInv' /\ CallsAfterJoin'
<1> SUFFICES ASSUME JoinInv, CallsAfterJoin, ApplicationStep PROVE JoinInv' /\ CallsAfterJoin'
  OBVIOUS
<1>1. step = "joined" /\ step' = step
  BY DEF ApplicationStep, Call, Read, CallsAfterJoin, joinVars, client
<1>2. process' \in {"up", "terminated"}
  BY DEF ApplicationStep, Call, Read, joinVars, client, JoinInv, JoinTypeOK
<1>3. UNCHANGED <<uri, address, socket, bytes, details, spoilt, remote>>
  BY DEF ApplicationStep, Call, Read, joinVars, client
<1> QED
  BY <1>1, <1>2, <1>3 DEF JoinInv, JoinTypeOK, SocketInStep, HandshakeFirst, SaidIsSo, Says,
     FailsCleanly, CallsAfterJoin, remote

LEMMA ClientInvariant == Spec => [](JoinInv /\ CallsAfterJoin)
<1>1. JoinInv /\ CallsAfterJoin /\ [Next]_vars => (JoinInv /\ CallsAfterJoin)'
  <2> SUFFICES ASSUME JoinInv, CallsAfterJoin, [Next]_vars PROVE (JoinInv /\ CallsAfterJoin)'
    OBVIOUS
  <2>1. CASE ConnectNext /\ UNCHANGED callVars
    BY <2>1, ConnectKeepsAll, JoinedStays DEF CallsAfterJoin, callVars
  <2>2. CASE ApplicationStep
    BY <2>2, ApplicationKeeps
  <2>3. CASE UNCHANGED vars
    BY <2>3 DEF vars, joinVars, callVars, client, remote, JoinInv, JoinTypeOK, SocketInStep,
       HandshakeFirst, SaidIsSo, Says, FailsCleanly, CallsAfterJoin
  <2> QED
    BY <2>1, <2>2, <2>3 DEF Next, ConnectNext
<1> QED
  BY JoinInitially, <1>1, PTL DEF Spec

-----------------------------------------------------------------------------
(* The URL.  The least number, from what is proved of depths: a number is  *)
(* its own.                                                                *)
Itself(n) == n
Nothing(g, n) == n
Numbers == INSTANCE RecursionProofs WITH S <- Nat, Depth <- Itself, Def <- Nothing

(* The words and the two characters of a URL.                              *)
Letters == STRING \cup {":", "/"}
Chars == Seq(Letters)

(* What stands where in a text that is put together.                       *)
LEMMA Concatenated ==
  ASSUME NEW s \in Chars, NEW t \in Chars
  PROVE  /\ s \o t \in Chars /\ Len(s \o t) = Len(s) + Len(t)
         /\ Len(s) \in Nat /\ Len(t) \in Nat
         /\ \A i \in 1..Len(s) : (s \o t)[i] = s[i]
         /\ \A i \in 1..Len(t) : (s \o t)[Len(s) + i] = t[i]
<1>1. Len(s) \in Nat /\ Len(t) \in Nat
  BY DEF Chars
<1>2. /\ s \o t \in Chars /\ Len(s \o t) = Len(s) + Len(t)
      /\ \A i \in 1..Len(s) + Len(t) : (s \o t)[i] = IF i <= Len(s) THEN s[i] ELSE t[i - Len(s)]
  BY ConcatProperties DEF Chars
<1>3. ASSUME NEW i \in 1..Len(t)
      PROVE  (s \o t)[Len(s) + i] = t[i]
  <2>1. Len(s) + i \in 1..Len(s) + Len(t) /\ ~ (Len(s) + i <= Len(s)) /\ (Len(s) + i) - Len(s) = i
    BY <1>1
  <2> QED
    BY <1>2, <2>1
<1>4. ASSUME NEW i \in 1..Len(s)
      PROVE  (s \o t)[i] = s[i]
  <2>1. i \in 1..Len(s) + Len(t) /\ i <= Len(s)
    BY <1>1
  <2> QED
    BY <1>2, <2>1
<1> QED
  BY <1>1, <1>2, <1>3, <1>4

LEMMA Associative ==
  ASSUME NEW s \in Chars, NEW t \in Chars, NEW u \in Chars
  PROVE  (s \o t) \o u = s \o (t \o u)
<1>1. s \in Seq(Letters) /\ t \in Seq(Letters) /\ u \in Seq(Letters)
  BY DEF Chars
<1> QED
  BY <1>1, ConcatAssociative

(* Find finds the first.                                                   *)
LEMMA FindIs ==
  ASSUME NEW s \in Chars, NEW c
  PROVE  /\ Find(s, c) \in 1..Len(s) + 1
         /\ Find(s, c) <= Len(s) => s[Find(s, c)] = c
         /\ \A j \in 1..Find(s, c) - 1 : s[j] # c
<1> DEFINE Hit(i) == i <= Len(s) => s[i] = c
           T == {i \in 1..Len(s) + 1 : Hit(i)}
<1>1. Len(s) \in Nat /\ Len(s) + 1 \in T
  BY DEF Chars
<1>2. PICK i \in T : \A j \in T : i <= j
  <2>1. T \subseteq Nat /\ T # {}
    BY <1>1
  <2> HIDE DEF T
  <2> QED
    BY <2>1, Numbers!LeastNumber
<1>3. i \in 1..Len(s) + 1 /\ Hit(i)
  OBVIOUS
<1>4. ASSUME NEW j \in 1..i - 1
      PROVE  s[j] # c
  <2>1. j \in 1..Len(s) + 1 /\ ~ (i <= j)
    BY <1>1, <1>3
  <2>2. ~ Hit(j)
    BY <1>2, <2>1
  <2> QED
    BY <2>2
<1> QED
  BY <1>3, <1>4 DEF Find

LEMMA FoundAt ==
  ASSUME NEW s \in Chars, NEW c, NEW i \in 1..Len(s) + 1,
         i <= Len(s) => s[i] = c, \A j \in 1..i - 1 : s[j] # c
  PROVE  Find(s, c) = i
<1> DEFINE f == Find(s, c)
<1>1. /\ f \in 1..Len(s) + 1
      /\ f <= Len(s) => s[f] = c
      /\ \A j \in 1..f - 1 : s[j] # c
      /\ Len(s) \in Nat
  BY FindIs DEF Chars
<1> HIDE DEF f
<1>2. ~ (f < i)
  BY <1>1
<1>3. ~ (i < f)
  BY <1>1
<1> QED
  BY <1>1, <1>2, <1>3 DEF f

(* Host and port, with and without port and path.                          *)
LEMMA WithoutPort ==
  ASSUME NEW scheme, NEW host \in Chars, NEW path \in Chars,
         \A i \in DOMAIN host : host[i] \notin {":", "/"}, path # <<>> => path[1] = "/"
  PROVE  HostAndPort(scheme, host \o path) = [scheme |-> scheme, host |-> host, port |-> <<>>]
<1> DEFINE s == host \o path
           n == Len(host) + 1
<1>1. /\ s \in Chars /\ Len(s) = Len(host) + Len(path) /\ Len(host) \in Nat /\ Len(path) \in Nat
      /\ DOMAIN host = 1..Len(host)
      /\ \A i \in 1..Len(host) : s[i] = host[i]
      /\ \A i \in 1..Len(path) : s[Len(host) + i] = path[i]
  BY DEF Chars
<1> HIDE DEF s
<1>2. Find(s, "/") = n
  <2>1. n \in 1..Len(s) + 1
    BY <1>1
  <2>2. n <= Len(s) => s[n] = "/"
    <3>1. SUFFICES ASSUME n <= Len(s) PROVE s[n] = "/"
      OBVIOUS
    <3>2. 1 \in 1..Len(path) /\ path # <<>>
      BY <1>1, <3>1
    <3> QED
      BY <1>1, <3>2
  <2>3. \A j \in 1..n - 1 : s[j] # "/"
    BY <1>1
  <2> HIDE DEF n
  <2> QED
    BY <1>1, <2>1, <2>2, <2>3, FoundAt
<1>3. ~ (Find(s, ":") < n)
  <2>1. /\ Find(s, ":") \in 1..Len(s) + 1
        /\ Find(s, ":") <= Len(s) => s[Find(s, ":")] = ":"
    BY <1>1, FindIs
  <2>2. \A j \in 1..Len(host) : s[j] # ":" /\ j <= Len(s)
    BY <1>1
  <2> QED
    BY <1>1, <2>1, <2>2
<1>4. Before(s, n) = host
  <2>1. Before(s, n) = SubSeq(s, 1, Len(host))
    BY <1>1 DEF Before
  <2>2. /\ SubSeq(s, 1, Len(host)) \in Chars /\ Len(SubSeq(s, 1, Len(host))) = Len(host)
        /\ \A i \in 1..Len(host) : SubSeq(s, 1, Len(host))[i] = s[i]
    BY <1>1 DEF Chars
  <2> QED
    BY <1>1, <2>1, <2>2, SeqEqual DEF Chars
<1>5. After(host, n) = <<>>
  <2>1. After(host, n) = SubSeq(host, n + 1, Len(host)) /\ n + 1 > Len(host)
    BY <1>1 DEF After
  <2> QED
    BY <1>1, <2>1 DEF Chars
<1> QED
  BY <1>2, <1>3, <1>4, <1>5 DEF HostAndPort, s

LEMMA WithPort ==
  ASSUME NEW scheme, NEW host \in Chars, NEW port \in Chars, NEW path \in Chars,
         \A i \in DOMAIN host : host[i] \notin {":", "/"},
         \A i \in DOMAIN port : port[i] \notin {":", "/"}, path # <<>> => path[1] = "/"
  PROVE  HostAndPort(scheme, host \o (<<":">> \o port) \o path)
           = [scheme |-> scheme, host |-> host, port |-> port]
<1> DEFINE s == host \o (<<":">> \o port) \o path
           h == Len(host)
           p == Len(port)
<1>1. /\ h \in Nat /\ p \in Nat /\ Len(path) \in Nat
      /\ DOMAIN host = 1..h /\ DOMAIN port = 1..p
  BY DEF Chars
<1>2. /\ s \in Chars /\ Len(s) = h + 1 + p + Len(path)
      /\ \A i \in 1..h : s[i] = host[i]
      /\ s[h + 1] = ":"
      /\ \A i \in 1..p : s[h + 1 + i] = port[i]
      /\ \A i \in 1..Len(path) : s[h + 1 + p + i] = path[i]
  <2> DEFINE a == <<":">> \o port
             b == host \o a
  <2>1. a \in Chars /\ Len(a) = 1 + p /\ a[1] = ":" /\ \A i \in 1..p : a[1 + i] = port[i]
    <3> DEFINE c == <<":">>
    <3>1. c \in Chars /\ Len(c) = 1 /\ c[1] = ":"
      <4>1. ":" \in Letters
        BY DEF Letters
      <4>2. c \in Seq(Letters)
        BY <4>1
      <4> QED
        BY <4>2 DEF Chars
    <3> HIDE DEF c
    <3>2. /\ c \o port \in Chars /\ Len(c \o port) = Len(c) + Len(port)
          /\ \A i \in 1..Len(c) : (c \o port)[i] = c[i]
          /\ \A i \in 1..Len(port) : (c \o port)[Len(c) + i] = port[i]
      BY <3>1, Concatenated
    <3>3. a = c \o port
      BY DEF c
    <3>4. 1 \in 1..Len(c)
      BY <3>1
    <3> QED
      BY <3>1, <3>2, <3>3, <3>4
  <2> HIDE DEF a
  <2>2. /\ b \in Chars /\ Len(b) = h + (1 + p)
        /\ \A i \in 1..h : b[i] = host[i]
        /\ \A i \in 1..(1 + p) : b[h + i] = a[i]
    <3>1. /\ host \o a \in Chars /\ Len(host \o a) = Len(host) + Len(a)
          /\ \A i \in 1..Len(host) : (host \o a)[i] = host[i]
          /\ \A i \in 1..Len(a) : (host \o a)[Len(host) + i] = a[i]
      BY <2>1, Concatenated
    <3> QED
      BY <2>1, <3>1
  <2>3. b[h + 1] = ":" /\ \A i \in 1..p : b[h + 1 + i] = port[i]
    <3>1. 1 \in 1..(1 + p) /\ b[h + 1] = a[1]
      BY <1>1, <2>2
    <3>2. ASSUME NEW i \in 1..p
          PROVE  b[h + 1 + i] = port[i]
      <4>1. 1 + i \in 1..(1 + p) /\ h + (1 + i) = h + 1 + i
        BY <1>1
      <4>2. b[h + (1 + i)] = a[1 + i] /\ a[1 + i] = port[i]
        BY <2>1, <2>2, <4>1
      <4> QED
        BY <4>1, <4>2
    <3> QED
      BY <2>1, <3>1, <3>2
  <2> HIDE DEF b
  <2>4. /\ b \o path \in Chars /\ Len(b \o path) = Len(b) + Len(path)
        /\ \A i \in 1..Len(b) : (b \o path)[i] = b[i]
        /\ \A i \in 1..Len(path) : (b \o path)[Len(b) + i] = path[i]
    BY <2>2, Concatenated
  <2>5. s = b \o path
    BY DEF a, b
  <2>6. ASSUME NEW i \in 1..p
        PROVE  s[h + 1 + i] = port[i]
    <3>1. h + 1 + i \in 1..Len(b)
      BY <1>1, <2>2
    <3> QED
      BY <2>3, <2>4, <2>5, <3>1
  <2>7. ASSUME NEW i \in 1..Len(path)
        PROVE  s[h + 1 + p + i] = path[i]
    <3>1. h + 1 + p + i = Len(b) + i
      BY <1>1, <2>2
    <3> QED
      BY <2>4, <2>5, <3>1
  <2>8. Len(s) = h + 1 + p + Len(path) /\ h + 1 \in 1..Len(b) /\ \A i \in 1..h : i \in 1..Len(b)
    BY <1>1, <2>2, <2>4, <2>5
  <2> HIDE DEF s
  <2> QED
    BY <2>2, <2>3, <2>4, <2>5, <2>6, <2>7, <2>8
<1> HIDE DEF s, h, p
<1>3. Find(s, ":") = h + 1
  <2>1. h + 1 \in 1..Len(s) + 1 /\ \A j \in 1..(h + 1) - 1 : s[j] # ":"
    BY <1>1, <1>2
  <2> QED
    BY <1>1, <1>2, <2>1, FoundAt
<1> DEFINE n == h + 1 + p + 1
<1>4. Find(s, "/") = n
  <2>1. n \in 1..Len(s) + 1
    BY <1>1, <1>2
  <2>2. n <= Len(s) => s[n] = "/"
    <3>1. SUFFICES ASSUME n <= Len(s) PROVE s[n] = "/"
      OBVIOUS
    <3>2. 1 \in 1..Len(path) /\ path # <<>>
      BY <1>1, <1>2, <3>1
    <3> QED
      BY <1>1, <1>2, <3>2
  <2>3. ASSUME NEW j \in 1..n - 1
        PROVE  s[j] # "/"
    <3>1. CASE j \in 1..h
      BY <1>1, <1>2, <3>1
    <3>2. CASE j = h + 1
      BY <1>2, <3>2
    <3>3. CASE j > h + 1
      <4>1. j - (h + 1) \in 1..p /\ h + 1 + (j - (h + 1)) = j
        BY <1>1, <3>3
      <4>2. s[j] = port[j - (h + 1)]
        BY <1>2, <4>1
      <4> QED
        BY <1>1, <4>1, <4>2
    <3> QED
      BY <1>1, <3>1, <3>2, <3>3
  <2> HIDE DEF n
  <2> QED
    BY <1>1, <1>2, <2>1, <2>2, <2>3, FoundAt
<1>5. Before(s, h + 1) = host
  <2>1. Before(s, h + 1) = SubSeq(s, 1, h)
    BY <1>1 DEF Before
  <2> DEFINE t == SubSeq(s, 1, h)
  <2>2. t \in Chars /\ Len(t) = h /\ \A i \in 1..h : t[i] = s[i]
    BY <1>1, <1>2 DEF Chars
  <2> HIDE DEF t
  <2>3. t \in Seq(Letters) /\ host \in Seq(Letters) /\ Len(t) = Len(host)
        /\ \A i \in 1..Len(t) : t[i] = host[i]
    BY <1>2, <2>2 DEF Chars, h
  <2>4. t = host
    BY <2>3, SeqEqual
  <2> QED
    BY <2>1, <2>4 DEF t
<1>6. After(Before(s, n), h + 1) = port
  <2> DEFINE t == Before(s, n)
             q == SubSeq(t, h + 2, h + 1 + p)
  <2>1. /\ t \in Chars /\ Len(t) = h + 1 + p
        /\ \A i \in 1..(h + 1 + p) : t[i] = s[i]
    <3>1. t = SubSeq(s, 1, h + 1 + p)
      BY <1>1 DEF Before
    <3> HIDE DEF t
    <3> QED
      BY <1>1, <1>2, <3>1 DEF Chars
  <2> HIDE DEF t
  <2>2. After(t, h + 1) = q
    BY <1>1, <2>1 DEF After
  <2>3. q \in Chars /\ Len(q) = p
    BY <1>1, <2>1 DEF Chars
  <2>4. ASSUME NEW i \in 1..p
        PROVE  q[i] = port[i]
    <3>1. q[i] = t[h + 2 + i - 1]
      BY <1>1, <2>1 DEF Chars
    <3>2. h + 2 + i - 1 = h + 1 + i /\ h + 1 + i \in 1..(h + 1 + p)
      BY <1>1
    <3> QED
      BY <1>2, <2>1, <3>1, <3>2
  <2> HIDE DEF q
  <2>5. q = port
    BY <1>1, <2>3, <2>4, SeqEqual DEF Chars, p
  <2> QED
    BY <2>2, <2>5 DEF t
<1>7. h + 1 < n
  BY <1>1
<1> QED
  BY <1>3, <1>4, <1>5, <1>6, <1>7 DEF HostAndPort, s

(* Three characters of a text.                                             *)
LEMMA ThreeOf ==
  ASSUME NEW s \in Chars, NEW i \in 1..Len(s) - 2
  PROVE  SubSeq(s, i, i + 2) = <<s[i], s[i + 1], s[i + 2]>>
<1> DEFINE t == SubSeq(s, i, i + 2)
           w == <<s[i], s[i + 1], s[i + 2]>>
<1>1. i \in Nat /\ Len(s) \in Nat /\ {i, i + 1, i + 2} \subseteq 1..Len(s)
  BY DEF Chars
<1>2. t \in Seq(Letters) /\ Len(t) = 3 /\ t[1] = s[i] /\ t[2] = s[i + 1] /\ t[3] = s[i + 2]
  BY <1>1 DEF Chars
<1>3. s[i] \in Letters /\ s[i + 1] \in Letters /\ s[i + 2] \in Letters
  BY <1>1 DEF Chars
<1>4. w \in Seq(Letters) /\ Len(w) = 3 /\ w[1] = s[i] /\ w[2] = s[i + 1] /\ w[3] = s[i + 2]
  BY <1>3
<1> HIDE DEF t, w
<1>5. \A j \in 1..Len(t) : t[j] = w[j]
  <2>1. \A j \in 1..3 : j = 1 \/ j = 2 \/ j = 3
    OBVIOUS
  <2> QED
    BY <1>2, <1>4, <2>1
<1>6. t = w
  BY <1>2, <1>4, <1>5, SeqEqual
<1> QED
  BY <1>6 DEF t, w

(* The scheme ends where "://" is first.                                   *)
LEMMA SchemeEndIs ==
  ASSUME NEW url \in Chars, SchemeEnds(url) # {}
  PROVE  LET end == CHOOSE i \in SchemeEnds(url) : \A j \in SchemeEnds(url) : i <= j
         IN  end \in SchemeEnds(url) /\ \A j \in SchemeEnds(url) : end <= j
<1>1. SchemeEnds(url) \subseteq Nat
  BY DEF SchemeEnds, Chars
<1>2. \E i \in SchemeEnds(url) : \A j \in SchemeEnds(url) : i <= j
  BY <1>1, Numbers!LeastNumber
<1> QED
  BY <1>2

(* What a URL says is what the parser finds in it.                         *)
LEMMA ParseText ==
  ASSUME NEW u \in WellFormed
  PROVE  /\ Text(u) \in Chars
         /\ parse_url(Text(u)) = [scheme |-> <<u.scheme>>, host |-> u.host, port |-> u.port]
<1> DEFINE w == <<u.scheme, ":", "/", "/">>
           pp == IF u.port = <<>> THEN <<>> ELSE <<":">> \o u.port
           rest == u.host \o pp \o u.path
           url == Text(u)
<1>1. /\ u.scheme \in Letters /\ u.scheme # ":"
      /\ u.host \in Chars /\ u.port \in Chars /\ u.path \in Chars
  BY WellFormedAssumption, SeqMonotonic DEF Letters, Chars
<1>2. /\ w \in Chars /\ Len(w) = 4
      /\ w[1] = u.scheme /\ w[2] = ":" /\ w[3] = "/" /\ w[4] = "/"
  <2>1. {":", "/"} \subseteq Letters
    BY DEF Letters
  <2> QED
    BY <1>1, <2>1 DEF Chars
<1>3. pp \in Chars
  <2>1. <<":">> \in Chars /\ <<>> \in Chars
    BY DEF Letters, Chars
  <2> QED
    BY <1>1, <2>1, Concatenated
<1>4. rest \in Chars /\ url = w \o rest
  <2> HIDE DEF w, pp
  <2>1. /\ u.host \o pp \in Chars
        /\ (u.host \o pp) \o u.path \in Chars
    BY <1>1, <1>3, Concatenated
  <2>2. url = ((w \o u.host) \o pp) \o u.path
    BY DEF Text, w, pp
  <2>3. (w \o u.host) \o pp = w \o (u.host \o pp)
    BY <1>1, <1>2, <1>3, Associative
  <2>4. (w \o (u.host \o pp)) \o u.path = w \o ((u.host \o pp) \o u.path)
    BY <1>1, <1>2, <2>1, Associative
  <2> QED
    BY <2>1, <2>2, <2>3, <2>4
<1> HIDE DEF rest, url, w
<1>5. /\ url \in Chars /\ Len(url) = 4 + Len(rest) /\ Len(rest) \in Nat
      /\ url[1] = u.scheme /\ url[2] = ":" /\ url[3] = "/" /\ url[4] = "/"
      /\ \A i \in 1..Len(rest) : url[4 + i] = rest[i]
  <2>1. /\ w \o rest \in Chars /\ Len(w \o rest) = Len(w) + Len(rest) /\ Len(rest) \in Nat
        /\ \A i \in 1..Len(w) : (w \o rest)[i] = w[i]
        /\ \A i \in 1..Len(rest) : (w \o rest)[Len(w) + i] = rest[i]
    BY <1>2, <1>4, Concatenated
  <2>2. {1, 2, 3, 4} \subseteq 1..Len(w)
    BY <1>2
  <2> QED
    BY <1>2, <1>4, <2>1, <2>2
<1> DEFINE end == CHOOSE i \in SchemeEnds(url) : \A j \in SchemeEnds(url) : i <= j
<1>6. 2 \in SchemeEnds(url) /\ \A j \in SchemeEnds(url) : 2 <= j
  <2>1. 2 \in 1..Len(url) - 2 /\ 2 + 1 = 3 /\ 2 + 2 = 4
    BY <1>5
  <2>2. SubSeq(url, 2, 4) = <<":", "/", "/">>
    BY <1>5, <2>1, ThreeOf
  <2>3. 1 \notin SchemeEnds(url)
    <3>1. SUFFICES ASSUME 1 \in SchemeEnds(url) PROVE FALSE
      OBVIOUS
    <3>2. 1 \in 1..Len(url) - 2 /\ SubSeq(url, 1, 1 + 2) = <<":", "/", "/">>
      BY <3>1 DEF SchemeEnds
    <3>3. SubSeq(url, 1, 1 + 2) = <<url[1], url[1 + 1], url[1 + 2]>>
      BY <1>5, <3>2, ThreeOf
    <3>4. url[1] = ":"
      BY <3>2, <3>3
    <3> QED
      BY <1>1, <1>5, <3>4
  <2>4. 2 \in SchemeEnds(url)
    BY <2>1, <2>2 DEF SchemeEnds
  <2>5. \A j \in SchemeEnds(url) : j \in Nat /\ j >= 1
    BY <1>5 DEF SchemeEnds
  <2> QED
    BY <2>3, <2>4, <2>5
<1>7. end = 2 /\ SchemeEnds(url) # {}
  <2>1. end \in SchemeEnds(url) /\ \A j \in SchemeEnds(url) : end <= j
    BY <1>5, <1>6, SchemeEndIs
  <2>2. end \in Nat
    BY <1>5, <2>1 DEF SchemeEnds
  <2> HIDE DEF end
  <2> QED
    BY <1>6, <2>1, <2>2
<1> HIDE DEF end
<1>8. Before(url, 2) = <<u.scheme>>
  <2> DEFINE t == SubSeq(url, 1, 1)
             x == <<u.scheme>>
  <2>1. t \in Seq(Letters) /\ Len(t) = 1 /\ t[1] = u.scheme
    BY <1>5 DEF Chars
  <2>2. x \in Seq(Letters) /\ Len(x) = 1 /\ x[1] = u.scheme
    BY <1>1
  <2> HIDE DEF t, x
  <2>3. t = x
    BY <2>1, <2>2, SeqEqual
  <2> QED
    BY <2>3 DEF Before, t, x
<1>9. SubSeq(url, 2 + 3, Len(url)) = rest
  <2> DEFINE t == SubSeq(url, 5, Len(url))
  <2>1. t \in Seq(Letters) /\ Len(t) = Len(rest)
    BY <1>5 DEF Chars
  <2>2. ASSUME NEW i \in 1..Len(t)
        PROVE  t[i] = rest[i]
    <3>1. t[i] = url[5 + i - 1] /\ 5 + i - 1 = 4 + i
      BY <1>5, <2>1 DEF Chars
    <3> QED
      BY <1>5, <2>1, <3>1
  <2> HIDE DEF t
  <2>3. t = rest
    BY <1>4, <2>1, <2>2, SeqEqual DEF Chars
  <2> QED
    BY <2>3 DEF t
<1>10. parse_url(url) = IF u.scheme \in UnixWords
                        THEN [scheme |-> <<u.scheme>>, host |-> rest, port |-> <<>>]
                        ELSE HostAndPort(<<u.scheme>>, rest)
  <2>1. <<u.scheme>> # <<>> /\ Head(<<u.scheme>>) = u.scheme
    BY <1>1
  <2>2. parse_url(url) =
          IF Before(url, end) # <<>> /\ Head(Before(url, end)) \in UnixWords
          THEN [NoParts EXCEPT !.scheme = Before(url, end), !.host = SubSeq(url, end + 3, Len(url))]
          ELSE HostAndPort(Before(url, end), SubSeq(url, end + 3, Len(url)))
    BY <1>7 DEF parse_url, end
  <2>3. parse_url(url) =
          IF u.scheme \in UnixWords
          THEN [NoParts EXCEPT !.scheme = <<u.scheme>>, !.host = rest]
          ELSE HostAndPort(<<u.scheme>>, rest)
    BY <1>7, <1>8, <1>9, <2>1, <2>2
  <2>4. \A x, y : [NoParts EXCEPT !.scheme = x, !.host = y] = [scheme |-> x, host |-> y, port |-> <<>>]
    <3>1. SUFFICES ASSUME NEW x, NEW y
                   PROVE  [NoParts EXCEPT !.scheme = x, !.host = y]
                            = [scheme |-> x, host |-> y, port |-> <<>>]
      OBVIOUS
    <3> DEFINE r == [NoParts EXCEPT !.scheme = x]
    <3>2. r = [scheme |-> x, host |-> <<>>, port |-> <<>>]
      BY DEF NoParts
    <3> HIDE DEF r
    <3>3. [r EXCEPT !.host = y] = [scheme |-> x, host |-> y, port |-> <<>>]
      BY <3>2
    <3> QED
      BY <3>3 DEF r
  <2> QED
    BY <2>3, <2>4
<1>11. CASE u.scheme \in UnixWords
  <2>1. u.port = <<>> /\ u.path = <<>>
    BY <1>11, WellFormedAssumption
  <2>2. rest = u.host
    BY <1>1, <2>1, ConcatEmptySeq DEF rest, Chars
  <2> QED
    BY <1>5, <1>10, <1>11, <2>1, <2>2 DEF url
<1>12. CASE u.scheme \notin UnixWords
  <2>1. /\ \A i \in DOMAIN u.host : u.host[i] \notin {":", "/"}
        /\ \A i \in DOMAIN u.port : u.port[i] \notin {":", "/"}
        /\ u.path # <<>> => u.path[1] = "/"
    BY <1>12, WellFormedAssumption
  <2>2. CASE u.port = <<>>
    <3>1. rest = u.host \o u.path
      BY <1>1, <2>2, ConcatEmptySeq DEF rest, Chars
    <3>2. HostAndPort(<<u.scheme>>, rest) = [scheme |-> <<u.scheme>>, host |-> u.host, port |-> <<>>]
      BY <1>1, <2>1, <3>1, WithoutPort
    <3> QED
      BY <1>5, <1>10, <1>12, <2>2, <3>2 DEF url
  <2>3. CASE u.port # <<>>
    <3>1. rest = u.host \o (<<":">> \o u.port) \o u.path
      BY <2>3 DEF rest
    <3>2. HostAndPort(<<u.scheme>>, rest) = [scheme |-> <<u.scheme>>, host |-> u.host, port |-> u.port]
      BY <1>1, <2>1, <3>1, WithPort
    <3> QED
      BY <1>5, <1>10, <1>12, <3>2 DEF url
  <2> QED
    BY <2>2, <2>3
<1> QED
  BY <1>11, <1>12

(* A scheme that has a transport is one of these.                          *)
LEMMA ParseMalformed ==
  ASSUME NEW url \in Malformed
  PROVE  create_transport(parse_url(url).scheme) = "none"
<1>1. url \in Chars
  BY MalformedAssumption, SeqMonotonic DEF Letters, Chars
<1>2. CASE SchemeEnds(url) = {}
  <2>1. parse_url(url).scheme = <<>>
    BY <1>2 DEF parse_url, NoParts
  <2>2. \A word : <<>> # <<word>>
    OBVIOUS
  <2> QED
    BY <2>1, <2>2 DEF create_transport
<1>3. CASE SchemeEnds(url) # {}
  <2> DEFINE end == CHOOSE i \in SchemeEnds(url) : \A j \in SchemeEnds(url) : i <= j
             t == Before(url, end)
  <2>1. parse_url(url).scheme = t
    BY <1>3 DEF parse_url, HostAndPort, NoParts
  <2>2. end \in SchemeEnds(url)
    BY <1>1, <1>3, SchemeEndIs
  <2> HIDE DEF end
  <2>3. /\ Len(url) \in Nat /\ end \in 1..Len(url) - 2
        /\ <<url[end], url[end + 1], url[end + 2]>> = <<":", "/", "/">>
    BY <1>1, <2>2, ThreeOf DEF SchemeEnds, Chars
  <2>4. ASSUME NEW word \in {"tcp", "rs", "unix", "unix+rs"}, t = <<word>>
        PROVE  FALSE
    <3>1. Len(t) = end - 1 /\ \A i \in 1..end - 1 : t[i] = url[i]
      BY <1>1, <2>3 DEF Before, Chars
    <3> HIDE DEF t
    <3>2. Len(t) = 1 /\ t[1] = word
      BY <2>4
    <3>3. end = 2 /\ url[1] = word
      <4>1. end = 2
        <5>1. end \in Int
          BY <2>3
        <5>2. 1 = end - 1
          BY <3>1, <3>2
        <5> QED
          BY <5>1, <5>2
      <4>2. 1 \in 1..end - 1
        BY <4>1
      <4> QED
        BY <3>1, <3>2, <4>1, <4>2
    <3>4. url[2] = ":" /\ url[3] = "/" /\ url[4] = "/" /\ Len(url) >= 4
      BY <2>3, <3>3
    <3>5. SubSeq(url, 1, 4) = <<word, ":", "/", "/">>
      <4> DEFINE q == SubSeq(url, 1, 4)
                 x == <<word, ":", "/", "/">>
      <4>1. q \in Seq(Letters) /\ Len(q) = 4 /\ \A i \in 1..4 : q[i] = url[i]
        BY <1>1, <2>3, <3>4 DEF Chars
      <4>2. word \in Letters /\ ":" \in Letters /\ "/" \in Letters
        <5>1. 1 \in 1..Len(url)
          BY <3>4
        <5> QED
          BY <1>1, <3>3, <5>1 DEF Chars, Letters
      <4>3. x \in Seq(Letters) /\ Len(x) = 4
            /\ x[1] = word /\ x[2] = ":" /\ x[3] = "/" /\ x[4] = "/"
        BY <4>2
      <4> HIDE DEF q, x
      <4>4. \A i \in 1..Len(q) : q[i] = x[i]
        <5>1. \A i \in 1..4 : i = 1 \/ i = 2 \/ i = 3 \/ i = 4
          OBVIOUS
        <5> QED
          BY <3>3, <3>4, <4>1, <4>3, <5>1
      <4>5. q = x
        BY <4>1, <4>3, <4>4, SeqEqual
      <4> QED
        BY <4>5 DEF q, x
    <3> QED
      BY <3>4, <3>5, MalformedAssumption
  <2> HIDE DEF t
  <2>5. create_transport(t) = "none"
    BY <2>4 DEF create_transport
  <2> QED
    BY <2>1, <2>5
<1> QED
  BY <1>2, <1>3

(* What connect() dials is settled once and for all by the parser; without *)
(* a transport nothing is dialled.                                         *)
AddressInv ==
  step # "create" =>
    /\ \A u \in WellFormed : uri = Text(u) => address =
         [transport |-> create_transport(<<u.scheme>>), host |-> u.host, port |-> u.port]
    /\ uri \in Malformed => address.transport = "none"
    /\ address.transport = "none" => step = "threw" /\ socket = "none"

LEMMA CreateDials == ASSUME NEW url \in Urls, Create(url) PROVE AddressInv'
<1> DEFINE parts == parse_url(url)
<1>1. /\ uri' = url
      /\ address' = [transport |-> create_transport(parts.scheme),
                     host |-> parts.host, port |-> parts.port]
      /\ create_transport(parts.scheme) = "none" => step' = "threw" /\ socket' = "none"
  BY DEF Create, Moves
<1> HIDE DEF parts
<1>2. ASSUME NEW u \in WellFormed, url = Text(u)
      PROVE  parts = [scheme |-> <<u.scheme>>, host |-> u.host, port |-> u.port]
  BY <1>2, ParseText DEF parts
<1>3. ASSUME NEW u \in WellFormed, url = Text(u)
      PROVE  address' = [transport |-> create_transport(<<u.scheme>>),
                         host |-> u.host, port |-> u.port]
  BY <1>1, <1>2, <1>3
<1>4. url \in Malformed => create_transport(parts.scheme) = "none"
  BY ParseMalformed DEF parts
<1> QED
  BY <1>1, <1>3, <1>4 DEF AddressInv

(* Only Create settles it, and a thread whose connect() threw stays there. *)
LEMMA OnlyCreateDials ==
  ASSUME JoinStep \/ RouterAnswers \/ RouterAborts \/ LinkLost
  PROVE  /\ UNCHANGED <<uri, address>>
         /\ step' = "create" <=> step = "create"
         /\ step = "threw" => step' = "threw" /\ socket' = socket
<1> USE DEF Moves, client
<1>1. CASE Connect \/ SendRequest \/ ReadResponse \/ ResponseFails \/ SendHello
  BY <1>1 DEF Connect, SendRequest, ReadResponse, ResponseFails, SendHello
<1>2. CASE ReadFrame \/ ReadRest \/ ReadFails \/ Receive \/ SendAuthenticate
  BY <1>2 DEF ReadFrame, ReadRest, ReadFails, Receive, SendAuthenticate
<1>3. CASE Construct \/ Unwind
  BY <1>3 DEF Construct, Unwind
<1>4. CASE RouterAnswers \/ RouterAborts \/ LinkLost
  BY <1>4 DEF RouterAnswers, RouterAborts, LinkLost
<1> QED
  BY <1>1, <1>2, <1>3, <1>4 DEF JoinStep

LEMMA AddressInvariant == Spec => []AddressInv
<1>1. Init => AddressInv
  BY DEF Init, JoinInit, AddressInv
<1>2. AddressInv /\ [Next]_vars => AddressInv'
  <2> SUFFICES ASSUME AddressInv, [Next]_vars PROVE AddressInv'
    OBVIOUS
  <2>1. CASE \E url \in Urls : Create(url)
    BY <2>1, CreateDials
  <2>2. CASE JoinStep \/ RouterAnswers \/ RouterAborts \/ LinkLost
    BY <2>2, OnlyCreateDials DEF AddressInv
  <2>3. CASE ApplicationStep \/ UNCHANGED vars
    <3>1. UNCHANGED <<uri, address, step, socket>>
      BY <2>3 DEF ApplicationStep, Call, Read, vars, joinVars, client
    <3> QED
      BY <3>1 DEF AddressInv
  <2> QED
    BY <2>1, <2>2, <2>3 DEF Next
<1> QED
  BY <1>1, <1>2, PTL DEF Spec

-----------------------------------------------------------------------------
(* What connect() hands over.  WELCOME is the last that the router says in *)
(* it, and leaves nothing behind that the session would stumble over; until*)
(* the application calls, the constructor that found its details has       *)
(* returned.                                                               *)
WelcomeLast ==
  /\ \A i \in DOMAIN inbox : inbox[i] = "WELCOME" => i = Len(inbox)
  /\ step = "receive" /\ bytes = "WELCOME" => inbox = <<>>
  /\ details => inbox = <<>>

ConstructedUp == step = "joined" /\ details /\ passed = NoValues => process = "up"

HandOverInv == WelcomeLast /\ ConstructedUp

(* The session that the constructor leaves: module Lifecycle's variables,  *)
(* those that connect() knows nothing of with what session.hpp gives them. *)
Handed == INSTANCE Lifecycle WITH
  Leavers <- {}, Transports <- {"tcp", "unix"}, InboxLimit <- 0,
  running <- TRUE, goodbye_sent <- FALSE, goodbye_promise <- FALSE,
  leaver <- [t \in {} |-> "idle"], recv <- "test", msg <- [type |-> "NONE"],
  dtor <- "alive", goodbyes <- 0, router_left <- FALSE, transport <- address.transport

(* Over a link that has not failed, a client that was welcomed starts where*)
(* module Lifecycle, and Session with it, does.                            *)
HandsOverFresh ==
  step = "joined" /\ details /\ link = "up" /\ passed = NoValues => Handed!LifecycleInit

LEMMA HandOverKeeps ==
  ASSUME JoinInv, HandOverInv, ConnectNext PROVE HandOverInv'
<1> USE DEF JoinInv, HandOverInv, WelcomeLast
<1>1. CASE (\E url \in Urls : Create(url)) \/ Connect \/ SendRequest \/ SendHello
           \/ ReadRest \/ ReadFails \/ SendAuthenticate \/ Unwind \/ ResponseFails
  <2>1. (inbox' = inbox \/ inbox' = <<>>) /\ details' = details
    BY <1>1 DEF Create, Connect, SendRequest, SendHello, ReadRest, ReadFails, SendAuthenticate,
       Unwind, ResponseFails, remote
  <2>2. step' # "joined" /\ (step' = "receive" => bytes' = "NOTHING")
    BY <1>1 DEF Create, Connect, SendRequest, SendHello, ReadRest, ReadFails, SendAuthenticate,
       Unwind, ResponseFails, Moves
  <2> QED
    BY <2>1, <2>2 DEF ConstructedUp
<1>2. CASE ReadResponse \/ ReadFrame
  <2>1. /\ inbox # <<>> /\ inbox' = Tail(inbox) /\ ~details /\ ~details'
        /\ step' # "joined" /\ (step' = "receive" => bytes' \in {"NOTHING", Head(inbox)})
    <3>1. ~details
      BY <1>2 DEF ReadResponse, ReadFrame, Moves, SaidIsSo
    <3>2. CASE ReadResponse
      BY <3>1, <3>2 DEF ReadResponse, Moves
    <3>3. CASE ReadFrame
      BY <3>1, <3>3 DEF ReadFrame, Moves
    <3> QED
      BY <1>2, <3>2, <3>3
  <2>2. inbox \in Seq(Frames \cup {"ACCEPTED", "REFUSED"})
    BY DEF JoinTypeOK
  <2>3. /\ Len(inbox') = Len(inbox) - 1 /\ Len(inbox) \in Nat \ {0}
        /\ \A i \in DOMAIN inbox' : i + 1 \in DOMAIN inbox /\ inbox'[i] = inbox[i + 1]
    BY <2>1, <2>2
  <2>4. Head(inbox) = "WELCOME" => inbox' = <<>>
    BY <2>1, <2>2, <2>3
  <2>5. \A i \in DOMAIN inbox' : inbox'[i] = "WELCOME" => i = Len(inbox')
    <3>1. SUFFICES ASSUME NEW i \in DOMAIN inbox', inbox'[i] = "WELCOME" PROVE i = Len(inbox')
      OBVIOUS
    <3>2. i + 1 = Len(inbox) /\ i \in Nat
      BY <2>1, <2>2, <2>3, <3>1
    <3> QED
      BY <2>3, <3>2
  <2> QED
    BY <2>1, <2>4, <2>5 DEF ConstructedUp
<1>3. CASE Receive \/ Construct
  BY <1>3 DEF Receive, Construct, Moves, remote, ConstructedUp, SaidIsSo, JoinTypeOK, Frames
<1>4. CASE RouterAnswers \/ RouterAborts
  <2>1. /\ router \notin {"welcomed", "aborted"} /\ UNCHANGED client
        /\ \E answer \in Frames \cup {"ACCEPTED", "REFUSED"} : inbox' = Append(inbox, answer)
    BY <1>4 DEF RouterAnswers, RouterAborts, Answers, Frames
  <2>2. ~details /\ \A i \in DOMAIN inbox : inbox[i] # "WELCOME"
    BY <2>1 DEF SaidIsSo, Says
  <2>3. ~ (step = "receive" /\ bytes = "WELCOME")
    BY <2>1 DEF SaidIsSo, Says
  <2>4. \A i \in DOMAIN inbox' : inbox'[i] = "WELCOME" => i = Len(inbox')
    BY <2>1, <2>2 DEF JoinTypeOK
  <2> QED
    BY <2>1, <2>2, <2>3, <2>4 DEF client, ConstructedUp
<1>5. CASE LinkLost
  BY <1>5 DEF LinkLost, client, ConstructedUp
<1> QED
  BY <1>1, <1>2, <1>3, <1>4, <1>5 DEF ConnectNext, JoinStep

LEMMA HandOverInvariant == Spec => []HandOverInv
<1>1. Init => HandOverInv
  BY DEF Init, JoinInit, HandOverInv, WelcomeLast, ConstructedUp
<1>2. JoinInv /\ HandOverInv /\ [Next]_vars => HandOverInv'
  <2> SUFFICES ASSUME JoinInv, HandOverInv, [Next]_vars PROVE HandOverInv'
    OBVIOUS
  <2>1. CASE ConnectNext /\ UNCHANGED callVars
    BY <2>1, HandOverKeeps
  <2>2. CASE ApplicationStep
    <3>1. /\ UNCHANGED <<step, bytes, details, inbox>>
          /\ passed' = NoValues => passed = NoValues /\ process' = process
      BY <2>2 DEF ApplicationStep, Call, Read, joinVars, client, remote
    <3> QED
      BY <3>1 DEF HandOverInv, WelcomeLast, ConstructedUp
  <2>3. CASE UNCHANGED vars
    BY <2>3 DEF vars, joinVars, callVars, client, remote, HandOverInv, WelcomeLast, ConstructedUp
  <2> QED
    BY <2>1, <2>2, <2>3 DEF Next, ConnectNext
<1> QED
  BY <1>1, <1>2, ClientInvariant, PTL DEF Spec

-----------------------------------------------------------------------------
(* Every variable of connect() has its type; no answer to the handshake is *)
(* ever given to the joiner as a frame.                                    *)
THEOREM JoinTypeCorrect == Spec => []JoinTypeOK
BY ClientInvariant, PTL DEF JoinInv

(* A session is handed out over an open connection, with the details of a  *)
(* WELCOME that was read whole; without them only an ABORT or a short read *)
(* can have come before: session_joiner.cpp:48, base_session.cpp:11.       *)
THEOREM WelcomedOrSpoilt == Spec => []DetailsMeanWelcome
<1>1. JoinInv => DetailsMeanWelcome
  BY DEF JoinInv, SocketInStep, SaidIsSo, DetailsMeanWelcome
<1> QED
  BY <1>1, ClientInvariant, PTL

(* An exception out of connect() leaves no open socket behind it, and ends *)
(* the process only from the close() of a TCP socket that never connected  *)
(* or was reset: tcp_transport.hpp:42-51, socket_transport.cpp:18.         *)
THEOREM ConnectFailsCleanly == Spec => []FailsCleanly
BY ClientInvariant, PTL DEF JoinInv

(* What is dialled is what the URL says, whatever stands in its parts, and *)
(* nothing is dialled for a scheme without a transport: url_parser.cpp:7,  *)
(* socket_transport.cpp, create_transport.                                 *)
THEOREM DialsWhatIsWritten == Spec => []AddressAsWritten
<1>1. AddressInv => AddressAsWritten
  BY DEF AddressInv, AddressAsWritten
<1> QED
  BY <1>1, AddressInvariant, PTL

(* A client that was welcomed hands its Session the state in which module  *)
(* Lifecycle starts: connected, an empty stream, a transport that exists;  *)
(* unless the link has failed behind the WELCOME: base_session.cpp:11.     *)
THEOREM HandsOver == Spec => []HandsOverFresh
<1>1. JoinInv /\ AddressInv /\ HandOverInv => HandsOverFresh
  <2> SUFFICES ASSUME JoinInv, AddressInv, HandOverInv,
                      step = "joined", details, link = "up", passed = NoValues
               PROVE  Handed!LifecycleInit
    BY DEF HandsOverFresh
  <2>1. socket = "open" /\ process = "up" /\ inbox = <<>>
    BY DEF JoinInv, SocketInStep, HandOverInv, WelcomeLast, ConstructedUp
  <2>2. address.transport \in {"tcp", "unix"}
    BY DEF JoinInv, JoinTypeOK, AddressInv
  <2> QED
    BY <2>1, <2>2 DEF Handed!LifecycleInit, Handed!NoMessage
<1> QED
  BY <1>1, ClientInvariant, AddressInvariant, HandOverInvariant, PTL

=============================================================================
