-------------------------- MODULE SocketTransport --------------------------
(***************************************************************************)
(* The bytes of one connection: SocketTransport::write, which puts a frame *)
(* on the socket under write_mutex_, and SocketTransport::read, which      *)
(* takes one from it with a single read_some for the header and a single   *)
(* one for the payload.  Any thread writes, the receive thread reads.      *)
(*                                                                         *)
(* A unit stands for the bytes one system call moves or leaves behind; a   *)
(* frame is FrameSize of them, the header first.  The local close() is in  *)
(* module Lifecycle; here the link may fail.                               *)
(***************************************************************************)
EXTENDS Naturals, Sequences

CONSTANTS
  Writers,      \* the threads that write
  MaxFrames,    \* bound on the frames written in each direction
  HeaderSize,   \* units of a header
  PayloadSize,  \* units of a payload
  OutLimit,     \* units the socket takes before the router reads
  None          \* no writer, no length

ASSUME SizesAssumption ==
  /\ MaxFrames \in Nat /\ OutLimit \in Nat
  /\ HeaderSize \in Nat \ {0} /\ PayloadSize \in Nat \ {0}
ASSUME NoneAssumption == None \notin Writers \cup Nat

FrameSize == HeaderSize + PayloadSize
Unit(n, i) == [frame |-> n, at |-> i]
Units == [frame : 1..MaxFrames, at : 1..FrameSize]
Payload(n) == [i \in 1..PayloadSize |-> Unit(n, HeaderSize + i)]

VARIABLES
  mutex,     \* write_mutex_: the writer that holds it, or None
  writer,    \* where each writer is in write(): "idle", "lock", "writing"
  frame,     \* the frame each writer writes; the n-th call has frame n
  written,   \* how many of its units are written
  called,    \* calls of write() so far
  out,       \* units on the way to the router
  received,  \* units the router has read
  told,      \* units the router has written
  arrived,   \* units that reached the socket and are not read
  wanted,    \* the length of the payload read() is about to read, or None
  read,      \* the payloads read() has returned, the empty ones left out
  spoilt,    \* TRUE once a read_some has come back short
  link       \* "up" or "lost"

writeVars == <<mutex, writer, frame, written, called>>
readVars  == <<told, arrived, wanted, read, spoilt>>
vars == <<writeVars, out, received, readVars, link>>

WriteTypeOK ==
  /\ mutex \in Writers \cup {None}
  /\ writer \in [Writers -> {"idle", "lock", "writing"}]
  /\ frame \in [Writers -> 0..MaxFrames]
  /\ written \in [Writers -> 0..FrameSize]
  /\ called \in 0..MaxFrames
  /\ out \in Seq(Units) /\ received \in Seq(Units)
  /\ link \in {"up", "lost"}

ReadTypeOK ==
  /\ told \in 0..(MaxFrames * FrameSize) /\ arrived \in Seq(Units)
  /\ wanted \in 0..FrameSize \cup {None}
  /\ read \in Seq(Seq(Units)) /\ spoilt \in BOOLEAN

TypeOK == WriteTypeOK /\ ReadTypeOK

Init ==
  /\ mutex = None /\ writer = [w \in Writers |-> "idle"]
  /\ frame = [w \in Writers |-> 0] /\ written = [w \in Writers |-> 0]
  /\ called = 0 /\ out = <<>> /\ received = <<>>
  /\ told = 0 /\ arrived = <<>> /\ wanted = None /\ read = <<>> /\ spoilt = FALSE
  /\ link = "up"

-----------------------------------------------------------------------------
(* SocketTransport::write.                                                 *)
WriterMoves(w, from, to) ==
  /\ writer[w] = from
  /\ writer' = [writer EXCEPT ![w] = to]
  /\ UNCHANGED <<received, readVars, link>>

Call(w) ==
  /\ called < MaxFrames /\ called' = called + 1
  /\ WriterMoves(w, "idle", "lock")
  /\ frame' = [frame EXCEPT ![w] = called']
  /\ written' = [written EXCEPT ![w] = 0]
  /\ UNCHANGED <<mutex, out>>

Lock_Forgotten(w) ==
  /\ WriterMoves(w, "lock", "writing")
  /\ UNCHANGED <<mutex, frame, written, called, out>>

Lock(w) ==
  /\ mutex = None /\ mutex' = w
  /\ WriterMoves(w, "lock", "writing")
  /\ UNCHANGED <<frame, written, called, out>>

(* One unit too many: a length that counts the header twice.               *)
WriteSome_TooMuch(w) ==
  /\ link = "up" /\ Len(out) < OutLimit /\ written[w] <= FrameSize
  /\ WriterMoves(w, "writing", "writing")
  /\ written' = [written EXCEPT ![w] = @ + 1]
  /\ out' = Append(out, Unit(frame[w], written'[w]))
  /\ UNCHANGED <<mutex, frame, called>>

(* asio::write, first of the header and then of the payload, goes on until *)
(* the socket has taken all of it; it blocks while the socket takes none.  *)
WriteSome(w) ==
  /\ link = "up" /\ Len(out) < OutLimit /\ written[w] < FrameSize
  /\ WriterMoves(w, "writing", "writing")
  /\ written' = [written EXCEPT ![w] = @ + 1]
  /\ out' = Append(out, Unit(frame[w], written'[w]))
  /\ UNCHANGED <<mutex, frame, called>>

(* The frame is written; or message_header_new refuses its length, before  *)
(* anything is written; or asio::write throws, and write() catches.  The   *)
(* lock_guard releases the mutex on every way out.                         *)
Return_OnFailureLocked(w) ==
  /\ written[w] = FrameSize \/ link = "lost"
  /\ WriterMoves(w, "writing", "idle")
  /\ mutex' = IF written[w] = FrameSize THEN None ELSE mutex
  /\ UNCHANGED <<frame, written, called, out>>

Return(w) ==
  /\ written[w] \in {0, FrameSize} \/ link = "lost"
  /\ WriterMoves(w, "writing", "idle")
  /\ mutex' = None
  /\ UNCHANGED <<frame, written, called, out>>

WriterStep(w) == WriteSome(w) \/ Return(w)

-----------------------------------------------------------------------------
(* SocketTransport::read.  recv_exactly asks for n units, takes what there *)
(* is, and gives up, with what it took, when that is less.                 *)
Available(n) == SubSeq(arrived, 1, IF n < Len(arrived) THEN n ELSE Len(arrived))

ReaderTakes(n) ==
  /\ arrived # <<>> \/ n = 0
  /\ arrived' = SubSeq(arrived, Len(Available(n)) + 1, Len(arrived))
  /\ spoilt' = (spoilt \/ Len(Available(n)) < n)
  /\ UNCHANGED <<writeVars, out, received, told, link>>

IsHeader(s) == \E n \in 1..MaxFrames : s = [i \in 1..HeaderSize |-> Unit(n, i)]

(* receive_message_header of other bytes fails or yields some length.      *)
Lengths(got) ==
  IF IsHeader(got) THEN {PayloadSize}
  ELSE IF Len(got) < HeaderSize THEN {None} ELSE {None} \cup 0..FrameSize

ReadHeader ==
  /\ wanted = None
  /\ ReaderTakes(HeaderSize)
  /\ wanted' \in Lengths(Available(HeaderSize))
  /\ UNCHANGED read

ReadPayload_Short ==
  LET got == Available(wanted - 1)
  IN  /\ wanted # None /\ wanted' = None
      /\ ReaderTakes(wanted - 1)
      /\ read' = IF got = <<>> THEN read ELSE Append(read, got)

ReadPayload_WholeRefused ==
  LET got == Available(wanted)
  IN  /\ wanted # None /\ wanted' = None
      /\ ReaderTakes(wanted)
      /\ read' = IF Len(got) <= wanted THEN read ELSE Append(read, got)

ReadPayload ==
  LET got == Available(wanted)
  IN  /\ wanted # None /\ wanted' = None
      /\ ReaderTakes(wanted)
      /\ read' = IF got = <<>> \/ Len(got) < wanted THEN read ELSE Append(read, got)

(* A failed read_some ends the call; the next one begins with a header.    *)
ReadFails ==
  /\ link = "lost" /\ arrived = <<>>
  /\ wanted # None /\ wanted' = None
  /\ UNCHANGED <<writeVars, out, received, told, arrived, read, spoilt, link>>

ReaderStep == ReadHeader \/ ReadPayload \/ ReadFails

-----------------------------------------------------------------------------
(* The router and the link (external).                                     *)
RouterReads ==
  /\ link = "up" /\ out # <<>>
  /\ received' = Append(received, Head(out)) /\ out' = Tail(out)
  /\ UNCHANGED <<writeVars, readVars, link>>

(* The unit of the router's stream at position k.                          *)
StreamUnit(k) == Unit(1 + ((k - 1) \div FrameSize), 1 + ((k - 1) % FrameSize))

(* The bytes arrive in pieces of any size.                                 *)
RouterWrites ==
  /\ link = "up" /\ told < MaxFrames * FrameSize
  /\ told' = told + 1
  /\ arrived' = Append(arrived, StreamUnit(told'))
  /\ UNCHANGED <<writeVars, out, received, wanted, read, spoilt, link>>

LinkLost ==
  /\ link = "up" /\ link' = "lost"
  /\ arrived' \in {arrived, <<>>}
  /\ UNCHANGED <<writeVars, out, received, told, wanted, read, spoilt>>

Next ==
  \/ \E w \in Writers : Call(w) \/ Lock(w) \/ WriterStep(w)
  \/ ReaderStep
  \/ RouterReads \/ RouterWrites \/ LinkLost

(* Threads inside a call go on, a mutex that is free again and again is    *)
(* acquired in the end, and the router reads what is sent to it.           *)
Fairness ==
  /\ \A w \in Writers : SF_vars(Lock(w)) /\ WF_vars(WriterStep(w))
  /\ WF_vars(ReaderStep)
  /\ WF_vars(RouterReads)

SafeSpec == Init /\ [][Next]_vars
Spec == SafeSpec /\ Fairness

-----------------------------------------------------------------------------
(* Properties.                                                             *)

(* What the router gets, and what is on the way to it, is one frame after  *)
(* the other: header and payload of two threads never mix, and only the    *)
(* last frame may be cut short, by the end of the link.                    *)
Follows(u, v) ==
  IF u.at < FrameSize THEN v = Unit(u.frame, u.at + 1)
  ELSE v.at = 1

Stream == received \o out

FramesDoNotMix ==
  \A i \in 1..(Len(Stream) - 1) : Follows(Stream[i], Stream[i + 1])

(* Every write() returns, if the router reads or the link fails: the       *)
(* mutex is released after a failure too, and nobody waits for it for ever.*)
WriteReturns == \A w \in Writers : writer[w] = "lock" ~> writer[w] = "idle"

(* A reading of the tests: read() returns the frames the router wrote, each*)
(* whole and in order.                                                     *)
FramesReadWhole == \A i \in 1..Len(read) : read[i] = Payload(i)

(* It does so as long as each read_some finds all that it asks for, in     *)
(* whatever pieces the bytes arrive and however the link ends.             *)
FramesWholeUntilShort == ~spoilt => FramesReadWhole

(* A frame that arrived is read and returned, unless a read_some came back *)
(* short or the link is lost.                                              *)
FramesArrive ==
  \A n \in 1..MaxFrames :
    told >= n * FrameSize ~> Len(read) >= n \/ spoilt \/ link = "lost"

=============================================================================
