----------------------- MODULE SocketTransportProofs -----------------------
(***************************************************************************)
(* Theorems about SocketTransport::write and read, for any threads, any    *)
(* sizes of header and payload and any buffer: frames do not mix on the    *)
(* socket, and each is read whole until a read_some comes back short.      *)
(***************************************************************************)
EXTENDS SocketTransport, TLAPS

USE SizesAssumption, NoneAssumption DEF vars, writeVars, readVars

(* The variables of the writing side keep to their types.  A thread inside *)
(* write() has a frame.                                                    *)
HasFrame == \A w \in Writers : writer[w] # "idle" => frame[w] \in 1..MaxFrames

WInv == WriteTypeOK /\ HasFrame

(* A frame has at least a header and a payload unit.                       *)
LEMMA FrameSizeType == FrameSize \in Nat /\ FrameSize >= 2
BY DEF FrameSize

(* WInv holds at the start and every step keeps it.                        *)
LEMMA WInvInit == Init => WInv
<1> SUFFICES ASSUME Init PROVE WInv
  OBVIOUS
<1>1. out \in Seq(Units) /\ received \in Seq(Units) /\ 0 \in 0..MaxFrames /\ 0 \in 0..FrameSize
  BY FrameSizeType DEF Init
<1> QED
  BY <1>1 DEF Init, WInv, WriteTypeOK, HasFrame

LEMMA WInvStep == WInv /\ [Next]_vars => WInv'
<1> SUFFICES ASSUME WInv, [Next]_vars PROVE WInv'
  OBVIOUS
<1> USE FrameSizeType DEF WInv, WriteTypeOK, HasFrame
<1>1. ASSUME NEW w \in Writers, Call(w)
      PROVE  WInv'
  <2>1. called' \in 1..MaxFrames
    BY <1>1 DEF Call
  <2> QED
    BY <1>1, <2>1 DEF Call, WriterMoves
<1>2. ASSUME NEW w \in Writers, Lock(w) \/ Return(w)
      PROVE  WInv'
  BY <1>2 DEF Lock, Return, WriterMoves
<1>3. ASSUME NEW w \in Writers, WriteSome(w)
      PROVE  WInv'
  <2>1. frame[w] \in 1..MaxFrames /\ written[w] + 1 \in 1..FrameSize
    BY <1>3 DEF WriteSome, WriterMoves
  <2>2. Unit(frame[w], written'[w]) \in Units
    BY <1>3, <2>1 DEF WriteSome, Unit, Units
  <2>3. out' \in Seq(Units)
    BY <1>3, <2>2 DEF WriteSome
  <2> QED
    BY <1>3, <2>1, <2>3 DEF WriteSome, WriterMoves
<1>4. CASE RouterReads
  <2>1. Head(out) \in Units /\ Tail(out) \in Seq(Units)
    BY <1>4 DEF RouterReads
  <2>2. received' \in Seq(Units)
    BY <1>4, <2>1 DEF RouterReads
  <2> QED
    BY <1>4, <2>1, <2>2 DEF RouterReads
<1>5. CASE ReaderStep \/ RouterWrites \/ LinkLost
  BY <1>5 DEF ReaderStep, ReadHeader, ReadPayload, ReadFails, ReaderTakes, RouterWrites, LinkLost
<1>6. CASE UNCHANGED vars
  BY <1>6
<1> QED
  BY <1>1, <1>2, <1>3, <1>4, <1>5, <1>6 DEF Next, WriterStep

(* The stream so far ends where the holder of the mutex is in its frame,   *)
(* and with a whole frame when nobody writes, unless the link was lost.    *)
MutexHeld == \A w \in Writers : writer[w] = "writing" <=> mutex = w

Last == Stream[Len(Stream)]

StreamEndsAtWriter ==
  link = "up" =>
    /\ \A w \in Writers : writer[w] = "writing" =>
         IF written[w] = 0 THEN Stream = <<>> \/ Last.at = FrameSize
         ELSE Stream # <<>> /\ Last = Unit(frame[w], written[w])
    /\ mutex = None => Stream = <<>> \/ Last.at = FrameSize

FreshFrames == \A w \in Writers : writer[w] = "lock" => written[w] = 0

IInv == WInv /\ MutexHeld /\ FreshFrames /\ StreamEndsAtWriter /\ FramesDoNotMix

(* IInv holds at the start ...                                             *)
LEMMA IInvInit == Init => IInv
<1> SUFFICES ASSUME Init PROVE IInv
  OBVIOUS
<1>1. Stream = <<>> /\ Len(Stream) = 0
  BY DEF Init, Stream
<1>2. FramesDoNotMix
  BY <1>1 DEF FramesDoNotMix
<1> QED
  BY <1>1, <1>2, WInvInit DEF Init, IInv, MutexHeld, FreshFrames, StreamEndsAtWriter

(* ... a step that writes nothing does not disturb the stream ...          *)
LEMMA StreamKept ==
  ASSUME FramesDoNotMix, Stream' = Stream
  PROVE  FramesDoNotMix' /\ Last' = Last
BY DEF FramesDoNotMix, Last

(* ... the router moves it from one side to the other ...                  *)
LEMMA RouterKeepsStream ==
  ASSUME WInv, RouterReads
  PROVE  Stream' = Stream
<1>1. out \in Seq(Units) /\ received \in Seq(Units) /\ out # <<>>
  BY DEF WInv, WriteTypeOK, RouterReads
<1>2. received' = Append(received, Head(out)) /\ out' = Tail(out)
  BY DEF RouterReads
<1>3. received \o out = Append(received, Head(out)) \o Tail(out)
  BY <1>1
<1> QED
  BY <1>2, <1>3 DEF Stream

(* ... and a unit that is written follows the last one.                    *)
LEMMA WriteFollows ==
  ASSUME IInv, NEW w \in Writers, WriteSome(w)
  PROVE  /\ FramesDoNotMix'
         /\ Stream' # <<>> /\ Last' = Unit(frame[w], written[w] + 1)
<1> DEFINE u == Unit(frame[w], written[w] + 1)
<1> USE FrameSizeType
<1>1. out \in Seq(Units) /\ received \in Seq(Units) /\ Stream \in Seq(Units)
  BY DEF IInv, WInv, WriteTypeOK, Stream
<1>2. written[w] \in Nat /\ writer[w] = "writing" /\ link = "up" /\ written[w] < FrameSize
  BY DEF IInv, WInv, WriteTypeOK, WriteSome, WriterMoves
<1>3. out' = Append(out, u) /\ received' = received
  BY <1>2 DEF IInv, WInv, WriteTypeOK, WriteSome, WriterMoves
<1>4. Stream' = Append(Stream, u)
  BY <1>1, <1>3 DEF Stream
<1>5. /\ Len(Stream') = Len(Stream) + 1 /\ Len(Stream) \in Nat
      /\ \A i \in 1..Len(Stream) : Stream'[i] = Stream[i]
      /\ Stream'[Len(Stream) + 1] = u
  BY <1>1, <1>4
<1>6. Stream # <<>> => Follows(Last, u)
  <2>1. CASE written[w] = 0
    BY <1>2, <2>1 DEF IInv, StreamEndsAtWriter, Follows, Unit
  <2>2. CASE written[w] # 0
    BY <1>2, <2>2 DEF IInv, StreamEndsAtWriter, Follows, Unit
  <2> QED
    BY <2>1, <2>2
<1>7. ASSUME NEW i \in 1..(Len(Stream') - 1)
      PROVE  Follows(Stream'[i], Stream'[i + 1])
  <2>1. CASE i < Len(Stream)
    BY <1>5, <2>1 DEF IInv, FramesDoNotMix
  <2>2. CASE i = Len(Stream)
    BY <1>1, <1>5, <1>6, <2>2 DEF Last
  <2> QED
    BY <1>5, <2>1, <2>2
<1>8. FramesDoNotMix'
  BY <1>7 DEF FramesDoNotMix
<1>9. Stream' # <<>> /\ Last' = u
  BY <1>1, <1>4, <1>5 DEF Last
<1> QED
  BY <1>8, <1>9

(* Every step keeps IInv.                                                  *)
LEMMA IInvStep == IInv /\ [Next]_vars => IInv'
<1> SUFFICES ASSUME IInv, [Next]_vars PROVE IInv'
  OBVIOUS
<1>type. WInv /\ WInv'
  BY WInvStep DEF IInv
<1> USE FrameSizeType DEF IInv, MutexHeld, FreshFrames, StreamEndsAtWriter
<1>1. ASSUME NEW w \in Writers, Call(w) \/ Lock(w) \/ Return(w)
      PROVE  IInv'
  <2>1. Stream' = Stream
    BY <1>1 DEF Call, Lock, Return, WriterMoves, Stream
  <2>2. FramesDoNotMix' /\ Last' = Last
    BY <2>1, StreamKept
  <2>3. CASE Call(w)
    BY <1>type, <2>1, <2>2, <2>3 DEF Call, WriterMoves, WInv, WriteTypeOK
  <2>4. CASE Lock(w)
    BY <1>type, <2>1, <2>2, <2>4 DEF Lock, WriterMoves, WInv, WriteTypeOK
  <2>5. CASE Return(w)
    BY <1>type, <2>1, <2>2, <2>5 DEF Return, WriterMoves, WInv, WriteTypeOK, Unit
  <2> QED
    BY <1>1, <2>3, <2>4, <2>5
<1>2. ASSUME NEW w \in Writers, WriteSome(w)
      PROVE  IInv'
  <2>1. /\ FramesDoNotMix'
        /\ Stream' # <<>> /\ Last' = Unit(frame[w], written[w] + 1)
    BY <1>2, WriteFollows
  <2>2. writer' = writer /\ mutex' = mutex /\ mutex = w /\ frame' = frame
        /\ written' = [written EXCEPT ![w] = written[w] + 1]
    BY <1>2, <1>type DEF WriteSome, WriterMoves, WInv, WriteTypeOK
  <2> QED
    BY <1>type, <2>1, <2>2 DEF WInv, WriteTypeOK
<1>3. CASE RouterReads
  <2>1. Stream' = Stream
    BY <1>3, <1>type, RouterKeepsStream
  <2>2. FramesDoNotMix' /\ Last' = Last
    BY <2>1, StreamKept
  <2> QED
    BY <1>3, <1>type, <2>1, <2>2 DEF RouterReads
<1>4. CASE ReaderStep \/ RouterWrites \/ LinkLost \/ UNCHANGED vars
  <2>1. /\ UNCHANGED <<writeVars, out, received>>
        /\ link' = "up" => link = "up"
    BY <1>4 DEF ReaderStep, ReadHeader, ReadPayload, ReadFails, ReaderTakes, RouterWrites,
                LinkLost
  <2>2. Stream' = Stream
    BY <2>1 DEF Stream
  <2>3. FramesDoNotMix' /\ Last' = Last
    BY <2>2, StreamKept
  <2> QED
    BY <1>type, <2>1, <2>2, <2>3
<1> QED
  BY <1>1, <1>2, <1>3, <1>4 DEF Next, WriterStep

(* Frames of different threads never mix on their way to the router.       *)
THEOREM FramesStayWhole == Spec => []FramesDoNotMix
<1>1. IInv => FramesDoNotMix
  BY DEF IInv
<1> QED
  BY <1>1, IInvInit, IInvStep, PTL DEF Spec, SafeSpec

-----------------------------------------------------------------------------
(* The reading side.  Where a position of the stream falls in its frame.   *)
LEMMA FramesApart ==
  ASSUME NEW a \in Nat, NEW b \in Nat, a < b
  PROVE  a * FrameSize + FrameSize <= b * FrameSize
<1>1. PICK d \in Nat : b = a + 1 + d
  <2>1. b - a - 1 \in Nat /\ b = a + 1 + (b - a - 1)
    OBVIOUS
  <2> QED
    BY <2>1
<1>2. b * FrameSize = a * FrameSize + FrameSize + d * FrameSize
  BY <1>1, FrameSizeType
<1>3. d * FrameSize \in Nat /\ a * FrameSize \in Nat
  BY FrameSizeType
<1> QED
  BY <1>2, <1>3, FrameSizeType

LEMMA PlaceInFrame ==
  ASSUME NEW n \in Nat, NEW j \in 0..(FrameSize - 1)
  PROVE  (n * FrameSize + j) \div FrameSize = n /\ (n * FrameSize + j) % FrameSize = j
<1> DEFINE q == (n * FrameSize + j) \div FrameSize
           r == (n * FrameSize + j) % FrameSize
<1>1. FrameSize \in Nat /\ FrameSize >= 2 /\ n * FrameSize \in Nat
  BY FrameSizeType
<1>2. q \in Nat /\ r \in 0..(FrameSize - 1) /\ n * FrameSize + j = FrameSize * q + r
  BY <1>1
<1>3. FrameSize * q = q * FrameSize
  BY <1>1, <1>2
<1> HIDE DEF q, r
<1>4. ~(q < n)
  BY <1>1, <1>2, <1>3, FramesApart
<1>5. ~(n < q)
  BY <1>1, <1>2, <1>3, FramesApart
<1>6. q = n
  BY <1>2, <1>4, <1>5
<1>7. r = j
  BY <1>1, <1>2, <1>3, <1>6
<1> QED
  BY <1>6, <1>7 DEF q, r

LEMMA UnitAt ==
  ASSUME NEW n \in Nat, NEW j \in 1..FrameSize
  PROVE  StreamUnit(n * FrameSize + j) = Unit(n + 1, j)
<1>1. /\ n * FrameSize \in Nat /\ FrameSize \in Nat /\ j - 1 \in 0..(FrameSize - 1)
      /\ (n * FrameSize + j) - 1 = n * FrameSize + (j - 1)
  BY FrameSizeType
<1>2. /\ (n * FrameSize + (j - 1)) \div FrameSize = n
      /\ (n * FrameSize + (j - 1)) % FrameSize = j - 1
  BY <1>1, PlaceInFrame
<1>3. 1 + n = n + 1 /\ 1 + (j - 1) = j
  OBVIOUS
<1> QED
  BY <1>1, <1>2, <1>3 DEF StreamUnit

(* Every position up to the bound is that of a unit.                       *)
LEMMA StreamUnitType ==
  ASSUME NEW k \in 1..(MaxFrames * FrameSize)
  PROVE  StreamUnit(k) \in Units
<1> DEFINE q == (k - 1) \div FrameSize
           r == (k - 1) % FrameSize
<1>1. FrameSize \in Nat /\ FrameSize >= 2 /\ MaxFrames \in Nat /\ MaxFrames * FrameSize \in Nat
  BY FrameSizeType
<1>2. q \in Nat /\ r \in 0..(FrameSize - 1) /\ k - 1 = FrameSize * q + r
  BY <1>1
<1>3. FrameSize * q = q * FrameSize /\ q * FrameSize \in Nat
  BY <1>1, <1>2
<1> HIDE DEF q, r
<1>4. q < MaxFrames
  <2>1. ~(MaxFrames < q)
    BY <1>1, <1>2, <1>3, FramesApart
  <2>2. MaxFrames # q
    BY <1>1, <1>2, <1>3
  <2> QED
    BY <1>1, <1>2, <2>1, <2>2
<1>5. 1 + q \in 1..MaxFrames /\ 1 + r \in 1..FrameSize
  BY <1>1, <1>2, <1>4
<1> QED
  BY <1>5 DEF StreamUnit, Unit, Units, q, r

-----------------------------------------------------------------------------
(* What recv_exactly takes, and what it leaves in the socket.              *)
Left(n) == SubSeq(arrived, Len(Available(n)) + 1, Len(arrived))

LEMMA TakenAndLeft ==
  ASSUME arrived \in Seq(Units), NEW n \in Nat
  PROVE  /\ Available(n) \in Seq(Units) /\ Left(n) \in Seq(Units)
         /\ Len(Available(n)) = IF n < Len(arrived) THEN n ELSE Len(arrived)
         /\ Len(Left(n)) = Len(arrived) - Len(Available(n))
         /\ \A i \in 1..Len(Available(n)) : Available(n)[i] = arrived[i]
         /\ \A i \in 1..Len(Left(n)) : Left(n)[i] = arrived[Len(Available(n)) + i]
<1> DEFINE m == IF n < Len(arrived) THEN n ELSE Len(arrived)
<1>1. Len(arrived) \in Nat /\ m \in 0..Len(arrived) /\ Available(n) = SubSeq(arrived, 1, m)
  BY DEF Available
<1> HIDE DEF m
<1>2. Available(n) \in Seq(Units) /\ Len(Available(n)) = m
  BY <1>1
<1>3. Left(n) = SubSeq(arrived, m + 1, Len(arrived))
  BY <1>2 DEF Left
<1>4. Left(n) \in Seq(Units) /\ Len(Left(n)) = Len(arrived) - m
  BY <1>1, <1>3
<1>5. \A i \in 1..m : Available(n)[i] = arrived[i]
  BY <1>1
<1>6. \A i \in 1..(Len(arrived) - m) : Left(n)[i] = arrived[m + i]
  BY <1>1, <1>3
<1> QED
  BY <1>2, <1>4, <1>5, <1>6 DEF m

(* The types of both sides, whatever way the bytes arrive.                 *)
TInv == WInv /\ ReadTypeOK

(* They hold at the start, and every step of the reader keeps its types.   *)
LEMMA TInvInit == Init => TInv
<1> SUFFICES ASSUME Init PROVE TInv
  OBVIOUS
<1>1. 0 \in 0..(MaxFrames * FrameSize) /\ arrived \in Seq(Units) /\ read \in Seq(Seq(Units))
  BY FrameSizeType DEF Init
<1> QED
  BY <1>1, WInvInit DEF Init, TInv, ReadTypeOK

LEMMA ReadTypeStep ==
  ASSUME TInv, [Next]_vars
  PROVE  ReadTypeOK'
<1> USE DEF TInv, ReadTypeOK
<1>sizes. FrameSize \in Nat /\ MaxFrames \in Nat /\ HeaderSize \in 0..FrameSize
          /\ PayloadSize \in 0..FrameSize
  BY FrameSizeType DEF FrameSize
<1>1. CASE ReadHeader
  <2>1. arrived' = Left(HeaderSize)
    BY <1>1 DEF ReadHeader, ReaderTakes, Left
  <2>2. arrived' \in Seq(Units)
    BY <2>1, TakenAndLeft
  <2>3. wanted' \in 0..FrameSize \cup {None}
    BY <1>1, <1>sizes DEF ReadHeader, Lengths
  <2> QED
    BY <1>1, <2>2, <2>3 DEF ReadHeader, ReaderTakes
<1>2. CASE ReadPayload
  <2>1. wanted \in Nat /\ arrived' = Left(wanted)
    BY <1>2, <1>sizes DEF ReadPayload, ReaderTakes, Left
  <2>2. arrived' \in Seq(Units) /\ Available(wanted) \in Seq(Units)
    BY <2>1, TakenAndLeft
  <2>3. read' \in Seq(Seq(Units))
    BY <1>2, <2>2 DEF ReadPayload
  <2> QED
    BY <1>2, <2>2, <2>3 DEF ReadPayload, ReaderTakes
<1>3. CASE RouterWrites
  <2>1. told \in Nat /\ MaxFrames * FrameSize \in Nat
    BY <1>sizes
  <2>2. told' \in 1..(MaxFrames * FrameSize)
    BY <1>3, <2>1 DEF RouterWrites
  <2>3. StreamUnit(told') \in Units
    BY <2>2, StreamUnitType
  <2>4. arrived' \in Seq(Units) /\ UNCHANGED <<wanted, read, spoilt>>
    BY <1>3, <2>3 DEF RouterWrites
  <2> QED
    BY <2>1, <2>2, <2>4
<1>4. CASE ReadFails \/ LinkLost \/ UNCHANGED vars
  <2>1. <<>> \in Seq(Units)
    OBVIOUS
  <2> QED
    BY <1>4, <2>1 DEF ReadFails, LinkLost
<1>5. ASSUME NEW w \in Writers, Call(w) \/ Lock(w) \/ WriterStep(w)
      PROVE  ReadTypeOK'
  BY <1>5 DEF Call, Lock, WriterStep, WriteSome, Return, WriterMoves
<1>6. CASE RouterReads
  BY <1>6 DEF RouterReads
<1> QED
  BY <1>1, <1>2, <1>3, <1>4, <1>5, <1>6 DEF Next, ReaderStep

(* Every variable keeps to its type.                                       *)
THEOREM TransportTypeCorrect == Spec => []TypeOK
<1>1. Init => TInv
  BY TInvInit
<1>2. TInv /\ [Next]_vars => TInv'
  BY WInvStep, ReadTypeStep DEF TInv
<1>3. TInv => TypeOK
  BY DEF TInv, WInv, TypeOK
<1> QED
  BY <1>1, <1>2, <1>3, PTL DEF Spec, SafeSpec

-----------------------------------------------------------------------------
(* How far the reader is: past the frames it returned and, in the middle   *)
(* of a call, past a header.  What it has not read is in the socket.       *)
Position == Len(read) * FrameSize + (IF wanted = None THEN 0 ELSE HeaderSize)

SocketHoldsRest ==
  arrived # <<>> \/ link = "up" =>
    /\ told = Position + Len(arrived)
    /\ \A i \in 1..Len(arrived) : arrived[i] = StreamUnit(Position + i)

LengthKnown == wanted \in {None, PayloadSize}

Sound == SocketHoldsRest /\ LengthKnown /\ FramesReadWhole

RInv == TInv /\ (~spoilt => Sound)

(* When something is in the socket a frame is still to be read.            *)
LEMMA FrameIsThere ==
  ASSUME TInv, Sound, arrived # <<>>
  PROVE  Len(read) + 1 \in 1..MaxFrames
<1> DEFINE n == Len(read)
           l == Len(arrived)
           h == IF wanted = None THEN 0 ELSE HeaderSize
<1>1. /\ FrameSize \in Nat /\ HeaderSize \in Nat /\ MaxFrames \in Nat
      /\ n \in Nat /\ l \in Nat /\ l >= 1 /\ h \in Nat
  BY FrameSizeType DEF TInv, ReadTypeOK
<1>2. told = n * FrameSize + h + l /\ told <= MaxFrames * FrameSize
  BY <1>1 DEF TInv, ReadTypeOK, Sound, SocketHoldsRest, Position
<1> HIDE DEF n, l, h
<1>3. n * FrameSize \in Nat /\ MaxFrames * FrameSize \in Nat
  BY <1>1
<1>4. ~(MaxFrames < n)
  BY <1>1, <1>2, <1>3, FramesApart
<1>5. MaxFrames # n
  BY <1>1, <1>2, <1>3
<1> QED
  BY <1>1, <1>4, <1>5 DEF n

(* A read_some that is not short leaves the sound where it was.            *)
LEMMA TakenWhole ==
  ASSUME TInv, NEW n \in Nat, ReaderTakes(n), ~spoilt'
  PROVE  /\ ~spoilt /\ Len(Available(n)) = n /\ n <= Len(arrived)
         /\ arrived' = Left(n) /\ told' = told
<1>0. arrived \in Seq(Units) /\ Len(arrived) \in Nat
  BY DEF TInv, ReadTypeOK
<1>1. Len(Available(n)) = IF n < Len(arrived) THEN n ELSE Len(arrived)
  BY <1>0, TakenAndLeft
<1>2. ~spoilt /\ ~(Len(Available(n)) < n)
  BY DEF ReaderTakes
<1>3. Len(Available(n)) = n /\ n <= Len(arrived)
  BY <1>0, <1>1, <1>2
<1> QED
  BY <1>2, <1>3 DEF ReaderTakes, Left

(* It is the next header ...                                               *)
LEMMA HeaderIsNext ==
  ASSUME TInv, Sound, arrived # <<>>, wanted = None, HeaderSize <= Len(arrived)
  PROVE  /\ Len(Available(HeaderSize)) = HeaderSize
         /\ IsHeader(Available(HeaderSize))
<1> DEFINE n == Len(read)
           got == Available(HeaderSize)
<1>1. /\ arrived \in Seq(Units) /\ n \in Nat /\ HeaderSize \in Nat
      /\ FrameSize \in Nat /\ HeaderSize <= FrameSize
  BY FrameSizeType DEF TInv, ReadTypeOK, FrameSize
<1>2. n + 1 \in 1..MaxFrames /\ Len(arrived) >= HeaderSize
  BY <1>1, FrameIsThere DEF TInv, ReadTypeOK
<1>3. got \in Seq(Units) /\ Len(got) = HeaderSize
      /\ \A i \in 1..HeaderSize : got[i] = arrived[i]
  <2>1. /\ got \in Seq(Units)
        /\ Len(got) = IF HeaderSize < Len(arrived) THEN HeaderSize ELSE Len(arrived)
        /\ \A i \in 1..Len(got) : got[i] = arrived[i]
    BY <1>1, TakenAndLeft
  <2>2. Len(arrived) \in Nat
    BY <1>1
  <2> HIDE DEF got
  <2>3. Len(got) = HeaderSize
    BY <1>1, <1>2, <2>1, <2>2
  <2> QED
    BY <2>1, <2>3
<1>4. \A i \in 1..HeaderSize : arrived[i] = StreamUnit(n * FrameSize + i)
  <2>1. Position = n * FrameSize
    BY <1>1 DEF Position
  <2> QED
    BY <1>1, <1>2, <2>1 DEF Sound, SocketHoldsRest
<1>5. \A i \in 1..HeaderSize : StreamUnit(n * FrameSize + i) = Unit(n + 1, i)
  BY <1>1, UnitAt
<1> HIDE DEF n, got
<1>6. got = [i \in 1..HeaderSize |-> Unit(n + 1, i)]
  BY <1>3, <1>4, <1>5
<1> QED
  BY <1>2, <1>3, <1>6 DEF IsHeader, n, got

(* ... or the payload it announced.                                        *)
LEMMA PayloadIsNext ==
  ASSUME TInv, Sound, arrived # <<>>, wanted = PayloadSize, PayloadSize <= Len(arrived)
  PROVE  /\ Len(Available(PayloadSize)) = PayloadSize
         /\ Available(PayloadSize) = Payload(Len(read) + 1)
<1> DEFINE n == Len(read)
           got == Available(PayloadSize)
<1>1. /\ arrived \in Seq(Units) /\ n \in Nat /\ HeaderSize \in Nat /\ PayloadSize \in Nat
      /\ FrameSize = HeaderSize + PayloadSize /\ wanted # None
  BY FrameSizeType DEF TInv, ReadTypeOK, FrameSize
<1>2. Len(arrived) >= PayloadSize
  BY <1>1 DEF TInv, ReadTypeOK
<1>3. got \in Seq(Units) /\ Len(got) = PayloadSize
      /\ \A i \in 1..PayloadSize : got[i] = arrived[i]
  <2>1. /\ got \in Seq(Units)
        /\ Len(got) = IF PayloadSize < Len(arrived) THEN PayloadSize ELSE Len(arrived)
        /\ \A i \in 1..Len(got) : got[i] = arrived[i]
    BY <1>1, TakenAndLeft
  <2>2. Len(arrived) \in Nat
    BY <1>1
  <2> HIDE DEF got
  <2>3. Len(got) = PayloadSize
    BY <1>1, <1>2, <2>1, <2>2
  <2> QED
    BY <2>1, <2>3
<1>4. ASSUME NEW i \in 1..PayloadSize
      PROVE  arrived[i] = StreamUnit(n * FrameSize + (HeaderSize + i))
  <2>1. i \in 1..Len(arrived) /\ Position = n * FrameSize + HeaderSize
    BY <1>1, <1>2 DEF Position
  <2>2. arrived[i] = StreamUnit(Position + i)
    BY <2>1 DEF Sound, SocketHoldsRest
  <2>3. (n * FrameSize + HeaderSize) + i = n * FrameSize + (HeaderSize + i)
    <3>1. n * FrameSize \in Nat
      BY <1>1
    <3> QED
      BY <1>1, <3>1
  <2> QED
    BY <2>1, <2>2, <2>3
<1>5. ASSUME NEW i \in 1..PayloadSize
      PROVE  StreamUnit(n * FrameSize + (HeaderSize + i)) = Unit(n + 1, HeaderSize + i)
  <2>1. HeaderSize + i \in 1..FrameSize
    BY <1>1
  <2> QED
    BY <1>1, <2>1, UnitAt
<1> HIDE DEF n, got
<1>6. got = [i \in 1..PayloadSize |-> Unit(n + 1, HeaderSize + i)]
  BY <1>3, <1>4, <1>5
<1> QED
  BY <1>3, <1>6 DEF Payload, n, got

(* Reading leaves the rest in the socket, as far as the reader has come.   *)
LEMMA RestStays ==
  ASSUME TInv, Sound, NEW n \in Nat, arrived # <<>>, n <= Len(arrived),
         arrived' = Left(n), Position' = Position + n, told' = told
  PROVE  SocketHoldsRest'
<1>1. Len(arrived) \in Nat /\ Position \in Nat
  <2>1. Len(read) \in Nat /\ Len(arrived) \in Nat
    BY DEF TInv, ReadTypeOK
  <2>2. Len(read) * FrameSize \in Nat
    BY <2>1, FrameSizeType
  <2> QED
    BY <2>1, <2>2 DEF Position
<1>2. told = Position + Len(arrived)
      /\ \A i \in 1..Len(arrived) : arrived[i] = StreamUnit(Position + i)
  BY DEF Sound, SocketHoldsRest
<1>3. Len(Left(n)) = Len(arrived) - n /\ \A i \in 1..Len(Left(n)) : Left(n)[i] = arrived[n + i]
  <2>1. /\ Len(Available(n)) = IF n < Len(arrived) THEN n ELSE Len(arrived)
        /\ Len(Left(n)) = Len(arrived) - Len(Available(n))
        /\ \A i \in 1..Len(Left(n)) : Left(n)[i] = arrived[Len(Available(n)) + i]
    BY TakenAndLeft DEF TInv, ReadTypeOK
  <2>2. Len(Available(n)) = n
    BY <1>1, <2>1
  <2> QED
    BY <2>1, <2>2
<1>4. told' = Position' + Len(arrived')
  BY <1>1, <1>2, <1>3
<1>5. ASSUME NEW i \in 1..Len(arrived')
      PROVE  arrived'[i] = StreamUnit(Position' + i)
  <2>1. n + i \in 1..Len(arrived) /\ arrived'[i] = arrived[n + i]
    BY <1>1, <1>3
  <2>2. Position + (n + i) = Position' + i
    BY <1>1
  <2>3. arrived[n + i] = StreamUnit(Position + (n + i))
    BY <1>2, <2>1
  <2> QED
    BY <2>1, <2>2, <2>3
<1> QED
  BY <1>4, <1>5 DEF SocketHoldsRest

(* Every step that reads nothing short keeps it: a header ...              *)
LEMMA ReadHeaderKeeps ==
  ASSUME TInv, Sound, ReadHeader, ~spoilt'
  PROVE  Sound'
<1>1. /\ wanted = None /\ arrived # <<>> /\ read' = read /\ HeaderSize \in Nat
      /\ ReaderTakes(HeaderSize)
  BY DEF ReadHeader, ReaderTakes
<1>2. HeaderSize <= Len(arrived) /\ arrived' = Left(HeaderSize) /\ told' = told
  BY <1>1, TakenWhole
<1>3. wanted' = PayloadSize
  BY <1>1, <1>2, HeaderIsNext DEF ReadHeader, Lengths
<1>4. Position' = Position + HeaderSize
  <2>1. Len(read) * FrameSize \in Nat /\ wanted' # None
    BY <1>3, FrameSizeType DEF TInv, ReadTypeOK
  <2> QED
    BY <1>1, <2>1 DEF Position
<1>5. SocketHoldsRest'
  BY <1>1, <1>2, <1>4, RestStays
<1> QED
  BY <1>1, <1>3, <1>5 DEF Sound, LengthKnown, FramesReadWhole

(* ... a payload, which is then the next frame's ...                       *)
LEMMA ReadPayloadKeeps ==
  ASSUME TInv, Sound, ReadPayload, ~spoilt'
  PROVE  Sound'
<1>types. Len(read) \in Nat /\ Len(arrived) \in Nat /\ read \in Seq(Seq(Units))
          /\ PayloadSize \in Nat /\ PayloadSize > 0
  BY DEF TInv, ReadTypeOK
<1>1. /\ wanted = PayloadSize /\ wanted' = None /\ arrived # <<>>
      /\ PayloadSize <= Len(arrived) /\ arrived' = Left(PayloadSize) /\ told' = told
  <2>1. wanted = PayloadSize /\ wanted' = None /\ arrived # <<>> /\ ReaderTakes(PayloadSize)
    BY <1>types DEF ReadPayload, ReaderTakes, Sound, LengthKnown
  <2> QED
    BY <1>types, <2>1, TakenWhole
<1>2. /\ Len(Available(PayloadSize)) = PayloadSize
      /\ Available(PayloadSize) = Payload(Len(read) + 1)
  BY <1>1, PayloadIsNext
<1>3. read' = Append(read, Payload(Len(read) + 1))
  <2>1. Available(PayloadSize) # <<>> /\ ~(Len(Available(PayloadSize)) < PayloadSize)
    BY <1>types, <1>2
  <2> QED
    BY <1>1, <1>2, <2>1 DEF ReadPayload
<1>4. /\ Len(read') = Len(read) + 1
      /\ \A i \in 1..Len(read) : read'[i] = read[i]
      /\ read'[Len(read) + 1] = Payload(Len(read) + 1)
  <2> DEFINE p == Payload(Len(read) + 1)
  <2>1. p \in Seq(Units)
    <3>1. Available(PayloadSize) \in Seq(Units)
      BY <1>types, TakenAndLeft DEF TInv, ReadTypeOK
    <3> QED
      BY <1>2, <3>1
  <2>2. read' = Append(read, p)
    BY <1>3
  <2> HIDE DEF p
  <2>3. /\ Len(read') = Len(read) + 1
        /\ \A i \in 1..Len(read) : read'[i] = read[i]
        /\ read'[Len(read) + 1] = p
    BY <1>types, <2>1, <2>2
  <2> QED
    BY <2>3 DEF p
<1>5. FramesReadWhole'
  <2>1. ASSUME NEW i \in 1..Len(read')
        PROVE  read'[i] = Payload(i)
    <3>1. CASE i \in 1..Len(read)
      BY <1>4, <3>1 DEF Sound, FramesReadWhole
    <3>2. CASE i = Len(read) + 1
      BY <1>4, <3>2
    <3> QED
      BY <1>types, <1>4, <3>1, <3>2
  <2> QED
    BY <2>1 DEF FramesReadWhole, Payload, Unit
<1>6. Position' = Position + PayloadSize
  <2>1. (Len(read) + 1) * FrameSize = Len(read) * FrameSize + FrameSize
        /\ Len(read) * FrameSize \in Nat
    BY <1>types, FrameSizeType
  <2>2. FrameSize = HeaderSize + PayloadSize /\ HeaderSize \in Nat /\ wanted # None
    BY <1>1, <1>types DEF FrameSize
  <2> QED
    BY <1>1, <1>4, <1>types, <2>1, <2>2 DEF Position
<1>7. SocketHoldsRest'
  BY <1>1, <1>6, <1>types, RestStays
<1> QED
  BY <1>1, <1>5, <1>7 DEF Sound, LengthKnown

(* ... and what the router writes, which comes behind the rest.            *)
LEMMA RouterWritesKeeps ==
  ASSUME TInv, Sound, RouterWrites
  PROVE  Sound'
<1>1. /\ link = "up" /\ told' = told + 1 /\ arrived' = Append(arrived, StreamUnit(told'))
      /\ wanted' = wanted /\ read' = read
  BY DEF RouterWrites
<1>2. Position' = Position /\ Position \in Nat /\ Len(arrived) \in Nat
  <2>1. Len(read) * FrameSize \in Nat /\ HeaderSize \in Nat /\ Len(arrived) \in Nat
    BY FrameSizeType DEF TInv, ReadTypeOK
  <2> QED
    BY <1>1, <2>1 DEF Position
<1>3. told = Position + Len(arrived)
      /\ \A i \in 1..Len(arrived) : arrived[i] = StreamUnit(Position + i)
  BY <1>1 DEF Sound, SocketHoldsRest
<1> DEFINE unit == StreamUnit(told')
<1>4. unit = StreamUnit(Position + (Len(arrived) + 1))
  <2>1. told' = Position + (Len(arrived) + 1)
    BY <1>1, <1>2, <1>3
  <2> QED
    BY <2>1
<1> HIDE DEF unit
<1>5. /\ Len(arrived') = Len(arrived) + 1 /\ arrived'[Len(arrived) + 1] = unit
      /\ \A i \in 1..Len(arrived) : arrived'[i] = arrived[i]
  BY <1>1 DEF TInv, ReadTypeOK, unit
<1>6. \A i \in 1..Len(arrived') : i \in 1..Len(arrived) \/ i = Len(arrived) + 1
  BY <1>2, <1>5
<1>7. \A i \in 1..Len(arrived') : arrived'[i] = StreamUnit(Position' + i)
  BY <1>2, <1>3, <1>4, <1>5, <1>6
<1>8. told' = Position' + Len(arrived')
  BY <1>1, <1>2, <1>3, <1>5
<1> QED
  BY <1>1, <1>7, <1>8 DEF Sound, SocketHoldsRest, LengthKnown, FramesReadWhole

LEMMA RInvInit == Init => RInv
<1> SUFFICES ASSUME Init PROVE RInv
  OBVIOUS
<1>1. Len(read) = 0 /\ Len(arrived) = 0 /\ Position = 0
  BY FrameSizeType DEF Init, Position
<1> QED
  BY <1>1, TInvInit DEF Init, RInv, Sound, SocketHoldsRest, LengthKnown, FramesReadWhole

LEMMA RInvStep ==
  ASSUME RInv, [Next]_vars
  PROVE  RInv'
<1>types. TInv'
  BY WInvStep, ReadTypeStep DEF RInv, TInv
<1>1. SUFFICES ASSUME ~spoilt' PROVE Sound'
  BY <1>types DEF RInv
<1>2. CASE spoilt' = spoilt /\ ~ReaderStep
  <2>1. TInv /\ Sound
    BY <1>1, <1>2 DEF RInv
  <2>2. CASE RouterWrites
    BY <2>1, <2>2, RouterWritesKeeps
  <2>3. CASE UNCHANGED <<readVars, link>>
    BY <2>1, <2>3 DEF Sound, SocketHoldsRest, Position, LengthKnown, FramesReadWhole
  <2>4. CASE LinkLost
    <3>1. /\ UNCHANGED <<told, read, wanted>> /\ link' = "lost" /\ arrived' \in {arrived, <<>>}
      BY <2>4 DEF LinkLost
    <3> QED
      BY <2>1, <3>1 DEF Sound, SocketHoldsRest, Position, LengthKnown, FramesReadWhole
  <2>5. ASSUME NEW w \in Writers, Call(w) \/ Lock(w) \/ WriterStep(w)
        PROVE  UNCHANGED <<readVars, link>>
    BY <2>5 DEF Call, Lock, WriterStep, WriteSome, Return, WriterMoves
  <2>6. RouterReads \/ UNCHANGED vars => UNCHANGED <<readVars, link>>
    BY DEF RouterReads
  <2> QED
    BY <1>2, <2>2, <2>3, <2>4, <2>5, <2>6 DEF Next
<1>3. CASE ReadHeader \/ ReadPayload
  <2>1. ~spoilt
    BY <1>1, <1>3 DEF ReadHeader, ReadPayload, ReaderTakes
  <2> QED
    BY <1>1, <1>3, <2>1, ReadHeaderKeeps, ReadPayloadKeeps DEF RInv
<1>4. CASE ReadFails
  <2>1. /\ UNCHANGED <<told, read, arrived, link, spoilt>> /\ wanted' = None
        /\ link = "lost" /\ arrived = <<>>
    BY <1>4 DEF ReadFails
  <2> QED
    BY <1>1, <2>1 DEF RInv, Sound, SocketHoldsRest, LengthKnown, FramesReadWhole
<1>5. ~ReaderStep => spoilt' = spoilt
  BY DEF Next, Call, Lock, WriterStep, WriteSome, Return, WriterMoves, RouterReads, RouterWrites,
         LinkLost
<1> QED
  BY <1>2, <1>3, <1>4, <1>5 DEF ReaderStep

(* In whatever pieces the bytes arrive, read() returns the frames the      *)
(* router wrote, each whole and in order, until a single read_some comes   *)
(* back short: socket_transport.cpp:65.                                    *)
THEOREM FramesAreReadWhole == Spec => []FramesWholeUntilShort
<1>1. RInv => FramesWholeUntilShort
  BY DEF RInv, Sound, FramesWholeUntilShort
<1>2. RInv /\ [Next]_vars => RInv'
  BY RInvStep
<1> QED
  BY <1>1, <1>2, RInvInit, PTL DEF Spec, SafeSpec

=============================================================================
