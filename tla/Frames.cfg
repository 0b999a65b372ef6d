\* Two threads write, the receive thread reads; the bytes of a frame arrive in pieces.
SPECIFICATION Spec
CONSTANTS
  Writers = {w1, w2}
  w1 = w1
  w2 = w2
  MaxFrames = 2
  HeaderSize = 2
  PayloadSize = 2
  OutLimit = 2
  None = None
INVARIANTS
  TypeOK
  FramesDoNotMix
  FramesWholeUntilShort
PROPERTIES
  WriteReturns
  FramesArrive
CHECK_DEADLOCK FALSE
