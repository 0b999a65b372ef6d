\* Two threads write, the receive thread reads; the bytes of a frame arrive in pieces.
SPECIFICATION Spec
CONSTANTS
  Writers = {w1, w2}
  w1 = w1
  w2 = w2
  MaxFrames = 3
  HeaderSize = 2
  PayloadSize = 2
  OutLimit = 2
  None = None
INVARIANT
  FramesReadWhole
CHECK_DEADLOCK FALSE
