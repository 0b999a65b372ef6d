\* A registration over TCP whose handler makes a call, its end, two invocations
\* on one worker, and the destruction of the session at any time.
SPECIFICATION Spec
CONSTANTS
  Leavers = {}
  Transports = {"tcp"}
  Losses = {}
  InboxLimit = 2
  Ops = {"reg", "unreg", "call"}
  Nested = {"call"}
  Kind <- MCKind
  Topic <- MCTopic
  NumWorkers = 1
  MaxDeliveries = 2
  Absent = Absent
  MovedOut = MovedOut
INVARIANTS
  InvocationFindsRegistration
  UnregisterRemoves
  CrashesOnlyInDestruction
  NoWaitOutlivesMaps
PROPERTIES
  InvocationsSeenThrough
  DestroyEnds
  UsesTaskPool
CHECK_DEADLOCK FALSE
