\* One registration that is invoked twice: the handler is moved out by the first.
SPECIFICATION Spec
CONSTANTS
  Leavers = {}
  Transports = {"unix"}
  Losses = {"ended", "reset"}
  InboxLimit = 2
  Ops = {"reg"}
  Nested = {}
  Kind <- MCKind
  Topic <- MCTopic
  NumWorkers = 1
  MaxDeliveries = 2
  Absent = Absent
  MovedOut = MovedOut
INVARIANT InvocationRunsHandler
CHECK_DEADLOCK FALSE
