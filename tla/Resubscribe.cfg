\* Subscribe, unsubscribe, subscribe again to one topic, then an event.
SPECIFICATION Spec
CONSTANTS
  Leavers = {}
  Transports = {"unix"}
  Losses = {"ended", "reset"}
  InboxLimit = 2
  Ops = {"sub", "unsub", "resub"}
  Nested = {}
  Kind <- MCKind
  Topic <- MCTopic
  NumWorkers = 1
  MaxDeliveries = 1
  Absent = Absent
  MovedOut = MovedOut
INVARIANT EventHandlerInForce
CHECK_DEADLOCK FALSE
