\* Two subscriptions, one event and an unsubscribe; the router may say GOODBYE.
SPECIFICATION Spec
CONSTANTS
  Leavers = {}
  Transports = {"unix"}
  Losses = {}
  InboxLimit = 2
  Ops = {"sub", "sub2", "unsub"}
  Nested = {}
  Kind <- MCKind
  Topic <- MCTopic
  NumWorkers = 1
  MaxDeliveries = 1
  Absent = Absent
  MovedOut = MovedOut
INVARIANTS
  TypeOKSession
  AnswersFindRequest
  AnswerIsOwn
  HandlerIsOwn
PROPERTIES
  ImplementsOperation
  PromisesAreFinal
CHECK_DEADLOCK FALSE
