\* A call over either transport, while two threads leave, the router says GOODBYE
\* or the link is lost.
SPECIFICATION Spec
CONSTANTS
  Leavers = {t1, t2}
  t1 = t1
  t2 = t2
  Transports = {"tcp", "unix"}
  Losses = {"ended", "reset"}
  InboxLimit = 3
  Ops = {"call"}
  Nested = {}
  Kind <- MCKind
  Topic <- MCTopic
  NumWorkers = 1
  MaxDeliveries = 0
  Absent = Absent
  MovedOut = MovedOut
INVARIANTS
  LeftMeansRouterLeft
  PromiseSetOnce
  ClosedMeansStopped
  ThreadsEndBeforeMembers
  NeverTerminates
PROPERTIES
  LeaveReturns
  LeaveClosesSession
  DestroyEnds
  AnswersArrive
  ImplementsOperation
CHECK_DEADLOCK FALSE
