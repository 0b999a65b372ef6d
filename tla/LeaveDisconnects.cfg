\* The tests' assertion after leave(): is_connected() is FALSE.
SPECIFICATION LifecycleSpec
CONSTANTS
  Leavers = {t1}
  t1 = t1
  Transports = {"unix"}
  Losses = {"ended", "reset"}
  InboxLimit = 1
INVARIANT LeaveDisconnects
CHECK_DEADLOCK FALSE
