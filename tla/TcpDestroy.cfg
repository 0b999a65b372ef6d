\* Connect, leave and destroy over TCP.
SPECIFICATION LifecycleSpec
CONSTANTS
  Leavers = {t1}
  t1 = t1
  Transports = {"tcp"}
  Losses = {"ended", "reset"}
  InboxLimit = 1
INVARIANT LeaveThenDestroy
CHECK_DEADLOCK FALSE
