\* Three workers, four tasks, and the destructor.
SPECIFICATION Spec
CONSTANTS
  Workers = {w1, w2, w3}
  w1 = w1
  w2 = w2
  w3 = w3
  MaxTasks = 4
  None = None
INVARIANTS
  TypeOK
  WorkIsSeen
  WorkersLeaveNothing
PROPERTY ImplementsTaskPool
CHECK_DEADLOCK FALSE
