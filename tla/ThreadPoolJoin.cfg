\* One worker, no task: is the destructor's join certain to return?
SPECIFICATION Spec
CONSTANTS
  Workers = {w1}
  w1 = w1
  MaxTasks = 1
  None = None
PROPERTY JoinReturns
CHECK_DEADLOCK FALSE
