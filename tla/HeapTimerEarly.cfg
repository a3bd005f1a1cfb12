SPECIFICATION DeadlineSpec
CONSTANTS
  Fds = {f1, f2}
  NoFd = NoFd
  Timeout = 1
  Capacity = 2
  MaxTime = 3
CHECK_DEADLOCK FALSE
PROPERTY ClosesOnlyAfterTimeout
