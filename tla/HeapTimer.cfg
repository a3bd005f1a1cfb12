SPECIFICATION Spec
CONSTANTS
  Fds = {f1, f2, f3, f4}
  NoFd = NoFd
  Timeout = 2
  Capacity = 4
  MaxTime = 2
CHECK_DEADLOCK FALSE
SYMMETRY Symmetry
INVARIANTS TypeOK MinHeap OneTimerPerFd NeverOversleeps
PROPERTY TickServesAllExpired
