SPECIFICATION Spec
CONSTANTS
  Threads = {t1, t2}
  Inputs = 1
  MaxCalls = 1
INVARIANT RecordIsOneLine
CHECK_DEADLOCK FALSE
