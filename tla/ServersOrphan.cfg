SPECIFICATION Spec
CONSTANTS
  MaxPid = 3
  DocLists <- Lists
  NoProxy = NoProxy
  NoPart = NoPart
CHECK_DEADLOCK FALSE
INVARIANT NobodyOutlivesMain
