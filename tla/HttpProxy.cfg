SPECIFICATION FairSpec
CONSTANTS
  MaxFd = 4
  Workers = {w1}
  Main = Main
  MaxRetry = 1
  Loads <- SmallLoads
  Reuse = FALSE
CHECK_DEADLOCK FALSE
INVARIANTS TypeOK   
 
