SPECIFICATION FairSpec
CONSTANTS
  Fds = {f1, f2}
  ListenFd = ListenFd
  Workers = {w1, w2}
  Main = Main
  MaxParts = 2
  MaxConns = 2
  Configs <- All
CHECK_DEADLOCK FALSE
INVARIANTS TypeOK ExactlyOneOwner UserCountExact NoLeakedDescriptor
PROPERTIES UntimedRefusesOnlyWhenFull InputIsRead ResponseIsWritten HangUpIsNoticed BacklogIsServed
