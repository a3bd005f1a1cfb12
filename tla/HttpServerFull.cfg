SPECIFICATION Spec
CONSTANTS
  Fds = {f1}
  ListenFd = ListenFd
  Workers = {w1}
  Main = Main
  MaxParts = 1
  MaxConns = 2
  Configs <- OnlyTimed
CHECK_DEADLOCK FALSE
PROPERTY RefusesOnlyWhenFull
