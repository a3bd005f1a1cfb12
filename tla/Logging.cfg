SPECIFICATION LoggingSpec
CONSTANTS
  Buffers = {b1, b2, b3, b4, b5, b6, b7}
  NoBuffer = NoBuffer
  BufLines = 2
  LongLines = {2, 5}
  MaxPending = 3
  MaxLines = 9
  FlushEvery = 2
  SizeLimit = 3
  MaxRestarts = 1
CHECK_DEADLOCK FALSE
INVARIANTS TypeOK EnoughToRecycle NoSharedBuffer NoLineLost FilesHoldTheLog RoundIsFlushed
PROPERTIES RotatedIsFinal LineIsOnDisk
