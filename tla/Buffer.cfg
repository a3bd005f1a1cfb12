SPECIFICATION Spec
CONSTANTS
  z = z
  c1 = c1
  c2 = c2
  Byte <- MCByte
  Zero = z
  Strings <- MCStrings
  Bufs = {read, write}
  MaxLen = 2
  InitSize = 2
  MaxSize = 4
SYMMETRY Symmetry
INVARIANTS TypeOK WipedBehind
PROPERTY ImplementsByteQueue
