SPECIFICATION Spec
CONSTANTS
  Radix = 8
  LenSize = 2
  MaxBody = 3
  TmSize = 1
  StatusSize = 2
  Cap = 10
  Chunk = 4
  JunkBytes = {0, 1, 7}
  MaxItems = 3
INVARIANTS CutsInvisible EchoesReturn ServerKeepsReading
