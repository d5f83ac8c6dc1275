CONSTANTS
  FIFO = 3
  CMD_ARGS = 0
  IDLE_BYTES = 4
  R1_TRIES = 7
  TOKEN_TRIES = 7
  OP_TRIES = 2
  BUSY_TRIES = 7
  BLOCK = 2
  TAIL = 2
  Blocks <- MCBlocks
  Slices <- MCSlices
SPECIFICATION FairSpec
INVARIANTS
  TypeOK
  NeverStarves
  NoStaleAnswer
  ReadRight
PROPERTIES
  CallsReturn
  CallsAdvance
CHECK_DEADLOCK FALSE
