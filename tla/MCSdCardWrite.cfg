CONSTANTS
  FIFO = 3
  CMD_ARGS = 0
  IDLE_BYTES = 4
  R1_TRIES = 2
  TOKEN_TRIES = 2
  OP_TRIES = 2
  BUSY_TRIES = 7
  BLOCK = 1
  TAIL = 2
  Blocks <- TinyBlocks
  Slices <- TinySlices
SPECIFICATION FairSpec
PROPERTIES
  WriteReturns
CHECK_DEADLOCK FALSE
