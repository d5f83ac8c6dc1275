CONSTANTS
  Files <- MCFiles
  Rams <- MCRams
  Buffer = 2
  HeapRoom = 7
  UINT16 = 8
  WORDSIZE = 4
  DataSize = 6
  BssSize = 5
  OldLeft = 1
  TimeHalf = 2
  Pause = 2
  MaxTicks = 3
  Numbers = {1, 3}
  Texts <- MCTexts
  UART_FIFO = 2
SPECIFICATION Spec
INVARIANT ResultReturned
CHECK_DEADLOCK FALSE
