CONSTANTS
  HeapStart = 6
  HeapEnd = 103
  HDR = 16
  SIZE_MOD = 256
  Sizes = {0, 9, 24}
SPECIFICATION Spec
INVARIANT PrevIsListNode
CHECK_DEADLOCK FALSE
