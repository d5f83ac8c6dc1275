CONSTANTS
  HeapStart = 6
  HeapEnd = 95
  HDR = 16
  SIZE_MOD = 256
  Sizes = {0, 9, 24}
SPECIFICATION FairSpec
INVARIANTS
  TypeOK
  Tiling
  HeldIntact
PROPERTIES
  FirstFit
  ReallocKeeps
  WalkAdvances
  CallsReturn
  ImplementsAllocator
CHECK_DEADLOCK FALSE
