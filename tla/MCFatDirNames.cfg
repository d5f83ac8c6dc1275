CONSTANTS
  Media <- MCMedia
  WORD = 256
  FAT32_LAST_CLUSTER_VALID = 31
  MAX_LFN_PARTS = 2
  Garbage = {0, 1, 2}
  Paths <- MCPaths
SPECIFICATION Spec
INVARIANT LongNames
CHECK_DEADLOCK FALSE
