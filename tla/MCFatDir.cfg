CONSTANTS
  Media <- MCMedia
  WORD = 256
  FAT32_LAST_CLUSTER_VALID = 31
  MAX_LFN_PARTS = 2
  Garbage = {0, 1, 2}
  Paths <- MCPaths
SPECIFICATION FairSpec
INVARIANTS
  TypeOK
  ListsAll
  FindsTarget
PROPERTIES
  LookupsEnd
  WalksOn
CHECK_DEADLOCK FALSE
