CONSTANTS
  Media <- MCMedia
  WORD = 64
  FAT32_LAST_CLUSTER_VALID = 31
  MAX_OPEN_FILES = 2
  UINT16 = 8
  ReadSizes = {1, 5}
SPECIFICATION FairSpec
INVARIANTS
  ClustersInside
  WithinBounds
  StraysLittle
PROPERTIES
  ImplementsFileApi
  ReadsReturn
  ReadsAdvance
CHECK_DEADLOCK FALSE
