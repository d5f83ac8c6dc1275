CONSTANTS
  Words <- MCWords
  ShortNames <- MCShortNames
  Base = 3
  Ext = 2
  LongTexts <- MCLongTexts
  Fields <- MCFields
  RowSize = 16
  MAX_FILENAME_LEN = 7
  Images <- MCImages
  MAX_FILE_SIZE = 252
SPECIFICATION Spec
INVARIANTS
  NumbersRight
  NamesTellApart
  SumDetects
  LongNameRight
  CrcRight
