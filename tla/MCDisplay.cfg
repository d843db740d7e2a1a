SPECIFICATION MCSpec
CONSTANTS
  COLUMN_RES = 4
  ROW_RES = 6
  Cell = 2
  Bytes = 32
  FontData <- MCFontData
  LF = 10
  BS = 8
  Scripts <- MCScripts
  Missing = 1000
  CURSORCHAR = 3
  CURSORCHAR2 = 2
  CURSORCOLOR = 7
  NamedNum = 2
  TEMPVAR_NUMBER = 10
  ALLOC_BLOCK_NUM = 13
  HeapEnd = 60
  Digits <- MCDigits
  MINUS = 12
  DOLLAR = 15
  XS <- MCXs
  BACKSLASH = 11
  CR = 14
  TAB = 4
  SPACE = 13
  Narrow = 1
  NarrowTab = 2
  WideTab = 3
  LineMax = 3
INVARIANT
  ShowsText
PROPERTY
  IsPicture
CHECK_DEADLOCK FALSE
