SPECIFICATION Spec
CONSTANTS
  Names = {"A"}
  TempFile = "~TEMP"
  NoName = "none"
  DirNames = {"D"}
  MaxDepth = 1
  Typed <- SomeTyped
  Empty = "empty"
  Torn = "torn"
  Junk = "junk"
  Huge = {"long"}
  FirstDisk <- SomeDisk
  Columns = 2
  Rows = 1
  MAXFILENUM = 3
  MaxFaults = 2
  MaxCuts = 1
VIEW Live
INVARIANTS
  SelectionShown

  
CHECK_DEADLOCK FALSE
