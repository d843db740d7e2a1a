\* A small heap: one variable of the program, two temporary and two permanent blocks, and a list
\* of two deleted areas.
SPECIFICATION Spec
CONSTANTS
  NamedNum = 1
  TEMPVAR_NUMBER = 2
  ALLOC_BLOCK_NUM = 5
  DELETE_LIST_SIZE = 2
  HeapBegin = 1
  HeapEnd = 6
  SizeMod = 8
  Sizes = {1, 2, 3}
VIEW View
INVARIANTS
  TypeOK
  NoOverlap
  DeletedStayFree
PROPERTIES
  OutOfMemoryIsReal
  KeepsPromise
