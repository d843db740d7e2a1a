SPECIFICATION Spec
CONSTANTS
  nl = nl
  Chars = {ch}
  Low = {ch}
  NoArea = NoArea
  TBUFMAXLINE = 3
  TBUFSIZE = 2
  UNDOBUFSIZE = 12
  WIDTH_X = 2
  EDITWIDTHY = 2
  Files <- SomeFiles
  MaxClip = 2
  Uses <- AllUses
  StrayRead = FALSE
  Queued = FALSE
VIEW Control
INVARIANTS
  BuffersSound
  CursorShown
PROPERTIES
  IsDocument
CHECK_DEADLOCK FALSE
