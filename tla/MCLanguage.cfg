SPECIFICATION MCSpec
CONSTANTS
  Vocabularies <- MCVocabularies
  Arguments <- MCArguments
  ClassCode <- MCClassCode
  Ints <- MCInts
  Bits = 3
  ByteMax = 1
  Made <- MCMade
  MaxDepth = 2
  MaxSteps = 80
  ObjectSize = 170
  ShortMax = 1000
  LineTaken = TRUE
  Loose = FALSE
INVARIANT
  CodeFits
  Refuses
PROPERTY
  IsProgram
CHECK_DEADLOCK FALSE
