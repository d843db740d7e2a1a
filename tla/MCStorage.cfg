CONSTANTS
  NClst = 5
  SS = 2
  FatSlots = 4
  DirSlots = 3
  Cards <- MCCards
  Files <- MCFiles
  Dirs <- MCDirs
  Renames <- MCRenames
  Lengths <- MCLengths
  OpenModes <- MCModes
  Data <- MCData
  MaxLen = 3
  MaxCalls = 3
  CutInRename = FALSE
  Careless = FALSE
  PlaysWave = FALSE
SPECIFICATION MCSpec
INVARIANT
  VolumeSound
PROPERTY
  IsStore
VIEW MCView
CHECK_DEADLOCK FALSE
