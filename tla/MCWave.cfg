SPECIFICATION FairSpec
CONSTANTS
  tune = tune
  long = long
  Half = 2
  Files = {tune, long}
  Units <- LongFiles
  MaxUnits = 7
  NoFile = NoFile
  CALLBACK_BUFFER_NUM = 2
  MaxLag = 1
  SlowRead = FALSE
  Programs <- TwoPrograms
VIEW Control
INVARIANTS
  BufferSound
  EndsClean
  
PROPERTIES
  PlaysFile
  WaveEnds
CHECK_DEADLOCK FALSE
