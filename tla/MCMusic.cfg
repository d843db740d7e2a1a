SPECIFICATION FairSpec
CONSTANTS
  NOTES = 4
  Tunes <- TwoTunes
  Sounds <- TwoSounds
  LenBound = 4
  Waves = TRUE
  TickInStores = FALSE
  HandlerPlays = TRUE
  Reenter = FALSE
INVARIANTS
  PlaysAsAsked
PROPERTIES
  TuneAnnounced
  MusicMoves
