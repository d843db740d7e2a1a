SPECIFICATION FairSpec
CONSTANTS
  Uses = {"KEYS", "MUSIC", "WAVE"}
  Buttons = {0, 1}
  MaxAlarms = 1
  HandlerEnds = TRUE
INVARIANTS
  CodeTells
  NoEventLost
PROPERTIES
  TicksGoOn
  ChangeIsSeen
