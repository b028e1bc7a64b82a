SPECIFICATION FairSpec
CONSTANTS
  MaxEdits = 2
  MaxTurns = 1
  MaxOthers = 1
  MaxStray = 1
  TooLarge = {2}
  Retries = 2
INVARIANTS
  DirtyUntilSaved
  ConflictHasCause
PROPERTIES
  UnloadNotSilent
  NoStaleOverwrite
  EditSavedOrTold
CHECK_DEADLOCK FALSE
