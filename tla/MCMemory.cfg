CONSTANTS
  Descriptors = 3
  BlockLines = 25
  InitialFile <- MCInitialFile
  FactoryLines <- MCFactoryLines
  MenuValues <- MCMenuValues
  MenuAlarms <- MCMenuAlarms
  Outputs = {0, 1}
  Beginnings <- MCBeginnings
SPECIFICATION FairSpec
INVARIANTS
  StationInList
  RecordIsRecent
PROPERTIES
  SettledIsSaved
  SavedIsReadBack
CHECK_DEADLOCK FALSE
