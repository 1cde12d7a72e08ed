CONSTANTS
  Users = {"player", "tts", "alarm"}
  InternalOnly = {"alarm"}
  Torn = FALSE
  DeviceFails = TRUE
  BtStates = {TRUE, FALSE}
SPECIFICATION BassSpec
INVARIANTS
  BassInv
PROPERTIES
  ImplementsLibrary
