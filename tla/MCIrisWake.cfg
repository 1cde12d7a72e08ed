CONSTANTS
  Users = {"player", "tts", "alarm"}
  InternalOnly = {"alarm"}
  Torn = FALSE
  DeviceFails = FALSE
  BtStates = {FALSE}
  Stations = 2
  StableIterations = 2
  SleepLimit = 1
  MaxPipe = 0
  StreamFaults = {"create", "status", "buffering"}
  CantInitModulus = 4
  EnoughBuffering = 4
  NewsItems = 1
  Garbage = FALSE
  HasSounds = TRUE
  AlarmFaults = {"end", "long"}
  SnoozeTime = 1
  SplitPoll = FALSE
  TellTime = "silent"
  AlarmTypes = {"stream", "sound"}
  Keys = {"TUNING"}
  Commands = {"NEXT"}
  Autoplay = TRUE
SPECIFICATION FairSpec
PROPERTIES
  WakeAnswered
  StableBeforeForgiven
CHECK_DEADLOCK FALSE
