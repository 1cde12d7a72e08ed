CONSTANTS
  Users = {"player", "tts", "alarm"}
  InternalOnly = {"alarm"}
  Torn = FALSE
  DeviceFails = FALSE
  BtStates = {FALSE}
  Stations = 1
  StableIterations = 1
  SleepLimit = 1
  MaxPipe = 0
  StreamFaults = {"create", "status"}
  CantInitModulus = 4
  EnoughBuffering = 4
  NewsItems = 1
  Garbage = FALSE
  HasSounds = TRUE
  AlarmFaults = {"end"}
  SnoozeTime = 2
  SplitPoll = FALSE
  TellTime = "silent"
  AlarmTypes = {"stream"}
  Keys = {"ONOFF"}
  Commands = {}
  Autoplay = FALSE
SPECIFICATION Spec
PROPERTIES
  UserStartNeverRings
CHECK_DEADLOCK FALSE
