CONSTANTS
  Users = {"player", "tts", "alarm"}
  InternalOnly = {"alarm"}
  Torn = TRUE
  DeviceFails = TRUE
  BtStates = {TRUE, FALSE}
  Stations = 1
  StableIterations = 1
  SleepLimit = 2
  MaxPipe = 0
  StreamFaults = {"create", "status", "stall"}
  CantInitModulus = 4
  EnoughBuffering = 2
  NewsItems = 1
  Garbage = FALSE
  HasSounds = TRUE
  AlarmFaults = {"end"}
  SnoozeTime = 2
  SplitPoll = FALSE
  TellTime = "silent"
  AlarmTypes = {}
  Keys = {"ONOFF", "ONOFF_LONG", "SETUP", "CENTER"}
  Commands = {"START"}
  Autoplay = FALSE
SPECIFICATION FairSpec
PROPERTIES
  StopIsObeyed
  SleepTimerKeepsTime
  SleepTimerFires
  SnoozeEnds
  
CHECK_DEADLOCK FALSE
