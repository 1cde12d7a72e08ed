CONSTANTS
  Users = {"player", "tts", "alarm"}
  InternalOnly = {"alarm"}
  Torn = FALSE
  DeviceFails = FALSE
  BtStates = {FALSE}
  Stations = 1
  StableIterations = 1
  SleepLimit = 1
  MaxPipe = 1
  StreamFaults = {"create"}
  CantInitModulus = 4
  EnoughBuffering = 2
  NewsItems = 2
  Garbage = FALSE
  HasSounds = FALSE
  AlarmFaults = {}
  SnoozeTime = 1
  SplitPoll = FALSE
  TellTime = "when_on"
  AlarmTypes = {"rss"}
  Keys = {"CENTER_LONG"}
  Commands = {"RSS", "TIME", "STOP"}
  Autoplay = FALSE
SPECIFICATION FairSpec
INVARIANTS
  SilentWhenReading
PROPERTIES
  SpeechEnds
CHECK_DEADLOCK FALSE
