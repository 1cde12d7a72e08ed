CONSTANTS
  KEYS_NO = 8
  Touched = {0, 1, 7}
  THRESHOLD1 = 2
  THRESHOLD2 = 4
  THRESHOLD3 = 6
  KEY_DELAY_NORMAL = 3
  KEY_DELAY_FAST = 2
  KEY_DELAY_FASTER = 2
  CounterLimit = 8
  Hours = {0, 9, 11, 12, 13, 23}
  MaxMinutes = 2
  TriesLimit = 6
  MaxBehind = 2
  HourInterval = 6
  TempInterval = 4
  SwapLimit = 8
  FrameCount <- MCFrameCount
  UNKNOWN = "unknown"
  FOG = "fog"
  MessageLength = 1
  DISPLAY_WIDTH = 1
  NEWS_LIST_LEN = 2
  NoFeed = NoFeed
  ItemsOf <- MCItemsOf
  AmpUsers = {"player", "tts"}
  GainsOf <- MCGainsOf
  InitialGains <- MCInitialGains
  Clients = {"tell_iris", "script"}
  Nobody = "nobody"
  Requests <- MCRequests
  Numbers <- MCNumbers
  G_rss_feed_count = 50
  Pending = 1
  Descriptors = 3
  BUFSIZ = 2
  FileLengths = {0, 1, 2, 5, 7}
  Connections = {"browser", "phone"}
  WebRequests <- MCWebRequests
  passwd <- MCPasswd
  ADMIN_LOGIN = "root"
  NONE = NONE
  Parts = {0, 2}
  Characters = {"<", ">", "'", "newline"}
  TextLimit = 4
  LengthModulus = 3
  TitleLength = 2
  NameLength <- MCNameLength
  Songs = {"march", "waltz"}
  NoPlayer = "no player"
  LinesOf <- MCLinesOf
  TitlesBehind = 2
  Loudest = 3
  SinkVolume = 1
  StreamVolumeAgain = 2
  HourTexts <- MCHours
  TempTexts <- MCTemps
  LineEnds = {1, 2, 3, 4, 5, 6}
  Tones = {0, 1, 2, 3, 15, 16, 231, 232, 237, 238, 245, 246, 253, 254, 255}
  Levels = {0, 1, 255}
  Columns = {"wifi", "bluetooth", "speech", "bell", "sleep", "buffer", "arrow"}
SPECIFICATION MCSpec
INVARIANTS
  NewsListSound
  PressIsTold
  SpokenTimeIsTrue
  
  VolumeIsHeard
  LinesAreStraight
  PictureIsFresh
  PowerFollowsFlag
  ItemSound
PROPERTIES
  
  ClockComesBack
  LastingWeatherIsShown
  GainsReachAmplifier
  
  
  RequestsAreAnswered
  LastingSongIsShown
