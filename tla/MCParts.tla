------------------------------- MODULE MCParts -------------------------------
(***************************************************************************)
(* Fourteen parts that have nothing to do with one another, each in           *)
(* behaviours of its own: "part" says which of them moves.                   *)
(*                                                                          *)
(* The keypad has its eight keys, of which three are touched, the first and  *)
(* the last among them, and thresholds of a few scans; the hours are those    *)
(* around midnight and noon and one more; pictures have one and two frames;  *)
(* of three feeds one has no news, one an item, one more than fit; one of the *)
(* gains is changed; there are three volumes; two hours and two temperatures  *)
(* are drawn, and the tones at both ends of what a bar sums up; each of the    *)
(* indicators is looked at; two clients send commands with one name, with two,*)
(* with a name at the end, and with a number that is too large; files end     *)
(* before, in and behind a block, and the users of the system have each kind  *)
(* of password; texts have up to four characters; and of the two songs one is *)
(* told with all its lines.                                                 *)
(***************************************************************************)
EXTENDS KeyboardScan, TimeToSpeech, Bluetooth, WeatherScenery, NewsList, Amplifier,
        StreamVolume, MatrixGraphics, LowerRow, CommandSocket, WebServer, FetchedText,
        PlayerTitles

VARIABLE part

partVars == <<part, scanVars, tellVars, btVars, weatherVars, newsVars, ampVars,
              volumeVars, graphicsVars, rowVars, commandVars, webVars, textVars, titleVars>>

MCHours == {<<"1", "2", ":", "1", "2">>, <<" ", "2", " ", "2", "1">>}
MCTemps == {<<"2", "1", ".", "2", "C">>, <<"1", ".", "2", "C", "0">>}
MCItemsOf == [f \in 0 .. 2 |-> IF f = 2 THEN 3 ELSE f]
MCGainsOf == [n \in {"L", "S", "master"} |-> IF n = "master" THEN {1, 2} ELSE {4}]
MCInitialGains == [n \in {"L", "S", "master"} |-> IF n = "master" THEN 1 ELSE 4]
MCRequests ==
  {<<"vol_up">>, <<"vol_up", "vol_up">>, <<"x", "rss_reload">>, <<"read_rss", " ", "60">>}
MCNumbers == [n \in {"60"} |-> 60]
MCPasswd ==
  <<[name |-> "root", password |-> "a", salted |-> TRUE],
    [name |-> "root", password |-> "b", salted |-> TRUE],
    [name |-> "pi", password |-> "a", salted |-> FALSE]>>
MCAsk(method, segment, user, password, path) ==
  [method |-> method, segment |-> segment, key |-> path = "key", user |-> user,
   password |-> password, path |-> path]
MCWebRequests ==
  {MCAsk("GET", segment, NONE, NONE, "panel") : segment \in {"none", "api", "other", "admin"}}
    \cup {MCAsk("PUT", "admin", NONE, NONE, "panel"), MCAsk("GET", "api", NONE, NONE, "key"),
          MCAsk("GET", "admin", NONE, "b", "file"), MCAsk("GET", "admin", "root", "a", "file"),
          MCAsk("GET", "admin", "pi", "a", "file"), MCAsk("GET", "admin", "lp", "b", "panel"),
          MCAsk("GET", "admin", "root", "b", "panel"), MCAsk("GET", "admin", "root", "b", "dots"),
          MCAsk("POST", "admin", "root", "b", "panel")}
MCNameLength == [f \in {0, 1} |-> 3 + 10 * f]
MCLinesOf == [s \in {"march", "waltz"} |-> IF s = "waltz" THEN Fields ELSE {"Title", "Artist"}]
MCFrameCount == [w \in {"clear", "clouds"} |-> IF w = "clear" THEN 1 ELSE 2]

(* What does not matter to a part has one initial value.                  *)
MCInit ==
  /\ part \in {"keypad", "speech", "bluetooth", "matrix", "weather", "news", "amplifier",
              "volume", "graphics", "row", "commands", "web", "text", "titles"}
  /\ AmpInit
  /\ part # "amplifier" => \A g \in {HW_volume, HW_params_prev, registers} :
                            \A n \in GainNames : \A v \in GainsOf[n] : g[n] <= v
  /\ CommandsStart /\ (part # "commands" => lengthFits)
  /\ WebStart /\ (part # "web" => fileLength = 0)
  /\ TextInit /\ (part # "text" => rss_feed_index = 0)
  /\ TitlesInit /\ (part # "titles" => song = NoPlayer)
  /\ VolumeInit
  /\ GraphicsInit /\ (part # "graphics" => ~weatherShown /\ now = "nothing")
  /\ RowInit /\ (part # "row" => column = "bell")
  /\ NewsInit /\ (part # "news" => G_rss_feed_index = 0)
  /\ TellInit /\ (part # "speech" => clock = 0)
  /\ ScanInit /\ BtInit /\ PanelInit /\ SceneryInit
  /\ part # "matrix" => hour_temp_swap_interval = 0 /\ ~matrix_temperature
  /\ part # "weather" => ~get_weather /\ ~matrix_weather /\ ~scenery_cleared
  /\ part = "weather" => ~bt_sink
  /\ part \notin {"matrix", "weather"} => bt_sink

FromOutside == <<commandVars, webVars, textVars, titleVars>>
HeardAndSeen == <<volumeVars, graphicsVars, rowVars, FromOutside>>
OtherParts == <<scanVars, tellVars, btVars, weatherVars, newsVars, ampVars>>

(* With the weather, the bluetooth sink stays off.                          *)
KeypadMoves  == part = "keypad"
  /\ UNCHANGED <<part, HeardAndSeen, tellVars, btVars, weatherVars, newsVars, ampVars>>
SpeechMoves  == part = "speech"
  /\ UNCHANGED <<part, HeardAndSeen, scanVars, btVars, weatherVars, newsVars, ampVars>>
PairingMoves == part = "bluetooth"
  /\ UNCHANGED <<part, HeardAndSeen, scanVars, tellVars, weatherVars, newsVars, ampVars>>
PanelMoves   == part = "matrix" /\ WeatherElsewhere
  /\ UNCHANGED <<part, HeardAndSeen, scanVars, tellVars, btVars, newsVars, ampVars>>
WeatherMoves == part = "weather"
  /\ UNCHANGED <<part, HeardAndSeen, bt_sink, scanVars, tellVars, btVars, newsVars, ampVars>>
NewsMoves    == part = "news"
  /\ UNCHANGED <<part, HeardAndSeen, scanVars, tellVars, btVars, weatherVars, ampVars>>
AmpMoves     == part = "amplifier"
  /\ UNCHANGED <<part, HeardAndSeen, scanVars, tellVars, btVars, weatherVars, newsVars>>
VolumeMoves   == part = "volume" /\ UNCHANGED <<part, OtherParts, graphicsVars, rowVars, FromOutside>>
GraphicsMoves == part = "graphics" /\ UNCHANGED <<part, OtherParts, volumeVars, rowVars, FromOutside>>
RowMoves      == part = "row" /\ UNCHANGED <<part, OtherParts, volumeVars, graphicsVars, FromOutside>>
InsideParts == <<OtherParts, volumeVars, graphicsVars, rowVars>>
CommandsMove  == part = "commands" /\ UNCHANGED <<part, InsideParts, webVars, textVars, titleVars>>
WebMoves      == part = "web" /\ UNCHANGED <<part, InsideParts, commandVars, textVars, titleVars>>
TextMoves     == part = "text" /\ UNCHANGED <<part, InsideParts, commandVars, webVars, titleVars>>
TitlesMove    == part = "titles" /\ UNCHANGED <<part, InsideParts, commandVars, webVars, textVars>>

MCNext ==
  \/ KeypadMoves /\ ScanNext
  \/ SpeechMoves /\ TellNext
  \/ PairingMoves /\ BtNext
  \/ PanelMoves /\ PanelNext
  \/ WeatherMoves /\ WeatherNext
  \/ NewsMoves /\ NewsNext
  \/ AmpMoves /\ AmpNext
  \/ VolumeMoves /\ VolumeNext
  \/ GraphicsMoves /\ GraphicsNext
  \/ RowMoves /\ RowNext
  \/ CommandsMove /\ CommandsNext
  \/ WebMoves /\ WebNext
  \/ TextMoves /\ TextNext
  \/ TitlesMove /\ TitlesNext

(* The fairness of BtSpec, PanelSpec, WeatherSpec, AmpSpec, RowSpec,          *)
(* CommandsSpec, WebSpec and TitlesSpec.                                     *)
MCSpec ==
  /\ MCInit /\ [][MCNext]_partVars
  /\ WF_btVars(part = "bluetooth" /\ BtThread) /\ WF_btVars(part = "bluetooth" /\ BtAnswers)
  /\ WF_panelVars(part = "matrix" /\ AnalyserStep) /\ WF_panelVars(part = "matrix" /\ Clock)
  /\ WF_weatherVars(part = "weather" /\ MatrixDraws)
  /\ WF_weatherVars(part = "weather" /\ ClockMoves)
  /\ WF_weatherVars(part = "weather" /\ Scenery)
  /\ WF_ampVars(part = "amplifier" /\ Control)
  /\ \A u \in AmpUsers : WF_ampVars(part = "amplifier" /\ AmpUserStep(u))
  /\ WF_rowVars(part = "row" /\ RowDrawer) /\ WF_rowVars(part = "row" /\ RowKeys)
  /\ WF_rowVars(part = "row" /\ RowMenu)
  /\ WF_commandVars(part = "commands" /\ CommandServer)
  /\ \A c \in Clients : WF_commandVars(part = "commands" /\ ClientStep(c))
  /\ WF_webVars(part = "web" /\ PL_websrv_thread)
  /\ \A c \in Connections : WF_webVars(part = "web" /\ Handler(c))
  /\ WF_titleVars(part = "titles" /\ TitlesThread)
  /\ WF_titleVars(part = "titles" /\ PlayerAnswers)
=============================================================================
