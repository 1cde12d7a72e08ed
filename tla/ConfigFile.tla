------------------------------ MODULE ConfigFile ------------------------------
(***************************************************************************)
(* The configuration file (config/config.c): how G_config, the alarms and   *)
(* the lists become lines, and what the lines mean when they are read back. *)
(* A line is read by the sum of the characters of its name, in lower case   *)
(* (config.h): the sums are those of the names that are written.            *)
(*                                                                          *)
(* A number n is <<n>>.  A text is <<its letters, its length, the place of  *)
(* the first '#' in it or 0>>.  Only how many streams, feeds and sounds     *)
(* there are is kept, not which.                                            *)
(***************************************************************************)
EXTENDS Naturals, Sequences, SequencesExt

CONSTANTS
  BlockLines,   \* lines in one write of NVRAM_WRITE_SIZE bytes
  FactoryLines  \* the template from which the variable area is initialised

FileSize == 2 * BlockLines  \* NVRAM_SIZE is two such writes
Nul == [attrib |-> 0, value |-> <<0>>]
IsFile(lines) == lines = [i \in 1 .. FileSize |-> lines[i]]

Texts == {"wireless_ssid", "wireless_password", "wireless_driver", "ip_address", "ip_netmask",
          "ip_gateway", "timezone", "ntp_server", "weather_location", "bt_pair_with",
          "bt_speaker", "bt_source", "rapidapi_weather_key"}

(* PL_init. *)
InitialConfig ==
  [sleep_timer_time |-> <<40>>, snooze_timer_time |-> <<120>>, volume_level |-> <<50>>,
   tell_time_when_on |-> <<0>>, wireless_ssid |-> <<"none", 4, 0>>,
   wireless_password |-> <<"none", 4, 0>>, wireless_driver |-> <<" ", 1, 0>>,
   wireless_type |-> <<0>>, ip_address |-> <<"0.0.0.0", 7, 0>>,
   ip_netmask |-> <<"0.0.0.0", 7, 0>>, ip_gateway |-> <<"0.0.0.0", 7, 0>>,
   ssh_access |-> <<1>>, www_access |-> <<1>>, timezone |-> <<"UTC", 3, 0>>, use_ntp |-> <<0>>,
   ntp_server |-> <<"pool.ntp.org", 12, 0>>, debug |-> <<0>>, basic_menu |-> <<0>>,
   autoplay |-> <<0>>, bt_spk |-> <<0>>, bt_sink |-> <<0>>, tts_speed |-> <<100>>,
   tts_pitch |-> <<100>>, tts_volume |-> <<100>>, matrix_brightness |-> <<5>>,
   HW_volume_L |-> <<21>>, HW_volume_S |-> <<4>>, HW_mastervol |-> <<53>>,
   FFT_base_color |-> <<24>>, FFT_marker_color |-> <<19>>, matrix_clock_color |-> <<18>>,
   get_weather |-> <<0>>, matrix_temperature |-> <<0>>, matrix_weather |-> <<0>>,
   weather_location |-> <<" ", 1, 0>>, bt_pair_with |-> <<"", 0, 0>>,
   bt_speaker |-> <<"", 0, 0>>, bt_source |-> <<"", 0, 0>>,
   rapidapi_weather_key |-> <<" ", 1, 0>>]

Settings == DOMAIN InitialConfig

-----------------------------------------------------------------------------
(* PL_build_config: the settings in the order of their lines, the sums of   *)
(* the names they are written under, and the lengths below which a text is  *)
(* not written.                                                             *)
Order ==
  <<"sleep_timer_time", "snooze_timer_time", "volume_level", "tell_time_when_on",
    "wireless_ssid", "wireless_password", "wireless_driver", "wireless_type", "ip_address",
    "ip_netmask", "ip_gateway", "ssh_access", "www_access", "timezone", "use_ntp",
    "ntp_server", "debug", "basic_menu", "autoplay", "bt_spk", "bt_sink", "tts_speed",
    "tts_pitch", "tts_volume", "matrix_brightness", "HW_volume_L", "HW_volume_S",
    "HW_mastervol", "FFT_base_color", "FFT_marker_color", "matrix_clock_color",
    "get_weather", "matrix_temperature", "matrix_weather", "weather_location",
    "bt_pair_with", "bt_speaker", "bt_source", "rapidapi_weather_key">>

SumsWritten ==
  <<1177, 1310, 664, 959, 961, 1409, 1178, 976, 1054, 1067, 1066, 1055, 1078, 875, 766, 1096,
    519, 1046, 879, 643, 746, 971, 978, 1106, 1837, 2159, 2065, 1729, 1464, 1695, 1918, 1167,
    1954, 1508, 1704, 1276, 1056, 966, 2113>>

LeastLength == [weather_location |-> 3, bt_pair_with |-> 3, bt_speaker |-> 10, bt_source |-> 10,
                rapidapi_weather_key |-> 11]

IsWritten(setting, value) ==
  setting \in DOMAIN LeastLength => value[2] >= LeastLength[setting]

SettingLines(config) ==
  LET lines[i \in 0 .. Len(Order)] ==
        IF i = 0 THEN <<>>
        ELSE IF IsWritten(Order[i], config[Order[i]])
             THEN Append(lines[i - 1], [attrib |-> SumsWritten[i], value |-> config[Order[i]]])
             ELSE lines[i - 1]
  IN lines[Len(Order)]

Repeat(attrib, n) == [k \in 1 .. n |-> [attrib |-> attrib, value |-> <<k>>]]

(* memory is what a start of the program reads: config, alarms, how many    *)
(* streams, feeds and sounds.                                               *)
BuildConfig(memory) ==
  Repeat(652, memory.streams) \o Repeat(344, memory.feeds) \o Repeat(1173, memory.sounds)
    \o [k \in 1 .. Len(memory.alarms) |-> [attrib |-> 525, value |-> memory.alarms[k]]]
    \o SettingLines(memory.config)

(* The lines are written over what the buffer held, and end in a NUL.       *)
BuiltInto(buffer, lines) ==
  [i \in 1 .. FileSize |-> IF i <= Len(lines) THEN lines[i]
                           ELSE IF i = Len(lines) + 1 THEN Nul ELSE buffer[i]]

-----------------------------------------------------------------------------
(* PL_parse_config_av: the sums that its switch knows (the constants of      *)
(* config.h, in the order of the settings they stand for) ...               *)
SumsRead ==
  <<1177, 1310, 664, 959, 961, 1409, 1178, 976, 1054, 1067, 1066, 1055, 1078, 875, 766, 1096,
    519, 1046, 879, 643, 746, 971, 978, 1106, 1837, 2044, 2065, 1729, 1464, 1695, 1918, 1167,
    1954, 1508, 1704, 1276, 1056, 966, 2113>>

SettingOf ==
  [sum \in {SumsRead[i] : i \in 1 .. Len(SumsRead)} |->
     Order[CHOOSE i \in 1 .. Len(SumsRead) : SumsRead[i] = sum]]

(* ... and the numbers that are taken; the others are ignored.              *)
Accepted(setting, n) ==
  CASE setting = "sleep_timer_time" -> n % 65536 >= 1
    [] setting = "snooze_timer_time" -> n \in 10 .. 600
    [] setting \in {"bt_spk", "bt_sink"} -> n \in {0, 1}
    [] setting \in {"tts_speed", "tts_pitch", "tts_volume"} -> n \in 80 .. 120
    [] setting \in {"FFT_base_color", "FFT_marker_color", "matrix_clock_color"} -> n \in 1 .. 63
    [] OTHER -> TRUE

(* A '#' begins a comment, in the middle of a value too.                    *)
CutAtHash(text) == IF text[3] = 0 THEN text ELSE <<text[1], text[3] - 1, 0>>

ReadSetting(config, setting, value) ==
  IF setting \in Texts
  THEN IF CutAtHash(value)[2] > 0 THEN [config EXCEPT ![setting] = CutAtHash(value)] ELSE config
  ELSE IF Accepted(setting, value[1]) THEN [config EXCEPT ![setting] = value] ELSE config

(* PL_parse_alarm_spec: an alarm with other days or another state is        *)
(* ignored; another type or sound is replaced.                              *)
ReadAlarm(alarms, alarm) ==
  IF alarm.days_of_week > 127 \/ alarm.alarm_state \notin {0, 1} THEN alarms
  ELSE Append(alarms, [alarm EXCEPT !.alarm_type = IF @ > 128 THEN 0 ELSE @,
                                    !.sound_index = IF @ > 254 THEN 1 ELSE @])

ReadLine(memory, line) ==
  CASE line.attrib = 652  -> [memory EXCEPT !.streams = @ + 1]
    [] line.attrib = 344  -> [memory EXCEPT !.feeds = @ + 1]
    [] line.attrib = 1173 -> [memory EXCEPT !.sounds = @ + 1]
    [] line.attrib = 525  -> [memory EXCEPT !.alarms = ReadAlarm(@, line.value)]
    [] line.attrib \in DOMAIN SettingOf ->
         [memory EXCEPT !.config = ReadSetting(@, SettingOf[line.attrib], line.value)]
    [] OTHER -> memory

InitialMemory == [config |-> InitialConfig, alarms |-> <<>>, streams |-> 0, feeds |-> 0,
                  sounds |-> 0]

(* PL_get_next_config_line gives every line up to the NUL,                  *)
(* PL_parse_config_buffer reads them one after another.                     *)
LinesBeforeNul(file) ==
  LET end == SelectInSeq(file, LAMBDA line : line.attrib = Nul.attrib)
  IN IF end = 0 THEN file ELSE SubSeq(file, 1, end - 1)

Reading(lines) ==
  LET after[i \in 0 .. Len(lines)] ==
        IF i = 0 THEN InitialMemory ELSE ReadLine(after[i - 1], lines[i])
  IN after

ParseConfigBuffer(file) ==
  LET lines == LinesBeforeNul(file) IN Reading(lines)[Len(lines)]
=============================================================================
