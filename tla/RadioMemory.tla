----------------------------- MODULE RadioMemory -----------------------------
(***************************************************************************)
(* The radio across power cuts: main starts it from the configuration file  *)
(* and the record of the persistence thread, a user and a network client    *)
(* change what is remembered, the setup menu saves the file in two writes,  *)
(* and the power fails at any moment (IRIS2/main.c, keyboard/keyboard-      *)
(* thread.c, system/commands.c, setup/setup.c, config/config.c).            *)
(***************************************************************************)
EXTENDS PersistenceThread, ConfigFile

CONSTANTS
  InitialFile,  \* the variable area when the program is first seen
  MenuValues,   \* what the setup menu can leave in a setting
  MenuAlarms,   \* what it can make of an alarm
  Outputs,      \* the output devices of the player
  Beginnings    \* bounds: how many keys, edits, saves and restarts there are, and
                \* what record an earlier life has left for it

ASSUME MemoryAssumption ==
  /\ BlockLines \in Nat \ {0}
  /\ IsFile(InitialFile) /\ IsFile(FactoryLines)
  /\ DOMAIN MenuValues \subseteq Settings
  /\ \A beginning \in Beginnings : IsRecord(beginning.record) /\ beginning.record.stream_index \in Nat

VARIABLES
  mainPc,             \* "loaded", "restored" or "started"
  memory,             \* G_config, G_alarms, and the lengths of G_streams,
                      \* G_rss_feeds and G_alarm_sounds
  G_working_config,   \* the buffer in which the file is built
  file,               \* the 8 KB of variables in NVRAM
  savePc,             \* "idle", or "half": the first of two writes is done
  keyboardPc,         \* "idle", or between the two halves of entering or leaving setup
  G_display_mode_save, G_dmur_save,
  budget,
  (* History, not in the program: *)
  starts,             \* how often the radio was started
  saved,              \* what the file was last meant to hold, and whether all of
                      \* it was written
  factory             \* the factory settings were loaded and nothing restored since

memoryVars  == <<memory, G_working_config, file, savePc, saved>>
keyboardVars == <<keyboardPc, G_display_mode_save, G_dmur_save>>
vars == <<savedVars, persistenceVars, historyVars, G_global_mode, mainPc, memoryVars,
          keyboardVars, budget, starts, factory>>

-----------------------------------------------------------------------------
(* PL_init, PL_load_config and PL_parse_config_buffer, and the start of the  *)
(* threads but that of the persistence thread.                              *)
NulBuffer == [i \in 1 .. FileSize |-> Nul]

Init ==
  /\ file = InitialFile
  /\ memory = ParseConfigBuffer(file)
  /\ G_volume = memory.config.volume_level[1]
  /\ saved = [memory |-> memory, whole |-> TRUE]
  /\ G_stream_index = 0 /\ G_rss_feed_index = 0 /\ G_prev_output_device = 0
  /\ G_player_mode = PLAYER_STOP /\ G_global_mode = "normal"
  /\ G_display_mode_upper_row = "meta" /\ G_display_mode_save = "meta" /\ G_dmur_save = "off"
  /\ mainPc = "loaded" /\ keyboardPc = "idle" /\ savePc = "idle"
  /\ G_working_config = NulBuffer
  /\ persistencePc = "off" /\ field = 0 /\ opened = 0 /\ persistence_data = Blank
  /\ \E beginning \in Beginnings : budget = beginning.budget /\ NVRAM = beginning.record
  /\ sincePass = Nothing /\ sinceLast = [f \in Restored |-> Is(f) \cup {NVRAM[f]}]
  /\ starts = 1 /\ factory = FALSE

Restart ==
  /\ budget.cuts > 0 /\ budget' = [budget EXCEPT !.cuts = @ - 1]
  /\ memory' = ParseConfigBuffer(file')
  /\ G_volume' = memory'.config.volume_level[1]
  /\ saved' = [memory |-> memory', whole |-> TRUE]
  /\ G_stream_index' = 0 /\ G_rss_feed_index' = 0 /\ G_prev_output_device' = 0
  /\ G_player_mode' = PLAYER_STOP /\ G_global_mode' = "normal"
  /\ G_display_mode_upper_row' = "meta" /\ G_display_mode_save' = "meta"
  /\ G_dmur_save' = "off"
  /\ mainPc' = "loaded" /\ keyboardPc' = "idle" /\ savePc' = "idle"
  /\ G_working_config' = NulBuffer
  /\ persistencePc' = "off" /\ field' = 0 /\ opened' = 0 /\ persistence_data' = Blank
  /\ starts' = starts + 1
  /\ UNCHANGED NVRAM
  /\ Noted

PowerCut == UNCHANGED <<file, factory>> /\ Restart

(* "[Factory init?]": nvram knows no zeroize_all, reinit copies the template *)
(* into the variable area, and the radio is rebooted.                       *)
FactoryInit ==
  /\ G_global_mode = "setup" /\ savePc = "idle"
  /\ file' = FactoryLines
  /\ Restart
  /\ factory' = TRUE

RestorePersistence ==
  /\ mainPc = "loaded" /\ mainPc' = "restored"
  /\ KeepPersistence(memory.streams)
  /\ persistencePc' = "load"
  /\ factory' = FALSE
  /\ UNCHANGED <<NVRAM, persistence_data, field, opened, G_global_mode, memoryVars,
                  keyboardVars, budget, starts>>
  /\ Noted

(* Four seconds later, if the user has not started the radio himself.        *)
Autoplay ==
  /\ mainPc = "restored" /\ mainPc' = "started"
  /\ G_player_mode' = IF memory.config.autoplay # <<0>> /\ G_player_mode = PLAYER_STOP
                      THEN PLAYER_STREAM ELSE G_player_mode
  /\ UNCHANGED <<G_stream_index, G_rss_feed_index, G_volume, G_display_mode_upper_row,
                  G_prev_output_device, G_global_mode, persistenceVars, memoryVars,
                  keyboardVars, budget, starts, factory>>
  /\ Noted

-----------------------------------------------------------------------------
(* What the keyboard and the commands change.  Indices are bytes.           *)
Spend(what) == budget[what] > 0 /\ budget' = [budget EXCEPT ![what] = @ - 1]

Neighbours(index, count) ==
  {IF index + 1 = count THEN 0 ELSE (index + 1) % 256,
   IF index = 0 THEN (count + 255) % 256 ELSE index - 1}

Elsewhere == UNCHANGED <<persistenceVars, mainPc, memoryVars, starts, factory>>

(* A tuning key, or the commands for the next and the previous station.      *)
ChooseStation ==
  /\ memory.streams > 0
  /\ G_stream_index' \in Neighbours(G_stream_index, memory.streams)
  /\ Spend("keys") /\ Elsewhere
  /\ UNCHANGED <<G_rss_feed_index, G_volume, G_player_mode, G_display_mode_upper_row,
                  G_prev_output_device, G_global_mode, keyboardVars>>
  /\ Noted

KeyPressed ==
  /\ keyboardPc = "idle" /\ G_global_mode = "normal" /\ Spend("keys") /\ Elsewhere

ChooseFeed ==
  /\ KeyPressed
  /\ G_display_mode_upper_row = "rss"
  /\ G_rss_feed_index' \in Neighbours(G_rss_feed_index, memory.feeds)
  /\ UNCHANGED <<G_stream_index, G_volume, G_player_mode, G_display_mode_upper_row,
                  G_prev_output_device, G_global_mode, keyboardVars>>
  /\ Noted

(* The volume is kept in hundredths.                                        *)
ChangeVolume ==
  /\ G_volume' \in {IF G_volume < 100 THEN G_volume + 2 ELSE G_volume,
                    IF G_volume > 2 THEN G_volume - 2 ELSE G_volume}
  /\ Spend("keys") /\ Elsewhere
  /\ UNCHANGED <<G_stream_index, G_rss_feed_index, G_player_mode, G_display_mode_upper_row,
                  G_prev_output_device, G_global_mode, keyboardVars>>
  /\ Noted

(* The radio is switched on or off, an alarm goes off or ends: when, is the  *)
(* matter of IrisSystem.  A stream that ends leaves its device behind.       *)
PlayerChanges ==
  /\ Spend("keys")
  /\ \/ /\ G_player_mode' \in {PLAYER_STOP, PLAYER_STREAM, ALARM_ACTIVE} \ {G_player_mode}
        /\ UNCHANGED G_prev_output_device
     \/ G_prev_output_device' \in Outputs /\ UNCHANGED G_player_mode
  /\ Elsewhere
  /\ UNCHANGED <<G_stream_index, G_rss_feed_index, G_volume, G_display_mode_upper_row,
                  G_global_mode, keyboardVars>>
  /\ Noted

(* KEY_SNOOZE_LEFT: the next of what the upper row can show.                *)
NextDisplay ==
  CASE G_display_mode_upper_row = "off" /\ G_display_mode_save # "off" -> G_display_mode_save
    [] G_display_mode_upper_row \in {"off", "rss"} -> "meta"
    [] G_display_mode_upper_row = "meta" /\ memory.feeds > 0 -> "vu"
    [] G_display_mode_upper_row = "vu" -> IF memory.feeds > 0 THEN "rss" ELSE "meta"
    [] OTHER -> G_display_mode_upper_row

DisplayKey ==
  /\ KeyPressed
  /\ \/ G_display_mode_upper_row' = NextDisplay /\ UNCHANGED G_display_mode_save
     \/ G_display_mode_upper_row' = "off" /\ G_display_mode_save' = G_display_mode_upper_row
  /\ UNCHANGED <<G_stream_index, G_rss_feed_index, G_volume, G_player_mode,
                  G_prev_output_device, G_global_mode, keyboardPc, G_dmur_save>>
  /\ Noted

(* The setup key: the row first and the mode 95 ms later; on the way out the *)
(* mode first and the row 5 ms later.                                       *)
EnterSetup ==
  /\ KeyPressed
  /\ keyboardPc' = "entering"
  /\ G_dmur_save' = G_display_mode_upper_row
  /\ G_display_mode_upper_row' = "setup"
  /\ UNCHANGED <<G_stream_index, G_rss_feed_index, G_volume, G_player_mode,
                  G_prev_output_device, G_global_mode, G_display_mode_save>>
  /\ Noted

SetupEntered ==
  /\ keyboardPc = "entering" /\ keyboardPc' = "idle"
  /\ G_global_mode' = "setup"
  /\ Elsewhere /\ UNCHANGED <<savedVars, historyVars, G_display_mode_save, G_dmur_save, budget>>

(* Wrong: the mode is left as it was until the row is restored.             *)
LeavesInSetup ==
  /\ keyboardPc = "idle" /\ G_global_mode = "setup"
  /\ keyboardPc' = "leaving"
  /\ Elsewhere
  /\ UNCHANGED <<G_global_mode, savedVars, historyVars, G_display_mode_save, G_dmur_save, budget>>

LeaveSetup ==
  /\ keyboardPc = "idle" /\ G_global_mode = "setup"
  /\ keyboardPc' = "leaving"
  /\ G_global_mode' = "normal"
  /\ Elsewhere /\ UNCHANGED <<savedVars, historyVars, G_display_mode_save, G_dmur_save, budget>>

SetupLeft ==
  /\ keyboardPc = "leaving" /\ keyboardPc' = "idle"
  /\ G_display_mode_upper_row' = G_dmur_save
  /\ Elsewhere
  /\ UNCHANGED <<G_stream_index, G_rss_feed_index, G_volume, G_player_mode,
                  G_prev_output_device, G_global_mode, G_display_mode_save, G_dmur_save, budget>>
  /\ Noted

-----------------------------------------------------------------------------
(* The setup menu.                                                          *)
InMenu == G_global_mode = "setup" /\ savePc = "idle"

EditMenu ==
  /\ InMenu /\ Spend("edits")
  /\ \/ \E setting \in DOMAIN MenuValues : \E value \in MenuValues[setting] :
          memory' = [memory EXCEPT !.config[setting] = value]
     \/ \E i \in DOMAIN memory.alarms, alarm \in MenuAlarms :
          memory' = [memory EXCEPT !.alarms[i] = alarm]
  /\ UNCHANGED <<savedVars, persistenceVars, historyVars, G_global_mode, mainPc,
                  G_working_config, file, savePc, saved, keyboardVars, starts, factory>>

(* PL_save_config: the file is built, and written in two halves.            *)
SaveFirstHalf ==
  LET whole == [memory EXCEPT !.config.volume_level = <<G_volume>>]
      built == BuiltInto(G_working_config, BuildConfig(whole))
  IN /\ InMenu /\ Spend("saves")
     /\ savePc' = "half"
     /\ G_working_config' = built
     /\ file' = SubSeq(built, 1, BlockLines) \o SubSeq(file, BlockLines + 1, FileSize)
     /\ saved' = [memory |-> whole, whole |-> FALSE]
     /\ UNCHANGED <<savedVars, persistenceVars, historyVars, G_global_mode, mainPc, memory,
                     keyboardVars, starts, factory>>

(* Wrong: the offset into the buffer does not follow that into the file.    *)
SavesFirstTwice ==
  /\ savePc = "half" /\ savePc' = "idle"
  /\ file' = SubSeq(file, 1, BlockLines) \o SubSeq(G_working_config, 1, BlockLines)
  /\ saved' = [saved EXCEPT !.whole = TRUE]
  /\ UNCHANGED <<savedVars, persistenceVars, historyVars, G_global_mode, mainPc, memory,
                  G_working_config, keyboardVars, budget, starts, factory>>

SaveSecondHalf ==
  /\ savePc = "half" /\ savePc' = "idle"
  /\ file' = SubSeq(file, 1, BlockLines) \o SubSeq(G_working_config, BlockLines + 1, FileSize)
  /\ saved' = [saved EXCEPT !.whole = TRUE]
  /\ UNCHANGED <<savedVars, persistenceVars, historyVars, G_global_mode, mainPc, memory,
                  G_working_config, keyboardVars, budget, starts, factory>>

-----------------------------------------------------------------------------
PersistenceStep ==
  Persistence /\ UNCHANGED <<mainPc, memoryVars, keyboardVars, budget, starts, factory>>

Next ==
  \/ PowerCut \/ FactoryInit \/ RestorePersistence \/ Autoplay
  \/ ChooseStation \/ ChooseFeed \/ ChangeVolume \/ PlayerChanges \/ DisplayKey
  \/ EnterSetup \/ SetupEntered \/ LeaveSetup \/ SetupLeft
  \/ EditMenu \/ SaveFirstHalf \/ SaveSecondHalf
  \/ PersistenceStep

Spec == Init /\ [][Next]_vars

(* The threads run; a user may stay in setup and press nothing.              *)
FairSpec ==
  /\ Spec
  /\ WF_vars(PersistenceStep)
  /\ WF_vars(RestorePersistence \/ Autoplay)
  /\ WF_vars(SetupEntered \/ SetupLeft)

-----------------------------------------------------------------------------
MemoryTypeOK ==
  /\ mainPc \in {"loaded", "restored", "started"}
  /\ G_stream_index \in 0 .. 255 /\ G_rss_feed_index \in 0 .. 255
  /\ G_volume \in 0 .. 101
  /\ G_player_mode \in {PLAYER_STOP, PLAYER_STREAM, ALARM_ACTIVE}
  /\ G_display_mode_upper_row \in {"off", "meta", "vu", "rss", "setup"}
  /\ persistencePc \in {"off", "load", "look", "compare", "sync"}
  /\ field \in 0 .. 6 /\ opened \in 0 .. Descriptors
  /\ persistencePc = "off" <=> mainPc = "loaded"
  /\ DOMAIN memory.config = Settings /\ Len(file) = FileSize
  /\ keyboardPc = "leaving" => G_global_mode = "normal"

(* The station selected is one of the configuration, though the record was   *)
(* written when there were more of them (persistence-thread.c:28).           *)
StationInList == G_stream_index < memory.streams

(* What a restart would restore was so when the last completed comparison    *)
(* began, or later: no global is left out of the comparisons, and no value   *)
(* is restored that the user changed before that.                           *)
RecordIsRecent == NVRAM.signature => \A f \in Restored : NVRAM[f] \in sinceLast[f]

(* Once setup is left for good, no alarm rings and descriptors remain, the   *)
(* record holds what the radio does.                                        *)
SettledIsSaved ==
  <>[](G_global_mode = "normal" /\ G_player_mode # ALARM_ACTIVE /\ opened < Descriptors)
    => <>[](\A f \in Restored : NVRAM[f] = Globals[f])

(* Values that the menu can set and a start does not take: the satellites'   *)
(* volume is written under a name that nothing reads, zero and 64 are out of *)
(* the ranges of parsing, a text is cut at a '#' and ignored when it is empty,*)
(* and some are not written when they are short.                            *)
ReadBack(setting, value) ==
  /\ setting # "HW_volume_L"
  /\ value = <<0>> => setting \notin {"sleep_timer_time", "FFT_base_color", "FFT_marker_color"}
  /\ value = <<64>> => setting \notin {"FFT_base_color", "FFT_marker_color"}
  /\ setting \in Texts =>
       /\ value[2] > 0 /\ value[3] = 0
       /\ setting = "bt_pair_with" => value[2] > 2
       /\ setting \in {"bt_source", "bt_speaker"} => value[2] > 9

(* A file that was saved to its end gives back, at whatever restart follows, *)
(* every setting (but those), every alarm in its place and every list.       *)
SavedIsReadBack ==
  [][starts' # starts /\ saved.whole /\ file' = file =>
       /\ \A s \in Settings : ReadBack(s, saved.memory.config[s]) =>
             memory'.config[s] = saved.memory.config[s]
       /\ memory'.alarms = saved.memory.alarms
       /\ memory'.streams = saved.memory.streams /\ memory'.feeds = saved.memory.feeds
       /\ memory'.sounds = saved.memory.sounds]_vars
=============================================================================
