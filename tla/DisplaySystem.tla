---------------------------- MODULE DisplaySystem ----------------------------
(***************************************************************************)
(* The upper row of the display and those who write on it: the player's     *)
(* display thread (player/player-thread.c), the RSS reader, the setup menu, *)
(* and the keys and commands that change what it shall show (keyboard/      *)
(* keyboard-thread.c, system/commands.c).                                   *)
(***************************************************************************)
EXTENDS NewsList

VARIABLES
  G_player_mode, G_global_mode,
  displayPc, G_vu_active, G_kill_vu,
  keyboardPc,
  G_display_mode_save, G_dmur_save   \* forgotten ("off") once they have been restored

modeVars     == <<G_player_mode, G_global_mode>>
displayVars  == <<displayPc, G_vu_active, G_kill_vu>>
keyboardVars == <<keyboardPc, G_display_mode_save, G_dmur_save>>
vars == <<scrollVars, upperRow, G_display_lock, G_display_mode_upper_row, G_rss_feed_index,
          listVars, readerVars, speechVars, modeVars, displayVars, keyboardVars>>

PLAYER_STOP   == "stop"
PLAYER_STREAM == "stream"

Init ==
  /\ NewsInit
  /\ G_player_mode = PLAYER_STOP /\ G_global_mode = "normal"
  /\ displayPc = "loop" /\ G_vu_active = FALSE /\ G_kill_vu = FALSE
  /\ keyboardPc = "idle" /\ G_display_mode_save = "off" /\ G_dmur_save = "off"

-----------------------------------------------------------------------------
(* PL_player_display_thread.                                                *)
Elsewhere ==
  UNCHANGED <<G_display_lock, G_display_mode_upper_row, G_rss_feed_index, listVars, readerVars,
              speechVars, modeVars, keyboardVars>>

DisplayClearsVu ==
  /\ displayPc = "loop" /\ G_kill_vu /\ G_display_lock = "free"
  /\ upperRow' = "blank" /\ G_kill_vu' = FALSE /\ G_vu_active' = FALSE
  /\ UNCHANGED <<displayPc, scrollVars>> /\ Elsewhere

Shows(mode) == G_display_mode_upper_row = mode /\ G_player_mode = PLAYER_STREAM

DisplayChooses ==
  /\ displayPc = "loop" /\ ~G_kill_vu
  /\ \/ /\ Shows("meta") /\ displayPc' = "scroll"
        /\ ScrollBegins("meta") /\ UNCHANGED G_vu_active
     \/ /\ Shows("vu") /\ displayPc' = "vu"
        /\ G_vu_active' = TRUE /\ UNCHANGED scrollVars
  /\ UNCHANGED <<upperRow, G_kill_vu>> /\ Elsewhere

DisplayScrolled ==
  /\ displayPc = "scroll" /\ displayPc' = "loop"
  /\ scrollPc["meta"] = "off"
  /\ UNCHANGED <<upperRow, G_kill_vu, G_vu_active, scrollVars>> /\ Elsewhere

DisplayDrawsVu ==
  /\ displayPc = "vu" /\ displayPc' = "loop"
  /\ G_display_lock = "free" /\ upperRow' = "vu"
  /\ UNCHANGED <<G_kill_vu, G_vu_active, scrollVars>> /\ Elsewhere

Display == DisplayClearsVu \/ DisplayChooses \/ DisplayScrolled \/ DisplayDrawsVu

ScrollStep == (\E s \in Scrolls : Scroll(s)) /\ UNCHANGED <<displayVars, G_display_mode_upper_row,
   G_rss_feed_index, listVars, readerVars, speechVars, modeVars, keyboardVars>>

-----------------------------------------------------------------------------
(* The keys.                                                                *)
Pressed ==
  /\ keyboardPc = "idle" /\ G_global_mode = "normal"
  /\ UNCHANGED <<keyboardPc, G_global_mode, displayPc, G_vu_active, G_scroll_active, scroll_pos,
                  scrollPc, upperRow, G_display_lock, listVars, readerVars>>

(* KEY_SNOOZE_LEFT.                                                         *)
NextMode ==
  CASE G_display_mode_upper_row = "off" -> IF G_display_mode_save = "off" THEN "meta"
                                           ELSE G_display_mode_save
    [] G_display_mode_upper_row = "rss"  -> "meta"
    [] G_display_mode_upper_row = "meta" -> "vu"
    [] G_display_mode_upper_row = "vu"   -> "rss"
    [] OTHER -> G_display_mode_upper_row

KeyNextMode ==
  /\ Pressed
  /\ G_display_mode_upper_row' = NextMode
  /\ Kill({G_display_mode_upper_row})
  /\ G_kill_vu' = (G_kill_vu \/ (G_display_mode_upper_row = "vu" /\ G_vu_active))
  /\ G_display_mode_save' = IF G_display_mode_upper_row = "off" THEN "off" ELSE G_display_mode_save
  /\ UNCHANGED <<G_dmur_save, G_player_mode, G_rss_feed_index, speechVars>>

(* KEY_SNOOZE_LEFT_LONG leaves a level meter where it is.                    *)
KeyRowOff ==
  /\ Pressed
  /\ G_display_mode_save' = G_display_mode_upper_row
  /\ G_display_mode_upper_row' = "off"
  /\ Kill(IF G_scroll_active["meta"] THEN {"meta"} ELSE {"rss"})
  /\ UNCHANGED <<G_kill_vu, G_dmur_save, G_player_mode, G_rss_feed_index, speechVars>>

(* The on/off key, and the commands to stop and to start.                   *)
SwitchedOnOrOff ==
  /\ Pressed
  /\ IF G_player_mode = PLAYER_STREAM
     THEN G_player_mode' = PLAYER_STOP /\ Kill({"meta"})
     ELSE G_player_mode' = PLAYER_STREAM /\ UNCHANGED G_kill_scroll
  /\ UNCHANGED <<G_kill_vu, G_display_mode_upper_row, G_display_mode_save, G_dmur_save,
                  G_rss_feed_index, speechVars>>

(* A tuning key: another station, or another feed.                           *)
KeyTunes ==
  /\ Pressed
  /\ \/ /\ Shows("meta") \/ Shows("vu")
        /\ Kill({"meta"}) /\ UNCHANGED G_rss_feed_index
     \/ /\ G_display_mode_upper_row = "rss"
        /\ Kill({"rss"}) /\ G_rss_feed_index' \in Feeds \ {G_rss_feed_index}
  /\ UNCHANGED <<G_kill_vu, G_display_mode_upper_row, G_display_mode_save, G_dmur_save,
                  G_player_mode, speechVars>>

KeyElsewhere ==
  UNCHANGED <<displayPc, G_vu_active, G_scroll_active, scroll_pos, scrollPc, G_rss_feed_index,
              listVars, readerVars, speechVars, G_player_mode, G_display_mode_save>>

(* Wrong: the mode is saved when it has been changed already.               *)
EntersSavingLate ==
  /\ keyboardPc = "idle" /\ G_global_mode = "normal"
  /\ keyboardPc' = "entering"
  /\ G_display_mode_upper_row' = "setup" /\ G_dmur_save' = "setup"
  /\ Kill(Scrolls)
  /\ G_kill_vu' = (G_kill_vu \/ G_vu_active)
  /\ UNCHANGED <<G_global_mode, upperRow, G_display_lock>> /\ KeyElsewhere

KeyEntersSetup ==
  /\ keyboardPc = "idle" /\ G_global_mode = "normal"
  /\ keyboardPc' = "entering"
  /\ G_dmur_save' = G_display_mode_upper_row
  /\ G_display_mode_upper_row' = "setup"
  /\ Kill(Scrolls)
  /\ G_kill_vu' = (G_kill_vu \/ G_vu_active)
  /\ UNCHANGED <<G_global_mode, upperRow, G_display_lock>> /\ KeyElsewhere

SetupEntered ==
  /\ keyboardPc = "entering" /\ keyboardPc' = "idle"
  /\ G_display_lock = "free" /\ upperRow' = "blank"
  /\ G_global_mode' = "setup"
  /\ UNCHANGED <<G_display_lock, G_dmur_save, G_display_mode_upper_row, G_kill_scroll, G_kill_vu>>
  /\ KeyElsewhere

KeyLeavesSetup ==
  /\ keyboardPc = "idle" /\ G_global_mode = "setup"
  /\ keyboardPc' = "leaving" /\ G_global_mode' = "normal"
  /\ UNCHANGED <<upperRow, G_display_lock, G_dmur_save, G_display_mode_upper_row, G_kill_scroll,
                  G_kill_vu>>
  /\ KeyElsewhere

SetupLeft ==
  /\ keyboardPc = "leaving" /\ keyboardPc' = "idle"
  /\ G_display_mode_upper_row' = G_dmur_save /\ G_dmur_save' = "off"
  /\ UNCHANGED <<G_global_mode, upperRow, G_display_lock, G_kill_scroll, G_kill_vu>>
  /\ KeyElsewhere

-----------------------------------------------------------------------------
(* An item of the menu is open under the lock, and leaves both rows blank.   *)
MenuElsewhere ==
  UNCHANGED <<scrollVars, displayVars, G_display_mode_upper_row, G_rss_feed_index, listVars,
              readerVars, speechVars, modeVars, keyboardVars>>

MenuOpens ==
  /\ G_global_mode = "setup" /\ G_display_lock = "free"
  /\ G_display_lock' = "menu" /\ upperRow' = "menu"
  /\ MenuElsewhere

MenuCloses ==
  /\ G_display_lock = "menu"
  /\ G_display_lock' = "free" /\ upperRow' = "blank"
  /\ MenuElsewhere

-----------------------------------------------------------------------------
NewsReaderStep == ReaderStep /\ UNCHANGED <<modeVars, displayVars, keyboardVars>>

Next ==
  \/ ScrollStep \/ NewsReaderStep \/ Display
  \/ KeyNextMode \/ KeyRowOff \/ SwitchedOnOrOff \/ KeyTunes
  \/ KeyEntersSetup \/ SetupEntered \/ KeyLeavesSetup \/ SetupLeft
  \/ MenuOpens \/ MenuCloses

Spec == Init /\ [][Next]_vars

(* The threads run, keys that were pressed are carried out, an item that was *)
(* left closes, and a feed that is fetched again and again comes at last.    *)
FairSpec ==
  /\ Spec
  /\ \A s \in Scrolls : WF_vars(ScrollStep /\ Scroll(s))
  /\ WF_vars(NewsReaderStep) /\ SF_vars(NewsReaderStep /\ ReaderFetches) /\ WF_vars(Display)
  /\ WF_vars(SetupEntered \/ SetupLeft)
  /\ WF_vars(MenuCloses /\ G_global_mode = "normal")

-----------------------------------------------------------------------------
Modes == {"off", "meta", "vu", "rss", "setup"}

DisplayTypeOK ==
  /\ NewsTypeOK /\ NewsListSound
  /\ scroll_pos \in [Scrolls -> 0 .. LastPosition]
  /\ \A s \in Scrolls : G_scroll_active[s] <=> scrollPc[s] # "off"
  /\ scrollPc["meta"] # "off" => displayPc = "scroll"
  /\ upperRow \in {"blank", "rss", "meta", "vu", "menu"}
  /\ G_display_mode_upper_row \in Modes
  /\ G_dmur_save \in Modes \ {"setup"} /\ G_display_mode_save \in Modes \ {"setup"}

(* A scroll that is no longer wanted leaves nothing of itself on the row.    *)
Wanted(s) == G_display_mode_upper_row = s /\ (s = "meta" => G_player_mode = PLAYER_STREAM)
ScrollGoesAway == \A s \in Scrolls : <>[]~Wanted(s) => <>[](upperRow # s)

(* Whoever stays with a feed that has news sees it again and again, whatever *)
(* feeds, modes and menus came before.                                      *)
ChosenFeedIsScrolled ==
  \A f \in {g \in Feeds : ItemsOf[g] > 0} :
    <>[](G_display_mode_upper_row = "rss" /\ G_rss_feed_index = f)
      => []<>(upperRow = "rss" /\ current_item \in DOMAIN news /\ news[current_item] = f)
=============================================================================
