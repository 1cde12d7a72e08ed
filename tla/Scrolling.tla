------------------------------ MODULE Scrolling ------------------------------
(***************************************************************************)
(* The two scrolls of the upper row (display/WEH001602-lib.c): news and     *)
(* stream titles pass through it letter by letter, until they have passed   *)
(* whole or another thread has asked them to stop.  The calls are made by   *)
(* the threads of NewsList and DisplaySystem.                               *)
(***************************************************************************)
EXTENDS Naturals

CONSTANTS
  MessageLength,   \* strlen() of what is scrolled
  DISPLAY_WIDTH

ASSUME ScrollingAssumption == MessageLength \in Nat \ {0} /\ DISPLAY_WIDTH \in Nat \ {0}

VARIABLES
  G_scroll_active,  \* G_scroll_rss_active and G_scroll_meta_active
  G_kill_scroll,    \* G_kill_rss_scroll and G_kill_meta_scroll
  scroll_pos,       \* how often each has drawn, 0 when it does not run
  scrollPc,
  upperRow,         \* whose text is on the upper row
  G_display_lock    \* "free", or "menu" while an item of the menu is open

scrollVars == <<G_scroll_active, G_kill_scroll, scroll_pos, scrollPc>>

Scrolls == {"rss", "meta"}

(* The letters have gone through all columns.                               *)
PassedThrough(position) == position >= MessageLength + DISPLAY_WIDTH

(* Wrong: the end is where the message ends.                                *)
EndOfMessage == MessageLength
LastPosition == MessageLength + DISPLAY_WIDTH + 2

ScrollingInit ==
  /\ G_scroll_active = [s \in Scrolls |-> FALSE]
  /\ G_kill_scroll = [s \in Scrolls |-> FALSE]
  /\ scroll_pos = [s \in Scrolls |-> 0]
  /\ scrollPc = [s \in Scrolls |-> "off"]
  /\ upperRow = "blank"
  /\ G_display_lock = "free"

(* The call, up to the first waiting for the lock.                          *)
ScrollBegins(s) ==
  /\ scrollPc' = [scrollPc EXCEPT ![s] = "draw"]
  /\ scroll_pos' = [scroll_pos EXCEPT ![s] = 0]
  /\ G_scroll_active' = [G_scroll_active EXCEPT ![s] = TRUE]
  /\ UNCHANGED G_kill_scroll

(* The next letter, and a look whether somebody wants no more of it.  Who    *)
(* asks in the sleep after the last one stops the next scroll.               *)
ScrollDraws(s) ==
  /\ scrollPc[s] = "draw" /\ scroll_pos[s] # LastPosition /\ G_display_lock = "free"
  /\ upperRow' = IF PassedThrough(scroll_pos[s] + 1) THEN "blank" ELSE s
  /\ scrollPc' = [scrollPc EXCEPT ![s] = IF G_kill_scroll[s] THEN "blank" ELSE "draw"]
  /\ scroll_pos' = [scroll_pos EXCEPT ![s] = IF G_kill_scroll[s] THEN 0 ELSE @ + 1]
  /\ G_kill_scroll' = [G_kill_scroll EXCEPT ![s] = FALSE]
  /\ UNCHANGED <<G_scroll_active, G_display_lock>>

ScrollReturns(s) ==
  /\ scrollPc' = [scrollPc EXCEPT ![s] = "off"]
  /\ scroll_pos' = [scroll_pos EXCEPT ![s] = 0]
  /\ G_scroll_active' = [G_scroll_active EXCEPT ![s] = FALSE]
  /\ UNCHANGED <<G_kill_scroll, G_display_lock>>

ScrollBlanks(s) ==
  /\ scrollPc[s] = "blank" /\ G_display_lock = "free"
  /\ upperRow' = "blank" /\ ScrollReturns(s)

ScrollEnds(s) ==
  /\ scrollPc[s] = "draw" /\ scroll_pos[s] = LastPosition
  /\ UNCHANGED upperRow /\ ScrollReturns(s)

Scroll(s) == ScrollDraws(s) \/ ScrollBlanks(s) \/ ScrollEnds(s)

(* A key or a command that wants a scroll to stop, if it is running.        *)
Kill(kinds) ==
  G_kill_scroll' = [s \in Scrolls |-> G_kill_scroll[s] \/ (s \in kinds /\ G_scroll_active[s])]
=============================================================================
