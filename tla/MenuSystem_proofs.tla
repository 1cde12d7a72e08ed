------------------------- MODULE MenuSystem_proofs -------------------------
(***************************************************************************)
(* What is proved of the menu, the keyboard and the alarms: for every length  *)
(* of the day and of the week, every menu, every set of alarms, and a pipe    *)
(* of any size.                                                             *)
(***************************************************************************)
EXTENDS MenuSystem, SequenceTheorems, TLAPS

KeysOf(s) == {s[k] : k \in DOMAIN s}
Keys == KeysOf(G_setup_key_input)

(* Only the last key in the pipe may close the item.                        *)
OnlyLastCloses(s) == \A k \in DOMAIN s : k < Len(s) => s[k] \notin LeavingKeys

Holding == {"reading", "executing", "storeHour", "storeFlag", "closing"}

(* Why nobody waits for the user: the setup thread has the display only while *)
(* an item is open; in normal mode an open item has the key that closes it on *)
(* its way; and whoever wants the display saw the normal mode.               *)
DisplayInv ==
  /\ G_global_mode \in {"normal", "setup"}
  /\ G_setup_key_input \in Seq(SetupKeys)
  /\ G_display_lock = "setup" <=> setupPc \in Holding
  /\ G_display_lock # "setup" => G_display_lock = "nobody"
  /\ OnlyLastCloses(G_setup_key_input)
  /\ keyboardPc = "leave" => /\ G_global_mode = "setup" /\ "SETUP" \in Keys
                             /\ setupPc \in {"reading", "executing"}
  /\ keyboardPc \in {"enter", "entering", "restore", "arrow", "draw"}
       => G_global_mode = "normal"
  /\ keyboardPc = "entering" => G_display_lock = "nobody"
  /\ G_global_mode = "normal" /\ setupPc \in {"reading", "executing"} => "SETUP" \in Keys
  /\ setupPc = "locking" => G_global_mode = "setup"
  /\ clockPc \in {"draw", "indicate"} => G_global_mode = "normal"

-----------------------------------------------------------------------------
(* The pipe.                                                                *)

LEMMA KeyAppended ==
  ASSUME NEW s \in Seq(SetupKeys), NEW key \in SetupKeys
  PROVE  /\ Append(s, key) \in Seq(SetupKeys)
         /\ Len(Append(s, key)) = Len(s) + 1
         /\ DOMAIN Append(s, key) = 1 .. Len(s) + 1
         /\ DOMAIN s = 1 .. Len(s)
         /\ Append(s, key)[Len(s) + 1] = key
         /\ \A k \in 1 .. Len(s) : Append(s, key)[k] = s[k]
  OBVIOUS

LEMMA KeyTaken ==
  ASSUME NEW s \in Seq(SetupKeys), s # <<>>
  PROVE  /\ Tail(s) \in Seq(SetupKeys)
         /\ Head(s) \in SetupKeys /\ Head(s) = s[1]
         /\ Len(s) \in Nat /\ Len(s) > 0
         /\ Len(Tail(s)) = Len(s) - 1
         /\ DOMAIN s = 1 .. Len(s)
         /\ DOMAIN Tail(s) = 1 .. Len(s) - 1
         /\ \A k \in 1 .. Len(s) - 1 : Tail(s)[k] = s[k + 1]
  OBVIOUS

LEMMA PassedOn ==
  ASSUME NEW s \in Seq(SetupKeys), NEW key \in SetupKeys,
         \A k \in DOMAIN s : s[k] \notin LeavingKeys
  PROVE  OnlyLastCloses(Append(s, key)) /\ key \in KeysOf(Append(s, key))
  BY KeyAppended DEF OnlyLastCloses, KeysOf

LEMMA TakenInOrder ==
  ASSUME NEW s \in Seq(SetupKeys), s # <<>>, OnlyLastCloses(s)
  PROVE  /\ OnlyLastCloses(Tail(s))
         /\ "SETUP" \in KeysOf(s) /\ Head(s) # "SETUP"
              => "SETUP" \in KeysOf(Tail(s)) /\ Head(s) \notin LeavingKeys
<1> USE KeyTaken DEF OnlyLastCloses, KeysOf
<1>1. OnlyLastCloses(Tail(s))
  <2> SUFFICES ASSUME NEW k \in 1 .. Len(s) - 1, k < Len(s) - 1
               PROVE  s[k + 1] \notin LeavingKeys
    OBVIOUS
  <2> QED
    OBVIOUS
<1>2. ASSUME "SETUP" \in KeysOf(s), Head(s) # "SETUP"
      PROVE  "SETUP" \in KeysOf(Tail(s)) /\ Head(s) \notin LeavingKeys
  <2>1. PICK k \in 1 .. Len(s) : s[k] = "SETUP"
    BY <1>2
  <2>2. k # 1
    BY <1>2, <2>1
  <2>3. k - 1 \in 1 .. Len(s) - 1 /\ Tail(s)[k - 1] = s[(k - 1) + 1] /\ (k - 1) + 1 = k
    BY <2>2
  <2>4. 1 \in DOMAIN s /\ 1 < Len(s)
    BY <2>2
  <2> QED
    BY <2>1, <2>3, <2>4
<1> QED
  BY <1>1, <1>2

-----------------------------------------------------------------------------
(* The display and the three threads, on one core.                          *)

LEMMA DisplayInvClock ==
  ASSUME DisplayInv, ClockStep, UNCHANGED <<G_setup_key_input, setupVars, keyboardVars>>
  PROVE  DisplayInv'
<1> USE DEF DisplayInv, Keys, setupVars, keyboardVars, displayVars
<1>1. CASE ClockLooks
  BY <1>1 DEF ClockLooks
<1>2. CASE ClockDraws
  BY <1>2 DEF ClockDraws
<1>3. CASE ClockTests
  BY <1>3 DEF ClockTests
<1>4. CASE ClockRings
  BY <1>4 DEF ClockRings
<1>5. CASE ClockEndsTests
  BY <1>5 DEF ClockEndsTests
<1>6. CASE ClockIndicates
  BY <1>6 DEF ClockIndicates
<1> QED
  BY <1>1, <1>2, <1>3, <1>4, <1>5, <1>6 DEF ClockStep

(* The setup thread does not run while the keyboard is between two lines.     *)
LEMMA DisplayInvSetup ==
  ASSUME DisplayInv, SetupStep, UNCHANGED keyboardVars, ~KeyboardReady
  PROVE  DisplayInv'
<1> USE DEF DisplayInv, Keys, keyboardVars, displayVars, scheduleVars, Holding, KeyboardReady
<1>1. CASE \/ SetupNoticesMode \/ SetupGoesOn \/ SetupOpens \/ SetupExecuted
           \/ SetupStoresHour \/ SetupStoresFlag \/ SetupCloses
  BY <1>1 DEF SetupNoticesMode, SetupGoesOn, SetupOpens, SetupExecuted, SetupStoresHour,
              SetupStoresFlag, SetupCloses, SetAlarm
<1>2. ASSUME NEW key, ReadsKey(key)
      PROVE  /\ G_setup_key_input' \in Seq(SetupKeys)
             /\ OnlyLastCloses(G_setup_key_input')
             /\ "SETUP" \in KeysOf(G_setup_key_input) /\ key # "SETUP"
                  => "SETUP" \in KeysOf(G_setup_key_input') /\ key \notin LeavingKeys
  BY <1>2, TakenInOrder, KeyTaken DEF ReadsKey
<1>3. CASE SetupEditsTime \/ SetupEditsInPlace \/ SetupExecutes
  <2>1. PICK key \in SetupKeys \ LeavingKeys :
          /\ ReadsKey(key)
          /\ setupPc' \in {"reading", "executing"}
          /\ UNCHANGED <<displayVars, clockPc>>
    BY <1>3 DEF SetupEditsTime, SetupEditsInPlace, SetupExecutes, SetAlarm, ReadsKey
  <2>2. key # "SETUP" /\ setupPc = "reading"
    BY <2>1 DEF LeavingKeys, ReadsKey
  <2> QED
    BY <1>2, <2>1, <2>2
<1>4. CASE SetupLeaves \/ SetupLeavesClock
  <2>1. PICK key \in LeavingKeys :
          /\ ReadsKey(key)
          /\ setupPc' \in {"storeHour", "closing"}
          /\ UNCHANGED <<displayVars, clockPc>>
    BY <1>4 DEF SetupLeaves, SetupLeavesClock, SetAlarm
  <2>2. setupPc = "reading"
    BY <2>1 DEF ReadsKey
  <2> QED
    BY <1>2, <2>1, <2>2
<1> QED
  BY <1>1, <1>3, <1>4 DEF SetupStep

LEMMA DisplayInvKeyboard ==
  ASSUME DisplayInv, UserPresses \/ KeyHandled, ~ClockReady
  PROVE  DisplayInv'
<1> USE DEF DisplayInv, Keys, setupVars, displayVars, scheduleVars, Holding
<1>1. CASE KeyToMenu
  <2>1. PICK key \in SetupKeys :
          /\ G_setup_key_input' = Append(G_setup_key_input, key)
          /\ keyboardPc' = IF key = "SETUP" THEN "leave" ELSE "scan"
    BY <1>1 DEF KeyToMenu
  <2>2. OnlyLastCloses(G_setup_key_input') /\ key \in KeysOf(G_setup_key_input')
    BY <1>1, <2>1, PassedOn DEF KeyToMenu, MenuAnswers
  <2>3. G_setup_key_input' \in Seq(SetupKeys)
    BY <2>1, KeyAppended
  <2> QED
    BY <1>1, <2>1, <2>2, <2>3 DEF KeyToMenu, MenuAnswers
(* When the mode is set, the display is free, so a clock that drew would not *)
(* be waiting, and the keyboard not running.                                *)
<1>2. CASE KeySetsSetupMode
  <2>1. clockPc = "sleep"
    BY <1>2 DEF KeySetsSetupMode, ClockReady, ClockWaits
  <2> QED
    BY <1>2, <2>1 DEF KeySetsSetupMode
<1>3. CASE \/ KeyEntersSetup \/ KeyElse \/ KeyClearsDisplay \/ KeySetsNormalMode
           \/ KeyRestoresRows \/ KeyDrawsArrow \/ KeyDraws
  BY <1>3 DEF KeyEntersSetup, KeyElse, KeyClearsDisplay, KeySetsNormalMode, KeyRestoresRows,
              KeyDrawsArrow, KeyDraws
<1> QED
  BY <1>1, <1>2, <1>3 DEF UserPresses, KeyHandled

LEMMA DisplayInvNext ==
  ASSUME OneCore, DisplayInv, [Next]_vars
  PROVE  DisplayInv'
<1>1. CASE UNCHANGED vars
  BY <1>1 DEF vars, DisplayInv, Keys, setupVars, keyboardVars, displayVars, scheduleVars
<1>2. CASE Clock
  BY <1>2, DisplayInvClock DEF Clock
<1>3. CASE Setup
  BY <1>3, DisplayInvSetup DEF Setup, SetupMayRun
<1>4. CASE Keyboard
  BY <1>4, DisplayInvKeyboard DEF Keyboard, KeyboardMayRun
<1>5. CASE World
  BY <1>5 DEF World, MinutePasses, OthersChangeMode, DisplayInv, Keys, setupVars, keyboardVars,
              displayVars
<1> QED
  BY <1>1, <1>2, <1>3, <1>4, <1>5 DEF Next

(* On one core the clock and the keyboard never wait for a user who looks at  *)
(* an item (setup/setup.c:765-767, keyboard/keyboard-thread.c:20-71).        *)
THEOREM NobodyWaits ==
  ASSUME OneCore
  PROVE  Spec => []NobodyWaitsForTheUser
<1>1. Init => DisplayInv
  BY DEF Init, ScheduleInit, SetupInit, KeyboardInit, DisplayInv, Keys, KeysOf, OnlyLastCloses,
         Holding
<1>2. DisplayInv /\ [Next]_vars => DisplayInv'
  BY DisplayInvNext
<1>3. DisplayInv => NobodyWaitsForTheUser
  BY DEF DisplayInv, NobodyWaitsForTheUser, ClockWaits, KeyboardWaits, Holding, Keys, KeysOf
<1> QED
  BY <1>1, <1>2, <1>3, PTL DEF Spec

-----------------------------------------------------------------------------
(* Once per minute.  An alarm that has gone off for this minute is marked as   *)
(* done today; a pass about to set one off found it not marked; and a pass    *)
(* that began in an earlier minute finds nothing gone off in this one.        *)
RingInv ==
  /\ \A i \in AlarmIds : "triggered_today" \in DOMAIN G_alarms[i]
  /\ rang \in [AlarmIds -> 0 .. 2] /\ touched \in [AlarmIds -> BOOLEAN]
  /\ \A i \in AlarmIds : ~touched[i] /\ rang[i] > 0
       => rang[i] = 1 /\ G_alarms[i].triggered_today = YearDays[now.day]
  /\ clockPc = "ring" => clockAlarm \in AlarmIds
  /\ clockPc = "ring" /\ G_tm = now /\ ~touched[clockAlarm] => rang[clockAlarm] = 0
  /\ clockPc # "sleep" /\ G_tm # now => \A i \in AlarmIds : rang[i] = 0
  /\ setupPc = "storeFlag" /\ OfAlarm \in AlarmIds => touched[OfAlarm]

LEMMA RingInvClock ==
  ASSUME RingInv, ClockStep, UNCHANGED <<G_setup_key_input, setupVars, keyboardVars>>
  PROVE  RingInv'
<1>0. OfAlarm' = OfAlarm
  BY DEF OfAlarm, Item, setupVars
<1> USE DEF RingInv, setupVars, displayVars, historyVars, AlarmIds
<1>1. CASE ClockLooks
  BY <1>0, <1>1 DEF ClockLooks
<1>2. CASE ClockDraws
  BY <1>0, <1>2 DEF ClockDraws
<1>3. CASE ClockTests
  BY <1>0, <1>3 DEF ClockTests, Due
<1>4. CASE ClockRings
  BY <1>0, <1>4 DEF ClockRings
<1>5. CASE ClockEndsTests
  BY <1>0, <1>5 DEF ClockEndsTests
<1>6. CASE ClockIndicates
  BY <1>0, <1>6 DEF ClockIndicates
<1> QED
  BY <1>1, <1>2, <1>3, <1>4, <1>5, <1>6 DEF ClockStep

(* Setting an alarm leaves the others alone, and leaves its own trace.       *)
LEMMA RingInvSetAlarm ==
  ASSUME RingInv, NEW alarm, SetAlarm(OfAlarm, alarm), UNCHANGED next_item,
         OfAlarm \in AlarmIds => "triggered_today" \in DOMAIN alarm
  PROVE  RingInv'
<1>0. OfAlarm' = OfAlarm
  BY DEF OfAlarm, Item
<1> QED
  BY <1>0 DEF RingInv, SetAlarm, AlarmIds

(* What the setup thread does to an alarm leaves the day it went off on it. *)
LEMMA EditedInPlace ==
  ASSUME NEW alarm, NEW item, NEW cursor, NEW key, "triggered_today" \in DOMAIN alarm
  PROVE  "triggered_today" \in DOMAIN ValueEdited(alarm, item, cursor, key)
<1>1. CASE item.var = "days"
  BY <1>1 DEF ValueEdited
<1>2. CASE item.var = "type"
  BY <1>2 DEF ValueEdited
<1>3. CASE item.var = "active"
  BY <1>3 DEF ValueEdited
<1>4. CASE item.var \notin {"days", "type", "active"}
  BY <1>4 DEF ValueEdited
<1> QED
  BY <1>1, <1>2, <1>3, <1>4

LEMMA RingInvSetup ==
  ASSUME RingInv, SetupStep, UNCHANGED keyboardVars
  PROVE  RingInv'
<1> USE DEF displayVars
<1>1. CASE SetupNoticesMode
  BY <1>1 DEF SetupNoticesMode, RingInv, scheduleVars, AlarmIds
<1>2. CASE SetupGoesOn
  BY <1>2 DEF SetupGoesOn, RingInv, scheduleVars, AlarmIds
<1>3. CASE SetupOpens
  BY <1>3 DEF SetupOpens, RingInv, scheduleVars, AlarmIds
<1>4. CASE SetupEditsTime
  BY <1>4 DEF SetupEditsTime, ReadsKey, RingInv, scheduleVars, AlarmIds, OfAlarm, Item
<1>5. CASE SetupEditsInPlace
  <2> PICK key \in SetupKeys \ LeavingKeys :
        /\ UNCHANGED <<displayVars, setupPc, next_item, key_pressed>>
        /\ LET edited == ValueEdited(G_alarms[OfAlarm], Item, edit'.cursor, key)
           IN  IF edited # G_alarms[OfAlarm] THEN SetAlarm(OfAlarm, edited)
                                             ELSE UNCHANGED scheduleVars
    BY <1>5 DEF SetupEditsInPlace
  <2> DEFINE edited == ValueEdited(G_alarms[OfAlarm], Item, edit'.cursor, key)
  <2>1. CASE edited # G_alarms[OfAlarm]
    <3>1. SetAlarm(OfAlarm, edited) /\ UNCHANGED next_item
      BY <2>1
    <3>2. OfAlarm \in AlarmIds => "triggered_today" \in DOMAIN edited
      BY EditedInPlace DEF RingInv
    <3> QED
      BY <3>1, <3>2, RingInvSetAlarm
  <2>2. CASE edited = G_alarms[OfAlarm]
    BY <2>2 DEF RingInv, scheduleVars, AlarmIds, OfAlarm, Item
  <2> QED
    BY <2>1, <2>2
<1>6. CASE SetupExecutes
  BY <1>6 DEF SetupExecutes, ReadsKey, RingInv, scheduleVars, AlarmIds, OfAlarm, Item
<1>7. CASE SetupExecuted
  BY <1>7 DEF SetupExecuted, RingInv, scheduleVars, AlarmIds
<1>8. CASE SetupLeaves
  <2> DEFINE alarm == [G_alarms[OfAlarm] EXCEPT !.minute = edit.minute]
  <2>0. UNCHANGED next_item
    BY <1>8 DEF SetupLeaves
  <2>1. CASE SetAlarm(OfAlarm, alarm)
    <3>1. OfAlarm \in AlarmIds => "triggered_today" \in DOMAIN alarm
      BY DEF RingInv
    <3> QED
      BY <2>0, <2>1, <3>1, RingInvSetAlarm
  <2>2. CASE UNCHANGED scheduleVars /\ setupPc' = "closing"
    BY <2>0, <2>2 DEF RingInv, scheduleVars, AlarmIds
  <2> QED
    BY <1>8, <2>1, <2>2 DEF SetupLeaves
<1>9. CASE SetupStoresHour
  <2> DEFINE alarm == [G_alarms[OfAlarm] EXCEPT !.hour = edit.hour]
  <2>1. SetAlarm(OfAlarm, alarm) /\ UNCHANGED next_item
    BY <1>9 DEF SetupStoresHour
  <2>2. OfAlarm \in AlarmIds => "triggered_today" \in DOMAIN alarm
    BY DEF RingInv
  <2> QED
    BY <2>1, <2>2, RingInvSetAlarm
<1>10. CASE SetupStoresFlag
  BY <1>10 DEF SetupStoresFlag, RingInv, AlarmIds
<1>11. CASE SetupLeavesClock
  <2>0. setupPc' = "closing"
    BY <1>11 DEF SetupLeavesClock
  <2>1. CASE /\ rang' = [i \in AlarmIds |-> 0]
             /\ touched' = [i \in AlarmIds |-> TRUE]
             /\ UNCHANGED <<G_alarms, clockPc, clockAlarm>>
    BY <2>0, <2>1 DEF RingInv, AlarmIds
  <2>2. CASE UNCHANGED scheduleVars
    BY <2>0, <2>2 DEF RingInv, scheduleVars, AlarmIds
  <2> QED
    BY <1>11, <2>1, <2>2 DEF SetupLeavesClock
<1>12. CASE SetupCloses
  BY <1>12 DEF SetupCloses, RingInv, scheduleVars, AlarmIds
<1> QED
  BY <1>1, <1>2, <1>3, <1>4, <1>5, <1>6, <1>7, <1>8, <1>9, <1>10, <1>11, <1>12 DEF SetupStep

LEMMA RingInvNext ==
  ASSUME RingInv, [Next]_vars
  PROVE  RingInv'
<1>1. CASE Clock
  BY <1>1, RingInvClock DEF Clock
<1>2. CASE Setup
  BY <1>2, RingInvSetup DEF Setup
<1>3. CASE Keyboard
  BY <1>3 DEF Keyboard, UserPresses, KeyHandled, KeyToMenu, KeyEntersSetup, KeyClearsDisplay,
     KeySetsSetupMode, KeySetsNormalMode, KeyRestoresRows, KeyDrawsArrow, KeyElse, KeyDraws,
     RingInv, scheduleVars, setupVars, AlarmIds, OfAlarm, Item
<1>4. CASE World
  <2>1. CASE AtRest /\ MinutePasses
    BY <1>4, <2>1 DEF World, AtRest, MinutePasses, ClockReady, ClockWaits, RingInv,
       setupVars, displayVars, AlarmIds
  <2>2. CASE OthersChangeMode
    BY <1>4, <2>2 DEF World, OthersChangeMode, RingInv, historyVars, setupVars, AlarmIds,
       OfAlarm, Item
  <2> QED
    BY <1>4, <2>1, <2>2 DEF World
<1>5. CASE UNCHANGED vars
  BY <1>5 DEF vars, scheduleVars, setupVars, RingInv, AlarmIds, OfAlarm, Item
<1> QED
  BY <1>1, <1>2, <1>3, <1>4, <1>5 DEF Next

LEMMA RingInvInit == Init => RingInv
<1> SUFFICES ASSUME Init PROVE RingInv
  OBVIOUS
<1>1. G_alarms \in Seq(AlarmType)
  BY AlarmAssumption DEF Init, ScheduleInit
<1>2. \A i \in AlarmIds : G_alarms[i] \in AlarmType
  BY <1>1 DEF AlarmIds
<1>3. \A alarm \in AlarmType : "triggered_today" \in DOMAIN alarm
  BY DEF AlarmType
<1>4. \A i \in AlarmIds : "triggered_today" \in DOMAIN G_alarms[i]
  BY <1>2, <1>3
<1>5. rang \in [AlarmIds -> 0 .. 2] /\ touched \in [AlarmIds -> BOOLEAN]
  BY DEF Init, ScheduleInit
<1>6. (\A i \in AlarmIds : rang[i] = 0) /\ clockPc = "sleep" /\ setupPc = "outside"
  BY DEF Init, ScheduleInit, SetupInit
<1> QED
  BY <1>4, <1>5, <1>6 DEF RingInv

(* No alarm goes off twice for the same minute, whatever the alarms, the keys *)
(* and the order of the threads, on one core or several.                    *)
THEOREM RingsOnce == Spec => []RingsOncePerMinute
<1>1. Init => RingInv
  BY RingInvInit
<1>2. RingInv /\ [Next]_vars => RingInv'
  BY RingInvNext
<1>3. RingInv => RingsOncePerMinute
  BY DEF RingInv, RingsOncePerMinute
<1> QED
  BY <1>1, <1>2, <1>3, PTL DEF Spec
-----------------------------------------------------------------------------
(* As it is set.  What the pass found of the alarm it is about to set off is   *)
(* still so, unless somebody has touched the alarm since.                   *)
StillDue ==
  clockPc = "ring" =>
    \/ touched[clockAlarm]
    \/ G_alarms[clockAlarm].active /\ Matches(G_alarms[clockAlarm], G_tm)

LEMMA StillDueUntouched ==
  ASSUME StillDue, UNCHANGED <<G_alarms, G_tm, touched, clockPc, clockAlarm>>
  PROVE  StillDue'
BY DEF StillDue, Matches

LEMMA StillDueSetAlarm ==
  ASSUME RingInv, StillDue, NEW i, NEW alarm, SetAlarm(i, alarm)
  PROVE  StillDue'
<1> SUFFICES ASSUME clockPc = "ring", ~touched'[clockAlarm]
             PROVE  G_alarms'[clockAlarm].active /\ Matches(G_alarms'[clockAlarm], G_tm)
  <2>1. G_tm' = G_tm /\ clockPc' = clockPc /\ clockAlarm' = clockAlarm
    BY DEF SetAlarm
  <2> QED
    BY <2>1 DEF StillDue, Matches
<1>1. clockAlarm \in AlarmIds
  BY DEF RingInv
<1>2. clockAlarm # i /\ ~touched[clockAlarm]
  BY <1>1 DEF RingInv, SetAlarm
<1>3. G_alarms'[clockAlarm] = G_alarms[clockAlarm]
  BY <1>1, <1>2 DEF SetAlarm, AlarmIds
<1> QED
  BY <1>2, <1>3 DEF StillDue

LEMMA StillDueSetup ==
  ASSUME RingInv, StillDue, SetupStep
  PROVE  StillDue'
<1>1. CASE \/ SetupNoticesMode \/ SetupGoesOn \/ SetupOpens \/ SetupEditsTime
           \/ SetupExecutes \/ SetupExecuted \/ SetupCloses
  BY <1>1, StillDueUntouched DEF SetupNoticesMode, SetupGoesOn, SetupOpens, SetupEditsTime,
     SetupExecutes, SetupExecuted, SetupCloses, scheduleVars
<1>2. CASE SetupEditsInPlace \/ SetupLeaves \/ SetupStoresHour
  <2>1. (\E i, alarm : SetAlarm(i, alarm)) \/ UNCHANGED scheduleVars
    BY <1>2 DEF SetupEditsInPlace, SetupLeaves, SetupStoresHour
  <2> QED
    BY <2>1, StillDueSetAlarm, StillDueUntouched DEF scheduleVars
<1>3. CASE SetupStoresFlag
  <2>1. /\ setupPc = "storeFlag"
        /\ G_alarms' = [G_alarms EXCEPT ![OfAlarm].triggered_today = 0]
        /\ UNCHANGED <<G_tm, touched, clockPc, clockAlarm>>
    BY <1>3 DEF SetupStoresFlag
  <2> SUFFICES ASSUME clockPc = "ring", ~touched[clockAlarm]
               PROVE  G_alarms'[clockAlarm].active /\ Matches(G_alarms'[clockAlarm], G_tm)
    BY <2>1 DEF StillDue, Matches
  <2>2. clockAlarm \in AlarmIds /\ clockAlarm # OfAlarm
    BY <2>1 DEF RingInv
  <2>3. G_alarms'[clockAlarm] = G_alarms[clockAlarm]
    BY <2>1, <2>2 DEF AlarmIds
  <2> QED
    BY <2>3 DEF StillDue
<1>4. CASE SetupLeavesClock
  <2>1. CASE UNCHANGED scheduleVars
    BY <2>1, StillDueUntouched DEF scheduleVars
  <2>2. CASE touched' = [i \in AlarmIds |-> TRUE] /\ UNCHANGED <<clockPc, clockAlarm>>
    <3>1. clockPc' = "ring" => clockAlarm' \in AlarmIds
      BY <2>2 DEF RingInv
    <3>2. clockPc' = "ring" => touched'[clockAlarm'] = TRUE
      BY <2>2, <3>1
    <3> QED
      BY <3>2 DEF StillDue
  <2> QED
    BY <1>4, <2>1, <2>2 DEF SetupLeavesClock
<1> QED
  BY <1>1, <1>2, <1>3, <1>4 DEF SetupStep

LEMMA StillDueNext ==
  ASSUME RingInv, StillDue, [Next]_vars
  PROVE  StillDue'
<1>1. CASE Clock
  BY <1>1 DEF Clock, ClockStep, ClockLooks, ClockDraws, ClockTests, ClockRings, ClockEndsTests,
     ClockIndicates, Due, Matches, StillDue, historyVars
<1>2. CASE Setup
  BY <1>2, StillDueSetup DEF Setup
<1>3. CASE Keyboard
  BY <1>3, StillDueUntouched DEF Keyboard, UserPresses, KeyHandled, KeyToMenu, KeyEntersSetup,
     KeyClearsDisplay, KeySetsSetupMode, KeySetsNormalMode, KeyRestoresRows, KeyDrawsArrow,
     KeyElse, KeyDraws, scheduleVars
<1>4. CASE World
  BY <1>4, StillDueUntouched DEF World, MinutePasses, ClockWaits, OthersChangeMode, StillDue,
     historyVars
<1>5. CASE UNCHANGED vars
  BY <1>5, StillDueUntouched DEF vars, scheduleVars
<1> QED
  BY <1>1, <1>2, <1>3, <1>4, <1>5 DEF Next

(* Only alarms that are on, in their minute and on one of their days, go off, *)
(* though the menu edits them meanwhile without a lock (setup/setup.c:494).   *)
THEOREM RingsOnlyAsSet == Spec => RingsAsSet
<1>1. Init => StillDue
  BY DEF Init, ScheduleInit, StillDue
<1>2. RingInv /\ StillDue /\ [Next]_vars => StillDue'
  BY StillDueNext
<1>3. StillDue =>
        [clockPc = "ring" /\ clockPc' # "ring" =>
           \/ touched[clockAlarm]
           \/ G_alarms[clockAlarm].active /\ Matches(G_alarms[clockAlarm], G_tm)]_vars
  BY DEF StillDue
<1> QED
  BY RingInvInit, RingInvNext, <1>1, <1>2, <1>3, PTL DEF Spec, RingsAsSet
-----------------------------------------------------------------------------
(* A clean start.  The key that closes the item is the last in the pipe, so   *)
(* whenever the menu is not reading, the pipe is empty.                      *)
PipeInv ==
  /\ G_setup_key_input \in Seq(SetupKeys)
  /\ OnlyLastCloses(G_setup_key_input)
  /\ setupPc \notin {"reading", "executing"} => G_setup_key_input = <<>>

(* The rest of the pipe behind a key that closes is empty.                  *)
LEMMA NothingBehind ==
  ASSUME NEW s \in Seq(SetupKeys), s # <<>>, OnlyLastCloses(s), Head(s) \in LeavingKeys
  PROVE  Tail(s) = <<>>
<1>1. Len(s) \in Nat /\ Len(s) > 0 /\ DOMAIN s = 1 .. Len(s) /\ Head(s) = s[1]
      /\ Tail(s) \in Seq(SetupKeys) /\ Len(Tail(s)) = Len(s) - 1
  BY KeyTaken
<1>2. ~(1 < Len(s))
  BY <1>1 DEF OnlyLastCloses
<1>3. Len(Tail(s)) = 0
  BY <1>1, <1>2
<1> QED
  BY <1>1, <1>3, EmptySeq

(* The keys, step by step.                                                  *)
LEMMA PipeStep == PipeInv /\ [Next]_vars => PipeInv'
<1> SUFFICES ASSUME PipeInv, [Next]_vars PROVE PipeInv'
  OBVIOUS
<1>1. CASE Clock \/ World \/ UNCHANGED vars
  BY <1>1 DEF Clock, World, vars, setupVars, PipeInv
<1>2. CASE Keyboard
  <2>1. CASE KeyToMenu
    <3>1. PICK key \in SetupKeys : G_setup_key_input' = Append(G_setup_key_input, key)
      BY <2>1 DEF KeyToMenu
    <3>2. G_setup_key_input' \in Seq(SetupKeys) /\ OnlyLastCloses(G_setup_key_input')
      BY <2>1, <3>1, KeyAppended, PassedOn DEF KeyToMenu, MenuAnswers, PipeInv
    <3> QED
      BY <2>1, <3>2 DEF KeyToMenu, MenuAnswers, PipeInv, setupVars
  <2>2. CASE UNCHANGED <<G_setup_key_input, setupVars>>
    BY <2>2 DEF PipeInv, setupVars
  <2> QED
    BY <1>2, <2>1, <2>2 DEF Keyboard, UserPresses, KeyHandled, KeyEntersSetup, KeyElse,
       KeyClearsDisplay, KeySetsSetupMode, KeySetsNormalMode, KeyRestoresRows, KeyDrawsArrow, KeyDraws
<1>3. CASE Setup
  <2>1. CASE SetupEditsTime \/ SetupEditsInPlace \/ SetupExecutes
    <3>1. PICK key \in SetupKeys \ LeavingKeys :
            ReadsKey(key) /\ setupPc' \in {"reading", "executing"}
      BY <2>1 DEF SetupEditsTime, SetupEditsInPlace, SetupExecutes, ReadsKey
    <3> QED
      BY <3>1, KeyTaken, TakenInOrder DEF ReadsKey, PipeInv
  <2>2. CASE SetupLeaves \/ SetupLeavesClock
    <3>1. PICK key \in LeavingKeys : ReadsKey(key)
      BY <2>2 DEF SetupLeaves, SetupLeavesClock
    <3> QED
      BY <3>1, KeyTaken, TakenInOrder, NothingBehind DEF ReadsKey, PipeInv
  <2>3. CASE \/ SetupNoticesMode \/ SetupGoesOn \/ SetupOpens \/ SetupExecuted
             \/ SetupStoresHour \/ SetupStoresFlag \/ SetupCloses
    BY <2>3 DEF SetupNoticesMode, SetupGoesOn, SetupOpens, SetupExecuted, SetupStoresHour,
       SetupStoresFlag, SetupCloses, PipeInv
  <2> QED
    BY <1>3, <2>1, <2>2, <2>3 DEF Setup, SetupStep
<1> QED
  BY <1>1, <1>2, <1>3 DEF Next

(* No key of an earlier visit is left for this one, on one core or several.   *)
THEOREM StartsClean == Spec => MenuStartsClean
<1>1. Init => PipeInv
  BY DEF Init, SetupInit, PipeInv, OnlyLastCloses
<1>2. PipeInv =>
        [setupPc = "outside" /\ setupPc' = "between" => G_setup_key_input = <<>>]_vars
  BY DEF PipeInv
<1> QED
  BY <1>1, <1>2, PipeStep, PTL DEF Spec, MenuStartsClean
-----------------------------------------------------------------------------
(* Every alarm that is due goes off.  Times, first: those the clock has seen, *)
(* and those being edited, and the fields of an alarm that the pass compares.  *)
AlarmInv ==
  /\ \E n \in Nat : AlarmIds = 1 .. n
  /\ {1, 2} \subseteq AlarmIds
  /\ \A i \in AlarmIds :
       /\ {"hour", "minute", "triggered_today"} \subseteq DOMAIN G_alarms[i]
       /\ G_alarms[i].hour \in 0 .. Hours - 1 /\ G_alarms[i].minute \in 0 .. Minutes - 1

(* The time that is being edited.                                           *)
Edits == [hour : 0 .. Hours - 1, minute : 0 .. Minutes - 1, cursor : Int, saved : Times]

TimesInv ==
  /\ now \in Times /\ G_tm \in Times /\ clockAlarm \in Nat \ {0}
  /\ edit \in Edits
  /\ rangOn \in [AlarmIds -> 0 .. Len(YearDays)]

(* The mark of an alarm is the day on which it went off.                    *)
MarkInv ==
  \A i \in AlarmIds :
    G_alarms[i].triggered_today = IF rangOn[i] = 0 THEN 0 ELSE YearDays[rangOn[i]]

(* An edited value is a time again.                                         *)
LEMMA SteppedInRange ==
  ASSUME NEW max \in Nat, NEW v \in 0 .. max, NEW key
  PROVE  Stepped(v, 0, max, key) \in 0 .. max
BY DEF Stepped

(* So is a time under the keys, when it is opened, and when nothing is.      *)
LEMMA TimeIsEdited ==
  ASSUME NEW e \in Edits,
         NEW key
  PROVE  TimeEdited(e, key) \in Edits
<1>1. CursorMoved(e.cursor, 2, key) \in Int
  BY DEF CursorMoved, Edits
<1>2. Stepped(e.hour, 0, Hours - 1, key) \in 0 .. Hours - 1
  BY ScheduleAssumption, SteppedInRange DEF Edits
<1>3. Stepped(e.minute, 0, Minutes - 1, key) \in 0 .. Minutes - 1
  BY ScheduleAssumption, SteppedInRange DEF Edits
<1> QED
  BY <1>1, <1>2, <1>3 DEF TimeEdited, Edits

LEMMA NoEditIs ==
  NoEdit \in Edits
<1>1. Len(YearDays) \in Nat /\ Len(YearDays) >= 1
  BY ScheduleAssumption
<1> QED
  BY <1>1, ScheduleAssumption DEF NoEdit, Times, Edits

LEMMA TimeIsOpened ==
  ASSUME NEW e \in Edits, NEW h \in 0 .. Hours - 1, NEW m \in 0 .. Minutes - 1
  PROVE  [e EXCEPT !.hour = h, !.minute = m, !.cursor = 1] \in Edits
<1>1. [e EXCEPT !.hour = h] \in Edits
  BY DEF Edits
<1>2. \A f \in Edits : [f EXCEPT !.minute = m] \in Edits
  BY DEF Edits
<1>3. \A f \in Edits : [f EXCEPT !.cursor = 1] \in Edits
  BY DEF Edits
<1> QED
  BY <1>1, <1>2, <1>3

(* What is written over an alarm leaves its mark, and what there is else.    *)
AlarmLike(new, old) ==
  /\ {"hour", "minute", "triggered_today"} \subseteq DOMAIN new
  /\ new.hour \in 0 .. Hours - 1 /\ new.minute \in 0 .. Minutes - 1
  /\ new.triggered_today = old.triggered_today

(* Editing in place does not touch the time of an alarm, nor its mark.        *)
LEMMA EditedLike ==
  ASSUME NEW alarm, AlarmLike(alarm, alarm), NEW item, NEW cursor, NEW key
  PROVE  AlarmLike(ValueEdited(alarm, item, cursor, key), alarm)
<1> USE DEF AlarmLike
<1>1. CASE item.var = "days"
  BY <1>1 DEF ValueEdited
<1>2. CASE item.var = "type"
  BY <1>2 DEF ValueEdited
<1>3. CASE item.var = "active"
  BY <1>3 DEF ValueEdited
<1>4. CASE item.var \notin {"days", "type", "active"}
  BY <1>4 DEF ValueEdited
<1> QED
  BY <1>1, <1>2, <1>3, <1>4

(* The menu has items of two alarms.                                         *)
LEMMA OfAlarmIs == OfAlarm \in {1, 2}
BY DEF OfAlarm

(* One alarm is written, and all keep their marks.                           *)
LEMMA AlarmsKept ==
  ASSUME AlarmInv, NEW i \in AlarmIds, NEW alarm, AlarmLike(alarm, G_alarms[i]),
         G_alarms' = [G_alarms EXCEPT ![i] = alarm]
  PROVE  AlarmInv' /\ AlarmIds' = AlarmIds
         /\ \A k \in AlarmIds : G_alarms'[k].triggered_today = G_alarms[k].triggered_today
BY DEF AlarmInv, AlarmIds, AlarmLike

(* What the setup thread does to the alarms and the times.                  *)
LEMMA AlarmSet ==
  ASSUME AlarmInv, TimesInv, MarkInv, NEW i \in AlarmIds, NEW alarm,
         AlarmLike(alarm, G_alarms[i]), SetAlarm(i, alarm), edit' \in Edits
  PROVE  AlarmInv' /\ TimesInv' /\ MarkInv'
<1>1. G_alarms' = [G_alarms EXCEPT ![i] = alarm]
      /\ UNCHANGED <<now, G_tm, clockAlarm, rangOn>>
  BY DEF SetAlarm
<1>2. AlarmInv' /\ AlarmIds' = AlarmIds
      /\ \A k \in AlarmIds : G_alarms'[k].triggered_today = G_alarms[k].triggered_today
  BY <1>1, AlarmsKept
<1>3. TimesInv'
  BY <1>1, <1>2 DEF TimesInv
<1>4. MarkInv'
  BY <1>1, <1>2 DEF MarkInv
<1> QED
  BY <1>2, <1>3, <1>4

(* An alarm is like itself.                                                  *)
LEMMA AlarmIsLike ==
  ASSUME AlarmInv, NEW i \in AlarmIds
  PROVE  AlarmLike(G_alarms[i], G_alarms[i])
BY DEF AlarmInv, AlarmLike

(* Where no alarm and no time changes but the edited one.                     *)
LEMMA TimesUnchanged ==
  ASSUME AlarmInv, TimesInv, MarkInv,
         UNCHANGED <<now, G_tm, clockAlarm, rangOn, G_alarms>>,
         edit' \in Edits
  PROVE  AlarmInv' /\ TimesInv' /\ MarkInv'
BY DEF AlarmInv, TimesInv, MarkInv, AlarmIds

(* The steps of the menu, of the clock, and of all.                          *)
LEMMA TimesSetup ==
  ASSUME AlarmInv, TimesInv, MarkInv, SetupStep
  PROVE  AlarmInv' /\ TimesInv' /\ MarkInv'
<1>0. OfAlarm \in AlarmIds /\ edit \in Edits /\ NoEdit \in Edits /\ G_tm \in Times /\ now \in Times
  BY OfAlarmIs, NoEditIs DEF AlarmInv, TimesInv
<1>00. AlarmLike(G_alarms[OfAlarm], G_alarms[OfAlarm])
  BY <1>0, AlarmIsLike
<1>1. CASE SetupNoticesMode \/ SetupGoesOn \/ SetupExecutes \/ SetupExecuted
  <2>1. UNCHANGED <<scheduleVars, edit>>
    BY <1>1 DEF SetupNoticesMode, SetupGoesOn, SetupExecutes, SetupExecuted
  <2> QED
    BY <1>0, <2>1, TimesUnchanged DEF scheduleVars
<1>2. CASE SetupOpens
  <2>1. G_alarms[OfAlarm].hour \in 0 .. Hours - 1 /\ G_alarms[OfAlarm].minute \in 0 .. Minutes - 1
    BY <1>00 DEF AlarmLike
  <2>2. G_tm.hour \in 0 .. Hours - 1 /\ G_tm.minute \in 0 .. Minutes - 1
    BY <1>0 DEF Times
  <2>3. edit' \in Edits
    <3>1. CASE Item.type = "curr_time"
      BY <1>0, <1>2, <2>2, <3>1 DEF SetupOpens, Edits
    <3>2. CASE Item.type = "alarm_time"
      <4>1. edit' = [NoEdit EXCEPT !.hour = G_alarms[OfAlarm].hour,
                                   !.minute = G_alarms[OfAlarm].minute, !.cursor = 1]
        BY <1>2, <3>2 DEF SetupOpens
      <4> QED
        BY <1>0, <2>1, <4>1, TimeIsOpened
    <3>3. CASE Item.type \notin {"curr_time", "alarm_time"}
      BY <1>0, <1>2, <3>3 DEF SetupOpens
    <3> QED
      BY <3>1, <3>2, <3>3
  <2> QED
    BY <1>2, <2>3, TimesUnchanged DEF SetupOpens, scheduleVars
<1>3. CASE SetupEditsTime
  <2>1. PICK key : edit' = TimeEdited(edit, key) /\ UNCHANGED scheduleVars
    BY <1>3 DEF SetupEditsTime
  <2> QED
    BY <1>0, <2>1, TimeIsEdited, TimesUnchanged DEF scheduleVars
<1>4. CASE SetupEditsInPlace
  <2> PICK key \in SetupKeys \ LeavingKeys :
        /\ edit' = IF Item.type = "weekdays"
                     THEN [edit EXCEPT !.cursor = CursorMoved(@, WeekLength, key)] ELSE edit
        /\ LET edited == ValueEdited(G_alarms[OfAlarm], Item, edit'.cursor, key)
           IN  IF edited # G_alarms[OfAlarm] THEN SetAlarm(OfAlarm, edited)
                                             ELSE UNCHANGED scheduleVars
    BY <1>4 DEF SetupEditsInPlace
  <2> DEFINE edited == ValueEdited(G_alarms[OfAlarm], Item, edit'.cursor, key)
  <2>1. edit' \in Edits
    <3>1. edit.cursor \in Int /\ WeekLength \in Int
      BY <1>0, ScheduleAssumption DEF Edits
    <3>2. CursorMoved(edit.cursor, WeekLength, key) \in Int
      BY <3>1 DEF CursorMoved
    <3> QED
      BY <1>0, <3>2 DEF Edits
  <2>2. AlarmLike(edited, G_alarms[OfAlarm])
    BY <1>00, EditedLike
  <2>3. CASE SetAlarm(OfAlarm, edited)
    BY <1>0, <2>1, <2>2, <2>3, AlarmSet
  <2>4. CASE UNCHANGED scheduleVars
    BY <2>1, <2>4, TimesUnchanged DEF scheduleVars
  <2> QED
    BY <2>3, <2>4
<1>5. CASE SetupLeaves
  <2> DEFINE alarm == [G_alarms[OfAlarm] EXCEPT !.minute = edit.minute]
  <2>1. AlarmLike(alarm, G_alarms[OfAlarm])
    BY <1>0, <1>00 DEF AlarmLike, Edits
  <2>2. edit' = edit /\ (SetAlarm(OfAlarm, alarm) \/ UNCHANGED scheduleVars)
    BY <1>5 DEF SetupLeaves
  <2> QED
    BY <1>0, <2>1, <2>2, AlarmSet, TimesUnchanged DEF scheduleVars
<1>6. CASE SetupStoresHour
  <2> DEFINE alarm == [G_alarms[OfAlarm] EXCEPT !.hour = edit.hour]
  <2>1. AlarmLike(alarm, G_alarms[OfAlarm])
    BY <1>0, <1>00 DEF AlarmLike, Edits
  <2>2. edit' = edit /\ SetAlarm(OfAlarm, alarm)
    BY <1>6 DEF SetupStoresHour
  <2> QED
    BY <1>0, <2>1, <2>2, AlarmSet
<1>7. CASE SetupStoresFlag
  <2>1. G_alarms' = [G_alarms EXCEPT ![OfAlarm].triggered_today = 0]
        /\ rangOn' = [rangOn EXCEPT ![OfAlarm] = 0] /\ UNCHANGED <<now, G_tm, clockAlarm, edit>>
    BY <1>7 DEF SetupStoresFlag
  <2>2. AlarmInv' /\ AlarmIds' = AlarmIds
    BY <1>0, <2>1 DEF AlarmInv, AlarmIds
  <2>3. TimesInv'
    BY <1>0, <2>1, <2>2, ScheduleAssumption DEF TimesInv
  <2>4. MarkInv'
    BY <1>0, <2>1, <2>2 DEF MarkInv, AlarmInv, TimesInv, AlarmIds
  <2> QED
    BY <2>2, <2>3, <2>4
<1>8. CASE SetupLeavesClock
  <2>1. UNCHANGED <<G_tm, G_alarms, clockAlarm, rangOn, edit>>
        /\ now' \in {now, TimeEntered}
    BY <1>8 DEF SetupLeavesClock, scheduleVars
  <2>2. TimeEntered \in Times
    BY <1>0 DEF TimeEntered, Times, Edits
  <2> QED
    BY <1>0, <2>1, <2>2 DEF AlarmInv, TimesInv, MarkInv, AlarmIds
<1>9. CASE SetupCloses
  <2>1. edit' = NoEdit /\ UNCHANGED scheduleVars
    BY <1>9 DEF SetupCloses
  <2> QED
    BY <1>0, <2>1, TimesUnchanged DEF scheduleVars
<1> QED
  BY <1>1, <1>2, <1>3, <1>4, <1>5, <1>6, <1>7, <1>8, <1>9 DEF SetupStep

LEMMA TimesClock ==
  ASSUME AlarmInv, TimesInv, MarkInv, RingInv, ClockStep, edit' = edit
  PROVE  AlarmInv' /\ TimesInv' /\ MarkInv'
<1>1. CASE ClockLooks
  BY <1>1 DEF ClockLooks, AlarmInv, TimesInv, MarkInv, AlarmIds, historyVars
<1>2. CASE ClockDraws \/ ClockTests \/ ClockEndsTests \/ ClockIndicates
  <2>1. UNCHANGED <<now, G_tm, G_alarms, rangOn>> /\ clockAlarm' \in {clockAlarm, clockAlarm + 1}
    BY <1>2 DEF ClockDraws, ClockTests, ClockEndsTests, ClockIndicates, historyVars
  <2> QED
    BY <2>1 DEF AlarmInv, TimesInv, MarkInv, AlarmIds
<1>3. CASE ClockRings
  <2>0. clockAlarm \in AlarmIds /\ G_tm.day \in 1 .. Len(YearDays) /\ Len(YearDays) \in Nat
    BY <1>3, ScheduleAssumption DEF ClockRings, RingInv, TimesInv, Times
  <2>1. G_alarms' = [G_alarms EXCEPT ![clockAlarm].triggered_today = YearDays[G_tm.day]]
        /\ rangOn' = [rangOn EXCEPT ![clockAlarm] = G_tm.day] /\ UNCHANGED <<now, G_tm>>
        /\ clockAlarm' = clockAlarm + 1
    BY <1>3 DEF ClockRings
  <2>2. AlarmInv' /\ AlarmIds' = AlarmIds
    BY <2>0, <2>1 DEF AlarmInv, AlarmIds
  <2>3. TimesInv'
    BY <2>0, <2>1, <2>2 DEF TimesInv
  <2>4. MarkInv'
    BY <2>0, <2>1, <2>2 DEF MarkInv, AlarmInv, TimesInv, AlarmIds
  <2> QED
    BY <2>2, <2>3, <2>4
<1> QED
  BY <1>1, <1>2, <1>3 DEF ClockStep

LEMMA TimesStep ==
  ASSUME AlarmInv, TimesInv, MarkInv, RingInv, [Next]_vars
  PROVE  AlarmInv' /\ TimesInv' /\ MarkInv'
<1>0. edit \in Edits
  BY DEF TimesInv
<1>1. CASE Clock
  BY <1>1, TimesClock DEF Clock, setupVars
<1>2. CASE Setup
  BY <1>2, TimesSetup DEF Setup
<1>3. CASE Keyboard
  <2>1. UNCHANGED <<scheduleVars, setupVars>>
    BY <1>3 DEF Keyboard, UserPresses, KeyHandled, KeyToMenu, KeyEntersSetup, KeyClearsDisplay,
       KeySetsSetupMode, KeySetsNormalMode, KeyRestoresRows, KeyDrawsArrow, KeyElse, KeyDraws
  <2> QED
    BY <1>0, <2>1, TimesUnchanged DEF scheduleVars, setupVars
<1>4. CASE World
  <2>1. UNCHANGED <<G_tm, clockAlarm, rangOn, G_alarms, edit>> /\ now' \in Times
    BY <1>4 DEF World, MinutePasses, OthersChangeMode, setupVars, historyVars, TimesInv
  <2> QED
    BY <2>1 DEF AlarmInv, TimesInv, MarkInv, AlarmIds
<1>5. CASE UNCHANGED vars
  BY <1>0, <1>5, TimesUnchanged DEF vars, scheduleVars, setupVars
<1> QED
  BY <1>1, <1>2, <1>3, <1>4, <1>5 DEF Next

(* A pass has an alarm behind it that need not go off, or has gone off.      *)
DoneFor(i) ==
  ~touched[i] /\ G_alarms[i].active /\ Matches(G_alarms[i], now)
    => G_alarms[i].triggered_today = YearDays[now.day]

Before(s, t) ==
  \/ s.day < t.day
  \/ s.day = t.day /\ s.hour < t.hour
  \/ s.day = t.day /\ s.hour = t.hour /\ s.minute < t.minute

(* A pass that began in this minute is done with the alarms before the one it *)
(* has come to, and one that has come to its end with all; one that began     *)
(* earlier waits for the display, and the time only goes on meanwhile.        *)
PassInv ==
  /\ clockPc = "draw" => clockAlarm = 1
  /\ looked /\ clockPc # "sleep" => G_tm = now
  /\ looked => \A i \in AlarmIds : DoneFor(i)
  /\ clockPc \in {"test", "ring"} /\ G_tm = now
       => \A i \in AlarmIds : i < clockAlarm => DoneFor(i)
  /\ clockPc = "indicate" /\ G_tm = now => \A i \in AlarmIds : DoneFor(i)
  /\ clockPc # "sleep" /\ setupPc \in {"reading", "executing"} => G_tm = now \/ Before(G_tm, now)

(* The next minute is later.                                                 *)
LEMMA TimeGoesOn ==
  ASSUME NEW s \in Times, NEW t \in Times, s = t \/ Before(s, t)
  PROVE  Before(s, NextMinute(t)) /\ s # NextMinute(t)
<1>1. /\ s.day \in Int /\ s.hour \in Int /\ s.minute \in Int
      /\ t.day \in Int /\ t.hour \in Int /\ t.minute \in Int
      /\ t = [day |-> t.day, hour |-> t.hour, minute |-> t.minute]
      /\ Hours \in Int /\ Minutes \in Int
      /\ 0 <= t.hour /\ t.hour <= Hours - 1 /\ 0 <= t.minute /\ t.minute <= Minutes - 1
      /\ s.hour <= Hours - 1 /\ s.minute <= Minutes - 1
  BY ScheduleAssumption DEF Times
<1> DEFINE u == NextMinute(t)
<1>2. CASE t.minute < Minutes - 1
  <2>1. u.day = t.day /\ u.hour = t.hour /\ u.minute = t.minute + 1
    BY <1>1, <1>2 DEF NextMinute
  <2> QED
    BY <1>1, <2>1 DEF Before
<1>3. CASE ~(t.minute < Minutes - 1) /\ t.hour < Hours - 1
  <2>1. u.day = t.day /\ u.hour = t.hour + 1 /\ u.minute = 0
    BY <1>1, <1>3 DEF NextMinute
  <2> QED
    BY <1>1, <2>1 DEF Before
<1>4. CASE ~(t.minute < Minutes - 1) /\ ~(t.hour < Hours - 1)
  <2>1. u.day = t.day + 1
    BY <1>1, <1>4 DEF NextMinute
  <2> QED
    BY <1>1, <2>1 DEF Before
<1> QED
  BY <1>2, <1>3, <1>4

(* The pass of the clock.                                                   *)
LEMMA PassClock ==
  ASSUME AlarmInv, TimesInv, RingInv, PassInv, ClockStep, UNCHANGED setupVars
  PROVE  PassInv'
<1> USE DEF setupVars, displayVars, historyVars
<1>1. CASE ClockLooks
  <2>1. /\ UNCHANGED <<now, G_alarms, touched, looked, setupPc>> /\ G_tm' = now
        /\ clockAlarm' = 1 /\ clockPc' \in {"draw", "test"} /\ clockPc = "sleep"
    BY <1>1 DEF ClockLooks
  <2>2. \A i \in AlarmIds : DoneFor(i) => DoneFor(i)'
    BY <2>1 DEF DoneFor, Matches
  <2>3. AlarmIds' = AlarmIds /\ \A i \in AlarmIds : ~(i < 1)
    BY <2>1 DEF AlarmIds, AlarmInv
  <2> QED
    BY <2>1, <2>2, <2>3 DEF PassInv
<1>2. CASE ClockDraws
  <2>1. UNCHANGED <<now, G_tm, G_alarms, clockAlarm, touched, looked, setupPc>>
        /\ clockPc = "draw" /\ clockPc' = "test"
    BY <1>2 DEF ClockDraws
  <2>2. \A i \in AlarmIds : i \in Nat \ {0}
    BY DEF AlarmInv
  <2> QED
    BY <2>1, <2>2 DEF PassInv, DoneFor, Matches, AlarmIds
<1>3. CASE ClockTests
  <2>1. UNCHANGED <<now, G_tm, G_alarms, touched, looked, setupPc>> /\ clockPc = "test"
        /\ clockAlarm \in AlarmIds /\ clockAlarm \in Nat
    BY <1>3 DEF ClockTests, TimesInv
  <2>2. CASE clockPc' = "ring" /\ clockAlarm' = clockAlarm
    BY <2>1, <2>2 DEF PassInv, DoneFor, Matches, AlarmIds
  <2>3. CASE clockPc' = "test" /\ clockAlarm' = clockAlarm + 1 /\ ~Due(G_alarms[clockAlarm], G_tm)
    <3>1. G_tm = now => DoneFor(clockAlarm)
      BY <2>3 DEF Due, DoneFor
    <3>2. \A i \in AlarmIds : i \in Nat /\ (i < clockAlarm + 1 => i < clockAlarm \/ i = clockAlarm)
      BY <2>1 DEF AlarmInv
    <3>3. \A i \in AlarmIds : DoneFor(i) => DoneFor(i)'
      BY <2>1 DEF DoneFor, Matches
    <3> QED
      BY <2>1, <2>3, <3>1, <3>2, <3>3 DEF PassInv, AlarmIds
  <2> QED
    BY <1>3, <2>1, <2>2, <2>3 DEF ClockTests
<1>4. CASE ClockRings
  <2>1. /\ clockPc = "ring" /\ clockPc' = "test" /\ clockAlarm' = clockAlarm + 1
        /\ G_alarms' = [G_alarms EXCEPT ![clockAlarm].triggered_today = YearDays[G_tm.day]]
        /\ UNCHANGED <<now, G_tm, touched, looked, setupPc>>
        /\ clockAlarm \in AlarmIds /\ clockAlarm \in Nat
    BY <1>4 DEF ClockRings, RingInv, TimesInv
  <2>2. AlarmIds' = AlarmIds
    BY <2>1 DEF AlarmIds
  <2>3. ASSUME NEW i \in AlarmIds, i = clockAlarm, G_tm = now PROVE DoneFor(i)'
    <3>1. G_alarms'[i].triggered_today = YearDays[now.day]
      BY <2>1, <2>3 DEF AlarmInv, AlarmIds
    <3> QED
      BY <2>1, <3>1 DEF DoneFor
  <2>4. \A i \in AlarmIds : i # clockAlarm => G_alarms'[i] = G_alarms[i]
    BY <2>1 DEF AlarmIds
  <2>5. \A i \in AlarmIds : i # clockAlarm /\ DoneFor(i) => DoneFor(i)'
    BY <2>1, <2>4 DEF DoneFor, Matches
  <2>6. \A i \in AlarmIds : i \in Nat /\ (i < clockAlarm + 1 => i < clockAlarm \/ i = clockAlarm)
    BY <2>1 DEF AlarmInv
  <2> QED
    BY <2>1, <2>2, <2>3, <2>5, <2>6 DEF PassInv
<1>5. CASE ClockEndsTests
  <2>1. UNCHANGED <<now, G_tm, G_alarms, clockAlarm, touched, setupPc>> /\ clockPc = "test"
        /\ clockAlarm \notin AlarmIds
        /\ \/ clockPc' = "indicate" /\ looked' = looked
           \/ clockPc' = "sleep" /\ looked' = (looked \/ G_tm = now)
    BY <1>5 DEF ClockEndsTests
  <2>2. \A i \in AlarmIds : i < clockAlarm
    BY <2>1 DEF AlarmInv, TimesInv
  <2>3. G_tm = now => \A i \in AlarmIds : DoneFor(i)
    BY <2>1, <2>2 DEF PassInv
  <2>4. \A i \in AlarmIds : DoneFor(i) => DoneFor(i)'
    BY <2>1 DEF DoneFor, Matches
  <2> QED
    <3>1. AlarmIds' = AlarmIds
      BY <2>1 DEF AlarmIds
    <3>2. CASE clockPc' = "indicate" /\ looked' = looked
      BY <2>1, <2>3, <2>4, <3>1, <3>2 DEF PassInv
    <3>3. CASE clockPc' = "sleep" /\ looked' = (looked \/ G_tm = now)
      BY <2>1, <2>3, <2>4, <3>1, <3>3 DEF PassInv
    <3> QED
      BY <2>1, <3>2, <3>3
<1>6. CASE ClockIndicates
  <2>1. UNCHANGED <<now, G_tm, G_alarms, clockAlarm, touched, setupPc>> /\ clockPc = "indicate"
        /\ clockPc' = "sleep" /\ looked' = (looked \/ G_tm = now)
    BY <1>6 DEF ClockIndicates
  <2>2. \A i \in AlarmIds : DoneFor(i) => DoneFor(i)'
    BY <2>1 DEF DoneFor, Matches
  <2> QED
    BY <2>1, <2>2 DEF PassInv, AlarmIds
<1> QED
  BY <1>1, <1>2, <1>3, <1>4, <1>5, <1>6 DEF ClockStep

(* When the menu runs, the clock is between two passes, or waits.           *)
LEMMA PassSetup ==
  ASSUME AlarmInv, RingInv, DisplayInv, PassInv, SetupStep, ~ClockReady
  PROVE  PassInv'
<1>0. clockPc \notin {"test", "ring"} /\ OfAlarm \in AlarmIds /\ touched \in [AlarmIds -> BOOLEAN]
  BY OfAlarmIs DEF ClockReady, ClockWaits, AlarmInv, RingInv
<1>1. ASSUME UNCHANGED scheduleVars,
             \/ setupPc' \notin {"reading", "executing"}
             \/ setupPc \in {"reading", "executing"} \/ clockPc = "sleep"
      PROVE  PassInv'
  BY <1>1 DEF PassInv, DoneFor, Matches, AlarmIds, scheduleVars, Before
<1>2. ASSUME NEW i \in AlarmIds, \A k \in AlarmIds : k # i => G_alarms'[k] = G_alarms[k],
             AlarmIds' = AlarmIds, touched'[i], \A k \in AlarmIds : k # i => touched'[k] = touched[k],
             UNCHANGED <<now, G_tm, clockPc, clockAlarm, looked>>,
             \/ setupPc' \notin {"reading", "executing"}
             \/ setupPc \in {"reading", "executing"}
      PROVE  PassInv'
  <2>1. \A k \in AlarmIds : DoneFor(k) => DoneFor(k)'
    BY <1>2 DEF DoneFor, Matches
  <2> QED
    BY <1>0, <1>2, <2>1 DEF PassInv, Before
<1>3. ASSUME NEW i \in AlarmIds, NEW alarm, SetAlarm(i, alarm)
      PROVE  /\ \A k \in AlarmIds : k # i => G_alarms'[k] = G_alarms[k] /\ touched'[k] = touched[k]
             /\ AlarmIds' = AlarmIds /\ touched'[i]
             /\ UNCHANGED <<now, G_tm, clockPc, clockAlarm, looked>>
  BY <1>0, <1>3 DEF SetAlarm, AlarmIds
<1>4. CASE SetupNoticesMode \/ SetupGoesOn \/ SetupCloses
  BY <1>1, <1>4 DEF SetupNoticesMode, SetupGoesOn, SetupCloses
<1>5. CASE SetupOpens
  <2>1. clockPc = "sleep"
    BY <1>5 DEF SetupOpens, ClockReady, ClockWaits
  <2> QED
    BY <1>1, <1>5, <2>1 DEF SetupOpens
<1>6. CASE SetupEditsTime \/ SetupExecutes \/ SetupExecuted
  BY <1>1, <1>6 DEF SetupEditsTime, SetupExecutes, SetupExecuted, ReadsKey
<1>7. CASE SetupEditsInPlace
  <2>1. setupPc = "reading" /\ setupPc' = setupPc
        /\ ((\E alarm : SetAlarm(OfAlarm, alarm)) \/ UNCHANGED scheduleVars)
    BY <1>7 DEF SetupEditsInPlace, ReadsKey
  <2> QED
    BY <1>0, <1>1, <1>2, <1>3, <2>1
<1>8. CASE SetupLeaves \/ SetupStoresHour
  <2>1. setupPc' \in {"storeHour", "storeFlag", "closing"}
        /\ ((\E alarm : SetAlarm(OfAlarm, alarm)) \/ UNCHANGED scheduleVars)
    BY <1>8 DEF SetupLeaves, SetupStoresHour
  <2> QED
    BY <1>0, <1>1, <1>2, <1>3, <2>1
<1>9. CASE SetupStoresFlag
  <2>1. /\ setupPc = "storeFlag" /\ setupPc' = "closing"
        /\ G_alarms' = [G_alarms EXCEPT ![OfAlarm].triggered_today = 0]
        /\ UNCHANGED <<now, G_tm, touched, clockPc, clockAlarm, looked>>
    BY <1>9 DEF SetupStoresFlag
  <2>2. touched[OfAlarm] /\ AlarmIds' = AlarmIds
        /\ \A k \in AlarmIds : k # OfAlarm => G_alarms'[k] = G_alarms[k]
    BY <1>0, <2>1 DEF RingInv, AlarmIds
  <2> QED
    BY <1>0, <1>2, <2>1, <2>2
<1>10. CASE SetupLeavesClock
  <2>1. setupPc' = "closing"
    BY <1>10 DEF SetupLeavesClock
  <2>2. CASE UNCHANGED scheduleVars
    BY <1>1, <2>1, <2>2
  <2>3. CASE /\ touched' = [i \in AlarmIds |-> TRUE] /\ looked' = FALSE
             /\ UNCHANGED <<G_alarms, clockPc, clockAlarm>>
    BY <1>0, <2>1, <2>3 DEF PassInv, DoneFor, AlarmIds
  <2> QED
    BY <1>10, <2>1, <2>2, <2>3 DEF SetupLeavesClock
<1> QED
  BY <1>4, <1>5, <1>6, <1>7, <1>8, <1>9, <1>10 DEF SetupStep

(* If a minute passes over a waiting clock, a command is being carried out.  *)
LEMMA WaitsForCommand ==
  ASSUME DisplayInv, AtRest, ClockWaits
  PROVE  setupPc = "executing"
<1>1. G_global_mode = "normal" /\ setupPc \in Holding
  BY DEF DisplayInv, ClockWaits
<1>2. setupPc # "reading"
  <2> SUFFICES ASSUME setupPc = "reading" PROVE FALSE
    OBVIOUS
  <2>1. G_setup_key_input = <<>>
    BY DEF AtRest
  <2>2. "SETUP" \in Keys
    BY <1>1 DEF DisplayInv
  <2> QED
    BY <2>1, <2>2 DEF Keys, KeysOf
<1> QED
  BY <1>1, <1>2 DEF AtRest, Holding

(* Every step, on one core.                                                  *)
LEMMA PassStep ==
  ASSUME OneCore, AlarmInv, TimesInv, RingInv, DisplayInv, PassInv, [Next]_vars
  PROVE  PassInv'
<1>1. CASE Clock
  BY <1>1, PassClock DEF Clock
<1>2. CASE Setup
  BY <1>2, PassSetup DEF Setup, SetupMayRun
<1>3. CASE Keyboard \/ UNCHANGED vars
  <2>1. UNCHANGED <<scheduleVars, setupVars>>
    BY <1>3 DEF Keyboard, UserPresses, KeyHandled, KeyToMenu, KeyEntersSetup, KeyClearsDisplay,
       KeySetsSetupMode, KeySetsNormalMode, KeyRestoresRows, KeyDrawsArrow, KeyElse, KeyDraws, vars
  <2> QED
    BY <2>1 DEF PassInv, DoneFor, Matches, AlarmIds, scheduleVars, setupVars, Before
<1>4. CASE World
  <2>1. CASE AtRest /\ MinutePasses
    <3>1. looked' = FALSE /\ now' = NextMinute(now)
          /\ UNCHANGED <<G_tm, G_alarms, clockPc, clockAlarm, setupPc>>
      BY <1>4, <2>1 DEF World, MinutePasses, setupVars
    <3>2. CASE clockPc = "sleep"
      BY <3>1, <3>2 DEF PassInv
    <3>3. CASE ClockWaits
      <4>1. setupPc = "executing" /\ clockPc \in {"draw", "indicate"}
        BY <2>1, <3>3, WaitsForCommand DEF ClockWaits
      <4>2. Before(G_tm, now') /\ G_tm # now'
        BY <3>1, <4>1, TimeGoesOn DEF PassInv, TimesInv
      <4>3. Before(G_tm', now')
        BY <3>1, <4>2
      <4> QED
        BY <3>1, <4>1, <4>2, <4>3 DEF PassInv
    <3> QED
      BY <2>1, <3>2, <3>3 DEF MinutePasses
  <2>2. CASE OthersChangeMode
    BY <1>4, <2>2 DEF World, OthersChangeMode, PassInv, DoneFor, Matches, AlarmIds, historyVars,
       setupVars, Before
  <2> QED
    BY <1>4, <2>1, <2>2 DEF World
<1> QED
  BY <1>1, <1>2, <1>3, <1>4 DEF Next

(* The numbers of the days are different: they are of one year.             *)
OneYear == \A d, e \in DOMAIN YearDays : YearDays[d] = YearDays[e] => d = e

(* What is known when a minute ends.                                        *)
LEMMA DueHasRung ==
  ASSUME OneYear, AlarmInv, TimesInv, MarkInv, PassInv, looked, NEW i \in AlarmIds,
         G_alarms[i].active, Matches(G_alarms[i], now), ~touched[i],
         YearDays[now.day] = 0 => rangOn[i] # 0
  PROVE  rangOn[i] = now.day
<1>1. G_alarms[i].triggered_today = YearDays[now.day]
  BY DEF PassInv, DoneFor
<1>2. YearDays[now.day] = IF rangOn[i] = 0 THEN 0 ELSE YearDays[rangOn[i]]
  BY <1>1 DEF MarkInv
<1>3. rangOn[i] # 0 /\ YearDays[now.day] = YearDays[rangOn[i]]
  BY <1>2
<1>4. now.day \in DOMAIN YearDays /\ rangOn[i] \in DOMAIN YearDays
  BY <1>3, ScheduleAssumption DEF TimesInv, Times
<1> QED
  BY <1>3, <1>4 DEF OneYear

(* At the start nothing is due, nothing has gone off and nothing is marked.   *)
LEMMA DueInit == Init => AlarmInv /\ TimesInv /\ MarkInv /\ PassInv
<1> SUFFICES ASSUME Init PROVE AlarmInv /\ TimesInv /\ MarkInv /\ PassInv
  OBVIOUS
<1>1. G_alarms \in FirstAlarms
  BY DEF Init, ScheduleInit
<1>2. G_alarms \in Seq(AlarmType) /\ Len(G_alarms) >= 2
      /\ \A i \in AlarmIds : G_alarms[i].triggered_today = 0
  BY <1>1, AlarmAssumption, SetupAssumption DEF AlarmIds
<1>3. AlarmIds = 1 .. Len(G_alarms) /\ Len(G_alarms) \in Nat
      /\ \A i \in AlarmIds : G_alarms[i] \in AlarmType
  BY <1>2 DEF AlarmIds
<1>4. \A alarm \in AlarmType :
        /\ {"hour", "minute", "triggered_today"} \subseteq DOMAIN alarm
        /\ alarm.hour \in 0 .. Hours - 1 /\ alarm.minute \in 0 .. Minutes - 1
  BY DEF AlarmType
<1>5. AlarmInv
  BY <1>2, <1>3, <1>4 DEF AlarmInv
<1>6. Len(YearDays) \in Nat /\ Len(YearDays) >= 1
  BY ScheduleAssumption
<1>7. now = [day |-> 1, hour |-> 0, minute |-> 0] /\ G_tm = now /\ clockAlarm = 1 /\ edit = NoEdit
      /\ rangOn = [i \in AlarmIds |-> 0] /\ clockPc = "sleep" /\ looked = FALSE
  BY DEF Init, ScheduleInit, SetupInit
<1>8. now \in Times
  BY <1>6, <1>7, ScheduleAssumption DEF Times
<1>9. TimesInv
  BY <1>6, <1>7, <1>8, NoEditIs DEF TimesInv
<1> QED
  BY <1>2, <1>5, <1>7, <1>9 DEF MarkInv, PassInv

(* No minute goes by for which an alarm was set without its going off, but    *)
(* for those that a command of the menu keeps the clock from: on one core, in *)
(* every calendar of at most a year.                                        *)
THEOREM EveryDueAlarmRings ==
  ASSUME OneCore, OneYear
  PROVE  Spec => DueAlarmRings
<1>1. Init => DisplayInv
  BY DEF Init, ScheduleInit, SetupInit, KeyboardInit, DisplayInv, Keys, KeysOf, OnlyLastCloses,
         Holding
<1> DEFINE All == AlarmInv /\ TimesInv /\ MarkInv /\ RingInv /\ DisplayInv /\ PassInv
<1>2. Init => All
  BY <1>1, DueInit, RingInvInit
<1>3. All /\ [Next]_vars => All'
  BY TimesStep, RingInvNext, DisplayInvNext, PassStep
<1>4. All /\ [Next]_vars =>
        [(now # now' /\ MinutePasses) => \A i \in AlarmIds :
           (/\ G_alarms[i].active /\ Matches(G_alarms[i], now)
            /\ rangOn[i] # now.day /\ (YearDays[now.day] = 0 => rangOn[i] # 0)
            /\ ~touched[i])
           => ClockWaits /\ setupPc = "executing"]_vars
  <2> SUFFICES ASSUME All, [Next]_vars, now # now', MinutePasses, NEW i \in AlarmIds,
                      G_alarms[i].active, Matches(G_alarms[i], now), rangOn[i] # now.day,
                      YearDays[now.day] = 0 => rangOn[i] # 0, ~touched[i]
               PROVE  ClockWaits /\ setupPc = "executing"
    OBVIOUS
  <2>1. CASE clockPc = "sleep" /\ looked
    BY <2>1, DueHasRung
  <2>2. CASE ClockWaits
    <3>1. AtRest
      <4>1. CASE World
        BY <4>1 DEF World, OthersChangeMode
      <4>2. CASE Clock
        BY <4>2 DEF Clock, ClockStep, ClockLooks, ClockDraws, ClockTests, ClockRings,
           ClockEndsTests, ClockIndicates
      <4>3. CASE Keyboard
        BY <4>3 DEF Keyboard, UserPresses, KeyHandled, KeyToMenu, KeyEntersSetup, KeyClearsDisplay,
           KeySetsSetupMode, KeySetsNormalMode, KeyRestoresRows, KeyDrawsArrow, KeyElse, KeyDraws,
           scheduleVars
      <4>4. CASE Setup
        <5>1. touched'[i] = FALSE
          BY DEF MinutePasses
        <5> QED
          BY <4>4, <5>1 DEF Setup, SetupStep, SetupNoticesMode, SetupGoesOn, SetupOpens,
             SetupEditsTime, SetupEditsInPlace, SetupExecutes, SetupExecuted, SetupLeaves,
             SetupStoresHour, SetupStoresFlag, SetupLeavesClock, SetupCloses, SetAlarm, scheduleVars
      <4>5. CASE UNCHANGED vars
        BY <4>5 DEF vars, scheduleVars
      <4> QED
        BY <4>1, <4>2, <4>3, <4>4, <4>5 DEF Next
    <3> QED
      BY <2>2, <3>1, WaitsForCommand
  <2> QED
    BY <2>1, <2>2 DEF MinutePasses
<1> QED
  BY <1>2, <1>3, <1>4, PTL DEF Spec, DueAlarmRings
=============================================================================
