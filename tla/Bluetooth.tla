------------------------------ MODULE Bluetooth ------------------------------
(***************************************************************************)
(* Pairing with a bluetooth device (bluetooth/bluetooth-threads.c and       *)
(* bluetooth/btctl-proxy.c): a thread sends commands to bluetoothctl over a  *)
(* socket, and a second after each takes for its answer whatever has        *)
(* arrived.  bluetoothctl is not part of the program; it answers in order,   *)
(* some commands late, and tells of events when it likes.                   *)
(***************************************************************************)
EXTENDS Naturals, Sequences

CONSTANTS
  TriesLimit,  \* 2^8
  MaxBehind    \* bound: how many commands bluetoothctl leaves unanswered

ASSUME BluetoothAssumption == TriesLimit \in Nat /\ TriesLimit > 4 /\ MaxBehind \in Nat \ {0}

VARIABLES
  G_bt_pair_now, G_bt_source_connected,
  tries,
  btStep, btSent,    \* what the thread asks next, and whether it has
  commands, arrived, \* on their way to bluetoothctl and from it
  (* History, not in the program: *)
  prepared           \* what bluetoothctl has really done for the attempt under way

btVars == <<G_bt_pair_now, G_bt_source_connected, tries, btStep, btSent, commands, arrived, prepared>>

(* What an attempt asks before it pairs, in this order.                      *)
Preparation == <<"power_on", "system-alias", "pairable_on", "discoverable_on", "scan_on">>
Preparations == {Preparation[i] : i \in DOMAIN Preparation}

(* The thread asks for info at three places.                                *)
Infos == {"info", "info_before", "info_after"}

Answers(command) ==
  CASE command \in Infos              -> {"Missing", "connected", "not_connected"}
    [] command = "devices"            -> {"Device", "no_device"}
    [] command = "scan_on"            -> {"started", "Failed"}
    [] command = "pair"               -> {"paired", "Failed"}
    [] command \in {"power_on", "system-alias", "pairable_on", "discoverable_on", "trust"} ->
         {"succeeded", "Failed"}

BtInit ==
  /\ G_bt_pair_now = FALSE /\ G_bt_source_connected = FALSE /\ tries = 0
  /\ btStep = "info" /\ btSent = FALSE
  /\ commands = <<>> /\ arrived = {} /\ prepared = {}

-----------------------------------------------------------------------------
(* bluetoothctl, and [BT pair now] in the menu.                             *)
BtAnswers ==
  /\ commands # <<>> /\ commands' = Tail(commands)
  /\ \E text \in Answers(Head(commands)) :
       /\ arrived' = arrived \cup {text}
       /\ prepared' = IF Head(commands) \in Preparations /\ text \in {"succeeded", "started"}
                      THEN prepared \cup {Head(commands)} ELSE prepared
  /\ UNCHANGED <<G_bt_pair_now, G_bt_source_connected, tries, btStep, btSent>>

BtTellsEvent ==
  /\ arrived' = arrived \cup {"event"}
  /\ UNCHANGED <<G_bt_pair_now, G_bt_source_connected, tries, btStep, btSent, commands, prepared>>

MenuSetsPairNow ==
  /\ G_bt_pair_now' \in BOOLEAN
  /\ UNCHANGED <<G_bt_source_connected, tries, btStep, btSent, commands, arrived, prepared>>

-----------------------------------------------------------------------------
BtSends ==
  /\ ~btSent /\ btSent' = TRUE
  /\ Len(commands) < MaxBehind
  /\ commands' = Append(commands, btStep)
  /\ UNCHANGED <<G_bt_pair_now, G_bt_source_connected, tries, btStep, arrived, prepared>>

(* recv() waits until something has come and takes all of it.                *)
Received(step) ==
  /\ btStep = step /\ btSent /\ btSent' = FALSE
  /\ arrived # {} /\ arrived' = {}
  /\ UNCHANGED commands

(* btctlproxy_is_connected: with no "Missing" in it the buffer is searched   *)
(* past what was received, and there are paths that return no value.         *)
IsConnected == IF "Missing" \in arrived THEN {FALSE} ELSE BOOLEAN

(* Wrong: an attempt is not counted.                                        *)
TryNotCounted == tries
TryCounted == (tries + 1) % TriesLimit

BtLooks ==
  /\ Received("info")
  /\ G_bt_source_connected' \in IsConnected
  /\ IF G_bt_pair_now
     THEN /\ tries' = TryCounted
          /\ G_bt_pair_now' = (TryCounted # 4)
          /\ btStep' = "info_before"
     ELSE UNCHANGED <<tries, G_bt_pair_now, btStep>>
  /\ UNCHANGED prepared

BtLooksBefore ==
  /\ Received("info_before")
  /\ prepared' = {}
  /\ \E connected \in IsConnected :
       /\ btStep' = IF connected THEN "info" ELSE Preparation[1]
       /\ G_bt_pair_now' = (G_bt_pair_now /\ ~connected)
  /\ UNCHANGED <<G_bt_source_connected, tries>>

(* Wrong: an answer is enough.                                              *)
AnyAnswer(i) == arrived # {}
WentWell(i) == (IF Preparation[i] = "scan_on" THEN "started" ELSE "succeeded") \in arrived

BtPrepares ==
  /\ \E i \in DOMAIN Preparation :
       /\ Received(Preparation[i])
       /\ IF WentWell(i)
          THEN /\ btStep' \in IF i < Len(Preparation) THEN {Preparation[i + 1]}
                              ELSE {"devices", "trust"}  \* a name to look for, or an address
               /\ UNCHANGED G_bt_pair_now
          ELSE btStep' = "info" /\ G_bt_pair_now' = FALSE
  /\ UNCHANGED <<G_bt_source_connected, tries, prepared>>

(* btctlproxy_find_and_pair.  What trust and pair give is not looked at.     *)
BtFindsDevice ==
  /\ Received("devices")
  /\ btStep' = IF "Device" \in arrived THEN "trust" ELSE "info"
  /\ UNCHANGED <<G_bt_pair_now, G_bt_source_connected, tries, prepared>>

BtPairs ==
  /\ \/ Received("trust") /\ btStep' = "pair"
     \/ Received("pair") /\ btStep' = "info_after"
  /\ UNCHANGED <<G_bt_pair_now, G_bt_source_connected, tries, prepared>>

BtLooksAfter ==
  /\ Received("info_after") /\ btStep' = "info"
  /\ \E connected \in IsConnected : G_bt_pair_now' = (G_bt_pair_now /\ ~connected)
  /\ UNCHANGED <<G_bt_source_connected, tries, prepared>>

BtThread ==
  \/ BtSends \/ BtLooks \/ BtLooksBefore \/ BtPrepares \/ BtFindsDevice \/ BtPairs \/ BtLooksAfter

BtNext == BtThread \/ BtAnswers \/ BtTellsEvent \/ MenuSetsPairNow
BtSpec == BtInit /\ [][BtNext]_btVars /\ WF_btVars(BtThread) /\ WF_btVars(BtAnswers)

-----------------------------------------------------------------------------
(* Nothing is paired by an attempt whose preparations were not all done,     *)
(* though answers are late and events come between them.                    *)
PairsWhenReady == btStep \in {"devices", "trust", "pair"} => Preparations \subseteq prepared

(* A wish to pair is not pursued for ever.                                  *)
PairingEnds == []<>~G_bt_pair_now
=============================================================================
