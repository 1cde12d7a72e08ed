---------------------------- MODULE AudioLibrary ----------------------------
(***************************************************************************)
(* What the users of the audio library promise one another, without saying   *)
(* how they decide: one of them opens it before the first use, any number of *)
(* them use it together, and the last one to leave closes it.  Nobody opens  *)
(* an open library, and nobody closes one that is in use.                   *)
(*                                                                         *)
(* BassSharing implements this with G_BASS_in_use and no lock.              *)
(***************************************************************************)
EXTENDS FiniteSets

CONSTANTS
  Users,
  Outputs    \* the devices the library can be opened on

VARIABLES
  device,    \* the device the library is open on, "none" when it is closed
  holders,   \* the users of the open library
  opening,   \* the one that has opened it and is about to use it
  closing    \* the one that left it last and is about to close it

libraryVars == <<device, holders, opening, closing>>

LibraryInit ==
  /\ device = "none"
  /\ holders = {}
  /\ opening = {}
  /\ closing = {}

Open(u) ==
  /\ device = "none"
  /\ holders = {} /\ opening = {} /\ closing = {}
  /\ device' \in Outputs
  /\ opening' = {u}
  /\ UNCHANGED <<holders, closing>>

UseFirst(u) ==
  /\ opening = {u}
  /\ opening' = {}
  /\ holders' = {u}
  /\ UNCHANGED <<device, closing>>

Join(u) ==
  /\ device # "none"
  /\ holders # {}
  /\ holders' = holders \cup {u}
  /\ UNCHANGED <<device, opening, closing>>

Leave(u) ==
  /\ u \in holders
  /\ holders' = holders \ {u}
  /\ closing' = IF holders' = {} THEN {u} ELSE {}
  /\ UNCHANGED <<device, opening>>

Close(u) ==
  /\ closing = {u}
  /\ holders = {}
  /\ closing' = {}
  /\ device' = "none"
  /\ UNCHANGED <<holders, opening>>

LibraryNext == \E u \in Users : Open(u) \/ UseFirst(u) \/ Join(u) \/ Leave(u) \/ Close(u)

LibrarySpec == LibraryInit /\ [][LibraryNext]_libraryVars
=============================================================================
