------------------------- MODULE BassSharing_proofs -------------------------
(***************************************************************************)
(* Proofs about BassSharing, for any set of users, any of which may always   *)
(* take the internal speaker, and whatever the sound device and the          *)
(* Bluetooth indicator answer.                                             *)
(***************************************************************************)
EXTENDS BassSharing, TLAPS

(* The values a step of the library can leave behind.                      *)
LEMMA BassTypeInit == BassInit0 => BassTypeOK
  BY DEF BassInit0, BassTypeOK, Outputs, Locations

LEMMA BassTypeNext ==
  ASSUME BassTypeOK, [BassNext]_bassVars
  PROVE  BassTypeOK'
<1> USE DEF BassTypeOK
<1>1. CASE UNCHANGED bassVars
  BY <1>1 DEF bassVars
<1>2. CASE BtIndicator
  BY <1>2, BassAssumption DEF BtIndicator
<1>3. ASSUME NEW u \in Users, UserStep(u)
      PROVE  BassTypeOK'
  <2>1. ASSUME NEW noted \in BOOLEAN, ChooseOutput(u, noted)
        PROVE  BassTypeOK'
    BY <2>1 DEF ChooseOutput, Goes, Locations, Outputs
  <2>2. CASE TurnOnAmp(u)
    BY <2>2 DEF TurnOnAmp, Goes, Locations, Outputs
  <2>3. CASE JoinUsers(u)
    BY <2>3 DEF JoinUsers, Goes, Locations
  <2>4. CASE FindUnused(u)
    BY <2>4 DEF FindUnused, Goes, Locations
  <2>5. CASE InitSucceeds(u)
    BY <2>5 DEF InitSucceeds, Goes, Locations
  <2>6. CASE SetBit(u)
    BY <2>6 DEF SetBit, Goes, Locations
  <2>7. CASE InitFails(u)
    BY <2>7 DEF InitFails, Goes, Locations
  <2>8. CASE ClearBit(u)
    BY <2>8 DEF ClearBit, Goes, Locations, Flip
  <2>11. CASE FreeBass(u)
    BY <2>11 DEF FreeBass, Goes, Locations
  <2>12. CASE TurnOffAmp(u)
    BY <2>12 DEF TurnOffAmp, Goes, Locations
  <2>13. CASE Abandon(u)
    BY <2>13 DEF Abandon, Goes, Locations
  <2> QED
    BY <1>3, <2>1, <2>2, <2>3, <2>4, <2>5, <2>6, <2>7, <2>8, <2>11, <2>12, <2>13
    DEF UserStep, Acquire, Release
<1> QED
  BY <1>1, <1>2, <1>3 DEF BassNext

(* Every variable of the library keeps its type, torn writes included.      *)
THEOREM BassTypeCorrect == BassSpec => []BassTypeOK
<1>1. BassInit0 => BassTypeOK
  BY BassTypeInit
<1>2. BassTypeOK /\ [BassNext]_bassVars => BassTypeOK'
  BY BassTypeNext
<1> QED
  BY <1>1, <1>2, PTL DEF BassSpec

-----------------------------------------------------------------------------
LEMMA BassInvInit == BassInit0 => BassInv
<1> SUFFICES ASSUME BassInit0 PROVE BassInv
  OBVIOUS
<1>1. BassTypeOK
  BY BassTypeInit
<1>2. \A u \in Users : at[u] = "out"
  BY DEF BassInit0
<1> QED
  BY <1>1, <1>2 DEF BassInit0, BassInv, Whole, BassUpWhileInUse, PlayingIsRegistered,
                    NoOrphanedLibrary, OneDecides, Deciding

(* A user that only moves, between places where it decides nothing and holds *)
(* nothing, or out of the library with its bit left set, keeps the invariant. *)
LEMMA MovingKeepsInv ==
  ASSUME NEW u \in Users, NEW from, NEW to, BassInv, BassTypeOK', Goes(u, from, to),
         to \notin {"register", "in", "free", "orStore", "xorStore", "test"},
         from \notin {"register", "free"},
         UNCHANGED <<G_BASS_in_use, bassDevice>>
  PROVE  BassInv'
<1> USE DEF BassInv, BassTypeOK
<1>1. \A v \in Users : at'[v] = IF v = u THEN to ELSE at[v]
  BY DEF Goes
<1>2. \A v \in Users : Deciding(v)' <=> Deciding(v)
  BY <1>1 DEF Deciding, Goes
<1>3. Whole'
  BY <1>1 DEF Whole
<1>4. PlayingIsRegistered'
  BY <1>1 DEF PlayingIsRegistered
<1>5. NoOrphanedLibrary'
  BY <1>2 DEF NoOrphanedLibrary
<1>6. OneDecides'
  BY <1>2 DEF OneDecides
<1> QED
  BY <1>3, <1>4, <1>5, <1>6 DEF BassUpWhileInUse

LEMMA BassInvNext ==
  ASSUME ~Torn, BassInv, [BassNext]_bassVars
  PROVE  BassInv'
<1>1. BassTypeOK'
  BY BassTypeNext DEF BassInv
<1>2. CASE UNCHANGED <<G_BASS_in_use, bassDevice, at>>
  BY <1>1, <1>2 DEF BassInv, Whole, BassUpWhileInUse, PlayingIsRegistered,
                    NoOrphanedLibrary, OneDecides, Deciding
<1>3. ASSUME NEW u \in Users, UserStep(u)
      PROVE  BassInv'
  <2>1. ASSUME NEW noted \in BOOLEAN, ChooseOutput(u, noted)
        PROVE  BassInv'
    <3>1. CASE Goes(u, "out", "ampOn")
      BY <3>1, <2>1, <1>1, MovingKeepsInv DEF ChooseOutput
    <3>2. CASE Goes(u, "out", "check")
      BY <3>2, <2>1, <1>1, MovingKeepsInv DEF ChooseOutput
    <3> QED
      BY <2>1, <3>1, <3>2 DEF ChooseOutput
  <2>2. CASE TurnOnAmp(u)
    BY <2>2, <1>1, MovingKeepsInv DEF TurnOnAmp
  <2>4. CASE FindUnused(u)
    BY <2>4, <1>1, MovingKeepsInv DEF FindUnused
  <2>7. CASE InitFails(u)
    BY <2>7, <1>1, MovingKeepsInv DEF InitFails
  <2>12. CASE TurnOffAmp(u)
    BY <2>12, <1>1, MovingKeepsInv DEF TurnOffAmp
  <2>13. CASE Abandon(u)
    BY <2>13, <1>1, MovingKeepsInv DEF Abandon
  (* In the others the set of bits or the device changes.                   *)
  <2> USE DEF BassInv, BassTypeOK, Goes, Whole, BassUpWhileInUse, PlayingIsRegistered,
              NoOrphanedLibrary, OneDecides, Deciding
  <2>3. CASE JoinUsers(u)
    BY <2>3, <1>1 DEF JoinUsers
  <2>5. CASE InitSucceeds(u)
    BY <2>5, <1>1 DEF InitSucceeds, Outputs
  <2>6. CASE SetBit(u)
    BY <2>6, <1>1 DEF SetBit
  <2>8. CASE ClearBit(u)
    BY <2>8, <1>1 DEF ClearBit, Flip
  <2>11. CASE FreeBass(u)
    BY <2>11, <1>1 DEF FreeBass
  <2> QED
    BY <1>3, <2>1, <2>2, <2>3, <2>4, <2>5, <2>6, <2>7, <2>8, <2>11, <2>12, <2>13
    DEF UserStep, Acquire, Release
<1> QED
  BY <1>2, <1>3 DEF BassNext, BtIndicator, bassVars

(* As long as |= and ^= are single steps, the invariant holds, and with it   *)
(* each of the four properties of the sharing.                             *)
THEOREM BassInvariant == ASSUME ~Torn PROVE BassSpec => []BassInv
<1>1. BassInit0 => BassInv
  BY BassInvInit
<1>2. BassInv /\ [BassNext]_bassVars => BassInv'
  BY BassInvNext
<1> QED
  BY <1>1, <1>2, PTL DEF BassSpec

(* While any bit is set the library is initialised, whatever the number of    *)
(* users and the order of their steps: nobody's channel loses the library.   *)
THEOREM LibraryIsUp == ASSUME ~Torn PROVE BassSpec => []BassUpWhileInUse
<1>1. BassInv => BassUpWhileInUse
  BY DEF BassInv
<1> QED
  BY <1>1, BassInvariant, PTL

(* The library is never left initialised with nobody to use or to free it,   *)
(* so that a later BASS_Init is refused only for a moment.                  *)
THEOREM LibraryIsFreed == ASSUME ~Torn PROVE BassSpec => []NoOrphanedLibrary
<1>1. BassInv => NoOrphanedLibrary
  BY DEF BassInv
<1> QED
  BY <1>1, BassInvariant, PTL

(* Whoever plays has its bit set: no other user's |= or ^= takes it away.     *)
THEOREM PlaysRegistered == ASSUME ~Torn PROVE BassSpec => []PlayingIsRegistered
<1>1. BassInv => PlayingIsRegistered
  BY DEF BassInv
<1> QED
  BY <1>1, BassInvariant, PTL

(* Initialising and freeing exclude one another and themselves.             *)
THEOREM DecidesAlone == ASSUME ~Torn PROVE BassSpec => []OneDecides
<1>1. BassInv => OneDecides
  BY DEF BassInv
<1> QED
  BY <1>1, BassInvariant, PTL

-----------------------------------------------------------------------------
(* The refinement.                                                         *)

LEMMA LibraryInitMapped == BassInit0 => Library!LibraryInit
  BY DEF BassInit0, Library!LibraryInit

(* A user that neither enters nor leaves the two deciding places, and leaves *)
(* bits and device alone, does not show in AudioLibrary.                    *)
LEMMA MovingStutters ==
  ASSUME NEW u \in Users, NEW from, NEW to, BassTypeOK, Goes(u, from, to),
         from \notin {"register", "free"}, to \notin {"register", "free"},
         UNCHANGED <<G_BASS_in_use, bassDevice>>
  PROVE  UNCHANGED Library!libraryVars
<1>1. \A v \in Users : at'[v] = IF v = u THEN to ELSE at[v]
  BY DEF Goes, BassTypeOK
<1>2. {v \in Users : at[v] = "register"}' = {v \in Users : at[v] = "register"}
  BY <1>1 DEF Goes
<1>3. {v \in Users : at[v] = "free"}' = {v \in Users : at[v] = "free"}
  BY <1>1 DEF Goes
<1> QED
  BY <1>2, <1>3 DEF Library!libraryVars

LEMMA LibraryNextMapped ==
  ASSUME ~Torn, BassInv, BassInv', [BassNext]_bassVars
  PROVE  [Library!LibraryNext]_(Library!libraryVars)
<1>1. CASE UNCHANGED <<G_BASS_in_use, bassDevice, at>>
  BY <1>1 DEF Library!libraryVars
<1>2. ASSUME NEW u \in Users, UserStep(u)
      PROVE  [Library!LibraryNext]_(Library!libraryVars)
  <2> DEFINE opening == {v \in Users : at[v] = "register"}
             closing == {v \in Users : at[v] = "free"}
  <2> USE DEF BassInv
  <2>1. ASSUME NEW noted \in BOOLEAN, ChooseOutput(u, noted)
        PROVE  UNCHANGED Library!libraryVars
    <3>1. CASE Goes(u, "out", "ampOn")
      BY <3>1, <2>1, MovingStutters DEF ChooseOutput
    <3>2. CASE Goes(u, "out", "check")
      BY <3>2, <2>1, MovingStutters DEF ChooseOutput
    <3> QED
      BY <2>1, <3>1, <3>2 DEF ChooseOutput
  <2>2. CASE TurnOnAmp(u)
    BY <2>2, MovingStutters DEF TurnOnAmp
  <2>3. CASE FindUnused(u)
    BY <2>3, MovingStutters DEF FindUnused
  <2>4. CASE InitFails(u)
    BY <2>4, MovingStutters DEF InitFails
  <2>5. CASE TurnOffAmp(u)
    BY <2>5, MovingStutters DEF TurnOffAmp
  <2>6. CASE Abandon(u)
    BY <2>6, MovingStutters DEF Abandon
  <2>7. CASE JoinUsers(u)
    <3>1. opening' = opening /\ closing' = closing
      BY <2>7 DEF JoinUsers, Goes, BassTypeOK
    <3>2. Library!Join(u)
      BY <2>7, <3>1 DEF JoinUsers, Library!Join, BassUpWhileInUse
    <3> QED
      BY <3>2 DEF Library!LibraryNext
  <2>8. CASE InitSucceeds(u)
    <3>1. opening = {} /\ closing = {} /\ G_BASS_in_use = {}
      BY <2>8 DEF InitSucceeds, OneDecides, Deciding, BassUpWhileInUse
    <3>2. opening' = {u} /\ closing' = {}
      BY <2>8, <3>1 DEF InitSucceeds, Goes, BassTypeOK
    <3>3. Library!Open(u)
      BY <2>8, <3>1, <3>2 DEF InitSucceeds, Library!Open, BassTypeOK
    <3> QED
      BY <3>3 DEF Library!LibraryNext
  <2>9. CASE SetBit(u)
    <3>1. at[u] = "register" /\ at' = [at EXCEPT ![u] = "in"]
          /\ G_BASS_in_use' = G_BASS_in_use \cup {u} /\ bassDevice' = bassDevice
      BY <2>9 DEF SetBit, Goes, Whole
    <3>2. opening = {u} /\ closing = {} /\ G_BASS_in_use = {}
      BY <3>1 DEF OneDecides, Deciding
    <3>3. opening' = {} /\ closing' = {}
      BY <3>1, <3>2 DEF BassTypeOK
    <3>4. Library!UseFirst(u)
      BY <3>1, <3>2, <3>3 DEF Library!UseFirst
    <3> QED
      BY <3>4 DEF Library!LibraryNext
  <2>10. CASE ClearBit(u)
    <3>1. at[u] = "in" /\ u \in G_BASS_in_use /\ bassDevice' = bassDevice
      BY <2>10 DEF ClearBit, Goes, Whole, PlayingIsRegistered
    <3>2. /\ G_BASS_in_use' = G_BASS_in_use \ {u}
          /\ at' = [at EXCEPT ![u] = IF G_BASS_in_use' = {} THEN "free" ELSE "out"]
      BY <2>10, <3>1 DEF ClearBit, Goes, Flip
    <3>3. opening = {} /\ closing = {}
      BY <3>1 DEF OneDecides, Deciding
    <3>4. opening' = {} /\ closing' = IF G_BASS_in_use' = {} THEN {u} ELSE {}
      BY <3>1, <3>2, <3>3 DEF BassTypeOK
    <3>5. Library!Leave(u)
      BY <3>1, <3>2, <3>3, <3>4 DEF Library!Leave
    <3> QED
      BY <3>5 DEF Library!LibraryNext
  <2>11. CASE FreeBass(u)
    <3>1. at[u] = "free" /\ bassDevice' = "none" /\ G_BASS_in_use' = G_BASS_in_use
      BY <2>11 DEF FreeBass, Goes
    <3>2. opening = {} /\ closing = {u} /\ G_BASS_in_use = {}
      BY <3>1 DEF OneDecides, Deciding
    <3>3. opening' = {} /\ closing' = {}
      BY <2>11, <3>2 DEF FreeBass, Goes, BassTypeOK
    <3>4. Library!Close(u)
      BY <3>1, <3>2, <3>3 DEF Library!Close
    <3> QED
      BY <3>4 DEF Library!LibraryNext
  <2> QED
    BY <1>2, <2>1, <2>2, <2>3, <2>4, <2>5, <2>6, <2>7, <2>8, <2>9, <2>10, <2>11
    DEF UserStep, Acquire, Release
<1> QED
  BY <1>1, <1>2 DEF BassNext, BtIndicator, bassVars

(* The threads' use of G_BASS_in_use implements AudioLibrary, as long as |=   *)
(* and ^= are single steps: initialising, joining, leaving and freeing        *)
(* happen in the one order in which the library can be used.                *)
THEOREM SharingImplementsLibrary == ASSUME ~Torn PROVE BassSpec => ImplementsLibrary
<1>1. BassInit0 => Library!LibraryInit
  BY LibraryInitMapped
<1>2. BassInv /\ BassInv' /\ [BassNext]_bassVars
        => [Library!LibraryNext]_(Library!libraryVars)
  BY LibraryNextMapped
<1> QED
  BY <1>1, <1>2, BassInvariant, PTL DEF BassSpec, ImplementsLibrary, Library!LibrarySpec
=============================================================================
