---------------------------- MODULE PlayerTitles ----------------------------
(***************************************************************************)
(* What is played over bluetooth (bluetooth/btplayer-proxy.c and the thread *)
(* of bluetooth/bluetooth-threads.c that calls it): every four seconds the  *)
(* player of bluetoothctl is asked, and a second later whatever it has said  *)
(* is taken apart, line by line.  The player display shows what was found.   *)
(***************************************************************************)
EXTENDS Naturals, Sequences

CONSTANTS
  Songs,
  NoPlayer,      \* instead of a song: nothing is connected that plays
  LinesOf,       \* which of the three lines are told of each song
  TitlesBehind   \* bound: how much is said between two looks

Fields == {"Title", "Album", "Artist"}

ASSUME PlayerTitlesAssumption ==
  /\ NoPlayer \notin Songs /\ LinesOf \in [Songs -> SUBSET Fields] /\ TitlesBehind \in Nat \ {0}

VARIABLES
  titlesPc,      \* "connect", "asleep", "ask" or "look"
  questions,     \* on their way to the player
  said,          \* on its way back: lines, and the song they are of
  song,          \* that the source plays
  G_bt_found     \* G_bt_found_title, _album and _artist

titleVars == <<titlesPc, questions, said, song, G_bt_found>>

Empty == "empty"
Mixed == "mixed"     \* the end of an older line is left behind a shorter one
Prompt == "bluez"  \* a line of the prompt in which a field is named

TitlesInit ==
  /\ titlesPc = "connect" /\ questions = 0 /\ said = <<>>
  /\ song \in Songs \cup {NoPlayer}
  /\ G_bt_found = [f \in Fields |-> Empty]

-----------------------------------------------------------------------------
Connected == titlesPc \in {"ask", "look"}

(* The player: it answers in order, late at times, and tells of changes.     *)
PlayerAnswers ==
  /\ questions > 0 /\ questions' = questions - 1
  /\ said' = Append(said, [of |-> song, lines |-> IF song = NoPlayer THEN {} ELSE LinesOf[song]])
  /\ UNCHANGED <<titlesPc, song, G_bt_found>>

SourcePlays ==
  /\ Len(said) < TitlesBehind
  /\ \E s \in (Songs \cup {NoPlayer}) \ {song} :
       /\ song' = s
       /\ said' = IF Connected /\ s # NoPlayer
                  THEN Append(said, [of |-> s, lines |-> LinesOf[s] \ {"Album"}]) ELSE said
  /\ UNCHANGED <<titlesPc, questions, G_bt_found>>

PromptIsShown ==
  /\ Connected /\ Len(said) < TitlesBehind
  /\ said' = Append(said, [of |-> Prompt, lines |-> {"Title"}])
  /\ UNCHANGED <<titlesPc, questions, song, G_bt_found>>

-----------------------------------------------------------------------------
(* PL_bluetoothplayer_proxy_thread: without a connection it sleeps for ever.  *)
TitlesConnect ==
  /\ titlesPc = "connect" /\ titlesPc' \in {"ask", "asleep"}
  /\ UNCHANGED <<questions, said, song, G_bt_found>>

(* bt_playerproxy_get_info: the question ...                                 *)
AsksForTitles ==
  /\ titlesPc = "ask" /\ titlesPc' = "look"
  /\ questions < TitlesBehind /\ questions' = questions + 1
  /\ UNCHANGED <<said, song, G_bt_found>>

(* Which of what was said names the field.                                   *)
Naming(f) == {i \in DOMAIN said : f \in said[i].lines}

(* What the last of the lines gives, over what an earlier one has left, but   *)
(* no garbage; without a line the field keeps what it has.                  *)
LastLine(f) == CHOOSE i \in Naming(f) : \A j \in Naming(f) : j <= i
Clean(f) == \A i \in Naming(f) : said[i].of = said[LastLine(f)].of

(* Wrong: a field that has something keeps it.                              *)
FoundOnce(f) ==
  IF Naming(f) = {} \/ G_bt_found[f] # Empty THEN {G_bt_found[f]} ELSE {said[LastLine(f)].of}

FoundIn(f) ==
  IF Naming(f) = {} THEN {G_bt_found[f]}
  ELSE (IF said[LastLine(f)].of = Prompt THEN {G_bt_found[f]} ELSE {said[LastLine(f)].of})
         \cup (IF Clean(f) THEN {} ELSE {G_bt_found[f], Mixed})

(* ... and the answer, which is waited for.  A player that is not there       *)
(* clears all, whatever else was said.                                      *)
LooksAtTitles ==
  /\ titlesPc = "look" /\ said # <<>>
  /\ titlesPc' = "ask" /\ said' = <<>>
  /\ IF \E i \in DOMAIN said : said[i].of = NoPlayer
     THEN G_bt_found' = [f \in Fields |-> Empty]
     ELSE \E title \in FoundIn("Title"), album \in FoundIn("Album"), artist \in FoundIn("Artist") :
            G_bt_found' = [Title |-> title, Album |-> album, Artist |-> artist]
  /\ UNCHANGED <<questions, song>>

TitlesThread == TitlesConnect \/ AsksForTitles \/ LooksAtTitles

TitlesNext == TitlesThread \/ PlayerAnswers \/ SourcePlays \/ PromptIsShown

TitlesSpec ==
  TitlesInit /\ [][TitlesNext]_titleVars /\ WF_titleVars(TitlesThread) /\ WF_titleVars(PlayerAnswers)

-----------------------------------------------------------------------------
Noisy == \E i \in DOMAIN said : said[i].of = Prompt

(* A song that goes on is shown with all that is told of it, though answers   *)
(* are late and of two songs at once, unless the prompt keeps coming between; *)
(* and when nothing plays any more, nothing is shown.                       *)
LastingSongIsShown ==
  /\ \A s \in Songs : \A f \in LinesOf[s] :
       <>[](song = s /\ ~Noisy /\ titlesPc # "asleep") => <>[](G_bt_found[f] = s)
  /\ <>[](song = NoPlayer /\ ~Noisy /\ titlesPc # "asleep")
       => <>[](\A f \in Fields : G_bt_found[f] = Empty)
=============================================================================
