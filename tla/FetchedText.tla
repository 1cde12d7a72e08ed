----------------------------- MODULE FetchedText -----------------------------
(***************************************************************************)
(* How a feed is fetched and its items are made (rss/curlget.c,              *)
(* rss/newslist.c): the document arrives in parts, the tags are taken out of *)
(* a description, and the item is written with the name of the feed in front, *)
(* which is looked up in G_rss_feed_index each time it is needed.           *)
(***************************************************************************)
EXTENDS Naturals, Sequences, FiniteSets

CONSTANTS
  Parts,          \* in how many a document may arrive
  Characters,     \* "<", ">", quotes, the end of a line, and others
  TextLimit,      \* bound: how long a description is
  LengthModulus,  \* 2^16
  TitleLength,
  NameLength      \* of each feed

ASSUME FetchedTextAssumption ==
  /\ Parts \subseteq Nat /\ TextLimit \in Nat /\ LengthModulus \in Nat \ {0}
  /\ TitleLength \in Nat /\ NameLength \in [DOMAIN NameLength -> Nat] /\ DOMAIN NameLength # {}

VARIABLES
  rss_feed_index,             \* G_rss_feed_index
  textPc,
  fetched, parts, received,   \* the feed, in how many parts its document comes, and has come
  chunk_size,                       \* chunk->size, in parts
  description, stripped,      \* forgotten when the item has its place, but for ...
  strippedLength,
  forDisplay,                 \* formatting_type
  room, written,              \* of title and description, in characters with the zero
  label,                      \* whose name stands before the description
  (* History, not in the program: *)
  tuned                       \* the feed has changed since its document was asked for

textVars == <<rss_feed_index, textPc, fetched, parts, received, chunk_size, description, stripped,
              strippedLength, forDisplay, room, written, label, tuned>>

NameFeeds == DOMAIN NameLength
NothingWritten == [title |-> 0, description |-> 0]
Strings == UNION {[1 .. n -> Characters] : n \in 0 .. TextLimit}

TextInit ==
  /\ rss_feed_index \in NameFeeds /\ textPc = "ask" /\ fetched = rss_feed_index
  /\ parts = 0 /\ received = 0 /\ chunk_size = 0
  /\ description = <<>> /\ stripped = <<>> /\ strippedLength = 0 /\ forDisplay = FALSE
  /\ room = NothingWritten /\ written = NothingWritten /\ label = rss_feed_index
  /\ tuned = FALSE

TextGoes(from, to) == textPc = from /\ textPc' = to

-----------------------------------------------------------------------------
(* curl_get_url_into_memory, for the display or for the speech.              *)
FetchBegins ==
  /\ TextGoes("ask", "fetch")
  /\ fetched' = rss_feed_index /\ tuned' = FALSE
  /\ parts' \in Parts /\ received' = 0 /\ chunk_size' = 0
  /\ forDisplay' \in BOOLEAN
  /\ UNCHANGED <<rss_feed_index, description, stripped, strippedLength,
                  room, written, label>>

PartArrives ==
  /\ TextGoes("fetch", "fetch") /\ received < parts
  /\ received' = received + 1 /\ chunk_size' = chunk_size + 1
  /\ UNCHANGED <<rss_feed_index, fetched, parts, description, stripped,
                  strippedLength, forDisplay, room, written, label, tuned>>

(* What comes after a fetch: a document of no size is not read.              *)
AfterFetch == textPc' = IF chunk_size' = 0 THEN "ask" ELSE "strip"

FetchEnds ==
  /\ textPc = "fetch" /\ received = parts /\ UNCHANGED chunk_size /\ AfterFetch
  /\ UNCHANGED <<rss_feed_index, fetched, parts, received, description, stripped,
                  strippedLength, forDisplay, room, written, label, tuned>>

(* Wrong: what has come before an error is kept.                            *)
SizeIsKept == chunk_size
SizeAfterError == 0

(* The transfer fails, or there is no memory for a part.                     *)
FetchFails ==
  /\ textPc = "fetch" /\ received < parts /\ chunk_size' = SizeAfterError /\ AfterFetch
  /\ UNCHANGED <<rss_feed_index, fetched, parts, received, description, stripped,
                  strippedLength, forDisplay, room, written, label, tuned>>

-----------------------------------------------------------------------------
(* remove_tags.  The length is kept in 16 bits.                             *)
Quotes == {"'", "\""}
Printed(c) == IF c = "newline" THEN " " ELSE c
WithinLength(text) == SubSeq(text, 1, Len(text) % LengthModulus)

(* Wrong: a tag ends before its last character.                             *)
EndsAtBracket(inside, c) == (inside \/ c = "<") /\ c # ">"
InTag(inside, c) == inside \/ c = "<"

Taken(state, c) ==
  LET inside == InTag(state.inside, c)
  IN [inside |-> inside /\ c # ">",
      out    |-> IF inside \/ c \in Quotes THEN state.out ELSE Append(state.out, Printed(c))]

(* After each of the characters.                                            *)
Removing(text) ==
  LET after[i \in 0 .. Len(text)] ==
        IF i = 0 THEN [inside |-> FALSE, out |-> <<>>] ELSE Taken(after[i - 1], text[i])
  IN after

RemoveTags(text) ==
  LET within == WithinLength(text) IN Removing(within)[Len(within)].out

IsStripped ==
  /\ TextGoes("strip", "allocate")
  /\ description' \in Strings /\ stripped' = RemoveTags(description')
  /\ UNCHANGED <<rss_feed_index, fetched, parts, received, chunk_size, strippedLength, forDisplay,
                  room, written, label, tuned>>

-----------------------------------------------------------------------------
(* new_rss_item: the room is for the name that is looked up here ...         *)
(* Wrong: there is no room for the formatting.                              *)
NoFormatting == 1
Formatting == 20

ItemIsAllocated ==
  /\ TextGoes("allocate", "title")
  /\ room' = [title       |-> TitleLength + Formatting + NameLength[rss_feed_index],
              description |-> Len(stripped) + Formatting + NameLength[rss_feed_index]]
  /\ written' = NothingWritten
  /\ strippedLength' = Len(stripped) /\ description' = <<>> /\ stripped' = <<>>
  /\ UNCHANGED <<rss_feed_index, fetched, parts, received, chunk_size, forDisplay, label, tuned>>

(* ... and what is written has ten characters and a zero around it and the    *)
(* name that is looked up now.                                              *)
LengthOf(length) == IF forDisplay THEN length + 11 + NameLength[rss_feed_index] ELSE length + 1

TitleIsWritten ==
  /\ TextGoes("title", "description")
  /\ written' = [written EXCEPT !.title = LengthOf(TitleLength)]
  /\ UNCHANGED <<rss_feed_index, fetched, parts, received, chunk_size, description, stripped,
                  strippedLength, forDisplay, room, label, tuned>>

DescriptionIsWritten ==
  /\ TextGoes("description", "done")
  /\ written' = [written EXCEPT !.description = LengthOf(strippedLength)]
  /\ label' = rss_feed_index
  /\ UNCHANGED <<rss_feed_index, fetched, parts, received, chunk_size, description, stripped,
                  strippedLength, forDisplay, room, tuned>>

(* The next item, or the next document.                                     *)
ItemIsDone ==
  /\ textPc = "done" /\ textPc' \in {"strip", "ask"}
  /\ strippedLength' = 0 /\ room' = NothingWritten /\ written' = NothingWritten
  /\ UNCHANGED <<rss_feed_index, fetched, parts, received, chunk_size, description, stripped,
                  forDisplay, label, tuned>>

UserChangesFeed ==
  /\ rss_feed_index' \in NameFeeds \ {rss_feed_index} /\ tuned' = TRUE
  /\ UNCHANGED <<textPc, fetched, parts, received, chunk_size, description, stripped, strippedLength,
                  forDisplay, room, written, label>>

TextNext ==
  \/ FetchBegins \/ PartArrives \/ FetchEnds \/ FetchFails \/ IsStripped
  \/ ItemIsAllocated \/ TitleIsWritten \/ DescriptionIsWritten \/ ItemIsDone \/ UserChangesFeed

TextSpec == TextInit /\ [][TextNext]_textVars

-----------------------------------------------------------------------------
(* Items are made of whole documents.                                       *)
DocumentIsWhole ==
  textPc \in {"strip", "allocate", "title", "description", "done"} => received = parts

(* What is in no tag and is no quote: no "<" before it is without its ">".    *)
Shown(text) ==
  {i \in DOMAIN text :
     /\ text[i] \notin Quotes
     /\ \A k \in 1 .. i : text[k] = "<" => \E l \in k .. i - 1 : text[l] = ">"}

TagsAreRemoved ==
  textPc = "allocate" =>
    LET text  == WithinLength(description)
        shown == Shown(text)
    IN /\ Len(stripped) = Cardinality(shown)
       /\ \A i \in shown : stripped[Cardinality({k \in shown : k <= i})] = Printed(text[i])

(* The text of an item is that of its whole document without the tags, it    *)
(* fits into its place, and it bears the name of its feed, unless the feed    *)
(* has been changed meanwhile: the name may then be longer, or another's.    *)
ItemSound ==
  /\ DocumentIsWhole /\ TagsAreRemoved
  /\ ~tuned => written.title <= room.title /\ written.description <= room.description
  /\ ~tuned /\ textPc = "done" => label = fetched
=============================================================================
