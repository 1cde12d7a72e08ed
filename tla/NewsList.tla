------------------------------ MODULE NewsList ------------------------------
(***************************************************************************)
(* The list of news (rss/newslist.c, rss/rss-parser.c) and the two threads  *)
(* that build it, walk it and free it: the RSS reader (rss/rss-reader-      *)
(* thread.c) for the display, and the speech thread (tts/tts-thread.c) when *)
(* it is told to read the news.  Both use the same three globals, and no    *)
(* lock.                                                                    *)
(*                                                                          *)
(* Touching an item that was freed is undefined behaviour: from there the   *)
(* two threads do nothing the model could tell.                             *)
(***************************************************************************)
EXTENDS Scrolling, Sequences

CONSTANTS
  ItemsOf,       \* how many items with a description each feed has
  NoFeed,        \* of a thread that has not chosen one
  NEWS_LIST_LEN

Feeds == DOMAIN ItemsOf

ASSUME NewsAssumption ==
  /\ Feeds # {} /\ ItemsOf \in [Feeds -> Nat] /\ NoFeed \notin Feeds
  /\ NEWS_LIST_LEN \in Nat \ {0}

VARIABLES
  G_display_mode_upper_row, G_rss_feed_index,
  G_rss_item_count,
  G_rss_news_list,   \* "NULL", "live", or "freed": it still points where the list was
  news,              \* the feed each item of the list was read from
  readerPc,
  curl_feed,         \* the feed that was fetched
  prev_rss_index, current_item,   \* these three are forgotten when the list is freed
  speechPc,
  TTS_feed,          \* TTS_msg[1]
  (* History, not in the program: *)
  undefined,         \* an item that was freed has been touched
  shared,            \* both threads have had the list at one time
  emptied            \* a feed gave no item when an older list had been freed

listVars    == <<G_rss_item_count, G_rss_news_list, news, undefined, shared, emptied>>
readerVars  == <<readerPc, curl_feed, prev_rss_index, current_item>>
speechVars  == <<speechPc, TTS_feed>>

DANGLING == NEWS_LIST_LEN + 1   \* an item that is no more
ReaderHasList == readerPc \in {"play", "item", "scroll", "next", "destroy"}
SpeechHasList == speechPc \in {"prepare", "speak", "cleanup", "destroy"}

NewsInit ==
  /\ ScrollingInit
  /\ G_display_mode_upper_row = "meta" /\ G_rss_feed_index \in Feeds
  /\ G_rss_item_count = 0 /\ G_rss_news_list = "NULL" /\ news = <<>>
  /\ readerPc = "wait" /\ curl_feed = NoFeed /\ prev_rss_index = NoFeed /\ current_item = 0
  /\ speechPc = "read" /\ TTS_feed = NoFeed
  /\ undefined = FALSE /\ shared = FALSE /\ emptied = FALSE

-----------------------------------------------------------------------------
(* parse_xml_rss, over the whole document; n items are in it.               *)
ParseXmlRss(feed, n) ==
  LET taken == IF G_rss_item_count + n > NEWS_LIST_LEN THEN NEWS_LIST_LEN - G_rss_item_count
               ELSE n
      items == [i \in 1 .. taken |-> feed]
  IN /\ G_rss_item_count' = G_rss_item_count + taken
     /\ news' = IF G_rss_item_count = 0 /\ taken > 0 THEN items ELSE news \o items
     /\ G_rss_news_list' = IF G_rss_item_count = 0 /\ taken > 0 THEN "live" ELSE G_rss_news_list
     /\ undefined' = (G_rss_item_count > 0 /\ taken > 0 /\ G_rss_news_list = "freed")
     /\ emptied' = (emptied \/ (taken = 0 /\ G_rss_news_list = "freed"))

(* The first item, as everybody finds it.                                    *)
FirstItem ==
  CASE G_rss_news_list = "NULL"  -> 0
    [] G_rss_news_list = "live"  -> 1
    [] G_rss_news_list = "freed" -> DANGLING

(* Wrong: the items are freed and still counted.                            *)
DestroyKeepingCount ==
  /\ IF G_rss_news_list = "freed" THEN undefined' = TRUE ELSE UNCHANGED undefined
  /\ G_rss_news_list' = IF G_rss_news_list = "live" THEN "freed" ELSE G_rss_news_list
  /\ news' = <<>>
  /\ UNCHANGED <<G_rss_item_count, shared, emptied>>

(* destroy_rss_news_list: the pointer stays as it is.                       *)
Destroy ==
  /\ IF G_rss_news_list = "freed" THEN undefined' = TRUE ELSE UNCHANGED undefined
  /\ G_rss_news_list' = IF G_rss_news_list = "live" THEN "freed" ELSE G_rss_news_list
  /\ news' = <<>>
  /\ G_rss_item_count' = 0
  /\ UNCHANGED <<shared, emptied>>

-----------------------------------------------------------------------------
(* The RSS reader.                                                          *)
NotScrolling == UNCHANGED <<scrollVars, upperRow>>
ReaderSteps(from, to) == readerPc = from /\ readerPc' = to /\ ~undefined

ReaderWaits ==
  /\ ReaderSteps("wait", "fetch")
  /\ G_display_mode_upper_row = "rss"
  /\ UNCHANGED <<curl_feed, prev_rss_index, current_item, listVars>> /\ NotScrolling

ReaderFetches ==
  /\ ReaderSteps("fetch", "parse")
  /\ curl_feed' = G_rss_feed_index
  /\ UNCHANGED <<prev_rss_index, current_item, listVars>> /\ NotScrolling

(* Nothing came, or nothing that can be parsed: three seconds later again.  *)
ReaderFails ==
  /\ ReaderSteps("fetch", "wait")
  /\ UNCHANGED <<curl_feed, prev_rss_index, current_item, listVars>> /\ NotScrolling

ReaderParses ==
  /\ ReaderSteps("parse", "play")
  /\ ParseXmlRss(curl_feed, ItemsOf[curl_feed])
  /\ shared' = (shared \/ SpeechHasList)
  /\ UNCHANGED <<curl_feed, prev_rss_index, current_item>> /\ NotScrolling

(* WEH001602_play_rss_items.                                                *)
ReaderBeginsToPlay ==
  /\ readerPc = "play" /\ ~undefined
  /\ IF G_display_mode_upper_row = "rss"
     THEN readerPc' = "item" /\ current_item' = FirstItem /\ prev_rss_index' = G_rss_feed_index
     ELSE readerPc' = "destroy" /\ UNCHANGED <<current_item, prev_rss_index>>
  /\ UNCHANGED <<curl_feed, listVars>> /\ NotScrolling

ReaderScrollsItem ==
  /\ ReaderSteps("item", "scroll")
  /\ current_item # 0 /\ G_display_mode_upper_row = "rss"
  /\ ScrollBegins("rss")
  /\ undefined' = (current_item = DANGLING)
  /\ UNCHANGED <<curl_feed, prev_rss_index, current_item, G_rss_item_count, G_rss_news_list,
                  news, shared, emptied, upperRow>>

ReaderStopsPlaying ==
  /\ ReaderSteps("item", "destroy")
  /\ current_item = 0 \/ G_display_mode_upper_row # "rss"
  /\ UNCHANGED <<curl_feed, prev_rss_index, current_item, listVars>> /\ NotScrolling

ReaderScrolled ==
  /\ readerPc = "scroll" /\ ~undefined
  /\ scrollPc["rss"] = "off"
  /\ readerPc' = IF G_rss_feed_index # prev_rss_index THEN "destroy" ELSE "next"
  /\ UNCHANGED <<curl_feed, prev_rss_index, current_item, listVars>> /\ NotScrolling

ReaderTakesNext ==
  /\ ReaderSteps("next", "item")
  /\ undefined' = (current_item = DANGLING)
  /\ current_item' = IF current_item < Len(news) THEN current_item + 1
                     ELSE 0
  /\ UNCHANGED <<curl_feed, prev_rss_index, G_rss_item_count, G_rss_news_list, news, shared,
                  emptied>>
  /\ NotScrolling

ReaderDestroys ==
  /\ ReaderSteps("destroy", "wait")
  /\ Destroy
  /\ curl_feed' = NoFeed /\ prev_rss_index' = NoFeed /\ current_item' = 0
  /\ NotScrolling

Reader ==
  \/ ReaderWaits \/ ReaderFetches \/ ReaderFails \/ ReaderParses \/ ReaderBeginsToPlay
  \/ ReaderScrollsItem \/ ReaderStopsPlaying \/ ReaderScrolled \/ ReaderTakesNext
  \/ ReaderDestroys

-----------------------------------------------------------------------------
(* The news of the speech thread.  What could not be fetched is parsed all  *)
(* the same, as a document without items.                                   *)
SpeechSteps(from, to) == speechPc = from /\ speechPc' = to /\ ~undefined /\ NotScrolling

SpeechParses ==
  /\ SpeechSteps("parse", "prepare")
  /\ \E n \in {0, ItemsOf[TTS_feed]} : ParseXmlRss(TTS_feed, n)
  /\ shared' = (shared \/ ReaderHasList)
  /\ UNCHANGED <<TTS_feed, readerVars>>

(* PL_prepare_RSS_TTS, PL_TTS_play_rss_items and PL_cleanup_RSS_TTS walk    *)
(* the list from its beginning.                                             *)
SpeechWalks ==
  /\ \/ SpeechSteps("prepare", "speak") \/ SpeechSteps("speak", "cleanup")
     \/ SpeechSteps("cleanup", "destroy")
  /\ undefined' = (FirstItem = DANGLING)
  /\ UNCHANGED <<TTS_feed, G_rss_item_count, G_rss_news_list, news, shared, emptied, readerVars>>

SpeechDestroys ==
  /\ SpeechSteps("destroy", "read")
  /\ Destroy
  /\ current_item' = IF readerPc \in {"item", "scroll", "next"} /\ current_item # 0 THEN DANGLING
                     ELSE current_item
  /\ TTS_feed' = NoFeed
  /\ UNCHANGED <<readerPc, curl_feed, prev_rss_index>>

Speech == SpeechParses \/ SpeechWalks \/ SpeechDestroys

-----------------------------------------------------------------------------
(* The news alone: somebody changes the mode of the row and the feed, with  *)
(* the kills that KEY_SNOOZE_LEFT and the tuning keys make, and asks for the *)
(* news to be read (KEY_SNOOZE_CENTER_LONG, while nothing is said).          *)
UserElsewhere ==
  UNCHANGED <<G_scroll_active, scroll_pos, scrollPc, upperRow, G_display_lock, listVars, readerVars>>

UserChangesMode ==
  /\ G_display_mode_upper_row' = IF G_display_mode_upper_row = "rss" THEN "meta" ELSE "rss"
  /\ Kill({G_display_mode_upper_row})
  /\ UNCHANGED <<G_rss_feed_index, speechVars>> /\ UserElsewhere

UserTunes ==
  /\ G_display_mode_upper_row = "rss" /\ Kill({"rss"})
  /\ G_rss_feed_index' \in Feeds \ {G_rss_feed_index}
  /\ UNCHANGED <<G_display_mode_upper_row, speechVars>> /\ UserElsewhere

KeyReadsNews ==
  /\ speechPc = "read" /\ speechPc' = "parse"
  /\ TTS_feed' = G_rss_feed_index
  /\ UNCHANGED <<G_kill_scroll, G_display_mode_upper_row, G_rss_feed_index>> /\ UserElsewhere

NewsScrolls == Scroll("rss") /\ UNCHANGED <<G_display_mode_upper_row, G_rss_feed_index, listVars,
                                            readerVars, speechVars>>
RowElsewhere == UNCHANGED <<G_display_lock, G_display_mode_upper_row, G_rss_feed_index>>
ReaderStep   == Reader /\ UNCHANGED speechVars /\ RowElsewhere
SpeechStep   == Speech /\ RowElsewhere

NewsNext == UserChangesMode \/ UserTunes \/ KeyReadsNews \/ NewsScrolls \/ ReaderStep \/ SpeechStep

newsVars == <<scrollVars, upperRow, G_display_lock, G_display_mode_upper_row, G_rss_feed_index,
              listVars, readerVars, speechVars>>
NewsSpec == NewsInit /\ [][NewsNext]_newsVars

(* Types, and how the places of the threads go with the list.               *)
NewsTypeOK ==
  /\ G_rss_item_count \in 0 .. NEWS_LIST_LEN
  /\ G_rss_news_list \in {"NULL", "live", "freed"}
  /\ news \in Seq(Feeds) /\ Len(news) <= G_rss_item_count
  /\ current_item \in 0 .. NEWS_LIST_LEN \cup {DANGLING}
  /\ {curl_feed, prev_rss_index, TTS_feed} \subseteq Feeds \cup {NoFeed}
  /\ undefined => shared \/ emptied
  /\ scrollPc["rss"] # "off" => readerPc = "scroll"
  /\ readerPc \in {"parse", "play", "item", "scroll", "next"} => curl_feed \in Feeds

(* While only one thread has the list, and no feed comes without news after  *)
(* one that had some, nobody touches what was freed, what is counted is what *)
(* there is, of one feed, and nothing is lost that is not freed.             *)
NewsListSound ==
  ~shared /\ ~emptied =>
    /\ ~undefined
    /\ G_rss_item_count = Len(news) /\ (G_rss_news_list = "live" <=> news # <<>>)
    /\ \A i, j \in DOMAIN news : news[i] = news[j]
    /\ ReaderHasList \/ SpeechHasList \/ news = <<>>
=============================================================================
