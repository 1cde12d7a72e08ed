--------------------------- MODULE Parts_proofs -----------------------------
(***************************************************************************)
(* What is proved of parts that have little to do with the rest. The spoken *)
(* time: for all hours of the day, and however many minutes begin while it  *)
(* is told. The list of news: for every set of feeds, any number of items   *)
(* in each, any limit of the list and any length of the messages. The       *)
(* amplifier: for any set of threads. The volume: for all volumes. The web  *)
(* server: for all files and users, and requests of any number of browsers. *)
(* The command socket: for any clients and requests. The Bluetooth          *)
(* dialogue: for any answers of bluetoothctl, no more than two of them      *)
(* behind.  The keypad: for any keys, thresholds and delays.                *)
(***************************************************************************)
EXTENDS TimeToSpeech, NewsList, Amplifier, StreamVolume, WebServer, CommandSocket, Bluetooth,
        KeyboardScan, SequenceTheorems, Induction_proofs

(* The spoken time.                                                         *)

DayTimes == 0 .. 1439

HourOf(t) == t \div 60
HourBegan == \E t \in shown : t % 60 = 0 /\ (t + 1439) % 1440 \in shown

(* Unless an hour has begun meanwhile, all times that were shown, the one in *)
(* the buffer among them, are of the hour that was read.                    *)
TellInv ==
  /\ clock \in DayTimes /\ tm \in DayTimes
  /\ tellPc \in {"idle", "hour", "minutes", "said"}
  /\ tellPc \in {"hour", "minutes"} =>
       /\ shown \subseteq DayTimes /\ clock \in shown /\ tm \in shown
       /\ HourBegan \/ \A t \in shown : HourOf(t) = HourOf(clock)
  /\ tellPc = "minutes" => HourBegan \/ hour = HourOf(tm)
  /\ SpokenTimeIsTrue

-----------------------------------------------------------------------------
(* The words.                                                               *)

LEMMA PastTheHour ==
  ASSUME NEW h24 \in 0 .. 23, NEW m \in 0 .. 59, NEW h, NEW p,
         h = IF h24 > 12 THEN h24 - 12 ELSE h24,
         p = [say |-> "past", minutes |-> m, of |-> h]
  PROVE  60 * h24 + m \in Understood(p)
<1>1. p.say = "past" /\ p.of = h /\ p.minutes = m
  OBVIOUS
<1>2. CASE h24 > 12
  <2>1. h # 0 /\ 60 * h + m + 720 = 60 * h24 + m
    BY <1>2
  <2>2. (60 * h + m + 720) % 1440 = 60 * h24 + m
    BY <2>1
  <2> QED
    BY <1>1, <2>1, <2>2 DEF Understood
<1>3. CASE h24 <= 12
  <2>1. h = h24 /\ (60 * h + m) % 1440 = 60 * h24 + m
    BY <1>3
  <2> QED
    BY <1>1, <2>1 DEF Understood
<1> QED
  BY <1>2, <1>3

LEMMA ToTheHour ==
  ASSUME NEW h24 \in 0 .. 22, NEW m \in 31 .. 59, NEW h, NEW p,
         h = IF h24 > 12 THEN h24 - 12 ELSE h24,
         p = [say |-> "to", minutes |-> 60 - m, of |-> h + 1]
  PROVE  60 * h24 + m \in Understood(p)
<1>1. p.say = "to" /\ p.of = h + 1 /\ p.minutes = 60 - m /\ p.of # 0
  OBVIOUS
<1>2. CASE h24 > 12
  <2>1. 60 * (h + 1) - (60 - m) + 720 = 60 * h24 + m
    BY <1>2
  <2>2. (60 * (h + 1) - (60 - m) + 720) % 1440 = 60 * h24 + m
    BY <2>1
  <2> QED
    BY <1>1, <2>2 DEF Understood
<1>3. CASE h24 <= 12
  <2>1. 60 * (h + 1) - (60 - m) = 60 * h24 + m
    BY <1>3
  <2>2. (60 * (h + 1) - (60 - m)) % 1440 = 60 * h24 + m
    BY <2>1
  <2> QED
    BY <1>1, <2>2 DEF Understood
<1> QED
  BY <1>2, <1>3

LEMMA QuarterToMidnight ==
  60 * 23 + 45 \in Understood([say |-> "to", minutes |-> 15, of |-> 0])
<1> DEFINE p == [say |-> "to", minutes |-> 15, of |-> 0]
<1>1. p.say = "to" /\ p.minutes = 15 /\ p.of = 0
  OBVIOUS
<1> HIDE DEF p
<1>2. \A x \in -1440 .. (-1) : x % 1440 = x + 1440
  OBVIOUS
<1>3. 60 * p.of - p.minutes = 0 - 15 /\ 0 - 15 \in -1440 .. (-1) /\ (0 - 15) + 1440 = 60 * 23 + 45
  BY <1>1
<1>4. (60 * p.of - p.minutes) % 1440 = 60 * 23 + 45
  BY <1>2, <1>3
<1>5. 60 * 23 + 45 \in Understood(p)
  BY <1>1, <1>4 DEF Understood
<1> QED
  BY <1>5 DEF p

(* Every time that is not one of the misspoken is told right.                *)
LEMMA WordsAreRight ==
  ASSUME NEW h24 \in 0 .. 23, NEW m \in 0 .. 59, NEW p \in Phrases(h24, m)
  PROVE  60 * h24 + m \in Understood(p) \cup Misspoken
<1> DEFINE pm == h24 > 12
           h  == IF pm THEN h24 - 12 ELSE h24
<1>1. CASE m \in {15, 30} \/ m < 30
  <2>1. p = [say |-> "past", minutes |-> m, of |-> h]
    BY <1>1 DEF Phrases, Afternoon
  <2> QED
    BY <2>1, PastTheHour
<1>2. CASE m = 45
  <2>1. CASE h24 = 23
    <3>1. p = [say |-> "to", minutes |-> 15, of |-> 0]
      BY <1>2, <2>1 DEF Phrases, Afternoon
    <3> QED
      BY <1>2, <2>1, <3>1, QuarterToMidnight
  <2>2. CASE h24 # 23
    <3>1. p = [say |-> "to", minutes |-> 60 - m, of |-> h + 1]
      BY <1>2, <2>2 DEF Phrases, Afternoon
    <3>2. h24 \in 0 .. 22 /\ m \in 31 .. 59
      BY <1>2, <2>2
    <3> QED
      BY <3>1, <3>2, ToTheHour
  <2> QED
    BY <2>1, <2>2
<1>3. CASE m > 30 /\ m # 45
  <2>1. CASE h24 \in {0, 23}
    <3>1. (60 * h24 + m) % 60 = m
      BY <2>1
    <3>2. 60 * h24 + m \in 0 .. 59 \cup 1380 .. 1439
      BY <2>1
    <3> QED
      BY <1>3, <3>1, <3>2 DEF Misspoken
  <2>2. CASE h24 \notin {0, 23}
    <3>1. p = [say |-> "to", minutes |-> 60 - m, of |-> h + 1]
      BY <1>3, <2>2 DEF Phrases, Afternoon
    <3>2. h24 \in 0 .. 22 /\ m \in 31 .. 59
      BY <1>3, <2>2
    <3> QED
      BY <3>1, <3>2, ToTheHour
  <2> QED
    BY <2>1, <2>2
<1> QED
  BY <1>1, <1>2, <1>3

-----------------------------------------------------------------------------
(* The clock goes on.                                                       *)
LEMMA MinuteStep ==
  ASSUME TellInv, MinutePasses
  PROVE  TellInv'
<1>1. /\ clock' = (clock + 1) % 1440 /\ clock' \in DayTimes
      /\ shown' = shown \cup {clock'} /\ shown' \subseteq DayTimes
      /\ tellPc' = tellPc /\ tellPc \in {"hour", "minutes"}
      /\ UNCHANGED <<tm, hour, phrase>>
  BY DEF MinutePasses, TellInv, DayTimes
<1>5. clock \in 0 .. 1439 /\ clock' = IF clock = 1439 THEN 0 ELSE clock + 1
  <2>1. \A x \in 0 .. 1438 : (x + 1) % 1440 = x + 1
    OBVIOUS
  <2>2. (1439 + 1) % 1440 = 0
    OBVIOUS
  <2>3. clock \in 0 .. 1439
    BY DEF TellInv, DayTimes
  <2>4. CASE clock = 1439
    BY <1>1, <2>2, <2>3, <2>4
  <2>5. CASE clock # 1439
    <3>1. clock \in 0 .. 1438
      BY <2>3, <2>5
    <3>2. (clock + 1) % 1440 = clock + 1
      BY <2>1, <3>1
    <3> QED
      BY <1>1, <2>3, <2>5, <3>2
  <2> QED
    BY <2>4, <2>5
<1>2. HourBegan => HourBegan'
  BY <1>1 DEF HourBegan
<1>3. CASE clock' % 60 = 0
  <2>1. (clock' + 1439) % 1440 = clock
    <3>1. CASE clock = 1439
      BY <1>5, <3>1
    <3>2. CASE clock # 1439
      <4>1. clock' + 1439 = clock + 1440 /\ (clock + 1440) % 1440 = clock
        BY <1>5, <3>2
      <4> QED
        BY <4>1
    <3> QED
      BY <3>1, <3>2
  <2>2. HourBegan'
    BY <1>1, <1>3, <2>1 DEF HourBegan, TellInv
  <2>3. SpokenTimeIsTrue'
    BY <1>1 DEF SpokenTimeIsTrue
  <2> QED
    BY <1>1, <2>2, <2>3 DEF TellInv
<1>4. CASE clock' % 60 # 0
  <2>1. HourOf(clock') = HourOf(clock)
    BY <1>5, <1>4 DEF HourOf
  <2>2. SpokenTimeIsTrue'
    BY <1>1 DEF SpokenTimeIsTrue
  <2>3. HourBegan' \/ \A t \in shown' : HourOf(t) = HourOf(clock')
    BY <1>1, <1>2, <2>1 DEF TellInv
  <2> QED
    BY <1>1, <1>2, <2>2, <2>3 DEF TellInv
<1> QED
  BY <1>3, <1>4

LEMMA BufferStep ==
  ASSUME TellInv, ClockThreadLooks
  PROVE  TellInv'
<1>1. HourBegan' <=> HourBegan
  BY DEF ClockThreadLooks, HourBegan
<1> QED
  BY <1>1 DEF ClockThreadLooks, TellInv, SpokenTimeIsTrue

LEMMA TellStep ==
  ASSUME TellInv, Tell
  PROVE  TellInv'
<1>1. CASE TellCallsLocaltime
  BY <1>1 DEF TellCallsLocaltime, TellInv, SpokenTimeIsTrue
<1>2. CASE TellReadsHour
  <2>1. HourBegan' <=> HourBegan
    BY <1>2 DEF TellReadsHour, HourBegan
  <2> QED
    BY <1>2, <2>1 DEF TellReadsHour, TellInv, SpokenTimeIsTrue, HourOf
<1>3. CASE TellReadsMinutes
  <2>1. /\ phrase' \in Phrases(hour, tm % 60) /\ tellPc' = "said"
        /\ UNCHANGED <<clock, tm, shown>>
        /\ tm \in shown
        /\ HourBegan \/ hour = HourOf(tm)
    BY <1>3 DEF TellReadsMinutes, TellInv
  <2>2. CASE HourBegan
    <3>1. SpokenTimeIsTrue'
      BY <2>1, <2>2 DEF SpokenTimeIsTrue, HourBegan
    <3> QED
      BY <2>1, <3>1 DEF TellInv
  <2>3. CASE hour = HourOf(tm)
    <3>1. hour \in 0 .. 23 /\ tm % 60 \in 0 .. 59 /\ 60 * hour + (tm % 60) = tm
      BY <2>3 DEF TellInv, DayTimes, HourOf
    <3>2. tm \in Understood(phrase') \cup Misspoken
      BY <2>1, <3>1, WordsAreRight
    <3>3. SpokenTimeIsTrue'
      BY <2>1, <3>2 DEF SpokenTimeIsTrue
    <3> QED
      BY <2>1, <3>3 DEF TellInv
  <2> QED
    BY <2>1, <2>2, <2>3
<1>4. CASE TellReturns
  BY <1>4 DEF TellReturns, TellInv, SpokenTimeIsTrue
<1> QED
  BY <1>1, <1>2, <1>3, <1>4 DEF Tell

(* What is said is a time that the clock has shown meanwhile, for every time  *)
(* of the day but those that time-to-speech.c misspeaks.                    *)
THEOREM TellsTheTime == TellSpec => []SpokenTimeIsTrue
<1>1. TellInit => TellInv
  <2> SUFFICES ASSUME TellInit PROVE TellInv
    OBVIOUS
  <2>1. PICK h \in Hours, m \in 0 .. 59 : clock = 60 * h + m
    BY DEF TellInit
  <2>2. clock \in DayTimes
    BY <2>1, SpeechOfTimeAssumption DEF DayTimes
  <2> QED
    BY <2>2 DEF TellInit, TellInv, SpokenTimeIsTrue
<1>2. TellInv /\ [TellNext]_tellVars => TellInv'
  <2>1. CASE UNCHANGED tellVars
    BY <2>1 DEF tellVars, TellInv, HourBegan, SpokenTimeIsTrue
  <2> QED
    BY <2>1, MinuteStep, BufferStep, TellStep DEF TellNext
<1>3. TellInv => SpokenTimeIsTrue
  BY DEF TellInv
<1> QED
  BY <1>1, <1>2, <1>3, PTL DEF TellSpec

-----------------------------------------------------------------------------
(* The list of news.                                                        *)

(* What the two threads and the scrolls make of the list, whoever has it.    *)
ListInv ==
  /\ G_rss_item_count \in 0 .. NEWS_LIST_LEN
  /\ G_rss_news_list \in {"NULL", "live", "freed"}
  /\ news \in Seq(Feeds) /\ Len(news) <= G_rss_item_count
  /\ G_rss_item_count > 0 <=> G_rss_news_list = "live"
  /\ current_item \in 0 .. NEWS_LIST_LEN \cup {DANGLING}

PlacesInv ==
  /\ G_rss_feed_index \in Feeds
  /\ {curl_feed, prev_rss_index, TTS_feed} \subseteq Feeds \cup {NoFeed}
  /\ scrollPc \in [Scrolls -> {"off", "draw", "blank"}]
  /\ readerPc \in {"wait", "fetch", "parse", "play", "item", "scroll", "next", "destroy"}
  /\ scrollPc["rss"] # "off" => readerPc = "scroll"
  /\ readerPc \in {"parse", "play", "item", "scroll", "next"} => curl_feed \in Feeds
  /\ speechPc # "read" => TTS_feed \in Feeds

(* While the list was never shared: who has it has it alone, it is one feed's *)
(* and what it holds is there.                                              *)
AloneInv ==
  /\ undefined => shared \/ emptied
  /\ current_item = DANGLING => shared \/ emptied
  /\ ~shared => ~(ReaderHasList /\ SpeechHasList)
  /\ ~shared /\ ~emptied =>
       /\ G_rss_item_count = Len(news)
       /\ \A i, j \in DOMAIN news : news[i] = news[j]
       /\ ReaderHasList \/ SpeechHasList
            => G_rss_news_list # "freed"
       /\ ~ReaderHasList /\ ~SpeechHasList => news = <<>>

ListOf(feed, n) == [i \in 1 .. n |-> feed]

-----------------------------------------------------------------------------
(* The operations on the list.                                              *)

LEMMA Copies ==
  ASSUME NEW feed \in Feeds, NEW n \in Nat
  PROVE  /\ ListOf(feed, n) \in Seq(Feeds)
         /\ Len(ListOf(feed, n)) = n
         /\ DOMAIN ListOf(feed, n) = 1 .. n
         /\ \A i \in 1 .. n : ListOf(feed, n)[i] = feed
         /\ \A s \in Seq(Feeds) : /\ s \o ListOf(feed, n) \in Seq(Feeds)
                                  /\ Len(s \o ListOf(feed, n)) = Len(s) + n
BY DEF ListOf

LEMMA ParseKeepsList ==
  ASSUME ListInv, NEW feed \in Feeds, NEW n \in Nat, ParseXmlRss(feed, n), UNCHANGED current_item
  PROVE  /\ ListInv'
         /\ undefined' => emptied' \/ (G_rss_news_list = "freed" /\ G_rss_item_count > 0)
         /\ G_rss_item_count = 0 /\ news = <<>> =>
              /\ G_rss_item_count' = Len(news')
              /\ \A i, j \in DOMAIN news' : news'[i] = news'[j]
              /\ G_rss_news_list' = "freed" => emptied'
         /\ emptied => emptied'
<1> DEFINE taken == IF G_rss_item_count + n > NEWS_LIST_LEN THEN NEWS_LIST_LEN - G_rss_item_count
                    ELSE n
<1>1. taken \in Nat /\ G_rss_item_count + taken <= NEWS_LIST_LEN
  BY NewsAssumption DEF ListInv
<1>2. /\ G_rss_item_count' = G_rss_item_count + taken
      /\ news' = IF G_rss_item_count = 0 /\ taken > 0 THEN ListOf(feed, taken)
                 ELSE news \o ListOf(feed, taken)
      /\ G_rss_news_list' = IF G_rss_item_count = 0 /\ taken > 0 THEN "live" ELSE G_rss_news_list
      /\ undefined' = (G_rss_item_count > 0 /\ taken > 0 /\ G_rss_news_list = "freed")
      /\ emptied' = (emptied \/ (taken = 0 /\ G_rss_news_list = "freed"))
  BY DEF ParseXmlRss, ListOf
<1> HIDE DEF taken
<1>3. /\ ListOf(feed, taken) \in Seq(Feeds) /\ Len(ListOf(feed, taken)) = taken
      /\ DOMAIN ListOf(feed, taken) = 1 .. taken
      /\ \A i \in 1 .. taken : ListOf(feed, taken)[i] = feed
      /\ news \o ListOf(feed, taken) \in Seq(Feeds)
      /\ Len(news \o ListOf(feed, taken)) = Len(news) + taken
  BY <1>1, Copies DEF ListInv
<1>4. news' \in Seq(Feeds) /\ Len(news') <= G_rss_item_count'
  BY <1>1, <1>2, <1>3 DEF ListInv
<1>5. ListInv'
  BY <1>1, <1>2, <1>4, NewsAssumption DEF ListInv
<1>6. ASSUME G_rss_item_count = 0, news = <<>>
      PROVE  /\ G_rss_item_count' = Len(news')
             /\ \A i, j \in DOMAIN news' : news'[i] = news'[j]
  <2>1. CASE taken > 0
    BY <1>1, <1>2, <1>3, <1>6, <2>1
  <2>2. CASE taken = 0
    <3>1. Len(news') = 0
      BY <1>2, <1>3, <1>6, <2>2
    <3> QED
      BY <1>2, <1>4, <1>6, <2>2, <3>1
  <2> QED
    BY <1>1, <2>1, <2>2
<1>7. undefined' => G_rss_news_list = "freed" /\ G_rss_item_count > 0
  BY <1>2
<1>8. ASSUME G_rss_item_count = 0
      PROVE  G_rss_news_list' = "freed" => emptied'
  <2>1. taken > 0 \/ taken = 0
    BY <1>1
  <2> QED
    BY <1>2, <1>8, <2>1
<1>9. emptied => emptied'
  BY <1>2
<1> QED
  BY <1>5, <1>6, <1>7, <1>8, <1>9

LEMMA DestroyKeepsList ==
  ASSUME ListInv, Destroy, current_item' \in 0 .. NEWS_LIST_LEN \cup {DANGLING}
  PROVE  /\ ListInv' /\ G_rss_item_count' = 0 /\ news' = <<>>
         /\ undefined' => undefined \/ G_rss_news_list = "freed"
<1>1. news' \in Seq(Feeds) /\ Len(news') = 0 /\ G_rss_item_count' = 0
  BY DEF Destroy
<1> QED
  BY <1>1, NewsAssumption DEF ListInv, Destroy

LEMMA FirstItemExists ==
  ASSUME ListInv
  PROVE  /\ FirstItem \in 0 .. NEWS_LIST_LEN \cup {DANGLING}
         /\ FirstItem = DANGLING <=> G_rss_news_list = "freed"
BY NewsAssumption DEF ListInv, FirstItem, DANGLING

-----------------------------------------------------------------------------
(* The steps that leave the list alone.                                     *)
LEMMA ListUntouched ==
  ASSUME ListInv, AloneInv, UNCHANGED listVars,
         current_item' = current_item \/ current_item' \in 0 .. NEWS_LIST_LEN,
         ReaderHasList' <=> ReaderHasList, SpeechHasList' <=> SpeechHasList
  PROVE  ListInv' /\ AloneInv'
<1>1. ListInv'
  BY DEF ListInv, listVars, DANGLING
<1>2. current_item' = DANGLING => current_item = DANGLING
  BY NewsAssumption DEF ListInv, DANGLING
<1> QED
  BY <1>1, <1>2 DEF AloneInv, listVars

LEMMA UserStep ==
  ASSUME ListInv, PlacesInv, AloneInv, UserChangesMode \/ UserTunes \/ KeyReadsNews \/ NewsScrolls
  PROVE  ListInv' /\ PlacesInv' /\ AloneInv'
<1>1. CASE UserChangesMode \/ UserTunes
  <2>1. ListInv' /\ AloneInv'
    BY <1>1, ListUntouched DEF UserChangesMode, UserTunes, UserElsewhere, readerVars, speechVars,
       ReaderHasList, SpeechHasList
  <2> QED
    BY <1>1, <2>1 DEF UserChangesMode, UserTunes, UserElsewhere, readerVars, speechVars, PlacesInv
<1>2. CASE KeyReadsNews
  <2>1. ListInv' /\ AloneInv'
    BY <1>2, ListUntouched DEF KeyReadsNews, UserElsewhere, readerVars,
       ReaderHasList, SpeechHasList
  <2> QED
    BY <1>2, <2>1 DEF KeyReadsNews, UserElsewhere, readerVars, PlacesInv
<1>3. CASE NewsScrolls
  <2>1. ListInv' /\ AloneInv'
    BY <1>3, ListUntouched DEF NewsScrolls, readerVars, speechVars, ReaderHasList, SpeechHasList
  <2>2. scrollPc["rss"] # "off" /\ scrollPc' \in [Scrolls -> {"off", "draw", "blank"}]
    BY <1>3 DEF NewsScrolls, Scroll, ScrollDraws, ScrollBlanks, ScrollEnds, ScrollReturns,
       PlacesInv, Scrolls
  <2> QED
    BY <1>3, <2>1, <2>2 DEF NewsScrolls, readerVars, speechVars, PlacesInv
<1> QED
  BY <1>1, <1>2, <1>3

(* The RSS reader.                                                          *)
LEMMA ReaderKeepsPlaces ==
  ASSUME PlacesInv, ReaderStep
  PROVE  PlacesInv'
<1> USE DEF ReaderStep, RowElsewhere, speechVars, PlacesInv, ReaderSteps, NotScrolling, scrollVars
<1>1. CASE ReaderWaits \/ ReaderFetches \/ ReaderFails
  BY <1>1 DEF ReaderWaits, ReaderFetches, ReaderFails
<1>2. CASE ReaderParses \/ ReaderBeginsToPlay
  BY <1>2 DEF ReaderParses, ReaderBeginsToPlay
<1>3. CASE ReaderScrollsItem
  BY <1>3 DEF ReaderScrollsItem, ScrollBegins, Scrolls
<1>4. CASE ReaderStopsPlaying \/ ReaderScrolled \/ ReaderTakesNext
  BY <1>4 DEF ReaderStopsPlaying, ReaderScrolled, ReaderTakesNext
<1>5. CASE ReaderDestroys
  BY <1>5 DEF ReaderDestroys
<1> QED
  BY <1>1, <1>2, <1>3, <1>4, <1>5 DEF Reader

LEMMA ReaderKeepsList ==
  ASSUME ListInv, PlacesInv, AloneInv, ReaderStep
  PROVE  ListInv' /\ AloneInv'
<1>1. SpeechHasList' <=> SpeechHasList
  BY DEF ReaderStep, speechVars, SpeechHasList
<1>2. CASE ReaderWaits \/ ReaderFetches \/ ReaderFails \/ ReaderStopsPlaying \/ ReaderScrolled
  <2>1. /\ ReaderHasList' <=> ReaderHasList
        /\ current_item' = current_item /\ UNCHANGED listVars
    BY <1>2 DEF ReaderWaits, ReaderFetches, ReaderFails, ReaderStopsPlaying, ReaderScrolled,
       ReaderSteps, ReaderHasList
  <2> QED
    BY <1>1, <2>1, ListUntouched
<1>3. CASE ReaderParses
  <2>1. ~ReaderHasList /\ ReaderHasList' /\ curl_feed \in Feeds /\ ItemsOf[curl_feed] \in Nat
    BY <1>3, NewsAssumption DEF ReaderParses, ReaderSteps, ReaderHasList, PlacesInv
  <2>2. /\ ParseXmlRss(curl_feed, ItemsOf[curl_feed]) /\ UNCHANGED current_item
        /\ shared' = (shared \/ SpeechHasList)
    BY <1>3 DEF ReaderParses
  <2>3. ListInv'
    BY <2>1, <2>2, ParseKeepsList
  <2>4. ~shared' => ~shared /\ ~SpeechHasList
    BY <2>2
  <2>5. ~shared' /\ ~emptied' => ~emptied /\ news = <<>> /\ G_rss_item_count = 0
    BY <2>1, <2>2, <2>4, ParseKeepsList DEF AloneInv
  <2>6. undefined' => emptied' \/ shared'
    BY <2>1, <2>2, ParseKeepsList DEF ListInv
  <2> QED
    BY <1>1, <2>1, <2>2, <2>3, <2>4, <2>5, <2>6, ParseKeepsList DEF AloneInv
<1>4. CASE ReaderBeginsToPlay
  <2>1. UNCHANGED listVars /\ ReaderHasList /\ ReaderHasList'
    BY <1>4 DEF ReaderBeginsToPlay, ReaderHasList
  <2>2. current_item' \in {current_item, FirstItem}
    BY <1>4 DEF ReaderBeginsToPlay
  <2>3. ListInv'
    BY <2>1, <2>2, FirstItemExists DEF ListInv, listVars
  <2>4. current_item' = DANGLING => shared \/ emptied
    BY <2>1, <2>2, FirstItemExists DEF AloneInv
  <2> QED
    BY <1>1, <2>1, <2>3, <2>4 DEF AloneInv, listVars
<1>5. CASE ReaderScrollsItem \/ ReaderTakesNext
  <2>1. /\ ReaderHasList /\ ReaderHasList'
        /\ UNCHANGED <<G_rss_item_count, G_rss_news_list, news, shared, emptied>>
        /\ undefined' = (current_item = DANGLING)
    BY <1>5 DEF ReaderScrollsItem, ReaderTakesNext, ReaderSteps, ReaderHasList
  <2>2. current_item' = current_item \/ current_item' \in 0 .. NEWS_LIST_LEN
    BY <1>5, NewsAssumption DEF ReaderScrollsItem, ReaderTakesNext, ListInv, DANGLING
  <2>3. current_item' = DANGLING => current_item = DANGLING
    BY <2>2, NewsAssumption DEF DANGLING
  <2>4. ListInv'
    BY <2>1, <2>2 DEF ListInv
  <2> QED
    BY <1>1, <2>1, <2>3, <2>4 DEF AloneInv
<1>6. CASE ReaderDestroys
  <2>1. ReaderHasList /\ ~ReaderHasList' /\ ~undefined
    BY <1>6 DEF ReaderDestroys, ReaderSteps, ReaderHasList
  <2>2. Destroy /\ current_item' = 0 /\ UNCHANGED <<shared, emptied>>
    BY <1>6 DEF ReaderDestroys, Destroy
  <2>3. ListInv' /\ G_rss_item_count' = 0 /\ news' = <<>>
        /\ (undefined' => G_rss_news_list = "freed")
    BY <2>1, <2>2, DestroyKeepsList, NewsAssumption
  <2>4. current_item' # DANGLING
    BY <2>2, NewsAssumption DEF DANGLING
  <2> QED
    BY <1>1, <2>1, <2>2, <2>3, <2>4 DEF AloneInv
<1> QED
  BY <1>2, <1>3, <1>4, <1>5, <1>6 DEF ReaderStep, Reader

(* The speech thread.                                                       *)
LEMMA SpeechKeepsPlaces ==
  ASSUME PlacesInv, SpeechStep
  PROVE  PlacesInv'
BY DEF SpeechStep, Speech, SpeechParses, SpeechWalks, SpeechDestroys, SpeechSteps, RowElsewhere,
       readerVars, NotScrolling, scrollVars, PlacesInv

LEMMA SpeechKeepsList ==
  ASSUME ListInv, PlacesInv, AloneInv, SpeechStep
  PROVE  ListInv' /\ AloneInv'
<1>1. ReaderHasList' <=> ReaderHasList
  BY DEF SpeechStep, Speech, SpeechParses, SpeechWalks, SpeechDestroys, readerVars, ReaderHasList
<1>2. CASE SpeechParses
  <2>1. ~SpeechHasList /\ SpeechHasList' /\ TTS_feed \in Feeds /\ ItemsOf[TTS_feed] \in Nat
    BY <1>2, NewsAssumption DEF SpeechParses, SpeechSteps, SpeechHasList, PlacesInv
  <2>2. PICK n \in Nat : ParseXmlRss(TTS_feed, n)
    BY <1>2, <2>1 DEF SpeechParses
  <2>3. UNCHANGED current_item /\ shared' = (shared \/ ReaderHasList)
    BY <1>2 DEF SpeechParses, readerVars
  <2>4. ListInv'
    BY <2>1, <2>2, <2>3, ParseKeepsList
  <2>5. ~shared' => ~shared /\ ~ReaderHasList
    BY <2>3
  <2>6. ~shared' /\ ~emptied' => ~emptied /\ news = <<>> /\ G_rss_item_count = 0
    BY <2>1, <2>2, <2>3, <2>5, ParseKeepsList DEF AloneInv
  <2>7. undefined' => emptied' \/ shared'
    BY <2>1, <2>2, <2>3, ParseKeepsList DEF ListInv
  <2> QED
    BY <1>1, <2>1, <2>2, <2>3, <2>4, <2>5, <2>6, <2>7, ParseKeepsList DEF AloneInv
<1>3. CASE SpeechWalks
  <2>1. /\ SpeechHasList /\ SpeechHasList' /\ UNCHANGED current_item
        /\ UNCHANGED <<G_rss_item_count, G_rss_news_list, news, shared, emptied>>
        /\ undefined' = (FirstItem = DANGLING)
    BY <1>3 DEF SpeechWalks, SpeechSteps, SpeechHasList, readerVars
  <2>2. ListInv'
    BY <2>1 DEF ListInv
  <2> QED
    BY <1>1, <2>1, <2>2, FirstItemExists DEF AloneInv
<1>4. CASE SpeechDestroys
  <2>1. SpeechHasList /\ ~SpeechHasList' /\ ~undefined
    BY <1>4 DEF SpeechDestroys, SpeechSteps, SpeechHasList
  <2>2. Destroy /\ UNCHANGED <<shared, emptied>>
    BY <1>4 DEF SpeechDestroys, Destroy
  <2>3. \/ current_item' = current_item
        \/ current_item' = DANGLING /\ ReaderHasList
    BY <1>4 DEF SpeechDestroys, ReaderHasList
  <2>4. ListInv' /\ G_rss_item_count' = 0 /\ news' = <<>>
        /\ (undefined' => G_rss_news_list = "freed")
    BY <2>1, <2>2, <2>3, DestroyKeepsList DEF ListInv
  <2> QED
    BY <1>1, <2>1, <2>2, <2>3, <2>4 DEF AloneInv
<1> QED
  BY <1>2, <1>3, <1>4 DEF SpeechStep, Speech

-----------------------------------------------------------------------------
LEMMA NewsStarts == NewsInit => ListInv /\ PlacesInv /\ AloneInv
<1> SUFFICES ASSUME NewsInit PROVE ListInv /\ PlacesInv /\ AloneInv
  OBVIOUS
<1>1. news \in Seq(Feeds) /\ Len(news) = 0
  BY DEF NewsInit
<1>2. ListInv
  BY <1>1, NewsAssumption DEF NewsInit, ListInv
<1>3. PlacesInv
  BY DEF NewsInit, ScrollingInit, PlacesInv, Scrolls
<1>4. AloneInv
  BY <1>1, NewsAssumption DEF NewsInit, AloneInv, ReaderHasList, SpeechHasList, DANGLING
<1> QED
  BY <1>2, <1>3, <1>4

LEMMA NewsStep ==
  ASSUME ListInv, PlacesInv, AloneInv, [NewsNext]_newsVars
  PROVE  ListInv' /\ PlacesInv' /\ AloneInv'
<1>1. CASE UserChangesMode \/ UserTunes \/ KeyReadsNews \/ NewsScrolls
  BY <1>1, UserStep
<1>2. CASE ReaderStep
  BY <1>2, ReaderKeepsPlaces, ReaderKeepsList
<1>3. CASE SpeechStep
  BY <1>3, SpeechKeepsPlaces, SpeechKeepsList
<1>4. CASE UNCHANGED newsVars
  <2>1. ListInv' /\ AloneInv'
    BY <1>4, ListUntouched DEF newsVars, readerVars, speechVars, ReaderHasList, SpeechHasList
  <2> QED
    BY <1>4, <2>1 DEF newsVars, readerVars, speechVars, scrollVars, PlacesInv
<1> QED
  BY <1>1, <1>2, <1>3, <1>4 DEF NewsNext

(* The list is never longer than it may be, and the places of the two        *)
(* threads and of the scroll go together.                                   *)
THEOREM NewsTypeCorrect == NewsSpec => []NewsTypeOK
<1>1. ListInv /\ PlacesInv /\ AloneInv => NewsTypeOK
  BY DEF ListInv, PlacesInv, AloneInv, NewsTypeOK
<1> QED
  BY NewsStarts, NewsStep, <1>1, PTL DEF NewsSpec

(* Without a lock, yet as long as only one of the two threads has the list    *)
(* and no feed comes empty after one that was not, nothing freed is touched   *)
(* and nothing is lost.                                                     *)
THEOREM NewsListIsSound == NewsSpec => []NewsListSound
<1>1. ListInv /\ PlacesInv /\ AloneInv => NewsListSound
  <2> SUFFICES ASSUME ListInv, AloneInv, ~shared, ~emptied
               PROVE  /\ ~undefined
                      /\ G_rss_item_count = Len(news)
                      /\ G_rss_news_list = "live" <=> news # <<>>
                      /\ \A i, j \in DOMAIN news : news[i] = news[j]
                      /\ ReaderHasList \/ SpeechHasList \/ news = <<>>
    BY DEF NewsListSound
  <2>1. news # <<>> <=> Len(news) > 0
    BY DEF ListInv
  <2> QED
    BY <2>1 DEF ListInv, AloneInv
<1> QED
  BY NewsStarts, NewsStep, <1>1, PTL DEF NewsSpec

-----------------------------------------------------------------------------
(* The power of the amplifier.                                              *)

AmpPlaces ==
  {"begin", "first", "look", "call", "write", "written", "idle", "wake", "unmute", "mute",
   "sleep", "asleep"}

AmpTypeOK ==
  /\ ampPc \in [AmpUsers \cup {Controller} -> AmpPlaces]
  /\ chip \in [awake : BOOLEAN, muted : BOOLEAN]
  /\ G_amp_active \in BOOLEAN

(* Unless two threads have switched the chip at one time, one of them at most *)
(* is about it, and how far it has come tells what the chip has.             *)
ChipIsAt(place) ==
  /\ place \in {"unmute", "call", "write", "written"} => chip.awake = TRUE
  /\ place \in {"call", "write", "written"} => chip.muted = FALSE
  /\ place \in {"sleep", "asleep"} => chip.muted = TRUE
  /\ place = "asleep" => chip.awake = FALSE

PowerInv ==
  ~together =>
    /\ \A t, u \in AmpUsers : ampPc[t] # "idle" /\ ampPc[u] # "idle" => t = u
    /\ \A u \in AmpUsers : ChipIsAt(ampPc[u])
    /\ (\A u \in AmpUsers : ampPc[u] = "idle") =>
         chip = [awake |-> G_amp_active, muted |-> ~G_amp_active]

(* Every step keeps the types.                                              *)
LEMMA AmpTypeStep == AmpTypeOK /\ [AmpNext]_ampVars => AmpTypeOK'
<1> SUFFICES ASSUME AmpTypeOK, [AmpNext]_ampVars PROVE AmpTypeOK'
  OBVIOUS
<1> USE DEF AmpTypeOK, AmpPlaces
<1>1. ASSUME Control PROVE AmpTypeOK'
  BY <1>1 DEF Control, SetHWVolume, WritesRegister, ControlLooks, ControlNotes, AmpGoes, powerVars
<1>2. ASSUME MenuSetsGain PROVE AmpTypeOK'
  BY <1>2 DEF MenuSetsGain, powerVars
<1>3. ASSUME NEW u \in AmpUsers, AmpUserBegins(u, "wake") \/ AmpUserBegins(u, "mute") PROVE AmpTypeOK'
  BY <1>3 DEF AmpUserBegins, AmpGoes
<1>4. ASSUME NEW u \in AmpUsers, AmpUserStep(u) PROVE AmpTypeOK'
  BY <1>4 DEF AmpUserStep, AmpIsEnabled, AmpIsShutDown, WritesPower, SetHWVolume, WritesRegister,
     AmpUserIsDone, AmpGoes, powerVars, Unmuted
<1>5. CASE UNCHANGED ampVars
  BY <1>5 DEF ampVars, powerVars
<1> QED
  BY <1>1, <1>2, <1>3, <1>4, <1>5 DEF AmpNext

(* What the controller and the menu do leaves the users and the chip alone.   *)
LEMMA ControlLeavesPower ==
  ASSUME AmpTypeOK, Control \/ MenuSetsGain \/ UNCHANGED ampVars
  PROVE  UNCHANGED powerVars /\ \A u \in AmpUsers : ampPc'[u] = ampPc[u]
BY AmplifierAssumption DEF AmpTypeOK, Control, MenuSetsGain, ampVars, SetHWVolume, WritesRegister,
  ControlLooks, ControlNotes, AmpGoes, powerVars

(* Every step keeps what is known of the chip: whoever is about it alone is *)
(* in one of the places of AmpUserStep, and the rest are idle.              *)
LEMMA PowerStep == AmpTypeOK /\ PowerInv /\ [AmpNext]_ampVars => PowerInv'
<1> SUFFICES ASSUME AmpTypeOK, PowerInv, [AmpNext]_ampVars PROVE PowerInv'
  OBVIOUS
<1>1. CASE Control \/ MenuSetsGain \/ UNCHANGED ampVars
  BY <1>1, ControlLeavesPower DEF PowerInv, ChipIsAt, powerVars
<1>2. ASSUME NEW u \in AmpUsers, NEW place \in {"wake", "mute"}, AmpUserBegins(u, place)
      PROVE  PowerInv'
  <2>1. /\ \A t \in AmpUsers : ampPc'[t] = IF t = u THEN place ELSE ampPc[t]
        /\ UNCHANGED <<G_amp_active, chip>>
    BY <1>2 DEF AmpUserBegins, AmpGoes, AmpTypeOK
  <2>2. SUFFICES ASSUME ~together' PROVE PowerInv'
    BY DEF PowerInv
  <2>3. \A t \in AmpUsers \ {u} : ampPc[t] = "idle"
    BY <1>2, <2>2 DEF AmpUserBegins, Others
  <2> QED
    BY <2>1, <2>3 DEF PowerInv, ChipIsAt
<1>3. ASSUME NEW u \in AmpUsers, AmpUserStep(u) PROVE PowerInv'
  <2>1. SUFFICES ASSUME ~together PROVE PowerInv'
    BY <1>3 DEF PowerInv, AmpUserStep, AmpIsEnabled, AmpIsShutDown, WritesPower, SetHWVolume,
      WritesRegister, AmpUserIsDone, powerVars
  <2>2. ASSUME NEW to, ampPc' = [ampPc EXCEPT ![u] = to], ampPc[u] # "idle", UNCHANGED together,
          ChipIsAt(to)', 
          to = "idle" => chip' = [awake |-> G_amp_active', muted |-> ~G_amp_active']
        PROVE PowerInv'
    <3>1. \A t \in AmpUsers : ampPc'[t] = IF t = u THEN to ELSE "idle"
      BY <2>1, <2>2 DEF PowerInv, AmpTypeOK
    <3> QED
      BY <3>1, <2>2 DEF PowerInv, ChipIsAt
  <2>3. ASSUME WritesPower(u, "wake", "unmute", [chip EXCEPT !.awake = TRUE]) PROVE PowerInv'
    BY <2>3, <2>2 DEF WritesPower, AmpGoes, ChipIsAt, AmpTypeOK
  <2>4. ASSUME WritesPower(u, "unmute", "call", Unmuted) PROVE PowerInv'
    BY <2>4, <2>2, <2>1 DEF WritesPower, AmpGoes, ChipIsAt, Unmuted, AmpTypeOK, PowerInv
  <2>5. ASSUME SetHWVolume(u, "call", "write") \/ WritesRegister(u, "write", "written")
        PROVE PowerInv'
    BY <2>5, <2>2, <2>1 DEF SetHWVolume, WritesRegister, AmpGoes, ChipIsAt, powerVars, PowerInv
  <2>6. ASSUME NEW active \in BOOLEAN,
               AmpUserIsDone(u, IF active THEN "written" ELSE "asleep", active)
        PROVE PowerInv'
    <3>1. chip.awake = active /\ chip.muted = ~active
      BY <2>6, <2>1 DEF AmpUserIsDone, AmpGoes, ChipIsAt, PowerInv
    <3>2. chip = [awake |-> active, muted |-> ~active]
      BY <3>1 DEF AmpTypeOK
    <3> QED
      BY <2>6, <2>2, <3>2 DEF AmpUserIsDone, AmpGoes, ChipIsAt
  <2>7. ASSUME WritesPower(u, "mute", "sleep", [chip EXCEPT !.muted = TRUE]) PROVE PowerInv'
    BY <2>7, <2>2 DEF WritesPower, AmpGoes, ChipIsAt, AmpTypeOK
  <2>8. ASSUME WritesPower(u, "sleep", "asleep", [chip EXCEPT !.awake = FALSE]) PROVE PowerInv'
    BY <2>8, <2>2, <2>1 DEF WritesPower, AmpGoes, ChipIsAt, AmpTypeOK, PowerInv
  <2> QED
    BY <1>3, <2>3, <2>4, <2>5, <2>6, <2>7, <2>8 DEF AmpUserStep, AmpIsEnabled, AmpIsShutDown
<1> QED
  BY <1>1, <1>2, <1>3 DEF AmpNext

(* However the threads switch the amplifier on and off and the controller   *)
(* and the menu set volumes: unless two threads have switched it at one     *)
(* time, it is awake and audible exactly when G_amp_active says so,         *)
(* whenever nobody is about it.                                             *)
THEOREM PowerIsAsTheFlagSays == AmpSpec => []PowerFollowsFlag
<1>1. AmpInit => AmpTypeOK /\ PowerInv
  <2>1. ASSUME AmpInit PROVE AmpTypeOK /\ \A u \in AmpUsers : ampPc[u] = "idle"
    BY <2>1, AmplifierAssumption DEF AmpInit, AmpTypeOK, AmpPlaces, ChipAtStart
  <2>2. ASSUME AmpInit PROVE chip = [awake |-> G_amp_active, muted |-> ~G_amp_active]
    BY <2>2 DEF AmpInit, ChipAtStart
  <2> QED
    BY <2>1, <2>2 DEF PowerInv, ChipIsAt
<1>2. AmpTypeOK /\ PowerInv => PowerFollowsFlag
  BY DEF AmpTypeOK, PowerInv, PowerFollowsFlag
<1> QED
  BY <1>1, <1>2, AmpTypeStep, PowerStep, PTL DEF AmpSpec

-----------------------------------------------------------------------------
(* The volume of the stream.                                                *)

HasStream == {"created", "quiet", "loud", "play", "set", "note", "fade"}
TurnedDown == {"lowered", "speak"}

VolumeTypeOK == volume_level \in Volumes /\ G_prev_volume_level \in Volumes

(* The stream that is there has the bit, so that the speech turns it up again; *)
(* and where nobody speaks and nothing was missed, it has some volume that    *)
(* was chosen.  In the loop of the player, this is the one of now, or is      *)
(* found not to be.                                                         *)
VolumeInv ==
  /\ volumePc = "open" => streamBit
  /\ volumePc \in HasStream => streamBit /\ channel # NO_CHANNEL
  /\ volumePc \in {"play", "note"} /\ voicePc \notin TurnedDown /\ ~missed => channel \in Volumes
  /\ VolumeIsHeard

(* Volumes stay in their range.                                             *)
LEMMA VolumeTypeStep == VolumeTypeOK /\ [VolumeNext]_volumeVars => VolumeTypeOK'
<1> SUFFICES ASSUME VolumeTypeOK, [VolumeNext]_volumeVars PROVE VolumeTypeOK'
  OBVIOUS
<1> USE VolumeAssumption DEF VolumeTypeOK
<1>1. CASE VolumeChanges \/ DemandChanges
  BY <1>1 DEF VolumeChanges, DemandChanges
<1>2. CASE VolumePlayer
  BY <1>2 DEF VolumePlayer, PlayerNotesFirst, PlayerOpens, StreamRefused, StreamCreated, PlaysStream,
    PlayerAsksForSpeech, PlayerSetsQuiet, PlayerSetsVolume, PlayerLooks, PlayerSets, PlayerNotes,
    PlayerStopsForSink, PlayerFades, PlayerFrees, PlayerClearsBit, Sink, SinkBegins, SinkLooks,
    SinkNotes, SinkEnds
<1>3. CASE Voice
  BY <1>3 DEF Voice, VoiceGoes, NewsArePrepared, TimeIsRefused, VoiceLowersForTime,
    VoiceLowersForNews, VoiceSpeaks, VoiceNotes, VoiceRaises, VoiceStops
<1>4. CASE UNCHANGED volumeVars
  BY <1>4 DEF volumeVars
<1> QED
  BY <1>1, <1>2, <1>3, <1>4 DEF VolumeNext

(* Every step of the player, the sink and the speech keeps what is known of *)
(* the volume.                                                              *)
LEMMA VolumeStep ==
  ASSUME VolumeTypeOK, VolumeTypeOK', VolumeInv, [VolumeNext]_volumeVars
  PROVE  VolumeInv'
<1> USE VolumeAssumption DEF VolumeTypeOK, VolumeInv, VolumeIsHeard, HasStream, TurnedDown, NO_CHANNEL
<1>1. CASE VolumeChanges
  BY <1>1 DEF VolumeChanges, voiceVars
<1>2. CASE DemandChanges
  BY <1>2 DEF DemandChanges, voiceVars
<1>3. CASE VolumePlayer
  <2> USE DEF PlayerGoes, voiceVars
  <2>1. CASE PlayerNotesFirst \/ PlayerOpens \/ StreamRefused \/ StreamCreated
    BY <2>1 DEF PlayerNotesFirst, PlayerOpens, StreamRefused, StreamCreated, OWN
  <2>2. CASE PlayerAsksForSpeech \/ PlayerSetsQuiet \/ PlayerSetsVolume
    <3>1. CASE PlayerAsksForSpeech
      BY <3>1 DEF PlayerAsksForSpeech
    <3>2. CASE PlayerSetsQuiet
      <4>1. voicePc' \in TurnedDown \/ missed'
        BY <3>2 DEF PlayerSetsQuiet
      <4>2. volumePc' = "play" /\ streamBit' /\ channel' # NO_CHANNEL
        BY <3>2 DEF PlayerSetsQuiet, QUIET
      <4> QED
        BY <4>1, <4>2
    <3>3. CASE PlayerSetsVolume
      BY <3>3 DEF PlayerSetsVolume, Volumes
    <3> QED
      BY <2>2, <3>1, <3>2, <3>3
  <2>3. CASE PlayerLooks \/ PlayerSets \/ PlayerNotes \/ PlayerStopsForSink
    <3>1. CASE PlayerLooks \/ PlayerStopsForSink
      BY <3>1 DEF PlayerLooks, PlayerStopsForSink
    <3>2. CASE PlayerSets
      BY <3>2 DEF PlayerSets, Volumes
    <3>3. CASE PlayerNotes
      BY <3>3 DEF PlayerNotes
    <3> QED
      BY <2>3, <3>1, <3>2, <3>3
  <2>4. CASE PlayerFades \/ PlayerFrees \/ PlayerClearsBit
    BY <2>4 DEF PlayerFades, PlayerFrees, PlayerClearsBit, FADING
  <2>5. CASE Sink
    BY <2>5 DEF Sink, SinkBegins, SinkLooks, SinkNotes, SinkEnds
  <2> QED
    BY <1>3, <2>1, <2>2, <2>3, <2>4, <2>5 DEF VolumePlayer, PlaysStream
<1>4. CASE Voice
  <2> USE DEF VoiceGoes, SetChannel, demandVars
  <2>1. CASE NewsArePrepared \/ TimeIsRefused \/ VoiceSpeaks \/ VoiceNotes \/ VoiceStops
    BY <2>1 DEF NewsArePrepared, TimeIsRefused, VoiceSpeaks, VoiceNotes, VoiceStops
  <2>2. CASE VoiceLowersForTime \/ VoiceLowersForNews
    BY <2>2 DEF VoiceLowersForTime, VoiceLowersForNews, LOWERED
  <2>3. CASE VoiceRaises
    BY <2>3 DEF VoiceRaises, Volumes
  <2> QED
    BY <1>4, <2>1, <2>2, <2>3 DEF Voice
<1>5. CASE UNCHANGED volumeVars
  BY <1>5 DEF volumeVars
<1> QED
  BY <1>1, <1>2, <1>3, <1>4, <1>5 DEF VolumeNext

(* Once the player has gone around its loop, the stream that is heard has   *)
(* the volume that was chosen, unless somebody speaks; speech, streams that *)
(* end meanwhile and the Bluetooth sink do not change that.                 *)
THEOREM ChosenVolumeIsHeard == VolumeSpec => []VolumeIsHeard
<1>1. VolumeInit => VolumeTypeOK /\ VolumeInv
  BY VolumeAssumption DEF VolumeInit, VolumeTypeOK, VolumeInv, VolumeIsHeard, HasStream, Volumes
<1>2. VolumeTypeOK /\ VolumeTypeOK' /\ VolumeInv /\ [VolumeNext]_volumeVars => VolumeInv'
  BY VolumeStep
<1>3. VolumeInv => VolumeIsHeard
  BY DEF VolumeInv
<1> QED
  BY <1>1, <1>2, <1>3, VolumeTypeStep, PTL DEF VolumeSpec

-----------------------------------------------------------------------------
(* The web server.                                                          *)

(* The buffer has room behind what was read, which is not more than the file; *)
(* what has been read is whole, and how much of it is there tells how far the *)
(* server has come.                                                         *)
LoadInv ==
  /\ {size, alloc, fileLength} \subseteq Nat
  /\ size < alloc \/ (alloc = 0 /\ size = 0)
  /\ webPc \in {"cert", "key"} => size <= fileLength
  /\ loaded \in Seq({0})
  /\ webPc = "cert" => Len(loaded) = 0
  /\ webPc = "key" => Len(loaded) = 1
  /\ webPc = "serving" => Len(loaded) = 2

(* A connection is marked only when its request is complete, and the reading  *)
(* of the users always begins with the first.                               *)
AnswerInv ==
  /\ con_cls \in [Connections -> BOOLEAN] /\ stage \in [Connections -> {"idle", "headers", "complete"}]
  /\ DOMAIN webRequest = Connections /\ DOMAIN reply = Connections
  /\ passwdNext = 1
  /\ \A c \in Connections :
       /\ con_cls[c] => stage[c] = "complete"
       /\ stage[c] # "idle" => webRequest[c] \in WebRequests
  /\ RepliesAreDue

(* Reading to the end gives the last user of a name.                         *)
LEMMA LetInWhoKnows ==
  ASSUME passwdNext = 1, NEW r PROVE IsLetIn(r) <=> Knows(r)
<1> DEFINE named == {i \in 1 .. Len(passwd) : passwd[i].name = Asked(r)}
<1>1. Found(r) = {i \in named : \A j \in named : j <= i}
  BY DEF Found
<1>2. ASSUME NEW i \in 1 .. Len(passwd), passwd[i].name = Asked(r)
      PROVE  i \in Found(r) <=> \A j \in i + 1 .. Len(passwd) : passwd[j].name # passwd[i].name
  BY <1>1, <1>2, WebServerAssumption
<1>3. \A i \in Found(r) : i \in 1 .. Len(passwd) /\ passwd[i].name = Asked(r)
  BY <1>1
<1>4. \A i \in 1 .. Len(passwd) : passwd[i].password # NONE
  BY WebServerAssumption
<1>5. IsLetIn(r) <=> r.password # NONE /\ \E i \in Found(r) : passwd[i].salted /\ passwd[i].password = r.password
  BY DEF IsLetIn
<1>6. Knows(r) <=> \E i \in 1 .. Len(passwd) :
        /\ passwd[i].name = Asked(r) /\ passwd[i].salted /\ passwd[i].password = r.password
        /\ \A j \in i + 1 .. Len(passwd) : passwd[j].name # passwd[i].name
  BY WebServerAssumption DEF Knows
<1> HIDE DEF named
<1> QED
  BY <1>2, <1>3, <1>4, <1>5, <1>6

(* A page of the administration is refused to those who are not known, and  *)
(* to nobody else.                                                          *)
LEMMA RefusedUnlessKnown ==
  ASSUME passwdNext = 1, NEW r \in WebRequests, NEW answer \in Replies(r),
         r.segment = "admin", r.method \in {"GET", "POST"}, answer # "unanswered"
  PROVE  answer = "401" <=> ~Knows(r)
<1>1. Replies(r) = IF IsLetIn(r) THEN AdminReplies(r) ELSE {"401"}
  BY DEF Replies
<1>2. r.path \in {"panel", "dots", "file"}
  BY WebServerAssumption
<1>3. "401" \notin AdminReplies(r)
  BY <1>2 DEF AdminReplies
<1> QED
  BY <1>1, <1>3, LetInWhoKnows

(* Reading the certificate and the key, block after block.                  *)
LEMMA LoadStep == LoadInv /\ [WebNext]_webVars => LoadInv'
<1> SUFFICES ASSUME LoadInv, [WebNext]_webVars PROVE LoadInv'
  OBVIOUS
<1> USE DEF LoadInv
<1>1. CASE ReadsBlock
  <2>1. Grown \in Nat /\ size + 1 < Grown
    BY WebServerAssumption DEF Grown
  <2> QED
    BY <1>1, <2>1 DEF ReadsBlock, Requested, Left, connectionVars
<1>2. CASE ReadsLastBlock
  <2>1. fileLength' \in Nat /\ alloc' = 0 /\ size' = 0
    BY <1>2, WebServerAssumption DEF ReadsLastBlock
  <2>2. webPc' = "key" => size' <= fileLength'
    BY <2>1
  <2>3. PICK count : IF EndOfFile(count)
       THEN /\ loaded' = Append(loaded, Left - count)
            /\ webPc' = IF webPc = "cert" THEN "key" ELSE "serving"
       ELSE webPc' = "disabled" /\ UNCHANGED loaded
    BY <1>2 DEF ReadsLastBlock
  <2>4. CASE EndOfFile(count)
    <3>1. loaded' = Append(loaded, 0)
      BY <2>3, <2>4, <1>2 DEF EndOfFile, Left, ReadsLastBlock
    <3>2. loaded' \in Seq({0}) /\ Len(loaded') = Len(loaded) + 1
      BY <3>1, AppendProperties
    <3> QED
      BY <2>1, <2>3, <2>4, <3>2, <1>2 DEF ReadsLastBlock
  <2>5. CASE ~EndOfFile(count)
    BY <2>1, <2>3, <2>5
  <2> QED
    BY <2>4, <2>5
<1>3. CASE WebIsDisabled
  BY <1>3 DEF WebIsDisabled, fileVars
<1>4. CASE WebIsSwitchedOn
  BY <1>4, WebServerAssumption, EmptySeq DEF WebIsSwitchedOn
<1>5. ASSUME NEW c \in Connections, Asks(c) \/ Handler(c) \/ BrowserLeaves(c)
      PROVE  UNCHANGED fileVars /\ (webPc' = webPc \/ webPc' = "crashed")
  BY <1>5 DEF Asks, Handler, FirstCall, SecondCall, BrowserLeaves
<1>6. ASSUME UNCHANGED fileVars /\ (webPc' = webPc \/ webPc' = "crashed") PROVE LoadInv'
  BY <1>6 DEF fileVars
<1>7. CASE UNCHANGED webVars
  BY <1>7 DEF webVars, fileVars
<1> QED
  BY <1>1, <1>2, <1>3, <1>4, <1>5, <1>6, <1>7 DEF WebNext, PL_websrv_thread

(* The two calls of the handler, on any number of connections.              *)
LEMMA AnswerStep == AnswerInv /\ [WebNext]_webVars => AnswerInv'
<1> SUFFICES ASSUME AnswerInv, [WebNext]_webVars PROVE AnswerInv'
  OBVIOUS
<1> USE DEF AnswerInv
<1>1. CASE PL_websrv_thread \/ UNCHANGED webVars
  BY <1>1 DEF PL_websrv_thread, ReadsBlock, ReadsLastBlock, WebIsDisabled, webVars, connectionVars, RepliesAreDue, Knows, Asked
<1>2. CASE WebIsSwitchedOn
  BY <1>2 DEF WebIsSwitchedOn, RepliesAreDue
<1>3. ASSUME NEW c \in Connections, Asks(c) PROVE AnswerInv'
  BY <1>3 DEF Asks, RepliesAreDue, Knows, Asked
<1>4. ASSUME NEW c \in Connections, FirstCall(c) PROVE AnswerInv'
  BY <1>4 DEF FirstCall, RepliesAreDue, Knows, Asked
<1>5. ASSUME NEW c \in Connections, SecondCall(c) PROVE AnswerInv'
  <2>1. passwdNext' = 1
    BY <1>5 DEF SecondCall, Rewound
  <2>2. PICK answer \in Replies(webRequest[c]) :
          IF answer \in {"crash", "unanswered"} THEN UNCHANGED <<stage, reply>>
          ELSE /\ reply' = [reply EXCEPT ![c] = [answer |-> answer, at |-> stage[c]]]
               /\ stage' = [stage EXCEPT ![c] = "idle"]
    BY <1>5 DEF SecondCall
  <2>3. /\ con_cls' = [con_cls EXCEPT ![c] = FALSE] /\ UNCHANGED webRequest
        /\ stage[c] = "complete" /\ webRequest[c] \in WebRequests
    BY <1>5 DEF SecondCall, MarkIsTaken
  <2>4. CASE answer \in {"crash", "unanswered"}
    BY <2>1, <2>2, <2>3, <2>4 DEF RepliesAreDue, Knows, Asked
  <2>5. CASE answer \notin {"crash", "unanswered"}
    <3>1. webRequest[c].segment = "admin" /\ webRequest[c].method \in {"GET", "POST"} =>
            (answer = "401" <=> ~Knows(webRequest[c]))
      BY <2>3, <2>5, RefusedUnlessKnown
    <3>2. reply'[c].at = "complete" /\ reply'[c].answer = answer
      BY <2>2, <2>3, <2>5
    <3>3. RepliesAreDue'
      BY <2>2, <2>3, <2>5, <3>1, <3>2 DEF RepliesAreDue, Knows, Asked
    <3> QED
      BY <2>1, <2>2, <2>3, <2>5, <3>3
  <2> QED
    BY <2>4, <2>5
<1>6. ASSUME NEW c \in Connections, BrowserLeaves(c) PROVE AnswerInv'
  BY <1>6 DEF BrowserLeaves, RepliesAreDue, Knows, Asked
<1> QED
  BY <1>1, <1>2, <1>3, <1>4, <1>5, <1>6 DEF WebNext, Handler

(* The server only serves with the whole of its certificate and of its key; *)
(* no answer is given before the request is complete, and "401" is the      *)
(* answer of the administration to exactly those requests that do not come  *)
(* with the name and the password of a user.                                *)
THEOREM AnswersAreDue == WebSpec => [](FilesAreWhole /\ RepliesAreDue)
<1>1. WebStart => LoadInv /\ AnswerInv
  BY WebServerAssumption, EmptySeq DEF WebStart, LoadInv, AnswerInv, RepliesAreDue
<1>2. LoadInv /\ AnswerInv => FilesAreWhole /\ RepliesAreDue
  <2>1. ASSUME LoadInv PROVE \A i \in DOMAIN loaded : loaded[i] = 0
    BY <2>1, ElementOfSeq, LenProperties DEF LoadInv
  <2> QED
    BY <2>1 DEF LoadInv, AnswerInv, FilesAreWhole
<1> QED
  BY <1>1, <1>2, LoadStep, AnswerStep, PTL DEF WebSpec

-----------------------------------------------------------------------------
(* The commands.                                                            *)

(* An answer is that to the request of who has it.                          *)
AnswersFit == \A c \in Clients : response[c] # Silent => response[c] = AnswerTo(request[c])

(* Its request cannot change: it is still there, and was not answered.       *)
Unserved(c) == clientPc[c] # "idle" /\ response[c] = Silent

(* Types.                                                                   *)
CommandTypeOK ==
  /\ request \in [Clients -> Seq(STRING)] /\ waiting \in Seq(Clients)
  /\ DOMAIN clientPc = Clients /\ DOMAIN response = Clients
  /\ s2 \in Clients \cup {Nobody}

(* While the program is there, those who wait for it are different clients    *)
(* that were not served, and so is the one it serves: what it has received is *)
(* the request of that one.                                                 *)
ServiceInv ==
  up =>
    /\ \A i, j \in DOMAIN waiting : waiting[i] = waiting[j] => i = j
    /\ \A i \in DOMAIN waiting : Unserved(waiting[i]) /\ waiting[i] # s2
    /\ s2 # Nobody => Unserved(s2)
    /\ commandPc \in {"recv", "serve"} => s2 # Nobody
    /\ commandPc = "recv" => command = <<>>
    /\ commandPc = "serve" => command = request[s2]

CommandInv == CommandTypeOK /\ ServiceInv /\ AnswersFit

(* Who waits is a client.                                                   *)
LEMMA QueueHolds ==
  ASSUME NEW s \in Seq(Clients) PROVE \A i \in DOMAIN s : s[i] \in Clients
BY ElementOfSeq, LenProperties

(* A client that comes is behind the others.                                *)
LEMMA QueueAppended ==
  ASSUME NEW s \in Seq(Clients), NEW c \in Clients
  PROVE  /\ Append(s, c) \in Seq(Clients)
         /\ DOMAIN s = 1 .. Len(s) /\ Len(s) \in Nat
         /\ DOMAIN Append(s, c) = 1 .. Len(s) + 1
         /\ Append(s, c)[Len(s) + 1] = c
         /\ \A k \in 1 .. Len(s) : Append(s, c)[k] = s[k]
  OBVIOUS

(* The client that is taken was the first.                                  *)
LEMMA QueueTaken ==
  ASSUME NEW s \in Seq(Clients), s # <<>>
  PROVE  /\ Tail(s) \in Seq(Clients)
         /\ Head(s) \in Clients /\ Head(s) = s[1] /\ 1 \in DOMAIN s
         /\ DOMAIN s = 1 .. Len(s) /\ Len(s) \in Nat
         /\ DOMAIN Tail(s) = 1 .. Len(s) - 1
         /\ \A k \in 1 .. Len(s) - 1 : Tail(s)[k] = s[k + 1]
  OBVIOUS

(* Whoever is taken from the queue is not in it a second time.               *)
LEMMA NotTwice ==
  ASSUME NEW s \in Seq(Clients), s # <<>>,
         \A i, j \in DOMAIN s : s[i] = s[j] => i = j
  PROVE  /\ \A i, j \in DOMAIN Tail(s) : Tail(s)[i] = Tail(s)[j] => i = j
         /\ \A i \in DOMAIN Tail(s) : Tail(s)[i] # Head(s) /\ \E k \in DOMAIN s : Tail(s)[i] = s[k]
<1>1. \A i \in DOMAIN Tail(s) : i + 1 \in DOMAIN s /\ Tail(s)[i] = s[i + 1] /\ i + 1 # 1 /\ i \in Int
  BY QueueTaken
<1>2. 1 \in DOMAIN s /\ Head(s) = s[1]
  BY QueueTaken
<1>3. \A i, j \in Int : i + 1 = j + 1 => i = j
  OBVIOUS
<1> QED
  BY <1>1, <1>2, <1>3

(* The server takes one client after another.                               *)
LEMMA ServerStep == CommandInv /\ CommandServer => CommandInv'
<1> SUFFICES ASSUME CommandInv, CommandServer PROVE CommandInv'
  OBVIOUS
<1>0. CommandTypeOK /\ ServiceInv /\ AnswersFit /\ waiting \in Seq(Clients) /\ Nobody \notin Clients
  BY CommandSocketAssumption DEF CommandInv, CommandTypeOK
<1> USE DEF CommandInv
<1>1. CASE SocketIsSetUp
  BY <1>0, <1>1 DEF SocketIsSetUp, CommandTypeOK, ServiceInv, AnswersFit, Unserved
<1>2. CASE Accepts
  <2>1. /\ up /\ waiting # <<>> /\ s2' = Head(waiting) /\ waiting' = Tail(waiting)
        /\ command' = <<>> /\ commandPc' = "recv"
        /\ UNCHANGED <<up, clientPc, request, response>>
    BY <1>2 DEF Accepts, CommandGoes, Cleared
  <2>2. CommandTypeOK'
    BY <1>0, <2>1, QueueTaken DEF CommandTypeOK
  <2>3. /\ \A i, j \in DOMAIN waiting : waiting[i] = waiting[j] => i = j
        /\ \A i \in DOMAIN waiting : Unserved(waiting[i])
        /\ Unserved(Head(waiting)) /\ Head(waiting) \in Clients
    BY <1>0, <2>1, QueueTaken DEF ServiceInv
  <2>4. /\ \A i, j \in DOMAIN waiting' : waiting'[i] = waiting'[j] => i = j
        /\ \A i \in DOMAIN waiting' : waiting'[i] # s2' /\ \E k \in DOMAIN waiting : waiting'[i] = waiting[k]
    BY <1>0, <2>1, <2>3, NotTwice
  <2>5. \A c : Unserved(c) => Unserved(c)'
    BY <2>1 DEF Unserved
  <2>6. ServiceInv'
    BY <1>0, <2>1, <2>3, <2>4, <2>5 DEF ServiceInv
  <2> QED
    BY <1>0, <2>1, <2>2, <2>6 DEF AnswersFit
<1>3. CASE Drops
  <2>1. /\ up /\ waiting # <<>> /\ waiting' = Tail(waiting)
        /\ clientPc' = [clientPc EXCEPT ![Head(waiting)] = "idle"]
        /\ commandPc' = commandPc /\ UNCHANGED <<up, s2, command, request, response>>
    BY <1>3 DEF Drops, CommandGoes
  <2>2. CommandTypeOK'
    BY <1>0, <2>1, QueueTaken DEF CommandTypeOK
  <2>3. \A c \in Clients \ {Head(waiting)} : Unserved(c) => Unserved(c)'
    BY <2>1 DEF Unserved
  <2>4. /\ \A i, j \in DOMAIN waiting : waiting[i] = waiting[j] => i = j
        /\ \A i \in DOMAIN waiting : Unserved(waiting[i]) /\ waiting[i] # s2 /\ waiting[i] \in Clients
        /\ Head(waiting) # s2 /\ 1 \in DOMAIN waiting
    BY <1>0, <2>1, QueueTaken, QueueHolds DEF ServiceInv
  <2>5. /\ \A i, j \in DOMAIN waiting' : waiting'[i] = waiting'[j] => i = j
        /\ \A i \in DOMAIN waiting' : waiting'[i] # Head(waiting) /\ \E k \in DOMAIN waiting : waiting'[i] = waiting[k]
    BY <1>0, <2>1, <2>4, NotTwice
  <2>6. \A i \in DOMAIN waiting' : Unserved(waiting[i])' /\ waiting'[i] # s2'
    BY <2>1, <2>3, <2>4, <2>5
  <2>7. ServiceInv'
    BY <1>0, <2>1, <2>3, <2>4, <2>5, <2>6 DEF ServiceInv, CommandTypeOK
  <2> QED
    BY <1>0, <2>1, <2>2, <2>7 DEF AnswersFit
<1>4. CASE Receives
  <2>1. /\ up /\ commandPc = "recv" /\ commandPc' = "serve"
        /\ command' = request[s2] \o SubSeq(command, Len(request[s2]) + 1, Len(command))
        /\ UNCHANGED <<up, s2, waiting, clientPc, request, response>>
    BY <1>4 DEF Receives, CommandGoes
  <2>2. command = <<>> /\ request[s2] \in Seq(STRING)
    BY <1>0, <2>1 DEF ServiceInv, CommandTypeOK
  <2>3. SubSeq(command, Len(request[s2]) + 1, Len(command)) = <<>>
    <3>1. Len(<<>>) = 0 /\ Len(request[s2]) \in Nat
      BY <2>2
    <3>2. command = <<>> /\ Len(command) = 0 /\ Len(request[s2]) + 1 \in Int /\ 0 < Len(request[s2]) + 1
      BY <2>2, <3>1
    <3> QED
      BY <3>2, SubSeqEmpty
  <2>4. command' = request[s2]
    BY <2>1, <2>2, <2>3, ConcatEmptySeq
  <2> QED
    BY <1>0, <2>1, <2>4 DEF ServiceInv, AnswersFit, Unserved, CommandTypeOK
<1>5. CASE ReceivesNothing
  BY <1>0, <1>5, QueueHolds DEF ReceivesNothing, CommandGoes, CommandTypeOK, ServiceInv, AnswersFit, Unserved
<1>6. CASE Serves
  <2>1. /\ up /\ s2 # Nobody /\ command = request[s2] /\ s2' = Nobody /\ commandPc' = "accept"
        /\ UNCHANGED <<waiting, clientPc, request>>
    BY <1>0, <1>6 DEF Serves, CommandGoes, ServiceInv
  <2>2. response' = response \/ response' = [response EXCEPT ![s2] = AnswerTo(request[s2])]
    BY <1>6, <2>1 DEF Serves
  <2>3. \A c \in Clients \ {s2} : Unserved(c) => Unserved(c)'
    BY <1>0, <2>1, <2>2 DEF Unserved, CommandTypeOK
  <2>4. \A i \in DOMAIN waiting : waiting[i] \in Clients
    BY <1>0, QueueHolds
  <2>5. ServiceInv'
    BY <1>0, <2>1, <2>3, <2>4 DEF ServiceInv
  <2>6. AnswersFit'
    BY <1>0, <2>1, <2>2 DEF AnswersFit, CommandTypeOK
  <2> QED
    BY <1>0, <2>1, <2>2, <2>5, <2>6 DEF CommandTypeOK
<1> QED
  BY <1>1, <1>2, <1>3, <1>4, <1>5, <1>6 DEF CommandServer

(* The clients come, write, read, and are interrupted.                      *)
LEMMA ClientsStep ==
  ASSUME CommandInv, NEW c \in Clients, ClientStep(c) \/ ClientMayStep(c)
  PROVE  CommandInv'
<1>0. CommandTypeOK /\ ServiceInv /\ AnswersFit /\ waiting \in Seq(Clients) /\ Nobody \notin Clients
  BY CommandSocketAssumption DEF CommandInv, CommandTypeOK
<1> USE DEF CommandInv
<1>1. CASE Connects(c)
  <2>1. PICK r \in Requests : request' = [request EXCEPT ![c] = r]
    BY <1>1 DEF Connects
  <2>2. /\ clientPc[c] = "idle" /\ clientPc' = [clientPc EXCEPT ![c] = "writing"]
        /\ waiting' = Append(waiting, c) /\ response' = [response EXCEPT ![c] = Silent]
        /\ up /\ UNCHANGED <<up, commandPc, s2, command>>
    BY <1>1 DEF Connects, ClientGoes, serverVars
  <2>3. CommandTypeOK'
    BY <1>0, <2>1, <2>2, QueueAppended, CommandSocketAssumption DEF CommandTypeOK
  <2>4. /\ c # s2 /\ \A i \in DOMAIN waiting : waiting[i] # c
        /\ \A d \in Clients \ {c} : Unserved(d) => Unserved(d)'
        /\ Unserved(c)'
    BY <1>0, <2>2 DEF ServiceInv, Unserved, CommandTypeOK
  <2>5. ServiceInv'
    <3>1. \A i \in DOMAIN waiting' :
            \/ i \in DOMAIN waiting /\ waiting'[i] = waiting[i]
            \/ i = Len(waiting) + 1 /\ waiting'[i] = c
      BY <1>0, <2>2, QueueAppended
    <3>2. \A i, j \in DOMAIN waiting' : waiting'[i] = waiting'[j] => i = j
      BY <1>0, <3>1, <2>2, <2>4 DEF ServiceInv
    <3>3. \A i \in DOMAIN waiting' : Unserved(waiting[i])' /\ waiting'[i] # s2'
      <4>1. \A i \in DOMAIN waiting :
              \E d \in Clients : d = waiting[i] /\ Unserved(d)' /\ d # s2
        BY <1>0, <2>2, <2>4, QueueHolds DEF ServiceInv
      <4> QED
        BY <4>1, <3>1, <2>2, <2>4
    <3>4. s2 # Nobody => s2 \in Clients \ {c} /\ Unserved(s2)
      BY <1>0, <2>2, <2>4 DEF ServiceInv, CommandTypeOK
    <3>5. s2 # Nobody => Unserved(s2)' /\ request'[s2] = request[s2]
      BY <1>0, <2>1, <2>2, <2>4, <3>4 DEF CommandTypeOK
    <3> QED
      BY <1>0, <2>2, <3>2, <3>3, <3>5 DEF ServiceInv
  <2>6. AnswersFit'
    BY <1>0, <2>1, <2>2 DEF AnswersFit, CommandTypeOK
  <2> QED
    BY <2>3, <2>5, <2>6
<1>2. ASSUME NEW to \in {"reading", "gone", "idle"},
             clientPc' = [clientPc EXCEPT ![c] = to],
             UNCHANGED <<serverVars, waiting, request, response>>,
             to = "idle" /\ up => c # s2 /\ \A i \in DOMAIN waiting : waiting[i] # c
      PROVE  CommandInv'
  <2>1. \A d \in Clients : Unserved(d) /\ (d = c => to # "idle") => Unserved(d)'
    BY <1>0, <1>2 DEF Unserved, CommandTypeOK
  <2>2. \A i \in DOMAIN waiting : waiting[i] \in Clients
    BY <1>0, QueueHolds
  <2>3. ServiceInv'
    BY <1>0, <1>2, <2>1, <2>2 DEF ServiceInv, serverVars, CommandTypeOK
  <2> QED
    BY <1>0, <1>2, <2>3 DEF AnswersFit, serverVars, CommandTypeOK
<1>3. CASE Writes(c) \/ IsInterrupted(c)
  BY <1>2, <1>3 DEF Writes, IsInterrupted, ClientGoes
<1>4. CASE Reads(c)
  <2>1. up => ~Unserved(c)
    BY <1>4 DEF Reads, Unserved
  <2>2. up => c # s2 /\ \A i \in DOMAIN waiting : waiting[i] # c
    BY <1>0, <2>1 DEF ServiceInv
  <2> QED
    BY <1>2, <1>4, <2>2 DEF Reads, ClientGoes
<1>5. CASE IsForgotten(c)
  <2>1. \A i \in DOMAIN waiting : waiting[i] # c
    BY <1>0, <1>5, LenProperties DEF IsForgotten, Contains
  <2> QED
    BY <1>2, <1>5, <2>1 DEF IsForgotten, ClientGoes
<1> QED
  BY <1>1, <1>3, <1>4, <1>5 DEF ClientStep, ClientMayStep

(* The start of the program, and every other one.                           *)
LEMMA CommandStarts ==
  /\ CommandsStart => CommandInv
  /\ IsSwitchedOn => CommandInv'
<1> USE EmptySeq DEF CommandInv, CommandTypeOK, ServiceInv, AnswersFit, NoRequest
<1>1. CommandsStart => CommandInv
  BY DEF CommandsStart
<1>2. IsSwitchedOn => CommandInv'
  BY DEF IsSwitchedOn
<1> QED
  BY <1>1, <1>2

(* Whatever clients connect, are interrupted or forgotten, and however      *)
(* often the program is switched off: a client that has an answer has the   *)
(* one to its own request.                                                  *)
THEOREM NobodyGetsAnothersAnswer == CommandsSpec => []AnswersFit
<1>1. CommandInv /\ [CommandsNext]_commandVars => CommandInv'
  <2> SUFFICES ASSUME CommandInv, [CommandsNext]_commandVars PROVE CommandInv'
    OBVIOUS
  <2>1. CASE UNCHANGED commandVars
    BY <2>1 DEF commandVars, serverVars, CommandInv, CommandTypeOK, ServiceInv, AnswersFit, Unserved
  <2> QED
    BY <2>1, ServerStep, ClientsStep, CommandStarts DEF CommandsNext
<1>2. CommandInv => AnswersFit
  BY DEF CommandInv
<1> QED
  BY <1>1, <1>2, CommandStarts, PTL DEF CommandsSpec

-----------------------------------------------------------------------------
BtSteps == Infos \cup Preparations \cup {"devices", "trust", "pair"}
GoodNews == {"succeeded", "started"}

(* Types.                                                                   *)
BtTypeOK ==
  /\ btStep \in BtSteps /\ btSent \in BOOLEAN
  /\ commands \in Seq(BtSteps)

(* What has been asked and not been answered: no more than two, and the last is what was asked last. *)
LastAsked(step) == commands # <<>> => commands[Len(commands)] = step
OnlyInfosBefore == \A n \in 1 .. Len(commands) - 1 : commands[n] \in Infos
OnlyInfos == \A n \in 1 .. Len(commands) : commands[n] \in Infos

(* Who asks "info" twice may have one answer outstanding when it goes on.   *)
BehindInv ==
  /\ Len(commands) <= 2
  /\ btStep = "info" /\ btSent => LastAsked("info")
  /\ btStep = "info_before" /\ ~btSent => LastAsked("info")
  /\ btStep = "info_before" /\ btSent => OnlyInfos

(* A step of the preparation that goes well has succeeded: while its own    *)
(* answer is missing nothing good can have arrived since it was asked.      *)
PreparingInv ==
  \A i \in 1 .. 5 : btStep = Preparation[i] =>
    /\ \A j \in 1 .. i - 1 : Preparation[j] \in prepared
    /\ ~btSent => OnlyInfos /\ arrived \cap GoodNews = {}
    /\ btSent /\ commands # <<>> =>
         LastAsked(Preparation[i]) /\ OnlyInfosBefore /\ arrived \cap GoodNews = {}
    /\ btSent /\ commands = <<>> /\ arrived \cap GoodNews # {} => Preparation[i] \in prepared

BtInv == BtTypeOK /\ BehindInv /\ PreparingInv /\ PairsWhenReady

(* The five steps of preparation, by name.                                  *)
LEMMA FiveSteps ==
  /\ Preparation \in Seq(Preparations) /\ DOMAIN Preparation = 1 .. 5 /\ Len(Preparation) = 5
  /\ Preparation[1] = "power_on" /\ Preparation[2] = "system-alias" /\ Preparation[3] = "pairable_on"
  /\ Preparation[4] = "discoverable_on" /\ Preparation[5] = "scan_on"
  /\ Preparations = {"power_on", "system-alias", "pairable_on", "discoverable_on", "scan_on"}
<1>1. Preparation = <<"power_on", "system-alias", "pairable_on", "discoverable_on", "scan_on">>
  BY DEF Preparation
<1>2. /\ Len(Preparation) = 5 /\ DOMAIN Preparation = 1 .. 5
      /\ Preparation[1] = "power_on" /\ Preparation[2] = "system-alias" /\ Preparation[3] = "pairable_on"
      /\ Preparation[4] = "discoverable_on" /\ Preparation[5] = "scan_on"
  BY <1>1
<1>3. Preparations = {"power_on", "system-alias", "pairable_on", "discoverable_on", "scan_on"}
  BY <1>2 DEF Preparations
<1>4. Preparation \in Seq({"power_on", "system-alias", "pairable_on", "discoverable_on", "scan_on"})
  BY <1>1
<1> QED
  BY <1>2, <1>3, <1>4

(* No step of the preparation comes twice.                                  *)
LEMMA StepsDiffer ==
  ASSUME NEW i \in 1 .. 5, NEW j \in 1 .. 5, Preparation[i] = Preparation[j]
  PROVE  i = j
<1>1. i \in {1, 2, 3, 4, 5} /\ j \in {1, 2, 3, 4, 5}
  OBVIOUS
<1> QED
  BY <1>1, FiveSteps

(* Nothing has been asked when the thread begins.                           *)
LEMMA BtInitInv == BtInit => BtInv
<1> SUFFICES ASSUME BtInit PROVE BtInv
  OBVIOUS
<1>1. commands = <<>> /\ Len(commands) = 0 /\ btStep = "info" /\ ~btSent /\ btSent \in BOOLEAN
  BY DEF BtInit
<1>2. \A i \in 1 .. 5 : Preparation[i] # "info"
  BY FiveSteps
<1>3. commands \in Seq(BtSteps) /\ "info" \in BtSteps
  BY <1>1 DEF BtSteps, Infos
<1> QED
  BY <1>1, <1>2, <1>3 DEF BtInv, BtTypeOK, BehindInv, PreparingInv, PairsWhenReady

(* The queue of commands. *)
LEMMA CommandAsked ==
  ASSUME NEW s \in Seq(BtSteps), NEW c \in BtSteps
  PROVE  /\ Append(s, c) \in Seq(BtSteps) /\ Append(s, c) # <<>> /\ Len(Append(s, c)) = Len(s) + 1
         /\ Append(s, c)[Len(s) + 1] = c
         /\ \A n \in 1 .. Len(s) : Append(s, c)[n] = s[n]
BY AppendProperties

(* The first of what was asked is answered first.                           *)
LEMMA CommandAnswered ==
  ASSUME NEW s \in Seq(BtSteps), s # <<>>
  PROVE  /\ Tail(s) \in Seq(BtSteps) /\ Len(Tail(s)) = Len(s) - 1 /\ Head(s) = s[1] /\ Head(s) \in BtSteps
         /\ Len(s) >= 1 /\ \A n \in 1 .. Len(s) - 1 : Tail(s)[n] = s[n + 1]
BY HeadTailProperties

(* An answer counts for what was asked first, though the thread takes it    *)
(* for that of what it asked last.                                          *)
LEMMA AnsweredInv == BtInv /\ BtAnswers => BtInv'
<1> SUFFICES ASSUME BtInv, BtAnswers PROVE BtInv'
  OBVIOUS
<1>1. PICK text \in Answers(Head(commands)) :
        /\ arrived' = arrived \cup {text}
        /\ prepared' = IF Head(commands) \in Preparations /\ text \in {"succeeded", "started"}
                       THEN prepared \cup {Head(commands)} ELSE prepared
  BY DEF BtAnswers
<1>2. /\ commands # <<>> /\ commands' = Tail(commands) /\ btStep' = btStep /\ btSent' = btSent
      /\ commands \in Seq(BtSteps) /\ btStep \in BtSteps /\ btSent \in BOOLEAN
  BY DEF BtAnswers, BtInv, BtTypeOK
<1>3. /\ commands' \in Seq(BtSteps) /\ Len(commands') = Len(commands) - 1
      /\ Head(commands) = commands[1] /\ commands[1] \in BtSteps
      /\ Len(commands) \in Nat /\ Len(commands) >= 1
      /\ \A n \in 1 .. Len(commands) - 1 : commands'[n] = commands[n + 1]
  BY <1>2, CommandAnswered
<1>4. commands' # <<>> => Len(commands') >= 1 /\ commands'[Len(commands')] = commands[Len(commands)]
  BY <1>3
<1>5. BtTypeOK'
  BY <1>2, <1>3 DEF BtTypeOK
<1>6. BehindInv'
  <2>1. Len(commands) <= 2 /\ Len(commands') <= 2
    BY <1>3 DEF BtInv, BehindInv
  <2>2. ASSUME NEW c, LastAsked(c) PROVE LastAsked(c)'
    BY <1>2, <1>4, <2>2 DEF LastAsked
  <2>3. OnlyInfos => OnlyInfos'
    BY <1>3 DEF OnlyInfos
  <2> QED
    BY <1>2, <2>1, <2>2, <2>3 DEF BtInv, BehindInv
<1>7. prepared \subseteq prepared'
  BY <1>1
<1>8. PreparingInv'
  <2> SUFFICES ASSUME NEW i \in 1 .. 5, btStep = Preparation[i]
               PROVE  /\ \A j \in 1 .. i - 1 : Preparation[j] \in prepared'
                      /\ ~btSent => OnlyInfos' /\ arrived' \cap GoodNews = {}
                      /\ btSent /\ commands' # <<>> =>
                           LastAsked(Preparation[i])' /\ OnlyInfosBefore' /\ arrived' \cap GoodNews = {}
                      /\ btSent /\ commands' = <<>> /\ arrived' \cap GoodNews # {} => Preparation[i] \in prepared'
    BY <1>2 DEF PreparingInv
  <2>1. /\ \A j \in 1 .. i - 1 : Preparation[j] \in prepared
        /\ ~btSent => OnlyInfos /\ arrived \cap GoodNews = {}
        /\ btSent => LastAsked(Preparation[i]) /\ OnlyInfosBefore /\ arrived \cap GoodNews = {}
    BY <1>2 DEF BtInv, PreparingInv
  <2>2. Head(commands) \in Infos => text \notin GoodNews
    BY <1>1 DEF Answers, GoodNews, Infos
  <2>3. CASE ~btSent
    BY <2>1, <2>2, <2>3, <1>1, <1>3, <1>7 DEF OnlyInfos
  <2>4. CASE btSent /\ commands' # <<>>
    <3>1. Head(commands) \in Infos
      BY <2>1, <2>4, <1>3, <1>4 DEF OnlyInfosBefore
    <3>2. OnlyInfosBefore'
      BY <2>1, <2>4, <1>3 DEF OnlyInfosBefore
    <3>3. LastAsked(Preparation[i])'
      BY <2>1, <2>4, <1>2, <1>4 DEF LastAsked
    <3>4. arrived' \cap GoodNews = {}
      BY <3>1, <2>1, <2>2, <2>4, <1>1
    <3> QED
      BY <3>2, <3>3, <3>4, <2>1, <2>4, <1>7
  <2>5. CASE btSent /\ commands' = <<>>
    <3>1. Head(commands) = Preparation[i]
      <4>1. Len(commands') = 0
        BY <2>5
      <4> QED
        BY <4>1, <2>1, <2>5, <1>2, <1>3 DEF LastAsked
    <3>2. arrived' \cap GoodNews # {} => text \in GoodNews
      BY <2>1, <2>5, <1>1
    <3>3. Preparation[i] \in Preparations
      BY FiveSteps
    <3>4. arrived' \cap GoodNews # {} => Preparation[i] \in prepared'
      BY <3>1, <3>2, <3>3, <1>1 DEF GoodNews
    <3> QED
      BY <3>4, <2>1, <2>5, <1>7
  <2> QED
    BY <2>3, <2>4, <2>5, <1>2
<1>9. PairsWhenReady'
  BY <1>2, <1>7 DEF BtInv, PairsWhenReady
<1> QED
  BY <1>5, <1>6, <1>8, <1>9 DEF BtInv

(* The thread asks. *)
LEMMA AsksInv == MaxBehind <= 2 /\ BtInv /\ BtSends => BtInv'
<1> SUFFICES ASSUME MaxBehind <= 2, BtInv, BtSends PROVE BtInv'
  OBVIOUS
<1>1. /\ ~btSent /\ btSent' = TRUE /\ btStep' = btStep /\ arrived' = arrived /\ prepared' = prepared
      /\ commands' = Append(commands, btStep) /\ Len(commands) < MaxBehind
      /\ commands \in Seq(BtSteps) /\ btStep \in BtSteps
  BY DEF BtSends, BtInv, BtTypeOK
<1>2. /\ commands' \in Seq(BtSteps) /\ commands' # <<>> /\ Len(commands') = Len(commands) + 1
      /\ commands'[Len(commands')] = btStep /\ \A n \in 1 .. Len(commands) : commands'[n] = commands[n]
  BY <1>1, CommandAsked
<1>3. Len(commands) \in {0, 1}
  <2>1. Len(commands) \in Nat
    BY <1>1, LenProperties
  <2>2. MaxBehind \in Nat /\ MaxBehind <= 2
    BY BluetoothAssumption
  <2>3. Len(commands) < MaxBehind
    BY <1>1
  <2> DEFINE n == Len(commands)
  <2>4. n \in Nat /\ n < 2
    BY <2>1, <2>2, <2>3
  <2> HIDE DEF n
  <2>5. n \in {0, 1}
    BY <2>4
  <2> QED
    BY <2>5 DEF n
<1>4. BtTypeOK'
  BY <1>1, <1>2 DEF BtTypeOK
<1>5. BehindInv'
  <2>1. Len(commands') <= 2
    BY <1>2, <1>3
  <2>2. LastAsked(btStep)'
    BY <1>1, <1>2 DEF LastAsked
  <2>3. CASE btStep = "info_before"
    <3>1. \A n \in 1 .. Len(commands') : commands'[n] \in Infos
      <4>1. CASE Len(commands) = 0
        BY <4>1, <1>2, <2>3 DEF Infos
      <4>2. CASE Len(commands) = 1
        <5>1. commands # <<>> /\ commands[1] = "info"
          BY <4>2, <2>3, <1>1 DEF BtInv, BehindInv, LastAsked
        <5>2. commands'[1] = "info" /\ commands'[2] = "info_before" /\ Len(commands') = 2
          BY <5>1, <4>2, <1>2, <2>3
        <5> QED
          BY <5>2 DEF Infos
      <4> QED
        BY <4>1, <4>2, <1>3
    <3> QED
      BY <3>1, <2>1, <2>3, <1>1 DEF BehindInv, OnlyInfos
  <2>4. CASE btStep # "info_before"
    BY <2>1, <2>2, <2>4, <1>1 DEF BehindInv, LastAsked
  <2> QED
    BY <2>3, <2>4
<1>6. PreparingInv'
  <2> SUFFICES ASSUME NEW i \in 1 .. 5, btStep = Preparation[i]
               PROVE  /\ \A j \in 1 .. i - 1 : Preparation[j] \in prepared
                      /\ LastAsked(Preparation[i])' /\ OnlyInfosBefore' /\ arrived \cap GoodNews = {}
    BY <1>1, <1>2 DEF PreparingInv
  <2>1. (\A j \in 1 .. i - 1 : Preparation[j] \in prepared) /\ OnlyInfos /\ arrived \cap GoodNews = {}
    BY <1>1 DEF BtInv, PreparingInv
  <2>2. LastAsked(Preparation[i])'
    BY <1>1, <1>2 DEF LastAsked
  <2>3. OnlyInfosBefore'
    BY <1>2, <1>3, <2>1 DEF OnlyInfosBefore, OnlyInfos
  <2> QED
    BY <2>1, <2>2, <2>3
<1>7. PairsWhenReady'
  BY <1>1 DEF BtInv, PairsWhenReady
<1> QED
  BY <1>4, <1>5, <1>6, <1>7 DEF BtInv

(* What the step that is left says of the next. *)
LEMMA LooksInv == BtInv /\ (BtLooks \/ BtLooksBefore \/ BtLooksAfter) => BtInv'
<1> SUFFICES ASSUME BtInv, BtLooks \/ BtLooksBefore \/ BtLooksAfter PROVE BtInv'
  OBVIOUS
<1>1. /\ btSent /\ btSent' = FALSE /\ arrived' = {} /\ commands' = commands /\ commands \in Seq(BtSteps)
  BY DEF BtLooks, BtLooksBefore, BtLooksAfter, Received, BtInv, BtTypeOK
<1>2. \A i \in 1 .. 5 : Preparation[i] \notin Infos
  BY FiveSteps DEF Infos
<1>3. Len(commands) <= 2
  BY DEF BtInv, BehindInv
<1>4. CASE BtLooks
  <2>1. btStep = "info" /\ btStep' \in {"info", "info_before"}
    BY <1>4 DEF BtLooks, Received
  <2>2. LastAsked("info")'
    BY <1>1, <2>1 DEF BtInv, BehindInv, LastAsked
  <2>3. BtTypeOK' /\ BehindInv' /\ PreparingInv' /\ PairsWhenReady'
    BY <1>1, <1>2, <1>3, <2>1, <2>2
       DEF BtTypeOK, BtSteps, Infos, BehindInv, PreparingInv, PairsWhenReady
  <2> QED
    BY <2>3 DEF BtInv
<1>5. CASE BtLooksBefore
  <2>1. btStep = "info_before" /\ btStep' \in {"info", "power_on"}
    BY <1>5, FiveSteps DEF BtLooksBefore, Received
  <2>2. OnlyInfos'
    BY <1>1, <2>1 DEF BtInv, BehindInv, OnlyInfos
  <2>3. BtTypeOK' /\ BehindInv' /\ PairsWhenReady'
    BY <1>1, <1>2, <1>3, <2>1, FiveSteps DEF BtTypeOK, BtSteps, Infos, BehindInv, PairsWhenReady
  <2>4. PreparingInv'
    <3> SUFFICES ASSUME NEW i \in 1 .. 5, btStep' = Preparation[i]
                 PROVE  \A j \in 1 .. i - 1 : Preparation[j] \in prepared'
      BY <1>1, <2>2 DEF PreparingInv
    <3>1. i = 1
      BY <2>1, FiveSteps
    <3> QED
      BY <3>1
  <2> QED
    BY <2>3, <2>4 DEF BtInv
<1>6. CASE BtLooksAfter
  <2>1. btStep' = "info"
    BY <1>6 DEF BtLooksAfter
  <2>2. BtTypeOK' /\ BehindInv' /\ PreparingInv' /\ PairsWhenReady'
    BY <1>1, <1>2, <1>3, <2>1 DEF BtTypeOK, BtSteps, Infos, BehindInv, PreparingInv, PairsWhenReady
  <2> QED
    BY <2>2 DEF BtInv
<1> QED
  BY <1>4, <1>5, <1>6

(* A step of the preparation went well if its own answer has come.          *)
LEMMA PreparesInv == BtInv /\ BtPrepares => BtInv'
<1> SUFFICES ASSUME BtInv, NEW i \in 1 .. 5, Received(Preparation[i]), prepared' = prepared,
                    IF WentWell(i)
                    THEN btStep' \in IF i < Len(Preparation) THEN {Preparation[i + 1]} ELSE {"devices", "trust"}
                    ELSE btStep' = "info"
             PROVE  BtInv'
  BY FiveSteps DEF BtPrepares
<1>1. /\ btSent /\ btSent' = FALSE /\ arrived' = {} /\ commands' = commands /\ commands \in Seq(BtSteps)
      /\ btStep = Preparation[i] /\ Len(commands) <= 2
  BY DEF Received, BtInv, BtTypeOK, BehindInv
<1>2. \A j \in 1 .. 5 : /\ Preparation[j] \in BtSteps
                        /\ Preparation[j] \notin {"info", "info_before", "devices", "trust", "pair"}
  BY FiveSteps DEF BtSteps
<1>3. CASE ~WentWell(i)
  BY <1>1, <1>2, <1>3 DEF BtInv, BtTypeOK, BtSteps, Infos, BehindInv, PreparingInv, PairsWhenReady
<1>4. CASE WentWell(i)
  <2>1. arrived \cap GoodNews # {}
    BY <1>4 DEF WentWell, GoodNews
  <2>2. commands = <<>> /\ \A j \in 1 .. i : Preparation[j] \in prepared
    BY <1>1, <2>1 DEF BtInv, PreparingInv
  <2>3. CASE i < 5
    <3>1. btStep' = Preparation[i + 1] /\ i + 1 \in 1 .. 5
      BY <1>4, <2>3, FiveSteps
    <3>2. BtTypeOK' /\ BehindInv' /\ PairsWhenReady'
      BY <1>1, <1>2, <3>1 DEF BtTypeOK, BehindInv, PairsWhenReady
    <3>3. ASSUME NEW j \in 1 .. 5, btStep' = Preparation[j] PROVE j = i + 1
      BY <3>1, <3>3, StepsDiffer
    <3>4. OnlyInfos'
      BY <1>1, <2>2 DEF OnlyInfos
    <3>5. PreparingInv'
      BY <1>1, <2>2, <3>1, <3>3, <3>4 DEF PreparingInv
    <3> QED
      BY <3>2, <3>5 DEF BtInv
  <2>4. CASE i = 5
    <3>1. btStep' \in {"devices", "trust"} /\ Preparations \subseteq prepared'
      BY <1>4, <2>2, <2>4, FiveSteps
    <3> QED
      BY <1>1, <1>2, <3>1 DEF BtInv, BtTypeOK, BtSteps, Infos, BehindInv, PreparingInv, PairsWhenReady
  <2> QED
    BY <2>3, <2>4
<1> QED
  BY <1>3, <1>4

(* A device is found, trusted and paired with.                              *)
LEMMA PairsInv == BtInv /\ (BtFindsDevice \/ BtPairs) => BtInv'
<1> SUFFICES ASSUME BtInv, BtFindsDevice \/ BtPairs PROVE BtInv'
  OBVIOUS
<1>1. /\ btSent /\ btSent' = FALSE /\ commands' = commands /\ commands \in Seq(BtSteps)
      /\ btStep \in {"devices", "trust", "pair"} /\ btStep' \in {"trust", "pair", "info", "info_after"}
      /\ prepared' = prepared /\ Len(commands) <= 2
  BY DEF BtFindsDevice, BtPairs, Received, BtInv, BtTypeOK, BehindInv
<1>2. \A j \in 1 .. 5 : Preparation[j] \notin {"info", "info_after", "devices", "trust", "pair"}
  BY FiveSteps
<1> QED
  BY <1>1, <1>2 DEF BtInv, BtTypeOK, BtSteps, Infos, BehindInv, PreparingInv, PairsWhenReady

(* Events, and the menu, say nothing of the preparation.                    *)
LEMMA ElsewhereInv == BtInv /\ (BtTellsEvent \/ MenuSetsPairNow \/ UNCHANGED btVars) => BtInv'
<1> SUFFICES ASSUME BtInv, BtTellsEvent \/ MenuSetsPairNow \/ UNCHANGED btVars PROVE BtInv'
  OBVIOUS
<1>1. /\ btSent' = btSent /\ btStep' = btStep /\ commands' = commands /\ prepared' = prepared
      /\ arrived' \cap GoodNews = arrived \cap GoodNews
  BY DEF BtTellsEvent, MenuSetsPairNow, btVars, GoodNews
<1>2. BtTypeOK' /\ BehindInv' /\ PairsWhenReady'
  BY <1>1 DEF BtInv, BtTypeOK, BehindInv, PairsWhenReady, LastAsked, OnlyInfos
<1>3. PreparingInv'
  BY <1>1 DEF BtInv, PreparingInv, LastAsked, OnlyInfos, OnlyInfosBefore
<1> QED
  BY <1>2, <1>3 DEF BtInv

(* The thread trusts and pairs only when all five steps of the preparation  *)
(* have succeeded, provided bluetoothctl is never more than two answers     *)
(* behind: with three, the answer to a step can be taken for that to the    *)
(* next.                                                                    *)
THEOREM PairsOnlyWhenReady == ASSUME MaxBehind <= 2 PROVE BtSpec => []PairsWhenReady
<1>1. BtInv /\ [BtNext]_btVars => BtInv'
  BY AnsweredInv, AsksInv, LooksInv, PreparesInv, PairsInv, ElsewhereInv DEF BtNext, BtThread
<1>2. BtInv => PairsWhenReady
  BY DEF BtInv
<1> QED
  BY BtInitInv, <1>1, <1>2, PTL DEF BtSpec

-----------------------------------------------------------------------------
(* The keypad.  A press that is alone has the only counter that runs, and it  *)
(* has run since the press began; what came of the press is what came of the  *)
(* counter.                                                                 *)
KeyNumbers == 0 .. KEYS_NO - 1

Presses == [key : KeyNumbers, alone : BOOLEAN, held : Nat, short : Nat, long : Nat, ended : BOOLEAN]

AsHeld == press.long = IF press.held < THRESHOLD1 THEN 0 ELSE 1

PressInv ==
  /\ keysDown \subseteq KeyNumbers
  /\ G_key_interval_ctr \in [KeyNumbers -> Nat]
  /\ press \in Presses
  /\ press.alone /\ press.held < CounterLimit =>
       /\ AsHeld
       /\ IF press.ended
          THEN press.short = IF press.held < THRESHOLD1 THEN 1 ELSE 0
          ELSE /\ G_key_interval_ctr[press.key] = press.held /\ press.held > 0
               /\ \A key \in KeyNumbers \ {press.key} : G_key_interval_ctr[key] = 0
               /\ press.short = 0
               /\ press.held < THRESHOLD1 => prev_keyboard_state = {}
               /\ dispatched \in {{}, LongCode(press.key)}

(* The bytes: a long event is not a short one, and neither is none.           *)
LEMMA CodesDiffer ==
  ASSUME NEW key \in 0 .. 7
  PROVE  LongCode(key) # {} /\ LongCode(key) # ShortCode(key) /\ LongCode(key) \subseteq 0 .. 7
<1>1. LongCode(key) = {n \in 0 .. 7 : n \in {key, 7} <=> \E lower \in 0 .. n - 1 : lower \notin {key, 7}}
  BY DEF LongCode, WithLong, PlusOne
<1>2. 7 \in LongCode(key)
  <2>1. \E lower \in 0 .. 6 : lower \notin {key, 7}
    <3>1. CASE key = 0
      BY <3>1
    <3>2. CASE key # 0
      BY <3>2
    <3> QED
      BY <3>1, <3>2
  <2>2. 7 - 1 = 6 /\ 7 \in 0 .. 7
    OBVIOUS
  <2> QED
    BY <1>1, <2>1, <2>2
<1>3. key = 7 => 0 \in LongCode(key)
  BY <1>1
<1> QED
  BY <1>1, <1>2, <1>3 DEF ShortCode

(* The keymap is made key by key.                                           *)
LEMMA KeyMapIs ==
  /\ KeyMapUpTo[0] = {}
  /\ \A n \in 1 .. KEYS_NO : KeyMapUpTo[n] = WithKey(KeyMapUpTo[n - 1], n - 1)
<1> DEFINE V == SUBSET (0 .. 7)
           step == [n \in 1 .. KEYS_NO |-> [b \in V |-> WithKey(b, n - 1)]]
           Def(g) == [n \in 0 .. KEYS_NO |-> IF n = 0 THEN {} ELSE WithKey(g[n - 1], n - 1)]
<1>0. KEYS_NO \in Nat /\ \A n \in 1 .. KEYS_NO : n - 1 \in 0 .. 7
  BY KeyboardAssumption
<1>1. \A b \in V : \A key \in 0 .. 7 : WithKey(b, key) \in V
  BY DEF WithKey, WithLong, PlusOne, ShortCode
<1>2. step \in [1 .. KEYS_NO -> [V -> V]]
  BY <1>0, <1>1
<1>3. PICK g \in [0 .. KEYS_NO -> V] : g[0] = {} /\ \A n \in 1 .. KEYS_NO : g[n] = step[n][g[n - 1]]
  <2>1. StepsDefine(KEYS_NO, V) /\ {} \in V
    BY <1>0, Recursion
  <2> HIDE DEF step, V
  <2> QED
    BY <1>2, <2>1 DEF StepsDefine
<1>4. g = Def(g)
  <2>1. ASSUME NEW n \in 1 .. KEYS_NO PROVE step[n][g[n - 1]] = WithKey(g[n - 1], n - 1)
    <3>1. g[n - 1] \in V
      BY <1>0
    <3> HIDE DEF V
    <3> QED
      BY <3>1
  <2> HIDE DEF step
  <2> QED
    BY <1>0, <1>3, <2>1
<1>5. KeyMapUpTo = CHOOSE h : h = Def(h)
  BY DEF KeyMapUpTo
<1>6. KeyMapUpTo = Def(KeyMapUpTo)
  <2> HIDE DEF Def
  <2> QED
    BY <1>4, <1>5
<1>7. KeyMapUpTo[0] = {}
  BY <1>0, <1>6
<1>8. ASSUME NEW n \in 1 .. KEYS_NO PROVE KeyMapUpTo[n] = WithKey(KeyMapUpTo[n - 1], n - 1)
  <2>1. n \in 0 .. KEYS_NO /\ n # 0
    BY <1>0
  <2>2. Def(KeyMapUpTo)[n] = WithKey(KeyMapUpTo[n - 1], n - 1)
    BY <2>1
  <2> HIDE DEF Def
  <2> QED
    BY <1>6, <2>2
<1> QED
  BY <1>7, <1>8

(* What one key tells, and that it is all if the others tell nothing.         *)
Told(key) ==
  IF key \in keysDown THEN IF LongDue(Counted(key)) THEN LongCode(key) ELSE {}
                      ELSE IF ShortDue(key) THEN ShortCode(key) ELSE {}

Still(key) == key \notin keysDown /\ G_key_interval_ctr[key] = 0

LEMMA OnlyKey ==
  ASSUME NEW key \in KeyNumbers, \A other \in KeyNumbers \ {key} : Still(other)
  PROVE  KeyMap = Told(key)
<1> DEFINE T == {n \in 0 .. KEYS_NO : KeyMapUpTo[n] = IF n <= key THEN {} ELSE Told(key)}
<1>0. KEYS_NO \in Nat /\ key \in 0 .. KEYS_NO - 1
  BY KeyboardAssumption DEF KeyNumbers
<1>1. 0 \in T
  BY <1>0, KeyMapIs
<1>2. ASSUME NEW n \in 0 .. KEYS_NO - 1, n \in T PROVE n + 1 \in T
  <2>0. n + 1 \in 1 .. KEYS_NO /\ (n + 1) - 1 = n /\ n \in KeyNumbers
    BY <1>0 DEF KeyNumbers
  <2>1. KeyMapUpTo[n + 1] = WithKey(KeyMapUpTo[n], n)
    BY <2>0, KeyMapIs
  <2>2. CASE n = key
    <3>1. KeyMapUpTo[n] = {}
      BY <1>0, <1>2, <2>2
    <3>2. WithKey({}, key) = Told(key)
      BY DEF WithKey, Told, LongCode, ShortCode
    <3> QED
      BY <1>0, <2>0, <2>1, <2>2, <3>1, <3>2
  <2>3. CASE n # key
    <3>1. Still(n)
      BY <2>0, <2>3
    <3>2. WithKey(KeyMapUpTo[n], n) = KeyMapUpTo[n]
      BY <3>1 DEF Still, WithKey, ShortDue
    <3> QED
      BY <1>0, <1>2, <2>0, <2>1, <2>3, <3>2
  <2> QED
    BY <2>2, <2>3
<1> HIDE DEF T
<1>3. KEYS_NO \in T
  BY <1>0, <1>1, <1>2, InductionUpTo
<1> QED
  BY <1>0, <1>3 DEF T, KeyMap

(* The press that is followed before a scan: begun by it, or before it.       *)
Begins(now) ==
  /\ now.held = G_key_interval_ctr[now.key] /\ now.short = 0
  /\ now.long = IF now.held < THRESHOLD1 THEN 0 ELSE 1
  /\ now.held < THRESHOLD1 /\ now.held > 0 => prev_keyboard_state = {}
  /\ now.held = 0 => now.key \in keysDown

(* What one scan makes of it, if it stays alone.                             *)
LEMMA OneScan ==
  ASSUME PressInv, NEW now \in Presses, Begins(now), Scan,
         \A other \in KeyNumbers \ {now.key} : Still(other),
         press'.key = now.key,
         press'.held = IF now.key \in keysDown /\ now.held < CounterLimit THEN now.held + 1 ELSE now.held,
         press'.short = IF dispatched' = ShortCode(now.key) /\ now.short < 2
                          THEN now.short + 1 ELSE now.short,
         press'.long = IF dispatched' = LongCode(now.key) THEN 1 ELSE now.long,
         press'.ended <=> now.key \notin keysDown,
         press'.held < CounterLimit
  PROVE  /\ AsHeld'
         /\ IF press'.ended
            THEN press'.short = IF press'.held < THRESHOLD1 THEN 1 ELSE 0
            ELSE /\ G_key_interval_ctr'[press'.key] = press'.held /\ press'.held > 0
                 /\ \A key \in KeyNumbers \ {press'.key} : G_key_interval_ctr'[key] = 0
                 /\ press'.short = 0
                 /\ press'.held < THRESHOLD1 => prev_keyboard_state' = {}
                 /\ dispatched' \in {{}, LongCode(press'.key)}
<1> DEFINE key == now.key
<1>0. /\ key \in KeyNumbers /\ key \in 0 .. 7 /\ now.held \in Nat
      /\ THRESHOLD1 \in Nat /\ 1 < THRESHOLD1 /\ CounterLimit \in Nat /\ CounterLimit > 0
      /\ THRESHOLD2 \in Nat /\ THRESHOLD3 \in Nat /\ THRESHOLD1 < THRESHOLD2 /\ THRESHOLD2 < THRESHOLD3
  BY KeyboardAssumption DEF Presses, KeyNumbers
<1>1. LongCode(key) # {} /\ LongCode(key) # ShortCode(key) /\ ShortCode(key) # {}
  BY <1>0, CodesDiffer DEF ShortCode
<1>2. KeyMap = Told(key)
  BY <1>0, OnlyKey
<1>3. /\ prev_keyboard_state' = Told(key)
      /\ dispatched' = IF Told(key) # prev_keyboard_state THEN Told(key) ELSE {}
      /\ \A k \in KeyNumbers : G_key_interval_ctr'[k] = Counted(k)
  BY <1>2 DEF Scan, KeyNumbers
<1>4. \A other \in KeyNumbers \ {key} : G_key_interval_ctr'[other] = 0
  BY <1>3 DEF Still, Counted
<1>5. CASE key \in keysDown
  <2>1. press'.held = now.held + 1 /\ now.held + 1 < CounterLimit
    BY <1>0, <1>5
  <2>2. Counted(key) = now.held + 1
    BY <1>0, <1>5, <2>1 DEF Counted, Begins
  <2>3. CASE now.held + 1 < THRESHOLD1
    <3>1. ~LongDue(now.held + 1)
      BY <1>0, <2>3 DEF LongDue
    <3>2. Told(key) = {}
      BY <1>5, <2>2, <3>1 DEF Told
    <3>3. dispatched' = {} /\ prev_keyboard_state' = {}
      BY <1>3, <3>2
    <3>4. press'.short = 0 /\ press'.long = 0
      BY <1>0, <1>1, <2>3, <3>3 DEF Begins
    <3>5. ~press'.ended /\ press'.held > 0 /\ press'.held < THRESHOLD1
          /\ G_key_interval_ctr'[press'.key] = press'.held
      BY <1>0, <1>3, <1>5, <2>1, <2>2, <2>3
    <3> QED
      BY <1>4, <3>3, <3>4, <3>5 DEF AsHeld
  <2>4. CASE now.held + 1 = THRESHOLD1
    <3>1. LongDue(now.held + 1)
      BY <2>4 DEF LongDue
    <3>2. Told(key) = LongCode(key)
      BY <1>5, <2>2, <3>1 DEF Told
    <3>3. prev_keyboard_state = {}
      BY <1>0, <2>4 DEF Begins
    <3>4. dispatched' = LongCode(key)
      BY <1>1, <1>3, <3>2, <3>3
    <3>5. press'.short = 0 /\ press'.long = 1
      BY <1>1, <3>4 DEF Begins
    <3> QED
      BY <1>0, <1>3, <1>4, <1>5, <2>1, <2>2, <2>4, <3>4, <3>5 DEF AsHeld
  <2>5. CASE now.held >= THRESHOLD1
    <3>1. Told(key) \in {{}, LongCode(key)}
      BY <1>5 DEF Told
    <3>2. dispatched' \in {{}, LongCode(key)}
      BY <1>3, <3>1
    <3>3. press'.short = 0 /\ press'.long = 1
      BY <1>0, <1>1, <2>5, <3>2 DEF Begins
    <3> QED
      BY <1>0, <1>3, <1>4, <1>5, <2>1, <2>2, <2>5, <3>2, <3>3 DEF AsHeld
  <2> QED
    BY <1>0, <2>3, <2>4, <2>5
<1>6. CASE key \notin keysDown
  <2>1. press'.held = now.held /\ now.held > 0
    BY <1>0, <1>6 DEF Begins
  <2>2. CASE now.held < THRESHOLD1
    <3>1. Told(key) = ShortCode(key)
      BY <1>6, <2>1, <2>2 DEF Told, ShortDue, Begins
    <3>2. dispatched' = ShortCode(key)
      BY <1>1, <1>3, <2>1, <2>2, <3>1 DEF Begins
    <3>3. press'.short = 1 /\ press'.long = 0 /\ press'.held < THRESHOLD1 /\ press'.ended
      BY <1>1, <1>6, <2>1, <2>2, <3>2 DEF Begins
    <3> QED
      BY <3>3 DEF AsHeld
  <2>3. CASE now.held >= THRESHOLD1
    <3>1. Told(key) = {}
      BY <1>0, <1>6, <2>3 DEF Told, ShortDue, Begins
    <3>2. dispatched' = {}
      BY <1>3, <3>1
    <3>3. press'.short = 0 /\ press'.long = 1 /\ ~(press'.held < THRESHOLD1) /\ press'.ended
      BY <1>0, <1>1, <1>6, <2>1, <2>3, <3>2 DEF Begins
    <3> QED
      BY <3>3 DEF AsHeld
  <2> QED
    BY <1>0, <2>2, <2>3
<1> QED
  BY <1>5, <1>6

(* Every scan.                                                              *)
LEMMA PressScanned == PressInv /\ Scan => PressInv'
<1> SUFFICES ASSUME PressInv, Scan PROVE PressInv'
  OBVIOUS
<1> DEFINE busy == {key \in KeyNumbers : key \in keysDown \/ G_key_interval_ctr[key] > 0}
           begun == keysDown \ {key \in keysDown : G_key_interval_ctr[key] > 0}
           first == CHOOSE key \in begun : TRUE
           fresh == Pressed(first)
           now == IF press.ended /\ begun # {} THEN fresh ELSE press
<1>1. keysDown' \subseteq KeyNumbers /\ G_key_interval_ctr' \in [KeyNumbers -> Nat]
  <2>1. \A key \in KeyNumbers : Counted(key) \in Nat
    BY KeyboardAssumption DEF Counted, PressInv
  <2> QED
    BY <2>1 DEF PressInv, Scan, KeyNumbers
<1>2. begun # {} => first \in begun /\ first \in KeyNumbers /\ G_key_interval_ctr[first] = 0 /\ first \in keysDown
  BY DEF PressInv
<1>3. begun # {} => /\ fresh \in Presses /\ fresh.key = first /\ ~fresh.ended
                    /\ fresh.held = 0 /\ fresh.short = 0 /\ fresh.long = 0
  <2> HIDE DEF first, begun
  <2> QED
    BY <1>2 DEF Presses, Pressed
<1>4. now \in Presses
  BY <1>3 DEF PressInv
<1>5. press' = IF now.ended THEN now
               ELSE [now EXCEPT !.alone = now.alone /\ busy = {now.key},
                                !.held = IF now.key \in keysDown /\ @ < CounterLimit THEN @ + 1 ELSE @,
                                !.short = IF dispatched' = ShortCode(now.key) /\ @ < 2 THEN @ + 1 ELSE @,
                                !.long = IF dispatched' = LongCode(now.key) THEN 1 ELSE @,
                                !.ended = now.key \notin keysDown]
  BY DEF Scan, Followed, KeyNumbers
<1>6. CASE now.ended
  <2>1. now = press
    BY <1>3, <1>6
  <2> QED
    BY <1>1, <1>5, <1>6, <2>1 DEF PressInv, AsHeld
<1>7. CASE ~now.ended
  <2> HIDE DEF busy, now
  <2>1. /\ press'.key = now.key
        /\ press'.alone <=> now.alone /\ busy = {now.key}
        /\ press'.held = IF now.key \in keysDown /\ now.held < CounterLimit THEN now.held + 1 ELSE now.held
        /\ press'.short = IF dispatched' = ShortCode(now.key) /\ now.short < 2
                          THEN now.short + 1 ELSE now.short
        /\ press'.long = IF dispatched' = LongCode(now.key) THEN 1 ELSE now.long
        /\ press'.ended <=> now.key \notin keysDown
        /\ press' \in Presses
    <3> DEFINE alone == now.alone /\ busy = {now.key}
               held  == IF now.key \in keysDown /\ now.held < CounterLimit THEN now.held + 1 ELSE now.held
               short == IF dispatched' = ShortCode(now.key) /\ now.short < 2
                          THEN now.short + 1 ELSE now.short
               long  == IF dispatched' = LongCode(now.key) THEN 1 ELSE now.long
               ended == now.key \notin keysDown
    <3>1. press' = [now EXCEPT !.alone = alone, !.held = held, !.short = short, !.long = long,
                               !.ended = ended]
      BY <1>5, <1>7
    <3>2. alone \in BOOLEAN /\ held \in Nat /\ short \in Nat /\ long \in Nat /\ ended \in BOOLEAN
      BY <1>4 DEF Presses
    <3> HIDE DEF alone, held, short, long, ended
    <3>3. press' = [key |-> now.key, alone |-> alone, held |-> held, short |-> short, long |-> long,
                    ended |-> ended]
      BY <1>4, <3>1 DEF Presses
    <3>4. /\ press'.key = now.key /\ press'.alone = alone /\ press'.held = held
          /\ press'.short = short /\ press'.long = long /\ press'.ended = ended
      BY <3>3
    <3>5. press' \in Presses
      BY <1>4, <3>2, <3>3 DEF Presses
    <3> QED
      BY <3>4, <3>5 DEF alone, held, short, long, ended
  <2>2. ASSUME press'.alone, press'.held < CounterLimit
        PROVE  /\ Begins(now)
               /\ \A other \in KeyNumbers \ {now.key} : Still(other)
    <3>1. now.alone /\ busy = {now.key} /\ now.held < CounterLimit /\ now.held \in Nat
      BY <1>4, <2>1, <2>2, KeyboardAssumption DEF Presses
    <3>2. \A other \in KeyNumbers \ {now.key} : Still(other)
      BY <3>1 DEF busy, Still, PressInv
    <3>3. CASE press.ended /\ begun # {}
      <4>1. now.key = first /\ now.held = 0 /\ now.short = 0 /\ now.long = 0
        BY <1>3, <3>3 DEF now
      <4> QED
        BY <1>2, <3>2, <3>3, <4>1, KeyboardAssumption DEF Begins
    <3>4. CASE ~(press.ended /\ begun # {})
      <4>1. now = press
        BY <3>4 DEF now
      <4>2. press.alone /\ ~press.ended /\ press.held < CounterLimit
        BY <1>7, <3>1, <4>1
      <4> QED
        BY <3>2, <4>1, <4>2 DEF Begins, PressInv, AsHeld
    <3> QED
      BY <3>2, <3>3, <3>4
  <2>3. press'.alone /\ press'.held < CounterLimit =>
          /\ AsHeld'
          /\ IF press'.ended
             THEN press'.short = IF press'.held < THRESHOLD1 THEN 1 ELSE 0
             ELSE /\ G_key_interval_ctr'[press'.key] = press'.held /\ press'.held > 0
                  /\ \A key \in KeyNumbers \ {press'.key} : G_key_interval_ctr'[key] = 0
                  /\ press'.short = 0
                  /\ press'.held < THRESHOLD1 => prev_keyboard_state' = {}
                  /\ dispatched' \in {{}, LongCode(press'.key)}
    BY <1>4, <2>1, <2>2, OneScan
  <2> QED
    BY <1>1, <2>1, <2>3 DEF PressInv
<1> QED
  BY <1>6, <1>7

(* A key pressed alone is told for what it was, for any number of keys up to   *)
(* eight, any thresholds and delays: not twice, and not as another.           *)
THEOREM PressesAreTold == ScanSpec => []PressIsTold
<1>1. ScanInit => PressInv
  <2> SUFFICES ASSUME ScanInit PROVE PressInv
    OBVIOUS
  <2>1. 0 \in KeyNumbers
    BY KeyboardAssumption DEF KeyNumbers
  <2>2. press \in Presses /\ ~press.alone
    BY <2>1 DEF ScanInit, NoPress, Presses
  <2> QED
    BY <2>2 DEF ScanInit, PressInv, KeyNumbers
<1>2. PressInv /\ [ScanNext]_scanVars => PressInv'
  <2>1. PressInv /\ KeysMove => PressInv'
    BY KeyboardAssumption DEF KeysMove, PressInv, AsHeld, KeyNumbers
  <2>2. PressInv /\ UNCHANGED scanVars => PressInv'
    BY DEF scanVars, PressInv, AsHeld
  <2> QED
    BY <2>1, <2>2, PressScanned DEF ScanNext
<1>3. PressInv => PressIsTold
  BY DEF PressInv, PressIsTold, AsHeld
<1> QED
  BY <1>1, <1>2, <1>3, PTL DEF ScanSpec
=============================================================================
