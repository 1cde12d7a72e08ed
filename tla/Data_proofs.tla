---------------------------- MODULE Data_proofs -----------------------------
(***************************************************************************)
(* What is proved by induction over data. The text of a feed item: for      *)
(* every feed, every text and every length of a name. The lines on the      *)
(* matrix: for every pair of ends; and what is drawn with them, for all      *)
(* texts and tones.                                                         *)
(***************************************************************************)
EXTENDS FetchedText, MatrixGraphics, SequenceTheorems, FiniteSetTheorems, Induction_proofs

Letters == Characters \cup {" "}
Strippings == [inside : BOOLEAN, out : Seq(Letters)]

(* The equation of Removing. *)
RemovingFits(chars) ==
  /\ Removing(chars) \in [0 .. Len(chars) -> Strippings]
  /\ Removing(chars)[0] = [inside |-> FALSE, out |-> <<>>]
  /\ \A i \in 1 .. Len(chars) : Removing(chars)[i] = Taken(Removing(chars)[i - 1], chars[i])

(* What is kept after a character is a state of the loop.                   *)
LEMMA TakenType ==
  ASSUME NEW state \in Strippings, NEW c \in Characters
  PROVE  Taken(state, c) \in Strippings
<1>1. Printed(c) \in Letters
  BY DEF Printed, Letters
<1>2. Append(state.out, Printed(c)) \in Seq(Letters)
  BY <1>1, AppendProperties DEF Strippings
<1>3. (InTag(state.inside, c) /\ c # ">") \in BOOLEAN
  OBVIOUS
<1> QED
  BY <1>2, <1>3 DEF Taken, Strippings

(* remove_tags is the recursion that Removing describes.                    *)
LEMMA RemovingIsDefined ==
  ASSUME NEW chars \in Seq(Characters)
  PROVE  RemovingFits(chars)
<1> DEFINE start == [inside |-> FALSE, out |-> <<>>]
           step == [i \in 1 .. Len(chars) |-> [state \in Strippings |-> Taken(state, chars[i])]]
           Def(g) == [i \in 0 .. Len(chars) |-> IF i = 0 THEN start ELSE Taken(g[i - 1], chars[i])]
<1>1. Len(chars) \in Nat /\ \A i \in 1 .. Len(chars) : chars[i] \in Characters
  BY LenProperties, ElementOfSeq
<1>2. start \in Strippings
  BY DEF Strippings
<1>3. step \in [1 .. Len(chars) -> [Strippings -> Strippings]]
  BY <1>1, TakenType
<1>4. PICK g \in [0 .. Len(chars) -> Strippings] :
        g[0] = start /\ \A i \in 1 .. Len(chars) : g[i] = step[i][g[i - 1]]
  <2>1. StepsDefine(Len(chars), Strippings)
    BY <1>1, Recursion
  <2> HIDE DEF start, step
  <2> QED
    BY <1>2, <1>3, <2>1 DEF StepsDefine
<1>5. g = Def(g)
  <2>1. ASSUME NEW i \in 1 .. Len(chars) PROVE step[i][g[i - 1]] = Taken(g[i - 1], chars[i])
    <3>1. g[i - 1] \in Strippings
      BY <1>1
    <3> QED
      BY <3>1
  <2> HIDE DEF start, step
  <2> QED
    BY <1>1, <1>4, <2>1
<1>6. Removing(chars) = CHOOSE h : h = Def(h)
  BY DEF Removing
<1>7. Removing(chars) = Def(Removing(chars))
  <2> HIDE DEF Def
  <2> QED
    BY <1>5, <1>6
<1>8. Removing(chars)[0] = start
  <2> HIDE DEF start
  <2> QED
    BY <1>1, <1>7
<1>9. \A i \in 1 .. Len(chars) : Removing(chars)[i] = Taken(Removing(chars)[i - 1], chars[i])
  <2> HIDE DEF start
  <2> QED
    BY <1>1, <1>7
<1>10. \A i \in 0 .. Len(chars) : Removing(chars)[i] \in Strippings
  <2> DEFINE T == {i \in 0 .. Len(chars) : Removing(chars)[i] \in Strippings}
  <2>1. 0 \in T
    BY <1>1, <1>2, <1>8
  <2>2. ASSUME NEW i \in 0 .. Len(chars) - 1, i \in T PROVE i + 1 \in T
    <3>1. i + 1 \in 1 .. Len(chars) /\ (i + 1) - 1 = i
      BY <1>1
    <3>2. Removing(chars)[i + 1] = Taken(Removing(chars)[i], chars[i + 1]) /\ chars[i + 1] \in Characters
      BY <1>1, <1>9, <3>1
    <3> QED
      BY <2>2, <3>1, <3>2, TakenType
  <2> HIDE DEF T
  <2>3. \A i \in 0 .. Len(chars) : i \in T
    BY <1>1, <2>1, <2>2, InductionUpTo
  <2> QED
    BY <2>3 DEF T
<1>11. Removing(chars) \in [0 .. Len(chars) -> Strippings]
  <2> HIDE DEF start
  <2> QED
    BY <1>7, <1>10
<1> QED
  BY <1>8, <1>9, <1>11 DEF RemovingFits

(* A tag is open behind a character. *)
TagIsOpen(chars, i) == \E k \in 1 .. i : chars[k] = "<" /\ \A l \in k .. i : chars[l] # ">"

ShownUpTo(chars, i) == {k \in Shown(chars) : k <= i}

(* What there is after a character. *)
RemovedUpTo(chars, i) ==
  LET out == Removing(chars)[i].out IN
  /\ Removing(chars)[i].inside <=> TagIsOpen(chars, i)
  /\ Len(out) = Cardinality(ShownUpTo(chars, i))
  /\ \A k \in ShownUpTo(chars, i) : out[Cardinality(ShownUpTo(chars, k))] = Printed(chars[k])

(* Every character that is shown counts one more.                           *)
LEMMA CountsGrow ==
  ASSUME NEW chars \in Seq(Characters), NEW i \in 1 .. Len(chars)
  PROVE  /\ ShownUpTo(chars, i) = IF i \in Shown(chars) THEN ShownUpTo(chars, i - 1) \cup {i}
                                                     ELSE ShownUpTo(chars, i - 1)
         /\ Cardinality(ShownUpTo(chars, i - 1)) \in Nat
         /\ Cardinality(ShownUpTo(chars, i)) =
              Cardinality(ShownUpTo(chars, i - 1)) + IF i \in Shown(chars) THEN 1 ELSE 0
<1>1. Len(chars) \in Nat /\ DOMAIN chars = 1 .. Len(chars) /\ Shown(chars) \subseteq 1 .. Len(chars)
  BY LenProperties DEF Shown
<1>2. ShownUpTo(chars, i) = IF i \in Shown(chars) THEN ShownUpTo(chars, i - 1) \cup {i}
                                                ELSE ShownUpTo(chars, i - 1)
  BY <1>1 DEF ShownUpTo
<1>3. IsFiniteSet(ShownUpTo(chars, i - 1)) /\ i \notin ShownUpTo(chars, i - 1)
  <2>1. IsFiniteSet(1 .. Len(chars))
    BY <1>1, FS_Interval
  <2>2. ShownUpTo(chars, i - 1) \subseteq 1 .. Len(chars)
    BY <1>1 DEF ShownUpTo
  <2>3. IsFiniteSet(ShownUpTo(chars, i - 1))
    BY <2>1, <2>2, FS_Subset
  <2> QED
    BY <2>3, <1>1 DEF ShownUpTo
<1>4. Cardinality(ShownUpTo(chars, i - 1)) \in Nat
  BY <1>3, FS_CardinalityType
<1>5. Cardinality(ShownUpTo(chars, i - 1) \cup {i}) = Cardinality(ShownUpTo(chars, i - 1)) + 1
  BY <1>3, FS_AddElement
<1> QED
  BY <1>2, <1>4, <1>5

(* A character is counted among those up to any later one.                  *)
LEMMA CountsBelow ==
  ASSUME NEW chars \in Seq(Characters), NEW i \in 1 .. Len(chars), NEW k \in ShownUpTo(chars, i)
  PROVE  Cardinality(ShownUpTo(chars, k)) \in 1 .. Cardinality(ShownUpTo(chars, i))
<1>1. Len(chars) \in Nat /\ DOMAIN chars = 1 .. Len(chars) /\ Shown(chars) \subseteq 1 .. Len(chars)
  BY LenProperties DEF Shown
<1>2. ShownUpTo(chars, k) \subseteq ShownUpTo(chars, i) /\ {k} \subseteq ShownUpTo(chars, k)
  BY <1>1 DEF ShownUpTo
<1>3. IsFiniteSet(ShownUpTo(chars, i)) /\ IsFiniteSet(ShownUpTo(chars, k))
  <2>1. IsFiniteSet(1 .. Len(chars))
    BY <1>1, FS_Interval
  <2>2. ShownUpTo(chars, i) \subseteq 1 .. Len(chars) /\ ShownUpTo(chars, k) \subseteq 1 .. Len(chars)
    BY <1>1 DEF ShownUpTo
  <2> QED
    BY <2>1, <2>2, FS_Subset
<1>4. Cardinality(ShownUpTo(chars, k)) <= Cardinality(ShownUpTo(chars, i))
  BY <1>2, <1>3, FS_Subset
<1>5. Cardinality({k}) = 1 /\ Cardinality({k}) <= Cardinality(ShownUpTo(chars, k))
  BY <1>2, <1>3, FS_Subset, FS_Singleton
<1>6. Cardinality(ShownUpTo(chars, k)) \in Nat /\ Cardinality(ShownUpTo(chars, i)) \in Nat
  BY <1>3, FS_CardinalityType
<1> QED
  BY <1>4, <1>5, <1>6

(* After every character, what there is are the characters shown so far.    *)
LEMMA TextIsCut ==
  ASSUME NEW chars \in Seq(Characters)
  PROVE  \A i \in 0 .. Len(chars) : RemovedUpTo(chars, i)
<1> DEFINE T == {i \in 0 .. Len(chars) : RemovedUpTo(chars, i)}
<1>1. /\ Len(chars) \in Nat /\ DOMAIN chars = 1 .. Len(chars) /\ Shown(chars) \subseteq 1 .. Len(chars)
      /\ \A i \in 1 .. Len(chars) : chars[i] \in Characters
  BY LenProperties, ElementOfSeq DEF Shown
<1>2. RemovingFits(chars)
  BY RemovingIsDefined
<1>3. 0 \in T
  <2>1. ShownUpTo(chars, 0) = {}
    BY <1>1 DEF ShownUpTo
  <2>2. Cardinality(ShownUpTo(chars, 0)) = 0 /\ Len(<<>>) = 0
    BY <2>1, FS_EmptySet
  <2>3. Removing(chars)[0].inside = FALSE /\ Removing(chars)[0].out = <<>>
    BY <1>2 DEF RemovingFits
  <2>4. ~TagIsOpen(chars, 0)
    BY DEF TagIsOpen
  <2>5. RemovedUpTo(chars, 0)
    BY <2>1, <2>2, <2>3, <2>4 DEF RemovedUpTo
  <2> QED
    BY <2>5, <1>1
<1>4. ASSUME NEW j \in 0 .. Len(chars) - 1, j \in T PROVE j + 1 \in T
  <2>1. PICK i \in 1 .. Len(chars) : i = j + 1 /\ i - 1 = j
    BY <1>1
  <2>2. PICK state \in Strippings : state = Removing(chars)[i - 1]
    BY <1>1, <1>2 DEF RemovingFits
  <2>3. PICK c \in Characters : c = chars[i]
    BY <1>1
  <2>4. PICK next \in Strippings : next = Removing(chars)[i]
    BY <1>1, <1>2 DEF RemovingFits
  <2>5. next = Taken(state, c)
    BY <1>2, <2>2, <2>3, <2>4 DEF RemovingFits
  <2>6. next.inside <=> (state.inside \/ c = "<") /\ c # ">"
    BY <2>5 DEF Taken, InTag
  <2>7. next.out = IF (state.inside \/ c = "<") \/ c \in Quotes THEN state.out
                   ELSE Append(state.out, Printed(c))
    BY <2>5 DEF Taken, InTag
  <2>8. RemovedUpTo(chars, i - 1)
    BY <2>1, <1>4
  <2>9. state.inside <=> TagIsOpen(chars, i - 1)
    BY <2>2, <2>8 DEF RemovedUpTo
  <2>10. TagIsOpen(chars, i) <=> (TagIsOpen(chars, i - 1) \/ c = "<") /\ c # ">"
    <3>1. ASSUME TagIsOpen(chars, i) PROVE (TagIsOpen(chars, i - 1) \/ c = "<") /\ c # ">"
      <4>1. PICK k \in 1 .. i : chars[k] = "<" /\ \A l \in k .. i : chars[l] # ">"
        BY <3>1 DEF TagIsOpen
      <4>2. c # ">"
        BY <4>1, <2>3
      <4>3. CASE k = i
        BY <4>1, <4>2, <4>3, <2>3
      <4>4. CASE k < i
        <5>1. k \in 1 .. i - 1 /\ \A l \in k .. i - 1 : chars[l] # ">"
          BY <4>1, <4>4
        <5> QED
          BY <5>1, <4>1, <4>2 DEF TagIsOpen
      <4> QED
        BY <4>3, <4>4
    <3>2. ASSUME TagIsOpen(chars, i - 1), c # ">" PROVE TagIsOpen(chars, i)
      <4>1. PICK k \in 1 .. i - 1 : chars[k] = "<" /\ \A l \in k .. i - 1 : chars[l] # ">"
        BY <3>2 DEF TagIsOpen
      <4>2. k \in 1 .. i /\ \A l \in k .. i : chars[l] # ">"
        BY <4>1, <3>2, <2>3
      <4> QED
        BY <4>1, <4>2 DEF TagIsOpen
    <3>3. ASSUME c = "<", c # ">" PROVE TagIsOpen(chars, i)
      <4>1. i \in 1 .. i /\ chars[i] = "<" /\ \A l \in i .. i : chars[l] # ">"
        BY <3>3, <2>3
      <4> QED
        BY <4>1 DEF TagIsOpen
    <3> QED
      BY <3>1, <3>2, <3>3
  <2>11. i \in Shown(chars) <=> ~(TagIsOpen(chars, i - 1) \/ c = "<" \/ c \in Quotes)
    <3>1. i \in Shown(chars) <=>
            c \notin Quotes /\ \A k \in 1 .. i : chars[k] = "<" => \E l \in k .. i - 1 : chars[l] = ">"
      BY <1>1, <2>3 DEF Shown
    <3>2. (\A k \in 1 .. i : chars[k] = "<" => \E l \in k .. i - 1 : chars[l] = ">")
            <=> ~TagIsOpen(chars, i - 1) /\ c # "<"
      <4>1. ASSUME \A k \in 1 .. i : chars[k] = "<" => \E l \in k .. i - 1 : chars[l] = ">"
            PROVE  ~TagIsOpen(chars, i - 1) /\ c # "<"
        <5>1. \A k \in 1 .. i - 1 : k \in 1 .. i
          OBVIOUS
        <5>2. i \in 1 .. i /\ ~ \E l \in i .. i - 1 : TRUE
          OBVIOUS
        <5> QED
          BY <4>1, <5>1, <5>2, <2>3 DEF TagIsOpen
      <4>2. ASSUME ~TagIsOpen(chars, i - 1), c # "<", NEW k \in 1 .. i, chars[k] = "<"
            PROVE  \E l \in k .. i - 1 : chars[l] = ">"
        <5>1. k \in 1 .. i - 1
          BY <4>2, <2>3
        <5> QED
          BY <4>2, <5>1 DEF TagIsOpen
      <4> QED
        BY <4>1, <4>2
    <3> QED
      BY <3>1, <3>2
  <2>12. next.inside <=> TagIsOpen(chars, i)
    BY <2>6, <2>9, <2>10
  <2>13. /\ Len(state.out) = Cardinality(ShownUpTo(chars, i - 1))
         /\ \A k \in ShownUpTo(chars, i - 1) :
              state.out[Cardinality(ShownUpTo(chars, k))] = Printed(chars[k])
         /\ state.out \in Seq(Letters)
    BY <2>2, <2>8 DEF RemovedUpTo, Strippings
  <2>14. CASE i \notin Shown(chars)
    <3>1. next.out = state.out /\ ShownUpTo(chars, i) = ShownUpTo(chars, i - 1)
      BY <2>7, <2>9, <2>11, <2>14, CountsGrow
    <3>2. RemovedUpTo(chars, i)
      BY <3>1, <2>4, <2>12, <2>13 DEF RemovedUpTo
    <3> QED
      BY <3>2, <2>1
  <2>15. CASE i \in Shown(chars)
    <3>1. /\ next.out = Append(state.out, Printed(c))
          /\ ShownUpTo(chars, i) = ShownUpTo(chars, i - 1) \cup {i}
          /\ Cardinality(ShownUpTo(chars, i)) = Len(state.out) + 1
      BY <2>7, <2>9, <2>11, <2>13, <2>15, CountsGrow
    <3>2. Printed(c) \in Letters
      BY DEF Printed, Letters
    <3>3. /\ Len(next.out) = Len(state.out) + 1 /\ next.out[Len(state.out) + 1] = Printed(c)
          /\ \A n \in 1 .. Len(state.out) : next.out[n] = state.out[n]
      BY <2>13, <3>1, <3>2, AppendProperties
    <3>4. ASSUME NEW k \in ShownUpTo(chars, i - 1)
          PROVE  next.out[Cardinality(ShownUpTo(chars, k))] = Printed(chars[k])
      <4>1. Cardinality(ShownUpTo(chars, k)) \in 1 .. Len(state.out)
        <5>1. i - 1 \in 1 .. Len(chars)
          BY <1>1 DEF ShownUpTo
        <5> QED
          BY <5>1, <2>13, CountsBelow
      <4> QED
        BY <4>1, <2>13, <3>3
    <3>5. RemovedUpTo(chars, i)
      BY <3>1, <3>3, <3>4, <2>3, <2>4, <2>12 DEF RemovedUpTo
    <3> QED
      BY <3>5, <2>1
  <2> QED
    BY <2>14, <2>15
<1> HIDE DEF T
<1>5. \A i \in 0 .. Len(chars) : i \in T
  BY <1>1, <1>3, <1>4, InductionUpTo
<1> QED
  BY <1>5 DEF T

(* What remove_tags returns: the characters outside of tags and quotes, in  *)
(* their order, and nothing else.                                           *)
LEMMA TagsOut ==
  ASSUME NEW chars \in Strings
  PROVE  LET within == WithinLength(chars)
             shown  == Shown(within)
         IN /\ RemoveTags(chars) \in Seq(Letters)
            /\ Len(RemoveTags(chars)) = Cardinality(shown)
            /\ \A i \in shown :
                 RemoveTags(chars)[Cardinality({k \in shown : k <= i})] = Printed(within[i])
<1>1. PICK n \in 0 .. TextLimit : chars \in [1 .. n -> Characters]
  BY DEF Strings
<1>2. chars \in Seq(Characters) /\ Len(chars) = n
  <2>1. n \in Nat
    BY FetchedTextAssumption
  <2> QED
    BY <1>1, <2>1
<1> DEFINE m == n % LengthModulus
           t == WithinLength(chars)
<1>3. m \in 0 .. n
  BY FetchedTextAssumption
<1>4. t = SubSeq(chars, 1, m)
  BY <1>2 DEF WithinLength
<1>5. t \in Seq(Characters) /\ Len(t) = m
  <2> HIDE DEF m
  <2>1. 1 \in 1 .. n + 1 /\ m <= n
    BY <1>3, FetchedTextAssumption
  <2> HIDE DEF t
  <2>2. \A i \in 1 .. m : i \in 1 .. Len(chars)
    BY <1>2, <1>3
  <2> QED
    BY <1>2, <1>3, <1>4, <2>1, <2>2, SubSeqProperties
<1> HIDE DEF t, m
<1>6. Len(t) \in Nat /\ DOMAIN t = 1 .. Len(t) /\ RemovingFits(t) /\ RemovedUpTo(t, Len(t))
  <2>1. Len(t) \in Nat /\ DOMAIN t = 1 .. Len(t) /\ RemovingFits(t)
    BY <1>5, LenProperties, RemovingIsDefined
  <2> QED
    BY <2>1, <1>5, TextIsCut
<1>7. RemoveTags(chars) = Removing(t)[Len(t)].out
  BY DEF RemoveTags, t
<1>8. RemoveTags(chars) \in Seq(Letters)
  BY <1>6, <1>7 DEF RemovingFits, Strippings
<1>9. ShownUpTo(t, Len(t)) = Shown(t)
  BY <1>6 DEF ShownUpTo, Shown
<1>10. \A i : ShownUpTo(t, i) = {k \in Shown(t) : k <= i}
  BY DEF ShownUpTo
<1>11. /\ Len(RemoveTags(chars)) = Cardinality(Shown(t))
       /\ \A i \in Shown(t) : RemoveTags(chars)[Cardinality(ShownUpTo(t, i))] = Printed(t[i])
  BY <1>6, <1>7, <1>9 DEF RemovedUpTo
<1>12. \A i \in Shown(t) : RemoveTags(chars)[Cardinality({k \in Shown(t) : k <= i})] = Printed(t[i])
  BY <1>10, <1>11
<1> QED
  BY <1>8, <1>11, <1>12 DEF t

-----------------------------------------------------------------------------
TextPlaces == {"ask", "fetch", "strip", "allocate", "title", "description", "done"}

(* Types, as far as they matter.                                            *)
TextTypeOK ==
  /\ textPc \in TextPlaces /\ rss_feed_index \in NameFeeds
  /\ strippedLength \in Nat /\ tuned \in BOOLEAN /\ forDisplay \in BOOLEAN
  /\ textPc = "allocate" => stripped \in Seq(Letters)

(* The feed that was asked for is the one on show, and the places were made for it. *)
FeedInv ==
  /\ ~tuned => rss_feed_index = fetched
  /\ textPc \in {"ask", "fetch", "strip", "allocate"} => room = NothingWritten /\ written = NothingWritten
  /\ ~tuned /\ textPc \in {"title", "description", "done"} =>
       /\ room = [title       |-> TitleLength + Formatting + NameLength[rss_feed_index],
                  description |-> strippedLength + Formatting + NameLength[rss_feed_index]]
       /\ written \in [title : {0, LengthOf(TitleLength)},
                       description : {0, LengthOf(strippedLength)}]
  /\ ~tuned /\ textPc = "done" => label = rss_feed_index

TextInv == TextTypeOK /\ FeedInv /\ DocumentIsWhole /\ TagsAreRemoved

(* What is in the text and in the lengths suffices for the item.            *)
LEMMA ItFits == TextInv => ItemSound
<1> SUFFICES ASSUME TextInv PROVE ItemSound
  OBVIOUS
<1>1. NameLength[rss_feed_index] \in Nat /\ TitleLength \in Nat /\ strippedLength \in Nat
  BY FetchedTextAssumption DEF TextInv, TextTypeOK, NameFeeds
<1>2. ASSUME ~tuned PROVE written.title <= room.title /\ written.description <= room.description
  <2>1. CASE textPc \in {"ask", "fetch", "strip", "allocate"}
    BY <2>1 DEF TextInv, FeedInv, NothingWritten
  <2>2. CASE textPc \in {"title", "description", "done"}
    <3>1. /\ room.title = TitleLength + 20 + NameLength[rss_feed_index]
          /\ room.description = strippedLength + 20 + NameLength[rss_feed_index]
          /\ written.title \in {0, LengthOf(TitleLength)}
          /\ written.description \in {0, LengthOf(strippedLength)}
      BY <1>2, <2>2 DEF TextInv, FeedInv, Formatting
    <3>2. \A n \in Nat : LengthOf(n) \in Nat /\ LengthOf(n) <= n + 20 + NameLength[rss_feed_index]
      BY <1>1 DEF LengthOf
    <3> QED
      BY <1>1, <3>1, <3>2
  <2> QED
    BY <2>1, <2>2 DEF TextInv, TextTypeOK, TextPlaces
<1>3. ~tuned /\ textPc = "done" => label = fetched
  BY DEF TextInv, FeedInv
<1> QED
  BY <1>2, <1>3 DEF ItemSound, TextInv

(* Every step of the fetch, of the stripping and of the making of an item.  *)
LEMMA TextStep == TextInv /\ [TextNext]_textVars => TextInv'
<1> SUFFICES ASSUME TextInv, [TextNext]_textVars PROVE TextInv'
  OBVIOUS
<1>1. CASE FetchBegins
  BY <1>1 DEF FetchBegins, TextGoes, TextInv, TextTypeOK, TextPlaces, FeedInv, DocumentIsWhole, TagsAreRemoved
<1>2. CASE PartArrives
  BY <1>2 DEF PartArrives, TextGoes, TextInv, TextTypeOK, TextPlaces, FeedInv, DocumentIsWhole, TagsAreRemoved
<1>3. CASE FetchEnds
  BY <1>3 DEF FetchEnds, AfterFetch, TextInv, TextTypeOK, TextPlaces, FeedInv, DocumentIsWhole, TagsAreRemoved
<1>4. CASE FetchFails
  BY <1>4 DEF FetchFails, AfterFetch, SizeAfterError, TextInv, TextTypeOK, TextPlaces, FeedInv,
              DocumentIsWhole, TagsAreRemoved
<1>5. CASE IsStripped
  <2>1. description' \in Strings /\ stripped' = RemoveTags(description')
    BY <1>5 DEF IsStripped
  <2>2. stripped' \in Seq(Letters)
    BY <2>1, TagsOut
  <2>3. TagsAreRemoved'
    BY <2>1, TagsOut DEF TagsAreRemoved
  <2> QED
    BY <1>5, <2>2, <2>3 DEF IsStripped, TextGoes, TextInv, TextTypeOK, TextPlaces, FeedInv, DocumentIsWhole
<1>6. CASE ItemIsAllocated
  <2>1. Len(stripped) \in Nat
    BY <1>6, LenProperties DEF ItemIsAllocated, TextGoes, TextInv, TextTypeOK
  <2> QED
    BY <1>6, <2>1 DEF ItemIsAllocated, TextGoes, NothingWritten, TextInv, TextTypeOK, TextPlaces, FeedInv,
                      DocumentIsWhole, TagsAreRemoved
<1>7. CASE TitleIsWritten
  BY <1>7 DEF TitleIsWritten, TextGoes, LengthOf, TextInv, TextTypeOK, TextPlaces, FeedInv,
              DocumentIsWhole, TagsAreRemoved
<1>8. CASE DescriptionIsWritten
  BY <1>8 DEF DescriptionIsWritten, TextGoes, LengthOf, TextInv, TextTypeOK, TextPlaces, FeedInv,
              DocumentIsWhole, TagsAreRemoved
<1>9. CASE ItemIsDone
  BY <1>9 DEF ItemIsDone, TextInv, TextTypeOK, TextPlaces, FeedInv, DocumentIsWhole, TagsAreRemoved
<1>10. CASE UserChangesFeed
  BY <1>10 DEF UserChangesFeed, TextInv, TextTypeOK, TextPlaces, FeedInv, DocumentIsWhole, TagsAreRemoved
<1>11. CASE UNCHANGED textVars
  BY <1>11 DEF textVars, TextInv, TextTypeOK, FeedInv, LengthOf, DocumentIsWhole, TagsAreRemoved
<1> QED
  BY <1>1, <1>2, <1>3, <1>4, <1>5, <1>6, <1>7, <1>8, <1>9, <1>10, <1>11 DEF TextNext

(* Every item made of a feed is sound: the document is whole, the           *)
(* description is what remove_tags ought to leave of it, title and          *)
(* description fit the room that was allocated for them, and the label is   *)
(* that of the feed that was fetched, unless the user has gone to another   *)
(* one meanwhile.                                                           *)
THEOREM ItemsAreSound == TextSpec => []ItemSound
<1>1. TextInit => TextInv
  <2> SUFFICES ASSUME TextInit PROVE TextInv
    OBVIOUS
  <2>1. TextTypeOK
    BY DEF TextInit, TextTypeOK, TextPlaces
  <2>2. FeedInv /\ DocumentIsWhole /\ TagsAreRemoved
    BY DEF TextInit, FeedInv, DocumentIsWhole, TagsAreRemoved
  <2> QED
    BY <2>1, <2>2 DEF TextInv
<1> QED
  BY <1>1, TextStep, ItFits, PTL DEF TextSpec

-----------------------------------------------------------------------------
(* The lines.                                                               *)

Pixels == [y : Int, err : Int]

(* The equation of Walk.                                                    *)
WalkEquation(from, dx, dy, ystep, w) ==
  /\ w \in [0 .. dx -> Pixels]
  /\ w[0] = [y |-> from[2], err |-> dx \div 2]
  /\ \A n \in 1 .. dx :
       LET err == w[n - 1].err - dy
       IN w[n] = IF err < 0 THEN [y |-> w[n - 1].y + ystep, err |-> err + dx]
                            ELSE [y |-> w[n - 1].y, err |-> err]

(* The walk does what its equation says.                                     *)
LEMMA Walked ==
  ASSUME NEW from \in Int \X Int, NEW to \in Int \X Int, NEW dx \in Nat, dx = to[1] - from[1],
         NEW dy, dy = Distance(from[2], to[2]),
         NEW ystep, ystep = IF from[2] < to[2] THEN 1 ELSE -1,
         NEW w, w = Walk(from, to)
  PROVE  WalkEquation(from, dx, dy, ystep, w)
<1> DEFINE Next1(p) ==
             LET err == p.err - dy
             IN IF err < 0 THEN [y |-> p.y + ystep, err |-> err + dx] ELSE [y |-> p.y, err |-> err]
           start == [y |-> from[2], err |-> dx \div 2]
           step == [n \in 1 .. dx |-> [p \in Pixels |-> Next1(p)]]
           Def(g) == [n \in 0 .. dx |-> IF n = 0 THEN start ELSE Next1(g[n - 1])]
<1>1. dy \in Nat /\ ystep \in Int /\ start \in Pixels
  BY DEF Distance, Pixels
<1>2. \A p \in Pixels : Next1(p) \in Pixels
  BY <1>1 DEF Pixels
<1>3. step \in [1 .. dx -> [Pixels -> Pixels]]
  BY <1>2
<1>4. PICK g \in [0 .. dx -> Pixels] : g[0] = start /\ \A n \in 1 .. dx : g[n] = step[n][g[n - 1]]
  <2> HIDE DEF step, start
  <2>1. StepsDefine(dx, Pixels)
    BY Recursion
  <2>2. start \in Pixels
    BY <1>1
  <2> QED
    BY <1>3, <2>1, <2>2 DEF StepsDefine
<1>5. g = Def(g)
  <2>1. ASSUME NEW n \in 1 .. dx PROVE step[n][g[n - 1]] = Next1(g[n - 1])
    <3>1. g[n - 1] \in Pixels
      BY <2>1
    <3> HIDE DEF Next1
    <3> QED
      BY <3>1
  <2> HIDE DEF Next1, start, step
  <2> QED
    BY <2>1, <1>4
<1>6. w = CHOOSE h : h = Def(h)
  BY DEF Walk, FirstError
<1>7. w = Def(w)
  <2> HIDE DEF Def
  <2> QED
    BY <1>5, <1>6
<1>8. w[0] = start /\ \A n \in 1 .. dx : w[n] = Next1(w[n - 1])
  <2> HIDE DEF Next1, start
  <2> QED
    BY <1>7
<1>9. \A n \in 0 .. dx : w[n] \in Pixels
  <2> DEFINE T == {n \in 0 .. dx : w[n] \in Pixels}
  <2>1. 0 \in T
    BY <1>1, <1>8
  <2>2. ASSUME NEW n \in 0 .. dx - 1, n \in T PROVE n + 1 \in T
    <3>1. w[n] \in Pixels /\ n + 1 \in 1 .. dx /\ (n + 1) - 1 = n
      BY <2>2
    <3>2. w[n + 1] = Next1(w[n])
      BY <1>8, <3>1
    <3>3. Next1(w[n]) \in Pixels
      BY <1>2, <3>1
    <3> QED
      BY <3>1, <3>2, <3>3
  <2> HIDE DEF T
  <2>3. \A n \in 0 .. dx : n \in T
    BY <2>1, <2>2, InductionUpTo
  <2> QED
    BY <2>3 DEF T
<1>10. w \in [0 .. dx -> Pixels]
  <2> HIDE DEF Next1, start
  <2> QED
    BY <1>7, <1>9
<1> QED
  BY <1>8, <1>10 DEF WalkEquation

(* One more is once more.                                                   *)
LEMMA OneMore == ASSUME NEW a \in Int, NEW b \in Int PROVE (a + 1) * b = a * b + b
OBVIOUS

(* How many steps up or down the walk has taken.                             *)
Risen(from, to, y) == IF from[2] < to[2] THEN y - from[2] ELSE from[2] - y

(* What the error is after n steps.                                         *)
ErrorFits(from, to, dx, dy, w) ==
  \A n \in 0 .. dx :
    /\ w[n] \in Pixels /\ Risen(from, to, w[n].y) \in Int
    /\ w[n].err \in 0 .. dx /\ (dx > 0 => w[n].err < dx)
    /\ w[n].err = dx \div 2 - n * dy + Risen(from, to, w[n].y) * dx

(* The error is what is left of half a pixel.                                *)
LEMMA ErrorIsKept ==
  ASSUME NEW from \in Int \X Int, NEW to \in Int \X Int, NEW dx \in Nat, dx = to[1] - from[1],
         NEW dy \in 0 .. dx, dy = Distance(from[2], to[2]),
         NEW ystep, ystep = IF from[2] < to[2] THEN 1 ELSE -1,
         NEW w, w = Walk(from, to)
  PROVE  ErrorFits(from, to, dx, dy, w)
<1> DEFINE K(n) == Risen(from, to, w[n].y)
           Kept(n) == /\ w[n].err \in 0 .. dx /\ (dx > 0 => w[n].err < dx)
                      /\ w[n].err = dx \div 2 - n * dy + K(n) * dx
           T == {n \in 0 .. dx : Kept(n)}
<1>1. /\ w \in [0 .. dx -> Pixels]
      /\ w[0] = [y |-> from[2], err |-> dx \div 2]
      /\ \A n \in 1 .. dx :
           LET err == w[n - 1].err - dy
           IN w[n] = IF err < 0 THEN [y |-> w[n - 1].y + ystep, err |-> err + dx]
                                ELSE [y |-> w[n - 1].y, err |-> err]
  <2>1. WalkEquation(from, dx, dy, ystep, w)
    BY Walked
  <2> QED
    BY <2>1 DEF WalkEquation
<1>2. \A n \in 0 .. dx : w[n].y \in Int /\ w[n].err \in Int /\ K(n) \in Int
  BY <1>1 DEF Pixels, Risen
<1>3. 0 \in T
  <2>1. w[0].y = from[2] /\ w[0].err = dx \div 2
    BY <1>1
  <2>2. K(0) = 0
    BY <2>1 DEF Risen
  <2>3. dx \div 2 \in 0 .. dx /\ (dx > 0 => dx \div 2 < dx)
    OBVIOUS
  <2> QED
    BY <2>1, <2>2, <2>3
<1>4. ASSUME NEW n \in 0 .. dx - 1, n \in T PROVE n + 1 \in T
  <2> DEFINE err == w[n].err - dy
  <2>1. n + 1 \in 1 .. dx /\ (n + 1) - 1 = n
    OBVIOUS
  <2>2. w[n + 1] = IF err < 0 THEN [y |-> w[n].y + ystep, err |-> err + dx]
                              ELSE [y |-> w[n].y, err |-> err]
    BY <1>1, <2>1
  <2>3. Kept(n) /\ w[n].y \in Int /\ w[n].err \in Int /\ K(n) \in Int
    BY <1>2, <1>4
  <2>4. (n + 1) * dy = n * dy + dy /\ (K(n) + 1) * dx = K(n) * dx + dx
    BY <2>3, OneMore
  <2>5. CASE err < 0
    <3>1. w[n + 1].err = err + dx /\ w[n + 1].y = w[n].y + ystep
      BY <2>2, <2>5
    <3>2. K(n + 1) = K(n) + 1
      BY <2>3, <3>1 DEF Risen
    <3>3. n * dy \in Int /\ K(n) * dx \in Int
      BY <2>3
    <3> HIDE DEF K
    <3>4. w[n + 1].err = dx \div 2 - (n + 1) * dy + (K(n) + 1) * dx
      BY <2>3, <2>4, <3>1, <3>3
    <3>5. w[n + 1].err \in 0 .. dx /\ (dx > 0 => w[n + 1].err < dx)
      BY <2>3, <2>5, <3>1
    <3> QED
      BY <3>2, <3>4, <3>5, <2>1
  <2>6. CASE err >= 0
    <3>1. w[n + 1].err = err /\ w[n + 1].y = w[n].y
      BY <2>2, <2>6, <2>3
    <3>2. K(n + 1) = K(n)
      BY <3>1
    <3>3. n * dy \in Int /\ K(n) * dx \in Int
      BY <2>3
    <3> HIDE DEF K
    <3>4. w[n + 1].err = dx \div 2 - (n + 1) * dy + K(n) * dx
      BY <2>3, <2>4, <3>1, <3>3
    <3>5. w[n + 1].err \in 0 .. dx /\ (dx > 0 => w[n + 1].err < dx)
      BY <2>3, <2>6, <3>1
    <3> QED
      BY <3>2, <3>4, <3>5, <2>1
  <2> QED
    BY <2>3, <2>5, <2>6
<1>5. \A n \in 0 .. dx : n \in T
  <2> HIDE DEF T
  <2> QED
    BY <1>3, <1>4, InductionUpTo, Zenon
<1> QED
  BY <1>1, <1>2, <1>5 DEF ErrorFits

(* A multiple of a number, on either side of zero.                          *)
LEMMA Magnified ==
  ASSUME NEW a \in Int, NEW d \in Nat
  PROVE  (a >= 1 => a * d >= d) /\ (a <= -1 => a * d <= -d) /\ a * d \in Int
<1>1. a >= 1 => (a - 1) * d >= 0
  OBVIOUS
<1>2. a <= -1 => (a + 1) * d <= 0
  OBVIOUS
<1>3. (a - 1) * d = a * d - d /\ (a + 1) * d = a * d + d /\ a * d \in Int
  OBVIOUS
<1> QED
  BY <1>1, <1>2, <1>3

(* Two remainders that differ by a multiple are the same.                   *)
LEMMA OnlyRemainder ==
  ASSUME NEW d \in Nat, NEW c \in 0 .. d - 1, NEW a \in Int, c + a * d \in 0 .. d - 1
  PROVE  a = 0
<1>1. (a >= 1 => a * d >= d) /\ (a <= -1 => a * d <= -d) /\ a * d \in Int
  BY Magnified
<1> QED
  BY <1>1

(* The error of the walk is half a pixel at most.                           *)
LEMMA HalfAPixel ==
  ASSUME NEW d \in Nat, NEW e \in 0 .. d, d > 0 => e < d, NEW a \in Int, NEW b \in Int,
         e = d \div 2 - a + b
  PROVE  2 * (a - b) \in - d .. d
<1>1. d \div 2 \in Int /\ 2 * (d \div 2) \in {d, d - 1}
  OBVIOUS
<1> DEFINE h == d \div 2
<1>2. e = h - a + b /\ h \in Int /\ 2 * h \in {d, d - 1}
  BY <1>1
<1> HIDE DEF h
<1> QED
  BY <1>2

(* Where the walk is after n steps, in terms of how far it has risen.       *)
StepsFit(from, to, dx, dy, w) ==
  \A n \in 0 .. dx :
    LET k == Risen(from, to, w[n].y) IN
    /\ w[n].y \in Int
    /\ w[n].y = IF from[2] < to[2] THEN from[2] + k ELSE from[2] - k
    /\ k \in 0 .. dy
    /\ 2 * (n * dy - k * dx) \in - dx .. dx
    /\ n = 0 => k = 0
    /\ n = dx => k = dy
    /\ dy = dx => k = n

(* A step of the walk.                                                       *)
LEMMA StepsOfWalk ==
  ASSUME NEW from \in Int \X Int, NEW to \in Int \X Int, NEW dx \in Nat, dx = to[1] - from[1],
         NEW dy \in 0 .. dx, dy = Distance(from[2], to[2]), NEW w, w = Walk(from, to)
  PROVE  StepsFit(from, to, dx, dy, w)
<1>0. PICK ystep : ystep = IF from[2] < to[2] THEN 1 ELSE -1
  OBVIOUS
<1> DEFINE Kept(n) == /\ w[n] \in Pixels /\ Risen(from, to, w[n].y) \in Int
                      /\ w[n].err \in 0 .. dx /\ (dx > 0 => w[n].err < dx)
                      /\ w[n].err = dx \div 2 - n * dy + Risen(from, to, w[n].y) * dx
<1>1. \A n \in 0 .. dx : Kept(n)
  <2>1. ErrorFits(from, to, dx, dy, w)
    BY ErrorIsKept
  <2> QED
    BY <2>1 DEF ErrorFits
<1>2. w[0].y = from[2]
  <2>1. WalkEquation(from, dx, dy, ystep, w)
    BY <1>0, Walked
  <2> QED
    BY <2>1 DEF WalkEquation
<1> SUFFICES ASSUME NEW n \in 0 .. dx
             PROVE  LET k == Risen(from, to, w[n].y) IN
                    /\ w[n].y \in Int
                    /\ w[n].y = IF from[2] < to[2] THEN from[2] + k ELSE from[2] - k
                    /\ k \in 0 .. dy
                    /\ 2 * (n * dy - k * dx) \in - dx .. dx
                    /\ n = 0 => k = 0
                    /\ n = dx => k = dy
                    /\ dy = dx => k = n
  BY DEF StepsFit
<1> DEFINE k == Risen(from, to, w[n].y)
<1>3. w[n].y \in Int /\ w[n].err \in Int /\ k \in Int
  BY <1>1 DEF Pixels
<1>4. w[n].y = IF from[2] < to[2] THEN from[2] + k ELSE from[2] - k
  BY <1>3 DEF Risen
<1>5. n = 0 => k = 0
  BY <1>2 DEF Risen
<1>6. /\ w[n].err \in 0 .. dx /\ (dx > 0 => w[n].err < dx)
      /\ w[n].err = dx \div 2 - n * dy + k * dx
  BY <1>1
<1>7. n * dy \in Int /\ k * dx \in Int /\ dy * dx \in Int /\ n * dx \in Int
  BY <1>3
<1>8. dx \div 2 \in Int /\ 2 * (dx \div 2) \in {dx, dx - 1}
  OBVIOUS
<1>9. dx = 0 => n = 0 /\ dy = 0
  OBVIOUS
<1> HIDE DEF k, Kept
<1>10. 2 * (n * dy - k * dx) \in - dx .. dx
  BY <1>6, <1>7, HalfAPixel
<1>11. k \in 0 .. dy
  <2>1. CASE dx = 0
    BY <2>1, <1>5, <1>9
  <2>2. CASE dx > 0
    <3>1. n * dy \in 0 .. dx * dy
      <4>1. (dx - n) * dy >= 0 /\ (dx - n) * dy = dx * dy - n * dy /\ n * dy >= 0
        OBVIOUS
      <4> QED
        BY <4>1, <1>7
    <3>2. k <= -1 => k * dx <= -dx
      BY <1>3, Magnified
    <3>3. k - dy >= 1 => (k - dy) * dx >= dx
      BY <1>3, Magnified
    <3>4. (k - dy) * dx = k * dx - dx * dy
      BY <1>3
    <3>5. dx \div 2 \in 0 .. dx - 1
      BY <2>2
    <3>6. k >= 0
      BY <1>3, <1>6, <1>7, <3>1, <3>2, <3>5, <2>2
    <3>7. k <= dy
      BY <1>3, <1>6, <1>7, <3>1, <3>3, <3>4, <3>5, <2>2
    <3> QED
      BY <1>3, <3>6, <3>7
  <2> QED
    BY <2>1, <2>2
<1>12. n = dx => k = dy
  <2>1. CASE dx = 0
    BY <2>1, <1>5, <1>9
  <2>2. CASE dx > 0 /\ n = dx
    <3>1. (k - dy) * dx = k * dx - n * dy
      BY <1>3, <2>2
    <3>2. dx \div 2 \in 0 .. dx - 1
      BY <2>2
    <3>3. dx \div 2 + (k - dy) * dx \in 0 .. dx - 1
      BY <3>1, <3>2, <2>2, <1>6, <1>7
    <3>4. k - dy = 0
      BY <3>2, <3>3, <1>3, OnlyRemainder
    <3> QED
      BY <3>4, <1>3
  <2> QED
    BY <2>1, <2>2
<1>13. dy = dx => k = n
  <2>1. CASE dx = 0
    BY <2>1, <1>5, <1>9
  <2>2. CASE dx > 0 /\ dy = dx
    <3>1. (k - n) * dx = k * dx - n * dy
      BY <1>3, <2>2
    <3>2. dx \div 2 \in 0 .. dx - 1
      BY <2>2
    <3>3. dx \div 2 + (k - n) * dx \in 0 .. dx - 1
      BY <3>1, <3>2, <2>2, <1>6, <1>7
    <3>4. k - n = 0
      <4> DEFINE c == dx \div 2
                 a == k - n
      <4>1. c \in 0 .. dx - 1 /\ a \in Int /\ c + a * dx \in 0 .. dx - 1
        BY <3>2, <3>3, <1>3
      <4> HIDE DEF c, a
      <4>2. a = 0
        BY <4>1, OnlyRemainder
      <4> QED
        BY <4>2 DEF a
    <3> QED
      BY <3>4, <1>3
  <2> QED
    BY <2>1, <2>2
<1> QED
  BY <1>3, <1>4, <1>5, <1>10, <1>11, <1>12, <1>13 DEF k

-----------------------------------------------------------------------------
(* What LinesAreStraight asks of the pixels of a line, of any two ends.      *)
Longer(a, b) ==
  IF Distance(a[1], b[1]) < Distance(a[2], b[2]) THEN Distance(a[2], b[2]) ELSE Distance(a[1], b[1])
Within(n, one, other) == (one <= n /\ n <= other) \/ (other <= n /\ n <= one)

StaysWithin(drawn, a, b) ==
  \A p \in drawn : p \in Int \X Int /\ Within(p[1], a[1], b[1]) /\ Within(p[2], a[2], b[2])
IsNear(drawn, a, b) ==
  \A p \in drawn :
    Distance((b[2] - a[2]) * (p[1] - a[1]), (b[1] - a[1]) * (p[2] - a[2])) * 2 <= Longer(a, b)
OncePerStep(drawn, a, b) ==
  \A i \in {1, 2} : Distance(a[i], b[i]) = Longer(a, b) =>
    \A p, q \in drawn : p[i] = q[i] => p = q
NothingMissing(drawn, a, b) ==
  \E i \in {1, 2} : /\ Distance(a[i], b[i]) = Longer(a, b)
                    /\ \A n \in Int : Within(n, a[i], b[i]) => \E p \in drawn : p[i] = n
Straight(drawn, a, b) ==
  /\ a \in drawn /\ b \in drawn
  /\ StaysWithin(drawn, a, b) /\ IsNear(drawn, a, b)
  /\ OncePerStep(drawn, a, b) /\ NothingMissing(drawn, a, b)

(* The pixels of the walk.                                                  *)
Trail(from, to) == {<<from[1] + n, Walk(from, to)[n].y>> : n \in 0 .. to[1] - from[1]}

(* The pixels of a walk from the left to the right that does not rise       *)
(* faster than it goes are a line.                                          *)
LEMMA TrailIsStraight ==
  ASSUME NEW from \in Int \X Int, NEW to \in Int \X Int, from[1] <= to[1],
         Distance(from[2], to[2]) <= to[1] - from[1]
  PROVE  Straight(Trail(from, to), from, to)
<1>1. PICK dx \in Nat : dx = to[1] - from[1]
  OBVIOUS
<1>2. PICK dy \in 0 .. dx : dy = Distance(from[2], to[2])
  BY <1>1 DEF Distance
<1>3. PICK w : w = Walk(from, to)
  OBVIOUS
<1>4. StepsFit(from, to, dx, dy, w)
  BY <1>1, <1>2, <1>3, StepsOfWalk
<1>5. PICK k : k = [n \in 0 .. dx |-> Risen(from, to, w[n].y)]
  OBVIOUS
<1>6. ASSUME NEW n \in 0 .. dx
      PROVE  /\ w[n].y \in Int
             /\ w[n].y = IF from[2] < to[2] THEN from[2] + k[n] ELSE from[2] - k[n]
             /\ k[n] \in 0 .. dy
             /\ 2 * (n * dy - k[n] * dx) \in - dx .. dx
             /\ n = 0 => k[n] = 0
             /\ n = dx => k[n] = dy
             /\ dy = dx => k[n] = n
  BY <1>4, <1>5 DEF StepsFit
<1> DEFINE P == {<<from[1] + n, w[n].y>> : n \in 0 .. dx}
<1>7. Trail(from, to) = P
  BY <1>1, <1>3 DEF Trail
<1>8. /\ Longer(from, to) = dx /\ Distance(from[1], to[1]) = dx
      /\ from \in Int \X Int /\ to \in Int \X Int
      /\ from = <<from[1], from[2]>> /\ to = <<to[1], to[2]>>
  BY <1>1, <1>2 DEF Longer, Distance
<1>9. to[1] = from[1] + dx /\ to[2] = IF from[2] < to[2] THEN from[2] + dy ELSE from[2] - dy
  BY <1>1, <1>2 DEF Distance
<1>10. from \in P
  <2>1. 0 \in 0 .. dx /\ from[1] + 0 = from[1] /\ from[2] + 0 = from[2] /\ from[2] - 0 = from[2]
    BY <1>8
  <2>2. k[0] = 0
    BY <1>6, <2>1
  <2>3. w[0].y = from[2]
    BY <1>6, <2>1, <2>2
  <2> QED
    BY <2>1, <2>3, <1>8
<1>11. to \in P
  <2>1. dx \in 0 .. dx /\ w[dx].y = to[2]
    BY <1>6, <1>9
  <2> QED
    BY <2>1, <1>8, <1>9
<1>12. ASSUME NEW n \in 0 .. dx PROVE Within(w[n].y, from[2], to[2])
  <2>1. from[2] \in Int /\ to[2] \in Int /\ k[n] \in 0 .. dy
    BY <1>6, <1>8
  <2> QED
    BY <2>1, <1>6, <1>9 DEF Within
<1>13. StaysWithin(P, from, to)
  <2> SUFFICES ASSUME NEW n \in 0 .. dx, NEW p, p = <<from[1] + n, w[n].y>>
               PROVE  p \in Int \X Int /\ Within(p[1], from[1], to[1]) /\ Within(p[2], from[2], to[2])
    BY DEF StaysWithin
  <2>1. from[1] + n \in Int /\ Within(from[1] + n, from[1], to[1])
    BY <1>9 DEF Within
  <2> QED
    BY <2>1, <1>6, <1>12
<1>14. IsNear(P, from, to)
  <2> SUFFICES ASSUME NEW n \in 0 .. dx
               PROVE  Distance((to[2] - from[2]) * n, dx * (w[n].y - from[2])) * 2 <= dx
    <3>1. ASSUME NEW n \in 0 .. dx, NEW p, p = <<from[1] + n, w[n].y>>
          PROVE  p[1] - from[1] = n /\ p[2] = w[n].y
      BY <3>1, <1>8
    <3> QED
      BY <3>1, <1>8, <1>9, <1>1 DEF IsNear
  <2>1. k[n] \in Int /\ n * dy \in Int /\ k[n] * dx \in Int /\ 2 * (n * dy - k[n] * dx) \in - dx .. dx
    <3>1. k[n] \in 0 .. dy /\ 2 * (n * dy - k[n] * dx) \in - dx .. dx
      BY <1>6
    <3> QED
      BY <3>1
  <2>2. CASE from[2] < to[2]
    <3>1. (to[2] - from[2]) * n = n * dy /\ dx * (w[n].y - from[2]) = k[n] * dx
      <4>1. to[2] - from[2] = dy /\ w[n].y - from[2] = k[n]
        BY <1>6, <1>9, <2>2
      <4> QED
        BY <4>1, <2>1
    <3> QED
      BY <2>1, <3>1 DEF Distance
  <2>3. CASE ~(from[2] < to[2])
    <3>1. (to[2] - from[2]) * n = - (n * dy) /\ dx * (w[n].y - from[2]) = - (k[n] * dx)
      <4>1. to[2] - from[2] = - dy /\ w[n].y - from[2] = - k[n]
        BY <1>6, <1>9, <2>3
      <4> QED
        BY <4>1, <2>1
    <3> QED
      BY <2>1, <3>1 DEF Distance
  <2> QED
    BY <2>2, <2>3
<1>15. OncePerStep(P, from, to)
  <2>1. ASSUME NEW n \in 0 .. dx, NEW m \in 0 .. dx, from[1] + n = from[1] + m PROVE n = m
    BY <2>1
  <2>2. ASSUME NEW n \in 0 .. dx, NEW m \in 0 .. dx, dy = dx, w[n].y = w[m].y PROVE n = m
    <3>1. k[n] = n /\ w[n].y = IF from[2] < to[2] THEN from[2] + k[n] ELSE from[2] - k[n]
      BY <1>6, <2>2
    <3>2. k[m] = m /\ w[m].y = IF from[2] < to[2] THEN from[2] + k[m] ELSE from[2] - k[m]
      BY <1>6, <2>2
    <3>3. from[2] \in Int /\ to[2] \in Int
      BY <1>8
    <3> QED
      BY <3>1, <3>2, <3>3, <2>2
  <2>3. Distance(from[2], to[2]) = dy
    BY <1>2
  <2> QED
    BY <2>1, <2>2, <2>3, <1>8 DEF OncePerStep
<1>16. NothingMissing(P, from, to)
  <2>1. ASSUME NEW n \in Int, Within(n, from[1], to[1]) PROVE \E p \in P : p[1] = n
    <3>1. n - from[1] \in 0 .. dx /\ from[1] + (n - from[1]) = n
      BY <1>9, <2>1 DEF Within
    <3>2. <<from[1] + (n - from[1]), w[n - from[1]].y>> \in P
      BY <3>1
    <3> QED
      BY <3>1, <3>2
  <2> HIDE DEF P
  <2> QED
    BY <2>1, <1>8 DEF NothingMissing
<1> QED
  BY <1>7, <1>10, <1>11, <1>13, <1>14, <1>15, <1>16 DEF Straight

(* From the other end it is the same line.                                   *)
LEMMA EitherEnd ==
  ASSUME NEW a \in Int \X Int, NEW b \in Int \X Int, NEW drawn, Straight(drawn, a, b)
  PROVE  Straight(drawn, b, a)
<1>1. \A x, y \in Int : Distance(x, y) = Distance(y, x)
  BY DEF Distance
<1>2. \A i \in {1, 2} : a[i] \in Int /\ b[i] \in Int
  OBVIOUS
<1>3. Longer(a, b) = Longer(b, a) /\ \A i \in {1, 2} : Distance(a[i], b[i]) = Distance(b[i], a[i])
  BY <1>1, <1>2 DEF Longer
<1>4. \A n, one, other : Within(n, one, other) <=> Within(n, other, one)
  BY DEF Within
<1>5. IsNear(drawn, b, a)
  <2> SUFFICES ASSUME NEW p \in drawn
               PROVE  Distance((a[2] - b[2]) * (p[1] - b[1]), (a[1] - b[1]) * (p[2] - b[2])) * 2 <= Longer(a, b)
    BY <1>3 DEF IsNear
  <2> DEFINE dx == b[1] - a[1]
             dy == b[2] - a[2]
             u  == p[1] - a[1]
             v  == p[2] - a[2]
  <2>1. dx \in Int /\ dy \in Int /\ u \in Int /\ v \in Int
    BY <1>2 DEF Straight, StaysWithin
  <2>2. Distance(dy * u, dx * v) * 2 <= Longer(a, b)
    BY DEF Straight, IsNear
  <2>3. /\ a[2] - b[2] = - dy /\ a[1] - b[1] = - dx
        /\ p[1] - b[1] = u - dx /\ p[2] - b[2] = v - dy
    BY <1>2 DEF Straight, StaysWithin
  <2>4. (- dy) * (u - dx) = dy * dx - dy * u /\ (- dx) * (v - dy) = dx * dy - dx * v
    <3> HIDE DEF dx, dy, u, v
    <3> QED
      BY <2>1
  <2>5. dy * dx = dx * dy /\ dy * dx \in Int /\ dy * u \in Int /\ dx * v \in Int
    BY <2>1
  <2>6. Distance(dy * dx - dy * u, dx * dy - dx * v) = Distance(dy * u, dx * v)
    <3> HIDE DEF dx, dy, u, v
    <3> QED
      BY <2>5 DEF Distance
  <2> QED
    BY <2>2, <2>3, <2>4, <2>6
<1>6. StaysWithin(drawn, b, a) /\ OncePerStep(drawn, b, a) /\ NothingMissing(drawn, b, a)
  BY <1>3, <1>4, Zenon DEF Straight, StaysWithin, OncePerStep, NothingMissing
<1> QED
  BY <1>5, <1>6 DEF Straight

(* Rows for columns.                                                        *)
Turned(p) == <<p[2], p[1]>>

(* So it is with rows for columns.                                           *)
LEMMA OnItsSide ==
  ASSUME NEW a \in Int \X Int, NEW b \in Int \X Int, NEW drawn, Straight(drawn, a, b)
  PROVE  Straight({Turned(p) : p \in drawn}, Turned(a), Turned(b))
<1> DEFINE turned == {Turned(p) : p \in drawn}
<1>1. /\ Turned(a) \in Int \X Int /\ Turned(a)[1] = a[2] /\ Turned(a)[2] = a[1]
      /\ Turned(b) \in Int \X Int /\ Turned(b)[1] = b[2] /\ Turned(b)[2] = b[1]
  BY DEF Turned
<1>2. \A p \in drawn : p \in Int \X Int /\ Turned(p)[1] = p[2] /\ Turned(p)[2] = p[1]
                       /\ Turned(p) \in Int \X Int
  BY DEF Turned, Straight, StaysWithin
<1>3. Longer(Turned(a), Turned(b)) = Longer(a, b)
  BY <1>1 DEF Longer, Distance
<1>4. Turned(a) \in turned /\ Turned(b) \in turned
  BY DEF Straight
<1>5. StaysWithin(turned, Turned(a), Turned(b))
  BY <1>1, <1>2 DEF Straight, StaysWithin
<1>6. IsNear(turned, Turned(a), Turned(b))
  <2> SUFFICES ASSUME NEW p \in drawn
               PROVE  Distance((b[1] - a[1]) * (p[2] - a[2]), (b[2] - a[2]) * (p[1] - a[1])) * 2 <= Longer(a, b)
    BY <1>1, <1>2, <1>3 DEF IsNear
  <2>1. Distance((b[2] - a[2]) * (p[1] - a[1]), (b[1] - a[1]) * (p[2] - a[2])) * 2 <= Longer(a, b)
    BY DEF Straight, IsNear
  <2>2. (b[2] - a[2]) * (p[1] - a[1]) \in Int /\ (b[1] - a[1]) * (p[2] - a[2]) \in Int
    BY <1>2
  <2> QED
    BY <2>1, <2>2 DEF Distance
<1>7. OncePerStep(turned, Turned(a), Turned(b))
  <2> SUFFICES ASSUME NEW i \in {1, 2}, Distance(Turned(a)[i], Turned(b)[i]) = Longer(a, b),
                      NEW p \in drawn, NEW q \in drawn, Turned(p)[i] = Turned(q)[i]
               PROVE  p = q
    BY <1>3 DEF OncePerStep
  <2>1. \E j \in {1, 2} : Distance(a[j], b[j]) = Longer(a, b) /\ p[j] = q[j]
    BY <1>1, <1>2
  <2> QED
    BY <2>1 DEF Straight, OncePerStep
<1>8. NothingMissing(turned, Turned(a), Turned(b))
  <2>1. PICK i \in {1, 2} : /\ Distance(a[i], b[i]) = Longer(a, b)
                            /\ \A n \in Int : Within(n, a[i], b[i]) => \E p \in drawn : p[i] = n
    BY DEF Straight, NothingMissing
  <2>2. ASSUME NEW n \in Int, Within(n, a[i], b[i]) PROVE \E p \in turned : p[3 - i] = n
    <3>1. PICK p \in drawn : p[i] = n
      BY <2>1, <2>2
    <3>2. Turned(p) \in turned /\ Turned(p)[3 - i] = n
      BY <1>2, <3>1
    <3> QED
      BY <3>2
  <2>3. 3 - i \in {1, 2} /\ Turned(a)[3 - i] = a[i] /\ Turned(b)[3 - i] = b[i]
    BY <1>1
  <2> HIDE DEF turned
  <2> QED
    BY <1>3, <2>1, <2>2, <2>3 DEF NothingMissing
<1> QED
  BY <1>4, <1>5, <1>6, <1>7, <1>8 DEF Straight

-----------------------------------------------------------------------------
(* From pixels to cells of the matrix.                                      *)
CellsOf(drawn) == {Cell(p[1], p[2]) : p \in drawn}

Draws(cells, a, b) == \E drawn : Straight(drawn, a, b) /\ cells = CellsOf(drawn)

(* m_drawline draws a line, whichever end is given first and however steep  *)
(* it is.                                                                   *)
LEMMA LineCellsDraw ==
  ASSUME NEW x0 \in Int, NEW y0 \in Int, NEW x1 \in Int, NEW y1 \in Int
  PROVE  Draws(LineCells(x0, y0, x1, y1), <<x0, y0>>, <<x1, y1>>)
<1>1. PICK steep \in BOOLEAN : steep <=> Distance(y0, y1) > Distance(x0, x1)
  OBVIOUS
<1>2. PICK one \in Int \X Int : one = IF steep THEN <<y0, x0>> ELSE <<x0, y0>>
  OBVIOUS
<1>3. PICK other \in Int \X Int : other = IF steep THEN <<y1, x1>> ELSE <<x1, y1>>
  OBVIOUS
<1>4. PICK from \in Int \X Int : from = IF one[1] > other[1] THEN other ELSE one
  OBVIOUS
<1>5. PICK to \in Int \X Int : to = IF one[1] > other[1] THEN one ELSE other
  OBVIOUS
<1>6. LineCells(x0, y0, x1, y1) =
        {IF steep THEN Cell(Walk(from, to)[n].y, from[1] + n) ELSE Cell(from[1] + n, Walk(from, to)[n].y)
         : n \in 0 .. to[1] - from[1]}
  BY <1>1, <1>2, <1>3, <1>4, <1>5 DEF LineCells
<1>7. from[1] <= to[1] /\ Distance(from[2], to[2]) <= to[1] - from[1]
  BY <1>1, <1>2, <1>3, <1>4, <1>5 DEF Distance
<1> DEFINE P == Trail(from, to)
           N == 0 .. to[1] - from[1]
           y(n) == Walk(from, to)[n].y
<1>11. \A n \in N : \E p \in P : p[1] = from[1] + n /\ p[2] = y(n)
  <2> TAKE n \in N
  <2> DEFINE p == <<from[1] + n, y(n)>>
  <2>1. p \in P
    BY DEF Trail
  <2>2. p[1] = from[1] + n /\ p[2] = y(n)
    OBVIOUS
  <2> HIDE DEF p, P
  <2> QED
    BY <2>1, <2>2
<1>12. \A p \in P : \E n \in N : p[1] = from[1] + n /\ p[2] = y(n)
  BY DEF Trail
<1>8. Straight(P, one, other)
  <2>1. Straight(P, from, to)
    BY <1>7, TrailIsStraight
  <2>2. CASE one[1] > other[1]
    BY <2>1, <2>2, <1>4, <1>5, EitherEnd
  <2>3. CASE ~(one[1] > other[1])
    BY <2>1, <2>3, <1>4, <1>5
  <2> QED
    BY <2>2, <2>3
<1>9. CASE ~steep
  <2>1. LineCells(x0, y0, x1, y1) = {Cell(from[1] + n, Walk(from, to)[n].y) : n \in 0 .. to[1] - from[1]}
    BY <1>6, <1>9
  <2>2. CellsOf(P) = {Cell(from[1] + n, y(n)) : n \in N}
    <3> HIDE DEF P, N, y
    <3> QED
      BY <1>11, <1>12 DEF CellsOf
  <2> QED
    BY <2>1, <2>2, <1>2, <1>3, <1>8, <1>9 DEF Draws
<1>10. CASE steep
  <2>1. LineCells(x0, y0, x1, y1) = {Cell(Walk(from, to)[n].y, from[1] + n) : n \in 0 .. to[1] - from[1]}
    BY <1>6, <1>10
  <2>2. LineCells(x0, y0, x1, y1) = CellsOf({Turned(p) : p \in P})
    <3>1. CellsOf({Turned(p) : p \in P}) = {Cell(p[2], p[1]) : p \in P}
      <4>1. \A p : Turned(p)[1] = p[2] /\ Turned(p)[2] = p[1]
        BY DEF Turned
      <4> HIDE DEF P
      <4> QED
        BY <4>1 DEF CellsOf
    <3>2. {Cell(p[2], p[1]) : p \in P} = {Cell(y(n), from[1] + n) : n \in N}
      <4> HIDE DEF P, N, y
      <4> QED
        BY <1>11, <1>12
    <3> QED
      BY <2>1, <3>1, <3>2
  <2>3. Turned(one) = <<x0, y0>> /\ Turned(other) = <<x1, y1>>
    BY <1>2, <1>3, <1>10 DEF Turned
  <2>4. Straight({Turned(p) : p \in P}, Turned(one), Turned(other))
    BY <1>8, OnItsSide
  <2> QED
    BY <2>2, <2>3, <2>4 DEF Draws
<1> QED
  BY <1>9, <1>10

(* So does m_putaline, which leaves lines along a row or a column to        *)
(* others.                                                                  *)
LEMMA PutLineDraws ==
  ASSUME NEW x0 \in Int, NEW y0 \in Int, NEW x1 \in Int, NEW y1 \in Int
  PROVE  Draws(PutLine(x0, y0, x1, y1), <<x0, y0>>, <<x1, y1>>)
<1>1. Draws(LineCells(x0, y0, x1, y1), <<x0, y0>>, <<x1, y1>>)
  BY LineCellsDraw
<1>2. Draws(LineCells(x1, y1, x0, y0), <<x0, y0>>, <<x1, y1>>)
  BY LineCellsDraw, EitherEnd DEF Draws
<1>3. CASE x0 = x1
  <2>1. PutLine(x0, y0, x1, y1) = VLine(x0, IF y0 > y1 THEN y1 ELSE y0, Distance(y0, y1) + 1)
    BY <1>3 DEF PutLine
  <2>2. PutLine(x0, y0, x1, y1) = IF y0 > y1 THEN LineCells(x1, y1, x0, y0)
                                             ELSE LineCells(x0, y0, x1, y1)
    <3>1. y0 > y1 => y1 + (Distance(y0, y1) + 1) - 1 = y0
      BY DEF Distance
    <3>2. ~(y0 > y1) => y0 + (Distance(y0, y1) + 1) - 1 = y1
      BY DEF Distance
    <3> QED
      BY <1>3, <2>1, <3>1, <3>2 DEF VLine
  <2> QED
    BY <1>1, <1>2, <2>2
<1>4. CASE x0 # x1 /\ y0 = y1
  <2>1. PutLine(x0, y0, x1, y1) = HLine(IF x0 > x1 THEN x1 ELSE x0, y0, Distance(x0, x1) + 1)
    BY <1>4 DEF PutLine
  <2>2. PutLine(x0, y0, x1, y1) = IF x0 > x1 THEN LineCells(x1, y1, x0, y0)
                                             ELSE LineCells(x0, y0, x1, y1)
    <3>1. x0 > x1 => x1 + (Distance(x0, x1) + 1) - 1 = x0
      BY DEF Distance
    <3>2. ~(x0 > x1) => x0 + (Distance(x0, x1) + 1) - 1 = x1
      BY DEF Distance
    <3> QED
      BY <1>4, <2>1, <3>1, <3>2 DEF HLine
  <2> QED
    BY <1>1, <1>2, <2>2
<1>5. CASE x0 # x1 /\ y0 # y1
  BY <1>1, <1>5 DEF PutLine
<1> QED
  BY <1>3, <1>4, <1>5

(* On the matrix every pixel has a cell of its own: the rows have 64.         *)
LEMMA CellsApart ==
  ASSUME NEW x \in 1 .. MATRIXLEN, NEW y \in 1 .. MATRIXLEN,
         NEW u \in 1 .. MATRIXLEN, NEW v \in 1 .. MATRIXLEN, Cell(x, y) = Cell(u, v)
  PROVE  x = u /\ y = v
<1>1. x \in 1 .. 64 /\ y \in 1 .. 64 /\ u \in 1 .. 64 /\ v \in 1 .. 64
  BY DEF MATRIXLEN
<1>2. x + (y - 1) * 64 - 1 = u + (v - 1) * 64 - 1
  <2>1. x % 256 = x /\ y % 256 = y /\ u % 256 = u /\ v % 256 = v
    BY <1>1
  <2>2. (x + (y - 1) * 64) % 65536 = x + (y - 1) * 64
    BY <1>1
  <2>3. (u + (v - 1) * 64) % 65536 = u + (v - 1) * 64
    BY <1>1
  <2> QED
    BY <2>1, <2>2, <2>3 DEF Cell, MATRIXLEN
<1>3. /\ y < v => (y - 1) * 64 + 64 <= (v - 1) * 64
      /\ v < y => (v - 1) * 64 + 64 <= (y - 1) * 64
  BY <1>1
<1>4. ~(y < v) /\ ~(v < y)
  BY <1>1, <1>2, <1>3
<1>5. y = v
  BY <1>1, <1>4
<1> QED
  BY <1>1, <1>2, <1>5

LineTypeOK == line \in [1 .. 4 -> LineEnds]

(* Every line drawn on the matrix, whatever its ends: it has both ends,     *)
(* nothing outside of the rectangle between them, no pixel further than     *)
(* half of one from where it should be, and one pixel, no more, in every    *)
(* column (or row) that it passes.                                          *)
THEOREM LinesAreStraightEverywhere ==
  ASSUME NEW m \in 1 .. MATRIXLEN, LineEnds = 1 .. m
  PROVE  GraphicsSpec => []LinesAreStraight
<1>1. GraphicsInit => LineTypeOK
  BY GraphicsAssumption DEF GraphicsInit, LineTypeOK
<1>2. LineTypeOK /\ [GraphicsNext]_graphicsVars => LineTypeOK'
  <2> SUFFICES ASSUME LineTypeOK, [GraphicsNext]_graphicsVars PROVE LineTypeOK'
    OBVIOUS
  <2>1. CASE EndMoves
    BY <2>1 DEF EndMoves, LineTypeOK
  <2>2. CASE line' = line
    BY <2>2 DEF LineTypeOK
  <2> QED
    BY <2>1, <2>2 DEF GraphicsNext, graphicsVars, DrawsClock, DrawsScenery, MatrixCleared, DrawsBars
<1>3. LineTypeOK => LinesAreStraight
  <2> SUFFICES ASSUME LineTypeOK PROVE LinesAreStraight
    OBVIOUS
  <2>0. /\ \A i \in 1 .. 4 : line[i] \in 1 .. m
        /\ \A n \in 1 .. m : n \in Int /\ n \in Nat /\ n \in 1 .. MATRIXLEN
    BY DEF LineTypeOK, MATRIXLEN
  <2>00. <<line[1], line[2]>> \in (1 .. m) \X (1 .. m) /\ <<line[3], line[4]>> \in (1 .. m) \X (1 .. m)
    BY <2>0
  <2>1. PICK a \in (1 .. m) \X (1 .. m) : a = <<line[1], line[2]>>
    BY <2>00
  <2>2. PICK b \in (1 .. m) \X (1 .. m) : b = <<line[3], line[4]>>
    BY <2>00
  <2>3. a[1] = line[1] /\ a[2] = line[2] /\ b[1] = line[3] /\ b[2] = line[4]
    BY <2>1, <2>2
  <2>4. a \in Int \X Int /\ b \in Int \X Int /\ \A i \in {1, 2} : a[i] \in 1 .. m /\ b[i] \in 1 .. m
    OBVIOUS
  <2>5. a = <<a[1], a[2]>> /\ b = <<b[1], b[2]>>
    OBVIOUS
  <2>6. PICK P : Straight(P, a, b) /\ PutLine(a[1], a[2], b[1], b[2]) = CellsOf(P)
    BY <2>4, <2>5, PutLineDraws DEF Draws
  <2>7. \A p \in P : p \in (1 .. m) \X (1 .. m)
    BY <2>4, <2>6 DEF Straight, StaysWithin, Within
  <2> DEFINE drawn == {p \in LineEnds \X LineEnds :
                         Cell(p[1], p[2]) \in PutLine(line[1], line[2], line[3], line[4])}
  <2>8. drawn = P
    <3>1. P \subseteq drawn
      BY <2>3, <2>6, <2>7 DEF CellsOf
    <3>2. ASSUME NEW p \in drawn PROVE p \in P
      <4>1. PICK q \in P : Cell(p[1], p[2]) = Cell(q[1], q[2])
        BY <2>3, <2>6 DEF CellsOf
      <4>2. p[1] = q[1] /\ p[2] = q[2]
        <5>1. /\ p[1] \in 1 .. MATRIXLEN /\ p[2] \in 1 .. MATRIXLEN
              /\ q[1] \in 1 .. MATRIXLEN /\ q[2] \in 1 .. MATRIXLEN
          BY <2>0, <2>7
        <5> QED
          BY <4>1, <5>1, CellsApart
      <4>3. p = q
        BY <4>2, <2>7
      <4> QED
        BY <4>3
    <3> QED
      BY <3>1, <3>2
  <2> HIDE DEF drawn
  <2>9. \A i \in {1, 2} : a[i] = line[i] /\ b[i] = line[i + 2]
    BY <2>3
  <2>10. \A i \in {1, 2} : {n \in LineEnds : (n - a[i]) * (n - b[i]) <= 0}
                             = {n \in LineEnds : Within(n, a[i], b[i])}
    <3>1. \A n, one, other \in Nat : (n - one) * (n - other) <= 0 <=> Within(n, one, other)
      BY DEF Within
    <3>2. \A i \in {1, 2} : a[i] \in Nat /\ b[i] \in Nat
      BY <2>4
    <3> QED
      BY <2>0, <3>1, <3>2, Zenon
  <2>11. PICK i \in {1, 2} : /\ Distance(a[i], b[i]) = Longer(a, b)
                             /\ \A n \in Int : Within(n, a[i], b[i]) => \E p \in P : p[i] = n
    BY <2>6 DEF Straight, NothingMissing
  <2>12. {p[i] : p \in P} = {n \in LineEnds : (n - a[i]) * (n - b[i]) <= 0}
    <3>1. \A p \in P : p[i] \in LineEnds /\ Within(p[i], a[i], b[i])
      BY <2>6, <2>7 DEF Straight, StaysWithin
    <3>2. \A n \in LineEnds : Within(n, a[i], b[i]) => \E p \in P : p[i] = n
      BY <2>0, <2>11
    <3>3. {p[i] : p \in P} = {n \in LineEnds : Within(n, a[i], b[i])}
      BY <3>1, <3>2, Zenon
    <3> QED
      BY <2>10, <3>3
  <2>13. /\ \A p \in P : Distance((b[2] - a[2]) * (p[1] - a[1]), (b[1] - a[1]) * (p[2] - a[2])) * 2 <= Longer(a, b)
         /\ a \in P /\ b \in P
         /\ \A j \in {1, 2} : Distance(a[j], b[j]) = Longer(a, b) => \A p, q \in P : p[j] = q[j] => p = q
    BY <2>6 DEF Straight, IsNear, OncePerStep
  <2> DEFINE longer == IF Distance(line[1], line[3]) < Distance(line[2], line[4])
                       THEN Distance(line[2], line[4]) ELSE Distance(line[1], line[3])
  <2>14. Longer(a, b) = longer
    BY <2>3 DEF Longer
  <2> HIDE DEF longer
  <2>15. \A p \in drawn : Distance((line[4] - line[2]) * (p[1] - line[1]),
                                  (line[3] - line[1]) * (p[2] - line[2])) * 2 <= longer
    BY <2>3, <2>8, <2>13, <2>14
  <2>16. {<<line[1], line[2]>>, <<line[3], line[4]>>} \subseteq drawn
    BY <2>1, <2>2, <2>8, <2>13
  <2>17. \A j \in {1, 2} : Distance(line[j], line[j + 2]) = longer =>
           \A p, q \in drawn : p[j] = q[j] => p = q
    BY <2>8, <2>9, <2>13, <2>14
  <2>18. \E j \in {1, 2} : {p[j] : p \in drawn} = {n \in LineEnds :
           (n - line[j]) * (n - line[j + 2]) <= 0} /\ Distance(line[j], line[j + 2]) = longer
    BY <2>8, <2>9, <2>11, <2>12, <2>14
  <2> QED
    BY <2>15, <2>16, <2>17, <2>18 DEF LinesAreStraight, longer, drawn
<1> QED
  BY <1>1, <1>2, <1>3, PTL DEF GraphicsSpec

-----------------------------------------------------------------------------
(* Pictures.  The cells of rows of the panel, and where a pixel is.           *)
Rows(first, last) == {cell \in OnPanel : RowOf(cell) \in first .. last}

LEMMA CellIsAt ==
  ASSUME NEW x \in 1 .. 64, NEW y \in 1 .. 32
  PROVE  Cell(x, y) = x + (y - 1) * 64 - 1 /\ Cell(x, y) \in OnPanel /\ RowOf(Cell(x, y)) = y
<1>1. x % 256 = x /\ y % 256 = y
  OBVIOUS
<1>2. (x + (y - 1) * 64) % 65536 = x + (y - 1) * 64
  OBVIOUS
<1>3. Cell(x, y) = x + (y - 1) * 64 - 1
  BY <1>1, <1>2 DEF Cell, MATRIXLEN
<1>4. (x + (y - 1) * 64 - 1) \div 64 = y - 1
  OBVIOUS
<1>5. x + (y - 1) * 64 - 1 \in 0 .. 2047
  OBVIOUS
<1> QED
  BY <1>3, <1>4, <1>5 DEF OnPanel, RowOf, MATRIXLEN, FRAME_SIZE

(* Pixels are in the rows that they are drawn in; and every cell has a pixel. *)
LEMMA PixelInRows ==
  ASSUME NEW first \in 1 .. 32, NEW last \in 1 .. 32, NEW x \in 1 .. 64, NEW y \in first .. last
  PROVE  Cell(x, y) \in Rows(first, last)
BY CellIsAt DEF Rows

LEMMA CellHasPixel ==
  ASSUME NEW cell \in OnPanel
  PROVE  \E x \in 1 .. 64 : cell = Cell(x, RowOf(cell)) /\ RowOf(cell) \in 1 .. 32
<1> DEFINE x == (cell % 64) + 1
           y == (cell \div 64) + 1
<1>1. cell \in 0 .. 2047
  BY DEF OnPanel, FRAME_SIZE
<1>2. x \in 1 .. 64 /\ y \in 1 .. 32 /\ cell = x + (y - 1) * 64 - 1
  BY <1>1
<1>3. RowOf(cell) = y
  BY DEF RowOf, MATRIXLEN
<1> HIDE DEF x, y
<1> QED
  BY <1>2, <1>3, CellIsAt

(* A vertical line has the pixels of its column, no more and no fewer.        *)
LEMMA VLineIs ==
  ASSUME NEW x \in Int, NEW y \in Int, NEW h \in Nat \ {0}
  PROVE  VLine(x, y, h) = {Cell(x, row) : row \in y .. y + h - 1}
<1>1. PICK a \in Int \X Int : a = <<x, y>>
  OBVIOUS
<1>0. y + h - 1 \in Int
  OBVIOUS
<1>2. PICK b \in Int \X Int : b = <<x, y + h - 1>>
  BY <1>0
<1>3. a[1] = x /\ a[2] = y /\ b[1] = x /\ b[2] = y + h - 1
  BY <1>1, <1>2
<1>4. PICK P : Straight(P, a, b) /\ VLine(x, y, h) = CellsOf(P)
  BY <1>1, <1>2, LineCellsDraw DEF VLine, Draws
<1>5. \A p \in P : p \in Int \X Int /\ p[1] = x /\ p[2] \in y .. y + h - 1
  BY <1>3, <1>4 DEF Straight, StaysWithin, Within
<1>6. \A row \in y .. y + h - 1 : \E p \in P : p[2] = row
  <2>1. CASE h = 1
    BY <1>3, <1>4, <2>1 DEF Straight
  <2>2. CASE h > 1
    <3>1. Distance(a[1], b[1]) = 0 /\ Longer(a, b) = h - 1
      BY <1>3, <2>2 DEF Distance, Longer
    <3>2. \A n \in Int : Within(n, a[2], b[2]) => \E p \in P : p[2] = n
      BY <1>4, <2>2, <3>1 DEF Straight, NothingMissing
    <3> QED
      BY <1>3, <3>2 DEF Within
  <2> QED
    BY <2>1, <2>2
<1>7. CellsOf(P) \subseteq {Cell(x, row) : row \in y .. y + h - 1}
  BY <1>5 DEF CellsOf
<1>8. \A row \in y .. y + h - 1 : Cell(x, row) \in CellsOf(P)
  BY <1>5, <1>6 DEF CellsOf
<1> QED
  BY <1>4, <1>7, <1>8

(* Any line stays in the rows between its ends.                             *)
LEMMA LineInRows ==
  ASSUME NEW first \in 1 .. 32, NEW last \in 1 .. 32,
         NEW x0 \in 1 .. 64, NEW x1 \in 1 .. 64,
         NEW y0 \in first .. last, NEW y1 \in first .. last
  PROVE  LineCells(x0, y0, x1, y1) \subseteq Rows(first, last)
<1>0. x0 \in Int /\ y0 \in Int /\ x1 \in Int /\ y1 \in Int
  OBVIOUS
<1>1. PICK a \in Int \X Int : a = <<x0, y0>>
  BY <1>0
<1>2. PICK b \in Int \X Int : b = <<x1, y1>>
  BY <1>0
<1>3. a[1] = x0 /\ a[2] = y0 /\ b[1] = x1 /\ b[2] = y1
  BY <1>1, <1>2
<1>4. PICK P : Straight(P, a, b) /\ LineCells(x0, y0, x1, y1) = CellsOf(P)
  BY <1>1, <1>2, LineCellsDraw DEF Draws
<1>5. \A p \in P : p[1] \in 1 .. 64 /\ p[2] \in first .. last
  BY <1>3, <1>4 DEF Straight, StaysWithin, Within
<1> QED
  BY <1>4, <1>5, PixelInRows DEF CellsOf

(* What the clock clears are all cells of the first fourteen rows.            *)
LEMMA ClearedRows == ClockClears = Rows(1, 14)
<1>1. ClockClears = UNION {VLine(col, 1, 14) : col \in 1 .. 64}
  BY DEF ClockClears, FillRect
<1>2. \A col \in 1 .. 64 : VLine(col, 1, 14) = {Cell(col, row) : row \in 1 .. 14}
  <2>1. ASSUME NEW col \in 1 .. 64
        PROVE  VLine(col, 1, 14) = {Cell(col, row) : row \in 1 .. 1 + 14 - 1}
    BY VLineIs
  <2>2. 1 + 14 - 1 = 14
    OBVIOUS
  <2> QED
    BY <2>1, <2>2
<1>3. ClockClears \subseteq Rows(1, 14)
  <2>1. \A col \in 1 .. 64, row \in 1 .. 14 : Cell(col, row) \in Rows(1, 14)
    <3>1. 1 \in 1 .. 32 /\ 14 \in 1 .. 32
      OBVIOUS
    <3> QED
      BY <3>1, PixelInRows
  <2> QED
    BY <1>1, <1>2, <2>1
<1>4. ASSUME NEW cell \in Rows(1, 14) PROVE cell \in ClockClears
  <2>1. PICK x \in 1 .. 64 : cell = Cell(x, RowOf(cell))
    BY CellHasPixel DEF Rows
  <2>2. RowOf(cell) \in 1 .. 14
    BY DEF Rows
  <2> QED
    BY <1>1, <1>2, <2>1, <2>2
<1> QED
  BY <1>3, <1>4

-----------------------------------------------------------------------------
(* The characters, and the texts of one and of two of them.                   *)
GlyphFits(g) ==
  /\ g.w \in 0 .. 9 /\ g.h \in 0 .. 12 /\ g.xAdvance \in 10 .. 11
  /\ g.xo \in 0 .. 4 /\ g.yo \in -11 .. 1 /\ g.xo + g.w <= 10
  /\ g.w > 0 /\ g.h > 0 => g.xo > 0 /\ g.yo + g.h <= 1

LEMMA FontsFit ==
  ASSUME NEW font \in {gfxFont, gfxFontSmall}, NEW c \in DOMAIN font.glyph
  PROVE  GlyphFits(font.glyph[c])
<1>1. CASE font = gfxFont
  <2>1. font.glyph[c] \in {Glyph(0, 0, 11, 0, 1), Glyph(3, 10, 11, 4, -9), Glyph(9, 12, 11, 1, -11)}
    BY <1>1, Zenon DEF gfxFont
  <2> QED
    BY <2>1 DEF Glyph, GlyphFits
<1>2. CASE font = gfxFontSmall
  <2>1. font.glyph[c] \in {Glyph(4, 2, 10, 3, -5), Glyph(2, 2, 10, 4, -1),
                           Glyph(9, 11, 10, 1, -10), Glyph(8, 11, 10, 1, -10)}
    BY <1>2, Zenon DEF gfxFontSmall
  <2> QED
    BY <2>1 DEF Glyph, GlyphFits
<1> QED
  BY <1>1, <1>2

(* A pen on the panel, in a line that nothing more than two characters fill.  *)
Lit(pen, y) == \A p \in pen.lit : p[1] \in Rows(y - 11, y)

LEMMA CharFits ==
  ASSUME NEW font \in {gfxFont, gfxFontSmall}, NEW c, NEW y \in {12, 15}, NEW pen,
         pen.x \in 0 .. 43, pen.y = y, Lit(pen, y)
  PROVE  LET after == WriteChar(pen, c, font)
         IN after.x \in 0 .. pen.x + 11 /\ after.y = y /\ Lit(after, y)
<1>1. CASE c \notin DOMAIN font.glyph
  BY <1>1 DEF WriteChar
<1>2. CASE c \in DOMAIN font.glyph
  <2> DEFINE g == font.glyph[c]
             seen == g.w > 0 /\ g.h > 0
             after == WriteChar(pen, c, font)
  <2>1. GlyphFits(g)
    BY <1>2, FontsFit
  <2>2. ~(pen.x + g.xo + g.w > 64)
    BY <2>1 DEF GlyphFits
  <2>3. after = [x |-> pen.x + g.xAdvance, y |-> pen.y,
                 lit |-> IF seen THEN pen.lit \cup (CharCells(pen.x, pen.y, g) \X {c}) ELSE pen.lit]
    BY <1>2, <2>2 DEF WriteChar, MATRIXLEN
  <2> HIDE DEF g, after
  <2>4. seen => CharCells(pen.x, y, g) \subseteq Rows(y - 11, y)
    <3> SUFFICES ASSUME seen, NEW xx \in 0 .. g.w - 1, NEW yy \in 0 .. g.h - 1
                 PROVE  Cell(pen.x + g.xo + xx, y + g.yo + yy) \in Rows(y - 11, y)
      BY DEF CharCells
    <3>1. pen.x + g.xo + xx \in 1 .. 64 /\ y + g.yo + yy \in y - 11 .. y
      BY <2>1 DEF GlyphFits
    <3>2. y - 11 \in 1 .. 32 /\ y \in 1 .. 32
      OBVIOUS
    <3> QED
      BY <3>1, <3>2, PixelInRows
  <2>5. after.x = pen.x + g.xAdvance /\ after.y = y
        /\ after.lit = IF seen THEN pen.lit \cup (CharCells(pen.x, y, g) \X {c}) ELSE pen.lit
    BY <2>3
  <2>6. Lit(after, y)
    BY <2>4, <2>5 DEF Lit
  <2>7. after.x \in 0 .. pen.x + 11
    BY <2>1, <2>5 DEF GlyphFits
  <2> QED
    BY <2>5, <2>6, <2>7 DEF after
<1> QED
  BY <1>1, <1>2

(* The equation of WriteAt, as far as two characters.                        *)
Written(x, y, word, font) ==
  LET first == WriteChar([x |-> x, y |-> y, lit |-> {}], word[1], font)
  IN IF Len(word) = 1 THEN first.lit ELSE WriteChar(first, word[2], font).lit

LEMMA TextWritten ==
  ASSUME NEW x, NEW y, NEW font, NEW word, NEW n \in {1, 2}, Len(word) = n
  PROVE  WriteAt(x, y, word, font) = Written(x, y, word, font)
<1> DEFINE none == [x |-> x, y |-> y, lit |-> {}]
           first == WriteChar(none, word[1], font)
           second == WriteChar(first, word[2], font)
           Def(g) == [k \in 0 .. Len(word) |->
                        IF k = 0 THEN none ELSE WriteChar(g[k - 1], word[k], font)]
           pen == CHOOSE h : h = Def(h)
           g == [k \in 0 .. n |-> IF k = 0 THEN none ELSE IF k = 1 THEN first ELSE second]
<1>1. g = Def(g)
  <2> HIDE DEF none
  <2>1. g[0] = none /\ g[1] = first
    OBVIOUS
  <2>2. ASSUME NEW k \in 0 .. n PROVE g[k] = IF k = 0 THEN none ELSE WriteChar(g[k - 1], word[k], font)
    <3>1. k = 0 \/ k = 1 \/ k = 2
      OBVIOUS
    <3> QED
      BY <2>1, <3>1
  <2> QED
    BY <2>2
<1>2. pen = Def(pen)
  <2> HIDE DEF Def, g
  <2> QED
    BY <1>1
<1>3. WriteAt(x, y, word, font) = pen[Len(word)].lit
  BY DEF WriteAt
<1>4. \A k \in 0 .. n : pen[k] = IF k = 0 THEN none ELSE WriteChar(pen[k - 1], word[k], font)
  <2> HIDE DEF none, pen
  <2> QED
    BY <1>2
<1>5. pen[0] = none
  <2> HIDE DEF none, pen
  <2> QED
    BY <1>4
<1>6. pen[1] = first
  <2> HIDE DEF none, pen
  <2>1. 1 \in 0 .. n /\ 1 - 1 = 0
    OBVIOUS
  <2> QED
    BY <1>4, <1>5, <2>1
<1>7. n = 2 => pen[2] = second
  <2> HIDE DEF none, pen, first
  <2>1. 2 - 1 = 1
    OBVIOUS
  <2> QED
    BY <1>4, <1>6, <2>1
<1>8. Written(x, y, word, font) = IF n = 1 THEN first.lit ELSE second.lit
  BY DEF Written
<1> HIDE DEF pen, first, second
<1> QED
  BY <1>3, <1>6, <1>7, <1>8

(* One or two characters stay in their line.                                *)
LEMMA TextFits ==
  ASSUME NEW font \in {gfxFont, gfxFontSmall}, NEW word, NEW n \in {1, 2}, Len(word) = n,
         NEW x \in 0 .. 32, NEW y \in {12, 15}
  PROVE  \A p \in WriteAt(x, y, word, font) : p[1] \in Rows(y - 11, y)
<1> DEFINE none == [x |-> x, y |-> y, lit |-> {}]
           first == WriteChar(none, word[1], font)
           second == WriteChar(first, word[2], font)
<1>1. none.x \in 0 .. 32 /\ none.x \in 0 .. 43 /\ none.y = y /\ Lit(none, y)
  BY DEF Lit
<1> HIDE DEF none
<1>2. first.x \in 0 .. none.x + 11 /\ first.y = y /\ Lit(first, y)
  BY <1>1, CharFits
<1> HIDE DEF first
<1>3. Lit(second, y)
  <2>1. first.x \in 0 .. 43
    <3>1. \A one \in 0 .. 32 : \A other \in 0 .. one + 11 : other \in 0 .. 43
      OBVIOUS
    <3> QED
      BY <1>1, <1>2, <3>1, Zenon
  <2> QED
    BY <1>2, <2>1, CharFits
<1>4. WriteAt(x, y, word, font) = IF n = 1 THEN first.lit ELSE second.lit
  <2>1. WriteAt(x, y, word, font) = Written(x, y, word, font)
    BY TextWritten
  <2>2. Written(x, y, word, font) = IF n = 1 THEN first.lit ELSE second.lit
    BY DEF Written, first, second, none
  <2> QED
    BY <2>1, <2>2
<1> HIDE DEF second
<1> QED
  BY <1>2, <1>3, <1>4 DEF Lit

(* So does what the clock shows.                                            *)
LEMMA TextInRows ==
  ASSUME NEW t \in HourTexts \cup TempTexts, weatherShown \in BOOLEAN, NEW p \in TextCells(t)
  PROVE  /\ p[1] \in OnPanel /\ RowOf(p[1]) <= 15
         /\ RowOf(p[1]) = 15 => ~weatherShown
<1> DEFINE S == {t[i] : i \in 1 .. 5}
           one == SubSeq(t, 1, 2)
           two == SubSeq(t, 3, 3)
           three == SubSeq(t, 4, 5)
           x == IF t \in HourTexts THEN 4 ELSE 5
           font == IF t \in HourTexts THEN gfxFont ELSE gfxFontSmall
<1>2. Len(one) = 2 /\ Len(two) = 1 /\ Len(three) = 2
  BY SubSeqProperties
<1>3. ClockRow \in {12, 15} /\ (ClockRow = 15 => ~weatherShown)
  BY DEF ClockRow
<1>4. x \in 0 .. 32 /\ x + 19 \in 0 .. 32 /\ x + 27 \in 0 .. 32 /\ font \in {gfxFont, gfxFontSmall}
  OBVIOUS
<1>5. TextCells(t) = WriteAt(x, ClockRow, one, font) \cup WriteAt(x + 19, ClockRow, two, font)
                       \cup WriteAt(x + 27, ClockRow, three, font)
  BY DEF TextCells
<1> HIDE DEF one, two, three, x, font
<1>6. p[1] \in Rows(ClockRow - 11, ClockRow)
  BY <1>2, <1>3, <1>4, <1>5, TextFits
<1> QED
  BY <1>3, <1>6 DEF Rows

-----------------------------------------------------------------------------
(* The signs beside the time, the picture below it, and the bars.             *)
LEMMA BitmapInRows ==
  ASSUME NEW w \in 1 .. 64, NEW h \in 1 .. 32, NEW x \in 1 .. 64, NEW y \in 1 .. 32,
         x + w <= 65, y + h <= 33
  PROVE  BitmapAt(w, h, x, y) \subseteq Rows(y, y + h - 1)
<1>1. y + h - 1 \in 1 .. 32
  OBVIOUS
<1>2. ASSUME NEW u \in x .. w + x - 1, NEW v \in y .. h + y - 1
      PROVE  Cell(u, v) \in Rows(y, y + h - 1)
  <2>1. u \in 1 .. 64 /\ v \in y .. y + h - 1
    OBVIOUS
  <2> QED
    BY <1>1, <2>1, PixelInRows
<1> QED
  BY <1>2 DEF BitmapAt

LEMMA SignInRows ==
  ASSUME NEW y \in {1, 4}
  PROVE  AlarmSign(55, y) \subseteq Rows(1, 14)
<1>1. /\ 55 + 1 = 56 /\ 55 + 2 = 57 /\ 55 + 3 = 58 /\ 55 + 4 = 59 /\ 55 + 5 = 60
      /\ y \in 1 .. 14 /\ y + 1 \in 1 .. 14 /\ y + 2 \in 1 .. 14 /\ y + 3 \in 1 .. 14 /\ y + 4 \in 1 .. 14
      /\ 1 \in 1 .. 32 /\ 14 \in 1 .. 32
      /\ {56, 57, 58, 59, 60} \subseteq 1 .. 64
  OBVIOUS
<1>2. Cell(58, y) \in Rows(1, 14) /\ Cell(58, y + 4) \in Rows(1, 14)
  BY <1>1, PixelInRows
<1>3. LineCells(57, y + 1, 59, y + 1) \subseteq Rows(1, 14)
  BY <1>1, LineInRows
<1>4. LineCells(57, y + 2, 59, y + 2) \subseteq Rows(1, 14)
  BY <1>1, LineInRows
<1>5. LineCells(56, y + 3, 60, y + 3) \subseteq Rows(1, 14)
  BY <1>1, LineInRows
<1> QED
  BY <1>1, <1>2, <1>3, <1>4, <1>5 DEF AlarmSign

(* A tone is in the bins of one column, unless it is in none.                *)
ColumnsOf(t) == {c \in 1 .. MATRIXLEN : t \in BinsOf(c)}
NotShown == {0, 1, 255} \cup 232 .. 237

LEMMA OneColumn ==
  ASSUME NEW t \in 0 .. 255
  PROVE  IF t \in NotShown THEN ColumnsOf(t) = {}
                            ELSE \E col \in 1 .. MATRIXLEN : ColumnsOf(t) = {col}
<1> DEFINE col == IF t < 16 THEN t \div 2
                  ELSE IF t < 232 THEN (t - 16) \div 4 + 8
                  ELSE IF t < 246 THEN 62 ELSE IF t < 254 THEN 63 ELSE 64
<1>1. ASSUME NEW c \in 1 .. 64 PROVE t \in BinsOf(c) <=> t \notin NotShown /\ c = col
  <2>1. CASE c \in 1 .. 7
    <3>1. t \in BinsOf(c) <=> t \in 2 * c .. 2 * c + 1
      BY <2>1 DEF BinsOf
    <3>2. t < 16 => /\ t \div 2 \in 0 .. 7
                    /\ t = 2 * (t \div 2) \/ t = 2 * (t \div 2) + 1
      OBVIOUS
    <3> QED
      BY <2>1, <3>1, <3>2 DEF NotShown
  <2>2. CASE c \in 8 .. 61
    <3> DEFINE q == (t - 16) \div 4
    <3>1. t \in BinsOf(c) <=> t \in 16 + 4 * (c - 8) .. 19 + 4 * (c - 8)
      BY <2>2 DEF BinsOf
    <3>2. ASSUME t \in 16 .. 231
          PROVE  q \in 0 .. 53 /\ t \in 16 + 4 * q .. 19 + 4 * q
      BY <3>2
    <3>3. CASE t \in 16 .. 231
      <4>1. col = q + 8 /\ t \notin NotShown
        BY <3>3 DEF NotShown
      <4> HIDE DEF q, col
      <4> QED
        BY <2>2, <3>1, <3>2, <3>3, <4>1
    <3>4. CASE t < 16
      <4>1. t \notin NotShown => col \in 0 .. 7
        BY <3>4 DEF NotShown
      <4> HIDE DEF col
      <4> QED
        BY <2>2, <3>1, <3>4, <4>1
    <3>5. CASE t > 231
      <4>1. col \in 62 .. 64
        BY <3>5
      <4> HIDE DEF col
      <4> QED
        BY <2>2, <3>1, <3>5, <4>1
    <3> QED
      BY <3>3, <3>4, <3>5
  <2>3. CASE c = 62
    BY <2>3 DEF BinsOf, NotShown
  <2>4. CASE c = 63
    BY <2>4 DEF BinsOf, NotShown
  <2>5. CASE c = 64
    BY <2>5 DEF BinsOf, NotShown
  <2> QED
    BY <2>1, <2>2, <2>3, <2>4, <2>5
<1>2. t \notin NotShown => col \in 1 .. 64
  BY DEF NotShown
<1> HIDE DEF col
<1>3. MATRIXLEN = 64
  BY DEF MATRIXLEN
<1> QED
  BY <1>1, <1>2, <1>3, Zenon DEF ColumnsOf

(* A bar with its marker has the pixels of a bar.                            *)
BarOf(col, val) ==
  IF val = 0 THEN {} ELSE Over(Bar(col, val) \X {"base"}, Marker(col, val), "marker")

LEMMA BarIs ==
  ASSUME NEW col \in 1 .. MATRIXLEN, NEW val \in 1 .. 30
  PROVE  /\ {p[1] : p \in BarOf(col, val)} = {Cell(col, row) : row \in 31 - val .. 31}
         /\ \A p \in BarOf(col, val) : p[1] \in OnPanel
<1> DEFINE cells == {Cell(col, row) : row \in 31 - val .. 31}
           top == Cell(col, 31 - val)
<1>0. col \in 1 .. 64 /\ 31 - val \in 1 .. 30 /\ 31 - val + (val + 1) - 1 = 31 /\ val + 1 \in Nat \ {0}
  BY DEF MATRIXLEN
<1>1. Bar(col, val) = cells
  <2>1. VLine(col, 31 - val, val + 1) = {Cell(col, row) : row \in 31 - val .. 31 - val + (val + 1) - 1}
    BY <1>0, VLineIs
  <2> QED
    BY <1>0, <2>1 DEF Bar
<1>2. Marker(col, val) = {top} /\ top \in cells
  BY <1>0 DEF Marker
<1>3. cells \subseteq OnPanel
  <2>1. \A row \in 31 - val .. 31 : row \in 1 .. 32
    BY <1>0
  <2> QED
    BY <1>0, <2>1, CellIsAt
<1> HIDE DEF cells, top
<1>4. BarOf(col, val) = {p \in cells \X {"base"} : p[1] \notin {top}} \cup ({top} \X {"marker"})
  BY <1>1, <1>2 DEF BarOf, Over
<1>5. ASSUME NEW p \in BarOf(col, val) PROVE p[1] \in cells
  BY <1>2, <1>4
<1>6. ASSUME NEW cell \in cells PROVE \E p \in BarOf(col, val) : p[1] = cell
  <2>1. CASE cell = top
    <3>1. <<top, "marker">> \in BarOf(col, val) /\ <<top, "marker">>[1] = top
      BY <1>4
    <3> QED
      BY <2>1, <3>1
  <2>2. CASE cell # top
    <3>1. <<cell, "base">> \in BarOf(col, val) /\ <<cell, "base">>[1] = cell
      BY <1>4, <2>2
    <3> QED
      BY <3>1
  <2> QED
    BY <2>1, <2>2
<1>7. {p[1] : p \in BarOf(col, val)} = cells
  BY <1>5, <1>6
<1> QED
  BY <1>3, <1>5, <1>7 DEF cells

-----------------------------------------------------------------------------
(* What is in the picture, and in which rows.                               *)
IsOf(p) ==
  \/ p \in TextCells(text)
  \/ p[2] = "scenery" /\ RowOf(p[1]) >= 17
  \/ p[2] = "bell" /\ bell /\ RowOf(p[1]) <= 14
  \/ p[2] = "rain" /\ rain /\ RowOf(p[1]) <= 14
  \/ ~weatherShown /\ RowOf(p[1]) = 15

PictureInv ==
  /\ now \in {"nothing", "line", "clock", "bars"}
  /\ weatherShown \in BOOLEAN
  /\ now \in {"nothing", "line"} => picture = {}
  /\ \A p \in picture : p[1] \in OnPanel
  /\ now = "clock" => text \in HourTexts \cup TempTexts /\ \A p \in picture : IsOf(p)
  /\ now = "bars" => tone \in 0 .. 255 /\ level \in 0 .. 255 /\
       IF level = 0 \/ tone \in NotShown
       THEN picture = {}
       ELSE \E col \in 1 .. MATRIXLEN :
              {p[1] : p \in picture} =
                {Cell(col, row) : row \in 31 - (IF level > 30 THEN 30 ELSE level) .. 31}

(* The clock draws over what it has cleared.                                *)
LEMMA PictureOfClock ==
  ASSUME PictureInv, DrawsClock
  PROVE  PictureInv'
<1> DEFINE cleared == {p \in picture : p[1] \notin ClockClears}
           told    == cleared \cup TextCells(text')
           sign    == AlarmSign(55, IF weatherShown THEN 1 ELSE 4)
           rung    == IF bell' THEN Over(told, sign, "bell") ELSE told
           drop    == BitmapAt(7, 8, 55, 6)
<1>1. /\ now' = "clock" /\ text' \in HourTexts \cup TempTexts /\ weatherShown' = weatherShown
      /\ bell' \in BOOLEAN /\ rain' \in BOOLEAN
      /\ picture' = IF rain' /\ weatherShown THEN Over(rung, drop, "rain") ELSE rung
  BY DEF DrawsClock
<1>2. weatherShown \in BOOLEAN /\ TextCells(text)' = TextCells(text')
  BY <1>1 DEF PictureInv, TextCells, ClockRow
<1>3. ASSUME NEW p \in cleared
      PROVE  p[1] \in OnPanel /\ (\/ p[2] = "scenery" /\ RowOf(p[1]) >= 17
                                  \/ ~weatherShown /\ RowOf(p[1]) = 15)
  <2>1. p \in picture /\ p[1] \in OnPanel /\ p[1] \notin Rows(1, 14)
    BY ClearedRows DEF PictureInv
  <2>2. RowOf(p[1]) \in 1 .. 32
    BY <2>1, CellHasPixel
  <2>3. RowOf(p[1]) >= 15
    BY <2>1, <2>2 DEF Rows
  <2>4. now = "clock" /\ IsOf(p)
    BY <2>1 DEF PictureInv, DrawsClock
  <2>5. CASE p \in TextCells(text)
    <3>1. RowOf(p[1]) <= 15 /\ (RowOf(p[1]) = 15 => ~weatherShown)
      BY <2>4, <2>5, TextInRows DEF PictureInv
    <3> QED
      BY <2>1, <2>2, <2>3, <3>1
  <2> QED
    BY <2>1, <2>2, <2>3, <2>4, <2>5 DEF IsOf
<1>4. ASSUME NEW p \in told PROVE p[1] \in OnPanel /\ IsOf(p)'
  <2>1. CASE p \in TextCells(text')
    BY <1>1, <1>2, <2>1, TextInRows DEF IsOf
  <2>2. CASE p \in cleared
    BY <1>1, <1>3, <2>2 DEF IsOf
  <2> QED
    BY <2>1, <2>2
<1>5. sign \subseteq Rows(1, 14) /\ drop \subseteq Rows(1, 14)
  <2>1. sign \subseteq Rows(1, 14)
    BY SignInRows
  <2>2. drop \subseteq Rows(6, 13)
    <3>1. BitmapAt(7, 8, 55, 6) \subseteq Rows(6, 6 + 8 - 1)
      <4>1. 7 \in 1 .. 64 /\ 8 \in 1 .. 32 /\ 55 \in 1 .. 64 /\ 6 \in 1 .. 32 /\ 55 + 7 <= 65 /\ 6 + 8 <= 33
        OBVIOUS
      <4> QED
        BY <4>1, BitmapInRows, Zenon
    <3>2. 6 + 8 - 1 = 13
      OBVIOUS
    <3> QED
      BY <3>1, <3>2
  <2> QED
    BY <2>1, <2>2 DEF Rows
<1> HIDE DEF sign, drop, told
<1>6. ASSUME NEW p \in rung PROVE p[1] \in OnPanel /\ IsOf(p)'
  <2>1. CASE p \in told
    BY <1>4, <2>1
  <2>2. CASE bell' /\ p \in sign \X {"bell"}
    BY <1>5, <2>2 DEF IsOf, Rows
  <2> QED
    BY <2>1, <2>2 DEF Over
<1> HIDE DEF rung
<1>7. ASSUME NEW p \in picture' PROVE p[1] \in OnPanel /\ IsOf(p)'
  <2>1. CASE p \in rung
    BY <1>6, <2>1
  <2>2. CASE rain' /\ p \in drop \X {"rain"}
    BY <1>5, <2>2 DEF IsOf, Rows
  <2> QED
    BY <1>1, <2>1, <2>2 DEF Over
<1> QED
  BY <1>1, <1>2, <1>7 DEF PictureInv

(* A tone is drawn in the one column that shows it.                          *)
LEMMA PictureOfBars ==
  ASSUME PictureInv, DrawsBars
  PROVE  PictureInv'
<1> DEFINE val == Clamped(level')
           cols == ColumnsOf(tone')
<1>1. now' = "bars" /\ tone' \in 0 .. 255 /\ level' \in 0 .. 255 /\ weatherShown' = weatherShown
  BY GraphicsAssumption DEF DrawsBars
<1>2. picture' = UNION {BarOf(col, val) : col \in cols}
  BY DEF DrawsBars, BarOf, ColumnsOf
<1>3. val = (IF level' > 30 THEN 30 ELSE level') /\ val \in 0 .. 30 /\ (val = 0 <=> level' = 0)
  BY <1>1 DEF Clamped
<1> HIDE DEF val, cols
<1>4. IF tone' \in NotShown THEN cols = {} ELSE \E col \in 1 .. MATRIXLEN : cols = {col}
  BY <1>1, OneColumn DEF cols
<1>5. CASE val = 0 \/ tone' \in NotShown
  <2>1. picture' = {}
    BY <1>2, <1>4, <1>5 DEF BarOf
  <2> QED
    BY <1>1, <1>3, <1>5, <2>1 DEF PictureInv
<1>6. CASE val # 0 /\ tone' \notin NotShown
  <2>1. PICK col \in 1 .. MATRIXLEN : cols = {col}
    BY <1>4, <1>6
  <2>2. picture' = BarOf(col, val)
    BY <1>2, <2>1
  <2>3. val \in 1 .. 30
    BY <1>3, <1>6
  <2>4. /\ {p[1] : p \in picture'} = {Cell(col, row) : row \in 31 - val .. 31}
        /\ \A p \in picture' : p[1] \in OnPanel
    BY <2>2, <2>3, BarIs
  <2>5. {p[1] : p \in picture'} =
          {Cell(col, row) : row \in 31 - (IF level' > 30 THEN 30 ELSE level') .. 31}
    BY <1>3, <2>4
  <2>6. ~(level' = 0 \/ tone' \in NotShown)
    BY <1>3, <1>6
  <2> QED
    BY <1>1, <2>4, <2>5, <2>6 DEF PictureInv
<1> QED
  BY <1>5, <1>6

(* Every picture that is drawn is what it says it is: no rest of what was      *)
(* there before, whatever the texts, tones and levels are.                   *)
THEOREM PicturesAreFresh == GraphicsSpec => []PictureIsFresh
<1>1. GraphicsInit => PictureInv
  BY DEF GraphicsInit, PictureInv
<1>2. PictureInv /\ [GraphicsNext]_graphicsVars => PictureInv'
  <2> SUFFICES ASSUME PictureInv, [GraphicsNext]_graphicsVars PROVE PictureInv'
    OBVIOUS
  <2>1. CASE EndMoves
    BY <2>1 DEF EndMoves, PictureInv
  <2>2. CASE DrawsScenery
    <3>1. BitmapAt(64, 16, 1, 17) \subseteq Rows(17, 32)
      <4>1. BitmapAt(64, 16, 1, 17) \subseteq Rows(17, 17 + 16 - 1)
        <5>1. /\ 64 \in 1 .. 64 /\ 16 \in 1 .. 32 /\ 1 \in 1 .. 64 /\ 17 \in 1 .. 32
              /\ 1 + 64 <= 65 /\ 17 + 16 <= 33
          OBVIOUS
        <5> QED
          BY <5>1, BitmapInRows, Zenon
      <4>2. 17 + 16 - 1 = 32
        OBVIOUS
      <4> QED
        BY <4>1, <4>2
    <3>2. now = "clock" /\ now' = "clock" /\ UNCHANGED <<text, bell, rain, weatherShown>>
          /\ picture' = Over(picture, BitmapAt(64, 16, 1, 17), "scenery")
      BY <2>2 DEF DrawsScenery
    <3>3. TextCells(text)' = TextCells(text)
      BY <3>2 DEF TextCells, ClockRow
    <3>4. ASSUME NEW p \in picture' PROVE p[1] \in OnPanel /\ IsOf(p)'
      <4>1. CASE p \in picture
        BY <3>2, <3>3, <4>1 DEF PictureInv, IsOf
      <4>2. CASE p \in BitmapAt(64, 16, 1, 17) \X {"scenery"}
        BY <3>1, <4>2 DEF IsOf, Rows
      <4> QED
        BY <3>2, <4>1, <4>2 DEF Over
    <3> QED
      BY <3>2, <3>4 DEF PictureInv
  <2>3. CASE MatrixCleared
    BY <2>3 DEF MatrixCleared, PictureInv
  <2>4. CASE UNCHANGED graphicsVars
    <3>1. TextCells(text)' = TextCells(text)
      BY <2>4 DEF graphicsVars, TextCells, ClockRow
    <3>2. UNCHANGED <<now, weatherShown, picture, text, tone, level>> /\ \A p \in picture : IsOf(p) => IsOf(p)'
      BY <2>4, <3>1 DEF graphicsVars, IsOf
    <3> QED
      BY <3>2 DEF PictureInv
  <2> QED
    BY <2>1, <2>2, <2>3, <2>4, PictureOfClock, PictureOfBars DEF GraphicsNext
<1>3. PictureInv => PictureIsFresh
  <2> SUFFICES ASSUME PictureInv PROVE PictureIsFresh
    OBVIOUS
  <2>1. now = "clock" => \A p \in picture \ TextCells(text) :
          \/ p[2] = "scenery" /\ RowOf(p[1]) >= 17
          \/ p[2] = "bell" /\ bell
          \/ p[2] = "rain" /\ rain
          \/ ~weatherShown /\ RowOf(p[1]) = 15
    BY DEF PictureInv, IsOf
  <2>2. (\A p \in picture : p[1] \in OnPanel) /\
        (now = "bars" => IF level = 0 \/ tone \in {0, 1, 255} \cup 232 .. 237
           THEN picture = {}
           ELSE \E col \in 1 .. MATRIXLEN :
                  {p[1] : p \in picture} =
                    {Cell(col, row) : row \in 31 - (IF level > 30 THEN 30 ELSE level) .. 31})
    BY DEF PictureInv, NotShown
  <2> QED
    BY <2>1, <2>2, Zenon DEF PictureIsFresh
<1> QED
  BY <1>1, <1>2, <1>3, PTL DEF GraphicsSpec
=============================================================================
