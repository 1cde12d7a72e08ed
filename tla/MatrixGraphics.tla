---------------------------- MODULE MatrixGraphics ----------------------------
(***************************************************************************)
(* What is drawn on the LED matrix: lines, rectangles, characters and bitmaps *)
(* (matrix/matrixlib.c), of which the clock (clock/plclock.c), the picture of *)
(* the weather (weather/weather-scenery.c) and the analyser                  *)
(* (matrix/matrix-thread.c) are made.  A picture is the set of cells of the   *)
(* edit buffer that have been written since they were cleared, each with what *)
(* was written.  The pixels of a character are abstracted to its box, so that *)
(* of two different characters in one place the older is a remnant.          *)
(***************************************************************************)
EXTENDS Integers, Sequences

CONSTANTS
  HourTexts,   \* five characters, of "%2d:%02d"
  TempTexts,   \* of "%2.1fC"
  LineEnds,    \* coordinates of the ends of lines
  Tones,       \* bins of the transform in which there may be a tone
  Levels       \* of it, after scaling

ASSUME GraphicsAssumption ==
  /\ LineEnds \subseteq Nat /\ 1 \in LineEnds /\ Levels \subseteq 0 .. 255
  /\ Tones \subseteq 0 .. 255
  /\ \A t \in HourTexts \cup TempTexts : Len(t) = 5

MATRIXLEN    == 64
MATRIXHEIGHT == 32
FRAME_SIZE   == 2048   \* the byte behind it is the brightness

(* m_putpixel: the index wraps around as its types do.                       *)
Cell(x, y) == (((x % 256) + ((y % 256) - 1) * MATRIXLEN) % 65536) - 1

OnPanel == 0 .. FRAME_SIZE - 1
RowOf(cell) == cell \div MATRIXLEN + 1

(* Written over, whatever was there; and added to what is there.             *)
Over(picture, cells, what) == {p \in picture : p[1] \notin cells} \cup (cells \X {what})

-----------------------------------------------------------------------------
(* m_putaline, from left to right, or from top to bottom if it is steep.      *)
Distance(a, b) == IF a < b THEN b - a ELSE a - b

(* Wrong: the error begins at nothing.                                      *)
NoError(dx) == 0
FirstError(dx) == dx \div 2

(* The y of every x, and the error that is left: from one end, which is not    *)
(* to the right of the other, and not further above or below it.             *)
Walk(from, to) ==
  LET dx    == to[1] - from[1]
      dy    == Distance(from[2], to[2])
      ystep == IF from[2] < to[2] THEN 1 ELSE -1
      walk[n \in 0 .. dx] ==
        IF n = 0 THEN [y |-> from[2], err |-> FirstError(dx)]
        ELSE LET last == walk[n - 1]
                 err  == last.err - dy
             IN IF err < 0 THEN [y |-> last.y + ystep, err |-> err + dx]
                           ELSE [y |-> last.y, err |-> err]
  IN walk

LineCells(x0, y0, x1, y1) ==
  LET steep == Distance(y0, y1) > Distance(x0, x1)
      one   == IF steep THEN <<y0, x0>> ELSE <<x0, y0>>
      other == IF steep THEN <<y1, x1>> ELSE <<x1, y1>>
      from  == IF one[1] > other[1] THEN other ELSE one
      to    == IF one[1] > other[1] THEN one ELSE other
      walk  == Walk(from, to)
  IN {IF steep THEN Cell(walk[n].y, from[1] + n) ELSE Cell(from[1] + n, walk[n].y)
      : n \in 0 .. to[1] - from[1]}

VLine(x, y, h) == LineCells(x, y, x, y + h - 1)
HLine(x, y, w) == LineCells(x, y, x + w - 1, y)

(* m_putline.                                                               *)
PutLine(x0, y0, x1, y1) ==
  CASE x0 = x1             -> VLine(x0, IF y0 > y1 THEN y1 ELSE y0, Distance(y0, y1) + 1)
    [] x0 # x1 /\ y0 = y1 -> HLine(IF x0 > x1 THEN x1 ELSE x0, y0, Distance(x0, x1) + 1)
    [] OTHER               -> LineCells(x0, y0, x1, y1)

FillRect(x, y, w, h) == UNION {VLine(col, y, h) : col \in x .. x + w - 1}

(* m_display_bitmap_at writes every pixel, dark ones too.                    *)
BitmapAt(xsize, ysize, xpos, ypos) ==
  {Cell(x, y) : x \in xpos .. xsize + xpos - 1, y \in ypos .. ysize + ypos - 1}

-----------------------------------------------------------------------------
Digits == {"0", "1", "2", "3", "4", "5", "6", "7", "8", "9"}

(* The fonts: width, height, advance and offsets of the characters in use.    *)
Glyph(w, h, xAdvance, xo, yo) == [w |-> w, h |-> h, xAdvance |-> xAdvance, xo |-> xo, yo |-> yo]

gfxFont ==
  [yAdvance |-> 20,
   glyph |-> [c \in Digits \cup {" ", ":"} |->
     CASE c = " " -> Glyph(0, 0, 11, 0, 1)
       [] c = ":" -> Glyph(3, 10, 11, 4, -9)
       [] OTHER   -> Glyph(9, 12, 11, 1, -11)]]

gfxFontSmall ==
  [yAdvance |-> 18,
   glyph |-> [c \in Digits \cup {"-", ".", "C"} |->
     CASE c = "-" -> Glyph(4, 2, 10, 3, -5)
       [] c = "." -> Glyph(2, 2, 10, 4, -1)
       [] c = "C" -> Glyph(9, 11, 10, 1, -10)
       [] OTHER   -> Glyph(8, 11, 10, 1, -10)]]

(* mf_putchar.                                                              *)
CharCells(x, y, g) ==
  {Cell(x + g.xo + xx, y + g.yo + yy) : xx \in 0 .. g.w - 1, yy \in 0 .. g.h - 1}

(* mf_writechar: what the font does not have is left out, the zero at the end *)
(* of a text among it; a line that is full is wrapped.                       *)
WriteChar(pen, c, font) ==
  IF c \notin DOMAIN font.glyph THEN pen
  ELSE LET g     == font.glyph[c]
           seen  == g.w > 0 /\ g.h > 0
           wraps == seen /\ pen.x + g.xo + g.w > MATRIXLEN
           x     == IF wraps THEN 0 ELSE pen.x
           y     == IF wraps THEN pen.y + font.yAdvance ELSE pen.y
       IN [x |-> x + g.xAdvance, y |-> y,
           lit |-> IF seen THEN pen.lit \cup (CharCells(x, y, g) \X {c}) ELSE pen.lit]

WriteAt(x, y, text, font) ==
  LET pen[n \in 0 .. Len(text)] ==
        IF n = 0 THEN [x |-> x, y |-> y, lit |-> {}] ELSE WriteChar(pen[n - 1], text[n], font)
  IN pen[Len(text)].lit

-----------------------------------------------------------------------------
VARIABLES
  picture,       \* the edit buffer: what its cells have
  now,           \* what it shows: "clock", "bars" or "nothing"; or a "line" is looked at
  text,          \* the five characters of the hour or the temperature
  bell, rain,    \* an alarm is set; it will rain
  tone, level,   \* of what is heard: the bin, and how loud it is
  weatherShown,  \* G_config.matrix_weather, read when the radio starts
  line           \* the ends of any line

graphicsVars == <<picture, now, text, bell, rain, tone, level, weatherShown, line>>

GraphicsInit ==
  /\ picture = {} /\ text = <<>> /\ bell = FALSE /\ rain = FALSE
  /\ tone = 0 /\ level = 0
  /\ weatherShown \in BOOLEAN
  /\ now \in {"nothing", "line"} /\ line = <<1, 1, 1, 1>>

ClockRow == IF weatherShown THEN 12 ELSE 15

TextCells(t) ==
  LET hour == t \in HourTexts
      x    == IF hour THEN 4 ELSE 5
      font == IF hour THEN gfxFont ELSE gfxFontSmall
  IN WriteAt(x, ClockRow, SubSeq(t, 1, 2), font)
       \cup WriteAt(x + 19, ClockRow, SubSeq(t, 3, 3), font)
       \cup WriteAt(x + 27, ClockRow, SubSeq(t, 4, 5), font)

(* PL_matrix_alarm_sign.                                                    *)
AlarmSign(x, y) ==
  {Cell(x + 3, y), Cell(x + 3, y + 4)} \cup LineCells(x + 2, y + 1, x + 4, y + 1)
    \cup LineCells(x + 2, y + 2, x + 4, y + 2) \cup LineCells(x + 1, y + 3, x + 5, y + 3)

(* Wrong: not as wide as the matrix.                                        *)
Narrower == FillRect(1, 1, 40, 14)
ClockClears == FillRect(1, 1, 64, 14)

(* The clock thread, once a second while the radio does not play: the bars    *)
(* have been cleared before, and the races about that are in MatrixPanel.     *)
DrawsClock ==
  /\ now \in {"nothing", "clock"}
  /\ now' = "clock" /\ text' \in HourTexts \cup TempTexts /\ bell' \in BOOLEAN /\ rain' \in BOOLEAN
  /\ LET cleared == {p \in picture : p[1] \notin ClockClears}
         told    == cleared \cup TextCells(text')
         rung    == IF bell' THEN Over(told, AlarmSign(55, IF weatherShown THEN 1 ELSE 4), "bell")
                             ELSE told
     IN picture' = IF rain' /\ weatherShown THEN Over(rung, BitmapAt(7, 8, 55, 6), "rain") ELSE rung
  /\ UNCHANGED <<tone, level, weatherShown, line>>

(* The picture of the weather, in the lower half.                            *)
DrawsScenery ==
  /\ weatherShown /\ now = "clock"
  /\ picture' = Over(picture, BitmapAt(64, 16, 1, 17), "scenery")
  /\ UNCHANGED <<now, text, bell, rain, tone, level, weatherShown, line>>

(* m_clear, when the radio has stopped.                                      *)
MatrixCleared ==
  /\ now # "line"
  /\ picture' = {} /\ now' = "nothing"
  /\ text' = <<>> /\ bell' = FALSE /\ rain' = FALSE /\ tone' = 0 /\ level' = 0
  /\ UNCHANGED <<weatherShown, line>>

-----------------------------------------------------------------------------
(* PL_avg_FFT_256_to_64_with_32_scale: the bins of the transform that make up *)
(* a value.  Two of them are computed twice, the second time of other bins.   *)
(* The analyser shows the values 1 to 64 of 65.                              *)
BinsOf(value) ==
  CASE value \in 0 .. 7   -> {2 * value, 2 * value + 1}
    [] value \in 8 .. 61  -> 16 + 4 * (value - 8) .. 19 + 4 * (value - 8)
    [] value = 62         -> 238 .. 245
    [] value = 63         -> 246 .. 253
    [] value = 64         -> {254}

(* Wrong: bars as high as the matrix.                                       *)
HighBars(value) == IF value > 32 THEN 32 ELSE value
Clamped(value) == IF value > 30 THEN 30 ELSE value

Bar(col, val)    == VLine(col, 31 - val, val + 1)
Marker(col, val) == {Cell(col, 31 - val)}

DrawsBars ==
  /\ now # "line"
  /\ now' = "bars"
  /\ tone' \in Tones /\ level' \in Levels
  /\ LET val == Clamped(level') IN
     picture' = UNION {IF val = 0 THEN {} ELSE Over(Bar(col, val) \X {"base"}, Marker(col, val), "marker")
                       : col \in {c \in 1 .. MATRIXLEN : tone' \in BinsOf(c)}}
  /\ text' = <<>> /\ bell' = FALSE /\ rain' = FALSE
  /\ UNCHANGED <<weatherShown, line>>

(* Another line is looked at.                                               *)
EndMoves ==
  /\ now = "line"
  /\ \E i \in 1 .. 4 : \E end \in LineEnds : line' = [line EXCEPT ![i] = end]
  /\ UNCHANGED <<picture, now, text, bell, rain, tone, level, weatherShown>>

GraphicsNext == EndMoves \/ DrawsClock \/ DrawsScenery \/ MatrixCleared \/ DrawsBars
GraphicsSpec == GraphicsInit /\ [][GraphicsNext]_graphicsVars

-----------------------------------------------------------------------------
(* A line begins and ends where it should, has a pixel in every column, or    *)
(* row if it is steep, and none further than half a pixel from the true line. *)
(* The error is an integer, halved, and of both signs.                       *)
LinesAreStraight ==
  LET x0 == line[1]  y0 == line[2]  x1 == line[3]  y1 == line[4]
      dx == x1 - x0  dy == y1 - y0
      longer == IF Distance(x0, x1) < Distance(y0, y1) THEN Distance(y0, y1) ELSE Distance(x0, x1)
      Near(x, y) == Distance(dy * (x - x0), dx * (y - y0)) * 2 <= longer
      box == LineEnds \X LineEnds
      drawn == {p \in box : Cell(p[1], p[2]) \in PutLine(x0, y0, x1, y1)}
  IN now = "line" =>
     /\ \A p \in drawn : Near(p[1], p[2])
     /\ {<<x0, y0>>, <<x1, y1>>} \subseteq drawn
     /\ \A i \in {1, 2} : Distance(line[i], line[i + 2]) = longer =>
          \A p, q \in drawn : p[i] = q[i] => p = q
     /\ \E i \in {1, 2} : {p[i] : p \in drawn} = {n \in LineEnds :
          (n - line[i]) * (n - line[i + 2]) <= 0} /\ Distance(line[i], line[i + 2]) = longer

(* Whatever was drawn before, nothing of it stays: the clock shows the hour   *)
(* or the temperature of now and no pixel of another one, and leaves the      *)
(* weather below alone; a tone is one bar as high as it is loud, unless it is *)
(* in a bin that is left out; nothing is drawn outside the frame,            *)
(* where the brightness is.  Without the weather the clock is three rows      *)
(* lower, and the last row of its characters is never cleared.              *)
PictureIsFresh ==
  /\ \A p \in picture : p[1] \in OnPanel
  /\ now = "clock" =>
       LET told == TextCells(text) IN
       \A p \in picture \ told :
         \/ p[2] = "scenery" /\ RowOf(p[1]) >= 17
         \/ p[2] = "bell" /\ bell
         \/ p[2] = "rain" /\ rain
         \/ ~weatherShown /\ RowOf(p[1]) = 15
  /\ now = "bars" =>
       IF level = 0 \/ tone \in {0, 1, 255} \cup 232 .. 237
       THEN picture = {}
       ELSE \E col \in 1 .. MATRIXLEN :
              {p[1] : p \in picture} =
                {Cell(col, row) : row \in 31 - (IF level > 30 THEN 30 ELSE level) .. 31}
=============================================================================
