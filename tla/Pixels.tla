------------------------------- MODULE Pixels --------------------------------
(***************************************************************************)
(* From the drawing to the chip: the panel's frame (frame.rs and           *)
(* fonts_draw.rs of loa-oled), the console's picture of it (view.rs of     *)
(* ripperdoc), and the matrix (ht16k33.rs of rust/loa-matrix).  A buffer   *)
(* is the set of its lit bits, each a byte's index and a bit's.            *)
(***************************************************************************)
EXTENDS Integers, Sequences, FiniteSets

WIDTH == 128
HEIGHT == 64
PAGES == 8

OnScreenInclusive(x, y) == x \in 0..WIDTH /\ y \in 0..(HEIGHT - 1)
OnScreen(x, y) == x \in 0..(WIDTH - 1) /\ y \in 0..(HEIGHT - 1)

(* page-major: a byte is eight rows of a column *)
bit(x, y) == <<(y \div 8) * WIDTH + x, y % 8>>

(* off the screen is dropped *)
px(buf, x, y, on) ==
    CASE ~OnScreen(x, y)        -> buf
      [] OnScreen(x, y) /\ on   -> buf \cup {bit(x, y)}
      [] OTHER                  -> buf \ {bit(x, y)}

Plot(buf, points, on) ==
    LET seen == {bit(p[1], p[2]) : p \in {q \in points : OnScreen(q[1], q[2])}}
    IN  IF on THEN buf \cup seen ELSE buf \ seen

Abs(n) == IF n < 0 THEN -n ELSE n
Sign(n) == IF n > 0 THEN 1 ELSE -1

(* Bresenham: the points of a line, both ends among them *)
LinePoints(x0, y0, x1, y1) ==
    LET dx == Abs(x1 - x0)
        dy == -Abs(y1 - y0)
        walk[x \in Int, y \in Int, err \in Int] ==
            LET right == 2 * err >= dy
                down == 2 * err <= dx
            IN  {<<x, y>>} \cup
                IF x = x1 /\ y = y1 THEN {}
                ELSE walk[IF right THEN x + Sign(x1 - x0) ELSE x,
                          IF down THEN y + Sign(y1 - y0) ELSE y,
                          err + (IF right THEN dy ELSE 0) + (IF down THEN dx ELSE 0)]
    IN  walk[x0, y0, dx + dy]

line(buf, x0, y0, x1, y1, on) == Plot(buf, LinePoints(x0, y0, x1, y1), on)

(* Text: glyphs are sets of [column, row]; a glyph moves the pen on by its *)
(* width and one: 6 in the 5x7, 4 in the 3x5, its own in the Amiga and the *)
(* Topaz.                                                                  *)
Pen(x, widths, n) == LET at[i \in 1..n] == IF i = 1 THEN x ELSE at[i - 1] + widths[i - 1] + 1 IN at[n]
text_width(widths) == IF widths = <<>> THEN 0 ELSE Pen(0, widths, Len(widths)) + widths[Len(widths)] + 1

TextPoints(x, y, glyphs, widths) ==
    UNION {{<<Pen(x, widths, n) + d[1], y + d[2]>> : d \in glyphs[n]} : n \in DOMAIN glyphs}
text(buf, x, y, glyphs, widths, on) == Plot(buf, TextPoints(x, y, glyphs, widths), on)

(* show: page by page, the 128 bytes after a page's address *)
Shown(buf) == [page \in 0..(PAGES - 1) |-> {<<b[1] - page * WIDTH, b[2]>> :
                    b \in {c \in buf : c[1] \div WIDTH = page}}]

(* face_art: a cell of the console is two pixels, one above the other *)
art(buf, row, x) == [top |-> bit(x, 2 * row) \in buf, bottom |-> bit(x, 2 * row + 1) \in buf]
-----------------------------------------------------------------------------
(* The matrix: columns at the even addresses from the right, rows a bit off *)
ram(x, y) == <<2 * (7 - x), (y + 7) % 8>>

rotate(x, y, rotation) ==
    CASE rotation % 360 = 90    -> <<7 - y, x>>
      [] rotation % 360 = 180   -> <<7 - x, 7 - y>>
      [] rotation % 360 = 270   -> <<y, 7 - x>>
      [] OTHER                  -> <<x, y>>

set(frame, x, y, rotation, on) ==
    LET at == rotate(x, y, rotation)
        led == ram(at[1], at[2])
    IN  CASE x > 7 \/ y > 7 -> frame
          [] x <= 7 /\ y <= 7 /\ on -> frame \cup {led}
          [] OTHER -> frame \ {led}

set_all == {2 * y : y \in 0..7} \X (0..7)

(* the leds of one dot set on a dark matrix *)
lit(rotation, x, y) == set({}, x, y, rotation, TRUE)

turned(at, angle) == rotate(at[1], at[2], angle)
quarter(at) == turned(at, 90)
ComesBack(rotation, x, y) ==
    /\ turned(turned(<<x, y>>, rotation), 360 - (rotation % 360)) = <<x, y>>
    /\ quarter(quarter(quarter(quarter(<<x, y>>)))) = <<x, y>>

(* However the matrix is mounted each dot has an led of its own, a turn is  *)
(* undone by the rest of the circle, and four quarters are none.            *)
DotsTurned(rotation) ==
    /\ \A led \in set_all : \E x, y \in 0..7 : lit(rotation, x, y) = {led}
    /\ \A x, y \in 0..7 : \E led \in set_all : lit(rotation, x, y) = {led}
    /\ \A x, y, u, v \in 0..7 : lit(rotation, x, y) = lit(rotation, u, v) => x = u /\ y = v
    /\ \A x, y \in 0..7 : ComesBack(rotation, x, y)

(* rows of a glyph from the top, the high bit on the left *)
glyph(rows, rotation) ==
    LET dots == {d \in (0..7) \X (0..7) : (rows[d[2] + 1] \div 2^(7 - d[1])) % 2 = 1}
    IN  UNION {set({}, d[1], d[2], rotation, TRUE) : d \in dots}
=============================================================================
