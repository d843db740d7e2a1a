------------------------------- MODULE Graphlib -------------------------------
(* The LCD and what is drawn on it: its driver src/interface/ili9341_spi.c    *)
(* (st7789_spi.c is the same), and the drawing of graphlib_lcd.c. The LCD puts *)
(* colours that are sent one after another into a window; its pixels lie in a *)
(* sequence, row by row as the program sees them. A display d holds the LCD,  *)
(* its palette, background and font, and the text (Console).                  *)
EXTENDS Integers, SequencesExt

CONSTANTS COLUMN_RES, ROW_RES,  \* pixels of the LCD, held upright
          Cell                  \* pixels of a character, and bits of a byte

ASSUME SizesAssumption ==
  /\ Cell \in Nat \ {0} /\ COLUMN_RES \in Nat \ {0} /\ ROW_RES \in Nat \ {0}
  /\ COLUMN_RES % Cell = 0 /\ ROW_RES % Cell = 0

VERTICAL   == 0
HORIZONTAL == 1

X_RES(d) == IF d.align = VERTICAL THEN COLUMN_RES ELSE ROW_RES
Y_RES(d) == IF d.align = VERTICAL THEN ROW_RES ELSE COLUMN_RES
OnScreen(d, x, y) == x \in 0 .. X_RES(d) - 1 /\ y \in 0 .. Y_RES(d) - 1
Index(d, x, y)    == 1 + x + (y * X_RES(d))

Upto(n) == IF n < 1 THEN <<>> ELSE [i \in 1 .. n |-> i]
Span(a, b) == [i \in 1 .. (IF b < a THEN 0 ELSE b - a + 1) |-> a + i - 1]

------------------------------------------------------------------------------
\* The window from (x, y), of w times h pixels. In it the LCD goes along the rows when it
\* is upright, else along the columns, and starts again at its end.
LCD_setAddrWindow(d, x, y, w, h) == [d EXCEPT !.win = <<x, y, w, h>>, !.sent = 0]

LCD_WriteDataColor(d, color) ==
  LET w == d.win[3]
      h == d.win[4]
      n == d.sent % (w * h)
      x == d.win[1] + IF d.align = VERTICAL THEN n % w ELSE n \div h
      y == d.win[2] + IF d.align = VERTICAL THEN n \div w ELSE n % h
  IN  [d EXCEPT !.sent = @ + 1,
                !.lcd = IF OnScreen(d, x, y) THEN [@ EXCEPT ![Index(d, x, y)] = color] ELSE @]
\* A whole window, from its start.
WriteColors(d, colors) ==
  LET w == d.win[3]
      h == d.win[4]
      Sent(x, y) == IF x \notin 0 .. w - 1 \/ y \notin 0 .. h - 1 THEN 0
                    ELSE 1 + IF d.align = VERTICAL THEN x + (y * w) ELSE y + (x * h)
  IN  [d EXCEPT !.sent = w * h, !.lcd = <<>> \o [i \in DOMAIN @ |->
         LET n == Sent(((i - 1) % X_RES(d)) - d.win[1], ((i - 1) \div X_RES(d)) - d.win[2])
         IN  IF n = 0 THEN d.lcd[i] ELSE colors[n]]]

LCD_continuous_output(d, x, y, color, n) ==
  WriteColors(LCD_setAddrWindow(d, x, y, n, 1), [i \in 1 .. n |-> color])
LCD_Clear(d, color) ==
  [LCD_setAddrWindow(d, 0, 0, X_RES(d), Y_RES(d)) EXCEPT
    !.lcd = <<>> \o [i \in 1 .. X_RES(d) * Y_RES(d) |-> color]]
drawPixel(d, x, y, color) ==
  LCD_WriteDataColor(LCD_setAddrWindow(d, x, y, X_RES(d) - x, 1), color)
getColor(d, x, y) == d.lcd[Index(d, x, y)]

------------------------------------------------------------------------------
CONSTANTS Bytes,     \* values of an unsigned char: colours of the palette, characters
          FontData   \* for each character, Cell rows of Cell bits

Byte(n) == n % Bytes

\* RGB565.
Rgb(b, r, g) == (((r % 256) \div 8) * 2048) + (((g % 256) \div 4) * 32) + ((b % 256) \div 8)
set_palette(d, n, b, r, g) == [d EXCEPT !.palette[Byte(n) + 1] = Rgb(b, r, g)]
Color(d, c) == d.palette[Byte(c) + 1]
StartColor(i) ==
  LET full == IF i < 8 THEN 255 ELSE 128
      k    == i % 8
  IN  IF i < 16 THEN Rgb(full * (k % 2), full * ((k \div 2) % 2), full * (k \div 4))
      ELSE Rgb(255, 255, 255)
init_palette(d) == [d EXCEPT !.palette = <<>> \o [i \in 1 .. Bytes |-> StartColor(i - 1)]]

------------------------------------------------------------------------------
(* Points and lines                                                            *)

g_pset(d, x, y, c) == IF OnScreen(d, x, y) THEN drawPixel(d, x, y, Color(d, c)) ELSE d

\* Along the longer side, one point for each step; e says when to step aside.
Sign(a, b) == IF b > a THEN 1 ELSE -1
Size(a, b) == IF b > a THEN b - a ELSE a - b
g_gline(d, x1, y1, x2, y2, c) ==
  LET dx   == Size(x1, x2)
      dy   == Size(y1, y2)
      flat == dx >= dy
      long == IF flat THEN dx ELSE dy
      short == IF flat THEN dy ELSE dx
      Step(s) ==
        LET e     == s.e + (short * 2)
            aside == e >= 0
        IN  [d |-> g_pset(s.d, s.x, s.y, c), e |-> IF aside THEN e - (long * 2) ELSE e,
             x |-> s.x + IF flat \/ aside THEN Sign(x1, x2) ELSE 0,
             y |-> s.y + IF ~flat \/ aside THEN Sign(y1, y2) ELSE 0]
  IN  FoldLeft(LAMBDA s, i : Step(s), [d |-> d, x |-> x1, y |-> y1, e |-> -long], Upto(long + 1)).d

g_hline(d, x1, x2, y, c) ==
  LET left  == IF x1 > x2 THEN x2 ELSE x1
      right == IF x1 > x2 THEN x1 ELSE x2
      from  == IF left < 0 THEN 0 ELSE left
      to    == IF right >= X_RES(d) THEN X_RES(d) - 1 ELSE right
  IN  IF y < 0 \/ y >= Y_RES(d) \/ right < 0 \/ left >= X_RES(d) THEN d
      ELSE LCD_continuous_output(d, from, y, Color(d, c), to - from + 1)

g_boxfill(d, x1, y1, x2, y2, c) ==
  LET left   == IF x1 > x2 THEN x2 ELSE x1
      right  == IF x1 > x2 THEN x1 ELSE x2
      top    == IF y1 > y2 THEN y2 ELSE y1
      bottom == IF y1 > y2 THEN y1 ELSE y2
  IN  IF right < 0 \/ left >= X_RES(d) \/ bottom < 0 \/ top >= Y_RES(d) THEN d
      ELSE FoldLeft(LAMBDA e, y : g_hline(e, left, right, y, c), d,
                    Span(IF top < 0 THEN 0 ELSE top,
                         IF bottom >= Y_RES(d) THEN Y_RES(d) - 1 ELSE bottom))

\* The steps of an eighth of a circle: x goes in when f tells so.
RECURSIVE Eighth(_, _, _)
Eighth(x, y, f) ==
  IF x < y THEN <<>>
  ELSE LET in == f >= 0
           g  == IF in THEN f - ((x - 1) * 4) ELSE f
       IN  <<<<x, y>>>> \o Eighth(IF in THEN x - 1 ELSE x, y + 1, g + ((y + 1) * 4) + 2)

g_circle(d, x0, y0, r, c) ==
  FoldLeft(LAMBDA e, p :
      FoldLeft(LAMBDA f, q : g_pset(f, x0 + q[1], y0 + q[2], c), e,
        <<<<-p[1], -p[2]>>, <<-p[1], p[2]>>, <<p[1], -p[2]>>, <<p[1], p[2]>>,
          <<-p[2], -p[1]>>, <<-p[2], p[1]>>, <<p[2], -p[1]>>, <<p[2], p[1]>>>>),
    d, Eighth(r, 0, 3 - (2 * r)))
g_circlefill(d, x0, y0, r, c) ==
  FoldLeft(LAMBDA e, p :
      FoldLeft(LAMBDA f, q : g_hline(f, x0 - q[1], x0 + q[1], y0 + q[2], c), e,
        <<<<p[1], -p[2]>>, p, <<p[2], -p[1]>>, <<p[2], p[1]>>>>),
    d, Eighth(r, 0, 3 - (2 * r)))

------------------------------------------------------------------------------
(* Bitmaps and characters                                                      *)

\* A dot at (x, y), in a window to the end of the row, or the column, if the dot before
\* it was left out.
Dot(s, x, y, color) ==
  LET d == IF ~s.skip THEN s.d
           ELSE IF s.d.align = VERTICAL THEN LCD_setAddrWindow(s.d, x, y, X_RES(s.d) - x, 1)
           ELSE LCD_setAddrWindow(s.d, x, y, 1, Y_RES(s.d) - y)
  IN  [s EXCEPT !.d = LCD_WriteDataColor(d, color), !.skip = FALSE]

\* m columns and n rows of colours, 0 not drawn; p goes through them.
BmpDot(s, bmp, x, y, step) ==
  LET k == bmp[s.p + 1]
      t == IF k # 0 THEN Dot(s, x, y, Color(s.d, k)) ELSE [s EXCEPT !.skip = TRUE]
  IN  [t EXCEPT !.p = @ + step]
\* A slip: what lies to the right of the screen is not passed over.
RowOfBmp_unclipped(s, bmp, x, y, m) ==
  LET from == [s EXCEPT !.p = @ - (IF x < 0 THEN x ELSE 0), !.skip = TRUE]
  IN  FoldLeft(LAMBDA t, j : BmpDot(t, bmp, j, y, 1), from,
               Span(IF x < 0 THEN 0 ELSE x, IF x + m > X_RES(s.d) THEN X_RES(s.d) - 1 ELSE x + m - 1))
RowOfBmp(s, bmp, x, y, m) ==
  LET right == IF x + m > X_RES(s.d) THEN x + m - X_RES(s.d) ELSE 0
      from  == IF x < 0 THEN [s EXCEPT !.p = @ - x, !.skip = TRUE] ELSE [s EXCEPT !.skip = TRUE]
      done  == FoldLeft(LAMBDA t, j : BmpDot(t, bmp, j, y, 1), from,
                        Span(IF x < 0 THEN 0 ELSE x, x + m - 1 - right))
  IN  [done EXCEPT !.p = @ + right]
ColumnOfBmp(s, bmp, x, y, m, n) ==
  LET below == IF y + n > Y_RES(s.d) THEN y + n - Y_RES(s.d) ELSE 0
      from  == IF y < 0 THEN [s EXCEPT !.p = @ - (y * m), !.skip = TRUE] ELSE [s EXCEPT !.skip = TRUE]
      done  == FoldLeft(LAMBDA t, i : BmpDot(t, bmp, x, i, m), from,
                        Span(IF y < 0 THEN 0 ELSE y, y + n - 1 - below))
  IN  [done EXCEPT !.p = @ + (below * m) - ((m * n) - 1)]
g_putbmpmn(d, x, y, m, n, bmp) ==
  LET Start(p) == [d |-> d, p |-> p, skip |-> TRUE]
      last(a, k, res) == IF a + k > res THEN res - 1 ELSE a + k - 1
  IN  IF x <= -m \/ x > X_RES(d) \/ y <= -n \/ y >= Y_RES(d) THEN d
      ELSE IF d.align = VERTICAL
      THEN FoldLeft(LAMBDA s, i : RowOfBmp(s, bmp, x, i, m), Start(IF y < 0 THEN -y * m ELSE 0),
                    Span(IF y < 0 THEN 0 ELSE y, last(y, n, Y_RES(d)))).d
      ELSE FoldLeft(LAMBDA s, j : ColumnOfBmp(s, bmp, j, y, m, n), Start(IF x < 0 THEN -x ELSE 0),
                    Span(IF x < 0 THEN 0 ELSE x, last(x, m, X_RES(d)))).d

\* Character n with its corner at (x, y); without a background (bc < 0) its dots only.
Glyph(d, n) == IF d.fontp = "FontData" THEN FontData[n + 1] ELSE d.pcg[n + 1]
Shown(a, res) == Span(IF a < 0 THEN 0 ELSE a, IF a + Cell <= res THEN a + Cell - 1 ELSE res - 1)
\* Point p of the window, in the order of the LCD.
InOrder(d, columns, rows, p) ==
  LET line == IF d.align = VERTICAL THEN Len(columns) ELSE Len(rows)
      i    == 1 + (p \div line)
      j    == 1 + (p % line)
  IN  IF d.align = VERTICAL THEN [x |-> columns[j], y |-> rows[i], first |-> j = 1]
      ELSE [x |-> columns[i], y |-> rows[j], first |-> j = 1]
Coloured(dot, glyph, x, y, color, bc) ==
  [x |-> dot.x, y |-> dot.y, first |-> dot.first,
   color |-> IF glyph[dot.y - y + 1][dot.x - x + 1] = 1 THEN color ELSE bc]
PutDot(s, dot, bc) ==
  CASE bc >= 0       -> [s EXCEPT !.d = LCD_WriteDataColor(@, dot.color)]
    [] dot.color < 0 -> [s EXCEPT !.skip = TRUE]
    [] OTHER         -> Dot([s EXCEPT !.skip = @ \/ dot.first], dot.x, dot.y, dot.color)
RECURSIVE Dots(_, _, _)
Dots(s, dots, bc) == IF dots = <<>> THEN s ELSE Dots(PutDot(s, Head(dots), bc), Tail(dots), bc)
g_putfont(d, x, y, c, bc, n) ==
  LET columns   == Shown(x, X_RES(d))
      rows      == Shown(y, Y_RES(d))
      Bit(j, i) == Glyph(d, n)[i - y + 1][j - x + 1] = 1
      start == [d |-> IF bc >= 0 THEN LCD_setAddrWindow(d, columns[1], rows[1], Len(columns), Len(rows))
                      ELSE d, skip |-> TRUE]
      dots  == [p \in 1 .. Len(columns) * Len(rows) |->
                  Coloured(InOrder(d, columns, rows, p - 1), Glyph(d, n), x, y, Color(d, c), bc)]
  IN  IF x <= -Cell \/ x >= X_RES(d) \/ y <= -Cell \/ y >= Y_RES(d) THEN d
      ELSE Dots(start, <<>> \o dots, bc).d

g_printstr(d, x, y, c, bc, s) ==
  FoldLeftDomain(LAMBDA e, i : g_putfont(e, x + ((i - 1) * Cell), y, c, bc, s[i]), d, s)

g_color(d, x, y) == IF OnScreen(d, x, y) THEN getColor(d, x, y) ELSE 0
g_clearscreen(d) == LCD_Clear(d, 0)
==============================================================================
