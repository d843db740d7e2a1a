------------------------------- MODULE Console -------------------------------
(* The text screen of src/interface/graphlib_lcd.c: TVRAM, characters row by  *)
(* row and behind them their colours, and what of it is put on the LCD; and a *)
(* line typed on it, src/interface/keyinput.c. The typed characters are in    *)
(* lineinputbuf and, from the cursor of the start on, in TVRAM. A line l is   *)
(* what lineinput keeps: the display, the buffer, the place pc in it (its first *)
(* is 0), insertmode, and whether RETURN or ESC ended it.                     *)
EXTENDS Graphlib

CONSTANTS LF, BS   \* the characters of a new line and of a step back

ATTROFFSET == (COLUMN_RES * ROW_RES) \div (Cell * Cell)
Cells(d)   == d.WIDTH_X * d.WIDTH_Y
Char(d, k) == d.TVRAM[k + 1]
Attr(d, k) == d.TVRAM[ATTROFFSET + k + 1]

clearscreen(d) ==
  LCD_Clear([d EXCEPT !.TVRAM = <<>> \o [i \in 1 .. (2 * ATTROFFSET) + 1 |-> 0], !.cursor = 0], d.bgcolor)

\* The text area in one window: in the order of the LCD, each dot of each character.
Painted(d, k, i, j) == IF Glyph(d, Char(d, k))[i][j] = 1 THEN Color(d, Attr(d, k)) ELSE d.bgcolor
textredraw(d) ==
  LET w    == d.WIDTH_X
      h    == d.WIDTH_Y
      all  == w * h * Cell * Cell
      At(n) ==
        IF d.align = VERTICAL
        THEN LET x == n % (w * Cell)
                 y == n \div (w * Cell)
             IN  Painted(d, (x \div Cell) + (w * (y \div Cell)), (y % Cell) + 1, (x % Cell) + 1)
        ELSE LET x == n \div (h * Cell)
                 y == n % (h * Cell)
             IN  Painted(d, (x \div Cell) + (w * (y \div Cell)), (y % Cell) + 1, (x % Cell) + 1)
  IN  WriteColors(LCD_setAddrWindow(d, 0, 0, w * Cell, h * Cell), [n \in 1 .. all |-> At(n - 1)])

\* One row up; the last row becomes empty.
vramscroll_noredraw(d) ==
  LET last == Cells(d) - d.WIDTH_X
      Up(k) == IF k < last THEN Char(d, k + d.WIDTH_X) ELSE 0
      UpAttr(k) == IF k < last THEN Attr(d, k + d.WIDTH_X) ELSE 0
  IN  [d EXCEPT !.TVRAM = <<>> \o [i \in DOMAIN d.TVRAM |->
         IF i - 1 \in 0 .. Cells(d) - 1 THEN Up(i - 1)
         ELSE IF i - 1 - ATTROFFSET \in 0 .. Cells(d) - 1 THEN UpAttr(i - 1 - ATTROFFSET)
         ELSE d.TVRAM[i]]]
\* A slip: the rows move in TVRAM only.
vramscroll_silent(d) == vramscroll_noredraw(d)
vramscroll(d) == textredraw(vramscroll_noredraw(d))

setcursor(d, x, y, c) ==
  IF Byte(x) >= d.WIDTH_X \/ Byte(y) >= d.WIDTH_Y THEN d
  ELSE [d EXCEPT !.cursor = (Byte(y) * d.WIDTH_X) + Byte(x), !.cursorcolor = Byte(c)]
setcursorcolor(d, c) == [d EXCEPT !.cursorcolor = Byte(c)]

\* Behind the last character the text only scrolls when another one comes.
Stored(d, n) == [d EXCEPT !.TVRAM[d.cursor + 1] = n, !.TVRAM[ATTROFFSET + d.cursor + 1] = d.cursorcolor]
AtPlace(d, color, n) ==
  g_putfont(d, (d.cursor % d.WIDTH_X) * Cell, (d.cursor \div d.WIDTH_X) * Cell, color, d.bgcolor, n)
PutChar(d, n) ==
  CASE n = LF -> [d EXCEPT !.cursor = @ + (d.WIDTH_X - (@ % d.WIDTH_X))]
    [] n = BS -> [d EXCEPT !.cursor = IF @ > 0 THEN @ - 1 ELSE @]
    [] OTHER  -> [AtPlace(Stored(d, n), d.cursorcolor, n) EXCEPT !.cursor = @ + 1]
printchar(d, n) ==
  IF d.cursor \notin 0 .. Cells(d) THEN d
  ELSE PutChar(IF d.cursor = Cells(d) THEN [vramscroll(d) EXCEPT !.cursor = @ - d.WIDTH_X] ELSE d, n)

RECURSIVE printstr(_, _)
printstr(d, s) == IF s = <<>> THEN d ELSE printstr(printchar(d, Head(s)), Tail(s))

set_bgcolor(d, b, r, g) == textredraw([d EXCEPT !.bgcolor = Rgb(b, r, g)])
startPCG(d, a)  == [d EXCEPT !.fontp = "pcg", !.pcg = IF a # 0 THEN FontData ELSE @]
stopPCG(d)      == [d EXCEPT !.fontp = "FontData"]

set_lcdalign(d, align) ==
  LET e == [d EXCEPT !.align = align]
  IN  clearscreen([e EXCEPT !.WIDTH_X = X_RES(e) \div Cell, !.WIDTH_Y = Y_RES(e) \div Cell])

\* lcd_display_init, and main.c's choice of the alignment.
init_textgraph(align) ==
  set_lcdalign(init_palette([align |-> align, lcd |-> <<>>, win |-> <<0, 0, 1, 1>>, sent |-> 0,
    palette |-> <<>>, bgcolor |-> 0, fontp |-> "FontData", pcg |-> <<>>, TVRAM |-> <<>>, cursor |-> 0,
    cursorcolor |-> 7, WIDTH_X |-> 0, WIDTH_Y |-> 0]), align)

------------------------------------------------------------------------------
CONSTANTS CURSORCHAR, CURSORCHAR2,  \* the cursor when characters are inserted and replaced
          CURSORCOLOR

\* A key: its character, or 0 and its name.
Key(ch, vk) == [ch |-> ch, vk |-> vk]

putcursorchar(d) == AtPlace(d, Attr(d, d.cursor), Char(d, d.cursor))
AtCursor(d, c, color) ==
  putcursorchar([d EXCEPT !.TVRAM[d.cursor + 1] = c, !.TVRAM[ATTROFFSET + d.cursor + 1] = color])

\* The cursor blinks in TVRAM and on the LCD until a key comes, then what was there comes back.
blinkcursorchar(d, insertmode) ==
  AtCursor(d, IF insertmode THEN CURSORCHAR ELSE CURSORCHAR2, CURSORCOLOR)
cursorinputchar(d, insertmode) ==
  AtCursor(blinkcursorchar(d, insertmode), Char(d, d.cursor), Attr(d, d.cursor))

Back(d, n)  == [d EXCEPT !.cursor = @ - n]
From(buf, pc) == SubSeq(buf, pc + 1, Len(buf))
Walked(l, pc) == [l EXCEPT !.d = Back(@, l.pc - pc), !.pc = pc]

\* The cursor goes back from the end of what was printed to the place after the character.
Put(l, buf) ==
  [l EXCEPT !.buf = buf, !.pc = @ + 1,
            !.d = Back(printstr(@, From(buf, l.pc)), Len(buf) - (l.pc + 1))]
Inserts(l) == l.insertmode \/ l.pc = Len(l.buf)
Typed(l, ch, n) ==
  IF Inserts(l) /\ Len(l.buf) = n THEN l
  ELSE Put(l, IF Inserts(l) THEN InsertAt(l.buf, l.pc + 1, ch) ELSE [l.buf EXCEPT ![l.pc + 1] = ch])

Delete(l) ==
  IF l.pc = Len(l.buf) THEN l
  ELSE LET buf == RemoveAt(l.buf, l.pc + 1)
       IN  [l EXCEPT !.buf = buf, !.d = Back(printstr(@, Append(From(buf, l.pc), 0)), Len(buf) + 1 - l.pc)]

Pressed(l, vk) ==
  CASE vk = "LEFT"   -> IF l.pc > 0 THEN Walked(l, l.pc - 1) ELSE l
    [] vk = "RIGHT"  -> IF l.pc < Len(l.buf) THEN Walked(l, l.pc + 1) ELSE l
    [] vk = "HOME"   -> Walked(l, 0)
    [] vk = "END"    -> Walked(l, Len(l.buf))
    [] vk = "BACK" /\ l.pc = 0 -> l
    [] vk \in {"BACK", "DELETE"} -> Delete(IF vk = "BACK" THEN Walked(l, l.pc - 1) ELSE l)
    [] vk = "INSERT" -> [l EXCEPT !.insertmode = ~@]
    [] vk = "RETURN" -> [l EXCEPT !.d = printchar(@, LF), !.end = "RETURN"]
    [] vk = "ESCAPE" -> [l EXCEPT !.end = "ESCAPE"]

Answered(l, key, n) == IF key.ch # 0 THEN Typed(l, key.ch, n) ELSE Pressed(l, key.vk)
KeyCame(l, key, n) == Answered([l EXCEPT !.d = cursorinputchar(@, l.insertmode)], key, n)
RECURSIVE KeysCame(_, _, _)
KeysCame(l, keys, n) == IF keys = <<>> THEN l ELSE KeysCame(KeyCame(l, Head(keys), n), Tail(keys), n)

\* A line of at most n characters, beginning with what s holds. The last key ends it.
lineinput(d, insertmode, s, n, keys) ==
  LET buf == SubSeq(s, 1, IF Len(s) < n THEN Len(s) ELSE n)
  IN  KeysCame([d |-> printstr(d, buf), buf |-> buf, pc |-> Len(buf), insertmode |-> insertmode, end |-> ""],
               keys, n)
==============================================================================
