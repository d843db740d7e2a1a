------------------------------- MODULE Picture -------------------------------
(* What the statements of a program show: a page of characters, and a picture *)
(* of points that each statement paints some of. Nothing here knows of TVRAM, *)
(* of windows of the LCD, or of the order in which points are painted. What is *)
(* drawn are sets of points <<x, y>> of a screen, without its edges.          *)
EXTENDS Integers, Sequences, TextValues

Between(a, x, b) == (a <= x /\ x <= b) \/ (b <= x /\ x <= a)
Magnitude(n)     == IF n < 0 THEN -n ELSE n

\* Along its longer side a line has one point at each place, the nearest to the straight
\* one; of two equally near ones that towards its end.
Nearest(long, short, along, aside) ==
  LET miss == 2 * ((long * aside) - (short * along)) IN long = 0 \/ (-long < miss /\ miss <= long)
Segment(P, x1, y1, x2, y2) ==
  LET dx == Magnitude(x2 - x1)
      dy == Magnitude(y2 - y1)
      Toward(a, b, c) == IF b > a THEN c - a ELSE a - c
  IN  {p \in P : /\ Between(x1, p[1], x2) /\ Between(y1, p[2], y2)
                 /\ IF dx >= dy THEN Nearest(dx, dy, Toward(x1, x2, p[1]), Toward(y1, y2, p[2]))
                    ELSE Nearest(dy, dx, Toward(y1, y2, p[2]), Toward(x1, x2, p[1]))}

Box(P, x1, y1, x2, y2) == {p \in P : Between(x1, p[1], x2) /\ Between(y1, p[2], y2)}

\* A point is on a circle when no point beside it, in or out along the greater of its
\* distances, is nearer to it: (M - 1/2)^2 < R^2 - N^2 <= (M + 1/2)^2, M and N its distances.
Greater(p, x, y) == LET dx == Magnitude(p[1] - x)
                        dy == Magnitude(p[2] - y) IN IF dx > dy THEN dx ELSE dy
Square(p, x, y)  == ((p[1] - x) * (p[1] - x)) + ((p[2] - y) * (p[2] - y))
Disc(P, x, y, r) ==
  {p \in P : IF r = 0 THEN p = <<x, y>>
             ELSE r > 0 /\ Square(p, x, y) - Greater(p, x, y) < r * r}
Ring(P, x, y, r) ==
  {p \in Disc(P, x, y, r) : r = 0 \/ r * r <= Square(p, x, y) + Greater(p, x, y)}

\* Points of a picture of m columns with its corner at (x, y), and its colour there.
Inside(P, x, y, m, n) == {p \in P : p[1] \in x .. x + m - 1 /\ p[2] \in y .. y + n - 1}

------------------------------------------------------------------------------
CONSTANTS COLUMN_RES, ROW_RES, Cell, FontData, BS, Missing, Narrow, NarrowTab, WideTab

VARIABLES pix,   \* the colour of each point
          grid,  \* the characters of the text and their colours, <<column, row>>
          at,    \* where the next character goes
          look,  \* palette, background, own font and whether it is in use, how the LCD is held
          texts, \* the strings of the variables
          inserts, \* are the characters of a typed line inserted?
          pen,   \* colours of text and of drawing, and the last point
          did,   \* the statement executed last
          out    \* what a function returned

vars == <<pix, grid, at, look, texts, inserts, pen, did, out>>

Wide(upright)  == IF upright THEN COLUMN_RES ELSE ROW_RES
High(upright)  == IF upright THEN ROW_RES ELSE COLUMN_RES
Points(upright) == (0 .. Wide(upright) - 1) \X (0 .. High(upright) - 1)
Page(w, h) == (0 .. w - 1) \X (0 .. h - 1)

Byte(n) == n % Bytes
Rgb(r, g, b) == (((r % 256) \div 8) * 2048) + (((g % 256) \div 4) * 32) + ((b % 256) \div 8)
Basic(i) == IF i > 15 THEN Rgb(255, 255, 255)
            ELSE LET full == IF i < 8 THEN 255 ELSE 128
                 IN  Rgb(full * ((i \div 2) % 2), full * ((i \div 4) % 2), full * (i % 2))
BasicColors == [i \in 0 .. Bytes - 1 |-> Basic(i)]

P == Points(look.upright)
All(color) == [p \in P |-> color]

------------------------------------------------------------------------------
(* Text                                                                        *)

Font(l) == IF l.mine THEN l.own ELSE FontData
\* The colour that a page gives to a point of it.
Rendered(l, page, p) ==
  LET c == page[<<p[1] \div Cell, p[2] \div Cell>>]
  IN  IF Font(l)[c[1] + 1][(p[2] % Cell) + 1][(p[1] % Cell) + 1] = 1 THEN l.palette[c[2]] ELSE l.back
InCell(p, k) == p[1] \div Cell = k[1] /\ p[2] \div Cell = k[2]
OnPage(page, p) == <<p[1] \div Cell, p[2] \div Cell>> \in DOMAIN page
Repainted(l, page, old) ==
  [p \in DOMAIN old |-> IF OnPage(page, p) THEN Rendered(l, page, p) ELSE old[p]]

\* Each cell is where the cell <<dx, dy>> before it was; where none was, it is empty.
Shifted(page, dx, dy, ink) ==
  [k \in DOMAIN page |-> LET from == <<k[1] - dx, k[2] - dy>>
                         IN  IF from \in DOMAIN page THEN page[from] ELSE <<0, ink>>]
Height(page) == 1 + Max({k[2] : k \in DOMAIN page})
Width(page)  == 1 + Max({k[1] : k \in DOMAIN page})

\* A page whose rows are all used moves up, for one character more.
MovedUp(t) ==
  LET up == Shifted(t.grid, 0, -1, 0)
  IN  IF t.at[2] < Height(t.grid) THEN t
      ELSE [grid |-> up, at |-> <<t.at[1], t.at[2] - 1>>, pix |-> Repainted(look, up, t.pix)]
Written(t, ch) ==
  LET u == MovedUp(t)
      x == u.at[1]
      y == u.at[2]
      right == Width(u.grid) - 1
      page  == [k \in DOMAIN u.grid |-> IF k = u.at THEN <<ch, pen.ink>> ELSE u.grid[k]]
  IN  CASE ch = LF -> [u EXCEPT !.at = <<0, y + 1>>]
        [] ch = BS -> [u EXCEPT !.at = IF x > 0 THEN <<x - 1, y>> ELSE IF y > 0 THEN <<right, y - 1>> ELSE @]
        [] OTHER -> [at |-> IF x = right THEN <<0, y + 1>> ELSE <<x + 1, y>>, grid |-> page,
                     pix |-> [p \in DOMAIN u.pix |-> IF InCell(p, u.at) THEN Rendered(look, page, p) ELSE u.pix[p]]]

Empty(w, h) == [k \in Page(w, h) |-> <<0, 0>>]
Clear(l, w, h) ==
  /\ grid' = Empty(w, h) /\ at' = <<0, 0>> /\ look' = l
  /\ pix' = [p \in Points(l.upright) |-> l.back]

------------------------------------------------------------------------------
(* Statements                                                                  *)

Arg(i) == did'.a[i]
Is(k)  == did'.k = k

Here == [grid |-> grid, at |-> at, pix |-> pix]
ShowsTape(t) == grid' = t.grid /\ at' = t.at /\ pix' = t.pix

PageText ==
  \/ Is("PRINT") /\ ShowsTape(FoldLeft(Written, Here, Arg(1))) /\ UNCHANGED <<look, pen>>
  \/ Is("CLS") /\ Clear(look, Width(grid), Height(grid)) /\ UNCHANGED pen
  \/ Is("COLOR") /\ pen' = [pen EXCEPT !.ink = Byte(Arg(1)), !.text = Byte(Arg(1))] /\ UNCHANGED <<pix, grid, at, look>>
  \/ /\ Is("CURSOR") /\ UNCHANGED <<pix, grid, look>>
     /\ IF <<Byte(Arg(1)), Byte(Arg(2))>> \in DOMAIN grid
        THEN at' = <<Byte(Arg(1)), Byte(Arg(2))>> /\ pen' = [pen EXCEPT !.ink = pen.text]
        ELSE UNCHANGED <<at, pen>>
  \/ /\ Is("SCROLL") /\ UNCHANGED <<at, look, pen>>
     /\ IF \/ <<Arg(1), Arg(2)>> = <<0, 0>>
           \/ Magnitude(Arg(1)) > Width(grid) \/ Magnitude(Arg(2)) > Height(grid)
        THEN UNCHANGED <<grid, pix>>
        ELSE /\ grid' = Shifted(grid, Arg(1), Arg(2), pen.text)
             /\ pix' = Repainted(look, grid', pix)
  \/ /\ Is("WIDTH") /\ UNCHANGED pen
     /\ LET upright == CASE Arg(2) = 1 -> TRUE [] Arg(2) = 2 -> FALSE [] OTHER -> look.upright
            turned  == COLUMN_RES # ROW_RES /\ Arg(2) \in {1, 2}
            l == IF turned THEN [look EXCEPT !.upright = upright] ELSE look
            h == High(l.upright) \div Cell
        IN  IF Arg(1) \in 1 .. Wide(l.upright) \div Cell THEN Clear(l, Arg(1), h)
            ELSE IF turned THEN Clear(l, Wide(l.upright) \div Cell, h)
            ELSE UNCHANGED <<pix, grid, at, look>>

Colors ==
  /\ UNCHANGED <<grid, at>>
  /\ \/ /\ Is("BGCOLOR") /\ look' = [look EXCEPT !.back = Rgb(Arg(1), Arg(2), Arg(3))]
        /\ pix' = Repainted(look', grid, pix) /\ UNCHANGED pen
     \/ /\ Is("PALETTE") /\ look' = [look EXCEPT !.palette[Byte(Arg(1))] = Rgb(Arg(2), Arg(3), Arg(4))]
        /\ UNCHANGED <<pix, pen>>
     \/ /\ Is("PCG") /\ UNCHANGED <<pix, pen>>
        /\ look' = IF look.own = <<>> THEN look
                   ELSE [look EXCEPT !.own[Arg(1) + 1] = Arg(2)]
     \/ /\ Is("USEPCG") /\ UNCHANGED <<pix, pen>>
        /\ look' = IF Arg(1) = 0 THEN [look EXCEPT !.mine = FALSE]
                   ELSE [look EXCEPT !.mine = TRUE, !.own = IF Arg(1) = 2 \/ @ = <<>> THEN FontData ELSE @]

------------------------------------------------------------------------------
(* Strings                                                                     *)

\* A text and what ends it: a new line, nothing, or spaces to the next tab.
Ending(n, end) ==
  LET tab == IF Width(grid) = Narrow THEN NarrowTab ELSE WideTab
  IN  CASE end = "" -> <<LF>> [] end = ";" -> <<>> [] end = "," -> [i \in 1 .. tab - (n % tab) |-> SPACE]
Printed(text, end) ==
  \E shown \in {text \o Ending(Len(text), end)} : ShowsTape(FoldLeft(Written, Here, shown))

\* The typed line is on the page from where it began, with empty cells where it was longer; the
\* page has moved up for it. RETURN begins a new row below the place of the cursor.
Place(page, k) == k[1] + (k[2] * Width(page))
CellAt(page, n) == <<n % Width(page), n \div Width(page)>>
WithLine(l) ==
  LET all  == Cardinality(DOMAIN grid)
      w    == Width(grid)
      last == Place(grid, at) + l.most
      rows == IF last > all THEN (last - all + w - 1) \div w ELSE 0
      from == Place(grid, at) - (rows * w)
      up   == [k \in DOMAIN grid |-> IF rows = 0 THEN grid[k]
                 ELSE IF <<k[1], k[2] + rows>> \in DOMAIN grid THEN grid[<<k[1], k[2] + rows>>] ELSE <<0, 0>>]
      page == [k \in DOMAIN grid |->
                 IF Place(grid, k) - from \in 0 .. l.most - 1
                 THEN <<At(l.text, Place(grid, k) - from + 1), pen.ink>> ELSE up[k]]
      t == [grid |-> page, at |-> CellAt(grid, from + l.place), pix |-> Repainted(look, page, pix)]
  IN  IF l.end = "RETURN" THEN Written(t, LF) ELSE t

StringStatement ==
  \/ /\ Is("LET$") /\ texts' = (Arg(1) :> Text(Arg(2), texts)) @@ texts
     /\ UNCHANGED <<pix, grid, at, inserts>>
  \/ /\ Is("INPUT$")
     /\ LET l == Line(inserts, Arg(2))
        IN  /\ ShowsTape(WithLine(l)) /\ inserts' = l.inserts
            /\ texts' = (Arg(1) :> IF l.end = "RETURN" THEN l.text ELSE <<>>) @@ texts
  \/ Is("PRINT$") /\ Printed(Text(Arg(2), texts), Arg(3)) /\ UNCHANGED <<texts, inserts>>
  \/ Is("PRINT%") /\ Printed(Numeral(Number(Arg(2), texts)), Arg(3)) /\ UNCHANGED <<texts, inserts>>

------------------------------------------------------------------------------
(* Drawing                                                                     *)

X1 == IF Arg(1) = Missing THEN pen.x ELSE Arg(1)
Y1 == IF Arg(2) = Missing THEN pen.y ELSE Arg(2)
Paint(S, c) ==
  pix' = [p \in P |-> IF p \in S THEN look.palette[Byte(IF c < 0 THEN pen.draw ELSE c)] ELSE pix[p]]
MovedTo(x, y) == pen' = [pen EXCEPT !.x = x, !.y = y]

\* A text of s with its corner at (x, y); only the dots where there is no background.
PaintText(x, y, c, bc, s) ==
  pix' = [p \in P |->
    IF p \in Inside(P, x, y, Cell * Len(s), Cell)
    THEN LET g == Font(look)[s[((p[1] - x) \div Cell) + 1] + 1]
         IN  IF g[p[2] - y + 1][((p[1] - x) % Cell) + 1] = 1 THEN look.palette[Byte(c)]
             ELSE IF bc < 0 THEN pix[p] ELSE look.palette[bc]
    ELSE pix[p]]
PaintPicture(x, y, m, n, bmp) ==
  pix' = [p \in P |->
    LET k == ((p[2] - y) * m) + (p[1] - x) + 1
    IN  IF p \in Inside(P, x, y, m, n) /\ bmp[k] # 0 THEN look.palette[Byte(bmp[k])] ELSE pix[p]]

Draw ==
  \/ Is("PSET") /\ Paint(P \cap {<<X1, Y1>>}, Arg(3)) /\ MovedTo(X1, Y1)
  \/ Is("LINE") /\ Paint(Segment(P, X1, Y1, Arg(3), Arg(4)), Arg(5)) /\ MovedTo(Arg(3), Arg(4))
  \/ Is("BOXFILL") /\ Paint(Box(P, X1, Y1, Arg(3), Arg(4)), Arg(5)) /\ MovedTo(Arg(3), Arg(4))
  \/ Is("CIRCLE") /\ Paint(Ring(P, X1, Y1, Arg(3)), Arg(4)) /\ MovedTo(X1, Y1)
  \/ Is("CIRCLEFILL") /\ Paint(Disc(P, X1, Y1, Arg(3)), Arg(4)) /\ MovedTo(X1, Y1)
  \/ Is("GPRINT") /\ PaintText(X1, Y1, Arg(3), Arg(4), Arg(5)) /\ MovedTo(X1 + (Cell * Len(Arg(5))), Y1)
  \/ Is("PUTBMP") /\ PaintPicture(X1, Y1, Arg(3), Arg(4), Arg(5)) /\ MovedTo(X1, Y1)
  \/ Is("POINT") /\ MovedTo(Arg(1), Arg(2)) /\ UNCHANGED pix
  \/ Is("GCOLOR") /\ pen' = [pen EXCEPT !.draw = Byte(Arg(1))] /\ UNCHANGED pix

Graphic ==
  \/ (Is("GCLS") \/ (Is("USEGRAPHIC") /\ Arg(1) % 4 = 0)) /\ pix' = All(0) /\ UNCHANGED <<grid, at, look>>
  \/ Is("USEGRAPHIC") /\ Arg(1) % 4 = 1 /\ Clear(look, Width(grid), Height(grid))
  \/ /\ Is("USEGRAPHIC") /\ Arg(1) % 4 = 2 /\ pix' = All(0) /\ grid' = Empty(Width(grid), Height(grid))
     /\ at' = <<0, 0>> /\ look' = [look EXCEPT !.palette = BasicColors]
  \/ Is("USEGRAPHIC") /\ Arg(1) % 4 = 3 /\ UNCHANGED <<pix, grid, at, look>>

\* A number that has the colour of the point, if there is one; outside it is black.
Asked ==
  \/ /\ Is("GCOLOR(")
     /\ LET c == IF <<Arg(1), Arg(2)>> \in P THEN pix[<<Arg(1), Arg(2)>>] ELSE 0
        IN  IF \E i \in 0 .. Bytes - 1 : look.palette[i] = c
            THEN out' \in 0 .. Bytes - 1 /\ look.palette[out'] = c ELSE out' = -c
  \/ Is("TVRAM") /\ out' = grid[<<Arg(1) % Width(grid), Arg(1) \div Width(grid)>>][1]

\* A program starts: the first colours and the font, but the screen is as it was.
Start ==
  /\ Is("RUN") /\ UNCHANGED <<pix, grid, at>>
  /\ look' = [look EXCEPT !.palette = BasicColors, !.mine = FALSE, !.own = <<>>]
  /\ texts' = <<>> /\ UNCHANGED inserts
  /\ pen' = [pen EXCEPT !.text = 7, !.draw = 7, !.x = 0, !.y = 0]

Init ==
  /\ \E upright \in BOOLEAN :
       /\ look = [palette |-> BasicColors, back |-> 0, mine |-> FALSE, own |-> <<>>, upright |-> upright]
       /\ pix = [p \in Points(upright) |-> 0]
       /\ grid = Empty(Wide(upright) \div Cell, High(upright) \div Cell)
  /\ at = <<0, 0>> /\ pen = [ink |-> 7, text |-> 7, draw |-> 7, x |-> 0, y |-> 0]
  /\ did = [k |-> "RUN", a |-> <<>>] /\ out = 0
  /\ texts = <<>> /\ inserts = FALSE
NoStrings == UNCHANGED <<texts, inserts>>
Next ==
  \/ (PageText \/ Colors) /\ out' = 0 /\ NoStrings
  \/ Start /\ out' = 0
  \/ StringStatement /\ out' = 0 /\ UNCHANGED <<look, pen>>
  \/ Draw /\ out' = 0 /\ UNCHANGED <<grid, at, look>> /\ NoStrings
  \/ Graphic /\ out' = 0 /\ UNCHANGED pen /\ NoStrings
  \/ Asked /\ UNCHANGED <<pix, grid, at, look, pen>> /\ NoStrings
Spec == Init /\ [][Next]_vars
==============================================================================
