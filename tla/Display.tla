------------------------------- MODULE Display -------------------------------
(* src/display.c: lib_display, what the statements of a program do with the    *)
(* screen of a computer with an LCD (PHYLLOSOMA), one statement after another. *)
EXTENDS Texts, FiniteSets

CONSTANTS Scripts,  \* programs: sequences of sets of statements, one of each is executed
          Missing   \* a first point that is left out (0x80000001, 0x80000002)

VARIABLES d,    \* the LCD, the palette, the font and the text
          s,    \* what lib_display keeps: text colour, pen, own font, point
          mem,  \* the heap and its characters (Texts)
          insertmode, \* of a line that is typed
          did,  \* the statement executed last: its name and arguments
          out,  \* what a function returned
          script, \* which program it is
          step    \* how many of its statements have been executed

vars == <<d, s, mem, insertmode, did, out, script, step>>

Statement(k, a) == [k |-> k, a |-> a]
RESET == [cursorcolor |-> 7, gcolor |-> 7, ppcg |-> FALSE, prevx1 |-> 0, prevy1 |-> 0]

Init ==
  /\ \E align \in {VERTICAL, HORIZONTAL} : d = init_textgraph(align)
  /\ mem = NoTexts /\ insertmode = FALSE
  /\ s = RESET /\ did = Statement("RUN", <<>>) /\ out = 0
  /\ script \in DOMAIN Scripts /\ step = 0

x1 == IF did'.a[1] = Missing THEN s.prevx1 ELSE did'.a[1]
y1 == IF did'.a[2] = Missing THEN s.prevy1 ELSE did'.a[2]
gc(c) == IF c < 0 THEN s.gcolor ELSE c
Arg(i) == did'.a[i]

Is(k)      == did'.k = k
Screen(e)  == d' = e /\ out' = 0
Same       == UNCHANGED s
PenAt(x, y) == s' = [s EXCEPT !.prevx1 = x, !.prevy1 = y]

------------------------------------------------------------------------------
(* Text                                                                        *)

\* pre_run: the palette and lib_display as at first; post_run has put the font back.
Run == Is("RUN") /\ Screen(stopPCG(init_palette(d))) /\ s' = RESET /\ mem' = NoTexts /\ UNCHANGED insertmode

PrintText == Is("PRINT") /\ Screen(printstr(d, Arg(1))) /\ Same
Cls   == Is("CLS") /\ Screen(clearscreen(d)) /\ Same
Color1 == Is("COLOR") /\ Screen(setcursorcolor(d, Arg(1))) /\ s' = [s EXCEPT !.cursorcolor = Byte(Arg(1))]
Cursor == Is("CURSOR") /\ Screen(setcursor(d, Arg(1), Arg(2), s.cursorcolor)) /\ Same
Bgcolor == Is("BGCOLOR") /\ Screen(set_bgcolor(d, Arg(3), Arg(1), Arg(2))) /\ Same

\* PALETTE and GPALETTE.
Palette == Is("PALETTE") /\ Screen(set_palette(d, Arg(1), Arg(4), Arg(2), Arg(3))) /\ Same

Pcg ==
  /\ Is("PCG")
  /\ Screen(IF s.ppcg THEN [d EXCEPT !.pcg[Arg(1) + 1] = Arg(2)] ELSE d) /\ Same
UsePcg ==
  /\ Is("USEPCG")
  /\ Screen(IF Arg(1) = 0 THEN stopPCG(d) ELSE startPCG(d, IF Arg(1) = 2 \/ ~s.ppcg THEN 1 ELSE 0))
  /\ s' = IF Arg(1) = 0 THEN s ELSE [s EXCEPT !.ppcg = TRUE]

\* memmove within TVRAM; what lies around it is not known.
Outside == -1
Moved(t, to, from, n) ==
  <<>> \o [i \in DOMAIN t |-> IF i - 1 - to \in 0 .. n - 1
                              THEN LET j == from + i - to IN IF j \in DOMAIN t THEN t[j] ELSE Outside
                              ELSE t[i]]
\* Columns and rows become empty, in the colour of the text.
Emptied(t, w, Gone(_, _)) ==
  <<>> \o [i \in DOMAIN t |->
    LET n == i - 1
    IN  IF n < w * d.WIDTH_Y /\ Gone(n % w, n \div w) THEN 0
        ELSE IF n - ATTROFFSET \in 0 .. (w * d.WIDTH_Y) - 1 /\ Gone((n - ATTROFFSET) % w, (n - ATTROFFSET) \div w)
        THEN s.cursorcolor ELSE t[i]]
Scroll ==
  /\ Is("SCROLL")
  /\ LET r1 == Arg(1)
         r0 == Arg(2)
         w  == d.WIDTH_X
         h  == d.WIDTH_Y
         by == (-r0 * w) - r1
         Gone(x, y) == \/ y < r0 \/ y >= h + r0 \/ x < r1 \/ x >= w + r1
     IN  IF h < r0 \/ h < -r0 \/ w < r1 \/ w < -r1 \/ (r0 = 0 /\ r1 = 0) THEN Screen(d)
         ELSE \E chars \in {Moved(d.TVRAM, 0, by, w * h)} :
              \E both \in {Moved(chars, ATTROFFSET, ATTROFFSET + by, w * h)} :
              \E t \in {Emptied(both, w, Gone)} : Screen(textredraw([d EXCEPT !.TVRAM = t]))
  /\ Same

Width ==
  /\ Is("WIDTH")
  /\ LET turned == COLUMN_RES # ROW_RES /\ Arg(2) \in {1, 2}
         e == IF turned THEN set_lcdalign(d, IF Arg(2) = 1 THEN VERTICAL ELSE HORIZONTAL) ELSE d
     IN  Screen(IF 0 < Arg(1) /\ Arg(1) <= X_RES(e) \div Cell THEN clearscreen([e EXCEPT !.WIDTH_X = Arg(1)])
                ELSE e)
  /\ Same

Tvram == Is("TVRAM") /\ out' = d.TVRAM[Arg(1) + 1] /\ UNCHANGED d /\ Same

------------------------------------------------------------------------------
(* Drawing                                                                     *)

BoxFill == Is("BOXFILL") /\ Screen(g_boxfill(d, x1, y1, Arg(3), Arg(4), gc(Arg(5)))) /\ PenAt(Arg(3), Arg(4))
Circle == Is("CIRCLE") /\ Screen(g_circle(d, x1, y1, Arg(3), gc(Arg(4)))) /\ PenAt(x1, y1)
CircleFill == Is("CIRCLEFILL") /\ Screen(g_circlefill(d, x1, y1, Arg(3), gc(Arg(4)))) /\ PenAt(x1, y1)
Line ==
  /\ Is("LINE")
  /\ Screen(IF y1 = Arg(4) THEN g_hline(d, x1, Arg(3), y1, gc(Arg(5)))
            ELSE g_gline(d, x1, y1, Arg(3), Arg(4), gc(Arg(5))))
  /\ PenAt(Arg(3), Arg(4))
Pset == Is("PSET") /\ Screen(g_pset(d, x1, y1, gc(Arg(3)))) /\ PenAt(x1, y1)
Point == Is("POINT") /\ Screen(d) /\ PenAt(Arg(1), Arg(2))
Gcolor == Is("GCOLOR") /\ Screen(d) /\ s' = [s EXCEPT !.gcolor = Byte(Arg(1))]
Gcls   == Is("GCLS") /\ Screen(g_clearscreen(d)) /\ Same

Gprint ==
  /\ Is("GPRINT")
  /\ Screen(g_printstr(d, x1, y1, Arg(3), IF Arg(4) < 0 THEN Arg(4) ELSE d.palette[Arg(4) + 1], Arg(5)))
  /\ PenAt(x1 + (Len(Arg(5)) * Cell), y1)
Putbmp == Is("PUTBMP") /\ Screen(g_putbmpmn(d, x1, y1, Arg(3), Arg(4), Arg(5))) /\ PenAt(x1, y1)

\* 0: no graphics; 1: the text is cleared; 2: colours and screen are; 3: nothing.
UseGraphic ==
  /\ Is("USEGRAPHIC")
  /\ LET n == Arg(1) % 4
     IN  Screen(CASE n = 0 -> g_clearscreen(d) [] n = 1 -> clearscreen(d)
                  [] n = 2 -> g_clearscreen(clearscreen(init_palette(d))) [] OTHER -> d)
  /\ Same

\* GCOLOR(x,y): the first number that has the colour.
GcolorOf ==
  /\ Is("GCOLOR(")
  /\ LET j == g_color(d, Arg(1), Arg(2))
         n == {i \in DOMAIN d.palette : d.palette[i] = j}
     IN  out' = IF n = {} THEN -j ELSE (CHOOSE i \in n : \A k \in n : i <= k) - 1
  /\ UNCHANGED d /\ Same

------------------------------------------------------------------------------
(* Strings                                                                     *)

\* A variable gets the value of an expression, or a typed line.
LetStr ==
  /\ Is("LET$") /\ Screen(d)
  /\ \E r \in {get_string(mem, Arg(2))} : mem' = lib_let_str(r.m, r.v, Arg(1))
  /\ UNCHANGED insertmode
Input ==
  /\ Is("INPUT$")
  /\ \E r \in {lib_input(mem, d, insertmode, Arg(2))} :
       Screen(r.l.d) /\ insertmode' = r.l.insertmode /\ mem' = lib_let_str(r.m, r.v, Arg(1))

\* PRINT of a string, that is given back after it, and of a number.
PrintString ==
  /\ Is("PRINT$")
  /\ \E r \in {get_string(mem, Arg(2))} :
       Screen(Ended(d, String(r.m, r.v), Arg(3))) /\ mem' = garbage_collection(r.m, r.v)
  /\ UNCHANGED insertmode
PrintInteger ==
  /\ Is("PRINT%")
  /\ \E r \in {get_integer(mem, Arg(2))} : Screen(Ended(d, Decimal(r.n), Arg(3))) /\ mem' = r.m
  /\ UNCHANGED insertmode

------------------------------------------------------------------------------
Strings == (LetStr \/ Input \/ PrintString \/ PrintInteger) /\ Same
TextStatement == PrintText \/ Cls \/ Color1 \/ Cursor \/ Bgcolor \/ Palette \/ Pcg \/ UsePcg \/ Scroll \/ Width \/ Tvram
Drawing == BoxFill \/ Circle \/ CircleFill \/ Line \/ Pset \/ Point \/ Gcolor \/ Gcls \/ Gprint \/ Putbmp
             \/ UseGraphic \/ GcolorOf

Next ==
  /\ step < Len(Scripts[script])
  /\ did' \in Scripts[script][step + 1]
  /\ step' = step + 1 /\ UNCHANGED script
  /\ \/ Run \/ Strings
     \/ (TextStatement \/ Drawing) /\ UNCHANGED <<mem, insertmode>>
Spec == Init /\ [][Next]_vars
==============================================================================
