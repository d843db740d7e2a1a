------------------------------ MODULE MCDisplay ------------------------------
(* An LCD of 4 times 6 pixels, characters of 2 times 2. The glyph of a         *)
(* character are the four bits of its number.                                  *)
EXTENDS Display

MCFontData == [n \in 1 .. Bytes |-> [i \in 1 .. 2 |-> [j \in 1 .. 2 |->
  ((n - 1) \div (2 ^ (4 - (2 * i) + (2 - j)))) % 2]]]

All(k, as) == {Statement(k, a) : a \in as}
One(k, a)  == {Statement(k, a)}

(* Programs that draw one shape, wherever it lies, on a page with text.        *)
X == -2 .. 7
Near == {-3, -2, -1, 0, 1, 3, 5, 6}
Some == {<<1, 2, 3, 0, 4, 5>>, <<1, 2, 3, 4, 0, 5>>}
Text1 == One("PRINT", <<<<7, 9, LF, 6>>>>)
Shapes1 == UNION {
  All("LINE", X \X X \X X \X X \X {3}),
  All("BOXFILL", X \X {-2, -1, 0, 2, 5, 7} \X {-2, -1, 1, 4, 6} \X X \X {3}),
  All("CIRCLE", Near \X Near \X (-1 .. 5) \X {3}),
  All("CIRCLEFILL", Near \X Near \X (-1 .. 5) \X {3}),
  All("PSET", X \X X \X {3}),
  All("GPRINT", X \X X \X {2} \X {-1, 0, 4} \X {<<6>>, <<9, 15>>, <<11, 6, 13>>}),
  {Statement("PUTBMP", <<x, y, 3, 2, b>>) : x \in X, y \in X, b \in Some},
  {Statement("PUTBMP", <<x, y, 2, 3, b>>) : x \in X, y \in X, b \in Some}}

(* Programs of text.                                                           *)
Lines == {<<6, 9, 7>>, <<LF>>, <<BS, 6>>, <<1, 2, 3, 4, 5, 6>>, <<6, LF, LF, LF, 9>>, <<LF, LF, BS>>}
Writing == All("PRINT", {<<s1>> : s1 \in Lines}) \cup All("COLOR", {<<3>>, <<Bytes + 4>>})
  \cup All("CURSOR", {<<0, 1>>, <<1, 2>>, <<2, 0>>, <<Bytes + 1, 0>>})
Pages == One("CLS", <<>>) \cup All("SCROLL", (-3 .. 3) \X (-3 .. 3)) \cup All("WIDTH", {<<2, 0>>, <<1, 2>>, <<0, 1>>, <<2, 1>>, <<3, 0>>})
  \cup All("BGCOLOR", {<<255, 0, 8>>})
Pages2 == Writing \cup {st \in Pages : st.k # "SCROLL" \/ st.a \in {<<1, -1>>, <<-1, 0>>, <<0, 2>>}}
Lines3 == All("PRINT", {<<<<6, 9, 7>>>>, <<<<BS, 6>>>>, <<<<LF, 6, LF>>>>})

(* Programs that change colours and characters, and ask for them.              *)
Colours == All("PALETTE", {<<3, 8, 4, 255>>, <<Bytes + 7, 0, 0, 0>>}) \cup All("USEPCG", {<<0>>, <<1>>, <<2>>})
  \cup One("PCG", <<6, <<<<1, 0>>, <<0, 0>>>>>>) \cup All("USEGRAPHIC", {<<0>>, <<1>>, <<2>>, <<7>>})
  \cup All("GCOLOR", {<<2>>, <<Bytes + 3>>}) \cup One("GCLS", <<>>) \cup One("POINT", <<1, 2>>) \cup One("RUN", <<>>)
Points1 == All("LINE", {<<Missing, Missing, 3, 3, -1>>, <<Missing, 0, 2, 2, 3>>})
  \cup All("PSET", {<<Missing, 3, -1>>}) \cup All("GPRINT", {<<Missing, Missing, 3, -1, <<6>>>>, <<0, 1, 3, 7, <<6, 9>>>>})
  \cup All("BOXFILL", {<<Missing, Missing, 2, 3, -1>>}) \cup All("CIRCLE", {<<1, Missing, 1, -1>>})
  \cup All("CIRCLEFILL", {<<Missing, 1, 1, -1>>}) \cup All("PUTBMP", {<<Missing, Missing, 2, 2, <<1, 0, 0, 2>>>>})
Asked == All("GCOLOR(", {<<1, 1>>, <<3, 3>>, <<9, 0>>}) \cup All("TVRAM", {<<0>>, <<3>>})

(* Programs of strings: A is the variable 0, B the variable 1.                 *)
MCDigits == <<16, 17, 18, 19, 20, 21, 22, 23, 24, 25, 26, 27, 28, 29, 30, 31>>
MCXs == {5}
Plain(t) == [op |-> "constant", chars |-> <<>> \o [i \in DOMAIN t |-> [esc |-> "", ch |-> t[i]]]]
Number(n) == [op |-> "number", n |-> n]
A == [op |-> "variable", var |-> 0]
B == [op |-> "variable", var |-> 1]
Mid(v, x, y) == [op |-> "mid", var |-> v, x |-> x, y |-> y]
Plus(a, b) == [op |-> "+", a |-> a, b |-> b]
Calc(rel, a, b) == [op |-> "calc", rel |-> rel, a |-> a, b |-> b]
Chr(x) == [op |-> "CHR$", x |-> x]
Dec(x) == [op |-> "DEC$", x |-> x]
Hex(x, y) == [op |-> "HEX$", x |-> x, y |-> y]
Of(f, a) == [op |-> f, a |-> a]
Strcmp(a, b) == [op |-> "STRCMP", a |-> a, b |-> b]
Strncmp(a, b, n) == [op |-> "STRNCMP", a |-> a, b |-> b, n |-> n]
Escapes == [op |-> "constant", chars |-> <<[esc |-> "other", ch |-> 6], [esc |-> "\\"], [esc |-> "r"],
  [esc |-> "t"], [esc |-> "x", high |-> 1, low |-> 2], [esc |-> "n"], [esc |-> "", ch |-> 7]>>]
Let(v, es) == {Statement("LET$", <<v, e>>) : e \in es}

Starts == {Plain(<<>>), Plain(<<6, 7, 9, 6, 1>>), Dec(Number(-205)), Hex(Number(-2), Number(0)), Escapes,
           Plain(<<MINUS, 17, 18, 6>>), Plain(<<DOLLAR, 17, 26, 3>>), Plain(<<16, 5, 17, 19>>)}
Parts == {Mid(0, Number(x), Number(y)) : x \in {-2, 0, 1, 5, 9}, y \in {-1, 0, 2, 4}}
Whole == {A, Plus(A, A), 
          Plus(Plus(Mid(0, Number(1), Number(2)), Plain(<<7>>)), Mid(0, Number(-1), Number(-1))),
          Plus(Mid(0, Number(1), Number(-1)), Plus(Plain(<<7>>), Mid(0, Number(-1), Number(1)))),
          Chr(Of("ASC", A)), Hex(Of("VAL", A), Number(3)), Plus(Plain(<<6>>), Plain(<<>>))}
Either == Let(0, {B, Plus(B, A), Mid(0, Number(1), Number(-1)), Mid(1, Of("LEN", Plus(A, B)), Number(2)), Plain(<<6, 7, 9, 6, 1>>)})
  \cup Let(1, {Plus(A, B), Mid(1, Number(0), Number(1)), Dec(Of("VAL", Mid(0, Number(1), Number(-1))))})
Rels == {"=", "<>", "<", "<=", ">", ">=", "OR", "AND"}
Shows == UNION {
  {Statement("PRINT$", <<0, e, end>>) : e \in {A, Plus(B, A), Mid(1, Number(1), Number(2))}, end \in {"", ";", ","}},
  {Statement("PRINT$", <<0, Calc(rel, A, Plus(Plain(<<>>), B)), ";">>) : rel \in Rels},
  {Statement("PRINT%", <<0, e, ",">>) : e \in {Of("IF", Plus(A, B)), Of("VAL", A), Strcmp(B, A), Strncmp(A, B, 2), Number(-1025)}}}

Sums == {Statement("PRINT$", <<0, Plus(B, A), "">>), Statement("PRINT%", <<0, Of("LEN", Plus(A, B)), ";">>)}

(* Programs that read a line of at most LineMax characters.                    *)
Moves == {Key(0, vk) : vk \in {"LEFT", "RIGHT", "HOME", "END", "BACK", "DELETE", "INSERT"}}
Ends  == {Key(0, "RETURN"), Key(0, "ESCAPE")}
Keys  == {<<Key(6, ""), Key(9, ""), k1, k2, k3, k4>> :
            k1 \in Moves, k2 \in {Key(6, "")} \cup Moves,
            k3 \in {Key(7, ""), Key(0, "LEFT"), Key(0, "BACK"), Key(0, "DELETE")}, k4 \in Ends}
Before == All("PRINT", {<<<<1>>>>, <<<<1, 2, 3, 4, 5>>>>, <<<<1, 2, 3, 4, 5, 6>>>>}) \cup All("WIDTH", {<<2, 0>>})
Lines2 == All("INPUT$", {<<0, <<Key(6, ""), Key(7, ""), Key(0, "HOME"), Key(9, ""), Key(0, "RETURN")>>>>})
  \cup {Statement("PRINT$", <<0, Plus(A, A), ",">>)}

MCScripts == <<
  <<Let(0, Starts), Let(1, Parts \cup Whole), Either, Sums>>,
  <<Let(0, Starts), Let(1, {Mid(0, Number(1), Number(-1)), Plus(A, A), Plain(<<16>>)}), Shows>>,
  <<Before, All("INPUT$", {<<0, keys>> : keys \in Keys}), Lines2>>,
  <<Text1, Shapes1>>,
  <<Writing, Writing \cup Pages, Pages2, Lines3>>,
  <<Text1, Colours, Colours \cup Points1, Points1 \cup Writing, Asked>> >>

TextOnly == {"PRINT", "COLOR", "CURSOR", "CLS", "SCROLL", "WIDTH", "BGCOLOR",
             "LET$", "INPUT$", "PRINT$", "PRINT%"}

\* While a program only writes, moves, clears and scrolls text and sets the background, every
\* point of the text area shows the character that TVRAM holds for it in its colour: whoever
\* changes TVRAM (printchar, vramscroll, SCROLL, clearscreen, WIDTH) puts the same on the LCD.
TextShown ==
  (\A i \in 1 .. step : \A st \in Scripts[script][i] : st.k \in TextOnly) =>
    \A x \in 0 .. (Cell * d.WIDTH_X) - 1, y \in 0 .. (Cell * d.WIDTH_Y) - 1 :
      getColor(d, x, y) =
        Painted(d, (x \div Cell) + (d.WIDTH_X * (y \div Cell)), (y % Cell) + 1, (x % Cell) + 1)

\* Every temporary string of a statement has been given back to the heap when it ends: a program
\* that runs for long does not stop for lack of them.
TempsReturned == \A b \in H!TempBlocks : ~H!Uses(mem.heap, b)
ShowsText == TextShown /\ TempsReturned

(* What is seen of a display, and of the strings of the variables.             *)
VARIABLE seen
Strung(m) == [v \in {w \in H!NamedBlocks : H!Uses(m.heap, w)} |-> String(m, Pointer(4 * m.heap.ptr[v]))]
Page(e) == [k \in (0 .. e.WIDTH_X - 1) \X (0 .. e.WIDTH_Y - 1) |->
  LET n == k[1] + (k[2] * e.WIDTH_X) IN <<Char(e, n), Attr(e, n)>>]
Seen(e, t, m) ==
  [strings |-> Strung(m),
   pix  |-> [p \in (0 .. X_RES(e) - 1) \X (0 .. Y_RES(e) - 1) |-> getColor(e, p[1], p[2])],
   grid |-> Page(e),
   at   |-> <<e.cursor % e.WIDTH_X, e.cursor \div e.WIDTH_X>>,
   look |-> [palette |-> [n \in 0 .. Bytes - 1 |-> e.palette[n + 1]], back |-> e.bgcolor,
             mine |-> e.fontp = "pcg", own |-> IF t.ppcg THEN e.pcg ELSE <<>>, upright |-> e.align = VERTICAL],
   pen  |-> [ink |-> e.cursorcolor, text |-> t.cursorcolor, draw |-> t.gcolor, x |-> t.prevx1, y |-> t.prevy1]]
MCInit == Init /\ seen = Seen(d, s, mem)
MCNext == Next /\ seen' = Seen(d', s', mem')
MCSpec == MCInit /\ [][MCNext]_<<vars, seen>>

Display2 == INSTANCE Picture WITH
  pix <- seen.pix, grid <- seen.grid, at <- seen.at, look <- seen.look, pen <- seen.pen,
  texts <- seen.strings, inserts <- insertmode

\* Every statement shows on the LCD what it is to show, in both ways of holding it: the points of
\* its line, box, circle, picture or text that lie on the screen and no other, whatever part of
\* the shape lies outside, and the page of characters with what was drawn over it.
IsPicture == Display2!Spec
==============================================================================
