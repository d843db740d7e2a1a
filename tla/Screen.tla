------------------------------- MODULE Screen -------------------------------
(***************************************************************************)
(* The cursor of the editor (editor.c): the screen shows the text from top *)
(* on, in rows of WIDTH_X characters.  A cursor operation moves the cursor *)
(* in the text and keeps, besides, where on the screen it is (cx, cy), the *)
(* column that up and down aim at (cx2) and its line number (line).        *)
(*                                                                         *)
(* The operators work on positions q of the text; how the place is written *)
(* (Behind, InFront) follows from the direction of the loop in the code.   *)
(***************************************************************************)
EXTENDS TextBuffer

CONSTANTS WIDTH_X, EDITWIDTHY

ASSUME ScreenAssumption == WIDTH_X \in Nat \ {0, 1} /\ EDITWIDTHY \in Nat \ {0, 1}

Cursor(e) == bpixtopos(e, e.cur)
Top(e) == bpixtopos(e, e.top)

\* Positions of the newlines at or after q, and before q.
NewlinesFrom(e, q) == {k \in q .. Len(Text(e)) - 1 : Text(e)[k + 1] = nl}
NewlinesBefore(e, q) == {k \in 0 .. q - 1 : Text(e)[k + 1] = nl}
LineStart(e, q) == IF NewlinesBefore(e, q) = {} THEN 0 ELSE Greatest(NewlinesBefore(e, q)) + 1
LineEnd(e, q) == IF NewlinesFrom(e, q) = {} THEN Len(Text(e)) ELSE Least(NewlinesFrom(e, q))

\* Where the row that begins at d ends: behind its newline, or full.
NextRow(e, d) == IF LineEnd(e, d) - d < WIDTH_X THEN LineEnd(e, d) + 1 ELSE d + WIDTH_X

\* Backward over n characters.
Backward(e, p, n) == IF n = 0 THEN p ELSE InFront(e, bpixtopos(e, p) - n)

\* The screen scrolls by one row, down or up.
ScrollDown(e) == [e EXCEPT !.top = Behind(e, NextRow(e, Top(e)))]
ScrollUp(e) == [e EXCEPT !.top = Backward(e, e.cur, e.cx)]
RowUp(e) == IF e.cy > 0 THEN [e EXCEPT !.cy = @ - 1] ELSE ScrollUp(e)
RowDown(e) == IF e.cy < EDITWIDTHY - 1 THEN [e EXCEPT !.cy = @ + 1] ELSE ScrollDown(e)

(***************************************************************************)
(* The column of position q when the screen begins at d.  The loop of      *)
(* cursor_left starts at disptop, and when that is behind the last         *)
(* character of a buffer it counts a character that is not there; stray    *)
(* says that this one looks like a newline.                                *)
(***************************************************************************)
Column(x, s) == FoldLeft(LAMBDA k, c : IF c = nl \/ k >= WIDTH_X - 1 THEN 0 ELSE k + 1, x, s)
TopIsBehind(e) == e.top # e.cur /\ e.buf[e.top[1]] # << >> /\ AtEnd(e, e.top)
ColumnLeft(e, stray) ==
  Column(IF TopIsBehind(e) /\ ~stray THEN 1 ELSE 0, SubSeq(Text(e), Top(e) + 1, Cursor(e)))

cursor_left(e, stray) ==
  LET q == Cursor(e)
      c == Text(e)[q]
      e1 == [e EXCEPT !.cur = InFront(e, q - 1)]
      To(x) == [e1 EXCEPT !.cx = x, !.cx2 = x]
      e2 == To((q - 1 - LineStart(e, q - 1)) % WIDTH_X)
  IN  IF q = 0 THEN [e EXCEPT !.cur = <<1, 0>>]
      ELSE IF e.cx > 0 THEN To(e.cx - 1)
      ELSE IF c # nl THEN RowUp(To(WIDTH_X - 1))
      ELSE IF e.cy > 0
      THEN [To(ColumnLeft(e1, stray)) EXCEPT !.cy = @ - 1, !.line = @ - 1, !.stray = @ \/ TopIsBehind(e1)]
      ELSE [ScrollUp(e2) EXCEPT !.line = @ - 1]

cursor_right(e) ==
  LET q == Cursor(e)
      c == Text(e)[q + 1]
      e1 == [e EXCEPT !.cur = Behind(e, q + 1)]
  IN  IF q = Len(Text(e)) THEN e
      ELSE IF c # nl /\ e.cx < WIDTH_X - 1 THEN [e1 EXCEPT !.cx = @ + 1, !.cx2 = e.cx + 1]
      ELSE RowDown([e1 EXCEPT !.cx = 0, !.cx2 = 0, !.line = @ + (IF c = nl THEN 1 ELSE 0)])

\* Up to the same column of the row above, within the line or in the line before.
cursor_up(e) ==
  LET q == Cursor(e)
      back == WIDTH_X - (e.cx2 - e.cx)
      end == LineStart(e, q) - 1                       \* the newline before the line
      x == (end - LineStart(e, end)) % WIDTH_X
      less == IF x > e.cx2 THEN x - e.cx2 ELSE 0
      e1 == [e EXCEPT !.cur = InFront(e, q - back), !.cx = e.cx2]
      e2 == [e EXCEPT !.cur = InFront(e, end - less), !.cx = x - less, !.line = @ - 1]
  IN  IF q - LineStart(e, q) >= back THEN RowUp(e1)
      ELSE IF LineStart(e, q) = 0 THEN e
      ELSE RowUp(e2)

cursor_down(e) ==
  LET q == Cursor(e)
      ahead == WIDTH_X - e.cx
      wraps == LineEnd(e, q) - q >= ahead
      q1 == IF wraps THEN q + ahead ELSE LineEnd(e, q) + 1
      q2 == IF LineEnd(e, q1) - q1 < e.cx2 THEN LineEnd(e, q1) ELSE q1 + e.cx2
      place == IF q2 = q1 + e.cx2 THEN Behind(e, q2)
               ELSE IF q2 = Len(Text(e)) THEN EndOfText(e) ELSE InFront(e, q2)
  IN  IF q1 > Len(Text(e)) THEN e
      ELSE RowDown([e EXCEPT !.cur = place, !.cx = q2 - q1, !.line = @ + (IF wraps THEN 0 ELSE 1)])

cursor_home(e) == [e EXCEPT !.cur = Backward(e, @, e.cx), !.cx = 0, !.cx2 = 0]

cursor_end(e) ==
  LET q == Cursor(e)
      room == WIDTH_X - 1 - e.cx
      q1 == IF LineEnd(e, q) - q < room THEN LineEnd(e, q) ELSE q + room
      place == IF room = 0 THEN e.cur
               ELSE IF q1 = q + room THEN Behind(e, q1)
               ELSE IF q1 = Len(Text(e)) THEN EndOfText(e) ELSE InFront(e, q1)
  IN  [e EXCEPT !.cur = place, !.cx = @ + q1 - q, !.cx2 = e.cx + q1 - q]

(***************************************************************************)
(* A page: to the edge of the screen, on until EDITWIDTHY - 1 rows are     *)
(* scrolled or the text ends, and back to the row the cursor was in.       *)
(***************************************************************************)
Steps(n) == [k \in 1 .. n |-> k]
Times(e, Op(_), n) == FoldLeft(LAMBDA f, k : Op(f), e, Steps(n))
Until(e, Op(_), Done(_)) ==
  FoldLeft(LAMBDA f, k : IF Done(f) THEN f ELSE Op(f), e, Steps(EDITWIDTHY))
Scrolled(e, Op(_)) ==
  FoldLeft(LAMBDA f, k : IF f.go THEN [e |-> Op(f.e), go |-> Op(f.e).top # f.e.top] ELSE f,
           [e |-> e, go |-> TRUE], Steps(EDITWIDTHY - 1)).e

Page(e, edge, Op(_), Return(_)) ==
  LET e1 == Scrolled(edge, Op)
  IN  IF e1.top = edge.top THEN e1 ELSE Until(e1, Return, LAMBDA f : f.cy = e.cy)

cursor_pageup(e) == Page(e, Until(e, cursor_up, LAMBDA f : f.cy = 0), cursor_up, cursor_down)
cursor_pagedown(e) ==
  Page(e, Until(e, cursor_down, LAMBDA f : f.cy = EDITWIDTHY - 1 \/ cursor_down(f).cy = f.cy),
       cursor_down, cursor_up)

cursor_top(e) ==
  [e EXCEPT !.cur = <<1, 0>>, !.top = <<1, 0>>,
            !.cx = 0, !.cx2 = 0, !.cy = 0, !.line = 1]

movecursor(e, pos, stray) ==
  LET d == pos - Cursor(e)
  IN  IF d >= 0 THEN Times(e, cursor_right, d)
      ELSE Times(e, LAMBDA f : IF f.stray THEN f ELSE cursor_left(f, stray), -d)
=============================================================================
