------------------------------- MODULE Editor -------------------------------
(***************************************************************************)
(* The text editor (editor.c): its keys.  texteditor takes a key out of    *)
(* the key ring and handles it; in the idle time between two keys, unless  *)
(* an area is selected, it calls gabagecollect1 sixty times a second.      *)
(*                                                                         *)
(* ed is the record of TextBuffer and Screen; area is where the selection  *)
(* begins (cursorbp1, cx1, cy1, line_no1).  Colours of the text, messages  *)
(* and the bottom line are left out.                                       *)
(***************************************************************************)
EXTENDS Screen

CONSTANTS
  Files,        \* the texts that can be loaded
  MaxClip,      \* bound: characters in an area that is copied
  Uses,         \* bound: what one behaviour does, see AllUses
  StrayRead,    \* may cursor_left read behind a buffer?  see ColumnLeft
  Queued,       \* may a key come before the idle time that follows the last one?
  NoArea

\* An area is at most a screenful, and must fit into the undo memory.
ASSUME EditorAssumption ==
  /\ UNDOBUFSIZE >= WIDTH_X * EDITWIDTHY + 8
  /\ MaxClip \in Nat /\ {StrayRead, Queued} \subseteq BOOLEAN

VARIABLES
  ed, area, clip,
  idle,         \* was there idle time since the last key?
  key,          \* history: the last key
  use           \* bound: the keys of this behaviour, the records they may leave for undo
vars == <<ed, area, clip, idle, key, use>>

Empty == [buf |-> << << >> >>, num |-> 0,
          cur |-> <<1, 0>>, top |-> <<1, 0>>, cx |-> 0, cy |-> 0, cx2 |-> 0, line |-> 1,
          undo |-> << >>, past |-> << >>, stray |-> FALSE]

Init ==
  /\ ed = Empty /\ area = NoArea /\ clip = << >>
  /\ idle = TRUE /\ key = <<"none">> /\ use \in Uses

(***************************************************************************)
(* The selected area lies between its anchor and the cursor; the places on *)
(* the screen tell which comes first.                                      *)
(***************************************************************************)
Here == [p |-> ed.cur, cx |-> ed.cx, cy |-> ed.cy, line |-> ed.line]
CursorFirst == ed.cy < area.cy \/ (ed.cy = area.cy /\ ed.cx < area.cx)
From == IF CursorFirst THEN ed.cur ELSE area.p
To == IF CursorFirst THEN area.p ELSE ed.cur
countarea == bpixtopos(ed, To) - bpixtopos(ed, From)
Selected == SubSeq(Text(ed), bpixtopos(ed, From) + 1, bpixtopos(ed, To))

deletearea ==
  LET e1 == IF CursorFirst THEN ed
            ELSE [ed EXCEPT !.cur = area.p, !.cx = area.cx, !.cy = area.cy, !.line = area.line]
      e2 == [e1 EXCEPT !.cx2 = e1.cx]
  IN  deletearea_len(setundobuf(e2, "CONTDEL", bpixtopos(e2, e2.cur), Selected, countarea),
                     e2.cur, countarea)

\* insertchar, again behind garbage collection when no buffer is left.
Insert(e, c, undo) ==
  LET r == insertchar(e, e.cur, c, undo)
      g == gabagecollect2(e)
  IN  IF r.code > 0 THEN insertchar(g, g.cur, c, undo) ELSE r
Overwrite(e, c) ==
  LET r == overwritechar(e, e.cur, c, TRUE)
      g == gabagecollect2(e)
  IN  IF r.code > 0 THEN overwritechar(g, g.cur, c, TRUE) ELSE r
Step(r) == IF r.code = 0 THEN cursor_right(r.e) ELSE r.e

RECURSIVE PasteFrom(_, _)
PasteFrom(e, s) ==
  IF s = << >> \/ Insert(e, Head(s), FALSE).code # 0 THEN e
  ELSE PasteFrom(Step(Insert(e, Head(s), FALSE)), Tail(s))

clippaste(e) ==
  IF clip = << >> \/ e.num + Len(clip) > TBUFMAXSIZE THEN e
  ELSE PasteFrom(setundobuf(e, "CONTINS", Cursor(e), << >>, Len(clip)), clip)

(***************************************************************************)
(* Undo: the newest record is undone and taken out.                        *)
(***************************************************************************)
Taken(e) == [e EXCEPT !.undo = Front(@), !.past = Front(@)]

Again(e, p, c) == insertchar(e, p, c, FALSE).e
\* Mutant: the deleted characters are put back from the first to the last.
Refill_forward(e, p, s) == FoldLeft(LAMBDA f, c : Again(f, p, c), e, s)
Refill(e, p, s) == FoldLeft(LAMBDA f, c : Again(f, p, c), e, Reverse(s))

undoexec(stray) ==
  LET r == Last(ed.undo)
      e == movecursor(Taken(ed), r.pos, stray)
      p == postobpix(e, r.pos)
  IN  CASE r.op = "INSERT" -> deletechar(e, p, "none")
        [] r.op = "CONTINS" -> deletearea_len(e, p, r.n)
        [] r.op = "CONTDEL" -> Refill(e, p, r.s)
        [] r.op = "OVERWRITE" -> overwritechar(e, p, r.s[1], FALSE).e
        [] r.op = "DELETE" -> Again(e, p, r.s[1])
        [] r.op = "BACKSPACE" -> cursor_right(Again(e, p, r.s[1]))

(***************************************************************************)
(* Keys.  With shift, a move starts or extends an area, and the screen may *)
(* scroll only as long as the anchor stays in it: delta is how the row of  *)
(* the anchor changes when the screen scrolls.                             *)
(***************************************************************************)
Unless(a, e) == IF a # NoArea /\ a.cx = e.cx /\ a.cy = e.cy THEN NoArea ELSE a
\* Mutant: the line number is not restored.
Restored_otherLine(e) == [ed EXCEPT !.cx2 = e.cx2, !.stray = e.stray, !.line = e.line]
Restored(e) == [ed EXCEPT !.cx2 = e.cx2, !.stray = e.stray]

Ready(k) == k[1] \in use.keys /\ (Queued \/ idle \/ area # NoArea)

After(k, e, a) ==
  /\ Ready(k) /\ (a # NoArea => "select" \in use.keys)
  /\ Len(e.undo) <= use.records
  /\ idle' = FALSE /\ key' = k /\ use' = use
  /\ ed' = e /\ area' = Unless(a, e)
  /\ StrayRead \/ ~e.stray

MoveKey(k, e, shift, delta) ==
  LET a == IF ~shift THEN NoArea ELSE IF area = NoArea THEN Here ELSE area
      scrolled == a # NoArea /\ e.top # ed.top
      cy == a.cy + delta
  IN  /\ Ready(k)
      /\ IF ~scrolled THEN After(k, e, a)
         ELSE IF cy \in 0 .. EDITWIDTHY - 1 THEN After(k, e, [a EXCEPT !.cy = cy])
         ELSE After(k, Restored(e), a)
      /\ UNCHANGED clip

LeftKey == \E shift, stray \in BOOLEAN :
  MoveKey(<<"left">>, cursor_left(ed, stray), shift, 1)
RightKey == \E shift \in BOOLEAN : MoveKey(<<"right">>, cursor_right(ed), shift, -1)
UpKey == \E shift \in BOOLEAN : MoveKey(<<"move">>, cursor_up(ed), shift, 1)
DownKey == \E shift \in BOOLEAN : MoveKey(<<"move">>, cursor_down(ed), shift, -1)
HomeKey == \E shift \in BOOLEAN : MoveKey(<<"move">>, cursor_home(ed), shift, 0)
EndKey == \E shift \in BOOLEAN : MoveKey(<<"move">>, cursor_end(ed), shift, 0)
PageUpKey == MoveKey(<<"move">>, cursor_pageup(ed), FALSE, 0)
PageDownKey == MoveKey(<<"move">>, cursor_pagedown(ed), FALSE, 0)
changewidth == MoveKey(<<"move">>, cursor_top(ed), FALSE, 0)

\* insertmode is what the Insert key, pressed any number of times, left it.
TypeKey(c) == \E insertmode \in BOOLEAN :
  LET e == IF area = NoArea THEN ed ELSE deletearea
  IN  /\ After(<<"type", c>>,
               IF insertmode \/ c = nl \/ area # NoArea THEN Step(Insert(e, c, TRUE)) ELSE Step(Overwrite(e, c)),
               NoArea)
      /\ UNCHANGED clip

DeleteKey ==
  /\ After(<<"delete">>, IF area # NoArea THEN deletearea ELSE deletechar(ed, ed.cur, "DELETE"), NoArea)
  /\ UNCHANGED clip

BackSpaceKey == \E stray \in BOOLEAN :
  LET e == cursor_left(ed, stray)
      start == ed.cur = <<1, 0>>
  IN  /\ After(<<"backspace">>,
               IF area # NoArea THEN deletearea ELSE IF start THEN ed ELSE deletechar(e, e.cur, "BACKSPACE"),
               NoArea)
      /\ UNCHANGED clip

CopyKey ==
  /\ area # NoArea /\ countarea <= MaxClip
  /\ After(<<"copy">>, ed, area) /\ clip' = Selected
CutKey ==
  /\ area # NoArea /\ countarea <= MaxClip
  /\ After(<<"cut">>, deletearea, NoArea) /\ clip' = Selected

PasteKey ==
  LET n == IF area = NoArea THEN 0 ELSE countarea
      fits == ed.num - n + Len(clip) <= TBUFMAXSIZE
  IN  /\ clip # << >>
      /\ IF fits THEN After(<<"paste">>, clippaste(IF area = NoArea THEN ed ELSE deletearea), NoArea)
         ELSE After(<<"paste">>, ed, area)
      /\ UNCHANGED clip

UndoKey == \E stray \in BOOLEAN :
  /\ ed.undo # << >>
  /\ After(<<"undo">>, undoexec(stray), NoArea) /\ UNCHANGED clip

(***************************************************************************)
(* fileload and newtext: another text.  run: the text is written to a file *)
(* and read back, the cursor is put where it was, or to the beginning of   *)
(* the line with an error.                                                 *)
(***************************************************************************)
LoadKey(t) ==
  /\ After(<<"load", t>>, cursor_top(Filled(ed, t)), NoArea)
  /\ UNCHANGED clip

linetobpix(e, line) ==
  IF line = 1 THEN <<1, 0>>
  ELSE Behind(e, CHOOSE q \in 1 .. Len(Text(e)) :
                   /\ Text(e)[q] = nl
                   /\ Len(SelectSeq(SubSeq(Text(e), 1, q), LAMBDA c : c = nl)) = line - 1)

Lines(e) == 1 .. Len(SelectSeq(Text(e), LAMBDA c : c = nl)) + 1

AtError(e, line) ==
  LET p == linetobpix(e, line)
      e1 == [e EXCEPT !.cur = p, !.top = p, !.cx = 0, !.cx2 = 0, !.cy = 0, !.line = line]
      Up(f, k) == IF f.go /\ cursor_up(f.e).top # f.e.top
                  THEN [e |-> cursor_up(f.e), go |-> TRUE, n |-> f.n + 1]
                  ELSE IF f.go THEN [f EXCEPT !.e = cursor_up(f.e), !.go = FALSE] ELSE f
      up == FoldLeft(Up, [e |-> e1, go |-> TRUE, n |-> 0], Steps(EDITWIDTHY \div 2))
  IN  Times(up.e, cursor_down, up.n)

RunKey ==
  LET e == Filled(ed, Text(ed))
      back == [e EXCEPT !.top = postobpix(e, Top(ed)), !.cur = postobpix(e, Cursor(ed))]
  IN  /\ ed.num > 0
      /\ \/ After(<<"run">>, back, NoArea)
         \/ \E line \in Lines(ed) : After(<<"run">>, AtError(e, line), NoArea)
      /\ clip' = << >>

Idle ==
  /\ area = NoArea
  /\ ed' = gabagecollect1(ed) /\ idle' = TRUE
  /\ UNCHANGED <<area, clip, key, use>>

Next ==
  \/ LeftKey \/ RightKey \/ UpKey \/ DownKey \/ HomeKey \/ EndKey \/ PageUpKey \/ PageDownKey
  \/ changewidth \/ \E c \in Codes : TypeKey(c)
  \/ DeleteKey \/ BackSpaceKey \/ CopyKey \/ CutKey \/ PasteKey \/ UndoKey
  \/ \E t \in Files : LoadKey(t)
  \/ RunKey \/ Idle

Spec == Init /\ [][Next]_vars

-----------------------------------------------------------------------------
(***************************************************************************)
(* Properties.                                                             *)
(***************************************************************************)
IsPlace(p) == p[1] \in DOMAIN ed.buf /\ p[2] \in 0 .. Len(ed.buf[p[1]])

\* Types, and the buffers hold the text: every place that is kept (cursor,
\* upper left corner, anchor) is in a buffer of the chain, num counts the
\* characters, the undo memory does not overflow.
BuffersSound ==
  /\ ed.buf \in Seq(Seq(Codes)) /\ Len(ed.buf) \in 1 .. TBUFMAXLINE
  /\ \A b \in DOMAIN ed.buf : Len(ed.buf[b]) <= TBUFSIZE
  /\ ed.num = Len(Text(ed)) /\ ed.num <= TBUFMAXSIZE
  /\ IsPlace(ed.cur) /\ IsPlace(ed.top) /\ (area # NoArea => IsPlace(area.p))
  /\ Used(ed.undo) <= UNDOBUFSIZE /\ Len(ed.past) = Len(ed.undo)

\* Where redraw shows position q: its column and row.
Cell(q) ==
  FoldLeft(LAMBDA c, ch : IF ch = nl \/ c[1] = WIDTH_X - 1 THEN <<0, c[2] + 1>> ELSE <<c[1] + 1, c[2]>>,
           <<0, 0>>, SubSeq(Text(ed), Top(ed) + 1, q))

LineOf(q) == Cardinality(NewlinesBefore(ed, q)) + 1
NotBefore(p, r) == p[1] > r[1] \/ (p[1] = r[1] /\ p[2] >= r[2])
Shown(p, cx, cy, line) ==
  LET q == bpixtopos(ed, p)
  IN  NotBefore(p, ed.top) /\ Cell(q) = <<cx, cy>> /\ cy < EDITWIDTHY /\ line = LineOf(q)

\* The cursor, and the anchor of a selection, are on the screen, and where
\* the screen shows them is where they are in the text.
CursorShown ==
  /\ Shown(ed.cur, ed.cx, ed.cy, ed.line)
  /\ area # NoArea => Shown(area.p, area.cx, area.cy, area.line)

Doc == INSTANCE Document WITH
  text <- Text(ed), at <- Cursor(ed), past <- ed.past,
  sel <- IF area = NoArea THEN NoArea ELSE bpixtopos(ed, area.p), NoSel <- NoArea,
  MaxText <- TBUFMAXSIZE

\* Every key does to the text, the cursor and the clipboard what the key
\* says, and undo gives back the text there was: the editor is a Document.
IsDocument == Doc!Spec
-----------------------------------------------------------------------------
(***************************************************************************)
(* For TLC: a text of two lines; the state without the last key, which     *)
(* decides nothing; and the uses: all keys with one record for undo; and   *)
(* as many records as the undo memory holds, the oldest of which it        *)
(* forgets, from keys without a selection, or from few keys with one.      *)
(***************************************************************************)
SomeFiles == {<<c, nl, c>> : c \in Chars}
Control == <<ed, area, clip, idle, use>>

Use(keys, records) == [keys |-> keys, records |-> records]
AllUses == {
  Use({"left", "right", "move", "select", "type", "delete", "backspace", "copy", "cut", "paste",
       "undo", "load", "run"}, 1),
  Use({"left", "type", "delete", "backspace", "undo"}, UNDOBUFSIZE),
  Use({"left", "select", "type", "cut", "paste", "undo"}, UNDOBUFSIZE)}
=============================================================================
