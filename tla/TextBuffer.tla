----------------------------- MODULE TextBuffer -----------------------------
(***************************************************************************)
(* The text buffers of the editor (editor.c): the text is kept in a chain  *)
(* of up to TBUFMAXLINE buffers of TBUFSIZE characters.  The operators     *)
(* take the state of the editor as a record e and give the next one; of    *)
(* the record this module uses                                             *)
(*   buf          what the buffers of the chain hold, in order             *)
(*   num          the number of characters                                 *)
(*   cur, top     cursor and upper left corner, each <<buffer, index>>     *)
(*   undo         the records of undobuf                                   *)
(*   past         history: the text before each record of undo             *)
(* A buffer is known by its number in the chain: linking one in or out     *)
(* renumbers those behind it, and a place in a buffer that is linked out   *)
(* is in buffer Gone.                                                      *)
(*                                                                         *)
(* A place in the text can be written in two ways when it is between two   *)
(* buffers.  A loop of the code that reads forward ends right behind the   *)
(* last character it read (Behind), one that reads backward ends in front  *)
(* of it (InFront).                                                        *)
(***************************************************************************)
EXTENDS Integers, Sequences, FiniteSets, SequencesExt

CONSTANTS
  TBUFMAXLINE, TBUFSIZE,
  UNDOBUFSIZE,          \* bytes
  Chars, nl,            \* characters other than newline, and newline
  Low                   \* those with codes below 10, which take one more byte

ASSUME TextBufferAssumption ==
  /\ TBUFMAXLINE \in Nat \ {0, 1} /\ TBUFSIZE \in Nat \ {0, 1}
  /\ UNDOBUFSIZE \in Nat /\ nl \notin Chars /\ Low \subseteq Chars

TBUFMAXSIZE == TBUFSIZE * (TBUFMAXLINE - 1)
Codes == Chars \cup {nl}
Least(S) == CHOOSE m \in S : \A n \in S : m <= n
Greatest(S) == CHOOSE m \in S : \A n \in S : m >= n

(***************************************************************************)
(* Places.                                                                 *)
(***************************************************************************)
Cells(e) == FlattenSeq([b \in DOMAIN e.buf |-> [i \in DOMAIN e.buf[b] |-> <<b, i>>]])
Text(e) == FlattenSeq(e.buf)
HasNext(e, b) == b < Len(e.buf)
HasPrev(e, b) == b > 1
Full(e, b) == Len(e.buf[b]) >= TBUFSIZE
AtEnd(e, p) == p[2] >= Len(e.buf[p[1]])

Behind(e, q) == Cells(e)[q]
InFront(e, q) == LET c == Cells(e)[q + 1] IN <<c[1], c[2] - 1>>
EndOfText(e) == <<Len(e.buf), Len(Last(e.buf))>>

bpixtopos(e, p) == Len(FlattenSeq(SubSeq(e.buf, 1, p[1] - 1))) + p[2]

postobpix(e, pos) ==
  CASE pos < Len(Text(e)) -> InFront(e, pos)
    [] pos = Len(Text(e)) -> EndOfText(e)
    [] OTHER -> <<1, 0>>

(***************************************************************************)
(* Links.                                                                  *)
(***************************************************************************)
Gone == 0
Unused(e) == Len(e.buf) < TBUFMAXLINE

newTBuf(e, prev) ==
  LET Shift(p) == IF p[1] > prev THEN <<p[1] + 1, p[2]>> ELSE p
  IN  IF ~Unused(e) THEN e
      ELSE [e EXCEPT !.buf = InsertAt(@, prev + 1, << >>), !.cur = Shift(@), !.top = Shift(@)]

deleteTBuf(e, b) ==
  LET Shift(p) == IF p[1] > b THEN <<p[1] - 1, p[2]>> ELSE IF p[1] = b THEN <<Gone, p[2]>> ELSE p
  IN  IF Len(e.buf) = 1 THEN e
      ELSE [e EXCEPT !.buf = RemoveAt(@, b), !.cur = Shift(@), !.top = Shift(@)]

(***************************************************************************)
(* Undo memory: pushing a record drops the oldest ones until it fits.      *)
(***************************************************************************)
Size(r) ==
  CASE r.op = "INSERT" -> 4
    [] r.op \in {"OVERWRITE", "DELETE", "BACKSPACE"} -> 4 + (IF r.s[1] \in Low THEN 1 ELSE 0)
    [] r.op = "CONTINS" -> 6
    [] r.op = "CONTDEL" -> 8 + r.n

Used(u) == FoldLeft(LAMBDA n, r : n + Size(r), 0, u)
Fits(u) == CHOOSE k \in 1 .. Len(u) :
             /\ Used(SubSeq(u, k, Len(u))) <= UNDOBUFSIZE
             /\ \A j \in 1 .. k - 1 : Used(SubSeq(u, j, Len(u))) > UNDOBUFSIZE

setundobuf(e, op, pos, s, n) ==
  LET u == Append(e.undo, [op |-> op, pos |-> pos, s |-> s, n |-> n])
  IN  [e EXCEPT !.undo = SubSeq(u, Fits(u), Len(u)),
                !.past = SubSeq(Append(@, Text(e)), Fits(u), Len(u))]

(***************************************************************************)
(* Inserting and deleting.  insertchar gives [code |-> c, e |-> e']: code  *)
(* 1 asks for garbage collection, -1 is an error.                          *)
(***************************************************************************)
Result(c, e) == [code |-> c, e |-> e]

Put(e, b, ix, c) == [e EXCEPT !.buf[b] = InsertAt(@, ix + 1, c), !.num = @ + 1]
Note(e, b, ix, undo) ==
  IF undo THEN setundobuf(e, "INSERT", bpixtopos(e, <<b, ix>>), << >>, 1) ELSE e

insertchar(e, p, c, undo) ==
  LET b == p[1]
      ix == p[2]
      needs == ~HasNext(e, b) \/ Full(e, b + 1)
      e1 == IF needs THEN newTBuf(e, b) ELSE e
      next == b + 1
  IN  IF ix > Len(e.buf[b]) \/ e.num >= TBUFMAXSIZE THEN Result(-1, e)
      ELSE IF ~Full(e, b) THEN Result(0, Put(Note(e, b, ix, undo), b, ix, c))
      ELSE IF needs /\ ~Unused(e) THEN Result(1, e)
      ELSE IF ix = TBUFSIZE THEN Result(0, Put(Note(e1, next, 0, undo), next, 0, c))
      ELSE LET e2 == Put(Note(e1, b, ix, undo), next, 0, Last(e.buf[b]))
           IN  Result(0, [e2 EXCEPT !.buf[b] = InsertAt(Front(@), ix + 1, c)])

overwritechar(e, p, c, undo) ==
  LET q == bpixtopos(e, p)
      r == IF AtEnd(e, p) THEN InFront(e, q) ELSE p
      old == e.buf[r[1]][r[2] + 1]
      e1 == IF undo THEN setundobuf(e, "OVERWRITE", q, <<old>>, 1) ELSE e
  IN  IF q >= Len(Text(e)) THEN insertchar(e, IF AtEnd(e, p) THEN EndOfText(e) ELSE p, c, undo)
      ELSE IF old = nl THEN insertchar(e, r, c, undo)
      ELSE Result(0, [e1 EXCEPT !.buf[r[1]][r[2] + 1] = c])

\* op is the record kept for undo, or "none".
deletechar(e, p, op) ==
  LET q == bpixtopos(e, p)
      r == IF AtEnd(e, p) THEN InFront(e, q) ELSE p
      e1 == IF op = "none" THEN e ELSE setundobuf(e, op, q, <<e.buf[r[1]][r[2] + 1]>>, 1)
  IN  IF q >= Len(Text(e)) THEN e
      ELSE [e1 EXCEPT !.buf[r[1]] = RemoveAt(@, r[2] + 1), !.num = @ - 1]

(***************************************************************************)
(* n characters from p: the rest of the first buffer, whole buffers, which *)
(* leave the chain, then characters of the next one.                       *)
(***************************************************************************)
RECURSIVE DropBuffers(_, _, _)
DropBuffers(e, b, n) ==
  LET k == Len(e.buf[b])
      e1 == [deleteTBuf(e, b) EXCEPT !.num = @ - k]
  IN  IF n < k THEN [e EXCEPT !.buf[b] = SubSeq(@, n + 1, k), !.num = @ - n]
      ELSE IF HasNext(e, b) THEN DropBuffers(e1, b, n - k) ELSE e1

\* Mutant: the first buffer leaves the chain too when all of it is deleted.
deletearea_len_first(e, p, n) ==
  IF p[2] = 0 THEN DropBuffers(e, p[1], n)
  ELSE [e EXCEPT !.buf[p[1]] = SubSeq(@, 1, p[2]) \o SubSeq(@, p[2] + n + 1, Len(@)), !.num = @ - n]
deletearea_len(e, p, n) ==
  LET rest == Len(e.buf[p[1]]) - p[2]
      e1 == [e EXCEPT !.buf[p[1]] = SubSeq(@, 1, p[2]), !.num = @ - rest]
  IN  IF n < rest
      THEN [e EXCEPT !.buf[p[1]] = SubSeq(@, 1, p[2]) \o SubSeq(@, p[2] + n + 1, Len(@)), !.num = @ - n]
      ELSE IF HasNext(e, p[1]) THEN DropBuffers(e1, p[1] + 1, n - rest) ELSE e1

(***************************************************************************)
(* Garbage collection: empty buffers leave the chain, and one character    *)
(* moves up into a gap before the cursor's buffer, and one behind it.      *)
(***************************************************************************)
RECURSIVE Normal(_, _, _)
Normal(e, p, intoFull) ==
  IF p[2] = 0 /\ HasPrev(e, p[1]) /\ (intoFull \/ ~Full(e, p[1] - 1))
  THEN Normal(e, <<p[1] - 1, Len(e.buf[p[1] - 1])>>, intoFull) ELSE p

DropEmpty(e) ==
  LET kept == {b \in DOMAIN e.buf : e.buf[b] # << >> \/ b = e.cur[1]}
      Number(b) == Cardinality({k \in kept : k < b}) + 1
      Keep(s, b) == IF b \in kept THEN Append(s, e.buf[b]) ELSE s
  IN  [e EXCEPT !.buf = FoldLeftDomain(Keep, << >>, @),
                !.cur[1] = Number(@), !.top[1] = Number(@)]

\* The first character of the buffer behind b goes to the end of b.
Pull(e, b) ==
  LET Back(p) == IF p[1] = b + 1 THEN <<p[1], p[2] - 1>> ELSE p
  IN  [e EXCEPT !.buf[b] = Append(@, Head(e.buf[b + 1])), !.buf[b + 1] = Tail(@),
                !.cur = Back(@), !.top = Back(@)]

Gaps(e, from, to) == {b \in from .. to : ~Full(e, b)}

PullBefore(e) ==
  LET gaps == Gaps(e, 1, e.cur[1] - 1)
  IN  IF gaps = {} THEN e ELSE Pull(e, Least(gaps))

PullAfter(e) ==
  LET gaps == Gaps(e, e.cur[1] + 1, Len(e.buf) - 1)
      e1 == Pull(e, Least(gaps))
  IN  IF gaps = {} THEN e
      ELSE IF e1.buf[Least(gaps) + 1] = << >> THEN deleteTBuf(e1, Least(gaps) + 1) ELSE e1

Tidy(e) == DropEmpty([e EXCEPT !.cur = Normal(e, @, FALSE), !.top = Normal(e, @, TRUE)])
gabagecollect1(e) == PullAfter(PullBefore(Tidy(e)))

\* Until gabagecollect1 moves no character any more.
RECURSIVE gabagecollect2(_)
gabagecollect2(e) ==
  LET e1 == gabagecollect1(e) IN IF e1.buf = Tidy(e).buf THEN e1 ELSE gabagecollect2(e1)

inittextbuf(e) == [e EXCEPT !.buf = << << >> >>, !.num = 0, !.undo = << >>, !.past = << >>]

\* loadtextfile fills one buffer after the other.
Filled(e, s) ==
  LET Add(bs, c) == IF Len(Last(bs)) < TBUFSIZE THEN Front(bs) \o <<Append(Last(bs), c)>>
                    ELSE Append(bs, <<c>>)
      e1 == inittextbuf(e)
  IN  [e1 EXCEPT !.buf = FoldLeft(Add, @, s), !.num = Len(s)]
=============================================================================
