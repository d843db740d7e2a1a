----------------------------- MODULE TextValues ------------------------------
(* What the expressions of module Texts mean: texts and numbers, without a     *)
(* heap. texts gives the value of each variable.                               *)
EXTENDS Integers, Sequences, SequencesExt, FiniteSetsExt

CONSTANTS Bytes, LF, Digits, MINUS, DOLLAR, XS, BACKSLASH, CR, TAB, SPACE, LineMax

First(t, n) == SubSeq(t, 1, Min({n, Len(t)}))
Behind(t, n) == SubSeq(t, n + 1, Len(t))
At(t, i) == IF i \in DOMAIN t THEN t[i] ELSE 0

\* -1, 0 or 1: how two texts lie in the dictionary.
Before(t, u) ==
  \E n \in 0 .. Len(t) : First(t, n) = First(u, n) /\ n < Len(u) /\ At(t, n + 1) < u[n + 1]
Order(t, u) == IF Before(t, u) THEN -1 ELSE IF Before(u, t) THEN 1 ELSE 0

Says(t) == At(t, 1) # Digits[1]
Holds(rel, t, u) ==
  CASE rel = "="  -> t = u
    [] rel = "<>" -> t # u
    [] rel = "<"  -> Before(t, u)
    [] rel = ">"  -> Before(u, t)
    [] rel = "<=" -> ~Before(u, t)
    [] rel = ">=" -> ~Before(t, u)
    [] rel = "OR" -> Says(t) \/ Says(u)
    [] rel = "AND" -> Says(t) /\ Says(u)

\* From the x-th character on, or from the -x-th of the end; the whole text when there is none
\* so far; y characters of it, if it has them, all of it when y is negative.
Part(t, x, y) ==
  LET from == IF x < 0 THEN Len(t) + x ELSE x
      rest == IF from \in 0 .. Len(t) THEN Behind(t, from) ELSE t
  IN  IF y < 0 THEN rest ELSE First(rest, y)

\* The numeral of a number, and the number of the longest numeral at the start.
Magnitude10(n) == IF n < 0 THEN -n ELSE n
Length10(n) == Min({k \in 1 .. 9 : n < 10^k})
Numeral(n) ==
  LET m == Magnitude10(n)
      k == Length10(m)
  IN  (IF n < 0 THEN <<MINUS>> ELSE <<>>) \o [i \in 1 .. k |-> Digits[((m \div 10^(k - i)) % 10) + 1]]
HexNumeral(n, width) ==
  LET Digit(i) == (n \div 16^(8 - i)) % 16
      least == Max({1} \cup {9 - i : i \in {j \in 1 .. 8 : Digit(j) # 0}})
      w == IF width = 0 THEN least ELSE IF width \in 1 .. 8 THEN width ELSE 8
  IN  [i \in 1 .. w |-> Digits[Digit(8 - w + i) + 1]]
Worth(c) == (CHOOSE i \in DOMAIN Digits : Digits[i] = c) - 1
NumberAt(t, base) ==
  LET signed == At(t, 1) = MINUS
      u == IF signed THEN Tail(t) ELSE t
      IsDigit(c) == \E i \in 1 .. base : Digits[i] = c
      k == Max({n \in 0 .. Len(u) : \A i \in 1 .. n : IsDigit(u[i])})
      n == FoldLeft(LAMBDA sum, i : sum + (Worth(u[i]) * base^(k - i)), 0, [i \in 1 .. k |-> i])
  IN  IF signed THEN -n ELSE n
Value(t) ==
  IF At(t, 1) = DOLLAR THEN NumberAt(Behind(t, 1), 16)
  ELSE IF At(t, 1) = Digits[1] /\ At(t, 2) \in XS THEN NumberAt(Behind(t, 2), 16)
  ELSE NumberAt(t, 10)

Character(c) ==
  CASE c.esc = ""  -> <<c.ch>>
    [] c.esc = "n" -> <<LF>>
    [] c.esc = "r" -> <<CR>>
    [] c.esc = "t" -> <<TAB>>
    [] c.esc = "\\" -> <<BACKSLASH>>
    [] c.esc = "x" -> <<((c.high * 16) + c.low) % Bytes>>
    [] OTHER -> <<BACKSLASH, c.ch>>

RECURSIVE Text(_, _), Number(_, _)
Text(e, texts) ==
  CASE e.op = "constant" -> FlattenSeq([i \in DOMAIN e.chars |-> Character(e.chars[i])])
    [] e.op = "variable" -> texts[e.var]
    [] e.op = "mid"  -> Part(texts[e.var], Number(e.x, texts), Number(e.y, texts))
    [] e.op = "+"    -> Text(e.a, texts) \o Text(e.b, texts)
    [] e.op = "calc" -> <<Digits[IF Holds(e.rel, Text(e.a, texts), Text(e.b, texts)) THEN 2 ELSE 1]>>
    [] e.op = "CHR$" -> LET c == Number(e.x, texts) % Bytes IN IF c = 0 THEN <<>> ELSE <<c>>
    [] e.op = "DEC$" -> Numeral(Number(e.x, texts))
    [] e.op = "HEX$" -> HexNumeral(Number(e.x, texts), Number(e.y, texts))
Number(e, texts) ==
  CASE e.op = "number"  -> e.n
    [] e.op = "LEN" -> Len(Text(e.a, texts))
    [] e.op = "VAL" -> Value(Text(e.a, texts))
    [] e.op = "ASC" -> At(Text(e.a, texts), 1)
    [] e.op = "IF"  -> IF Says(Text(e.a, texts)) THEN 1 ELSE 0
    [] e.op = "STRCMP"  -> Order(Text(e.a, texts), Text(e.b, texts))
    [] e.op = "STRNCMP" -> Order(First(Text(e.a, texts), e.n), First(Text(e.b, texts), e.n))

------------------------------------------------------------------------------
(* Typing a line l: its text, the place of the cursor in it, whether           *)
(* characters are inserted, and the most characters it has had.                *)

Grown(l) == [l EXCEPT !.most = Max({@, Len(l.text)})]
Without(l, i) ==
  IF i \in DOMAIN l.text THEN [l EXCEPT !.text = RemoveAt(@, i), !.place = i - 1] ELSE l
Typing(l, key) ==
  LET p == l.place
      behind == p = Len(l.text)
  IN  CASE key.ch # 0 ->
             IF ~l.inserts /\ ~behind THEN [l EXCEPT !.text[p + 1] = key.ch, !.place = p + 1]
             ELSE IF Len(l.text) = LineMax THEN l
             ELSE Grown([l EXCEPT !.text = First(@, p) \o <<key.ch>> \o Behind(@, p), !.place = p + 1])
        [] key.vk = "LEFT"   -> [l EXCEPT !.place = Max({0, p - 1})]
        [] key.vk = "RIGHT"  -> [l EXCEPT !.place = Min({Len(l.text), p + 1})]
        [] key.vk = "HOME"   -> [l EXCEPT !.place = 0]
        [] key.vk = "END"    -> [l EXCEPT !.place = Len(l.text)]
        [] key.vk = "BACK"   -> Without(l, p)
        [] key.vk = "DELETE" -> Without(l, p + 1)
        [] key.vk = "INSERT" -> [l EXCEPT !.inserts = ~@]
        [] OTHER -> [l EXCEPT !.end = key.vk]
Line(inserts, keys) ==
  FoldLeft(Typing, [text |-> <<>>, place |-> 0, inserts |-> inserts, most |-> 0, end |-> ""], keys)
==============================================================================
