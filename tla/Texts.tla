-------------------------------- MODULE Texts --------------------------------
(* Strings of a program: what string.c compiles an expression to, and what the *)
(* functions of library.c then do with the heap (module Memory) and with the   *)
(* characters in it. A store m holds the heap and the characters written to    *)
(* it, by their addresses; a pointer v is the address of a character, or a     *)
(* constant in the object code.                                                *)
(*                                                                             *)
(* An expression is a record: op, and what the operation needs.                *)
EXTENDS Console

CONSTANTS
  NamedNum, TEMPVAR_NUMBER, ALLOC_BLOCK_NUM, HeapEnd,  \* as in module Memory
  Digits,                                    \* the characters 0 .. 9, A .. F
  MINUS, DOLLAR, XS, BACKSLASH, CR, TAB, SPACE,  \* other characters; XS: x and X
  Narrow, NarrowTab, WideTab,                \* columns of a narrow screen, 42; its tabs, 7; others, 10
  LineMax                                    \* characters of a line of INPUT$, 255

H == INSTANCE Memory WITH
  DELETE_LIST_SIZE <- 10, HeapBegin <- 1, SizeMod <- 2^16, Sizes <- {}, heap <- 0, halted <- 0

NoTexts == [heap |-> H!InitMemory, chars |-> <<>>]
Const(text) == [at |-> 0, text |-> text]
Pointer(a)  == [at |-> a, text |-> <<>>]

\* Four characters in a word; the words for n characters and the 0 behind them.
Words(n) == (n + 4) \div 4

String(m, v) ==
  IF v.at = 0 THEN v.text
  ELSE LET n == CHOOSE n \in 0 .. 4 * HeapEnd : m.chars[v.at + n] = 0
       IN  [i \in 1 .. n |-> m.chars[v.at + i - 1]]

Write(m, a, text) ==
  [m EXCEPT !.chars = [k \in a .. a + Len(text) |-> IF k = a + Len(text) THEN 0 ELSE text[k - a + 1]] @@ @]

\* A new string in a temporary block of so many words.
InBlock(m, a, text) == [m |-> Write(m, a, text), v |-> Pointer(a)]
InLast(m, text) == InBlock(m, 4 * m.heap.ptr[m.heap.last], text)
NewString(m, words, text) == InLast([m EXCEPT !.heap = H!AllocTemp(@, words).heap], text)
\* What is not needed of the block allocated last is given back.
Shrunk(r, n) == [r EXCEPT !.m.heap.size[r.m.heap.last] = Words(n)]

\* A pointer into a block is not the block's.
garbage_collection(m, v) ==
  IF v.at % 4 # 0 THEN m ELSE [m EXCEPT !.heap = H!Collect(@, v.at \div 4)]

------------------------------------------------------------------------------
(* The functions of library.c                                                  *)

Without(m, str1, str2) == garbage_collection(garbage_collection(m, str1), str2)
lib_add_string(m, str1, str2) ==
  LET text == String(m, str1) \o String(m, str2)
  IN  [NewString(m, Words(Len(text)), text) EXCEPT !.m = Without(@, str1, str2)]

\* strcmp and strncmp: below, equal to or above 0.
RECURSIVE strcmp(_, _)
strcmp(s, t) ==
  CASE s = <<>> /\ t = <<>> -> 0
    [] s = <<>> -> -1
    [] t = <<>> -> 1
    [] OTHER -> IF Head(s) = Head(t) THEN strcmp(Tail(s), Tail(t)) ELSE IF Head(s) < Head(t) THEN -1 ELSE 1
strncmp(s, t, n) ==
  strcmp(SubSeq(s, 1, IF Len(s) < n THEN Len(s) ELSE n), SubSeq(t, 1, IF Len(t) < n THEN Len(t) ELSE n))

\* 0 is the only text that begins with the digit 0 and is false.
Zero == Digits[1]
FirstIsZero(m, v) == LET s == String(m, v) IN s # <<>> /\ Head(s) = Zero
lib_calc_string(m, rel, str1, str2) ==
  LET c == strcmp(String(m, str1), String(m, str2))
      yes == CASE rel = "="  -> c = 0
               [] rel = "<>" -> c # 0
               [] rel = "<"  -> c < 0
               [] rel = "<=" -> c <= 0
               [] rel = ">"  -> c > 0
               [] rel = ">=" -> c >= 0
               [] rel = "OR" -> ~FirstIsZero(m, str1) \/ ~FirstIsZero(m, str2)
               [] rel = "AND" -> ~FirstIsZero(m, str1) /\ ~FirstIsZero(m, str2)
  IN  [m |-> Without(m, str1, str2),
       v |-> Const(<<IF yes THEN Digits[2] ELSE Zero>>)]

\* A$(r1, r0): part of a variable, a pointer into it when it goes to the end.
FromPlace(at, r1, i) == Pointer(CASE r1 \in -i .. -1 -> at + i + r1
                              [] r1 \in 0 .. i   -> at + r1
                              [] OTHER           -> at)
AtMost(m, str, s, r0) ==
  IF r0 < 0 \/ Len(s) <= r0 THEN [m |-> m, v |-> str] ELSE NewString(m, Words(r0), SubSeq(s, 1, r0))
MidOf(m, str, r0) == AtMost(m, str, String(m, str), r0)
lib_mid(m, n, r1, r0) ==
  LET at == 4 * m.heap.ptr[n] IN MidOf(m, FromPlace(at, r1, Len(String(m, Pointer(at)))), r0)

lib_chr(m, n) == NewString(m, 1, IF Byte(n) = 0 THEN <<>> ELSE <<Byte(n)>>)

\* snprintf of an integer, the last digit first.
RECURSIVE Figures(_)
Figures(n) == IF n < 10 THEN <<Digits[n + 1]>> ELSE Append(Figures(n \div 10), Digits[(n % 10) + 1])
Decimal(n) == IF n < 0 THEN <<MINUS>> \o Figures(-n) ELSE Figures(n)
lib_dec(m, n) == LET s == Decimal(n) IN Shrunk(NewString(m, 8, s), Len(s))

\* Eight digits, of which the last ones are kept.
lib_hex(m, width, num) ==
  LET str  == [i \in 1 .. 8 |-> Digits[((num \div 16^(8 - i)) % 16) + 1]]
      shown == {i \in 1 .. 7 : str[i] # Zero} \union {8}
      w    == CASE width \notin 0 .. 8 -> 8
                [] width = 0 -> 9 - (CHOOSE i \in shown : \A j \in shown : i <= j)
                [] OTHER -> width
  IN  NewString(m, 3, SubSeq(str, 9 - w, 8))

\* strtol: the digits at the start, behind one minus.
RECURSIVE Taken(_, _, _)
Taken(s, base, n) ==
  IF s # <<>> /\ \E i \in 1 .. base : Digits[i] = Head(s)
  THEN Taken(Tail(s), base, (n * base) + (CHOOSE i \in 1 .. base : Digits[i] = Head(s)) - 1) ELSE n
strtol(s, base) == IF s # <<>> /\ Head(s) = MINUS THEN -Taken(Tail(s), base, 0) ELSE Taken(s, base, 0)
lib_val(s) ==
  CASE s # <<>> /\ s[1] = DOLLAR -> strtol(Tail(s), 16)
    [] Len(s) > 1 /\ s[1] = Zero /\ s[2] \in XS -> strtol(SubSeq(s, 3, Len(s)), 16)
    [] OTHER -> strtol(s, 10)

lib_asc(s) == IF s = <<>> THEN 0 ELSE Head(s)

\* A temporary string is handed to the variable, any other one is copied.
ToVariable(m, s, n) == Write(m, 4 * m.heap.ptr[n], s)
Copied(m, s, n) == ToVariable([m EXCEPT !.heap = H!Alloc(@, Words(Len(s)), n).heap], s, n)
lib_let_str(m, str, n) ==
  IF str.at % 4 = 0 /\ H!HoldingTemps(m.heap, str.at \div 4) # {}
  THEN [m EXCEPT !.heap = H!MoveFromTemp(@, n, str.at \div 4)]
  ELSE Copied(m, String(m, str), n)

------------------------------------------------------------------------------
(* Expressions: string.c                                                       *)

\* A character of a constant, or what follows a backslash.
string_char(c) ==
  CASE c.esc = ""  -> <<c.ch>>
    [] c.esc = "n" -> <<LF>>
    [] c.esc = "r" -> <<CR>>
    [] c.esc = "t" -> <<TAB>>
    [] c.esc = "\\" -> <<BACKSLASH>>
    [] c.esc = "x" -> <<Byte((c.high * 16) + c.low)>>
    [] c.esc = "other" -> <<BACKSLASH, c.ch>>
Literal(chars) == FlattenSeq([i \in DOMAIN chars |-> string_char(chars[i])])

\* The store after a string expression and the pointer it leaves, or after an expression for a
\* number and the number.
OfTwo(e, a, b) == IF e.op = "+" THEN lib_add_string(b.m, a.v, b.v) ELSE lib_calc_string(b.m, e.rel, a.v, b.v)
OfNumber(e, x) == IF e.op = "CHR$" THEN lib_chr(x.m, x.n) ELSE lib_dec(x.m, x.n)
OfNumbers(e, x, y) == IF e.op = "mid" THEN lib_mid(y.m, e.var, x.n, y.n) ELSE lib_hex(y.m, y.n, x.n)
OfText(e, a, s) ==
  [m |-> garbage_collection(a.m, a.v),
   n |-> CASE e.op = "LEN" -> Len(s)
           [] e.op = "VAL" -> lib_val(s)
           [] e.op = "ASC" -> lib_asc(s)
           [] e.op = "IF"  -> IF FirstIsZero(a.m, a.v) THEN 0 ELSE 1]
Compared(e, s, t) == IF e.op = "STRCMP" THEN strcmp(s, t) ELSE strncmp(s, t, e.n)
OfTexts(e, a, b) == [m |-> Without(b.m, a.v, b.v), n |-> Compared(e, String(b.m, a.v), String(b.m, b.v))]

RECURSIVE get_string(_, _), get_integer(_, _)
AndString(e, a)  == OfTwo(e, a, get_string(a.m, e.b))
AndNumber(e, x)  == OfNumbers(e, x, get_integer(x.m, e.y))
Known(e, a) == IF e.op \in {"STRCMP", "STRNCMP"} THEN OfTexts(e, a, get_string(a.m, e.b))
               ELSE OfText(e, a, String(a.m, a.v))
get_string(m, e) ==
  CASE e.op = "constant" -> [m |-> m, v |-> Const(Literal(e.chars))]
    [] e.op = "variable" -> [m |-> m, v |-> Pointer(4 * m.heap.ptr[e.var])]
    [] e.op \in {"+", "calc"} -> AndString(e, get_string(m, e.a))
    [] e.op \in {"mid", "HEX$"} -> AndNumber(e, get_integer(m, e.x))
    [] e.op \in {"CHR$", "DEC$"} -> OfNumber(e, get_integer(m, e.x))
get_integer(m, e) ==
  IF e.op = "number" THEN [m |-> m, n |-> e.n] ELSE Known(e, get_string(m, e.a))

\* INPUT$(): a block for the longest line, zeros at first; ESC leaves it empty.
Entered(r, l) == [l |-> l, v |-> r.v, m |-> IF l.end = "RETURN" THEN Write(r.m, r.v.at, l.buf) ELSE r.m]
InputTo(r, d, insertmode, keys) == Entered(r, lineinput(d, insertmode, String(r.m, r.v), LineMax, keys))
lib_input(m, d, insertmode, keys) == InputTo(NewString(m, Words(LineMax), <<>>), d, insertmode, keys)

\* After PRINT of i characters, "," goes to the next tab.
Tabs(d, i) == LET tab == IF d.WIDTH_X = Narrow THEN NarrowTab ELSE WideTab
              IN  [k \in 1 .. tab - (i % tab) |-> SPACE]
Ending(d, i, end) == CASE end = "" -> <<LF>> [] end = ";" -> <<>> [] end = "," -> Tabs(d, i)
Ended(d, text, end) == printstr(d, text \o Ending(d, Len(text), end))
==============================================================================
