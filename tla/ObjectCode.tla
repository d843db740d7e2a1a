------------------------------ MODULE ObjectCode ------------------------------
(* The object code of Compiler, run: run_code, and what the library functions  *)
(* of the control statements do (library.c). A run goes from the first         *)
(* instruction of a statement to the first of the next one that is reached.    *)
EXTENDS Library, FiniteSets, Bitwise

CONSTANTS MaxSteps   \* bound: instructions between two statements

\* The processor, the stack (its top last), A, the place and the rest of READ, and what
\* the statement has printed or drawn.
\* run_code and pre_run: where is -1 when the program has ended, -2 when the stack or
\* the program counter is not what code made of it.
Reset == [pc |-> 1, r0 |-> 0, r1 |-> 0, r2 |-> 0, lr |-> 0, diff |-> 0,
          sp |-> <<>>, a |-> 0, rp |-> 1, rest |-> 0, out |-> <<>>]
Ended == -1
Lost  == -2

Push(m, kind, n) == [m EXCEPT !.sp = Append(@, <<kind, n>>)]
Pop(m)    == [m EXCEPT !.sp = SubSeq(@, 1, Len(@) - 1)]
Top(m)    == m.sp[Len(m.sp)]
Has(m, kind) == m.sp # <<>> /\ Top(m)[1] = kind

------------------------------------------------------------------------------
(* READ                                                                        *)

\* seek_data: the next DATA from the read point on. Code is scanned by halfwords, but
\* what a forward B goes over is not looked at; 0 if there is none. The words of a class
\* structure are taken for no instruction: what their halfwords may look like depends on
\* fields and methods, which are not modelled.
RECURSIVE seek_data(_, _)
seek_data(obj, at) ==
  IF at > Len(obj) THEN 0
  ELSE LET c == obj[at]
       IN  CASE c[1] = "b" -> seek_data(obj, at + c[2] + 2)
             [] c[1] = "bl" /\ c[2] >= at + 2 ->
                  IF at + 2 <= Len(obj) /\ obj[at + 2][1] = "data" THEN at
                  ELSE seek_data(obj, at + 2)
             [] OTHER -> seek_data(obj, at + 1)

lib_read(obj, m) ==
  LET bl == IF m.rest > 0 THEN 0 ELSE seek_data(obj, m.rp)
      s  == IF bl = 0 THEN m ELSE [m EXCEPT !.rp = bl + 3, !.rest = obj[bl][2] - bl - 3]
  IN  IF s.rest <= 0 THEN [m EXCEPT !.pc = Ended]
      ELSE [s EXCEPT !.r0 = obj[s.rp][2], !.rp = @ + 2, !.rest = @ - 2, !.pc = @ + 2]

lib_restore(m) == [m EXCEPT !.rp = m.r0, !.rest = 0, !.pc = @ + 2]

------------------------------------------------------------------------------
(* Values                                                                      *)

\* The carry of X - Y, and what shifting by 31 bits leaves of a number (ASRS gives -Sign).
Carry(x, y) == IF Unsigned(x) >= Unsigned(y) THEN 1 ELSE 0
Sign(x)     == IF x < 0 THEN 1 ELSE 0
Add3(x, y, c) == Wrap(x + y + c)                      \* ADCS
Sub3(x, y, c) == Wrap(x - y - (1 - c))                \* SBCS
Shifted(n, by, far) == IF Unsigned(by) < Bits THEN n ELSE far

\* The instructions of integer_calculation, SGN, ABS and NOT on X (R1) and Y (R0).
Calc(k, x, y) ==
  LET d == Wrap(x - y)
      n == Wrap(-y)
  IN  CASE k = "+" -> Wrap(x + y) [] k = "-" -> d [] k = "*" -> Wrap(x * y)
        [] k = "="  -> Add3(d, Wrap(-d), Carry(0, d))
        [] k = "!=" -> Sub3(d, Wrap(d - 1), Carry(d, 1))
        [] k = "<"  -> Wrap(1 - Add3(-Sign(x), Sign(y), Carry(x, y)))
        [] k = "<=" -> Add3(Sign(x), -Sign(y), Carry(y, x))
        [] k = ">"  -> Wrap(1 - Add3(Sign(x), -Sign(y), Carry(y, x)))
        [] k = ">=" -> Add3(-Sign(x), Sign(y), Carry(x, y))
        [] k = "AND" -> Wrap(Unsigned(x) & Unsigned(y))
        [] k = "OR"  -> Wrap(Unsigned(x) | Unsigned(y))
        [] k = "XOR" -> Wrap(Unsigned(x) ^^ Unsigned(y))
        [] k = "<<" -> Shifted(Wrap(x * 2^Unsigned(y)), y, 0)
        [] k = ">>" -> Shifted(Wrap(Unsigned(x) \div 2^Unsigned(y)), y, 0)
        [] k = "SGN(" -> Wrap(Sign(Wrap(-Sign(y) - y)) - Sign(y))
        [] k = "ABS(" -> LET e == Wrap(y - Sign(y)) IN IF y < 0 THEN -1 - e ELSE e
        [] k = "NOT(" -> Add3(y, n, Carry(0, y))

\* lib_calc: integer division of C, by zero undefined.
Abs(n) == IF n < 0 THEN -n ELSE n
DivC(x, y) == IF (x < 0) = (y < 0) THEN Abs(x) \div Abs(y) ELSE -(Abs(x) \div Abs(y))
lib_calc(x, y, k) == Wrap(IF k = "/" THEN DivC(x, y) ELSE x - (y * DivC(x, y)))

\* The frame of a value: its item n is counted from the top of the stack.
FrameAt(m, n) == Len(m.sp) - n
Dropped(sp, n) == SubSeq(sp, 1, Len(sp) - n)

\* What a library function takes from the registers and from the frame at R1, and gives.
InRegisters == {"STRNCMP(", "FOPEN(", "FOPEN", "PWM"}
Frame(m, n) == [i \in 1 .. n |-> m.sp[FrameAt(m, i - 1)][2]]
Taken(k, m, n) ==
  CASE k \in DOMAIN Lists -> Frame(m, m.r0)
    [] n = 0 -> <<>>
    [] n = 1 -> <<m.r0>>
    [] n = 2 -> <<m.r1, m.r0>>
    [] n = 3 /\ k \in InRegisters -> <<m.r2, m.r1, m.r0>>
    [] OTHER -> Append(Frame(m, n - 1), m.r0)
Gives(m, k, type, n) ==
  CASE type = "void" -> [m EXCEPT !.out = <<<<k, Taken(k, m, n)>>>>]
    [] type = "int" -> [m EXCEPT !.r0 = Wrap(Made(k, Taken(k, m, n)))]
    [] OTHER -> [m EXCEPT !.r0 = Made(k, Taken(k, m, n))]
TypeOf(k) == CHOOSE type \in DOMAIN Routines : k \in DOMAIN Routines[type]
library_call(k, m) == Gives(m, k, TypeOf(k), Len(Routines[TypeOf(k)][k].kinds))

------------------------------------------------------------------------------
(* Instructions                                                                *)

Skip(m, cond) == [m EXCEPT !.pc = @ + (IF cond THEN 3 ELSE 1)]

\* One instruction; v is what INKEY gives.
Instruction(obj, m, v) ==
  LET c == obj[m.pc]
      n == c[2]
      next == [m EXCEPT !.pc = @ + c[3]]
  IN  CASE c[1] = "ldi" -> [next EXCEPT !.r0 = n]
        [] c[1] = "lda" -> [next EXCEPT !.r0 = m.a]
        [] c[1] = "sta" -> [next EXCEPT !.a = m.r0]
        [] c[1] = "inkey" -> [next EXCEPT !.r0 = v]
        [] c[1] = "ldb" -> [next EXCEPT !.r0 = ArrayB]
        [] c[1] = "ld1" -> [next EXCEPT !.r1 = n]
        [] c[1] = "ld2" -> [next EXCEPT !.r2 = n]
        [] c[1] = "neg" -> [next EXCEPT !.r0 = Wrap(-m.r0)]
        [] c[1] = "calc" -> [next EXCEPT !.r0 = Calc(n, m.r1, m.r0)]
        [] c[1] = "lib int" -> [next EXCEPT !.r0 = lib_calc(m.r1, m.r0, m.r2)]
        [] c[1] = "lib float" -> [next EXCEPT !.r0 = Made("float" \o m.r2, <<m.r1, m.r0>>)]
        [] c[1] = "lib str" -> [next EXCEPT !.r0 = Made("str" \o m.r2, <<m.r1, m.r0>>)]
        [] c[1] = "lib" -> library_call(n, next)
        [] c[1] = "ldx" -> [next EXCEPT !.r0 = Wrap(Made("B(", <<m.r1, m.r0>>))]
        [] c[1] = "adr" -> [next EXCEPT !.r0 = n]
        [] c[1] = "sub sp" -> [next EXCEPT !.sp = @ \o [i \in 1 .. n |-> <<"int", 0>>]]
        [] c[1] = "str sp" -> [next EXCEPT !.sp[FrameAt(m, n)] = <<"int", m.r0>>]
        [] c[1] = "ldr sp" -> [next EXCEPT !.r1 = m.sp[FrameAt(m, n)][2]]
        [] c[1] = "add sp" -> [next EXCEPT !.sp = Dropped(@, n)]
        [] c[1] = "print" -> [next EXCEPT !.out = Append(@, <<m.r1, m.r0>>)]
        [] c[1] = "push0" -> Push(next, "int", m.r0)
        [] c[1] = "push2" -> Push(next, "int", m.r2)
        [] c[1] = "pop1" -> [Pop(next) EXCEPT !.r1 = Top(m)[2]]
        [] c[1] = "pop2" -> [Pop(next) EXCEPT !.r2 = Top(m)[2]]
        [] c[1] = "mov20" -> [next EXCEPT !.r2 = m.r0]
        [] c[1] = "add02" -> [next EXCEPT !.r0 = Wrap(m.r0 + m.r2)]
        [] c[1] = "inc0" -> [next EXCEPT !.r0 = Wrap(m.r0 + 1)]
        [] c[1] = "swap" -> IF m.r2 >= 0 THEN next
                            ELSE [next EXCEPT !.r0 = m.r1, !.r1 = m.r0, !.r2 = m.r0]
        [] c[1] = "cmp" -> [next EXCEPT !.diff = m.r0]
        [] c[1] = "cmp10" -> [next EXCEPT !.diff = m.r1 - m.r0]
        [] c[1] = "bne" -> Skip(m, m.diff # 0)
        [] c[1] = "beq" -> Skip(m, m.diff = 0)
        [] c[1] = "bge" -> Skip(m, m.diff >= 0)
        [] c[1] = "bl" -> [m EXCEPT !.lr = m.pc + 2, !.pc = n]
        [] c[1] = "b" -> [m EXCEPT !.pc = @ + n + 2]
        [] c[1] = "push lr" -> Push(next, "lr", m.lr)
        [] c[1] = "pop pc" -> IF Has(m, "lr") THEN [Pop(m) EXCEPT !.pc = Top(m)[2]]
                              ELSE [m EXCEPT !.pc = Lost]
        [] c[1] = "frame" -> Push(next, "args", 0)
        [] c[1] = "unframe" -> IF Has(m, "args") THEN Pop(next) ELSE [m EXCEPT !.pc = Lost]
        [] c[1] = "var push" -> [Push(next, "var", m.a) EXCEPT !.a = 0]
        [] c[1] = "var pop" -> IF Has(m, "var") THEN [Pop(next) EXCEPT !.a = Top(m)[2]]
                               ELSE [m EXCEPT !.pc = Lost]
        [] c[1] = "ldl" -> [next EXCEPT !.r0 = obj[n][2]]
        [] c[1] = "read" -> lib_read(obj, m)
        [] c[1] = "restore" -> lib_restore(m)
        [] c[1] = "end" -> [m EXCEPT !.pc = Ended]
        [] c[1] \in {"mul4", "ldr", "post", "mov1pc", "mov1sp", "nop"} -> next
        [] OTHER -> [m EXCEPT !.pc = Lost]

\* Instructions until the next statement, at the latest after n of them.
RECURSIVE Until(_, _, _, _, _)
Until(obj, stops, m, v, n) ==
  IF n = 0 THEN [m EXCEPT !.pc = Lost]
  ELSE LET next == IF m.pc \in DOMAIN obj THEN Instruction(obj, m, v)
                   ELSE [m EXCEPT !.pc = Lost]
       IN  IF next.pc \in stops \cup {Ended, Lost} THEN next
           ELSE Until(obj, stops, next, v, n - 1)

\* Nothing that a statement leaves in registers is used by the next one.
Quiet(m) == [m EXCEPT !.r0 = 0, !.r1 = 0, !.r2 = 0, !.lr = 0, !.diff = 0]
RunOn(obj, stops, m, v) == Quiet(Until(obj, stops, [m EXCEPT !.out = <<>>], v, MaxSteps))
==============================================================================
