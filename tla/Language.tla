------------------------------- MODULE Language -------------------------------
(* A BASIC program is written, compiled statement by statement and run. The    *)
(* text is chosen while it is compiled, so that a text ends at its first error.*)
EXTENDS Compiler

CONSTANTS Vocabularies, \* sequences: for each place of a text, the statements of which one
                        \* is there; a text may end before its sequence does
          Arguments,    \* for the statements with values, what is behind them; for those
                        \* of the library, <<name, what is behind it>>
          MaxDepth,     \* bound: subroutines that have not returned, VARs of one
          MaxSteps,     \* bound: instructions between two statements
          Ints,         \* the values of A
          Loose         \* TRUE: a text may break the rules of MayFollow

VARIABLES prog,     \* the text
          pos,      \* the statement that is compiled next
          c,        \* the compiler's state
          inline,   \* how many IFs of the present line are single-line ones
          starts,   \* where the code of each statement starts
          status,   \* "compiling", "refused", "ready" or "running"
          m         \* the machine

vars == <<prog, pos, c, inline, starts, status, m>>

Machine == INSTANCE ObjectCode

\* The language that the text is of; none of it has been executed.
Text == INSTANCE Program WITH at <- 0, a <- 0, calls <- <<>>, data <- 0, out <- <<>>, MaxCalls <- 0

------------------------------------------------------------------------------
(* Compiling                                                                   *)

LastIs(op) == prog # <<>> /\ prog[Len(prog)].op = op

\* What the language asks of a text and the compiler does not: that a line ends behind
\* the THEN of a block, ELSEIF has a block, and a single-line IF holds no part of one;
\* that a line has one number, that a class is named first of all, that a separator is
\* between the values of PRINT, and behind no last argument.
OpensValue(k) == Text!OpensOne(k) \/ \E type \in DOMAIN Literals : k \in Literals[type] \cup {"A"}
Between(x, Left, Right) == \E i \in 1 .. Len(x) - 1 : x[i][1] \in Left /\ x[i + 1][1] \in Right
Apart(x) ==
  LET What == {x[i][1] : i \in DOMAIN x}
  IN  ~Between(x, {k \in What : Text!EndsValue(k)}, {k \in What : OpensValue(k)})
Complete(p, call) ==
  /\ p # <<>> /\ p[Len(p)] = <<>> /\ ~IsList(call) => Len(p) <= Len(call.kinds)
  /\ Text!LeavesPoint(call) /\ 1 \in Text!Filled(p) => 2 \in Text!Filled(p)
HasValues(t) == t.op \in {"LET", "PRINT", "LIB"}
MayFollow(t) ==
  /\ HasValues(t) => ~Between(t.x, {","}, {")"})
  /\ t.op = "PRINT" => Apart(t.x)
  /\ t.op = "LIB" => Complete(Text!Places(t.x, Routines.void[t.k]), Routines.void[t.k])
  /\ LastIs("ELSEIF") => t.op = "IF"
  /\ t.op \in {"IF", "ELSEIF", "ENDIF"} /\ ~LastIs("ELSEIF") => inline = 0
  /\ LastIs("IF THEN") => t.op # "LINE"
  /\ t.op = "LINE" /\ t.n # 0 => t \notin {prog[i] : i \in DOMAIN prog}
  /\ t.op = "USECLASS" => prog = <<>>
  /\ t.op = "ENDIF" => c.ifdepth > 0

Plain(t) == IF HasValues(t) THEN [op |-> t.op] ELSE t
Full(t)  == CASE t.op = "LIB" -> {[op |-> "LIB", k |-> l[1], x |-> l[2]] : l \in Arguments["LIB"]}
              [] t.op \in {"LET", "PRINT"} -> {[op |-> t.op, x |-> x] : x \in Arguments[t.op]}
              [] OTHER -> {t}
NextWords ==
  LET fits  == {v \in Vocabularies :
                  Len(prog) < Len(v) /\ \A i \in DOMAIN prog : Plain(prog[i]) \in v[i]}
      plain == UNION {v[Len(prog) + 1] : v \in fits}
  IN  {t \in UNION {Full(s) : s \in plain} : Loose \/ MayFollow(t)}

\* A statement; the IF of a block ends its line.
GoOn(t, line, done) ==
  /\ c' = IF t.op = "IF" /\ done.e = "" THEN NewLine(done, 0) ELSE done
  /\ starts' = Append(starts, object(line))
  /\ inline' = IF t.op = "LINE" THEN 0 ELSE IF t.op = "IF THEN" THEN inline + 1 ELSE inline
  /\ pos' = pos + 1

\* USECLASS of a class that is not compiled yet: the text is read again from its start.
IsNewClass(t) == t.op = "USECLASS" /\ cmpdata_find(c.cmp, "CLASSNAME") = {}
ReadAgain(done) ==
  /\ c' = IF done.e # "" THEN done ELSE NewLine(done, 0)
  /\ pos' = 1 /\ starts' = <<>> /\ inline' = 0

Compile ==
  /\ status = "compiling"
  /\ \E t \in IF pos <= Len(prog) THEN {prog[pos]} ELSE NextWords :
       /\ prog' = IF pos <= Len(prog) THEN prog ELSE Append(prog, t)
       /\ \E line \in {IF t.op = "LINE" THEN NewLine(EndLine(c, inline), t.n) ELSE c} :
          \E done \in {IF t.op = "LINE" THEN line ELSE compile_statement(line, t)} :
            \/ ~IsNewClass(t) /\ GoOn(t, line, done)
            \/ IsNewClass(t) /\ ReadAgain(done)
  /\ status' = IF c'.e = "" THEN "compiling" ELSE "refused"
  /\ UNCHANGED m

\* The end of the text: END, end_file_compiler and post_compile.
EndOfText ==
  /\ status = "compiling" /\ pos > Len(prog) /\ prog # <<>>
  /\ ~LastIs("IF THEN") /\ ~LastIs("ELSEIF")
  /\ \E line \in {NewLine(EndLine(c, inline), 0)} :
     \E done \in {end_file_compiler(end_statement(line))} :
         /\ c' = IF done.e = "" THEN post_compile(done) ELSE done
         /\ starts' = Append(starts, object(line))
  /\ status' = IF c'.e = "" THEN "ready" ELSE "refused"
  /\ UNCHANGED <<prog, pos, inline, m>>

------------------------------------------------------------------------------
(* Running                                                                     *)

Stops == {starts[i] : i \in DOMAIN starts}

\* run_code, up to the first statement.
Run ==
  /\ status = "ready"
  /\ status' = "running"
  /\ m' = IF 1 \in Stops THEN Machine!Reset ELSE Machine!RunOn(c.obj, Stops, Machine!Reset, 0)
  /\ UNCHANGED <<prog, pos, c, inline, starts>>

Items(sp, kind) == Cardinality({i \in DOMAIN sp : sp[i][1] = kind})

Step ==
  /\ status = "running" /\ m.pc > 0
  /\ \E v \in Ints : m' = Machine!RunOn(c.obj, Stops, m, v)
  /\ Items(m'.sp, "args") <= MaxDepth /\ Items(m'.sp, "var") <= MaxDepth
  /\ UNCHANGED <<prog, pos, c, inline, starts, status>>

Init ==
  /\ prog = <<>> /\ pos = 1 /\ inline = 0 /\ starts = <<>> /\ status = "compiling"
  /\ c = NewLine(begin_file_compiler(Fresh), 0)
  /\ m = Machine!Reset
Next == Compile \/ EndOfText \/ Run \/ Step
Spec == Init /\ [][Next]_vars

------------------------------------------------------------------------------
(* What the machine is doing, in the terms of Program                          *)

\* The statement whose code is at an address or next behind it.
StatementAt(pc) == Text!Reach(Min({i \in DOMAIN starts : starts[i] >= pc}))

\* The subroutines on the stack: arguments, then the way back; a saved A, then the way
\* to the code that restores it.
Calls(sp) ==
  FoldLeftDomain(LAMBDA calls, i :
    LET top == Len(calls)
    IN  CASE sp[i][1] = "args" -> Append(calls, [back |-> 0, saved |-> <<>>])
          [] sp[i][1] = "var" -> [calls EXCEPT ![top].saved = Append(@, sp[i][2])]
          [] sp[i][1] = "lr" /\ sp[i - 1][1] = "args" ->
               [calls EXCEPT ![top].back = StatementAt(sp[i][2])]
          [] OTHER -> calls,
    <<[back |-> 0, saved |-> <<>>]>>, sp)

Seen ==
  IF status # "running" THEN [at |-> 0, a |-> 0, calls |-> Calls(<<>>), data |-> 0, out |-> <<>>]
  ELSE [at |-> CASE m.pc = Machine!Ended -> Text!TextEnd
                 [] m.pc = Machine!Lost -> Text!Lost
                 [] OTHER -> StatementAt(m.pc),
        a |-> m.a, calls |-> Calls(m.sp), out |-> m.out, data |-> Text!NextData(
            Min({i \in DOMAIN starts : starts[i] >= m.rp} \cup {Len(starts)}))]
==============================================================================
