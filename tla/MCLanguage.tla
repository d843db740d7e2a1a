------------------------------ MODULE MCLanguage ------------------------------
(* Language with texts of a few statements, from several small vocabularies.   *)
EXTENDS Language

S(op)      == [op |-> op]
Label(n)   == [op |-> "LABEL", n |-> n]
Line(n)    == [op |-> "LINE", n |-> n]
To(op, to) == [op |-> op, to |-> to]
For(end, by) == [op |-> "FOR", end |-> end, by |-> by]
IfGoto(to, alt) == [op |-> "IF GOTO", to |-> to, alt |-> alt]
Data(n)     == [op |-> "DATA", n |-> n]

MCInts == {0, 1}

\* A number over 200 for a library function, an operator, or a literal.
Names == UNION {DOMAIN Routines[type] : type \in {"int", "float", "str"}}
           \cup {"B(", "str", "float"} \cup {t \o k : t \in {"float", "str"}, k \in {"+", "-", "*", "/"}}
           \cup {t \o k : t \in {"float", "str"}, k \in {"<", "<=", ">", ">=", "=", "!=", "AND", "OR"}}
Number == FoldSet(LAMBDA k, f : f @@ (k :> Cardinality(DOMAIN f)), <<>>, Names)
MCMade(k, args) ==
  200 + FoldLeft(LAMBDA n, v : ((31 * n) + v + 7) % 9973, Number[k], args)

L1 == Label(101)
L2 == Label(102)
R1 == Line(10)
R2 == Line(20)

Loops ==
  {S("INPUT"), S("DO"), S("DO WHILE"), For(2, 1), For(0, -1), S("LOOP"), S("LOOP UNTIL"),
   S("BREAK"), S("CONTINUE")}
Blocks ==
  {S("INPUT"), S("IF"), S("ELSEIF"), S("ELSE"), S("ENDIF"), S("IF THEN"), S("BREAK"),
   S("WHILE"), S("WEND"), Line(0)}
Jumps ==
  {S("INPUT"), L1, To("GOTO", L1), To("GOSUB", L1), S("RETURN"), S("VAR"), R1, To("GOTO", R1),
   To("GOSUB", R1), IfGoto(L1, R1), IfGoto(L1, L1), S("USECLASS")}
Datas ==
  {Data(1), Data(2), S("READ"), L1, To("RESTORE", L1), R1, To("RESTORE", R1),
   To("GOTO", L1), S("END"), S("USECLASS")}
Mixed ==
  {S("INPUT"), S("DO UNTIL"), S("LOOP WHILE"), For(3, 2), S("NEXT"), S("IF THEN"), S("ELSE"),
   To("GOSUB", L1), L1, S("RETURN")}

------------------------------------------------------------------------------
(* Values: tokens at each place of a text.                                     *)

T(k)     == <<k, 0>>
Num(n)   == <<"num", n>>
Symbols(K) == {T(k) : k \in K}
Sequences(K, n) == UNION {[1 .. i -> K] : i \in 0 .. n}
After(first, X) == {<<first>> \o x : x \in X}

Op2 == {"OR", "AND", "XOR", "=", "!=", "<", "<=", ">", ">=", "<<", ">>", "+", "-", "*", "/", "%"}
Pairs   == {<<Num(x), T(k), Num(y)>> : x \in 0 .. 7, k \in Op2, y \in 1 .. 7}
             \cup {<<Num(x), T(k), Num(0)>> : x \in 0 .. 7, k \in Op2 \ {"/", "%"}}
Triples == {<<T("A"), T(k), Num(x), T(j), Num(y)>> : k \in Op2, j \in Op2, x \in {2, 5}, y \in {1, 3}}
Signs   == {<<Num(x), T("-"), T(f), T("-"), Num(y), T(")"), T("*"), T("("), Num(x), T("-"), Num(y), T(")")>> :
              x \in {2, 3}, f \in {"(", "ABS(", "SGN(", "NOT(", "B("}, y \in 0 .. 7}
Short   == Sequences({T("A"), Num(2)} \cup Symbols({"(", ")", "-", "*", "<", "B("}), 4)
Typed   == Sequences({T("A"), <<"real", 1>>, <<"text", 1>>, Num(3)}
                       \cup Symbols({"INT(", "LEN(", "FLOAT#(", "DEC$(", ")", "+", "-", ";"}), 3)
Made1   == {<<T(f), v, T(k), w, T(")"), T(j), u>> :
              f \in {"INT(", "LEN(", "FLOAT#(", "DEC$("}, k \in {"+", "-"}, j \in {"+", "<", "AND", ","},
              v \in {Num(3), <<"real", 1>>, <<"text", 1>>}, w \in {Num(2), <<"text", 2>>}, u \in {Num(2), <<"text", 2>>}}
Calls3  == After(T("STRNCMP("), {x \in Sequences({<<"text", 1>>, Num(2)} \cup Symbols({",", ")"}), 6) : Len(x) = 6 \/ Len(x) < 4})
Calls2  == After(T("HEX$("), Sequences({Num(3)} \cup Symbols({",", ")"}), 4))
             \cup After(T("POW#("), Sequences({<<"real", 1>>} \cup Symbols({",", ")"}), 4))

\* Routines of the library: arguments that are given, left out, or of a wrong kind.
Given1(kind, i) == CASE Kind(kind) = "float" -> <<<<"real", i>>>>
                     [] Kind(kind) \in {"str", "str or int"} -> <<<<"text", i>>>>
                     [] OTHER -> <<Num(i)>>
Wrong1(kind)    == IF Kind(kind) = "str" THEN <<Num(1)>> ELSE <<<<"text", 1>>>>
Longer(kind, i) == CASE Kind(kind) = "int" -> <<Num(i), T("-"), T("A"), T("*"), Num(2)>>
                     [] Kind(kind) = "float" -> <<<<"real", i>>, T("-"), Num(i)>>
                     [] OTHER -> <<<<"text", i>>, T("+"), <<"text", 2>>>>
Joined(v) == FoldLeftDomain(LAMBDA x, i : x \o (IF i = 1 THEN <<>> ELSE <<T(",")>>) \o v[i], <<>>, v)

KindOf(call, i) == IF i \in DOMAIN call.kinds THEN call.kinds[i] ELSE "int"
Width(call)     == IF IsList(call) THEN call.least + 1 ELSE Len(call.kinds)
\* Not those where the code takes a default that some other call has left.
HasDefaults(call, n, given) ==
  IF IsList(call) THEN n > 0 ELSE \A i \in DOMAIN call.kinds \ given :
                                    MayLeaveOut(call.kinds[i]) => i \in DOMAIN call.default
Chosen(call) ==
  UNION {{[i \in 1 .. n |-> IF i \in given THEN Given1(KindOf(call, i), i) ELSE <<>>] :
             given \in {g \in SUBSET (1 .. n) : HasDefaults(call, n, g)}} : n \in 0 .. Width(call) + 1}
Wholes(call) ==
  LET n == Width(call)
  IN  IF n = 0 THEN {}
      ELSE {[i \in 1 .. n |-> Longer(KindOf(call, i), i)]}
             \cup {[i \in 1 .. n |-> IF i = w THEN Wrong1(KindOf(call, i)) ELSE Given1(KindOf(call, i), i)] :
                      w \in 1 .. n}
Lines(call) == {Joined(v) : v \in Chosen(call) \cup Wholes(call)}

Statements == UNION {{k} \X Lines(Routines.void[k]) : k \in DOMAIN Routines.void}
Functions(type) ==
  UNION {{<<T(k)>> \o x \o <<T(")")>> : x \in Lines(Routines[type][k])} : k \in DOMAIN Routines[type]}
\* In the midst of other values: what waits on the stack, and a frame above it.
Amidst ==
  {<<Num(2), T("-"), T(k)>> \o Joined(v) \o <<T(")"), T("*"), T("A")>> :
      <<k, v>> \in UNION {{k} \X Wholes(Routines.int[k]) : k \in DOMAIN Routines.int}}
Within == {<<k, Joined(<<<<Num(1)>>, <<T(f), Num(4), T(","), Num(5), T(")")>>, <<Num(3)>>, <<Num(4), T("-"), T("A")>>>>)>> :
             k \in {"LINE", "SPI", "SPIWRITE"}, f \in {"FGET(", "I2CREAD(", "TCPRECEIVE("}}

Many(K, n) == [i \in 1 .. n |-> K]

MCVocabularies ==
  {Many(Loops, 5), Many(Blocks, 6), Many(Jumps, 5), Many(Datas, 5), Many(Mixed, 5),
   <<{S("INPUT")}, {S("LET")}>>, <<{S("PRINT"), S("LIB")}>>}
MCArguments ==
  [LET |-> Pairs \cup Triples \cup Signs \cup Short,
   PRINT |-> Typed \cup Made1 \cup Calls3 \cup Calls2 \cup Amidst \cup UNION {Functions(type) : type \in {"int", "float", "str"}},
   LIB |-> Statements \cup Within]

MCClassCode == <<L1, S("RETURN")>>

VARIABLE shown
MCInit == Init /\ shown = Seen
MCNext == Next /\ shown' = Seen'
MCSpec == MCInit /\ [][MCNext]_<<vars, shown>>

Meaning == INSTANCE Program WITH at <- shown.at, a <- shown.a, calls <- shown.calls,
                                data <- shown.data, out <- shown.out, MaxCalls <- MaxDepth + 1

\* The code that value.c, functions.c and statements.c made of a text does, statement by
\* statement, what the text means: each value comes out as its operators bind, whatever
\* waited on the stack, each branch that waited in a record (GOTO, GOSUB, BREAK, IF, ELSE)
\* was sent to where its destination came to be, and only a text that is a program is run.
IsProgram == Meaning!Spec

\* A text that a statement or end_file_compiler refuses has something wrong in it: when a
\* statement does, what was read so far can be no beginning of a program. (ENDIF, ELSE and
\* the loops' ends find their IF or DO among the records; a label is in one file only; a
\* value that was tried as a text can still be an integer.)
Refuses ==
  status = "refused" /\ c.e # "too large" =>
    ~(Text!Legal /\ (Len(starts) > Len(prog) => Text!Finished))

\* Object code that grows up never reaches the records that grow down (check_object before
\* code is written, cmpdata_insert behind a record), while code is still compiled.
CodeFits == c.e = "" => Len(c.obj) <= objmax(c.cmp)
==============================================================================
