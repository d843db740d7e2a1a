------------------------------- MODULE Program -------------------------------
(* What a BASIC program means: a text of statements, and the statement that is *)
(* executed next. Loops and IFs are found by matching the text, a subroutine  *)
(* returns behind its GOSUB, VAR's variables come back with RETURN, and READ  *)
(* takes the DATA of the text in order. Nothing of the compiled code is here. *)
(*                                                                            *)
(* Values are integers, real numbers and texts made of tokens <<what, number>>. *)
(* Operators are taken apart from the weakest to the strongest, of equal ones *)
(* the last first.                                                            *)
EXTENDS Library, FiniteSetsExt

Weakest(k) == CASE k = "OR" -> 1 [] k = "AND" -> 2 [] k = "XOR" -> 3 [] k \in {"=", "!="} -> 4
                [] k \in {"<", "<=", ">", ">="} -> 5 [] k \in {"<<", ">>"} -> 6
                [] k \in {"+", "-"} -> 7 [] OTHER -> 8
Common == {"=", "!=", "<", "<=", ">", ">=", "+", "OR", "AND"}
Infix  == [int   |-> Common \cup {"-", "*", "/", "%", "<<", ">>", "XOR"},
           float |-> Common \cup {"-", "*", "/"},
           str   |-> Common]

Own   == [k \in {"ABS(", "SGN(", "NOT(", "B("} |-> [kinds |-> <<"int">>, default |-> <<>>]]
Takes == [Routines EXCEPT !.int = @ @@ Own]
Literal == [int |-> {"num", "A"}, float |-> {"num", "real"}, str |-> {"text"}]

What(x, i) == x[i][1]
Cut(x, i, j) == SubSeq(x, i, j)

\* How many parentheses are open before a token, and where that of a first token closes.
Openers == UNION {DOMAIN Takes[type] : type \in DOMAIN Literal} \cup {"("}
OpensOne(k) == k \in Openers
RECURSIVE Depth(_, _)
Depth(x, i) ==
  IF i = 1 THEN 0
  ELSE Depth(x, i - 1) + (IF OpensOne(What(x, i - 1)) THEN 1 ELSE IF What(x, i - 1) = ")" THEN -1 ELSE 0)
ClosesAtEnd(x) == /\ Len(x) > 1 /\ What(x, Len(x)) = ")"
                  /\ \A j \in 2 .. Len(x) : Depth(x, j) \in IF j = Len(x) THEN {1} ELSE 1 .. Len(x)
Inside(x) == Cut(x, 2, Len(x) - 1)

\* The operators between two values, and the last of the weakest of them.
EndsValue(k) == k = ")" \/ \E type \in DOMAIN Literal : k \in Literal[type]
Joints(x, type) ==
  {i \in 2 .. Len(x) - 1 : /\ What(x, i) \in Infix[type] /\ EndsValue(What(x, i - 1))
                           /\ Depth(x, i) = 0}
LastJoint(x, J) ==
  CHOOSE i \in J : \A j \in J : Weakest(What(x, i)) < Weakest(What(x, j))
                                  \/ (Weakest(What(x, i)) = Weakest(What(x, j)) /\ i >= j)

\* The separators in order, what is between them, and the arguments of a function.
Separators(x, S) ==
  SelectSeq([i \in DOMAIN x |-> i], LAMBDA i : What(x, i) \in S /\ Depth(x, i) = 0)
Pieces(x, cuts) == [i \in 1 .. Len(cuts) - 1 |-> Cut(x, cuts[i] + 1, cuts[i + 1] - 1)]
Split(x, S) == Pieces(x, <<0>> \o Separators(x, S) \o <<Len(x) + 1>>)
Parts(x) == Split(x, {","})

\* What stands at the places of the arguments. Of a first point that is left out only
\* the comma behind it is there.
LeavesPoint(call) == 1 \in DOMAIN call.default /\ call.default[1] = NoX
WithPoint(p, call) == IF p # <<>> /\ p[1] = <<>> /\ LeavesPoint(call) THEN <<<<>>>> \o p ELSE p
Places(x, call) == WithPoint(IF x = <<>> THEN <<>> ELSE Parts(x), call)
Filled(p) == {i \in DOMAIN p : p[i] # <<>>}

RECURSIVE IsValue(_, _), IsValueOf(_, _, _, _), Fit(_, _)
TypeAs(x, kind) == IF kind = "str or int" THEN IF IsValue(x, "str") THEN "str" ELSE "int"
                   ELSE Kind(kind)
Fit(p, call) ==
  IF IsList(call)
  THEN /\ Filled(p) = DOMAIN p /\ Len(p) >= call.least
       /\ \A i \in DOMAIN p : IsValue(p[i], "int")
  ELSE /\ Len(p) <= Len(call.kinds)
       /\ \A i \in DOMAIN call.kinds : i \in Filled(p) \cup DOMAIN call.default
       /\ LeavesPoint(call) => (1 \in Filled(p) <=> 2 \in Filled(p))
       /\ \A i \in Filled(p) : IsValue(p[i], TypeAs(p[i], call.kinds[i]))
AreArguments(x, call) == Fit(Places(x, call), call)
IsValueOf(x, type, joints, functions) ==
  \/ \E i \in joints :
       /\ i = LastJoint(x, joints)
       /\ IsValue(Cut(x, 1, i - 1), type) /\ IsValue(Cut(x, i + 1, Len(x)), type)
  \/ /\ joints = {} /\ x # <<>>
     /\ LET k == What(x, 1) IN
        \/ Len(x) = 1 /\ k \in Literal[type]
        \/ k = "-" /\ type # "str" /\ IsValue(Tail(x), type)
        \/ k = "+" /\ type # "str" /\ Len(x) > 1 /\ What(x, 2) \notin {"+", "-", "("} /\ IsValue(Tail(x), type)
        \/ /\ ClosesAtEnd(x)
           /\ \/ k = "(" /\ IsValue(Inside(x), type)
              \/ k \in DOMAIN functions /\ AreArguments(Inside(x), functions[k])
IsValue(x, type) == IsValueOf(x, type, Joints(x, type), Takes[type])

------------------------------------------------------------------------------
Truth(b)  == IF b THEN 1 ELSE 0
Ones(x) == {i \in 0 .. Bits - 1 : Bit(x, i) = 1}
RECURSIVE NumberOf(_)
NumberOf(ones) == IF ones = {} THEN 0 ELSE 2^Max(ones) + NumberOf(ones \ {Max(ones)})
Quotient(x, y) ==
  LET q == (IF x < 0 THEN -x ELSE x) \div (IF y < 0 THEN -y ELSE y)
  IN  IF (x < 0) = (y < 0) THEN q ELSE -q

Integer(k, x, y) ==
  CASE k = "+" -> Wrap(x + y) [] k = "-" -> Wrap(x - y) [] k = "*" -> Wrap(x * y)
    [] k = "/" -> Wrap(Quotient(x, y)) [] k = "%" -> x - (y * Quotient(x, y))
    [] k = "=" -> Truth(x = y) [] k = "!=" -> Truth(x # y)
    [] k = "<" -> Truth(x < y) [] k = "<=" -> Truth(x <= y)
    [] k = ">" -> Truth(x > y) [] k = ">=" -> Truth(x >= y)
    [] k = "AND" -> Wrap(NumberOf(Ones(x) \cap Ones(y)))
    [] k = "OR"  -> Wrap(NumberOf(Ones(x) \cup Ones(y)))
    [] k = "XOR" -> Wrap(NumberOf((Ones(x) \cup Ones(y)) \ (Ones(x) \cap Ones(y))))
    [] k = "<<" -> IF y \in 0 .. Bits - 1 THEN Wrap(x * 2^y) ELSE 0
    [] k = ">>" -> IF y \in 0 .. Bits - 1 THEN Wrap(Unsigned(x) \div 2^y) ELSE 0

Applied(k, type, args) ==
  CASE k = "ABS(" -> Wrap(IF args[1] < 0 THEN -args[1] ELSE args[1])
    [] k = "SGN(" -> IF args[1] > 0 THEN 1 ELSE IF args[1] < 0 THEN -1 ELSE 0
    [] k = "NOT(" -> Truth(args[1] = 0)
    [] k = "B("   -> Wrap(Made(k, <<ArrayB, args[1]>>))
    [] OTHER -> LET n == Made(k, args) IN IF type = "int" THEN Wrap(n) ELSE n

\* The value, where the variable A is a.
Joined(k, type, p, q) == IF type = "int" THEN Integer(k, p, q) ELSE Made(type \o k, <<p, q>>)
Negated(type, p) == IF type = "int" THEN Wrap(-p) ELSE Made("float-", <<0, p>>)

RECURSIVE Result(_, _, _), ResultOf(_, _, _, _), ValuesOf(_, _, _)
JoinedAt(i, x, type, a) ==
  Joined(What(x, i), type, Result(Cut(x, 1, i - 1), type, a), Result(Cut(x, i + 1, Len(x)), type, a))
ValuesOf(p, call, a) ==
  IF IsList(call) THEN [i \in DOMAIN p |-> Result(p[i], "int", a)]
  ELSE [i \in DOMAIN call.kinds |->
          IF i \in Filled(p) THEN Result(p[i], TypeAs(p[i], call.kinds[i]), a) ELSE call.default[i]]
ArgumentValues(x, call, a) == ValuesOf(Places(x, call), call, a)
ResultOf(x, type, joints, a) ==
  IF joints # {} THEN JoinedAt(LastJoint(x, joints), x, type, a)
  ELSE LET k == What(x, 1)
           n == x[1][2]
       IN  CASE k = "A" -> a
             [] k \in Literal[type] -> IF type = "int" THEN Wrap(n) ELSE Made(type, <<n>>)
             [] k = "+" -> Result(Tail(x), type, a)
             [] k = "-" -> Negated(type, Result(Tail(x), type, a))
             [] k = "(" -> Result(Inside(x), type, a)
             [] OTHER -> Applied(k, type, ArgumentValues(Inside(x), Takes[type][k], a))
Result(x, type, a) == ResultOf(x, type, Joints(x, type), a)

\* Which of the types a value that is printed has: an integer where it can be one.
TypeOf(x) == IF IsValue(x, "str") THEN "str" ELSE IF IsValue(x, "int") THEN "int" ELSE "float"

------------------------------------------------------------------------------
CONSTANTS Ints,      \* the values of the variable A
          MaxCalls   \* bound: subroutines that have not returned, and VARs of one

VARIABLES prog,   \* the statements of the text, in order
          at,     \* the statement that is executed next, 0 before the start
          a,      \* the variable A
          calls,  \* where each subroutine goes back to, and its saved values of A
          data,   \* the DATA that READ takes next, or the end of the text
          out     \* what the last statement printed or drew

vars == <<prog, at, a, calls, data, out>>

TextEnd == Len(prog) + 1    \* the end of the text is END
Lost == Len(prog) + 2    \* RETURN without GOSUB: nothing is promised

Op(k) == IF k \in 1 .. Len(prog) THEN prog[k].op ELSE "END"

\* Statements that do nothing when they are reached.
Idle == {"LINE", "LABEL", "DO", "ENDIF", "DATA", "USECLASS"}
Reach(k) == IF k > Len(prog) THEN k ELSE Min({j \in k .. TextEnd : Op(j) \notin Idle})

NextData(k) == Min({d \in k .. Len(prog) : Op(d) = "DATA"} \cup {TextEnd})
Place(target) == CHOOSE k \in 1 .. Len(prog) : prog[k] = target

------------------------------------------------------------------------------
(* Blocks                                                                      *)

LoopOpens  == {"DO", "DO WHILE", "DO UNTIL", "WHILE", "FOR"}
LoopCloses == {"LOOP", "LOOP WHILE", "LOOP UNTIL", "WEND", "NEXT"}

\* How many loops are open before a statement.
Loops(k) == Cardinality({j \in 1 .. k - 1 : Op(j) \in LoopOpens})
              - Cardinality({j \in 1 .. k - 1 : Op(j) \in LoopCloses})

\* The loop a statement is in, and the statement that closes a loop.
LoopOf(k)  == Max({j \in 1 .. k - 1 : Op(j) \in LoopOpens /\ Loops(j) = Loops(k) - 1})
LoopEnd(j) == Min({e \in j + 1 .. Len(prog) :
                                       Op(e) \in LoopCloses /\ Loops(e) = Loops(j) + 1})

\* IF behind ELSEIF goes on with the same block. A single-line IF (IF THEN) ends with
\* its line.
Starts(j)  == Op(j) \in {"IF", "IF THEN"} /\ Op(j - 1) # "ELSEIF"
EndLine(k) == Min({e \in k + 1 .. Len(prog) : Op(e) = "LINE"} \cup {TextEnd})

\* How many IFs are open before a statement.
Ifs(k) == Cardinality({j \in 1 .. k - 1 : Starts(j) /\ (Op(j) = "IF" \/ EndLine(j) >= k)})
            - Cardinality({j \in 1 .. k - 1 : Op(j) = "ENDIF"})
Inner(j) == Ifs(j) + (IF Starts(j) THEN 1 ELSE 0)

IfEnd(j) ==
  IF Op(j) = "IF THEN" THEN EndLine(j)
  ELSE Min({e \in j + 1 .. Len(prog) : Op(e) = "ENDIF" /\ Ifs(e) = Inner(j)})
IfOf(k)  == Max({j \in 1 .. k - 1 : Op(j) \in {"IF", "IF THEN"} /\ Inner(j) = Ifs(k)})

\* Where an IF goes on when its condition is 0.
Otherwise(j) ==
  LET alt == {e \in j + 1 .. IfEnd(j) - 1 : Op(e) \in {"ELSE", "ELSEIF"}
                                               /\ Ifs(e) = Inner(j)}
  IN  IF alt = {} THEN IfEnd(j) ELSE Min(alt) + 1

------------------------------------------------------------------------------
(* Output                                                                      *)

\* PRINT: values with "," or ";" between them, or behind the last.
WithoutLast(p) == IF Len(p) > 1 /\ p[Len(p)] = <<>> THEN Front(p) ELSE p
Items(x) == WithoutLast(Split(x, {",", ";"}))
ArePrinted(x) ==
  x # <<>> => \A p \in Range(Items(x)) : \E type \in DOMAIN Literal : IsValue(p, type)
PrintedAs(type, x, end, n) == <<<<type, end>>, Result(x, type, n)>>
EachPrinted(p, ends, n) ==
  [i \in DOMAIN p |->
     PrintedAs(TypeOf(p[i]), p[i], IF i \in DOMAIN ends THEN ends[i] ELSE "", n)]
Ends(x, cuts) == [i \in DOMAIN cuts |-> What(x, cuts[i])]
Printed(x, n) ==
  IF x = <<>> THEN <<<<<<"str", "">>, 0>>>>
  ELSE EachPrinted(Items(x), Ends(x, Separators(x, {",", ";"})), n)

\* A statement of the library, with its arguments.
IsCall(k, x)   == AreArguments(x, Routines.void[k])
Called(k, x, n) == <<<<k, ArgumentValues(x, Routines.void[k], n)>>>>

------------------------------------------------------------------------------
(* The text is a program                                                       *)

Once(S) == Cardinality(S) = 1

\* No statement is wrong whatever follows it.
Legal ==
  \A k \in 1 .. Len(prog) :
    /\ Op(k) \in {"CONTINUE"} \cup LoopCloses => Loops(k) > 0
    /\ Op(k) = "ENDIF" => Ifs(k) > 0
    /\ Op(k) \in {"ELSE", "ELSEIF"} =>
         /\ Ifs(k) > 0
         /\ \A j \in IfOf(k) .. k - 1 : ~(Op(j) \in {"ELSE", "ELSEIF"} /\ Ifs(j) = Ifs(k))
    /\ Op(k) = "LET" => IsValue(prog[k].x, "int")
    /\ Op(k) = "PRINT" => ArePrinted(prog[k].x)
    /\ Op(k) = "LIB" => IsCall(prog[k].k, prog[k].x)
    /\ Op(k) = "LABEL" => Once({j \in 1 .. Len(prog) : prog[j] = prog[k]})

\* Every block is closed, and every destination is there.
Finished ==
  /\ Loops(TextEnd) = 0
  /\ \A j \in 1 .. Len(prog) : Op(j) = "IF" => \E e \in j .. Len(prog) :
                                                Op(e) = "ENDIF" /\ Ifs(e) = Inner(j)
  /\ \A k \in 1 .. Len(prog) :
       /\ Op(k) = "BREAK" => Loops(k) > 0
       /\ Op(k) \in {"GOTO", "GOSUB", "RESTORE", "IF GOTO"} =>
            Once({j \in 1 .. Len(prog) : prog[j] = prog[k].to})
       /\ Op(k) = "IF GOTO" => Once({j \in 1 .. Len(prog) : prog[j] = prog[k].alt})
WellFormed == Legal /\ Finished

------------------------------------------------------------------------------
(* Steps                                                                       *)

Go(k)  == at' = Reach(k)
Keep   == UNCHANGED <<calls, data>>
Jump(k) == Go(k) /\ UNCHANGED a /\ Keep

\* FOR A=1 TO end STEP by.
Within(j, n) == IF prog[j].by < 0 THEN n >= prog[j].end ELSE n <= prog[j].end
ForWith(j, n) ==
  /\ a' = n
  /\ Go(IF Within(j, n) THEN j + 1 ELSE LoopEnd(j) + 1)
  /\ Keep

Again(j) == IF Op(j) = "FOR" THEN ForWith(j, Wrap(a + prog[j].by)) ELSE Jump(j)

Simple ==
  \/ Op(at) = "INPUT" /\ a' \in Ints /\ Go(at + 1) /\ Keep
  \/ Op(at) = "LET" /\ a' = Result(prog[at].x, "int", a) /\ Go(at + 1) /\ Keep
  \/ Op(at) \in {"PRINT", "LIB"} /\ Jump(at + 1)
  \/ Op(at) = "GOTO" /\ Jump(Place(prog[at].to))
  \/ Op(at) = "END" /\ at <= Len(prog) /\ Jump(TextEnd)

Branch ==
  \/ Op(at) \in {"IF", "IF THEN"} /\ Jump(IF a # 0 THEN at + 1 ELSE Otherwise(at))
  \/ Op(at) \in {"ELSE", "ELSEIF"} /\ Jump(IfEnd(IfOf(at)))
  \/ /\ Op(at) = "IF GOTO"
     /\ Jump(IF a # 0 THEN Place(prog[at].to)
             ELSE IF prog[at].alt = prog[at].to THEN at + 1 ELSE Place(prog[at].alt))

Loop ==
  \/ Op(at) \in {"WHILE", "DO WHILE"} /\ Jump(IF a # 0 THEN at + 1 ELSE LoopEnd(at) + 1)
  \/ Op(at) = "DO UNTIL" /\ Jump(IF a = 0 THEN at + 1 ELSE LoopEnd(at) + 1)
  \/ Op(at) = "FOR" /\ ForWith(at, 1)
  \/ Op(at) \in {"LOOP", "WEND", "NEXT", "CONTINUE"} /\ Again(LoopOf(at))
  \/ Op(at) = "LOOP WHILE" /\ IF a # 0 THEN Again(LoopOf(at)) ELSE Jump(at + 1)
  \/ Op(at) = "LOOP UNTIL" /\ IF a = 0 THEN Again(LoopOf(at)) ELSE Jump(at + 1)
  \/ Op(at) = "BREAK" /\ Jump(LoopEnd(LoopOf(at)) + 1)

Top == Len(calls)
Call ==
  \/ /\ Op(at) = "GOSUB"
     /\ Len(calls) < MaxCalls
     /\ calls' = Append(calls, [back |-> Reach(at + 1), saved |-> <<>>])
     /\ Go(Place(prog[at].to)) /\ UNCHANGED <<a, data>>
  \/ /\ Op(at) = "VAR"
     /\ Len(calls[Top].saved) < MaxCalls
     /\ calls' = [calls EXCEPT ![Top].saved = Append(@, a)]
     /\ a' = 0 /\ Go(at + 1) /\ UNCHANGED data
  \/ /\ Op(at) = "RETURN" /\ Top > 1
     /\ a' = IF calls[Top].saved = <<>> THEN a ELSE calls[Top].saved[1]
     /\ calls' = SubSeq(calls, 1, Top - 1)
     /\ at' = calls[Top].back /\ UNCHANGED data
  \/ Op(at) = "RETURN" /\ Top = 1 /\ at' = Lost

Read ==
  \/ Op(at) = "READ" /\ data = TextEnd /\ Jump(TextEnd)
  \/ /\ Op(at) = "READ" /\ data # TextEnd
     /\ a' = prog[data].n /\ data' = NextData(data + 1) /\ Go(at + 1) /\ UNCHANGED calls
  \/ /\ Op(at) = "RESTORE"
     /\ data' = NextData(Place(prog[at].to)) /\ Go(at + 1) /\ UNCHANGED <<a, calls>>

Write == at = 0 /\ at' = 0 /\ UNCHANGED <<a, calls, data, out>>
Start == at = 0 /\ WellFormed /\ Go(1) /\ data' = NextData(1) /\ UNCHANGED <<prog, a, calls, out>>

Output(k) ==
  CASE Op(k) = "PRINT" -> Printed(prog[k].x, a) [] Op(k) = "LIB" -> Called(prog[k].k, prog[k].x, a)
    [] OTHER -> <<>>

Execute == /\ at \in 1 .. Len(prog) /\ UNCHANGED prog /\ out' = Output(at)
           /\ Simple \/ Branch \/ Loop \/ Call \/ Read
End     == at = TextEnd /\ out' = <<>> /\ UNCHANGED <<prog, at, a, calls, data>>

Init == out = <<>> /\ prog = <<>> /\ at = 0 /\ a = 0 /\ calls = <<[back |-> 0, saved |-> <<>>]>> /\ data = 0
Next == Write \/ Start \/ Execute \/ End
Spec == Init /\ [][Next]_vars
==============================================================================
