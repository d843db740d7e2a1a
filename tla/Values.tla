------------------------------- MODULE Values -------------------------------
(* How values are compiled: value.c, operators.c, the simple values of         *)
(* integer.c, float.c and string.c, and the arguments of functions.c. A value  *)
(* is a sequence of tokens <<what, number>>; one pass over them writes code    *)
(* that leaves the value in R0 and what waits for its operator on the stack.   *)
EXTENDS Code

\* The compiler's state, what is left of the tokens, and the part of the stack that the
\* value uses: the items in use, the most there have been, the place of SUB SP.
Reader(s, x) == [s |-> s, x |-> x, depth |-> 0, most |-> 0, scode |-> 0]

Write(t, code) == [t EXCEPT !.s = Emit(@, code)]
Wrong(t)       == [t EXCEPT !.s = IF @.e = "" THEN Fail(@, "syntax") ELSE @]
Ok(t)          == t.s.e = ""
Is(t, k)       == t.x # <<>> /\ Head(t.x)[1] = k
Take(t)        == [t EXCEPT !.x = Tail(@)]
Must(t, k)     == IF Ok(t) /\ Is(t, k) THEN Take(t) ELSE Wrong(t)

Value(t, n) == [t EXCEPT !.s = set_value_in_register(@, n)]

------------------------------------------------------------------------------
(* Operators                                                                   *)

Priorities ==
  <<{"OR"}, {"AND"}, {"XOR"}, {"=", "!="}, {"<", "<=", ">", ">="}, {"<<", ">>"}, {"+", "-"},
    {"*", "/", "%"}>>
IsOperator(k) == \E p \in DOMAIN Priorities : k \in Priorities[p]
priority(k)   == CHOOSE p \in DOMAIN Priorities : k \in Priorities[p]

\* get_operator: those that a type of value does not have end the value.
NoOperators ==
  [int |-> {}, float |-> {"XOR", "%", "<<", ">>"}, str |-> {"XOR", "%", "<<", ">>", "/", "*", "-"}]
get_operator(t, mode) == t.x # <<>> /\ IsOperator(Head(t.x)[1]) /\ Head(t.x)[1] \notin NoOperators[mode]

\* integer_calculation, float_calculation and string_calculation: instructions for
\* integers, but a library function for division and for the other types.
Length(k) ==
  CASE k \in {"=", "!="} -> 3 [] k \in {"<", ">"} -> 7 [] k \in {"<=", ">="} -> 5
    [] k \in {"<<", ">>"} -> 2 [] OTHER -> 1
calculation(t, k, mode) ==
  IF mode = "int" /\ k \notin {"/", "%"} THEN Write(t, I("calc", k, Length(k)))
  ELSE Write(Write(t, I("ld2", k, 1)), I("lib " \o mode, 0, 2))

------------------------------------------------------------------------------
(* The stack of a value                                                        *)

value_push_r0(t) ==
  LET first == t.most = 0
      depth == t.depth + 1
  IN  [t EXCEPT !.s = Emit(@, (IF first THEN I("sub sp", 0, 1) ELSE <<>>) \o I("str sp", t.depth, 1)),
                !.scode = IF first THEN object(t.s) ELSE @,
                !.depth = depth,
                !.most = IF @ < depth THEN depth ELSE @]

value_pop_r1_top(t) == Write([t EXCEPT !.depth = @ - 1], I("ldr sp", 0, 1))
value_pop_r1(t) == Write([t EXCEPT !.depth = @ - 1], I("ldr sp", t.depth - 1, 1))

\* SUB SP is written before its number is known.
SetFrame(t, at, n) == IF Ok(t) THEN [t EXCEPT !.s.obj[at] = <<"sub sp", n, 1>>] ELSE t
value_end_stack(t) ==
  IF t.most = 0 \/ ~Ok(t) THEN t ELSE SetFrame(Write(t, I("add sp", t.most, 1)), t.scode, t.most)

------------------------------------------------------------------------------
(* Values                                                                      *)

Instructions == ("ABS(" :> 3) @@ ("SGN(" :> 5) @@ ("NOT(" :> 2)
Literals     == [int |-> {"num"}, float |-> {"num", "real"}, str |-> {"text"}]

EndOfValue(t) == t.x = <<>> \/ Head(t.x)[1] \in {",", ")"}

RECURSIVE get_value_sub(_, _, _), Operators(_, _, _), get_simple_value(_, _)
RECURSIVE Atom(_, _, _), PushArguments(_, _, _), StoreArguments(_, _, _), StoreList(_, _)
RECURSIVE argn_function(_, _, _), get_value(_, _)

Back(t, u) == [t EXCEPT !.s = u.s, !.x = u.x]
get_value(t, mode) == Back(t, value_end_stack(get_value_sub(Reader(t.s, t.x), 0, mode)))

get_value_sub(t, pr, mode) == Operators(get_simple_value(t, mode), pr, mode)

\* The loop of get_value_sub: operators that bind closer than the one before, pr.
Operators(t, pr, mode) ==
  IF ~Ok(t) \/ ~get_operator(t, mode) THEN t
  ELSE LET k == Head(t.x)[1]
           right == get_value_sub(value_push_r0(Take(t)), priority(k), mode)
       IN  IF pr >= priority(k) THEN t
           ELSE Operators(calculation(value_pop_r1(right), k, mode), pr, mode)

\* get_simple_integer and its like: a sign, and a value without operators.
get_simple_value(t, mode) ==
  CASE ~Ok(t) -> t
    [] Is(t, "(") -> Must(get_value_sub(Take(t), 0, mode), ")")
    [] Is(t, "-") /\ mode = "int" -> Write(get_simple_value(Take(t), mode), I("neg", 0, 1))
    [] Is(t, "-") /\ mode = "float" ->
         Write(Write(get_simple_value(Take(t), mode), I("ld1", 0, 1) \o I("ld2", "-", 1)),
               I("lib float", 0, 2))
    [] OTHER -> Atom(IF Is(t, "+") /\ mode # "str" THEN Take(t) ELSE t, mode, Routines[mode])

\* A literal, the variable A, an element of the array B, or a function.
Constant(t, mode, value) ==
  IF mode = "str"
  THEN Write(t, I("adr", value, 2) \o I("b", 1, 1) \o I("word", 0, 1) \o I("word", 0, 1))
  ELSE Value(t, value)
Atom(t, mode, functions) ==
  IF t.x = <<>> THEN Wrong(t)
  ELSE LET k == Head(t.x)[1]
           n == Head(t.x)[2]
           u == Take(t)
       IN  CASE k \in Literals[mode] ->
                  Constant(u, mode, IF mode = "int" THEN Wrap(n) ELSE Made(mode, <<n>>))
             [] k = "A" /\ mode = "int" -> Write(u, variable_to_r0)
             [] k = "B(" /\ mode = "int" ->
                  Must(Write(get_value(Write(Write(u, I("ldb", 0, 1)), I("push0", 0, 1)), "int"),
                             I("mul4", 0, 1) \o I("pop1", 0, 1) \o I("ldx", 0, 1)), ")")
             [] k \in DOMAIN Instructions /\ mode = "int" ->
                  Must(Write(get_value(u, "int"), I("calc", k, Instructions[k])), ")")
             [] k \in DOMAIN functions -> Must(argn_function(u, k, functions[k]), ")")
             [] OTHER -> Wrong(t)

------------------------------------------------------------------------------
(* Arguments. g_default_args is one for all functions: what a function sets    *)
(* there is read when an argument of it is found to be left out.               *)

\* A value is tried, and another tried in its place: what it set stays.
Rewind(t, tried) == [t EXCEPT !.s.def = tried.s.def]

Separated(t) == IF ~Ok(t) \/ t.x = <<>> \/ Is(t, ")") THEN t ELSE Must(t, ",")
arg_to_r0(t, call, i) ==
  LET kind     == call.kinds[i]
      def      == t.s.def[i]
      together == def = NoX /\ t.s.def[i + 1] = NoY
  IN  IF MayLeaveOut(kind) /\ Is(t, ",") THEN Value(IF together THEN t ELSE Take(t), def)
      ELSE IF MayLeaveOut(kind) /\ EndOfValue(t) THEN Value(t, def)
      ELSE Separated(get_value(t, Kind(kind)))

\* arg1_function to arg3_function: all but the last are pushed, and popped to R1 and R2.
Pushed(t, call, i) ==
  IF i < Len(call.kinds) THEN PushArguments(Write(t, I("push0", 0, 1)), call, i + 1)
  ELSE Write(t, <<<<>>, I("pop1", 0, 1), I("pop1", 0, 1) \o I("pop2", 0, 1)>>[i])
PushArguments(t, call, i) ==
  IF call.kinds = <<>> THEN t ELSE Pushed(arg_to_r0(t, call, i), call, i)

\* More arguments, or three and an option in R2, are stored in a frame that R1 points to.
Stored(t, call, i) ==
  IF ~Ok(t) \/ i = Len(call.kinds) THEN t
  ELSE StoreArguments(Write(t, I("str sp", i - 1, 1)), call, i + 1)
StoreArguments(t, call, i) == Stored(arg_to_r0(t, call, i), call, i)

WithoutOption ==
  {"STRNCMP(", "STRCMP(", "VAL(", "LEN(", "ASC(", "INT(", "INKEY(", "KEYS(", "FOPEN(", "FOPEN", "PWM",
   "ANALOG(", "CHR$(", "DEC$(", "FLOAT$(", "SPRINTF$(", "INPUT$(", "HEX$(", "FLOAT#(", "VAL#(",
   "WAIT", "DELAYUS", "DELAYMS"}
CallLibrary(t, k) ==
  Write(IF k \in WithoutOption THEN t ELSE Write(t, I("ld2", 0, 1)), I("lib", k, 2))

\* io_prepare_stack: any number of integers, in a frame whose size is known at the end.
ListStored(t, n) == IF Is(t, ",") /\ Ok(t) THEN StoreList(Take(t), n) ELSE [t |-> t, n |-> n]
StoreList(t, n) == ListStored(Write(get_value(t, "int"), I("str sp", n, 1)), n + 1)
Enough(list, least) == IF list.n < least THEN Wrong(list.t) ELSE list.t
CallListed(list, at, k, least) ==
  LET framed == SetFrame(Enough(list, least), at, list.n)
  IN  Write(CallLibrary(Value(Write(framed, I("mov1sp", 0, 1)), list.n), k), I("add sp", list.n, 1))
io_call_lib_with_stack(t, k, least) ==
  IF least = 0 /\ Is(t, ")") THEN CallLibrary(t, k)
  ELSE CallListed(StoreList(Write(t, I("sub sp", 0, 1)), 0), object(t.s), k, least)

\* The first argument of TCPSEND is a text if it can be one.
EitherKind(t, tried, given) ==
  [t |-> Rewind(t, tried), call |-> [given EXCEPT !.kinds[1] = IF Ok(tried) THEN "str" ELSE "int"]]
CallFramed(t, k, n) == Write(CallLibrary(Write(t, I("mov1sp", n, 1)), k), I("add sp", n, 1))
CallWith(t, k, call, n) ==
  IF n < 3 \/ (n = 3 /\ k \in WithoutOption) THEN CallLibrary(PushArguments(t, call, 1), k)
  ELSE CallFramed(StoreArguments(Write(t, I("sub sp", n - 1, 1)), call, 1), k, n - 1)
Call(k, with) ==
  IF IsList(with.call) THEN io_call_lib_with_stack(with.t, k, with.call.least)
  ELSE CallWith([with.t EXCEPT !.s.def = with.call.default @@ @], k, with.call, Len(with.call.kinds))
argn_function(t, k, given) ==
  IF ~Ok(t) THEN t
  ELSE Call(k, IF k = "TCPSEND(" THEN EitherKind(t, get_value(t, "str"), given)
               ELSE [t |-> t, call |-> given])

------------------------------------------------------------------------------
(* Statements with values                                                      *)

Whole(t) == IF Ok(t) /\ t.x # <<>> THEN Wrong(t).s ELSE t.s
get_integer(s, x) == Whole(get_value(Reader(s, x), "int"))

\* print_statement: each value is tried as a text, as an integer, as a number. Only the
\* first two must be followed by a separator or the end.
EndOfItem(t) == t.x = <<>> \/ Head(t.x)[1] \in {",", ";"}
OrNumber(t, int) ==
  IF Ok(int) /\ EndOfItem(int) THEN [t |-> int, mode |-> "int"]
  ELSE [t |-> get_value(Rewind(t, int), "float"), mode |-> "float"]
OrInteger(t, str) ==
  IF Ok(str) /\ EndOfItem(str) THEN [t |-> str, mode |-> "str"]
  ELSE OrNumber(t, get_value(Rewind(t, str), "int"))
PrintItem(t) == OrInteger(t, get_value(t, "str"))

print_item(t, mode, end) == Write(Write(t, I("ld1", <<mode, end>>, 1)), call_lib_code("print"))

EndItem(t, mode) ==
  IF Ok(t) /\ t.x # <<>> /\ EndOfItem(t) THEN print_item(Take(t), mode, Head(t.x)[1])
  ELSE print_item(t, mode, "")

RECURSIVE PrintItems(_)
OtherItems(t) == IF ~Ok(t) \/ t.x = <<>> THEN t ELSE PrintItems(t)
Item(item) == EndItem(item.t, item.mode)
PrintItems(t) == OtherItems(Item(PrintItem(t)))
print_statement(s, x) ==
  IF x = <<>> THEN print_item(Value(Reader(s, x), 0), "str", "").s ELSE PrintItems(Reader(s, x)).s

\* A statement that is a function of the library.
library_statement(s, k, x) == Whole(argn_function(Reader(s, x), k, Routines.void[k]))
==============================================================================
