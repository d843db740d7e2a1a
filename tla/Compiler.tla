------------------------------- MODULE Compiler -------------------------------
(* The compiler: compiler.c, the control statements of statements.c, and       *)
(* compile_file of file.c. A statement is compiled in one pass; a branch whose *)
(* destination is not known yet is a record of CompileData until it is.        *)
EXTENDS Values

CONSTANTS ClassCode,   \* the statements of the class file that USECLASS names
          LineTaken    \* handle_line_number finds 0 in the variable it never sets

------------------------------------------------------------------------------
(* BREAK, CONTINUE and loops                                                   *)

break_statement(s) == EmitBl(s, "BREAK_BL", s.fordepth)

continue_statement(s) ==
  LET found == with_id(s.cmp, "CONTINUE", s.fordepth)
  IN  IF s.e # "" THEN s
      ELSE IF found = {} THEN Fail(s, "syntax")
      ELSE Emit(s, Bl(First(s.cmp, found).at))

Outside(s) == [Resolve(s, with_id(s.cmp, "BREAK_BL", s.fordepth)) EXCEPT !.fordepth = @ - 1]
EndLoop(s) ==
  IF s.e # "" THEN s
  ELSE Outside([s EXCEPT !.cmp = cmpdata_delete(@, {Min(with_id(@, "CONTINUE", s.fordepth))})])
contine_end_loop(s) == EndLoop(continue_statement(s))

\* do_statement with WHILE or UNTIL, and while_statement: skip is the branch over BREAK.
Deeper(s) == [s EXCEPT !.fordepth = @ + 1]
If(s, skip) == Emit(Emit(s, variable_to_r0), I("cmp", 0, 1) \o I(skip, 0, 1))
do_while(s, skip) ==
  Insert(break_statement(If(Deeper(s), skip)), "CONTINUE", s.fordepth + 1, object(s))
do_statement(s) == Insert(Deeper(s), "CONTINUE", s.fordepth + 1, object(s))

\* loop_statement with WHILE or UNTIL: skip is the branch over the way back.
loop_while(s, skip) == contine_end_loop(If(s, skip))

\* FOR A=1 TO end STEP by. The first round goes over the addition; TO and STEP are
\* compiled twice.
Numeral(n) == IF n < 0 THEN <<<<"-", 0>>, <<"num", -n>>>> ELSE <<<<"num", n>>>>
ToEnd(s, t) == Emit(get_integer(s, Numeral(t.end)), I("push0", 0, 1))
FromOne(s, t) == ToEnd(Emit(get_integer(s, Numeral(1)), r0_to_variable), t)
Stepping(s, t, code) == IF t.by = 1 THEN s ELSE Emit(get_integer(s, Numeral(t.by)), code)
NextRound(s) == Insert(s, "CONTINUE", s.fordepth, object(s))
Addition(s, t) ==
  IF t.by = 1 THEN Emit(Emit(Emit(s, variable_to_r0), I("inc0", 0, 1)), r0_to_variable)
  ELSE Emit(Emit(Emit(s, variable_to_r0 \o I("add02", 0, 1)), r0_to_variable), I("pop2", 0, 1))
Rounds(s, t) ==
  ToHere(Addition(Stepping(ToEnd(NextRound(EmitUnchecked(s, Bl(object(s) + 2))), t), t,
                           I("mov20", 0, 1) \o I("push2", 0, 1)), t), object(s))
Reached(s, t) ==
  Emit(IF t.by = 1 THEN s ELSE Emit(s, I("swap", 0, 5)), I("cmp10", 0, 1) \o I("bge", 0, 1))
FirstRound(s, t) == Emit(Stepping(FromOne(Deeper(s), t), t, I("mov20", 0, 1)), variable_to_r0)
for_statement(s, t) ==
  break_statement(Reached(Emit(Rounds(FirstRound(s, t), t), I("pop1", 0, 1)), t))

------------------------------------------------------------------------------
(* IF                                                                          *)

insert_if_bl(s)    == EmitBl(s, "IF_BL", s.ifdepth)
insert_endif_bl(s) == EmitBl(s, "ENDIF_BL", s.ifdepth)

resolve_if_bl(s) ==
  LET found == with_id(s.cmp, "IF_BL", s.ifdepth)
  IN  IF s.e # "" THEN s
      ELSE IF found = {} THEN Fail(s, "syntax")
      ELSE Resolve(s, {Min(found)})

else_statement(s) == resolve_if_bl(insert_endif_bl(s))

\* endif_statement does not mind a missing IF: ELSE may have resolved it.
resolve_endif_bl(s) == Resolve(s, with_id(s.cmp, "ENDIF_BL", s.ifdepth))
EndIf(s) ==
  IF with_id(s.cmp, "IF_BL", s.ifdepth) # {} THEN Fail(s, "unknown") ELSE [s EXCEPT !.ifdepth = @ - 1]
endif_statement(s) ==
  IF s.e # "" THEN s
  ELSE EndIf(resolve_endif_bl(IF with_id(s.cmp, "IF_BL", s.ifdepth) = {} THEN s ELSE resolve_if_bl(s)))

if_statement(s) == insert_if_bl(If([s EXCEPT !.ifdepth = @ + 1], "bne"))

\* The IF that follows is compiled by if_statement, at the same depth.
elseif_statement(s) == [else_statement(s) EXCEPT !.ifdepth = @ - 1]

------------------------------------------------------------------------------
(* Labels, line numbers and subroutines                                        *)

\* A label has a name from its first use on, in every file.
get_label_id(s, n) ==
  IF with_id(s.cmp, "LABELNAME", n) # {} THEN s ELSE Insert(s, "LABELNAME", n, 0)

resolve_label(s, n) == Resolve(s, with_id(s.cmp, "GOTO_LABEL_BL", n))
NewLabel(s, n) ==
  IF s.e = "" /\ with_id(s.cmp, "LABEL", n) # {} THEN Fail(s, "duplicated")
  ELSE resolve_label(Insert(s, "LABEL", n, object(s)), n)
label_statement(s, n) == NewLabel(get_label_id(s, n), n)

GoTo(s, known, unknown, n) ==
  LET found == with_id(s.cmp, known, n)
  IN  IF s.e # "" THEN s
      ELSE IF found = {} THEN EmitBl(s, unknown, n)
      ELSE Emit(s, Bl(First(s.cmp, found).at))
goto_label(s, n) == GoTo(get_label_id(s, n), "LABEL", "GOTO_LABEL_BL", n)
goto_line(s, n)  == GoTo(s, "LINENUM", "GOTO_NUM_BL", n)

Target(s, to) == IF to.op = "LABEL" THEN get_label_id(s, to.n) ELSE s
goto_statement(s, to) == IF to.op = "LABEL" THEN goto_label(s, to.n) ELSE goto_line(s, to.n)

\* A single-line IF with two destinations, or with one (alt is then the same).
ElseGoto(s, t) == IF t.alt = t.to THEN s ELSE goto_statement(else_statement(s), t.alt)
if_goto(s, t) == endif_statement(ElseGoto(goto_statement(if_statement(s), t.to), t))

\* gosub_statement: arguments on the stack, and a BL to a PUSH {LR} before the GOTO.
Subroutine(s, to) ==
  LET go == goto_statement(Emit(s, Bl(object(s) + 2) \o I("push lr", 0, 1)), to)
  IN  Emit(ToHere(go, object(s)), Bl(object(s) + 2))
gosub_statement(s, to) ==
  LET call == Subroutine(Emit(Emit(Target(s, to), I("ldr", 0, 1)), I("frame", 0, 6)), to)
  IN  Emit(Emit(call, I("post", 0, 3)), I("unframe", 0, 2))

return_statement(s) == Emit(s, I("pop pc", 0, 1))

\* VAR A: the code that restores A is between the BL and PUSH {LR}.
Restoring(s) ==
  ToHere(Emit(Emit(EmitUnchecked(s, Bl(object(s) + 2)), I("var pop", 0, 5)), I("pop pc", 0, 1)), object(s))
var_statement(s) == Emit(Restoring(Emit(s, I("var push", 0, 7))), I("push lr", 0, 1))

------------------------------------------------------------------------------
(* DATA and the rest                                                           *)

data_statement(s, n) ==
  ToHere(Emit(Emit(s, Bl(object(s) + 2) \o I("data", 0, 1)), I("word", n, 1) \o I("word", 0, 1)), object(s))

\* The BL is the number that a load takes from behind itself, on a word boundary.
LeaveWord(s) == IF s.e # "" THEN s ELSE [s EXCEPT !.obj = SubSeq(@, 1, Len(@) - 2)]
restore_statement(s, to) ==
  LET go == goto_statement(LeaveWord(Words(s, I("word", 0, 1) \o I("word", 0, 1))), to)
  IN  Emit(Emit(go, I("mov1pc", 0, 1)), call_lib_code("restore"))

end_statement(s) == Emit(s, call_lib_code("end"))
let_code(s, value) == Emit(Emit(s, value), r0_to_variable)

\* compile_statement: t is a statement with its arguments. INPUT stands for any
\* statement that gives A a new value (A=INKEY()). USECLASS compiles a file.
RECURSIVE compile_statement(_, _), useclass_statement(_)
compile_statement(s, t) ==
  CASE t.op = "INPUT" -> let_code(s, I("inkey", 0, 3))
    [] t.op = "LET" -> Emit(get_integer(s, t.x), r0_to_variable)
    [] t.op = "PRINT" -> print_statement(s, t.x)
    [] t.op = "LIB" -> library_statement(s, t.k, t.x)
    [] t.op = "READ" -> let_code(s, call_lib_code("read"))
    [] t.op = "BREAK" -> break_statement(s)
    [] t.op = "CONTINUE" -> continue_statement(s)
    [] t.op = "DATA" -> data_statement(s, t.n)
    [] t.op = "DO" -> do_statement(s)
    [] t.op \in {"DO WHILE", "WHILE"} -> do_while(s, "bne")
    [] t.op = "DO UNTIL" -> do_while(s, "beq")
    [] t.op = "ELSE" -> else_statement(s)
    [] t.op = "ELSEIF" -> elseif_statement(s)
    [] t.op = "END" -> end_statement(s)
    [] t.op = "ENDIF" -> endif_statement(s)
    [] t.op = "FOR" -> for_statement(s, t)
    [] t.op = "GOSUB" -> gosub_statement(s, t.to)
    [] t.op = "GOTO" -> goto_statement(s, t.to)
    [] t.op \in {"IF", "IF THEN"} -> if_statement(s)
    [] t.op = "IF GOTO" -> if_goto(s, t)
    [] t.op = "LABEL" -> label_statement(s, t.n)
    [] t.op \in {"LOOP", "WEND", "NEXT"} -> contine_end_loop(s)
    [] t.op = "LOOP WHILE" -> loop_while(s, "beq")
    [] t.op = "LOOP UNTIL" -> loop_while(s, "bne")
    [] t.op = "RESTORE" -> restore_statement(s, t.to)
    [] t.op = "RETURN" -> return_statement(s)
    [] t.op = "VAR" -> var_statement(s)
    [] t.op = "USECLASS" -> useclass_statement(s)

\* compile_line up to its first statement; n is the line's number, or 0. What
\* handle_line_number does with branches to it hangs on a variable that is never set.
Numbered(s) == Insert(s, "LINENUM", s.linenum, object(s))
handle_line_number(s, n) ==
  IF n # 0 /\ LineTaken THEN Resolve(s, with_id(s.cmp, "GOTO_NUM_BL", n)) ELSE s
NewLine(s, n) == handle_line_number(Numbered([s EXCEPT !.linenum = IF n = 0 THEN @ + 1 ELSE n]), n)

\* The end of a line closes its single-line IFs, of which there are n.
RECURSIVE EndLine(_, _)
EndLine(s, n) == IF n = 0 THEN s ELSE EndLine(endif_statement(s), n - 1)

------------------------------------------------------------------------------
(* Files                                                                       *)

Unfinished == {"GOTO_NUM_BL", "GOTO_LABEL_BL", "DATA_LABEL_BL", "BREAK_BL", "CONTINUE",
               "IF_BL", "ENDIF_BL"}
end_file_compiler_labels(s) ==
  IF s.e # "" THEN s
  ELSE IF \E type \in Unfinished : cmpdata_find(s.cmp, type) # {} THEN Fail(s, "not terminated")
  ELSE s
end_file_compiler(s) ==
  IF s.e # "" THEN s
  ELSE IF \E type \in Unfinished : cmpdata_find(s.cmp, type) # {} THEN Fail(s, "not terminated")
  ELSE [s EXCEPT !.cmp = cmpdata_delete_all(@, "LABEL")]

\* A file: a line for each of its statements.
RECURSIVE compile_file(_, _)
compile_file(s, file) ==
  IF file = <<>> THEN end_file_compiler(s)
  ELSE compile_file(compile_statement(NewLine(s, 0), Head(file)), Tail(file))

\* post_compilling_a_class: the class structure and the empty object, here without fields.
Aligned(s) == IF Len(s.obj) % 2 = 1 THEN Emit(s, I("nop", 0, 1)) ELSE s
post_compilling_a_class(s) ==
  Insert(Emit(Emit(Aligned(s), I("word", 0, 2)), I("word", 0, 2)), "CLASS_ADDRESS", 1, 0)

\* useclass_statement of a class that is not known: its file is compiled, with a BL over
\* the code, and the file that names it is compiled again from its first line.
Without(s, type) == IF s.e # "" THEN s ELSE [s EXCEPT !.cmp = cmpdata_delete_all(@, type)]
ClassCompiled(s) ==
  LET file == begin_file_compiler(EmitUnchecked(s, Bl(object(s) + 2)))
  IN  ToHere(post_compilling_a_class(compile_file(file, Append(ClassCode, [op |-> "END"]))), object(s))
NewClass(s) == Insert(Insert(Insert(s, "STRSTACK", 1, 0), "CLASSNAME", 1, 0), "CLASS", 1, 0)
useclass_statement(s) ==
  IF s.e # "" \/ cmpdata_find(s.cmp, "CLASSNAME") # {} THEN s
  ELSE begin_file_compiler(Without(ClassCompiled(Without(NewClass(s), "LINENUM")), "STRSTACK"))

\* post_compilling_classes: the tables of classes behind the code.
Tables(s, n) == IF n = 0 THEN s ELSE Emit(s, I("word", 0, 4 * n))
post_compile(s) ==
  LET n == Cardinality(cmpdata_find(s.cmp, "CLASSNAME"))
  IN  Tables(Aligned(Emit(s, I("word", 0, n + 1))), n)
==============================================================================
