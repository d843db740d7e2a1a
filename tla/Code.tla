-------------------------------- MODULE Code --------------------------------
(* The object code and the compiler's records while it is written: cmpdata.c, *)
(* compiler.c's check_object, update_bl and call_lib_code, and variable.c. The *)
(* state is the compiler's: the code, the records, and the first error, after *)
(* which nothing changes.                                                     *)
(*                                                                            *)
(* Records are kept of the code that the compiler is not done with. They lie  *)
(* behind the object code and grow down towards it; the newest is first, and  *)
(* every search goes from it to the older ones.                               *)
(*                                                                            *)
(* Object code is a sequence of instructions <<operation, number, halfwords>>, *)
(* one place for each halfword, the later halfwords of an instruction Rest.   *)
(* An unresolved BL goes to the instruction behind it.                        *)
EXTENDS Library, FiniteSetsExt

CONSTANTS ObjectSize,  \* the halfwords for object code and records
          ShortMax     \* the greatest number that fits in the 16 bits of a record

ASSUME SizesAssumption == ObjectSize \in Nat /\ ShortMax \in Nat

\* Records: their type, the number in their first word, and an address in the object.
\* A number over ShortMax is negative there, and sets every bit of type and length.
Record(type, id, at) == [type |-> type, id |-> id, at |-> at]
Spoilt(r) == r.id > ShortMax \/ r.id < 0

\* The words of a record; names are of two or three letters, and have a hash.
RecordWords(r) ==
  CASE r.type \in {"LABELNAME", "CLASSNAME", "STRSTACK"} -> 3
    [] r.type = "CLASS_ADDRESS" -> 4
    [] r.type = "CLASS" -> 1
    [] OTHER -> 2
RECURSIVE AllWords(_)
AllWords(cmp) == IF cmp = <<>> THEN 0 ELSE RecordWords(Head(cmp)) + AllWords(Tail(cmp))
objmax(cmp) == ObjectSize - 2 * AllWords(cmp)

\* A search steps from a record to the next by its length; that of a spoilt record
\* leads out of the records.
Found(cmp) ==
  LET bad == {i \in DOMAIN cmp : Spoilt(cmp[i])}
  IN  IF bad = {} THEN DOMAIN cmp ELSE 1 .. Min(bad) - 1

cmpdata_find(cmp, type)     == {i \in Found(cmp) : cmp[i].type = type}
with_id(cmp, type, id)      == {i \in cmpdata_find(cmp, type) : cmp[i].id = id}
First(cmp, S)               == cmp[Min(S)]

cmpdata_insert(cmp, r) ==
  IF r.type = "STRSTACK"
  THEN LET i == Min({j \in DOMAIN cmp : cmp[j].type = "STRSTACK"} \cup {Len(cmp) + 1})
       IN  InsertAt(cmp, i, r)
  ELSE <<r>> \o cmp

\* Records without those at the places S, or of a type.
RECURSIVE cmpdata_delete(_, _)
cmpdata_delete(cmp, S) ==
  IF S = {} THEN cmp ELSE cmpdata_delete(RemoveAt(cmp, Max(S)), S \ {Max(S)})
cmpdata_delete_all(cmp, type) == cmpdata_delete(cmp, cmpdata_find(cmp, type))

------------------------------------------------------------------------------
CONSTANT ByteMax    \* the greatest number that fits in an instruction

Rest == <<"", 0, 1>>
I(op, n, len) == <<<<op, n, len>>>> \o [i \in 1 .. len - 1 |-> Rest]

\* The compiler's state: the code, the records, the depths, the line, the first error,
\* and what is given for arguments that are left out (g_default_args).
Fresh == [obj |-> <<>>, cmp |-> <<>>, ifdepth |-> 0, fordepth |-> 0, linenum |-> 0, e |-> "",
          def |-> [i \in 1 .. 6 |-> 0]]
begin_file_compiler(s) == [s EXCEPT !.ifdepth = 0, !.fordepth = 0, !.linenum = 0]

object(s)  == Len(s.obj) + 1
Fail(s, e) == [s EXCEPT !.e = e]

\* check_object and then the instruction; nothing is done after an error.
Emit_startOnly(s, code) ==
  IF s.e # "" THEN s
  ELSE IF objmax(s.cmp) <= Len(s.obj) THEN Fail(s, "too large")
  ELSE [s EXCEPT !.obj = @ \o code]
Emit(s, code) ==
  IF s.e # "" THEN s
  ELSE IF objmax(s.cmp) <= Len(s.obj) + Len(code) THEN Fail(s, "too large")
  ELSE [s EXCEPT !.obj = @ \o code]
EmitUnchecked(s, code) == IF s.e # "" THEN s ELSE [s EXCEPT !.obj = @ \o code]

Insert(s, type, id, at) ==
  IF s.e # "" THEN s
  ELSE LET cmp == cmpdata_insert(s.cmp, Record(type, id, at))
       IN  [s EXCEPT !.cmp = cmp, !.e = IF objmax(cmp) < Len(s.obj) THEN "too large" ELSE @]

Bl(to) == I("bl", to, 2)
update_bl(s, at, to) == IF s.e # "" THEN s ELSE [s EXCEPT !.obj[at] = <<"bl", to, 2>>]
ToHere(s, at) == update_bl(s, at, object(s))

\* A BL with a record that it has to be resolved.
EmitBl(s, type, id) == Insert(Emit(s, Bl(object(s) + 2)), type, id, object(s))

\* The BLs of the records S go to the place the code has reached; S is deleted.
RECURSIVE Resolve(_, _)
Resolve(s, S) ==
  IF s.e # "" \/ S = {} THEN s
  ELSE Resolve([s EXCEPT !.obj[s.cmp[Max(S)].at] = <<"bl", object(s), 2>>,
                         !.cmp = RemoveAt(@, Max(S))], S \ {Max(S)})

\* Behind a B that goes over them, on a word boundary, lie the words of a number.
Words(s, w) ==
  LET odd == Len(s.obj) % 2 = 1
  IN  Emit(s, (IF odd THEN I("ldl", object(s) + 3, 1) \o I("b", 2, 1) \o I("nop", 0, 1)
               ELSE I("ldl", object(s) + 2, 1) \o I("b", 1, 1)) \o w)

\* set_value_in_register for R0, variable_to_r0 and r0_to_variable for the variable A.
set_value_in_register(s, n) ==
  CASE n \in 0 .. ByteMax -> Emit(s, I("ldi", n, 1))
    [] n \in -ByteMax .. -1 -> Emit(s, I("ldi", n, 2))
    [] OTHER -> Words(s, I("word", n, 1) \o I("word", 0, 1))
variable_to_r0 == I("lda", 0, 1)
r0_to_variable == I("sta", 0, 4)
call_lib_code(f) == I(f, 0, 2)
==============================================================================
