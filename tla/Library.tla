------------------------------- MODULE Library -------------------------------
(* Integers of the machine, and what the functions and statements of the      *)
(* library are given: the kinds of their arguments (with "?" where one may be *)
(* left out) and what an argument that is left out is (the calls of           *)
(* argn_function and io_call_lib_with_stack).                                 *)
(* NoX and NoY mark a first point that is left out as a whole.                *)
EXTENDS Integers, Sequences, SequencesExt, TLC

CONSTANTS Bits,        \* 32 on the machine
          Made(_, _)   \* what a library function, or arithmetic that is not of integers,
                       \* makes of its arguments: a number that stands for it

ASSUME BitsAssumption == Bits \in Nat \ {0}

Wrap(n)     == ((n + 2^(Bits - 1)) % 2^Bits) - 2^(Bits - 1)
Unsigned(n) == n % 2^Bits
Bit(n, i)   == (n \div 2^i) % 2

ArrayB == 50           \* where the array B is
NoX == 101             \* what is given where a first point is left out
NoY == 102

------------------------------------------------------------------------------
Named(rows) ==
  LET Row(k) == CHOOSE i \in DOMAIN rows : rows[i][1] = k
  IN  [k \in {rows[i][1] : i \in DOMAIN rows} |->
         [kinds |-> rows[Row(k)][2], default |-> rows[Row(k)][3]]]

Kinds(list) ==
  CASE list = "" -> <<>> [] list = "i" -> <<"int">> [] list = "ii" -> <<"int", "int">>
    [] list = "iii" -> <<"int", "int", "int">> [] list = "iiii" -> <<"int", "int", "int", "int">>
    [] list = "f" -> <<"float">> [] list = "ff" -> <<"float", "float">>
    [] list = "s" -> <<"str">> [] list = "ss" -> <<"str", "str">>
    [] list = "ssi" -> <<"str", "str", "int">> [] list = "sf" -> <<"str", "float">>
Given(names, list) == [k \in names |-> [kinds |-> Kinds(list), default |-> <<>>]]

i1 == "int?"
s1 == "str?"
Point == (1 :> NoX) @@ (2 :> NoY)

------------------------------------------------------------------------------
(* Functions                                                                   *)

IntegerFunctions ==
  Given({"VAL(", "LEN(", "ASC("}, "s") @@ Given({"INT("}, "f") @@ Given({"STRCMP("}, "ss")
    @@ Given({"STRNCMP("}, "ssi") @@ Given({"RND("}, "")
    @@ Named(<<<<"INKEY(", <<i1>>, 1 :> 0>>, <<"KEYS(", <<i1>>, 1 :> 63>>>>)
RealFunctions ==
  Given({"ACOS#(", "ASIN#(", "ATAN#(", "CEIL#(", "COS#(", "COSH#(", "EXP#(", "FABS#(", "FLOOR#(", "LOG#(",
          "LOG10#(", "MODF#(", "SIN#(", "SINH#(", "SQRT#(", "TAN#(", "TANH#("}, "f")
    @@ Given({"POW#(", "FMOD#(", "ATAN2#("}, "ff")
    @@ Given({"FLOAT#("}, "i") @@ Given({"VAL#("}, "s") @@ Given({"RND#("}, "")
TextFunctions ==
  Given({"CHR$(", "DEC$("}, "i") @@ Given({"FLOAT$("}, "f") @@ Given({"SPRINTF$("}, "sf")
    @@ Given({"INPUT$("}, "") @@ Named(<<<<"HEX$(", <<"int", i1>>, 2 :> 0>>>>)
\* Part of the text of a variable, here of a text variable A.
mid_string == Named(<<<<"A$(", <<"int", i1>>, 2 :> -1>>>>)

ScreenFunctions == Named(<<<<"TVRAM(", <<i1>>, 1 :> -1>>, <<"GCOLOR(", <<i1, i1>>, <<>>>>>>)
FileFunctions ==
  Given({"FGET(", "FPUT("}, "ii") @@ Given({"FPUTC(", "FINFO("}, "i") @@ Given({"FRENAME("}, "ss")
    @@ Given({"FREMOVE(", "SETDIR(", "MKDIR("}, "s") @@ Given({"FEOF(", "FGETC(", "FLEN(", "FSEEK("}, "")
    @@ Named(<<<<"FOPEN(", <<"str", "str", i1>>, 3 :> 1>>>>)
FileTexts ==
  Given({"GETDIR$("}, "") @@ Given({"FINFO$("}, "i")
    @@ Named(<<<<"FINPUT$(", <<i1>>, 1 :> -1>>, <<"FFIND$(", <<s1, s1>>, <<0, 0>>>>>>)
ClockTexts ==
  Named(<<<<"GETTIME$(", <<s1, i1>>, <<0, 0>>>>, <<"STRFTIME$(", <<"str", s1>>, 2 :> 0>>>>)
PortFunctions ==
  Given({"ANALOG(", "IN("}, "i") @@ Given({"IN8H(", "IN8L(", "IN16(", "I2CERROR("}, "")
    @@ Named(<<<<"SERIALIN(", <<i1>>, 1 :> 0>>>>)
TimeFunctions == Given({"DRAWCOUNT(", "CORETIMER(", "TIMER("}, "")
MusicFunctions == Given({"MUSIC("}, "") @@ Named(<<<<"PLAYWAVE(", <<i1>>, 1 :> 0>>>>)
NetFunctions ==
  Given({"TCPACCEPT(", "WIFIERR(", "NTP("}, "")
    @@ Named(<<<<"TCPSTATUS(", <<"int", i1>>, 2 :> 0>>, <<"TCPCLOSE(", <<i1>>, 1 :> 0>>,
               <<"TCPRECEIVE(", <<"int", "int", i1>>, 3 :> 0>>,
               <<"TLSCLIENT(", <<"str", i1, i1, s1>>, (2 :> 443) @@ (3 :> 0) @@ (4 :> 0)>>,
               <<"TCPSEND(", <<"str or int", i1, i1>>, (2 :> -1) @@ (3 :> 0)>>>>)
NetTexts == Given({"IFCONFIG$("}, "i") @@ Given({"DNS$("}, "s") @@ Given({"WIFIERR$("}, "")

------------------------------------------------------------------------------
(* Statements                                                                  *)

TextScreen ==
  Given({"BGCOLOR", "PCG"}, "iii") @@ Given({"CLS"}, "") @@ Given({"COLOR"}, "i")
    @@ Given({"CURSOR", "SCROLL"}, "ii") @@ Given({"PALETTE"}, "iiii")
    @@ Named(<<<<"USEPCG", <<i1>>, 1 :> 1>>, <<"WIDTH", <<"int", i1>>, 2 :> 0>>>>)
Graphics ==
  Given({"GCLS"}, "") @@ Given({"GCOLOR"}, "i") @@ Given({"GPALETTE"}, "iiii") @@ Given({"POINT"}, "ii")
    @@ Named(<<<<"BOXFILL", <<i1, i1, "int", "int", i1>>, Point @@ (5 :> -1)>>,
               <<"LINE", <<i1, i1, "int", "int", i1>>, Point @@ (5 :> -1)>>,
               <<"CIRCLE", <<i1, i1, "int", i1>>, Point @@ (4 :> -1)>>,
               <<"CIRCLEFILL", <<i1, i1, "int", i1>>, Point @@ (4 :> -1)>>,
               <<"PSET", <<i1, i1, i1>>, Point @@ (3 :> -1)>>,
               <<"GPRINT", <<i1, i1, "int", "int", "str">>, Point>>,
               <<"USEGRAPHIC", <<i1, i1>>, (1 :> 1) @@ (2 :> 255)>>>>)
FileStatements ==
  Given({"FILE", "FPUTC", "FSEEK"}, "i") @@ Given({"FGET", "FPUT"}, "ii") @@ Given({"FRENAME"}, "ss")
    @@ Given({"FREMOVE", "SETDIR", "MKDIR"}, "s")
    @@ Named(<<<<"FCLOSE", <<i1>>, 1 :> 0>>, <<"FOPEN", <<"str", "str", i1>>, 3 :> 1>>>>)
MusicStatements == Named(<<<<"MUSIC", <<"str", i1>>, 2 :> 3>>, <<"PLAYWAVE", <<"str", i1>>, 2 :> 0>>>>)
TimeStatements == Given({"WAIT", "DELAYUS", "DELAYMS", "DRAWCOUNT", "USETIMER", "CORETIMER", "TIMER"}, "i")
                    @@ Given({"SETTIME"}, "s")
PortStatements ==
  Given({"OUT8H", "OUT8L", "OUT16", "SERIALOUT"}, "i") @@ Given({"OUT"}, "ii")
    @@ Named(<<<<"PWM", <<"int", i1, i1>>, (2 :> 1000) @@ (3 :> 1)>>,
               <<"SPI", <<"int", i1, i1, i1>>, (2 :> 8) @@ (3 :> 0) @@ (4 :> 5)>>,
               <<"I2C", <<i1>>, 1 :> 100>>,
               <<"SERIAL", <<"int", i1, i1>>, (2 :> 0) @@ (3 :> 0)>>>>)
NetStatements ==
  Given({"NTP"}, "")
    @@ Named(<<<<"TCPCLIENT", <<"str", i1>>, 2 :> 80>>, <<"TCPSERVER", <<i1, i1>>, <<80, 1>>>>>>)

\* Those that take any number of integers, and at least how many.
Lists == ("SPIWRITE" :> 1) @@ ("SPIWRITEDATA" :> 2) @@ ("SPIREADDATA" :> 2) @@ ("SPISWAPDATA" :> 2)
           @@ ("I2CWRITE" :> 1) @@ ("I2CREADDATA" :> 3) @@ ("I2CWRITEDATA" :> 3)
           @@ ("SPIREAD(" :> 0) @@ ("I2CREAD(" :> 1)
ListShape(n) == [kinds |-> <<>>, default |-> <<>>, least |-> n]
ListFunctions == {"SPIREAD(", "I2CREAD("}

------------------------------------------------------------------------------
Routines ==
  [int   |-> IntegerFunctions @@ ScreenFunctions @@ FileFunctions @@ PortFunctions @@ TimeFunctions
               @@ MusicFunctions @@ NetFunctions
               @@ [k \in ListFunctions |-> ListShape(Lists[k])],
   float |-> RealFunctions,
   str   |-> TextFunctions @@ mid_string @@ FileTexts @@ ClockTexts @@ NetTexts,
   void  |-> TextScreen @@ Graphics @@ FileStatements @@ MusicStatements @@ TimeStatements @@ PortStatements
               @@ NetStatements @@ [k \in DOMAIN Lists \ ListFunctions |-> ListShape(Lists[k])]]

IsList(call) == "least" \in DOMAIN call
MayLeaveOut(kind) == kind \in {i1, s1}
Kind(kind) == IF kind = i1 THEN "int" ELSE IF kind = s1 THEN "str" ELSE kind
==============================================================================
