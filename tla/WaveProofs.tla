------------------------------ MODULE WaveProofs ------------------------------
(***************************************************************************)
(* What Wave promises for every size of the ring buffer, every set of      *)
(* files and every set of programs.  Two invariants: Aligned says where    *)
(* the write position can be when a read begins, for all programs; Course  *)
(* says, for a program that waits for its files, which units of the file   *)
(* lie between the two positions, and that the reader is never late.       *)
(***************************************************************************)
EXTENDS Wave, TLAPS

Steps0 == {"idle", "close", "unhandle", "disable", "rewind", "wait", "handle", "open",
           "header", "first", "filled", "mode", "enable", "request", "fire", "error",
           "stop", "stop_rewind", "stop_timer", "stop_close", "stop_handle", "stop_free",
           "stop_enable", "ended"}
Steps1 == {"loop", "check", "load", "read", "advance", "eof", "quit", "forget"}

\* The statement has waited for the reader and has not enabled it again.
Opening == {"handle", "open", "header", "first", "filled", "mode", "enable"}

\* f_read has nothing more to give.
Exhausted == ~fil.open \/ fil.pos = Units[fil.file]

\* The object of the handle is a file that is open or was, and f_read stays inside it.
FileType ==
  /\ fil \in [open : BOOLEAN, file : Files \cup {NoFile}, pos : Nat]
  /\ fil.open => fil.file \in Files
  /\ fil.file = NoFile => fil.pos = 0
  /\ fil.file \in Files => fil.pos <= Units[fil.file]

Types ==
  /\ TypeOK /\ FileType
  /\ program \in Programs
  /\ pc0 \in Steps0 /\ pc1 \in Steps1
  /\ inHandler \in BOOLEAN /\ next \in Nat
  /\ rd \in [at : 0 .. Size - 1, cell : (Files \cup {NoFile}) \X Nat, n : 0 .. Half]

\* While the reader is off no read is under way, unless a read may outlast the wait.
Off ==
  /\ pc0 \in Opening => ~enable /\ song \in Files
  /\ pc0 \in {"rewind", "wait"} => ~enable
  /\ pc0 \in {"header", "first"} => fil.file = song
  /\ ~SlowRead /\ pc0 \in Opening => ~Reading

\* A read begins at the start of a half, or finds nothing to read.
Aligned ==
  /\ wpos \in {0, Half} \/ pc0 \in {"header", "first", "filled"} \/ Exhausted
  /\ pc1 = "read" => rd.at + rd.n <= Size
  /\ pc1 = "read" => rd.n \in {0, Half} \/ (fil.file \in Files /\ rd.n = Units[fil.file] - fil.pos)
  /\ pc1 = "advance" => rd.n \in {0, Half} \/ fil.pos = Units[fil.file]

-----------------------------------------------------------------------------
\* A program that waits: no call of the reader, one call that is asked for, or one that
\* goes on.
NoCall   == pc1 = "loop" /\ polls = 0 /\ requests = 0
NextCall == pc1 = "loop" /\ polls + requests = 1
InCall   == pc1 # "loop" /\ polls = 0 /\ requests = 0

\* Between two files.
Between == mode # "WAVE" /\ NoCall /\ ~fh /\ ~enable

\* The first half of the file is in the buffer.
HasFirst == \A k \in 0 .. Half - 1 : buf[k] = Cell(song, k)

\* What each step of PLAYWAVE finds.
Prepares ==
  /\ pc0 \in {"close", "unhandle", "disable", "rewind", "wait", "handle"} =>
       Between /\ timers = 0
  /\ pc0 \in {"wait", "handle", "open", "header", "first", "filled", "mode", "enable", "request", "fire"} =>
       rpos = 0 /\ timers = 0
  /\ pc0 \in {"handle", "open", "header", "first", "filled", "mode", "enable", "request", "fire"} =>
       song \in Files
  /\ pc0 \in {"open", "header", "first", "filled", "mode", "enable", "request"} => fh /\ NoCall
  /\ pc0 \in {"open", "header", "first", "filled", "mode"} => mode # "WAVE" /\ ~enable
  /\ pc0 \in {"header", "first"} => fil = [open |-> TRUE, file |-> song, pos |-> 0]
  /\ pc0 \in {"filled", "mode", "enable", "request", "fire"} =>
       fil = [open |-> TRUE, file |-> song, pos |-> Half] /\ HasFirst
  /\ pc0 \in {"mode", "enable", "request", "fire"} => wpos = Half
  /\ pc0 = "enable" => mode = "WAVE" /\ ~enable
  /\ pc0 \in {"request", "fire"} => mode = "WAVE" /\ enable
  /\ pc0 = "fire" => fh /\ (NextCall \/ (pc1 = "check" /\ InCall /\ left = Half))

\* The units that are in the buffer and that the write position does not count yet.
Ahead == IF pc1 = "advance" THEN rd.n ELSE 0

\* What is in the buffer, from the next unit that is played.
Holds ==
  /\ fil.file = song /\ next \in 0 .. Units[song]
  /\ fil.pos = next + Waiting + Ahead
  /\ Waiting + Ahead < Size
  /\ \A k \in 0 .. Waiting + Ahead - 1 : buf[(rpos + k) % Size] = Cell(song, next + k)

\* The reader is in time: half a buffer waits when a call of it begins, or the rest of
\* the file; since then at most MaxLag units were played.
InTime ==
  /\ lag \in 0 .. MaxLag /\ cur \in 0 .. lag
  /\ NoCall \/ NextCall \/ InCall
  /\ NoCall <=> ~fh
  /\ NoCall => fil.pos = Units[song]
  /\ ~NoCall => Waiting + lag >= Half
  /\ pc1 # "quit"
  /\ pc1 = "forget" => fil.pos = Units[song]
  /\ fh /\ pc1 # "forget" => fil.open
  /\ pc1 \in {"check", "load", "read", "advance"} => Waiting + cur = left
  /\ pc1 \in {"load", "read", "advance"} => left < Half
  /\ pc1 = "read" => rd.at = wpos /\ rd.cell = Cell(song, fil.pos)
                     /\ rd.n = Least(Half, Units[song] - fil.pos)
  /\ pc1 = "advance" => rd.n = Half \/ fil.pos = Units[song]
  /\ pc1 = "eof" => Waiting + cur >= Half \/ fil.pos = Units[song]

Playing ==
  song \in Files /\ enable /\ Holds /\ InTime /\ timers \in {0, 1} /\ (timers = 0 => rpos = wpos)

Course ==
  /\ ~inHandler
  /\ pc0 \in {"idle", "close", "unhandle", "disable", "rewind", "wait", "request", "fire"} \cup Opening
  /\ Prepares
  /\ pc0 = "idle" /\ mode = "WAVE" => Playing
  /\ pc0 = "idle" /\ mode # "WAVE" => Between /\ timers \in {0, 1} /\ (timers = 1 => rpos = wpos)

IInv == Types /\ Off /\ (Waits => Aligned /\ Course)
-----------------------------------------------------------------------------
(* Positions of the ring.                                                  *)

\* A position that leaves the ring at one end comes in at the other.
LEMMA Modulo ==
  ASSUME NEW a \in Int, -Size <= a, a < 2 * Size
  PROVE  a % Size = IF a < 0 THEN a + Size ELSE IF a < Size THEN a ELSE a - Size
BY WaveAssumption DEF Size

\* The ring has two halves of at least one unit.
LEMMA Halves == Half \in Nat /\ Half > 0 /\ Size = Half + Half /\ Size \in Nat
BY WaveAssumption DEF Size

\* How many units wait between the two positions.
LEMMA WaitingIs ==
  ASSUME rpos \in 0 .. Size - 1, wpos \in 0 .. Size - 1
  PROVE  /\ Waiting = IF rpos <= wpos THEN wpos - rpos ELSE wpos - rpos + Size
         /\ Waiting \in 0 .. Size - 1
         /\ Waiting = 0 <=> rpos = wpos
<1>1. wpos - rpos \in Int /\ -Size <= wpos - rpos /\ wpos - rpos < 2 * Size
  BY Halves
<1>2. Waiting = IF wpos - rpos < 0 THEN wpos - rpos + Size
                ELSE IF wpos - rpos < Size THEN wpos - rpos ELSE wpos - rpos - Size
  BY <1>1, Modulo DEF Waiting
<1> QED BY <1>2, Halves

\* The next position of the reader of the ring.
LEMMA NextPlace ==
  ASSUME NEW p \in 0 .. Size - 1
  PROVE  /\ (p + 1) % Size = IF p + 1 = Size THEN 0 ELSE p + 1
         /\ (p + 1) % Size \in 0 .. Size - 1
<1>1. p + 1 \in Int /\ -Size <= p + 1 /\ p + 1 < 2 * Size
  BY Halves
<1> DEFINE a == p + 1
<1> HIDE DEF a
<1>2. a % Size = IF a < 0 THEN a + Size ELSE IF a < Size THEN a ELSE a - Size
  BY <1>1, Modulo DEF a
<1> QED BY <1>2, Halves DEF a
-----------------------------------------------------------------------------
(* All programs: the write position.                                       *)

USE DEF main, core1, file, ring, flags, played

\* The statics have their initial values.
LEMMA SoundAtFirst == ASSUME Init PROVE Types /\ Off /\ Aligned
<1>1. Types
  <2>1. program \in Programs /\ pc0 \in Steps0 /\ pc1 \in Steps1 /\ inHandler \in BOOLEAN /\ next \in Nat
    BY DEF Init, Steps0, Steps1
  <2>4. rpos = 0 /\ wpos = 0 /\ polls = 0 /\ requests = 0 /\ timers = 0 /\ left = 0
    BY DEF Init
  <2>5. fh \in BOOLEAN /\ enable \in BOOLEAN /\ owned \in BOOLEAN /\ mode = "MUSIC" /\ song = NoFile
    BY DEF Init
  <2>6. TypeOK
    BY <2>4, <2>5, Halves, WaveAssumption DEF TypeOK
  <2>2. FileType
    BY WaveAssumption DEF Init, FileType, Closed
  <2>3. rd \in [at : 0 .. Size - 1, cell : (Files \cup {NoFile}) \X Nat, n : 0 .. Half]
    BY Halves DEF Init, Junk, Cell
  <2> QED BY <2>1, <2>2, <2>3, <2>6 DEF Types
<1>2. Off /\ Aligned
  BY DEF Init, Off, Aligned, Opening, Reading, Exhausted, Closed
<1> QED BY <1>1, <1>2

\* f_open, f_read and f_close leave the file's object sound.
LEMMA FileTypeKept == ASSUME Types, Off, Next PROVE FileType'
<1> USE Halves, WaveAssumption
<1>1. CASE UNCHANGED fil
  BY <1>1 DEF Types, FileType
<1>2. CASE CloseFile
  BY <1>2 DEF Types, FileType, CloseFile
<1>3. CASE OpenFile
  <2>1. song \in Files /\ fil' = [open |-> TRUE, file |-> song, pos |-> 0]
    BY <1>3 DEF OpenFile, Go0, Off, Opening
  <2> QED BY <2>1 DEF FileType
<1>4. CASE ReadFirst /\ fil.open
  <2>1. song \in Files /\ fil.file = song /\ fil' = [fil EXCEPT !.pos = Least(Half, Units[song])]
    BY <1>4 DEF ReadFirst, Go0, Off, Opening
  <2> QED BY <2>1 DEF Types, FileType, Least
<1>5. CASE Arrive
  BY <1>5 DEF Arrive, Types, FileType, Least
<1>6. UNCHANGED fil \/ CloseFile \/ OpenFile \/ (ReadFirst /\ fil.open) \/ Arrive
  <2>1. CASE Program \/ EndProgram \/ StartProgram \/ QuitSteps
    BY <2>1 DEF Program, PlayWave, PlayInTimer, EndProgram, StartProgram, QuitSteps, QuitClose, QuitHandle,
                QuitDisable, QuitRewind
  <2>2. CASE PlaySteps
    BY <2>2 DEF PlaySteps, WaitForQuiet, TakeHandle, ReadHeader, ReadFirst, SetWrite, SetMode, SetEnable,
                Request, StartTimer
  <2>3. CASE StopSteps
    BY <2>3 DEF StopSteps, StopMode, StopRewind, StopTimer, StopClose, StopHandle, StopFree, StopEnable
  <2>4. CASE repeating_wave_callback \/ musicint
    BY <2>4 DEF repeating_wave_callback, musicint, EndOfWave
  <2>5. CASE wave_core1_readfile
    BY <2>5 DEF wave_core1_readfile, Call, CheckQuit, CheckDone, CheckFull, CheckLow, CheckRead, QuitByReader, Forget,
                Advance, EofClose, EofMore
  <2> QED BY <2>1, <2>2, <2>3, <2>4, <2>5 DEF Next, set_wave, stop_music
<1> QED BY <1>1, <1>2, <1>3, <1>4, <1>5, <1>6

LEMMA TypesKept == ASSUME Types, Off, Next PROVE Types'
<1> USE Halves, WaveAssumption, FileTypeKept DEF Types, TypeOK, Steps0, Steps1
<1>1. CASE Program
  BY <1>1 DEF Program, PlayWave, PlayInTimer, Enter, Go0
<1>2. CASE QuitClose
  BY <1>2 DEF QuitClose, Go0
<1>3. CASE QuitHandle
  BY <1>3 DEF QuitHandle, Go0
<1>4. CASE QuitDisable
  BY <1>4 DEF QuitDisable, Go0
<1>5. CASE QuitRewind
  BY <1>5 DEF QuitRewind, Go0
<1>6. CASE WaitForQuiet
  BY <1>6 DEF WaitForQuiet, Go0
<1>7. CASE TakeHandle
  BY <1>7 DEF TakeHandle, Go0
<1>8. CASE OpenFile
  BY <1>8 DEF OpenFile, Go0
<1>9. CASE ReadHeader
  BY <1>9 DEF ReadHeader, Go0
<1>10. CASE ReadFirst
  BY <1>10 DEF ReadFirst, Go0
<1>11. CASE SetWrite
  BY <1>11 DEF SetWrite, Go0
<1>12. CASE SetMode
  BY <1>12 DEF SetMode, Go0
<1>13. CASE SetEnable
  BY <1>13 DEF SetEnable, Go0
<1>14. CASE Request
  BY <1>14 DEF Request, Go0
<1>15. CASE StartTimer
  <2>1. timers' \in 0 .. 2 /\ UNCHANGED <<rpos, wpos, polls, requests, fh, enable, owned, mode, song, left>>
    BY <1>15 DEF StartTimer, Least
  <2>2. pc0' = "idle" /\ inHandler' = FALSE /\ next' = 0 /\ UNCHANGED <<program, pc1, rd>>
    BY <1>15 DEF StartTimer
  <2> QED BY <2>1, <2>2
<1>16. CASE EndProgram
  BY <1>16 DEF EndProgram, Go0
<1>17. CASE StopMode
  BY <1>17 DEF StopMode, Go0
<1>18. CASE StopRewind
  BY <1>18 DEF StopRewind, Go0
<1>19. CASE StopTimer
  BY <1>19 DEF StopTimer, Go0, Greatest
<1>20. CASE StopClose
  BY <1>20 DEF StopClose, Go0
<1>21. CASE StopHandle
  BY <1>21 DEF StopHandle, Go0
<1>22. CASE StopFree
  BY <1>22 DEF StopFree, Go0
<1>23. CASE StopEnable
  BY <1>23 DEF StopEnable, Go0
<1>24. CASE StartProgram
  BY <1>24 DEF StartProgram, Go0
<1>25. CASE repeating_wave_callback
  BY <1>25, NextPlace DEF repeating_wave_callback, Least
<1>26. CASE musicint
  <2>1. /\ UNCHANGED <<core1, file, ring, timers, played, program>> /\ mode' = "NONE" /\ enable' = FALSE
        /\ UNCHANGED <<pc0, song, inHandler>> \/ (pc0' = "close" /\ song' \in program.files /\ inHandler' = TRUE)
    BY <1>26 DEF musicint, EndOfWave, Enter
  <2>2. program.files \subseteq Files
    OBVIOUS
  <2>3. mode' \in {"NONE", "MUSIC", "WAVE"} /\ enable' \in BOOLEAN /\ song' \in Files \cup {NoFile}
    BY <2>1, <2>2
  <2>4. /\ UNCHANGED <<rpos, wpos, polls, requests, fh, timers, owned, left, rd, pc1, next, program, fil>>
        /\ pc0' \in Steps0 /\ inHandler' \in BOOLEAN
    BY <2>1
  <2>5. TypeOK'
    BY <2>3, <2>4
  <2> QED BY <2>4, <2>5, <1>26
<1>27. CASE Call
  BY <1>27, WaitingIs DEF Call
<1>28. CASE CheckQuit
  BY <1>28 DEF CheckQuit
<1>29. CASE CheckDone
  BY <1>29 DEF CheckDone, Return, Least
<1>30. CASE CheckFull
  BY <1>30 DEF CheckFull, Return, Least
<1>31. CASE CheckRead
  <2>1. UNCHANGED <<rpos, wpos, polls, requests, fh, enable, owned, timers, mode, song, left, program, pc0,
                        inHandler, next>>
        /\ pc1' = "read"
    BY <1>31 DEF CheckRead
  <2>2. rd'.n \in 0 .. Half
    BY <1>31 DEF CheckRead, Least, FileType
  <2>3. rd' = [at |-> wpos, cell |-> <<fil.file, fil.pos>>, n |-> rd'.n]
    BY <1>31 DEF CheckRead, Cell
  <2>4. fil.file \in Files \cup {NoFile} /\ fil.pos \in Nat
    BY DEF FileType
  <2> QED BY <2>1, <2>2, <2>3, <2>4
<1>32. CASE QuitByReader
  BY <1>32 DEF QuitByReader
<1>38. CASE CheckLow
  BY <1>38 DEF CheckLow
<1>33. CASE Forget
  BY <1>33 DEF Forget, Return, Least
<1>34. CASE Arrive
  BY <1>34 DEF Arrive
<1>35. CASE Advance
  BY <1>35 DEF Advance
<1>36. CASE EofClose
  BY <1>36 DEF EofClose
<1>37. CASE EofMore
  BY <1>37 DEF EofMore, Return, Least
<1> QED BY <1>1, <1>2, <1>3, <1>4, <1>5, <1>6, <1>7, <1>8, <1>9, <1>10, <1>11, <1>12, <1>13, <1>14, <1>15, <1>16, <1>17, <1>18, <1>19, <1>20, <1>21, <1>22, <1>23, <1>24, <1>25, <1>26, <1>27, <1>28, <1>29, <1>30, <1>31, <1>32, <1>33, <1>34, <1>35, <1>36, <1>37, <1>38 DEF Next, set_wave, stop_music, QuitSteps, PlaySteps, StopSteps, wave_core1_readfile
\* Between the wait of PLAYWAVE and the store of g_wave_enable the reader is off.
LEMMA OffKept == ASSUME Types, Off, Next PROVE Off'
<1> USE DEF Off, Opening, Reading
<1>1. CASE Program
  BY <1>1 DEF Program, PlayWave, PlayInTimer, Enter
<1>2. CASE EndProgram \/ StartProgram \/ stop_music
  BY <1>2 DEF EndProgram, StartProgram, stop_music, StopSteps, StopMode, StopRewind, StopTimer, StopClose,
              StopHandle, StopFree, StopEnable, Go0, CloseFile
<1>3. CASE QuitSteps
  BY <1>3 DEF QuitSteps, QuitClose, QuitHandle, QuitDisable, QuitRewind, Go0, CloseFile
<1>4. CASE PlaySteps
  <2>1. CASE WaitForQuiet
    BY <2>1 DEF WaitForQuiet, Types, TypeOK
  <2>2. CASE TakeHandle \/ OpenFile \/ ReadHeader \/ ReadFirst
    BY <2>2 DEF TakeHandle, OpenFile, ReadHeader, ReadFirst, Go0
  <2>3. CASE SetWrite \/ SetMode \/ SetEnable \/ Request \/ StartTimer
    BY <2>3 DEF SetWrite, SetMode, SetEnable, Request, StartTimer, Go0
  <2> QED BY <1>4, <2>1, <2>2, <2>3 DEF PlaySteps
<1>5. CASE repeating_wave_callback \/ musicint
  BY <1>5 DEF repeating_wave_callback, musicint, EndOfWave, Enter
<1>6. CASE wave_core1_readfile
  <2>1. CASE Call \/ CheckQuit \/ CheckDone \/ CheckFull \/ CheckLow \/ CheckRead
    BY <2>1 DEF Call, CheckQuit, CheckDone, CheckFull, CheckLow, CheckRead, Return
  <2>2. CASE QuitByReader \/ Forget \/ Arrive \/ Advance \/ EofClose \/ EofMore
    BY <2>2 DEF QuitByReader, Forget, Arrive, Advance, EofClose, EofMore, Return, CloseFile, Types, FileType
  <2> QED BY <1>6, <2>1, <2>2 DEF wave_core1_readfile
<1> QED BY <1>1, <1>2, <1>3, <1>4, <1>5, <1>6 DEF Next, set_wave

\* Core 1 takes whole halves until the last read of a file.
LEMMA AlignedKept ==
  ASSUME Types, Off, Aligned, pc0 \in Opening => ~Reading, Next
  PROVE  Aligned'
<1> USE Halves, WaveAssumption
<1>1. CASE UNCHANGED <<wpos, fil, pc1, rd>> /\ (pc0 \in {"header", "first", "filled"} => pc0' \in {"header", "first", "filled"})
  BY <1>1 DEF Aligned, Exhausted
<1>2. CASE CloseFile /\ UNCHANGED <<wpos, rd>> /\ (pc0 = pc0' \/ pc0 \notin {"header", "first", "filled"})
           /\ (pc1' = pc1 \/ pc1' \notin {"read", "advance"})
  BY <1>2 DEF Aligned, Exhausted, CloseFile, Types, FileType
<1>3. CASE QuitRewind \/ StopRewind
  BY <1>3 DEF QuitRewind, StopRewind, Aligned, Exhausted, Go0
<1>4. CASE OpenFile
  <2>1. ~Reading /\ UNCHANGED <<pc1, rd>> /\ pc0' = "header"
    BY <1>4 DEF OpenFile, Go0, Off, Opening
  <2> QED BY <2>1 DEF Aligned, Reading
<1>5. CASE ReadHeader \/ ReadFirst
  <2>1. ~Reading /\ UNCHANGED <<pc1, rd>> 
    BY <1>5 DEF ReadHeader, ReadFirst, Go0, Off, Opening
  <2>2. pc0' \in {"first", "filled"} \/ (~fil.open /\ fil' = fil)
    BY <1>5 DEF ReadHeader, ReadFirst, Go0
  <2> QED BY <2>1, <2>2 DEF Aligned, Reading, Exhausted
<1>6. CASE SetWrite
  <2>1. ~Reading /\ UNCHANGED <<pc1, rd>> /\ wpos' = Half
    BY <1>6 DEF SetWrite, Go0, Off, Opening
  <2> QED BY <2>1 DEF Aligned, Reading
<1>7. CASE CheckRead
  <2>1. /\ rd'.at = wpos /\ rd'.n = IF fh /\ fil.open THEN Least(Half, Units[fil.file] - fil.pos) ELSE 0
        /\ pc1 = "load" /\ pc1' = "read" /\ UNCHANGED <<wpos, fil, pc0>>
    BY <1>7 DEF CheckRead
  <2>2. pc0 \notin {"header", "first", "filled"}
    BY <2>1 DEF Reading, Opening
  <2>3. wpos \in {0, Half} \/ Exhausted
    BY <2>2 DEF Aligned
  <2>4. fil.open => fil.file \in Files /\ fil.pos \in Nat /\ fil.pos <= Units[fil.file] /\ Units[fil.file] \in Nat
    BY DEF Types, FileType
  <2>5. Aligned => wpos \in {0, Half} \/ Exhausted
    BY <2>2 DEF Aligned
  <2>6. rd'.n \in {0, Half} \/ (fil.file \in Files /\ rd'.n = Units[fil.file] - fil.pos)
    BY <2>1, <2>4 DEF Least
  <2>7. rd'.at + rd'.n <= Size
    <3>1. CASE Exhausted
      <4>1. rd'.n = 0
        BY <2>1, <2>4, <3>1 DEF Exhausted, Least
      <4> QED BY <2>1, <4>1 DEF Types, TypeOK
    <3>2. CASE wpos \in {0, Half}
      <4>1. rd'.n <= Half /\ rd'.n \in Nat
        BY <2>1, <2>4 DEF Least
      <4> QED BY <2>1, <3>2, <4>1
    <3> QED BY <2>3, <3>1, <3>2
  <2>8. wpos' \in {0, Half} \/ Exhausted'
    BY <2>1, <2>3 DEF Exhausted
  <2> QED BY <2>1, <2>6, <2>7, <2>8 DEF Aligned
<1>8. CASE Arrive
  <2>1. /\ pc1 = "read" /\ pc1' = "advance" /\ UNCHANGED <<wpos, pc0, rd>>
        /\ fil' = [fil EXCEPT !.pos = Least(fil.pos + rd.n, IF fil.file = NoFile THEN 0 ELSE Units[fil.file])]
    BY <1>8 DEF Arrive
  <2>2. rd.n \in {0, Half} \/ (fil.file \in Files /\ rd.n = Units[fil.file] - fil.pos)
    BY <2>1 DEF Aligned
  <2>3. rd.n \in Nat /\ fil.pos \in Nat
    BY DEF Types, FileType
  <2>4. fil.open' = fil.open /\ fil.file' = fil.file
    BY <2>1 DEF Types, FileType
  <2>5. Exhausted => Exhausted'
    BY <2>1, <2>3, <2>4 DEF Exhausted, Types, FileType, Least
  <2>6. rd.n \in {0, Half} \/ fil.pos' = Units[fil.file]
    <3> SUFFICES ASSUME fil.file \in Files, rd.n = Units[fil.file] - fil.pos PROVE fil.pos' = Units[fil.file]
      BY <2>2
    <3> QED BY <2>1, <2>3 DEF Types, FileType, Least
  <2>7. pc1' # "read" /\ (rd'.n \in {0, Half} \/ fil'.pos = Units[fil'.file])
    BY <2>1, <2>4, <2>6
  <2>8. wpos' \in {0, Half} \/ pc0' \in {"header", "first", "filled"} \/ Exhausted'
    BY <2>1, <2>5 DEF Aligned
  <2> QED BY <2>7, <2>8 DEF Aligned
<1>9. CASE Advance
  <2>1. /\ pc1 = "advance" /\ pc1' = "eof" /\ UNCHANGED <<pc0, fil>>
        /\ wpos' = IF wpos + rd.n < Size THEN wpos + rd.n ELSE wpos + rd.n - Size
    BY <1>9 DEF Advance
  <2>2. rd.n \in {0, Half} \/ Exhausted
    BY <2>1 DEF Aligned, Exhausted
  <2>3. CASE Exhausted
    BY <2>1, <2>3 DEF Aligned, Exhausted
  <2>4. CASE ~Exhausted
    <3>1. pc0 \notin {"header", "first", "filled"}
      BY <2>1 DEF Off, Opening, Reading
    <3>2. wpos \in {0, Half} /\ rd.n \in {0, Half}
      BY <2>2, <2>4, <3>1 DEF Aligned
    <3>3. wpos' \in {0, Half}
      BY <2>1, <3>2
    <3> QED BY <2>1, <3>3 DEF Aligned
  <2> QED BY <2>3, <2>4
<1>10. CASE UNCHANGED <<wpos, fil, rd, pc0>> /\ pc1' \notin {"read", "advance"}
  BY <1>10 DEF Aligned, Exhausted
<1> DEFINE Kept == UNCHANGED <<wpos, fil, pc1, rd>>
                   /\ (pc0 \in {"header", "first", "filled"} => pc0' \in {"header", "first", "filled"})
           Closes == CloseFile /\ UNCHANGED <<wpos, rd>>
                     /\ (pc0 = pc0' \/ pc0 \notin {"header", "first", "filled"})
                     /\ (pc1' = pc1 \/ pc1' \notin {"read", "advance"})
           Leaves == UNCHANGED <<wpos, fil, rd, pc0>> /\ pc1' \notin {"read", "advance"}
<1>11. Program \/ EndProgram \/ StartProgram \/ repeating_wave_callback \/ musicint => Kept
  BY DEF Program, PlayWave, PlayInTimer, Enter, EndProgram, StartProgram, repeating_wave_callback, musicint,
         EndOfWave
<1>12. QuitHandle \/ QuitDisable \/ StopMode \/ StopTimer \/ StopHandle \/ StopFree \/ StopEnable => Kept
  BY DEF QuitHandle, QuitDisable, StopMode, StopTimer, StopHandle, StopFree, StopEnable, Go0
<1>13. WaitForQuiet \/ TakeHandle \/ SetMode \/ SetEnable \/ Request \/ StartTimer => Kept
  BY DEF WaitForQuiet, TakeHandle, SetMode, SetEnable, Request, StartTimer, Go0
<1>14. QuitClose \/ StopClose \/ QuitByReader \/ EofClose => Closes
  BY DEF QuitClose, StopClose, QuitByReader, EofClose, Go0
<1>15. Call \/ CheckQuit \/ CheckDone \/ CheckFull \/ CheckLow \/ Forget \/ EofMore => Leaves
  BY DEF Call, CheckQuit, CheckDone, CheckFull, CheckLow, Forget, EofMore, Return
<1> QED BY <1>1, <1>2, <1>3, <1>4, <1>5, <1>6, <1>7, <1>8, <1>9, <1>10, <1>11, <1>12, <1>13, <1>14, <1>15
        DEF Next, set_wave, stop_music, QuitSteps, PlaySteps, StopSteps, wave_core1_readfile

\* A step that changes nothing keeps what speaks of the state alone.
LEMMA StutterKeeps ==
  ASSUME UNCHANGED vars
  PROVE  (Types => Types') /\ (Off => Off') /\ (Aligned => Aligned')
BY DEF vars, Types, TypeOK, FileType, Off, Opening, Reading, Aligned, Exhausted

-----------------------------------------------------------------------------
(* A program that waits for its files: PLAYWAVE.                           *)

\* What the program may do never changes.
LEMMA WaitsKept == ASSUME Next PROVE program' = program /\ Waits' = Waits
<1>1. program' = program
  <2>1. CASE Program \/ EndProgram \/ StartProgram
    BY <2>1 DEF Program, PlayWave, PlayInTimer, Enter, EndProgram, StartProgram
  <2>2. CASE QuitSteps \/ PlaySteps
    BY <2>2 DEF QuitSteps, QuitClose, QuitHandle, QuitDisable, QuitRewind, PlaySteps, WaitForQuiet, TakeHandle,
                OpenFile, ReadHeader, ReadFirst, SetWrite, SetMode, SetEnable, Request, StartTimer, Go0
  <2>3. CASE StopSteps
    BY <2>3 DEF StopSteps, StopMode, StopRewind, StopTimer, StopClose, StopHandle, StopFree, StopEnable, Go0
  <2>4. CASE repeating_wave_callback \/ musicint
    BY <2>4 DEF repeating_wave_callback, musicint, EndOfWave, Enter
  <2>5. CASE wave_core1_readfile
    BY <2>5 DEF wave_core1_readfile, Call, CheckQuit, CheckDone, CheckFull, CheckLow, CheckRead, QuitByReader, Forget,
                Arrive, Advance, EofClose, EofMore, Return
  <2> QED BY <2>1, <2>2, <2>3, <2>4, <2>5 DEF Next, set_wave, stop_music
<1> QED BY <1>1 DEF Waits

\* From PLAYWAVE to its call of the reader, a program that waits has no call under way.
Unasked ==
  Waits /\ pc0 \in {"close", "unhandle", "disable", "rewind", "wait", "request"} \cup Opening => NoCall

LEMMA UnaskedKept == ASSUME Unasked, Next PROVE Unasked'
<1>1. Waits' = Waits
  BY WaitsKept
<1>2. CASE Program
  BY <1>1, <1>2 DEF Program, PlayWave, PlayInTimer, Ended, Waits, Unasked, NoCall
<1>3. CASE EndProgram \/ StartProgram \/ stop_music
  BY <1>3 DEF EndProgram, StartProgram, stop_music, StopSteps, StopMode, StopRewind, StopTimer, StopClose,
              StopHandle, StopFree, StopEnable, Go0, Unasked, Opening
<1>4. CASE QuitSteps
  BY <1>1, <1>4 DEF QuitSteps, QuitClose, QuitHandle, QuitDisable, QuitRewind, Go0, Unasked, NoCall
<1>5. CASE PlaySteps
  <2>1. CASE Request \/ StartTimer
    BY <2>1 DEF Request, StartTimer, Go0, Unasked, Opening
  <2>2. CASE WaitForQuiet \/ TakeHandle \/ OpenFile \/ ReadHeader \/ ReadFirst \/ SetWrite \/ SetMode \/ SetEnable
    BY <1>1, <2>2 DEF WaitForQuiet, TakeHandle, OpenFile, ReadHeader, ReadFirst, SetWrite, SetMode, SetEnable,
                      Go0, Unasked, Opening, NoCall
  <2> QED BY <1>5, <2>1, <2>2 DEF PlaySteps
<1>6. CASE repeating_wave_callback \/ musicint
  BY <1>1, <1>6 DEF repeating_wave_callback, musicint, EndOfWave, Waits, Unasked, NoCall
<1>7. CASE wave_core1_readfile
  <2>1. UNCHANGED pc0
    BY <1>7 DEF wave_core1_readfile, Call, CheckQuit, CheckDone, CheckFull, CheckLow, CheckRead, QuitByReader,
                Forget, Arrive, Advance, EofClose, EofMore, Return
  <2>2. ~NoCall
    <3>1. Call => ~NoCall
      BY DEF Call, NoCall
    <3>2. wave_core1_readfile => Call \/ pc1 # "loop"
      BY DEF wave_core1_readfile, CheckQuit, CheckDone, CheckFull, CheckLow, CheckRead, QuitByReader, Forget,
             Arrive, Advance, EofClose, EofMore
    <3> QED BY <1>7, <3>1, <3>2 DEF NoCall
  <2> QED BY <1>1, <2>1, <2>2 DEF Unasked
<1> QED BY <1>2, <1>3, <1>4, <1>5, <1>6, <1>7 DEF Next, set_wave

\* f_read never writes outside the buffer: for programs that wait for their files, however
\* long a read lasts; for all programs, when none outlasts the wait of PLAYWAVE (music.c:632).
THEOREM BufferHolds ==
  ASSUME SlowRead => \A p \in Programs : ~p.cuts /\ p.handlers = {} /\ ~p.ends
  PROVE  Spec => []BufferSound
<1>1. Init => Types /\ Off /\ Aligned /\ Unasked
  BY SoundAtFirst DEF Init, Unasked, Opening
<1>2. Types /\ Off /\ Aligned /\ Unasked /\ [Next]_vars => (Types /\ Off /\ Aligned /\ Unasked)'
  <2>1. ASSUME Types, Off, Aligned, Unasked, Next PROVE Types' /\ Off' /\ Aligned' /\ Unasked'
    <3>1. SlowRead => Waits
      BY <2>1 DEF Types, Waits
    <3>2. pc0 \in Opening => ~Reading
      BY <2>1, <3>1, WaveAssumption DEF Off, Unasked, NoCall, Reading
    <3> QED BY <2>1, <3>2, TypesKept, OffKept, AlignedKept, UnaskedKept
  <2>2. ASSUME Unasked, UNCHANGED vars PROVE Unasked'
    BY <2>2 DEF vars, Unasked, Waits, NoCall
  <2> QED BY <2>1, <2>2, StutterKeeps
<1>3. Types /\ Aligned => BufferSound
  BY DEF Types, Aligned, BufferSound
<1> QED BY <1>1, <1>2, <1>3, PTL DEF Spec

\* It asks for a file after the last one has ended, and its handlers play none.
LEMMA AsksInTime == ASSUME Types, Waits, Course, Program PROVE Course'
<1>1. PICK f \in program.files \cup {NoFile} : PlayWave(f)
  BY DEF Program, PlayInTimer, Waits
<1>2. /\ pc0 = "idle" /\ pc0' = "close" /\ inHandler' = FALSE /\ Ended
      /\ UNCHANGED <<core1, file, ring, flags, played>>
  BY <1>1 DEF PlayWave, Enter, Waits
<1>3. Between /\ timers = 0
  BY <1>2 DEF Course, Ended
<1>4. Between'
  BY <1>2, <1>3 DEF Between, NoCall
<1>5. Prepares'
  BY <1>2, <1>3, <1>4 DEF Prepares
<1> QED BY <1>2, <1>5 DEF Course

\* The quit of the last file finds nothing to quit.
LEMMA QuitKeeps == ASSUME Types, Course, QuitSteps PROVE Course'
<1>1. /\ pc0 \in {"close", "unhandle", "disable", "rewind"}
      /\ pc0' \in {"unhandle", "disable", "rewind", "wait"}
      /\ pc0' = "wait" => rpos' = 0
  BY DEF QuitSteps, QuitClose, QuitHandle, QuitDisable, QuitRewind, Go0
<1>2. Between /\ timers = 0 /\ ~inHandler
  BY <1>1 DEF Course, Prepares
<1>3. /\ mode' = mode /\ timers' = timers /\ inHandler' = inHandler /\ UNCHANGED core1
      /\ ~fh' /\ ~enable'
  BY <1>2 DEF QuitSteps, QuitClose, QuitHandle, QuitDisable, QuitRewind, Go0, Between
<1>4. Between' /\ timers' = 0 /\ ~inHandler'
  BY <1>2, <1>3 DEF Between, NoCall
<1>5. Prepares'
  BY <1>1, <1>4 DEF Prepares
<1> QED BY <1>1, <1>4, <1>5 DEF Course

\* The first half of the file comes into the buffer, and the reader is asked for.
LEMMA PlayKeeps ==
  ASSUME Types, Waits, Course, PlaySteps, \A f \in Files : Half <= Units[f]
  PROVE  Course'
<1>1. CASE WaitForQuiet
  <2>1. /\ pc0 = "wait" /\ pc0' = IF song = NoFile THEN "idle" ELSE "handle"
        /\ ~inHandler' /\ UNCHANGED <<song, core1, file, ring, flags, played>>
    BY <1>1 DEF WaitForQuiet, Course
  <2>2. Between' /\ timers' = 0 /\ rpos' = 0 /\ (pc0' = "handle" => song' \in Files)
    BY <2>1 DEF Course, Prepares, Between, NoCall, Types, TypeOK
  <2>3. Prepares'
    BY <2>1, <2>2 DEF Prepares
  <2> QED BY <2>1, <2>2, <2>3 DEF Course, Opening, Between
<1>2. CASE TakeHandle
  <2>1. /\ pc0 = "handle" /\ pc0' = "open" /\ fh' = TRUE
        /\ UNCHANGED <<inHandler, song, core1, rpos, flags>>
    BY <1>2 DEF TakeHandle, Go0
  <2>2. Between /\ timers = 0 /\ rpos = 0 /\ song \in Files /\ ~inHandler
    BY <2>1 DEF Course, Prepares
  <2>3. Prepares'
    BY <2>1, <2>2 DEF Prepares, Between, NoCall
  <2> QED BY <2>1, <2>2, <2>3 DEF Course, Opening
<1>3. CASE OpenFile
  <2>1. /\ pc0 = "open" /\ pc0' = "header" /\ fil' = [open |-> TRUE, file |-> song, pos |-> 0]
        /\ UNCHANGED <<inHandler, song, fh, core1, rpos, flags>>
    BY <1>3 DEF OpenFile, Go0
  <2>2. timers = 0 /\ rpos = 0 /\ song \in Files /\ ~inHandler /\ fh /\ NoCall /\ mode # "WAVE" /\ ~enable
    BY <2>1 DEF Course, Prepares
  <2>3. Prepares'
    BY <2>1, <2>2 DEF Prepares, NoCall
  <2> QED BY <2>1, <2>2, <2>3 DEF Course, Opening
<1>4. CASE ReadHeader
  <2>1. pc0 = "header"
    BY <1>4 DEF ReadHeader, Go0
  <2>2. /\ timers = 0 /\ rpos = 0 /\ song \in Files /\ ~inHandler /\ fh /\ NoCall /\ mode # "WAVE" /\ ~enable
        /\ fil = [open |-> TRUE, file |-> song, pos |-> 0]
    BY <2>1 DEF Course, Prepares
  <2>3. pc0' = "first" /\ UNCHANGED <<inHandler, song, fh, core1, rpos, flags, fil>>
    BY <1>4, <2>2 DEF ReadHeader, Go0
  <2>4. Prepares'
    BY <2>2, <2>3 DEF Prepares, NoCall
  <2> QED BY <2>2, <2>3, <2>4 DEF Course, Opening
<1>5. CASE ReadFirst
  <2>1. pc0 = "first"
    BY <1>5 DEF ReadFirst, Go0
  <2>2. /\ timers = 0 /\ rpos = 0 /\ song \in Files /\ ~inHandler /\ fh /\ NoCall /\ mode # "WAVE" /\ ~enable
        /\ fil = [open |-> TRUE, file |-> song, pos |-> 0]
    BY <2>1 DEF Course, Prepares
  <2>3. Least(Half, Units[song]) = Half
    BY <2>2, Halves, WaveAssumption DEF Least
  <2>4. /\ pc0' = "filled" /\ UNCHANGED <<inHandler, song, fh, core1, rpos, flags>>
        /\ buf' = Filled(0, Cell(song, 0), Half)
        /\ fil' = [open |-> TRUE, file |-> song, pos |-> Half]
    BY <1>5, <2>2, <2>3 DEF ReadFirst, Go0
  <2>5. HasFirst'
    <3> SUFFICES ASSUME NEW k \in 0 .. Half - 1 PROVE buf'[k] = Cell(song, k)
      BY <2>4 DEF HasFirst
    <3>1. k \in 0 .. Size - 1 /\ k \in 0 .. 0 + Half - 1 /\ 0 + k - 0 = k
      BY Halves
    <3> QED BY <2>4, <3>1 DEF Filled, Cell
  <2>6. Prepares'
    BY <2>2, <2>4, <2>5 DEF Prepares, NoCall
  <2> QED BY <2>2, <2>4, <2>6 DEF Course, Opening
<1>6. CASE SetWrite
  <2>1. pc0 = "filled" /\ pc0' = "mode" /\ wpos' = Half /\ UNCHANGED <<inHandler, song, fh, core1, rpos, flags, fil, buf>>
    BY <1>6 DEF SetWrite, Go0
  <2>2. /\ timers = 0 /\ rpos = 0 /\ song \in Files /\ ~inHandler /\ fh /\ NoCall /\ mode # "WAVE" /\ ~enable
        /\ fil = [open |-> TRUE, file |-> song, pos |-> Half] /\ HasFirst
    BY <2>1 DEF Course, Prepares
  <2>3. HasFirst'
    BY <2>1, <2>2 DEF HasFirst
  <2>4. Prepares'
    BY <2>1, <2>2, <2>3 DEF Prepares, NoCall
  <2> QED BY <2>1, <2>2, <2>4 DEF Course, Opening
<1>7. CASE SetMode \/ SetEnable
  <2>1. /\ \/ pc0 = "mode" /\ pc0' = "enable" /\ enable' = enable
           \/ pc0 = "enable" /\ pc0' = "request" /\ enable' = TRUE /\ mode' = mode
        /\ pc0 = "mode" => mode' = "WAVE"
        /\ UNCHANGED <<inHandler, song, fh, core1, rpos, wpos, timers, fil, buf>>
    BY <1>7 DEF SetMode, SetEnable, Go0
  <2>2. /\ timers = 0 /\ rpos = 0 /\ wpos = Half /\ song \in Files /\ ~inHandler /\ fh /\ NoCall
        /\ fil = [open |-> TRUE, file |-> song, pos |-> Half] /\ HasFirst
        /\ pc0 = "mode" => ~enable
        /\ pc0 = "enable" => mode = "WAVE"
    BY <2>1 DEF Course, Prepares
  <2>3. HasFirst' /\ NoCall'
    BY <2>1, <2>2 DEF HasFirst, NoCall
  <2>4. Prepares'
    BY <2>1, <2>2, <2>3 DEF Prepares
  <2> QED BY <2>1, <2>2, <2>4 DEF Course, Opening
<1>8. CASE Request
  <2>1. /\ pc0 = "request" /\ pc0' = "fire" /\ requests' = 1 /\ UNCHANGED <<pc1, polls>>
        /\ UNCHANGED <<inHandler, song, fh, rpos, wpos, flags, fil, buf>>
    BY <1>8 DEF Request, Go0
  <2>2. /\ timers = 0 /\ rpos = 0 /\ wpos = Half /\ song \in Files /\ ~inHandler /\ fh /\ NoCall
        /\ fil = [open |-> TRUE, file |-> song, pos |-> Half] /\ HasFirst /\ mode = "WAVE" /\ enable
    BY <2>1 DEF Course, Prepares
  <2>3. HasFirst' /\ NextCall'
    BY <2>1, <2>2 DEF HasFirst, NoCall, NextCall
  <2>4. Prepares'
    BY <2>1, <2>2, <2>3 DEF Prepares
  <2> QED BY <2>1, <2>2, <2>4 DEF Course
<1>9. CASE StartTimer
  <2>1. /\ pc0 = "fire" /\ pc0' = "idle" /\ inHandler' = FALSE /\ timers' = Least(timers + 1, 2)
        /\ next' = 0 /\ lag' = 0 /\ cur' = 0
        /\ UNCHANGED <<song, enable, mode, core1, file, ring>>
    BY <1>9 DEF StartTimer
  <2>2. /\ timers = 0 /\ rpos = 0 /\ wpos = Half /\ song \in Files
        /\ fil = [open |-> TRUE, file |-> song, pos |-> Half] /\ HasFirst /\ mode = "WAVE" /\ enable
        /\ fh /\ (NextCall \/ (pc1 = "check" /\ InCall /\ left = Half))
    BY <2>1 DEF Course, Prepares
  <2>3. Waiting = Half /\ Waiting' = Half
    <3>1. Waiting = Half
      BY <2>2, WaitingIs, Halves DEF Types, TypeOK
    <3> QED BY <2>1, <3>1 DEF Waiting
  <2>4. Ahead' = 0
    BY <2>1, <2>2 DEF Ahead, NextCall
  <2>5. timers' = 1
    BY <2>1, <2>2 DEF Least
  <2>6. Holds'
    <3>1. \A k \in 0 .. Half - 1 : buf'[(rpos' + k) % Size] = Cell(song', next' + k)
      <4> SUFFICES ASSUME NEW k \in 0 .. Half - 1 PROVE buf'[(rpos' + k) % Size] = Cell(song', next' + k)
        OBVIOUS
      <4>1. k \in Int /\ -Size <= k /\ k < 2 * Size /\ rpos' + k = k /\ next' + k = k
        BY <2>1, <2>2, Halves
      <4>2. k % Size = k
        BY <4>1, Modulo, Halves
      <4> QED BY <2>1, <2>2, <4>1, <4>2 DEF HasFirst
    <3>2. fil'.file = song' /\ next' \in 0 .. Units[song'] /\ fil'.pos = next' + Waiting' + Ahead'
      BY <2>1, <2>2, <2>3, <2>4, Halves, WaveAssumption
    <3>3. Waiting' + Ahead' < Size /\ Waiting' + Ahead' - 1 = Half - 1
      BY <2>3, <2>4, Halves
    <3>4. \A k \in 0 .. Waiting' + Ahead' - 1 : buf'[(rpos' + k) % Size] = Cell(song', next' + k)
      BY <3>1, <3>3
    <3> QED BY <3>2, <3>3, <3>4 DEF Holds
  <2>7. InTime'
    <3>1. lag' \in 0 .. MaxLag /\ cur' \in 0 .. lag' /\ Waiting' + lag' >= Half
      BY <2>1, <2>3, Halves, WaveAssumption
    <3>2. fh' /\ fil'.open /\ ~NoCall' /\ (NextCall' \/ (pc1' = "check" /\ InCall'))
      BY <2>1, <2>2 DEF NoCall, NextCall, InCall
    <3>3. pc1' \in {"loop", "check"} /\ (pc1' = "check" => Waiting' + cur' = left')
      BY <2>1, <2>2, <2>3, Halves DEF NextCall
    <3> QED BY <3>1, <3>2, <3>3 DEF InTime
  <2>8. Playing'
    BY <2>1, <2>2, <2>5, <2>6, <2>7 DEF Playing
  <2> QED BY <2>1, <2>2, <2>8 DEF Course, Prepares
<1> QED BY <1>1, <1>2, <1>3, <1>4, <1>5, <1>6, <1>7, <1>8, <1>9 DEF PlaySteps
-----------------------------------------------------------------------------
(* ... the interrupts.                                                     *)

\* A sample is played while the reader is in time, or the last ones are.
LEMMA SampleKeeps ==
  ASSUME Types, Course, repeating_wave_callback, MaxLag < Half
  PROVE  /\ Course'
         /\ (mode = "WAVE" /\ next' = next + 1 => buf[rpos] = Cell(song, next))
<1>1. /\ pc0' = pc0 /\ timers > 0
      /\ UNCHANGED <<core1, file, buf, wpos, owned, enable, mode, song, inHandler>>
  BY DEF repeating_wave_callback
<1>2. pc0 = "idle"
  BY <1>1 DEF Course, Prepares, Opening
<1>3. Prepares'
  BY <1>1, <1>2 DEF Prepares
<1>4. ~inHandler' /\ pc0' = "idle"
  BY <1>1, <1>2 DEF Course
<1>5. CASE mode # "WAVE"
  <2>1. Between /\ timers = 1 /\ rpos = wpos
    BY <1>1, <1>2, <1>5 DEF Course
  <2>2. timers' = 0
    BY <2>1 DEF repeating_wave_callback
  <2>3. Between'
    BY <1>1, <2>1 DEF Between, NoCall
  <2> QED BY <1>1, <1>3, <1>4, <1>5, <2>2, <2>3 DEF Course
<1>6. CASE mode = "WAVE" /\ rpos = wpos
  <2>1. timers' = timers - 1 /\ UNCHANGED <<rpos, next, lag, cur>> /\ timers \in {0, 1}
    BY <1>2, <1>6 DEF repeating_wave_callback, Course, Playing
  <2>2. Playing
    BY <1>2, <1>6 DEF Course
  <2>3. timers' = 0
    BY <1>1, <2>1
  <2>4. Waiting' = Waiting /\ Ahead' = Ahead
    BY <1>1, <2>1 DEF Waiting, Ahead
  <2>5. Holds'
    BY <1>1, <2>1, <2>2, <2>4 DEF Playing, Holds
  <2>6. InTime'
    BY <1>1, <2>1, <2>2, <2>4 DEF Playing, InTime, NoCall, NextCall, InCall
  <2>7. Playing'
    BY <1>1, <1>6, <2>1, <2>2, <2>3, <2>5, <2>6 DEF Playing
  <2>8. next' # next + 1
    BY <2>1, <2>2 DEF Playing, Holds
  <2> QED BY <1>1, <1>3, <1>4, <1>6, <2>7, <2>8 DEF Course
<1>7. CASE mode = "WAVE" /\ rpos # wpos
  <2>1. /\ lag < MaxLag \/ NoCall
        /\ rpos' = (rpos + 1) % Size
        /\ next' = Least(next + 1, MaxUnits + 1)
        /\ lag' = Least(lag + 1, MaxLag) /\ cur' = Least(cur + 1, MaxLag)
        /\ timers' = timers
    BY <1>7 DEF repeating_wave_callback, NoCall
  <2>2. Playing
    BY <1>2, <1>7 DEF Course
  <2>3. rpos \in 0 .. Size - 1 /\ wpos \in 0 .. Size - 1
    BY DEF Types, TypeOK
  <2>4. Waiting > 0 /\ Waiting \in 0 .. Size - 1 /\ Waiting' = Waiting - 1
    <3>1. PICK p \in 0 .. Size - 1 : p = rpos' /\ p = IF rpos + 1 = Size THEN 0 ELSE rpos + 1
      BY <2>1, <2>3, NextPlace
    <3>2. Waiting = IF rpos <= wpos THEN wpos - rpos ELSE wpos - rpos + Size
      BY <2>3, WaitingIs
    <3>3. Waiting' = (wpos - p) % Size
      BY <1>1, <3>1 DEF Waiting
    <3>4. wpos - p \in Int /\ -Size <= wpos - p /\ wpos - p < 2 * Size
      BY <2>3, Halves
    <3>5. (wpos - p) % Size = IF wpos - p < 0 THEN wpos - p + Size ELSE IF wpos - p < Size THEN wpos - p
                              ELSE wpos - p - Size
      <4> DEFINE a == wpos - p
      <4> HIDE DEF a
      <4>1. a % Size = IF a < 0 THEN a + Size ELSE IF a < Size THEN a ELSE a - Size
        BY <3>4, Modulo DEF a
      <4> QED BY <4>1 DEF a
    <3>6. (wpos - p) % Size = Waiting - 1 /\ Waiting > 0 /\ Waiting \in 0 .. Size - 1
      BY <1>7, <2>3, <3>1, <3>2, <3>5, Halves
    <3> QED BY <3>3, <3>6
  <2>5. Ahead' = Ahead /\ Ahead \in Nat
    BY <1>1 DEF Ahead, Types, Types
  <2>6. next \in 0 .. Units[song] /\ fil.pos = next + Waiting + Ahead /\ fil.file = song /\ song \in Files
        /\ fil.pos <= Units[song] /\ Units[song] \in 0 .. MaxUnits
    BY <2>2, WaitingIs, WaveAssumption DEF Playing, Holds, Types, FileType
  <2>7. next' = next + 1 /\ next' \in 0 .. Units[song]
    BY <2>1, <2>4, <2>5, <2>6, WaveAssumption DEF Least
  <2>8. buf[rpos] = Cell(song, next)
    <3>1. 0 \in 0 .. Waiting + Ahead - 1
      BY <2>4, <2>5
    <3>2. buf[(rpos + 0) % Size] = Cell(song, next + 0)
      BY <2>2, <3>1 DEF Playing, Holds
    <3>3. (rpos + 0) % Size = rpos /\ next + 0 = next
      <4>1. rpos \in Int /\ -Size <= rpos /\ rpos < 2 * Size /\ rpos + 0 = rpos
        BY <2>3, Halves
      <4>2. rpos % Size = rpos
        BY <2>3, <4>1, Modulo, Halves
      <4> QED BY <4>1, <4>2, <2>6
    <3> QED BY <3>2, <3>3
  <2>9. Holds'
    <3>1. ASSUME NEW k \in 0 .. Waiting' + Ahead' - 1
          PROVE  buf'[(rpos' + k) % Size] = Cell(song', next' + k)
      <4>1. k + 1 \in 0 .. Waiting + Ahead - 1 /\ k \in 0 .. Size - 1
        BY <2>2, <2>4, <2>5, Halves DEF Playing, Holds
      <4>2. buf[(rpos + (k + 1)) % Size] = Cell(song, next + (k + 1))
        BY <2>2, <4>1 DEF Playing, Holds
      <4>3. (rpos + (k + 1)) % Size = (rpos' + k) % Size
        <5>1. PICK p \in 0 .. Size - 1 : p = rpos' /\ p = IF rpos + 1 = Size THEN 0 ELSE rpos + 1
          BY <2>1, <2>3, NextPlace
        <5> DEFINE a == rpos + (k + 1)
                   b == p + k
        <5>2. /\ a \in Int /\ -Size <= a /\ a < 2 * Size /\ 0 <= a
              /\ b \in Int /\ -Size <= b /\ b < 2 * Size /\ 0 <= b
              /\ a = b \/ (p = 0 /\ a = b + Size /\ b < Size)
          <6>1. k + 1 <= Size - 1 \/ rpos + (k + 1) < 2 * Size
            BY <2>2, <2>4, <2>5, <4>1, Halves DEF Playing, Holds
          <6> QED BY <2>3, <4>1, <5>1, <6>1, Halves
        <5> HIDE DEF a, b
        <5>3. a % Size = (IF a < 0 THEN a + Size ELSE IF a < Size THEN a ELSE a - Size)
              /\ b % Size = (IF b < 0 THEN b + Size ELSE IF b < Size THEN b ELSE b - Size)
          BY <5>2, Modulo
        <5>4. a % Size = b % Size
          BY <5>2, <5>3, Halves
        <5> QED BY <5>1, <5>4 DEF a, b
      <4>4. next + (k + 1) = next' + k
        BY <2>6, <2>7, <4>1
      <4> QED BY <1>1, <4>2, <4>3, <4>4
    <3>2. fil'.file = song' /\ next' \in 0 .. Units[song'] /\ fil'.pos = next' + Waiting' + Ahead'
          /\ Waiting' + Ahead' < Size
      BY <1>1, <2>2, <2>4, <2>5, <2>6, <2>7, Halves DEF Playing, Holds
    <3> QED BY <3>1, <3>2 DEF Holds
  <2>10. InTime'
    <3>1. UNCHANGED <<NoCall, NextCall, InCall, pc1, fh, fil, left, rd, wpos, song>>
      BY <1>1 DEF NoCall, NextCall, InCall
    <3>2. InTime
      BY <2>2 DEF Playing
    <3>3. PICK l, c : l = lag' /\ c = cur' /\ l = Least(lag + 1, MaxLag) /\ c = Least(cur + 1, MaxLag)
      BY <2>1
    <3>4. lag \in 0 .. MaxLag /\ cur \in 0 .. lag
      BY <3>2 DEF InTime
    <3>5. l \in 0 .. MaxLag /\ c \in 0 .. l
      BY <3>3, <3>4, WaveAssumption DEF Least
    <3>6. ~NoCall => l = lag + 1 /\ c = cur + 1
      BY <2>1, <3>3, <3>4, WaveAssumption DEF Least
    <3>7. pc1 # "loop" => ~NoCall
      BY DEF NoCall
    <3>8. PICK w : w = Waiting' /\ w = Waiting - 1 /\ w \in Int
      BY <2>4
    <3>9. ~NoCall => w + l >= Half
      BY <2>4, <3>2, <3>4, <3>6, <3>8, Halves DEF InTime
    <3>10. pc1 \in {"check", "load", "read", "advance"} => w + c = left
      BY <2>4, <3>2, <3>4, <3>6, <3>7, <3>8 DEF InTime
    <3>11. pc1 = "eof" => w + c >= Half \/ fil.pos = Units[song]
      BY <2>4, <3>2, <3>4, <3>6, <3>7, <3>8, Halves DEF InTime
    <3> QED BY <3>1, <3>2, <3>3, <3>5, <3>8, <3>9, <3>10, <3>11 DEF InTime
  <2>11. Playing'
    BY <1>1, <2>1, <2>2, <2>9, <2>10, <1>7 DEF Playing
  <2> QED BY <1>1, <1>3, <1>4, <1>7, <2>8, <2>11 DEF Course
<1> QED BY <1>5, <1>6, <1>7

\* The buffer is found empty when the whole file was played.
LEMMA EmptyAtEnd ==
  ASSUME Types, Course, mode = "WAVE", wpos = rpos, MaxLag < Half
  PROVE  pc0 = "idle" /\ NoCall /\ ~fh /\ next = Units[song] /\ timers \in {0, 1}
<1>1. pc0 = "idle"
  BY Halves DEF Course, Prepares, Opening, Between
<1>2. Playing
  BY <1>1 DEF Course
<1>3. Waiting = 0
  BY WaitingIs DEF Types, TypeOK
<1>4. NoCall
  <2>1. lag \in 0 .. MaxLag
    BY <1>2 DEF Playing, InTime
  <2>2. ~(Waiting + lag >= Half)
    BY <1>3, <2>1, Halves, WaveAssumption
  <2> QED BY <1>2, <2>2 DEF Playing, InTime
<1>5. ~fh /\ fil.pos = Units[song] /\ Ahead = 0
  BY <1>2, <1>4 DEF Playing, InTime, NoCall, Ahead
<1>6. next = Units[song]
  BY <1>2, <1>3, <1>5, WaveAssumption DEF Playing, Holds
<1> QED BY <1>1, <1>2, <1>4, <1>5, <1>6 DEF Playing

\* The tick notices it.
LEMMA TickKeeps ==
  ASSUME Types, Waits, Course, musicint, MaxLag < Half
  PROVE  Course' /\ next = Units[song]
<1>1. /\ mode = "WAVE" /\ wpos = rpos /\ mode' = "NONE" /\ enable' = FALSE
      /\ UNCHANGED <<main, core1, file, ring, timers, played>>
  BY DEF musicint, EndOfWave, Waits
<1>2. pc0 = "idle" /\ NoCall /\ ~fh /\ next = Units[song] /\ timers \in {0, 1} /\ ~inHandler
  BY <1>1, EmptyAtEnd DEF Course
<1>3. Between'
  BY <1>1, <1>2 DEF Between, NoCall
<1>4. Prepares'
  BY <1>1, <1>2 DEF Prepares
<1> QED BY <1>1, <1>2, <1>3, <1>4 DEF Course
-----------------------------------------------------------------------------
(* ... the reader on core 1.                                               *)

\* A call begins where one is asked for, and tests what it finds.
LEMMA CallSteps ==
  ASSUME wave_core1_readfile
  PROVE  /\ pc1 = "loop" => Call
         /\ pc1 = "check" => CheckQuit \/ CheckDone \/ CheckFull \/ CheckLow
BY DEF wave_core1_readfile, Call, CheckQuit, CheckDone, CheckFull, CheckLow, CheckRead, QuitByReader, Forget, Arrive,
       Advance, EofClose, EofMore

\* The first calls may come before the sample interrupt: they find half a buffer.
LEMMA FirstCallsKeep ==
  ASSUME Types, Course, wave_core1_readfile, ~(pc0 = "idle" /\ mode = "WAVE")
  PROVE  Course'
<1>1. pc0 = "fire"
  <2>1. ~NoCall
    BY CallSteps DEF NoCall, Call
  <2> QED BY <2>1 DEF Course, Prepares, Between, Opening
<1>2. /\ rpos = 0 /\ timers = 0 /\ song \in Files /\ wpos = Half /\ mode = "WAVE" /\ enable /\ ~inHandler
      /\ fil = [open |-> TRUE, file |-> song, pos |-> Half] /\ HasFirst
      /\ fh /\ (NextCall \/ (pc1 = "check" /\ InCall /\ left = Half))
  BY <1>1 DEF Course, Prepares
<1>3. CASE NextCall
  <2>1. Call
    BY <1>3, CallSteps DEF NextCall
  <2>2. /\ pc1' = "check" /\ left' = Waiting
        /\ UNCHANGED <<main, file, ring, flags>>
    BY <2>1 DEF Call
  <2>3. Waiting = Half
    BY <1>2, WaitingIs, Halves DEF Types, TypeOK
  <2>4. polls' = 0 /\ requests' = 0
    BY <1>3, <2>1 DEF Call, NextCall, Types, TypeOK
  <2>5. HasFirst' /\ InCall'
    BY <1>2, <2>2, <2>4 DEF HasFirst, InCall
  <2>6. Prepares'
    BY <1>1, <1>2, <2>2, <2>3, <2>5 DEF Prepares
  <2> QED BY <1>1, <1>2, <2>2, <2>6 DEF Course
<1>4. CASE pc1 = "check" /\ InCall /\ left = Half
  <2>1. CheckFull
    <3>1. left # 0 /\ ~(left < Half)
      BY <1>4, Halves
    <3>2. ~CheckQuit /\ ~CheckDone /\ ~CheckLow
      BY <1>2, <3>1 DEF CheckQuit, CheckDone, CheckLow
    <3> QED BY <1>4, <3>2, CallSteps
  <2>2. /\ pc1' = "loop" /\ requests' = requests /\ polls' = Least(polls + 1, CALLBACK_BUFFER_NUM)
        /\ UNCHANGED <<main, file, ring, flags>>
    BY <2>1 DEF CheckFull, Return
  <2>3. HasFirst' /\ NextCall'
    <3>1. polls' = 1 /\ requests' = 0
      BY <1>4, <2>2, WaveAssumption DEF InCall, Least
    <3> QED BY <1>2, <2>2, <3>1 DEF HasFirst, NextCall
  <2>4. Prepares'
    BY <1>1, <1>2, <2>2, <2>3 DEF Prepares
  <2> QED BY <1>1, <1>2, <2>2, <2>4 DEF Course
<1> QED BY <1>2, <1>3, <1>4

\* While a file is played a call of the reader keeps what is in the buffer, and ends in time.
LEMMA CallsKeep ==
  ASSUME Types, Aligned, Playing, wave_core1_readfile, MaxLag < Half
  PROVE  Playing'
<1>t. /\ rpos \in 0 .. Size - 1 /\ wpos \in 0 .. Size - 1 /\ Waiting \in 0 .. Size - 1
      /\ polls \in Nat /\ requests \in Nat /\ rd.n \in 0 .. Half /\ left \in 0 .. Size - 1
      /\ song \in Files /\ Units[song] \in Nat /\ next \in 0 .. Units[song] /\ fil.file = song
      /\ fil.pos \in 0 .. Units[song]
  BY WaitingIs, WaveAssumption DEF Types, TypeOK, FileType, Playing, Holds
<1>m. Half \in Nat /\ Half > 0 /\ Size = Half + Half /\ MaxLag \in Nat /\ CALLBACK_BUFFER_NUM \in Nat
      /\ CALLBACK_BUFFER_NUM > 0
  BY Halves, WaveAssumption
<1>i. lag \in 0 .. MaxLag /\ cur \in 0 .. lag
  BY DEF Playing, InTime
<1>k. ~NoCall => Waiting > 0 /\ fh
  BY <1>t, <1>m, <1>i DEF Playing, InTime
\* A step that leaves the ring, the file and the song alone.
<1>h. ASSUME UNCHANGED <<rpos, wpos, buf, next, song, fil>>, Ahead' = Ahead PROVE Holds' /\ Waiting' = Waiting
  <2>1. Waiting' = Waiting
    BY <1>h DEF Waiting
  <2> QED BY <1>h, <2>1 DEF Playing, Holds
<1>1. CASE Call
  <2>1. /\ pc1 = "loop" /\ pc1' = "check" /\ left' = Waiting /\ cur' = 0
        /\ UNCHANGED <<rd, main, file, ring, flags, next, lag, rested>>
    BY <1>1 DEF Call
  <2>2. ~NoCall /\ polls' = 0 /\ requests' = 0
    BY <1>1, <1>t DEF Call, NoCall, NextCall, InCall, Playing, InTime
  <2>3. Holds' /\ Waiting' = Waiting
    BY <1>h, <2>1 DEF Ahead
  <2>4. InTime'
    <3>1. ~NoCall' /\ InCall'
      BY <2>1, <2>2 DEF NoCall, InCall
    <3>2. lag' \in 0 .. MaxLag /\ cur' \in 0 .. lag' /\ Waiting' + cur' = left' /\ Waiting' + lag' >= Half
      BY <1>i, <1>t, <2>1, <2>2, <2>3 DEF Playing, InTime
    <3>3. fh' /\ fil'.open
      BY <2>1, <2>2, <1>k DEF Playing, InTime
    <3> QED BY <2>1, <3>1, <3>2, <3>3 DEF InTime
  <2> QED BY <2>1, <2>3, <2>4 DEF Playing
<1>2. CASE CheckQuit
  BY <1>2 DEF CheckQuit, Playing
<1>3. CASE CheckDone
  <2>1. pc1 = "check" /\ ~NoCall /\ (left = 0 \/ ~fh)
    BY <1>3 DEF CheckDone, NoCall
  <2>2. Waiting + cur = left
    BY <2>1 DEF Playing, InTime
  <2> QED BY <2>1, <2>2, <1>k, <1>t, <1>i
<1>4. CASE CheckFull
  <2>1. /\ pc1 = "check" /\ left >= Half /\ fh /\ pc1' = "loop" /\ requests' = requests
        /\ polls' = Least(polls + 1, CALLBACK_BUFFER_NUM) /\ lag' = cur
        /\ UNCHANGED <<main, file, ring, flags, next, cur>>
    BY <1>4 DEF CheckFull, Return
  <2>2. Holds' /\ Waiting' = Waiting
    BY <1>h, <2>1 DEF Ahead
  <2>3. InTime'
    <3>1. InCall
      BY <2>1 DEF Playing, InTime, NoCall, NextCall
    <3>2. polls' = 1 /\ requests' = 0
      BY <1>m, <2>1, <3>1 DEF InCall, Least
    <3>3. NextCall' /\ ~NoCall'
      BY <2>1, <3>2 DEF NextCall, NoCall
    <3>4. lag' \in 0 .. MaxLag /\ cur' \in 0 .. lag' /\ Waiting' + lag' >= Half
      BY <1>i, <1>t, <1>m, <2>1, <2>2 DEF Playing, InTime
    <3>5. fh' /\ fil'.open
      BY <2>1 DEF Playing, InTime
    <3> QED BY <2>1, <3>3, <3>4, <3>5 DEF InTime
  <2> QED BY <2>1, <2>2, <2>3 DEF Playing
<1>12. CASE CheckLow
  <2>1. /\ pc1 = "check" /\ left < Half /\ fh /\ pc1' = "load"
        /\ UNCHANGED <<left, rd, polls, requests, main, file, ring, flags, played>>
    BY <1>12 DEF CheckLow
  <2>2. Holds' /\ Waiting' = Waiting
    BY <1>h, <2>1 DEF Ahead
  <2>3. InCall /\ fil.open /\ ~NoCall /\ Waiting + cur = left /\ Waiting + lag >= Half
    BY <2>1 DEF Playing, InTime, NoCall, NextCall
  <2>4. InCall' /\ ~NoCall'
    BY <2>1, <2>3 DEF InCall, NoCall
  <2>5. InTime'
    BY <1>i, <2>1, <2>2, <2>3, <2>4 DEF InTime
  <2> QED BY <2>1, <2>2, <2>5 DEF Playing
<1>5. CASE CheckRead
  <2>1. /\ pc1 = "load" /\ pc1' = "read"
        /\ rd' = [at |-> wpos, cell |-> Cell(fil.file, fil.pos),
                  n |-> IF fh /\ fil.open THEN Least(Half, Units[fil.file] - fil.pos) ELSE 0]
        /\ UNCHANGED <<left, polls, requests, main, file, ring, flags, played>>
    BY <1>5 DEF CheckRead
  <2>2. Holds' /\ Waiting' = Waiting
    BY <1>h, <2>1 DEF Ahead
  <2>3. InCall /\ fh /\ fil.open /\ ~NoCall /\ left < Half /\ Waiting + cur = left /\ Waiting + lag >= Half
    BY <2>1 DEF Playing, InTime, NoCall, NextCall
  <2>4. InCall' /\ ~NoCall'
    BY <2>1, <2>3 DEF InCall, NoCall
  <2>5. rd'.at = wpos' /\ rd'.cell = Cell(song', fil'.pos) /\ rd'.n = Least(Half, Units[song'] - fil'.pos)
    BY <1>t, <2>1, <2>3 DEF Cell, Least
  <2>6. InTime'
    BY <1>i, <2>1, <2>2, <2>3, <2>4, <2>5 DEF InTime
  <2> QED BY <2>1, <2>2, <2>6 DEF Playing
<1>6. CASE QuitByReader
  BY <1>6 DEF QuitByReader, Playing, InTime
<1>7. CASE Forget
  <2>1. /\ pc1 = "forget" /\ pc1' = "loop" /\ fh' = FALSE /\ polls' = polls /\ requests' = requests /\ lag' = cur
        /\ UNCHANGED <<fil, main, ring, flags, next, cur>>
    BY <1>7 DEF Forget, Return
  <2>2. Holds' /\ Waiting' = Waiting
    BY <1>h, <2>1 DEF Ahead
  <2>3. InCall
    BY <2>1 DEF Playing, InTime, NoCall, NextCall
  <2>4. NoCall'
    BY <2>1, <2>3 DEF InCall, NoCall
  <2>5. fil'.pos = Units[song']
    BY <2>1 DEF Playing, InTime
  <2>6. lag' \in 0 .. MaxLag /\ cur' \in 0 .. lag'
    BY <1>i, <1>m, <2>1
  <2>7. InTime'
    BY <2>1, <2>4, <2>5, <2>6 DEF InTime
  <2> QED BY <2>1, <2>2, <2>7 DEF Playing
<1>8. CASE Arrive
  <2>1. /\ pc1 = "read" /\ pc1' = "advance" /\ buf' = Filled(rd.at, rd.cell, rd.n)
        /\ fil' = [fil EXCEPT !.pos = Least(fil.pos + rd.n, Units[song])]
        /\ UNCHANGED <<fh, rpos, wpos, left, rd, polls, requests, main, flags, played>>
    BY <1>8, <1>t, WaveAssumption DEF Arrive
  <2>2. /\ InCall /\ ~NoCall /\ fil.open /\ Waiting + cur = left /\ Waiting + lag >= Half /\ left < Half
        /\ rd.at = wpos /\ rd.cell = Cell(song, fil.pos) /\ rd.n = Least(Half, Units[song] - fil.pos)
    BY <2>1, <1>k DEF Playing, InTime, NoCall, NextCall
  <2> DEFINE n == rd.n
             w == Waiting
  <2>3. /\ n \in 0 .. Half /\ w \in 0 .. Half - 1 /\ fil.pos = next + w
        /\ fil.pos + n <= Units[song] /\ (n = Half \/ fil.pos + n = Units[song])
    <3>1. Ahead = 0 /\ fil.pos = next + Waiting
      BY <1>t, <2>1 DEF Playing, Holds, Ahead
    <3>2. w \in 0 .. Half - 1
      BY <1>t, <1>m, <1>i, <2>2
    <3> QED BY <1>t, <1>m, <2>2, <3>1, <3>2 DEF Least
  <2>4. wpos + n <= Size
    BY <2>1, <2>2 DEF Aligned
  <2>5. fil' = [fil EXCEPT !.pos = fil.pos + n]
    BY <1>t, <2>1, <2>3 DEF Least
  <2>6. fil'.file = song /\ fil'.open /\ fil'.pos = next + w + n
    BY <1>t, <2>2, <2>3, <2>5 DEF Types, FileType
  <2>7. Waiting' = w /\ Ahead' = n
    BY <2>1 DEF Waiting, Ahead
  <2>8. ASSUME NEW k \in 0 .. w + n - 1 PROVE buf'[(rpos + k) % Size] = Cell(song, next + k)
    <3> DEFINE a == rpos + k
    <3>1. a \in Int /\ -Size <= a /\ a < 2 * Size /\ 0 <= a
      BY <1>t, <1>m, <2>3
    <3>2. w = IF rpos <= wpos THEN wpos - rpos ELSE wpos - rpos + Size
      BY <1>t, WaitingIs
    <3> DEFINE p == IF a < Size THEN a ELSE a - Size
    <3>3. a % Size = p /\ p \in 0 .. Size - 1
      <4> HIDE DEF a
      <4>1. a % Size = IF a < 0 THEN a + Size ELSE IF a < Size THEN a ELSE a - Size
        BY <3>1, Modulo
      <4> QED BY <1>m, <3>1, <4>1
    <3>4. buf'[p] = IF p \in wpos .. wpos + n - 1 THEN Cell(song, fil.pos + p - wpos) ELSE buf[p]
      BY <2>1, <2>2, <3>3 DEF Filled, Cell
    <3>5. CASE k < w
      <4>1. p \notin wpos .. wpos + n - 1
        BY <1>t, <1>m, <2>3, <2>4, <3>2, <3>5
      <4>2. buf[a % Size] = Cell(song, next + k)
        <5>1. k \in 0 .. Waiting + Ahead - 1
          BY <1>t, <2>1, <2>3, <3>5 DEF Ahead
        <5> QED BY <5>1 DEF Playing, Holds
      <4> QED BY <3>3, <3>4, <4>1, <4>2
    <3>6. CASE ~(k < w)
      <4>1. p \in wpos .. wpos + n - 1 /\ fil.pos + p - wpos = next + k
        BY <1>t, <1>m, <2>3, <2>4, <3>2, <3>6
      <4> QED BY <3>3, <3>4, <4>1
    <3> QED BY <3>5, <3>6
  <2>9. Holds'
    <3> HIDE DEF n, w
    <3>1. /\ fil'.file = song' /\ next' \in 0 .. Units[song'] /\ fil'.pos = next' + Waiting' + Ahead'
          /\ Waiting' + Ahead' < Size
      BY <1>t, <1>m, <2>1, <2>3, <2>6, <2>7
    <3>2. \A k \in 0 .. Waiting' + Ahead' - 1 : buf'[(rpos' + k) % Size] = Cell(song', next' + k)
      BY <2>1, <2>7, <2>8
    <3> QED BY <3>1, <3>2 DEF Holds
  <2>10. InTime'
    <3>1. InCall' /\ ~NoCall'
      BY <2>1, <2>2 DEF InCall, NoCall
    <3>2. n = Half \/ fil'.pos = Units[song]
      BY <2>3, <2>6
    <3> QED BY <1>i, <1>k, <2>1, <2>2, <2>6, <2>7, <3>1, <3>2 DEF InTime
  <2> QED BY <2>1, <2>9, <2>10 DEF Playing
<1>9. CASE Advance
  <2>1. /\ pc1 = "advance" /\ pc1' = "eof"
        /\ wpos' = IF wpos + rd.n < Size THEN wpos + rd.n ELSE wpos + rd.n - Size
        /\ UNCHANGED <<buf, rpos, owned, left, rd, polls, requests, main, file, flags, played>>
    BY <1>9 DEF Advance
  <2>2. /\ InCall /\ ~NoCall /\ fil.open /\ fh /\ Waiting + cur = left /\ Waiting + lag >= Half
        /\ rd.n = Half \/ fil.pos = Units[song]
    BY <2>1, <1>k DEF Playing, InTime, NoCall, NextCall
  <2>3. Ahead = rd.n /\ Ahead' = 0 /\ Waiting + rd.n < Size
    BY <2>1 DEF Ahead, Playing, Holds
  <2>4. Waiting' = Waiting + rd.n
    <3>1. Waiting = IF rpos <= wpos THEN wpos - rpos ELSE wpos - rpos + Size
      BY <1>t, WaitingIs
    <3>2. PICK q \in 0 .. Size - 1 : q = wpos' /\ q = IF wpos + rd.n < Size THEN wpos + rd.n ELSE wpos + rd.n - Size
      BY <1>t, <1>m, <2>1
    <3> DEFINE a == q - rpos
    <3>3. a \in Int /\ -Size <= a /\ a < 2 * Size
      BY <1>t, <1>m
    <3>4. a % Size = IF a < 0 THEN a + Size ELSE IF a < Size THEN a ELSE a - Size
      <4> HIDE DEF a
      <4> QED BY <3>3, Modulo
    <3>5. Waiting' = a % Size
      BY <2>1, <3>2 DEF Waiting
    <3>6. a % Size = Waiting + rd.n
      BY <1>t, <1>m, <2>3, <3>1, <3>2, <3>4
    <3> QED BY <3>5, <3>6
  <2>5. Holds'
    <3>1. Waiting' + Ahead' = Waiting + Ahead
      BY <1>t, <2>3, <2>4
    <3>2. fil'.file = song' /\ next' \in 0 .. Units[song'] /\ fil'.pos = next' + Waiting' + Ahead'
          /\ Waiting' + Ahead' < Size
      BY <1>t, <2>1, <2>3, <2>4 DEF Playing, Holds
    <3>3. \A k \in 0 .. Waiting' + Ahead' - 1 : buf'[(rpos' + k) % Size] = Cell(song', next' + k)
      <4> SUFFICES ASSUME NEW k \in 0 .. Waiting' + Ahead' - 1
                   PROVE  buf'[(rpos' + k) % Size] = Cell(song', next' + k)
        OBVIOUS
      <4>1. k \in 0 .. Waiting + Ahead - 1
        BY <1>t, <2>3, <2>4
      <4>2. buf[(rpos + k) % Size] = Cell(song, next + k)
        BY <4>1 DEF Playing, Holds
      <4> QED BY <2>1, <4>2
    <3> QED BY <3>2, <3>3 DEF Holds
  <2>6. InTime'
    <3>1. InCall' /\ ~NoCall'
      BY <2>1, <2>2 DEF InCall, NoCall
    <3>2. Waiting' + lag' >= Half
      BY <1>t, <1>m, <1>i, <2>1, <2>2, <2>4
    <3>3. Waiting' + cur' >= Half \/ fil'.pos = Units[song']
      BY <1>t, <1>m, <1>i, <2>1, <2>2, <2>4
    <3>4. lag' \in 0 .. MaxLag /\ cur' \in 0 .. lag' /\ fh' /\ fil'.open
      BY <1>i, <2>1, <2>2
    <3> QED BY <2>1, <3>1, <3>2, <3>3, <3>4 DEF InTime
  <2>7. timers # 0
    BY <2>2, <1>k, <1>t, WaitingIs DEF Playing
  <2> QED BY <2>1, <2>5, <2>6, <2>7 DEF Playing
<1>10. CASE EofClose
  <2>1. pc1 = "eof" /\ ~NoCall /\ fh
    BY <1>10, <1>k DEF EofClose, NoCall
  <2>2. /\ fil.pos = Units[song] /\ pc1' = "forget" /\ fil' = [fil EXCEPT !.open = FALSE]
        /\ UNCHANGED <<fh, left, rd, polls, requests, main, ring, flags, played>>
    BY <1>10, <1>t, <2>1, WaveAssumption DEF EofClose, AtEof, CloseFile
  <2>3. fil'.pos = fil.pos /\ fil'.file = fil.file
    BY <2>2 DEF Types, FileType
  <2>4. Ahead' = Ahead /\ Waiting' = Waiting
    BY <2>1, <2>2 DEF Ahead, Waiting
  <2>5. Holds'
    BY <2>2, <2>3, <2>4 DEF Playing, Holds
  <2>6. InCall /\ Waiting + lag >= Half
    BY <2>1 DEF Playing, InTime, NextCall
  <2>7. InCall' /\ ~NoCall'
    BY <2>2, <2>6 DEF InCall, NoCall
  <2>8. InTime'
    BY <1>i, <2>1, <2>2, <2>3, <2>4, <2>6, <2>7 DEF InTime
  <2> QED BY <2>2, <2>5, <2>8 DEF Playing
<1>11. CASE EofMore
  <2>1. pc1 = "eof" /\ ~NoCall /\ fh
    BY <1>11, <1>k DEF EofMore, NoCall
  <2>2. /\ fil.pos # Units[song] /\ pc1' = "loop" /\ requests' = requests
        /\ polls' = Least(polls + 1, CALLBACK_BUFFER_NUM) /\ lag' = cur
        /\ UNCHANGED <<main, file, ring, flags, next, cur>>
    BY <1>11, <1>t, <2>1 DEF EofMore, Return, AtEof
  <2>3. Holds' /\ Waiting' = Waiting
    BY <1>h, <2>1, <2>2 DEF Ahead
  <2>4. InCall /\ Waiting + cur >= Half /\ fil.open
    BY <2>1, <2>2 DEF Playing, InTime, NextCall
  <2>5. polls' = 1 /\ requests' = 0
    BY <1>m, <2>2, <2>4 DEF InCall, Least
  <2>6. NextCall' /\ ~NoCall'
    BY <2>2, <2>5 DEF NextCall, NoCall
  <2>7. InTime'
    BY <1>i, <1>t, <1>m, <2>1, <2>2, <2>3, <2>4, <2>6 DEF InTime
  <2> QED BY <2>2, <2>3, <2>7 DEF Playing
<1> QED BY <1>1, <1>2, <1>3, <1>4, <1>5, <1>6, <1>7, <1>8, <1>9, <1>10, <1>11, <1>12 DEF wave_core1_readfile

\* ... together.
LEMMA ReaderKeeps ==
  ASSUME Types, Aligned, Course, wave_core1_readfile, MaxLag < Half
  PROVE  Course'
<1>1. CASE pc0 = "idle" /\ mode = "WAVE"
  <2>1. Playing /\ ~inHandler
    BY <1>1 DEF Course
  <2>2. Playing'
    BY <2>1, CallsKeep
  <2>3. UNCHANGED <<pc0, mode, inHandler>>
    BY DEF wave_core1_readfile, Call, CheckQuit, CheckDone, CheckFull, CheckLow, CheckRead, QuitByReader, Forget, Arrive,
           Advance, EofClose, EofMore, Return
  <2> QED BY <1>1, <2>1, <2>2, <2>3 DEF Course, Prepares
<1> QED BY <1>1, FirstCallsKeep
-----------------------------------------------------------------------------
(* The invariant and what follows from it.                                 *)

\* The program never ends: its files are good, so there is no error.
LEMMA NeverEnds == ASSUME Waits, Course PROVE ~EndProgram /\ ~StartProgram /\ ~stop_music
BY DEF Waits, Course, Opening, EndProgram, StartProgram, stop_music, StopSteps, StopMode, StopRewind, StopTimer,
       StopClose, StopHandle, StopFree, StopEnable, Go0

LEMMA CourseAtFirst == ASSUME Init PROVE Course
BY DEF Init, Course, Prepares, Between, NoCall

\* What the program hears: the next unit, and all of them.
Hears ==
  mode = "WAVE" =>
    /\ next' = next + 1 => buf[rpos] = Cell(song, next)
    /\ pc0 = "idle" /\ mode' = "NONE" => next = Units[song]

LEMMA CourseKept ==
  ASSUME Types, Off, Aligned, Course, Waits, [Next]_vars,
         MaxLag < Half, \A f \in Files : Half <= Units[f]
  PROVE  Course' /\ [Hears]_vars
<1> DEFINE Same == mode' = mode /\ next' # next + 1
<1>n. mode = "WAVE" => mode # "NONE"
  OBVIOUS
<1>1. CASE Program
  <2>1. UNCHANGED <<mode, next>> /\ mode # "WAVE"
    BY <1>1 DEF Program, PlayWave, PlayInTimer, Waits, Ended
  <2> QED BY <1>1, <2>1, AsksInTime DEF Hears
<1>2. CASE QuitSteps
  <2>1. mode # "WAVE"
    BY <1>2 DEF QuitSteps, QuitClose, QuitHandle, QuitDisable, QuitRewind, Go0, Course, Prepares, Between
  <2> QED BY <1>2, <2>1, QuitKeeps DEF Hears
<1>3. CASE PlaySteps
  <2>1. pc0 # "idle" /\ (mode = "WAVE" => next' # next + 1)
    <3>1. CASE StartTimer
      BY <3>1 DEF StartTimer, Types
    <3>2. CASE WaitForQuiet \/ TakeHandle \/ OpenFile \/ ReadHeader \/ ReadFirst
      BY <3>2 DEF WaitForQuiet, TakeHandle, OpenFile, ReadHeader, ReadFirst, Go0, Types
    <3>3. CASE SetWrite \/ SetMode \/ SetEnable \/ Request
      BY <3>3 DEF SetWrite, SetMode, SetEnable, Request, Go0, Types
    <3> QED BY <1>3, <3>1, <3>2, <3>3 DEF PlaySteps
  <2> QED BY <1>3, <2>1, PlayKeeps DEF Hears
<1>4. CASE repeating_wave_callback
  <2>1. mode' = mode
    BY <1>4 DEF repeating_wave_callback
  <2> QED BY <1>4, <2>1, SampleKeeps DEF Hears
<1>5. CASE musicint
  <2>1. next' = next /\ next' # next + 1
    BY <1>5 DEF musicint, EndOfWave, Types
  <2> QED BY <1>5, <2>1, TickKeeps DEF Hears
<1>6. CASE wave_core1_readfile
  <2>1. UNCHANGED <<next, mode>>
    BY <1>6 DEF wave_core1_readfile, Call, CheckQuit, CheckDone, CheckFull, CheckLow, CheckRead, QuitByReader, Forget, Arrive,
           Advance, EofClose, EofMore, Return
  <2>2. next' # next + 1
    BY <2>1 DEF Types
  <2> QED BY <1>6, <1>n, <2>1, <2>2, ReaderKeeps DEF Hears
<1>7. CASE UNCHANGED vars
  BY <1>7 DEF vars, Course, Opening, Prepares, Between, NoCall, NextCall, InCall, HasFirst, Playing, Holds, InTime,
              Ahead, Waiting
<1> QED BY <1>1, <1>2, <1>3, <1>4, <1>5, <1>6, <1>7, NeverEnds DEF Next, set_wave

\* The file, the buffer and the reader keep their course in every behaviour.
LEMMA AlwaysCourse ==
  ASSUME MaxLag < Half, \A f \in Files : Half <= Units[f]
  PROVE  Spec => [](Types /\ (Waits => Course)) /\ [][Waits => Hears]_vars
<1>1. Init => IInv
  BY SoundAtFirst, CourseAtFirst DEF IInv
<1>2. IInv /\ [Next]_vars => IInv'
  <2> SUFFICES ASSUME IInv, [Next]_vars PROVE IInv'
    OBVIOUS
  <2>1. CASE Next
    <3>1. Types' /\ Off' /\ Waits' = Waits
      BY <2>1, TypesKept, OffKept, WaitsKept DEF IInv
    <3>2. ASSUME Waits PROVE Aligned' /\ Course'
      <4>1. Aligned /\ Course /\ Types /\ Off
        BY <3>2 DEF IInv
      <4>2. pc0 \in Opening => ~Reading
        BY <4>1 DEF Opening, Reading, Course, Prepares, Between, NoCall
      <4>3. Aligned'
        BY <2>1, <4>1, <4>2, AlignedKept
      <4> QED BY <3>2, <4>1, <4>3, CourseKept
    <3> QED BY <3>1, <3>2 DEF IInv
  <2>2. CASE UNCHANGED vars
    <3>1. Types' /\ Off' /\ (Aligned => Aligned')
      BY <2>2, StutterKeeps DEF IInv
    <3>2. Waits' = Waits
      BY <2>2 DEF vars, Waits
    <3>3. ASSUME Waits PROVE Course'
      BY <3>3, CourseKept DEF IInv
    <3> QED BY <3>1, <3>2, <3>3 DEF IInv
  <2> QED BY <2>1, <2>2
<1>3. IInv /\ [Next]_vars => [Waits => Hears]_vars
  BY CourseKept DEF IInv
<1>4. IInv => Types /\ (Waits => Course)
  BY DEF IInv
<1> QED BY <1>1, <1>2, <1>3, <1>4, PTL DEF Spec

\* A program that waits hears each unit of a file once and in order, and all of them, when
\* the reader's delay is shorter than half the buffer and no file is shorter than that.
THEOREM PlaysFileHolds ==
  ASSUME MaxLag < Half, \A f \in Files : Half <= Units[f]
  PROVE  Spec => PlaysFile
<1>1. [Waits => Hears]_vars => [Waits /\ mode = "WAVE" =>
       /\ next' = next + 1 => buf[rpos] = Cell(song, next)
       /\ pc0 = "idle" /\ mode' = "NONE" => next = Units[song]]_vars
  BY DEF Hears
<1> QED BY <1>1, AlwaysCourse, PTL DEF PlaysFile

\* When it has ended, the file is closed and nothing of the reader is left on core 1.
THEOREM EndsCleanHolds ==
  ASSUME MaxLag < Half, \A f \in Files : Half <= Units[f]
  PROVE  Spec => []EndsClean
<1>1. Types /\ (Waits => Course) => EndsClean
  BY DEF Course, Between, NoCall, EndsClean
<1> QED BY <1>1, AlwaysCourse, PTL

\* What PLAYWAVE() returns, and what the read in progress brings, is what will still be heard.
THEOREM RemainingHolds ==
  ASSUME MaxLag < Half, \A f \in Files : Half <= Units[f]
  PROVE  Spec => []RemainingIsTrue
<1>1. ASSUME Types, Waits => Course PROVE RemainingIsTrue
  <2> SUFFICES ASSUME Waits, pc0 = "idle", mode = "WAVE"
               PROVE  waveRemaining + InFlight = Units[song] - next
    BY DEF RemainingIsTrue
  <2>1. Playing
    BY <1>1 DEF Course
  <2>2. /\ Waiting \in 0 .. Size - 1 /\ Size \in Nat /\ Units[song] \in Nat /\ next \in 0 .. Units[song]
        /\ InFlight \in Nat /\ InFlight = Ahead
    BY <1>1, <2>1, WaitingIs, WaveAssumption, Halves DEF Types, TypeOK, Ahead, InFlight, Playing, Holds
  <2>3. fil.pos = next + Waiting + InFlight /\ fil.file = song
    BY <2>1, <2>2 DEF Playing, Holds
  <2>4. ~fh => fil.pos = Units[song]
    BY <2>1 DEF Playing, InTime
  <2>5. CASE fh
    BY <2>2, <2>3, <2>5 DEF waveRemaining
  <2>6. CASE ~fh
    BY <2>2, <2>3, <2>4, <2>6 DEF waveRemaining
  <2> QED BY <2>5, <2>6
<1> QED BY <1>1, AlwaysCourse, PTL
=============================================================================
