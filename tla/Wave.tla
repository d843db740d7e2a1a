-------------------------------- MODULE Wave --------------------------------
(***************************************************************************)
(* The wave player of music.c.  Four actors share a ring buffer, a file    *)
(* and a few flags, without a lock:                                        *)
(*   - the BASIC program on core 0, in PLAYWAVE (set_wave) and at its end  *)
(*     or start (stop_music, init_music);                                  *)
(*   - the sample interrupt (repeating_wave_callback), which plays;        *)
(*   - the 1/60 s interrupt (musicint), which notices the end;             *)
(*   - wave_core1_readfile on core 1, which refills the buffer and asks    *)
(*     to be called again 10 ms later.                                     *)
(*                                                                         *)
(* Data is counted in units of some samples.  A file is as many units as   *)
(* remain after the start position; a cell of the buffer is a unit of a    *)
(* file, or junk.  Every step of an actor makes at most one access to the  *)
(* shared state that another actor can tell from the next.                 *)
(***************************************************************************)
EXTENDS Integers

CONSTANTS
  Half,                \* units in half of the ring buffer
  Files,
  Units,               \* the units that remain in each file
  MaxUnits,            \* bound: of the longest file
  NoFile,              \* PLAYWAVE "", and the file of an unopened object
  CALLBACK_BUFFER_NUM,
  MaxLag,              \* units played from one poll of the reader to the end
                       \* of the next: 10 ms, a sleep of core 1, and the card
  SlowRead,            \* can a read of core 1 outlast sleep_ms(1) of core 0?
  Programs             \* what programs do: the files they play, whether they cut a
                       \* file short, the interrupts whose handlers play a file, and
                       \* whether they end at any time

ASSUME WaveAssumption ==
  /\ Half \in Nat \ {0}
  /\ MaxUnits \in Nat /\ Units \in [Files -> 0 .. MaxUnits]
  /\ NoFile \notin Files
  /\ CALLBACK_BUFFER_NUM \in Nat \ {0}
  /\ MaxLag \in Nat \ {0}
  /\ SlowRead \in BOOLEAN
  /\ Programs \subseteq [files : SUBSET Files, cuts : BOOLEAN, handlers : SUBSET {"WAVE", "TIMER"}, ends : BOOLEAN]

Size == 2 * Half
Cell(f, n) == <<f, n>>
Junk == Cell(NoFile, 0)
Closed == [open |-> FALSE, file |-> NoFile, pos |-> 0]

VARIABLES
  program,         \* what the program may do
  pc0, song,       \* core 0: where it is in its statement, the file to play
  pc1, left, rd,   \* core 1: the same, i, and what f_read is reading
  polls, requests, \* calls of the reader in the table, and in the mailbox
  fh, fil,         \* g_fhandle # 0, g_ofhandle
  buf, rpos, wpos, \* g_wavtable, g_wave_readpos, g_wave_writepos
  owned,           \* g_wavtable # 0
  enable, mode,    \* g_wave_enable, g_sound_mode
  timers,          \* how many alarms call repeating_wave_callback
  inHandler,       \* the statement runs in an interrupt: no other one can
  starting,        \* stop_music is called by init_music
  next, lag, cur,  \* history: units played, and since the last and this poll
  rested           \* history: the sample interrupt fired during sleep_ms(1)

main   == <<program, pc0, song, inHandler, starting>>
core1  == <<pc1, left, rd, polls, requests>>
file   == <<fh, fil>>
ring   == <<buf, rpos, wpos, owned>>
flags  == <<enable, mode, timers>>
played == <<next, lag, cur, rested>>
vars   == <<main, core1, file, ring, flags, played>>

Init ==
  /\ program \in Programs
  /\ pc0 = "idle" /\ song = NoFile /\ inHandler = FALSE /\ starting = FALSE
  /\ pc1 = "loop" /\ left = 0 /\ rd = [at |-> 0, cell |-> Junk, n |-> 0]
  /\ polls = 0 /\ requests = 0
  /\ fh = FALSE /\ fil = Closed
  /\ buf = [a \in 0 .. Size - 1 |-> Junk] /\ rpos = 0 /\ wpos = 0 /\ owned = FALSE
  /\ enable = FALSE /\ mode = "MUSIC" /\ timers = 0
  /\ next = 0 /\ lag = 0 /\ cur = 0 /\ rested = TRUE

-----------------------------------------------------------------------------
(* Core 0.                                                                 *)

Go0(from, to) == pc0 = from /\ pc0' = to /\ UNCHANGED <<program, song, inHandler, starting>>

CloseFile == fil' = IF fh THEN [fil EXCEPT !.open = FALSE] ELSE fil
Least(m, n)    == IF m <= n THEN m ELSE n
Greatest(m, n) == IF m <= n THEN n ELSE m
Filled(at, cell, n) ==
  [a \in 0 .. Size - 1 |->
     IF a \in at .. at + n - 1 THEN Cell(cell[1], cell[2] + a - at) ELSE buf[a]]

\* Unless it cuts files, a program asks for a file a sample period or more after
\* the last one ended.
Ended == mode # "WAVE" /\ timers = 0 /\ ~fh /\ polls = 0 /\ requests = 0 /\ pc1 = "loop"
Enter(f, handler) ==
  /\ pc0 = "idle" /\ pc0' = "close"
  /\ song' = f /\ inHandler' = handler
  /\ UNCHANGED <<program, starting>>
PlayWave(f) ==
  /\ program.cuts \/ Ended
  /\ Enter(f, FALSE)
  /\ UNCHANGED <<core1, file, ring, flags, played>>
PlayInTimer(f) ==
  /\ "TIMER" \in program.handlers
  /\ Enter(f, TRUE)
  /\ UNCHANGED <<core1, file, ring, flags, played>>

\* The force quit of the previous file.
QuitClose   == Go0("close", "unhandle") /\ CloseFile
               /\ UNCHANGED <<fh, core1, ring, flags, played>>
QuitHandle  == Go0("unhandle", "disable") /\ fh' = FALSE
               /\ UNCHANGED <<fil, core1, ring, flags, played>>
QuitDisable == Go0("disable", "rewind") /\ enable' = FALSE
               /\ UNCHANGED <<mode, timers, core1, file, ring, played>>
QuitRewind  == Go0("rewind", "wait") /\ rpos' = 0 /\ wpos' = 0 /\ rested' = FALSE
               /\ UNCHANGED <<buf, owned, core1, file, flags, next, lag, cur>>

Reading == pc1 \in {"load", "read", "advance", "eof"}

\* sleep_ms(1) lasts for many samples, unless an interrupt executes it.
WaitForQuiet ==
  /\ mode # "WAVE"
  /\ inHandler \/ timers = 0 \/ rested
  /\ SlowRead \/ ~Reading
  /\ pc0 = "wait" /\ pc0' = IF song = NoFile THEN "idle" ELSE "handle"
  /\ inHandler' = (inHandler /\ song # NoFile)
  /\ UNCHANGED <<program, song, starting, core1, file, ring, flags, played>>

\* The new file.
TakeHandle == Go0("handle", "open") /\ owned' = TRUE /\ fh' = TRUE
              /\ UNCHANGED <<fil, buf, rpos, wpos, core1, flags, played>>
OpenFile   == Go0("open", "header")
              /\ fil' = [open |-> TRUE, file |-> song, pos |-> 0]
              /\ UNCHANGED <<fh, core1, ring, flags, played>>

\* f_read stores the length of the header in g_wave_writepos.
ReadHeader ==
  /\ IF fil.open THEN wpos' = 1 /\ Go0("header", "first")
                 ELSE wpos' = 0 /\ Go0("header", "error")
  /\ buf' = Filled(0, Junk, IF fil.open THEN 1 ELSE 0)
  /\ UNCHANGED <<rpos, owned, core1, file, flags, played>>

ReadFirst_whole ==
  LET n == Least(Half, Units[song]) IN
  /\ IF fil.open
     THEN /\ Go0("first", "filled")
          /\ buf' = Filled(0, Cell(song, 0), n)
          /\ UNCHANGED fil
     ELSE Go0("first", "error") /\ UNCHANGED <<buf, fil>>
  /\ UNCHANGED <<fh, rpos, wpos, owned, core1, flags, played>>
ReadFirst ==
  LET n == Least(Half, Units[song]) IN
  /\ IF fil.open
     THEN /\ Go0("first", "filled")
          /\ buf' = Filled(0, Cell(song, 0), n)
          /\ fil' = [fil EXCEPT !.pos = n]
     ELSE Go0("first", "error") /\ UNCHANGED <<buf, fil>>
  /\ UNCHANGED <<fh, rpos, wpos, owned, core1, flags, played>>

\* The number of bytes f_read returned is not looked at.
SetWrite   == Go0("filled", "mode") /\ wpos' = Half
              /\ UNCHANGED <<buf, rpos, owned, core1, file, flags, played>>
SetMode    == Go0("mode", "enable") /\ mode' = "WAVE"
              /\ UNCHANGED <<enable, timers, core1, file, ring, played>>
SetEnable  == Go0("enable", "request") /\ enable' = TRUE
              /\ UNCHANGED <<mode, timers, core1, file, ring, played>>
Request    == Go0("request", "fire") /\ requests = 0 /\ requests' = 1
              /\ UNCHANGED <<pc1, left, rd, polls, file, ring, flags, played>>
StartTimer ==
  /\ pc0 = "fire" /\ pc0' = "idle" /\ inHandler' = FALSE
  /\ timers' = Least(timers + 1, 2)
  /\ next' = 0 /\ lag' = 0 /\ cur' = 0 /\ rested' = TRUE
  /\ UNCHANGED <<program, song, starting, enable, mode, core1, file, ring>>

\* The program ends, by itself or by an error: stop_music, step by step.
EndProgram ==
  /\ \/ pc0 = "idle" /\ program.ends
     \/ pc0 = "error"
  /\ pc0' = "stop" /\ inHandler' = FALSE /\ starting' = FALSE
  /\ UNCHANGED <<program, song, core1, file, ring, flags, played>>
StopMode   == Go0("stop", "stop_rewind") /\ mode' = "NONE"
              /\ UNCHANGED <<enable, timers, core1, file, ring, played>>
StopRewind == Go0("stop_rewind", "stop_timer") /\ rpos' = 0 /\ wpos' = 0
              /\ UNCHANGED <<buf, owned, core1, file, flags, played>>
StopTimer  == Go0("stop_timer", "stop_close")
              /\ timers' = Greatest(timers - 1, 0)
              /\ UNCHANGED <<enable, mode, core1, file, ring, played>>
StopClose  == Go0("stop_close", "stop_handle") /\ CloseFile
              /\ UNCHANGED <<fh, core1, ring, flags, played>>
StopHandle == Go0("stop_handle", "stop_free") /\ fh' = FALSE
              /\ UNCHANGED <<fil, core1, ring, flags, played>>
StopFree   == Go0("stop_free", "stop_enable") /\ owned' = FALSE
              /\ UNCHANGED <<buf, rpos, wpos, core1, file, flags, played>>
StopEnable ==
  /\ enable' = FALSE
  /\ mode' = IF starting THEN "MUSIC" ELSE mode
  /\ Go0("stop_enable", IF starting THEN "idle" ELSE "ended")
  /\ UNCHANGED <<timers, core1, file, ring, played>>
StartProgram ==
  /\ pc0 = "ended" /\ pc0' = "stop" /\ starting' = TRUE
  /\ UNCHANGED <<program, song, inHandler, core1, file, ring, flags, played>>

QuitSteps == QuitClose \/ QuitHandle \/ QuitDisable \/ QuitRewind
PlaySteps == WaitForQuiet \/ TakeHandle \/ OpenFile \/ ReadHeader \/ ReadFirst
             \/ SetWrite \/ SetMode \/ SetEnable \/ Request \/ StartTimer
StopSteps == StopMode \/ StopRewind \/ StopTimer \/ StopClose
             \/ StopHandle \/ StopFree \/ StopEnable
set_wave   == QuitSteps \/ PlaySteps
stop_music == StopSteps
-----------------------------------------------------------------------------
(* The interrupts of core 0, which do not nest.                            *)

repeating_wave_callback_deaf ==
  /\ timers > 0 /\ ~inHandler
  /\ rpos' = (rpos + 1) % Size
  /\ next' = Least(next + 1, MaxUnits + 1)
  /\ UNCHANGED <<main, core1, file, buf, wpos, owned, flags, lag, cur, rested>>
repeating_wave_callback ==
  /\ timers > 0 /\ ~inHandler
  /\ rested' = TRUE
  /\ IF rpos = wpos
     THEN timers' = timers - 1 /\ UNCHANGED <<rpos, next, lag, cur>>
     ELSE /\ lag < MaxLag \/ (polls = 0 /\ requests = 0 /\ pc1 = "loop")
          /\ rpos' = (rpos + 1) % Size
          /\ next' = Least(next + 1, MaxUnits + 1)
          /\ lag' = Least(lag + 1, MaxLag) /\ cur' = Least(cur + 1, MaxLag)
          /\ UNCHANGED timers
  /\ UNCHANGED <<main, core1, file, buf, wpos, owned, enable, mode>>

\* The WAVE handler runs at once, in the same interrupt.
EndOfWave ==
  /\ mode' = "NONE" /\ enable' = FALSE
  /\ \/ UNCHANGED main
     \/ "WAVE" \in program.handlers /\ \E f \in program.files : Enter(f, TRUE)
  /\ UNCHANGED <<core1, file, ring, timers, played>>
musicint       == mode = "WAVE" /\ ~inHandler /\ wpos = rpos /\ EndOfWave
-----------------------------------------------------------------------------
(* Core 1: wave_core1_readfile.                                            *)

Waiting == (wpos - rpos) % Size

Call ==
  /\ pc1 = "loop" /\ pc1' = "check"
  /\ \/ requests > 0 /\ requests' = requests - 1 /\ UNCHANGED polls
     \/ polls > 0 /\ polls' = polls - 1 /\ UNCHANGED requests
  /\ left' = Waiting /\ cur' = 0
  /\ UNCHANGED <<rd, main, file, ring, flags, next, lag, rested>>

\* The end of a call: the lag is counted from the start of this call.
Return(again) ==
  /\ pc1' = "loop"
  /\ polls' = IF again THEN Least(polls + 1, CALLBACK_BUFFER_NUM) ELSE polls
  /\ lag' = cur
  /\ UNCHANGED <<left, rd, requests, next, cur, rested>>

CheckQuit == pc1 = "check" /\ ~enable /\ pc1' = "quit"
             /\ UNCHANGED <<left, rd, polls, requests, main, file, ring, flags, played>>
CheckDone == pc1 = "check" /\ enable /\ (left = 0 \/ ~fh) /\ Return(FALSE)
             /\ UNCHANGED <<main, file, ring, flags>>
CheckFull == pc1 = "check" /\ enable /\ left >= Half /\ fh /\ Return(TRUE)
             /\ UNCHANGED <<main, file, ring, flags>>
\* Half a buffer is free: the reader goes on to f_read, which looks at g_fhandle anew.
CheckLow == pc1 = "check" /\ enable /\ left # 0 /\ left < Half /\ fh /\ pc1' = "load"
            /\ UNCHANGED <<left, rd, polls, requests, main, file, ring, flags, played>>

\* A null handle or a closed file gives nothing.
CheckRead_atRead ==
  /\ pc1 = "load" /\ pc1' = "read"
  /\ rd' = [at |-> rpos, cell |-> Cell(fil.file, fil.pos),
            n |-> IF fh /\ fil.open THEN Least(Half, Units[fil.file] - fil.pos) ELSE 0]
  /\ UNCHANGED <<left, polls, requests, main, file, ring, flags, played>>
CheckRead ==
  /\ pc1 = "load" /\ pc1' = "read"
  /\ rd' = [at |-> wpos, cell |-> Cell(fil.file, fil.pos),
            n |-> IF fh /\ fil.open THEN Least(Half, Units[fil.file] - fil.pos) ELSE 0]
  /\ UNCHANGED <<left, polls, requests, main, file, ring, flags, played>>

QuitByReader == pc1 = "quit" /\ pc1' = "forget" /\ CloseFile
                /\ UNCHANGED <<fh, left, rd, polls, requests, main, ring, flags, played>>
Forget == pc1 = "forget" /\ fh' = FALSE /\ Return(FALSE)
          /\ UNCHANGED <<fil, main, ring, flags>>

\* The data arrives: in the buffer where it was when f_read was called.
Arrive ==
  /\ pc1 = "read" /\ pc1' = "advance"
  /\ buf' = Filled(rd.at, rd.cell, rd.n)
  /\ fil' = [fil EXCEPT !.pos = Least(fil.pos + rd.n, IF fil.file = NoFile THEN 0
                                                      ELSE Units[fil.file])]
  /\ UNCHANGED <<fh, rpos, wpos, owned, left, rd, polls, requests, main, flags, played>>

Advance_clipped ==
  /\ pc1 = "advance" /\ pc1' = "eof"
  /\ wpos' = Least(wpos + rd.n, Size - 1)
  /\ UNCHANGED <<buf, rpos, owned, left, rd, polls, requests, main, file, flags, played>>
Advance ==
  /\ pc1 = "advance" /\ pc1' = "eof"
  /\ wpos' = IF wpos + rd.n < Size THEN wpos + rd.n ELSE wpos + rd.n - Size
  /\ UNCHANGED <<buf, rpos, owned, left, rd, polls, requests, main, file, flags, played>>

\* f_eof reads the object of a null handle when core 0 took it away.
AtEof == fil.file = NoFile \/ fil.pos = Units[fil.file]
EofClose_kept == pc1 = "eof" /\ (~fh \/ AtEof) /\ Return(FALSE)
                 /\ UNCHANGED <<main, file, ring, flags>>
EofClose == pc1 = "eof" /\ (~fh \/ AtEof) /\ pc1' = "forget" /\ CloseFile
            /\ UNCHANGED <<fh, left, rd, polls, requests, main, ring, flags, played>>
EofMore  == pc1 = "eof" /\ (~fh \/ ~AtEof) /\ Return(TRUE)
            /\ UNCHANGED <<main, file, ring, flags>>

wave_core1_readfile ==
  Call \/ CheckQuit \/ CheckDone \/ CheckFull \/ CheckLow \/ CheckRead
  \/ QuitByReader \/ Forget \/ Arrive \/ Advance \/ EofClose \/ EofMore
-----------------------------------------------------------------------------
Program == \E f \in program.files \cup {NoFile} : PlayWave(f) \/ PlayInTimer(f)

Next ==
  \/ Program \/ EndProgram \/ StartProgram
  \/ set_wave \/ stop_music
  \/ repeating_wave_callback \/ musicint
  \/ wave_core1_readfile

Spec == Init /\ [][Next]_vars

\* A statement that was begun is carried on, the interrupts fire, and core 1
\* serves its callbacks.
FairSpec ==
  /\ Spec
  /\ WF_vars(set_wave) /\ WF_vars(stop_music)
  /\ WF_vars(repeating_wave_callback) /\ WF_vars(musicint)
  /\ WF_vars(wave_core1_readfile)
-----------------------------------------------------------------------------
(* Properties.                                                             *)

\* Every static of the player keeps its type, and its two positions stay in
\* the buffer.
TypeOK ==
  /\ rpos \in 0 .. Size - 1 /\ wpos \in 0 .. Size - 1
  /\ polls \in 0 .. CALLBACK_BUFFER_NUM /\ requests \in 0 .. 1
  /\ fh \in BOOLEAN /\ enable \in BOOLEAN /\ timers \in 0 .. 2 /\ owned \in BOOLEAN
  /\ mode \in {"NONE", "MUSIC", "WAVE"}
  /\ song \in Files \cup {NoFile}
  /\ left \in 0 .. Size - 1

\* The positions stay in the ring buffer, and f_read on core 1 never writes
\* outside it although it is given room for half a buffer wherever the write
\* position is, also when a file is cut short or the program ends.
BufferSound == TypeOK /\ (pc1 = "read" => rd.at + rd.n <= Size)

\* A program that waits for the end of each file, and goes on.
Waits == ~program.cuts /\ program.handlers = {} /\ ~program.ends

\* Every unit that is played is the next unit of the file, whatever the order
\* in which core 1 fills, and the interrupt empties, the buffer; playback ends
\* by itself only when the whole file was played: the buffer is never found
\* empty while the file has more.
PlaysFile ==
  [][Waits /\ mode = "WAVE" =>
       /\ next' = next + 1 => buf[rpos] = Cell(song, next)
       /\ pc0 = "idle" /\ mode' = "NONE" => next = Units[song]]_vars

\* When playback has ended, the file is closed and no call of the reader is
\* left on core 1, where it could meet the next file.
EndsClean ==
  Waits /\ pc0 = "idle" /\ mode = "NONE" => ~fh /\ polls = 0 /\ requests = 0

\* What PLAYWAVE() tells the program is left to play, is: no unit is lost or
\* counted twice between the file, the buffer and the speaker.  What is missing
\* is only the read in progress: from f_read's last step to the store of
\* g_wave_writepos the position in the file has moved on and the position in
\* the buffer has not, and PLAYWAVE() is as much too little, up to half a
\* buffer.  It is taken at one moment: its accesses are not the model's steps.
waveRemaining == Waiting + (IF fh THEN Units[fil.file] - fil.pos ELSE 0)
InFlight == IF pc1 = "advance" THEN rd.n ELSE 0
RemainingIsTrue ==
  Waits /\ pc0 = "idle" /\ mode = "WAVE" => waveRemaining + InFlight = Units[song] - next

\* PLAYWAVE() is what is left to play at every moment (README, section 4).
RemainingIsExact ==
  Waits /\ pc0 = "idle" /\ mode = "WAVE" => waveRemaining = Units[song] - next

\* No two alarms play the samples of one file: it keeps its pace.
OneSampleTimer == timers <= 1

\* A file that is played comes to an end: the WAVE interrupt is raised.
WaveEnds == Waits /\ mode = "WAVE" ~> mode # "WAVE"

\* A PLAYWAVE never hangs in the wait for the previous file.
QuitReturns == pc0 = "wait" ~> pc0 # "wait"

\* PLAYWAVE of a good file never ends the program with a file error.
NoFileError == pc0 # "error"
=============================================================================
