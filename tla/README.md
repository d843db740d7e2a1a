# A TLA+ model of MachiKania type P (Phyllosoma)

MachiKania type P turns a Raspberry Pi Pico into a BASIC computer. A compiler (KM-BASIC)
translates a `.BAS` file to ARM code in RAM; the code runs against a library of C functions that
own a small heap, timers, music, files, a display and, on a Pico W, a TCP/IP client and server.
The program runs on core 0; timer interrupts run C and BASIC handlers between any two of its
instructions; a wave file and the USB keyboard are served by core 1. With keyboard and display
the machine starts in an editor. This directory holds TLA+ modules that model the system, TLC
configurations that check it on small instances, and TLAPS proofs of the properties that matter
most.

All line numbers are lines of files under `src/`; `music.c` is `src/music.c`, `ff.c` is
`src/interface/ff.c`, `socket.c` is `src/wifi/socket.c`, and so on.

    tlc -workers 2 -config Memory.cfg Memory.tla      # a run (section 3)
    tlapm MemoryProofs.tla                            # a proof (section 5)

## 1. The system

| component | code | state it keeps | operations | hard because |
|---|---|---|---|---|
| BASIC heap | `memory.c` | block tables, list of deleted areas, bounds | allocate, delete, move from temporary, collect | long call sequences; three search strategies; entries reused without a check; 16-bit sizes |
| compile-time data | `cmpdata.c` | records that grow down towards the code | insert, find, delete | the limit; records found by type and depth |
| compiler | `compiler.c`, `statements.c`, `operators.c`, `integer.c`, `value.c`, `variable.c` | object code, open control structures, forward branches | compile a line, open and close a structure, resolve branches | one pass, class files in the middle of a file, label or number |
| run-time library | `library.c`, `string.c`, `functions.c` | blocks of the heap, READ's place, VAR's stack | control statements, strings, default arguments | temporaries that are given back while they are used |
| objects and classes | `class.c` | class and field tables, objects | `NEW`, methods, fields | object life time |
| interrupts and timers | `timer.c`, `run.c` | vectors, flags, armed timers | `INTERRUPT`, `USETIMER`, `CORETIMER`, 1/60 s tick | handlers between any two instructions, stale events, read-modify-write of flags |
| music and sound | `music.c` | ring of notes, sound table | `MUSIC`, `SOUND`, tick | a producer in the program or a handler, a consumer in the tick |
| wave player | `music.c` | ring buffer, file handle, enable flag | `PLAYWAVE`, sample interrupt, reader on core 1 | four actors without a lock |
| core 1 executor | `core1.c` | two queues of callbacks, start and stop flags | start, stop, two kinds of request | handshake by polling, full table, restart |
| USB keyboard | `usbkeyboard.c`, `withkeyboard.c` | report, key ring, status table | poll, press, read | written by core 1, read by core 0 and by its handlers |
| sockets | `socket.c`, `picow_tcp_*.c` | list of received buffers, ids, FIFO of accepted clients | connect, listen, send, receive, close, lwIP's callbacks | callbacks between any two steps of a statement |
| editor | `editor.c` | chain of text buffers, cursor, undo memory | every key, undo, cut and paste, garbage collection | one place of the text has several addresses; undo of composite edits |
| the editor's files | `editor.c` | name, directory, list of files, `~TEMP.BAS`, `~WORKDIR.TMP` | new, load, save, run, start | each call may fail, and is retried after a new mount; loss of power |
| files | `file.c` | two handles, the active one | `FOPEN` .. `SETDIR` | two handles on one file, FatFs without locks |
| SD card, FatFs | `ff.c` | one-sector window, FAT, directories, open files | f_open, f_write, f_sync, f_unlink, f_rename ... | power lost between two writes; core 1 inside f_read |
| text screen and pictures | `graphlib_lcd.c`, `display.c`, `keyinput.c` | TVRAM, cursor, palette, font, LCD | `PRINT`, `SCROLL`, `CIRCLE`, `INPUT` ... | scrolling under a typed line, clipping, drawing primitives |
| TLS, DNS, NTP, WiFi start | `picow_tls_client.c`, `withwifi.c`, `picow_ntp_client.c` | connection and time-out states | connect, resolve, set the clock | late answers |
| input and output | `io.c`, `rtc.c` | registers, serial ring | PWM, SPI, I2C, UART, buttons | serial receive interrupt |
| other displays | `*_spi.c`, `rp2*`, `graphlib_ntsc.c`, `editor_ntsc.c` | frame buffers | as above | hardware timing |
| the rest | `pcconnect.c`, `exception.c`, `help.c`, `hexfile.c`, `debug.c`, `main.c` | none of note | | |

How they interact. The compiled program calls the library, the library calls the heap; music,
files, the network and objects take blocks of the heap. Timer interrupts call `musicint` and
BASIC subroutines (`call_interrupt_function`). The wave player puts its reader on core 1 with
`request_core1_callback`; the USB keyboard keeps a polling chain there with
`request_core1_callback_at`. The end of a program (`post_run`) closes the heap first and then
stops files, timers, music and core 1. The editor puts its text by on the card, gives its memory
to the program, and reads it back.

What makes each correct: the heap never gives one word to two owners and is never full when it
is not; the code does what the text of the program says, and a wrong text is refused; no
interrupt event is lost and no handler runs without one; music plays each note once, in order
and at its pitch; a wave file is played without a gap and leaves nothing behind; core 1 loses no
periodic callback and is quiet when it is stopped; each key comes once; each byte of a
connection is received once by the one it is for; the editor is a text with a cursor and a
history; no file is written over unasked, and a run gives the text back; files survive the loss
of power; the screen shows what was printed and drawn. `PROJECT.json` lists under "hazards"
where each of these could go wrong, at its line.

## 2. Modules

Operators and actions have the names of the functions of the source, or of what they do in them.
An action is what happens between two points at which another actor may see or change what it
uses: a whole call where one actor calls (`Memory`), one access to shared state where there are
several (`Wave`). Histories, marked where they are declared, are read by properties only. What a
constant may be is in the module's `...Assumption`.

**Heap.** `Memory` (memory.c): the record `heap` holds memory.c's statics, `ptr` and `size`
(`kmbasic_variables`, `kmbasic_var_size`), `del` (the deleted areas), `gc`, `begin`; `halted` is
the error that stopped the program. An allocation is the three searches of the code in their
order: behind the last block, the list of deleted areas, the gaps. Addresses count words;
`SizeMod` is the width of `kmbasic_var_size`. `HeapSpec` is the abstract heap, a set of words
for each block.

**Core 1.** `Core1` (core1.c): `table` and `mailbox` are the queues, `pc0` is where core 0 is in
`start_core1` or `stop_core1`, `pc1` and `slot` where core 1 is in the loops of `core1_entry`. A
tick of time is 3.3 ms. The launch and reset of core 1 are the SDK's.

**Wave player.** `Wave` (music.c): `set_wave` line by line, `stop_music`,
`repeating_wave_callback`, `musicint`, `wave_core1_readfile`. A cell of the buffer is a unit of
many samples, or junk. `Programs` says what programs do: play files to their end or cut them
short, play in handlers, end.

**Music.** `Music` (music.c): the ring of notes, the sound table and the statements and ticks
that fill and play them. `Tune` is what `set_music` makes of the items of a MUSIC text (letters,
accidentals, keys, lengths, tempo, ties: numbers in registers), `Score` what a musician means by
them (circle of fifths, semitones, beats); the histories compare the two.

**Interrupts.** `Interrupts` (timer.c, run.c): vectors, flags, armed timers, `g_interrupt_code`,
where the 1/60 s callback is in its sources and which handler it is in. `LoadFlags` and
`StoreFlags` are the program's read-modify-write.

**Keyboard.** `Keyboard` (usbkeyboard.c, withkeyboard.c): the report, the status table, the ring
of key codes and its semaphore; core 1 polls, pushes and repeats, core 0 reads in the program
(`"main"`) or in the INKEY handler (`"irq"`). TinyUSB is external.

**Sockets.** `Sockets` (socket.c, picow_tcp_client.c, picow_tcp_server.c): the list of received
buffers, the table of ids, the FIFO of TCPACCEPT, client and server. lwIP's connections are
external; its callbacks are interrupts (CMakeLists.txt:89 links `threadsafe_background`),
between any two steps of a statement. A part of a message may be refused at any time. `Allow`
names the cases that go wrong (section 4).

**Editor.** `TextBuffer` (the chain of buffers, insertion, deletion, garbage collection, the
undo memory), `Screen` (the cursor on the screen and in the text), `Editor` (the keys and the
idle time). `Document` is what the user sees: a text, a place in it, a selection, a clipboard
and the texts there were. `Editor` implements it (`IsDocument`).

**The editor's files.** `Workspace` (editor.c): new, load, save, run, the list of files, the
start. A text is one value. `at` is the stack of the C functions that wait: the step to take
next, then its callers. A call of the file system may fail; the user retries or quits. Power may
be lost at any step. `Desk` is what its owner is promised: a text, the file it belongs to, a
shelf of files (`IsDesk`).

**Files.** `FatVolume` (ff.c: window, FAT, directories, FSInfo, mount), `FatFiles` (open files
and the public functions), `Storage` (file.c: the file statements, two handles, loss of power
before any sector is written). `FileStore` is a tree of files, in which each statement happens
whole or, when power is lost, not at all, but for the files that were being written (`IsStore`).

**Language.** `Library` (what functions and statements are given, default arguments), `Code`
(object code and compile-time data), `Values` (expressions), `Compiler` (statements, labels,
class files, the end of a file), `ObjectCode` (the machine that runs the code, and what the
library functions of the control statements do), `Language` (a text is chosen, compiled
statement by statement and run). `Program` is what the text means: loops found by matching the
text, a stack of subroutines, values evaluated by taking an expression apart at its weakest
operator. The code implements it (`IsProgram`).

**Display.** `Graphlib` (the LCD's window and the drawing primitives), `Console` (TVRAM, cursor,
scrolling, a typed line), `Texts` (strings, over the operators of `Memory`), `Display` (the
statements of display.c). `TextValues` and `Picture` are what they mean: a page of characters,
sets of points, texts without a heap (`IsPicture`).

`MC...` modules give a module's constants their values; `Memory`, `Core1`, `Interrupts`,
`Keyboard`, `Sockets`, `Editor` and `Workspace` are run as they are. `...Proofs` modules extend
the module they are about. In the map of `PROJECT.json` a helper whose lines are those of the
operation it is part of has no row of its own.

## 3. Runs

| run | what is asked | bounds, and why they are enough |
|---|---|---|
| `memory` | Do live areas stay apart, are remembered areas free, is "out of memory" real, is `HeapSpec`'s promise kept, for every order of calls? | 5 words, 1 variable, 2 temporaries, 2 permanent blocks, a list of 2 areas, requests of 1 to 3 words, sizes modulo 8: every search is used, the list overflows, areas are split and reused, all blocks are taken |
| `core1` | Are chains of callbacks kept, called once on a restart and called in time; is core 1 quiet when stopped; do the handshakes end? | 3 functions in a table of 3 (full), a mailbox of 2, a period of 3 ticks, sleeps of at most 5, callbacks of at most 1, lateness counted to 8 |
| `wave` | Is each file heard whole and in order and left clean, does it end, is PLAYWAVE() right? | halves of 2 units; files of half a buffer and of one that wraps; a patient program, and one that cuts files short, plays in its handlers and ends; a reader at most 1 unit late; 2.5 million states |
| `music` | Is what is heard what the text says, is the end of a tune announced, does music go on? | tables of 4 notes, lengths counted to 4, two tunes, two sounds (endless and repeated), wave files between, the MUSIC handler plays |
| `interrupts` | Is an event or a change of the buttons lost, does `g_interrupt_code` tell the truth, do ticks go on? | KEYS, MUSIC and WAVE, two states of the buttons, programs that follow one another, one alarm waiting, handlers that set and stop any of the three and may end the program; 3.3 million states |
| `keyboard` | Does each key come once and in order, is the status table the report? | 2 keys (symmetric), a ring of 3, at most 2 keys down, replugging, one reader at a time |
| `sockets` | Is what arrives received once, in order, by the one it is for; is an id lost, is the status true; is as much sent as TCPSEND says? | 2 connections, 2 bytes, 2 messages of 1 or 3 bytes in parts of 2 (so one and two parts), parts refused at any time, 2 ids, a FIFO of 1 (so it overflows), both modes of TCPSERVER |
| `editor` | Is the chain of buffers sound, the cursor where it is shown, and the editor a `Document`? | 3 buffers of 2 characters, a screen of 2 by 2, one text put by, a clipboard of 2, an undo memory of 12 bytes: two or three records, the oldest of which is forgotten. A behaviour (`AllUses`) uses all keys and leaves one record, or uses few keys, without or with a selection, and leaves as many as fit: edits and undos in a row |
| `storage` | Is the volume sound after every write of a sector, and is it a `FileStore`? | 5 clusters of 2 bytes, 4 FAT entries to a sector, 3 directory entries, five cards to begin with, three statements, files of at most 3 bytes |
| `language` | Does the code stay apart from the compiler's records, is each wrong text refused, does the code do what the text means? | texts of a few statements from small vocabularies that are chosen to mix what interacts (loops in IFs, labels and line numbers, class files, DATA, VAR, expressions, default arguments); 3-bit integers; 170 halfwords for code and records; 80 instructions between two statements |
| `display` | Does TVRAM show what was printed, and the LCD what was drawn? | an LCD of 4 by 6 with characters of 2 by 2, 32 characters, scripts of a few statements; the widths 42, 7 and 10 and the line of 255 are scaled to 1, 2, 3 and 3 |
| `workspace` | Is the entry under the cursor on the screen; is no file written over unasked before the user goes astray (a failure moved him, or he opened ~TEMP.BAS), and does a run give the text back always? | one name, one directory, one file that is too long, one typed text, a list of 3 entries in 2 columns, two failures, one loss of power |

Every run but `memory`, `core1`, `interrupts`, `keyboard` and `sockets` may come to a real stop
(a program ends, a bound is reached), and says so (`CHECK_DEADLOCK FALSE`). Views leave out what
the next statement sets before it reads it. The mutants of `PROJECT.json` are plausible slips in
the modelled functions; each breaks the property it is listed with.

What a run assumes about the surroundings, and why:

* `memory`: the heap is smaller than `SizeMod` words, which holds for a Pico 1.
* `core1`: the calls of all other functions fit in one period, `(Cardinality(Funcs) - 1) *
  MaxRun < Period`; those of the two users do. Without it core 1 may never leave
  `call_inner_requests` (core1.c:33).
* `wave`: the next poll of the reader ends less than half a buffer later (`MaxLag < Half`): 10
  ms, a sleep of up to 16.7 ms and a read are less than the 32 ms of half a buffer; files are no
  shorter than half a buffer; a program that cuts a file short finds the last read
  ended after its sleep_ms(1) (`SlowRead = FALSE`), which the code hopes for.
* `music`: texts keep to the documented number of notes; no tick comes at one of the two moments
  of section 4 (`Parts`, `TickInStores = FALSE`), which bounds the run only: `PlaysAsAsked` is
  proved without it; no string ends in an error.
* `keyboard`: one reader at a time (`Overlap = FALSE`). `sockets`: a program closes what it opened before
  it opens anew, and memory is left for what arrives (none of the cases of `Allow`).
* `storage`: one handle to a file (`Careless = FALSE`), no wave file while a statement runs
  (`PlaysWave = FALSE`), no loss of power inside FRENAME of a directory (`CutInRename = FALSE`).
* `language`: no nesting that the compiler accepts by accident (`Loose = FALSE`), `LineTaken =
  TRUE`, line numbers of 15 bits.
* `editor`: cursor_left reads nothing stray (`StrayRead = FALSE`), a key finds the editor's idle
  work done (`Queued = FALSE`).

Fairness. `Core1`: both cores go on with what they do, and time passes. `Wave`: a statement that
was begun goes on, both interrupts fire, core 1 serves its callbacks. `Music`: the same, with
strong fairness for `musicint`, as what disables it now and then is only the exclusion of those
two moments, which is the model's. `Interrupts`: callbacks go on, handlers return, `post_run` goes
on; strong fairness for the tick, which competes with other alarms for the processor. The timers
are the SDK's repeating timers, which no BASIC statement can mask. The other modules are checked
for safety only (`Sockets` has a `FairSpec` for section 4).

## 4. Where the code and its documents disagree

The passing runs leave these cases out by a constant. Each row names the constants that bring
one back (the others as in the component's configuration) and the property TLC then reports; a
property that no run lists is defined in the module.

| module | constants | property | what happens |
|---|---|---|---|
| `Memory` | SizeMod 4, Sizes {2, 5}, HeapEnd 9 | `KeepsPromise` | a size is stored in 16 bits (memory.c:207): the recorded block is shorter than the area handed out. A Pico 2 has a heap of 448 KB (config.h:50), more than 2^16 words |
| `MCWave` | Programs: one that cuts files short | `QuitReturns`, `NoFileError` | PLAYWAVE waits for the old file's reader, which is gone (music.c:590), or the old reader closes the new file (music.c:580, 626) |
| `MCWave` | MaxLag = Half | `WaveEnds` | the reader, half a buffer late, is taken for caught up; the file never ends (music.c:606) |
| `MCWave` | Units of 1 for each file | `RemainingIsTrue` | PLAYWAVE() of a file shorter than half a buffer (music.c:670) |
| `MCWave` | as it is | `RemainingIsExact` | between the end of f_read and the store of the write position PLAYWAVE() is up to half a buffer too little (music.c:589, 570) |
| `MCWave` | SlowRead TRUE | `BufferSound` | a read of the last file that outlasts sleep_ms(1) moves the write position of the next one off its half, and f_read writes over the end of the buffer (music.c:590, 632) |
| `MCWave` | Programs with handlers {"WAVE"} | `OneSampleTimer` | the handler's PLAYWAVE arms the sample timer a second time (music.c:692) |
| `MCWave` | Programs with handlers {"TIMER"} | `QuitReturns` | a handler's PLAYWAVE inside the program's (music.c:633) |
| `MCMusic` | TickInStores TRUE | `TuneAsAsked`, `SoundAsAsked`, `VoiceAsAsked` | a tick ends the last note after MUSIC found it in the ring, so that the next one gets no length of its own (music.c:537-543), or sees the end of SOUND's table before `g_soundwait` is set (music.c:453-454); at any other moment a tick does no harm (`PlaysAsAsked`) |
| `MCMusic` | a sound of LenBound ticks or more | `SoundAsAsked` | a length is kept in a byte (music.c:443) |
| `MCMusic` | tunes of one note, or sounds over tunes (as it is) | `EveryTuneAnnounced` | the MUSIC interrupt is skipped (music.c:164) |
| `MCMusic` | Reenter TRUE | `WholeTune` | MUSIC in a handler takes the text from MUSIC in the program (music.c:462) |
| `MCMusic` | as it is | `MusicIsHeard` | after a wave file `g_sound_mode` stays NONE, and MUSIC is not heard any more (music.c:202) |
| `Interrupts` | Uses {"KEYS"} | `OnlyChanges` | -1 in a `char`, unsigned on ARM, is never recognised: KEYS is called once without a change (timer.c:127) |
| `Interrupts` | Uses {"MUSIC"} | `OnlyFreshEvents` | a flag raised before INTERRUPT MUSIC is served after it (timer.c:244) |
| `Interrupts` | Uses {"CORETIMER"} | `OwnAlarm` | an alarm of the last program calls the handler of this one |
| `Interrupts` | Uses {"DRAWCOUNT"} | `NoHandlerAfterEnd` | a handler runs after the heap was closed (run.c:153) |
| `Interrupts` | as it is | `TicksGoOn` without its exception | END in a handler leaves the processor in the interrupt (library.c:251) |
| `Keyboard` | Overlap TRUE | `HandlerNeverWaitsForProgram`, `ReadsOwnKey` | READKEY() in the handler waits for the semaphore that the program's holds (usbkeyboard.c:452); two readers share the result |
| `Keyboard` | as it is | `HeldIsDown` | between clearing and setting, INKEY(x) shows a held key as up (usbkeyboard.c:205) |
| `Keyboard` | as it is | `NoGhostKey` | after replugging, the old keyboard's last report types its keys again (usbkeyboard.c:388 says that all keys are released) |
| `Sockets` | Allow {"lingers"}, {"again"} or {"heap"} | `ReceivedInOrder` | buffers freed under a live connection (socket.c:51); data of the last client for the new one (picow_tcp_client.c:162); data dropped but acknowledged (socket.c:117) |
| `Sockets` | IDS 1 | `OwnBytes`, `StatusIsTrue` | ids wrap after 256 connections (socket.c:87) |
| `Sockets` | as it is | `AllTold` | a connection TCPACCEPT() never gives: made before the mode is stored (picow_tcp_server.c:179), or with data in mode 1 while the FIFO is full (:93) |
| `Sockets` | as it is | `StatusIsExact` | after lwIP's own ERR_ABRT an id still counts as connected (picow_tcp_server.c:107) |
| `Sockets` | as it is | `NoClosedPcb` | a statement holds the pcb of a connection that the client closes (picow_tcp_server.c:40) |
| `Sockets` | no view | `SendsWhole` | a long message is sent as repetitions of its first part (socket.c:254) |
| `Sockets` | no view | `KeptIsSent` | the message kept before the connection is forgotten although it, or the rest of it, could not be sent (socket.c:220) |
| `Sockets` | FairSpec, no view | `StatusReturns` | TCPSTATUS(1, x) of a server's id never returns (socket.c:300) |
| `Editor` | StrayRead TRUE | `CursorShown` | cursor_left looks for the start of the line before the text (editor.c:794; the comment at editor.c:746 says what it should do) |
| `Editor` | Queued TRUE | `IsDocument` | BackSpace at the start of the text, with an empty first buffer that was not collected yet, deletes the character behind the cursor |
| `Workspace` | as it is | `NoneLost` | after a failed write in a directory, Enter mounts anew, the root becomes the current directory (ff.c:3546), and the retry writes over another file there; or the user quits `run` where the directory was not restored (editor.c:2322), and saves |
| `MCStorage` | Careless TRUE | `VolumeSound` | a file that is open in both handles, or removed while it is open (ffconf.h:271, file.c:411) |
| `MCStorage` | CutInRename TRUE | `VolumeSound`, `IsStore` | power lost inside FRENAME of a directory (ff.c:5141 says that this is critical) |
| `MCStorage` | PlaysWave TRUE | `VolumeSound`, `IsStore` | core 1 reads a wave file while a statement is inside FatFs (music.c:589) |
| `MCLanguage` | Loose TRUE | `Refuses`, `IsProgram` | ENDIF without IF, a multi-line IF in a single-line one, FOR closed by WEND, USECLASS behind other statements, and more are accepted |
| `MCLanguage` | LineTaken FALSE | `Refuses` | handle_line_number goes on by a variable that is never set (compiler.c:234): a GOTO to a later line is refused |
| `MCLanguage` | ShortMax 15, four times GOTO over it | `IsProgram` | a line number of more than 15 bits, which help-e.txt:71-72 allows, spoils the record of the line (cmpdata.c:120) |
| `MCLanguage` | PRINT HEX$(VAL(A$(1))), ObjectSize 200 | `IsProgram` | default arguments are kept in one variable, which a nested call overwrites (functions.c:66, string.c:37; help-e.txt:272-273) |

Met while modelling, and not enumerated by any run:

* *Heap and strings.* `A$=ARGS$(1)` moves the argument's block into `A$`; PRINT of the same
  ARGS$ twice uses a block that was given back; `RETURN A$` of a VAR variable returns a pointer
  to a block var_pop gives back; an uninitialised string variable reads address 0.
* *Compiler.* A forward GOTO to a line without a number is refused, a backward one is not. `IF a
  THEN 10:PRINT` runs PRINT when a is false. `+(1)` is a syntax error, `-(1)` is not. EXEC, long
  DATA strings and DIM write code without check_object. Several VARs of one subroutine are
  popped by the first RETURN. READ begins with the DATA of the class files.
* *Music.* "=" after "'" sounds an octave low; `Q` sets `L` back to 1/8; five ","s on A are
  silent; a sound of period 65536 is a rest.
* *Files.* FPUTC(10) writes CR LF and returns 0 (help-e.txt:513); FFIND$ keeps a pointer to its
  argument (file.c:314); a change of the card is not noticed.
* *Editor.* Undo of a large deletion in a fragmented chain loses characters without a word;
  `else if (er=ERR_FILETOOBIG)` assigns. A text too long for the editor empties it but keeps the
  old name. A text loaded from `~TEMP.BAS` and saved is deleted at once (editor.c:2107). "Save"
  that is given up in new or load still discards the text. Between the removal
  of `~WORKDIR.TMP` (editor.c:2391) and the load of `~TEMP.BAS` a loss of power loses the text's
  recovery, against documents/keyboard-e.txt:3 (`Desk` calls this phase "returning").
* *Screen.* PALETTE, PCG and USEPCG do not repaint; SCROLL's memmove reads outside TVRAM
  (display.c:170), though what it reads is always emptied; a line longer than the page, typed in
  a narrow WIDTH, moves the cursor before TVRAM.
* *Network.* A late answer of the DNS writes a variable that is gone (withwifi.c:131), and NTP
  frees a state whose callback may come (picow_ntp_client.c:171); a TLS connection that fails
  leaves core 1 stopped.
* *Input and output.* The serial ring's write position overtakes the read position; SERIAL
  executed again writes into the old buffer with the new size.

## 5. What is proved

The theorems hold for every value of the constants that satisfies the module's assumption and,
where one is named, the theorem's own. TLC checked each inductive invariant on the run's
constants before it was proved.

**`MemoryProofs`** (`TypeCorrect`, `NoOverlapHolds`, `DeletedStayFreeHolds`, `OutOfMemoryHolds`,
`KeepsPromiseHolds`). `Good(h)` is the invariant of one heap record; a lemma for each operator
(allocate, delete, transfer, collect) shows that it preserves `Good`, and the theorems' steps,
one per action, put them together. It adds to `NoOverlap` what `alloc_memory` trusts: every
remembered area is in the heap and free (`DelFree`), and no two remembered areas overlap
(`DelApart`). Without the first a block could be given an area of a live one; without the
second, two blocks would be given the same words one after the other. An area that an allocation
touches is shortened or emptied (`DelAfterAllocFree`), the heart of the argument.
`OutOfMemoryHolds` needs that the last search is complete: a free area that is large enough
begins at the heap's begin or behind a block. `KeepsPromiseHolds` assumes that every size asked
for is below `SizeMod`: a heap of fewer than 65536 words.

**`Core1Proofs`** (`TypeCorrect`, `QuietWhenStopped`, `RestartsCallOnce`, `ChainsKeepPlace`,
`InTimeHolds`). `Handshake` relates the two flags to where each core is; `OnePlace`: a function
is in the table, in the mailbox or running, in one of them only; `EntryCalls`: the restart loop
has called what is before `slot` once and nothing behind it. `ChainsKeepPlace` counts: while a
function runs it is in no entry, so at most n - 1 entries are used. `OnePlace` rests on the
callers, none of which asks for a function that is already asked for, as usbkeyboard.c and
music.c use it. `InTimeHolds` accounts for a round of the loop by the set D of functions it
calls, each of them once: an entry that was not called is late by at most the calls of D, and
one that was called has its period less those of the others of D, so that it is not due again in
the same round. It assumes that the calls of all other functions fit in one period. A first
attempt failed because the history `asks` let a function that was still in the mailbox when core
1 went to sleep be asked for again; the history was corrected.

**`InterruptsProofs`** (`CodeAlwaysTells`, `NoEventIsLost`, `ChangesAreSeen`). The invariant
follows the 1/60 s callback through its stages: while a handler runs the callback is at the one
stage that follows the call and `g_interrupt_code` is what was saved; a flag that was raised
stays until its stage of the same tick, since the program does not run inside a tick, and a
handler that drops it gives the event up (which counts as served); the buttons of a tick are
kept for the next one or forgotten with the vector.

**`KeyboardProofs`** (`StatusHolds`, `OrderHolds`, `KeysHold`). `OrderHolds`: the ring, of any
size, holds what was typed and not read, each key once and in order, and drops only what does
not fit, also with two overlapping readers; taking a code out is one step because of the
semaphore. `KeysHold` adds that a reader gets its own key, and assumes one reader at a time.
`StatusHolds` needs that the report before the last leaves the status table before the last one
enters it. `NotIn`, the keys of a report that are not in another, is a recursive function of its
length: the proof shows that it can be computed by taking the least length for which it could
not.

**`MusicProofs`** (`TypeCorrect`, `TuneAnnouncedHolds`, `WholeTuneHolds`, `PlaysAsAskedHolds`),
for any tunes and effects and tables of any size. The assumptions are conditions on constants.
`Reenter = FALSE`, which section 4 shows to be needed. `Ordinary`:
lengths that come out even and fit in an entry (a unit `L` of at most 8/1, down to 1/32, at most
16 of it, two octaves up and down; an effect's lengths below `LenBound`). `TonesAsWritten`: the
numbers of the tables of tones and tempos of music.c are the pitches and tempos they stand for;
it has no variable, it is a conjunct of `PlaysAsAsked` itself, and the run evaluates it, for all
keys, letters and marks. The run's tunes and effects satisfy all three. Nothing is assumed about
ticks: they may come between any two stores. `PlaysAsAsked` holds until one comes at a moment of
`Parts`, which nothing in the code masks (section 4), and again from the start of the next program
(`Rested`, `Restarts`); the other theorems hold throughout.

The invariant has four parts. `Left`, `Room` and `Announced`: what a statement still owes is what
the rest of its text means in the style it has reached, and there is room in the ring for what
both statements owe, so that the ring never overtakes itself; when one note is left of a tune of
several, its end has been announced. `TuneInv`: the settings in registers mean the style of the
next item (`Corresponds`; a length is a fraction of the whole note, and `lvalue * den = qvalue *
num` is kept); a note that was read and not yet stored is the next one owed; and the place
`(mstart + i - 1) % NOTES` of the ring holds the i-th note still to be heard. `SoundInv`: what is
left of the table and its repetitions, seen as one sequence, is what is left of the effect; a tick
takes one tick from the head of either (`RestTicks`). `VoiceInv`: `g_pwm_wrap` is the period that
the PWM has, or 0, while the mode is MUSIC, because musicint sets the PWM only when the entry
changes; an ended program is silent. The style had to become that of the next item, not of the
end of the text, before this was inductive.

**`WaveProofs`** (`BufferHolds`, `PlaysFileHolds`, `EndsCleanHolds`, `RemainingHolds`). Two
invariants. `Aligned`: a read begins at the start of a half, or has nothing to read. It needs that
no read is under way while PLAYWAVE opens the file: for programs that wait for their files that
is proved (`Unasked`), whatever the card and core 1 do; for the others it is the assumption
`SlowRead = FALSE`, and section 4 shows what happens without it. `Course`, for a program that
waits for its files: which units of the file lie between the two positions, that one call of the
reader at most is pending, and that the reader is never late; it assumes that the lag is less
than half a buffer and no file shorter than that, and section 4 shows that both are needed.

**`SocketsProofs`** (`ConnectionsHold`, `ReceivedHold`, `SendsHold`). Connections and ids are
used in order; the next id is above all in use as long as a connection is to come; a program has
at most one client connection, `s_pcb`, and none while the list is emptied. The bytes that wait
for a key are cut into the data of its buffers (`Cut`). What a connection carries agrees with
what was asked so far (`SoFar`), the parts of the message in progress included, when only first
parts are compared (`SameUpToParts`): the next part starts again at the first byte, and when it
is not the first one, what it stands for lies behind the first part (`NextPart`). The theorems
assume `Allow = {}` and no more connections than ids (256); lengths are arbitrary, accepts come
before the mode is stored and while the FIFO is full, parts are refused, lwIP gives up
connections. `ConnectionsHold` is about ids that got into the FIFO; whom it had no room for is
not given (`AllTold`, section 4). The recursive functions over the list are reasoned about
without induction, by showing the function of the next list and taking the least place where two
would differ.

**`WorkspaceProofs`** (`SelectionHolds`, `DeskHolds`), assuming nothing of the user. He may go on
after a failure that moved him to another directory, or open ~TEMP.BAS: `astray` says so, and from
then on `Desk` lets any file be overwritten, until the text is saved, another loaded or a new one
begun. That a run gives the text back holds all the same. `NoneLost`, without the exception, fails
(section 4). The invariant has six parts. `Stack` gives the shape of `at`: who may wait for which
step. `Home` says where the text's own file is: in the current directory between two commands,
where `cwdpath` says during one, where `~WORKDIR.TMP` says while a program runs, unless the user
is astray. `Target`: what is about to be written over is the text's own file or one that was
agreed to, with the same exception. `Kept`: text and directory are put by where the end of `run()`
looks for them. `Shown` adds to `SelectionShown` that the list begins with a whole line, without
which KeyRight could leave the screen. `Types` has what these need of the data. `DeskHolds` is the
refinement: one lemma per kind of step of `Desk` says what a step of the editor must do to the
card and the histories to be that step, and one per command shows that its steps do it, or change
nothing `Desk` sees. Names, directories, columns, lines, the length of the list, failures and
losses of power are arbitrary.

## 6. What is only model-checked

* Liveness (`HandshakesEnd`, `WaveEnds`, `MusicMoves`, `TicksGoOn`): fairness and ENABLED are
  out of the prover's reach.
* `BuffersSound`, `CursorShown`, `IsDocument` (Editor); `VolumeSound`, `IsStore` (Storage);
  `CodeFits`, `Refuses`, `IsProgram` (Language); `ShowsText`, `IsPicture` (Display): what the
  operators compute is defined by recursion over the text, the FAT, the code or the picture, and
  their modules use recursive operators, which the prover cannot take.

Recursive functions over sequences of any length do occur in the proved modules (the notes a text
asks for, the keys of a report, the list of received buffers). Where the prover's library would
take an operator by induction, the proofs take the least number for which a fact fails, which
exists because `<` is well founded on the natural numbers (`LeastNumber`, `UpTo` of
`MusicProofs`).

What a proof could still reach: the chain of buffers of the editor, when its recursive operators
and its folds are written as functions; that cursor and screen stay together is needed for it.

## 7. What is not modelled

* In modelled components. Heap: an allocation interrupted by another. Core 1: `wait_core1_busy`
  (unused); a request just before a stop is lost with the mailbox. Music: SOUND in handlers, the
  overflow of the table (music.c:442, 540), wrong characters in a text. Interrupts: counter values
  and delays, CLEAR, the limit of the alarm pool, the callback that the NTSC video starts.
  Keyboard: shift keys, LEDs, layouts, the gamepad. Sockets: the wait for acknowledgements, which
  always ends, error numbers, statements in handlers. Editor: search, drawing, colours, failures
  while it starts. Its files: errors of f_read and f_close, which it ignores, and unchecked
  f_chdir and f_unlink; `.HEX` files; the program is taken not to touch the editor's files; the
  order of the list. Storage: FPUTC, FFIND, FINFO, FEOF, FLEN, FSEEK(), errors and removal of the
  card, time stamps, the second FAT, exFAT and long names. Language: floats, DIM, arguments of
  GOSUB, fields, methods and objects (READ scans the words of a class structure, which may look
  like a B or BL, as code, library.c:470; here they never do), the spelling of statements, and the
  attempts of the compiler: it compiles a statement as a LET, or an expression as an integer,
  fails, drops what it wrote with its records (`rewind_object`, compiler.c:117;
  `cmpdata_delete_invalid`, cmpdata.c:217) and tries the next kind; here the attempt that succeeds
  is made at once; division by zero, which has no meaning in C. Display: READ$, SPRINTF$, FLOAT$,
  the printing of numbers, window scrolling, a handler's PRINT inside the program's.
* `editor_ntsc.c` and `graphlib_ntsc.c` are near copies of what is modelled; other drivers, PWM,
  SPI, I2C and PUERULUS are registers and timing.
* TLS, DNS, NTP and WiFi start-up: what decides is outside the repository, and a late answer
  meets a dead stack frame, which has no meaning in a model.
* `io.c` and `rtc.c` are registers but for the serial ring; `pcconnect.c` is a serial file
  transfer outside a program; the hard-fault handler runs in exception context; help, hex loader
  and debug dump keep no state.
