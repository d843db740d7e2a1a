-------------------------------- MODULE Music --------------------------------
(***************************************************************************)
(* The MUSIC and SOUND queues of music.c.  The program (or the handler of  *)
(* the MUSIC interrupt) fills them statement by statement; musicint, every *)
(* 1/60 s, plays them.  What a text's items are worth is in module Tune,   *)
(* what they mean in module Score.                                         *)
(*                                                                         *)
(* The histories tune and effect say what was asked for and is still to be *)
(* heard, heard what the speaker should give since the last tick.          *)
(***************************************************************************)
EXTENDS Tune, SequencesExt

S == INSTANCE Score

CONSTANTS
  NOTES,         \* the entries of each table, 32
  Tunes,         \* what MUSIC is given: sequences of items
  Sounds,        \* what SOUND reads: [notes, repeat], a note
                 \* being [ticks, tone]
  LenBound,      \* a length in g_soundlen is kept modulo this (2^8)
  Waves,         \* does the program also play wave files?
  TickInStores,  \* may a tick part two stores that belong together?
  HandlerPlays,  \* does the MUSIC handler add a tune?
  Reenter        \* ... while the program is executing MUSIC?

ASSUME MusicAssumption ==
  /\ {NOTES, LenBound} \subseteq Nat \ {0}
  /\ Tunes \subseteq Seq(Items)
  /\ \A s \in Sounds : s.notes \in Seq([ticks : Nat \ {0}, tone : 2 .. Silent + 1])
                       /\ Len(s.notes) <= NOTES /\ s.repeat \in Nat
  /\ {Waves, TickInStores, HandlerPlays, Reenter} \subseteq BOOLEAN

Index == 0 .. NOTES - 1
Who == {"main", "irq"}
NoSound == [notes |-> << >>, repeat |-> 0]
NoNote == [len |-> 0, tone |-> 0]
Quiet == [pitch |-> {}, tone |-> {}]

VARIABLES
  mode,                          \* g_sound_mode
  musicnote, musiclen,           \* g_music, g_musiclen
  mstart, mend, mwait,           \* g_musicstart, g_musicend, g_musicwait
  settings,                      \* g_tones, g_qvalue, g_lvalue
  str,                           \* what set_music has still to read (g_mstr, g_mspos)
  soundnote, soundlen,           \* g_sound, g_soundlen
  sstart, send, swait, srepeat,  \* g_soundstart, g_soundend, g_soundwait, g_soundrepeat
  pwm_wrap, pwm,                 \* g_pwm_wrap; the PWM's cycles, and whether it is on
  data,                          \* what SOUND is to read
  at, read,                      \* where program and handler are, their len and tone
  style,                         \* history: the style of the next item
  tune, effect, heard,           \* history: see above
  peak, raised, covered,         \* history of this tune: the most notes in the ring,
                                 \* up to 2; was the flag raised; did a note begin
                                 \* under a sound effect
  owed,                          \* history: notes of the statement not yet added
  parted                         \* history: a tick came between two stores that
                                 \* belong together, since the program began

music == <<musicnote, musiclen, mstart, mend, mwait>>
sound == <<soundnote, soundlen, sstart, send, swait, srepeat>>
voice == <<pwm_wrap, pwm>>
text  == <<settings, str, data>>
hist  == <<style, tune, effect, heard, peak, raised, covered, owed, parted>>
vars  == <<mode, music, sound, voice, text, at, read, hist>>

Init ==
  /\ mode = "MUSIC"
  /\ musicnote = [i \in Index |-> 0] /\ musiclen = [i \in Index |-> 0]
  /\ mstart = 0 /\ mend = 0 /\ mwait = 0
  /\ soundnote = [i \in Index |-> 0] /\ soundlen = [i \in Index |-> 0]
  /\ sstart = 0 /\ send = 0 /\ swait = 0 /\ srepeat = 0
  /\ pwm_wrap = 0 /\ pwm = [cycles |-> 2048, on |-> FALSE]
  /\ settings = InitialSettings /\ str = << >> /\ data = NoSound
  /\ at = [w \in Who |-> "idle"] /\ read = [w \in Who |-> NoNote]
  /\ style = S!FirstStyle /\ heard = Quiet
  /\ tune = << >> /\ effect = << >> /\ peak = 0 /\ raised = FALSE /\ covered = FALSE
  /\ owed = [w \in Who |-> << >>] /\ parted = FALSE

\* MUSIC()
musicRemaining == (mend - mstart) % NOTES
Runs(w) == w = IF at["irq"] # "idle" THEN "irq" ELSE "main"
Goto(w, from, to) == Runs(w) /\ at[w] = from /\ at' = [at EXCEPT ![w] = to]
-----------------------------------------------------------------------------
(* MUSIC: set_music.                                                       *)

\* The program keeps to the documented 31 notes.
BeginMusic(w, t) ==
  /\ musicRemaining + Len(S!Meant(style, t)) < NOTES
  /\ str' = t /\ owed' = [owed EXCEPT ![w] = S!Meant(style, t)]

PlayMusic(t) ==
  /\ Goto("main", "idle", "parse") /\ BeginMusic("main", t)
  /\ UNCHANGED <<mode, music, sound, voice, settings, data, read, style,
                 tune, effect, heard, peak, raised, covered, parted>>

ReadSetting(w) ==
  /\ str # << >> /\ IsSetting(Head(str)) /\ Goto(w, "parse", "parse")
  /\ settings' = Set(settings, Head(str))
  /\ str' = Tail(str)
  /\ style' = S!Styled(style, Head(str))
  /\ UNCHANGED <<mode, music, sound, voice, data, read,
                 tune, effect, heard, peak, raised, covered, owed, parted>>

\* The tone and the length of the next note; the test of an empty ring.
ParseNote_waitKept(w) ==
  /\ str # << >> /\ ~IsSetting(Head(str)) /\ Goto(w, "parse", "store")
  /\ read' = [read EXCEPT ![w] = [len |-> Length(settings, Head(str)),
                                 tone |-> Tone(settings, Head(str))]]
  /\ str' = Tail(str)
  /\ UNCHANGED <<mode, music, sound, voice, settings, data, hist>>
ParseNote(w) ==
  /\ str # << >> /\ ~IsSetting(Head(str)) /\ Goto(w, "parse", "store")
  /\ read' = [read EXCEPT ![w] = [len |-> Length(settings, Head(str)),
                                 tone |-> Tone(settings, Head(str))]]
  /\ str' = Tail(str)
  /\ mwait' = IF mstart = mend THEN read'[w].len ELSE mwait
  /\ UNCHANGED <<mode, musicnote, musiclen, mstart, mend, sound, voice, settings, data, hist>>

StoreNote(w) ==
  /\ Goto(w, "store", "parse")
  /\ musicnote' = [musicnote EXCEPT ![mend] = Entry(read[w].tone)]
  /\ musiclen' = [musiclen EXCEPT ![mend] = read[w].len % Short]
  /\ mend' = (mend + 1) % NOTES
  /\ owed' = [owed EXCEPT ![w] = Tail(@)]
  /\ tune' = Append(tune, Head(owed[w]))
  /\ peak' = IF mstart = mend THEN 1 ELSE 2
  /\ raised' = (mstart # mend /\ raised)
  /\ covered' = (mstart # mend /\ covered)
  /\ read' = [read EXCEPT ![w] = NoNote]
  /\ UNCHANGED <<mode, mstart, mwait, sound, voice, text, style, effect, heard, parted>>

EndMusic(w) ==
  /\ str = << >> /\ Goto(w, "parse", "idle")
  /\ UNCHANGED <<mode, music, sound, voice, text, read, hist>>

set_music(w) == ReadSetting(w) \/ ParseNote(w) \/ StoreNote(w) \/ EndMusic(w)
-----------------------------------------------------------------------------
(* SOUND: set_sound.                                                       *)

Copies(n, s) == [i \in 1 .. n * Len(s) |-> s[((i - 1) % Len(s)) + 1]]
Greatest(m, n) == IF m <= n THEN n ELSE m

\* The previous effect is stopped first, so that no tick sees the table while
\* lib_read fills it.
BeginSound(s) ==
  /\ Goto("main", "idle", "fill")
  /\ data' = s
  /\ sstart' = 0 /\ send' = 0 /\ srepeat' = 0
  /\ effect' = << >>
  /\ UNCHANGED <<mode, music, soundnote, soundlen, swait, voice, settings, str, read,
                 style, tune, heard, peak, raised, covered, owed, parted>>

ReadSound ==
  /\ Goto("main", "fill", "wait")
  /\ soundnote' = [i \in Index |-> IF i < Len(data.notes) THEN Entry(data.notes[i + 1].tone)
                                   ELSE soundnote[i]]
  /\ soundlen' = [i \in Index |-> IF i < Len(data.notes) THEN data.notes[i + 1].ticks % LenBound
                                  ELSE soundlen[i]]
  /\ srepeat' = data.repeat
  /\ send' = Len(data.notes)
  /\ UNCHANGED <<mode, music, sstart, swait, voice, text, read, hist>>

\* From here on the effect is heard.
EndSound ==
  /\ Goto("main", "wait", "idle")
  /\ swait' = soundlen[0]
  /\ data' = NoSound
  /\ effect' = Copies(Greatest(1, data.repeat), data.notes)
  /\ UNCHANGED <<mode, music, soundnote, soundlen, sstart, send, srepeat, voice, settings,
                 str, read, style, tune, heard, peak, raised, covered, owed, parted>>

set_sound == ReadSound \/ EndSound
-----------------------------------------------------------------------------
(* Waves: the modes and the PWM only; the player is module Wave.           *)

set_wave ==
  /\ Waves /\ Goto("main", "idle", "idle")
  /\ mode' = "WAVE"
  /\ pwm' = [cycles |-> 256, on |-> TRUE]
  /\ UNCHANGED <<music, sound, pwm_wrap, text, read, hist>>
-----------------------------------------------------------------------------
(* The end and the start of a program.                                     *)

stop_music ==
  /\ mode' = "NONE"
  /\ mstart' = 0 /\ mend' = 0 /\ mwait' = 0
  /\ sstart' = 0 /\ send' = 0 /\ swait' = 0 /\ srepeat' = 0
  /\ pwm_wrap' = 0 /\ pwm' = [cycles |-> 2048, on |-> FALSE]
  /\ UNCHANGED <<musicnote, musiclen, soundnote, soundlen>>

EndProgram ==
  /\ at["irq"] = "idle" /\ at["main"] # "ended"
  /\ at' = [at EXCEPT !["main"] = "ended"]
  /\ stop_music
  /\ str' = << >> /\ data' = NoSound /\ read' = [w \in Who |-> NoNote]
  /\ tune' = << >> /\ effect' = << >> /\ heard' = Quiet /\ peak' = 0 /\ raised' = FALSE /\ covered' = FALSE
  /\ owed' = [w \in Who |-> << >>]
  /\ UNCHANGED <<settings, style, parted>>

init_music ==
  /\ Goto("main", "ended", "idle")
  /\ mode' = "MUSIC"
  /\ settings' = InitialSettings /\ style' = S!FirstStyle
  /\ parted' = FALSE
  /\ UNCHANGED <<music, sound, voice, str, data, read, tune, effect, heard,
                 peak, raised, covered, owed>>

-----------------------------------------------------------------------------
(* Every 1/60 s: musicint.                                                 *)

\* One tick less of the first note of a sequence.
TickOff(s) == IF s = << >> THEN s
              ELSE IF Head(s).ticks > 1
                   THEN <<[Head(s) EXCEPT !.ticks = @ - 1]>> \o Tail(s) ELSE Tail(s)

SoundOn == sstart # send
MusicOn == mstart # mend

\* The PWM is set anew only when the entry is another one than last time.
Play(entry) ==
  IF entry = Silent
  THEN pwm' = [pwm EXCEPT !.on = FALSE] /\ UNCHANGED pwm_wrap
  ELSE /\ pwm' = [cycles |-> IF entry = pwm_wrap THEN pwm.cycles ELSE entry, on |-> TRUE]
       /\ pwm_wrap' = entry

PlayVoice ==
  Play(IF SoundOn THEN soundnote[sstart] ELSE IF MusicOn THEN musicnote[mstart] ELSE Silent)

PlaySound ==
  IF swait > 1
  THEN swait' = swait - 1 /\ UNCHANGED <<sstart, send, srepeat>>
  ELSE LET last == sstart + 1 = send \/ sstart + 1 = NOTES
           done == last /\ srepeat <= 1 IN
       /\ sstart' = IF last THEN 0 ELSE sstart + 1
       /\ send' = IF done THEN 0 ELSE send
       /\ srepeat' = IF done THEN 0 ELSE IF last THEN srepeat - 1 ELSE srepeat
       /\ swait' = IF done THEN 0 ELSE soundlen[sstart']

PlayNote_unwrapped ==
  /\ IF mwait > 1
     THEN mwait' = mwait - 1 /\ UNCHANGED mstart
     ELSE /\ mstart' = IF mstart + 1 \in Index THEN mstart + 1 ELSE mstart
          /\ mwait' = musiclen[mstart']
  /\ UNCHANGED <<musicnote, musiclen, mend>>
PlayNote ==
  /\ IF mwait > 1
     THEN mwait' = mwait - 1 /\ UNCHANGED mstart
     ELSE mstart' = (mstart + 1) % NOTES /\ mwait' = musiclen[mstart']
  /\ UNCHANGED <<musicnote, musiclen, mend>>

\* The last note begins.  Under a sound, this is not looked at.
Raises_late == ~SoundOn /\ MusicOn /\ mwait <= 1 /\ (mstart + 1) % NOTES = mend
Raises == ~SoundOn /\ MusicOn /\ mwait <= 1 /\ (mstart + 2) % NOTES = mend

\* The MUSIC handler runs in the same interrupt.
Handler ==
  \/ UNCHANGED <<at, str, owed>>
  \/ /\ HandlerPlays /\ Raises
     /\ Reenter \/ at["main"] \notin {"parse", "store"}
     /\ \E t \in Tunes :
          /\ musicRemaining' + Len(S!Meant(style, t)) < NOTES
          /\ at' = [at EXCEPT !["irq"] = "parse"]
          /\ str' = t /\ owed' = [owed EXCEPT !["irq"] = S!Meant(style, t)]

\* What is to be heard until the next tick: the effect before the tune.
Voice == IF effect # << >> THEN [Quiet EXCEPT !.tone = {Head(effect).tone} \ {Silent + 1}]
         ELSE IF tune # << >> THEN [Quiet EXCEPT !.pitch = Head(tune).pitch]
         ELSE Quiet

\* A tick that comes between two stores of the program is harmless but for two
\* moments: it ends the last note while MUSIC, which found that note in the ring,
\* stores another one and not g_musicwait; or it sees the end of SOUND's table
\* before g_soundwait is set.
Parts ==
  \/ at["main"] = "store" /\ MusicOn /\ mwait <= 1 /\ (mstart + 1) % NOTES = mend
  \/ at["main"] = "wait" /\ SoundOn

musicint ==
  /\ at["irq"] = "idle" /\ mode = "MUSIC"
  /\ TickInStores \/ ~Parts
  /\ parted' = (parted \/ Parts)
  /\ PlayVoice
  /\ IF SoundOn THEN PlaySound /\ UNCHANGED <<soundnote, soundlen>> ELSE UNCHANGED sound
  /\ IF MusicOn THEN PlayNote ELSE UNCHANGED music
  /\ tune' = TickOff(tune) /\ effect' = TickOff(effect) /\ heard' = Voice
  /\ raised' = (raised \/ Raises)
  /\ covered' = (covered \/ (SoundOn /\ mstart' # mstart))
  /\ Handler
  /\ UNCHANGED <<mode, settings, data, read, style, peak>>

EndOfWave ==
  /\ at["irq"] = "idle" /\ mode = "WAVE"
  /\ mode' = "NONE"
  /\ UNCHANGED <<music, sound, voice, text, at, read, hist>>
-----------------------------------------------------------------------------
Statement ==
  \/ \E t \in Tunes : PlayMusic(t)
  \/ \E s \in Sounds : BeginSound(s)
  \/ set_wave

Next ==
  \/ Statement \/ EndProgram \/ init_music
  \/ \E w \in Who : set_music(w)
  \/ set_sound
  \/ musicint \/ EndOfWave

Spec == Init /\ [][Next]_vars

\* The 1/60 s interrupt keeps coming, however often the program is between two
\* stores that it would part; a file that is played ends; and a statement
\* that was begun is carried on.
FairSpec ==
  /\ Spec
  /\ SF_vars(musicint) /\ WF_vars(EndOfWave)
  /\ WF_vars(\E w \in Who : set_music(w)) /\ WF_vars(set_sound)
-----------------------------------------------------------------------------
(* Properties.                                                             *)

\* The counters, the lengths in both tables, the notes of the effect and the
\* settings keep their type.
Counters ==
  /\ mode \in {"NONE", "MUSIC", "WAVE"}
  /\ mstart \in Index /\ mend \in Index
  /\ sstart \in Index /\ send \in 0 .. NOTES
  /\ swait \in Nat /\ mwait \in Nat /\ srepeat \in Nat
Rows == {CMajor} \cup {musicSetK(k) : k \in Keys}
Tables ==
  /\ musiclen \in [Index -> 0 .. Short - 1] /\ DOMAIN musicnote = Index
  /\ soundlen \in [Index -> 0 .. LenBound - 1] /\ soundnote \in [Index -> 0 .. Silent]
  /\ settings \in [tones : Rows, qvalue : Nat, lvalue : Nat]
TypeOK == Counters /\ Tables

\* The ring and musicint play the notes that MUSIC was given, in order, each
\* at its pitch and for its length, in the key, the tempo and the unit of length
\* set before it, whether a sound covers them or not.
IsTone(entry, pitch) ==
  IF pitch = {} THEN entry = Silent ELSE \A p \in pitch : S!SoundsAs(entry + 1, p)
TuneAsAsked ==
  /\ musicRemaining = Len(tune)
  /\ \A i \in DOMAIN tune :
       LET j == (mstart + i - 1) % NOTES IN
       /\ tune[i].ticks = IF i = 1 THEN mwait ELSE musiclen[j]
       /\ IsTone(musicnote[j], tune[i].pitch)

\* The sound table and musicint play the notes that SOUND was given, in order,
\* each for its own length, as many times as asked for.
Once == [i \in 1 .. send |-> [ticks |-> soundlen[i - 1], tone |-> soundnote[i - 1] + 1]]
Rest == IF SoundOn
        THEN <<[Once[sstart + 1] EXCEPT !.ticks = swait]>>
               \o SubSeq(Once, sstart + 2, send) \o Copies(srepeat - 1, Once)
        ELSE << >>
SoundAsAsked == at["main"] # "wait" => Rest = effect

\* The speaker gives the effect, else the tune, else nothing; a tone may be a
\* cycle too short.
VoiceAsAsked ==
  mode = "MUSIC" =>
    /\ pwm.on <=> heard # Quiet
    /\ \A t \in heard.tone : pwm.cycles \in {t - 1, t}
    /\ \A p \in heard.pitch : S!SoundsAs(pwm.cycles, p)

\* In every key every letter sounds as it should, with any of the marks, two
\* octaves up and down, and a cycle is not heard; every tempo is the nearest
\* one there is; and a program begins in C major.
MarkedNotes == [letter : Letters, up : 0 .. 2, down : 0 .. 2, mark : {"", "^", "_", "="},
                times : {0}, over : {0}]
TonesAsWritten ==
  /\ \A k \in Keys : \A n \in MarkedNotes : (n.mark = "=" => n.up = 0) =>
       LET tone == Tone([InitialSettings EXCEPT !.tones = musicSetK(k)], n) IN
       /\ tone \in 2 .. Silent
       /\ \A p \in S!Pitch(S!KeyOf(k), n) : S!SoundsAs(tone, p) /\ S!SoundsAs(tone - 1, p)
  /\ \A n \in 1 .. 250 : musicSetQ(n) = S!Whole(S!Tempo(n))
  /\ \E k \in Keys : InitialSettings.tones = musicSetK(k) /\ S!FirstStyle.key = S!KeyOf(k)

\* All of this holds until a tick parts two stores that belong together, which
\* nothing in the code prevents (README, section 4).
PlaysAsAsked ==
  TypeOK /\ TonesAsWritten /\ (~parted => TuneAsAsked /\ SoundAsAsked /\ VoiceAsAsked)

\* The MUSIC interrupt is raised before the last note of a tune of several
\* notes ends, however the tune was put together, unless the note began under
\* a sound effect.
TuneEnds == MusicOn /\ mstart' = mend' /\ mode' = "MUSIC"
TuneAnnounced == [][TuneEnds => peak < 2 \/ raised \/ covered]_vars

\* It is raised in every tune.
EveryTuneAnnounced == [][TuneEnds => raised]_vars

\* Every note of a MUSIC statement enters the ring.
WholeTune == \A w \in Who : at[w] = "idle" => owed[w] = << >>

\* No note stays in the ring for ever while the player is in its music mode ...
MusicMoves ==
  \A i \in Index : MusicOn /\ mstart = i ~> ~MusicOn \/ mstart # i \/ mode # "MUSIC"

\* ... nor at all.
MusicIsHeard == \A i \in Index : MusicOn /\ mstart = i ~> ~MusicOn \/ mstart # i
=============================================================================
