----------------------------- MODULE MusicProofs -----------------------------
(***************************************************************************)
(* MUSIC and SOUND for any tunes and effects, and tables of any size: what *)
(* was asked for is played, and the end of a tune is announced.            *)
(***************************************************************************)
EXTENDS Music, SequenceTheorems, WellFoundedInduction, TLAPS

\* What the variables hold.
Numbers == {S!KeyOf(k) : k \in Keys} \cup {S!FirstStyle.key}
Tempos == {S!Tempo(n) : n \in Nat} \cup {S!FirstStyle.tempo}
Styles == [key : Numbers, tempo : Tempos, num : Nat, den : Nat \ {0}]
Asks == [ticks : {S!Asked(st, n).ticks : st \in Styles, n \in Notes} \cup Nat,
         pitch : {S!Pitch(k, n) : k \in Numbers, n \in Notes}]

Types ==
  /\ Counters
  /\ musiclen \in [Index -> Nat] /\ DOMAIN musicnote = Index
  /\ soundlen \in [Index -> Nat] /\ DOMAIN soundnote = Index
  /\ settings \in [tones : Rows, qvalue : Nat, lvalue : Nat]
  /\ str \in Seq(Items) /\ data \in Sounds \cup {NoSound}
  /\ at \in [Who -> {"idle", "parse", "store", "fill", "wait", "ended"}]
  /\ at["irq"] \in {"idle", "parse", "store"}
  /\ DOMAIN read = Who /\ \A w \in Who : read[w].len \in Nat
-----------------------------------------------------------------------------
(* Arithmetic.                                                             *)

\* A place that leaves the ring at one end comes in at the other.
LEMMA Modulo ==
  ASSUME NEW a \in Int, -NOTES <= a, a < 2 * NOTES
  PROVE  a % NOTES = IF a < 0 THEN a + NOTES ELSE IF a < NOTES THEN a ELSE a - NOTES
BY MusicAssumption

\* A set of natural numbers that is not empty has a least element.
LEMMA LeastNumber ==
  ASSUME NEW T, T \subseteq Nat, T # {}
  PROVE  \E x \in T : \A y \in T : x <= y
<1> DEFINE R == OpToRel(<, Nat)
<1>1. IsWellFoundedOn(R, Nat)
  BY NatLessThanWellFounded
<1>2. PICK x \in T : \A y \in T : ~(<<y, x>> \in R)
  <2> HIDE DEF R
  <2> QED BY <1>1, WFMin
<1>3. ASSUME NEW y \in T PROVE x <= y
  <2>1. ~(y < x)
    BY <1>2 DEF OpToRel
  <2> QED BY <2>1
<1> QED BY <1>3

\* What holds of 0, and of n + 1 when it holds of n < m, holds up to m.
LEMMA UpTo ==
  ASSUME NEW m \in Nat, NEW T, 0 \in T, \A n \in 0 .. m - 1 : n \in T => n + 1 \in T
  PROVE  0 .. m \subseteq T
<1> DEFINE Bad == {n \in 0 .. m : n \notin T}
<1> SUFFICES ASSUME Bad # {} PROVE FALSE
  OBVIOUS
<1>1. PICK n \in Bad : \A k \in Bad : n <= k
  <2> HIDE DEF Bad
  <2>1. Bad \subseteq Nat
    BY DEF Bad
  <2> QED BY <2>1, LeastNumber
<1>2. n # 0 /\ n \in 1 .. m
  BY <1>1
<1>3. n - 1 \in 0 .. m - 1 /\ n - 1 \notin Bad
  BY <1>1, <1>2
<1>4. n - 1 \in T /\ (n - 1) + 1 = n
  BY <1>2, <1>3
<1> QED BY <1>1, <1>3, <1>4

\* Quotients and remainders are numbers.
LEMMA Quotient ==
  ASSUME NEW a \in Nat, NEW b \in Nat \ {0}
  PROVE  a \div b \in Nat /\ a % b \in 0 .. b - 1
OBVIOUS
-----------------------------------------------------------------------------
(* Items and settings.                                                     *)

\* A whole note lasts a number of ticks.
LEMMA WholeNotes ==
  ASSUME NEW n \in Int
  PROVE  musicSetQ(n) \in {320, 288, 256, 224, 192, 160, 128, 96, 64}
BY DEF musicSetQ

\* A setting is not a note.
LEMMA ItemKinds ==
  ASSUME NEW it \in Items
  PROVE  /\ IsSetting(it) => it \in Settings
         /\ ~IsSetting(it) => it \in Notes /\ (it.mark = "=" => it.up = 0 /\ it.letter # "z")
BY DEF Items, Settings, Notes, IsSetting

\* The four kinds of settings.
LEMMA SettingKinds ==
  ASSUME NEW it \in Settings
  PROVE  \/ it.set = "K" /\ it.key \in Keys
         \/ it.set = "Q" /\ it.n \in Nat
         \/ it.set = "L" /\ it.n \in Nat /\ it.m \in Nat \ {0}
         \/ it.set = "M"
BY DEF Settings

\* A setting leaves settings.
LEMMA SetType ==
  ASSUME NEW s \in [tones : Rows, qvalue : Nat, lvalue : Nat], NEW it \in Settings
  PROVE  Set(s, it) \in [tones : Rows, qvalue : Nat, lvalue : Nat]
<1>1. CASE it.set = "K" /\ it.key \in Keys
  BY <1>1 DEF Set, Rows
<1>2. CASE it.set = "Q" /\ it.n \in Nat
  <2>1. musicSetQ(it.n) \in Nat /\ Eighth(musicSetQ(it.n)) \in Nat
    BY <1>2, WholeNotes DEF Eighth
  <2>2. Set(s, it) = [s EXCEPT !.qvalue = musicSetQ(it.n), !.lvalue = Eighth(musicSetQ(it.n))]
    BY <1>2 DEF Set
  <2> QED BY <2>1, <2>2
<1>3. CASE it.set = "L" /\ it.n \in Nat /\ it.m \in Nat \ {0}
  <2>1. s.qvalue * it.n \in Nat
    BY <1>3
  <2>2. musicSetL(s.qvalue, it.n, it.m) \in Nat
    BY <1>3, <2>1, Quotient DEF musicSetL
  <2>3. Set(s, it) = [s EXCEPT !.lvalue = musicSetL(s.qvalue, it.n, it.m)]
    BY <1>3 DEF Set
  <2> QED BY <2>2, <2>3
<1>4. CASE it.set = "M"
  BY <1>4 DEF Set
<1> QED BY <1>1, <1>2, <1>3, <1>4, SettingKinds

\* A note lasts a number of ticks.
LEMMA LengthType ==
  ASSUME NEW s, s.lvalue \in Nat, NEW n \in Notes
  PROVE  Length(s, n) \in Nat
<1>1. n.times \in Nat /\ n.over \in Nat
  BY DEF Notes
<1>2. (IF n.times = 0 THEN s.lvalue ELSE s.lvalue * n.times) \in Nat
  BY <1>1
<1> QED BY <1>1, <1>2, Quotient DEF Length
\* The notes of an effect.
Effect == [ticks : Nat \ {0}, tone : 2 .. Silent + 1]
LEMMA Effects ==
  ASSUME NEW s \in Sounds
  PROVE  /\ s.notes \in Seq(Effect) /\ Len(s.notes) \in 0 .. NOTES /\ s.repeat \in Nat
         /\ \A i \in 1 .. Len(s.notes) : s.notes[i] \in Effect /\ s.notes[i].ticks \in Nat \ {0}
<1>1. s.notes \in Seq(Effect) /\ Len(s.notes) <= NOTES /\ s.repeat \in Nat
  BY MusicAssumption DEF Effect
<1>2. NOTES \in Nat /\ Len(s.notes) \in Nat
  BY <1>1, MusicAssumption
<1>3. ASSUME NEW i \in 1 .. Len(s.notes) PROVE s.notes[i] \in Effect
  BY <1>1, <1>3, ElementOfSeq
<1> QED BY <1>1, <1>2, <1>3 DEF Effect
-----------------------------------------------------------------------------
(* The types.                                                              *)

\* The settings a program begins with.
LEMMA FirstSettings == InitialSettings \in [tones : Rows, qvalue : Nat, lvalue : Nat]
BY DEF InitialSettings, Rows

\* Every step of MUSIC keeps the types.
LEMMA MusicTypes ==
  ASSUME Types, NEW w \in Who, set_music(w)
  PROVE  Types'
<1> USE DEF Types, Counters, Index
<1>1. CASE ReadSetting(w)
  <2>1. Head(str) \in Items /\ Tail(str) \in Seq(Items) /\ Head(str) \in Settings
    BY <1>1, ItemKinds DEF ReadSetting
  <2>2. Set(settings, Head(str)) \in [tones : Rows, qvalue : Nat, lvalue : Nat]
    BY <2>1, SetType
  <2> QED BY <1>1, <2>1, <2>2 DEF ReadSetting, Goto, Runs, Who, music, sound, voice
<1>2. CASE ParseNote(w)
  <2>1. Head(str) \in Items /\ Tail(str) \in Seq(Items) /\ Head(str) \in Notes
    BY <1>2, ItemKinds DEF ParseNote
  <2>2. Length(settings, Head(str)) \in Nat
    BY <2>1, LengthType
  <2>3. read'[w].len \in Nat /\ \A v \in Who : read'[v].len \in Nat
    BY <1>2, <2>2 DEF ParseNote
  <2> QED BY <1>2, <2>1, <2>3 DEF ParseNote, Goto, Runs, Who, sound, voice
<1>3. CASE StoreNote(w)
  <2>1. read[w].len % Short \in Nat
    BY DEF Short
  <2>2. (mend + 1) % NOTES \in 0 .. NOTES - 1
    BY MusicAssumption
  <2>3. \A v \in Who : read'[v].len \in Nat
    BY <1>3 DEF StoreNote, NoNote
  <2> QED BY <1>3, <2>1, <2>2, <2>3 DEF StoreNote, Goto, Runs, Who, sound, voice, text
<1>4. CASE EndMusic(w)
  BY <1>4 DEF EndMusic, Goto, Runs, Who, music, sound, voice, text
<1> QED BY <1>1, <1>2, <1>3, <1>4 DEF set_music

\* Every step of SOUND keeps the types.
LEMMA SoundTypes ==
  ASSUME Types, set_sound \/ \E s \in Sounds : BeginSound(s)
  PROVE  Types'
<1> USE MusicAssumption DEF Types, Counters, Index
<1>1. ASSUME NEW s \in Sounds, BeginSound(s) PROVE Types'
  BY <1>1 DEF BeginSound, Goto, Runs, Who, music, voice
<1>2. CASE ReadSound
  <2>1. CASE data \in Sounds
    <3>1. data.repeat \in Nat /\ Len(data.notes) \in 0 .. NOTES
      BY <2>1
    <3>2. ASSUME NEW i \in Index, i < Len(data.notes)
          PROVE  data.notes[i + 1].ticks % LenBound \in Nat
      <4>1. i + 1 \in 1 .. Len(data.notes)
        BY <3>1, <3>2
      <4>2. data.notes[i + 1].ticks \in Nat
        BY <2>1, <4>1, Effects
      <4>3. data.notes[i + 1].ticks % LenBound \in 0 .. LenBound - 1 /\ LenBound \in Nat
        BY <4>2, Quotient
      <4> HIDE DEF Types, Counters
      <4> QED BY <4>3
    <3>3. soundlen' \in [Index -> Nat] /\ DOMAIN soundnote' = Index
      BY <1>2, <3>2 DEF ReadSound
    <3> QED BY <1>2, <3>1, <3>3 DEF ReadSound, Goto, Runs, Who, music, voice, text
  <2>2. CASE data = NoSound
    <3>1. data.repeat = 0 /\ Len(data.notes) = 0
      BY <2>2 DEF NoSound
    <3>2. soundlen' \in [Index -> Nat] /\ DOMAIN soundnote' = Index
      BY <1>2, <3>1 DEF ReadSound
    <3> QED BY <1>2, <2>2, <3>1, <3>2 DEF ReadSound, Goto, Runs, Who, music, voice, text
  <2> QED BY <2>1, <2>2
<1>3. CASE EndSound
  <2>1. 0 \in Index
    OBVIOUS
  <2> QED BY <1>3, <2>1 DEF EndSound, Goto, Runs, Who, music, voice
<1> QED BY <1>1, <1>2, <1>3 DEF set_sound

\* A tick keeps the types.
LEMMA TickTypes ==
  ASSUME Types, musicint
  PROVE  Types'
<1> USE MusicAssumption DEF Types, Counters, Index
<1>1. swait' \in Nat /\ sstart' \in Index /\ send' \in 0 .. NOTES /\ srepeat' \in Nat
      /\ soundlen' = soundlen /\ soundnote' = soundnote
  <2>1. CASE ~SoundOn
    BY <2>1 DEF musicint, sound
  <2>2. CASE SoundOn /\ swait > 1
    BY <2>2 DEF musicint, PlaySound
  <2>3. CASE SoundOn /\ ~(swait > 1)
    <3>1. sstart' \in Index /\ send' \in 0 .. NOTES /\ srepeat' \in Nat
      BY <2>3 DEF musicint, PlaySound
    <3>2. soundlen[sstart'] \in Nat
      BY <3>1
    <3> QED BY <2>3, <3>1, <3>2 DEF musicint, PlaySound
  <2> QED BY <2>1, <2>2, <2>3
<1>2. mwait' \in Nat /\ mstart' \in Index /\ mend' = mend
      /\ musiclen' = musiclen /\ musicnote' = musicnote
  <2>1. CASE ~MusicOn
    BY <2>1 DEF musicint, music
  <2>2. CASE MusicOn
    <3>1. (mstart + 1) % NOTES \in Index
      OBVIOUS
    <3> QED BY <2>2, <3>1 DEF musicint, PlayNote
  <2> QED BY <2>1, <2>2
<1>3. /\ str' \in Seq(Items) /\ at' \in [Who -> {"idle", "parse", "store", "fill", "wait", "ended"}]
      /\ at'["irq"] \in {"idle", "parse", "store"}
  BY DEF musicint, Handler, Who
<1> QED BY <1>1, <1>2, <1>3 DEF musicint

\* Every step keeps the types.
LEMMA NextTypes ==
  ASSUME Types, [Next]_vars
  PROVE  Types'
<1> USE DEF Types, Counters, Index
<1>1. ASSUME NEW t \in Tunes, PlayMusic(t) PROVE Types'
  <2>1. t \in Seq(Items)
    BY MusicAssumption
  <2> QED BY <1>1, <2>1 DEF PlayMusic, BeginMusic, Goto, Runs, Who, music, sound, voice
<1>2. CASE set_wave
  BY <1>2 DEF set_wave, Goto, Runs, Who, music, sound, text
<1>3. CASE EndProgram
  <2>1. 0 \in Index /\ 0 \in 0 .. NOTES
    BY MusicAssumption
  <2>2. str' \in Seq(Items)
    BY <1>3 DEF EndProgram
  <2> QED BY <1>3, <2>1, <2>2 DEF EndProgram, stop_music, Who, NoNote
<1>4. CASE init_music
  BY <1>4, FirstSettings DEF init_music, Goto, Runs, Who, music, sound, voice
<1>5. CASE EndOfWave
  BY <1>5 DEF EndOfWave, music, sound, voice, text
<1>6. CASE UNCHANGED vars
  BY <1>6 DEF vars, music, sound, voice, text
<1> QED BY <1>1, <1>2, <1>3, <1>4, <1>5, <1>6, MusicTypes, SoundTypes, TickTypes DEF Next, Statement

\* ... and so do the tables.
LEMMA TablesKept ==
  ASSUME Types, Tables, [Next]_vars
  PROVE  Tables'
<1>1. settings' \in [tones : Rows, qvalue : Nat, lvalue : Nat] /\ DOMAIN musicnote' = Index
  BY NextTypes DEF Types
<1>2. musiclen' = musiclen \/ \E w \in Who : StoreNote(w)
  <2>1. Next => musiclen' = musiclen \/ \E w \in Who : StoreNote(w)
    BY DEF Next, Statement, PlayMusic, BeginSound, set_wave, EndProgram, stop_music, init_music, set_music,
           ReadSetting, ParseNote, EndMusic, set_sound, ReadSound, EndSound, musicint, PlayNote, EndOfWave, music
  <2> QED BY <2>1 DEF vars, music
<1>3. musiclen' \in [Index -> 0 .. Short - 1]
  <2>1. ASSUME NEW w \in Who, StoreNote(w) PROVE musiclen' \in [Index -> 0 .. Short - 1]
    <3>1. read[w].len % Short \in 0 .. Short - 1
      <4>1. read[w].len \in Nat /\ Short \in Nat \ {0}
        BY DEF Types, Short
      <4> QED BY <4>1, Quotient
    <3>2. musiclen' = [musiclen EXCEPT ![mend] = read[w].len % Short]
      BY <2>1 DEF StoreNote
    <3> QED BY <3>1, <3>2 DEF Tables
  <2> QED BY <1>2, <2>1 DEF Tables
<1>4. (soundlen' = soundlen /\ soundnote' = soundnote) \/ ReadSound
  <2>1. Next => (soundlen' = soundlen /\ soundnote' = soundnote) \/ ReadSound
    BY DEF Next, Statement, PlayMusic, BeginSound, set_wave, EndProgram, stop_music, init_music, set_music,
           ReadSetting, ParseNote, StoreNote, EndMusic, set_sound, EndSound, musicint, EndOfWave, sound
  <2> QED BY <2>1 DEF vars, sound
<1>5. ASSUME ReadSound
      PROVE  soundlen' \in [Index -> 0 .. LenBound - 1] /\ soundnote' \in [Index -> 0 .. Silent]
  <2>1. ASSUME NEW i \in Index, i < Len(data.notes)
        PROVE  /\ data.notes[i + 1].ticks % LenBound \in 0 .. LenBound - 1
               /\ Entry(data.notes[i + 1].tone) \in 0 .. Silent
    <3>1. data \in Sounds
      <4>1. data # NoSound
        BY <2>1 DEF NoSound, Index
      <4> QED BY <4>1 DEF Types
    <3> DEFINE k == i + 1
    <3>2. k \in 1 .. Len(data.notes)
      BY <2>1, <3>1, Effects DEF Index
    <3> HIDE DEF k
    <3>3. data.notes[k] \in Effect
      BY <3>1, <3>2, Effects
    <3> DEFINE ticks == data.notes[k].ticks
               tone == data.notes[k].tone
    <3>4. ticks \in Nat /\ tone \in 2 .. Silent + 1
      BY <3>3 DEF Effect
    <3> HIDE DEF ticks, tone
    <3>5. ticks % LenBound \in 0 .. LenBound - 1
      BY <3>4, MusicAssumption, Quotient
    <3>6. Entry(tone) \in 0 .. Silent
      <4> DEFINE cycles == tone - 1
      <4>1. cycles \in Nat /\ Short \in Nat \ {0}
        BY <3>4 DEF Short
      <4> HIDE DEF cycles
      <4>2. cycles % Short \in 0 .. Short - 1
        BY <4>1, Quotient
      <4> QED BY <4>2 DEF Entry, Silent, cycles
    <3> QED BY <3>5, <3>6 DEF ticks, tone, k
  <2>2. soundnote' = [i \in Index |-> IF i < Len(data.notes) THEN Entry(data.notes[i + 1].tone)
                                     ELSE soundnote[i]]
    BY <1>5 DEF ReadSound
  <2>3. soundlen' = [i \in Index |-> IF i < Len(data.notes) THEN data.notes[i + 1].ticks % LenBound
                                    ELSE soundlen[i]]
    BY <1>5 DEF ReadSound
  <2>4. soundnote' \in [Index -> 0 .. Silent]
    BY <2>1, <2>2 DEF Tables
  <2>5. soundlen' \in [Index -> 0 .. LenBound - 1]
    BY <2>1, <2>3 DEF Tables
  <2> QED BY <2>4, <2>5
<1> QED BY <1>1, <1>3, <1>4, <1>5 DEF Tables

\* The tables may be empty and silent.
LEMMA Limits == 0 \in 0 .. Short - 1 /\ 0 \in 0 .. LenBound - 1 /\ 0 \in 0 .. Silent
<1>1. 0 \in 0 .. Short - 1 /\ 0 \in 0 .. Silent
  BY DEF Short, Silent
<1>2. LenBound \in Nat \ {0}
  BY MusicAssumption
<1>3. 0 \in 0 .. LenBound - 1
  BY <1>2
<1> QED BY <1>1, <1>3

\* The counters, the lengths in both tables, the notes of the effect and the
\* settings keep their types, whatever the tunes, the effects and the points at
\* which ticks and handlers come.
THEOREM TypeCorrect == Spec => []TypeOK
<1>1. Init => Types /\ Tables
  <2>1. 0 \in Index /\ 0 \in 0 .. NOTES /\ << >> \in Seq(Items)
    BY MusicAssumption DEF Index
  <2>2. 0 \in 0 .. Short - 1 /\ 0 \in 0 .. LenBound - 1 /\ 0 \in 0 .. Silent
    BY Limits
  <2>3. Init => Types
    BY <2>1, FirstSettings DEF Init, Types, Counters, Who, NoNote
  <2> QED BY <2>2, <2>3, FirstSettings DEF Init, Tables
<1>2. Types /\ Tables /\ [Next]_vars => (Types /\ Tables)'
  BY NextTypes, TablesKept
<1>3. Types /\ Tables => TypeOK
  BY DEF Types, TypeOK
<1> QED BY <1>1, <1>2, <1>3, PTL DEF Spec
-----------------------------------------------------------------------------
(* What a text asks for.                                                   *)

\* The first n steps of Reading.
IsReading(f, st, items, n) ==
  f = [i \in 0 .. n |-> IF i = 0 THEN [style |-> st, notes |-> << >>] ELSE S!Read(f[i - 1], items[i])]

\* Reading can be computed.
LEMMA ReadingExists ==
  ASSUME NEW st, NEW items, NEW m \in Nat
  PROVE  \E f : IsReading(f, st, items, m)
<1> DEFINE Can == {n \in Nat : \E f : IsReading(f, st, items, n)}
<1>1. 0 \in Can
  <2> DEFINE f == [i \in 0 .. 0 |-> [style |-> st, notes |-> << >>]]
  <2>1. IsReading(f, st, items, 0)
    BY DEF IsReading
  <2> QED BY <2>1
<1>2. ASSUME NEW n \in 0 .. m - 1, n \in Can PROVE n + 1 \in Can
  <2>1. n \in Nat /\ n + 1 \in Nat
    OBVIOUS
  <2>2. PICK g : IsReading(g, st, items, n)
    BY <1>2
  <2> DEFINE next == S!Read(g[n], items[n + 1])
             f == [i \in 0 .. n + 1 |-> IF i = n + 1 THEN next ELSE g[i]]
  <2>3. \A i \in 0 .. n :
          g[i] = IF i = 0 THEN [style |-> st, notes |-> << >>] ELSE S!Read(g[i - 1], items[i])
    BY <2>1, <2>2 DEF IsReading
  <2>4. ASSUME NEW i \in 0 .. n + 1
        PROVE  f[i] = IF i = 0 THEN [style |-> st, notes |-> << >>] ELSE S!Read(f[i - 1], items[i])
    <3>1. CASE i = n + 1
      <4>1. f[n + 1] = next /\ f[(n + 1) - 1] = g[n]
        BY <2>1
      <4> QED BY <2>1, <3>1, <4>1
    <3>2. CASE i # n + 1 /\ i # 0
      <4>1. f[i] = g[i] /\ f[i - 1] = g[i - 1] /\ i \in 0 .. n
        BY <2>1, <3>2
      <4> HIDE DEF f, next
      <4> QED BY <2>3, <3>2, <4>1
    <3>3. CASE i # n + 1 /\ i = 0
      BY <2>1, <2>3, <3>3
    <3> QED BY <3>1, <3>2, <3>3
  <2>5. IsReading(f, st, items, n + 1)
    <3>1. f = [i \in 0 .. n + 1 |-> f[i]]
      OBVIOUS
    <3> HIDE DEF f
    <3> QED BY <2>4, <3>1 DEF IsReading
  <2> QED BY <2>1, <2>5
<1>3. 0 .. m \subseteq Can
  <2> HIDE DEF Can
  <2> QED BY <1>1, <1>2, UpTo
<1> QED BY <1>3

\* What Reading computes.
LEMMA ReadingSteps ==
  ASSUME NEW st, NEW items \in Seq(Items)
  PROVE  LET f == S!Reading(st, items) IN
         /\ f[0] = [style |-> st, notes |-> << >>]
         /\ \A i \in 1 .. Len(items) : f[i] = S!Read(f[i - 1], items[i])
<1>1. Len(items) \in Nat
  OBVIOUS
<1>2. \E f : IsReading(f, st, items, Len(items))
  BY <1>1, ReadingExists
<1>3. IsReading(S!Reading(st, items), st, items, Len(items))
  BY <1>2 DEF IsReading, S!Reading
<1> QED BY <1>1, <1>3 DEF IsReading

\* A text of no items asks for no notes.
LEMMA MeantNothing ==
  ASSUME NEW st
  PROVE  S!Meant(st, << >>) = << >>
<1>1. << >> \in Seq(Items) /\ Len(<< >>) = 0
  OBVIOUS
<1>2. S!Reading(st, << >>)[0] = [style |-> st, notes |-> << >>]
  BY <1>1, ReadingSteps
<1> QED BY <1>1, <1>2 DEF S!Meant

\* The style behind an item, and the notes the item asks for.
StyleBehind(st, it) == IF IsSetting(it) THEN S!Styled(st, it) ELSE st
NotesOf(st, it) == IF IsSetting(it) THEN << >> ELSE <<S!Asked(st, it)>>

LEMMA ReadOne ==
  ASSUME NEW st, NEW notes \in Seq(Asks), NEW it,
         ~IsSetting(it) => S!Asked(st, it) \in Asks
  PROVE  S!Read([style |-> st, notes |-> notes], it)
           = [style |-> StyleBehind(st, it), notes |-> notes \o NotesOf(st, it)]
<1>1. CASE IsSetting(it)
  BY <1>1 DEF S!Read, StyleBehind, NotesOf, IsSetting
<1>2. CASE ~IsSetting(it)
  <2>1. Append(notes, S!Asked(st, it)) = notes \o <<S!Asked(st, it)>>
    BY <1>2
  <2>2. S!Read([style |-> st, notes |-> notes], it)
          = [style |-> st, notes |-> Append(notes, S!Asked(st, it))]
    BY <1>2 DEF S!Read, IsSetting
  <2> QED BY <1>2, <2>1, <2>2 DEF StyleBehind, NotesOf
<1> QED BY <1>1, <1>2

\* The style behind an item is a style, and what a note asks for is a note.
LEMMA StyleType ==
  ASSUME NEW st \in Styles, NEW it \in Items
  PROVE  /\ IsSetting(it) => S!Styled(st, it) \in Styles
         /\ StyleBehind(st, it) \in Styles
         /\ ~IsSetting(it) => S!Asked(st, it) \in Asks
         /\ NotesOf(st, it) \in Seq(Asks)
<1>1. ASSUME IsSetting(it) PROVE S!Styled(st, it) \in Styles
  <2>1. it \in Settings
    BY <1>1, ItemKinds
  <2>2. CASE it.set = "K" /\ it.key \in Keys
    BY <2>2 DEF S!Styled, Styles, Numbers
  <2>3. CASE it.set = "Q" /\ it.n \in Nat
    <3>1. S!Tempo(it.n) \in Tempos
      BY <2>3 DEF Tempos
    <3> DEFINE tempo == S!Tempo(it.n)
    <3>2. S!Styled(st, it) = [st EXCEPT !.tempo = tempo, !.num = 1, !.den = 8]
      BY <2>3 DEF S!Styled
    <3> HIDE DEF tempo
    <3>3. S!Styled(st, it) = [key |-> st.key, tempo |-> tempo, num |-> 1, den |-> 8]
      BY <3>2 DEF Styles
    <3>4. tempo \in Tempos /\ st.key \in Numbers
      BY <3>1 DEF tempo, Styles
    <3> QED BY <3>3, <3>4 DEF Styles
  <2>4. CASE it.set = "L" /\ it.n \in Nat /\ it.m \in Nat \ {0}
    BY <2>4 DEF S!Styled, Styles
  <2>5. CASE it.set = "M"
    BY <2>5 DEF S!Styled
  <2> QED BY <2>1, <2>2, <2>3, <2>4, <2>5, SettingKinds
<1>2. ASSUME ~IsSetting(it) PROVE S!Asked(st, it) \in Asks
  <2>1. it \in Notes
    BY <1>2, ItemKinds
  <2>2. st.key \in Numbers
    BY DEF Styles
  <2>3. S!Asked(st, it).ticks \in {S!Asked(s, n).ticks : s \in Styles, n \in Notes}
    BY <2>1
  <2>4. S!Pitch(st.key, it) \in {S!Pitch(k, n) : k \in Numbers, n \in Notes}
    BY <2>1, <2>2
  <2>5. S!Asked(st, it) = [ticks |-> S!Asked(st, it).ticks, pitch |-> S!Pitch(st.key, it)]
    BY DEF S!Asked
  <2> HIDE DEF S!Asked
  <2> QED BY <2>3, <2>4, <2>5 DEF Asks
<1> QED BY <1>1, <1>2 DEF StyleBehind, NotesOf

\* What is read after each item, from the second on, is what the rest of the
\* text asks for in the style behind the first item.
LEMMA ReadingRest ==
  ASSUME NEW st \in Styles, NEW items \in Seq(Items), items # << >>
  PROVE  LET f == S!Reading(st, items)
             g == S!Reading(StyleBehind(st, Head(items)), Tail(items))
             first == NotesOf(st, Head(items))
         IN  \A i \in 0 .. Len(items) - 1 :
               /\ g[i] = [style |-> g[i].style, notes |-> g[i].notes]
               /\ g[i].style \in Styles /\ g[i].notes \in Seq(Asks)
               /\ f[i + 1] = [style |-> g[i].style, notes |-> first \o g[i].notes]
<1> DEFINE it == Head(items)
           rest == Tail(items)
           f == S!Reading(st, items)
           g == S!Reading(StyleBehind(st, it), rest)
           first == NotesOf(st, it)
           Same == {i \in 0 .. Len(items) - 1 :
                      \E s \in Styles, ns \in Seq(Asks) :
                        /\ g[i] = [style |-> s, notes |-> ns]
                        /\ f[i + 1] = [style |-> s, notes |-> first \o ns]}
<1>1. /\ it \in Items /\ rest \in Seq(Items) /\ Len(items) - 1 \in Nat
      /\ Len(rest) = Len(items) - 1 /\ items[1] = it
      /\ \A i \in 1 .. Len(rest) : rest[i] = items[i + 1] /\ rest[i] \in Items
  BY HeadTailProperties, ElementOfSeq
<1>2. StyleBehind(st, it) \in Styles /\ first \in Seq(Asks) /\ << >> \in Seq(Asks)
  BY <1>1, StyleType
<1>3. /\ f[0] = [style |-> st, notes |-> << >>]
      /\ \A i \in 1 .. Len(items) : f[i] = S!Read(f[i - 1], items[i])
  BY ReadingSteps
<1>4. /\ g[0] = [style |-> StyleBehind(st, it), notes |-> << >>]
      /\ \A i \in 1 .. Len(rest) : g[i] = S!Read(g[i - 1], rest[i])
  BY <1>1, ReadingSteps
<1> HIDE DEF f, g
<1>5. 0 \in Same
  <2>1. 1 \in 1 .. Len(items) /\ f[1] = S!Read(f[0], it)
    BY <1>1, <1>3
  <2>2. f[1] = [style |-> StyleBehind(st, it), notes |-> << >> \o first]
    <3>1. ~IsSetting(it) => S!Asked(st, it) \in Asks
      BY <1>1, StyleType
    <3>2. S!Read([style |-> st, notes |-> << >>], it)
            = [style |-> StyleBehind(st, it), notes |-> << >> \o NotesOf(st, it)]
      BY <1>2, <3>1, ReadOne
    <3> QED BY <1>3, <2>1, <3>2
  <2>3. << >> \o first = first /\ first \o << >> = first
    BY <1>2
  <2>4. g[0] = [style |-> StyleBehind(st, it), notes |-> << >>] /\ 0 \in 0 .. Len(items) - 1
        /\ f[0 + 1] = [style |-> StyleBehind(st, it), notes |-> first \o << >>]
    BY <1>1, <1>4, <2>2, <2>3
  <2> HIDE DEF first, it
  <2> QED BY <1>2, <2>4
<1>6. ASSUME NEW i \in 0 .. Len(items) - 2, i \in Same PROVE i + 1 \in Same
  <2>1. PICK s \in Styles, ns \in Seq(Asks) :
          /\ g[i] = [style |-> s, notes |-> ns]
          /\ f[i + 1] = [style |-> s, notes |-> first \o ns]
    BY <1>6
  <2>2. i + 1 \in 1 .. Len(rest) /\ i + 2 \in 1 .. Len(items) /\ (i + 1) - 1 = i /\ (i + 2) - 1 = i + 1
        /\ i + 1 \in 0 .. Len(items) - 1 /\ (i + 1) + 1 = i + 2
    BY <1>1
  <2> DEFINE x == rest[i + 1]
  <2>3. x \in Items /\ g[i + 1] = S!Read(g[i], x) /\ f[i + 2] = S!Read(f[i + 1], x)
    BY <1>1, <1>3, <1>4, <2>2
  <2> HIDE DEF x
  <2>4. first \o ns \in Seq(Asks) /\ NotesOf(s, x) \in Seq(Asks) /\ StyleBehind(s, x) \in Styles
        /\ ns \o NotesOf(s, x) \in Seq(Asks)
    BY <1>2, <2>1, <2>3, StyleType
  <2>5. g[i + 1] = [style |-> StyleBehind(s, x), notes |-> ns \o NotesOf(s, x)]
    <3>1. ~IsSetting(x) => S!Asked(s, x) \in Asks
      BY <2>1, <2>3, StyleType
    <3>2. S!Read([style |-> s, notes |-> ns], x)
            = [style |-> StyleBehind(s, x), notes |-> ns \o NotesOf(s, x)]
      BY <2>1, <3>1, ReadOne
    <3> QED BY <2>1, <2>3, <3>2
  <2>6. f[i + 2] = [style |-> StyleBehind(s, x), notes |-> (first \o ns) \o NotesOf(s, x)]
    <3>1. ~IsSetting(x) => S!Asked(s, x) \in Asks
      BY <2>1, <2>3, StyleType
    <3>2. S!Read([style |-> s, notes |-> first \o ns], x)
            = [style |-> StyleBehind(s, x), notes |-> (first \o ns) \o NotesOf(s, x)]
      <4> HIDE DEF first
      <4> QED BY <2>1, <2>4, <3>1, ReadOne
    <3> QED BY <2>1, <2>3, <3>2
  <2>7. (first \o ns) \o NotesOf(s, x) = first \o (ns \o NotesOf(s, x))
    BY <1>2, <2>1, <2>4, ConcatAssociative
  <2> QED BY <2>2, <2>4, <2>5, <2>6, <2>7
<1>7. 0 .. Len(items) - 1 \subseteq Same
  <2>1. (Len(items) - 1) - 1 = Len(items) - 2
    BY <1>1
  <2> HIDE DEF Same
  <2> QED BY <1>1, <1>5, <1>6, <2>1, UpTo
<1>8. ASSUME NEW i \in 0 .. Len(items) - 1
      PROVE  /\ g[i] = [style |-> g[i].style, notes |-> g[i].notes]
             /\ g[i].style \in Styles /\ g[i].notes \in Seq(Asks)
             /\ f[i + 1] = [style |-> g[i].style, notes |-> first \o g[i].notes]
  <2>1. PICK s \in Styles, ns \in Seq(Asks) :
          /\ g[i] = [style |-> s, notes |-> ns]
          /\ f[i + 1] = [style |-> s, notes |-> first \o ns]
    BY <1>7
  <2> QED BY <2>1
<1> QED BY <1>8 DEF f, g

\* The notes of a text: those of the first item, then those of the rest.
LEMMA MeantRest ==
  ASSUME NEW st \in Styles, NEW items \in Seq(Items), items # << >>
  PROVE  LET rest == S!Meant(StyleBehind(st, Head(items)), Tail(items)) IN
         rest \in Seq(Asks) /\ S!Meant(st, items) = NotesOf(st, Head(items)) \o rest
<1>1. Len(items) - 1 \in Nat /\ Len(Tail(items)) = Len(items) - 1
      /\ (Len(items) - 1) + 1 = Len(items) /\ Len(items) - 1 \in 0 .. Len(items) - 1
  OBVIOUS
<1> DEFINE g == S!Reading(StyleBehind(st, Head(items)), Tail(items))
           last == Len(items) - 1
<1>2. /\ g[last].notes \in Seq(Asks)
      /\ S!Reading(st, items)[last + 1]
           = [style |-> g[last].style, notes |-> NotesOf(st, Head(items)) \o g[last].notes]
  <2> HIDE DEF last
  <2>1. last \in 0 .. Len(items) - 1
    BY <1>1 DEF last
  <2> QED BY <2>1, ReadingRest
<1>3. g[last].notes = S!Meant(StyleBehind(st, Head(items)), Tail(items))
  BY <1>1 DEF S!Meant
<1>4. S!Reading(st, items)[last + 1].notes = S!Meant(st, items)
  BY <1>1 DEF S!Meant
<1> HIDE DEF g, last
<1> QED BY <1>2, <1>3, <1>4

\* What a text asks for is notes.
LEMMA MeantType ==
  ASSUME NEW st \in Styles, NEW items \in Seq(Items)
  PROVE  S!Meant(st, items) \in Seq(Asks)
<1>1. CASE items = << >>
  <2>1. << >> \in Seq(Asks)
    OBVIOUS
  <2> QED BY <1>1, <2>1, MeantNothing
<1>2. CASE items # << >>
  <2>1. Head(items) \in Items
    BY <1>2
  <2>2. NotesOf(st, Head(items)) \in Seq(Asks)
    BY <2>1, StyleType
  <2>3. PICK rest \in Seq(Asks) : S!Meant(st, items) = NotesOf(st, Head(items)) \o rest
    BY <1>2, MeantRest
  <2> QED BY <2>2, <2>3
<1> QED BY <1>1, <1>2
-----------------------------------------------------------------------------
(* The notes that are still to be stored, and the announcement.            *)

Reads == {"parse", "store"}

\* What is left of a statement is what the rest of its text asks for.
Owes(w) ==
  CASE at[w] = "parse" -> owed[w] = S!Meant(style, str)
    [] at[w] = "store" -> owed[w] # << >> /\ Tail(owed[w]) = S!Meant(style, str)
    [] OTHER -> owed[w] = << >>

Left ==
  /\ style \in Styles /\ owed \in [Who -> Seq(Asks)]
  /\ \A w \in Who : Owes(w)
  /\ at["irq"] # "idle" => at["main"] \notin Reads

\* There is room in the ring for all of them.
Debt(w) == Len(owed[w])
Room == musicRemaining + (Debt("main") + Debt("irq")) < NOTES

\* When one note is left of a tune of several, its end has been announced.
Announced ==
  /\ peak \in 0 .. 2 /\ raised \in BOOLEAN /\ covered \in BOOLEAN
  /\ musicRemaining = 1 /\ peak = 2 => raised \/ covered

QInv == Types /\ Left /\ Room /\ Announced
-----------------------------------------------------------------------------
(* The ring.                                                               *)

\* The number of notes in the ring.
LEMMA Count ==
  ASSUME NEW a \in Index, NEW b \in Index
  PROVE  /\ (b - a) % NOTES = IF a <= b THEN b - a ELSE b - a + NOTES
         /\ (b - a) % NOTES \in 0 .. NOTES - 1
         /\ (b - a) % NOTES = 0 <=> a = b
         /\ (a + 1) % NOTES = IF a + 1 = NOTES THEN 0 ELSE a + 1
         /\ (a + 1) % NOTES \in Index
<1>1. NOTES \in Nat \ {0} /\ a \in 0 .. NOTES - 1 /\ b \in 0 .. NOTES - 1
  BY MusicAssumption DEF Index
<1>2. (b - a) % NOTES = IF b - a < 0 THEN b - a + NOTES ELSE IF b - a < NOTES THEN b - a ELSE b - a - NOTES
  <2> DEFINE x == b - a
  <2>1. x \in Int /\ -NOTES <= x /\ x < 2 * NOTES
    BY <1>1
  <2> HIDE DEF x
  <2>2. x % NOTES = IF x < 0 THEN x + NOTES ELSE IF x < NOTES THEN x ELSE x - NOTES
    BY <2>1, Modulo
  <2> QED BY <1>1, <2>1, <2>2 DEF x
<1>3. (a + 1) % NOTES = IF a + 1 < NOTES THEN a + 1 ELSE a + 1 - NOTES
  <2> DEFINE x == a + 1
  <2>1. x \in Int /\ -NOTES <= x /\ x < 2 * NOTES /\ ~(x < 0)
    BY <1>1
  <2> HIDE DEF x
  <2>2. x % NOTES = IF x < NOTES THEN x ELSE x - NOTES
    BY <2>1, Modulo
  <2> QED BY <1>1, <2>1, <2>2 DEF x
<1> HIDE DEF Index
<1> QED BY <1>1, <1>2, <1>3 DEF Index

\* A note more, a note less.
LEMMA CountMore ==
  ASSUME NEW a \in Index, NEW b \in Index, ((b - a) % NOTES) + 1 < NOTES
  PROVE  (((b + 1) % NOTES) - a) % NOTES = ((b - a) % NOTES) + 1
<1>1. NOTES \in Nat \ {0} /\ a \in 0 .. NOTES - 1 /\ b \in 0 .. NOTES - 1
  BY MusicAssumption DEF Index
<1> DEFINE c == (b + 1) % NOTES
<1>2. c \in Index /\ c = IF b + 1 = NOTES THEN 0 ELSE b + 1
  BY Count
<1> HIDE DEF c
<1>3. (c - a) % NOTES = IF a <= c THEN c - a ELSE c - a + NOTES
  BY <1>2, Count
<1>4. (b - a) % NOTES = IF a <= b THEN b - a ELSE b - a + NOTES
  BY Count
<1>5. (c - a) % NOTES = ((b - a) % NOTES) + 1
  BY <1>1, <1>2, <1>3, <1>4
<1> QED BY <1>5 DEF c

LEMMA CountLess ==
  ASSUME NEW a \in Index, NEW b \in Index, a # b
  PROVE  (b - ((a + 1) % NOTES)) % NOTES = ((b - a) % NOTES) - 1
<1>1. NOTES \in Nat \ {0} /\ a \in 0 .. NOTES - 1 /\ b \in 0 .. NOTES - 1
  BY MusicAssumption DEF Index
<1> DEFINE c == (a + 1) % NOTES
<1>2. c \in Index /\ c = IF a + 1 = NOTES THEN 0 ELSE a + 1
  BY Count
<1> HIDE DEF c
<1>3. (b - c) % NOTES = IF c <= b THEN b - c ELSE b - c + NOTES
  BY <1>2, Count
<1>4. (b - a) % NOTES = IF a <= b THEN b - a ELSE b - a + NOTES
  BY Count
<1>5. (b - c) % NOTES = ((b - a) % NOTES) - 1
  BY <1>1, <1>2, <1>3, <1>4
<1> QED BY <1>5 DEF c

\* The last note of the ring begins two places before its end.
LEMMA CountTwo ==
  ASSUME NEW a \in Index, NEW b \in Index, (b - a) % NOTES = 2
  PROVE  (a + 2) % NOTES = b
<1>1. NOTES \in Nat \ {0} /\ a \in 0 .. NOTES - 1 /\ b \in 0 .. NOTES - 1
  BY MusicAssumption DEF Index
<1>2. (b - a) % NOTES = IF a <= b THEN b - a ELSE b - a + NOTES
  BY Count
<1>3. (a + 2) % NOTES = IF a + 2 < NOTES THEN a + 2 ELSE a + 2 - NOTES
  <2>1. (b - a) % NOTES \in 0 .. NOTES - 1
    BY Count
  <2> DEFINE x == a + 2
  <2>2. x \in Int /\ -NOTES <= x /\ x < 2 * NOTES /\ ~(x < 0)
    BY <1>1, <2>1
  <2> HIDE DEF x
  <2>3. x % NOTES = IF x < NOTES THEN x ELSE x - NOTES
    BY <2>2, Modulo
  <2> QED BY <1>1, <2>2, <2>3 DEF x
<1> QED BY <1>1, <1>2, <1>3
-----------------------------------------------------------------------------
(* The steps.                                                              *)

\* The ring of the state.
LEMMA Ring ==
  ASSUME Types
  PROVE  /\ NOTES \in Nat \ {0} /\ mstart \in 0 .. NOTES - 1 /\ mend \in 0 .. NOTES - 1
         /\ musicRemaining \in 0 .. NOTES - 1
         /\ musicRemaining = 0 <=> mstart = mend
<1>1. mstart \in Index /\ mend \in Index
  BY DEF Types, Counters
<1>2. /\ musicRemaining \in 0 .. NOTES - 1
      /\ musicRemaining = 0 <=> mstart = mend
  BY <1>1, Count DEF musicRemaining
<1> QED BY <1>1, <1>2, MusicAssumption DEF Index

\* What is owed, counted.
LEMMA Debts ==
  ASSUME Left
  PROVE  /\ Debt("main") \in Nat /\ Debt("irq") \in Nat
         /\ \A w \in Who : Debt(w) <= Debt("main") + Debt("irq")
<1>1. Debt("main") \in Nat /\ Debt("irq") \in Nat
  <2>1. owed["main"] \in Seq(Asks) /\ owed["irq"] \in Seq(Asks)
    BY DEF Left, Who
  <2> QED BY <2>1 DEF Debt
<1>2. Debt("main") <= Debt("main") + Debt("irq") /\ Debt("irq") <= Debt("main") + Debt("irq")
  BY <1>1
<1>3. ASSUME NEW w \in Who PROVE Debt(w) <= Debt("main") + Debt("irq")
  <2>1. w = "main" \/ w = "irq"
    BY DEF Who
  <2> QED BY <1>2, <2>1
<1> QED BY <1>1, <1>3

\* The state of the program and of the handler after a step of one of them.
LEMMA Goes ==
  ASSUME Types, NEW w \in Who, NEW from, NEW to, Goto(w, from, to)
  PROVE  /\ at[w] = from /\ at'[w] = to
         /\ \A v \in Who \ {w} : at'[v] = at[v]
         /\ w = "main" => at["irq"] = "idle"
         /\ w = "irq" => at["irq"] # "idle"
BY DEF Goto, Runs, Types, Who

\* A note that is stored is one more in the ring.
LEMMA StoreAdds ==
  ASSUME Types, Left, Room, NEW w \in Who, StoreNote(w)
  PROVE  musicRemaining' = musicRemaining + 1 /\ musicRemaining' < NOTES
<1>1. at[w] = "store"
  BY Goes DEF StoreNote
<1>2. owed[w] \in Seq(Asks) /\ owed[w] # << >>
  BY <1>1 DEF Left, Owes
<1>3. Debt(w) \in Nat \ {0}
  BY <1>2 DEF Debt
<1>4. /\ Debt("main") \in Nat /\ Debt("irq") \in Nat /\ NOTES \in Nat
      /\ musicRemaining \in Nat /\ Debt(w) <= Debt("main") + Debt("irq")
  BY Ring, Debts
<1>5. musicRemaining + 1 < NOTES
  BY <1>3, <1>4 DEF Room
<1>6. ((mend - mstart) % NOTES) + 1 < NOTES /\ mstart \in Index /\ mend \in Index
  BY <1>5 DEF musicRemaining, Types, Counters
<1>7. (((mend + 1) % NOTES) - mstart) % NOTES = ((mend - mstart) % NOTES) + 1
  BY <1>6, CountMore
<1>8. musicRemaining' = musicRemaining + 1
  BY <1>7 DEF StoreNote, musicRemaining
<1> QED BY <1>5, <1>8

\* A statement of MUSIC that was read item by item stores what it owes.
LEMMA MusicQueues ==
  ASSUME QInv, NEW w \in Who, set_music(w), Types'
  PROVE  Left' /\ Room' /\ Announced'
<1> USE DEF QInv
<1>1. str \in Seq(Items) /\ style \in Styles /\ owed \in [Who -> Seq(Asks)]
  BY DEF Types, Left
<1>2. CASE ReadSetting(w)
  <2>1. at[w] = "parse" /\ at' = at /\ Head(str) \in Items /\ IsSetting(Head(str)) /\ str # << >>
    BY <1>1, <1>2, Goes DEF ReadSetting, Goto, Types, Who
  <2>2. style' \in Styles /\ style' = StyleBehind(style, Head(str))
    BY <1>1, <1>2, <2>1, StyleType DEF ReadSetting, StyleBehind
  <2>3. S!Meant(style', str') = S!Meant(style, str)
    <3>1. NotesOf(style, Head(str)) = << >> /\ str' = Tail(str)
      BY <1>2, <2>1 DEF NotesOf, ReadSetting
    <3> QED BY <1>1, <2>1, <2>2, <3>1, MeantRest
  <2>4. \A v \in Who \ {w} : at[v] \notin Reads
    BY <1>2, <2>1 DEF ReadSetting, Left, Who, Reads, Goto, Runs
  <2>5. \A v \in Who : Owes(v)'
    BY <1>2, <2>1, <2>3, <2>4 DEF ReadSetting, Owes, Left, Reads
  <2> QED BY <1>2, <2>1, <2>2, <2>5
       DEF ReadSetting, Left, Room, Debt, Announced, musicRemaining, music, Reads
<1>3. CASE ParseNote(w)
  <2>1. /\ at[w] = "parse" /\ at'[w] = "store" /\ (\A v \in Who \ {w} : at'[v] = at[v])
        /\ w = "main" => at["irq"] = "idle"
        /\ Head(str) \in Items /\ ~IsSetting(Head(str)) /\ str # << >>
    BY <1>1, <1>3, Goes DEF ParseNote
  <2>2. owed[w] = <<S!Asked(style, Head(str))>> \o S!Meant(style, Tail(str))
        /\ S!Meant(style, Tail(str)) \in Seq(Asks)
    <3>1. owed[w] = S!Meant(style, str)
      BY <2>1 DEF Left, Owes
    <3>2. NotesOf(style, Head(str)) = <<S!Asked(style, Head(str))>> /\ StyleBehind(style, Head(str)) = style
      BY <2>1 DEF NotesOf, StyleBehind
    <3> QED BY <1>1, <2>1, <3>1, <3>2, MeantRest
  <2>3. owed[w] # << >> /\ Tail(owed[w]) = S!Meant(style, str')
    BY <1>3, <2>2 DEF ParseNote
  <2>4. \A v \in Who \ {w} : at[v] \notin Reads
    BY <1>3, <2>1 DEF Left, Who, Reads
  <2>5. /\ owed' = owed /\ style' = style /\ mstart' = mstart /\ mend' = mend
        /\ peak' = peak /\ raised' = raised /\ covered' = covered
    BY <1>3 DEF ParseNote, hist
  <2>6. \A v \in Who : Owes(v)'
    BY <2>1, <2>3, <2>4, <2>5 DEF Owes, Left, Reads
  <2>7. musicRemaining' = musicRemaining
    BY <2>5 DEF musicRemaining
  <2>8. Left'
    BY <1>1, <2>1, <2>4, <2>5, <2>6 DEF Left, Reads, Who
  <2> QED BY <2>5, <2>7, <2>8 DEF Room, Debt, Announced
<1>4. CASE StoreNote(w)
  <2>1. /\ at[w] = "store" /\ at'[w] = "parse" /\ (\A v \in Who \ {w} : at'[v] = at[v])
        /\ w = "main" => at["irq"] = "idle"
    BY <1>4, Goes DEF StoreNote
  <2>2. owed[w] \in Seq(Asks) /\ owed[w] # << >> /\ Tail(owed[w]) = S!Meant(style, str)
    BY <1>1, <2>1 DEF Left, Owes
  <2>3. owed' = [owed EXCEPT ![w] = Tail(owed[w])] /\ str' = str /\ style' = style
    BY <1>4 DEF StoreNote, text
  <2>4. /\ Debt(w)' = Debt(w) - 1 /\ Debt(w) \in Nat \ {0}
        /\ owed' \in [Who -> Seq(Asks)] /\ \A v \in Who \ {w} : owed'[v] = owed[v]
    BY <1>1, <2>2, <2>3 DEF Debt
  <2>5. \A v \in Who \ {w} : at[v] \notin Reads
    BY <1>4, <2>1 DEF Left, Who, Reads
  <2>6. \A v \in Who : Owes(v)'
    BY <1>1, <2>1, <2>2, <2>3, <2>4, <2>5 DEF Owes, Left, Reads
  <2>7. Left'
    BY <2>1, <2>3, <2>4, <2>5, <2>6 DEF Left, Reads, Who
  <2>8. mstart \in Index /\ mend \in Index /\ mend' = (mend + 1) % NOTES /\ mstart' = mstart
    BY <1>4 DEF StoreNote, Types, Counters
  <2>9. /\ Debt("main") \in Nat /\ Debt("irq") \in Nat /\ NOTES \in Nat
        /\ musicRemaining \in Nat /\ (mstart = mend <=> musicRemaining = 0)
        /\ Debt(w) <= Debt("main") + Debt("irq")
    BY Ring, Debts
  <2>10. musicRemaining' = musicRemaining + 1
    BY <1>4, StoreAdds
  <2>11. Room'
    <3> HIDE DEF Owes
    <3>1. CASE w = "main"
      <4>1. Debt("irq")' = Debt("irq") /\ Debt("main")' = Debt("main") - 1
        BY <2>4, <3>1 DEF Who, Debt
      <4> QED BY <2>9, <2>10, <4>1 DEF Room
    <3>2. CASE w = "irq"
      <4>1. Debt("main")' = Debt("main") /\ Debt("irq")' = Debt("irq") - 1
        BY <2>4, <3>2 DEF Who, Debt
      <4> QED BY <2>9, <2>10, <4>1 DEF Room
    <3> QED BY <3>1, <3>2 DEF Who
  <2>12. Announced'
    <3>1. peak' = (IF mstart = mend THEN 1 ELSE 2) /\ raised' \in BOOLEAN /\ covered' \in BOOLEAN
      BY <1>4 DEF StoreNote, Announced
    <3>2. musicRemaining' = 1 => peak' = 1
      BY <2>9, <2>10, <3>1
    <3> QED BY <3>1, <3>2 DEF Announced
  <2> QED BY <2>7, <2>11, <2>12
<1>5. CASE EndMusic(w)
  <2>1. /\ at[w] = "parse" /\ at'[w] = "idle" /\ (\A v \in Who \ {w} : at'[v] = at[v])
        /\ str = << >>
    BY <1>5, Goes DEF EndMusic
  <2>2. owed[w] = << >>
    BY <2>1, MeantNothing DEF Left, Owes
  <2>3. \A v \in Who \ {w} : at[v] \notin Reads
    BY <1>5, <2>1, Goes DEF EndMusic, Left, Who, Reads
  <2>4. \A v \in Who : Owes(v)'
    BY <1>5, <2>1, <2>2, <2>3 DEF EndMusic, Owes, Left, Reads, hist, text
  <2> QED BY <1>5, <2>1, <2>3, <2>4
       DEF EndMusic, Left, Room, Debt, Announced, musicRemaining, music, Reads, Who, hist
<1> QED BY <1>2, <1>3, <1>4, <1>5 DEF set_music

\* A statement that asks for no more notes than there is room for.
LEMMA BeginQueues ==
  ASSUME QInv, NEW t \in Tunes, PlayMusic(t)
  PROVE  Left' /\ Room' /\ Announced'
<1>1. /\ at["main"] = "idle" /\ at'["main"] = "parse" /\ at["irq"] = "idle" /\ at'["irq"] = "idle"
  BY Goes DEF PlayMusic, Who, QInv
<1>2. t \in Seq(Items) /\ S!Meant(style, t) \in Seq(Asks)
  BY MusicAssumption, MeantType DEF QInv, Left
<1>3. owed' = [owed EXCEPT !["main"] = S!Meant(style, t)] /\ str' = t /\ style' = style
      /\ musicRemaining + Len(S!Meant(style, t)) < NOTES /\ musicRemaining' = musicRemaining
  BY DEF PlayMusic, BeginMusic, musicRemaining, music
<1>4. owed["irq"] = << >>
  BY <1>1 DEF QInv, Left, Owes, Who
<1>5. owed' \in [Who -> Seq(Asks)] /\ owed'["main"] = S!Meant(style, t) /\ owed'["irq"] = << >>
  BY <1>2, <1>3, <1>4 DEF QInv, Left, Who
<1>6. Left'
  BY <1>1, <1>3, <1>5 DEF QInv, Left, Owes, Who, Reads
<1>7. Room'
  <2>1. Debt("irq")' = 0 /\ Debt("main")' \in Nat /\ Debt("main")' = Len(S!Meant(style, t))
        /\ musicRemaining \in Nat
    BY <1>2, <1>5, Ring DEF Debt, QInv
  <2>2. Debt("main")' + Debt("irq")' = Debt("main")'
    BY <2>1
  <2> QED BY <1>3, <2>1, <2>2 DEF Room
<1>8. Announced'
  BY <1>3 DEF PlayMusic, Announced, QInv
<1> QED BY <1>6, <1>7, <1>8

\* A tick takes at most one note out of the ring; when one note is left of
\* several, the flag is raised or the note begins under a sound.
LEMMA TickQueues ==
  ASSUME ~Reenter, QInv, musicint
  PROVE  Left' /\ Room' /\ Announced'
<1>1. mstart \in Index /\ mend \in Index /\ mend' = mend /\ style' = style /\ peak' = peak
  BY DEF QInv, Types, Counters, musicint, music, PlayNote
<1>2. NOTES \in Nat /\ musicRemaining \in Nat /\ (mstart = mend <=> musicRemaining = 0)
  BY Ring DEF QInv
<1>3. \/ mstart' = mstart /\ musicRemaining' = musicRemaining
      \/ MusicOn /\ mstart' = (mstart + 1) % NOTES /\ mwait <= 1 /\ musicRemaining' = musicRemaining - 1
  <2>1. \/ mstart' = mstart
        \/ MusicOn /\ mstart' = (mstart + 1) % NOTES /\ ~(mwait > 1)
    BY DEF musicint, music, PlayNote
  <2>2. mwait \in Nat
    BY DEF QInv, Types, Counters
  <2>3. CASE mstart' = mstart
    BY <1>1, <2>3 DEF musicRemaining
  <2>4. CASE MusicOn /\ mstart' = (mstart + 1) % NOTES /\ ~(mwait > 1)
    <3>1. (mend - ((mstart + 1) % NOTES)) % NOTES = ((mend - mstart) % NOTES) - 1
      BY <1>1, <2>4, CountLess DEF MusicOn
    <3>2. musicRemaining' = musicRemaining - 1
      BY <1>1, <2>4, <3>1 DEF musicRemaining
    <3> QED BY <2>2, <2>4, <3>2
  <2> QED BY <2>1, <2>3, <2>4
<1>4. at["irq"] = "idle" /\ owed["irq"] = << >>
  BY DEF musicint, QInv, Left, Owes, Who
<1>5. Announced'
  <2>1. raised' = (raised \/ Raises) /\ covered' = (covered \/ (SoundOn /\ mstart' # mstart))
    BY DEF musicint
  <2>2. CASE mstart' = mstart /\ musicRemaining' = musicRemaining
    BY <1>1, <2>1, <2>2 DEF Announced, QInv
  <2>3. CASE MusicOn /\ mstart' = (mstart + 1) % NOTES /\ mwait <= 1 /\ musicRemaining' = musicRemaining - 1
    <3>1. mstart' # mstart
      <4>1. mstart \in 0 .. NOTES - 1 /\ mend \in 0 .. NOTES - 1 /\ NOTES \in Nat \ {0}
        BY Ring DEF QInv
      <4>2. (mstart + 1) % NOTES = IF mstart + 1 = NOTES THEN 0 ELSE mstart + 1
        BY <1>1, Count
      <4> QED BY <2>3, <4>1, <4>2 DEF MusicOn
    <3>3. ASSUME musicRemaining' = 1 PROVE raised' \/ covered'
      <4>1. musicRemaining = 2
        BY <1>2, <2>3, <3>3
      <4>2. (mstart + 2) % NOTES = mend
        BY <1>1, <4>1, CountTwo DEF musicRemaining
      <4> QED BY <2>1, <2>3, <3>1, <4>2 DEF Raises
    <3> QED BY <1>1, <2>1, <3>3 DEF Announced, QInv
  <2> QED BY <1>3, <2>2, <2>3
<1>6. Debt("main") \in Nat /\ owed \in [Who -> Seq(Asks)]
  BY Debts DEF QInv, Left
<1>7. CASE UNCHANGED <<at, str, owed>>
  <2>1. Left'
    BY <1>1, <1>7 DEF QInv, Left, Owes
  <2>2. Room'
    <3>1. Debt("irq") = 0 /\ Debt("irq")' = Debt("irq") /\ Debt("main")' = Debt("main")
      BY <1>4, <1>7 DEF Debt
    <3>2. musicRemaining' <= musicRemaining /\ musicRemaining' \in Int
      BY <1>2, <1>3
    <3> QED BY <1>2, <1>6, <3>1, <3>2 DEF Room, QInv
  <2> QED BY <1>5, <2>1, <2>2
<1>8. ASSUME NEW t \in Tunes, at["main"] \notin Reads,
             musicRemaining' + Len(S!Meant(style, t)) < NOTES,
             at' = [at EXCEPT !["irq"] = "parse"], str' = t,
             owed' = [owed EXCEPT !["irq"] = S!Meant(style, t)]
      PROVE  Left' /\ Room'
  <2>1. t \in Seq(Items) /\ S!Meant(style, t) \in Seq(Asks)
    BY MusicAssumption, MeantType DEF QInv, Left
  <2>2. at'["irq"] = "parse" /\ at'["main"] = at["main"] /\ owed["main"] = << >>
    BY <1>8 DEF QInv, Types, Left, Owes, Who, Reads
  <2>3. owed'["irq"] = S!Meant(style, t) /\ owed'["main"] = << >> /\ owed' \in [Who -> Seq(Asks)]
    BY <1>6, <1>8, <2>1, <2>2 DEF Who
  <2>4. Left'
    BY <1>1, <1>8, <2>2, <2>3 DEF QInv, Left, Owes, Who, Reads
  <2>5. Debt("main")' = 0 /\ Debt("irq")' \in Nat /\ Debt("irq")' = Len(S!Meant(style, t))
    BY <2>1, <2>3 DEF Debt
  <2>6. Debt("main")' + Debt("irq")' = Debt("irq")'
    BY <2>5
  <2> QED BY <1>8, <2>4, <2>5, <2>6 DEF Room
<1>9. Handler
  BY DEF musicint
<1> QED BY <1>5, <1>7, <1>8, <1>9 DEF Handler, Reads

\* Every step keeps the queue.
LEMMA NextQueues ==
  ASSUME ~Reenter, QInv, [Next]_vars
  PROVE  QInv'
<1>1. Types'
  BY NextTypes DEF QInv
<1>2. ASSUME NEW t \in Tunes, PlayMusic(t) PROVE QInv'
  BY <1>1, <1>2, BeginQueues DEF QInv
<1>3. ASSUME NEW w \in Who, set_music(w) PROVE QInv'
  BY <1>1, <1>3, MusicQueues DEF QInv
<1>4. CASE musicint
  BY <1>1, <1>4, TickQueues DEF QInv
<1>5. ASSUME UNCHANGED <<music, str, style, owed, peak, raised, covered>>, at'["irq"] = at["irq"],
             at'["main"] \notin Reads, at["main"] \notin Reads \/ at' = at
      PROVE  QInv'
  <2>1. \A w \in Who : Owes(w)'
    BY <1>5 DEF QInv, Left, Owes, Reads, Who
  <2> QED BY <1>1, <1>5, <2>1 DEF QInv, Left, Room, Debt, Announced, musicRemaining, music, Who
<1>6. ASSUME UNCHANGED <<music, str, style, owed, peak, raised, covered, at>>
      PROVE  QInv'
  BY <1>1, <1>6 DEF QInv, Left, Owes, Room, Debt, Announced, musicRemaining, music, Who
<1>7. ASSUME NEW s \in Sounds, BeginSound(s) PROVE QInv'
  <2>1. at["main"] = "idle" /\ at'["main"] = "fill" /\ at'["irq"] = at["irq"]
    BY <1>7, Goes DEF BeginSound, QInv, Who
  <2> QED BY <1>5, <1>7, <2>1 DEF BeginSound, Reads
<1>8. CASE ReadSound
  <2>1. at["main"] = "fill" /\ at'["main"] = "wait" /\ at'["irq"] = at["irq"]
    BY <1>8, Goes DEF ReadSound, QInv, Who
  <2> QED BY <1>5, <1>8, <2>1 DEF ReadSound, Reads, text, hist
<1>9. CASE EndSound
  <2>1. at["main"] = "wait" /\ at'["main"] = "idle" /\ at'["irq"] = at["irq"]
    BY <1>9, Goes DEF EndSound, QInv, Who
  <2> QED BY <1>5, <1>9, <2>1 DEF EndSound, Reads
<1>10. CASE set_wave
  <2>1. at' = at
    BY <1>10 DEF set_wave, Goto, QInv, Types, Who
  <2> QED BY <1>6, <1>10, <2>1 DEF set_wave, text, hist
<1>11. CASE EndOfWave
  BY <1>6, <1>11 DEF EndOfWave, text, hist
<1>12. CASE UNCHANGED vars
  BY <1>6, <1>12 DEF vars, text, hist
<1>13. CASE EndProgram
  <2>1. /\ at'["main"] = "ended" /\ at'["irq"] = "idle" /\ owed' = [w \in Who |-> << >>]
        /\ mstart' = 0 /\ mend' = 0 /\ style' = style /\ peak' = 0
        /\ raised' = FALSE /\ covered' = FALSE
    BY <1>13 DEF EndProgram, stop_music, QInv, Types, Who
  <2>2. musicRemaining' = 0 /\ NOTES \in Nat \ {0}
    <3>1. NOTES \in Nat \ {0} /\ 0 \in Index /\ (0 - 0) % NOTES = 0
      BY MusicAssumption DEF Index
    <3> QED BY <2>1, <3>1 DEF musicRemaining
  <2>3. owed'["main"] = << >> /\ owed'["irq"] = << >> /\ << >> \in Seq(Asks)
        /\ owed' \in [Who -> Seq(Asks)]
    BY <2>1 DEF Who
  <2>4. \A w \in Who : Owes(w)'
    <3>1. at'["main"] \notin Reads /\ at'["irq"] \notin Reads
      BY <2>1 DEF Reads
    <3> QED BY <2>3, <3>1 DEF Owes, Who, Reads
  <2>5. Left' /\ Announced'
    <3>1. Left'
      BY <2>1, <2>3, <2>4 DEF QInv, Left, Reads
    <3>2. peak' \in 0 .. 2 /\ raised' \in BOOLEAN /\ covered' \in BOOLEAN
      <4>1. peak' \in 0 .. 2
        BY <2>1
      <4>2. raised' \in BOOLEAN /\ covered' \in BOOLEAN
        BY <2>1, Zenon
      <4> QED BY <4>1, <4>2
    <3>3. musicRemaining' # 1
      BY <2>2
    <3> QED BY <3>1, <3>2, <3>3 DEF Announced
  <2>6. Room'
    <3>1. Debt("main")' = 0 /\ Debt("irq")' = 0
      BY <2>3 DEF Debt
    <3> QED BY <2>2, <3>1 DEF Room
  <2> QED BY <1>1, <2>5, <2>6 DEF QInv
<1>14. CASE init_music
  <2>1. at["main"] = "ended" /\ at'["main"] = "idle" /\ at'["irq"] = at["irq"]
    BY <1>14, Goes DEF init_music, QInv, Who
  <2>2. S!FirstStyle \in Styles
    BY DEF S!FirstStyle, Styles, Numbers, Tempos
  <2>3. at["irq"] = "idle"
    BY <1>14, Goes DEF init_music, QInv, Who
  <2>4. Left'
    BY <1>14, <2>1, <2>2, <2>3 DEF init_music, QInv, Left, Owes, Who, Reads
  <2> QED BY <1>1, <1>14, <2>4 DEF init_music, QInv, Room, Debt, Announced, musicRemaining, music
<1> QED BY <1>2, <1>3, <1>4, <1>7, <1>8, <1>9, <1>10, <1>11, <1>12, <1>13, <1>14
     DEF Next, Statement, set_sound

LEMMA FirstQueue == Init => QInv
<1> SUFFICES ASSUME Init PROVE QInv
  OBVIOUS
<1>1. Types
  <2>1. 0 \in Index /\ 0 \in 0 .. NOTES /\ << >> \in Seq(Items)
    BY MusicAssumption DEF Index
  <2> QED BY <2>1, FirstSettings DEF Init, Types, Counters, Who, NoNote
<1>2. S!FirstStyle \in Styles
  BY DEF S!FirstStyle, Styles, Numbers, Tempos
<1>3. musicRemaining = 0 /\ NOTES \in Nat \ {0}
  <2>1. NOTES \in Nat \ {0} /\ (0 - 0) % NOTES = 0
    BY MusicAssumption
  <2> QED BY <2>1 DEF Init, musicRemaining
<1>4. owed["main"] = << >> /\ owed["irq"] = << >> /\ << >> \in Seq(Asks)
      /\ owed \in [Who -> Seq(Asks)]
  BY DEF Init, Who
<1>5. Left /\ Announced
  <2>1. at["main"] = "idle" /\ at["irq"] = "idle"
    BY DEF Init, Who
  <2>2. \A w \in Who : Owes(w)
    BY <1>4, <2>1 DEF Owes, Who
  <2>3. Left
    BY <1>2, <1>4, <2>1, <2>2 DEF Init, Left, Reads
  <2>4. peak \in 0 .. 2 /\ raised \in BOOLEAN /\ covered \in BOOLEAN
    <3>1. peak \in 0 .. 2
      BY DEF Init
    <3>2. raised \in BOOLEAN /\ covered \in BOOLEAN
      BY Zenon DEF Init
    <3> QED BY <3>1, <3>2
  <2>5. musicRemaining # 1
    BY <1>3
  <2> QED BY <2>3, <2>4, <2>5 DEF Announced
<1>6. Room
  <2>1. Debt("main") = 0 /\ Debt("irq") = 0
    BY <1>4 DEF Debt
  <2> QED BY <1>3, <2>1 DEF Room
<1> QED BY <1>1, <1>5, <1>6 DEF QInv

\* The end of a tune of several notes is announced, for any tunes and effects
\* and a ring of any size, wherever the ticks fall, when the handler does not
\* play in the middle of a MUSIC statement.
THEOREM TuneAnnouncedHolds ==
  ASSUME ~Reenter
  PROVE  Spec => TuneAnnounced
<1>1. QInv /\ [Next]_vars => QInv'
  BY NextQueues
<1>2. QInv /\ [Next]_vars => [TuneEnds => peak < 2 \/ raised \/ covered]_vars
  <2> SUFFICES ASSUME QInv, Next, TuneEnds PROVE peak < 2 \/ raised \/ covered
    OBVIOUS
  <2>1. mstart \in Index /\ mend \in Index /\ mstart # mend /\ musicRemaining \in Nat
        /\ NOTES \in Nat \ {0} /\ musicRemaining # 0
    BY Ring DEF QInv, Types, Counters, TuneEnds, MusicOn
  <2>2. CASE musicint
    <3>1. mend' = mend /\ (mstart' = mstart \/ mstart' = (mstart + 1) % NOTES)
      BY <2>2 DEF musicint, music, PlayNote
    <3>2. mend = (mstart + 1) % NOTES
      BY <2>1, <3>1 DEF TuneEnds
    <3>3. (mend - ((mstart + 1) % NOTES)) % NOTES = ((mend - mstart) % NOTES) - 1
      BY <2>1, CountLess
    <3>4. musicRemaining - 1 = 0
      <4>1. (mend - mend) % NOTES = 0
        BY <2>1, Count
      <4> QED BY <3>2, <3>3, <4>1 DEF musicRemaining
    <3> QED BY <2>1, <3>4 DEF QInv, Announced
  <2>3. ASSUME NEW w \in Who, StoreNote(w) PROVE FALSE
    <3>1. owed[w] \in Seq(Asks) /\ owed[w] # << >>
      BY <2>3, Goes DEF StoreNote, QInv, Left, Owes
    <3>2. /\ Debt("main") \in Nat /\ Debt("irq") \in Nat /\ Debt(w) \in Nat \ {0}
          /\ Debt(w) <= Debt("main") + Debt("irq")
      <4>1. Debt(w) \in Nat \ {0}
        BY <3>1 DEF Debt
      <4> QED BY <4>1, Debts DEF QInv
    <3>3. musicRemaining + 1 < NOTES
      BY <2>1, <3>2 DEF QInv, Room
    <3>4. (mend + 1) % NOTES \in Index
          /\ (((mend + 1) % NOTES) - mstart) % NOTES = ((mend - mstart) % NOTES) + 1
      BY <2>1, <3>3, CountMore, Count DEF musicRemaining
    <3>5. ((mend + 1) % NOTES) # mstart
      <4>1. (mstart - mstart) % NOTES = 0
        BY <2>1, Count
      <4>2. ((mend - mstart) % NOTES) + 1 # 0
        BY <2>1 DEF musicRemaining
      <4> QED BY <3>4, <4>1, <4>2
    <3>6. mstart' # mend'
      BY <2>3, <3>5 DEF StoreNote
    <3> QED BY <3>6 DEF TuneEnds
  <2>4. CASE EndProgram
    BY <2>4 DEF EndProgram, stop_music, TuneEnds
  <2>5. ASSUME mstart' = mstart, mend' = mend PROVE FALSE
    BY <2>1, <2>5 DEF TuneEnds
  <2>6. ASSUME NEW w \in Who, set_music(w) PROVE FALSE
    BY <2>3, <2>5, <2>6 DEF set_music, ReadSetting, ParseNote, EndMusic, music
  <2> QED BY <2>2, <2>4, <2>5, <2>6
       DEF Next, Statement, PlayMusic, BeginSound, set_wave, init_music, set_sound, ReadSound,
           EndSound, EndOfWave, music
<1> QED BY <1>1, <1>2, FirstQueue, PTL DEF Spec, TuneAnnounced
-----------------------------------------------------------------------------
(* Division.                                                               *)

\* A number is divided in one way.
LEMMA Division ==
  ASSUME NEW x \in Nat, NEW y \in Nat \ {0}
  PROVE  /\ x \div y \in Nat /\ x % y \in 0 .. y - 1
         /\ x = (y * (x \div y)) + (x % y)
OBVIOUS

LEMMA OneQuotient ==
  ASSUME NEW y \in Nat \ {0}, NEW q \in Nat, NEW r \in 0 .. y - 1,
         NEW p \in Nat, NEW s \in 0 .. y - 1, (y * q) + r = (y * p) + s
  PROVE  q = p /\ r = s
<1>1. ASSUME NEW a \in Nat, NEW b \in Nat, a < b PROVE (y * a) + y <= y * b
  <2> DEFINE k == b - a - 1
  <2>1. k \in Nat /\ b = a + 1 + k
    BY <1>1
  <2> HIDE DEF k
  <2>2. y * b = ((y * a) + y) + (y * k)
    BY <2>1
  <2>3. y * k \in Nat /\ y * a \in Nat
    BY <2>1
  <2> QED BY <2>2, <2>3
<1>2. y * q \in Nat /\ y * p \in Nat
  OBVIOUS
<1>3. ~(q < p) /\ ~(p < q)
  BY <1>1, <1>2
<1> QED BY <1>3

LEMMA Divided ==
  ASSUME NEW x \in Nat, NEW y \in Nat \ {0}, NEW q \in Nat, NEW r \in 0 .. y - 1,
         x = (y * q) + r
  PROVE  x \div y = q /\ x % y = r
<1> DEFINE p == x \div y
           s == x % y
<1>1. p \in Nat /\ s \in 0 .. y - 1 /\ x = (y * p) + s
  BY Division
<1> HIDE DEF p, s
<1>2. q = p /\ r = s
  BY <1>1, OneQuotient
<1> QED BY <1>2 DEF p, s

\* A common factor does not count.
LEMMA CommonFactor ==
  ASSUME NEW x \in Nat, NEW y \in Nat \ {0}, NEW d \in {1, 2, 4, 8, 16, 32}
  PROVE  (x * d) \div (y * d) = x \div y
<1> DEFINE q == x \div y
           r == x % y
<1>1. q \in Nat /\ r \in 0 .. y - 1 /\ x = (y * q) + r
  BY Division
<1> HIDE DEF q, r
<1>2. y * q \in Nat
  BY <1>1
<1>3. x * d = ((y * q) * d) + (r * d) /\ r * d \in 0 .. (y * d) - 1 /\ y * d \in Nat \ {0}
      /\ x * d \in Nat
  <2> DEFINE m == y * q
  <2>1. m \in Nat /\ x = m + r
    BY <1>1, <1>2
  <2> HIDE DEF m
  <2>2. x * d = (m * d) + (r * d) /\ r * d \in 0 .. (y * d) - 1 /\ y * d \in Nat \ {0}
        /\ x * d \in Nat
    BY <1>1, <2>1
  <2> QED BY <2>2 DEF m
<1>4. (y * q) * d = (y * d) * q
  BY <1>1
<1>5. (x * d) \div (y * d) = q
  <2> DEFINE a == x * d
             b == y * d
             c == r * d
  <2>1. a \in Nat /\ b \in Nat \ {0} /\ c \in 0 .. b - 1 /\ a = (b * q) + c
    BY <1>3, <1>4
  <2> HIDE DEF a, b, c
  <2>2. a \div b = q
    BY <1>1, <2>1, Divided
  <2> QED BY <2>2 DEF a, b
<1> QED BY <1>5 DEF q

\* Remainders come again.
LEMMA Again ==
  ASSUME NEW x \in Nat, NEW y \in Nat \ {0}
  PROVE  (x + y) % y = x % y /\ (x < y => x % y = x)
<1> DEFINE q == x \div y
           r == x % y
<1>1. q \in Nat /\ r \in 0 .. y - 1 /\ x = (y * q) + r
  BY Division
<1>2. x + y \in Nat /\ x + y = (y * (q + 1)) + r /\ q + 1 \in Nat
  <2> HIDE DEF q, r
  <2> QED BY <1>1
<1>3. (x + y) % y = r
  <2> DEFINE a == x + y
             b == q + 1
  <2> HIDE DEF a, b, q, r
  <2>1. a \in Nat /\ b \in Nat /\ a = (y * b) + r
    BY <1>2 DEF a, b
  <2>2. a % y = r
    BY <1>1, <2>1, Divided
  <2> QED BY <2>2 DEF a
<1>4. ASSUME x < y PROVE x % y = x
  <2>1. x \in 0 .. y - 1 /\ x = (y * 0) + x
    BY <1>4
  <2> QED BY <2>1, Divided
<1> QED BY <1>3, <1>4

\* A length that fits is kept.
LEMMA Fits ==
  ASSUME NEW x \in 0 .. Short - 1
  PROVE  x % Short = x
<1> DEFINE y == Short
<1>1. y \in Nat \ {0} /\ x \in Nat /\ x < y
  BY DEF Short
<1> HIDE DEF y
<1>2. x % y = x
  BY <1>1, Again
<1> QED BY <1>2 DEF y
-----------------------------------------------------------------------------
(* The settings are the style, and the notes are what they should be.      *)

Wholes == {320, 288, 256, 224, 192, 160, 128, 96, 64}
Units == {1, 2, 4, 8, 16, 32}

\* An item whose lengths come out even and fit in an entry of g_musiclen.
Modest(it) ==
  IF IsSetting(it)
  THEN /\ it.set = "Q" => it.n \in 1 .. 250
       /\ it.set = "L" => it.n <= 8 /\ it.m \in Units
  ELSE it.up <= 2 /\ it.down <= 2 /\ it.times <= 16
Playable == {it \in Items : Modest(it)}

\* The tunes are of such items, and the lengths of an effect fit in an entry
\* of g_soundlen.
Ordinary ==
  /\ Tunes \subseteq Seq(Playable)
  /\ \A s \in Sounds : \A i \in 1 .. Len(s.notes) : s.notes[i].ticks < LenBound

\* What the numbers of the settings mean.
Corresponds(s, st) ==
  /\ \E k \in Keys : s.tones = musicSetK(k) /\ st.key = S!KeyOf(k)
  /\ s.qvalue = S!Whole(st.tempo) /\ s.qvalue \in Wholes
  /\ st.num \in 0 .. 8 /\ st.den \in Units
  /\ s.lvalue \in Nat /\ s.lvalue * st.den = s.qvalue * st.num

\* The entry of g_music for a pitch: the tone may be a cycle too short.
IsVoice(entry, pitch) ==
  IF pitch = {} THEN entry = Silent
  ELSE /\ entry \in 1 .. Silent - 1
       /\ \A p \in pitch : S!SoundsAs(entry, p) /\ S!SoundsAs(entry + 1, p)

\* What goes into g_music.
LEMMA Entries ==
  /\ Entry(0) = Silent
  /\ \A tone \in 1 .. Silent + 1 : Entry(tone) = tone - 1
<1>1. Short \in Nat \ {0} /\ Silent = Short - 1
  BY DEF Short, Silent
<1>2. ASSUME NEW n \in Nat \ {0}, NEW x \in Int, -n <= x, x < 0 PROVE x % n = x + n
  BY <1>2
<1>3. Entry(0) = Silent
  <2> DEFINE x == 0 - 1
  <2>1. x \in Int /\ x < 0 /\ -Short <= x /\ x + Short = Silent
    BY <1>1
  <2> HIDE DEF x
  <2>2. x % Short = Silent
    BY <1>1, <1>2, <2>1
  <2> QED BY <2>2 DEF x, Entry
<1>4. ASSUME NEW tone \in 1 .. Silent + 1 PROVE Entry(tone) = tone - 1
  <2> DEFINE x == tone - 1
  <2>1. x \in Nat /\ x < Short
    BY <1>1
  <2> HIDE DEF x
  <2>2. x % Short = x
    BY <1>1, <2>1, Again
  <2> QED BY <2>2 DEF x, Entry
<1> QED BY <1>3, <1>4

\* The parts of a note, and a note without its length.
Bare(n) == [letter |-> n.letter, up |-> n.up, down |-> n.down, mark |-> n.mark,
            times |-> 0, over |-> 0]
LEMMA NoteParts ==
  ASSUME NEW n \in Notes
  PROVE  /\ n.letter \in Letters \cup {"z"} /\ n.mark \in {"", "^", "_", "="}
         /\ n.up \in Nat /\ n.down \in Nat /\ n.times \in Nat /\ n.over \in Nat
<1>1. n.letter \in Letters \cup {"z"}
  BY DEF Notes
<1>2. n.mark \in {"", "^", "_", "="}
  BY DEF Notes
<1>3. n.up \in Nat /\ n.down \in Nat /\ n.times \in Nat /\ n.over \in Nat
  BY DEF Notes
<1> QED BY <1>1, <1>2, <1>3

\* The settings a program begins with are its first style.
LEMMA FirstCorresponds ==
  ASSUME TonesAsWritten
  PROVE  Corresponds(InitialSettings, S!FirstStyle)
<1>1. \E k \in Keys : InitialSettings.tones = musicSetK(k) /\ S!FirstStyle.key = S!KeyOf(k)
  BY DEF TonesAsWritten
<1>2. InitialSettings.qvalue = 160 /\ InitialSettings.lvalue = 20
  BY DEF InitialSettings
<1>3. S!FirstStyle.tempo = 90 /\ S!FirstStyle.num = 1 /\ S!FirstStyle.den = 8
  BY DEF S!FirstStyle
<1>4. S!Whole(90) = 160
  BY DEF S!Whole
<1> QED BY <1>1, <1>2, <1>3, <1>4 DEF Corresponds, Wholes, Units

\* A setting means for the numbers what it means for the style.
LEMMA SetCorresponds ==
  ASSUME TonesAsWritten, NEW s \in [tones : Rows, qvalue : Nat, lvalue : Nat],
         NEW st \in Styles, Corresponds(s, st), NEW it \in Playable, IsSetting(it)
  PROVE  Corresponds(Set(s, it), S!Styled(st, it))
<1>1. it \in Settings /\ Modest(it)
  BY ItemKinds DEF Playable
<1>2. CASE it.set = "K" /\ it.key \in Keys
  <2> DEFINE t == Set(s, it)
             u == S!Styled(st, it)
  <2>1. t.tones = musicSetK(it.key) /\ t.qvalue = s.qvalue /\ t.lvalue = s.lvalue
    BY <1>2 DEF Set
  <2>2. u.key = S!KeyOf(it.key) /\ u.tempo = st.tempo /\ u.num = st.num /\ u.den = st.den
    BY <1>2 DEF S!Styled, Styles
  <2> HIDE DEF t, u
  <2>3. Corresponds(t, u)
    BY <1>2, <2>1, <2>2 DEF Corresponds
  <2> QED BY <2>3 DEF t, u
<1>3. CASE it.set = "Q" /\ it.n \in Nat
  <2> DEFINE t == Set(s, it)
             u == S!Styled(st, it)
             q == musicSetQ(it.n)
  <2>1. it.n \in 1 .. 250 /\ q \in Wholes
    BY <1>1, <1>3, WholeNotes DEF Modest, Wholes
  <2>2. q = S!Whole(S!Tempo(it.n))
    BY <2>1 DEF TonesAsWritten
  <2>3. t.tones = s.tones /\ t.qvalue = q /\ t.lvalue = Eighth(q)
    BY <1>3 DEF Set
  <2>4. u.key = st.key /\ u.tempo = S!Tempo(it.n) /\ u.num = 1 /\ u.den = 8
    BY <1>3 DEF S!Styled, Styles
  <2> HIDE DEF t, u, q
  <2>5. Eighth(q) \in Nat /\ Eighth(q) * 8 = q * 1
    BY <2>1 DEF Eighth, Wholes
  <2>6. Corresponds(t, u)
    BY <2>1, <2>2, <2>3, <2>4, <2>5 DEF Corresponds, Units
  <2> QED BY <2>6 DEF t, u
<1>4. CASE it.set = "L" /\ it.n \in Nat /\ it.m \in Nat \ {0}
  <2> DEFINE t == Set(s, it)
             u == S!Styled(st, it)
             n == it.n
             m == it.m
             q == s.qvalue
  <2>1. n \in 0 .. 8 /\ m \in Units /\ q \in Wholes
    BY <1>1, <1>4 DEF Modest, Corresponds
  <2>2. t.tones = s.tones /\ t.qvalue = q /\ t.lvalue = musicSetL(q, n, m)
    BY <1>4 DEF Set
  <2>3. u.key = st.key /\ u.tempo = st.tempo /\ u.num = n /\ u.den = m
    BY <1>4 DEF S!Styled, Styles
  <2>4. q = S!Whole(st.tempo)
    BY DEF Corresponds
  <2> HIDE DEF t, u, n, m, q
  <2>5. musicSetL(q, n, m) \in Nat /\ musicSetL(q, n, m) * m = q * n
    <3>1. PICK j \in 2 .. 10 : q = 32 * j
      BY <2>1 DEF Wholes
    <3>2. q * n \in Nat /\ q * n = 32 * (j * n) /\ j * n \in Nat
      BY <2>1, <3>1
    <3>3. ASSUME NEW a \in Nat PROVE (32 * a) \div m \in Nat /\ ((32 * a) \div m) * m = 32 * a
      BY <2>1 DEF Units
    <3> QED BY <3>2, <3>3 DEF musicSetL
  <2>6. Corresponds(t, u)
    BY <2>1, <2>2, <2>3, <2>4, <2>5 DEF Corresponds
  <2> QED BY <2>6 DEF t, u
<1>5. CASE it.set = "M"
  <2>1. Set(s, it) = s /\ S!Styled(st, it) = st
    BY <1>5 DEF Set, S!Styled
  <2> QED BY <2>1
<1> QED BY <1>1, <1>2, <1>3, <1>4, <1>5, SettingKinds

\* A note's length is the one that was asked for, and is stored as it is.
LEMMA LengthAsAsked ==
  ASSUME NEW s, NEW st, Corresponds(s, st), NEW it \in Playable, ~IsSetting(it)
  PROVE  /\ Length(s, it) = S!Asked(st, it).ticks
         /\ Length(s, it) \in 0 .. Short - 1
<1> DEFINE times == S!Given(it.times)
           over == S!Given(it.over)
           l == s.lvalue
           d == st.den
           q == s.qvalue
           n == st.num
<1>1. it.times \in 0 .. 16 /\ it.over \in Nat
  <2>1. it \in Notes /\ it.times <= 16
    BY ItemKinds DEF Playable, Modest
  <2>2. it.times \in Nat /\ it.over \in Nat
    BY <2>1, NoteParts
  <2> QED BY <2>1, <2>2
<1>2. times \in 1 .. 16 /\ over \in Nat \ {0}
  BY <1>1 DEF S!Given
<1>3. l \in Nat /\ d \in Units /\ q \in Wholes /\ n \in 0 .. 8 /\ l * d = q * n
  BY DEF Corresponds
<1>4. Length(s, it) = (l * times) \div over
  <2>1. (l * times) = IF it.times = 0 THEN l ELSE l * it.times
    BY <1>1, <1>3 DEF S!Given
  <2>2. l * times \in Nat /\ (l * times) \div 1 = l * times
    BY <1>2, <1>3
  <2>3. over = IF it.over = 0 THEN 1 ELSE it.over
    BY DEF S!Given
  <2> HIDE DEF times, over, l
  <2>4. Length(s, it) = LET len == l * times IN IF it.over = 0 THEN len ELSE len \div it.over
    BY <2>1 DEF Length, l
  <2> QED BY <2>2, <2>3, <2>4
<1>5. S!Asked(st, it).ticks = ((q * n) * times) \div (d * over)
  BY DEF S!Asked, Corresponds
<1> HIDE DEF times, over, l, d, q, n
<1>6. l * times \in Nat /\ (q * n) * times = (l * times) * d /\ d * over = over * d
  BY <1>2, <1>3 DEF Units, Wholes
<1>7. ((l * times) * d) \div (over * d) = (l * times) \div over
  BY <1>2, <1>3, <1>6, CommonFactor DEF Units
<1>8. l <= 2560
  BY <1>3 DEF Units, Wholes
<1>9. l * times <= 40960
  BY <1>2, <1>3, <1>8
<1>10. (l * times) \div over \in Nat /\ (l * times) \div over <= l * times
  <2> DEFINE x == l * times
             e == x \div over
             r == x % over
  <2>1. x \in Nat
    BY <1>6
  <2> HIDE DEF x
  <2>2. e \in Nat /\ r \in Nat /\ x = (over * e) + r
    BY <1>2, <2>1, Division
  <2> HIDE DEF e, r
  <2>3. over * e >= e
    BY <1>2, <2>2
  <2>4. over * e \in Nat
    BY <1>2, <2>2
  <2>5. e \in Nat /\ e <= x
    BY <2>1, <2>2, <2>3, <2>4
  <2> QED BY <2>5 DEF e, x
<1>11. Length(s, it) = S!Asked(st, it).ticks
  BY <1>4, <1>5, <1>6, <1>7
<1>12. (l * times) \div over \in 0 .. Short - 1
  <2> DEFINE e == (l * times) \div over
             x == l * times
  <2>1. e \in Nat /\ e <= x /\ x <= 40960 /\ x \in Nat
    BY <1>6, <1>9, <1>10
  <2> HIDE DEF e, x
  <2>2. e \in 0 .. Short - 1
    <3>1. 40960 <= Short - 1 /\ Short \in Nat
      BY DEF Short
    <3> QED BY <2>1, <3>1
  <2> QED BY <2>2 DEF e
<1> QED BY <1>4, <1>11, <1>12

\* A note's entry in g_music gives the pitch that was asked for.
LEMMA ToneAsAsked ==
  ASSUME TonesAsWritten, NEW s, NEW st, Corresponds(s, st), NEW it \in Playable, ~IsSetting(it)
  PROVE  IsVoice(Entry(Tone(s, it)), S!Asked(st, it).pitch)
<1>1. it \in Notes /\ (it.mark = "=" => it.up = 0 /\ it.letter # "z") /\ it.up <= 2 /\ it.down <= 2
  BY ItemKinds DEF Playable, Modest
<1>2. S!Asked(st, it).pitch = S!Pitch(st.key, it)
  BY DEF S!Asked
<1>3. CASE it.letter = "z"
  <2>1. Tone(s, it) = 0 /\ S!Pitch(st.key, it) = {}
    BY <1>3 DEF Tone, S!Pitch
  <2> QED BY <1>2, <2>1, Entries DEF IsVoice
<1>4. CASE it.letter # "z"
  <2> DEFINE n == Bare(it)
  <2>1. n \in MarkedNotes /\ (n.mark = "=" => n.up = 0)
    <3>1. it.letter \in Letters /\ it.up \in 0 .. 2 /\ it.down \in 0 .. 2
          /\ it.mark \in {"", "^", "_", "="}
      <4>1. it.letter \in Letters \cup {"z"} /\ it.mark \in {"", "^", "_", "="}
            /\ it.up \in Nat /\ it.down \in Nat
        BY <1>1, NoteParts
      <4>2. it.letter \in Letters
        BY <1>4, <4>1
      <4>3. it.up \in 0 .. 2 /\ it.down \in 0 .. 2
        <5> DEFINE u == it.up
                   d == it.down
        <5>1. u \in Nat /\ d \in Nat /\ u <= 2 /\ d <= 2
          BY <1>1, <4>1
        <5> HIDE DEF u, d
        <5>2. u \in 0 .. 2 /\ d \in 0 .. 2
          BY <5>1
        <5> QED BY <5>2 DEF u, d
      <4> QED BY <4>1, <4>2, <4>3
    <3> QED BY <1>1, <3>1 DEF MarkedNotes, Bare
  <2>2. n.letter = it.letter /\ n.up = it.up /\ n.down = it.down /\ n.mark = it.mark
    BY DEF Bare
  <2> HIDE DEF n
  <2>3. PICK k \in Keys : s.tones = musicSetK(k) /\ st.key = S!KeyOf(k)
    BY DEF Corresponds
  <2> DEFINE given == [InitialSettings EXCEPT !.tones = musicSetK(k)]
             tone == Tone(given, n)
  <2>4. /\ tone \in 2 .. Silent
        /\ \A p \in S!Pitch(S!KeyOf(k), n) : S!SoundsAs(tone, p) /\ S!SoundsAs(tone - 1, p)
    BY <2>1 DEF TonesAsWritten
  <2>5. Tone(s, it) = tone
    <3>1. given.tones = s.tones
      BY <2>3 DEF InitialSettings
    <3> HIDE DEF given
    <3> QED BY <2>2, <3>1 DEF Tone
  <2>6. S!Pitch(S!KeyOf(k), n) = S!Pitch(st.key, it)
    BY <2>2, <2>3 DEF S!Pitch, S!Altered
  <2>7. S!Pitch(st.key, it) # {}
    BY <1>4 DEF S!Pitch
  <2> HIDE DEF tone
  <2>8. Entry(tone) = tone - 1
    <3>1. tone \in 1 .. Silent + 1
      BY <2>4 DEF Silent, Short
    <3> QED BY <3>1, Entries
  <2>9. tone - 1 \in 1 .. Silent - 1 /\ (tone - 1) + 1 = tone
    BY <2>4 DEF Silent, Short
  <2> QED BY <1>2, <2>4, <2>5, <2>6, <2>7, <2>8, <2>9 DEF IsVoice
<1> QED BY <1>3, <1>4
-----------------------------------------------------------------------------
(* The ring holds the tune.                                                *)

\* What is still to be read is playable, in settings that are the style.
Texts == str \in Seq(Playable) /\ Corresponds(settings, style)

\* A note that has been read is the next one that is owed.
Pending(w) ==
  at[w] = "store" =>
    /\ read[w].len = Head(owed[w]).ticks /\ read[w].len \in 0 .. Short - 1
    /\ IsVoice(Entry(read[w].tone), Head(owed[w]).pitch)
    /\ mstart = mend => mwait = read[w].len

\* The notes in the ring are the tune.
PlaceOf(a, i) == (a + (i - 1)) % NOTES
Place(i) == PlaceOf(mstart, i)
Holds(i) ==
  /\ tune[i].ticks = IF i = 1 THEN mwait ELSE musiclen[Place(i)]
  /\ IsVoice(musicnote[Place(i)], tune[i].pitch)
Rings ==
  /\ tune \in Seq(Asks) /\ Len(tune) = musicRemaining
  /\ \A i \in 1 .. Len(tune) : Holds(i)

TuneInv == Texts /\ (\A w \in Who : Pending(w)) /\ Rings

\* The places of the ring, from the first note on.
LEMMA PlacesInRing ==
  ASSUME NEW a \in Index, NEW b \in Index, NEW n, n = (b - a) % NOTES
  PROVE  /\ n \in 0 .. NOTES - 1 /\ PlaceOf(a, n + 1) = b /\ PlaceOf(a, 1) = a
         /\ \A i \in 1 .. n : PlaceOf(a, i) \in Index /\ PlaceOf(a, i) # b
         /\ \A i \in 1 .. NOTES - 1 : PlaceOf((a + 1) % NOTES, i) = PlaceOf(a, i + 1)
<1>1. NOTES \in Nat \ {0} /\ a \in 0 .. NOTES - 1 /\ b \in 0 .. NOTES - 1
  BY MusicAssumption DEF Index
<1>2. n = (IF a <= b THEN b - a ELSE b - a + NOTES) /\ n \in 0 .. NOTES - 1
  BY Count
<1>3. ASSUME NEW x \in Nat, x < 2 * NOTES
      PROVE  x % NOTES = IF x < NOTES THEN x ELSE x - NOTES
  BY <1>1, <1>3, Modulo
<1>4. PlaceOf(a, n + 1) = b
  <2> DEFINE x == a + ((n + 1) - 1)
  <2>1. x \in Nat /\ x < 2 * NOTES /\ x = a + n
    BY <1>1, <1>2
  <2> HIDE DEF x
  <2>2. x % NOTES = IF x < NOTES THEN x ELSE x - NOTES
    BY <1>3, <2>1
  <2>3. x % NOTES = b
    BY <1>1, <1>2, <2>1, <2>2
  <2> QED BY <2>3 DEF x, PlaceOf
<1>5. PlaceOf(a, 1) = a
  <2> DEFINE x == a + (1 - 1)
  <2>1. x \in Nat /\ x < NOTES /\ x = a
    BY <1>1
  <2> HIDE DEF x
  <2>2. x % NOTES = x
    BY <1>1, <2>1, Again
  <2> QED BY <2>1, <2>2 DEF x, PlaceOf
<1>6. ASSUME NEW i \in 1 .. n
      PROVE  PlaceOf(a, i) \in Index /\ PlaceOf(a, i) # b
  <2> DEFINE x == a + (i - 1)
  <2>1. x \in Nat /\ x < 2 * NOTES /\ x = a + (i - 1)
    BY <1>1, <1>2
  <2> HIDE DEF x
  <2>2. x % NOTES = IF x < NOTES THEN x ELSE x - NOTES
    BY <1>3, <2>1
  <2>3. x % NOTES \in 0 .. NOTES - 1 /\ x % NOTES # b
    BY <1>1, <1>2, <2>1, <2>2
  <2> QED BY <2>3 DEF x, Index, PlaceOf
<1>7. ASSUME NEW i \in 1 .. NOTES - 1
      PROVE  PlaceOf((a + 1) % NOTES, i) = PlaceOf(a, i + 1)
  <2> DEFINE c == (a + 1) % NOTES
             x == c + (i - 1)
             y == a + ((i + 1) - 1)
  <2>1. c \in 0 .. NOTES - 1 /\ c = IF a + 1 = NOTES THEN 0 ELSE a + 1
    BY Count DEF Index
  <2> HIDE DEF c
  <2>2. x \in Nat /\ x < 2 * NOTES /\ y \in Nat /\ y < 2 * NOTES /\ x = c + (i - 1) /\ y = a + i
    BY <1>1, <2>1
  <2> HIDE DEF x, y
  <2>3. x % NOTES = IF x < NOTES THEN x ELSE x - NOTES
    BY <1>3, <2>2
  <2>4. y % NOTES = IF y < NOTES THEN y ELSE y - NOTES
    BY <1>3, <2>2
  <2>5. x % NOTES = y % NOTES
    BY <1>1, <2>1, <2>2, <2>3, <2>4
  <2> QED BY <2>5 DEF x, y, c, PlaceOf
<1>8. n \in 0 .. NOTES - 1 /\ PlaceOf(a, n + 1) = b /\ PlaceOf(a, 1) = a
  BY <1>2, <1>4, <1>5
<1> QED BY <1>6, <1>7, <1>8

\* The places of the ring of the state.
LEMMA RingPlaces ==
  ASSUME Types
  PROVE  /\ Place(musicRemaining + 1) = mend /\ Place(1) = mstart
         /\ \A i \in 1 .. musicRemaining : Place(i) \in Index /\ Place(i) # mend
<1>1. mstart \in Index /\ mend \in Index
  BY DEF Types, Counters
<1>2. musicRemaining = (mend - mstart) % NOTES
  BY DEF musicRemaining
<1> QED BY <1>1, <1>2, PlacesInRing DEF Place

\* What stays when the ring and the tune stay.
LEMMA RingStays ==
  ASSUME Rings, UNCHANGED <<music, tune>>
  PROVE  Rings'
BY DEF Rings, Holds, Place, PlaceOf, music, musicRemaining

\* A statement of MUSIC adds to the tune what it was given.
LEMMA MusicRings ==
  ASSUME Ordinary, TonesAsWritten, QInv, QInv', TuneInv, NEW w \in Who, set_music(w)
  PROVE  TuneInv'
<1>1. str \in Seq(Playable) /\ style \in Styles /\ owed \in [Who -> Seq(Asks)]
      /\ settings \in [tones : Rows, qvalue : Nat, lvalue : Nat] /\ Corresponds(settings, style)
  BY DEF QInv, Types, Left, TuneInv, Texts
<1>2. CASE ReadSetting(w)
  <2>1. str # << >> /\ IsSetting(Head(str)) /\ at' = at
    BY <1>2 DEF ReadSetting, Goto, QInv, Types, Who
  <2>2. Head(str) \in Playable /\ Tail(str) \in Seq(Playable)
    BY <1>1, <2>1
  <2>3. Corresponds(Set(settings, Head(str)), S!Styled(style, Head(str)))
    BY <1>1, <2>1, <2>2, SetCorresponds
  <2>4. Texts'
    BY <1>2, <2>2, <2>3 DEF ReadSetting, Texts
  <2>5. \A v \in Who : Pending(v)'
    BY <1>2, <2>1 DEF ReadSetting, TuneInv, Pending, music
  <2>6. Rings'
    BY <1>2, RingStays DEF ReadSetting, TuneInv
  <2> QED BY <2>4, <2>5, <2>6 DEF TuneInv
<1>3. CASE ParseNote(w)
  <2> DEFINE it == Head(str)
  <2>1. /\ at[w] = "parse" /\ at'[w] = "store" /\ (\A v \in Who \ {w} : at'[v] = at[v])
        /\ w = "main" => at["irq"] = "idle"
        /\ str # << >> /\ ~IsSetting(it)
    BY <1>3, Goes DEF ParseNote, QInv
  <2>2. it \in Playable /\ Tail(str) \in Seq(Playable)
    BY <1>1, <2>1
  <2>3. it \in Items /\ str \in Seq(Items)
    BY <2>2 DEF Playable, QInv, Types
  <2>4. Head(owed[w]) = S!Asked(style, it)
    <3>1. owed[w] = S!Meant(style, str)
      BY <2>1 DEF QInv, Left, Owes
    <3>2. NotesOf(style, it) = <<S!Asked(style, it)>> /\ StyleBehind(style, it) = style
      BY <2>1 DEF NotesOf, StyleBehind
    <3>3. PICK rest \in Seq(Asks) : owed[w] = <<S!Asked(style, it)>> \o rest
      BY <1>1, <2>1, <2>3, <3>1, <3>2, MeantRest
    <3> QED BY <3>3
  <2>5. /\ Length(settings, it) = S!Asked(style, it).ticks
        /\ Length(settings, it) \in 0 .. Short - 1
        /\ IsVoice(Entry(Tone(settings, it)), S!Asked(style, it).pitch)
    BY <1>1, <2>1, <2>2, LengthAsAsked, ToneAsAsked
  <2> HIDE DEF it
  <2>6. /\ read' = [read EXCEPT ![w] = [len |-> Length(settings, it), tone |-> Tone(settings, it)]]
        /\ str' = Tail(str) /\ owed' = owed /\ style' = style /\ settings' = settings
        /\ mstart' = mstart /\ mend' = mend /\ tune' = tune
        /\ mwait' = (IF mstart = mend THEN read'[w].len ELSE mwait)
        /\ musicnote' = musicnote /\ musiclen' = musiclen
    BY <1>3 DEF ParseNote, it, hist
  <2>7. read'[w].len = Length(settings, it) /\ read'[w].tone = Tone(settings, it)
    BY <2>6 DEF QInv, Types
  <2>8. Pending(w)'
    BY <2>4, <2>5, <2>6, <2>7 DEF Pending
  <2>9. ASSUME NEW v \in Who \ {w} PROVE Pending(v)'
    <3>1. at[v] \notin Reads
      BY <2>1 DEF QInv, Left, Who, Reads
    <3> QED BY <2>1, <3>1 DEF Pending, Reads
  <2>10. Texts'
    BY <1>1, <2>2, <2>6 DEF Texts
  <2>11. Rings'
    <3>1. CASE mstart # mend
      BY <2>6, <3>1, RingStays DEF TuneInv, music
    <3>2. CASE mstart = mend
      <4>1. Len(tune) = 0 /\ tune \in Seq(Asks) /\ musicRemaining = 0
        BY <3>2, Ring DEF TuneInv, Rings, QInv
      <4>2. Len(tune') = 0 /\ tune' \in Seq(Asks) /\ musicRemaining' = 0
        BY <2>6, <4>1 DEF musicRemaining
      <4>3. 1 .. Len(tune') = {}
        BY <4>2
      <4> QED BY <4>2, <4>3 DEF Rings
    <3> QED BY <3>1, <3>2
  <2> QED BY <2>8, <2>9, <2>10, <2>11 DEF TuneInv
<1>4. CASE StoreNote(w)
  <2>1. /\ at[w] = "store" /\ at'[w] = "parse" /\ (\A v \in Who \ {w} : at'[v] = at[v])
        /\ w = "main" => at["irq"] = "idle"
    BY <1>4, Goes DEF StoreNote, QInv
  <2> DEFINE note == Head(owed[w])
  <2>0. PICK n \in Nat : n = Len(tune)
    BY Ring DEF TuneInv, Rings, QInv
  <2>2. note \in Asks
    BY <1>1, <2>1 DEF QInv, Left, Owes
  <2>3. /\ read[w].len = note.ticks /\ read[w].len \in 0 .. Short - 1
        /\ IsVoice(Entry(read[w].tone), note.pitch)
        /\ mstart = mend => mwait = read[w].len
    BY <2>1 DEF TuneInv, Pending
  <2>4. /\ tune \in Seq(Asks) /\ n = musicRemaining /\ \A i \in 1 .. n : Holds(i)
        /\ n \in Nat /\ (n = 0 <=> mstart = mend)
    BY <2>0, Ring DEF TuneInv, Rings, QInv
  <2>5. /\ tune' = Append(tune, note)
        /\ musicnote' = [musicnote EXCEPT ![mend] = Entry(read[w].tone)]
        /\ musiclen' = [musiclen EXCEPT ![mend] = read[w].len % Short]
        /\ mstart' = mstart /\ mwait' = mwait /\ str' = str /\ settings' = settings /\ style' = style
    BY <1>4 DEF StoreNote, text
  <2>6. read[w].len % Short = read[w].len
    BY <2>3, Fits
  <2> HIDE DEF note
  <2>7. tune' \in Seq(Asks) /\ Len(tune') = n + 1 /\ tune'[n + 1] = note
        /\ \A i \in 1 .. n : tune'[i] = tune[i]
    <3>1. /\ Append(tune, note) \in Seq(Asks)
          /\ Len(Append(tune, note)) = Len(tune) + 1
          /\ \A i \in 1 .. Len(tune) : Append(tune, note)[i] = tune[i]
          /\ Append(tune, note)[Len(tune) + 1] = note
      BY <2>2, <2>4, AppendProperties
    <3> QED BY <2>0, <2>5, <3>1
  <2>8. Len(tune') = musicRemaining'
    <3>1. musicRemaining' = musicRemaining + 1
      BY <1>4, <2>1, StoreAdds DEF QInv
    <3> QED BY <2>4, <2>7, <3>1
  <2>9. /\ Place(n + 1) = mend /\ \A i \in 1 .. n : Place(i) \in Index /\ Place(i) # mend
        /\ mend \in Index /\ DOMAIN musicnote = Index /\ DOMAIN musiclen = Index
    BY <2>4, <2>5, RingPlaces DEF QInv, Types, Counters
  <2>10. ASSUME NEW i \in 1 .. n PROVE Holds(i)'
    <3>1. musicnote'[Place(i)] = musicnote[Place(i)] /\ musiclen'[Place(i)] = musiclen[Place(i)]
      BY <2>5, <2>9
    <3>2. Holds(i) /\ tune'[i] = tune[i] /\ Place(i)' = Place(i)
      BY <2>4, <2>5, <2>7 DEF Place
    <3> QED BY <2>5, <3>1, <3>2 DEF Holds
  <2>11. Holds(n + 1)'
    <3>1. Place(n + 1)' = mend /\ tune'[n + 1] = note
      <4>1. Place(n + 1)' = Place(n + 1)
        BY <2>5 DEF Place
      <4> QED BY <2>7, <2>9, <4>1
    <3>2. musicnote'[mend] = Entry(read[w].tone) /\ musiclen'[mend] = read[w].len
      BY <2>5, <2>6, <2>9
    <3>3. n + 1 = 1 => mwait' = read[w].len
      BY <2>3, <2>4, <2>5
    <3> DEFINE i == n + 1
    <3>4. /\ tune'[i] = note /\ Place(i)' = mend /\ (i = 1 => mwait' = read[w].len)
          /\ musicnote'[mend] = Entry(read[w].tone) /\ musiclen'[mend] = read[w].len
      BY <3>1, <3>2, <3>3
    <3> HIDE DEF i
    <3>5. Holds(i)'
      BY <2>3, <3>4 DEF Holds
    <3> QED BY <3>5 DEF i
  <2>12. Rings'
    <3>1. ASSUME NEW i \in 1 .. Len(tune') PROVE Holds(i)'
      <4>1. i \in 1 .. n \/ i = n + 1
        BY <2>4, <2>7
      <4> QED BY <2>10, <2>11, <4>1
    <3> QED BY <2>7, <2>8, <3>1 DEF Rings
  <2>13. Texts'
    BY <1>1, <2>5 DEF Texts
  <2>14. ASSUME NEW v \in Who PROVE Pending(v)'
    <3>1. at'[v] # "store"
      BY <2>1 DEF QInv, Left, Who, Reads
    <3> QED BY <3>1 DEF Pending
  <2> QED BY <2>12, <2>13, <2>14 DEF TuneInv
<1>5. CASE EndMusic(w)
  <2>1. /\ at[w] = "parse" /\ at'[w] = "idle" /\ (\A v \in Who \ {w} : at'[v] = at[v])
    BY <1>5, Goes DEF EndMusic, QInv
  <2>2. UNCHANGED <<music, text, read, hist>>
    BY <1>5 DEF EndMusic
  <2>3. \A v \in Who : Pending(v)'
    BY <2>1, <2>2 DEF TuneInv, Pending, music, hist
  <2>4. Rings'
    BY <2>2, RingStays DEF TuneInv, hist
  <2>5. Texts'
    BY <1>1, <2>2 DEF Texts, text, hist
  <2> QED BY <2>3, <2>4, <2>5 DEF TuneInv
<1> QED BY <1>2, <1>3, <1>4, <1>5 DEF set_music
\* One tick less of a sequence of notes.
LEMMA TickOffs ==
  ASSUME NEW T, NEW s \in Seq(T), s # << >>,
         \A x \in T : x.ticks > 1 => [x EXCEPT !.ticks = @ - 1] \in T
  PROVE  /\ s[1].ticks > 1 =>
              /\ TickOff(s) = <<[s[1] EXCEPT !.ticks = @ - 1]>> \o Tail(s)
              /\ TickOff(s) \in Seq(T) /\ Len(TickOff(s)) = Len(s)
              /\ TickOff(s)[1] = [s[1] EXCEPT !.ticks = @ - 1]
              /\ \A i \in 2 .. Len(s) : TickOff(s)[i] = s[i]
         /\ ~(s[1].ticks > 1) =>
              /\ TickOff(s) = Tail(s)
              /\ Tail(s) \in Seq(T) /\ Len(Tail(s)) = Len(s) - 1
              /\ \A i \in 1 .. Len(s) - 1 : Tail(s)[i] = s[i + 1]
<1>1. /\ Head(s) = s[1] /\ s[1] \in T /\ Len(s) \in Nat \ {0}
      /\ Tail(s) \in Seq(T) /\ Len(Tail(s)) = Len(s) - 1
      /\ \A i \in 1 .. Len(s) - 1 : Tail(s)[i] = s[i + 1]
  BY HeadTailProperties, EmptySeq
<1>2. ASSUME s[1].ticks > 1
      PROVE  /\ TickOff(s) = <<[s[1] EXCEPT !.ticks = @ - 1]>> \o Tail(s)
             /\ TickOff(s) \in Seq(T) /\ Len(TickOff(s)) = Len(s)
             /\ TickOff(s)[1] = [s[1] EXCEPT !.ticks = @ - 1]
             /\ \A i \in 2 .. Len(s) : TickOff(s)[i] = s[i]
  <2> DEFINE x == [s[1] EXCEPT !.ticks = @ - 1]
             r == Tail(s)
             m == Len(s)
  <2>1. TickOff(s) = <<x>> \o r
    BY <1>1, <1>2 DEF TickOff
  <2>2. x \in T
    BY <1>1, <1>2
  <2>3. r \in Seq(T) /\ Len(r) = m - 1 /\ m \in Nat \ {0} /\ \A i \in 1 .. m - 1 : r[i] = s[i + 1]
    BY <1>1
  <2> HIDE DEF x, r, m
  <2>4. <<x>> \in Seq(T) /\ Len(<<x>>) = 1 /\ <<x>>[1] = x
    BY <2>2
  <2>5. /\ <<x>> \o r \in Seq(T) /\ Len(<<x>> \o r) = 1 + Len(r)
        /\ \A i \in 1 .. 1 + Len(r) : (<<x>> \o r)[i] = IF i <= 1 THEN <<x>>[i] ELSE r[i - 1]
    BY <2>3, <2>4, ConcatProperties
  <2>6. ASSUME NEW i \in 2 .. m PROVE (<<x>> \o r)[i] = s[i]
    <3>1. (<<x>> \o r)[i] = r[i - 1]
      BY <2>3, <2>5
    <3>2. i - 1 \in 1 .. m - 1 /\ (i - 1) + 1 = i
      BY <2>3
    <3>3. r[i - 1] = s[(i - 1) + 1]
      BY <2>3, <3>2
    <3> QED BY <3>1, <3>2, <3>3
  <2>7. Len(<<x>> \o r) = m /\ (<<x>> \o r)[1] = x
    BY <2>3, <2>4, <2>5
  <2> QED BY <2>1, <2>5, <2>6, <2>7 DEF x, r, m
<1>3. ASSUME ~(s[1].ticks > 1) PROVE TickOff(s) = Tail(s)
  BY <1>1, <1>3 DEF TickOff
<1> QED BY <1>1, <1>2, <1>3

\* The notes of a tune have times that a tick can take from.
LEMMA AskTicks ==
  ASSUME NEW x \in Asks, x.ticks \in Nat, x.ticks > 1
  PROVE  /\ [x EXCEPT !.ticks = @ - 1] \in Asks
         /\ [x EXCEPT !.ticks = @ - 1].ticks = x.ticks - 1
         /\ [x EXCEPT !.ticks = @ - 1].pitch = x.pitch
BY DEF Asks

\* A tick plays the first note of the ring, the first of the tune.
LEMMA TickRings ==
  ASSUME QInv, Rings, musicint
  PROVE  Rings'
<1>1. /\ mstart \in Index /\ mend \in Index /\ mwait \in Nat
      /\ musiclen \in [Index -> Nat]
  BY DEF QInv, Types, Counters
<1>2. /\ mend' = mend /\ musicnote' = musicnote /\ musiclen' = musiclen /\ tune' = TickOff(tune)
  BY DEF musicint, music, PlayNote
<1>3. PICK n \in Nat : n = Len(tune)
  BY Ring DEF Rings, QInv
<1>4. /\ tune \in Seq(Asks) /\ n = musicRemaining /\ (n = 0 <=> mstart = mend)
      /\ \A i \in 1 .. n : Holds(i)
  BY <1>3, Ring DEF Rings, QInv
<1>5. Place(1) = mstart /\ (\A i \in 1 .. n : Place(i) \in Index)
      /\ n \in 0 .. NOTES - 1 /\ NOTES \in Nat
  BY <1>4, RingPlaces, Ring DEF QInv
<1>6. CASE ~MusicOn
  <2>1. tune = << >> /\ UNCHANGED music
    <3>1. n = 0 /\ UNCHANGED music
      BY <1>4, <1>6 DEF musicint, MusicOn
    <3> QED BY <1>3, <1>4, <3>1, EmptySeq
  <2>2. tune' = tune
    BY <1>2, <2>1 DEF TickOff
  <2> QED BY <2>1, <2>2, RingStays
<1>7. CASE MusicOn
  <2>1. n \in 1 .. NOTES - 1 /\ tune # << >> /\ tune[1].ticks = mwait
    <3>1. n \in Nat \ {0}
      BY <1>4, <1>7 DEF MusicOn
    <3>2. Holds(1)
      BY <1>4, <3>1
    <3> QED BY <1>3, <1>5, <3>1, <3>2 DEF Holds
  <2>2. \A i \in 1 .. n : tune[i] \in Asks
    BY <1>3, <1>4, ElementOfSeq
  <2> DEFINE T == {x \in Asks : x.ticks \in Nat}
  <2>3. tune \in Seq(T)
    <3>1. ASSUME NEW i \in 1 .. n PROVE tune[i].ticks \in Nat
      <4>1. Holds(i) /\ Place(i) \in Index
        BY <1>4, <1>5
      <4>2. musiclen[Place(i)] \in Nat
        BY <1>1, <4>1
      <4> QED BY <1>1, <4>1, <4>2 DEF Holds
    <3>2. \A i \in 1 .. Len(tune) : tune[i] \in T
      BY <1>3, <2>2, <3>1
    <3> HIDE DEF T
    <3>3. tune \in [1 .. Len(tune) -> T]
      BY <1>4, <3>2, LenProperties
    <3> QED BY <1>3, <3>3
  <2>4. ASSUME NEW x \in T, x.ticks > 1 PROVE [x EXCEPT !.ticks = @ - 1] \in T
    <3> DEFINE y == [x EXCEPT !.ticks = @ - 1]
    <3>1. x \in Asks /\ x.ticks \in Nat
      OBVIOUS
    <3>2. y \in Asks /\ y.ticks = x.ticks - 1
      BY <2>4, <3>1, AskTicks
    <3> HIDE DEF y
    <3>3. y.ticks \in Nat
      BY <2>4, <3>1, <3>2
    <3>4. y \in T
      BY <3>2, <3>3
    <3> QED BY <3>4 DEF y
  <2>5. ASSUME NEW s \in Seq(T) PROVE s \in Seq(Asks)
    <3>1. T \subseteq Asks
      OBVIOUS
    <3> HIDE DEF T
    <3> QED BY <3>1, SeqMonotonic
  <2> HIDE DEF T
  <2>6. CASE mwait > 1
    <3>1. mstart' = mstart /\ mwait' = mwait - 1
      BY <1>7, <2>6 DEF musicint, PlayNote
    <3>2. /\ tune' \in Seq(T) /\ Len(tune') = n
          /\ tune'[1] = [tune[1] EXCEPT !.ticks = @ - 1]
          /\ \A i \in 2 .. n : tune'[i] = tune[i]
      BY <1>2, <1>3, <2>1, <2>3, <2>4, <2>6, TickOffs
    <3>3. musicRemaining' = musicRemaining
      BY <1>2, <3>1 DEF musicRemaining
    <3>4. ASSUME NEW i \in 1 .. n PROVE Holds(i)'
      <4>1. Holds(i) /\ Place(i)' = Place(i)
        BY <1>4, <3>1 DEF Place
      <4>2. CASE i = 1
        <5>1. tune[1] \in Asks /\ tune[1].ticks \in Nat /\ tune[1].ticks > 1
          BY <1>1, <2>1, <2>2, <2>6
        <5>2. tune'[1].ticks = mwait - 1 /\ tune'[1].pitch = tune[1].pitch
          BY <2>1, <3>2, <5>1, AskTicks
        <5> QED BY <1>2, <3>1, <4>1, <4>2, <5>2 DEF Holds
      <4>3. CASE i # 1
        <5>1. tune'[i] = tune[i]
          BY <3>2, <4>3
        <5> QED BY <1>2, <4>1, <4>3, <5>1 DEF Holds
      <4> QED BY <4>2, <4>3
    <3>5. tune' \in Seq(Asks)
      BY <2>5, <3>2
    <3> QED BY <1>4, <3>2, <3>3, <3>4, <3>5 DEF Rings
  <2>7. CASE ~(mwait > 1)
    <3>1. mstart' = (mstart + 1) % NOTES /\ mwait' = musiclen[mstart']
      BY <1>2, <1>7, <2>7 DEF musicint, PlayNote
    <3>2. /\ tune' \in Seq(T) /\ Len(tune') = n - 1
          /\ \A i \in 1 .. n - 1 : tune'[i] = tune[i + 1]
      BY <1>2, <1>3, <2>1, <2>3, <2>4, <2>7, TickOffs
    <3>3. musicRemaining' = musicRemaining - 1
      <4>1. (mend - ((mstart + 1) % NOTES)) % NOTES = ((mend - mstart) % NOTES) - 1
        BY <1>1, <1>7, CountLess DEF MusicOn
      <4> QED BY <1>2, <3>1, <4>1 DEF musicRemaining
    <3>4. \A i \in 1 .. n - 1 : Place(i)' = Place(i + 1)
      <4>1. ASSUME NEW i \in 1 .. NOTES - 1
            PROVE  PlaceOf((mstart + 1) % NOTES, i) = PlaceOf(mstart, i + 1)
        BY <1>1, PlacesInRing
      <4>2. \A i \in 1 .. n - 1 : i \in 1 .. NOTES - 1
        BY <1>5, <2>1
      <4> QED BY <3>1, <4>1, <4>2 DEF Place
    <3>5. ASSUME NEW i \in 1 .. n - 1 PROVE Holds(i)'
      <4>1. i + 1 \in 1 .. n /\ i + 1 # 1
        BY <2>1
      <4>2. /\ tune[i + 1].ticks = musiclen[Place(i + 1)]
            /\ IsVoice(musicnote[Place(i + 1)], tune[i + 1].pitch)
        <5>1. Holds(i + 1)
          BY <1>4, <4>1
        <5> QED BY <4>1, <5>1 DEF Holds
      <4>3. /\ tune'[i].ticks = musiclen[Place(i)'] /\ IsVoice(musicnote[Place(i)'], tune'[i].pitch)
        BY <3>2, <3>4, <4>2
      <4>4. i = 1 => musiclen[Place(i)'] = mwait'
        <5>1. Place(1)' = mstart'
          <6> DEFINE c == (mstart + 1) % NOTES
          <6>1. c \in Index
            BY <1>1, Count
          <6> HIDE DEF c
          <6>2. PlaceOf(c, 1) = c
            BY <1>1, <6>1, PlacesInRing
          <6> QED BY <3>1, <6>2 DEF c, Place
        <5> QED BY <3>1, <5>1
      <4> QED BY <1>2, <4>3, <4>4 DEF Holds
    <3>6. tune' \in Seq(Asks)
      BY <2>5, <3>2
    <3> QED BY <1>4, <3>2, <3>3, <3>5, <3>6 DEF Rings
  <2> QED BY <2>6, <2>7
<1> QED BY <1>6, <1>7

\* A step that leaves ring, tune and settings alone.
LEMMA TuneStays ==
  ASSUME TuneInv, UNCHANGED <<music, tune, settings, style>>, str' \in Seq(Playable),
         \A v \in Who : at'[v] # "store" \/ (at'[v] = at[v] /\ UNCHANGED <<read, owed>>)
  PROVE  TuneInv'
<1>1. Rings'
  BY RingStays DEF TuneInv
<1>2. Texts'
  BY DEF TuneInv, Texts
<1>3. \A v \in Who : Pending(v)'
  BY DEF TuneInv, Pending, music
<1> QED BY <1>1, <1>2, <1>3 DEF TuneInv

\* A tick keeps the tune, if it does not part two stores: a note that is being
\* stored comes into a ring that stays empty, or that keeps a note.
LEMMA TickTune ==
  ASSUME ~Reenter, ~Parts, Ordinary, QInv, TuneInv, musicint
  PROVE  TuneInv'
<1>1. Rings'
  BY TickRings DEF TuneInv
<1>2. settings' = settings /\ style' = style
  BY DEF musicint
<1>3. Texts'
  <2>1. str' = str \/ str' \in Tunes
    BY DEF musicint, Handler
  <2>2. str \in Seq(Playable) /\ Tunes \subseteq Seq(Playable)
    BY DEF TuneInv, Texts, Ordinary
  <2> QED BY <1>2, <2>1, <2>2 DEF TuneInv, Texts
<1>4. CASE at["main"] # "store"
  <2>1. at["irq"] = "idle"
    BY DEF musicint
  <2>2. at' = at \/ at' = [at EXCEPT !["irq"] = "parse"]
    BY DEF musicint, Handler
  <2>3. \A v \in Who : at'[v] # "store"
    BY <1>4, <2>1, <2>2 DEF QInv, Types, Who
  <2> QED BY <1>1, <1>3, <2>3 DEF TuneInv, Pending
<1>5. CASE at["main"] = "store"
  <2>1. UNCHANGED <<at, owed, read>> /\ mend' = mend
    BY <1>5 DEF musicint, Handler, music, PlayNote
  <2>2. CASE ~MusicOn
    <3>1. UNCHANGED music
      BY <2>2 DEF musicint
    <3>2. \A v \in Who : Pending(v)'
      BY <2>1, <3>1 DEF TuneInv, Pending, music
    <3> QED BY <1>1, <1>3, <3>2 DEF TuneInv
  <2>3. CASE MusicOn
    <3>1. mstart' = mstart \/ (~(mwait > 1) /\ mstart' = (mstart + 1) % NOTES)
      BY <2>3 DEF musicint, PlayNote
    <3>2. mwait \in Nat
      BY DEF QInv, Types, Counters
    <3>3. mstart' # mend'
      BY <1>5, <2>1, <2>3, <3>1, <3>2 DEF Parts, MusicOn
    <3>4. \A v \in Who : Pending(v)'
      BY <2>1, <3>3 DEF TuneInv, Pending
    <3> QED BY <1>1, <1>3, <3>4 DEF TuneInv
  <2> QED BY <2>2, <2>3
<1> QED BY <1>4, <1>5

\* Every step keeps the tune, if it is no tick that parts two stores.
LEMMA NextTune ==
  ASSUME ~Reenter, ~(musicint /\ Parts), Ordinary, TonesAsWritten, QInv, TuneInv, [Next]_vars
  PROVE  TuneInv'
<1>1. QInv' /\ str \in Seq(Playable) /\ << >> \in Seq(Playable)
  BY NextQueues DEF TuneInv, Texts
<1>2. ASSUME NEW t \in Tunes, PlayMusic(t) PROVE TuneInv'
  <2>1. /\ at'["main"] = "parse" /\ at'["irq"] = at["irq"] /\ at["irq"] = "idle"
    BY <1>2, Goes DEF PlayMusic, QInv, Who
  <2>2. str' \in Seq(Playable)
    BY <1>2 DEF PlayMusic, BeginMusic, Ordinary
  <2> QED BY <1>2, <2>1, <2>2, TuneStays DEF PlayMusic, Who
<1>3. ASSUME NEW w \in Who, set_music(w) PROVE TuneInv'
  BY <1>1, <1>3, MusicRings
<1>4. CASE musicint
  BY <1>4, TickTune
<1>5. ASSUME UNCHANGED <<music, tune, settings, style, str, read, owed>>,
             \A v \in Who : at'[v] # "store" \/ at'[v] = at[v]
      PROVE  TuneInv'
  BY <1>1, <1>5, TuneStays
<1>6. ASSUME NEW s \in Sounds, BeginSound(s) PROVE TuneInv'
  BY <1>5, <1>6, Goes DEF BeginSound, QInv, Who
<1>7. CASE ReadSound
  BY <1>5, <1>7, Goes DEF ReadSound, QInv, Who, text, hist
<1>8. CASE EndSound
  BY <1>5, <1>8, Goes DEF EndSound, QInv, Who
<1>9. CASE set_wave
  BY <1>5, <1>9, Goes DEF set_wave, QInv, Who, text, hist
<1>10. CASE EndOfWave
  BY <1>5, <1>10 DEF EndOfWave, text, hist
<1>11. CASE UNCHANGED vars
  BY <1>5, <1>11 DEF vars, text, hist
<1>12. CASE EndProgram
  <2>1. /\ at'["main"] = "ended" /\ at'["irq"] = "idle" /\ tune' = << >> /\ str' = << >>
        /\ mstart' = 0 /\ mend' = 0 /\ settings' = settings /\ style' = style
    BY <1>12 DEF EndProgram, stop_music, QInv, Types, Who
  <2>2. musicRemaining' = 0
    <3>1. NOTES \in Nat \ {0} /\ (0 - 0) % NOTES = 0
      BY MusicAssumption
    <3> QED BY <2>1, <3>1 DEF musicRemaining
  <2>3. Rings'
    <3>1. << >> \in Seq(Asks) /\ Len(<< >>) = 0 /\ 1 .. 0 = {}
      OBVIOUS
    <3> QED BY <2>1, <2>2, <3>1 DEF Rings
  <2>4. Texts'
    BY <1>1, <2>1 DEF TuneInv, Texts
  <2> QED BY <2>1, <2>3, <2>4 DEF TuneInv, Pending, Who
<1>13. CASE init_music
  <2>1. at'["main"] = "idle" /\ at'["irq"] = "idle"
    BY <1>13, Goes DEF init_music, QInv, Who
  <2>2. Rings'
    BY <1>13, RingStays DEF init_music, TuneInv
  <2>3. Texts'
    BY <1>1, <1>13, FirstCorresponds DEF init_music, Texts
  <2> QED BY <2>1, <2>2, <2>3 DEF TuneInv, Pending, Who
<1> QED BY <1>2, <1>3, <1>4, <1>6, <1>7, <1>8, <1>9, <1>10, <1>11, <1>12, <1>13
     DEF Next, Statement, set_sound

LEMMA FirstTune ==
  ASSUME TonesAsWritten, Init
  PROVE  TuneInv
<1>1. /\ << >> \in Seq(Asks) /\ Len(<< >>) = 0 /\ 1 .. 0 = {} /\ << >> \in Seq(Playable)
      /\ NOTES \in Nat \ {0} /\ (0 - 0) % NOTES = 0
  BY MusicAssumption
<1>2. Rings
  BY <1>1 DEF Init, Rings, musicRemaining
<1>3. Texts
  BY <1>1, FirstCorresponds DEF Init, Texts
<1>4. \A w \in Who : Pending(w)
  BY DEF Init, Pending
<1> QED BY <1>2, <1>3, <1>4 DEF TuneInv

\* The tune as TuneAsAsked has it.
LEMMA RingsAsAsked ==
  ASSUME Types, Rings
  PROVE  TuneAsAsked
<1>1. /\ tune \in Seq(Asks) /\ Len(tune) = musicRemaining
      /\ DOMAIN tune = 1 .. Len(tune) /\ \A i \in 1 .. Len(tune) : Holds(i)
  BY LenProperties DEF Rings
<1>2. ASSUME NEW i \in DOMAIN tune
      PROVE  LET j == (mstart + i - 1) % NOTES IN
             /\ tune[i].ticks = IF i = 1 THEN mwait ELSE musiclen[j]
             /\ IsTone(musicnote[j], tune[i].pitch)
  <2>1. Holds(i) /\ i \in Nat
    BY <1>1, Ring
  <2>2. (mstart + i - 1) % NOTES = Place(i)
    <3>1. mstart + i - 1 = mstart + (i - 1)
      BY <2>1, Ring
    <3> QED BY <3>1 DEF Place, PlaceOf
  <2>3. \A e, p : IsVoice(e, p) => IsTone(e, p)
    BY DEF IsVoice, IsTone
  <2> QED BY <2>1, <2>2, <2>3 DEF Holds
<1> QED BY <1>1, <1>2 DEF TuneAsAsked
-----------------------------------------------------------------------------
(* Sequences of the notes of an effect.                                    *)

Beep == [ticks : Nat, tone : 2 .. Silent + 1]

\* The copies of a sequence.
LEMMA CopiesType ==
  ASSUME NEW s \in Seq(Beep), NEW n \in Nat
  PROVE  /\ Copies(n, s) \in Seq(Beep) /\ Len(Copies(n, s)) = n * Len(s)
         /\ \A i \in 1 .. n * Len(s) :
              /\ ((i - 1) % Len(s)) + 1 \in 1 .. Len(s)
              /\ Copies(n, s)[i] = s[((i - 1) % Len(s)) + 1]
<1> DEFINE l == Len(s)
           m == n * l
           f == Copies(n, s)
<1>1. l \in Nat /\ m \in Nat
  OBVIOUS
<1>2. f = [i \in 1 .. m |-> s[((i - 1) % l) + 1]]
  BY DEF Copies
<1>3. ASSUME NEW i \in 1 .. m PROVE ((i - 1) % l) + 1 \in 1 .. l
  <2>1. l # 0
    <3>1. l = 0 => m = 0
      BY <1>1
    <3> HIDE DEF l, m
    <3> QED BY <1>1, <1>3, <3>1
  <2> DEFINE x == i - 1
  <2>2. x \in Nat
    BY <1>1
  <2> HIDE DEF l, m, x
  <2>3. x % l \in 0 .. l - 1
    BY <1>1, <2>1, <2>2, Quotient
  <2>4. (x % l) + 1 \in 1 .. l
    BY <1>1, <2>1, <2>3
  <2> QED BY <2>4 DEF x
<1>4. \A i \in 1 .. m : s[((i - 1) % l) + 1] \in Beep
  <2> HIDE DEF m, f
  <2> QED BY <1>3, ElementOfSeq
<1> HIDE DEF l, m, f
<1>5. f \in [1 .. m -> Beep]
  BY <1>2, <1>4
<1>6. f \in Seq(Beep) /\ Len(f) = m
  BY <1>1, <1>5
<1>7. \A i \in 1 .. m : f[i] = s[((i - 1) % l) + 1]
  BY <1>2
<1> QED BY <1>3, <1>6, <1>7 DEF f, m, l

LEMMA CopiesNone ==
  ASSUME NEW s \in Seq(Beep), NEW n \in Int, n <= 0
  PROVE  Copies(n, s) = << >>
<1> DEFINE l == Len(s)
           m == n * l
<1>1. l \in Nat
  OBVIOUS
<1>2. m \in Int /\ m <= 0
  <2> HIDE DEF l
  <2>1. (0 - n) * l \in Nat /\ (0 - n) * l = 0 - (n * l)
    BY <1>1
  <2> QED BY <1>1, <2>1
<1>3. Copies(n, s) = [i \in 1 .. m |-> s[((i - 1) % l) + 1]]
  BY DEF Copies
<1> HIDE DEF l, m
<1>4. 1 .. m = {} /\ 1 .. 0 = {}
  BY <1>2
<1>5. Copies(n, s) \in [1 .. 0 -> Beep]
  BY <1>3, <1>4
<1>6. Copies(n, s) \in Seq(Beep) /\ Len(Copies(n, s)) = 0
  BY <1>5
<1> QED BY <1>6, EmptySeq

LEMMA CopiesMore ==
  ASSUME NEW s \in Seq(Beep), NEW n \in Nat
  PROVE  Copies(n + 1, s) = s \o Copies(n, s)
<1> DEFINE l == Len(s)
           m == n * l
           f == Copies(n, s)
           g == Copies(n + 1, s)
<1>1. l \in Nat /\ m \in Nat /\ (n + 1) * l = l + m /\ n + 1 \in Nat
  OBVIOUS
<1>2. /\ f \in Seq(Beep) /\ Len(f) = m
      /\ \A i \in 1 .. m : f[i] = s[((i - 1) % l) + 1]
  BY CopiesType
<1>3. /\ g \in Seq(Beep) /\ Len(g) = l + m
      /\ \A i \in 1 .. l + m : g[i] = s[((i - 1) % l) + 1]
  BY <1>1, CopiesType
<1> HIDE DEF l, m, f, g
<1>4. /\ s \o f \in Seq(Beep) /\ Len(s \o f) = l + m
      /\ \A i \in 1 .. l + m : (s \o f)[i] = IF i <= l THEN s[i] ELSE f[i - l]
  BY <1>2, ConcatProperties DEF l
<1>5. ASSUME NEW i \in 1 .. l + m PROVE g[i] = (s \o f)[i]
  <2> DEFINE x == i - 1
  <2>1. x \in Nat /\ i = x + 1
    BY <1>1
  <2>2. g[i] = s[(x % l) + 1]
    BY <1>3
  <2>3. CASE i <= l
    <3>1. l \in Nat \ {0} /\ x < l
      BY <1>1, <2>1, <2>3
    <3> HIDE DEF x
    <3>2. x % l = x
      BY <2>1, <3>1, Again
    <3> QED BY <1>4, <2>1, <2>2, <2>3, <3>2
  <2>4. CASE ~(i <= l)
    <3> DEFINE j == i - l
               y == j - 1
    <3>1. j \in 1 .. m /\ y \in Nat /\ x = y + l
      BY <1>1, <2>4
    <3>2. f[j] = s[(y % l) + 1] /\ (s \o f)[i] = f[j]
      BY <1>2, <1>4, <2>4, <3>1
    <3>3. l # 0
      <4>1. l = 0 => m = 0
        BY <1>1 DEF m
      <4> QED BY <1>1, <3>1, <4>1
    <3> HIDE DEF x, y, j
    <3>4. x % l = y % l
      BY <1>1, <3>1, <3>3, Again
    <3> QED BY <2>2, <3>2, <3>4
  <2> QED BY <2>3, <2>4
<1>6. g = s \o f
  BY <1>3, <1>4, <1>5, SeqEqual
<1> QED BY <1>6 DEF f, g

\* What is left of a sequence, w ticks before the end of its k-th note, with c
\* behind it.
Remainder(s, k, w, c) == <<[s[k] EXCEPT !.ticks = w]>> \o (SubSeq(s, k + 1, Len(s)) \o c)

LEMMA BeepTicks ==
  ASSUME NEW x \in Beep, NEW w \in Nat
  PROVE  /\ [x EXCEPT !.ticks = w] \in Beep
         /\ [x EXCEPT !.ticks = w].ticks = w
         /\ [x EXCEPT !.ticks = w].tone = x.tone
         /\ [[x EXCEPT !.ticks = w] EXCEPT !.ticks = @ - 1] = [x EXCEPT !.ticks = w - 1]
         /\ [x EXCEPT !.ticks = x.ticks] = x
BY DEF Beep

LEMMA LeftSteps ==
  ASSUME NEW s \in Seq(Beep), NEW k \in 1 .. Len(s), NEW w \in Nat, NEW c \in Seq(Beep)
  PROVE  /\ Remainder(s, k, w, c) \in Seq(Beep) /\ Remainder(s, k, w, c) # << >>
         /\ Head(Remainder(s, k, w, c)).tone = s[k].tone
         /\ TickOff(Remainder(s, k, w, c))
              = IF w > 1 THEN Remainder(s, k, w - 1, c) ELSE SubSeq(s, k + 1, Len(s)) \o c
         /\ Remainder(s, k, s[k].ticks, c) = SubSeq(s, k, Len(s)) \o c
<1> DEFINE x == [s[k] EXCEPT !.ticks = w]
           p == SubSeq(s, k + 1, Len(s))
           rest == p \o c
<1>1. s[k] \in Beep /\ s[k].ticks \in Nat /\ Len(s) \in Nat
  <2>1. s[k] \in Beep
    BY ElementOfSeq
  <2> QED BY <2>1 DEF Beep
<1>2. p \in Seq(Beep)
  <2>1. \A i \in k + 1 .. Len(s) : s[i] \in Beep
    BY <1>1, ElementOfSeq
  <2>2. k + 1 \in Int
    BY <1>1
  <2> QED BY <1>1, <2>1, <2>2, SubSeqProperties
<1>3. rest \in Seq(Beep)
  <2> HIDE DEF p
  <2> QED BY <1>2
<1>4. x \in Beep /\ x.ticks = w /\ x.tone = s[k].tone /\ [x EXCEPT !.ticks = @ - 1] = [s[k] EXCEPT !.ticks = w - 1]
      /\ [s[k] EXCEPT !.ticks = s[k].ticks] = s[k]
  BY <1>1, BeepTicks
<1>5. Remainder(s, k, w, c) = <<x>> \o rest
  BY DEF Remainder
<1>6. Remainder(s, k, w - 1, c) = <<[s[k] EXCEPT !.ticks = w - 1]>> \o rest
  BY DEF Remainder
<1>7. Remainder(s, k, s[k].ticks, c) = SubSeq(s, k, Len(s)) \o c
  <2>1. Remainder(s, k, s[k].ticks, c) = <<s[k]>> \o (p \o c)
    BY <1>4 DEF Remainder
  <2>2. SubSeq(s, k, Len(s)) = <<s[k]>> \o p
    <3>1. Len(s) \in k .. Len(s)
      BY <1>1
    <3> QED BY <3>1, SubSeqRecursiveFirst
  <2>3. <<s[k]>> \in Seq(Beep)
    BY <1>1
  <2> HIDE DEF p
  <2> DEFINE a == <<s[k]>>
  <2>4. a \in Seq(Beep)
    BY <2>3
  <2> HIDE DEF a
  <2>5. (a \o p) \o c = a \o (p \o c)
    BY <1>2, <2>4, ConcatAssociative
  <2> QED BY <2>1, <2>2, <2>5 DEF a
<1> HIDE DEF x, rest
<1>8. /\ <<x>> \o rest \in Seq(Beep) /\ <<x>> \o rest # << >>
      /\ Head(<<x>> \o rest) = x /\ Tail(<<x>> \o rest) = rest
  BY <1>3, <1>4
<1>9. TickOff(<<x>> \o rest) = IF w > 1 THEN <<[x EXCEPT !.ticks = @ - 1]>> \o rest ELSE rest
  BY <1>4, <1>8 DEF TickOff
<1> QED BY <1>3, <1>4, <1>5, <1>6, <1>7, <1>8, <1>9 DEF rest
-----------------------------------------------------------------------------
(* The table holds the effect.                                             *)

SoundInv ==
  /\ Once \in Seq(Beep)
  /\ (sstart = 0 /\ send = 0) \/ sstart < send
  /\ at["main"] = "fill" => data \in Sounds /\ send = 0
  /\ at["main"] = "wait" => /\ data \in Sounds /\ sstart = 0
                            /\ Once = data.notes /\ srepeat = data.repeat
  /\ at["main"] \in {"fill", "wait"} => effect = << >>
  /\ at["main"] # "wait" => Rest = effect

\* What is left of a table of the notes once, r times, from the place a on.
RestFrom(a, e, w, r, once) ==
  IF a # e
  THEN <<[once[a + 1] EXCEPT !.ticks = w]>> \o SubSeq(once, a + 2, e) \o Copies(r - 1, once)
  ELSE << >>

LEMMA RestIs ==
  /\ Rest = RestFrom(sstart, send, swait, srepeat, Once)
  /\ Rest' = RestFrom(sstart', send', swait', srepeat', Once')
BY DEF Rest, RestFrom, SoundOn

LEMMA CopiesBefore ==
  ASSUME NEW s \in Seq(Beep), NEW r \in Nat
  PROVE  Copies(r - 1, s) \in Seq(Beep)
<1>1. CASE r = 0
  <2>1. r - 1 \in Int /\ r - 1 <= 0
    BY <1>1
  <2>2. Copies(r - 1, s) = << >>
    BY <2>1, CopiesNone
  <2> QED BY <2>2, EmptySeq
<1>2. CASE r # 0
  <2>1. r - 1 \in Nat
    BY <1>2
  <2> QED BY <2>1, CopiesType
<1> QED BY <1>1, <1>2

LEMMA RestRemains ==
  ASSUME NEW s \in Seq(Beep), NEW a \in Nat, a < Len(s), NEW w \in Nat, NEW r \in Nat
  PROVE  RestFrom(a, Len(s), w, r, s) = Remainder(s, a + 1, w, Copies(r - 1, s))
<1> DEFINE c == Copies(r - 1, s)
           p == SubSeq(s, a + 2, Len(s))
           x == [s[a + 1] EXCEPT !.ticks = w]
<1>1. Len(s) \in Nat /\ a # Len(s) /\ (a + 1) + 1 = a + 2 /\ a + 1 \in 1 .. Len(s)
  OBVIOUS
<1>2. c \in Seq(Beep)
  BY CopiesBefore
<1>3. p \in Seq(Beep)
  <2>1. \A i \in a + 2 .. Len(s) : s[i] \in Beep
    <3>1. ASSUME NEW i \in a + 2 .. Len(s) PROVE s[i] \in Beep
      <4>1. i \in 1 .. Len(s)
        BY <1>1
      <4> QED BY <4>1, ElementOfSeq
    <3> QED BY <3>1
  <2>2. a + 2 \in Int
    OBVIOUS
  <2> QED BY <1>1, <2>1, <2>2, SubSeqProperties
<1>4. <<x>> \in Seq(Beep)
  <2>1. s[a + 1] \in Beep
    BY <1>1, ElementOfSeq
  <2>2. x \in Beep
    BY <2>1, BeepTicks
  <2> HIDE DEF x
  <2> QED BY <2>2
<1>5. RestFrom(a, Len(s), w, r, s) = <<x>> \o p \o c
  BY <1>1 DEF RestFrom
<1>6. Remainder(s, a + 1, w, c) = <<x>> \o (p \o c)
  BY <1>1 DEF Remainder
<1> DEFINE y == <<x>>
<1> HIDE DEF c, p, x
<1>7. y \in Seq(Beep)
  BY <1>4
<1> HIDE DEF y
<1>8. (y \o p) \o c = y \o (p \o c)
  BY <1>2, <1>3, <1>7, ConcatAssociative
<1> QED BY <1>5, <1>6, <1>8 DEF y, c

\* From the beginning of a note on, in front of what is left are the rest of the
\* table and its other copies.
LEMMA RestWhole ==
  ASSUME NEW s \in Seq(Beep), NEW a \in Nat, a < Len(s), NEW r \in Nat
  PROVE  RestFrom(a, Len(s), s[a + 1].ticks, r, s) = SubSeq(s, a + 1, Len(s)) \o Copies(r - 1, s)
<1>1. a + 1 \in 1 .. Len(s) /\ Copies(r - 1, s) \in Seq(Beep)
  BY CopiesBefore
<1>2. s[a + 1] \in Beep
  BY <1>1, ElementOfSeq
<1>3. s[a + 1].ticks \in Nat
  BY <1>2 DEF Beep
<1> DEFINE k == a + 1
           w == s[k].ticks
           c == Copies(r - 1, s)
<1>4. k \in 1 .. Len(s) /\ w \in Nat /\ c \in Seq(Beep)
  BY <1>1, <1>3
<1>5. RestFrom(a, Len(s), w, r, s) = Remainder(s, k, w, c)
  BY <1>4, RestRemains
<1> HIDE DEF k, c
<1>6. Remainder(s, k, s[k].ticks, c) = SubSeq(s, k, Len(s)) \o c
  BY <1>4, LeftSteps
<1> QED BY <1>5, <1>6 DEF k, c

\* A tick takes one tick of what is left: before, within and behind a note.
LEMMA RestTicks ==
  ASSUME NEW s \in Seq(Beep), NEW a \in Nat, a < Len(s), NEW w \in Nat, NEW r \in Nat
  PROVE  /\ RestFrom(a, Len(s), w, r, s) \in Seq(Beep)
         /\ RestFrom(a, Len(s), w, r, s) # << >>
         /\ Head(RestFrom(a, Len(s), w, r, s)).tone = s[a + 1].tone
         /\ w > 1 =>
              TickOff(RestFrom(a, Len(s), w, r, s)) = RestFrom(a, Len(s), w - 1, r, s)
         /\ ~(w > 1) /\ a + 1 # Len(s) =>
              TickOff(RestFrom(a, Len(s), w, r, s)) = RestFrom(a + 1, Len(s), s[a + 2].ticks, r, s)
         /\ ~(w > 1) /\ a + 1 = Len(s) =>
              TickOff(RestFrom(a, Len(s), w, r, s)) = Copies(r - 1, s)
         /\ ~(w > 1) /\ a + 1 = Len(s) /\ r <= 1 =>
              TickOff(RestFrom(a, Len(s), w, r, s)) = << >>
<1> DEFINE e == Len(s)
           now == RestFrom(a, e, w, r, s)
           c == Copies(r - 1, s)
           rest == SubSeq(s, a + 2, e) \o c
<1>1. e \in Nat /\ a + 1 \in 1 .. e /\ (a + 1) + 1 = a + 2 /\ c \in Seq(Beep)
  BY CopiesBefore
<1>2. now = Remainder(s, a + 1, w, c)
  BY RestRemains
<1>3. /\ now \in Seq(Beep) /\ now # << >> /\ Head(now).tone = s[a + 1].tone
      /\ TickOff(now) = IF w > 1 THEN Remainder(s, a + 1, w - 1, c) ELSE rest
  <2> DEFINE k == a + 1
  <2>1. k \in 1 .. Len(s) /\ k + 1 = a + 2
    BY <1>1
  <2> HIDE DEF c, now, k
  <2>2. /\ Remainder(s, k, w, c) \in Seq(Beep) /\ Remainder(s, k, w, c) # << >>
        /\ Head(Remainder(s, k, w, c)).tone = s[k].tone
        /\ TickOff(Remainder(s, k, w, c))
             = IF w > 1 THEN Remainder(s, k, w - 1, c) ELSE SubSeq(s, k + 1, Len(s)) \o c
    <3> HIDE DEF e
    <3> QED BY <1>1, <2>1, LeftSteps
  <2> QED BY <1>2, <2>1, <2>2 DEF k
<1> HIDE DEF now
<1>4. ASSUME w > 1 PROVE TickOff(now) = RestFrom(a, e, w - 1, r, s)
  <2>1. w - 1 \in Nat
    BY <1>4
  <2>2. RestFrom(a, e, w - 1, r, s) = Remainder(s, a + 1, w - 1, c)
    BY <2>1, RestRemains
  <2> QED BY <1>3, <1>4, <2>2
<1>5. ASSUME ~(w > 1), a + 1 # e PROVE TickOff(now) = RestFrom(a + 1, e, s[a + 2].ticks, r, s)
  <2> DEFINE b == a + 1
  <2>1. b \in Nat /\ b < e /\ b + 1 = a + 2
    BY <1>1, <1>5
  <2> HIDE DEF b
  <2>2. RestFrom(b, e, s[b + 1].ticks, r, s) = SubSeq(s, b + 1, e) \o c
    BY <2>1, RestWhole
  <2> QED BY <1>3, <1>5, <2>1, <2>2 DEF b
<1>6. ASSUME ~(w > 1), a + 1 = e PROVE TickOff(now) = c
  <2>1. SubSeq(s, a + 2, e) = << >>
    <3>1. a + 2 \in Int /\ e \in Int /\ e < a + 2
      BY <1>1, <1>6
    <3> QED BY <3>1, SubSeqEmpty
  <2>2. << >> \o c = c
    <3> HIDE DEF c
    <3> QED BY <1>1, ConcatEmptySeq
  <2> QED BY <1>3, <1>6, <2>1, <2>2
<1>7. ASSUME r <= 1 PROVE c = << >>
  <2>1. r - 1 \in Int /\ r - 1 <= 0
    BY <1>7
  <2> QED BY <2>1, CopiesNone
<1> QED BY <1>3, <1>4, <1>5, <1>6, <1>7 DEF now

LEMMA RestAgain ==
  ASSUME NEW s \in Seq(Beep), NEW a \in Nat, a < Len(s), NEW w \in Nat, NEW r \in Nat,
         ~(w > 1), a + 1 = Len(s), r > 1
  PROVE  TickOff(RestFrom(a, Len(s), w, r, s)) = RestFrom(0, Len(s), s[1].ticks, r - 1, s)
<1> DEFINE e == Len(s)
           c == Copies(r - 1, s)
           now == RestFrom(a, e, w, r, s)
<1>1. e \in Nat /\ a + 1 = e
  OBVIOUS
<1>2. TickOff(now) = c
  BY RestTicks
<1>3. c = RestFrom(0, e, s[1].ticks, r - 1, s)
  <2> DEFINE q == r - 1
             n == q - 1
  <2>1. q \in Nat /\ n \in Nat /\ n + 1 = q /\ 0 \in Nat /\ 0 < e
    BY <1>1
  <2> HIDE DEF q, n
  <2>2. Copies(q, s) = s \o Copies(n, s)
    BY <2>1, CopiesMore
  <2>3. RestFrom(0, e, s[0 + 1].ticks, q, s) = SubSeq(s, 0 + 1, e) \o Copies(q - 1, s)
    BY <2>1, RestWhole
  <2>4. SubSeq(s, 1, e) = s
    BY SubSeqFull
  <2>5. q - 1 = n /\ 0 + 1 = 1
    BY <2>1
  <2> QED BY <2>2, <2>3, <2>4, <2>5 DEF q
<1> HIDE DEF now, c
<1> QED BY <1>2, <1>3 DEF now

\* The table of the state.
LEMMA OnceIs ==
  ASSUME Types, Once \in Seq(Beep)
  PROVE  /\ Len(Once) = send
         /\ \A i \in 1 .. send :
              Once[i] = [ticks |-> soundlen[i - 1], tone |-> soundnote[i - 1] + 1]
<1>1. send \in Nat
  BY MusicAssumption DEF Types, Counters
<1>2. DOMAIN Once = 1 .. send
  BY DEF Once
<1>3. DOMAIN Once = 1 .. Len(Once) /\ Len(Once) \in Nat
  BY LenProperties
<1>4. Len(Once) = send
  <2> DEFINE l == Len(Once)
  <2>1. 1 .. l = 1 .. send /\ l \in Nat
    BY <1>2, <1>3
  <2> HIDE DEF l
  <2>2. l = send
    BY <1>1, <2>1
  <2> QED BY <2>2 DEF l
<1>5. \A i \in 1 .. send : Once[i] = [ticks |-> soundlen[i - 1], tone |-> soundnote[i - 1] + 1]
  BY DEF Once
<1> QED BY <1>4, <1>5

\* A table of no notes.
LEMMA NoOnce ==
  /\ send = 0 => Once = << >> /\ Once \in Seq(Beep)
  /\ send' = 0 => Once' = << >> /\ Once' \in Seq(Beep)
<1>1. 1 .. 0 = {}
  OBVIOUS
<1>2. \A f : f \in [1 .. 0 -> Beep] => f = << >> /\ f \in Seq(Beep)
  <2> SUFFICES ASSUME NEW f \in [1 .. 0 -> Beep] PROVE f = << >> /\ f \in Seq(Beep)
    OBVIOUS
  <2>1. f \in Seq(Beep) /\ Len(f) = 0
    OBVIOUS
  <2> QED BY <2>1, EmptySeq
<1>3. send = 0 => Once \in [1 .. 0 -> Beep]
  BY <1>1 DEF Once
<1>4. send' = 0 => Once' \in [1 .. 0 -> Beep]
  BY <1>1 DEF Once
<1> QED BY <1>2, <1>3, <1>4

\* A step that leaves the sound alone.
LEMMA SoundStays ==
  ASSUME SoundInv, UNCHANGED <<sound, effect>>,
         \/ at'["main"] = at["main"] /\ data' = data
         \/ at["main"] # "wait" /\ at'["main"] \notin {"fill", "wait"}
  PROVE  SoundInv'
<1>1. Once' = Once /\ Rest' = Rest
  BY DEF Once, Rest, SoundOn, sound
<1> QED BY <1>1 DEF SoundInv, sound

\* SOUND fills the table with what it was given.
LEMMA SoundFills ==
  ASSUME Ordinary, Types, Types', SoundInv, ReadSound
  PROVE  SoundInv'
<1>1. /\ at["main"] = "fill" /\ at'["main"] = "wait"
      /\ data \in Sounds /\ send = 0 /\ sstart = 0 /\ effect = << >>
  <2>1. at["main"] = "fill" /\ at'["main"] = "wait"
    BY Goes DEF ReadSound, Who
  <2>2. sstart \in Nat
    BY MusicAssumption DEF Types, Counters, Index
  <2> QED BY <2>1, <2>2 DEF SoundInv
<1> DEFINE notes == data.notes
           n == Len(notes)
<1>2. /\ notes \in Seq(Effect) /\ n \in 0 .. NOTES /\ NOTES \in Nat
      /\ \A i \in 1 .. n : notes[i] \in Effect /\ notes[i].ticks \in Nat /\ notes[i].ticks < LenBound
  BY <1>1, Effects, MusicAssumption DEF Ordinary
<1>3. /\ send' = n /\ sstart' = sstart /\ srepeat' = data.repeat /\ data' = data /\ effect' = effect
      /\ soundnote' = [i \in Index |-> IF i < n THEN Entry(notes[i + 1].tone) ELSE soundnote[i]]
      /\ soundlen' = [i \in Index |-> IF i < n THEN notes[i + 1].ticks % LenBound ELSE soundlen[i]]
  BY DEF ReadSound, text, hist
<1> HIDE DEF notes, n
<1>4. notes \in Seq(Beep)
  <2>1. Effect \subseteq Beep
    BY DEF Effect, Beep
  <2> QED BY <1>2, <2>1, SeqMonotonic
<1>5. ASSUME NEW i \in 1 .. n
      PROVE  [ticks |-> soundlen'[i - 1], tone |-> soundnote'[i - 1] + 1] = notes[i]
  <2> DEFINE j == i - 1
  <2>1. j \in Index /\ j < n /\ j + 1 = i
    BY <1>2 DEF Index
  <2> HIDE DEF j
  <2>2. soundlen'[j] = notes[i].ticks % LenBound /\ soundnote'[j] = Entry(notes[i].tone)
    BY <1>3, <2>1
  <2> DEFINE x == notes[i]
  <2>3. x \in Effect /\ x.ticks \in Nat /\ x.ticks < LenBound
    BY <1>2
  <2>4. soundlen'[j] = x.ticks % LenBound /\ soundnote'[j] = Entry(x.tone)
    BY <2>2
  <2> HIDE DEF x
  <2>5. x.ticks % LenBound = x.ticks
    BY <2>3, Again, MusicAssumption
  <2>6. x.tone \in 1 .. Silent + 1 /\ x.tone \in Int
    <3>1. x.tone \in 2 .. Silent + 1
      BY <2>3 DEF Effect
    <3>2. Silent \in Nat
      BY DEF Silent, Short
    <3> QED BY <3>1, <3>2
  <2>7. Entry(x.tone) = x.tone - 1
    BY <2>6, Entries
  <2>8. soundnote'[j] + 1 = x.tone
    BY <2>4, <2>6, <2>7
  <2>9. [ticks |-> soundlen'[j], tone |-> soundnote'[j] + 1] = x
    BY <2>3, <2>4, <2>5, <2>8 DEF Effect
  <2> QED BY <2>9 DEF x, j
<1>6. Once' = notes
  <2>1. Once' = [i \in 1 .. n |-> [ticks |-> soundlen'[i - 1], tone |-> soundnote'[i - 1] + 1]]
    BY <1>3 DEF Once
  <2>2. Once' = [i \in 1 .. n |-> notes[i]]
    BY <1>5, <2>1
  <2>3. notes = [i \in 1 .. n |-> notes[i]]
    BY <1>4, LenProperties DEF n
  <2> QED BY <2>2, <2>3
<1>7. (sstart' = 0 /\ send' = 0) \/ sstart' < send'
  BY <1>1, <1>2, <1>3
<1> QED BY <1>1, <1>3, <1>4, <1>6, <1>7 DEF SoundInv, notes

\* The effect begins.
LEMMA SoundBegins ==
  ASSUME Types, SoundInv, EndSound
  PROVE  SoundInv'
<1>1. /\ at["main"] = "wait" /\ at'["main"] = "idle"
      /\ data \in Sounds /\ sstart = 0 /\ Once = data.notes /\ srepeat = data.repeat
      /\ Once \in Seq(Beep)
  BY Goes DEF EndSound, SoundInv, Who
<1> DEFINE s == Once
           r == srepeat
<1>2. /\ swait' = soundlen[0] /\ effect' = Copies(Greatest(1, r), s)
      /\ sstart' = 0 /\ send' = send /\ srepeat' = r /\ Once' = s
  BY <1>1 DEF EndSound, Once
<1>3. /\ s \in Seq(Beep) /\ Len(s) = send /\ send \in Nat /\ r \in Nat
      /\ \A i \in 1 .. send : s[i] = [ticks |-> soundlen[i - 1], tone |-> soundnote[i - 1] + 1]
  <2>1. send \in Nat /\ srepeat \in Nat
    BY MusicAssumption DEF Types, Counters
  <2>2. /\ Len(Once) = send
        /\ \A i \in 1 .. send :
              Once[i] = [ticks |-> soundlen[i - 1], tone |-> soundnote[i - 1] + 1]
    BY <1>1, OnceIs
  <2> QED BY <1>1, <2>1, <2>2
<1>4. Rest' = RestFrom(0, send, soundlen[0], r, s)
  BY <1>2, RestIs
<1> HIDE DEF s, r
<1>5. CASE send = 0
  <2>1. Rest' = << >>
    BY <1>4, <1>5 DEF RestFrom
  <2>2. effect' = << >>
    <3>1. Greatest(1, r) \in Nat
      BY <1>3 DEF Greatest
    <3> DEFINE k == Greatest(1, r)
    <3>2. k \in Nat /\ effect' = Copies(k, s)
      BY <1>2, <3>1
    <3> HIDE DEF k
    <3>3. k * Len(s) = 0
      BY <1>3, <1>5, <3>2
    <3>4. effect' \in Seq(Beep) /\ Len(effect') = 0
      BY <1>3, <3>2, <3>3, CopiesType
    <3> QED BY <3>4, EmptySeq
  <2> QED BY <1>1, <1>2, <1>3, <1>5, <2>1, <2>2 DEF SoundInv
<1>6. CASE send # 0
  <2>1. 0 < Len(s) /\ s[1].ticks = soundlen[0] /\ 0 + 1 = 1 /\ 0 \in Nat
    <3>1. 1 \in 1 .. send /\ 1 - 1 = 0
      BY <1>3, <1>6
    <3>2. s[1] = [ticks |-> soundlen[1 - 1], tone |-> soundnote[1 - 1] + 1]
      BY <1>3, <3>1
    <3> QED BY <1>3, <1>6, <3>1, <3>2
  <2>2. Rest' = s \o Copies(r - 1, s)
    <3>1. RestFrom(0, Len(s), s[0 + 1].ticks, r, s) = SubSeq(s, 0 + 1, Len(s)) \o Copies(r - 1, s)
      BY <1>3, <2>1, RestWhole
    <3>2. SubSeq(s, 1, Len(s)) = s
      BY <1>3, SubSeqFull
    <3> QED BY <1>3, <1>4, <2>1, <3>1, <3>2
  <2>3. s \o Copies(r - 1, s) = Copies(Greatest(1, r), s)
    <3>1. CASE r = 0
      <4>1. Copies(r - 1, s) = << >> /\ Copies(0, s) = << >>
        <5>1. r - 1 \in Int /\ r - 1 <= 0
          BY <3>1
        <5> QED BY <1>3, <5>1, CopiesNone
      <4>2. Greatest(1, r) = 0 + 1
        BY <3>1 DEF Greatest
      <4>3. Copies(0 + 1, s) = s \o Copies(0, s)
        BY <1>3, CopiesMore
      <4> QED BY <4>1, <4>2, <4>3
    <3>2. CASE r # 0
      <4> DEFINE m == r - 1
      <4>1. m \in Nat /\ m + 1 = r /\ Greatest(1, r) = r
        BY <1>3, <3>2 DEF Greatest
      <4> HIDE DEF m
      <4>2. Copies(m + 1, s) = s \o Copies(m, s)
        BY <1>3, <4>1, CopiesMore
      <4> QED BY <4>1, <4>2 DEF m
    <3> QED BY <3>1, <3>2
  <2>4. sstart' < send'
    BY <1>2, <1>3, <1>6
  <2> QED BY <1>1, <1>2, <1>3, <2>2, <2>3, <2>4 DEF SoundInv
<1> QED BY <1>5, <1>6

\* A tick plays the first tick of what is left of the effect, if it does not come
\* between the end of the table and g_soundwait.
LEMMA SoundTicks ==
  ASSUME ~Parts, Types, SoundInv, musicint
  PROVE  SoundInv'
<1>1. /\ at'["main"] = at["main"] /\ data' = data
      /\ soundlen' = soundlen /\ soundnote' = soundnote /\ effect' = TickOff(effect)
  <2>1. at' = at \/ at' = [at EXCEPT !["irq"] = "parse"]
    BY DEF musicint, Handler
  <2>2. at'["main"] = at["main"]
    BY <2>1 DEF Types, Who
  <2> QED BY <2>2 DEF musicint, sound
<1>2. /\ at["main"] # "wait" => Rest = effect
      /\ at["main"] = "wait" => effect = << >> /\ ~SoundOn
  BY DEF SoundInv, Parts
<1>6. Once \in Seq(Beep) /\ ((sstart = 0 /\ send = 0) \/ sstart < send)
  BY DEF SoundInv
<1>3. /\ swait \in Nat /\ srepeat \in Nat /\ sstart \in 0 .. NOTES - 1 /\ send \in 0 .. NOTES
      /\ NOTES \in Nat
  BY MusicAssumption DEF Types, Counters, Index
<1>4. CASE ~SoundOn
  <2>1. effect = << >>
    BY <1>2, <1>4 DEF Rest
  <2>2. effect' = effect /\ UNCHANGED sound
    BY <1>1, <1>4, <2>1 DEF TickOff, musicint
  <2> QED BY <1>1, <2>2, SoundStays
<1>5. CASE SoundOn
  <2>0. at["main"] # "wait" /\ Rest = effect
    BY <1>2, <1>5
  <2> DEFINE s == Once
  <2>1. /\ s \in Seq(Beep) /\ Len(s) = send /\ sstart < send /\ send # 0
        /\ \A i \in 1 .. send : s[i] = [ticks |-> soundlen[i - 1], tone |-> soundnote[i - 1] + 1]
    <3>1. /\ Len(Once) = send
          /\ \A i \in 1 .. send :
               Once[i] = [ticks |-> soundlen[i - 1], tone |-> soundnote[i - 1] + 1]
      BY <1>6, OnceIs
    <3>2. sstart < send /\ send # 0
      BY <1>3, <1>5, <1>6 DEF SoundOn
    <3> QED BY <1>6, <3>1, <3>2
  <2>2. \A i \in 0 .. send - 1 : s[i + 1].ticks = soundlen[i]
    <3> SUFFICES ASSUME NEW i \in 0 .. send - 1 PROVE s[i + 1].ticks = soundlen[i]
      OBVIOUS
    <3> DEFINE j == i + 1
    <3>1. j \in 1 .. send /\ j - 1 = i
      BY <1>3
    <3> HIDE DEF j, s
    <3>2. s[j] = [ticks |-> soundlen[j - 1], tone |-> soundnote[j - 1] + 1]
      BY <2>1, <3>1
    <3>3. s[j].ticks = soundlen[i]
      BY <3>1, <3>2
    <3> QED BY <3>3 DEF j
  <2>3. send' = send => Once' = s
    BY <1>1 DEF Once
  <2> HIDE DEF s
  <2>4. /\ effect = RestFrom(sstart, Len(s), swait, srepeat, s)
        /\ Rest' = RestFrom(sstart', send', swait', srepeat', Once')
    BY <2>0, <2>1, RestIs DEF s
  <2>5. /\ swait > 1 => effect' = RestFrom(sstart, Len(s), swait - 1, srepeat, s)
        /\ ~(swait > 1) /\ sstart + 1 # Len(s) =>
             effect' = RestFrom(sstart + 1, Len(s), s[sstart + 2].ticks, srepeat, s)
        /\ ~(swait > 1) /\ sstart + 1 = Len(s) /\ srepeat > 1 =>
             effect' = RestFrom(0, Len(s), s[1].ticks, srepeat - 1, s)
        /\ ~(swait > 1) /\ sstart + 1 = Len(s) /\ srepeat <= 1 => effect' = << >>
    <3>1. sstart \in Nat /\ sstart < Len(s)
      BY <1>3, <2>1
    <3>2. s \in Seq(Beep) /\ swait \in Nat /\ srepeat \in Nat
      BY <1>3, <2>1
    <3> DEFINE now == RestFrom(sstart, Len(s), swait, srepeat, s)
    <3>3. effect' = TickOff(now)
      BY <1>1, <2>4
    <3>4. swait > 1 => TickOff(now) = RestFrom(sstart, Len(s), swait - 1, srepeat, s)
      BY <3>1, <3>2, RestTicks
    <3>5. ~(swait > 1) /\ sstart + 1 # Len(s) =>
             TickOff(now) = RestFrom(sstart + 1, Len(s), s[sstart + 2].ticks, srepeat, s)
      BY <3>1, <3>2, RestTicks
    <3>6. ~(swait > 1) /\ sstart + 1 = Len(s) /\ srepeat > 1 =>
             TickOff(now) = RestFrom(0, Len(s), s[1].ticks, srepeat - 1, s)
      <4> SUFFICES ASSUME ~(swait > 1), sstart + 1 = Len(s), srepeat > 1
                   PROVE  TickOff(now) = RestFrom(0, Len(s), s[1].ticks, srepeat - 1, s)
        OBVIOUS
      <4> QED BY <3>1, <3>2, RestAgain
    <3>7. ~(swait > 1) /\ sstart + 1 = Len(s) /\ srepeat <= 1 => TickOff(now) = << >>
      BY <3>1, <3>2, RestTicks
    <3> HIDE DEF now
    <3> QED BY <3>3, <3>4, <3>5, <3>6, <3>7
  <2>6. ASSUME send' = send, sstart' < send, Rest' = effect' PROVE SoundInv'
    BY <1>1, <2>0, <2>1, <2>3, <2>6 DEF SoundInv, s
  <2>7. CASE swait > 1
    <3>1. sstart' = sstart /\ send' = send /\ srepeat' = srepeat /\ swait' = swait - 1
      BY <1>5, <2>7 DEF musicint, PlaySound
    <3>2. Rest' = effect'
      BY <2>1, <2>3, <2>4, <2>5, <2>7, <3>1
    <3> QED BY <2>1, <2>6, <3>1, <3>2
  <2>8. CASE ~(swait > 1) /\ sstart + 1 # send
    <3>1. sstart + 1 # NOTES
      BY <1>3, <2>1, <2>8
    <3>2. sstart' = sstart + 1 /\ send' = send /\ srepeat' = srepeat /\ swait' = soundlen[sstart']
      BY <1>5, <2>8, <3>1 DEF musicint, PlaySound
    <3>3. swait' = s[sstart + 2].ticks
      <4>1. sstart + 1 \in 0 .. send - 1 /\ (sstart + 1) + 1 = sstart + 2
        BY <1>3, <2>1, <2>8
      <4> DEFINE k == sstart + 1
      <4> HIDE DEF k
      <4>2. k \in 0 .. send - 1 /\ k + 1 = sstart + 2 /\ sstart' = k
        BY <3>2, <4>1 DEF k
      <4>3. s[k + 1].ticks = soundlen[k]
        BY <2>2, <4>2
      <4> QED BY <3>2, <4>2, <4>3
    <3>4. Rest' = effect'
      BY <2>1, <2>3, <2>4, <2>5, <2>8, <3>2, <3>3
    <3>5. sstart' < send
      BY <1>3, <2>1, <2>8, <3>2
    <3> QED BY <2>6, <3>2, <3>4, <3>5
  <2>9. CASE ~(swait > 1) /\ sstart + 1 = send /\ srepeat > 1
    <3>1. sstart' = 0 /\ send' = send /\ srepeat' = srepeat - 1 /\ swait' = soundlen[0]
      BY <1>3, <1>5, <2>9 DEF musicint, PlaySound
    <3>2. swait' = s[1].ticks
      <4>1. 0 \in 0 .. send - 1 /\ 0 + 1 = 1
        BY <1>3, <2>1
      <4> QED BY <2>2, <3>1, <4>1
    <3>3. Rest' = effect'
      BY <2>1, <2>3, <2>4, <2>5, <2>9, <3>1, <3>2
    <3>4. sstart' < send
      BY <1>3, <2>1, <3>1
    <3> QED BY <2>6, <3>1, <3>3, <3>4
  <2>10. CASE ~(swait > 1) /\ sstart + 1 = send /\ srepeat <= 1
    <3>1. sstart' = 0 /\ send' = 0
      BY <1>5, <2>10 DEF musicint, PlaySound
    <3>2. Once' \in Seq(Beep) /\ Rest' = << >>
      BY <2>4, <3>1, NoOnce DEF RestFrom
    <3>3. effect' = << >>
      BY <2>1, <2>5, <2>10
    <3> QED BY <1>1, <2>0, <2>1, <3>1, <3>2, <3>3 DEF SoundInv
  <2>11. srepeat > 1 \/ srepeat <= 1
    BY <1>3
  <2> QED BY <2>7, <2>8, <2>9, <2>10, <2>11
<1> QED BY <1>4, <1>5

\* Every step keeps the sound, if it is no tick that parts two stores.
LEMMA NextSound ==
  ASSUME ~(musicint /\ Parts), Ordinary, Types, SoundInv, [Next]_vars
  PROVE  SoundInv'
<1>1. Types'
  BY NextTypes
<1>2. ASSUME NEW s \in Sounds, BeginSound(s) PROVE SoundInv'
  <2>1. at'["main"] = "fill" /\ data' = s /\ sstart' = 0 /\ send' = 0 /\ effect' = << >>
    BY <1>2, Goes DEF BeginSound, Who
  <2>2. Once' \in Seq(Beep) /\ Rest' = << >>
    BY <2>1, NoOnce, RestIs DEF RestFrom
  <2> QED BY <2>1, <2>2 DEF SoundInv
<1>3. CASE ReadSound
  BY <1>1, <1>3, SoundFills
<1>4. CASE EndSound
  BY <1>4, SoundBegins
<1>5. CASE musicint
  BY <1>5, SoundTicks
<1>6. CASE EndProgram
  <2>1. at'["main"] = "ended" /\ sstart' = 0 /\ send' = 0 /\ effect' = << >>
    BY <1>6 DEF EndProgram, stop_music, Types, Who
  <2>2. Once' \in Seq(Beep) /\ Rest' = << >>
    BY <2>1, NoOnce, RestIs DEF RestFrom
  <2> QED BY <2>1, <2>2 DEF SoundInv
<1>7. ASSUME NEW t \in Tunes, PlayMusic(t) PROVE SoundInv'
  <2>1. at["main"] # "wait" /\ at'["main"] = "parse"
    BY <1>7, Goes DEF PlayMusic, Who
  <2> QED BY <1>7, <2>1, SoundStays DEF PlayMusic
<1>8. ASSUME NEW w \in Who, set_music(w) PROVE SoundInv'
  <2>1. UNCHANGED <<sound, effect, data>>
    BY <1>8 DEF set_music, ReadSetting, ParseNote, StoreNote, EndMusic, text, hist
  <2>2. PICK from, to : Goto(w, from, to) /\ from \in Reads /\ to \in Reads \cup {"idle"}
    BY <1>8 DEF set_music, ReadSetting, ParseNote, StoreNote, EndMusic, Reads
  <2>3. at'["main"] = at["main"] \/ (at["main"] # "wait" /\ at'["main"] \notin {"fill", "wait"})
    BY <2>2, Goes DEF Reads, Who
  <2> QED BY <2>1, <2>3, SoundStays
<1>9. CASE set_wave
  <2>1. at'["main"] = at["main"]
    BY <1>9 DEF set_wave, Goto, Types, Who
  <2> QED BY <1>9, <2>1, SoundStays DEF set_wave, text, hist
<1>10. CASE EndOfWave
  BY <1>10, SoundStays DEF EndOfWave, text, hist
<1>11. CASE init_music
  <2>1. at["main"] = "ended" /\ at'["main"] = "idle"
    BY <1>11, Goes DEF init_music, Who
  <2> QED BY <1>11, <2>1, SoundStays DEF init_music
<1>12. CASE UNCHANGED vars
  BY <1>12, SoundStays DEF vars, text, hist
<1> QED BY <1>2, <1>3, <1>4, <1>5, <1>6, <1>7, <1>8, <1>9, <1>10, <1>11, <1>12
     DEF Next, Statement, set_sound
LEMMA FirstSound == Init => SoundInv
<1> SUFFICES ASSUME Init PROVE SoundInv
  OBVIOUS
<1>1. send = 0 /\ sstart = 0 /\ at["main"] = "idle" /\ effect = << >>
  BY DEF Init, Who
<1>2. Once \in Seq(Beep)
  BY <1>1, NoOnce
<1>3. Rest = << >>
  BY <1>1 DEF Rest, SoundOn
<1> QED BY <1>1, <1>2, <1>3 DEF SoundInv
-----------------------------------------------------------------------------
(* The speaker.                                                            *)

\* While the player is in its music mode, the PWM has the cycles that
\* g_pwm_wrap says, or there is no such number; an ended program is silent.
VoiceInv ==
  /\ pwm \in [cycles : Nat, on : BOOLEAN]
  /\ soundnote \in [Index -> Nat]
  /\ mode = "MUSIC" => pwm_wrap = 0 \/ pwm.cycles = pwm_wrap
  /\ VoiceAsAsked
  /\ at["main"] = "ended" => mode = "NONE" /\ pwm_wrap = 0 /\ pwm.on = FALSE /\ heard = Quiet

\* What playing an entry does.
LEMMA Plays ==
  ASSUME pwm \in [cycles : Nat, on : BOOLEAN], pwm_wrap = 0 \/ pwm.cycles = pwm_wrap,
         NEW entry \in 1 .. Silent, Play(entry)
  PROVE  /\ pwm' \in [cycles : Nat, on : BOOLEAN]
         /\ pwm_wrap' = 0 \/ pwm'.cycles = pwm_wrap'
         /\ entry = Silent => pwm'.on = FALSE
         /\ entry # Silent => pwm'.on = TRUE /\ pwm'.cycles = entry
<1>1. CASE entry = Silent
  <2>1. pwm' = [pwm EXCEPT !.on = FALSE] /\ pwm_wrap' = pwm_wrap
    BY <1>1 DEF Play
  <2>2. pwm' \in [cycles : Nat, on : BOOLEAN] /\ pwm'.on = FALSE /\ pwm'.cycles = pwm.cycles
    BY <2>1, Zenon
  <2> QED BY <1>1, <2>1, <2>2
<1>2. CASE entry # Silent
  <2>1. pwm_wrap' = entry
    BY <1>2 DEF Play
  <2>2. pwm' = [cycles |-> entry, on |-> TRUE]
    <3>1. pwm' = [cycles |-> IF entry = pwm_wrap THEN pwm.cycles ELSE entry, on |-> TRUE]
      BY <1>2 DEF Play
    <3>2. entry # 0
      OBVIOUS
    <3>3. (IF entry = pwm_wrap THEN pwm.cycles ELSE entry) = entry
      BY <3>2
    <3> QED BY <3>1, <3>3
  <2>3. entry \in Nat
    OBVIOUS
  <2>4. pwm' \in [cycles : Nat, on : BOOLEAN] /\ pwm'.on = TRUE /\ pwm'.cycles = entry
    BY <2>2, <2>3
  <2> QED BY <1>2, <2>1, <2>4
<1> QED BY <1>1, <1>2

\* A tick under a sound gives the sound.
LEMMA TickSound ==
  ASSUME ~Parts, Types, SoundInv, musicint, SoundOn
  PROVE  /\ effect # << >>
         /\ Head(effect).tone = soundnote[sstart] + 1
         /\ Head(effect).tone \in 2 .. Silent + 1
<1>1. Rest = effect /\ Once \in Seq(Beep) /\ sstart < send /\ send # 0
  <2>1. at["main"] # "wait"
    BY DEF Parts
  <2>2. sstart \in Nat
    BY DEF Types, Counters, Index
  <2>3. sstart < send
    BY DEF SoundInv, SoundOn
  <2>4. Rest = effect /\ Once \in Seq(Beep)
    BY <2>1 DEF SoundInv
  <2> QED BY <2>2, <2>3, <2>4 DEF Types, Counters
<1>2. /\ swait \in Nat /\ srepeat \in Nat /\ sstart \in 0 .. NOTES - 1 /\ send \in 0 .. NOTES
      /\ NOTES \in Nat
  BY MusicAssumption DEF Types, Counters, Index
<1> DEFINE s == Once
<1>3. /\ s \in Seq(Beep) /\ Len(s) = send
      /\ \A i \in 1 .. send : s[i] = [ticks |-> soundlen[i - 1], tone |-> soundnote[i - 1] + 1]
  BY <1>1, OnceIs
<1> HIDE DEF s
<1>4. effect = RestFrom(sstart, Len(s), swait, srepeat, s)
  BY <1>1, <1>3, RestIs DEF s
<1>5. effect # << >> /\ Head(effect).tone = s[sstart + 1].tone
  <2>1. sstart \in Nat /\ sstart < Len(s)
    BY <1>1, <1>2, <1>3
  <2> QED BY <1>2, <1>3, <1>4, <2>1, RestTicks
<1> DEFINE k == sstart + 1
<1>6. k \in 1 .. send /\ k - 1 = sstart
  BY <1>1, <1>2
<1> HIDE DEF k
<1>7. s[k].tone = soundnote[sstart] + 1
  <2>1. s[k] = [ticks |-> soundlen[k - 1], tone |-> soundnote[k - 1] + 1]
    BY <1>3, <1>6
  <2> QED BY <1>6, <2>1
<1>8. s[k] \in Beep
  BY <1>3, <1>6, ElementOfSeq
<1> QED BY <1>5, <1>7, <1>8 DEF k, Beep

\* A tick under a tune alone gives the tune.
LEMMA TickMusic ==
  ASSUME QInv, Rings, MusicOn
  PROVE  tune # << >> /\ IsVoice(musicnote[mstart], Head(tune).pitch)
<1>1. PICK n \in Nat : n = Len(tune)
  BY Ring DEF Rings, QInv
<1>2. /\ tune \in Seq(Asks) /\ n = musicRemaining /\ n \in Nat \ {0}
      /\ \A i \in 1 .. n : Holds(i)
  BY <1>1, Ring DEF Rings, QInv, MusicOn
<1>3. Holds(1) /\ Place(1) = mstart
  BY <1>1, <1>2, RingPlaces, Ring DEF QInv
<1>4. tune # << >> /\ Head(tune) = tune[1]
  <2>1. tune # << >>
    BY <1>1, <1>2, EmptySeq
  <2> QED BY <1>2, <2>1, HeadTailProperties
<1> QED BY <1>3, <1>4 DEF Holds

\* After a tick that parts no two stores the speaker gives what Voice says.
LEMMA TickVoice ==
  ASSUME ~Parts, QInv, TuneInv, SoundInv, VoiceInv, musicint
  PROVE  VoiceInv'
<1> DEFINE entry == IF SoundOn THEN soundnote[sstart]
                    ELSE IF MusicOn THEN musicnote[mstart] ELSE Silent
<1>1. /\ mode = "MUSIC" /\ mode' = "MUSIC" /\ Play(entry) /\ heard' = Voice
      /\ soundnote' = soundnote /\ at'["main"] # "ended"
  <2>1. /\ mode = "MUSIC" /\ mode' = "MUSIC" /\ Play(entry) /\ heard' = Voice
        /\ soundnote' = soundnote
    BY DEF musicint, PlayVoice, sound
  <2>2. at["main"] # "ended"
    BY <2>1 DEF VoiceInv
  <2>3. at' = at \/ at' = [at EXCEPT !["irq"] = "parse"]
    BY DEF musicint, Handler
  <2>4. at'["main"] = at["main"]
    BY <2>3 DEF QInv, Types, Who
  <2> QED BY <2>1, <2>2, <2>4
<1>2. Silent \in Nat /\ Silent > 1
  BY DEF Short, Silent
<1>3. SoundOn => /\ effect # << >>
                 /\ Head(effect).tone = entry + 1
                 /\ entry \in 1 .. Silent
  <2>1. CASE SoundOn
    <3>1. entry = soundnote[sstart] /\ entry \in Nat
      BY <2>1 DEF VoiceInv, QInv, Types, Counters
    <3>2. /\ effect # << >> /\ Head(effect).tone = soundnote[sstart] + 1
          /\ Head(effect).tone \in 2 .. Silent + 1
      BY <2>1, TickSound DEF QInv
    <3> HIDE DEF entry
    <3> QED BY <1>2, <3>1, <3>2
  <2> QED BY <2>1
<1>4. ~SoundOn => effect = << >>
  BY DEF SoundInv, Rest
<1>5. MusicOn => tune # << >> /\ IsVoice(musicnote[mstart], Head(tune).pitch)
  BY TickMusic DEF TuneInv
<1>6. ~MusicOn => tune = << >>
  <2>1. CASE ~MusicOn
    <3>1. Len(tune) = 0 /\ tune \in Seq(Asks)
      BY <2>1, Ring DEF TuneInv, Rings, QInv, MusicOn
    <3> QED BY <3>1, EmptySeq
  <2> QED BY <2>1
<1>7. entry \in 1 .. Silent
  BY <1>2, <1>3, <1>5 DEF IsVoice
<1> HIDE DEF entry
<1>8. /\ pwm' \in [cycles : Nat, on : BOOLEAN]
      /\ pwm_wrap' = 0 \/ pwm'.cycles = pwm_wrap'
      /\ entry = Silent => pwm'.on = FALSE
      /\ entry # Silent => pwm'.on = TRUE /\ pwm'.cycles = entry
  BY <1>1, <1>7, Plays DEF VoiceInv
<1>9. VoiceAsAsked'
  <2>1. CASE SoundOn
    <3>1. heard' = [Quiet EXCEPT !.tone = {entry + 1} \ {Silent + 1}]
      BY <1>1, <1>3, <2>1 DEF Voice
    <3>2. heard'.tone = {entry + 1} \ {Silent + 1} /\ heard'.pitch = {}
      BY <3>1 DEF Quiet
    <3>3. CASE entry = Silent
      <4>1. {entry + 1} \ {Silent + 1} = {}
        BY <3>3
      <4>2. heard' = Quiet
        BY <3>1, <4>1 DEF Quiet
      <4> QED BY <1>8, <3>2, <3>3, <4>1, <4>2 DEF VoiceAsAsked
    <3>4. CASE entry # Silent
      <4>1. {entry + 1} \ {Silent + 1} = {entry + 1}
        BY <1>2, <1>7, <3>4
      <4>2. heard' # Quiet
        BY <3>2, <4>1 DEF Quiet
      <4>3. \A t \in heard'.tone : pwm'.cycles \in {t - 1, t}
        BY <1>7, <1>8, <3>2, <3>4, <4>1
      <4> QED BY <1>8, <3>2, <3>4, <4>2, <4>3 DEF VoiceAsAsked
    <3> QED BY <3>3, <3>4
  <2>2. CASE ~SoundOn /\ MusicOn
    <3> DEFINE pitch == Head(tune).pitch
    <3>1. heard' = [Quiet EXCEPT !.pitch = pitch] /\ IsVoice(entry, pitch)
      BY <1>1, <1>4, <1>5, <2>2 DEF Voice, entry
    <3> HIDE DEF pitch
    <3>2. heard'.pitch = pitch /\ heard'.tone = {}
      BY <3>1 DEF Quiet
    <3>3. CASE pitch = {}
      <4>1. heard' = Quiet /\ entry = Silent
        BY <3>1, <3>3 DEF Quiet, IsVoice
      <4> QED BY <1>8, <3>2, <3>3, <4>1 DEF VoiceAsAsked
    <3>4. CASE pitch # {}
      <4>1. heard' # Quiet
        BY <3>2, <3>4 DEF Quiet
      <4>2. entry # Silent /\ \A p \in pitch : S!SoundsAs(entry, p)
        BY <1>2, <3>1, <3>4 DEF IsVoice
      <4> QED BY <1>8, <3>2, <4>1, <4>2 DEF VoiceAsAsked
    <3> QED BY <3>3, <3>4
  <2>3. CASE ~SoundOn /\ ~MusicOn
    <3>1. heard' = Quiet /\ entry = Silent
      BY <1>1, <1>4, <1>6, <2>3 DEF Voice, entry
    <3>2. heard'.tone = {} /\ heard'.pitch = {}
      BY <3>1 DEF Quiet
    <3> QED BY <1>8, <3>1, <3>2 DEF VoiceAsAsked
  <2> QED BY <2>1, <2>2, <2>3
<1> QED BY <1>1, <1>8, <1>9 DEF VoiceInv, Index

\* Every step keeps the voice, if it is no tick that parts two stores.
LEMMA NextVoice ==
  ASSUME ~Reenter, ~(musicint /\ Parts), QInv, TuneInv, SoundInv, VoiceInv, [Next]_vars
  PROVE  VoiceInv'
<1>1. ASSUME UNCHANGED <<mode, voice, soundnote, heard>>, at'["main"] = "ended" => at["main"] = "ended"
      PROVE  VoiceInv'
  BY <1>1 DEF VoiceInv, VoiceAsAsked, voice, Index
<1>2. ASSUME NEW t \in Tunes, PlayMusic(t) PROVE VoiceInv'
  BY <1>1, <1>2, Goes DEF PlayMusic, QInv, Who, sound
<1>3. ASSUME NEW s \in Sounds, BeginSound(s) PROVE VoiceInv'
  BY <1>1, <1>3, Goes DEF BeginSound, QInv, Who
<1>4. CASE EndSound
  BY <1>1, <1>4, Goes DEF EndSound, QInv, Who
<1>5. CASE ReadSound
  <2>1. soundnote' \in [Index -> Nat]
    <3>1. ASSUME NEW i \in Index, i < Len(data.notes) PROVE Entry(data.notes[i + 1].tone) \in Nat
      <4>1. data \in Sounds
        <5>1. CASE data = NoSound
          <6>1. Len(data.notes) = 0
            BY <5>1 DEF NoSound
          <6> QED BY <3>1, <6>1 DEF Index
        <5> QED BY <5>1 DEF QInv, Types
      <4> DEFINE k == i + 1
      <4>2. k \in 1 .. Len(data.notes)
        BY <3>1, <4>1, Effects DEF Index
      <4> HIDE DEF k
      <4>3. data.notes[k] \in Effect
        BY <4>1, <4>2, Effects
      <4> DEFINE tone == data.notes[k].tone
      <4>4. tone \in 2 .. Silent + 1
        BY <4>3 DEF Effect
      <4> HIDE DEF tone
      <4>5. Entry(tone) = tone - 1 /\ tone - 1 \in Nat
        BY <4>4, Entries
      <4> QED BY <4>5 DEF tone, k
    <3>2. soundnote' = [i \in Index |-> IF i < Len(data.notes) THEN Entry(data.notes[i + 1].tone)
                                       ELSE soundnote[i]]
      BY <1>5 DEF ReadSound
    <3> QED BY <3>1, <3>2 DEF VoiceInv
  <2>2. at'["main"] # "ended" /\ UNCHANGED <<mode, voice, heard>>
    BY <1>5, Goes DEF ReadSound, QInv, Who, hist
  <2> QED BY <2>1, <2>2 DEF VoiceInv, VoiceAsAsked, voice, Index
<1>6. ASSUME NEW w \in Who, set_music(w) PROVE VoiceInv'
  <2>1. UNCHANGED <<mode, voice, soundnote, heard>>
    BY <1>6 DEF set_music, ReadSetting, ParseNote, StoreNote, EndMusic, sound, hist
  <2>2. PICK from, to : Goto(w, from, to) /\ from \in Reads /\ to \in Reads \cup {"idle"}
    BY <1>6 DEF set_music, ReadSetting, ParseNote, StoreNote, EndMusic, Reads
  <2>3. at'["main"] = "ended" => at["main"] = "ended"
    BY <2>2, Goes DEF Reads, Who, QInv
  <2> QED BY <1>1, <2>1, <2>3
<1>7. CASE musicint
  BY <1>7, TickVoice
<1>8. CASE EndProgram
  <2>1. mode' = "NONE" /\ pwm_wrap' = 0 /\ pwm' = [cycles |-> 2048, on |-> FALSE]
        /\ heard' = Quiet /\ soundnote' = soundnote
    BY <1>8 DEF EndProgram, stop_music
  <2> QED BY <2>1 DEF VoiceInv, VoiceAsAsked, Index
<1>9. CASE set_wave
  <2>1. at["main"] = "idle" /\ at'["main"] = "idle"
    BY <1>9, Goes DEF set_wave, QInv, Who
  <2>2. mode' = "WAVE" /\ pwm' = [cycles |-> 256, on |-> TRUE] /\ soundnote' = soundnote
    BY <1>9 DEF set_wave, sound
  <2> QED BY <2>1, <2>2 DEF VoiceInv, VoiceAsAsked, Index
<1>10. CASE EndOfWave
  <2>1. mode' = "NONE" /\ mode = "WAVE" /\ UNCHANGED <<voice, soundnote, at, heard>>
    BY <1>10 DEF EndOfWave, sound, hist
  <2> QED BY <2>1 DEF VoiceInv, VoiceAsAsked, voice, Index
<1>11. CASE init_music
  <2>1. at["main"] = "ended" /\ at'["main"] = "idle"
    BY <1>11, Goes DEF init_music, QInv, Who
  <2>2. mode' = "MUSIC" /\ UNCHANGED <<voice, soundnote, heard>>
    BY <1>11 DEF init_music, sound
  <2>3. pwm_wrap = 0 /\ pwm.on = FALSE /\ heard = Quiet
    BY <2>1 DEF VoiceInv
  <2> QED BY <2>1, <2>2, <2>3 DEF VoiceInv, VoiceAsAsked, voice, Quiet, Index
<1>12. CASE UNCHANGED vars
  BY <1>1, <1>12 DEF vars, sound, hist
<1> QED BY <1>2, <1>3, <1>4, <1>5, <1>6, <1>7, <1>8, <1>9, <1>10, <1>11, <1>12
     DEF Next, Statement, set_sound

LEMMA FirstVoice == Init => VoiceInv
<1> SUFFICES ASSUME Init PROVE VoiceInv
  OBVIOUS
<1>1. pwm_wrap = 0 /\ pwm = [cycles |-> 2048, on |-> FALSE] /\ heard = Quiet
      /\ at["main"] = "idle" /\ soundnote = [i \in Index |-> 0]
  BY DEF Init, Who
<1>2. heard.tone = {} /\ heard.pitch = {}
  BY <1>1 DEF Quiet
<1> QED BY <1>1, <1>2 DEF VoiceInv, VoiceAsAsked

-----------------------------------------------------------------------------
(* A tick that parted two stores is forgotten with the program.            *)

\* Nothing is left of a program that has ended.
Rested ==
  at["main"] = "ended" =>
    /\ at["irq"] = "idle" /\ str = << >> /\ tune = << >> /\ effect = << >>
    /\ mstart = 0 /\ mend = 0 /\ sstart = 0 /\ send = 0
    /\ mode = "NONE" /\ pwm_wrap = 0
    /\ pwm = [cycles |-> 2048, on |-> FALSE] /\ heard = Quiet

LEMMA RestedKept ==
  ASSUME Types, Rested, [Next]_vars
  PROVE  Rested'
<1>1. ASSUME at'["main"] # "ended" PROVE Rested'
  BY <1>1 DEF Rested
<1>2. CASE EndProgram
  BY <1>2 DEF EndProgram, stop_music, Types, Who, Rested
<1>3. ASSUME NEW from, NEW to, Goto("main", from, to), to # "ended" PROVE Rested'
  BY <1>1, <1>3, Goes DEF Who
<1>4. ASSUME NEW from, NEW to, Goto("irq", from, to) PROVE Rested'
  <2>1. at'["main"] = at["main"] /\ at["irq"] # "idle"
    BY <1>4, Goes DEF Who
  <2> QED BY <2>1 DEF Rested
<1>5. CASE init_music
  BY <1>3, <1>5 DEF init_music
<1>6. CASE Statement \/ set_sound
  BY <1>3, <1>6 DEF Statement, PlayMusic, BeginSound, set_wave, set_sound, ReadSound, EndSound
<1>7. ASSUME NEW w \in Who, set_music(w) PROVE Rested'
  <2>1. PICK from, to : Goto(w, from, to) /\ to \in Reads \cup {"idle"}
    BY <1>7 DEF set_music, ReadSetting, ParseNote, StoreNote, EndMusic, Reads
  <2>2. to # "ended"
    BY <2>1 DEF Reads
  <2> QED BY <1>3, <1>4, <2>1, <2>2 DEF Who
<1>8. CASE musicint
  <2>1. mode = "MUSIC" /\ (at' = at \/ at' = [at EXCEPT !["irq"] = "parse"])
    BY <1>8 DEF musicint, Handler
  <2>2. at'["main"] = at["main"]
    BY <2>1 DEF Types, Who
  <2> QED BY <2>1, <2>2 DEF Rested
<1>9. CASE EndOfWave
  BY <1>9 DEF EndOfWave, Rested
<1>10. CASE UNCHANGED vars
  BY <1>10 DEF vars, music, sound, voice, text, hist, Rested
<1> QED BY <1>2, <1>5, <1>6, <1>7, <1>8, <1>9, <1>10 DEF Next

\* A program begins with what its first style asks for.
LEMMA Restarts ==
  ASSUME TonesAsWritten, Types, Tables, Rested, init_music
  PROVE  TuneInv' /\ SoundInv' /\ VoiceInv'
<1>1. at["main"] = "ended" /\ at'["main"] = "idle" /\ at'["irq"] = at["irq"]
  BY Goes DEF init_music, Who
<1>2. /\ at["irq"] = "idle" /\ str = << >> /\ tune = << >> /\ effect = << >>
      /\ mstart = 0 /\ mend = 0 /\ sstart = 0 /\ send = 0
      /\ pwm_wrap = 0 /\ pwm = [cycles |-> 2048, on |-> FALSE] /\ heard = Quiet
  BY <1>1 DEF Rested
<1>3. UNCHANGED <<music, sound, voice, str, tune, effect, heard>>
  BY DEF init_music
<1>4. TuneInv'
  <2>1. /\ << >> \in Seq(Asks) /\ Len(<< >>) = 0 /\ 1 .. 0 = {} /\ << >> \in Seq(Playable)
        /\ NOTES \in Nat \ {0} /\ (0 - 0) % NOTES = 0
    BY MusicAssumption
  <2>2. Rings'
    BY <1>2, <1>3, <2>1 DEF Rings, musicRemaining, music
  <2>3. Texts'
    BY <1>2, <1>3, <2>1, FirstCorresponds DEF init_music, Texts
  <2>4. \A w \in Who : Pending(w)'
    BY <1>1, <1>2 DEF Pending, Who
  <2> QED BY <2>2, <2>3, <2>4 DEF TuneInv
<1>5. SoundInv'
  <2>1. send' = 0 /\ sstart' = 0 /\ effect' = << >>
    BY <1>2, <1>3 DEF sound
  <2>2. Once' \in Seq(Beep) /\ Rest' = << >>
    BY <2>1, NoOnce, RestIs DEF RestFrom
  <2> QED BY <1>1, <2>1, <2>2 DEF SoundInv
<1>6. VoiceInv'
  <2>1. soundnote \in [Index -> 0 .. Silent]
    BY DEF Tables
  <2>2. soundnote' \in [Index -> Nat]
    BY <1>3, <2>1 DEF sound
  <2>3. pwm_wrap' = 0 /\ pwm' = [cycles |-> 2048, on |-> FALSE] /\ heard' = Quiet
    BY <1>2, <1>3 DEF voice
  <2>4. heard'.tone = {} /\ heard'.pitch = {} /\ pwm'.on = FALSE
    BY <2>3 DEF Quiet
  <2>5. VoiceAsAsked'
    BY <2>3, <2>4 DEF VoiceAsAsked
  <2> QED BY <1>1, <2>2, <2>3, <2>5 DEF VoiceInv
<1> QED BY <1>4, <1>5, <1>6

\* A step that leaves two stores unparted either parts none, or begins a program.
LEMMA PartedStays ==
  ASSUME [Next]_vars, ~parted'
  PROVE  init_music \/ (~parted /\ ~(musicint /\ Parts))
BY DEF Next, Statement, PlayMusic, BeginSound, set_wave, EndProgram, init_music, set_music, ReadSetting,
       ParseNote, StoreNote, EndMusic, set_sound, ReadSound, EndSound, musicint, EndOfWave, vars, hist
-----------------------------------------------------------------------------

\* The ring plays the notes that MUSIC was given, in order, each at its pitch
\* and for its length, in the key, the tempo and the unit of length set before
\* it; the table plays the effect as many times as asked for; and the speaker
\* gives the effect, else the tune, else nothing: for any tunes and effects
\* whose lengths the tables can hold, tables of any size, and ticks that come
\* between any two stores, from a program's beginning until a tick parts two
\* stores that belong together (Parts), and again from the next program on.
\* TonesAsWritten has no variable: it is about the numbers of the tables of
\* music.c, and TLC evaluates it.
THEOREM PlaysAsAskedHolds ==
  ASSUME ~Reenter, Ordinary, TonesAsWritten
  PROVE  Spec => []PlaysAsAsked
<1> DEFINE Good == TuneInv /\ SoundInv /\ VoiceInv
           PInv == QInv /\ Tables /\ Rested /\ (~parted => Good)
<1>1. Init => PInv
  <2> SUFFICES ASSUME Init PROVE PInv
    OBVIOUS
  <2>1. 0 \in 0 .. Short - 1 /\ 0 \in 0 .. LenBound - 1 /\ 0 \in 0 .. Silent
    BY Limits
  <2>2. Tables
    BY <2>1, FirstSettings DEF Init, Tables
  <2>3. Rested
    BY DEF Init, Rested, Who
  <2> QED BY <2>2, <2>3, FirstQueue, FirstTune, FirstSound, FirstVoice
<1>2. PInv /\ [Next]_vars => PInv'
  <2> SUFFICES ASSUME PInv, [Next]_vars PROVE PInv'
    OBVIOUS
  <2>1. QInv' /\ Types /\ Tables /\ Rested
    BY NextQueues DEF QInv
  <2>2. Tables' /\ Rested'
    BY <2>1, TablesKept, RestedKept
  <2>3. CASE init_music
    BY <2>1, <2>2, <2>3, Restarts
  <2>4. ASSUME ~parted', ~init_music PROVE Good'
    <3>1. ~parted /\ ~(musicint /\ Parts) /\ Good
      BY <2>4, PartedStays
    <3> HIDE DEF PInv
    <3>2. TuneInv'
      BY <3>1, NextTune DEF PInv
    <3>3. SoundInv'
      BY <2>1, <3>1, NextSound
    <3>4. VoiceInv'
      BY <3>1, NextVoice DEF PInv
    <3> QED BY <3>2, <3>3, <3>4
  <2> QED BY <2>1, <2>2, <2>3, <2>4
<1>3. PInv => PlaysAsAsked
  <2> SUFFICES ASSUME PInv PROVE PlaysAsAsked
    OBVIOUS
  <2>1. TypeOK
    BY DEF QInv, Types, TypeOK
  <2>2. ASSUME ~parted PROVE TuneAsAsked /\ SoundAsAsked /\ VoiceAsAsked
    <3>1. TuneAsAsked
      BY <2>2, RingsAsAsked DEF QInv, TuneInv
    <3> QED BY <2>2, <3>1 DEF SoundInv, SoundAsAsked, VoiceInv
  <2> QED BY <2>1, <2>2 DEF PlaysAsAsked
<1> QED BY <1>1, <1>2, <1>3, PTL DEF Spec

\* Every note of a MUSIC statement enters the ring, for any tunes and wherever
\* the ticks come, when the MUSIC handler does not come between the reading of a
\* text and its end.
THEOREM WholeTuneHolds ==
  ASSUME ~Reenter
  PROVE  Spec => []WholeTune
<1>1. Init => QInv
  BY FirstQueue
<1>2. QInv /\ [Next]_vars => QInv'
  BY NextQueues
<1>3. QInv => WholeTune
  BY DEF QInv, Left, Owes, WholeTune
<1> QED BY <1>1, <1>2, <1>3, PTL DEF Spec
=============================================================================
