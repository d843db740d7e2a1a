-------------------------------- MODULE Score ---------------------------------
(***************************************************************************)
(* What a MUSIC text asks for, as music and not as numbers: keys are       *)
(* places in the circle of fifths, pitches are semitones above the middle  *)
(* C and a tempo is a number of quarter notes in a minute.  The items are  *)
(* those of module Tune.                                                   *)
(***************************************************************************)
EXTENDS Integers, Sequences, SequencesExt

Capitals == <<"C", "D", "E", "F", "G", "A", "B">>
SmallLetters == <<"c", "d", "e", "f", "g", "a", "b">>
Scale == <<0, 2, 4, 5, 7, 9, 11>>

\* The order in which the sharps come; the flats come in the reverse order.
Sharps == <<"F", "C", "G", "D", "A", "E", "B">>

\* The keys by their names: a letter, its sharp or flat, "m" when it is minor.
\* A key has as many sharps as its place in the circle says (flats: below 0).
Spelt(letter, accidental, minor) ==
  letter \o (CASE accidental = 1 -> "#" [] accidental = -1 -> "b" [] OTHER -> "")
         \o (IF minor THEN "m" ELSE "")
Fifths(letter, accidental, minor) ==
  ((CHOOSE i \in 1 .. 7 : Sharps[i] = letter) - 2) + 7 * accidental - (IF minor THEN 3 ELSE 0)
Parts == {"A", "B", "C", "D", "E", "F", "G"} \X {-1, 0, 1} \X BOOLEAN
KeyOf(name) ==
  LET p == CHOOSE q \in Parts : Spelt(q[1], q[2], q[3]) = name IN Fifths(p[1], p[2], p[3])

\* The natural tones, in semitones: the octave of the small letters is above.
Natural(letter) ==
  IF \E i \in 1 .. 7 : Capitals[i] = letter
  THEN Scale[CHOOSE i \in 1 .. 7 : Capitals[i] = letter]
  ELSE 12 + Scale[CHOOSE i \in 1 .. 7 : SmallLetters[i] = letter]
Capital(letter) ==
  IF \E i \in 1 .. 7 : Capitals[i] = letter THEN letter
  ELSE Capitals[CHOOSE i \in 1 .. 7 : SmallLetters[i] = letter]

\* A key of k sharps (of -k flats) raises the first k letters of Sharps
\* (lowers the last -k).
InKey(k, letter) ==
  LET i == CHOOSE j \in 1 .. 7 : Sharps[j] = Capital(letter) IN
  IF k >= i THEN 1 ELSE IF -k >= 8 - i THEN -1 ELSE 0

\* "^" and "_" alter the tone of the key, "=" takes it back to the natural one.
Altered(k, note) ==
  CASE note.mark = "=" -> 0
    [] note.mark = "^" -> InKey(k, note.letter) + 1
    [] note.mark = "_" -> InKey(k, note.letter) - 1
    [] OTHER -> InKey(k, note.letter)

\* The pitch of a note: no semitone for a rest.
Pitch(k, note) ==
  IF note.letter = "z" THEN {}
  ELSE {Natural(note.letter) + Altered(k, note) + 12 * (note.up - note.down)}

\* The tempo the player can keep that is nearest to the one asked for, the
\* quicker of two.  A whole note lasts four of the quarters that there are so
\* many of in the 3600 ticks of a minute, to the nearest 32 ticks.
Tempos == {45, 50, 56, 64, 75, 90, 113, 150, 225}
Distance(a, b) == IF a < b THEN b - a ELSE a - b
Tempo(n) ==
  CHOOSE t \in Tempos :
    \A u \in Tempos \ {t} : \/ Distance(n, t) < Distance(n, u)
                            \/ Distance(n, t) = Distance(n, u) /\ t > u
Whole(tempo) == 32 * (((4 * 3600) \div tempo + 16) \div 32)

\* A tone of so many cycles is the pitch: 2048 cycles are the A of 440 Hz, and
\* a semitone is the factor 2^(1/12).  The number may be 1 in 100 off, a sixth
\* of a semitone.
Cycles == <<3444, 3251, 3067, 2896, 2734, 2580, 2435, 2299, 2170, 2048, 1933, 1825>>
SoundsAs(tone, semitone) ==
  LET octave == semitone \div 12
      cycles == Cycles[(semitone % 12) + 1]
      slow   == IF octave > 0 THEN tone * 2^octave ELSE tone
      right  == IF octave < 0 THEN cycles * 2^(-octave) ELSE cycles
  IN 100 * Distance(slow, right) <= right + (IF octave > 0 THEN 100 * 2^octave ELSE 0)
-----------------------------------------------------------------------------
(* A whole text: the notes it asks for.  The style is the key, the tempo,  *)
(* and the length num/den of a note in whole notes.                        *)

FirstStyle == [key |-> 0, tempo |-> 90, num |-> 1, den |-> 8]

Styled(style, item) ==
  CASE item.set = "K" -> [style EXCEPT !.key = KeyOf(item.key)]
    [] item.set = "Q" -> [style EXCEPT !.tempo = Tempo(item.n), !.num = 1, !.den = 8]
    [] item.set = "L" -> [style EXCEPT !.num = item.n, !.den = item.m]
    [] OTHER -> style

Given(n) == IF n = 0 THEN 1 ELSE n
Asked(style, note) ==
  [ticks |-> (Whole(style.tempo) * style.num * Given(note.times))
               \div (style.den * Given(note.over)),
   pitch |-> Pitch(style.key, note)]

Read(read, item) ==
  IF "set" \in DOMAIN item THEN [read EXCEPT !.style = Styled(@, item)]
  ELSE [read EXCEPT !.notes = Append(@, Asked(read.style, item))]

\* What has been read after each of the items.
Reading(style, items) ==
  LET read[i \in 0 .. Len(items)] ==
        IF i = 0 THEN [style |-> style, notes |-> << >>] ELSE Read(read[i - 1], items[i])
  IN  read
Meant(style, items) == Reading(style, items)[Len(items)].notes
=============================================================================
