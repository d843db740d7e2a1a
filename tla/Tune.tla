--------------------------------- MODULE Tune ---------------------------------
(***************************************************************************)
(* The music language of music.c: what set_music makes of the items of a   *)
(* MUSIC text.  An item is a setting                                       *)
(*   [set |-> "K", key], [set |-> "Q", n], [set |-> "L", n, m], [set |-> "M"] *)
(* or a note                                                               *)
(*   [letter, up, down, mark, times, over]                                 *)
(* where letter is "A" .. "G", "a" .. "g" or "z" (a rest), up and down     *)
(* count the "'"s and ","s after it, mark is "^", "_", "=" or "", and the  *)
(* note lasts times/over lengths (0: the number is not written).           *)
(*                                                                         *)
(* A tone is the number of cycles of the sound's clock in a period.        *)
(***************************************************************************)
EXTENDS Integers, Sequences

IsSetting(item) == "set" \in DOMAIN item

Octave == <<"A", "B", "C", "D", "E", "F", "G">>
HighOctave == <<"a", "b", "c", "d", "e", "f", "g">>
Places == 1 .. 7

g_keys == <<
  1933, 1722, 3251, 2896, 2580, 2435, 2170,
  1933, 1825, 3251, 2896, 2580, 2435, 2170,
  1933, 1825, 3251, 2896, 2734, 2435, 2170,
  2048, 1825, 3251, 2896, 2734, 2435, 2170,
  2048, 1825, 3251, 3067, 2734, 2435, 2170,
  2048, 1825, 3251, 3067, 2734, 2435, 2299,
  2048, 1825, 3444, 3067, 2734, 2435, 2299,
  2048, 1825, 3444, 3067, 2734, 2580, 2299,
  2048, 1933, 3444, 3067, 2734, 2580, 2299,
  2048, 1933, 3444, 3067, 2896, 2580, 2299,
  2170, 1933, 3444, 3067, 2896, 2580, 2299,
  2170, 1933, 3444, 3251, 2896, 2580, 2299,
  2170, 1933, 3444, 3251, 2896, 2580, 2435,
  2170, 1933, 3650, 3251, 2896, 2580, 2435,
  2170, 1933, 3650, 3251, 2896, 2734, 2435 >>

\* Where g_tones points into g_keys.
CMajor == 49

\* 2^16 / 2^11 approximations of a semitone down and up.
toneFlat(x) == (x * 69433) \div 2^16
toneSharp(x) == (x * 1933) \div 2^11
-----------------------------------------------------------------------------
(* The settings.                                                           *)

\* The texts, in the order of the rows of g_keys.
KeyNames ==
  << {"A#m", "C#"}, {"D#m", "F#"}, {"G#m", "B"}, {"C#m", "E"}, {"F#m", "A"},
     {"Bm", "D"}, {"Em", "G"}, {"Am", "C"}, {"Dm", "F"}, {"Gm", "Bb"},
     {"Cm", "Eb"}, {"Fm", "Ab"}, {"Bbm", "Db"}, {"Ebm", "Gb"}, {"Abm", "Cb"} >>
Keys == UNION {KeyNames[r] : r \in DOMAIN KeyNames}
musicSetK(key) == 7 * ((CHOOSE r \in DOMAIN KeyNames : key \in KeyNames[r]) - 1)

\* The length of a whole note, in ticks; a length that is not given is an
\* eighth of it.
musicSetQ(n) ==
  CASE n < 48  -> 320
    [] n \in 48 .. 52 -> 288
    [] n \in 53 .. 59 -> 256
    [] n \in 60 .. 69 -> 224
    [] n \in 70 .. 82 -> 192
    [] n \in 83 .. 101 -> 160
    [] n \in 102 .. 131 -> 128
    [] n \in 132 .. 187 -> 96
    [] OTHER -> 64
Eighth(qvalue) == qvalue \div 8

musicSetL(qvalue, n, m) == (qvalue * n) \div m

\* The settings in use: g_tones (its place in g_keys), g_qvalue, g_lvalue.
InitialSettings == [tones |-> CMajor, qvalue |-> 160, lvalue |-> 20]

Set(s, item) ==
  CASE item.set = "K" -> [s EXCEPT !.tones = musicSetK(item.key)]
    [] item.set = "Q" -> [s EXCEPT !.qvalue = musicSetQ(item.n),
                                   !.lvalue = Eighth(musicSetQ(item.n))]
    [] item.set = "L" -> [s EXCEPT !.lvalue = musicSetL(s.qvalue, item.n, item.m)]
    [] item.set = "M" -> s
-----------------------------------------------------------------------------
(* The notes.                                                              *)

\* A tone after the "'"s, then the ","s.
Shift(tone, up, down) == (tone \div 2^up) * 2^down

\* The tone of a letter in the row that begins after from.
LetterTone(from, letter) ==
  IF \E p \in Places : Octave[p] = letter
  THEN g_keys[from + CHOOSE p \in Places : Octave[p] = letter]
  ELSE g_keys[from + CHOOSE p \in Places : HighOctave[p] = letter] \div 2

\* A "=" after a "'" forgets it: tonenatural goes down with the ","s only.
Tone(s, note) ==
  IF note.letter = "z" THEN 0
  ELSE LET tone == Shift(LetterTone(s.tones, note.letter), note.up, note.down) IN
       CASE note.mark = "^" -> toneSharp(tone)
         [] note.mark = "_" -> toneFlat(tone)
         [] note.mark = "=" -> Shift(LetterTone(CMajor, note.letter), 0, note.down)
         [] OTHER -> tone

Length(s, note) ==
  LET len == IF note.times = 0 THEN s.lvalue ELSE s.lvalue * note.times IN
  IF note.over = 0 THEN len ELSE len \div note.over

\* The items there are; a "=" does not follow a "'", nor a rest, whose natural
\* tone the code does not set.
Letters == {Octave[p] : p \in Places} \cup {HighOctave[p] : p \in Places}
Notes == [letter : Letters \cup {"z"}, up : Nat, down : Nat, mark : {"", "^", "_", "="},
          times : Nat, over : Nat]
Settings == [set : {"K"}, key : Keys] \cup [set : {"Q"}, n : Nat]
            \cup [set : {"L"}, n : Nat, m : Nat \ {0}] \cup [set : {"M"}]
Items == Settings \cup {n \in Notes : n.mark = "=" => n.up = 0 /\ n.letter # "z"}

\* What goes into g_music and is compared with 0xffff: one cycle less, in 16
\* bits, so that a rest is 0xffff.
Short == 65536
Silent == Short - 1
Entry(tone) == (tone - 1) % Short
=============================================================================
