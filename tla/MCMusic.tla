------------------------------- MODULE MCMusic -------------------------------
(***************************************************************************)
(* MUSIC and SOUND with tables of a few entries and short notes: quarters  *)
(* at 225 a minute, so that 1/64 is one tick.                              *)
(***************************************************************************)
EXTENDS Music

Note(letter, mark, times, over) ==
  [letter |-> letter, up |-> 0, down |-> 0, mark |-> mark, times |-> times, over |-> over]
Q(n) == [set |-> "Q", n |-> n]
L(n, m) == [set |-> "L", n |-> n, m |-> m]
K(key) == [set |-> "K", key |-> key]
M == [set |-> "M"]

InFlats  == <<K("Eb"), Q(225), L(1, 32), Note("E", "", 0, 0), [Note("c", "^", 0, 2) EXCEPT !.up = 1]>>
InSharps == <<Q(200), L(1, 32), [Note("F", "=", 0, 2) EXCEPT !.down = 1], K("F#m"),
              Note("z", "", 0, 0), Note("b", "_", 2, 2)>>

TwoTunes   == {InFlats, InSharps}
Effect(ticks, tone) == [ticks |-> ticks, tone |-> tone]
TwoSounds  ==
  {[notes |-> <<Effect(1, 2048), Effect(2, 65536)>>, repeat |-> 2],
   [notes |-> <<Effect(1, 1000)>>, repeat |-> 0]}
=============================================================================
