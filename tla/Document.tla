------------------------------ MODULE Document ------------------------------
(***************************************************************************)
(* What the editor promises: a text, a cursor at a place in it, perhaps a  *)
(* selection from sel to the cursor, a clipboard, and the texts there were *)
(* before, the oldest of which may be forgotten.  Undo gives the last of   *)
(* them back.  key is the key that was pressed last.                       *)
(***************************************************************************)
EXTENDS Integers, Sequences, SequencesExt

CONSTANTS Codes, nl, MaxText, NoSel

VARIABLES text, at, sel, clip, past, key
vars == <<text, at, sel, clip, past, key>>

Between(m, n) == SubSeq(text, (IF m < n THEN m ELSE n) + 1, IF m < n THEN n ELSE m)
First == IF sel # NoSel /\ sel < at THEN sel ELSE at
Without == IF sel = NoSel THEN text
           ELSE SubSeq(text, 1, First) \o SubSeq(text, First + Len(Between(sel, at)) + 1, Len(text))
With(t, s) == SubSeq(t, 1, First) \o s \o SubSeq(t, First + 1, Len(t))

Init == text = << >> /\ at = 0 /\ sel = NoSel /\ clip = << >> /\ past = << >> /\ key = <<"none">>

Remembers(ts) == past' # << >> /\ IsSuffix(past', past \o ts) /\ sel' = NoSel

\* Nothing but the place of the cursor and the selection changes.
Looks == UNCHANGED <<text, past, clip>> /\ sel' \in {NoSel, sel, at}
Near == /\ key' = <<"left">> => at' \in {at, at - 1}
        /\ key' = <<"right">> => at' \in {at, at + 1}
Move == /\ key' \in {<<"left">>, <<"right">>, <<"move">>}
        /\ Looks /\ Near /\ at' \in 0 .. Len(text)

\* The selection, if there is one, gives way to s.
Replace(s) ==
  /\ text' = With(Without, s) /\ at' = First + Len(s)
  /\ Remembers((IF sel = NoSel THEN << >> ELSE <<text>>) \o (IF s = << >> THEN << >> ELSE <<Without>>))
  /\ UNCHANGED clip

Overwrite(c) ==
  /\ sel = NoSel /\ at < Len(text) /\ nl \notin {c, text[at + 1]}
  /\ text' = ReplaceAt(text, at + 1, c) /\ at' = at + 1 /\ Remembers(<<text>>) /\ UNCHANGED clip

Type == \E c \in Codes :
  /\ key' = <<"type", c>>
  /\ \/ Replace(<<c>>)
     \/ Overwrite(c)
     \/ sel = NoSel /\ Len(text) = MaxText /\ Looks /\ at' = at

RemoveChar(k) == /\ text' = RemoveAt(text, k) /\ at' = k - 1 /\ Remembers(<<text>>) /\ UNCHANGED clip
Delete ==
  /\ key' = <<"delete">>
  /\ IF sel # NoSel THEN Replace(<< >>)
     ELSE IF at < Len(text) THEN RemoveChar(at + 1) ELSE Looks /\ at' = at
BackSpace ==
  /\ key' = <<"backspace">>
  /\ IF sel # NoSel THEN Replace(<< >>) ELSE IF at > 0 THEN RemoveChar(at) ELSE Looks /\ at' = at

Copy == key' = <<"copy">> /\ sel # NoSel /\ clip' = Between(sel, at) /\ UNCHANGED <<text, at, sel, past>>
Cut ==
  /\ key' = <<"cut">> /\ sel # NoSel
  /\ text' = Without /\ at' = First /\ Remembers(<<text>>) /\ clip' = Between(sel, at)
Paste ==
  /\ key' = <<"paste">> /\ clip # << >>
  /\ IF Len(Without) + Len(clip) <= MaxText THEN Replace(clip) ELSE Looks /\ at' = at

Undo ==
  /\ key' = <<"undo">> /\ past # << >>
  /\ text' = Last(past) /\ past' = Front(past)
  /\ at' \in 0 .. Len(text') /\ sel' = NoSel /\ UNCHANGED clip

\* Another text is loaded, or a program ran and the same text is read back.
Open ==
  /\ \/ key' = <<"load", text'>> /\ UNCHANGED clip
     \/ key' = <<"run">> /\ text' = text /\ clip' = << >>
  /\ past' = << >> /\ sel' = NoSel /\ at' \in 0 .. Len(text')

Next == Move \/ Type \/ Delete \/ BackSpace \/ Copy \/ Cut \/ Paste \/ Undo \/ Open
Spec == Init /\ [][Next]_vars
=============================================================================
