-------------------------------- MODULE Desk --------------------------------
(***************************************************************************)
(* What the owner of the editor is promised: a text on his desk, the file  *)
(* it belongs to, a shelf of files.  A file is overwritten when it is the  *)
(* text's own or he has agreed to it, until he goes astray: from then on   *)
(* any may be, until the text is saved, another one loaded or a new one    *)
(* begun.  Running leaves the text as it is, even when power is lost       *)
(* before he has pressed the key that brings the editor back.              *)
(***************************************************************************)
CONSTANTS Paths, NoPath, Texts, Empty, Torn

VARIABLES text, own, shelf, agreed, phase, spare, astray
vars == <<text, own, shelf, agreed, phase, spare, astray>>

\* spare: the texts that may come back at the next start.
Init == /\ text \in spare \cup {Empty} /\ own = NoPath /\ agreed = NoPath
        /\ phase = "desk" /\ shelf \in [Paths -> Texts] /\ astray = FALSE

AtDesk == phase = "desk" /\ phase' = "desk"

Write == /\ AtDesk /\ text' \in Texts
         /\ UNCHANGED <<own, shelf, agreed, spare, astray>>
Agree == /\ AtDesk /\ agreed' \in Paths \cup {NoPath}
         /\ UNCHANGED <<text, own, shelf, spare, astray>>
\* A file is torn while it is written, and stays so when writing fails.
Open == \E p \in Paths :
  /\ AtDesk /\ (p \in {own, agreed} \/ astray)
  /\ shelf' = [shelf EXCEPT ![p] = Torn] /\ UNCHANGED <<text, own, agreed, spare, astray>>
Close == \E p \in Paths :
  /\ AtDesk /\ (p \in {own, agreed} \/ astray)
  /\ shelf[p] = Torn /\ shelf' = [shelf EXCEPT ![p] = text]
  /\ own' = p /\ agreed' = NoPath /\ astray' = FALSE /\ spare' \subseteq spare /\ UNCHANGED text
Take == \E p \in Paths :
  /\ AtDesk /\ own' = p /\ text' \in {shelf[p], Empty} /\ astray' = FALSE
  /\ UNCHANGED <<shelf, agreed, spare>>
New == AtDesk /\ text' = Empty /\ own' = NoPath /\ astray' = FALSE /\ UNCHANGED <<shelf, agreed, spare>>
\* He goes on where his file is not, or takes the text that is put by for a file.
Stray == /\ AtDesk /\ astray' = TRUE /\ text' \in spare \cup {text}
         /\ spare' \subseteq spare /\ UNCHANGED shelf

\* The text is put by before it runs, and nothing else is.
Prepare == AtDesk /\ spare' \subseteq spare \cup {Torn} /\ UNCHANGED <<text, own, shelf, agreed, astray>>
Run == /\ phase = "desk" /\ phase' = "running" /\ spare' \subseteq spare \cup {text}
       /\ UNCHANGED <<text, own, shelf, agreed, astray>>
End == phase = "running" /\ phase' = "returning" /\ UNCHANGED <<text, own, shelf, agreed, spare, astray>>
Back == /\ phase = "returning" /\ phase' = "desk" /\ spare' \subseteq spare
        /\ UNCHANGED <<text, own, shelf, agreed, astray>>

PowerCut ==
  /\ phase' = "desk" /\ own' = NoPath /\ agreed' = NoPath /\ astray' = FALSE /\ UNCHANGED <<shelf, spare>>
  /\ text' \in IF phase = "running" THEN {text} ELSE spare \cup {Empty}

Next == Write \/ Agree \/ Open \/ Close \/ Take \/ New \/ Stray \/ Prepare \/ Run \/ End \/ Back \/ PowerCut
Spec == Init /\ [][Next]_vars
=============================================================================
