------------------------------- MODULE MCWave -------------------------------
(***************************************************************************)
(* A ring buffer of two units in each half. A program that waits for its   *)
(* files plays one that ends at half a buffer and one that goes round it;  *)
(* another cuts files short, plays in its handlers, and ends.              *)
(***************************************************************************)
EXTENDS Wave

CONSTANTS tune, long

LongFiles ==
  [f \in Files |-> IF f = tune THEN Half ELSE 3 * Half + 1]

Patient == [files |-> {tune, long}, cuts |-> FALSE, handlers |-> {}, ends |-> FALSE]
Hasty   == [files |-> {long}, cuts |-> TRUE, handlers |-> {"WAVE", "TIMER"}, ends |-> TRUE]
TwoPrograms == {Patient, Hasty}

\* What is in the buffer, and the count of units played, decide nothing; the
\* properties speak of them only for the patient program.
Control ==
  <<main, pc1, left, rd.at, rd.n, polls, requests, file, rpos, wpos, owned,
    flags, lag, cur, rested, IF Waits THEN <<next, buf, rd.cell>> ELSE << >> >>
=============================================================================
