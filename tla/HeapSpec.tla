------------------------------ MODULE HeapSpec ------------------------------
(***************************************************************************)
(* What the heap of memory.c promises its callers.  A block owns a run of  *)
(* consecutive words, or nothing.  A call gives words to one block, takes  *)
(* them back, or hands them from one block to another, and no other block  *)
(* notices; a program is stopped for lack of memory only when no run of    *)
(* free words is long enough, and for lack of blocks only when every block *)
(* of the kind it asked for is in use.                                     *)
(***************************************************************************)
EXTENDS Integers

CONSTANTS
  Words,      \* the addresses of the heap
  TempBlocks, \* blocks for intermediate results
  PermBlocks, \* blocks whose life the program decides
  Blocks,     \* all the blocks
  Sizes       \* the sizes that are asked for

VARIABLES
  own,        \* the words each block owns
  stopped     \* the reason why the program does not run, or "RUNNING"

vars == <<own, stopped>>

Nothing  == [b \in Blocks |-> {}]
Run(a, n) == a .. a + n - 1

\* The n words at a are heap words, and no block but b owns one of them.
FreeBut(b, a, n) ==
  /\ Run(a, n) \subseteq Words
  /\ \A c \in Blocks \ {b} : own[c] \cap Run(a, n) = {}

Init == own = Nothing /\ stopped = "RUNNING"

Acquire(b) ==
  /\ stopped = "RUNNING"
  /\ \E a \in Words, n \in Sizes :
       FreeBut(b, a, n) /\ own' = [own EXCEPT ![b] = Run(a, n)]
  /\ UNCHANGED stopped

Release(b) == own' = [own EXCEPT ![b] = {}] /\ UNCHANGED stopped

Pass(b, c) ==
  /\ stopped = "RUNNING"
  /\ own' = [own EXCEPT ![c] = own[b], ![b] = {}]
  /\ UNCHANGED stopped

OutOfMemory(b) ==
  /\ stopped = "RUNNING"
  /\ \E n \in Sizes : \A a \in Words : ~FreeBut(b, a, n)
  /\ own' = [own EXCEPT ![b] = {}]
  /\ stopped' = "OUT_OF_MEMORY"

OutOfBlocks(S, code) ==
  /\ stopped = "RUNNING"
  /\ \A b \in S : own[b] # {}
  /\ stopped' = code
  /\ UNCHANGED own

Finish  == stopped = "RUNNING" /\ stopped' = "ENDED" /\ UNCHANGED own
Restart == stopped # "RUNNING" /\ own' = Nothing /\ stopped' = "RUNNING"

Next ==
  \/ \E b \in Blocks : Acquire(b) \/ Release(b) \/ OutOfMemory(b)
  \/ \E b, c \in Blocks : b # c /\ Pass(b, c)
  \/ OutOfBlocks(TempBlocks, "NO_TEMP_VAR")
  \/ OutOfBlocks(PermBlocks, "OBJ_TOO_MANY")
  \/ Finish
  \/ Restart

Spec == Init /\ [][Next]_vars
=============================================================================
