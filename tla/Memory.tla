------------------------------- MODULE Memory -------------------------------
(***************************************************************************)
(* The BASIC heap of memory.c.  kmbasic_variables and kmbasic_var_size are *)
(* indexed by block number: first the named variables of the program, then *)
(* TEMPVAR_NUMBER blocks for intermediate strings, then the permanent      *)
(* blocks.  A block uses the heap when its recorded size is not 0.         *)
(*                                                                         *)
(* The functions of memory.c are operators on a heap record, so that the   *)
(* library modules can call several of them in one step; the specification *)
(* below calls each of them on its own, with every argument the runtime    *)
(* may pass.  Addresses and sizes count 32-bit words.                      *)
(***************************************************************************)
EXTENDS Integers, Sequences

CONSTANTS
  NamedNum,         \* g_next_varnum once the program is compiled
  TEMPVAR_NUMBER,
  ALLOC_BLOCK_NUM,
  DELETE_LIST_SIZE,
  HeapBegin,        \* address of the first heap word (the null pointer is 0)
  HeapEnd,          \* address after the last heap word
  SizeMod,          \* 2^16: kmbasic_var_size is an array of unsigned short
  Sizes             \* the sizes, in words, that the runtime asks for

ASSUME MemoryAssumption ==
  /\ NamedNum \in Nat
  /\ TEMPVAR_NUMBER \in Nat \ {0}
  /\ ALLOC_BLOCK_NUM \in Nat
  /\ NamedNum + TEMPVAR_NUMBER < ALLOC_BLOCK_NUM
  /\ DELETE_LIST_SIZE \in Nat \ {0}
  /\ HeapBegin \in Nat \ {0}
  /\ HeapEnd \in Nat
  /\ HeapBegin < HeapEnd
  /\ SizeMod \in Nat \ {0}
  /\ Sizes \subseteq Nat

NULL == 0

Blocks      == 0 .. ALLOC_BLOCK_NUM - 1
NamedBlocks == 0 .. NamedNum - 1
TempBlocks  == NamedNum .. NamedNum + TEMPVAR_NUMBER - 1
PermBlocks  == NamedNum + TEMPVAR_NUMBER .. ALLOC_BLOCK_NUM - 1

VARIABLES
  heap,   \* the statics of memory.c, see HeapType
  halted  \* the error that stopped the BASIC program, or Running

vars == <<heap, halted>>

Running == [code |-> "RUNNING", size |-> 0]
Codes   == {"RUNNING", "ENDED", "NO_TEMP_VAR", "OUT_OF_MEMORY", "OBJ_TOO_MANY"}

Area == [ptr : Nat, size : Nat]

HeapType ==
  [ ptr   : [Blocks -> Nat],                      \* kmbasic_variables
    size  : [Blocks -> Nat],                      \* kmbasic_var_size
    del   : Seq(Area),                            \* g_deleted_pointer/_size
    gc    : BOOLEAN,                              \* g_garbage_collection
    begin : {HeapBegin, HeapEnd},                 \* g_heap_begin
    last  : Blocks ]                              \* g_last_var_num

-----------------------------------------------------------------------------
(* init_memory, reset_memory                                               *)

InitMemory ==
  [ ptr |-> [i \in Blocks |-> NULL], size |-> [i \in Blocks |-> 0],
    del |-> << >>, gc |-> TRUE, begin |-> HeapBegin, last |-> 0 ]

ResetMemory(h) == [h EXCEPT !.begin = HeapEnd]

-----------------------------------------------------------------------------
(* alloc_memory                                                            *)

Uses(h, i)     == h.size[i] # 0
BlockEnd(h, i) == h.ptr[i] + h.size[i]
InHeap(h, a)   == h.begin <= a /\ a < HeapEnd

\* No block in use overlaps the n words at a (the inner loop on j).
IsFree_touching(h, a, n) ==
  \A j \in Blocks : Uses(h, j) => a + n <= h.ptr[j] + 1 \/ BlockEnd(h, j) <= a
IsFree(h, a, n) ==
  \A j \in Blocks : Uses(h, j) => a + n <= h.ptr[j] \/ BlockEnd(h, j) <= a

\* The deleted blocks that are large enough; the last one is taken, and the
\* ones deleted after it are forgotten.
Fitting(h, n)     == {k \in 1 .. Len(h.del) : n <= h.del[k].size}
LastFitting(h, n) == CHOOSE k \in Fitting(h, n) :
                       \A l \in Fitting(h, n) : l <= k

\* The address after the last block in use.
Ends(h)      == {h.begin} \cup
                {BlockEnd(h, i) : i \in {j \in Blocks : Uses(h, j) /\ InHeap(h, h.ptr[j])}}
AfterLast(h) == CHOOSE a \in Ends(h) : \A b \in Ends(h) : b <= a

\* The starts the "between blocks" loop tries, in the order of i: the heap's
\* first word (i = -1) or the word after block i.
GapStart_noFirst(h, i) == IF i = -1 THEN HeapEnd + 1 ELSE BlockEnd(h, i)
GapStart(h, i) == IF i = -1 THEN h.begin ELSE BlockEnd(h, i)
Gaps(h, n) ==
  {i \in -1 .. ALLOC_BLOCK_NUM - 1 :
     /\ i # -1 => Uses(h, i) /\ h.begin <= h.ptr[i] /\ h.ptr[i] <= HeapEnd
     /\ h.begin <= GapStart(h, i)
     /\ GapStart(h, i) + n <= HeapEnd
     /\ IsFree(h, GapStart(h, i), n)}
FirstGap(h, n) == CHOOSE i \in Gaps(h, n) : \A j \in Gaps(h, n) : i <= j

HasRoom(h, n) ==
  Fitting(h, n) # {} \/ AfterLast(h) + n <= HeapEnd \/ Gaps(h, n) # {}

Candidate(h, n) ==
  IF Fitting(h, n) # {} THEN h.del[LastFitting(h, n)].ptr
  ELSE IF AfterLast(h) + n <= HeapEnd THEN AfterLast(h)
  ELSE GapStart(h, FirstGap(h, n))

DelAfterAlloc_kept(h, n) ==
  IF Fitting(h, n) # {} THEN SubSeq(h.del, 1, LastFitting(h, n) - 1) ELSE h.del
DelAfterAlloc(h, n) ==
  IF Fitting(h, n) # {} THEN SubSeq(h.del, 1, LastFitting(h, n) - 1) ELSE << >>

\* Results of an allocation: the heap, and the code of stop_with_error.
Done(h)        == [heap |-> h, error |-> Running]
Failed(c, n, h) == [heap |-> h, error |-> [code |-> c, size |-> n]]

\* Search the heap for n words, and record them in block b, which is unused.
Place(h, n, b) ==
  IF HasRoom(h, n)
  THEN Done([h EXCEPT !.ptr[b] = Candidate(h, n), !.size[b] = n % SizeMod,
                      !.del = DelAfterAlloc(h, n), !.last = b])
  ELSE Failed("OUT_OF_MEMORY", n, [h EXCEPT !.del = << >>])

FreeTemps(h) == [h EXCEPT !.size = [i \in Blocks |->
                                      IF i \in TempBlocks THEN 0 ELSE h.size[i]]]
CollectFlagged(h) == IF h.gc THEN [FreeTemps(h) EXCEPT !.gc = FALSE] ELSE h

FirstOf(S) == CHOOSE i \in S : \A j \in S : i <= j
FreeIn(h, S) == {i \in S : ~Uses(h, i)}

\* alloc_memory(n, -1)
AllocTemp(h0, n) ==
  LET h == CollectFlagged(h0) IN
  IF FreeIn(h, TempBlocks) = {}
  THEN Failed("NO_TEMP_VAR", n, h)
  ELSE Place(h, n, FirstOf(FreeIn(h, TempBlocks)))

\* alloc_memory(n, b), b >= 0.  Block numbers are variables, temporary and
\* permanent blocks; no caller passes one that ERROR_UNKNOWN would refuse.
Alloc(h, n, b) ==
  IF n <= h.size[b] /\ InHeap(h, h.ptr[b])
  THEN Done([h EXCEPT !.size[b] = n])
  ELSE Place([h EXCEPT !.size[b] = 0], n, b)

\* alloc_memory(n, get_permanent_block_number())
AllocPermanent(h, n) ==
  IF FreeIn(h, PermBlocks) = {}
  THEN Failed("OBJ_TOO_MANY", n, h)
  ELSE Alloc(h, n, FirstOf(FreeIn(h, PermBlocks)))

-----------------------------------------------------------------------------
(* delete_memory, move_from_temp, garbage_collection, var2permanent        *)

Holding(h, p) == {i \in Blocks : Uses(h, i) /\ h.ptr[i] = p}
Largest(S)    == CHOOSE n \in S : \A m \in S : m <= n

\* The list of deleted areas keeps the last entry or replaces it when full.
Remember_oneMore(del, p, n) ==
  IF Len(del) <= DELETE_LIST_SIZE THEN Append(del, [ptr |-> p, size |-> n]) ELSE del
Remember(del, p, n) ==
  IF Len(del) < DELETE_LIST_SIZE THEN Append(del, [ptr |-> p, size |-> n])
  ELSE IF del[DELETE_LIST_SIZE].size < n
       THEN [del EXCEPT ![DELETE_LIST_SIZE] = [ptr |-> p, size |-> n]]
       ELSE del

Delete(h, p) ==
  IF p = NULL THEN h
  ELSE [h EXCEPT
          !.ptr  = [i \in Blocks |-> IF i \in Holding(h, p) THEN NULL ELSE h.ptr[i]],
          !.size = [i \in Blocks |-> IF i \in Holding(h, p) THEN 0 ELSE h.size[i]],
          !.del  = Remember(h.del, p,
                            Largest({0} \cup {h.size[i] : i \in Holding(h, p)}))]

HoldingTemps(h, p) == Holding(h, p) \cap TempBlocks

\* Hand the area of block b to block c.
Transfer_copy(h, b, c) ==
  [h EXCEPT !.ptr[c] = h.ptr[b], !.size[c] = h.size[b]]
Transfer(h, b, c) ==
  [h EXCEPT !.ptr[c] = h.ptr[b],
            !.size = [h.size EXCEPT ![c] = h.size[b], ![b] = 0]]

MoveFromTemp(h, b, p) == Transfer(h, FirstOf(HoldingTemps(h, p)), b)

Collect(h, p) ==
  IF p < h.begin \/ HeapEnd < p THEN h
  ELSE [h EXCEPT !.size = [i \in Blocks |->
                             IF i \in HoldingTemps(h, p) THEN 0 ELSE h.size[i]]]

Var2Permanent(h, b) ==
  IF ~(Uses(h, b) /\ InHeap(h, h.ptr[b])) THEN Done(h)
  ELSE IF \E c \in PermBlocks : h.size[c] = h.size[b] /\ h.ptr[c] = h.ptr[b]
       THEN Done([h EXCEPT !.size[b] = 0])
  ELSE IF FreeIn(h, PermBlocks) = {} THEN Failed("OBJ_TOO_MANY", 0, h)
  ELSE Done(Transfer(h, b, FirstOf(FreeIn(h, PermBlocks))))

\* The code compiled by r0_to_variable: an integer is stored in a variable.
StoreInteger(h, b, v) == [h EXCEPT !.ptr[b] = v, !.size[b] = 0]

-----------------------------------------------------------------------------
(* The specification: every call of the runtime into memory.c.  A call     *)
(* that fails ends the BASIC program: stop_with_error never returns, and   *)
(* post_run closes the heap.                                               *)

Return(r) ==
  IF r.error = Running
  THEN heap' = r.heap /\ halted' = Running
  ELSE heap' = ResetMemory(r.heap) /\ halted' = r.error

Init == heap = InitMemory /\ halted = Running

alloc_temp == halted = Running /\ \E n \in Sizes : Return(AllocTemp(heap, n))

alloc_memory ==
  halted = Running /\ \E n \in Sizes, b \in NamedBlocks \cup PermBlocks :
                        Return(Alloc(heap, n, b))

machikania_malloc ==
  halted = Running /\ \E n \in Sizes : Return(AllocPermanent(heap, n))

\* Also called after reset_memory, by stop_music and the network shutdown.
delete_memory ==
  /\ \E p \in 0 .. HeapEnd : heap' = Delete(heap, p)
  /\ UNCHANGED halted

move_from_temp ==
  /\ halted = Running
  /\ \E b \in NamedBlocks, p \in 0 .. HeapEnd :
       HoldingTemps(heap, p) # {} /\ heap' = MoveFromTemp(heap, b, p)
  /\ UNCHANGED halted

garbage_collection ==
  /\ halted = Running
  /\ \E p \in 0 .. HeapEnd : heap' = Collect(heap, p)
  /\ UNCHANGED halted

var2permanent ==
  halted = Running /\ \E b \in NamedBlocks : Return(Var2Permanent(heap, b))

r0_to_variable ==
  /\ halted = Running
  /\ \E b \in NamedBlocks, v \in 0 .. HeapEnd : heap' = StoreInteger(heap, b, v)
  /\ UNCHANGED halted

\* END, the break key, or an error elsewhere: lib_end, then post_run.
reset_memory ==
  /\ halted = Running
  /\ heap' = ResetMemory(heap)
  /\ halted' = [code |-> "ENDED", size |-> 0]

\* pre_run of the next program (or of CLEAR).
init_memory ==
  /\ halted # Running
  /\ heap' = InitMemory
  /\ halted' = Running

Next ==
  \/ alloc_temp \/ alloc_memory \/ machikania_malloc
  \/ delete_memory \/ move_from_temp \/ garbage_collection
  \/ var2permanent \/ r0_to_variable
  \/ reset_memory \/ init_memory

Spec == Init /\ [][Next]_vars

-----------------------------------------------------------------------------
(* Properties.                                                             *)

Disjoint(a, m, b, n) == a + m <= b \/ b + n <= a

Bounded(h) ==
  \A i \in Blocks : Uses(h, i) => HeapBegin <= h.ptr[i] /\ BlockEnd(h, i) <= HeapEnd
Apart(h) ==
  \A i, j \in Blocks : i # j /\ Uses(h, i) /\ Uses(h, j) =>
    Disjoint(h.ptr[i], h.size[i], h.ptr[j], h.size[j])
DelFree(h) ==
  \A k \in 1 .. Len(h.del) : h.del[k].size # 0 =>
    /\ HeapBegin <= h.del[k].ptr
    /\ h.del[k].ptr + h.del[k].size <= HeapEnd
    /\ IsFree(h, h.del[k].ptr, h.del[k].size)
DelApart(h) ==
  \A k, l \in 1 .. Len(h.del) : k # l /\ h.del[k].size # 0 /\ h.del[l].size # 0 =>
    Disjoint(h.del[k].ptr, h.del[k].size, h.del[l].ptr, h.del[l].size)

\* Every static of memory.c keeps its type, the list of deleted areas never
\* outgrows its arrays, and the heap is closed exactly when no program runs.
TypeOK ==
  /\ heap \in HeapType
  /\ Len(heap.del) <= DELETE_LIST_SIZE
  /\ halted \in [code : Codes, size : Nat]
  /\ heap.begin = IF halted = Running THEN HeapBegin ELSE HeapEnd

\* No two blocks in use share a word, and every block in use lies in the heap:
\* alloc_memory never hands out words that a live string, array or object
\* still holds, whichever of its three searches found them.
NoOverlap == Bounded(heap) /\ Apart(heap)

\* The areas in the list of deleted areas are reused without looking at the
\* blocks, so they must stay free, and be apart from each other, however many
\* calls pass between the deletion and the allocation that reuses them.
DeletedStayFree == DelFree(heap) /\ DelApart(heap)

\* A program is stopped with "out of memory" only when no run of free words is
\* long enough: the searches of alloc_memory together miss no hole.
OutOfMemoryIsReal ==
  [][halted = Running /\ halted'.code = "OUT_OF_MEMORY" =>
       \A a \in HeapBegin .. HeapEnd - halted'.size :
         ~IsFree(heap', a, halted'.size)]_vars

\* The heap keeps the promise of HeapSpec.
Owned(h) == [b \in Blocks |-> h.ptr[b] .. BlockEnd(h, b) - 1]
Promise  == INSTANCE HeapSpec WITH Words <- HeapBegin .. HeapEnd - 1,
                                   own <- Owned(heap), stopped <- halted.code
KeepsPromise == Promise!Spec
-----------------------------------------------------------------------------
(* What decides the rest of a behaviour, when no request is of zero words: *)
(* not the pointer of a block that is not in use, the place of an empty    *)
(* deleted area, g_last_var_num and the size a failed call asked for.      *)

View ==
  << [b \in Blocks |-> IF Uses(heap, b) THEN <<heap.ptr[b], heap.size[b]>> ELSE << >>],
     [k \in 1 .. Len(heap.del) |->
        IF heap.del[k].size = 0 THEN << >> ELSE <<heap.del[k].ptr, heap.del[k].size>>],
     heap.gc, heap.begin, halted.code >>
=============================================================================
