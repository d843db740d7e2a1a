---------------------------- MODULE MemoryProofs ----------------------------
(***************************************************************************)
(* The heap of memory.c is well typed and never hands out a word twice,    *)
(* for every heap size, number of blocks and capacity of the deleted list. *)
(***************************************************************************)
EXTENDS Memory, NaturalsInduction, WellFoundedInduction,
        SequenceTheorems, TLAPS

\* A set of natural numbers has a least element, the one FirstOf chooses.
LEMMA FirstOfLeast ==
  ASSUME NEW S, S \subseteq Nat, S # {}
  PROVE  FirstOf(S) \in S /\ \A j \in S : FirstOf(S) <= j
<1> DEFINE R == OpToRel(<, Nat)
<1>1. IsWellFoundedOn(R, Nat)
  BY NatLessThanWellFounded
<1>2. PICK x \in S : \A y \in S : ~(<<y, x>> \in R)
  <2> HIDE DEF R
  <2> QED BY <1>1, WFMin
<1>3. \A y \in S : x <= y
  <2> TAKE y \in S
  <2>1. y \in Nat /\ x \in Nat
    OBVIOUS
  <2>2. ~(y < x)
    BY <1>2, <2>1 DEF OpToRel
  <2> QED BY <2>1, <2>2
<1> QED BY <1>3 DEF FirstOf

\* A bounded set of natural numbers has a greatest element.
LEMMA BoundedGreatest ==
  ASSUME NEW S, S \subseteq Nat, S # {}, NEW N \in Nat, \A i \in S : i <= N
  PROVE  \E m \in S : \A i \in S : i <= m
<1> DEFINE T == {N - i : i \in S}
<1>1. T \subseteq Nat /\ T # {}
  <2>1. \A i \in S : N - i \in Nat
    OBVIOUS
  <2> QED BY <2>1
<1>2. FirstOf(T) \in T /\ \A j \in T : FirstOf(T) <= j
  BY <1>1, FirstOfLeast
<1>3. PICK m \in S : FirstOf(T) = N - m
  BY <1>2
<1>4. ASSUME NEW i \in S PROVE i <= m
  <2>1. N - i \in T
    OBVIOUS
  <2>2. N - m <= N - i
    BY <1>2, <1>3, <2>1
  <2> QED BY <2>2
<1> QED BY <1>4

\* The inductive invariant, on a heap record.
Good(h) ==
  /\ h \in HeapType
  /\ Len(h.del) <= DELETE_LIST_SIZE
  /\ Bounded(h) /\ Apart(h)
  /\ DelFree(h) /\ DelApart(h)

\* The three kinds of blocks are blocks, and the constants are numbers.
LEMMA BlockSets ==
  /\ NamedBlocks \subseteq Blocks /\ TempBlocks \subseteq Blocks
  /\ PermBlocks \subseteq Blocks  /\ Blocks \subseteq Nat
  /\ HeapBegin \in Nat \ {0} /\ HeapEnd \in Nat /\ HeapBegin < HeapEnd
  /\ DELETE_LIST_SIZE \in Nat \ {0} /\ SizeMod \in Nat \ {0}
BY MemoryAssumption DEF NamedBlocks, TempBlocks, PermBlocks, Blocks

\* kmbasic_var_size keeps at most what was asked for.
LEMMA TruncatedSize ==
  ASSUME NEW n \in Nat
  PROVE  n % SizeMod \in Nat /\ n % SizeMod <= n
BY BlockSets

\* The parts of a heap record have the types that arithmetic needs.
LEMMA Typed ==
  ASSUME NEW h \in HeapType
  PROVE  /\ \A i \in Blocks : h.ptr[i] \in Nat /\ h.size[i] \in Nat
         /\ h.del \in Seq(Area) /\ Len(h.del) \in Nat
         /\ \A k \in 1 .. Len(h.del) :
              /\ h.del[k] \in Area
              /\ h.del[k].ptr \in Nat /\ h.del[k].size \in Nat
<1>1. h.del \in Seq(Area) /\ Len(h.del) \in Nat
  BY DEF HeapType
<1>2. \A k \in 1 .. Len(h.del) : h.del[k] \in Area
  BY <1>1, ElementOfSeq
<1> QED BY <1>1, <1>2 DEF HeapType, Area

\* The deleted area that alloc_memory reuses is one that is large enough.
LEMMA LastFittingIn ==
  ASSUME NEW h \in HeapType, NEW n \in Nat, Fitting(h, n) # {}
  PROVE  LastFitting(h, n) \in Fitting(h, n)
<1>1. Len(h.del) \in Nat
  BY DEF HeapType
<1>2. \E m \in Fitting(h, n) : \A i \in Fitting(h, n) : i <= m
  <2>1. Fitting(h, n) \subseteq Nat /\ \A i \in Fitting(h, n) : i <= Len(h.del)
    BY <1>1 DEF Fitting
  <2> HIDE DEF Fitting
  <2> QED BY <1>1, <2>1, BoundedGreatest
<1> QED BY <1>2 DEF LastFitting

\* The search past the last block starts after every block in use.
LEMMA AfterLastIsLast ==
  ASSUME NEW h, Good(h), h.begin = HeapBegin
  PROVE  /\ AfterLast(h) \in Nat /\ HeapBegin <= AfterLast(h)
         /\ \A i \in Blocks : Uses(h, i) => BlockEnd(h, i) <= AfterLast(h)
<1>1. Ends(h) \subseteq Nat /\ \A a \in Ends(h) : a <= HeapEnd
  BY BlockSets DEF Good, HeapType, Ends, Bounded, BlockEnd, Uses
<1>2. HeapBegin \in Ends(h)
  BY DEF Ends
<1>3. \E m \in Ends(h) : \A i \in Ends(h) : i <= m
  <2> HIDE DEF Ends
  <2> QED BY <1>1, <1>2, BlockSets, BoundedGreatest
<1>4. AfterLast(h) \in Ends(h) /\ \A i \in Ends(h) : i <= AfterLast(h)
  BY <1>3 DEF AfterLast
<1>5. ASSUME NEW i \in Blocks, Uses(h, i) PROVE BlockEnd(h, i) \in Ends(h)
  BY <1>5, BlockSets DEF Good, HeapType, Ends, Bounded, BlockEnd, Uses, InHeap
<1> QED BY <1>1, <1>2, <1>4, <1>5

\* The first words of a free or separate area are free or separate.
LEMMA FreeShorter ==
  ASSUME NEW h \in HeapType, NEW p \in Nat, NEW m \in Nat, NEW n \in Nat, n <= m,
         IsFree(h, p, m)
  PROVE  IsFree(h, p, n)
<1> SUFFICES ASSUME NEW j \in Blocks, Uses(h, j)
             PROVE  p + n <= h.ptr[j] \/ BlockEnd(h, j) <= p
  BY DEF IsFree
<1>1. h.ptr[j] \in Nat /\ p + n <= p + m
  BY Typed
<1>2. p + m <= h.ptr[j] \/ BlockEnd(h, j) <= p
  BY DEF IsFree
<1> QED BY <1>1, <1>2

\* An area that shrinks stays apart from what it was apart from.
LEMMA DisjointShorter ==
  ASSUME NEW a \in Nat, NEW k \in Nat, NEW p \in Nat, NEW m \in Nat, NEW n \in Nat,
         n <= m, Disjoint(a, k, p, m)
  PROVE  Disjoint(a, k, p, n)
BY DEF Disjoint

\* The search between the blocks takes the first gap that fits.
LEMMA FirstGapIn ==
  ASSUME NEW h, NEW n, Gaps(h, n) # {}
  PROVE  FirstGap(h, n) \in Gaps(h, n)
<1> DEFINE T == {i + 1 : i \in Gaps(h, n)}
<1>1. \A i \in Gaps(h, n) : i \in Int /\ i + 1 \in Nat
  BY MemoryAssumption DEF Gaps
<1>2. T \subseteq Nat /\ T # {}
  BY <1>1
<1>3. FirstOf(T) \in T /\ \A j \in T : FirstOf(T) <= j
  BY <1>2, FirstOfLeast
<1>4. PICK g \in Gaps(h, n) : FirstOf(T) = g + 1
  BY <1>3
<1>5. ASSUME NEW j \in Gaps(h, n) PROVE g <= j
  <2>1. j + 1 \in T
    OBVIOUS
  <2>2. g + 1 <= j + 1
    BY <1>3, <1>4, <2>1
  <2> QED BY <1>1, <2>2
<1> QED BY <1>5 DEF FirstGap

\* Whichever search finds them, the words alloc_memory takes are free.
LEMMA CandidateFree ==
  ASSUME NEW h, Good(h), h.begin = HeapBegin, NEW n \in Nat, HasRoom(h, n)
  PROVE  /\ Candidate(h, n) \in Nat
         /\ n # 0 => /\ HeapBegin <= Candidate(h, n)
                     /\ Candidate(h, n) + n <= HeapEnd
                     /\ IsFree(h, Candidate(h, n), n)
<1> USE BlockSets
<1>t. h \in HeapType /\ \A i \in Blocks : h.ptr[i] \in Nat /\ h.size[i] \in Nat
  BY Typed DEF Good
<1>1. CASE Fitting(h, n) # {}
  <2>1. PICK k \in 1 .. Len(h.del) : k = LastFitting(h, n) /\ n <= h.del[k].size
    BY <1>1, <1>t, LastFittingIn DEF Fitting
  <2>2. PICK p \in Nat, m \in Nat : p = h.del[k].ptr /\ m = h.del[k].size
    BY <1>t, Typed
  <2>3. n # 0 => HeapBegin <= p /\ p + m <= HeapEnd /\ IsFree(h, p, m)
    BY <2>1, <2>2 DEF Good, DelFree
  <2>4. n # 0 => IsFree(h, p, n)
    BY <1>t, <2>1, <2>2, <2>3, FreeShorter
  <2>5. Candidate(h, n) = p
    BY <1>1, <2>1, <2>2 DEF Candidate
  <2> QED BY <2>1, <2>2, <2>3, <2>4, <2>5
<1>2. CASE Fitting(h, n) = {} /\ AfterLast(h) + n <= HeapEnd
  <2>1. IsFree(h, AfterLast(h), n)
    BY <1>t, AfterLastIsLast DEF IsFree
  <2> QED BY <1>2, <2>1, AfterLastIsLast DEF Candidate
<1>3. CASE Fitting(h, n) = {} /\ ~(AfterLast(h) + n <= HeapEnd)
  <2>1. FirstGap(h, n) \in Gaps(h, n)
    BY <1>3, FirstGapIn DEF HasRoom
  <2>2. Candidate(h, n) = GapStart(h, FirstGap(h, n))
    BY <1>3 DEF Candidate
  <2>3. GapStart(h, FirstGap(h, n)) \in Nat
    BY <1>t, <2>1 DEF Gaps, GapStart, BlockEnd, Blocks
  <2> QED BY <2>1, <2>2, <2>3 DEF Gaps
<1> QED BY <1>1, <1>2, <1>3

\* The deleted areas that stay in the list do not meet the words just taken.
LEMMA DelAfterAllocFree ==
  ASSUME NEW h, Good(h), NEW n \in Nat
  PROVE  /\ DelAfterAlloc(h, n) \in Seq(Area)
         /\ Len(DelAfterAlloc(h, n)) <= Len(h.del)
         /\ \A k \in 1 .. Len(DelAfterAlloc(h, n)) :
              /\ DelAfterAlloc(h, n)[k] = h.del[k]
              /\ n # 0 /\ h.del[k].size # 0 =>
                   Disjoint(h.del[k].ptr, h.del[k].size, Candidate(h, n), n)
<1>t. h \in HeapType
  BY DEF Good
<1>1. CASE Fitting(h, n) # {}
  <2>1. PICK k \in 1 .. Len(h.del) : k = LastFitting(h, n) /\ n <= h.del[k].size
    BY <1>1, <1>t, LastFittingIn DEF Fitting
  <2>2. /\ DelAfterAlloc(h, n) = SubSeq(h.del, 1, k - 1)
        /\ Candidate(h, n) = h.del[k].ptr
    BY <1>1, <2>1 DEF DelAfterAlloc, Candidate
  <2>3. k \in Nat /\ 1 <= k /\ k <= Len(h.del) /\ k - 1 \in Int
    BY <1>t, Typed
  <2>4. \A i \in 1 .. k - 1 : i \in 1 .. Len(h.del) /\ i # k
    BY <2>3, <1>t, Typed
  <2>5. \A i \in 1 .. k - 1 : h.del[i] \in Area
    BY <2>4, <1>t, Typed
  <2>6. /\ SubSeq(h.del, 1, k - 1) \in Seq(Area)
        /\ Len(SubSeq(h.del, 1, k - 1)) = k - 1
        /\ \A i \in 1 .. k - 1 : SubSeq(h.del, 1, k - 1)[i] = h.del[i]
    BY <2>3, <2>5, SubSeqProperties
  <2>7. ASSUME n # 0, NEW i \in 1 .. k - 1, h.del[i].size # 0
        PROVE  Disjoint(h.del[i].ptr, h.del[i].size, h.del[k].ptr, n)
    <3>1. Disjoint(h.del[i].ptr, h.del[i].size, h.del[k].ptr, h.del[k].size)
      BY <2>1, <2>3, <2>4, <2>7, <1>t, Typed DEF Good, DelApart
    <3>2. h.del[k].ptr \in Nat /\ h.del[k].size \in Nat
      BY <1>t, Typed
    <3>3. h.del[i].ptr \in Nat /\ h.del[i].size \in Nat
      BY <2>4, <1>t, Typed
    <3> QED BY <2>1, <3>1, <3>2, <3>3, DisjointShorter
  <2> QED BY <2>2, <2>3, <2>6, <2>7, <1>t, Typed
<1>2. CASE Fitting(h, n) = {}
  BY <1>2, <1>t, Typed, EmptySeq DEF DelAfterAlloc
<1> QED BY <1>1, <1>2

\* Recording free words in an unused block keeps the invariant.
LEMMA RecordGood ==
  ASSUME NEW h, Good(h), NEW b \in Blocks, ~Uses(h, b),
         NEW a \in Nat, NEW m \in Nat, NEW d \in Seq(Area), Len(d) <= Len(h.del),
         m # 0 => HeapBegin <= a /\ a + m <= HeapEnd /\ IsFree(h, a, m),
         \A k \in 1 .. Len(d) :
           /\ d[k] = h.del[k]
           /\ m # 0 /\ h.del[k].size # 0 => Disjoint(h.del[k].ptr, h.del[k].size, a, m)
  PROVE  Good([h EXCEPT !.ptr[b] = a, !.size[b] = m, !.del = d, !.last = b])
<1> DEFINE g == [h EXCEPT !.ptr[b] = a, !.size[b] = m, !.del = d, !.last = b]
<1>t. h \in HeapType /\ Len(h.del) <= DELETE_LIST_SIZE
  BY DEF Good
<1>1. /\ g.ptr = [h.ptr EXCEPT ![b] = a] /\ g.size = [h.size EXCEPT ![b] = m]
      /\ g.del = d /\ g \in HeapType
  BY <1>t DEF HeapType
<1>2. \A i \in Blocks : /\ g.ptr[i] = IF i = b THEN a ELSE h.ptr[i]
                        /\ g.size[i] = IF i = b THEN m ELSE h.size[i]
  BY <1>1, <1>t DEF HeapType
<1>d. Len(d) \in Nat /\ \A k \in 1 .. Len(d) : k \in 1 .. Len(h.del)
  BY <1>t, Typed, LenProperties
<1> HIDE DEF g
<1>3. Len(g.del) <= DELETE_LIST_SIZE
  BY <1>1, <1>t, <1>d, Typed, BlockSets
<1>4. Bounded(g)
  BY <1>2 DEF Good, Bounded, Uses, BlockEnd
<1>5. Apart(g)
  BY <1>2 DEF Good, Apart, Uses, IsFree, BlockEnd, Disjoint
<1>6. DelFree(g)
  <2> SUFFICES ASSUME NEW k \in 1 .. Len(d), d[k].size # 0
               PROVE  /\ HeapBegin <= d[k].ptr
                      /\ d[k].ptr + d[k].size <= HeapEnd
                      /\ IsFree(g, d[k].ptr, d[k].size)
    BY <1>1 DEF DelFree
  <2>1. /\ HeapBegin <= d[k].ptr
        /\ d[k].ptr + d[k].size <= HeapEnd
        /\ IsFree(h, d[k].ptr, d[k].size)
    BY <1>d DEF Good, DelFree
  <2>2. m # 0 => Disjoint(d[k].ptr, d[k].size, a, m)
    OBVIOUS
  <2> QED BY <1>2, <2>1, <2>2 DEF IsFree, Uses, BlockEnd, Disjoint
<1>7. DelApart(g)
  <2> SUFFICES ASSUME NEW k \in 1 .. Len(d), NEW l \in 1 .. Len(d), k # l,
                      d[k].size # 0, d[l].size # 0
               PROVE  Disjoint(d[k].ptr, d[k].size, d[l].ptr, d[l].size)
    BY <1>1 DEF DelApart
  <2> QED BY <1>d DEF Good, DelApart
<1> QED BY <1>1, <1>3, <1>4, <1>5, <1>6, <1>7 DEF Good, g

\* What a call returns: a good heap, open exactly when it did not fail.
Sound(r) ==
  /\ Good(r.heap) /\ r.heap.begin = HeapBegin
  /\ r.error \in [code : Codes, size : Nat]

\* The three searches of alloc_memory find a place of the wanted size that no
\* block in use covers.
LEMMA PlaceSound ==
  ASSUME NEW h, Good(h), h.begin = HeapBegin, NEW n \in Nat,
         NEW b \in Blocks, ~Uses(h, b)
  PROVE  Sound(Place(h, n, b))
<1>t. h \in HeapType /\ Len(h.del) <= DELETE_LIST_SIZE
  BY DEF Good
<1>1. CASE HasRoom(h, n)
  <2> DEFINE a == Candidate(h, n)
             m == n % SizeMod
             d == DelAfterAlloc(h, n)
             g == [h EXCEPT !.ptr[b] = a, !.size[b] = m, !.del = d, !.last = b]
  <2>1. m \in Nat /\ m <= n
    BY TruncatedSize
  <2>2. a \in Nat /\ (n # 0 => /\ HeapBegin <= a /\ a + n <= HeapEnd
                               /\ IsFree(h, a, n))
    BY <1>1, CandidateFree
  <2>3. m # 0 => HeapBegin <= a /\ a + m <= HeapEnd /\ IsFree(h, a, m)
    <3> HIDE DEF a, m
    <3>1. m # 0 => n # 0 /\ a + m <= a + n
      BY <2>1, <2>2
    <3> QED BY <1>t, <2>1, <2>2, <3>1, FreeShorter, BlockSets
  <2>4. d \in Seq(Area) /\ Len(d) <= Len(h.del)
    BY DelAfterAllocFree
  <2>5. \A k \in 1 .. Len(d) : k \in 1 .. Len(h.del)
    BY <1>t, <2>4, Typed, LenProperties
  <2>6. \A k \in 1 .. Len(d) :
          /\ d[k] = h.del[k]
          /\ m # 0 /\ h.del[k].size # 0 => Disjoint(h.del[k].ptr, h.del[k].size, a, m)
    <3> SUFFICES ASSUME NEW k \in 1 .. Len(d)
                 PROVE  /\ d[k] = h.del[k]
                        /\ m # 0 /\ h.del[k].size # 0 =>
                             Disjoint(h.del[k].ptr, h.del[k].size, a, m)
      OBVIOUS
    <3>1. /\ d[k] = h.del[k]
          /\ n # 0 /\ h.del[k].size # 0 => Disjoint(h.del[k].ptr, h.del[k].size, a, n)
      BY DelAfterAllocFree
    <3>2. h.del[k].ptr \in Nat /\ h.del[k].size \in Nat
      BY <1>t, <2>5, Typed
    <3>3. a \in Nat
      BY <2>2
    <3> HIDE DEF a, m, d
    <3>4. m # 0 => n # 0 /\ a + m <= a + n
      BY <2>1, <3>3
    <3> QED BY <2>1, <3>1, <3>2, <3>3, <3>4 DEF Disjoint
  <2>7. Good(g)
    <3> HIDE DEF a, m, d
    <3> QED BY <2>1, <2>2, <2>3, <2>4, <2>6, RecordGood
  <2>8. g.begin = HeapBegin
    BY <1>t DEF HeapType
  <2>9. Place(h, n, b) = Done(g)
    BY <1>1 DEF Place
  <2> HIDE DEF g
  <2> QED BY <2>7, <2>8, <2>9 DEF Sound, Done, Running, Codes
<1>2. CASE ~HasRoom(h, n)
  <2> DEFINE g == [h EXCEPT !.del = << >>]
  <2>1. g \in HeapType /\ g.del = << >> /\ g.ptr = h.ptr /\ g.size = h.size
        /\ g.begin = HeapBegin
    BY <1>t, EmptySeq DEF HeapType
  <2>2. Place(h, n, b) = Failed("OUT_OF_MEMORY", n, g)
    BY <1>2 DEF Place
  <2> HIDE DEF g
  <2>3. Good(g)
    BY <2>1, BlockSets, EmptySeq
       DEF Good, Bounded, Apart, DelFree, DelApart, Uses, BlockEnd
  <2> QED BY <2>1, <2>2, <2>3 DEF Sound, Failed, Codes
<1> QED BY <1>1, <1>2

\* Giving words back, and nothing else, keeps the invariant.
LEMMA ShrinkGood ==
  ASSUME NEW h, Good(h), NEW g \in HeapType, g.del = h.del,
         \A i \in Blocks : /\ g.size[i] <= h.size[i]
                           /\ g.size[i] # 0 => g.ptr[i] = h.ptr[i]
  PROVE  Good(g)
<1>t. h \in HeapType /\ Len(h.del) <= DELETE_LIST_SIZE
  BY DEF Good
<1>1. \A i \in Blocks : /\ h.size[i] \in Nat /\ g.size[i] \in Nat
                        /\ h.ptr[i] \in Nat /\ g.ptr[i] \in Nat
  BY <1>t, Typed
<1>2. \A i \in Blocks : Uses(g, i) =>
        Uses(h, i) /\ g.ptr[i] = h.ptr[i] /\ BlockEnd(g, i) <= BlockEnd(h, i)
  BY <1>1 DEF Uses, BlockEnd
<1>3. Bounded(g)
  BY <1>1, <1>2, BlockSets DEF Good, Bounded, BlockEnd
<1>4. Apart(g)
  BY <1>1, <1>2 DEF Good, Apart, BlockEnd, Disjoint
<1>5. \A a \in Nat, n \in Nat : IsFree(h, a, n) => IsFree(g, a, n)
  BY <1>1, <1>2 DEF IsFree, BlockEnd
<1>6. DelFree(g)
  BY <1>t, <1>5, Typed DEF Good, DelFree
<1>7. DelApart(g)
  BY DEF Good, DelApart
<1> QED BY <1>t, <1>3, <1>4, <1>6, <1>7 DEF Good

\* Handing an area from a block to another keeps the invariant.
LEMMA TransferGood ==
  ASSUME NEW h, Good(h), NEW b \in Blocks, NEW c \in Blocks, b # c
  PROVE  Good(Transfer(h, b, c)) /\ Transfer(h, b, c).begin = h.begin
<1> DEFINE g == Transfer(h, b, c)
<1>t. h \in HeapType /\ Len(h.del) <= DELETE_LIST_SIZE
  BY DEF Good
<1>1. /\ g \in HeapType /\ g.del = h.del /\ g.begin = h.begin
      /\ \A i \in Blocks :
           /\ g.ptr[i]  = IF i = c THEN h.ptr[b] ELSE h.ptr[i]
           /\ g.size[i] = IF i = b THEN 0 ELSE IF i = c THEN h.size[b] ELSE h.size[i]
  BY <1>t DEF HeapType, Transfer
<1> HIDE DEF g
<1>2. Bounded(g)
  BY <1>1 DEF Good, Bounded, Uses, BlockEnd
<1>3. Apart(g)
  BY <1>1 DEF Good, Apart, Uses, Disjoint
<1>4. \A a \in Nat, n \in Nat : IsFree(h, a, n) => IsFree(g, a, n)
  BY <1>1 DEF IsFree, Uses, BlockEnd
<1>5. DelFree(g)
  BY <1>1, <1>t, <1>4, Typed DEF Good, DelFree
<1>6. DelApart(g)
  BY <1>1 DEF Good, DelApart
<1>7. Good(g)
  BY <1>1, <1>2, <1>3, <1>5, <1>6, <1>t DEF Good
<1> QED BY <1>1, <1>7 DEF g

\* delete_memory remembers the size of the area it freed.
LEMMA LargestIn ==
  ASSUME NEW h, Good(h), NEW p
  PROVE  LET L == Largest({0} \cup {h.size[i] : i \in Holding(h, p)}) IN
         /\ L \in Nat
         /\ L # 0 => \E i \in Holding(h, p) : L = h.size[i]
<1> DEFINE S == {0} \cup {h.size[i] : i \in Holding(h, p)}
<1>t. h \in HeapType
  BY DEF Good
<1>1. \A i \in Holding(h, p) : i \in Blocks /\ h.size[i] \in Nat /\ h.size[i] <= HeapEnd
  BY <1>t, Typed, BlockSets DEF Holding, Good, Bounded, BlockEnd
<1>2. S \subseteq Nat /\ S # {} /\ \A n \in S : n <= HeapEnd
  BY <1>1, BlockSets
<1>3. \E m \in S : \A n \in S : n <= m
  <2> HIDE DEF S
  <2> QED BY <1>2, BlockSets, BoundedGreatest
<1>4. Largest(S) \in S
  BY <1>3 DEF Largest
<1> QED BY <1>2, <1>4

\* delete_memory keeps the invariant: the freed area is remembered only where it
\* is apart from the others, and forgotten ones stay free.
LEMMA DeleteGood ==
  ASSUME NEW h, Good(h), NEW p \in Nat
  PROVE  Good(Delete(h, p)) /\ Delete(h, p).begin = h.begin
<1>t. h \in HeapType /\ Len(h.del) <= DELETE_LIST_SIZE
  BY DEF Good
<1>1. CASE p = NULL
  BY <1>1 DEF Delete
<1>2. CASE p # NULL
  <2> DEFINE L == Largest({0} \cup {h.size[i] : i \in Holding(h, p)})
             f == [h EXCEPT
                     !.ptr  = [i \in Blocks |-> IF i \in Holding(h, p) THEN NULL ELSE h.ptr[i]],
                     !.size = [i \in Blocks |-> IF i \in Holding(h, p) THEN 0 ELSE h.size[i]]]
             e == [ptr |-> p, size |-> L]
             d == Remember(h.del, p, L)
             g == Delete(h, p)
  <2>1. L \in Nat /\ (L # 0 => \E i \in Holding(h, p) : L = h.size[i])
    BY LargestIn
  <2>2. /\ f \in HeapType /\ f.del = h.del /\ f.begin = h.begin
        /\ \A i \in Blocks :
             /\ f.ptr[i]  = IF i \in Holding(h, p) THEN NULL ELSE h.ptr[i]
             /\ f.size[i] = IF i \in Holding(h, p) THEN 0 ELSE h.size[i]
    BY <1>t DEF HeapType, NULL
  <2>3. g = [f EXCEPT !.del = d]
    BY <1>2, <1>t DEF Delete, HeapType
  <2> HIDE DEF L, f
  <2>4. Good(f)
    BY <2>2, <1>t, Typed, ShrinkGood
  <2>5. e \in Area
    BY <2>1 DEF Area
  <2>6. /\ d \in Seq(Area) /\ Len(d) <= DELETE_LIST_SIZE
        /\ \A k \in 1 .. Len(d) : d[k] = e \/ (d[k] = h.del[k] /\ k \in 1 .. Len(h.del))
        /\ \E n \in Nat : \A k \in 1 .. Len(d) :
             k # n => d[k] = h.del[k] /\ k \in 1 .. Len(h.del)
    <3>1. h.del \in Seq(Area) /\ Len(h.del) \in Nat
      BY <1>t, Typed
    <3>2. CASE Len(h.del) < DELETE_LIST_SIZE
      <4>1. d = Append(h.del, e)
        BY <3>2 DEF Remember
      <4>2. /\ d \in Seq(Area) /\ Len(d) = Len(h.del) + 1
            /\ \A k \in 1 .. Len(h.del) : d[k] = h.del[k]
            /\ d[Len(h.del) + 1] = e
        BY <3>1, <4>1, <2>5, AppendProperties
      <4>3. \A k \in 1 .. Len(d) : k = Len(d) \/ k \in 1 .. Len(h.del)
        BY <3>1, <4>2
      <4>4. Len(d) \in Nat /\ Len(d) <= DELETE_LIST_SIZE
        BY <3>1, <3>2, <4>2, BlockSets
      <4> HIDE DEF d, e
      <4> QED BY <4>2, <4>3, <4>4
    <3>3. CASE ~(Len(h.del) < DELETE_LIST_SIZE)
      <4>1. Len(h.del) = DELETE_LIST_SIZE /\ DELETE_LIST_SIZE \in 1 .. Len(h.del)
        BY <3>1, <3>3, <1>t, BlockSets
      <4>2. d = h.del \/ d = [h.del EXCEPT ![DELETE_LIST_SIZE] = e]
        BY <3>3 DEF Remember
      <4>3. CASE d = h.del
        BY <3>1, <4>1, <4>3, <1>t
      <4>4. CASE d = [h.del EXCEPT ![DELETE_LIST_SIZE] = e]
        <5>1. /\ d \in Seq(Area) /\ Len(d) = Len(h.del)
              /\ \A k \in 1 .. Len(h.del) :
                   d[k] = IF k = DELETE_LIST_SIZE THEN e ELSE h.del[k]
          BY <3>1, <4>1, <4>4, <2>5, ExceptSeq
        <5> HIDE DEF d, e
        <5> QED BY <5>1, <4>1, <1>t
      <4> QED BY <4>2, <4>3, <4>4
    <3> QED BY <3>2, <3>3
  <2>7. L # 0 => /\ HeapBegin <= p /\ p + L <= HeapEnd
                 /\ IsFree(f, p, L)
                 /\ \A k \in 1 .. Len(h.del) : h.del[k].size # 0 =>
                      Disjoint(h.del[k].ptr, h.del[k].size, p, L)
    <3> SUFFICES ASSUME L # 0
                 PROVE  /\ HeapBegin <= p /\ p + L <= HeapEnd
                        /\ IsFree(f, p, L)
                        /\ \A k \in 1 .. Len(h.del) : h.del[k].size # 0 =>
                             Disjoint(h.del[k].ptr, h.del[k].size, p, L)
      OBVIOUS
    <3>1. PICK i \in Blocks : Uses(h, i) /\ h.ptr[i] = p /\ h.size[i] = L
      BY <2>1 DEF Holding
    <3>2. HeapBegin <= p /\ p + L <= HeapEnd
      BY <3>1 DEF Good, Bounded, BlockEnd
    <3>3. IsFree(f, p, L)
      BY <2>2, <3>1 DEF Good, Apart, IsFree, Uses, BlockEnd, Holding, Disjoint
    <3>4. \A k \in 1 .. Len(h.del) : h.del[k].size # 0 =>
            Disjoint(h.del[k].ptr, h.del[k].size, p, L)
      BY <3>1 DEF Good, DelFree, IsFree, BlockEnd, Disjoint
    <3> QED BY <3>2, <3>3, <3>4
  <2>8. /\ g \in HeapType /\ g.del = d /\ g.begin = h.begin
        /\ g.ptr = f.ptr /\ g.size = f.size
    BY <2>2, <2>3, <2>6 DEF HeapType
  <2> HIDE DEF g, d
  <2>9. Bounded(g) /\ Apart(g)
    BY <2>4, <2>8 DEF Good, Bounded, Apart, Uses, BlockEnd
  <2>10. \A a, n : IsFree(f, a, n) <=> IsFree(g, a, n)
    BY <2>8 DEF IsFree, Uses, BlockEnd
  <2>11. \A k \in 1 .. Len(h.del) : h.del[k].size # 0 =>
           /\ HeapBegin <= h.del[k].ptr /\ h.del[k].ptr + h.del[k].size <= HeapEnd
           /\ IsFree(g, h.del[k].ptr, h.del[k].size)
    BY <2>2, <2>4, <2>10 DEF Good, DelFree
  <2>12. e.ptr = p /\ e.size = L
    OBVIOUS
  <2> HIDE DEF e
  <2>13. DelFree(g)
    <3> SUFFICES ASSUME NEW k \in 1 .. Len(d), d[k].size # 0
                 PROVE  /\ HeapBegin <= d[k].ptr
                        /\ d[k].ptr + d[k].size <= HeapEnd
                        /\ IsFree(g, d[k].ptr, d[k].size)
      BY <2>8 DEF DelFree
    <3>1. d[k] = e \/ (d[k] = h.del[k] /\ k \in 1 .. Len(h.del))
      BY <2>6
    <3> QED BY <3>1, <2>7, <2>10, <2>11, <2>12
  <2>14. DelApart(g)
    <3> SUFFICES ASSUME NEW k \in 1 .. Len(d), NEW l \in 1 .. Len(d), k # l,
                        d[k].size # 0, d[l].size # 0
                 PROVE  Disjoint(d[k].ptr, d[k].size, d[l].ptr, d[l].size)
      BY <2>8 DEF DelApart
    <3>1. \/ d[k] = h.del[k] /\ k \in 1 .. Len(h.del) /\ d[l] = h.del[l] /\ l \in 1 .. Len(h.del)
          \/ d[k] = e /\ d[l] = h.del[l] /\ l \in 1 .. Len(h.del)
          \/ d[l] = e /\ d[k] = h.del[k] /\ k \in 1 .. Len(h.del)
      BY <2>6
    <3> QED BY <3>1, <2>7, <2>12 DEF Good, DelApart, Disjoint
  <2>15. Len(g.del) <= DELETE_LIST_SIZE
    BY <2>6, <2>8
  <2> QED BY <2>8, <2>9, <2>13, <2>14, <2>15 DEF Good, g
<1> QED BY <1>1, <1>2

\* The calls that may fail.
LEMMA AllocTempSound ==
  ASSUME NEW h, Good(h), h.begin = HeapBegin, NEW n \in Nat
  PROVE  Sound(AllocTemp(h, n))
<1> DEFINE f == CollectFlagged(h)
<1>1. Good(f) /\ f.begin = HeapBegin
  <2>1. h \in HeapType
    BY DEF Good
  <2>2. CASE h.gc
    <3>1. /\ f \in HeapType /\ f.del = h.del /\ f.begin = h.begin
          /\ \A i \in Blocks : /\ f.ptr[i] = h.ptr[i]
                               /\ f.size[i] = IF i \in TempBlocks THEN 0 ELSE h.size[i]
      BY <2>1, <2>2 DEF CollectFlagged, FreeTemps, HeapType
    <3> QED BY <2>1, <3>1, Typed, ShrinkGood
  <2>3. CASE ~h.gc
    BY <2>3 DEF CollectFlagged
  <2> QED BY <2>2, <2>3
<1> HIDE DEF f
<1>2. CASE FreeIn(f, TempBlocks) = {}
  BY <1>1, <1>2 DEF AllocTemp, Failed, Sound, Codes, f
<1>3. CASE FreeIn(f, TempBlocks) # {}
  <2>1. FirstOf(FreeIn(f, TempBlocks)) \in FreeIn(f, TempBlocks)
    BY <1>3, BlockSets, FirstOfLeast DEF FreeIn
  <2>2. Sound(Place(f, n, FirstOf(FreeIn(f, TempBlocks))))
    BY <1>1, <2>1, BlockSets, PlaceSound DEF FreeIn
  <2> QED BY <1>3, <2>2 DEF AllocTemp, f
<1> QED BY <1>2, <1>3

\* alloc_memory keeps the invariant when it returns.
LEMMA AllocSound ==
  ASSUME NEW h, Good(h), h.begin = HeapBegin, NEW n \in Nat, NEW b \in Blocks
  PROVE  Sound(Alloc(h, n, b))
<1>t. h \in HeapType
  BY DEF Good
<1>1. CASE n <= h.size[b] /\ InHeap(h, h.ptr[b])
  <2> DEFINE f == [h EXCEPT !.size[b] = n]
  <2>1. /\ f \in HeapType /\ f.del = h.del /\ f.begin = h.begin
        /\ \A i \in Blocks : /\ f.ptr[i] = h.ptr[i]
                             /\ f.size[i] = IF i = b THEN n ELSE h.size[i]
    BY <1>t DEF HeapType
  <2>2. Alloc(h, n, b) = Done(f)
    BY <1>1 DEF Alloc
  <2> HIDE DEF f
  <2>3. Good(f)
    BY <1>t, <1>1, <2>1, Typed, ShrinkGood
  <2> QED BY <2>1, <2>2, <2>3 DEF Sound, Done, Running, Codes
<1>2. CASE ~(n <= h.size[b] /\ InHeap(h, h.ptr[b]))
  <2> DEFINE f == [h EXCEPT !.size[b] = 0]
  <2>1. /\ f \in HeapType /\ f.del = h.del /\ f.begin = h.begin
        /\ \A i \in Blocks : /\ f.ptr[i] = h.ptr[i]
                             /\ f.size[i] = IF i = b THEN 0 ELSE h.size[i]
    BY <1>t DEF HeapType
  <2>2. Alloc(h, n, b) = Place(f, n, b)
    BY <1>2 DEF Alloc
  <2> HIDE DEF f
  <2>3. Good(f) /\ ~Uses(f, b)
    BY <1>t, <2>1, Typed, ShrinkGood DEF Uses
  <2> QED BY <2>1, <2>2, <2>3, PlaceSound
<1> QED BY <1>1, <1>2

\* An allocation into a permanent block keeps the invariant.
LEMMA AllocPermanentSound ==
  ASSUME NEW h, Good(h), h.begin = HeapBegin, NEW n \in Nat
  PROVE  Sound(AllocPermanent(h, n))
<1>1. CASE FreeIn(h, PermBlocks) = {}
  BY <1>1 DEF AllocPermanent, Failed, Sound, Codes
<1>2. CASE FreeIn(h, PermBlocks) # {}
  <2>1. FirstOf(FreeIn(h, PermBlocks)) \in PermBlocks
    BY <1>2, BlockSets, FirstOfLeast DEF FreeIn
  <2> QED BY <1>2, <2>1, BlockSets, AllocSound DEF AllocPermanent
<1> QED BY <1>1, <1>2

\* var2permanent keeps the invariant: the area has one owner at a time.
LEMMA Var2PermanentSound ==
  ASSUME NEW h, Good(h), h.begin = HeapBegin, NEW b \in NamedBlocks
  PROVE  Sound(Var2Permanent(h, b))
<1>t. h \in HeapType /\ b \in Blocks
  BY BlockSets DEF Good
<1>1. Sound(Done(h))
  BY DEF Sound, Done, Running, Codes
<1>2. Sound(Failed("OBJ_TOO_MANY", 0, h))
  BY DEF Sound, Failed, Codes
<1>3. Sound(Done([h EXCEPT !.size[b] = 0]))
  <2> DEFINE f == [h EXCEPT !.size[b] = 0]
  <2>1. /\ f \in HeapType /\ f.del = h.del /\ f.begin = h.begin
        /\ \A i \in Blocks : /\ f.ptr[i] = h.ptr[i]
                             /\ f.size[i] = IF i = b THEN 0 ELSE h.size[i]
    BY <1>t DEF HeapType
  <2> HIDE DEF f
  <2>2. Good(f)
    BY <1>t, <2>1, Typed, ShrinkGood
  <2>3. Sound(Done(f))
    BY <2>1, <2>2 DEF Sound, Done, Running, Codes
  <2> QED BY <2>3 DEF f
<1>4. ASSUME FreeIn(h, PermBlocks) # {}
      PROVE  Sound(Done(Transfer(h, b, FirstOf(FreeIn(h, PermBlocks)))))
  <2>1. FirstOf(FreeIn(h, PermBlocks)) \in PermBlocks
    BY <1>4, BlockSets, FirstOfLeast DEF FreeIn
  <2>2. \A c \in PermBlocks : c \in Blocks /\ b # c
    BY BlockSets, MemoryAssumption DEF NamedBlocks, PermBlocks
  <2>3. /\ Good(Transfer(h, b, FirstOf(FreeIn(h, PermBlocks))))
        /\ Transfer(h, b, FirstOf(FreeIn(h, PermBlocks))).begin = HeapBegin
    BY <1>t, <2>1, <2>2, TransferGood
  <2> QED BY <2>3 DEF Sound, Done, Running, Codes
<1> QED BY <1>1, <1>2, <1>3, <1>4 DEF Var2Permanent

\* Closing the heap changes no block and no deleted area.
LEMMA ResetGood ==
  ASSUME NEW h, Good(h)
  PROVE  Good(ResetMemory(h)) /\ ResetMemory(h).begin = HeapEnd
<1>1. h \in HeapType
  BY DEF Good
<1>2. /\ ResetMemory(h) \in HeapType /\ ResetMemory(h).begin = HeapEnd
      /\ ResetMemory(h).ptr = h.ptr /\ ResetMemory(h).size = h.size
      /\ ResetMemory(h).del = h.del
  BY <1>1 DEF ResetMemory, HeapType
<1>3. Good(ResetMemory(h))
  BY <1>1, <1>2, Typed, ShrinkGood
<1> QED BY <1>2, <1>3

\* init_memory establishes the invariant of the heap record.
LEMMA InitGood == Good(InitMemory) /\ InitMemory.begin = HeapBegin
<1>1. InitMemory \in HeapType
  BY MemoryAssumption, EmptySeq DEF InitMemory, HeapType, NULL, Blocks
<1>2. InitMemory.del = << >> /\ InitMemory.begin = HeapBegin
      /\ \A i \in Blocks : InitMemory.size[i] = 0
  BY DEF InitMemory
<1>3. Len(InitMemory.del) = 0
  BY <1>2
<1> QED BY <1>1, <1>2, <1>3, BlockSets
        DEF Good, Bounded, Apart, DelFree, DelApart, Uses

IInv ==
  /\ Good(heap)
  /\ halted \in [code : Codes, size : Nat]
  /\ heap.begin = IF halted = Running THEN HeapBegin ELSE HeapEnd

\* A call that returns a good heap keeps the invariant.
LEMMA ReturnKeeps ==
  ASSUME NEW r, Sound(r), Return(r)
  PROVE  IInv'
<1>1. CASE r.error = Running
  BY <1>1 DEF Return, Sound, IInv, Running, Codes
<1>2. CASE r.error # Running
  BY <1>2, ResetGood DEF Return, Sound, IInv
<1> QED BY <1>1, <1>2

\* The initial states satisfy the inductive invariant.
LEMMA InitEstablishes == Init => IInv
BY InitGood DEF Init, IInv, Running, Codes

\* Every step, one case per function of memory.c, keeps the inductive invariant.
LEMMA NextKeeps == IInv /\ [Next]_vars => IInv'
<1> SUFFICES ASSUME IInv, [Next]_vars PROVE IInv'
  OBVIOUS
<1>s. Sizes \subseteq Nat
  BY MemoryAssumption
<1>h. halted = Running => heap.begin = HeapBegin
  BY DEF IInv
<1>1. CASE alloc_temp
  BY <1>1, <1>s, <1>h, AllocTempSound, ReturnKeeps DEF alloc_temp, IInv
<1>2. CASE alloc_memory
  BY <1>2, <1>s, <1>h, BlockSets, AllocSound, ReturnKeeps DEF alloc_memory, IInv
<1>3. CASE machikania_malloc
  BY <1>3, <1>s, <1>h, AllocPermanentSound, ReturnKeeps DEF machikania_malloc, IInv
<1>4. CASE delete_memory
  <2>1. PICK p \in 0 .. HeapEnd : heap' = Delete(heap, p)
    BY <1>4 DEF delete_memory
  <2>2. p \in Nat /\ Good(heap)
    BY BlockSets DEF IInv
  <2>3. Good(Delete(heap, p)) /\ Delete(heap, p).begin = heap.begin
    BY <2>2, DeleteGood
  <2>4. Good(heap') /\ heap'.begin = heap.begin
    BY <2>1, <2>3
  <2> QED BY <2>4, <1>4 DEF IInv, delete_memory
<1>5. CASE move_from_temp
  <2>1. PICK b \in NamedBlocks, p \in 0 .. HeapEnd :
          HoldingTemps(heap, p) # {} /\ heap' = MoveFromTemp(heap, b, p)
    BY <1>5 DEF move_from_temp
  <2>2. HoldingTemps(heap, p) \subseteq TempBlocks
    BY DEF HoldingTemps
  <2>3. FirstOf(HoldingTemps(heap, p)) \in TempBlocks
    BY <2>1, <2>2, BlockSets, FirstOfLeast
  <2>4. \A t \in TempBlocks : t # b /\ t \in Blocks /\ b \in Blocks
    BY BlockSets, MemoryAssumption DEF NamedBlocks, TempBlocks
  <2>5. Good(heap') /\ heap'.begin = heap.begin
    BY <2>1, <2>3, <2>4, TransferGood DEF IInv, MoveFromTemp
  <2> QED BY <2>5, <1>5 DEF IInv, move_from_temp
<1>6. CASE garbage_collection
  <2>1. PICK p \in 0 .. HeapEnd : heap' = Collect(heap, p)
    BY <1>6 DEF garbage_collection
  <2>2. heap \in HeapType /\ Good(heap)
    BY DEF IInv, Good
  <2>3. CASE heap' = heap
    BY <2>2, <2>3, <1>6 DEF IInv, garbage_collection
  <2>4. CASE heap' # heap
    <3>1. heap' = [heap EXCEPT !.size = [i \in Blocks |->
                     IF i \in HoldingTemps(heap, p) THEN 0 ELSE heap.size[i]]]
      BY <2>1, <2>4 DEF Collect
    <3>2. /\ heap' \in HeapType /\ heap'.del = heap.del /\ heap'.begin = heap.begin
          /\ \A i \in Blocks :
               /\ heap'.ptr[i] = heap.ptr[i]
               /\ heap'.size[i] = IF i \in HoldingTemps(heap, p) THEN 0 ELSE heap.size[i]
      BY <2>2, <3>1 DEF HeapType
    <3>3. Good(heap')
      BY <2>2, <3>2, Typed, ShrinkGood
    <3> QED BY <3>2, <3>3, <1>6 DEF IInv, garbage_collection
  <2> QED BY <2>3, <2>4
<1>7. CASE var2permanent
  BY <1>7, <1>h, Var2PermanentSound, ReturnKeeps DEF var2permanent, IInv
<1>8. CASE r0_to_variable
  <2>1. PICK b \in NamedBlocks, v \in 0 .. HeapEnd : heap' = StoreInteger(heap, b, v)
    BY <1>8 DEF r0_to_variable
  <2>2. heap \in HeapType /\ Good(heap) /\ b \in Blocks /\ v \in Nat
    BY BlockSets DEF IInv, Good
  <2>3. /\ heap' \in HeapType /\ heap'.del = heap.del /\ heap'.begin = heap.begin
        /\ \A i \in Blocks : /\ i # b => heap'.ptr[i] = heap.ptr[i]
                             /\ heap'.size[i] = IF i = b THEN 0 ELSE heap.size[i]
    BY <2>1, <2>2 DEF HeapType, StoreInteger
  <2>4. Good(heap')
    BY <2>2, <2>3, Typed, ShrinkGood
  <2> QED BY <2>3, <2>4, <1>8 DEF IInv, r0_to_variable
<1>9. CASE reset_memory
  BY <1>9, ResetGood DEF reset_memory, IInv, Running, Codes
<1>10. CASE init_memory
  BY <1>10, InitGood DEF init_memory, IInv, Running, Codes
<1>11. CASE UNCHANGED vars
  BY <1>11 DEF vars, IInv
<1> QED BY <1>1, <1>2, <1>3, <1>4, <1>5, <1>6, <1>7, <1>8, <1>9, <1>10, <1>11 DEF Next

\* The inductive invariant holds in every reachable state.
LEMMA Invariance == Spec => []IInv
BY InitEstablishes, NextKeeps, PTL DEF Spec

\* Every static of memory.c keeps its type and its bounds.
THEOREM TypeCorrect == Spec => []TypeOK
<1>1. IInv => TypeOK
  BY DEF IInv, Good, TypeOK
<1> QED BY <1>1, Invariance, PTL

\* Two blocks in use never share a word, in a heap of any size.
THEOREM NoOverlapHolds == Spec => []NoOverlap
<1>1. IInv => NoOverlap
  BY DEF IInv, Good, NoOverlap
<1> QED BY <1>1, Invariance, PTL

\* The areas in the list of deleted areas are free whenever they are looked at.
THEOREM DeletedStayFreeHolds == Spec => []DeletedStayFree
<1>1. IInv => DeletedStayFree
  BY DEF IInv, Good, DeletedStayFree
<1> QED BY <1>1, Invariance, PTL
-----------------------------------------------------------------------------
(* Out of memory, and the promise of HeapSpec.                             *)

\* When the three searches fail, no run of n words is free: the words after the
\* last block that ends before a free run, or the first ones, would be a gap.
LEMMA NoHole ==
  ASSUME NEW h, Good(h), h.begin = HeapBegin, NEW n \in Nat, ~HasRoom(h, n),
         NEW a \in Nat, HeapBegin <= a, a + n <= HeapEnd
  PROVE  ~IsFree(h, a, n)
<1> SUFFICES ASSUME IsFree(h, a, n) PROVE FALSE
  OBVIOUS
<1> USE BlockSets
<1>t. h \in HeapType /\ \A i \in Blocks : h.ptr[i] \in Nat /\ h.size[i] \in Nat
  BY Typed DEF Good
<1> DEFINE Before == {i \in Blocks : Uses(h, i) /\ BlockEnd(h, i) <= a}
           S == {HeapBegin} \cup {BlockEnd(h, i) : i \in Before}
<1>1. S \subseteq Nat /\ S # {} /\ \A e \in S : e <= a
  BY <1>t DEF BlockEnd
<1>2. PICK e \in S : \A d \in S : d <= e
  <2> HIDE DEF S
  <2> QED BY <1>1, BoundedGreatest
<1>3. e \in Nat /\ HeapBegin <= e /\ e <= a
  BY <1>1, <1>2
<1>4. \A i \in Before : BlockEnd(h, i) <= e
  BY <1>2
<1>5. IsFree(h, e, n)
  <2> SUFFICES ASSUME NEW j \in Blocks, Uses(h, j)
               PROVE  e + n <= h.ptr[j] \/ BlockEnd(h, j) <= e
    BY DEF IsFree
  <2>1. CASE BlockEnd(h, j) <= a
    BY <1>4, <2>1
  <2>2. CASE ~(BlockEnd(h, j) <= a)
    <3>1. a + n <= h.ptr[j]
      BY <2>2 DEF IsFree
    <3> QED BY <1>t, <1>3, <3>1
  <2> QED BY <2>1, <2>2
<1>6. e + n <= HeapEnd
  BY <1>3
<1>7. CASE e = HeapBegin
  <2>1. GapStart(h, -1) = e
    BY <1>7 DEF GapStart
  <2>2. -1 \in Gaps(h, n)
    <3>1. -1 \in -1 .. ALLOC_BLOCK_NUM - 1
      BY MemoryAssumption
    <3> QED BY <1>5, <1>6, <1>7, <2>1, <3>1 DEF Gaps
  <2> QED BY <2>2 DEF HasRoom
<1>8. CASE e # HeapBegin
  <2>1. PICK i \in Before : e = BlockEnd(h, i)
    BY <1>2, <1>8
  <2>2. i \in Blocks /\ i # -1 /\ i \in -1 .. ALLOC_BLOCK_NUM - 1
    BY MemoryAssumption DEF Blocks
  <2>3. GapStart(h, i) = e
    BY <2>1, <2>2 DEF GapStart
  <2>4. HeapBegin <= h.ptr[i] /\ h.ptr[i] <= HeapEnd
    BY <1>t, <2>2 DEF Good, Bounded, BlockEnd
  <2>5. i \in Gaps(h, n)
    BY <1>3, <1>5, <1>6, <2>2, <2>3, <2>4 DEF Gaps
  <2> QED BY <2>5 DEF HasRoom
<1> QED BY <1>7, <1>8

\* A failed call says what it failed to find.
Honest(r) ==
  r.error.code = "OUT_OF_MEMORY" =>
    \A a \in HeapBegin .. HeapEnd - r.error.size : ~IsFree(r.heap, a, r.error.size)

\* alloc_memory's searches are honest.
LEMMA PlaceHonest ==
  ASSUME NEW h, Good(h), h.begin = HeapBegin, NEW n \in Nat, NEW b
  PROVE  Honest(Place(h, n, b))
<1>1. CASE HasRoom(h, n)
  BY <1>1 DEF Place, Done, Running, Honest
<1>2. CASE ~HasRoom(h, n)
  <2> DEFINE g == [h EXCEPT !.del = << >>]
  <2>1. g.ptr = h.ptr /\ g.size = h.size
    BY DEF Good, HeapType
  <2>2. Place(h, n, b) = Failed("OUT_OF_MEMORY", n, g)
    BY <1>2 DEF Place
  <2> HIDE DEF g
  <2>3. \A a : IsFree(g, a, n) <=> IsFree(h, a, n)
    BY <2>1 DEF IsFree, Uses, BlockEnd
  <2>4. \A a \in HeapBegin .. HeapEnd - n : a \in Nat /\ HeapBegin <= a /\ a + n <= HeapEnd
    BY BlockSets
  <2> QED BY <1>2, <2>2, <2>3, <2>4, NoHole DEF Failed, Honest
<1> QED BY <1>1, <1>2

\* Collecting the temporaries on the first call keeps the invariant.
LEMMA CollectGood ==
  ASSUME NEW h, Good(h)
  PROVE  /\ Good(CollectFlagged(h)) /\ CollectFlagged(h).begin = h.begin
         /\ ~CollectFlagged(h).gc
         /\ \A i \in Blocks : /\ CollectFlagged(h).ptr[i] = h.ptr[i]
                              /\ i \notin TempBlocks => CollectFlagged(h).size[i] = h.size[i]
                              /\ ~Uses(h, i) => ~Uses(CollectFlagged(h), i)
                              /\ ~h.gc => CollectFlagged(h).size[i] = h.size[i]
<1> DEFINE f == CollectFlagged(h)
<1>1. h \in HeapType
  BY DEF Good
<1>2. CASE h.gc
  <2>1. /\ f \in HeapType /\ f.del = h.del /\ f.begin = h.begin /\ ~f.gc
        /\ \A i \in Blocks : /\ f.ptr[i] = h.ptr[i]
                             /\ f.size[i] = IF i \in TempBlocks THEN 0 ELSE h.size[i]
    BY <1>1, <1>2 DEF CollectFlagged, FreeTemps, HeapType
  <2>2. Good(f)
    <3> HIDE DEF f
    <3> QED BY <1>1, <2>1, Typed, ShrinkGood
  <2> QED BY <1>2, <2>1, <2>2 DEF Uses
<1>3. CASE ~h.gc
  BY <1>3 DEF CollectFlagged
<1> QED BY <1>2, <1>3

\* Each call that may fail is honest.
LEMMA CallsHonest ==
  ASSUME NEW h, Good(h), h.begin = HeapBegin, NEW n \in Nat, NEW b \in Blocks
  PROVE  /\ Honest(AllocTemp(h, n)) /\ Honest(Alloc(h, n, b))
         /\ Honest(AllocPermanent(h, n)) /\ Honest(Var2Permanent(h, b))
<1>1. ASSUME NEW c \in Blocks PROVE Honest(Alloc(h, n, c))
  <2>1. CASE n <= h.size[c] /\ InHeap(h, h.ptr[c])
    BY <2>1 DEF Alloc, Done, Running, Honest
  <2>2. CASE ~(n <= h.size[c] /\ InHeap(h, h.ptr[c]))
    <3> DEFINE f == [h EXCEPT !.size[c] = 0]
    <3>1. /\ f \in HeapType /\ f.del = h.del /\ f.begin = h.begin
          /\ \A i \in Blocks : /\ f.ptr[i] = h.ptr[i]
                               /\ f.size[i] = IF i = c THEN 0 ELSE h.size[i]
      BY DEF Good, HeapType
    <3>2. Alloc(h, n, c) = Place(f, n, c)
      BY <2>2 DEF Alloc
    <3> HIDE DEF f
    <3>3. Good(f)
      BY <3>1, Typed, ShrinkGood DEF Good
    <3> QED BY <3>1, <3>2, <3>3, PlaceHonest
  <2> QED BY <2>1, <2>2
<1>2. Honest(AllocTemp(h, n))
  <2> DEFINE f == CollectFlagged(h)
  <2>1. Good(f) /\ f.begin = HeapBegin
    BY CollectGood
  <2>2. CASE FreeIn(f, TempBlocks) = {}
    BY <2>2 DEF AllocTemp, Failed, Honest
  <2>3. CASE FreeIn(f, TempBlocks) # {}
    <3>1. AllocTemp(h, n) = Place(f, n, FirstOf(FreeIn(f, TempBlocks)))
      BY <2>3 DEF AllocTemp
    <3> HIDE DEF f
    <3> QED BY <2>1, <3>1, PlaceHonest
  <2> QED BY <2>2, <2>3
<1>3. Honest(AllocPermanent(h, n))
  <2>1. CASE FreeIn(h, PermBlocks) = {}
    BY <2>1 DEF AllocPermanent, Failed, Honest
  <2>2. CASE FreeIn(h, PermBlocks) # {}
    <3>1. FirstOf(FreeIn(h, PermBlocks)) \in PermBlocks
      BY <2>2, BlockSets, FirstOfLeast DEF FreeIn
    <3> QED BY <1>1, <2>2, <3>1, BlockSets DEF AllocPermanent
  <2> QED BY <2>1, <2>2
<1>4. Honest(Var2Permanent(h, b))
  BY DEF Var2Permanent, Done, Failed, Running, Honest
<1> QED BY <1>1, <1>2, <1>3, <1>4

\* alloc_memory stops a program for lack of memory only when there is no hole of
\* the size asked for, whatever was allocated, deleted and collected before.
THEOREM OutOfMemoryHolds == Spec => OutOfMemoryIsReal
<1> DEFINE Real == halted = Running /\ halted'.code = "OUT_OF_MEMORY" =>
                     \A a \in HeapBegin .. HeapEnd - halted'.size : ~IsFree(heap', a, halted'.size)
<1>1. ASSUME NEW r, Honest(r), Sound(r), Return(r) PROVE Real
  <2>1. CASE r.error = Running
    BY <1>1, <2>1 DEF Return, Running
  <2>2. CASE r.error # Running
    <3>1. heap' = ResetMemory(r.heap) /\ halted' = r.error
      BY <1>1, <2>2 DEF Return
    <3>2. heap'.ptr = r.heap.ptr /\ heap'.size = r.heap.size
      BY <1>1, <3>1 DEF ResetMemory, Sound, Good, HeapType
    <3>3. \A a, n : IsFree(heap', a, n) <=> IsFree(r.heap, a, n)
      BY <3>2 DEF IsFree, Uses, BlockEnd
    <3> QED BY <1>1, <3>1, <3>3 DEF Honest
  <2> QED BY <2>1, <2>2
<1>2. ASSUME IInv, Next PROVE Real
  <2> SUFFICES ASSUME halted = Running PROVE Real
    OBVIOUS
  <2>1. Good(heap) /\ heap.begin = HeapBegin /\ Sizes \subseteq Nat
    BY <1>2, MemoryAssumption DEF IInv
  <2> HIDE DEF Real
  <2>2. CASE alloc_temp
    BY <1>1, <2>1, <2>2, BlockSets, MemoryAssumption, CallsHonest, AllocTempSound DEF alloc_temp, Blocks
  <2>3. CASE alloc_memory
    BY <1>1, <2>1, <2>3, BlockSets, CallsHonest, AllocSound DEF alloc_memory
  <2>4. CASE machikania_malloc
    BY <1>1, <2>1, <2>4, BlockSets, MemoryAssumption, CallsHonest, AllocPermanentSound DEF machikania_malloc, Blocks
  <2>5. CASE var2permanent
    BY <1>1, <2>1, <2>5, BlockSets, CallsHonest, Var2PermanentSound, MemoryAssumption DEF var2permanent
  <2>6. CASE delete_memory \/ move_from_temp \/ garbage_collection \/ r0_to_variable \/ reset_memory \/ init_memory
    BY <2>6 DEF delete_memory, move_from_temp, garbage_collection, r0_to_variable, reset_memory,
                init_memory, Running, Real
  <2> QED BY <1>2, <2>2, <2>3, <2>4, <2>5, <2>6 DEF Next
<1>3. IInv /\ [Next]_vars => [Real]_vars
  BY <1>2
<1> QED BY <1>3, Invariance, PTL DEF Spec, OutOfMemoryIsReal
-----------------------------------------------------------------------------
(* The refinement of HeapSpec.                                             *)

Words == HeapBegin .. HeapEnd - 1
Run(a, n) == a .. a + n - 1
FreeBut(h, b, a, n) ==
  Run(a, n) \subseteq Words /\ \A c \in Blocks \ {b} : Owned(h)[c] \cap Run(a, n) = {}

\* What a call does to the words that the blocks own.
Same(h, g) == Owned(g) = Owned(h)
Gave(h, g, b) == Owned(g) = [Owned(h) EXCEPT ![b] = {}]
Took(h, g, b) ==
  \E n \in Sizes, a \in Words : FreeBut(h, b, a, n) /\ Owned(g) = [Owned(h) EXCEPT ![b] = Run(a, n)]
Passed(h, g, b, c) == Owned(g) = [Owned(h) EXCEPT ![c] = Owned(h)[b], ![b] = {}]

\* The answers of alloc_memory for block b.
Granted(h, r, b) == r.error = Running /\ (Took(h, r.heap, b) \/ Gave(h, r.heap, b))
NoMemory(h, r, b) ==
  /\ r.error.code = "OUT_OF_MEMORY" /\ Gave(h, r.heap, b)
  /\ \E n \in Sizes : \A a \in Words : ~FreeBut(h, b, a, n)
NoBlock(h, r, S, code) ==
  r.error.code = code /\ Same(h, r.heap) /\ \A b \in S : Owned(h)[b] # {}

\* A block owns words when it uses some, and two records with the same areas own
\* the same.
LEMMA OwnedWords ==
  ASSUME NEW h \in HeapType
  PROVE  /\ Owned(h) = [b \in Blocks |-> Owned(h)[b]]
         /\ \A b \in Blocks : /\ Owned(h)[b] = Run(h.ptr[b], h.size[b])
                              /\ Owned(h)[b] = {} <=> ~Uses(h, b)
BY Typed DEF Owned, Uses, BlockEnd, Run

\* Two areas that do not overlap share no word, and conversely.
LEMMA ApartRuns ==
  ASSUME NEW a \in Nat, NEW m \in Nat, NEW p \in Nat, NEW n \in Nat
  PROVE  /\ a + m <= p \/ p + n <= a => Run(a, m) \cap Run(p, n) = {}
         /\ Run(a, m) \cap Run(p, n) = {} /\ m # 0 /\ n # 0 => a + m <= p \/ p + n <= a
<1>1. ASSUME a + m <= p \/ p + n <= a PROVE Run(a, m) \cap Run(p, n) = {}
  BY <1>1 DEF Run
<1>2. ASSUME ~(a + m <= p), ~(p + n <= a), m # 0, n # 0 PROVE Run(a, m) \cap Run(p, n) # {}
  <2>1. CASE a <= p
    <3>1. p \in Run(a, m) /\ p \in Run(p, n)
      BY <1>2, <2>1 DEF Run
    <3> QED BY <3>1
  <2>2. CASE ~(a <= p)
    <3>1. a \in Run(a, m) /\ a \in Run(p, n)
      BY <1>2, <2>2 DEF Run
    <3> QED BY <3>1
  <2> QED BY <2>1, <2>2
<1> QED BY <1>1, <1>2

\* Words that no block in use covers belong to nobody.
LEMMA FreeRun ==
  ASSUME NEW h \in HeapType, NEW a \in Nat, NEW n \in Nat, n # 0, NEW b \in Blocks, ~Uses(h, b)
  PROVE  HeapBegin <= a /\ a + n <= HeapEnd /\ IsFree(h, a, n) <=> FreeBut(h, b, a, n)
<1> USE BlockSets
<1>t. \A c \in Blocks : h.ptr[c] \in Nat /\ h.size[c] \in Nat
  BY Typed
<1>1. HeapBegin <= a /\ a + n <= HeapEnd <=> Run(a, n) \subseteq Words
  <2>1. a \in Run(a, n) /\ a + n - 1 \in Run(a, n)
    BY DEF Run
  <2>2. ASSUME Run(a, n) \subseteq Words PROVE HeapBegin <= a /\ a + n <= HeapEnd
    <3>1. a \in Words /\ a + n - 1 \in Words
      BY <2>1, <2>2
    <3> QED BY <3>1 DEF Words
  <2> QED BY <2>2 DEF Run, Words
<1>2. ASSUME NEW c \in Blocks, Uses(h, c)
      PROVE  (a + n <= h.ptr[c] \/ BlockEnd(h, c) <= a) <=> Owned(h)[c] \cap Run(a, n) = {}
  <2>1. h.size[c] # 0 /\ Owned(h)[c] = Run(h.ptr[c], h.size[c]) /\ BlockEnd(h, c) = h.ptr[c] + h.size[c]
    BY <1>2, OwnedWords DEF Uses, BlockEnd
  <2>2. PICK q \in Nat, m \in Nat : q = h.ptr[c] /\ m = h.size[c]
    BY <1>t
  <2>3. /\ q + m <= a \/ a + n <= q => Run(q, m) \cap Run(a, n) = {}
        /\ Run(q, m) \cap Run(a, n) = {} /\ m # 0 /\ n # 0 => q + m <= a \/ a + n <= q
    BY ApartRuns
  <2> QED BY <2>1, <2>2, <2>3
<1>3. \A c \in Blocks : ~Uses(h, c) => Owned(h)[c] \cap Run(a, n) = {}
  BY OwnedWords
<1>4. IsFree(h, a, n) <=> \A c \in Blocks \ {b} : Owned(h)[c] \cap Run(a, n) = {}
  BY <1>2, <1>3 DEF IsFree
<1> QED BY <1>1, <1>4 DEF FreeBut

\* Two heaps in which only block b differs.
LEMMA OneChanged ==
  ASSUME NEW h \in HeapType, NEW g \in HeapType, NEW b \in Blocks,
         \A i \in Blocks \ {b} : Owned(g)[i] = Owned(h)[i]
  PROVE  Owned(g) = [Owned(h) EXCEPT ![b] = Owned(g)[b]]
BY OwnedWords

\* alloc_memory's searches grant free words, or there are none.
LEMMA PlaceKeepsPromise ==
  ASSUME \A n \in Sizes : n < SizeMod,
         NEW h, Good(h), h.begin = HeapBegin, NEW n \in Sizes, NEW b \in Blocks, ~Uses(h, b)
  PROVE  Granted(h, Place(h, n, b), b) \/ NoMemory(h, Place(h, n, b), b)
<1>t. h \in HeapType /\ n \in Nat /\ n % SizeMod = n
  BY MemoryAssumption DEF Good
<1>0. Owned(h)[b] = {}
  BY <1>t, OwnedWords
<1>1. CASE HasRoom(h, n)
  <2> DEFINE a == Candidate(h, n)
             g == [h EXCEPT !.ptr[b] = a, !.size[b] = n, !.del = DelAfterAlloc(h, n), !.last = b]
  <2>1. a \in Nat /\ (n # 0 => HeapBegin <= a /\ a + n <= HeapEnd /\ IsFree(h, a, n))
    BY <1>t, <1>1, CandidateFree
  <2>2. Place(h, n, b) = Done(g)
    BY <1>t, <1>1 DEF Place
  <2>3. g \in HeapType /\ \A i \in Blocks : /\ g.ptr[i] = IF i = b THEN a ELSE h.ptr[i]
                                            /\ g.size[i] = IF i = b THEN n ELSE h.size[i]
    <3>1. DelAfterAlloc(h, n) \in Seq(Area)
      BY <1>t, DelAfterAllocFree
    <3> HIDE DEF a
    <3> QED BY <1>t, <2>1, <3>1 DEF HeapType
  <2> HIDE DEF a, g
  <2>4. Owned(g)[b] = Run(a, n) /\ \A i \in Blocks \ {b} : Owned(g)[i] = Owned(h)[i]
    BY <1>t, <2>3, OwnedWords
  <2>5. Owned(g) = [Owned(h) EXCEPT ![b] = Run(a, n)]
    BY <1>t, <2>3, <2>4, OneChanged
  <2>6. CASE n = 0
    <3>1. Run(a, n) = {}
      BY <2>1, <2>6 DEF Run
    <3> QED BY <2>2, <2>5, <3>1 DEF Granted, Gave, Done
  <2>7. CASE n # 0
    <3>1. FreeBut(h, b, a, n) /\ a \in Words
      <4>1. FreeBut(h, b, a, n)
        BY <1>t, <2>1, <2>7, FreeRun
      <4>2. a \in Words
        BY <1>t, <2>1, <2>7, BlockSets DEF Words
      <4> QED BY <4>1, <4>2
    <3> QED BY <2>2, <2>5, <3>1 DEF Granted, Took, Done
  <2> QED BY <2>6, <2>7
<1>2. CASE ~HasRoom(h, n)
  <2> DEFINE g == [h EXCEPT !.del = << >>]
  <2>1. g \in HeapType /\ g.ptr = h.ptr /\ g.size = h.size
    BY <1>t, EmptySeq DEF HeapType
  <2>2. Place(h, n, b) = Failed("OUT_OF_MEMORY", n, g)
    BY <1>2 DEF Place
  <2> HIDE DEF g
  <2>3. Owned(g) = [Owned(h) EXCEPT ![b] = {}]
    BY <1>t, <1>0, <2>1, OwnedWords, OneChanged
  <2>4. n # 0
    <3>1. AfterLast(h) <= HeapEnd
      <4>1. Ends(h) \subseteq Nat /\ \A a \in Ends(h) : a <= HeapEnd
        BY BlockSets DEF Good, HeapType, Ends, Bounded, BlockEnd, Uses
      <4>2. HeapBegin \in Ends(h)
        BY DEF Ends
      <4>3. \E m \in Ends(h) : \A i \in Ends(h) : i <= m
        <5> HIDE DEF Ends
        <5> QED BY <4>1, <4>2, BlockSets, BoundedGreatest
      <4> QED BY <4>1, <4>3 DEF AfterLast
    <3>2. AfterLast(h) \in Nat
      BY AfterLastIsLast
    <3> QED BY <1>2, <3>1, <3>2 DEF HasRoom
  <2>5. ASSUME NEW a \in Words PROVE ~FreeBut(h, b, a, n)
    <3>1. a \in Nat
      BY BlockSets DEF Words
    <3> QED BY <1>t, <1>2, <2>4, <3>1, NoHole, FreeRun
  <2> QED BY <2>2, <2>3, <2>5 DEF NoMemory, Gave, Failed
<1> QED BY <1>1, <1>2

\* alloc_memory for a temporary: the collection on the first call takes no words.
LEMMA AllocTempKeepsPromise ==
  ASSUME \A n \in Sizes : n < SizeMod,
         NEW h, Good(h), h.begin = HeapBegin, h.gc => \A t \in TempBlocks : ~Uses(h, t),
         NEW n \in Sizes
  PROVE  LET r == AllocTemp(h, n) IN
         NoBlock(h, r, TempBlocks, "NO_TEMP_VAR") \/ \E b \in Blocks : Granted(h, r, b) \/ NoMemory(h, r, b)
<1> DEFINE f == CollectFlagged(h)
<1>t. h \in HeapType
  BY DEF Good
<1>1. Good(f) /\ f.begin = HeapBegin /\ f \in HeapType
  BY CollectGood DEF Good
<1>2. Owned(f) = Owned(h)
  <2>1. \A i \in Blocks : Owned(f)[i] = Owned(h)[i]
    <3> SUFFICES ASSUME NEW i \in Blocks PROVE Owned(f)[i] = Owned(h)[i]
      OBVIOUS
    <3>1. CASE Uses(h, i)
      <4>1. f.ptr[i] = h.ptr[i] /\ f.size[i] = h.size[i]
        BY <3>1, CollectGood
      <4> HIDE DEF f
      <4> QED BY <1>t, <1>1, <4>1, OwnedWords
    <3>2. CASE ~Uses(h, i)
      <4>1. ~Uses(f, i)
        BY <3>2, CollectGood
      <4> HIDE DEF f
      <4> QED BY <1>t, <1>1, <3>2, <4>1, OwnedWords
    <3> QED BY <3>1, <3>2
  <2> HIDE DEF f
  <2> QED BY <1>t, <1>1, <2>1, OwnedWords
<1>3. CASE FreeIn(f, TempBlocks) = {}
  <2>1. AllocTemp(h, n) = Failed("NO_TEMP_VAR", n, f)
    BY <1>3 DEF AllocTemp
  <2>2. \A b \in TempBlocks : Owned(f)[b] # {}
    <3> HIDE DEF f
    <3> QED BY <1>1, <1>3, OwnedWords, BlockSets DEF FreeIn
  <2> HIDE DEF f
  <2> QED BY <1>2, <2>1, <2>2 DEF NoBlock, Same, Failed
<1>4. CASE FreeIn(f, TempBlocks) # {}
  <2> DEFINE b == FirstOf(FreeIn(f, TempBlocks))
  <2>1. b \in Blocks /\ ~Uses(f, b)
    BY <1>4, BlockSets, FirstOfLeast DEF FreeIn
  <2>2. AllocTemp(h, n) = Place(f, n, b)
    BY <1>4 DEF AllocTemp
  <2> HIDE DEF f, b
  <2>3. Granted(f, Place(f, n, b), b) \/ NoMemory(f, Place(f, n, b), b)
    BY <1>1, <2>1, PlaceKeepsPromise
  <2>4. Granted(h, Place(f, n, b), b) \/ NoMemory(h, Place(f, n, b), b)
    BY <1>2, <2>3 DEF Granted, NoMemory, Took, Gave, FreeBut
  <2> QED BY <2>1, <2>2, <2>4
<1> QED BY <1>3, <1>4

\* A block that gives its words up, and one that keeps the first of them.
LEMMA Shrunk ==
  ASSUME NEW h, Good(h), NEW b \in Blocks, NEW n \in Nat, n <= h.size[b]
  PROVE  LET g == [h EXCEPT !.size[b] = n] IN
         /\ g \in HeapType /\ Owned(g) = [Owned(h) EXCEPT ![b] = Run(h.ptr[b], n)]
         /\ n = 0 => Gave(h, g, b)
         /\ n # 0 => FreeBut(h, b, h.ptr[b], n) /\ h.ptr[b] \in Words
<1> DEFINE g == [h EXCEPT !.size[b] = n]
<1>t. h \in HeapType
  BY DEF Good
<1>1. g \in HeapType /\ \A i \in Blocks : /\ g.ptr[i] = h.ptr[i]
                                          /\ g.size[i] = IF i = b THEN n ELSE h.size[i]
  BY <1>t DEF HeapType
<1> HIDE DEF g
<1>2. Owned(g)[b] = Run(h.ptr[b], n) /\ \A i \in Blocks \ {b} : Owned(g)[i] = Owned(h)[i]
  BY <1>t, <1>1, OwnedWords
<1>3. Owned(g) = [Owned(h) EXCEPT ![b] = Run(h.ptr[b], n)]
  BY <1>t, <1>1, <1>2, OneChanged
<1>4. n = 0 => Run(h.ptr[b], n) = {}
  BY <1>t, Typed DEF Run
<1>5. ASSUME n # 0 PROVE FreeBut(h, b, h.ptr[b], n) /\ h.ptr[b] \in Words
  <2>1. PICK p \in Nat, m \in Nat : p = h.ptr[b] /\ m = h.size[b] /\ n <= m /\ m # 0
    BY <1>t, <1>5, Typed
  <2>2. HeapBegin <= p /\ p + m <= HeapEnd /\ Uses(h, b)
    BY <2>1 DEF Good, Bounded, Uses, BlockEnd
  <2>3. Run(p, n) \subseteq Words /\ p \in Words
    BY <1>5, <2>1, <2>2, BlockSets DEF Run, Words
  <2>4. ASSUME NEW c \in Blocks \ {b} PROVE Owned(h)[c] \cap Run(p, n) = {}
    <3>1. CASE ~Uses(h, c)
      BY <1>t, <3>1, OwnedWords
    <3>2. CASE Uses(h, c)
      <4>1. PICK q \in Nat, k \in Nat : q = h.ptr[c] /\ k = h.size[c]
        BY <1>t, Typed
      <4>2. q + k <= p \/ p + m <= q
        BY <2>1, <2>2, <3>2, <4>1 DEF Good, Apart, Disjoint
      <4>3. q + k <= p \/ p + n <= q
        BY <2>1, <4>2
      <4> QED BY <1>t, <4>1, <4>3, OwnedWords, ApartRuns
    <3> QED BY <3>1, <3>2
  <2> QED BY <2>1, <2>3, <2>4 DEF FreeBut
<1>6. n = 0 => Gave(h, g, b)
  BY <1>3, <1>4 DEF Gave
<1> QED BY <1>1, <1>3, <1>5, <1>6 DEF g

\* alloc_memory for a variable or a permanent block.
LEMMA AllocKeepsPromise ==
  ASSUME \A n \in Sizes : n < SizeMod,
         NEW h, Good(h), h.begin = HeapBegin, NEW n \in Sizes, NEW b \in Blocks
  PROVE  Granted(h, Alloc(h, n, b), b) \/ NoMemory(h, Alloc(h, n, b), b)
<1>t. h \in HeapType /\ n \in Nat /\ h.size[b] \in Nat
  BY MemoryAssumption, Typed DEF Good
<1>1. CASE n <= h.size[b] /\ InHeap(h, h.ptr[b])
  <2>1. Alloc(h, n, b) = Done([h EXCEPT !.size[b] = n])
    BY <1>1 DEF Alloc
  <2>2. Took(h, [h EXCEPT !.size[b] = n], b) \/ Gave(h, [h EXCEPT !.size[b] = n], b)
    BY <1>t, <1>1, Shrunk DEF Took
  <2> QED BY <2>1, <2>2 DEF Granted, Done
<1>2. CASE ~(n <= h.size[b] /\ InHeap(h, h.ptr[b]))
  <2> DEFINE f == [h EXCEPT !.size[b] = 0]
  <2>0. 0 \in Nat /\ 0 <= h.size[b] /\ 0 = 0
    BY <1>t
  <2>1. Gave(h, f, b) /\ f \in HeapType
    BY <2>0, Shrunk, Zenon
  <2>2. /\ f.del = h.del /\ f.begin = h.begin
        /\ \A i \in Blocks : /\ f.ptr[i] = h.ptr[i]
                             /\ f.size[i] = IF i = b THEN 0 ELSE h.size[i]
    BY <1>t DEF HeapType
  <2>3. Alloc(h, n, b) = Place(f, n, b)
    BY <1>2 DEF Alloc
  <2> HIDE DEF f
  <2>4. Good(f) /\ ~Uses(f, b)
    BY <1>t, <2>1, <2>2, Typed, ShrinkGood DEF Uses
  <2>5. Granted(f, Place(f, n, b), b) \/ NoMemory(f, Place(f, n, b), b)
    BY <2>2, <2>4, PlaceKeepsPromise
  <2>6. \A c \in Blocks \ {b} : Owned(f)[c] = Owned(h)[c]
    BY <2>1, OwnedWords, <1>t DEF Gave
  <2>7. \A a, k : FreeBut(f, b, a, k) <=> FreeBut(h, b, a, k)
    BY <2>6 DEF FreeBut
  <2>8. \A s : [Owned(f) EXCEPT ![b] = s] = [Owned(h) EXCEPT ![b] = s]
    BY <1>t, <2>1, OwnedWords DEF Gave
  <2>9. Granted(h, Place(f, n, b), b) \/ NoMemory(h, Place(f, n, b), b)
    BY <2>5, <2>7, <2>8 DEF Granted, NoMemory, Took, Gave
  <2> QED BY <2>3, <2>9
<1> QED BY <1>1, <1>2

\* At most one block in use starts at an address.
LEMMA OneHolder ==
  ASSUME NEW h, Good(h), NEW p, NEW b \in Holding(h, p), NEW c \in Holding(h, p)
  PROVE  b = c
<1> SUFFICES ASSUME b # c PROVE FALSE
  OBVIOUS
<1>1. PICK q \in Nat, m \in Nat, k \in Nat :
        q = h.ptr[b] /\ q = h.ptr[c] /\ m = h.size[b] /\ k = h.size[c] /\ m # 0 /\ k # 0
  BY Typed DEF Good, Holding, Uses
<1>2. q + m <= q \/ q + k <= q
  BY <1>1 DEF Good, Apart, Holding, Disjoint
<1> QED BY <1>1, <1>2

\* When only the blocks of a set that has at most one element give up their
\* words, one block does, or none.
LEMMA OneGives ==
  ASSUME NEW h, Good(h), NEW g \in HeapType, NEW p, NEW S \in SUBSET Holding(h, p),
         \A i \in Blocks : Owned(g)[i] = IF i \in S THEN {} ELSE Owned(h)[i]
  PROVE  Same(h, g) \/ \E b \in Blocks : Gave(h, g, b)
<1>t. h \in HeapType /\ S \subseteq Blocks
  BY DEF Good, Holding
<1>1. CASE S = {}
  BY <1>t, <1>1, OwnedWords DEF Same
<1>2. CASE S # {}
  <2>1. PICK b \in S : TRUE
    BY <1>2
  <2>2. \A i \in S : i = b
    BY <2>1, OneHolder
  <2>3. b \in Blocks /\ Owned(g)[b] = {} /\ \A i \in Blocks \ {b} : Owned(g)[i] = Owned(h)[i]
    BY <1>t, <2>1, <2>2
  <2>4. Owned(g) = [Owned(h) EXCEPT ![b] = {}]
    BY <1>t, <2>3, OneChanged
  <2> QED BY <2>3, <2>4 DEF Gave
<1> QED BY <1>1, <1>2

\* delete_memory takes words from one block at most.
LEMMA DeleteKeepsPromise ==
  ASSUME NEW h, Good(h), NEW p \in Nat
  PROVE  Same(h, Delete(h, p)) \/ \E b \in Blocks : Gave(h, Delete(h, p), b)
<1> DEFINE g == Delete(h, p)
<1>t. h \in HeapType /\ g \in HeapType
  BY DeleteGood DEF Good
<1>1. CASE p = NULL
  BY <1>1 DEF Delete, Same
<1>2. CASE p # NULL
  <2>1. \A i \in Blocks : /\ g.ptr[i] = IF i \in Holding(h, p) THEN NULL ELSE h.ptr[i]
                         /\ g.size[i] = IF i \in Holding(h, p) THEN 0 ELSE h.size[i]
    BY <1>2, <1>t DEF Delete, HeapType
  <2> HIDE DEF g
  <2>2. \A i \in Blocks : Owned(g)[i] = IF i \in Holding(h, p) THEN {} ELSE Owned(h)[i]
    <3>1. ASSUME NEW i \in Holding(h, p), i \in Blocks PROVE Owned(g)[i] = {}
      BY <1>t, <2>1, <3>1, OwnedWords DEF Uses
    <3>2. ASSUME NEW i \in Blocks, i \notin Holding(h, p) PROVE Owned(g)[i] = Owned(h)[i]
      BY <1>t, <2>1, <3>2, OwnedWords
    <3> QED BY <3>1, <3>2
  <2>3. Same(h, g) \/ \E b \in Blocks : Gave(h, g, b)
    BY <1>t, <2>2, OneGives
  <2> QED BY <2>3 DEF g
<1> QED BY <1>1, <1>2

\* garbage_collection takes words from one temporary at most.
LEMMA CollectKeepsPromise ==
  ASSUME NEW h, Good(h), NEW p
  PROVE  Same(h, Collect(h, p)) \/ \E b \in Blocks : Gave(h, Collect(h, p), b)
<1> DEFINE g == [h EXCEPT !.size = [i \in Blocks |-> IF i \in HoldingTemps(h, p) THEN 0 ELSE h.size[i]]]
<1>1. Collect(h, p) = h \/ Collect(h, p) = g
  BY DEF Collect
<1>2. g \in HeapType /\ \A i \in Blocks : /\ g.ptr[i] = h.ptr[i]
                                          /\ g.size[i] = IF i \in HoldingTemps(h, p) THEN 0 ELSE h.size[i]
  BY DEF Good, HeapType
<1> HIDE DEF g
<1>3. \A i \in Blocks : Owned(g)[i] = IF i \in HoldingTemps(h, p) THEN {} ELSE Owned(h)[i]
  <2>1. ASSUME NEW i \in HoldingTemps(h, p), i \in Blocks PROVE Owned(g)[i] = {}
    BY <1>2, <2>1, OwnedWords DEF Uses
  <2>2. ASSUME NEW i \in Blocks, i \notin HoldingTemps(h, p) PROVE Owned(g)[i] = Owned(h)[i]
    BY <1>2, <2>2, OwnedWords DEF Good
  <2> QED BY <2>1, <2>2
<1>4. HoldingTemps(h, p) \in SUBSET Holding(h, p)
  BY DEF HoldingTemps
<1>5. Same(h, g) \/ \E b \in Blocks : Gave(h, g, b)
  BY <1>2, <1>3, <1>4, OneGives
<1> QED BY <1>1, <1>5 DEF Same

\* Transfer hands the words of a block over, whole.
LEMMA TransferKeepsPromise ==
  ASSUME NEW h \in HeapType, NEW b \in Blocks, NEW c \in Blocks, b # c
  PROVE  Passed(h, Transfer(h, b, c), b, c)
<1> DEFINE g == Transfer(h, b, c)
<1>1. g \in HeapType
      /\ \A i \in Blocks : /\ g.ptr[i] = IF i = c THEN h.ptr[b] ELSE h.ptr[i]
                          /\ g.size[i] = IF i = c THEN h.size[b] ELSE IF i = b THEN 0 ELSE h.size[i]
  BY DEF Transfer, HeapType
<1> HIDE DEF g
<1>2. /\ Owned(g)[c] = Owned(h)[b] /\ Owned(g)[b] = {}
      /\ \A i \in Blocks \ {b, c} : Owned(g)[i] = Owned(h)[i]
  BY <1>1, OwnedWords DEF Uses
<1>3. Passed(h, g, b, c)
  BY <1>1, <1>2, OwnedWords DEF Passed
<1> QED BY <1>3 DEF g

\* Until the first collection no temporary is in use.
Lazy(h) == h.gc => \A t \in TempBlocks : ~Uses(h, t)

\* The inductive invariant of the refinement: the program runs or has a reason
\* not to, and until the first collection no temporary is in use.
PInv ==
  /\ IInv
  /\ halted.code = "RUNNING" => halted = Running
  /\ Lazy(heap)

\* The searches of alloc_memory do not look at the flag.
LEMMA PlaceLazy ==
  ASSUME NEW h \in HeapType, NEW n, NEW b, Lazy(h), b \in TempBlocks => ~h.gc
  PROVE  Lazy(Place(h, n, b).heap)
<1>1. Place(h, n, b).heap.gc = h.gc
      /\ \A t \in TempBlocks \ {b} : Place(h, n, b).heap.size[t] = h.size[t]
  BY DEF Place, Done, Failed, HeapType
<1> QED BY <1>1 DEF Lazy, Uses

\* No call raises the flag again, or uses a temporary before the collection.
LEMMA CallsLazy ==
  ASSUME NEW h, Good(h), Lazy(h), NEW n, NEW p
  PROVE  /\ Lazy(AllocTemp(h, n).heap)
         /\ \A b \in NamedBlocks \cup PermBlocks :
              Lazy(Alloc(h, n, b).heap) /\ Lazy(Var2Permanent(h, b).heap)
         /\ Lazy(AllocPermanent(h, n).heap)
         /\ Lazy(Delete(h, p)) /\ Lazy(Collect(h, p)) /\ Lazy(ResetMemory(h))
         /\ \A b \in Blocks, c \in NamedBlocks \cup PermBlocks : Lazy(Transfer(h, b, c))
<1>t. h \in HeapType
  BY DEF Good
<1>b. \A b \in NamedBlocks \cup PermBlocks : b \in Blocks /\ b \notin TempBlocks
  BY MemoryAssumption DEF NamedBlocks, PermBlocks, TempBlocks, Blocks
<1>1. Lazy(AllocTemp(h, n).heap)
  <2> DEFINE f == CollectFlagged(h)
  <2>1. f \in HeapType /\ ~f.gc
    BY CollectGood DEF Good
  <2> HIDE DEF f
  <2>2. \A b : Lazy(Place(f, n, b).heap)
    BY <2>1, PlaceLazy DEF Lazy
  <2>3. Lazy(f)
    BY <2>1 DEF Lazy
  <2> QED BY <2>2, <2>3 DEF AllocTemp, Failed, f
<1>2. ASSUME NEW b \in NamedBlocks \cup PermBlocks PROVE Lazy(Alloc(h, n, b).heap)
  <2>1. CASE n <= h.size[b] /\ InHeap(h, h.ptr[b])
    <3>1. Alloc(h, n, b).heap = [h EXCEPT !.size[b] = n]
      BY <2>1 DEF Alloc, Done
    <3>2. \A t \in TempBlocks : [h EXCEPT !.size[b] = n].size[t] = h.size[t]
      BY <1>t, <1>b DEF HeapType
    <3>3. [h EXCEPT !.size[b] = n].gc = h.gc
      BY <1>t DEF HeapType
    <3> QED BY <3>1, <3>2, <3>3 DEF Lazy, Uses
  <2>2. CASE ~(n <= h.size[b] /\ InHeap(h, h.ptr[b]))
    <3> DEFINE f == [h EXCEPT !.size[b] = 0]
    <3>1. f \in HeapType /\ f.gc = h.gc /\ \A t \in TempBlocks : f.size[t] = h.size[t]
      BY <1>t, <1>b, BlockSets DEF HeapType
    <3>2. Alloc(h, n, b) = Place(f, n, b)
      BY <2>2 DEF Alloc
    <3> HIDE DEF f
    <3>3. Lazy(f)
      BY <3>1 DEF Lazy, Uses
    <3> QED BY <1>b, <3>1, <3>2, <3>3, PlaceLazy
  <2> QED BY <2>1, <2>2
<1>3. ASSUME NEW b \in Blocks, NEW c \in NamedBlocks \cup PermBlocks PROVE Lazy(Transfer(h, b, c))
  <2>1. Transfer(h, b, c).gc = h.gc
        /\ \A t \in TempBlocks : Transfer(h, b, c).size[t] = IF t = b THEN 0 ELSE h.size[t]
    BY <1>t, <1>b, BlockSets DEF Transfer, HeapType
  <2> QED BY <2>1 DEF Lazy, Uses
<1>4. ASSUME NEW b \in NamedBlocks \cup PermBlocks PROVE Lazy(Var2Permanent(h, b).heap)
  <2>1. Lazy([h EXCEPT !.size[b] = 0])
    <3>1. [h EXCEPT !.size[b] = 0].gc = h.gc
          /\ \A t \in TempBlocks : [h EXCEPT !.size[b] = 0].size[t] = h.size[t]
      BY <1>t, <1>b DEF HeapType
    <3> QED BY <3>1 DEF Lazy, Uses
  <2>2. FreeIn(h, PermBlocks) # {} => FirstOf(FreeIn(h, PermBlocks)) \in PermBlocks
    BY BlockSets, FirstOfLeast DEF FreeIn
  <2>3. FreeIn(h, PermBlocks) # {} => Lazy(Transfer(h, b, FirstOf(FreeIn(h, PermBlocks))))
    BY <1>3, <1>b, <2>2
  <2> QED BY <2>1, <2>3 DEF Var2Permanent, Done, Failed
<1>5. Lazy(AllocPermanent(h, n).heap)
  <2>1. FreeIn(h, PermBlocks) # {} => FirstOf(FreeIn(h, PermBlocks)) \in PermBlocks
    BY BlockSets, FirstOfLeast DEF FreeIn
  <2> QED BY <1>2, <2>1 DEF AllocPermanent, Failed
<1>6. Lazy(Delete(h, p))
  <2>1. CASE p = NULL
    BY <2>1 DEF Delete
  <2>2. CASE p # NULL
    <3>1. Delete(h, p).gc = h.gc
          /\ \A t \in TempBlocks : Delete(h, p).size[t] = 0 \/ Delete(h, p).size[t] = h.size[t]
      BY <1>t, <2>2, BlockSets DEF Delete, HeapType
    <3> QED BY <3>1 DEF Lazy, Uses
  <2> QED BY <2>1, <2>2
<1>7. Lazy(Collect(h, p))
  <2> DEFINE g == [h EXCEPT !.size = [i \in Blocks |-> IF i \in HoldingTemps(h, p) THEN 0 ELSE h.size[i]]]
  <2>1. Collect(h, p) = h \/ Collect(h, p) = g
    BY DEF Collect
  <2>2. g.gc = h.gc /\ \A t \in TempBlocks : g.size[t] = 0 \/ g.size[t] = h.size[t]
    BY <1>t, BlockSets DEF HeapType
  <2> HIDE DEF g
  <2>3. Lazy(g)
    BY <2>2 DEF Lazy, Uses
  <2> QED BY <2>1, <2>3
<1>8. Lazy(ResetMemory(h))
  BY <1>t DEF ResetMemory, HeapType, Lazy, Uses
<1> QED BY <1>1, <1>2, <1>3, <1>4, <1>5, <1>6, <1>7, <1>8

\* Every step keeps it.
LEMMA FlagStays ==
  ASSUME PInv, [Next]_vars
  PROVE  PInv'
<1>1. IInv'
  BY NextKeeps DEF PInv
<1>2. (halted.code = "RUNNING" => halted = Running)'
  <2>1. ASSUME NEW r, Return(r), r.error = Running \/ r.error.code # "RUNNING"
        PROVE  (halted.code = "RUNNING" => halted = Running)'
    BY <2>1 DEF Return, Running
  <2>2. ASSUME NEW h, NEW n, NEW b
        PROVE  LET ok(r) == r.error = Running \/ r.error.code # "RUNNING" IN
               ok(AllocTemp(h, n)) /\ ok(Alloc(h, n, b)) /\ ok(AllocPermanent(h, n)) /\ ok(Var2Permanent(h, b))
    BY DEF AllocTemp, Alloc, AllocPermanent, Var2Permanent, Place, Done, Failed
  <2>3. CASE alloc_temp \/ alloc_memory \/ machikania_malloc \/ var2permanent
    BY <2>1, <2>2, <2>3 DEF alloc_temp, alloc_memory, machikania_malloc, var2permanent
  <2>4. CASE delete_memory \/ move_from_temp \/ garbage_collection \/ r0_to_variable \/ UNCHANGED vars
    BY <2>4 DEF delete_memory, move_from_temp, garbage_collection, r0_to_variable, vars, PInv
  <2>5. CASE reset_memory \/ init_memory
    BY <2>5 DEF reset_memory, init_memory, Running
  <2> QED BY <2>3, <2>4, <2>5 DEF Next
<1>3. Lazy(heap)'
  <2>1. ASSUME NEW r, Return(r), Good(r.heap), Lazy(r.heap) PROVE Lazy(heap)'
    <3>1. heap' = r.heap \/ heap' = ResetMemory(r.heap)
      BY <2>1 DEF Return
    <3>2. Lazy(ResetMemory(r.heap))
      BY <2>1, CallsLazy
    <3> QED BY <2>1, <3>1, <3>2 DEF Lazy, Uses
  <2>2. Good(heap) /\ Lazy(heap) /\ Sizes \subseteq Nat /\ (halted = Running => heap.begin = HeapBegin)
    BY MemoryAssumption DEF PInv, IInv
  <2>3. CASE alloc_temp
    BY <2>1, <2>2, <2>3, CallsLazy, AllocTempSound DEF alloc_temp, Sound
  <2>4. CASE alloc_memory
    BY <2>1, <2>2, <2>4, CallsLazy, AllocSound, BlockSets DEF alloc_memory, Sound
  <2>5. CASE machikania_malloc
    BY <2>1, <2>2, <2>5, CallsLazy, AllocPermanentSound DEF machikania_malloc, Sound
  <2>6. CASE var2permanent
    BY <2>1, <2>2, <2>6, CallsLazy, Var2PermanentSound DEF var2permanent, Sound
  <2>7. CASE delete_memory \/ garbage_collection \/ reset_memory
    <3>1. \A p : Lazy(Delete(heap, p)) /\ Lazy(Collect(heap, p)) /\ Lazy(ResetMemory(heap))
      BY <2>2, CallsLazy
    <3> QED BY <2>7, <3>1 DEF delete_memory, garbage_collection, reset_memory, Lazy, Uses
  <2>8. CASE move_from_temp
    <3>1. PICK b \in NamedBlocks, p \in 0 .. HeapEnd :
            HoldingTemps(heap, p) # {} /\ heap' = MoveFromTemp(heap, b, p)
      BY <2>8 DEF move_from_temp
    <3>2. FirstOf(HoldingTemps(heap, p)) \in Blocks
      <4>1. HoldingTemps(heap, p) \subseteq TempBlocks
        BY DEF HoldingTemps
      <4> QED BY <3>1, <4>1, BlockSets, FirstOfLeast
    <3>3. Lazy(MoveFromTemp(heap, b, p))
      BY <2>2, <3>2, CallsLazy DEF MoveFromTemp
    <3> QED BY <3>1, <3>3 DEF Lazy, Uses
  <2>9. CASE r0_to_variable
    <3>1. PICK b \in NamedBlocks, v \in 0 .. HeapEnd : heap' = StoreInteger(heap, b, v)
      BY <2>9 DEF r0_to_variable
    <3>2. heap \in HeapType
      BY <2>2 DEF Good
    <3>3. heap'.gc = heap.gc /\ \A t \in TempBlocks : heap'.size[t] = 0 \/ heap'.size[t] = heap.size[t]
      BY <3>1, <3>2, BlockSets DEF StoreInteger, HeapType
    <3> QED BY <2>2, <3>3 DEF Lazy, Uses
  <2>10. CASE init_memory
    BY <2>10, BlockSets DEF init_memory, InitMemory, Lazy, Uses
  <2>11. CASE UNCHANGED vars
    BY <2>2, <2>11 DEF vars, Lazy, Uses
  <2> QED BY <2>3, <2>4, <2>5, <2>6, <2>7, <2>8, <2>9, <2>10, <2>11 DEF Next
<1> QED BY <1>1, <1>2, <1>3 DEF PInv

\* Every step of the heap is a step of its promise, or none, provided that the sizes
\* the program asks for fit in kmbasic_var_size.
LEMMA StepKeepsPromise ==
  ASSUME \A n \in Sizes : n < SizeMod, PInv, Next
  PROVE  Promise!Next \/ UNCHANGED Promise!vars
<1>1. Good(heap) /\ heap \in HeapType /\ Lazy(heap) /\ Sizes \subseteq Nat
      /\ (halted = Running => heap.begin = HeapBegin) /\ (halted.code = "RUNNING" <=> halted = Running)
  BY MemoryAssumption DEF PInv, IInv, Good, Running
<1> DEFINE Step == Promise!Next \/ UNCHANGED Promise!vars
<1> SUFFICES Step
  OBVIOUS
\* What each effect is in HeapSpec.
<1>2. ASSUME NEW b \in Blocks, Gave(heap, heap', b), halted'.code = halted.code PROVE Step
  <2>1. Promise!Release(b)
    BY <1>2 DEF Gave, Promise!Release
  <2> QED BY <2>1 DEF Promise!Next
<1>3. ASSUME Same(heap, heap'), halted'.code = halted.code PROVE Step
  BY <1>3 DEF Same, Promise!vars
<1>4. ASSUME NEW b \in Blocks, Took(heap, heap', b), halted = Running, halted' = Running PROVE Step
  <2>1. Promise!Acquire(b)
    BY <1>4 DEF Took, FreeBut, Words, Run, Promise!Acquire, Promise!FreeBut, Promise!Run, Running
  <2> QED BY <2>1 DEF Promise!Next
<1>5. ASSUME NEW b \in Blocks, NEW c \in Blocks, b # c, Passed(heap, heap', b, c),
             halted = Running, halted' = Running
      PROVE  Step
  <2>1. Promise!Pass(b, c)
    BY <1>5 DEF Passed, Promise!Pass, Running
  <2> QED BY <1>5, <2>1 DEF Promise!Next
<1>6. ASSUME NEW g, Same(g, heap'), NEW b \in Blocks, halted = Running, Gave(heap, g, b),
             halted'.code = "OUT_OF_MEMORY", \E n \in Sizes : \A a \in Words : ~FreeBut(heap, b, a, n)
      PROVE  Step
  <2>1. Promise!OutOfMemory(b)
    BY <1>6 DEF Gave, Same, FreeBut, Words, Run, Promise!OutOfMemory, Promise!FreeBut, Promise!Run, Running
  <2> QED BY <2>1 DEF Promise!Next
<1>7. ASSUME NEW g, Same(g, heap'), Same(heap, g), halted = Running,
             \/ halted'.code = "NO_TEMP_VAR" /\ \A b \in TempBlocks : Owned(heap)[b] # {}
             \/ halted'.code = "OBJ_TOO_MANY" /\ \A b \in PermBlocks : Owned(heap)[b] # {}
      PROVE  Step
  <2>1. \/ Promise!OutOfBlocks(TempBlocks, "NO_TEMP_VAR")
        \/ Promise!OutOfBlocks(PermBlocks, "OBJ_TOO_MANY")
    BY <1>7 DEF Same, Promise!OutOfBlocks, Running
  <2> QED BY <2>1 DEF Promise!Next
<1> HIDE DEF Step
<1>8. ASSUME NEW r, Return(r), r.heap \in HeapType, halted = Running,
             \/ \E b \in Blocks : Granted(heap, r, b) \/ NoMemory(heap, r, b)
             \/ NoBlock(heap, r, TempBlocks, "NO_TEMP_VAR")
             \/ NoBlock(heap, r, PermBlocks, "OBJ_TOO_MANY")
      PROVE  Step
  <2>1. CASE \E b \in Blocks : Granted(heap, r, b)
    <3>1. PICK b \in Blocks : Granted(heap, r, b)
      BY <2>1
    <3>2. heap' = r.heap /\ halted' = Running
      BY <1>8, <3>1 DEF Granted, Return
    <3>3. Took(heap, heap', b) \/ Gave(heap, heap', b)
      BY <3>1, <3>2 DEF Granted
    <3> QED BY <1>2, <1>4, <1>8, <3>2, <3>3
  <2>2. CASE ~ \E b \in Blocks : Granted(heap, r, b)
    <3>1. r.error # Running
      BY <1>8, <2>2 DEF NoMemory, NoBlock, Running
    <3>2. heap' = ResetMemory(r.heap) /\ halted' = r.error
      BY <1>8, <3>1 DEF Return
    <3>3. heap'.ptr = r.heap.ptr /\ heap'.size = r.heap.size
      BY <1>8, <3>2 DEF ResetMemory, HeapType
    <3>4. Same(r.heap, heap')
      BY <3>3 DEF Same, Owned, BlockEnd
    <3> QED BY <1>6, <1>7, <1>8, <2>2, <3>2, <3>4 DEF NoMemory, NoBlock
  <2> QED BY <2>1, <2>2
<1>9. CASE alloc_temp
  <2>1. PICK n \in Sizes : halted = Running /\ Return(AllocTemp(heap, n))
    BY <1>9 DEF alloc_temp
  <2>2. AllocTemp(heap, n).heap \in HeapType
    BY <1>1, <2>1, AllocTempSound DEF Sound, Good
  <2> QED BY <1>1, <1>8, <2>1, <2>2, AllocTempKeepsPromise DEF Lazy
<1>10. CASE alloc_memory
  <2>1. PICK n \in Sizes, b \in NamedBlocks \cup PermBlocks : halted = Running /\ Return(Alloc(heap, n, b))
    BY <1>10 DEF alloc_memory
  <2>2. b \in Blocks /\ Alloc(heap, n, b).heap \in HeapType
    BY <1>1, <2>1, AllocSound, BlockSets DEF Sound, Good
  <2> QED BY <1>1, <1>8, <2>1, <2>2, AllocKeepsPromise
<1>11. CASE machikania_malloc
  <2>1. PICK n \in Sizes : halted = Running /\ Return(AllocPermanent(heap, n))
    BY <1>11 DEF machikania_malloc
  <2>2. AllocPermanent(heap, n).heap \in HeapType
    BY <1>1, <2>1, AllocPermanentSound DEF Sound, Good
  <2>3. CASE FreeIn(heap, PermBlocks) = {}
    <3>1. NoBlock(heap, AllocPermanent(heap, n), PermBlocks, "OBJ_TOO_MANY")
      BY <1>1, <2>3, OwnedWords, BlockSets DEF AllocPermanent, Failed, NoBlock, Same, FreeIn
    <3> QED BY <1>8, <2>1, <2>2, <3>1
  <2>4. CASE FreeIn(heap, PermBlocks) # {}
    <3> DEFINE b == FirstOf(FreeIn(heap, PermBlocks))
    <3>1. b \in Blocks
      BY <2>4, BlockSets, FirstOfLeast DEF FreeIn
    <3>2. AllocPermanent(heap, n) = Alloc(heap, n, b)
      BY <2>4 DEF AllocPermanent
    <3> HIDE DEF b
    <3> QED BY <1>1, <1>8, <2>1, <2>2, <3>1, <3>2, AllocKeepsPromise
  <2> QED BY <2>3, <2>4
<1>12. CASE delete_memory
  <2>1. PICK p \in 0 .. HeapEnd : heap' = Delete(heap, p) /\ halted' = halted
    BY <1>12 DEF delete_memory
  <2>2. p \in Nat
    BY BlockSets
  <2> QED BY <1>1, <1>2, <1>3, <2>1, <2>2, DeleteKeepsPromise
<1>13. CASE move_from_temp
  <2>1. PICK b \in NamedBlocks, p \in 0 .. HeapEnd :
          /\ HoldingTemps(heap, p) # {} /\ heap' = MoveFromTemp(heap, b, p)
          /\ halted = Running /\ halted' = halted
    BY <1>13 DEF move_from_temp
  <2> DEFINE t == FirstOf(HoldingTemps(heap, p))
  <2>2. t \in TempBlocks
    <3>1. HoldingTemps(heap, p) \subseteq TempBlocks
      BY DEF HoldingTemps
    <3> QED BY <2>1, <3>1, BlockSets, FirstOfLeast
  <2>3. t # b /\ t \in Blocks /\ b \in Blocks
    BY <2>2, BlockSets, MemoryAssumption DEF NamedBlocks, TempBlocks
  <2>4. heap' = Transfer(heap, t, b)
    BY <2>1 DEF MoveFromTemp
  <2> HIDE DEF t
  <2> QED BY <1>1, <1>5, <2>1, <2>3, <2>4, TransferKeepsPromise
<1>14. CASE garbage_collection
  <2>1. PICK p \in 0 .. HeapEnd : heap' = Collect(heap, p) /\ halted' = halted
    BY <1>14 DEF garbage_collection
  <2> QED BY <1>1, <1>2, <1>3, <2>1, CollectKeepsPromise
<1>15. CASE var2permanent
  <2>1. PICK b \in NamedBlocks : halted = Running /\ Return(Var2Permanent(heap, b))
    BY <1>15 DEF var2permanent
  <2>2. b \in Blocks /\ heap.size[b] \in Nat
    BY <1>1, BlockSets, Typed
  <2>3. CASE Var2Permanent(heap, b) = Done(heap)
    BY <1>3, <2>1, <2>3 DEF Return, Done, Same
  <2>4. CASE Var2Permanent(heap, b) = Done([heap EXCEPT !.size[b] = 0])
    <3>1. Gave(heap, [heap EXCEPT !.size[b] = 0], b)
      <4>1. 0 \in Nat /\ 0 <= heap.size[b] /\ 0 = 0
        BY <2>2
      <4> QED BY <1>1, <2>2, <4>1, Shrunk, Zenon
    <3> QED BY <1>2, <2>1, <2>2, <2>4, <3>1 DEF Return, Done
  <2>5. CASE FreeIn(heap, PermBlocks) = {} /\ Var2Permanent(heap, b) = Failed("OBJ_TOO_MANY", 0, heap)
    <3>1. NoBlock(heap, Var2Permanent(heap, b), PermBlocks, "OBJ_TOO_MANY")
      BY <1>1, <2>5, OwnedWords, BlockSets DEF Failed, NoBlock, Same, FreeIn
    <3> QED BY <1>1, <1>8, <2>1, <2>5, <3>1 DEF Failed
  <2>6. CASE /\ FreeIn(heap, PermBlocks) # {}
             /\ Var2Permanent(heap, b) = Done(Transfer(heap, b, FirstOf(FreeIn(heap, PermBlocks))))
    <3> DEFINE c == FirstOf(FreeIn(heap, PermBlocks))
    <3>1. c \in PermBlocks
      BY <2>6, BlockSets, FirstOfLeast DEF FreeIn
    <3>2. c \in Blocks /\ b # c
      BY <3>1, BlockSets, MemoryAssumption DEF NamedBlocks, PermBlocks
    <3>3. heap' = Transfer(heap, b, c) /\ halted' = Running
      BY <2>1, <2>6 DEF Return, Done
    <3> HIDE DEF c
    <3> QED BY <1>1, <1>5, <2>1, <2>2, <3>2, <3>3, TransferKeepsPromise
  <2> QED BY <2>3, <2>4, <2>5, <2>6 DEF Var2Permanent
<1>16. CASE r0_to_variable
  <2>1. PICK b \in NamedBlocks, v \in 0 .. HeapEnd : heap' = StoreInteger(heap, b, v) /\ halted' = halted
    BY <1>16 DEF r0_to_variable
  <2>2. b \in Blocks /\ v \in Nat
    BY BlockSets
  <2>3. heap' \in HeapType /\ \A i \in Blocks : /\ i # b => heap'.ptr[i] = heap.ptr[i]
                                               /\ heap'.size[i] = IF i = b THEN 0 ELSE heap.size[i]
    BY <1>1, <2>1, <2>2 DEF StoreInteger, HeapType
  <2>4. PICK g : g = heap'
    OBVIOUS
  <2>5. g \in HeapType /\ Owned(g)[b] = {} /\ \A i \in Blocks \ {b} : Owned(g)[i] = Owned(heap)[i]
    BY <1>1, <2>2, <2>3, <2>4, OwnedWords DEF Uses
  <2>6. Gave(heap, g, b)
    BY <1>1, <2>2, <2>5, OneChanged DEF Gave
  <2> QED BY <1>2, <2>1, <2>2, <2>4, <2>6
<1>17. CASE reset_memory
  <2>1. heap'.ptr = heap.ptr /\ heap'.size = heap.size
    BY <1>1, <1>17 DEF reset_memory, ResetMemory, HeapType
  <2>2. Owned(heap') = Owned(heap)
    BY <2>1 DEF Owned, BlockEnd
  <2>3. Promise!Finish
    BY <1>17, <2>2 DEF reset_memory, Promise!Finish, Running
  <2> QED BY <2>3 DEF Promise!Next, Step
<1>18. CASE init_memory
  <2>1. Promise!Restart
    BY <1>1, <1>18, MemoryAssumption
       DEF init_memory, InitMemory, NULL, Owned, BlockEnd, Promise!Restart, Promise!Nothing, Running
  <2> QED BY <2>1 DEF Promise!Next, Step
<1> QED BY <1>9, <1>10, <1>11, <1>12, <1>13, <1>14, <1>15, <1>16, <1>17, <1>18 DEF Next, Step

\* The heap implements its promise for every size of the heap, number of blocks and
\* of deleted areas, as long as no block is larger than its 16-bit size can say.
THEOREM KeepsPromiseHolds ==
  ASSUME \A n \in Sizes : n < SizeMod
  PROVE  Spec => KeepsPromise
<1>1. Init => PInv
  BY InitEstablishes, BlockSets DEF Init, InitMemory, PInv, Lazy, Uses, Running
<1>2. PInv /\ [Next]_vars => PInv'
  BY FlagStays
<1>3. Init => Promise!Init
  BY DEF Init, InitMemory, NULL, Owned, BlockEnd, Promise!Init, Promise!Nothing, Running
<1>4. PInv /\ [Next]_vars => [Promise!Next]_Promise!vars
  <2>1. UNCHANGED vars => UNCHANGED Promise!vars
    BY DEF vars, Promise!vars, Owned, BlockEnd
  <2> QED BY <2>1, StepKeepsPromise
<1> QED BY <1>1, <1>2, <1>3, <1>4, PTL DEF Spec, KeepsPromise, Promise!Spec
=============================================================================
