--------------------------- MODULE KeyboardProofs ---------------------------
(***************************************************************************)
(* For any keys, any number of keys in a report and any size of the ring:  *)
(* the ring holds what was typed, in order, READKEY() returns the key that *)
(* it took out while one reader reads at a time, and between two polls     *)
(* INKEY(x) shows the keys of the last report.                             *)
(***************************************************************************)
EXTENDS Keyboard, SequenceTheorems, WellFoundedInduction, TLAPS

K == KEYCODEBUFSIZE

\* The key codes of core 1, and where both cores are.
Control ==
  /\ pc1 \in {"poll", "byte", "push", "repeat", "again", "clear", "set"}
  /\ vk2 \in Keys \cup {NoKey}
  /\ pc1 # "poll" => ~IsMark
  /\ pc1 = "byte" => report # << >>
  /\ pc1 = "again" => wp = rp /\ vk2 # NoKey
  /\ at \in [Who -> {"idle", "want", "pop", "release", "result"}]
  /\ DOMAIN popped = Who

\* The status table follows the previous report, which is the one that is taken out of it.
Status == IF pc1 = "set" THEN status = {} ELSE status = down /\ status \subseteq ToSet(prev)

\* One reader at a time, whose result is in vkey.
OneReader ==
  ~Overlap => /\ at["irq"] = "idle" \/ at["main"] = "idle"
              /\ \A w \in Who : at[w] \in {"release", "result"} => vkey = popped[w]

IInv == TypeOK /\ Control /\ Status /\ KeysInOrder /\ OneReader
-----------------------------------------------------------------------------
(* Remainders, and the elements of a sequence that are not in a set.       *)

\* A position that leaves the ring at one end comes in at the other.
LEMMA Modulo ==
  ASSUME NEW a \in Int, -K <= a, a < 2 * K
  PROVE  a % K = IF a < 0 THEN a + K ELSE IF a < K THEN a ELSE a - K
BY KeyboardAssumption DEF K

\* A set of natural numbers that is not empty has a least element.
LEMMA Least ==
  ASSUME NEW S, S \subseteq Nat, S # {}
  PROVE  \E x \in S : \A y \in S : x <= y
<1> DEFINE R == OpToRel(<, Nat)
<1>1. IsWellFoundedOn(R, Nat)
  BY NatLessThanWellFounded
<1>2. PICK x \in S : \A y \in S : ~(<<y, x>> \in R)
  <2> HIDE DEF R
  <2> QED BY <1>1, WFMin
<1>3. ASSUME NEW y \in S PROVE x <= y
  <2>1. ~(y < x)
    BY <1>2 DEF OpToRel
  <2> QED BY <2>1
<1> QED BY <1>3

\* The first n steps of NotIn.
Steps(f, s, S, n) ==
  f = [i \in 0 .. n |-> IF i = 0 THEN << >> ELSE IF s[i] \in S THEN f[i - 1] ELSE Append(f[i - 1], s[i])]

\* NotIn can be computed: the least length for which it could not has a predecessor.
LEMMA StepsExist ==
  ASSUME NEW s, NEW S, NEW m \in Nat
  PROVE  \E f : Steps(f, s, S, m)
<1> DEFINE Bad == {n \in Nat : ~ \E f : Steps(f, s, S, n)}
<1> SUFFICES ASSUME Bad # {} PROVE FALSE
  OBVIOUS
<1>1. PICK n \in Bad : \A k \in Bad : n <= k
  <2> HIDE DEF Bad
  <2>1. Bad \subseteq Nat
    BY DEF Bad
  <2> QED BY <2>1, Least
<1>2. CASE n = 0
  <2> DEFINE f == [i \in 0 .. 0 |-> << >>]
  <2>1. Steps(f, s, S, 0)
    BY DEF Steps
  <2> QED BY <1>1, <1>2, <2>1
<1>3. CASE n # 0
  <2>1. n \in Nat /\ n - 1 \in Nat /\ n - 1 \notin Bad
    BY <1>1, <1>3
  <2>2. PICK g : Steps(g, s, S, n - 1)
    BY <2>1
  <2> DEFINE next == IF s[n] \in S THEN g[n - 1] ELSE Append(g[n - 1], s[n])
             f == [i \in 0 .. n |-> IF i = n THEN next ELSE g[i]]
  <2>3. \A i \in 0 .. n - 1 :
          g[i] = IF i = 0 THEN << >> ELSE IF s[i] \in S THEN g[i - 1] ELSE Append(g[i - 1], s[i])
    BY <2>1, <2>2 DEF Steps
  <2>4. ASSUME NEW i \in 0 .. n
        PROVE  f[i] = IF i = 0 THEN << >> ELSE IF s[i] \in S THEN f[i - 1] ELSE Append(f[i - 1], s[i])
    <3>1. CASE i = n
      <4>1. f[n] = next /\ f[n - 1] = g[n - 1]
        BY <2>1
      <4> QED BY <1>3, <3>1, <4>1
    <3>2. CASE i # n /\ i # 0
      <4>1. f[i] = g[i] /\ f[i - 1] = g[i - 1] /\ i \in 0 .. n - 1
        BY <2>1, <3>2
      <4> HIDE DEF f, next
      <4> QED BY <2>3, <3>2, <4>1
    <3>3. CASE i # n /\ i = 0
      BY <2>1, <2>3, <3>3
    <3> QED BY <3>1, <3>2, <3>3
  <2>5. Steps(f, s, S, n)
    <3>1. f = [i \in 0 .. n |-> f[i]]
      OBVIOUS
    <3> HIDE DEF f
    <3> QED BY <2>4, <3>1 DEF Steps
  <2> QED BY <1>1, <2>5
<1> QED BY <1>2, <1>3

\* What is left of a sequence is a sequence of the same kind.
LEMMA NotInType ==
  ASSUME NEW T, NEW s \in Seq(T), NEW S
  PROVE  NotIn(s, S) \in Seq(T)
<1>1. Len(s) \in Nat /\ \A i \in 1 .. Len(s) : s[i] \in T
  OBVIOUS
<1>2. \E f : Steps(f, s, S, Len(s))
  BY <1>1, StepsExist
<1>3. PICK f : Steps(f, s, S, Len(s)) /\ NotIn(s, S) = f[Len(s)]
  BY <1>2 DEF Steps, NotIn
<1>4. \A i \in 0 .. Len(s) :
        f[i] = IF i = 0 THEN << >> ELSE IF s[i] \in S THEN f[i - 1] ELSE Append(f[i - 1], s[i])
  BY <1>3 DEF Steps
<1> DEFINE Bad == {i \in 0 .. Len(s) : f[i] \notin Seq(T)}
<1>5. CASE Bad = {}
  <2>1. Len(s) \in 0 .. Len(s)
    BY <1>1
  <2> QED BY <1>3, <1>5, <2>1
<1>6. CASE Bad # {}
  <2>1. PICK i \in Bad : \A k \in Bad : i <= k
    <3> HIDE DEF Bad
    <3>1. Bad \subseteq Nat
      BY <1>1 DEF Bad
    <3> QED BY <1>6, <3>1, Least
  <2>2. i # 0
    <3>1. << >> \in Seq(T)
      OBVIOUS
    <3> QED BY <1>4, <2>1, <3>1
  <2>3. i \in 1 .. Len(s) /\ i - 1 \in 0 .. Len(s) /\ i - 1 \notin Bad
    BY <1>1, <2>1, <2>2
  <2>4. f[i - 1] \in Seq(T) /\ s[i] \in T
    BY <1>1, <2>3
  <2>5. f[i] \in Seq(T)
    <3>1. f[i] = f[i - 1] \/ f[i] = Append(f[i - 1], s[i])
      BY <1>4, <2>1, <2>2
    <3>2. Append(f[i - 1], s[i]) \in Seq(T)
      BY <2>4
    <3> QED BY <2>4, <3>1, <3>2
  <2> QED BY <2>1, <2>5
<1> QED BY <1>5, <1>6

\* A report that is not the mark is a sequence of keys.
LEMMA ReportType ==
  ASSUME report \in Reports, ~IsMark
  PROVE  report \in Seq(Keys) /\ report \in Reports \ {<<Mark>>} /\ (report # << >> => Head(report) \in Keys)
<1>1. report # <<Mark>>
  BY DEF IsMark, keycode0
<1>2. \E n \in 0 .. MaxDown : report \in [1 .. n -> Keys]
  BY <1>1 DEF Reports
<1>3. report \in Seq(Keys)
  BY <1>2, KeyboardAssumption
<1> QED BY <1>1, <1>3
-----------------------------------------------------------------------------
(* The ring.                                                               *)

\* How much of the ring is used, and the place of each code in it.
LEMMA RingPlaces ==
  ASSUME TypeOK
  PROVE  /\ K \in Nat /\ K > 1 /\ wp \in 0 .. K - 1 /\ rp \in 0 .. K - 1
         /\ Held \in 0 .. K - 1 /\ Room = K - 1 - Held
         /\ Held = IF wp < rp THEN wp - rp + K ELSE wp - rp
<1>1. K \in Nat /\ K > 1 /\ wp \in 0 .. K - 1 /\ rp \in 0 .. K - 1
  BY KeyboardAssumption DEF TypeOK, K
<1>2. Held = IF wp < rp THEN wp - rp + K ELSE wp - rp
  BY <1>1, Modulo DEF Held, K
<1>3. Room = IF rp - wp - 1 < 0 THEN rp - wp - 1 + K ELSE rp - wp - 1
  BY <1>1, Modulo DEF Room, K
<1> QED BY <1>1, <1>2, <1>3

\* The codes that fit are put behind those that the ring holds.
LEMMA Push ==
  ASSUME TypeOK, KeysInOrder, NEW s \in Seq(Codes), pushkeycodebuf(s),
         NEW n, n = IF Len(s) <= Room THEN Len(s) ELSE Room
  PROVE  /\ n \in 0 .. Room /\ n <= Len(s) /\ rp' = rp
         /\ wp' \in 0 .. K - 1 /\ buf' \in [0 .. K - 1 -> Codes \cup {NoKey}]
         /\ Held' = Held + n
         /\ \A i \in 1 .. Held : buf'[(rp' + i - 1) % K] = typed[i]
         /\ \A d \in 1 .. n : buf'[(rp' + Held + d - 1) % K] = s[d]
<1>1. /\ K \in Nat /\ K > 1 /\ wp \in 0 .. K - 1 /\ rp \in 0 .. K - 1
      /\ Held \in 0 .. K - 1 /\ Room = K - 1 - Held
      /\ Held = IF wp < rp THEN wp - rp + K ELSE wp - rp
  BY RingPlaces
<1>2. n \in 0 .. Room /\ n <= Len(s) /\ rp' = rp
  <2>1. Len(s) \in Nat /\ Room \in Nat
    BY <1>1
  <2>2. n = IF Len(s) <= Room THEN Len(s) ELSE Room
    OBVIOUS
  <2>3. rp' = rp
    BY DEF pushkeycodebuf
  <2> QED BY <2>1, <2>2, <2>3
<1>3. wp' = IF wp + n < K THEN wp + n ELSE wp + n - K
  <2>1. wp' = (wp + n) % K
    BY DEF pushkeycodebuf, K
  <2> DEFINE y == wp + n
  <2>2. y \in Int /\ -K <= y /\ y < 2 * K /\ ~(y < 0)
    BY <1>1, <1>2
  <2>3. y % K = IF y < K THEN y ELSE y - K
    <3> HIDE DEF y
    <3> QED BY <2>2, Modulo
  <2>4. wp' = y % K
    BY <2>1
  <2>5. wp' = IF y < K THEN y ELSE y - K
    <3> HIDE DEF y
    <3> QED BY <2>3, <2>4
  <2> QED BY <1>1, <1>2, <2>2, <2>5
<1>4. wp' \in 0 .. K - 1
  BY <1>1, <1>2, <1>3
<1>5. Held' = Held + n
  <2>1. Held' = (wp' - rp) % K
    BY <1>2 DEF Held, K
  <2>2. PICK w : w = wp'
    OBVIOUS
  <2>3. w \in 0 .. K - 1 /\ w = IF wp + n < K THEN wp + n ELSE wp + n - K
    BY <1>3, <1>4, <2>2
  <2> DEFINE y == w - rp
  <2>4. y \in Int /\ -K <= y /\ y < K /\ y < 2 * K
    BY <1>1, <2>3
  <2>5. y % K = IF y < 0 THEN y + K ELSE y
    <3> HIDE DEF y
    <3> QED BY <2>4, Modulo
  <2>6. (IF y < 0 THEN y + K ELSE y) = Held + n
    <3>1. PICK h, m : h = Held /\ m = Room /\ n \in 0 .. m /\ m = K - 1 - h /\ h \in 0 .. K - 1
      BY <1>1, <1>2
    <3>4. h = IF wp < rp THEN wp - rp + K ELSE wp - rp
      BY <1>1, <3>1
    <3>5. K \in Nat /\ wp \in 0 .. K - 1 /\ rp \in 0 .. K - 1
      BY <1>1
    <3>6. (IF y < 0 THEN y + K ELSE y) = h + n
      <4>1. h \in Int /\ n \in Int /\ h + n < K /\ h + n >= 0
        BY <3>1, <3>5
      <4>2. CASE wp + n < K
        BY <2>3, <3>4, <3>5, <4>1, <4>2
      <4>3. CASE ~(wp + n < K)
        BY <2>3, <3>4, <3>5, <4>1, <4>3
      <4> QED BY <4>2, <4>3
    <3> QED BY <3>1, <3>6
  <2> QED BY <2>1, <2>2, <2>5, <2>6
<1> DEFINE Off(i) == IF i < wp THEN i - wp + K ELSE i - wp
<1>6. ASSUME NEW i \in 0 .. K - 1
      PROVE  buf'[i] = IF Off(i) < n THEN s[Off(i) + 1] ELSE buf[i]
  <2>1. (i - wp) % K = Off(i)
    <3> DEFINE y == i - wp
    <3>1. y \in Int /\ -K <= y /\ y < K /\ y < 2 * K /\ (y < 0 <=> i < wp)
      BY <1>1
    <3>2. y % K = IF i < wp THEN y + K ELSE y
      <4> HIDE DEF y
      <4> QED BY <3>1, Modulo
    <3> QED BY <3>2
  <2>2. DOMAIN buf = 0 .. K - 1
    BY DEF TypeOK, K
  <2>3. buf' = [j \in 0 .. K - 1 |->
                  IF (j - wp) % K < n THEN s[((j - wp) % K) + 1] ELSE buf[j]]
    BY <2>2 DEF pushkeycodebuf, K
  <2> QED BY <2>1, <2>3
<1>7. buf' \in [0 .. K - 1 -> Codes \cup {NoKey}]
  <2>1. buf \in [0 .. K - 1 -> Codes \cup {NoKey}] /\ DOMAIN buf' = DOMAIN buf
    BY DEF TypeOK, K, pushkeycodebuf
  <2>2. ASSUME NEW i \in 0 .. K - 1 PROVE buf'[i] \in Codes \cup {NoKey}
    <3>1. CASE Off(i) < n
      <4>1. Off(i) + 1 \in 1 .. Len(s)
        BY <1>1, <1>2, <3>1
      <4> HIDE DEF Off
      <4> QED BY <1>6, <3>1, <4>1
    <3>2. CASE ~(Off(i) < n)
      <4> HIDE DEF Off
      <4> QED BY <1>6, <2>1, <3>2
    <3> QED BY <3>1, <3>2
  <2>3. buf' = [i \in 0 .. K - 1 |-> buf'[i]]
    BY <2>1 DEF pushkeycodebuf
  <2> QED BY <2>2, <2>3
<1>8. ASSUME NEW i \in 1 .. Held PROVE buf'[(rp' + i - 1) % K] = typed[i]
  <2> DEFINE x == IF rp + i - 1 < K THEN rp + i - 1 ELSE rp + i - 1 - K
  <2>1. (rp + i - 1) % K = x
    <3> DEFINE y == rp + i - 1
    <3>1. y \in Int /\ ~(y < 0) /\ -K <= y /\ y < 2 * K
      BY <1>1
    <3>2. y % K = IF y < K THEN y ELSE y - K
      <4> HIDE DEF y
      <4> QED BY <3>1, Modulo
    <3> QED BY <1>1, <3>1, <3>2
  <2>2. x \in 0 .. K - 1 /\ ~(Off(x) < n)
    BY <1>1, <1>2
  <2>3. typed[i] = buf[x]
    BY <2>1 DEF KeysInOrder, K
  <2> HIDE DEF x, Off
  <2> QED BY <1>2, <1>6, <2>1, <2>2, <2>3
<1>9. ASSUME NEW d \in 1 .. n PROVE buf'[(rp' + Held + d - 1) % K] = s[d]
  <2> DEFINE y == rp + Held + d - 1
             x == IF y < K THEN y ELSE y - K
  <2>1. y % K = x
    <3>1. y \in Int /\ ~(y < 0) /\ -K <= y /\ y < 2 * K
      BY <1>1, <1>2
    <3> HIDE DEF y
    <3> QED BY <1>1, <3>1, Modulo
  <2>2. x \in 0 .. K - 1 /\ Off(x) = d - 1
    BY <1>1, <1>2
  <2>3. buf'[x] = s[d]
    <3> HIDE DEF x, Off
    <3> QED BY <1>2, <1>6, <2>2
  <2> HIDE DEF x
  <2> QED BY <1>2, <2>1, <2>3
<1> QED BY <1>2, <1>4, <1>5, <1>7, <1>8, <1>9

\* The typed keys that fit follow the earlier ones.
LEMMA PushInOrder ==
  ASSUME TypeOK, KeysInOrder, NEW s \in Seq(Codes), pushkeycodebuf(s),
         typed' = LET all == typed \o s IN
                  IF Len(all) < K THEN all ELSE SubSeq(all, 1, K - 1)
  PROVE  KeysInOrder'
<1> DEFINE n == IF Len(s) <= Room THEN Len(s) ELSE Room
           all == typed \o s
<1>1. /\ n \in 0 .. Room /\ n <= Len(s) /\ rp' = rp /\ Held' = Held + n
      /\ \A i \in 1 .. Held : buf'[(rp' + i - 1) % K] = typed[i]
      /\ \A d \in 1 .. n : buf'[(rp' + Held + d - 1) % K] = s[d]
  BY Push
<1>2. K \in Nat /\ K > 1 /\ Held \in 0 .. K - 1 /\ Room = K - 1 - Held
  BY RingPlaces
<1>3. typed = [i \in 1 .. Held |-> typed[i]] /\ typed \in Seq(Range(typed)) /\ Len(typed) = Held
  <2>1. DOMAIN typed = 1 .. Held /\ typed = [i \in 1 .. Held |-> typed[i]]
    BY DEF KeysInOrder
  <2>2. typed \in [1 .. Held -> Range(typed)]
    BY <2>1 DEF Range
  <2> QED BY <1>2, <2>1, <2>2
<1>t. PICK T : typed \in Seq(T) /\ s \in Seq(T) /\ all \in Seq(T)
  <2> DEFINE T == Range(typed) \cup Codes
  <2>1. Range(typed) \subseteq T /\ Codes \subseteq T
    OBVIOUS
  <2> HIDE DEF T
  <2>2. typed \in Seq(T) /\ s \in Seq(T)
    BY <1>3, <2>1
  <2> QED BY <2>2
<1>4. /\ Len(all) = Held + Len(s)
      /\ \A i \in 1 .. Held + Len(s) : all[i] = IF i <= Held THEN typed[i] ELSE s[i - Held]
  BY <1>2, <1>3
<1>5. typed' = [i \in 1 .. Held + n |-> IF i <= Held THEN typed[i] ELSE s[i - Held]]
  <2>1. CASE Len(all) < K
    <3>1. n = Len(s) /\ typed' = all
      BY <1>2, <1>4, <2>1
    <3>2. all = [i \in 1 .. Len(all) |-> all[i]]
      <4> HIDE DEF all
      <4> QED BY <1>t
    <3> HIDE DEF all, n
    <3> QED BY <1>4, <3>1, <3>2
  <2>2. CASE ~(Len(all) < K)
    <3>1. n = K - 1 - Held /\ typed' = SubSeq(all, 1, K - 1) /\ K - 1 <= Len(all)
      BY <1>2, <1>4, <2>2
    <3>2. SubSeq(all, 1, K - 1) = [i \in 1 .. K - 1 |-> all[i]]
      <4> DEFINE cut == SubSeq(all, 1, K - 1)
      <4>3. cut \in Seq(T) /\ Len(cut) = K - 1 /\ \A i \in 1 .. K - 1 : cut[i] = all[i]
        <5> HIDE DEF all
        <5> QED BY <1>2, <1>t, <3>1
      <4>4. cut = [i \in 1 .. Len(cut) |-> cut[i]]
        <5> HIDE DEF cut
        <5> QED BY <4>3
      <4>5. cut = [i \in 1 .. K - 1 |-> all[i]]
        <5> HIDE DEF cut, all
        <5> QED BY <4>3, <4>4
      <4> QED BY <4>5
    <3>3. K - 1 = Held + n /\ K - 1 <= Held + Len(s)
      BY <1>2, <1>4, <3>1
    <3>4. \A i \in 1 .. Held + n : all[i] = IF i <= Held THEN typed[i] ELSE s[i - Held]
      BY <1>1, <1>2, <1>4
    <3> HIDE DEF all, n
    <3>5. typed' = [i \in 1 .. Held + n |-> all[i]]
      BY <3>1, <3>2, <3>3
    <3> QED BY <3>4, <3>5
  <2> QED BY <2>1, <2>2
<1>6. ASSUME NEW i \in 1 .. Held + n
      PROVE  (IF i <= Held THEN typed[i] ELSE s[i - Held]) = buf'[(rp' + i - 1) % K]
  <2>1. CASE i <= Held
    <3> HIDE DEF n
    <3> QED BY <1>1, <1>2, <2>1
  <2>2. CASE ~(i <= Held)
    <3>1. i - Held \in 1 .. n /\ rp' + Held + (i - Held) - 1 = rp' + i - 1
      BY <1>1, <1>2, <2>2, RingPlaces
    <3> HIDE DEF n
    <3> QED BY <1>1, <2>2, <3>1
  <2> QED BY <2>1, <2>2
<1>7. typed' = [i \in 1 .. Held' |-> buf'[(rp' + i - 1) % K]]
  <2> HIDE DEF n
  <2> QED BY <1>1, <1>5, <1>6
<1> QED BY <1>7 DEF KeysInOrder, K
-----------------------------------------------------------------------------
(* The steps keep each part of the invariant.                              *)

USE DEF usb, ring, core0, core1

\* What a step may be, by what it does to the ring.
LEMMA RingSteps ==
  ASSUME Next
  PROVE  \/ UNCHANGED <<ring, typed>>
         \/ StoreByte \/ PushKeys \/ RepeatKey \/ \E w \in Who : Pop(w)
<1>1. CASE tuh_hid_mount_cb \/ tuh_hid_umount_cb \/ \E r \in Reports : process_kbd_report(r)
  BY <1>1 DEF tuh_hid_mount_cb, tuh_hid_umount_cb, process_kbd_report
<1>2. CASE usbkb_task
  BY <1>2 DEF usbkb_task, ByteBegins, ByteComes, TaskBegins, NoRepeat, RepeatBegins, ClearStatus, SetStatus
<1>3. CASE Later \/ check_keypress \/ lib_readkey
  BY <1>3 DEF Later, check_keypress, lib_readkey
<1>4. CASE \E w \in Who : usbkb_readkey(w)
  BY <1>4 DEF usbkb_readkey, Acquire, Release, Result
<1> QED BY <1>1, <1>2, <1>3, <1>4 DEF Next

\* What core 1 is about to put into the ring is a sequence of codes.
LEMMA CodesType ==
  ASSUME IInv, pc1 # "poll"
  PROVE  /\ AsCodes(Pressed) \in Seq(Codes) /\ AsCodes(NewlyDown) \in Seq(Codes)
         /\ (report # << >> => <<Byte(keycode0)>> \in Seq(Codes))
         /\ (vk2 # NoKey => <<Code(vk2)>> \in Seq(Codes))
<1>1. report \in Seq(Keys) /\ (report # << >> => keycode0 \in Keys)
  BY ReportType DEF IInv, TypeOK, Control, keycode0
<1>2. Pressed \in Seq(Keys) /\ NewlyDown \in Seq(Keys)
  BY <1>1, NotInType DEF Pressed, NewlyDown
<1>3. ASSUME NEW s \in Seq(Keys) PROVE AsCodes(s) \in Seq(Codes)
  <2>1. /\ Len(s) \in Nat /\ DOMAIN s = 1 .. Len(s)
        /\ \A i \in 1 .. Len(s) : Code(s[i]) \in Codes
    BY DEF Codes
  <2>2. AsCodes(s) \in [1 .. Len(s) -> Codes]
    BY <2>1 DEF AsCodes
  <2> QED BY <2>1, <2>2
<1>4. ASSUME NEW c \in Codes PROVE <<c>> \in Seq(Codes)
  OBVIOUS
<1>5. /\ report # << >> => Byte(keycode0) \in Codes
      /\ vk2 # NoKey => Code(vk2) \in Codes
  BY <1>1 DEF IInv, Control, Codes
<1> QED BY <1>2, <1>3, <1>4, <1>5

\* What was typed is as long as the ring is full.
LEMMA TypedType ==
  ASSUME IInv
  PROVE  typed \in Seq(Codes \cup {NoKey}) /\ Len(typed) = Held
<1>1. K \in Nat /\ K > 1 /\ rp \in 0 .. K - 1 /\ Held \in 0 .. K - 1
  BY RingPlaces DEF IInv
<1>2. \A x \in Int : x % K \in 0 .. K - 1
  BY <1>1
<1>3. \A i \in 1 .. Held : buf[(rp + i - 1) % K] \in Codes \cup {NoKey}
  <2>1. \A x \in 0 .. K - 1 : buf[x] \in Codes \cup {NoKey}
    BY DEF IInv, TypeOK, K
  <2>2. \A i \in 1 .. Held : rp + i - 1 \in Int
    BY <1>1
  <2> QED BY <1>2, <2>1, <2>2
<1>4. typed = [i \in 1 .. Held |-> buf[(rp + i - 1) % K]]
  BY DEF IInv, KeysInOrder, K
<1>5. typed \in [1 .. Held -> Codes \cup {NoKey}]
  BY <1>3, <1>4
<1> QED BY <1>1, <1>5

\* Core 1 puts codes into the ring behind those that wait.
LEMMA CodesInOrder ==
  ASSUME IInv, StoreByte \/ PushKeys \/ RepeatKey
  PROVE  /\ KeysInOrder' /\ rp' = rp /\ wp' \in 0 .. K - 1
         /\ buf' \in [0 .. K - 1 -> Codes \cup {NoKey}]
<1>1. PICK T : typed \in Seq(T) /\ Len(typed) = Held
  BY TypedType
<1>2. K \in Nat /\ K > 1 /\ Held \in 0 .. K - 1
  BY RingPlaces DEF IInv
<1>3. CASE StoreByte
  <2> DEFINE s == <<Byte(keycode0)>>
  <2>1. s \in Seq(Codes) /\ pushkeycodebuf(s)
    BY <1>3, CodesType DEF StoreByte, IInv, Control
  <2>2. typed' = LET all == typed \o s IN IF Len(all) < K THEN all ELSE SubSeq(all, 1, K - 1)
    <3>1. Len(typed \o s) = Len(typed) + 1 /\ typed \o s = Append(typed, Byte(keycode0))
      BY <1>1
    <3>2. CASE Len(typed) < K - 1
      BY <1>1, <1>2, <1>3, <3>1, <3>2 DEF StoreByte, K
    <3>3. CASE ~(Len(typed) < K - 1)
      <4>1. Len(typed) = K - 1 /\ typed' = typed
        BY <1>1, <1>2, <1>3, <3>3 DEF StoreByte, K
      <4>2. SubSeq(typed \o s, 1, Len(typed)) = typed
        BY <1>1
      <4> QED BY <1>1, <1>2, <3>1, <4>1, <4>2
    <3> QED BY <3>2, <3>3
  <2> HIDE DEF s
  <2> QED BY <2>1, <2>2, Push, PushInOrder DEF IInv
<1>4. CASE PushKeys
  <2>1. AsCodes(Pressed) \in Seq(Codes) /\ pushkeycodebuf(AsCodes(Pressed)) /\ Pressed = NewlyDown
    BY <1>4, CodesType DEF PushKeys, IInv, Status, Pressed, NewlyDown
  <2>2. typed' = LET all == typed \o AsCodes(Pressed) IN
                 IF Len(all) < K THEN all ELSE SubSeq(all, 1, K - 1)
    BY <1>4, <2>1 DEF PushKeys, K
  <2> QED BY <2>1, <2>2, Push, PushInOrder DEF IInv
<1>5. CASE RepeatKey
  <2> DEFINE s == <<Code(vk2)>>
  <2>1. s \in Seq(Codes) /\ pushkeycodebuf(s) /\ wp = rp
    BY <1>5, CodesType DEF RepeatKey, IInv, Control
  <2>2. typed' = LET all == typed \o s IN IF Len(all) < K THEN all ELSE SubSeq(all, 1, K - 1)
    <3>1. Len(typed \o s) = Len(typed) + 1 /\ typed \o s = Append(typed, Code(vk2))
      BY <1>1
    <3>2. Held = 0
      BY <2>1, RingPlaces DEF IInv
    <3> QED BY <1>1, <1>2, <1>5, <3>1, <3>2 DEF RepeatKey
  <2> HIDE DEF s
  <2> QED BY <2>1, <2>2, Push, PushInOrder DEF IInv
<1> QED BY <1>3, <1>4, <1>5

\* A reader takes out the code that waits longest.
LEMMA PopInOrder ==
  ASSUME IInv, NEW w \in Who, Pop(w)
  PROVE  KeysInOrder' /\ rp' \in 0 .. K - 1 /\ vkey' = popped'[w]
<1>1. /\ K \in Nat /\ K > 1 /\ wp \in 0 .. K - 1 /\ rp \in 0 .. K - 1 /\ Held \in 0 .. K - 1
      /\ Held = IF wp < rp THEN wp - rp + K ELSE wp - rp
  BY RingPlaces DEF IInv
<1>2. PICK T : typed \in Seq(T) /\ Len(typed) = Held
  BY TypedType
<1>3. wp' = wp /\ buf' = buf /\ vkey' = popkeycodebuf
      /\ popped'[w] = IF typed = << >> THEN NoKey ELSE Head(typed)
  BY DEF Pop, IInv, TypeOK, Control
<1>4. CASE wp = rp
  <2>1. Held = 0 /\ typed = << >>
    BY <1>1, <1>2, <1>4
  <2>2. typed' = typed /\ rp' = rp
    BY <1>4, <2>1 DEF Pop
  <2>3. KeysInOrder'
    BY <1>3, <2>2 DEF IInv, KeysInOrder, Held
  <2> QED BY <1>1, <1>3, <1>4, <2>1, <2>2, <2>3 DEF popkeycodebuf
<1>5. CASE wp # rp
  <2>1. Held > 0 /\ typed # << >>
    BY <1>1, <1>2, <1>5
  <2>2. typed' = Tail(typed) /\ rp' = (rp + 1) % K
    BY <1>5, <2>1 DEF Pop, Next1, K
  <2> DEFINE y == rp + 1
             r == IF y < K THEN y ELSE y - K
  <2>3. rp' = r
    <3>1. y \in Int /\ ~(y < 0) /\ -K <= y /\ y < 2 * K
      BY <1>1
    <3>2. y % K = r
      <4> HIDE DEF y
      <4> QED BY <3>1, Modulo
    <3> QED BY <2>2, <3>2
  <2>4. r \in 0 .. K - 1
    BY <1>1
  <2>5. Held' = Held - 1
    <3>1. Held' = (wp - r) % K
      BY <1>3, <2>3 DEF Held, K
    <3> DEFINE z == wp - r
    <3>2. z \in Int /\ -K <= z /\ z < K /\ z < 2 * K
      BY <1>1, <2>4
    <3>3. z % K = IF z < 0 THEN z + K ELSE z
      <4> HIDE DEF z
      <4> QED BY <3>2, Modulo
    <3>4. (IF z < 0 THEN z + K ELSE z) = Held - 1
      BY <1>1, <1>5
    <3> QED BY <3>1, <3>3, <3>4
  <2>6. ASSUME NEW i \in 1 .. Held - 1 PROVE (r + i - 1) % K = (rp + (i + 1) - 1) % K
    <3> DEFINE a == r + i - 1
               b == rp + (i + 1) - 1
    <3>1. /\ a \in Int /\ -K <= a /\ a < 2 * K /\ b \in Int /\ -K <= b /\ b < 2 * K
          /\ ~(a < 0) /\ ~(b < 0)
      BY <1>1, <2>4
    <3>2. a % K = (IF a < K THEN a ELSE a - K) /\ b % K = IF b < K THEN b ELSE b - K
      <4> HIDE DEF a, b
      <4> QED BY <3>1, Modulo
    <3>3. (IF a < K THEN a ELSE a - K) = IF b < K THEN b ELSE b - K
      BY <1>1
    <3> QED BY <3>2, <3>3
  <2>7. Tail(typed) = [i \in 1 .. Held - 1 |-> typed[i + 1]]
    <3> DEFINE t == Tail(typed)
    <3>1. t \in Seq(T) /\ Len(t) = Held - 1 /\ \A i \in 1 .. Held - 1 : t[i] = typed[i + 1]
      BY <1>1, <1>2, <2>1
    <3>2. t = [i \in 1 .. Held - 1 |-> typed[i + 1]]
      <4> HIDE DEF t
      <4> QED BY <3>1
    <3> QED BY <3>2
  <2>8. \A i \in 1 .. Held - 1 : typed[i + 1] = buf[(rp + (i + 1) - 1) % K]
    <3>1. \A j \in 1 .. Held : typed[j] = buf[(rp + j - 1) % K]
      BY DEF IInv, KeysInOrder, K
    <3>2. \A i \in 1 .. Held - 1 : i + 1 \in 1 .. Held
      BY <1>1
    <3> QED BY <3>1, <3>2
  <2>9. KeysInOrder'
    <3>1. typed' = [i \in 1 .. Held' |-> buf'[(rp' + i - 1) % K]]
      <4> HIDE DEF r
      <4> QED BY <1>3, <2>2, <2>3, <2>5, <2>6, <2>7, <2>8
    <3> QED BY <3>1 DEF KeysInOrder, K
  <2>10. vkey' = popped'[w]
    <3>1. Head(typed) = typed[1] /\ 1 \in 1 .. Held
      BY <1>1, <1>2, <2>1
    <3>2. typed[1] = buf[(rp + 1 - 1) % K]
      BY <3>1 DEF IInv, KeysInOrder, K
    <3>3. (rp + 1 - 1) % K = rp
      BY <1>1
    <3> QED BY <1>3, <1>5, <2>1, <3>1, <3>2, <3>3 DEF popkeycodebuf
  <2> QED BY <2>3, <2>4, <2>9, <2>10
<1> QED BY <1>4, <1>5

\* The state keeps its type.
LEMMA TypeStep ==
  ASSUME IInv, Next
  PROVE  TypeOK'
<1> USE DEF IInv, TypeOK
<1>1. /\ buf' \in [0 .. K - 1 -> Codes \cup {NoKey}]
      /\ {wp', rp'} \subseteq 0 .. K - 1
  <2>1. CASE UNCHANGED <<ring, typed>>
    BY <2>1 DEF K
  <2>2. CASE StoreByte \/ PushKeys \/ RepeatKey
    BY <2>2, CodesInOrder DEF K
  <2>3. CASE \E w \in Who : Pop(w)
    BY <2>3, PopInOrder DEF K, Pop
  <2> QED BY <2>1, <2>2, <2>3, RingSteps
<1>2. /\ mounted' \in BOOLEAN /\ fresh' \in BOOLEAN /\ due' \in BOOLEAN
      /\ report' \in Reports /\ prev' \in Reports \ {<<Mark>>} /\ status' \subseteq Keys
      /\ sem' \in {Nobody, "core1"} \cup Who /\ bytemode' \in 0 .. 2
  <2>1. CASE tuh_hid_mount_cb \/ tuh_hid_umount_cb \/ \E r \in Reports : process_kbd_report(r)
    BY <2>1 DEF tuh_hid_mount_cb, tuh_hid_umount_cb, process_kbd_report
  <2>2. CASE ByteBegins \/ ByteComes \/ StoreByte \/ TaskBegins \/ PushKeys
    BY <2>2 DEF ByteBegins, ByteComes, StoreByte, TaskBegins, PushKeys
  <2>3. CASE NoRepeat \/ RepeatBegins \/ RepeatKey \/ ClearStatus
    BY <2>3 DEF NoRepeat, RepeatBegins, RepeatKey, ClearStatus
  <2>4. CASE SetStatus
    <3>1. report \in Seq(Keys) /\ report \in Reports \ {<<Mark>>}
      BY <2>4, ReportType DEF SetStatus, Control
    <3>2. ToSet(report) \subseteq Keys
      BY <3>1 DEF ToSet
    <3> QED BY <2>4, <3>1, <3>2 DEF SetStatus
  <2>5. CASE Later \/ check_keypress \/ lib_readkey
    BY <2>5 DEF Later, check_keypress, lib_readkey
  <2>6. CASE \E w \in Who : usbkb_readkey(w)
    BY <2>6 DEF usbkb_readkey, Acquire, Pop, Release, Result
  <2> QED BY <2>1, <2>2, <2>3, <2>4, <2>5, <2>6 DEF Next, usbkb_task
<1> QED BY <1>1, <1>2 DEF K

\* Core 1 handles a report of keys from its begin to its end, and repeats
\* into an empty ring.
LEMMA ControlStep ==
  ASSUME IInv, Next
  PROVE  Control'
<1> USE DEF IInv, Control, Goto
<1>1. CASE tuh_hid_mount_cb \/ tuh_hid_umount_cb \/ \E r \in Reports : process_kbd_report(r)
  BY <1>1 DEF tuh_hid_mount_cb, tuh_hid_umount_cb, process_kbd_report, IsMark, keycode0
<1>2. CASE ByteBegins \/ ByteComes \/ StoreByte \/ TaskBegins
  BY <1>2 DEF ByteBegins, ByteComes, StoreByte, TaskBegins, IsMark, keycode0
<1>3. CASE PushKeys
  <2>1. LastSeen \in Keys \cup {NoKey}
    <3>1. report \in Seq(Keys) /\ Pressed \in Seq(Keys)
      BY <1>3, ReportType, NotInType DEF PushKeys, TypeOK, Pressed
    <3>2. Room \in Nat
      BY RingPlaces
    <3>3. CASE Len(Pressed) > Room
      BY <3>1, <3>2, <3>3 DEF LastSeen
    <3>4. CASE ~(Len(Pressed) > Room) /\ report # << >>
      <4>1. Last(report) \in Keys
        BY <3>1, <3>4 DEF Last
      <4> QED BY <3>4, <4>1 DEF LastSeen
    <3>5. CASE ~(Len(Pressed) > Room) /\ report = << >>
      BY <3>5 DEF LastSeen
    <3> QED BY <3>3, <3>4, <3>5
  <2> QED BY <1>3, <2>1 DEF PushKeys, IsMark, keycode0
<1>4. CASE NoRepeat \/ RepeatBegins \/ RepeatKey \/ ClearStatus \/ SetStatus
  BY <1>4 DEF NoRepeat, RepeatBegins, RepeatKey, ClearStatus, SetStatus, IsMark, keycode0, keycodeExists
<1>5. CASE Later \/ check_keypress \/ lib_readkey
  BY <1>5 DEF Later, check_keypress, lib_readkey, IsMark, keycode0
<1>6. CASE \E w \in Who : Acquire(w) \/ Release(w) \/ Result(w)
  BY <1>6 DEF Acquire, Release, Result, IsMark, keycode0
<1>7. CASE \E w \in Who : Pop(w)
  <2>1. PICK w \in Who : Pop(w)
    BY <1>7
  <2>2. wp = rp => rp' = rp /\ wp' = wp
    BY <2>1 DEF Pop
  <2> QED BY <2>1, <2>2 DEF Pop, IsMark, keycode0
<1> QED BY <1>1, <1>2, <1>3, <1>4, <1>5, <1>6, <1>7 DEF Next, usbkb_task, usbkb_readkey

\* The keys of the report before last leave the status table before those
\* of the last one enter it.
LEMMA StatusStep ==
  ASSUME IInv, Next
  PROVE  Status'
<1> USE DEF IInv, Status
<1>1. CASE tuh_hid_mount_cb
  BY <1>1 DEF tuh_hid_mount_cb
<1>2. CASE ByteBegins
  BY <1>2 DEF ByteBegins
<1>3. CASE ClearStatus
  BY <1>3 DEF ClearStatus
<1>4. CASE SetStatus
  BY <1>4 DEF SetStatus
<1>5. CASE tuh_hid_umount_cb \/ \E r \in Reports : process_kbd_report(r)
  BY <1>5 DEF tuh_hid_umount_cb, process_kbd_report
<1>6. CASE ByteComes \/ StoreByte \/ TaskBegins \/ PushKeys \/ NoRepeat \/ RepeatBegins \/ RepeatKey
  BY <1>6 DEF ByteComes, StoreByte, TaskBegins, PushKeys, NoRepeat, RepeatBegins, RepeatKey
<1>7. CASE Later \/ check_keypress \/ lib_readkey
  BY <1>7 DEF Later, check_keypress, lib_readkey
<1>8. CASE \E w \in Who : usbkb_readkey(w)
  BY <1>8 DEF usbkb_readkey, Acquire, Pop, Release, Result
<1> QED BY <1>1, <1>2, <1>3, <1>4, <1>5, <1>6, <1>7, <1>8 DEF Next, usbkb_task

\* The ring keeps what was typed.
LEMMA OrderStep ==
  ASSUME IInv, Next
  PROVE  KeysInOrder'
<1>1. CASE UNCHANGED <<ring, typed>>
  BY <1>1 DEF IInv, KeysInOrder, Held
<1>2. CASE StoreByte \/ PushKeys \/ RepeatKey
  BY <1>2, CodesInOrder
<1>3. CASE \E w \in Who : Pop(w)
  BY <1>3, PopInOrder
<1> QED BY <1>1, <1>2, <1>3, RingSteps

\* Without an overlap the second reader is idle, and the result stays.
LEMMA ReaderStep ==
  ASSUME IInv, Next
  PROVE  OneReader'
<1> USE DEF OneReader, Who, Runs, Goto
<1> SUFFICES ASSUME ~Overlap PROVE OneReader'
  OBVIOUS
<1>1. CASE UNCHANGED core0
  BY <1>1 DEF IInv
<1>2. CASE check_keypress \/ lib_readkey
  BY <1>2 DEF IInv, Control, check_keypress, lib_readkey
<1>3. CASE \E w \in Who : Acquire(w) \/ Release(w) \/ Result(w)
  BY <1>3 DEF IInv, Control, Acquire, Release, Result
<1>4. CASE \E w \in Who : Pop(w)
  <2>1. PICK w \in Who : Pop(w) /\ vkey' = popped'[w]
    BY <1>4, PopInOrder
  <2> QED BY <2>1 DEF IInv, Control, Pop
<1>5. Next => UNCHANGED core0 \/ check_keypress \/ lib_readkey \/ \E w \in Who : usbkb_readkey(w)
  BY DEF Next, usbkb_task, tuh_hid_mount_cb, tuh_hid_umount_cb, process_kbd_report, Later,
         ByteBegins, ByteComes, StoreByte, TaskBegins, PushKeys, NoRepeat, RepeatBegins, RepeatKey,
         ClearStatus, SetStatus
<1> QED BY <1>1, <1>2, <1>3, <1>4, <1>5 DEF usbkb_readkey
-----------------------------------------------------------------------------
(* The theorems.                                                           *)

\* The invariant holds at the start: nothing is typed, nothing is down.
LEMMA InitIInv ==
  ASSUME Init
  PROVE  IInv
<1>1. << >> \in Reports /\ << >> \in Reports \ {<<Mark>>}
  <2>1. << >> \in [1 .. 0 -> Keys] /\ IsInjective(<< >>) /\ 0 \in 0 .. MaxDown /\ << >> # <<Mark>>
    BY KeyboardAssumption DEF IsInjective
  <2> QED BY <2>1 DEF Reports
<1>2. TypeOK
  <2>1. 0 \in 0 .. KEYCODEBUFSIZE - 1 /\ 0 \in 0 .. 2
    BY KeyboardAssumption
  <2>2. buf \in [0 .. KEYCODEBUFSIZE - 1 -> Codes \cup {NoKey}]
    BY DEF Init
  <2>3. mounted \in BOOLEAN /\ fresh \in BOOLEAN /\ due \in BOOLEAN
    BY DEF Init
  <2>4. status \subseteq Keys /\ {wp, rp} \subseteq 0 .. KEYCODEBUFSIZE - 1
    BY <2>1 DEF Init
  <2> QED BY <1>1, <2>1, <2>2, <2>3, <2>4 DEF Init, TypeOK
<1>3. Control /\ Status /\ OneReader
  BY DEF Init, Control, Status, OneReader, Who, ToSet, IsMark, keycode0, NoKey
<1>4. KeysInOrder
  <2>1. Held = 0
    BY <1>2, RingPlaces DEF Init
  <2> QED BY <2>1 DEF Init, KeysInOrder
<1> QED BY <1>2, <1>3, <1>4 DEF IInv

\* Every step of the keyboard keeps the invariant.
LEMMA NextIInv ==
  ASSUME IInv, [Next]_vars
  PROVE  IInv'
<1>1. CASE Next
  BY <1>1, TypeStep, ControlStep, StatusStep, OrderStep, ReaderStep DEF IInv
<1>2. CASE UNCHANGED vars
  BY <1>2 DEF vars, IInv, TypeOK, Control, Status, KeysInOrder, OneReader, Held, IsMark, keycode0
<1> QED BY <1>1, <1>2

\* The invariant holds in every state.
LEMMA AlwaysIInv == Spec => []IInv
BY InitIInv, NextIInv, PTL DEF Spec

\* Between two polls INKEY(x) shows just the keys of the last report, for
\* any keys and any number of them in a report, whatever a device that
\* sends bytes puts in between and however often the keyboard is replugged.
THEOREM StatusHolds == Spec => []StatusIsReport
<1>1. IInv => StatusIsReport
  BY DEF IInv, Status, StatusIsReport
<1> QED BY <1>1, AlwaysIInv, PTL

\* The ring of any size holds what was typed and not read yet, each key
\* once and in order, and drops only what does not fit; two overlapping
\* readers do not change that.
THEOREM OrderHolds == Spec => []KeysInOrder
<1>1. IInv => KeysInOrder
  BY DEF IInv
<1> QED BY <1>1, AlwaysIInv, PTL

\* No key is lost, doubled or mixed up between the report and READKEY(), as
\* long as the INKEY handler does not read in the middle of the program's READKEY().
THEOREM KeysHold ==
  ASSUME ~Overlap
  PROVE  Spec => []KeysAreRead
<1>1. IInv => KeysAreRead
  BY DEF IInv, OneReader, KeysAreRead, ReadsOwnKey
<1> QED BY <1>1, AlwaysIInv, PTL
=============================================================================
