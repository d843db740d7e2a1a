---------------------------- MODULE Core1Proofs ----------------------------
(***************************************************************************)
(* The handshake between the cores and the table of timed requests, for    *)
(* every number of functions, size of the table and of the mailbox, and    *)
(* every period: stop_core1 leaves core 1 quiet, a restart calls what is   *)
(* in the table once, and a chain of callbacks never loses its place.      *)
(***************************************************************************)
EXTENDS Core1, FiniteSetTheorems, FunctionTheorems, WellFoundedInduction, TLAPS

\* What the proofs use of the constants.
LEMMA Constants ==
  /\ CALLBACK_BUFFER_NUM \in Nat \ {0} /\ Slots \subseteq Nat /\ Slots # {}
  /\ Period \in Nat \ {0} /\ MaxSleep \in Nat \ {0} /\ MaxLate \in Nat \ {0}
  /\ MailboxSize \in Nat \ {0} /\ MaxRun \in Nat
  /\ Again \subseteq Funcs /\ "none" \notin Funcs
<1>1. 0 \in Slots
  BY Core1Assumption DEF Slots
<1> QED BY <1>1, Core1Assumption DEF Slots

\* A set of natural numbers that is not empty has a least element.
LEMMA Least ==
  ASSUME NEW S, S \subseteq Nat, S # {}
  PROVE  \E x \in S : \A y \in S : x <= y
<1> DEFINE R == OpToRel(<, Nat)
<1>1. IsWellFoundedOn(R, Nat)
  BY NatLessThanWellFounded
<1>2. PICK x \in S : \A y \in S : ~(<<y, x>> \in R)
  <2> HIDE DEF R
  <2> QED BY <1>1, WFMin
<1>3. ASSUME NEW y \in S PROVE x <= y
  <2>1. ~(y < x)
    BY <1>2 DEF OpToRel
  <2> QED BY <2>1
<1> QED BY <1>3

\* The free slot that request_core1_callback_at takes is the first one.
LEMMA FirstFreeIsFree ==
  ASSUME Used # Slots
  PROVE  FirstFree \in Slots \ Used /\ \A j \in Slots \ Used : FirstFree <= j
<1>1. Slots \ Used # {} /\ Slots \ Used \subseteq Nat
  BY Constants DEF Used
<1>2. \E x \in Slots \ Used : \A y \in Slots \ Used : x <= y
  BY <1>1, Least
<1> QED BY <1>2 DEF FirstFree

\* Core 1 sleeps for at most MaxSleep.
LEMMA FirstIsTime ==
  ASSUME TypeOK
  PROVE  First \in 0 .. MaxSleep
<1>1. Times \subseteq Nat /\ MaxSleep \in Times
  <2>1. \A i \in Used : table[i].left \in Int
    BY Constants DEF TypeOK, Used, Empty
  <2> QED BY <2>1, Constants DEF Times
<1>2. \E n \in Times : \A m \in Times : n <= m
  BY <1>1, Least
<1>3. First \in Times /\ First <= MaxSleep
  BY <1>1, <1>2 DEF First
<1> QED BY <1>1, <1>3, Constants

\* An entry in use holds a function, one that is not the empty entry's.
LEMMA UsedEntry ==
  ASSUME TypeOK, NEW i \in Used
  PROVE  /\ i \in Slots /\ table[i].func \in Funcs
         /\ table[i].left \in -MaxLate .. Period
BY DEF TypeOK, Used
-----------------------------------------------------------------------------
(* The invariant.                                                          *)

InLoop ==
  pc1 \in {"test", "sleep", "inner1", "outer", "inner2"}
  \/ (pc1 = "call" /\ running.from # "entry")

\* Where each core is when the other one's flag is set.
Handshake ==
  /\ started = InLoop
  /\ running # None <=> pc1 = "call"
  /\ pc0 \in {"launch", "starting"} => enabled
  /\ pc0 = "stopping" => ~enabled
  /\ pc0 = "ready" /\ ~enabled => pc1 = "off"
  /\ pc0 = "ready" /\ enabled => started
  /\ ~started /\ pc0 # "starting" => pc1 = "off"

\* A function is in one place of the table, the mailbox and core 1.
OnePlace ==
  /\ \A i, j \in Used : i # j => table[i].func # table[j].func
  /\ \A i \in Used : table[i].func # running.func
  /\ \A k \in 1 .. Len(mailbox) :
       /\ mailbox[k] # running.func
       /\ \A i \in Used : mailbox[k] # table[i].func
       /\ \A l \in 1 .. Len(mailbox) : k # l => mailbox[k] # mailbox[l]

\* What the loop before the main loop has called.
CalledSoFar == \A i \in Used : calls[table[i].func] = IF i < slot THEN 1 ELSE 0
EntryCalls ==
  /\ \A f \in Funcs : calls[f] < 2
  /\ pc1 = "entry" => CalledSoFar
  /\ pc1 = "call" /\ running.from = "entry" =>
       /\ slot \in Slots \ Used /\ calls[running.func] = 1 /\ CalledSoFar

IInv == TypeOK /\ Handshake /\ OnePlace /\ EntryCalls
-----------------------------------------------------------------------------
(* Type correctness.                                                       *)

\* The initial states are well typed.
LEMMA TypeInit == Init => TypeOK
<1> SUFFICES ASSUME Init PROVE TypeOK
  OBVIOUS
<1>1. table \in [Slots -> {Empty} \cup [func : Funcs, left : -MaxLate .. Period]]
  BY DEF Init
<1>2. mailbox \in Seq(Funcs) /\ Len(mailbox) <= MailboxSize
  BY Constants DEF Init
<1>3. calls \in [Funcs -> 0 .. 2]
  BY DEF Init
<1>4. /\ slot \in 0 .. CALLBACK_BUFFER_NUM
      /\ ran \in 0 .. MaxRun /\ wake \in 0 .. MaxSleep
  BY Constants DEF Init
<1>5. /\ started \in BOOLEAN /\ enabled \in BOOLEAN /\ slipped \in BOOLEAN
      /\ pc0 \in {"ready", "launch", "starting", "stopping"} /\ pc1 \in Places
      /\ running \in {None} /\ asks \subseteq Funcs
  BY DEF Init, Places
<1> QED BY <1>1, <1>2, <1>3, <1>4, <1>5 DEF TypeOK

\* A call takes a function out of the table.
LEMMA CallSlotType ==
  ASSUME TypeOK, slot \in Slots, NEW at \in {"entry", "inner1", "inner2"}, CallSlot(at)
  PROVE  TypeOK'
<1>1. slot \in Used /\ table[slot].func \in Funcs
  BY UsedEntry DEF CallSlot, Used
<1>2. table' \in [Slots -> {Empty} \cup [func : Funcs, left : -MaxLate .. Period]]
  BY DEF CallSlot, TypeOK
<1>3. running' \in [func : Funcs, from : {"entry", "inner1", "outer", "inner2"}]
  BY <1>1 DEF CallSlot
<1>4. calls' \in [Funcs -> 0 .. 2]
  BY <1>1 DEF CallSlot, TypeOK
<1>5. ran' \in 0 .. MaxRun
  BY Constants DEF CallSlot
<1> QED BY <1>2, <1>3, <1>4, <1>5 DEF CallSlot, TypeOK, Places, flags

\* The end of a callback, with the entry that it asks for.
LEMMA FinishType ==
  ASSUME TypeOK, Handshake, EntryCalls, Finish
  PROVE  TypeOK'
<1>1. running \in [func : Funcs, from : {"entry", "inner1", "outer", "inner2"}]
  BY DEF TypeOK, Handshake, Finish
<1>2. table' \in [Slots -> {Empty} \cup [func : Funcs, left : -MaxLate .. Period]]
  <2>1. CASE UNCHANGED table
    BY <2>1 DEF TypeOK
  <2>2. CASE request_core1_callback_at(running.func, Period)
    <3>1. CASE Used = Slots
      BY <2>2, <3>1 DEF request_core1_callback_at, TypeOK
    <3>2. CASE Used # Slots
      <4>1. Entry(running.func, Period) \in [func : Funcs, left : -MaxLate .. Period]
        BY <1>1, Constants DEF Entry
      <4>2. table' = [table EXCEPT ![FirstFree] = Entry(running.func, Period)]
        BY <2>2, <3>2 DEF request_core1_callback_at
      <4> QED BY <4>1, <4>2 DEF TypeOK
    <3> QED BY <3>1, <3>2
  <2> QED BY <2>1, <2>2 DEF Finish
<1>3. slot' \in 0 .. CALLBACK_BUFFER_NUM
  BY Constants DEF Finish, EntryCalls, Slots
<1>4. pc1' \in Places
  BY <1>1 DEF Finish, Places
<1>5. ran' \in 0 .. MaxRun
  BY Constants DEF Finish
<1> QED BY <1>2, <1>3, <1>4, <1>5 DEF Finish, TypeOK, flags

\* Time passes: lateness is counted up to MaxLate.
LEMMA TickType ==
  ASSUME TypeOK, Tick
  PROVE  TypeOK'
<1>1. table' \in [Slots -> {Empty} \cup [func : Funcs, left : -MaxLate .. Period]]
  <2>1. ASSUME NEW i \in Slots, table[i] # Empty
        PROVE  Entry(table[i].func, Later(table[i].left))
                 \in [func : Funcs, left : -MaxLate .. Period]
    <3>1. i \in Used /\ table[i].func \in Funcs /\ table[i].left \in -MaxLate .. Period
      BY <2>1, UsedEntry DEF Used
    <3>2. Later(table[i].left) \in -MaxLate .. Period
      BY <3>1, Constants DEF Later
    <3> QED BY <3>1, <3>2 DEF Entry
  <2> QED BY <2>1 DEF Tick
<1>2. wake' \in 0 .. MaxSleep
  BY Constants DEF Tick, TypeOK
<1>3. ran' \in 0 .. MaxRun
  BY Constants DEF Tick, TypeOK
<1>4. slipped' \in BOOLEAN
  BY DEF Tick, TypeOK
<1> QED BY <1>1, <1>2, <1>3, <1>4 DEF Tick, TypeOK, flags
\* Every step keeps the types.
LEMMA TypeStep ==
  ASSUME IInv, [Next]_vars
  PROVE  TypeOK'
<1> USE DEF IInv
<1>1. CASE start_core1
  BY <1>1 DEF start_core1, TypeOK, time
<1>2. CASE stop_core1
  BY <1>2 DEF stop_core1, TypeOK, time
<1>3. ASSUME NEW f \in Funcs, request_core1_callback(f) PROVE TypeOK'
  <2>1. mailbox' \in Seq(Funcs) /\ Len(mailbox') = Len(mailbox) + 1
    BY <1>3 DEF request_core1_callback, TypeOK
  <2>2. Len(mailbox') <= MailboxSize
    BY <1>3, <2>1, Constants DEF request_core1_callback, TypeOK
  <2> QED BY <1>3, <2>1, <2>2 DEF request_core1_callback, TypeOK, time, flags
<1>4. CASE Launch
  <2>1. slot' \in 0 .. CALLBACK_BUFFER_NUM
    BY <1>4, Constants DEF Launch, TypeOK
  <2>2. mailbox' \in Seq(Funcs) /\ Len(mailbox') <= MailboxSize
    <3>1. << >> \in Seq(Funcs) /\ Len(<< >>) = 0
      OBVIOUS
    <3>2. mailbox' = mailbox \/ mailbox' = << >>
      BY <1>4 DEF Launch
    <3>3. CASE mailbox' = mailbox
      BY <3>3 DEF TypeOK
    <3>4. CASE mailbox' = << >>
      BY <3>1, <3>4, Constants
    <3> QED BY <3>2, <3>3, <3>4
  <2>3. calls' \in [Funcs -> 0 .. 2]
    BY <1>4 DEF Launch, TypeOK
  <2> QED BY <1>4, <2>1, <2>2, <2>3 DEF Launch, TypeOK, Places, time, flags
<1>5. CASE Started \/ Stopped
  BY <1>5 DEF Started, Stopped, TypeOK, time, flags
<1>6. CASE EntryCall
  BY <1>6, CallSlotType DEF EntryCall
<1>7. CASE EntryDone
  BY <1>7, Constants DEF EntryDone, Move, TypeOK, Places, time
<1>8. CASE Finish
  BY <1>8, FinishType
<1>9. CASE Sleep
  BY <1>9, FirstIsTime DEF Sleep, TypeOK, Places, flags
<1>10. CASE Wake
  BY <1>10, Constants DEF Wake, TypeOK, Places, flags, time
<1>11. CASE Leave
  BY <1>11 DEF Leave, TypeOK, Places
<1>12. ASSUME NEW at \in {"entry", "inner1", "inner2"}, Skip(at) PROVE TypeOK'
  <2>1. slot' \in 0 .. CALLBACK_BUFFER_NUM
    BY <1>12, Constants DEF Skip, Slots
  <2> QED BY <1>12, <2>1 DEF Skip, TypeOK, flags, time
<1>13. ASSUME NEW at \in {"entry", "inner1", "inner2"}, call_inner_requests(at) PROVE TypeOK'
  BY <1>13, CallSlotType DEF call_inner_requests
<1>14. CASE InnerDone("inner1", "outer") \/ InnerDone("inner2", "test")
  BY <1>14, Constants DEF InnerDone, Move, TypeOK, Places, time
<1>15. CASE call_outer_requests
  <2>1. /\ mailbox' \in Seq(Funcs) /\ Len(mailbox') <= MailboxSize
        /\ Head(mailbox) \in Funcs
    BY <1>15, Constants DEF call_outer_requests, TypeOK
  <2>2. running' \in [func : Funcs, from : {"entry", "inner1", "outer", "inner2"}]
    BY <1>15, <2>1 DEF call_outer_requests
  <2>3. ran' \in 0 .. MaxRun
    BY <1>15, Constants DEF call_outer_requests
  <2> QED BY <1>15, <2>1, <2>2, <2>3 DEF call_outer_requests, TypeOK, Places, flags
<1>16. CASE OuterDone
  BY <1>16, Constants DEF OuterDone, TypeOK, Places, flags, time
<1>17. CASE Tick
  BY <1>17, TickType
<1>18. CASE UNCHANGED vars
  BY <1>18 DEF vars, TypeOK
<1> QED BY <1>1, <1>2, <1>3, <1>4, <1>5, <1>6, <1>7, <1>8, <1>9, <1>10, <1>11, <1>12,
           <1>13, <1>14, <1>15, <1>16, <1>17, <1>18 DEF Next, Core0, Spin, core1_entry
-----------------------------------------------------------------------------
(* The handshake.                                                          *)

\* The steps of core 1 that stay in the main loop, or before it.
LEMMA CallHandshake ==
  ASSUME TypeOK, Handshake, NEW at \in {"entry", "inner1", "inner2"}, pc1 = at, CallSlot(at)
  PROVE  Handshake'
<1>1. running'.from = at /\ running' # None
  BY DEF CallSlot, None
<1> QED BY <1>1 DEF Handshake, InLoop, CallSlot, flags

\* Every step of either core keeps the handshake.
LEMMA HandshakeStep ==
  ASSUME IInv, [Next]_vars
  PROVE  Handshake'
<1> USE DEF IInv
<1>1. CASE start_core1 \/ stop_core1
  BY <1>1 DEF start_core1, stop_core1, Handshake, InLoop, TypeOK
<1>2. ASSUME NEW f \in Funcs, request_core1_callback(f) PROVE Handshake'
  BY <1>2 DEF request_core1_callback, Handshake, InLoop, flags
<1>3. CASE Launch
  BY <1>3 DEF Launch, Handshake, InLoop, flags
<1>4. CASE Started \/ Stopped
  BY <1>4 DEF Started, Stopped, Handshake, InLoop, flags
<1>5. CASE EntryCall
  BY <1>5, CallHandshake DEF EntryCall
<1>6. CASE EntryDone
  BY <1>6 DEF EntryDone, Move, Handshake, InLoop
<1>7. CASE Finish
  <2>1. running.from \in {"entry", "inner1", "outer", "inner2"}
    BY <1>7 DEF Finish, Handshake, TypeOK
  <2> QED BY <1>7, <2>1 DEF Finish, Handshake, InLoop, flags
<1>8. CASE Sleep \/ Wake
  BY <1>8 DEF Sleep, Wake, Handshake, InLoop, flags
<1>9. CASE Leave
  BY <1>9 DEF Leave, Handshake, InLoop, TypeOK
<1>10. ASSUME NEW at \in {"entry", "inner1", "inner2"}, Skip(at) PROVE Handshake'
  BY <1>10 DEF Skip, Handshake, InLoop, flags
<1>11. ASSUME NEW at \in {"inner1", "inner2"}, call_inner_requests(at) PROVE Handshake'
  BY <1>11, CallHandshake DEF call_inner_requests
<1>12. CASE InnerDone("inner1", "outer") \/ InnerDone("inner2", "test")
  BY <1>12 DEF InnerDone, Move, Handshake, InLoop
<1>13. CASE call_outer_requests
  <2>1. running'.from = "outer" /\ running' # None
    BY <1>13 DEF call_outer_requests, None
  <2> QED BY <1>13, <2>1 DEF call_outer_requests, Handshake, InLoop, flags
<1>14. CASE OuterDone
  BY <1>14 DEF OuterDone, Handshake, InLoop, flags
<1>15. CASE Tick
  BY <1>15 DEF Tick, Handshake, InLoop, flags
<1>16. CASE UNCHANGED vars
  BY <1>16 DEF vars, Handshake, InLoop
<1> QED BY <1>1, <1>2, <1>3, <1>4, <1>5, <1>6, <1>7, <1>8, <1>9, <1>10, <1>11, <1>12,
           <1>13, <1>14, <1>15, <1>16 DEF Next, Core0, Spin, core1_entry
-----------------------------------------------------------------------------
(* One function, one place.                                                *)

\* What a step does to the table: it takes an entry out, puts the function
\* that was running in, or lets time pass.
LEMMA CallTable ==
  ASSUME TypeOK, slot \in Slots, NEW at, CallSlot(at)
  PROVE  /\ slot \in Used /\ Used' = Used \ {slot}
         /\ \A i \in Used' : table'[i] = table[i]
         /\ running'.func = table[slot].func /\ running'.from = at
         /\ mailbox' = mailbox /\ slot' = slot
<1>1. slot \in Used
  BY DEF CallSlot, Used
<1>2. table' = [table EXCEPT ![slot] = Empty] /\ DOMAIN table = Slots
  BY DEF CallSlot, TypeOK
<1> QED BY <1>1, <1>2 DEF CallSlot, Used

\* The end of a callback fills at most the first free slot, with its function.
LEMMA FinishTable ==
  ASSUME TypeOK, Handshake, Finish
  PROVE  /\ running.func \in Funcs /\ running'.func = "none" /\ mailbox' = mailbox
         /\ \/ table' = table /\ Used' = Used
            \/ /\ Used # Slots /\ Used' = Used \cup {FirstFree}
               /\ table'[FirstFree].func = running.func
               /\ table'[FirstFree].left = Period
               /\ \A i \in Used : table'[i] = table[i]
<1>1. running.func \in Funcs /\ running'.func = "none" /\ mailbox' = mailbox
  BY DEF TypeOK, Handshake, Finish, None
<1>2. CASE UNCHANGED table
  BY <1>1, <1>2 DEF Used
<1>3. CASE request_core1_callback_at(running.func, Period)
  <2>1. CASE Used = Slots
    BY <1>1, <1>3, <2>1 DEF request_core1_callback_at, Used
  <2>2. CASE Used # Slots
    <3>1. FirstFree \in Slots \ Used
      BY <2>2, FirstFreeIsFree
    <3>2. Entry(running.func, Period) # Empty
          /\ Entry(running.func, Period).func = running.func
          /\ Entry(running.func, Period).left = Period
      BY <1>1, Constants DEF Entry, Empty
    <3>3. table' = [table EXCEPT ![FirstFree] = Entry(running.func, Period)]
          /\ DOMAIN table = Slots
      BY <1>3, <2>2 DEF request_core1_callback_at, TypeOK
    <3>4. Used' = Used \cup {FirstFree}
      BY <3>1, <3>2, <3>3 DEF Used
    <3>5. /\ table'[FirstFree].func = running.func /\ table'[FirstFree].left = Period
          /\ \A i \in Used : table'[i] = table[i]
      BY <3>1, <3>2, <3>3 DEF Used
    <3> QED BY <1>1, <2>2, <3>4, <3>5
  <2> QED BY <2>1, <2>2
<1> QED BY <1>2, <1>3 DEF Finish

\* Time changes no function and no slot's use.
LEMMA TickTable ==
  ASSUME TypeOK, Tick
  PROVE  /\ Used' = Used /\ \A i \in Used : table'[i].func = table[i].func
         /\ mailbox' = mailbox /\ running' = running /\ calls' = calls
         /\ slot' = slot /\ pc1' = pc1
<1>1. ASSUME NEW i \in Slots
      PROVE  /\ (table[i] = Empty) <=> (table'[i] = Empty)
             /\ table'[i].func = table[i].func
  <2>1. CASE table[i] = Empty
    BY <2>1 DEF Tick
  <2>2. CASE table[i] # Empty
    <3>1. table[i].func \in Funcs
      BY <2>2, UsedEntry DEF Used
    <3>2. table'[i] = Entry(table[i].func, Later(table[i].left))
      BY <2>2 DEF Tick
    <3> QED BY <2>2, <3>1, <3>2, Constants DEF Entry, Empty
  <2> QED BY <2>1, <2>2
<1> QED BY <1>1 DEF Tick, Used

\* It takes one tick from what an entry has left, or nothing.
LEMMA TickLeft ==
  ASSUME TypeOK, Tick, NEW i \in Used
  PROVE  table'[i].left >= table[i].left - 1 /\ table'[i].left \in Int
<1>1. table[i].left \in Int /\ i \in Slots /\ table[i] # Empty
  BY UsedEntry, Constants DEF Used
<1>2. table'[i].left = Later(table[i].left)
  BY <1>1 DEF Tick, Entry
<1> QED BY <1>1, <1>2, Constants DEF Later

\* Every step keeps each function in one place.
LEMMA OnePlaceStep ==
  ASSUME IInv, [Next]_vars
  PROVE  OnePlace'
<1> USE DEF IInv
<1>1. ASSUME UNCHANGED <<table, mailbox, running>> PROVE OnePlace'
  BY <1>1 DEF OnePlace, Used
<1>2. ASSUME NEW f \in Funcs, request_core1_callback(f) PROVE OnePlace'
  <2>1. /\ \A i \in Used : table[i].func # f
        /\ \A k \in 1 .. Len(mailbox) : mailbox[k] # f
        /\ running.func # f
    BY <1>2 DEF request_core1_callback, Asked, InMailbox, Used
  <2>2. /\ Len(mailbox') = Len(mailbox) + 1 /\ mailbox'[Len(mailbox) + 1] = f
        /\ \A k \in 1 .. Len(mailbox) : mailbox'[k] = mailbox[k]
        /\ Len(mailbox) \in Nat
    BY <1>2 DEF request_core1_callback, TypeOK
  <2>3. Used' = Used /\ table' = table /\ running' = running
    BY <1>2 DEF request_core1_callback, Used
  <2>4. \A k \in 1 .. Len(mailbox') : k \in 1 .. Len(mailbox) \/ k = Len(mailbox) + 1
    BY <2>2
  <2> QED BY <2>1, <2>2, <2>3, <2>4 DEF OnePlace
<1>3. CASE Launch
  <2>1. CASE started
    BY <1>1, <1>3, <2>1 DEF Launch
  <2>2. CASE ~started
    <3>1. table' = table /\ Used' = Used /\ mailbox' = << >> /\ running'.func = "none"
      BY <1>3, <2>2 DEF Launch, Used, None
    <3>2. \A i \in Used : table[i].func # "none"
      BY UsedEntry, Constants
    <3>3. 1 .. Len(mailbox') = {}
      BY <3>1
    <3> QED BY <3>1, <3>2, <3>3 DEF OnePlace
  <2> QED BY <2>1, <2>2
<1>4. ASSUME NEW at, slot \in Slots, CallSlot(at) PROVE OnePlace'
  BY <1>4, CallTable DEF OnePlace
<1>5. CASE Finish
  <2>1. \A i \in Used : table[i].func # "none"
    BY UsedEntry, Constants
  <2>2. \A k \in 1 .. Len(mailbox) : mailbox[k] \in Funcs
    BY DEF TypeOK
  <2>3. CASE table' = table /\ Used' = Used
    BY <1>5, <2>1, <2>2, <2>3, FinishTable, Constants DEF OnePlace
  <2>4. CASE /\ Used # Slots /\ Used' = Used \cup {FirstFree}
             /\ table'[FirstFree].func = running.func
             /\ \A i \in Used : table'[i] = table[i]
    <3>1. FirstFree \notin Used
      BY <2>4, FirstFreeIsFree
    <3>2. \A i \in Used' : table'[i].func = IF i = FirstFree THEN running.func ELSE table[i].func
      BY <2>4, <3>1
    <3>3. running.func # "none" /\ running'.func = "none" /\ mailbox' = mailbox
      BY <1>5, FinishTable, Constants
    <3> QED BY <2>1, <2>2, <2>4, <3>1, <3>2, <3>3, Constants DEF OnePlace
  <2> QED BY <1>5, <2>3, <2>4, FinishTable
<1>6. CASE call_outer_requests
  <2>1. /\ running'.func = mailbox[1] /\ Len(mailbox) \in Nat \ {0}
        /\ Len(mailbox') = Len(mailbox) - 1
        /\ \A k \in 1 .. Len(mailbox') : mailbox'[k] = mailbox[k + 1]
        /\ table' = table /\ Used' = Used
    BY <1>6 DEF call_outer_requests, TypeOK, Used
  <2>2. 1 \in 1 .. Len(mailbox) /\ \A k \in 1 .. Len(mailbox') : k + 1 \in 1 .. Len(mailbox)
    BY <2>1
  <2>3. \A i \in Used' : table'[i].func # running'.func
    BY <2>1, <2>2 DEF OnePlace
  <2>4. ASSUME NEW k \in 1 .. Len(mailbox')
        PROVE  /\ mailbox'[k] # running'.func
               /\ \A i \in Used' : mailbox'[k] # table'[i].func
               /\ \A l \in 1 .. Len(mailbox') : k # l => mailbox'[k] # mailbox'[l]
    <3>1. k + 1 # 1 /\ \A l \in 1 .. Len(mailbox') : k # l => k + 1 # l + 1
      BY <2>1
    <3> QED BY <2>1, <2>2, <3>1 DEF OnePlace
  <2>5. \A i, j \in Used' : i # j => table'[i].func # table'[j].func
    BY <2>1 DEF OnePlace
  <2> QED BY <2>3, <2>4, <2>5 DEF OnePlace
<1>7. CASE Tick
  BY <1>7, TickTable DEF OnePlace
<1> QED
  BY <1>1, <1>2, <1>3, <1>4, <1>5, <1>6, <1>7
  DEF Next, Core0, Spin, core1_entry, start_core1, stop_core1, Started, Stopped,
      EntryCall, EntryDone, Move, Sleep, Wake, Leave, Skip, call_inner_requests,
      InnerDone, OuterDone, vars
-----------------------------------------------------------------------------
(* The calls of a restart.                                                 *)

\* A call before the main loop is the first of its function since the start.
LEMMA EntryCallStep ==
  ASSUME IInv, EntryCall
  PROVE  EntryCalls'
<1> USE DEF IInv
<1>1. /\ slot \in Used /\ Used' = Used \ {slot} /\ slot' = slot
      /\ \A i \in Used' : table'[i] = table[i]
      /\ running'.func = table[slot].func /\ running'.from = "entry"
      /\ pc1' = "call" /\ pc1 = "entry"
  BY CallTable DEF EntryCall, CallSlot
<1>2. table[slot].func \in Funcs /\ calls[table[slot].func] = 0
  <2>1. slot \in Nat
    BY <1>1, Constants DEF Used
  <2>2. calls[table[slot].func] = IF slot < slot THEN 1 ELSE 0
    BY <1>1 DEF EntryCalls, CalledSoFar
  <2> QED BY <1>1, <2>1, <2>2, UsedEntry
<1>3. /\ calls'[table[slot].func] = 1
      /\ \A f \in Funcs : f # table[slot].func => calls'[f] = calls[f]
  BY <1>2 DEF EntryCall, CallSlot, TypeOK
<1>4. \A f \in Funcs : calls'[f] < 2
  BY <1>3 DEF EntryCalls
<1>5. ASSUME NEW i \in Used'
      PROVE  calls'[table'[i].func] = IF i < slot' THEN 1 ELSE 0
  <2>1. i \in Used /\ i # slot /\ table'[i] = table[i]
    BY <1>1
  <2>2. table[i].func # table[slot].func /\ table[i].func \in Funcs
    BY <1>1, <2>1, UsedEntry DEF OnePlace
  <2> QED BY <1>1, <1>3, <2>1, <2>2 DEF EntryCalls, CalledSoFar
<1>6. slot' \in Slots \ Used'
  BY <1>1 DEF Used
<1> QED BY <1>1, <1>3, <1>4, <1>5, <1>6 DEF EntryCalls, CalledSoFar

\* The function that was called puts itself in front of the loop, so that the
\* loop does not meet it again.
LEMMA EntryFinishStep ==
  ASSUME IInv, Finish, running.from = "entry"
  PROVE  EntryCalls'
<1> USE DEF IInv
<1>1. /\ slot \in Slots \ Used /\ calls[running.func] = 1 /\ CalledSoFar
      /\ pc1' = "entry" /\ slot' = slot + 1 /\ calls' = calls
  BY DEF EntryCalls, Finish
<1>2. ASSUME NEW i \in Used'
      PROVE  calls'[table'[i].func] = IF i < slot' THEN 1 ELSE 0
  <2>1. slot \in Nat /\ \A j \in Used : j \in Nat /\ j # slot
    BY <1>1, Constants DEF Used
  <2>2. CASE table' = table /\ Used' = Used
    BY <1>1, <2>1, <2>2 DEF CalledSoFar
  <2>3. CASE /\ Used # Slots /\ Used' = Used \cup {FirstFree}
             /\ table'[FirstFree].func = running.func
             /\ \A j \in Used : table'[j] = table[j]
    <3>1. FirstFree \in Slots \ Used /\ FirstFree <= slot /\ FirstFree \in Nat
      BY <1>1, <2>3, FirstFreeIsFree, Constants
    <3>2. CASE i = FirstFree
      BY <1>1, <2>1, <2>3, <3>1, <3>2
    <3>3. CASE i \in Used
      BY <1>1, <2>1, <2>3, <3>3 DEF CalledSoFar
    <3> QED BY <2>3, <3>2, <3>3
  <2> QED BY <2>2, <2>3, FinishTable
<1> QED BY <1>1, <1>2 DEF EntryCalls, CalledSoFar

\* Every step keeps the account of the calls of a restart.
LEMMA EntryCallsStep ==
  ASSUME IInv, [Next]_vars
  PROVE  EntryCalls'
<1> USE DEF IInv
<1>1. ASSUME UNCHANGED <<table, pc1, slot, running, calls>> PROVE EntryCalls'
  BY <1>1 DEF EntryCalls, CalledSoFar, Used
<1>2. ASSUME pc1' \notin {"entry", "call"}, calls' = calls PROVE EntryCalls'
  BY <1>2 DEF EntryCalls
<1>3. ASSUME running'.from # "entry", pc1' = "call", calls' = calls PROVE EntryCalls'
  BY <1>3 DEF EntryCalls
<1>4. CASE Launch /\ ~started
  <2>1. /\ pc1' = "entry" /\ slot' = 0 /\ table' = table /\ Used' = Used
        /\ calls' = [f \in Funcs |-> 0]
    BY <1>4 DEF Launch, Used
  <2>2. \A i \in Used : i \in Nat /\ table[i].func \in Funcs
    BY UsedEntry, Constants
  <2> QED BY <2>1, <2>2 DEF EntryCalls, CalledSoFar
<1>5. CASE EntryCall
  BY <1>5, EntryCallStep
<1>6. CASE Finish
  <2>1. CASE running.from = "entry"
    BY <1>6, <2>1, EntryFinishStep
  <2>2. CASE running.from # "entry"
    <3>1. running.from \in {"inner1", "outer", "inner2"}
      BY <1>6, <2>2 DEF Finish, Handshake, TypeOK
    <3> QED BY <1>2, <1>6, <3>1 DEF Finish
  <2> QED BY <2>1, <2>2
<1>7. CASE Skip("entry")
  <2>1. /\ pc1 = "entry" /\ pc1' = "entry" /\ slot \in Slots \ Used /\ slot' = slot + 1
        /\ table' = table /\ calls' = calls /\ Used' = Used
    BY <1>7 DEF Skip, Used
  <2>2. \A i \in Used : i \in Nat /\ i # slot
    BY <2>1, Constants DEF Used
  <2>3. slot \in Nat
    BY <2>1, Constants
  <2> QED BY <2>1, <2>2, <2>3 DEF EntryCalls, CalledSoFar
<1>8. ASSUME NEW at \in {"inner1", "inner2"}, Skip(at) PROVE EntryCalls'
  BY <1>2, <1>8 DEF Skip
<1>9. ASSUME NEW at \in {"inner1", "inner2"}, call_inner_requests(at) PROVE EntryCalls'
  BY <1>3, <1>9 DEF call_inner_requests, CallSlot
<1>10. CASE call_outer_requests
  BY <1>3, <1>10 DEF call_outer_requests
<1>11. CASE Tick
  BY <1>11, TickTable DEF EntryCalls, CalledSoFar
<1>12. CASE EntryDone \/ InnerDone("inner1", "outer") \/ InnerDone("inner2", "test")
  BY <1>2, <1>12 DEF EntryDone, InnerDone, Move
<1>13. CASE OuterDone \/ Sleep \/ Wake \/ Leave
  BY <1>2, <1>13 DEF OuterDone, Sleep, Wake, Leave
<1>14. CASE Launch /\ started
  BY <1>1, <1>14 DEF Launch
<1>15. CASE Core0 \/ Started \/ Stopped \/ UNCHANGED vars
  BY <1>1, <1>15 DEF Core0, start_core1, stop_core1, request_core1_callback, Started,
       Stopped, vars
<1> QED BY <1>4, <1>5, <1>6, <1>7, <1>8, <1>9, <1>10, <1>11, <1>12, <1>13, <1>14, <1>15
           DEF Next, Spin, core1_entry
-----------------------------------------------------------------------------
(* The theorems.                                                           *)

\* The initial states satisfy the inductive invariant.
LEMMA InitIInv == Init => IInv
<1> SUFFICES ASSUME Init PROVE IInv
  OBVIOUS
<1>1. TypeOK
  BY TypeInit
<1>2. Used = {}
  BY DEF Init, Used
<1>3. Handshake
  BY DEF Init, Handshake, InLoop
<1>4. OnePlace
  <2>1. 1 .. Len(mailbox) = {}
    BY DEF Init
  <2> QED BY <1>2, <2>1 DEF OnePlace
<1>5. EntryCalls
  BY DEF Init, EntryCalls
<1> QED BY <1>1, <1>3, <1>4, <1>5 DEF IInv

\* Every step keeps the inductive invariant.
LEMMA NextIInv == IInv /\ [Next]_vars => IInv'
BY TypeStep, HandshakeStep, OnePlaceStep, EntryCallsStep DEF IInv

\* The inductive invariant holds in every reachable state.
LEMMA AlwaysIInv == Spec => []IInv
BY InitIInv, NextIInv, PTL DEF Spec

\* The loops and the table of core1.c keep their type.
THEOREM TypeCorrect == Spec => []TypeOK
<1>1. IInv => TypeOK
  BY DEF IInv
<1> QED BY <1>1, AlwaysIInv, PTL

\* When stop_core1 has returned core 1 is off, until start_core1 is called.
THEOREM QuietWhenStopped == Spec => []StoppedIsQuiet
<1>1. IInv => StoppedIsQuiet
  BY DEF IInv, Handshake, StoppedIsQuiet
<1> QED BY <1>1, AlwaysIInv, PTL

\* A restart calls each function that waits in the table once, although those
\* functions put themselves into the table again while the loop goes over it.
THEOREM RestartsCallOnce == Spec => []RestartCallsOnce
<1>1. IInv => RestartCallsOnce
  BY DEF IInv, EntryCalls, CalledSoFar, RestartCallsOnce
<1> QED BY <1>1, AlwaysIInv, PTL

\* While a function runs, the others cannot fill the table.
LEMMA RoomForRunning ==
  ASSUME IInv, running # None
  PROVE  Used # Slots
<1> SUFFICES ASSUME Used = Slots PROVE FALSE
  OBVIOUS
<1> DEFINE others == Funcs \ {running.func}
           f == [i \in Slots |-> table[i].func]
<1>1. running.func \in Funcs
  BY DEF IInv, TypeOK
<1>2. \A i \in Slots : table[i].func \in others
  BY UsedEntry DEF IInv, OnePlace
<1>3. f \in Injection(Slots, others)
  <2>1. f \in [Slots -> others]
    BY <1>2
  <2>2. \A i, j \in Slots : f[i] = f[j] => i = j
    BY DEF IInv, OnePlace
  <2> QED BY <2>1, <2>2, Fun_IsInj
<1>4. IsFiniteSet(others) /\ Cardinality(others) = Cardinality(Funcs) - 1
  BY <1>1, Core1Assumption, FS_RemoveElement
<1>5. Cardinality(Slots) <= Cardinality(others)
  <2> HIDE DEF f, others
  <2> QED BY <1>3, <1>4, FS_Injection
<1>6. Cardinality(Slots) = CALLBACK_BUFFER_NUM
  BY Constants, FS_Interval DEF Slots
<1>7. Cardinality(Funcs) \in Nat /\ Cardinality(Funcs) <= CALLBACK_BUFFER_NUM
  BY Core1Assumption, FS_CardinalityType
<1> QED BY <1>4, <1>5, <1>6, <1>7, Constants

\* A chain of callbacks keeps its place in the table, whatever else is asked
\* for: the table has an entry for each function.
THEOREM ChainsKeepPlace == Spec => ChainsKept
<1> DEFINE Kept == running.func \in Again /\ running' = None =>
                     \E i \in Slots : table'[i].func = running.func
<1>1. ASSUME IInv, [Next]_vars PROVE [Kept]_vars
  <2> SUFFICES ASSUME Next, running.func \in Again, running' = None
               PROVE  \E i \in Slots : table'[i].func = running.func
    BY <1>1
  <2>1. running # None
    BY Constants DEF None
  <2>2. CASE Finish
    <3>1. request_core1_callback_at(running.func, Period)
      BY <2>2 DEF Finish
    <3>2. Used # Slots /\ FirstFree \in Slots
      BY <1>1, <2>1, RoomForRunning, FirstFreeIsFree
    <3>3. table' = [table EXCEPT ![FirstFree] = Entry(running.func, Period)]
          /\ DOMAIN table = Slots
      BY <1>1, <3>1, <3>2 DEF request_core1_callback_at, IInv, TypeOK
    <3>4. table'[FirstFree].func = running.func
      BY <3>2, <3>3 DEF Entry
    <3> QED BY <3>2, <3>4
  <2>3. CASE Launch
    <3>1. ~started
      BY <2>1, <2>3 DEF Launch
    <3>2. pc1 = "off"
      BY <1>1, <2>3, <3>1 DEF Launch, IInv, Handshake
    <3> QED BY <1>1, <2>1, <3>2 DEF IInv, Handshake
  <2>4. CASE UNCHANGED running
    BY <2>1, <2>4
  <2>5. ASSUME NEW at \in {"entry", "inner1", "inner2"}, CallSlot(at) PROVE FALSE
    BY <2>5 DEF CallSlot, None
  <2>6. CASE call_outer_requests
    BY <2>6 DEF call_outer_requests, None
  <2> QED
    BY <2>2, <2>3, <2>4, <2>5, <2>6
    DEF Next, Core0, Spin, core1_entry, start_core1, stop_core1, request_core1_callback,
        Started, Stopped, EntryCall, EntryDone, Move, Sleep, Wake, Leave, Skip,
        call_inner_requests, InnerDone, OuterDone, Tick
<1>2. Spec => [][Kept]_vars
  BY <1>1, AlwaysIInv, PTL DEF Spec
<1> QED BY <1>2 DEF ChainsKept
-----------------------------------------------------------------------------
(* In time.  A round of the loop calls a set D of functions, each of them  *)
(* once: an entry that was not called is late by at most the calls of D,   *)
(* and one that was has its period less those of the others of D.          *)

\* The calls of all other functions take less than a period.
CallsFit == (Cardinality(Funcs) - 1) * MaxRun < Period

Cost(D) == Cardinality(D) * MaxRun
Slack   == IF pc1 = "call" THEN MaxRun - ran ELSE 0
Due(f, D, base) == IF f \in D THEN Period ELSE base
Late(D, base) ==
  \A i \in Used : table[i].left >= (Due(table[i].func, D, base) - Cost(D \ {table[i].func})) + Slack

Within(p) == pc1 = p \/ (pc1 = "call" /\ running.from = p)
\* What an uncalled entry has left, at least, where the round begins that p is in.
Base(p) == IF p = "entry" THEN -MaxLate - MaxRun ELSE IF p = "inner1" THEN -MaxSleep ELSE 1
CalledOnce == {f \in Funcs : calls[f] = 1}

RoundOf(p, D) ==
  /\ Late(D, Base(p))
  /\ pc1 = "call" => running.func \in D
  /\ p = "entry" => D = CalledOnce
  /\ p = "outer" => D \subseteq asks /\ \A k \in 1 .. Len(mailbox) : mailbox[k] \notin D
Loops  == {"entry", "inner1", "outer", "inner2"}
Rounds == \A p \in Loops : Within(p) => \E D \in SUBSET Funcs : RoundOf(p, D)

\* Between the rounds, and in front of the slot that a loop has come to.
Resting ==
  /\ pc1 # "test" => ~slipped
  /\ pc1 = "test" => \A i \in Used : table[i].left >= IF slipped THEN 0 ELSE 1
  /\ pc1 = "sleep" => \A i \in Used : table[i].left >= wake - MaxSleep
  /\ pc1 \in {"inner1", "inner2"} => \A i \in Used : i < slot => table[i].left > 0
  /\ \A k \in 1 .. Len(mailbox) : mailbox[k] \in asks

TInv == Rounds /\ Resting

\* The cost of a set of functions.
LEMMA CostType ==
  ASSUME NEW D \in SUBSET Funcs
  PROVE  Cost(D) \in Nat /\ Cost({}) = 0
<1>1. Cardinality(D) \in Nat /\ Cardinality({}) = 0
  BY Core1Assumption, FS_Subset, FS_CardinalityType, FS_EmptySet
<1> QED BY <1>1, Constants DEF Cost

\* One more function costs one call more.
LEMMA CostAdd ==
  ASSUME NEW D \in SUBSET Funcs, NEW f \in Funcs \ D
  PROVE  Cost(D \cup {f}) = Cost(D) + MaxRun
<1>1. IsFiniteSet(D)
  BY Core1Assumption, FS_Subset
<1>2. Cardinality(D \cup {f}) = Cardinality(D) + 1 /\ Cardinality(D) \in Nat
  BY <1>1, FS_AddElement, FS_CardinalityType
<1> DEFINE c == Cardinality(D)
<1>3. \A n \in Nat : (n + 1) * MaxRun = (n * MaxRun) + MaxRun
  BY Constants
<1> QED BY <1>2, <1>3 DEF Cost

\* All functions but one take less than a period.
LEMMA CostOthers ==
  ASSUME NEW D \in SUBSET Funcs, NEW f \in Funcs
  PROVE  /\ Cost(D \ {f}) \in Nat
         /\ Cost(D \ {f}) <= (Cardinality(Funcs) - 1) * MaxRun
         /\ (Cardinality(Funcs) - 1) * MaxRun \in Nat
<1> DEFINE S == Funcs \ {f}
           a == Cardinality(D \ {f})
           b == Cardinality(Funcs) - 1
<1>1. IsFiniteSet(S) /\ Cardinality(S) = b
  BY Core1Assumption, FS_RemoveElement
<1>2. D \ {f} \subseteq S
  OBVIOUS
<1>3. a <= b /\ a \in Nat /\ b \in Nat
  <2>1. IsFiniteSet(D \ {f}) /\ a <= Cardinality(S)
    BY <1>1, <1>2, FS_Subset
  <2>2. a \in Nat /\ Cardinality(S) \in Nat
    BY <1>1, <2>1, FS_CardinalityType
  <2> QED BY <1>1, <2>1, <2>2
<1>4. \A m, n \in Nat : m <= n => m * MaxRun <= n * MaxRun /\ m * MaxRun \in Nat /\ n * MaxRun \in Nat
  BY Constants
<1>5. a * MaxRun <= b * MaxRun /\ a * MaxRun \in Nat /\ b * MaxRun \in Nat
  <2> HIDE DEF a, b
  <2> QED BY <1>3, <1>4
<1> QED BY <1>5 DEF Cost

\* What the table says in a round does not depend on how it is reached.
LEMMA Lateness ==
  ASSUME TypeOK, NEW D \in SUBSET Funcs, NEW base \in Int, NEW i \in Used
  PROVE  /\ table[i].func \in Funcs /\ table[i].left \in Int
         /\ Due(table[i].func, D, base) \in Int
         /\ Cost(D \ {table[i].func}) \in Nat
         /\ Slack \in Nat
<1>1. table[i].func \in Funcs /\ table[i].left \in -MaxLate .. Period
  BY UsedEntry
<1>2. table[i].left \in Int
  BY <1>1, Constants
<1>3. Slack \in Nat
  BY Constants DEF Slack, TypeOK
<1> QED BY <1>1, <1>2, <1>3, Constants, CostOthers DEF Due

\* A function that is called joins the round: its call is still to be spent.
LEMMA LateCall ==
  ASSUME TypeOK, NEW D \in SUBSET Funcs, NEW base \in Int, Late(D, base),
         NEW f \in Funcs \ D, pc1 # "call", pc1' = "call", ran' = 0,
         Used' \subseteq Used,
         \A i \in Used' : table'[i] = table[i] /\ table[i].func # f
  PROVE  Late(D \cup {f}, base)'
<1> SUFFICES ASSUME NEW i \in Used'
             PROVE  table'[i].left >= (Due(table'[i].func, D \cup {f}, base)
                      - Cost((D \cup {f}) \ {table'[i].func})) + Slack'
  BY DEF Late
<1> DEFINE g == table[i].func
<1>1. i \in Used /\ table'[i] = table[i] /\ g # f
  OBVIOUS
<1>2. g \in Funcs /\ table[i].left \in Int /\ Due(g, D, base) \in Int /\ Cost(D \ {g}) \in Nat
  BY <1>1, Lateness
<1>3. table[i].left >= Due(g, D, base) - Cost(D \ {g})
  <2>1. Slack = 0
    BY DEF Slack
  <2>2. table[i].left >= (Due(g, D, base) - Cost(D \ {g})) + Slack
    BY <1>1 DEF Late
  <2> QED BY <1>2, <2>1, <2>2
<1>4. (D \cup {f}) \ {g} = (D \ {g}) \cup {f}
  BY <1>1
<1>5. Cost((D \cup {f}) \ {g}) = Cost(D \ {g}) + MaxRun
  BY <1>4, CostAdd
<1>6. Due(g, D \cup {f}, base) = Due(g, D, base)
  BY <1>1 DEF Due
<1>7. Slack' = MaxRun
  BY Constants DEF Slack
<1> HIDE DEF g
<1>8. table[i].left >= (Due(g, D \cup {f}, base) - Cost((D \cup {f}) \ {g})) + Slack'
  BY <1>2, <1>3, <1>5, <1>6, <1>7, Constants
<1> QED BY <1>1, <1>8 DEF g

\* The function that has ended its call asks for its period, or no more.
LEMMA LateFinish ==
  ASSUME TypeOK, Handshake, Finish, NEW D \in SUBSET Funcs, NEW base \in Int, Late(D, base),
         running.func \in D
  PROVE  Late(D, base)'
<1> SUFFICES ASSUME NEW i \in Used'
             PROVE  table'[i].left >= (Due(table'[i].func, D, base)
                      - Cost(D \ {table'[i].func})) + Slack'
  BY DEF Late
<1>1. Slack' = 0
  <2>1. running.from # "call"
    BY DEF Finish, Handshake, TypeOK
  <2> QED BY <2>1 DEF Finish, Slack
<1>2. CASE i \in Used /\ table'[i] = table[i]
  <2>1. table[i].left >= (Due(table[i].func, D, base) - Cost(D \ {table[i].func})) + Slack
    BY <1>2 DEF Late
  <2>2. /\ table[i].left \in Int /\ Due(table[i].func, D, base) \in Int
        /\ Cost(D \ {table[i].func}) \in Nat /\ Slack \in Nat
    BY <1>2, Lateness
  <2> QED BY <1>1, <1>2, <2>1, <2>2
<1>3. CASE i = FirstFree /\ table'[i].func = running.func /\ table'[i].left = Period
  <2>1. Due(running.func, D, base) = Period /\ Cost(D \ {running.func}) \in Nat
    BY CostOthers DEF Due
  <2> QED BY <1>1, <1>3, <2>1, Constants
<1> QED BY <1>2, <1>3, FinishTable

\* Time in a call is taken from what the call may still spend.
LEMMA LateTick ==
  ASSUME TypeOK, Tick, pc1 = "call", NEW D \in SUBSET Funcs, NEW base \in Int, Late(D, base)
  PROVE  Late(D, base)'
<1> SUFFICES ASSUME NEW i \in Used'
             PROVE  table'[i].left >= (Due(table'[i].func, D, base)
                      - Cost(D \ {table'[i].func})) + Slack'
  BY DEF Late
<1>1. i \in Used /\ table'[i].func = table[i].func
  BY TickTable
<1>2. table'[i].left >= table[i].left - 1 /\ table'[i].left \in Int
  BY <1>1, TickLeft
<1>3. table[i].left >= (Due(table[i].func, D, base) - Cost(D \ {table[i].func})) + Slack
  BY <1>1 DEF Late
<1>4. /\ table[i].left \in Int /\ Due(table[i].func, D, base) \in Int
      /\ Cost(D \ {table[i].func}) \in Nat /\ Slack \in Nat
  BY <1>1, Lateness
<1>5. Slack' = Slack - 1
  BY Constants DEF Slack, Tick, TypeOK
<1> QED BY <1>1, <1>2, <1>3, <1>4, <1>5

\* A function of the round is not due again.
LEMMA CalledIsEarly ==
  ASSUME TypeOK, CallsFit, NEW D \in SUBSET Funcs, NEW base \in Int, Late(D, base),
         NEW i \in Used, table[i].func \in D
  PROVE  table[i].left > 0
<1>1. table[i].left >= (Period - Cost(D \ {table[i].func})) + Slack
  BY DEF Late, Due
<1>2. /\ table[i].func \in Funcs /\ table[i].left \in Int
      /\ Cost(D \ {table[i].func}) \in Nat /\ Slack \in Nat
  BY Lateness
<1>3. /\ Cost(D \ {table[i].func}) <= (Cardinality(Funcs) - 1) * MaxRun
      /\ (Cardinality(Funcs) - 1) * MaxRun \in Nat
  BY <1>2, CostOthers
<1> QED BY <1>1, <1>2, <1>3, Constants DEF CallsFit

\* A round that calls nothing yet: every entry has what it had at least.
LEMMA NewRound ==
  ASSUME TypeOK, NEW base \in Int, pc1 # "call", \A i \in Used : table[i].left >= base
  PROVE  Late({}, base)
<1> SUFFICES ASSUME NEW i \in Used
             PROVE  table[i].left >= (Due(table[i].func, {}, base) - Cost({} \ {table[i].func})) + Slack
  BY DEF Late
<1>1. Cost({} \ {table[i].func}) = 0 /\ Slack = 0 /\ Due(table[i].func, {}, base) = base
  <2>1. {} \ {table[i].func} = {}
    OBVIOUS
  <2> QED BY <2>1, CostType DEF Slack, Due
<1>2. table[i].left \in Int
  BY UsedEntry, Constants
<1> QED BY <1>1, <1>2

LEMMA BaseType == \A p \in Loops : Base(p) \in Int
BY Constants DEF Base

\* The rounds: every step keeps the account of the round that it is in, or begins one.
LEMMA RoundsStep ==
  ASSUME IInv, TInv, CallsFit, [Next]_vars
  PROVE  Rounds'
<1> USE DEF IInv
<1>1. ASSUME UNCHANGED <<table, mailbox, pc1, running, ran, asks, calls>> PROVE Rounds'
  BY <1>1 DEF TInv, Rounds, RoundOf, Within, Late, Slack, Used, CalledOnce
<1>2. ASSUME pc1' \notin Loops \cup {"call"} PROVE Rounds'
  BY <1>2 DEF Rounds, Within, Loops
<1>3. ASSUME NEW p \in Loops, NEW D \in SUBSET Funcs, RoundOf(p, D)',
             \A q \in Loops : Within(q)' => q = p
      PROVE  Rounds'
  BY <1>3 DEF Rounds
<1>4. ASSUME NEW D \in SUBSET Funcs, NEW base \in Int, Late(D, base), UNCHANGED table,
             pc1 # "call", pc1' # "call"
      PROVE  Late(D, base)'
  BY <1>4 DEF Late, Used, Slack
<1>5. ASSUME NEW f \in Funcs, request_core1_callback(f) PROVE Rounds'
  <2>1. /\ UNCHANGED <<table, pc1, running, ran, calls>> /\ asks' = asks \cup {f} /\ f \notin asks
        /\ mailbox' = Append(mailbox, f)
    BY <1>5 DEF request_core1_callback, time
  <2>2. \A k \in 1 .. Len(mailbox') : (k \in 1 .. Len(mailbox) /\ mailbox'[k] = mailbox[k]) \/ mailbox'[k] = f
    BY <2>1 DEF TypeOK
  <2>3. ASSUME NEW p \in Loops, Within(p)' PROVE \E D \in SUBSET Funcs : RoundOf(p, D)'
    <3>1. PICK D \in SUBSET Funcs : RoundOf(p, D)
      BY <2>1, <2>3 DEF TInv, Rounds, Within
    <3>2. Late(D, Base(p))' /\ (pc1' = "call" => running'.func \in D) /\ (p = "entry" => D = CalledOnce')
      BY <2>1, <3>1 DEF RoundOf, Late, Slack, Used, CalledOnce
    <3>3. p = "outer" => D \subseteq asks' /\ \A k \in 1 .. Len(mailbox') : mailbox'[k] \notin D
      BY <2>1, <2>2, <3>1 DEF RoundOf
    <3> QED BY <3>2, <3>3 DEF RoundOf
  <2> QED BY <2>3 DEF Rounds
<1>6. CASE Launch /\ ~started
  <2>1. /\ UNCHANGED <<table, ran>> /\ pc1' = "entry" /\ calls' = [f \in Funcs |-> 0] /\ pc1 = "off"
    BY <1>6 DEF Launch, time, Handshake
  <2>2. \A i \in Used : table[i].left >= Base("entry")
    <3>1. \A i \in Used : table[i].left \in -MaxLate .. Period
      BY UsedEntry
    <3> QED BY <3>1, Constants DEF Base
  <2>3. Late({}, Base("entry"))
    BY <2>1, <2>2, NewRound, BaseType DEF Loops
  <2>4. Late({}, Base("entry"))'
    BY <1>4, <2>1, <2>3, BaseType DEF Loops
  <2>5. RoundOf("entry", {})'
    BY <2>1, <2>4 DEF RoundOf, CalledOnce
  <2> QED BY <1>3, <2>1, <2>5 DEF Loops, Within
<1>7. ASSUME NEW at \in {"entry", "inner1", "inner2"}, pc1 = at, slot \in Slots, CallSlot(at),
             at # "entry" => table[slot].left <= 0
      PROVE  Rounds'
  <2>0. table[slot].func \in Funcs /\ slot \in Used
    BY <1>7, CallTable, UsedEntry
  <2> PICK f \in Funcs : f = table[slot].func
    BY <2>0
  <2>1. PICK D \in SUBSET Funcs : RoundOf(at, D)
    BY <1>7 DEF TInv, Rounds, Within, Loops
  <2>2. /\ slot \in Used /\ Used' = Used \ {slot} /\ (\A i \in Used' : table'[i] = table[i])
        /\ running'.func = f /\ running'.from = at
    BY <1>7, CallTable
  <2>3. pc1' = "call" /\ ran' = 0
    BY <1>7 DEF CallSlot
  <2>4. f \in Funcs
    OBVIOUS
  <2>5. f \notin D
    <3>1. CASE at = "entry"
      <4>1. calls[f] = 0
        <5>1. slot \in Nat
          BY <2>2, Constants DEF Used
        <5>2. calls[f] = IF slot < slot THEN 1 ELSE 0
          BY <1>7, <2>2, <3>1 DEF EntryCalls, CalledSoFar
        <5> QED BY <5>1, <5>2
      <4> QED BY <2>1, <3>1, <4>1 DEF RoundOf, CalledOnce
    <3>2. CASE at # "entry"
      <4>1. table[slot].left \in Int
        BY <2>2, UsedEntry, Constants
      <4>2. Late(D, Base(at)) /\ Base(at) \in Int
        BY <2>1, BaseType DEF RoundOf, Loops
      <4>3. f \in D => table[slot].left > 0
        BY <2>2, <4>2, CalledIsEarly
      <4> QED BY <1>7, <3>2, <4>1, <4>3
    <3> QED BY <3>1, <3>2
  <2>6. \A i \in Used' : table[i].func # f
    BY <2>2 DEF OnePlace
  <2>7. Late(D \cup {f}, Base(at))'
    <3>1. Late(D, Base(at)) /\ Base(at) \in Int /\ Used' \subseteq Used
      BY <2>1, <2>2, BaseType DEF RoundOf, Loops
    <3>2. pc1 # "call"
      BY <1>7
    <3> QED BY <2>2, <2>3, <2>4, <2>5, <2>6, <3>1, <3>2, LateCall
  <2>8. at = "entry" => D \cup {f} = CalledOnce'
    <3> SUFFICES ASSUME at = "entry" PROVE D \cup {f} = CalledOnce'
      OBVIOUS
    <3>1. D = CalledOnce /\ calls[f] # 1
      BY <2>1, <2>4, <2>5 DEF RoundOf, CalledOnce
    <3>2. calls[f] = 0
      BY <2>4, <3>1 DEF EntryCalls, TypeOK
    <3>3. calls' = [calls EXCEPT ![f] = 1]
      BY <1>7, <2>4, <3>2 DEF CallSlot, TypeOK
    <3> QED BY <2>4, <3>1, <3>3 DEF CalledOnce, TypeOK
  <2>9. RoundOf(at, D \cup {f})'
    BY <1>7, <2>2, <2>7, <2>8 DEF RoundOf
  <2>10. \A q \in Loops : Within(q)' => q = at
    BY <2>2, <2>3 DEF Loops, Within
  <2> QED BY <1>3, <2>4, <2>9, <2>10 DEF Loops
<1>8. CASE Finish
  <2> PICK p \in Loops : p = running.from
    BY <1>8 DEF Finish, Handshake, TypeOK, Loops
  <2>1. p \in Loops /\ pc1 = "call" /\ pc1' = p
    BY <1>8 DEF Finish
  <2>2. PICK D \in SUBSET Funcs : RoundOf(p, D)
    BY <2>1 DEF TInv, Rounds, Within
  <2>3. Late(D, Base(p))'
    BY <1>8, <2>1, <2>2, LateFinish, BaseType DEF RoundOf
  <2>4. UNCHANGED <<mailbox, asks, calls>>
    BY <1>8 DEF Finish
  <2>5. RoundOf(p, D)'
    BY <2>1, <2>2, <2>3, <2>4 DEF RoundOf, CalledOnce, Loops
  <2>6. \A q \in Loops : Within(q)' => q = p
    BY <2>1 DEF Loops, Within
  <2> QED BY <1>3, <2>1, <2>5, <2>6
<1>9. CASE Wake
  <2>1. UNCHANGED table /\ pc1 = "sleep" /\ pc1' = "inner1" /\ wake = 0
    BY <1>9 DEF Wake
  <2>2. \A i \in Used : table[i].left >= Base("inner1")
    BY <2>1, Constants DEF TInv, Resting, Base
  <2>3. Late({}, Base("inner1"))
    BY <2>1, <2>2, NewRound, BaseType DEF Loops
  <2>4. Late({}, Base("inner1"))'
    BY <1>4, <2>1, <2>3, BaseType DEF Loops
  <2>5. RoundOf("inner1", {})'
    BY <2>1, <2>4 DEF RoundOf
  <2> QED BY <1>3, <2>1, <2>5 DEF Loops, Within
<1>10. CASE InnerDone("inner1", "outer")
  <2>1. /\ UNCHANGED table /\ pc1 = "inner1" /\ pc1' = "outer" /\ slot = CALLBACK_BUFFER_NUM
    BY <1>10 DEF InnerDone, Move
  <2>2. \A i \in Used : table[i].left >= Base("outer")
    <3>1. ASSUME NEW i \in Used PROVE table[i].left >= 1
      <4>1. i < slot /\ table[i].left \in Int
        BY <2>1, UsedEntry, Constants DEF Slots
      <4> QED BY <2>1, <4>1 DEF TInv, Resting
    <3> QED BY <3>1 DEF Base
  <2>3. Late({}, Base("outer"))
    BY <2>1, <2>2, NewRound, BaseType DEF Loops
  <2>4. Late({}, Base("outer"))'
    BY <1>4, <2>1, <2>3, BaseType DEF Loops
  <2>5. RoundOf("outer", {})'
    BY <2>1, <2>4 DEF RoundOf
  <2> QED BY <1>3, <2>1, <2>5 DEF Loops, Within
<1>11. CASE OuterDone
  <2>1. UNCHANGED table /\ pc1 = "outer" /\ pc1' = "inner2"
    BY <1>11 DEF OuterDone
  <2>2. PICK D \in SUBSET Funcs : RoundOf("outer", D)
    BY <2>1 DEF TInv, Rounds, Within, Loops
  <2>3. Base("outer") = Base("inner2") /\ Base("inner2") \in Int
    BY BaseType DEF Base, Loops
  <2>4. Late(D, Base("inner2"))
    BY <2>2, <2>3 DEF RoundOf
  <2>5. Late(D, Base("inner2"))'
    BY <1>4, <2>1, <2>3, <2>4
  <2>6. RoundOf("inner2", D)'
    BY <2>1, <2>5 DEF RoundOf
  <2> QED BY <1>3, <2>1, <2>6 DEF Loops, Within
<1>12. CASE call_outer_requests
  <2>0. Len(mailbox) \in Nat \ {0} /\ mailbox[1] \in Funcs
    BY <1>12 DEF call_outer_requests, TypeOK
  <2> PICK f \in Funcs : f = mailbox[1]
    BY <2>0
  <2>1. /\ pc1 = "outer" /\ pc1' = "call" /\ ran' = 0 /\ UNCHANGED <<table, asks, calls>>
        /\ running'.func = f /\ running'.from = "outer"
        /\ Len(mailbox) \in Nat \ {0} /\ Len(mailbox') = Len(mailbox) - 1
        /\ \A k \in 1 .. Len(mailbox') : mailbox'[k] = mailbox[k + 1]
    BY <1>12 DEF call_outer_requests, TypeOK
  <2>2. /\ 1 \in 1 .. Len(mailbox) /\ f \in Funcs
        /\ \A k \in 1 .. Len(mailbox') : k + 1 \in 1 .. Len(mailbox) /\ k + 1 # 1
    BY <2>1 DEF TypeOK
  <2>3. PICK D \in SUBSET Funcs : RoundOf("outer", D)
    BY <2>1 DEF TInv, Rounds, Within, Loops
  <2>4. f \notin D /\ D \cup {f} \subseteq asks
    BY <2>2, <2>3 DEF RoundOf, TInv, Resting
  <2>5. \A i \in Used : table[i].func # f
    BY <2>2 DEF OnePlace
  <2>6. Late(D \cup {f}, Base("outer"))'
    <3>1. Late(D, Base("outer")) /\ Base("outer") \in Int /\ pc1 # "call"
      BY <2>1, <2>3, BaseType DEF RoundOf, Loops
    <3>2. Used' = Used /\ \A i \in Used' : table'[i] = table[i] /\ table[i].func # f
      BY <2>1, <2>5 DEF Used
    <3> QED BY <2>1, <2>2, <2>4, <3>1, <3>2, LateCall
  <2>7. \A k \in 1 .. Len(mailbox') : mailbox'[k] \notin D \cup {f}
    BY <2>1, <2>2, <2>3 DEF RoundOf, OnePlace
  <2>8. RoundOf("outer", D \cup {f})'
    BY <2>1, <2>4, <2>6, <2>7 DEF RoundOf
  <2>9. \A q \in Loops : Within(q)' => q = "outer"
    BY <2>1 DEF Loops, Within
  <2> QED BY <1>3, <2>2, <2>8, <2>9 DEF Loops
<1>13. CASE Tick
  <2>1. CASE pc1 = "call"
    <3>1. UNCHANGED <<pc1, running, mailbox, asks, calls>>
      BY <1>13 DEF Tick
    <3>2. ASSUME NEW p \in Loops, Within(p)' PROVE \E D \in SUBSET Funcs : RoundOf(p, D)'
      <4>1. PICK D \in SUBSET Funcs : RoundOf(p, D)
        BY <3>1, <3>2 DEF TInv, Rounds, Within
      <4>2. Late(D, Base(p))'
        BY <1>13, <2>1, <4>1, LateTick, BaseType DEF RoundOf
      <4> QED BY <3>1, <4>1, <4>2 DEF RoundOf, CalledOnce
    <3> QED BY <3>2 DEF Rounds
  <2>2. CASE pc1 # "call"
    <3>1. pc1' \in {"off", "sleep", "test"}
      BY <1>13, <2>2 DEF Tick
    <3> QED BY <1>2, <3>1 DEF Loops
  <2> QED BY <2>1, <2>2
<1>14. CASE EntryCall
  BY <1>7, <1>14 DEF EntryCall
<1>15. ASSUME NEW at \in {"inner1", "inner2"}, call_inner_requests(at) PROVE Rounds'
  BY <1>7, <1>15 DEF call_inner_requests
<1>16. CASE EntryDone \/ InnerDone("inner2", "test") \/ Sleep \/ Leave
  BY <1>2, <1>16 DEF EntryDone, InnerDone, Move, Sleep, Leave, Loops
<1>17. CASE start_core1 \/ stop_core1 \/ Started \/ Stopped \/ (Launch /\ started)
  BY <1>1, <1>17 DEF start_core1, stop_core1, Started, Stopped, Launch, time
<1>18. ASSUME NEW at \in {"entry", "inner1", "inner2"}, Skip(at) PROVE Rounds'
  BY <1>1, <1>18 DEF Skip, time
<1>19. CASE UNCHANGED vars
  BY <1>1, <1>19 DEF vars
<1> QED BY <1>5, <1>6, <1>8, <1>9, <1>10, <1>11, <1>12, <1>13, <1>14, <1>15, <1>16, <1>17,
           <1>18, <1>19 DEF Next, Core0, Spin, core1_entry

\* A loop over the table that has come to its end has left nothing due behind.
LEMMA NothingDue ==
  ASSUME IInv, TInv, pc1 \in {"inner1", "inner2"}, slot = CALLBACK_BUFFER_NUM, NEW i \in Used
  PROVE  table[i].left >= 1
<1>1. i < slot /\ table[i].left \in Int
  BY UsedEntry, Constants DEF Slots, IInv
<1> QED BY <1>1 DEF TInv, Resting

\* Neither has the loop before the main loop, which called them all.
LEMMA NothingDueAtEntry ==
  ASSUME IInv, TInv, CallsFit, pc1 = "entry", slot = CALLBACK_BUFFER_NUM, NEW i \in Used
  PROVE  table[i].left >= 1
<1>1. i < slot /\ table[i].left \in Int /\ table[i].func \in Funcs
  BY UsedEntry, Constants DEF Slots, IInv
<1>2. calls[table[i].func] = 1
  BY <1>1 DEF IInv, EntryCalls, CalledSoFar
<1>3. PICK D \in SUBSET Funcs : RoundOf("entry", D)
  BY DEF TInv, Rounds, Within, Loops
<1>4. table[i].func \in D /\ Late(D, Base("entry")) /\ Base("entry") \in Int
  BY <1>1, <1>2, <1>3, BaseType DEF RoundOf, CalledOnce, Loops
<1>5. table[i].left > 0
  BY <1>4, CalledIsEarly DEF IInv
<1> QED BY <1>1, <1>5

\* Every step keeps what is known between the rounds.
LEMMA RestingStep ==
  ASSUME IInv, TInv, CallsFit, [Next]_vars
  PROVE  Resting'
<1> USE DEF IInv
<1> DEFINE Posted == \A k \in 1 .. Len(mailbox) : mailbox[k] \in asks
<1>1. Posted
  BY DEF TInv, Resting
<1>2. Posted'
  <2>1. CASE UNCHANGED <<mailbox, asks>>
    BY <1>1, <2>1
  <2>2. ASSUME NEW f \in Funcs, request_core1_callback(f) PROVE Posted'
    <3>1. \A k \in 1 .. Len(mailbox') : (k \in 1 .. Len(mailbox) /\ mailbox'[k] = mailbox[k]) \/ mailbox'[k] = f
      BY <2>2 DEF request_core1_callback, TypeOK
    <3> QED BY <1>1, <2>2, <3>1 DEF request_core1_callback
  <2>3. CASE Launch
    BY <1>1, <2>3 DEF Launch
  <2>4. CASE call_outer_requests
    <3>1. \A k \in 1 .. Len(mailbox') : mailbox'[k] = mailbox[k + 1] /\ k + 1 \in 1 .. Len(mailbox)
      BY <2>4 DEF call_outer_requests, TypeOK
    <3> QED BY <1>1, <2>4, <3>1 DEF call_outer_requests
  <2>5. CASE Sleep
    BY <1>1, <2>5 DEF Sleep, InMailbox
  <2> QED
    BY <2>1, <2>2, <2>3, <2>4, <2>5
    DEF Next, Core0, Spin, core1_entry, start_core1, stop_core1, Started, Stopped, EntryCall,
        EntryDone, Move, Finish, Wake, Leave, Skip, call_inner_requests, CallSlot, InnerDone,
        OuterDone, Tick, vars
<1>3. ASSUME UNCHANGED <<table, pc1, slot, wake, slipped>> PROVE Resting'
  BY <1>2, <1>3 DEF TInv, Resting, Used
<1>4. ASSUME pc1' \in {"off", "entry", "outer", "call"}, ~slipped' PROVE Resting'
  BY <1>2, <1>4 DEF Resting
<1>5. ASSUME pc1' = "test", ~slipped', UNCHANGED table, \A i \in Used : table[i].left >= 1
      PROVE  Resting'
  BY <1>2, <1>5 DEF Resting, Used
<1>6. ASSUME pc1' \in {"inner1", "inner2"}, slot' = 0, ~slipped' PROVE Resting'
  <2>1. \A i \in Slots : ~(i < 0)
    BY Constants
  <2> QED BY <1>2, <1>6, <2>1 DEF Resting, Used
<1>7. pc1 # "test" => ~slipped
  BY DEF TInv, Resting
<1>8. CASE Launch /\ ~started
  <2>1. pc1 = "off"
    BY <1>8 DEF Launch, Handshake
  <2> QED BY <1>4, <1>7, <1>8, <2>1 DEF Launch, time
<1>9. CASE EntryDone
  <2>1. \A i \in Used : table[i].left >= 1
    BY <1>9, NothingDueAtEntry DEF EntryDone, Move
  <2> QED BY <1>5, <1>7, <1>9, <2>1 DEF EntryDone, Move, time
<1>10. CASE InnerDone("inner2", "test")
  <2>1. \A i \in Used : table[i].left >= 1
    BY <1>10, NothingDue DEF InnerDone, Move
  <2> QED BY <1>5, <1>7, <1>10, <2>1 DEF InnerDone, Move, time
<1>11. CASE EntryCall
  BY <1>4, <1>7, <1>11 DEF EntryCall, CallSlot
<1>12. ASSUME NEW at \in {"inner1", "inner2"}, call_inner_requests(at) PROVE Resting'
  BY <1>4, <1>7, <1>12 DEF call_inner_requests, CallSlot
<1>13. CASE call_outer_requests
  BY <1>4, <1>7, <1>13 DEF call_outer_requests
<1>14. CASE InnerDone("inner1", "outer")
  BY <1>4, <1>7, <1>14 DEF InnerDone, Move, time
<1>15. CASE Leave
  BY <1>4, <1>15 DEF Leave
<1>16. CASE Finish
  <2>1. running.from \in Loops /\ ~slipped'
    BY <1>7, <1>16 DEF Finish, Handshake, TypeOK, Loops
  <2>2. CASE running.from \in {"entry", "outer"}
    BY <1>4, <1>16, <2>1, <2>2 DEF Finish
  <2>3. CASE running.from \in {"inner1", "inner2"}
    BY <1>6, <1>16, <2>1, <2>3 DEF Finish
  <2> QED BY <2>1, <2>2, <2>3 DEF Loops
<1>17. CASE Wake \/ OuterDone
  BY <1>6, <1>7, <1>17 DEF Wake, OuterDone, time
<1>18. CASE Sleep
  <2>1. /\ pc1' = "sleep" /\ ~slipped' /\ wake' = First /\ UNCHANGED table
        /\ pc1 = "test"
    BY <1>18 DEF Sleep
  <2>2. First \in 0 .. MaxSleep
    BY FirstIsTime
  <2>3. ASSUME NEW i \in Used' PROVE table'[i].left >= wake' - MaxSleep
    <3>1. i \in Used /\ table'[i] = table[i]
      BY <2>1, <2>3 DEF Used
    <3>2. table[i].left \in Int
      BY <3>1, UsedEntry, Constants
    <3>3. table[i].left >= 0
      BY <2>1, <3>1, <3>2 DEF TInv, Resting
    <3> QED BY <2>1, <2>2, <3>1, <3>2, <3>3, Constants
  <2> QED BY <1>2, <2>1, <2>3 DEF Resting
<1>19. ASSUME NEW at \in {"inner1", "inner2"}, Skip(at) PROVE Resting'
  <2>1. /\ pc1 = at /\ slot \in Slots /\ slot' = slot + 1 /\ UNCHANGED <<table, pc1, slipped>>
        /\ slot \in Used => table[slot].left > 0
    BY <1>19 DEF Skip, time, Used
  <2>2. ASSUME NEW i \in Used', i < slot' PROVE table'[i].left > 0
    <3>1. i \in Used /\ table'[i] = table[i] /\ i \in Nat /\ slot \in Nat
      BY <2>1, Constants DEF Used
    <3>2. i < slot \/ i = slot
      BY <2>1, <2>2, <3>1
    <3> QED BY <1>19, <2>1, <3>1, <3>2 DEF TInv, Resting
  <2> QED BY <1>2, <1>7, <1>19, <2>1, <2>2 DEF Resting
<1>20. CASE Skip("entry")
  BY <1>4, <1>7, <1>20 DEF Skip, time
<1>21. CASE Tick
  <2>1. /\ Used' = Used /\ pc1' = pc1 /\ slot' = slot
        /\ \A i \in Used : table'[i].left >= table[i].left - 1 /\ table'[i].left \in Int
    BY <1>21, TickTable, TickLeft
  <2>2. \A i \in Used : table[i].left \in Int
    BY UsedEntry, Constants
  <2>3. CASE pc1 = "test"
    <3>1. ~slipped /\ slipped'
      BY <1>21, <2>3 DEF Tick
    <3>2. \A i \in Used : table[i].left >= 1
      BY <2>3, <3>1 DEF TInv, Resting
    <3>3. \A i \in Used : table'[i].left >= 0
      BY <2>1, <2>2, <3>2
    <3> QED BY <1>2, <2>1, <2>3, <3>1, <3>3 DEF Resting
  <2>4. CASE pc1 = "sleep"
    <3>1. wake' = wake - 1 /\ wake \in Int /\ slipped' = slipped
      BY <1>21, <2>4 DEF Tick, TypeOK
    <3>2. \A i \in Used : table[i].left >= wake - MaxSleep
      BY <2>4 DEF TInv, Resting
    <3>3. \A i \in Used : table'[i].left >= (wake - 1) - MaxSleep
      BY <2>1, <2>2, <3>1, <3>2, Constants
    <3> QED BY <1>2, <1>7, <2>1, <2>4, <3>1, <3>3 DEF Resting
  <2>5. CASE pc1 \in {"off", "call"}
    BY <1>4, <1>7, <1>21, <2>1, <2>5 DEF Tick
  <2> QED BY <1>21, <2>3, <2>4, <2>5 DEF Tick
<1>22. CASE start_core1 \/ stop_core1 \/ Started \/ Stopped \/ (Launch /\ started)
  BY <1>3, <1>22 DEF start_core1, stop_core1, Started, Stopped, Launch, time
<1>23. ASSUME NEW f \in Funcs, request_core1_callback(f) PROVE Resting'
  BY <1>3, <1>23 DEF request_core1_callback, time
<1>24. CASE UNCHANGED vars
  BY <1>3, <1>24 DEF vars
<1> QED BY <1>8, <1>9, <1>10, <1>11, <1>12, <1>13, <1>14, <1>15, <1>16, <1>17, <1>18, <1>19,
           <1>20, <1>21, <1>22, <1>23, <1>24 DEF Next, Core0, Spin, core1_entry

\* The initial states, whose table is empty.
LEMMA TimeInit == Init => TInv
BY DEF Init, TInv, Rounds, Within, Loops, Resting, Used

\* No entry is later than a full sleep and a call of each of the others.
LEMMA InTime == CallsFit /\ IInv /\ TInv => PolledInTime
<1> SUFFICES ASSUME CallsFit, IInv, TInv, started, pc1 # "entry", NEW i \in Used
             PROVE  table[i].left >= -MaxWait
  BY DEF PolledInTime
<1> DEFINE rest == (Cardinality(Funcs) - 1) * MaxRun
<1>0. table[i].left \in -MaxLate .. Period /\ table[i].func \in Funcs
  BY UsedEntry DEF IInv
<1>1. /\ table[i].left \in Int /\ table[i].func \in Funcs /\ rest \in Nat
      /\ MaxWait = MaxSleep + rest
  <2>1. {} \in SUBSET Funcs
    OBVIOUS
  <2>2. rest \in Nat
    BY <1>0, <2>1, CostOthers
  <2>3. MaxWait = MaxSleep + rest
    BY DEF MaxWait
  <2> HIDE DEF rest
  <2> QED BY <1>0, <2>2, <2>3, Constants
<1>2. CASE pc1 = "test"
  <2>1. table[i].left >= 0
    BY <1>1, <1>2 DEF TInv, Resting
  <2> HIDE DEF rest
  <2> QED BY <1>1, <2>1, Constants
<1>3. CASE pc1 = "sleep"
  <2>1. table[i].left >= wake - MaxSleep /\ wake \in Nat
    BY <1>3 DEF TInv, Resting, IInv, TypeOK
  <2> HIDE DEF rest
  <2> QED BY <1>1, <2>1, Constants
<1>4. ASSUME NEW p \in {"inner1", "outer", "inner2"}, Within(p)
      PROVE  table[i].left >= -MaxWait
  <2>1. PICK D \in SUBSET Funcs : RoundOf(p, D)
    BY <1>4 DEF TInv, Rounds, Loops
  <2>2. table[i].left >= (Due(table[i].func, D, Base(p)) - Cost(D \ {table[i].func})) + Slack
    BY <2>1 DEF RoundOf, Late
  <2>3. Cost(D \ {table[i].func}) \in Nat /\ Cost(D \ {table[i].func}) <= rest
    BY <1>1, CostOthers
  <2>5. Slack \in Nat
    BY Constants DEF Slack, IInv, TypeOK
  <2>4. Due(table[i].func, D, Base(p)) \in Int /\ Due(table[i].func, D, Base(p)) >= -MaxSleep
    BY <1>4, Constants DEF Due, Base
  <2> HIDE DEF rest
  <2> QED BY <1>1, <2>2, <2>3, <2>4, <2>5, Constants
<1>5. CASE pc1 = "call"
  <2>1. running.from \in {"inner1", "outer", "inner2"}
    BY <1>5 DEF IInv, Handshake, InLoop, TypeOK
  <2> QED BY <1>4, <1>5, <2>1 DEF Within
<1>6. pc1 \in {"test", "sleep", "inner1", "outer", "inner2", "call"}
  BY DEF IInv, Handshake, InLoop
<1> QED BY <1>2, <1>3, <1>4, <1>5, <1>6 DEF Within

\* While core 1 runs no request in the table is later than a full sleep and one call of each of
\* the other functions, provided that those calls together last less than the period in which a
\* function asks for itself again; otherwise call_inner_requests need not come to its end.
THEOREM InTimeHolds ==
  ASSUME (Cardinality(Funcs) - 1) * MaxRun < Period
  PROVE  Spec => []PolledInTime
<1>1. CallsFit
  BY DEF CallsFit
<1>2. IInv /\ TInv /\ [Next]_vars => TInv'
  BY <1>1, RoundsStep, RestingStep DEF TInv
<1>3. IInv /\ TInv => PolledInTime
  BY <1>1, InTime
<1> QED BY <1>2, <1>3, TimeInit, AlwaysIInv, PTL DEF Spec
=============================================================================
