-------------------------------- MODULE Core1 --------------------------------
(***************************************************************************)
(* core1.c: core 0 starts and stops a loop on core 1, and asks it to call  *)
(* functions, at once (through the mailbox between the cores) or at a time *)
(* (through a table that only core 1 touches once it runs).                *)
(*                                                                         *)
(* Time is counted in ticks of a few milliseconds; it passes while core 1  *)
(* sleeps, is in a callback, or is off, and may slip by one tick between   *)
(* its last look at the table and its sleep.  A table entry keeps the time *)
(* left until it is due, which is negative when it is late.                *)
(***************************************************************************)
EXTENDS Integers, Sequences, FiniteSets

CONSTANTS
  Funcs,                \* what is asked for; one function may be asked for
                        \* several times: it is then several of them
  Again,                \* those that always ask for themselves when they are
                        \* called; the others do until they have nothing to do
  Period,               \* ... so many ticks after their end (10 ms)
  MaxSleep,             \* 16667 us
  MaxRun,               \* ticks that a callback may last
  CALLBACK_BUFFER_NUM,
  MailboxSize,          \* of the hardware
  MaxLate               \* lateness is not counted beyond this

ASSUME Core1Assumption ==
  /\ Again \subseteq Funcs
  /\ {Period, MaxSleep, CALLBACK_BUFFER_NUM, MailboxSize, MaxLate} \subseteq Nat \ {0}
  /\ MaxRun \in Nat
  /\ IsFiniteSet(Funcs) /\ Cardinality(Funcs) <= CALLBACK_BUFFER_NUM
  /\ "none" \notin Funcs

Slots == 0 .. CALLBACK_BUFFER_NUM - 1
Empty == [func |-> "none", left |-> 0]
Entry(f, n) == [func |-> f, left |-> n]

VARIABLES
  table,      \* g_core1_callback, g_core1_callback_at
  mailbox,    \* the mailbox of core 1
  started,    \* g_1w0r_core1_started
  enabled,    \* g_0w1r_core1_enabled
  pc0,        \* where core 0 is
  pc1, slot,  \* where core 1 is, and i
  running,    \* the callback it is in, and where it came from
  ran,        \* ticks since that call began
  wake,       \* ticks until its sleep ends
  slipped,    \* did time slip before this sleep?
  asks,       \* history: what was asked for and core 1 has not slept since it
              \* took that request
  calls       \* history: calls of each function during this start of core 1

vars == <<table, mailbox, started, enabled, pc0, pc1, slot, running, ran, wake,
          slipped, asks, calls>>

None == [func |-> "none", from |-> "table"]
flags == <<started, enabled>>
time  == <<ran, wake, slipped>>
Used == {i \in Slots : table[i] # Empty}

Init ==
  /\ table = [i \in Slots |-> Empty] /\ mailbox = << >>
  /\ started = FALSE /\ enabled = FALSE
  /\ pc0 = "ready" /\ pc1 = "off" /\ slot = 0 /\ running = None
  /\ ran = 0 /\ wake = 0 /\ slipped = FALSE
  /\ asks = {} /\ calls = [f \in Funcs |-> 0]
-----------------------------------------------------------------------------
(* Core 0.                                                                 *)

start_core1 ==
  /\ pc0 = "ready" /\ pc0' = "launch"
  /\ enabled' = TRUE
  /\ UNCHANGED <<table, mailbox, started, pc1, slot, running, time, asks, calls>>

\* Resetting core 1 empties its mailbox.
Launch ==
  /\ pc0 = "launch" /\ pc0' = "starting"
  /\ IF started
     THEN UNCHANGED <<mailbox, pc1, slot, running, asks, calls>>
     ELSE /\ mailbox' = << >> /\ pc1' = "entry" /\ slot' = 0 /\ running' = None
          /\ calls' = [f \in Funcs |-> 0]
  /\ UNCHANGED <<table, flags, time, asks>>

Started ==
  /\ pc0 = "starting" /\ started /\ pc0' = "ready"
  /\ UNCHANGED <<table, mailbox, flags, pc1, slot, running, time, asks, calls>>

stop_core1 ==
  /\ pc0 = "ready" /\ pc0' = "stopping"
  /\ enabled' = FALSE
  /\ UNCHANGED <<table, mailbox, started, pc1, slot, running, time, asks, calls>>

Stopped_early ==
  /\ pc0 = "stopping" /\ pc0' = "ready"
  /\ started => pc1 \in {"sleep", "test"}
  /\ UNCHANGED <<table, mailbox, flags, pc1, slot, running, time, asks, calls>>
Stopped ==
  /\ pc0 = "stopping" /\ ~started /\ pc0' = "ready"
  /\ UNCHANGED <<table, mailbox, flags, pc1, slot, running, time, asks, calls>>

InMailbox(f) == \E i \in 1 .. Len(mailbox) : mailbox[i] = f
Asked(f) == (\E i \in Slots : table[i].func = f) \/ InMailbox(f) \/ running.func = f

\* set_wave and post_inifile start core 1 before they ask; PLAYWAVE sleeps and
\* opens a file each time, so that core 1 is done with the last request.
request_core1_callback_full(f) ==
  /\ pc0 = "ready" /\ enabled
  /\ mailbox' = Append(mailbox, f)
  /\ ~Asked(f) /\ f \notin asks /\ asks' = asks \cup {f}
  /\ UNCHANGED <<table, flags, pc0, pc1, slot, running, time, calls>>
request_core1_callback(f) ==
  /\ pc0 = "ready" /\ enabled
  /\ Len(mailbox) < MailboxSize
  /\ mailbox' = Append(mailbox, f)
  /\ ~Asked(f) /\ f \notin asks /\ asks' = asks \cup {f}
  /\ UNCHANGED <<table, flags, pc0, pc1, slot, running, time, calls>>
-----------------------------------------------------------------------------
(* Core 1.                                                                 *)

FirstFree_next == IF slot + 1 \in Slots \ Used THEN slot + 1
                  ELSE CHOOSE i \in Slots \ Used : \A j \in Slots \ Used : i <= j
FirstFree == CHOOSE i \in Slots \ Used : \A j \in Slots \ Used : i <= j

request_core1_callback_at_short(f, n) ==
  table' = IF Slots \ {CALLBACK_BUFFER_NUM - 1} \subseteq Used
           THEN table ELSE [table EXCEPT ![FirstFree] = Entry(f, n)]
\* A full table drops what it is asked for.
request_core1_callback_at(f, n) ==
  table' = IF Used = Slots THEN table ELSE [table EXCEPT ![FirstFree] = Entry(f, n)]

CallSlot(at) ==
  /\ table[slot] # Empty
  /\ table' = [table EXCEPT ![slot] = Empty]
  /\ running' = [func |-> table[slot].func, from |-> at]
  /\ ran' = 0
  /\ calls' = IF at = "entry"
              THEN [calls EXCEPT ![table[slot].func] = IF @ = 2 THEN 2 ELSE @ + 1]
              ELSE calls
  /\ pc1' = "call"
  /\ UNCHANGED <<mailbox, flags, pc0, slot, wake, slipped, asks>>

\* The end of a callback, and where the loop that called it goes on.
Finish ==
  /\ pc1 = "call"
  /\ \/ request_core1_callback_at(running.func, Period)
     \/ running.func \notin Again /\ UNCHANGED table
  /\ running' = None /\ ran' = 0
  /\ pc1' = running.from
  /\ slot' = IF running.from = "entry" THEN slot + 1 ELSE 0
  /\ UNCHANGED <<mailbox, flags, pc0, wake, slipped, asks, calls>>

\* A slot that needs no call.
Skip_exact(at) ==
  /\ pc1 = at /\ slot \in Slots
  /\ table[slot] = Empty \/ (at # "entry" /\ table[slot].left # 0)
  /\ slot' = slot + 1
  /\ UNCHANGED <<table, mailbox, flags, pc0, pc1, running, time, asks, calls>>
Skip(at) ==
  /\ pc1 = at /\ slot \in Slots
  /\ table[slot] = Empty \/ (at # "entry" /\ table[slot].left > 0)
  /\ slot' = slot + 1
  /\ UNCHANGED <<table, mailbox, flags, pc0, pc1, running, time, asks, calls>>

Move(from, to) ==
  /\ pc1 = from /\ slot = CALLBACK_BUFFER_NUM
  /\ pc1' = to /\ slot' = 0
  /\ UNCHANGED <<table, mailbox, enabled, pc0, running, time, asks, calls>>

\* The functions that were left in the table when core 1 was stopped.
EntryCall == pc1 = "entry" /\ slot \in Slots /\ CallSlot("entry")
EntryDone == Move("entry", "test") /\ started' = TRUE

call_inner_requests(at) ==
  pc1 = at /\ slot \in Slots /\ table[slot].left <= 0 /\ CallSlot(at)
InnerDone(from, to) == Move(from, to) /\ UNCHANGED started

call_outer_requests ==
  /\ pc1 = "outer" /\ mailbox # << >>
  /\ mailbox' = Tail(mailbox)
  /\ running' = [func |-> Head(mailbox), from |-> "outer"]
  /\ ran' = 0 /\ pc1' = "call"
  /\ UNCHANGED <<table, flags, pc0, slot, wake, slipped, asks, calls>>
OuterDone ==
  /\ pc1 = "outer" /\ mailbox = << >>
  /\ pc1' = "inner2" /\ slot' = 0
  /\ UNCHANGED <<table, mailbox, flags, pc0, running, time, asks, calls>>

\* Entries that are already due do not shorten the sleep.
Times == {MaxSleep} \cup {table[i].left : i \in {j \in Used : table[j].left > 0}}
First == CHOOSE n \in Times : \A m \in Times : n <= m
Sleep_unasked ==
  /\ pc1 = "test" /\ pc1' = "sleep"
  /\ wake' = First
  /\ slipped' = FALSE /\ asks' = {f \in asks : InMailbox(f)}
  /\ UNCHANGED <<table, mailbox, flags, pc0, slot, running, ran, calls>>
Sleep ==
  /\ pc1 = "test" /\ enabled /\ pc1' = "sleep"
  /\ wake' = First
  /\ slipped' = FALSE /\ asks' = {f \in asks : InMailbox(f)}
  /\ UNCHANGED <<table, mailbox, flags, pc0, slot, running, ran, calls>>
Wake ==
  /\ pc1 = "sleep" /\ wake = 0 /\ pc1' = "inner1" /\ slot' = 0
  /\ UNCHANGED <<table, mailbox, flags, pc0, running, time, asks, calls>>

Leave ==
  /\ pc1 = "test" /\ ~enabled /\ pc1' = "off"
  /\ started' = FALSE /\ slipped' = FALSE
  /\ UNCHANGED <<table, mailbox, enabled, pc0, slot, running, ran, wake, asks, calls>>

core1_entry ==
  \/ EntryCall \/ EntryDone \/ Finish \/ Sleep \/ Wake \/ Leave
  \/ \E at \in {"entry", "inner1", "inner2"} : Skip(at)
  \/ call_inner_requests("inner1") \/ InnerDone("inner1", "outer")
  \/ call_outer_requests \/ OuterDone
  \/ call_inner_requests("inner2") \/ InnerDone("inner2", "test")
-----------------------------------------------------------------------------
Later(n) == IF n <= -MaxLate THEN n ELSE n - 1

Tick ==
  /\ \/ pc1 = "off" /\ Used # {} /\ \E i \in Used : table[i].left > -MaxLate
     \/ pc1 = "sleep" /\ wake > 0
     \/ pc1 = "call" /\ ran < MaxRun
     \/ pc1 = "test" /\ ~slipped
  /\ table' = [i \in Slots |-> IF table[i] = Empty THEN Empty
                               ELSE Entry(table[i].func, Later(table[i].left))]
  /\ wake' = IF pc1 = "sleep" THEN wake - 1 ELSE wake
  /\ ran' = IF pc1 = "call" THEN ran + 1 ELSE ran
  /\ slipped' = (slipped \/ pc1 = "test")
  /\ UNCHANGED <<mailbox, flags, pc0, pc1, slot, running, asks, calls>>

Core0 == start_core1 \/ stop_core1 \/ \E f \in Funcs : request_core1_callback(f)
Spin  == Launch \/ Started \/ Stopped

Next == Core0 \/ Spin \/ core1_entry \/ Tick
Spec == Init /\ [][Next]_vars

\* Each core carries on with what it does, and time passes.
FairSpec == Spec /\ WF_vars(Spin) /\ WF_vars(core1_entry) /\ WF_vars(Tick)
-----------------------------------------------------------------------------
(* Properties.                                                             *)

Places == {"off", "entry", "test", "sleep", "inner1", "outer", "inner2", "call"}

\* The state of the two loops and of the table keeps its type.
TypeOK ==
  /\ table \in [Slots -> {Empty} \cup [func : Funcs, left : -MaxLate .. Period]]
  /\ mailbox \in Seq(Funcs) /\ Len(mailbox) <= MailboxSize
  /\ started \in BOOLEAN /\ enabled \in BOOLEAN /\ slipped \in BOOLEAN
  /\ pc0 \in {"ready", "launch", "starting", "stopping"}
  /\ pc1 \in Places /\ slot \in 0 .. CALLBACK_BUFFER_NUM
  /\ running \in {None} \cup [func : Funcs, from : {"entry", "inner1", "outer", "inner2"}]
  /\ asks \subseteq Funcs
  /\ ran \in 0 .. MaxRun /\ wake \in 0 .. MaxSleep
  /\ calls \in [Funcs -> 0 .. 2]

\* Once stop_core1 has returned, core 1 is in no callback and enters none
\* until start_core1: the caller (the TLS client, post_run) has the
\* peripherals for itself.
StoppedIsQuiet == pc0 = "ready" /\ ~enabled => pc1 = "off" /\ running = None

\* A function that asks for itself keeps its place: however the calls out of
\* the table and the mailbox alternate, its next request finds a free entry.
ChainsKept ==
  [][running.func \in Again /\ running' = None =>
       \E i \in Slots : table'[i].func = running.func]_vars

\* When core 1 is started again, each function that waited in the table is
\* called once, and no more, before start_core1 returns.
RestartCallsOnce ==
  /\ pc1 = "entry" =>
       \A i \in Used : calls[table[i].func] = IF i < slot THEN 1 ELSE 0
  /\ \A f \in Funcs : calls[f] < 2

\* While core 1 runs, no entry is later than a full sleep and one call of
\* each of the others.
MaxWait == MaxSleep + (Cardinality(Funcs) - 1) * MaxRun
PolledInTime ==
  started /\ pc1 # "entry" /\ enabled => \A i \in Used : table[i].left >= -MaxWait

\* start_core1 and stop_core1, which wait for a flag that core 1 sets or clears,
\* return; and a request in the mailbox is taken out to be called, unless core 1 is
\* stopped.
StartReturns   == pc0 = "starting" ~> pc0 = "ready"
StopReturns    == pc0 = "stopping" ~> pc0 = "ready"
RequestsCalled == mailbox # << >> ~> (mailbox = << >> \/ ~enabled)
HandshakesEnd  == StartReturns /\ StopReturns /\ RequestsCalled
=============================================================================
