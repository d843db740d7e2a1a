------------------------------ MODULE Keyboard ------------------------------
(***************************************************************************)
(* The USB keyboard (interface/usbkeyboard.c, withkeyboard.c).  Core 1     *)
(* polls it every 10 ms and puts key codes into a ring; READKEY() takes    *)
(* them out on core 0, in the program or in the handler of the INKEY       *)
(* interrupt.  A semaphore guards the ring; the states of the keys, which  *)
(* INKEY() shows, have no guard.                                           *)
(*                                                                         *)
(* A report lists the keys that are down, the first of them first.  Shift  *)
(* keys and the LEDs are left out.  Mark is the code that announces a byte *)
(* sent by a device.                                                       *)
(***************************************************************************)
EXTENDS Integers, Sequences, SequencesExt

CONSTANTS
  Keys, Mark,
  MaxDown,          \* keys in one report (6)
  KEYCODEBUFSIZE,
  Overlap,          \* may the INKEY handler read a key while the program does?
  Replug            \* may the keyboard be unplugged, and plugged in again?

ASSUME KeyboardAssumption ==
  /\ KEYCODEBUFSIZE \in Nat \ {0, 1} /\ MaxDown \in Nat \ {0}
  /\ Mark \notin Keys
  /\ {Overlap, Replug} \subseteq BOOLEAN

Who == {"main", "irq"}
NoKey == <<"none">>
Nobody == "none"
Code(k) == <<"key", k>>
Byte(k) == <<"byte", k>>
Codes == {Code(k) : k \in Keys} \cup {Byte(k) : k \in Keys}
Reports ==
  {s \in UNION {[1 .. n -> Keys] : n \in 0 .. MaxDown} : IsInjective(s)} \cup {<<Mark>>}

VARIABLES
  mounted,        \* USBKB_dev_addr
  report, prev,   \* usbkb_report, prev_report
  status,         \* the keys for which usbkb_keystatus is 1
  buf, wp, rp,    \* keycodebuf, keycodebufp1, keycodebufp2
  sem,            \* who holds keycodebuf_sem
  oldvkey, due,   \* oldvkey, and has the time of the next repetition come?
  bytemode,
  pc1, vk2,       \* core 1
  at, vkey,       \* core 0: program and handler; the shared result
  down,           \* history: the keys that were down in the last poll
  typed,          \* history: what was typed and is not read yet
  popped,         \* history: what each reader took out
  fresh           \* history: did a report come since the keyboard was plugged in?

ring == <<buf, wp, rp>>
core1 == <<oldvkey, due, bytemode, pc1, vk2>>
core0 == <<at, vkey, popped>>
usb == <<mounted, report, fresh>>
vars == <<usb, prev, status, ring, sem, core1, core0, down, typed>>

Init ==
  /\ mounted = FALSE /\ report = << >> /\ prev = << >> /\ status = {}
  /\ buf = [i \in 0 .. KEYCODEBUFSIZE - 1 |-> NoKey] /\ wp = 0 /\ rp = 0
  /\ sem = Nobody
  /\ oldvkey = NoKey /\ due = FALSE /\ bytemode = 0 /\ pc1 = "poll" /\ vk2 = NoKey
  /\ at = [w \in Who |-> "idle"] /\ vkey = NoKey
  /\ down = {} /\ typed = << >> /\ popped = [w \in Who |-> NoKey] /\ fresh = FALSE
-----------------------------------------------------------------------------
(* The ring.                                                               *)

Next1(p) == (p + 1) % KEYCODEBUFSIZE
Room_all == IF rp = wp THEN KEYCODEBUFSIZE ELSE (rp - wp) % KEYCODEBUFSIZE
Room == (rp - wp - 1) % KEYCODEBUFSIZE
keycodeExists == wp # rp

\* Those of a sequence of codes that still fit are stored.
pushkeycodebuf(s) ==
  LET n == IF Len(s) <= Room THEN Len(s) ELSE Room IN
  /\ buf' = [i \in DOMAIN buf |->
               LET d == (i - wp) % KEYCODEBUFSIZE IN IF d < n THEN s[d + 1] ELSE buf[i]]
  /\ wp' = (wp + n) % KEYCODEBUFSIZE
  /\ UNCHANGED rp
-----------------------------------------------------------------------------
(* Core 1: tuh_task and its callbacks, then usbkb_task.                    *)

\* TinyUSB, as the callbacks see it.
tuh_hid_mount_cb ==
  /\ pc1 = "poll" /\ ~mounted /\ mounted' = TRUE
  /\ status' = {} /\ fresh' = FALSE /\ down' = {}
  /\ UNCHANGED <<report, prev, ring, sem, core1, core0, typed>>
tuh_hid_umount_cb ==
  /\ Replug /\ pc1 = "poll" /\ mounted /\ mounted' = FALSE
  /\ UNCHANGED <<report, fresh, prev, status, ring, sem, core1, core0, down, typed>>
process_kbd_report(r) ==
  /\ pc1 = "poll" /\ mounted /\ report' = r /\ fresh' = TRUE
  /\ UNCHANGED <<mounted, prev, status, ring, sem, core1, core0, down, typed>>

keycode0 == IF report = << >> THEN NoKey ELSE Head(report)
IsMark == keycode0 = Mark

\* The announcement of a byte.
ByteBegins ==
  /\ pc1 = "poll" /\ mounted /\ IsMark
  /\ bytemode = 0 \/ (bytemode = 2 /\ keycode0 # oldvkey)
  /\ bytemode' = 1 /\ oldvkey' = NoKey
  /\ status' = status \ ToSet(prev) /\ down' = down \ ToSet(prev)
  /\ UNCHANGED <<usb, prev, ring, sem, due, pc1, vk2, core0, typed>>

\* The byte: it waits for the semaphore.
ByteComes ==
  /\ pc1 = "poll" /\ mounted /\ bytemode = 1 /\ ~IsMark /\ report # << >>
  /\ pc1' = "byte" /\ sem = Nobody /\ sem' = "core1"
  /\ UNCHANGED <<usb, prev, status, ring, oldvkey, due, bytemode, vk2, core0, down, typed>>
StoreByte ==
  /\ pc1 = "byte" /\ pc1' = "poll" /\ sem' = Nobody
  /\ pushkeycodebuf(<<Byte(keycode0)>>)
  /\ bytemode' = 2 /\ oldvkey' = keycode0
  /\ typed' = IF Len(typed) < KEYCODEBUFSIZE - 1 THEN Append(typed, Byte(keycode0)) ELSE typed
  /\ UNCHANGED <<usb, prev, status, due, vk2, core0, down>>

\* The keys of a report.
TaskBegins ==
  /\ pc1 = "poll" /\ mounted /\ ~IsMark
  /\ bytemode = 0 \/ (bytemode = 2 /\ keycode0 # oldvkey)
  /\ bytemode' = 0 /\ oldvkey' = IF bytemode = 2 THEN NoKey ELSE oldvkey
  /\ pc1' = "push" /\ sem = Nobody /\ sem' = "core1"
  /\ UNCHANGED <<usb, prev, status, ring, due, vk2, core0, down, typed>>

\* The elements of a sequence that are not in a set.
NotIn(s, S) ==
  LET f[i \in 0 .. Len(s)] ==
        IF i = 0 THEN << >> ELSE IF s[i] \in S THEN f[i - 1] ELSE Append(f[i - 1], s[i])
  IN  f[Len(s)]
Pressed == NotIn(report, status)
NewlyDown == NotIn(report, down)
AsCodes(s) == [i \in DOMAIN s |-> Code(s[i])]

\* The loop stops at the key that does not fit: that key is the last one seen.
LastSeen ==
  IF Len(Pressed) > Room THEN Pressed[Room + 1]
  ELSE IF report = << >> THEN NoKey ELSE Last(report)

PushKeys ==
  /\ pc1 = "push" /\ pc1' = "repeat" /\ sem' = Nobody
  /\ pushkeycodebuf(AsCodes(Pressed))
  /\ vk2' = LastSeen
  /\ typed' = LET all == typed \o AsCodes(NewlyDown) IN
              IF Len(all) < KEYCODEBUFSIZE THEN all ELSE SubSeq(all, 1, KEYCODEBUFSIZE - 1)
  /\ UNCHANGED <<usb, prev, status, oldvkey, due, bytemode, core0, down>>

\* A key that stays down is repeated, but only into an empty ring.
NoRepeat ==
  /\ pc1 = "repeat" /\ pc1' = "clear"
  /\ vk2 = NoKey \/ vk2 # oldvkey \/ ~due \/ keycodeExists
  /\ IF vk2 # NoKey /\ vk2 = oldvkey THEN UNCHANGED <<oldvkey, due>>
     ELSE oldvkey' = vk2 /\ due' = FALSE
  /\ UNCHANGED <<usb, prev, status, ring, sem, bytemode, vk2, core0, down, typed>>
RepeatBegins ==
  /\ pc1 = "repeat" /\ vk2 # NoKey /\ vk2 = oldvkey /\ due /\ ~keycodeExists
  /\ pc1' = "again" /\ sem = Nobody /\ sem' = "core1" /\ due' = FALSE
  /\ UNCHANGED <<usb, prev, status, ring, oldvkey, bytemode, vk2, core0, down, typed>>
RepeatKey ==
  /\ pc1 = "again" /\ pc1' = "clear" /\ sem' = Nobody
  /\ pushkeycodebuf(<<Code(vk2)>>)
  /\ typed' = Append(typed, Code(vk2))
  /\ UNCHANGED <<usb, prev, status, oldvkey, due, bytemode, vk2, core0, down>>

ClearStatus_skipped ==
  /\ pc1 = "clear" /\ pc1' = "set"
  /\ UNCHANGED <<usb, prev, status, ring, sem, oldvkey, due, bytemode, vk2, core0, down, typed>>
ClearStatus ==
  /\ pc1 = "clear" /\ pc1' = "set"
  /\ status' = status \ ToSet(prev)
  /\ UNCHANGED <<usb, prev, ring, sem, oldvkey, due, bytemode, vk2, core0, down, typed>>
SetStatus ==
  /\ pc1 = "set" /\ pc1' = "poll" /\ vk2' = NoKey
  /\ status' = status \cup ToSet(report)
  /\ prev' = report /\ down' = ToSet(report)
  /\ UNCHANGED <<usb, ring, sem, oldvkey, due, bytemode, core0, typed>>

usbkb_task ==
  ByteBegins \/ ByteComes \/ StoreByte \/ TaskBegins \/ PushKeys \/ NoRepeat
  \/ RepeatBegins \/ RepeatKey \/ ClearStatus \/ SetStatus

Later ==
  /\ ~due /\ pc1 = "poll" /\ due' = TRUE
  /\ UNCHANGED <<usb, prev, status, ring, sem, oldvkey, bytemode, pc1, vk2, core0, down, typed>>
-----------------------------------------------------------------------------
(* Core 0: READKEY().                                                      *)

Runs(w) == w = IF at["irq"] # "idle" THEN "irq" ELSE "main"
Goto(w, from, to) == Runs(w) /\ at[w] = from /\ at' = [at EXCEPT ![w] = to]

\* The 1/60 s interrupt calls the INKEY handler while there are keys.
check_keypress ==
  /\ keycodeExists /\ (Overlap \/ at["main"] = "idle")
  /\ at["irq"] = "idle" /\ at' = [at EXCEPT !["irq"] = "want"]
  /\ UNCHANGED <<vkey, popped, usb, prev, status, ring, sem, core1, down, typed>>
lib_readkey ==
  /\ Goto("main", "idle", "want")
  /\ UNCHANGED <<vkey, popped, usb, prev, status, ring, sem, core1, down, typed>>

Acquire(w) ==
  /\ Goto(w, "want", "pop")
  /\ sem = Nobody /\ sem' = w
  /\ UNCHANGED <<vkey, popped, usb, prev, status, ring, core1, down, typed>>
popkeycodebuf == IF wp = rp THEN NoKey ELSE buf[rp]
Pop(w) ==
  /\ Goto(w, "pop", "release")
  /\ vkey' = popkeycodebuf
  /\ popped' = [popped EXCEPT ![w] = IF typed = << >> THEN NoKey ELSE Head(typed)]
  /\ typed' = IF typed = << >> THEN typed ELSE Tail(typed)
  /\ rp' = IF wp = rp THEN rp ELSE Next1(rp)
  /\ UNCHANGED <<usb, prev, status, buf, wp, sem, core1, down>>
Release(w) ==
  /\ Goto(w, "release", "result") /\ sem' = Nobody
  /\ UNCHANGED <<vkey, popped, usb, prev, status, ring, core1, down, typed>>

\* The code is looked up in vkey after the semaphore was released.
Result(w) ==
  /\ Goto(w, "result", "idle")
  /\ popped' = [popped EXCEPT ![w] = NoKey]
  /\ UNCHANGED <<vkey, usb, prev, status, ring, sem, core1, down, typed>>

usbkb_readkey(w) == Acquire(w) \/ Pop(w) \/ Release(w) \/ Result(w)

Next ==
  \/ tuh_hid_mount_cb \/ tuh_hid_umount_cb
  \/ \E r \in Reports : process_kbd_report(r)
  \/ usbkb_task \/ Later
  \/ check_keypress \/ lib_readkey
  \/ \E w \in Who : usbkb_readkey(w)

Spec == Init /\ [][Next]_vars
\* No key differs from another one.
Symmetry == Permutations(Keys)
-----------------------------------------------------------------------------
(* Properties.                                                             *)

\* The keyboard's state keeps its type.
TypeOK ==
  /\ mounted \in BOOLEAN /\ fresh \in BOOLEAN /\ due \in BOOLEAN
  /\ report \in Reports /\ prev \in Reports \ {<<Mark>>}
  /\ status \subseteq Keys
  /\ buf \in [0 .. KEYCODEBUFSIZE - 1 -> Codes \cup {NoKey}]
  /\ {wp, rp} \subseteq 0 .. KEYCODEBUFSIZE - 1
  /\ sem \in {Nobody, "core1"} \cup Who
  /\ bytemode \in 0 .. 2

\* The ring holds what was typed and not read yet, in order: each key that
\* goes down once, each byte once, each repetition once.
Held == (wp - rp) % KEYCODEBUFSIZE
KeysInOrder ==
  typed = [i \in 1 .. Held |-> buf[(rp + i - 1) % KEYCODEBUFSIZE]]

\* READKEY() returns the key that this call took out.
ReadsOwnKey == \A w \in Who : at[w] = "result" => vkey = popped[w]

\* Core 1 fills the ring and READKEY() empties it without losing, doubling or mixing up
\* a key.
KeysAreRead == TypeOK /\ KeysInOrder /\ ReadsOwnKey

\* A handler never waits for what the program it interrupted holds.
HandlerNeverWaitsForProgram == at["irq"] = "want" => sem # "main"

\* INKEY(x) shows a key as down while it stays down.
HeldIsDown == pc1 = "set" => ToSet(prev) \cap ToSet(report) \subseteq status

\* Between two polls, INKEY(x) shows just the keys that were down in the last
\* one, since the keyboard was plugged in.
StatusIsReport ==
  pc1 = "poll" => status = down

\* A keyboard that was plugged in types nothing before its first report.
NoGhostKey == [][pc1 = "push" /\ wp' # wp => fresh]_vars
=============================================================================
