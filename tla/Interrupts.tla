----------------------------- MODULE Interrupts -----------------------------
(***************************************************************************)
(* The interrupts of a BASIC program (timer.c, run.c).  The program runs   *)
(* in thread mode; an alarm takes the processor from it between any two    *)
(* steps, and no alarm interrupts another.  The 1/60 s callback looks at   *)
(* its sources one after the other; each BASIC handler it calls runs       *)
(* inside it.  Programs follow one another; a history numbers them 0 and 1 *)
(* in turn.  Counter values and delays are left out, and so is the         *)
(* callback that the NTSC video starts.                                    *)
(***************************************************************************)
EXTENDS Integers

CONSTANTS
  Uses,          \* the types of the programs' INTERRUPT statements
  Buttons,       \* what lib_keys may return
  MaxAlarms,     \* CORETIMER alarms of one program that wait at a time
  HandlerEnds    \* may a handler end the program (END, or an error)?

Types == {"TIMER", "DRAWCOUNT", "KEYS", "INKEY", "MUSIC", "WAVE", "CORETIMER"}

ASSUME InterruptsAssumption ==
  /\ Uses \subseteq Types
  /\ Buttons \subseteq 0 .. 254
  /\ MaxAlarms \in Nat /\ HandlerEnds \in BOOLEAN

Flagged == {"MUSIC", "WAVE"}
Nobody == "none"

VARIABLES
  pc, type, word,  \* the program: where it is, its INTERRUPT's type, a register
  prog,            \* history: the number of the program
  vector,          \* the types with a handler: g_interrupt_vector
  flags,           \* g_interrupt_flags
  timer, drawcount,\* are g_timer and g_drawcount_timer armed?
  alarms,          \* CORETIMER alarms that wait, by program
  code,            \* g_interrupt_code
  stage,           \* the callback that runs: where it is in its sources
  handler, saved,  \* the handler it is in, and what call_interrupt_function saved
  s_keys, keys,    \* s_keys, keys
  stale,           \* history: flags raised before the INTERRUPT of their type
  missed,          \* history: events of a flagged type not served, though set
  seen,            \* history: the buttons at the last tick with a KEYS handler
  owner            \* history: the program whose alarm is served

main   == <<pc, type, word, prog>>
timers == <<timer, drawcount, alarms>>
irq    == <<stage, handler, saved, s_keys, keys>>
hist   == <<stale, missed, seen, owner>>
vars   == <<main, vector, flags, timers, code, irq, hist>>

NoButtons == 255

Init ==
  /\ pc = "idle" /\ type = Nobody /\ word = {} /\ prog = 0
  /\ vector = {} /\ flags = {}
  /\ timer = FALSE /\ drawcount = TRUE /\ alarms = [p \in 0 .. 1 |-> 0]
  /\ code = FALSE
  /\ stage = "off" /\ handler = Nobody /\ saved = FALSE
  /\ s_keys = NoButtons /\ keys = NoButtons
  /\ stale = {} /\ missed = {} /\ seen = NoButtons /\ owner = 0

\* The program has the processor; in the second case it has it inside an
\* interrupt, from which no other one can take it.
Free == stage = "off"
Lost == stage = "lost"
Thread == Free \/ Lost
InProgram == Thread /\ pc = "run"
-----------------------------------------------------------------------------
(* The program.                                                            *)

StartProgram ==
  /\ Thread /\ pc = "idle" /\ pc' = "run"
  /\ prog' = 1 - prog
  /\ code' = FALSE
  /\ UNCHANGED <<type, word, vector, flags, timers, irq, hist>>

\* INTERRUPT t, and INTERRUPT STOP t: the vector first, then the flag, which
\* is read, changed and written back.
SetVector(t, on) ==
  /\ vector' = IF on THEN vector \cup {t} ELSE vector \ {t}
  /\ stale' = stale \cup (flags \cap {t})
  /\ missed' = missed \ {t}
  /\ seen' = IF t = "KEYS" THEN NoButtons ELSE seen

lib_interrupt(t, on) ==
  /\ InProgram /\ pc' = "drop" /\ type' = t
  /\ SetVector(t, on)
  /\ UNCHANGED <<word, prog, flags, timers, code, irq, owner>>
LoadFlags ==
  /\ Thread /\ pc = "drop" /\ pc' = "dropping"
  /\ word' = flags
  /\ UNCHANGED <<type, prog, vector, flags, timers, code, irq, hist>>
StoreFlags ==
  /\ Thread /\ pc = "dropping" /\ pc' = "run" /\ type' = Nobody /\ word' = {}
  /\ flags' = word \ {type} /\ stale' = stale \ {type}
  /\ UNCHANGED <<prog, vector, timers, code, irq, missed, seen, owner>>

lib_timer_USETIMER ==
  /\ InProgram /\ timer' = TRUE
  /\ UNCHANGED <<main, vector, flags, drawcount, alarms, code, irq, hist>>
lib_timer_CORETIMER ==
  /\ InProgram /\ alarms[prog] < MaxAlarms
  /\ alarms' = [alarms EXCEPT ![prog] = @ + 1]
  /\ UNCHANGED <<main, vector, flags, timer, drawcount, code, irq, hist>>

\* The program ends, by END, an error or the break key; post_run.
EndProgram ==
  /\ InProgram /\ ~code /\ pc' = "post_run"
  /\ UNCHANGED <<type, word, prog, vector, flags, timers, code, irq, hist>>

CancelAll_noTick ==
  /\ vector' = {} /\ flags' = {} /\ timer' = FALSE /\ drawcount' = FALSE
  /\ stale' = {} /\ missed' = {}
CancelAll ==
  /\ vector' = {} /\ flags' = {} /\ timer' = FALSE /\ drawcount' = TRUE
  /\ stale' = {} /\ missed' = {}

\* The heap has been reset by now, and the files are closed.
timer_init ==
  /\ Thread /\ pc = "post_run" /\ pc' = "stopping"
  /\ CancelAll
  /\ UNCHANGED <<type, word, prog, alarms, code, irq, seen, owner>>
cancel_all_interrupts ==
  /\ Thread /\ pc = "stopping" /\ pc' = "idle"
  /\ code' = FALSE
  /\ vector' = {} /\ flags' = {} /\ timer' = FALSE /\ stale' = {} /\ missed' = {}
  /\ UNCHANGED <<type, word, prog, drawcount, alarms, irq, seen, owner>>

post_run == timer_init \/ cancel_all_interrupts
-----------------------------------------------------------------------------
(* The callbacks of the alarms.                                            *)

\* call_interrupt_function, from the callback at "at".
CallHandler(t, at) ==
  /\ stage' = at /\ handler' = t
  /\ saved' = code /\ code' = TRUE
Skip(at) == stage' = at /\ UNCHANGED <<handler, saved, code>>
CallIf(c, t, at) == IF c /\ t \in vector THEN CallHandler(t, at) ELSE Skip(at)

repeating_timer_callback ==
  /\ Free /\ timer
  /\ CallIf(TRUE, "TIMER", "end")
  /\ UNCHANGED <<main, vector, flags, timers, s_keys, keys, hist>>

alarm_coretimer_callback(p) ==
  /\ Free /\ alarms[p] > 0
  /\ alarms' = [alarms EXCEPT ![p] = @ - 1]
  /\ owner' = p
  /\ CallIf(TRUE, "CORETIMER", "end")
  /\ UNCHANGED <<main, vector, flags, timer, drawcount, s_keys, keys, stale, missed, seen>>

Tick ==
  /\ Free /\ drawcount
  /\ CallIf(TRUE, "DRAWCOUNT", "keys")
  /\ UNCHANGED <<main, vector, flags, timers, s_keys, keys, hist>>

\* char is unsigned on this processor: the -1 of s_keys is 255, which is not
\* negative.
LookAtButtons_press ==
  /\ stage = "keys" /\ handler = Nobody
  /\ IF "KEYS" \in vector
     THEN \E k \in Buttons :
            /\ keys' = k /\ seen' = k /\ UNCHANGED s_keys
            /\ CallIf(0 <= s_keys /\ s_keys < k, "KEYS", "keys_done")
     ELSE /\ s_keys' = NoButtons /\ seen' = NoButtons /\ UNCHANGED keys
          /\ Skip("music")
  /\ UNCHANGED <<main, vector, flags, timers, stale, missed, owner>>
LookAtButtons ==
  /\ stage = "keys" /\ handler = Nobody
  /\ IF "KEYS" \in vector
     THEN \E k \in Buttons :
            /\ keys' = k /\ seen' = k /\ UNCHANGED s_keys
            /\ CallIf(0 <= s_keys /\ s_keys # k, "KEYS", "keys_done")
     ELSE /\ s_keys' = NoButtons /\ seen' = NoButtons /\ UNCHANGED keys
          /\ Skip("music")
  /\ UNCHANGED <<main, vector, flags, timers, stale, missed, owner>>
KeepButtons ==
  /\ stage = "keys_done" /\ handler = Nobody /\ stage' = "music"
  /\ s_keys' = keys
  /\ UNCHANGED <<main, vector, flags, timers, code, handler, saved, keys, hist>>

\* A last note begins, or a file has ended; never both in one tick.
musicint ==
  /\ stage = "music" /\ stage' = "MUSIC"
  /\ \/ UNCHANGED <<flags, missed>>
     \/ \E t \in Flagged : /\ flags' = flags \cup {t}
                           /\ missed' = missed \cup ({t} \cap vector)
  /\ UNCHANGED <<main, vector, timers, code, handler, saved, s_keys, keys, stale, seen, owner>>

After(t) == IF t = "MUSIC" THEN "WAVE" ELSE "inkey"
Drop(t) == IF t = "MUSIC" THEN "dropMUSIC" ELSE "dropWAVE"
LookAtFlag(t) ==
  /\ stage = t /\ handler = Nobody
  /\ IF t \in vector THEN CallIf(t \in flags, t, Drop(t)) ELSE Skip(After(t))
  /\ missed' = IF t \in flags THEN missed \ {t} ELSE missed
  /\ UNCHANGED <<main, vector, flags, timers, s_keys, keys, stale, seen, owner>>
drop_interrupt_flag_all(t) ==
  /\ stage = Drop(t) /\ handler = Nobody /\ stage' = After(t)
  /\ flags' = {} /\ stale' = stale \ {t}
  /\ UNCHANGED <<main, vector, timers, code, handler, saved, s_keys, keys, missed, seen, owner>>
drop_interrupt_flag(t) ==
  /\ stage = Drop(t) /\ handler = Nobody /\ stage' = After(t)
  /\ flags' = flags \ {t} /\ stale' = stale \ {t}
  /\ UNCHANGED <<main, vector, timers, code, handler, saved, s_keys, keys, missed, seen, owner>>

LookForKey ==
  /\ stage = "inkey" /\ handler = Nobody
  /\ \E pressed \in BOOLEAN : CallIf(pressed, "INKEY", "end")
  /\ UNCHANGED <<main, vector, flags, timers, s_keys, keys, hist>>

EndOfCallback ==
  /\ stage = "end" /\ handler = Nobody /\ stage' = "off"
  /\ UNCHANGED <<main, vector, flags, timers, code, handler, saved, s_keys, keys, hist>>

repeating_drawcount_callback ==
  Tick \/ LookAtButtons \/ KeepButtons \/ musicint
  \/ (\E t \in Flagged : LookAtFlag(t) \/ drop_interrupt_flag(t)) \/ LookForKey
-----------------------------------------------------------------------------
(* A BASIC handler.                                                        *)

HandlerInterrupt(t, on) ==
  /\ handler # Nobody
  /\ SetVector(t, on)
  /\ flags' = flags \ {t}
  /\ UNCHANGED <<main, timers, code, irq, owner>>

HandlerReturns_raised ==
  /\ handler # Nobody /\ handler' = Nobody
  /\ UNCHANGED <<main, vector, flags, timers, code, stage, saved, s_keys, keys, hist>>
HandlerReturns ==
  /\ handler # Nobody /\ handler' = Nobody
  /\ code' = saved
  /\ UNCHANGED <<main, vector, flags, timers, stage, saved, s_keys, keys, hist>>

\* lib_end takes the stack and the return address of the program, and leaves
\* the processor in the interrupt.
HandlerEnd ==
  /\ HandlerEnds /\ handler # Nobody /\ handler' = Nobody
  /\ stage' = "lost" /\ pc' = "post_run"
  /\ UNCHANGED <<type, word, prog, vector, flags, timers, code, saved, s_keys, keys, hist>>

call_interrupt_function == HandlerReturns \/ HandlerEnd
-----------------------------------------------------------------------------
Interrupt == \E t \in Uses, on \in BOOLEAN : lib_interrupt(t, on)
InHandler == \E t \in Uses, on \in BOOLEAN : HandlerInterrupt(t, on)

Next ==
  \/ StartProgram \/ Interrupt \/ LoadFlags \/ StoreFlags
  \/ lib_timer_USETIMER \/ lib_timer_CORETIMER
  \/ EndProgram \/ post_run
  \/ repeating_timer_callback \/ repeating_drawcount_callback
  \/ \E p \in 0 .. 1 : alarm_coretimer_callback(p)
  \/ EndOfCallback \/ InHandler \/ call_interrupt_function

Spec == Init /\ [][Next]_vars

\* Alarms that are due are served, and handlers return.  The tick competes
\* with the other alarms for the processor and wins some time.
FairSpec ==
  /\ Spec
  /\ SF_vars(Tick)
  /\ WF_vars(LookAtButtons \/ KeepButtons \/ musicint \/ LookForKey \/ EndOfCallback
             \/ \E t \in Flagged : LookAtFlag(t) \/ drop_interrupt_flag(t))
  /\ WF_vars(call_interrupt_function)
  /\ WF_vars(post_run)
-----------------------------------------------------------------------------
(* Properties.                                                             *)

Stages == {"off", "keys", "keys_done", "music", "MUSIC", "dropMUSIC", "WAVE", "dropWAVE",
           "inkey", "end", "lost"}

\* The vectors, flags and the place in the callback keep their type.
TypeOK ==
  /\ vector \subseteq Types /\ flags \subseteq Flagged /\ word \subseteq Flagged
  /\ stage \in Stages /\ handler \in Types \cup {Nobody}
  /\ alarms \in [0 .. 1 -> 0 .. MaxAlarms]
  /\ {s_keys, keys, seen} \subseteq Buttons \cup {NoButtons}

\* g_interrupt_code tells whether a handler runs: the break key must not end
\* the program inside one.
CodeTells == TypeOK /\ (~Lost => (code <=> handler # Nobody))

\* An end of a tune or of a file is never lost between its flag and its
\* handler, whatever INTERRUPT statements the program and the handlers execute.
NoEventLost == Free => missed = {}

\* The buttons are compared from tick to tick: the KEYS handler is called when
\* they changed, unless an INTERRUPT KEYS came between the two ticks.
ChangeIsSeen ==
  [][stage = "keys" /\ "KEYS" \in vector /\ NoButtons \notin {seen, seen'} /\ seen' # seen =>
       handler' = "KEYS"]_vars

\* ... and only then.
OnlyChanges ==
  [][stage = "keys" /\ handler' = "KEYS" => seen # NoButtons /\ seen' # seen]_vars

\* A MUSIC or WAVE handler is called only for an event that came after its
\* INTERRUPT statement.
OnlyFreshEvents == handler \notin stale

\* A CORETIMER handler is called only for an alarm of its own program.
OwnAlarm == handler = "CORETIMER" => owner = prog

\* No handler is called once the end of the program has begun.
NoHandlerAfterEnd == [][handler = Nobody /\ handler' # Nobody => pc \notin {"post_run", "stopping"}]_vars

\* The 1/60 s tick goes on for ever, through all programs, unless a handler
\* ended one of them.
TicksGoOn == <>[]Lost \/ []<>(stage = "music")
=============================================================================
