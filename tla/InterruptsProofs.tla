-------------------------- MODULE InterruptsProofs --------------------------
(***************************************************************************)
(* Interrupts of any types, with any buttons, any number of CORETIMER      *)
(* alarms, and handlers that may or may not end the program:               *)
(* g_interrupt_code tells whether a handler runs, no end of a tune or of a *)
(* file is lost, and the KEYS handler is called when the buttons changed.  *)
(***************************************************************************)
EXTENDS Interrupts, TLAPS

\* Where the callback may be while a handler of its own runs: only the stage
\* that follows the call.
StageOf(t) ==
  CASE t = "DRAWCOUNT" -> "keys" [] t = "KEYS" -> "keys_done"
    [] t = "MUSIC" -> "dropMUSIC" [] t = "WAVE" -> "dropWAVE" [] OTHER -> "end"
Running ==
  /\ handler # Nobody => stage = StageOf(handler)
  /\ ~Lost => (code <=> handler # Nobody)
  /\ handler # Nobody => ~saved

\* The events that the callback has still to serve, at each of its stages, and
\* the flags that hold them.
ToServe == CASE stage = "MUSIC" -> Flagged [] stage \in {"dropMUSIC", "WAVE"} -> {"WAVE"} [] OTHER -> {}
Served == ~Lost => missed \subseteq ToServe \cap flags

\* What the next tick compares the buttons with.
Compared ==
  /\ stage = "keys_done" /\ seen # NoButtons => keys = seen
  /\ stage \notin {"keys_done", "lost"} /\ seen # NoButtons => s_keys = seen

Registers == prog \in 0 .. 1 /\ code \in BOOLEAN /\ saved \in BOOLEAN /\ missed \subseteq Flagged

IInv == TypeOK /\ Registers /\ Running /\ Served /\ Compared
-----------------------------------------------------------------------------
(* The steps.                                                              *)

\* Every step keeps the types.
LEMMA TypeStep ==
  ASSUME IInv, [Next]_vars
  PROVE  TypeOK'
<1> USE InterruptsAssumption DEF IInv, TypeOK, Registers, Types, Flagged, Stages, Nobody, NoButtons
<1>1. CASE StartProgram
  BY <1>1 DEF StartProgram, Thread, Free, Lost, timers, irq, hist
<1>2. ASSUME NEW t \in Uses, NEW on \in BOOLEAN, lib_interrupt(t, on) PROVE TypeOK'
  BY <1>2 DEF lib_interrupt, SetVector, Thread, Free, Lost, InProgram, timers, irq
<1>3. CASE LoadFlags
  BY <1>3 DEF LoadFlags, Thread, Free, Lost, timers, irq, hist
<1>4. CASE StoreFlags
  BY <1>4 DEF StoreFlags, Thread, Free, Lost, timers, irq
<1>5. CASE lib_timer_USETIMER
  BY <1>5 DEF lib_timer_USETIMER, Thread, Free, Lost, InProgram, main, irq, hist
<1>6. CASE lib_timer_CORETIMER
  BY <1>6 DEF lib_timer_CORETIMER, Thread, Free, Lost, InProgram, main, irq, hist
<1>7. CASE EndProgram
  BY <1>7 DEF EndProgram, Thread, Free, Lost, InProgram, timers, irq, hist
<1>8. CASE timer_init
  BY <1>8 DEF timer_init, CancelAll, Thread, Free, Lost, irq
<1>9. CASE cancel_all_interrupts
  BY <1>9 DEF cancel_all_interrupts, Thread, Free, Lost, irq
<1>10. CASE repeating_timer_callback
  BY <1>10 DEF repeating_timer_callback, CallHandler, Skip, CallIf, Free, main, timers,
      hist
<1>11. CASE Tick
  BY <1>11 DEF Tick, CallHandler, Skip, CallIf, Free, main, timers, hist
<1>12. CASE LookAtButtons
  BY <1>12 DEF LookAtButtons, CallHandler, Skip, CallIf, main, timers
<1>13. CASE KeepButtons
  BY <1>13 DEF KeepButtons, main, timers, hist
<1>14. CASE musicint
  BY <1>14 DEF musicint, main, timers
<1>15. ASSUME NEW t \in Flagged, LookAtFlag(t) PROVE TypeOK'
  BY <1>15 DEF LookAtFlag, CallHandler, Skip, CallIf, After, Drop, main, timers
<1>16. ASSUME NEW t \in Flagged, drop_interrupt_flag(t) PROVE TypeOK'
  BY <1>16 DEF drop_interrupt_flag, After, Drop, main, timers
<1>17. CASE LookForKey
  BY <1>17 DEF LookForKey, CallHandler, Skip, CallIf, main, timers, hist
<1>18. ASSUME NEW p \in 0 .. 1, alarm_coretimer_callback(p) PROVE TypeOK'
  BY <1>18 DEF alarm_coretimer_callback, CallHandler, Skip, CallIf, Free, main
<1>19. CASE EndOfCallback
  BY <1>19 DEF EndOfCallback, main, timers, hist
<1>20. ASSUME NEW t \in Uses, NEW on \in BOOLEAN, HandlerInterrupt(t, on) PROVE TypeOK'
  BY <1>20 DEF HandlerInterrupt, SetVector, main, timers, irq
<1>21. CASE HandlerReturns
  BY <1>21 DEF HandlerReturns, main, timers, hist
<1>22. CASE HandlerEnd
  BY <1>22 DEF HandlerEnd, timers, hist
<1>23. CASE UNCHANGED vars
  BY <1>23 DEF vars, main, timers, irq, hist
<1> QED BY <1>1, <1>2, <1>3, <1>4, <1>5, <1>6, <1>7, <1>8, <1>9, <1>10, <1>11, <1>12,
    <1>13, <1>14, <1>15, <1>16, <1>17, <1>18, <1>19, <1>20, <1>21, <1>22, <1>23
  DEF Next, Interrupt, InHandler, post_run, repeating_drawcount_callback,
      call_interrupt_function

\* ... and those of what only the proof looks at.
LEMMA RegistersStep ==
  ASSUME IInv, [Next]_vars
  PROVE  Registers'
<1> USE InterruptsAssumption DEF IInv, TypeOK, Registers, Flagged
<1>1. CASE StartProgram
  <2>1. prog' \in 0 .. 1
    BY <1>1 DEF StartProgram
  <2>2. code' \in BOOLEAN /\ UNCHANGED <<saved, missed>>
    BY <1>1 DEF StartProgram, irq, hist
  <2> QED BY <2>1, <2>2
<1>2. ASSUME NEW t \in Uses, NEW on \in BOOLEAN, lib_interrupt(t, on) PROVE Registers'
  BY <1>2 DEF lib_interrupt, SetVector, Thread, Free, Lost, InProgram, timers, irq
<1>3. CASE LoadFlags
  BY <1>3 DEF LoadFlags, Thread, Free, Lost, timers, irq, hist
<1>4. CASE StoreFlags
  BY <1>4 DEF StoreFlags, Thread, Free, Lost, timers, irq
<1>5. CASE lib_timer_USETIMER
  BY <1>5 DEF lib_timer_USETIMER, Thread, Free, Lost, InProgram, main, irq, hist
<1>6. CASE lib_timer_CORETIMER
  BY <1>6 DEF lib_timer_CORETIMER, Thread, Free, Lost, InProgram, main, irq, hist
<1>7. CASE EndProgram
  BY <1>7 DEF EndProgram, Thread, Free, Lost, InProgram, timers, irq, hist
<1>8. CASE timer_init
  BY <1>8 DEF timer_init, CancelAll, Thread, Free, Lost, irq
<1>9. CASE cancel_all_interrupts
  BY <1>9 DEF cancel_all_interrupts, Thread, Free, Lost, irq
<1>10. CASE repeating_timer_callback
  BY <1>10 DEF repeating_timer_callback, CallHandler, Skip, CallIf, Free, main, timers,
      hist
<1>11. CASE Tick
  BY <1>11 DEF Tick, CallHandler, Skip, CallIf, Free, main, timers, hist
<1>12. CASE LookAtButtons
  BY <1>12 DEF LookAtButtons, CallHandler, Skip, CallIf, main, timers
<1>13. CASE KeepButtons
  BY <1>13 DEF KeepButtons, main, timers, hist
<1>14. CASE musicint
  BY <1>14 DEF musicint, main, timers
<1>15. ASSUME NEW t \in Flagged, LookAtFlag(t) PROVE Registers'
  BY <1>15 DEF LookAtFlag, CallHandler, Skip, CallIf, After, Drop, main, timers
<1>16. ASSUME NEW t \in Flagged, drop_interrupt_flag(t) PROVE Registers'
  BY <1>16 DEF drop_interrupt_flag, After, Drop, main, timers
<1>17. CASE LookForKey
  BY <1>17 DEF LookForKey, CallHandler, Skip, CallIf, main, timers, hist
<1>18. ASSUME NEW p \in 0 .. 1, alarm_coretimer_callback(p) PROVE Registers'
  BY <1>18 DEF alarm_coretimer_callback, CallHandler, Skip, CallIf, Free, main
<1>19. CASE EndOfCallback
  BY <1>19 DEF EndOfCallback, main, timers, hist
<1>20. ASSUME NEW t \in Uses, NEW on \in BOOLEAN, HandlerInterrupt(t, on) PROVE Registers'
  BY <1>20 DEF HandlerInterrupt, SetVector, main, timers, irq
<1>21. CASE HandlerReturns
  BY <1>21 DEF HandlerReturns, main, timers, hist
<1>22. CASE HandlerEnd
  BY <1>22 DEF HandlerEnd, timers, hist
<1>23. CASE UNCHANGED vars
  BY <1>23 DEF vars, main, timers, irq, hist
<1> QED BY <1>1, <1>2, <1>3, <1>4, <1>5, <1>6, <1>7, <1>8, <1>9, <1>10, <1>11, <1>12,
    <1>13, <1>14, <1>15, <1>16, <1>17, <1>18, <1>19, <1>20, <1>21, <1>22, <1>23
  DEF Next, Interrupt, InHandler, post_run, repeating_drawcount_callback,
      call_interrupt_function

\* A handler is called with g_interrupt_code off, and puts it back.
LEMMA RunningStep ==
  ASSUME IInv, [Next]_vars
  PROVE  Running'
<1> USE DEF IInv, Running, TypeOK, Registers, StageOf, Lost, Free, Types, Flagged, Nobody, Stages
<1>1. CASE StartProgram
  BY <1>1 DEF StartProgram, Thread, timers, irq, hist
<1>2. ASSUME NEW t \in Uses, NEW on \in BOOLEAN, lib_interrupt(t, on) PROVE Running'
  BY <1>2 DEF lib_interrupt, SetVector, Thread, InProgram, timers, irq
<1>3. CASE LoadFlags
  BY <1>3 DEF LoadFlags, Thread, timers, irq, hist
<1>4. CASE StoreFlags
  BY <1>4 DEF StoreFlags, Thread, timers, irq
<1>5. CASE lib_timer_USETIMER
  BY <1>5 DEF lib_timer_USETIMER, Thread, InProgram, main, irq, hist
<1>6. CASE lib_timer_CORETIMER
  BY <1>6 DEF lib_timer_CORETIMER, Thread, InProgram, main, irq, hist
<1>7. CASE EndProgram
  BY <1>7 DEF EndProgram, Thread, InProgram, timers, irq, hist
<1>8. CASE timer_init
  BY <1>8 DEF timer_init, CancelAll, Thread, irq
<1>9. CASE cancel_all_interrupts
  BY <1>9 DEF cancel_all_interrupts, Thread, irq
<1>10. CASE repeating_timer_callback
  BY <1>10 DEF repeating_timer_callback, CallHandler, Skip, CallIf, main, timers, hist
<1>11. CASE Tick
  BY <1>11 DEF Tick, CallHandler, Skip, CallIf, main, timers, hist
<1>12. CASE LookAtButtons
  BY <1>12 DEF LookAtButtons, CallHandler, Skip, CallIf, main, timers
<1>13. CASE KeepButtons
  BY <1>13 DEF KeepButtons, main, timers, hist
<1>14. CASE musicint
  BY <1>14 DEF musicint, main, timers
<1>15. ASSUME NEW t \in Flagged, LookAtFlag(t) PROVE Running'
  BY <1>15 DEF LookAtFlag, CallHandler, Skip, CallIf, After, Drop, main, timers
<1>16. ASSUME NEW t \in Flagged, drop_interrupt_flag(t) PROVE Running'
  BY <1>16 DEF drop_interrupt_flag, After, Drop, main, timers
<1>17. CASE LookForKey
  BY <1>17 DEF LookForKey, CallHandler, Skip, CallIf, main, timers, hist
<1>18. ASSUME NEW p \in 0 .. 1, alarm_coretimer_callback(p) PROVE Running'
  BY <1>18 DEF alarm_coretimer_callback, CallHandler, Skip, CallIf, main
<1>19. CASE EndOfCallback
  BY <1>19 DEF EndOfCallback, main, timers, hist
<1>20. ASSUME NEW t \in Uses, NEW on \in BOOLEAN, HandlerInterrupt(t, on) PROVE Running'
  BY <1>20 DEF HandlerInterrupt, SetVector, main, timers, irq
<1>21. CASE HandlerReturns
  BY <1>21 DEF HandlerReturns, main, timers, hist
<1>22. CASE HandlerEnd
  BY <1>22 DEF HandlerEnd, timers, hist
<1>23. CASE UNCHANGED vars
  BY <1>23 DEF vars, main, timers, irq, hist
<1> QED BY <1>1, <1>2, <1>3, <1>4, <1>5, <1>6, <1>7, <1>8, <1>9, <1>10, <1>11, <1>12,
    <1>13, <1>14, <1>15, <1>16, <1>17, <1>18, <1>19, <1>20, <1>21, <1>22, <1>23
  DEF Next, Interrupt, InHandler, post_run, repeating_drawcount_callback,
      call_interrupt_function

\* A flag that is raised stays until its stage of the same tick: the program cannot drop it,
\* and a handler that drops it gives the event up.
LEMMA ServedStep ==
  ASSUME IInv, [Next]_vars
  PROVE  Served'
<1> USE DEF IInv, Served, ToServe, Running, StageOf, TypeOK, Registers, Flagged, Lost, Nobody
<1>1. CASE StartProgram
  BY <1>1 DEF StartProgram, Thread, Free, timers, irq, hist
<1>2. ASSUME NEW t \in Uses, NEW on \in BOOLEAN, lib_interrupt(t, on) PROVE Served'
  BY <1>2 DEF lib_interrupt, SetVector, Thread, Free, InProgram, timers, irq
<1>3. CASE LoadFlags
  BY <1>3 DEF LoadFlags, Thread, Free, timers, irq, hist
<1>4. CASE StoreFlags
  BY <1>4 DEF StoreFlags, Thread, Free, timers, irq
<1>5. CASE lib_timer_USETIMER
  BY <1>5 DEF lib_timer_USETIMER, Thread, Free, InProgram, main, irq, hist
<1>6. CASE lib_timer_CORETIMER
  BY <1>6 DEF lib_timer_CORETIMER, Thread, Free, InProgram, main, irq, hist
<1>7. CASE EndProgram
  BY <1>7 DEF EndProgram, Thread, Free, InProgram, timers, irq, hist
<1>8. CASE timer_init
  BY <1>8 DEF timer_init, CancelAll, Thread, Free, irq
<1>9. CASE cancel_all_interrupts
  BY <1>9 DEF cancel_all_interrupts, Thread, Free, irq
<1>10. CASE repeating_timer_callback
  BY <1>10 DEF repeating_timer_callback, CallHandler, Skip, CallIf, Free, main, timers,
      hist
<1>11. CASE Tick
  BY <1>11 DEF Tick, CallHandler, Skip, CallIf, Free, main, timers, hist
<1>12. CASE LookAtButtons
  BY <1>12 DEF LookAtButtons, CallHandler, Skip, CallIf, main, timers
<1>13. CASE KeepButtons
  BY <1>13 DEF KeepButtons, main, timers, hist
<1>14. CASE musicint
  BY <1>14 DEF musicint, main, timers
<1>15. ASSUME NEW t \in Flagged, LookAtFlag(t) PROVE Served'
  BY <1>15 DEF LookAtFlag, CallHandler, Skip, CallIf, After, Drop, main, timers
<1>16. ASSUME NEW t \in Flagged, drop_interrupt_flag(t) PROVE Served'
  BY <1>16 DEF drop_interrupt_flag, After, Drop, main, timers
<1>17. CASE LookForKey
  BY <1>17 DEF LookForKey, CallHandler, Skip, CallIf, main, timers, hist
<1>18. ASSUME NEW p \in 0 .. 1, alarm_coretimer_callback(p) PROVE Served'
  BY <1>18 DEF alarm_coretimer_callback, CallHandler, Skip, CallIf, Free, main
<1>19. CASE EndOfCallback
  BY <1>19 DEF EndOfCallback, main, timers, hist
<1>20. ASSUME NEW t \in Uses, NEW on \in BOOLEAN, HandlerInterrupt(t, on) PROVE Served'
  BY <1>20 DEF HandlerInterrupt, SetVector, main, timers, irq
<1>21. CASE HandlerReturns
  BY <1>21 DEF HandlerReturns, main, timers, hist
<1>22. CASE HandlerEnd
  BY <1>22 DEF HandlerEnd, timers, hist
<1>23. CASE UNCHANGED vars
  BY <1>23 DEF vars, main, timers, irq, hist
<1> QED BY <1>1, <1>2, <1>3, <1>4, <1>5, <1>6, <1>7, <1>8, <1>9, <1>10, <1>11, <1>12,
    <1>13, <1>14, <1>15, <1>16, <1>17, <1>18, <1>19, <1>20, <1>21, <1>22, <1>23
  DEF Next, Interrupt, InHandler, post_run, repeating_drawcount_callback,
      call_interrupt_function

\* The buttons of a tick are kept for the next one after the handler has returned, or are
\* forgotten with the vector.
LEMMA ComparedStep ==
  ASSUME IInv, [Next]_vars
  PROVE  Compared'
<1> USE DEF IInv, Compared, Running, StageOf, TypeOK, Flagged, Nobody, Lost
<1>1. CASE StartProgram
  BY <1>1 DEF StartProgram, Thread, Free, timers, irq, hist
<1>2. ASSUME NEW t \in Uses, NEW on \in BOOLEAN, lib_interrupt(t, on) PROVE Compared'
  BY <1>2 DEF lib_interrupt, SetVector, Thread, Free, InProgram, timers, irq
<1>3. CASE LoadFlags
  BY <1>3 DEF LoadFlags, Thread, Free, timers, irq, hist
<1>4. CASE StoreFlags
  BY <1>4 DEF StoreFlags, Thread, Free, timers, irq
<1>5. CASE lib_timer_USETIMER
  BY <1>5 DEF lib_timer_USETIMER, Thread, Free, InProgram, main, irq, hist
<1>6. CASE lib_timer_CORETIMER
  BY <1>6 DEF lib_timer_CORETIMER, Thread, Free, InProgram, main, irq, hist
<1>7. CASE EndProgram
  BY <1>7 DEF EndProgram, Thread, Free, InProgram, timers, irq, hist
<1>8. CASE timer_init
  BY <1>8 DEF timer_init, CancelAll, Thread, Free, irq
<1>9. CASE cancel_all_interrupts
  BY <1>9 DEF cancel_all_interrupts, Thread, Free, irq
<1>10. CASE repeating_timer_callback
  BY <1>10 DEF repeating_timer_callback, CallHandler, Skip, CallIf, Free, main, timers,
      hist
<1>11. CASE Tick
  BY <1>11 DEF Tick, CallHandler, Skip, CallIf, Free, main, timers, hist
<1>12. CASE LookAtButtons
  BY <1>12 DEF LookAtButtons, CallHandler, Skip, CallIf, main, timers
<1>13. CASE KeepButtons
  BY <1>13 DEF KeepButtons, main, timers, hist
<1>14. CASE musicint
  BY <1>14 DEF musicint, main, timers
<1>15. ASSUME NEW t \in Flagged, LookAtFlag(t) PROVE Compared'
  BY <1>15 DEF LookAtFlag, CallHandler, Skip, CallIf, After, Drop, main, timers
<1>16. ASSUME NEW t \in Flagged, drop_interrupt_flag(t) PROVE Compared'
  BY <1>16 DEF drop_interrupt_flag, After, Drop, main, timers
<1>17. CASE LookForKey
  BY <1>17 DEF LookForKey, CallHandler, Skip, CallIf, main, timers, hist
<1>18. ASSUME NEW p \in 0 .. 1, alarm_coretimer_callback(p) PROVE Compared'
  BY <1>18 DEF alarm_coretimer_callback, CallHandler, Skip, CallIf, Free, main
<1>19. CASE EndOfCallback
  BY <1>19 DEF EndOfCallback, main, timers, hist
<1>20. ASSUME NEW t \in Uses, NEW on \in BOOLEAN, HandlerInterrupt(t, on) PROVE Compared'
  BY <1>20 DEF HandlerInterrupt, SetVector, main, timers, irq
<1>21. CASE HandlerReturns
  BY <1>21 DEF HandlerReturns, main, timers, hist
<1>22. CASE HandlerEnd
  BY <1>22 DEF HandlerEnd, timers, hist
<1>23. CASE UNCHANGED vars
  BY <1>23 DEF vars, main, timers, irq, hist
<1> QED BY <1>1, <1>2, <1>3, <1>4, <1>5, <1>6, <1>7, <1>8, <1>9, <1>10, <1>11, <1>12,
    <1>13, <1>14, <1>15, <1>16, <1>17, <1>18, <1>19, <1>20, <1>21, <1>22, <1>23
  DEF Next, Interrupt, InHandler, post_run, repeating_drawcount_callback,
      call_interrupt_function
-----------------------------------------------------------------------------
(* The theorems.                                                           *)

\* The initial state satisfies the inductive invariant.
LEMMA InitIInv == Init => IInv
<1> SUFFICES ASSUME Init PROVE IInv
  OBVIOUS
<1> USE InterruptsAssumption DEF Init
<1>1. TypeOK
  BY DEF TypeOK, Types, Flagged, Stages, Nobody, NoButtons
<1>2. Registers
  <2>1. prog \in 0 .. 1
    OBVIOUS
  <2>2. code \in BOOLEAN /\ saved \in BOOLEAN /\ missed \subseteq Flagged
    OBVIOUS
  <2> QED BY <2>1, <2>2 DEF Registers
<1>3. Running /\ Served /\ Compared
  BY DEF Running, Served, Compared, Lost
<1> QED BY <1>1, <1>2, <1>3 DEF IInv

\* Every step keeps the inductive invariant.
LEMMA NextIInv == IInv /\ [Next]_vars => IInv'
BY TypeStep, RegistersStep, RunningStep, ServedStep, ComparedStep DEF IInv

\* The inductive invariant holds in every reachable state.
LEMMA AlwaysIInv == Spec => []IInv
BY InitIInv, NextIInv, PTL DEF Spec

\* g_interrupt_code, which keeps the break key from ending the program, is set just while a
\* handler runs, until a handler ends the program; handlers do
\* not nest, as no alarm interrupts another.
THEOREM CodeAlwaysTells == Spec => []CodeTells
<1>1. IInv => CodeTells
  BY DEF IInv, Running, CodeTells
<1> QED BY <1>1, AlwaysIInv, PTL

\* When the callback has ended, the handler of each event of this tick has been called,
\* unless an INTERRUPT statement of a handler gave it up.
THEOREM NoEventIsLost == Spec => []NoEventLost
<1>1. IInv => NoEventLost
  BY DEF IInv, Served, ToServe, NoEventLost, Free, Lost
<1> QED BY <1>1, AlwaysIInv, PTL

\* The KEYS handler is called in the tick in which the buttons are not those of the last,
\* unless the program or a handler executed INTERRUPT KEYS between the two.
THEOREM ChangesAreSeen == Spec => ChangeIsSeen
<1> DEFINE Seen == stage = "keys" /\ "KEYS" \in vector /\ NoButtons \notin {seen, seen'}
                       /\ seen' # seen
                     => handler' = "KEYS"
<1>1. ASSUME IInv, [Next]_vars PROVE [Seen]_vars
  <2> SUFFICES ASSUME Next, stage = "keys", "KEYS" \in vector,
                      seen # NoButtons, seen' # NoButtons, seen' # seen
               PROVE  handler' = "KEYS"
    BY <1>1
  <2>1. s_keys = seen /\ s_keys \in 0 .. 254
    BY <1>1, InterruptsAssumption DEF IInv, Compared, TypeOK, NoButtons
  <2>2. CASE LookAtButtons
    BY <2>1, <2>2 DEF LookAtButtons, CallIf, CallHandler
  <2>3. ASSUME NEW t \in Uses, NEW on \in BOOLEAN, HandlerInterrupt(t, on) PROVE FALSE
    BY <2>3 DEF HandlerInterrupt, SetVector
  <2> QED
    BY <2>2, <2>3
    DEF Next, StartProgram, Interrupt, lib_interrupt, InProgram, Thread, Free, Lost, LoadFlags,
        StoreFlags, lib_timer_USETIMER, lib_timer_CORETIMER, EndProgram, post_run, timer_init,
        cancel_all_interrupts, repeating_timer_callback, repeating_drawcount_callback, Tick,
        KeepButtons, musicint, LookAtFlag, drop_interrupt_flag, LookForKey, Flagged,
        alarm_coretimer_callback, EndOfCallback, InHandler, call_interrupt_function,
        HandlerReturns, HandlerEnd, hist
<1>2. Spec => [][Seen]_vars
  BY <1>1, AlwaysIInv, PTL DEF Spec
<1> QED BY <1>2 DEF ChangeIsSeen
=============================================================================
