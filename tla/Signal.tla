------------------------------- MODULE Signal -------------------------------
(***************************************************************************)
(* Signals (signal.c, signal_asm.S, the entry stubs of idt_asm.S): they are *)
(* sent by interrupt and exception handlers, and delivered by signal_check  *)
(* whenever the kernel is about to return to user mode, by halting the task *)
(* or by making it run its own handler, until that calls sigreturn.         *)
(*                                                                          *)
(* Which task runs next is left open here (Sched.tla decides it), and so is *)
(* why a task sleeps.  KernelTask stands for init and idle.                 *)
(***************************************************************************)
EXTENDS Naturals, Sequences

CONSTANTS
  Task,        \* PCB slots of user tasks
  KernelTask,  \* init or idle: signal_check does nothing for them
  None,        \* focus_task() = NULL
  Value,       \* what EAX may hold
  HandledByUser,   \* signals for which programs install a handler
  RaisedByProgram, \* exceptions that programs raise
  ALARM_TICKS  \* SIGNAL_ALARM_INTERVAL_MS / SCHED_PIT_INTERVAL (200)

SIGNAL_DIV_ZERO  == 0
SIGNAL_SEGFAULT  == 1
SIGNAL_INTERRUPT == 2
SIGNAL_ALARM     == 3
SIGNAL_USER1     == 4
Sig   == 0..4
Fatal == {SIGNAL_DIV_ZERO, SIGNAL_SEGFAULT, SIGNAL_INTERRUPT}

ASSUME SignalAssumption ==
  /\ KernelTask \notin Task /\ None \notin Task
  /\ 0 \in Value
  /\ HandledByUser \subseteq Sig
  /\ RaisedByProgram \subseteq {SIGNAL_DIV_ZERO, SIGNAL_SEGFAULT}
  /\ ALARM_TICKS \in Nat

VARIABLES
  signals,   \* signal_struct_t of every task
  context,   \* the user registers of every task, as its hw_context has them
  stack,     \* the hw_contexts that signal delivery pushed on the user stack
  main,      \* history variable: EAX as the program outside handlers left it
  stuck,     \* tasks that fault again and again in a handler
  valid,     \* the tasks there are
  asleep,    \* those among them that wait in a system call
  focus,     \* focus_task()
  running,   \* running_task()
  mode       \* "user", or "kernel" on the way back, before signal_check

userVars == <<context, stack, main, stuck>>
taskVars == <<valid, asleep, focus>>
vars == <<signals, userVars, taskVars, running, mode>>

Ready == valid \ asleep

\* task_signal_init.  It leaves available alone, which nobody reads before
\* signal_check has written it.
task_signal_init ==
  [pending_signal |-> {}, masked_signal |-> {}, available |-> {},
   alarm_time |-> 0, current_handlers |-> [s \in Sig |-> "default"]]

\* The registers at the start of a program or of a handler.
At(code, eax) == [code |-> code, eax |-> eax]
UserStarts(t, eax) ==
  /\ context' = [context EXCEPT ![t] = At("main", eax)]
  /\ main' = [main EXCEPT ![t] = eax]
  /\ stack' = [stack EXCEPT ![t] = <<>>]
  /\ stuck' = stuck \ {t}

InMain(t) == context[t].code = "main"
InUser == mode = "user"
Enters == InUser /\ mode' = "kernel"   \* into the kernel, by whatever gate

-----------------------------------------------------------------------------
\* signal_send: the terminal's signals go to the focus, the others stay here
Addressee(s) == IF s \in {SIGNAL_INTERRUPT, SIGNAL_ALARM} THEN focus ELSE running

signal_send(sg, s) ==
  IF Addressee(s) = None THEN sg
  ELSE [sg EXCEPT ![Addressee(s)].pending_signal = @ \cup {s}]

(***************************************************************************)
(* signal_check on the way back to task t.                                  *)
(***************************************************************************)
Deliverable(t) == signals[t].pending_signal \ signals[t].masked_signal

\* Slip: the signals are looked at from the other end.
Highest(S) == CHOOSE s \in S : \A r \in S : s >= r

Lowest(S) == CHOOSE s \in S : \A r \in S : s <= r

\* signal_set_up_stack_helper: the interrupted context goes on the user stack
SetUpHandler(t) ==
  /\ stack' = [stack EXCEPT ![t] = <<context[t]>> \o @]
  /\ context' = [context EXCEPT ![t].code = "handler"]
  /\ UNCHANGED <<main, stuck>>

\* Slip: the mask is restored before the handler has run.
RunHandlerUnmasked(t) ==
  /\ signals' = [signals EXCEPT ![t].available = signals[t].masked_signal,
                                ![t].pending_signal = {}]
  /\ SetUpHandler(t)
  /\ mode' = "user"
  /\ UNCHANGED <<taskVars, running>>

RunHandler(t) ==
  /\ signals' = [signals EXCEPT ![t].available = signals[t].masked_signal,
                                ![t].masked_signal = Sig,
                                ![t].pending_signal = {}]
  /\ SetUpHandler(t)
  /\ mode' = "user"
  /\ UNCHANGED <<taskVars, running>>

\* The default of ALARM and USER1: nothing, and the mask is restored at once.
Ignore(t) ==
  /\ signals' = [signals EXCEPT ![t].available = signals[t].masked_signal,
                                ![t].pending_signal = {}]
  /\ mode' = "user"
  /\ UNCHANGED <<userVars, taskVars, running>>

(***************************************************************************)
(* system_halt: somebody else continues, on its own way back to user mode,  *)
(* and the focus moves if the task had it.  A waiting parent may wake up.   *)
(* What is left in the slot is not read again.                              *)
(***************************************************************************)
system_halt(t) ==
  /\ valid' = valid \ {t}
  /\ signals' = [signals EXCEPT ![t] = task_signal_init]
  /\ UserStarts(t, 0)
  /\ \E woken \in SUBSET (asleep \ {t}) : asleep' = (asleep \ {t}) \ woken
  /\ focus' \in IF focus # t THEN {focus}
                ELSE IF valid' = {} THEN {None} ELSE valid'
  /\ running' \in (valid' \ asleep') \cup {KernelTask}
  /\ mode' = "kernel"

\* Slip: no check on the way back.
signal_check_skipped ==
  /\ mode = "kernel"
  /\ mode' = "user"
  /\ UNCHANGED <<signals, userVars, taskVars, running>>

signal_check ==
  /\ mode = "kernel"
  /\ IF running = KernelTask \/ Deliverable(running) = {}
     THEN mode' = "user" /\ UNCHANGED <<signals, userVars, taskVars, running>>
     ELSE LET s == Lowest(Deliverable(running))
          IN  IF signals[running].current_handlers[s] # "default"
              THEN RunHandler(running)
              ELSE IF s \in Fatal THEN system_halt(running) ELSE Ignore(running)

-----------------------------------------------------------------------------
(***************************************************************************)
(* The running program.  A stuck one only faults.                           *)
(***************************************************************************)
Program == InUser /\ running \in Task /\ running \notin stuck

\* A value for EAX, which the program outside handlers will rely on.
Yields(v) ==
  /\ context' = [context EXCEPT ![running].eax = v]
  /\ main' = IF InMain(running) THEN [main EXCEPT ![running] = v] ELSE main

UserCode(v) ==
  /\ Program
  /\ Yields(v)
  /\ UNCHANGED <<signals, stack, stuck, taskVars, running, mode>>

\* A system call that returns v: system_call_entry stores it in the context.
SystemCall(v) ==
  /\ Program /\ Enters
  /\ Yields(v)
  /\ UNCHANGED <<signals, stack, stuck, taskVars, running>>

\* set_handler, with NULL for the default handler
SetHandler(s, h, v) ==
  /\ Program /\ Enters
  /\ signals' = [signals EXCEPT ![running].current_handlers[s] = h]
  /\ Yields(v)
  /\ UNCHANGED <<stack, stuck, taskVars, running>>

\* Slip: EAX is what the call returns, as for every other system call.
sigreturn_returns_zero ==
  /\ Program /\ Enters
  /\ ~InMain(running) /\ stack[running] # <<>>
  /\ \E v \in Value :
       context' = [context EXCEPT
                     ![running] = [Head(stack[running]) EXCEPT !.eax = v]]
  /\ stack' = [stack EXCEPT ![running] = Tail(@)]
  /\ signals' = [signals EXCEPT
                   ![running].masked_signal = signals[running].available]
  /\ UNCHANGED <<main, stuck, taskVars, running>>

(***************************************************************************)
(* A handler returns into the code that calls sigreturn: the saved context  *)
(* comes back, EAX included, and the mask with it.                          *)
(***************************************************************************)
sigreturn ==
  /\ Program /\ Enters
  /\ ~InMain(running) /\ stack[running] # <<>>
  /\ context' = [context EXCEPT ![running] = Head(stack[running])]
  /\ stack' = [stack EXCEPT ![running] = Tail(@)]
  /\ signals' = [signals EXCEPT
                   ![running].masked_signal = signals[running].available]
  /\ UNCHANGED <<main, stuck, taskVars, running>>

(***************************************************************************)
(* An exception.  Inside a handler its signal is masked, so that the same   *)
(* instruction is executed, and faults, again.                              *)
(***************************************************************************)
Fault(s) ==
  /\ InUser /\ running \in Task
  /\ Enters
  /\ signals' = signal_send(signals, s)
  /\ stuck' = IF InMain(running) THEN stuck ELSE stuck \cup {running}
  /\ UNCHANGED <<context, stack, main, taskVars, running>>

\* A system call that sleeps, in read or in execute; somebody else goes on.
Sleep ==
  /\ Program /\ Enters
  /\ asleep' = asleep \cup {running}
  /\ running' \in (valid \ asleep') \cup {KernelTask}
  /\ UNCHANGED <<signals, userVars, valid, focus>>

Halt == Program /\ system_halt(running)

-----------------------------------------------------------------------------
(***************************************************************************)
(* Interrupts, on whatever runs.                                            *)
(***************************************************************************)

\* A device wakes t; its call returns v when it runs, which may be at once.
Wake(t, v) ==
  /\ Enters
  /\ t \in asleep
  /\ asleep' = asleep \ {t}
  /\ running' \in {running, t}
  /\ context' = [context EXCEPT ![t].eax = v]
  /\ main' = IF InMain(t) THEN [main EXCEPT ![t] = v] ELSE main
  /\ UNCHANGED <<signals, stack, stuck, valid, focus>>

CtrlC ==
  /\ Enters
  /\ signals' = signal_send(signals, SIGNAL_INTERRUPT)
  /\ UNCHANGED <<userVars, taskVars, running>>

\* Slip: the time is looked at before the tick is added.
AlarmTickLate(sg) ==
  IF focus = None THEN sg
  ELSE IF sg[focus].alarm_time > ALARM_TICKS
       THEN [signal_send(sg, SIGNAL_ALARM) EXCEPT ![focus].alarm_time = 0]
       ELSE [sg EXCEPT ![focus].alarm_time = @ + 1]

\* The alarm part of sched_pit_interrupt_handler
AlarmTick(sg) ==
  IF focus = None THEN sg
  ELSE IF sg[focus].alarm_time + 1 > ALARM_TICKS
       THEN [signal_send(sg, SIGNAL_ALARM) EXCEPT ![focus].alarm_time = 0]
       ELSE [sg EXCEPT ![focus].alarm_time = @ + 1]

\* sched_pit_interrupt_handler, which may switch to t
Pit(t) ==
  /\ Enters
  /\ signals' = AlarmTick(signals)
  /\ t \in Ready \cup {KernelTask}
  /\ running' = t
  /\ UNCHANGED <<userVars, taskVars>>

ChangeFocus(t) ==
  /\ Enters
  /\ t \in valid
  /\ focus' = t
  /\ UNCHANGED <<signals, userVars, valid, asleep, running>>

(***************************************************************************)
(* system_execute: a new task runs at once, in user mode, with the focus;   *)
(* the running task waits for it or, when a click started a shell, is on    *)
(* its way back to user mode.                                               *)
(***************************************************************************)
Execute(t) ==
  /\ InUser
  /\ t \notin valid
  /\ valid' = valid \cup {t}
  /\ asleep' \in {asleep, asleep \cup ({running} \ {KernelTask})}
  /\ focus' = t
  /\ running' = t
  /\ mode' = "user"
  /\ signals' = [signals EXCEPT ![t] = task_signal_init]
  /\ UserStarts(t, 0)

-----------------------------------------------------------------------------
Init ==
  /\ signals = [t \in Task |-> task_signal_init]
  /\ context = [t \in Task |-> At("main", 0)]
  /\ main = [t \in Task |-> 0]
  /\ stack = [t \in Task |-> <<>>]
  /\ stuck = {}
  /\ valid = {}
  /\ asleep = {}
  /\ focus = None
  /\ running = KernelTask
  /\ mode = "user"

ProgramStep ==
  \/ \E v \in Value : UserCode(v) \/ SystemCall(v)
  \/ \E s \in HandledByUser, h \in {"default", "user"}, v \in Value :
        SetHandler(s, h, v)
  \/ sigreturn
  \/ \E s \in RaisedByProgram : Fault(s)
  \/ Sleep
  \/ Halt

Interrupt ==
  \/ \E t \in Task, v \in Value : Wake(t, v)
  \/ CtrlC
  \/ \E t \in Task \cup {KernelTask} : Pit(t)
  \/ \E t \in Task : ChangeFocus(t) \/ Execute(t)

Next == signal_check \/ ProgramStep \/ Interrupt

(***************************************************************************)
(* The kernel does not stop on its way back to user mode.  That a task gets *)
(* the CPU, or that its handlers return, is not assumed here.               *)
(***************************************************************************)
Spec == Init /\ [][Next]_vars /\ WF_vars(signal_check)

-----------------------------------------------------------------------------
(* Properties *)

\* Types; the alarm time of no task passes the interval.
SigTypeOK ==
  /\ \A t \in Task :
       /\ signals[t].pending_signal \subseteq Sig
       /\ signals[t].masked_signal \subseteq Sig
       /\ signals[t].alarm_time \in 0..ALARM_TICKS
       /\ signals[t].current_handlers \in [Sig -> {"default", "user"}]
       /\ context[t].code \in {"main", "handler"}
  /\ asleep \subseteq valid /\ valid \subseteq Task
  /\ focus \in valid \cup {None}
  /\ running \in Ready \cup {KernelTask}
  /\ mode \in {"user", "kernel"}

(***************************************************************************)
(* A handler is never interrupted by a handler ("Mask all signals and store *)
(* previous mask", signal.c:194), and once it has returned nothing stays    *)
(* masked: the one context saved on the user stack goes with the mask.      *)
(***************************************************************************)
OneHandlerAtATime ==
  \A t \in valid :
     IF InMain(t)
     THEN stack[t] = <<>> /\ signals[t].masked_signal = {}
     ELSE Len(stack[t]) = 1 /\ signals[t].masked_signal = Sig

(***************************************************************************)
(* The program does not notice that it was interrupted: whatever handlers   *)
(* did, and whatever entered the kernel in between, it goes on with the     *)
(* registers it had, the result of the interrupted system call included     *)
(* ("allow it to immigrate with signal functions", idt_asm.S:135).          *)
(***************************************************************************)
InterruptedProgramIntact ==
  \A t \in valid :
     (IF InMain(t) THEN context[t] ELSE stack[t][Len(stack[t])])
        = At("main", main[t])

(***************************************************************************)
(* "Should be called every time return from exception, interrupt and system *)
(* call" (signal.c:169): a program in user mode has no signal that could be *)
(* delivered, whichever task's signal it was and whoever switched to it.    *)
(***************************************************************************)
PromptDelivery ==
  mode = "user" /\ running \in Task => Deliverable(running) = {}

(***************************************************************************)
(* Ctrl+C ends the program that has the focus, unless it handles it         *)
(* (README.md:60 of the repository): a signal sent while it ran, slept or   *)
(* was in the handler of another one, where it is masked, is neither        *)
(* forgotten nor overtaken by the other signals that are pending with it,   *)
(* of which only one is delivered.  That needs a program that gets the CPU  *)
(* again and again (Sched!EveryoneServed says when one does) and does not   *)
(* stay in a handler for good.                                              *)
(***************************************************************************)
InterruptPending(t) ==
  /\ t \in valid
  /\ SIGNAL_INTERRUPT \in signals[t].pending_signal
  /\ signals[t].current_handlers[SIGNAL_INTERRUPT] = "default"

CtrlCKills ==
  \A t \in Task :
    []<>(running = t) /\ []<>InMain(t) => (InterruptPending(t) ~> t \notin valid)
=============================================================================
