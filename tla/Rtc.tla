-------------------------------- MODULE Rtc ---------------------------------
(***************************************************************************)
(* The virtual RTC (rtc.c): every task that opened "rtc" has a rate of its  *)
(* own, and a read sleeps until the one hardware RTC has interrupted as     *)
(* often as the rate asks for.                                              *)
(*                                                                          *)
(* The ring pointers of the wait list, the flag TASK_WAITING_RTC and the    *)
(* run queue are in Kernel.tla; here the list is a sequence, and any ready  *)
(* task may get the CPU.  Interrupts are off in the kernel: a call is one   *)
(* step, and so is an interrupt.                                            *)
(***************************************************************************)
EXTENDS Integers, Sequences, SequencesExt, FiniteSets

CONSTANTS
  Task,        \* PCB slots
  KernelTask,  \* init or idle
  RTC_HARDWARE_FREQUENCY,
  Frequency,   \* what programs write to the RTC
  MAX_RTC_FD   \* bound: RTC descriptors that one task has open

\* Frequency 0 would pass is_power_of_two and be divided by.
ASSUME RtcAssumption ==
  /\ KernelTask \notin Task
  /\ RTC_HARDWARE_FREQUENCY \in Nat
  /\ Frequency \subseteq Nat \ {0}
  /\ MAX_RTC_FD \in Nat

VARIABLES
  rtc_fds,        \* how many RTC descriptors each task has open
  target_freq,    \* rtc_control_t of every task
  counter,
  rtc_wait_list,  \* from its head
  live,           \* valid tasks
  running,        \* running_task()
  slept           \* history: RTC interrupts since a sleeping task went to sleep

rateVars == <<rtc_fds, target_freq>>
taskVars == <<live, running>>
vars == <<rateVars, counter, rtc_wait_list, taskVars, slept>>

NotOpened == -1
LOST == -1   \* bound: stands for every counter below 0

Waiting == ToSet(rtc_wait_list)
Ready == live \ Waiting
InProgram == running \in Task

Period(frequency) == (RTC_HARDWARE_FREQUENCY \div frequency) \div 4

is_power_of_two(n) == \E k \in 0..n : n = 2^k

-----------------------------------------------------------------------------
system_rtc_open ==
  /\ InProgram
  /\ rtc_fds[running] < MAX_RTC_FD
  /\ rtc_fds' = [rtc_fds EXCEPT ![running] = @ + 1]
  /\ target_freq' = [target_freq EXCEPT ![running] = 2]
  /\ UNCHANGED <<counter, rtc_wait_list, taskVars, slept>>

system_rtc_close ==
  /\ InProgram
  /\ rtc_fds[running] > 0
  /\ rtc_fds' = [rtc_fds EXCEPT ![running] = @ - 1]
  /\ UNCHANGED <<target_freq, counter, rtc_wait_list, taskVars, slept>>

\* A frequency that is no power of two is refused.
system_rtc_write(frequency) ==
  /\ InProgram
  /\ rtc_fds[running] > 0
  /\ is_power_of_two(frequency)
  /\ target_freq' = [target_freq EXCEPT ![running] = frequency]
  /\ counter' = [counter EXCEPT ![running] = Period(frequency)]
  /\ UNCHANGED <<rtc_fds, rtc_wait_list, taskVars, slept>>

\* Somebody else continues.
Yield == running' \in (Ready \ {running}) \cup {KernelTask}

\* Slip: the counter is what the last write or read left.
system_rtc_read_no_refill ==
  /\ InProgram
  /\ rtc_fds[running] > 0 /\ target_freq[running] # NotOpened
  /\ rtc_wait_list' = <<running>> \o rtc_wait_list
  /\ slept' = [slept EXCEPT ![running] = 0]
  /\ Yield
  /\ UNCHANGED <<rateVars, counter, live>>

system_rtc_read ==
  /\ InProgram
  /\ rtc_fds[running] > 0 /\ target_freq[running] # NotOpened
  /\ counter' = [counter EXCEPT ![running] = Period(target_freq[running])]
  /\ rtc_wait_list' = <<running>> \o rtc_wait_list
  /\ slept' = [slept EXCEPT ![running] = 0]
  /\ Yield
  /\ UNCHANGED <<rateVars, live>>

-----------------------------------------------------------------------------
Decremented(t) == IF counter[t] = LOST THEN LOST ELSE counter[t] - 1

Woken == {t \in Waiting : counter[t] = 1}

\* The tasks of a list that are in S, in its order.
Among(list, S) ==
  LET kept    == {i \in DOMAIN list : list[i] \in S}
      rank(i) == Cardinality({j \in kept : j <= i})
  IN  [k \in 1..Cardinality(kept) |-> list[CHOOSE i \in kept : rank(i) = k]]

\* Slip: the walk ends with the first task that it wakes.
rtc_interrupt_handler_stops ==
  LET woken == Among(rtc_wait_list, Woken)
      last  == IF woken = <<>> THEN Len(rtc_wait_list)
               ELSE CHOOSE i \in DOMAIN rtc_wait_list : rtc_wait_list[i] = woken[1]
      seen  == {rtc_wait_list[i] : i \in 1..last}
  IN  /\ counter' = [t \in Task |->
                       IF t \in seen THEN Decremented(t) ELSE counter[t]]
      /\ slept' = [t \in Task |->
                     IF t \in Waiting /\ counter[t] > 1 THEN slept[t] + 1 ELSE 0]
      /\ rtc_wait_list' = Among(rtc_wait_list, Waiting \ (seen \cap Woken))
      /\ running' = IF woken = <<>> THEN running ELSE woken[1]
      /\ UNCHANGED <<rateVars, live>>

(***************************************************************************)
(* Every task of the list is visited.  Those that wake go to the head of    *)
(* the run queue one after the other, and the last of them runs.            *)
(***************************************************************************)
rtc_interrupt_handler ==
  LET woken == Among(rtc_wait_list, Woken)
  IN  /\ counter' = [t \in Task |->
                       IF t \in Waiting THEN Decremented(t) ELSE counter[t]]
      /\ slept' = [t \in Task |->
                     IF t \in Waiting /\ counter[t] > 1 THEN slept[t] + 1 ELSE 0]
      /\ rtc_wait_list' = Among(rtc_wait_list, Waiting \ Woken)
      /\ running' = IF woken = <<>> THEN running ELSE Last(woken)
      /\ UNCHANGED <<rateVars, live>>

-----------------------------------------------------------------------------
(***************************************************************************)
(* Tasks come and go.                                                       *)
(***************************************************************************)

\* The slot of a task that is gone.  Its rtc_control_t stays, but is not read
\* before system_execute and system_rtc_read have written it.
Vacates(t) ==
  /\ live' = live \ {t}
  /\ rtc_fds' = [rtc_fds EXCEPT ![t] = 0]
  /\ target_freq' = [target_freq EXCEPT ![t] = NotOpened]
  /\ counter' = [counter EXCEPT ![t] = 0]
  /\ slept' = [slept EXCEPT ![t] = 0]

\* system_execute, with rtc_control_init
Execute(t) ==
  /\ t \notin live
  /\ live' = live \cup {t}
  /\ running' = t
  /\ target_freq' = [target_freq EXCEPT ![t] = NotOpened]
  /\ UNCHANGED <<rtc_fds, counter, rtc_wait_list, slept>>

system_halt ==
  /\ InProgram
  /\ Vacates(running)
  /\ Yield
  /\ UNCHANGED rtc_wait_list

\* Slip: the node of the dead task stays in the list.
task_halt_terminal_stays_listed(t) ==
  /\ t \in live \ {running}
  /\ Vacates(t)
  /\ UNCHANGED <<rtc_wait_list, running>>

\* Its window is closed while another task runs: out of whatever list it is in.
task_halt_terminal(t) ==
  /\ t \in live \ {running}
  /\ Vacates(t)
  /\ rtc_wait_list' = Among(rtc_wait_list, Waiting \ {t})
  /\ UNCHANGED running

Switch(t) ==
  /\ t \in (Ready \cup {KernelTask}) \ {running}
  /\ running' = t
  /\ UNCHANGED <<rateVars, counter, rtc_wait_list, live, slept>>

-----------------------------------------------------------------------------
Init ==
  /\ rtc_fds = [t \in Task |-> 0]
  /\ target_freq = [t \in Task |-> NotOpened]
  /\ counter = [t \in Task |-> 0]
  /\ rtc_wait_list = <<>>
  /\ live = {}
  /\ running = KernelTask
  /\ slept = [t \in Task |-> 0]

Next ==
  \/ system_rtc_open \/ system_rtc_close \/ system_rtc_read
  \/ \E f \in Frequency : system_rtc_write(f)
  \/ rtc_interrupt_handler
  \/ \E t \in Task : Execute(t) \/ task_halt_terminal(t)
  \/ system_halt
  \/ \E t \in Task \cup {KernelTask} : Switch(t)

\* The hardware interrupts for ever: every handler reads register C, without
\* which it would not, and interrupts are on whenever a task or idle runs.
Spec == Init /\ [][Next]_vars /\ WF_vars(rtc_interrupt_handler)

-----------------------------------------------------------------------------
(* Properties *)

\* Types; a task sleeps once at a time, and only valid tasks do; a task that
\* has the RTC open has a rate.
RtcTypeOK ==
  /\ live \subseteq Task
  /\ running \in Ready \cup {KernelTask}
  /\ Waiting \subseteq live /\ IsInjective(rtc_wait_list)
  /\ \A t \in Task :
       /\ rtc_fds[t] \in 0..MAX_RTC_FD
       /\ target_freq[t] \in Frequency \cup {2, NotOpened}
       /\ counter[t] \in Nat \cup {LOST}
       /\ t \in live /\ rtc_fds[t] > 0 => target_freq[t] # NotOpened

(***************************************************************************)
(* A reader sleeps for exactly the interrupts that its rate asks for: what  *)
(* it has slept and what is left make one period, whoever sleeps before or  *)
(* behind it in the list, is woken by the same interrupt or is torn out of  *)
(* the list ("Refill the counter", rtc.c:155).                              *)
(***************************************************************************)
WakesOnTime ==
  \A t \in Waiting :
     /\ counter[t] > 0
     /\ slept[t] + counter[t] = Period(target_freq[t])

(***************************************************************************)
(* Every read of the RTC returns: "wait for interrupt occurring"            *)
(* (rtc.c:131), unless the reader's window is closed first.                 *)
(***************************************************************************)
RtcReadReturns == \A t \in Task : (t \in Waiting) ~> (t \notin Waiting)
=============================================================================
