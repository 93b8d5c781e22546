------------------------------- MODULE Sched --------------------------------
(***************************************************************************)
(* The scheduler (task/task_sched.c): a run queue and wait lists that share *)
(* the one list node of a task, a time slice per task, and the low-level    *)
(* switch to whatever is at the head of the run queue.                      *)
(*                                                                          *)
(* Every IDT gate of the kernel is an interrupt gate (idt.c:52-64), so a    *)
(* handler or a system call runs with interrupts off until it switches to   *)
(* another task or returns to user mode: one action per handler is exact.   *)
(* A task that is switched away continues, when it is launched again, right *)
(* after its call of sched_launch_to_current_head.                          *)
(***************************************************************************)
EXTENDS Naturals, Sequences, FiniteSets, TaskList

CONSTANTS
  TASK_MAX_COUNT,   \* number of PCB slots (10 in task.h:86)
  SCHED_TASK_TICKS  \* SCHED_TASK_TIME / SCHED_PIT_INTERVAL, i.e. 50 ms / 10 ms

ASSUME SlotsAssumption == TASK_MAX_COUNT \in Nat /\ TASK_MAX_COUNT >= 2
ASSUME SliceAssumption == SCHED_TASK_TICKS \in Nat /\ SCHED_TASK_TICKS >= 1

VARIABLES
  list,     \* the next and prev pointers of every list node
  running,  \* running_task(): the task whose kernel stack ESP is in
  remain,   \* sched_ctrl.remain_time of every task, in PIT ticks
  where,    \* history variable: the list every task was last put into
  cursor,   \* the node rtc_interrupt_handler looks at next, or NoNode
  woken     \* wake_count > 0 in rtc_interrupt_handler

handlerVars == <<cursor, woken>>
schedVars == <<list, running, remain, where, handlerVars>>

Task == 0..(TASK_MAX_COUNT - 1)

\* Slots are given out lowest first, and init starts idle before anything else.
InitTask == 0
IdleTask == 1

\* The sentinel nodes.  They are numbered after the tasks.
run_queue          == TASK_MAX_COUNT
wait4child_list    == TASK_MAX_COUNT + 1
rtc_wait_list      == TASK_MAX_COUNT + 2
terminal_wait_list == TASK_MAX_COUNT + 3
temp_list          == TASK_MAX_COUNT + 4   \* local variable of tear_down_task

WaitLists == {wait4child_list, rtc_wait_list, terminal_wait_list}
Lists     == WaitLists \cup {run_queue}
Node      == Task \cup Lists \cup {temp_list}
NoNode    == TASK_MAX_COUNT + 5

\* Interrupts are off while rtc_interrupt_handler walks along its wait list.
Interruptible == cursor = NoNode

\* A walk over all the nodes there are is long enough for every list.
NodeBound == TASK_MAX_COUNT + 1

ElemsOf(l, s) == ListElems(l, s, NodeBound)
SeqOf(l, s)   == ListSeq(l, s, NodeBound)

-----------------------------------------------------------------------------
(***************************************************************************)
(* The steps the handlers are made of, as functions of the heap l.          *)
(***************************************************************************)

\* sched_refill_time
sched_refill_time(r, t) == [r EXCEPT ![t] = SCHED_TASK_TICKS]

\* Slip: at the tail.
sched_insert_to_tail(l, t) == move_task_after_node(l, t, l.prev[run_queue])

\* sched_insert_to_head_unsafe
sched_insert_to_head(l, t) == move_task_after_node(l, t, run_queue)

\* Slip: linked before the head, where it still is itself, not before run_queue.
sched_move_running_before_head(l, t) ==
  move_task_to_list(l, t, l.prev[run_queue], l.next[run_queue])

\* sched_move_running_to_last, with the guard against detaching a lone task
sched_move_running_to_last(l, t) ==
  IF l.prev[run_queue] # t
  THEN move_task_after_node(l, t, l.prev[run_queue])
  ELSE l

(***************************************************************************)
(* sched_launch_to_current_head: an idle task at the head goes last when    *)
(* something else is runnable; then the head runs.  An empty queue or the   *)
(* running task itself at the head means that nothing is switched.          *)
(***************************************************************************)
LaunchList(l) ==
  LET head == l.next[run_queue]
  IN  IF head = IdleTask /\ l.next[head] # run_queue
      THEN move_task_after_node(l, head, l.prev[run_queue])
      ELSE l

\* Slip: the head is read before idle has been moved away from it.
LaunchStaleHead(l, cur) ==
  LET to_run == l.next[run_queue] IN IF to_run = run_queue THEN cur ELSE to_run

LaunchTask(l, cur) ==
  LET to_run == LaunchList(l).next[run_queue]
  IN  IF to_run = run_queue THEN cur ELSE to_run

sched_launch_to_current_head(l) ==
  /\ list' = LaunchList(l)
  /\ running' = LaunchTask(l, running)

-----------------------------------------------------------------------------
(***************************************************************************)
(* Handlers of the scheduler itself.                                        *)
(***************************************************************************)

\* Slip: the slice is refilled but the task stays where it is.
PitExpiresInPlace ==
  /\ running # IdleTask => remain[running] <= 1
  /\ remain' = IF running = IdleTask
               THEN remain
               ELSE sched_refill_time(remain, running)
  /\ sched_launch_to_current_head(list)

\* The slice of the running task is used up: refill it, put it last, switch.
PitExpires ==
  /\ running # IdleTask => remain[running] <= 1
  /\ remain' = IF running = IdleTask
               THEN remain
               ELSE sched_refill_time(remain, running)
  /\ sched_launch_to_current_head(sched_move_running_to_last(list, running))

\* Slip: ticks are taken off a slice that is used up.
PitTicksUnguarded ==
  /\ running # IdleTask
  /\ remain' = [remain EXCEPT ![running] = @ - 1]
  /\ UNCHANGED <<list, running>>

PitTicks ==
  /\ running # IdleTask
  /\ remain[running] > 1
  /\ remain' = [remain EXCEPT ![running] = @ - 1]
  /\ UNCHANGED <<list, running>>

\* sched_pit_interrupt_handler
sched_pit_interrupt_handler ==
  /\ Interruptible
  /\ list.next[run_queue] # run_queue
  /\ PitExpires \/ PitTicks
  /\ UNCHANGED <<where, handlerVars>>

\* sched_yield_unsafe; the loop of init_task_main is its only caller
sched_yield ==
  /\ Interruptible
  /\ running = InitTask
  /\ remain' = sched_refill_time(remain, running)
  /\ sched_launch_to_current_head(sched_move_running_to_last(list, running))
  /\ UNCHANGED <<where, handlerVars>>

-----------------------------------------------------------------------------
(***************************************************************************)
(* The users of the scheduler, reduced to what they do to it: a user task   *)
(* puts itself to sleep in a device's read(), and the device's interrupt    *)
(* handler wakes sleepers.  Kernel.tla has the real ones.                   *)
(***************************************************************************)

\* Slip: the sleeper goes on running.
SleepWithoutLaunch(w) ==
  /\ Interruptible
  /\ running \notin {InitTask, IdleTask}
  /\ where' = [where EXCEPT ![running] = w]
  /\ list' = move_task_after_node(list, running, w)
  /\ UNCHANGED <<remain, running, handlerVars>>

\* system_rtc_read and system_terminal_read when they have to wait
Sleep(w) ==
  /\ Interruptible
  /\ running \notin {InitTask, IdleTask}
  /\ where' = [where EXCEPT ![running] = w]
  /\ UNCHANGED <<remain, handlerVars>>
  /\ sched_launch_to_current_head(move_task_after_node(list, running, w))

\* handle_scan_code: the reader is put at the head and launched
WakeReader(t) ==
  /\ Interruptible
  /\ where[t] = terminal_wait_list
  /\ UNCHANGED handlerVars
  /\ where' = [where EXCEPT ![t] = run_queue]
  /\ remain' = sched_refill_time(remain, t)
  /\ sched_launch_to_current_head(sched_insert_to_head(list, t))

(***************************************************************************)
(* rtc_interrupt_handler visits its waiters in list order, with the macro   *)
(* task_list_for_each_safe: the next node is read before the current one is *)
(* moved away.  Those that are due go to the head of the run queue one by   *)
(* one, and there is one launch at the end.  An interrupt that finds nobody *)
(* waiting changes nothing.                                                 *)
(***************************************************************************)
RtcBegins ==
  /\ Interruptible
  /\ list.next[rtc_wait_list] # rtc_wait_list
  /\ cursor' = list.next[rtc_wait_list]
  /\ UNCHANGED <<list, running, remain, where, woken>>

\* Slip: task_list_for_each, with the next node read after the task was moved.
RtcVisitsUnsafe(due) ==
  /\ cursor \in Task
  /\ list' = IF due THEN sched_insert_to_head(list, cursor) ELSE list
  /\ where' = IF due THEN [where EXCEPT ![cursor] = run_queue] ELSE where
  /\ remain' = IF due THEN sched_refill_time(remain, cursor) ELSE remain
  /\ cursor' = list'.next[cursor]
  /\ woken' = (woken \/ due)
  /\ UNCHANGED running

RtcVisits(due) ==
  /\ cursor \in Task
  /\ cursor' = list.next[cursor]
  /\ woken' = (woken \/ due)
  /\ list' = IF due THEN sched_insert_to_head(list, cursor) ELSE list
  /\ where' = IF due THEN [where EXCEPT ![cursor] = run_queue] ELSE where
  /\ remain' = IF due THEN sched_refill_time(remain, cursor) ELSE remain
  /\ UNCHANGED running

RtcEnds ==
  /\ cursor = rtc_wait_list
  /\ cursor' = NoNode
  /\ woken' = FALSE
  /\ IF woken THEN sched_launch_to_current_head(list)
              ELSE UNCHANGED <<list, running>>
  /\ UNCHANGED <<remain, where>>

-----------------------------------------------------------------------------
(***************************************************************************)
(* The run queue holds the tasks 0..k, youngest first: what the queue is    *)
(* like after boot (k = 1, idle before init) and after k - 1 more tasks     *)
(* have been started, each at the head.                                     *)
(***************************************************************************)
BootList(k) ==
  [next |-> [n \in Node |-> CASE n = run_queue    -> k
                              [] n = 0            -> run_queue
                              [] n \in 1..k       -> n - 1
                              [] OTHER            -> n],
   prev |-> [n \in Node |-> CASE n = run_queue    -> 0
                              [] n = k            -> run_queue
                              [] n \in 0..(k - 1) -> n + 1
                              [] OTHER            -> n]]

SchedInit ==
  /\ list = BootList(TASK_MAX_COUNT - 1)
  /\ running = TASK_MAX_COUNT - 1
  /\ remain = [t \in Task |-> IF t = IdleTask THEN 0 ELSE SCHED_TASK_TICKS]
  /\ where = [t \in Task |-> run_queue]
  /\ cursor = NoNode
  /\ woken = FALSE

Wake == \/ \E t \in Task : WakeReader(t)
        \/ RtcVisits(TRUE)

RtcHandlerGoesOn == \E due \in BOOLEAN : RtcVisits(due) \/ RtcEnds

SchedNext ==
  \/ sched_pit_interrupt_handler
  \/ sched_yield
  \/ Sleep(rtc_wait_list)
  \/ Sleep(terminal_wait_list)
  \/ \E t \in Task : WakeReader(t)
  \/ RtcBegins
  \/ RtcHandlerGoesOn

(***************************************************************************)
(* Fairness: the PIT is programmed once as a periodic timer (setup_pit) and *)
(* its EOI is sent before every switch, so the interrupt keeps coming; when *)
(* it comes while interrupts are off, the i8259 holds it until they are on  *)
(* again, however often that happens.  A handler that runs goes on.  Nothing*)
(* is assumed of user programs, of init or of the other devices.            *)
(***************************************************************************)
SchedSpec == SchedInit /\ [][SchedNext]_schedVars
                       /\ SF_schedVars(sched_pit_interrupt_handler)
                       /\ WF_schedVars(RtcHandlerGoesOn)

-----------------------------------------------------------------------------
(* Properties *)

\* Types of the scheduler's variables.
SchedTypeOK ==
  /\ list \in [next : [Node -> Node], prev : [Node -> Node]]
  /\ running \in Task
  /\ remain \in [Task -> 0..SCHED_TASK_TICKS]
  /\ where \in [Task -> Lists]
  /\ cursor \in Node \cup {NoNode}
  /\ woken \in BOOLEAN

(***************************************************************************)
(* next and prev stay inverse to each other and never lead from one list    *)
(* into another (task_and_sched.md: "a task can only be in one list at a    *)
(* time").  It is what move_task_to_list_unsafe breaks when its arguments   *)
(* are stale, the danger the comments of task.h:128-131 warn about.         *)
(***************************************************************************)
Home(n) == IF n \in Task THEN where[n] ELSE n

LiveNode == {n \in Node : Home(n) # temp_list}

ListsLinked ==
  /\ Linked(list, LiveNode)
  /\ \A n \in LiveNode : Home(list.next[n]) = Home(n)

(***************************************************************************)
(* Walking a list from its sentinel meets exactly the tasks that were put   *)
(* there: nobody is lost in a ring that has no sentinel.                    *)
(***************************************************************************)
ListsComplete ==
  \A s \in Lists : /\ Closes(list, s, NodeBound)
                   /\ ElemsOf(list, s) = {t \in Task : where[t] = s}

\* The CPU is always given to a task of the run queue.
RunningIsRunnable == where[running] = run_queue

(***************************************************************************)
(* rtc_interrupt_handler moves nodes away from the list it walks along, and *)
(* still never leaves it: it decrements counters of waiters only, and stops *)
(* at the sentinel.                                                         *)
(***************************************************************************)
HandlerStaysInList ==
  cursor # NoNode =>
    \/ cursor = rtc_wait_list
    \/ cursor \in Task /\ where[cursor] = rtc_wait_list

(***************************************************************************)
(* The idle task is given the CPU only when nothing else is runnable        *)
(* (task.h:40, "only run when no other runnable task").                     *)
(***************************************************************************)
IdleOnlyWhenAlone ==
  [][running' = IdleTask /\ running # IdleTask
       => \A t \in Task \ {IdleTask} : where'[t] # run_queue]_schedVars

(***************************************************************************)
(* Round robin serves everybody: once wake-ups stop jumping the queue, a    *)
(* runnable task gets the CPU or goes to sleep.                             *)
(***************************************************************************)
EveryoneServed ==
  (<>[][~Wake]_schedVars)
     => \A t \in Task \ {IdleTask} :
           (where[t] = run_queue) ~> (running = t)

(***************************************************************************)
(* The lists implement the queue discipline of ReadyQueue.tla: the rings    *)
(* read from the sentinel run_queue are the sequence of runnable tasks, the *)
(* members of the wait lists are asleep, and every handler changes the      *)
(* order of the runnable tasks exactly as the sequence model says.          *)
(***************************************************************************)
Ready == INSTANCE ReadyQueue
           WITH AllTasks <- Task, Init0 <- InitTask, Idle <- IdleTask,
                queue <- SeqOf(list, run_queue), cpu <- running,
                asleep <- UNION {ElemsOf(list, s) : s \in WaitLists},
                late <- woken

ImplementsReadyQueue == Ready!Spec
=============================================================================
