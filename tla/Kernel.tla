------------------------------- MODULE Kernel -------------------------------
(***************************************************************************)
(* Task management of AuroraOS composed with the devices that drive it:     *)
(* execute and halt (task/task.c), the scheduler (Sched.tla), page ids      *)
(* (task/task_paging.c), terminals and the keyboard (terminal.c), windows   *)
(* and mouse clicks (gui/gui_window.c), the RTC as a wait list (rtc.c) and  *)
(* the mappings that belong to the running task (Paging.tla, the TSS).      *)
(*                                                                          *)
(* An action is a system call of the running user task or an interrupt      *)
(* taken while the running task is in user mode (or in one of the two       *)
(* kernel tasks, which run with interrupts on).  A call that sleeps is      *)
(* finished by a second action once its task is launched again.             *)
(***************************************************************************)
EXTENDS Integers, Sched, Paging

CONSTANTS
  TERMINAL_MAX_COUNT,  \* terminals, and windows (GUI_MAX_WINDOW_NUM): 5
  PAGE_ID_COUNT,       \* user pages: TASK_MAX_COUNT in task_paging.c:23
  KEYBOARD_BUF_SIZE,   \* 128
  ShellReads,          \* nbytes of terminal reads, after the cap at 128: of a
  ProgramReads,        \* window's first task, and of those it has executed
  VidmapTasks,         \* bound: the slots whose programs ask for video memory
  TypedInto,           \* bound: the terminals that get more than Enter and Alt+Fn
  RtcCounts,           \* RTC interrupts that a system_rtc_read waits for
  LEAST_WRAPPED        \* bound: a count that has wrapped is not erased below it

ASSUME TerminalAssumption ==
  /\ TERMINAL_MAX_COUNT \in Nat \ {0}
  /\ PAGE_ID_COUNT \in 1..TASK_MAX_COUNT
  /\ KEYBOARD_BUF_SIZE \in 1..255
  /\ ShellReads \cup ProgramReads \subseteq 1..KEYBOARD_BUF_SIZE
  /\ RtcCounts \subseteq Nat \ {0}
  /\ LEAST_WRAPPED \in 0..255

VARIABLES
  pcb,               \* the PCB slots
  task_count,        \* tasks that have started
  terminal_fg_task,  \* the task that uses each terminal
  focus_task,        \* the task that gets the keyboard
  terminal_slot,     \* terminal control blocks
  terminal_opened,   \* terminals with video memory (vidmem.c)
  window_stack,      \* terminals of the windows, top window first
  page_id_running,   \* page ids in use (task_paging.c)
  running_term,      \* running_term_: the terminal that putc() writes to
  hw,                \* TSS, and the page directory entries that change
  misled             \* history: a key has woken a task that did not wait for it

taskVars == <<pcb, task_count>>
termVars == <<terminal_slot, terminal_opened, window_stack>>
focusVars == <<terminal_fg_task, focus_task>>
ctxVars == <<running_term, hw>>
vars == <<schedVars, taskVars, termVars, focusVars, page_id_running, ctxVars,
          misled>>

NULL == -1   \* a NULL pointer, the null terminal, no page

Terminal == 0..(TERMINAL_MAX_COUNT - 1)
Page     == 0..(PAGE_ID_COUNT - 1)

(***************************************************************************)
(* key_buf, whose bytes are "n" for a newline and "c" for any other, and    *)
(* key_buf_cnt, a uint8_t that need not be the number of bytes typed.       *)
(***************************************************************************)
Cell       == 0..(KEYBOARD_BUF_SIZE - 1)
uint8(n)   == n % 256
NoTyping   == [i \in Cell |-> "c"]
ClearedSlot(s) == [s EXCEPT !.key_buf = NoTyping, !.key_buf_cnt = 0]

Flag == {"WAITING_CHILD", "WAITING_RTC", "WAITING_TERMINAL", "TERMINAL_OWNER"}

(***************************************************************************)
(* A PCB.  pc says whether the kernel stack of the task is suspended inside *)
(* system_terminal_read; nbytes is that call's local variable.  A slot that *)
(* is not valid has no readable contents.                                   *)
(***************************************************************************)
FreePcb == [valid |-> FALSE, flags |-> {}, parent |-> NULL, terminal |-> NULL,
            page_id |-> NULL, vidmap_enabled |-> FALSE, counter |-> 0,
            pc |-> "user", nbytes |-> 0]

\* init and idle: kernel tasks, without terminal, page or parent
KernelPcb == [FreePcb EXCEPT !.valid = TRUE]

Lowest(S) == CHOOSE i \in S : \A j \in S : i <= j

InUser == pcb[running].pc = "user" /\ Interruptible
UserTaskRuns == InUser /\ running \notin {InitTask, IdleTask}

-----------------------------------------------------------------------------
(***************************************************************************)
(* Boot: task_run_initial_task executes init, and init_task_main executes   *)
(* idle, which spins with interrupts on.                                    *)
(***************************************************************************)
Init ==
  /\ list = BootList(1)
  /\ running = IdleTask
  /\ remain = [t \in Task |-> IF t = InitTask THEN SCHED_TASK_TICKS ELSE 0]
  /\ cursor = NoNode
  /\ woken = FALSE
  /\ where = [t \in Task |-> IF t \in {InitTask, IdleTask} THEN run_queue
                                                          ELSE temp_list]
  /\ pcb = [t \in Task |-> IF t \in {InitTask, IdleTask} THEN KernelPcb
                                                        ELSE FreePcb]
  /\ task_count = 2
  /\ terminal_fg_task = [i \in Terminal |-> NULL]
  /\ focus_task = NULL
  /\ terminal_slot = [i \in Terminal |->
                        [valid |-> FALSE, key_buf |-> NoTyping,
                         key_buf_cnt |-> 0, user_ask_len |-> 0]]
  /\ terminal_opened = {}
  /\ window_stack = <<>>
  /\ page_id_running = {}
  /\ running_term = NULL
  /\ hw = [tss |-> IdleTask,
            pd  |-> [e \in {0, TASK_IMG_PAGE_ENTRY, VIDMAP_PAGE_ENTRY} |->
                       BootDirectory[e]]]
  /\ misled = FALSE

-----------------------------------------------------------------------------
(***************************************************************************)
(* Context switch.                                                          *)
(***************************************************************************)

\* terminal_set_running: nothing is mapped anew when the terminal is running
terminal_set_running(pd, term, opened) ==
  IF term = running_term THEN pd ELSE terminal_vidmem_set(pd, term, opened, NULL)

\* task_apply_user_vidmap
task_apply_user_vidmap(pd, t) ==
  task_set_user_vidmap(pd,
    IF pcb[t].vidmap_enabled THEN pcb[t].terminal ELSE NULL, NULL)

\* The program page; a task without one leaves the last one in place.
SetProgramPage(pd, t, in_use) ==
  IF pcb[t].page_id = NULL THEN pd
  ELSE task_paging_set(pd, pcb[t].page_id, in_use)

\* Slip: the user video page is not switched along.
SwitchKeepsVidmap(t, opened) ==
  IF t = running
  THEN UNCHANGED ctxVars
  ELSE /\ running_term' = pcb[t].terminal
       /\ hw' = [tss |-> t,
                 pd  |-> SetProgramPage(
                           terminal_set_running(hw.pd, pcb[t].terminal, opened),
                           t, page_id_running)]

\* What sched_launch_to_current_head sets up for the task it switches to.
SwitchMappings(t, opened) ==
  IF t = running
  THEN UNCHANGED ctxVars
  ELSE /\ running_term' = pcb[t].terminal
       /\ hw' = [tss |-> t,
                 pd  |-> task_apply_user_vidmap(
                           SetProgramPage(
                             terminal_set_running(hw.pd, pcb[t].terminal, opened),
                             t, page_id_running),
                           t)]

SwitchContext(t) == SwitchMappings(t, terminal_opened)

Launch(l) == /\ sched_launch_to_current_head(l)
             /\ SwitchContext(LaunchTask(l, running))

\* The scheduler's own handlers, with the context switch they may end in.
PitInterrupt ==
  /\ InUser
  /\ sched_pit_interrupt_handler
  /\ SwitchContext(running')
  /\ UNCHANGED <<taskVars, termVars, focusVars, page_id_running>>

InitYields ==
  /\ InUser
  /\ sched_yield
  /\ SwitchContext(running')
  /\ UNCHANGED <<taskVars, termVars, focusVars, page_id_running>>

-----------------------------------------------------------------------------
(***************************************************************************)
(* Windows and focus.                                                       *)
(***************************************************************************)

\* find_window_idx: the place of a window, or the first empty one
find_window_idx(ws, i) ==
  Lowest({k \in 1..(Len(ws) + 1) : k = Len(ws) + 1 \/ ws[k] = i})

\* gui_new_window and gui_activate_window: the window comes to the top, and
\* those that were above its place move down by one
ToTop(ws, i) ==
  LET idx == find_window_idx(ws, i)
  IN  [k \in DOMAIN ws \cup {idx} |->
         IF k = 1 THEN i ELSE IF k <= idx THEN ws[k - 1] ELSE ws[k]]

\* gui_destroy_window: those below its place move up by one
gui_destroy_window(ws, i) ==
  LET idx == find_window_idx(ws, i)
  IN  IF idx > Len(ws) THEN ws
      ELSE [k \in 1..(Len(ws) - 1) |-> IF k < idx THEN ws[k] ELSE ws[k + 1]]

\* get_another_term_id: downwards from i, wrapping around
get_another_term_id(fg, i) ==
  LET at(d) == (i - d + TERMINAL_MAX_COUNT) % TERMINAL_MAX_COUNT
      hits  == {d \in 1..(TERMINAL_MAX_COUNT - 1) : fg[at(d)] # NULL}
  IN  IF hits = {} THEN NULL ELSE at(Lowest(hits))

\* task_change_focus: nothing happens for a terminal without a task
task_change_focus(i) ==
  IF terminal_fg_task[i] = NULL THEN focus_task ELSE terminal_fg_task[i]

(***************************************************************************)
(* gui_handle_mouse_press inside a window that is not the top one raises it *)
(* and moves the focus.                                                     *)
(***************************************************************************)
PressOnWindow(k) ==
  /\ InUser
  /\ k \in 2..Len(window_stack)
  /\ window_stack' = ToTop(window_stack, window_stack[k])
  /\ focus_task' = task_change_focus(window_stack[k])
  /\ UNCHANGED <<schedVars, taskVars, terminal_fg_task, terminal_slot,
                 terminal_opened, page_id_running, ctxVars>>

-----------------------------------------------------------------------------
(***************************************************************************)
(* system_execute.  wait is wait_for_return = 1 and new_terminal is its     *)
(* negation in both callers: lowlevel_sys_execute (a program of a shell)    *)
(* and gui_handle_mouse_release (a new shell).  A command names no file, a  *)
(* file that is no ELF file, one too short to hold an entry address at its  *)
(* bytes 24..27, or a program.                                              *)
(***************************************************************************)
FreeSlots     == {t \in Task : ~pcb[t].valid}
FreeTerminals == {i \in Terminal : ~terminal_slot[i].valid}
FreePages     == Page \ page_id_running

File == {"missing", "not_elf", "no_entry", "program"}
task_is_executable(file) == file \in {"no_entry", "program"}
task_get_eip(file) == IF file = "no_entry" THEN NULL ELSE 0

\* task_paging_allocate_and_set: every failure comes before the page is mapped
CanLoad(file) ==
  /\ file # "missing"
  /\ task_is_executable(file)
  /\ FreePages # {}
  /\ task_get_eip(file) # NULL

CanExecute(new_terminal, file) ==
  /\ task_count < TASK_MAX_COUNT
  /\ new_terminal => FreeTerminals # {}
  /\ CanLoad(file)

ExecuteList(new, wait) ==
  LET l == sched_insert_to_head(SelfRing(list, new), new)
  IN  IF wait THEN move_task_after_node(l, running, wait4child_list) ELSE l

\* terminal_allocate: the input buffer is cleared, user_ask_len is not
terminal_allocate(i) ==
  [terminal_slot EXCEPT ![i] = [ClearedSlot(@) EXCEPT !.valid = TRUE]]

system_execute(wait) ==
  LET new  == Lowest(FreeSlots)
      term == IF wait THEN pcb[running].terminal ELSE Lowest(FreeTerminals)
      page == Lowest(FreePages)
  IN  /\ task_count' = task_count + 1
      /\ pcb' = [pcb EXCEPT
           ![new] = [FreePcb EXCEPT
                       !.valid = TRUE,
                       !.flags = IF wait THEN {} ELSE {"TERMINAL_OWNER"},
                       !.parent = IF wait THEN running ELSE NULL,
                       !.terminal = term,
                       !.page_id = page],
           ![running].flags = IF wait THEN @ \cup {"WAITING_CHILD"} ELSE @]
      /\ terminal_slot' = IF wait THEN terminal_slot ELSE terminal_allocate(term)
      /\ terminal_opened' = terminal_opened \cup {term}
      /\ page_id_running' = page_id_running \cup {page}
      /\ terminal_fg_task' = [terminal_fg_task EXCEPT ![term] = new]
      /\ focus_task' = new
      /\ window_stack' = ToTop(window_stack, term)
      /\ list' = ExecuteList(new, wait)
      /\ where' = [where EXCEPT ![new] = run_queue,
                     ![running] = IF wait THEN wait4child_list ELSE @]
      /\ remain' = sched_refill_time(remain, new)
      /\ running' = new
      /\ running_term' = term
      /\ hw' = [tss |-> new,
                pd  |-> terminal_set_running(
                          task_paging_set(hw.pd, page, {page}),
                          term, terminal_opened \cup {term})]
      /\ UNCHANGED handlerVars

\* Slip: the slot is counted before the command is found to be unusable.
SysExecuteCountsFirst(file) ==
  /\ UserTaskRuns
  /\ IF CanExecute(FALSE, file)
     THEN system_execute(TRUE)
     ELSE /\ task_count' = task_count + 1
          /\ UNCHANGED <<schedVars, pcb, termVars, focusVars, page_id_running,
                         ctxVars>>

\* The execute system call.  A command that cannot be started returns -1.
SysExecute(file) ==
  /\ UserTaskRuns
  /\ IF CanExecute(FALSE, file) THEN system_execute(TRUE) ELSE UNCHANGED vars

(***************************************************************************)
(* A click on the terminal button starts a shell, on behalf of whatever     *)
(* task the mouse interrupt found running.  When there is a terminal but no *)
(* page, everything is undone except that the terminal's buffer was cleared.*)
(***************************************************************************)
SpawnShell ==
  /\ InUser
  /\ IF CanExecute(TRUE, "program")
     THEN system_execute(FALSE)
     ELSE /\ terminal_slot' =
               IF task_count < TASK_MAX_COUNT /\ FreeTerminals # {}
               THEN [terminal_slot EXCEPT ![Lowest(FreeTerminals)] = ClearedSlot(@)]
               ELSE terminal_slot
          /\ UNCHANGED <<schedVars, taskVars, terminal_opened, window_stack,
                         focusVars, page_id_running, ctxVars>>

-----------------------------------------------------------------------------
\* Slip: the dead task stays in its list.
TornListKeepsNode(t) ==
  LET p == pcb[t].parent
  IN  IF p = NULL THEN list ELSE sched_insert_to_head(list, p)

(***************************************************************************)
(* tear_down_task(t).  Its first two phases work on the lists: t goes to a  *)
(* list on the stack, a waiting parent goes to the head of the run queue.   *)
(* The memory of the dead node is not read again before it is reused.       *)
(***************************************************************************)
TornList(t) ==
  LET away == move_task_after_node(SelfRing(list, temp_list), t, temp_list)
      p    == pcb[t].parent
      back == IF p = NULL THEN away ELSE sched_insert_to_head(away, p)
  IN  SelfRing(SelfRing(back, t), temp_list)

RevivedParent(t) ==
  LET p == pcb[t].parent
  IN  /\ where' = [u \in Task |-> CASE u = t -> temp_list
                                    [] u = p -> run_queue
                                    [] OTHER -> where[u]]
      /\ remain' = [u \in Task |-> CASE u = t -> 0
                                     [] u = p -> SCHED_TASK_TICKS
                                     [] OTHER -> remain[u]]
      /\ pcb' = [u \in Task |->
                   CASE u = t -> FreePcb
                     [] u = p -> [pcb[u] EXCEPT !.flags = @ \ {"WAITING_CHILD"}]
                     [] OTHER -> pcb[u]]

\* Slip: the window is left on the stack.
CloseTerminalKeepsWindow(i) ==
  LET fg    == [terminal_fg_task EXCEPT ![i] = NULL]
      other == get_another_term_id(fg, i)
  IN  /\ terminal_fg_task' = fg
      /\ focus_task' = IF pcb[focus_task].terminal = i
                       THEN IF other = NULL THEN NULL ELSE fg[other]
                       ELSE focus_task
      /\ terminal_opened' = terminal_opened \ {i}
      /\ terminal_slot' = [terminal_slot EXCEPT ![i].valid = FALSE]
      /\ UNCHANGED window_stack

\* The owner of a terminal takes it along; the focus moves elsewhere.
CloseTerminal(i) ==
  LET fg    == [terminal_fg_task EXCEPT ![i] = NULL]
      other == get_another_term_id(fg, i)
  IN  /\ terminal_fg_task' = fg
      /\ focus_task' = IF pcb[focus_task].terminal = i
                       THEN IF other = NULL THEN NULL ELSE fg[other]
                       ELSE focus_task
      /\ window_stack' = gui_destroy_window(window_stack, i)
      /\ terminal_opened' = terminal_opened \ {i}
      /\ terminal_slot' = [terminal_slot EXCEPT ![i].valid = FALSE]

\* Slip: only the focus goes back to the parent.
ReturnFocusOnly(p) ==
  /\ focus_task' = IF pcb[focus_task].terminal = pcb[p].terminal
                   THEN p ELSE focus_task
  /\ UNCHANGED <<termVars, terminal_fg_task>>

\* A program that used its parent's terminal gives it back to the parent.
ReturnTerminal(p) ==
  LET i == pcb[p].terminal
  IN  /\ terminal_fg_task' = [terminal_fg_task EXCEPT ![i] = p]
      /\ focus_task' = IF pcb[focus_task].terminal = i THEN p ELSE focus_task
      /\ UNCHANGED termVars

tear_down_task(t) ==
  /\ RevivedParent(t)
  /\ UNCHANGED handlerVars
  /\ task_count' = task_count - 1
  /\ IF "TERMINAL_OWNER" \in pcb[t].flags
     THEN CloseTerminal(pcb[t].terminal)
     ELSE IF pcb[t].parent # NULL
          THEN ReturnTerminal(pcb[t].parent)
          ELSE UNCHANGED <<termVars, focusVars>>

\* Slip: the page that is given back is the parent's.
HaltReleasesParentsPage(p) ==
  LET used == page_id_running \ {pcb[p].page_id}
  IN  /\ page_id_running' = used
      /\ list' = TornList(running)
      /\ running' = p
      /\ running_term' = pcb[p].terminal
      /\ hw' = [tss |-> p,
                pd  |-> terminal_set_running(SetProgramPage(hw.pd, p, used),
                                             pcb[p].terminal, terminal_opened')]

(***************************************************************************)
(* system_halt of the running task: back to the parent that waits in        *)
(* execute, or to the head of the run queue when there is no parent.        *)
(***************************************************************************)
HaltToParent(p) ==
  LET used == page_id_running \ {pcb[running].page_id}
  IN  /\ page_id_running' = used
      /\ list' = TornList(running)
      /\ running' = p
      /\ running_term' = pcb[p].terminal
      /\ hw' = [tss |-> p,
                pd  |-> terminal_set_running(SetProgramPage(hw.pd, p, used),
                                             pcb[p].terminal, terminal_opened')]

HaltToQueue ==
  /\ sched_launch_to_current_head(TornList(running))
  /\ SwitchMappings(LaunchTask(TornList(running), running), terminal_opened')
  /\ UNCHANGED page_id_running

system_halt ==
  /\ tear_down_task(running)
  /\ IF pcb[running].parent # NULL
     THEN HaltToParent(pcb[running].parent)
     ELSE HaltToQueue

\* The halt system call, or the default handler of a fatal signal.
SysHalt == UserTaskRuns /\ system_halt

(***************************************************************************)
(* gui_handle_mouse_release on the close button of the top window calls     *)
(* task_halt_terminal, which halts the running task or tears down another.  *)
(***************************************************************************)
task_halt_terminal(i) ==
  LET t == terminal_fg_task[i]
  IN  /\ t # NULL
      /\ IF t = running
         THEN system_halt
         ELSE /\ tear_down_task(t)
              /\ list' = TornList(t)
              /\ UNCHANGED <<running, page_id_running, ctxVars>>

CloseTopWindow ==
  /\ InUser
  /\ window_stack # <<>>
  /\ task_halt_terminal(Head(window_stack))

-----------------------------------------------------------------------------
\* Task t is asleep in a read of terminal i.
ReadsFrom(i, t) == /\ pcb[t].pc = "read" /\ pcb[t].terminal = i
                   /\ where[t] = terminal_wait_list

\* Slip: the reader keeps its flag.
wake_reader_keeps_flag(i, f, slots) ==
  /\ UNCHANGED handlerVars
  /\ misled' = ~ReadsFrom(i, f)
  /\ where' = [where EXCEPT ![f] = run_queue]
  /\ remain' = sched_refill_time(remain, f)
  /\ terminal_slot' = slots
  /\ UNCHANGED pcb
  /\ Launch(sched_insert_to_head(list, f))

(***************************************************************************)
(* Keyboard.  The handler writes to the focus task's terminal and then      *)
(* restores the running terminal, also when it is resumed after having      *)
(* switched away.  It wakes f for a key that went to terminal i, and does   *)
(* not look whether f is asleep: a request may be left from a reader whose  *)
(* window was closed, and the focus may have moved with the key.  The model *)
(* follows the system until f is not what the request stands for.           *)
(***************************************************************************)
wake_reader(i, f, slots) ==
  /\ UNCHANGED handlerVars
  /\ misled' = ~ReadsFrom(i, f)
  /\ pcb' = [pcb EXCEPT ![f].flags = @ \ {"WAITING_TERMINAL"}]
  /\ where' = [where EXCEPT ![f] = run_queue]
  /\ remain' = sched_refill_time(remain, f)
  /\ terminal_slot' = slots
  /\ Launch(sched_insert_to_head(list, f))

NoWake(slots) == /\ terminal_slot' = slots
                 /\ UNCHANGED <<schedVars, pcb, ctxVars, misled>>

\* Slip: the byte is stored and not counted.
TypedNotCounted(s, byte) ==
  [s EXCEPT !.key_buf = [j \in Cell |-> IF j = s.key_buf_cnt THEN byte ELSE @[j]]]

\* Store a byte at the end; behind the array it hits other fields.
Typed(s, byte) ==
  [s EXCEPT !.key_buf = [j \in Cell |-> IF j = s.key_buf_cnt THEN byte ELSE @[j]],
            !.key_buf_cnt = uint8(@ + 1)]

KeyEnter ==
  /\ InUser
  /\ focus_task # NULL
  /\ LET i == pcb[focus_task].terminal
     IN  IF terminal_slot[i].user_ask_len # 0
         THEN wake_reader(i, focus_task, [terminal_slot EXCEPT ![i] = Typed(@, "n")])
         ELSE NoWake([terminal_slot EXCEPT ![i].key_buf_cnt = 0])
  /\ UNCHANGED <<task_count, terminal_opened, window_stack, focusVars,
                 page_id_running>>

Edited(s, key) ==
  CASE key = "back" /\ s.key_buf_cnt > 0 -> [s EXCEPT !.key_buf_cnt = @ - 1]
    [] key = "char" /\ s.key_buf_cnt < KEYBOARD_BUF_SIZE - 1 -> Typed(s, "c")
    [] OTHER -> s

(***************************************************************************)
(* Any key but Enter, with Alt and F(fn + 1) held down when fn is not NULL. *)
(* The focus may change first; the key still goes to the terminal that had  *)
(* the focus when the handler started, and the task woken is the one that   *)
(* has the focus now.                                                       *)
(***************************************************************************)
KeyOther(key, fn) ==
  /\ InUser
  /\ focus_task # NULL
  /\ LET i     == pcb[focus_task].terminal
         focus == IF fn = NULL THEN focus_task ELSE task_change_focus(fn)
         slot  == Edited(terminal_slot[i], key)
         slots == [terminal_slot EXCEPT ![i] = slot]
         ask   == slot.user_ask_len
     IN  /\ key = "back" => slot.key_buf_cnt \notin KEYBOARD_BUF_SIZE..(LEAST_WRAPPED - 1)
         /\ focus_task' = focus
         /\ IF ask > 0 /\ slot.key_buf_cnt >= ask THEN wake_reader(i, focus, slots)
                                                  ELSE NoWake(slots)
  /\ UNCHANGED <<task_count, terminal_opened, window_stack, terminal_fg_task,
                 page_id_running>>

-----------------------------------------------------------------------------
(***************************************************************************)
(* system_terminal_read.  The scan stops at a newline, at the count or at   *)
(* nbytes; the byte it stops at is looked at again when the line is deleted,*)
(* also when it is behind the count.  A newline left there from an earlier  *)
(* line then makes the count wrap, and the shifting loop of a later read    *)
(* run out of the array (behind it are key_buf_cnt, user_ask_len, which is  *)
(* 0 by then, and padding) until it has overwritten the count it goes to:   *)
(* with a 0, as long as at most three bytes are deleted.                    *)
(***************************************************************************)
Satisfied(s, nbytes) ==
  \/ nbytes <= s.key_buf_cnt
  \/ \E j \in 0..(nbytes - 1) : j < s.key_buf_cnt /\ s.key_buf[j] = "n"

Scan(s, nbytes) ==
  Lowest({j \in 0..nbytes : j = nbytes \/ j >= s.key_buf_cnt \/ s.key_buf[j] = "n"})

ByteAt(s, j) == IF j \in Cell THEN s.key_buf[j] ELSE "c"

Consumed(s, nbytes) ==
  LET i     == Scan(s, nbytes)
      del   == IF ByteAt(s, i) = "n" THEN i + 1 ELSE i
      count == IF s.key_buf_cnt > KEYBOARD_BUF_SIZE + del THEN 0 ELSE s.key_buf_cnt
  IN  [s EXCEPT !.key_buf = [j \in Cell |-> IF j + del < s.key_buf_cnt
                                            THEN ByteAt(s, j + del) ELSE @[j]],
                !.key_buf_cnt = uint8(count - del)]

finish_read(i, nbytes) ==
  terminal_slot' = [terminal_slot EXCEPT
                      ![i] = [Consumed(@, nbytes) EXCEPT !.user_ask_len = 0]]

ReadSizes == ShellReads \cup ProgramReads

TerminalRead(nbytes) ==
  /\ UserTaskRuns
  /\ nbytes \in IF pcb[running].parent = NULL THEN ShellReads ELSE ProgramReads
  /\ LET i == pcb[running].terminal
     IN  IF Satisfied(terminal_slot[i], nbytes)
         THEN /\ finish_read(i, nbytes)
              /\ UNCHANGED <<schedVars, pcb, ctxVars>>
         ELSE /\ terminal_slot' =
                   [terminal_slot EXCEPT ![i].user_ask_len = nbytes]
              /\ pcb' = [pcb EXCEPT ![running].flags = @ \cup {"WAITING_TERMINAL"},
                                    ![running].pc = "read",
                                    ![running].nbytes = nbytes]
              /\ where' = [where EXCEPT ![running] = terminal_wait_list]
              /\ UNCHANGED <<remain, handlerVars>>
              /\ Launch(move_task_after_node(list, running, terminal_wait_list))
  /\ UNCHANGED <<task_count, terminal_opened, window_stack, focusVars,
                 page_id_running>>

\* The rest of the call, once the reader has been launched again.
TerminalReadReturns ==
  /\ pcb[running].pc = "read"
  /\ finish_read(pcb[running].terminal, pcb[running].nbytes)
  /\ pcb' = [pcb EXCEPT ![running].pc = "user", ![running].nbytes = 0]
  /\ UNCHANGED <<schedVars, task_count, terminal_opened, window_stack,
                 focusVars, page_id_running, ctxVars>>

-----------------------------------------------------------------------------
(***************************************************************************)
(* RTC.  Only programs started by a shell read it: rtc_interrupt_handler    *)
(* writes through task->parent, so a task without parent must not.          *)
(***************************************************************************)
RtcRead(count) ==
  /\ UserTaskRuns
  /\ pcb[running].parent # NULL
  /\ pcb' = [pcb EXCEPT ![running].flags = @ \cup {"WAITING_RTC"},
                        ![running].counter = count]
  /\ where' = [where EXCEPT ![running] = rtc_wait_list]
  /\ UNCHANGED <<remain, handlerVars>>
  /\ Launch(move_task_after_node(list, running, rtc_wait_list))
  /\ UNCHANGED <<task_count, termVars, focusVars, page_id_running>>

\* Slip: the parent is woken instead of the task.
RtcWakesParent ==
  LET p == pcb[cursor].parent
  IN  /\ cursor \in Task
      /\ cursor' = list.next[cursor]
      /\ woken' = TRUE
      /\ list' = sched_insert_to_head(list, p)
      /\ where' = [where EXCEPT ![p] = run_queue]
      /\ pcb' = [pcb EXCEPT ![cursor].counter = @ - 1]
      /\ UNCHANGED <<running, remain, task_count, termVars, focusVars,
                     page_id_running, ctxVars>>

(***************************************************************************)
(* rtc_interrupt_handler: one tick for every waiter; who reaches zero is    *)
(* moved to the head of the run queue, and its PARENT loses the flag.       *)
(***************************************************************************)
RtcInterruptBegins ==
  /\ InUser
  /\ RtcBegins
  /\ UNCHANGED <<taskVars, termVars, focusVars, page_id_running, ctxVars>>

RtcInterruptVisits ==
  LET due == pcb[cursor].counter = 1
  IN  /\ RtcVisits(due)
      /\ pcb' = [[pcb EXCEPT ![cursor].counter = @ - 1]
                   EXCEPT ![pcb[cursor].parent].flags =
                             IF due THEN @ \ {"WAITING_RTC"} ELSE @]
      /\ UNCHANGED <<task_count, termVars, focusVars, page_id_running, ctxVars>>

RtcInterruptEnds ==
  /\ RtcEnds
  /\ SwitchContext(running')
  /\ UNCHANGED <<taskVars, termVars, focusVars, page_id_running>>

\* system_vidmap: user video memory is mapped to the task's own terminal
SysVidmap ==
  /\ UserTaskRuns
  /\ running \in VidmapTasks
  /\ pcb' = [pcb EXCEPT ![running].vidmap_enabled = TRUE]
  /\ hw' = [hw EXCEPT !.pd = task_set_user_vidmap(@, pcb[running].terminal, NULL)]
  /\ UNCHANGED <<schedVars, task_count, termVars, focusVars, page_id_running,
                 running_term>>

-----------------------------------------------------------------------------
KeyStep ==
  \/ KeyEnter
  \/ \E key \in {"char", "back", "none"}, fn \in {NULL, 0, 1, 2} :
        /\ fn \in Terminal \cup {NULL} /\ KeyOther(key, fn)
        /\ key # "none" => pcb[focus_task].terminal \in TypedInto

OtherStep ==
  \/ PitInterrupt
  \/ InitYields
  \/ \E file \in File : SysExecute(file)
  \/ SysHalt
  \/ SpawnShell
  \/ CloseTopWindow
  \/ \E k \in 2..TERMINAL_MAX_COUNT : PressOnWindow(k)
  \/ \E nbytes \in ReadSizes : TerminalRead(nbytes)
  \/ TerminalReadReturns
  \/ \E count \in RtcCounts : RtcRead(count)
  \/ RtcInterruptBegins
  \/ RtcInterruptVisits
  \/ RtcInterruptEnds
  \/ SysVidmap

\* Nothing more is said of a system that has been misled.
Next ==
  \/ ~misled /\ KeyStep
  \/ ~misled /\ OtherStep /\ UNCHANGED misled
  \/ misled /\ UNCHANGED vars

Spec == Init /\ [][Next]_vars

-----------------------------------------------------------------------------
(* Properties *)

Valid  == {t \in Task : pcb[t].valid}
Opened == {i \in Terminal : terminal_slot[i].valid}
Sleeps(t) == where[t] # run_queue

\* Types of the variables of the composed kernel.
TypeOK ==
  /\ list \in [next : [Node -> Node], prev : [Node -> Node]]
  /\ running \in Task
  /\ remain \in [Task -> 0..SCHED_TASK_TICKS]
  /\ where \in [Task -> Lists \cup {temp_list}]
  /\ \A t \in Task :
       /\ pcb[t].valid \in BOOLEAN
       /\ pcb[t].flags \subseteq Flag
       /\ pcb[t].parent \in Task \cup {NULL}
       /\ pcb[t].terminal \in Terminal \cup {NULL}
       /\ pcb[t].page_id \in Page \cup {NULL}
       /\ pcb[t].pc \in {"user", "read"}
  /\ task_count \in 0..TASK_MAX_COUNT
  /\ terminal_fg_task \in [Terminal -> Task \cup {NULL}]
  /\ focus_task \in Task \cup {NULL}
  /\ \A i \in Terminal : /\ terminal_slot[i].key_buf \in [Cell -> {"c", "n"}]
                          /\ terminal_slot[i].key_buf_cnt \in 0..255
                          /\ terminal_slot[i].user_ask_len \in 0..KEYBOARD_BUF_SIZE
  /\ page_id_running \subseteq Page
  /\ running_term \in Terminal \cup {NULL}

(***************************************************************************)
(* Every live task is in exactly the list that its flags say, through any   *)
(* sequence of executes, halts, window closings, sleeps and wake-ups; dead  *)
(* tasks are in none.  TASK_WAITING_RTC is left out: rtc_interrupt_handler  *)
(* does not clear the flag of the task it wakes.                            *)
(***************************************************************************)
FlagsMatchLists ==
  \A t \in Task :
     /\ pcb[t].valid <=> where[t] # temp_list
     /\ "WAITING_CHILD" \in pcb[t].flags <=> where[t] = wait4child_list
     /\ "WAITING_TERMINAL" \in pcb[t].flags <=> where[t] = terminal_wait_list

\* The four rings hold exactly the live tasks, each in the ring its flags and
\* the path that moved it last (move_task_to_list_unsafe) say, up to the first
\* time that handle_scan_code wakes a task that does not wait for the key.
ListsAgree == misled \/ (ListsComplete /\ FlagsMatchLists)

\* Through execute, halt, window closing, sleeps and wake-ups by keys and the RTC,
\* the pointers of the lists agree in both directions, up to that time: the key
\* handler then inserts a node that is in the run queue already.
KernelListsLinked == misled \/ ListsLinked

(***************************************************************************)
(* task_count never disagrees with the slots, so that the loop of           *)
(* task_allocate_new_slot always finds a slot ("task_count is inconsistent" *)
(* is not reached); and no two live tasks share a user page, nor is the     *)
(* page of a live task offered to a new one: on every path of execute, halt *)
(* and window closing, the failing ones included.  The converse fails: the  *)
(* page of a task without parent is never given back (task/task.c:620).     *)
(***************************************************************************)
ResourcesAccounted ==
  /\ task_count = Cardinality(Valid)
  /\ \A t \in Valid : pcb[t].page_id # NULL =>
       /\ pcb[t].page_id \in page_id_running
       /\ \A u \in Valid \ {t} : pcb[u].page_id # pcb[t].page_id

(***************************************************************************)
(* Parents wait for exactly one child, on the same terminal; nobody waits   *)
(* for a child that is gone and no child outlives its parent.               *)
(***************************************************************************)
ParentsWait ==
  /\ \A t \in Valid : pcb[t].parent # NULL =>
        LET p == pcb[t].parent
        IN  /\ pcb[p].valid
            /\ "WAITING_CHILD" \in pcb[p].flags
            /\ pcb[p].terminal = pcb[t].terminal
  /\ \A p \in Valid : "WAITING_CHILD" \in pcb[p].flags =>
        Cardinality({t \in Valid : pcb[t].parent = p}) = 1

(***************************************************************************)
(* The foreground task of an open terminal is the innermost program on it:  *)
(* alive, using that terminal, not waiting for a child.  Closed terminals   *)
(* have none.  Killing the foreground task can therefore never orphan one.  *)
(***************************************************************************)
ForegroundIsInnermost ==
  \A i \in Terminal :
     LET t == terminal_fg_task[i]
     IN  IF i \in Opened
         THEN /\ t # NULL
              /\ pcb[t].valid
              /\ pcb[t].terminal = i
              /\ "WAITING_CHILD" \notin pcb[t].flags
         ELSE t = NULL

(***************************************************************************)
(* The focus is never dangling: it is the foreground task of some terminal, *)
(* and NULL exactly when no terminal is open (tear_down_task dereferences   *)
(* focus_task_ without a check).                                            *)
(***************************************************************************)
FocusIsForeground ==
  IF Opened = {} THEN focus_task = NULL
  ELSE \E i \in Opened : focus_task = terminal_fg_task[i]

\* Parents, children, foreground tasks and the focus form chains that end at
\* the terminal's innermost program, whatever execute, halt and clicks do.
TaskTree == ParentsWait /\ ForegroundIsInnermost /\ FocusIsForeground

(***************************************************************************)
(* Terminals, windows and video memory are opened and closed together, each *)
(* window once, and every open terminal has one owner.  This is what keeps  *)
(* gui_new_window from failing, a path of system_execute that lacks its     *)
(* return statement.                                                        *)
(***************************************************************************)
WindowsMatchTerminals ==
  /\ {window_stack[k] : k \in DOMAIN window_stack} = Opened
  /\ Len(window_stack) = Cardinality(Opened)
  /\ terminal_opened = Opened
  /\ \A i \in Opened :
       Cardinality({t \in Valid : /\ "TERMINAL_OWNER" \in pcb[t].flags
                                  /\ pcb[t].terminal = i}) = 1

(***************************************************************************)
(* Whatever switched to it (the scheduler, execute, halt, a window closed), *)
(* the running task sees its own world.  The TSS points to its kernel       *)
(* stack; what the kernel prints goes to the frame of its terminal; a       *)
(* program reaches its own image and no other, and of the rest of memory    *)
(* only screen buffers.  The entry at 132 MB is not rewritten by execute    *)
(* and halt: a program that has asked for video memory may lose it, and one *)
(* that has not may still see a buffer, but none that has asked is shown    *)
(* another terminal's.                                                      *)
(***************************************************************************)
Directory ==
  [e \in DOMAIN BootDirectory |->
     IF e \in DOMAIN hw.pd THEN hw.pd[e] ELSE BootDirectory[e]]

OwnAddressSpace ==
  LET me     == pcb[running]
      reach  == UserFrames(Directory, Terminal)
      shared == IF me.vidmap_enabled THEN {Buffer(me.terminal)}
                                     ELSE {Buffer(i) : i \in Terminal}
  IN  /\ hw.tss = running
      /\ running_term = me.terminal
      /\ me.terminal # NULL =>
           TextFrame(Directory, Terminal) = Buffer(me.terminal)
      /\ me.page_id # NULL =>
           /\ ImagePage(me.page_id) * SIZE_K \in reach
           /\ reach \ {ImagePage(me.page_id) * SIZE_K} \subseteq shared

(***************************************************************************)
(* Readers of different terminals are kept apart.  Until handle_scan_code   *)
(* is misled, every task inside read() is the foreground task of its        *)
(* terminal, where its request stands, so that this terminal's keys find    *)
(* it; it is asleep exactly while there is neither a line nor nbytes        *)
(* characters ("Now must not continue", terminal.c:342), whatever the count *)
(* of characters has become, and whatever requests closed readers have left.*)
(***************************************************************************)
ReadersKeptApart ==
  misled \/ \A t \in Valid : pcb[t].pc = "read" =>
     LET slot == terminal_slot[pcb[t].terminal]
     IN  /\ terminal_fg_task[pcb[t].terminal] = t
         /\ slot.user_ask_len = pcb[t].nbytes
         /\ where[t] = run_queue <=> Satisfied(slot, pcb[t].nbytes)

(***************************************************************************)
(* A parent leaves wait4child_list only in the step in which its child      *)
(* dies, and a task dies only as the innermost program of its terminal.     *)
(***************************************************************************)
ParentReturnsOnlyAfterChild ==
  [][\A p \in Task :
       where[p] = wait4child_list /\ where'[p] # wait4child_list
         => \E t \in Task : pcb[t].parent = p /\ pcb[t].valid /\ ~pcb'[t].valid
    ]_vars
=============================================================================
