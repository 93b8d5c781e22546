# AuroraOS in TLA+

A verification project for the kernel in `src/student-distrib` and the programs
in `src/syscalls` (ECE391 final project, "AuroraOS"): TLA+ models of its
scheduler, task management, paging, signals, terminals, files, RTC, mouse,
rendering, sound, library, shell and programs, TLC configurations that check them, and
TLAPS proofs of the central invariants.  Paths below are relative to
`src/student-distrib`; programs are named without their prefix `ece391`.

To check one model: `tlc -config Kernel.cfg Kernel.tla` (the MC modules where
there is one).  To check the proofs: `tlapm Kernel_proofs.tla`, and the same for
the other modules `*_proofs.tla`.

## 1. The system

One CPU.  Every IDT gate is an interrupt gate (`idt.c:52-64`), so interrupts
are off from the entry of a handler or a system call until it returns to user
mode *or switches to another task*.  All concurrency is therefore of two kinds:
an interrupt between two user instructions, and a kernel path that is cut in
two by `sched_launch_to_current_head` and goes on, with whatever it had read
before, when its task is launched again.  Both are modelled: an action is a
handler or a call up to its switch, and what comes after the switch is an
action of its own (or, where the code after it only returns, nothing).

| component | state | operations | correctness |
|---|---|---|---|
| Scheduler `task/task_sched.c` | ring lists through one node per task, `remain_time` | PIT tick, yield, sleep on a list, wake, launch the head | lists stay rings, nobody is lost; round robin; idle runs alone only |
| Tasks `task/task.c` | PCBs, `task_count`, focus and foreground tasks | execute, halt, tear down, change focus | parents wait, no orphans; the count matches; each error path undoes what was done |
| Paging `paging.c`, `x86_desc.S`, `boot.S`, `task/task_paging.c` | page directory and tables, page ids | fill an entry, allocate, release, restore | whoever runs reaches its own program and no other |
| Signals `signal.c`, `idt_asm.S` | pending and masked sets, handlers, alarm | send, check before `iret`, deliver, sigreturn | prompt delivery, no nesting, the program does not notice |
| Terminals `terminal.c` | line buffers, `user_ask_len`, modifier keys | scan code, read, allocate | a read gives what was typed, and wakes when it can |
| Windows `gui/gui_window.c` | window stack | new, activate, destroy, press, drag | windows, terminals and video memory agree; windows stay on the screen |
| Video memory `vidmem.c` | opened terminals, user mapping | open, close, vidmap, switch | a program writes to its own terminal |
| Screen output `lib.c`, `terminal.c` | one cursor and one text address, and a copy per terminal | `putc`, echo, clear, switch | each terminal shows what was printed on it |
| Rendering `gui/gui_render.c`, `vga/` | two halves of video memory, bank, BitBLT engine, start address | a frame, in phases | a frame shows the topmost thing at each point, and is drawn unseen |
| Library `lib.c`, `support.c` | none | strings, memory, numbers | as their C namesakes |
| Files `file_system.c` | descriptor tables, positions | open, close, read, clear | count right; reads in order and complete |
| RTC `rtc.c` | rate and counter per task, wait list | open, write, read, interrupt | a reader sleeps exactly its period |
| Mouse `mouse.c` | cursor, last packet's button | packet | the cursor stays on the screen and a drag on its title bar |
| Interrupt controller `i8259.c` | masks | mask, EOI | a raised line is served |
| Sound `beep.c` | divisor and gate of the speaker | play, silence | a note ends in silence |
| Shell and programs `../syscalls` | locals, descriptors, what they print | `cat`, `ls`, `grep`, `counter`, `sigtest`, ... | a command prints what its line promises |

How they interact: the RTC, the keyboard, the PIT and the mouse interrupt the
running task and call into the scheduler; `system_execute` and `system_halt`
call all of terminals, windows, video memory, paging, files, signals and the
scheduler; a mouse click opens a window (an `execute` inside the handler) or
tears a terminal down; signals are looked at on every way out of the kernel.
The shared state is the one list node of each PCB and the global
"current" variables (`running_task`, `focus_task`, `running_term`, the mappings
and `tss.esp0`), which have to be switched together.

What is hard: one node serves four lists and a temporary one; a walk along a
list while nodes leave it; a wait that is ended by a tear-down and not by its
event; values read before a switch or a change of focus and used after it;
error returns half way through `execute`; counters at zero and tables at their
limit; one cursor and one text address that serve all terminals in turn; an
engine that copies while the processor goes on; strings copied over each other,
moved while they overlap or cut by a buffer.  `PROJECT.json` ("hazards") lists
each at its line with the property
that would catch it.

## 2. Modules

| module | models | composed with |
|---|---|---|
| `TaskList` | the `prev`/`next` operations of `task/task.h` and `task.c` as functions on a heap | used by `Sched` |
| `Sched` | `task/task_sched.c`; the walk of `rtc_interrupt_handler` one node at a time | extended by `Kernel` |
| `ReadyQueue` | **abstract specification** of the scheduler: a sequence of ready tasks and a set of sleepers | `Sched` maps its rings to it (`Ready`) |
| `Paging` | directory and tables: `paging.c`, `x86_desc.S`, `boot.S`, `vidmem.c`, `task_paging.c`, and what the processor makes of them | extended by `Kernel` |
| `Kernel` | `task.c`, terminals with focus, windows, video memory, composed with the scheduler and the page directory | extends `Sched`, `Paging` |
| `Signal` | `signal.c`, `signal_asm.S`, the tail of `idt_asm.S` | own abstraction of task switching |
| `Files` | `file_system.c` | `MCFiles` has an image |
| `Rtc` | the virtual RTC of `rtc.c`, the counters `Kernel` leaves out | own abstraction of the ready tasks |
| `Terminal` | the line buffer of `terminal.c` byte by byte, of which `Kernel` keeps only where newlines are | one terminal, one reader |
| `Mouse` | `mouse.c` and the geometry of `gui/gui_window.c` | `MCMouse` has a screen; tasks and focus are `Kernel`'s |
| `Display` | a frame of `gui_render.c` with what it uses of `vga/`: bank, engine, start address | `MCDisplay` has a screen; places of windows are `Mouse`'s |
| `Screen` | `putc`, the cursor and the echo of `lib.c` and `terminal.c`, as operators on what they change | extended by `Programs` |
| `Library` | the string, memory and number functions of `lib.c` and `support.c` | extended by `Calls` |
| `Calls` | the system calls as one program sees them | extends `Library` |
| `Shell` | `shell.c`, the way of a command line through `execute`, `getargs` | extends `Calls` |
| `Grep`, `Syserr` | `grep.c`, `syserr.c` | extend `Shell` |
| `Sounds` | `beep.c` of the kernel, the programs `beep`, `music`, `derefnull`, `divzero` | extends `Shell` |
| `Programs` | the other programs, and what each command promises | extends `Grep`, `Syserr`, `Sounds`, `Screen`; `MCPrograms` has images and commands |
| `*_proofs` | theorems about `Kernel`, `Files`, `Signal`, `Rtc`, `Terminal`, `Mouse`, `Display` | part 1 of `Kernel_proofs` is about `Sched` |

Definitions have the names of the C functions and fields wherever TLA+ allows
it; `PROJECT.json` ("map") gives the lines of each.

**Sched.** `list.next`, `list.prev` are the pointers of all nodes, tasks 0..N-1
and then the sentinels.  `where` is a history variable: the list a task was
last put into.  `move_task_after_node` and its callers are pure functions of
the heap, so that an action is the composition of the calls the handler makes.
The RTC handler is the exception to one-action-per-handler: it is taken one
node at a time (`cursor`), with interrupts off, because the order of its steps
is what could go wrong; `Interruptible` guards everybody else.

**Kernel.** A PCB has its flags, parent, terminal, page and vidmap bit, and a
`pc`: `"user"`, or `"read"` for a task inside `system_terminal_read`.
`hw` is what the hardware has in force: the TSS's kernel stack and the entries
of the page directory that change (`hw.pd`), from which `Paging` computes the
frames that the kernel's text and a program's accesses reach.  Actions: `execute` with every failing
allocation, `halt` with and without a parent, the keyboard (a byte, Enter,
Backspace, each with Alt+Fn), terminal read in its two halves, RTC sleeps, vidmap, PIT,
and the mouse (open a shell, press on a window, close it).
A terminal slot keeps for every byte of `key_buf` whether it is a newline, and
`key_buf_cnt` as a `uint8_t`.  `misled` is a history: a key has woken a task that
was not asleep in a read of the terminal the key went to.  The handler does not
look (`terminal.c:165`, `:261`), and two inputs lead there: a request left by a
reader whose window was closed, and a key typed while Alt+Fn moves the focus.
Both are made.  From then on the lists may be torn and the model stops.

**Paging.** An address is the number of its 4 kB page; an entry has the bits
that the code sets.  Directory and tables are those of the assembly files with
what `enable_paging` and `vidmem_init` put over them.

**Signal.** The user registers are a record of a code location and EAX; a
delivery pushes them on `stack`, `sigreturn` restores them.  `main` remembers
what the program outside of handlers should have.  `mode = "kernel"` is the
moment between a handler and `signal_check`.

**Files.** The image is three constants (directory, inodes, blocks).  A
descriptor is the jump table it got, an inode and a position.  `got` and
`reply` are histories of what each descriptor gave.

**Rtc.** The wait list is a sequence (its pointers are `Kernel`'s and
`Sched`'s), `counter` the counters, `slept` the history they are compared with.

**Terminal.** `key_buf` has all its bytes, those behind `key_buf_cnt` too, and
`key_buf_cnt` is a `uint8_t`.  `typed` is what the user meant and has not been
taken by a read; `reply` the read that returned in the last step; `wrapped` that
a read has deleted more bytes than there were.

**Mouse.** One action for each outcome of `mouse_interrupt_handler`.  A release
on the close button may end the program that the packet interrupted: then
`system_halt` does not return and `last_flags` is not stored
(`CloseInterrupted`).  A release on the Terminal button starts a shell and
leaves the handler in the middle; its movement waits in `suspended` until the
interrupted task is launched again (`GoOn`), and until then each further packet
counts as a release, because `last_flags` still has the button.  Which program
is innermost in a window, and which one was interrupted, is open.  `grip` is a
history: the window that was taken by its title.

**Display.** One action per phase of `gui_render`.  A pixel is the place it was
copied from.  The BitBLT engine is a process of its own: it has at most one
copy in hand, which it finishes at any time unless the code waits for it.  The
grid of window edges, its sort, the rounding of cells to characters, the two
passes over the borders, and the bank in which a line may start and another
end are the code's.

**Screen.** Pure operators on a record of what is shown: the live cursor, the
terminal it belongs to, the page that is mapped, each terminal's saved cursor and
its text.  Every gate is an interrupt gate and nothing on the way to `putc` turns
interrupts on, so a whole write, and a whole echo, is one step, whatever the
comment at `terminal.c:379` says of a missing lock.  `ScreensAgree` compares what
comes out of operations in a row with a reference, the printed text as a row of
cells; it is a part of `LibraryAgrees`.

**Library.** Pure operators on memories, functions from addresses to
characters; the assembly functions with their bytes up to an aligned address,
their double words and their direction.

**Programs.** The shell sleeps in `execute` until its child has halted, so
shell and program are one thread of control: `at` is where it is, `my` the
locals of the function it is in.  A step ends where a program prints, reads or
halts.  `image` and `commands` are chosen at boot: an image, and the lines that
are typed under it, in any order and any number.  Ctrl+C may come at any step.
A byte of an array that was never written has any value; `unlucky` records
that it changed what is printed.

## 3. What the runs check

Passing runs:

| run | instance | shows |
|---|---|---|
| `sched` | 5 tasks (init, idle, 3 programs), slices of 2 ticks | rings stay linked and complete, the launch takes a member of the run queue and the idle task only if it is alone, the RTC handler never leaves its list; the rings implement `ReadyQueue`; round robin serves everybody once wake-ups stop jumping the queue |
| `kernel` | 5 slots (3 programs), 2 terminals, 3 pages, a buffer of 2 bytes, reads of 1 and 2 bytes | 9 properties, the three about lists and readers up to the key that is `misled`: lists and flags agree; slots, terminals and pages are accounted for on every error path; whoever runs has its own stack, program and text page; readers are kept apart; tasks are chains with a live focus; windows match terminals; a parent goes on only after its child |
| `signal` | 2 programs | delivery is prompt, handlers do not nest, the interrupted program keeps its registers, Ctrl+C ends a focus task that gets the processor again and again and comes out of its handlers |
| `files` | 2 tasks, tables of 4, blocks of 2 bytes, a file of two blocks stored out of order | descriptor count and table agree; reads give everything once, in order |
| `rtc` | 3 tasks, rates 1 to 4 of 16 | every reader is woken by the right interrupt, and every read returns |
| `terminal` | a buffer of 4 bytes, 8 keys, 2 held at a time, reads of 1 and 2 bytes | a read gives what was typed up to the read that makes the count wrap, and again after the next line that nobody reads; the buffer's bounds hold; no reader sleeps on a finished line |
| `mouse` | a screen of 8 x 6, 2 windows, 4 movements, one suspended handler | windows and cursor stay on the screen; a drag keeps its title bar, whatever opens, closes or is interrupted meanwhile |
| `display` | a screen of 27 x 12, up to 3 windows at every choice of six places | a shown frame has the topmost thing at every point; nothing is drawn where it can be seen, and the bank is not used while the engine copies |
| `programs` | every text of up to 6 characters with a buffer of 3, and a directory of 14 programs | a command prints what its line promises, or a part of it up to Ctrl+C; the system call tests pass, in any order; the library agrees with its reference on every alignment, overlap and short string; two terminals of 2 lines of 3 columns show what 7 operations in a row print on them |

Runs that TLC ends with a counterexample, each a disagreement of the code with
what it or its documentation says ("findings" has the quotations):

| run | what happens |
|---|---|
| `close_reader` | A window is closed whose shell sleeps in `read`. `user_ask_len` survives in the terminal slot (`terminal_allocate` does not reset it). In the next shell of that slot, Enter "wakes" a task that does not sleep and links it behind itself: the run queue is torn. |
| `rtc_fast` | A rate above a quarter of the hardware's starts the counter at 0; it is decremented before it is compared, and the read does not return. |
| `terminal_sizes` | A two-byte read ends with Enter; one character is typed and taken by a one-byte read. The old newline is now right behind it, `terminal.c:353` looks at it and deletes it once more, `key_buf_cnt` becomes 255, and the next read returns at once with bytes nobody typed. |

The passing `kernel` and `terminal` runs make all these inputs.  Their properties
say what holds up to the step in which the code goes wrong: `KernelListsLinked`,
`ListsAgree` and `ReadersKeptApart` until a key is `misled`, `ReadGivesTyped`
until a read has made the count wrap.  `close_reader` and `terminal_sizes` check
the same statements without the exception.

### What the properties leave out

Each is said at the property or, with its line, under "hazards":

- *Pages.* Only `system_halt` with a parent gives the page id back; a shell that
  halts, or whose window is closed, keeps it for ever (`task.c:620`, `:744`).
  `ResourcesAccounted` says that a live task's page is its own and in use, and
  not that a page in use belongs to a live task.
- *Video memory of a parent.* `system_halt` resumes the parent without
  `task_apply_user_vidmap`: it runs with the entry as the child left it.
  `OwnAddressSpace` allows the mapping to be lost, and excludes that a program
  that asked for it is shown another terminal's.
- *A wrapped count.*  What a read returns, and whether a reader sleeps rightly by
  what was typed, is open from the step after the wrap until an Enter that nobody
  reads resets the count.  `ReadersKeptApart` goes on, and says by what is in the
  buffer who may sleep.
- *A misled key.*  A task that did not wait for a key and was put at the head of
  the run queue all the same: no property says anything after it.
- *The flag of RTC sleepers* is cleared in the parent (`rtc.c:93`); the code reads
  it nowhere, and `ListsAgree` leaves it out.
- *Starvation.*  `EveryoneServed` has the premise that wake-ups stop.
- *Low tones.*  For frequencies 1 to 18 the divisor has more than the 16 bits that
  `beep.c:19-22` gives to the timer, and another tone sounds.  `Divisor` cuts it;
  the commands of the run (`BeepArgs`) leave these frequencies out, and
  `SoundPromises` does not hold of them.
- *Cells between windows* count their characters from their edge, and up to
  `FONT_WIDTH` - 1 columns left of a window may show what is below it (`Seam`).
- *A full buffer of `grep`.* The test for the end of a line reads the byte behind
  the data, which was never written (`grep.c:33`); where that byte is a newline
  (`unlucky`) a line is cut in two.
- *Ctrl+C in a note* leaves the speaker on: nothing in `system_halt` silences
  it.  Of an interrupted program `CommandsPrint` asks only that it has done no
  more than it promised.
- *The name of a program* on its kernel stack loses its first byte to the NUL of
  the arguments (`task.c:329`); nothing but a debug message reads it.

And one thing that no property says: a status of -1 (`beep` and `music` without
proper arguments) is returned as it is, and the shell says "no such command"
(`idt.c:191` speaks of 0 to 255).  `CommandsPrint` takes the shell's message for
the status, whatever it is.

### Bounds

- *Tasks.* Three programs are the least for which somebody is between two
  others in a list, a parent waits while two terminals are in use, and the
  handler wakes one and passes another.  Slots run out in `kernel` (5 of 10).
- *Reads.* The first program of a window reads 2 bytes (`ShellReads`), what it
  executes 1 (`ProgramReads`): the shorter read after a longer one in the same
  buffer is what meets an old newline.  The programs in slots 3 and 4 ask for video
  memory (`VidmapTasks`), the first one does not.  A count that has wrapped could be
  erased 255 times; `LEAST_WRAPPED` stops that at 255 here (not at all) and at 253
  in `terminal`.  Below these, counts act alike until they come within three bytes
  of the buffer's end.  Characters and Backspace are typed into one of the two
  terminals (`TypedInto`), Enter and Alt+Fn into both.  The proofs hold for any value
  of all five.
- *Terminals, pages.* Two terminals make focus changes, three pages with three
  programs let the page run out first after leaks.  `TASK_MAX_COUNT` and
  `PAGE_ID_COUNT` are one number in the code; the smaller one makes the failure
  of the page allocation reachable, which the leak makes reachable there too.
- *Slices.* 1 tick in `kernel` (every tick preempts) and 2 in `sched`.
- *Buffers and files.* Reads of 1 and 2 bytes of 2, reads of 2 and 3 bytes over
  blocks of 2: shorter than, as long as and longer than a block or a line.
- *RTC.* 16 instead of 1024 ticks; only the quotient HW/rate/4 is used.
  `LOST` stands for all counters below zero, from which none returns in less
  than 2^32 interrupts.  `MAX_RTC_FD` bounds how often a task opens it.
- *Alarm.* `ALARM_TICKS` is 0 in the run (an alarm at each tick), which
  contains the longer intervals' interleavings; the proofs hold for any number.
- *Screen.* 8 x 6 pixels, windows of 6 x 4 with buttons of one pixel, so that
  both axes have room to move and edges to stop at; movements of 1 and 2 pixels
  skip over an edge or meet it.  `MAX_SUSPENDED` = 1: while one handler waits
  others run to their end in every way; the proofs hold for any number.
- *Keys.* `MAX_HELD` keys are held at the same time; key repeat is included.
- *Frame.* The proportions of the code are kept: the side border is narrower
  than a character less one point, the title bar is not, a bank holds several
  lines and its end falls inside one, the start address has a low and a high
  part.  Three windows are the least for which one limits the cells of two
  others.  With six places they overlap in every way that the grid tells apart.
- *Texts.* Six characters over `a`, `b` and newline with a buffer of three: a
  line is cut at the first read, at the last, twice, and just at the buffer's
  end; `MAX_TEXT` is that bound.  `COUNTS` stands for 100, 10000 and 100000: one
  digit, two digits, and one again.  `MAX_OPEN_FILE` is the code's 8, since the
  tests open until the table is full.  `MAX_FRAMES` lets the letter of pingpong
  come back to its first wall, `MAX_ALARMS` is one alarm during sigtest.
- *Sounds.* `ARG_LENGTH` is 6 for 128: there are words that end before, at and
  behind it.  A unit of duration (`DURATION_UNIT`, `BEEP`) is chosen so that
  notes last 0 to 3 ticks, and songs have up to 15 notes for 6 descriptors.
  Numbers have `WIDTH` bits, so that some are too large, and one is -1.
- *Printed text.* Two lines of three columns scroll after six characters, so 7
  operations (`PRINT_STEPS`) are a switch and a scroll, or a scroll and what comes
  after it.
- *Library.* Memories of `SIZE` = 12 bytes, three double words, for the functions
  that work in double words: every source, destination and length.  Strings of
  `SHORT` = 6 bytes and integers of `WIDTH` = 8 bits, all of them.
- *Kernel stack.* `STACK` = 12 bytes, longer than any line of the run.

### Fairness, and why

- `sched`: strong fairness of the PIT tick.  The timer is periodic, `i8259`
  keeps a raised line pending while interrupts are off, and the EOI is sent
  before the switch, so a task that is in user mode again and again is
  interrupted again and again.  Weak fairness of the RTC handler's own steps:
  it is straight-line code.
- `signal`: weak fairness of `signal_check`, straight-line code on the way out
  of the kernel, and no more.  `CtrlCKills` has as premises that the task gets the
  processor again and again (`EveryoneServed` of `Sched` says when it does) and
  that it comes out of its handlers again and again, since a program that stays in
  a handler, where signals are masked, is never killed by this code.
- `rtc`: weak fairness of the hardware's interrupt; register C is read
  every time, so the chip goes on interrupting.

Nothing is assumed of programs or of the user: they may stop at any time.

`EveryoneServed` has a premise: that wake-ups stop.  Without it the property is
false of this code, since a woken task is inserted at the head and launched at
once (`task_sched.c:119`).

## 4. What is proved

For every value of the constants (TLAPS, SMT, Zenon and PTL only):

- **`Kernel_proofs`, part 1 (`Sched`)**, for any number of tasks and any slice.
  `ListsLinked`, `RunningIsRunnable` and `HandlerStaysInList` are not
  inductive: that a walk stays inside a list says nothing of nodes in a ring of
  their own, and the launch needs a run queue that is not empty.  `SchedInv`
  adds that the rings are *sound* (next and prev inverse, homes agree, and a
  set of nodes closed under `next` without a sentinel is empty), and that the
  init task and the running task are in the run queue.  One lemma gives the
  effect of `move_task_after_node` on soundness; each handler is then a
  composition of moves.  From it follow `TypeCorrect`, `ListsStayLinked`,
  `RunningStaysRunnable`, `HandlerNeverStrays` and the action property
  `IdleIsLast` (the launch passes the idle task over unless it is alone).

  `ListsStayComplete` is about walks.  A walk from a sentinel cannot meet a node
  twice before it is back (`prev` leads back to the start), so by counting it is
  back after at most all the nodes; and what it did not meet would be closed
  under `next` without a sentinel.

  `QueueImplemented` is the refinement of `ReadyQueue`.  `Queued(l, q)` says that
  the ring through `run_queue` holds the sequence `q`; there is one such `q`, and
  it is what `SeqOf` reads.  Three lemmas give it after a move: in front of the
  queue, from its front into a wait list, from its front behind its last task.
  The launch is then `Settle`, and each handler a step of `ReadyQueue` or none.
  What the mapping needs beyond `SchedInv` is that the processor belongs to the
  front of the queue unless the RTC handler is waking tasks (`Front`).

- **`Kernel_proofs`, part 2 (`Kernel`)**, for any number of tasks, terminals and
  pages, on top of the lemmas of part 1.  The invariant (`KernelInvariantHolds`) has a
  part for each structure that two actions change: the rings and homes
  (`QueueInv`), PCBs and counts (`Records`), slots, the handler in user mode,
  families (a task's parent is on the same terminal and sleeps until its child
  has halted) and that no parents form a ring (`NoRing`), each terminal's
  foreground task and the focus, pages, readers, a reader woken with enough in
  its buffer, what the hardware maps (`Mappings`), and the window stack.  None of
  them is preserved alone: halting needs the parent asleep, the parent's wake-up
  needs the families, the mapping needs the page of whoever is launched.  From it
  follow all nine properties of the `kernel` run: types, `KernelListsLinked`,
  `ListsAgree`, `ResourcesAccounted`, `OwnAddressSpace`, `ReadersKeptApart`,
  `TaskTree`, `WindowsMatchTerminals`, and the action property
  `ParentReturnsOnlyAfterChild`.

  There is no hypothesis on the inputs.  What is said of lists, flags and readers
  is said up to a `misled` key; the rest holds in the state after it too, since the
  task that is wrongly woken is the foreground task of a terminal.  A wrapped count
  needs no exception: the part about readers says when one may sleep by the bytes in
  the buffer, and a count beyond its end satisfies every read.

- **`Files_proofs`**, for any image that is healthy (`ImageAssumption`: block
  numbers and inodes in range, lengths within the table).  `FilesInv` is the
  conjunction of table types, soundness of each entry, the count and
  "what a descriptor gave is the file up to its position".  The step that
  matters is `read_data` over the blocks: the pieces of a read, concatenated,
  are the file's bytes from the old to the new position.  Results:
  `FilesTypes`, `CountIsRight`, `FilesAreReadInOrder`.

- **`Signal_proofs`**, for any sets of tasks, values and handlers.  `Inv`
  relates the signal structure, the frame on the user stack and the
  registers: either in the main program with nothing masked and no frame, or in a
  handler with all masked and exactly one.  Results: `SignalTypes`,
  `HandlersDoNotNest`, `ProgramIntact`, `DeliveryIsPrompt`.

- **`Terminal_proofs`**, for any set of keys, any buffer of at most 255 bytes, any
  sizes of reads and any number of held keys, without a hypothesis.  `TermInv` says
  that, unless the count has wrapped, the bytes up to `key_buf_cnt` are `typed`, the
  count is below the buffer's end, no line is left in it, and a sleeper has too
  little; that a read which finds an old newline still gives what was typed; and
  that an Enter which nobody reads brings all of it back.
  Results: `TerminalTypes`, `ReadsGiveTyped`, `SleepersWait`.

- **`Rtc_proofs`**, for any number of tasks and any rates.  `RtcInv`: the wait
  list has each task once and only live ones, the running task is not in it, and
  whoever sleeps has a rate.  `RtcTypes` needs no hypothesis.
  `ReadersWakeOnTime` is for rates whose period is not zero (`SlowRates`); for
  the others `rtc_fast` shows a read that does not return.

- **`Mouse_proofs`**, for any sizes with `LayoutAssumption` (new windows fit the
  screen, windows are larger than the cursor, the buttons are more than a
  cursor's width from the right end of the bar; `mouse.c`, `gui_window.h` and
  `gui_render.h` satisfy it), any number of windows and any movements.  A window
  that stays on the screen takes the cursor along: the cursor can be stopped
  only at the right edge, where the rest of the bar is still under it
  (`DragKeepsTitle`).  So `GripHolds` is inductive together with
  `WindowsOnScreen`, and a press can only reach the held window itself.
  `Stacked` adds that no window is in the stack twice: a press takes the window
  out of its place, a shell gets one that is not there.
  Results: `MouseInvHolds`, `WindowsStayOnScreen`, `GripAlwaysHolds`, `MouseTypes`.

- **`Display_proofs`**, for a screen, characters, windows, buttons and a status
  bar of any sizes, a clock of any text, and any number of windows at any places,
  under two assumptions that TLC also evaluates.  `SizesAssumption`: a half of
  video memory is whole banks and whole steps of the upper start registers, and a
  character is at most one line higher than a title bar (16 and 21).
  `PlacesAssumption`: button and clock are on the screen, the clock right of the
  button (`gui_render.h:20-33`); a window's buttons are inside its borders
  (`gui_window.h:29-31`, `gui_objs.h:56-69`); and a window with its borders is on
  the screen, which is `WindowsOnScreen`, proved in `Mouse_proofs`.

  `Unseen` is inductive for `DrawsUnseen`: pages and bank agree, the copy that the
  engine has begun lies in the half being drawn, the shown half and the objects are
  as they were.  Every list of copies that a phase makes is shown to stay inside
  the half (`Copies`), also the clipped texts at the edges of the grid.

  `FrameShown` needs to know what is there *before* the last phase.  `Painted`
  says it for each value of `pc`: the desktop (`DesktopDrawn`: the banks are the
  lines of the screen), the button, the clock; then, of each point, the topmost
  window there once its turn has come: the lower windows with their borders, from
  the lowest up, then the top one.
  It speaks of what will be in memory when the engine has finished, so a step of
  the engine changes nothing.  Three arguments carry it.  `QuickSort`: the sort
  returns a sorted permutation, by well-founded induction on the width of the
  part, so between two neighbours of the grid's lines no window begins or ends
  (`GridLines`), every point is in one cell (`CellOf`), and the window found at
  the cell's corner is the topmost at each of its points.  A cell's text covers
  the cell up to the columns that `Seam` names, because it starts at the
  character its left edge cuts and ends with one of whole width
  (`CharacterDrawn`).  And a phase changes no point outside of the window it draws,
  and gives each point of its border what belongs there by the last copy over it
  (`BorderCovers`), whichever of its copies the engine has not made yet
  (`DrawnLater`).
  Results: `FramesShowTheTopmost`, `FramesDrawnUnseen`, `FrameInvHolds`.

Only model-checked: every liveness property (fairness is out of the provers'
reach) and the programs.  `Library` and `Grep` are recursions over data, and
`LibraryAgrees`, `CommandsPrint` and `TestsPass` ask
what they compute: that is an induction whose statement the installed provers
cannot instantiate.  `Paging` has no behaviour of its own; the frames it reaches
are in `KernelAddressSpaces`.

## 5. Abstractions and what they rest on

- A task that reads the RTC in `Kernel` has a parent: `rtc.c:93` clears the
  flag in the *parent's* PCB, and would write through NULL.
- Boot is the state after `task_run_initial_task` in which idle and init exist.
- A program's write of more than one character is a row of `WriteChar`s; that
  others may come between them is more than the code allows.  The first character
  stands for a prompt or a banner.
- An RTC interrupt with an empty wait list changes nothing but the date.
- A name is a model value, a block holds `BLOCK_SIZE` bytes, a byte typed is a
  key with its case; the four scan code tables are functions of the key.
- In the models of the kernel a program is the environment: any calls, in any
  order, from small argument sets.  Rate 0 (a division by zero inside the
  kernel, `rtc.c:195`) and directory reads of 0 bytes are not among them.
- In `Programs` a call that sleeps takes no time, and a file read returns the
  next bytes, which is what `Files` and `Rtc` show of them.

Not modelled:

- the start-up of the interface (`gui/gui.c`, calls once), the font and the PNG
  decoder (data, and third-party code that reads data once);
- the mode setting, drawing primitives and hardware cursor of `vga/`: register
  programming after SVGAlib, with no state that another part reads;
- `fish`, which animates frames in video memory on a system of its own, and the
  notes of the long songs, which are data of the run;
- `printf`'s walk over its format (its conversions are in `Library`), the CMOS
  clock, the printing of exceptions, descriptor tables, the set-up of the mouse
  device and its other buttons;
- the kernel's tests (`tests.c`), build tools and binaries.

## 6. Plan

Done, in this order: `TaskList` and `Sched` with `ReadyQueue`, `Kernel`,
`Signal`, `Files`, `Rtc`, `Terminal`, `Mouse`, the proofs of `Sched`, `Files`,
`Signal` and `Mouse`; `Paging` composed into `Kernel`, `Display`, `Screen`,
`Library`, `Calls`, `Shell`, `Grep`, `Syserr`, `Sounds` and `Programs`; the
proofs of `Kernel`, `Terminal` and `Rtc`, the refinement of
`ReadyQueue`, and the proofs of `Display`.
Next:

1. An abstract specification of what `Kernel` promises of tasks and terminals,
   as `ReadyQueue` is of the scheduler, and its refinement.
