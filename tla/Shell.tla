------------------------------- MODULE Shell --------------------------------
(***************************************************************************)
(* The shell (ece391shell.c), what execute does with a command line         *)
(* (task.c), and what the programs that it runs have in common.             *)
(*                                                                          *)
(* The shell sleeps in execute until the program has halted, so the two are *)
(* one thread of control: at is where it is, my the locals of the function  *)
(* it is in.  A step ends where a program prints, reads or halts.  A read   *)
(* or a write of an open descriptor does not fail on a healthy image        *)
(* (Files.tla), and "." and "rtc" are in the image; what the programs say   *)
(* otherwise is left out.                                                   *)
(***************************************************************************)
EXTENDS Calls

CONSTANTS
  Boots,     \* images, each with the commands that are typed under it
  Answer,    \* lines typed when a program asks
  ARGSIZE,   \* buffer for the arguments, longer than those of any line
  STACK      \* bound: bytes of the kernel stack that are looked at

VARIABLES
  commands,     \* of this boot
  line,         \* buf of the shell
  args,         \* args of the program's PCB, NULL or a string
  at, my,
  typed,        \* history: what the program was answered, what it printed
  out,          \* and did with the RTC, whether it was interrupted, and
  interrupted,
  unlucky       \* whether it used a byte it never wrote in a way that shows

bootVars == <<image, commands>>
shellVars == <<line, args, interrupted>>
histories == <<typed, unlucky>>
vars == <<bootVars, fileVars, shellVars, histories, at, my, out>>

NL == "\n"
ELF == <<"ELF">>      \* what task_is_executable looks for
Nothing == [none |-> TRUE]

Prints(text) == out' = out \o text
Quiet == UNCHANGED out
Goes(label, frame) == at' = label /\ my' = frame

\* main returns, _start halts with its value, and execute returns it.
Return(status) ==
  /\ Goes("report", [rval |-> status])
  /\ opened_files' = init_file_array
  /\ current_open_file_num' = 2
Exits(text, status) == Prints(text) /\ Return(status)
Says(text, label, frame) ==
  Prints(text) /\ Goes(label, frame) /\ UNCHANGED fileVars
Plain == UNCHANGED <<bootVars, shellVars, histories>>

\* What a program does with the RTC that can be observed
Tick == <<"tick">>
Rate(frequency) == <<"rate ">> \o itoa(frequency, 10)
Waits(fd) == IF read_returns(fd, 4, <<>>).value = 0 THEN Tick ELSE <<>>
SetsRate(fd, frequency) ==
  IF write_returns(fd, 4, frequency) = 0 THEN Rate(frequency) ELSE <<>>

-----------------------------------------------------------------------------
(***************************************************************************)
(* execute.  The kernel stack of the new task is below STACK, the buffer of *)
(* the caller from there on.                                                *)
(***************************************************************************)
Spaces(text) == {i \in DOMAIN text : text[i] = " "}

\* A line without a space has no arguments.
execute_parse_command(command) ==
  IF Spaces(command) = {} THEN command ELSE [command EXCEPT ![Min(Spaces(command))] = NUL]

KernelMemory(command) ==
  [a \in 0..(STACK + Len(command)) |->
     IF a \in STACK..(STACK + Len(command) - 1)
     THEN execute_parse_command(command)[a - STACK + 1] ELSE NUL]

executable_name(command) == Text(KernelMemory(command), STACK)
NameAt(command) == STACK - 1 - Len(executable_name(command))
WithName(command) == strcpy(KernelMemory(command), NameAt(command), STACK)

\* The NUL of the arguments lands on the first character of the name.
ArgsFrom(command) == STACK + Min(Spaces(command))
ArgsAt(command) == NameAt(command) - strlen(WithName(command), ArgsFrom(command))
WithArgs(command) == strcpy(WithName(command), ArgsAt(command), ArgsFrom(command))

NoArgs == [given |-> FALSE, text |-> <<>>]
ArgsOf(command) ==
  IF Spaces(command) = {} THEN NoArgs
  ELSE [given |-> TRUE, text |-> Text(WithArgs(command), ArgsAt(command))]

task_is_executable(file) == IsPrefix(ELF, file.data)
CanExecute(command) ==
  /\ Matches(executable_name(command)) # {}
  /\ task_is_executable(read_dentry_by_name(executable_name(command)))

getargs_fails(nbytes) == ~args.given \/ Len(args.text) >= nbytes

-----------------------------------------------------------------------------
(***************************************************************************)
(* The shell.                                                               *)
(***************************************************************************)

\* An empty line asks again.
ReadCommand ==
  /\ at = "prompt"
  /\ line' \in commands
  /\ at' = CASE line' = <<"exit">> -> "halted"
             [] line' = <<>>       -> "prompt"
             [] OTHER              -> "execute"
  /\ out' = <<>> /\ typed' = <<>>
  /\ interrupted' = FALSE /\ unlucky' = FALSE
  /\ UNCHANGED <<bootVars, fileVars, args, my>>

\* system_execute fails, or the program starts at the label of its name.
ExecuteFails ==
  /\ at = "execute" /\ ~CanExecute(line)
  /\ Goes("report", [rval |-> -1])
  /\ UNCHANGED <<bootVars, fileVars, shellVars, histories, out>>
ExecuteRuns ==
  /\ at = "execute" /\ CanExecute(line)
  /\ args' = ArgsOf(line)
  /\ Goes(executable_name(line)[1], Nothing)
  /\ opened_files' = init_file_array
  /\ current_open_file_num' = 2
  /\ UNCHANGED <<bootVars, line, interrupted, histories, out>>

Message(rval) ==
  CASE rval = -1  -> <<"no such command\n">>
    [] rval = 256 -> <<"program terminated by exception\n">>
    [] rval = 0   -> <<>>
    [] OTHER      -> <<"program terminated abnormally\n">>
Report ==
  /\ at = "report"
  /\ Says(Message(my.rval), "prompt", Nothing)
  /\ UNCHANGED <<bootVars, shellVars, histories>>

\* The last shell of the terminal is started again.
NewShell ==
  /\ at = "halted"
  /\ at' = "prompt"
  /\ UNCHANGED <<bootVars, fileVars, shellVars, histories, my, out>>

\* Ctrl+C, when its signal is not masked
CtrlC ==
  /\ at \notin {"prompt", "execute", "report", "halted", "sigtest.handler"}
  /\ interrupted' = TRUE
  /\ Return(15)
  /\ UNCHANGED <<bootVars, line, args, histories, out>>

ShellInit ==
  /\ \E b \in Boots : image = b.image /\ commands = b.commands
  /\ opened_files = init_file_array
  /\ current_open_file_num = 2
  /\ line = <<>> /\ args = NoArgs
  /\ at = "prompt" /\ my = Nothing
  /\ typed = <<>> /\ out = <<>>
  /\ interrupted = FALSE /\ unlucky = FALSE
=============================================================================
