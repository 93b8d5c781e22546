------------------------------ MODULE Programs ------------------------------
(***************************************************************************)
(* The programs that the shell runs (src/syscalls): cat, ls, hello,         *)
(* testprint, counter, rtctest, pingpong, sigtest, and those of the modules *)
(* Grep, Syserr and Sounds.  A program prints what it promises for the line *)
(* that was typed, or as much of it as it got to before Ctrl+C.             *)
(***************************************************************************)
EXTENDS Grep, Syserr, Sounds, Screen

CONSTANTS
  COUNTS,        \* how far counter and rtctest count for 0, 1 and 2
  SCREENWIDTH,
  Letters,       \* STARTCHAR to ENDCHAR
  MAX_FRAMES,    \* bounds: pingpong's frames, and alarms during sigtest
  MAX_ALARMS

Reads(label, answer) == at = label /\ answer \in Answer /\ typed' = answer

\* A program that starts with a question
Asks(program_, question) ==
  /\ at = program_
  /\ Says(<<question>>, program_ \o ".read", Nothing)
  /\ Plain

-----------------------------------------------------------------------------
(* cat, ls, hello, testprint *)

CatStarts ==
  /\ at = "cat"
  /\ \/ getargs_fails(ARGSIZE) /\ Exits(<<"could not read arguments\n">>, 3)
     \/ /\ ~getargs_fails(ARGSIZE) /\ ~CanOpen(args.text)
        /\ Exits(<<"file not found\n">>, 2)
     \/ /\ ~getargs_fails(ARGSIZE) /\ CanOpen(args.text)
        /\ system_open(args.text)
        /\ Goes("cat.read", [fd |-> open_returns(args.text)]) /\ Quiet
  /\ Plain
CatReads ==
  /\ at = "cat.read"
  /\ LET got == read_returns(my.fd, BUFSIZE, <<>>)
     IN  \/ got.value = 0 /\ Exits(<<>>, 0)
         \/ got.value > 0 /\ Prints(got.data) /\ system_read(my.fd, BUFSIZE) /\ Goes(at, my)
  /\ Plain

LsStarts ==
  /\ at = "ls"
  /\ system_open(<<".">>)
  /\ Goes("ls.read", [fd |-> open_returns(<<".">>)]) /\ Quiet
  /\ Plain
LsReads ==
  /\ at = "ls.read"
  /\ LET got == read_returns(my.fd, FILE_NAME_LENGTH, <<>>)
     IN  \/ got.value = 0 /\ Exits(<<>>, 0)
         \/ /\ got.value > 0 /\ Prints(got.data \o <<NL>>)
            /\ system_read(my.fd, FILE_NAME_LENGTH) /\ Goes(at, my)
  /\ Plain

Question == "Hi, what's your name? "
HelloReads ==
  /\ \E answer \in Answer :
       Reads("hello.read", answer) /\ Exits(<<"Hello, ">> \o answer, 0)
  /\ UNCHANGED <<bootVars, shellVars, unlucky>>

Testprint ==
  /\ at = "testprint"
  /\ Exits(<<"Hello, if this ran, the program was correct. Yay!\n">>, 0)
  /\ Plain

-----------------------------------------------------------------------------
(* counter and rtctest: the same choice, made for a line that ends in a newline *)

WrongChoice(answer) ==
  Len(answer) > 2 \/ (Len(answer) = 2 /\ answer[1] \notin {"0", "1", "2"})
Chosen(answer) ==
  IF answer = <<>> \/ answer[1] \notin {"0", "1", "2"} THEN {}
  ELSE {i \in 1..3 : lookup[i] = answer[1]}
Max_(answer) == IF Chosen(answer) = {} THEN 0 ELSE COUNTS[Min(Chosen(answer))]
Number(i) == itoa(i, 10) \o <<NL>>

CounterReads ==
  /\ \E answer \in Answer :
       /\ Reads("counter.read", answer)
       /\ IF WrongChoice(answer) THEN Exits(<<"Wrong Choice!\n">>, 0)
          ELSE Quiet /\ Goes("counter.count", [i |-> 0, max |-> Max_(answer)])
                     /\ UNCHANGED fileVars
  /\ UNCHANGED <<bootVars, shellVars, unlucky>>
CounterCounts ==
  /\ at = "counter.count"
  /\ IF my.i < my.max THEN Says(Number(my.i + 1), at, [my EXCEPT !.i = @ + 1])
     ELSE Exits(<<>>, 0)
  /\ Plain

RateOf(answer) ==
  CASE Chosen(answer) = {2} -> <<16>> [] Chosen(answer) = {3} -> <<1024>> [] OTHER -> <<>>

RtctestReads ==
  /\ \E answer \in Answer :
       /\ Reads("rtctest.read", answer)
       /\ IF WrongChoice(answer) THEN Exits(<<"Wrong Choice!\n">>, 0)
          ELSE /\ system_open(<<"rtc">>)
               /\ Goes("rtctest.rate", [rtc_fd |-> open_returns(<<"rtc">>)]) /\ Quiet
  /\ UNCHANGED <<bootVars, shellVars, unlucky>>
RtctestSetsRate ==
  /\ at = "rtctest.rate"
  /\ Says(IF RateOf(typed) = <<>> THEN <<>> ELSE SetsRate(my.rtc_fd, RateOf(typed)[1]),
          "rtctest.count", [rtc_fd |-> my.rtc_fd, i |-> 0, max |-> Max_(typed)])
  /\ Plain
RtctestCounts ==
  /\ at = "rtctest.count"
  /\ IF my.i < my.max
     THEN Says(Number(my.i + 1) \o Waits(my.rtc_fd), at, [my EXCEPT !.i = @ + 1])
     ELSE Exits(<<>>, 0)
  /\ Plain

-----------------------------------------------------------------------------
(* pingpong: a letter between two walls.  The macros have no parentheses. *)

BUFMAX == SCREENWIDTH + 2
START == 1
STARTLOOP == START + 1
LOOPMAX == SCREENWIDTH + 2 - 2 - 1

Walls == [i \in 0..(BUFMAX - 1) |->
            CASE i = BUFMAX - 1 -> NUL
              [] i = BUFMAX - 2 -> NL
              [] i = BUFMAX - 3 -> "|"
              [] i = START      -> "|"
              [] OTHER          -> " "]
Cleared == [i \in 0..(BUFMAX - 1) |->
              IF i \in STARTLOOP..(LOOPMAX - 1) THEN " " ELSE Walls[i]]
Frame(j, curchar) == Text([Cleared EXCEPT ![j] = curchar], 0)

PingpongStarts ==
  /\ at = "pingpong"
  /\ system_open(<<"rtc">>)
  /\ Goes("pingpong.rate", [rtc_fd |-> open_returns(<<"rtc">>)]) /\ Quiet
  /\ Plain
PingpongSetsRate ==
  /\ at = "pingpong.rate"
  /\ Says(SetsRate(my.rtc_fd, 32), "pingpong.move",
          [rtc_fd |-> my.rtc_fd, j |-> STARTLOOP, back |-> FALSE, char |-> 1, frames |-> 0])
  /\ Plain

\* Where the loops go after a frame at j
Moved ==
  CASE ~my.back /\ my.j + 1 < LOOPMAX    -> [my EXCEPT !.j = @ + 1]
    [] ~my.back /\ my.j + 1 >= LOOPMAX   -> [my EXCEPT !.j = LOOPMAX - 1, !.back = TRUE]
    [] my.back /\ my.j - 1 >= STARTLOOP  -> [my EXCEPT !.j = @ - 1]
    [] my.back /\ my.j - 1 < STARTLOOP   ->
         [my EXCEPT !.j = STARTLOOP, !.back = FALSE,
                   !.char = IF Letters[@] = Last(Letters) THEN 1 ELSE @ + 1]
PingpongMoves ==
  /\ at = "pingpong.move" /\ my.frames < MAX_FRAMES
  /\ Says(Frame(my.j, Letters[my.char]) \o Waits(my.rtc_fd),
          at, [Moved EXCEPT !.frames = @ + 1])
  /\ Plain

-----------------------------------------------------------------------------
(* sigtest: its handler repairs the register that held the bad pointer. *)

\* The user stack in a handler, from the return address up (signal_asm.S)
HwContext == <<"ebx", "ecx", "edx", "esi", "edi", "ebp", "eax", "ds", "es", "fs",
               "irq_exp_num", "err_code", "eip", "cs", "eflags", "esp", "ss">>
HandlerStack == <<"return address", "signum">> \o HwContext
Patched == HandlerStack[2 + 7]       \* (uint32_t*)(&signum + 7)
SEGFAULT == 1
ALARM == 3
Signum(n) == itoa(n, 10) \o <<NL>>
AlarmText == <<"Alarm signal handler called, signum: ">> \o Signum(ALARM)

SigtestStarts ==
  /\ at = "sigtest"
  /\ \/ getargs_fails(ARGSIZE) /\ Exits(<<"could not read argument\n">>, 3)
     \/ /\ ~getargs_fails(ARGSIZE)
        /\ LET installed == args.text # <<>> /\ args.text[1] = "1"
           IN  Says((IF installed THEN <<"Installing signal handlers\n">> ELSE <<>>)
                      \o <<Question>>,
                    "sigtest.read", [installed |-> installed, alarms |-> 0])
  /\ Plain

\* The store through badbuf faults, and the default action is to kill.
SigtestReads ==
  /\ \E answer \in Answer :
       /\ Reads("sigtest.read", answer)
       /\ IF my.installed
          THEN Says(<<"Segfault signal handler called, signum: ">> \o Signum(SEGFAULT)
                      \o <<"Press enter to continue...\n">>, "sigtest.handler", my)
          ELSE Exits(<<>>, 256)
  /\ UNCHANGED <<bootVars, shellVars, unlucky>>

\* Enter, sigreturn, and the store again: with the address in EAX it succeeds.
SigtestReturns ==
  /\ at = "sigtest.handler" /\ Patched = "eax"
  /\ Says(<<"Signal handler returning\n">>, "sigtest.stored", my)
  /\ Plain
SigtestEnds ==
  /\ at = "sigtest.stored"
  /\ Exits(<<"Hello, ">> \o typed \o <<"success\n">>, 0)
  /\ Plain

\* Its own handler; signals are masked in the other one.
Alarm ==
  /\ at \in {"sigtest.read", "sigtest.stored"}
  /\ my.installed /\ my.alarms < MAX_ALARMS
  /\ Says(AlarmText, at, [my EXCEPT !.alarms = @ + 1])
  /\ Plain

-----------------------------------------------------------------------------
Init == ShellInit

ShellStep == ReadCommand \/ ExecuteFails \/ ExecuteRuns \/ Report \/ NewShell \/ CtrlC
SmallStep ==
  \/ CatStarts \/ CatReads \/ LsStarts \/ LsReads \/ Testprint
  \/ Asks("hello", Question) \/ HelloReads
NumberStep ==
  \/ Asks("counter", "Enter the Test Number: ") \/ CounterReads \/ CounterCounts
  \/ Asks("rtctest", "Enter the Test Number: ") \/ RtctestReads
  \/ RtctestSetsRate \/ RtctestCounts
  \/ PingpongStarts \/ PingpongSetsRate \/ PingpongMoves
SigtestStep == SigtestStarts \/ SigtestReads \/ SigtestReturns \/ SigtestEnds \/ Alarm

Next ==
  \/ ShellStep \/ SmallStep \/ NumberStep \/ SigtestStep
  \/ GrepStep \/ SyserrStep \/ SoundStep

Spec == Init /\ [][Next]_vars

-----------------------------------------------------------------------------
(* Properties *)

\* The command line as its user means it: a name, a space, the arguments
Word(text) == IF Spaces(text) = {} THEN text ELSE SubSeq(text, 1, Min(Spaces(text)) - 1)
Arguments(text) == SubSeq(text, Min(Spaces(text)) + 1, Len(text))
HasArguments == Spaces(line) # {}
File(name) == image[CHOOSE i \in DOMAIN image : image[i].name = name]
Exists(name) == \E i \in DOMAIN image : image[i].name = name

Counted(to, after) == FlattenSeq([i \in 1..to |-> itoa(i, 10) \o <<NL>> \o after])
Names == FlattenSeq([i \in DOMAIN image |-> image[i].name])
NameLines == FlattenSeq([i \in DOMAIN image |-> image[i].name \o <<NL>>])

\* The letter goes to the wall and back once, then it is the next one's turn.
Columns == SCREENWIDTH - 3
Column(k) == LET p == k % (2 * Columns) IN IF p < Columns THEN p ELSE 2 * Columns - 1 - p
Shown(k) ==
  <<" ", "|">> \o [c \in 1..Columns |->
                     IF c - 1 = Column(k) THEN Letters[((k \div (2 * Columns)) % Len(Letters)) + 1]
                     ELSE " "]
  \o <<"|", NL>> \o Tick
Bounces == FlattenSeq([k \in 1..(MAX_FRAMES + 1) |-> Shown(k - 1)])

\* What the program promises to print, and the status it ends with
CatPromises ==
  IF ~HasArguments THEN [text |-> <<"could not read arguments\n">>, status |-> 3]
  ELSE LET name == Arguments(line)
       IN  IF ~Exists(name) THEN [text |-> <<"file not found\n">>, status |-> 2]
           ELSE [text |-> CASE File(name).type = "dir"  -> Names
                            [] File(name).type = "file" -> File(name).data
                            [] OTHER -> <<>>,
                 status |-> 0]
CountPromises(rate, after) ==
  [text |-> <<"Enter the Test Number: ">> \o
              (IF WrongChoice(typed) THEN <<"Wrong Choice!\n">>
               ELSE rate \o Counted(Max_(typed), after)),
   status |-> 0]
SigtestPromises ==
  IF ~HasArguments THEN [text |-> <<"could not read argument\n">>, status |-> 3]
  ELSE IF SubSeq(Arguments(line), 1, 1) # <<"1">>
  THEN [text |-> <<Question>>, status |-> 256]
  ELSE [text |-> <<"Installing signal handlers\n", Question,
                   "Segfault signal handler called, signum: ", "1", NL,
                   "Press enter to continue...\n", "Signal handler returning\n", "Hello, ">>
                 \o typed \o <<"success\n">>,
        status |-> 0]

Promise ==
  CASE Word(line) = <<"cat">>  -> CatPromises
    [] Word(line) = <<"grep">> ->
         IF HasArguments THEN [text |-> GrepPromises(Arguments(line)), status |-> 0]
         ELSE [text |-> <<"could not read argument\n">>, status |-> 3]
    [] Word(line) = <<"ls">>    -> [text |-> NameLines, status |-> 0]
    [] Word(line) = <<"hello">> ->
         [text |-> <<Question, "Hello, ">> \o typed, status |-> 0]
    [] Word(line) = <<"testprint">> ->
         [text |-> <<"Hello, if this ran, the program was correct. Yay!\n">>, status |-> 0]
    [] Word(line) = <<"counter">> -> CountPromises(<<>>, <<>>)
    [] Word(line) = <<"rtctest">> ->
         CountPromises(IF RateOf(typed) = <<>> THEN <<>> ELSE Rate(RateOf(typed)[1]), Tick)
    [] Word(line) = <<"pingpong">> -> [text |-> Rate(32) \o Bounces, status |-> 15]
    [] Word(line) = <<"sigtest">> -> SigtestPromises
    [] Word(line) \in {<<"beep">>, <<"music">>} ->
         IF HasArguments THEN SoundPromises(Word(line)[1], WordsOf(Arguments(line)))
         ELSE [text |-> <<"could not read arguments\n">>, status |-> -1]
    [] Word(line) = <<"derefnull">> ->
         [text |-> <<"This program is going to dereference NULL!\n">>, status |-> 256]
    [] Word(line) = <<"divzero">> ->
         [text |-> <<"This program is going to dividing zero!\n">>, status |-> 256]
    [] OTHER -> [text |-> <<>>, status |-> -1]

\* Alarms may come in between, and NULs do not show.
OfAlarm(i) == \E j \in Max({1, i + 1 - Len(AlarmText)})..i :
                IsPrefix(AlarmText, SubSeq(out, j, Len(out)))
Visible == FlattenSeq([i \in DOMAIN out |->
                         IF out[i] = NUL \/ OfAlarm(i) THEN <<>> ELSE <<out[i]>>])

(***************************************************************************)
(* What a command prints is at every moment a part, from the front, of what *)
(* its line promises, and all of it when it ends by itself; the shell then  *)
(* says how it ended.  cat gives the file, ls the names, grep the lines     *)
(* with the pattern however the buffer cuts them, pingpong's letter stays   *)
(* between its walls, the arguments survive the way through the kernel      *)
(* stack (task.c:323), sigtest finds EAX where signal_asm.S puts it, and    *)
(* every note of a song gets a descriptor and ends in silence.              *)
(* Excepted is grep when it takes the byte behind a full buffer, which it   *)
(* never wrote, for a newline (ece391grep.c:33).                            *)
(***************************************************************************)
CommandsPrint ==
  (Word(line) # <<"syserr">> /\ ~unlucky) =>
    CASE at \in {"prompt", "halted"} ->
           \/ line \in {<<>>, <<"exit">>}
           \/ ~interrupted /\ Visible = Promise.text \o Message(Promise.status)
           \/ /\ interrupted /\ Last(Visible) = "program terminated abnormally\n"
              /\ IsPrefix(Front(Visible), Promise.text)
      [] at = "report" /\ ~interrupted ->
           Visible = Promise.text /\ my.rval = Promise.status
      [] OTHER -> IsPrefix(Visible, Promise.text)

(***************************************************************************)
(* The library does what its comments say: memmove moves "overlapping       *)
(* memory areas" (lib.c:457), memcpy and memset the same bytes whatever the *)
(* alignment they start from (lib.c:336, 418), strcpy copies the string and *)
(* nothing else, from any place of a command line to any place of the stack *)
(* too, the comparisons, each with its own loop, agree, and what itoa and   *)
(* printf print reads back as the number, negative and zero-padded ones     *)
(* included (lib.c:101-143, 260).  putc puts a text on the screen line by   *)
(* line, on every terminal its own (Screen.tla).                            *)
(***************************************************************************)
LibraryAgrees ==
  /\ MemoryAgrees /\ StringsAgree /\ NumbersAgree /\ ScreensAgree
  /\ at = "execute" =>
       LET m == KernelMemory(line)
       IN  \A p \in DOMAIN m, q \in STACK..(STACK + Len(line)) : CopyAgrees(m, p, q)
=============================================================================
