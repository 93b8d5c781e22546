-------------------------------- MODULE Screen --------------------------------
(***************************************************************************)
(* Printed text.  putc (lib.c) writes through one address and two global    *)
(* variables, the cursor, for all terminals.  terminal_set_running          *)
(* (terminal.c) makes them those of the running task's terminal, and, for   *)
(* an echo, for a moment those of the terminal with the focus.              *)
(*                                                                          *)
(* All gates of the IDT are interrupt gates (idt.c:53), and nothing between *)
(* them and putc turns interrupts on, whatever terminal.c:379 says of a     *)
(* missing lock: no write and no echo comes between the accesses of a putc. *)
(* So these are operators on a record m of what they change.                *)
(***************************************************************************)
EXTENDS Integers, Sequences, SequencesExt

CONSTANTS
  TERMINAL_TEXT_COLS, TERMINAL_TEXT_ROWS,
  Screens,       \* terminals, the null terminal that idle has among them
  PRINT_STEPS    \* bound: operations in a row that the property looks at

Blank    == "blank"    \* NUL or a space
Origin   == [x |-> 0, y |-> 0]
LastCell == TERMINAL_TEXT_COLS * TERMINAL_TEXT_ROWS - 1
Empty    == [i \in 0..LastCell |-> Blank]

\* screen_char points to the page of mapping; saved is in terminal_t.
BootScreens(running_term) ==
  [screen_x |-> 0, screen_y |-> 0, mapping |-> running_term,
   running_term |-> running_term,
   saved |-> [t \in Screens |-> Origin], text |-> [t \in Screens |-> Empty]]

-----------------------------------------------------------------------------
LineStart(m) == m.screen_y * TERMINAL_TEXT_COLS
Here(m)      == LineStart(m) + m.screen_x

scroll_up(m) ==
  [m EXCEPT !.text[m.mapping] =
              [i \in DOMAIN @ |-> IF i + TERMINAL_TEXT_COLS \in DOMAIN @
                                  THEN @[i + TERMINAL_TEXT_COLS] ELSE Blank],
            !.screen_x = 0, !.screen_y = TERMINAL_TEXT_ROWS - 1]

NewLine(m) ==
  LET next == [m EXCEPT !.screen_x = 0, !.screen_y = @ + 1]
  IN  IF next.screen_y = TERMINAL_TEXT_ROWS THEN scroll_up(next) ELSE next

BlankRest(m) ==
  IF m.screen_x >= TERMINAL_TEXT_COLS - 1 THEN m
  ELSE [m EXCEPT !.text[m.mapping] =
          [i \in DOMAIN @ |-> IF i \in Here(m)..(LineStart(m) + TERMINAL_TEXT_COLS - 1)
                              THEN Blank ELSE @[i]]]

Backspace(m) ==
  LET back == IF m.screen_x # 0 THEN [m EXCEPT !.screen_x = @ - 1]
              ELSE [m EXCEPT !.screen_x = TERMINAL_TEXT_COLS - 1, !.screen_y = @ - 1]
  IN  IF Here(m) = 0 THEN m ELSE [back EXCEPT !.text[m.mapping][Here(back)] = Blank]

Character(m, c) ==
  LET next == [m EXCEPT !.text[m.mapping][Here(m)] = c, !.screen_x = @ + 1]
  IN  IF next.screen_x = TERMINAL_TEXT_COLS THEN NewLine(next) ELSE next

putc(m, c) == CASE c = "newline"   -> NewLine(BlankRest(m))
                [] c = "backspace" -> Backspace(m)
                [] OTHER           -> Character(m, c)

\* What is saved of a terminal is out of date while it runs.
terminal_set_running(m, term) ==
  IF m.running_term = term THEN m
  ELSE [m EXCEPT !.saved[m.running_term] = [x |-> m.screen_x, y |-> m.screen_y],
                 !.screen_x = m.saved[term].x, !.screen_y = m.saved[term].y,
                 !.running_term = term, !.mapping = term]

\* One character of the running program's write, which holds off all others
WriteChar(m, c) == putc(m, c)

\* keyboard_interrupt_handler: the echo goes to the terminal with the focus
Echo(m, focus, c) ==
  terminal_set_running(putc(terminal_set_running(m, focus), c), m.running_term)

\* clear() and reset_cursor(), on the running terminal
Cleared_(m) == [m EXCEPT !.text[m.mapping] = Empty, !.screen_x = 0, !.screen_y = 0]

\* Ctrl+L, with the first character of the prompt
ClearKey(m, focus, c) ==
  terminal_set_running(putc(Cleared_(terminal_set_running(m, focus)), c), m.running_term)

\* A shell in a new terminal, with the first character of the banner
terminal_allocate(m, term) == [m EXCEPT !.saved[term] = Origin]
OpenTerminal(m, term, c) ==
  putc(Cleared_(terminal_set_running(terminal_allocate(m, term), term)), c)

-----------------------------------------------------------------------------
(***************************************************************************)
(* What a user expects: text goes on from line to line, and when the cursor *)
(* leaves the last line, the first one is given up.  The cells before the   *)
(* cursor, in a row:                                                        *)
(***************************************************************************)
Scrolled(w) ==
  IF Len(w) > LastCell THEN SubSeq(w, TERMINAL_TEXT_COLS + 1, Len(w)) ELSE w

Printed(w, c) ==
  CASE c = "newline" ->
         Scrolled(w \o [k \in 1..(TERMINAL_TEXT_COLS - (Len(w) % TERMINAL_TEXT_COLS))
                          |-> Blank])
    [] c = "backspace" -> IF w = <<>> THEN w ELSE Front(w)
    [] OTHER -> Scrolled(Append(w, c))

Shows(m, want) ==
  \A t \in Screens :
    LET cursor == IF m.running_term = t THEN Here(m)
                  ELSE m.saved[t].y * TERMINAL_TEXT_COLS + m.saved[t].x
    IN  /\ cursor = Len(want[t])
        /\ m.text[t] = [i \in 0..LastCell |->
                          IF i < Len(want[t]) THEN want[t][i + 1] ELSE Blank]

Outcomes(s) ==
  LET to(m, t, text) == [m |-> m, want |-> [s.want EXCEPT ![t] = text]]
      run == s.m.running_term
  IN  UNION {UNION {{to(WriteChar(s.m, c), run, Printed(s.want[run], c)),
                     to(Echo(s.m, t, c), t, Printed(s.want[t], c))}
                      : c \in {"a", "newline", "backspace"}}
             \cup {to(terminal_set_running(s.m, t), t, s.want[t]),
                   to(ClearKey(s.m, t, "a"), t, <<"a">>),
                   to(OpenTerminal(s.m, t, "a"), t, <<"a">>)}
               : t \in Screens}

Booted == {[m |-> BootScreens(t), want |-> [u \in Screens |-> <<>>]] : t \in Screens}
Printing ==
  LET more(reached, step) ==
        LET new == UNION {Outcomes(s) : s \in reached.last} \ reached.all
        IN  [all |-> reached.all \cup new, last |-> new]
  IN  FoldLeft(more, [all |-> Booted, last |-> Booted],
               [step \in 1..PRINT_STEPS |-> step]).all

\* Every terminal shows what was printed on it, by its programs and by the keyboard,
\* and printing goes on where it ended, although one cursor and one address serve
\* all terminals and are exchanged at every switch and twice around an echo.
ScreensAgree == \A s \in Printing : Shows(s.m, s.want)
=============================================================================
