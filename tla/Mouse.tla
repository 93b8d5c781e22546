-------------------------------- MODULE Mouse --------------------------------
(***************************************************************************)
(* The mouse handler (mouse.c) and the windows it moves (gui_window.c):     *)
(* hit tests, dragging, and what becomes of a packet whose handling is cut  *)
(* in two because it starts a shell, or is lost because it ends the program *)
(* that was interrupted.                                                    *)
(*                                                                          *)
(* The user sends any packets.  Those that the handler refuses (overflow,   *)
(* not aligned, an ACK) change nothing.  Tasks, terminals and focus are in  *)
(* Kernel.tla: which program was interrupted, and whether a window closes   *)
(* with its program, is open here.                                          *)
(***************************************************************************)
EXTENDS Integers, Sequences, SequencesExt, FiniteSets

CONSTANTS
  VGA_WIDTH, VGA_HEIGHT,
  CURSOR,                    \* CURSOR_WIDTH and CURSOR_HEIGHT
  TERMINAL_WIDTH, TERMINAL_HEIGHT,                       \* in pixels
  LEFT_RIGHT_MARGIN, TITLE_BAR_HEIGHT, DOWN_MARGIN,      \* GUI_WIN_...
  INITIAL_X, INITIAL_Y, OFFSET_X, OFFSET_Y,              \* GUI_WIN_INITIAL_...
  RED, YELLOW, GREEN,        \* the buttons: [left, up, width, height]
  STATUS_BAR_HEIGHT, TERMINAL_B_X, TERMINAL_B_WIDTH,
  START,                     \* where the cursor is at first
  GUI_MAX_WINDOW_NUM,        \* also the number of terminals
  Moves,                     \* movements in a packet: [dx, dy], dy upwards
  MAX_SUSPENDED              \* bound: handlers that wait to go on

Window == 1..GUI_MAX_WINDOW_NUM
NoWindow == 0

MaxX == VGA_WIDTH - 1 - CURSOR
MaxY == VGA_HEIGHT - 1 - CURSOR

is_valid_position(x, y) ==
  /\ x - LEFT_RIGHT_MARGIN >= 0
  /\ x + TERMINAL_WIDTH + LEFT_RIGHT_MARGIN <= VGA_WIDTH
  /\ y - TITLE_BAR_HEIGHT >= 0
  /\ y + TERMINAL_HEIGHT + DOWN_MARGIN <= VGA_HEIGHT

Buttons == {RED, YELLOW, GREEN}

(***************************************************************************)
(* What holds of the numbers in mouse.c, gui_window.h and gui_render.h:     *)
(* new windows fit the screen, a window is larger than the cursor, and the  *)
(* buttons are far from the right end of the title bar.                     *)
(***************************************************************************)
ASSUME SizesAssumption ==
  /\ {VGA_WIDTH, VGA_HEIGHT, CURSOR, TERMINAL_WIDTH, TERMINAL_HEIGHT,
      LEFT_RIGHT_MARGIN, TITLE_BAR_HEIGHT, DOWN_MARGIN, INITIAL_X, INITIAL_Y,
      OFFSET_X, OFFSET_Y, GUI_MAX_WINDOW_NUM, MAX_SUSPENDED} \subseteq Nat
  /\ {STATUS_BAR_HEIGHT, TERMINAL_B_X, TERMINAL_B_WIDTH} \subseteq Nat
  /\ Buttons \subseteq [left : Nat, up : Nat, width : Nat, height : Nat]
  /\ Moves \subseteq [dx : Int, dy : Int]
ASSUME LayoutAssumption ==
  /\ \A idx \in 0..(GUI_MAX_WINDOW_NUM - 1) :
       is_valid_position(INITIAL_X + OFFSET_X * idx, INITIAL_Y + OFFSET_Y * idx)
  /\ START \in [x : 0..MaxX, y : 0..MaxY]
  /\ CURSOR < TERMINAL_WIDTH /\ CURSOR < TERMINAL_HEIGHT
  /\ \A b \in Buttons :
       b.left + b.width < TERMINAL_WIDTH + LEFT_RIGHT_MARGIN - CURSOR

VARIABLES
  mouse,                   \* mouse_x and mouse_y
  last_left,               \* the left button in last_flags
  mouse_pressed_on_title,
  gui_term_button_pressed,
  window_stack,            \* top window first
  term,                    \* term_x and term_y of every window
  suspended,               \* movements of handlers that are to go on
  grip                     \* history: the window that was taken by its title

guiVars == <<mouse_pressed_on_title, gui_term_button_pressed, window_stack>>
vars == <<mouse, last_left, guiVars, term, suspended, grip>>

Opened == ToSet(window_stack)

-----------------------------------------------------------------------------
(***************************************************************************)
(* Where a point of the screen is.                                          *)
(***************************************************************************)
InButton(p, t, b) ==
  /\ p.x >= t.x + b.left /\ p.x < t.x + b.left + b.width
  /\ p.y >= t.y - b.up   /\ p.y < t.y - b.up + b.height

OutsideWindow(p, t) ==
  \/ p.x < t.x - LEFT_RIGHT_MARGIN
  \/ p.x >= t.x + TERMINAL_WIDTH + LEFT_RIGHT_MARGIN
  \/ p.y < t.y - TITLE_BAR_HEIGHT
  \/ p.y >= t.y + TERMINAL_HEIGHT + DOWN_MARGIN

\* check_inside_window, as far as it matters to the callers
check_inside_window(p, t) ==
  CASE OutsideWindow(p, t) -> "NOT_IN_WINDOW"
    [] ~OutsideWindow(p, t) /\ p.y >= t.y -> "IN_BODY"     \* or on the border
    [] ~OutsideWindow(p, t) /\ p.y < t.y /\ InButton(p, t, RED) -> "IN_RED_BUTTON"
    [] ~OutsideWindow(p, t) /\ p.y < t.y /\ ~InButton(p, t, RED)
         /\ (InButton(p, t, YELLOW) \/ InButton(p, t, GREEN)) -> "IN_OTHER_BUTTON"
    [] OTHER -> "IN_TITLE_BAR"

Under(w) == check_inside_window(mouse, term[w])

OnTerminalButton ==
  /\ mouse.y < STATUS_BAR_HEIGHT
  /\ mouse.x \in TERMINAL_B_X..(TERMINAL_B_X + TERMINAL_B_WIDTH - 1)

-----------------------------------------------------------------------------
(***************************************************************************)
(* gui_handle_mouse_press                                                   *)
(***************************************************************************)
Hits == {k \in DOMAIN window_stack : Under(window_stack[k]) # "NOT_IN_WINDOW"}

PressOutside ==
  /\ Hits = {}
  /\ gui_term_button_pressed' = (gui_term_button_pressed \/ OnTerminalButton)
  /\ UNCHANGED <<mouse_pressed_on_title, window_stack, grip>>

\* Slip: its old place is not taken by the windows above it.
PressInsideTwice ==
  \E k \in Hits :
    LET w == window_stack[k]
    IN  /\ \A h \in Hits : k <= h
        /\ window_stack' = <<w>> \o window_stack
        /\ IF Under(w) = "IN_TITLE_BAR"
           THEN mouse_pressed_on_title' = TRUE /\ grip' = w
           ELSE UNCHANGED <<mouse_pressed_on_title, grip>>
        /\ UNCHANGED gui_term_button_pressed

\* The topmost window under the cursor comes to the top.
PressInside ==
  \E k \in Hits :
    LET w == window_stack[k]
    IN  /\ \A h \in Hits : k <= h
        /\ window_stack' = <<w>> \o RemoveAt(window_stack, k)
        /\ IF Under(w) = "IN_TITLE_BAR"
           THEN mouse_pressed_on_title' = TRUE /\ grip' = w
           ELSE UNCHANGED <<mouse_pressed_on_title, grip>>
        /\ UNCHANGED gui_term_button_pressed

gui_handle_mouse_press == PressOutside \/ PressInside

-----------------------------------------------------------------------------
(***************************************************************************)
(* The end of the handler: the movement, with the top window if its title   *)
(* is held, and last_flags.                                                 *)
(***************************************************************************)
Shifted(t, dx, dy) == [x |-> t.x + dx, y |-> t.y + dy]

Clamped(n, max) == IF n < 0 THEN 0 ELSE IF n > max THEN max ELSE n

MoveCursor(dx, dy) ==
  mouse' = [x |-> Clamped(mouse.x + dx, MaxX), y |-> Clamped(mouse.y + dy, MaxY)]

Drags == mouse_pressed_on_title' /\ window_stack' # <<>>

\* Slip: the window stops at the edge of the screen, the cursor goes on.
CursorGoesOn(dx, dy) ==
  IF ~Drags THEN MoveCursor(dx, dy) /\ UNCHANGED term
  ELSE LET w == window_stack'[1]
           t == Shifted(term[w], dx, dy)
       IN  /\ term' = IF is_valid_position(t.x, t.y)
                      THEN [term EXCEPT ![w] = t] ELSE term
           /\ MoveCursor(dx, dy)

\* Slip: the window moves before its place is checked.
WindowMovesFirst(dx, dy) ==
  IF ~Drags THEN MoveCursor(dx, dy) /\ UNCHANGED term
  ELSE LET w == window_stack'[1]
           t == Shifted(term[w], dx, dy)
       IN  /\ term' = [term EXCEPT ![w] = t]
           /\ IF is_valid_position(t.x, t.y) THEN MoveCursor(dx, dy)
              ELSE UNCHANGED mouse

\* gui_handle_mouse_move and the lines behind it
MoveAll(dx, dy) ==
  IF ~Drags THEN MoveCursor(dx, dy) /\ UNCHANGED term
  ELSE LET w == window_stack'[1]
           t == Shifted(term[w], dx, dy)
       IN  IF is_valid_position(t.x, t.y)
           THEN term' = [term EXCEPT ![w] = t] /\ MoveCursor(dx, dy)
           ELSE UNCHANGED <<term, mouse>>

Finish(left, m) ==
  /\ MoveAll(m.dx, -m.dy)
  /\ last_left' = left

-----------------------------------------------------------------------------
(***************************************************************************)
(* mouse_interrupt_handler, for a packet with movement m.                   *)
(***************************************************************************)

\* The button is as it was.
Move(m) ==
  /\ UNCHANGED <<guiVars, suspended, grip>>
  /\ Finish(last_left, m)

Press(m) ==
  /\ ~last_left
  /\ gui_handle_mouse_press
  /\ Finish(TRUE, m)
  /\ UNCHANGED suspended

\* gui_handle_mouse_release, to which all that follow belong
Release ==
  /\ last_left
  /\ mouse_pressed_on_title' = FALSE
  /\ grip' = NoWindow

OnRed == window_stack # <<>> /\ Under(window_stack[1]) = "IN_RED_BUTTON"

\* gui_destroy_window for the window at place k
Without(k) == RemoveAt(window_stack, k)

\* task_halt_terminal ends the innermost program of the top window, with the
\* window if that is the shell.
TopMayClose ==
  window_stack' \in {window_stack, Without(1)}

\* It is not the program that was interrupted: the handler goes on.  It may
\* be one that was, by an earlier packet.
CloseOther(m) ==
  /\ Release /\ OnRed
  /\ TopMayClose
  /\ \/ UNCHANGED suspended
     \/ \E k \in DOMAIN suspended : suspended' = RemoveAt(suspended, k)
  /\ Finish(FALSE, m)
  /\ UNCHANGED gui_term_button_pressed

\* It is: system_halt does not return, and last_flags is not stored.
CloseInterrupted ==
  /\ Release /\ OnRed
  /\ TopMayClose
  /\ UNCHANGED <<gui_term_button_pressed, suspended, mouse, term, last_left>>

Lowest(S) == CHOOSE w \in S : \A v \in S : w <= v

\* system_execute: the new window is shifted by the number of windows and
\* gets to the top; the handler waits until the interrupted task is launched.
OpenShell(m) ==
  /\ Release /\ ~OnRed /\ OnTerminalButton
  /\ gui_term_button_pressed' = FALSE
  /\ Len(suspended) < MAX_SUSPENDED
  /\ Opened # Window                            \* terminal_allocate
  /\ Len(window_stack) < GUI_MAX_WINDOW_NUM      \* gui_new_window
  /\ LET w   == Lowest(Window \ Opened)
         idx == Len(window_stack)
     IN  /\ window_stack' = <<w>> \o window_stack
         /\ term' = [term EXCEPT ![w] = [x |-> INITIAL_X + OFFSET_X * idx,
                                         y |-> INITIAL_Y + OFFSET_Y * idx]]
  /\ suspended' = Append(suspended, m)
  /\ UNCHANGED <<mouse, last_left>>

\* Nothing is there, or system_execute fails, for which there are many reasons.
ReleaseElsewhere(m) ==
  /\ Release /\ ~OnRed
  /\ gui_term_button_pressed' = FALSE
  /\ UNCHANGED <<window_stack, suspended>>
  /\ Finish(FALSE, m)

\* A task that a packet had interrupted is launched again: its shell has been
\* started by a release.
GoOn(k) ==
  /\ suspended' = RemoveAt(suspended, k)
  /\ UNCHANGED <<guiVars, grip>>
  /\ Finish(FALSE, suspended[k])

\* The shell of the window at place k halts, whatever the mouse does.
ShellHalts(k) ==
  /\ window_stack' = Without(k)
  /\ grip' = IF grip = window_stack[k] THEN NoWindow ELSE grip
  /\ UNCHANGED <<mouse, last_left, mouse_pressed_on_title,
                 gui_term_button_pressed, term, suspended>>

-----------------------------------------------------------------------------
Init ==
  /\ mouse = START
  /\ last_left = FALSE
  /\ mouse_pressed_on_title = FALSE
  /\ gui_term_button_pressed = FALSE
  /\ window_stack = <<>>
  /\ term = [w \in Window |-> [x |-> 0, y |-> 0]]
  /\ suspended = <<>>
  /\ grip = NoWindow

mouse_interrupt_handler(m) ==
  Move(m) \/ Press(m) \/ CloseOther(m) \/ CloseInterrupted
          \/ OpenShell(m) \/ ReleaseElsewhere(m)

Next ==
  \/ \E m \in Moves : mouse_interrupt_handler(m)
  \/ \E k \in DOMAIN suspended : GoOn(k)
  \/ \E k \in DOMAIN window_stack : ShellHalts(k)

Spec == Init /\ [][Next]_vars

-----------------------------------------------------------------------------
(* Properties *)

\* Types; every window is in the stack at most once.
MouseTypeOK ==
  /\ mouse \in [x : Int, y : Int]
  /\ {last_left, mouse_pressed_on_title, gui_term_button_pressed} \subseteq BOOLEAN
  /\ window_stack \in Seq(Window) /\ IsInjective(window_stack)
  /\ term \in [Window -> [x : Int, y : Int]]
  /\ suspended \in Seq(Moves) /\ Len(suspended) <= MAX_SUSPENDED
  /\ grip \in Window \cup {NoWindow}

(***************************************************************************)
(* "When user try to drag a window out of screen, it's invalid"             *)
(* (gui_window.c:238): however windows are opened, dragged and closed, all  *)
(* of a window and the cursor stay on the screen.                           *)
(***************************************************************************)
WindowsOnScreen ==
  /\ mouse.x \in 0..MaxX /\ mouse.y \in 0..MaxY
  /\ \A w \in Opened : is_valid_position(term[w].x, term[w].y)

(***************************************************************************)
(* While a window is dragged, the cursor stays on its title bar, although   *)
(* the two are stopped by different edges ("cancel the movement",           *)
(* mouse.c:172): as long as it is there the drag does not slip to another   *)
(* window, and letting go never presses the window's close button.          *)
(***************************************************************************)
GripHolds ==
  grip # NoWindow =>
    /\ mouse_pressed_on_title
    /\ window_stack # <<>> /\ window_stack[1] = grip
    /\ Under(grip) = "IN_TITLE_BAR"
=============================================================================
