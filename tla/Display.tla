------------------------------- MODULE Display -------------------------------
(***************************************************************************)
(* gui_render (gui/gui_render.c): every few PIT ticks, with interrupts off, *)
(* a frame is drawn into the half of video memory that is not shown, and    *)
(* then shown.  The desktop goes there through the 64 kB bank (vga/vga.c),  *)
(* everything else is copied from objects drawn at boot (gui/gui_objs.c) by *)
(* the BitBLT engine, which goes on while the processor does (vga_accel.c). *)
(*                                                                          *)
(* A pixel is the place it was copied from; addresses count pixels.  Of the *)
(* frames before, only which half they are in is kept.  Texts do not change *)
(* during a frame, and how windows come to their places is in Mouse.tla.    *)
(***************************************************************************)
EXTENDS Integers, Sequences, SequencesExt

CONSTANTS
  VGA_WIDTH, VGA_HEIGHT,
  PAGE_ROWS,                    \* screen lines in a bank (64 kB: 32)
  START_LOW,                    \* addresses that CR0C, CR0D and the ATC can tell
  FONT_WIDTH, FONT_HEIGHT, FONT_HALF,                 \* 8, 16; 128 characters
  TERMINAL_TEXT_COLS, TERMINAL_TEXT_ROWS,             \* 80, 30
  LEFT_RIGHT_MARGIN, TITLE_BAR_HEIGHT, DOWN_MARGIN,   \* 6, 21, 4
  RED, YELLOW, GREEN,           \* buttons: [left, up, width, height]
  GREY,                         \* size of the grey one
  TERMINAL_B,                   \* the terminal button: [x, y, width, height]
  CLOCK,                        \* CLOCK_START_X and CLOCK_START_Y
  GUI_MAX_WINDOW_NUM,
  Positions,                    \* where windows are: sets of term_x and term_y
  time                          \* the characters of the clock

VARIABLES
  window_stack,                 \* positions of the windows, top window first
  gui_term_button_pressed,
  running_term,                 \* the running task's terminal
  mapping,                      \* what the first 4 MB show (vidmem.c)
  curr_y,                       \* first line of the half drawn last
  curr_page, bank,              \* vga.c's idea of the bank, and the register
  engine,                       \* the copy that the BitBLT engine is making
  start,                        \* display start address: [low, high]
  vram,                         \* both halves, and one line of objects
  pc, next                      \* where gui_render is; its loop variable

frameVars == <<window_stack, gui_term_button_pressed, running_term>>
pageVars  == <<curr_page, bank>>
vars == <<frameVars, mapping, curr_y, pageVars, engine, start, vram, pc, next>>

NULL == 0
TERMINAL_WIDTH_PIXEL  == TERMINAL_TEXT_COLS * FONT_WIDTH
TERMINAL_HEIGHT_PIXEL == TERMINAL_TEXT_ROWS * FONT_HEIGHT

(***************************************************************************)
(* A half is whole banks and whole steps of the upper start registers; a    *)
(* title bar is hardly lower than a character; the things of the status bar *)
(* are on the screen, the ASCII digits of the clock right of the button;    *)
(* those of a window are inside its borders, and windows are where the      *)
(* mouse leaves them: is_valid_position (WindowsOnScreen of Mouse.tla).     *)
(***************************************************************************)
ASSUME SizesAssumption ==
  /\ {VGA_WIDTH, VGA_HEIGHT, PAGE_ROWS, START_LOW, FONT_WIDTH, FONT_HEIGHT, FONT_HALF,
      TERMINAL_TEXT_COLS, TERMINAL_TEXT_ROWS} \subseteq Nat \ {0}
  /\ {LEFT_RIGHT_MARGIN, TITLE_BAR_HEIGHT, DOWN_MARGIN, GUI_MAX_WINDOW_NUM} \subseteq Nat
  /\ FONT_HEIGHT <= TITLE_BAR_HEIGHT + 1
  /\ VGA_HEIGHT % PAGE_ROWS = 0 /\ (VGA_WIDTH * VGA_HEIGHT) % START_LOW = 0

ASSUME PlacesAssumption ==
  /\ TERMINAL_B \in [x : Nat, y : Nat, width : Nat, height : Nat]
  /\ TERMINAL_B.x + TERMINAL_B.width <= VGA_WIDTH
  /\ TERMINAL_B.y + TERMINAL_B.height <= VGA_HEIGHT
  /\ CLOCK \in [x : Nat, y : Nat] /\ time \in Seq(0..(FONT_HALF - 1))
  /\ CLOCK.x + FONT_WIDTH * Len(time) <= VGA_WIDTH /\ CLOCK.y + FONT_HEIGHT <= VGA_HEIGHT
  /\ TERMINAL_B.x + TERMINAL_B.width <= CLOCK.x
  /\ GREY \in [width : Nat, height : Nat]
  /\ {RED, YELLOW, GREEN} \subseteq [left : Nat, up : Nat, width : Nat, height : Nat]
  /\ \A b \in {RED, YELLOW, GREEN}, size \in {RED, GREY} :
       /\ b.left + size.width <= TERMINAL_WIDTH_PIXEL + LEFT_RIGHT_MARGIN
       /\ b.up <= TITLE_BAR_HEIGHT /\ size.height <= b.up
  /\ Positions.x \subseteq
       LEFT_RIGHT_MARGIN..(VGA_WIDTH - TERMINAL_WIDTH_PIXEL - LEFT_RIGHT_MARGIN)
  /\ Positions.y \subseteq
       TITLE_BAR_HEIGHT..(VGA_HEIGHT - TERMINAL_HEIGHT_PIXEL - DOWN_MARGIN)

Screen  == VGA_WIDTH * VGA_HEIGHT
Address == 0..(2 * Screen + VGA_WIDTH - 1)

-----------------------------------------------------------------------------
(***************************************************************************)
(* Objects and the engine.                                                  *)
(***************************************************************************)
Object(name, w, h) == [name |-> name, width |-> w, height |-> h]

\* int / int, and int & 0x7F, of a char: which is signed
Truncated(a, b) == IF a >= 0 THEN a \div b ELSE -((-a) \div b)
Char(byte) == IF byte < FONT_HALF THEN byte ELSE byte - 2 * FONT_HALF

\* init_font_obj puts the glyph of a byte into this row and column
GlyphOf(byte) == <<"font", byte % FONT_HALF, byte \div FONT_HALF>>

gui_get_obj_font(byte) ==
  Object(<<"font", byte % FONT_HALF, Truncated(Char(byte), FONT_HALF)>>,
         FONT_WIDTH, FONT_HEIGHT)

(***************************************************************************)
(* Where gui_obj_load draws the objects, from the line after both halves to *)
(* the end of the 4 MB.  No two meet, and none meets the cursor's pattern,  *)
(* at byte 4177920 (the red button is drawn twice, to one place).  So a     *)
(* name can say which object a pixel was copied from.                       *)
(***************************************************************************)
Layout ==
  LET At(x, y, w, h) == [x |-> x, y |-> 2 * 768 + y, width |-> w, height |-> h]
  IN  {At(8 * (ch % 128), 16 * (ch \div 128), 8, 16) : ch \in 0..255}    \* font
      \cup {At(0, 32, 652, 21), At(0, 57, 652, 4)}               \* up, down
      \cup {At(1008, 32, 6, 480), At(1016, 32, 6, 480)}          \* left, right
      \cup {At(656, 32, 11, 12), At(672, 32, 12, 12), At(688, 32, 11, 12),
            At(672, 48, 12, 12), At(688, 48, 11, 12)}            \* red, yellow, green
      \cup {At(656, 48, 12, 12)}                                 \* grey
      \cup {At(704, 32, 22, 20), At(736, 32, 22, 20)}            \* terminal
      \cup {At(0, 504, 128, 1)}                                  \* the cursor

Apart(a, b) == \/ a.x + a.width <= b.x \/ b.x + b.width <= a.x
               \/ a.y + a.height <= b.y \/ b.y + b.height <= a.y

ASSUME LayoutAssumption ==
  \A a \in Layout : /\ a.x + a.width <= 1024 /\ a.y + a.height <= 2048
                     /\ \A b \in Layout \ {a} : Apart(a, b)

win_up    == Object(<<"up">>, TERMINAL_WIDTH_PIXEL + 2 * LEFT_RIGHT_MARGIN,
                    TITLE_BAR_HEIGHT)
win_down  == Object(<<"down">>, TERMINAL_WIDTH_PIXEL + 2 * LEFT_RIGHT_MARGIN,
                    DOWN_MARGIN)
win_left  == Object(<<"left">>, LEFT_RIGHT_MARGIN, TERMINAL_HEIGHT_PIXEL)
win_right == Object(<<"right">>, LEFT_RIGHT_MARGIN, TERMINAL_HEIGHT_PIXEL)
red       == Object(<<"red">>, RED.width, RED.height)
grey      == Object(<<"grey">>, GREY.width, GREY.height)
terminal_button(pressed) ==
  Object(<<"terminal", pressed>>, TERMINAL_B.width, TERMINAL_B.height)

\* Slip: the half of the screen is forgotten.
draw_object_at_top(obj, x, y) == [obj |-> obj, at |-> y * VGA_WIDTH + x]

\* draw_object: the copy it asks the engine for
draw_object(obj, x, y) ==
  [obj |-> obj, at |-> (y + curr_y) * VGA_WIDTH + x]

Idle == [obj |-> Object(<<"none">>, 0, 0), at |-> 0]

\* what one copy leaves behind, line by line
Copied(mem, op) ==
  [a \in Address |->
     LET dy == (a - op.at) \div VGA_WIDTH
         dx == (a - op.at) % VGA_WIDTH
     IN  IF a >= op.at /\ dy < op.obj.height /\ dx < op.obj.width
         THEN <<op.obj.name, dx, dy>> ELSE mem[a]]

(***************************************************************************)
(* vga_screen_copy for one copy after the other: each waits for the one     *)
(* before, the last is left to the engine.                                  *)
(***************************************************************************)
AllCopied(mem, ops) ==
  LET after[n \in 0..Len(ops)] == IF n = 0 THEN mem ELSE Copied(after[n - 1], ops[n])
  IN  after[Len(ops)]

vga_screen_copy(ops) ==
  /\ engine = Idle
  /\ IF ops = <<>> THEN UNCHANGED <<engine, vram>>
     ELSE /\ engine' = Last(ops)
          /\ vram' = AllCopied(vram, Front(ops))

EngineFinishes ==
  /\ engine # Idle
  /\ vram' = Copied(vram, engine)
  /\ engine' = Idle
  /\ UNCHANGED <<frameVars, mapping, curr_y, pageVars, start, pc, next>>

-----------------------------------------------------------------------------
(***************************************************************************)
(* The desktop, through the bank.                                           *)
(***************************************************************************)

\* vga_set_page; cirrus_setpage_64k
vga_set_page(page, state) ==
  IF page = state.curr_page THEN state
  ELSE [state EXCEPT !.curr_page = page, !.bank = page]

PageSize == PAGE_ROWS * VGA_WIDTH

DesktopPage(state, page) ==
  LET s == vga_set_page(page + (curr_y \div PAGE_ROWS), state)
  IN  [s EXCEPT !.vram =
         [a \in Address |->
            IF a \div PageSize = s.bank
            THEN LET p == page * PageSize + (a % PageSize)
                 IN  <<<<"desktop">>, p % VGA_WIDTH, p \div VGA_WIDTH>>
            ELSE @[a]]]

render_desktop ==
  /\ pc = "desktop" /\ pc' = "button"
  /\ mapping = NULL
  /\ LET pages == VGA_HEIGHT \div PAGE_ROWS
         after[n \in 0..pages] ==
           IF n = 0 THEN [vram |-> vram, curr_page |-> curr_page, bank |-> bank]
           ELSE DesktopPage(after[n - 1], n - 1)
         s == after[pages]
     IN  vram' = s.vram /\ curr_page' = s.curr_page /\ bank' = s.bank
  /\ UNCHANGED <<frameVars, mapping, curr_y, engine, start, next>>

-----------------------------------------------------------------------------
(***************************************************************************)
(* The status bar.                                                          *)
(***************************************************************************)
Draw(from, to, ops) ==
  /\ pc = from /\ pc' = to
  /\ vga_screen_copy(ops)
  /\ UNCHANGED <<frameVars, mapping, curr_y, pageVars, start>>

render_term_button ==
  /\ Draw("button", "clock",
          <<draw_object(terminal_button(gui_term_button_pressed),
                        TERMINAL_B.x, TERMINAL_B.y)>>)
  /\ UNCHANGED next

print_char(byte, x, y) == draw_object(gui_get_obj_font(byte), x, y)

render_clock ==
  /\ Draw("clock", "grid",
          [k \in DOMAIN time |->
             print_char(time[k], CLOCK.x + FONT_WIDTH * (k - 1), CLOCK.y)])
  /\ UNCHANGED next

-----------------------------------------------------------------------------
(***************************************************************************)
(* The windows.                                                             *)
(***************************************************************************)

\* what window number w has at a row and a column of its text buffer
Text(w, row, col) ==
  (3 * w + row * TERMINAL_TEXT_COLS + col) % FONT_HALF

\* check_inside_window = IN_BODY
InBody(x, y, win) ==
  /\ x >= win.x /\ x < win.x + TERMINAL_WIDTH_PIXEL
  /\ y >= win.y /\ y < win.y + TERMINAL_HEIGHT_PIXEL

\* find_visible_win_on: the index of the window, or NULL
find_visible_win_on(x, y) ==
  LET hits == {w \in DOMAIN window_stack : InBody(x, y, window_stack[w])}
  IN  IF hits = {} THEN NULL ELSE CHOOSE w \in hits : \A h \in hits : w <= h

swap(arr, i, j) == [arr EXCEPT ![i] = arr[j], ![j] = arr[i]]

partition(arr, low, high) ==
  LET after[j \in (low - 1)..(high - 1)] ==
        IF j = low - 1 THEN [i |-> low - 1, arr |-> arr]
        ELSE LET s == after[j - 1]
             IN  IF s.arr[j] < arr[high]
                 THEN [i |-> s.i + 1, arr |-> swap(s.arr, s.i + 1, j)] ELSE s
      end == after[high - 1]
  IN  [at |-> end.i + 1, arr |-> swap(end.arr, end.i + 1, high)]

\* an array of so many numbers, and the part of it that a call is to sort
Slice(size) == [arr : [1..size -> Int], low : 1..(size + 1), high : 0..size]

Part(arr, low, high) == [arr |-> arr, low |-> low, high |-> high]

quick_sort(arr) ==
  LET sort[s \in Slice(Len(arr))] ==
        IF s.low < s.high
        THEN LET p == partition(s.arr, s.low, s.high)
             IN  sort[Part(sort[Part(p.arr, s.low, p.at - 1)], p.at + 1, s.high)]
        ELSE s.arr
  IN  sort[Part(arr, 1, Len(arr))]

\* grid lines of one axis: the screen's edges and those of every body
Lines(extent, size, at) ==
  quick_sort(<<0, extent>> \o [k \in 1..(2 * Len(at)) |->
                                 IF k % 2 = 1 THEN at[(k + 1) \div 2]
                                              ELSE at[k \div 2] + size])

grid_x == Lines(VGA_WIDTH, TERMINAL_WIDTH_PIXEL,
                [w \in DOMAIN window_stack |-> window_stack[w].x])
grid_y == Lines(VGA_HEIGHT, TERMINAL_HEIGHT_PIXEL,
                [w \in DOMAIN window_stack |-> window_stack[w].y])

ceil_div(x, y) == (x + y - 1) \div y

(***************************************************************************)
(* draw_terminal_content: whole characters, the buffer's lines in turn.     *)
(***************************************************************************)
draw_terminal_content(w, start_x, start_y, cols, rows) ==
  [k \in 1..(cols * rows) |->
     LET x == start_x + ((k - 1) % cols)
         y == start_y + ((k - 1) \div cols)
     IN  print_char(Text(w, y, x), window_stack[w].x + x * FONT_WIDTH,
                                   window_stack[w].y + y * FONT_HEIGHT)]

\* Slip: a partly visible last column is left out.
CellRoundedDown(w, gx, gy, idx, idy) ==
  LET win == window_stack[w]
  IN  draw_terminal_content(w, (gx[idx] - win.x) \div FONT_WIDTH,
                               (gy[idy] - win.y) \div FONT_HEIGHT,
                               (gx[idx + 1] - gx[idx]) \div FONT_WIDTH,
                               ceil_div(gy[idy + 1] - gy[idy], FONT_HEIGHT))

\* the part of window w in a cell of the grid, rounded to whole characters
Cell(w, gx, gy, idx, idy) ==
  LET win == window_stack[w]
  IN  draw_terminal_content(w, (gx[idx] - win.x) \div FONT_WIDTH,
                               (gy[idy] - win.y) \div FONT_HEIGHT,
                               ceil_div(gx[idx + 1] - gx[idx], FONT_WIDTH),
                               ceil_div(gy[idy + 1] - gy[idy], FONT_HEIGHT))

\* the cells in which one of these windows is visible, column by column
Cells(windows) ==
  LET gx == grid_x
      gy == grid_y
      n  == 1 + 2 * Len(window_stack)       \* grid_count
      cell(k) == LET idx == 1 + (k \div n)
                     idy == 1 + (k % n)
                     w   == find_visible_win_on(gx[idx], gy[idy])
                 IN  IF w \in windows THEN Cell(w, gx, gy, idx, idy) ELSE <<>>
  IN  FlattenSeq([k \in 1..(n * n) |-> cell(k - 1)])

draw_window_border(win, close) ==
  LET Button(obj, b) == draw_object(obj, win.x + b.left, win.y - b.up)
  IN  <<draw_object(win_up, win.x - LEFT_RIGHT_MARGIN, win.y - TITLE_BAR_HEIGHT),
        draw_object(win_left, win.x - LEFT_RIGHT_MARGIN, win.y),
        draw_object(win_down, win.x - LEFT_RIGHT_MARGIN,
                              win.y + TERMINAL_HEIGHT_PIXEL),
        draw_object(win_right, win.x + TERMINAL_WIDTH_PIXEL, win.y),
        Button(close, RED), Button(grey, YELLOW), Button(grey, GREEN)>>

\* render_windows: first the text of every cell ...
render_cells ==
  /\ Draw("grid", "lower", Cells(DOMAIN window_stack))
  /\ next' = GUI_MAX_WINDOW_NUM

\* ... then the lower windows, from the bottom up ...
render_lower_window ==
  /\ IF next \in 2..Len(window_stack)
     THEN Draw("lower", "lower",
               Cells({next})
                 \o draw_window_border(window_stack[next], grey))
     ELSE Draw("lower", IF next > 1 THEN "lower" ELSE "top", <<>>)
  /\ next' = IF next > 1 THEN next - 1 ELSE next

\* ... and the top window, which nothing covers.
render_top_window ==
  /\ Draw("top", "sync",
          IF window_stack = <<>> THEN <<>>
          ELSE draw_terminal_content(1, 0, 0, TERMINAL_TEXT_COLS,
                                     TERMINAL_TEXT_ROWS)
                 \o draw_window_border(window_stack[1], red))
  /\ UNCHANGED next

-----------------------------------------------------------------------------
(***************************************************************************)
(* gui_render around these.                                                 *)
(***************************************************************************)

\* the other half; all of the VGA window is mapped
gui_render_begins ==
  /\ pc = "rest" /\ pc' = "desktop"
  /\ curr_y' = VGA_HEIGHT - curr_y
  /\ mapping' = NULL
  /\ UNCHANGED <<frameVars, pageVars, engine, start, vram, next>>

vga_accel_sync ==
  /\ pc = "sync" /\ pc' = "start_low"
  /\ engine = Idle
  /\ UNCHANGED <<frameVars, mapping, curr_y, pageVars, engine, start, vram, next>>

(***************************************************************************)
(* vga_set_start_addr: the registers are written one after the other, while *)
(* the screen is refreshed from what they say.                              *)
(***************************************************************************)
StartAddress == curr_y * VGA_WIDTH

set_start_low ==
  /\ pc = "start_low" /\ pc' = "start_high"
  /\ start' = [start EXCEPT !.low = StartAddress % START_LOW]
  /\ UNCHANGED <<frameVars, mapping, curr_y, pageVars, engine, vram, next>>

\* ... and the running terminal's mapping is restored
set_start_high ==
  /\ pc = "start_high" /\ pc' = "shown"
  /\ start' = [start EXCEPT !.high = StartAddress \div START_LOW]
  /\ mapping' = running_term
  /\ UNCHANGED <<frameVars, curr_y, pageVars, engine, vram, next>>

-----------------------------------------------------------------------------
(***************************************************************************)
(* Between two frames: the mouse moves windows, tasks are switched.  Which  *)
(* windows there are is put together anew for every frame, and the frames   *)
(* before grow old.                                                         *)
(***************************************************************************)
ShownNow == start.low + start.high * START_LOW

Aged ==
  [a \in Address |-> CASE a - ShownNow \in 0..(Screen - 1) -> <<<<"shown">>, 0, 0>>
                       [] a >= 2 * Screen -> <<<<"objects">>, 0, 0>>
                       [] OTHER -> <<<<"old">>, 0, 0>>]

TimePasses(terminal, pressed) ==
  /\ pc = "shown" /\ pc' = "rest"
  /\ vram' = Aged
  /\ window_stack' = <<>>
  /\ gui_term_button_pressed' = pressed
  /\ running_term' = terminal /\ mapping' = terminal
  /\ UNCHANGED <<curr_y, pageVars, engine, start, next>>

WindowAt(win) ==
  /\ pc = "rest"
  /\ Len(window_stack) < GUI_MAX_WINDOW_NUM
  /\ window_stack' = Append(window_stack, win)
  /\ UNCHANGED <<gui_term_button_pressed, running_term, mapping, curr_y, pageVars,
                 engine, start, vram, pc, next>>

(***************************************************************************)
(* vga_set_mode and vga_clear leave bank 0 in force; gui_obj_load draws to  *)
(* the banks of the objects, through vga_draw_pixel.                        *)
(***************************************************************************)
Init ==
  /\ window_stack = <<>> /\ gui_term_button_pressed = FALSE
  /\ running_term = NULL /\ mapping = NULL
  /\ curr_y = 0
  /\ curr_page = (2 * VGA_HEIGHT) \div PAGE_ROWS
  /\ bank = vga_set_page(curr_page, [curr_page |-> 0, bank |-> 0]).bank
  /\ engine = Idle
  /\ start = [low |-> 0, high |-> 0]
  /\ vram = Aged
  /\ pc = "rest" /\ next = 0

Next ==
  \/ gui_render_begins \/ render_desktop \/ render_term_button \/ render_clock
  \/ render_cells \/ render_lower_window \/ render_top_window
  \/ vga_accel_sync \/ set_start_low \/ set_start_high
  \/ EngineFinishes
  \/ \E terminal \in {NULL, 1}, pressed \in BOOLEAN : TimePasses(terminal, pressed)
  \/ \E x \in Positions.x, y \in Positions.y : WindowAt([x |-> x, y |-> y])

Spec == Init /\ [][Next]_vars

-----------------------------------------------------------------------------
(* Properties *)

\* what belongs at a point of a window, seen from its upper left corner
InWindow(x, y, w) ==
  LET win == window_stack[w]
      At(b, size) == /\ x - win.x - b.left \in 0..(size.width - 1)
                     /\ y - win.y + b.up \in 0..(size.height - 1)
      Pixel(name, left, top) == <<name, x - left, y - top>>
      col == (x - win.x) \div FONT_WIDTH
      row == (y - win.y) \div FONT_HEIGHT
  IN  IF InBody(x, y, win)
      THEN Pixel(GlyphOf(Text(w, row, col)), win.x + col * FONT_WIDTH,
                                             win.y + row * FONT_HEIGHT)
      ELSE IF At(GREEN, GREY)
      THEN Pixel(<<"grey">>, win.x + GREEN.left, win.y - GREEN.up)
      ELSE IF At(YELLOW, GREY)
      THEN Pixel(<<"grey">>, win.x + YELLOW.left, win.y - YELLOW.up)
      ELSE IF At(RED, IF w = 1 THEN RED ELSE GREY)
      THEN Pixel(<<IF w = 1 THEN "red" ELSE "grey">>, win.x + RED.left, win.y - RED.up)
      ELSE CASE y < win.y ->
                  Pixel(<<"up">>, win.x - LEFT_RIGHT_MARGIN, win.y - TITLE_BAR_HEIGHT)
             [] y >= win.y + TERMINAL_HEIGHT_PIXEL ->
                  Pixel(<<"down">>, win.x - LEFT_RIGHT_MARGIN, win.y + TERMINAL_HEIGHT_PIXEL)
             [] OTHER -> IF x < win.x
                         THEN Pixel(<<"left">>, win.x - LEFT_RIGHT_MARGIN, win.y)
                         ELSE Pixel(<<"right">>, win.x + TERMINAL_WIDTH_PIXEL, win.y)

CoveredBy(x, y) ==
  {w \in DOMAIN window_stack :
     /\ x - window_stack[w].x
          \in (-LEFT_RIGHT_MARGIN)..(TERMINAL_WIDTH_PIXEL + LEFT_RIGHT_MARGIN - 1)
     /\ y - window_stack[w].y
          \in (-TITLE_BAR_HEIGHT)..(TERMINAL_HEIGHT_PIXEL + DOWN_MARGIN - 1)}

\* what belongs at a point of the screen: the topmost thing there
Belongs(x, y) ==
  LET over == CoveredBy(x, y)
      char == (x - CLOCK.x) \div FONT_WIDTH
  IN  IF over # {}
      THEN InWindow(x, y, CHOOSE w \in over : \A v \in over : w <= v)
      ELSE CASE /\ x - TERMINAL_B.x \in 0..(TERMINAL_B.width - 1)
                /\ y - TERMINAL_B.y \in 0..(TERMINAL_B.height - 1) ->
                  <<<<"terminal", gui_term_button_pressed>>,
                    x - TERMINAL_B.x, y - TERMINAL_B.y>>
             [] /\ char \in 0..(Len(time) - 1)
                /\ y - CLOCK.y \in 0..(FONT_HEIGHT - 1) ->
                  <<GlyphOf(time[char + 1]), (x - CLOCK.x) % FONT_WIDTH, y - CLOCK.y>>
             [] OTHER -> <<<<"desktop">>, x, y>>

(***************************************************************************)
(* A cell's text is counted from its left edge but drawn from the start of  *)
(* the character there, and may end short of the window that limits it on   *)
(* the right: at most these columns, beside a window further up, can show   *)
(* what is below.                                                           *)
(***************************************************************************)
Seam(x) ==
  \E w \in DOMAIN window_stack :
     window_stack[w].x - x \in (LEFT_RIGHT_MARGIN + 1)..(FONT_WIDTH - 1)

(***************************************************************************)
(* When a frame is shown, every point of the screen shows the topmost thing *)
(* that is there, as mouse clicks take it (find_visible_win_on is "from top *)
(* to bottom", the drawing goes the other way and in two passes), however   *)
(* the windows overlap; and printed text goes to the running terminal.      *)
(***************************************************************************)
FrameShown ==
  pc = "shown" =>
    /\ mapping = running_term
    /\ \A x \in 0..(VGA_WIDTH - 1), y \in 0..(VGA_HEIGHT - 1) :
         Seam(x) \/ vram[ShownNow + y * VGA_WIDTH + x] = Belongs(x, y)

(***************************************************************************)
(* While a frame is drawn, what is on the screen stays as it is: nothing is *)
(* drawn outside of the other half, not over the objects either; the start  *)
(* address names one of the halves after every single register write; and   *)
(* the "program must not access video memory when blits can be running"     *)
(* (vga_accel.h:59).                                                        *)
(***************************************************************************)
DrawsUnseen ==
  /\ ShownNow \in {0, Screen}
  /\ pc = "desktop" => engine = Idle
  /\ pc \notin {"rest", "shown", "start_high"} =>
       \A a \in Address :
         /\ a - ShownNow \in 0..(Screen - 1) => vram[a] = <<<<"shown">>, 0, 0>>
         /\ a >= 2 * Screen => vram[a] = <<<<"objects">>, 0, 0>>
=============================================================================
