---------------------------- MODULE Mouse_proofs ----------------------------
(***************************************************************************)
(* Theorems about Mouse.tla, for every screen, window and button size that  *)
(* the assumptions of that module allow, any number of windows and any      *)
(* movements.                                                               *)
(***************************************************************************)
EXTENDS Mouse, TLAPS, SequenceTheorems, WellFoundedInduction

Point == [x : Int, y : Int]

Types ==
  /\ mouse \in Point
  /\ last_left \in BOOLEAN /\ mouse_pressed_on_title \in BOOLEAN
  /\ window_stack \in Seq(Window)
  /\ term \in [Window -> Point]
  /\ suspended \in Seq(Moves)
  /\ grip \in Window \cup {NoWindow}

MouseInv == Types /\ WindowsOnScreen /\ GripHolds

-----------------------------------------------------------------------------
(***************************************************************************)
(* Lemmas about the constants and about sequences.                          *)
(***************************************************************************)
LEMMA Sizes ==
  /\ VGA_WIDTH \in Nat /\ VGA_HEIGHT \in Nat /\ CURSOR \in Nat
  /\ TERMINAL_WIDTH \in Nat /\ TERMINAL_HEIGHT \in Nat
  /\ LEFT_RIGHT_MARGIN \in Nat /\ TITLE_BAR_HEIGHT \in Nat /\ DOWN_MARGIN \in Nat
  /\ INITIAL_X \in Nat /\ INITIAL_Y \in Nat /\ OFFSET_X \in Nat /\ OFFSET_Y \in Nat
  /\ GUI_MAX_WINDOW_NUM \in Nat
  /\ MaxX \in Int /\ MaxY \in Int /\ NoWindow \notin Window
BY SizesAssumption DEF MaxX, MaxY, NoWindow, Window

LEMMA RemoveFacts ==
  ASSUME NEW S, NEW s \in Seq(S), NEW k \in DOMAIN s
  PROVE  /\ RemoveAt(s, k) \in Seq(S)
         /\ Len(RemoveAt(s, k)) = Len(s) - 1
         /\ \A i \in 1..(Len(s) - 1) :
              RemoveAt(s, k)[i] = IF i < k THEN s[i] ELSE s[i + 1]
<1> DEFINE a == SubSeq(s, 1, k - 1)
           b == SubSeq(s, k + 1, Len(s))
<1>1. k \in 1..Len(s) /\ Len(s) \in Nat
  OBVIOUS
<1>2. a \in Seq(S) /\ Len(a) = k - 1 /\ \A i \in 1..(k - 1) : a[i] = s[i]
  BY <1>1
<1>3. /\ b \in Seq(S) /\ Len(b) = Len(s) - k
      /\ \A i \in 1..(Len(s) - k) : b[i] = s[k + i]
  <2>1. k + 1 \in 1..(Len(s) + 1) /\ Len(s) \in ((k + 1) - 1)..Len(s)
    BY <1>1
  <2>2. /\ b \in Seq(S) /\ Len(b) = Len(s) - (k + 1) + 1
        /\ \A i \in 1..(Len(s) - (k + 1) + 1) : b[i] = s[(k + 1) + i - 1]
    BY <2>1, SubSeqProperties
  <2>3. Len(s) - (k + 1) + 1 = Len(s) - k
    BY <1>1
  <2>4. \A i \in 1..(Len(s) - k) : (k + 1) + i - 1 = k + i
    BY <1>1
  <2> HIDE DEF b
  <2> QED BY <2>2, <2>3, <2>4
<1>4. RemoveAt(s, k) = a \o b
  BY DEF RemoveAt
<1> HIDE DEF a, b
<1>5. /\ a \o b \in Seq(S) /\ Len(a \o b) = Len(a) + Len(b)
      /\ \A i \in 1..(Len(a) + Len(b)) :
           (a \o b)[i] = IF i <= Len(a) THEN a[i] ELSE b[i - Len(a)]
  BY <1>2, <1>3, ConcatProperties
<1>6. Len(a) + Len(b) = Len(s) - 1
  BY <1>1, <1>2, <1>3
<1>7. ASSUME NEW i \in 1..(Len(s) - 1)
      PROVE  (a \o b)[i] = IF i < k THEN s[i] ELSE s[i + 1]
  <2>1. CASE i < k
    <3>1. i <= Len(a) /\ i \in 1..(Len(a) + Len(b)) /\ i \in 1..(k - 1)
      BY <1>1, <1>2, <1>6, <2>1
    <3> QED BY <1>2, <1>5, <2>1, <3>1
  <2>2. CASE ~(i < k)
    <3>1. i - (k - 1) \in 1..(Len(s) - k) /\ k + (i - (k - 1)) = i + 1
      <4>1. i \in Nat /\ k \in Nat /\ i <= Len(s) - 1 /\ k <= i /\ Len(s) \in Nat
        BY <1>1, <2>2
      <4> QED BY <4>1
    <3>2. b[i - (k - 1)] = s[i + 1]
      BY <1>3, <3>1
    <3>3. (a \o b)[i] = b[i - (k - 1)]
      <4>1. /\ ~(i <= Len(a)) /\ i \in 1..(Len(a) + Len(b))
            /\ i - (k - 1) = i - Len(a)
        BY <1>1, <1>2, <1>6, <2>2
      <4> QED BY <1>5, <4>1
    <3> QED BY <2>2, <3>2, <3>3
  <2> QED BY <2>1, <2>2
<1> QED BY <1>4, <1>5, <1>6, <1>7

LEMMA ConsFacts ==
  ASSUME NEW S, NEW s \in Seq(S), NEW w \in S
  PROVE  /\ <<w>> \o s \in Seq(S)
         /\ <<w>> \o s # <<>> /\ (<<w>> \o s)[1] = w
         /\ ToSet(<<w>> \o s) = {w} \cup ToSet(s)
<1> DEFINE c == <<w>> \o s
<1>1. c \in Seq(S) /\ Len(c) = Len(s) + 1 /\ c[1] = w
  OBVIOUS
<1>2. \A i \in 1..Len(s) : c[i + 1] = s[i]
  OBVIOUS
<1> HIDE DEF c
<1>3. ASSUME NEW v \in ToSet(c) PROVE v \in {w} \cup ToSet(s)
  <2>1. PICK i \in 1..Len(c) : v = c[i]
    BY <1>1 DEF ToSet
  <2>2. CASE i = 1
    BY <1>1, <2>1, <2>2
  <2>3. CASE i # 1
    <3>1. i - 1 \in 1..Len(s) /\ (i - 1) + 1 = i
      BY <1>1, <2>1, <2>3
    <3>2. v = s[i - 1]
      BY <1>2, <2>1, <3>1
    <3> QED BY <3>1, <3>2 DEF ToSet
  <2> QED BY <2>2, <2>3
<1>4. ASSUME NEW v \in {w} \cup ToSet(s) PROVE v \in ToSet(c)
  <2>1. CASE v = w
    BY <1>1, <2>1 DEF ToSet
  <2>2. CASE v \in ToSet(s)
    <3>1. PICK i \in 1..Len(s) : v = s[i]
      BY <2>2 DEF ToSet
    <3>2. v = c[i + 1] /\ i + 1 \in 1..Len(c)
      BY <1>1, <1>2, <3>1
    <3> QED BY <1>1, <3>2 DEF ToSet
  <2> QED BY <2>1, <2>2
<1>5. ToSet(c) = {w} \cup ToSet(s)
  BY <1>3, <1>4
<1>6. c # <<>>
  BY <1>1
<1> QED BY <1>1, <1>5, <1>6 DEF c

LEMMA RemoveInSet ==
  ASSUME NEW S, NEW s \in Seq(S), NEW k \in DOMAIN s
  PROVE  ToSet(RemoveAt(s, k)) \subseteq ToSet(s)
<1> DEFINE r == RemoveAt(s, k)
<1>1. /\ r \in Seq(S) /\ Len(r) = Len(s) - 1
      /\ \A i \in 1..(Len(s) - 1) : r[i] = IF i < k THEN s[i] ELSE s[i + 1]
  BY RemoveFacts
<1> HIDE DEF r
<1>2. ASSUME NEW v \in ToSet(r) PROVE v \in ToSet(s)
  <2>1. PICK i \in 1..(Len(s) - 1) : v = r[i]
    BY <1>1 DEF ToSet
  <2>2. v = s[i] \/ v = s[i + 1]
    BY <1>1, <2>1
  <2>3. i \in 1..Len(s) /\ i + 1 \in 1..Len(s)
    BY <2>1
  <2> QED BY <2>2, <2>3 DEF ToSet
<1> QED BY <1>2 DEF r

-----------------------------------------------------------------------------
(***************************************************************************)
(* The geometry of a drag: a title bar that moves on the screen takes along *)
(* the point under the cursor, even where the cursor is stopped.            *)
(***************************************************************************)
OnTitle(p, t) ==
  /\ ~OutsideWindow(p, t) /\ p.y < t.y
  /\ \A b \in Buttons : ~InButton(p, t, b)

LEMMA TitleBar ==
  ASSUME NEW p \in Point, NEW t \in Point
  PROVE  check_inside_window(p, t) = "IN_TITLE_BAR" <=> OnTitle(p, t)
<1> DEFINE red == InButton(p, t, RED)
           yellow == InButton(p, t, YELLOW)
           green == InButton(p, t, GREEN)
           out == OutsideWindow(p, t)
           below == p.y >= t.y
           above == p.y < t.y
<1>1. above <=> ~below
  BY DEF Point
<1>2. OnTitle(p, t) <=> ~out /\ above /\ ~red /\ ~yellow /\ ~green
  BY DEF OnTitle, Buttons
<1>3. check_inside_window(p, t) =
        CASE out -> "NOT_IN_WINDOW"
          [] ~out /\ below -> "IN_BODY"
          [] ~out /\ above /\ red -> "IN_RED_BUTTON"
          [] ~out /\ above /\ ~red /\ (yellow \/ green) -> "IN_OTHER_BUTTON"
          [] OTHER -> "IN_TITLE_BAR"
  BY DEF check_inside_window
<1> HIDE DEF red, yellow, green, out, below, above
<1> QED BY <1>1, <1>2, <1>3

LEMMA DragKeepsTitle ==
  ASSUME NEW p \in Point, NEW t \in Point, NEW dx \in Int, NEW dy \in Int,
         p.x \in 0..MaxX, p.y \in 0..MaxY, OnTitle(p, t),
         is_valid_position(t.x + dx, t.y + dy)
  PROVE  OnTitle([x |-> Clamped(p.x + dx, MaxX), y |-> Clamped(p.y + dy, MaxY)],
                 Shifted(t, dx, dy))
<1> DEFINE u == Shifted(t, dx, dy)
           X == Clamped(p.x + dx, MaxX)
           Y == Clamped(p.y + dy, MaxY)
           q == [x |-> X, y |-> Y]
<1>0. /\ p.x \in Int /\ p.y \in Int /\ t.x \in Int /\ t.y \in Int
      /\ u.x = t.x + dx /\ u.y = t.y + dy /\ q.x = X /\ q.y = Y
  BY DEF Point, Shifted
<1>1. /\ t.x + dx - LEFT_RIGHT_MARGIN >= 0
      /\ t.x + dx + TERMINAL_WIDTH + LEFT_RIGHT_MARGIN <= VGA_WIDTH
      /\ t.y + dy - TITLE_BAR_HEIGHT >= 0
      /\ t.y + dy + TERMINAL_HEIGHT + DOWN_MARGIN <= VGA_HEIGHT
  BY <1>0, Sizes DEF is_valid_position
<1>2. /\ p.x >= t.x - LEFT_RIGHT_MARGIN
      /\ p.x < t.x + TERMINAL_WIDTH + LEFT_RIGHT_MARGIN
      /\ p.y >= t.y - TITLE_BAR_HEIGHT /\ p.y < t.y
  BY <1>0, Sizes DEF OnTitle, OutsideWindow
<1>3. CURSOR < TERMINAL_WIDTH /\ CURSOR < TERMINAL_HEIGHT
  BY LayoutAssumption
<1>4. Y = p.y + dy
  BY <1>0, <1>1, <1>2, <1>3, Sizes DEF Clamped, MaxY
<1>5. X = p.x + dx \/ (X = MaxX /\ p.x + dx > MaxX)
  BY <1>0, <1>1, <1>2, Sizes DEF Clamped
<1>6. X \in Int /\ X <= p.x + dx
  BY <1>0, <1>5, Sizes
<1>7. X >= t.x + dx - LEFT_RIGHT_MARGIN
  BY <1>0, <1>1, <1>2, <1>3, <1>5, Sizes DEF MaxX
<1> HIDE DEF X, Y, u
<1>8. ~OutsideWindow(q, u) /\ q.y < u.y
  BY <1>0, <1>1, <1>2, <1>4, <1>6, <1>7, Sizes DEF OutsideWindow
<1>9. ASSUME NEW b \in Buttons PROVE ~InButton(q, u, b)
  <2>1. b.left \in Nat /\ b.up \in Nat /\ b.width \in Nat /\ b.height \in Nat
    BY SizesAssumption
  <2>2. b.left + b.width < TERMINAL_WIDTH + LEFT_RIGHT_MARGIN - CURSOR
    BY LayoutAssumption
  <2>3. CASE X = p.x + dx
    <3>1. ~InButton(p, t, b)
      BY DEF OnTitle
    <3> QED BY <1>0, <1>4, <2>1, <2>3, <3>1 DEF InButton
  <2>4. CASE X = MaxX
    <3>1. X >= t.x + dx + b.left + b.width
      BY <1>0, <1>1, <2>1, <2>2, <2>4, Sizes DEF MaxX
    <3> QED BY <1>0, <1>6, <2>1, <3>1 DEF InButton
  <2> QED BY <1>5, <2>3, <2>4
<1> QED BY <1>8, <1>9 DEF OnTitle, u, X, Y

(***************************************************************************)
(* The movement at the end of the handler.                                  *)
(***************************************************************************)
GripOnTitle ==
  grip # NoWindow => /\ mouse_pressed_on_title
                     /\ window_stack # <<>> /\ window_stack[1] = grip
                     /\ OnTitle(mouse, term[grip])

LEMMA GripTitle ==
  ASSUME mouse \in Point, term \in [Window -> Point],
         grip \in Window \cup {NoWindow}
  PROVE  GripHolds <=> GripOnTitle
<1>1. CASE grip = NoWindow
  BY <1>1 DEF GripHolds, GripOnTitle
<1>2. CASE grip # NoWindow
  <2>1. term[grip] \in Point
    BY <1>2
  <2>2. Under(grip) = "IN_TITLE_BAR" <=> OnTitle(mouse, term[grip])
    BY <2>1, TitleBar DEF Under
  <2> QED BY <1>2, <2>2 DEF GripHolds, GripOnTitle
<1> QED BY <1>1, <1>2

LEMMA GripTitleNext ==
  ASSUME mouse' \in Point, term' \in [Window -> Point],
         grip' \in Window \cup {NoWindow}
  PROVE  GripHolds' <=> GripOnTitle'
<1>1. CASE grip' = NoWindow
  BY <1>1 DEF GripHolds, GripOnTitle
<1>2. CASE grip' # NoWindow
  <2>1. term'[grip'] \in Point
    BY <1>2
  <2>2. Under(grip)' = "IN_TITLE_BAR" <=> OnTitle(mouse', term'[grip'])
    BY <2>1, TitleBar DEF Under
  <2> QED BY <1>2, <2>2 DEF GripHolds, GripOnTitle
<1> QED BY <1>1, <1>2

LEMMA CursorStays ==
  ASSUME mouse \in Point, NEW dx \in Int, NEW dy \in Int, MoveCursor(dx, dy)
  PROVE  /\ mouse' \in Point
         /\ mouse'.x \in 0..MaxX /\ mouse'.y \in 0..MaxY
<1>1. MaxX >= 0 /\ MaxY >= 0 /\ MaxX \in Int /\ MaxY \in Int
  <2>1. START.x \in 0..MaxX /\ START.y \in 0..MaxY
    BY LayoutAssumption
  <2> QED BY <2>1, Sizes
<1>2. \A n \in Int, max \in Nat : Clamped(n, max) \in 0..max
  BY DEF Clamped
<1>3. mouse.x + dx \in Int /\ mouse.y + dy \in Int
  BY DEF Point
<1>4. /\ Clamped(mouse.x + dx, MaxX) \in 0..MaxX
      /\ Clamped(mouse.y + dy, MaxY) \in 0..MaxY
  <2>1. MaxX \in Nat /\ MaxY \in Nat
    BY <1>1
  <2> HIDE DEF MaxX, MaxY
  <2> QED BY <1>2, <1>3, <2>1
<1>5. mouse' = [x |-> Clamped(mouse.x + dx, MaxX),
                y |-> Clamped(mouse.y + dy, MaxY)]
  BY DEF MoveCursor
<1> QED BY <1>4, <1>5 DEF Point

LEMMA MovementKeeps ==
  ASSUME Types, WindowsOnScreen, NEW dx \in Int, NEW dy \in Int,
         window_stack' \in Seq(Window), ToSet(window_stack') \subseteq Opened,
         grip' \in Window \cup {NoWindow},
         grip' # NoWindow => /\ mouse_pressed_on_title'
                             /\ window_stack' # <<>> /\ window_stack'[1] = grip'
                             /\ OnTitle(mouse, term[grip']),
         MoveAll(dx, dy)
  PROVE  /\ mouse' \in Point /\ term' \in [Window -> Point]
         /\ WindowsOnScreen' /\ GripHolds'
<1> DEFINE w == window_stack'[1]
           t == Shifted(term[w], dx, dy)
<1>1. CASE ~Drags
  <2>1. MoveCursor(dx, dy) /\ term' = term
    BY <1>1 DEF MoveAll
  <2>2. /\ mouse' \in Point
        /\ mouse'.x \in 0..MaxX /\ mouse'.y \in 0..MaxY
    BY <2>1, CursorStays DEF Types
  <2>3. grip' = NoWindow
    BY <1>1 DEF Drags
  <2>4. \A v \in Opened' : v \in Opened
    BY DEF Opened
  <2>5. WindowsOnScreen'
    BY <2>1, <2>2, <2>4 DEF WindowsOnScreen
  <2> QED BY <2>1, <2>2, <2>3, <2>5 DEF GripHolds, Types
<1>2. CASE Drags /\ ~is_valid_position(t.x, t.y)
  <2>1. term' = term /\ mouse' = mouse
    BY <1>2 DEF MoveAll
  <2>2. mouse' \in Point /\ term' \in [Window -> Point]
    BY <2>1 DEF Types
  <2>3. GripOnTitle'
    BY <2>1 DEF GripOnTitle
  <2>4. GripHolds'
    BY <2>2, <2>3, GripTitleNext
  <2>5. WindowsOnScreen'
    BY <2>1 DEF WindowsOnScreen, Opened
  <2> QED BY <2>2, <2>4, <2>5
<1>3. CASE Drags /\ is_valid_position(t.x, t.y)
  <2>1. term' = [term EXCEPT ![w] = t] /\ MoveCursor(dx, dy)
    BY <1>3 DEF MoveAll
  <2>2. w \in Window
    BY <1>3 DEF Drags
  <2>3. term[w] \in Point
    BY <2>2 DEF Types
  <2>4. /\ t.x = term[w].x + dx /\ t.y = term[w].y + dy /\ t \in Point
    BY <2>3 DEF Shifted, Point
  <2>5. term' \in [Window -> Point]
    BY <2>1, <2>4 DEF Types
  <2>6. /\ mouse' \in Point
        /\ mouse'.x \in 0..MaxX /\ mouse'.y \in 0..MaxY
    BY <2>1, CursorStays DEF Types
  <2> HIDE DEF w, t
  <2>7. ASSUME NEW v \in Opened'
        PROVE  is_valid_position(term'[v].x, term'[v].y)
    <3>1. v \in Opened /\ v \in Window
      BY DEF Opened, ToSet
    <3>2. CASE v = w
      BY <1>3, <2>1, <2>2, <3>2 DEF Types
    <3>3. CASE v # w
      <4>1. term'[v] = term[v]
        BY <2>1, <3>1, <3>3 DEF Types
      <4> QED BY <3>1, <4>1 DEF WindowsOnScreen
    <3> QED BY <3>2, <3>3
  <2>8. WindowsOnScreen'
    BY <2>6, <2>7 DEF WindowsOnScreen
  <2>9. GripOnTitle'
    <3>1. SUFFICES ASSUME grip' # NoWindow
                   PROVE  OnTitle(mouse', term'[grip'])
      BY DEF GripOnTitle
    <3>2. grip' = w /\ OnTitle(mouse, term[w])
      BY <3>1 DEF w
    <3>3. term'[w] = t
      BY <2>1, <2>2 DEF Types
    <3>4. /\ mouse \in Point /\ mouse.x \in 0..MaxX /\ mouse.y \in 0..MaxY
      BY DEF Types, WindowsOnScreen
    <3>5. is_valid_position(term[w].x + dx, term[w].y + dy)
      BY <1>3, <2>4
    <3>6. OnTitle([x |-> Clamped(mouse.x + dx, MaxX),
                   y |-> Clamped(mouse.y + dy, MaxY)], t)
      BY <2>3, <3>2, <3>4, <3>5, DragKeepsTitle DEF t
    <3> QED BY <2>1, <3>2, <3>3, <3>6 DEF MoveCursor
  <2>10. GripHolds'
    BY <2>5, <2>6, <2>9, GripTitleNext
  <2> QED BY <2>5, <2>6, <2>8, <2>10
<1> QED BY <1>1, <1>2, <1>3

-----------------------------------------------------------------------------
(***************************************************************************)
(* One lemma for each action.                                               *)
(***************************************************************************)

\* The form of MovementKeeps that the actions use.
LEMMA FinishKeeps ==
  ASSUME MouseInv, NEW left \in BOOLEAN, NEW m \in Moves,
         mouse_pressed_on_title' \in BOOLEAN,
         window_stack' \in Seq(Window), ToSet(window_stack') \subseteq Opened,
         suspended' \in Seq(Moves),
         grip' \in Window \cup {NoWindow},
         grip' # NoWindow => /\ mouse_pressed_on_title'
                             /\ window_stack' # <<>> /\ window_stack'[1] = grip'
                             /\ OnTitle(mouse, term[grip']),
         Finish(left, m)
  PROVE  MouseInv'
<1>1. m.dx \in Int /\ -m.dy \in Int
  <2>1. m \in [dx : Int, dy : Int]
    BY SizesAssumption
  <2>2. m.dx \in Int /\ m.dy \in Int
    BY <2>1
  <2> QED BY <2>2
<1>2. MoveAll(m.dx, -m.dy) /\ last_left' = left
  BY DEF Finish
<1>3. Types /\ WindowsOnScreen
  BY DEF MouseInv
<1>4. /\ mouse' \in Point /\ term' \in [Window -> Point]
      /\ WindowsOnScreen' /\ GripHolds'
  BY <1>1, <1>2, <1>3, MovementKeeps
<1>5. Types'
  BY <1>2, <1>4 DEF Types
<1> QED BY <1>4, <1>5 DEF MouseInv

\* What the invariant says of the grip.
LEMMA GripNow ==
  ASSUME MouseInv
  PROVE  GripOnTitle
BY GripTitle DEF MouseInv, Types

LEMMA MoveKeeps ==
  ASSUME MouseInv, NEW m \in Moves, Move(m)
  PROVE  MouseInv'
<1>1. /\ mouse_pressed_on_title' = mouse_pressed_on_title
      /\ window_stack' = window_stack /\ suspended' = suspended /\ grip' = grip
      /\ Finish(last_left, m)
  BY DEF Move, guiVars
<1>2. Types
  BY DEF MouseInv
<1>3. last_left \in BOOLEAN /\ mouse_pressed_on_title' \in BOOLEAN
  BY <1>1, <1>2 DEF Types
<1>4. /\ window_stack' \in Seq(Window) /\ ToSet(window_stack') \subseteq Opened
      /\ suspended' \in Seq(Moves) /\ grip' \in Window \cup {NoWindow}
  BY <1>1, <1>2 DEF Types, Opened
<1>5. grip' # NoWindow => /\ mouse_pressed_on_title'
                          /\ window_stack' # <<>> /\ window_stack'[1] = grip'
                          /\ OnTitle(mouse, term[grip'])
  BY <1>1, GripNow DEF GripOnTitle
<1> QED BY <1>1, <1>3, <1>4, <1>5, FinishKeeps

LEMMA GoOnKeeps ==
  ASSUME MouseInv, NEW k \in DOMAIN suspended, GoOn(k)
  PROVE  MouseInv'
<1>1. /\ mouse_pressed_on_title' = mouse_pressed_on_title
      /\ window_stack' = window_stack /\ grip' = grip
      /\ suspended' = RemoveAt(suspended, k)
      /\ Finish(FALSE, suspended[k])
  BY DEF GoOn, guiVars
<1>2. Types
  BY DEF MouseInv
<1>3. suspended[k] \in Moves /\ suspended' \in Seq(Moves)
  BY <1>1, <1>2, RemoveFacts DEF Types
<1>4. mouse_pressed_on_title' \in BOOLEAN
  BY <1>1, <1>2 DEF Types
<1>5. /\ window_stack' \in Seq(Window) /\ ToSet(window_stack') \subseteq Opened
      /\ grip' \in Window \cup {NoWindow}
  BY <1>1, <1>2 DEF Types, Opened
<1>6. grip' # NoWindow => /\ mouse_pressed_on_title'
                          /\ window_stack' # <<>> /\ window_stack'[1] = grip'
                          /\ OnTitle(mouse, term[grip'])
  BY <1>1, GripNow DEF GripOnTitle
<1> QED BY <1>1, <1>3, <1>4, <1>5, <1>6, FinishKeeps

LEMMA PressKeeps ==
  ASSUME MouseInv, NEW m \in Moves, Press(m)
  PROVE  MouseInv'
<1>1. Finish(TRUE, m) /\ suspended' = suspended
  BY DEF Press
<1>2. Types
  BY DEF MouseInv
<1>3. CASE PressOutside
  <2>1. /\ mouse_pressed_on_title' = mouse_pressed_on_title
        /\ window_stack' = window_stack /\ grip' = grip
    BY <1>3 DEF PressOutside
  <2>2. mouse_pressed_on_title' \in BOOLEAN
    BY <1>2, <2>1 DEF Types
  <2>3. /\ window_stack' \in Seq(Window) /\ ToSet(window_stack') \subseteq Opened
        /\ suspended' \in Seq(Moves) /\ grip' \in Window \cup {NoWindow}
    BY <1>1, <1>2, <2>1 DEF Types, Opened
  <2>4. grip' # NoWindow => /\ mouse_pressed_on_title'
                            /\ window_stack' # <<>> /\ window_stack'[1] = grip'
                            /\ OnTitle(mouse, term[grip'])
    BY <2>1, GripNow DEF GripOnTitle
  <2> QED BY <1>1, <2>2, <2>3, <2>4, FinishKeeps
<1>4. CASE PressInside
  <2>1. PICK k \in Hits :
          /\ \A h \in Hits : k <= h
          /\ window_stack' = <<window_stack[k]>> \o RemoveAt(window_stack, k)
          /\ IF Under(window_stack[k]) = "IN_TITLE_BAR"
             THEN mouse_pressed_on_title' = TRUE /\ grip' = window_stack[k]
             ELSE UNCHANGED <<mouse_pressed_on_title, grip>>
    BY <1>4 DEF PressInside
  <2> DEFINE w == window_stack[k]
             r == RemoveAt(window_stack, k)
  <2>2. k \in DOMAIN window_stack /\ w \in Window /\ w \in Opened
    BY <1>2, <2>1 DEF Hits, Types, Opened, ToSet
  <2>3. r \in Seq(Window) /\ ToSet(r) \subseteq Opened
    BY <1>2, <2>2, RemoveFacts, RemoveInSet DEF Types, Opened
  <2>4. window_stack' = <<w>> \o r
    BY <2>1
  <2> HIDE DEF w, r
  <2>5. /\ window_stack' \in Seq(Window) /\ ToSet(window_stack') = {w} \cup ToSet(r)
        /\ window_stack' # <<>> /\ window_stack'[1] = w
    BY <2>2, <2>3, <2>4, ConsFacts
  <2>6. ToSet(window_stack') \subseteq Opened
    BY <2>2, <2>3, <2>5
  <2>7. suspended' \in Seq(Moves) /\ term[w] \in Point /\ mouse \in Point
    BY <1>1, <1>2, <2>2 DEF Types
  <2>8. CASE Under(w) = "IN_TITLE_BAR"
    <3>1. mouse_pressed_on_title' = TRUE /\ grip' = w
      BY <2>1, <2>8 DEF w
    <3>2. OnTitle(mouse, term[w])
      BY <2>7, <2>8, TitleBar DEF Under
    <3> QED BY <1>1, <2>2, <2>5, <2>6, <2>7, <3>1, <3>2, FinishKeeps
  <2>9. CASE Under(w) # "IN_TITLE_BAR"
    <3>1. mouse_pressed_on_title' = mouse_pressed_on_title /\ grip' = grip
      BY <2>1, <2>9 DEF w
    <3>2. mouse_pressed_on_title' \in BOOLEAN /\ grip' \in Window \cup {NoWindow}
      BY <1>2, <3>1 DEF Types
    \* The held window is on top and under the cursor, so it is the first hit.
    <3>3. ASSUME grip # NoWindow PROVE FALSE
      <4>1. window_stack # <<>> /\ window_stack[1] = grip
        BY <3>3 DEF MouseInv, GripHolds
      <4>2. Under(grip) = "IN_TITLE_BAR"
        BY <3>3 DEF MouseInv, GripHolds
      <4>3. 1 \in Hits
        BY <1>2, <4>1, <4>2 DEF Hits, Types
      <4>4. k = 1
        BY <1>2, <2>1, <2>2, <4>3 DEF Types
      <4> QED BY <2>9, <4>1, <4>2, <4>4 DEF w
    <3> QED BY <1>1, <2>5, <2>6, <2>7, <3>1, <3>2, <3>3, FinishKeeps
  <2> QED BY <2>8, <2>9
<1> QED BY <1>3, <1>4 DEF Press, gui_handle_mouse_press

\* A release lets go of the title, so only the stack can matter.
LEMMA WithoutKeeps ==
  ASSUME MouseInv, NEW k \in DOMAIN window_stack
  PROVE  Without(k) \in Seq(Window) /\ ToSet(Without(k)) \subseteq Opened
BY RemoveFacts, RemoveInSet DEF MouseInv, Types, Without, Opened

LEMMA StackAfterClose ==
  ASSUME MouseInv, OnRed, TopMayClose
  PROVE  window_stack' \in Seq(Window) /\ ToSet(window_stack') \subseteq Opened
<1>1. window_stack \in Seq(Window) /\ 1 \in DOMAIN window_stack
  BY DEF MouseInv, Types, OnRed
<1>2. CASE window_stack' = window_stack
  BY <1>1, <1>2 DEF Opened
<1>3. CASE window_stack' = Without(1)
  BY <1>1, <1>3, WithoutKeeps
<1> QED BY <1>2, <1>3 DEF TopMayClose

LEMMA CloseOtherKeeps ==
  ASSUME MouseInv, NEW m \in Moves, CloseOther(m)
  PROVE  MouseInv'
<1>1. /\ mouse_pressed_on_title' = FALSE /\ grip' = NoWindow
      /\ OnRed /\ TopMayClose /\ Finish(FALSE, m)
  BY DEF CloseOther, Release
<1>2. window_stack' \in Seq(Window) /\ ToSet(window_stack') \subseteq Opened
  BY <1>1, StackAfterClose
<1>3. suspended' \in Seq(Moves)
  <2>1. suspended \in Seq(Moves)
    BY DEF MouseInv, Types
  <2>2. \/ suspended' = suspended
        \/ \E k \in DOMAIN suspended : suspended' = RemoveAt(suspended, k)
    BY DEF CloseOther
  <2> QED BY <2>1, <2>2, RemoveFacts
<1> QED BY <1>1, <1>2, <1>3, FinishKeeps

LEMMA CloseInterruptedKeeps ==
  ASSUME MouseInv, CloseInterrupted
  PROVE  MouseInv'
<1>1. /\ mouse_pressed_on_title' = FALSE /\ grip' = NoWindow
      /\ OnRed /\ TopMayClose
      /\ mouse' = mouse /\ term' = term /\ suspended' = suspended
      /\ last_left' = last_left
  BY DEF CloseInterrupted, Release
<1>2. window_stack' \in Seq(Window) /\ ToSet(window_stack') \subseteq Opened
  BY <1>1, StackAfterClose
<1>3. Types'
  BY <1>1, <1>2 DEF MouseInv, Types
<1>4. WindowsOnScreen'
  <2>1. \A w \in Opened' : w \in Opened
    BY <1>2 DEF Opened
  <2> QED BY <1>1, <2>1 DEF MouseInv, WindowsOnScreen
<1>5. GripHolds'
  BY <1>1 DEF GripHolds
<1> QED BY <1>3, <1>4, <1>5 DEF MouseInv

LEMMA ReleaseElsewhereKeeps ==
  ASSUME MouseInv, NEW m \in Moves, ReleaseElsewhere(m)
  PROVE  MouseInv'
<1>1. /\ mouse_pressed_on_title' = FALSE /\ grip' = NoWindow
      /\ window_stack' = window_stack /\ suspended' = suspended
      /\ Finish(FALSE, m)
  BY DEF ReleaseElsewhere, Release
<1>2. /\ window_stack' \in Seq(Window) /\ ToSet(window_stack') \subseteq Opened
      /\ suspended' \in Seq(Moves)
  BY <1>1 DEF MouseInv, Types, Opened
<1> QED BY <1>1, <1>2, FinishKeeps

\* A free terminal: Lowest chooses one.
LEMMA LowestIsIn ==
  ASSUME Opened # Window, MouseInv
  PROVE  Lowest(Window \ Opened) \in Window \ Opened
<1> DEFINE F == Window \ Opened
<1>1. Opened \subseteq Window
  BY DEF MouseInv, Types, Opened, ToSet
<1>2. F \subseteq Window /\ F # {}
  BY <1>1
<1>3. F \subseteq Nat
  BY <1>2, Sizes DEF Window
<1> HIDE DEF F
<1>4. IsWellFoundedOn({p \in Nat \X Nat : p[1] < p[2]}, Nat)
  BY NatLessThanWellFounded DEF OpToRel
<1>5. PICK w \in F :
        \A v \in F : <<v, w>> \notin {p \in Nat \X Nat : p[1] < p[2]}
  BY <1>2, <1>3, <1>4, WFMin
<1>6. ASSUME NEW v \in F PROVE w <= v
  <2>1. v \in Nat /\ w \in Nat
    BY <1>3
  <2>2. ~(v < w)
    BY <1>5, <2>1
  <2> QED BY <2>1, <2>2
<1>7. Lowest(F) \in F
  BY <1>6 DEF Lowest
<1> QED BY <1>7 DEF F

LEMMA OpenShellKeeps ==
  ASSUME MouseInv, NEW m \in Moves, OpenShell(m)
  PROVE  MouseInv'
<1> DEFINE w == Lowest(Window \ Opened)
           idx == Len(window_stack)
           t == [x |-> INITIAL_X + OFFSET_X * idx,
                 y |-> INITIAL_Y + OFFSET_Y * idx]
<1>1. /\ mouse_pressed_on_title' = FALSE /\ grip' = NoWindow
      /\ Opened # Window /\ idx < GUI_MAX_WINDOW_NUM
      /\ window_stack' = <<w>> \o window_stack
      /\ term' = [term EXCEPT ![w] = t]
      /\ suspended' = Append(suspended, m)
      /\ mouse' = mouse /\ last_left' = last_left
  BY DEF OpenShell, Release
<1>2. w \in Window
  BY <1>1, LowestIsIn
<1>3. Types /\ WindowsOnScreen
  BY DEF MouseInv
<1>4. idx \in 0..(GUI_MAX_WINDOW_NUM - 1)
  BY <1>1, <1>3, Sizes DEF Types
<1>5. is_valid_position(t.x, t.y)
  BY <1>4, LayoutAssumption
<1>6. t \in Point
  <2>1. OFFSET_X * idx \in Int /\ OFFSET_Y * idx \in Int
    BY <1>4, Sizes
  <2> QED BY <2>1, Sizes DEF Point
<1> HIDE DEF w, t, idx
<1>7. /\ window_stack' \in Seq(Window)
      /\ ToSet(window_stack') = {w} \cup ToSet(window_stack)
  BY <1>1, <1>2, <1>3, ConsFacts DEF Types
<1>8. suspended' \in Seq(Moves)
  BY <1>1, <1>3 DEF Types
<1>9. term' \in [Window -> Point]
  BY <1>1, <1>2, <1>3, <1>6 DEF Types
<1>10. Types'
  BY <1>1, <1>3, <1>7, <1>8, <1>9 DEF Types
<1>11. ASSUME NEW v \in Opened'
       PROVE  is_valid_position(term'[v].x, term'[v].y)
  <2>1. v \in Window /\ (v = w \/ v \in Opened)
    <3>1. v = w \/ v \in Opened
      BY <1>7 DEF Opened
    <3>2. Opened \subseteq Window
      BY <1>3 DEF Opened, Types, ToSet
    <3> QED BY <1>2, <3>1, <3>2
  <2>2. CASE v = w
    BY <1>1, <1>2, <1>3, <1>5, <2>2 DEF Types
  <2>3. CASE v # w
    <3>1. term'[v] = term[v] /\ v \in Opened
      BY <1>1, <1>3, <2>1, <2>3 DEF Types
    <3> QED BY <1>3, <3>1 DEF WindowsOnScreen
  <2> QED BY <2>2, <2>3
<1>12. WindowsOnScreen'
  BY <1>1, <1>3, <1>11 DEF WindowsOnScreen
<1>13. GripHolds'
  BY <1>1 DEF GripHolds
<1> QED BY <1>10, <1>12, <1>13 DEF MouseInv

LEMMA ShellHaltsKeeps ==
  ASSUME MouseInv, NEW k \in DOMAIN window_stack, ShellHalts(k)
  PROVE  MouseInv'
<1>1. /\ window_stack' = Without(k)
      /\ grip' = IF grip = window_stack[k] THEN NoWindow ELSE grip
      /\ mouse' = mouse /\ last_left' = last_left
      /\ mouse_pressed_on_title' = mouse_pressed_on_title
      /\ term' = term /\ suspended' = suspended
  BY DEF ShellHalts
<1>2. Types /\ WindowsOnScreen
  BY DEF MouseInv
<1>3. window_stack' \in Seq(Window) /\ ToSet(window_stack') \subseteq Opened
  BY <1>1, WithoutKeeps
<1>4. Types'
  BY <1>1, <1>2, <1>3 DEF Types
<1>5. WindowsOnScreen'
  <2>1. \A w \in Opened' : w \in Opened
    BY <1>3 DEF Opened
  <2> QED BY <1>1, <1>2, <2>1 DEF WindowsOnScreen
<1>6. GripOnTitle'
  <2>1. SUFFICES ASSUME grip' # NoWindow PROVE GripOnTitle'
    BY DEF GripOnTitle
  <2>2. grip' = grip /\ grip # NoWindow /\ grip # window_stack[k]
    BY <1>1, <2>1
  <2>3. /\ mouse_pressed_on_title /\ window_stack # <<>>
        /\ window_stack[1] = grip /\ OnTitle(mouse, term[grip])
    BY <2>2, GripNow DEF GripOnTitle
  \* Another window halts: what is on top stays there.
  <2>4. /\ Len(Without(k)) = Len(window_stack) - 1
        /\ \A i \in 1..(Len(window_stack) - 1) :
             Without(k)[i] = IF i < k THEN window_stack[i] ELSE window_stack[i + 1]
    BY <1>2, RemoveFacts DEF Types, Without
  <2>5. k > 1 /\ Len(window_stack) - 1 >= 1
    BY <1>2, <2>2, <2>3 DEF Types
  <2>6. window_stack' # <<>> /\ window_stack'[1] = grip
    BY <1>1, <1>2, <1>3, <2>3, <2>4, <2>5 DEF Types
  <2> QED BY <1>1, <2>2, <2>3, <2>6 DEF GripOnTitle
<1>7. GripHolds'
  BY <1>4, <1>6, GripTitleNext DEF Types
<1> QED BY <1>4, <1>5, <1>7 DEF MouseInv

-----------------------------------------------------------------------------
(***************************************************************************)
(* The invariant.                                                           *)
(***************************************************************************)
LEMMA InitInv ==
  ASSUME Init
  PROVE  MouseInv
<1>1. START.x \in 0..MaxX /\ START.y \in 0..MaxY /\ START \in Point
  BY LayoutAssumption, Sizes DEF Point
<1>2. [x |-> 0, y |-> 0] \in Point
  BY DEF Point
<1>3. Types
  <2>1. mouse = START /\ window_stack = <<>> /\ suspended = <<>>
        /\ last_left = FALSE /\ mouse_pressed_on_title = FALSE
        /\ grip = NoWindow /\ term = [w \in Window |-> [x |-> 0, y |-> 0]]
    BY DEF Init
  <2>2. term \in [Window -> Point]
    BY <1>2, <2>1
  <2>3. window_stack \in Seq(Window) /\ suspended \in Seq(Moves)
    BY <2>1
  <2>4. mouse \in Point /\ grip \in Window \cup {NoWindow}
    BY <1>1, <2>1
  <2>5. last_left \in BOOLEAN /\ mouse_pressed_on_title \in BOOLEAN
    BY <2>1
  <2> QED BY <2>2, <2>3, <2>4, <2>5 DEF Types
<1>4. WindowsOnScreen
  BY <1>1 DEF Init, WindowsOnScreen, Opened, ToSet
<1>5. GripHolds
  BY DEF Init, GripHolds
<1> QED BY <1>3, <1>4, <1>5 DEF MouseInv

LEMMA NextKeepsInv ==
  ASSUME MouseInv, [Next]_vars
  PROVE  MouseInv'
<1>1. CASE UNCHANGED vars
  BY <1>1 DEF vars, guiVars, MouseInv, Types, WindowsOnScreen, GripHolds,
              Opened, Under
<1>2. ASSUME NEW m \in Moves, mouse_interrupt_handler(m)
      PROVE  MouseInv'
  BY <1>2, MoveKeeps, PressKeeps, CloseOtherKeeps, CloseInterruptedKeeps,
     OpenShellKeeps, ReleaseElsewhereKeeps DEF mouse_interrupt_handler
<1>3. ASSUME NEW k \in DOMAIN suspended, GoOn(k)
      PROVE  MouseInv'
  BY <1>3, GoOnKeeps
<1>4. ASSUME NEW k \in DOMAIN window_stack, ShellHalts(k)
      PROVE  MouseInv'
  BY <1>4, ShellHaltsKeeps
<1> QED BY <1>1, <1>2, <1>3, <1>4 DEF Next

(***************************************************************************)
(* The inductive invariant: WindowsOnScreen alone is not inductive without  *)
(* the types, and GripHolds needs WindowsOnScreen, because the place of the *)
(* window is what keeps the cursor from being stopped below its title bar.  *)
(***************************************************************************)
THEOREM MouseInvHolds == Spec => []MouseInv
<1>1. Init => MouseInv
  BY InitInv
<1>2. MouseInv /\ [Next]_vars => MouseInv'
  BY NextKeepsInv
<1> QED BY <1>1, <1>2, PTL DEF Spec

(***************************************************************************)
(* However windows are opened, dragged and closed, all of a window and the  *)
(* cursor stay on the screen (gui_window.c:238, mouse.c:177).               *)
(***************************************************************************)
THEOREM WindowsStayOnScreen == Spec => []WindowsOnScreen
<1>1. MouseInv => WindowsOnScreen
  BY DEF MouseInv
<1> QED BY <1>1, MouseInvHolds, PTL

(***************************************************************************)
(* A drag never loses the title bar it took, whatever stops the window or   *)
(* the cursor, and whichever other window is closed meanwhile               *)
(* (gui_window.c:241-256, mouse.c:170-189).                                 *)
(***************************************************************************)
THEOREM GripAlwaysHolds == Spec => []GripHolds
<1>1. MouseInv => GripHolds
  BY DEF MouseInv
<1> QED BY <1>1, MouseInvHolds, PTL

-----------------------------------------------------------------------------
(***************************************************************************)
(* Every window is in the stack once.                                       *)
(***************************************************************************)
Stacked ==
  /\ IsInjective(window_stack) /\ gui_term_button_pressed \in BOOLEAN
  /\ Len(suspended) <= MAX_SUSPENDED

LEMMA RemoveInjective ==
  ASSUME NEW S, NEW s \in Seq(S), IsInjective(s), NEW k \in DOMAIN s
  PROVE  IsInjective(RemoveAt(s, k)) /\ s[k] \notin ToSet(RemoveAt(s, k))
<1> DEFINE r == RemoveAt(s, k)
           Old(i) == IF i < k THEN i ELSE i + 1
<1>1. /\ r \in Seq(S) /\ Len(r) = Len(s) - 1
      /\ \A i \in 1..(Len(s) - 1) : r[i] = IF i < k THEN s[i] ELSE s[i + 1]
  BY RemoveFacts
<1> HIDE DEF r
<1>2. /\ DOMAIN r = 1..(Len(s) - 1) /\ DOMAIN s = 1..Len(s) /\ k \in 1..Len(s)
      /\ Len(s) \in Nat
  BY <1>1
<1>3. \A i \in DOMAIN r : /\ Old(i) \in DOMAIN s /\ Old(i) # k /\ r[i] = s[Old(i)]
  BY <1>1, <1>2
<1>4. \A i, j \in DOMAIN r : Old(i) = Old(j) => i = j
  BY <1>2
<1> HIDE DEF Old
<1>5. IsInjective(r)
  BY <1>3, <1>4 DEF IsInjective
<1>6. s[k] \notin ToSet(r)
  BY <1>3 DEF ToSet, IsInjective
<1> QED BY <1>5, <1>6 DEF r

LEMMA ConsInjective ==
  ASSUME NEW S, NEW s \in Seq(S), IsInjective(s), NEW w \in S, w \notin ToSet(s)
  PROVE  IsInjective(<<w>> \o s)
<1> DEFINE c == <<w>> \o s
<1>1. /\ c \in Seq(S) /\ Len(c) = Len(s) + 1 /\ c[1] = w
      /\ \A i \in 1..Len(s) : c[i + 1] = s[i]
  <2>1. /\ <<w>> \in Seq(S) /\ Len(<<w>>) = 1 /\ <<w>>[1] = w /\ Len(s) \in Nat
    OBVIOUS
  <2>2. /\ c \in Seq(S) /\ Len(c) = Len(<<w>>) + Len(s)
        /\ \A i \in 1..(Len(<<w>>) + Len(s)) :
             c[i] = IF i <= Len(<<w>>) THEN <<w>>[i] ELSE s[i - Len(<<w>>)]
    BY <2>1, ConcatProperties
  <2> HIDE DEF c
  <2>3. ASSUME NEW i \in 1..Len(s) PROVE c[i + 1] = s[i]
    <3>1. i + 1 \in 1..(1 + Len(s)) /\ ~(i + 1 <= 1) /\ (i + 1) - 1 = i
      BY <2>1
    <3> QED BY <2>1, <2>2, <3>1
  <2> QED BY <2>1, <2>2, <2>3
<1> HIDE DEF c
<1>2. DOMAIN c = 1..(Len(s) + 1) /\ DOMAIN s = 1..Len(s) /\ Len(s) \in Nat
  BY <1>1
<1>3. \A i \in DOMAIN c : i = 1 \/ (i - 1 \in DOMAIN s /\ c[i] = s[i - 1])
  <2> TAKE i \in DOMAIN c
  <2>1. i # 1 => i - 1 \in 1..Len(s) /\ (i - 1) + 1 = i
    BY <1>2
  <2> QED BY <1>1, <1>2, <2>1
<1>4. \A i \in DOMAIN s : s[i] # w
  BY DEF ToSet
<1>5. ASSUME NEW i \in DOMAIN c, NEW j \in DOMAIN c, c[i] = c[j] PROVE i = j
  <2>1. CASE i = 1 \/ j = 1
    BY <1>1, <1>3, <1>4, <1>5, <2>1
  <2>2. CASE i # 1 /\ j # 1
    <3>1. i - 1 = j - 1
      BY <1>3, <1>5, <2>2 DEF IsInjective
    <3> QED BY <1>2, <3>1
  <2> QED BY <2>1, <2>2
<1> QED BY <1>5 DEF IsInjective, c

\* A press brings a window to the top from its place, a shell is given a window
\* that is not in the stack.
LEMMA StackStep ==
  ASSUME MouseInv, Stacked, [Next]_vars
  PROVE  IsInjective(window_stack)'
<1>0. window_stack \in Seq(Window) /\ IsInjective(window_stack)
  BY DEF MouseInv, Types, Stacked
<1>1. \A k \in DOMAIN window_stack :
        /\ RemoveAt(window_stack, k) \in Seq(Window)
        /\ IsInjective(RemoveAt(window_stack, k))
        /\ window_stack[k] \notin ToSet(RemoveAt(window_stack, k))
        /\ window_stack[k] \in Window
  BY <1>0, RemoveInjective, RemoveFacts, ElementOfSeq
<1>2. CASE \/ UNCHANGED window_stack
           \/ \E k \in DOMAIN window_stack : window_stack' = RemoveAt(window_stack, k)
  BY <1>0, <1>1, <1>2
<1>3. CASE \E k \in DOMAIN window_stack :
             window_stack' = <<window_stack[k]>> \o RemoveAt(window_stack, k)
  BY <1>1, <1>3, ConsInjective
<1>4. CASE \E m \in Moves : OpenShell(m)
  <2>1. \E w \in Window \ Opened : window_stack' = <<w>> \o window_stack
    <3> DEFINE w == Lowest(Window \ Opened)
    <3>1. Opened # Window /\ window_stack' = <<w>> \o window_stack
      BY <1>4 DEF OpenShell
    <3>2. w \in Window \ Opened
      BY <3>1, LowestIsIn
    <3> HIDE DEF w
    <3> QED BY <3>1, <3>2
  <2> QED BY <1>0, <2>1, ConsInjective DEF Opened
<1>5. \/ UNCHANGED window_stack
      \/ \E k \in DOMAIN window_stack : window_stack' = RemoveAt(window_stack, k)
      \/ \E k \in DOMAIN window_stack :
           window_stack' = <<window_stack[k]>> \o RemoveAt(window_stack, k)
      \/ \E m \in Moves : OpenShell(m)
  <2>1. ASSUME NEW m \in Moves, mouse_interrupt_handler(m) PROVE <1>5
    <3>1. CASE Move(m) \/ ReleaseElsewhere(m)
      BY <3>1 DEF Move, ReleaseElsewhere, guiVars
    <3>2. CASE Press(m)
      BY <3>2 DEF Press, gui_handle_mouse_press, PressOutside, PressInside, Hits
    <3>3. CASE CloseOther(m) \/ CloseInterrupted
      <4>1. window_stack # <<>> /\ window_stack' \in {window_stack, RemoveAt(window_stack, 1)}
        BY <3>3 DEF CloseOther, CloseInterrupted, OnRed, TopMayClose, Without
      <4>2. 1 \in DOMAIN window_stack
        BY <1>0, <4>1
      <4> QED BY <4>1, <4>2
    <3>4. CASE OpenShell(m)
      BY <3>4
    <3> QED BY <2>1, <3>1, <3>2, <3>3, <3>4 DEF mouse_interrupt_handler
  <2>2. ASSUME NEW k \in DOMAIN suspended, GoOn(k) PROVE UNCHANGED window_stack
    BY <2>2 DEF GoOn, guiVars
  <2>3. ASSUME NEW k \in DOMAIN window_stack, ShellHalts(k)
        PROVE  window_stack' = RemoveAt(window_stack, k)
    BY <2>3 DEF ShellHalts, Without
  <2>4. CASE UNCHANGED vars
    BY <2>4 DEF vars, guiVars
  <2> QED BY <2>1, <2>2, <2>3, <2>4 DEF Next
<1> QED BY <1>2, <1>3, <1>4, <1>5

\* The other two: a handler waits only while there is room.
LEMMA ButtonAndWaiting ==
  ASSUME MouseInv, Stacked, [Next]_vars
  PROVE  gui_term_button_pressed' \in BOOLEAN /\ Len(suspended') <= MAX_SUSPENDED
<1>0. /\ suspended \in Seq(Moves) /\ Len(suspended) <= MAX_SUSPENDED
      /\ Len(suspended) \in Nat /\ MAX_SUSPENDED \in Nat
      /\ gui_term_button_pressed \in BOOLEAN
  BY SizesAssumption DEF MouseInv, Types, Stacked
<1>1. gui_term_button_pressed' \in BOOLEAN
  BY <1>0 DEF Next, mouse_interrupt_handler, Move, Press, CloseOther, CloseInterrupted,
       OpenShell, ReleaseElsewhere, GoOn, ShellHalts, gui_handle_mouse_press,
       PressOutside, PressInside, guiVars, vars
<1>2. \/ suspended' = suspended
      \/ \E k \in DOMAIN suspended : suspended' = RemoveAt(suspended, k)
      \/ Len(suspended) < MAX_SUSPENDED /\ \E m \in Moves : suspended' = Append(suspended, m)
  BY DEF Next, mouse_interrupt_handler, Move, Press, CloseOther, CloseInterrupted,
       OpenShell, ReleaseElsewhere, GoOn, ShellHalts, vars
<1>3. \A k \in DOMAIN suspended : Len(RemoveAt(suspended, k)) = Len(suspended) - 1
  BY <1>0, RemoveFacts
<1>4. \A m \in Moves : Len(Append(suspended, m)) = Len(suspended) + 1
  BY <1>0, AppendProperties
<1> QED BY <1>0, <1>1, <1>2, <1>3, <1>4

\* gui_activate_window, gui_new_window and gui_destroy_window keep every window in
\* window_stack at most once, and every variable its type.
THEOREM MouseTypes == Spec => []MouseTypeOK
<1>1. MouseInv /\ Stacked /\ [Next]_vars => Stacked'
  BY StackStep, ButtonAndWaiting DEF Stacked
<1>2. Init => Stacked
  <2> SUFFICES ASSUME Init PROVE Stacked
    OBVIOUS
  <2>1. /\ window_stack = <<>> /\ suspended = <<>>
        /\ gui_term_button_pressed = FALSE
    BY DEF Init
  <2>2. IsInjective(window_stack)
    BY <2>1 DEF IsInjective
  <2>3. Len(suspended) <= MAX_SUSPENDED
    BY <2>1, SizesAssumption
  <2>4. gui_term_button_pressed \in BOOLEAN
    BY <2>1
  <2> QED BY <2>2, <2>3, <2>4 DEF Stacked
<1>3. MouseInv /\ Stacked => MouseTypeOK
  BY DEF MouseInv, Types, Stacked, MouseTypeOK, Point
<1> QED BY <1>1, <1>2, <1>3, MouseInvHolds, PTL DEF Spec
=============================================================================
