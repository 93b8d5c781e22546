------------------------------ MODULE MCDisplay ------------------------------
(***************************************************************************)
(* A screen of 27 x 12 points.  A character is 3 x 2, a terminal two lines  *)
(* of two characters, a window 8 x 7.  Proportions that matter are those of *)
(* the code: the side border is narrower than a character less one point,   *)
(* the title bar is not, a bank holds several lines, a half several banks.  *)
(***************************************************************************)
EXTENDS Display

Button(left) == [left |-> left, up |-> 2, width |-> 1, height |-> 1]
MCRed    == Button(0)
MCYellow == Button(1)
MCGreen  == Button(2)
MCGrey   == [width |-> 1, height |-> 1]
MCTerminalB == [x |-> 0, y |-> 0, width |-> 1, height |-> 1]
MCClock     == [x |-> 2, y |-> 0]
MCTime      == <<1, 2, 7, 3, 4, 7, 5, 6>>
MCPositions == [x |-> {1, 5, 10}, y |-> {2, 5}]
=============================================================================
