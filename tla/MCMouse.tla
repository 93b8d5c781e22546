------------------------------ MODULE MCMouse ------------------------------
(***************************************************************************)
(* A screen of 8 x 6 and windows of 6 x 4, whose buttons are one pixel      *)
(* each.  Packets move the cursor by one or two pixels, so that it can stop *)
(* at an edge of the screen with and without a window.                      *)
(***************************************************************************)
EXTENDS Mouse

Button(left) == [left |-> left, up |-> 2, width |-> 1, height |-> 1]
MCRed    == Button(0)
MCYellow == Button(1)
MCGreen  == Button(2)

MCStart == [x |-> 6, y |-> 0]

By(dx, dy) == [dx |-> dx, dy |-> dy]
MCMoves == {By(2, 0), By(-1, 0), By(0, 1), By(0, -2)}
=============================================================================
