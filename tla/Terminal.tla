------------------------------ MODULE Terminal ------------------------------
(***************************************************************************)
(* The line buffer of a terminal (terminal.c): what handle_scan_code stores *)
(* in key_buf, under the modifier keys held down, and what                  *)
(* system_terminal_read takes out of it, byte by byte.  Kernel.tla has many *)
(* terminals, focus and lists, and of a byte only whether it is a newline.  *)
(*                                                                          *)
(* There is one terminal, which has the focus, and one program that reads   *)
(* (or several of one window, a shell and what it runs), in several sizes.  *)
(* A reader that is woken runs at once, with interrupts still off: waking   *)
(* it and the rest of its read are one step.                                *)
(***************************************************************************)
EXTENDS Integers, Sequences, SequencesExt, FiniteSets

CONSTANTS
  KEYBOARD_BUF_SIZE,
  Keys,       \* the keys the user presses
  ReadSizes,  \* nbytes of the program's reads, after the cap at the buffer size
  MAX_HELD,   \* bound: keys held down at the same time
  LEAST_WRAPPED  \* bound: a count that has wrapped is not erased below it

Shifts  == {"lshift", "rshift"}
Letters == {"c", "l"}
Symbols == {"one"}
AllKeys == Shifts \cup Letters \cup Symbols \cup {"ctrl", "caps", "enter", "back"}

ASSUME TerminalAssumption ==
  /\ KEYBOARD_BUF_SIZE \in 1..255
  /\ Keys \subseteq AllKeys
  /\ ReadSizes \subseteq 1..KEYBOARD_BUF_SIZE
  /\ MAX_HELD \in Nat
  /\ LEAST_WRAPPED \in 0..255

VARIABLES
  key_flags,       \* keys held down
  capslock_status,
  key_buf,         \* all its bytes, those behind the count included
  key_buf_cnt,     \* uint8_t
  user_ask_len,    \* what the sleeping reader asked for, or 0
  typed,           \* history: what was typed since the last line was taken
  reply,           \* history: the read that returned in this step, if one did
  wrapped          \* history: a read has deleted more than there was

termVars == <<key_buf, key_buf_cnt, user_ask_len>>
vars == <<key_flags, capslock_status, termVars, typed, reply, wrapped>>

\* Bytes are pairs; a printable one is the table and the key it is from.
NUL == <<"none", "nul">>
Newline == <<"none", "enter">>
NoReply == [asked |-> 0, gave |-> <<>>, had |-> <<>>, wrapped |-> FALSE]

uint8(n) == n % 256

\* The byte behind the array is key_buf_cnt, which is no newline then; those
\* that a wrong count lets the shifting loop fetch from there are like it.
ByteAt(buf, i) == IF i < KEYBOARD_BUF_SIZE THEN buf[i] ELSE NUL

\* A byte stored behind the array hits other fields, which are not modelled.
Put(buf, i, c) == IF i < KEYBOARD_BUF_SIZE THEN [buf EXCEPT ![i] = c] ELSE buf

(***************************************************************************)
(* The four scan code tables.  The upper of a symbol is the sign above it.  *)
(***************************************************************************)
Lower(k) == <<"lower", k>>
Upper(k) == <<"upper", k>>
scan_code_table(k)            == Lower(k)
shift_scan_code_table(k)      == Upper(k)
caps_scan_code_table(k)       == IF k \in Letters THEN Upper(k) ELSE Lower(k)
caps_shift_scan_code_table(k) == IF k \in Letters THEN Lower(k) ELSE Upper(k)

Shifted(h) == h \cap Shifts # {}

Character(k, h) ==
  CASE capslock_status /\ Shifted(h) -> caps_shift_scan_code_table(k)
    [] capslock_status /\ ~Shifted(h) -> caps_scan_code_table(k)
    [] ~capslock_status /\ Shifted(h) -> shift_scan_code_table(k)
    [] OTHER -> scan_code_table(k)

-----------------------------------------------------------------------------
(***************************************************************************)
(* system_terminal_read.  The scan stops at a newline, at the count or at   *)
(* nbytes; the byte it stops at is looked at again when the line is deleted,*)
(* and then even if it is behind the count: a newline that an earlier line  *)
(* left there is deleted again, and the count wraps around.  A count beyond *)
(* the array sends the shifting loop over the fields behind it, which are   *)
(* key_buf_cnt, user_ask_len (0 by then) and padding: for up to three       *)
(* deleted bytes the count becomes 0, which ends the loop.                  *)
(***************************************************************************)
Scan(buf, cnt, nbytes) ==
  Min({i \in 0..nbytes : i = nbytes \/ i >= cnt \/ buf[i] = Newline})

ToDelete(buf, i) == IF ByteAt(buf, i) = Newline THEN i + 1 ELSE i

\* The history of a read: a line, or nbytes of it, has been taken.
Taken(t, n) ==
  LET i == CHOOSE k \in 0..n : /\ k <= Len(t) /\ \A j \in 1..k : t[j] # Newline
                               /\ k = n \/ k = Len(t) \/ t[k + 1] = Newline
  IN  IF i < Len(t) /\ t[i + 1] = Newline THEN SubSeq(t, i + 2, Len(t))
                                         ELSE SubSeq(t, i + 1, Len(t))

\* The read of nbytes ends, with buf and cnt in the buffer and t typed.
FinishRead(buf, cnt, nbytes, t) ==
  LET i   == Scan(buf, cnt, nbytes)
      del == ToDelete(buf, i)
      count == IF cnt > KEYBOARD_BUF_SIZE + del THEN 0 ELSE cnt
  IN  /\ user_ask_len' = 0
      /\ key_buf' = [j \in DOMAIN buf |->
                       IF j + del < cnt THEN ByteAt(buf, j + del) ELSE buf[j]]
      /\ key_buf_cnt' = uint8(count - del)
      /\ wrapped' = (wrapped \/ del > cnt)
      /\ reply' = [asked |-> nbytes, gave |-> [k \in 1..i |-> buf[k - 1]],
                   had |-> t, wrapped |-> wrapped]
      /\ typed' = Taken(t, nbytes)

\* A line, or nbytes, is there.
Enough(nbytes) ==
  LET i == Scan(key_buf, key_buf_cnt, nbytes)
  IN  i = nbytes \/ (i < key_buf_cnt /\ key_buf[i] = Newline)

system_terminal_read(nbytes) ==
  /\ user_ask_len = 0
  /\ IF Enough(nbytes)
     THEN FinishRead(key_buf, key_buf_cnt, nbytes, typed)
     ELSE /\ user_ask_len' = nbytes
          /\ reply' = NoReply
          /\ UNCHANGED <<key_buf, key_buf_cnt, typed, wrapped>>
  /\ UNCHANGED <<key_flags, capslock_status>>

-----------------------------------------------------------------------------
(***************************************************************************)
(* handle_scan_code, in the order in which it looks at the keys.            *)
(***************************************************************************)
Release(k) ==
  /\ k \in key_flags
  /\ key_flags' = key_flags \ {k}
  /\ reply' = NoReply
  /\ UNCHANGED <<capslock_status, termVars, typed, wrapped>>

\* Also a key that repeats.
Press(k) ==
  /\ k \in key_flags \/ (k \in Keys /\ Cardinality(key_flags) < MAX_HELD)
  /\ key_flags' = key_flags \cup {k}

NoRead == UNCHANGED <<user_ask_len, wrapped>> /\ reply' = NoReply

EnterReader ==
  /\ Press("enter")
  /\ user_ask_len # 0
  /\ FinishRead(Put(key_buf, key_buf_cnt, Newline), uint8(key_buf_cnt + 1),
                user_ask_len, Append(typed, Newline))
  /\ UNCHANGED capslock_status

\* Slip: only the line on the screen is ended.
EnterKeepsBuffer ==
  /\ Press("enter")
  /\ user_ask_len = 0
  /\ typed' = <<>>
  /\ NoRead
  /\ UNCHANGED <<capslock_status, key_buf, key_buf_cnt>>

\* Nobody reads: what was typed is forgotten, and a wrapped count with it.
EnterNobody ==
  /\ Press("enter")
  /\ user_ask_len = 0
  /\ key_buf_cnt' = 0
  /\ typed' = <<>>
  /\ wrapped' = FALSE
  /\ reply' = NoReply
  /\ UNCHANGED <<capslock_status, key_buf, user_ask_len>>

CapsLock ==
  /\ Press("caps")
  /\ capslock_status' = ~capslock_status
  /\ NoRead
  /\ UNCHANGED <<key_buf, key_buf_cnt, typed>>

\* Ctrl+C (a signal, Signal.tla) and Ctrl+L (the screen) type nothing.
Control(h) == "ctrl" \in h /\ h \cap Letters # {}

ControlKey(k) ==
  /\ k \notin {"enter", "caps"}
  /\ Press(k)
  /\ Control(key_flags')
  /\ NoRead
  /\ UNCHANGED <<capslock_status, key_buf, key_buf_cnt, typed>>

\* Slip: the reader is woken one byte late.
WakesLate(cnt) == user_ask_len > 0 /\ cnt > user_ask_len

Wakes(cnt) == user_ask_len > 0 /\ cnt >= user_ask_len

\* The buffer is now buf with cnt bytes; wake the reader if that is enough.
Edited(buf, cnt, t) ==
  IF Wakes(cnt) THEN FinishRead(buf, cnt, user_ask_len, t)
  ELSE /\ key_buf' = buf
       /\ key_buf_cnt' = cnt
       /\ typed' = t
       /\ NoRead

\* Backspace is held, or pressed: any key erases.
Erase(k) ==
  /\ k \notin {"enter", "caps"}
  /\ Press(k)
  /\ ~Control(key_flags') /\ "back" \in key_flags'
  /\ wrapped => key_buf_cnt > LEAST_WRAPPED
  /\ IF key_buf_cnt > 0
     THEN Edited(key_buf, key_buf_cnt - 1, SubSeq(typed, 1, Len(typed) - 1))
     ELSE Edited(key_buf, key_buf_cnt, typed)
  /\ UNCHANGED capslock_status

\* What the user means: shift is a capital or a sign, the lock reverses letters.
Meant(k, h) == IF Shifted(h) # (k \in Letters /\ capslock_status)
               THEN Upper(k) ELSE Lower(k)

\* Slip: the buffer is never full.
NeverFull(cnt) == TRUE

HasRoom(cnt) == cnt < KEYBOARD_BUF_SIZE - 1

Type(k) ==
  /\ k \in Letters \cup Symbols
  /\ Press(k)
  /\ ~Control(key_flags') /\ "back" \notin key_flags'
  /\ IF HasRoom(key_buf_cnt)
     THEN Edited(Put(key_buf, key_buf_cnt, Character(k, key_flags')),
                 key_buf_cnt + 1, Append(typed, Meant(k, key_flags')))
     ELSE Edited(key_buf, key_buf_cnt, typed)
  /\ UNCHANGED capslock_status

\* Ctrl and shift alone type nothing.
Modifier(k) ==
  /\ k \in Shifts \cup {"ctrl"}
  /\ Press(k)
  /\ ~Control(key_flags') /\ "back" \notin key_flags'
  /\ Edited(key_buf, key_buf_cnt, typed)
  /\ UNCHANGED capslock_status

-----------------------------------------------------------------------------
\* terminal_allocate
Init ==
  /\ key_flags = {}
  /\ capslock_status = FALSE
  /\ key_buf = [i \in 0..(KEYBOARD_BUF_SIZE - 1) |-> NUL]
  /\ key_buf_cnt = 0
  /\ user_ask_len = 0
  /\ typed = <<>>
  /\ reply = NoReply
  /\ wrapped = FALSE

Next ==
  \/ \E k \in Keys : \/ Release(k) \/ ControlKey(k) \/ Erase(k)
                     \/ Type(k) \/ Modifier(k)
  \/ EnterReader
  \/ EnterNobody
  \/ CapsLock
  \/ \E n \in ReadSizes : system_terminal_read(n)

Spec == Init /\ [][Next]_vars

-----------------------------------------------------------------------------
(* Properties *)

\* Types; the keys held stay within their array, and so does the count, a
\* uint8_t, unless system_terminal_read has made it wrap.
TermTypeOK ==
  /\ key_flags \subseteq Keys /\ Cardinality(key_flags) <= MAX_HELD
  /\ capslock_status \in BOOLEAN
  /\ key_buf_cnt \in 0..(IF wrapped THEN 255 ELSE KEYBOARD_BUF_SIZE - 1)
  /\ user_ask_len \in ReadSizes \cup {0}

(***************************************************************************)
(* A read returns "When enter is pressed or nbytes (< 128) is reached"      *)
(* (terminal.c:299), with what was typed and nothing else: a beginning of   *)
(* it that is nbytes long or ends at an Enter, whatever was erased, typed   *)
(* ahead or left behind in the buffer by earlier lines.                     *)
(***************************************************************************)
EveryReadGivesTyped ==
  LET n == Len(reply.gave)
  IN  /\ IsPrefix(reply.gave, reply.had)
      /\ n = reply.asked \/ (n < Len(reply.had) /\ reply.had[n + 1] = Newline)

\* So it is as long as no read has found an old newline right behind what was
\* typed (the read that does is still right), and again once a line that nobody
\* reads has reset the count.
ReadGivesTyped == reply.wrapped \/ EveryReadGivesTyped

(***************************************************************************)
(* A reader sleeps only while it has to: as long as it does, neither a      *)
(* whole line nor nbytes characters have been typed.  This says nothing of  *)
(* a wrapped count.                                                         *)
(***************************************************************************)
SleeperWaits ==
  ~wrapped /\ user_ask_len # 0 =>
    Len(typed) < user_ask_len /\ \A i \in DOMAIN typed : typed[i] # Newline
=============================================================================
