------------------------------- MODULE Calls --------------------------------
(***************************************************************************)
(* The system calls as one program sees them: what a call returns, and what *)
(* it does to the program's descriptors (idt_asm.S, file_system.c, rtc.c,   *)
(* terminal.c, vidmem.c).                                                   *)
(*                                                                          *)
(* That a read of a file returns its next bytes, whatever other programs do *)
(* meanwhile, is shown in Files.tla; here a file is a sequence of           *)
(* characters, and a call that sleeps takes no time.                        *)
(***************************************************************************)
EXTENDS Library

CONSTANTS
  MAX_OPEN_FILE,
  FILE_NAME_LENGTH,
  SYSTEM_CALL_TABLE_SIZE

ASSUME CallsAssumption ==
  /\ MAX_OPEN_FILE \in Nat /\ MAX_OPEN_FILE >= 2
  /\ SYSTEM_CALL_TABLE_SIZE \in Nat

VARIABLES
  image,                 \* the directory: name, type and data of every file
  opened_files,          \* file_array of the program
  current_open_file_num

fileVars == <<opened_files, current_open_file_num>>

Fd == 0..(MAX_OPEN_FILE - 1)
Free == [op |-> "none", data |-> <<>>, position |-> 0]
Opened(file) == [op |-> file.type, data |-> file.data, position |-> 0]
Terminal == [op |-> "terminal", data |-> <<>>, position |-> 0]

init_file_array == [fd \in Fd |-> IF fd \in {0, 1} THEN Terminal ELSE Free]

Valid(fd) == fd \in Fd /\ opened_files[fd] # Free

\* What a call returned, and the bytes it stored
Returns(value) == [value |-> value, data |-> <<>>]
Delivers(data) == [value |-> Len(data), data |-> data]
FAILS == Returns(-1)

-----------------------------------------------------------------------------
Matches(name) == {i \in DOMAIN image : image[i].name = name}
read_dentry_by_name(name) == image[Min(Matches(name))]

CanOpen(name) == current_open_file_num < MAX_OPEN_FILE /\ Matches(name) # {}
get_free_fd == Min({fd \in Fd : opened_files[fd] = Free})

open_returns(name) == IF CanOpen(name) THEN get_free_fd ELSE -1
system_open(name) ==
  IF CanOpen(name)
  THEN /\ opened_files' =
            [opened_files EXCEPT ![get_free_fd] = Opened(read_dentry_by_name(name))]
       /\ current_open_file_num' = current_open_file_num + 1
  ELSE UNCHANGED fileVars

\* Slip: stdin and stdout are closed like the others.
close_returns_for_any(fd) == IF Valid(fd) THEN 0 ELSE -1

close_returns(fd) == IF fd \notin {0, 1} /\ Valid(fd) THEN 0 ELSE -1
system_close(fd) ==
  IF close_returns(fd) = 0
  THEN /\ opened_files' = [opened_files EXCEPT ![fd] = Free]
       /\ current_open_file_num' = current_open_file_num - 1
  ELSE UNCHANGED fileVars

\* A name fills its entry with NULs.
Padded(name) == [i \in 1..FILE_NAME_LENGTH |->
                   IF i > Len(name) THEN NUL ELSE name[i]]
At(n, limit) == IF n < limit THEN n ELSE limit

dir_read(e, nbytes) ==
  IF e.position >= Len(image) THEN Returns(0)
  ELSE Delivers(SubSeq(Padded(image[e.position + 1].name), 1, At(nbytes, FILE_NAME_LENGTH)))

file_read(e, nbytes) ==
  Delivers(SubSeq(e.data, e.position + 1, At(e.position + nbytes, Len(e.data))))

\* typed: the line that the terminal gives, which is shorter than any buffer.
read_returns(fd, nbytes, typed) ==
  IF ~Valid(fd) THEN FAILS
  ELSE LET e == opened_files[fd]
       IN  CASE e.op = "terminal" -> IF fd = 0 THEN Delivers(typed) ELSE FAILS
             [] e.op = "rtc"      -> Returns(0)
             [] e.op = "dir"      -> dir_read(e, nbytes)
             [] e.op = "file"     -> file_read(e, nbytes)

system_read(fd, nbytes) ==
  /\ opened_files' =
       IF ~Valid(fd) THEN opened_files
       ELSE LET e == opened_files[fd]
            IN  [opened_files EXCEPT ![fd].position =
                   CASE e.op = "dir" /\ e.position < Len(image) -> @ + 1
                     [] e.op = "file" -> @ + file_read(e, nbytes).value
                     [] OTHER -> @]
  /\ UNCHANGED current_open_file_num

\* frequency: what the buffer holds if it has four bytes
is_power_of_two(n) == \E k \in 0..10 : n = 2^k
write_returns(fd, nbytes, frequency) ==
  IF ~Valid(fd) THEN -1
  ELSE CASE opened_files[fd].op = "terminal" -> IF fd = 1 THEN nbytes ELSE -1
         [] opened_files[fd].op = "rtc" ->
              IF nbytes = 4 /\ is_power_of_two(frequency) THEN 0 ELSE -1
         [] OTHER -> -1

\* A pointer is in the program, or it is not.
vidmap_returns(screen_start) == IF screen_start = "user" THEN 0 ELSE -1

\* EAX is compared as an unsigned number; entry 0 is sys_not_implemented.
NotImplemented(eax) == eax <= 0 \/ eax >= SYSTEM_CALL_TABLE_SIZE
=============================================================================
