------------------------------- MODULE Files --------------------------------
(***************************************************************************)
(* The file system calls (file_system.c): the read-only image loaded at     *)
(* boot, and the table of open files of every task.                         *)
(*                                                                          *)
(* What an RTC or a terminal descriptor does when read or written is in     *)
(* Rtc.tla and Kernel.tla: neither changes the table.  write on a file or   *)
(* on the directory is refused and changes nothing.  All interrupts are off *)
(* in the kernel, so a call is one step; Switch comes between two calls.    *)
(***************************************************************************)
EXTENDS Integers, Sequences, SequencesExt, FiniteSetsExt

CONSTANTS
  Task,          \* PCB slots
  KernelTask,    \* init or idle, which open nothing
  MAX_OPEN_FILE,
  BLOCK_SIZE,    \* FILE_BLOCK_SIZE_IN_BYTES
  dir_entries,   \* boot block: the directory, a sequence of dentries
  inodes,        \* inode number -> length_in_bytes and data_block_num
  data_blocks,   \* data block number -> the bytes of the block
  Name,          \* names that programs open, those of no file included
  ReadSize       \* how many bytes programs ask for at a time

RTC_TYPE  == 0
DIR_TYPE  == 1
FILE_TYPE == 2

ASSUME FilesAssumption ==
  /\ KernelTask \notin Task
  /\ MAX_OPEN_FILE \in Nat /\ MAX_OPEN_FILE >= 2
  /\ BLOCK_SIZE \in Nat \ {0}
  /\ ReadSize \subseteq Nat \ {0}

VARIABLES
  opened_files,          \* file_array of every task: its descriptors,
  current_open_file_num, \* and how many of them are in use
  live,                  \* valid tasks
  running,               \* running_task()
  got,                   \* history: what each descriptor gave since its open,
  reply                  \* and how its last read ended

vars == <<opened_files, current_open_file_num, live, running, got, reply>>

Fd == 0..(MAX_OPEN_FILE - 1)
Standard == {0, 1}                        \* stdin and stdout
Free == [op |-> "none", inode |-> 0, file_position |-> 0]   \* FD_NOT_IN_USE
Opened(op, inode) == [op |-> op, inode |-> inode, file_position |-> 0]
Used(table) == {fd \in Fd : table[fd] # Free}
InUse(t) == Used(opened_files[t])

-----------------------------------------------------------------------------
(***************************************************************************)
(* The image.                                                               *)
(***************************************************************************)

\* read_dentry_by_name, which takes the first match
Matches(name) == {i \in DOMAIN dir_entries : dir_entries[i].file_name = name}
read_dentry_by_name(name) == dir_entries[Min(Matches(name))]

FileLength(inode) == inodes[inode].length_in_bytes
BlockOf(inode, offset) == inodes[inode].data_block_num[offset \div BLOCK_SIZE]
ByteIn(block, offset) == data_blocks[block][(offset % BLOCK_SIZE) + 1]

\* The word behind data_block_num, which the code reads at the end of a file
\* of maximal length, is part of inodes like the entries before it.
GoodBlock(inode, offset) ==
  /\ offset \div BLOCK_SIZE \in DOMAIN inodes[inode].data_block_num
  /\ BlockOf(inode, offset) \in DOMAIN data_blocks

\* The image is healthy: every byte of every file is in a block.
FileInodes == {dir_entries[i].inode_num :
                 i \in {j \in DOMAIN dir_entries :
                           dir_entries[j].file_type = FILE_TYPE}}

ASSUME ImageAssumption ==
  /\ dir_entries \in Seq({dir_entries[i] : i \in DOMAIN dir_entries})
  /\ \A i \in DOMAIN dir_entries :
       /\ dir_entries[i].file_type \in {RTC_TYPE, DIR_TYPE, FILE_TYPE}
       /\ dir_entries[i].inode_num \in Nat
  /\ \A n \in FileInodes :
       /\ n \in DOMAIN inodes
       /\ FileLength(n) \in Nat
       /\ \A p \in 0..(FileLength(n) - 1) : GoodBlock(n, p)

\* Where the loop of read_data stops: after length bytes, at the end of the
\* file, or at a block boundary behind which there is no good block.
StopsAt(inode, offset, length, p) ==
  \/ p = offset + length
  \/ p >= FileLength(inode)
  \/ p > offset /\ p % BLOCK_SIZE = 0 /\ ~GoodBlock(inode, p)

\* read_data refuses, with -1.
Bad(inode, offset) == inode \notin DOMAIN inodes \/ ~GoodBlock(inode, offset)

Stop(inode, offset, length) ==
  Min({p \in offset..(offset + length) : StopsAt(inode, offset, length, p)})

\* Slip: the block number is not looked up again at a block boundary.
read_data_same_block(inode, offset, length) ==
  [i \in 1..(Stop(inode, offset, length) - offset) |->
     ByteIn(BlockOf(inode, offset), offset + i - 1)]

\* read_data: the bytes it puts into the buffer
read_data(inode, offset, length) ==
  [i \in 1..(Stop(inode, offset, length) - offset) |->
     ByteIn(BlockOf(inode, offset + i - 1), offset + i - 1)]

-----------------------------------------------------------------------------
(***************************************************************************)
(* The table of the running task.                                           *)
(***************************************************************************)
InProgram == running \in Task

init_file_array ==
  [fd \in Fd |-> IF fd \in Standard THEN Opened("terminal", fd) ELSE Free]

get_free_fd == Min({fd \in Fd \ Standard : opened_files[running][fd] = Free})

\* dir_open and local_rtc_open store inode 0
Descriptor(dentry) ==
  CASE dentry.file_type = RTC_TYPE  -> Opened("rtc", 0)
    [] dentry.file_type = DIR_TYPE  -> Opened("dir", 0)
    [] dentry.file_type = FILE_TYPE -> Opened("file", dentry.inode_num)

\* Slip: the file is counted before it is known that there is one.
system_open_counts_first(name) ==
  /\ InProgram
  /\ current_open_file_num[running] < MAX_OPEN_FILE
  /\ current_open_file_num' = [current_open_file_num EXCEPT ![running] = @ + 1]
  /\ IF Matches(name) = {} THEN UNCHANGED <<opened_files, got, reply>>
     ELSE /\ opened_files' = [opened_files EXCEPT ![running][get_free_fd] =
                                Descriptor(read_dentry_by_name(name))]
          /\ got' = [got EXCEPT ![running][get_free_fd] = <<>>]
          /\ reply' = [reply EXCEPT ![running][get_free_fd] = "none"]
  /\ UNCHANGED <<live, running>>

\* A full table and a name of no file are refused.
system_open(name) ==
  /\ InProgram
  /\ current_open_file_num[running] < MAX_OPEN_FILE
  /\ Matches(name) # {}
  /\ opened_files' = [opened_files EXCEPT ![running][get_free_fd] =
                        Descriptor(read_dentry_by_name(name))]
  /\ current_open_file_num' = [current_open_file_num EXCEPT ![running] = @ + 1]
  /\ got' = [got EXCEPT ![running][get_free_fd] = <<>>]
  /\ reply' = [reply EXCEPT ![running][get_free_fd] = "none"]
  /\ UNCHANGED <<live, running>>

\* The close operations do nothing.  What stays in the entry is not read again.
system_close(fd) ==
  /\ InProgram
  /\ fd \in InUse(running) \ Standard
  /\ opened_files' = [opened_files EXCEPT ![running][fd] = Free]
  /\ current_open_file_num' = [current_open_file_num EXCEPT ![running] = @ - 1]
  /\ got' = [got EXCEPT ![running][fd] = <<>>]
  /\ reply' = [reply EXCEPT ![running][fd] = "none"]
  /\ UNCHANGED <<live, running>>

\* A read of fd returned these bytes, or these names, and moved the position.
Advances(fd, items, by) ==
  /\ opened_files' = [opened_files EXCEPT ![running][fd].file_position = @ + by]
  /\ got' = [got EXCEPT ![running][fd] = @ \o items]
  /\ reply' = [reply EXCEPT ![running][fd] =
                 IF items = <<>> THEN "end" ELSE "more"]
  /\ UNCHANGED <<current_open_file_num, live, running>>

Position(fd) == opened_files[running][fd].file_position

file_read_fails(fd) ==
  /\ InProgram
  /\ opened_files[running][fd].op = "file"
  /\ Bad(opened_files[running][fd].inode, Position(fd))
  /\ reply' = [reply EXCEPT ![running][fd] = "error"]
  /\ UNCHANGED <<opened_files, current_open_file_num, live, running, got>>

\* Slip: the position moves by what was asked for.
file_read_moves_nbytes(fd, nbytes) ==
  /\ InProgram
  /\ opened_files[running][fd].op = "file"
  /\ ~Bad(opened_files[running][fd].inode, Position(fd))
  /\ Advances(fd, read_data(opened_files[running][fd].inode, Position(fd), nbytes),
              nbytes)

file_read(fd, nbytes) ==
  /\ InProgram
  /\ opened_files[running][fd].op = "file"
  /\ ~Bad(opened_files[running][fd].inode, Position(fd))
  /\ LET data == read_data(opened_files[running][fd].inode, Position(fd), nbytes)
     IN  Advances(fd, data, Len(data))

\* dir_read, with a buffer that takes the name
dir_read(fd) ==
  /\ InProgram
  /\ opened_files[running][fd].op = "dir"
  /\ IF Position(fd) >= Len(dir_entries)
     THEN Advances(fd, <<>>, 0)
     ELSE Advances(fd, <<dir_entries[Position(fd) + 1].file_name>>, 1)

-----------------------------------------------------------------------------
(***************************************************************************)
(* Tasks come and go.                                                       *)
(***************************************************************************)

\* system_execute in slot t, which runs at once
Execute(t) ==
  /\ t \notin live
  /\ live' = live \cup {t}
  /\ running' = t
  /\ opened_files' = [opened_files EXCEPT ![t] = init_file_array]
  /\ current_open_file_num' = [current_open_file_num EXCEPT ![t] = 2]
  /\ got' = [got EXCEPT ![t] = [fd \in Fd |-> <<>>]]
  /\ reply' = [reply EXCEPT ![t] = [fd \in Fd |-> "none"]]

\* clear_file_array closes what the running task has open besides stdin, stdout.
clear_file_array ==
  /\ opened_files' = [opened_files EXCEPT ![running] =
                        [fd \in Fd |-> IF fd \in Standard THEN @[fd] ELSE Free]]
  /\ current_open_file_num' = [current_open_file_num EXCEPT ![running] =
                                 @ - Cardinality(InUse(running) \ Standard)]

\* The running task halts, and somebody else continues.
system_halt ==
  /\ InProgram
  /\ clear_file_array
  /\ live' = live \ {running}
  /\ running' \in live' \cup {KernelTask}
  /\ UNCHANGED <<got, reply>>

\* Its window is closed while another task runs: nothing is closed, and the
\* table is what it was until the slot is used again.
task_halt_terminal(t) ==
  /\ t \in live \ {running}
  /\ live' = live \ {t}
  /\ UNCHANGED <<opened_files, current_open_file_num, running, got, reply>>

\* Any switch: preemption, or a call that sleeps
Switch(t) ==
  /\ t \in (live \cup {KernelTask}) \ {running}
  /\ running' = t
  /\ UNCHANGED <<opened_files, current_open_file_num, live, got, reply>>

-----------------------------------------------------------------------------
Init ==
  /\ opened_files = [t \in Task |-> init_file_array]
  /\ current_open_file_num = [t \in Task |-> 2]
  /\ live = {}
  /\ running = KernelTask
  /\ got = [t \in Task |-> [fd \in Fd |-> <<>>]]
  /\ reply = [t \in Task |-> [fd \in Fd |-> "none"]]

Call ==
  \/ \E name \in Name : system_open(name)
  \/ \E fd \in Fd : system_close(fd) \/ dir_read(fd) \/ file_read_fails(fd)
  \/ \E fd \in Fd, n \in ReadSize : file_read(fd, n)
  \/ system_halt

Next ==
  \/ Call
  \/ \E t \in Task : Execute(t) \/ task_halt_terminal(t)
  \/ \E t \in Task \cup {KernelTask} : Switch(t)

Spec == Init /\ [][Next]_vars

-----------------------------------------------------------------------------
(* Properties *)

\* What reading descriptor e to its end should give
Contents(e) ==
  IF e.op = "dir" THEN [i \in DOMAIN dir_entries |-> dir_entries[i].file_name]
  ELSE [i \in 1..FileLength(e.inode) |->
          ByteIn(inodes[e.inode].data_block_num[(i - 1) \div BLOCK_SIZE], i - 1)]

Readable(t) == {fd \in Fd : opened_files[t][fd].op \in {"file", "dir"}}

\* Types; no position is behind the end of what it is a position in.
FilesTypeOK ==
  /\ live \subseteq Task
  /\ running \in live \cup {KernelTask}
  /\ \A t \in Task :
       /\ current_open_file_num[t] \in 2..MAX_OPEN_FILE
       /\ \A fd \in Standard : opened_files[t][fd].op = "terminal"
       /\ \A fd \in Readable(t) :
            opened_files[t][fd].file_position \in 0..Len(Contents(opened_files[t][fd]))

(***************************************************************************)
(* current_open_file_num counts the descriptors in use: "Get a fd, guarantee *)
(* by system_open that have space" (file_system.c:430) rests on it, and with *)
(* a wrong count get_free_fd returns a descriptor behind the table, or open  *)
(* fails for a program that has room.                                        *)
(***************************************************************************)
CountMatchesTable ==
  \A t \in Task : current_open_file_num[t] = Cardinality(InUse(t))

(***************************************************************************)
(* Reads of a descriptor give the file, or the names of the directory, in   *)
(* order and without a gap, however they are cut into pieces, across blocks *)
(* and whatever other descriptors and tasks do in between; "0 if offset     *)
(* reach the end of the file" (file_system.c:362), and only then.  The -1   *)
(* that a file of maximal length gives at its end (the word behind its last *)
(* entry is no block number) does not come before that either.              *)
(***************************************************************************)
ReadsInOrder ==
  \A t \in live : \A fd \in Readable(t) :
    LET whole == Contents(opened_files[t][fd])
    IN  /\ IsPrefix(got[t][fd], whole)
        /\ reply[t][fd] \in {"end", "error"} => got[t][fd] = whole
=============================================================================
