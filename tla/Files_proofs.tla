---------------------------- MODULE Files_proofs ----------------------------
(***************************************************************************)
(* Proofs about Files.tla, for any number of tasks and descriptors, any     *)
(* healthy image, any block size and any sizes of reads: the count of open  *)
(* files is right, and every descriptor gives its file once and in order.   *)
(***************************************************************************)
EXTENDS Files, FiniteSetTheorems, TLAPS

(***************************************************************************)
(* The inductive invariant.  What a descriptor gave is as long as its       *)
(* position, and agrees with the contents; what it may be a descriptor of   *)
(* is remembered from its open.                                             *)
(***************************************************************************)
Entry == [op : {"none", "terminal", "rtc", "dir", "file"},
          inode : Nat, file_position : Nat]

\* What reads give: bytes and names
Item == {ByteIn(b, p) : b \in DOMAIN data_blocks, p \in Nat}
          \cup {dir_entries[i].file_name : i \in DOMAIN dir_entries}

TableTypes ==
  /\ opened_files \in [Task -> [Fd -> Entry]]
  /\ current_open_file_num \in [Task -> Nat]
  /\ live \subseteq Task
  /\ running \in live \cup {KernelTask}
  /\ got \in [Task -> [Fd -> Seq(Item)]]
  /\ reply \in [Task -> [Fd -> {"none", "more", "end", "error"}]]

EntriesSound ==
  \A t \in Task :
    /\ \A fd \in Standard : opened_files[t][fd].op = "terminal"
    /\ \A fd \in Fd : opened_files[t][fd].op = "none" => opened_files[t][fd] = Free
    /\ \A fd \in Fd : opened_files[t][fd].op = "file"
                         => opened_files[t][fd].inode \in FileInodes

\* Descriptor e gave the items g, and its last read ended with r.
GaveSoFar(e, g, r) ==
  /\ e.file_position <= Len(Contents(e))
  /\ Len(g) = e.file_position
  /\ \A i \in 1..Len(g) : g[i] = Contents(e)[i]
  /\ r \in {"end", "error"} => e.file_position = Len(Contents(e))

GaveInOrder ==
  \A t \in Task : \A fd \in Readable(t) :
    GaveSoFar(opened_files[t][fd], got[t][fd], reply[t][fd])

FilesInv == TableTypes /\ EntriesSound /\ CountMatchesTable /\ GaveInOrder

-----------------------------------------------------------------------------
(***************************************************************************)
(* Lemmas about the image.                                                  *)
(***************************************************************************)
LEMMA DirIsSeq ==
  /\ Len(dir_entries) \in Nat
  /\ DOMAIN dir_entries = 1..Len(dir_entries)
  /\ RTC_TYPE = 0 /\ DIR_TYPE = 1 /\ FILE_TYPE = 2
BY ImageAssumption DEF RTC_TYPE, DIR_TYPE, FILE_TYPE

LEMMA DirContents ==
  ASSUME NEW e \in Entry, e.op = "dir"
  PROVE  /\ Contents(e) = [i \in 1..Len(dir_entries) |-> dir_entries[i].file_name]
         /\ Len(Contents(e)) = Len(dir_entries)
BY DirIsSeq DEF Contents

LEMMA FileContents ==
  ASSUME NEW e \in Entry, e.op = "file", e.inode \in FileInodes
  PROVE  /\ FileLength(e.inode) \in Nat
         /\ Contents(e) = [i \in 1..FileLength(e.inode) |->
                             ByteIn(BlockOf(e.inode, i - 1), i - 1)]
         /\ Len(Contents(e)) = FileLength(e.inode)
BY ImageAssumption DEF Contents, BlockOf

\* The smallest element of a set of naturals
LEMMA MinOfNats ==
  ASSUME NEW S \in SUBSET Nat, S # {}
  PROVE  Min(S) \in S /\ \A x \in S : Min(S) <= x
<1>1. \E x \in S : \A y \in S : x <= y
  <2>1. IsWellFoundedOn({p \in Nat \X Nat : p[1] < p[2]}, Nat)
    BY NatLessThanWellFounded DEF OpToRel
  <2>2. PICK m \in S : \A k \in S : <<k, m>> \notin {p \in Nat \X Nat : p[1] < p[2]}
    BY <2>1, WFMin
  <2>3. ASSUME NEW k \in S  PROVE m <= k
    <3>1. m \in Nat /\ k \in Nat
      OBVIOUS
    <3>2. ~(k < m)
      BY <2>2, <3>1
    <3> QED BY <3>1, <3>2
  <2> QED BY <2>3
<1> QED BY <1>1 DEF Min

(***************************************************************************)
(* read_data within a file gives bytes of the file, at least one before its *)
(* end, and does not pass the end.                                          *)
(***************************************************************************)
LEMMA StopInFile ==
  ASSUME NEW n \in FileInodes, NEW offset \in 0..FileLength(n),
         NEW length \in Nat \ {0}
  PROVE  /\ Stop(n, offset, length) \in offset..FileLength(n)
         /\ offset < FileLength(n) => offset < Stop(n, offset, length)
<1> DEFINE S == {p \in offset..(offset + length) : StopsAt(n, offset, length, p)}
<1>1. FileLength(n) \in Nat
  BY ImageAssumption
<1>2. S \in SUBSET Nat
  BY <1>1
<1>3. offset + length \in S
  BY <1>1 DEF StopsAt
<1>4. Min(S) \in S /\ \A x \in S : Min(S) <= x
  <2> HIDE DEF S
  <2> QED BY <1>2, <1>3, MinOfNats
<1>5. Min(S) <= FileLength(n)
  <2>1. CASE FileLength(n) <= offset + length
    <3>1. FileLength(n) \in S
      BY <1>1, <2>1 DEF StopsAt
    <3> QED BY <1>4, <3>1
  <2>2. CASE ~(FileLength(n) <= offset + length)
    BY <1>1, <1>4, <2>2
  <2> QED BY <2>1, <2>2
<1>6. ASSUME offset < FileLength(n)  PROVE  offset # Min(S)
  BY <1>1, <1>4, <1>6 DEF StopsAt
<1> QED BY <1>1, <1>4, <1>5, <1>6 DEF Stop

LEMMA ReadDataInFile ==
  ASSUME NEW n \in FileInodes, NEW offset \in 0..FileLength(n),
         NEW length \in Nat \ {0}
  PROVE  LET data == read_data(n, offset, length)
         IN  /\ data \in Seq(Item)
             /\ Len(data) \in 0..(FileLength(n) - offset)
             /\ \A i \in 1..Len(data) :
                  data[i] = ByteIn(BlockOf(n, offset + i - 1), offset + i - 1)
             /\ data = <<>> => offset = FileLength(n)
<1> DEFINE stop == Stop(n, offset, length)
           data == read_data(n, offset, length)
<1>1. FileLength(n) \in Nat
  BY ImageAssumption
<1>2. stop \in offset..FileLength(n) /\ (offset < FileLength(n) => offset < stop)
  BY StopInFile
<1>3. data = [i \in 1..(stop - offset) |->
                ByteIn(BlockOf(n, offset + i - 1), offset + i - 1)]
  BY DEF read_data
<1>4. ASSUME NEW i \in 1..(stop - offset)
      PROVE  ByteIn(BlockOf(n, offset + i - 1), offset + i - 1) \in Item
  <2>1. offset + i - 1 \in 0..(FileLength(n) - 1)
    BY <1>1, <1>2
  <2>2. GoodBlock(n, offset + i - 1)
    BY <2>1, ImageAssumption
  <2> QED BY <2>1, <2>2 DEF GoodBlock, Item
<1> HIDE DEF stop, data
<1>5. stop - offset \in Nat
  BY <1>1, <1>2
<1>6. data \in Seq(Item) /\ Len(data) = stop - offset
  BY <1>3, <1>4, <1>5
<1>7. data = <<>> => offset = FileLength(n)
  BY <1>1, <1>2, <1>6
<1> QED BY <1>1, <1>2, <1>3, <1>5, <1>6, <1>7 DEF data

-----------------------------------------------------------------------------
(***************************************************************************)
(* Lemmas about the count.                                                  *)
(***************************************************************************)
LEMMA FdFacts ==
  /\ Standard \subseteq Fd
  /\ IsFiniteSet(Fd) /\ Cardinality(Fd) = MAX_OPEN_FILE
  /\ IsFiniteSet(Standard) /\ Cardinality(Standard) = 2
<1>1. IsFiniteSet(Fd) /\ Cardinality(Fd) = MAX_OPEN_FILE
  BY FilesAssumption, FS_Interval, 0 \in Int, MAX_OPEN_FILE - 1 \in Int DEF Fd
<1>2. Standard = 0..1
  BY DEF Standard
<1>3. IsFiniteSet(Standard) /\ Cardinality(Standard) = 2
  <2>1. IsFiniteSet(0..1) /\ Cardinality(0..1) = IF 0 > 1 THEN 0 ELSE 1 - 0 + 1
    BY FS_Interval, 0 \in Int, 1 \in Int
  <2> QED BY <1>2, <2>1
<1> QED BY <1>1, <1>3, FilesAssumption DEF Standard, Fd

\* Between 2, for stdin and stdout, and all of them
LEMMA InUseBounds ==
  ASSUME TableTypes, EntriesSound, NEW t \in Task
  PROVE  /\ InUse(t) \subseteq Fd /\ Standard \subseteq InUse(t)
         /\ IsFiniteSet(InUse(t))
         /\ Cardinality(InUse(t)) \in 2..MAX_OPEN_FILE
         /\ Cardinality(InUse(t)) = MAX_OPEN_FILE => InUse(t) = Fd
<1>1. InUse(t) \subseteq Fd /\ Standard \subseteq InUse(t)
  BY FdFacts DEF InUse, Used, EntriesSound, Free
<1>2. IsFiniteSet(InUse(t)) /\ Cardinality(InUse(t)) <= MAX_OPEN_FILE
  BY <1>1, FdFacts, FS_Subset
<1>3. Cardinality(InUse(t)) = MAX_OPEN_FILE => InUse(t) = Fd
  BY <1>1, FdFacts, FS_Subset
<1>4. 2 <= Cardinality(InUse(t))
  BY <1>1, <1>2, FdFacts, FS_Subset
<1>5. Cardinality(InUse(t)) \in Nat
  BY <1>2, FS_CardinalityType
<1> QED BY <1>1, <1>2, <1>3, <1>4, <1>5, FilesAssumption

(***************************************************************************)
(* Where the count leaves room there is a free descriptor, and get_free_fd  *)
(* returns one: this is what "guarantee by system_open that have space"     *)
(* (file_system.c:430) means.                                               *)
(***************************************************************************)
LEMMA FreeFdExists ==
  ASSUME FilesInv, InProgram, current_open_file_num[running] < MAX_OPEN_FILE
  PROVE  /\ get_free_fd \in Fd \ Standard
         /\ opened_files[running][get_free_fd] = Free
<1> DEFINE S == {fd \in Fd \ Standard : opened_files[running][fd] = Free}
<1>1. running \in Task
  BY DEF InProgram
<1>2. InUse(running) # Fd
  <2>1. Cardinality(InUse(running)) # MAX_OPEN_FILE
    BY <1>1, FilesAssumption DEF FilesInv, CountMatchesTable, TableTypes
  <2> QED BY <2>1, FdFacts
<1>3. S # {}
  BY <1>1, <1>2, InUseBounds DEF FilesInv, InUse, Used
<1>4. S \in SUBSET Nat
  BY FilesAssumption DEF Fd
<1>5. Min(S) \in S
  <2> HIDE DEF S
  <2> QED BY <1>3, <1>4, MinOfNats
<1> QED BY <1>5 DEF get_free_fd

-----------------------------------------------------------------------------
(***************************************************************************)
(* Lemmas about one step.                                                   *)
(***************************************************************************)

\* What system_open stores is a sound descriptor of something.
LEMMA OpenedEntry ==
  ASSUME NEW name, Matches(name) # {}
  PROVE  LET e == Descriptor(read_dentry_by_name(name))
         IN  /\ e \in Entry /\ e.op \in {"rtc", "dir", "file"}
             /\ e.op = "file" => e.inode \in FileInodes
             /\ e.file_position = 0
<1> DEFINE i == Min(Matches(name))
<1>1. i \in DOMAIN dir_entries
  <2>1. Matches(name) \in SUBSET Nat
    BY DirIsSeq DEF Matches
  <2>2. i \in Matches(name)
    BY <2>1, MinOfNats
  <2> QED BY <2>2 DEF Matches
<1>2. read_dentry_by_name(name) = dir_entries[i]
  BY DEF read_dentry_by_name
<1> HIDE DEF i
<1>3. /\ dir_entries[i].file_type \in {RTC_TYPE, DIR_TYPE, FILE_TYPE}
      /\ dir_entries[i].inode_num \in Nat
      /\ dir_entries[i].file_type = FILE_TYPE
           => dir_entries[i].inode_num \in FileInodes
  BY <1>1, ImageAssumption DEF FileInodes
<1> QED BY <1>2, <1>3, DirIsSeq DEF Descriptor, Opened, Entry

\* The length of what can be read is a number.
LEMMA ContentsLength ==
  ASSUME NEW e \in Entry, e.op \in {"dir", "file"},
         e.op = "file" => e.inode \in FileInodes
  PROVE  Len(Contents(e)) \in Nat
<1>1. CASE e.op = "dir"
  BY <1>1, DirContents, DirIsSeq
<1>2. CASE e.op = "file"
  BY <1>2, FileContents
<1> QED BY <1>1, <1>2

\* The count stays right in a step that opens or closes nothing.
LEMMA SameInUse ==
  ASSUME CountMatchesTable, UNCHANGED current_open_file_num,
         \A t \in Task : Used(opened_files'[t]) = Used(opened_files[t])
  PROVE  CountMatchesTable'
BY DEF CountMatchesTable, InUse

LEMMA InitFilesInv == Init => FilesInv
<1> SUFFICES ASSUME Init PROVE FilesInv
  OBVIOUS
<1> USE DEF Init, init_file_array, Opened, Free
<1>1. TableTypes
  BY FdFacts DEF TableTypes, Entry, Standard, Fd
<1>2. EntriesSound
  BY FdFacts DEF EntriesSound
<1>3. CountMatchesTable
  <2>1. ASSUME NEW t \in Task  PROVE InUse(t) = Standard
    BY FdFacts DEF InUse, Used
  <2> QED BY <2>1, FdFacts DEF CountMatchesTable
<1>4. GaveInOrder
  BY DEF GaveInOrder, Readable
<1> QED BY <1>1, <1>2, <1>3, <1>4 DEF FilesInv

LEMMA OpenStep ==
  ASSUME FilesInv, NEW name \in Name, system_open(name)
  PROVE  FilesInv'
<1> DEFINE r == running
           f == get_free_fd
           e == Descriptor(read_dentry_by_name(name))
<1>1. r \in Task /\ f \in Fd \ Standard /\ opened_files[r][f] = Free
  BY FreeFdExists DEF system_open, InProgram
<1>2. /\ e \in Entry /\ e.op \in {"rtc", "dir", "file"}
      /\ e.op = "file" => e.inode \in FileInodes
      /\ e.file_position = 0
  BY OpenedEntry DEF system_open
<1>3. /\ opened_files' = [opened_files EXCEPT ![r][f] = e]
      /\ current_open_file_num' = [current_open_file_num EXCEPT ![r] = @ + 1]
      /\ got' = [got EXCEPT ![r][f] = <<>>]
      /\ reply' = [reply EXCEPT ![r][f] = "none"]
      /\ UNCHANGED <<live, running>>
  BY DEF system_open
<1> HIDE DEF r, f, e
<1>4. TableTypes'
  BY <1>1, <1>2, <1>3 DEF FilesInv, TableTypes
<1>5. EntriesSound'
  BY <1>1, <1>2, <1>3 DEF FilesInv, TableTypes, EntriesSound
<1>6. CountMatchesTable'
  <2>1. Used(opened_files'[r]) = InUse(r) \cup {f} /\ f \notin InUse(r)
    BY <1>1, <1>2, <1>3 DEF FilesInv, TableTypes, InUse, Used, Free
  <2>2. Cardinality(InUse(r) \cup {f}) = Cardinality(InUse(r)) + 1
    BY <1>1, <2>1, InUseBounds, FS_AddElement DEF FilesInv
  <2>3. ASSUME NEW t \in Task, t # r
        PROVE  opened_files'[t] = opened_files[t]
    BY <1>1, <1>3, <2>3 DEF FilesInv, TableTypes
  <2> QED
    BY <1>1, <1>3, <2>1, <2>2, <2>3
    DEF FilesInv, TableTypes, CountMatchesTable, InUse
<1>7. GaveInOrder'
  <2> SUFFICES ASSUME NEW t \in Task, NEW fd \in Fd,
                      opened_files'[t][fd].op \in {"file", "dir"}
               PROVE  GaveSoFar(opened_files'[t][fd], got'[t][fd], reply'[t][fd])
    BY DEF GaveInOrder, Readable
  <2>1. CASE t = r /\ fd = f
    <3>1. /\ opened_files'[t][fd] = e /\ got'[t][fd] = <<>>
          /\ reply'[t][fd] = "none"
      BY <1>1, <1>3, <2>1 DEF FilesInv, TableTypes
    <3>2. Len(Contents(e)) \in Nat
      BY <1>2, <3>1, ContentsLength
    <3> QED BY <1>2, <3>1, <3>2 DEF GaveSoFar
  <2>2. CASE ~(t = r /\ fd = f)
    <3>1. /\ opened_files'[t][fd] = opened_files[t][fd]
          /\ got'[t][fd] = got[t][fd] /\ reply'[t][fd] = reply[t][fd]
      BY <1>1, <1>3, <2>2 DEF FilesInv, TableTypes
    <3> QED BY <3>1 DEF FilesInv, GaveInOrder, Readable
  <2> QED BY <2>1, <2>2
<1> QED BY <1>4, <1>5, <1>6, <1>7 DEF FilesInv

LEMMA CloseStep ==
  ASSUME FilesInv, NEW f \in Fd, system_close(f)
  PROVE  FilesInv'
<1> DEFINE r == running
<1>1. r \in Task /\ f \in InUse(r) \ Standard /\ Free \in Entry
  BY DEF system_close, InProgram, Free, Entry
<1>2. /\ opened_files' = [opened_files EXCEPT ![r][f] = Free]
      /\ current_open_file_num' = [current_open_file_num EXCEPT ![r] = @ - 1]
      /\ got' = [got EXCEPT ![r][f] = <<>>]
      /\ reply' = [reply EXCEPT ![r][f] = "none"]
      /\ UNCHANGED <<live, running>>
  BY DEF system_close
<1>3. /\ IsFiniteSet(InUse(r)) /\ Cardinality(InUse(r)) \in 2..MAX_OPEN_FILE
      /\ current_open_file_num[r] = Cardinality(InUse(r))
  BY <1>1, InUseBounds DEF FilesInv, CountMatchesTable
<1> HIDE DEF r
<1>4. TableTypes'
  BY <1>1, <1>2, <1>3, FilesAssumption DEF FilesInv, TableTypes
<1>5. EntriesSound'
  BY <1>1, <1>2 DEF FilesInv, TableTypes, EntriesSound, Free
<1>6. CountMatchesTable'
  <2>1. Used(opened_files'[r]) = InUse(r) \ {f}
    BY <1>1, <1>2 DEF FilesInv, TableTypes, InUse, Used
  <2>2. Cardinality(InUse(r) \ {f}) = Cardinality(InUse(r)) - 1
    BY <1>1, <1>3, FS_RemoveElement
  <2>3. ASSUME NEW t \in Task, t # r
        PROVE  opened_files'[t] = opened_files[t]
    BY <1>1, <1>2, <2>3 DEF FilesInv, TableTypes
  <2> QED
    BY <1>1, <1>2, <1>3, <2>1, <2>2, <2>3
    DEF FilesInv, TableTypes, CountMatchesTable, InUse
<1>7. GaveInOrder'
  <2> SUFFICES ASSUME NEW t \in Task, NEW fd \in Fd,
                      opened_files'[t][fd].op \in {"file", "dir"}
               PROVE  GaveSoFar(opened_files'[t][fd], got'[t][fd], reply'[t][fd])
    BY DEF GaveInOrder, Readable
  <2>1. ~(t = r /\ fd = f)
    BY <1>1, <1>2 DEF FilesInv, TableTypes, Free
  <2>2. /\ opened_files'[t][fd] = opened_files[t][fd]
        /\ got'[t][fd] = got[t][fd] /\ reply'[t][fd] = reply[t][fd]
    BY <1>1, <1>2, <2>1 DEF FilesInv, TableTypes
  <2> QED BY <2>2 DEF FilesInv, GaveInOrder, Readable
<1> QED BY <1>4, <1>5, <1>6, <1>7 DEF FilesInv

LEMMA ConcatElements ==
  ASSUME NEW S, NEW g \in Seq(S), NEW h \in Seq(S)
  PROVE  /\ Len(g \o h) = Len(g) + Len(h)
         /\ \A i \in 1..(Len(g) + Len(h)) :
              (g \o h)[i] = IF i <= Len(g) THEN g[i] ELSE h[i - Len(g)]
OBVIOUS

(***************************************************************************)
(* A read that goes on where the last one stopped: the items it gives are   *)
(* the next ones of the contents, and none only at the end.                 *)
(***************************************************************************)
LEMMA AdvanceStep ==
  ASSUME FilesInv, InProgram, NEW f \in Readable(running),
         NEW items \in Seq(Item), Advances(f, items, Len(items)),
         LET e == opened_files[running][f]
         IN  /\ e.file_position + Len(items) <= Len(Contents(e))
             /\ \A i \in 1..Len(items) :
                  items[i] = Contents(e)[e.file_position + i]
             /\ items = <<>> => e.file_position = Len(Contents(e))
  PROVE  FilesInv'
<1> DEFINE r == running
           e == opened_files[r][f]
           new == [e EXCEPT !.file_position = @ + Len(items)]
<1>1. r \in Task /\ f \in Fd /\ e \in Entry /\ e.op \in {"file", "dir"}
  BY DEF InProgram, Readable, FilesInv, TableTypes
<1>2. /\ opened_files' = [opened_files EXCEPT ![r][f] = new]
      /\ got' = [got EXCEPT ![r][f] = @ \o items]
      /\ reply' = [reply EXCEPT ![r][f] = IF items = <<>> THEN "end" ELSE "more"]
      /\ UNCHANGED <<current_open_file_num, live, running>>
  BY DEF Advances
<1>3. /\ new \in Entry /\ new.op = e.op /\ new.inode = e.inode
      /\ new.file_position = e.file_position + Len(items)
  BY <1>1 DEF Entry
<1>4. Contents(new) = Contents(e)
  <2> HIDE DEF new, e
  <2> QED BY <1>3 DEF Contents
<1>5. /\ GaveSoFar(e, got[r][f], reply[r][f])
      /\ got[r][f] \in Seq(Item)
      /\ Len(Contents(e)) \in Nat
      /\ e.op # "none" /\ f \notin Standard
  <2>1. e.op = "file" => e.inode \in FileInodes
    BY <1>1 DEF FilesInv, EntriesSound
  <2>2. Len(Contents(e)) \in Nat
    BY <1>1, <2>1, ContentsLength
  <2> QED
    BY <1>1, <2>2 DEF FilesInv, GaveInOrder, Readable, TableTypes, EntriesSound
<1>6. /\ e.file_position + Len(items) <= Len(Contents(e))
      /\ \A i \in 1..Len(items) : items[i] = Contents(e)[e.file_position + i]
      /\ items = <<>> => e.file_position = Len(Contents(e))
  OBVIOUS
<1>7. e.op = "file" => e.inode \in FileInodes
  BY <1>1 DEF FilesInv, EntriesSound
<1>8. e = opened_files[r][f]
  OBVIOUS
<1> HIDE DEF r, e, new
<1>9. TableTypes'
  BY <1>1, <1>2, <1>3, <1>5 DEF FilesInv, TableTypes
<1>10. EntriesSound'
  BY <1>1, <1>2, <1>3, <1>5, <1>7 DEF FilesInv, TableTypes, EntriesSound
<1>11. CountMatchesTable'
  <2>1. ASSUME NEW t \in Task
        PROVE  Used(opened_files'[t]) = Used(opened_files[t])
    <3>1. new # Free /\ e # Free
      BY <1>3, <1>5 DEF Free
    <3> QED BY <1>1, <1>2, <1>8, <3>1 DEF FilesInv, TableTypes, Used
  <2> QED BY <1>2, <2>1, SameInUse DEF FilesInv
<1>12. GaveSoFar(new, got[r][f] \o items, IF items = <<>> THEN "end" ELSE "more")
  <2> DEFINE g == got[r][f]
  <2>1. /\ Len(g) = e.file_position /\ Len(g) \in Nat /\ Len(items) \in Nat
        /\ Len(g \o items) = Len(g) + Len(items)
    BY <1>5 DEF GaveSoFar
  <2>2. ASSUME NEW i \in 1..Len(g \o items)
        PROVE  (g \o items)[i] = Contents(e)[i]
    <3>1. CASE i <= Len(g)
      BY <1>5, <2>1, <3>1 DEF GaveSoFar
    <3>2. CASE ~(i <= Len(g))
      <4>1. i - Len(g) \in 1..Len(items) /\ Len(g) + (i - Len(g)) = i
        BY <2>1, <3>2
      <4>2. (g \o items)[i] = items[i - Len(g)]
        <5>1. g \in Seq(Item) /\ items \in Seq(Item)
          BY <1>5
        <5> HIDE DEF g
        <5>2. \A j \in 1..(Len(g) + Len(items)) :
                (g \o items)[j] = IF j <= Len(g) THEN g[j] ELSE items[j - Len(g)]
          BY <5>1, ConcatElements
        <5> QED BY <2>1, <3>2, <5>2
      <4>3. items[i - Len(g)] = Contents(e)[e.file_position + (i - Len(g))]
        BY <1>6, <4>1
      <4> HIDE DEF g
      <4> QED BY <2>1, <4>1, <4>2, <4>3
    <3> QED BY <3>1, <3>2
  <2> HIDE DEF g
  <2>3. GaveSoFar(new, g \o items, IF items = <<>> THEN "end" ELSE "more")
    BY <1>3, <1>4, <1>5, <1>6, <2>1, <2>2 DEF GaveSoFar
  <2> QED BY <2>3 DEF g
<1>13. GaveInOrder'
  <2> SUFFICES ASSUME NEW t \in Task, NEW fd \in Fd,
                      opened_files'[t][fd].op \in {"file", "dir"}
               PROVE  GaveSoFar(opened_files'[t][fd], got'[t][fd], reply'[t][fd])
    BY DEF GaveInOrder, Readable
  <2>1. CASE t = r /\ fd = f
    <3>1. /\ opened_files'[t][fd] = new /\ got'[t][fd] = got[r][f] \o items
          /\ reply'[t][fd] = IF items = <<>> THEN "end" ELSE "more"
      BY <1>1, <1>2, <2>1 DEF FilesInv, TableTypes
    <3> QED BY <1>12, <3>1
  <2>2. CASE ~(t = r /\ fd = f)
    <3>1. /\ opened_files'[t][fd] = opened_files[t][fd]
          /\ got'[t][fd] = got[t][fd] /\ reply'[t][fd] = reply[t][fd]
      BY <1>1, <1>2, <2>2 DEF FilesInv, TableTypes
    <3> QED BY <3>1 DEF FilesInv, GaveInOrder, Readable
  <2> QED BY <2>1, <2>2
<1> QED BY <1>9, <1>10, <1>11, <1>13 DEF FilesInv

LEMMA FileReadStep ==
  ASSUME FilesInv, NEW f \in Fd, NEW n \in ReadSize, file_read(f, n)
  PROVE  FilesInv'
<1> DEFINE e == opened_files[running][f]
           data == read_data(e.inode, Position(f), n)
<1>1. /\ running \in Task /\ e \in Entry /\ e.op = "file"
      /\ f \in Readable(running) /\ InProgram
      /\ e.inode \in FileInodes
      /\ n \in Nat \ {0}
  BY FilesAssumption
  DEF file_read, InProgram, FilesInv, TableTypes, EntriesSound, Readable
<1>2. /\ FileLength(e.inode) \in Nat
      /\ Contents(e) = [i \in 1..FileLength(e.inode) |->
                          ByteIn(BlockOf(e.inode, i - 1), i - 1)]
      /\ Len(Contents(e)) = FileLength(e.inode)
  BY <1>1, FileContents
<1>3. /\ Position(f) = e.file_position
      /\ Position(f) \in 0..FileLength(e.inode)
  BY <1>1, <1>2 DEF Position, FilesInv, GaveInOrder, GaveSoFar, Entry
<1>4. /\ data \in Seq(Item)
      /\ Len(data) \in 0..(FileLength(e.inode) - Position(f))
      /\ \A i \in 1..Len(data) :
           data[i] = ByteIn(BlockOf(e.inode, Position(f) + i - 1), Position(f) + i - 1)
      /\ data = <<>> => Position(f) = FileLength(e.inode)
  BY <1>1, <1>3, ReadDataInFile
<1>5. Advances(f, data, Len(data))
  BY DEF file_read
<1>6. e = opened_files[running][f]
  OBVIOUS
<1> HIDE DEF e, data
<1>7. \A i \in 1..Len(data) : data[i] = Contents(e)[e.file_position + i]
  <2> SUFFICES ASSUME NEW i \in 1..Len(data)
               PROVE  data[i] = Contents(e)[e.file_position + i]
    OBVIOUS
  <2>1. /\ Position(f) + i \in 1..FileLength(e.inode)
        /\ Position(f) + i - 1 = (Position(f) + i) - 1
    BY <1>2, <1>3, <1>4
  <2> QED BY <1>2, <1>3, <1>4, <2>1
<1>8. e.file_position + Len(data) <= Len(Contents(e))
  BY <1>2, <1>3, <1>4
<1> QED BY <1>1, <1>2, <1>3, <1>4, <1>5, <1>6, <1>7, <1>8, AdvanceStep

LEMMA DirReadStep ==
  ASSUME FilesInv, NEW f \in Fd, dir_read(f)
  PROVE  FilesInv'
<1> DEFINE e == opened_files[running][f]
           name == dir_entries[Position(f) + 1].file_name
<1>1. /\ running \in Task /\ e \in Entry /\ e.op = "dir"
      /\ f \in Readable(running) /\ InProgram
  BY DEF dir_read, InProgram, FilesInv, TableTypes, Readable
<1>2. /\ Contents(e) = [i \in 1..Len(dir_entries) |-> dir_entries[i].file_name]
      /\ Len(Contents(e)) = Len(dir_entries) /\ Len(dir_entries) \in Nat
  BY <1>1, DirContents, DirIsSeq
<1>3. /\ Position(f) = e.file_position
      /\ Position(f) \in 0..Len(dir_entries)
  BY <1>1, <1>2 DEF Position, FilesInv, GaveInOrder, GaveSoFar, Entry
<1>4. CASE Position(f) >= Len(dir_entries)
  <2> DEFINE none == <<>>
  <2>1. none \in Seq(Item) /\ Len(none) = 0
    OBVIOUS
  <2>2. Advances(f, none, Len(none))
    BY <1>4, <2>1 DEF dir_read
  <2>3. /\ e.file_position + Len(none) <= Len(Contents(e))
        /\ e.file_position = Len(Contents(e))
        /\ \A i \in 1..Len(none) : none[i] = Contents(e)[e.file_position + i]
    BY <1>2, <1>3, <1>4, <2>1
  <2> HIDE DEF none
  <2> QED BY <1>1, <2>1, <2>2, <2>3, AdvanceStep
<1>5. CASE ~(Position(f) >= Len(dir_entries))
  <2>1. Advances(f, <<name>>, 1)
    BY <1>5 DEF dir_read
  <2>2. /\ Position(f) + 1 \in 1..Len(dir_entries)
        /\ name \in Item /\ name = Contents(e)[e.file_position + 1]
    <3>1. Position(f) + 1 \in 1..Len(dir_entries)
      BY <1>2, <1>3, <1>5
    <3>2. name \in Item
      BY <3>1, DirIsSeq DEF Item
    <3>3. name = Contents(e)[e.file_position + 1]
      BY <1>2, <1>3, <3>1
    <3> QED BY <3>1, <3>2, <3>3
  <2> HIDE DEF name
  <2>3. <<name>> \in Seq(Item) /\ Len(<<name>>) = 1 /\ <<name>>[1] = name
    BY <2>2
  <2>4. \A i \in 1..Len(<<name>>) : <<name>>[i] = Contents(e)[e.file_position + i]
    BY <2>2, <2>3
  <2>5. e.file_position + Len(<<name>>) <= Len(Contents(e)) /\ <<name>> # <<>>
    BY <1>2, <1>3, <2>2, <2>3
  <2> QED BY <1>1, <2>1, <2>3, <2>4, <2>5, AdvanceStep
<1> QED BY <1>4, <1>5

\* -1 comes at the end only.
LEMMA FileReadFailsStep ==
  ASSUME FilesInv, NEW f \in Fd, file_read_fails(f)
  PROVE  FilesInv'
<1> DEFINE e == opened_files[running][f]
<1>1. /\ running \in Task /\ e \in Entry /\ e.op = "file"
      /\ e.inode \in FileInodes
  BY DEF file_read_fails, InProgram, FilesInv, TableTypes, EntriesSound
<1>2. /\ GaveSoFar(e, got[running][f], reply[running][f])
      /\ Len(Contents(e)) = FileLength(e.inode) /\ FileLength(e.inode) \in Nat
  BY <1>1, FileContents DEF FilesInv, GaveInOrder, Readable
<1>3. e.file_position = Len(Contents(e))
  <2>1. ~GoodBlock(e.inode, e.file_position)
    BY <1>1, ImageAssumption DEF file_read_fails, Bad, Position
  <2>2. e.file_position \notin 0..(FileLength(e.inode) - 1)
    BY <1>1, <2>1, ImageAssumption
  <2> QED BY <1>1, <1>2, <2>2 DEF GaveSoFar, Entry
<1>4. /\ reply' = [reply EXCEPT ![running][f] = "error"]
      /\ UNCHANGED <<opened_files, current_open_file_num, live, running, got>>
  BY DEF file_read_fails
<1>5. TableTypes' /\ EntriesSound' /\ CountMatchesTable'
  BY <1>1, <1>4, SameInUse DEF FilesInv, TableTypes, EntriesSound
<1>6. GaveSoFar(e, got[running][f], "error")
  BY <1>2, <1>3 DEF GaveSoFar
<1>7. GaveInOrder'
  BY <1>1, <1>4, <1>6 DEF FilesInv, TableTypes, GaveInOrder, Readable
<1> QED BY <1>5, <1>7 DEF FilesInv

LEMMA ExecuteStep ==
  ASSUME FilesInv, NEW u \in Task, Execute(u)
  PROVE  FilesInv'
<1> USE DEF init_file_array, Opened
<1>1. /\ opened_files' = [opened_files EXCEPT ![u] = init_file_array]
      /\ current_open_file_num' = [current_open_file_num EXCEPT ![u] = 2]
      /\ got' = [got EXCEPT ![u] = [fd \in Fd |-> <<>>]]
      /\ reply' = [reply EXCEPT ![u] = [fd \in Fd |-> "none"]]
      /\ live' = live \cup {u} /\ running' = u
  BY DEF Execute
<1>2. TableTypes'
  BY <1>1, FdFacts DEF FilesInv, TableTypes, Entry, Standard, Fd, Free
<1>3. EntriesSound'
  BY <1>1, FdFacts DEF FilesInv, TableTypes, EntriesSound, Free
<1>4. CountMatchesTable'
  <2>1. Used(opened_files'[u]) = Standard
    BY <1>1, FdFacts DEF FilesInv, TableTypes, Used, Free
  <2>2. ASSUME NEW t \in Task, t # u
        PROVE  opened_files'[t] = opened_files[t]
    BY <1>1, <2>2 DEF FilesInv, TableTypes
  <2> QED
    BY <1>1, <2>1, <2>2, FdFacts
    DEF FilesInv, TableTypes, CountMatchesTable, InUse
<1>5. GaveInOrder'
  BY <1>1 DEF FilesInv, TableTypes, GaveInOrder, Readable, Free
<1> QED BY <1>2, <1>3, <1>4, <1>5 DEF FilesInv

LEMMA HaltStep ==
  ASSUME FilesInv, system_halt
  PROVE  FilesInv'
<1> DEFINE r == running
           cleared == [fd \in Fd |-> IF fd \in Standard THEN opened_files[r][fd]
                                     ELSE Free]
<1>1. /\ r \in Task /\ r \in live
      /\ opened_files' = [opened_files EXCEPT ![r] = cleared]
      /\ current_open_file_num' =
           [current_open_file_num EXCEPT ![r] = @ - Cardinality(InUse(r) \ Standard)]
      /\ live' = live \ {r} /\ running' \in live' \cup {KernelTask}
      /\ UNCHANGED <<got, reply>>
  BY FilesAssumption
  DEF system_halt, clear_file_array, InProgram, FilesInv, TableTypes
<1>2. /\ \A fd \in Fd : cleared[fd] = IF fd \in Standard THEN opened_files[r][fd]
                                      ELSE Free
      /\ cleared \in [Fd -> Entry]
  BY <1>1 DEF FilesInv, TableTypes, Entry, Free
<1>3. /\ IsFiniteSet(InUse(r)) /\ Standard \subseteq InUse(r)
      /\ current_open_file_num[r] = Cardinality(InUse(r))
      /\ Cardinality(InUse(r)) \in 2..MAX_OPEN_FILE
  BY <1>1, InUseBounds DEF FilesInv, CountMatchesTable
<1>4. Cardinality(InUse(r) \ Standard) = Cardinality(InUse(r)) - 2
  <2>1. Cardinality(InUse(r) \cap Standard) = 2
    <3>1. InUse(r) \cap Standard = Standard
      BY <1>3
    <3> QED BY <3>1, FdFacts
  <2>2. Cardinality(InUse(r) \ Standard)
          = Cardinality(InUse(r)) - Cardinality(InUse(r) \cap Standard)
    BY <1>3, FS_Difference
  <2> QED BY <2>1, <2>2
<1>5. \A fd \in Standard : opened_files[r][fd].op = "terminal"
  BY <1>1 DEF FilesInv, EntriesSound
<1> HIDE DEF r, cleared
<1>6. TableTypes'
  BY <1>1, <1>2, <1>3, <1>4, FilesAssumption DEF FilesInv, TableTypes
<1>7. EntriesSound'
  <2>1. ASSUME NEW t \in Task, t # r  PROVE opened_files'[t] = opened_files[t]
    BY <1>1, <2>1 DEF FilesInv, TableTypes
  <2>2. opened_files'[r] = cleared
    BY <1>1 DEF FilesInv, TableTypes
  <2>3. /\ \A fd \in Standard : cleared[fd].op = "terminal"
        /\ \A fd \in Fd : cleared[fd].op = "none" => cleared[fd] = Free
        /\ \A fd \in Fd : cleared[fd].op # "file"
    BY <1>2, <1>5, FdFacts DEF Free
  <2> QED BY <2>1, <2>2, <2>3 DEF FilesInv, EntriesSound
<1>8. CountMatchesTable'
  <2>1. Used(opened_files'[r]) = Standard
    BY <1>1, <1>2, <1>5, FdFacts DEF FilesInv, TableTypes, Used, Free
  <2>2. ASSUME NEW t \in Task, t # r
        PROVE  opened_files'[t] = opened_files[t]
    BY <1>1, <2>2 DEF FilesInv, TableTypes
  <2> QED
    BY <1>1, <1>3, <1>4, <2>1, <2>2, FdFacts, FilesAssumption
    DEF FilesInv, TableTypes, CountMatchesTable, InUse
<1>9. GaveInOrder'
  <2> SUFFICES ASSUME NEW t \in Task, NEW fd \in Fd,
                      opened_files'[t][fd].op \in {"file", "dir"}
               PROVE  GaveSoFar(opened_files'[t][fd], got'[t][fd], reply'[t][fd])
    BY DEF GaveInOrder, Readable
  <2>1. t # r
    <3>1. opened_files'[r] = cleared
      BY <1>1 DEF FilesInv, TableTypes
    <3>2. cleared[fd].op \notin {"file", "dir"}
      BY <1>2, <1>5 DEF Free
    <3> QED BY <3>1, <3>2
  <2>2. opened_files'[t] = opened_files[t]
    BY <1>1, <2>1 DEF FilesInv, TableTypes
  <2> QED BY <1>1, <2>2 DEF FilesInv, GaveInOrder, Readable
<1> QED BY <1>6, <1>7, <1>8, <1>9 DEF FilesInv

LEMMA OtherSteps ==
  ASSUME FilesInv,
         \/ \E t \in Task : task_halt_terminal(t)
         \/ \E t \in Task \cup {KernelTask} : Switch(t)
         \/ UNCHANGED vars
  PROVE  FilesInv'
<1>1. /\ UNCHANGED <<opened_files, current_open_file_num, got, reply>>
      /\ live' \subseteq Task /\ running' \in live' \cup {KernelTask}
  BY DEF task_halt_terminal, Switch, vars, FilesInv, TableTypes
<1>2. CountMatchesTable'
  BY <1>1, SameInUse DEF FilesInv
<1> QED
  BY <1>1, <1>2 DEF FilesInv, TableTypes, EntriesSound, GaveInOrder, Readable

LEMMA StepFilesInv == FilesInv /\ [Next]_vars => FilesInv'
<1> SUFFICES ASSUME FilesInv, [Next]_vars  PROVE FilesInv'
  OBVIOUS
<1>1. CASE Call
  <2>1. ASSUME NEW name \in Name, system_open(name)  PROVE FilesInv'
    BY <2>1, OpenStep
  <2>2. ASSUME NEW fd \in Fd, system_close(fd)  PROVE FilesInv'
    BY <2>2, CloseStep
  <2>3. ASSUME NEW fd \in Fd, dir_read(fd)  PROVE FilesInv'
    BY <2>3, DirReadStep
  <2>4. ASSUME NEW fd \in Fd, file_read_fails(fd)  PROVE FilesInv'
    BY <2>4, FileReadFailsStep
  <2>5. ASSUME NEW fd \in Fd, NEW n \in ReadSize, file_read(fd, n)  PROVE FilesInv'
    BY <2>5, FileReadStep
  <2>6. CASE system_halt
    BY <2>6, HaltStep
  <2> QED BY <1>1, <2>1, <2>2, <2>3, <2>4, <2>5, <2>6 DEF Call
<1>2. ASSUME NEW t \in Task, Execute(t)  PROVE FilesInv'
  BY <1>2, ExecuteStep
<1> QED BY <1>1, <1>2, OtherSteps DEF Next

-----------------------------------------------------------------------------
\* The inductive invariant holds in every reachable state.
THEOREM FilesInvHolds == Spec => []FilesInv
BY InitFilesInv, StepFilesInv, PTL DEF Spec

(***************************************************************************)
(* The type invariant that TLC checks (file_system.c:36-108, 460-475):      *)
(* every count is one of a table, every position is within its file.        *)
(***************************************************************************)
THEOREM FilesTypes == Spec => []FilesTypeOK
<1>1. FilesInv => FilesTypeOK
  <2> SUFFICES ASSUME FilesInv, NEW t \in Task
               PROVE  /\ current_open_file_num[t] \in 2..MAX_OPEN_FILE
                      /\ \A fd \in Standard : opened_files[t][fd].op = "terminal"
                      /\ \A fd \in Readable(t) :
                           opened_files[t][fd].file_position
                             \in 0..Len(Contents(opened_files[t][fd]))
    BY DEF FilesTypeOK, FilesInv, TableTypes
  <2>1. current_open_file_num[t] \in 2..MAX_OPEN_FILE
    BY InUseBounds DEF FilesInv, CountMatchesTable
  <2>2. ASSUME NEW fd \in Readable(t)
        PROVE  opened_files[t][fd].file_position
                 \in 0..Len(Contents(opened_files[t][fd]))
    <3> DEFINE e == opened_files[t][fd]
    <3>1. /\ e \in Entry /\ e.op \in {"dir", "file"}
          /\ e.op = "file" => e.inode \in FileInodes
      BY DEF FilesInv, TableTypes, EntriesSound, Readable
    <3>2. Len(Contents(e)) \in Nat
      BY <3>1, ContentsLength
    <3> QED BY <3>1, <3>2 DEF FilesInv, GaveInOrder, GaveSoFar, Entry
  <2> QED BY <2>1, <2>2 DEF FilesInv, EntriesSound
<1> QED BY <1>1, FilesInvHolds, PTL

(***************************************************************************)
(* current_open_file_num counts the descriptors in use, for every table     *)
(* size (file_system.c:36-108, 266-280).                                    *)
(***************************************************************************)
THEOREM CountIsRight == Spec => []CountMatchesTable
BY FilesInvHolds, PTL DEF FilesInv

(***************************************************************************)
(* Reading a file or the directory piece by piece gives it in order and     *)
(* without a gap, for every healthy image, block size and size of the       *)
(* pieces (file_system.c:365-412, 460-475, 544-561).                        *)
(***************************************************************************)
THEOREM FilesAreReadInOrder == Spec => []ReadsInOrder
<1>1. FilesInv => ReadsInOrder
  <2> SUFFICES ASSUME FilesInv, NEW t \in live, NEW fd \in Readable(t)
               PROVE  LET whole == Contents(opened_files[t][fd])
                      IN  /\ IsPrefix(got[t][fd], whole)
                          /\ reply[t][fd] \in {"end", "error"} => got[t][fd] = whole
    BY DEF ReadsInOrder
  <2> DEFINE e == opened_files[t][fd]
             g == got[t][fd]
             whole == Contents(e)
  <2>1. /\ t \in Task /\ fd \in Fd /\ e \in Entry /\ e.op \in {"dir", "file"}
        /\ e.op = "file" => e.inode \in FileInodes
        /\ g \in Seq(Item) /\ GaveSoFar(e, g, reply[t][fd])
    BY DEF FilesInv, TableTypes, EntriesSound, Readable, GaveInOrder
  <2>2. Len(whole) \in Nat /\ whole = [i \in 1..Len(whole) |-> whole[i]]
    <3>1. CASE e.op = "dir"
      BY <2>1, <3>1, DirContents, DirIsSeq
    <3>2. CASE e.op = "file"
      BY <2>1, <3>2, FileContents
    <3> QED BY <2>1, <3>1, <3>2
  <2> HIDE DEF e, g, whole
  <2>3. /\ Len(g) \in Nat /\ Len(g) <= Len(whole)
        /\ g = [i \in 1..Len(g) |-> g[i]]
        /\ \A i \in 1..Len(g) : g[i] = whole[i]
        /\ reply[t][fd] \in {"end", "error"} => Len(g) = Len(whole)
    BY <2>1 DEF GaveSoFar, whole
  <2>4. SubSeq(g, 1, Len(g)) = SubSeq(whole, 1, Len(g))
    BY <2>3
  <2>5. Len(g) = Len(whole) => g = whole
    BY <2>2, <2>3
  <2> QED BY <2>3, <2>4, <2>5 DEF IsPrefix, e, g, whole
<1> QED BY <1>1, FilesInvHolds, PTL
=============================================================================
