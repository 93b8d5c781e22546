------------------------------- MODULE Paging -------------------------------
(***************************************************************************)
(* The page directory of AuroraOS and what it makes visible: the entries    *)
(* (paging.c), the directory and tables at boot (x86_desc.S, boot.S), the   *)
(* terminals' video buffers (vidmem.c) and the program pages of tasks       *)
(* (task/task_paging.c).  There is one directory; switching tasks rewrites  *)
(* three of its entries.                                                    *)
(*                                                                          *)
(* An address is the number of its 4 kB page.  A directory entry names      *)
(* what it points to: a page table, or the first 4 kB frame of a 4 MB page. *)
(***************************************************************************)
LOCAL INSTANCE Integers

SIZE_K               == 1024   \* entries of a table, 4 kB frames of a 4 MB page
VIDMEM_PAGE_ENTRY    == 191    \* 0xBF: text of the running terminal
TASK_IMG_PAGE_ENTRY  == 32     \* 128 MB: the program
VIDMAP_PAGE_ENTRY    == 33     \* 132 MB: video memory for the program
KERNEL_PAGE_OFFSET   == 5      \* further 4 MB pages of the kernel
VRAM_BUFFER_PD_ENTRY == KERNEL_PAGE_OFFSET + 2

Entry(to, large, user, present) ==
  [to |-> to, page_size |-> large, user |-> user, present |-> present]

\* clear_PDE_4kB and clear_PTE
NoEntry == Entry(<<"none", 0>>, FALSE, FALSE, FALSE)

(***************************************************************************)
(* set_PDE_4kB: address and flags of a present entry that the kernel may    *)
(* write.  The page size is not among what it sets.                         *)
(***************************************************************************)
set_PDE_4kB(pde, table, user) ==
  [pde EXCEPT !.to = table, !.user = user, !.present = TRUE]

\* set_PTE
set_PTE(frame, user) == Entry(<<"frame", frame>>, FALSE, user, TRUE)

\* task_set_img_paging: the program page of a page id, user level
ImagePage(page_id) == page_id + 2 + KERNEL_PAGE_OFFSET + 1
task_set_img_paging(page_id) ==
  Entry(<<"frame", ImagePage(page_id) * SIZE_K>>, TRUE, TRUE, TRUE)

-----------------------------------------------------------------------------
(***************************************************************************)
(* Page tables, as they are after boot and vidmem_init; nothing changes     *)
(* them later.  A table is a function on its present entries.               *)
(***************************************************************************)
kernel_page_table_0       == <<"kernel_page_table_0", 0>>
kernel_page_table_1       == <<"kernel_page_table_1", 0>>
kernel_video_memory_pt(i) == <<"kernel_video_memory_pt", i>>
user_video_memory_pt(i)   == <<"user_video_memory_pt", i>>

\* the frame of a terminal's screen buffer
Buffer(i) == VRAM_BUFFER_PD_ENTRY * SIZE_K + i

\* vidmem_init for one terminal, and the tables filled at assembly time
PageTable(table, terminals) ==
  CASE table[1] = "kernel_page_table_0" ->
         [e \in 160..VIDMEM_PAGE_ENTRY |-> set_PTE(e, FALSE)]
    [] table[1] = "kernel_page_table_1" ->
         [e \in terminals |-> set_PTE(Buffer(e), FALSE)]
    [] table[1] = "kernel_video_memory_pt" ->
         [e \in {VIDMEM_PAGE_ENTRY} |-> set_PTE(Buffer(table[2]), FALSE)]
    [] table[1] = "user_video_memory_pt" ->
         [e \in {VIDMEM_PAGE_ENTRY} |-> set_PTE(Buffer(table[2]), TRUE)]

\* kernel_page_directory up to the last entry that is ever present
BootDirectory ==
  [e \in 0..VIDMAP_PAGE_ENTRY |->
     CASE e = 0 -> set_PDE_4kB(NoEntry, kernel_page_table_0, FALSE)
       [] e \in 1..(KERNEL_PAGE_OFFSET + 1) ->
            Entry(<<"frame", e * SIZE_K>>, TRUE, FALSE, TRUE)
       [] e = VRAM_BUFFER_PD_ENTRY ->
            set_PDE_4kB(NoEntry, kernel_page_table_1, FALSE)
       [] OTHER -> NoEntry]

(***************************************************************************)
(* terminal_vidmem_set(term_id) on a directory: page 0xBF of the first 4 MB *)
(* is the terminal's buffer; without a terminal the whole VGA window shows. *)
(* A terminal that is not open is refused, and the old mapping stays.       *)
(***************************************************************************)
terminal_vidmem_set(dir, term_id, opened, none) ==
  IF term_id = none
  THEN [dir EXCEPT ![0] = set_PDE_4kB(@, kernel_page_table_0, FALSE)]
  ELSE IF term_id \in opened
  THEN [dir EXCEPT ![0] = set_PDE_4kB(@, kernel_video_memory_pt(term_id), FALSE)]
  ELSE dir

\* task_set_user_vidmap(term_id)
task_set_user_vidmap(dir, term_id, none) ==
  [dir EXCEPT ![VIDMAP_PAGE_ENTRY] =
     IF term_id = none THEN NoEntry
     ELSE set_PDE_4kB(@, user_video_memory_pt(term_id), TRUE)]

\* task_paging_set(page_id): refused for a page id that is not in use
task_paging_set(dir, page_id, in_use) ==
  IF page_id \in in_use
  THEN [dir EXCEPT ![TASK_IMG_PAGE_ENTRY] = task_set_img_paging(page_id)]
  ELSE dir

-----------------------------------------------------------------------------
(***************************************************************************)
(* What the processor does with a directory.                                *)
(***************************************************************************)

\* 4 kB frames behind an entry that a user-level program can reach
FramesBehind(pde, terminals) ==
  IF ~pde.present \/ ~pde.user THEN {}
  ELSE IF pde.page_size
  THEN {pde.to[2]}          \* the first of its 1024 frames stands for all
  ELSE LET table == PageTable(pde.to, terminals)
       IN  {table[e].to[2] : e \in {x \in DOMAIN table : table[x].user}}

\* all frames a user-level program can reach
UserFrames(dir, terminals) ==
  UNION {FramesBehind(dir[e], terminals) : e \in DOMAIN dir}

\* the frame where the kernel writes the running terminal's text (VIDEO_TEXT)
TextFrame(dir, terminals) ==
  PageTable(dir[0].to, terminals)[VIDMEM_PAGE_ENTRY].to[2]
=============================================================================
