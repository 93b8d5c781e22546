------------------------------ MODULE MCFiles -------------------------------
(***************************************************************************)
(* An image with one file, of maximal length, whose two blocks are out of   *)
(* order on the disk.  The word behind its inode is the length of the next  *)
(* inode (that of a small file which nobody opens), no block number.        *)
(***************************************************************************)
EXTENDS Files, TLC

MCDir ==
  << [file_name |-> "dot",  file_type |-> DIR_TYPE,  inode_num |-> 0],
     [file_name |-> "rtc",  file_type |-> RTC_TYPE,  inode_num |-> 0],
     [file_name |-> "text", file_type |-> FILE_TYPE, inode_num |-> 0] >>

MCInodes ==
  0 :> [length_in_bytes |-> 4, data_block_num |-> (0 :> 1 @@ 1 :> 0 @@ 2 :> 3)] @@
  1 :> [length_in_bytes |-> 3, data_block_num |-> (0 :> 2 @@ 1 :> 2 @@ 2 :> 9)]

MCBlocks == 0 :> <<"c", "d">> @@ 1 :> <<"a", "b">> @@ 2 :> <<"x", "x">>

Symmetric == Permutations(Task)
=============================================================================
