CONSTANTS
  Task = {t1, t2}
  KernelTask = kernel
  MAX_OPEN_FILE = 4
  BLOCK_SIZE = 2
  dir_entries <- MCDir
  inodes <- MCInodes
  data_blocks <- MCBlocks
  Name = {"dot", "rtc", "text", "nofile"}
  ReadSize = {2, 3}
SPECIFICATION Spec
SYMMETRY Symmetric
INVARIANTS
  FilesTypeOK
  CountMatchesTable
  ReadsInOrder
