SPECIFICATION Session
CONSTANTS
  DiskBlocks = 10
  BLOCK_SIZE = 2
  INODES_PER_BLOCK = 2
  POINTERS_PER_INODE = 1
  POINTERS_PER_BLOCK = 4
  COPY_BUFFER = 4
  short = short
  long = long
  MaxCopyins = 3
  MaxRestarts = 2
  HostFiles <- BothFiles
  HostSize <- BothSizes
  HostBytes <- BothBytes
  Inumbers <- AnyInumber
CHECK_DEADLOCK FALSE
INVARIANTS
  TypeOK
  NoCrossLink
  FilesMarked
  ReleaseIsWhole
PROPERTIES
  WriteReadsBack
  ImplementsFileStore
  CommandEnds
