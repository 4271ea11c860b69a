SPECIFICATION Spec
CONSTANTS
  DiskBlocks = 10
  BLOCK_SIZE = 2
  INODES_PER_BLOCK = 2
  POINTERS_PER_INODE = 1
  POINTERS_PER_BLOCK = 4
  COPY_BUFFER = 4
  short = short
  long = long
  HostFiles <- LongFile
  HostSize <- LongSize
  HostBytes <- LongFileBytes
  Inumbers <- AnyInumber
PROPERTIES
  FreesEverything
