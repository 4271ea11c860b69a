--------------------------- MODULE SimpleFSProofs ---------------------------
(***************************************************************************)
(* Proofs about SimpleFS, for every disk, geometry and set of host files.  *)
(***************************************************************************)
EXTENDS SimpleFS, TLAPS

-----------------------------------------------------------------------------
(* Where inodes live *)

\* The superblock and block 1 exist, and the inode blocks are blocks of the disk.
LEMMA DiskFacts ==
  /\ DiskBlocks \in Nat /\ InodeBlockCount \in Nat
  /\ 0 \in Blocks /\ 1 \in Blocks
  /\ InodeBlocks \subseteq Blocks
  /\ Metadata \subseteq Blocks
  /\ 0 \in DirectSlots /\ 0 \in InodeSlots
BY GeometryAssumption
   DEF GeometryAssumption, InodeBlockCount, InodeBlocks, Metadata, Blocks,
       DirectSlots, InodeSlots

\* inode_load and inode_save address an existing block, never the superblock.
LEMMA InodePlace ==
  ASSUME NEW n \in InodeNumbers \cup {1}
  PROVE  /\ n \in Nat \ {0}
         /\ InodeBlock(n) \in Blocks \ {0}
         /\ InodeIndex(n) \in InodeSlots
         /\ n \in InodeNumbers => InodeBlock(n) \in InodeBlocks
<1>1. CASE n \in InodeNumbers
  <2>1. n \in Nat /\ n >= 1 /\ n <= INODES_PER_BLOCK * InodeBlockCount
    BY <1>1, DiskFacts, GeometryAssumption
    DEF InodeNumbers, GeometryAssumption
  <2>2. InodeBlock(n) \in InodeBlocks
    BY <2>1, DiskFacts, GeometryAssumption
    DEF InodeBlock, InodeBlocks, GeometryAssumption
  <2>3. InodeIndex(n) \in InodeSlots
    BY <2>1, GeometryAssumption DEF InodeIndex, InodeSlots, GeometryAssumption
  <2> QED  BY <2>1, <2>2, <2>3, DiskFacts DEF InodeBlocks
<1>2. CASE n = 1 /\ n \notin InodeNumbers
  BY <1>2, DiskFacts, GeometryAssumption
  DEF InodeBlock, InodeIndex, InodeSlots, GeometryAssumption
<1> QED  BY <1>1, <1>2

\* two inodes do not share a place
LEMMA PlaceInjective ==
  ASSUME NEW m \in Nat \ {0}, NEW n \in Nat \ {0},
         InodeBlock(m) = InodeBlock(n), InodeIndex(m) = InodeIndex(n)
  PROVE  m = n
BY GeometryAssumption DEF InodeBlock, InodeIndex, GeometryAssumption

DiskType == [Blocks -> BlockType]

\* What fs_format writes in an inode block is well formed.
LEMMA ZeroInodeType == ZeroInode \in InodeType
BY DiskFacts, GeometryAssumption
   DEF ZeroInode, InodeType, MaxSize, GeometryAssumption

\* Whatever a block holds, inode_load reads it as well formed inodes.
LEMMA InodesOfType ==
  ASSUME NEW blk \in BlockType
  PROVE  InodesOf(blk) \in [InodeSlots -> InodeType]
BY ZeroInodeType DEF InodesOf, BlockType, Super

\* Whatever a block holds, it reads as block numbers or as bytes of a file.
LEMMA PointersOfType ==
  ASSUME NEW blk \in BlockType
  PROVE  PointersOf(blk) \in [PointerSlots -> Words]
BY DiskFacts DEF PointersOf, BlockType, Super, Words

\* inode_load returns a well formed inode from a well formed disk.
LEMMA LoadType ==
  ASSUME NEW dsk \in DiskType, NEW n \in InodeNumbers \cup {1}
  PROVE  inode_load(dsk, n) \in InodeType
BY InodePlace, InodesOfType DEF inode_load, DiskType

\* inode_save keeps the disk well formed.
LEMMA SaveType ==
  ASSUME NEW dsk \in DiskType, NEW n \in InodeNumbers \cup {1},
         NEW inode \in InodeType
  PROVE  inode_save(dsk, n, inode) \in DiskType
<1> DEFINE tbl == [InodesOf(dsk[InodeBlock(n)]) EXCEPT ![InodeIndex(n)] = inode]
<1>1. tbl \in [InodeSlots -> InodeType]
  BY InodePlace, InodesOfType DEF DiskType
<1>2. InodeTable(tbl) \in BlockType
  BY <1>1 DEF InodeTable, BlockType
<1> QED  BY <1>2, InodePlace DEF inode_save, DiskType

\* After inode_save the inode loads as it was saved, every other as before.
LEMMA LoadSave ==
  ASSUME NEW dsk \in DiskType, NEW n \in InodeNumbers \cup {1},
         NEW m \in InodeNumbers \cup {1}, NEW inode \in InodeType
  PROVE  inode_load(inode_save(dsk, n, inode), m) =
           IF m = n THEN inode ELSE inode_load(dsk, m)
<1> DEFINE tbl == [InodesOf(dsk[InodeBlock(n)]) EXCEPT ![InodeIndex(n)] = inode]
<1>1. /\ InodesOf(InodeTable(tbl)) = tbl
      /\ InodesOf(dsk[InodeBlock(n)]) \in [InodeSlots -> InodeType]
  BY InodePlace, InodesOfType DEF InodesOf, InodeTable, DiskType
<1>2. /\ InodeBlock(n) \in Blocks /\ InodeBlock(m) \in Blocks
      /\ InodeIndex(n) \in InodeSlots /\ InodeIndex(m) \in InodeSlots
      /\ n \in Nat \ {0} /\ m \in Nat \ {0}
  BY InodePlace
<1>3. inode_save(dsk, n, inode) = [dsk EXCEPT ![InodeBlock(n)] = InodeTable(tbl)]
  BY <1>2 DEF inode_save, DiskType
<1>4. CASE m = n
  BY <1>1, <1>2, <1>3, <1>4 DEF inode_load, DiskType
<1>5. CASE m # n /\ InodeBlock(m) = InodeBlock(n)
  <2>1. InodeIndex(m) # InodeIndex(n)
    BY <1>2, <1>5, PlaceInjective
  <2> QED  BY <1>1, <1>2, <1>3, <1>5, <2>1 DEF inode_load, DiskType
<1>6. CASE InodeBlock(m) # InodeBlock(n)
  BY <1>2, <1>3, <1>6 DEF inode_load, DiskType
<1> QED  BY <1>4, <1>5, <1>6

-----------------------------------------------------------------------------
(* How the blocks of an inode change when a block is written *)

\* A turn of the release loops goes to a direct slot or a slot of the indirect block.
LEMMA TurnFacts ==
  /\ \A k \in FileSlots : k \in Nat
  /\ \A k \in FileSlots : k < POINTERS_PER_INODE => k \in DirectSlots
  /\ \A k \in FileSlots : ~(k < POINTERS_PER_INODE) =>
                             k - POINTERS_PER_INODE \in PointerSlots
BY GeometryAssumption
   DEF FileSlots, DirectSlots, PointerSlots, GeometryAssumption

\* The loops make no turn for an empty file.
LEMMA TurnsZero ==
  /\ \A size \in Nat : Turns(size) \subseteq FileSlots
  /\ Turns(0) = {}
BY TurnFacts, GeometryAssumption DEF Turns, GeometryAssumption

\* An empty file refers to no block.
LEMMA NoRefsWhenEmpty ==
  ASSUME NEW dsk, NEW inode, inode.size = 0
  PROVE  FileRefs(dsk, inode) = {}
BY TurnsZero DEF FileRefs

\* dsk2 is dsk after a write of block b
OnlyWrites(dsk, dsk2, b) == \A c \in Blocks \ {b} : dsk2[c] = dsk[c]

\* a block that an inode does not use can change without it
LEMMA TurnFrame ==
  ASSUME NEW dsk, NEW dsk2, NEW b, OnlyWrites(dsk, dsk2, b),
         NEW inode, NEW k, b \notin TurnRefs(dsk, inode, k)
  PROVE  TurnRefs(dsk2, inode, k) = TurnRefs(dsk, inode, k)
<1>1. CASE k < POINTERS_PER_INODE
  BY <1>1 DEF TurnRefs
<1>2. CASE ~(k < POINTERS_PER_INODE)
  <2>1. inode.indirect \in TurnRefs(dsk, inode, k)
    BY <1>2 DEF TurnRefs
  <2>2. \A c \in {inode.indirect} \cap Blocks : dsk2[c] = dsk[c]
    BY <2>1 DEF OnlyWrites
  <2> QED  BY <1>2, <2>2 DEF TurnRefs
<1> QED  BY <1>1, <1>2

\* A write to a block that a file does not refer to leaves its references alone.
LEMMA FileRefsFrame ==
  ASSUME NEW dsk, NEW dsk2, NEW b, OnlyWrites(dsk, dsk2, b),
         NEW inode, b \notin FileRefs(dsk, inode)
  PROVE  FileRefs(dsk2, inode) = FileRefs(dsk, inode)
<1>1. \A k \in Turns(inode.size) :
        TurnRefs(dsk2, inode, k) = TurnRefs(dsk, inode, k)
  BY TurnFrame DEF FileRefs
<1> QED  BY <1>1 DEF FileRefs

\* what a turn adds when the block it reads pointers from is written
LEMMA TurnAfterWrite ==
  ASSUME NEW dsk, NEW dsk2, NEW b \in Blocks, OnlyWrites(dsk, dsk2, b),
         NEW inode \in InodeType, NEW k \in FileSlots
  PROVE  TurnRefs(dsk2, inode, k) \subseteq
           TurnRefs(dsk, inode, k) \cup
           {PointersOf(dsk2[b])[k - POINTERS_PER_INODE] :
              c \in {i \in {inode.indirect} : i = b /\ ~(k < POINTERS_PER_INODE)}}
<1>1. CASE k < POINTERS_PER_INODE
  BY <1>1 DEF TurnRefs
<1>2. CASE ~(k < POINTERS_PER_INODE) /\ inode.indirect # b
  <2>1. \A c \in {inode.indirect} \cap Blocks : dsk2[c] = dsk[c]
    BY <1>2 DEF OnlyWrites
  <2> QED  BY <1>2, <2>1 DEF TurnRefs
<1>3. CASE ~(k < POINTERS_PER_INODE) /\ inode.indirect = b
  BY <1>3 DEF TurnRefs
<1> QED  BY <1>1, <1>2, <1>3

\* data written over a block adds no block number that fs_write has stored
LEMMA DataAddsNoRef ==
  ASSUME NEW dsk, NEW dsk2, NEW b \in Blocks, OnlyWrites(dsk, dsk2, b),
         NEW bytes, dsk2[b] = Data(bytes),
         NEW inode \in InodeType, NEW k \in FileSlots
  PROVE  TurnRefs(dsk2, inode, k) \cap Blocks \subseteq TurnRefs(dsk, inode, k)
<1>1. ~(k < POINTERS_PER_INODE) =>
        PointersOf(dsk2[b])[k - POINTERS_PER_INODE] = Lost
  BY TurnFacts DEF PointersOf, Data
<1>2. Lost \notin Blocks
  BY DiskFacts DEF Lost, Blocks
<1> QED  BY <1>1, <1>2, TurnAfterWrite

\* one pointer written into a block adds at most that pointer
LEMMA PointerAddsOneRef ==
  ASSUME NEW dsk \in DiskType, NEW dsk2, NEW b \in Blocks,
         OnlyWrites(dsk, dsk2, b), NEW s \in PointerSlots, NEW p,
         dsk2[b] = Pointers([PointersOf(dsk[b]) EXCEPT ![s] = p]),
         NEW inode \in InodeType, NEW k \in FileSlots
  PROVE  TurnRefs(dsk2, inode, k) \subseteq TurnRefs(dsk, inode, k) \cup {p}
<1>1. CASE k < POINTERS_PER_INODE \/ inode.indirect # b
  BY <1>1, TurnAfterWrite
<1>2. CASE ~(k < POINTERS_PER_INODE) /\ inode.indirect = b
  <2> DEFINE j == k - POINTERS_PER_INODE
  <2>1. PointersOf(dsk[b]) \in [PointerSlots -> Words] /\ j \in PointerSlots
    BY <1>2, TurnFacts, PointersOfType DEF DiskType
  <2>2. PointersOf(dsk2[b]) = [PointersOf(dsk[b]) EXCEPT ![s] = p]
    BY DEF PointersOf, Pointers
  <2>3. PointersOf(dsk2[b])[j] \in {PointersOf(dsk[b])[j], p}
    BY <2>1, <2>2
  <2>4. PointersOf(dsk[b])[j] \in TurnRefs(dsk, inode, k)
    BY <1>2 DEF TurnRefs
  <2> QED  BY <2>3, <2>4, TurnAfterWrite
<1> QED  BY <1>1, <1>2

\* a block outside the inode blocks can change without any inode
LEMMA InodesFrame ==
  ASSUME NEW dsk, NEW dsk2, NEW b, OnlyWrites(dsk, dsk2, b), b \notin InodeBlocks
  PROVE  /\ \A n \in InodeNumbers : inode_load(dsk2, n) = inode_load(dsk, n)
         /\ ValidInodes(dsk2) = ValidInodes(dsk)
<1>1. \A n \in InodeNumbers : inode_load(dsk2, n) = inode_load(dsk, n)
  BY InodePlace DEF inode_load, OnlyWrites
<1> QED  BY <1>1 DEF ValidInodes

\* hence it leaves every file as it was that does not use it
LEMMA FilesFrame ==
  ASSUME NEW dsk, NEW dsk2, NEW b, OnlyWrites(dsk, dsk2, b), b \notin InodeBlocks,
         NEW n \in InodeNumbers, b \notin FileRefs(dsk, inode_load(dsk, n))
  PROVE  /\ inode_load(dsk2, n) = inode_load(dsk, n)
         /\ FileRefs(dsk2, inode_load(dsk2, n)) = FileRefs(dsk, inode_load(dsk, n))
         /\ UsedBlocks(dsk2, n) = UsedBlocks(dsk, n)
<1>1. inode_load(dsk2, n) = inode_load(dsk, n)
  BY InodesFrame
<1>2. FileRefs(dsk2, inode_load(dsk, n)) = FileRefs(dsk, inode_load(dsk, n))
  BY FileRefsFrame
<1> QED  BY <1>1, <1>2 DEF UsedBlocks

\* With all numbers in range the release loops give back every block of the file.
LEMMA WholeRelease ==
  ASSUME NEW dsk, NEW inode, RefsInRange(dsk, inode)
  PROVE  Released(dsk, inode) = FileRefs(dsk, inode)
BY DEF Released, RefsInRange, FileRefs

\* A file refers to block numbers that fs_write has stored, or to bytes of files.
LEMMA RefsOfType ==
  ASSUME NEW dsk \in DiskType, NEW n \in InodeNumbers
  PROVE  /\ FileRefs(dsk, inode_load(dsk, n)) \subseteq Words
         /\ Lost \notin FileRefs(dsk, inode_load(dsk, n)) =>
              RefsInRange(dsk, inode_load(dsk, n))
<1> DEFINE inode == inode_load(dsk, n)
<1>1. inode \in InodeType
  BY LoadType
<1> HIDE DEF inode
<1>2. /\ inode.direct \in [DirectSlots -> Blocks] /\ inode.indirect \in Blocks
      /\ inode.size \in Nat
  BY <1>1, GeometryAssumption DEF InodeType, MaxSize, GeometryAssumption
<1>3. ASSUME NEW k \in FileSlots
      PROVE  TurnRefs(dsk, inode, k) \subseteq Words
  <2>1. CASE k < POINTERS_PER_INODE
    BY <1>2, <2>1, TurnFacts DEF TurnRefs, Words
  <2>2. CASE ~(k < POINTERS_PER_INODE)
    <3>1. PointersOf(dsk[inode.indirect]) \in [PointerSlots -> Words]
      BY <1>2, PointersOfType DEF DiskType
    <3>2. PointersOf(dsk[inode.indirect])[k - POINTERS_PER_INODE] \in Words
      BY <2>2, <3>1, TurnFacts
    <3> QED  BY <1>2, <2>2, <3>2 DEF TurnRefs, Words
  <2> QED  BY <2>1, <2>2
<1>4. FileRefs(dsk, inode) \subseteq Words
  BY <1>2, <1>3, TurnsZero DEF FileRefs
<1>5. Lost \notin FileRefs(dsk, inode) => RefsInRange(dsk, inode)
  BY <1>4 DEF Words, RefsInRange
<1> QED  BY <1>4, <1>5 DEF inode

-----------------------------------------------------------------------------
(* Commands that write no block *)

\* The locals of no command are well formed.
LEMMA NoCallType ==
  /\ NoCall \in CallType
  /\ NoCall.file \in HostFiles /\ NoCall.offset = 0 /\ NoCall.target = 0
  /\ NoCall.inumber = 0
<1>1. (CHOOSE f \in HostFiles : TRUE) \in HostFiles
  BY HostAssumption DEF HostAssumption
<1>2. 0 \in 0 .. MaxSize /\ 0 \in 0 .. COPY_BUFFER /\ 0 \in Nat
  BY GeometryAssumption DEF GeometryAssumption, MaxSize
<1> QED  BY <1>1, <1>2, ZeroInodeType, DiskFacts DEF NoCall, CallType

\* The locals of a command, one by one.
LEMMA CallFields ==
  ASSUME NEW c \in CallType
  PROVE  /\ c.inumber \in Int
         /\ c.file \in HostFiles
         /\ c.offset \in 0 .. MaxSize
         /\ c.inode \in InodeType
         /\ c.curBlock \in Nat
         /\ c.toWrite \in 0 .. COPY_BUFFER
         /\ c.written \in 0 .. COPY_BUFFER
         /\ c.target \in Blocks
<1>1. c.inumber \in Inumbers \cup {0}
  BY DEF CallType
<1>2. c.inumber \in Int
  <2>1. Inumbers \subseteq Int
    BY GeometryAssumption, Zenon DEF GeometryAssumption
  <2>2. CASE c.inumber \in Inumbers
    BY <2>1, <2>2, Zenon
  <2> QED  BY <1>1, <2>2
<1> QED  BY <1>2 DEF CallType

\* The host files have lengths an inode can reach.
LEMMA HostFacts ==
  ASSUME NEW f \in HostFiles
  PROVE  /\ HostSize[f] \in Nat
         /\ HostSize[f] <= MaxSize
         /\ MaxSize \in Nat
BY HostAssumption, GeometryAssumption
   DEF HostAssumption, GeometryAssumption, MaxSize

\* A fresh image is safe.
LEMMA InitSafe == Init => Safe
<1> SUFFICES ASSUME Init PROVE Safe
  OBVIOUS
<1>1. TypeOK
  BY NoCallType, DiskFacts DEF Init, Idle, TypeOK, Zero, BlockType
<1>2. ValidInodes(disk) = {}
  BY InodePlace, ZeroInodeType DEF Init, ValidInodes, inode_load, InodesOf, Zero, ZeroInode
<1> QED
  BY <1>1, <1>2, NoCallType
  DEF Init, Idle, Safe, NoCrossLink, FilesMarked, ReleaseIsWhole, CopyProgress,
      WriteHolds, CopyResumes, MountedDisk

\* A command that returns or gives way leaves nothing to protect in memory.
LEMMA RestartSafe == ASSUME Safe, Restart PROVE Safe'
<1>1. TypeOK'
  BY NoCallType DEF Safe, TypeOK, Restart, Return
<1>2. NoCrossLink'
  BY DEF Safe, NoCrossLink, Restart
<1> QED
  BY <1>1, <1>2
  DEF Restart, Return, Safe, FilesMarked, ReleaseIsWhole, CopyProgress,
      WriteHolds, CopyResumes, MountedDisk

\* The start of do_copyin keeps the invariant.
LEMMA CopyinSafe ==
  ASSUME Safe, NEW f \in HostFiles, NEW n \in Inumbers, Copyin(f, n)
  PROVE  Safe'
<1>1. TypeOK'
  BY NoCallType DEF Safe, TypeOK, Copyin, Idle, CallType
<1>2. /\ NoCrossLink' /\ FilesMarked' /\ ReleaseIsWhole'
  BY DEF Safe, NoCrossLink, FilesMarked, ReleaseIsWhole, BeingWritten, Copyin,
         Idle
<1>3. /\ call'.file = f /\ call'.offset = 0 /\ pc' = "fread"
  BY NoCallType DEF Copyin, Idle, NoCall
<1>4. CopyProgress'
  BY <1>3, HostFacts, GeometryAssumption
  DEF CopyProgress, GeometryAssumption
<1> QED
  BY <1>1, <1>2, <1>3, <1>4
  DEF Copyin, Idle, Safe, WriteHolds, CopyResumes, MountedDisk

\* The end of do_copyin keeps the invariant.
LEMMA CopyinEndSafe == ASSUME Safe, CopyinEnd PROVE Safe'
<1>1. TypeOK'
  BY NoCallType DEF Safe, TypeOK, CopyinEnd, Return
<1> QED
  BY <1>1
  DEF CopyinEnd, Return, Safe, NoCrossLink, FilesMarked, ReleaseIsWhole,
      BeingWritten, CopyProgress, WriteHolds, CopyResumes, MountedDisk

\* fs_mount finds and marks every block of every file.
LEMMA MountSafe == ASSUME Safe, Mount PROVE Safe'
<1>1. \A n \in ValidInodes(disk) : FileRefs(disk, inode_load(disk, n)) \subseteq Blocks
  BY DEF Mount, Mountable, RefsInRange
<1>2. disk[0] = Super(DiskBlocks, InodeBlockCount, INODES_PER_BLOCK * InodeBlockCount)
  BY DiskFacts DEF Mount, Mountable, SuperAndSizes, Safe, TypeOK, BlockType
<1>3. TypeOK'
  BY <1>1, <1>2, DiskFacts DEF Safe, TypeOK, Mount, Super
<1>4. FilesMarked'
  BY <1>1 DEF Mount, FilesMarked, UsedBlocks
<1>5. ReleaseIsWhole'
  BY WholeRelease DEF Mount, Mountable, ReleaseIsWhole
<1>6. MountedDisk'
  BY <1>2 DEF Mount, Idle, MountedDisk, Super
<1> QED
  BY <1>3, <1>4, <1>5, <1>6
  DEF Mount, Idle, Safe, NoCrossLink, CopyProgress, WriteHolds, CopyResumes

\* A mount that took bytes of a file for block numbers changes no file.
LEMMA MountAstraySafe == ASSUME Safe, MountAstray PROVE Safe'
<1>1. disk[0] = Super(DiskBlocks, InodeBlockCount, INODES_PER_BLOCK * InodeBlockCount)
  BY DiskFacts DEF MountAstray, SuperAndSizes, Safe, TypeOK, BlockType
<1>2. freeBlockBitmap' \subseteq Blocks
  BY DiskFacts DEF MountAstray, UsedBlocks
<1>3. TypeOK'
  BY <1>1, <1>2 DEF Safe, TypeOK, MountAstray, Super
<1>4. MountedDisk'
  BY <1>1 DEF MountAstray, Idle, MountedDisk, Super
<1> QED
  BY <1>3, <1>4
  DEF MountAstray, Idle, Safe, NoCrossLink, FilesMarked, ReleaseIsWhole,
      CopyProgress, WriteHolds, CopyResumes

\* fread stays within the host file, and a short read reaches its end.
LEMMA ReadFacts ==
  ASSUME TypeOK, pc \in {"fread", "alloc", "store"},
         call.offset <= HostSize[call.file]
  PROVE  /\ FreadResult \in 0 .. COPY_BUFFER
         /\ call.offset \in Nat
         /\ call.offset + FreadResult <= HostSize[call.file]
         /\ FreadResult < COPY_BUFFER =>
              call.offset + FreadResult = HostSize[call.file]
BY HostFacts, GeometryAssumption
   DEF TypeOK, CallType, FreadResult, GeometryAssumption, MaxSize

\* an inode number that fs_write and fs_delete accept is one that fs_mount saw
LEMMA UsableIsValid ==
  ASSUME Safe, NEW n \in Int, Usable(n)
  PROVE  n \in InodeNumbers /\ n \in ValidInodes(disk)
BY GeometryAssumption, DiskFacts
   DEF Safe, MountedDisk, Usable, ValidInodes, InodeNumbers, GeometryAssumption

\* the sum of an offset and a full buffer starts a block
LEMMA NextBuffer ==
  ASSUME NEW o \in Nat, o % BLOCK_SIZE = 0
  PROVE  /\ (o + COPY_BUFFER) % BLOCK_SIZE = 0
         /\ (o \div BLOCK_SIZE) * BLOCK_SIZE = o
         /\ o \div BLOCK_SIZE \in Nat
<1> DEFINE q == o \div BLOCK_SIZE
           c == COPY_BUFFER \div BLOCK_SIZE
<1>1. /\ BLOCK_SIZE \in Nat \ {0} /\ COPY_BUFFER \in Nat
      /\ COPY_BUFFER % BLOCK_SIZE = 0
  BY GeometryAssumption DEF GeometryAssumption
<1>2. q \in Nat /\ q * BLOCK_SIZE = o
  BY <1>1
<1>3. c \in Nat /\ c * BLOCK_SIZE = COPY_BUFFER
  BY <1>1
<1>4. o + COPY_BUFFER = (q + c) * BLOCK_SIZE
  BY <1>1, <1>2, <1>3
<1>5. ((q + c) * BLOCK_SIZE) % BLOCK_SIZE = 0
  <2> HIDE DEF q, c
  <2> QED  BY <1>1, <1>2, <1>3
<1> QED  BY <1>2, <1>4, <1>5

\* k blocks of a file end before its last byte only if k turns remain
LEMMA TurnsBound ==
  ASSUME NEW c \in Nat, NEW size \in Nat, size <= c * BLOCK_SIZE
  PROVE  \A k \in Turns(size) : k < c
BY GeometryAssumption, TurnFacts DEF Turns, GeometryAssumption

\* Every turn that starts before the end of a file happens.
LEMMA TurnsCover ==
  ASSUME NEW k \in Nat, NEW size \in Nat, size <= MaxSize,
         k * BLOCK_SIZE < size
  PROVE  k \in Turns(size)
BY GeometryAssumption DEF Turns, FileSlots, MaxSize, GeometryAssumption

\* Earlier blocks of a file start at smaller offsets.
LEMMA BlocksBefore ==
  ASSUME NEW k \in Nat, NEW c \in Nat, k < c
  PROVE  k * BLOCK_SIZE < c * BLOCK_SIZE
BY GeometryAssumption DEF GeometryAssumption

\* fs_write keeps the invariant up to its loop, the release included.
LEMMA WriteBeginSafe == ASSUME Safe, WriteBegin PROVE Safe'
<1> DEFINE n == call.inumber
           inode == inode_load(disk, n)
<1>1. /\ pc = "fread" /\ FreadResult > 0 /\ Usable(n) /\ mounted /\ ~astray
      /\ UNCHANGED <<disk, mounted, maxInodes, astray>>
  BY DEF WriteBegin, Usable, Safe, MountedDisk
<1>2. /\ n \in InodeNumbers /\ n \in ValidInodes(disk)
      /\ inode \in InodeType /\ inode.isvalid = 1
      /\ disk \in DiskType
  <2>1. n \in Int
    BY CallFields DEF Safe, TypeOK
  <2> QED  BY <1>1, <2>1, UsableIsValid, LoadType
           DEF Safe, TypeOK, DiskType, ValidInodes
<1>3. /\ RefsInRange(disk, inode)
      /\ Released(disk, inode) = FileRefs(disk, inode)
      /\ FileRefs(disk, inode) \subseteq freeBlockBitmap \ Metadata
      /\ FileRefs(disk, inode) = UsedBlocks(disk, n)
  BY <1>1, <1>2
  DEF Safe, ReleaseIsWhole, FilesMarked, NoCrossLink, BeingWritten, UsedBlocks,
      RefsInRange
<1>4. /\ FreadResult \in 1 .. COPY_BUFFER /\ call.offset \in Nat
      /\ call.offset % BLOCK_SIZE = 0
      /\ call.offset <= HostSize[call.file]
  BY <1>1, ReadFacts, GeometryAssumption
  DEF Safe, CopyProgress, TypeOK, CallType, GeometryAssumption
<1> DEFINE cur == call.offset \div BLOCK_SIZE
           begun(i) == [call EXCEPT !.inode = i, !.curBlock = cur,
                                    !.toWrite = FreadResult,
                                    !.written = 0]
           held == IF call.offset > 0 THEN inode ELSE [inode EXCEPT !.size = 0]
<1>5. /\ pc' = "alloc"
      /\ call' = begun(held)
      /\ freeBlockBitmap' = IF call.offset > 0 THEN freeBlockBitmap
                            ELSE freeBlockBitmap \ FileRefs(disk, inode)
  BY <1>3, <1>4 DEF WriteBegin
<1>6. held \in InodeType /\ held.isvalid = 1 /\ held.direct = inode.direct
       /\ held.indirect = inode.indirect
  BY <1>2, ZeroInodeType, GeometryAssumption
  DEF InodeType, MaxSize, GeometryAssumption
<1>7. /\ call' \in CallType
      /\ call'.inode = held /\ call'.curBlock = cur
      /\ call'.toWrite = FreadResult /\ call'.inumber = n
      /\ call'.offset = call.offset /\ call'.file = call.file
      /\ call'.written = 0
  <2> HIDE DEF held, cur
  <2>1. call \in CallType
    BY DEF Safe, TypeOK
  <2>2. cur \in Nat /\ FreadResult \in 0 .. COPY_BUFFER /\ 0 \in 0 .. COPY_BUFFER
    <3>1. cur \in Nat
      BY <1>4, NextBuffer DEF cur
    <3>2. COPY_BUFFER \in Nat
      BY GeometryAssumption DEF GeometryAssumption
    <3> HIDE DEF cur
    <3> QED  BY <1>4, <3>1, <3>2
  <2> QED  BY <1>5, <1>6, <2>1, <2>2, Zenon DEF CallType
<1>8. TypeOK'
  BY <1>1, <1>5, <1>7 DEF Safe, TypeOK
<1>9. NoCrossLink'
  BY <1>1 DEF Safe, NoCrossLink
<1>10. /\ BeingWritten = {} /\ BeingWritten' = {n}
  BY <1>1, <1>5, <1>7 DEF BeingWritten
<1>11. FilesMarked'
  <2>1. Metadata \subseteq freeBlockBitmap'
    BY <1>1, <1>3, <1>5 DEF Safe, FilesMarked
  <2>2. \A m \in ValidInodes(disk) \ {n} :
          UsedBlocks(disk, m) \subseteq freeBlockBitmap'
    BY <1>1, <1>2, <1>3, <1>5, <1>10 DEF Safe, FilesMarked, NoCrossLink
  <2> QED  BY <1>1, <1>10, <2>1, <2>2 DEF FilesMarked
<1>12. ReleaseIsWhole'
  BY <1>1, <1>10 DEF Safe, ReleaseIsWhole
<1>13. CopyProgress'
  <2> SUFFICES /\ call.offset <= HostSize[call.file]
               /\ call.offset % BLOCK_SIZE = 0
               /\ call'.written + FreadResult = FreadResult
               /\ call.offset + call'.written <= cur * BLOCK_SIZE
               /\ cur * BLOCK_SIZE = call.offset + call'.written
    BY <1>5, <1>7 DEF CopyProgress, FreadResult
  <2>1. cur * BLOCK_SIZE = call.offset
    BY <1>4, NextBuffer
  <2>2. call'.written = 0 /\ FreadResult \in Nat /\ call.offset \in Nat
    BY <1>4, <1>7, GeometryAssumption DEF GeometryAssumption
  <2> HIDE DEF cur
  <2> QED  BY <1>4, <2>1, <2>2
<1>14. WriteHolds'
  <2>1. HeldTurns' = 0 .. cur - 1
    BY <1>5, <1>7, <1>4, NextBuffer DEF HeldTurns
  <2>2. HeldBlocks' \subseteq FileRefs(disk, inode)
    <3> SUFFICES ASSUME NEW k \in 0 .. cur - 1
                 PROVE  TurnRefs(disk, held, k) \subseteq FileRefs(disk, inode)
      BY <1>1, <1>7, <2>1 DEF HeldBlocks
    <3>1. cur \in Nat /\ cur * BLOCK_SIZE = call.offset
      BY <1>4, NextBuffer
    <3>2. k \in Nat /\ k * BLOCK_SIZE < call.offset
      BY <3>1, BlocksBefore
    <3>3. call.offset > 0
      BY <3>2, <1>4, GeometryAssumption DEF GeometryAssumption
    <3>4. inode.size = call.offset /\ call.offset <= MaxSize
      BY <1>1, <1>4, <3>3, CallFields, HostFacts DEF Safe, CopyResumes, TypeOK
    <3>5. k \in Turns(inode.size)
      BY <1>4, <3>2, <3>4, TurnsCover
    <3>6. TurnRefs(disk, held, k) = TurnRefs(disk, inode, k)
      BY <1>6 DEF TurnRefs
    <3> QED  BY <3>5, <3>6 DEF FileRefs
  <2>3. call.offset = 0 => HeldBlocks' = {}
    <3> SUFFICES ASSUME call.offset = 0 PROVE cur - 1 < 0
      BY <1>4, <2>1, NextBuffer DEF HeldBlocks
    <3> QED  BY NextBuffer, GeometryAssumption DEF GeometryAssumption
  <2>4. HeldBlocks' \subseteq freeBlockBitmap' \ Metadata
    BY <1>3, <1>4, <1>5, <2>2, <2>3
  <2>5. \A m \in ValidInodes(disk) \ {n} :
          HeldBlocks' \cap UsedBlocks(disk, m) = {}
    BY <1>2, <1>3, <2>2 DEF Safe, NoCrossLink
  <2> QED
    BY <1>1, <1>2, <1>5, <1>6, <1>7, <2>4, <2>5 DEF WriteHolds
<1>15. CopyResumes' /\ MountedDisk'
  BY <1>1, <1>5 DEF CopyResumes, MountedDisk, Safe
<1> QED
  BY <1>8, <1>9, <1>11, <1>12, <1>13, <1>14, <1>15 DEF Safe

-----------------------------------------------------------------------------
(* Commands that write metadata *)

\* Writing the superblock changes no file.
LEMMA FormatSuperSafe == ASSUME Safe, FormatSuper PROVE Safe'
<1> DEFINE sb == Super(DiskBlocks, InodeBlockCount,
                       INODES_PER_BLOCK * InodeBlockCount)
<1>1. /\ disk' = [disk EXCEPT ![0] = sb] /\ ~mounted
      /\ pc = "idle" /\ pc' \in {"idle", "format"}
      /\ UNCHANGED <<mounted, freeBlockBitmap, maxInodes, astray>>
  BY DEF FormatSuper, Idle, Return
<1>2. disk \in DiskType /\ 0 \in Blocks \ InodeBlocks
  BY DiskFacts DEF Safe, TypeOK, DiskType, InodeBlocks
<1>3. sb \in BlockType
  BY DEF BlockType
<1>4. call' \in CallType /\ (pc' = "format" => call'.target \in InodeBlocks)
  <2>1. CASE InodeBlockCount = 0
    BY <2>1, NoCallType DEF FormatSuper, Return
  <2>2. CASE InodeBlockCount # 0
    <3>1. call' = [NoCall EXCEPT !.target = 1]
      BY <2>2 DEF FormatSuper
    <3>2. 1 \in Blocks /\ 1 \in InodeBlocks
      BY <2>2, DiskFacts DEF InodeBlocks
    <3> QED  BY <3>1, <3>2, NoCallType, Zenon DEF CallType
  <2> QED  BY <2>1, <2>2
<1>5. TypeOK'
  <2>1. disk' \in DiskType
    BY <1>1, <1>2, <1>3 DEF DiskType
  <2> QED  BY <1>1, <1>4, <2>1 DEF Safe, TypeOK, DiskType
<1>6. NoCrossLink'
  <2>1. OnlyWrites(disk, disk', 0)
    BY <1>1, <1>2 DEF OnlyWrites, DiskType
  <2>2. ValidInodes(disk') = ValidInodes(disk)
    BY <1>2, <2>1, InodesFrame
  <2>3. \A n \in ValidInodes(disk) : UsedBlocks(disk', n) = UsedBlocks(disk, n)
    <3> SUFFICES ASSUME NEW n \in ValidInodes(disk)
                 PROVE  UsedBlocks(disk', n) = UsedBlocks(disk, n)
      OBVIOUS
    <3>1. n \in InodeNumbers
      BY DEF ValidInodes
    <3>2. 0 \notin FileRefs(disk, inode_load(disk, n))
      BY <1>2 DEF Safe, NoCrossLink, UsedBlocks, Metadata
    <3> QED  BY <1>2, <2>1, <3>1, <3>2, FilesFrame
  <2> QED  BY <2>2, <2>3 DEF Safe, NoCrossLink
<1> QED
  BY <1>1, <1>4, <1>5, <1>6
  DEF Safe, FilesMarked, ReleaseIsWhole, CopyProgress, WriteHolds, CopyResumes,
      MountedDisk

\* inodes that a step erases take their blocks out of play; the others stay
LEMMA FewerFiles ==
  ASSUME NoCrossLink, NEW dsk, ValidInodes(dsk) \subseteq ValidInodes(disk),
         \A n \in ValidInodes(dsk) : UsedBlocks(dsk, n) = UsedBlocks(disk, n)
  PROVE  /\ \A n \in ValidInodes(dsk) :
              /\ UsedBlocks(dsk, n) \cap Metadata = {}
              /\ \A m \in ValidInodes(dsk) \ {n} :
                   UsedBlocks(dsk, n) \cap UsedBlocks(dsk, m) = {}
BY DEF NoCrossLink

\* Formatting an inode block only makes files disappear.
LEMMA FormatInodeBlockSafe == ASSUME Safe, FormatInodeBlock PROVE Safe'
<1> DEFINE b == call.target
           empty == [j \in InodeSlots |-> ZeroInode]
<1>1. /\ disk' = [disk EXCEPT ![b] = InodeTable(empty)]
      /\ pc = "format" /\ pc' \in {"idle", "format"}
      /\ UNCHANGED <<mounted, freeBlockBitmap, maxInodes, astray>>
  BY DEF FormatInodeBlock, Return
<1>2. disk \in DiskType /\ b \in InodeBlocks /\ b \in Blocks /\ ~mounted
  BY <1>1, DiskFacts DEF Safe, TypeOK, DiskType, MountedDisk
<1>3. InodeTable(empty) \in BlockType /\ InodesOf(InodeTable(empty)) = empty
  BY ZeroInodeType DEF BlockType, InodeTable, InodesOf
<1>4. call' \in CallType /\ (pc' = "format" => call'.target \in InodeBlocks)
  <2>1. CASE b = InodeBlockCount
    BY <1>1, <2>1, NoCallType DEF FormatInodeBlock, Return
  <2>2. CASE b # InodeBlockCount
    <3>1. call' = [call EXCEPT !.target = b + 1]
      BY <2>2 DEF FormatInodeBlock
    <3>2. b + 1 \in InodeBlocks /\ b + 1 \in Blocks
      BY <1>2, <2>2, DiskFacts DEF InodeBlocks
    <3>3. call \in CallType
      BY DEF Safe, TypeOK
    <3> HIDE DEF b
    <3> QED  BY <3>1, <3>2, <3>3, Zenon DEF CallType
  <2> QED  BY <2>1, <2>2
<1>5. TypeOK'
  <2>1. disk' \in DiskType
    BY <1>1, <1>2, <1>3 DEF DiskType
  <2> QED  BY <1>1, <1>4, <2>1 DEF Safe, TypeOK, DiskType
<1>6. \A n \in InodeNumbers :
        IF InodeBlock(n) = b THEN inode_load(disk', n) = ZeroInode
        ELSE inode_load(disk', n) = inode_load(disk, n)
  BY <1>1, <1>2, <1>3, InodePlace DEF inode_load, DiskType
<1>7. ValidInodes(disk') = {n \in ValidInodes(disk) : InodeBlock(n) # b}
  BY <1>6 DEF ValidInodes, ZeroInode
<1>8. \A n \in ValidInodes(disk') : UsedBlocks(disk', n) = UsedBlocks(disk, n)
  <2> SUFFICES ASSUME NEW n \in ValidInodes(disk), InodeBlock(n) # b
               PROVE  UsedBlocks(disk', n) = UsedBlocks(disk, n)
    BY <1>7
  <2>1. n \in InodeNumbers
    BY DEF ValidInodes
  <2>2. OnlyWrites(disk, disk', b)
    BY <1>1, <1>2 DEF OnlyWrites, DiskType
  <2>3. b \notin FileRefs(disk, inode_load(disk, n))
    BY <1>2 DEF Safe, NoCrossLink, UsedBlocks, Metadata
  <2>4. FileRefs(disk', inode_load(disk, n)) = FileRefs(disk, inode_load(disk, n))
    BY <2>2, <2>3, FileRefsFrame
  <2>5. inode_load(disk', n) = inode_load(disk, n)
    BY <1>6, <2>1
  <2> QED  BY <2>4, <2>5 DEF UsedBlocks
<1>9. NoCrossLink'
  BY <1>7, <1>8, FewerFiles DEF Safe, NoCrossLink
<1> QED
  BY <1>1, <1>2, <1>4, <1>5, <1>9
  DEF Safe, FilesMarked, ReleaseIsWhole, CopyProgress, WriteHolds, CopyResumes,
      MountedDisk

\* an inode that is saved changes neither another inode nor any block that
\* an inode refers to
LEMMA SaveFrame ==
  ASSUME TypeOK, NoCrossLink, NEW n \in InodeNumbers, NEW inode \in InodeType,
         NEW dsk2, dsk2 = inode_save(disk, n, inode)
  PROVE  /\ dsk2 \in DiskType
         /\ ValidInodes(dsk2) = (ValidInodes(disk) \ {n}) \cup
                                {m \in {n} : inode.isvalid = 1}
         /\ inode_load(dsk2, n) = inode
         /\ \A m \in ValidInodes(disk) \ {n} :
              /\ inode_load(dsk2, m) = inode_load(disk, m)
              /\ FileRefs(dsk2, inode_load(disk, m)) = FileRefs(disk, inode_load(disk, m))
              /\ UsedBlocks(dsk2, m) = UsedBlocks(disk, m)
         /\ \A i : FileRefs(disk, i) \cap Metadata = {} =>
              FileRefs(dsk2, i) = FileRefs(disk, i)
         /\ dsk2[0] = disk[0]
<1> DEFINE b == InodeBlock(n)
<1>1. disk \in DiskType
  BY DEF TypeOK, DiskType
<1>2. b \in InodeBlocks /\ b \in Blocks /\ b # 0 /\ b \in Metadata
  BY InodePlace DEF Metadata
<1>3. OnlyWrites(disk, dsk2, b)
  BY <1>1, <1>2 DEF OnlyWrites, inode_save, DiskType
<1>4. dsk2 \in DiskType
  BY <1>1, SaveType
<1>5. \A m \in InodeNumbers :
        inode_load(dsk2, m) = IF m = n THEN inode ELSE inode_load(disk, m)
  BY <1>1, LoadSave
<1>6. ValidInodes(dsk2) = (ValidInodes(disk) \ {n}) \cup {m \in {n} : inode.isvalid = 1}
  BY <1>5 DEF ValidInodes
<1>7. \A i : FileRefs(disk, i) \cap Metadata = {} =>
        FileRefs(dsk2, i) = FileRefs(disk, i)
  BY <1>2, <1>3, FileRefsFrame
<1>8. ASSUME NEW m \in ValidInodes(disk) \ {n}
      PROVE  /\ inode_load(dsk2, m) = inode_load(disk, m)
             /\ FileRefs(dsk2, inode_load(disk, m)) = FileRefs(disk, inode_load(disk, m))
             /\ UsedBlocks(dsk2, m) = UsedBlocks(disk, m)
  <2>1. inode_load(dsk2, m) = inode_load(disk, m)
    BY <1>5 DEF ValidInodes
  <2>2. b \notin FileRefs(disk, inode_load(disk, m))
    BY <1>2 DEF NoCrossLink, UsedBlocks
  <2>3. FileRefs(dsk2, inode_load(disk, m)) = FileRefs(disk, inode_load(disk, m))
    BY <1>3, <2>2, FileRefsFrame
  <2> QED  BY <2>1, <2>3 DEF UsedBlocks
<1>9. dsk2[0] = disk[0]
  BY <1>2, <1>3, DiskFacts DEF OnlyWrites
<1> QED  BY <1>4, <1>5, <1>6, <1>7, <1>8, <1>9

\* fs_create makes an empty file, which refers to no block.
LEMMA CreateSafe ==
  ASSUME Safe, NEW n \in InodeNumbers \cup {1}, Create(n)
  PROVE  Safe'
<1> DEFINE inode == [inode_load(disk, n) EXCEPT !.isvalid = 1, !.size = 0]
<1>1. /\ disk' = inode_save(disk, n, inode) /\ pc = "idle" /\ mounted
      /\ UNCHANGED <<mounted, freeBlockBitmap, maxInodes, astray, pc, call>>
      /\ inode_load(disk, n).isvalid = 0
  BY DEF Create, Idle, FirstInvalid
<1>2. disk \in DiskType
  BY DEF Safe, TypeOK, DiskType
<1>3. inode \in InodeType /\ inode.size = 0 /\ inode.isvalid = 1
  <2>1. inode_load(disk, n) \in InodeType
    BY <1>2, LoadType
  <2>2. 0 \in 0 .. MaxSize
    BY GeometryAssumption DEF MaxSize, GeometryAssumption
  <2> QED  BY <2>1, <2>2, Zenon DEF InodeType
<1>4. TypeOK'
  <2>1. disk' \in DiskType
    BY <1>1, <1>2, <1>3, SaveType
  <2> QED  BY <1>1, <2>1 DEF Safe, TypeOK, DiskType
<1>5. MountedDisk'
  <2>1. disk'[0] = disk[0]
    BY <1>1, <1>2, InodePlace, DiskFacts DEF inode_save, DiskType
  <2> QED  BY <1>1, <2>1 DEF Safe, MountedDisk
<1>6. CASE n \notin InodeNumbers
  <2>1. InodeNumbers = {}
    BY <1>6, DiskFacts, GeometryAssumption DEF InodeNumbers, GeometryAssumption
  <2>2. ValidInodes(disk) = {} /\ ValidInodes(disk') = {}
    BY <2>1 DEF ValidInodes
  <2> QED
    BY <1>1, <1>4, <1>5, <2>2
    DEF Safe, NoCrossLink, FilesMarked, ReleaseIsWhole, CopyProgress,
        WriteHolds, CopyResumes
<1>7. CASE n \in InodeNumbers
  <2> HIDE DEF inode
  <2>1. /\ ValidInodes(disk') = ValidInodes(disk) \cup {n}
        /\ n \notin ValidInodes(disk)
        /\ inode_load(disk', n) = inode
        /\ \A m \in ValidInodes(disk) :
             /\ inode_load(disk', m) = inode_load(disk, m)
             /\ FileRefs(disk', inode_load(disk, m)) = FileRefs(disk, inode_load(disk, m))
             /\ UsedBlocks(disk', m) = UsedBlocks(disk, m)
    <3>1. n \notin ValidInodes(disk)
      BY <1>1 DEF ValidInodes
    <3> QED  BY <1>1, <1>3, <1>7, <3>1, SaveFrame DEF Safe
  <2>2. FileRefs(disk', inode) = {} /\ UsedBlocks(disk', n) = {}
    BY <1>3, <2>1, NoRefsWhenEmpty DEF UsedBlocks
  <2>3. NoCrossLink'
    BY <2>1, <2>2 DEF Safe, NoCrossLink
  <2>4. FilesMarked'
    BY <1>1, <2>1, <2>2 DEF Safe, FilesMarked, BeingWritten
  <2>5. ReleaseIsWhole'
    <3> SUFFICES ASSUME ~astray, NEW m \in ValidInodes(disk')
                 PROVE  RefsInRange(disk', inode_load(disk', m))
      BY <1>1, WholeRelease DEF ReleaseIsWhole
    <3> QED
      BY <1>1, <2>1, <2>2 DEF Safe, ReleaseIsWhole, RefsInRange, BeingWritten
  <2> QED
    BY <1>1, <1>4, <1>5, <2>3, <2>4, <2>5
    DEF Safe, CopyProgress, WriteHolds, CopyResumes
<1> QED  BY <1>6, <1>7

\* fs_delete gives back blocks that no other file has.
LEMMA DeleteSafe ==
  ASSUME Safe, NEW n \in Inumbers, Delete(n)
  PROVE  Safe'
<1> DEFINE old == inode_load(disk, n)
           inode == [old EXCEPT !.isvalid = 0, !.size = 0]
<1>1. /\ pc = "idle" /\ mounted /\ Usable(n)
      /\ UNCHANGED <<mounted, maxInodes, astray, pc, call>>
  BY DEF Delete, Idle, Usable
<1>2. n \in ValidInodes(disk) /\ n \in InodeNumbers
  <2>1. n \in Int
    <3>1. Inumbers \subseteq Int
      BY GeometryAssumption, Zenon DEF GeometryAssumption
    <3> QED  BY <3>1, Zenon
  <2> QED  BY <1>1, <2>1, UsableIsValid
<1>3. disk \in DiskType
  BY DEF Safe, TypeOK, DiskType
<1>4. inode \in InodeType /\ inode.isvalid = 0
  <2>1. old \in InodeType
    BY <1>2, <1>3, LoadType
  <2>2. 0 \in 0 .. MaxSize
    BY GeometryAssumption DEF MaxSize, GeometryAssumption
  <2> HIDE DEF old
  <2> QED  BY <2>1, <2>2, Zenon DEF InodeType
<1>5. /\ RefsInRange(disk, old)
      /\ Released(disk, old) = FileRefs(disk, old)
      /\ UsedBlocks(disk, n) = FileRefs(disk, old)
  <2>1. RefsInRange(disk, old)
    <3>1. CASE astray
      BY <1>2, <1>3, <3>1, RefsOfType DEF Delete, Torn
    <3>2. CASE ~astray
      BY <1>1, <1>2, <3>2 DEF Safe, ReleaseIsWhole, BeingWritten
    <3> QED  BY <3>1, <3>2
  <2> QED  BY <2>1, WholeRelease DEF RefsInRange, UsedBlocks
<1>6. /\ disk' = inode_save(disk, n, inode)
      /\ freeBlockBitmap' = freeBlockBitmap \ UsedBlocks(disk, n)
  BY <1>5 DEF Delete
<1> HIDE DEF inode
<1>7. /\ disk' \in DiskType
      /\ ValidInodes(disk') = ValidInodes(disk) \ {n}
      /\ disk'[0] = disk[0]
      /\ \A m \in ValidInodes(disk) \ {n} :
           /\ inode_load(disk', m) = inode_load(disk, m)
           /\ FileRefs(disk', inode_load(disk, m)) = FileRefs(disk, inode_load(disk, m))
           /\ UsedBlocks(disk', m) = UsedBlocks(disk, m)
  BY <1>2, <1>4, <1>6, SaveFrame DEF Safe
<1>8. TypeOK'
  BY <1>1, <1>6, <1>7 DEF Safe, TypeOK, DiskType
<1>9. NoCrossLink'
  BY <1>7 DEF Safe, NoCrossLink
<1>10. FilesMarked'
  BY <1>1, <1>2, <1>6, <1>7 DEF Safe, FilesMarked, NoCrossLink, BeingWritten
<1>11. ReleaseIsWhole'
  <2> SUFFICES ASSUME ~astray, NEW m \in ValidInodes(disk')
               PROVE  RefsInRange(disk', inode_load(disk', m))
    BY <1>1, WholeRelease DEF ReleaseIsWhole
  <2> QED
    BY <1>1, <1>7 DEF Safe, ReleaseIsWhole, RefsInRange, BeingWritten
<1> QED
  BY <1>1, <1>7, <1>8, <1>9, <1>10, <1>11
  DEF Safe, CopyProgress, WriteHolds, CopyResumes, MountedDisk

\* A delete by an astray mount removes its inode and disturbs no other file.
LEMMA DeleteTornSafe ==
  ASSUME Safe, NEW n \in Inumbers, DeleteTorn(n)
  PROVE  Safe'
<1> DEFINE old == inode_load(disk, n)
           inode == [old EXCEPT !.isvalid = 0, !.size = 0]
<1>1. /\ pc = "idle" /\ mounted /\ Usable(n) /\ astray
      /\ UNCHANGED <<mounted, maxInodes, astray, pc, call>>
      /\ disk' = inode_save(disk, n, inode)
  BY DEF DeleteTorn, Idle, Usable
<1>2. n \in ValidInodes(disk) /\ n \in InodeNumbers
  <2>1. n \in Int
    <3>1. Inumbers \subseteq Int
      BY GeometryAssumption, Zenon DEF GeometryAssumption
    <3> QED  BY <3>1, Zenon
  <2> QED  BY <1>1, <2>1, UsableIsValid
<1>3. inode \in InodeType /\ inode.isvalid = 0
  <2>1. old \in InodeType
    BY <1>2, LoadType DEF Safe, TypeOK, DiskType
  <2>2. 0 \in 0 .. MaxSize
    BY GeometryAssumption DEF MaxSize, GeometryAssumption
  <2> HIDE DEF old
  <2> QED  BY <2>1, <2>2, Zenon DEF InodeType
<1> HIDE DEF inode
<1>4. /\ disk' \in DiskType
      /\ ValidInodes(disk') = ValidInodes(disk) \ {n}
      /\ disk'[0] = disk[0]
      /\ \A m \in ValidInodes(disk) \ {n} : UsedBlocks(disk', m) = UsedBlocks(disk, m)
  BY <1>1, <1>2, <1>3, SaveFrame DEF Safe
<1>5. freeBlockBitmap' \subseteq Blocks
  BY DEF DeleteTorn, Safe, TypeOK
<1>6. TypeOK'
  BY <1>1, <1>4, <1>5 DEF Safe, TypeOK, DiskType
<1>7. NoCrossLink'
  BY <1>4 DEF Safe, NoCrossLink
<1> QED
  BY <1>1, <1>4, <1>6, <1>7
  DEF Safe, FilesMarked, ReleaseIsWhole, CopyProgress, WriteHolds, CopyResumes,
      MountedDisk

-----------------------------------------------------------------------------
(* The allocation loop of fs_write *)

\* What the allocation loop may rely on at each of its turns.
LEMMA LoopFacts ==
  ASSUME Safe, pc \in {"alloc", "store"}, call.toWrite > 0
  PROVE  /\ call.curBlock \in FileSlots
         /\ Writing \in 1 .. call.toWrite
         /\ call.written + Writing \in 0 .. COPY_BUFFER
         /\ call.toWrite - Writing \in 0 .. COPY_BUFFER
         /\ call.offset + call.written + Writing <= (call.curBlock + 1) * BLOCK_SIZE
         /\ call.toWrite - Writing > 0 =>
              (call.curBlock + 1) * BLOCK_SIZE = call.offset + call.written + Writing
<1>1. call \in CallType
  BY DEF Safe, TypeOK
<1>2. /\ call.offset <= HostSize[call.file]
      /\ call.written + call.toWrite = FreadResult
      /\ call.curBlock * BLOCK_SIZE = call.offset + call.written
  BY DEF Safe, CopyProgress
<1>3. /\ call.offset \in Nat /\ call.curBlock \in Nat
      /\ call.toWrite \in Nat /\ call.written \in Nat
      /\ call.toWrite <= COPY_BUFFER
      /\ HostSize[call.file] \in Nat /\ HostSize[call.file] <= MaxSize
  BY <1>1, CallFields, HostFacts, GeometryAssumption DEF GeometryAssumption, MaxSize
<1>4. /\ FreadResult \in Nat /\ FreadResult <= COPY_BUFFER
      /\ call.offset + FreadResult <= HostSize[call.file]
  BY <1>2, <1>3, ReadFacts, GeometryAssumption DEF Safe, GeometryAssumption
<1>5. BLOCK_SIZE \in Nat /\ BLOCK_SIZE > 0 /\ COPY_BUFFER \in Nat
  BY GeometryAssumption DEF GeometryAssumption
<1>6. Writing \in 1 .. call.toWrite /\ Writing <= BLOCK_SIZE
      /\ (call.toWrite - Writing > 0 => Writing = BLOCK_SIZE)
  BY <1>3, <1>5 DEF Writing
<1>7. (call.curBlock + 1) * BLOCK_SIZE = call.curBlock * BLOCK_SIZE + BLOCK_SIZE
  BY <1>3, <1>5
<1>8. call.curBlock \in FileSlots
  <2>1. call.curBlock * BLOCK_SIZE < (POINTERS_PER_INODE + POINTERS_PER_BLOCK) * BLOCK_SIZE
    BY <1>2, <1>3, <1>4, GeometryAssumption DEF MaxSize, GeometryAssumption
  <2>2. call.curBlock < POINTERS_PER_INODE + POINTERS_PER_BLOCK
    BY <2>1, <1>3, <1>5, GeometryAssumption DEF GeometryAssumption
  <2> QED  BY <2>2, <1>3, GeometryAssumption DEF FileSlots, GeometryAssumption
<1>9. /\ call.written + Writing \in 0 .. COPY_BUFFER
      /\ call.toWrite - Writing \in 0 .. COPY_BUFFER
  BY <1>2, <1>3, <1>4, <1>5, <1>6
<1>10. /\ call.offset + call.written + Writing <= (call.curBlock + 1) * BLOCK_SIZE
       /\ call.toWrite - Writing > 0 =>
            (call.curBlock + 1) * BLOCK_SIZE = call.offset + call.written + Writing
  BY <1>2, <1>3, <1>6, <1>7, <1>5
<1> QED  BY <1>6, <1>8, <1>9, <1>10

\* a block that belongs to no other file is written, and the inode on disk of
\* the file being written gains at most the blocks P by it
LEMMA WriteFrame ==
  ASSUME Safe, pc \in {"alloc", "store"},
         NEW b \in Blocks \ Metadata,
         \A m \in ValidInodes(disk) \ {call.inumber} : b \notin UsedBlocks(disk, m),
         NEW dsk2, OnlyWrites(disk, dsk2, b),
         NEW P \in SUBSET Blocks, P \cap Metadata = {},
         \A m \in ValidInodes(disk) \ {call.inumber} : P \cap UsedBlocks(disk, m) = {},
         \A k \in FileSlots :
           TurnRefs(dsk2, inode_load(disk, call.inumber), k) \cap Blocks \subseteq
             TurnRefs(disk, inode_load(disk, call.inumber), k) \cup P
  PROVE  /\ ValidInodes(dsk2) = ValidInodes(disk)
         /\ dsk2[0] = disk[0]
         /\ \A m \in ValidInodes(disk) \ {call.inumber} :
              /\ FileRefs(dsk2, inode_load(dsk2, m)) = FileRefs(disk, inode_load(disk, m))
              /\ UsedBlocks(dsk2, m) = UsedBlocks(disk, m)
         /\ UsedBlocks(dsk2, call.inumber) \subseteq UsedBlocks(disk, call.inumber) \cup P
         /\ \A n \in ValidInodes(dsk2) :
              /\ UsedBlocks(dsk2, n) \cap Metadata = {}
              /\ \A m \in ValidInodes(dsk2) \ {n} :
                   UsedBlocks(dsk2, n) \cap UsedBlocks(dsk2, m) = {}
<1> DEFINE n == call.inumber
<1>1. n \in ValidInodes(disk) /\ n \in InodeNumbers /\ b \notin InodeBlocks
  BY DEF Safe, WriteHolds, ValidInodes, Metadata
<1>2. /\ ValidInodes(dsk2) = ValidInodes(disk)
      /\ inode_load(dsk2, n) = inode_load(disk, n)
  BY <1>1, InodesFrame
<1>3. dsk2[0] = disk[0]
  BY DiskFacts DEF OnlyWrites, Metadata
<1>4. ASSUME NEW m \in ValidInodes(disk) \ {n}
      PROVE  /\ FileRefs(dsk2, inode_load(dsk2, m)) = FileRefs(disk, inode_load(disk, m))
             /\ UsedBlocks(dsk2, m) = UsedBlocks(disk, m)
  <2>1. m \in InodeNumbers /\ b \notin FileRefs(disk, inode_load(disk, m))
    BY <1>4 DEF ValidInodes, UsedBlocks
  <2> QED  BY <1>1, <2>1, FilesFrame
<1>5. UsedBlocks(dsk2, n) \subseteq UsedBlocks(disk, n) \cup P
  <2>1. inode_load(disk, n).size \in Nat
    BY <1>1, LoadType DEF Safe, TypeOK, DiskType, InodeType
  <2>2. Turns(inode_load(disk, n).size) \subseteq FileSlots
    BY <2>1, TurnsZero
  <2> QED  BY <1>2, <2>2 DEF UsedBlocks, FileRefs
<1>6. \A m \in ValidInodes(disk) :
        /\ UsedBlocks(disk, m) \cap Metadata = {}
        /\ \A l \in ValidInodes(disk) \ {m} :
             UsedBlocks(disk, m) \cap UsedBlocks(disk, l) = {}
  BY DEF Safe, NoCrossLink
<1>7. \A m \in ValidInodes(disk) : UsedBlocks(dsk2, m) \cap Metadata = {}
  BY <1>4, <1>5, <1>6
<1>8. ASSUME NEW m \in ValidInodes(disk), NEW l \in ValidInodes(disk) \ {m}
      PROVE  UsedBlocks(dsk2, m) \cap UsedBlocks(dsk2, l) = {}
  <2>1. CASE m # n /\ l # n
    BY <1>4, <1>6, <2>1
  <2>2. CASE m = n
    BY <1>4, <1>5, <1>6, <2>2
  <2>3. CASE l = n
    BY <1>4, <1>5, <1>6, <2>3
  <2> QED  BY <2>1, <2>2, <2>3
<1> QED  BY <1>2, <1>3, <1>4, <1>5, <1>7, <1>8

\* what is left to show of a step of the loop
LEMMA LoopStep ==
  ASSUME Safe, pc \in {"alloc", "store"}, pc' \in {"alloc", "store"},
         UNCHANGED <<mounted, maxInodes, astray>>, call'.inumber = call.inumber,
         TypeOK', NoCrossLink', CopyProgress', WriteHolds',
         freeBlockBitmap \subseteq freeBlockBitmap',
         ValidInodes(disk') = ValidInodes(disk), disk'[0] = disk[0],
         \A m \in ValidInodes(disk) \ {call.inumber} :
           /\ FileRefs(disk', inode_load(disk', m)) = FileRefs(disk, inode_load(disk, m))
           /\ UsedBlocks(disk', m) = UsedBlocks(disk, m)
  PROVE  Safe'
<1>1. BeingWritten = {call.inumber} /\ BeingWritten' = {call.inumber}
  BY DEF BeingWritten
<1>2. FilesMarked'
  BY <1>1 DEF Safe, FilesMarked
<1>3. ReleaseIsWhole'
  <2> SUFFICES ASSUME mounted /\ ~astray,
                      NEW m \in ValidInodes(disk) \ {call.inumber}
               PROVE  RefsInRange(disk', inode_load(disk', m))
    BY <1>1, WholeRelease DEF ReleaseIsWhole
  <2> QED  BY <1>1 DEF Safe, ReleaseIsWhole, RefsInRange
<1>4. CopyResumes' /\ MountedDisk'
  BY DEF Safe, CopyResumes, MountedDisk
<1> QED  BY <1>2, <1>3, <1>4 DEF Safe

\* what every step of the loop starts from
LEMMA LoopStart ==
  ASSUME Safe, pc \in {"alloc", "store"}
  PROVE  /\ disk \in DiskType /\ call \in CallType
         /\ freeBlockBitmap \subseteq Blocks /\ Metadata \subseteq freeBlockBitmap
         /\ call.inumber \in ValidInodes(disk)
         /\ inode_load(disk, call.inumber) \in InodeType
         /\ HeldBlocks \subseteq freeBlockBitmap \ Metadata
         /\ \A m \in ValidInodes(disk) \ {call.inumber} :
              /\ UsedBlocks(disk, m) \subseteq freeBlockBitmap
              /\ HeldBlocks \cap UsedBlocks(disk, m) = {}
<1>1. call.inumber \in ValidInodes(disk) /\ call.inumber \in InodeNumbers
  BY DEF Safe, WriteHolds, ValidInodes
<1>2. inode_load(disk, call.inumber) \in InodeType
  BY <1>1, LoadType DEF Safe, TypeOK, DiskType
<1> QED
  BY <1>1, <1>2
  DEF Safe, TypeOK, DiskType, FilesMarked, WriteHolds, BeingWritten, MountedDisk

\* a block the bitmap offers belongs to nobody
LEMMA FreeBlock ==
  ASSUME Safe, pc \in {"alloc", "store"}, NEW b \in Free
  PROVE  /\ b \in Blocks \ Metadata
         /\ b \notin HeldBlocks
         /\ \A m \in ValidInodes(disk) \ {call.inumber} : b \notin UsedBlocks(disk, m)
BY LoopStart DEF Free

\* The locals after a block was stored are well formed.
LEMMA StoredCall ==
  ASSUME Safe, pc \in {"alloc", "store"}, call.toWrite > 0
  PROVE  /\ Stored \in CallType
         /\ Stored.curBlock = call.curBlock + 1
         /\ Stored.toWrite = call.toWrite - Writing
         /\ Stored.written = call.written + Writing
         /\ Stored.inode = call.inode /\ Stored.inumber = call.inumber
         /\ Stored.file = call.file /\ Stored.offset = call.offset
         /\ Stored.target = 0
<1>1. call \in CallType
  BY DEF Safe, TypeOK
<1>2. call.curBlock + 1 \in Nat
  BY <1>1, CallFields
<1>3. /\ call.written + Writing \in 0 .. COPY_BUFFER
      /\ call.toWrite - Writing \in 0 .. COPY_BUFFER
      /\ 0 \in Blocks
  BY LoopFacts, DiskFacts
<1> QED  BY <1>1, <1>2, <1>3, Zenon DEF Stored, CallType

\* Storing a block advances the copy by that block.
LEMMA StoredProgress ==
  ASSUME Safe, pc \in {"alloc", "store"}, call.toWrite > 0, pc' = "alloc",
         call'.file = call.file, call'.offset = call.offset,
         call'.curBlock = call.curBlock + 1,
         call'.toWrite = call.toWrite - Writing,
         call'.written = call.written + Writing
  PROVE  CopyProgress'
<1>1. /\ call.offset <= HostSize[call.file]
      /\ call.offset % BLOCK_SIZE = 0
      /\ call.written + call.toWrite = FreadResult
  BY DEF Safe, CopyProgress
<1>2. FreadResult' = FreadResult
  BY DEF FreadResult
<1>3. /\ call.written \in Nat /\ call.toWrite \in Nat /\ Writing \in Nat
      /\ call.offset \in Nat /\ call.curBlock \in Nat
  BY CallFields, LoopFacts, GeometryAssumption
  DEF Safe, TypeOK, MaxSize, GeometryAssumption
<1>4. call'.written + call'.toWrite = FreadResult'
  BY <1>1, <1>2, <1>3
<1>5. /\ call'.offset + call'.written <= call'.curBlock * BLOCK_SIZE
      /\ call'.toWrite > 0 =>
           call'.curBlock * BLOCK_SIZE = call'.offset + call'.written
  BY <1>3, LoopFacts, GeometryAssumption DEF GeometryAssumption
<1> QED  BY <1>1, <1>4, <1>5 DEF CopyProgress

\* A part of a host file is a string of bytes, and so is what strncpy makes of it.
LEMMA PartType ==
  ASSUME NEW f \in HostFiles, NEW from \in Nat, NEW n \in 1 .. BLOCK_SIZE,
         from + n <= HostSize[f]
  PROVE  /\ HostPart(f, from, n) \in [0 .. n - 1 -> 0 .. 255]
         /\ strncpy(HostPart(f, from, n)) \in Strings
<1>1. /\ HostBytes[f] \in [0 .. HostSize[f] - 1 -> 0 .. 255]
      /\ HostSize[f] \in Nat /\ n \in Nat
  <2>1. HostBytes[f] \in [0 .. HostSize[f] - 1 -> 0 .. 255]
    BY HostAssumption, Zenon DEF HostAssumption
  <2>2. HostSize \in [HostFiles -> Nat] /\ BLOCK_SIZE \in Nat
    BY HostAssumption, GeometryAssumption, Zenon DEF HostAssumption, GeometryAssumption
  <2>3. HostSize[f] \in Nat /\ n \in Nat
    BY <2>2
  <2> QED  BY <2>1, <2>3
<1>2. \A i \in 0 .. n - 1 : from + i \in 0 .. HostSize[f] - 1
  BY <1>1
<1>3. HostPart(f, from, n) \in [0 .. n - 1 -> 0 .. 255]
  BY <1>1, <1>2 DEF HostPart
<1>4. strncpy(HostPart(f, from, n)) \in [0 .. n - 1 -> 0 .. 255]
  <2> DEFINE src == HostPart(f, from, n)
  <2> HIDE DEF src
  <2>1. src \in [0 .. n - 1 -> 0 .. 255]
    BY <1>3 DEF src
  <2>2. strncpy(src) \in [0 .. n - 1 -> 0 .. 255]
    BY <2>1 DEF strncpy
  <2> QED  BY <2>2 DEF src
<1> QED  BY <1>3, <1>4 DEF Strings

\* fs_write fills each block with the part of the host file that belongs there.
LEMMA FillingFacts ==
  ASSUME Safe, pc \in {"alloc", "store"}, call.toWrite > 0
  PROVE  /\ Filling = Data(Chunk(call.file, call.curBlock))
         /\ Filling \in BlockType
<1> DEFINE at == call.offset + call.written
           size == HostSize[call.file]
<1>1. /\ call.offset \in Nat /\ call.written \in Nat /\ call.toWrite \in Nat
      /\ call.curBlock \in Nat /\ call.file \in HostFiles /\ size \in Nat
  BY CallFields, HostFacts, GeometryAssumption
  DEF Safe, TypeOK, MaxSize, GeometryAssumption
<1>2. /\ call.offset <= size
      /\ call.offset % BLOCK_SIZE = 0
      /\ call.written + call.toWrite = FreadResult
      /\ call.curBlock * BLOCK_SIZE = at
  BY DEF Safe, CopyProgress
<1>3. BLOCK_SIZE \in Nat /\ BLOCK_SIZE > 0 /\ COPY_BUFFER \in Nat
  BY GeometryAssumption DEF GeometryAssumption
<1>4. at + call.toWrite <= size
  BY <1>1, <1>2, ReadFacts, GeometryAssumption DEF Safe, GeometryAssumption
<1>5. call.toWrite < BLOCK_SIZE => at + call.toWrite = size
  <2> SUFFICES ASSUME FreadResult = COPY_BUFFER PROVE call.toWrite >= BLOCK_SIZE
    BY <1>1, <1>2, <1>3, ReadFacts DEF Safe
  <2> DEFINE o == call.offset + COPY_BUFFER
             q == o \div BLOCK_SIZE
  <2>1. o \in Nat /\ o % BLOCK_SIZE = 0
    BY <1>1, <1>2, <1>3, NextBuffer
  <2>2. q \in Nat /\ q * BLOCK_SIZE = call.offset + COPY_BUFFER
    <3>1. o = call.offset + COPY_BUFFER
      OBVIOUS
    <3> HIDE DEF o
    <3> QED  BY <2>1, <3>1, NextBuffer
  <2> HIDE DEF q
  <2>3. call.curBlock * BLOCK_SIZE + call.toWrite = q * BLOCK_SIZE
    BY <1>1, <1>2, <1>3, <2>2
  <2>4. call.curBlock < q
    <3>1. call.curBlock * BLOCK_SIZE < q * BLOCK_SIZE
      BY <1>1, <1>3, <2>2, <2>3
    <3> QED  BY <1>1, <1>3, <2>2, <3>1
  <2>5. (q - call.curBlock) * BLOCK_SIZE >= BLOCK_SIZE
    BY <1>1, <1>3, <2>2, <2>4
  <2>6. (q - call.curBlock) * BLOCK_SIZE = q * BLOCK_SIZE - call.curBlock * BLOCK_SIZE
    BY <1>1, <1>3, <2>2
  <2> QED  BY <1>1, <1>3, <2>2, <2>3, <2>5, <2>6
<1>6. Writing = Covered(size, call.curBlock)
  BY <1>1, <1>2, <1>3, <1>4, <1>5 DEF Writing, Covered
<1>7. Filling = Data(Chunk(call.file, call.curBlock))
  BY <1>2, <1>6 DEF Filling, Chunk
<1>8. /\ Writing \in 1 .. BLOCK_SIZE /\ at \in Nat
      /\ at + Writing <= size
  BY <1>1, <1>3, <1>4 DEF Writing
<1> HIDE DEF at
<1>9. strncpy(HostPart(call.file, at, Writing)) \in Strings
  BY <1>1, <1>8, PartType
<1> QED  BY <1>7, <1>9 DEF Filling, Data, BlockType, at

\* A turn of the loop for a direct block keeps the invariant.
LEMMA AllocDirectSafe == ASSUME Safe, AllocDirect PROVE Safe'
<1> DEFINE n == call.inumber
           cur == call.curBlock
<1>1. PICK b \in Free :
        /\ freeBlockBitmap' = freeBlockBitmap \cup {b}
        /\ disk' = [disk EXCEPT ![b] = Filling]
        /\ call' = [Stored EXCEPT !.inode.direct[cur] = b]
  BY DEF AllocDirect
<1>2. /\ pc = "alloc" /\ call.toWrite > 0 /\ cur < POINTERS_PER_INODE
      /\ UNCHANGED <<mounted, maxInodes, astray, pc>>
  BY DEF AllocDirect
<1>3. /\ disk \in DiskType /\ call \in CallType
      /\ b \in Blocks \ Metadata
      /\ freeBlockBitmap \subseteq Blocks
  BY <1>2, LoopStart, FreeBlock
<1>4. /\ cur \in FileSlots /\ cur \in Nat /\ cur \in DirectSlots
      /\ call.file \in HostFiles /\ call.inode \in InodeType
  BY <1>2, <1>3, CallFields, LoopFacts, TurnFacts
<1>5. disk' \in DiskType /\ disk'[b] = Filling
  <2>1. Filling \in BlockType
    BY <1>2, FillingFacts
  <2> QED  BY <1>1, <1>3, <2>1 DEF DiskType
<1>6. OnlyWrites(disk, disk', b)
  BY <1>1, <1>3 DEF OnlyWrites, DiskType
<1> DEFINE inode == [call.inode EXCEPT !.direct[cur] = b]
<1>7. /\ inode \in InodeType /\ inode.isvalid = call.inode.isvalid
      /\ inode.direct = [call.inode.direct EXCEPT ![cur] = b]
  <2>1. [call.inode.direct EXCEPT ![cur] = b] \in [DirectSlots -> Blocks]
    BY <1>3, <1>4 DEF InodeType
  <2> QED  BY <1>4, <2>1, Zenon DEF InodeType
<1>8. /\ call' \in CallType /\ call'.inode = inode
      /\ call'.curBlock = cur + 1 /\ call'.toWrite = call.toWrite - Writing
      /\ call'.written = call.written + Writing
      /\ call'.inumber = n /\ call'.file = call.file /\ call'.offset = call.offset
  <2>1. call' = [Stored EXCEPT !.inode = inode]
    BY <1>1, <1>2, StoredCall, Zenon DEF CallType
  <2> HIDE DEF inode
  <2> QED  BY <1>2, <1>7, <2>1, StoredCall, Zenon DEF CallType
<1>9. TypeOK'
  BY <1>1, <1>2, <1>3, <1>5, <1>8 DEF Safe, TypeOK, DiskType
<1>10. CopyProgress'
  BY <1>2, <1>8, StoredProgress
<1>11. /\ ValidInodes(disk') = ValidInodes(disk) /\ disk'[0] = disk[0]
       /\ \A m \in ValidInodes(disk) \ {n} :
            /\ FileRefs(disk', inode_load(disk', m)) = FileRefs(disk, inode_load(disk, m))
            /\ UsedBlocks(disk', m) = UsedBlocks(disk, m)
       /\ NoCrossLink'
  <2>1. \A k \in FileSlots :
          TurnRefs(disk', inode_load(disk, n), k) \cap Blocks \subseteq
            TurnRefs(disk, inode_load(disk, n), k) \cup {}
    BY <1>2, <1>3, <1>4, <1>5, <1>6, LoopStart, DataAddsNoRef DEF Filling
  <2>2. \A m \in ValidInodes(disk) \ {n} : b \notin UsedBlocks(disk, m)
    BY <1>2, FreeBlock
  <2>3. {} \in SUBSET Blocks /\ {} \cap Metadata = {}
        /\ \A m \in ValidInodes(disk) \ {n} : {} \cap UsedBlocks(disk, m) = {}
    OBVIOUS
  <2> QED  BY <1>2, <1>3, <1>6, <2>1, <2>2, <2>3, WriteFrame DEF NoCrossLink
<1>12. WriteHolds'
  <2>1. HeldTurns' = 0 .. cur /\ HeldTurns = 0 .. cur - 1
    BY <1>2, <1>4, <1>8 DEF HeldTurns
  <2>2. HeldBlocks' \subseteq HeldBlocks \cup {b}
    <3> SUFFICES ASSUME NEW k \in 0 .. cur
                 PROVE  TurnRefs(disk', inode, k) \subseteq HeldBlocks \cup {b}
      BY <1>8, <2>1 DEF HeldBlocks
    <3>1. k < POINTERS_PER_INODE /\ k \in DirectSlots
      BY <1>2, <1>4, GeometryAssumption DEF DirectSlots, GeometryAssumption
    <3>2. TurnRefs(disk', inode, k) = {inode.direct[k]}
      BY <3>1 DEF TurnRefs
    <3>3. CASE k = cur
      BY <1>4, <1>7, <3>2, <3>3 DEF InodeType
    <3>4. CASE k # cur
      <4>1. inode.direct[k] = call.inode.direct[k]
        BY <1>4, <1>7, <3>1, <3>4 DEF InodeType
      <4>2. k \in HeldTurns /\ TurnRefs(disk, call.inode, k) = {call.inode.direct[k]}
        BY <1>4, <2>1, <3>1, <3>4 DEF TurnRefs
      <4> QED  BY <3>2, <4>1, <4>2 DEF HeldBlocks
    <3> QED  BY <3>3, <3>4
  <2>3. HeldBlocks' \subseteq freeBlockBitmap' \ Metadata
    BY <1>1, <1>2, <1>3, <2>2, LoopStart
  <2>4. \A m \in ValidInodes(disk) \ {n} : HeldBlocks' \cap UsedBlocks(disk, m) = {}
    BY <1>2, <2>2, LoopStart, FreeBlock
  <2> QED
    BY <1>2, <1>7, <1>8, <1>11, <2>3, <2>4 DEF Safe, WriteHolds
<1> QED
  BY <1>1, <1>2, <1>8, <1>9, <1>10, <1>11, <1>12, LoopStep

\* Writing the indirect block disturbs no other file, and what it held stays behind.
LEMMA WritePointerSafe ==
  ASSUME Safe, pc = "alloc", call.toWrite > 0,
         call.curBlock >= POINTERS_PER_INODE,
         NEW b \in Free, NEW i \in Blocks \ Metadata, i # b,
         call.curBlock > POINTERS_PER_INODE => i = call.inode.indirect,
         \A m \in ValidInodes(disk) \ {call.inumber} : i \notin UsedBlocks(disk, m),
         freeBlockBitmap' = freeBlockBitmap \cup {i, b},
         UNCHANGED <<mounted, maxInodes, astray>>,
         WritePointer(i, b)
  PROVE  Safe'
<1> DEFINE n == call.inumber
           cur == call.curBlock
           s == cur - POINTERS_PER_INODE
           inode == [call.inode EXCEPT !.indirect = i]
<1>1. /\ disk \in DiskType /\ call \in CallType
      /\ b \in Blocks \ Metadata
      /\ freeBlockBitmap \subseteq Blocks
  BY LoopStart, FreeBlock
<1>2. /\ cur \in FileSlots /\ cur \in Nat /\ s \in PointerSlots
      /\ call.inode \in InodeType
  BY <1>1, CallFields, LoopFacts, TurnFacts, GeometryAssumption
  DEF GeometryAssumption
<1> DEFINE new == [PointersOf(disk[i]) EXCEPT ![s] = b]
<1>3. /\ disk' = [disk EXCEPT ![i] = Pointers(new)]
      /\ pc' = "store"
      /\ call' = [call EXCEPT !.inode = inode, !.target = b]
  BY <1>1, Zenon DEF WritePointer, DiskType, CallType
<1>4. /\ PointersOf(disk[i]) \in [PointerSlots -> Words]
      /\ new \in [PointerSlots -> Words] /\ new[s] = b
  BY <1>1, <1>2, PointersOfType DEF DiskType, Words
<1>5. /\ disk' \in DiskType /\ disk'[i] = Pointers(new)
      /\ PointersOf(disk'[i]) = new
  <2>1. Pointers(new) \in BlockType /\ PointersOf(Pointers(new)) = new
    BY <1>4 DEF Pointers, PointersOf, BlockType
  <2> QED  BY <1>1, <1>3, <2>1 DEF DiskType
<1>6. OnlyWrites(disk, disk', i)
  BY <1>1, <1>3 DEF OnlyWrites, DiskType
<1>7. /\ inode \in InodeType /\ inode.isvalid = call.inode.isvalid
      /\ inode.direct = call.inode.direct /\ inode.indirect = i
  BY <1>2, Zenon DEF InodeType
<1>8. /\ call' \in CallType /\ call'.inode = inode /\ call'.target = b
      /\ call'.curBlock = cur /\ call'.toWrite = call.toWrite
      /\ call'.written = call.written /\ call'.inumber = n
      /\ call'.file = call.file /\ call'.offset = call.offset
  <2> HIDE DEF inode
  <2> QED  BY <1>1, <1>3, <1>7, Zenon DEF CallType
<1> HIDE DEF inode
<1>9. TypeOK'
  <2>1. freeBlockBitmap' \subseteq Blocks
    BY <1>1
  <2> QED  BY <1>1, <1>3, <1>5, <1>8, <2>1 DEF Safe, TypeOK, DiskType
<1>10. CopyProgress'
  BY <1>3, <1>8 DEF Safe, CopyProgress, FreadResult
<1>11. /\ ValidInodes(disk') = ValidInodes(disk) /\ disk'[0] = disk[0]
       /\ \A m \in ValidInodes(disk) \ {n} :
            /\ FileRefs(disk', inode_load(disk', m)) = FileRefs(disk, inode_load(disk, m))
            /\ UsedBlocks(disk', m) = UsedBlocks(disk, m)
       /\ NoCrossLink'
  <2>1. \A k \in FileSlots :
          TurnRefs(disk', inode_load(disk, n), k) \subseteq
            TurnRefs(disk, inode_load(disk, n), k) \cup {b}
    <3>1. /\ disk'[i] = Pointers([PointersOf(disk[i]) EXCEPT ![s] = b])
          /\ disk \in DiskType /\ b \in Blocks /\ i \in Blocks
      BY <1>1, <1>5
    <3>2. inode_load(disk, n) \in InodeType /\ s \in PointerSlots
      BY <1>2, LoopStart
    <3> DEFINE ino == inode_load(disk, n)
    <3>3. ino \in InodeType
      BY <3>2
    <3> HIDE DEF s, new, ino
    <3>4. \A k \in FileSlots :
            TurnRefs(disk', ino, k) \subseteq TurnRefs(disk, ino, k) \cup {b}
      BY <3>1, <3>2, <3>3, <1>6, PointerAddsOneRef
    <3> QED  BY <3>4 DEF ino
  <2>2. \A m \in ValidInodes(disk) \ {n} : {b} \cap UsedBlocks(disk, m) = {}
    BY FreeBlock
  <2>3. {b} \in SUBSET Blocks /\ {b} \cap Metadata = {}
    BY <1>1
  <2> QED  BY <1>6, <2>1, <2>2, <2>3, WriteFrame DEF NoCrossLink
<1>12. WriteHolds'
  <2>1. HeldTurns' = 0 .. cur /\ HeldTurns = 0 .. cur - 1
    BY <1>2, <1>3, <1>8 DEF HeldTurns
  <2>2. TurnRefs(disk', inode, cur) = {i, b}
    <3>1. ~(cur < POINTERS_PER_INODE) /\ {inode.indirect} \cap Blocks = {i}
      BY <1>2, <1>7, GeometryAssumption DEF GeometryAssumption
    <3>2. TurnRefs(disk', inode, cur) =
            {i} \cup {PointersOf(disk'[c])[s] : c \in {i}}
      BY <1>7, <3>1 DEF TurnRefs
    <3> QED  BY <1>4, <1>5, <3>2
  <2>3. ASSUME NEW k \in 0 .. cur - 1
        PROVE  TurnRefs(disk', inode, k) \subseteq HeldBlocks
    <3>1. k \in HeldTurns /\ k \in FileSlots
      <4>1. k \in HeldTurns
        BY <2>1
      <4>2. k \in FileSlots
        BY <1>2, GeometryAssumption DEF FileSlots, GeometryAssumption
      <4> QED  BY <4>1, <4>2
    <3>2. TurnRefs(disk, call.inode, k) \subseteq HeldBlocks
      BY <3>1 DEF HeldBlocks
    <3>3. CASE k < POINTERS_PER_INODE
      BY <1>7, <3>2, <3>3 DEF TurnRefs
    <3>4. CASE ~(k < POINTERS_PER_INODE)
      <4>1. i = call.inode.indirect
        BY <1>2, <3>4, GeometryAssumption DEF GeometryAssumption
      <4>2. /\ k - POINTERS_PER_INODE \in PointerSlots
            /\ k - POINTERS_PER_INODE # s
        BY <1>2, <3>1, <3>4, TurnFacts, GeometryAssumption DEF GeometryAssumption
      <4>3. new[k - POINTERS_PER_INODE] =
              PointersOf(disk[i])[k - POINTERS_PER_INODE]
        BY <1>4, <4>2
      <4> HIDE DEF new
      <4>4. TurnRefs(disk', inode, k) = TurnRefs(disk, call.inode, k)
        BY <1>5, <1>7, <3>4, <4>1, <4>3 DEF TurnRefs
      <4> QED  BY <3>2, <4>4
    <3> QED  BY <3>3, <3>4
  <2>4. HeldBlocks' \subseteq HeldBlocks \cup {i, b} /\ b \in HeldBlocks'
    <3>1. HeldBlocks' = UNION {TurnRefs(disk', inode, k) : k \in 0 .. cur}
      BY <1>8, <2>1 DEF HeldBlocks
    <3>2. \A k \in 0 .. cur : TurnRefs(disk', inode, k) \subseteq HeldBlocks \cup {i, b}
      BY <1>2, <2>2, <2>3
    <3>3. cur \in 0 .. cur /\ b \in TurnRefs(disk', inode, cur)
      BY <1>2, <2>2
    <3> QED  BY <3>1, <3>2, <3>3
  <2>5. HeldBlocks' \subseteq freeBlockBitmap' \ Metadata
    BY <1>1, <2>4, LoopStart
  <2>6. \A m \in ValidInodes(disk) \ {n} : HeldBlocks' \cap UsedBlocks(disk, m) = {}
    BY <2>4, LoopStart, FreeBlock
  <2> QED
    BY <1>3, <1>7, <1>8, <1>11, <2>4, <2>5, <2>6 DEF Safe, WriteHolds
<1> QED
  BY <1>3, <1>8, <1>9, <1>10, <1>11, <1>12, LoopStep

\* The turn that takes the indirect block keeps the invariant.
LEMMA AllocIndirectSafe == ASSUME Safe, AllocIndirect PROVE Safe'
<1>1. PICK i \in Free, b \in Free :
        /\ LowestIn(Free \ {i}, b)
        /\ freeBlockBitmap' = freeBlockBitmap \cup {i, b}
        /\ WritePointer(i, b)
  BY DEF AllocIndirect
<1>2. /\ pc = "alloc" /\ call.toWrite > 0 /\ call.curBlock = POINTERS_PER_INODE
      /\ UNCHANGED <<mounted, maxInodes, astray>>
  BY DEF AllocIndirect
<1>3. i # b
  BY <1>1 DEF LowestIn
<1>4. /\ i \in Blocks \ Metadata
      /\ \A m \in ValidInodes(disk) \ {call.inumber} : i \notin UsedBlocks(disk, m)
  BY <1>2, FreeBlock
<1>5. /\ call.curBlock >= POINTERS_PER_INODE
      /\ ~(call.curBlock > POINTERS_PER_INODE)
  BY <1>2, GeometryAssumption DEF GeometryAssumption
<1> QED  BY <1>1, <1>2, <1>3, <1>4, <1>5, WritePointerSafe

\* A later turn through the indirect block keeps the invariant.
LEMMA AllocPointerSafe == ASSUME Safe, AllocPointer PROVE Safe'
<1> DEFINE i == call.inode.indirect
<1>1. PICK b \in Free :
        /\ freeBlockBitmap' = freeBlockBitmap \cup {b}
        /\ WritePointer(i, b)
  BY DEF AllocPointer
<1>2. /\ pc = "alloc" /\ call.toWrite > 0 /\ call.curBlock > POINTERS_PER_INODE
      /\ UNCHANGED <<mounted, maxInodes, astray>>
  BY DEF AllocPointer
<1>3. i \in HeldBlocks
  <2>1. call.curBlock \in Nat
    BY CallFields DEF Safe, TypeOK
  <2>2. /\ call.curBlock - 1 \in HeldTurns
        /\ ~(call.curBlock - 1 < POINTERS_PER_INODE)
    BY <1>2, <2>1, GeometryAssumption DEF HeldTurns, GeometryAssumption
  <2>3. i \in TurnRefs(disk, call.inode, call.curBlock - 1)
    BY <2>2 DEF TurnRefs
  <2> QED  BY <2>2, <2>3 DEF HeldBlocks
<1>4. /\ i \in freeBlockBitmap /\ i \in Blocks \ Metadata /\ i # b
      /\ \A m \in ValidInodes(disk) \ {call.inumber} : i \notin UsedBlocks(disk, m)
  BY <1>2, <1>3, LoopStart DEF Free
<1>5. freeBlockBitmap' = freeBlockBitmap \cup {i, b}
  BY <1>1, <1>4
<1>6. call.curBlock >= POINTERS_PER_INODE
  BY <1>2, CallFields, GeometryAssumption DEF Safe, TypeOK, GeometryAssumption
<1> QED  BY <1>1, <1>2, <1>4, <1>5, <1>6, WritePointerSafe

\* Writing a data block behind the indirect one keeps the invariant.
LEMMA StoreDataSafe == ASSUME Safe, StoreData PROVE Safe'
<1> DEFINE n == call.inumber
           cur == call.curBlock
           b == call.target
<1>1. /\ pc = "store" /\ pc' = "alloc" /\ call' = Stored
      /\ disk' = [disk EXCEPT ![b] = Filling]
      /\ UNCHANGED <<mounted, freeBlockBitmap, maxInodes, astray>>
  BY DEF StoreData
<1>2. call.toWrite > 0 /\ b \in HeldBlocks /\ b # call.inode.indirect
  BY <1>1 DEF Safe, CopyProgress, WriteHolds
<1>3. /\ disk \in DiskType /\ b \in Blocks \ Metadata
      /\ \A m \in ValidInodes(disk) \ {n} : b \notin UsedBlocks(disk, m)
  BY <1>1, <1>2, LoopStart
<1>4. /\ cur \in FileSlots /\ cur \in Nat /\ call.file \in HostFiles
  BY <1>1, <1>2, CallFields, LoopFacts DEF Safe, TypeOK
<1>5. disk' \in DiskType /\ disk'[b] = Filling
  <2>1. Filling \in BlockType
    BY <1>1, <1>2, FillingFacts
  <2> QED  BY <1>1, <1>3, <2>1 DEF DiskType
<1>6. OnlyWrites(disk, disk', b)
  BY <1>1, <1>3 DEF OnlyWrites, DiskType
<1>7. /\ call' \in CallType /\ call'.inode = call.inode
      /\ call'.curBlock = cur + 1 /\ call'.toWrite = call.toWrite - Writing
      /\ call'.written = call.written + Writing
      /\ call'.inumber = n /\ call'.file = call.file /\ call'.offset = call.offset
  BY <1>1, <1>2, StoredCall
<1>8. TypeOK'
  BY <1>1, <1>5, <1>7 DEF Safe, TypeOK, DiskType
<1>9. CopyProgress'
  BY <1>1, <1>2, <1>7, StoredProgress
<1>10. /\ ValidInodes(disk') = ValidInodes(disk) /\ disk'[0] = disk[0]
       /\ \A m \in ValidInodes(disk) \ {n} :
            /\ FileRefs(disk', inode_load(disk', m)) = FileRefs(disk, inode_load(disk, m))
            /\ UsedBlocks(disk', m) = UsedBlocks(disk, m)
       /\ NoCrossLink'
  <2>1. \A k \in FileSlots :
          TurnRefs(disk', inode_load(disk, n), k) \cap Blocks \subseteq
            TurnRefs(disk, inode_load(disk, n), k) \cup {}
    BY <1>1, <1>3, <1>4, <1>5, <1>6, LoopStart, DataAddsNoRef DEF Filling
  <2>2. {} \in SUBSET Blocks /\ {} \cap Metadata = {}
        /\ \A m \in ValidInodes(disk) \ {n} : {} \cap UsedBlocks(disk, m) = {}
    OBVIOUS
  <2>3. pc \in {"alloc", "store"}
    BY <1>1
  <2> HIDE DEF b
  <2> QED  BY <1>3, <1>6, <2>1, <2>2, <2>3, WriteFrame DEF NoCrossLink
<1>11. WriteHolds'
  <2>1. HeldTurns' = 0 .. cur /\ HeldTurns = 0 .. cur
    BY <1>1, <1>4, <1>7 DEF HeldTurns
  <2>2. \A k \in 0 .. cur :
          TurnRefs(disk', call.inode, k) = TurnRefs(disk, call.inode, k)
    <3>1. \A c \in {call.inode.indirect} \cap Blocks : disk'[c] = disk[c]
      BY <1>2, <1>6 DEF OnlyWrites
    <3> QED  BY <3>1 DEF TurnRefs
  <2>3. HeldBlocks' = HeldBlocks
    BY <1>7, <2>1, <2>2 DEF HeldBlocks
  <2> QED
    BY <1>1, <1>7, <1>10, <2>3 DEF Safe, WriteHolds
<1> QED
  BY <1>1, <1>7, <1>8, <1>9, <1>10, <1>11, LoopStep

-----------------------------------------------------------------------------
(* The end of fs_write *)

\* Saving the inode hands the blocks held in memory over to the file.
LEMMA SaveSafe ==
  ASSUME Safe, pc = "alloc", NEW inode \in InodeType, inode.isvalid = 1,
         freeBlockBitmap \subseteq freeBlockBitmap', freeBlockBitmap' \subseteq Blocks,
         \A k \in 0 .. call.curBlock - 1 :
           TurnRefs(disk, inode, k) = TurnRefs(disk, call.inode, k),
         SaveAndReturn(inode)
  PROVE  Safe'
<1> DEFINE n == call.inumber
           bytes == call.written + call.offset
           saved == [inode EXCEPT !.size = bytes]
<1>1. /\ disk' = inode_save(disk, n, saved)
      /\ UNCHANGED <<mounted, maxInodes, astray>> /\ ~astray
      /\ pc' \in {"idle", "fread"}
  BY DEF SaveAndReturn, Return, Safe, MountedDisk
<1>2. /\ n \in ValidInodes(disk) /\ n \in InodeNumbers /\ mounted
      /\ disk \in DiskType /\ call \in CallType
  BY DEF Safe, WriteHolds, ValidInodes, TypeOK, DiskType
<1>3. /\ call.offset \in Nat /\ call.written \in Nat /\ call.toWrite \in Nat
      /\ call.curBlock \in Nat /\ call.file \in HostFiles
      /\ HostSize[call.file] \in Nat /\ HostSize[call.file] <= MaxSize
      /\ MaxSize \in Nat
  BY <1>2, CallFields, HostFacts, GeometryAssumption DEF GeometryAssumption
<1>4. /\ call.offset <= HostSize[call.file]
      /\ call.offset % BLOCK_SIZE = 0
      /\ call.written + call.toWrite = FreadResult
      /\ call.offset + call.written <= call.curBlock * BLOCK_SIZE
  BY DEF Safe, CopyProgress
<1>5. /\ FreadResult \in 0 .. COPY_BUFFER
      /\ call.offset + FreadResult <= HostSize[call.file]
      /\ FreadResult < COPY_BUFFER => call.offset + FreadResult = HostSize[call.file]
  BY <1>4, ReadFacts DEF Safe
<1>6. /\ bytes \in Nat /\ bytes <= HostSize[call.file] /\ bytes \in 0 .. MaxSize
      /\ bytes = call.offset + call.written
  BY <1>3, <1>4, <1>5
<1>7. /\ saved \in InodeType /\ saved.isvalid = 1 /\ saved.size = bytes
      /\ saved.direct = inode.direct /\ saved.indirect = inode.indirect
  <2> HIDE DEF bytes
  <2> QED  BY <1>6, Zenon DEF InodeType
<1> HIDE DEF saved
<1>8. FileRefs(disk, saved) \subseteq HeldBlocks
  <2>1. \A k \in Turns(bytes) : k \in 0 .. call.curBlock - 1
    BY <1>3, <1>4, <1>6, TurnsBound, TurnFacts, TurnsZero DEF FileSlots
  <2>2. \A k \in 0 .. call.curBlock - 1 :
          TurnRefs(disk, saved, k) = TurnRefs(disk, call.inode, k)
    BY <1>7 DEF TurnRefs
  <2>3. HeldTurns = 0 .. call.curBlock - 1
    BY DEF HeldTurns
  <2> QED  BY <1>7, <2>1, <2>2, <2>3 DEF FileRefs, HeldBlocks
<1>9. /\ FileRefs(disk, saved) \subseteq freeBlockBitmap \ Metadata
      /\ freeBlockBitmap \subseteq Blocks
      /\ \A m \in ValidInodes(disk) \ {n} :
           FileRefs(disk, saved) \cap UsedBlocks(disk, m) = {}
  BY <1>8, LoopStart
<1>10. /\ disk' \in DiskType
       /\ ValidInodes(disk') = ValidInodes(disk)
       /\ inode_load(disk', n) = saved
       /\ \A m \in ValidInodes(disk) \ {n} :
            /\ inode_load(disk', m) = inode_load(disk, m)
            /\ FileRefs(disk', inode_load(disk, m)) = FileRefs(disk, inode_load(disk, m))
            /\ UsedBlocks(disk', m) = UsedBlocks(disk, m)
       /\ FileRefs(disk', saved) = FileRefs(disk, saved)
       /\ disk'[0] = disk[0]
  <2>1. FileRefs(disk, saved) \cap Metadata = {}
    BY <1>9
  <2>2. TypeOK /\ NoCrossLink
    BY DEF Safe
  <2> HIDE DEF n
  <2>3. /\ disk' \in DiskType
        /\ ValidInodes(disk') = (ValidInodes(disk) \ {n}) \cup
                                 {m \in {n} : saved.isvalid = 1}
        /\ inode_load(disk', n) = saved
        /\ \A m \in ValidInodes(disk) \ {n} :
             /\ inode_load(disk', m) = inode_load(disk, m)
             /\ FileRefs(disk', inode_load(disk, m)) = FileRefs(disk, inode_load(disk, m))
             /\ UsedBlocks(disk', m) = UsedBlocks(disk, m)
        /\ disk'[0] = disk[0]
    BY <1>1, <1>2, <1>7, <2>2, SaveFrame
  <2>4. FileRefs(disk', saved) = FileRefs(disk, saved)
    BY <1>1, <1>2, <1>7, <2>1, <2>2, SaveFrame
  <2> QED  BY <1>2, <1>7, <2>3, <2>4
<1>11. UsedBlocks(disk', n) = FileRefs(disk, saved)
  BY <1>9, <1>10 DEF UsedBlocks
<1>12. NoCrossLink'
  <2>1. \A m \in ValidInodes(disk) \ {n} : UsedBlocks(disk', m) = UsedBlocks(disk, m)
    BY <1>10
  <2>2. \A m \in ValidInodes(disk) \ {n} :
          /\ UsedBlocks(disk, m) \cap Metadata = {}
          /\ \A l \in ValidInodes(disk) \ {m} :
               UsedBlocks(disk, m) \cap UsedBlocks(disk, l) = {}
    BY DEF Safe, NoCrossLink
  <2>3. /\ UsedBlocks(disk', n) \cap Metadata = {}
        /\ \A m \in ValidInodes(disk) \ {n} :
             UsedBlocks(disk', n) \cap UsedBlocks(disk, m) = {}
    BY <1>9, <1>11
  <2> SUFFICES ASSUME NEW m \in ValidInodes(disk), NEW l \in ValidInodes(disk) \ {m}
               PROVE  /\ UsedBlocks(disk', m) \cap Metadata = {}
                      /\ UsedBlocks(disk', m) \cap UsedBlocks(disk', l) = {}
    BY <1>2, <1>10, <2>1, <2>2, <2>3 DEF NoCrossLink
  <2>4. CASE m = n
    BY <2>1, <2>3, <2>4
  <2>5. CASE m # n /\ l = n
    BY <2>1, <2>2, <2>3, <2>5
  <2>6. CASE m # n /\ l # n
    BY <2>1, <2>2, <2>6
  <2> QED  BY <2>4, <2>5, <2>6
<1>13. BeingWritten = {n} /\ BeingWritten' = {}
  BY <1>1 DEF BeingWritten
<1>14. FilesMarked'
  <2> SUFFICES ASSUME NEW m \in ValidInodes(disk)
               PROVE  UsedBlocks(disk', m) \subseteq freeBlockBitmap'
    BY <1>1, <1>10, <1>13 DEF Safe, FilesMarked
  <2>1. CASE m = n
    BY <1>9, <1>11, <2>1
  <2>2. CASE m # n
    BY <1>1, <1>2, <1>10, <1>13, <2>2 DEF Safe, FilesMarked
  <2> QED  BY <2>1, <2>2
<1>15. ReleaseIsWhole'
  <2> SUFFICES ASSUME NEW m \in ValidInodes(disk)
               PROVE  RefsInRange(disk', inode_load(disk', m))
    BY <1>10, WholeRelease DEF ReleaseIsWhole
  <2>1. CASE m = n
    BY <1>9, <1>10, <2>1 DEF RefsInRange
  <2>2. CASE m # n
    BY <1>1, <1>2, <1>10, <1>13, <2>2 DEF Safe, ReleaseIsWhole, RefsInRange
  <2> QED  BY <2>1, <2>2
<1>16. MountedDisk'
  BY <1>1, <1>10 DEF Safe, MountedDisk
<1>17. CASE call.toWrite > 0
  <2>1. pc' = "idle" /\ call' = NoCall
    BY <1>17 DEF SaveAndReturn, Return
  <2>2. TypeOK'
    BY <1>1, <1>10, <2>1, NoCallType DEF Safe, TypeOK, DiskType
  <2> QED
    BY <1>12, <1>14, <1>15, <1>16, <2>1, <2>2
    DEF Safe, CopyProgress, WriteHolds, CopyResumes
<1>18. CASE ~(call.toWrite > 0)
  <2>1. /\ pc' = "fread"
        /\ call' = [NoCall EXCEPT !.file = call.file, !.inumber = n,
                                  !.offset = call.offset + call.written]
    BY <1>18 DEF SaveAndReturn
  <2>2. /\ call' \in CallType /\ call'.file = call.file /\ call'.inumber = n
        /\ call'.offset = bytes
    <3>1. n \in Inumbers \cup {0}
      BY <1>2 DEF CallType
    <3>2. bytes = call.offset + call.written
      BY <1>6
    <3> HIDE DEF bytes, n
    <3> QED  BY <1>3, <1>6, <2>1, <3>1, <3>2, NoCallType, Zenon DEF CallType
  <2>3. TypeOK'
    BY <1>1, <1>10, <2>1, <2>2 DEF Safe, TypeOK, DiskType
  <2>4. CopyProgress'
    <3>1. call.written = FreadResult /\ bytes = call.offset + FreadResult
      BY <1>3, <1>4, <1>6, <1>18
    <3> SUFFICES /\ bytes <= HostSize[call.file]
                 /\ FreadResult' > 0 => bytes % BLOCK_SIZE = 0
      BY <2>1, <2>2 DEF CopyProgress
    <3>2. FreadResult' > 0 => bytes # HostSize[call.file]
      BY <1>3, <1>6, <2>2, GeometryAssumption DEF FreadResult, GeometryAssumption
    <3>3. FreadResult' > 0 => bytes = call.offset + COPY_BUFFER
      BY <1>5, <3>1, <3>2, GeometryAssumption DEF GeometryAssumption
    <3> QED  BY <1>3, <1>4, <1>6, <3>3, NextBuffer
  <2>5. CopyResumes'
    BY <1>1, <1>2, <1>7, <1>10, <2>2 DEF CopyResumes
  <2> QED
    BY <1>12, <1>14, <1>15, <1>16, <2>1, <2>3, <2>4, <2>5 DEF Safe, WriteHolds
<1> QED  BY <1>17, <1>18

\* The end of fs_write keeps the invariant.
LEMMA WriteEndSafe == ASSUME Safe, WriteEnd PROVE Safe'
<1>1. /\ pc = "alloc" /\ SaveAndReturn(call.inode)
      /\ freeBlockBitmap' = freeBlockBitmap
  BY DEF WriteEnd
<1>2. call.inode \in InodeType /\ call.inode.isvalid = 1
  BY <1>1, CallFields DEF Safe, TypeOK, WriteHolds
<1>3. freeBlockBitmap \subseteq Blocks
  BY DEF Safe, TypeOK
<1> QED  BY <1>1, <1>2, <1>3, SaveSafe

\* The end of fs_write after a lost indirect block keeps the invariant.
LEMMA IndirectLeakedSafe == ASSUME Safe, IndirectLeaked PROVE Safe'
<1>1. PICK i \in Free :
        /\ freeBlockBitmap' = freeBlockBitmap \cup {i}
        /\ SaveAndReturn([call.inode EXCEPT !.indirect = i])
  BY DEF IndirectLeaked
<1>2. pc = "alloc" /\ call.curBlock = POINTERS_PER_INODE
  BY DEF IndirectLeaked
<1> DEFINE inode == [call.inode EXCEPT !.indirect = i]
<1>3. i \in Blocks /\ freeBlockBitmap \subseteq Blocks
  BY DEF Free, Safe, TypeOK
<1>4. /\ inode \in InodeType /\ inode.isvalid = 1
      /\ inode.direct = call.inode.direct
  <2>1. call.inode \in InodeType /\ call.inode.isvalid = 1
    BY <1>2, CallFields DEF Safe, TypeOK, WriteHolds
  <2> QED  BY <1>3, <2>1, Zenon DEF InodeType
<1>5. \A k \in 0 .. call.curBlock - 1 :
        TurnRefs(disk, inode, k) = TurnRefs(disk, call.inode, k)
  BY <1>2, <1>4, GeometryAssumption DEF TurnRefs, GeometryAssumption
<1>6. /\ freeBlockBitmap \subseteq freeBlockBitmap' /\ freeBlockBitmap' \subseteq Blocks
  BY <1>1, <1>3
<1> HIDE DEF inode
<1>7. SaveAndReturn(inode)
  BY <1>1 DEF inode
<1> QED  BY <1>2, <1>4, <1>5, <1>6, <1>7, SaveSafe

-----------------------------------------------------------------------------
(* The theorems *)

\* Every step of every command, and the end of the process, keeps the invariant.
LEMMA NextSafe == Safe /\ [Next]_vars => Safe'
<1> SUFFICES ASSUME Safe, [Next]_vars PROVE Safe'
  OBVIOUS
<1>1. CASE FormatStep
  BY <1>1, FormatSuperSafe, FormatInodeBlockSafe DEF FormatStep
<1>2. CASE Mount \/ MountAstray
  BY <1>2, MountSafe, MountAstraySafe
<1>3. CASE InodeStep
  BY <1>3, CreateSafe, DeleteSafe, DeleteTornSafe DEF InodeStep
<1>4. CASE CopyinStep
  <2>1. CASE WriteStep
    BY <2>1, WriteBeginSafe, AllocDirectSafe, AllocIndirectSafe, AllocPointerSafe,
       StoreDataSafe, WriteEndSafe, IndirectLeakedSafe DEF WriteStep
  <2> QED  BY <1>4, <2>1, CopyinSafe, CopyinEndSafe DEF CopyinStep
<1>5. CASE Restart
  BY <1>5, RestartSafe
<1>6. CASE UNCHANGED vars
  BY <1>6
  DEF vars, Safe, TypeOK, NoCrossLink, FilesMarked, ReleaseIsWhole, BeingWritten,
      CopyProgress, FreadResult, WriteHolds, HeldBlocks, HeldTurns, CopyResumes,
      MountedDisk
<1> QED  BY <1>1, <1>2, <1>3, <1>4, <1>5, <1>6 DEF Next

\* Safe is inductive: whatever the geometry, the host files and the commands, and
\* wherever the process ends, every block write and every command preserves it.
THEOREM SpecSafe == Spec => []Safe
BY InitSafe, NextSafe, PTL DEF Spec

\* Every block keeps one of the layouts of union fs_block and every block
\* number in an inode stays a block of the disk, whatever its size.
THEOREM SpecTypeOK == Spec => []TypeOK
<1>1. Safe => TypeOK
  BY DEF Safe
<1> QED  BY <1>1, SpecSafe, PTL

\* No two files ever share a block, and no file has a block of the metadata,
\* wherever the process is ended and however often the disk is mounted again.
THEOREM SpecNoCrossLink == Spec => []NoCrossLink
<1>1. Safe => NoCrossLink
  BY DEF Safe
<1> QED  BY <1>1, SpecSafe, PTL

\* The bitmap of a mounted disk marks every block that a file has.
THEOREM SpecFilesMarked == Spec => []FilesMarked
<1>1. Safe => FilesMarked
  BY DEF Safe
<1> QED  BY <1>1, SpecSafe, PTL

\* The early returns of fs_delete and fs_write that would leave a file half
\* released are dead code once a disk is mounted.
THEOREM SpecReleaseIsWhole == Spec => []ReleaseIsWhole
<1>1. Safe => ReleaseIsWhole
  BY DEF Safe
<1> QED  BY <1>1, SpecSafe, PTL

-----------------------------------------------------------------------------
(* What a copy has stored so far *)

\* The block fs_read finds a turn's data in is one of those the turn uses.
LEMMA DataBlockUsed ==
  ASSUME NEW dsk, NEW inode, NEW k, TurnRefs(dsk, inode, k) \subseteq Blocks
  PROVE  DataBlock(dsk, inode, k) \in TurnRefs(dsk, inode, k)
BY DEF DataBlock, TurnRefs

\* A turn reads back as before when a block it does not use is written.
LEMMA DataBlockFrame ==
  ASSUME NEW dsk, NEW dsk2, NEW b, OnlyWrites(dsk, dsk2, b), NEW inode, NEW k,
         TurnRefs(dsk, inode, k) \subseteq Blocks, b \notin TurnRefs(dsk, inode, k)
  PROVE  /\ DataBlock(dsk2, inode, k) = DataBlock(dsk, inode, k)
         /\ dsk2[DataBlock(dsk, inode, k)] = dsk[DataBlock(dsk, inode, k)]
<1>1. DataBlock(dsk2, inode, k) = DataBlock(dsk, inode, k)
  <2>1. CASE k < POINTERS_PER_INODE
    BY <2>1 DEF DataBlock
  <2>2. CASE ~(k < POINTERS_PER_INODE)
    <3>1. inode.indirect \in Blocks \ {b}
      BY <2>2 DEF TurnRefs
    <3> QED  BY <2>2, <3>1 DEF DataBlock, OnlyWrites
  <2> QED  BY <2>1, <2>2
<1>2. DataBlock(dsk, inode, k) \in Blocks \ {b}
  BY DataBlockUsed
<1> QED  BY <1>1, <1>2 DEF OnlyWrites

\* The turns that fs_write holds use blocks of the disk, none of them metadata.
LEMMA HeldTurnFacts ==
  ASSUME Safe, pc \in {"alloc", "store"}, NEW k \in 0 .. call.curBlock - 1
  PROVE  /\ k \in Nat /\ k < call.curBlock
         /\ TurnRefs(disk, call.inode, k) \subseteq HeldBlocks
         /\ TurnRefs(disk, call.inode, k) \subseteq Blocks \ Metadata
         /\ DataBlock(disk, call.inode, k) \in HeldBlocks
<1>1. call.curBlock \in Nat
  BY CallFields DEF Safe, TypeOK
<1>2. k \in HeldTurns /\ k \in Nat /\ k < call.curBlock
  BY <1>1 DEF HeldTurns
<1>3. TurnRefs(disk, call.inode, k) \subseteq HeldBlocks
  BY <1>2 DEF HeldBlocks
<1>4. HeldBlocks \subseteq Blocks \ Metadata
  BY LoopStart
<1> QED  BY <1>2, <1>3, <1>4, DataBlockUsed

\* The blocks filled so far hold data, and the indirect block does not: its
\* first pointer is one that fs_write has stored.
LEMMA FilledIsNotIndirect ==
  ASSUME Safe, CopiedSoFar, pc \in {"alloc", "store"},
         NEW k \in 0 .. call.curBlock - 1, call.curBlock > POINTERS_PER_INODE,
         call.curBlock \in FileSlots
  PROVE  DataBlock(disk, call.inode, k) # call.inode.indirect
<1> DEFINE j == POINTERS_PER_INODE
           i == call.inode.indirect
<1>1. j \in 0 .. call.curBlock - 1 /\ ~(j < POINTERS_PER_INODE)
      /\ j - POINTERS_PER_INODE = 0
  BY GeometryAssumption DEF GeometryAssumption, FileSlots
<1>2. 0 \in PointerSlots
  BY GeometryAssumption DEF GeometryAssumption, PointerSlots
<1>3. i \in Blocks \ Metadata
  BY <1>1, HeldTurnFacts DEF TurnRefs
<1>4. PointersOf(disk[i])[0] \in Blocks \ Metadata
  <2>1. TurnRefs(disk, call.inode, j) \subseteq Blocks \ Metadata
    BY <1>1, HeldTurnFacts
  <2> HIDE DEF j, i
  <2>2. DataBlock(disk, call.inode, j) \in Blocks \ Metadata
    BY <2>1, DataBlockUsed
  <2> QED  BY <1>1, <2>2 DEF DataBlock, i
<1>5. disk[i].kind # "data"
  <2> SUFFICES ASSUME disk[i].kind = "data" PROVE FALSE
    OBVIOUS
  <2>1. PointersOf(disk[i])[0] = Lost
    BY <1>2 DEF PointersOf
  <2> QED  BY <1>4, <2>1, DiskFacts DEF Lost, Blocks
<1>6. disk[DataBlock(disk, call.inode, k)].kind = "data"
  <2>1. disk[DataBlock(disk, call.inode, k)] = Data(Chunk(call.file, k))
    BY DEF CopiedSoFar
  <2>2. Data(Chunk(call.file, k)).kind = "data"
    BY DEF Data
  <2> QED  BY <2>1, <2>2
<1> QED  BY <1>5, <1>6

\* A step of the loop that fills or points to later blocks alone leaves those of
\* the earlier buffers to the saved inode.
LEMMA EarlierKept ==
  ASSUME Safe, CopiedSoFar, pc \in {"alloc", "store"}, call.toWrite > 0,
         NEW b \in Blocks \ Metadata, OnlyWrites(disk, disk', b),
         call'.inumber = call.inumber, call'.offset = call.offset,
         \A k \in DirectSlots :
           k # call.curBlock => call'.inode.direct[k] = call.inode.direct[k],
         call.curBlock > POINTERS_PER_INODE =>
           call'.inode.indirect = call.inode.indirect
  PROVE  call'.offset > 0 => EarlierBuffers'
<1> SUFFICES ASSUME call.offset > 0 PROVE EarlierBuffers'
  OBVIOUS
<1> DEFINE n == call.inumber
           cur == call.curBlock
<1>1. EarlierBuffers
  BY DEF CopiedSoFar
<1>2. inode_load(disk', n) = inode_load(disk, n)
  <2>1. n \in InodeNumbers /\ b \notin InodeBlocks
    BY LoopStart DEF ValidInodes, Metadata
  <2> QED  BY <2>1, InodesFrame
<1>3. \A k \in Turns(call.offset) : k \in FileSlots /\ k < cur
  <2>1. /\ call.offset \in Nat /\ call.written \in Nat /\ cur \in Nat
        /\ call.offset + call.written = cur * BLOCK_SIZE
    BY CallFields, GeometryAssumption
    DEF Safe, TypeOK, CopyProgress, MaxSize, GeometryAssumption
  <2>2. call.offset <= cur * BLOCK_SIZE
    BY <2>1, GeometryAssumption DEF GeometryAssumption
  <2> QED  BY <2>1, <2>2, TurnsBound, TurnsZero
<1>4. ASSUME NEW k \in Turns(call.offset)
      PROVE  IF k < POINTERS_PER_INODE
             THEN call'.inode.direct[k] = call.inode.direct[k]
             ELSE call'.inode.indirect = call.inode.indirect
  <2>1. k \in FileSlots /\ k < cur /\ k \in Nat /\ cur \in Nat
    BY <1>3, TurnFacts, CallFields DEF Safe, TypeOK
  <2> QED  BY <2>1, TurnFacts, GeometryAssumption DEF GeometryAssumption
<1> QED  BY <1>1, <1>2, <1>4 DEF EarlierBuffers

\* A turn for a direct block fills it and keeps those before it.
LEMMA AllocDirectCopied ==
  ASSUME Safe, CopiedSoFar, AllocDirect
  PROVE  CopiedSoFar'
<1> DEFINE cur == call.curBlock
<1>1. PICK b \in Free :
        /\ disk' = [disk EXCEPT ![b] = Data(Chunk(call.file, cur))]
        /\ call' = [Stored EXCEPT !.inode.direct[cur] = b]
  BY FillingFacts DEF AllocDirect
<1>2. /\ pc = "alloc" /\ pc' = "alloc" /\ call.toWrite > 0
      /\ cur < POINTERS_PER_INODE
  BY DEF AllocDirect
<1>3. /\ call \in CallType /\ disk \in DiskType
      /\ b \in Blocks \ Metadata /\ b \notin HeldBlocks
  BY <1>2, LoopStart, FreeBlock
<1>4. /\ cur \in Nat /\ cur \in DirectSlots /\ call.inode \in InodeType
  BY <1>2, <1>3, CallFields, LoopFacts, TurnFacts
<1>5. call.inode.direct \in [DirectSlots -> Blocks]
  BY <1>4 DEF InodeType
<1>6. /\ call'.inode.direct = [call.inode.direct EXCEPT ![cur] = b]
      /\ call'.curBlock = cur + 1 /\ call'.file = call.file
      /\ call'.inumber = call.inumber /\ call'.offset = call.offset
  <2>1. call' = [Stored EXCEPT !.inode = [call.inode EXCEPT !.direct[cur] = b]]
    BY <1>1, <1>2, StoredCall, Zenon DEF CallType
  <2>2. [call.inode EXCEPT !.direct[cur] = b].direct =
          [call.inode.direct EXCEPT ![cur] = b]
    BY <1>4, Zenon DEF InodeType
  <2>3. call'.inode = [call.inode EXCEPT !.direct[cur] = b]
    BY <1>2, <2>1, StoredCall, Zenon DEF CallType
  <2>4. /\ call'.curBlock = Stored.curBlock /\ call'.file = Stored.file
        /\ call'.inumber = Stored.inumber /\ call'.offset = Stored.offset
    BY <1>2, <2>1, StoredCall, Zenon DEF CallType
  <2> QED  BY <1>2, <2>2, <2>3, <2>4, StoredCall
<1>7. ASSUME NEW k \in 0 .. cur
      PROVE  disk'[DataBlock(disk', call'.inode, k)] = Data(Chunk(call.file, k))
  <2>1. k \in DirectSlots /\ k < POINTERS_PER_INODE
    BY <1>2, <1>4, GeometryAssumption DEF DirectSlots, GeometryAssumption
  <2>2. DataBlock(disk', call'.inode, k) = call'.inode.direct[k]
    BY <2>1 DEF DataBlock
  <2>3. CASE k = cur
    BY <1>1, <1>3, <1>5, <1>6, <2>1, <2>2, <2>3 DEF DiskType
  <2>4. CASE k # cur
    <3>1. k \in 0 .. cur - 1
      BY <1>4, <2>4
    <3>2. call.inode.direct[k] \in HeldBlocks
      BY <1>2, <2>1, <3>1, HeldTurnFacts DEF TurnRefs
    <3>3. disk[call.inode.direct[k]] = Data(Chunk(call.file, k))
      BY <1>2, <2>1, <3>1 DEF CopiedSoFar, DataBlock
    <3>4. call'.inode.direct[k] = call.inode.direct[k]
      BY <1>5, <1>6, <2>1, <2>4
    <3>5. disk'[call.inode.direct[k]] = disk[call.inode.direct[k]]
      BY <1>1, <1>3, <3>2 DEF DiskType
    <3> QED  BY <2>2, <3>3, <3>4, <3>5
  <2> QED  BY <2>3, <2>4
<1>8. 0 .. call'.curBlock - 1 = 0 .. cur
  BY <1>4, <1>6
<1>9. call'.offset > 0 => EarlierBuffers'
  <2>1. OnlyWrites(disk, disk', b)
    BY <1>1, <1>3 DEF OnlyWrites, DiskType
  <2>2. \A k \in DirectSlots : k # cur => call'.inode.direct[k] = call.inode.direct[k]
    BY <1>5, <1>6
  <2>3. ~(cur > POINTERS_PER_INODE)
    BY <1>2, <1>4, GeometryAssumption DEF GeometryAssumption
  <2> QED  BY <1>2, <1>3, <1>6, <2>1, <2>2, <2>3, EarlierKept
<1> QED  BY <1>2, <1>6, <1>7, <1>8, <1>9 DEF CopiedSoFar

\* Writing the indirect block leaves the blocks filled before in their places.
LEMMA WritePointerCopied ==
  ASSUME Safe, CopiedSoFar, pc = "alloc", call.toWrite > 0,
         call.curBlock >= POINTERS_PER_INODE,
         NEW b \in Free, NEW i \in Blocks \ Metadata, i # b,
         call.curBlock > POINTERS_PER_INODE => i = call.inode.indirect,
         call.curBlock = POINTERS_PER_INODE => i \in Free,
         WritePointer(i, b)
  PROVE  CopiedSoFar'
<1> DEFINE cur == call.curBlock
           s == cur - POINTERS_PER_INODE
           new == [PointersOf(disk[i]) EXCEPT ![s] = b]
           inode == [call.inode EXCEPT !.indirect = i]
<1>1. /\ disk \in DiskType /\ call \in CallType
      /\ b \notin HeldBlocks
  BY LoopStart, FreeBlock
<1>2. /\ cur \in FileSlots /\ cur \in Nat /\ s \in PointerSlots
      /\ call.inode \in InodeType
  BY <1>1, CallFields, LoopFacts, TurnFacts, GeometryAssumption
  DEF GeometryAssumption
<1>3. /\ disk' = [disk EXCEPT ![i] = Pointers(new)]
      /\ pc' = "store"
      /\ call' = [call EXCEPT !.inode = inode, !.target = b]
  BY <1>1, Zenon DEF WritePointer, DiskType, CallType
<1>4. /\ PointersOf(disk[i]) \in [PointerSlots -> Words]
      /\ new \in [PointerSlots -> Words] /\ new[s] = b
  <2>1. b \in Words
    BY DEF Free, Words
  <2> QED  BY <1>1, <1>2, <2>1, PointersOfType DEF DiskType
<1>5. PointersOf(disk'[i]) = new
  <2>1. PointersOf(Pointers(new)) = new
    BY DEF Pointers, PointersOf
  <2> QED  BY <1>1, <1>3, <2>1 DEF DiskType
<1>6. inode.direct = call.inode.direct /\ inode.indirect = i
  BY <1>2, Zenon DEF InodeType
<1>7. /\ call'.inode = inode /\ call'.target = b
      /\ call'.curBlock = cur /\ call'.file = call.file
      /\ call'.inumber = call.inumber /\ call'.offset = call.offset
  <2> HIDE DEF inode
  <2> QED  BY <1>1, <1>3, Zenon DEF CallType
<1> HIDE DEF inode
<1>8. ASSUME NEW k \in 0 .. cur - 1
      PROVE  /\ DataBlock(disk', inode, k) = DataBlock(disk, call.inode, k)
             /\ DataBlock(disk, call.inode, k) \in HeldBlocks
             /\ DataBlock(disk, call.inode, k) # i
  <2>1. DataBlock(disk, call.inode, k) \in HeldBlocks /\ k \in Nat /\ k < cur
        /\ k \in FileSlots
    <3>1. DataBlock(disk, call.inode, k) \in HeldBlocks /\ k \in Nat /\ k < cur
      BY HeldTurnFacts
    <3> QED  BY <1>2, <3>1, GeometryAssumption DEF FileSlots, GeometryAssumption
  <2>2. DataBlock(disk, call.inode, k) # i
    <3>1. CASE cur > POINTERS_PER_INODE
      BY <1>2, <3>1, FilledIsNotIndirect
    <3>2. CASE cur = POINTERS_PER_INODE
      BY <2>1, <3>2, FreeBlock
    <3> QED  BY <1>2, <3>1, <3>2, GeometryAssumption DEF GeometryAssumption
  <2>3. CASE k < POINTERS_PER_INODE
    BY <1>6, <2>1, <2>2, <2>3 DEF DataBlock
  <2>4. CASE ~(k < POINTERS_PER_INODE)
    <3>1. i = call.inode.indirect
      BY <1>2, <2>1, <2>4, GeometryAssumption DEF GeometryAssumption
    <3>2. /\ k - POINTERS_PER_INODE \in PointerSlots
          /\ k - POINTERS_PER_INODE # s
      BY <1>2, <2>1, <2>4, TurnFacts, GeometryAssumption DEF GeometryAssumption
    <3>3. new[k - POINTERS_PER_INODE] = PointersOf(disk[i])[k - POINTERS_PER_INODE]
      BY <1>4, <3>2
    <3> HIDE DEF new, s
    <3> QED  BY <1>5, <1>6, <2>1, <2>2, <2>4, <3>1, <3>3 DEF DataBlock
  <2> QED  BY <2>3, <2>4
<1>9. DataBlock(disk', inode, cur) = b
  <2>1. ~(cur < POINTERS_PER_INODE)
    BY <1>2, GeometryAssumption DEF GeometryAssumption
  <2> QED  BY <1>4, <1>5, <1>6, <2>1 DEF DataBlock
<1>10. \A k \in 0 .. cur - 1 :
         /\ disk'[DataBlock(disk', inode, k)] = Data(Chunk(call.file, k))
         /\ DataBlock(disk', inode, k) # b
  <2> SUFFICES ASSUME NEW k \in 0 .. cur - 1
               PROVE  /\ disk'[DataBlock(disk', inode, k)] = Data(Chunk(call.file, k))
                      /\ DataBlock(disk', inode, k) # b
    OBVIOUS
  <2>1. disk[DataBlock(disk, call.inode, k)] = Data(Chunk(call.file, k))
    BY DEF CopiedSoFar
  <2>2. DataBlock(disk, call.inode, k) \in Blocks
    BY <1>1, <1>8, LoopStart
  <2> HIDE DEF new
  <2> QED  BY <1>1, <1>3, <1>8, <2>1, <2>2 DEF DiskType
<1> HIDE DEF new
<1>11. call'.offset > 0 => EarlierBuffers'
  <2>1. OnlyWrites(disk, disk', i)
    BY <1>1, <1>3 DEF OnlyWrites, DiskType
  <2>2. \A k \in DirectSlots : call'.inode.direct[k] = call.inode.direct[k]
    BY <1>6, <1>7
  <2> QED  BY <1>6, <1>7, <2>1, <2>2, EarlierKept
<1> QED  BY <1>3, <1>7, <1>9, <1>10, <1>11 DEF CopiedSoFar

\* The turn that takes the indirect block keeps what was copied.
LEMMA AllocIndirectCopied ==
  ASSUME Safe, CopiedSoFar, AllocIndirect
  PROVE  CopiedSoFar'
<1>1. PICK i \in Free, b \in Free : LowestIn(Free \ {i}, b) /\ WritePointer(i, b)
  BY DEF AllocIndirect
<1>2. pc = "alloc" /\ call.toWrite > 0 /\ call.curBlock = POINTERS_PER_INODE
  BY DEF AllocIndirect
<1>3. i # b /\ i \in Blocks \ Metadata
  BY <1>1, <1>2, FreeBlock DEF LowestIn
<1>4. /\ call.curBlock >= POINTERS_PER_INODE
      /\ ~(call.curBlock > POINTERS_PER_INODE)
  BY <1>2, GeometryAssumption DEF GeometryAssumption
<1> QED  BY <1>1, <1>2, <1>3, <1>4, WritePointerCopied

\* A later turn through the indirect block keeps what was copied.
LEMMA AllocPointerCopied ==
  ASSUME Safe, CopiedSoFar, AllocPointer
  PROVE  CopiedSoFar'
<1> DEFINE i == call.inode.indirect
<1>1. PICK b \in Free : WritePointer(i, b)
  BY DEF AllocPointer
<1>2. pc = "alloc" /\ call.toWrite > 0 /\ call.curBlock > POINTERS_PER_INODE
  BY DEF AllocPointer
<1>3. /\ call.curBlock \in Nat
      /\ call.curBlock >= POINTERS_PER_INODE
      /\ call.curBlock # POINTERS_PER_INODE
  BY <1>2, CallFields, GeometryAssumption DEF Safe, TypeOK, GeometryAssumption
<1>4. i \in HeldBlocks
  <2>1. /\ call.curBlock - 1 \in 0 .. call.curBlock - 1
        /\ ~(call.curBlock - 1 < POINTERS_PER_INODE)
    BY <1>2, <1>3, GeometryAssumption DEF GeometryAssumption
  <2>2. i \in TurnRefs(disk, call.inode, call.curBlock - 1)
    BY <2>1 DEF TurnRefs
  <2> QED  BY <1>2, <2>1, <2>2, HeldTurnFacts
<1>5. i \in Blocks \ Metadata /\ i # b
  BY <1>2, <1>4, LoopStart, FreeBlock
<1> QED  BY <1>1, <1>2, <1>3, <1>5, WritePointerCopied

\* The data block behind a pointer is filled, and none before it overwritten.
LEMMA StoreDataCopied ==
  ASSUME Safe, CopiedSoFar, StoreData
  PROVE  CopiedSoFar'
<1> DEFINE cur == call.curBlock
           b == call.target
<1>1. /\ pc = "store" /\ pc' = "alloc" /\ call' = Stored
      /\ disk' = [disk EXCEPT ![b] = Filling]
  BY DEF StoreData
<1>2. /\ call.toWrite > 0 /\ b # call.inode.indirect /\ b \in HeldBlocks
      /\ Filling = Data(Chunk(call.file, cur))
  BY <1>1, FillingFacts DEF Safe, CopyProgress, WriteHolds
<1>3. /\ disk \in DiskType /\ call \in CallType
      /\ b \in Blocks \ Metadata
      /\ cur \in Nat /\ call.inode.indirect \in Blocks
  BY <1>1, <1>2, LoopStart, CallFields DEF InodeType
<1>4. /\ call'.inode = call.inode /\ call'.curBlock = cur + 1
      /\ call'.file = call.file
      /\ call'.inumber = call.inumber /\ call'.offset = call.offset
  BY <1>1, <1>2, StoredCall
<1>5. disk'[call.inode.indirect] = disk[call.inode.indirect]
  BY <1>1, <1>2, <1>3 DEF DiskType
<1>6. \A k : DataBlock(disk', call.inode, k) = DataBlock(disk, call.inode, k)
  BY <1>5 DEF DataBlock
<1>7. ASSUME NEW k \in 0 .. cur
      PROVE  disk'[DataBlock(disk, call.inode, k)] = Data(Chunk(call.file, k))
  <2>1. CASE k = cur
    BY <1>1, <1>2, <1>3, <2>1 DEF CopiedSoFar, DiskType
  <2>2. CASE k # cur
    <3>1. k \in 0 .. cur - 1
      BY <1>3, <2>2
    <3>2. /\ disk[DataBlock(disk, call.inode, k)] = Data(Chunk(call.file, k))
          /\ DataBlock(disk, call.inode, k) # b
      BY <1>1, <3>1 DEF CopiedSoFar
    <3>3. DataBlock(disk, call.inode, k) \in Blocks
      BY <1>1, <3>1, HeldTurnFacts, LoopStart
    <3> QED  BY <1>1, <1>3, <3>2, <3>3 DEF DiskType
  <2> QED  BY <2>1, <2>2
<1>8. 0 .. call'.curBlock - 1 = 0 .. cur
  BY <1>3, <1>4
<1>9. call'.offset > 0 => EarlierBuffers'
  <2>1. OnlyWrites(disk, disk', b)
    BY <1>1, <1>3 DEF OnlyWrites, DiskType
  <2> QED  BY <1>1, <1>2, <1>3, <1>4, <2>1, EarlierKept
<1> QED  BY <1>1, <1>4, <1>6, <1>7, <1>8, <1>9 DEF CopiedSoFar

\* A command that is over, or writes no file, has nothing copied to keep.
LEMMA NothingCopied ==
  ASSUME pc' \in {"idle", "format"}
  PROVE  CopiedSoFar'
BY DEF CopiedSoFar

\* fs_write resumes behind the blocks that its earlier calls filled.
LEMMA WriteBeginCopied ==
  ASSUME Safe, CopiedSoFar, WriteBegin
  PROVE  CopiedSoFar'
<1> DEFINE n == call.inumber
           inode == inode_load(disk, n)
           cur == call.offset \div BLOCK_SIZE
           begun(i) == [call EXCEPT !.inode = i, !.curBlock = cur,
                                    !.toWrite = FreadResult,
                                    !.written = 0]
<1>1. /\ pc = "fread" /\ FreadResult > 0 /\ disk' = disk
  BY DEF WriteBegin
<1>2. /\ call \in CallType /\ call.offset \in Nat /\ call.offset % BLOCK_SIZE = 0
      /\ call.offset <= MaxSize
  <2>1. call.offset \in 0 .. MaxSize /\ MaxSize \in Nat
    BY CallFields, GeometryAssumption DEF Safe, TypeOK, MaxSize, GeometryAssumption
  <2> QED  BY <1>1, <2>1 DEF Safe, TypeOK, CopyProgress
<1>3. cur \in Nat /\ cur * BLOCK_SIZE = call.offset
  BY <1>2, NextBuffer
<1>4. CASE call.offset > 0
  <2>1. pc' = "alloc" /\ call' = begun(inode)
    BY <1>4 DEF WriteBegin
  <2> HIDE DEF cur, inode
  <2>2. /\ call'.inode = inode /\ call'.curBlock = cur /\ call'.file = call.file
        /\ call'.inumber = n /\ call'.offset = call.offset
    BY <1>2, <2>1, Zenon DEF CallType
  <2>3. ASSUME NEW k \in 0 .. cur - 1
        PROVE  disk[DataBlock(disk, inode, k)] = Data(Chunk(call.file, k))
    <3>1. k \in Nat /\ k * BLOCK_SIZE < call.offset
      BY <1>3, BlocksBefore
    <3>2. k \in Turns(call.offset)
      BY <1>2, <3>1, TurnsCover
    <3> QED  BY <1>1, <1>4, <3>2 DEF CopiedSoFar, inode
  <2>4. EarlierBuffers'
    <3>1. inode.size = call.offset
      BY <1>1, <1>4 DEF Safe, CopyResumes, inode
    <3> QED  BY <1>1, <2>2, <3>1 DEF EarlierBuffers, inode
  <2> QED  BY <1>1, <2>1, <2>2, <2>3, <2>4 DEF CopiedSoFar
<1>5. CASE ~(call.offset > 0)
  <2>1. cur = 0
    BY <1>2, <1>3, <1>5, GeometryAssumption DEF GeometryAssumption
  <2>2. pc' = "idle" \/ (pc' = "alloc" /\ call' = begun([inode EXCEPT !.size = 0]))
    BY <1>5 DEF WriteBegin, Return
  <2> HIDE DEF cur, inode
  <2>3. pc' = "alloc" => call'.curBlock = 0 /\ call'.offset = call.offset
    BY <1>2, <2>1, <2>2, Zenon DEF CallType
  <2> QED  BY <1>5, <2>2, <2>3, NothingCopied DEF CopiedSoFar
<1> QED  BY <1>4, <1>5

\* A second strncpy finds in a part of a block what the first has left there.
LEMMA KeptOfChunk ==
  ASSUME NEW f \in HostFiles, NEW bytes \in 0 .. HostSize[f],
         NEW k \in Turns(bytes)
  PROVE  FirstBytes(Data(Chunk(f, k)), Covered(bytes, k)) =
           Data(Kept(f, k, Covered(bytes, k)))
<1> DEFINE n == Covered(bytes, k)
           m == Covered(HostSize[f], k)
           at == k * BLOCK_SIZE
           src == HostPart(f, at, m)
           part == [i \in (0 .. n - 1) \cap DOMAIN Chunk(f, k) |-> Chunk(f, k)[i]]
<1>1. /\ bytes \in Nat /\ HostSize[f] \in Nat /\ bytes <= HostSize[f]
      /\ k \in Nat /\ BLOCK_SIZE \in Nat \ {0} /\ at < bytes /\ at \in Nat
  BY HostFacts, TurnsZero, TurnFacts, GeometryAssumption
  DEF Turns, GeometryAssumption
<1>2. n \in Nat /\ m \in Nat /\ n <= m
  <2> HIDE DEF at
  <2>1. /\ n = IF bytes - at < BLOCK_SIZE THEN bytes - at ELSE BLOCK_SIZE
        /\ m = IF HostSize[f] - at < BLOCK_SIZE THEN HostSize[f] - at ELSE BLOCK_SIZE
    BY DEF Covered, at
  <2> HIDE DEF n, m
  <2> QED  BY <1>1, <2>1
<1> HIDE DEF n, m
<1>3. /\ DOMAIN src = 0 .. m - 1
      /\ \A i \in 0 .. m - 1 : src[i] = HostBytes[f][at + i]
  BY DEF HostPart
<1>4. Chunk(f, k) = strncpy(src)
  BY DEF Chunk, m
<1> HIDE DEF src, at
<1>5. /\ DOMAIN Chunk(f, k) = 0 .. m - 1
      /\ \A i \in 0 .. m - 1 :
           Chunk(f, k)[i] = IF \E j \in 0 .. i : src[j] = 0 THEN 0 ELSE src[i]
  BY <1>3, <1>4 DEF strncpy
<1>6. /\ DOMAIN part = 0 .. n - 1
      /\ \A i \in 0 .. n - 1 :
           part[i] = IF \E j \in 0 .. i : src[j] = 0 THEN 0 ELSE src[i]
  BY <1>2, <1>5
<1> HIDE DEF part
<1>7. ASSUME NEW i \in 0 .. n - 1
      PROVE  (IF \E j \in 0 .. i : part[j] = 0 THEN 0 ELSE part[i]) =
               IF \A j \in 0 .. i : HostBytes[f][at + j] # 0
               THEN HostBytes[f][at + i] ELSE 0
  <2>1. \A j \in 0 .. i : /\ j \in 0 .. n - 1 /\ j \in 0 .. m - 1
                          /\ 0 .. j \subseteq 0 .. i /\ j \in 0 .. j
    BY <1>2
  <2>2. i \in 0 .. i
    BY <1>2
  <2>3. \A j \in 0 .. i : src[j] = HostBytes[f][at + j]
    BY <1>3, <2>1
  <2>4. CASE \E j \in 0 .. i : src[j] = 0
    <3>1. \E j \in 0 .. i : part[j] = 0
      BY <1>6, <2>1, <2>4
    <3> QED  BY <2>3, <2>4, <3>1
  <2>5. CASE \A j \in 0 .. i : src[j] # 0
    <3>1. \A j \in 0 .. i : part[j] = src[j]
      BY <1>6, <2>1, <2>5
    <3> QED  BY <2>2, <2>3, <2>5, <3>1
  <2> QED  BY <2>4, <2>5
<1>8. strncpy(part) = Kept(f, k, n)
  BY <1>6, <1>7 DEF strncpy, Kept, at
<1> QED  BY <1>8 DEF FirstBytes, Data, part, n

\* A file whose turns lead to the chunks of a host file reads as its prefix.
LEMMA ReadsAsPrefix ==
  ASSUME NEW dsk, NEW n, NEW f \in HostFiles, NEW bytes \in 0 .. HostSize[f],
         inode_load(dsk, n).size = bytes,
         \A k \in Turns(bytes) :
           /\ TurnRefs(dsk, inode_load(dsk, n), k) \subseteq Blocks
           /\ dsk[DataBlock(dsk, inode_load(dsk, n), k)] = Data(Chunk(f, k))
  PROVE  FileOf(dsk, n) = Prefix(f, bytes)
<1> DEFINE inode == inode_load(dsk, n)
<1>1. {t \in Turns(bytes) : TurnRefs(dsk, inode, t) \subseteq Blocks} = Turns(bytes)
  OBVIOUS
<1>2. \A k \in Turns(bytes) :
        FirstBytes(dsk[DataBlock(dsk, inode, k)], Covered(bytes, k)) =
          Data(Kept(f, k, Covered(bytes, k)))
  BY KeptOfChunk
<1>3. Contents(dsk, inode) =
        [k \in Turns(bytes) |-> Data(Kept(f, k, Covered(bytes, k)))]
  BY <1>1, <1>2 DEF Contents
<1> QED  BY <1>3 DEF FileOf, Prefix

\* When fs_write returns, the file reads back as what it has copied of the
\* host file.
LEMMA SaveReadsBack ==
  ASSUME Safe, Safe', CopiedSoFar, pc = "alloc",
         NEW inode \in InodeType, inode.isvalid = 1,
         \A k \in 0 .. call.curBlock - 1 :
           /\ TurnRefs(disk, inode, k) = TurnRefs(disk, call.inode, k)
           /\ DataBlock(disk, inode, k) = DataBlock(disk, call.inode, k),
         SaveAndReturn(inode)
  PROVE  /\ call.offset + call.written \in 0 .. HostSize[call.file]
         /\ ValidInodes(disk') = ValidInodes(disk)
         /\ call.inumber \in ValidInodes(disk')
         /\ \A k \in Turns(call.offset + call.written) :
              disk'[DataBlock(disk', inode_load(disk', call.inumber), k)] =
                Data(Chunk(call.file, k))
         /\ FileOf(disk', call.inumber) =
              Prefix(call.file, call.offset + call.written)
         /\ \E i \in InodeType :
              i.isvalid = 1 /\ disk' = inode_save(disk, call.inumber, i)
         /\ CopiedSoFar'
<1> DEFINE n == call.inumber
           bytes == call.offset + call.written
           saved == [inode EXCEPT !.size = call.written + call.offset]
<1>1. /\ disk' = inode_save(disk, n, saved)
      /\ mounted' = mounted /\ pc' \in {"idle", "fread"}
  BY DEF SaveAndReturn, Return
<1>2. /\ n \in ValidInodes(disk) /\ n \in InodeNumbers /\ mounted
      /\ disk \in DiskType /\ call \in CallType
  BY DEF Safe, WriteHolds, ValidInodes, TypeOK, DiskType
<1>3. /\ call.offset \in Nat /\ call.written \in Nat /\ call.toWrite \in Nat
      /\ call.curBlock \in Nat /\ call.file \in HostFiles
      /\ HostSize[call.file] \in Nat /\ HostSize[call.file] <= MaxSize
      /\ MaxSize \in Nat
  BY <1>2, CallFields, HostFacts, GeometryAssumption DEF GeometryAssumption
<1>4. /\ call.offset <= HostSize[call.file]
      /\ call.written + call.toWrite = FreadResult
      /\ bytes <= call.curBlock * BLOCK_SIZE
  BY DEF Safe, CopyProgress
<1>5. call.offset + FreadResult <= HostSize[call.file] /\ FreadResult \in Nat
  BY <1>4, ReadFacts, GeometryAssumption DEF Safe, GeometryAssumption
<1>6. /\ bytes \in Nat /\ bytes \in 0 .. HostSize[call.file]
      /\ bytes \in 0 .. MaxSize /\ bytes = call.written + call.offset
  BY <1>3, <1>4, <1>5
<1> HIDE DEF bytes
<1>7. /\ saved \in InodeType /\ saved.isvalid = 1 /\ saved.size = bytes
      /\ saved.direct = inode.direct /\ saved.indirect = inode.indirect
  BY <1>6, Zenon DEF InodeType
<1> HIDE DEF saved
<1>8. inode_load(disk', n) = saved
  BY <1>1, <1>2, <1>7, LoadSave
<1>9. ValidInodes(disk') = ValidInodes(disk) /\ n \in ValidInodes(disk')
  <2>1. \A m \in InodeNumbers \ {n} : inode_load(disk', m) = inode_load(disk, m)
    BY <1>1, <1>2, <1>7, LoadSave
  <2> QED  BY <1>2, <1>7, <1>8, <2>1 DEF ValidInodes
<1>10. \A k \in Turns(bytes) : k \in 0 .. call.curBlock - 1
  BY <1>3, <1>4, <1>6, TurnsBound, TurnFacts, TurnsZero DEF FileSlots
<1>11. OnlyWrites(disk, disk', InodeBlock(n)) /\ InodeBlock(n) \in Metadata
  <2>1. InodeBlock(n) \in InodeBlocks
    BY <1>2, InodePlace
  <2> QED  BY <1>1, <1>2, <2>1 DEF OnlyWrites, inode_save, DiskType, Metadata
<1>12. ASSUME NEW k \in Turns(bytes)
       PROVE  disk'[DataBlock(disk', saved, k)] = Data(Chunk(call.file, k))
  <2>1. k \in 0 .. call.curBlock - 1
    BY <1>10
  <2>2. /\ TurnRefs(disk, saved, k) = TurnRefs(disk, call.inode, k)
        /\ DataBlock(disk, saved, k) = DataBlock(disk, call.inode, k)
    <3>1. /\ TurnRefs(disk, saved, k) = TurnRefs(disk, inode, k)
          /\ DataBlock(disk, saved, k) = DataBlock(disk, inode, k)
      BY <1>7 DEF TurnRefs, DataBlock
    <3> QED  BY <2>1, <3>1
  <2>3. TurnRefs(disk, saved, k) \subseteq Blocks \ Metadata
    BY <2>1, <2>2, HeldTurnFacts
  <2>4. /\ DataBlock(disk', saved, k) = DataBlock(disk, saved, k)
        /\ disk'[DataBlock(disk, saved, k)] = disk[DataBlock(disk, saved, k)]
    BY <1>11, <2>3, DataBlockFrame
  <2>5. disk[DataBlock(disk, call.inode, k)] = Data(Chunk(call.file, k))
    BY <2>1 DEF CopiedSoFar
  <2> QED  BY <2>2, <2>4, <2>5
<1>13. \A k \in Turns(bytes) : TurnRefs(disk', saved, k) \subseteq Blocks
  <2>1. ~astray'
    BY <1>1 DEF SaveAndReturn, Safe, MountedDisk
  <2>2. RefsInRange(disk', inode_load(disk', n))
    BY <1>1, <1>2, <1>9, <2>1 DEF Safe, ReleaseIsWhole, BeingWritten
  <2> QED  BY <1>7, <1>8, <2>2 DEF RefsInRange, FileRefs
<1>14. FileOf(disk', n) = Prefix(call.file, bytes)
  BY <1>3, <1>6, <1>7, <1>8, <1>12, <1>13, ReadsAsPrefix
<1>15. CopiedSoFar'
  <2>1. CASE call.toWrite > 0
    BY <2>1, NothingCopied DEF SaveAndReturn, Return
  <2>2. CASE ~(call.toWrite > 0)
    <3>1. /\ pc' = "fread"
          /\ call' = [NoCall EXCEPT !.file = call.file, !.inumber = n,
                                    !.offset = bytes]
      BY <2>2 DEF SaveAndReturn, bytes
    <3>2. call'.file = call.file /\ call'.inumber = n /\ call'.offset = bytes
      BY <3>1, NoCallType, Zenon DEF CallType
    <3> QED  BY <1>8, <1>12, <3>1, <3>2 DEF CopiedSoFar
  <2> QED  BY <2>1, <2>2
<1>16. \A k \in Turns(bytes) :
         disk'[DataBlock(disk', inode_load(disk', n), k)] = Data(Chunk(call.file, k))
  BY <1>8, <1>12
<1> QED  BY <1>1, <1>6, <1>7, <1>9, <1>14, <1>15, <1>16 DEF bytes

\* what both ends of fs_write leave
Returned ==
  /\ pc' \in {"idle", "fread"} /\ mounted' = mounted
  /\ call.offset + call.written \in 0 .. HostSize[call.file]
  /\ ValidInodes(disk') = ValidInodes(disk)
  /\ call.inumber \in ValidInodes(disk')
  /\ FileOf(disk', call.inumber) = Prefix(call.file, call.offset + call.written)
  /\ \E i \in InodeType :
       i.isvalid = 1 /\ disk' = inode_save(disk, call.inumber, i)
  /\ CopiedSoFar'

\* The end of fs_write: of the host file or of the room on the disk.
LEMMA WriteEndReadsBack ==
  ASSUME Safe, Safe', CopiedSoFar, WriteEnd PROVE Returned
<1>1. pc = "alloc" /\ SaveAndReturn(call.inode)
  BY DEF WriteEnd
<1>2. call.inode \in InodeType /\ call.inode.isvalid = 1
  BY <1>1, CallFields DEF Safe, TypeOK, WriteHolds
<1>3. pc' \in {"idle", "fread"} /\ mounted' = mounted
  BY <1>1 DEF SaveAndReturn, Return
<1> QED  BY <1>1, <1>2, <1>3, SaveReadsBack DEF Returned

\* The end of fs_write with an indirect block and no room for its first data.
LEMMA IndirectLeakedReadsBack ==
  ASSUME Safe, Safe', CopiedSoFar, IndirectLeaked PROVE Returned
<1>1. PICK i \in Free : SaveAndReturn([call.inode EXCEPT !.indirect = i])
  BY DEF IndirectLeaked
<1>2. pc = "alloc" /\ call.curBlock = POINTERS_PER_INODE
  BY DEF IndirectLeaked
<1> DEFINE inode == [call.inode EXCEPT !.indirect = i]
<1>3. /\ inode \in InodeType /\ inode.isvalid = 1
      /\ inode.direct = call.inode.direct
  <2>1. call.inode \in InodeType /\ call.inode.isvalid = 1
    BY <1>2, CallFields DEF Safe, TypeOK, WriteHolds
  <2>2. i \in Blocks
    BY DEF Free
  <2> QED  BY <2>1, <2>2, Zenon DEF InodeType
<1>4. \A k \in 0 .. call.curBlock - 1 :
        /\ TurnRefs(disk, inode, k) = TurnRefs(disk, call.inode, k)
        /\ DataBlock(disk, inode, k) = DataBlock(disk, call.inode, k)
  BY <1>2, <1>3, GeometryAssumption DEF TurnRefs, DataBlock, GeometryAssumption
<1>5. pc' \in {"idle", "fread"} /\ mounted' = mounted
  BY <1>1 DEF SaveAndReturn, Return
<1> HIDE DEF inode
<1>6. SaveAndReturn(inode)
  BY <1>1 DEF inode
<1> QED  BY <1>2, <1>3, <1>4, <1>5, <1>6, SaveReadsBack DEF Returned

\* Every step of every command keeps what the copy in progress has stored.
LEMMA NextCopied ==
  ASSUME Safe, Safe', CopiedSoFar, [Next]_vars
  PROVE  CopiedSoFar'
<1>1. CASE FormatStep
  BY <1>1, NothingCopied DEF FormatStep, FormatSuper, FormatInodeBlock, Return
<1>2. CASE Mount \/ MountAstray
  BY <1>2, NothingCopied DEF Mount, MountAstray, Idle
<1>3. CASE InodeStep
  BY <1>3, NothingCopied DEF InodeStep, Create, Delete, DeleteTorn, Idle
<1>4. CASE CopyinStep
  <2>1. ASSUME NEW f \in HostFiles, NEW n \in Inumbers, Copyin(f, n)
        PROVE  CopiedSoFar'
    <3>1. pc' = "fread" /\ call'.offset = 0
      BY <2>1, NoCallType DEF Copyin, NoCall
    <3> QED  BY <3>1 DEF CopiedSoFar
  <2>2. CASE CopyinEnd
    BY <2>2, NothingCopied DEF CopyinEnd, Return
  <2>3. CASE WriteStep
    BY <2>3, WriteBeginCopied, AllocDirectCopied, AllocIndirectCopied,
       AllocPointerCopied, StoreDataCopied, WriteEndReadsBack,
       IndirectLeakedReadsBack DEF WriteStep, Returned
  <2> QED  BY <1>4, <2>1, <2>2, <2>3 DEF CopyinStep
<1>5. CASE Restart
  BY <1>5, NothingCopied DEF Restart, Return
<1>6. CASE UNCHANGED vars
  BY <1>6 DEF vars, CopiedSoFar, EarlierBuffers
<1> QED  BY <1>1, <1>2, <1>3, <1>4, <1>5, <1>6 DEF Next

\* What a copy has stored stays stored, block by block and buffer by buffer,
\* until fs_write is done with it, whatever the geometry.
THEOREM SpecCopiedSoFar == Spec => []CopiedSoFar
<1>1. Init => CopiedSoFar
  BY DEF Init, Idle, CopiedSoFar
<1>2. Safe /\ Safe' /\ CopiedSoFar /\ [Next]_vars => CopiedSoFar'
  BY NextCopied
<1> QED  BY <1>1, <1>2, SpecSafe, PTL DEF Spec

\* Only the end of fs_write leaves its loop on a disk that stays mounted.
LEMMA LoopLeft ==
  ASSUME Safe, [Next]_vars, pc = "alloc", pc' \in {"idle", "fread"}, mounted'
  PROVE  WriteEnd \/ IndirectLeaked
<1>1. ~FormatStep
  BY DEF FormatStep, FormatSuper, FormatInodeBlock, Idle
<1>2. /\ ~Mount /\ ~MountAstray /\ ~InodeStep /\ ~Restart
      /\ ~(UNCHANGED vars)
  BY DEF Mount, MountAstray, InodeStep, Create, Delete, DeleteTorn, Idle,
         Restart, vars
<1>3. CopyinStep
  BY <1>1, <1>2 DEF Next
<1> QED
  BY <1>3 DEF CopyinStep, Copyin, CopyinEnd, WriteStep, WriteBegin, AllocDirect,
     AllocIndirect, AllocPointer, WritePointer, StoreData, Idle

\* In the loop, only the end of the process takes the disk offline.
LEMMA LoopCutShort ==
  ASSUME Safe, [Next]_vars, pc \in {"alloc", "store"}, ~mounted'
  PROVE  disk' = disk
<1>1. mounted
  BY DEF Safe, WriteHolds
<1>2. ~FormatStep /\ ~Mount /\ ~MountAstray /\ ~InodeStep /\ ~CopyinStep
  BY <1>1
  DEF FormatStep, FormatSuper, FormatInodeBlock, Mount, MountAstray, InodeStep,
      Create, Delete, DeleteTorn, CopyinStep, Copyin, CopyinEnd, WriteStep,
      WriteBegin, AllocDirect, AllocIndirect, AllocPointer, StoreData, WriteEnd,
      IndirectLeaked, SaveAndReturn
<1> QED  BY <1>1, <1>2 DEF Next, Restart, vars

\* While a later buffer is written, the file on the disk reads as the buffers
\* before it.
LEMMA EarlierReadsBack ==
  ASSUME Safe, CopiedSoFar, pc \in {"alloc", "store"}, call.offset > 0
  PROVE  /\ call.inumber \in ValidInodes(disk)
         /\ FileOf(disk, call.inumber) = Prefix(call.file, call.offset)
<1> DEFINE saved == inode_load(disk, call.inumber)
           o == call.offset
<1>1. /\ call.inumber \in ValidInodes(disk) /\ EarlierBuffers
      /\ o <= HostSize[call.file]
      /\ o + call.written <= call.curBlock * BLOCK_SIZE
  BY LoopStart DEF CopiedSoFar, Safe, CopyProgress
<1>2. /\ o \in Nat /\ call.written \in Nat /\ call.curBlock \in Nat
      /\ call.file \in HostFiles /\ HostSize[call.file] \in Nat
  BY CallFields, HostFacts, GeometryAssumption
  DEF Safe, TypeOK, MaxSize, GeometryAssumption
<1>3. o \in 0 .. HostSize[call.file] /\ o <= call.curBlock * BLOCK_SIZE
  BY <1>1, <1>2, GeometryAssumption DEF GeometryAssumption
<1>4. ASSUME NEW k \in Turns(o)
      PROVE  /\ TurnRefs(disk, saved, k) \subseteq Blocks
             /\ disk[DataBlock(disk, saved, k)] = Data(Chunk(call.file, k))
  <2>1. k \in 0 .. call.curBlock - 1
    BY <1>2, <1>3, TurnsBound, TurnsZero, TurnFacts
  <2>2. IF k < POINTERS_PER_INODE THEN saved.direct[k] = call.inode.direct[k]
        ELSE saved.indirect = call.inode.indirect
    BY <1>1 DEF EarlierBuffers
  <2> HIDE DEF saved
  <2>3. /\ TurnRefs(disk, saved, k) = TurnRefs(disk, call.inode, k)
        /\ DataBlock(disk, saved, k) = DataBlock(disk, call.inode, k)
    BY <2>2 DEF TurnRefs, DataBlock
  <2>4. TurnRefs(disk, call.inode, k) \subseteq Blocks
    BY <2>1, HeldTurnFacts
  <2>5. disk[DataBlock(disk, call.inode, k)] = Data(Chunk(call.file, k))
    BY <2>1 DEF CopiedSoFar
  <2> QED  BY <2>3, <2>4, <2>5
<1>5. saved.size = o
  BY <1>1 DEF EarlierBuffers
<1> QED  BY <1>1, <1>2, <1>3, <1>4, <1>5, ReadsAsPrefix

\* Whenever fs_write returns, the file reads back as the prefix of the host file
\* that its size counts, less the bytes behind a NUL in a block: nothing is
\* doubled or out of place, at the joint of two buffers, past the direct slots,
\* or on a disk that filled up; and a process that ends in a later buffer
\* leaves the earlier ones as they were.
THEOREM SpecWriteReadsBack == Spec => WriteReadsBack
<1> DEFINE Back ==
      pc = "alloc" /\ pc' \in {"idle", "fread"} /\ mounted' =>
        /\ call.inumber \in ValidInodes(disk')
        /\ FileOf(disk', call.inumber) =
             Prefix(call.file, call.offset + call.written)
           Earlier ==
      pc \in {"alloc", "store"} /\ call.offset > 0 /\ ~mounted' =>
        /\ call.inumber \in ValidInodes(disk')
        /\ FileOf(disk', call.inumber) = Prefix(call.file, call.offset)
<1>1. Safe /\ Safe' /\ CopiedSoFar /\ [Next]_vars => Back
  BY LoopLeft, WriteEndReadsBack, IndirectLeakedReadsBack DEF Returned
<1>2. Safe /\ CopiedSoFar /\ [Next]_vars => Earlier
  BY LoopCutShort, EarlierReadsBack
<1> QED  BY <1>1, <1>2, SpecSafe, SpecCopiedSoFar, PTL DEF Spec, WriteReadsBack

\* A file without a NUL is kept whole: the bytes a file is promised to hold are
\* those of the host file, every one.
THEOREM TextIsKept ==
  ASSUME NEW f \in HostFiles, NEW bytes \in 0 .. HostSize[f],
         \A i \in 0 .. HostSize[f] - 1 : HostBytes[f][i] # 0
  PROVE  Prefix(f, bytes) =
           [size |-> bytes,
            blocks |-> [k \in Turns(bytes) |->
              Data(HostPart(f, k * BLOCK_SIZE, Covered(bytes, k)))]]
<1> SUFFICES ASSUME NEW k \in Turns(bytes)
             PROVE  Kept(f, k, Covered(bytes, k)) =
                      HostPart(f, k * BLOCK_SIZE, Covered(bytes, k))
  BY DEF Prefix
<1> DEFINE n == Covered(bytes, k)
           at == k * BLOCK_SIZE
<1>1. /\ bytes \in Nat /\ HostSize[f] \in Nat /\ bytes <= HostSize[f]
      /\ BLOCK_SIZE \in Nat \ {0} /\ at < bytes /\ at \in Nat
  BY HostFacts, TurnsZero, TurnFacts, GeometryAssumption
  DEF Turns, GeometryAssumption
<1> HIDE DEF at
<1>2. n = IF bytes - at < BLOCK_SIZE THEN bytes - at ELSE BLOCK_SIZE
  BY DEF Covered, at
<1> HIDE DEF n
<1>3. \A j \in 0 .. n - 1 : at + j \in 0 .. HostSize[f] - 1
  BY <1>1, <1>2
<1>4. \A i \in 0 .. n - 1 : \A j \in 0 .. i : HostBytes[f][at + j] # 0
  BY <1>1, <1>2, <1>3
<1>5. Kept(f, k, n) = HostPart(f, at, n)
  BY <1>4 DEF Kept, HostPart, at
<1> QED  BY <1>5 DEF n, at

-----------------------------------------------------------------------------
(* The refinement of FileStore *)

\* A file whose blocks and inode are left alone reads as before.
LEMMA FileOfFrame ==
  ASSUME NEW dsk, NEW dsk2, NEW b, OnlyWrites(dsk, dsk2, b), NEW n,
         inode_load(dsk2, n) = inode_load(dsk, n),
         b \notin FileRefs(dsk, inode_load(dsk, n))
  PROVE  FileOf(dsk2, n) = FileOf(dsk, n)
<1> DEFINE inode == inode_load(dsk, n)
           In(d) == {t \in Turns(inode.size) : TurnRefs(d, inode, t) \subseteq Blocks}
<1>1. ASSUME NEW k \in Turns(inode.size)
      PROVE  /\ b \notin TurnRefs(dsk, inode, k)
             /\ TurnRefs(dsk2, inode, k) = TurnRefs(dsk, inode, k)
  BY TurnFrame DEF FileRefs
<1>2. In(dsk2) = In(dsk)
  BY <1>1
<1>3. ASSUME NEW k \in In(dsk)
      PROVE  dsk2[DataBlock(dsk2, inode, k)] = dsk[DataBlock(dsk, inode, k)]
  <2> HIDE DEF inode
  <2> QED  BY <1>1, DataBlockFrame
<1> HIDE DEF inode
<1>4. Contents(dsk2, inode) = Contents(dsk, inode)
  BY <1>2, <1>3 DEF Contents
<1> QED  BY <1>4 DEF FileOf, inode

\* A file that exists is not the absent one, whatever it holds.
LEMMA FileIsThere ==
  ASSUME NEW dsk \in DiskType, NEW n \in InodeNumbers
  PROVE  FileOf(dsk, n) # NoFile
<1>1. inode_load(dsk, n).size \in 0 .. MaxSize
  BY LoadType DEF InodeType
<1>2. FileOf(dsk, n).size # NoFile.size
  BY <1>1, GeometryAssumption DEF FileOf, NoFile, MaxSize, GeometryAssumption
<1> QED  BY <1>2

\* The files that exist are those of the valid inodes.
LEMMA FilesThere ==
  ASSUME Safe, NEW n \in InodeNumbers
  PROVE  Files[n] # NoFile <=> n \in ValidInodes(disk)
<1>1. disk \in DiskType
  BY DEF Safe, TypeOK, DiskType
<1> QED  BY <1>1, FileIsThere DEF Files

\* A step that leaves every inode and every file's blocks alone changes no file.
LEMMA FilesKept ==
  ASSUME ValidInodes(disk') = ValidInodes(disk),
         \A m \in ValidInodes(disk) : FileOf(disk', m) = FileOf(disk, m)
  PROVE  Files' = Files
BY DEF Files

\* A fresh image is an empty store.
LEMMA InitStore == Init => Promise!Init
<1> SUFFICES ASSUME Init PROVE Promise!Init
  OBVIOUS
<1>1. ValidInodes(disk) = {}
  BY InodePlace, ZeroInodeType
  DEF Init, ValidInodes, inode_load, InodesOf, Zero, ZeroInode
<1>2. Files = [n \in InodeNumbers |-> NoFile]
  BY <1>1 DEF Files
<1>3. WriteInProgress = NoWrite
  BY DEF Init, Idle, WriteInProgress, BeingWritten
<1> QED  BY <1>2, <1>3 DEF Init, Promise!Init

\* fs_mount only brings the store online.
LEMMA MountStore == ASSUME Safe, Mount PROVE Promise!Mount
<1>1. WriteInProgress = NoWrite /\ WriteInProgress' = NoWrite
  BY DEF Mount, Idle, WriteInProgress, BeingWritten, NoWrite
<1>2. Files' = Files
  BY DEF Mount, Files
<1> QED  BY <1>1, <1>2 DEF Mount, Promise!Mount

\* So does a mount that took bytes of a file for block numbers.
LEMMA MountAstrayStore == ASSUME Safe, MountAstray PROVE Promise!Mount
<1>1. WriteInProgress = NoWrite /\ WriteInProgress' = NoWrite
  BY DEF MountAstray, Idle, WriteInProgress, BeingWritten, NoWrite
<1>2. Files' = Files
  BY DEF MountAstray, Files
<1> QED  BY <1>1, <1>2 DEF MountAstray, Promise!Mount

\* Outside fs_write's loop no write is in progress.
LEMMA NoWriteNow ==
  /\ pc \notin {"alloc", "store"} => WriteInProgress = NoWrite
  /\ pc' \notin {"alloc", "store"} => WriteInProgress' = NoWrite
BY DEF WriteInProgress, BeingWritten, NoWrite

\* In its loop fs_write works on a file that exists.
LEMMA WriteNow ==
  ASSUME Safe, pc \in {"alloc", "store"}
  PROVE  /\ WriteInProgress.number = call.inumber
         /\ WriteInProgress.file = call.file
         /\ WriteInProgress # NoWrite
         /\ call.inumber \in InodeNumbers /\ call.inumber \in ValidInodes(disk)
<1>1. WriteInProgress = [number |-> call.inumber, file |-> call.file]
  BY DEF WriteInProgress, BeingWritten
<1>2. call.inumber \in InodeNumbers /\ call.inumber \in ValidInodes(disk)
  BY DEF Safe, WriteHolds, ValidInodes
<1>3. call.inumber # 0
  BY <1>2 DEF InodeNumbers
<1> QED  BY <1>1, <1>2, <1>3 DEF NoWrite

\* Writing the superblock is a stutter of the store.
LEMMA FormatSuperStore ==
  ASSUME Safe, FormatSuper PROVE UNCHANGED Promise!storeVars
<1>1. /\ pc = "idle" /\ pc' \in {"idle", "format"} /\ mounted' = mounted
      /\ \A c \in Blocks \ {0} : disk'[c] = disk[c]
  BY DiskFacts DEF FormatSuper, Idle, Return, Safe, TypeOK
<1>2. OnlyWrites(disk, disk', 0) /\ 0 \notin InodeBlocks
  BY <1>1 DEF OnlyWrites, InodeBlocks
<1>3. /\ ValidInodes(disk') = ValidInodes(disk)
      /\ \A m \in InodeNumbers : inode_load(disk', m) = inode_load(disk, m)
  BY <1>2, InodesFrame
<1>4. ASSUME NEW m \in ValidInodes(disk)
      PROVE  FileOf(disk', m) = FileOf(disk, m)
  <2>1. m \in InodeNumbers
    BY DEF ValidInodes
  <2>2. 0 \notin FileRefs(disk, inode_load(disk, m))
    BY DiskFacts DEF Safe, NoCrossLink, UsedBlocks, Metadata
  <2> QED  BY <1>2, <1>3, <2>1, <2>2, FileOfFrame
<1> QED  BY <1>1, <1>3, <1>4, FilesKept, NoWriteNow DEF Promise!storeVars

\* Formatting an inode block wipes the files whose inodes it held.
LEMMA FormatInodeBlockStore ==
  ASSUME Safe, FormatInodeBlock PROVE Promise!Wipe
<1> DEFINE b == call.target
           empty == [j \in InodeSlots |-> ZeroInode]
           S == {n \in InodeNumbers : InodeBlock(n) = b}
<1>1. /\ disk' = [disk EXCEPT ![b] = InodeTable(empty)]
      /\ pc = "format" /\ pc' \in {"idle", "format"} /\ mounted' = mounted
  BY DEF FormatInodeBlock, Return
<1>2. disk \in DiskType /\ b \in InodeBlocks /\ b \in Blocks /\ ~mounted
  BY <1>1, DiskFacts DEF Safe, TypeOK, DiskType, MountedDisk
<1>3. InodesOf(InodeTable(empty)) = empty
  BY DEF InodeTable, InodesOf
<1>4. \A n \in InodeNumbers :
        IF InodeBlock(n) = b THEN inode_load(disk', n) = ZeroInode
        ELSE inode_load(disk', n) = inode_load(disk, n)
  BY <1>1, <1>2, <1>3, InodePlace DEF inode_load, DiskType
<1>5. ValidInodes(disk') = {n \in ValidInodes(disk) : InodeBlock(n) # b}
  BY <1>4 DEF ValidInodes, ZeroInode
<1>6. ASSUME NEW n \in ValidInodes(disk'), n \in InodeNumbers
      PROVE  FileOf(disk', n) = FileOf(disk, n)
  <2>1. OnlyWrites(disk, disk', b)
    BY <1>1, <1>2 DEF OnlyWrites, DiskType
  <2>2. b \notin FileRefs(disk, inode_load(disk, n))
    BY <1>2, <1>5 DEF Safe, NoCrossLink, UsedBlocks, Metadata
  <2>3. inode_load(disk', n) = inode_load(disk, n)
    BY <1>4, <1>5, <1>6
  <2> QED  BY <2>1, <2>2, <2>3, FileOfFrame
<1>7. Files' = [n \in InodeNumbers |-> IF n \in S THEN NoFile ELSE Files[n]]
  <2>1. \A n \in InodeNumbers :
          (IF n \in ValidInodes(disk') THEN FileOf(disk', n) ELSE NoFile) =
            IF n \in S THEN NoFile ELSE Files[n]
    BY <1>5, <1>6 DEF Files
  <2> QED  BY <2>1 DEF Files
<1>8. S \in SUBSET InodeNumbers
  OBVIOUS
<1> HIDE DEF S
<1> QED  BY <1>1, <1>2, <1>7, <1>8, NoWriteNow DEF Promise!Wipe

\* An inode that is saved changes the file of its number and no other.
LEMMA SavedFile ==
  ASSUME Safe, NEW n \in InodeNumbers, NEW inode \in InodeType,
         disk' = inode_save(disk, n, inode)
  PROVE  Files' = [Files EXCEPT ![n] =
           IF inode.isvalid = 1 THEN FileOf(disk', n) ELSE NoFile]
<1>1. /\ TypeOK /\ NoCrossLink /\ disk \in DiskType
  BY DEF Safe, TypeOK, DiskType
<1>2. /\ ValidInodes(disk') = (ValidInodes(disk) \ {n}) \cup
                               {m \in {n} : inode.isvalid = 1}
      /\ \A m \in ValidInodes(disk) \ {n} : inode_load(disk', m) = inode_load(disk, m)
  BY <1>1, SaveFrame
<1>3. OnlyWrites(disk, disk', InodeBlock(n)) /\ InodeBlock(n) \in Metadata
      /\ InodeBlock(n) \in Blocks
  <2>1. InodeBlock(n) \in InodeBlocks
    BY InodePlace
  <2> QED  BY <1>1, <2>1, DiskFacts DEF OnlyWrites, inode_save, DiskType, Metadata
<1>4. ASSUME NEW m \in ValidInodes(disk) \ {n}
      PROVE  FileOf(disk', m) = FileOf(disk, m)
  <2>1. InodeBlock(n) \notin FileRefs(disk, inode_load(disk, m))
    BY <1>1, <1>3 DEF NoCrossLink, UsedBlocks
  <2> QED  BY <1>2, <1>3, <2>1, FileOfFrame
<1>5. \A m \in InodeNumbers :
        (IF m \in ValidInodes(disk') THEN FileOf(disk', m) ELSE NoFile) =
          IF m = n THEN (IF inode.isvalid = 1 THEN FileOf(disk', n) ELSE NoFile)
          ELSE Files[m]
  BY <1>2, <1>4 DEF Files
<1> QED  BY <1>5 DEF Files

\* fs_create makes the lowest absent file an empty one; on a disk with no
\* inode block there are no files, and block 1 is what it writes.
LEMMA CreateStore ==
  ASSUME Safe, NEW n \in InodeNumbers \cup {1}, Create(n)
  PROVE  Promise!Create \/ UNCHANGED Promise!storeVars
<1> DEFINE inode == [inode_load(disk, n) EXCEPT !.isvalid = 1, !.size = 0]
<1>1. /\ disk' = inode_save(disk, n, inode) /\ pc = "idle" /\ mounted
      /\ mounted' = mounted /\ pc' = pc /\ FirstInvalid(n)
  BY DEF Create, Idle
<1>2. WriteInProgress = NoWrite /\ WriteInProgress' = NoWrite
  BY <1>1, NoWriteNow
<1>3. CASE n \notin InodeNumbers
  <2>1. InodeNumbers = {}
    BY <1>3, DiskFacts, GeometryAssumption DEF InodeNumbers, GeometryAssumption
  <2>2. Files' = Files
    BY <2>1 DEF Files
  <2> QED  BY <1>1, <1>2, <2>2 DEF Promise!storeVars
<1>4. CASE n \in InodeNumbers
  <2>1. inode \in InodeType /\ inode.size = 0 /\ inode.isvalid = 1
    <3>1. inode_load(disk, n) \in InodeType
      BY LoadType DEF Safe, TypeOK, DiskType
    <3>2. 0 \in 0 .. MaxSize
      BY GeometryAssumption DEF MaxSize, GeometryAssumption
    <3> QED  BY <3>1, <3>2, Zenon DEF InodeType
  <2> HIDE DEF inode
  <2>2. Files' = [Files EXCEPT ![n] = FileOf(disk', n)]
    BY <1>1, <1>4, <2>1, SavedFile
  <2>3. inode_load(disk', n) = inode
    BY <1>1, <1>4, <2>1, LoadSave DEF Safe, TypeOK, DiskType
  <2>4. PICK f \in HostFiles : TRUE
    BY HostAssumption DEF HostAssumption
  <2>5. FileOf(disk', n) = Prefix(f, 0)
    BY <2>1, <2>3, TurnsZero DEF FileOf, Contents, Prefix
  <2>6. ~Promise!Exists(n)
    <3>1. n \notin ValidInodes(disk)
      BY <1>1 DEF FirstInvalid, ValidInodes
    <3> QED  BY <1>4, <3>1, FilesThere DEF Promise!Exists
  <2>7. \A m \in InodeNumbers : m < n => Promise!Exists(m)
    <3> SUFFICES ASSUME NEW m \in InodeNumbers, m < n PROVE Promise!Exists(m)
      OBVIOUS
    <3>1. m \in 1 .. n - 1
      BY <1>4 DEF InodeNumbers
    <3>2. m \in ValidInodes(disk)
      BY <1>1, <3>1 DEF FirstInvalid, ValidInodes
    <3> QED  BY <3>2, FilesThere DEF Promise!Exists
  <2> QED
    BY <1>1, <1>2, <1>4, <2>2, <2>4, <2>5, <2>6, <2>7 DEF Promise!Create
<1> QED  BY <1>3, <1>4

\* fs_delete makes an existing file absent.
LEMMA DeleteStore ==
  ASSUME Safe, NEW n \in Inumbers, Delete(n) \/ DeleteTorn(n)
  PROVE  Promise!Delete
<1> DEFINE inode == inode_load(disk, n)
           saved == [inode EXCEPT !.isvalid = 0, !.size = 0]
<1>1. /\ pc = "idle" /\ pc' = pc /\ Usable(n) /\ mounted /\ mounted' = mounted
  BY DEF Delete, DeleteTorn, Idle, Usable
<1>2. n \in InodeNumbers /\ n \in ValidInodes(disk) /\ inode \in InodeType
  <2>1. n \in Int
    BY GeometryAssumption, Zenon DEF GeometryAssumption
  <2> QED  BY <1>1, <2>1, UsableIsValid, LoadType
           DEF Safe, TypeOK, DiskType
<1>3. Delete(n) => RefsInRange(disk, inode)
  <2>1. CASE astray
    BY <1>2, <2>1, RefsOfType DEF Delete, Torn, Safe, TypeOK, DiskType
  <2>2. CASE ~astray
    BY <1>1, <1>2, <2>2 DEF Safe, ReleaseIsWhole, BeingWritten
  <2> QED  BY <2>1, <2>2
<1>4. disk' = inode_save(disk, n, saved)
  BY <1>3 DEF Delete, DeleteTorn
<1>5. saved \in InodeType /\ saved.isvalid = 0
  <2>1. 0 \in 0 .. MaxSize
    BY GeometryAssumption DEF MaxSize, GeometryAssumption
  <2> QED  BY <1>2, <2>1, Zenon DEF InodeType
<1> HIDE DEF saved
<1>6. Files' = [Files EXCEPT ![n] = NoFile]
  BY <1>2, <1>4, <1>5, SavedFile
<1>7. Promise!Exists(n)
  BY <1>2, FilesThere DEF Promise!Exists
<1>8. WriteInProgress = NoWrite /\ WriteInProgress' = NoWrite
  BY <1>1, NoWriteNow
<1> QED  BY <1>1, <1>2, <1>6, <1>7, <1>8 DEF Promise!Delete

\* fs_write begins on a file that exists, after fread has left the store alone.
LEMMA WriteBeginStore ==
  ASSUME Safe, Safe', WriteBegin
  PROVE  Promise!Begin \/ UNCHANGED Promise!storeVars
<1> DEFINE n == call.inumber
<1>1. /\ pc = "fread" /\ Usable(n) /\ mounted
      /\ disk' = disk /\ mounted' = mounted
  BY DEF WriteBegin, Usable
<1>2. Files' = Files /\ WriteInProgress = NoWrite
  BY <1>1, NoWriteNow DEF Files
<1>3. CASE pc' = "alloc"
  <2>1. call'.inumber = n /\ call'.file = call.file
    BY <1>3, Zenon DEF WriteBegin, Return, Safe, TypeOK, CallType
  <2>2. WriteInProgress' = [number |-> n, file |-> call.file]
    BY <1>3, <2>1 DEF WriteInProgress, BeingWritten
  <2>3. n \in InodeNumbers /\ n \in ValidInodes(disk) /\ call.file \in HostFiles
    BY <1>1, CallFields, UsableIsValid DEF Safe, TypeOK
  <2>4. Promise!Exists(n)
    BY <2>3, FilesThere DEF Promise!Exists
  <2> QED  BY <1>1, <1>2, <2>2, <2>3, <2>4 DEF Promise!Begin
<1>4. CASE pc' # "alloc"
  <2>1. pc' = "idle"
    BY <1>4 DEF WriteBegin, Return
  <2> QED  BY <1>1, <1>2, <2>1, NoWriteNow DEF Promise!storeVars
<1> QED  BY <1>3, <1>4

\* A block that fs_write fills, or its indirect block, shows in no other file.
LEMMA LoopStore ==
  ASSUME Safe, Safe', pc \in {"alloc", "store"}, pc' \in {"alloc", "store"},
         NEW b \in Blocks \ Metadata, OnlyWrites(disk, disk', b),
         \A m \in ValidInodes(disk) \ {call.inumber} : b \notin UsedBlocks(disk, m),
         call'.inumber = call.inumber, call'.file = call.file, mounted' = mounted
  PROVE  Promise!Scribble
<1> DEFINE n == call.inumber
<1>1. /\ WriteInProgress.number = n /\ WriteInProgress # NoWrite
      /\ n \in InodeNumbers /\ n \in ValidInodes(disk)
      /\ WriteInProgress' = WriteInProgress
  BY WriteNow DEF WriteInProgress, BeingWritten
<1>2. /\ ValidInodes(disk') = ValidInodes(disk)
      /\ \A m \in InodeNumbers : inode_load(disk', m) = inode_load(disk, m)
  BY InodesFrame DEF Metadata
<1>3. ASSUME NEW m \in ValidInodes(disk) \ {n}
      PROVE  FileOf(disk', m) = FileOf(disk, m)
  <2>1. b \notin FileRefs(disk, inode_load(disk, m)) /\ m \in InodeNumbers
    BY DEF UsedBlocks, ValidInodes
  <2> QED  BY <1>2, <2>1, FileOfFrame
<1>4. Promise!OnlyWrittenChanges
  <2>1. \A m \in InodeNumbers : Files'[m] = Files[m] \/ m = n
    BY <1>2, <1>3 DEF Files
  <2>2. DOMAIN Files' = InodeNumbers
    BY DEF Files
  <2> QED  BY <1>1, <2>1, <2>2 DEF Promise!OnlyWrittenChanges
<1>5. Files'[n] # NoFile
  <2>1. disk' \in DiskType
    BY DEF Safe, TypeOK, DiskType
  <2> QED  BY <1>1, <1>2, <2>1, FileIsThere DEF Files
<1> QED  BY <1>1, <1>4, <1>5 DEF Promise!Scribble

\* A turn for a direct block.
LEMMA AllocDirectStore ==
  ASSUME Safe, Safe', AllocDirect PROVE Promise!Scribble
<1>1. PICK b \in Free :
        /\ disk' = [disk EXCEPT ![b] = Filling]
        /\ call' = [Stored EXCEPT !.inode.direct[call.curBlock] = b]
  BY DEF AllocDirect
<1>2. /\ pc = "alloc" /\ pc' = "alloc" /\ call.toWrite > 0 /\ mounted' = mounted
  BY DEF AllocDirect
<1>3. /\ b \in Blocks \ Metadata
      /\ \A m \in ValidInodes(disk) \ {call.inumber} : b \notin UsedBlocks(disk, m)
  BY <1>2, FreeBlock
<1>4. OnlyWrites(disk, disk', b)
  BY <1>1, <1>3 DEF OnlyWrites, Safe, TypeOK
<1>5. call'.inumber = call.inumber /\ call'.file = call.file
  BY <1>1, <1>2, StoredCall, Zenon DEF CallType
<1> QED  BY <1>2, <1>3, <1>4, <1>5, LoopStore

\* The turns that write the indirect block.
LEMMA WritePointerStore ==
  ASSUME Safe, Safe', pc = "alloc", mounted' = mounted,
         NEW i \in Blocks \ Metadata, NEW b \in Free,
         \A m \in ValidInodes(disk) \ {call.inumber} : i \notin UsedBlocks(disk, m),
         WritePointer(i, b)
  PROVE  Promise!Scribble
<1>1. OnlyWrites(disk, disk', i)
  BY DEF WritePointer, OnlyWrites, Safe, TypeOK
<1>2. pc' = "store" /\ call'.inumber = call.inumber /\ call'.file = call.file
  BY Zenon DEF WritePointer, Safe, TypeOK, CallType
<1> QED  BY <1>1, <1>2, LoopStore

\* The turn that takes the indirect block.
LEMMA AllocIndirectStore ==
  ASSUME Safe, Safe', AllocIndirect PROVE Promise!Scribble
<1>1. PICK i \in Free, b \in Free : WritePointer(i, b)
  BY DEF AllocIndirect
<1>2. pc = "alloc" /\ mounted' = mounted
  BY DEF AllocIndirect
<1>3. /\ i \in Blocks \ Metadata
      /\ \A m \in ValidInodes(disk) \ {call.inumber} : i \notin UsedBlocks(disk, m)
  BY <1>2, FreeBlock
<1> QED  BY <1>1, <1>2, <1>3, WritePointerStore

\* A later turn through the indirect block.
LEMMA AllocPointerStore ==
  ASSUME Safe, Safe', AllocPointer PROVE Promise!Scribble
<1> DEFINE i == call.inode.indirect
<1>1. PICK b \in Free : WritePointer(i, b)
  BY DEF AllocPointer
<1>2. pc = "alloc" /\ mounted' = mounted /\ call.curBlock > POINTERS_PER_INODE
  BY DEF AllocPointer
<1>3. i \in HeldBlocks
  <2>1. call.curBlock \in Nat
    BY CallFields DEF Safe, TypeOK
  <2>2. /\ call.curBlock - 1 \in 0 .. call.curBlock - 1
        /\ ~(call.curBlock - 1 < POINTERS_PER_INODE)
    BY <1>2, <2>1, GeometryAssumption DEF GeometryAssumption
  <2>3. i \in TurnRefs(disk, call.inode, call.curBlock - 1)
    BY <2>2 DEF TurnRefs
  <2> QED  BY <1>2, <2>2, <2>3, HeldTurnFacts
<1>4. /\ i \in Blocks \ Metadata
      /\ \A m \in ValidInodes(disk) \ {call.inumber} : i \notin UsedBlocks(disk, m)
  BY <1>2, <1>3, LoopStart
<1> QED  BY <1>1, <1>2, <1>4, WritePointerStore

\* The data block behind a pointer.
LEMMA StoreDataStore ==
  ASSUME Safe, Safe', StoreData PROVE Promise!Scribble
<1> DEFINE b == call.target
<1>1. /\ pc = "store" /\ pc' = "alloc" /\ call' = Stored /\ mounted' = mounted
      /\ disk' = [disk EXCEPT ![b] = Filling]
  BY DEF StoreData
<1>2. call.toWrite > 0 /\ b \in HeldBlocks
  BY <1>1 DEF Safe, CopyProgress, WriteHolds
<1>3. /\ b \in Blocks \ Metadata
      /\ \A m \in ValidInodes(disk) \ {call.inumber} : b \notin UsedBlocks(disk, m)
  BY <1>1, <1>2, LoopStart
<1>4. OnlyWrites(disk, disk', b)
  BY <1>1, <1>3 DEF OnlyWrites, Safe, TypeOK
<1>5. call'.inumber = call.inumber /\ call'.file = call.file
  BY <1>1, <1>2, StoredCall
<1> QED  BY <1>1, <1>3, <1>4, <1>5, LoopStore

\* When fs_write returns the file holds a prefix of the host file.
LEMMA ReturnedStore ==
  ASSUME Safe, pc = "alloc", Returned PROVE Promise!Finish
<1> DEFINE n == call.inumber
<1>1. /\ WriteInProgress.number = n /\ WriteInProgress.file = call.file
      /\ WriteInProgress # NoWrite /\ n \in InodeNumbers
  BY WriteNow
<1>2. WriteInProgress' = NoWrite /\ mounted' = mounted
  BY NoWriteNow DEF Returned
<1>3. PICK i \in InodeType : i.isvalid = 1 /\ disk' = inode_save(disk, n, i)
  BY DEF Returned
<1>4. Files' = [Files EXCEPT ![n] = FileOf(disk', n)]
  BY <1>1, <1>3, SavedFile
<1>5. /\ DOMAIN Files' = InodeNumbers
      /\ \A m \in InodeNumbers : Files'[m] = Files[m] \/ m = n
      /\ Files'[n] = Prefix(call.file, call.offset + call.written)
  BY <1>1, <1>4 DEF Files, Returned
<1>6. call.offset + call.written \in 0 .. HostSize[call.file]
  BY DEF Returned
<1> QED
  BY <1>1, <1>2, <1>5, <1>6 DEF Promise!Finish, Promise!OnlyWrittenChanges

\* The end of the process takes the store offline and its files with it.
LEMMA RestartStore ==
  ASSUME Safe, Restart
  PROVE  Promise!GoOffline \/ UNCHANGED Promise!storeVars
<1>1. Files' = Files /\ mounted' = FALSE /\ WriteInProgress' = NoWrite
  BY NoWriteNow DEF Restart, Return, Files
<1>2. mounted \in BOOLEAN
  BY DEF Safe, TypeOK
<1>3. CASE mounted
  BY <1>1, <1>3 DEF Promise!GoOffline
<1>4. CASE ~mounted
  <2>1. WriteInProgress = NoWrite
    BY <1>4, NoWriteNow DEF Safe, WriteHolds
  <2>2. mounted' = mounted
    BY <1>1, <1>2, <1>4
  <2> QED  BY <1>1, <2>1, <2>2 DEF Promise!storeVars
<1> QED  BY <1>3, <1>4

\* Through the blocks its inodes lead to, the disk is a store of files: a
\* command changes the file it names and no other, a copyin that the end of
\* the process cuts short spoils only its own file, and only format erases.
THEOREM SpecImplementsFileStore == Spec => ImplementsFileStore
<1>1. Safe /\ Safe' /\ CopiedSoFar /\ [Next]_vars =>
        [Promise!Next]_(Promise!storeVars)
  <2> SUFFICES ASSUME Safe, Safe', CopiedSoFar, [Next]_vars
               PROVE  Promise!Next \/ UNCHANGED Promise!storeVars
    OBVIOUS
  <2>1. CASE FormatStep
    BY <2>1, FormatSuperStore, FormatInodeBlockStore DEF FormatStep, Promise!Next
  <2>2. CASE Mount \/ MountAstray
    BY <2>2, MountStore, MountAstrayStore DEF Promise!Next
  <2>3. CASE InodeStep
    BY <2>3, CreateStore, DeleteStore DEF InodeStep, Promise!Next
  <2>4. CASE CopyinStep
    <3>1. ASSUME NEW f \in HostFiles, NEW n \in Inumbers, Copyin(f, n)
          PROVE  UNCHANGED Promise!storeVars
      BY <3>1, NoWriteNow DEF Copyin, Idle, Files, Promise!storeVars
    <3>2. CASE CopyinEnd
      BY <3>2, NoWriteNow DEF CopyinEnd, Return, Files, Promise!storeVars
    <3>3. CASE WriteBegin
      BY <3>3, WriteBeginStore DEF Promise!Next
    <3>4. CASE AllocDirect \/ AllocIndirect \/ AllocPointer \/ StoreData
      BY <3>4, AllocDirectStore, AllocIndirectStore, AllocPointerStore,
         StoreDataStore DEF Promise!Next
    <3>5. CASE WriteEnd \/ IndirectLeaked
      <4>1. pc = "alloc"
        BY <3>5 DEF WriteEnd, IndirectLeaked
      <4> QED  BY <3>5, <4>1, WriteEndReadsBack, IndirectLeakedReadsBack,
                  ReturnedStore DEF Promise!Next
    <3> QED  BY <2>4, <3>1, <3>2, <3>3, <3>4, <3>5 DEF CopyinStep, WriteStep
  <2>5. CASE Restart
    BY <2>5, RestartStore DEF Promise!Next
  <2>6. CASE UNCHANGED vars
    <3>1. Files' = Files /\ WriteInProgress' = WriteInProgress /\ mounted' = mounted
      BY <2>6 DEF vars, Files, WriteInProgress, BeingWritten
    <3> QED  BY <3>1 DEF Promise!storeVars
  <2> QED  BY <2>1, <2>2, <2>3, <2>4, <2>5, <2>6 DEF Next
<1> QED
  BY InitStore, <1>1, SpecSafe, SpecCopiedSoFar, PTL
  DEF Spec, ImplementsFileStore, Promise!Store
=============================================================================
