------------------------------ MODULE SimpleFS ------------------------------
(***************************************************************************)
(* SimpleFS (Project06/code): the file system of fs.c on the emulated disk *)
(* of disk.c, driven by the commands of shell.c.                           *)
(*                                                                         *)
(* The disk is an array of blocks that outlives the process; the mounted   *)
(* flag, the free block bitmap and the call in progress are memory and die *)
(* with it.  Every pwrite of a block is a step of its own, so that the     *)
(* process can end between any two of them.                                *)
(***************************************************************************)
EXTENDS Integers, FiniteSets

CONSTANTS
  DiskBlocks,         \* the <nblocks> argument of simplefs
  BLOCK_SIZE,         \* bytes in a block
  INODES_PER_BLOCK,
  POINTERS_PER_INODE,
  POINTERS_PER_BLOCK,
  COPY_BUFFER,        \* sizeof(buffer) in do_copyin and do_copyout
  HostFiles,          \* the files of the host that copyin may read
  HostSize,           \* their lengths in bytes
  HostBytes,          \* their bytes
  Inumbers            \* the inode numbers the user may type

ASSUME GeometryAssumption ==
  /\ DiskBlocks \in Nat /\ DiskBlocks >= 2
  /\ BLOCK_SIZE \in Nat \ {0}
  /\ INODES_PER_BLOCK \in Nat \ {0}
  /\ POINTERS_PER_INODE \in Nat \ {0}
  /\ POINTERS_PER_BLOCK \in Nat \ {0}
  /\ COPY_BUFFER \in Nat \ {0}
  /\ COPY_BUFFER % BLOCK_SIZE = 0
  /\ Inumbers \subseteq Int

\* A host file holds any bytes at all; none is longer than an inode can reach.
ASSUME HostAssumption ==
  /\ HostFiles # {}
  /\ HostSize \in [HostFiles -> Nat]
  /\ \A f \in HostFiles :
        /\ HostBytes[f] \in [0 .. HostSize[f] - 1 -> 0 .. 255]
        /\ HostSize[f] <=
             (POINTERS_PER_INODE + POINTERS_PER_BLOCK) * BLOCK_SIZE

\* the most bytes an inode can reach
MaxSize == (POINTERS_PER_INODE + POINTERS_PER_BLOCK) * BLOCK_SIZE

VARIABLES
  disk,            \* block number -> contents, the image file
  mounted,
  freeBlockBitmap, \* the blocks whose entry in the bitmap is 1
  maxInodes,
  astray,          \* the mount took bytes of a file for block numbers
  pc,              \* where the command in progress stands
  call             \* its local variables

vars == <<disk, mounted, freeBlockBitmap, maxInodes, astray, pc, call>>

-----------------------------------------------------------------------------
(***************************************************************************)
(* union fs_block: one block of bytes, read as whichever member the code   *)
(* names.                                                                  *)
(***************************************************************************)
Blocks == 0 .. DiskBlocks - 1
DirectSlots == 0 .. POINTERS_PER_INODE - 1
PointerSlots == 0 .. POINTERS_PER_BLOCK - 1
InodeSlots == 0 .. INODES_PER_BLOCK - 1

Zero == [kind |-> "zero"]
Data(bytes) == [kind |-> "data", bytes |-> bytes]
Pointers(p) == [kind |-> "pointers", pointers |-> p]
InodeTable(t) == [kind |-> "inodes", inode |-> t]
Super(n, nib, ni) ==
  [kind |-> "super", nblocks |-> n, ninodeblocks |-> nib, ninodes |-> ni]

ZeroInode ==
  [isvalid |-> 0, size |-> 0,
   direct |-> [k \in DirectSlots |-> 0], indirect |-> 0]

\* Four bytes of a file, or of what the stack held behind a short last block,
\* read as a block number: any int32, a block of another file, block 0 and a
\* negative number included.
Lost == -1

PointersOf(blk) ==
  IF blk.kind = "pointers" THEN blk.pointers
  ELSE [k \in PointerSlots |-> IF blk.kind = "zero" THEN 0 ELSE Lost]

\* strncpy: the copy ends at the first NUL and is filled up with NULs
strncpy(src) ==
  [i \in DOMAIN src |-> IF \E j \in 0 .. i : src[j] = 0 THEN 0 ELSE src[i]]

\* n bytes of a host file, from one of its offsets on
HostPart(f, from, n) == [i \in 0 .. n - 1 |-> HostBytes[f][from + i]]

InodesOf(blk) ==
  IF blk.kind = "inodes" THEN blk.inode ELSE [j \in InodeSlots |-> ZeroInode]

InodeBlock(inumber) == (inumber - 1) \div INODES_PER_BLOCK + 1
InodeIndex(inumber) == (inumber - 1) % INODES_PER_BLOCK

inode_load(dsk, inumber) ==
  InodesOf(dsk[InodeBlock(inumber)])[InodeIndex(inumber)]

\* slip: the inode block is written without having been read
inode_save_unread(dsk, inumber, inode) ==
  [dsk EXCEPT ![InodeBlock(inumber)] =
     InodeTable([j \in InodeSlots |->
                   IF j = InodeIndex(inumber) THEN inode ELSE ZeroInode])]

inode_save(dsk, inumber, inode) ==
  [dsk EXCEPT ![InodeBlock(inumber)] =
     InodeTable([InodesOf(@) EXCEPT ![InodeIndex(inumber)] = inode])]

-----------------------------------------------------------------------------
(***************************************************************************)
(* What an inode refers to.  fs_mount, fs_delete and fs_write walk the     *)
(* size down by BLOCK_SIZE, so that the k-th turn happens when k blocks    *)
(* leave some of the size uncovered.                                       *)
(***************************************************************************)
FileSlots == 0 .. POINTERS_PER_INODE + POINTERS_PER_BLOCK - 1

InodeBlockCount == DiskBlocks \div 10
InodeBlocks == 1 .. InodeBlockCount
Metadata == {0} \cup InodeBlocks
InodeNumbers == 1 .. INODES_PER_BLOCK * InodeBlockCount

Turns(size) == {k \in FileSlots : k * BLOCK_SIZE < size}

\* the block numbers the k-th turn uses, in range or not; an indirect number
\* out of range is not followed
TurnRefs(dsk, inode, k) ==
  IF k < POINTERS_PER_INODE
  THEN {inode.direct[k]}
  ELSE {inode.indirect} \cup
       {PointersOf(dsk[b])[k - POINTERS_PER_INODE] :
          b \in {inode.indirect} \cap Blocks}

FileRefs(dsk, inode) == UNION {TurnRefs(dsk, inode, k) : k \in Turns(inode.size)}

RefsInRange(dsk, inode) == FileRefs(dsk, inode) \subseteq Blocks

\* the loops clear one turn after the other and return at a number out of range
Released(dsk, inode) ==
  UNION {TurnRefs(dsk, inode, k) \cap Blocks :
    k \in {t \in Turns(inode.size) :
             \A u \in Turns(inode.size) :
               u < t => TurnRefs(dsk, inode, u) \subseteq Blocks}}

\* what fs_read, called until it returns 0, finds in a file
DataBlock(dsk, inode, k) ==
  IF k < POINTERS_PER_INODE
  THEN inode.direct[k]
  ELSE PointersOf(dsk[inode.indirect])[k - POINTERS_PER_INODE]

\* the bytes of the k-th block that a size covers
Covered(size, k) ==
  IF size - k * BLOCK_SIZE < BLOCK_SIZE THEN size - k * BLOCK_SIZE
  ELSE BLOCK_SIZE

\* fs_read copies with strncpy again; blocks of other kinds stand as they are
FirstBytes(blk, n) ==
  IF blk.kind = "data"
  THEN Data(strncpy([i \in (0 .. n - 1) \cap DOMAIN blk.bytes |-> blk.bytes[i]]))
  ELSE blk

Contents(dsk, inode) ==
  [k \in {t \in Turns(inode.size) : TurnRefs(dsk, inode, t) \subseteq Blocks}
     |-> FirstBytes(dsk[DataBlock(dsk, inode, k)], Covered(inode.size, k))]

-----------------------------------------------------------------------------
NoCall ==
  [inumber |-> 0, file |-> CHOOSE f \in HostFiles : TRUE, offset |-> 0,
   inode |-> ZeroInode, curBlock |-> 0, toWrite |-> 0, written |-> 0,
   target |-> 0]

Idle == pc = "idle" /\ call = NoCall

\* a fresh image: disk_open created the file and ftruncate filled it with zeros
Init ==
  /\ disk = [b \in Blocks |-> Zero]
  /\ mounted = FALSE
  /\ freeBlockBitmap = {}
  /\ maxInodes = 0
  /\ astray = FALSE
  /\ Idle

Return == pc' = "idle" /\ call' = NoCall

-----------------------------------------------------------------------------
(* fs_format: the superblock, then one inode block after the other *)
FormatSuper ==
  /\ Idle
  /\ ~mounted
  /\ disk' = [disk EXCEPT ![0] =
       Super(DiskBlocks, InodeBlockCount, INODES_PER_BLOCK * InodeBlockCount)]
  /\ IF InodeBlockCount = 0
     THEN Return
     ELSE pc' = "format" /\ call' = [NoCall EXCEPT !.target = 1]
  /\ UNCHANGED <<mounted, freeBlockBitmap, maxInodes, astray>>

FormatInodeBlock ==
  /\ pc = "format"
  /\ disk' = [disk EXCEPT ![call.target] =
       InodeTable([j \in InodeSlots |-> ZeroInode])]
  /\ IF call.target = InodeBlockCount
     THEN Return
     ELSE pc' = pc /\ call' = [call EXCEPT !.target = @ + 1]
  /\ UNCHANGED <<mounted, freeBlockBitmap, maxInodes, astray>>

\* the inodes of the inode blocks that are in use
ValidInodes(dsk) == {n \in InodeNumbers : inode_load(dsk, n).isvalid = 1}

\* the tests that are none of a block number
SuperAndSizes ==
  /\ disk[0].kind = "super"
  /\ disk[0].nblocks = DiskBlocks
  /\ \A n \in ValidInodes(disk) : inode_load(disk, n).size <= MaxSize

UsedBlocks(dsk, n) == FileRefs(dsk, inode_load(dsk, n)) \cap Blocks

\* slip: the block numbers are not looked at
MountableUnchecked == SuperAndSizes

\* a mount that fails leaves globals that no command reads before a mount
\* that succeeds has set them
Mountable ==
  /\ SuperAndSizes
  /\ \A n \in ValidInodes(disk) : RefsInRange(disk, inode_load(disk, n))

\* slip: a mount that marks the direct blocks alone
MountDirectOnly ==
  /\ Idle
  /\ ~mounted
  /\ Mountable
  /\ mounted' = TRUE
  /\ maxInodes' = disk[0].ninodes
  /\ freeBlockBitmap' = Metadata \cup
       UNION {FileRefs(disk, inode_load(disk, n)) \ {inode_load(disk, n).indirect} :
                n \in ValidInodes(disk)}
  /\ UNCHANGED <<disk, astray, pc, call>>

Mount ==
  /\ Idle
  /\ ~mounted
  /\ Mountable
  /\ mounted' = TRUE
  /\ maxInodes' = disk[0].ninodes
  /\ freeBlockBitmap' = Metadata \cup
       UNION {FileRefs(disk, inode_load(disk, n)) : n \in ValidInodes(disk)}
  /\ UNCHANGED <<disk, astray, pc, call>>

Torn(n) == Lost \in FileRefs(disk, inode_load(disk, n))

\* The tests compare with nblocks alone, so that bytes of a file read as block
\* numbers may pass as well as fail them.  Where they pass, the mount marks
\* whichever blocks they name.
MountAstray ==
  /\ Idle
  /\ ~mounted
  /\ SuperAndSizes
  /\ \E n \in ValidInodes(disk) : Torn(n)
  /\ mounted' = TRUE
  /\ astray' = TRUE
  /\ maxInodes' = disk[0].ninodes
  /\ \E marks \in SUBSET Blocks :
       freeBlockBitmap' = Metadata \cup marks \cup
         UNION {UsedBlocks(disk, n) : n \in ValidInodes(disk)}
  /\ UNCHANGED <<disk, pc, call>>

-----------------------------------------------------------------------------
\* fs_create loads inode 1 before it compares a number with maxInodes
FirstInvalid(n) ==
  /\ n = 1 \/ n \in 2 .. maxInodes
  /\ inode_load(disk, n).isvalid = 0
  /\ \A m \in 1 .. n - 1 : inode_load(disk, m).isvalid = 1

Create(n) ==
  /\ Idle
  /\ mounted
  /\ FirstInvalid(n)
  /\ disk' = inode_save(disk, n,
       [inode_load(disk, n) EXCEPT !.isvalid = 1, !.size = 0])
  /\ UNCHANGED <<mounted, freeBlockBitmap, maxInodes, astray, pc, call>>

Usable(n) ==
  /\ mounted
  /\ n \in 1 .. maxInodes
  /\ inode_load(disk, n).isvalid = 1

\* an early return keeps the inode and the blocks cleared so far
Delete(n) ==
  LET inode == inode_load(disk, n) IN
  /\ Idle
  /\ Usable(n)
  /\ ~(astray /\ Torn(n))
  /\ freeBlockBitmap' = freeBlockBitmap \ Released(disk, inode)
  /\ disk' = IF RefsInRange(disk, inode)
             THEN inode_save(disk, n, [inode EXCEPT !.isvalid = 0, !.size = 0])
             ELSE disk
  /\ UNCHANGED <<mounted, maxInodes, astray, pc, call>>

\* The words that passed the tests of the mount pass those of fs_delete, which
\* clears the entries of whichever blocks they name.
DeleteTorn(n) ==
  /\ Idle
  /\ Usable(n)
  /\ astray /\ Torn(n)
  /\ freeBlockBitmap' \in SUBSET (freeBlockBitmap \ UsedBlocks(disk, n))
  /\ disk' = inode_save(disk, n,
       [inode_load(disk, n) EXCEPT !.isvalid = 0, !.size = 0])
  /\ UNCHANGED <<mounted, maxInodes, astray, pc, call>>

-----------------------------------------------------------------------------
(***************************************************************************)
(* do_copyin: one fs_write for each buffer that fread fills.  Bound: no     *)
(* copyin is followed whose process has an astray bitmap, by which fs_write *)
(* may overwrite any block, the superblock and the inodes included.         *)
(***************************************************************************)
Copyin(f, n) ==
  /\ Idle
  /\ ~astray
  /\ pc' = "fread"
  /\ call' = [NoCall EXCEPT !.file = f, !.inumber = n]
  /\ UNCHANGED <<disk, mounted, freeBlockBitmap, maxInodes, astray>>

FreadResult ==
  LET rest == HostSize[call.file] - call.offset IN
  IF rest < COPY_BUFFER THEN rest ELSE COPY_BUFFER

\* the end of the host file, or an fs_write that refuses and returns 0
CopyinEnd ==
  /\ pc = "fread"
  /\ FreadResult = 0 \/ ~Usable(call.inumber)
  /\ Return
  /\ UNCHANGED <<disk, mounted, freeBlockBitmap, maxInodes, astray>>

\* fs_write up to its allocation loop; offset 0 releases what the file held
WriteBegin ==
  LET inode == inode_load(disk, call.inumber)
      begun(i) == [call EXCEPT !.inode = i,
                               !.curBlock = call.offset \div BLOCK_SIZE,
                               !.toWrite = FreadResult,
                               !.written = 0]
  IN
  /\ pc = "fread"
  /\ FreadResult > 0
  /\ Usable(call.inumber)
  /\ IF call.offset > 0
     THEN pc' = "alloc" /\ call' = begun(inode) /\ UNCHANGED freeBlockBitmap
     ELSE /\ freeBlockBitmap' = freeBlockBitmap \ Released(disk, inode)
          /\ IF RefsInRange(disk, inode)
             THEN pc' = "alloc" /\ call' = begun([inode EXCEPT !.size = 0])
             ELSE Return
  /\ UNCHANGED <<disk, mounted, maxInodes, astray>>

\* slip: the search for a free block runs to nblocks inclusive
FreeInclusive == (0 .. DiskBlocks) \ freeBlockBitmap

Free == Blocks \ freeBlockBitmap
LowestIn(S, b) == b \in S /\ \A c \in S : b <= c

Writing == IF call.toWrite < BLOCK_SIZE THEN call.toWrite ELSE BLOCK_SIZE
Stored == [call EXCEPT !.curBlock = @ + 1, !.toWrite = @ - Writing,
                       !.written = @ + Writing, !.target = 0]

\* what fs_write puts into the block it fills; what the stack held behind a
\* short last block follows it on the disk
Filling == Data(strncpy(HostPart(call.file, call.offset + call.written, Writing)))

\* slip: the bitmap entry of the block is not set
AllocDirectUnmarked ==
  /\ pc = "alloc"
  /\ call.toWrite > 0
  /\ call.curBlock < POINTERS_PER_INODE
  /\ \E b \in Free :
       /\ LowestIn(Free, b)
       /\ disk' = [disk EXCEPT ![b] = Filling]
       /\ call' = [Stored EXCEPT !.inode.direct[call.curBlock] = b]
  /\ UNCHANGED <<mounted, freeBlockBitmap, maxInodes, astray, pc>>

AllocDirect ==
  /\ pc = "alloc"
  /\ call.toWrite > 0
  /\ call.curBlock < POINTERS_PER_INODE
  /\ \E b \in Free :
       /\ LowestIn(Free, b)
       /\ freeBlockBitmap' = freeBlockBitmap \cup {b}
       /\ disk' = [disk EXCEPT ![b] = Filling]
       /\ call' = [Stored EXCEPT !.inode.direct[call.curBlock] = b]
  /\ UNCHANGED <<mounted, maxInodes, astray, pc>>

\* Both branches below read the indirect block and write it back with one
\* pointer changed: what the block held before stays in the other slots.
WritePointer(indirect, b) ==
  /\ disk' = [disk EXCEPT ![indirect] =
       Pointers([PointersOf(@) EXCEPT
                   ![call.curBlock - POINTERS_PER_INODE] = b])]
  /\ pc' = "store"
  /\ call' = [call EXCEPT !.inode.indirect = indirect, !.target = b]

AllocIndirect ==
  /\ pc = "alloc"
  /\ call.toWrite > 0
  /\ call.curBlock = POINTERS_PER_INODE
  /\ \E i, b \in Free :
       /\ LowestIn(Free, i)
       /\ LowestIn(Free \ {i}, b)
       /\ freeBlockBitmap' = freeBlockBitmap \cup {i, b}
       /\ WritePointer(i, b)
  /\ UNCHANGED <<mounted, maxInodes, astray>>

AllocPointer ==
  /\ pc = "alloc"
  /\ call.toWrite > 0
  /\ call.curBlock > POINTERS_PER_INODE
  /\ \E b \in Free :
       /\ LowestIn(Free, b)
       /\ freeBlockBitmap' = freeBlockBitmap \cup {b}
       /\ WritePointer(call.inode.indirect, b)
  /\ UNCHANGED <<mounted, maxInodes, astray>>

StoreData ==
  /\ pc = "store"
  /\ disk' = [disk EXCEPT ![call.target] = Filling]
  /\ pc' = "alloc"
  /\ call' = Stored
  /\ UNCHANGED <<mounted, freeBlockBitmap, maxInodes, astray>>

\* slip: the size counts the bytes of the last call alone
SaveLastSize(inode) ==
  /\ disk' = inode_save(disk, call.inumber,
       [inode EXCEPT !.size = call.written])
  /\ IF call.toWrite > 0
     THEN Return
     ELSE /\ pc' = "fread"
          /\ call' = [NoCall EXCEPT !.file = call.file,
                                    !.inumber = call.inumber,
                                    !.offset = call.offset + call.written]
  /\ UNCHANGED <<mounted, maxInodes, astray>>

\* slip: do_copyin does not advance its offset
SaveSameOffset(inode) ==
  /\ disk' = inode_save(disk, call.inumber,
       [inode EXCEPT !.size = call.written + call.offset])
  /\ IF call.toWrite > 0
     THEN Return
     ELSE /\ pc' = "fread"
          /\ call' = [NoCall EXCEPT !.file = call.file,
                                    !.inumber = call.inumber,
                                    !.offset = call.offset]
  /\ UNCHANGED <<mounted, maxInodes, astray>>

\* fs_write after its loop, and do_copyin's test of what it returned
SaveAndReturn(inode) ==
  /\ disk' = inode_save(disk, call.inumber,
       [inode EXCEPT !.size = call.written + call.offset])
  /\ IF call.toWrite > 0
     THEN Return
     ELSE /\ pc' = "fread"
          /\ call' = [NoCall EXCEPT !.file = call.file,
                                    !.inumber = call.inumber,
                                    !.offset = call.offset + call.written]
  /\ UNCHANGED <<mounted, maxInodes, astray>>

WriteEnd ==
  /\ pc = "alloc"
  /\ call.toWrite = 0 \/ Free = {}
  /\ SaveAndReturn(call.inode)
  /\ UNCHANGED freeBlockBitmap

\* a block for the indirect pointers is found and none for the data
IndirectLeaked ==
  /\ pc = "alloc"
  /\ call.toWrite > 0
  /\ call.curBlock = POINTERS_PER_INODE
  /\ \E i \in Free :
       /\ Free = {i}
       /\ freeBlockBitmap' = freeBlockBitmap \cup {i}
       /\ SaveAndReturn([call.inode EXCEPT !.indirect = i])

-----------------------------------------------------------------------------
\* quit, or the end of the process between any two block writes; the next
\* process opens the same image
Restart ==
  /\ mounted' = FALSE
  /\ freeBlockBitmap' = {}
  /\ maxInodes' = 0
  /\ astray' = FALSE
  /\ Return
  /\ UNCHANGED disk

FormatStep == FormatSuper \/ FormatInodeBlock
InodeStep ==
  \/ \E n \in InodeNumbers \cup {1} : Create(n)
  \/ \E n \in Inumbers : Delete(n) \/ DeleteTorn(n)
WriteStep ==
  \/ WriteBegin \/ AllocDirect \/ AllocIndirect \/ AllocPointer
  \/ StoreData \/ WriteEnd \/ IndirectLeaked
CopyinStep ==
  \/ \E f \in HostFiles, n \in Inumbers : Copyin(f, n)
  \/ CopyinEnd
  \/ WriteStep

Next ==
  FormatStep \/ Mount \/ MountAstray \/ InodeStep \/ CopyinStep \/ Restart

\* a command that was started is not left off half way for ever
CommandStep == FormatInodeBlock \/ CopyinEnd \/ WriteStep

Spec == Init /\ [][Next]_vars /\ WF_vars(CommandStep)

-----------------------------------------------------------------------------
(***************************************************************************)
(* Properties                                                              *)
(***************************************************************************)
Words == Blocks \cup {Lost}
Strings == UNION {[0 .. n - 1 -> 0 .. 255] : n \in 1 .. BLOCK_SIZE}

InodeType ==
  [isvalid : {0, 1}, size : 0 .. MaxSize,
   direct : [DirectSlots -> Blocks], indirect : Blocks]

BlockType ==
  [kind : {"zero"}]
  \cup [kind : {"data"}, bytes : Strings]
  \cup [kind : {"pointers"}, pointers : [PointerSlots -> Words]]
  \cup [kind : {"inodes"}, inode : [InodeSlots -> InodeType]]
  \cup {Super(DiskBlocks, InodeBlockCount, INODES_PER_BLOCK * InodeBlockCount)}

CallType ==
  [inumber : Inumbers \cup {0}, file : HostFiles, offset : 0 .. MaxSize,
   inode : InodeType, curBlock : Nat, toWrite : 0 .. COPY_BUFFER,
   written : 0 .. COPY_BUFFER, target : Blocks]

\* Every block holds one of the layouts of union fs_block, every block number
\* in an inode is one the disk has, and a command's locals keep their ranges.
TypeOK ==
  /\ disk \in [Blocks -> BlockType]
  /\ mounted \in BOOLEAN
  /\ freeBlockBitmap \subseteq Blocks
  /\ maxInodes \in {0, INODES_PER_BLOCK * InodeBlockCount}
  /\ astray \in BOOLEAN
  /\ pc \in {"idle", "format", "fread", "alloc", "store"}
  /\ call \in CallType

\* No block belongs to two files, and none of the superblock and the inode
\* blocks belongs to a file: at no point, between any two block writes of a
\* copyin included, and across ends of the process and remounts.  It is about
\* block numbers that fs_write has stored; where bytes of a file have come to
\* stand for them (Lost) that file may name any block, and what fs_write does
\* after a mount that believed them (MountAstray) is not followed.
NoCrossLink ==
  \A n \in ValidInodes(disk) :
    /\ UsedBlocks(disk, n) \cap Metadata = {}
    /\ \A m \in ValidInodes(disk) \ {n} :
         UsedBlocks(disk, n) \cap UsedBlocks(disk, m) = {}

\* the inode fs_write has released and not yet saved
BeingWritten == IF pc \in {"alloc", "store"} THEN {call.inumber} ELSE {}

\* While mounted, the bitmap marks the metadata and every block of every file
\* (but the one being rewritten), so that fs_write cannot hand them out again:
\* unless the mount took bytes of a file for block numbers, after which a
\* delete clears the entries those numbers name.
FilesMarked ==
  mounted /\ ~astray =>
    /\ Metadata \subseteq freeBlockBitmap
    /\ \A n \in ValidInodes(disk) \ BeingWritten :
         UsedBlocks(disk, n) \subseteq freeBlockBitmap

\* Once a disk is mounted, and no bytes of a file were taken for block numbers
\* on the way, no inode of it can make fs_delete or fs_write take the early
\* return of an invalid block number, which would leave the inode in place with
\* a part of its blocks given away, and what they give away is the file's own.
ReleaseIsWhole ==
  mounted /\ ~astray =>
    \A n \in ValidInodes(disk) \ BeingWritten :
      /\ RefsInRange(disk, inode_load(disk, n))
      /\ Released(disk, inode_load(disk, n)) =
           FileRefs(disk, inode_load(disk, n))

-----------------------------------------------------------------------------
(***************************************************************************)
(* The inductive invariant behind the four above.                          *)
(***************************************************************************)
\* the bytes of the host file are consumed buffer by buffer and block by block
CopyProgress ==
  /\ pc = "fread" =>
       /\ call.offset <= HostSize[call.file]
       /\ FreadResult > 0 => call.offset % BLOCK_SIZE = 0
  /\ pc \in {"alloc", "store"} =>
       /\ call.offset <= HostSize[call.file]
       /\ call.offset % BLOCK_SIZE = 0
       /\ call.written + call.toWrite = FreadResult
       /\ call.offset + call.written <= call.curBlock * BLOCK_SIZE
       /\ call.toWrite > 0 =>
            call.curBlock * BLOCK_SIZE = call.offset + call.written
  /\ pc = "store" => /\ call.toWrite > 0
                     /\ call.curBlock >= POINTERS_PER_INODE

\* the turns whose blocks the inode in memory already holds
HeldTurns == 0 .. call.curBlock - (IF pc = "store" THEN 0 ELSE 1)
HeldBlocks == UNION {TurnRefs(disk, call.inode, k) : k \in HeldTurns}

\* what fs_write holds in memory belongs to no other file, and is marked
WriteHolds ==
  pc \in {"alloc", "store"} =>
    /\ mounted
    /\ call.inumber \in ValidInodes(disk)
    /\ call.inode.isvalid = 1
    /\ HeldBlocks \subseteq freeBlockBitmap \ Metadata
    /\ \A m \in ValidInodes(disk) \ {call.inumber} :
         HeldBlocks \cap UsedBlocks(disk, m) = {}
    /\ pc = "store" => /\ call.target \in HeldBlocks
                       /\ call.target # call.inode.indirect

\* between two buffers the inode on disk holds what was copied so far
CopyResumes ==
  pc = "fread" /\ call.offset > 0 =>
    /\ mounted
    /\ call.inumber \in ValidInodes(disk)
    /\ inode_load(disk, call.inumber).size = call.offset

MountedDisk ==
  /\ mounted => /\ disk[0].kind = "super"
                /\ maxInodes = INODES_PER_BLOCK * InodeBlockCount
  /\ pc = "format" => ~mounted /\ call.target \in InodeBlocks
  /\ astray => mounted /\ pc = "idle"

\* The blocks fs_write has taken and not yet saved in an inode are the weak
\* spot of NoCrossLink: they are protected by the bitmap alone.
Safe ==
  /\ TypeOK
  /\ NoCrossLink
  /\ FilesMarked
  /\ ReleaseIsWhole
  /\ CopyProgress
  /\ WriteHolds
  /\ CopyResumes
  /\ MountedDisk

\* what the k-th block of a copy holds
Chunk(f, k) ==
  strncpy(HostPart(f, k * BLOCK_SIZE, Covered(HostSize[f], k)))

\* the saved inode stands where the buffers before this one ended, and the one
\* in memory leads to the same blocks
EarlierBuffers ==
  LET saved == inode_load(disk, call.inumber) IN
  /\ saved.size = call.offset
  /\ \A k \in Turns(call.offset) :
       IF k < POINTERS_PER_INODE
       THEN saved.direct[k] = call.inode.direct[k]
       ELSE saved.indirect = call.inode.indirect

\* The copy that fs_write has made so far is in place, turn by turn: what it
\* writes next is none of the blocks it has filled, and the saved inode leads
\* to the blocks of the buffers before this one, between two buffers and while
\* a later one is written.
CopiedSoFar ==
  /\ pc \in {"alloc", "store"} =>
       \A k \in 0 .. call.curBlock - 1 :
         disk[DataBlock(disk, call.inode, k)] = Data(Chunk(call.file, k))
  /\ pc = "store" =>
       /\ DataBlock(disk, call.inode, call.curBlock) = call.target
       /\ \A k \in 0 .. call.curBlock - 1 :
            DataBlock(disk, call.inode, k) # call.target
  /\ pc \in {"alloc", "store"} /\ call.offset > 0 =>
       EarlierBuffers
  /\ pc = "fread" /\ call.offset > 0 =>
       \A k \in Turns(call.offset) :
         disk[DataBlock(disk, inode_load(disk, call.inumber), k)] =
           Data(Chunk(call.file, k))

\* the contents of a file as its user sees them
FileOf(dsk, n) ==
  [size |-> inode_load(dsk, n).size,
   blocks |-> Contents(dsk, inode_load(dsk, n))]

\* and those made of the first bytes of a host file: its own bytes in each
\* block up to the first NUL there, and zeros from that NUL to the block's end
Kept(f, k, n) ==
  [i \in 0 .. n - 1 |->
     IF \A j \in 0 .. i : HostBytes[f][k * BLOCK_SIZE + j] # 0
     THEN HostBytes[f][k * BLOCK_SIZE + i] ELSE 0]
Prefix(f, bytes) ==
  [size |-> bytes,
   blocks |-> [k \in Turns(bytes) |-> Data(Kept(f, k, Covered(bytes, k)))]]

\* Whenever fs_write returns, after the first or a later buffer and for a disk
\* that filled up as well, the file has the size it counts and reads back as
\* the host file does, up to the first NUL of each block: a text comes back
\* whole, and of other files the bytes behind a NUL are lost (fs.c:473, :584,
\* :616 and :637 copy with strncpy).  A process that ends in the middle of a
\* later buffer leaves the file as the buffers before it made it: only the
\* first one, which reuses the blocks of the file it replaces, can tear it.
WriteReadsBack ==
  [][/\ pc = "alloc" /\ pc' \in {"idle", "fread"} /\ mounted' =>
          /\ call.inumber \in ValidInodes(disk')
          /\ FileOf(disk', call.inumber) =
               Prefix(call.file, call.offset + call.written)
     /\ pc \in {"alloc", "store"} /\ call.offset > 0 /\ ~mounted' =>
          /\ call.inumber \in ValidInodes(disk')
          /\ FileOf(disk', call.inumber) = Prefix(call.file, call.offset)]_vars

NoFile == [size |-> -1, blocks |-> [k \in {} |-> Zero]]
NoWrite == [number |-> 0, file |-> NoCall.file]
Files ==
  [n \in InodeNumbers |->
     IF n \in ValidInodes(disk) THEN FileOf(disk, n) ELSE NoFile]
WriteInProgress ==
  IF BeingWritten = {} THEN NoWrite
  ELSE [number |-> call.inumber, file |-> call.file]

Promise ==
  INSTANCE FileStore
  WITH Numbers <- InodeNumbers, Prefix <- Prefix, Absent <- NoFile,
       files <- Files, online <- mounted, writing <- WriteInProgress

\* Seen through what fs_read returns, the file system is a store of files in
\* which a command changes the file it names and no other, an interrupted
\* copyin spoils only its own file, and only format erases.
ImplementsFileStore == Promise!Store

\* Every command that was started ends, unless its process does first: the
\* allocation loop and do_copyin's loop both make progress.
CommandEnds == pc # "idle" ~> pc = "idle"

\* The comment at fs.c:498: a write from offset 0 frees everything the inode
\* held, so that afterwards only metadata and other files are marked.
FreesEverything ==
  [][WriteBegin /\ call.offset = 0 =>
       freeBlockBitmap' \subseteq Metadata \cup
         UNION {UsedBlocks(disk, n) : n \in ValidInodes(disk) \ {call.inumber}}]_vars
=============================================================================
