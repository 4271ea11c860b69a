----------------------------- MODULE MCSimpleFS -----------------------------
(***************************************************************************)
(* Small disks for SimpleFS: inode blocks of two inodes, one direct        *)
(* pointer and four indirect ones.  With one host file the state space is *)
(* finite as it is; MCSimpleFSSession bounds it for two.                   *)
(***************************************************************************)
EXTENDS SimpleFS, TLC

CONSTANTS short, long

\* one block; four and a half, beyond the direct pointers
BothFiles == {short, long}
BothSizes == (short :> 2) @@ (long :> 9)
LongFile == {long}
LongSize == long :> 9

\* a text, and a file with a NUL at the head of a block and one at the end
ShortBytes == (0 :> 8) @@ (1 :> 9)
LongBytes ==
  (0 :> 1) @@ (1 :> 2) @@ (2 :> 0) @@ (3 :> 3) @@ (4 :> 4) @@ (5 :> 5)
    @@ (6 :> 6) @@ (7 :> 0) @@ (8 :> 7)
BothBytes == (short :> ShortBytes) @@ (long :> LongBytes)
LongFileBytes == long :> LongBytes

\* one below and one above the inodes of a disk with one inode block
AnyInumber == 0 .. INODES_PER_BLOCK + 1
=============================================================================
