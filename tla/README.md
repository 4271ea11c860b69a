# Verification of MWade-Operating-Systems

The repository holds the programs of an operating systems course.  They are
independent of each other; each is a component below.  This project models all
but an earlier stage of one of them in TLA+, checks them with TLC, and proves
the invariants of ten models with TLAPS for every value of their constants.

## Inventory

| Program | State it keeps | Operations | What is hard |
|---|---|---|---|
| **SimpleFS** (`Project06/code`: `fs.c`, `disk.c`, `shell.c`) | on disk: superblock, inode blocks, indirect and data blocks; in memory: `mounted`, `freeBlockBitmap`, `maxInodes`, the command in progress | format, mount, create, delete, copyin (a loop of `fs_write`), copyout/cat (`fs_read`), getsize, debug, quit | one command is many block writes and the process may end between any two; the bitmap is rebuilt from disk; the disk fills up; indirect blocks keep old bytes |
| **redextract** (`Project04/Code`: `main.c`, `pcap-read.c`, `pcap-process.c`, `packet.c`) | list of files, `filesRead`, `KeepGoing`, a stack of packets, four packet tables, statistics | producers read files and push packets; consumers pop and process them; main joins them and tallies | two condition variables, a flag outside the mutex of the condition, tables shared by consumers; captures of the other byte order, cut off, or with packets the buffer cannot hold |
| **pcm4** (`Milestone04/main.c`, `byteblock.c`) | a stack of blocks, `KeepGoing`, `CountDone`, `CountFound` | producers make a fixed number of blocks; consumers search them | termination by a counter and a flag that is read without a lock |
| **ndshell** (`Project02/ndshell.c`) | `children[]`, `nChild` | start, wait, waitfor, run, kill, bound, quit, exit; handlers of SIGINT and SIGCHLD | handlers run between any two steps of a command and change the same table |
| **fractal** (`Project03`) | an image, an array of tasks, `nextTask` | bands or tasks drawn by threads | covering every pixel once; integer division |
| **chime** (`Milestone03/chime.c`) | five thread slots, `g_bKeepLooping` | chime, quit | intervals changed while threads sleep, joining sleepers |
| **bitflip** (`Project01`), **bytecheck** (`Milestone01`) | files | copy with flipped or reversed bytes; count a byte | `EOF` in a `char`, a loop bound |
| **Milestone06** (not modelled) | as SimpleFS | stubs of Project06 | nothing beyond SimpleFS |

How parts interact: `shell.c` calls `fs_*`, which call `disk_*`, all in one
thread; the only shared thing is the image file, which survives the process.
In redextract and pcm4 all threads share the stack and the flags through
mutexes and condition variables; the two programs have the same shape, and the
same abstract specification (`Handoff`).  Within redextract the reader of a file
and the packet tables are models of their own, and `Redextract` has one step for
each packet they hand over.  ndshell shares its table with its own signal
handlers, and the system's table of processes with its children.  The threads of
fractal share a bitmap of which each writes another part, those of chime a flag
and their intervals.

What makes each component correct: for SimpleFS, that no block has two owners,
that a file reads back as it was written, that a command changes one file and
a crash spoils at most the one being written.  For redextract and pcm4, that
each item is handled once, that nobody leaves or sleeps while there is work,
that totals come last, and that the program ends; for the reader, that it hands
over the packets of the file, and for the tables, that what they count is what
was repeated.  For ndshell, that every child it has not waited for is in the
table, and that quit leaves none behind.  For fractal, that every pixel is drawn
by one thread and the picture is saved whole; for chime, that quit stops every
chime and returns; for bitflip and bytecheck, that the result is what a
definition on whole files says.

## Modules

| Module | Kind | Source |
|---|---|---|
| `SimpleFS` | model | `fs.c`, `disk.c`, the command loop and `do_copyin` of `shell.c` |
| `FileStore` | abstract specification | what SimpleFS promises its user |
| `MCSimpleFS`, `MCSimpleFSSession` | instances for TLC | |
| `SimpleFSProofs` | proofs | |
| `Redextract` | model | `main.c`, `readPcapFile` of `pcap-read.c`, the call of `processPacket` |
| `PacketTable`, `MCPacketTable` | model, instances | `pcap-process.c`: the tables behind `processPacket`, and their tally |
| `PcapRead` | model | `readPcapFile` of `pcap-read.c` byte by byte, `packet.c`, `endianfixl` of `packet.h` |
| `Pcm4` | model | `Milestone04/main.c` |
| `Handoff` | abstract specification | what redextract and pcm4 promise |
| `MCRedextract` | instances for TLC | |
| `RedextractProofs`, `PacketTableProofs`, `Pcm4Proofs` | proofs | |
| `Ndshell` | model | `Project02/ndshell.c` |
| `Fractal` | model | `Project03/fractal.c`, and of `bitmap.c` what it calls |
| `Chime` | model | `Milestone03/chime.c` |
| `Bitflip` | model | `Project01/bitflip.c` |
| `Bytecheck` | model | `Milestone01/bytecheck.c` |
| `Programs` | composition | the last four and `PcapRead` in one state space; the initial state chooses the one that runs |
| `MCPrograms` | instance for TLC | |
| `NdshellProofs`, `FractalProofs`, `ChimeProofs`, `ProgramsProofs` | proofs | |

Operators marked `slip` in a model are plausible mistakes in the definition
after them (a missing signal, an unset bitmap entry).  They are part of no
specification; putting one in the place of its neighbour must break a property,
which shows that the property depends on that line of the code.  The pairs are
listed in `PROJECT.json`.

### SimpleFS

`disk` maps block numbers to contents; a block is all zeros, data (the bytes
`fs_write` put there), pointers, inodes or the superblock.  A block can be
read as another member of `union fs_block` than was written.  Data read as
pointers gives words of which nothing is known: they are `Lost` (`PointersOf`),
which stands for any `int32`, negative or below `nblocks` as well as above it.
Zeros read as pointers name block 0; nothing but inodes is read as inodes.
Host files hold any bytes; `strncpy` copies them, up to the first NUL and with
NULs behind it, on the way in and on the way out.  `freeBlockBitmap` is the set of blocks
whose entry is 1.  `pc` and `call` hold the command in progress: `format`
between two inode blocks, `fread` at the top of `do_copyin`'s loop, `alloc` at
the top of the allocation loop of `fs_write`, `store` between the write of the
indirect block and the write of the data block.

| Action | Code |
|---|---|
| `FormatSuper`, `FormatInodeBlock` | `fs_format`: one step for each `disk_write` |
| `Mount` | `fs_mount` that succeeds with block numbers that `fs_write` stored; `Mountable` is the conjunction of its tests |
| `MountAstray` | `fs_mount` that finds bytes of a file where an indirect block was, and lets them pass: it marks any blocks besides those it must (`astray`) |
| `Create`, `Delete` | `fs_create`, `fs_delete`, each with one `disk_write`; `Released` is what the release loop clears before an early return |
| `DeleteTorn` | `fs_delete` of an inode whose bytes passed for block numbers: it clears the entries of any blocks |
| `Copyin`, `CopyinEnd` | `do_copyin`: start; end of the file or a refused `fs_write` |
| `WriteBegin` | `fs_write` up to its loop, the release at offset 0 included |
| `AllocDirect`, `AllocIndirect`, `AllocPointer`, `StoreData` | the three branches of the allocation loop; those through the indirect block write two blocks and are two steps |
| `WriteEnd`, `IndirectLeaked` | the end of the loop, `inode_save`, and `do_copyin`'s test of the result |
| `Restart` | quit, or the end of the process between any two block writes |

Assumed: a `pwrite` of a block is atomic and reads and writes do not fail (the
code aborts when they do); every process opens the image with the same number
of blocks; no host file is longer than an inode can reach.
Beyond that length `fs_write` writes past `pointers[1024]`, which is undefined.
Once a mount went astray no copyin of that process is followed: `fs_write` may
then be handed block 0 or any block of any file, and every property ends there.
Deletes, creates, reads, the end of that process and the mounts after it are.
Images of other implementations are not in reach of `Init`; a fresh image and
everything this program makes of it is.  The branch of `fs_write` for an offset
inside a block is unreachable from `do_copyin`, whose buffer is four blocks
(`CopyProgress` says so and is proved).  `fs_debug`, `fs_getsize`, `fs_read`
and `do_copyout` change nothing; the latter three are `FileOf`, the contents a
user sees.

### Redextract and Pcm4

A thread's `pc` names the place where it stands.  A step reaches from one point
where another thread can interfere to the next one.  A thread in
`pthread_cond_wait` has the condition's name as `pc`; `Signalled` gives the
threads one signal can wake (any one that waits), a broadcast wakes all, and
`SpuriousWakeup` wakes one for no reason, as POSIX allows.  A woken thread has
to get the mutex back before it goes on.  The statement that matters is split
from its neighbours: in `Redextract`, `SeeKeepGoing` and `WaitNotEmpty` are the
two sides of the gap into which `Announce`, which does not hold `StackLock`,
can fall; in `Pcm4`, `SeeEmpty` and `WaitNotEmpty`, with `AllDone` and
`Announce` as the two halves of the consumer that ends the program.

In `Redextract`, `PacketCount` says how many packets `readPcapFile` pushes from
each file (one more than the file holds, because `feof` turns true only after a
read past the end; none for a file that is refused).  In `Pcm4` the reads of
`KeepGoing` without a lock are steps of their own; the flag is one byte and is
written once, so that a read returns its old or its new value.

### PacketTable

`Redextract` calls `processPacket` in one step, `ProcessPacket`; this module is
what happens in that step, from the packets all popped in some order (`waiting`)
to the tally, which `Redextract` shows to come last (`TallyAfterAll`).

A consumer in `processPacket` has its local variables in `visit`: the packet,
the table chosen by `hash`, the copies of the table's mutex and of
`NextToReplace`, and `j`.  The mutex is copied by value and the copy is locked,
so `LockCopy` waits for nobody; only a mutex that is held when it is copied
blocks, as all four are when `initializeProcessing` fails half-way and `main`
ignores it (`Init` has both cases).

| Action | Code |
|---|---|
| `Ignore`, `ChooseTable` | the section under `SeenLock`, then the packet that is not worth a look, or the `switch` |
| `Look`, `Mismatch`, `Match`, `Hit` | a turn of the loop over the table; `Match` loads the counters that `Hit` stores |
| `Fill`, `ZeroCounters` | an empty entry |
| `NoMatch`, `SaveEntry`, `DiscardEntry`, `ClearEntry`, `Replace` | the table is full: `resetAndSaveEntry` and what follows it |
| `Crash` | NULL or freed memory is used |
| `StartTally`, `TallySlot` | `tallyProcessing` |

The Makefile compiles without optimisation, so each statement on an entry loads
and stores it anew; a step is one of them.  A comparison lasts from `Look` to
`Mismatch` or `Match`; if the entry was freed or replaced meanwhile
(`Disturbed`) it may say anything or crash.  Of a packet only the place where
its headers end and the bytes are kept, in a few cells; how that place is found
is an attribute of the packet.  `Outcomes` compares as the code does, at the new
packet's offset in both packets, and leaves bytes beyond those captured open.
The 32-bit counters do not overflow in the model.

### PcapRead

A capture is a sequence of records in the byte order of this machine
(`native`) or of another one (`swapped`), without some of its last bytes
(`lost`); `file` is the bytes it comes to.  `position` and `feof` are those of
the stream, behind the front matter, of which only the magic number and the end
count.  `Redextract` knows of a file only how many packets it pushes:
`PacketCount` there is `Len(pushed)` here.

| Action | Code |
|---|---|
| `RefuseFile`, `ParseStart` | `readPcapFile` up to its loop, with `parsePcapFileStart` |
| `EndOfFile`, `OutOfMemory` | the loop's end; `allocatePacket`, whose result is used without a test |
| `ReadNextPacket`, `SkipPayload` | `readNextPacket` with a packet that fits in the buffer, and with one that does not: it is freed, and then asked for the length to skip |
| `Push` | the callback |

`LengthIncluded` is read from the bytes that are there; `endianfixl` keeps the
highest byte of the word that was read and drops the others.  `feof` turns true
only after a read past the end, and `fseek` makes it false again.  The header of
a freed packet is read intact, which is what the allocator of the build leaves
of it.  `MaxPackets`, which is 0 in every call, limits nothing.

### Ndshell

`process` is the system's table: a number is free, running, killed but not dead
yet, or a zombie, and is handed out again when it has been waited for.  `frame`
has the place and the local variables of `main` and of the handler of each
signal; `handlers` says which of them have begun, innermost last.  A step loads
or stores `nChild` or an entry of `children` once, or is one system call, since
the handler can come between any two of them: `children[nChild] = rc; nChild++`
is `EnterChild`, `StoreChild`, `LoadCount`, `CountChild`.

| Action | Code |
|---|---|
| `Fork` | `startF`, `runF`, `boundF` up to the entry |
| `WaitCommand`, `WaitforCommand`, `KillCommand`, `QuitCommand`, `ExitCommand` | the other commands, with a number the user typed |
| `EnterChild`, `StoreChild`, `LoadCount`, `CountChild` | the entry of a child |
| `TimeLimitOver` | `sleep` of `boundF` |
| `KillGroup`, `KillFails`, `Kill` | `killF` with 0, with no such process, with a process |
| `WaitPid`, `WaitAny` | `waitforF`, `waitF` |
| `SomeChild`, `NoChild`, `LookUp`, `PickNewest` | `while` and `if (nChild > 0)` of `quitF` and `controlCHandler`, and `children[nChild - 1]` |
| `FindEntry`, `ClearEntry`, `DiscountChild`, `Return` | the rest of both |
| `OutOfTable` | an index outside `children` |
| `Deliver`, `ChildEnds`, `ControlC` | a handler starts; a child dies; the user presses ^C |

Signals are those of Linux.  A pending signal that is not blocked comes before
the next step of the code it interrupts, but a call that waits may return first.
There is no `SA_RESTART`, so a call that is interrupted returns, and the code
goes on as if it had been told what it waited for (`Resumptions`).  SIGCHLD stays
pending when `waitpid` has reaped the child it is about.  The handler of one
signal blocks that signal only.  `torn` is a history variable: a handler
found a child in the table while it interrupted code that was using the table.
Assumed: `fork` and `execvp` succeed (a program that cannot be executed leaves a
second shell behind the first).  `MaxPresses` bounds ^C; nothing else needs a
bound.

### Fractal

`settings` are the arguments as far as they decide who draws what.  `part` is
what a painter (main, or a thread) still has to draw; a step draws one row of
it, and `drawn` is the set of pixels that have been set.  `Band` and `Task` are
the code's divisions, the rounding of C included: `ceil` is applied to a
quotient that has already been rounded down, so that the last task of a row or a
column takes the rest.  Every failure the code can meet is an action: the mutex
(`MutexFails`), memory (`OutOfMemory`), a thread that cannot be created and is
joined all the same (`CreateFails`, `JoinMissing`), `-maxiter 0`
(`DivideByZero`), the file (`Save`).  Nothing looks at what `pthread_create` and
`pthread_join` return, so that a join of a thread that is not there crashes or
is passed over; then the picture is saved without its band, and `PictureWhole`
says exactly what such a picture lacks (`LeftOut`).  Left out: colours, sizes whose product
overflows an `int`, and what `atoi` makes of text.

### Chime, Bitflip, Bytecheck

`Chime` has a thread for each slot (`MAX_THREADS`, 5 in the code), with the interval kept as what `sleep` makes
of it: `soon`, or `never` for a negative one, which is accepted and taken for
more than a century.  `main` reads commands; at the end of the input it reads
the same line for ever (`spins`), and an empty line crashes it (`strcmp` of a
null pointer).  The join of a thread that could not be started crashes or is
passed over, as in fractal.  More than nine words in a line, which overflow an array, are left
out.

`Bitflip` runs again and again over a few names, one of them `temp.txt`, and
moves one byte in a step.  A `char` is signed, so the byte 0xFF reads as `EOF`.
`temp.txt` is emptied and removed whether or not it is the input or the output.
When it is the input, the stream that `main` has sought to the end of and back
still holds the bytes of the file, and `reverse`, whose seeks fail on the empty
file, reads on in them (`ahead`, `FromEnd`, `fgetc`).  That is what stdio does
with files that fit in its buffer, the only ones in the model.

`Bytecheck` reads one char more than the file has (the loop runs to `i <= s`);
what that char is, in an uninitialised buffer, is a nondeterministic choice.

## Runs

| Run | Instance | Shows |
|---|---|---|
| `simplefs_session` | 10 blocks of 2 bytes, one inode block of 2 inodes, 1 direct and 4 indirect pointers, host files of 2 and 9 bytes, a buffer of 4, at most 3 copyins and 2 ends of a mounted process | `TypeOK`, `NoCrossLink`, `FilesMarked`, `ReleaseIsWhole`, `WriteReadsBack`, `ImplementsFileStore`, `CommandEnds` |
| `simplefs_leak` | the same with the long file only | `FreesEverything` is violated |
| `redextract` | 2 files of 3 and 2 packets, 4 threads (2 and 2), a stack of 2, spurious wakeups | five invariants, `ImplementsHandoff`, `ProgramEnds` |
| `redextract_one_consumer` | the same files, 3 threads (2 and 1), a stack of 1 | `ProgramEnds` is violated |
| `pcm4` | 2 producers of 3 blocks, 2 consumers, a stack of 2, spurious wakeups | four invariants, `ImplementsHandoff`, `EndsOrSleeps` |
| `pcm4_two_consumers` | 2 producers of 2 blocks, 2 consumers, a stack of 1 | `ProgramEnds` is violated |
| `packettable` | 2 consumers, 2 slots, 6 packets: for table 0 a payload twice, its beginning, and a TCP packet; one ignored, one for table 1 | `TypeOK`, `NoGaps`, `ReportMade`, and unless two consumers met in a table `EveryPacketPlaced`, `HitsAccountedApart`, `NoDuplicateKept`, `HitsAreRepeats`, `ReportComplete` |
| `packettable_race` | 2 consumers, 3 packets of one payload | `HitsAccounted` is violated |
| `packettable_oldest` | 1 consumer, 4 payloads for one table | `EvictsOldest` is violated |
| `ndshell` | 2 process numbers, a table of 3, one ^C | `TypeOK`, `ChildrenListed`, `HarmlessUnlessTorn`, `KillAndQuitEnd` |
| `ndshell_quit` | the same with a table of 2 | `QuitCompletesAll` is violated |
| `programs` | fractal, chime, bitflip, bytecheck or the reading of one capture, with the constants below | `ProgramsTypeOK`; of fractal `PixelsApart`, `PictureWhole`; of chime `ChimeQuitIsGraceful`; of bitflip `BitflipCopies`; of bytecheck, for bytes below 0x80, `BytecheckCountIsClose`; of the reader `PacketsOfTheFile`; and `ProgramsEnd` |

Why the bounds are enough.  The 10 blocks of SimpleFS leave 8 for data: the
long file takes 6 (one direct, one indirect, four behind it), so that two of
them do not fit and every way of filling up happens, with direct, indirect and
data block as the one that is missing; the file takes three buffers, so the
allocation is continued in the middle of the indirect block; the last block is
partly filled.  The short file is a text; the long one has a NUL at the head of
one block and at the end of another.  Three copyins are enough to fill, overwrite, and write again
after a crash; two ends of the process allow one in the middle of a command
and one after its effects were written.  A disk that was torn is then mounted
astray or refused, read, and deleted from.

The thread models have more items than room on the stack, and in the passing
runs two threads of each kind, so that waiting on both conditions, waking the
wrong one and every order of the endings occur.  The packet tables have more
payloads than slots, so that evictions follow hits and overlap with them.

Two process numbers are enough for ndshell to hold a child that has been reaped
below one that runs, and to hand a number out again while the old entry is in
the table; entries of reaped children stay, so a table of three fills up with
them.  One ^C lets the handlers nest, since the other signal comes from the
children.

In `programs`, fractal has images of 0 to 5 pixels each way and tasks of 2 by 2:
smaller than a task, as large, a whole number of them and not; up to three bands
or threads, more than there are rows included, and one more than is allowed.
Chime has 3 slots.  A byte has 4 values, of which 3 plays 0xFF and 2 and 3 are
negative chars; bitflip's files have up to 3 of them, bytecheck's one more than
its buffer.  In the captures a word has 2 bytes and the buffer 5, so that a
length of 2 fits in one byte of the word, one of 5 does not, and 6 does not fit in
the buffer; captures hold up to two records and lose from none of their last
record's bytes to all but its first one.

`MaxCopyins`, `MaxRestarts` and `MaxPresses` are the only counters.
`CHECK_DEADLOCK FALSE` is set where the system may stop: a program that has
ended, crashed, or waits for a table that could not be allocated, and a session
that has used up its bounds.

Fairness.  `SimpleFS` has weak fairness of `CommandStep`: a command in progress
runs on, since it is the only thread and waits for nobody.  It is not required
that the user types anything, or that a process ends.  `FairSpec` of the thread
models has weak fairness of `MainStep` (in `PacketTable`, `tallyProcessing`) and
of each thread: a scheduler that lets every thread run that can.  Mutexes need
not be fair.  Spurious wakeups happen in `FairSpec` too, but only finitely often:
infinitely many of them could keep one thread from a mutex for ever.  In
`Ndshell` the shell runs on (`ShellStep`) and a process that was killed dies
(`KilledEnds`); neither the user nor any other child has to do anything.  In
`Fractal` and `Chime` main and each thread run on, and in chime a `sleep` that
is not negative ends; the user has to type nothing, and no chime is heard more
than the code asks for.  The reader is one thread that runs on.

### What the violations mean

* `FreesEverything` (`fs.c:498`): when the last free block is taken for the
  indirect pointers and none is left for data, the inode's size does not reach
  the indirect block, and no later release does either.  The block is lost until
  the next mount.
* `ProgramEnds` of redextract (`main.c:224`): with one consumer, which is what
  runs without `-threads` have, the last producer's broadcast can come between
  the consumer's look at `KeepGoing` and its wait.  With two consumers or more
  the broadcast of the consumer that stops first makes it good; that is
  `NoConsumerLeft`, which is proved.
* `ProgramEnds` of pcm4 (`Milestone04/main.c:243`, `:372`): a consumer that has
  passed the test of `CountDone` and waits after the broadcast is never told.
  That this is the only way not to end is `EndsOrSleeps` of the run `pcm4`.
* `HitsAccounted` with two consumers (`pcap-process.c:269`): nothing excludes
  consumers from one another, and two hits on one entry can count as one.  What
  survives is in `packettable`: the tables keep their shape, nobody is locked out
  by the return at line 326, which leaves only a copy locked, and as long as no
  two consumers meet in a table (the history variable `overlap`, which a mutex
  that was not copied would keep false) the statistics are right.
* `EvictsOldest` (`pcap-process.c:352`): the rotation is lost with the copy, and
  slot 0, often the youngest packet, is evicted each time.
* `QuitCompletesAll` (`ndshell.c:133`): the child that quit kills sends SIGCHLD,
  whose handler is `controlCHandler` (line 268; `childHandler` is installed by
  nobody).  The handler takes an entry off the table, quit takes one off as well,
  and the child below is neither killed nor waited for, although the shell says
  that "All child processes complete".

Others were met and have no run of their own:

* On a disk of fewer than ten blocks `fs_format` records no inodes (`fs.c:47`)
  and `fs_create` hands out inode 1 all the same, in a block that the bitmap
  calls free, against `fs.h:39`.
* After an end of the process in the middle of an overwriting copyin the disk can
  hold an inode whose indirect block was reused for data.  `fs_mount` compares
  the words it finds there with `nblocks` and with nothing else
  (`fs.c:264`-`284`): it refuses the disk for ever, or accepts it with the marks of
  blocks that belong to others or lie in front of the bitmap, and a delete then
  gives those away.  `NoCrossLink`, `FilesMarked` and `ReleaseIsWhole` say what
  they say of stored block numbers and of mounts that did not go astray.
* `strncpy` (`fs.c:473`, `:584`, `:616`, `:637`) loses what follows a NUL in a block,
  when the file is written and again when it is read.  `WriteReadsBack` says
  that this is all that is lost; `TextIsKept` is proved of it for texts.
* The tables read both payloads at the offset of the new packet
  (`pcap-process.c:306`), so that payloads behind headers of different lengths
  are compared shifted; `HitsAreRepeats` therefore speaks of equal lengths only.
* `endianfixl` (`packet.h:46`) keeps one byte of a word, so that captures from a
  machine of the other byte order are misread once a packet has 256 bytes;
  `PacketsOfTheFile` supposes that none has.
* `fs_debug` bounds its loop over inodes by a member of the union that it
  overwrites (`fs.c:106`, `:133`); it changes nothing, and is not modelled.
* bitflip flips up to the first byte 0xFF only, against "while there are bytes to
  pull from the infile flip them and write them to the outfile"
  (`bitflip.c:83`).  `CopyIsRight` claims the whole result of an input without
  that byte, and of another one no more than that its beginning was written.
* `-bfr` with `temp.txt` as its input copies what the stream still holds, flipped
  and not reversed, and removes its input; with `temp.txt` as its output it
  removes that.  `CopyIsRight` claims nothing of either.
* bytecheck never finds a byte from 0x80 on, against "number of times the byte is
  found" (`bytecheck.c:37`) and "increment count if the byte is found" (`:48`): it
  compares a signed `char` with a positive number.  Below 0x80 it may count one
  too many.  `CountIsClose` is about those bytes only, and claims no count of the
  others.
* `-task` saves an empty picture of an image smaller than a task (`TooSmall`), and
  a thread that is not created leaves its band out of a picture that is saved.

## Proofs

Each proof module proves `Spec => []Safe` for an inductive invariant `Safe`, and
from it the properties.

`SimpleFSProofs` proves `TypeOK`, `NoCrossLink`, `FilesMarked`,
`ReleaseIsWhole`, `WriteReadsBack` and `ImplementsFileStore`, for every number of blocks, block size, inode geometry and set
of host files that satisfies `GeometryAssumption` and `HostAssumption`, which of
the host files asks that an inode can reach their end, and nothing of their
bytes.  The mounts that go astray and the deletes after them are steps like the
others.
`NoCrossLink` alone is not inductive: the blocks `fs_write` has taken but not
saved belong to no inode on disk.  `Safe` adds `WriteHolds` (what the inode in
memory refers to is marked and belongs to no other file), `CopyProgress` (the
copy stands at a block boundary, and `curBlock` follows from what was written),
`CopyResumes` (between two buffers the inode on disk holds what was copied) and
`MountedDisk`.  The argument has one lemma per action; their core is that writing
a block changes the references of those files only that refer to it
(`FileRefsFrame`), and that `SaveAndReturn` turns held blocks into owned ones.
`WriteReadsBack` needs to know what the blocks hold, too: `CopiedSoFar`, which is
inductive with `Safe`, says that each block a copyin has filled holds its piece of
the host file, that the block written next is none of these, and that the inode
saved between two buffers leads to them, and goes on to do so while a later
buffer is written.  What is read back goes through `strncpy` twice, which is as
good as once, block by block (`TextIsKept`: for a text, as good as never).  The
refinement maps each inode to its size and the contents its pointers lead to;
that a step for one file leaves the contents of all others alone is
`NoCrossLink` at work.

`RedextractProofs` proves the invariants of the run `redextract` and
`ImplementsHandoff`, for every number of files, packets per file, threads and
stack size that `ArgumentsAssumption` allows.  `Safe` adds who holds each mutex
(`MutexHolders`), where each reader stands in its file (`FilesRead`), that
`KeepGoing` is the number of producers that have not announced their end
(`KeepGoingCounts`), and `LastLook`: beside a consumer that is about to sleep,
no other has stopped, and none sleeps if all producers are done.  The latter
makes `NoConsumerLeft` inductive.

`Pcm4Proofs` proves the invariants of the run `pcm4`, `CountAfterAll` (the
number main prints is final) and `ImplementsHandoff`, for every number of
threads and blocks and every stack size that its `ArgumentsAssumption` allows.  `Safe` adds who
holds each mutex, that the block in a thread's hands is in no other place
(`OwnBlocks`), and the count: `CountDone` and the consumers that are about to
count make the number of blocks searched (`Counting`, `Counted`).  So
`CountDone = CountExpected` means that the set of blocks searched has as many
elements as there are blocks, and is all of them; that is why the program stops
when it may.

`PacketTableProofs` proves `TypeOK`, `NoGaps`, `HitsAreRepeats`,
`NoDuplicateKept`, `EveryPacketPlaced`, `HitsAccountedApart` and
`ReportComplete` for every set of consumers and packets
and every size of the tables.  A part of `Safe` holds whatever the consumers do
to each other (`Popped`, `TallyLast`, `FilledFromFront`); the rest holds
while no two have met in a table: they are in different tables (`Apart`), what
one compares is still there (`Undisturbed`), a packet is in one place
(`OnePlace`), and a consumer has passed only packets that differ from its own
(`Different`, `Repeated`).  Behind the last two is the lemma `Comparison`: the
comparison as the code makes it tells payloads apart exactly if the headers
have one length.  The last two properties compare sums over slots and packets.
Those are folds of the library, which are recursive functions over the subsets of
a finite set: that such a function exists, and that a sum splits over disjoint
sets and changes by one term when one slot does, is proved from the
well-foundedness of the subset ordering, once for all sums (`Total`).  `Accounted`
then says at each point of `processPacket` and of the tally what is counted
where: in the totals, or in a slot that has not been added to them yet
(`Unsaved`).  It is inductive beside `Safe`.

`FractalProofs` proves `TypeOK`, `PixelsApart` and `PictureWhole` for every image,
task size, number of threads and order of their steps.  The geometry is
proved first: cuts of a length are inside it, apart and cover it (`CutsInside`,
`CutsApart`, `CutsCover`), hence so do bands and tasks, and each number below
`nTasks` is one row and column (`TaskNumber`, `TaskOfNumber`).  `PictureWhole` is
not inductive: `Safe` adds that, while the picture is made, every pixel is drawn,
or left to a painter, or in a part that nobody has got, be it that its thread is
new or that it is missing (`NothingForgotten`), and that without threads no task is
drawn (`NobodyThere`); handing a part over (`HandApart`,
`HandForgetsNothing`) and drawing a row keep that, and when all threads have been
joined nothing is left to anybody (`NothingLeft`) but the bands of threads that
are missing.

`NdshellProofs` proves `TypeOK`, `ChildrenListed` and `HarmlessUnlessTorn` for
every set of process numbers, length of the table and number of ^C.  `Safe` has
two layers.  One holds whoever interrupts whom and bounds `nChild`: a context
that is going to count a child down has seen a positive count, so that `nChild`
is never more than two below the number of those contexts (`CountBelow`), and a
new entry stays inside the table until it is counted (`CountAbove`).  The other,
`Tidy`, holds until a handler runs into code that uses the table: what is
executed is then its only user (`OthersAtTest`, lemma `Alone`), so that the entry
that is made and the one that is taken off are the ones at `nChild`
(`EntryMade`, `EntryTaken`), no entry below is 0 (`EntriesSet`) and no child is
lost.  `QuietSafe` and `StepSafe` reduce a step of one context to what it must
show about its own entry.

`ChimeProofs` proves `QuitIsGraceful` for every number of slots: the flag says
whether quit was read (`FlagFollowsQuit`), a thread dings late only in the sleep
that quit found it in (`DingsBeforeTest`), and the slots below `joined` are dealt
with: their threads are done, or there was none (`JoinedSlots`).

`ProgramsProofs` proves `ProgramsTypeOK`, `ChimeQuitIsGraceful`,
`BytecheckCountIsClose`, `BitflipCopies` and `PacketsOfTheFile` of `ProgramsSpec`,
whose programs run one at a time: what fractal and chime do in it are behaviours of their own
modules, so their theorems carry over.  For bytecheck `Safe` says that `count` is
the number of the bytes compared so far that are the one looked for, if that is
below 0x80 (`Counted`),
and what the buffer holds of the file (`FileInBuffer`).  For bitflip it
says how far a copy has come in the reversing and in the flipping loop
(`Reversing`, `Flipping`) and, for `-bfr`, that `temp.txt` holds the reversed input
between the two, unless it was the input or the output, of which runs nothing is
claimed.  The results follow at the step that ends a run: the flipping loop has
stopped at the end of the file or at a byte 0xFF, and has written a prefix of the
flipped bytes (`FlippedIs`); the reversing loop has read the whole file
(`ReversedAll`).

For the reader of a capture, `Safe` (in `PcapRead`) says that between two records
it is at the start of one, with the packets of the earlier ones pushed, or at the
end of the file or behind it with nothing left to find (`Reading`), and what the
packet in hand is (`Holding`, `HoldingLast`).  A step keeps that because of what
is read there, which is worked out by induction up to a number over the library's
`FlattenSeq` and `FoldRight` and over `Weight`: where the bytes of a record are
in the file (`RecordInFile`), that the word of its length has that value
(`ValueOfLittleEndian`), in a capture of the other byte order after `endianfixl`
and below `BYTES` (`ValueOfBigEndian`), that zeros are read behind the end
(`NothingRead`), and so what is found next: a whole record or none (`ReadingIs`).
The types of the reader need less, that the value of a word is a number whatever
is missing, and hold of a misread capture too.

`ProgramsAssumption` asks for a byte with two values at least, files and captures
of such bytes, a file named `temp.txt`, and a buffer of bytecheck larger than its
limit; `LengthsFit` that the word of a record can hold its length.

Model-checked only: liveness, fairness being out of the prover's reach.  Every
invariant of a passing run is stated by a theorem.

## Not modelled

* `Milestone06`: the shell and the disk of Project06 over stubs.  Nothing in it
  changes state that Project06 does not.
* SimpleFS: what `fs_debug` lists; an image reopened with another number of
  blocks, which truncates or extends it before any command runs; a
  copyin in a process whose mount went astray; host files longer than an inode reaches, which write past
  `pointers[1024]` and are undefined; reads and writes that fail, which abort.
* redextract: more than 16 names in the list of files, which overflow an array
  (`main.c:103`); the front matter of a capture beyond its magic number and its
  end; overflow of the 32-bit counters.
* pcm4: the bytes of a block and their allocation; the variants without
  condition variables, which are compiled out.
* ndshell: programs that cannot be executed, a failing `fork`, the parsing of
  the commands.
* fractal: colours, overflow of sizes, the bytes of the file `bitmap.c` writes.
* Messages, timing and the reading of command lines everywhere, as far as they
  change no state named above.
