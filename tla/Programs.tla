------------------------------ MODULE Programs ------------------------------
(***************************************************************************)
(* The programs of the repository that share nothing with another one, and *)
(* the reading of one file by redextract, in one state space: the initial  *)
(* state chooses the one that runs.                                        *)
(***************************************************************************)
EXTENDS Fractal, Sequences

CONSTANTS
  CHIMES,              \* MAX_THREADS of chime, 5
  BYTES,               \* how many values a byte has, 256
  Names, Contents,     \* the files of bitflip
  MaxSizes,
  LIMIT, BUFFER_SIZE,  \* of bytecheck, 25000 and 25100
  Checked,             \* what may be in its file
  WORD,                \* how many bytes a uint32_t has, 4
  DEFAULT_READ_BUFFER, \* of redextract, 2500
  Captures

ASSUME ProgramsAssumption ==
  /\ CHIMES \in Nat
  /\ BYTES \in Nat \ {0, 1}
  /\ "temp.txt" \in Names
  /\ Contents \subseteq Seq(0 .. BYTES - 1)
  /\ LIMIT \in Nat /\ BUFFER_SIZE \in Nat /\ LIMIT < BUFFER_SIZE
  /\ Checked \subseteq Seq(0 .. BYTES - 1)
  /\ WORD \in Nat \ {0} /\ DEFAULT_READ_BUFFER \in Nat
  /\ \A f \in Captures :
       /\ f.records \in Seq([seconds : Nat, useconds : Nat, wire : Nat, data : Seq(0 .. BYTES - 1)])
       /\ f.lost \in Nat

VARIABLES
  program,
  chimeMain, chimeJoined, lineRead, g_bKeepLooping, chimePc, fChimeInterval,
  asleep, lateDings,
  files, flipPc, mode, iFile, outName, fileSize, ahead, c, written, copy,
  file, byte, checkPc, buffer, s, i, count,
  capture, readPc, position, feof, EndianFlip, pPacket, pushed

chimeVars == <<chimeMain, chimeJoined, lineRead, g_bKeepLooping, chimePc,
               fChimeInterval, asleep, lateDings>>
flipVars == <<files, flipPc, mode, iFile, outName, fileSize, ahead, c, written, copy>>
checkVars == <<file, byte, checkPc, buffer, s, i, count>>
readVars == <<capture, readPc, position, feof, EndianFlip, pPacket, pushed>>

C == INSTANCE Chime WITH
       MAX_THREADS <- CHIMES,
       main <- chimeMain, joined <- chimeJoined, pc <- chimePc

B == INSTANCE Bitflip WITH pc <- flipPc

K == INSTANCE Bytecheck WITH Contents <- Checked, pc <- checkPc

R == INSTANCE PcapRead WITH pc <- readPc

\* the word of a record that holds its length can hold it
ASSUME LengthsFit ==
  \A f \in Captures :
    \A k \in DOMAIN f.records : Len(f.records[k].data) < R!Weight[WORD]

programVars == <<program, fractalVars, chimeVars, flipVars, checkVars, readVars>>

ProgramsInit ==
  /\ program \in {"fractal", "chime", "bitflip", "bytecheck", "readPcapFile"}
  /\ Init /\ C!Init /\ B!Init /\ K!Init /\ R!Init

FractalRuns ==
  program = "fractal" /\ UNCHANGED <<program, chimeVars, flipVars, checkVars, readVars>>
ChimeRuns ==
  program = "chime" /\ UNCHANGED <<program, fractalVars, flipVars, checkVars, readVars>>
BitflipRuns ==
  program = "bitflip" /\ UNCHANGED <<program, fractalVars, chimeVars, checkVars, readVars>>
BytecheckRuns ==
  program = "bytecheck" /\ UNCHANGED <<program, fractalVars, chimeVars, flipVars, readVars>>
ReaderRuns ==
  program = "readPcapFile" /\ UNCHANGED <<program, fractalVars, chimeVars, flipVars, checkVars>>

ProgramsNext ==
  \/ Next /\ FractalRuns
  \/ C!Next /\ ChimeRuns
  \/ B!Next /\ BitflipRuns
  \/ K!Next /\ BytecheckRuns
  \/ R!Next /\ ReaderRuns

ProgramsSpec == ProgramsInit /\ [][ProgramsNext]_programVars

\* the fairness of Fractal, of Chime and of PcapRead
ProgramsFairness ==
  /\ WF_programVars(MainStep /\ FractalRuns)
  /\ \A p \in Painters : WF_programVars(PainterStep(p) /\ FractalRuns)
  /\ WF_programVars(C!QuitStep /\ ChimeRuns)
  /\ \A t \in C!Slots : WF_programVars(C!ThreadStep(t) /\ ChimeRuns)
  /\ WF_programVars(R!Next /\ ReaderRuns)

-----------------------------------------------------------------------------
(* Each program keeps its types.                                           *)
ProgramsTypeOK == TypeOK /\ C!TypeOK /\ B!TypeOK /\ K!TypeOK /\ R!TypeOK

(* fractal ends, and so do the quit of chime and the reading of a file,    *)
(* when they are what runs.                                                *)
ProgramsEnd ==
  /\ program = "fractal" => Ends
  /\ C!QuitEnds
  /\ program = "readPcapFile" => R!Ends

(* The properties of chime, bitflip, bytecheck and readPcapFile, as their  *)
(* modules state them: a copy of bitflip is right and spares other files.  *)
ChimeQuitIsGraceful == C!QuitIsGraceful
BitflipCopies == B!CopyIsRight /\ B!FilesKept
BytecheckCountIsClose == K!CountIsClose
PacketsOfTheFile == R!PacketsOfTheFile
=============================================================================
