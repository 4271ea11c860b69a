------------------------------ MODULE Bitflip ------------------------------
(***************************************************************************)
(* bitflip (Project01/bitflip.c): copies a file with the bits of its bytes *)
(* flipped, with its bytes in reverse order (-r), or both (-bfr, by way of *)
(* temp.txt).  It is run again and again on a few names; a step moves one  *)
(* byte.                                                                   *)
(*                                                                         *)
(* A char is signed, as on the machine the program is built for, so that   *)
(* the byte 0xFF and EOF are one char.  Files fit in the buffers of stdio: *)
(* what is written reaches the disk when a stream is rewound or the        *)
(* program returns, and the input is read once, when main seeks its end.   *)
(***************************************************************************)
EXTENDS Integers, Sequences, SequencesExt

CONSTANTS
  BYTES,           \* how many values a byte has, 256
  Names,           \* the names of files, temp.txt among them
  Contents,        \* what is in the files before the first run
  MaxSizes         \* 25000, and what a user gives for -maxsize

Byte == 0 .. BYTES - 1
Char(b) == IF b < BYTES \div 2 THEN b ELSE b - BYTES
ToByte(ch) == ch % BYTES
EOF == -1

NoFile == <<EOF>>  \* in the place of a file that does not exist

VARIABLES
  files,           \* name -> bytes on disk
  pc,
  mode,            \* "bf", "r" or "bfr": the last option counts
  iFile, outName,
  fileSize,        \* measured when the input is opened
  ahead,           \* what the stream of the input holds from where it stands,
                   \* until reverse is done with it
  c,
  written,         \* by reverse; bitFlip counts on, and nothing reads it
  copy             \* what has been written to the file being made

vars == <<files, pc, mode, iFile, outName, fileSize, ahead, c, written, copy>>

args == <<mode, iFile, outName, fileSize>>

Init ==
  /\ files \in [Names -> Contents \cup {NoFile}]
  /\ pc = "shell"
  /\ mode = "bf"
  /\ iFile = "temp.txt"
  /\ outName = "temp.txt"
  /\ fileSize = 0
  /\ ahead = <<>>
  /\ c = 0
  /\ written = 0
  /\ copy = <<>>

\* fgetc into a char, at a position counted from 1
CharAt(s, k) == IF k \in 1 .. Len(s) THEN Char(s[k]) ELSE EOF

\* what a stream holds after fseek(stream, -k, SEEK_END), for the file as it is
\* on disk: a seek to before the file fails and leaves the stream where it is
FromEnd(file, k) ==
  IF k <= Len(file) THEN SubSeq(file, Len(file) - k + 1, Len(file)) ELSE ahead

\* fgetc from a stream that holds s
fgetc(s) ==
  /\ c' = CharAt(s, 1)
  /\ ahead' = IF s = <<>> THEN <<>> ELSE Tail(s)

\* nothing is left of a process that has ended
ProcessEnds ==
  /\ pc' = "shell"
  /\ ahead' = <<>>
  /\ c' = 0
  /\ written' = 0
  /\ copy' = <<>>
  /\ UNCHANGED args

-----------------------------------------------------------------------------
\* main up to the output file, for the arguments of one run.  With other
\* arguments, no input, a large input or an output that exists, it returns
\* and nothing has changed.  (The first read of bitFlip is here, and the seek
\* and first read of reverse; main has left the stream at the file's start.)
Open(m, i, o) ==
  /\ pc = "shell"
  /\ files[i] # NoFile
  /\ \E size \in MaxSizes : Len(files[i]) <= size
  /\ files[o] = NoFile
  /\ files' = [files EXCEPT ![o] = <<>>]
  /\ mode' = m /\ iFile' = i /\ outName' = o /\ fileSize' = Len(files[i])
  /\ pc' = IF m = "bf" THEN "flip" ELSE IF m = "bfr" THEN "temp" ELSE "reverse"
  /\ CASE m = "bf"  -> c' = CharAt(files[i], 1) /\ UNCHANGED ahead
       [] m = "r"   -> fgetc(FromEnd(files[i], 1))
       [] m = "bfr" -> ahead' = files[i] /\ UNCHANGED c
  /\ UNCHANGED <<written, copy>>

\* fopen(temp.txt, "w+") empties the file on disk; if it is the input, every
\* seek of reverse fails and it reads on in what its stream still holds
OpenTemp ==
  /\ pc = "temp"
  /\ files' = [files EXCEPT !["temp.txt"] = <<>>]
  /\ pc' = "reverse"
  /\ fgetc(FromEnd(files'[iFile], 1))
  /\ UNCHANGED <<args, written, copy>>

\* the output stays behind, empty
TempFails ==
  /\ pc = "temp"
  /\ UNCHANGED files
  /\ ProcessEnds

\* slip: the seek forgets that the last byte is one before the end
ReverseByteLate ==
  /\ pc = "reverse"
  /\ written # fileSize
  /\ copy' = Append(copy, ToByte(c))
  /\ written' = written + 1
  /\ fgetc(FromEnd(files[iFile], written'))
  /\ UNCHANGED <<files, pc, args>>

ReverseByte ==
  /\ pc = "reverse"
  /\ written # fileSize
  /\ copy' = Append(copy, ToByte(c))
  /\ written' = written + 1
  /\ fgetc(FromEnd(files[iFile], written' + 1))
  /\ UNCHANGED <<files, pc, args>>

ReverseEnd ==
  /\ pc = "reverse"
  /\ written = fileSize
  /\ mode = "r"
  /\ files' = [files EXCEPT ![outName] = copy]
  /\ ProcessEnds

Rewind ==
  /\ pc = "reverse"
  /\ written = fileSize
  /\ mode = "bfr"
  /\ files' = [files EXCEPT !["temp.txt"] = copy]
  /\ pc' = "flip"
  /\ c' = CharAt(copy, 1)
  /\ ahead' = <<>>
  /\ copy' = <<>>
  /\ UNCHANGED <<args, written>>

source == IF mode = "bfr" THEN "temp.txt" ELSE iFile

FlipByte ==
  /\ pc = "flip"
  /\ c # EOF
  /\ copy' = Append(copy, BYTES - 1 - ToByte(c))
  /\ c' = CharAt(files[source], Len(copy') + 1)
  /\ UNCHANGED <<files, pc, args, ahead, written>>

FlipEnd ==
  /\ pc = "flip"
  /\ c = EOF
  /\ LET made == [files EXCEPT ![outName] = copy]
     IN  files' = IF mode = "bfr" THEN [made EXCEPT !["temp.txt"] = NoFile] ELSE made
  /\ ProcessEnds

Next ==
  \/ \E m \in {"bf", "r", "bfr"}, i, o \in Names : Open(m, i, o)
  \/ OpenTemp \/ TempFails
  \/ ReverseByte \/ ReverseEnd \/ Rewind
  \/ FlipByte \/ FlipEnd

Spec == Init /\ [][Next]_vars

-----------------------------------------------------------------------------
TypeOK ==
  /\ \A n \in Names : files[n] = NoFile \/ files[n] \in Seq(Byte)
  /\ pc \in {"shell", "temp", "reverse", "flip"}
  /\ ahead \in Seq(Byte)
  /\ c \in Char(BYTES \div 2) .. BYTES \div 2 - 1
  /\ written \in 0 .. fileSize
  /\ copy \in Seq(Byte)

Flipped(s) == [k \in DOMAIN s |-> BYTES - 1 - s[k]]

\* what the options ask for (correctUsage)
Result(m, s) ==
  CASE m = "bf"  -> Flipped(s)
    [] m = "r"   -> Reverse(s)
    [] m = "bfr" -> Flipped(Reverse(s))

UsesTemp == mode = "bfr" /\ "temp.txt" \in {iFile, outName}

(* A run that has not failed leaves the flipped, the reversed or the       *)
(* flipped and reversed bytes of its input, "while there are bytes to pull *)
(* from the infile" (bitflip.c:83), if none of them is 0xFF: bitFlip takes *)
(* that one for the end, so that of other files all that holds is that     *)
(* what -bf and -bfr have written is the beginning of what they should     *)
(* write.  Nothing is claimed of -bfr when its input or output is temp.txt,*)
(* the file it works with and removes.                                     *)
CopyIsRight ==
  [][pc' = "shell" /\ pc \in {"reverse", "flip"} /\ ~UsesTemp =>
       LET wanted == Result(mode, files[iFile])
           made   == files'[outName]
       IN  IF mode = "r" \/ \A k \in DOMAIN files[iFile] : files[iFile][k] # BYTES - 1
           THEN made = wanted
           ELSE IsPrefix(made, wanted)]_vars

(* A file that exists keeps its contents through every run, the input's    *)
(* own name given for the output included; but for temp.txt.               *)
FilesKept ==
  [][\A n \in Names \ {"temp.txt"} :
       files[n] = NoFile \/ files'[n] = files[n] \/ (pc # "shell" /\ n = outName)]_vars

(***************************************************************************)
(* The inductive invariant behind them: how far a copy has come, and what  *)
(* temp.txt holds.                                                         *)
(***************************************************************************)
Reversing ==
  /\ mode \in {"r", "bfr"}
  /\ Len(copy) = written
  /\ ~UsesTemp =>
       /\ fileSize = Len(files[iFile])
       /\ written < fileSize => c = CharAt(files[iFile], fileSize - written)
       /\ \A k \in 1 .. written : copy[k] = files[iFile][fileSize - k + 1]

Flipping ==
  /\ mode \in {"bf", "bfr"}
  /\ files[source] # NoFile /\ Len(copy) <= Len(files[source])
  /\ c = CharAt(files[source], Len(copy) + 1)
  /\ \A k \in 1 .. Len(copy) :
       files[source][k] # BYTES - 1 /\ copy[k] = BYTES - 1 - files[source][k]
  /\ mode = "bfr" /\ ~UsesTemp => files["temp.txt"] = Reverse(files[iFile])

RunOK ==
  /\ mode \in {"bf", "r", "bfr"} /\ iFile \in Names /\ outName \in Names
  /\ fileSize \in Nat
  /\ pc # "shell" => iFile # outName /\ files[iFile] # NoFile
  /\ pc \in {"shell", "temp"} => copy = <<>> /\ written = 0
  /\ pc = "temp" => mode = "bfr" /\ fileSize = Len(files[iFile])

Safe ==
  /\ TypeOK
  /\ files \in [Names -> Seq(Byte) \cup {NoFile}]
  /\ RunOK
  /\ pc = "reverse" => Reversing
  /\ pc = "flip" => Flipping

=============================================================================
