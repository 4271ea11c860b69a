------------------------------ MODULE PcapRead ------------------------------
(***************************************************************************)
(* readPcapFile of redextract (Project04/Code/pcap-read.c): what becomes   *)
(* of one capture, a file of records that each are a header of four words  *)
(* (seconds, microseconds, bytes captured, bytes on the wire) and the      *)
(* bytes.  Redextract, which calls it, knows of a file only how many       *)
(* packets it pushes; PacketCount there is Len(pushed) here.               *)
(*                                                                         *)
(* The machine is little-endian and a capture may come from one that is    *)
(* not.  Files may be cut off anywhere.  MaxPackets is 0 in every call.    *)
(***************************************************************************)
EXTENDS Integers, Sequences, FiniteSets, SequencesExt

CONSTANTS
  BYTES,               \* how many values a byte has, 256
  WORD,                \* how many bytes a uint32_t has, 4
  DEFAULT_READ_BUFFER, \* 2500
  Captures             \* what the files may be

VARIABLES
  capture,
  pc,
  position, feof,      \* of pTheFile, behind the front matter
  EndianFlip,
  pPacket,             \* the packet that has been read
  pushed

vars == <<capture, pc, position, feof, EndianFlip, pPacket, pushed>>

-----------------------------------------------------------------------------
(* How the machine that made the capture wrote it. *)

\* what a byte counts that k lower ones precede
Weight[k \in 0 .. WORD] == IF k = 0 THEN 1 ELSE BYTES * Weight[k - 1]

LittleEndian(n) == [k \in 1 .. WORD |-> (n \div Weight[k - 1]) % BYTES]
Word(n) ==
  IF capture.front = "swapped" THEN Reverse(LittleEndian(n)) ELSE LittleEndian(n)

HeaderSize == 4 * WORD
Record(r) ==
  Word(r.seconds) \o Word(r.useconds) \o Word(Len(r.data)) \o Word(r.wire) \o r.data

BytesOf(k) == FlattenSeq([n \in 1 .. k |-> Record(capture.records[n])])

\* the capture without the bytes that were lost at its end
file ==
  LET all == BytesOf(Len(capture.records))
  IN  SubSeq(all, 1, Len(all) - capture.lost)

-----------------------------------------------------------------------------
\* what was in memory where fread stores nothing: the zeros of allocatePacket
\* in the header, anything in the data
Stray == -1

NoPacket == [LengthIncluded |-> 0, Data |-> <<>>]

Init ==
  /\ capture \in Captures
  /\ pc = "open"
  /\ position = 0
  /\ feof = FALSE
  /\ EndianFlip = FALSE
  /\ pPacket = NoPacket
  /\ pushed = <<>>

\* fread of n bytes that lie ahead bytes behind the position
Bytes(ahead, n, old) ==
  [k \in 1 .. n |-> LET at == position + ahead + k
                    IN  IF at <= Len(file) THEN file[at] ELSE old]

ReadsPast(n) == position + n > Len(file)
After(n) == IF ReadsPast(n) /\ position <= Len(file) THEN Len(file)
            ELSE IF ReadsPast(n) THEN position ELSE position + n

Value(bytes) == FoldRight(LAMBDA b, n : b + BYTES * n, bytes, 0)

\* the highest byte becomes the lowest, the others are dropped
endianfixl(n) == n \div Weight[WORD - 1]

LengthIncluded ==
  LET read == Value(Bytes(2 * WORD, WORD, 0))
  IN  IF EndianFlip THEN endianfixl(read) ELSE read

-----------------------------------------------------------------------------
\* fopen fails, or the magic number is no pcap's; the number itself is
\* uninitialized if not even that is in the file
RefuseFile ==
  /\ pc = "open"
  /\ pc' = "refused"
  /\ UNCHANGED <<capture, position, feof, EndianFlip, pPacket, pushed>>

\* parsePcapFileStart; front matter that is cut off is not refused
ParseStart ==
  /\ pc = "open"
  /\ capture.front # "foreign"
  /\ EndianFlip' = (capture.front = "swapped")
  /\ feof' = (capture.front = "cut")
  /\ pc' = "loop"
  /\ UNCHANGED <<capture, position, pPacket, pushed>>

EndOfFile ==
  /\ pc = "loop"
  /\ feof
  /\ pc' = "done"
  /\ UNCHANGED <<capture, position, feof, EndianFlip, pPacket, pushed>>

\* readNextPacket uses what allocatePacket returns without a test
OutOfMemory ==
  /\ pc = "loop"
  /\ ~feof
  /\ pc' = "crashed"
  /\ UNCHANGED <<capture, position, feof, EndianFlip, pPacket, pushed>>

ReadNextPacket ==
  /\ pc = "loop"
  /\ ~feof
  /\ LengthIncluded <= DEFAULT_READ_BUFFER
  /\ pPacket' = [LengthIncluded |-> LengthIncluded,
                 Data |-> Bytes(HeaderSize, LengthIncluded, Stray)]
  /\ position' = After(HeaderSize + LengthIncluded)
  /\ feof' = ReadsPast(HeaderSize + LengthIncluded)
  /\ pc' = "push"
  /\ UNCHANGED <<capture, EndianFlip, pushed>>

\* slip: what does not fit is not skipped
LeavePayload ==
  /\ pc = "loop"
  /\ ~feof
  /\ LengthIncluded > DEFAULT_READ_BUFFER
  /\ position' = After(HeaderSize)
  /\ UNCHANGED <<capture, pc, feof, EndianFlip, pPacket, pushed>>

\* the packet has been freed when its length is read, which malloc's own use
\* of the memory has left alone; fseek clears feof and passes the end
SkipPayload ==
  /\ pc = "loop"
  /\ ~feof
  /\ LengthIncluded > DEFAULT_READ_BUFFER
  /\ position' = After(HeaderSize) + LengthIncluded
  /\ UNCHANGED <<capture, pc, feof, EndianFlip, pPacket, pushed>>

Push ==
  /\ pc = "push"
  /\ pushed' = Append(pushed, pPacket)
  /\ pc' = "loop"
  /\ UNCHANGED <<capture, position, feof, EndianFlip, pPacket>>

Next ==
  \/ RefuseFile \/ ParseStart \/ EndOfFile \/ OutOfMemory
  \/ ReadNextPacket \/ SkipPayload \/ Push

Spec == Init /\ [][Next]_vars
FairSpec == Spec /\ WF_vars(Next)

-----------------------------------------------------------------------------
TypeOK ==
  /\ capture \in Captures
  /\ pc \in {"open", "loop", "push", "done", "refused", "crashed"}
  /\ position \in Nat
  /\ feof \in BOOLEAN
  /\ EndianFlip \in BOOLEAN
  /\ \A q \in {pPacket} \cup Range(pushed) :
       /\ q.LengthIncluded \in 0 .. DEFAULT_READ_BUFFER
       /\ q.Data \in Seq((0 .. BYTES - 1) \cup {Stray})
       /\ Len(q.Data) = q.LengthIncluded

\* the records that are in the file with their last byte, but for those whose
\* packet the buffer cannot hold
Wanted ==
  {k \in DOMAIN capture.records :
     Len(BytesOf(k)) <= Len(file) /\ Len(capture.records[k].data) <= DEFAULT_READ_BUFFER}
Rank(k) == Cardinality(Wanted \cap 1 .. k)

PacketOf(k) ==
  [LengthIncluded |-> Len(capture.records[k].data), Data |-> capture.records[k].data]

\* lengths that endianfixl gets right
LengthsSurvive ==
  capture.front = "swapped" =>
    \A k \in DOMAIN capture.records : Len(capture.records[k].data) < BYTES

\* The packets of the first k records have been pushed, and no more.
Copied(k) ==
  /\ Len(pushed) = Rank(k)
  /\ \A j \in Wanted \cap 1 .. k : pushed[Rank(j)] = PacketOf(j)

Complete ==
  /\ Len(pushed) = Cardinality(Wanted) + 1
  /\ \A k \in Wanted : pushed[Rank(k)] = PacketOf(k)
  /\ capture.lost = 0 => pushed[Len(pushed)] = NoPacket

(* readPcapFile pushes the packets that are whole in the file, in their    *)
(* order, and one more: of a cut-off record what there is, of a whole file *)
(* an empty packet, because feof turns true only after a read past the     *)
(* end; none of a file that ends in its front matter.  A packet too large  *)
(* for the buffer costs no other.  That supposes a capture of this byte    *)
(* order, or one without packets of 256 bytes: endianfixl keeps one byte   *)
(* of a length, and what follows is then taken for headers.                *)
PacketsOfTheFile ==
  pc = "done" /\ LengthsSurvive =>
    IF capture.front = "cut" THEN pushed = <<>> ELSE Complete

\* Where the reader is between two records, and what it has in hand.
Reading ==
  \/ \E k \in 0 .. Len(capture.records) :
       position = Len(BytesOf(k)) /\ position <= Len(file) /\ Copied(k)
  \/ position >= Len(file) /\ Copied(Len(capture.records))
Holding ==
  \E k \in Wanted : position = Len(BytesOf(k)) /\ Copied(k - 1) /\ pPacket = PacketOf(k)
HoldingLast ==
  Copied(Len(capture.records)) /\ (capture.lost = 0 => pPacket = NoPacket)

Packet == [LengthIncluded : Nat, Data : Seq(Int)]

\* While no length is misread, the reader is at the start of a record, or
\* behind the end of the file with nothing left to find.
Safe ==
  /\ TypeOK
  /\ pPacket \in Packet /\ pushed \in Seq(Packet)
  /\ pc = "open" => pushed = <<>> /\ position = 0
  /\ pc \in {"loop", "push", "done"} => (EndianFlip <=> capture.front = "swapped")
  /\ pc \in {"loop", "push", "done"} /\ capture.front = "cut" =>
       feof /\ pushed = <<>> /\ pc # "push"
  /\ capture.front # "cut" /\ LengthsSurvive =>
       /\ pc = "loop" /\ ~feof => Reading
       /\ pc = "push" /\ ~feof => Holding
       /\ pc = "push" /\ feof => HoldingLast
       /\ pc = "done" \/ (pc = "loop" /\ feof) => Complete

(* A file is read to its end, however its lengths are misread.             *)
Ends == <>(pc \in {"done", "refused", "crashed"})

=============================================================================
