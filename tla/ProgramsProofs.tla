--------------------------- MODULE ProgramsProofs ---------------------------
(***************************************************************************)
(* Proofs about the programs of Programs, each of which runs alone: a step *)
(* of another one leaves its variables as they are.  fractal and chime are *)
(* behaviours of their own modules, whose theorems are used; bytecheck,    *)
(* bitflip and the reading of a capture each have an inductive invariant.  *)
(* What the library's folds and the recursive functions of PcapRead make   *)
(* of a sequence is proved by induction up to a number.                    *)
(***************************************************************************)
EXTENDS Programs, FractalProofs, FiniteSetTheorems, SequenceTheorems, WellFoundedInduction,
        TLAPS

-----------------------------------------------------------------------------
(* chime *)

CP == INSTANCE ChimeProofs WITH
       MAX_THREADS <- CHIMES,
       main <- chimeMain, joined <- chimeJoined, pc <- chimePc

\* What chime does here is a behaviour of Chime.
LEMMA ChimeBehaves == ProgramsSpec => CP!Spec
<1>1. ProgramsInit => CP!Init
  BY Zenon DEF ProgramsInit, C!Init, CP!Init, C!Slots, CP!Slots
<1>2. [ProgramsNext]_programVars => [CP!Next]_CP!vars
  <2>1. C!Next => CP!Next
    BY Zenon
       DEF C!Next, C!Command, C!StartChime, C!ChangeInterval, C!DoNothing, C!EmptyLine,
           C!EndOfInput, C!Quit, C!QuitStep, C!JoinChime, C!JoinMissing, C!Exit,
           C!ThreadStep, C!LoopTest, C!CallSleep, C!Ding, C!Running, C!Slots,
           C!Intervals, C!slotVars, C!Goto,
           CP!Next, CP!Command, CP!StartChime, CP!ChangeInterval, CP!DoNothing, CP!EmptyLine,
           CP!EndOfInput, CP!Quit, CP!QuitStep, CP!JoinChime, CP!JoinMissing, CP!Exit,
           CP!ThreadStep, CP!LoopTest, CP!CallSleep, CP!Ding, CP!Running, CP!Slots,
           CP!Intervals, CP!slotVars, CP!Goto
  <2> QED
    BY <2>1 DEF ProgramsNext, programVars, chimeVars, CP!vars,
                FractalRuns, BitflipRuns, BytecheckRuns, ReaderRuns, ChimeRuns
<1> QED
  BY <1>1, <1>2, PTL DEF ProgramsSpec, CP!Spec

(* Quitting chime stops no thread while it sleeps or chimes, and joins     *)
(* every one of them: ChimeProofs shows it of Chime on its own.            *)
THEOREM SpecChimeQuitIsGraceful == ProgramsSpec => []ChimeQuitIsGraceful
<1>1. CP!QuitIsGraceful => ChimeQuitIsGraceful
  BY DEF CP!QuitIsGraceful, ChimeQuitIsGraceful, C!QuitIsGraceful, C!Slots, CP!Slots
<1>2. CP!Spec => []CP!QuitIsGraceful
  BY ProgramsAssumption, CP!SpecQuitIsGraceful
<1> QED
  BY <1>1, <1>2, ChimeBehaves, PTL

-----------------------------------------------------------------------------
(* bytecheck *)

\* A char is the byte it was made of, if that is below 0x80, and negative if not.
LEMMA CharIs ==
  ASSUME NEW b \in 0 .. BYTES - 1
  PROVE  /\ K!Char(b) \in Int /\ K!Char(b) < BYTES \div 2
         /\ \A n \in 0 .. BYTES : K!Char(b) = n <=> b = n /\ n < BYTES \div 2
<1>1. BYTES \in Nat \ {0} /\ BYTES \div 2 \in Nat
  BY ProgramsAssumption
<1> QED
  BY <1>1 DEF K!Char

LEMMA CheckedFile ==
  ASSUME file \in Checked
  PROVE  /\ file \in Seq(0 .. BYTES - 1) /\ Len(file) \in Nat
         /\ DOMAIN file = 1 .. Len(file)
         /\ \A k \in 1 .. Len(file) : file[k] \in 0 .. BYTES - 1
BY ProgramsAssumption

LEMMA CheckCardinality == ASSUME NEW S PROVE K!Cardinality(S) = Cardinality(S)
BY Zenon DEF K!Cardinality, Cardinality

LEMMA FoundIsFinite ==
  ASSUME file \in Checked, NEW n
  PROVE  IsFiniteSet(K!Found(n)) /\ Cardinality(K!Found(n)) \in Nat
<1>1. IsFiniteSet(1 .. Len(file))
  BY CheckedFile, FS_Interval
<1>2. K!Found(n) \subseteq 1 .. Len(file)
  BY CheckedFile DEF K!Found
<1>3. IsFiniteSet(K!Found(n))
  BY <1>1, <1>2, FS_Subset
<1> QED
  BY <1>3, FS_CardinalityType

LEMMA FoundNext ==
  ASSUME file \in Checked, NEW n \in 0 .. Len(file) - 1
  PROVE  Cardinality(K!Found(n + 1)) =
           IF file[n + 1] = byte THEN Cardinality(K!Found(n)) + 1
           ELSE Cardinality(K!Found(n))
<1>1. n + 1 \in DOMAIN file /\ n + 1 \notin K!Found(n)
  BY CheckedFile DEF K!Found
<1>2. K!Found(n + 1) = IF file[n + 1] = byte THEN K!Found(n) \cup {n + 1} ELSE K!Found(n)
  BY <1>1, CheckedFile DEF K!Found
<1>3. Cardinality(K!Found(n) \cup {n + 1}) = Cardinality(K!Found(n)) + 1
  BY <1>1, FoundIsFinite, FS_AddElement
<1> QED
  BY <1>2, <1>3

LEMMA CheckInit == K!Init => K!Safe
<1> SUFFICES ASSUME K!Init PROVE K!Safe
  OBVIOUS
<1>1. K!TypeOK
  BY ProgramsAssumption DEF K!Init, K!TypeOK
<1> QED
  BY <1>1 DEF K!Init, K!Safe

LEMMA CheckRead ==
  ASSUME K!Safe, K!Read
  PROVE  K!Safe'
<1>0. /\ LIMIT \in Nat /\ BUFFER_SIZE \in Nat /\ LIMIT < BUFFER_SIZE
      /\ BYTES \in Nat \ {0} /\ BYTES \div 2 \in Nat
  BY ProgramsAssumption
<1>1. /\ file \in Checked /\ byte \in 0 .. BYTES /\ i = 0 /\ count = 0
      /\ UNCHANGED <<file, byte, i, count>>
  BY DEF K!Safe, K!TypeOK, K!Read
<1>2. s' = IF Len(file) < BUFFER_SIZE THEN Len(file) ELSE BUFFER_SIZE
  BY DEF K!Read
<1>3. s' \in 0 .. BUFFER_SIZE /\ s' \in Nat
  BY <1>0, <1>1, <1>2, CheckedFile
<1>4. checkPc' = IF s' > LIMIT THEN "too large" ELSE IF s' = 0 THEN "no bytes" ELSE "count"
  BY DEF K!Read
<1>5. K!TypeOK'
  <2>1. i' = 0 /\ count' = 0
    BY <1>1
  <2>3. i' \in 0 .. s' + 1 /\ count' \in 0 .. i'
    <3>1. \A n \in Nat : 0 \in 0 .. n + 1 /\ 0 \in 0 .. 0
      OBVIOUS
    <3>2. PICK n \in Nat : n = s'
      BY <1>3
    <3>3. 0 \in 0 .. n + 1
      OBVIOUS
    <3> QED
      BY <2>1, <3>1, <3>2
  <2>2. checkPc' \in {"too large", "no bytes", "count"}
    BY <1>4
  <2> QED
    BY <1>1, <1>3, <2>2, <2>3 DEF K!TypeOK
<1>6. ASSUME checkPc' = "count"
      PROVE  K!FileInBuffer' /\ K!Counted'
  <2>1. s' = Len(file)
    BY <1>0, <1>2, <1>3, <1>4, <1>6
  <2>2. PICK stray \in K!Chars :
          buffer' = [k \in 0 .. s' |-> IF k < s' THEN K!Char(file[k + 1]) ELSE stray]
    BY DEF K!Read
  <2>3. \A k \in 0 .. s' : k < s' => file[k + 1] \in 0 .. BYTES - 1
    BY <1>1, <2>1, CheckedFile
  <2>4. \A k \in 0 .. s' : k < s' => K!Char(file[k + 1]) \in K!Chars
    BY <2>3 DEF K!Chars
  <2>5. buffer' \in [0 .. s' -> K!Chars]
    BY <2>2, <2>4
  <2>6. \A k \in 0 .. s' - 1 : buffer'[k] = K!Char(file[k + 1])
    <3> SUFFICES ASSUME NEW k \in 0 .. s' - 1 PROVE buffer'[k] = K!Char(file[k + 1])
      OBVIOUS
    <3>1. PICK n \in Nat : n = s'
      BY <1>3
    <3>2. k \in 0 .. n - 1
      BY <3>1
    <3>3. k \in 0 .. n /\ k < n
      BY <3>2
    <3> QED
      BY <2>2, <3>1, <3>3
  <2>7. K!FileInBuffer'
    BY <1>1, <2>1, <2>5, <2>6 DEF K!FileInBuffer
  <2>8. K!Found(0) = {}
    BY <1>1, CheckedFile DEF K!Found
  <2>9. Cardinality(K!Found(0)) = 0 /\ K!Found(i)' = K!Found(0)
    BY <1>1, <2>8, FS_EmptySet DEF K!Found
  <2> QED
    BY <1>0, <1>1, <1>3, <2>7, <2>9, CheckCardinality DEF K!Counted
<1> QED
  BY <1>1, <1>4, <1>5, <1>6 DEF K!Safe

LEMMA CheckCompare ==
  ASSUME K!Safe, K!Compare
  PROVE  K!Safe'
<1>0. BYTES \in Nat \ {0} /\ BYTES \div 2 \in Nat /\ BUFFER_SIZE \in Nat
  BY ProgramsAssumption
<1>1. /\ K!TypeOK /\ K!FileInBuffer /\ K!Counted /\ checkPc = "count" /\ i <= s
      /\ count' = IF buffer[i] = byte THEN count + 1 ELSE count
      /\ i' = i + 1
      /\ UNCHANGED <<file, byte, checkPc, buffer, s>>
  BY DEF K!Safe, K!Compare
<1>2. /\ file \in Checked /\ byte \in 0 .. BYTES /\ s \in Nat /\ i \in 0 .. s
      /\ count \in 0 .. i /\ s = Len(file)
  BY <1>0, <1>1 DEF K!TypeOK, K!FileInBuffer
<1>3. K!TypeOK'
  BY <1>1, <1>2 DEF K!TypeOK
<1>4. K!FileInBuffer'
  BY <1>1 DEF K!FileInBuffer
<1>5. K!Counted'
  <2>1. CASE byte >= BYTES \div 2
    BY <1>0, <1>1, <1>2, <2>1 DEF K!Counted
  <2>2. CASE byte < BYTES \div 2 /\ i < s
    <3>1. buffer[i] = byte <=> file[i + 1] = byte
      <4>1. buffer[i] = K!Char(file[i + 1]) /\ file[i + 1] \in 0 .. BYTES - 1
        BY <1>1, <1>2, <2>2, CheckedFile DEF K!FileInBuffer
      <4> QED
        BY <1>0, <1>2, <2>2, <4>1, CharIs
    <3>2. count = Cardinality(K!Found(i))
      BY <1>1, <2>2, CheckCardinality DEF K!Counted
    <3>3. Cardinality(K!Found(i + 1)) =
            IF file[i + 1] = byte THEN Cardinality(K!Found(i)) + 1
            ELSE Cardinality(K!Found(i))
      BY <1>2, <2>2, FoundNext
    <3>4. K!Found(i)' = K!Found(i + 1)
      BY <1>1 DEF K!Found
    <3> QED
      BY <1>1, <1>2, <2>2, <3>1, <3>2, <3>3, <3>4, <1>0, CheckCardinality DEF K!Counted
  <2>3. CASE byte < BYTES \div 2 /\ i = s
    <3>1. count = Cardinality(K!Found(s))
      BY <1>1, <1>2, <2>3, CheckCardinality DEF K!Counted
    <3>2. K!Found(s)' = K!Found(s)
      BY <1>1 DEF K!Found
    <3>3. count \in Int /\ i' > s'
      BY <1>1, <1>2, <2>3
    <3>4. count' - count \in {0, 1}
      BY <1>1, <3>3
    <3> QED
      <4>1. Cardinality(K!Found(s))' = count
        BY <3>1, <3>2
      <4>2. K!Cardinality(K!Found(s))' = Cardinality(K!Found(s))'
        BY <3>2, CheckCardinality
      <4> QED
        BY <1>0, <1>1, <1>2, <2>3, <3>3, <3>4, <4>1, <4>2 DEF K!Counted
  <2> QED
    BY <1>0, <1>2, <2>1, <2>2, <2>3
<1> QED
  BY <1>1, <1>3, <1>4, <1>5 DEF K!Safe

LEMMA CheckStep == K!Safe /\ [K!Next]_checkVars => K!Safe'
<1> SUFFICES ASSUME K!Safe, [K!Next]_checkVars PROVE K!Safe'
  OBVIOUS
<1>1. CASE K!OpenFails
  BY <1>1 DEF K!OpenFails, K!Safe, K!TypeOK
<1>2. CASE K!PrintCount
  <2>1. K!TypeOK' /\ i = s + 1
    BY <1>2, ProgramsAssumption DEF K!PrintCount, K!Safe, K!TypeOK
  <2>2. K!FileInBuffer' /\ K!Counted'
    BY <1>2 DEF K!PrintCount, K!Safe, K!FileInBuffer, K!Counted, K!Found
  <2> QED
    BY <1>2, <2>1, <2>2 DEF K!PrintCount, K!Safe
<1>3. CASE UNCHANGED checkVars
  BY <1>3 DEF checkVars, K!Safe, K!TypeOK, K!FileInBuffer, K!Counted, K!Found
<1> QED
  BY <1>1, <1>2, <1>3, CheckRead, CheckCompare DEF K!Next

\* The steps of the other programs leave bytecheck alone.
LEMMA CheckSteps == [ProgramsNext]_programVars => [K!Next]_checkVars
BY DEF ProgramsNext, programVars, checkVars, FractalRuns, ChimeRuns, BitflipRuns, ReaderRuns

(* The count of bytecheck, as far as it has come, is the number of bytes   *)
(* found among those it has compared, if the byte is below 0x80.           *)
THEOREM SpecBytecheckSafe == ProgramsSpec => []K!Safe
<1>1. ProgramsInit => K!Safe
  BY CheckInit DEF ProgramsInit
<1> QED
  BY <1>1, CheckSteps, CheckStep, PTL DEF ProgramsSpec

(* Of a byte below 0x80, bytecheck prints how often it is in the file or,  *)
(* for the char past the end that it compares too, one more.  The theorem  *)
(* says nothing of a byte from 0x80 on, which the code never finds.        *)
THEOREM SpecBytecheckCountIsClose == ProgramsSpec => []BytecheckCountIsClose
<1>1. K!Safe => BytecheckCountIsClose
  <2> SUFFICES ASSUME K!Safe, checkPc = "printed", byte < BYTES \div 2
               PROVE  count - K!Occurrences \in {0, 1}
    BY DEF BytecheckCountIsClose, K!CountIsClose
  <2>1. K!Counted /\ i = s + 1 /\ s = Len(file) /\ file \in Checked /\ byte \in 0 .. BYTES
    BY DEF K!Safe, K!FileInBuffer, K!TypeOK
  <2>2. K!Found(s) = {k \in DOMAIN file : file[k] = byte}
    BY <2>1, CheckedFile DEF K!Found
  <2>3. i > s
    BY <2>1, CheckedFile
  <2> QED
    BY <2>1, <2>2, <2>3, ProgramsAssumption, CheckCardinality DEF K!Counted, K!Occurrences
<1> QED
  BY <1>1, SpecBytecheckSafe, PTL

-----------------------------------------------------------------------------
(* bitflip: chars, bytes and sequences of bytes *)
LEMMA Bytes ==
  /\ BYTES \in Nat \ {0} /\ BYTES \div 2 \in Nat
  /\ B!Byte = 0 .. BYTES - 1 /\ B!EOF = -1 /\ BYTES - 1 \in B!Byte
  /\ "temp.txt" \in Names
BY ProgramsAssumption DEF B!Byte, B!EOF

\* A char goes back to the byte it was made of; EOF goes to 0xFF.
LEMMA CharsAndBytes ==
  /\ \A b \in B!Byte : /\ B!Char(b) \in Int /\ B!ToByte(B!Char(b)) = b
                       /\ B!Char(b) = B!EOF <=> b = BYTES - 1
                       /\ BYTES - 1 - b \in B!Byte
  /\ B!ToByte(B!EOF) = BYTES - 1
  /\ \A ch \in Int : B!ToByte(ch) \in B!Byte
<1>1. PICK n \in Nat \ {0} : n = BYTES
  BY Bytes
<1>2. \A b \in 0 .. n - 1 : b % n = b
  OBVIOUS
<1>3. \A b \in 0 .. n - 1 : (b - n) % n = b
  OBVIOUS
<1>4. (-1) % n = n - 1
  BY <1>3, n - 1 \in 0 .. n - 1, (n - 1) - n = -1
<1>5. \A ch \in Int : ch % n \in 0 .. n - 1
  OBVIOUS
<1>6. n \div 2 \in Nat /\ n \div 2 <= n - 1
  OBVIOUS
<1>7. \A b \in B!Byte : B!Char(b) = IF b < n \div 2 THEN b ELSE b - n
  BY <1>1 DEF B!Char
<1>8. \A ch : B!ToByte(ch) = ch % n
  BY <1>1 DEF B!ToByte
<1>9. B!Byte = 0 .. n - 1 /\ B!EOF = -1
  BY <1>1, Bytes
<1>10. \A b \in B!Byte : /\ B!Char(b) \in Int /\ BYTES - 1 - b \in B!Byte
                         /\ B!Char(b) = B!EOF <=> b = BYTES - 1
  BY <1>1, <1>6, <1>7, <1>9
<1>11. \A b \in B!Byte : B!ToByte(B!Char(b)) = b
  BY <1>2, <1>3, <1>7, <1>8, <1>9
<1>12. B!ToByte(B!EOF) = BYTES - 1
  BY <1>1, <1>4, <1>8, <1>9
<1>13. \A ch \in Int : B!ToByte(ch) \in B!Byte
  BY <1>5, <1>8, <1>9
<1> QED
  BY <1>10, <1>11, <1>12, <1>13

LEMMA CharRange ==
  \A b \in B!Byte : B!Char(b) \in B!Char(BYTES \div 2) .. BYTES \div 2 - 1
<1>1. PICK n \in Nat \ {0} : n = BYTES
  BY Bytes
<1>2. PICK h \in Nat : h = n \div 2 /\ h <= n - 1
  OBVIOUS
<1>3. B!Char(BYTES \div 2) = h - n
  BY <1>1, <1>2 DEF B!Char
<1>4. \A b \in 0 .. n - 1 : (IF b < h THEN b ELSE b - n) \in h - n .. h - 1
  BY <1>2
<1> QED
  BY <1>1, <1>2, <1>3, <1>4, Bytes DEF B!Char

LEMMA CharAtIs ==
  ASSUME NEW q \in Seq(B!Byte), NEW k \in Int
  PROVE  /\ k \in 1 .. Len(q) => B!CharAt(q, k) = B!Char(q[k]) /\ q[k] \in B!Byte
         /\ k \notin 1 .. Len(q) => B!CharAt(q, k) = B!EOF
         /\ B!CharAt(q, k) \in Int
         /\ B!CharAt(q, k) \in B!Char(BYTES \div 2) .. BYTES \div 2 - 1
<1>1. k \in 1 .. Len(q) => B!CharAt(q, k) = B!Char(q[k]) /\ q[k] \in B!Byte
  BY ElementOfSeq DEF B!CharAt
<1>2. k \notin 1 .. Len(q) => B!CharAt(q, k) = B!EOF
  BY DEF B!CharAt
<1>3. BYTES - 1 \in B!Byte /\ B!Char(BYTES - 1) = B!EOF
  BY Bytes, CharsAndBytes
<1>4. \E b \in B!Byte : B!CharAt(q, k) = B!Char(b)
  BY <1>1, <1>2, <1>3
<1> QED
  BY <1>1, <1>2, <1>4, CharsAndBytes, CharRange

\* What is read first after a seek to k bytes before the end of the file.
LEMMA FromEndIs ==
  ASSUME ahead \in Seq(B!Byte), NEW q \in Seq(B!Byte), NEW k \in Nat \ {0}
  PROVE  /\ B!FromEnd(q, k) \in Seq(B!Byte)
         /\ k <= Len(q) => B!CharAt(B!FromEnd(q, k), 1) = B!CharAt(q, Len(q) - k + 1)
<1>1. PICK l \in Nat : l = Len(q)
  BY LenProperties
<1>2. CASE k <= l
  <2>1. PICK h : h = l - k + 1 /\ h \in 1 .. l /\ l - h + 1 = k
    BY <1>1, <1>2
  <2>2. PICK t : t = SubSeq(q, h, l)
    OBVIOUS
  <2>3. \A x \in h .. l : q[x] \in B!Byte
    BY <1>1, <2>1, ElementOfSeq
  <2>4. t \in Seq(B!Byte) /\ Len(t) = k /\ t[1] = q[h]
    BY <1>1, <2>1, <2>2, <2>3
  <2>5. B!FromEnd(q, k) = t
    BY <1>1, <1>2, <2>1, <2>2 DEF B!FromEnd
  <2>6. B!CharAt(t, 1) = B!Char(t[1])
    BY <2>4, CharAtIs, 1 \in 1 .. k, 1 \in Int
  <2>7. B!CharAt(q, h) = B!Char(q[h])
    BY <1>1, <2>1, CharAtIs, h \in Int
  <2> QED
    BY <1>1, <2>1, <2>4, <2>5, <2>6, <2>7
<1>3. CASE ~(k <= l)
  BY <1>1, <1>3 DEF B!FromEnd
<1> QED
  BY <1>2, <1>3

LEMMA FlippedIs ==
  ASSUME NEW q \in Seq(B!Byte), NEW made \in Seq(B!Byte), Len(made) <= Len(q),
         \A k \in 1 .. Len(made) : made[k] = BYTES - 1 - q[k]
  PROVE  /\ B!IsPrefix(made, B!Flipped(q))
         /\ Len(made) = Len(q) => made = B!Flipped(q)
<1>1. PICK n : n = Len(made)
  OBVIOUS
<1>2. n \in 0 .. Len(q) /\ n \in Nat /\ Len(q) \in Nat
  BY <1>1, LenProperties
<1>3. \A k \in 1 .. Len(q) : BYTES - 1 - q[k] \in B!Byte
  BY <1>2, ElementOfSeq, CharsAndBytes
<1>4. PICK w : w = B!Flipped(q)
  OBVIOUS
<1>5. w = [k \in 1 .. Len(q) |-> BYTES - 1 - q[k]]
  BY <1>4, LenProperties DEF B!Flipped
<1>6. /\ w \in Seq(B!Byte) /\ Len(w) = Len(q)
      /\ \A k \in 1 .. Len(q) : w[k] = BYTES - 1 - q[k]
  BY <1>2, <1>3, <1>5
<1>7. \A k \in 1 .. n : made[k] = w[k] /\ w[k] \in B!Byte
  BY <1>1, <1>2, <1>3, <1>6
<1>8. SubSeq(w, 1, n) \in Seq(B!Byte) /\ Len(SubSeq(w, 1, n)) = n
  BY <1>2, <1>6, <1>7
<1>9. \A k \in 1 .. n : SubSeq(w, 1, n)[k] = w[k]
  BY <1>2, <1>6
<1>10. made = SubSeq(w, 1, n)
  BY <1>1, <1>7, <1>8, <1>9, SeqEqual
<1>11. SubSeq(made, 1, n) = made
  BY <1>1, SubSeqFull
<1>12. B!IsPrefix(made, w)
  BY <1>1, <1>2, <1>6, <1>10, <1>11 DEF B!IsPrefix
<1>13. n = Len(q) => made = w
  BY <1>1, <1>6, <1>7, SeqEqual
<1> QED
  BY <1>1, <1>4, <1>12, <1>13

LEMMA ReverseIs ==
  ASSUME NEW q \in Seq(B!Byte)
  PROVE  /\ B!Reverse(q) \in Seq(B!Byte) /\ Len(B!Reverse(q)) = Len(q)
         /\ \A k \in 1 .. Len(q) : B!Reverse(q)[k] = q[Len(q) - k + 1]
<1>1. Len(q) \in Nat
  BY LenProperties
<1>2. \A k \in 1 .. Len(q) : Len(q) - k + 1 \in 1 .. Len(q) /\ q[Len(q) - k + 1] \in B!Byte
  BY <1>1, ElementOfSeq
<1>3. B!Reverse(q) = [k \in 1 .. Len(q) |-> q[Len(q) - k + 1]]
  BY DEF B!Reverse
<1>4. B!Reverse(q) \in [1 .. Len(q) -> B!Byte]
  BY <1>2, <1>3
<1> QED
  BY <1>1, <1>3, <1>4

-----------------------------------------------------------------------------
(* bitflip: a step *)
FilesOK == files \in [Names -> Seq(B!Byte) \cup {B!NoFile}]
CharOK == c \in B!Char(BYTES \div 2) .. BYTES \div 2 - 1

LEMMA NoFileIs == B!NoFile \notin Seq(B!Byte)
<1>1. Len(B!NoFile) = 1 /\ B!NoFile[1] = -1
  BY DEF B!NoFile, B!EOF
<1>2. -1 \notin B!Byte
  BY Bytes
<1>3. SUFFICES ASSUME B!NoFile \in Seq(B!Byte) PROVE FALSE
  OBVIOUS
<1>4. PICK q : q = B!NoFile
  OBVIOUS
<1>5. q \in Seq(B!Byte) /\ 1 \in 1 .. Len(q) /\ q[1] = -1
  BY <1>1, <1>3, <1>4
<1>6. q[1] \in B!Byte
  BY <1>5, ElementOfSeq
<1> QED
  BY <1>2, <1>5, <1>6

LEMMA FileIs ==
  ASSUME FilesOK, NEW n \in Names, files[n] # B!NoFile
  PROVE  files[n] \in Seq(B!Byte) /\ Len(files[n]) \in Nat
<1>1. files[n] \in Seq(B!Byte)
  BY DEF FilesOK
<1> QED
  BY <1>1, LenProperties

\* A step that reads from the stream of the input.
LEMMA FgetcIs ==
  ASSUME NEW q \in Seq(B!Byte), B!fgetc(q)
  PROVE  CharOK' /\ ahead' \in Seq(B!Byte) /\ c' = B!CharAt(q, 1)
<1>1. c' = B!CharAt(q, 1) /\ ahead' = IF q = <<>> THEN <<>> ELSE Tail(q)
  BY DEF B!fgetc
<1>2. <<>> \in Seq(B!Byte) /\ (q # <<>> => Tail(q) \in Seq(B!Byte))
  OBVIOUS
<1>3. CharOK'
  BY <1>1, CharAtIs, 1 \in Int DEF CharOK
<1> QED
  BY <1>1, <1>2, <1>3

LEMMA FlipFacts ==
  ASSUME B!Safe
  PROVE  /\ FilesOK /\ CharOK /\ B!RunOK /\ ahead \in Seq(B!Byte)
         /\ written \in 0 .. fileSize /\ fileSize \in Nat /\ written \in Nat
         /\ copy \in Seq(B!Byte) /\ Len(copy) \in Nat
         /\ iFile \in Names /\ outName \in Names
         /\ flipPc = "reverse" => B!Reversing
         /\ flipPc = "flip" => B!Flipping
<1>1. /\ FilesOK /\ CharOK /\ B!RunOK /\ written \in 0 .. fileSize /\ copy \in Seq(B!Byte)
      /\ ahead \in Seq(B!Byte)
      /\ flipPc = "reverse" => B!Reversing
      /\ flipPc = "flip" => B!Flipping
  BY DEF B!Safe, B!TypeOK, FilesOK, CharOK
<1>2. fileSize \in Nat /\ iFile \in Names /\ outName \in Names
  BY <1>1 DEF B!RunOK
<1> QED
  BY <1>1, <1>2, LenProperties

LEMMA CharIsInt == ASSUME CharOK PROVE c \in Int
BY DEF CharOK

LEMMA FlipSafe ==
  ASSUME FilesOK', CharOK', B!RunOK', ahead' \in Seq(B!Byte),
         flipPc' \in {"shell", "temp", "reverse", "flip"},
         written' \in 0 .. fileSize', copy' \in Seq(B!Byte),
         flipPc' = "reverse" => B!Reversing',
         flipPc' = "flip" => B!Flipping'
  PROVE  B!Safe'
<1>1. \A n \in Names : files'[n] = B!NoFile \/ files'[n] \in Seq(B!Byte)
  BY DEF FilesOK
<1>2. B!TypeOK'
  BY <1>1 DEF B!TypeOK, CharOK
<1> QED
  BY <1>2 DEF B!Safe, FilesOK

LEMMA ZeroIsChar == 0 \in B!Char(BYTES \div 2) .. BYTES \div 2 - 1
<1>1. PICK n \in Nat \ {0, 1} : n = BYTES
  BY Bytes, ProgramsAssumption
<1>2. n \div 2 \in Nat /\ n \div 2 >= 1 /\ n \div 2 < n
  OBVIOUS
<1>3. B!Char(BYTES \div 2) = n \div 2 - n
  BY <1>1, <1>2 DEF B!Char
<1> QED
  BY <1>1, <1>2, <1>3

LEMMA EmptyIs == <<>> \in Seq(B!Byte) /\ Len(<<>>) = 0 /\ <<>> # B!NoFile
BY NoFileIs, EmptySeq

LEMMA FlipInit == B!Init => B!Safe
<1> SUFFICES ASSUME B!Init PROVE B!Safe
  OBVIOUS
<1>1. FilesOK
  BY ProgramsAssumption DEF B!Init, FilesOK, B!Byte
<1>2. CharOK
  BY ZeroIsChar DEF B!Init, CharOK
<1>3. <<>> \in Seq(B!Byte) /\ 0 \in 0 .. 0 /\ 0 \in Nat
  OBVIOUS
<1>4. B!RunOK /\ flipPc = "shell"
  BY <1>3, Bytes DEF B!Init, B!RunOK
<1>5. B!TypeOK
  BY <1>1, <1>2, <1>3 DEF B!Init, B!TypeOK, FilesOK, CharOK
<1> QED
  BY <1>1, <1>4, <1>5 DEF B!Safe, FilesOK

LEMMA FlipOpen ==
  ASSUME B!Safe, NEW m \in {"bf", "r", "bfr"}, NEW in \in Names, NEW out \in Names,
         B!Open(m, in, out)
  PROVE  B!Safe'
<1>1. /\ flipPc = "shell" /\ files[in] # B!NoFile /\ files[out] = B!NoFile
      /\ files' = [files EXCEPT ![out] = <<>>]
      /\ mode' = m /\ iFile' = in /\ outName' = out /\ fileSize' = Len(files[in])
      /\ flipPc' = IF m = "bf" THEN "flip" ELSE IF m = "bfr" THEN "temp" ELSE "reverse"
      /\ m = "bf" => c' = B!CharAt(files[in], 1) /\ UNCHANGED ahead
      /\ m = "r" => B!fgetc(B!FromEnd(files[in], 1))
      /\ m = "bfr" => ahead' = files[in] /\ UNCHANGED c
      /\ UNCHANGED <<written, copy>>
  BY DEF B!Open
<1>2. FilesOK /\ B!RunOK /\ CharOK /\ ahead \in Seq(B!Byte)
  BY FlipFacts
<1>3. /\ copy' = <<>> /\ written' = 0
  BY <1>1, <1>2 DEF B!RunOK
<1>4. in # out /\ files'[in] = files[in] /\ FilesOK'
  BY <1>1, <1>2 DEF FilesOK
<1>5. PICK q : q = files[in] /\ q \in Seq(B!Byte) /\ Len(q) \in Nat
  BY <1>1, <1>2, FileIs
<1>6. /\ CharOK' /\ ahead' \in Seq(B!Byte)
      /\ m = "bf" => c' = B!CharAt(q, 1)
      /\ m = "r" /\ 0 < Len(q) => c' = B!CharAt(q, Len(q))
  <2>1. CASE m = "bf"
    <3>1. c' = B!CharAt(q, 1)
      BY <1>1, <1>5, <2>1
    <3> QED
      BY <1>1, <1>2, <1>5, <2>1, <3>1, CharAtIs, 1 \in Int DEF CharOK
  <2>2. CASE m = "r"
    <3>1. PICK t : t = B!FromEnd(q, 1)
      OBVIOUS
    <3>2. t \in Seq(B!Byte) /\ (1 <= Len(q) => B!CharAt(t, 1) = B!CharAt(q, Len(q) - 1 + 1))
      BY <1>2, <1>5, <3>1, FromEndIs
    <3>3. B!fgetc(t)
      BY <1>1, <1>5, <2>2, <3>1
    <3>4. CharOK' /\ ahead' \in Seq(B!Byte) /\ c' = B!CharAt(t, 1)
      BY <3>2, <3>3, FgetcIs
    <3>5. Len(q) - 1 + 1 = Len(q) /\ (0 < Len(q) => 1 <= Len(q))
      BY <1>5
    <3> QED
      BY <2>2, <3>2, <3>4, <3>5
  <2>3. CASE m = "bfr"
    BY <1>1, <1>2, <1>5, <2>3 DEF CharOK
  <2> QED
    BY <2>1, <2>2, <2>3
<1>7. written' \in 0 .. fileSize' /\ copy' \in Seq(B!Byte) /\ Len(copy') = 0
  BY <1>1, <1>3, <1>5
<1>8. B!RunOK'
  BY <1>1, <1>3, <1>4, <1>5 DEF B!RunOK
<1>9. flipPc' = "reverse" => B!Reversing'
  <2> SUFFICES ASSUME flipPc' = "reverse" PROVE B!Reversing'
    OBVIOUS
  <2>1. m = "r"
    BY <1>1
  <2>2. Len(q) - 0 = Len(q) /\ \A k \in 1 .. 0 : FALSE
    BY <1>5
  <2> QED
    BY <1>1, <1>3, <1>4, <1>5, <1>6, <1>7, <2>1, <2>2 DEF B!Reversing, B!CharAt, B!Char, B!EOF
<1>10. flipPc' = "flip" => B!Flipping'
  <2> SUFFICES ASSUME flipPc' = "flip" PROVE B!Flipping'
    OBVIOUS
  <2>1. m = "bf" /\ B!source' = in
    BY <1>1 DEF B!source
  <2>2. 0 + 1 = 1 /\ (\A k \in 1 .. 0 : FALSE) /\ 0 <= Len(q)
    BY <1>5
  <2> QED
    BY <1>1, <1>3, <1>4, <1>5, <1>6, <1>7, <2>1, <2>2 DEF B!Flipping, B!CharAt, B!Char, B!EOF
<1> QED
  BY <1>1, <1>4, <1>6, <1>7, <1>8, <1>9, <1>10, FlipSafe

LEMMA FlipEnds ==
  ASSUME B!Safe, B!ProcessEnds, FilesOK'
  PROVE  B!Safe'
<1>1. /\ flipPc' = "shell" /\ ahead' = <<>> /\ c' = 0 /\ written' = 0 /\ copy' = <<>>
      /\ UNCHANGED <<mode, iFile, outName, fileSize>>
  BY DEF B!ProcessEnds, B!args
<1>2. CharOK'
  BY <1>1, ZeroIsChar DEF CharOK
<1>3. /\ B!RunOK' /\ written' \in 0 .. fileSize' /\ copy' \in Seq(B!Byte)
      /\ ahead' \in Seq(B!Byte)
  BY <1>1, FlipFacts DEF B!RunOK
<1> QED
  BY <1>1, <1>2, <1>3, FlipSafe

LEMMA FlipOpenTemp ==
  ASSUME B!Safe, B!OpenTemp
  PROVE  B!Safe'
<1>1. /\ flipPc = "temp" /\ flipPc' = "reverse"
      /\ files' = [files EXCEPT !["temp.txt"] = <<>>]
      /\ B!fgetc(B!FromEnd(files'[iFile], 1))
      /\ UNCHANGED <<mode, iFile, outName, fileSize, written, copy>>
  BY DEF B!OpenTemp, B!args
<1>2. /\ FilesOK /\ B!RunOK /\ iFile \in Names /\ fileSize \in Nat
      /\ ahead \in Seq(B!Byte)
      /\ copy = <<>> /\ written = 0 /\ mode = "bfr" /\ fileSize = Len(files[iFile])
  BY <1>1, FlipFacts DEF B!RunOK
<1>3. FilesOK'
  BY <1>1, <1>2, EmptyIs DEF FilesOK
<1>4. files'[iFile] = IF iFile = "temp.txt" THEN <<>> ELSE files[iFile]
  BY <1>1, <1>2, Bytes DEF FilesOK
<1>5. PICK q : q = files'[iFile] /\ q \in Seq(B!Byte)
  BY <1>1, <1>2, <1>4, EmptyIs, FileIs DEF B!RunOK
<1>6. /\ CharOK' /\ ahead' \in Seq(B!Byte)
      /\ 1 <= Len(q) => c' = B!CharAt(q, Len(q) - 1 + 1)
  <2>1. PICK t : t = B!FromEnd(q, 1)
    OBVIOUS
  <2>2. t \in Seq(B!Byte) /\ (1 <= Len(q) => B!CharAt(t, 1) = B!CharAt(q, Len(q) - 1 + 1))
    BY <1>2, <1>5, <2>1, FromEndIs
  <2>3. B!fgetc(t)
    BY <1>1, <1>5, <2>1
  <2>4. CharOK' /\ ahead' \in Seq(B!Byte) /\ c' = B!CharAt(t, 1)
    BY <2>2, <2>3, FgetcIs
  <2> QED
    BY <2>2, <2>4
<1>7. files'[iFile] # B!NoFile
  BY <1>5, NoFileIs
<1>8. B!RunOK'
  BY <1>1, <1>2, <1>7 DEF B!RunOK
<1>9. written' \in 0 .. fileSize' /\ copy' \in Seq(B!Byte) /\ Len(copy') = 0
  BY <1>1, <1>2
<1>10. B!Reversing'
  <2>1. \A k \in 1 .. 0 : FALSE
    OBVIOUS
  <2>2. ~B!UsesTemp' => iFile # "temp.txt"
    BY <1>1, <1>2 DEF B!UsesTemp
  <2>3. ~B!UsesTemp' => files'[iFile] = files[iFile] /\ fileSize' = Len(files'[iFile])
    BY <1>1, <1>2, <1>4, <2>2
  <2>4. ASSUME ~B!UsesTemp', written' < fileSize'
        PROVE  c' = (B!CharAt(files[iFile], fileSize - written))'
    <3>1. fileSize = Len(q) /\ written' = 0 /\ fileSize' = fileSize
      BY <1>1, <1>2, <1>5, <2>3, <2>4
    <3>2. 1 <= Len(q) /\ Len(q) - 1 + 1 = fileSize /\ fileSize - 0 = fileSize
      BY <1>2, <2>4, <3>1
    <3>3. c' = B!CharAt(q, fileSize)
      BY <1>6, <3>2
    <3>4. fileSize' - written' = fileSize /\ files'[iFile'] = q
      BY <1>1, <1>5, <3>1, <3>2
    <3> QED
      BY <3>3, <3>4 DEF B!CharAt, B!Char, B!EOF
  <2>5. mode' \in {"r", "bfr"} /\ Len(copy') = written'
    BY <1>1, <1>2, <1>9
  <2>6. \A k \in 1 .. written' : FALSE
    BY <1>1, <1>2
  <2> QED
    BY <2>3, <2>4, <2>5, <2>6, <1>1 DEF B!Reversing
<1> QED
  BY <1>1, <1>3, <1>6, <1>8, <1>9, <1>10, FlipSafe

LEMMA FlipReverseByte ==
  ASSUME B!Safe, B!ReverseByte
  PROVE  B!Safe'
<1>1. /\ flipPc = "reverse" /\ written # fileSize
      /\ copy' = Append(copy, B!ToByte(c)) /\ written' = written + 1
      /\ B!fgetc(B!FromEnd(files[iFile], written' + 1))
      /\ UNCHANGED <<files, flipPc, mode, iFile, outName, fileSize>>
  BY DEF B!ReverseByte, B!args
<1>2. /\ FilesOK /\ B!RunOK /\ B!Reversing /\ iFile \in Names /\ c \in Int
      /\ fileSize \in Nat /\ written \in 0 .. fileSize /\ written \in Nat
      /\ copy \in Seq(B!Byte) /\ Len(copy) = written /\ ahead \in Seq(B!Byte)
  BY <1>1, FlipFacts, CharIsInt DEF B!Reversing
<1>3. PICK q : q = files[iFile] /\ q \in Seq(B!Byte) /\ Len(q) \in Nat
  BY <1>1, <1>2, FileIs DEF B!RunOK
<1>4. written' \in 0 .. fileSize' /\ written' \in Nat
  BY <1>1, <1>2
<1>5. /\ CharOK' /\ ahead' \in Seq(B!Byte)
      /\ written' + 1 <= Len(q) => c' = B!CharAt(q, Len(q) - (written' + 1) + 1)
  <2>1. PICK n : n = written' + 1 /\ n \in Nat \ {0}
    BY <1>4
  <2>2. PICK t : t = B!FromEnd(q, n)
    OBVIOUS
  <2>3. t \in Seq(B!Byte) /\ (n <= Len(q) => B!CharAt(t, 1) = B!CharAt(q, Len(q) - n + 1))
    BY <1>2, <1>3, <2>1, <2>2, FromEndIs
  <2>4. B!fgetc(t)
    BY <1>1, <1>3, <2>1, <2>2
  <2>5. CharOK' /\ ahead' \in Seq(B!Byte) /\ c' = B!CharAt(t, 1)
    BY <2>3, <2>4, FgetcIs
  <2> QED
    BY <2>1, <2>3, <2>5
<1>6. B!ToByte(c) \in B!Byte
  BY <1>2, CharsAndBytes
<1>7. /\ copy' \in Seq(B!Byte) /\ Len(copy') = written'
      /\ copy'[written + 1] = B!ToByte(c)
      /\ \A k \in 1 .. written : copy'[k] = copy[k]
  BY <1>1, <1>2, <1>6
<1>8. \A k \in 1 .. written' : k \in 1 .. written \/ k = written + 1
  BY <1>1, <1>2
<1>9. FilesOK' /\ B!RunOK'
  BY <1>1, <1>2 DEF FilesOK, B!RunOK
<1>10. B!Reversing'
  <2>1. ASSUME ~B!UsesTemp
        PROVE  /\ fileSize = Len(q)
               /\ written' < fileSize => c' = B!CharAt(q, fileSize - written')
               /\ \A k \in 1 .. written' : copy'[k] = q[fileSize - k + 1]
    <3>1. /\ fileSize = Len(q)
          /\ written < fileSize => c = B!CharAt(q, fileSize - written)
          /\ \A k \in 1 .. written : copy[k] = q[fileSize - k + 1]
      BY <1>2, <1>3, <2>1 DEF B!Reversing
    <3>2. /\ written < fileSize
          /\ fileSize - written \in 1 .. Len(q) /\ fileSize - written \in Int
          /\ fileSize - (written + 1) + 1 = fileSize - written
      BY <1>1, <1>2, <3>1
    <3>3. copy'[written + 1] = q[fileSize - written]
      BY <1>3, <1>7, <3>1, <3>2, CharAtIs, CharsAndBytes
    <3>4. ASSUME written' < fileSize
          PROVE  c' = B!CharAt(q, fileSize - written')
      <4>1. /\ written' + 1 <= Len(q)
            /\ Len(q) - (written' + 1) + 1 = fileSize - written'
        BY <1>2, <1>4, <3>1, <3>4
      <4> QED
        BY <1>5, <4>1
    <3> QED
      BY <1>7, <1>8, <3>1, <3>2, <3>3, <3>4
  <2>2. (B!UsesTemp)' <=> B!UsesTemp
    BY <1>1 DEF B!UsesTemp
  <2>3. mode \in {"r", "bfr"}
    BY <1>2 DEF B!Reversing
  <2> QED
    BY <1>1, <1>3, <1>7, <2>1, <2>2, <2>3 DEF B!Reversing, B!CharAt, B!Char, B!EOF
<1> QED
  BY <1>1, <1>4, <1>5, <1>7, <1>9, <1>10, FlipSafe

LEMMA FlipTempFails ==
  ASSUME B!Safe, B!TempFails
  PROVE  B!Safe'
<1>1. B!ProcessEnds /\ UNCHANGED files
  BY DEF B!TempFails
<1>2. FilesOK'
  BY <1>1, FlipFacts DEF FilesOK
<1> QED
  BY <1>1, <1>2, FlipEnds

LEMMA FlipReverseEnd ==
  ASSUME B!Safe, B!ReverseEnd
  PROVE  B!Safe'
<1>1. B!ProcessEnds /\ files' = [files EXCEPT ![outName] = copy]
  BY DEF B!ReverseEnd
<1>2. FilesOK'
  BY <1>1, FlipFacts DEF FilesOK
<1> QED
  BY <1>1, <1>2, FlipEnds

\* The file that reverse has made, when no name of the run is temp.txt.
LEMMA ReversedAll ==
  ASSUME B!Safe, flipPc = "reverse", written = fileSize, ~B!UsesTemp
  PROVE  copy = B!Reverse(files[iFile])
<1>1. /\ FilesOK /\ B!RunOK /\ B!Reversing /\ iFile \in Names
      /\ copy \in Seq(B!Byte)
  BY FlipFacts
<1>2. PICK q : q = files[iFile] /\ q \in Seq(B!Byte) /\ Len(q) \in Nat
  BY <1>1, FileIs DEF B!RunOK
<1>3. /\ Len(copy) = Len(q)
      /\ \A k \in 1 .. Len(q) : copy[k] = q[Len(q) - k + 1]
  BY <1>1, <1>2 DEF B!Reversing
<1>4. PICK t : t = B!Reverse(q)
  OBVIOUS
<1>5. /\ t \in Seq(B!Byte) /\ Len(t) = Len(q)
      /\ \A k \in 1 .. Len(q) : t[k] = q[Len(q) - k + 1]
  BY <1>2, <1>4, ReverseIs
<1>6. copy = t
  BY <1>1, <1>3, <1>5, SeqEqual
<1> QED
  BY <1>2, <1>4, <1>6

LEMMA FlipRewind ==
  ASSUME B!Safe, B!Rewind
  PROVE  B!Safe'
<1>1. /\ flipPc = "reverse" /\ written = fileSize /\ mode = "bfr"
      /\ files' = [files EXCEPT !["temp.txt"] = copy]
      /\ flipPc' = "flip" /\ c' = B!CharAt(copy, 1) /\ ahead' = <<>> /\ copy' = <<>>
      /\ UNCHANGED <<mode, iFile, outName, fileSize, written>>
  BY DEF B!Rewind, B!args
<1>2. /\ FilesOK /\ B!RunOK /\ B!Reversing /\ iFile \in Names /\ outName \in Names
      /\ fileSize \in Nat /\ written \in 0 .. fileSize /\ Len(copy) = written
      /\ copy \in Seq(B!Byte) /\ written \in Nat
  BY <1>1, FlipFacts DEF B!Reversing
<1>3. files'["temp.txt"] = copy /\ FilesOK'
  BY <1>1, <1>2, Bytes DEF FilesOK
<1>4. copy # B!NoFile /\ (iFile # "temp.txt" => files'[iFile] = files[iFile])
  BY <1>1, <1>2, NoFileIs DEF FilesOK
<1>5. CharOK'
  BY <1>1, <1>2, CharAtIs, 1 \in Int DEF CharOK
<1>6. /\ written' \in 0 .. fileSize' /\ copy' \in Seq(B!Byte) /\ Len(copy') = 0
      /\ ahead' \in Seq(B!Byte)
  BY <1>1, <1>2, EmptyIs
<1>7. files'[iFile] # B!NoFile
  BY <1>1, <1>2, <1>3, <1>4 DEF B!RunOK
<1>8. B!RunOK'
  BY <1>1, <1>2, <1>7 DEF B!RunOK
<1>9. B!Flipping'
  <2>1. B!source' = "temp.txt" /\ (B!UsesTemp' <=> B!UsesTemp)
    BY <1>1 DEF B!source, B!UsesTemp
  <2>2. \A k \in 1 .. 0 : FALSE
    OBVIOUS
  <2>3. ~B!UsesTemp => copy = B!Reverse(files[iFile]) /\ files'[iFile] = files[iFile]
    <3> SUFFICES ASSUME ~B!UsesTemp
                 PROVE  copy = B!Reverse(files[iFile]) /\ files'[iFile] = files[iFile]
      OBVIOUS
    <3>1. iFile # "temp.txt"
      BY <1>1 DEF B!UsesTemp
    <3> QED
      BY <1>1, <1>4, <3>1, ReversedAll
  <2>4. ~B!UsesTemp => copy = (B!Reverse(files[iFile]))'
    <3> SUFFICES ASSUME ~B!UsesTemp PROVE copy = (B!Reverse(files[iFile]))'
      OBVIOUS
    <3>1. PICK q : q = files[iFile]
      OBVIOUS
    <3>2. copy = B!Reverse(q) /\ files'[iFile'] = q
      BY <1>1, <2>3, <3>1
    <3>3. copy = [k \in 1 .. Len(q) |-> q[Len(q) - k + 1]]
      BY <3>2 DEF B!Reverse
    <3>4. (B!Reverse(files[iFile]))' = [k \in 1 .. Len(q) |-> q[Len(q) - k + 1]]
      BY <3>2 DEF B!Reverse
    <3> QED
      BY <3>3, <3>4
  <2>5. c' = B!CharAt(copy, 0 + 1) /\ 0 <= Len(copy)
    BY <1>1, <1>2
  <2> QED
    BY <1>1, <1>3, <1>4, <1>6, <2>1, <2>2, <2>4, <2>5
       DEF B!Flipping, B!CharAt, B!Char, B!EOF, B!NoFile
<1> QED
  BY <1>1, <1>3, <1>5, <1>6, <1>8, <1>9, FlipSafe

LEMMA SourceIs ==
  ASSUME B!Safe, flipPc = "flip"
  PROVE  /\ B!source \in Names /\ files[B!source] # B!NoFile
         /\ files[B!source] \in Seq(B!Byte) /\ Len(files[B!source]) \in Nat
<1>1. /\ FilesOK /\ B!Flipping /\ iFile \in Names
  BY FlipFacts
<1>2. PICK src : src = B!source
  OBVIOUS
<1>3. src \in Names
  BY <1>1, <1>2, Bytes DEF B!source
<1>4. files[src] # B!NoFile
  BY <1>1, <1>2 DEF B!Flipping
<1> QED
  BY <1>1, <1>2, <1>3, <1>4, FileIs

LEMMA FlipFlipByte ==
  ASSUME B!Safe, B!FlipByte
  PROVE  B!Safe'
<1>1. /\ flipPc = "flip" /\ c # B!EOF
      /\ copy' = Append(copy, BYTES - 1 - B!ToByte(c))
      /\ c' = B!CharAt(files[B!source], Len(copy') + 1)
      /\ UNCHANGED <<files, flipPc, mode, iFile, outName, fileSize, ahead, written>>
  BY DEF B!FlipByte, B!args
<1>2. /\ FilesOK /\ B!RunOK /\ B!Flipping /\ c \in Int
      /\ fileSize \in Nat /\ written \in 0 .. fileSize
      /\ copy \in Seq(B!Byte) /\ Len(copy) \in Nat /\ ahead \in Seq(B!Byte)
  BY <1>1, FlipFacts, CharIsInt
<1>3. PICK q : q = files[B!source] /\ q \in Seq(B!Byte) /\ Len(q) \in Nat
  BY <1>1, SourceIs
<1>4. PICK n \in Nat : n = Len(copy)
  BY <1>2
<1>5. /\ n <= Len(q) /\ c = B!CharAt(q, n + 1)
      /\ \A k \in 1 .. n : q[k] # BYTES - 1 /\ copy[k] = BYTES - 1 - q[k]
  BY <1>2, <1>3, <1>4 DEF B!Flipping
<1>6. n + 1 \in 1 .. Len(q) /\ n + 1 \in Int
  BY <1>1, <1>3, <1>5, CharAtIs
<1>7. /\ B!ToByte(c) = q[n + 1] /\ q[n + 1] # BYTES - 1
      /\ BYTES - 1 - q[n + 1] \in B!Byte
  <2>1. c = B!Char(q[n + 1]) /\ q[n + 1] \in B!Byte
    BY <1>3, <1>5, <1>6, CharAtIs
  <2> QED
    BY <1>1, <2>1, CharsAndBytes
<1>8. /\ copy' \in Seq(B!Byte) /\ Len(copy') = n + 1
      /\ copy'[n + 1] = BYTES - 1 - q[n + 1]
      /\ \A k \in 1 .. n : copy'[k] = copy[k]
  BY <1>1, <1>2, <1>4, <1>7
<1>9. CharOK'
  <2>1. c' = B!CharAt(q, n + 1 + 1) /\ n + 1 + 1 \in Int
    BY <1>1, <1>3, <1>8
  <2> QED
    BY <1>3, <2>1, CharAtIs DEF CharOK
<1>10. FilesOK' /\ B!RunOK' /\ written' \in 0 .. fileSize' /\ ahead' \in Seq(B!Byte)
  BY <1>1, <1>2 DEF FilesOK, B!RunOK
<1>11. B!Flipping'
  <2>1. B!source' = B!source /\ (B!UsesTemp' <=> B!UsesTemp)
    BY <1>1 DEF B!source, B!UsesTemp
  <2>2. \A k \in 1 .. n + 1 : k \in 1 .. n \/ k = n + 1
    OBVIOUS
  <2>3. \A k \in 1 .. n + 1 : q[k] # BYTES - 1 /\ copy'[k] = BYTES - 1 - q[k]
    BY <1>5, <1>7, <1>8, <2>2
  <2>4. n + 1 <= Len(q)
    BY <1>3, <1>6
  <2>5. PICK src : src = B!source
    OBVIOUS
  <2>6. /\ mode \in {"bf", "bfr"} /\ files[src] # B!NoFile
        /\ mode = "bfr" /\ ~B!UsesTemp => files["temp.txt"] = B!Reverse(files[iFile])
    BY <1>2, <2>5 DEF B!Flipping
  <2> QED
    BY <1>1, <1>3, <1>8, <2>1, <2>3, <2>4, <2>5, <2>6
       DEF B!Flipping, B!CharAt, B!Char, B!EOF, B!NoFile, B!Reverse
<1> QED
  BY <1>1, <1>8, <1>9, <1>10, <1>11, FlipSafe

LEMMA FlipFlipEnd ==
  ASSUME B!Safe, B!FlipEnd
  PROVE  B!Safe'
<1>1. /\ B!ProcessEnds
      /\ LET made == [files EXCEPT ![outName] = copy]
         IN  files' = IF mode = "bfr" THEN [made EXCEPT !["temp.txt"] = B!NoFile] ELSE made
  BY DEF B!FlipEnd
<1>2. FilesOK /\ copy \in Seq(B!Byte)
  BY FlipFacts
<1>3. FilesOK'
  BY <1>1, <1>2 DEF FilesOK
<1> QED
  BY <1>1, <1>3, FlipEnds

LEMMA FlipUnchanged ==
  ASSUME B!Safe, UNCHANGED flipVars
  PROVE  B!Safe'
<1>1. UNCHANGED <<files, flipPc, mode, iFile, outName, fileSize, ahead,
                c, written, copy>>
  BY DEF flipVars
<1>2. /\ FilesOK /\ CharOK /\ B!RunOK /\ written \in 0 .. fileSize /\ copy \in Seq(B!Byte)
      /\ ahead \in Seq(B!Byte)
      /\ flipPc \in {"shell", "temp", "reverse", "flip"}
      /\ flipPc = "reverse" => B!Reversing
      /\ flipPc = "flip" => B!Flipping
  BY FlipFacts DEF B!Safe, B!TypeOK
<1>3. FilesOK' /\ CharOK' /\ B!RunOK'
  BY <1>1, <1>2 DEF FilesOK, CharOK, B!RunOK
<1>4. B!Reversing => B!Reversing'
  BY <1>1 DEF B!Reversing, B!UsesTemp, B!CharAt, B!Char, B!EOF
<1>5. B!Flipping => B!Flipping'
  BY <1>1 DEF B!Flipping, B!UsesTemp, B!source, B!Reverse, B!NoFile, B!CharAt, B!Char, B!EOF
<1> QED
  BY <1>1, <1>2, <1>3, <1>4, <1>5, FlipSafe

LEMMA FlipNext ==
  ASSUME B!Safe, [B!Next]_flipVars
  PROVE  B!Safe'
<1>1. ASSUME NEW m \in {"bf", "r", "bfr"}, NEW in \in Names, NEW out \in Names,
             B!Open(m, in, out)
      PROVE  B!Safe'
  BY <1>1, FlipOpen
<1>2. CASE B!OpenTemp
  BY <1>2, FlipOpenTemp
<1>3. CASE B!TempFails
  BY <1>3, FlipTempFails
<1>4. CASE B!ReverseByte
  BY <1>4, FlipReverseByte
<1>5. CASE B!ReverseEnd
  BY <1>5, FlipReverseEnd
<1>6. CASE B!Rewind
  BY <1>6, FlipRewind
<1>7. CASE B!FlipByte
  BY <1>7, FlipFlipByte
<1>8. CASE B!FlipEnd
  BY <1>8, FlipFlipEnd
<1>9. CASE UNCHANGED flipVars
  BY <1>9, FlipUnchanged
<1> QED
  BY <1>1, <1>2, <1>3, <1>4, <1>5, <1>6, <1>7, <1>8, <1>9 DEF B!Next

LEMMA FlipSteps == [ProgramsNext]_programVars => [B!Next]_flipVars
BY Zenon DEF ProgramsNext, FractalRuns, ChimeRuns, BitflipRuns, BytecheckRuns, ReaderRuns,
             programVars

(* What bitflip has written so far is the flipped or reversed bytes that it *)
(* has read; nothing is said of -bfr when its input or output is temp.txt.  *)
THEOREM SpecBitflipSafe == ProgramsSpec => []B!Safe
<1>1. ProgramsInit => B!Safe
  BY FlipInit DEF ProgramsInit
<1>2. B!Safe /\ [ProgramsNext]_programVars => B!Safe'
  BY FlipSteps, FlipNext
<1> QED
  BY <1>1, <1>2, PTL DEF ProgramsSpec

-----------------------------------------------------------------------------
\* CopyIsRight, of the file that a run leaves
MadeRight ==
  LET wanted == B!Result(mode, files[iFile])
      made   == files'[outName]
  IN  IF mode = "r" \/ \A k \in DOMAIN files[iFile] : files[iFile][k] # BYTES - 1
      THEN made = wanted
      ELSE B!IsPrefix(made, wanted)

LEMMA ReverseEndIsRight ==
  ASSUME B!Safe, B!ReverseEnd
  PROVE  MadeRight
<1>1. /\ flipPc = "reverse" /\ written = fileSize /\ mode = "r"
      /\ files' = [files EXCEPT ![outName] = copy]
  BY DEF B!ReverseEnd
<1>2. copy = B!Reverse(files[iFile])
  <2>1. ~B!UsesTemp
    BY <1>1 DEF B!UsesTemp
  <2> QED
    BY <1>1, <2>1, ReversedAll
<1>3. files'[outName] = copy
  BY <1>1, FlipFacts DEF FilesOK
<1>4. B!Result("r", files[iFile]) = B!Reverse(files[iFile])
  BY Zenon DEF B!Result
<1>5. PICK w, q : w = B!Result(mode, files[iFile]) /\ q = files[iFile] /\ w = files'[outName]
  BY <1>1, <1>2, <1>3, <1>4
<1> QED
  BY <1>1, <1>5, Zenon DEF MadeRight

LEMMA FlipEndIsRight ==
  ASSUME B!Safe, B!FlipEnd, ~B!UsesTemp
  PROVE  MadeRight
<1>1. /\ flipPc = "flip" /\ c = B!EOF
      /\ LET made == [files EXCEPT ![outName] = copy]
         IN  files' = IF mode = "bfr" THEN [made EXCEPT !["temp.txt"] = B!NoFile] ELSE made
  BY DEF B!FlipEnd
<1>2. /\ FilesOK /\ B!Flipping /\ B!RunOK /\ iFile \in Names /\ outName \in Names
      /\ copy \in Seq(B!Byte) /\ Len(copy) \in Nat
  BY <1>1, FlipFacts
<1>3. mode \in {"bf", "bfr"} /\ files'[outName] = copy
  <2>1. mode \in {"bf", "bfr"}
    BY <1>2 DEF B!Flipping
  <2>2. mode = "bfr" => outName # "temp.txt"
    BY DEF B!UsesTemp
  <2> QED
    BY <1>1, <1>2, <2>1, <2>2, Bytes DEF FilesOK
<1>4. PICK q : q = files[B!source] /\ q \in Seq(B!Byte) /\ Len(q) \in Nat
  BY <1>1, SourceIs
<1>5. PICK n \in Nat : n = Len(copy)
  BY <1>2
<1>6. /\ n <= Len(q) /\ B!CharAt(q, n + 1) = B!EOF
      /\ \A k \in 1 .. n : copy[k] = BYTES - 1 - q[k]
  BY <1>1, <1>2, <1>4, <1>5 DEF B!Flipping
<1>7. n < Len(q) => \E k \in 1 .. Len(q) : q[k] = BYTES - 1
  <2> SUFFICES ASSUME n < Len(q) PROVE \E k \in 1 .. Len(q) : q[k] = BYTES - 1
    OBVIOUS
  <2>1. n + 1 \in 1 .. Len(q) /\ n + 1 \in Int
    BY <1>4
  <2>2. B!Char(q[n + 1]) = B!EOF /\ q[n + 1] \in B!Byte
    BY <1>4, <1>6, <2>1, CharAtIs
  <2>3. q[n + 1] = BYTES - 1
    BY <2>2, CharsAndBytes
  <2> QED
    BY <2>1, <2>3
<1>8. B!IsPrefix(copy, B!Flipped(q)) /\ (n = Len(q) => copy = B!Flipped(q))
  BY <1>2, <1>4, <1>5, <1>6, FlippedIs
<1>9. PICK f : f = files[iFile] /\ f \in Seq(B!Byte) /\ Len(f) \in Nat
  BY <1>1, <1>2, FileIs DEF B!RunOK
<1>10. B!Result(mode, f) = B!Flipped(q)
  <2>1. CASE mode = "bf"
    <3>1. q = f
      BY <1>4, <1>9, <2>1 DEF B!source
    <3>2. B!Result("bf", f) = B!Flipped(f)
      BY Zenon DEF B!Result
    <3> QED
      BY <2>1, <3>1, <3>2
  <2>2. CASE mode = "bfr"
    <3>1. q = B!Reverse(f)
      BY <1>2, <1>4, <1>9, <2>2 DEF B!source, B!Flipping
    <3>2. "bfr" # "bf" /\ "bfr" # "r"
      OBVIOUS
    <3>3. B!Result("bfr", f) = B!Flipped(B!Reverse(f))
      BY <3>2, Zenon DEF B!Result
    <3> QED
      BY <2>2, <3>1, <3>3
  <2> QED
    BY <1>3, <2>1, <2>2
<1>11. (\A k \in DOMAIN f : f[k] # BYTES - 1) => n = Len(q)
  <2> SUFFICES ASSUME \A k \in DOMAIN f : f[k] # BYTES - 1 PROVE n = Len(q)
    OBVIOUS
  <2>1. \A k \in 1 .. Len(f) : f[k] # BYTES - 1
    BY <1>9, LenProperties
  <2>2. \A k \in 1 .. Len(q) : q[k] # BYTES - 1
    <3>1. CASE mode = "bf"
      BY <1>4, <1>9, <2>1, <3>1 DEF B!source
    <3>2. CASE mode = "bfr"
      <4>1. q = B!Reverse(f)
        BY <1>2, <1>4, <1>9, <3>2 DEF B!source, B!Flipping
      <4>2. Len(q) = Len(f) /\ \A k \in 1 .. Len(f) : q[k] = f[Len(f) - k + 1]
        BY <1>9, <4>1, ReverseIs
      <4>3. \A k \in 1 .. Len(f) : Len(f) - k + 1 \in 1 .. Len(f)
        BY <1>9
      <4> QED
        BY <2>1, <4>2, <4>3
    <3> QED
      BY <1>3, <3>1, <3>2
  <2> QED
    BY <1>4, <1>6, <1>7, <2>2
<1>12. CASE \A k \in DOMAIN f : f[k] # BYTES - 1
  <2>1. copy = B!Flipped(q)
    BY <1>8, <1>11, <1>12
  <2>2. files'[outName] = B!Result(mode, files[iFile])
    BY <1>3, <1>9, <1>10, <2>1
  <2> QED
    BY <1>9, <1>12, <2>2, Zenon DEF MadeRight
<1>13. CASE ~(\A k \in DOMAIN f : f[k] # BYTES - 1)
  <2>1. B!IsPrefix(files'[outName], B!Result(mode, files[iFile]))
    BY <1>3, <1>8, <1>9, <1>10
  <2>2. mode # "r"
    BY <1>3
  <2> QED
    BY <1>9, <1>13, <2>1, <2>2, Zenon DEF MadeRight
<1> QED
  BY <1>12, <1>13

LEMMA StepIsRight ==
  ASSUME B!Safe, B!Next, flipPc' = "shell", flipPc \in {"reverse", "flip"}, ~B!UsesTemp
  PROVE  MadeRight
<1>1. B!ReverseEnd \/ B!FlipEnd
  BY DEF B!Next, B!Open, B!OpenTemp, B!TempFails, B!ReverseByte, B!Rewind, B!FlipByte
<1> QED
  BY <1>1, ReverseEndIsRight, FlipEndIsRight

LEMMA StepKeepsFiles ==
  ASSUME B!Safe, B!Next, NEW n \in Names \ {"temp.txt"}
  PROVE  \/ files[n] = B!NoFile
         \/ files'[n] = files[n]
         \/ flipPc # "shell" /\ n = outName
<1>1. FilesOK /\ n \in Names /\ n # "temp.txt"
  BY FlipFacts
<1>2. ASSUME NEW m \in {"bf", "r", "bfr"}, NEW in \in Names, NEW out \in Names,
             B!Open(m, in, out)
      PROVE  files[n] = B!NoFile \/ files'[n] = files[n]
  BY <1>1, <1>2 DEF B!Open, FilesOK
<1>3. CASE B!OpenTemp \/ B!Rewind
  BY <1>1, <1>3 DEF B!OpenTemp, B!Rewind, FilesOK
<1>4. CASE B!TempFails \/ B!ReverseByte \/ B!FlipByte
  BY <1>1, <1>4 DEF B!TempFails, B!ReverseByte, B!FlipByte
<1>5. CASE B!ReverseEnd
  BY <1>1, <1>5 DEF B!ReverseEnd, FilesOK
<1>6. CASE B!FlipEnd
  BY <1>1, <1>6 DEF B!FlipEnd, FilesOK
<1> QED
  BY <1>2, <1>3, <1>4, <1>5, <1>6 DEF B!Next

(* A run of bitflip leaves the flipped, reversed or flipped and reversed   *)
(* bytes of its input if none of them is 0xFF, the beginning of them if    *)
(* one is and they are to be flipped, and spares every other file.  What   *)
(* -bfr makes of or into temp.txt is not claimed.                          *)
THEOREM SpecBitflipCopies == ProgramsSpec => BitflipCopies
<1> DEFINE Right == flipPc' = "shell" /\ flipPc \in {"reverse", "flip"} /\ ~B!UsesTemp =>
                      MadeRight
           Kept == \A n \in Names \ {"temp.txt"} :
                     files[n] = B!NoFile \/ files'[n] = files[n] \/ (flipPc # "shell" /\ n = outName)
<1>1. ASSUME B!Safe, [ProgramsNext]_programVars
      PROVE  [Right]_B!vars /\ [Kept]_B!vars
  <2>1. [B!Next]_flipVars
    BY <1>1, FlipSteps
  <2>2. B!Next => Right /\ Kept
    BY <1>1, StepIsRight, StepKeepsFiles
  <2>3. UNCHANGED flipVars => UNCHANGED B!vars
    BY DEF flipVars, B!vars
  <2> HIDE DEF Right, Kept
  <2> QED
    BY <2>1, <2>2, <2>3
<1> HIDE DEF Right, Kept
<1>2. ProgramsSpec => [][Right]_B!vars /\ [][Kept]_B!vars
  BY <1>1, SpecBitflipSafe, PTL DEF ProgramsSpec
<1> QED
  BY <1>2 DEF Right, Kept, MadeRight, BitflipCopies, B!CopyIsRight, B!FilesKept

-----------------------------------------------------------------------------
(* readPcapFile: induction up to a number, without a predicate *)
LEMMA UpTo ==
  ASSUME NEW n \in Nat, NEW P, 0 \in P, \A k \in 0 .. n - 1 : k \in P => k + 1 \in P
  PROVE  0 .. n \subseteq P
<1> DEFINE T == {k \in 0 .. n : k \notin P}
           L == OpToRel(<, Nat)
<1>1. SUFFICES ASSUME T # {} PROVE FALSE
  OBVIOUS
<1>2. T \subseteq Nat
  OBVIOUS
<1>3. IsWellFoundedOn(L, Nat)
  BY NatLessThanWellFounded
<1>4. PICK x \in T : \A y \in T : <<y, x>> \notin L
  <2> HIDE DEF T, L
  <2> QED
    BY <1>1, <1>2, <1>3, WFMin
<1>5. x \in 0 .. n /\ x \notin P /\ x # 0
  OBVIOUS
<1>6. x - 1 \in 0 .. n - 1 /\ x - 1 \in Nat /\ x - 1 < x /\ x - 1 + 1 = x
  BY <1>5
<1>7. x - 1 \notin P
  BY <1>5, <1>6
<1>8. x - 1 \in T
  BY <1>6, <1>7
<1>9. <<x - 1, x>> \in L
  BY <1>5, <1>6 DEF OpToRel
<1> QED
  BY <1>4, <1>8, <1>9

LEMMA Words ==
  /\ WORD \in Nat \ {0} /\ BYTES \in Nat \ {0} /\ DEFAULT_READ_BUFFER \in Nat
  /\ R!HeaderSize \in Nat /\ R!HeaderSize = 4 * WORD
BY ProgramsAssumption DEF R!HeaderSize

Weighs(g, n) == g = [k \in 0 .. n |-> IF k = 0 THEN 1 ELSE BYTES * g[k - 1]]

LEMMA WeighsExists == \E g : Weighs(g, WORD)
<1> DEFINE P == {n \in 0 .. WORD : \E g : Weighs(g, n)}
<1>1. 0 \in P
  <2> DEFINE g == [k \in 0 .. 0 |-> 1]
  <2>1. g = [k \in 0 .. 0 |-> IF k = 0 THEN 1 ELSE BYTES * g[k - 1]]
    OBVIOUS
  <2>2. Weighs(g, 0)
    <3> HIDE DEF g
    <3> QED
      BY <2>1 DEF Weighs
  <2> QED
    BY <2>2, Words
<1>2. ASSUME NEW n \in 0 .. WORD - 1, n \in P PROVE n + 1 \in P
  <2>1. PICK g : Weighs(g, n)
    BY <1>2
  <2>2. \A k \in 0 .. n : g[k] = IF k = 0 THEN 1 ELSE BYTES * g[k - 1]
    <3>1. g = [k \in 0 .. n |-> IF k = 0 THEN 1 ELSE BYTES * g[k - 1]]
      BY <2>1 DEF Weighs
    <3> QED
      BY <3>1
  <2> DEFINE h == [k \in 0 .. n + 1 |-> IF k = n + 1 THEN BYTES * g[n] ELSE g[k]]
  <2>3. \A k \in 0 .. n + 1 : h[k] = IF k = n + 1 THEN BYTES * g[n] ELSE g[k]
    OBVIOUS
  <2>4. h = [k \in 0 .. n + 1 |-> h[k]]
    OBVIOUS
  <2>5. \A k \in 0 .. n + 1 : h[k] = IF k = 0 THEN 1 ELSE BYTES * h[k - 1]
    <3> HIDE DEF h
    <3> SUFFICES ASSUME NEW k \in 0 .. n + 1
                 PROVE  h[k] = IF k = 0 THEN 1 ELSE BYTES * h[k - 1]
      OBVIOUS
    <3>0. n \in Nat /\ k \in Nat
      BY Words
    <3>1. CASE k = n + 1
      <4>1. k - 1 = n /\ n \in 0 .. n + 1 /\ n # n + 1 /\ k # 0
        BY <3>0, <3>1
      <4> QED
        BY <2>3, <3>1, <4>1
    <3>2. CASE k # n + 1
      <4>1. k \in 0 .. n /\ (k # 0 => k - 1 \in 0 .. n + 1 /\ k - 1 # n + 1)
        BY <3>0, <3>2
      <4> QED
        BY <2>2, <2>3, <3>2, <4>1
    <3> QED
      BY <3>1, <3>2
  <2>6. Weighs(h, n + 1)
    <3> HIDE DEF h
    <3> QED
      BY <2>4, <2>5 DEF Weighs
  <2> HIDE DEF h
  <2>7. n + 1 \in 0 .. WORD
    BY Words
  <2> QED
    BY <2>6, <2>7
<1> HIDE DEF P
<1>3. 0 .. WORD \subseteq P
  BY <1>1, <1>2, Words, UpTo
<1>4. WORD \in P
  BY <1>3, Words
<1> QED
  BY <1>4 DEF P

LEMMA WeightIs ==
  /\ R!Weight = [k \in 0 .. WORD |-> IF k = 0 THEN 1 ELSE BYTES * R!Weight[k - 1]]
  /\ \A k \in 0 .. WORD : R!Weight[k] \in Nat \ {0}
<1>1. PICK g : g = [k \in 0 .. WORD |-> IF k = 0 THEN 1 ELSE BYTES * g[k - 1]]
  BY WeighsExists DEF Weighs
<1>2. R!Weight = [k \in 0 .. WORD |-> IF k = 0 THEN 1 ELSE BYTES * R!Weight[k - 1]]
  BY <1>1 DEF R!Weight
<1>3. \A k \in 0 .. WORD : R!Weight[k] = IF k = 0 THEN 1 ELSE BYTES * R!Weight[k - 1]
  BY <1>2
<1> DEFINE P == {k \in 0 .. WORD : R!Weight[k] \in Nat \ {0}}
<1>4. 0 \in P
  BY <1>3, Words
<1>5. ASSUME NEW k \in 0 .. WORD - 1, k \in P PROVE k + 1 \in P
  <2>1. k + 1 \in 0 .. WORD /\ k + 1 # 0 /\ k + 1 - 1 = k
    BY Words
  <2>2. R!Weight[k + 1] = BYTES * R!Weight[k]
    BY <1>3, <2>1
  <2>3. \A x, y \in Nat \ {0} : x * y \in Nat \ {0}
    OBVIOUS
  <2>4. BYTES * R!Weight[k] \in Nat \ {0}
    BY <1>5, <2>3, Words
  <2> QED
    BY <2>1, <2>2, <2>4
<1> HIDE DEF P
<1>6. 0 .. WORD \subseteq P
  BY <1>4, <1>5, Words, UpTo
<1> QED
  BY <1>2, <1>6 DEF P

-----------------------------------------------------------------------------
(* the value of a word: what FoldRight chooses is there *)
LEMMA LeastIs ==
  ASSUME NEW t \in SUBSET Nat, NEW k \in t, \A x \in t : k <= x
  PROVE  R!Min(t) = k
<1>1. \A x \in t : (\A y \in t : x <= y) => x = k
  OBVIOUS
<1> QED
  BY <1>1 DEF R!Min

LEMMA LeastIn ==
  ASSUME NEW n \in Nat, NEW t \in SUBSET (0 .. n), t # {}
  PROVE  R!Min(t) \in t
<1>1. \E k \in t : \A x \in t : k <= x
  <2> DEFINE P == {k \in 0 .. n : \A u \in SUBSET (0 .. k) : u # {} => \E y \in u : \A x \in u : y <= x}
  <2>1. 0 \in P
    <3> SUFFICES ASSUME NEW u \in SUBSET (0 .. 0), u # {}
                 PROVE  \E y \in u : \A x \in u : y <= x
      OBVIOUS
    <3>1. \A y \in u : y = 0
      OBVIOUS
    <3>2. PICK y \in u : y = 0
      BY <3>1
    <3> QED
      BY <3>1, <3>2
  <2>2. ASSUME NEW k \in 0 .. n - 1, k \in P PROVE k + 1 \in P
    <3> SUFFICES ASSUME NEW u \in SUBSET (0 .. k + 1), u # {}
                 PROVE  \E y \in u : \A x \in u : y <= x
      OBVIOUS
    <3>1. CASE u \cap (0 .. k) = {}
      <4>1. \A y \in u : y = k + 1
        BY <3>1
      <4>2. PICK y \in u : y = k + 1
        BY <4>1
      <4>3. \A x \in u : y <= x
        BY <4>1, <4>2
      <4> QED
        BY <4>3
    <3>2. CASE u \cap (0 .. k) # {}
      <4>1. PICK y \in u \cap (0 .. k) : \A x \in u \cap (0 .. k) : y <= x
        BY <2>2, <3>2
      <4>2. \A x \in u : x \in 0 .. k \/ x = k + 1
        OBVIOUS
      <4>3. y \in u /\ \A x \in u : y <= x
        BY <4>1, <4>2
      <4> QED
        BY <4>3
    <3> QED
      BY <3>1, <3>2
  <2> HIDE DEF P
  <2>3. n \in P
    BY <2>1, <2>2, UpTo, n \in 0 .. n
  <2> QED
    BY <2>3 DEF P
<1> QED
  BY <1>1 DEF R!Min

Folded(g, q, S) ==
  g = [t \in SUBSET S |->
         IF t = {} THEN 0 ELSE q[R!Min(t)] + BYTES * g[t \ {R!Min(t)}]]

LEMMA FoldedExists ==
  ASSUME NEW n \in Nat, NEW q
  PROVE  \E g : Folded(g, q, 1 .. n)
<1> DEFINE P == {j \in 0 .. n : \E g : Folded(g, q, n - j + 1 .. n)}
<1>1. 0 \in P
  <2> DEFINE g == [t \in SUBSET (n - 0 + 1 .. n) |-> 0]
  <2>1. \A t \in SUBSET (n - 0 + 1 .. n) : t = {}
    OBVIOUS
  <2>2. \A t \in SUBSET (n - 0 + 1 .. n) :
          g[t] = IF t = {} THEN 0 ELSE q[R!Min(t)] + BYTES * g[t \ {R!Min(t)}]
    BY <2>1
  <2>3. g = [t \in SUBSET (n - 0 + 1 .. n) |-> g[t]]
    OBVIOUS
  <2> HIDE DEF g
  <2>4. Folded(g, q, n - 0 + 1 .. n)
    BY <2>2, <2>3 DEF Folded
  <2> QED
    BY <2>4
<1>2. ASSUME NEW j \in 0 .. n - 1, j \in P PROVE j + 1 \in P
  <2>1. PICK k \in 1 .. n : k = n - j
    OBVIOUS
  <2>2. n - j + 1 = k + 1 /\ n - (j + 1) + 1 = k
    BY <2>1
  <2>3. PICK g : Folded(g, q, k + 1 .. n)
    BY <1>2, <2>2
  <2> DEFINE L == SUBSET (k + 1 .. n)
             M == SUBSET (k .. n)
             h == [t \in M |-> IF k \in t THEN q[k] + BYTES * g[t \ {k}] ELSE g[t]]
  <2>4. \A t \in L : g[t] = IF t = {} THEN 0 ELSE q[R!Min(t)] + BYTES * g[t \ {R!Min(t)}]
    <3>1. g = [t \in L |-> IF t = {} THEN 0 ELSE q[R!Min(t)] + BYTES * g[t \ {R!Min(t)}]]
      BY <2>3 DEF Folded
    <3> HIDE DEF L
    <3> QED
      BY <3>1
  <2>5. \A t \in M : h[t] = IF k \in t THEN q[k] + BYTES * g[t \ {k}] ELSE g[t]
    OBVIOUS
  <2>6. h = [t \in M |-> h[t]]
    OBVIOUS
  <2>7. \A t \in M : h[t] = IF t = {} THEN 0 ELSE q[R!Min(t)] + BYTES * h[t \ {R!Min(t)}]
    <3> HIDE DEF h
    <3> SUFFICES ASSUME NEW t \in M
                 PROVE  h[t] = IF t = {} THEN 0 ELSE q[R!Min(t)] + BYTES * h[t \ {R!Min(t)}]
      OBVIOUS
    <3>1. CASE k \in t
      <4>1. \A x \in t : k <= x
        BY <2>1
      <4>2. R!Min(t) = k
        BY <3>1, <4>1, LeastIs
      <4>3. t \ {k} \in M /\ k \notin t \ {k} /\ t # {}
        BY <3>1
      <4>4. h[t \ {k}] = g[t \ {k}]
        BY <2>5, <4>3
      <4> HIDE DEF M
      <4> QED
        BY <2>5, <3>1, <4>2, <4>3, <4>4
    <3>2. CASE k \notin t
      <4>1. t \in L
        <5>1. \A x \in t : x \in k .. n /\ x # k
          BY <3>2
        <5> QED
          BY <5>1, <2>1
      <4>2. t \ {R!Min(t)} \in M /\ k \notin t \ {R!Min(t)}
        BY <3>2
      <4>3. h[t] = g[t] /\ h[t \ {R!Min(t)}] = g[t \ {R!Min(t)}]
        <5> HIDE DEF M
        <5> QED
          BY <2>5, <3>2, <4>2
      <4> HIDE DEF M, L
      <4> QED
        BY <2>4, <4>1, <4>3
    <3> QED
      BY <3>1, <3>2
  <2> HIDE DEF h
  <2>8. Folded(h, q, n - (j + 1) + 1 .. n)
    BY <2>2, <2>6, <2>7 DEF Folded
  <2>9. j + 1 \in 0 .. n
    OBVIOUS
  <2> QED
    BY <2>8, <2>9
<1> HIDE DEF P
<1>3. n \in P
  BY <1>1, <1>2, UpTo, n \in 0 .. n
<1>4. n - n + 1 = 1
  OBVIOUS
<1> QED
  BY <1>3, <1>4 DEF P

\* v[k] is the value of the bytes after the k-th.
LEMMA ValueIs ==
  ASSUME NEW q \in Seq(Nat)
  PROVE  \E v \in [0 .. Len(q) -> Nat] :
           /\ R!Value(q) = v[0]
           /\ v[Len(q)] = 0
           /\ \A k \in 1 .. Len(q) : v[k - 1] = q[k] + BYTES * v[k]
<1>1. PICK n \in Nat : n = Len(q) /\ DOMAIN q = 1 .. n
  BY LenProperties
<1> DEFINE D == 1 .. n
<1>2. \A g : g = (CHOOSE h : Folded(h, q, D)) => R!Value(q) = g[D]
  BY <1>1, Zenon DEF R!Value, R!FoldRight, R!MapThenFoldSet, Folded
<1>3. PICK g : g = (CHOOSE h : Folded(h, q, D)) /\ Folded(g, q, D)
  BY FoldedExists
<1>4. \A t \in SUBSET D : g[t] = IF t = {} THEN 0 ELSE q[R!Min(t)] + BYTES * g[t \ {R!Min(t)}]
  <2>1. g = [t \in SUBSET D |-> IF t = {} THEN 0 ELSE q[R!Min(t)] + BYTES * g[t \ {R!Min(t)}]]
    BY <1>3 DEF Folded
  <2> HIDE DEF D
  <2> QED
    BY <2>1
<1>5. g[{}] = 0
  BY <1>4
<1>6. ASSUME NEW k \in 1 .. n PROVE g[k .. n] = q[k] + BYTES * g[k + 1 .. n]
  <2>0. \A x \in k .. n : x \in D /\ x \in Nat /\ k <= x
    OBVIOUS
  <2>1. k .. n \in SUBSET D /\ k \in k .. n /\ k .. n # {} /\ k .. n \in SUBSET Nat
    <3>1. PICK t : t = k .. n
      OBVIOUS
    <3>2. t \in SUBSET D /\ t \in SUBSET Nat
      BY <2>0, <3>1
    <3>3. k \in t
      BY <3>1
    <3> QED
      BY <3>1, <3>2, <3>3
  <2>2. R!Min(k .. n) = k
    BY <2>0, <2>1, LeastIs
  <2>3. (k .. n) \ {k} = k + 1 .. n
    OBVIOUS
  <2> HIDE DEF D
  <2> QED
    BY <1>4, <2>1, <2>2, <2>3
<1> DEFINE v == [k \in 0 .. n |-> g[k + 1 .. n]]
<1>7. v[n] = 0
  <2>1. n + 1 .. n = {}
    OBVIOUS
  <2>2. v[n] = g[n + 1 .. n]
    BY n \in 0 .. n
  <2> QED
    BY <1>5, <2>1, <2>2
<1>8. \A k \in 1 .. n : v[k - 1] = q[k] + BYTES * v[k]
  <2> SUFFICES ASSUME NEW k \in 1 .. n PROVE v[k - 1] = q[k] + BYTES * v[k]
    OBVIOUS
  <2>1. k - 1 \in 0 .. n /\ k \in 0 .. n /\ k - 1 + 1 = k
    OBVIOUS
  <2>2. v[k - 1] = g[k .. n] /\ v[k] = g[k + 1 .. n]
    BY <2>1
  <2> HIDE DEF v
  <2> QED
    BY <1>6, <2>2
<1>9. R!Value(q) = v[0]
  <2>1. v[0] = g[1 .. n]
    BY 0 \in 0 .. n, 0 + 1 = 1
  <2> HIDE DEF v
  <2> QED
    BY <1>2, <1>3, <2>1
<1>10. v \in [0 .. n -> Nat]
  <2> HIDE DEF v
  <2> DEFINE P == {j \in 0 .. n : v[n - j] \in Nat}
  <2>1. 0 \in P
    BY <1>7
  <2>2. ASSUME NEW j \in 0 .. n - 1, j \in P PROVE j + 1 \in P
    <3>1. PICK k \in 1 .. n : k = n - j
      OBVIOUS
    <3>2. v[k] \in Nat /\ q[k] \in Nat /\ n - (j + 1) = k - 1
      BY <1>1, <2>2, <3>1, ElementOfSeq
    <3>3. \A x, y, z \in Nat : x + y * z \in Nat
      OBVIOUS
    <3>4. v[k - 1] = q[k] + BYTES * v[k] /\ BYTES \in Nat
      BY <1>8, Words
    <3>5. v[k - 1] \in Nat
      <4>1. PICK x \in Nat, y \in Nat, z \in Nat : x = q[k] /\ y = BYTES /\ z = v[k]
        BY <3>2, <3>4
      <4>2. v[k - 1] = x + y * z
        BY <3>4, <4>1
      <4> QED
        BY <3>3, <4>2
    <3> QED
      BY <3>2, <3>5
  <2> HIDE DEF P
  <2>3. 0 .. n \subseteq P
    BY <2>1, <2>2, UpTo
  <2>4. \A k \in 0 .. n : v[k] \in Nat
    <3> SUFFICES ASSUME NEW k \in 0 .. n PROVE v[k] \in Nat
      OBVIOUS
    <3>1. n - k \in 0 .. n /\ n - (n - k) = k
      OBVIOUS
    <3> QED
      BY <2>3, <3>1 DEF P
  <2>5. v = [k \in 0 .. n |-> v[k]]
    BY DEF v
  <2> QED
    BY <2>4, <2>5
<1> HIDE DEF v
<1> QED
  BY <1>1, <1>7, <1>8, <1>9, <1>10

-----------------------------------------------------------------------------
(* the bytes of a capture *)
Flattens(g, seqs, n) ==
  g = [k \in 1 .. n |-> IF k = 1 THEN seqs[k] ELSE g[k - 1] \o seqs[k]]

LEMMA FlattensExists ==
  ASSUME NEW n \in Nat, NEW seqs
  PROVE  \E g : Flattens(g, seqs, n)
<1> DEFINE P == {j \in 0 .. n : \E g : Flattens(g, seqs, j)}
<1>1. 0 \in P
  <2> DEFINE g == [k \in 1 .. 0 |-> <<>>]
  <2>1. g = [k \in 1 .. 0 |-> IF k = 1 THEN seqs[k] ELSE g[k - 1] \o seqs[k]]
    OBVIOUS
  <2>2. Flattens(g, seqs, 0)
    <3> HIDE DEF g
    <3> QED
      BY <2>1 DEF Flattens
  <2> QED
    BY <2>2
<1>2. ASSUME NEW j \in 0 .. n - 1, j \in P PROVE j + 1 \in P
  <2>1. PICK g : Flattens(g, seqs, j)
    BY <1>2
  <2>2. \A k \in 1 .. j : g[k] = IF k = 1 THEN seqs[k] ELSE g[k - 1] \o seqs[k]
    <3>1. g = [k \in 1 .. j |-> IF k = 1 THEN seqs[k] ELSE g[k - 1] \o seqs[k]]
      BY <2>1 DEF Flattens
    <3> QED
      BY <3>1
  <2> DEFINE last == IF j + 1 = 1 THEN seqs[j + 1] ELSE g[j] \o seqs[j + 1]
             h == [k \in 1 .. j + 1 |-> IF k = j + 1 THEN last ELSE g[k]]
  <2>3. \A k \in 1 .. j + 1 : h[k] = IF k = j + 1 THEN last ELSE g[k]
    OBVIOUS
  <2>4. h = [k \in 1 .. j + 1 |-> h[k]]
    OBVIOUS
  <2>5. \A k \in 1 .. j + 1 : h[k] = IF k = 1 THEN seqs[k] ELSE h[k - 1] \o seqs[k]
    <3> HIDE DEF h
    <3> SUFFICES ASSUME NEW k \in 1 .. j + 1
                 PROVE  h[k] = IF k = 1 THEN seqs[k] ELSE h[k - 1] \o seqs[k]
      OBVIOUS
    <3>1. CASE k = j + 1
      <4>1. k # 1 => j \in 1 .. j + 1 /\ j # j + 1 /\ k - 1 = j
        BY <3>1
      <4>2. k # 1 => h[k - 1] = g[j]
        BY <2>3, <4>1
      <4> QED
        BY <2>3, <3>1, <4>2
    <3>2. CASE k # j + 1
      <4>1. k \in 1 .. j /\ (k # 1 => k - 1 \in 1 .. j + 1 /\ k - 1 # j + 1)
        BY <3>2
      <4>2. h[k] = g[k] /\ (k # 1 => h[k - 1] = g[k - 1])
        BY <2>3, <3>2, <4>1
      <4> QED
        BY <2>2, <4>1, <4>2
    <3> QED
      BY <3>1, <3>2
  <2> HIDE DEF h
  <2>6. Flattens(h, seqs, j + 1)
    BY <2>4, <2>5 DEF Flattens
  <2> QED
    BY <2>6
<1> HIDE DEF P
<1>3. n \in P
  BY <1>1, <1>2, UpTo, n \in 0 .. n
<1> QED
  BY <1>3 DEF P

\* f[k] is what the first k sequences make together.
LEMMA FlattenIs ==
  ASSUME NEW S, NEW seqs \in Seq(Seq(S))
  PROVE  \E f \in [0 .. Len(seqs) -> Seq(S)] :
           /\ R!FlattenSeq(seqs) = f[Len(seqs)]
           /\ f[0] = <<>>
           /\ \A k \in 1 .. Len(seqs) : f[k] = f[k - 1] \o seqs[k]
<1>1. PICK n \in Nat : n = Len(seqs)
  BY LenProperties
<1>2. \A g : n # 0 /\ g = (CHOOSE h : Flattens(h, seqs, n)) => R!FlattenSeq(seqs) = g[n]
  BY <1>1, Zenon DEF R!FlattenSeq, Flattens
<1>3. PICK g : g = (CHOOSE h : Flattens(h, seqs, n)) /\ Flattens(g, seqs, n)
  BY FlattensExists
<1>4. \A k \in 1 .. n : g[k] = IF k = 1 THEN seqs[k] ELSE g[k - 1] \o seqs[k]
  <2>1. g = [k \in 1 .. n |-> IF k = 1 THEN seqs[k] ELSE g[k - 1] \o seqs[k]]
    BY <1>3 DEF Flattens
  <2> QED
    BY <2>1
<1> DEFINE f == [k \in 0 .. n |-> IF k = 0 THEN <<>> ELSE g[k]]
<1>5. /\ f[0] = <<>>
      /\ \A k \in 1 .. n : f[k] = g[k]
  OBVIOUS
<1>10. f = [k \in 0 .. n |-> f[k]]
  OBVIOUS
<1> HIDE DEF f
<1>6. \A k \in 1 .. n : seqs[k] \in Seq(S)
  BY <1>1, ElementOfSeq
<1>7. \A k \in 1 .. n : f[k] = f[k - 1] \o seqs[k]
  <2> SUFFICES ASSUME NEW k \in 1 .. n PROVE f[k] = f[k - 1] \o seqs[k]
    OBVIOUS
  <2>1. CASE k = 1
    <3>1. f[k] = seqs[1] /\ f[k - 1] = <<>>
      BY <1>4, <1>5, <2>1
    <3>2. <<>> \o seqs[1] = seqs[1]
      BY <1>6, <2>1, ConcatEmptySeq
    <3> QED
      BY <2>1, <3>1, <3>2
  <2>2. CASE k # 1
    <3>1. k - 1 \in 1 .. n
      BY <2>2
    <3> QED
      BY <1>4, <1>5, <2>2, <3>1
  <2> QED
    BY <2>1, <2>2
<1>8. \A k \in 0 .. n : f[k] \in Seq(S)
  <2> DEFINE P == {k \in 0 .. n : f[k] \in Seq(S)}
  <2>1. 0 \in P
    <3>1. <<>> \in Seq(S) /\ 0 \in 0 .. n /\ f[0] = <<>>
      BY <1>5
    <3>2. f[0] \in Seq(S)
      BY <3>1
    <3> QED
      BY <3>1, <3>2
  <2>2. ASSUME NEW k \in 0 .. n - 1, k \in P PROVE k + 1 \in P
    <3>1. k + 1 \in 1 .. n /\ k + 1 - 1 = k
      OBVIOUS
    <3>0. PICK m \in 1 .. n : m = k + 1 /\ m - 1 = k
      BY <3>1
    <3>2. f[m] = f[k] \o seqs[m] /\ seqs[m] \in Seq(S)
      BY <1>6, <1>7, <3>0
    <3>3. f[m] \in Seq(S)
      BY <2>2, <3>2, ConcatProperties
    <3> QED
      BY <3>0, <3>1, <3>3
  <2> HIDE DEF P
  <2>3. 0 .. n \subseteq P
    BY <2>1, <2>2, UpTo
  <2> QED
    BY <2>3 DEF P
<1>9. R!FlattenSeq(seqs) = f[n]
  <2>1. CASE n = 0
    <3>1. R!FlattenSeq(seqs) = seqs
      BY <1>1, <2>1 DEF R!FlattenSeq
    <3> QED
      BY <1>1, <1>5, <2>1, <3>1, EmptySeq
  <2>2. CASE n # 0
    BY <1>2, <1>3, <1>5, <2>2
  <2> QED
    BY <2>1, <2>2
<1> QED
  BY <1>1, <1>5, <1>7, <1>8, <1>9, <1>10

LEMMA LittleEndianIs ==
  ASSUME NEW n \in Nat
  PROVE  /\ R!LittleEndian(n) \in Seq(0 .. BYTES - 1)
         /\ Len(R!LittleEndian(n)) = WORD
         /\ \A k \in 1 .. WORD : R!LittleEndian(n)[k] = (n \div R!Weight[k - 1]) % BYTES
<1>1. R!LittleEndian(n) = [k \in 1 .. WORD |-> (n \div R!Weight[k - 1]) % BYTES]
  BY DEF R!LittleEndian
<1>2. \A m \in Nat, w, b \in Nat \ {0} : (m \div w) % b \in 0 .. b - 1
  OBVIOUS
<1>3. \A k \in 1 .. WORD : (n \div R!Weight[k - 1]) % BYTES \in 0 .. BYTES - 1
  <2> SUFFICES ASSUME NEW k \in 1 .. WORD
               PROVE  (n \div R!Weight[k - 1]) % BYTES \in 0 .. BYTES - 1
    OBVIOUS
  <2>1. k - 1 \in 0 .. WORD
    BY Words
  <2> QED
    BY <1>2, <2>1, Words, WeightIs
<1>4. R!LittleEndian(n) \in [1 .. WORD -> 0 .. BYTES - 1]
  BY <1>1, <1>3
<1> QED
  BY <1>1, <1>4, Words

LEMMA RecordReverseIs ==
  ASSUME NEW S, NEW q \in Seq(S)
  PROVE  R!Reverse(q) \in Seq(S) /\ Len(R!Reverse(q)) = Len(q)
<1>1. Len(q) \in Nat
  BY LenProperties
<1>2. \A k \in 1 .. Len(q) : Len(q) - k + 1 \in 1 .. Len(q) /\ q[Len(q) - k + 1] \in S
  BY <1>1, ElementOfSeq
<1>3. R!Reverse(q) = [k \in 1 .. Len(q) |-> q[Len(q) - k + 1]]
  BY DEF R!Reverse
<1>4. R!Reverse(q) \in [1 .. Len(q) -> S]
  BY <1>2, <1>3
<1> QED
  BY <1>1, <1>3, <1>4

LEMMA WordIs ==
  ASSUME NEW n \in Nat
  PROVE  R!Word(n) \in Seq(0 .. BYTES - 1) /\ Len(R!Word(n)) = WORD
<1>1. PICK t : t = R!LittleEndian(n)
  OBVIOUS
<1>2. t \in Seq(0 .. BYTES - 1) /\ Len(t) = WORD
  BY <1>1, LittleEndianIs
<1>3. R!Reverse(t) \in Seq(0 .. BYTES - 1) /\ Len(R!Reverse(t)) = WORD
  BY <1>2, RecordReverseIs
<1> QED
  BY <1>1, <1>2, <1>3 DEF R!Word

LEMMA CaptureIs ==
  ASSUME capture \in Captures
  PROVE  /\ capture.records \in
              Seq([seconds : Nat, useconds : Nat, wire : Nat, data : Seq(0 .. BYTES - 1)])
         /\ capture.lost \in Nat
         /\ Len(capture.records) \in Nat /\ DOMAIN capture.records = 1 .. Len(capture.records)
<1>1. capture.records \in
              Seq([seconds : Nat, useconds : Nat, wire : Nat, data : Seq(0 .. BYTES - 1)])
  BY ProgramsAssumption
<1> QED
  BY <1>1, ProgramsAssumption, LenProperties

LEMMA RecordIs ==
  ASSUME NEW r \in [seconds : Nat, useconds : Nat, wire : Nat, data : Seq(0 .. BYTES - 1)]
  PROVE  /\ R!Record(r) \in Seq(0 .. BYTES - 1)
         /\ Len(R!Record(r)) = R!HeaderSize + Len(r.data)
<1>1. /\ r.seconds \in Nat /\ r.useconds \in Nat /\ r.wire \in Nat
      /\ r.data \in Seq(0 .. BYTES - 1) /\ Len(r.data) \in Nat
  BY LenProperties
<1> DEFINE S == 0 .. BYTES - 1
<1> HIDE DEF S
<1>2. PICK w1, w2, w3, w4 :
        /\ w1 = R!Word(r.seconds) /\ w2 = R!Word(r.useconds)
        /\ w3 = R!Word(Len(r.data)) /\ w4 = R!Word(r.wire)
  OBVIOUS
<1>3. /\ w1 \in Seq(S) /\ w2 \in Seq(S) /\ w3 \in Seq(S) /\ w4 \in Seq(S) /\ r.data \in Seq(S)
      /\ Len(w1) = WORD /\ Len(w2) = WORD /\ Len(w3) = WORD /\ Len(w4) = WORD
  BY <1>1, <1>2, WordIs DEF S
<1>4. R!Record(r) = w1 \o w2 \o w3 \o w4 \o r.data
  BY <1>2 DEF R!Record
<1>5. w1 \o w2 \in Seq(S) /\ Len(w1 \o w2) = WORD + WORD
  <2>1. w1 \o w2 \in Seq(S) /\ Len(w1 \o w2) = Len(w1) + Len(w2)
    BY <1>3, ConcatProperties
  <2> QED
    BY <1>3, <2>1
<1>6. w1 \o w2 \o w3 \in Seq(S) /\ Len(w1 \o w2 \o w3) = WORD + WORD + WORD
  BY <1>3, <1>5, ConcatProperties
<1>7. /\ w1 \o w2 \o w3 \o w4 \in Seq(S)
      /\ Len(w1 \o w2 \o w3 \o w4) = WORD + WORD + WORD + WORD
  <2>1. PICK w : w = w1 \o w2 \o w3
    OBVIOUS
  <2>2. w \o w4 \in Seq(S) /\ Len(w \o w4) = Len(w) + Len(w4)
    BY <1>3, <1>6, <2>1, ConcatProperties
  <2> QED
    BY <1>3, <1>6, <2>1, <2>2
<1>8. /\ R!Record(r) \in Seq(S)
      /\ Len(R!Record(r)) = WORD + WORD + WORD + WORD + Len(r.data)
  BY <1>3, <1>4, <1>7, ConcatProperties
<1>9. WORD + WORD + WORD + WORD = R!HeaderSize
  BY Words
<1> QED
  BY <1>8, <1>9 DEF S

\* What the records make together, one after the other.
LEMMA BytesOfIs ==
  ASSUME capture \in Captures
  PROVE  /\ \A k \in 0 .. Len(capture.records) :
              R!BytesOf(k) \in Seq(0 .. BYTES - 1) /\ Len(R!BytesOf(k)) \in Nat
         /\ R!BytesOf(0) = <<>>
         /\ \A k \in 1 .. Len(capture.records) :
              R!BytesOf(k) = R!BytesOf(k - 1) \o R!Record(capture.records[k])
<1> DEFINE S == 0 .. BYTES - 1
<1>1. PICK n \in Nat : n = Len(capture.records) /\ DOMAIN capture.records = 1 .. n
  BY CaptureIs
<1>2. \A k \in 1 .. n : R!Record(capture.records[k]) \in Seq(S)
  BY <1>1, CaptureIs, RecordIs, ElementOfSeq
<1> DEFINE Pieces(k) == [m \in 1 .. k |-> R!Record(capture.records[m])]
<1>3. \A k \in 0 .. n : R!BytesOf(k) = R!FlattenSeq(Pieces(k))
  BY DEF R!BytesOf
<1>4. ASSUME NEW k \in 0 .. n
      PROVE  /\ Pieces(k) \in Seq(Seq(S)) /\ Len(Pieces(k)) = k
             /\ \A m \in 1 .. k : Pieces(k)[m] = R!Record(capture.records[m])
  <2>1. PICK q : q = Pieces(k)
    OBVIOUS
  <2>2. \A m \in 1 .. k : R!Record(capture.records[m]) \in Seq(S)
    BY <1>2
  <2>3. q \in [1 .. k -> Seq(S)] /\ \A m \in 1 .. k : q[m] = R!Record(capture.records[m])
    BY <2>1, <2>2
  <2>4. q \in Seq(Seq(S)) /\ Len(q) = k
    <3> HIDE DEF S
    <3>1. q \in Seq(Seq(S))
      BY <2>3, SeqDef
    <3> QED
      BY <2>3, <3>1, LenProperties
  <2> QED
    BY <2>1, <2>3, <2>4
<1>5. PICK f \in [0 .. n -> Seq(S)] :
        /\ f[0] = <<>>
        /\ \A k \in 1 .. n : f[k] = f[k - 1] \o R!Record(capture.records[k])
  <2> HIDE DEF S
  <2>1. n \in 0 .. n
    OBVIOUS
  <2>2. PICK q : q = Pieces(n)
    OBVIOUS
  <2> HIDE DEF Pieces
  <2>3. q \in Seq(Seq(S)) /\ Len(q) = n /\ \A m \in 1 .. n : q[m] = R!Record(capture.records[m])
    BY <1>4, <2>1, <2>2
  <2>4. PICK f \in [0 .. n -> Seq(S)] :
          f[0] = <<>> /\ \A k \in 1 .. n : f[k] = f[k - 1] \o q[k]
    BY <2>3, FlattenIs
  <2> QED
    BY <2>3, <2>4
<1>6. \A k \in 0 .. n : R!BytesOf(k) = f[k]
  <2> HIDE DEF S
  <2> SUFFICES ASSUME NEW k \in 0 .. n PROVE R!BytesOf(k) = f[k]
    OBVIOUS
  <2>1. PICK q : q = Pieces(k)
    OBVIOUS
  <2>2. R!BytesOf(k) = R!FlattenSeq(q)
    BY <1>3, <2>1
  <2> HIDE DEF Pieces
  <2>3. q \in Seq(Seq(S)) /\ Len(q) = k /\ \A m \in 1 .. k : q[m] = R!Record(capture.records[m])
    BY <1>4, <2>1
  <2>4. PICK h \in [0 .. k -> Seq(S)] :
          R!FlattenSeq(q) = h[k] /\ h[0] = <<>> /\ \A m \in 1 .. k : h[m] = h[m - 1] \o q[m]
    BY <2>3, FlattenIs
  <2> DEFINE P == {m \in 0 .. k : h[m] = f[m]}
  <2>5. 0 \in P
    BY <1>5, <2>4
  <2>6. ASSUME NEW m \in 0 .. k - 1, m \in P PROVE m + 1 \in P
    <3>1. PICK l \in 1 .. k : l = m + 1 /\ l - 1 = m
      OBVIOUS
    <3>2. l \in 1 .. n
      OBVIOUS
    <3>3. h[l] = h[m] \o R!Record(capture.records[l])
      BY <2>3, <2>4, <3>1
    <3>4. f[l] = f[m] \o R!Record(capture.records[l])
      BY <1>5, <3>1, <3>2
    <3>5. h[m] = f[m]
      BY <2>6
    <3>6. h[l] = f[l]
      BY <3>3, <3>4, <3>5
    <3> QED
      BY <3>1, <3>6
  <2> HIDE DEF P
  <2>7. k \in P
    <3>1. k \in Nat /\ k \in 0 .. k
      OBVIOUS
    <3>2. 0 .. k \subseteq P
      BY <2>5, <2>6, <3>1, UpTo
    <3> QED
      BY <3>1, <3>2
  <2> QED
    BY <2>2, <2>4, <2>7 DEF P
<1>7. \A k \in 0 .. n : R!BytesOf(k) \in Seq(S) /\ Len(R!BytesOf(k)) \in Nat
  <2> HIDE DEF S
  <2> QED
    BY <1>6, LenProperties
<1>8. \A k \in 1 .. n : k \in 0 .. n /\ k - 1 \in 0 .. n
  OBVIOUS
<1>9. \A k \in 1 .. n : R!BytesOf(k) = R!BytesOf(k - 1) \o R!Record(capture.records[k])
  BY <1>5, <1>6, <1>8
<1>10. R!BytesOf(0) = <<>>
  BY <1>5, <1>6
<1> QED
  BY <1>1, <1>7, <1>9, <1>10

LEMMA CaptureFileIs ==
  ASSUME capture \in Captures
  PROVE  R!file \in Seq(0 .. BYTES - 1) /\ Len(R!file) \in Nat
<1> DEFINE S == 0 .. BYTES - 1
<1>1. PICK n \in Nat : n = Len(capture.records)
  BY CaptureIs
<1>2. PICK all : all = R!BytesOf(n)
  OBVIOUS
<1>3. all \in Seq(S) /\ Len(all) \in Nat
  BY <1>1, <1>2, BytesOfIs, n \in 0 .. n
<1>4. R!file = SubSeq(all, 1, Len(all) - capture.lost)
  BY <1>1, <1>2 DEF R!file
<1>5. capture.lost \in Nat
  BY CaptureIs
<1>6. R!file \in Seq(S)
  <2>1. CASE capture.lost <= Len(all)
    <3>1. Len(all) - capture.lost \in 0 .. Len(all) /\ 1 \in 1 .. Len(all) + 1
      BY <1>3, <1>5, <2>1
    <3>2. Len(all) - capture.lost \in 1 - 1 .. Len(all)
      BY <3>1
    <3> HIDE DEF S
    <3>3. SubSeq(all, 1, Len(all) - capture.lost) \in Seq(S)
      BY <1>3, <3>1, <3>2, SubSeqProperties
    <3> QED
      BY <1>4, <3>3
  <2>2. CASE capture.lost > Len(all)
    <3>1. Len(all) - capture.lost \in Int /\ Len(all) - capture.lost < 1
      BY <1>3, <1>5, <2>2
    <3> HIDE DEF S
    <3>2. SubSeq(all, 1, Len(all) - capture.lost) = <<>>
      BY <1>3, <3>1, SubSeqEmpty
    <3> QED
      BY <1>4, <3>2, EmptySeq
  <2> QED
    BY <1>3, <1>5, <2>1, <2>2
<1> QED
  BY <1>6, LenProperties DEF S

-----------------------------------------------------------------------------
(* readPcapFile: a step *)
LEMMA BytesAre ==
  ASSUME capture \in Captures, position \in Nat, NEW shift \in Nat, NEW n \in Nat,
         NEW S, 0 .. BYTES - 1 \subseteq S, NEW old \in S
  PROVE  R!Bytes(shift, n, old) \in Seq(S) /\ Len(R!Bytes(shift, n, old)) = n
<1>1. PICK t : t = R!file
  OBVIOUS
<1>2. t \in Seq(0 .. BYTES - 1) /\ Len(t) \in Nat
  BY <1>1, CaptureFileIs
<1>3. R!Bytes(shift, n, old) =
        [k \in 1 .. n |-> IF position + shift + k <= Len(t) THEN t[position + shift + k] ELSE old]
  BY <1>1 DEF R!Bytes
<1>4. \A k \in 1 .. n : position + shift + k <= Len(t) => t[position + shift + k] \in S
  <2> SUFFICES ASSUME NEW k \in 1 .. n, position + shift + k <= Len(t)
               PROVE  t[position + shift + k] \in S
    OBVIOUS
  <2>1. PICK at : at = position + shift + k
    OBVIOUS
  <2>2. at \in 1 .. Len(t)
    BY <1>2, <2>1
  <2> QED
    BY <1>2, <2>1, <2>2, ElementOfSeq
<1>5. PICK q : q = R!Bytes(shift, n, old)
  OBVIOUS
<1>6. q \in [1 .. n -> S]
  BY <1>3, <1>4, <1>5
<1>7. q \in Seq(S)
  BY <1>6, SeqDef
<1>8. Len(q) = n
  BY <1>6, <1>7, LenProperties
<1> QED
  BY <1>5, <1>7, <1>8

LEMMA LengthIsNat ==
  ASSUME capture \in Captures, position \in Nat
  PROVE  R!LengthIncluded \in Nat
<1>1. PICK q : q = R!Bytes(2 * WORD, WORD, 0)
  OBVIOUS
<1>2. 2 * WORD \in Nat /\ WORD \in Nat /\ 0 \in Nat /\ 0 .. BYTES - 1 \subseteq Nat
  BY Words
<1>3. q \in Seq(Nat) /\ Len(q) = WORD
  BY <1>1, <1>2, BytesAre
<1>4. PICK n : n = R!Value(q)
  OBVIOUS
<1>5. n \in Nat
  <2>1. PICK v \in [0 .. Len(q) -> Nat] : R!Value(q) = v[0]
    BY <1>3, ValueIs
  <2>2. 0 \in 0 .. Len(q)
    BY <1>2, <1>3
  <2> QED
    BY <1>4, <2>1, <2>2
<1>6. R!endianfixl(n) \in Nat
  <2>1. WORD - 1 \in 0 .. WORD
    BY Words
  <2>2. PICK w \in Nat \ {0} : w = R!Weight[WORD - 1]
    BY <2>1, WeightIs
  <2>3. n \div w \in Nat
    BY <1>5, <2>2
  <2> QED
    BY <2>2, <2>3 DEF R!endianfixl
<1> QED
  BY <1>1, <1>4, <1>5, <1>6 DEF R!LengthIncluded

PacketOK(q) ==
  /\ q.LengthIncluded \in 0 .. DEFAULT_READ_BUFFER
  /\ q.Data \in Seq((0 .. BYTES - 1) \cup {R!Stray})
  /\ Len(q.Data) = q.LengthIncluded

LEMMA ReaderTypes ==
  R!TypeOK <=> /\ capture \in Captures
               /\ readPc \in {"open", "loop", "push", "done", "refused", "crashed"}
               /\ position \in Nat /\ feof \in BOOLEAN /\ EndianFlip \in BOOLEAN
               /\ PacketOK(pPacket)
               /\ \A q \in R!Range(pushed) : PacketOK(q)
BY DEF R!TypeOK, PacketOK

LEMMA NoPacketOK == PacketOK(R!NoPacket)
<1>1. <<>> \in Seq((0 .. BYTES - 1) \cup {R!Stray}) /\ Len(<<>>) = 0
  OBVIOUS
<1>2. 0 \in 0 .. DEFAULT_READ_BUFFER
  BY Words
<1> QED
  BY <1>1, <1>2 DEF PacketOK, R!NoPacket

LEMMA PositionAfter ==
  ASSUME capture \in Captures, position \in Nat, NEW n \in Nat
  PROVE  R!After(n) \in Nat
BY CaptureFileIs DEF R!After

LEMMA ReaderInit == R!Init => R!TypeOK
<1> SUFFICES ASSUME R!Init PROVE R!TypeOK
  OBVIOUS
<1>1. R!Range(pushed) = {}
  BY DEF R!Init, R!Range
<1> QED
  BY <1>1, NoPacketOK, ReaderTypes DEF R!Init

LEMMA ReaderStep ==
  ASSUME R!TypeOK, [R!Next]_readVars
  PROVE  R!TypeOK'
<1>1. /\ capture \in Captures
      /\ readPc \in {"open", "loop", "push", "done", "refused", "crashed"}
      /\ position \in Nat /\ feof \in BOOLEAN /\ EndianFlip \in BOOLEAN
      /\ PacketOK(pPacket)
      /\ \A q \in R!Range(pushed) : PacketOK(q)
  BY ReaderTypes
<1>2. SUFFICES /\ capture' \in Captures
               /\ readPc' \in {"open", "loop", "push", "done", "refused", "crashed"}
               /\ position' \in Nat /\ feof' \in BOOLEAN /\ EndianFlip' \in BOOLEAN
               /\ PacketOK(pPacket')
               /\ \A q \in R!Range(pushed') : PacketOK(q)
  BY DEF R!TypeOK, PacketOK, R!Range, R!Stray
<1>3. PICK n \in Nat : n = R!LengthIncluded
  BY <1>1, LengthIsNat
<1>4. R!HeaderSize + n \in Nat /\ R!HeaderSize \in Nat
  BY Words
<1>5. CASE R!RefuseFile \/ R!ParseStart \/ R!EndOfFile \/ R!OutOfMemory
  BY <1>1, <1>5 DEF R!RefuseFile, R!ParseStart, R!EndOfFile, R!OutOfMemory
<1>6. CASE R!ReadNextPacket
  <2>1. /\ n <= DEFAULT_READ_BUFFER
        /\ pPacket' = [LengthIncluded |-> n, Data |-> R!Bytes(R!HeaderSize, n, R!Stray)]
        /\ position' = R!After(R!HeaderSize + n)
        /\ feof' = R!ReadsPast(R!HeaderSize + n)
        /\ readPc' = "push"
        /\ UNCHANGED <<capture, EndianFlip, pushed>>
    BY <1>3, <1>6 DEF R!ReadNextPacket
  <2>2. PICK t : t = R!Bytes(R!HeaderSize, n, R!Stray)
    OBVIOUS
  <2>3. t \in Seq((0 .. BYTES - 1) \cup {R!Stray}) /\ Len(t) = n
    <3>1. R!Stray \in (0 .. BYTES - 1) \cup {R!Stray}
      OBVIOUS
    <3>2. 0 .. BYTES - 1 \subseteq (0 .. BYTES - 1) \cup {R!Stray}
      OBVIOUS
    <3> QED
      BY <1>1, <1>4, <2>2, <3>1, <3>2, BytesAre
  <2>4. PacketOK(pPacket')
    <3>1. n \in 0 .. DEFAULT_READ_BUFFER
      BY <2>1, Words
    <3>2. pPacket'.LengthIncluded = n /\ pPacket'.Data = t
      BY <2>1, <2>2
    <3> QED
      BY <2>3, <3>1, <3>2 DEF PacketOK
  <2>5. position' \in Nat
    BY <1>1, <1>4, <2>1, PositionAfter
  <2>6. feof' \in BOOLEAN
    BY <2>1 DEF R!ReadsPast
  <2> QED
    BY <1>1, <2>1, <2>4, <2>5, <2>6
<1>7. CASE R!SkipPayload
  <2>1. /\ position' = R!After(R!HeaderSize) + n
        /\ UNCHANGED <<capture, readPc, feof, EndianFlip, pPacket, pushed>>
    BY <1>3, <1>7 DEF R!SkipPayload
  <2>2. R!After(R!HeaderSize) \in Nat
    BY <1>1, <1>4, PositionAfter
  <2> QED
    BY <1>1, <2>1, <2>2
<1>8. CASE R!Push
  <2>1. /\ pushed' = Append(pushed, pPacket) /\ readPc' = "loop"
        /\ UNCHANGED <<capture, position, feof, EndianFlip, pPacket>>
    BY <1>8 DEF R!Push
  <2>2. R!Range(pushed') \subseteq R!Range(pushed) \cup {pPacket}
    BY <2>1 DEF R!Range
  <2> QED
    BY <1>1, <2>1, <2>2
<1>9. CASE UNCHANGED readVars
  BY <1>1, <1>9 DEF readVars
<1> QED
  BY <1>5, <1>6, <1>7, <1>8, <1>9 DEF R!Next

LEMMA ReaderSteps == [ProgramsNext]_programVars => [R!Next]_readVars
BY Zenon DEF ProgramsNext, FractalRuns, ChimeRuns, BitflipRuns, BytecheckRuns, ReaderRuns,
             programVars

-----------------------------------------------------------------------------
(* readPcapFile: what the bytes of a word say *)
LEMMA QuotientIs ==
  ASSUME NEW n \in Nat, NEW a \in Nat \ {0}, NEW q \in Nat, q * a <= n, n < (q + 1) * a
  PROVE  n \div a = q
OBVIOUS

LEMMA DividedTwice ==
  ASSUME NEW n \in Nat, NEW a \in Nat \ {0}, NEW b \in Nat \ {0}
  PROVE  n \div (b * a) = (n \div a) \div b
<1>1. PICK q \in Nat : q = n \div a /\ q * a <= n /\ n < (q + 1) * a
  OBVIOUS
<1>2. PICK p \in Nat : p = q \div b /\ p * b <= q /\ q < (p + 1) * b
  OBVIOUS
<1>3. \A x, y \in Nat : x <= y => x * a <= y * a
  OBVIOUS
<1>4. p * b \in Nat /\ (p + 1) * b \in Nat /\ q + 1 <= (p + 1) * b
  BY <1>2
<1>5. (p * b) * a <= q * a /\ (q + 1) * a <= ((p + 1) * b) * a
  BY <1>3, <1>4, <1>2
<1>6. p * (b * a) = (p * b) * a /\ (p + 1) * (b * a) = ((p + 1) * b) * a /\ b * a \in Nat \ {0}
  OBVIOUS
<1>7. (q + 1) * a \in Nat /\ q * a \in Nat /\ ((p + 1) * b) * a \in Nat /\ (p * b) * a \in Nat
  BY <1>4
<1>8. p * (b * a) <= n /\ n < (p + 1) * (b * a)
  BY <1>1, <1>5, <1>6, <1>7
<1>9. n \div (b * a) = p
  BY <1>6, <1>8, QuotientIs
<1> QED
  BY <1>1, <1>2, <1>9

LEMMA DigitAndRest ==
  ASSUME NEW n \in Nat, NEW b \in Nat \ {0}
  PROVE  n = (n % b) + b * (n \div b)
OBVIOUS

LEMMA BytesAreNat ==
  ASSUME NEW q \in Seq(0 .. BYTES - 1)
  PROVE  q \in Seq(Nat)
<1>1. Len(q) \in Nat /\ q \in [1 .. Len(q) -> 0 .. BYTES - 1]
  BY LenProperties
<1>2. q \in [1 .. Len(q) -> Nat]
  BY <1>1
<1> QED
  BY <1>1, <1>2, SeqDef

LEMMA WeightSteps ==
  ASSUME NEW k \in 1 .. WORD
  PROVE  k - 1 \in 0 .. WORD /\ R!Weight[k] = BYTES * R!Weight[k - 1]
<1>1. \A m \in 0 .. WORD : R!Weight[m] = IF m = 0 THEN 1 ELSE BYTES * R!Weight[m - 1]
  BY WeightIs
<1>2. k \in 0 .. WORD /\ k # 0 /\ k - 1 \in 0 .. WORD
  BY Words
<1> QED
  BY <1>1, <1>2

LEMMA FirstWeight == R!Weight[0] = 1
<1>1. \A m \in 0 .. WORD : R!Weight[m] = IF m = 0 THEN 1 ELSE BYTES * R!Weight[m - 1]
  BY WeightIs
<1> QED
  BY <1>1, Words

(* a word holds what its bytes say *)
LEMMA ValueOfLittleEndian ==
  ASSUME NEW n \in Nat, n < R!Weight[WORD]
  PROVE  R!Value(R!LittleEndian(n)) = n
<1>1. PICK q : q = R!LittleEndian(n)
  OBVIOUS
<1>2. /\ q \in Seq(0 .. BYTES - 1) /\ Len(q) = WORD
      /\ \A k \in 1 .. WORD : q[k] = (n \div R!Weight[k - 1]) % BYTES
  BY <1>1, LittleEndianIs
<1>3. q \in Seq(Nat)
  BY <1>2, BytesAreNat
<1>4. PICK v \in [0 .. WORD -> Nat] :
        /\ R!Value(q) = v[0]
        /\ v[WORD] = 0
        /\ \A k \in 1 .. WORD : v[k - 1] = q[k] + BYTES * v[k]
  BY <1>2, <1>3, ValueIs
<1> DEFINE P == {j \in 0 .. WORD : v[WORD - j] = n \div R!Weight[WORD - j]}
<1>5. 0 \in P
  <2>1. PICK w \in Nat \ {0} : w = R!Weight[WORD]
    BY WeightIs, Words, WORD \in 0 .. WORD
  <2>2. n \div w = 0
    BY <2>1
  <2>3. WORD - 0 = WORD /\ 0 \in 0 .. WORD
    BY Words
  <2> QED
    BY <1>4, <2>1, <2>2, <2>3
<1>6. ASSUME NEW j \in 0 .. WORD - 1, j \in P PROVE j + 1 \in P
  <2>1. PICK k \in 1 .. WORD : k = WORD - j /\ k - 1 = WORD - (j + 1)
    BY Words
  <2>2. k - 1 \in 0 .. WORD /\ R!Weight[k] = BYTES * R!Weight[k - 1]
    BY WeightSteps
  <2>3. PICK w \in Nat \ {0} : w = R!Weight[k - 1]
    BY WeightIs, <2>2
  <2>4. v[k] = n \div (BYTES * w)
    BY <1>6, <2>1, <2>2, <2>3
  <2>11. \A u \in Nat, y \in Nat \ {0} : u \div y \in Nat
    OBVIOUS
  <2>5. PICK m \in Nat : m = n \div w
    BY <2>11
  <2>6. v[k] = m \div BYTES
    BY <2>4, <2>5, DividedTwice, Words
  <2>7. q[k] = m % BYTES
    BY <1>2, <2>3, <2>5
  <2>8. v[k - 1] = (m % BYTES) + BYTES * (m \div BYTES)
    BY <1>4, <2>6, <2>7
  <2>9. v[k - 1] = m
    BY <2>8, DigitAndRest, Words
  <2>10. j + 1 \in 0 .. WORD
    BY Words
  <2> QED
    BY <2>1, <2>3, <2>5, <2>9, <2>10
<1> HIDE DEF P
<1>7. WORD \in P
  BY <1>5, <1>6, Words, UpTo, WORD \in 0 .. WORD
<1>8. v[0] = n \div R!Weight[0]
  <2>1. WORD - WORD = 0
    BY Words
  <2> QED
    BY <1>7, <2>1 DEF P
<1>9. n \div 1 = n
  OBVIOUS
<1> QED
  BY <1>1, <1>4, <1>8, <1>9, FirstWeight

(* and endianfixl keeps the byte that is last in it, if the others are 0 *)
LEMMA ValueOfBigEndian ==
  ASSUME NEW n \in Nat, n < BYTES
  PROVE  R!endianfixl(R!Value(R!Reverse(R!LittleEndian(n)))) = n
<1>1. PICK p : p = R!LittleEndian(n)
  OBVIOUS
<1>2. /\ p \in Seq(0 .. BYTES - 1) /\ Len(p) = WORD
      /\ \A k \in 1 .. WORD : p[k] = (n \div R!Weight[k - 1]) % BYTES
  BY <1>1, LittleEndianIs
<1>3. p[1] = n
  <2>1. 1 \in 1 .. WORD /\ 1 - 1 = 0
    BY Words
  <2>2. p[1] = (n \div 1) % BYTES
    BY <1>2, <2>1, FirstWeight
  <2>3. n \div 1 = n /\ n % BYTES = n
    BY Words
  <2> QED
    BY <2>2, <2>3
<1>4. \A k \in 2 .. WORD : p[k] = 0
  <2> SUFFICES ASSUME NEW k \in 2 .. WORD PROVE p[k] = 0
    OBVIOUS
  <2>1. PICK m \in 1 .. WORD : m = k - 1
    BY Words
  <2>2. m - 1 \in 0 .. WORD /\ R!Weight[m] = BYTES * R!Weight[m - 1]
    BY WeightSteps
  <2>3. PICK w \in Nat \ {0} : w = R!Weight[m - 1]
    BY WeightIs, <2>2
  <2>4. BYTES * w >= BYTES /\ BYTES * w \in Nat \ {0}
    BY Words
  <2>5. n \div (BYTES * w) = 0
    <3>1. PICK u \in Nat \ {0} : u = BYTES * w /\ n < u
      BY <2>4, Words
    <3>2. n \div u = 0
      BY <3>1
    <3> QED
      BY <3>1, <3>2
  <2>6. 0 % BYTES = 0
    BY Words
  <2>7. k \in 1 .. WORD
    BY Words
  <2> QED
    BY <1>2, <2>1, <2>2, <2>3, <2>5, <2>6, <2>7
<1>5. PICK q : q = R!Reverse(p)
  OBVIOUS
<1>6. q \in Seq(0 .. BYTES - 1) /\ Len(q) = WORD
  BY <1>2, <1>5, RecordReverseIs
<1>7. \A k \in 1 .. WORD : q[k] = p[WORD - k + 1]
  <2>1. q = [k \in 1 .. WORD |-> p[WORD - k + 1]]
    BY <1>2, <1>5 DEF R!Reverse
  <2> QED
    BY <2>1
<1>8. q \in Seq(Nat)
  BY <1>6, BytesAreNat
<1>9. PICK v \in [0 .. WORD -> Nat] :
        /\ R!Value(q) = v[0]
        /\ v[WORD] = 0
        /\ \A k \in 1 .. WORD : v[k - 1] = q[k] + BYTES * v[k]
  BY <1>6, <1>8, ValueIs
<1> DEFINE P == {j \in 0 .. WORD - 1 : v[WORD - 1 - j] = R!Weight[j] * n}
<1>10. 0 \in P
  <2>1. PICK k \in 1 .. WORD : k = WORD /\ k - 1 = WORD - 1 - 0 /\ WORD - k + 1 = 1
    BY Words
  <2>2. q[k] = n
    BY <1>3, <1>7, <2>1
  <2>3. v[k - 1] = n + BYTES * 0
    BY <1>9, <2>1, <2>2
  <2>4. n + BYTES * 0 = n /\ 1 * n = n /\ 0 \in 0 .. WORD - 1
    BY Words
  <2> QED
    BY <2>1, <2>3, <2>4, FirstWeight
<1>11. ASSUME NEW j \in 0 .. WORD - 1 - 1, j \in P PROVE j + 1 \in P
  <2>1. PICK k \in 1 .. WORD : k = WORD - 1 - j /\ k - 1 = WORD - 1 - (j + 1) /\ WORD - k + 1 = j + 2
    BY Words
  <2>2. q[k] = 0
    <3>1. j + 2 \in 2 .. WORD
      BY Words
    <3> QED
      BY <1>4, <1>7, <2>1, <3>1
  <2>3. PICK d \in 1 .. WORD : d = j + 1 /\ d - 1 = j
    BY Words
  <2>4. d - 1 \in 0 .. WORD /\ R!Weight[d] = BYTES * R!Weight[d - 1]
    BY WeightSteps
  <2>5. PICK w \in Nat \ {0} : w = R!Weight[j]
    BY WeightIs, <2>3, <2>4
  <2>6. v[k] = w * n
    BY <1>11, <2>1, <2>5
  <2>7. v[k - 1] = 0 + BYTES * (w * n)
    BY <1>9, <2>2, <2>6
  <2>8. 0 + BYTES * (w * n) = (BYTES * w) * n
    BY Words
  <2>9. R!Weight[j + 1] = BYTES * w
    BY <2>3, <2>4, <2>5
  <2>10. j + 1 \in 0 .. WORD - 1
    BY Words
  <2> QED
    BY <2>1, <2>7, <2>8, <2>9, <2>10
<1> HIDE DEF P
<1>12. WORD - 1 \in P
  <2>1. PICK top \in Nat : top = WORD - 1
    BY Words
  <2>2. top \in 0 .. top
    OBVIOUS
  <2> QED
    BY <1>10, <1>11, <2>1, <2>2, UpTo
<1>13. PICK w \in Nat \ {0} : w = R!Weight[WORD - 1]
  <2>1. WORD - 1 \in 0 .. WORD
    BY Words
  <2> QED
    BY <2>1, WeightIs
<1>14. v[0] = w * n
  <2>1. WORD - 1 - (WORD - 1) = 0
    BY Words
  <2> QED
    BY <1>12, <1>13, <2>1 DEF P
<1>15. (w * n) \div w = n
  <2>1. n * w <= w * n /\ w * n < (n + 1) * w /\ w * n \in Nat
    OBVIOUS
  <2> QED
    BY <2>1, QuotientIs
<1> QED
  BY <1>1, <1>5, <1>9, <1>13, <1>14, <1>15 DEF R!endianfixl

LEMMA ValueOfNothing ==
  ASSUME NEW q \in Seq(Nat), \A k \in 1 .. Len(q) : q[k] = 0
  PROVE  R!Value(q) = 0 /\ R!endianfixl(0) = 0
<1>1. PICK n \in Nat : n = Len(q)
  BY LenProperties
<1>2. PICK v \in [0 .. n -> Nat] :
        /\ R!Value(q) = v[0]
        /\ v[n] = 0
        /\ \A k \in 1 .. n : v[k - 1] = q[k] + BYTES * v[k]
  BY <1>1, ValueIs
<1> DEFINE P == {j \in 0 .. n : v[n - j] = 0}
<1>3. 0 \in P
  BY <1>2
<1>4. ASSUME NEW j \in 0 .. n - 1, j \in P PROVE j + 1 \in P
  <2>1. PICK k \in 1 .. n : k = n - j /\ k - 1 = n - (j + 1)
    OBVIOUS
  <2>2. v[k] = 0 /\ q[k] = 0
    BY <1>1, <1>4, <2>1
  <2>3. v[k - 1] = 0 + BYTES * 0
    BY <1>2, <2>2
  <2>4. v[k - 1] = 0
    BY <2>3, Words
  <2> QED
    BY <2>1, <2>4
<1> HIDE DEF P
<1>5. n \in P
  BY <1>3, <1>4, UpTo, n \in 0 .. n
<1>6. v[0] = 0
  <2>1. n - n = 0
    OBVIOUS
  <2> QED
    BY <1>5, <2>1 DEF P
<1>7. R!endianfixl(0) = 0
  <2>1. WORD - 1 \in 0 .. WORD
    BY Words
  <2>2. PICK w \in Nat \ {0} : w = R!Weight[WORD - 1]
    BY <2>1, WeightIs
  <2>3. 0 \div w = 0
    OBVIOUS
  <2> QED
    BY <2>2, <2>3 DEF R!endianfixl
<1> QED
  BY <1>2, <1>6, <1>7

-----------------------------------------------------------------------------
(* where a record is in the file *)
LEMMA LengthsAre ==
  ASSUME capture \in Captures, NEW k \in 1 .. Len(capture.records)
  PROVE  /\ capture.records[k].data \in Seq(0 .. BYTES - 1)
         /\ Len(capture.records[k].data) \in Nat
         /\ Len(capture.records[k].data) < R!Weight[WORD]
         /\ k \in DOMAIN capture.records
         /\ capture.records[k] \in
              [seconds : Nat, useconds : Nat, wire : Nat, data : Seq(0 .. BYTES - 1)]
<1>1. /\ k \in DOMAIN capture.records
      /\ capture.records[k] \in
              [seconds : Nat, useconds : Nat, wire : Nat, data : Seq(0 .. BYTES - 1)]
  BY CaptureIs, ElementOfSeq
<1>2. capture.records[k].data \in Seq(0 .. BYTES - 1)
  BY <1>1
<1> QED
  BY <1>1, <1>2, LenProperties, LengthsFit

\* The bytes of k records are the bytes of fewer ones, and more.
LEMMA BytesOfGrows ==
  ASSUME capture \in Captures,
         NEW j \in 0 .. Len(capture.records), NEW k \in j .. Len(capture.records)
  PROVE  /\ Len(R!BytesOf(j)) <= Len(R!BytesOf(k))
         /\ \A x \in 1 .. Len(R!BytesOf(j)) : R!BytesOf(k)[x] = R!BytesOf(j)[x]
<1>1. PICK n \in Nat : n = Len(capture.records)
  BY CaptureIs
<1> DEFINE Grown(m) == /\ Len(R!BytesOf(j)) <= Len(R!BytesOf(m))
                       /\ \A x \in 1 .. Len(R!BytesOf(j)) : R!BytesOf(m)[x] = R!BytesOf(j)[x]
           P == {m \in 0 .. n - j : Grown(j + m)}
<1>0. j \in Nat /\ k \in Nat /\ n - j \in Nat /\ j \in 0 .. n /\ k \in j .. n
  BY <1>1
<1>2. 0 \in P
  <2>1. Len(R!BytesOf(j)) \in Nat
    BY BytesOfIs
  <2>2. Grown(j)
    BY <2>1
  <2>3. j + 0 = j
    BY <1>0
  <2> QED
    BY <1>0, <2>2, <2>3
<1>3. ASSUME NEW m \in 0 .. n - j - 1, m \in P PROVE m + 1 \in P
  <2>1. PICK l \in 1 .. n : l = j + (m + 1) /\ l - 1 = j + m
    BY <1>0
  <2>2. PICK a, b, c1, r :
          /\ a = R!BytesOf(l - 1) /\ b = R!BytesOf(l) /\ c1 = R!BytesOf(j)
          /\ r = R!Record(capture.records[l])
    OBVIOUS
  <2>3. b = a \o r
    BY <1>1, <2>2, BytesOfIs
  <2>4. a \in Seq(0 .. BYTES - 1) /\ c1 \in Seq(0 .. BYTES - 1)
    <3>1. l - 1 \in 0 .. n
      OBVIOUS
    <3> QED
      BY <1>1, <2>2, <3>1, BytesOfIs
  <2>5. r \in Seq(0 .. BYTES - 1)
    BY <1>1, <2>2, LengthsAre, RecordIs
  <2>6. /\ Len(b) = Len(a) + Len(r)
        /\ \A x \in 1 .. Len(a) : b[x] = a[x]
        /\ Len(a) \in Nat /\ Len(r) \in Nat /\ Len(c1) \in Nat
    BY <2>3, <2>4, <2>5, ConcatProperties, LenProperties
  <2>7. Len(c1) <= Len(a) /\ \A x \in 1 .. Len(c1) : a[x] = c1[x]
    BY <1>3, <2>1, <2>2
  <2>8. Len(c1) <= Len(b) /\ \A x \in 1 .. Len(c1) : b[x] = c1[x]
    BY <2>6, <2>7
  <2>9. Grown(l)
    BY <2>2, <2>8
  <2>10. m + 1 \in 0 .. n - j
    BY <1>0
  <2> HIDE DEF Grown
  <2> QED
    BY <2>1, <2>9, <2>10
<1> HIDE DEF P, Grown
<1>4. k - j \in P
  <2>1. k - j \in 0 .. n - j
    BY <1>0
  <2> QED
    BY <1>0, <1>2, <1>3, <2>1, UpTo
<1>5. j + (k - j) = k
  BY <1>0
<1>6. Grown(k)
  BY <1>4, <1>5 DEF P
<1> QED
  BY <1>6 DEF Grown

\* what a file that is not cut off there holds of the next record
LEMMA RecordInFile ==
  ASSUME capture \in Captures, NEW j \in 0 .. Len(capture.records) - 1,
         NEW x \in Nat \ {0}, x <= R!HeaderSize + Len(capture.records[j + 1].data)
  PROVE  LET at == Len(R!BytesOf(j)) + x
         IN  at <= Len(R!file) => R!file[at] = R!Record(capture.records[j + 1])[x]
<1>1. PICK n \in Nat : n = Len(capture.records)
  BY CaptureIs
<1>2. PICK k \in 1 .. n : k = j + 1 /\ k - 1 = j
  BY <1>1
<1>3. n \in 0 .. n /\ k \in 0 .. n /\ j \in 0 .. n /\ n \in k .. n
  BY <1>1, <1>2
<1>4. PICK a, b, all, r, t :
        /\ a = R!BytesOf(j) /\ b = R!BytesOf(k) /\ all = R!BytesOf(n)
        /\ r = R!Record(capture.records[k]) /\ t = R!file
  OBVIOUS
<1>5. /\ r \in Seq(0 .. BYTES - 1)
      /\ Len(r) = R!HeaderSize + Len(capture.records[k].data)
      /\ Len(r) \in Nat
  BY <1>1, <1>4, LengthsAre, RecordIs, LenProperties
<1>6. a \in Seq(0 .. BYTES - 1) /\ all \in Seq(0 .. BYTES - 1) /\ b = a \o r
  BY <1>1, <1>2, <1>3, <1>4, BytesOfIs
<1>7. PICK m \in Nat, l \in Nat :
        m = Len(a) /\ l = Len(r) /\ l = R!HeaderSize + Len(capture.records[k].data)
  BY <1>5, <1>6, LenProperties
<1>8. PICK at \in Nat : at = m + x
  OBVIOUS
<1>12. at \in 1 .. m + l /\ ~(at <= m) /\ at - m = x
  <2>1. x <= l
    BY <1>2, <1>7
  <2> QED
    BY <1>8, <2>1
<1>13. /\ Len(b) = m + l /\ Len(all) \in Nat
       /\ \A y \in 1 .. m + l : b[y] = IF y <= m THEN a[y] ELSE r[y - m]
  <2>1. a \in Seq(0 .. BYTES - 1) /\ r \in Seq(0 .. BYTES - 1)
    BY <1>5, <1>6
  <2>2. /\ Len(a \o r) = Len(a) + Len(r)
        /\ \A y \in 1 .. Len(a) + Len(r) :
             (a \o r)[y] = IF y <= Len(a) THEN a[y] ELSE r[y - Len(a)]
    BY <2>1, ConcatProperties
  <2>3. Len(all) \in Nat
    BY <1>6, LenProperties
  <2> QED
    BY Zenon, <1>6, <1>7, <2>2, <2>3
<1>9. b[at] = r[x]
  BY <1>12, <1>13
<1>10. all[at] = b[at]
  <2>1. at \in 1 .. Len(b)
    BY <1>12, <1>13
  <2> QED
    BY <1>1, <1>3, <1>4, <2>1, BytesOfGrows
<1>11. at <= Len(t) => t[at] = all[at]
  <2> SUFFICES ASSUME at <= Len(t) PROVE t[at] = all[at]
    OBVIOUS
  <2>1. t = SubSeq(all, 1, Len(all) - capture.lost) /\ capture.lost \in Nat
    BY <1>1, <1>4, CaptureIs DEF R!file
  <2>2. t \in Seq(0 .. BYTES - 1) /\ Len(t) \in Nat
    BY <1>4, CaptureFileIs
  <2>3. PICK z \in Int : z = Len(all) - capture.lost
    BY <1>13, <2>1
  <2>4. at >= 1
    BY <1>8
  <2>5. CASE z < 1
    <3>1. t = <<>>
      BY <1>6, <2>1, <2>3, <2>5, SubSeqEmpty
    <3> QED
      BY <2>4, <3>1, EmptySeq
  <2>6. CASE z >= 1
    <3>1. z \in 1 .. Len(all)
      BY <1>13, <2>1, <2>3, <2>6
    <3>4. \A y \in 1 .. z : y \in 1 .. Len(all)
      BY <1>13, <3>1
    <3>5. \A y \in 1 .. z : all[y] \in 0 .. BYTES - 1
      BY <1>6, <3>4, ElementOfSeq
    <3>6. /\ Len(t) = IF 1 <= z THEN z - 1 + 1 ELSE 0
          /\ \A y \in 1 .. z - 1 + 1 : t[y] = all[1 + y - 1]
      BY <2>1, <2>3, <3>5, SubSeqProperties
    <3>7. z - 1 + 1 = z
      OBVIOUS
    <3>2. Len(t) = z /\ \A y \in 1 .. z : t[y] = all[1 + y - 1]
      BY <2>6, <3>6, <3>7
    <3>3. at \in 1 .. z /\ 1 + at - 1 = at
      BY <2>4, <3>2
    <3> QED
      BY <3>2, <3>3
  <2> QED
    BY <2>3, <2>5, <2>6
<1> QED
  BY <1>2, <1>4, <1>7, <1>8, <1>9, <1>10, <1>11

-----------------------------------------------------------------------------
(* what is read at the start of a record, and behind the end *)
\* where a record has the length, and where its packet
LEMMA RecordHolds ==
  ASSUME NEW r \in [seconds : Nat, useconds : Nat, wire : Nat, data : Seq(0 .. BYTES - 1)]
  PROVE  /\ \A x \in 1 .. WORD : R!Record(r)[2 * WORD + x] = R!Word(Len(r.data))[x]
         /\ \A x \in 1 .. Len(r.data) : R!Record(r)[R!HeaderSize + x] = r.data[x]
<1>1. /\ r.seconds \in Nat /\ r.useconds \in Nat /\ r.wire \in Nat
      /\ r.data \in Seq(0 .. BYTES - 1) /\ Len(r.data) \in Nat
  BY LenProperties
<1> DEFINE S == 0 .. BYTES - 1
<1> HIDE DEF S
<1>2. PICK w1, w2, w3, w4, d :
        /\ w1 = R!Word(r.seconds) /\ w2 = R!Word(r.useconds)
        /\ w3 = R!Word(Len(r.data)) /\ w4 = R!Word(r.wire) /\ d = r.data
  OBVIOUS
<1>3. /\ w1 \in Seq(S) /\ w2 \in Seq(S) /\ w3 \in Seq(S) /\ w4 \in Seq(S) /\ d \in Seq(S)
      /\ Len(w1) = WORD /\ Len(w2) = WORD /\ Len(w3) = WORD /\ Len(w4) = WORD
      /\ Len(d) \in Nat
  BY <1>1, <1>2, WordIs DEF S
<1>4. PICK a2, a3, a4, a5 :
        /\ a2 = w1 \o w2 /\ a3 = a2 \o w3 /\ a4 = a3 \o w4 /\ a5 = a4 \o d
        /\ a5 = R!Record(r)
  BY <1>2 DEF R!Record
<1>5. PICK m2 \in Nat, m3 \in Nat, m4 \in Nat :
        /\ m2 = WORD + WORD /\ m3 = m2 + WORD /\ m4 = m3 + WORD
        /\ m2 = 2 * WORD /\ m4 = R!HeaderSize
  BY Words
<1>6. WORD \in Nat /\ a2 = w1 \o w2 /\ a3 = a2 \o w3 /\ a4 = a3 \o w4 /\ a5 = a4 \o d
  BY <1>4, Words
<1>7. a2 \in Seq(S) /\ Len(a2) = m2
  <2>1. w1 \in Seq(S) /\ w2 \in Seq(S)
    BY <1>3, <1>6
  <2>2. /\ w1 \o w2 \in Seq(S) /\ Len(w1 \o w2) = Len(w1) + Len(w2)
        /\ \A y \in 1 .. Len(w1) + Len(w2) :
             (w1 \o w2)[y] = IF y <= Len(w1) THEN w1[y] ELSE w2[y - Len(w1)]
    BY <2>1, ConcatProperties
  <2>3. a2 = w1 \o w2 /\ Len(w1) = WORD /\ Len(w2) = WORD
    BY <1>3, <1>6
  <2>4. /\ a2 \in Seq(S) /\ Len(a2) = WORD + WORD
        /\ \A y \in 1 .. WORD + WORD :
             a2[y] = IF y <= WORD THEN w1[y] ELSE w2[y - WORD]
    BY Zenon, <2>2, <2>3
  <2> QED
    BY <1>5, <2>4
<1>8. a3 \in Seq(S) /\ Len(a3) = m3 /\ \A x \in 1 .. WORD : a3[m2 + x] = w3[x]
  <2>1. a2 \in Seq(S) /\ w3 \in Seq(S)
    BY <1>3, <1>6, <1>7
  <2>2. /\ a2 \o w3 \in Seq(S) /\ Len(a2 \o w3) = Len(a2) + Len(w3)
        /\ \A y \in 1 .. Len(a2) + Len(w3) :
             (a2 \o w3)[y] = IF y <= Len(a2) THEN a2[y] ELSE w3[y - Len(a2)]
    BY <2>1, ConcatProperties
  <2>3. a3 = a2 \o w3 /\ Len(a2) = m2 /\ Len(w3) = WORD
    BY <1>3, <1>6, <1>7
  <2>4. /\ a3 \in Seq(S) /\ Len(a3) = m2 + WORD
        /\ \A y \in 1 .. m2 + WORD :
             a3[y] = IF y <= m2 THEN a2[y] ELSE w3[y - m2]
    BY Zenon, <2>2, <2>3
  <2>5. ASSUME NEW x \in 1 .. WORD PROVE a3[m2 + x] = w3[x]
    <3>1. PICK y \in Nat : y = m2 + x
      BY <1>6
    <3>2. y \in 1 .. m2 + WORD /\ ~(y <= m2) /\ y - m2 = x
      BY <1>6, <3>1
    <3>3. a3[y] = w3[x]
      BY <2>4, <3>2
    <3> QED
      BY <3>1, <3>3
  <2> QED
    BY <1>5, <2>4, <2>5
<1>9. a4 \in Seq(S) /\ Len(a4) = m4 /\ \A x \in 1 .. m3 : a4[x] = a3[x]
  <2>1. a3 \in Seq(S) /\ w4 \in Seq(S)
    BY <1>3, <1>6, <1>8
  <2>2. /\ a3 \o w4 \in Seq(S) /\ Len(a3 \o w4) = Len(a3) + Len(w4)
        /\ \A y \in 1 .. Len(a3) + Len(w4) :
             (a3 \o w4)[y] = IF y <= Len(a3) THEN a3[y] ELSE w4[y - Len(a3)]
    BY <2>1, ConcatProperties
  <2>3. a4 = a3 \o w4 /\ Len(a3) = m3 /\ Len(w4) = WORD
    BY <1>3, <1>6, <1>8
  <2>4. /\ a4 \in Seq(S) /\ Len(a4) = m3 + WORD
        /\ \A y \in 1 .. m3 + WORD :
             a4[y] = IF y <= m3 THEN a3[y] ELSE w4[y - m3]
    BY Zenon, <2>2, <2>3
  <2>5. \A x \in 1 .. m3 : x \in 1 .. m3 + WORD /\ x <= m3
    BY <1>6
  <2>6. \A x \in 1 .. m3 : a4[x] = a3[x]
    BY <2>4, <2>5
  <2> QED
    BY <1>5, <2>4, <2>6
<1>11. PICK l \in Nat : l = Len(d)
  BY <1>3
<1>12. (\A x \in 1 .. m4 : a5[x] = a4[x]) /\ \A x \in 1 .. l : a5[m4 + x] = d[x]
  <2>1. a4 \in Seq(S) /\ d \in Seq(S)
    BY <1>3, <1>6, <1>9, <1>11
  <2>2. /\ a4 \o d \in Seq(S) /\ Len(a4 \o d) = Len(a4) + Len(d)
        /\ \A y \in 1 .. Len(a4) + Len(d) :
             (a4 \o d)[y] = IF y <= Len(a4) THEN a4[y] ELSE d[y - Len(a4)]
    BY <2>1, ConcatProperties
  <2>3. a5 = a4 \o d /\ Len(a4) = m4 /\ Len(d) = l
    BY <1>3, <1>6, <1>9, <1>11
  <2>4. /\ a5 \in Seq(S) /\ Len(a5) = m4 + l
        /\ \A y \in 1 .. m4 + l :
             a5[y] = IF y <= m4 THEN a4[y] ELSE d[y - m4]
    BY Zenon, <2>2, <2>3
  <2>5. \A x \in 1 .. m4 : x \in 1 .. m4 + l /\ x <= m4
    BY <1>6
  <2>6. \A x \in 1 .. m4 : a5[x] = a4[x]
    BY <2>4, <2>5
  <2>7. ASSUME NEW x \in 1 .. l PROVE a5[m4 + x] = d[x]
    <3>1. PICK y \in Nat : y = m4 + x
      BY <1>6
    <3>2. y \in 1 .. m4 + l /\ ~(y <= m4) /\ y - m4 = x
      BY <1>6, <3>1
    <3>3. a5[y] = d[x]
      BY <2>4, <3>2
    <3> QED
      BY <3>1, <3>3
  <2> QED
    BY <2>6, <2>7
<1>10. \A x \in 1 .. WORD : a5[m2 + x] = w3[x]
  <2>1. \A x \in 1 .. WORD : m2 + x \in 1 .. m3 /\ m2 + x \in 1 .. m4
    BY <1>5, Words
  <2> QED
    BY <1>8, <1>9, <1>12, <2>1
<1> QED
  BY <1>2, <1>4, <1>5, <1>10, <1>11, <1>12

LEMMA BytesAt ==
  ASSUME NEW shift \in Nat, NEW n \in Nat, NEW old
  PROVE  R!Bytes(shift, n, old) =
           [k \in 1 .. n |-> IF position + shift + k <= Len(R!file)
                             THEN R!file[position + shift + k] ELSE old]
BY DEF R!Bytes

LEMMA LengthRead ==
  ASSUME capture \in Captures, R!LengthsSurvive, EndianFlip <=> capture.front = "swapped",
         NEW j \in 0 .. Len(capture.records) - 1,
         position = Len(R!BytesOf(j)), position + 3 * WORD <= Len(R!file)
  PROVE  R!LengthIncluded = Len(capture.records[j + 1].data)
<1>1. PICK n \in Nat : n = Len(capture.records)
  BY CaptureIs
<1>2. PICK k \in 1 .. n : k = j + 1
  BY <1>1
<1>3. PICK l \in Nat :
        /\ l = Len(capture.records[k].data) /\ l < R!Weight[WORD]
        /\ capture.front = "swapped" => l < BYTES
  BY <1>1, LengthsAre DEF R!LengthsSurvive
<1>4. PICK w : w = R!Word(l)
  OBVIOUS
<1>5. w \in Seq(0 .. BYTES - 1) /\ Len(w) = WORD
  BY <1>4, WordIs
<1>6. position \in Nat /\ Len(R!file) \in Nat
  BY <1>1, BytesOfIs, CaptureFileIs
<1>7. PICK t : t = R!file
  OBVIOUS
<1>8. \A x \in 1 .. WORD : t[position + 2 * WORD + x] = w[x] /\ position + 2 * WORD + x <= Len(t)
  <2> SUFFICES ASSUME NEW x \in 1 .. WORD
               PROVE  t[position + 2 * WORD + x] = w[x] /\ position + 2 * WORD + x <= Len(t)
    OBVIOUS
  <2>1. PICK y \in Nat \ {0} : y = 2 * WORD + x
    BY Words
  <2>2. y <= R!HeaderSize + l /\ y <= 3 * WORD
    BY <2>1, Words
  <2>3. position + y <= Len(t)
    BY <1>6, <1>7, <2>2, Words
  <2>4. t[position + y] = R!Record(capture.records[k])[y]
    BY <1>2, <1>3, <1>7, <2>2, <2>3, RecordInFile
  <2>5. R!Record(capture.records[k])[y] = w[x]
    BY <1>1, <1>3, <1>4, <2>1, LengthsAre, RecordHolds
  <2>6. position + y = position + 2 * WORD + x
    BY <1>6, <2>1, Words
  <2> QED
    BY <2>3, <2>4, <2>5, <2>6
<1>9. PICK q : q = R!Bytes(2 * WORD, WORD, 0)
  OBVIOUS
<1>10. q = w
  <2>1. q = [x \in 1 .. WORD |-> IF position + 2 * WORD + x <= Len(t)
                                 THEN t[position + 2 * WORD + x] ELSE 0]
    <3>2. R!Bytes(2 * WORD, WORD, 0) =
            [x \in 1 .. WORD |-> IF position + 2 * WORD + x <= Len(R!file)
                                 THEN R!file[position + 2 * WORD + x] ELSE 0]
      BY Zenon DEF R!Bytes
    <3> QED
      BY Zenon, <1>7, <1>9, <3>2
  <2>2. DOMAIN q = 1 .. WORD /\ \A x \in 1 .. WORD : q[x] = w[x]
    BY <1>8, <2>1
  <2>3. w = [x \in 1 .. WORD |-> w[x]]
    BY <1>5, LenProperties
  <2>4. q = [x \in 1 .. WORD |-> q[x]]
    BY <2>1
  <2> QED
    BY <2>2, <2>3, <2>4
<1>11. R!LengthIncluded = IF EndianFlip THEN R!endianfixl(R!Value(q)) ELSE R!Value(q)
  BY <1>9 DEF R!LengthIncluded
<1>12. CASE capture.front = "swapped"
  <2>1. q = R!Reverse(R!LittleEndian(l))
    BY <1>4, <1>10, <1>12 DEF R!Word
  <2>2. R!endianfixl(R!Value(q)) = l
    BY <1>3, <1>12, <2>1, ValueOfBigEndian
  <2> QED
    BY <1>2, <1>3, <1>11, <1>12, <2>2
<1>13. CASE capture.front # "swapped"
  <2>1. q = R!LittleEndian(l)
    BY <1>4, <1>10, <1>13 DEF R!Word
  <2>2. R!Value(q) = l
    BY <1>3, <2>1, ValueOfLittleEndian
  <2> QED
    BY <1>2, <1>3, <1>11, <1>13, <2>2
<1> QED
  BY <1>12, <1>13

LEMMA DataRead ==
  ASSUME capture \in Captures, NEW j \in 0 .. Len(capture.records) - 1,
         position = Len(R!BytesOf(j)),
         position + R!HeaderSize + Len(capture.records[j + 1].data) <= Len(R!file)
  PROVE  R!Bytes(R!HeaderSize, Len(capture.records[j + 1].data), R!Stray)
           = capture.records[j + 1].data
<1>1. PICK n \in Nat : n = Len(capture.records)
  BY CaptureIs
<1>2. PICK k \in 1 .. n : k = j + 1
  BY <1>1
<1>3. PICK d, t : d = capture.records[k].data /\ t = R!file
  OBVIOUS
<1>4. PICK l \in Nat : l = Len(d)
  BY <1>1, <1>3, LengthsAre
<1>5. position \in Nat /\ Len(t) \in Nat
  BY <1>1, <1>3, BytesOfIs, CaptureFileIs
<1>6. PICK h \in Nat : h = R!HeaderSize
  BY Words
<1>7. \A x \in 1 .. l : t[position + h + x] = d[x] /\ position + h + x <= Len(t)
  <2> SUFFICES ASSUME NEW x \in 1 .. l
               PROVE  t[position + h + x] = d[x] /\ position + h + x <= Len(t)
    OBVIOUS
  <2>1. PICK y \in Nat \ {0} : y = h + x
    OBVIOUS
  <2>2. y <= h + l
    BY <2>1
  <2>3. position + y <= Len(t)
    <3>1. position + h + l <= Len(t)
      BY <1>2, <1>3, <1>4, <1>6
    <3> QED
      BY <1>5, <2>2, <3>1
  <2>4. t[position + y] = R!Record(capture.records[k])[y]
    BY <1>2, <1>3, <1>4, <1>6, <2>2, <2>3, RecordInFile
  <2>5. R!Record(capture.records[k])[y] = d[x]
    BY <1>1, <1>3, <1>4, <1>6, <2>1, LengthsAre, RecordHolds
  <2>6. position + y = position + h + x
    BY <1>5, <2>1
  <2> QED
    BY <2>3, <2>4, <2>5, <2>6
<1>8. PICK q : q = R!Bytes(h, l, R!Stray)
  OBVIOUS
<1>9. q = d
  <2>1. q = [x \in 1 .. l |-> IF position + h + x <= Len(t)
                              THEN t[position + h + x] ELSE R!Stray]
    <3>1. R!Bytes(h, l, R!Stray) =
            [x \in 1 .. l |-> IF position + h + x <= Len(R!file)
                              THEN R!file[position + h + x] ELSE R!Stray]
      BY BytesAt
    <3> QED
      BY <1>3, <1>8, <3>1, Zenon
  <2>2. DOMAIN q = 1 .. l /\ \A x \in 1 .. l : q[x] = d[x]
    BY <1>7, <2>1
  <2>3. d = [x \in 1 .. l |-> d[x]]
    BY <1>1, <1>3, <1>4, LengthsAre, LenProperties
  <2>4. q = [x \in 1 .. l |-> q[x]]
    BY <2>1
  <2> QED
    BY <2>2, <2>3, <2>4
<1> QED
  BY <1>2, <1>3, <1>4, <1>6, <1>8, <1>9

\* Behind the end fread leaves the zeros of allocatePacket.
LEMMA NothingRead ==
  ASSUME capture \in Captures, position \in Nat, position >= Len(R!file)
  PROVE  R!LengthIncluded = 0 /\ R!Bytes(R!HeaderSize, 0, R!Stray) = <<>>
<1>1. PICK t : t = R!file
  OBVIOUS
<1>2. Len(t) \in Nat
  BY <1>1, CaptureFileIs
<1>3. PICK q : q = R!Bytes(2 * WORD, WORD, 0)
  OBVIOUS
<1>4. q = [x \in 1 .. WORD |-> IF position + 2 * WORD + x <= Len(t)
                               THEN t[position + 2 * WORD + x] ELSE 0]
  BY <1>1, <1>3, BytesAt, Words
<1>5. \A x \in 1 .. WORD : ~(position + 2 * WORD + x <= Len(t))
  BY <1>1, <1>2, Words
<1>6. q \in [1 .. WORD -> Nat] /\ \A x \in 1 .. WORD : q[x] = 0
  BY <1>4, <1>5
<1>7. q \in Seq(Nat) /\ Len(q) = WORD
  <2>1. q \in Seq(Nat)
    BY <1>6, Words, SeqDef
  <2> QED
    BY <1>6, <2>1, Words, LenProperties
<1>8. R!Value(q) = 0 /\ R!endianfixl(0) = 0
  BY <1>6, <1>7, ValueOfNothing
<1>9. R!LengthIncluded = 0
  BY <1>3, <1>8 DEF R!LengthIncluded
<1>10. R!Bytes(R!HeaderSize, 0, R!Stray) = <<>>
  <2>1. PICK e : e = R!Bytes(R!HeaderSize, 0, R!Stray)
    OBVIOUS
  <2>2. R!Stray \in Int /\ 0 .. BYTES - 1 \subseteq Int /\ 0 \in Nat
    BY DEF R!Stray
  <2>3. e \in Seq(Int) /\ Len(e) = 0
    BY <2>1, <2>2, Words, BytesAre
  <2> QED
    BY <2>1, <2>3, EmptySeq
<1> QED
  BY <1>9, <1>10

\* the packets of the records and their ranks among those that are wanted
LEMMA RankIs ==
  ASSUME capture \in Captures
  PROVE  LET n == Len(capture.records)
         IN  /\ R!Wanted \subseteq 1 .. n
             /\ R!Rank(0) = 0 /\ R!Rank(n) = R!Cardinality(R!Wanted)
             /\ \A k \in 0 .. n : R!Rank(k) \in Nat
             /\ \A k \in 1 .. n :
                  R!Rank(k) = IF k \in R!Wanted THEN R!Rank(k - 1) + 1 ELSE R!Rank(k - 1)
             /\ \A j, k \in 0 .. n : j <= k => R!Rank(j) <= R!Rank(k)
             /\ \A k \in R!Wanted : R!Rank(k) \in 1 .. R!Rank(n)
<1>1. PICK n \in Nat : n = Len(capture.records) /\ DOMAIN capture.records = 1 .. n
  BY CaptureIs
<1>2. PICK W : W = R!Wanted
  OBVIOUS
<1>3. W \subseteq 1 .. n
  BY <1>1, <1>2 DEF R!Wanted
<1>4. \A k : R!Rank(k) = Cardinality(W \cap (1 .. k))
  BY <1>2 DEF R!Rank, R!Cardinality, Cardinality
<1>5. \A k \in 0 .. n : IsFiniteSet(W \cap (1 .. k))
  <2> SUFFICES ASSUME NEW k \in 0 .. n PROVE IsFiniteSet(W \cap (1 .. k))
    OBVIOUS
  <2>1. IsFiniteSet(1 .. k)
    BY FS_Interval
  <2> QED
    BY <2>1, FS_Subset
<1>6. \A k \in 0 .. n : R!Rank(k) \in Nat
  BY <1>4, <1>5, FS_CardinalityType
<1>7. R!Rank(0) = 0
  <2>1. W \cap (1 .. 0) = {}
    OBVIOUS
  <2> QED
    BY <1>4, <2>1, FS_EmptySet
<1>8. R!Rank(n) = R!Cardinality(R!Wanted)
  <2>1. R!Wanted \cap (1 .. n) = R!Wanted
    BY <1>2, <1>3
  <2> QED
    BY <2>1 DEF R!Rank
<1>9. ASSUME NEW k \in 1 .. n
      PROVE  R!Rank(k) = IF k \in W THEN R!Rank(k - 1) + 1 ELSE R!Rank(k - 1)
  <2>1. PICK j \in 0 .. n : j = k - 1
    OBVIOUS
  <2>2. CASE k \in W
    <3>1. W \cap (1 .. k) = (W \cap (1 .. j)) \cup {k} /\ k \notin W \cap (1 .. j)
      BY <2>1, <2>2
    <3>2. Cardinality((W \cap (1 .. j)) \cup {k}) = Cardinality(W \cap (1 .. j)) + 1
      BY <1>5, <3>1, FS_AddElement
    <3> QED
      BY <1>4, <2>1, <2>2, <3>1, <3>2
  <2>3. CASE k \notin W
    <3>1. W \cap (1 .. k) = W \cap (1 .. j)
      BY <2>1, <2>3
    <3> QED
      BY <1>4, <2>1, <2>3, <3>1
  <2> QED
    BY <2>2, <2>3
<1>10. ASSUME NEW j \in 0 .. n, NEW k \in 0 .. n, j <= k PROVE R!Rank(j) <= R!Rank(k)
  <2>1. W \cap (1 .. j) \subseteq W \cap (1 .. k)
    BY <1>10
  <2>2. Cardinality(W \cap (1 .. j)) <= Cardinality(W \cap (1 .. k))
    BY <1>5, <2>1, FS_Subset
  <2> QED
    BY <1>4, <2>2
<1>11. ASSUME NEW k \in W PROVE R!Rank(k) \in 1 .. R!Rank(n)
  <2>1. k \in 1 .. n /\ k - 1 \in 0 .. n /\ k \in 0 .. n /\ n \in 0 .. n /\ k <= n
    BY <1>3
  <2>2. R!Rank(k) = R!Rank(k - 1) + 1 /\ R!Rank(k - 1) \in Nat
    BY <1>6, <1>9, <2>1
  <2>3. R!Rank(k) <= R!Rank(n) /\ R!Rank(n) \in Nat
    BY <1>6, <1>10, <2>1
  <2> QED
    BY <2>2, <2>3
<1> QED
  BY <1>1, <1>2, <1>3, <1>6, <1>7, <1>8, <1>9, <1>10, <1>11

-----------------------------------------------------------------------------
(* what has been pushed *)
\* Copied and Complete of a sequence q in the place of pushed
CopiedIn(q, k) ==
  /\ Len(q) = R!Rank(k)
  /\ \A j \in R!Wanted \cap 1 .. k : q[R!Rank(j)] = R!PacketOf(j)
CompleteIn(q) ==
  /\ Len(q) = R!Cardinality(R!Wanted) + 1
  /\ \A k \in R!Wanted : q[R!Rank(k)] = R!PacketOf(k)
  /\ capture.lost = 0 => q[Len(q)] = R!NoPacket

LEMMA PacketsArePackets ==
  ASSUME capture \in Captures, NEW k \in R!Wanted
  PROVE  R!PacketOf(k) \in R!Packet
<1>1. k \in 1 .. Len(capture.records)
  BY RankIs
<1>2. PICK d : d = capture.records[k].data
  OBVIOUS
<1>3. d \in Seq(0 .. BYTES - 1) /\ Len(d) \in Nat
  BY <1>1, <1>2, LengthsAre
<1>4. d \in Seq(Int)
  <2>1. d \in [1 .. Len(d) -> 0 .. BYTES - 1]
    BY <1>3, LenProperties
  <2>2. d \in [1 .. Len(d) -> Int]
    BY <2>1
  <2> QED
    BY <1>3, <2>2, SeqDef
<1> QED
  BY <1>2, <1>3, <1>4 DEF R!PacketOf, R!Packet

LEMMA CopiedUnwanted ==
  ASSUME capture \in Captures, NEW k \in 1 .. Len(capture.records), k \notin R!Wanted,
         NEW q, CopiedIn(q, k - 1)
  PROVE  CopiedIn(q, k)
<1>1. R!Rank(k) = R!Rank(k - 1)
  BY RankIs
<1>2. \A j \in R!Wanted \cap 1 .. k : j \in R!Wanted \cap 1 .. k - 1
  BY RankIs
<1> QED
  BY <1>1, <1>2 DEF CopiedIn

LEMMA CopiedWanted ==
  ASSUME capture \in Captures, NEW k \in R!Wanted,
         NEW q \in Seq(R!Packet), CopiedIn(q, k - 1)
  PROVE  CopiedIn(Append(q, R!PacketOf(k)), k)
<1>1. PICK n \in Nat : n = Len(capture.records)
  BY CaptureIs
<1>2. k \in 1 .. n /\ k - 1 \in 0 .. n
  BY <1>1, RankIs
<1>3. PICK m \in Nat : m = R!Rank(k - 1) /\ R!Rank(k) = m + 1
  BY <1>1, <1>2, RankIs
<1>4. PICK p, t : p = R!PacketOf(k) /\ t = Append(q, p)
  OBVIOUS
<1>5. Len(q) = m
  BY <1>3 DEF CopiedIn
<1>6. Len(t) = m + 1 /\ t[m + 1] = p /\ \A x \in 1 .. m : t[x] = q[x]
  BY <1>4, <1>5, PacketsArePackets, AppendProperties
<1>7. ASSUME NEW j \in R!Wanted \cap 1 .. k PROVE t[R!Rank(j)] = R!PacketOf(j)
  <2>1. CASE j = k
    BY <1>3, <1>4, <1>6, <2>1
  <2>2. CASE j # k
    <3>1. j \in 1 .. k - 1 /\ j <= k - 1 /\ j \in 0 .. n
      BY <1>2, <2>2
    <3>2. R!Rank(j) \in 1 .. m
      <4>1. R!Rank(j) <= m
        BY <1>1, <1>2, <1>3, <3>1, RankIs
      <4>2. R!Rank(j) >= 1 /\ R!Rank(j) \in Nat
        BY <1>1, <3>1, RankIs
      <4> QED
        BY <4>1, <4>2
    <3>3. q[R!Rank(j)] = R!PacketOf(j)
      BY <3>1 DEF CopiedIn
    <3> QED
      BY <1>6, <3>2, <3>3
  <2> QED
    BY <2>1, <2>2
<1> QED
  BY <1>3, <1>4, <1>6, <1>7 DEF CopiedIn

\* A record that is cut off is the last one of the file.
LEMMA CopiedRest ==
  ASSUME capture \in Captures, NEW j \in 0 .. Len(capture.records), NEW q, CopiedIn(q, j),
         j < Len(capture.records) => Len(R!BytesOf(j + 1)) > Len(R!file)
  PROVE  CopiedIn(q, Len(capture.records))
<1>1. PICK n \in Nat : n = Len(capture.records)
  BY CaptureIs
<1>2. ASSUME NEW k \in R!Wanted PROVE k \in 1 .. j
  <2>1. k \in 1 .. n /\ Len(R!BytesOf(k)) <= Len(R!file)
    BY <1>1, RankIs DEF R!Wanted
  <2>2. SUFFICES ASSUME k > j PROVE FALSE
    BY <1>1, <2>1
  <2>3. j + 1 \in 0 .. n /\ k \in j + 1 .. n /\ j < n /\ k \in 0 .. n
    BY <1>1, <2>1, <2>2
  <2>4. Len(R!BytesOf(j + 1)) <= Len(R!BytesOf(k))
    BY <1>1, <2>3, BytesOfGrows
  <2>5. /\ Len(R!BytesOf(j + 1)) \in Nat /\ Len(R!BytesOf(k)) \in Nat /\ Len(R!file) \in Nat
    BY <1>1, <2>3, BytesOfIs, CaptureFileIs
  <2> QED
    BY <1>1, <2>1, <2>3, <2>4, <2>5
<1>3. R!Wanted \cap 1 .. n = R!Wanted \cap 1 .. j
  BY <1>1, <1>2
<1>4. R!Rank(n) = R!Rank(j)
  BY <1>3 DEF R!Rank
<1> QED
  BY <1>1, <1>3, <1>4 DEF CopiedIn

LEMMA CopiedAll ==
  ASSUME capture \in Captures, NEW q \in Seq(R!Packet), CopiedIn(q, Len(capture.records)),
         NEW p \in R!Packet, capture.lost = 0 => p = R!NoPacket
  PROVE  CompleteIn(Append(q, p))
<1>1. PICK n \in Nat : n = Len(capture.records)
  BY CaptureIs
<1>2. PICK m \in Nat : m = R!Rank(n) /\ m = R!Cardinality(R!Wanted)
  BY <1>1, RankIs, n \in 0 .. n
<1>3. PICK t : t = Append(q, p)
  OBVIOUS
<1>4. Len(q) = m
  BY <1>1, <1>2 DEF CopiedIn
<1>5. Len(t) = m + 1 /\ t[m + 1] = p /\ \A x \in 1 .. m : t[x] = q[x]
  BY <1>3, <1>4, AppendProperties
<1>6. \A k \in R!Wanted : R!Rank(k) \in 1 .. m /\ k \in R!Wanted \cap 1 .. n
  BY <1>1, <1>2, RankIs
<1>7. \A k \in R!Wanted : t[R!Rank(k)] = R!PacketOf(k)
  BY <1>1, <1>5, <1>6 DEF CopiedIn
<1> QED
  BY <1>2, <1>3, <1>5, <1>7 DEF CompleteIn

LEMMA BytesOfNext ==
  ASSUME capture \in Captures, NEW k \in 1 .. Len(capture.records)
  PROVE  /\ Len(R!BytesOf(k)) =
              Len(R!BytesOf(k - 1)) + R!HeaderSize + Len(capture.records[k].data)
         /\ Len(R!BytesOf(k - 1)) \in Nat
<1>1. PICK a, b, r : a = R!BytesOf(k - 1) /\ b = R!BytesOf(k) /\ r = R!Record(capture.records[k])
  OBVIOUS
<1>2. b = a \o r
  BY <1>1, BytesOfIs
<1>3. a \in Seq(0 .. BYTES - 1) /\ Len(a) \in Nat
  <2>1. k - 1 \in 0 .. Len(capture.records)
    BY CaptureIs
  <2> QED
    BY <1>1, <2>1, BytesOfIs
<1>4. PICK h \in Nat, d \in Nat : h = R!HeaderSize /\ d = Len(capture.records[k].data)
  BY LengthsAre, Words
<1>5. r \in Seq(0 .. BYTES - 1) /\ Len(r) = h + d
  BY <1>1, <1>4, LengthsAre, RecordIs
<1>6. Len(b) = Len(a) + Len(r)
  BY <1>2, <1>3, <1>5, ConcatProperties
<1>7. Len(b) = Len(a) + h + d
  BY <1>3, <1>5, <1>6
<1> QED
  BY <1>1, <1>3, <1>4, <1>7

\* nothing is lost in a file that is not cut off, nothing added in one that is
LEMMA FileLength ==
  ASSUME capture \in Captures
  PROVE  /\ Len(R!file) <= Len(R!BytesOf(Len(capture.records)))
         /\ capture.lost = 0 => Len(R!file) = Len(R!BytesOf(Len(capture.records)))
<1>1. PICK n \in Nat : n = Len(capture.records)
  BY CaptureIs
<1>2. PICK all, t : all = R!BytesOf(n) /\ t = R!file
  OBVIOUS
<1>3. all \in Seq(0 .. BYTES - 1) /\ Len(all) \in Nat
  BY <1>1, <1>2, BytesOfIs, n \in 0 .. n
<1>4. t = SubSeq(all, 1, Len(all) - capture.lost) /\ capture.lost \in Nat
  BY <1>1, <1>2, CaptureIs DEF R!file
<1>5. PICK m \in Int : m = Len(all) - capture.lost
  BY <1>3, <1>4
<1>6. m <= Len(all) /\ (capture.lost = 0 => m = Len(all))
  BY <1>3, <1>4, <1>5
<1>7. \A x \in 1 .. m : all[x] \in 0 .. BYTES - 1
  <2>1. \A x \in 1 .. m : x \in 1 .. Len(all)
    BY <1>3, <1>6
  <2> QED
    BY <1>3, <2>1, ElementOfSeq
<1>8. Len(t) = IF 1 <= m THEN m - 1 + 1 ELSE 0
  BY <1>4, <1>5, <1>7, SubSeqProperties
<1> QED
  BY <1>1, <1>2, <1>3, <1>5, <1>6, <1>8

\* the next record, when it is in the file with its last byte
NextRecord ==
  \E k \in 1 .. Len(capture.records) :
    /\ CopiedIn(pushed, k - 1)
    /\ Len(R!BytesOf(k)) <= Len(R!file)
    /\ R!LengthIncluded = Len(capture.records[k].data)
    /\ R!Bytes(R!HeaderSize, R!LengthIncluded, R!Stray) = capture.records[k].data
    /\ Len(R!BytesOf(k)) = position + R!HeaderSize + R!LengthIncluded
\* what is read when it is not, or there is none
NoRecord ==
  /\ CopiedIn(pushed, Len(capture.records))
  /\ R!ReadsPast(R!HeaderSize + R!LengthIncluded)
  /\ R!After(R!HeaderSize) + R!LengthIncluded >= Len(R!file)
  /\ capture.lost = 0 => /\ R!LengthIncluded = 0
                         /\ R!Bytes(R!HeaderSize, R!LengthIncluded, R!Stray) = <<>>

LEMMA ReadingIs ==
  ASSUME capture \in Captures, position \in Nat, R!LengthsSurvive,
         EndianFlip <=> capture.front = "swapped", R!Reading
  PROVE  NextRecord \/ NoRecord
<1>1. PICK n \in Nat, t \in Nat, h \in Nat, l \in Nat :
        /\ n = Len(capture.records) /\ t = Len(R!file) /\ h = R!HeaderSize /\ h = 4 * WORD
        /\ l = R!LengthIncluded
  BY CaptureIs, CaptureFileIs, LengthIsNat, Words
<1>0. WORD \in Nat /\ WORD > 0 /\ h > 0 /\ 3 * WORD <= h
  BY <1>1, Words
<1>2. CASE position >= t /\ CopiedIn(pushed, n)
  <2>1. l = 0 /\ R!Bytes(R!HeaderSize, l, R!Stray) = <<>>
    BY <1>1, <1>2, NothingRead
  <2>2. R!ReadsPast(h + l)
    BY <1>0, <1>1, <1>2, <2>1 DEF R!ReadsPast
  <2>3. R!After(h) + l >= t
    BY <1>0, <1>1, <1>2, <2>1 DEF R!ReadsPast, R!After
  <2>4. NoRecord
    BY <1>1, <1>2, <2>1, <2>2, <2>3 DEF NoRecord
  <2> QED
    BY <2>4
<1>3. ASSUME NEW j \in 0 .. n, position = Len(R!BytesOf(j)), position < t, CopiedIn(pushed, j)
      PROVE  NextRecord \/ NoRecord
  <2>1. Len(R!BytesOf(n)) >= t /\ Len(R!BytesOf(n)) \in Nat /\ (capture.lost = 0 => Len(R!BytesOf(n)) = t)
    BY <1>1, FileLength, BytesOfIs, n \in 0 .. n
  <2>2. j # n
    BY <1>1, <1>3, <2>1
  <2>3. PICK k \in 1 .. n : k = j + 1 /\ k - 1 = j /\ j \in 0 .. n - 1
    BY <2>2
  <2>4. PICK e \in Nat, d \in Nat : e = Len(R!BytesOf(k)) /\ d = Len(capture.records[k].data)
    BY <1>1, BytesOfIs, LengthsAre, k \in 0 .. n
  <2>5. e = position + h + d
    BY <1>1, <1>3, <2>3, <2>4, BytesOfNext
  <2>6. position + 3 * WORD <= t => l = d
    BY <1>1, <1>3, <2>3, <2>4, LengthRead
  <2>7. CASE e <= t
    <3>1. position + 3 * WORD <= t /\ position + h + d <= t
      BY <1>0, <2>5, <2>7
    <3>2. l = d
      BY <2>6, <3>1
    <3>3. R!Bytes(h, d, R!Stray) = capture.records[k].data
      BY <1>1, <1>3, <2>3, <2>4, <3>1, DataRead
    <3>4. NextRecord
      BY <1>1, <1>3, <2>3, <2>4, <2>5, <2>7, <3>2, <3>3 DEF NextRecord
    <3> QED
      BY <3>4
  <2>8. CASE e > t
    <3>1. CopiedIn(pushed, n)
      BY <1>1, <1>3, <2>3, <2>4, <2>8, CopiedRest
    <3>2. position + h + l > t
      BY <1>0, <2>5, <2>6, <2>8
    <3>3. R!ReadsPast(h + l)
      BY <1>1, <3>2 DEF R!ReadsPast
    <3>4. R!After(h) + l >= t
      <4>1. R!After(h) = IF position + h > t THEN t ELSE position + h
        BY <1>1, <1>3 DEF R!After, R!ReadsPast
      <4> QED
        BY <3>2, <4>1
    <3>5. capture.lost # 0
      <4>1. Len(R!BytesOf(k)) <= Len(R!BytesOf(n))
        BY <1>1, BytesOfGrows, k \in 0 .. n, n \in k .. n
      <4> QED
        BY <2>1, <2>4, <2>8, <4>1
    <3>6. NoRecord
      BY <1>1, <3>1, <3>3, <3>4, <3>5 DEF NoRecord
    <3> QED
      BY <3>6
  <2> QED
    BY <2>4, <2>7, <2>8
<1>4. CASE \E j \in 0 .. n : position = Len(R!BytesOf(j)) /\ position <= t /\ CopiedIn(pushed, j)
  <2>1. PICK j \in 0 .. n : position = Len(R!BytesOf(j)) /\ position <= t /\ CopiedIn(pushed, j)
    BY <1>4
  <2>2. CASE position < t
    BY <1>3, <2>1, <2>2
  <2>3. CASE position = t
    <3>1. j < n => Len(R!BytesOf(j + 1)) > t
      <4> SUFFICES ASSUME j < n PROVE Len(R!BytesOf(j + 1)) > t
        OBVIOUS
      <4>1. PICK k \in 1 .. n : k = j + 1 /\ k - 1 = j
        OBVIOUS
      <4>2. PICK d \in Nat : d = Len(capture.records[k].data)
        BY <1>1, LengthsAre
      <4>3. Len(R!BytesOf(k)) = position + h + d
        BY <1>1, <2>1, <4>1, <4>2, BytesOfNext
      <4> QED
        BY <1>0, <2>3, <4>1, <4>3
    <3>2. CopiedIn(pushed, n)
      BY <1>1, <2>1, <3>1, CopiedRest
    <3> QED
      BY <1>2, <2>3, <3>2
  <2> QED
    BY <2>1, <2>2, <2>3
<1>5. R!Reading => \/ \E j \in 0 .. n : position = Len(R!BytesOf(j)) /\ position <= t /\ CopiedIn(pushed, j)
                   \/ position >= t /\ CopiedIn(pushed, n)
  BY <1>1 DEF R!Reading, R!Copied, CopiedIn
<1> QED
  BY <1>2, <1>4, <1>5

-----------------------------------------------------------------------------
(* readPcapFile: where a step leads *)
\* the conjuncts of R!Safe, after a step that leaves the capture as it is
LEMMA StillWanted ==
  ASSUME capture' = capture
  PROVE  /\ R!Wanted' = R!Wanted /\ R!file' = R!file
         /\ \A k : R!BytesOf(k)' = R!BytesOf(k)
         /\ \A k : R!Rank(k)' = R!Rank(k)
         /\ \A k : R!PacketOf(k)' = R!PacketOf(k)
         /\ R!LengthsSurvive' <=> R!LengthsSurvive
<1>1. R!Wanted' = R!Wanted
  BY DEF R!Wanted, R!BytesOf, R!file, R!Record, R!Word
<1>2. R!file' = R!file
  BY DEF R!BytesOf, R!file, R!Record, R!Word
<1>3. ASSUME NEW k PROVE R!BytesOf(k)' = R!BytesOf(k)
  BY DEF R!BytesOf, R!Record, R!Word
<1>4. ASSUME NEW k PROVE R!Rank(k)' = R!Rank(k)
  BY <1>1 DEF R!Rank
<1>5. ASSUME NEW k PROVE R!PacketOf(k)' = R!PacketOf(k)
  BY DEF R!PacketOf
<1>6. R!LengthsSurvive' <=> R!LengthsSurvive
  BY DEF R!LengthsSurvive
<1> QED
  BY <1>1, <1>2, <1>3, <1>4, <1>5, <1>6

LEMMA CopiedNow == \A k : R!Copied(k) <=> CopiedIn(pushed, k)
BY DEF R!Copied, CopiedIn

LEMMA CompleteNow == R!Complete <=> CompleteIn(pushed)
BY DEF R!Complete, CompleteIn

LEMMA CopiedThen ==
  ASSUME capture' = capture, NEW k, CopiedIn(pushed', k)
  PROVE  R!Copied(k)'
BY StillWanted DEF R!Copied, CopiedIn

LEMMA CompleteThen ==
  ASSUME capture' = capture, CompleteIn(pushed')
  PROVE  R!Complete'
<1>1. R!Cardinality(R!Wanted)' = R!Cardinality(R!Wanted)
  BY StillWanted DEF R!Cardinality
<1> QED
  BY <1>1, StillWanted DEF R!Complete, CompleteIn, R!NoPacket

LEMMA ReadingAt ==
  ASSUME capture' = capture, NEW k \in 0 .. Len(capture.records),
         position' = Len(R!BytesOf(k)), position' <= Len(R!file), CopiedIn(pushed', k)
  PROVE  R!Reading'
<1>1. R!Copied(k)'
  BY CopiedThen
<1>2. position' = Len(R!BytesOf(k)') /\ position' <= Len(R!file')
  BY StillWanted
<1> QED
  BY <1>1, <1>2 DEF R!Reading

LEMMA ReadingBehind ==
  ASSUME capture' = capture, position' >= Len(R!file),
         CopiedIn(pushed', Len(capture.records))
  PROVE  R!Reading'
<1>1. PICK n : n = Len(capture.records)
  OBVIOUS
<1>2. R!Copied(n)'
  BY <1>1, CopiedThen
<1>3. R!Copied(Len(capture.records))'
  BY <1>1, <1>2
<1>4. position' >= Len(R!file')
  BY StillWanted
<1> QED
  BY <1>3, <1>4 DEF R!Reading

LEMMA HoldingAt ==
  ASSUME capture' = capture, NEW k \in R!Wanted,
         position' = Len(R!BytesOf(k)), CopiedIn(pushed', k - 1), pPacket' = R!PacketOf(k)
  PROVE  R!Holding'
<1>1. PICK j : j = k - 1
  OBVIOUS
<1>2. R!Copied(j)'
  BY <1>1, CopiedThen
<1>3. R!Copied(k - 1)'
  BY <1>1, <1>2
<1>4. /\ k \in R!Wanted' /\ position' = Len(R!BytesOf(k)')
      /\ pPacket' = R!PacketOf(k)'
  BY StillWanted
<1> QED
  BY <1>3, <1>4 DEF R!Holding

LEMMA HoldingLastAt ==
  ASSUME capture' = capture, CopiedIn(pushed', Len(capture.records)),
         capture.lost = 0 => pPacket' = R!NoPacket
  PROVE  R!HoldingLast'
<1>1. PICK n : n = Len(capture.records)
  OBVIOUS
<1>2. R!Copied(n)'
  BY <1>1, CopiedThen
<1>3. R!Copied(Len(capture.records))'
  BY <1>1, <1>2
<1> QED
  BY <1>3 DEF R!HoldingLast, R!NoPacket

Read == {"loop", "push", "done"}

LEMMA SafeNow ==
  R!Safe =>
    /\ R!TypeOK /\ capture \in Captures /\ position \in Nat
    /\ pPacket \in R!Packet /\ pushed \in Seq(R!Packet)
    /\ readPc = "open" => pushed = <<>> /\ position = 0
    /\ readPc \in Read => (EndianFlip <=> capture.front = "swapped")
    /\ readPc \in Read /\ capture.front = "cut" => feof /\ pushed = <<>> /\ readPc # "push"
    /\ capture.front # "cut" /\ R!LengthsSurvive =>
         /\ readPc = "loop" /\ ~feof => R!Reading
         /\ readPc = "push" /\ ~feof => R!Holding
         /\ readPc = "push" /\ feof => R!HoldingLast
         /\ readPc = "done" \/ (readPc = "loop" /\ feof) => R!Complete
BY DEF R!Safe, R!TypeOK, Read

LEMMA SafeThen ==
  ASSUME capture' = capture, R!TypeOK', pPacket' \in R!Packet, pushed' \in Seq(R!Packet),
         readPc' = "open" => pushed' = <<>> /\ position' = 0,
         readPc' \in Read => (EndianFlip' <=> capture.front = "swapped"),
         readPc' \in Read /\ capture.front = "cut" =>
           feof' /\ pushed' = <<>> /\ readPc' # "push",
         capture.front # "cut" /\ R!LengthsSurvive =>
           /\ readPc' = "loop" /\ ~feof' => R!Reading'
           /\ readPc' = "push" /\ ~feof' => R!Holding'
           /\ readPc' = "push" /\ feof' => R!HoldingLast'
           /\ readPc' = "done" \/ (readPc' = "loop" /\ feof') => R!Complete'
  PROVE  R!Safe'
<1>1. R!LengthsSurvive' <=> R!LengthsSurvive
  BY StillWanted
<1> QED
  BY <1>1 DEF R!Safe, Read

LEMMA SafeParseStart == R!Safe /\ R!TypeOK' /\ R!ParseStart => R!Safe'
<1> SUFFICES ASSUME R!Safe, R!TypeOK', R!ParseStart PROVE R!Safe'
  OBVIOUS
<1>1. /\ readPc = "open" /\ EndianFlip' = (capture.front = "swapped")
      /\ feof' = (capture.front = "cut") /\ readPc' = "loop"
      /\ capture' = capture /\ position' = position /\ pushed' = pushed /\ pPacket' = pPacket
  BY DEF R!ParseStart
<1>2. /\ capture \in Captures /\ pPacket' \in R!Packet /\ pushed' \in Seq(R!Packet)
      /\ pushed' = <<>> /\ position' = 0
  BY <1>1, SafeNow
<1>3. capture.front # "cut" => R!Reading'
  <2>1. PICK k \in 0 .. Len(capture.records) : k = 0
    BY <1>2, CaptureIs
  <2>2. position' = Len(R!BytesOf(k)) /\ position' <= Len(R!file)
    BY <1>2, <2>1, BytesOfIs, CaptureFileIs
  <2>3. CopiedIn(<<>>, 0)
    BY <1>2, RankIs DEF CopiedIn
  <2> QED
    BY <1>1, <1>2, <2>1, <2>2, <2>3, ReadingAt
<1> QED
  BY <1>1, <1>2, <1>3, SafeThen DEF Read

LEMMA SafeEnds ==
  R!Safe /\ R!TypeOK' /\ (R!RefuseFile \/ R!EndOfFile \/ R!OutOfMemory) => R!Safe'
<1> SUFFICES ASSUME R!Safe, R!TypeOK', R!RefuseFile \/ R!EndOfFile \/ R!OutOfMemory PROVE R!Safe'
  OBVIOUS
<1>1. /\ capture' = capture /\ pPacket' = pPacket /\ pushed' = pushed
      /\ feof' = feof /\ EndianFlip' = EndianFlip
      /\ \/ readPc' \in {"refused", "crashed"}
         \/ readPc = "loop" /\ feof /\ readPc' = "done"
  BY DEF R!RefuseFile, R!EndOfFile, R!OutOfMemory
<1>2. pPacket' \in R!Packet /\ pushed' \in Seq(R!Packet)
  BY <1>1, SafeNow
<1>3. CASE readPc' \in {"refused", "crashed"}
  BY <1>1, <1>2, <1>3, SafeThen DEF Read
<1>4. CASE readPc = "loop" /\ feof /\ readPc' = "done"
  <2>1. capture.front # "cut" /\ R!LengthsSurvive => R!Complete'
    BY <1>1, <1>4, SafeNow, CompleteNow, CompleteThen
  <2>2. /\ EndianFlip' <=> capture.front = "swapped"
        /\ capture.front = "cut" => feof' /\ pushed' = <<>>
    BY <1>1, <1>4, SafeNow DEF Read
  <2> QED
    BY <1>1, <1>2, <1>4, <2>1, <2>2, SafeThen DEF Read
<1> QED
  BY <1>1, <1>3, <1>4

LEMMA SafeReadNextPacket == R!Safe /\ R!TypeOK' /\ R!ReadNextPacket => R!Safe'
<1> SUFFICES ASSUME R!Safe, R!TypeOK', R!ReadNextPacket PROVE R!Safe'
  OBVIOUS
<1>1. PICK l, d : l = R!LengthIncluded /\ d = R!Bytes(R!HeaderSize, l, R!Stray)
  OBVIOUS
<1>2. /\ readPc = "loop" /\ ~feof /\ l <= DEFAULT_READ_BUFFER
      /\ pPacket' = [LengthIncluded |-> l, Data |-> d]
      /\ position' = R!After(R!HeaderSize + l)
      /\ feof' = R!ReadsPast(R!HeaderSize + l)
      /\ readPc' = "push"
      /\ capture' = capture /\ EndianFlip' = EndianFlip /\ pushed' = pushed
  BY <1>1 DEF R!ReadNextPacket
<1>3. /\ capture \in Captures /\ position \in Nat /\ pushed' \in Seq(R!Packet)
      /\ EndianFlip <=> capture.front = "swapped"
      /\ capture.front # "cut"
      /\ R!LengthsSurvive => R!Reading
  BY <1>2, SafeNow DEF Read
<1>4. ASSUME R!LengthsSurvive, NextRecord PROVE ~feof' /\ R!Holding'
  <2>1. PICK k \in 1 .. Len(capture.records) :
          /\ CopiedIn(pushed, k - 1)
          /\ Len(R!BytesOf(k)) <= Len(R!file)
          /\ l = Len(capture.records[k].data)
          /\ d = capture.records[k].data
          /\ Len(R!BytesOf(k)) = position + R!HeaderSize + l
    BY <1>1, <1>4 DEF NextRecord
  <2>2. k \in R!Wanted
    BY <1>2, <1>3, <2>1, CaptureIs DEF R!Wanted
  <2>3. pPacket' = R!PacketOf(k)
    BY <1>2, <2>1 DEF R!PacketOf
  <2>4. PICK h \in Nat, e \in Nat, t \in Nat, m \in Nat :
          h = R!HeaderSize /\ e = Len(R!BytesOf(k)) /\ t = Len(R!file) /\ m = l
    BY <1>3, <2>1, Words, BytesOfIs, CaptureFileIs, LengthsAre, k \in 0 .. Len(capture.records)
  <2>10. e = position + h + m /\ e <= t
    BY <2>1, <2>4
  <2>5. ~(position + (h + m) > t) /\ position + (h + m) = e
    BY <1>3, <2>10
  <2>6. ~R!ReadsPast(h + m)
    BY <2>4, <2>5 DEF R!ReadsPast
  <2>7. position' = e
    BY <1>2, <2>4, <2>5, <2>6 DEF R!After
  <2>8. ~feof'
    BY <1>2, <2>4, <2>6
  <2> QED
    BY <1>2, <2>1, <2>2, <2>3, <2>4, <2>7, <2>8, HoldingAt
<1>5. ASSUME R!LengthsSurvive, NoRecord PROVE feof' /\ R!HoldingLast'
  <2>1. /\ CopiedIn(pushed', Len(capture.records))
        /\ R!ReadsPast(R!HeaderSize + l)
        /\ capture.lost = 0 => l = 0 /\ d = <<>>
    BY <1>1, <1>2, <1>5 DEF NoRecord
  <2>2. feof'
    BY <1>2, <2>1
  <2>3. capture.lost = 0 => pPacket' = R!NoPacket
    BY <1>2, <2>1 DEF R!NoPacket
  <2> QED
    BY <1>2, <2>1, <2>2, <2>3, HoldingLastAt
<1>6. R!LengthsSurvive => (~feof' /\ R!Holding') \/ (feof' /\ R!HoldingLast')
  BY <1>3, <1>4, <1>5, ReadingIs
<1>7. pPacket' \in R!Packet
  <2>1. l \in Nat /\ d \in Seq(Int)
    <3>1. l \in Nat
      BY <1>1, <1>3, LengthIsNat
    <3>2. R!HeaderSize \in Nat /\ 0 .. BYTES - 1 \subseteq Int /\ R!Stray \in Int
      BY Words DEF R!Stray
    <3> QED
      BY <1>1, <1>3, <3>1, <3>2, BytesAre
  <2> QED
    BY <1>2, <2>1 DEF R!Packet
<1> QED
  BY <1>2, <1>3, <1>6, <1>7, SafeThen DEF Read

LEMMA SafeSkipPayload == R!Safe /\ R!TypeOK' /\ R!SkipPayload => R!Safe'
<1> SUFFICES ASSUME R!Safe, R!TypeOK', R!SkipPayload PROVE R!Safe'
  OBVIOUS
<1>1. PICK l : l = R!LengthIncluded
  OBVIOUS
<1>2. /\ readPc = "loop" /\ ~feof /\ l > DEFAULT_READ_BUFFER
      /\ position' = R!After(R!HeaderSize) + l
      /\ readPc' = readPc /\ feof' = feof
      /\ capture' = capture /\ EndianFlip' = EndianFlip /\ pushed' = pushed
      /\ pPacket' = pPacket
  BY <1>1 DEF R!SkipPayload
<1>3. /\ capture \in Captures /\ position \in Nat /\ pPacket' \in R!Packet /\ pushed' \in Seq(R!Packet)
      /\ EndianFlip <=> capture.front = "swapped"
      /\ capture.front # "cut"
      /\ R!LengthsSurvive => R!Reading
  BY <1>2, SafeNow DEF Read
<1>4. ASSUME R!LengthsSurvive, NextRecord PROVE R!Reading'
  <2>1. PICK k \in 1 .. Len(capture.records) :
          /\ CopiedIn(pushed, k - 1)
          /\ Len(R!BytesOf(k)) <= Len(R!file)
          /\ l = Len(capture.records[k].data)
          /\ Len(R!BytesOf(k)) = position + R!HeaderSize + l
    BY <1>1, <1>4 DEF NextRecord
  <2>2. PICK h \in Nat, e \in Nat, t \in Nat, m \in Nat :
          h = R!HeaderSize /\ e = Len(R!BytesOf(k)) /\ t = Len(R!file) /\ m = l
    BY <1>3, <2>1, Words, BytesOfIs, CaptureFileIs, LengthsAre, k \in 0 .. Len(capture.records)
  <2>3. k \notin R!Wanted
    BY <1>2, <2>1, <2>2, Words DEF R!Wanted
  <2>4. CopiedIn(pushed, k)
    BY <1>3, <2>1, <2>3, CopiedUnwanted
  <2>7. e = position + h + m /\ e <= t
    BY <2>1, <2>2
  <2>5. ~R!ReadsPast(h)
    BY <1>3, <2>2, <2>7 DEF R!ReadsPast
  <2>6. position' = e
    BY <1>2, <1>3, <2>2, <2>5, <2>7 DEF R!After
  <2>8. k \in 0 .. Len(capture.records) /\ position' <= Len(R!file) /\ CopiedIn(pushed', k)
    BY <1>2, <2>2, <2>4, <2>6, <2>7
  <2> QED
    BY <1>2, <2>2, <2>6, <2>8, ReadingAt
<1>5. ASSUME R!LengthsSurvive, NoRecord PROVE R!Reading'
  BY <1>1, <1>2, <1>5, ReadingBehind DEF NoRecord
<1>6. R!LengthsSurvive => R!Reading'
  BY <1>3, <1>4, <1>5, ReadingIs
<1> QED
  BY <1>2, <1>3, <1>6, SafeThen DEF Read

LEMMA SafePush == R!Safe /\ R!TypeOK' /\ R!Push => R!Safe'
<1> SUFFICES ASSUME R!Safe, R!TypeOK', R!Push PROVE R!Safe'
  OBVIOUS
<1>1. /\ readPc = "push" /\ pushed' = Append(pushed, pPacket) /\ readPc' = "loop"
      /\ capture' = capture /\ position' = position /\ feof' = feof
      /\ EndianFlip' = EndianFlip /\ pPacket' = pPacket
  BY DEF R!Push
<1>2. /\ capture \in Captures /\ position \in Nat /\ pushed \in Seq(R!Packet)
      /\ EndianFlip <=> capture.front = "swapped"
      /\ capture.front # "cut"
      /\ R!LengthsSurvive /\ ~feof => R!Holding
      /\ R!LengthsSurvive /\ feof => R!HoldingLast
  BY <1>1, SafeNow DEF Read
<1>3. pPacket \in R!Packet
  BY SafeNow
<1>4. pushed' \in Seq(R!Packet)
  BY <1>1, <1>2, <1>3, AppendProperties
<1>5. ASSUME R!LengthsSurvive, ~feof PROVE R!Reading'
  <2>1. PICK k \in R!Wanted :
          /\ position = Len(R!BytesOf(k)) /\ CopiedIn(pushed, k - 1) /\ pPacket = R!PacketOf(k)
    BY <1>2, <1>5, CopiedNow DEF R!Holding
  <2>2. CopiedIn(pushed', k)
    BY <1>1, <1>2, <2>1, CopiedWanted
  <2>3. k \in 0 .. Len(capture.records) /\ position' <= Len(R!file)
    BY <1>1, <1>2, <2>1, RankIs DEF R!Wanted
  <2> QED
    BY <1>1, <2>1, <2>2, <2>3, ReadingAt
<1>6. ASSUME R!LengthsSurvive, feof PROVE R!Complete'
  <2>1. CopiedIn(pushed, Len(capture.records)) /\ (capture.lost = 0 => pPacket = R!NoPacket)
    BY <1>2, <1>6, CopiedNow DEF R!HoldingLast
  <2>2. CompleteIn(pushed')
    BY <1>1, <1>2, <1>3, <2>1, CopiedAll
  <2> QED
    BY <1>1, <2>2, CompleteThen
<1> QED
  BY <1>1, <1>2, <1>4, <1>5, <1>6, SafeThen DEF Read

LEMMA ReaderSafeStep ==
  ASSUME R!Safe, [R!Next]_readVars
  PROVE  R!Safe'
<1>1. R!TypeOK'
  BY SafeNow, ReaderStep
<1>2. CASE UNCHANGED readVars
  <2>1. /\ capture' = capture /\ position' = position /\ feof' = feof /\ EndianFlip' = EndianFlip
        /\ readPc' = readPc /\ pPacket' = pPacket /\ pushed' = pushed
    BY <1>2 DEF readVars
  <2>2. R!Cardinality(R!Wanted)' = R!Cardinality(R!Wanted)
    BY <2>1, StillWanted DEF R!Cardinality
  <2>3. R!Reading => R!Reading'
    BY <2>1, StillWanted DEF R!Reading, R!Copied
  <2>4. R!Holding => R!Holding'
    BY <2>1, StillWanted DEF R!Holding, R!Copied
  <2>5. R!HoldingLast => R!HoldingLast'
    BY <2>1, StillWanted DEF R!HoldingLast, R!Copied, R!NoPacket
  <2>6. R!Complete => R!Complete'
    BY <2>1, <2>2, StillWanted DEF R!Complete, R!NoPacket
  <2> QED
    BY <1>1, <2>1, <2>3, <2>4, <2>5, <2>6, SafeNow, SafeThen
<1> QED
  BY <1>1, <1>2, SafeParseStart, SafeEnds, SafeReadNextPacket, SafeSkipPayload, SafePush DEF R!Next

(* What readPcapFile has pushed so far are the packets of the records it   *)
(* has passed.                                                             *)
THEOREM SpecReaderSafe == ProgramsSpec => []R!Safe
<1>1. ProgramsInit => R!Safe
  <2> SUFFICES ASSUME R!Init PROVE R!Safe
    BY DEF ProgramsInit
  <2>1. R!TypeOK
    BY ReaderInit
  <2>2. R!NoPacket \in R!Packet /\ <<>> \in Seq(R!Packet)
    BY DEF R!NoPacket, R!Packet
  <2> QED
    BY <2>1, <2>2 DEF R!Init, R!Safe
<1>2. R!Safe /\ [ProgramsNext]_programVars => R!Safe'
  BY ReaderSteps, ReaderSafeStep
<1> QED
  BY <1>1, <1>2, PTL DEF ProgramsSpec

(* Of a capture, cut off or not, the reader pushes the packets that are    *)
(* whole and fit, in their order, and one more.                            *)
THEOREM SpecPacketsOfTheFile == ProgramsSpec => []PacketsOfTheFile
<1>1. R!Safe => PacketsOfTheFile
  BY DEF R!Safe, PacketsOfTheFile, R!PacketsOfTheFile
<1> QED
  BY <1>1, SpecReaderSafe, PTL

-----------------------------------------------------------------------------
(* the programs together *)
\* What fractal does here is a behaviour of Fractal.
LEMMA FractalBehaves == ProgramsSpec => Spec
<1>1. ProgramsInit => Init
  BY DEF ProgramsInit
<1>2. [ProgramsNext]_programVars => [Next]_fractalVars
  BY Zenon DEF ProgramsNext, FractalRuns, ChimeRuns, BitflipRuns, BytecheckRuns, ReaderRuns,
               programVars
<1> QED
  BY <1>1, <1>2, PTL DEF ProgramsSpec, Spec

LEMMA ChimeTypes == ProgramsSpec => []C!TypeOK
<1>1. CP!Safe => C!TypeOK
  BY DEF CP!Safe, CP!TypeOK, C!TypeOK, C!Slots, CP!Slots, C!Intervals, CP!Intervals
<1>2. CP!Spec => []CP!Safe
  BY ProgramsAssumption, CP!SpecSafe
<1> QED
  BY <1>1, <1>2, ChimeBehaves, PTL

(* Each program keeps its types, whatever its files, arguments and sizes:  *)
(* among them that a capture, even one that is misread or cut off, gives   *)
(* readPcapFile no packet larger than its buffer.                          *)
THEOREM SpecProgramsTypeOK == ProgramsSpec => []ProgramsTypeOK
<1>1. ProgramsSpec => []TypeOK
  BY FractalBehaves, SpecTypeOK, PTL
<1>2. ProgramsSpec => []R!TypeOK
  <2>1. ProgramsInit => R!TypeOK
    BY ReaderInit DEF ProgramsInit
  <2>2. R!TypeOK /\ [ProgramsNext]_programVars => R!TypeOK'
    BY ReaderSteps, ReaderStep
  <2> QED
    BY <2>1, <2>2, PTL DEF ProgramsSpec
<1>3. B!Safe /\ K!Safe => B!TypeOK /\ K!TypeOK
  BY DEF B!Safe, K!Safe
<1>4. TypeOK /\ C!TypeOK /\ B!TypeOK /\ K!TypeOK /\ R!TypeOK => ProgramsTypeOK
  BY DEF ProgramsTypeOK
<1> QED
  BY <1>1, <1>2, <1>3, <1>4, ChimeTypes, SpecBitflipSafe, SpecBytecheckSafe, PTL

=============================================================================
