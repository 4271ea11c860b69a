-------------------------- MODULE PacketTableProofs --------------------------
(***************************************************************************)
(* Proofs about PacketTable, for any number of consumers, any size of the  *)
(* tables and any captured packets.  Safe is inductive: its conjuncts are  *)
(* proved one after the other, each over all the actions.  All of them but *)
(* TypeOK speak of the tables through At, so what an action does to a      *)
(* table is first put in terms of At.  The statistics are sums over the    *)
(* slots and over the packets: what is needed of such sums is proved by    *)
(* induction over the subsets of a finite set, and Accounted is then       *)
(* inductive together with Safe.                                           *)
(***************************************************************************)
EXTENDS PacketTable, FiniteSetTheorems, WellFoundedInduction, TLAPS

LEMMA Sizes ==
  /\ SmallTableSize \in Nat \ {0}
  /\ Slots = 0 .. SmallTableSize - 1
  /\ 0 \in Slots
  /\ NULL \notin Packets
  /\ IsFiniteSet(Packets)
BY PacketsAssumption DEF Slots

\* A packet that is not ignored has a payload, and hash takes it to a table.
LEMMA Payloads ==
  ASSUME NEW p \in Packets, ~PacketInfo[p].ignored
  PROVE  /\ PacketInfo[p].LengthIncluded \in Nat
         /\ PacketInfo[p].PayloadOffset \in Nat
         /\ PacketInfo[p].PayloadOffset < PacketInfo[p].LengthIncluded
         /\ PacketInfo[p].Data \in [0 .. PacketInfo[p].LengthIncluded - 1 -> 0 .. 255]
         /\ DOMAIN PacketInfo[p].Data = 0 .. PacketInfo[p].LengthIncluded - 1
         /\ PayloadSize(p) = PacketInfo[p].LengthIncluded - PacketInfo[p].PayloadOffset
         /\ PayloadSize(p) \in Nat \ {0}
         /\ hash(p) \in Tables
<1>1. /\ PacketInfo[p].LengthIncluded \in Nat
      /\ PacketInfo[p].PayloadOffset \in 0 .. PacketInfo[p].LengthIncluded - 1
      /\ PacketInfo[p].Data \in [0 .. PacketInfo[p].LengthIncluded - 1 -> 0 .. 255]
  BY PacketsAssumption
<1>2. PacketInfo[p].Data[PacketInfo[p].PayloadOffset] \in 0 .. 255
  BY <1>1
<1>3. hash(p) \in Tables
  BY SMTT(30), <1>2 DEF hash, Tables
<1>4. /\ PacketInfo[p].PayloadOffset \in Nat
      /\ PacketInfo[p].PayloadOffset < PacketInfo[p].LengthIncluded
  BY <1>1
<1>5. DOMAIN PacketInfo[p].Data = 0 .. PacketInfo[p].LengthIncluded - 1
  BY <1>1
<1>6. /\ PayloadSize(p) = PacketInfo[p].LengthIncluded - PacketInfo[p].PayloadOffset
      /\ PayloadSize(p) \in Nat \ {0}
  BY <1>1, <1>4 DEF PayloadSize
<1> QED
  BY <1>1, <1>3, <1>4, <1>5, <1>6

\* Packets with one payload hash to one table.
LEMMA SameHash ==
  ASSUME NEW p \in Packets, NEW q \in Packets,
         ~PacketInfo[p].ignored, ~PacketInfo[q].ignored, Same(p, q)
  PROVE  hash(p) = hash(q)
<1>1. Payload(p)[0] = Payload(q)[0]
  BY DEF Same
<1>2. 0 \in 0 .. PayloadSize(p) - 1 /\ 0 \in 0 .. PayloadSize(q) - 1
  BY Payloads
<1>3. /\ Payload(p)[0] = PacketInfo[p].Data[PacketInfo[p].PayloadOffset + 0]
      /\ Payload(q)[0] = PacketInfo[q].Data[PacketInfo[q].PayloadOffset + 0]
  BY <1>2 DEF Payload
<1>4. /\ PacketInfo[p].PayloadOffset + 0 = PacketInfo[p].PayloadOffset
      /\ PacketInfo[q].PayloadOffset + 0 = PacketInfo[q].PayloadOffset
  BY Payloads
<1> QED
  BY <1>1, <1>3, <1>4 DEF hash

\* Of two packets with one length of headers the comparison reads exactly the
\* payloads: it tells them apart if and only if they differ.
LEMMA Comparison ==
  ASSUME NEW p \in Packets, NEW q \in Packets,
         ~PacketInfo[p].ignored, ~PacketInfo[q].ignored,
         PacketInfo[p].PayloadOffset = PacketInfo[q].PayloadOffset
  PROVE  /\ FALSE \in Outcomes(p, q) => Payload(p) # Payload(q)
         /\ TRUE \in Outcomes(p, q) => Payload(p) = Payload(q)
<1> DEFINE off == PacketInfo[p].PayloadOffset
           read == off .. PacketInfo[p].LengthIncluded - 1
           captured == read \cap DOMAIN PacketInfo[q].Data
           differ == \E k \in captured : PacketInfo[q].Data[k] # PacketInfo[p].Data[k]
<1>1. Outcomes(p, q) = IF PayloadSize(q) # PayloadSize(p) \/ differ THEN {FALSE}
                       ELSE IF captured = read THEN {TRUE} ELSE BOOLEAN
  BY DEF Outcomes
<1>2. /\ DOMAIN Payload(p) = 0 .. PayloadSize(p) - 1
      /\ DOMAIN Payload(q) = 0 .. PayloadSize(q) - 1
      /\ \A k \in 0 .. PayloadSize(p) - 1 : Payload(p)[k] = PacketInfo[p].Data[off + k]
      /\ \A k \in 0 .. PayloadSize(q) - 1 : Payload(q)[k] = PacketInfo[q].Data[off + k]
  BY DEF Payload
<1>3. ASSUME PayloadSize(q) # PayloadSize(p)
      PROVE  Payload(p) # Payload(q)
  <2>1. 0 .. PayloadSize(p) - 1 # 0 .. PayloadSize(q) - 1
    BY <1>3, Payloads
  <2> QED
    BY <1>2, <2>1
<1>4. ASSUME PayloadSize(q) = PayloadSize(p)
      PROVE  captured = read
  <2>1. PacketInfo[q].LengthIncluded = PacketInfo[p].LengthIncluded
    BY <1>4, Payloads
  <2>2. DOMAIN PacketInfo[q].Data = 0 .. PacketInfo[p].LengthIncluded - 1
    BY <2>1, Payloads
  <2>3. \A k \in read : k \in 0 .. PacketInfo[p].LengthIncluded - 1
    BY Payloads
  <2> QED
    BY <2>2, <2>3
<1>5. ASSUME PayloadSize(q) = PayloadSize(p), differ
      PROVE  Payload(p) # Payload(q)
  <2>1. PICK k \in captured : PacketInfo[q].Data[k] # PacketInfo[p].Data[k]
    BY <1>5
  <2>2. k - off \in 0 .. PayloadSize(p) - 1 /\ off + (k - off) = k
    BY SMTT(30), Payloads
  <2> QED
    BY <1>2, <1>5, <2>1, <2>2
<1>6. ASSUME PayloadSize(q) = PayloadSize(p), ~differ
      PROVE  Payload(p) = Payload(q)
  <2>1. ASSUME NEW k \in 0 .. PayloadSize(p) - 1
        PROVE  Payload(p)[k] = Payload(q)[k]
    <3>1. off + k \in read
      BY SMTT(30), Payloads
    <3> QED
      BY <1>2, <1>4, <1>6, <3>1
  <2>2. DOMAIN Payload(p) = DOMAIN Payload(q)
    BY <1>2, <1>6
  <2> QED
    BY <1>2, <2>1, <2>2 DEF Payload
<1> HIDE DEF off, read, captured, differ
<1> QED
  BY <1>1, <1>3, <1>4, <1>5, <1>6

-----------------------------------------------------------------------------
(* What the actions do, in terms of At *)
SameAt == \A t \in Tables, n \in Slots : At(t, n)' = At(t, n)

\* x takes the place of slot k in the table of c
Puts(c, k, x) ==
  \A t \in Tables, n \in Slots :
    At(t, n)' = IF t = visit[c].Table /\ n = k THEN x ELSE At(t, n)

\* c stays in processPacket
Keeps(c) ==
  /\ visit'[c].pPacket = visit[c].pPacket
  /\ visit'[c].Table = visit[c].Table
  /\ visit'[c].NextToReplace = visit[c].NextToReplace

\* c moves to label, and nobody else moves
MovesTo(c, label) ==
  /\ pc'[c] = label
  /\ \A d \in Consumers : d # c => pc'[d] = pc[d] /\ visit'[d] = visit[d]

LEMMA GotoMoves ==
  ASSUME TypeOK, NEW c \in Consumers, NEW label, Goto(c, label),
         \/ visit' = visit
         \/ \E v : visit' = [visit EXCEPT ![c] = v]
  PROVE  MovesTo(c, label)
BY DEF TypeOK, Goto, MovesTo

LEMMA LeaveMoves ==
  ASSUME TypeOK, NEW c \in Consumers, Leave(c)
  PROVE  MovesTo(c, "idle") /\ visit'[c] = NoVisit
BY DEF TypeOK, Leave, Goto, MovesTo

LEMMA NothingPut ==
  ASSUME UNCHANGED Table
  PROVE  SameAt
BY DEF SameAt, At

LEMMA WritePuts ==
  ASSUME TypeOK, NEW c \in Consumers, NEW k \in Slots, NEW e, Write(c, k, e)
  PROVE  Puts(c, k, e.ThePacket)
BY DEF TypeOK, HashOption, Write, Puts, At

\* An update that leaves the packet in its place
LEMMA WriteKeeps ==
  ASSUME TypeOK, NEW c \in Consumers, NEW k \in Slots, NEW e, Write(c, k, e),
         e.ThePacket = At(visit[c].Table, k)
  PROVE  SameAt
BY WritePuts DEF Puts, SameAt

\* A consumer that runs is inside its slots, and its packet is its own.
LEMMA Located ==
  ASSUME TypeOK, NEW c \in Consumers
  PROVE  /\ visit[c].Table \in Tables
         /\ visit[c].j \in 0 .. SmallTableSize
         /\ pc[c] \in {"compare", "hit", "fill", "zero"} => visit[c].j \in Slots
         /\ Working(c) => visit[c].pPacket \in Packets \ waiting
BY DEF TypeOK, HashOption, Working

LEMMA IgnoreEffect ==
  ASSUME TypeOK, NEW c \in Consumers, Ignore(c)
  PROVE  /\ SameAt /\ pc[c] = "idle"
         /\ UNCHANGED <<pc, visit, TableLock, NextToReplace, tallied, history>>
         /\ \E p \in waiting :
              /\ PacketInfo[p].ignored
              /\ waiting' = waiting \ {p} /\ freed' = freed \cup {p}
              /\ gPacketSeenCount' = gPacketSeenCount + 1
BY NothingPut DEF Ignore, See, tableVars

LEMMA ChooseEffect ==
  ASSUME TypeOK, NEW c \in Consumers, ChooseTable(c)
  PROVE  /\ SameAt /\ pc[c] = "idle" /\ MovesTo(c, "lock")
         /\ UNCHANGED <<TableLock, NextToReplace, freed, tallied, history>>
         /\ \E p \in waiting :
              /\ ~PacketInfo[p].ignored
              /\ waiting' = waiting \ {p}
              /\ gPacketSeenCount' = gPacketSeenCount + 1
              /\ visit'[c] = [NoVisit EXCEPT !.pPacket = p, !.Table = hash(p),
                                             !.TableLock = TableLock[hash(p)],
                                             !.NextToReplace = NextToReplace[hash(p)]]
              /\ visit'[c].pPacket = p /\ visit'[c].Table = hash(p)
              /\ visit'[c].NextToReplace = NextToReplace[hash(p)]
              /\ visit'[c].j = 0
<1>1. PICK p \in waiting :
        /\ ~PacketInfo[p].ignored
        /\ See(c, p)
        /\ visit' = [visit EXCEPT ![c] =
                       [NoVisit EXCEPT !.pPacket = p, !.Table = hash(p),
                                       !.TableLock = TableLock[hash(p)],
                                       !.NextToReplace = NextToReplace[hash(p)]]]
  BY DEF ChooseTable
<1>2. visit'[c] = [NoVisit EXCEPT !.pPacket = p, !.Table = hash(p),
                                  !.TableLock = TableLock[hash(p)],
                                  !.NextToReplace = NextToReplace[hash(p)]]
  BY <1>1 DEF TypeOK
<1>3. /\ visit'[c].pPacket = p /\ visit'[c].Table = hash(p)
      /\ visit'[c].NextToReplace = NextToReplace[hash(p)]
      /\ visit'[c].j = 0
  BY <1>2 DEF NoVisit
<1>4. MovesTo(c, "lock")
  BY <1>1, GotoMoves DEF ChooseTable
<1>5. SameAt /\ UNCHANGED <<TableLock, NextToReplace, freed, tallied, history>>
  BY NothingPut DEF ChooseTable, tableVars
<1> QED
  BY <1>1, <1>2, <1>3, <1>4, <1>5 DEF See

LEMMA LockEffect ==
  ASSUME TypeOK, NEW c \in Consumers, LockCopy(c)
  PROVE  /\ SameAt /\ pc[c] = "lock" /\ MovesTo(c, "scan")
         /\ visit'[c] = [visit[c] EXCEPT !.TableLock = TRUE]
         /\ Keeps(c) /\ visit'[c].j = visit[c].j
         /\ overlap' = (overlap \/ In(visit[c].Table) # {})
         /\ UNCHANGED <<tableVars, waiting, freed, tallied, duplicates, gPacketSeenCount>>
<1>1. visit'[c] = [visit[c] EXCEPT !.TableLock = TRUE]
  BY DEF LockCopy, TypeOK
<1>2. Keeps(c) /\ visit'[c].j = visit[c].j
  BY <1>1 DEF Keeps, TypeOK, HashOption
<1>3. MovesTo(c, "scan")
  BY DEF LockCopy, TypeOK, Goto, MovesTo
<1> QED
  BY <1>1, <1>2, <1>3, NothingPut DEF LockCopy, tableVars, seenVars

LEMMA LookEffect ==
  ASSUME TypeOK, NEW c \in Consumers, Look(c)
  PROVE  /\ SameAt /\ pc[c] = "scan" /\ visit[c].j \in Slots
         /\ MovesTo(c, IF At(visit[c].Table, visit[c].j) = NULL THEN "fill" ELSE "compare")
         /\ visit'[c] = [visit[c] EXCEPT !.entry = Entry(c, visit[c].j)]
         /\ Keeps(c) /\ visit'[c].j = visit[c].j
         /\ visit'[c].entry.ThePacket = At(visit[c].Table, visit[c].j)
         /\ UNCHANGED <<Table, scanVars, freed, history>>
<1>1. visit'[c] = [visit[c] EXCEPT !.entry = Entry(c, visit[c].j)]
  BY DEF Look, TypeOK
<1>2. Keeps(c) /\ visit'[c].j = visit[c].j
  BY <1>1 DEF Keeps, TypeOK, HashOption
<1>3. visit'[c].entry = Entry(c, visit[c].j)
  BY <1>1 DEF TypeOK, HashOption
<1>4. visit'[c].entry.ThePacket = At(visit[c].Table, visit[c].j)
  BY <1>3 DEF Entry, At
<1>5. MovesTo(c, IF At(visit[c].Table, visit[c].j) = NULL THEN "fill" ELSE "compare")
  BY DEF Look, TypeOK, Goto, MovesTo, Entry, At
<1>6. visit[c].j \in Slots
  BY Located, Sizes DEF Look
<1> QED
  BY <1>1, <1>2, <1>4, <1>5, <1>6, NothingPut DEF Look

LEMMA MismatchEffect ==
  ASSUME TypeOK, NEW c \in Consumers, Mismatch(c)
  PROVE  /\ SameAt /\ pc[c] = "compare" /\ MovesTo(c, "scan")
         /\ Disturbed(c) \/ FALSE \in Outcomes(visit[c].pPacket, visit[c].entry.ThePacket)
         /\ visit'[c] = [visit[c] EXCEPT !.j = visit[c].j + 1, !.entry = Empty]
         /\ Keeps(c) /\ visit'[c].j = visit[c].j + 1
         /\ UNCHANGED <<Table, scanVars, freed, history>>
<1>1. visit'[c] = [visit[c] EXCEPT !.j = visit[c].j + 1, !.entry = Empty]
  BY DEF Mismatch, TypeOK, HashOption
<1>2. Keeps(c) /\ visit'[c].j = visit[c].j + 1
  BY <1>1 DEF Keeps, TypeOK, HashOption
<1>3. MovesTo(c, "scan")
  BY DEF Mismatch, TypeOK, Goto, MovesTo
<1> QED
  BY <1>1, <1>2, <1>3, NothingPut DEF Mismatch

LEMMA NewCounters ==
  ASSUME NEW r \in PacketEntry, NEW a, NEW b
  PROVE  [[r EXCEPT !.HitCount = a] EXCEPT !.RedundantBytes = b]
           = [ThePacket |-> r.ThePacket, HitCount |-> a, RedundantBytes |-> b]
<1> DEFINE x == [r EXCEPT !.HitCount = a]
           y == [x EXCEPT !.RedundantBytes = b]
<1>1. r = [ThePacket |-> r.ThePacket, HitCount |-> r.HitCount,
           RedundantBytes |-> r.RedundantBytes]
  BY DEF PacketEntry
<1>2. x = [ThePacket |-> r.ThePacket, HitCount |-> a, RedundantBytes |-> r.RedundantBytes]
  BY <1>1
<1>3. y = [ThePacket |-> r.ThePacket, HitCount |-> a, RedundantBytes |-> b]
  <2> HIDE DEF x
  <2> QED
    BY <1>2
<1> QED
  BY <1>3

LEMMA NewEntry ==
  ASSUME NEW v \in HashOption, NEW e \in PacketEntry
  PROVE  [v EXCEPT !.entry = e] \in HashOption
BY DEF HashOption

LEMMA MatchEffect ==
  ASSUME TypeOK, NEW c \in Consumers, Match(c)
  PROVE  /\ SameAt /\ pc[c] = "compare" /\ MovesTo(c, "hit")
         /\ Disturbed(c) \/ TRUE \in Outcomes(visit[c].pPacket, visit[c].entry.ThePacket)
         /\ visit'[c] \in HashOption
         /\ Keeps(c) /\ visit'[c].j = visit[c].j
         /\ visit'[c].entry.ThePacket = visit[c].entry.ThePacket
         /\ visit'[c].entry.HitCount = Entry(c, visit[c].j).HitCount
         /\ visit'[c].entry.RedundantBytes = Entry(c, visit[c].j).RedundantBytes
         /\ UNCHANGED <<Table, scanVars, freed, history>>
<1> DEFINE e == [ThePacket |-> visit[c].entry.ThePacket,
                 HitCount |-> Entry(c, visit[c].j).HitCount,
                 RedundantBytes |-> Entry(c, visit[c].j).RedundantBytes]
<1>1. visit'[c] = [visit[c] EXCEPT !.entry = e]
  <2> DEFINE a == Entry(c, visit[c].j).HitCount
             b == Entry(c, visit[c].j).RedundantBytes
             x == [visit[c].entry EXCEPT !.HitCount = a]
             y == [x EXCEPT !.RedundantBytes = b]
  <2>1. visit'[c] = [[visit[c] EXCEPT !.entry = x] EXCEPT !.entry = y]
    BY DEF Match, TypeOK, HashOption
  <2>2. visit[c] \in HashOption /\ visit[c].entry \in PacketEntry
    BY DEF TypeOK, HashOption
  <2>3. y = e
    BY <2>2, NewCounters
  <2> HIDE DEF x, y, e
  <2> QED
    BY <2>1, <2>2, <2>3 DEF HashOption
<1>2. /\ Keeps(c) /\ visit'[c].j = visit[c].j /\ visit'[c].entry = e
  <2> HIDE DEF e
  <2> QED
    BY <1>1 DEF Keeps, TypeOK, HashOption
<1>3. MovesTo(c, "hit")
  BY DEF Match, TypeOK, Goto, MovesTo
<1>4. /\ pc[c] = "compare"
      /\ Disturbed(c) \/ TRUE \in Outcomes(visit[c].pPacket, visit[c].entry.ThePacket)
      /\ UNCHANGED <<Table, scanVars, freed, history>>
  BY DEF Match
<1>5. Entry(c, visit[c].j) \in PacketEntry /\ visit[c].entry.ThePacket \in Packets \cup {NULL}
  BY <1>4, Located DEF Entry, TypeOK, HashOption, PacketEntry
<1>6. e \in PacketEntry
  BY <1>5 DEF PacketEntry
<1>7. visit'[c] \in HashOption
  <2> HIDE DEF e
  <2> QED
    BY <1>1, <1>6, NewEntry DEF TypeOK
<1>8. /\ visit'[c].entry.ThePacket = visit[c].entry.ThePacket
      /\ visit'[c].entry.HitCount = Entry(c, visit[c].j).HitCount
      /\ visit'[c].entry.RedundantBytes = Entry(c, visit[c].j).RedundantBytes
  BY <1>2
<1> HIDE DEF e
<1> QED
  BY <1>2, <1>3, <1>4, <1>7, <1>8, NothingPut

LEMMA HitEffect ==
  ASSUME TypeOK, NEW c \in Consumers, Hit(c)
  PROVE  /\ SameAt /\ pc[c] = "hit" /\ MovesTo(c, "idle") /\ visit'[c] = NoVisit
         /\ freed' = freed \cup {visit[c].pPacket}
         /\ duplicates' = duplicates \cup {<<visit[c].pPacket, visit[c].entry.ThePacket>>}
         /\ UNCHANGED <<scanVars, overlap>>
<1> DEFINE e == [Entry(c, visit[c].j) EXCEPT !.HitCount = visit[c].entry.HitCount + 1,
                   !.RedundantBytes = visit[c].entry.RedundantBytes + PayloadSize(visit[c].pPacket)]
<1>1. pc[c] = "hit" /\ Write(c, visit[c].j, e) /\ Leave(c)
  BY DEF Hit
<1>2. visit[c].j \in Slots
  BY <1>1, Located
<1>3. e.ThePacket = At(visit[c].Table, visit[c].j)
  BY <1>2 DEF Entry, At, TypeOK, PacketEntry, HashOption
<1>4. SameAt
  <2> HIDE DEF e
  <2> QED
    BY <1>1, <1>2, <1>3, WriteKeeps
<1> QED
  BY <1>1, <1>4, LeaveMoves DEF Hit

LEMMA FillEffect ==
  ASSUME TypeOK, NEW c \in Consumers, Fill(c)
  PROVE  /\ Puts(c, visit[c].j, visit[c].pPacket)
         /\ pc[c] = "fill" /\ MovesTo(c, "zero")
         /\ UNCHANGED <<scanVars, visit, freed, duplicates, overlap>>
<1> DEFINE e == [Entry(c, visit[c].j) EXCEPT !.ThePacket = visit[c].pPacket]
<1>1. pc[c] = "fill" /\ Write(c, visit[c].j, e) /\ Goto(c, "zero") /\ visit' = visit
  BY DEF Fill
<1>2. visit[c].j \in Slots
  BY <1>1, Located
<1>3. e.ThePacket = visit[c].pPacket
  BY <1>2 DEF Entry, At, TypeOK, PacketEntry, HashOption
<1>4. Puts(c, visit[c].j, visit[c].pPacket)
  <2> HIDE DEF e
  <2> QED
    BY <1>1, <1>2, <1>3, WritePuts
<1> QED
  BY <1>1, <1>4, GotoMoves DEF Fill

LEMMA ZeroEffect ==
  ASSUME TypeOK, NEW c \in Consumers, ZeroCounters(c)
  PROVE  /\ SameAt /\ pc[c] = "zero" /\ MovesTo(c, "idle") /\ visit'[c] = NoVisit
         /\ UNCHANGED <<scanVars, freed, history>>
<1> DEFINE e == [Entry(c, visit[c].j) EXCEPT !.HitCount = 0, !.RedundantBytes = 0]
<1>1. pc[c] = "zero" /\ Write(c, visit[c].j, e) /\ Leave(c)
  BY DEF ZeroCounters
<1>2. visit[c].j \in Slots
  BY <1>1, Located
<1>3. e.ThePacket = At(visit[c].Table, visit[c].j)
  BY <1>2 DEF Entry, At, TypeOK, PacketEntry, HashOption
<1>4. SameAt
  <2> HIDE DEF e
  <2> QED
    BY <1>1, <1>2, <1>3, WriteKeeps
<1> QED
  BY <1>1, <1>4, LeaveMoves DEF ZeroCounters

\* The table to rotate is never written back, so that it is slot 0 always.
LEMMA RotatesSlot0 ==
  ASSUME Popped, NEW c \in Consumers, Working(c)
  PROVE  /\ visit[c].NextToReplace = 0
         /\ Entry(c, visit[c].NextToReplace).ThePacket = At(visit[c].Table, 0)
BY DEF Popped, Entry, At

LEMMA NoMatchEffect ==
  ASSUME TypeOK, Popped, NEW c \in Consumers, NoMatch(c)
  PROVE  /\ SameAt /\ pc[c] = "scan" /\ visit[c].j = SmallTableSize
         /\ MovesTo(c, IF At(visit[c].Table, 0) = NULL THEN "replace" ELSE "save")
         /\ UNCHANGED <<Table, resetVars, visit, freed, history>>
<1>1. MovesTo(c, IF At(visit[c].Table, 0) = NULL THEN "replace" ELSE "save")
  BY RotatesSlot0, GotoMoves DEF NoMatch, Working
<1> QED
  BY <1>1, NothingPut DEF NoMatch

LEMMA SaveEffect ==
  ASSUME TypeOK, NEW c \in Consumers, SaveEntry(c)
  PROVE  /\ SameAt /\ pc[c] = "save" /\ MovesTo(c, "discard")
         /\ UNCHANGED <<Table, resetVars, visit, freed, history>>
BY GotoMoves, NothingPut DEF SaveEntry

LEMMA DiscardEffect ==
  ASSUME TypeOK, Popped, NEW c \in Consumers, DiscardEntry(c)
  PROVE  /\ SameAt /\ pc[c] = "discard" /\ MovesTo(c, "clear")
         /\ freed' = freed \cup ({At(visit[c].Table, 0)} \ {NULL})
         /\ UNCHANGED <<Table, resetVars, visit, history>>
<1>1. freed' = freed \cup ({At(visit[c].Table, 0)} \ {NULL})
  BY RotatesSlot0 DEF DiscardEntry, Working
<1> QED
  BY <1>1, GotoMoves, NothingPut DEF DiscardEntry

LEMMA ClearEffect ==
  ASSUME TypeOK, Popped, NEW c \in Consumers, ClearEntry(c)
  PROVE  /\ Puts(c, 0, NULL) /\ pc[c] = "clear" /\ MovesTo(c, "replace")
         /\ UNCHANGED <<resetVars, visit, freed, history>>
<1>1. pc[c] = "clear" /\ Write(c, 0, Empty)
  BY RotatesSlot0 DEF ClearEntry, Working
<1>2. Puts(c, 0, Empty.ThePacket)
  <2> HIDE DEF Empty
  <2> QED
    BY <1>1, WritePuts, Sizes
<1>3. Empty.ThePacket = NULL
  BY DEF Empty
<1> QED
  BY <1>1, <1>2, <1>3, GotoMoves DEF ClearEntry

LEMMA ReplaceEffect ==
  ASSUME TypeOK, Popped, NEW c \in Consumers, Replace(c)
  PROVE  /\ Puts(c, 0, visit[c].pPacket)
         /\ pc[c] = "replace" /\ MovesTo(c, "idle") /\ visit'[c] = NoVisit
         /\ UNCHANGED <<resetVars, freed, duplicates, overlap>>
<1> DEFINE e == [Entry(c, 0) EXCEPT !.ThePacket = visit[c].pPacket]
<1>1. pc[c] = "replace" /\ Write(c, 0, e) /\ Leave(c)
  BY RotatesSlot0 DEF Replace, Working
<1>2. e.ThePacket = visit[c].pPacket
  BY Sizes DEF Entry, At, TypeOK, PacketEntry, HashOption
<1>3. Puts(c, 0, visit[c].pPacket)
  <2> HIDE DEF e
  <2> QED
    BY <1>1, <1>2, WritePuts, Sizes
<1> QED
  BY <1>1, <1>3, LeaveMoves DEF Replace

LEMMA TallyEffect ==
  ASSUME TypeOK, TallySlot
  PROVE  /\ \A t \in Tables, n \in Slots :
              At(t, n)' = IF n = tallied THEN NULL ELSE At(t, n)
         /\ freed' = freed \cup ({At(t, tallied) : t \in Tables} \ {NULL})
         /\ tallied \in Slots /\ tallied' = tallied + 1
         /\ UNCHANGED <<waiting, pc, visit, NextToReplace, history, gPacketSeenCount>>
<1>1. Table' = [t \in Tables |->
                  IF t \in Occupied(tallied) THEN [Table[t] EXCEPT ![tallied] = Empty]
                  ELSE Table[t]]
  BY DEF TallySlot
<1>2. ASSUME NEW t \in Tables, NEW n \in Slots
      PROVE  At(t, n)' = IF n = tallied THEN NULL ELSE At(t, n)
  <2>1. At(t, n)' = Table'[t][n].ThePacket
    BY DEF At
  <2>2. Table[t] \in [Slots -> PacketEntry]
    BY DEF TypeOK
  <2>3. Empty.ThePacket = NULL
    BY DEF Empty
  <2> QED
    BY <1>1, <2>1, <2>2, <2>3 DEF At, Occupied
<1>3. {Table[t][tallied].ThePacket : t \in Occupied(tallied)}
        = {At(t, tallied) : t \in Tables} \ {NULL}
  BY DEF Occupied, At
<1> QED
  BY <1>2, <1>3 DEF TallySlot, seenVars

LEMMA CrashEffect ==
  ASSUME TypeOK, Popped, NEW c \in Consumers, Crash(c)
  PROVE  /\ SameAt
         /\ \A d \in Consumers : pc'[d] = "crashed" /\ visit'[d] = NoVisit
         /\ \/ pc[c] = "compare" /\ Disturbed(c)
            \/ pc[c] = "discard" /\ At(visit[c].Table, 0) \in freed
         /\ UNCHANGED <<NextToReplace, waiting, freed, tallied, history, gPacketSeenCount>>
<1>1. pc[c] = "discard" => Entry(c, visit[c].NextToReplace).ThePacket = At(visit[c].Table, 0)
  BY RotatesSlot0 DEF Working
<1> QED
  BY <1>1, NothingPut DEF Crash, tableVars, seenVars

LEMMA StartEffect ==
  ASSUME StartTally
  PROVE  /\ SameAt /\ tallied' = 0
         /\ waiting = {} /\ \A c \in Consumers : pc[c] = "idle"
         /\ UNCHANGED <<waiting, freed, pc, visit, NextToReplace, history, gPacketSeenCount>>
BY NothingPut DEF StartTally, seenVars

-----------------------------------------------------------------------------
(* Types *)
LEMMA EmptyTypes ==
  /\ Empty \in PacketEntry /\ Empty.ThePacket = NULL
  /\ NoVisit \in HashOption
  /\ NoVisit.j = 0
BY Sizes DEF Empty, NoVisit, PacketEntry, HashOption, Tables

LEMMA PcType ==
  ASSUME TypeOK, Next
  PROVE  pc' \in [Consumers -> Labels]
<1>1. /\ "idle" \in Labels /\ "lock" \in Labels /\ "scan" \in Labels /\ "fill" \in Labels
      /\ "compare" \in Labels /\ "hit" \in Labels /\ "zero" \in Labels /\ "save" \in Labels
      /\ "discard" \in Labels /\ "clear" \in Labels /\ "replace" \in Labels
      /\ "crashed" \in Labels
  BY DEF Labels
<1>2. pc \in [Consumers -> Labels]
  BY DEF TypeOK
<1>3. ASSUME NEW c \in Consumers, NEW label \in Labels, Goto(c, label)
      PROVE  pc' \in [Consumers -> Labels]
  BY <1>2, <1>3 DEF Goto
<1>4. CASE tallyProcessing
  BY <1>2, <1>4 DEF tallyProcessing, StartTally, TallySlot
<1>5. ASSUME NEW c \in Consumers, processPacket(c)
      PROVE  \/ \E label \in Labels : Goto(c, label)
             \/ UNCHANGED pc
             \/ pc' = [d \in Consumers |-> "crashed"]
  <2>1. CASE Ignore(c) \/ Crash(c)
    BY <2>1 DEF Ignore, Crash
  <2>2. CASE ChooseTable(c) \/ LockCopy(c) \/ Mismatch(c) \/ Match(c) \/ Fill(c)
    BY <1>1, <2>2 DEF ChooseTable, LockCopy, Mismatch, Match, Fill
  <2>3. CASE Hit(c) \/ ZeroCounters(c) \/ Replace(c)
    BY <1>1, <2>3 DEF Hit, ZeroCounters, Replace, Leave
  <2>4. CASE SaveEntry(c) \/ DiscardEntry(c) \/ ClearEntry(c)
    BY <1>1, <2>4 DEF SaveEntry, DiscardEntry, ClearEntry
  <2>5. CASE Look(c) \/ NoMatch(c)
    BY <1>1, <2>5 DEF Look, NoMatch
  <2> QED
    BY <1>5, <2>1, <2>2, <2>3, <2>4, <2>5 DEF processPacket
<1> QED
  BY <1>1, <1>2, <1>3, <1>4, <1>5 DEF Next

LEMMA VisitType ==
  ASSUME TypeOK, Next
  PROVE  visit' \in [Consumers -> HashOption]
<1>1. visit \in [Consumers -> HashOption]
  BY DEF TypeOK
<1>2. ASSUME NEW c \in Consumers, NEW v \in HashOption, visit' = [visit EXCEPT ![c] = v]
      PROVE  visit' \in [Consumers -> HashOption]
  BY <1>1, <1>2
<1>3. CASE tallyProcessing
  BY <1>1, <1>3 DEF tallyProcessing, StartTally, TallySlot
<1>4. ASSUME NEW c \in Consumers, processPacket(c)
      PROVE  visit' \in [Consumers -> HashOption]
  <2>0. visit[c] \in HashOption
    BY <1>1
  <2>1. CASE UNCHANGED visit
    BY <1>1, <2>1
  <2>2. CASE Hit(c) \/ ZeroCounters(c) \/ Replace(c)
    BY <1>2, <2>2, EmptyTypes DEF Hit, ZeroCounters, Replace, Leave
  <2>3. CASE Crash(c)
    BY <2>3, EmptyTypes DEF Crash
  <2>4. CASE ChooseTable(c)
    <3>1. PICK p \in waiting :
            /\ ~PacketInfo[p].ignored
            /\ visit' = [visit EXCEPT ![c] =
                           [NoVisit EXCEPT !.pPacket = p, !.Table = hash(p),
                                           !.TableLock = TableLock[hash(p)],
                                           !.NextToReplace = NextToReplace[hash(p)]]]
      BY <2>4 DEF ChooseTable
    <3>2. p \in Packets /\ hash(p) \in Tables
      BY <3>1, Payloads DEF TypeOK
    <3>3. TableLock[hash(p)] \in BOOLEAN /\ NextToReplace[hash(p)] \in Slots
      BY <3>2 DEF TypeOK
    <3>4. [NoVisit EXCEPT !.pPacket = p, !.Table = hash(p), !.TableLock = TableLock[hash(p)],
                          !.NextToReplace = NextToReplace[hash(p)]] \in HashOption
      BY <3>2, <3>3, EmptyTypes, Sizes DEF NoVisit, HashOption
    <3> QED
      BY <1>2, <3>1, <3>4
  <2>5. CASE LockCopy(c)
    <3>1. visit' = [visit EXCEPT ![c] = [visit[c] EXCEPT !.TableLock = TRUE]]
      BY <2>5 DEF LockCopy
    <3>2. [visit[c] EXCEPT !.TableLock = TRUE] \in HashOption
      BY <2>0 DEF HashOption
    <3> QED
      BY <1>2, <3>1, <3>2
  <2>6. CASE Look(c)
    <3>1. visit' = [visit EXCEPT ![c] = [visit[c] EXCEPT !.entry = Entry(c, visit[c].j)]]
      BY <2>6 DEF Look
    <3>2. Entry(c, visit[c].j) \in PacketEntry
      <4>1. visit[c].j \in Slots
        BY <2>6, LookEffect
      <4>2. Table \in [Tables -> [Slots -> PacketEntry]] /\ visit[c].Table \in Tables
        BY Located DEF TypeOK
      <4> QED
        BY <4>1, <4>2 DEF Entry
    <3> QED
      BY <1>2, <2>0, <3>1, <3>2, NewEntry
  <2>7. CASE Mismatch(c)
    <3>1. visit[c].j \in Slots
      BY <2>7, Located DEF Mismatch
    <3>2. visit[c].j + 1 \in 0 .. SmallTableSize
      BY <3>1, Sizes
    <3>3. [visit[c] EXCEPT !.j = visit[c].j + 1, !.entry = Empty] \in HashOption
      BY <2>0, <3>2, EmptyTypes DEF HashOption
    <3>4. /\ visit' = [visit EXCEPT ![c] = visit'[c]]
          /\ visit'[c] = [visit[c] EXCEPT !.j = visit[c].j + 1, !.entry = Empty]
      <4>1. visit'[c] = [visit[c] EXCEPT !.j = visit[c].j + 1, !.entry = Empty]
        BY <2>7, MismatchEffect
      <4>2. visit' = [visit EXCEPT ![c] = visit'[c]]
        BY <1>1, <2>7 DEF Mismatch
      <4> QED
        BY <4>1, <4>2
    <3> QED
      BY <1>2, <3>3, <3>4
  <2>8. CASE Match(c)
    <3>1. visit'[c] \in HashOption
      BY <2>8, MatchEffect
    <3>2. visit' = [visit EXCEPT ![c] = visit'[c]]
      BY <1>1, <2>8 DEF Match
    <3> QED
      BY <1>2, <3>1, <3>2
  <2> QED
    BY <1>4, <2>1, <2>2, <2>3, <2>4, <2>5, <2>6, <2>7, <2>8
    DEF processPacket, Ignore, Fill, NoMatch, SaveEntry, DiscardEntry, ClearEntry
<1> QED
  BY <1>3, <1>4 DEF Next

LEMMA TableType ==
  ASSUME TypeOK, Popped, Next
  PROVE  Table' \in [Tables -> [Slots -> PacketEntry]]
<1>1. Table \in [Tables -> [Slots -> PacketEntry]]
  BY DEF TypeOK
<1>2. ASSUME NEW c \in Consumers, NEW k \in Slots, NEW e \in PacketEntry, Write(c, k, e)
      PROVE  Table' \in [Tables -> [Slots -> PacketEntry]]
  BY <1>1, <1>2, Located DEF Write
<1>3. CASE UNCHANGED Table
  BY <1>1, <1>3
<1>4. CASE TallySlot
  <2>1. Table' = [t \in Tables |-> IF t \in Occupied(tallied)
                                   THEN [Table[t] EXCEPT ![tallied] = Empty] ELSE Table[t]]
    BY <1>4 DEF TallySlot
  <2>2. \A t \in Tables : [Table[t] EXCEPT ![tallied] = Empty] \in [Slots -> PacketEntry]
    BY <1>1, EmptyTypes
  <2> QED
    BY <1>1, <2>1, <2>2
<1>5. ASSUME NEW c \in Consumers, Hit(c) \/ Fill(c) \/ ZeroCounters(c)
      PROVE  Table' \in [Tables -> [Slots -> PacketEntry]]
  <2>1. visit[c].j \in Slots /\ pc[c] \in {"hit", "fill", "zero"}
    BY <1>5, Located DEF Hit, Fill, ZeroCounters
  <2>2. Entry(c, visit[c].j) \in PacketEntry
    BY <1>1, <2>1, Located DEF Entry
  <2>3. visit[c].entry \in PacketEntry
    BY DEF TypeOK, HashOption
  <2>4. visit[c].pPacket \in Packets
    BY <2>1, Located DEF Working
  <2>5. CASE Hit(c)
    <3> DEFINE p == visit[c].pPacket
               h == visit[c].entry.HitCount + 1
               b == visit[c].entry.RedundantBytes + PayloadSize(p)
    <3>1. ~PacketInfo[p].ignored
      BY <2>5 DEF Popped, Working, Hit
    <3>2. PayloadSize(p) \in Nat
      BY <2>4, <3>1, Payloads
    <3>3. h \in Nat /\ b \in Nat
      BY <2>3, <3>2 DEF PacketEntry
    <3>4. Write(c, visit[c].j, [Entry(c, visit[c].j) EXCEPT !.HitCount = h, !.RedundantBytes = b])
      BY <2>5 DEF Hit
    <3> HIDE DEF h, b
    <3>5. [Entry(c, visit[c].j) EXCEPT !.HitCount = h, !.RedundantBytes = b] \in PacketEntry
      BY <2>2, <3>3, NewCounters DEF PacketEntry
    <3> QED
      BY <1>2, <2>1, <3>4, <3>5
  <2>6. CASE Fill(c)
    <3>1. [Entry(c, visit[c].j) EXCEPT !.ThePacket = visit[c].pPacket] \in PacketEntry
      BY <2>2, <2>4 DEF PacketEntry
    <3> QED
      BY <1>2, <2>1, <2>6, <3>1 DEF Fill
  <2>7. CASE ZeroCounters(c)
    <3>1. [Entry(c, visit[c].j) EXCEPT !.HitCount = 0, !.RedundantBytes = 0] \in PacketEntry
      BY <2>2, NewCounters DEF PacketEntry
    <3> QED
      BY <1>2, <2>1, <2>7, <3>1 DEF ZeroCounters
  <2> QED
    BY <1>5, <2>5, <2>6, <2>7
<1>6. ASSUME NEW c \in Consumers, ClearEntry(c) \/ Replace(c)
      PROVE  Table' \in [Tables -> [Slots -> PacketEntry]]
  <2>1. visit[c].NextToReplace = 0 /\ pc[c] \in {"clear", "replace"}
    BY <1>6, RotatesSlot0 DEF ClearEntry, Replace, Working
  <2>2. Entry(c, 0) \in PacketEntry
    BY <1>1, Located, Sizes DEF Entry
  <2>3. visit[c].pPacket \in Packets
    BY <2>1, Located DEF Working
  <2>4. [Entry(c, 0) EXCEPT !.ThePacket = visit[c].pPacket] \in PacketEntry
    BY <2>2, <2>3 DEF PacketEntry
  <2> QED
    BY <1>2, <1>6, <2>1, <2>4, EmptyTypes, Sizes DEF ClearEntry, Replace
<1> QED
  BY <1>3, <1>4, <1>5, <1>6
  DEF Next, processPacket, tallyProcessing, StartTally, tableVars, Ignore, ChooseTable,
      LockCopy, Look, Mismatch, Match, NoMatch, SaveEntry, DiscardEntry, Crash

LEMMA LocksType ==
  ASSUME TypeOK, Next
  PROVE  /\ TableLock' \in [Tables -> BOOLEAN]
         /\ NextToReplace' = NextToReplace
         /\ tallied' \in -1 .. SmallTableSize
<1>1. TableLock \in [Tables -> BOOLEAN] /\ tallied \in -1 .. SmallTableSize
  BY DEF TypeOK
<1>2. CASE UNCHANGED <<TableLock, NextToReplace, tallied>>
  BY <1>1, <1>2
<1>3. CASE StartTally
  BY <1>1, <1>3, Sizes DEF StartTally
<1>4. CASE TallySlot
  BY <1>1, <1>4, Sizes DEF TallySlot
<1> QED
  BY <1>2, <1>3, <1>4
  DEF Next, processPacket, tallyProcessing, tableVars, scanVars, resetVars, Ignore,
      ChooseTable, LockCopy, Look, Mismatch, Match, Hit, Fill, ZeroCounters, NoMatch,
      SaveEntry, DiscardEntry, ClearEntry, Replace, Crash

\* Only the section under SeenLock pops a packet, and it counts what it pops.
LEMMA PopsCounted ==
  ASSUME TypeOK, Next
  PROVE  /\ waiting' \subseteq waiting
         /\ gPacketSeenCount' = Cardinality(Packets \ waiting')
<1>1. gPacketSeenCount = Cardinality(Packets \ waiting) /\ waiting \subseteq Packets
  BY DEF TypeOK
<1>2. CASE UNCHANGED <<waiting, gPacketSeenCount>>
  BY <1>1, <1>2
<1>3. ASSUME NEW p \in waiting, waiting' = waiting \ {p},
             gPacketSeenCount' = gPacketSeenCount + 1
      PROVE  gPacketSeenCount' = Cardinality(Packets \ waiting')
  <2>1. IsFiniteSet(Packets \ waiting)
    BY Sizes, FS_Subset
  <2>2. Packets \ waiting' = (Packets \ waiting) \cup {p} /\ p \notin Packets \ waiting
    BY <1>1, <1>3
  <2> QED
    BY <1>1, <1>3, <2>1, <2>2, FS_AddElement
<1>4. ASSUME NEW c \in Consumers, Ignore(c) \/ ChooseTable(c)
      PROVE  \E p \in waiting : waiting' = waiting \ {p} /\ gPacketSeenCount' = gPacketSeenCount + 1
  BY <1>4, IgnoreEffect, ChooseEffect
<1> QED
  BY <1>2, <1>3, <1>4
  DEF Next, processPacket, tallyProcessing, seenVars, scanVars, resetVars, StartTally,
      TallySlot, LockCopy, Look, Mismatch, Match, Hit, Fill, ZeroCounters, NoMatch,
      SaveEntry, DiscardEntry, ClearEntry, Replace, Crash

LEMMA FreedType ==
  ASSUME TypeOK, Popped, Next
  PROVE  freed' \subseteq Packets \ waiting'
<1>1. freed \subseteq Packets \ waiting /\ waiting' \subseteq waiting
  BY PopsCounted DEF TypeOK
<1>2. CASE UNCHANGED freed
  BY <1>1, <1>2
<1>3. ASSUME NEW c \in Consumers, Ignore(c)
      PROVE  freed' \subseteq Packets \ waiting'
  BY <1>1, <1>3, IgnoreEffect DEF TypeOK
<1>4. ASSUME NEW c \in Consumers, Hit(c)
      PROVE  freed' \subseteq Packets \ waiting'
  BY <1>1, <1>4, HitEffect, Located DEF Working
<1>5. ASSUME NEW c \in Consumers, DiscardEntry(c)
      PROVE  freed' \subseteq Packets \ waiting'
  <2>1. At(visit[c].Table, 0) # NULL => At(visit[c].Table, 0) \in Packets \ waiting
    BY Located, Sizes DEF Popped
  <2> QED
    BY <1>1, <1>5, <2>1, DiscardEffect
<1>6. CASE TallySlot
  <2>1. \A t \in Tables : At(t, tallied) # NULL => At(t, tallied) \in Packets \ waiting
    BY <1>6, TallyEffect DEF Popped
  <2> QED
    BY <1>1, <1>6, <2>1, TallyEffect
<1> QED
  BY <1>2, <1>3, <1>4, <1>5, <1>6
  DEF Next, processPacket, tallyProcessing, StartTally, ChooseTable, LockCopy, Look,
      Mismatch, Match, Fill, ZeroCounters, NoMatch, SaveEntry, ClearEntry, Replace, Crash

\* the last two conjuncts of TypeOK but one
LocalType(c) ==
  /\ pc[c] \in {"compare", "hit", "fill", "zero"} => visit[c].j \in Slots
  /\ pc[c] \notin {"idle", "crashed"} => visit[c].pPacket \in Packets \ waiting

LEMMA LocalTypes ==
  ASSUME TypeOK, Popped, Next
  PROVE  \A c \in Consumers : LocalType(c)'
<1>1. waiting' \subseteq waiting /\ \A c \in Consumers : LocalType(c)
  BY PopsCounted DEF TypeOK, LocalType
<1>2. CASE UNCHANGED <<pc, visit>>
  BY <1>1, <1>2 DEF LocalType
<1>3. ASSUME NEW c \in Consumers, processPacket(c)
      PROVE  \A d \in Consumers : LocalType(d)'
  <2>1. ASSUME NEW label, MovesTo(c, label), LocalType(c)'
        PROVE  \A d \in Consumers : LocalType(d)'
    BY <1>1, <2>1 DEF MovesTo, LocalType
  <2>2. CASE Ignore(c)
    BY <1>2, <2>2, IgnoreEffect
  <2>3. CASE ChooseTable(c)
    <3>1. LocalType(c)'
      <4>1. PICK p \in waiting : waiting' = waiting \ {p} /\ visit'[c].pPacket = p
        BY <2>3, ChooseEffect
      <4>2. p \in Packets \ waiting' /\ pc'[c] = "lock"
        BY <2>3, <4>1, ChooseEffect DEF MovesTo, TypeOK
      <4> QED
        BY <4>1, <4>2 DEF LocalType
    <3> QED
      BY <2>1, <2>3, <3>1, ChooseEffect
  <2>4. CASE LockCopy(c)
    <3>1. LocalType(c)'
      BY <1>1, <2>4, LockEffect DEF MovesTo, LocalType, Keeps
    <3> QED
      BY <2>1, <2>4, <3>1, LockEffect
  <2>5. CASE Look(c)
    <3>1. LocalType(c)'
      BY <1>1, <2>5, LookEffect DEF MovesTo, LocalType, Keeps
    <3> QED
      BY <2>1, <2>5, <3>1, LookEffect
  <2>6. CASE Mismatch(c)
    <3>1. LocalType(c)'
      BY <1>1, <2>6, MismatchEffect DEF MovesTo, LocalType, Keeps
    <3> QED
      BY <2>1, <2>6, <3>1, MismatchEffect
  <2>7. CASE Match(c)
    <3>1. LocalType(c)'
      BY <1>1, <2>7, MatchEffect DEF MovesTo, LocalType, Keeps
    <3> QED
      BY <2>1, <2>7, <3>1, MatchEffect
  <2>8. CASE Hit(c) \/ ZeroCounters(c) \/ Replace(c)
    <3>1. MovesTo(c, "idle")
      BY <2>8, HitEffect, ZeroEffect, ReplaceEffect
    <3>2. LocalType(c)'
      BY <3>1 DEF MovesTo, LocalType
    <3> QED
      BY <2>1, <3>1, <3>2
  <2>9. CASE Fill(c)
    <3>1. LocalType(c)'
      BY <1>1, <2>9, FillEffect DEF MovesTo, LocalType
    <3> QED
      BY <2>1, <2>9, <3>1, FillEffect
  <2>10. CASE NoMatch(c)
    <3>1. LocalType(c)'
      BY <1>1, <2>10, NoMatchEffect DEF MovesTo, LocalType
    <3> QED
      BY <2>1, <2>10, <3>1, NoMatchEffect
  <2>11. CASE SaveEntry(c) \/ DiscardEntry(c) \/ ClearEntry(c)
    <3>1. /\ MovesTo(c, "discard") \/ MovesTo(c, "clear") \/ MovesTo(c, "replace")
          /\ visit' = visit /\ pc[c] \in {"save", "discard", "clear"}
      BY <2>11, SaveEffect, DiscardEffect, ClearEffect
    <3>2. LocalType(c)'
      BY <1>1, <3>1 DEF MovesTo, LocalType
    <3> QED
      BY <2>1, <3>1, <3>2
  <2>12. CASE Crash(c)
    BY <2>12, CrashEffect DEF LocalType
  <2> QED
    BY <1>3, <2>2, <2>3, <2>4, <2>5, <2>6, <2>7, <2>8, <2>9, <2>10, <2>11, <2>12
    DEF processPacket
<1> QED
  BY <1>2, <1>3 DEF Next, tallyProcessing, StartTally, TallySlot

LEMMA TypeStep ==
  ASSUME TypeOK, Popped, [Next]_vars
  PROVE  TypeOK'
<1>1. CASE UNCHANGED vars
  BY <1>1 DEF vars, tableVars, seenVars, hitVars, history, TypeOK
<1>2. CASE Next
  <2>1. \A c \in Consumers : LocalType(c)'
    BY <1>2, LocalTypes
  <2>2. waiting' \in SUBSET Packets /\ freed' \in SUBSET (Packets \ waiting')
    BY <1>2, PopsCounted, FreedType DEF TypeOK
  <2>3. NextToReplace' \in [Tables -> Slots]
    BY <1>2, LocksType DEF TypeOK
  <2> QED
    BY <1>2, <2>1, <2>2, <2>3, PcType, VisitType, TableType, LocksType, PopsCounted
    DEF TypeOK, LocalType
<1> QED
  BY <1>1, <1>2

-----------------------------------------------------------------------------
(* The conjuncts of Safe that hold whatever the consumers do to one another *)

\* A consumer starts only when a packet is left, and main when none is.
LEMMA TallyLastStep ==
  ASSUME TypeOK, TallyLast, Next
  PROVE  TallyLast'
<1>1. ASSUME NEW c \in Consumers, processPacket(c)
      PROVE  tallied = -1 /\ tallied' = -1
  <2>1. tallied' = tallied
    BY <1>1
    DEF processPacket, scanVars, resetVars, Ignore, ChooseTable, LockCopy, Look, Mismatch,
        Match, Hit, Fill, ZeroCounters, NoMatch, SaveEntry, DiscardEntry, ClearEntry,
        Replace, Crash
  <2>2. pc[c] # "idle" \/ waiting # {}
    BY <1>1
    DEF processPacket, Ignore, ChooseTable, LockCopy, Look, Mismatch, Match, Hit, Fill,
        ZeroCounters, NoMatch, SaveEntry, DiscardEntry, ClearEntry, Replace, Crash
  <2> QED
    BY <2>1, <2>2 DEF TallyLast
<1>2. CASE tallyProcessing
  BY <1>2, Sizes DEF tallyProcessing, StartTally, TallySlot, TallyLast, Slots
<1> QED
  BY <1>1, <1>2 DEF Next, TallyLast

\* What a slot shows after a step was there, or is nothing, or comes from a consumer.
LEMMA SlotAfter ==
  ASSUME TypeOK, Popped, Next, NEW t \in Tables, NEW n \in Slots
  PROVE  \/ At(t, n)' = At(t, n)
         \/ At(t, n)' = NULL
         \/ \E c \in Consumers : /\ Working(c) /\ visit[c].Table = t
                                 /\ At(t, n)' = visit[c].pPacket
<1>1. CASE SameAt
  BY <1>1 DEF SameAt
<1>2. ASSUME NEW c \in Consumers, processPacket(c), ~SameAt
      PROVE  \/ Puts(c, 0, NULL)
             \/ Working(c) /\ \E k : Puts(c, k, visit[c].pPacket)
  BY <1>2, IgnoreEffect, ChooseEffect, LockEffect, LookEffect, MismatchEffect, MatchEffect,
     HitEffect, FillEffect, ZeroEffect, NoMatchEffect, SaveEffect, DiscardEffect,
     ClearEffect, ReplaceEffect, CrashEffect
  DEF processPacket, Working
<1>3. CASE tallyProcessing
  BY <1>1, <1>3, StartEffect, TallyEffect DEF tallyProcessing
<1> QED
  BY <1>1, <1>2, <1>3 DEF Next, Puts

PoppedBy(c) ==
  /\ Working(c) => /\ ~PacketInfo[visit[c].pPacket].ignored
                   /\ hash(visit[c].pPacket) = visit[c].Table
                   /\ visit[c].NextToReplace = 0
                   /\ pc[c] = "lock" => visit[c].j = 0
  /\ pc[c] \in {"compare", "hit"} =>
       /\ visit[c].entry.ThePacket \in Packets
       /\ ~PacketInfo[visit[c].entry.ThePacket].ignored

LEMMA PoppedByStep ==
  ASSUME TypeOK, Popped, Next
  PROVE  \A c \in Consumers : PoppedBy(c)'
<1>1. \A c \in Consumers : PoppedBy(c)
  BY DEF Popped, PoppedBy
<1>2. CASE UNCHANGED <<pc, visit>>
  BY <1>1, <1>2 DEF PoppedBy, Working
<1>3. ASSUME NEW c \in Consumers, processPacket(c)
      PROVE  \A d \in Consumers : PoppedBy(d)'
  <2>1. ASSUME NEW label, MovesTo(c, label), PoppedBy(c)'
        PROVE  \A d \in Consumers : PoppedBy(d)'
    BY <1>1, <2>1 DEF MovesTo, PoppedBy, Working
  <2>2. CASE Ignore(c)
    BY <1>2, <2>2, IgnoreEffect
  <2>3. CASE ChooseTable(c)
    <3>1. PICK p \in waiting :
            /\ ~PacketInfo[p].ignored
            /\ visit'[c].pPacket = p /\ visit'[c].Table = hash(p)
            /\ visit'[c].NextToReplace = NextToReplace[hash(p)]
            /\ visit'[c].j = 0
      BY <2>3, ChooseEffect
    <3>2. NextToReplace[hash(p)] = 0
      BY <3>1, Payloads DEF Popped, TypeOK
    <3>3. PoppedBy(c)'
      BY <2>3, <3>1, <3>2, ChooseEffect DEF MovesTo, PoppedBy, Working
    <3> QED
      BY <2>1, <2>3, <3>3, ChooseEffect
  <2>4. CASE LockCopy(c)
    <3>1. PoppedBy(c)'
      BY <1>1, <2>4, LockEffect DEF MovesTo, PoppedBy, Keeps, Working
    <3> QED
      BY <2>1, <2>4, <3>1, LockEffect
  <2>5. CASE Look(c)
    <3>1. At(visit[c].Table, visit[c].j) # NULL =>
            /\ At(visit[c].Table, visit[c].j) \in Packets
            /\ ~PacketInfo[At(visit[c].Table, visit[c].j)].ignored
      BY <2>5, LookEffect, Located DEF Popped
    <3>2. PoppedBy(c)'
      BY <1>1, <2>5, <3>1, LookEffect DEF MovesTo, PoppedBy, Keeps, Working
    <3> QED
      BY <2>1, <2>5, <3>2, LookEffect
  <2>6. CASE Mismatch(c)
    <3>1. PoppedBy(c)'
      BY <1>1, <2>6, MismatchEffect DEF MovesTo, PoppedBy, Keeps, Working
    <3> QED
      BY <2>1, <2>6, <3>1, MismatchEffect
  <2>7. CASE Match(c)
    <3>1. PoppedBy(c)'
      BY <1>1, <2>7, MatchEffect DEF MovesTo, PoppedBy, Keeps, Working
    <3> QED
      BY <2>1, <2>7, <3>1, MatchEffect
  <2>8. CASE Hit(c) \/ ZeroCounters(c) \/ Replace(c)
    <3>1. MovesTo(c, "idle")
      BY <2>8, HitEffect, ZeroEffect, ReplaceEffect
    <3>2. PoppedBy(c)'
      BY <3>1 DEF MovesTo, PoppedBy, Working
    <3> QED
      BY <2>1, <3>1, <3>2
  <2>9. CASE Fill(c) \/ SaveEntry(c) \/ DiscardEntry(c) \/ ClearEntry(c) \/ NoMatch(c)
    <3>1. PICK label \in {"zero", "discard", "clear", "replace", "save"} : MovesTo(c, label)
      BY <2>9, FillEffect, SaveEffect, DiscardEffect, ClearEffect, NoMatchEffect
    <3>2. visit' = visit /\ Working(c)
      BY <2>9, FillEffect, SaveEffect, DiscardEffect, ClearEffect, NoMatchEffect DEF Working
    <3>3. PoppedBy(c)'
      BY <1>1, <3>1, <3>2 DEF MovesTo, PoppedBy, Working
    <3> QED
      BY <2>1, <3>1, <3>3
  <2>10. CASE Crash(c)
    BY <2>10, CrashEffect DEF PoppedBy, Working
  <2> QED
    BY <1>3, <2>2, <2>3, <2>4, <2>5, <2>6, <2>7, <2>8, <2>9, <2>10 DEF processPacket
<1> QED
  BY <1>2, <1>3 DEF Next, tallyProcessing, StartTally, TallySlot

LEMMA PoppedStep ==
  ASSUME TypeOK, Popped, Next
  PROVE  Popped'
<1>1. NextToReplace' = [t \in Tables |-> 0]
  BY LocksType DEF Popped
<1>2. waiting' \subseteq waiting
  BY PopsCounted
<1>3. ASSUME NEW t \in Tables, NEW n \in Slots, At(t, n)' # NULL
      PROVE  /\ At(t, n)' \in Packets \ waiting'
             /\ ~PacketInfo[At(t, n)'].ignored
             /\ hash(At(t, n)') = t
  <2>1. CASE At(t, n)' = At(t, n)
    BY <1>2, <1>3, <2>1 DEF Popped
  <2>2. ASSUME NEW c \in Consumers, Working(c), visit[c].Table = t,
               At(t, n)' = visit[c].pPacket
        PROVE  /\ At(t, n)' \in Packets \ waiting'
               /\ ~PacketInfo[At(t, n)'].ignored
               /\ hash(At(t, n)') = t
    BY <1>2, <2>2, Located DEF Popped
  <2> QED
    BY <1>3, <2>1, <2>2, SlotAfter
<1>4. \A c \in Consumers : PoppedBy(c)'
  BY PoppedByStep
<1> QED
  BY <1>1, <1>3, <1>4 DEF Popped, PoppedBy, hash

-----------------------------------------------------------------------------
(* FilledFromFront *)

\* Of slot 0 alone what is emptied will be filled again, by the consumer that
\* emptied it; all other slots only fill.
LEMMA FilledStays ==
  ASSUME TypeOK, Popped, NEW c \in Consumers, processPacket(c), ~Crash(c),
         NEW t \in Tables, NEW n \in Slots, Filled(t, n)
  PROVE  Filled(t, n)'
<1>0. Working(c) => visit[c].pPacket \in Packets /\ visit[c].pPacket # NULL
  BY Located, Sizes
<1>1. CASE At(t, n) # NULL
  <2>1. CASE ClearEntry(c) /\ n = 0 /\ t = visit[c].Table
    BY <2>1, ClearEffect DEF MovesTo, Filled
  <2>2. CASE ~(ClearEntry(c) /\ n = 0 /\ t = visit[c].Table)
    <3> SUFFICES At(t, n)' # NULL
      BY DEF Filled
    <3>1. SameAt => At(t, n)' # NULL
      BY <1>1 DEF SameAt
    <3>2. CASE Ignore(c) \/ ChooseTable(c) \/ LockCopy(c)
      BY <3>1, <3>2, IgnoreEffect, ChooseEffect, LockEffect
    <3>3. CASE Look(c) \/ Mismatch(c) \/ Match(c)
      BY <3>1, <3>3, LookEffect, MismatchEffect, MatchEffect
    <3>4. CASE Hit(c) \/ ZeroCounters(c) \/ NoMatch(c)
      BY <3>1, <3>4, HitEffect, ZeroEffect, NoMatchEffect
    <3>5. CASE SaveEntry(c) \/ DiscardEntry(c)
      BY <3>1, <3>5, SaveEffect, DiscardEffect
    <3>6. CASE Fill(c)
      BY <1>0, <1>1, <3>6, FillEffect DEF Puts, Working
    <3>7. CASE ClearEntry(c)
      BY <1>1, <2>2, <3>7, ClearEffect DEF Puts
    <3>8. CASE Replace(c)
      BY <1>0, <1>1, <3>8, ReplaceEffect DEF Puts, Working
    <3> QED
      BY <3>2, <3>3, <3>4, <3>5, <3>6, <3>7, <3>8 DEF processPacket
  <2> QED
    BY <2>1, <2>2
<1>2. ASSUME n = 0, NEW d \in Consumers, pc[d] = "replace", visit[d].Table = t
      PROVE  Filled(t, n)'
  <2>1. CASE d = c
    <3>1. Replace(c)
      BY <1>2, <2>1
      DEF processPacket, Ignore, ChooseTable, LockCopy, Look, Mismatch, Match, Hit, Fill,
          ZeroCounters, NoMatch, SaveEntry, DiscardEntry, ClearEntry, See
    <3>2. At(t, n)' = visit[c].pPacket
      BY <1>2, <2>1, <3>1, ReplaceEffect DEF Puts
    <3> QED
      BY <1>0, <1>2, <2>1, <3>2 DEF Filled, Working
  <2>2. CASE d # c
    <3>1. pc'[d] = pc[d] /\ visit'[d] = visit[d]
      BY ZenonT(60), <2>2, IgnoreEffect, ChooseEffect, LockEffect, LookEffect,
         MismatchEffect, MatchEffect, HitEffect, FillEffect, ZeroEffect, NoMatchEffect,
         SaveEffect, DiscardEffect, ClearEffect, ReplaceEffect
      DEF processPacket, MovesTo
    <3> QED
      BY <1>2, <3>1 DEF Filled
  <2> QED
    BY <2>1, <2>2
<1> QED
  BY <1>1, <1>2 DEF Filled

\* A step of c is a crash of all or moves nobody else.
LEMMA Others ==
  ASSUME TypeOK, Popped, NEW c \in Consumers, processPacket(c)
  PROVE  /\ pc[c] # "crashed"
         /\ tallied' = tallied
         /\ ~Crash(c) => /\ pc'[c] # "crashed"
                         /\ \A d \in Consumers : d # c => pc'[d] = pc[d] /\ visit'[d] = visit[d]
<1>1. pc[c] # "crashed"
  BY DEF processPacket, Ignore, ChooseTable, LockCopy, Look, Mismatch, Match, Hit, Fill,
         ZeroCounters, NoMatch, SaveEntry, DiscardEntry, ClearEntry, Replace, Crash, See
<1>2. tallied' = tallied
  BY DEF processPacket, scanVars, resetVars, Ignore, ChooseTable, LockCopy, Look, Mismatch,
         Match, Hit, Fill, ZeroCounters, NoMatch, SaveEntry, DiscardEntry, ClearEntry,
         Replace, Crash
<1>3. CASE Ignore(c)
  BY <1>1, <1>2, <1>3, IgnoreEffect
<1>4. ASSUME ~Ignore(c), ~Crash(c)
      PROVE  \E label : label # "crashed" /\ MovesTo(c, label)
  <2>1. CASE ChooseTable(c) \/ LockCopy(c) \/ Mismatch(c) \/ Match(c) \/ Fill(c)
    BY <2>1, ChooseEffect, LockEffect, MismatchEffect, MatchEffect, FillEffect
  <2>2. CASE Hit(c) \/ ZeroCounters(c) \/ Replace(c)
    BY <2>2, HitEffect, ZeroEffect, ReplaceEffect
  <2>3. CASE SaveEntry(c) \/ DiscardEntry(c) \/ ClearEntry(c)
    BY <2>3, SaveEffect, DiscardEffect, ClearEffect
  <2>4. CASE Look(c) \/ NoMatch(c)
    BY <2>4, LookEffect, NoMatchEffect
  <2> QED
    BY <1>4, <2>1, <2>2, <2>3, <2>4 DEF processPacket
<1> QED
  BY <1>1, <1>2, <1>3, <1>4 DEF MovesTo

LEMMA CrashStays ==
  ASSUME TypeOK, Popped, NEW c \in Consumers, processPacket(c), ~Crashed'
  PROVE  ~Crashed /\ ~Crash(c)
<1>1. ~Crash(c)
  BY CrashEffect DEF Crashed
<1> QED
  BY <1>1, Others DEF Crashed

LEMMA FrontStep ==
  ASSUME TypeOK, Popped, FilledFromFront, Next
  PROVE  FilledFromFront'
<1>1. CASE tallyProcessing
  <2>1. tallied' # -1
    BY <1>1, StartEffect, TallyEffect, Sizes DEF tallyProcessing
  <2> QED
    BY <2>1 DEF FilledFromFront
<1>2. ASSUME NEW c \in Consumers, processPacket(c), tallied' = -1, ~Crashed'
      PROVE  FilledFromFront'
  <2>0. /\ ~Crash(c)
        /\ \A t \in Tables, n \in Slots : At(t, n) # NULL => \A m \in 0 .. n - 1 : Filled(t, m)
        /\ Working(c) => \A m \in 0 .. visit[c].j - 1 : Filled(visit[c].Table, m)
        /\ pc[c] \in {"compare", "hit"} => Filled(visit[c].Table, visit[c].j)
        /\ pc[c] \in {"save", "discard", "clear", "replace"} => visit[c].j = SmallTableSize
    BY <1>2, CrashStays, Others DEF FilledFromFront
  <2>1. ASSUME NEW t \in Tables, NEW n \in Slots, Filled(t, n)
        PROVE  Filled(t, n)'
    BY <1>2, <2>0, <2>1, FilledStays
  <2>2. ASSUME NEW t \in Tables, NEW n \in Slots, At(t, n)' # NULL, NEW m \in 0 .. n - 1
        PROVE  Filled(t, m)'
    <3>1. m \in Slots
      BY Sizes
    <3>2. CASE At(t, n) # NULL
      BY <2>0, <2>1, <3>1, <3>2
    <3>3. CASE At(t, n) = NULL
      <4>1. \/ Fill(c) /\ t = visit[c].Table /\ n = visit[c].j
            \/ Replace(c) /\ n = 0
        BY ZenonT(60), <1>2, <2>0, <2>2, <3>3, IgnoreEffect, ChooseEffect, LockEffect, LookEffect,
           MismatchEffect, MatchEffect, HitEffect, FillEffect, ZeroEffect, NoMatchEffect,
           SaveEffect, DiscardEffect, ClearEffect, ReplaceEffect
        DEF processPacket, SameAt, Puts
      <4>2. CASE Fill(c) /\ t = visit[c].Table /\ n = visit[c].j
        BY <2>0, <2>1, <3>1, <4>2, FillEffect DEF Working
      <4> QED
        BY <4>1, <4>2
    <3> QED
      BY <3>2, <3>3
  <2>3. ASSUME NEW d \in Consumers, d # c
        PROVE  /\ Working(d)' => \A m \in 0 .. visit'[d].j - 1 : Filled(visit[d].Table, m)'
               /\ pc'[d] \in {"compare", "hit"} => Filled(visit[d].Table, visit[d].j)'
               /\ pc'[d] \in {"save", "discard", "clear", "replace"} =>
                    visit'[d].j = SmallTableSize
    <3>1. pc'[d] = pc[d] /\ visit'[d] = visit[d]
      BY <1>2, <2>0, <2>3, Others
    <3>2. PICK t \in Tables, j \in 0 .. SmallTableSize : visit[d].Table = t /\ visit[d].j = j
      BY Located
    <3>3. \A m \in 0 .. j - 1 : m \in Slots
      BY Sizes
    <3>4. Working(d) => \A m \in 0 .. j - 1 : Filled(t, m)'
      BY <1>2, <2>1, <3>2, <3>3, CrashStays, Others DEF FilledFromFront
    <3>5. pc[d] \in {"compare", "hit"} => Filled(t, j)'
      BY <1>2, <2>1, <3>2, CrashStays, Others, Located DEF FilledFromFront
    <3>6. pc[d] \in {"save", "discard", "clear", "replace"} => j = SmallTableSize
      BY <1>2, <3>2, CrashStays, Others DEF FilledFromFront
    <3> QED
      BY <3>1, <3>2, <3>4, <3>5, <3>6 DEF Working, Filled, At
  <2>4. PICK t \in Tables, j \in 0 .. SmallTableSize : visit[c].Table = t /\ visit[c].j = j
    BY Located
  <2>5. \A m \in 0 .. j - 1 : m \in Slots
    BY Sizes
  <2>6. Working(c) => \A m \in 0 .. j - 1 : Filled(t, m)'
    BY <2>0, <2>1, <2>4, <2>5
  <2>7. /\ Working(c)' => \A m \in 0 .. visit'[c].j - 1 : Filled(visit[c].Table, m)'
        /\ pc'[c] \in {"compare", "hit"} => Filled(visit[c].Table, visit[c].j)'
        /\ pc'[c] \in {"save", "discard", "clear", "replace"} => visit'[c].j = SmallTableSize
    <3>1. CASE Ignore(c)
      BY <3>1, IgnoreEffect DEF Working
    <3>2. CASE ChooseTable(c)
      <4>1. visit'[c].j = 0 /\ pc'[c] = "lock"
        BY <3>2, ChooseEffect DEF MovesTo
      <4> QED
        BY <4>1
    <3>3. CASE LockCopy(c)
      BY ZenonT(60), <2>4, <2>6, <3>3, LockEffect DEF MovesTo, Keeps, Working, Filled, At
    <3>4. CASE Look(c)
      <4>1. pc'[c] = "compare" => Filled(t, j)'
        BY <2>4, <3>4, LookEffect DEF MovesTo, Filled, SameAt
      <4> QED
        BY ZenonT(60), <2>4, <2>6, <3>4, <4>1, LookEffect DEF MovesTo, Keeps, Working, Filled, At
    <3>5. CASE Mismatch(c)
      <4>1. Filled(t, j)' /\ j \in Slots
        BY <2>0, <2>1, <2>4, <3>5, MismatchEffect, Located
      <4>2. Working(c) /\ j \in Nat
        <5>1. j \in Nat
          BY Sizes
        <5> QED
          BY <3>5, <5>1, MismatchEffect DEF Working
      <4>3. \A m \in 0 .. j : m = j \/ m \in 0 .. j - 1
        BY <4>2
      <4>4. \A m \in 0 .. j : Filled(t, m)'
        BY <2>6, <4>1, <4>2, <4>3
      <4>5. visit'[c].j = j + 1 /\ visit'[c].Table = t /\ pc'[c] = "scan"
        BY <2>4, <3>5, MismatchEffect DEF MovesTo, Keeps
      <4>6. visit'[c].j - 1 = j
        BY <4>2, <4>5
      <4> QED
        BY <4>4, <4>5, <4>6 DEF Filled, At
    <3>6. CASE Match(c)
      <4>1. Filled(t, j)' /\ j \in Slots
        BY <2>0, <2>1, <2>4, <3>6, MatchEffect, Located
      <4> QED
        BY ZenonT(60), <2>4, <2>6, <3>6, <4>1, MatchEffect DEF MovesTo, Keeps, Working, Filled, At
    <3>7. CASE Hit(c) \/ ZeroCounters(c) \/ Replace(c)
      <4>1. pc'[c] = "idle"
        BY <3>7, HitEffect, ZeroEffect, ReplaceEffect DEF MovesTo
      <4> QED
        BY <4>1 DEF Working
    <3>8. CASE Fill(c)
      BY <2>4, <2>6, <3>8, FillEffect DEF MovesTo, Working, Filled, At
    <3>9. CASE NoMatch(c)
      BY <2>4, <2>6, <3>9, NoMatchEffect DEF MovesTo, Working, Filled, At
    <3>10. CASE SaveEntry(c) \/ DiscardEntry(c) \/ ClearEntry(c)
      <4>1. /\ pc[c] \in {"save", "discard", "clear"}
            /\ pc'[c] \in {"discard", "clear", "replace"} /\ visit' = visit
        BY <3>10, SaveEffect, DiscardEffect, ClearEffect DEF MovesTo
      <4> QED
        BY <2>0, <2>4, <2>6, <4>1 DEF Working, Filled, At
    <3> QED
      BY <1>2, <2>0, <3>1, <3>2, <3>3, <3>4, <3>5, <3>6, <3>7, <3>8, <3>9, <3>10
      DEF processPacket
  <2> QED
    BY <2>2, <2>3, <2>7 DEF FilledFromFront, Filled, At, Working
<1> QED
  BY <1>1, <1>2, CrashStays DEF Next, FilledFromFront

-----------------------------------------------------------------------------
(* The conjuncts that need ~overlap, which no step takes back *)
LEMMA OverlapStays ==
  ASSUME TypeOK, Popped, Next, ~overlap'
  PROVE  ~overlap
<1>1. ASSUME NEW c \in Consumers, processPacket(c)
      PROVE  ~overlap
  <2>1. CASE LockCopy(c)
    BY <2>1, LockEffect
  <2> QED
    BY <1>1, <2>1
    DEF processPacket, history, Ignore, ChooseTable, Look, Mismatch, Match, Hit, Fill,
        ZeroCounters, NoMatch, SaveEntry, DiscardEntry, ClearEntry, Replace, Crash
<1> QED
  BY <1>1 DEF Next, tallyProcessing, StartTally, TallySlot, history

\* What a consumer alone in its table compares with is what it saw there.
LEMMA SeesTheSame ==
  ASSUME TypeOK, Apart, Undisturbed, OnePlace, ~overlap,
         NEW c \in Consumers, pc[c] = "compare"
  PROVE  /\ ~Disturbed(c)
         /\ visit[c].entry.ThePacket = At(visit[c].Table, visit[c].j)
         /\ At(visit[c].Table, visit[c].j) # NULL
<1>1. /\ visit[c].entry.ThePacket = At(visit[c].Table, visit[c].j)
      /\ At(visit[c].Table, visit[c].j) # NULL
  BY DEF Undisturbed
<1>2. ~Stale(visit[c].Table, visit[c].j)
  BY DEF Stale, Apart, Inside
<1>3. At(visit[c].Table, visit[c].j) \notin freed
  BY <1>2, Located DEF OnePlace
<1> QED
  BY <1>1, <1>3 DEF Disturbed, Entry, At

LEMMA NoCrashApart ==
  ASSUME TypeOK, Popped, Apart, Undisturbed, OnePlace, ~overlap, NEW c \in Consumers
  PROVE  ~Crash(c)
<1>1. SUFFICES ASSUME Crash(c) PROVE FALSE
  OBVIOUS
<1>2. ~(pc[c] = "compare" /\ Disturbed(c))
  BY SeesTheSame
<1>3. pc[c] = "discard" /\ At(visit[c].Table, 0) \in freed
  BY <1>1, <1>2, CrashEffect
<1>4. Stale(visit[c].Table, 0)
  BY <1>3, Located, Sizes DEF OnePlace
<1> QED
  BY <1>3, <1>4 DEF Stale, Apart, Inside

\* A consumer comes into a table by LockCopy, and stays in that table.
LEMMA StaysInside ==
  ASSUME TypeOK, Popped, NEW c \in Consumers, processPacket(c), ~Crash(c), Inside(c)'
  PROVE  /\ visit'[c].Table = visit[c].Table
         /\ Inside(c) \/ LockCopy(c)
<1>1. CASE Ignore(c) \/ ChooseTable(c)
  BY <1>1, IgnoreEffect, ChooseEffect DEF Inside, MovesTo
<1>2. CASE LockCopy(c) \/ Look(c) \/ Mismatch(c) \/ Match(c)
  BY <1>2, LockEffect, LookEffect, MismatchEffect, MatchEffect DEF Keeps, Inside
<1>3. CASE Hit(c) \/ ZeroCounters(c) \/ Replace(c)
  BY <1>3, HitEffect, ZeroEffect, ReplaceEffect DEF MovesTo, Inside
<1>4. CASE Fill(c) \/ NoMatch(c) \/ SaveEntry(c) \/ DiscardEntry(c) \/ ClearEntry(c)
  BY <1>4, FillEffect, NoMatchEffect, SaveEffect, DiscardEffect, ClearEffect DEF Inside
<1> QED
  BY <1>1, <1>2, <1>3, <1>4 DEF processPacket

LEMMA ApartStep ==
  ASSUME TypeOK, Popped, Apart, Undisturbed, OnePlace, Next
  PROVE  Apart'
<1>1. SUFFICES ASSUME ~overlap' PROVE Apart'
  BY DEF Apart
<1>2. ~overlap
  BY <1>1, OverlapStays
<1>3. CASE tallyProcessing
  <2>1. UNCHANGED <<pc, visit>>
    BY <1>3 DEF tallyProcessing, StartTally, TallySlot
  <2> QED
    BY <1>2, <2>1 DEF Apart, Crashed, Inside
<1>4. ASSUME NEW c \in Consumers, processPacket(c)
      PROVE  Apart'
  <2>1. /\ ~Crash(c) /\ pc'[c] # "crashed"
        /\ \A d \in Consumers : d # c => pc'[d] = pc[d] /\ visit'[d] = visit[d]
    BY <1>2, <1>4, NoCrashApart, Others
  <2>2. ~Crashed'
    BY <1>2, <2>1 DEF Apart, Crashed
  <2>3. ASSUME NEW d \in Consumers, d # c, Inside(d), Inside(c)'
        PROVE  visit'[c].Table # visit[d].Table
    <3>1. visit'[c].Table = visit[c].Table /\ (Inside(c) \/ LockCopy(c))
      BY <1>4, <2>1, <2>3, StaysInside
    <3>2. CASE Inside(c)
      BY <1>2, <2>3, <3>1, <3>2 DEF Apart
    <3>3. CASE LockCopy(c)
      <4>1. In(visit[c].Table) = {}
        BY <1>1, <3>3, LockEffect
      <4> QED
        BY <2>3, <3>1, <4>1 DEF In, Inside
    <3> QED
      BY <3>1, <3>2, <3>3
  <2> QED
    BY <1>2, <2>1, <2>2, <2>3 DEF Apart, Inside
<1> QED
  BY <1>3, <1>4 DEF Next

\* While c steps, the table of another consumer stays as it is.
LEMMA OtherTables ==
  ASSUME TypeOK, Popped, Apart, Undisturbed, OnePlace, ~overlap,
         NEW c \in Consumers, processPacket(c), NEW d \in Consumers \ {c}, Inside(d),
         NEW n \in Slots
  PROVE  At(visit[d].Table, n)' = At(visit[d].Table, n)
<1>1. PICK t \in Tables : t = visit[d].Table
  BY Located
<1>2. visit'[d].Table = t
  BY <1>1, NoCrashApart, Others
<1>3. Inside(c) => visit[c].Table # t
  BY <1>1 DEF Apart
<1>4. SameAt \/ (Inside(c) /\ \E k, x : Puts(c, k, x))
  BY NoCrashApart, IgnoreEffect, ChooseEffect, LockEffect, LookEffect, MismatchEffect,
     MatchEffect, HitEffect, FillEffect, ZeroEffect, NoMatchEffect, SaveEffect,
     DiscardEffect, ClearEffect, ReplaceEffect
  DEF processPacket, Inside
<1>5. At(t, n)' = At(t, n)
  BY <1>3, <1>4 DEF SameAt, Puts
<1> QED
  BY <1>1, <1>2, <1>5 DEF At

\* what Undisturbed says of one consumer
Steady(c) ==
  /\ pc[c] \in {"compare", "hit"} => visit[c].entry.ThePacket = At(visit[c].Table, visit[c].j)
  /\ pc[c] \in {"compare", "hit"} => At(visit[c].Table, visit[c].j) # NULL
  /\ pc[c] = "fill" => At(visit[c].Table, visit[c].j) = NULL
  /\ pc[c] \in {"save", "discard", "clear"} => At(visit[c].Table, 0) # NULL
  /\ pc[c] = "replace" => At(visit[c].Table, 0) = NULL

LEMMA UndisturbedStep ==
  ASSUME TypeOK, Popped, TallyLast, Apart, Undisturbed, OnePlace, Next
  PROVE  Undisturbed'
<1>1. SUFFICES ASSUME ~overlap', NEW d \in Consumers PROVE Steady(d)'
  BY DEF Undisturbed, Steady
<1>2. ~overlap
  BY <1>1, OverlapStays
<1>3. Steady(d)
  BY <1>2 DEF Undisturbed, Steady
<1>4. CASE tallyProcessing
  <2>1. pc[d] = "idle" /\ pc' = pc
    BY <1>4, StartEffect, TallyEffect, Sizes DEF tallyProcessing, TallyLast
  <2> QED
    BY <2>1 DEF Steady
<1>5. ASSUME NEW c \in Consumers, processPacket(c)
      PROVE  Steady(d)'
  <2>1. /\ ~Crash(c)
        /\ \A e \in Consumers : e # c => pc'[e] = pc[e] /\ visit'[e] = visit[e]
    BY <1>2, <1>5, NoCrashApart, Others
  <2>2. PICK t \in Tables, j \in 0 .. SmallTableSize : visit[d].Table = t /\ visit[d].j = j
    BY Located
  <2>3. pc[d] \in {"compare", "hit", "fill"} => j \in Slots
    BY <2>2, Located
  <2>4. CASE d # c
    <3>1. pc'[d] = pc[d] /\ visit'[d] = visit[d]
      BY <2>1, <2>4
    <3>2. Inside(d) => \A n \in Slots : At(t, n)' = At(t, n)
      BY <1>2, <1>5, <2>2, <2>4, <3>1, OtherTables DEF At
    <3> QED
      BY <1>3, <2>2, <2>3, <3>1, <3>2, Sizes DEF Steady, Inside, At
  <2>5. CASE d = c
    <3>1. CASE Ignore(d)
      BY <3>1, IgnoreEffect DEF Steady
    <3>2. CASE ChooseTable(d) \/ LockCopy(d) \/ Mismatch(d) \/ ZeroCounters(d) \/ Hit(d)
               \/ Fill(d) \/ Replace(d)
      <4>1. pc'[d] \in {"lock", "scan", "idle", "zero"}
        BY <3>2, ChooseEffect, LockEffect, MismatchEffect, ZeroEffect, HitEffect, FillEffect,
           ReplaceEffect
        DEF MovesTo
      <4> QED
        BY <4>1 DEF Steady
    <3>3. CASE Look(d)
      <4>1. /\ visit'[d].Table = t /\ visit'[d].j = j /\ j \in Slots
            /\ visit'[d].entry.ThePacket = At(t, j)
            /\ pc'[d] = IF At(t, j) = NULL THEN "fill" ELSE "compare"
            /\ At(t, j)' = At(t, j)
        BY <2>2, <3>3, LookEffect DEF MovesTo, Keeps, SameAt
      <4> QED
        BY <4>1 DEF Steady, At
    <3>4. CASE Match(d)
      <4>1. /\ visit'[d].Table = t /\ visit'[d].j = j /\ j \in Slots
            /\ visit'[d].entry.ThePacket = visit[d].entry.ThePacket
            /\ pc'[d] = "hit" /\ pc[d] = "compare"
            /\ At(t, j)' = At(t, j)
        BY ZenonT(60), <2>2, <2>3, <3>4, MatchEffect DEF MovesTo, Keeps, SameAt
      <4> QED
        BY <1>3, <2>2, <4>1 DEF Steady, At
    <3>5. CASE NoMatch(d)
      <4>1. /\ visit'[d].Table = t
            /\ pc'[d] = IF At(t, 0) = NULL THEN "replace" ELSE "save"
            /\ At(t, 0)' = At(t, 0)
        BY <2>2, <3>5, NoMatchEffect, Sizes DEF MovesTo, SameAt
      <4> QED
        BY <4>1 DEF Steady, At
    <3>6. CASE SaveEntry(d) \/ DiscardEntry(d)
      <4>1. /\ visit'[d].Table = t /\ pc[d] \in {"save", "discard"}
            /\ pc'[d] \in {"discard", "clear"} /\ At(t, 0)' = At(t, 0)
        BY <2>2, <3>6, SaveEffect, DiscardEffect, Sizes DEF MovesTo, SameAt
      <4> QED
        BY <1>3, <2>2, <4>1 DEF Steady, At
    <3>7. CASE ClearEntry(d)
      <4>1. visit'[d].Table = t /\ pc'[d] = "replace" /\ At(t, 0)' = NULL
        BY <2>2, <3>7, ClearEffect, Sizes DEF MovesTo, Puts
      <4> QED
        BY <4>1 DEF Steady, At
    <3> QED
      BY <1>5, <2>1, <2>5, <3>1, <3>2, <3>3, <3>4, <3>5, <3>6, <3>7 DEF processPacket
  <2> QED
    BY <2>4, <2>5
<1> QED
  BY <1>4, <1>5 DEF Next

-----------------------------------------------------------------------------
(* OnePlace, conjunct by conjunct *)
InPlace(p) ==
  \/ p \in waiting \cup freed
  \/ \E c \in Consumers : Carries(c) /\ visit[c].pPacket = p
  \/ \E t \in Tables, n \in Slots : At(t, n) = p

Owned(c) ==
  Carries(c) =>
    /\ visit[c].pPacket \notin freed
    /\ \A t \in Tables, n \in Slots : At(t, n) # visit[c].pPacket
    /\ \A d \in Consumers \ {c} : Carries(d) => visit[d].pPacket # visit[c].pPacket

FreedShown == \A t \in Tables, n \in Slots : At(t, n) \in freed <=> Stale(t, n)

KeptOnce ==
  \A t, u \in Tables : \A n, m \in Slots :
    At(t, n) # NULL /\ At(t, n) = At(u, m) => t = u /\ n = m

LEMMA Placed ==
  OnePlace <=> (~overlap => /\ \A p \in Packets : InPlace(p)
                            /\ \A c \in Consumers : Owned(c)
                            /\ FreedShown /\ KeptOnce)
BY DEF OnePlace, InPlace, Owned, FreedShown, KeptOnce

LEMMA PlacedNext ==
  ASSUME \A p \in Packets : InPlace(p)', \A c \in Consumers : Owned(c)',
         FreedShown', KeptOnce'
  PROVE  OnePlace'
BY DEF OnePlace, InPlace, Owned, FreedShown, KeptOnce

\* A step that moves no packet
LEMMA NothingMoves ==
  ASSUME OnePlace, ~overlap, SameAt, UNCHANGED <<waiting, freed>>,
         \A e \in Consumers :
           /\ Carries(e)' <=> Carries(e)
           /\ Carries(e) => visit'[e].pPacket = visit[e].pPacket
           /\ pc'[e] = "clear" <=> pc[e] = "clear"
           /\ pc[e] = "clear" => visit'[e].Table = visit[e].Table
  PROVE  OnePlace'
<1>1. \A t \in Tables, n \in Slots : Stale(t, n)' <=> Stale(t, n)
  BY DEF Stale
<1>2. \A p \in Packets : InPlace(p)'
  BY Placed DEF InPlace, SameAt
<1>3. \A c \in Consumers : Owned(c)'
  BY Placed DEF Owned, SameAt
<1>4. FreedShown'
  BY <1>1, Placed DEF FreedShown, SameAt
<1>5. KeptOnce'
  BY Placed DEF KeptOnce, SameAt
<1> QED
  BY <1>2, <1>3, <1>4, <1>5, PlacedNext

\* The packets in processPacket and in the tables were popped.
LEMMA NotWaiting ==
  ASSUME TypeOK, Popped
  PROVE  /\ \A c \in Consumers : Carries(c) => visit[c].pPacket \in Packets \ waiting
         /\ \A t \in Tables, n \in Slots : At(t, n) # NULL => At(t, n) \in Packets \ waiting
         /\ freed \subseteq Packets \ waiting /\ waiting \subseteq Packets
         /\ NULL \notin Packets
BY Located, Sizes DEF Popped, TypeOK, Carries, Working

\* A packet comes into processPacket, and is freed there or not.
LEMMA PopMoves ==
  ASSUME TypeOK, Popped, OnePlace, ~overlap, NEW c \in Consumers, Ignore(c) \/ ChooseTable(c)
  PROVE  OnePlace'
<1>1. PICK p \in waiting :
        /\ waiting' = waiting \ {p}
        /\ \/ Ignore(c) /\ freed' = freed \cup {p}
           \/ ChooseTable(c) /\ freed' = freed /\ visit'[c].pPacket = p
  BY IgnoreEffect, ChooseEffect
<1>2. /\ SameAt /\ pc[c] = "idle"
      /\ \A d \in Consumers : d # c => pc'[d] = pc[d] /\ visit'[d] = visit[d]
      /\ Ignore(c) => pc' = pc /\ visit' = visit
      /\ ChooseTable(c) => pc'[c] = "lock"
  BY IgnoreEffect, ChooseEffect DEF MovesTo
<1>3. /\ p \in Packets /\ p \notin freed
      /\ \A t \in Tables, n \in Slots : At(t, n) # p
      /\ \A d \in Consumers : Carries(d) => visit[d].pPacket # p
  BY NotWaiting, Sizes
<1>4. ASSUME NEW q \in Packets
      PROVE  InPlace(q)'
  <2>1. InPlace(q)
    BY Placed
  <2>2. CASE q = p
    BY <1>1, <1>2, <2>2 DEF InPlace, Carries
  <2>3. CASE q # p /\ q \in waiting \cup freed
    BY <1>1, <2>3 DEF InPlace
  <2>4. CASE \E d \in Consumers : Carries(d) /\ visit[d].pPacket = q
    BY <1>2, <2>4 DEF InPlace, Carries
  <2>5. CASE \E t \in Tables, n \in Slots : At(t, n) = q
    BY <1>2, <2>5 DEF InPlace, SameAt
  <2> QED
    BY <2>1, <2>2, <2>3, <2>4, <2>5 DEF InPlace
<1>5. ASSUME NEW d \in Consumers, Carries(d)'
      PROVE  Owned(d)'
  <2>1. Carries(c)' => visit'[c].pPacket = p /\ freed' = freed
    BY <1>1, <1>2 DEF Carries
  <2>2. freed' \subseteq freed \cup {p}
    BY <1>1
  <2>3. \A e \in Consumers : e # c => (Carries(e)' <=> Carries(e)) /\ visit'[e] = visit[e]
    BY <1>2 DEF Carries
  <2>4. CASE d = c
    BY <1>2, <1>3, <1>5, <2>1, <2>3, <2>4 DEF Owned, SameAt
  <2>5. CASE d # c
    <3>1. Carries(d) /\ Owned(d) /\ visit'[d] = visit[d] /\ visit[d].pPacket # p
      BY <1>3, <1>5, <2>3, <2>5, Placed
    <3>2. \A e \in Consumers \ {d} : Carries(e)' => visit'[e].pPacket # visit[d].pPacket
      BY <2>1, <2>3, <3>1 DEF Owned
    <3> QED
      BY <1>2, <2>2, <3>1, <3>2 DEF Owned, SameAt
  <2> QED
    BY <2>4, <2>5
<1>6. FreedShown'
  <2>1. \A t \in Tables, n \in Slots : Stale(t, n)' <=> Stale(t, n)
    BY <1>2 DEF Stale
  <2> QED
    BY <1>1, <1>2, <1>3, <2>1, Placed DEF FreedShown, SameAt
<1>7. KeptOnce'
  BY <1>2, Placed DEF KeptOnce, SameAt
<1> QED
  BY <1>4, <1>5, <1>6, <1>7, PlacedNext DEF Owned

LEMMA HitMoves ==
  ASSUME TypeOK, Popped, OnePlace, ~overlap, NEW c \in Consumers, Hit(c)
  PROVE  OnePlace'
<1>1. /\ SameAt /\ pc[c] = "hit" /\ pc'[c] = "idle"
      /\ \A d \in Consumers : d # c => pc'[d] = pc[d] /\ visit'[d] = visit[d]
      /\ freed' = freed \cup {visit[c].pPacket} /\ waiting' = waiting
  BY HitEffect DEF MovesTo, scanVars
<1>2. Carries(c) /\ Owned(c) /\ ~Carries(c)'
  BY <1>1, Placed DEF Carries
<1>3. ASSUME NEW q \in Packets
      PROVE  InPlace(q)'
  <2>1. InPlace(q)
    BY Placed
  <2>2. CASE q = visit[c].pPacket \/ q \in waiting \cup freed
    BY <1>1, <2>2 DEF InPlace
  <2>3. CASE q # visit[c].pPacket /\ \E d \in Consumers : Carries(d) /\ visit[d].pPacket = q
    BY <1>1, <2>3 DEF InPlace, Carries
  <2>4. CASE \E t \in Tables, n \in Slots : At(t, n) = q
    BY <1>1, <2>4 DEF InPlace, SameAt
  <2> QED
    BY <2>1, <2>2, <2>3, <2>4 DEF InPlace
<1>4. ASSUME NEW d \in Consumers, Carries(d)'
      PROVE  Owned(d)'
  <2>1. d # c /\ Carries(d) /\ Owned(d) /\ visit'[d] = visit[d]
    BY <1>1, <1>2, <1>4, Placed DEF Carries
  <2>2. \A e \in Consumers : Carries(e)' => Carries(e) /\ visit'[e] = visit[e]
    BY <1>1, <1>2 DEF Carries
  <2> QED
    BY <1>1, <1>2, <2>1, <2>2 DEF Owned, SameAt
<1>5. FreedShown'
  <2>1. \A t \in Tables, n \in Slots : Stale(t, n)' <=> Stale(t, n)
    BY <1>1 DEF Stale
  <2> QED
    BY <1>1, <1>2, <2>1, Placed DEF FreedShown, SameAt, Owned
<1>6. KeptOnce'
  BY <1>1, Placed DEF KeptOnce, SameAt
<1> QED
  BY <1>3, <1>4, <1>5, <1>6, PlacedNext DEF Owned

\* The packet of c goes into a slot that is empty.
LEMMA StoreMoves ==
  ASSUME TypeOK, Popped, Apart, Undisturbed, OnePlace, ~overlap,
         NEW c \in Consumers, Fill(c) \/ Replace(c)
  PROVE  OnePlace'
<1>1. PICK t \in Tables, k \in Slots :
        /\ t = visit[c].Table
        /\ \A u \in Tables, n \in Slots :
             At(u, n)' = IF u = t /\ n = k THEN visit[c].pPacket ELSE At(u, n)
        /\ At(t, k) = NULL
        /\ pc[c] \in {"fill", "replace"} /\ pc'[c] \in {"zero", "idle"}
  <2>1. CASE Fill(c)
    BY <2>1, FillEffect, Located DEF Puts, MovesTo, Undisturbed
  <2>2. CASE Replace(c)
    BY <2>2, ReplaceEffect, Located, Sizes DEF Puts, MovesTo, Undisturbed
  <2> QED
    BY <2>1, <2>2
<1>2. /\ \A d \in Consumers : d # c => pc'[d] = pc[d] /\ visit'[d] = visit[d]
      /\ UNCHANGED <<freed, waiting>>
  BY FillEffect, ReplaceEffect DEF MovesTo, scanVars, resetVars
<1>3. Carries(c) /\ Owned(c) /\ ~Carries(c)' /\ visit[c].pPacket \in Packets
  BY <1>1, Placed, NotWaiting DEF Carries
<1>4. ASSUME NEW q \in Packets
      PROVE  InPlace(q)'
  <2>1. InPlace(q)
    BY Placed
  <2>2. CASE q = visit[c].pPacket
    BY <1>1, <2>2 DEF InPlace
  <2>3. CASE q \in waiting \cup freed
    BY <1>2, <2>3 DEF InPlace
  <2>4. CASE q # visit[c].pPacket /\ \E d \in Consumers : Carries(d) /\ visit[d].pPacket = q
    BY <1>2, <2>4 DEF InPlace, Carries
  <2>5. CASE \E u \in Tables, n \in Slots : At(u, n) = q
    BY <1>1, <2>5, NotWaiting DEF InPlace
  <2> QED
    BY <2>1, <2>2, <2>3, <2>4, <2>5 DEF InPlace
<1>5. ASSUME NEW d \in Consumers, Carries(d)'
      PROVE  Owned(d)'
  <2>1. d # c /\ Carries(d) /\ Owned(d) /\ visit'[d] = visit[d]
    BY <1>2, <1>3, <1>5, Placed DEF Carries
  <2>2. \A e \in Consumers : Carries(e)' => Carries(e) /\ visit'[e] = visit[e]
    BY <1>2, <1>3 DEF Carries
  <2>3. \A u \in Tables, n \in Slots : At(u, n)' # visit[d].pPacket
    BY <1>1, <1>3, <2>1 DEF Owned
  <2> QED
    BY <1>2, <2>1, <2>2, <2>3 DEF Owned
<1>6. FreedShown'
  <2>1. \A u \in Tables, n \in Slots : Stale(u, n)' <=> Stale(u, n)
    BY <1>1, <1>2 DEF Stale
  <2>2. ~Stale(t, k)
    BY <1>1, NotWaiting, Placed DEF FreedShown
  <2> QED
    BY <1>1, <1>2, <1>3, <2>1, <2>2, Placed DEF FreedShown, Owned
<1>7. KeptOnce'
  BY <1>1, <1>3, Placed DEF KeptOnce, Owned
<1> QED
  BY <1>4, <1>5, <1>6, <1>7, PlacedNext DEF Owned

\* The packet in slot 0 is freed, and shown there until the entry is cleared.
LEMMA DiscardMoves ==
  ASSUME TypeOK, Popped, Apart, Undisturbed, OnePlace, ~overlap,
         NEW c \in Consumers, DiscardEntry(c)
  PROVE  OnePlace'
<1>1. PICK t \in Tables :
        /\ t = visit[c].Table
        /\ At(t, 0) # NULL /\ freed' = freed \cup {At(t, 0)}
        /\ pc[c] = "discard" /\ pc'[c] = "clear" /\ visit' = visit /\ waiting' = waiting
        /\ SameAt
  BY DiscardEffect, Located DEF Undisturbed, MovesTo, resetVars
<1>2. \A d \in Consumers : d # c => pc'[d] = pc[d]
  BY DiscardEffect DEF MovesTo
<1>3. \A e \in Consumers : Carries(e)' <=> Carries(e)
  BY <1>1, <1>2 DEF Carries
<1>4. \A q \in Packets : InPlace(q)'
  BY <1>1, <1>3, Placed DEF InPlace, SameAt
<1>5. \A d \in Consumers : Owned(d)'
  BY <1>1, <1>3, Placed, Sizes DEF Owned, SameAt
<1>6. FreedShown'
  <2>1. \A u \in Tables, n \in Slots : Stale(u, n)' <=> Stale(u, n) \/ (u = t /\ n = 0)
    BY <1>1, <1>2 DEF Stale
  <2>2. \A u \in Tables, n \in Slots : At(u, n) = At(t, 0) => u = t /\ n = 0
    BY <1>1, Placed, Sizes DEF KeptOnce
  <2> QED
    BY <1>1, <2>1, <2>2, Placed DEF FreedShown, SameAt
<1>7. KeptOnce'
  BY <1>1, Placed DEF KeptOnce, SameAt
<1> QED
  BY <1>4, <1>5, <1>6, <1>7, PlacedNext

LEMMA ClearMoves ==
  ASSUME TypeOK, Popped, Apart, OnePlace, ~overlap, NEW c \in Consumers, ClearEntry(c)
  PROVE  OnePlace'
<1>1. PICK t \in Tables :
        /\ t = visit[c].Table
        /\ \A u \in Tables, n \in Slots :
             At(u, n)' = IF u = t /\ n = 0 THEN NULL ELSE At(u, n)
        /\ pc[c] = "clear" /\ pc'[c] = "replace"
        /\ UNCHANGED <<visit, waiting, freed>>
  BY ClearEffect, Located DEF Puts, MovesTo, resetVars
<1>2. \A d \in Consumers : d # c => pc'[d] = pc[d]
  BY ClearEffect DEF MovesTo
<1>3. \A e \in Consumers : Carries(e)' <=> Carries(e)
  BY <1>1, <1>2 DEF Carries
<1>4. At(t, 0) \in freed
  BY <1>1, Placed, Sizes DEF FreedShown, Stale
<1>5. ASSUME NEW q \in Packets
      PROVE  InPlace(q)'
  <2>1. InPlace(q)
    BY Placed
  <2>2. CASE q \in waiting \cup freed
    BY <1>1, <2>2 DEF InPlace
  <2>3. CASE \E d \in Consumers : Carries(d) /\ visit[d].pPacket = q
    BY <1>1, <1>3, <2>3 DEF InPlace
  <2>4. CASE q \notin freed /\ \E u \in Tables, n \in Slots : At(u, n) = q
    BY <1>1, <1>4, <2>4 DEF InPlace
  <2> QED
    BY <2>1, <2>2, <2>3, <2>4 DEF InPlace
<1>6. \A d \in Consumers : Owned(d)'
  BY <1>1, <1>3, Placed, NotWaiting DEF Owned
<1>7. FreedShown'
  <2>1. \A d \in Consumers : d # c /\ pc[d] = "clear" => visit[d].Table # t
    BY <1>1 DEF Apart, Inside
  <2>2. \A u \in Tables, n \in Slots : Stale(u, n)' <=> Stale(u, n) /\ ~(u = t /\ n = 0)
    BY <1>1, <1>2, <2>1 DEF Stale
  <2> QED
    BY <1>1, <2>2, Placed, NotWaiting DEF FreedShown
<1>8. KeptOnce'
  BY <1>1, Placed DEF KeptOnce
<1> QED
  BY <1>5, <1>6, <1>7, <1>8, PlacedNext

LEMMA TallyMoves ==
  ASSUME TypeOK, Popped, TallyLast, OnePlace, ~overlap, TallySlot
  PROVE  OnePlace'
<1>1. PICK k \in Slots :
        /\ \A t \in Tables, n \in Slots : At(t, n)' = IF n = k THEN NULL ELSE At(t, n)
        /\ freed' = freed \cup ({At(t, k) : t \in Tables} \ {NULL})
        /\ UNCHANGED <<waiting, pc, visit>>
  BY TallyEffect
<1>2. \A c \in Consumers : pc[c] = "idle"
  BY TallyEffect, Sizes DEF TallyLast
<1>3. \A c \in Consumers : ~Carries(c)' /\ ~Carries(c)
  BY <1>1, <1>2 DEF Carries
<1>4. ASSUME NEW q \in Packets
      PROVE  InPlace(q)'
  <2>1. q \in waiting \cup freed \/ \E t \in Tables, n \in Slots : At(t, n) = q
    BY <1>3, Placed DEF InPlace
  <2>2. CASE q \in waiting \cup freed
    BY <1>1, <2>2 DEF InPlace
  <2>3. ASSUME NEW t \in Tables, NEW n \in Slots, At(t, n) = q
        PROVE  InPlace(q)'
    <3>1. CASE n = k
      BY <1>1, <2>3, <3>1, NotWaiting DEF InPlace
    <3>2. CASE n # k
      BY <1>1, <2>3, <3>2 DEF InPlace
    <3> QED
      BY <3>1, <3>2
  <2> QED
    BY <2>1, <2>2, <2>3
<1>5. \A c \in Consumers : Owned(c)'
  BY <1>3 DEF Owned
<1>6. FreedShown'
  <2>1. \A t \in Tables, n \in Slots : ~Stale(t, n)' /\ ~Stale(t, n)
    BY <1>1, <1>2 DEF Stale
  <2>2. ASSUME NEW t \in Tables, NEW n \in Slots
        PROVE  At(t, n)' \notin freed'
    <3>1. At(t, n) \notin freed /\ NULL \notin freed
      BY <2>1, Placed, NotWaiting DEF FreedShown
    <3>2. CASE n = k
      BY <1>1, <3>1, <3>2
    <3>3. CASE n # k
      BY <1>1, <3>1, <3>3, Placed DEF KeptOnce
    <3> QED
      BY <3>2, <3>3
  <2> QED
    BY <2>1, <2>2 DEF FreedShown
<1>7. KeptOnce'
  BY <1>1, Placed DEF KeptOnce
<1> QED
  BY <1>4, <1>5, <1>6, <1>7, PlacedNext

LEMMA OnePlaceStep ==
  ASSUME TypeOK, Popped, TallyLast, Apart, Undisturbed, OnePlace, Next
  PROVE  OnePlace'
<1>1. SUFFICES ASSUME ~overlap' PROVE OnePlace'
  BY DEF OnePlace
<1>2. ~overlap
  BY <1>1, OverlapStays
<1>3. CASE StartTally
  BY <1>2, <1>3, StartEffect, NothingMoves DEF Carries
<1>4. CASE TallySlot
  BY <1>2, <1>4, TallyMoves
<1>5. ASSUME NEW c \in Consumers, processPacket(c)
      PROVE  OnePlace'
  <2>1. /\ ~Crash(c)
        /\ \A d \in Consumers : d # c => pc'[d] = pc[d] /\ visit'[d] = visit[d]
    BY <1>2, <1>5, NoCrashApart, Others
  <2>2. CASE LockCopy(c) \/ Look(c) \/ Mismatch(c) \/ Match(c) \/ ZeroCounters(c)
             \/ NoMatch(c) \/ SaveEntry(c)
    <3>1. SameAt /\ UNCHANGED <<waiting, freed>>
      BY <2>2, LockEffect, LookEffect, MismatchEffect, MatchEffect, ZeroEffect,
         NoMatchEffect, SaveEffect
      DEF scanVars, resetVars
    <3>2. /\ Carries(c)' <=> Carries(c)
          /\ Carries(c) => visit'[c].pPacket = visit[c].pPacket
      BY ZenonT(60), <2>2, LockEffect, LookEffect, MismatchEffect, MatchEffect, ZeroEffect,
         NoMatchEffect, SaveEffect
      DEF MovesTo, Keeps, Carries
    <3>3. pc'[c] # "clear" /\ pc[c] # "clear"
      BY <2>2, LockEffect, LookEffect, MismatchEffect, MatchEffect, ZeroEffect,
         NoMatchEffect, SaveEffect
      DEF MovesTo
    <3>4. \A e \in Consumers :
            /\ Carries(e)' <=> Carries(e)
            /\ Carries(e) => visit'[e].pPacket = visit[e].pPacket
            /\ pc'[e] = "clear" <=> pc[e] = "clear"
            /\ pc[e] = "clear" => visit'[e].Table = visit[e].Table
      BY <2>1, <3>2, <3>3 DEF Carries
    <3> QED
      BY <1>2, <3>1, <3>4, NothingMoves
  <2> QED
    BY <1>2, <1>5, <2>1, <2>2, PopMoves, HitMoves, StoreMoves, DiscardMoves, ClearMoves
    DEF processPacket
<1> QED
  BY <1>3, <1>4, <1>5 DEF Next, tallyProcessing

-----------------------------------------------------------------------------
(* Different and Repeated *)

\* what Different says of one table and of one consumer
AllDifferent(t) ==
  \A n, m \in Slots :
    n # m /\ At(t, n) # NULL /\ At(t, m) # NULL => ~Same(At(t, n), At(t, m))

PassedDifferent(c) ==
  Carries(c) =>
    \A n \in 0 .. visit[c].j - 1 :
      At(visit[c].Table, n) # NULL => ~Same(visit[c].pPacket, At(visit[c].Table, n))

LEMMA SameIsSymmetric ==
  ASSUME NEW p, NEW q, Same(p, q)
  PROVE  Same(q, p)
BY DEF Same

\* When c stores its packet it has passed all that its table holds.
LEMMA PassedAll ==
  ASSUME TypeOK, Popped, TallyLast, FilledFromFront, Apart, Undisturbed, Different, ~overlap,
         NEW c \in Consumers, pc[c] \in {"fill", "replace"}, NEW n \in Slots,
         At(visit[c].Table, n) # NULL
  PROVE  ~Same(visit[c].pPacket, At(visit[c].Table, n))
<1>1. PICK t \in Tables, j \in 0 .. SmallTableSize : t = visit[c].Table /\ j = visit[c].j
  BY Located
<1>2. \A m \in 0 .. j - 1 : At(t, m) # NULL => ~Same(visit[c].pPacket, At(t, m))
  BY <1>1 DEF Different, Carries
<1>3. tallied = -1 /\ ~Crashed
  BY DEF TallyLast, Apart
<1>4. CASE pc[c] = "replace"
  <2>1. j = SmallTableSize
    BY <1>1, <1>3, <1>4 DEF FilledFromFront
  <2> QED
    BY <1>1, <1>2, <2>1, Sizes
<1>5. CASE pc[c] = "fill"
  <2>1. At(t, j) = NULL /\ j \in Slots
    BY <1>1, <1>5, Located DEF Undisturbed
  <2>2. ~Filled(t, j)
    BY <1>1, <1>5, <2>1 DEF Filled, Apart, Inside
  <2>3. ~(j \in 0 .. n - 1)
    BY <1>1, <1>3, <2>2 DEF FilledFromFront
  <2>4. n # j
    BY <1>1, <2>1
  <2>5. n \in 0 .. j - 1
    BY <2>1, <2>3, <2>4, Sizes
  <2> QED
    BY <1>1, <1>2, <2>5
<1> QED
  BY <1>4, <1>5

LEMMA DifferentTables ==
  ASSUME TypeOK, Popped, TallyLast, FilledFromFront, Apart, Undisturbed, OnePlace, Different,
         ~overlap, Next, NEW t \in Tables
  PROVE  AllDifferent(t)'
<1>1. AllDifferent(t)
  BY DEF Different, AllDifferent
<1>2. ASSUME \A n \in Slots : At(t, n)' = At(t, n) \/ At(t, n)' = NULL
      PROVE  AllDifferent(t)'
  BY <1>1, <1>2 DEF AllDifferent, Same, Payload, PayloadSize
<1>3. ASSUME NEW c \in Consumers, Fill(c) \/ Replace(c)
      PROVE  AllDifferent(t)'
  <2>1. PICK k : Puts(c, k, visit[c].pPacket) /\ pc[c] \in {"fill", "replace"}
    BY <1>3, FillEffect, ReplaceEffect
  <2>2. CASE t # visit[c].Table
    BY <1>2, <2>1, <2>2 DEF Puts
  <2>3. CASE t = visit[c].Table
    <3>1. \A n \in Slots : At(t, n) # NULL => ~Same(visit[c].pPacket, At(t, n))
      BY <2>1, <2>3, PassedAll
    <3>2. \A n \in Slots : At(t, n)' = IF n = k THEN visit[c].pPacket ELSE At(t, n)
      BY <2>1, <2>3 DEF Puts
    <3>3. ASSUME NEW n \in Slots, NEW m \in Slots, n # m, At(t, n)' # NULL, At(t, m)' # NULL
          PROVE  ~Same(At(t, n)', At(t, m)')
      <4>1. CASE n # k /\ m # k
        BY <1>1, <3>2, <3>3, <4>1 DEF AllDifferent
      <4>2. CASE n = k
        BY <3>1, <3>2, <3>3, <4>2
      <4>3. CASE m = k
        BY <3>1, <3>2, <3>3, <4>3, SameIsSymmetric
      <4> QED
        BY <4>1, <4>2, <4>3
    <3> QED
      BY <3>3 DEF AllDifferent, Same, Payload, PayloadSize
  <2> QED
    BY <2>2, <2>3
<1>4. ASSUME NEW c \in Consumers, processPacket(c), ~Fill(c), ~Replace(c)
      PROVE  \A n \in Slots : At(t, n)' = At(t, n) \/ At(t, n)' = NULL
  <2>1. SameAt \/ Puts(c, 0, NULL)
    BY <1>4, NoCrashApart, IgnoreEffect, ChooseEffect, LockEffect, LookEffect,
       MismatchEffect, MatchEffect, HitEffect, ZeroEffect, NoMatchEffect, SaveEffect,
       DiscardEffect, ClearEffect
    DEF processPacket
  <2> QED
    BY <2>1 DEF SameAt, Puts
<1>5. CASE tallyProcessing
  BY <1>2, <1>5, StartEffect, TallyEffect DEF tallyProcessing, SameAt
<1> QED
  BY <1>2, <1>3, <1>4, <1>5 DEF Next

LEMMA DifferentConsumers ==
  ASSUME TypeOK, Popped, TallyLast, Apart, Undisturbed, OnePlace, Different,
         ~overlap, Next, NEW d \in Consumers
  PROVE  PassedDifferent(d)'
<1>1. PICK t \in Tables, j \in 0 .. SmallTableSize : visit[d].Table = t /\ visit[d].j = j
  BY Located
<1>2. PICK p : p = visit[d].pPacket
  OBVIOUS
<1>3. Carries(d) => \A n \in 0 .. j - 1 : At(t, n) # NULL => ~Same(p, At(t, n))
  BY <1>1, <1>2 DEF Different
<1>4. j \in Nat /\ \A n \in 0 .. j - 1 : n \in Slots
  BY Sizes
<1>5. CASE tallyProcessing
  <2>1. pc'[d] = "idle"
    BY <1>5, StartEffect, TallyEffect, Sizes DEF tallyProcessing, TallyLast
  <2> QED
    BY <2>1 DEF PassedDifferent, Carries
<1>6. ASSUME Carries(d), visit'[d].Table = t, visit'[d].j = j, visit'[d].pPacket = p,
             \A n \in Slots : At(t, n)' = At(t, n) \/ At(t, n)' = NULL
      PROVE  PassedDifferent(d)'
  <2>1. \A n \in 0 .. j - 1 : At(t, n)' # NULL => ~Same(p, At(t, n)')
    BY <1>3, <1>4, <1>6
  <2> QED
    BY <1>6, <2>1 DEF PassedDifferent, At, Same, Payload, PayloadSize
<1>7. ASSUME visit'[d].j = 0
      PROVE  PassedDifferent(d)'
  BY <1>7 DEF PassedDifferent
<1>8. ASSUME NEW c \in Consumers, processPacket(c)
      PROVE  PassedDifferent(d)'
  <2>1. /\ ~Crash(c)
        /\ \A e \in Consumers : e # c => pc'[e] = pc[e] /\ visit'[e] = visit[e]
    BY <1>8, NoCrashApart, Others
  <2>2. CASE d # c
    <3>1. pc'[d] = pc[d] /\ visit'[d] = visit[d]
      BY <2>1, <2>2
    <3>2. CASE ~Carries(d)
      BY <3>1, <3>2 DEF PassedDifferent, Carries
    <3>3. CASE pc[d] = "lock"
      BY <1>7, <3>1, <3>3 DEF Popped, Working
    <3>4. CASE Carries(d) /\ pc[d] # "lock"
      <4>1. \A n \in Slots : At(t, n)' = At(t, n)
        BY <1>1, <1>8, <2>2, <3>1, <3>4, OtherTables DEF At, Carries, Inside
      <4> QED
        BY <1>1, <1>2, <1>6, <3>1, <3>4, <4>1
    <3> QED
      BY <3>2, <3>3, <3>4
  <2>3. CASE d = c
    <3>1. CASE Ignore(d)
      BY <3>1, IgnoreEffect DEF PassedDifferent, Carries
    <3>2. CASE ChooseTable(d)
      <4>1. visit'[d].j = 0
        BY <3>2, ChooseEffect
      <4> QED
        BY <1>7, <4>1
    <3>3. CASE Hit(d) \/ ZeroCounters(d) \/ Replace(d) \/ Fill(d)
      <4>1. ~Carries(d)'
        BY <3>3, HitEffect, ZeroEffect, ReplaceEffect, FillEffect DEF MovesTo, Carries
      <4> QED
        BY <4>1 DEF PassedDifferent
    <3>4. CASE LockCopy(d) \/ Look(d) \/ Match(d)
      <4>1. /\ Carries(d) /\ SameAt
            /\ visit'[d].Table = t /\ visit'[d].j = j /\ visit'[d].pPacket = p
        BY <1>1, <1>2, <3>4, LockEffect, LookEffect, MatchEffect DEF Keeps, Carries
      <4> QED
        BY <1>6, <4>1 DEF SameAt
    <3>5. CASE NoMatch(d) \/ SaveEntry(d) \/ DiscardEntry(d) \/ ClearEntry(d)
      <4>1. /\ Carries(d) /\ visit' = visit
            /\ SameAt \/ Puts(d, 0, NULL)
        BY <3>5, NoMatchEffect, SaveEffect, DiscardEffect, ClearEffect DEF Carries
      <4> QED
        BY <1>1, <1>2, <1>6, <4>1 DEF SameAt, Puts
    <3>6. CASE Mismatch(d)
      <4>1. /\ SameAt /\ pc[d] = "compare"
            /\ visit'[d].Table = t /\ visit'[d].j = j + 1 /\ visit'[d].pPacket = p
        BY <1>1, <1>2, <3>6, MismatchEffect DEF Keeps
      <4>2. PICK q \in Packets : q = visit[d].entry.ThePacket /\ q = At(t, j)
        BY <1>1, <4>1, SeesTheSame DEF Popped
      <4>3. FALSE \in Outcomes(p, q)
        BY <1>1, <1>2, <3>6, <4>1, <4>2, MismatchEffect, SeesTheSame
      <4>4. p \in Packets /\ ~PacketInfo[p].ignored /\ ~PacketInfo[q].ignored
        BY <1>2, <4>1, <4>2, Located DEF Popped, Working
      <4>5. ~Same(p, q)
        BY <4>3, <4>4, Comparison DEF Same
      <4>6. j \in Slots
        BY <1>1, <4>1, Located
      <4>7. \A n \in 0 .. j : n \in Slots /\ (n = j \/ n \in 0 .. j - 1)
        BY <1>4, <4>6
      <4>8. \A n \in 0 .. j : At(t, n)' # NULL => ~Same(p, At(t, n)')
        BY <1>3, <4>1, <4>2, <4>5, <4>6, <4>7 DEF Carries, SameAt
      <4>9. visit'[d].j - 1 = j
        BY <1>4, <4>1
      <4> QED
        BY <4>1, <4>8, <4>9 DEF PassedDifferent, At, Same, Payload, PayloadSize
    <3> QED
      BY <1>8, <2>1, <2>3, <3>1, <3>2, <3>3, <3>4, <3>5, <3>6 DEF processPacket
  <2> QED
    BY <2>2, <2>3
<1> QED
  BY <1>5, <1>8 DEF Next

LEMMA DifferentStep ==
  ASSUME TypeOK, Popped, TallyLast, FilledFromFront, Apart, Undisturbed, OnePlace, Different,
         Next
  PROVE  Different'
<1>1. SUFFICES ASSUME ~overlap' PROVE Different'
  BY DEF Different
<1>2. ~overlap
  BY <1>1, OverlapStays
<1>3. \A t \in Tables : AllDifferent(t)'
  BY <1>2, DifferentTables
<1>4. \A c \in Consumers : PassedDifferent(c)'
  BY <1>2, DifferentConsumers
<1> QED
  BY <1>3, <1>4 DEF Different, AllDifferent, PassedDifferent

LEMMA RepeatedStep ==
  ASSUME TypeOK, Popped, Apart, Undisturbed, OnePlace, Repeated, Next
  PROVE  Repeated'
<1>1. SUFFICES ASSUME ~overlap' PROVE Repeated'
  BY DEF Repeated
<1>2. ~overlap
  BY <1>1, OverlapStays
<1>3. /\ \A d \in duplicates : Repetition(d[1], d[2])
      /\ \A c \in Consumers :
           pc[c] = "hit" => Repetition(visit[c].pPacket, visit[c].entry.ThePacket)
  BY <1>2 DEF Repeated
<1>4. ASSUME \A d \in duplicates' : Repetition(d[1], d[2]),
             \A c \in Consumers :
               pc'[c] = "hit" => Repetition(visit'[c].pPacket, visit'[c].entry.ThePacket)
      PROVE  Repeated'
  BY <1>4 DEF Repeated, Repetition, Payload, PayloadSize
<1>5. CASE UNCHANGED <<pc, visit, duplicates>>
  BY <1>3, <1>4, <1>5
<1>6. ASSUME NEW c \in Consumers, processPacket(c)
      PROVE  Repeated'
  <2>1. /\ ~Crash(c)
        /\ \A d \in Consumers : d # c => pc'[d] = pc[d] /\ visit'[d] = visit[d]
    BY <1>2, <1>6, NoCrashApart, Others
  <2>2. CASE Hit(c)
    <3>1. /\ duplicates' = duplicates \cup {<<visit[c].pPacket, visit[c].entry.ThePacket>>}
          /\ pc[c] = "hit" /\ pc'[c] = "idle"
      BY <2>2, HitEffect DEF MovesTo
    <3>2. \A d \in duplicates' : Repetition(d[1], d[2])
      BY <1>3, <3>1
    <3> QED
      BY <1>3, <1>4, <2>1, <3>1, <3>2
  <2>3. CASE Match(c)
    <3>1. PICK p, q : p = visit[c].pPacket /\ q = visit[c].entry.ThePacket
      OBVIOUS
    <3>2. /\ pc[c] = "compare" /\ duplicates' = duplicates
          /\ visit'[c].pPacket = p /\ visit'[c].entry.ThePacket = q
          /\ TRUE \in Outcomes(p, q)
      BY <1>2, <2>3, <3>1, MatchEffect, SeesTheSame DEF Keeps, history
    <3>3. p \in Packets /\ q \in Packets /\ ~PacketInfo[p].ignored /\ ~PacketInfo[q].ignored
      BY <3>1, <3>2, Located DEF Popped, Working
    <3>4. Repetition(p, q)
      BY <3>2, <3>3, Comparison DEF Repetition
    <3> QED
      BY <1>3, <1>4, <2>1, <3>2, <3>4
  <2>4. CASE ~Hit(c) /\ ~Match(c)
    <3>1. pc'[c] # "hit" \/ UNCHANGED <<pc, visit>>
      BY <1>6, <2>1, <2>4, IgnoreEffect, ChooseEffect, LockEffect, LookEffect,
         MismatchEffect, FillEffect, ZeroEffect, NoMatchEffect, SaveEffect, DiscardEffect,
         ClearEffect, ReplaceEffect
      DEF processPacket, MovesTo
    <3>2. duplicates' = duplicates
      BY <1>6, <2>1, <2>4
      DEF processPacket, history, Ignore, ChooseTable, LockCopy, Look, Mismatch, Fill,
          ZeroCounters, NoMatch, SaveEntry, DiscardEntry, ClearEntry, Replace
    <3> QED
      BY <1>3, <1>4, <2>1, <3>1, <3>2
  <2> QED
    BY <2>2, <2>3, <2>4
<1> QED
  BY <1>5, <1>6 DEF Next, tallyProcessing, StartTally, TallySlot, history

-----------------------------------------------------------------------------
(* Safe *)
LEMMA SafeInit == Init => Safe
<1> SUFFICES ASSUME Init PROVE Safe
  OBVIOUS
<1>1. /\ \A t \in Tables, n \in Slots : At(t, n) = NULL
      /\ \A c \in Consumers : pc[c] = "idle" /\ visit[c] = NoVisit
      /\ waiting = Packets /\ freed = {} /\ duplicates = {} /\ tallied = -1
  BY EmptyTypes DEF Init, At
<1>2. TypeOK
  <2>1. Cardinality({}) = 0 /\ Packets \ waiting = {}
    BY <1>1, FS_EmptySet
  <2>2. Table \in [Tables -> [Slots -> PacketEntry]]
    BY EmptyTypes DEF Init
  <2>3. pc \in [Consumers -> Labels] /\ visit \in [Consumers -> HashOption]
    BY EmptyTypes DEF Init, Labels
  <2>4. TableLock \in [Tables -> BOOLEAN] /\ NextToReplace \in [Tables -> Slots]
    BY Sizes DEF Init
  <2>5. gPacketSeenCount = Cardinality(Packets \ waiting)
    BY <2>1 DEF Init
  <2>6. tallied \in -1 .. SmallTableSize
    BY <1>1, Sizes
  <2> QED
    BY <1>1, <2>2, <2>3, <2>4, <2>5, <2>6 DEF TypeOK
<1>3. Popped /\ TallyLast
  BY <1>1 DEF Init, Popped, TallyLast, Working
<1>4. FilledFromFront /\ Apart /\ Undisturbed
  BY <1>1 DEF FilledFromFront, Apart, Undisturbed, Crashed, Working, Inside
<1>5. OnePlace
  BY <1>1, Sizes DEF OnePlace, Carries, Stale
<1>6. Different /\ Repeated
  BY <1>1 DEF Different, Repeated, Carries
<1> QED
  BY <1>2, <1>3, <1>4, <1>5, <1>6 DEF Safe

LEMMA SafeStep == Safe /\ [Next]_vars => Safe'
<1>1. CASE Next
  BY <1>1, TypeStep, PoppedStep, TallyLastStep, FrontStep, ApartStep, UndisturbedStep,
     OnePlaceStep, DifferentStep, RepeatedStep
  DEF Safe
<1>2. ASSUME Safe, UNCHANGED vars
      PROVE  Safe'
  <2>1. TypeOK'
    BY <1>2, TypeStep DEF Safe
  <2>2. (Popped /\ TallyLast /\ FilledFromFront)'
    <3>1. UNCHANGED <<Table, pc, visit, NextToReplace, waiting, tallied>>
      BY <1>2 DEF vars, tableVars, scanVars, history
    <3>2. Popped'
      BY <1>2, <3>1 DEF Safe, Popped, Working, At, hash
    <3>3. TallyLast'
      BY <1>2, <3>1 DEF Safe, TallyLast, Working
    <3>4. FilledFromFront'
      <4>1. \A t, n : At(t, n)' = At(t, n) /\ (Filled(t, n)' <=> Filled(t, n))
        BY <3>1 DEF At, Filled
      <4>2. (Crashed' <=> Crashed) /\ \A c \in Consumers : Working(c)' <=> Working(c)
        BY <3>1 DEF Crashed, Working
      <4>3. SUFFICES ASSUME tallied = -1, ~Crashed
                     PROVE  FilledFromFront'
        BY <3>1, <4>2 DEF FilledFromFront
      <4>4. ASSUME NEW t \in Tables, NEW n \in Slots, At(t, n)' # NULL, NEW m \in 0 .. n - 1
            PROVE  Filled(t, m)'
        BY <1>2, <4>1, <4>3, <4>4 DEF Safe, FilledFromFront
      <4>5. ASSUME NEW c \in Consumers
            PROVE  (/\ Working(c) => \A m \in 0 .. visit[c].j - 1 : Filled(visit[c].Table, m)
                    /\ pc[c] \in {"compare", "hit"} => Filled(visit[c].Table, visit[c].j)
                    /\ pc[c] \in {"save", "discard", "clear", "replace"} =>
                         visit[c].j = SmallTableSize)'
        BY <1>2, <3>1, <4>1, <4>2, <4>3 DEF Safe, FilledFromFront
      <4> QED
        BY <4>4, <4>5 DEF FilledFromFront
    <3> QED
      BY <3>2, <3>3, <3>4
  <2>3. (Apart /\ Undisturbed /\ OnePlace)'
    BY <1>2 DEF vars, tableVars, history, Safe, Apart, Undisturbed, OnePlace, Crashed,
                Inside, Carries, Stale, At
  <2>4. (Different /\ Repeated)'
    <3>1. UNCHANGED <<Table, pc, visit, duplicates, overlap>>
      BY <1>2 DEF vars, tableVars, history
    <3>2. Different'
      <4>1. SUFFICES ASSUME ~overlap PROVE Different'
        BY <3>1 DEF Different
      <4>2. SameAt
        BY <3>1, NothingPut
      <4>3. ASSUME NEW t \in Tables
            PROVE  AllDifferent(t)'
        <5>1. AllDifferent(t)
          BY <1>2, <4>1 DEF Safe, Different, AllDifferent
        <5> QED
          BY <4>2, <5>1 DEF SameAt, AllDifferent, Same, Payload, PayloadSize
      <4>4. ASSUME NEW c \in Consumers
            PROVE  PassedDifferent(c)'
        <5>1. PICK v : v = visit[c]
          OBVIOUS
        <5>2. Carries(c) => \A n \in 0 .. v.j - 1 :
                At(v.Table, n) # NULL => ~Same(v.pPacket, At(v.Table, n))
          BY <1>2, <4>1, <5>1 DEF Safe, Different
        <5>3. visit'[c] = v /\ (Carries(c)' <=> Carries(c))
          BY <3>1, <5>1 DEF Carries
        <5>4. \A n : At(v.Table, n)' = At(v.Table, n)
          BY <3>1 DEF At
        <5>5. ASSUME Carries(c), NEW n \in 0 .. v.j - 1, At(v.Table, n)' # NULL
              PROVE  ~Same(v.pPacket, At(v.Table, n)')
          BY <5>2, <5>4, <5>5
        <5>6. PassedDifferent(c)' <=>
                (Carries(c)' => \A n \in 0 .. visit'[c].j - 1 :
                   Table'[visit'[c].Table][n].ThePacket # NULL =>
                     ~Same(visit'[c].pPacket, Table'[visit'[c].Table][n].ThePacket))
          BY Zenon DEF PassedDifferent, At, Same, Payload, PayloadSize
        <5> QED
          BY <5>3, <5>5, <5>6 DEF At
      <4> QED
        BY <4>3, <4>4 DEF Different, AllDifferent, PassedDifferent
    <3>3. Repeated'
      <4>1. SUFFICES ASSUME ~overlap PROVE Repeated'
        BY <3>1 DEF Repeated
      <4>2. \A d \in duplicates' : Repetition(d[1], d[2])
        BY <1>2, <3>1, <4>1 DEF Safe, Repeated
      <4>3. ASSUME NEW c \in Consumers, pc'[c] = "hit"
            PROVE  Repetition(visit'[c].pPacket, visit'[c].entry.ThePacket)
        BY <1>2, <3>1, <4>1, <4>3 DEF Safe, Repeated
      <4> QED
        BY <4>2, <4>3 DEF Repeated, Repetition, Payload, PayloadSize
    <3> QED
      BY <3>2, <3>3
  <2> QED
    BY <2>1, <2>2, <2>3, <2>4 DEF Safe
<1> QED
  BY <1>1, <1>2

\* The statistics of the packets seen are of the packets popped, only those are
\* freed, and no consumer leaves the slots of its table.
THEOREM SpecSafe == Spec => []Safe
BY SafeInit, SafeStep, PTL DEF Spec

THEOREM SpecTypeOK == Spec => []TypeOK
<1>1. Safe => TypeOK
  BY DEF Safe
<1> QED
  BY <1>1, SpecSafe, PTL

\* Whatever the consumers do to one another, a table none of them is in is filled
\* from slot 0 up, so that an empty slot does end the search.
THEOREM SpecNoGaps == Spec => []NoGaps
<1>1. Safe => NoGaps
  <2> SUFFICES ASSUME Safe, NEW t \in Tables, tallied = -1, ~Crashed, In(t) = {},
                      NEW n \in Slots \ {0}, Table[t][n].ThePacket # NULL
               PROVE  Table[t][n - 1].ThePacket # NULL
    BY DEF NoGaps
  <2>1. n - 1 \in 0 .. n - 1
    BY Sizes
  <2>2. Filled(t, n - 1)
    BY <2>1 DEF Safe, FilledFromFront, At
  <2>3. ~ \E c \in Consumers : pc[c] = "replace" /\ visit[c].Table = t
    BY DEF In
  <2> QED
    BY <2>2, <2>3 DEF Filled, At
<1> QED
  BY <1>1, SpecSafe, PTL

\* As long as no two consumers were in one table at a time, what is counted as
\* redundant repeats the payload it was counted on, headers of one length given.
THEOREM SpecHitsAreRepeats == Spec => []HitsAreRepeats
<1>1. Safe => HitsAreRepeats
  BY DEF Safe, Repeated, Repetition, HitsAreRepeats
<1> QED
  BY <1>1, SpecSafe, PTL

\* As long as no two consumers were in one table at a time, a table never keeps
\* two packets with one payload, and neither do two tables.
THEOREM SpecNoDuplicateKept == Spec => []NoDuplicateKept
<1>1. Safe => NoDuplicateKept
  <2> SUFFICES ASSUME Safe, Quiet, ~overlap, NEW e \in Entries, NEW f \in Entries, e # f,
                      Same(Table[e[1]][e[2]].ThePacket, Table[f[1]][f[2]].ThePacket)
               PROVE  FALSE
    BY DEF NoDuplicateKept, Same
  <2>1. PICK t \in Tables, n \in Slots : e = <<t, n>> /\ At(t, n) # NULL
    BY DEF Entries, At
  <2>2. PICK u \in Tables, m \in Slots : f = <<u, m>> /\ At(u, m) # NULL
    BY DEF Entries, At
  <2>3. Same(At(t, n), At(u, m))
    BY <2>1, <2>2 DEF At
  <2>4. hash(At(t, n)) = hash(At(u, m))
    BY <2>1, <2>2, <2>3, SameHash DEF Safe, Popped
  <2>5. t = u
    BY <2>1, <2>2, <2>4 DEF Safe, Popped
  <2>6. n # m
    BY <2>1, <2>2, <2>5
  <2> QED
    BY <2>1, <2>2, <2>3, <2>5, <2>6 DEF Safe, Different
<1> QED
  BY <1>1, SpecSafe, PTL

\* As long as no two consumers were in one table at a time, between two calls of
\* processPacket every packet is still to come, in one slot, or freed.
THEOREM SpecEveryPacketPlaced == Spec => []EveryPacketPlaced
<1>1. Safe => EveryPacketPlaced
  <2> DEFINE Held == {Table[e[1]][e[2]].ThePacket : e \in Entries}
  <2> SUFFICES ASSUME Safe, Quiet, ~overlap
               PROVE  /\ Packets = waiting \cup Held \cup freed
                      /\ waiting \cap Held = {} /\ Held \cap freed = {}
                      /\ Cardinality(Held) = Cardinality(Entries)
    BY DEF EveryPacketPlaced
  <2>1. \A c \in Consumers : ~Carries(c) /\ pc[c] # "clear"
    BY DEF Quiet, Carries
  <2>2. /\ \A p \in Packets : InPlace(p)
        /\ FreedShown /\ KeptOnce
    BY Placed DEF Safe
  <2>3. /\ \A t \in Tables, n \in Slots : At(t, n) # NULL => At(t, n) \in Packets \ waiting
        /\ freed \subseteq Packets \ waiting /\ waiting \subseteq Packets
        /\ NULL \notin Packets
    BY NotWaiting DEF Safe
  <2>4. \A e \in Entries : \E t \in Tables, n \in Slots :
          e = <<t, n>> /\ Table[e[1]][e[2]].ThePacket = At(t, n) /\ At(t, n) # NULL
    BY DEF Entries, At
  <2>5. ASSUME NEW t \in Tables, NEW n \in Slots, At(t, n) # NULL
        PROVE  At(t, n) \in Held
    <3>1. <<t, n>> \in Entries
      BY <2>5 DEF Entries, At
    <3> QED
      BY <3>1 DEF At
  <2>6. \A p \in Held : p \in Packets \ waiting /\ p \notin freed
    BY <2>1, <2>2, <2>3, <2>4 DEF FreedShown, Stale
  <2>7. ASSUME NEW p \in Packets
        PROVE  p \in waiting \cup Held \cup freed
    BY <2>1, <2>2, <2>3, <2>5 DEF InPlace
  <2>8. Cardinality(Held) = Cardinality(Entries)
    <3> DEFINE f == [e \in Entries |-> Table[e[1]][e[2]].ThePacket]
    <3>1. IsFiniteSet(Entries)
      <4>1. IsFiniteSet(Tables) /\ IsFiniteSet(Slots)
        <5>1. SmallTableSize - 1 \in Int /\ 0 \in Int /\ 3 \in Int
          BY Sizes
        <5> QED
          BY <5>1, Sizes, FS_Interval DEF Tables
      <4>2. IsFiniteSet(Tables \X Slots)
        BY <4>1, FS_Product
      <4> QED
        BY <4>2, FS_Subset DEF Entries
    <3>2. f \in Surjection(Entries, Held)
      BY DEF Surjection
    <3>3. f \in Injection(Entries, Held)
      <4>1. ASSUME NEW e \in Entries, NEW g \in Entries, f[e] = f[g]
            PROVE  e = g
        BY <2>2, <2>4, <4>1 DEF KeptOnce
      <4> QED
        <5> HIDE DEF f
        <5> QED
          BY <3>2, <4>1 DEF Injection, Surjection, IsInjective
    <3> HIDE DEF f, Held
    <3> QED
      BY <3>1, <3>2, <3>3, FS_Surjection
  <2> HIDE DEF Held
  <2> QED
    BY <2>3, <2>6, <2>7, <2>8
<1> QED
  BY <1>1, SpecSafe, PTL

-----------------------------------------------------------------------------
(* Sums over finite sets *)

\* Induction over the subsets of a finite set, without a predicate: a set of
\* subsets that has each whose proper subsets it has, has all of them.
LEMMA SubsetInduction ==
  ASSUME NEW S, IsFiniteSet(S), NEW P,
         \A T \in SUBSET S : (\A U \in SUBSET T : U # T => U \in P) => T \in P
  PROVE  SUBSET S \subseteq P
<1> DEFINE R == StrictSubsetOrdering(S)
           Q == {T \in SUBSET S : T \notin P}
<1>1. IsWellFoundedOn(R, SUBSET S)
  BY FS_StrictSubsetOrderingWellFounded, FS_FiniteSubsetsOfFinite
<1>2. SUFFICES ASSUME Q # {} PROVE FALSE
  OBVIOUS
<1>3. Q \subseteq SUBSET S
  OBVIOUS
<1> HIDE DEF Q
<1>4. PICK T \in Q : \A U \in Q : <<U, T>> \notin R
  <2> HIDE DEF R
  <2> QED  BY <1>1, <1>2, <1>3, WFMin
<1>5. T \in SUBSET S /\ T \notin P
  BY <1>4 DEF Q
<1>6. ASSUME NEW U \in SUBSET T, U # T
      PROVE  U \in P
  <2>1. <<U, T>> \in R
    BY <1>5, <1>6 DEF StrictSubsetOrdering
  <2> QED
    BY <1>4, <1>5, <2>1 DEF Q
<1> QED
  BY <1>5, <1>6

\* Step by step: the empty set, and each set with one element more
LEMMA GrowingInduction ==
  ASSUME NEW S, IsFiniteSet(S), NEW P, {} \in P,
         \A T \in SUBSET S : T \in P => \A x \in S \ T : T \cup {x} \in P
  PROVE  SUBSET S \subseteq P
<1>1. ASSUME NEW T \in SUBSET S, \A U \in SUBSET T : U # T => U \in P
      PROVE  T \in P
  <2>1. CASE T = {}
    BY <2>1
  <2>2. CASE T # {}
    <3>1. PICK x \in T : TRUE
      BY <2>2
    <3>2. T \ {x} \in SUBSET S /\ T \ {x} \in P /\ x \in S \ (T \ {x})
      BY <1>1, <3>1
    <3>3. (T \ {x}) \cup {x} \in P
      BY <3>2
    <3>4. (T \ {x}) \cup {x} = T
      BY <3>1
    <3> QED
      BY <3>3, <3>4
  <2> QED
    BY <2>1, <2>2
<1> QED
  BY <1>1, SubsetInduction

\* g is the function by which MapThenSumSet adds up the f[x], for x in S.
Some(s) == CHOOSE x \in s : TRUE

Adds(g, f, S) ==
  g = [s \in SUBSET S |-> IF s = {} THEN 0 ELSE f[Some(s)] + g[s \ {Some(s)}]]

LEMMA SomeIn ==
  ASSUME NEW s, s # {}
  PROVE  /\ Some(s) \in s /\ s \ {Some(s)} \in SUBSET s /\ s \ {Some(s)} # s
BY DEF Some

LEMMA AddsUnique ==
  ASSUME NEW S, IsFiniteSet(S), NEW f, NEW g, NEW T, NEW h, Adds(g, f, S), Adds(h, f, T)
  PROVE  \A s \in SUBSET S : s \in SUBSET T => g[s] = h[s]
<1> DEFINE P == {s \in SUBSET S : s \in SUBSET T => g[s] = h[s]}
<1>1. ASSUME NEW s \in SUBSET S, \A u \in SUBSET s : u # s => u \in P
      PROVE  s \in P
  <2> SUFFICES ASSUME s \in SUBSET T PROVE g[s] = h[s]
    OBVIOUS
  <2>1. /\ g[s] = IF s = {} THEN 0 ELSE f[Some(s)] + g[s \ {Some(s)}]
        /\ h[s] = IF s = {} THEN 0 ELSE f[Some(s)] + h[s \ {Some(s)}]
    BY DEF Adds
  <2>2. CASE s = {}
    BY <2>1, <2>2
  <2>3. CASE s # {}
    <3>1. g[s \ {Some(s)}] = h[s \ {Some(s)}]
      BY <1>1, <2>3, SomeIn
    <3> QED
      BY <2>1, <2>3, <3>1
  <2> QED
    BY <2>2, <2>3
<1> HIDE DEF P
<1>2. SUBSET S \subseteq P
  BY <1>1, SubsetInduction
<1> QED
  BY <1>2 DEF P

LEMMA AddsExists ==
  ASSUME NEW S, IsFiniteSet(S), NEW f
  PROVE  \E g : Adds(g, f, S)
<1> DEFINE P == {T \in SUBSET S : \E g : Adds(g, f, T)}
           G(T) == CHOOSE g : Adds(g, f, T)
<1>1. ASSUME NEW T \in SUBSET S, \A U \in SUBSET T : U # T => U \in P
      PROVE  T \in P
  <2> DEFINE g == [s \in SUBSET T |->
                     IF s = {} THEN 0 ELSE f[Some(s)] + G(s \ {Some(s)})[s \ {Some(s)}]]
  <2>1. ASSUME NEW u \in SUBSET T, u # T
        PROVE  Adds(G(u), f, u)
    BY <1>1, <2>1
  <2>2. ASSUME NEW u \in SUBSET T, u # T
        PROVE  g[u] = G(u)[u]
    <3>1. G(u)[u] = IF u = {} THEN 0 ELSE f[Some(u)] + G(u)[u \ {Some(u)}]
      <4> HIDE DEF G
      <4> QED
        BY <2>1, <2>2 DEF Adds
    <3>2. CASE u = {}
      BY <3>1, <3>2
    <3>3. CASE u # {}
      <4> DEFINE w == u \ {Some(u)}
      <4>1. w \in SUBSET u /\ w \in SUBSET T /\ w # T
        BY <2>2, <3>3, SomeIn
      <4>2. Adds(G(w), f, w) /\ Adds(G(u), f, u) /\ IsFiniteSet(w)
        <5>1. w \in SUBSET S
          BY <4>1
        <5> HIDE DEF w
        <5> QED
          BY <2>1, <2>2, <4>1, <5>1, FS_Subset
      <4>3. G(w)[w] = G(u)[w]
        <5> HIDE DEF w, G
        <5> QED
          BY <4>1, <4>2, AddsUnique
      <4> QED
        BY <3>1, <3>3, <4>3
    <3> QED
      BY <3>2, <3>3
  <2>3. \A s \in SUBSET T : s # {} => g[s \ {Some(s)}] = G(s \ {Some(s)})[s \ {Some(s)}]
    <3> HIDE DEF g, G
    <3>1. ASSUME NEW s \in SUBSET T, s # {}
          PROVE  g[s \ {Some(s)}] = G(s \ {Some(s)})[s \ {Some(s)}]
      <4>1. s \ {Some(s)} \in SUBSET T /\ s \ {Some(s)} # T
        BY <3>1, SomeIn
      <4> QED
        BY <2>2, <4>1
    <3> QED
      BY <3>1
  <2>4. g = [s \in SUBSET T |-> IF s = {} THEN 0 ELSE f[Some(s)] + g[s \ {Some(s)}]]
    <3>0. \A s \in SUBSET T :
            g[s] = IF s = {} THEN 0 ELSE f[Some(s)] + G(s \ {Some(s)})[s \ {Some(s)}]
      <4> HIDE DEF G
      <4> QED
        OBVIOUS
    <3>1. \A s \in SUBSET T : g[s] = IF s = {} THEN 0 ELSE f[Some(s)] + g[s \ {Some(s)}]
      <4> HIDE DEF g, G
      <4> QED
        BY <2>3, <3>0
    <3>2. g = [s \in SUBSET T |-> g[s]]
      OBVIOUS
    <3> HIDE DEF g
    <3> QED
      BY <3>1, <3>2
  <2>5. Adds(g, f, T)
    <3> HIDE DEF g
    <3> QED
      BY <2>4 DEF Adds
  <2> QED
    BY <2>5
<1> HIDE DEF P
<1>2. SUBSET S \subseteq P
  BY <1>1, SubsetInduction
<1> QED
  BY <1>2 DEF P

\* the sum of the f[x], for x in S
Total(f, S) == (CHOOSE g : Adds(g, f, S))[S]

LEMMA TotalIs ==
  ASSUME NEW S, IsFiniteSet(S), NEW f, NEW g, Adds(g, f, S)
  PROVE  \A T \in SUBSET S : Total(f, T) = g[T]
<1> SUFFICES ASSUME NEW T \in SUBSET S PROVE Total(f, T) = g[T]
  OBVIOUS
<1>1. IsFiniteSet(T)
  BY FS_Subset
<1>2. PICK h : h = CHOOSE k : Adds(k, f, T)
  OBVIOUS
<1>3. Adds(h, f, T)
  BY <1>1, <1>2, AddsExists
<1>4. h[T] = g[T]
  BY <1>1, <1>3, AddsUnique
<1> QED
  BY <1>2, <1>4 DEF Total

LEMMA TotalNone ==
  ASSUME NEW f
  PROVE  Total(f, {}) = 0
<1>1. IsFiniteSet({})
  BY FS_EmptySet
<1>2. PICK g : Adds(g, f, {})
  BY <1>1, AddsExists
<1>3. g[{}] = 0
  BY <1>2 DEF Adds
<1> QED
  BY <1>1, <1>2, <1>3, TotalIs

LEMMA TotalInt ==
  ASSUME NEW S, IsFiniteSet(S), NEW f, \A x \in S : f[x] \in Int
  PROVE  \A T \in SUBSET S : Total(f, T) \in Int
<1>1. PICK g : Adds(g, f, S)
  BY AddsExists
<1> DEFINE P == {T \in SUBSET S : g[T] \in Int}
<1>2. ASSUME NEW T \in SUBSET S, \A U \in SUBSET T : U # T => U \in P
      PROVE  T \in P
  <2>1. g[T] = IF T = {} THEN 0 ELSE f[Some(T)] + g[T \ {Some(T)}]
    BY <1>1 DEF Adds
  <2>2. CASE T # {}
    BY <1>2, <2>1, <2>2, SomeIn
  <2> QED
    BY <2>1, <2>2
<1> HIDE DEF P
<1>3. SUBSET S \subseteq P
  BY <1>2, SubsetInduction
<1> QED
  BY <1>1, <1>3, TotalIs DEF P

LEMMA TotalWith ==
  ASSUME NEW S, IsFiniteSet(S), NEW f, \A x \in S : f[x] \in Int
  PROVE  \A T \in SUBSET S : \A x \in S \ T : Total(f, T \cup {x}) = f[x] + Total(f, T)
<1>1. PICK g : Adds(g, f, S)
  BY AddsExists
<1>2. \A T \in SUBSET S : Total(f, T) = g[T] /\ g[T] \in Int
  BY <1>1, TotalIs, TotalInt
<1> DEFINE P == {T \in SUBSET S : \A x \in S \ T : g[T \cup {x}] = f[x] + g[T]}
<1>3. ASSUME NEW T \in SUBSET S, \A U \in SUBSET T : U # T => U \in P
      PROVE  T \in P
  <2> SUFFICES ASSUME NEW x \in S \ T PROVE g[T \cup {x}] = f[x] + g[T]
    OBVIOUS
  <2> DEFINE W == T \cup {x}
  <2>1. PICK y : y = Some(W)
    OBVIOUS
  <2>2. W \in SUBSET S /\ W # {} /\ y \in W
    BY <2>1, SomeIn
  <2>3. g[W] = f[y] + g[W \ {y}]
    <3> HIDE DEF W
    <3> QED
      BY <1>1, <2>1, <2>2 DEF Adds
  <2>4. CASE y = x
    <3>1. W \ {y} = T
      BY <2>4
    <3> QED
      BY <2>3, <2>4, <3>1
  <2>5. CASE y # x
    <3> DEFINE U == T \ {y}
    <3>1. /\ y \in T /\ U \in SUBSET T /\ U # T /\ U \in SUBSET S
          /\ x \in S \ U /\ y \in S \ U
          /\ W \ {y} = U \cup {x} /\ U \cup {y} = T
      BY <2>2, <2>5
    <3>2. U \in P
      BY <1>3, <3>1
    <3>3. g[U \cup {x}] = f[x] + g[U] /\ g[U \cup {y}] = f[y] + g[U]
      BY <3>1, <3>2
    <3>4. f[x] \in Int /\ f[y] \in Int /\ g[U] \in Int
      BY <1>2, <3>1
    <3> HIDE DEF U, W, P
    <3>5. g[W] = f[y] + (f[x] + g[U]) /\ g[T] = f[y] + g[U]
      BY <2>3, <3>1, <3>3
    <3>6. g[W] = f[x] + g[T]
      BY <3>4, <3>5
    <3> QED
      BY <3>6 DEF W
  <2> QED
    BY <2>4, <2>5
<1> HIDE DEF P
<1>4. SUBSET S \subseteq P
  BY <1>3, SubsetInduction
<1>5. \A T \in SUBSET S : \A x \in S \ T : g[T \cup {x}] = f[x] + g[T]
  BY <1>4 DEF P
<1> QED
  BY <1>2, <1>5

\* one element of the set apart
LEMMA TotalApart ==
  ASSUME NEW S, IsFiniteSet(S), NEW f, \A x \in S : f[x] \in Int, NEW x \in S
  PROVE  Total(f, S) = f[x] + Total(f, S \ {x})
<1>1. S \ {x} \in SUBSET S /\ x \in S \ (S \ {x}) /\ (S \ {x}) \cup {x} = S
  OBVIOUS
<1> QED
  BY <1>1, TotalWith

LEMMA TotalSame ==
  ASSUME NEW S, IsFiniteSet(S), NEW f, NEW h, \A x \in S : f[x] = h[x]
  PROVE  Total(f, S) = Total(h, S)
<1>1. PICK g : Adds(g, f, S)
  BY AddsExists
<1>2. \A s \in SUBSET S : s # {} => f[Some(s)] = h[Some(s)]
  BY SomeIn
<1>3. Adds(g, h, S)
  BY <1>1, <1>2 DEF Adds
<1> QED
  BY <1>1, <1>3, TotalIs

\* The sum over a part of the set, and over the rest
LEMMA TotalParts ==
  ASSUME NEW S, IsFiniteSet(S), NEW f, \A x \in S : f[x] \in Int, NEW T \in SUBSET S
  PROVE  Total(f, S) = Total(f, T) + Total(f, S \ T)
<1> DEFINE P == {U \in SUBSET S : Total(f, U) = Total(f, U \cap T) + Total(f, U \ T)}
<1>1. \A U \in SUBSET S : Total(f, U) \in Int
  BY TotalInt
<1>2. {} \in P
  <2>1. {} \cap T = {} /\ {} \ T = {}
    OBVIOUS
  <2> QED
    BY <2>1, TotalNone
<1>0. \A U \in SUBSET S : \A x \in S \ U : Total(f, U \cup {x}) = f[x] + Total(f, U)
  BY TotalWith
<1>3. ASSUME NEW U \in SUBSET S, U \in P, NEW x \in S \ U
      PROVE  U \cup {x} \in P
  <2>1. Total(f, U \cup {x}) = f[x] + Total(f, U)
    BY <1>0
  <2>2. /\ U \cap T \in SUBSET S /\ U \ T \in SUBSET S
        /\ x \in S \ (U \cap T) /\ x \in S \ (U \ T)
    OBVIOUS
  <2>3. /\ Total(f, (U \cap T) \cup {x}) = f[x] + Total(f, U \cap T)
        /\ Total(f, (U \ T) \cup {x}) = f[x] + Total(f, U \ T)
    <3>1. PICK V, W : V = U \cap T /\ W = U \ T
      OBVIOUS
    <3> QED
      BY <1>0, <2>2, <3>1
  <2>4. /\ f[x] \in Int /\ Total(f, U) \in Int
        /\ Total(f, U \cap T) \in Int /\ Total(f, U \ T) \in Int
    BY <1>1, <2>2
  <2>5. Total(f, U) = Total(f, U \cap T) + Total(f, U \ T)
    BY <1>3
  <2>6. CASE x \in T
    <3>1. (U \cup {x}) \cap T = (U \cap T) \cup {x} /\ (U \cup {x}) \ T = U \ T
      BY <2>6
    <3>2. /\ Total(f, (U \cup {x}) \cap T) = f[x] + Total(f, U \cap T)
          /\ Total(f, (U \cup {x}) \ T) = Total(f, U \ T)
      BY <2>3, <3>1
    <3>3. Total(f, U \cup {x})
            = Total(f, (U \cup {x}) \cap T) + Total(f, (U \cup {x}) \ T)
      BY <2>1, <2>4, <2>5, <3>2
    <3> QED
      BY <3>3
  <2>7. CASE x \notin T
    <3>1. (U \cup {x}) \cap T = U \cap T /\ (U \cup {x}) \ T = (U \ T) \cup {x}
      BY <2>7
    <3>2. /\ Total(f, (U \cup {x}) \cap T) = Total(f, U \cap T)
          /\ Total(f, (U \cup {x}) \ T) = f[x] + Total(f, U \ T)
      BY <2>3, <3>1
    <3>3. Total(f, U \cup {x})
            = Total(f, (U \cup {x}) \cap T) + Total(f, (U \cup {x}) \ T)
      BY <2>1, <2>4, <2>5, <3>2
    <3> QED
      BY <3>3
  <2> QED
    BY <2>6, <2>7
<1> HIDE DEF P
<1>4. S \in P
  BY <1>2, <1>3, GrowingInduction
<1>5. S \cap T = T
  OBVIOUS
<1> QED
  BY <1>4, <1>5 DEF P

\* Larger numbers have a larger sum; natural numbers have a natural one.
LEMMA TotalLarger ==
  ASSUME NEW S, IsFiniteSet(S), NEW f, NEW h,
         \A x \in S : f[x] \in Int /\ h[x] \in Int /\ f[x] <= h[x]
  PROVE  Total(f, S) <= Total(h, S)
<1> DEFINE P == {U \in SUBSET S : Total(f, U) <= Total(h, U)}
<1>1. {} \in P
  BY TotalNone
<1>2. ASSUME NEW U \in SUBSET S, U \in P, NEW x \in S \ U
      PROVE  U \cup {x} \in P
  <2>1. /\ Total(f, U \cup {x}) = f[x] + Total(f, U)
        /\ Total(h, U \cup {x}) = h[x] + Total(h, U)
    BY TotalWith
  <2>2. Total(f, U) \in Int /\ Total(h, U) \in Int /\ Total(f, U) <= Total(h, U)
    BY <1>2, TotalInt
  <2> QED
    BY <2>1, <2>2
<1> HIDE DEF P
<1>3. S \in P
  BY <1>1, <1>2, GrowingInduction
<1> QED
  BY <1>3 DEF P

LEMMA TotalNat ==
  ASSUME NEW S, IsFiniteSet(S), NEW f, \A x \in S : f[x] \in Nat
  PROVE  Total(f, S) \in Nat
<1> DEFINE P == {U \in SUBSET S : Total(f, U) \in Nat}
<1>1. {} \in P
  BY TotalNone
<1>2. ASSUME NEW U \in SUBSET S, U \in P, NEW x \in S \ U
      PROVE  U \cup {x} \in P
  BY <1>2, TotalWith
<1> HIDE DEF P
<1>3. S \in P
  BY <1>1, <1>2, GrowingInduction
<1> QED
  BY <1>3 DEF P

\* The sum over a set of pairs with one second component
Pairs(S, n) == {<<t, n>> : t \in S}

LEMMA TotalColumn ==
  ASSUME NEW S, IsFiniteSet(S), NEW n, NEW f, NEW h,
         \A t \in S : h[t] \in Int,
         \A t \in S : f[<<t, n>>] = h[t]
  PROVE  Total(f, Pairs(S, n)) = Total(h, S)
<1> DEFINE C(U) == {<<t, n>> : t \in U}
           P == {U \in SUBSET S : IsFiniteSet(C(U)) /\ Total(f, C(U)) = Total(h, U)}
<1>1. {} \in P
  <2>1. C({}) = {}
    OBVIOUS
  <2> QED
    BY <2>1, TotalNone, FS_EmptySet
<1>2. ASSUME NEW U \in SUBSET S, U \in P, NEW x \in S \ U
      PROVE  U \cup {x} \in P
  <2>1. \A t \in S : h[t] \in Int
    OBVIOUS
  <2>2. Total(h, U \cup {x}) = h[x] + Total(h, U)
    BY <2>1, TotalWith
  <2>3. PICK V : V = C(U \cup {x})
    OBVIOUS
  <2>4. <<x, n>> \in V /\ V \ {<<x, n>>} = C(U) /\ V = C(U) \cup {<<x, n>>}
    BY <2>3
  <2>5. \A e \in V : f[e] \in Int
    BY <2>3
  <2>6. IsFiniteSet(C(U)) /\ Total(f, C(U)) = Total(h, U) /\ f[<<x, n>>] = h[x]
    BY <1>2
  <2> HIDE DEF C
  <2>7. IsFiniteSet(V)
    BY <2>4, <2>6, FS_AddElement
  <2>8. Total(f, V) = h[x] + Total(h, U)
    BY <2>4, <2>5, <2>6, <2>7, TotalApart
  <2> QED
    BY <2>2, <2>3, <2>7, <2>8
<1> HIDE DEF P
<1>3. S \in P
  BY <1>1, <1>2, GrowingInduction
<1>4. Pairs(S, n) = C(S)
  BY DEF Pairs
<1> HIDE DEF C
<1> QED
  BY <1>3, <1>4 DEF P

-----------------------------------------------------------------------------
(* The sums of the model *)

\* What the model adds up is Total of the same numbers.
HitSum(tb, S) == MapThenSumSet(LAMBDA e : tb[e[1]][e[2]].HitCount, S)
ByteSum(tb, S) == MapThenSumSet(LAMBDA e : tb[e[1]][e[2]].RedundantBytes, S)
ColumnHits(tb, n, S) == MapThenSumSet(LAMBDA t : tb[t][n].HitCount, S)
ColumnBytes(tb, n, S) == MapThenSumSet(LAMBDA t : tb[t][n].RedundantBytes, S)
PayloadSum(S) == MapThenSumSet(PayloadSize, S)
LengthSum(S) == MapThenSumSet(LAMBDA p : PacketInfo[p].LengthIncluded, S)

LEMMA HitSumIsTotal ==
  ASSUME NEW tb, NEW S, IsFiniteSet(S), NEW f, \A x \in S : f[x] = tb[x[1]][x[2]].HitCount
  PROVE  HitSum(tb, S) = Total(f, S)
<1> DEFINE B(h) == h = [s \in SUBSET S |->
                          IF s = {} THEN 0
                          ELSE tb[Some(s)[1]][Some(s)[2]].HitCount + h[s \ {Some(s)}]]
<1>1. HitSum(tb, S) = (CHOOSE h : B(h))[S]
  BY DEF HitSum, MapThenSumSet, MapThenFoldSet, Some
<1>2. ASSUME NEW h
      PROVE  B(h) <=> Adds(h, f, S)
  <2>1. \A s \in SUBSET S : s # {} => f[Some(s)] = tb[Some(s)[1]][Some(s)[2]].HitCount
    BY SomeIn
  <2> QED
    BY <2>1 DEF Adds
<1>3. PICK g : Adds(g, f, S)
  BY AddsExists
<1> HIDE DEF B
<1>4. Adds(CHOOSE h : B(h), f, S)
  BY <1>2, <1>3
<1> QED
  BY <1>1, <1>4, TotalIs

LEMMA ByteSumIsTotal ==
  ASSUME NEW tb, NEW S, IsFiniteSet(S), NEW f, \A x \in S : f[x] = tb[x[1]][x[2]].RedundantBytes
  PROVE  ByteSum(tb, S) = Total(f, S)
<1> DEFINE B(h) == h = [s \in SUBSET S |->
                          IF s = {} THEN 0
                          ELSE tb[Some(s)[1]][Some(s)[2]].RedundantBytes + h[s \ {Some(s)}]]
<1>1. ByteSum(tb, S) = (CHOOSE h : B(h))[S]
  BY DEF ByteSum, MapThenSumSet, MapThenFoldSet, Some
<1>2. ASSUME NEW h
      PROVE  B(h) <=> Adds(h, f, S)
  <2>1. \A s \in SUBSET S : s # {} => f[Some(s)] = tb[Some(s)[1]][Some(s)[2]].RedundantBytes
    BY SomeIn
  <2> QED
    BY <2>1 DEF Adds
<1>3. PICK g : Adds(g, f, S)
  BY AddsExists
<1> HIDE DEF B
<1>4. Adds(CHOOSE h : B(h), f, S)
  BY <1>2, <1>3
<1> QED
  BY <1>1, <1>4, TotalIs

LEMMA ColumnHitsIsTotal ==
  ASSUME NEW tb, NEW n, NEW S, IsFiniteSet(S), NEW f, \A x \in S : f[x] = tb[x][n].HitCount
  PROVE  ColumnHits(tb, n, S) = Total(f, S)
<1> DEFINE B(h) == h = [s \in SUBSET S |->
                          IF s = {} THEN 0
                          ELSE tb[Some(s)][n].HitCount + h[s \ {Some(s)}]]
<1>1. ColumnHits(tb, n, S) = (CHOOSE h : B(h))[S]
  BY DEF ColumnHits, MapThenSumSet, MapThenFoldSet, Some
<1>2. ASSUME NEW h
      PROVE  B(h) <=> Adds(h, f, S)
  <2>1. \A s \in SUBSET S : s # {} => f[Some(s)] = tb[Some(s)][n].HitCount
    BY SomeIn
  <2> QED
    BY <2>1 DEF Adds
<1>3. PICK g : Adds(g, f, S)
  BY AddsExists
<1> HIDE DEF B
<1>4. Adds(CHOOSE h : B(h), f, S)
  BY <1>2, <1>3
<1> QED
  BY <1>1, <1>4, TotalIs

LEMMA ColumnBytesIsTotal ==
  ASSUME NEW tb, NEW n, NEW S, IsFiniteSet(S), NEW f, \A x \in S : f[x] = tb[x][n].RedundantBytes
  PROVE  ColumnBytes(tb, n, S) = Total(f, S)
<1> DEFINE B(h) == h = [s \in SUBSET S |->
                          IF s = {} THEN 0
                          ELSE tb[Some(s)][n].RedundantBytes + h[s \ {Some(s)}]]
<1>1. ColumnBytes(tb, n, S) = (CHOOSE h : B(h))[S]
  BY DEF ColumnBytes, MapThenSumSet, MapThenFoldSet, Some
<1>2. ASSUME NEW h
      PROVE  B(h) <=> Adds(h, f, S)
  <2>1. \A s \in SUBSET S : s # {} => f[Some(s)] = tb[Some(s)][n].RedundantBytes
    BY SomeIn
  <2> QED
    BY <2>1 DEF Adds
<1>3. PICK g : Adds(g, f, S)
  BY AddsExists
<1> HIDE DEF B
<1>4. Adds(CHOOSE h : B(h), f, S)
  BY <1>2, <1>3
<1> QED
  BY <1>1, <1>4, TotalIs

LEMMA PayloadSumIsTotal ==
  ASSUME NEW S, IsFiniteSet(S), NEW f, \A x \in S : f[x] = PayloadSize(x)
  PROVE  PayloadSum(S) = Total(f, S)
<1> DEFINE B(h) == h = [s \in SUBSET S |->
                          IF s = {} THEN 0
                          ELSE PayloadSize(Some(s)) + h[s \ {Some(s)}]]
<1>1. PayloadSum(S) = (CHOOSE h : B(h))[S]
  BY DEF PayloadSum, MapThenSumSet, MapThenFoldSet, Some
<1>2. ASSUME NEW h
      PROVE  B(h) <=> Adds(h, f, S)
  <2>1. \A s \in SUBSET S : s # {} => f[Some(s)] = PayloadSize(Some(s))
    BY SomeIn
  <2> QED
    BY <2>1 DEF Adds
<1>3. PICK g : Adds(g, f, S)
  BY AddsExists
<1> HIDE DEF B
<1>4. Adds(CHOOSE h : B(h), f, S)
  BY <1>2, <1>3
<1> QED
  BY <1>1, <1>4, TotalIs

LEMMA LengthSumIsTotal ==
  ASSUME NEW S, IsFiniteSet(S), NEW f, \A x \in S : f[x] = PacketInfo[x].LengthIncluded
  PROVE  LengthSum(S) = Total(f, S)
<1> DEFINE B(h) == h = [s \in SUBSET S |->
                          IF s = {} THEN 0
                          ELSE PacketInfo[Some(s)].LengthIncluded + h[s \ {Some(s)}]]
<1>1. LengthSum(S) = (CHOOSE h : B(h))[S]
  BY DEF LengthSum, MapThenSumSet, MapThenFoldSet, Some
<1>2. ASSUME NEW h
      PROVE  B(h) <=> Adds(h, f, S)
  <2>1. \A s \in SUBSET S : s # {} => f[Some(s)] = PacketInfo[Some(s)].LengthIncluded
    BY SomeIn
  <2> QED
    BY <2>1 DEF Adds
<1>3. PICK g : Adds(g, f, S)
  BY AddsExists
<1> HIDE DEF B
<1>4. Adds(CHOOSE h : B(h), f, S)
  BY <1>2, <1>3
<1> QED
  BY <1>1, <1>4, TotalIs

Hits(tb) == [e \in Tables \X Slots |-> tb[e[1]][e[2]].HitCount]
Bytes(tb) == [e \in Tables \X Slots |-> tb[e[1]][e[2]].RedundantBytes]
PayloadSizes == [p \in Packets |-> PayloadSize(p)]
Lengths == [p \in Packets |-> PacketInfo[p].LengthIncluded]

LEMMA FiniteSlots ==
  /\ IsFiniteSet(Tables) /\ IsFiniteSet(Tables \X Slots)
  /\ \A S \in SUBSET (Tables \X Slots) : IsFiniteSet(S)
<1>1. IsFiniteSet(Tables) /\ IsFiniteSet(Slots)
  <2>1. SmallTableSize - 1 \in Int /\ 0 \in Int /\ 3 \in Int
    BY Sizes
  <2> QED
    BY <2>1, Sizes, FS_Interval DEF Tables
<1>2. IsFiniteSet(Tables \X Slots)
  BY <1>1, FS_Product
<1> QED
  BY <1>1, <1>2, FS_Subset

LEMMA SumsAreTotals ==
  ASSUME NEW tb, NEW S \in SUBSET (Tables \X Slots)
  PROVE  HitSum(tb, S) = Total(Hits(tb), S) /\ ByteSum(tb, S) = Total(Bytes(tb), S)
<1>1. IsFiniteSet(S)
  BY FiniteSlots
<1>2. /\ \A e \in S : Hits(tb)[e] = tb[e[1]][e[2]].HitCount
      /\ \A e \in S : Bytes(tb)[e] = tb[e[1]][e[2]].RedundantBytes
  BY DEF Hits, Bytes
<1> QED
  BY <1>1, <1>2, HitSumIsTotal, ByteSumIsTotal

LEMMA PayloadSums ==
  ASSUME NEW S \in SUBSET Packets
  PROVE  PayloadSum(S) = Total(PayloadSizes, S)
<1>1. IsFiniteSet(S)
  BY Sizes, FS_Subset
<1>2. \A p \in S : PayloadSizes[p] = PayloadSize(p)
  BY DEF PayloadSizes
<1> QED
  BY <1>1, <1>2, PayloadSumIsTotal

\* The counters are natural numbers, and so is what they add up to.
LEMMA CounterTypes ==
  ASSUME NEW tb \in [Tables -> [Slots -> PacketEntry]], NEW S \in SUBSET (Tables \X Slots)
  PROVE  /\ IsFiniteSet(S)
         /\ \A e \in S : Hits(tb)[e] \in Nat /\ Bytes(tb)[e] \in Nat
         /\ \A e \in S : Hits(tb)[e] \in Int /\ Bytes(tb)[e] \in Int
         /\ Total(Hits(tb), S) \in Nat /\ Total(Bytes(tb), S) \in Nat
<1>1. \A e \in S : Hits(tb)[e] \in Nat /\ Bytes(tb)[e] \in Nat
  <2>1. ASSUME NEW e \in S
        PROVE  tb[e[1]][e[2]] \in PacketEntry
    BY <2>1
  <2> QED
    BY <2>1 DEF Hits, Bytes, PacketEntry
<1>2. IsFiniteSet(S)
  BY FiniteSlots
<1> QED
  BY <1>1, <1>2, TotalNat

\* The parts of Accounted, with its sums as totals
FreeIsEmpty == \A t \in Tables, n \in Slots : At(t, n) = NULL => Table[t][n] = Empty

CountsOwn(c) ==
  /\ pc[c] = "hit" => visit[c].entry = Entry(c, visit[c].j)
  /\ pc[c] = "zero" => /\ Entry(c, visit[c].j).HitCount = 0
                       /\ Entry(c, visit[c].j).RedundantBytes = 0

DroppedFreed ==
  /\ gPacketHitCount \in Nat /\ gPacketHitBytes \in Nat
  /\ Dropped \subseteq freed /\ \A p \in Dropped : ~PacketInfo[p].ignored

Balanced ==
  /\ gPacketHitCount + Total(Hits(Table), Unsaved) = Cardinality(Dropped)
  /\ gPacketHitBytes + Total(Bytes(Table), Unsaved) = Total(PayloadSizes, Dropped)

LEMMA UnsavedSlots ==
  /\ Unsaved \subseteq Tables \X Slots /\ Entries \subseteq Tables \X Slots
  /\ \A t \in Tables, n \in Slots :
       <<t, n>> \in Unsaved <=> At(t, n) # NULL /\ ~Saved(t, n)
BY DEF Unsaved, Entries, At

LEMMA AccountedParts ==
  ASSUME TypeOK, Accounted, ~overlap
  PROVE  FreeIsEmpty /\ DroppedFreed /\ Balanced /\ \A c \in Consumers : CountsOwn(c)
<1>1. FreeIsEmpty /\ DroppedFreed /\ \A c \in Consumers : CountsOwn(c)
  BY DEF Accounted, FreeIsEmpty, DroppedFreed, CountsOwn
<1>2. /\ gPacketHitCount + HitSum(Table, Unsaved) = Cardinality(Dropped)
      /\ gPacketHitBytes + ByteSum(Table, Unsaved) = PayloadSum(Dropped)
  BY DEF Accounted, HitSum, ByteSum, PayloadSum
<1>3. Dropped \subseteq Packets
  BY <1>1 DEF DroppedFreed, TypeOK
<1> QED
  BY <1>1, <1>2, <1>3, UnsavedSlots, SumsAreTotals, PayloadSums DEF Balanced

LEMMA AccountedNext ==
  ASSUME TypeOK', FreeIsEmpty', DroppedFreed', Balanced', \A c \in Consumers : CountsOwn(c)'
  PROVE  Accounted'
<1>1. Dropped' \subseteq Packets
  BY DEF DroppedFreed, TypeOK
<1>2. Unsaved' \subseteq Tables \X Slots
  BY DEF Unsaved, Entries
<1>3. /\ gPacketHitCount' + HitSum(Table', Unsaved') = Cardinality(Dropped')
      /\ gPacketHitBytes' + ByteSum(Table', Unsaved') = PayloadSum(Dropped')
  BY <1>1, <1>2, SumsAreTotals, PayloadSums DEF Balanced
<1>4. (gPacketHitCount + MapThenSumSet(LAMBDA e : Table[e[1]][e[2]].HitCount, Unsaved)
         = Cardinality(Dropped))'
  BY <1>3 DEF HitSum, MapThenSumSet, MapThenFoldSet
<1>5. (gPacketHitBytes + MapThenSumSet(LAMBDA e : Table[e[1]][e[2]].RedundantBytes, Unsaved)
         = MapThenSumSet(PayloadSize, Dropped))'
  BY <1>3 DEF ByteSum, PayloadSum, MapThenSumSet, MapThenFoldSet
<1> QED
  BY <1>4, <1>5 DEF Accounted, FreeIsEmpty, DroppedFreed, CountsOwn

-----------------------------------------------------------------------------
(* What the actions do to the counters of the slots *)

\* c writes e into slot k of its table
Rewrites(c, k, e) ==
  \A t \in Tables, n \in Slots :
    Table'[t][n] = IF t = visit[c].Table /\ n = k THEN e ELSE Table[t][n]

LEMMA WriteRewrites ==
  ASSUME TypeOK, NEW c \in Consumers, NEW k \in Slots, NEW e, Write(c, k, e)
  PROVE  Rewrites(c, k, e)
BY DEF TypeOK, HashOption, Write, Rewrites

LEMMA EntryIs ==
  ASSUME TypeOK, NEW c \in Consumers, NEW k \in Slots
  PROVE  /\ Entry(c, k) = Table[visit[c].Table][k]
         /\ Entry(c, k) \in PacketEntry
         /\ Entry(c, k).ThePacket = At(visit[c].Table, k)
         /\ visit[c].entry \in PacketEntry
BY Located DEF TypeOK, HashOption, Entry, At

LEMMA NewPacket ==
  ASSUME NEW r \in PacketEntry, NEW p
  PROVE  [r EXCEPT !.ThePacket = p]
           = [ThePacket |-> p, HitCount |-> r.HitCount, RedundantBytes |-> r.RedundantBytes]
BY DEF PacketEntry

LEMMA HitRewrites ==
  ASSUME TypeOK, NEW c \in Consumers, Hit(c)
  PROVE  Rewrites(c, visit[c].j,
                  [ThePacket |-> At(visit[c].Table, visit[c].j),
                   HitCount |-> visit[c].entry.HitCount + 1,
                   RedundantBytes |-> visit[c].entry.RedundantBytes
                                        + PayloadSize(visit[c].pPacket)])
<1>1. visit[c].j \in Slots
  BY Located DEF Hit
<1> DEFINE r == Entry(c, visit[c].j)
           a == visit[c].entry.HitCount + 1
           b == visit[c].entry.RedundantBytes + PayloadSize(visit[c].pPacket)
<1>2. Write(c, visit[c].j, [[r EXCEPT !.HitCount = a] EXCEPT !.RedundantBytes = b])
  BY DEF Hit
<1>3. r \in PacketEntry /\ r.ThePacket = At(visit[c].Table, visit[c].j)
  BY <1>1, EntryIs
<1> HIDE DEF r, a, b
<1>4. Write(c, visit[c].j, [ThePacket |-> At(visit[c].Table, visit[c].j),
                            HitCount |-> a, RedundantBytes |-> b])
  BY <1>2, <1>3, NewCounters
<1>5. Rewrites(c, visit[c].j, [ThePacket |-> At(visit[c].Table, visit[c].j),
                               HitCount |-> a, RedundantBytes |-> b])
  BY <1>1, <1>4, WriteRewrites
<1> QED
  BY <1>5 DEF a, b

LEMMA ZeroRewrites ==
  ASSUME TypeOK, NEW c \in Consumers, ZeroCounters(c)
  PROVE  Rewrites(c, visit[c].j, [ThePacket |-> At(visit[c].Table, visit[c].j),
                                  HitCount |-> 0, RedundantBytes |-> 0])
<1>1. visit[c].j \in Slots
  BY Located DEF ZeroCounters
<1> DEFINE r == Entry(c, visit[c].j)
<1>2. Write(c, visit[c].j, [[r EXCEPT !.HitCount = 0] EXCEPT !.RedundantBytes = 0])
  BY DEF ZeroCounters
<1>3. r \in PacketEntry /\ r.ThePacket = At(visit[c].Table, visit[c].j)
  BY <1>1, EntryIs
<1> HIDE DEF r
<1>4. Write(c, visit[c].j, [ThePacket |-> At(visit[c].Table, visit[c].j),
                            HitCount |-> 0, RedundantBytes |-> 0])
  BY <1>2, <1>3, NewCounters
<1> QED
  BY <1>1, <1>4, WriteRewrites

\* Fill and Replace put the packet of c into a slot, the counters stay.
LEMMA StoreRewrites ==
  ASSUME TypeOK, Popped, NEW c \in Consumers, NEW k \in Slots,
         (Fill(c) /\ k = visit[c].j) \/ (Replace(c) /\ k = 0)
  PROVE  Rewrites(c, k, [ThePacket |-> visit[c].pPacket,
                         HitCount |-> Entry(c, k).HitCount,
                         RedundantBytes |-> Entry(c, k).RedundantBytes])
<1>1. Replace(c) => visit[c].NextToReplace = 0
  BY RotatesSlot0 DEF Replace, Working
<1>2. Write(c, k, [Entry(c, k) EXCEPT !.ThePacket = visit[c].pPacket])
  BY <1>1 DEF Fill, Replace
<1>3. Write(c, k, [ThePacket |-> visit[c].pPacket, HitCount |-> Entry(c, k).HitCount,
                   RedundantBytes |-> Entry(c, k).RedundantBytes])
  BY <1>2, EntryIs, NewPacket
<1> QED
  BY <1>3, WriteRewrites

LEMMA ClearRewrites ==
  ASSUME TypeOK, Popped, NEW c \in Consumers, ClearEntry(c)
  PROVE  Rewrites(c, 0, Empty)
<1>1. Write(c, 0, Empty)
  BY RotatesSlot0 DEF ClearEntry, Working
<1> QED
  BY <1>1, WriteRewrites, Sizes

\* All other actions leave the tables alone.
Writes(c) == Hit(c) \/ Fill(c) \/ ZeroCounters(c) \/ ClearEntry(c) \/ Replace(c)

LEMMA OtherwiseKept ==
  ASSUME TypeOK, Popped, NEW c \in Consumers, processPacket(c), ~Writes(c)
  PROVE  Table' = Table
BY DEF processPacket, Writes, Ignore, ChooseTable, tableVars, LockCopy, Look, Mismatch, Match,
       NoMatch, SaveEntry, DiscardEntry, Crash

LEMMA WritesInside ==
  ASSUME TypeOK, Popped, NEW c \in Consumers, Writes(c)
  PROVE  Inside(c) /\ \E k \in Slots : \E e : Rewrites(c, k, e)
<1>1. CASE Hit(c) \/ Fill(c) \/ ZeroCounters(c)
  <2>1. pc[c] \in {"hit", "fill", "zero"}
    BY <1>1 DEF Hit, Fill, ZeroCounters
  <2>2. visit[c].j \in Slots /\ Inside(c)
    BY <2>1, Located DEF Inside
  <2> QED
    BY <1>1, <2>2, HitRewrites, ZeroRewrites, StoreRewrites
<1>2. CASE ClearEntry(c) \/ Replace(c)
  <2>1. Inside(c)
    BY <1>2 DEF ClearEntry, Replace, Inside
  <2> QED
    BY <1>2, <2>1, Sizes, ClearRewrites, StoreRewrites
<1> QED
  BY <1>1, <1>2 DEF Writes

\* While c steps, no entry of the table of another consumer changes.
LEMMA OtherEntries ==
  ASSUME TypeOK, Popped, Apart, Undisturbed, OnePlace, ~overlap,
         NEW c \in Consumers, processPacket(c), NEW d \in Consumers \ {c}, Inside(d),
         NEW n \in Slots
  PROVE  Entry(d, n)' = Entry(d, n)
<1>1. PICK t \in Tables : t = visit[d].Table
  BY Located
<1>2. visit'[d].Table = t
  BY <1>1, NoCrashApart, Others
<1>3. Inside(c) => visit[c].Table # t
  BY <1>1 DEF Apart
<1>4. Table'[t][n] = Table[t][n]
  BY <1>3, OtherwiseKept, WritesInside DEF Rewrites
<1> QED
  BY <1>1, <1>2, <1>4 DEF Entry

-----------------------------------------------------------------------------
(* Accounted: the slots, and what was dropped *)
LEMMA FreeStep ==
  ASSUME TypeOK, Popped, Apart, Undisturbed, OnePlace, ~overlap, FreeIsEmpty, Next
  PROVE  FreeIsEmpty'
<1>1. CASE Table' = Table
  BY <1>1 DEF FreeIsEmpty, At
<1>2. ASSUME NEW c \in Consumers, Writes(c)
      PROVE  FreeIsEmpty'
  <2>1. PICK T \in Tables : T = visit[c].Table
    BY Located
  <2>2. ASSUME NEW k \in Slots, NEW e, Rewrites(c, k, e), e.ThePacket = NULL => e = Empty
        PROVE  FreeIsEmpty'
    BY <2>1, <2>2 DEF FreeIsEmpty, Rewrites, At
  <2>3. CASE Hit(c)
    <3>1. /\ pc[c] = "hit" /\ visit[c].j \in Slots
          /\ At(visit[c].Table, visit[c].j) # NULL
      BY <2>3, Located DEF Hit, Undisturbed
    <3> QED
      BY <2>2, <2>3, <3>1, HitRewrites
  <2>4. CASE ZeroCounters(c)
    <3>1. visit[c].j \in Slots
      BY <2>4, Located DEF ZeroCounters
    <3>2. [ThePacket |-> NULL, HitCount |-> 0, RedundantBytes |-> 0] = Empty
      BY DEF Empty
    <3> QED
      BY <2>2, <2>4, <3>1, <3>2, ZeroRewrites
  <2>5. CASE Fill(c)
    <3>1. visit[c].j \in Slots /\ visit[c].pPacket # NULL
      BY <2>5, Located, Sizes DEF Fill, Working
    <3> QED
      BY <2>2, <2>5, <3>1, StoreRewrites
  <2>6. CASE Replace(c)
    <3>1. visit[c].pPacket # NULL
      BY <2>6, Located, Sizes DEF Replace, Working
    <3> QED
      BY <2>2, <2>6, <3>1, StoreRewrites, Sizes
  <2>7. CASE ClearEntry(c)
    BY <2>2, <2>7, ClearRewrites, Sizes
  <2> QED
    BY <1>2, <2>3, <2>4, <2>5, <2>6, <2>7 DEF Writes
<1>3. CASE TallySlot
  <2>1. Table' = [t \in Tables |-> IF t \in Occupied(tallied)
                                   THEN [Table[t] EXCEPT ![tallied] = Empty] ELSE Table[t]]
    BY <1>3 DEF TallySlot
  <2>2. \A t \in Tables, n \in Slots : Table'[t][n] \in {Empty, Table[t][n]}
    BY <2>1 DEF TypeOK
  <2> QED
    BY <2>2 DEF FreeIsEmpty, At
<1> QED
  BY <1>1, <1>2, <1>3, OtherwiseKept DEF Next, tallyProcessing, StartTally

LEMMA CountsStep ==
  ASSUME TypeOK, Popped, TallyLast, Apart, Undisturbed, OnePlace, ~overlap, FreeIsEmpty,
         \A c \in Consumers : CountsOwn(c), Next, NEW d \in Consumers
  PROVE  CountsOwn(d)'
<1>1. CASE tallyProcessing
  <2>1. pc'[d] = "idle"
    BY <1>1 DEF tallyProcessing, StartTally, TallySlot, TallyLast, Slots
  <2> QED
    BY <2>1 DEF CountsOwn
<1>2. ASSUME NEW c \in Consumers, processPacket(c)
      PROVE  CountsOwn(d)'
  <2>1. ~Crash(c) /\ \A e \in Consumers : e # c => pc'[e] = pc[e] /\ visit'[e] = visit[e]
    BY <1>2, NoCrashApart, Others
  <2>2. CASE d # c
    <3>1. pc'[d] = pc[d] /\ visit'[d] = visit[d]
      BY <2>1, <2>2
    <3>2. CASE pc[d] \in {"hit", "zero"}
      <4>1. visit[d].j \in Slots /\ Inside(d)
        BY <3>2, Located DEF Inside
      <4>2. PICK n \in Slots : n = visit[d].j
        BY <4>1
      <4>3. Entry(d, n)' = Entry(d, n)
        BY <1>2, <2>2, <4>1, OtherEntries
      <4>4. CountsOwn(d)
        OBVIOUS
      <4>5. Entry(d, visit[d].j)' = Entry(d, visit[d].j)
        BY <3>1, <4>2, <4>3 DEF Entry
      <4> QED
        BY <3>1, <4>4, <4>5 DEF CountsOwn
    <3>3. CASE pc[d] \notin {"hit", "zero"}
      BY <3>1, <3>3 DEF CountsOwn
    <3> QED
      BY <3>2, <3>3
  <2>3. CASE d = c /\ Match(c)
    <3>1. /\ pc[c] = "compare" /\ pc'[c] = "hit" /\ Table' = Table
          /\ visit'[c].Table = visit[c].Table /\ visit'[c].j = visit[c].j
          /\ visit'[c].entry.ThePacket = visit[c].entry.ThePacket
          /\ visit'[c].entry.HitCount = Entry(c, visit[c].j).HitCount
          /\ visit'[c].entry.RedundantBytes = Entry(c, visit[c].j).RedundantBytes
          /\ visit'[c] \in HashOption
      BY <2>3, MatchEffect DEF MovesTo, Keeps
    <3>2. visit[c].j \in Slots
      BY <3>1, Located
    <3>3. visit[c].entry.ThePacket = Entry(c, visit[c].j).ThePacket
      BY <3>1, <3>2, SeesTheSame, EntryIs
    <3>4. Entry(c, visit[c].j) \in PacketEntry /\ visit'[c].entry \in PacketEntry
      BY <3>1, <3>2, EntryIs DEF HashOption
    <3>5. visit'[c].entry = Entry(c, visit[c].j)
      BY <3>1, <3>3, <3>4 DEF PacketEntry
    <3>6. Entry(c, visit[c].j)' = Entry(c, visit[c].j)
      BY <3>1 DEF Entry
    <3> QED
      BY <2>3, <3>1, <3>5, <3>6 DEF CountsOwn
  <2>4. CASE d = c /\ Fill(c)
    <3>1. /\ pc[c] = "fill" /\ pc'[c] = "zero" /\ visit' = visit
      BY <2>4, FillEffect DEF MovesTo
    <3>2. PICK k \in Slots : k = visit[c].j
      BY <3>1, Located
    <3>3. At(visit[c].Table, k) = NULL /\ visit[c].Table \in Tables
      BY <3>1, <3>2, Located DEF Undisturbed
    <3>4. Entry(c, k) = Empty
      BY <3>3, EntryIs DEF FreeIsEmpty
    <3>5. Table'[visit[c].Table][k] = [ThePacket |-> visit[c].pPacket,
                         HitCount |-> Entry(c, k).HitCount,
                         RedundantBytes |-> Entry(c, k).RedundantBytes]
      BY <2>4, <3>2, <3>3, StoreRewrites DEF Rewrites
    <3>6. Entry(c, visit[c].j)' = Table'[visit[c].Table][k]
      BY <3>1, <3>2 DEF Entry
    <3> QED
      BY <2>4, <3>1, <3>4, <3>5, <3>6 DEF CountsOwn, Empty
  <2>5. CASE d = c /\ ~Match(c) /\ ~Fill(c)
    <3>1. pc'[c] \notin {"hit", "zero"}
      BY ZenonT(60), <1>2, <2>1, <2>5, IgnoreEffect, ChooseEffect, LockEffect, LookEffect,
         MismatchEffect, HitEffect, ZeroEffect, NoMatchEffect, SaveEffect, DiscardEffect,
         ClearEffect, ReplaceEffect
      DEF processPacket, MovesTo
    <3> QED
      BY <2>5, <3>1 DEF CountsOwn
  <2> QED
    BY <2>2, <2>3, <2>4, <2>5
<1> QED
  BY <1>1, <1>2 DEF Next

\* A repetition is counted once, of a packet that was still in processPacket.
LEMMA HitDrops ==
  ASSUME TypeOK, Popped, OnePlace, ~overlap, DroppedFreed, NEW c \in Consumers, Hit(c)
  PROVE  /\ visit[c].pPacket \in Packets \ Dropped
         /\ ~PacketInfo[visit[c].pPacket].ignored
         /\ Dropped' = Dropped \cup {visit[c].pPacket}
<1>1. duplicates' = duplicates \cup {<<visit[c].pPacket, visit[c].entry.ThePacket>>}
  BY HitEffect
<1>2. Dropped' = Dropped \cup {visit[c].pPacket}
  <2>1. PICK d : d = <<visit[c].pPacket, visit[c].entry.ThePacket>>
    OBVIOUS
  <2>2. duplicates' = duplicates \cup {d} /\ d[1] = visit[c].pPacket
    BY <1>1, <2>1
  <2>3. {e[1] : e \in duplicates \cup {d}} = {e[1] : e \in duplicates} \cup {d[1]}
    OBVIOUS
  <2> QED
    BY <2>2, <2>3 DEF Dropped
<1>3. Carries(c) /\ Working(c)
  BY HitEffect DEF Carries, Working
<1>4. visit[c].pPacket \notin freed
  BY <1>3 DEF OnePlace
<1> QED
  BY <1>2, <1>3, <1>4, Located DEF Popped, DroppedFreed

LEMMA OthersDropNone ==
  ASSUME Next, \A c \in Consumers : ~Hit(c)
  PROVE  duplicates' = duplicates
BY DEF Next, processPacket, tallyProcessing, StartTally, TallySlot, history, Ignore,
       ChooseTable, LockCopy, Look, Mismatch, Match, Fill, ZeroCounters, NoMatch, SaveEntry,
       DiscardEntry, ClearEntry, Replace, Crash

LEMMA FreedGrows ==
  ASSUME Next
  PROVE  freed \subseteq freed'
BY DEF Next, processPacket, tallyProcessing, StartTally, TallySlot, Ignore, ChooseTable,
       LockCopy, Look, Mismatch, Match, Hit, Fill, ZeroCounters, NoMatch, SaveEntry,
       DiscardEntry, ClearEntry, Replace, Crash

\* What a step adds to the global counters.
LEMMA GlobalsAfter ==
  ASSUME TypeOK, Popped, Next
  PROVE  \/ UNCHANGED hitVars
         \/ \E c \in Consumers :
              /\ SaveEntry(c)
              /\ gPacketHitCount' = gPacketHitCount + Table[visit[c].Table][0].HitCount
              /\ gPacketHitBytes' = gPacketHitBytes + Table[visit[c].Table][0].RedundantBytes
         \/ /\ TallySlot
            /\ gPacketHitCount' = gPacketHitCount + HitsIn(tallied)
            /\ gPacketHitBytes' = gPacketHitBytes + BytesIn(tallied)
<1>1. CASE \E c \in Consumers : SaveEntry(c)
  <2>1. PICK c \in Consumers : SaveEntry(c)
    BY <1>1
  <2>2. visit[c].NextToReplace = 0
    BY <2>1, RotatesSlot0 DEF SaveEntry, Working
  <2> QED
    BY <2>1, <2>2 DEF SaveEntry, Entry
<1>2. CASE TallySlot
  BY <1>2 DEF TallySlot
<1>3. CASE ~TallySlot /\ \A c \in Consumers : ~SaveEntry(c)
  BY <1>3 DEF Next, processPacket, tallyProcessing, StartTally, scanVars, Ignore, ChooseTable,
       LockCopy, Look, Mismatch, Match, Hit, Fill, ZeroCounters, NoMatch,
       DiscardEntry, ClearEntry, Replace, Crash
<1> QED
  BY <1>1, <1>2, <1>3

\* The four slots that main empties, and what it adds up of them
Column(n) == {<<t, n>> : t \in Occupied(n)}

LEMMA ColumnTotals ==
  ASSUME NEW tb, NEW n, NEW S, IsFiniteSet(S), NEW h, NEW b,
         \A t \in S : h[t] = tb[t][n].HitCount /\ b[t] = tb[t][n].RedundantBytes
  PROVE  ColumnHits(tb, n, S) = Total(h, S) /\ ColumnBytes(tb, n, S) = Total(b, S)
<1>1. /\ \A t \in S : h[t] = tb[t][n].HitCount
      /\ \A t \in S : b[t] = tb[t][n].RedundantBytes
  OBVIOUS
<1> QED
  BY <1>1, ColumnHitsIsTotal, ColumnBytesIsTotal

LEMMA ColumnSums ==
  ASSUME TypeOK, NEW n \in Slots
  PROVE  /\ Column(n) \subseteq Entries
         /\ HitsIn(n) = Total(Hits(Table), Column(n))
         /\ BytesIn(n) = Total(Bytes(Table), Column(n))
         /\ HitsIn(n) \in Nat /\ BytesIn(n) \in Nat
<1> DEFINE h == [t \in Tables |-> Table[t][n].HitCount]
           b == [t \in Tables |-> Table[t][n].RedundantBytes]
<1>1. Occupied(n) \subseteq Tables /\ IsFiniteSet(Occupied(n))
  BY FiniteSlots, FS_Subset DEF Occupied
<1>2. /\ \A t \in Occupied(n) : h[t] = Table[t][n].HitCount /\ h[t] \in Int
      /\ \A t \in Occupied(n) : Hits(Table)[<<t, n>>] = h[t]
      /\ \A t \in Occupied(n) : b[t] = Table[t][n].RedundantBytes /\ b[t] \in Int
      /\ \A t \in Occupied(n) : Bytes(Table)[<<t, n>>] = b[t]
  BY <1>1 DEF Hits, Bytes, TypeOK, PacketEntry
<1> HIDE DEF h, b
<1>3. HitsIn(n) = Total(h, Occupied(n)) /\ BytesIn(n) = Total(b, Occupied(n))
  <2>1. /\ ColumnHits(Table, n, Occupied(n)) = Total(h, Occupied(n))
        /\ ColumnBytes(Table, n, Occupied(n)) = Total(b, Occupied(n))
    BY <1>1, <1>2, ColumnTotals
  <2> QED
    BY <2>1 DEF HitsIn, BytesIn, ColumnHits, ColumnBytes
<1>5. /\ Total(Hits(Table), Column(n)) = Total(h, Occupied(n))
      /\ Total(Bytes(Table), Column(n)) = Total(b, Occupied(n))
  <2>1. PICK S, D, f, g : /\ S = Occupied(n) /\ D = Column(n)
                          /\ f = Hits(Table) /\ g = Bytes(Table)
    OBVIOUS
  <2>2. (\A t \in S : h[t] \in Int) /\ (\A t \in S : f[<<t, n>>] = h[t])
    BY <1>2, <2>1
  <2>3. (\A t \in S : b[t] \in Int) /\ (\A t \in S : g[<<t, n>>] = b[t])
    BY <1>2, <2>1
  <2>4. IsFiniteSet(S)
    BY <1>1, <2>1
  <2>5. D = Pairs(S, n)
    BY <2>1 DEF Column, Pairs
  <2>6. Total(f, D) = Total(h, S)
    BY <2>2, <2>4, <2>5, TotalColumn
  <2>7. Total(g, D) = Total(b, S)
    BY <2>3, <2>4, <2>5, TotalColumn
  <2> QED
    BY <2>1, <2>6, <2>7
<1>6. Column(n) \subseteq Entries
  BY <1>1 DEF Column, Entries, Occupied
<1>7. Total(Hits(Table), Column(n)) \in Nat /\ Total(Bytes(Table), Column(n)) \in Nat
  <2>1. Column(n) \in SUBSET (Tables \X Slots) /\ Table \in [Tables -> [Slots -> PacketEntry]]
    BY <1>6, UnsavedSlots DEF TypeOK
  <2> QED
    BY <2>1, CounterTypes
<1> QED
  BY <1>3, <1>5, <1>6, <1>7

LEMMA DroppedStep ==
  ASSUME TypeOK, Popped, OnePlace, ~overlap, DroppedFreed, Next
  PROVE  DroppedFreed'
<1>1. gPacketHitCount' \in Nat /\ gPacketHitBytes' \in Nat
  <2>1. CASE UNCHANGED hitVars
    BY <2>1 DEF hitVars, DroppedFreed
  <2>2. ASSUME NEW c \in Consumers,
               gPacketHitCount' = gPacketHitCount + Table[visit[c].Table][0].HitCount,
               gPacketHitBytes' = gPacketHitBytes + Table[visit[c].Table][0].RedundantBytes
        PROVE  gPacketHitCount' \in Nat /\ gPacketHitBytes' \in Nat
    <3>1. Table[visit[c].Table][0] \in PacketEntry
      BY Located, Sizes DEF TypeOK
    <3> QED
      BY <2>2, <3>1 DEF PacketEntry, DroppedFreed
  <2>3. ASSUME TallySlot, gPacketHitCount' = gPacketHitCount + HitsIn(tallied),
               gPacketHitBytes' = gPacketHitBytes + BytesIn(tallied)
        PROVE  gPacketHitCount' \in Nat /\ gPacketHitBytes' \in Nat
    <3>1. tallied \in Slots
      BY <2>3 DEF TallySlot
    <3>2. HitsIn(tallied) \in Nat /\ BytesIn(tallied) \in Nat
      BY <3>1, ColumnSums
    <3> QED
      BY <2>3, <3>2 DEF DroppedFreed
  <2> QED
    BY <2>1, <2>2, <2>3, GlobalsAfter
<1>2. CASE \E c \in Consumers : Hit(c)
  <2>1. PICK c \in Consumers : Hit(c)
    BY <1>2
  <2>2. freed' = freed \cup {visit[c].pPacket}
    BY <2>1, HitEffect
  <2> QED
    BY <1>1, <2>1, <2>2, HitDrops DEF DroppedFreed
<1>3. CASE \A c \in Consumers : ~Hit(c)
  BY <1>1, <1>3, OthersDropNone, FreedGrows DEF DroppedFreed, Dropped
<1> QED
  BY <1>2, <1>3

-----------------------------------------------------------------------------
(* Accounted: the balance *)

\* A step that neither counts a repetition nor moves what is counted
LEMMA BalanceKept ==
  ASSUME TypeOK, TypeOK', Balanced, UNCHANGED <<hitVars, duplicates>>,
         Unsaved' = Unsaved,
         \A e \in Unsaved : /\ Hits(Table')[e] = Hits(Table)[e]
                            /\ Bytes(Table')[e] = Bytes(Table)[e]
  PROVE  Balanced'
<1>1. Unsaved \in SUBSET (Tables \X Slots) /\ IsFiniteSet(Unsaved)
  BY UnsavedSlots, FiniteSlots
<1>2. /\ Total(Hits(Table'), Unsaved) = Total(Hits(Table), Unsaved)
      /\ Total(Bytes(Table'), Unsaved) = Total(Bytes(Table), Unsaved)
  <2>1. PICK f, g, h, k : /\ f = Hits(Table') /\ g = Hits(Table)
                          /\ h = Bytes(Table') /\ k = Bytes(Table)
    OBVIOUS
  <2>2. Total(f, Unsaved) = Total(g, Unsaved)
    BY <1>1, <2>1, TotalSame
  <2>3. Total(h, Unsaved) = Total(k, Unsaved)
    BY <1>1, <2>1, TotalSame
  <2> QED
    BY <2>1, <2>2, <2>3
<1>3. Dropped' = Dropped
  BY DEF Dropped
<1>4. Hits(Table)' = Hits(Table') /\ Bytes(Table)' = Bytes(Table')
  BY DEF Hits, Bytes
<1> QED
  BY <1>2, <1>3, <1>4 DEF Balanced, hitVars

\* A slot that counts nothing is filled.
LEMMA BalanceFilled ==
  ASSUME TypeOK, TypeOK', Balanced, UNCHANGED <<hitVars, duplicates>>,
         NEW x \in (Tables \X Slots) \ Unsaved, Unsaved' = Unsaved \cup {x},
         Hits(Table')[x] = 0, Bytes(Table')[x] = 0,
         \A e \in Unsaved : /\ Hits(Table')[e] = Hits(Table)[e]
                            /\ Bytes(Table')[e] = Bytes(Table)[e]
  PROVE  Balanced'
<1> DEFINE S == Unsaved'
<1>1. PICK f, g, h, k : /\ f = Hits(Table') /\ g = Hits(Table)
                        /\ h = Bytes(Table') /\ k = Bytes(Table)
  OBVIOUS
<1>2. /\ S \in SUBSET (Tables \X Slots) /\ Table' \in [Tables -> [Slots -> PacketEntry]]
      /\ x \in S /\ S \ {x} = Unsaved /\ Unsaved \in SUBSET (Tables \X Slots)
  BY UnsavedSlots DEF TypeOK
<1>3. /\ IsFiniteSet(S) /\ IsFiniteSet(Unsaved)
      /\ \A e \in S : f[e] \in Int /\ h[e] \in Int
      /\ Total(f, Unsaved) \in Nat /\ Total(h, Unsaved) \in Nat
  BY <1>1, <1>2, CounterTypes, FiniteSlots
<1> HIDE DEF S
<1>4. Total(f, S) = f[x] + Total(f, Unsaved) /\ Total(h, S) = h[x] + Total(h, Unsaved)
  BY <1>2, <1>3, TotalApart
<1>5. Total(f, Unsaved) = Total(g, Unsaved) /\ Total(h, Unsaved) = Total(k, Unsaved)
  BY <1>1, <1>3, TotalSame
<1>6. Total(f, S) = Total(g, Unsaved) /\ Total(h, S) = Total(k, Unsaved)
  BY <1>1, <1>3, <1>4, <1>5
<1>7. Dropped' = Dropped
  BY DEF Dropped
<1>8. Hits(Table)' = f /\ Bytes(Table)' = h
  BY <1>1 DEF Hits, Bytes
<1> QED
  BY <1>1, <1>6, <1>7, <1>8 DEF Balanced, hitVars, S

\* Counters move from slots of the tables to the global ones.
LEMMA BalanceMoved ==
  ASSUME TypeOK, Balanced, DroppedFreed, UNCHANGED duplicates,
         NEW M \in SUBSET Unsaved, Unsaved' = Unsaved \ M,
         gPacketHitCount' = gPacketHitCount + Total(Hits(Table), M),
         gPacketHitBytes' = gPacketHitBytes + Total(Bytes(Table), M),
         \A e \in Unsaved' : /\ Hits(Table')[e] = Hits(Table)[e]
                             /\ Bytes(Table')[e] = Bytes(Table)[e]
  PROVE  Balanced'
<1>1. PICK f, g, h, k : /\ f = Hits(Table') /\ g = Hits(Table)
                        /\ h = Bytes(Table') /\ k = Bytes(Table)
  OBVIOUS
<1>2. PICK R : R = Unsaved'
  OBVIOUS
<1>3. /\ R = Unsaved \ M /\ R \in SUBSET (Tables \X Slots) /\ M \in SUBSET (Tables \X Slots)
      /\ Unsaved \in SUBSET (Tables \X Slots)
  BY <1>2, UnsavedSlots
<1>4. /\ IsFiniteSet(Unsaved) /\ IsFiniteSet(R)
      /\ \A e \in Unsaved : g[e] \in Int /\ k[e] \in Int
      /\ Total(g, M) \in Nat /\ Total(k, M) \in Nat
      /\ Total(g, R) \in Nat /\ Total(k, R) \in Nat
  BY <1>1, <1>3, CounterTypes DEF TypeOK
<1>5. /\ Total(g, Unsaved) = Total(g, M) + Total(g, R)
      /\ Total(k, Unsaved) = Total(k, M) + Total(k, R)
  BY <1>3, <1>4, TotalParts
<1>6. Total(f, R) = Total(g, R) /\ Total(h, R) = Total(k, R)
  <2>1. \A e \in R : f[e] = g[e] /\ h[e] = k[e]
    BY <1>1, <1>2
  <2> QED
    BY <1>4, <2>1, TotalSame
<1>7. Dropped' = Dropped
  BY DEF Dropped
<1>8. Hits(Table)' = f /\ Bytes(Table)' = h
  BY <1>1 DEF Hits, Bytes
<1>9. /\ gPacketHitCount' + Total(f, R) = gPacketHitCount + Total(g, Unsaved)
      /\ gPacketHitBytes' + Total(h, R) = gPacketHitBytes + Total(k, Unsaved)
  BY <1>1, <1>4, <1>5, <1>6 DEF DroppedFreed
<1> QED
  BY <1>1, <1>2, <1>7, <1>8, <1>9 DEF Balanced

\* One repetition more, in one slot
LEMMA BalanceHit ==
  ASSUME TypeOK, TypeOK', Balanced, DroppedFreed, DroppedFreed', UNCHANGED hitVars,
         NEW p \in Packets \ Dropped, ~PacketInfo[p].ignored, Dropped' = Dropped \cup {p},
         NEW x \in Unsaved, Unsaved' = Unsaved,
         Hits(Table')[x] = Hits(Table)[x] + 1,
         Bytes(Table')[x] = Bytes(Table)[x] + PayloadSize(p),
         \A e \in Unsaved \ {x} : /\ Hits(Table')[e] = Hits(Table)[e]
                                  /\ Bytes(Table')[e] = Bytes(Table)[e]
  PROVE  Balanced'
<1>1. PICK f, g, h, k : /\ f = Hits(Table') /\ g = Hits(Table)
                        /\ h = Bytes(Table') /\ k = Bytes(Table)
  OBVIOUS
<1>2. PICK S, R : S = Unsaved /\ R = Unsaved \ {x}
  OBVIOUS
<1>3. /\ S \in SUBSET (Tables \X Slots) /\ R \in SUBSET (Tables \X Slots)
      /\ Table \in [Tables -> [Slots -> PacketEntry]]
      /\ Table' \in [Tables -> [Slots -> PacketEntry]]
  BY <1>2, UnsavedSlots DEF TypeOK
<1>4. /\ IsFiniteSet(S) /\ IsFiniteSet(R)
      /\ \A e \in S : g[e] \in Int /\ k[e] \in Int
      /\ \A e \in S : f[e] \in Int /\ h[e] \in Int
      /\ Total(g, R) \in Nat /\ Total(k, R) \in Nat
  BY <1>1, <1>3, CounterTypes
<1>5. /\ Total(g, S) = g[x] + Total(g, R) /\ Total(k, S) = k[x] + Total(k, R)
      /\ Total(f, S) = f[x] + Total(f, R) /\ Total(h, S) = h[x] + Total(h, R)
  BY <1>2, <1>4, TotalApart
<1>6. Total(f, R) = Total(g, R) /\ Total(h, R) = Total(k, R)
  <2>1. \A e \in R : f[e] = g[e] /\ h[e] = k[e]
    BY <1>1, <1>2
  <2> QED
    BY <1>4, <2>1, TotalSame
<1>7. PayloadSize(p) \in Nat
  BY Payloads
<1>8. Total(f, S) = Total(g, S) + 1 /\ Total(h, S) = Total(k, S) + PayloadSize(p)
  <2>1. g[x] \in Int /\ k[x] \in Int /\ f[x] = g[x] + 1 /\ h[x] = k[x] + PayloadSize(p)
    BY <1>1, <1>2, <1>4
  <2> QED
    BY <1>4, <1>5, <1>6, <1>7, <2>1
<1>9. Total(g, S) \in Nat /\ Total(k, S) \in Nat
  BY <1>1, <1>3, CounterTypes
<1>10. /\ IsFiniteSet(Dropped) /\ Cardinality(Dropped') = Cardinality(Dropped) + 1
       /\ Cardinality(Dropped) \in Nat
  <2>1. IsFiniteSet(Dropped)
    BY Sizes, FS_Subset DEF DroppedFreed, TypeOK
  <2> QED
    BY <2>1, FS_AddElement, FS_CardinalityType
<1>11. /\ Total(PayloadSizes, Dropped') = PayloadSize(p) + Total(PayloadSizes, Dropped)
       /\ Total(PayloadSizes, Dropped) \in Nat
  <2>1. PICK D : D = Dropped'
    OBVIOUS
  <2>2. D \subseteq Packets /\ p \in D /\ D \ {p} = Dropped /\ IsFiniteSet(D)
    BY <1>10, <2>1, FS_AddElement DEF DroppedFreed, TypeOK
  <2>3. \A q \in D : PayloadSizes[q] \in Nat
    <3>1. \A q \in D : ~PacketInfo[q].ignored
      BY <2>1 DEF DroppedFreed
    <3> QED
      BY <2>2, <3>1, Payloads DEF PayloadSizes
  <2>4. PayloadSizes[p] = PayloadSize(p)
    BY DEF PayloadSizes
  <2>5. Total(PayloadSizes, D) = PayloadSizes[p] + Total(PayloadSizes, Dropped)
    <3>1. \A q \in D : PayloadSizes[q] \in Int
      BY <2>3
    <3> QED
      BY <2>2, <3>1, TotalApart
  <2>6. Total(PayloadSizes, Dropped) \in Nat
    BY <1>10, <2>2, <2>3, TotalNat
  <2> QED
    BY <2>1, <2>4, <2>5, <2>6
<1>12. Hits(Table)' = f /\ Bytes(Table)' = h
  BY <1>1 DEF Hits, Bytes
<1>13. /\ gPacketHitCount' + Total(f, S) = Cardinality(Dropped')
       /\ gPacketHitBytes' + Total(h, S) = Total(PayloadSizes, Dropped')
  <2>1. /\ gPacketHitCount' = gPacketHitCount /\ gPacketHitBytes' = gPacketHitBytes
        /\ gPacketHitCount \in Nat /\ gPacketHitBytes \in Nat
    BY DEF hitVars, DroppedFreed
  <2>2. /\ gPacketHitCount + Total(g, S) = Cardinality(Dropped)
        /\ gPacketHitBytes + Total(k, S) = Total(PayloadSizes, Dropped)
    BY <1>1, <1>2 DEF Balanced
  <2> QED
    <3>1. gPacketHitCount' + Total(f, S) = Cardinality(Dropped')
      BY <1>8, <1>9, <1>10, <2>1, <2>2
    <3>2. gPacketHitBytes' + Total(h, S) = Total(PayloadSizes, Dropped')
      BY <1>7, <1>8, <1>9, <1>11, <2>1, <2>2
    <3> QED
      BY <3>1, <3>2
<1> QED
  BY <1>2, <1>12, <1>13 DEF Balanced

LEMMA CountedBy ==
  ASSUME NEW c \in Consumers, processPacket(c)
  PROVE  /\ ~Hit(c) => duplicates' = duplicates
         /\ ~SaveEntry(c) => UNCHANGED hitVars
BY DEF processPacket, scanVars, history, Ignore, ChooseTable, LockCopy, Look, Mismatch, Match,
       Hit, Fill, ZeroCounters, NoMatch, SaveEntry, DiscardEntry, ClearEntry, Replace, Crash

LEMMA SavedSame ==
  ASSUME TypeOK, Popped, NEW c \in Consumers, processPacket(c), ~Crash(c),
         ~SaveEntry(c), ~ClearEntry(c)
  PROVE  \A t \in Tables, n \in Slots : Saved(t, n)' <=> Saved(t, n)
<1>1. \A d \in Consumers : d # c => pc'[d] = pc[d] /\ visit'[d] = visit[d]
  BY Others
<1>2. \/ pc[c] \notin {"discard", "clear"} /\ pc'[c] \notin {"discard", "clear"}
      \/ pc[c] \in {"discard", "clear"} /\ pc'[c] \in {"discard", "clear"} /\ visit' = visit
  BY ZenonT(60), IgnoreEffect, ChooseEffect, LockEffect, LookEffect, MismatchEffect, MatchEffect,
     HitEffect, FillEffect, ZeroEffect, NoMatchEffect, DiscardEffect, ReplaceEffect
  DEF processPacket, MovesTo
<1>3. \A d \in Consumers, t \in Tables :
        (pc'[d] \in {"discard", "clear"} /\ visit'[d].Table = t)
          <=> (pc[d] \in {"discard", "clear"} /\ visit[d].Table = t)
  BY <1>1, <1>2
<1> QED
  BY <1>3 DEF Saved

\* In the table of a consumer that is not evicting nothing is saved.
LEMMA NoneSaved ==
  ASSUME Apart, ~overlap, NEW c \in Consumers, Inside(c), pc[c] \notin {"discard", "clear"}
  PROVE  \A n \in Slots : ~Saved(visit[c].Table, n)
BY DEF Apart, Saved, Inside

LEMMA UnsavedNext ==
  ASSUME NEW S \in SUBSET (Tables \X Slots),
         \A t \in Tables, n \in Slots : <<t, n>> \in S <=> At(t, n)' # NULL /\ ~Saved(t, n)'
  PROVE  Unsaved' = S
<1>1. \A e \in Tables \X Slots : e = <<e[1], e[2]>> /\ e[1] \in Tables /\ e[2] \in Slots
  OBVIOUS
<1>2. \A e \in Tables \X Slots :
       e \in S <=> Table'[e[1]][e[2]].ThePacket # NULL /\ ~Saved(e[1], e[2])'
  BY <1>1 DEF At
<1>3. Unsaved' = {e \in Tables \X Slots :
                    Table'[e[1]][e[2]].ThePacket # NULL /\ ~Saved(e[1], e[2])'}
  BY DEF Unsaved, Entries
<1> QED
  BY <1>2, <1>3

\* the counters after c has written e into slot k
LEMMA CountersAfter ==
  ASSUME TypeOK, NEW c \in Consumers, NEW k \in Slots, NEW r, Rewrites(c, k, r)
  PROVE  /\ <<visit[c].Table, k>> \in Tables \X Slots
         /\ Hits(Table')[<<visit[c].Table, k>>] = r.HitCount
         /\ Bytes(Table')[<<visit[c].Table, k>>] = r.RedundantBytes
         /\ Hits(Table)[<<visit[c].Table, k>>] = Entry(c, k).HitCount
         /\ Bytes(Table)[<<visit[c].Table, k>>] = Entry(c, k).RedundantBytes
         /\ \A e \in Tables \X Slots : e # <<visit[c].Table, k>> =>
              Hits(Table')[e] = Hits(Table)[e] /\ Bytes(Table')[e] = Bytes(Table)[e]
<1>1. PICK T \in Tables : T = visit[c].Table
  BY Located
<1>2. <<T, k>> \in Tables \X Slots /\ Table'[T][k] = r
  BY <1>1 DEF Rewrites
<1>3. ASSUME NEW e \in Tables \X Slots, e # <<T, k>>
      PROVE  Table'[e[1]][e[2]] = Table[e[1]][e[2]]
  BY <1>1, <1>3 DEF Rewrites
<1> QED
  BY <1>1, <1>2, <1>3 DEF Hits, Bytes, Entry

LEMMA TotalOne ==
  ASSUME NEW f, NEW x, f[x] \in Int
  PROVE  Total(f, {x}) = f[x]
<1>1. IsFiniteSet({x}) /\ {x} \ {x} = {}
  BY FS_Singleton
<1>2. Total(f, {x}) = f[x] + Total(f, {x} \ {x})
  BY <1>1, TotalApart
<1> QED
  BY <1>1, <1>2, TotalNone

LEMMA BalancedByConsumer ==
  ASSUME TypeOK, Popped, Apart, Undisturbed, OnePlace, ~overlap, TypeOK',
         FreeIsEmpty, \A d \in Consumers : CountsOwn(d), DroppedFreed, DroppedFreed', Balanced,
         NEW c \in Consumers, processPacket(c)
  PROVE  Balanced'
<1>1. ~Crash(c) /\ \A d \in Consumers : d # c => pc'[d] = pc[d] /\ visit'[d] = visit[d]
  BY NoCrashApart, Others
<1>2. PICK T \in Tables : T = visit[c].Table
  BY Located
<1>3. /\ \A t \in Tables, n \in Slots :
           <<t, n>> \in Unsaved <=> At(t, n) # NULL /\ ~Saved(t, n)
      /\ Unsaved \in SUBSET (Tables \X Slots)
  BY UnsavedSlots
<1>4. ASSUME ~SaveEntry(c), ~ClearEntry(c), SameAt
      PROVE  Unsaved' = Unsaved
  BY <1>1, <1>3, <1>4, SavedSame, UnsavedNext DEF SameAt
<1>5. CASE ~Writes(c) /\ ~SaveEntry(c)
  <2>1. Table' = Table /\ SameAt
    BY <1>5, OtherwiseKept, NothingPut
  <2>2. Unsaved' = Unsaved
    BY <1>4, <1>5, <2>1 DEF Writes
  <2>3. UNCHANGED <<hitVars, duplicates>>
    BY <1>5, CountedBy DEF Writes
  <2> QED
    BY <2>1, <2>2, <2>3, BalanceKept
<1>6. CASE ZeroCounters(c)
  <2>1. pc[c] = "zero" /\ SameAt /\ ~SaveEntry(c) /\ ~ClearEntry(c) /\ ~Hit(c)
    BY <1>6, ZeroEffect DEF SaveEntry, ClearEntry, Hit
  <2>2. PICK k \in Slots : k = visit[c].j
    BY <2>1, Located
  <2>3. Entry(c, k).HitCount = 0 /\ Entry(c, k).RedundantBytes = 0
    BY <2>1, <2>2 DEF CountsOwn
  <2>4. PICK r : r = [ThePacket |-> At(visit[c].Table, k), HitCount |-> 0, RedundantBytes |-> 0]
    OBVIOUS
  <2>5. Rewrites(c, k, r) /\ r.HitCount = 0 /\ r.RedundantBytes = 0
    BY <1>6, <2>2, <2>4, ZeroRewrites
  <2>6. \A e \in Tables \X Slots : /\ Hits(Table')[e] = Hits(Table)[e]
                                   /\ Bytes(Table')[e] = Bytes(Table)[e]
    <3>1. PICK x \in Tables \X Slots : x = <<T, k>>
      OBVIOUS
    <3>2. /\ Hits(Table')[x] = Hits(Table)[x] /\ Bytes(Table')[x] = Bytes(Table)[x]
          /\ \A e \in Tables \X Slots : e # x =>
               Hits(Table')[e] = Hits(Table)[e] /\ Bytes(Table')[e] = Bytes(Table)[e]
      BY <1>2, <2>3, <2>5, <3>1, CountersAfter
    <3> QED
      BY <3>2
  <2> QED
    BY <1>3, <1>4, <2>1, <2>6, CountedBy, BalanceKept
<1>7. ASSUME NEW k \in Slots, (Fill(c) /\ k = visit[c].j) \/ (Replace(c) /\ k = 0)
      PROVE  Balanced'
  <2>1. /\ pc[c] \in {"fill", "replace"} /\ Puts(c, k, visit[c].pPacket)
        /\ ~SaveEntry(c) /\ ~ClearEntry(c) /\ ~Hit(c)
        /\ At(T, k) = NULL /\ Inside(c)
    BY <1>2, <1>7, FillEffect, ReplaceEffect
    DEF SaveEntry, ClearEntry, Hit, Undisturbed, Inside
  <2>2. Entry(c, k) = Empty
    BY <1>2, <2>1, EntryIs DEF FreeIsEmpty
  <2>3. PICK r : r = [ThePacket |-> visit[c].pPacket, HitCount |-> Entry(c, k).HitCount,
                      RedundantBytes |-> Entry(c, k).RedundantBytes]
    OBVIOUS
  <2>4. Rewrites(c, k, r) /\ r.HitCount = 0 /\ r.RedundantBytes = 0
    BY <1>7, <2>2, <2>3, StoreRewrites DEF Empty
  <2>5. PICK x \in Tables \X Slots : x = <<T, k>>
    OBVIOUS
  <2>6. /\ Hits(Table')[x] = 0 /\ Bytes(Table')[x] = 0
        /\ \A e \in Tables \X Slots : e # x =>
             Hits(Table')[e] = Hits(Table)[e] /\ Bytes(Table')[e] = Bytes(Table)[e]
    BY <1>2, <2>4, <2>5, CountersAfter
  <2>7. visit[c].pPacket # NULL
    BY <2>1, Located, Sizes DEF Working
  <2>8. x \notin Unsaved
    BY <1>3, <2>1, <2>5
  <2>9. ~Saved(T, k)
    BY <1>2, <2>1, NoneSaved
  <2>10. Unsaved' = Unsaved \cup {x}
    <3>1. ASSUME NEW t \in Tables, NEW n \in Slots
          PROVE  <<t, n>> \in Unsaved \cup {x} <=> At(t, n)' # NULL /\ ~Saved(t, n)'
      <4>1. Saved(t, n)' <=> Saved(t, n)
        BY <1>1, <2>1, SavedSame
      <4>2. CASE t = T /\ n = k
        BY <1>2, <2>1, <2>5, <2>7, <2>9, <4>1, <4>2 DEF Puts
      <4>3. CASE ~(t = T /\ n = k)
        BY <1>2, <1>3, <2>1, <2>5, <4>1, <4>3 DEF Puts
      <4> QED
        BY <4>2, <4>3
    <3>2. Unsaved \cup {x} \in SUBSET (Tables \X Slots)
      BY <1>3
    <3> QED
      BY <3>1, <3>2, UnsavedNext
  <2>11. UNCHANGED <<hitVars, duplicates>>
    BY <2>1, CountedBy
  <2>12. \A e \in Unsaved : /\ Hits(Table')[e] = Hits(Table)[e]
                            /\ Bytes(Table')[e] = Bytes(Table)[e]
    BY <1>3, <2>6, <2>8
  <2> QED
    BY <2>6, <2>8, <2>10, <2>11, <2>12, BalanceFilled
<1>8. CASE ClearEntry(c)
  <2>1. Puts(c, 0, NULL) /\ pc[c] = "clear" /\ pc'[c] = "replace" /\ ~Hit(c) /\ ~SaveEntry(c)
    BY <1>8, ClearEffect DEF MovesTo, Hit, SaveEntry
  <2>2. PICK x \in Tables \X Slots : x = <<T, 0>>
    BY Sizes
  <2>3. Saved(T, 0) /\ x \notin Unsaved
    BY <1>2, <1>3, <2>1, <2>2, Sizes DEF Saved
  <2>4. \A e \in Tables \X Slots : e # x =>
          Hits(Table')[e] = Hits(Table)[e] /\ Bytes(Table')[e] = Bytes(Table)[e]
    BY <1>2, <1>8, <2>2, ClearRewrites, CountersAfter, Sizes
  <2>5. Unsaved' = Unsaved
    <3>1. ASSUME NEW t \in Tables, NEW n \in Slots
          PROVE  <<t, n>> \in Unsaved <=> At(t, n)' # NULL /\ ~Saved(t, n)'
      <4>1. CASE t = T /\ n = 0
        BY <1>2, <2>1, <2>2, <2>3, <4>1 DEF Puts
      <4>2. CASE ~(t = T /\ n = 0)
        <5>1. At(t, n)' = At(t, n)
          BY <1>2, <2>1, <4>2 DEF Puts
        <5>2. Saved(t, n)' <=> Saved(t, n)
          BY <1>1, <1>2, <2>1, <4>2 DEF Saved
        <5> QED
          BY <1>3, <5>1, <5>2
      <4> QED
        BY <4>1, <4>2
    <3> QED
      BY <1>3, <3>1, UnsavedNext
  <2>6. UNCHANGED <<hitVars, duplicates>>
    BY <2>1, CountedBy
  <2>7. \A e \in Unsaved : /\ Hits(Table')[e] = Hits(Table)[e]
                           /\ Bytes(Table')[e] = Bytes(Table)[e]
    BY <1>3, <2>3, <2>4
  <2> QED
    BY <2>5, <2>6, <2>7, BalanceKept
<1>9. CASE SaveEntry(c)
  <2>1. /\ SameAt /\ Table' = Table /\ pc[c] = "save" /\ pc'[c] = "discard" /\ visit' = visit
        /\ ~Hit(c)
    BY <1>9, SaveEffect DEF MovesTo, Hit
  <2>2. PICK x \in Tables \X Slots : x = <<T, 0>>
    BY Sizes
  <2>3. At(T, 0) # NULL /\ ~Saved(T, 0)
    BY <1>2, <2>1, NoneSaved, Sizes DEF Undisturbed, Inside
  <2>4. x \in Unsaved
    BY <1>3, <2>2, <2>3, Sizes
  <2>5. Unsaved' = Unsaved \ {x}
    <3>1. ASSUME NEW t \in Tables, NEW n \in Slots
          PROVE  <<t, n>> \in Unsaved \ {x} <=> At(t, n)' # NULL /\ ~Saved(t, n)'
      <4>1. CASE t = T /\ n = 0
        <5>1. Saved(t, n)'
          BY <1>2, <2>1, <4>1 DEF Saved
        <5> QED
          BY <2>2, <4>1, <5>1
      <4>2. CASE ~(t = T /\ n = 0)
        <5>1. At(t, n)' = At(t, n)
          BY <2>1 DEF SameAt
        <5>2. Saved(t, n)' <=> Saved(t, n)
          BY <1>1, <1>2, <2>1, <4>2 DEF Saved
        <5> QED
          BY <1>3, <2>2, <4>2, <5>1, <5>2
      <4> QED
        BY <4>1, <4>2
    <3>2. Unsaved \ {x} \in SUBSET (Tables \X Slots)
      BY <1>3
    <3> QED
      BY <3>1, <3>2, UnsavedNext
  <2>6. PICK f, g : f = Hits(Table) /\ g = Bytes(Table)
    OBVIOUS
  <2>7. f[x] \in Int /\ g[x] \in Int
    <3>1. Table \in [Tables -> [Slots -> PacketEntry]]
      BY DEF TypeOK
    <3> QED
      BY <1>3, <2>4, <2>6, <3>1, CounterTypes
  <2>8. /\ gPacketHitCount' = gPacketHitCount + f[x]
        /\ gPacketHitBytes' = gPacketHitBytes + g[x]
    <3>1. Entry(c, visit[c].NextToReplace) = Table[T][0]
      BY <1>2, <2>1, RotatesSlot0 DEF Working, Entry
    <3>2. f[x] = Table[T][0].HitCount /\ g[x] = Table[T][0].RedundantBytes
      BY <2>2, <2>6 DEF Hits, Bytes
    <3> QED
      BY <1>9, <3>1, <3>2 DEF SaveEntry
  <2>9. Total(f, {x}) = f[x] /\ Total(g, {x}) = g[x]
    BY <2>7, TotalOne
  <2>10. {x} \in SUBSET Unsaved /\ duplicates' = duplicates
    BY <2>1, <2>4, CountedBy
  <2> QED
    BY <2>1, <2>5, <2>6, <2>8, <2>9, <2>10, BalanceMoved
<1>10. CASE Hit(c)
  <2>1. /\ pc[c] = "hit" /\ SameAt /\ ~SaveEntry(c) /\ ~ClearEntry(c) /\ Inside(c)
    BY <1>10, HitEffect DEF SaveEntry, ClearEntry, Inside
  <2>2. PICK k \in Slots : k = visit[c].j
    BY <2>1, Located
  <2>3. PICK p : p = visit[c].pPacket
    OBVIOUS
  <2>4. PICK r : r = [ThePacket |-> At(visit[c].Table, k),
                      HitCount |-> visit[c].entry.HitCount + 1,
                      RedundantBytes |-> visit[c].entry.RedundantBytes + PayloadSize(p)]
    OBVIOUS
  <2>5. Rewrites(c, k, r)
    BY <1>10, <2>2, <2>3, <2>4, HitRewrites
  <2>6. PICK x \in Tables \X Slots : x = <<T, k>>
    OBVIOUS
  <2>7. visit[c].entry = Entry(c, k)
    BY <2>1, <2>2 DEF CountsOwn
  <2>8. /\ Hits(Table')[x] = Hits(Table)[x] + 1
        /\ Bytes(Table')[x] = Bytes(Table)[x] + PayloadSize(p)
        /\ \A e \in Tables \X Slots : e # x =>
             Hits(Table')[e] = Hits(Table)[e] /\ Bytes(Table')[e] = Bytes(Table)[e]
    <3>1. r.HitCount = Entry(c, k).HitCount + 1
      BY <2>4, <2>7
    <3>2. r.RedundantBytes = Entry(c, k).RedundantBytes + PayloadSize(p)
      BY <2>4, <2>7
    <3> QED
      BY <1>2, <2>5, <2>6, <3>1, <3>2, CountersAfter
  <2>9. x \in Unsaved
    <3>1. At(T, k) # NULL
      BY <1>2, <2>1, <2>2 DEF Undisturbed
    <3>2. ~Saved(T, k)
      BY <1>2, <2>1, NoneSaved
    <3> QED
      BY <1>3, <2>6, <3>1, <3>2
  <2>10. Unsaved' = Unsaved /\ UNCHANGED hitVars
    BY <1>4, <2>1, CountedBy
  <2>11. p \in Packets \ Dropped /\ ~PacketInfo[p].ignored /\ Dropped' = Dropped \cup {p}
    BY <1>10, <2>3, HitDrops
  <2>12. \A e \in Unsaved \ {x} : /\ Hits(Table')[e] = Hits(Table)[e]
                                  /\ Bytes(Table')[e] = Bytes(Table)[e]
    BY <1>3, <2>8
  <2> QED
    BY <2>8, <2>9, <2>10, <2>11, <2>12, BalanceHit
<1> QED
  <2>1. Fill(c) => visit[c].j \in Slots
    BY Located DEF Fill
  <2> QED
    BY <1>5, <1>6, <1>7, <1>8, <1>9, <1>10, <2>1, Sizes DEF Writes

LEMMA BalancedStep ==
  ASSUME TypeOK, Popped, TallyLast, Apart, Undisturbed, OnePlace, ~overlap, TypeOK',
         FreeIsEmpty, \A d \in Consumers : CountsOwn(d), DroppedFreed, DroppedFreed', Balanced,
         Next
  PROVE  Balanced'
<1>1. CASE \E c \in Consumers : processPacket(c)
  BY <1>1, BalancedByConsumer
<1>2. CASE StartTally
  <2>1. /\ Table' = Table /\ SameAt /\ UNCHANGED <<pc, visit, hitVars, duplicates>>
    BY <1>2, NothingPut DEF StartTally, history
  <2>2. Unsaved' = Unsaved
    <3>1. \A t \in Tables, n \in Slots : Saved(t, n)' <=> Saved(t, n)
      BY <2>1 DEF Saved
    <3> QED
      BY <2>1, <3>1, UnsavedSlots, UnsavedNext DEF SameAt
  <2> QED
    BY <2>1, <2>2, BalanceKept
<1>3. CASE TallySlot
  <2>1. PICK n \in Slots : n = tallied
    BY <1>3 DEF TallySlot
  <2>2. \A c \in Consumers : pc[c] = "idle" /\ pc'[c] = "idle"
    BY <1>3, <2>1 DEF TallySlot, TallyLast, Slots
  <2>3. \A t \in Tables, m \in Slots : ~Saved(t, m) /\ ~Saved(t, m)'
    BY <2>2 DEF Saved
  <2>4. Unsaved = Entries
    BY <2>3, UnsavedSlots DEF Unsaved, Entries
  <2>5. \A t \in Tables : \A m \in Slots : <<t, m>> \in Column(n) <=> m = n /\ At(t, m) # NULL
    BY DEF Column, Occupied, At
  <2>6. Unsaved' = Unsaved \ Column(n)
    <3>1. ASSUME NEW t \in Tables, NEW m \in Slots
          PROVE  <<t, m>> \in Unsaved \ Column(n) <=> At(t, m)' # NULL /\ ~Saved(t, m)'
      <4>1. At(t, m)' = IF m = n THEN NULL ELSE At(t, m)
        BY <1>3, <2>1, TallyEffect
      <4> QED
        BY <2>3, <2>5, <4>1, UnsavedSlots
    <3>2. Unsaved \ Column(n) \in SUBSET (Tables \X Slots)
      BY UnsavedSlots
    <3> QED
      BY <3>1, <3>2, UnsavedNext
  <2>7. /\ gPacketHitCount' = gPacketHitCount + Total(Hits(Table), Column(n))
        /\ gPacketHitBytes' = gPacketHitBytes + Total(Bytes(Table), Column(n))
        /\ Column(n) \in SUBSET Unsaved
    BY <1>3, <2>1, <2>4, ColumnSums DEF TallySlot
  <2>8. \A e \in Unsaved' : /\ Hits(Table')[e] = Hits(Table)[e]
                            /\ Bytes(Table')[e] = Bytes(Table)[e]
    <3>1. Table' = [t \in Tables |-> IF t \in Occupied(n)
                                     THEN [Table[t] EXCEPT ![n] = Empty] ELSE Table[t]]
      BY <1>3, <2>1 DEF TallySlot
    <3>2. ASSUME NEW t \in Tables, NEW m \in Slots, <<t, m>> \in Unsaved'
          PROVE  Table'[t][m] = Table[t][m]
      <4>1. <<t, m>> \in Unsaved /\ <<t, m>> \notin Column(n)
        BY <2>6, <3>2
      <4>2. m # n
        BY <2>5, <4>1, UnsavedSlots
      <4>3. Table[t] \in [Slots -> PacketEntry]
        BY DEF TypeOK
      <4> QED
        BY <3>1, <4>2, <4>3
    <3>3. \A e \in Unsaved' : /\ e \in Tables \X Slots /\ e = <<e[1], e[2]>>
                              /\ e[1] \in Tables /\ e[2] \in Slots
      BY <2>6, UnsavedSlots
    <3>4. \A e \in Unsaved' : Table'[e[1]][e[2]] = Table[e[1]][e[2]]
      BY <3>2, <3>3
    <3> QED
      BY <3>3, <3>4 DEF Hits, Bytes
  <2>9. duplicates' = duplicates
    BY <1>3 DEF TallySlot, history
  <2> QED
    BY <2>6, <2>7, <2>8, <2>9, BalanceMoved
<1> QED
  BY <1>1, <1>2, <1>3 DEF Next, tallyProcessing

LEMMA AccountedStep ==
  ASSUME Safe, Safe', Accounted, Next
  PROVE  Accounted'
<1>1. SUFFICES ASSUME ~overlap' PROVE Accounted'
  BY DEF Accounted
<1>2. /\ TypeOK /\ Popped /\ TallyLast /\ Apart /\ Undisturbed /\ OnePlace /\ TypeOK'
      /\ ~overlap
  BY <1>1, OverlapStays DEF Safe
<1>3. FreeIsEmpty /\ DroppedFreed /\ Balanced /\ \A c \in Consumers : CountsOwn(c)
  BY <1>2, AccountedParts
<1>4. FreeIsEmpty' /\ DroppedFreed'
  BY <1>2, <1>3, FreeStep, DroppedStep
<1>5. \A c \in Consumers : CountsOwn(c)'
  BY <1>2, <1>3, CountsStep
<1>6. Balanced'
  BY <1>2, <1>3, <1>4, BalancedStep
<1> QED
  BY <1>2, <1>4, <1>5, <1>6, AccountedNext

LEMMA AccountedInit == Init => Accounted
<1> SUFFICES ASSUME Init PROVE Accounted
  OBVIOUS
<1>1. /\ \A t \in Tables, n \in Slots : Table[t][n] = Empty
      /\ \A c \in Consumers : pc[c] = "idle"
      /\ duplicates = {} /\ gPacketHitCount = 0 /\ gPacketHitBytes = 0
  BY DEF Init
<1>2. Unsaved = {} /\ Dropped = {}
  <2>1. \A e \in Tables \X Slots : Table[e[1]][e[2]].ThePacket = NULL
    BY <1>1 DEF Empty
  <2> QED
    BY <1>1, <2>1 DEF Unsaved, Entries, Dropped
<1>3. {} \in SUBSET (Tables \X Slots) /\ {} \in SUBSET Packets /\ Cardinality({}) = 0
  BY FS_EmptySet
<1>4. HitSum(Table, Unsaved) = 0 /\ ByteSum(Table, Unsaved) = 0 /\ PayloadSum(Dropped) = 0
  BY <1>2, <1>3, SumsAreTotals, PayloadSums, TotalNone
<1>5. /\ gPacketHitCount + HitSum(Table, Unsaved) = Cardinality(Dropped)
      /\ gPacketHitBytes + ByteSum(Table, Unsaved) = PayloadSum(Dropped)
  BY <1>1, <1>2, <1>3, <1>4
<1>6. /\ gPacketHitCount + MapThenSumSet(LAMBDA e : Table[e[1]][e[2]].HitCount, Unsaved)
           = Cardinality(Dropped)
      /\ gPacketHitBytes + MapThenSumSet(LAMBDA e : Table[e[1]][e[2]].RedundantBytes, Unsaved)
           = MapThenSumSet(PayloadSize, Dropped)
  BY <1>5 DEF HitSum, ByteSum, PayloadSum
<1>7. /\ gPacketHitCount \in Nat /\ gPacketHitBytes \in Nat
      /\ Dropped \subseteq freed /\ \A p \in Dropped : ~PacketInfo[p].ignored
      /\ \A t \in Tables, n \in Slots : At(t, n) = NULL => Table[t][n] = Empty
      /\ \A c \in Consumers : pc[c] # "hit" /\ pc[c] # "zero"
  BY <1>1, <1>2
<1> QED
  BY <1>6, <1>7 DEF Accounted

-----------------------------------------------------------------------------
(* EmptiedSoFar and SeenInFull *)
LEMMA EmptiedStep ==
  ASSUME TypeOK, Popped, TallyLast, EmptiedSoFar, Next
  PROVE  EmptiedSoFar'
<1>1. CASE TallySlot
  <2>1. ASSUME NEW t \in Tables, NEW n \in Slots, n < tallied + 1
        PROVE  At(t, n)' = NULL
    <3>1. tallied \in Slots /\ At(t, n)' = IF n = tallied THEN NULL ELSE At(t, n)
      BY <1>1, TallyEffect
    <3>2. n = tallied \/ n < tallied
      BY <2>1, <3>1, Sizes
    <3> QED
      BY <3>1, <3>2 DEF EmptiedSoFar
  <2>2. tallied' = tallied + 1
    BY <1>1, TallyEffect
  <2> QED
    BY <2>1, <2>2 DEF EmptiedSoFar, At
<1>2. CASE StartTally
  <2>1. tallied' = 0 /\ \A n \in Slots : ~(n < 0)
    BY <1>2, StartEffect, Sizes
  <2> QED
    BY <2>1 DEF EmptiedSoFar
<1>3. ASSUME NEW c \in Consumers, processPacket(c)
      PROVE  EmptiedSoFar'
  <2>1. tallied' = tallied
    BY <1>3, Others
  <2>2. CASE tallied = -1
    <3>1. \A n \in Slots : ~(n < -1)
      BY Sizes
    <3> QED
      BY <2>1, <2>2, <3>1 DEF EmptiedSoFar
  <2>3. CASE tallied # -1
    <3>1. waiting = {} /\ pc[c] = "idle"
      BY <2>3 DEF TallyLast
    <3> QED
      BY <1>3, <3>1
      DEF processPacket, Ignore, ChooseTable, LockCopy, Look, Mismatch, Match, Hit, Fill,
          ZeroCounters, NoMatch, SaveEntry, DiscardEntry, ClearEntry, Replace, Crash, See
  <2> QED
    BY <2>2, <2>3
<1> QED
  BY <1>1, <1>2, <1>3 DEF Next, tallyProcessing

LEMMA SeenIs ==
  ASSUME NEW S \in SUBSET Packets
  PROVE  LengthSum(S) = Total(Lengths, S) /\ Total(Lengths, S) \in Nat
<1>1. IsFiniteSet(S)
  BY Sizes, FS_Subset
<1>2. /\ \A p \in S : Lengths[p] = PacketInfo[p].LengthIncluded
      /\ \A p \in S : Lengths[p] \in Nat
  BY PacketsAssumption DEF Lengths
<1> QED
  BY <1>1, <1>2, LengthSumIsTotal, TotalNat

LEMMA SeenStep ==
  ASSUME TypeOK, SeenInFull, Next
  PROVE  SeenInFull'
<1>1. gPacketSeenBytes = LengthSum(Packets \ waiting)
  BY DEF SeenInFull, LengthSum
<1>2. SUFFICES gPacketSeenBytes' = LengthSum(Packets \ waiting')
  <2>1. ASSUME gPacketSeenBytes' = LengthSum(Packets \ waiting')
        PROVE  SeenInFull'
    BY <2>1 DEF SeenInFull, LengthSum, MapThenSumSet, MapThenFoldSet
  <2> QED
    BY <2>1
<1>3. CASE UNCHANGED <<waiting, gPacketSeenBytes>>
  BY <1>1, <1>3
<1>4. ASSUME NEW c \in Consumers, NEW p \in waiting, See(c, p)
      PROVE  gPacketSeenBytes' = LengthSum(Packets \ waiting')
  <2>1. PICK S : S = Packets \ waiting'
    OBVIOUS
  <2>2. /\ S \in SUBSET Packets /\ Packets \ waiting \in SUBSET Packets
        /\ p \in S /\ S \ {p} = Packets \ waiting /\ p \in Packets
    BY <1>4, <2>1 DEF See, TypeOK
  <2>3. IsFiniteSet(S) /\ \A q \in S : Lengths[q] \in Int
    <3>1. \A q \in S : PacketInfo[q].LengthIncluded \in Nat
      BY <2>2, PacketsAssumption
    <3> QED
      BY <2>2, <3>1, Sizes, FS_Subset DEF Lengths
  <2>4. Total(Lengths, S) = Lengths[p] + Total(Lengths, Packets \ waiting)
    BY <2>2, <2>3, TotalApart
  <2>5. Total(Lengths, Packets \ waiting) \in Nat /\ Lengths[p] \in Int
    BY <2>2, <2>3, SeenIs
  <2>6. /\ LengthSum(S) = Total(Lengths, S)
        /\ LengthSum(Packets \ waiting) = Total(Lengths, Packets \ waiting)
    BY <2>2, SeenIs
  <2>7. gPacketSeenBytes' = gPacketSeenBytes + Lengths[p]
    BY <1>4, <2>2 DEF See, Lengths
  <2> QED
    BY <1>1, <2>1, <2>4, <2>5, <2>6, <2>7
<1> QED
  BY <1>3, <1>4
  DEF Next, processPacket, tallyProcessing, seenVars, scanVars, resetVars, StartTally,
      TallySlot, Ignore, ChooseTable, LockCopy, Look, Mismatch, Match, Hit, Fill,
      ZeroCounters, NoMatch, SaveEntry, DiscardEntry, ClearEntry, Replace, Crash

LEMMA SeenInit == Init => SeenInFull /\ EmptiedSoFar
<1> SUFFICES ASSUME Init PROVE SeenInFull /\ EmptiedSoFar
  OBVIOUS
<1>1. gPacketSeenBytes = 0 /\ Packets \ waiting = {} /\ tallied = -1
  BY DEF Init
<1>2. LengthSum({}) = 0
  BY SeenIs, TotalNone
<1>3. SeenInFull
  BY <1>1, <1>2 DEF SeenInFull, LengthSum
<1>4. \A n \in Slots : ~(n < -1)
  BY Sizes
<1> QED
  BY <1>1, <1>3, <1>4 DEF EmptiedSoFar

-----------------------------------------------------------------------------
(* The statistics *)
Audited == Safe /\ Accounted /\ SeenInFull /\ EmptiedSoFar

LEMMA AuditedStep == Audited /\ [Next]_vars => Audited'
<1> SUFFICES ASSUME Audited, [Next]_vars PROVE Audited'
  OBVIOUS
<1>1. Safe'
  BY SafeStep DEF Audited
<1>2. CASE Next
  BY <1>1, <1>2, AccountedStep, SeenStep, EmptiedStep DEF Audited, Safe
<1>3. CASE UNCHANGED vars
  <2>1. UNCHANGED <<Table, pc, visit, freed, waiting, duplicates, overlap, tallied,
                    gPacketHitCount, gPacketHitBytes, gPacketSeenBytes>>
    BY <1>3 DEF vars, tableVars, seenVars, hitVars, history
  <2>2. EmptiedSoFar' /\ SeenInFull'
    BY <2>1 DEF Audited, EmptiedSoFar, SeenInFull, At, MapThenSumSet, MapThenFoldSet
  <2>3. Accounted'
    <3>1. SUFFICES ASSUME ~overlap' PROVE Accounted'
      BY DEF Accounted
    <3>2. TypeOK /\ ~overlap /\ Accounted /\ TypeOK'
      BY <1>1, <2>1, <3>1 DEF Audited, Safe
    <3>3. FreeIsEmpty /\ DroppedFreed /\ Balanced /\ \A c \in Consumers : CountsOwn(c)
      BY <3>2, AccountedParts
    <3>4. Unsaved' = Unsaved /\ Dropped' = Dropped
      BY <2>1 DEF Unsaved, Entries, Saved, Dropped
    <3>5. Balanced'
      BY <2>1, <3>3, <3>4 DEF Balanced, Hits, Bytes
    <3>6. FreeIsEmpty' /\ DroppedFreed' /\ \A c \in Consumers : CountsOwn(c)'
      BY <2>1, <3>3, <3>4 DEF FreeIsEmpty, DroppedFreed, CountsOwn, At, Entry
    <3> QED
      BY <3>2, <3>5, <3>6, AccountedNext
  <2> QED
    BY <1>1, <2>2, <2>3 DEF Audited
<1> QED
  BY <1>2, <1>3

\* As long as no two consumers were in one table at a time, what was counted is in
\* one slot or in the global counters; the bytes seen are those of the packets
\* popped, and the slots tallied so far are empty.
THEOREM SpecAudited == Spec => []Audited
<1>1. Init => Audited
  BY SafeInit, AccountedInit, SeenInit DEF Audited
<1> QED
  BY <1>1, AuditedStep, PTL DEF Spec

LEMMA UnsavedAtRest ==
  ASSUME Quiet
  PROVE  Unsaved = Entries
<1>1. \A t \in Tables, n \in Slots : ~Saved(t, n)
  BY DEF Quiet, Saved
<1>2. \A e \in Entries : e[1] \in Tables /\ e[2] \in Slots
  BY DEF Entries
<1> QED
  BY <1>1, <1>2 DEF Unsaved

\* As long as no two consumers were in one table at a time, the hits and the bytes
\* in the tables and in the global counters add up to what was dropped, through
\* evictions and the tally.
THEOREM SpecHitsAccountedApart == Spec => []HitsAccountedApart
<1>1. Audited => HitsAccountedApart
  <2> SUFFICES ASSUME Audited, ~overlap, Quiet
               PROVE  /\ gPacketHitCount
                           + MapThenSumSet(LAMBDA e : Table[e[1]][e[2]].HitCount, Entries)
                           = Cardinality(Dropped)
                      /\ gPacketHitBytes
                           + MapThenSumSet(LAMBDA e : Table[e[1]][e[2]].RedundantBytes, Entries)
                           = MapThenSumSet(PayloadSize, Dropped)
    BY DEF HitsAccountedApart, HitsAccounted
  <2>1. /\ gPacketHitCount + HitSum(Table, Unsaved) = Cardinality(Dropped)
        /\ gPacketHitBytes + ByteSum(Table, Unsaved) = PayloadSum(Dropped)
    BY DEF Audited, Accounted, HitSum, ByteSum, PayloadSum
  <2>2. /\ gPacketHitCount + HitSum(Table, Entries) = Cardinality(Dropped)
        /\ gPacketHitBytes + ByteSum(Table, Entries) = PayloadSum(Dropped)
    BY <2>1, UnsavedAtRest
  <2> QED
    BY <2>2 DEF HitSum, ByteSum, PayloadSum
<1> QED
  BY <1>1, SpecAudited, PTL

\* Then, too, when the tally is done every packet is freed, and the report counts
\* every repetition once and no more bytes than were seen.
THEOREM SpecReportComplete == Spec => []ReportComplete
<1>1. Audited => ReportComplete
  <2> SUFFICES ASSUME Audited, tallied = SmallTableSize, ~overlap
               PROVE  /\ freed = Packets
                      /\ gPacketHitCount = Cardinality(Dropped)
                      /\ gPacketHitBytes <= gPacketSeenBytes
    BY DEF ReportComplete
  <2>1. waiting = {} /\ Quiet
    <3>1. tallied # -1
      BY Sizes
    <3> QED
      BY <3>1 DEF Audited, Safe, TallyLast, Quiet
  <2>2. \A t \in Tables, n \in Slots : At(t, n) = NULL
    <3>1. \A n \in Slots : n < tallied
      BY Sizes
    <3> QED
      BY <3>1 DEF Audited, EmptiedSoFar
  <2>3. freed = Packets
    <3>1. \A c \in Consumers : ~Carries(c)
      BY <2>1 DEF Quiet, Carries
    <3>2. \A p \in Packets : p \in freed
      BY <2>1, <2>2, <3>1, Sizes DEF Audited, Safe, OnePlace
    <3> QED
      BY <3>2 DEF Audited, Safe, TypeOK
  <2>4. Unsaved = {}
    BY <2>2, UnsavedSlots DEF Unsaved, Entries, At
  <2>5. TypeOK /\ Balanced /\ DroppedFreed
    BY AccountedParts DEF Audited, Safe
  <2>6. gPacketHitCount = Cardinality(Dropped) /\ gPacketHitBytes = Total(PayloadSizes, Dropped)
    BY <2>4, <2>5, TotalNone DEF Balanced, DroppedFreed
  <2>7. /\ Dropped \subseteq Packets /\ IsFiniteSet(Dropped)
        /\ \A p \in Dropped : /\ PayloadSizes[p] \in Int /\ Lengths[p] \in Int
                              /\ PayloadSizes[p] <= Lengths[p]
    <3>1. Dropped \subseteq Packets /\ \A p \in Dropped : ~PacketInfo[p].ignored
      BY <2>5 DEF DroppedFreed, TypeOK
    <3>2. ASSUME NEW p \in Dropped
          PROVE  /\ PayloadSizes[p] \in Int /\ Lengths[p] \in Int
                 /\ PayloadSizes[p] <= Lengths[p]
      BY <3>1, Payloads DEF PayloadSizes, Lengths
    <3> QED
      BY <3>1, <3>2, Sizes, FS_Subset
  <2>8. Total(PayloadSizes, Dropped) <= Total(Lengths, Dropped)
    BY <2>7, TotalLarger
  <2>9. Total(Lengths, Dropped) <= Total(Lengths, Packets)
    <3>1. \A p \in Packets : Lengths[p] \in Int
      BY PacketsAssumption DEF Lengths
    <3>2. Total(Lengths, Packets) = Total(Lengths, Dropped) + Total(Lengths, Packets \ Dropped)
      BY <2>7, <3>1, Sizes, TotalParts
    <3>3. Total(Lengths, Dropped) \in Nat /\ Total(Lengths, Packets \ Dropped) \in Nat
      BY <2>7, SeenIs
    <3> QED
      BY <3>2, <3>3
  <2>10. gPacketSeenBytes = Total(Lengths, Packets)
    <3>1. gPacketSeenBytes = LengthSum(Packets \ waiting)
      BY DEF Audited, SeenInFull, LengthSum
    <3>2. Packets \ waiting = Packets
      BY <2>1
    <3> QED
      BY <3>1, <3>2, SeenIs
  <2>11. Total(PayloadSizes, Dropped) \in Int
    BY <2>7, TotalInt
  <2>12. Total(Lengths, Dropped) \in Nat /\ Total(Lengths, Packets) \in Nat
    BY <2>7, SeenIs
  <2> QED
    BY <2>3, <2>6, <2>8, <2>9, <2>10, <2>11, <2>12
<1> QED
  BY <1>1, SpecAudited, PTL
=============================================================================
