----------------------------- MODULE PacketTable -----------------------------
(***************************************************************************)
(* The packet tables of redextract (Project04/Code/pcap-process.c): the    *)
(* consumers run processPacket on every packet they pop, side by side, and *)
(* main tallies the tables when all of them are done.                      *)
(*                                                                         *)
(* processPacket copies the table's mutex and its NextToReplace into the   *)
(* local struct HashOption, and locks the copy.  So nothing keeps two      *)
(* consumers apart, and a step is one access to the shared tables, as the  *)
(* unoptimised build of the Makefile makes them.  What a consumer computes *)
(* from a packet that another one has freed or replaced under its hands is *)
(* left open, a crash included.                                            *)
(***************************************************************************)
EXTENDS Integers, FiniteSets, FiniteSetsExt

CONSTANTS
  Consumers,
  SmallTableSize,
  PacketInfo,  \* for each packet read from the files, what was captured
  NULL

Packets == DOMAIN PacketInfo
Tables == 0 .. 3
Slots == 0 .. SmallTableSize - 1

\* ignored: too small, or not TCP or UDP over IPv4.  Of a packet that is not,
\* PayloadOffset is where the headers end and Data the bytes from 0 on.
ASSUME PacketsAssumption ==
  /\ IsFiniteSet(Consumers) /\ IsFiniteSet(Packets) /\ NULL \notin Packets
  /\ SmallTableSize \in Nat \ {0}
  /\ \A p \in Packets :
       /\ PacketInfo[p].ignored \in BOOLEAN
       /\ PacketInfo[p].LengthIncluded \in Nat
       /\ ~PacketInfo[p].ignored =>
            /\ PacketInfo[p].PayloadOffset \in 0 .. PacketInfo[p].LengthIncluded - 1
            /\ PacketInfo[p].Data \in [0 .. PacketInfo[p].LengthIncluded - 1 -> 0 .. 255]

PayloadSize(p) == PacketInfo[p].LengthIncluded - PacketInfo[p].PayloadOffset

Payload(p) ==
  [k \in 0 .. PayloadSize(p) - 1 |-> PacketInfo[p].Data[PacketInfo[p].PayloadOffset + k]]

hash(p) == PacketInfo[p].Data[PacketInfo[p].PayloadOffset] % 4

\* slip: without the comparison of the sizes
OutcomesUnsized(p, q) ==
  LET read == PacketInfo[p].PayloadOffset .. PacketInfo[p].PayloadOffset + PayloadSize(q) - 1
      captured == read \cap DOMAIN PacketInfo[q].Data \cap DOMAIN PacketInfo[p].Data
  IN IF \E k \in captured : PacketInfo[q].Data[k] # PacketInfo[p].Data[k] THEN {FALSE}
     ELSE IF captured = read THEN {TRUE} ELSE BOOLEAN

\* The answers the comparison of a new packet p with the packet q of an entry
\* can give.  It reads both from p's PayloadOffset on; in q that can be past
\* the captured bytes, into what the buffer held before.
Outcomes(p, q) ==
  LET read == PacketInfo[p].PayloadOffset .. PacketInfo[p].LengthIncluded - 1
      captured == read \cap DOMAIN PacketInfo[q].Data
  IN IF \/ PayloadSize(q) # PayloadSize(p)
        \/ \E k \in captured : PacketInfo[q].Data[k] # PacketInfo[p].Data[k]
     THEN {FALSE}
     ELSE IF captured = read THEN {TRUE} ELSE BOOLEAN

VARIABLES
  Table,          \* Table1 to Table4
  TableLock,      \* is the mutex of the table held
  NextToReplace,  \* Table1NextToReplace to Table4NextToReplace
  gPacketSeenCount, gPacketSeenBytes, gPacketHitCount, gPacketHitBytes,
  waiting,        \* the packets no consumer has popped yet
  freed,          \* the packets given to discardPacket
  pc, visit,      \* the consumers in processPacket, and their local variables
  tallied,        \* how many slots main's tally has emptied, -1 before it
  duplicates,     \* history: <<p, q>> if p was dropped as a repetition of q
  stored,         \* history: the packets ever put in a table, <<p, when>>
  overlap         \* history: have two consumers been in one table at a time

tableVars == <<Table, TableLock, NextToReplace>>
seenVars == <<gPacketSeenCount, gPacketSeenBytes>>
hitVars == <<gPacketHitCount, gPacketHitBytes>>
history == <<duplicates, stored, overlap>>
vars == <<tableVars, seenVars, hitVars, waiting, freed, pc, visit, tallied,
          history>>

Empty == [ThePacket |-> NULL, HitCount |-> 0, RedundantBytes |-> 0]

NoVisit == [pPacket |-> NULL, Table |-> 0, TableLock |-> FALSE,
            NextToReplace |-> 0, j |-> 0, entry |-> Empty]

\* If an allocation fails initializeProcessing returns with the four mutexes
\* held, and main goes on all the same.
Init ==
  /\ Table = [t \in Tables |-> [n \in Slots |-> Empty]]
  /\ \E failed \in BOOLEAN : TableLock = [t \in Tables |-> failed]
  /\ NextToReplace = [t \in Tables |-> 0]
  /\ gPacketSeenCount = 0 /\ gPacketSeenBytes = 0
  /\ gPacketHitCount = 0 /\ gPacketHitBytes = 0
  /\ waiting = Packets
  /\ freed = {}
  /\ pc = [c \in Consumers |-> "idle"]
  /\ visit = [c \in Consumers |-> NoVisit]
  /\ tallied = -1
  /\ duplicates = {} /\ stored = {} /\ overlap = FALSE

-----------------------------------------------------------------------------
(* The part of processPacket before it has locked a table *)
Goto(c, label) == pc' = [pc EXCEPT ![c] = label]

\* processPacket returns
Leave(c) ==
  /\ Goto(c, "idle")
  /\ visit' = [visit EXCEPT ![c] = NoVisit]

\* the section under SeenLock, for a packet just popped
See(c, p) ==
  /\ pc[c] = "idle"
  /\ waiting' = waiting \ {p}
  /\ gPacketSeenCount' = gPacketSeenCount + 1
  /\ gPacketSeenBytes' = gPacketSeenBytes + PacketInfo[p].LengthIncluded

\* slip: the statistics are kept after the size check
IgnoreUncounted(c) ==
  /\ pc[c] = "idle"
  /\ \E p \in waiting :
       /\ PacketInfo[p].ignored
       /\ waiting' = waiting \ {p}
       /\ freed' = freed \cup {p}
  /\ UNCHANGED <<tableVars, seenVars, hitVars, pc, visit, tallied, history>>

Ignore(c) ==
  /\ \E p \in waiting :
       /\ PacketInfo[p].ignored
       /\ See(c, p)
       /\ freed' = freed \cup {p}
  /\ UNCHANGED <<tableVars, hitVars, pc, visit, tallied, history>>

\* the switch that fills in hashed
ChooseTable(c) ==
  /\ \E p \in waiting :
       /\ ~PacketInfo[p].ignored
       /\ See(c, p)
       /\ visit' = [visit EXCEPT ![c] =
                      [NoVisit EXCEPT !.pPacket = p, !.Table = hash(p),
                                      !.TableLock = TableLock[hash(p)],
                                      !.NextToReplace = NextToReplace[hash(p)]]]
  /\ Goto(c, "lock")
  /\ UNCHANGED <<tableVars, hitVars, freed, tallied, history>>

\* between the lock and the unlock of the copy
In(t) == {c \in Consumers : pc[c] \notin {"idle", "lock", "crashed"} /\ visit[c].Table = t}

\* a copy of a held mutex is held, and nobody unlocks it
LockCopy(c) ==
  /\ pc[c] = "lock"
  /\ ~visit[c].TableLock
  /\ Goto(c, "scan")
  /\ visit' = [visit EXCEPT ![c].TableLock = TRUE]
  /\ overlap' = (overlap \/ In(visit[c].Table) # {})
  /\ UNCHANGED <<tableVars, seenVars, hitVars, waiting, freed, tallied, duplicates, stored>>

-----------------------------------------------------------------------------
(* The loop over the table *)
scanVars == <<TableLock, NextToReplace, seenVars, hitVars, waiting, tallied>>

Entry(c, n) == Table[visit[c].Table][n]
Write(c, n, e) == Table' = [Table EXCEPT ![visit[c].Table][n] = e]

\* another consumer has freed or replaced what c saw in the slot
Disturbed(c) ==
  LET q == Entry(c, visit[c].j).ThePacket
  IN q # visit[c].entry.ThePacket \/ q \in freed

Look(c) ==
  /\ pc[c] = "scan"
  /\ visit[c].j < SmallTableSize
  /\ LET e == Entry(c, visit[c].j)
     IN /\ Goto(c, IF e.ThePacket = NULL THEN "fill" ELSE "compare")
        /\ visit' = [visit EXCEPT ![c].entry = e]
  /\ UNCHANGED <<Table, scanVars, freed, history>>

\* slip: continue without j++
MismatchStays(c) ==
  /\ pc[c] = "compare"
  /\ Disturbed(c) \/ FALSE \in Outcomes(visit[c].pPacket, visit[c].entry.ThePacket)
  /\ Goto(c, "scan")
  /\ visit' = [visit EXCEPT ![c].entry = Empty]
  /\ UNCHANGED <<Table, scanVars, freed, history>>

Mismatch(c) ==
  /\ pc[c] = "compare"
  /\ Disturbed(c) \/ FALSE \in Outcomes(visit[c].pPacket, visit[c].entry.ThePacket)
  /\ Goto(c, "scan")
  /\ visit' = [visit EXCEPT ![c].j = @ + 1, ![c].entry = Empty]
  /\ UNCHANGED <<Table, scanVars, freed, history>>

\* the load of HitCount++
Match(c) ==
  /\ pc[c] = "compare"
  /\ Disturbed(c) \/ TRUE \in Outcomes(visit[c].pPacket, visit[c].entry.ThePacket)
  /\ Goto(c, "hit")
  /\ visit' = [visit EXCEPT ![c].entry.HitCount = Entry(c, visit[c].j).HitCount,
                            ![c].entry.RedundantBytes = Entry(c, visit[c].j).RedundantBytes]
  /\ UNCHANGED <<Table, scanVars, freed, history>>

\* slip: the repetition is not discarded
HitLeaks(c) ==
  /\ pc[c] = "hit"
  /\ Write(c, visit[c].j,
           [Entry(c, visit[c].j) EXCEPT !.HitCount = visit[c].entry.HitCount + 1,
              !.RedundantBytes = visit[c].entry.RedundantBytes + PayloadSize(visit[c].pPacket)])
  /\ duplicates' = duplicates \cup {<<visit[c].pPacket, visit[c].entry.ThePacket>>}
  /\ Leave(c)
  /\ UNCHANGED <<scanVars, freed, stored, overlap>>

\* the store; processPacket returns without an unlock
Hit(c) ==
  /\ pc[c] = "hit"
  /\ Write(c, visit[c].j,
           [Entry(c, visit[c].j) EXCEPT !.HitCount = visit[c].entry.HitCount + 1,
              !.RedundantBytes = visit[c].entry.RedundantBytes + PayloadSize(visit[c].pPacket)])
  /\ freed' = freed \cup {visit[c].pPacket}
  /\ duplicates' = duplicates \cup {<<visit[c].pPacket, visit[c].entry.ThePacket>>}
  /\ Leave(c)
  /\ UNCHANGED <<scanVars, stored, overlap>>

Store(p) == stored' = stored \cup {<<p, Cardinality(stored)>>}

Fill(c) ==
  /\ pc[c] = "fill"
  /\ Write(c, visit[c].j, [Entry(c, visit[c].j) EXCEPT !.ThePacket = visit[c].pPacket])
  /\ Store(visit[c].pPacket)
  /\ Goto(c, "zero")
  /\ UNCHANGED <<scanVars, visit, freed, duplicates, overlap>>

ZeroCounters(c) ==
  /\ pc[c] = "zero"
  /\ Write(c, visit[c].j, [Entry(c, visit[c].j) EXCEPT !.HitCount = 0, !.RedundantBytes = 0])
  /\ Leave(c)
  /\ UNCHANGED <<scanVars, freed, history>>

-----------------------------------------------------------------------------
(* The table is full: resetAndSaveEntry, and the new packet in its place *)
resetVars == <<TableLock, NextToReplace, seenVars, waiting, tallied>>

\* slip: the last slot is not looked at
GiveUpEarly(c) ==
  /\ pc[c] = "scan"
  /\ visit[c].j >= SmallTableSize - 1
  /\ Goto(c, IF Entry(c, visit[c].NextToReplace).ThePacket = NULL THEN "replace" ELSE "save")
  /\ UNCHANGED <<Table, resetVars, hitVars, visit, freed, history>>

NoMatch(c) ==
  /\ pc[c] = "scan"
  /\ visit[c].j = SmallTableSize
  /\ Goto(c, IF Entry(c, visit[c].NextToReplace).ThePacket = NULL THEN "replace" ELSE "save")
  /\ UNCHANGED <<Table, resetVars, hitVars, visit, freed, history>>

\* under HitLock
SaveEntry(c) ==
  /\ pc[c] = "save"
  /\ gPacketHitCount' = gPacketHitCount + Entry(c, visit[c].NextToReplace).HitCount
  /\ gPacketHitBytes' = gPacketHitBytes + Entry(c, visit[c].NextToReplace).RedundantBytes
  /\ Goto(c, "discard")
  /\ UNCHANGED <<Table, resetVars, visit, freed, history>>

DiscardEntry(c) ==
  /\ pc[c] = "discard"
  /\ freed' = freed \cup ({Entry(c, visit[c].NextToReplace).ThePacket} \ {NULL})
  /\ Goto(c, "clear")
  /\ UNCHANGED <<Table, resetVars, hitVars, visit, history>>

\* slip: the counters of the old packet stay
ClearPacket(c) ==
  /\ pc[c] = "clear"
  /\ Write(c, visit[c].NextToReplace,
           [Entry(c, visit[c].NextToReplace) EXCEPT !.ThePacket = NULL])
  /\ Goto(c, "replace")
  /\ UNCHANGED <<resetVars, hitVars, visit, freed, history>>

ClearEntry(c) ==
  /\ pc[c] = "clear"
  /\ Write(c, visit[c].NextToReplace, Empty)
  /\ Goto(c, "replace")
  /\ UNCHANGED <<resetVars, hitVars, visit, freed, history>>

\* slip: the table does not take the packet
ReplaceForgets(c) ==
  /\ pc[c] = "replace"
  /\ Store(visit[c].pPacket)
  /\ Leave(c)
  /\ UNCHANGED <<Table, resetVars, hitVars, freed, duplicates, overlap>>

\* The rotation is that of hashed.NextToReplace, which ends with the visit.
Replace(c) ==
  /\ pc[c] = "replace"
  /\ Write(c, visit[c].NextToReplace,
           [Entry(c, visit[c].NextToReplace) EXCEPT !.ThePacket = visit[c].pPacket])
  /\ Store(visit[c].pPacket)
  /\ Leave(c)
  /\ UNCHANGED <<resetVars, hitVars, freed, duplicates, overlap>>

\* What a consumer does with a packet that is gone can end the program: NULL
\* or freed memory is dereferenced, or freed again.
Crash(c) ==
  /\ \/ pc[c] = "compare" /\ Disturbed(c)
     \/ pc[c] = "discard" /\ Entry(c, visit[c].NextToReplace).ThePacket \in freed
  /\ pc' = [d \in Consumers |-> "crashed"]
  /\ visit' = [d \in Consumers |-> NoVisit]
  /\ UNCHANGED <<tableVars, seenVars, hitVars, waiting, freed, tallied, history>>

-----------------------------------------------------------------------------
(* main, after it has joined the threads *)
StartTally ==
  /\ tallied = -1
  /\ waiting = {} /\ \A c \in Consumers : pc[c] = "idle"
  /\ \A t \in Tables : ~TableLock[t]
  /\ TableLock' = [t \in Tables |-> TRUE]
  /\ tallied' = 0
  /\ UNCHANGED <<Table, NextToReplace, seenVars, hitVars, waiting, freed, pc, visit, history>>

Occupied(n) == {t \in Tables : Table[t][n].ThePacket # NULL}
HitsIn(n) == MapThenSumSet(LAMBDA t : Table[t][n].HitCount, Occupied(n))
BytesIn(n) == MapThenSumSet(LAMBDA t : Table[t][n].RedundantBytes, Occupied(n))

\* slip: the loop ends one slot short
TallyShort ==
  /\ tallied \in Slots
  /\ LET n == tallied
     IN IF n + 1 = SmallTableSize
        THEN UNCHANGED <<hitVars, freed, Table>>
        ELSE /\ gPacketHitCount' = gPacketHitCount + HitsIn(n)
             /\ gPacketHitBytes' = gPacketHitBytes + BytesIn(n)
             /\ freed' = freed \cup {Table[t][n].ThePacket : t \in Occupied(n)}
             /\ Table' = [t \in Tables |->
                  IF t \in Occupied(n) THEN [Table[t] EXCEPT ![n] = Empty] ELSE Table[t]]
  /\ tallied' = tallied + 1
  /\ TableLock' = [t \in Tables |-> tallied' < SmallTableSize]
  /\ UNCHANGED <<NextToReplace, seenVars, waiting, pc, visit, history>>

\* resetAndSaveEntry of one slot in the four tables; the locks after the last
TallySlot ==
  /\ tallied \in Slots
  /\ LET n == tallied
     IN /\ gPacketHitCount' = gPacketHitCount + HitsIn(n)
        /\ gPacketHitBytes' = gPacketHitBytes + BytesIn(n)
        /\ freed' = freed \cup {Table[t][n].ThePacket : t \in Occupied(n)}
        /\ Table' = [t \in Tables |->
             IF t \in Occupied(n) THEN [Table[t] EXCEPT ![n] = Empty] ELSE Table[t]]
  /\ tallied' = tallied + 1
  /\ TableLock' = [t \in Tables |-> tallied' < SmallTableSize]
  /\ UNCHANGED <<NextToReplace, seenVars, waiting, pc, visit, history>>

-----------------------------------------------------------------------------
processPacket(c) ==
  \/ Ignore(c) \/ ChooseTable(c) \/ LockCopy(c)
  \/ Look(c) \/ Mismatch(c) \/ Match(c) \/ Hit(c) \/ Fill(c) \/ ZeroCounters(c)
  \/ NoMatch(c) \/ SaveEntry(c) \/ DiscardEntry(c) \/ ClearEntry(c) \/ Replace(c)
  \/ Crash(c)

tallyProcessing == StartTally \/ TallySlot

Next == (\E c \in Consumers : processPacket(c)) \/ tallyProcessing

Spec == Init /\ [][Next]_vars

\* a thread that can run is scheduled some time
FairSpec ==
  /\ Spec
  /\ \A c \in Consumers : WF_vars(processPacket(c))
  /\ WF_vars(tallyProcessing)

-----------------------------------------------------------------------------
Labels == {"idle", "lock", "scan", "compare", "hit", "fill", "zero",
           "save", "discard", "clear", "replace", "crashed"}

PacketEntry == [ThePacket : Packets \cup {NULL}, HitCount : Nat, RedundantBytes : Nat]

HashOption == [pPacket : Packets \cup {NULL}, Table : Tables, TableLock : BOOLEAN,
               NextToReplace : Slots, j : 0 .. SmallTableSize, entry : PacketEntry]

TypeOK ==
  /\ Table \in [Tables -> [Slots -> PacketEntry]]
  /\ TableLock \in [Tables -> BOOLEAN]
  /\ NextToReplace \in [Tables -> Slots]
  /\ gPacketSeenCount = Cardinality(Packets \ waiting)
  /\ waiting \in SUBSET Packets /\ freed \in SUBSET (Packets \ waiting)
  /\ pc \in [Consumers -> Labels] /\ visit \in [Consumers -> HashOption]
  /\ \A c \in Consumers :
       /\ pc[c] \in {"compare", "hit", "fill", "zero"} => visit[c].j \in Slots
       /\ pc[c] \notin {"idle", "crashed"} => visit[c].pPacket \in Packets \ waiting
  /\ tallied \in -1 .. SmallTableSize

Crashed == \E c \in Consumers : pc[c] = "crashed"
Quiet == \A c \in Consumers : pc[c] = "idle"
Entries == {e \in Tables \X Slots : Table[e[1]][e[2]].ThePacket # NULL}
Dropped == {d[1] : d \in duplicates}

\* As long as no two consumers were in one table at a time, as one consumer never
\* is, between two calls of processPacket every packet is in one place: still to
\* come, in one slot of one table, or freed.  None is leaked by an early return,
\* kept twice, or kept after it was freed.
EveryPacketPlaced ==
  Quiet /\ ~overlap =>
    LET Held == {Table[e[1]][e[2]].ThePacket : e \in Entries}
    IN /\ Packets = waiting \cup Held \cup freed
       /\ waiting \cap Held = {} /\ Held \cap freed = {}
       /\ Cardinality(Held) = Cardinality(Entries)

\* The counters in the tables and the global ones add up to the repetitions
\* that were dropped, through evictions and the tally (the comments "How many
\* hits have we had?", pcap-process.c:20, and pcap-process.h:34).
HitsAccounted ==
  Quiet =>
    /\ gPacketHitCount + MapThenSumSet(LAMBDA e : Table[e[1]][e[2]].HitCount, Entries)
         = Cardinality(Dropped)
    /\ gPacketHitBytes + MapThenSumSet(LAMBDA e : Table[e[1]][e[2]].RedundantBytes, Entries)
         = MapThenSumSet(PayloadSize, Dropped)

\* They do if no two consumers were in one table at a time: the mutex that is
\* copied is all that the statistics lack.
HitsAccountedApart == ~overlap => HitsAccounted

\* Then, too, a table never keeps two packets that processPacket would call the
\* same: what is stored has been compared with all that stays.
NoDuplicateKept ==
  Quiet /\ ~overlap =>
    \A e, f \in Entries :
      LET p == Table[e[1]][e[2]].ThePacket
          q == Table[f[1]][f[2]].ThePacket
      IN e # f /\ PacketInfo[p].PayloadOffset = PacketInfo[q].PayloadOffset =>
           Payload(p) # Payload(q)

\* And what is counted as redundant repeats the payload of the packet it was
\* counted on ("the payloads match up", pcap-process.c:320), provided that their
\* headers are of one length: with others the comparison reads shifted bytes.
HitsAreRepeats ==
  ~overlap =>
    \A d \in duplicates :
      PacketInfo[d[1]].PayloadOffset = PacketInfo[d[2]].PayloadOffset =>
        Payload(d[1]) = Payload(d[2])

\* While no consumer is in a table it is filled from slot 0 up, so that an empty
\* slot does end the search ("We made it to an empty entry without a match",
\* pcap-process.c:331).  Consumers that evict at the same time do not break it.
NoGaps ==
  \A t \in Tables :
    tallied = -1 /\ ~Crashed /\ In(t) = {} =>
      \A n \in Slots \ {0} :
        Table[t][n].ThePacket # NULL => Table[t][n - 1].ThePacket # NULL

\* main prints the statistics of all packets, and nothing is left allocated.
ReportComplete ==
  tallied = SmallTableSize /\ ~overlap =>
    /\ freed = Packets
    /\ gPacketHitCount = Cardinality(Dropped)
    /\ gPacketHitBytes <= gPacketSeenBytes

\* If the tables could be allocated the program comes to its report, whatever
\* the consumers do to one another, unless that ends it: the return that leaves
\* a lock behind leaves a copy behind.
ReportMade == (\A t \in Tables : ~TableLock[t]) =>
                <>(Crashed \/ tallied = SmallTableSize)

\* "Kick out the "oldest" entry", pcap-process.c:343: of the packets in a full
\* table the one stored first is evicted.
EvictsOldest ==
  [][\A t \in Tables : \A n, m \in Slots :
       LET q == Table[t][n].ThePacket
           r == Table[t][m].ThePacket
       IN (tallied = -1 /\ q # NULL /\ Table'[t][n].ThePacket = NULL /\ r \notin {q, NULL}) =>
            \A i, k \in 0 .. Cardinality(stored) - 1 :
              <<q, i>> \in stored /\ <<r, k>> \in stored => i < k]_vars
-----------------------------------------------------------------------------
(* The inductive invariant behind them *)
At(t, n) == Table[t][n].ThePacket
Working(c) == pc[c] \notin {"idle", "crashed"}
Inside(c) == pc[c] \notin {"idle", "lock", "crashed"}

\* Packets in processPacket and in the tables were popped, are long enough and
\* hashed by their payload; the table to rotate is never written back.
Popped ==
  /\ NextToReplace = [t \in Tables |-> 0]
  /\ \A t \in Tables, n \in Slots :
       At(t, n) # NULL => /\ At(t, n) \in Packets \ waiting
                          /\ ~PacketInfo[At(t, n)].ignored
                          /\ hash(At(t, n)) = t
  /\ \A c \in Consumers : Working(c) =>
       /\ ~PacketInfo[visit[c].pPacket].ignored
       /\ hash(visit[c].pPacket) = visit[c].Table
       /\ visit[c].NextToReplace = 0
       /\ pc[c] = "lock" => visit[c].j = 0
  /\ \A c \in Consumers : pc[c] \in {"compare", "hit"} =>
       /\ visit[c].entry.ThePacket \in Packets
       /\ ~PacketInfo[visit[c].entry.ThePacket].ignored

\* main tallies when the consumers have returned
TallyLast == tallied # -1 => waiting = {} /\ \A c \in Consumers : pc[c] = "idle"

\* A slot is filled, or will be by the consumer that has just emptied it.
Filled(t, n) ==
  \/ At(t, n) # NULL
  \/ n = 0 /\ \E c \in Consumers : pc[c] = "replace" /\ visit[c].Table = t

FilledFromFront ==
  tallied = -1 /\ ~Crashed =>
    /\ \A t \in Tables, n \in Slots : At(t, n) # NULL => \A m \in 0 .. n - 1 : Filled(t, m)
    /\ \A c \in Consumers :
         /\ Working(c) => \A m \in 0 .. visit[c].j - 1 : Filled(visit[c].Table, m)
         /\ pc[c] \in {"compare", "hit"} => Filled(visit[c].Table, visit[c].j)
         /\ pc[c] \in {"save", "discard", "clear", "replace"} => visit[c].j = SmallTableSize

\* As long as the copied mutexes did not matter, a consumer has its table to
\* itself, and finds in a slot what it saw there.
Apart ==
  ~overlap =>
    /\ ~Crashed
    /\ \A c, d \in Consumers :
         Inside(c) /\ Inside(d) /\ c # d => visit[c].Table # visit[d].Table

Undisturbed ==
  ~overlap =>
    \A c \in Consumers :
      /\ pc[c] \in {"compare", "hit"} => visit[c].entry.ThePacket = At(visit[c].Table, visit[c].j)
      /\ pc[c] \in {"compare", "hit"} => At(visit[c].Table, visit[c].j) # NULL
      /\ pc[c] = "fill" => At(visit[c].Table, visit[c].j) = NULL
      /\ pc[c] \in {"save", "discard", "clear"} => At(visit[c].Table, 0) # NULL
      /\ pc[c] = "replace" => At(visit[c].Table, 0) = NULL

\* the packet of c is in no table yet, and not freed
Carries(c) == pc[c] \notin {"idle", "zero", "crashed"}

\* slot 0 still shows a packet that has just been freed
Stale(t, n) == n = 0 /\ \E c \in Consumers : pc[c] = "clear" /\ visit[c].Table = t

OnePlace ==
  ~overlap =>
    /\ \A p \in Packets :
         \/ p \in waiting \cup freed
         \/ \E c \in Consumers : Carries(c) /\ visit[c].pPacket = p
         \/ \E t \in Tables, n \in Slots : At(t, n) = p
    /\ \A c \in Consumers : Carries(c) =>
         /\ visit[c].pPacket \notin freed
         /\ \A t \in Tables, n \in Slots : At(t, n) # visit[c].pPacket
         /\ \A d \in Consumers \ {c} : Carries(d) => visit[d].pPacket # visit[c].pPacket
    /\ \A t \in Tables, n \in Slots : At(t, n) \in freed <=> Stale(t, n)
    /\ \A t, u \in Tables : \A n, m \in Slots :
         At(t, n) # NULL /\ At(t, n) = At(u, m) => t = u /\ n = m

Same(p, q) ==
  PacketInfo[p].PayloadOffset = PacketInfo[q].PayloadOffset /\ Payload(p) = Payload(q)

\* What c has passed is different from its packet, and so are the packets that
\* share a table.
Different ==
  ~overlap =>
    /\ \A t \in Tables : \A n, m \in Slots :
         n # m /\ At(t, n) # NULL /\ At(t, m) # NULL => ~Same(At(t, n), At(t, m))
    /\ \A c \in Consumers : Carries(c) =>
         \A n \in 0 .. visit[c].j - 1 :
           At(visit[c].Table, n) # NULL => ~Same(visit[c].pPacket, At(visit[c].Table, n))

Repetition(p, q) ==
  PacketInfo[p].PayloadOffset = PacketInfo[q].PayloadOffset => Payload(p) = Payload(q)

Repeated ==
  ~overlap =>
    /\ \A d \in duplicates : Repetition(d[1], d[2])
    /\ \A c \in Consumers :
         pc[c] = "hit" => Repetition(visit[c].pPacket, visit[c].entry.ThePacket)

Safe ==
  /\ TypeOK /\ Popped /\ TallyLast /\ FilledFromFront /\ Apart /\ Undisturbed
  /\ OnePlace /\ Different /\ Repeated

\* The counters of a slot that is about to be cleared are in the global ones.
Saved(t, n) ==
  n = 0 /\ \E c \in Consumers : pc[c] \in {"discard", "clear"} /\ visit[c].Table = t

Unsaved == {e \in Entries : ~Saved(e[1], e[2])}

SeenInFull ==
  gPacketSeenBytes = MapThenSumSet(LAMBDA p : PacketInfo[p].LengthIncluded, Packets \ waiting)

EmptiedSoFar == \A t \in Tables, n \in Slots : n < tallied => At(t, n) = NULL

\* A free slot counts nothing, a consumer that counts works on what the slot
\* holds, and what was counted is in one slot or in the global counters.
Accounted ==
  ~overlap =>
    /\ gPacketHitCount \in Nat /\ gPacketHitBytes \in Nat
    /\ Dropped \subseteq freed /\ \A p \in Dropped : ~PacketInfo[p].ignored
    /\ \A t \in Tables, n \in Slots : At(t, n) = NULL => Table[t][n] = Empty
    /\ \A c \in Consumers :
         /\ pc[c] = "hit" => visit[c].entry = Entry(c, visit[c].j)
         /\ pc[c] = "zero" => /\ Entry(c, visit[c].j).HitCount = 0
                              /\ Entry(c, visit[c].j).RedundantBytes = 0
    /\ gPacketHitCount + MapThenSumSet(LAMBDA e : Table[e[1]][e[2]].HitCount, Unsaved)
         = Cardinality(Dropped)
    /\ gPacketHitBytes + MapThenSumSet(LAMBDA e : Table[e[1]][e[2]].RedundantBytes, Unsaved)
         = MapThenSumSet(PayloadSize, Dropped)
=============================================================================
