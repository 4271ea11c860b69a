----------------------------- MODULE Redextract -----------------------------
(***************************************************************************)
(* redextract (Project04/Code): producer threads read the packets of the   *)
(* capture files onto a bounded stack, consumer threads take them off it   *)
(* and process them (main.c, and the push in pcap-read.c).                 *)
(*                                                                         *)
(* A step is what a thread does between two points where another one can   *)
(* interfere: taking a mutex, the section it protects, and, in a consumer, *)
(* the moment between its look at KeepGoing and its pthread_cond_wait.     *)
(* KeepGoing is touched for the length of one statement at a time under    *)
(* KeepGoingLock, so that mutex is not a variable of its own.              *)
(***************************************************************************)
EXTENDS Integers, Sequences, FiniteSets

CONSTANTS
  filesToRead,     \* how many files getFileNames has found
  threads,         \* the value of -threads, 0 without the option
  STACK_MAX_SIZE,
  PacketCount      \* how many packets readPcapFile reads from each file

ASSUME ArgumentsAssumption ==
  /\ filesToRead \in 0 .. 16
  /\ threads \in {0} \cup 2 .. 8
  /\ STACK_MAX_SIZE \in Nat \ {0}
  /\ PacketCount \in [0 .. filesToRead - 1 -> Nat]

-----------------------------------------------------------------------------
prodThreads ==
  IF threads > 0
  THEN IF filesToRead >= threads THEN threads - 1 ELSE filesToRead
  ELSE IF filesToRead >= 8 THEN 7 ELSE filesToRead

consThreads == IF threads > 0 THEN threads - prodThreads ELSE 1

\* in the order in which main creates and joins them
ThreadCount == prodThreads + consThreads
Producers == 1 .. prodThreads
Consumers == prodThreads + 1 .. ThreadCount
Threads == 1 .. ThreadCount

Files == 0 .. filesToRead - 1
Packets == UNION {{f} \X (1 .. PacketCount[f]) : f \in Files}

VARIABLES
  created, joined, \* how far main's loops have come
  pc,
  pPacket,         \* the packet a thread holds, <<file, index in the file>>
  filesRead,
  KeepGoing,
  filesReadLock,   \* the thread that holds the mutex, 0 if none does
  StackLock,
  StackItems,      \* StackSize is its length
  processed        \* the packets processPacket was called with

vars == <<created, joined, pc, pPacket, filesRead, KeepGoing, filesReadLock,
          StackLock, StackItems, processed>>

mainVars == <<created, joined>>
fileVars == <<filesRead, KeepGoing, filesReadLock>>
stackVars == <<StackLock, StackItems>>

Init ==
  /\ created = 0
  /\ joined = 0
  /\ pc = [t \in Threads |-> "new"]
  /\ pPacket = [t \in Threads |-> <<0, 0>>]
  /\ filesRead = 0
  /\ KeepGoing = prodThreads
  /\ filesReadLock = 0
  /\ StackLock = 0
  /\ StackItems = <<>>
  /\ processed = {}

-----------------------------------------------------------------------------
(***************************************************************************)
(* Condition variables.  A thread in pthread_cond_wait has given up        *)
(* StackLock; once woken it queues for the lock again and repeats its test.*)
(***************************************************************************)
Waiting(cond) == {t \in Threads : pc[t] = cond}

\* the threads one pthread_cond_signal can wake
Signalled(cond) ==
  IF Waiting(cond) = {} THEN {{}} ELSE {{t} : t \in Waiting(cond)}

Relock(label) == IF label = "NotEmptyCond" THEN "lockPop" ELSE "lockPush"

\* t goes on at next, and the threads in woken leave their wait
Goto(t, next, woken) ==
  pc' = [u \in Threads |->
           IF u = t THEN next
           ELSE IF u \in woken THEN Relock(pc[u]) ELSE pc[u]]

\* pthread_cond_wait may also return without a signal
SpuriousWakeup(t) ==
  /\ pc[t] \in {"NotEmptyCond", "NotFullCond"}
  /\ Goto(t, Relock(pc[t]), {})
  /\ UNCHANGED <<mainVars, pPacket, fileVars, stackVars, processed>>

-----------------------------------------------------------------------------
(* main *)
CreateThread ==
  /\ created < ThreadCount
  /\ created' = created + 1
  /\ Goto(created', IF created' \in Producers THEN "lockFiles" ELSE "lockPop", {})
  /\ UNCHANGED <<joined, pPacket, fileVars, stackVars, processed>>

JoinThread ==
  /\ created = ThreadCount
  /\ joined < ThreadCount
  /\ pc[joined + 1] = "done"
  /\ joined' = joined + 1
  /\ UNCHANGED <<created, pc, pPacket, fileVars, stackVars, processed>>

-----------------------------------------------------------------------------
(* thread_producer *)
LockFiles(t) ==
  /\ pc[t] = "lockFiles"
  /\ filesReadLock = 0
  /\ filesReadLock' = t
  /\ Goto(t, "claim", {})
  /\ UNCHANGED <<mainVars, pPacket, filesRead, KeepGoing, stackVars, processed>>

ClaimFile(t) ==
  /\ pc[t] = "claim"
  /\ filesRead < filesToRead
  /\ filesRead' = filesRead + 1
  /\ pPacket' = [pPacket EXCEPT ![t] = <<filesRead, 0>>]
  /\ filesReadLock' = 0
  /\ Goto(t, "read", {})
  /\ UNCHANGED <<mainVars, KeepGoing, stackVars, processed>>

\* slip: the first producer to finish speaks for all of them
NoMoreFilesForAnyone(t) ==
  /\ pc[t] = "claim"
  /\ filesRead >= filesToRead
  /\ KeepGoing' = 0
  /\ Goto(t, "announce", {})
  /\ UNCHANGED <<mainVars, pPacket, filesRead, filesReadLock, stackVars, processed>>

NoMoreFiles(t) ==
  /\ pc[t] = "claim"
  /\ filesRead >= filesToRead
  /\ KeepGoing' = KeepGoing - 1
  /\ Goto(t, "announce", {})
  /\ UNCHANGED <<mainVars, pPacket, filesRead, filesReadLock, stackVars, processed>>

\* slip: no broadcast
AnnounceSilently(t) ==
  /\ pc[t] = "announce"
  /\ filesReadLock' = 0
  /\ Goto(t, "done", {})
  /\ UNCHANGED <<mainVars, pPacket, filesRead, KeepGoing, stackVars, processed>>

\* the broadcast is sent without StackLock
Announce(t) ==
  /\ pc[t] = "announce"
  /\ filesReadLock' = 0
  /\ Goto(t, "done", Waiting("NotEmptyCond"))
  /\ UNCHANGED <<mainVars, pPacket, filesRead, KeepGoing, stackVars, processed>>

(* readPcapFile *)
ReadNextPacket(t) ==
  LET f == pPacket[t][1]
      k == pPacket[t][2]
  IN
  /\ pc[t] = "read"
  /\ k < PacketCount[f]
  /\ pPacket' = [pPacket EXCEPT ![t] = <<f, k + 1>>]
  /\ Goto(t, "lockPush", {})
  /\ UNCHANGED <<mainVars, fileVars, stackVars, processed>>

EndOfFile(t) ==
  /\ pc[t] = "read"
  /\ pPacket[t][2] = PacketCount[pPacket[t][1]]
  /\ Goto(t, "lockFiles", {})
  /\ UNCHANGED <<mainVars, pPacket, fileVars, stackVars, processed>>

LockPush(t) ==
  /\ pc[t] = "lockPush"
  /\ StackLock = 0
  /\ StackLock' = t
  /\ Goto(t, "push", {})
  /\ UNCHANGED <<mainVars, pPacket, fileVars, StackItems, processed>>

WaitNotFull(t) ==
  /\ pc[t] = "push"
  /\ Len(StackItems) >= STACK_MAX_SIZE
  /\ StackLock' = 0
  /\ Goto(t, "NotFullCond", {})
  /\ UNCHANGED <<mainVars, pPacket, fileVars, StackItems, processed>>

\* slip: > for >= in the test for a full stack
PushOver(t) ==
  /\ pc[t] = "push"
  /\ Len(StackItems) <= STACK_MAX_SIZE
  /\ StackItems' = Append(StackItems, pPacket[t])
  /\ StackLock' = 0
  /\ \E woken \in Signalled("NotEmptyCond") : Goto(t, "read", woken)
  /\ UNCHANGED <<mainVars, pPacket, fileVars, processed>>

\* slip: no signal
PushSilently(t) ==
  /\ pc[t] = "push"
  /\ Len(StackItems) < STACK_MAX_SIZE
  /\ StackItems' = Append(StackItems, pPacket[t])
  /\ StackLock' = 0
  /\ Goto(t, "read", {})
  /\ UNCHANGED <<mainVars, pPacket, fileVars, processed>>

Push(t) ==
  /\ pc[t] = "push"
  /\ Len(StackItems) < STACK_MAX_SIZE
  /\ StackItems' = Append(StackItems, pPacket[t])
  /\ StackLock' = 0
  /\ \E woken \in Signalled("NotEmptyCond") : Goto(t, "read", woken)
  /\ UNCHANGED <<mainVars, pPacket, fileVars, processed>>

-----------------------------------------------------------------------------
(* thread_consumer *)
LockPop(t) ==
  /\ pc[t] = "lockPop"
  /\ StackLock = 0
  /\ StackLock' = t
  /\ Goto(t, "pop", {})
  /\ UNCHANGED <<mainVars, pPacket, fileVars, StackItems, processed>>

\* slip: StackSize is not counted down
PopKept(t) ==
  /\ pc[t] = "pop"
  /\ StackItems # <<>>
  /\ pPacket' = [pPacket EXCEPT ![t] = StackItems[Len(StackItems)]]
  /\ StackLock' = 0
  /\ \E woken \in Signalled("NotFullCond") : Goto(t, "process", woken)
  /\ UNCHANGED <<mainVars, fileVars, StackItems, processed>>

Pop(t) ==
  /\ pc[t] = "pop"
  /\ StackItems # <<>>
  /\ pPacket' = [pPacket EXCEPT ![t] = StackItems[Len(StackItems)]]
  /\ StackItems' = SubSeq(StackItems, 1, Len(StackItems) - 1)
  /\ StackLock' = 0
  /\ \E woken \in Signalled("NotFullCond") : Goto(t, "process", woken)
  /\ UNCHANGED <<mainVars, fileVars, processed>>

SeeKeepGoing(t) ==
  /\ pc[t] = "pop"
  /\ StackItems = <<>>
  /\ KeepGoing # 0
  /\ Goto(t, "wait", {})
  /\ UNCHANGED <<mainVars, pPacket, fileVars, stackVars, processed>>

WaitNotEmpty(t) ==
  /\ pc[t] = "wait"
  /\ StackLock' = 0
  /\ Goto(t, "NotEmptyCond", {})
  /\ UNCHANGED <<mainVars, pPacket, fileVars, StackItems, processed>>

\* slip: the broadcast that wakes a consumer whose look was too early is gone
StopSilently(t) ==
  /\ pc[t] = "pop"
  /\ StackItems = <<>>
  /\ KeepGoing = 0
  /\ StackLock' = 0
  /\ Goto(t, "done", {})
  /\ UNCHANGED <<mainVars, pPacket, fileVars, StackItems, processed>>

\* slip: the consumer stops whatever is left on the stack
StopAtOnce(t) ==
  /\ pc[t] = "pop"
  /\ KeepGoing = 0
  /\ StackLock' = 0
  /\ Goto(t, "done", Waiting("NotEmptyCond"))
  /\ UNCHANGED <<mainVars, pPacket, fileVars, StackItems, processed>>

StopConsuming(t) ==
  /\ pc[t] = "pop"
  /\ StackItems = <<>>
  /\ KeepGoing = 0
  /\ StackLock' = 0
  /\ Goto(t, "done", Waiting("NotEmptyCond"))
  /\ UNCHANGED <<mainVars, pPacket, fileVars, StackItems, processed>>

ProcessPacket(t) ==
  /\ pc[t] = "process"
  /\ processed' = processed \cup {pPacket[t]}
  /\ Goto(t, "lockPop", {})
  /\ UNCHANGED <<mainVars, pPacket, fileVars, stackVars>>

-----------------------------------------------------------------------------
MainStep == CreateThread \/ JoinThread

ProducerStep(t) ==
  \/ LockFiles(t) \/ ClaimFile(t) \/ NoMoreFiles(t) \/ Announce(t)
  \/ ReadNextPacket(t) \/ EndOfFile(t)
  \/ LockPush(t) \/ WaitNotFull(t) \/ Push(t)

ConsumerStep(t) ==
  \/ LockPop(t) \/ Pop(t) \/ SeeKeepGoing(t) \/ WaitNotEmpty(t)
  \/ StopConsuming(t) \/ ProcessPacket(t)

ThreadStep(t) ==
  \/ t \in Producers /\ ProducerStep(t)
  \/ t \in Consumers /\ ConsumerStep(t)

Next ==
  \/ MainStep
  \/ \E t \in Threads : ThreadStep(t) \/ SpuriousWakeup(t)

Spec == Init /\ [][Next]_vars

\* The scheduler runs every thread that can run, and the threads wake up without
\* a signal finitely often only.  The locks need no more than that: each thread
\* asks for them finitely often then.
FairSpec ==
  /\ Spec
  /\ WF_vars(MainStep)
  /\ \A t \in Threads : WF_vars(ThreadStep(t))
  /\ <>[][\A t \in Threads : ~SpuriousWakeup(t)]_vars

-----------------------------------------------------------------------------
(***************************************************************************)
(* Properties                                                              *)
(***************************************************************************)
ProducerLabels ==
  {"new", "lockFiles", "claim", "announce", "read", "lockPush", "push",
   "NotFullCond", "done"}
ConsumerLabels ==
  {"new", "lockPop", "pop", "wait", "NotEmptyCond", "process", "done"}

\* The stack never exceeds its array, and KeepGoing and filesRead their ranges.
TypeOK ==
  /\ created \in 0 .. ThreadCount
  /\ joined \in 0 .. ThreadCount
  /\ pc \in [Threads -> ProducerLabels \cup ConsumerLabels]
  /\ \A t \in Producers : pc[t] \in ProducerLabels
  /\ \A t \in Consumers : pc[t] \in ConsumerLabels
  /\ pPacket \in [Threads -> Nat \X Nat]
  /\ filesRead \in 0 .. filesToRead
  /\ KeepGoing \in 0 .. prodThreads
  /\ filesReadLock \in 0 .. ThreadCount
  /\ StackLock \in 0 .. ThreadCount
  /\ StackItems \in Seq(Packets)
  /\ Len(StackItems) <= STACK_MAX_SIZE
  /\ processed \subseteq Packets

Offering == {"lockPush", "push", "NotFullCond"}
Reading == {t \in Producers : pc[t] \in Offering \cup {"read"}}

\* the packets no push has put on the stack yet
Pending ==
  {p \in Packets :
     \/ p[1] >= filesRead
     \/ \E t \in Reading :
          /\ pPacket[t][1] = p[1]
          /\ \/ pPacket[t][2] < p[2]
             \/ pPacket[t][2] = p[2] /\ pc[t] \in Offering}
Stacked == {StackItems[k] : k \in 1 .. Len(StackItems)}
Taking == {t \in Consumers : pc[t] = "process"}
Taken == {pPacket[t] : t \in Taking}

\* No packet is lost or processed twice, whatever the number of producers and
\* consumers: at all times each one is still to be pushed, in one slot of the
\* stack, in the hands of one consumer, or processed.
PacketsAccounted ==
  /\ Packets = Pending \cup Stacked \cup Taken \cup processed
  /\ Pending \cap (Stacked \cup Taken \cup processed) = {}
  /\ Stacked \cap (Taken \cup processed) = {}
  /\ Taken \cap processed = {}
  /\ \A j, k \in 1 .. Len(StackItems) :
       StackItems[j] = StackItems[k] => j = k
  /\ \A t, u \in Taking : pPacket[t] = pPacket[u] => t = u

\* A consumer gives up only when nothing is on the stack and no producer will
\* push again: its look at KeepGoing is not stale.
DrainedBeforeExit ==
  (\E t \in Consumers : pc[t] = "done") =>
    /\ StackItems = <<>>
    /\ \A t \in Producers : pc[t] \in {"announce", "done"}

\* tallyProcessing runs, and the totals are printed, with every packet of
\* every file processed.
TallyAfterAll == joined = ThreadCount => processed = Packets

\* Push and pop lose no wakeup: while the stack holds a packet some consumer
\* is awake to take it, and while a producer sleeps because the stack was full
\* a packet is left to be popped, or another producer is about to push one.
NoSleepOnWork ==
  /\ StackItems # <<>> => \E t \in Consumers : pc[t] # "NotEmptyCond"
  /\ Waiting("NotFullCond") # {} =>
       \/ StackItems # <<>>
       \/ \E t \in Producers : pc[t] \in {"lockPush", "push"}

\* A consumer can look at KeepGoing, miss the last producer's broadcast and
\* fall asleep after it.  With two consumers or more another one is awake then,
\* and will wake it when it stops itself: nobody sleeps on when all are done.
NoConsumerLeft ==
  /\ consThreads >= 2
  /\ \A t \in Producers : pc[t] = "done"
  /\ Waiting("NotEmptyCond") # {}
  => \E t \in Consumers : pc[t] \notin {"NotEmptyCond", "done"}

-----------------------------------------------------------------------------
(***************************************************************************)
(* The inductive invariant behind them.                                    *)
(***************************************************************************)
MainLoops ==
  \A t \in Threads : /\ t > created <=> pc[t] = "new"
                     /\ t <= joined => pc[t] = "done"

MutexHolders ==
  /\ \A t \in Threads : pc[t] \in {"claim", "announce"} <=> filesReadLock = t
  /\ \A t \in Threads : pc[t] \in {"push", "pop", "wait"} <=> StackLock = t

\* each file has one reader at most, which stands at one of its packets
FilesRead ==
  /\ \A t \in Reading :
       /\ pPacket[t][1] < filesRead
       /\ pPacket[t][2] <= PacketCount[pPacket[t][1]]
       /\ pc[t] \in Offering => pPacket[t] \in Packets
  /\ \A t, u \in Reading : pPacket[t][1] = pPacket[u][1] => t = u
  /\ \A t \in Producers :
       pc[t] \in {"announce", "done"} => filesRead = filesToRead

Going == {t \in Producers : pc[t] \notin {"announce", "done"}}
KeepGoingCounts == KeepGoing = Cardinality(Going)

\* the consumer that is about to sleep holds StackLock: since it looked no
\* other one has stopped, or has gone to sleep after the last broadcast
LastLook ==
  /\ \A t \in Consumers : pc[t] = "done" => KeepGoing = 0
  /\ \A t \in Consumers : pc[t] = "wait" =>
       /\ StackItems = <<>>
       /\ \A u \in Consumers : pc[u] # "done"
       /\ (\A u \in Producers : pc[u] = "done") => Waiting("NotEmptyCond") = {}

Safe ==
  /\ TypeOK
  /\ MainLoops
  /\ MutexHolders
  /\ FilesRead
  /\ KeepGoingCounts
  /\ PacketsAccounted
  /\ LastLook
  /\ DrainedBeforeExit
  /\ NoSleepOnWork
  /\ NoConsumerLeft

-----------------------------------------------------------------------------
Place(p) ==
  IF p \in processed THEN "used"
  ELSE IF p \in Taken THEN "taken"
  ELSE IF p \in Stacked THEN "buffer" ELSE "source"

Promise ==
  INSTANCE Handoff
  WITH Items <- Packets, place <- [p \in Packets |-> Place(p)],
       reported <- joined = ThreadCount

\* Seen from its packets the program moves one packet one stage at a time, in
\* one direction, and reports at the end.
ImplementsHandoff == Promise!Flow

\* The program reaches the state the comment at main.c:224 waits for: all
\* producers are done, and all consumers are done.
ProgramEnds == <>(joined = ThreadCount)
=============================================================================
