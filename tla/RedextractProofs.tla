-------------------------- MODULE RedextractProofs --------------------------
(***************************************************************************)
(* Proofs about Redextract, for any number of files, packets and threads   *)
(* its arguments allow, and any size of the stack.  Safe is inductive: its *)
(* conjuncts are proved one after the other, each over all the actions.    *)
(***************************************************************************)
EXTENDS Redextract, FiniteSetTheorems, SequenceTheorems, TLAPS

\* main starts at least one consumer, and the producers come first.
LEMMA Sizes ==
  /\ prodThreads \in Nat
  /\ ThreadCount \in Nat
  /\ prodThreads < ThreadCount
  /\ prodThreads = 0 => filesToRead = 0
  /\ Producers \cup Consumers = Threads
  /\ Producers \cap Consumers = {}
<1>1. /\ prodThreads \in Nat
      /\ prodThreads = 0 => filesToRead = 0
      /\ consThreads \in Nat
      /\ consThreads > 0
  BY ArgumentsAssumption DEF prodThreads, consThreads
<1>2. /\ ThreadCount \in Nat
      /\ prodThreads < ThreadCount
  BY <1>1 DEF ThreadCount
<1> QED
  BY <1>1, <1>2 DEF Producers, Consumers, Threads

Labels == ProducerLabels \cup ConsumerLabels

\* What a step of thread t may do to the program counter of another thread u.
Woke(u) ==
  \/ pc'[u] = pc[u]
  \/ pc[u] = "NotEmptyCond" /\ pc'[u] = "lockPop"
  \/ pc[u] = "NotFullCond" /\ pc'[u] = "lockPush"

\* A step of a thread moves no other one, but for those it wakes.
LEMMA StepFrame ==
  ASSUME TypeOK, NEW t \in Threads, ThreadStep(t) \/ SpuriousWakeup(t)
  PROVE  /\ pc' \in [Threads -> Labels]
         /\ \A u \in Threads \ {t} : Woke(u)
<1>1. ASSUME NEW next \in Labels, NEW woken, Goto(t, next, woken),
             woken \subseteq Waiting("NotEmptyCond") \/ woken \subseteq Waiting("NotFullCond")
      PROVE  /\ pc' \in [Threads -> Labels]
             /\ \A u \in Threads \ {t} : Woke(u)
  BY <1>1 DEF Goto, Woke, Waiting, Relock, TypeOK, Labels, ProducerLabels, ConsumerLabels
<1>2. {} \subseteq Waiting("NotEmptyCond")
  OBVIOUS
<1>3. \A cond, w : w \in Signalled(cond) => w \subseteq Waiting(cond)
  BY DEF Signalled
<1>4. /\ "read" \in Labels /\ "process" \in Labels /\ "done" \in Labels /\ "lockFiles" \in Labels
      /\ "claim" \in Labels /\ "announce" \in Labels /\ "lockPush" \in Labels /\ "push" \in Labels
      /\ "lockPop" \in Labels /\ "pop" \in Labels /\ "wait" \in Labels
      /\ "NotFullCond" \in Labels /\ "NotEmptyCond" \in Labels
  BY DEF Labels, ProducerLabels, ConsumerLabels
<1>5. Relock(pc[t]) \in Labels
  BY <1>4 DEF Relock
<1>6. \/ \E next \in Labels : Goto(t, next, {})
      \/ \E next \in Labels : Goto(t, next, Waiting("NotEmptyCond"))
      \/ \E next \in Labels, w \in Signalled("NotEmptyCond") : Goto(t, next, w)
      \/ \E next \in Labels, w \in Signalled("NotFullCond") : Goto(t, next, w)
  <2> QED
    BY <1>4, <1>5
    DEF ThreadStep, ProducerStep, ConsumerStep, SpuriousWakeup, LockFiles,
        ClaimFile, NoMoreFiles, Announce, ReadNextPacket, EndOfFile, LockPush,
        WaitNotFull, Push, LockPop, Pop, SeeKeepGoing, WaitNotEmpty,
        StopConsuming, ProcessPacket
<1>7. CASE \E next \in Labels : Goto(t, next, {})
  BY <1>1, <1>2, <1>7
<1>8. CASE \E next \in Labels : Goto(t, next, Waiting("NotEmptyCond"))
  BY <1>1, <1>8
<1>9. CASE \E next \in Labels, w \in Signalled("NotEmptyCond") : Goto(t, next, w)
  <2> PICK next \in Labels, w \in Signalled("NotEmptyCond") : Goto(t, next, w)
    BY <1>9
  <2> QED
    BY <1>1, <1>3
<1>10. CASE \E next \in Labels, w \in Signalled("NotFullCond") : Goto(t, next, w)
  <2> PICK next \in Labels, w \in Signalled("NotFullCond") : Goto(t, next, w)
    BY <1>10
  <2> QED
    BY <1>1, <1>3
<1> QED
  BY <1>6, <1>7, <1>8, <1>9, <1>10

\* The pc of the thread that steps, in terms of the step.
LEMMA Moves ==
  ASSUME TypeOK, NEW t \in Threads, NEW next, NEW woken, Goto(t, next, woken)
  PROVE  pc'[t] = next
BY DEF Goto, TypeOK

\* What push and pop leave on the stack.
LEMMA StackFacts ==
  ASSUME TypeOK
  PROVE  /\ Len(StackItems) \in Nat
         /\ \A p : p \in Packets =>
              /\ Append(StackItems, p) \in Seq(Packets)
              /\ Len(Append(StackItems, p)) = Len(StackItems) + 1
              /\ \A k \in 1 .. Len(StackItems) + 1 :
                   Append(StackItems, p)[k] =
                     IF k = Len(StackItems) + 1 THEN p ELSE StackItems[k]
         /\ StackItems # <<>> =>
              LET rest == SubSeq(StackItems, 1, Len(StackItems) - 1) IN
              /\ Len(StackItems) > 0
              /\ StackItems[Len(StackItems)] \in Packets
              /\ rest \in Seq(Packets)
              /\ Len(rest) = Len(StackItems) - 1
              /\ \A k \in 1 .. Len(StackItems) - 1 : rest[k] = StackItems[k]
<1>1. StackItems \in Seq(Packets)
  BY DEF TypeOK
<1>2. Len(StackItems) \in Nat
  BY <1>1
<1>3. ASSUME NEW p \in Packets
      PROVE  /\ Append(StackItems, p) \in Seq(Packets)
             /\ Len(Append(StackItems, p)) = Len(StackItems) + 1
             /\ \A k \in 1 .. Len(StackItems) + 1 :
                  Append(StackItems, p)[k] =
                    IF k = Len(StackItems) + 1 THEN p ELSE StackItems[k]
  BY <1>1
<1>4. ASSUME StackItems # <<>>
      PROVE  LET rest == SubSeq(StackItems, 1, Len(StackItems) - 1) IN
             /\ Len(StackItems) > 0
             /\ StackItems[Len(StackItems)] \in Packets
             /\ rest \in Seq(Packets)
             /\ Len(rest) = Len(StackItems) - 1
             /\ \A k \in 1 .. Len(StackItems) - 1 : rest[k] = StackItems[k]
  <2> DEFINE n == Len(StackItems) - 1
             rest == SubSeq(StackItems, 1, n)
  <2>1. Len(StackItems) > 0
    BY <1>1, <1>4
  <2>2. n \in 0 .. Len(StackItems) /\ 1 \in 1 .. Len(StackItems) + 1
    BY <1>2, <2>1
  <2>3. /\ rest \in Seq(Packets)
        /\ Len(rest) = IF 1 <= n THEN n - 1 + 1 ELSE 0
        /\ \A i \in 1 .. n - 1 + 1 : rest[i] = StackItems[1 + i - 1]
    <3> HIDE DEF n
    <3> QED
      BY <1>1, <2>2, SubSeqProperties
  <2>4. Len(rest) = n /\ \A k \in 1 .. n : rest[k] = StackItems[k]
    <3>1. n \in Nat
      BY <2>1, <1>2
    <3> HIDE DEF n, rest
    <3>2. n - 1 + 1 = n /\ \A k \in 1 .. n : 1 + k - 1 = k
      BY <3>1
    <3>3. Len(rest) = n
      BY <3>1, <3>2, <2>3
    <3>4. ASSUME NEW k \in 1 .. n
          PROVE  rest[k] = StackItems[k]
      <4>1. rest[k] = StackItems[1 + k - 1]
        BY <3>1, <3>2, <2>3
      <4> QED
        BY <4>1, <3>2
    <3> QED
      BY <3>3, <3>4
  <2>5. StackItems[Len(StackItems)] \in Packets
    BY <1>1, <1>2, <2>1
  <2> QED
    BY <2>1, <2>3, <2>4, <2>5
<1> QED
  BY <1>2, <1>3, <1>4

\* A packet is named by its file and a number.
LEMMA PacketsTyped == Packets \subseteq Files \X Nat
BY ArgumentsAssumption DEF Packets, Files

\* KeepGoing counts a finite set of producers.
LEMMA GoingFinite == IsFiniteSet(Going)
<1>1. IsFiniteSet(Producers)
  BY Sizes, FS_Interval DEF Producers
<1> QED
  BY <1>1, FS_Subset DEF Going

-----------------------------------------------------------------------------
(* Types *)

\* A step moves a thread, and those it wakes, to labels of their kind.
LEMMA TypeOfLabels ==
  ASSUME TypeOK, NEW t \in Threads, ThreadStep(t) \/ SpuriousWakeup(t)
  PROVE  /\ pc' \in [Threads -> Labels]
         /\ \A u \in Producers : pc'[u] \in ProducerLabels
         /\ \A u \in Consumers : pc'[u] \in ConsumerLabels
<1>1. /\ t \in Producers => pc'[t] \in ProducerLabels
      /\ t \in Consumers => pc'[t] \in ConsumerLabels
  BY Moves, Sizes
  DEF ThreadStep, ProducerStep, ConsumerStep, SpuriousWakeup, LockFiles,
      ClaimFile, NoMoreFiles, Announce, ReadNextPacket, EndOfFile, LockPush,
      WaitNotFull, Push, LockPop, Pop, SeeKeepGoing, WaitNotEmpty,
      StopConsuming, ProcessPacket, TypeOK, ProducerLabels, ConsumerLabels, Relock
<1>2. \A u \in Threads \ {t} :
        /\ u \in Producers => pc'[u] \in ProducerLabels
        /\ u \in Consumers => pc'[u] \in ConsumerLabels
  BY StepFrame, Sizes DEF Woke, TypeOK, ProducerLabels, ConsumerLabels
<1> QED
  BY <1>1, <1>2, StepFrame, Sizes

\* The stack is pushed on only below its limit, packets only come from files.
LEMMA TypeOfProducer ==
  ASSUME TypeOK, FilesRead, KeepGoingCounts, NEW t \in Producers, ProducerStep(t)
  PROVE  TypeOK'
<1> t \in Threads /\ ThreadStep(t)
  BY Sizes DEF ThreadStep
<1>1. CASE LockFiles(t)
  <2>1. filesReadLock' \in 0 .. ThreadCount
    BY <1>1, Sizes DEF LockFiles, Threads
  <2> QED
    BY <1>1, <2>1, TypeOfLabels DEF LockFiles, TypeOK, mainVars, stackVars, Labels
<1>2. CASE ClaimFile(t)
  <2>1. filesRead' \in 0 .. filesToRead
    BY <1>2, ArgumentsAssumption DEF ClaimFile, TypeOK
  <2>2. pPacket' \in [Threads -> Nat \X Nat]
    BY <1>2 DEF ClaimFile, TypeOK
  <2>3. filesReadLock' \in 0 .. ThreadCount
    BY <1>2, Sizes DEF ClaimFile
  <2> QED
    BY <1>2, <2>1, <2>2, <2>3, TypeOfLabels DEF ClaimFile, TypeOK, mainVars, stackVars, Labels
<1>3. CASE NoMoreFiles(t)
  <2>1. t \in Going
    BY <1>3 DEF NoMoreFiles, Going
  <2>2. IsFiniteSet(Going)
    BY GoingFinite
  <2>3. KeepGoing > 0
    BY <2>1, <2>2, FS_EmptySet, FS_CardinalityType DEF KeepGoingCounts
  <2>4. KeepGoing' \in 0 .. prodThreads
    BY <1>3, <2>3, Sizes DEF NoMoreFiles, TypeOK
  <2> QED
    BY <1>3, <2>4, TypeOfLabels DEF NoMoreFiles, TypeOK, mainVars, stackVars, Labels
<1>4. CASE Announce(t)
  <2>1. filesReadLock' \in 0 .. ThreadCount
    BY <1>4, Sizes DEF Announce
  <2> QED
    BY <1>4, <2>1, TypeOfLabels DEF Announce, TypeOK, mainVars, stackVars, Labels
<1>5. CASE ReadNextPacket(t)
  <2>1. pPacket' \in [Threads -> Nat \X Nat]
    BY <1>5 DEF ReadNextPacket, TypeOK
  <2> QED
    BY <1>5, <2>1, TypeOfLabels DEF ReadNextPacket, TypeOK, mainVars, stackVars, fileVars, Labels
<1>6. CASE EndOfFile(t)
  BY <1>6, TypeOfLabels DEF EndOfFile, TypeOK, mainVars, stackVars, fileVars, Labels
<1>7. CASE LockPush(t)
  BY <1>7, TypeOfLabels DEF LockPush, TypeOK, mainVars, fileVars, Labels, Threads
<1>8. CASE WaitNotFull(t)
  <2>1. StackLock' \in 0 .. ThreadCount
    BY <1>8, Sizes DEF WaitNotFull
  <2> QED
    BY <1>8, <2>1, TypeOfLabels DEF WaitNotFull, TypeOK, mainVars, fileVars, Labels
<1>9. CASE Push(t)
  <2>1. pPacket[t] \in Packets
    BY <1>9 DEF Push, FilesRead, Reading, Offering
  <2>2. StackItems' \in Seq(Packets) /\ Len(StackItems') <= STACK_MAX_SIZE
    BY <1>9, <2>1, StackFacts, ArgumentsAssumption DEF Push, TypeOK
  <2>3. StackLock' \in 0 .. ThreadCount
    BY <1>9, Sizes DEF Push
  <2> QED
    BY <1>9, <2>2, <2>3, TypeOfLabels DEF Push, TypeOK, mainVars, fileVars, Labels
<1> QED
  BY <1>1, <1>2, <1>3, <1>4, <1>5, <1>6, <1>7, <1>8, <1>9 DEF ProducerStep

\* The steps of a consumer on the stack keep the types.
LEMMA TypeOfConsumer ==
  ASSUME TypeOK, PacketsAccounted, NEW t \in Consumers, ConsumerStep(t)
  PROVE  TypeOK'
<1> t \in Threads /\ ThreadStep(t)
  BY Sizes DEF ThreadStep
<1>1. CASE LockPop(t)
  BY <1>1, TypeOfLabels DEF LockPop, TypeOK, mainVars, fileVars, Labels, Threads
<1>2. CASE Pop(t)
  <2>1. StackItems' \in Seq(Packets) /\ Len(StackItems') <= STACK_MAX_SIZE
    BY <1>2, StackFacts, ArgumentsAssumption DEF Pop, TypeOK
  <2>2. pPacket' \in [Threads -> Nat \X Nat]
    <3>1. StackItems[Len(StackItems)] \in Packets
      BY <1>2, StackFacts DEF Pop
    <3>2. StackItems[Len(StackItems)] \in Nat \X Nat
      BY <3>1, PacketsTyped DEF Files
    <3>3. pPacket' = [pPacket EXCEPT ![t] = StackItems[Len(StackItems)]]
      BY <1>2 DEF Pop
    <3>4. pPacket \in [Threads -> Nat \X Nat]
      BY DEF TypeOK
    <3> QED
      BY <3>2, <3>3, <3>4, Zenon
  <2>3. StackLock' \in 0 .. ThreadCount
    BY <1>2, Sizes DEF Pop
  <2> QED
    BY <1>2, <2>1, <2>2, <2>3, TypeOfLabels DEF Pop, TypeOK, mainVars, fileVars, Labels
<1>3. CASE SeeKeepGoing(t)
  BY <1>3, TypeOfLabels DEF SeeKeepGoing, TypeOK, mainVars, stackVars, fileVars, Labels
<1>4. CASE WaitNotEmpty(t)
  <2>1. StackLock' \in 0 .. ThreadCount
    BY <1>4, Sizes DEF WaitNotEmpty
  <2> QED
    BY <1>4, <2>1, TypeOfLabels DEF WaitNotEmpty, TypeOK, mainVars, fileVars, Labels
<1>5. CASE StopConsuming(t)
  <2>1. StackLock' \in 0 .. ThreadCount
    BY <1>5, Sizes DEF StopConsuming
  <2> QED
    BY <1>5, <2>1, TypeOfLabels DEF StopConsuming, TypeOK, mainVars, fileVars, Labels
<1>6. CASE ProcessPacket(t)
  <2>1. pPacket[t] \in Packets
    BY <1>6 DEF ProcessPacket, PacketsAccounted, Taken, Taking
  <2> QED
    BY <1>6, <2>1, TypeOfLabels DEF ProcessPacket, TypeOK, mainVars, stackVars, fileVars, Labels
<1> QED
  BY <1>1, <1>2, <1>3, <1>4, <1>5, <1>6 DEF ConsumerStep

\* Creating and joining threads keeps the types.
LEMMA TypeOfMain ==
  ASSUME TypeOK, MainStep
  PROVE  TypeOK'
<1>1. CASE CreateThread
  <2>1. created' \in Threads
    BY <1>1, Sizes DEF CreateThread, TypeOK, Threads
  <2>2. /\ pc' \in [Threads -> Labels]
        /\ \A u \in Producers : pc'[u] \in ProducerLabels
        /\ \A u \in Consumers : pc'[u] \in ConsumerLabels
    BY <1>1, <2>1, Sizes
    DEF CreateThread, Goto, TypeOK, Labels, ProducerLabels, ConsumerLabels
  <2> QED
    BY <1>1, <2>1, <2>2 DEF CreateThread, TypeOK, stackVars, fileVars, Labels, Threads
<1>2. CASE JoinThread
  BY <1>2, Sizes DEF JoinThread, TypeOK, stackVars, fileVars
<1> QED
  BY <1>1, <1>2 DEF MainStep

\* A spurious wakeup keeps the types.
LEMMA TypeOfWakeup ==
  ASSUME TypeOK, NEW t \in Threads, SpuriousWakeup(t)
  PROVE  TypeOK'
BY TypeOfLabels
DEF SpuriousWakeup, TypeOK, mainVars, fileVars, stackVars, Labels

\* Every step keeps the types.
LEMMA TypePreserved ==
  ASSUME Safe, Next
  PROVE  TypeOK'
BY TypeOfMain, TypeOfProducer, TypeOfConsumer, TypeOfWakeup DEF Next, ThreadStep, Safe

-----------------------------------------------------------------------------
(* main, the mutexes, and the readers of the files *)

\* A thread that steps has been created and has not ended.
LEMMA StepSelf ==
  ASSUME TypeOK, NEW t \in Threads, ThreadStep(t) \/ SpuriousWakeup(t)
  PROVE  /\ pc[t] \notin {"new", "done"}
         /\ pc'[t] # "new"
         /\ UNCHANGED mainVars
BY Moves
DEF ThreadStep, ProducerStep, ConsumerStep, SpuriousWakeup, LockFiles,
    ClaimFile, NoMoreFiles, Announce, ReadNextPacket, EndOfFile, LockPush,
    WaitNotFull, Push, LockPop, Pop, SeeKeepGoing, WaitNotEmpty,
    StopConsuming, ProcessPacket, mainVars, Relock

\* Threads beyond the creating loop are new, those behind the joining loop done.
LEMMA MainLoopsPreserved ==
  ASSUME Safe, Next
  PROVE  MainLoops'
<1> USE DEF Safe
<1>1. CASE CreateThread
  <2>1. created \in Nat /\ created' = created + 1 /\ created' \in Threads
    BY <1>1, Sizes DEF CreateThread, TypeOK, Threads
  <2>2. /\ pc'[created'] # "new" /\ pc[created'] = "new"
        /\ \A u \in Threads \ {created'} : pc'[u] = pc[u]
    BY <1>1, <2>1 DEF CreateThread, Goto, MainLoops
  <2> QED
    BY <1>1, <2>1, <2>2 DEF CreateThread, MainLoops, Threads
<1>2. CASE JoinThread
  <2>1. joined \in Nat /\ joined + 1 \in Threads
    BY <1>2, Sizes DEF JoinThread, TypeOK, Threads
  <2> QED
    BY <1>2, <2>1 DEF JoinThread, MainLoops, Threads
<1>3. ASSUME NEW t \in Threads, ThreadStep(t) \/ SpuriousWakeup(t)
      PROVE  MainLoops'
  BY <1>3, StepSelf, StepFrame DEF MainLoops, Woke, mainVars
<1> QED
  BY <1>1, <1>2, <1>3 DEF Next, MainStep

\* What a step of t does to the two mutexes: it takes one that is free, gives
\* up the one it holds, or keeps what it has.
LEMMA LockSteps ==
  ASSUME TypeOK, MutexHolders, NEW t \in Threads, ThreadStep(t) \/ SpuriousWakeup(t)
  PROVE  /\ pc'[t] \in {"claim", "announce"} <=> filesReadLock' = t
         /\ pc'[t] \in {"push", "pop", "wait"} <=> StackLock' = t
         /\ \/ filesReadLock' = filesReadLock
            \/ filesReadLock = 0 /\ filesReadLock' = t
            \/ filesReadLock = t /\ filesReadLock' = 0
         /\ \/ StackLock' = StackLock
            \/ StackLock = 0 /\ StackLock' = t
            \/ StackLock = t /\ StackLock' = 0
<1> t # 0
  BY DEF Threads
<1>1. CASE t \in Producers /\ ProducerStep(t)
  BY <1>1, Moves
  DEF ProducerStep, LockFiles, ClaimFile, NoMoreFiles, Announce,
      ReadNextPacket, EndOfFile, LockPush, WaitNotFull, Push, MutexHolders,
      stackVars, fileVars
<1>2. CASE t \in Consumers /\ ConsumerStep(t)
  BY <1>2, Moves
  DEF ConsumerStep, LockPop, Pop, SeeKeepGoing, WaitNotEmpty,
      StopConsuming, ProcessPacket, MutexHolders, stackVars, fileVars
<1>3. CASE SpuriousWakeup(t)
  BY <1>3, Moves DEF SpuriousWakeup, MutexHolders, stackVars, fileVars, Relock
<1> QED
  BY <1>1, <1>2, <1>3 DEF ThreadStep

\* Each mutex has one holder, which stands inside its section.
LEMMA MutexHoldersPreserved ==
  ASSUME Safe, Next
  PROVE  MutexHolders'
<1> USE DEF Safe
<1>1. CASE MainStep
  <2>1. UNCHANGED <<filesReadLock, StackLock>>
    BY <1>1 DEF MainStep, CreateThread, JoinThread, fileVars, stackVars
  <2>2. \A u \in Threads : \/ pc'[u] = pc[u]
                           \/ pc[u] = "new" /\ pc'[u] \in {"lockFiles", "lockPop"}
    <3>1. CASE CreateThread
      <4>1. created' \in Threads /\ pc[created'] = "new"
        BY <3>1, Sizes DEF CreateThread, TypeOK, Threads, MainLoops
      <4> QED
        BY <3>1, <4>1 DEF CreateThread, Goto
    <3>2. CASE JoinThread
      BY <3>2 DEF JoinThread
    <3> QED
      BY <1>1, <3>1, <3>2 DEF MainStep
  <2> QED
    BY <2>1, <2>2 DEF MutexHolders
<1>2. ASSUME NEW t \in Threads, ThreadStep(t) \/ SpuriousWakeup(t)
      PROVE  MutexHolders'
  <2>1. ASSUME NEW u \in Threads \ {t}
        PROVE  /\ pc'[u] \in {"claim", "announce"} <=> pc[u] \in {"claim", "announce"}
               /\ pc'[u] \in {"push", "pop", "wait"} <=> pc[u] \in {"push", "pop", "wait"}
    BY <1>2, <2>1, StepFrame DEF Woke
  <2>2. 0 \notin Threads
    BY DEF Threads
  <2> QED
    BY <1>2, <2>1, <2>2, LockSteps DEF MutexHolders
<1> QED
  BY <1>1, <1>2 DEF Next

\* What main does to the threads: it sets one going, and nothing else.
LEMMA MainMoves ==
  ASSUME TypeOK, MainLoops, MainStep
  PROVE  /\ \A u \in Producers : \/ pc'[u] = pc[u]
                                 \/ pc[u] = "new" /\ pc'[u] = "lockFiles"
         /\ \A u \in Consumers : \/ pc'[u] = pc[u]
                                 \/ pc[u] = "new" /\ pc'[u] = "lockPop"
         /\ UNCHANGED <<pPacket, fileVars, stackVars, processed>>
<1>1. CASE CreateThread
  <2>1. created' \in Threads /\ pc[created'] = "new"
    BY <1>1, Sizes DEF CreateThread, TypeOK, Threads, MainLoops
  <2> QED
    BY <1>1, <2>1, Sizes DEF CreateThread, Goto
<1>2. CASE JoinThread
  BY <1>2 DEF JoinThread
<1> QED
  BY <1>1, <1>2 DEF MainStep

\* No two producers read the same file.
LEMMA FilesReadPreserved ==
  ASSUME Safe, Next
  PROVE  FilesRead'
<1> USE DEF Safe
<1>0. TypeOK'
  BY TypePreserved
<1>1. CASE MainStep
  BY <1>1, MainMoves DEF FilesRead, Reading, Offering, fileVars
<1>2. ASSUME NEW t \in Threads, ThreadStep(t) \/ SpuriousWakeup(t)
      PROVE  FilesRead'
  <2> DEFINE Same(u) ==
               /\ pc'[u] \in Offering <=> pc[u] \in Offering
               /\ pc'[u] = "read" <=> pc[u] = "read"
               /\ pc'[u] \in {"announce", "done"} <=> pc[u] \in {"announce", "done"}
  <2>1. \A u \in Producers \ {t} : Same(u)
    BY <1>2, StepFrame, Sizes DEF Woke, Offering
  <2>2. CASE /\ \A u \in Producers : Same(u)
             /\ \A u \in Producers : pPacket'[u] = pPacket[u]
             /\ filesRead' = filesRead
    BY <2>2 DEF FilesRead, Reading
  <2>3. CASE t \in Producers /\ ClaimFile(t)
    <3>1. /\ pc[t] = "claim" /\ pc'[t] = "read"
          /\ pPacket'[t] = <<filesRead, 0>>
          /\ filesRead' = filesRead + 1 /\ filesRead \in Files
          /\ \A u \in Producers \ {t} : pPacket'[u] = pPacket[u]
      BY <1>2, <2>3, Moves, Sizes, ArgumentsAssumption
      DEF ClaimFile, TypeOK, Files
    <3>2. Reading' = Reading \cup {t} /\ t \notin Reading
      BY <2>1, <2>3, <3>1 DEF Reading, Offering
    <3>3. \A u \in Reading : pPacket[u][1] < filesRead /\ pPacket[u][1] \in Nat
      BY Sizes DEF FilesRead, TypeOK, Reading
    <3>4. PacketCount[filesRead] \in Nat
      BY <3>1, ArgumentsAssumption DEF Files
    <3>5. \A u \in Producers : pc[u] \notin {"announce", "done"}
      BY <2>3 DEF ClaimFile, FilesRead, TypeOK
    <3>6. \A u \in Producers : pc'[u] \notin {"announce", "done"}
      BY <2>1, <3>1, <3>5
    <3>7. ASSUME NEW u \in Reading'
          PROVE  /\ pPacket'[u][1] < filesRead'
                 /\ pPacket'[u][2] <= PacketCount[pPacket'[u][1]]
                 /\ pc'[u] \in Offering => pPacket'[u] \in Packets
      <4>1. CASE u = t
        BY <4>1, <3>1, <3>4 DEF TypeOK, Offering
      <4>2. CASE u \in Reading /\ u # t
        BY <4>2, <2>1, <3>1, <3>3 DEF FilesRead, Reading, TypeOK
      <4> QED
        BY <4>1, <4>2, <3>2
    <3>8. ASSUME NEW u \in Reading', NEW v \in Reading', pPacket'[u][1] = pPacket'[v][1]
          PROVE  u = v
      <4>1. CASE u = t /\ v # t
        BY <4>1, <3>8, <3>1, <3>2, <3>3 DEF Reading, TypeOK
      <4>2. CASE v = t /\ u # t
        BY <4>2, <3>8, <3>1, <3>2, <3>3 DEF Reading, TypeOK
      <4>3. CASE u # t /\ v # t
        <5>1. u \in Reading /\ v \in Reading
          BY <4>3, <3>2
        <5>2. pPacket'[u] = pPacket[u] /\ pPacket'[v] = pPacket[v]
          BY <4>3, <5>1, <3>1 DEF Reading
        <5> QED
          BY <3>8, <5>1, <5>2 DEF FilesRead
      <4> QED
        BY <4>1, <4>2, <4>3
    <3> QED
      BY <3>6, <3>7, <3>8 DEF FilesRead
  <2>4. CASE t \in Producers /\ ReadNextPacket(t)
    <3>1. /\ t \in Reading
          /\ pc'[t] = "lockPush"
          /\ pPacket'[t] = <<pPacket[t][1], pPacket[t][2] + 1>>
          /\ filesRead' = filesRead
          /\ \A u \in Producers \ {t} : pPacket'[u] = pPacket[u]
          /\ pPacket[t][2] < PacketCount[pPacket[t][1]]
      BY <1>2, <2>4, Moves, Sizes DEF ReadNextPacket, TypeOK, fileVars, Reading
    <3>2. Reading' = Reading
      BY <2>1, <3>1 DEF Reading, Offering
    <3>3. pPacket[t][1] \in Files /\ pPacket[t][2] \in Nat
      BY <3>1, <1>2, ArgumentsAssumption DEF FilesRead, TypeOK, Files
    <3>4. PacketCount[pPacket[t][1]] \in Nat
      BY <3>3, ArgumentsAssumption DEF Files
    <3>5. pPacket'[t] \in Packets
      BY <3>1, <3>3, <3>4 DEF Packets
    <3>6. \A u \in Producers : pc'[u] \in {"announce", "done"} => filesRead' = filesToRead
      BY <2>1, <3>1 DEF FilesRead
    <3>7. ASSUME NEW u \in Reading
          PROVE  /\ pPacket'[u][1] < filesRead'
                 /\ pPacket'[u][2] <= PacketCount[pPacket'[u][1]]
                 /\ pc'[u] \in Offering => pPacket'[u] \in Packets
      <4>1. CASE u = t
        BY <4>1, <3>1, <3>3, <3>4, <3>5 DEF FilesRead
      <4>2. CASE u # t
        BY <4>2, <2>1, <3>1 DEF FilesRead, Reading
      <4> QED
        BY <4>1, <4>2
    <3>8. \A u \in Reading : pPacket'[u][1] = pPacket[u][1]
      BY <3>1 DEF Reading
    <3> QED
      BY <3>2, <3>6, <3>7, <3>8 DEF FilesRead
  <2>5. CASE t \in Producers /\ EndOfFile(t)
    <3>1. /\ Reading' = Reading \ {t}
          /\ pc'[t] = "lockFiles"
          /\ UNCHANGED <<pPacket, filesRead>>
      BY <1>2, <2>1, <2>5, Moves DEF EndOfFile, fileVars, Reading, Offering
    <3> QED
      BY <2>1, <3>1 DEF FilesRead, Reading
  <2>6. CASE t \in Producers /\ NoMoreFiles(t)
    <3>1. /\ Reading' = Reading /\ t \notin Reading
          /\ filesRead' = filesToRead
          /\ UNCHANGED <<pPacket, filesRead>>
      <4>1. /\ pc[t] = "claim" /\ pc'[t] = "announce"
            /\ UNCHANGED <<pPacket, filesRead>>
        BY <2>6, Moves DEF NoMoreFiles
      <4>2. filesRead = filesToRead
        BY <2>6, ArgumentsAssumption DEF NoMoreFiles, TypeOK
      <4> QED
        BY <1>2, <2>1, <2>6, <4>1, <4>2 DEF Reading, Offering
    <3> QED
      BY <2>1, <3>1 DEF FilesRead, Reading
  <2>7. CASE t \in Producers /\ Push(t)
    <3>1. /\ Reading' = Reading
          /\ pc'[t] = "read"
          /\ UNCHANGED <<pPacket, filesRead>>
      BY <1>2, <2>1, <2>7, Moves DEF Push, fileVars, Reading, Offering
    <3> QED
      BY <2>1, <3>1 DEF FilesRead, Reading, Offering
  <2>8. CASE t \in Producers /\ (LockFiles(t) \/ Announce(t) \/ LockPush(t) \/ WaitNotFull(t))
    BY <1>2, <2>1, <2>2, <2>8, Moves
    DEF LockFiles, Announce, LockPush, WaitNotFull, fileVars, Offering
  <2>9. CASE t \in Consumers /\ ConsumerStep(t)
    BY <1>2, <2>1, <2>2, <2>9, Sizes
    DEF ConsumerStep, LockPop, Pop, SeeKeepGoing, WaitNotEmpty, StopConsuming,
        ProcessPacket, fileVars, TypeOK
  <2>10. CASE SpuriousWakeup(t)
    BY <1>2, <2>1, <2>2, <2>10, Moves, Sizes
    DEF SpuriousWakeup, fileVars, Offering, Relock, TypeOK, ProducerLabels
  <2> QED
    BY <1>2, <2>3, <2>4, <2>5, <2>6, <2>7, <2>8, <2>9, <2>10
    DEF ThreadStep, ProducerStep
<1> QED
  BY <1>1, <1>2 DEF Next

-----------------------------------------------------------------------------
(***************************************************************************)
(* The packets.  A step leaves each packet where it is, or moves one of    *)
(* them one stage on.                                                      *)
(***************************************************************************)
Still == UNCHANGED <<Pending, Stacked, Taken, processed>>
Pushed(p) == /\ p \in Pending
             /\ Pending' = Pending \ {p}
             /\ Stacked' = Stacked \cup {p}
             /\ UNCHANGED <<Taken, processed>>
Popped(p) == /\ p \in Stacked
             /\ Stacked' = Stacked \ {p}
             /\ Taken' = Taken \cup {p}
             /\ UNCHANGED <<Pending, processed>>
Processed(p) == /\ p \in Taken
                /\ Taken' = Taken \ {p}
                /\ processed' = processed \cup {p}
                /\ UNCHANGED <<Pending, Stacked>>

\* the two kinds of thread that hold packets keep them apart
Apart ==
  /\ \A j, k \in 1 .. Len(StackItems) : StackItems[j] = StackItems[k] => j = k
  /\ \A t, u \in Taking : pPacket[t] = pPacket[u] => t = u

\* Threads that only change places outside reading, offering and processing
\* leave the packets alone.
LEMMA Quiet ==
  ASSUME Apart, UNCHANGED <<pPacket, filesRead, StackItems, processed>>,
         \A u \in Producers : /\ pc'[u] \in Offering <=> pc[u] \in Offering
                              /\ pc'[u] = "read" <=> pc[u] = "read",
         \A u \in Consumers : pc'[u] = "process" <=> pc[u] = "process"
  PROVE  Still /\ Apart'
<1>1. Reading' = Reading /\ Taking' = Taking
  BY DEF Reading, Taking
<1>2. Stacked' = Stacked /\ Taken' = Taken
  BY <1>1 DEF Stacked, Taken, Taking
<1>3. Pending' = Pending
  BY <1>1 DEF Pending, Reading
<1>4. Apart'
  BY <1>1 DEF Apart
<1> QED
  BY <1>2, <1>3, <1>4 DEF Still

\* Claiming a file, its first packet still to be read, moves no packet.
LEMMA ClaimMovesNothing ==
  ASSUME Safe, Apart, NEW t \in Producers, ClaimFile(t)
  PROVE  Still /\ Apart'
<1> USE DEF Safe
<1>0. t \in Threads /\ t \notin Consumers /\ ThreadStep(t)
  BY Sizes DEF ThreadStep, ProducerStep
<1>1. /\ pc[t] = "claim" /\ pc'[t] = "read"
      /\ pPacket'[t] = <<filesRead, 0>>
      /\ filesRead' = filesRead + 1 /\ filesRead \in Nat
      /\ \A u \in Threads \ {t} : pPacket'[u] = pPacket[u]
      /\ UNCHANGED <<StackItems, processed>>
  BY <1>0, Moves DEF ClaimFile, TypeOK, stackVars
<1>2. \A u \in Threads \ {t} : Woke(u)
  BY <1>0, StepFrame
<1>3. /\ Taking' = Taking
      /\ \A u \in Taking : pPacket'[u] = pPacket[u]
  BY <1>0, <1>1, <1>2, Sizes DEF Taking, Woke
<1>4. Taken' = Taken /\ Stacked' = Stacked /\ Apart'
  BY <1>1, <1>3 DEF Taken, Stacked, Apart
<1>5. Reading' = Reading \cup {t} /\ t \notin Reading
  BY <1>1, <1>2, Sizes DEF Reading, Offering, Woke
<1>6. \A u \in Reading : /\ pPacket'[u] = pPacket[u]
                         /\ pc'[u] \in Offering <=> pc[u] \in Offering
  BY <1>1, <1>2, <1>5, Sizes DEF Reading, Offering, Woke
<1>7. ASSUME NEW p \in Packets
      PROVE  p \in Pending' <=> p \in Pending
  <2>1. p[1] \in Nat /\ p[2] \in Nat /\ p[2] > 0
    BY ArgumentsAssumption DEF Packets, Files
  <2>2. p \in Pending' <=>
          \/ p[1] >= filesRead + 1
          \/ \E u \in Reading :
               /\ pPacket[u][1] = p[1]
               /\ \/ pPacket[u][2] < p[2]
                  \/ pPacket[u][2] = p[2] /\ pc[u] \in Offering
          \/ filesRead = p[1]
    BY <1>1, <1>5, <1>6, <2>1 DEF Pending, Offering
  <2> QED
    BY <2>1, <2>2, <1>1 DEF Pending
<1>8. Pending' = Pending
  BY <1>7 DEF Pending
<1> QED
  BY <1>1, <1>4, <1>8 DEF Still

\* Reading a packet, still to be pushed, moves no packet.
LEMMA ReadMovesNothing ==
  ASSUME Safe, Apart, NEW t \in Producers, ReadNextPacket(t) \/ EndOfFile(t)
  PROVE  Still /\ Apart'
<1> USE DEF Safe
<1>0. t \in Threads /\ t \notin Consumers /\ ThreadStep(t) /\ t \in Reading
  BY Sizes DEF ThreadStep, ProducerStep, ReadNextPacket, EndOfFile, Reading
<1>1. /\ pc[t] = "read"
      /\ \A u \in Threads \ {t} : pPacket'[u] = pPacket[u]
      /\ UNCHANGED <<filesRead, StackItems, processed>>
  BY <1>0 DEF ReadNextPacket, EndOfFile, TypeOK, fileVars, stackVars
<1>2. \A u \in Threads \ {t} : Woke(u)
  BY <1>0, StepFrame
<1>3. /\ Taking' = Taking
      /\ \A u \in Taking : pPacket'[u] = pPacket[u]
  BY <1>0, <1>1, <1>2, Sizes DEF Taking, Woke
<1>4. Taken' = Taken /\ Stacked' = Stacked /\ Apart'
  BY <1>1, <1>3 DEF Taken, Stacked, Apart
<1>5. \A u \in Producers \ {t} : /\ u \in Reading' <=> u \in Reading
                                 /\ pPacket'[u] = pPacket[u]
                                 /\ pc'[u] \in Offering <=> pc[u] \in Offering
  BY <1>1, <1>2, Sizes DEF Reading, Offering, Woke
<1>6. pPacket[t][2] \in Nat /\ pPacket[t][1] \in Nat
  BY <1>0 DEF TypeOK
<1> DEFINE Mine(p) == pPacket[t][1] = p[1] /\ pPacket[t][2] < p[2]
           MineNext(p) ==
             /\ t \in Reading'
             /\ pPacket'[t][1] = p[1]
             /\ \/ pPacket'[t][2] < p[2]
                \/ pPacket'[t][2] = p[2] /\ pc'[t] \in Offering
<1>7. ASSUME NEW p \in Packets
      PROVE  MineNext(p) <=> Mine(p)
  <2>1. p[1] \in Files /\ p[2] \in 1 .. PacketCount[p[1]]
    BY DEF Packets
  <2>2. PacketCount[p[1]] \in Nat
    BY <2>1, ArgumentsAssumption DEF Files
  <2>3. CASE ReadNextPacket(t)
    <3>1. /\ pc'[t] = "lockPush"
          /\ pPacket'[t] = <<pPacket[t][1], pPacket[t][2] + 1>>
      BY <1>0, <2>3, Moves DEF ReadNextPacket, TypeOK
    <3> QED
      BY <1>6, <2>1, <2>2, <3>1 DEF Reading, Offering
  <2>4. CASE EndOfFile(t)
    <3>1. /\ pc'[t] = "lockFiles"
          /\ pPacket[t][2] = PacketCount[pPacket[t][1]]
      BY <1>0, <2>4, Moves DEF EndOfFile
    <3> QED
      BY <1>6, <2>1, <2>2, <3>1 DEF Reading, Offering
  <2> QED
    BY <2>3, <2>4
<1>8. ASSUME NEW p \in Packets
      PROVE  p \in Pending' <=> p \in Pending
  <2> DEFINE Theirs == \E u \in Reading \ {t} :
                         /\ pPacket[u][1] = p[1]
                         /\ \/ pPacket[u][2] < p[2]
                            \/ pPacket[u][2] = p[2] /\ pc[u] \in Offering
  <2>1. p \in Pending <=> p[1] >= filesRead \/ Mine(p) \/ Theirs
    BY <1>0, <1>1 DEF Pending, Offering
  <2>2. p \in Pending' <=> p[1] >= filesRead \/ MineNext(p) \/ Theirs
    BY <1>1, <1>5 DEF Pending, Reading
  <2> HIDE DEF Theirs, Mine, MineNext
  <2> QED
    BY <1>7, <2>1, <2>2
<1>9. Pending' = Pending
  BY <1>8 DEF Pending
<1> QED
  BY <1>1, <1>4, <1>9 DEF Still

\* A push moves one packet to the stack.
LEMMA PushMoves ==
  ASSUME Safe, Apart, NEW t \in Producers, Push(t)
  PROVE  Pushed(pPacket[t]) /\ Apart'
<1> USE DEF Safe
<1> DEFINE q == pPacket[t]
<1>0. t \in Threads /\ t \notin Consumers /\ ThreadStep(t) /\ t \in Reading
  BY Sizes DEF ThreadStep, ProducerStep, Push, Reading, Offering
<1>1. /\ pc[t] = "push" /\ pc'[t] = "read"
      /\ StackItems' = Append(StackItems, q)
      /\ UNCHANGED <<pPacket, filesRead, processed>>
  BY <1>0, Moves DEF Push, fileVars
<1>2. \A u \in Threads \ {t} : Woke(u)
  BY <1>0, StepFrame
<1>3. Taking' = Taking /\ Reading' = Reading
  BY <1>0, <1>1, <1>2, Sizes DEF Taking, Reading, Offering, Woke
<1>4. Taken' = Taken
  BY <1>1, <1>3 DEF Taken
<1>5. q \in Packets /\ q \in Pending
  BY <1>0, <1>1 DEF FilesRead, Offering, Pending
<1>6. \A u \in Producers \ {t} : pc'[u] \in Offering <=> pc[u] \in Offering
  BY <1>2, Sizes DEF Offering, Woke
<1>7. ASSUME NEW p \in Packets
      PROVE  p \in Pending' <=> p \in Pending /\ p # q
  <2> DEFINE At(u) == /\ pPacket[u][1] = p[1]
                      /\ \/ pPacket[u][2] < p[2]
                         \/ pPacket[u][2] = p[2] /\ pc[u] \in Offering
  <2>1. p \in Pending <=> p[1] >= filesRead \/ \E u \in Reading : At(u)
    BY DEF Pending
  <2>2. p \in Pending' <=>
          \/ p[1] >= filesRead
          \/ \E u \in Reading \ {t} : At(u)
          \/ q[1] = p[1] /\ q[2] < p[2]
    BY <1>0, <1>1, <1>3, <1>6 DEF Pending, Reading, Offering
  <2>3. /\ q[1] < filesRead /\ filesRead \in Nat
        /\ \A u \in Reading \ {t} : pPacket[u][1] # q[1]
    BY <1>0 DEF FilesRead, TypeOK
  <2>4. /\ q \in Nat \X Nat /\ p \in Nat \X Nat
        /\ q[1] = p[1] /\ q[2] = p[2] <=> p = q
    BY <1>5, PacketsTyped, ArgumentsAssumption DEF Files
  <2>5. CASE p = q
    BY <2>2, <2>3, <2>4, <2>5
  <2>6. CASE p # q
    <3>1. At(t) <=> q[1] = p[1] /\ q[2] < p[2]
      BY <2>4, <2>6
    <3> HIDE DEF q
    <3> QED
      BY <1>0, <2>1, <2>2, <2>6, <3>1
  <2> QED
    BY <2>5, <2>6
<1>8. Pending' = Pending \ {q}
  BY <1>7 DEF Pending
<1>9. /\ Len(StackItems) \in Nat
      /\ Len(StackItems') = Len(StackItems) + 1
      /\ \A k \in 1 .. Len(StackItems) + 1 :
           StackItems'[k] = IF k = Len(StackItems) + 1 THEN q ELSE StackItems[k]
  BY <1>1, <1>5, StackFacts
<1>10. Stacked' = Stacked \cup {q}
  <2> HIDE DEF q
  <2>1. ASSUME NEW k \in 1 .. Len(StackItems)
        PROVE  StackItems[k] \in Stacked' /\ k \in 1 .. Len(StackItems')
    BY <1>9 DEF Stacked
  <2>2. q \in Stacked'
    BY <1>9 DEF Stacked
  <2>3. ASSUME NEW k \in 1 .. Len(StackItems')
        PROVE  StackItems'[k] \in Stacked \cup {q}
    BY <1>9 DEF Stacked
  <2> QED
    BY <2>1, <2>2, <2>3 DEF Stacked
<1>11. q \notin Stacked
  BY <1>5 DEF PacketsAccounted
<1>12. Apart'
  <2>1. ASSUME NEW j \in 1 .. Len(StackItems'), NEW k \in 1 .. Len(StackItems'),
               StackItems'[j] = StackItems'[k]
        PROVE  j = k
    <3> HIDE DEF q
    <3>1. \A i \in 1 .. Len(StackItems) : StackItems[i] # q
      BY <1>11 DEF Stacked
    <3> QED
      BY <1>9, <2>1, <3>1 DEF Apart
  <2>2. \A u, v \in Taking' : pPacket'[u] = pPacket'[v] => u = v
    BY <1>1, <1>3 DEF Apart
  <2> QED
    BY <2>1, <2>2 DEF Apart
<1> QED
  BY <1>1, <1>4, <1>5, <1>8, <1>10, <1>12 DEF Pushed

\* A pop moves the top packet to one consumer.
LEMMA PopMoves ==
  ASSUME Safe, Apart, NEW t \in Consumers, Pop(t)
  PROVE  Popped(StackItems[Len(StackItems)]) /\ Apart'
<1> USE DEF Safe
<1> DEFINE q == StackItems[Len(StackItems)]
<1>0. t \in Threads /\ t \notin Producers /\ ThreadStep(t) /\ t \notin Taking
  BY Sizes DEF ThreadStep, ConsumerStep, Pop, Taking
<1>1. /\ pc[t] = "pop" /\ pc'[t] = "process"
      /\ StackItems # <<>>
      /\ StackItems' = SubSeq(StackItems, 1, Len(StackItems) - 1)
      /\ pPacket'[t] = q
      /\ \A u \in Threads \ {t} : pPacket'[u] = pPacket[u]
      /\ UNCHANGED <<filesRead, processed>>
  BY <1>0, Moves DEF Pop, fileVars, TypeOK
<1>2. \A u \in Threads \ {t} : Woke(u)
  BY <1>0, StepFrame
<1>3. /\ Taking' = Taking \cup {t}
      /\ \A u \in Taking : pPacket'[u] = pPacket[u]
  BY <1>0, <1>1, <1>2, Sizes DEF Taking, Woke
<1>4. Taken' = Taken \cup {q}
  BY <1>1, <1>3 DEF Taken
<1>5. /\ Reading' = Reading
      /\ \A u \in Reading : /\ pPacket'[u] = pPacket[u]
                            /\ pc'[u] \in Offering <=> pc[u] \in Offering
  BY <1>0, <1>1, <1>2, Sizes DEF Reading, Offering, Woke
<1>6. Pending' = Pending
  BY <1>1, <1>5 DEF Pending
<1>7. /\ Len(StackItems) \in Nat /\ Len(StackItems) > 0
      /\ Len(StackItems') = Len(StackItems) - 1
      /\ \A k \in 1 .. Len(StackItems) - 1 : StackItems'[k] = StackItems[k]
  BY <1>1, StackFacts
<1>8. q \in Stacked
  BY <1>7 DEF Stacked
<1>9. \A k \in 1 .. Len(StackItems) : StackItems[k] = q => k = Len(StackItems)
  BY <1>7 DEF Apart
<1>10. Stacked' = Stacked \ {q}
  <2> HIDE DEF q
  <2>1. ASSUME NEW k \in 1 .. Len(StackItems')
        PROVE  StackItems'[k] \in Stacked \ {q}
    <3>1. k \in 1 .. Len(StackItems) /\ k # Len(StackItems)
      BY <1>7
    <3> QED
      BY <1>7, <1>9, <3>1 DEF Stacked
  <2>2. ASSUME NEW k \in 1 .. Len(StackItems), StackItems[k] # q
        PROVE  StackItems[k] \in Stacked'
    <3>1. k # Len(StackItems)
      BY <2>2 DEF q
    <3> QED
      BY <1>7, <3>1 DEF Stacked
  <2> QED
    BY <2>1, <2>2 DEF Stacked
<1>11. \A u \in Taking : pPacket[u] # q
  BY <1>8 DEF PacketsAccounted, Taken
<1>12. Apart'
  <2>1. ASSUME NEW j \in 1 .. Len(StackItems'), NEW k \in 1 .. Len(StackItems'),
               StackItems'[j] = StackItems'[k]
        PROVE  j = k
    BY <1>7, <2>1 DEF Apart
  <2>2. ASSUME NEW u \in Taking', NEW v \in Taking', pPacket'[u] = pPacket'[v]
        PROVE  u = v
    <3> HIDE DEF q
    <3> QED
      BY <1>1, <1>3, <1>11, <2>2 DEF Apart
  <2> QED
    BY <2>1, <2>2 DEF Apart
<1> QED
  BY <1>1, <1>4, <1>6, <1>8, <1>10, <1>12 DEF Popped

\* processPacket moves one packet to the processed ones.
LEMMA ProcessMoves ==
  ASSUME Safe, Apart, NEW t \in Consumers, ProcessPacket(t)
  PROVE  Processed(pPacket[t]) /\ Apart'
<1> USE DEF Safe
<1>0. t \in Threads /\ t \notin Producers /\ ThreadStep(t) /\ t \in Taking
  BY Sizes DEF ThreadStep, ConsumerStep, ProcessPacket, Taking
<1>1. /\ pc'[t] = "lockPop"
      /\ processed' = processed \cup {pPacket[t]}
      /\ UNCHANGED <<pPacket, filesRead, StackItems>>
  BY <1>0, Moves DEF ProcessPacket, fileVars, stackVars
<1>2. \A u \in Threads \ {t} : Woke(u)
  BY <1>0, StepFrame
<1>3. Taking' = Taking \ {t}
  BY <1>0, <1>1, <1>2, Sizes DEF Taking, Woke
<1>4. Taken' = Taken \ {pPacket[t]} /\ pPacket[t] \in Taken
  BY <1>0, <1>1, <1>3 DEF Taken, Apart
<1>5. /\ Reading' = Reading
      /\ \A u \in Reading : pc'[u] \in Offering <=> pc[u] \in Offering
  BY <1>0, <1>1, <1>2, Sizes DEF Reading, Offering, Woke
<1>6. Pending' = Pending /\ Stacked' = Stacked
  BY <1>1, <1>5 DEF Pending, Stacked
<1>7. Apart'
  BY <1>1, <1>3 DEF Apart
<1> QED
  BY <1>1, <1>4, <1>6, <1>7 DEF Processed

\* Every step of the program moves one packet at most, by one stage.
LEMMA Effect ==
  ASSUME Safe, Apart, [Next]_vars
  PROVE  /\ \/ Still
            \/ \E p \in Packets : Pushed(p) \/ Popped(p) \/ Processed(p)
         /\ Apart'
<1> USE DEF Safe
<1>1. CASE MainStep
  BY <1>1, MainMoves, Quiet DEF Offering, fileVars, stackVars
<1>2. CASE UNCHANGED vars
  BY <1>2, Quiet DEF vars
<1>3. ASSUME NEW t \in Threads, ThreadStep(t) \/ SpuriousWakeup(t)
      PROVE  /\ \/ Still
                \/ \E p \in Packets : Pushed(p) \/ Popped(p) \/ Processed(p)
             /\ Apart'
  <2>1. /\ \A u \in Producers \ {t} : /\ pc'[u] \in Offering <=> pc[u] \in Offering
                                      /\ pc'[u] = "read" <=> pc[u] = "read"
        /\ \A u \in Consumers \ {t} : pc'[u] = "process" <=> pc[u] = "process"
    BY <1>3, StepFrame, Sizes DEF Woke, Offering
  <2>2. CASE t \in Producers /\ ClaimFile(t)
    BY <2>2, ClaimMovesNothing
  <2>3. CASE t \in Producers /\ (ReadNextPacket(t) \/ EndOfFile(t))
    BY <2>3, ReadMovesNothing
  <2>4. CASE t \in Producers /\ Push(t)
    BY <2>4, PushMoves DEF PacketsAccounted, Pushed
  <2>5. CASE t \in Consumers /\ Pop(t)
    BY <2>5, PopMoves DEF PacketsAccounted, Popped
  <2>6. CASE t \in Consumers /\ ProcessPacket(t)
    BY <2>6, ProcessMoves DEF PacketsAccounted, Processed
  <2>7. CASE t \in Producers /\ (\/ LockFiles(t) \/ NoMoreFiles(t) \/ Announce(t)
                                 \/ LockPush(t) \/ WaitNotFull(t))
    BY <1>3, <2>1, <2>7, Moves, Quiet, Sizes
    DEF LockFiles, NoMoreFiles, Announce, LockPush, WaitNotFull, Offering,
        stackVars, fileVars
  <2>8. CASE t \in Consumers /\ (\/ LockPop(t) \/ SeeKeepGoing(t)
                                 \/ WaitNotEmpty(t) \/ StopConsuming(t))
    BY <1>3, <2>1, <2>8, Moves, Quiet, Sizes
    DEF LockPop, SeeKeepGoing, WaitNotEmpty, StopConsuming, Offering,
        stackVars, fileVars
  <2>9. CASE SpuriousWakeup(t)
    BY <1>3, <2>1, <2>9, Moves, Quiet, Sizes
    DEF SpuriousWakeup, Offering, Relock, stackVars, fileVars, TypeOK,
        ProducerLabels, ConsumerLabels
  <2> QED
    BY <1>3, <2>2, <2>3, <2>4, <2>5, <2>6, <2>7, <2>8, <2>9
    DEF ThreadStep, ProducerStep, ConsumerStep
<1> QED
  BY <1>1, <1>2, <1>3 DEF Next

\* Every step leaves every packet in exactly one place.
LEMMA PacketsPreserved ==
  ASSUME Safe, Next
  PROVE  PacketsAccounted'
<1>1. Apart /\ PacketsAccounted
  BY DEF Safe, PacketsAccounted, Apart
<1>2. /\ \/ Still
         \/ \E p \in Packets : Pushed(p) \/ Popped(p) \/ Processed(p)
      /\ Apart'
  BY <1>1, Effect
<1>3. CASE Still
  BY <1>1, <1>2, <1>3 DEF Still, PacketsAccounted, Apart
<1>4. ASSUME NEW p \in Packets, Pushed(p) \/ Popped(p) \/ Processed(p)
      PROVE  PacketsAccounted'
  BY <1>1, <1>2, <1>4 DEF Pushed, Popped, Processed, PacketsAccounted, Apart
<1> QED
  BY <1>2, <1>3, <1>4

-----------------------------------------------------------------------------
(* KeepGoing, and the threads that sleep *)

\* KeepGoing is 0 when every producer has announced its end.
LEMMA NoneGoing == KeepGoingCounts => (KeepGoing = 0 <=> Going = {})
BY GoingFinite, FS_EmptySet DEF KeepGoingCounts

\* KeepGoing counts the producers that have not announced their end.
LEMMA KeepGoingPreserved ==
  ASSUME Safe, Next
  PROVE  KeepGoingCounts'
<1> USE DEF Safe
<1>1. CASE MainStep
  <2>1. Going' = Going /\ KeepGoing' = KeepGoing
    BY <1>1, MainMoves DEF Going, fileVars
  <2> QED
    BY <2>1 DEF KeepGoingCounts
<1>2. ASSUME NEW t \in Threads, ThreadStep(t) \/ SpuriousWakeup(t)
      PROVE  KeepGoingCounts'
  <2>1. \A u \in Producers \ {t} : u \in Going' <=> u \in Going
    BY <1>2, StepFrame, Sizes DEF Woke, Going
  <2>2. CASE t \in Producers /\ NoMoreFiles(t)
    <3>1. t \in Going /\ t \notin Going' /\ KeepGoing' = KeepGoing - 1
      BY <2>2, Moves DEF NoMoreFiles, Going
    <3>2. Going' = Going \ {t}
      BY <2>1, <3>1 DEF Going
    <3> QED
      BY <3>1, <3>2, GoingFinite, FS_RemoveElement DEF KeepGoingCounts
  <2>3. CASE ~(t \in Producers /\ NoMoreFiles(t))
    <3>1. KeepGoing' = KeepGoing /\ (t \in Producers => (t \in Going' <=> t \in Going))
      <4>1. CASE t \in Producers /\ ProducerStep(t)
        BY <1>2, <2>3, <4>1, Moves
        DEF ProducerStep, LockFiles, ClaimFile, Announce, ReadNextPacket,
            EndOfFile, LockPush, WaitNotFull, Push, fileVars, Going
      <4>2. CASE t \in Consumers /\ ConsumerStep(t)
        BY <4>2, Sizes
        DEF ConsumerStep, LockPop, Pop, SeeKeepGoing, WaitNotEmpty,
            StopConsuming, ProcessPacket, fileVars
      <4>3. CASE SpuriousWakeup(t)
        BY <4>3, Moves DEF SpuriousWakeup, fileVars, Going, Relock
      <4> QED
        BY <1>2, <4>1, <4>2, <4>3 DEF ThreadStep
    <3>2. Going' = Going
      BY <2>1, <3>1 DEF Going
    <3> QED
      BY <3>1, <3>2 DEF KeepGoingCounts
  <2> QED
    BY <2>2, <2>3
<1> QED
  BY <1>1, <1>2 DEF Next

\* A thread falls asleep or stops by its own step, and only the last look of a
\* consumer, the end of a producer and a stop concern the sleepers.
LEMMA Sleepers ==
  ASSUME TypeOK, NEW t \in Threads, ThreadStep(t) \/ SpuriousWakeup(t)
  PROVE  /\ \A u \in Threads \ {t} :
              /\ pc'[u] = "NotEmptyCond" => pc[u] = "NotEmptyCond"
              /\ pc'[u] = "NotFullCond" => pc[u] = "NotFullCond"
              /\ pc'[u] = "done" <=> pc[u] = "done"
              /\ pc'[u] = "wait" <=> pc[u] = "wait"
              /\ pc[u] \in {"lockPush", "push"} => pc'[u] = pc[u]
         /\ pc'[t] = "NotEmptyCond" => t \in Consumers /\ WaitNotEmpty(t)
         /\ pc'[t] = "NotFullCond" => t \in Producers /\ WaitNotFull(t)
         /\ pc'[t] = "wait" => t \in Consumers /\ SeeKeepGoing(t)
         /\ pc'[t] = "done" => \/ t \in Producers /\ Announce(t)
                               \/ t \in Consumers /\ StopConsuming(t)
<1> DEFINE Self ==
         /\ pc'[t] = "NotEmptyCond" => t \in Consumers /\ WaitNotEmpty(t)
         /\ pc'[t] = "NotFullCond" => t \in Producers /\ WaitNotFull(t)
         /\ pc'[t] = "wait" => t \in Consumers /\ SeeKeepGoing(t)
         /\ pc'[t] = "done" => \/ t \in Producers /\ Announce(t)
                               \/ t \in Consumers /\ StopConsuming(t)
<1>1. ASSUME t \in Producers, ProducerStep(t)
      PROVE  Self
  <2>1. CASE WaitNotFull(t)
    BY <2>1, <1>1, Moves DEF WaitNotFull
  <2>2. CASE Announce(t)
    BY <2>2, <1>1, Moves DEF Announce
  <2>3. CASE \/ LockFiles(t) \/ ClaimFile(t) \/ NoMoreFiles(t)
             \/ ReadNextPacket(t) \/ EndOfFile(t) \/ LockPush(t) \/ Push(t)
    BY <2>3, Moves
    DEF LockFiles, ClaimFile, NoMoreFiles, ReadNextPacket, EndOfFile, LockPush, Push
  <2> QED
    BY <1>1, <2>1, <2>2, <2>3 DEF ProducerStep
<1>2. ASSUME t \in Consumers, ConsumerStep(t)
      PROVE  Self
  <2>1. CASE WaitNotEmpty(t)
    BY <2>1, <1>2, Moves DEF WaitNotEmpty
  <2>2. CASE SeeKeepGoing(t)
    BY <2>2, <1>2, Moves DEF SeeKeepGoing
  <2>3. CASE StopConsuming(t)
    BY <2>3, <1>2, Moves DEF StopConsuming
  <2>4. CASE LockPop(t) \/ Pop(t) \/ ProcessPacket(t)
    BY <2>4, Moves DEF LockPop, Pop, ProcessPacket
  <2> QED
    BY <1>2, <2>1, <2>2, <2>3, <2>4 DEF ConsumerStep
<1>3. ASSUME SpuriousWakeup(t)
      PROVE  Self
  BY <1>3, Moves DEF SpuriousWakeup, Relock
<1>4. \A u \in Threads \ {t} :
        /\ pc'[u] = "NotEmptyCond" => pc[u] = "NotEmptyCond"
        /\ pc'[u] = "NotFullCond" => pc[u] = "NotFullCond"
        /\ pc'[u] = "done" <=> pc[u] = "done"
        /\ pc'[u] = "wait" <=> pc[u] = "wait"
        /\ pc[u] \in {"lockPush", "push"} => pc'[u] = pc[u]
  BY StepFrame DEF Woke
<1>5. Self
  BY <1>1, <1>2, <1>3 DEF ThreadStep
<1> QED
  BY <1>4, <1>5

\* A broadcast leaves nobody asleep.
LEMMA Broadcasts ==
  ASSUME TypeOK, NEW t \in Threads,
         Announce(t) \/ StopConsuming(t)
  PROVE  Waiting("NotEmptyCond")' = {}
BY DEF Announce, StopConsuming, Goto, Waiting, Relock, TypeOK

\* KeepGoing reaches 0 for good.
LEMMA KeepGoingStays ==
  ASSUME Safe, Next, KeepGoing = 0
  PROVE  KeepGoing' = 0
<1> USE DEF Safe
<1>1. \A t \in Producers : ~NoMoreFiles(t)
  BY NoneGoing DEF NoMoreFiles, Going
<1>2. CASE MainStep
  BY <1>2, MainMoves DEF fileVars
<1>3. ASSUME NEW t \in Threads, ThreadStep(t) \/ SpuriousWakeup(t)
      PROVE  KeepGoing' = 0
  BY <1>1, <1>3
  DEF ThreadStep, ProducerStep, ConsumerStep, SpuriousWakeup, LockFiles,
      ClaimFile, Announce, ReadNextPacket, EndOfFile, LockPush, WaitNotFull,
      Push, LockPop, Pop, SeeKeepGoing, WaitNotEmpty, StopConsuming,
      ProcessPacket, fileVars
<1> QED
  BY <1>2, <1>3 DEF Next

\* The stack changes only in the hands of the thread that holds its lock.
LEMMA StackOwner ==
  ASSUME Safe, Next, StackItems' # StackItems
  PROVE  \/ \E t \in Producers : Push(t) /\ StackLock = t
         \/ \E t \in Consumers : Pop(t) /\ StackLock = t
<1> USE DEF Safe
<1>1. ~MainStep
  BY MainMoves DEF stackVars
<1>2. PICK t \in Threads : ThreadStep(t) \/ SpuriousWakeup(t)
  BY <1>1 DEF Next
<1>3. \/ t \in Producers /\ Push(t)
      \/ t \in Consumers /\ Pop(t)
  BY <1>2
  DEF ThreadStep, ProducerStep, ConsumerStep, SpuriousWakeup, LockFiles,
      ClaimFile, NoMoreFiles, Announce, ReadNextPacket, EndOfFile, LockPush,
      WaitNotFull, LockPop, SeeKeepGoing, WaitNotEmpty, StopConsuming,
      ProcessPacket, stackVars
<1> QED
  BY <1>3, Sizes DEF Push, Pop, MutexHolders

\* No consumer stops or misses the last broadcast beside one that is about to sleep.
LEMMA LastLookPreserved ==
  ASSUME Safe, Next
  PROVE  LastLook'
<1> USE DEF Safe
<1>1. CASE MainStep
  <2>1. UNCHANGED <<KeepGoing, StackItems>>
    BY <1>1, MainMoves DEF fileVars, stackVars
  <2>2. \A u \in Threads : /\ pc'[u] = "done" <=> pc[u] = "done"
                           /\ pc'[u] = "wait" <=> pc[u] = "wait"
                           /\ pc'[u] = "NotEmptyCond" <=> pc[u] = "NotEmptyCond"
    BY <1>1, MainMoves, Sizes
  <2> QED
    BY <2>1, <2>2, Sizes DEF LastLook, Waiting
<1>2. ASSUME NEW t \in Threads, ThreadStep(t) \/ SpuriousWakeup(t)
      PROVE  LastLook'
  <2>1. ASSUME NEW u \in Consumers, pc'[u] = "done"
        PROVE  KeepGoing' = 0
    <3>1. KeepGoing = 0
      BY <1>2, <2>1, Sleepers, Sizes DEF LastLook, StopConsuming
    <3> QED
      BY <1>2, <3>1, KeepGoingStays
  <2>2. ASSUME NEW c \in Consumers, pc'[c] = "wait"
        PROVE  /\ StackItems' = <<>>
               /\ \A u \in Consumers : pc'[u] # "done"
               /\ (\A u \in Producers : pc'[u] = "done") => Waiting("NotEmptyCond")' = {}
    <3>1. CASE c = t
      <4>1. /\ SeeKeepGoing(t) /\ KeepGoing # 0 /\ StackItems = <<>>
            /\ StackItems' = StackItems
        BY <1>2, <2>2, <3>1, Sleepers, Sizes DEF SeeKeepGoing, stackVars
      <4>2. \A u \in Consumers : pc'[u] # "done"
        BY <1>2, <2>2, <3>1, <4>1, Sleepers, Sizes DEF LastLook
      <4>3. PICK u \in Producers : pc[u] \notin {"announce", "done"}
        BY <4>1, NoneGoing DEF Going
      <4>4. pc'[u] # "done"
        BY <1>2, <3>1, <4>3, Sleepers, Sizes
      <4> QED
        BY <4>1, <4>2, <4>4
    <3>2. CASE c # t
      <4>1. pc[c] = "wait" /\ StackLock = c
        BY <1>2, <2>2, <3>2, Sleepers, Sizes DEF MutexHolders
      <4>2. StackItems' = StackItems
        BY <1>2, <3>2, <4>1, StackOwner, Moves, Sizes DEF MutexHolders, Push, Pop
      <4>3. t \in Consumers => ~StopConsuming(t) /\ ~WaitNotEmpty(t)
        BY <3>2, <4>1 DEF StopConsuming, WaitNotEmpty, MutexHolders
      <4>4. \A u \in Consumers : pc'[u] # "done"
        BY <1>2, <4>1, <4>3, Sleepers, Sizes DEF LastLook
      <4>5. ASSUME \A u \in Producers : pc'[u] = "done"
            PROVE  Waiting("NotEmptyCond")' = {}
        <5>1. CASE t \in Producers /\ Announce(t)
          BY <5>1, Broadcasts, <1>2
        <5>2. CASE ~(t \in Producers /\ Announce(t))
          <6>1. \A u \in Producers : pc[u] = "done"
            BY <1>2, <4>5, <5>2, Sleepers, Sizes
          <6>2. Waiting("NotEmptyCond") = {}
            BY <4>1, <6>1 DEF LastLook
          <6> QED
            BY <1>2, <4>3, <6>2, Sleepers DEF Waiting
        <5> QED
          BY <5>1, <5>2
      <4> QED
        BY <4>1, <4>2, <4>4, <4>5 DEF LastLook
    <3> QED
      BY <3>1, <3>2
  <2> QED
    BY <2>1, <2>2 DEF LastLook
<1> QED
  BY <1>1, <1>2 DEF Next

\* When KeepGoing is 0 no producer will push again, so an empty stack stays so.
LEMMA DrainedPreserved ==
  ASSUME Safe, Next
  PROVE  DrainedBeforeExit'
<1> USE DEF Safe
<1>1. SUFFICES ASSUME NEW c \in Consumers, pc'[c] = "done"
               PROVE  /\ StackItems' = <<>>
                      /\ \A u \in Producers : pc'[u] \in {"announce", "done"}
  BY DEF DrainedBeforeExit
<1>2. KeepGoing = 0 /\ StackItems = <<>>
  <2>1. CASE MainStep
    BY <1>1, <2>1, MainMoves DEF LastLook, DrainedBeforeExit
  <2>2. ASSUME NEW t \in Threads, ThreadStep(t) \/ SpuriousWakeup(t)
        PROVE  KeepGoing = 0 /\ StackItems = <<>>
    <3>1. CASE c = t
      BY <1>1, <2>2, <3>1, Sleepers, Sizes DEF StopConsuming
    <3>2. CASE c # t
      BY <1>1, <2>2, <3>2, Sleepers, Sizes DEF LastLook, DrainedBeforeExit
    <3> QED
      BY <3>1, <3>2
  <2> QED
    BY <2>1, <2>2 DEF Next
<1>3. \A u \in Producers : pc[u] \in {"announce", "done"}
  BY <1>2, NoneGoing DEF Going
<1>4. StackItems' = <<>>
  BY <1>2, <1>3, StackOwner DEF Push, Pop
<1>5. KeepGoing' = 0 /\ KeepGoingCounts'
  BY <1>2, KeepGoingStays, KeepGoingPreserved
<1>6. IsFiniteSet(Going')
  <2>1. Going' \subseteq Producers
    BY DEF Going
  <2>2. IsFiniteSet(Producers)
    BY Sizes, FS_Interval DEF Producers
  <2> QED
    BY <2>1, <2>2, FS_Subset
<1>7. Going' = {}
  BY <1>5, <1>6, FS_EmptySet DEF KeepGoingCounts
<1> QED
  BY <1>4, <1>7 DEF Going

\* Push wakes a consumer and Pop a producer, if one sleeps.
LEMMA SleepPreserved ==
  ASSUME Safe, Next
  PROVE  NoSleepOnWork'
<1> USE DEF Safe
<1>1. CASE MainStep
  <2>1. StackItems' = StackItems
    BY <1>1, MainMoves DEF stackVars
  <2>2. \A u \in Threads : /\ pc'[u] = "NotEmptyCond" => pc[u] = "NotEmptyCond"
                           /\ pc'[u] = "NotFullCond" => pc[u] = "NotFullCond"
                           /\ pc[u] \in {"lockPush", "push"} => pc'[u] = pc[u]
    BY <1>1, MainMoves, Sizes
  <2> QED
    BY <2>1, <2>2, Sizes DEF NoSleepOnWork, Waiting
<1>2. ASSUME NEW t \in Threads, ThreadStep(t) \/ SpuriousWakeup(t)
      PROVE  NoSleepOnWork'
  <2>1. ASSUME StackItems' # <<>>
        PROVE  \E c \in Consumers : pc'[c] # "NotEmptyCond"
    <3>1. CASE StackItems # <<>>
      <4>1. PICK c \in Consumers : pc[c] # "NotEmptyCond"
        BY <3>1 DEF NoSleepOnWork
      <4>2. ~(t \in Consumers /\ WaitNotEmpty(t))
        BY <3>1 DEF WaitNotEmpty, LastLook
      <4> QED
        BY <1>2, <4>1, <4>2, Sleepers, Sizes
    <3>2. CASE StackItems = <<>>
      <4>1. PICK p \in Producers : Push(p)
        BY <2>1, <3>2, StackOwner DEF Pop
      <4>2. PICK woken \in Signalled("NotEmptyCond") : Goto(p, "read", woken)
        BY <4>1 DEF Push
      <4>3. CASE Waiting("NotEmptyCond") = {}
        <5>1. ThreadCount \in Consumers /\ ThreadCount \in Threads
          BY Sizes DEF Consumers, Threads
        <5>2. pc[ThreadCount] # "NotEmptyCond" /\ pc'[ThreadCount] = pc[ThreadCount]
          BY <4>2, <4>3, <5>1, <4>1, Sizes DEF Waiting, Goto, Signalled
        <5> QED
          BY <5>1, <5>2
      <4>4. CASE Waiting("NotEmptyCond") # {}
        <5>1. PICK w \in Waiting("NotEmptyCond") : woken = {w}
          BY <4>2, <4>4 DEF Signalled
        <5>2. w \in Consumers
          BY <5>1, Sizes DEF Waiting, TypeOK, ProducerLabels
        <5>3. pc'[w] = "lockPop"
          BY <4>1, <4>2, <5>1, <5>2, Sizes DEF Goto, Relock, Waiting
        <5> QED
          BY <5>2, <5>3
      <4> QED
        BY <4>3, <4>4
    <3> QED
      BY <3>1, <3>2
  <2>2. ASSUME Waiting("NotFullCond")' # {}, StackItems' = <<>>
        PROVE  \E p \in Producers : pc'[p] \in {"lockPush", "push"}
    <3>1. ~(t \in Producers /\ WaitNotFull(t))
      BY <2>2, ArgumentsAssumption DEF WaitNotFull, TypeOK
    <3>2. PICK w \in Threads : pc[w] = "NotFullCond" /\ pc'[w] = "NotFullCond"
      BY <1>2, <2>2, <3>1, Sleepers DEF Waiting
    <3>3. CASE StackItems = <<>>
      <4>1. PICK p \in Producers : pc[p] \in {"lockPush", "push"}
        BY <3>2, <3>3 DEF NoSleepOnWork, Waiting
      <4>2. CASE p # t
        BY <1>2, <4>1, <4>2, Sleepers, Sizes
      <4>3. CASE p = t
        <5>1. LockPush(t) \/ Push(t)
          BY <1>2, <3>1, <4>1, <4>3, Sizes
          DEF ThreadStep, ProducerStep, SpuriousWakeup, LockFiles, ClaimFile,
              NoMoreFiles, Announce, ReadNextPacket, EndOfFile
        <5>2. CASE LockPush(t)
          BY <4>1, <4>3, <5>2, Moves DEF LockPush
        <5>3. CASE Push(t)
          <6>1. pPacket[t] \in Packets
            BY <4>1, <4>3, <5>3 DEF Push, FilesRead, Reading, Offering
          <6>2. Len(StackItems') > 0
            BY <5>3, <6>1, StackFacts DEF Push
          <6> QED
            BY <2>2, <6>2
        <5> QED
          BY <5>1, <5>2, <5>3
      <4> QED
        BY <4>2, <4>3
    <3>4. CASE StackItems # <<>>
      <4>1. PICK c \in Consumers : Pop(c)
        <5>1. \A p \in Producers : ~Push(p)
          <6>1. ASSUME NEW p \in Producers, Push(p)
                PROVE  FALSE
            <7>1. pPacket[p] \in Packets
              BY <6>1 DEF Push, FilesRead, Reading, Offering
            <7>2. Len(StackItems') > 0
              BY <6>1, <7>1, StackFacts DEF Push
            <7> QED
              BY <2>2, <7>2
          <6> QED
            BY <6>1
        <5> QED
          BY <2>2, <3>4, <5>1, StackOwner
      <4>2. PICK woken \in Signalled("NotFullCond") : Goto(c, "process", woken)
        BY <4>1 DEF Pop
      <4>3. PICK v \in Waiting("NotFullCond") : woken = {v}
        BY <3>2, <4>2 DEF Signalled, Waiting
      <4>4. v \in Producers /\ v # c
        BY <4>1, <4>3, Sizes DEF Waiting, TypeOK, ConsumerLabels
      <4>5. pc'[v] = "lockPush"
        BY <4>2, <4>3, <4>4, Sizes DEF Goto, Relock, Waiting
      <4> QED
        BY <4>4, <4>5
    <3> QED
      BY <3>3, <3>4
  <2> QED
    BY <2>1, <2>2 DEF NoSleepOnWork
<1> QED
  BY <1>1, <1>2 DEF Next

\* The consumer that slept through the last broadcast has a companion.
LEMMA CompanyPreserved ==
  ASSUME Safe, Next
  PROVE  NoConsumerLeft'
<1> USE DEF Safe
<1>1. SUFFICES ASSUME consThreads >= 2,
                      \A u \in Producers : pc'[u] = "done",
                      Waiting("NotEmptyCond")' # {}
               PROVE  \E c \in Consumers : pc'[c] \notin {"NotEmptyCond", "done"}
  BY DEF NoConsumerLeft
<1>2. CASE MainStep
  <2>1. \A u \in Threads : /\ pc'[u] = "NotEmptyCond" <=> pc[u] = "NotEmptyCond"
                           /\ pc'[u] = "done" <=> pc[u] = "done"
    BY <1>2, MainMoves, Sizes
  <2> QED
    BY <1>1, <2>1, Sizes DEF NoConsumerLeft, Waiting
<1>3. ASSUME NEW t \in Threads, ThreadStep(t) \/ SpuriousWakeup(t)
      PROVE  \E c \in Consumers : pc'[c] \notin {"NotEmptyCond", "done"}
  <2>1. /\ ~(t \in Producers /\ Announce(t))
        /\ ~(t \in Consumers /\ StopConsuming(t))
    BY <1>1, <1>3, Broadcasts
  <2>2. \A u \in Producers : pc[u] = "done"
    BY <1>1, <1>3, <2>1, Sleepers, Sizes
  <2>3. CASE t \in Consumers /\ WaitNotEmpty(t)
    <3>1. /\ pc[t] = "wait"
          /\ Waiting("NotEmptyCond") = {}
          /\ \A u \in Consumers : pc[u] # "done"
      BY <2>2, <2>3 DEF WaitNotEmpty, LastLook
    <3>2. PICK c \in Consumers : c # t
      <4>1. ThreadCount \in Consumers /\ ThreadCount - 1 \in Consumers
        BY <1>1, Sizes, ArgumentsAssumption
        DEF Consumers, ThreadCount, consThreads
      <4> QED
        BY <4>1, Sizes
    <3>3. pc'[c] \notin {"NotEmptyCond", "done"}
      BY <1>3, <3>1, <3>2, Sleepers, Sizes DEF Waiting
    <3> QED
      BY <3>3
  <2>4. CASE ~(t \in Consumers /\ WaitNotEmpty(t))
    <3>1. Waiting("NotEmptyCond") # {}
      BY <1>1, <1>3, <2>4, Sleepers DEF Waiting
    <3>2. PICK c \in Consumers : pc[c] \notin {"NotEmptyCond", "done"}
      BY <1>1, <2>2, <3>1 DEF NoConsumerLeft
    <3>3. pc'[c] \notin {"NotEmptyCond", "done"}
      BY <1>3, <2>1, <2>4, <3>2, Sleepers, Sizes
    <3> QED
      BY <3>3
  <2> QED
    BY <2>3, <2>4
<1> QED
  BY <1>2, <1>3 DEF Next

-----------------------------------------------------------------------------
(* The theorems *)

\* The state before the first thread is created is safe.
LEMMA InitSafe == Init => Safe
<1> SUFFICES ASSUME Init
             PROVE  Safe
  OBVIOUS
<1>1. \A t \in Threads : pc[t] = "new"
  BY DEF Init
<1>2. Reading = {} /\ Taking = {} /\ Going = Producers
  BY <1>1, Sizes DEF Reading, Offering, Taking, Going
<1>3. TypeOK
  <2>1. StackItems \in Seq(Packets) /\ Len(StackItems) = 0
    BY DEF Init
  <2> QED
    BY <2>1, Sizes, ArgumentsAssumption
    DEF Init, TypeOK, ProducerLabels, ConsumerLabels, Threads
<1>4. MainLoops /\ MutexHolders
  BY DEF Init, MainLoops, MutexHolders, Threads
<1>5. FilesRead
  BY <1>1, <1>2, Sizes DEF FilesRead
<1>6. KeepGoingCounts
  BY <1>2, Sizes, FS_Interval DEF Init, KeepGoingCounts, Producers
<1>7. PacketsAccounted
  <2>1. Stacked = {} /\ Taken = {} /\ processed = {}
    BY <1>2 DEF Init, Stacked, Taken
  <2>2. Pending = Packets
    BY ArgumentsAssumption DEF Init, Pending, Packets, Files
  <2> QED
    BY <1>2, <2>1, <2>2 DEF Init, PacketsAccounted
<1>8. LastLook /\ DrainedBeforeExit /\ NoSleepOnWork /\ NoConsumerLeft
  BY <1>1, Sizes
  DEF Init, LastLook, DrainedBeforeExit, NoSleepOnWork, NoConsumerLeft, Waiting
<1> QED
  BY <1>3, <1>4, <1>5, <1>6, <1>7, <1>8 DEF Safe

\* A step that changes nothing keeps the invariant.
LEMMA StutterSafe ==
  ASSUME Safe, UNCHANGED vars
  PROVE  Safe'
<1>1. TypeOK' /\ MainLoops' /\ MutexHolders'
  BY DEF Safe, vars, TypeOK, MainLoops, MutexHolders
<1>2. FilesRead' /\ KeepGoingCounts'
  BY DEF Safe, vars, FilesRead, Reading, KeepGoingCounts, Going
<1>3. PacketsAccounted'
  <2>1. PacketsAccounted /\ Apart
    BY DEF Safe, PacketsAccounted, Apart
  <2>2. Still /\ Apart'
    BY <2>1, Quiet DEF vars
  <2> QED
    BY <2>1, <2>2 DEF Still, PacketsAccounted, Apart
<1>4. LastLook' /\ DrainedBeforeExit'
  BY DEF Safe, vars, LastLook, Waiting, DrainedBeforeExit
<1>5. NoSleepOnWork' /\ NoConsumerLeft'
  BY DEF Safe, vars, Waiting, NoSleepOnWork, NoConsumerLeft
<1> QED
  BY <1>1, <1>2, <1>3, <1>4, <1>5 DEF Safe

\* Safe is inductive: whatever the number of files, packets and threads, every
\* step of a thread, of main and of a spurious wakeup preserves it.
THEOREM SpecSafe == Spec => []Safe
<1>1. Safe /\ [Next]_vars => Safe'
  <2>1. ASSUME Safe, Next
        PROVE  Safe'
    BY <2>1, TypePreserved, MainLoopsPreserved, MutexHoldersPreserved,
       FilesReadPreserved, KeepGoingPreserved, PacketsPreserved,
       LastLookPreserved, DrainedPreserved, SleepPreserved, CompanyPreserved
    DEF Safe
  <2> QED
    BY <2>1, StutterSafe
<1> QED
  BY InitSafe, <1>1, PTL DEF Spec

\* The stack stays within its array and the counters within their ranges.
THEOREM SpecTypeOK == Spec => []TypeOK
<1>1. Safe => TypeOK
  BY DEF Safe
<1> QED
  BY <1>1, SpecSafe, PTL

\* The producers and consumers lose no packet and process none twice.
THEOREM SpecPacketsAccounted == Spec => []PacketsAccounted
<1>1. Safe => PacketsAccounted
  BY DEF Safe
<1> QED
  BY <1>1, SpecSafe, PTL

\* A consumer that returns from thread_consumer leaves no packet behind.
THEOREM SpecDrainedBeforeExit == Spec => []DrainedBeforeExit
<1>1. Safe => DrainedBeforeExit
  BY DEF Safe
<1> QED
  BY <1>1, SpecSafe, PTL

\* The signals of push and pop suffice: nobody sleeps while there is work.
THEOREM SpecNoSleepOnWork == Spec => []NoSleepOnWork
<1>1. Safe => NoSleepOnWork
  BY DEF Safe
<1> QED
  BY <1>1, SpecSafe, PTL

\* With two consumers or more the lost broadcast of main.c:70 is made good by
\* the broadcast of main.c:41.
THEOREM SpecNoConsumerLeft == Spec => []NoConsumerLeft
<1>1. Safe => NoConsumerLeft
  BY DEF Safe
<1> QED
  BY <1>1, SpecSafe, PTL

\* When all threads have ended the producers have read every file and the
\* consumers have emptied the stack.
LEMMA AllDone ==
  ASSUME Safe, \A t \in Threads : pc[t] = "done"
  PROVE  processed = Packets
<1> USE DEF Safe
<1>1. \A t \in Threads : pc[t] = "done"
  OBVIOUS
<1>2. ThreadCount \in Consumers
  BY Sizes DEF Consumers
<1>3. StackItems = <<>>
  BY <1>1, <1>2, Sizes DEF DrainedBeforeExit
<1>4. Stacked = {} /\ Taken = {} /\ Reading = {}
  BY <1>1, <1>3, Sizes DEF Stacked, Taken, Taking, Reading, Offering
<1>5. filesRead = filesToRead \/ filesToRead = 0
  <2>1. CASE prodThreads = 0
    BY <2>1, Sizes
  <2>2. CASE prodThreads # 0
    <3>1. 1 \in Producers
      BY <2>2, Sizes DEF Producers
    <3> QED
      BY <1>1, <3>1, Sizes DEF FilesRead
  <2> QED
    BY <2>1, <2>2
<1>6. Pending = {}
  BY <1>4, <1>5, ArgumentsAssumption DEF Pending, Packets, Files, TypeOK
<1> QED
  BY <1>4, <1>6 DEF PacketsAccounted

\* The totals main prints cover every packet of every file.
THEOREM SpecTallyAfterAll == Spec => []TallyAfterAll
<1>1. Safe => TallyAfterAll
  BY AllDone, Sizes DEF TallyAfterAll, Safe, MainLoops, Threads
<1> QED
  BY <1>1, SpecSafe, PTL

-----------------------------------------------------------------------------
(* The refinement of Handoff *)

\* The place of a packet, read off the partition.
LEMMA PlaceOf ==
  ASSUME PacketsAccounted, NEW p \in Packets
  PROVE  /\ Place(p) = "source" <=> p \in Pending
         /\ Place(p) = "buffer" <=> p \in Stacked
         /\ Place(p) = "taken" <=> p \in Taken
         /\ Place(p) = "used" <=> p \in processed
         /\ Place(p) \in {"source", "buffer", "taken", "used"}
BY DEF Place, PacketsAccounted

\* The place of a packet after a step.
LEMMA PlaceOfNext ==
  ASSUME PacketsAccounted', NEW p \in Packets
  PROVE  /\ Place(p)' = "source" <=> p \in Pending'
         /\ Place(p)' = "buffer" <=> p \in Stacked'
         /\ Place(p)' = "taken" <=> p \in Taken'
         /\ Place(p)' = "used" <=> p \in processed'
         /\ Place(p)' \in {"source", "buffer", "taken", "used"}
BY DEF Place, PacketsAccounted

\* Through PacketsAccounted a step of redextract is a step of Handoff: a push
\* puts a packet in the buffer, a pop takes it out, processPacket uses it, and
\* the last pthread_join reports.
THEOREM SpecImplementsHandoff == Spec => ImplementsHandoff
<1> DEFINE place == [p \in Packets |-> Place(p)]
           reported == joined = ThreadCount
<1>1. Init => Promise!Init
  <2> SUFFICES ASSUME Init
               PROVE  Promise!Init
    OBVIOUS
  <2>1. Safe
    BY InitSafe
  <2>2. Stacked = {} /\ Taken = {} /\ processed = {}
    BY Sizes DEF Init, Stacked, Taken, Taking
  <2>3. \A p \in Packets : Place(p) = "source"
    BY <2>2 DEF Place
  <2> QED
    BY <2>3, Sizes DEF Init, Promise!Init
<1>2. Safe /\ Safe' /\ [Next]_vars => [Promise!Next]_(Promise!handoffVars)
  <2> SUFFICES ASSUME Safe, Safe', [Next]_vars
               PROVE  [Promise!Next]_(Promise!handoffVars)
    OBVIOUS
  <2>1. PacketsAccounted /\ PacketsAccounted' /\ Apart
    BY DEF Safe, PacketsAccounted, Apart
  <2>2. \/ Still
        \/ \E p \in Packets : Pushed(p) \/ Popped(p) \/ Processed(p)
    BY <2>1, Effect
  <2>3. CASE joined' # joined
    <3>1. JoinThread
      BY <2>3
      DEF Next, vars, MainStep, CreateThread, ThreadStep, ProducerStep,
          ConsumerStep, SpuriousWakeup, LockFiles, ClaimFile, NoMoreFiles,
          Announce, ReadNextPacket, EndOfFile, LockPush, WaitNotFull, Push,
          LockPop, Pop, SeeKeepGoing, WaitNotEmpty, StopConsuming,
          ProcessPacket, mainVars
    <3>2. /\ joined < ThreadCount /\ joined' = joined + 1
          /\ UNCHANGED <<pc, pPacket, StackItems, processed>>
      BY <3>1 DEF JoinThread, stackVars
    <3>3. \A p \in Packets : Place(p)' = Place(p)
      BY <3>2 DEF Place, Taken, Taking, Stacked
    <3>4. place' = place
      BY <3>3
    <3>5. CASE joined' = ThreadCount
      <4>1. \A t \in Threads : pc[t] = "done"
        <5>1. \A t \in Threads : t <= joined => pc[t] = "done"
          BY DEF Safe, MainLoops
        <5>2. pc[joined + 1] = "done"
          BY <3>1 DEF JoinThread
        <5>3. joined + 1 = ThreadCount /\ joined \in Nat
          BY <3>2, <3>5 DEF Safe, TypeOK
        <5> QED
          BY <5>1, <5>2, <5>3 DEF Threads
      <4>2. \A p \in Packets : Place(p) = "used"
        BY <4>1, AllDone DEF Place
      <4> QED
        BY <3>4, <3>5, <4>2 DEF Promise!Next, Promise!Report
    <3>6. CASE joined' # ThreadCount
      BY <3>2, <3>4, <3>6, Sizes DEF Promise!handoffVars
    <3> QED
      BY <3>5, <3>6
  <2>4. CASE joined' = joined
    <3>1. reported' = reported
      BY <2>4
    <3>2. CASE Still
      <4>1. \A p \in Packets : Place(p)' = Place(p)
        BY <3>2 DEF Place, Still
      <4>2. place' = place
        BY <4>1
      <4> QED
        BY <3>1, <4>2 DEF Promise!handoffVars
    <3>3. ASSUME NEW p \in Packets, Pushed(p)
          PROVE  Promise!Put(p)
      <4>1. Place(p) = "source" /\ Place(p)' = "buffer"
        BY <2>1, <3>3, PlaceOf, PlaceOfNext DEF Pushed
      <4>2. \A q \in Packets \ {p} : Place(q)' = Place(q)
        BY <3>3 DEF Pushed, Place
      <4>3. place' = [place EXCEPT ![p] = "buffer"]
        BY <4>1, <4>2
      <4> QED
        BY <3>1, <4>1, <4>3 DEF Promise!Put, Promise!Move
    <3>4. ASSUME NEW p \in Packets, Popped(p)
          PROVE  Promise!Take(p)
      <4>1. Place(p) = "buffer" /\ Place(p)' = "taken"
        BY <2>1, <3>4, PlaceOf, PlaceOfNext DEF Popped
      <4>2. \A q \in Packets \ {p} : Place(q)' = Place(q)
        BY <3>4 DEF Popped, Place
      <4>3. place' = [place EXCEPT ![p] = "taken"]
        BY <4>1, <4>2
      <4> QED
        BY <3>1, <4>1, <4>3 DEF Promise!Take, Promise!Move
    <3>5. ASSUME NEW p \in Packets, Processed(p)
          PROVE  Promise!Use(p)
      <4>1. Place(p) = "taken" /\ Place(p)' = "used"
        BY <2>1, <3>5, PlaceOf, PlaceOfNext DEF Processed
      <4>2. \A q \in Packets \ {p} : Place(q)' = Place(q)
        BY <3>5 DEF Processed, Place
      <4>3. place' = [place EXCEPT ![p] = "used"]
        BY <4>1, <4>2
      <4> QED
        BY <3>1, <4>1, <4>3 DEF Promise!Use, Promise!Move
    <3> QED
      BY <2>2, <3>2, <3>3, <3>4, <3>5 DEF Promise!Next
  <2> QED
    BY <2>3, <2>4
<1> QED
  BY <1>1, <1>2, SpecSafe, PTL DEF Spec, ImplementsHandoff, Promise!Flow
=============================================================================
