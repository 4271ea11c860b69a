----------------------------- MODULE Pcm4Proofs -----------------------------
(***************************************************************************)
(* Proofs about Pcm4, for any numbers of threads and blocks and any size   *)
(* of the stack its arguments allow.  Safe is inductive: its conjuncts are *)
(* proved one after the other, each over all the actions.                  *)
(***************************************************************************)
EXTENDS Pcm4, FiniteSetTheorems, SequenceTheorems, TLAPS

\* There is at least one consumer, and the producers come first.
LEMMA Sizes ==
  /\ nThreadsProducers \in Nat \ {0}
  /\ nThreadsConsumers \in Nat \ {0}
  /\ nIterations \in Nat \ {0}
  /\ STACK_MAX_SIZE \in Nat \ {0}
  /\ ThreadCount \in Nat
  /\ nThreadsProducers < ThreadCount
  /\ Producers \cup Consumers = Threads
  /\ Producers \cap Consumers = {}
<1>1. /\ nThreadsProducers \in Nat \ {0}
      /\ nThreadsConsumers \in Nat \ {0}
      /\ nIterations \in Nat \ {0}
      /\ STACK_MAX_SIZE \in Nat \ {0}
  BY ArgumentsAssumption
<1>2. /\ ThreadCount \in Nat
      /\ nThreadsProducers < ThreadCount
  BY <1>1 DEF ThreadCount
<1> QED
  BY <1>1, <1>2 DEF Producers, Consumers, Threads

Labels == ProducerLabels \cup ConsumerLabels

\* What a step of thread t may do to the program counter of another thread u.
Woke(u) ==
  \/ pc'[u] = pc[u]
  \/ pc[u] = "NotEmptyCond" /\ pc'[u] = "woken"
  \/ pc[u] = "NotFullCond" /\ pc'[u] = "push"

\* A step of a thread moves no other one, but for those it wakes.
LEMMA StepFrame ==
  ASSUME TypeOK, NEW t \in Threads, ThreadStep(t) \/ SpuriousWakeup(t)
  PROVE  /\ pc' \in [Threads -> Labels]
         /\ \A u \in Threads \ {t} : Woke(u)
<1>1. ASSUME NEW next \in Labels, NEW woken, Goto(t, next, woken),
             woken \subseteq Waiting("NotEmptyCond") \/ woken \subseteq Waiting("NotFullCond")
      PROVE  /\ pc' \in [Threads -> Labels]
             /\ \A u \in Threads \ {t} : Woke(u)
  BY <1>1 DEF Goto, Woke, Waiting, Relock, TypeOK, Labels, ProducerLabels, ConsumerLabels
<1>2. {} \subseteq Waiting("NotEmptyCond")
  OBVIOUS
<1>3. \A cond, w : w \in Signalled(cond) => w \subseteq Waiting(cond)
  BY DEF Signalled
<1>4. /\ "loop" \in Labels /\ "push" \in Labels /\ "done" \in Labels /\ "test" \in Labels
      /\ "announce" \in Labels /\ "pop" \in Labels /\ "wait" \in Labels /\ "woken" \in Labels
      /\ "search" \in Labels /\ "count" \in Labels
      /\ "NotFullCond" \in Labels /\ "NotEmptyCond" \in Labels
  BY DEF Labels, ProducerLabels, ConsumerLabels
<1>5. Relock(pc[t]) \in Labels
  BY <1>4 DEF Relock
<1>6. \/ \E next \in Labels : Goto(t, next, {})
      \/ \E next \in Labels : Goto(t, next, Waiting("NotEmptyCond"))
      \/ \E next \in Labels, w \in Signalled("NotEmptyCond") : Goto(t, next, w)
      \/ \E next \in Labels, w \in Signalled("NotFullCond") : Goto(t, next, w)
  BY <1>4, <1>5
  DEF ThreadStep, ProducerStep, ConsumerStep, SpuriousWakeup, CreateBlock,
      ProducerEnds, WaitNotFull, Push, SeeKeepGoing, NotAllDone, AllDone,
      Announce, SeeEmpty, WaitNotEmpty, PopNull, Pop, SearchBlock, CountBlock
<1>7. CASE \E next \in Labels : Goto(t, next, {})
  BY <1>1, <1>2, <1>7
<1>8. CASE \E next \in Labels : Goto(t, next, Waiting("NotEmptyCond"))
  BY <1>1, <1>8
<1>9. CASE \E next \in Labels, w \in Signalled("NotEmptyCond") : Goto(t, next, w)
  <2> PICK next \in Labels, w \in Signalled("NotEmptyCond") : Goto(t, next, w)
    BY <1>9
  <2> QED
    BY <1>1, <1>3
<1>10. CASE \E next \in Labels, w \in Signalled("NotFullCond") : Goto(t, next, w)
  <2> PICK next \in Labels, w \in Signalled("NotFullCond") : Goto(t, next, w)
    BY <1>10
  <2> QED
    BY <1>1, <1>3
<1> QED
  BY <1>6, <1>7, <1>8, <1>9, <1>10

\* The pc of the thread that steps, in terms of the step.
LEMMA Moves ==
  ASSUME TypeOK, NEW t \in Threads, NEW next, NEW woken, Goto(t, next, woken)
  PROVE  pc'[t] = next
BY DEF Goto, TypeOK

\* What push and pop leave on the stack.
LEMMA StackFacts ==
  ASSUME TypeOK
  PROVE  /\ Len(StackItems) \in Nat
         /\ \A p : p \in Blocks =>
              /\ Append(StackItems, p) \in Seq(Blocks)
              /\ Len(Append(StackItems, p)) = Len(StackItems) + 1
              /\ \A k \in 1 .. Len(StackItems) + 1 :
                   Append(StackItems, p)[k] =
                     IF k = Len(StackItems) + 1 THEN p ELSE StackItems[k]
         /\ StackItems # <<>> =>
              LET rest == SubSeq(StackItems, 1, Len(StackItems) - 1) IN
              /\ Len(StackItems) > 0
              /\ StackItems[Len(StackItems)] \in Blocks
              /\ rest \in Seq(Blocks)
              /\ Len(rest) = Len(StackItems) - 1
              /\ \A k \in 1 .. Len(StackItems) - 1 : rest[k] = StackItems[k]
<1>1. StackItems \in Seq(Blocks)
  BY DEF TypeOK
<1>2. Len(StackItems) \in Nat
  BY <1>1
<1>3. ASSUME NEW p \in Blocks
      PROVE  /\ Append(StackItems, p) \in Seq(Blocks)
             /\ Len(Append(StackItems, p)) = Len(StackItems) + 1
             /\ \A k \in 1 .. Len(StackItems) + 1 :
                  Append(StackItems, p)[k] =
                    IF k = Len(StackItems) + 1 THEN p ELSE StackItems[k]
  BY <1>1
<1>4. ASSUME StackItems # <<>>
      PROVE  LET rest == SubSeq(StackItems, 1, Len(StackItems) - 1) IN
             /\ Len(StackItems) > 0
             /\ StackItems[Len(StackItems)] \in Blocks
             /\ rest \in Seq(Blocks)
             /\ Len(rest) = Len(StackItems) - 1
             /\ \A k \in 1 .. Len(StackItems) - 1 : rest[k] = StackItems[k]
  <2> DEFINE n == Len(StackItems) - 1
             rest == SubSeq(StackItems, 1, n)
  <2>1. Len(StackItems) > 0
    BY <1>1, <1>4
  <2>2. n \in 0 .. Len(StackItems) /\ 1 \in 1 .. Len(StackItems) + 1
    BY <1>2, <2>1
  <2>3. /\ rest \in Seq(Blocks)
        /\ Len(rest) = IF 1 <= n THEN n - 1 + 1 ELSE 0
        /\ \A i \in 1 .. n - 1 + 1 : rest[i] = StackItems[1 + i - 1]
    <3> HIDE DEF n
    <3> QED
      BY <1>1, <2>2, SubSeqProperties
  <2>4. Len(rest) = n /\ \A k \in 1 .. n : rest[k] = StackItems[k]
    <3>1. n \in Nat
      BY <2>1, <1>2
    <3> HIDE DEF n, rest
    <3>2. n - 1 + 1 = n /\ \A k \in 1 .. n : 1 + k - 1 = k
      BY <3>1
    <3>3. Len(rest) = n
      BY <3>1, <3>2, <2>3
    <3>4. ASSUME NEW k \in 1 .. n
          PROVE  rest[k] = StackItems[k]
      <4>1. rest[k] = StackItems[1 + k - 1]
        BY <3>1, <3>2, <2>3
      <4> QED
        BY <4>1, <3>2
    <3> QED
      BY <3>3, <3>4
  <2>5. StackItems[Len(StackItems)] \in Blocks
    BY <1>1, <1>2, <2>1
  <2> QED
    BY <2>1, <2>3, <2>4, <2>5
<1> QED
  BY <1>2, <1>3, <1>4

\* The blocks, as many as CountExpected says.
LEMMA BlocksFinite ==
  /\ IsFiniteSet(Blocks)
  /\ Cardinality(Blocks) = CountExpected
  /\ CountExpected \in Nat
  /\ Blocks \subseteq Threads \X (0 .. nIterations)
<1>1. /\ IsFiniteSet(Producers)
      /\ Cardinality(Producers) = nThreadsProducers
  <2>1. 1 .. nThreadsProducers = Producers /\ nThreadsProducers - 1 + 1 = nThreadsProducers
    BY Sizes DEF Producers
  <2> QED
    BY <2>1, Sizes, FS_Interval DEF Producers
<1>2. /\ IsFiniteSet(1 .. nIterations)
      /\ Cardinality(1 .. nIterations) = nIterations
  BY Sizes, FS_Interval
<1>3. /\ IsFiniteSet(Blocks)
      /\ Cardinality(Blocks) = CountExpected
  BY <1>1, <1>2, FS_Product DEF Blocks, CountExpected
<1>4. CountExpected \in Nat
  BY <1>3, FS_CardinalityType
<1>5. Blocks \subseteq Threads \X (0 .. nIterations)
  BY Sizes DEF Blocks
<1> QED
  BY <1>3, <1>4, <1>5

\* Sets of blocks and of consumers can be counted.
LEMMA CountsFinite ==
  ASSUME TypeOK
  PROVE  /\ IsFiniteSet(searched) /\ Cardinality(searched) \in Nat
         /\ Cardinality(searched) <= CountExpected
         /\ Cardinality(searched) = CountExpected => searched = Blocks
         /\ IsFiniteSet(Counting) /\ Cardinality(Counting) \in Nat
<1>1. searched \subseteq Blocks
  BY DEF TypeOK
<1>2. /\ IsFiniteSet(searched) /\ Cardinality(searched) \in Nat
      /\ Cardinality(searched) <= CountExpected
      /\ Cardinality(searched) = CountExpected => searched = Blocks
  BY <1>1, BlocksFinite, FS_Subset, FS_CardinalityType
<1>3. IsFiniteSet(Consumers)
  BY Sizes, FS_Interval DEF Consumers
<1>4. IsFiniteSet(Counting)
  BY <1>3, FS_Subset DEF Counting
<1> QED
  BY <1>2, <1>4, FS_CardinalityType

-----------------------------------------------------------------------------
(* Types *)

\* A step moves a thread, and those it wakes, to labels of their kind.
LEMMA TypeOfLabels ==
  ASSUME TypeOK, NEW t \in Threads, ThreadStep(t) \/ SpuriousWakeup(t)
  PROVE  /\ pc' \in [Threads -> Labels]
         /\ \A u \in Producers : pc'[u] \in ProducerLabels
         /\ \A u \in Consumers : pc'[u] \in ConsumerLabels
<1>1. /\ t \in Producers => pc'[t] \in ProducerLabels
      /\ t \in Consumers => pc'[t] \in ConsumerLabels
  BY Moves, Sizes
  DEF ThreadStep, ProducerStep, ConsumerStep, SpuriousWakeup, CreateBlock,
      ProducerEnds, WaitNotFull, Push, SeeKeepGoing, NotAllDone, AllDone,
      Announce, SeeEmpty, WaitNotEmpty, PopNull, Pop, SearchBlock, CountBlock,
      TypeOK, ProducerLabels, ConsumerLabels, Relock
<1>2. \A u \in Threads \ {t} :
        /\ u \in Producers => pc'[u] \in ProducerLabels
        /\ u \in Consumers => pc'[u] \in ConsumerLabels
  BY StepFrame, Sizes DEF Woke, TypeOK, ProducerLabels, ConsumerLabels
<1> QED
  BY <1>1, <1>2, StepFrame, Sizes

\* The stack is pushed on only below its limit.
LEMMA TypeOfProducer ==
  ASSUME TypeOK, OwnBlocks, NEW t \in Producers, ProducerStep(t)
  PROVE  TypeOK'
<1> t \in Threads /\ ThreadStep(t)
  BY Sizes DEF ThreadStep
<1>1. CASE CreateBlock(t)
  <2>1. pBlock[t][2] \in 0 .. nIterations /\ pBlock[t][2] < nIterations
    BY <1>1 DEF CreateBlock, TypeOK
  <2>2. <<t, pBlock[t][2] + 1>> \in Threads \X (0 .. nIterations)
    BY <2>1, Sizes
  <2>3. pBlock' \in [Threads -> Threads \X (0 .. nIterations)]
    BY <1>1, <2>2 DEF CreateBlock, TypeOK
  <2> QED
    BY <1>1, <2>3, TypeOfLabels DEF CreateBlock, TypeOK, mainVars, doneVars, stackVars, Labels
<1>2. CASE ProducerEnds(t)
  BY <1>2, TypeOfLabels DEF ProducerEnds, TypeOK, mainVars, doneVars, stackVars, Labels
<1>3. CASE WaitNotFull(t)
  BY <1>3, TypeOfLabels DEF WaitNotFull, TypeOK, mainVars, doneVars, stackVars, Labels
<1>4. CASE Push(t)
  <2>1. pBlock[t] \in Blocks
    BY <1>4 DEF Push, OwnBlocks, Offering
  <2>2. StackItems' \in Seq(Blocks) /\ Len(StackItems') <= STACK_MAX_SIZE
    BY <1>4, <2>1, StackFacts, Sizes DEF Push, TypeOK
  <2> QED
    BY <1>4, <2>2, TypeOfLabels DEF Push, TypeOK, mainVars, doneVars, Labels
<1> QED
  BY <1>1, <1>2, <1>3, <1>4 DEF ProducerStep

\* CountDone counts blocks that have been searched, so it does not pass
\* CountExpected.
LEMMA TypeOfConsumer ==
  ASSUME TypeOK, BlocksAccounted, Counted, NEW t \in Consumers, ConsumerStep(t)
  PROVE  TypeOK'
<1> t \in Threads /\ ThreadStep(t)
  BY Sizes DEF ThreadStep
<1>1. CASE SeeKeepGoing(t)
  BY <1>1, TypeOfLabels DEF SeeKeepGoing, TypeOK, mainVars, doneVars, stackVars, Labels
<1>2. CASE NotAllDone(t)
  BY <1>2, TypeOfLabels DEF NotAllDone, TypeOK, mainVars, doneVars, stackVars, Labels
<1>3. CASE AllDone(t)
  <2>1. KeepGoing' \in BOOLEAN
    BY <1>3 DEF AllDone
  <2>2. DoneLock' \in 0 .. ThreadCount
    BY <1>3 DEF AllDone, Threads
  <2>3. UNCHANGED <<created, joined, pBlock, CountDone, StackLock, StackItems, searched>>
    BY <1>3 DEF AllDone, mainVars, stackVars
  <2> QED
    BY <2>1, <2>2, <2>3, TypeOfLabels DEF TypeOK, Labels
<1>4. CASE Announce(t)
  <2>1. DoneLock' \in 0 .. ThreadCount
    BY <1>4, Sizes DEF Announce
  <2> QED
    BY <1>4, <2>1, TypeOfLabels DEF Announce, TypeOK, mainVars, stackVars, Labels
<1>5. CASE SeeEmpty(t)
  BY <1>5, TypeOfLabels DEF SeeEmpty, TypeOK, mainVars, doneVars, Labels, Threads
<1>6. CASE WaitNotEmpty(t)
  <2>1. StackLock' \in 0 .. ThreadCount
    BY <1>6, Sizes DEF WaitNotEmpty
  <2> QED
    BY <1>6, <2>1, TypeOfLabels DEF WaitNotEmpty, TypeOK, mainVars, doneVars, Labels
<1>7. CASE PopNull(t)
  BY <1>7, TypeOfLabels DEF PopNull, TypeOK, mainVars, doneVars, stackVars, Labels
<1>8. CASE Pop(t)
  <2>1. StackItems' \in Seq(Blocks) /\ Len(StackItems') <= STACK_MAX_SIZE
    BY <1>8, StackFacts, Sizes DEF Pop, TypeOK
  <2>2. StackItems[Len(StackItems)] \in Threads \X (0 .. nIterations)
    BY <1>8, StackFacts, BlocksFinite DEF Pop
  <2>3. pBlock' \in [Threads -> Threads \X (0 .. nIterations)]
    <3>1. pBlock' = [pBlock EXCEPT ![t] = StackItems[Len(StackItems)]]
      BY <1>8 DEF Pop
    <3>2. pBlock \in [Threads -> Threads \X (0 .. nIterations)]
      BY DEF TypeOK
    <3> QED
      BY <2>2, <3>1, <3>2, Zenon
  <2> QED
    BY <1>8, <2>1, <2>3, TypeOfLabels DEF Pop, TypeOK, mainVars, doneVars, Labels
<1>9. CASE SearchBlock(t)
  <2>1. pBlock[t] \in Blocks
    BY <1>9 DEF SearchBlock, BlocksAccounted, Taken, Taking
  <2> QED
    BY <1>9, <2>1, TypeOfLabels DEF SearchBlock, TypeOK, mainVars, doneVars, stackVars, Labels
<1>10. CASE CountBlock(t)
  <2>1. t \in Counting
    BY <1>10 DEF CountBlock, Counting
  <2>2. Cardinality(Counting) > 0
    BY <2>1, CountsFinite, FS_EmptySet
  <2>3. CountDone + 1 \in 0 .. CountExpected
    <3>1. CountDone \in Nat /\ CountExpected \in Nat
      BY BlocksFinite DEF TypeOK
    <3> QED
      BY <2>2, <3>1, CountsFinite DEF Counted
  <2> QED
    BY <1>10, <2>3, TypeOfLabels DEF CountBlock, TypeOK, mainVars, stackVars, Labels
<1> QED
  BY <1>1, <1>2, <1>3, <1>4, <1>5, <1>6, <1>7, <1>8, <1>9, <1>10 DEF ConsumerStep

\* Creating and joining threads keeps the types.
LEMMA TypeOfMain ==
  ASSUME TypeOK, MainStep
  PROVE  TypeOK'
<1>1. CASE CreateThread
  <2>1. created' \in Threads
    BY <1>1, Sizes DEF CreateThread, TypeOK, Threads
  <2>2. /\ pc' \in [Threads -> Labels]
        /\ \A u \in Producers : pc'[u] \in ProducerLabels
        /\ \A u \in Consumers : pc'[u] \in ConsumerLabels
    BY <1>1, <2>1, Sizes
    DEF CreateThread, Goto, TypeOK, Labels, ProducerLabels, ConsumerLabels
  <2> QED
    BY <1>1, <2>1, <2>2 DEF CreateThread, TypeOK, stackVars, doneVars, Labels, Threads
<1>2. CASE JoinConsumer
  BY <1>2, Sizes DEF JoinConsumer, TypeOK, stackVars, doneVars
<1> QED
  BY <1>1, <1>2 DEF MainStep

\* A spurious wakeup keeps the types.
LEMMA TypeOfWakeup ==
  ASSUME TypeOK, NEW t \in Threads, SpuriousWakeup(t)
  PROVE  TypeOK'
BY TypeOfLabels
DEF SpuriousWakeup, TypeOK, mainVars, doneVars, stackVars, Labels

\* Every step keeps the types.
LEMMA TypePreserved ==
  ASSUME Safe, Next
  PROVE  TypeOK'
BY TypeOfMain, TypeOfProducer, TypeOfConsumer, TypeOfWakeup DEF Next, ThreadStep, Safe

-----------------------------------------------------------------------------
(* main, the mutexes, and the blocks of the producers *)

\* A thread that steps has been created and has not ended.
LEMMA StepSelf ==
  ASSUME TypeOK, NEW t \in Threads, ThreadStep(t) \/ SpuriousWakeup(t)
  PROVE  /\ pc[t] \notin {"new", "done"}
         /\ pc'[t] # "new"
         /\ UNCHANGED mainVars
BY Moves
DEF ThreadStep, ProducerStep, ConsumerStep, SpuriousWakeup, CreateBlock,
    ProducerEnds, WaitNotFull, Push, SeeKeepGoing, NotAllDone, AllDone,
    Announce, SeeEmpty, WaitNotEmpty, PopNull, Pop, SearchBlock, CountBlock,
    mainVars, Relock

\* Threads beyond the creating loop are new, consumers behind the joining loop
\* are done.
LEMMA MainLoopsPreserved ==
  ASSUME Safe, Next
  PROVE  MainLoops'
<1> USE DEF Safe
<1>1. CASE CreateThread
  <2>1. created \in Nat /\ created' = created + 1 /\ created' \in Threads
    BY <1>1, Sizes DEF CreateThread, TypeOK, Threads
  <2>2. /\ pc'[created'] # "new" /\ pc[created'] = "new"
        /\ \A u \in Threads \ {created'} : pc'[u] = pc[u]
    BY <1>1, <2>1 DEF CreateThread, Goto, MainLoops
  <2>3. \A u \in Threads : u > created' <=> pc'[u] = "new"
    BY <2>1, <2>2 DEF MainLoops, Threads
  <2>4. \A u \in Consumers : u <= nThreadsProducers + joined => pc'[u] = "done"
    BY <2>2, Sizes DEF MainLoops
  <2> QED
    BY <1>1, <2>3, <2>4 DEF CreateThread, MainLoops
<1>2. CASE JoinConsumer
  <2>1. joined \in Nat /\ joined' = joined + 1 /\ UNCHANGED <<created, pc>>
        /\ pc[nThreadsProducers + joined + 1] = "done"
    BY <1>2, Sizes DEF JoinConsumer, TypeOK
  <2>2. ASSUME NEW u \in Consumers, u <= nThreadsProducers + joined + 1
        PROVE  pc[u] = "done"
    <3>1. u \in Nat /\ nThreadsProducers \in Nat
      BY Sizes DEF Consumers
    <3>2. u <= nThreadsProducers + joined \/ u = nThreadsProducers + joined + 1
      BY <2>1, <2>2, <3>1
    <3> QED
      BY <2>1, <3>2 DEF MainLoops
  <2>3. nThreadsProducers + (joined + 1) = nThreadsProducers + joined + 1
    BY <2>1, Sizes
  <2> QED
    BY <2>1, <2>2, <2>3 DEF MainLoops
<1>3. ASSUME NEW t \in Threads, ThreadStep(t) \/ SpuriousWakeup(t)
      PROVE  MainLoops'
  <2>1. \A u \in Threads : /\ pc'[u] = "new" <=> pc[u] = "new"
                           /\ pc[u] = "done" => pc'[u] = "done"
    BY <1>3, StepSelf, StepFrame DEF Woke
  <2> QED
    BY <1>3, <2>1, StepSelf, Sizes DEF MainLoops, mainVars
<1> QED
  BY <1>1, <1>2, <1>3 DEF Next, MainStep

\* What main does to the threads: it sets one going, and nothing else.
LEMMA MainMoves ==
  ASSUME TypeOK, MainLoops, MainStep
  PROVE  /\ \A u \in Threads : \/ pc'[u] = pc[u]
                               \/ pc[u] = "new" /\ pc'[u] = "loop"
         /\ UNCHANGED <<pBlock, doneVars, stackVars, searched>>
<1>1. CASE CreateThread
  <2>1. created' \in Threads /\ pc[created'] = "new"
    BY <1>1, Sizes DEF CreateThread, TypeOK, Threads, MainLoops
  <2> QED
    BY <1>1, <2>1 DEF CreateThread, Goto
<1>2. CASE JoinConsumer
  BY <1>2 DEF JoinConsumer
<1> QED
  BY <1>1, <1>2 DEF MainStep

\* What a step of t does to the two mutexes: it takes one that is free, gives
\* up the one it holds, or keeps what it has.
LEMMA LockSteps ==
  ASSUME TypeOK, MutexHolders, NEW t \in Threads, ThreadStep(t) \/ SpuriousWakeup(t)
  PROVE  /\ pc'[t] = "announce" <=> DoneLock' = t
         /\ pc'[t] = "wait" <=> StackLock' = t
         /\ \/ DoneLock' = DoneLock
            \/ DoneLock = 0 /\ DoneLock' = t
            \/ DoneLock = t /\ DoneLock' = 0
         /\ \/ StackLock' = StackLock
            \/ StackLock = 0 /\ StackLock' = t
            \/ StackLock = t /\ StackLock' = 0
<1> t # 0
  BY DEF Threads
<1>1. CASE t \in Producers /\ ProducerStep(t)
  BY <1>1, Moves
  DEF ProducerStep, CreateBlock, ProducerEnds, WaitNotFull, Push, MutexHolders,
      stackVars, doneVars
<1>2. CASE t \in Consumers /\ ConsumerStep(t)
  BY <1>2, Moves
  DEF ConsumerStep, SeeKeepGoing, NotAllDone, AllDone, Announce, SeeEmpty,
      WaitNotEmpty, PopNull, Pop, SearchBlock, CountBlock, MutexHolders,
      stackVars, doneVars
<1>3. CASE SpuriousWakeup(t)
  BY <1>3, Moves DEF SpuriousWakeup, MutexHolders, stackVars, doneVars, Relock
<1> QED
  BY <1>1, <1>2, <1>3 DEF ThreadStep

\* Each mutex has one holder, which stands inside its section.
LEMMA MutexHoldersPreserved ==
  ASSUME Safe, Next
  PROVE  MutexHolders'
<1> USE DEF Safe
<1>1. CASE MainStep
  BY <1>1, MainMoves DEF MutexHolders, doneVars, stackVars
<1>2. ASSUME NEW t \in Threads, ThreadStep(t) \/ SpuriousWakeup(t)
      PROVE  MutexHolders'
  <2>1. ASSUME NEW u \in Threads \ {t}
        PROVE  /\ pc'[u] = "announce" <=> pc[u] = "announce"
               /\ pc'[u] = "wait" <=> pc[u] = "wait"
    BY <1>2, <2>1, StepFrame DEF Woke
  <2>2. 0 \notin Threads
    BY DEF Threads
  <2> QED
    BY <1>2, <2>1, <2>2, LockSteps DEF MutexHolders
<1> QED
  BY <1>1, <1>2 DEF Next

\* Only a producer that makes a block and a consumer that pops one change what
\* a thread holds.
LEMMA Hands ==
  ASSUME TypeOK, NEW t \in Threads, ThreadStep(t) \/ SpuriousWakeup(t)
  PROVE  /\ \A u \in Threads \ {t} : pBlock'[u] = pBlock[u]
         /\ \/ pBlock' = pBlock
            \/ t \in Producers /\ CreateBlock(t)
            \/ t \in Consumers /\ Pop(t)
<1>1. \/ pBlock' = pBlock
      \/ t \in Producers /\ CreateBlock(t)
      \/ t \in Consumers /\ Pop(t)
  BY DEF ThreadStep, ProducerStep, ConsumerStep, SpuriousWakeup, ProducerEnds,
         WaitNotFull, Push, SeeKeepGoing, NotAllDone, AllDone, Announce, SeeEmpty,
         WaitNotEmpty, PopNull, SearchBlock, CountBlock
<1> QED
  BY <1>1 DEF CreateBlock, Pop, TypeOK

\* A producer offers a block of its own.
LEMMA OwnBlocksPreserved ==
  ASSUME Safe, Next
  PROVE  OwnBlocks'
<1> USE DEF Safe
<1>1. CASE MainStep
  BY <1>1, MainMoves, Sizes DEF OwnBlocks, Offering
<1>2. ASSUME NEW t \in Threads, ThreadStep(t) \/ SpuriousWakeup(t)
      PROVE  OwnBlocks'
  <2> DEFINE Own(u) == /\ pBlock'[u][1] = u
                       /\ pc'[u] \in Offering => pBlock'[u] \in Blocks
                       /\ pc'[u] = "new" => pBlock'[u][2] = 0
  <2>1. ASSUME NEW u \in Producers \ {t}
        PROVE  Own(u)
    BY <1>2, <2>1, StepFrame, Hands, Sizes DEF OwnBlocks, Offering, Woke
  <2>2. ASSUME t \in Producers
        PROVE  Own(t)
    <3>1. CASE CreateBlock(t)
      <4>1. pBlock'[t] = <<t, pBlock[t][2] + 1>> /\ pBlock[t][2] < nIterations
        BY <3>1 DEF CreateBlock, TypeOK
      <4>2. pBlock[t][2] \in 0 .. nIterations
        BY DEF TypeOK
      <4>3. pBlock'[t] \in Blocks
        BY <2>2, <4>1, <4>2, Sizes DEF Blocks
      <4> QED
        BY <1>2, <4>1, <4>3, StepSelf
    <3>2. CASE ~CreateBlock(t)
      <4>1. pBlock' = pBlock
        BY <1>2, <2>2, <3>2, Hands, Sizes
      <4>2. pc'[t] \in Offering => pc[t] \in Offering
        BY <1>2, <2>2, <3>2, Moves, Sizes
        DEF ThreadStep, ProducerStep, SpuriousWakeup, ProducerEnds, WaitNotFull,
            Push, Offering, Relock, TypeOK, ProducerLabels
      <4> QED
        BY <1>2, <2>2, <4>1, <4>2, StepSelf DEF OwnBlocks
    <3> QED
      BY <3>1, <3>2
  <2> QED
    BY <2>1, <2>2 DEF OwnBlocks
<1> QED
  BY <1>1, <1>2 DEF Next

-----------------------------------------------------------------------------
(***************************************************************************)
(* The blocks.  A step leaves each block where it is, or moves one of them *)
(* one stage on.                                                           *)
(***************************************************************************)
Still == UNCHANGED <<Pending, Stacked, Taken, searched>>
Pushed(b) == /\ b \in Pending
             /\ Pending' = Pending \ {b}
             /\ Stacked' = Stacked \cup {b}
             /\ UNCHANGED <<Taken, searched>>
Popped(b) == /\ b \in Stacked
             /\ Stacked' = Stacked \ {b}
             /\ Taken' = Taken \cup {b}
             /\ UNCHANGED <<Pending, searched>>
Searched(b) == /\ b \in Taken
               /\ Taken' = Taken \ {b}
               /\ searched' = searched \cup {b}
               /\ UNCHANGED <<Pending, Stacked>>

\* the slots of the stack, and the consumers, hold different blocks
Apart ==
  /\ \A j, k \in 1 .. Len(StackItems) : StackItems[j] = StackItems[k] => j = k
  /\ \A t, u \in Taking : pBlock[t] = pBlock[u] => t = u

\* A block is named by its producer and a number.
LEMMA BlockNames ==
  ASSUME NEW b \in Blocks
  PROVE  b[1] \in Producers /\ b[2] \in 1 .. nIterations /\ b = <<b[1], b[2]>>
BY DEF Blocks

\* Threads that only change places outside offering and searching leave the
\* blocks alone.
LEMMA Quiet ==
  ASSUME Apart, UNCHANGED <<pBlock, StackItems, searched>>,
         \A u \in Producers : pc'[u] \in Offering <=> pc[u] \in Offering,
         \A u \in Consumers : pc'[u] = "search" <=> pc[u] = "search"
  PROVE  Still /\ Apart'
<1>1. Taking' = Taking
  BY DEF Taking
<1>2. Stacked' = Stacked /\ Taken' = Taken
  BY <1>1 DEF Stacked, Taken, Taking
<1>3. Pending' = Pending
  BY BlockNames DEF Pending
<1>4. Apart'
  BY <1>1 DEF Apart
<1> QED
  BY <1>2, <1>3, <1>4 DEF Still

\* What a step does to the threads that search or offer, but for its own.
LEMMA Others ==
  ASSUME TypeOK, NEW t \in Threads, ThreadStep(t) \/ SpuriousWakeup(t)
  PROVE  /\ \A u \in Producers : u # t => (pc'[u] \in Offering <=> pc[u] \in Offering)
         /\ \A u \in Consumers : u # t => (pc'[u] = "search" <=> pc[u] = "search")
         /\ \A u \in Consumers : u # t => (pc'[u] = "count" <=> pc[u] = "count")
BY StepFrame, Sizes DEF Offering, Woke

\* A block that is made is still to be pushed, as it was before.
LEMMA CreateMovesNothing ==
  ASSUME Safe, Apart, NEW t \in Producers, CreateBlock(t)
  PROVE  Still /\ Apart'
<1> USE DEF Safe
<1>0. t \in Threads /\ t \notin Consumers /\ ThreadStep(t)
  BY Sizes DEF ThreadStep, ProducerStep
<1>1. /\ pc[t] = "loop" /\ pc'[t] = "push"
      /\ pBlock'[t] = <<t, pBlock[t][2] + 1>>
      /\ pBlock[t][2] \in Nat
      /\ \A u \in Threads \ {t} : pBlock'[u] = pBlock[u]
      /\ UNCHANGED <<StackItems, searched>>
  BY <1>0, Moves DEF CreateBlock, TypeOK, stackVars
<1>2. /\ Taking' = Taking
      /\ \A u \in Taking : pBlock'[u] = pBlock[u]
  BY <1>0, <1>1, Others, Sizes DEF Taking
<1>3. Taken' = Taken /\ Stacked' = Stacked /\ Apart'
  BY <1>1, <1>2 DEF Taken, Stacked, Apart
<1>4. ASSUME NEW b \in Blocks
      PROVE  b \in Pending' <=> b \in Pending
  <2>1. b[1] \in Producers /\ b[2] \in Nat
    BY BlockNames
  <2>2. CASE b[1] = t
    BY <1>1, <2>1, <2>2 DEF Pending, Offering
  <2>3. CASE b[1] # t
    BY <1>0, <1>1, <2>1, <2>3, Others, Sizes DEF Pending
  <2> QED
    BY <2>2, <2>3
<1>5. Pending' = Pending
  BY <1>4 DEF Pending
<1> QED
  BY <1>1, <1>3, <1>5 DEF Still

\* A push moves one block to the stack.
LEMMA PushMoves ==
  ASSUME Safe, Apart, NEW t \in Producers, Push(t)
  PROVE  Pushed(pBlock[t]) /\ Apart'
<1> USE DEF Safe
<1> DEFINE q == pBlock[t]
<1>0. t \in Threads /\ t \notin Consumers /\ ThreadStep(t)
  BY Sizes DEF ThreadStep, ProducerStep
<1>1. /\ pc[t] = "push" /\ pc'[t] = "loop"
      /\ StackItems' = Append(StackItems, q)
      /\ UNCHANGED <<pBlock, searched>>
  BY <1>0, Moves DEF Push
<1>2. Taking' = Taking
  BY <1>0, <1>1, Others, Sizes DEF Taking
<1>3. Taken' = Taken
  BY <1>1, <1>2 DEF Taken
<1>4. q \in Blocks /\ q[1] = t /\ q \in Pending
  BY <1>1 DEF OwnBlocks, Offering, Pending
<1>5. ASSUME NEW b \in Blocks
      PROVE  b \in Pending' <=> b \in Pending /\ b # q
  <2>1. /\ b[1] \in Producers /\ b[2] \in Nat /\ q[2] \in Nat
        /\ b[1] = q[1] /\ b[2] = q[2] <=> b = q
    BY <1>4, BlockNames
  <2>2. CASE b[1] = t
    <3>1. b \in Pending' <=> q[2] < b[2]
      BY <1>1, <2>2 DEF Pending, Offering
    <3>2. b \in Pending <=> q[2] < b[2] \/ q[2] = b[2]
      BY <1>1, <2>2 DEF Pending, Offering
    <3> HIDE DEF q
    <3> QED
      BY <1>4, <2>1, <2>2, <3>1, <3>2
  <2>3. CASE b[1] # t
    <3>1. b # q
      BY <1>4, <2>3
    <3> QED
      BY <1>0, <1>1, <2>1, <2>3, <3>1, Others, Sizes DEF Pending
  <2> QED
    BY <2>2, <2>3
<1>6. Pending' = Pending \ {q}
  BY <1>5 DEF Pending
<1>7. /\ Len(StackItems) \in Nat
      /\ Len(StackItems') = Len(StackItems) + 1
      /\ \A k \in 1 .. Len(StackItems) + 1 :
           StackItems'[k] = IF k = Len(StackItems) + 1 THEN q ELSE StackItems[k]
  BY <1>1, <1>4, StackFacts
<1>8. Stacked' = Stacked \cup {q}
  <2> HIDE DEF q
  <2>1. ASSUME NEW k \in 1 .. Len(StackItems)
        PROVE  StackItems[k] \in Stacked' /\ k \in 1 .. Len(StackItems')
    BY <1>7 DEF Stacked
  <2>2. q \in Stacked'
    BY <1>7 DEF Stacked
  <2>3. ASSUME NEW k \in 1 .. Len(StackItems')
        PROVE  StackItems'[k] \in Stacked \cup {q}
    BY <1>7 DEF Stacked
  <2> QED
    BY <2>1, <2>2, <2>3 DEF Stacked
<1>9. q \notin Stacked
  BY <1>4 DEF BlocksAccounted
<1>10. Apart'
  <2>1. ASSUME NEW j \in 1 .. Len(StackItems'), NEW k \in 1 .. Len(StackItems'),
               StackItems'[j] = StackItems'[k]
        PROVE  j = k
    <3> HIDE DEF q
    <3>1. \A i \in 1 .. Len(StackItems) : StackItems[i] # q
      BY <1>9 DEF Stacked
    <3> QED
      BY <1>7, <2>1, <3>1 DEF Apart
  <2>2. \A u, v \in Taking' : pBlock'[u] = pBlock'[v] => u = v
    BY <1>1, <1>2 DEF Apart
  <2> QED
    BY <2>1, <2>2 DEF Apart
<1> QED
  BY <1>1, <1>3, <1>4, <1>6, <1>8, <1>10 DEF Pushed

\* A pop moves the top block to one consumer.
LEMMA PopMoves ==
  ASSUME Safe, Apart, NEW t \in Consumers, Pop(t)
  PROVE  Popped(StackItems[Len(StackItems)]) /\ Apart'
<1> USE DEF Safe
<1> DEFINE q == StackItems[Len(StackItems)]
<1>0. t \in Threads /\ t \notin Producers /\ ThreadStep(t) /\ t \notin Taking
  BY Sizes DEF ThreadStep, ConsumerStep, Pop, Taking
<1>1. /\ pc'[t] = "search"
      /\ StackItems # <<>>
      /\ StackItems' = SubSeq(StackItems, 1, Len(StackItems) - 1)
      /\ pBlock'[t] = q
      /\ \A u \in Threads \ {t} : pBlock'[u] = pBlock[u]
      /\ searched' = searched
  BY <1>0, Moves DEF Pop, TypeOK
<1>2. /\ Taking' = Taking \cup {t}
      /\ \A u \in Taking : pBlock'[u] = pBlock[u]
  BY <1>0, <1>1, Others, Sizes DEF Taking
<1>3. Taken' = Taken \cup {q}
  BY <1>1, <1>2 DEF Taken
<1>4. \A u \in Producers : /\ pBlock'[u] = pBlock[u]
                           /\ pc'[u] \in Offering <=> pc[u] \in Offering
  BY <1>0, <1>1, Others, Sizes
<1>5. Pending' = Pending
  BY <1>4, BlockNames DEF Pending
<1>6. /\ Len(StackItems) \in Nat /\ Len(StackItems) > 0
      /\ Len(StackItems') = Len(StackItems) - 1
      /\ \A k \in 1 .. Len(StackItems) - 1 : StackItems'[k] = StackItems[k]
  BY <1>1, StackFacts
<1>7. q \in Stacked
  BY <1>6 DEF Stacked
<1>8. \A k \in 1 .. Len(StackItems) : StackItems[k] = q => k = Len(StackItems)
  BY <1>6 DEF Apart
<1>9. Stacked' = Stacked \ {q}
  <2> HIDE DEF q
  <2>1. ASSUME NEW k \in 1 .. Len(StackItems')
        PROVE  StackItems'[k] \in Stacked \ {q}
    <3>1. k \in 1 .. Len(StackItems) /\ k # Len(StackItems)
      BY <1>6
    <3> QED
      BY <1>6, <1>8, <3>1 DEF Stacked
  <2>2. ASSUME NEW k \in 1 .. Len(StackItems), StackItems[k] # q
        PROVE  StackItems[k] \in Stacked'
    <3>1. k # Len(StackItems)
      BY <2>2 DEF q
    <3> QED
      BY <1>6, <3>1 DEF Stacked
  <2> QED
    BY <2>1, <2>2 DEF Stacked
<1>10. \A u \in Taking : pBlock[u] # q
  BY <1>7 DEF BlocksAccounted, Taken
<1>11. Apart'
  <2>1. ASSUME NEW j \in 1 .. Len(StackItems'), NEW k \in 1 .. Len(StackItems'),
               StackItems'[j] = StackItems'[k]
        PROVE  j = k
    BY <1>6, <2>1 DEF Apart
  <2>2. ASSUME NEW u \in Taking', NEW v \in Taking', pBlock'[u] = pBlock'[v]
        PROVE  u = v
    <3> HIDE DEF q
    <3> QED
      BY <1>1, <1>2, <1>10, <2>2 DEF Apart
  <2> QED
    BY <2>1, <2>2 DEF Apart
<1> QED
  BY <1>1, <1>3, <1>5, <1>7, <1>9, <1>11 DEF Popped

\* A search moves one block to the searched ones.
LEMMA SearchMoves ==
  ASSUME Safe, Apart, NEW t \in Consumers, SearchBlock(t)
  PROVE  Searched(pBlock[t]) /\ Apart'
<1> USE DEF Safe
<1>0. t \in Threads /\ t \notin Producers /\ ThreadStep(t) /\ t \in Taking
  BY Sizes DEF ThreadStep, ConsumerStep, SearchBlock, Taking
<1>1. /\ pc'[t] = "count"
      /\ searched' = searched \cup {pBlock[t]}
      /\ UNCHANGED <<pBlock, StackItems>>
  BY <1>0, Moves DEF SearchBlock, stackVars
<1>2. Taking' = Taking \ {t}
  BY <1>0, <1>1, Others, Sizes DEF Taking
<1>3. Taken' = Taken \ {pBlock[t]} /\ pBlock[t] \in Taken
  BY <1>0, <1>1, <1>2 DEF Taken, Apart
<1>4. \A u \in Producers : pc'[u] \in Offering <=> pc[u] \in Offering
  BY <1>0, Others, Sizes
<1>5. Pending' = Pending /\ Stacked' = Stacked
  BY <1>1, <1>4, BlockNames DEF Pending, Stacked
<1>6. Apart'
  BY <1>1, <1>2 DEF Apart
<1> QED
  BY <1>1, <1>3, <1>5, <1>6 DEF Searched

\* Every step of the program moves one block at most, by one stage.
LEMMA Effect ==
  ASSUME Safe, Apart, [Next]_vars
  PROVE  /\ \/ Still
            \/ \E b \in Blocks : Pushed(b) \/ Popped(b) \/ Searched(b)
         /\ Apart'
<1> USE DEF Safe
<1>1. CASE MainStep
  BY <1>1, MainMoves, Quiet, Sizes DEF Offering, stackVars
<1>2. CASE UNCHANGED vars
  BY <1>2, Quiet DEF vars
<1>3. ASSUME NEW t \in Threads, ThreadStep(t) \/ SpuriousWakeup(t)
      PROVE  /\ \/ Still
                \/ \E b \in Blocks : Pushed(b) \/ Popped(b) \/ Searched(b)
             /\ Apart'
  <2>1. CASE t \in Producers /\ CreateBlock(t)
    BY <2>1, CreateMovesNothing
  <2>2. CASE t \in Producers /\ Push(t)
    BY <2>2, PushMoves DEF BlocksAccounted, Pushed
  <2>3. CASE t \in Consumers /\ Pop(t)
    BY <2>3, PopMoves DEF BlocksAccounted, Popped
  <2>4. CASE t \in Consumers /\ SearchBlock(t)
    BY <2>4, SearchMoves DEF BlocksAccounted, Searched
  <2>5. CASE t \in Producers /\ (ProducerEnds(t) \/ WaitNotFull(t))
    BY <1>3, <2>5, Moves, Others, Quiet, Sizes
    DEF ProducerEnds, WaitNotFull, Offering, stackVars
  <2>6. CASE t \in Consumers /\ (\/ SeeKeepGoing(t) \/ NotAllDone(t) \/ AllDone(t)
                                 \/ Announce(t) \/ SeeEmpty(t) \/ WaitNotEmpty(t)
                                 \/ PopNull(t) \/ CountBlock(t))
    BY <1>3, <2>6, Moves, Others, Quiet, Sizes
    DEF SeeKeepGoing, NotAllDone, AllDone, Announce, SeeEmpty, WaitNotEmpty,
        PopNull, CountBlock, stackVars
  <2>7. CASE SpuriousWakeup(t)
    BY <1>3, <2>7, Moves, Others, Quiet, Sizes
    DEF SpuriousWakeup, Offering, Relock, stackVars, TypeOK, ProducerLabels,
        ConsumerLabels
  <2> QED
    BY <1>3, <2>1, <2>2, <2>3, <2>4, <2>5, <2>6, <2>7
    DEF ThreadStep, ProducerStep, ConsumerStep
<1> QED
  BY <1>1, <1>2, <1>3 DEF Next

\* Every step leaves every block in exactly one place.
LEMMA BlocksPreserved ==
  ASSUME Safe, Next
  PROVE  BlocksAccounted'
<1>1. Apart /\ BlocksAccounted
  BY DEF Safe, BlocksAccounted, Apart
<1>2. /\ \/ Still
         \/ \E b \in Blocks : Pushed(b) \/ Popped(b) \/ Searched(b)
      /\ Apart'
  BY <1>1, Effect
<1>3. CASE Still
  BY <1>1, <1>2, <1>3 DEF Still, BlocksAccounted, Apart
<1>4. ASSUME NEW b \in Blocks, Pushed(b) \/ Popped(b) \/ Searched(b)
      PROVE  BlocksAccounted'
  BY <1>1, <1>2, <1>4 DEF Pushed, Popped, Searched, BlocksAccounted, Apart
<1> QED
  BY <1>2, <1>3, <1>4

-----------------------------------------------------------------------------
(* CountDone, KeepGoing, and the threads that sleep *)

\* A block is searched once and counted once.
LEMMA CountedPreserved ==
  ASSUME Safe, Next
  PROVE  Counted'
<1> USE DEF Safe
<1>1. CASE MainStep
  <2>1. Counting' = Counting /\ UNCHANGED <<CountDone, searched>>
    BY <1>1, MainMoves, Sizes DEF Counting, doneVars
  <2> QED
    BY <2>1 DEF Counted
<1>2. ASSUME NEW t \in Threads, ThreadStep(t) \/ SpuriousWakeup(t)
      PROVE  Counted'
  <2>1. \A u \in Consumers \ {t} : u \in Counting' <=> u \in Counting
    BY <1>2, Others DEF Counting
  <2>2. CASE t \in Consumers /\ SearchBlock(t)
    <3>1. pc[t] = "search" /\ pc'[t] = "count" /\ CountDone' = CountDone
          /\ searched' = searched \cup {pBlock[t]}
      BY <2>2, Moves DEF SearchBlock, doneVars
    <3>2. Counting' = Counting \cup {t} /\ t \notin Counting
      BY <2>1, <2>2, <3>1 DEF Counting
    <3>3. pBlock[t] \notin searched
      BY <2>2, <3>1 DEF BlocksAccounted, Taken, Taking
    <3>4. Cardinality(searched') = Cardinality(searched) + 1
      BY <3>1, <3>3, CountsFinite, FS_AddElement
    <3>5. Cardinality(Counting') = Cardinality(Counting) + 1
      BY <3>2, CountsFinite, FS_AddElement
    <3>6. CountDone \in Nat
      BY BlocksFinite DEF TypeOK
    <3> QED
      BY <3>1, <3>4, <3>5, <3>6, CountsFinite DEF Counted
  <2>3. CASE t \in Consumers /\ CountBlock(t)
    <3>1. pc[t] = "count" /\ pc'[t] = "loop" /\ CountDone' = CountDone + 1
          /\ searched' = searched
      BY <2>3, Moves DEF CountBlock
    <3>2. Counting' = Counting \ {t} /\ t \in Counting
      BY <2>1, <2>3, <3>1 DEF Counting
    <3>3. Cardinality(Counting') = Cardinality(Counting) - 1
      BY <3>2, CountsFinite, FS_RemoveElement
    <3>4. CountDone \in Nat
      BY BlocksFinite DEF TypeOK
    <3> QED
      BY <3>1, <3>3, <3>4, CountsFinite DEF Counted
  <2>4. CASE ~(t \in Consumers /\ (SearchBlock(t) \/ CountBlock(t)))
    <3>1. UNCHANGED <<CountDone, searched>> /\ (t \in Consumers => (t \in Counting' <=> t \in Counting))
      <4>1. CASE t \in Producers /\ ProducerStep(t)
        BY <4>1, Sizes
        DEF ProducerStep, CreateBlock, ProducerEnds, WaitNotFull, Push, doneVars
      <4>2. CASE t \in Consumers /\ ConsumerStep(t)
        BY <1>2, <2>4, <4>2, Moves
        DEF ConsumerStep, SeeKeepGoing, NotAllDone, AllDone, Announce, SeeEmpty,
            WaitNotEmpty, PopNull, Pop, doneVars, Counting
      <4>3. CASE SpuriousWakeup(t)
        BY <4>3, Moves DEF SpuriousWakeup, doneVars, Counting, Relock
      <4> QED
        BY <1>2, <4>1, <4>2, <4>3 DEF ThreadStep
    <3>2. Counting' = Counting
      BY <2>1, <3>1 DEF Counting
    <3> QED
      BY <3>1, <3>2 DEF Counted
  <2> QED
    BY <2>2, <2>3, <2>4
<1> QED
  BY <1>1, <1>2 DEF Next

\* When every block is searched none is left to be pushed or popped.
LEMMA NothingPending ==
  ASSUME Safe, searched = Blocks
  PROVE  /\ \A t \in Producers : pc[t] \in {"loop", "done"}
         /\ StackItems = <<>>
         /\ Taking = {}
<1> USE DEF Safe
<1>1. Pending = {} /\ Stacked = {} /\ Taken = {}
  BY DEF BlocksAccounted, Pending
<1>2. ASSUME NEW t \in Producers
      PROVE  pc[t] \in {"loop", "done"}
  <2>1. <<t, nIterations>> \in Blocks
    BY Sizes DEF Blocks
  <2>2. pBlock[t][2] >= nIterations /\ pBlock[t][2] \in 0 .. nIterations
    <3>1. pBlock[t][2] \in 0 .. nIterations
      BY Sizes DEF TypeOK
    <3> QED
      BY <1>1, <2>1, <3>1, Sizes DEF Pending
  <2>3. pc[t] \notin Offering
    BY <1>1, <2>1, <2>2, Sizes DEF Pending
  <2>4. pc[t] # "new"
    BY <2>2, Sizes DEF OwnBlocks
  <2> QED
    BY <2>3, <2>4 DEF TypeOK, ProducerLabels, Offering
<1>3. StackItems = <<>>
  <2>1. SUFFICES ASSUME StackItems # <<>>
                 PROVE  FALSE
    OBVIOUS
  <2>2. Len(StackItems) \in Nat /\ Len(StackItems) > 0
    BY <2>1, StackFacts
  <2>3. Len(StackItems) \in 1 .. Len(StackItems)
    BY <2>2
  <2> QED
    BY <1>1, <2>3 DEF Stacked
<1>4. Taking = {}
  BY <1>1 DEF Taken
<1> QED
  BY <1>2, <1>3, <1>4

\* KeepGoing turns 0 when the count is complete, and stays so.
LEMMA KeepGoingSteps ==
  ASSUME Safe, Next
  PROVE  /\ ~KeepGoing => ~KeepGoing'
         /\ KeepGoing /\ ~KeepGoing' => searched = Blocks /\ UNCHANGED searched
<1> USE DEF Safe
<1>1. CASE MainStep
  BY <1>1, MainMoves DEF doneVars
<1>2. ASSUME NEW t \in Threads, ThreadStep(t) \/ SpuriousWakeup(t)
      PROVE  /\ ~KeepGoing => ~KeepGoing'
             /\ KeepGoing /\ ~KeepGoing' => searched = Blocks /\ UNCHANGED searched
  <2>1. CASE t \in Consumers /\ AllDone(t)
    <3>1. Cardinality(searched) = CountExpected
      BY <2>1, CountsFinite, BlocksFinite DEF AllDone, Counted
    <3> QED
      BY <2>1, <3>1, CountsFinite DEF AllDone
  <2>2. CASE ~(t \in Consumers /\ AllDone(t))
    <3>1. KeepGoing' = KeepGoing
      BY <1>2, <2>2
      DEF ThreadStep, ProducerStep, ConsumerStep, SpuriousWakeup, CreateBlock,
          ProducerEnds, WaitNotFull, Push, SeeKeepGoing, NotAllDone, Announce,
          SeeEmpty, WaitNotEmpty, PopNull, Pop, SearchBlock, CountBlock, doneVars
    <3> QED
      BY <3>1
  <2> QED
    BY <2>1, <2>2
<1> QED
  BY <1>1, <1>2 DEF Next

\* KeepGoing is 0 only when every block has been searched and counted.
LEMMA StopsPreserved ==
  ASSUME Safe, Next
  PROVE  StopsWhenAllSearched'
<1> USE DEF Safe
<1>1. SUFFICES ASSUME ~KeepGoing'
               PROVE  /\ searched' = Blocks
                      /\ \A t \in Producers : pc'[t] \in {"loop", "done"}
  BY DEF StopsWhenAllSearched
<1>2. searched = Blocks
  BY <1>1, KeepGoingSteps DEF StopsWhenAllSearched, TypeOK
<1>3. searched' = Blocks
  BY <1>2, TypePreserved, Effect, NothingPending
  DEF TypeOK, Still, Pushed, Popped, Searched, BlocksAccounted, Apart
<1>4. ASSUME NEW p \in Producers
      PROVE  pc'[p] \in {"loop", "done"}
  <2>1. pc[p] \in {"loop", "done"}
    BY <1>2, NothingPending
  <2>2. CASE MainStep
    BY <2>1, <2>2, MainMoves, Sizes
  <2>3. ASSUME NEW t \in Threads, ThreadStep(t) \/ SpuriousWakeup(t)
        PROVE  pc'[p] \in {"loop", "done"}
    <3>1. CASE p # t
      BY <2>1, <2>3, <3>1, StepFrame, Sizes DEF Woke
    <3>2. CASE p = t
      <4>1. CreateBlock(t) \/ ProducerEnds(t)
        BY <2>1, <2>3, <3>2, Sizes
        DEF ThreadStep, SpuriousWakeup, ProducerStep, WaitNotFull, Push
      <4>2. ~CreateBlock(t)
        <5>1. <<p, nIterations>> \in Blocks \ Pending
          BY <1>2, Sizes DEF BlocksAccounted, Pending, Blocks
        <5>2. pBlock[p][2] \in 0 .. nIterations
          BY Sizes DEF TypeOK
        <5> QED
          BY <3>2, <5>1, <5>2, Sizes DEF CreateBlock, Pending
      <4> QED
        BY <3>2, <4>1, <4>2, Moves DEF ProducerEnds
    <3> QED
      BY <3>1, <3>2
  <2> QED
    BY <2>2, <2>3 DEF Next
<1> QED
  BY <1>3, <1>4

\* A thread falls asleep or ends by its own step.
LEMMA Sleepers ==
  ASSUME TypeOK, NEW t \in Threads, ThreadStep(t) \/ SpuriousWakeup(t)
  PROVE  /\ \A u \in Threads \ {t} :
              /\ pc'[u] = "NotEmptyCond" => pc[u] = "NotEmptyCond"
              /\ pc'[u] = "NotFullCond" => pc[u] = "NotFullCond"
              /\ pc'[u] = "done" <=> pc[u] = "done"
              /\ pc'[u] = "announce" <=> pc[u] = "announce"
              /\ pc'[u] = "wait" <=> pc[u] = "wait"
              /\ pc[u] = "push" => pc'[u] = "push"
         /\ pc'[t] = "NotEmptyCond" => t \in Consumers /\ WaitNotEmpty(t)
         /\ pc'[t] = "NotFullCond" => t \in Producers /\ WaitNotFull(t)
         /\ pc'[t] = "wait" => t \in Consumers /\ SeeEmpty(t)
         /\ t \in Consumers /\ pc'[t] = "done" => \/ SeeKeepGoing(t) /\ ~KeepGoing
                                                \/ Announce(t)
         /\ pc'[t] = "announce" => t \in Consumers /\ AllDone(t)
<1> DEFINE Self ==
         /\ pc'[t] = "NotEmptyCond" => t \in Consumers /\ WaitNotEmpty(t)
         /\ pc'[t] = "NotFullCond" => t \in Producers /\ WaitNotFull(t)
         /\ pc'[t] = "wait" => t \in Consumers /\ SeeEmpty(t)
         /\ t \in Consumers /\ pc'[t] = "done" => \/ SeeKeepGoing(t) /\ ~KeepGoing
                                                \/ Announce(t)
         /\ pc'[t] = "announce" => t \in Consumers /\ AllDone(t)
<1>1. ASSUME t \in Producers, ProducerStep(t)
      PROVE  Self
  <2>1. CASE WaitNotFull(t)
    BY <2>1, <1>1, Moves, Sizes DEF WaitNotFull
  <2>2. CASE CreateBlock(t) \/ ProducerEnds(t) \/ Push(t)
    BY <2>2, <1>1, Moves, Sizes DEF CreateBlock, ProducerEnds, Push
  <2> QED
    BY <1>1, <2>1, <2>2 DEF ProducerStep
<1>2. ASSUME t \in Consumers, ConsumerStep(t)
      PROVE  Self
  <2>1. CASE SeeKeepGoing(t)
    <3>1. pc'[t] = IF KeepGoing THEN "test" ELSE "done"
      BY <2>1, Moves DEF SeeKeepGoing
    <3> QED
      BY <2>1, <3>1
  <2>2. CASE AllDone(t)
    BY <2>2, <1>2, Moves DEF AllDone
  <2>3. CASE Announce(t)
    BY <2>3, <1>2, Moves DEF Announce
  <2>4. CASE SeeEmpty(t)
    BY <2>4, <1>2, Moves DEF SeeEmpty
  <2>5. CASE WaitNotEmpty(t)
    BY <2>5, <1>2, Moves DEF WaitNotEmpty
  <2>6. CASE NotAllDone(t) \/ PopNull(t) \/ Pop(t) \/ SearchBlock(t) \/ CountBlock(t)
    BY <2>6, Moves DEF NotAllDone, PopNull, Pop, SearchBlock, CountBlock
  <2> QED
    BY <1>2, <2>1, <2>2, <2>3, <2>4, <2>5, <2>6 DEF ConsumerStep
<1>3. ASSUME SpuriousWakeup(t)
      PROVE  Self
  BY <1>3, Moves DEF SpuriousWakeup, Relock
<1>4. \A u \in Threads \ {t} :
        /\ pc'[u] = "NotEmptyCond" => pc[u] = "NotEmptyCond"
        /\ pc'[u] = "NotFullCond" => pc[u] = "NotFullCond"
        /\ pc'[u] = "done" <=> pc[u] = "done"
        /\ pc'[u] = "announce" <=> pc[u] = "announce"
        /\ pc'[u] = "wait" <=> pc[u] = "wait"
        /\ pc[u] = "push" => pc'[u] = "push"
  BY StepFrame DEF Woke
<1>5. Self
  BY <1>1, <1>2, <1>3 DEF ThreadStep
<1> QED
  BY <1>4, <1>5

\* Only a push and a pop change the stack, when its mutex is free.
LEMMA StackOwner ==
  ASSUME Safe, Next, StackItems' # StackItems
  PROVE  StackLock = 0 /\ \/ \E t \in Producers : Push(t)
                          \/ \E t \in Consumers : Pop(t)
<1> USE DEF Safe
<1>1. ~MainStep
  BY MainMoves DEF stackVars
<1>2. PICK t \in Threads : ThreadStep(t) \/ SpuriousWakeup(t)
  BY <1>1 DEF Next
<1>3. \/ t \in Producers /\ Push(t)
      \/ t \in Consumers /\ Pop(t)
  BY <1>2
  DEF ThreadStep, ProducerStep, ConsumerStep, SpuriousWakeup, CreateBlock,
      ProducerEnds, WaitNotFull, SeeKeepGoing, NotAllDone, AllDone, Announce,
      SeeEmpty, WaitNotEmpty, PopNull, SearchBlock, CountBlock, stackVars
<1> QED
  BY <1>3 DEF Push, Pop

\* A consumer ends only when KeepGoing is 0, and sleeps only on an empty stack.
LEMMA ReasonsPreserved ==
  ASSUME Safe, Next
  PROVE  Reasons'
<1> USE DEF Safe
<1>1. CASE MainStep
  BY <1>1, MainMoves, Sizes DEF Reasons, doneVars, stackVars
<1>2. ASSUME NEW t \in Threads, ThreadStep(t) \/ SpuriousWakeup(t)
      PROVE  Reasons'
  <2>1. ASSUME NEW c \in Consumers, pc'[c] \in {"announce", "done"}
        PROVE  ~KeepGoing'
    <3>1. CASE c # t
      BY <1>2, <2>1, <3>1, Sleepers, Sizes, KeepGoingSteps DEF Reasons
    <3>2. CASE c = t /\ AllDone(t)
      BY <3>2 DEF AllDone
    <3>3. CASE c = t /\ ~AllDone(t)
      <4>1. \/ SeeKeepGoing(t) /\ ~KeepGoing
            \/ Announce(t)
        BY <1>2, <2>1, <3>3, Sleepers
      <4>2. ~KeepGoing
        BY <3>3, <4>1 DEF Reasons, Announce
      <4> QED
        BY <4>2, KeepGoingSteps
    <3> QED
      BY <3>1, <3>2, <3>3
  <2>2. ASSUME NEW c \in Consumers, pc'[c] = "wait"
        PROVE  StackItems' = <<>>
    <3>1. CASE c = t
      BY <1>2, <2>2, <3>1, Sleepers DEF SeeEmpty
    <3>2. CASE c # t
      <4>1. pc[c] = "wait" /\ StackLock = c /\ c # 0
        BY <1>2, <2>2, <3>2, Sleepers, Sizes DEF MutexHolders, Threads
      <4> QED
        BY <4>1, StackOwner DEF Reasons
    <3> QED
      BY <3>1, <3>2
  <2> QED
    BY <2>1, <2>2 DEF Reasons
<1> QED
  BY <1>1, <1>2 DEF Next

\* While the stack holds a block, or a producer offers one, KeepGoing holds and
\* no consumer has ended.
LEMMA NotOver ==
  ASSUME Safe, StackItems # <<>> \/ \E t \in Producers : pc[t] = "push"
  PROVE  KeepGoing /\ \A c \in Consumers : pc[c] \notin {"announce", "done"}
<1>1. KeepGoing
  BY NothingPending DEF Safe, StopsWhenAllSearched
<1> QED
  BY <1>1 DEF Safe, Reasons

\* Push wakes a consumer and Pop a producer, if one sleeps.
LEMMA SleepPreserved ==
  ASSUME Safe, Next
  PROVE  NoSleepOnWork'
<1> USE DEF Safe
<1>1. CASE MainStep
  <2>1. StackItems' = StackItems
    BY <1>1, MainMoves DEF stackVars
  <2>2. \A u \in Threads : /\ pc'[u] = "NotEmptyCond" <=> pc[u] = "NotEmptyCond"
                           /\ pc'[u] = "NotFullCond" <=> pc[u] = "NotFullCond"
                           /\ pc'[u] = "done" <=> pc[u] = "done"
                           /\ pc[u] = "push" => pc'[u] = "push"
    BY <1>1, MainMoves
  <2> QED
    BY <2>1, <2>2, Sizes DEF NoSleepOnWork, Waiting
<1>2. ASSUME NEW t \in Threads, ThreadStep(t) \/ SpuriousWakeup(t)
      PROVE  NoSleepOnWork'
  <2>0. \A p \in Producers : Push(p) => StackItems' # <<>>
    <3>1. ASSUME NEW p \in Producers, Push(p), StackItems' = <<>>
          PROVE  FALSE
      <4>1. pBlock[p] \in Blocks
        BY <3>1 DEF Push, OwnBlocks, Offering
      <4>2. Len(StackItems') = Len(StackItems) + 1 /\ Len(StackItems) \in Nat
        BY <3>1, <4>1, StackFacts DEF Push
      <4>3. Len(StackItems) + 1 # 0
        BY <4>2
      <4>4. Len(StackItems') # 0
        BY <4>2, <4>3
      <4> QED
        BY <3>1, <4>4
    <3> QED
      BY <3>1
  <2>1. ASSUME StackItems' # <<>>
        PROVE  \E c \in Consumers : pc'[c] \notin {"NotEmptyCond", "done"}
    <3>1. CASE StackItems # <<>>
      <4>1. PICK c \in Consumers : pc[c] \notin {"NotEmptyCond", "done"}
        BY <3>1 DEF NoSleepOnWork
      <4>2. KeepGoing /\ pc[c] # "announce" /\ pc[c] # "wait"
        BY <3>1, NotOver DEF Reasons
      <4>3. CASE c = t
        BY <1>2, <4>2, <4>3, Sleepers DEF WaitNotEmpty, Announce
      <4>4. CASE c # t
        BY <1>2, <4>1, <4>4, Sleepers, Sizes
      <4> QED
        BY <4>3, <4>4
    <3>2. CASE StackItems = <<>>
      <4>1. PICK p \in Producers : Push(p)
        BY <2>1, <3>2, StackOwner DEF Pop
      <4>2. PICK woken \in Signalled("NotEmptyCond") : Goto(p, "loop", woken)
        BY <4>1 DEF Push
      <4>3. \A c \in Consumers : pc[c] # "done"
        BY <4>1, NotOver DEF Push
      <4>4. CASE Waiting("NotEmptyCond") = {}
        <5>1. ThreadCount \in Consumers /\ ThreadCount \in Threads
          BY Sizes DEF Consumers, Threads
        <5>2. pc[ThreadCount] # "NotEmptyCond" /\ pc'[ThreadCount] = pc[ThreadCount]
          BY <4>1, <4>2, <4>4, <5>1, Sizes DEF Waiting, Goto, Signalled
        <5> QED
          BY <4>3, <5>1, <5>2
      <4>5. CASE Waiting("NotEmptyCond") # {}
        <5>1. PICK w \in Waiting("NotEmptyCond") : woken = {w}
          BY <4>2, <4>5 DEF Signalled
        <5>2. w \in Consumers
          BY <5>1, Sizes DEF Waiting, TypeOK, ProducerLabels
        <5>3. pc'[w] = "woken"
          BY <4>1, <4>2, <5>1, <5>2, Sizes DEF Goto, Relock, Waiting
        <5> QED
          BY <5>2, <5>3
      <4> QED
        BY <4>4, <4>5
    <3> QED
      BY <3>1, <3>2
  <2>2. ASSUME Waiting("NotFullCond")' # {}, StackItems' = <<>>
        PROVE  \E p \in Producers : pc'[p] = "push"
    <3>1. ~(t \in Producers /\ WaitNotFull(t))
      BY <2>2, Sizes DEF WaitNotFull, stackVars
    <3>2. PICK w \in Threads : pc[w] = "NotFullCond" /\ pc'[w] = "NotFullCond"
      BY <1>2, <2>2, <3>1, Sleepers DEF Waiting
    <3>3. CASE StackItems = <<>>
      <4>1. PICK p \in Producers : pc[p] = "push"
        BY <3>2, <3>3 DEF NoSleepOnWork, Waiting
      <4>2. CASE p # t
        BY <1>2, <4>1, <4>2, Sleepers, Sizes
      <4>3. CASE p = t
        <5>1. Push(t)
          BY <1>2, <3>1, <4>1, <4>3, Sizes
          DEF ThreadStep, ProducerStep, SpuriousWakeup, CreateBlock, ProducerEnds
        <5> QED
          BY <2>0, <2>2, <4>3, <5>1
      <4> QED
        BY <4>2, <4>3
    <3>4. CASE StackItems # <<>>
      <4>1. PICK c \in Consumers : Pop(c)
        BY <2>0, <2>2, <3>4, StackOwner
      <4>2. PICK woken \in Signalled("NotFullCond") : Goto(c, "search", woken)
        BY <4>1 DEF Pop
      <4>3. PICK v \in Waiting("NotFullCond") : woken = {v}
        BY <3>2, <4>2 DEF Signalled, Waiting
      <4>4. v \in Producers /\ v # c
        BY <4>1, <4>3, Sizes DEF Waiting, TypeOK, ConsumerLabels
      <4>5. pc'[v] = "push"
        BY <4>2, <4>3, <4>4, Sizes DEF Goto, Relock, Waiting
      <4> QED
        BY <4>4, <4>5
    <3> QED
      BY <3>3, <3>4
  <2> QED
    BY <2>1, <2>2 DEF NoSleepOnWork
<1> QED
  BY <1>1, <1>2 DEF Next

-----------------------------------------------------------------------------
(* The theorems *)

\* The state before the first thread is created is safe.
LEMMA InitSafe == Init => Safe
<1> SUFFICES ASSUME Init
             PROVE  Safe
  OBVIOUS
<1>1. \A t \in Threads : pc[t] = "new" /\ pBlock[t] = <<t, 0>>
  BY DEF Init
<1>2. Taking = {} /\ Counting = {}
  BY <1>1, Sizes DEF Taking, Counting
<1>3. TypeOK
  <2>1. StackItems \in Seq(Blocks) /\ Len(StackItems) = 0
    BY DEF Init
  <2>2. pBlock \in [Threads -> Threads \X (0 .. nIterations)]
    BY Sizes DEF Init
  <2> QED
    BY <2>1, <2>2, Sizes, BlocksFinite
    DEF Init, TypeOK, ProducerLabels, ConsumerLabels, Threads
<1>4. MainLoops /\ MutexHolders
  <2>1. \A t \in Consumers : ~(t <= nThreadsProducers + 0)
    BY Sizes DEF Consumers
  <2> QED
    BY <2>1 DEF Init, MainLoops, MutexHolders, Threads
<1>5. OwnBlocks
  BY <1>1, Sizes DEF OwnBlocks, Offering
<1>6. BlocksAccounted
  <2>1. Stacked = {} /\ Taken = {} /\ searched = {}
    BY <1>2 DEF Init, Stacked, Taken
  <2>2. Pending = Blocks
    <3>1. ASSUME NEW b \in Blocks
          PROVE  pBlock[b[1]][2] < b[2]
      <4>1. b[1] \in Threads /\ b[2] \in Nat /\ b[2] > 0
        BY BlockNames, Sizes
      <4> QED
        BY <1>1, <4>1
    <3> QED
      BY <3>1 DEF Pending
  <2> QED
    BY <1>2, <2>1, <2>2 DEF Init, BlocksAccounted
<1>7. Counted
  BY <1>2, FS_EmptySet DEF Init, Counted
<1>8. StopsWhenAllSearched /\ Reasons /\ NoSleepOnWork
  BY <1>1, Sizes DEF Init, StopsWhenAllSearched, Reasons, NoSleepOnWork, Waiting
<1> QED
  BY <1>3, <1>4, <1>5, <1>6, <1>7, <1>8 DEF Safe

\* A step that changes nothing keeps the invariant.
LEMMA StutterSafe ==
  ASSUME Safe, UNCHANGED vars
  PROVE  Safe'
<1>1. TypeOK' /\ MainLoops' /\ MutexHolders' /\ OwnBlocks'
  BY DEF Safe, vars, TypeOK, MainLoops, MutexHolders, OwnBlocks
<1>2. BlocksAccounted'
  <2>1. BlocksAccounted /\ Apart
    BY DEF Safe, BlocksAccounted, Apart
  <2>2. Still /\ Apart'
    BY <2>1, Quiet DEF vars
  <2> QED
    BY <2>1, <2>2 DEF Still, BlocksAccounted, Apart
<1>3. Counted' /\ StopsWhenAllSearched' /\ Reasons'
  BY DEF Safe, vars, Counted, Counting, StopsWhenAllSearched, Reasons
<1>4. NoSleepOnWork'
  BY DEF Safe, vars, Waiting, NoSleepOnWork
<1> QED
  BY <1>1, <1>2, <1>3, <1>4 DEF Safe

\* Safe is inductive: whatever the numbers of blocks and threads, every step of
\* a thread, of main and of a spurious wakeup preserves it.
THEOREM SpecSafe == Spec => []Safe
<1>1. Safe /\ [Next]_vars => Safe'
  <2>1. ASSUME Safe, Next
        PROVE  Safe'
    BY <2>1, TypePreserved, MainLoopsPreserved, MutexHoldersPreserved,
       OwnBlocksPreserved, BlocksPreserved, CountedPreserved, StopsPreserved,
       ReasonsPreserved, SleepPreserved
    DEF Safe
  <2> QED
    BY <2>1, StutterSafe
<1> QED
  BY InitSafe, <1>1, PTL DEF Spec

\* The stack stays within its array and CountDone never passes CountExpected,
\* so that the consumers' test for equality cannot miss it.
THEOREM SpecTypeOK == Spec => []TypeOK
<1>1. Safe => TypeOK
  BY DEF Safe
<1> QED
  BY <1>1, SpecSafe, PTL

\* No block is lost, and none is searched twice.
THEOREM SpecBlocksAccounted == Spec => []BlocksAccounted
<1>1. Safe => BlocksAccounted
  BY DEF Safe
<1> QED
  BY <1>1, SpecSafe, PTL

\* KeepGoing, read by everybody without a lock, turns 0 only when every block
\* has been searched.
THEOREM SpecStopsWhenAllSearched == Spec => []StopsWhenAllSearched
<1>1. Safe => StopsWhenAllSearched
  BY DEF Safe
<1> QED
  BY <1>1, SpecSafe, PTL

\* The signals of push and pop suffice: nobody sleeps while there is work.
THEOREM SpecNoSleepOnWork == Spec => []NoSleepOnWork
<1>1. Safe => NoSleepOnWork
  BY DEF Safe
<1> QED
  BY <1>1, SpecSafe, PTL

\* Once a consumer is done, so is the search.
LEMMA DoneMeansSearched ==
  ASSUME Safe, NEW c \in Consumers, pc[c] = "done"
  PROVE  searched = Blocks
BY DEF Safe, Reasons, StopsWhenAllSearched

\* The count main reports after the last pthread_join covers every block.
THEOREM SpecCountAfterAll == Spec => []CountAfterAll
<1>1. Safe => CountAfterAll
  <2> SUFFICES ASSUME Safe, joined = nThreadsConsumers
               PROVE  searched = Blocks
    BY DEF CountAfterAll
  <2>1. ThreadCount \in Consumers /\ ThreadCount <= nThreadsProducers + joined
    BY Sizes DEF Consumers, ThreadCount
  <2>2. pc[ThreadCount] = "done"
    BY <2>1 DEF Safe, MainLoops
  <2> QED
    BY <2>1, <2>2, DoneMeansSearched
<1> QED
  BY <1>1, SpecSafe, PTL

-----------------------------------------------------------------------------
(* The refinement of Handoff *)

\* The place of a block, read off the partition.
LEMMA PlaceOf ==
  ASSUME BlocksAccounted, NEW b \in Blocks
  PROVE  /\ Place(b) = "source" <=> b \in Pending
         /\ Place(b) = "buffer" <=> b \in Stacked
         /\ Place(b) = "taken" <=> b \in Taken
         /\ Place(b) = "used" <=> b \in searched
         /\ Place(b) \in {"source", "buffer", "taken", "used"}
BY DEF Place, BlocksAccounted

\* The place of a block after a step.
LEMMA PlaceOfNext ==
  ASSUME BlocksAccounted', NEW b \in Blocks
  PROVE  /\ Place(b)' = "source" <=> b \in Pending'
         /\ Place(b)' = "buffer" <=> b \in Stacked'
         /\ Place(b)' = "taken" <=> b \in Taken'
         /\ Place(b)' = "used" <=> b \in searched'
         /\ Place(b)' \in {"source", "buffer", "taken", "used"}
BY DEF Place, BlocksAccounted

\* Through BlocksAccounted a step of pcm4 is a step of Handoff: a push puts a
\* block in the buffer, a pop takes it out, the search uses it, and the last
\* pthread_join reports.
THEOREM SpecImplementsHandoff == Spec => ImplementsHandoff
<1> DEFINE place == [b \in Blocks |-> Place(b)]
           reported == joined = nThreadsConsumers
<1>1. Init => Promise!Init
  <2> SUFFICES ASSUME Init
               PROVE  Promise!Init
    OBVIOUS
  <2>1. Stacked = {} /\ Taken = {} /\ searched = {}
    BY Sizes DEF Init, Stacked, Taken, Taking
  <2>2. \A b \in Blocks : Place(b) = "source"
    BY <2>1 DEF Place
  <2> QED
    BY <2>2, Sizes DEF Init, Promise!Init
<1>2. Safe /\ Safe' /\ [Next]_vars => [Promise!Next]_(Promise!handoffVars)
  <2> SUFFICES ASSUME Safe, Safe', [Next]_vars
               PROVE  [Promise!Next]_(Promise!handoffVars)
    OBVIOUS
  <2>1. BlocksAccounted /\ BlocksAccounted' /\ Apart
    BY DEF Safe, BlocksAccounted, Apart
  <2>2. \/ Still
        \/ \E b \in Blocks : Pushed(b) \/ Popped(b) \/ Searched(b)
    BY <2>1, Effect
  <2>3. CASE joined' # joined
    <3>1. JoinConsumer
      <4>1. \A t \in Threads : ~(ThreadStep(t) \/ SpuriousWakeup(t))
        BY <2>3, StepSelf DEF Safe, mainVars
      <4> QED
        BY <2>3, <4>1 DEF Next, vars, MainStep, CreateThread
    <3>2. /\ joined < nThreadsConsumers /\ joined' = joined + 1
          /\ UNCHANGED <<pc, pBlock, StackItems, searched>>
      BY <3>1 DEF JoinConsumer, stackVars
    <3>3. \A b \in Blocks : Place(b)' = Place(b)
      BY <3>2 DEF Place, Taken, Taking, Stacked
    <3>4. place' = place
      BY <3>3
    <3>5. CASE joined' = nThreadsConsumers
      <4>1. searched = Blocks
        <5>1. nThreadsProducers + joined + 1 \in Consumers
          BY <3>2, Sizes DEF Safe, TypeOK, Consumers, ThreadCount
        <5> QED
          BY <3>1, <5>1, DoneMeansSearched DEF JoinConsumer
      <4>2. \A b \in Blocks : Place(b) = "used"
        BY <4>1 DEF Place
      <4> QED
        BY <3>4, <3>5, <4>2 DEF Promise!Next, Promise!Report
    <3>6. CASE joined' # nThreadsConsumers
      BY <3>2, <3>4, <3>6, Sizes DEF Promise!handoffVars
    <3> QED
      BY <3>5, <3>6
  <2>4. CASE joined' = joined
    <3>1. reported' = reported
      BY <2>4
    <3>2. CASE Still
      <4>1. \A b \in Blocks : Place(b)' = Place(b)
        BY <3>2 DEF Place, Still
      <4>2. place' = place
        BY <4>1
      <4> QED
        BY <3>1, <4>2 DEF Promise!handoffVars
    <3>3. ASSUME NEW b \in Blocks, Pushed(b)
          PROVE  Promise!Put(b)
      <4>1. Place(b) = "source" /\ Place(b)' = "buffer"
        BY <2>1, <3>3, PlaceOf, PlaceOfNext DEF Pushed
      <4>2. \A c \in Blocks \ {b} : Place(c)' = Place(c)
        BY <3>3 DEF Pushed, Place
      <4>3. place' = [place EXCEPT ![b] = "buffer"]
        BY <4>1, <4>2
      <4> QED
        BY <3>1, <4>1, <4>3 DEF Promise!Put, Promise!Move
    <3>4. ASSUME NEW b \in Blocks, Popped(b)
          PROVE  Promise!Take(b)
      <4>1. Place(b) = "buffer" /\ Place(b)' = "taken"
        BY <2>1, <3>4, PlaceOf, PlaceOfNext DEF Popped
      <4>2. \A c \in Blocks \ {b} : Place(c)' = Place(c)
        BY <3>4 DEF Popped, Place
      <4>3. place' = [place EXCEPT ![b] = "taken"]
        BY <4>1, <4>2
      <4> QED
        BY <3>1, <4>1, <4>3 DEF Promise!Take, Promise!Move
    <3>5. ASSUME NEW b \in Blocks, Searched(b)
          PROVE  Promise!Use(b)
      <4>1. Place(b) = "taken" /\ Place(b)' = "used"
        BY <2>1, <3>5, PlaceOf, PlaceOfNext DEF Searched
      <4>2. \A c \in Blocks \ {b} : Place(c)' = Place(c)
        BY <3>5 DEF Searched, Place
      <4>3. place' = [place EXCEPT ![b] = "used"]
        BY <4>1, <4>2
      <4> QED
        BY <3>1, <4>1, <4>3 DEF Promise!Use, Promise!Move
    <3> QED
      BY <2>2, <3>2, <3>3, <3>4, <3>5 DEF Promise!Next
  <2> QED
    BY <2>3, <2>4
<1> QED
  BY <1>1, <1>2, SpecSafe, PTL DEF Spec, ImplementsHandoff, Promise!Flow
=============================================================================
