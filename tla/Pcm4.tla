-------------------------------- MODULE Pcm4 --------------------------------
(***************************************************************************)
(* pcm4 (Milestone04/main.c): producer threads push a fixed number of      *)
(* blocks each onto a bounded stack, consumer threads search them for      *)
(* "the", and stop once CountDone has reached CountExpected.               *)
(*                                                                         *)
(* A step is what a thread does between two points where another one can   *)
(* interfere.  A section that touches nothing but what its mutex protects  *)
(* is one step, taken when the mutex is free.  A mutex is held from one    *)
(* step to the next in two places: StackLock between the pop's test of the *)
(* stack and its pthread_cond_wait, and DoneLock between KeepGoing = 0 and *)
(* the broadcast, because KeepGoing is read without DoneLock and the       *)
(* broadcast is sent without StackLock.                                    *)
(***************************************************************************)
EXTENDS Integers, Sequences, FiniteSets

CONSTANTS
  nThreadsProducers,
  nThreadsConsumers,
  nIterations,       \* how many blocks each producer makes
  STACK_MAX_SIZE

\* main also bounds nIterations by 1000000, so that CountExpected fits an int.
ASSUME ArgumentsAssumption ==
  /\ nThreadsProducers \in 1 .. 20
  /\ nThreadsConsumers \in 1 .. 30
  /\ nIterations \in Nat \ {0}
  /\ STACK_MAX_SIZE \in Nat \ {0}

-----------------------------------------------------------------------------
\* in the order in which main creates them
ThreadCount == nThreadsProducers + nThreadsConsumers
Producers == 1 .. nThreadsProducers
Consumers == nThreadsProducers + 1 .. ThreadCount
Threads == 1 .. ThreadCount

Blocks == Producers \X (1 .. nIterations)
CountExpected == nThreadsProducers * nIterations

VARIABLES
  created, joined, \* how many threads main has created, consumers it has joined
  pc,
  pBlock,          \* the block a thread holds, or held last: <<producer, number>>
  KeepGoing,
  DoneLock,        \* the thread that holds the mutex, 0 if none does
  CountDone,
  StackLock,
  StackItems,      \* StackSize is its length
  searched         \* the blocks a consumer has searched

vars == <<created, joined, pc, pBlock, KeepGoing, DoneLock, CountDone,
          StackLock, StackItems, searched>>

mainVars == <<created, joined>>
doneVars == <<KeepGoing, DoneLock, CountDone>>
stackVars == <<StackLock, StackItems>>

Init ==
  /\ created = 0
  /\ joined = 0
  /\ pc = [t \in Threads |-> "new"]
  /\ pBlock = [t \in Threads |-> <<t, 0>>]
  /\ KeepGoing = TRUE
  /\ DoneLock = 0
  /\ CountDone = 0
  /\ StackLock = 0
  /\ StackItems = <<>>
  /\ searched = {}

-----------------------------------------------------------------------------
(***************************************************************************)
(* Condition variables.  A thread in pthread_cond_wait has given up        *)
(* StackLock; once woken it goes on when it has the lock again.            *)
(***************************************************************************)
Waiting(cond) == {t \in Threads : pc[t] = cond}

\* the threads one pthread_cond_signal can wake
Signalled(cond) ==
  IF Waiting(cond) = {} THEN {{}} ELSE {{t} : t \in Waiting(cond)}

Relock(label) == IF label = "NotEmptyCond" THEN "woken" ELSE "push"

\* t goes on at next, and the threads in woken leave their wait
Goto(t, next, woken) ==
  pc' = [u \in Threads |->
           IF u = t THEN next
           ELSE IF u \in woken THEN Relock(pc[u]) ELSE pc[u]]

\* pthread_cond_wait may also return without a signal
SpuriousWakeup(t) ==
  /\ pc[t] \in {"NotEmptyCond", "NotFullCond"}
  /\ Goto(t, Relock(pc[t]), {})
  /\ UNCHANGED <<mainVars, pBlock, doneVars, stackVars, searched>>

-----------------------------------------------------------------------------
(* main *)
CreateThread ==
  /\ created < ThreadCount
  /\ created' = created + 1
  /\ Goto(created', "loop", {})
  /\ UNCHANGED <<joined, pBlock, doneVars, stackVars, searched>>

JoinConsumer ==
  /\ created = ThreadCount
  /\ joined < nThreadsConsumers
  /\ pc[nThreadsProducers + joined + 1] = "done"
  /\ joined' = joined + 1
  /\ UNCHANGED <<created, pc, pBlock, doneVars, stackVars, searched>>

-----------------------------------------------------------------------------
(* thread_producer; nIterations - pBlock[t][2] is its IterationsToGo *)
CreateBlock(t) ==
  /\ pc[t] = "loop"
  /\ KeepGoing
  /\ pBlock[t][2] < nIterations
  /\ pBlock' = [pBlock EXCEPT ![t] = <<t, @[2] + 1>>]
  /\ Goto(t, "push", {})
  /\ UNCHANGED <<mainVars, doneVars, stackVars, searched>>

ProducerEnds(t) ==
  /\ pc[t] = "loop"
  /\ ~KeepGoing \/ pBlock[t][2] = nIterations
  /\ Goto(t, "done", {})
  /\ UNCHANGED <<mainVars, pBlock, doneVars, stackVars, searched>>

(* stack_ts_cv_push *)
WaitNotFull(t) ==
  /\ pc[t] = "push"
  /\ StackLock = 0
  /\ Len(StackItems) >= STACK_MAX_SIZE
  /\ Goto(t, "NotFullCond", {})
  /\ UNCHANGED <<mainVars, pBlock, doneVars, stackVars, searched>>

\* slip: > for >= in the test for a full stack
PushOver(t) ==
  /\ pc[t] = "push"
  /\ StackLock = 0
  /\ Len(StackItems) <= STACK_MAX_SIZE
  /\ StackItems' = Append(StackItems, pBlock[t])
  /\ \E woken \in Signalled("NotEmptyCond") : Goto(t, "loop", woken)
  /\ UNCHANGED <<mainVars, pBlock, doneVars, StackLock, searched>>

\* slip: no signal
PushSilently(t) ==
  /\ pc[t] = "push"
  /\ StackLock = 0
  /\ Len(StackItems) < STACK_MAX_SIZE
  /\ StackItems' = Append(StackItems, pBlock[t])
  /\ Goto(t, "loop", {})
  /\ UNCHANGED <<mainVars, pBlock, doneVars, StackLock, searched>>

Push(t) ==
  /\ pc[t] = "push"
  /\ StackLock = 0
  /\ Len(StackItems) < STACK_MAX_SIZE
  /\ StackItems' = Append(StackItems, pBlock[t])
  /\ \E woken \in Signalled("NotEmptyCond") : Goto(t, "loop", woken)
  /\ UNCHANGED <<mainVars, pBlock, doneVars, StackLock, searched>>

-----------------------------------------------------------------------------
(* thread_consumer *)
SeeKeepGoing(t) ==
  /\ pc[t] = "loop"
  /\ Goto(t, IF KeepGoing THEN "test" ELSE "done", {})
  /\ UNCHANGED <<mainVars, pBlock, doneVars, stackVars, searched>>

NotAllDone(t) ==
  /\ pc[t] = "test"
  /\ DoneLock = 0
  /\ CountDone # CountExpected
  /\ Goto(t, "pop", {})
  /\ UNCHANGED <<mainVars, pBlock, doneVars, stackVars, searched>>

\* slip: the consumers stop one block early
AllButOneDone(t) ==
  /\ pc[t] = "test"
  /\ DoneLock = 0
  /\ CountDone >= CountExpected - 1
  /\ KeepGoing' = FALSE
  /\ DoneLock' = t
  /\ Goto(t, "announce", {})
  /\ UNCHANGED <<mainVars, pBlock, CountDone, stackVars, searched>>

AllDone(t) ==
  /\ pc[t] = "test"
  /\ DoneLock = 0
  /\ CountDone = CountExpected
  /\ KeepGoing' = FALSE
  /\ DoneLock' = t
  /\ Goto(t, "announce", {})
  /\ UNCHANGED <<mainVars, pBlock, CountDone, stackVars, searched>>

Announce(t) ==
  /\ pc[t] = "announce"
  /\ DoneLock' = 0
  /\ Goto(t, "done", Waiting("NotEmptyCond"))
  /\ UNCHANGED <<mainVars, pBlock, KeepGoing, CountDone, stackVars, searched>>

(***************************************************************************)
(* stack_ts_cv_pop.  KeepGoing is tested after a wait, not before it.      *)
(***************************************************************************)
SeeEmpty(t) ==
  /\ \/ pc[t] = "pop"
     \/ pc[t] = "woken" /\ KeepGoing
  /\ StackLock = 0
  /\ StackItems = <<>>
  /\ StackLock' = t
  /\ Goto(t, "wait", {})
  /\ UNCHANGED <<mainVars, pBlock, doneVars, StackItems, searched>>

WaitNotEmpty(t) ==
  /\ pc[t] = "wait"
  /\ StackLock' = 0
  /\ Goto(t, "NotEmptyCond", {})
  /\ UNCHANGED <<mainVars, pBlock, doneVars, StackItems, searched>>

PopNull(t) ==
  /\ pc[t] = "woken"
  /\ StackLock = 0
  /\ ~KeepGoing
  /\ Goto(t, "loop", {})
  /\ UNCHANGED <<mainVars, pBlock, doneVars, stackVars, searched>>

\* slip: StackSize is not counted down
PopKept(t) ==
  /\ \/ pc[t] = "pop"
     \/ pc[t] = "woken" /\ KeepGoing
  /\ StackLock = 0
  /\ StackItems # <<>>
  /\ pBlock' = [pBlock EXCEPT ![t] = StackItems[Len(StackItems)]]
  /\ \E woken \in Signalled("NotFullCond") : Goto(t, "search", woken)
  /\ UNCHANGED <<mainVars, doneVars, stackVars, searched>>

\* slip: no signal
PopSilently(t) ==
  /\ \/ pc[t] = "pop"
     \/ pc[t] = "woken" /\ KeepGoing
  /\ StackLock = 0
  /\ StackItems # <<>>
  /\ pBlock' = [pBlock EXCEPT ![t] = StackItems[Len(StackItems)]]
  /\ StackItems' = SubSeq(StackItems, 1, Len(StackItems) - 1)
  /\ Goto(t, "search", {})
  /\ UNCHANGED <<mainVars, doneVars, StackLock, searched>>

Pop(t) ==
  /\ \/ pc[t] = "pop"
     \/ pc[t] = "woken" /\ KeepGoing
  /\ StackLock = 0
  /\ StackItems # <<>>
  /\ pBlock' = [pBlock EXCEPT ![t] = StackItems[Len(StackItems)]]
  /\ StackItems' = SubSeq(StackItems, 1, Len(StackItems) - 1)
  /\ \E woken \in Signalled("NotFullCond") : Goto(t, "search", woken)
  /\ UNCHANGED <<mainVars, doneVars, StackLock, searched>>

SearchBlock(t) ==
  /\ pc[t] = "search"
  /\ searched' = searched \cup {pBlock[t]}
  /\ Goto(t, "count", {})
  /\ UNCHANGED <<mainVars, pBlock, doneVars, stackVars>>

CountBlock(t) ==
  /\ pc[t] = "count"
  /\ DoneLock = 0
  /\ CountDone' = CountDone + 1
  /\ Goto(t, "loop", {})
  /\ UNCHANGED <<mainVars, pBlock, KeepGoing, DoneLock, stackVars, searched>>

-----------------------------------------------------------------------------
MainStep == CreateThread \/ JoinConsumer

ProducerStep(t) ==
  \/ CreateBlock(t) \/ ProducerEnds(t)
  \/ WaitNotFull(t) \/ Push(t)

ConsumerStep(t) ==
  \/ SeeKeepGoing(t) \/ NotAllDone(t) \/ AllDone(t) \/ Announce(t)
  \/ SeeEmpty(t) \/ WaitNotEmpty(t) \/ PopNull(t) \/ Pop(t)
  \/ SearchBlock(t) \/ CountBlock(t)

ThreadStep(t) ==
  \/ t \in Producers /\ ProducerStep(t)
  \/ t \in Consumers /\ ConsumerStep(t)

Next ==
  \/ MainStep
  \/ \E t \in Threads : ThreadStep(t) \/ SpuriousWakeup(t)

Spec == Init /\ [][Next]_vars

\* The scheduler runs every thread that can run, and the threads wake up without
\* a signal finitely often only: each then asks for a lock finitely often, so
\* that fair locks are not needed.
FairSpec ==
  /\ Spec
  /\ WF_vars(MainStep)
  /\ \A t \in Threads : WF_vars(ThreadStep(t))
  /\ <>[][\A t \in Threads : ~SpuriousWakeup(t)]_vars

-----------------------------------------------------------------------------
(***************************************************************************)
(* Properties                                                              *)
(***************************************************************************)
ProducerLabels == {"new", "loop", "push", "NotFullCond", "done"}
ConsumerLabels ==
  {"new", "loop", "test", "announce", "pop", "wait", "NotEmptyCond", "woken",
   "search", "count", "done"}

\* The stack never exceeds its array, CountDone never passes CountExpected, so
\* that the test for equality cannot miss it.
TypeOK ==
  /\ created \in 0 .. ThreadCount
  /\ joined \in 0 .. nThreadsConsumers
  /\ pc \in [Threads -> ProducerLabels \cup ConsumerLabels]
  /\ \A t \in Producers : pc[t] \in ProducerLabels
  /\ \A t \in Consumers : pc[t] \in ConsumerLabels
  /\ pBlock \in [Threads -> Threads \X (0 .. nIterations)]
  /\ KeepGoing \in BOOLEAN
  /\ DoneLock \in 0 .. ThreadCount
  /\ CountDone \in 0 .. CountExpected
  /\ StackLock \in 0 .. ThreadCount
  /\ StackItems \in Seq(Blocks)
  /\ Len(StackItems) <= STACK_MAX_SIZE
  /\ searched \subseteq Blocks

Offering == {"push", "NotFullCond"}

\* the blocks that are not on the stack yet
Pending ==
  {b \in Blocks :
     \/ pBlock[b[1]][2] < b[2]
     \/ pBlock[b[1]][2] = b[2] /\ pc[b[1]] \in Offering}
Stacked == {StackItems[k] : k \in 1 .. Len(StackItems)}
Taking == {t \in Consumers : pc[t] = "search"}
Taken == {pBlock[t] : t \in Taking}

\* No block is lost or searched twice: at all times each one is still to be
\* pushed, in one slot of the stack, in the hands of one consumer, or searched.
BlocksAccounted ==
  /\ Blocks = Pending \cup Stacked \cup Taken \cup searched
  /\ Pending \cap (Stacked \cup Taken \cup searched) = {}
  /\ Stacked \cap (Taken \cup searched) = {}
  /\ Taken \cap searched = {}
  /\ \A j, k \in 1 .. Len(StackItems) :
       StackItems[j] = StackItems[k] => j = k
  /\ \A t, u \in Taking : pBlock[t] = pBlock[u] => t = u

\* KeepGoing, which everybody reads without a lock, turns 0 only when every
\* block has been pushed, popped, searched and counted: no producer is cut
\* short by it and stack_ts_cv_pop cannot turn a block down.
StopsWhenAllSearched ==
  ~KeepGoing => /\ searched = Blocks
                /\ \A t \in Producers : pc[t] \in {"loop", "done"}

\* The drumroll comes when CountFound includes every block.
CountAfterAll == joined = nThreadsConsumers => searched = Blocks

\* Push and pop lose no wakeup: while the stack holds a block some consumer is
\* awake to take it, and while a producer sleeps because the stack was full a
\* block is left to be popped, or another producer is about to push one.
NoSleepOnWork ==
  /\ StackItems # <<>> =>
       \E t \in Consumers : pc[t] \notin {"NotEmptyCond", "done"}
  /\ Waiting("NotFullCond") # {} =>
       \/ StackItems # <<>>
       \/ \E t \in Producers : pc[t] = "push"

-----------------------------------------------------------------------------
(***************************************************************************)
(* The inductive invariant behind them.                                    *)
(***************************************************************************)
MainLoops ==
  /\ \A t \in Threads : t > created <=> pc[t] = "new"
  /\ \A t \in Consumers : t <= nThreadsProducers + joined => pc[t] = "done"

MutexHolders ==
  /\ \A t \in Threads : pc[t] = "announce" <=> DoneLock = t
  /\ \A t \in Threads : pc[t] = "wait" <=> StackLock = t

OwnBlocks ==
  \A t \in Producers :
    /\ pBlock[t][1] = t
    /\ pc[t] \in Offering => pBlock[t] \in Blocks
    /\ pc[t] = "new" => pBlock[t][2] = 0

\* CountDone lags behind by the consumers that are about to count
Counting == {t \in Consumers : pc[t] = "count"}
Counted == CountDone + Cardinality(Counting) = Cardinality(searched)

\* a consumer ends only when KeepGoing is 0, and sleeps only on an empty stack
Reasons ==
  \A t \in Consumers :
    /\ pc[t] \in {"announce", "done"} => ~KeepGoing
    /\ pc[t] = "wait" => StackItems = <<>>

Safe ==
  /\ TypeOK
  /\ MainLoops
  /\ MutexHolders
  /\ OwnBlocks
  /\ BlocksAccounted
  /\ Counted
  /\ StopsWhenAllSearched
  /\ Reasons
  /\ NoSleepOnWork

-----------------------------------------------------------------------------
Place(b) ==
  IF b \in searched THEN "used"
  ELSE IF b \in Taken THEN "taken"
  ELSE IF b \in Stacked THEN "buffer" ELSE "source"

Promise ==
  INSTANCE Handoff
  WITH Items <- Blocks, place <- [b \in Blocks |-> Place(b)],
       reported <- joined = nThreadsConsumers

\* Seen from its blocks the program moves one block one stage at a time, in
\* one direction, and reports at the end.
ImplementsHandoff == Promise!Flow

\* The loop of the comment at main.c:372 ends: the consumers are done, all
\* others having been told that it is done (the comment at main.c:243).
ProgramEnds == <>(joined = nThreadsConsumers)

\* The missed announcement is the only way not to end: some consumer ends, and
\* any other one that does not sleeps on NotEmptyCond for ever.  A single
\* consumer therefore ends, and main with it.
EndsOrSleeps ==
  <>[](/\ \E t \in Consumers : pc[t] = "done"
       /\ \A t \in Consumers : pc[t] \in {"done", "NotEmptyCond"})
=============================================================================
