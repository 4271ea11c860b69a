---------------------------- MODULE ChimeProofs ----------------------------
(***************************************************************************)
(* For every number of slots: quit is graceful.                            *)
(***************************************************************************)
EXTENDS Chime, TLAPS

(* The types are kept by every step.                                       *)
LEMMA StepTypeOK ==
  ASSUME MAX_THREADS \in Nat, TypeOK, [Next]_vars
  PROVE  TypeOK'
<1> USE DEF TypeOK, Slots, Intervals, slotVars, Goto
<1>1. CASE Command
  <2>1. ASSUME NEW t \in Slots, NEW i \in Intervals,
               StartChime(t, i) \/ ChangeInterval(t, i)
        PROVE  TypeOK'
    BY <2>1 DEF StartChime, ChangeInterval
  <2>2. CASE DoNothing \/ EmptyLine \/ EndOfInput \/ Quit
    BY <2>2 DEF DoNothing, EmptyLine, EndOfInput, Quit
  <2> QED BY <1>1, <2>1, <2>2 DEF Command
<1>2. CASE QuitStep
  BY <1>2 DEF QuitStep, JoinChime, JoinMissing, Exit
<1>3. ASSUME NEW t \in Slots, ThreadStep(t)
      PROVE  TypeOK'
  <2>1. CASE LoopTest(t)
    BY <2>1 DEF LoopTest
  <2>2. CASE CallSleep(t)
    BY <2>2 DEF CallSleep
  <2>3. CASE Ding(t)
    <3>1. lateDings' \in [Slots -> Nat]
      BY <2>3 DEF Ding
    <3>2. pc' \in [Slots -> {"none", "missing", "test", "call", "sleep", "done"}]
      BY <2>3 DEF Ding
    <3> QED BY <2>3, <3>1, <3>2 DEF Ding
  <2> QED BY <1>3, <2>1, <2>2, <2>3 DEF ThreadStep
<1>4. CASE UNCHANGED vars
  BY <1>4 DEF vars
<1> QED BY <1>1, <1>2, <1>3, <1>4 DEF Next

(* What main does before quit and at it: the flag is set until quit clears *)
(* it, and from then on no thread is started.                              *)
LEMMA CommandKeepsSafe ==
  ASSUME MAX_THREADS \in Nat, Safe, Command, TypeOK'
  PROVE  Safe'
<1> USE DEF Safe, TypeOK, FlagFollowsQuit, DingsBeforeTest, JoinedSlots, Slots,
            Goto
<1>1. ASSUME NEW t \in Slots, NEW i \in Intervals, StartChime(t, i)
      PROVE  Safe'
  <2>1. g_bKeepLooping /\ g_bKeepLooping'
    BY <1>1 DEF StartChime
  <2>2. /\ main' = "prompt"
        /\ lateDings' = lateDings
        /\ \A u \in Slots : lateDings[u] = 0
    <3>1. main = "prompt" /\ main' = main /\ lateDings' = lateDings
      BY <1>1 DEF StartChime
    <3>2. \A u \in Slots : lateDings[u] = 0
      BY <2>1, Zenon DEF Safe, DingsBeforeTest
    <3> QED BY <3>1, <3>2
  <2>3. joined' = joined
    BY <1>1 DEF StartChime
  <2>4. FlagFollowsQuit'
    BY <2>1, <2>2
  <2>5. DingsBeforeTest'
    BY <2>2
  <2>6. JoinedSlots'
    BY <2>2, <1>1 DEF StartChime
  <2> QED BY <2>4, <2>5, <2>6
<1>2. ASSUME NEW t \in Slots, NEW i \in Intervals, ChangeInterval(t, i)
      PROVE  Safe'
  BY <1>2 DEF ChangeInterval
<1>3. CASE DoNothing \/ EmptyLine \/ EndOfInput
  BY <1>3 DEF DoNothing, EmptyLine, EndOfInput, slotVars
<1>4. CASE Quit
  BY <1>4 DEF Quit
<1> QED BY <1>1, <1>2, <1>3, <1>4 DEF Command

(* quit passes a slot only when its thread is done or there is none.       *)
LEMMA QuitStepKeepsSafe ==
  ASSUME MAX_THREADS \in Nat, Safe, QuitStep, TypeOK'
  PROVE  Safe'
<1> USE DEF Safe, TypeOK, FlagFollowsQuit, DingsBeforeTest, JoinedSlots, Slots,
            slotVars
<1>1. CASE JoinChime
  BY <1>1 DEF JoinChime
<1>2. CASE JoinMissing
  BY <1>2 DEF JoinMissing
<1>3. CASE Exit
  BY <1>3 DEF Exit
<1> QED BY <1>1, <1>2, <1>3 DEF QuitStep

(* A thread that has dinged late finds the flag cleared at its next test.  *)
LEMMA ThreadStepKeepsSafe ==
  ASSUME MAX_THREADS \in Nat, Safe, NEW t \in Slots, ThreadStep(t), TypeOK'
  PROVE  Safe'
<1> USE DEF Safe, TypeOK, FlagFollowsQuit, DingsBeforeTest, JoinedSlots, Slots,
            Goto
<1>1. CASE LoopTest(t)
  BY <1>1 DEF LoopTest
<1>2. CASE CallSleep(t)
  BY <1>2 DEF CallSleep
<1>3. CASE Ding(t)
  <2>1. FlagFollowsQuit'
    BY <1>3 DEF Ding
  <2>2. DingsBeforeTest'
    <3>1. lateDings[t] = 0 /\ pc'[t] = "test"
      BY <1>3 DEF Ding
    <3>2. lateDings'[t] = IF g_bKeepLooping THEN 0 ELSE 1
      BY <1>3, <3>1 DEF Ding
    <3>3. \A u \in Slots \ {t} : lateDings'[u] = lateDings[u] /\ pc'[u] = pc[u]
      BY <1>3 DEF Ding
    <3> QED BY <1>3, <3>1, <3>2, <3>3 DEF Ding
  <2>3. JoinedSlots'
    BY <1>3 DEF Ding, Running
  <2> QED BY <2>1, <2>2, <2>3
<1> QED BY <1>1, <1>2, <1>3, ThreadStep(t) DEF ThreadStep

(* The invariant of chime, for every number of slots.                      *)
THEOREM SpecSafe ==
  ASSUME MAX_THREADS \in Nat
  PROVE  Spec => []Safe
<1>1. Init => Safe
  <2>1. Init => TypeOK
    <3> SUFFICES ASSUME Init
                 PROVE  TypeOK
      OBVIOUS
    <3>1. /\ main = "prompt" /\ joined = 0
          /\ lineRead \in BOOLEAN /\ g_bKeepLooping \in BOOLEAN
      BY Zenon DEF Init
    <3>2. /\ pc \in [Slots -> {"none"}]
          /\ fChimeInterval \in [Slots -> Intervals]
          /\ asleep \in [Slots -> Intervals]
          /\ lateDings \in [Slots -> Nat]
      BY DEF Init, Intervals
    <3>3. joined \in 0 .. MAX_THREADS
      BY <3>1, MAX_THREADS \in Nat
    <3> QED BY <3>1, <3>2, <3>3 DEF TypeOK
  <2>2. Init => FlagFollowsQuit /\ DingsBeforeTest /\ JoinedSlots
    BY DEF Init, FlagFollowsQuit, DingsBeforeTest, JoinedSlots
  <2> QED BY <2>1, <2>2 DEF Safe
<1>2. Safe /\ [Next]_vars => Safe'
  <2> SUFFICES ASSUME Safe, [Next]_vars
               PROVE  Safe'
    OBVIOUS
  <2>1. TypeOK'
    BY StepTypeOK, MAX_THREADS \in Nat DEF Safe
  <2>2. CASE Command
    BY <2>1, <2>2, CommandKeepsSafe, MAX_THREADS \in Nat
  <2>3. CASE QuitStep
    BY <2>1, <2>3, QuitStepKeepsSafe, MAX_THREADS \in Nat
  <2>4. ASSUME NEW t \in Slots, ThreadStep(t)
        PROVE  Safe'
    BY <2>1, <2>4, ThreadStepKeepsSafe, MAX_THREADS \in Nat
  <2>5. CASE UNCHANGED vars
    BY <2>5, <2>1
    DEF vars, Safe, FlagFollowsQuit, DingsBeforeTest, JoinedSlots, Slots
  <2> QED BY <2>2, <2>3, <2>4, <2>5 DEF Next
<1> QED BY <1>1, <1>2, PTL DEF Spec

(* "quit - join any active threads and finish up gracefully", for every    *)
(* number of slots.                                                        *)
THEOREM SpecQuitIsGraceful ==
  ASSUME MAX_THREADS \in Nat
  PROVE  Spec => []QuitIsGraceful
<1>1. Safe => QuitIsGraceful
  <2> SUFFICES ASSUME Safe
               PROVE  QuitIsGraceful
    OBVIOUS
  <2>1. ASSUME main = "exited", NEW t \in Slots
        PROVE  pc[t] \in {"none", "missing", "done"}
    BY <2>1, MAX_THREADS \in Nat DEF Safe, JoinedSlots, Slots
  <2>2. \A t \in Slots : lateDings[t] <= 1
    BY DEF Safe, TypeOK, DingsBeforeTest
  <2> QED BY <2>1, <2>2 DEF QuitIsGraceful
<1> QED BY <1>1, SpecSafe, MAX_THREADS \in Nat, PTL

=============================================================================
