------------------------------- MODULE Chime -------------------------------
(***************************************************************************)
(* chime (Milestone03/chime.c): main reads commands that start a chime in  *)
(* one of MAX_THREADS slots or change its interval, and one that quits;    *)
(* each chime is a thread that sleeps and dings until main clears          *)
(* g_bKeepLooping.                                                         *)
(*                                                                         *)
(* The interval, a float, is kept as what sleep does with it: "soon" for   *)
(* one that it takes as a number of seconds, none included, and "never"    *)
(* for a negative one, which atof and the test of the command accept and   *)
(* sleep takes, as an unsigned int, for more than a century.               *)
(***************************************************************************)
EXTENDS Integers

CONSTANT MAX_THREADS

Slots == 0 .. MAX_THREADS - 1
Intervals == {"soon", "never"}

VARIABLES
  main,
  joined,          \* how many slots the loop of quit has dealt with
  lineRead,        \* szBuffer holds a line, or what strtok has left of it
  g_bKeepLooping,
  pc,              \* of the thread of a slot; "none" stands for bIsValid = 0
  fChimeInterval,
  asleep,          \* what the thread has called sleep with
  lateDings        \* history: the thread's dings since quit

vars == <<main, joined, lineRead, g_bKeepLooping, pc, fChimeInterval, asleep,
          lateDings>>

slotVars == <<g_bKeepLooping, pc, fChimeInterval, asleep, lateDings>>

Init ==
  /\ main = "prompt"
  /\ joined = 0
  /\ lineRead = FALSE
  /\ g_bKeepLooping = TRUE
  /\ pc = [t \in Slots |-> "none"]
  /\ fChimeInterval = [t \in Slots |-> "soon"]
  /\ asleep = [t \in Slots |-> "soon"]
  /\ lateDings = [t \in Slots |-> 0]

Goto(t, next) == pc' = [pc EXCEPT ![t] = next]

-----------------------------------------------------------------------------
(* main: what the line it reads asks for *)

\* a chime command for an empty slot; pthread_create may fail unnoticed
StartChime(t, interval) ==
  /\ main = "prompt"
  /\ pc[t] = "none"
  /\ lineRead' = TRUE
  /\ fChimeInterval' = [fChimeInterval EXCEPT ![t] = interval]
  /\ Goto(t, "test") \/ Goto(t, "missing")
  /\ UNCHANGED <<main, joined, g_bKeepLooping, asleep, lateDings>>

ChangeInterval(t, interval) ==
  /\ main = "prompt"
  /\ pc[t] # "none"
  /\ lineRead' = TRUE
  /\ fChimeInterval' = [fChimeInterval EXCEPT ![t] = interval]
  /\ UNCHANGED <<main, joined, g_bKeepLooping, pc, asleep, lateDings>>

\* a slot out of range, an interval of 0, another first word, or a wrong
\* number of words (the array words is assumed to hold them)
DoNothing ==
  /\ main = "prompt"
  /\ lineRead' = TRUE
  /\ UNCHANGED <<main, joined, slotVars>>

\* strcmp is called with the null pointer words[0]
EmptyLine ==
  /\ main = "prompt"
  /\ main' = "crashed"
  /\ UNCHANGED <<joined, lineRead, slotVars>>

\* fgets leaves the buffer alone: the first word of the last line is read
\* again and again, and is no chime command by itself; if there has been no
\* line the buffer is uninitialized and may hold no word
EndOfInput ==
  /\ main = "prompt"
  /\ main' \in {"spins"} \cup IF lineRead THEN {} ELSE {"crashed"}
  /\ UNCHANGED <<joined, lineRead, slotVars>>

\* slip: the flag stays set
QuitUnsaid ==
  /\ main = "prompt"
  /\ main' = "join"
  /\ lineRead' = TRUE
  /\ UNCHANGED <<joined, slotVars>>

Quit ==
  /\ main = "prompt"
  /\ main' = "join"
  /\ lineRead' = TRUE
  /\ g_bKeepLooping' = FALSE
  /\ UNCHANGED <<joined, pc, fChimeInterval, asleep, lateDings>>

\* slip: a thread that sleeps is passed over
JoinAwake ==
  /\ main = "join"
  /\ joined < MAX_THREADS
  /\ pc[joined] \in {"none", "sleep", "done"}
  /\ joined' = joined + 1
  /\ UNCHANGED <<main, lineRead, slotVars>>

JoinChime ==
  /\ main = "join"
  /\ joined < MAX_THREADS
  /\ pc[joined] \in {"none", "done"}
  /\ joined' = joined + 1
  /\ UNCHANGED <<main, lineRead, slotVars>>

\* The slot is valid, but its ThreadID is no thread's: pthread_join may crash on
\* it, or return an error, which is not looked at.
JoinMissing ==
  /\ main = "join"
  /\ joined < MAX_THREADS
  /\ pc[joined] = "missing"
  /\ \/ main' = "crashed" /\ UNCHANGED joined
     \/ joined' = joined + 1 /\ UNCHANGED main
  /\ UNCHANGED <<lineRead, slotVars>>

Exit ==
  /\ main = "join"
  /\ joined = MAX_THREADS
  /\ main' = "exited"
  /\ UNCHANGED <<joined, lineRead, slotVars>>

-----------------------------------------------------------------------------
(* ThreadChime *)
Running == main \notin {"exited", "crashed"}

LoopTest(t) ==
  /\ pc[t] = "test"
  /\ Goto(t, IF g_bKeepLooping THEN "call" ELSE "done")
  /\ UNCHANGED <<main, joined, lineRead, g_bKeepLooping, fChimeInterval, asleep,
                 lateDings>>

CallSleep(t) ==
  /\ pc[t] = "call"
  /\ asleep' = [asleep EXCEPT ![t] = fChimeInterval[t]]
  /\ Goto(t, "sleep")
  /\ UNCHANGED <<main, joined, lineRead, g_bKeepLooping, fChimeInterval, lateDings>>

Ding(t) ==
  /\ pc[t] = "sleep"
  /\ asleep[t] = "soon"
  /\ lateDings' = [lateDings EXCEPT ![t] = IF g_bKeepLooping THEN @ ELSE @ + 1]
  /\ Goto(t, "test")
  /\ UNCHANGED <<main, joined, lineRead, g_bKeepLooping, fChimeInterval, asleep>>

-----------------------------------------------------------------------------
Command ==
  \/ \E t \in Slots, i \in Intervals : StartChime(t, i) \/ ChangeInterval(t, i)
  \/ DoNothing \/ EmptyLine \/ EndOfInput \/ Quit

QuitStep == JoinChime \/ JoinMissing \/ Exit

ThreadStep(t) == Running /\ (LoopTest(t) \/ CallSleep(t) \/ Ding(t))

Next == Command \/ QuitStep \/ \E t \in Slots : ThreadStep(t)

Spec == Init /\ [][Next]_vars

\* nothing makes the user type a command
FairSpec ==
  /\ Spec
  /\ WF_vars(QuitStep)
  /\ \A t \in Slots : WF_vars(ThreadStep(t))

-----------------------------------------------------------------------------
TypeOK ==
  /\ main \in {"prompt", "spins", "join", "exited", "crashed"}
  /\ joined \in 0 .. MAX_THREADS
  /\ lineRead \in BOOLEAN
  /\ g_bKeepLooping \in BOOLEAN
  /\ pc \in [Slots -> {"none", "missing", "test", "call", "sleep", "done"}]
  /\ fChimeInterval \in [Slots -> Intervals]
  /\ asleep \in [Slots -> Intervals]
  /\ lateDings \in [Slots -> Nat]

(* "quit - join any active threads and finish up gracefully": when chime   *)
(* returns no thread is left in its loop, and none has dinged more than    *)
(* once since the command, for the sleep it was in or about to call.       *)
QuitIsGraceful ==
  /\ main = "exited" => \A t \in Slots : pc[t] \in {"none", "missing", "done"}
  /\ \A t \in Slots : lateDings[t] <= 1

(***************************************************************************)
(* The inductive invariant behind it: the flag says whether quit was read, *)
(* a thread dings late in the sleep that quit found it in or about to      *)
(* call, and the slots below joined are dealt with.                        *)
(***************************************************************************)
FlagFollowsQuit ==
  /\ main \in {"prompt", "spins"} => g_bKeepLooping
  /\ main \in {"join", "exited"} => ~g_bKeepLooping

DingsBeforeTest ==
  \A t \in Slots :
    /\ g_bKeepLooping => lateDings[t] = 0
    /\ lateDings[t] # 0 => lateDings[t] = 1 /\ pc[t] \in {"test", "done"}

JoinedSlots ==
  /\ main = "prompt" => joined = 0
  /\ main \in {"join", "exited"} =>
       \A t \in Slots : t < joined => pc[t] \in {"none", "missing", "done"}
  /\ main = "exited" => joined = MAX_THREADS

Safe == TypeOK /\ FlagFollowsQuit /\ DingsBeforeTest /\ JoinedSlots

\* t is in a sleep of a century, or about to call it
Hopeless(t) ==
  \/ pc[t] = "sleep" /\ asleep[t] = "never"
  \/ pc[t] = "call" /\ fChimeInterval[t] = "never"

(* quit ends, perhaps by a crash if a thread is missing, unless a chime    *)
(* has been given a negative interval and has fallen asleep with it: a new *)
(* interval does not wake it.                                              *)
QuitEnds ==
  main = "join" /\ (\A t \in Slots : ~Hopeless(t)) ~> ~Running

=============================================================================
