--------------------------- MODULE NdshellProofs ---------------------------
(***************************************************************************)
(* TypeOK, ChildrenListed and HarmlessUnlessTorn of Ndshell, for every set *)
(* of process numbers, every length of the table of children and any       *)
(* number of ^C.  Safe is inductive: there is one lemma per action, and    *)
(* QuietSafe and StepSafe say what the step of one context has to show.    *)
(***************************************************************************)
EXTENDS Ndshell, SequenceTheorems, TLAPS

(***************************************************************************)
(* The inductive invariant: the bounds of nChild by the contexts that will *)
(* yet count it down, and, until torn, what each use of the table may rely *)
(* on.                                                                     *)
(***************************************************************************)
\* what main may be at, command by command
CommandMatches ==
  LET at == frame["main"].pc
      entering == {"start", "run", "bound"}
  IN  /\ at = "prompt" => command \in {"none", "exit"}
      /\ at \in {"enter", "store"} => command \in entering
      /\ at \in {"load", "count"} => command \in entering \cup {"quit"}
      /\ at = "sleep" => command = "bound"
      /\ at = "kill" => command \in {"kill", "bound", "quit"}
      /\ at = "wait" => command \in {"waitfor", "run", "kill", "bound", "quit"}
      /\ at = "waitAny" => command = "wait"
      /\ at \in {"test", "look", "pick"} => command = "quit"

\* main has forked a child it is about to enter or has to wait for
Entering == frame["main"].pc \in {"store", "load", "count"} /\ command # "quit"

\* c has found that there is a child and has not discounted it
Taking(c) == UsesTable(c) /\ ~(c = "main" /\ Entering)

\* how deep a context is in the nest of handlers; 3 if it is not in it
Level(c) ==
  IF c = "main" THEN 0
  ELSE IF Len(handlers) > 0 /\ handlers[1] = c THEN 1
  ELSE IF Len(handlers) > 1 /\ handlers[2] = c THEN 2
  ELSE 3

\* how many contexts no deeper than level will yet discount a child
Takers(level) ==
  (IF Taking("main") THEN 1 ELSE 0) +
  (IF Level("SIGCHLD") <= level /\ Taking("SIGCHLD") THEN 1 ELSE 0) +
  (IF Level("SIGINT") <= level /\ Taking("SIGINT") THEN 1 ELSE 0)

\* Whoever is going to discount a child saw a positive count.
CountBelow ==
  /\ nChild >= Takers(3) - 2
  /\ \A c \in Contexts :
       frame[c].pc = "count" => frame[c].loaded >= Takers(Level(c)) - 2

\* A new entry is inside the table, whatever handlers do before it is counted.
CountAbove ==
  /\ frame["main"].pc = "store" =>
       /\ nChild <= frame["main"].loaded
       /\ \A s \in Signals :
            frame[s].pc = "count" => frame[s].loaded <= frame["main"].loaded
  /\ frame["main"].pc = "load" /\ command # "quit" => nChild < CHILDREN
  /\ frame["main"].pc = "count" /\ command # "quit" =>
       frame["main"].loaded < CHILDREN

\* What interrupts a use of the table has not looked at it.
OthersAtTest ==
  \A c \in Contexts, s \in Signals :
    UsesTable(c) /\ Level(c) < Level(s) /\ Level(s) < 3 => frame[s].pc = "test"

\* The entry that is made.
EntryMade ==
  /\ frame["main"].pc \in {"enter", "store", "sleep"} \/ Entering
       => frame["main"].pid # 0
  /\ frame["main"].pc = "kill" /\ command = "bound" => frame["main"].pid # 0
  /\ frame["main"].pc = "store" => frame["main"].loaded = nChild
  /\ frame["main"].pc \in {"load", "count"} /\ Entering =>
       children[nChild] = frame["main"].pid
  /\ frame["main"].pc = "count" /\ Entering => frame["main"].loaded = nChild

\* The entry that is taken off: its process is dead by the time it is cleared,
\* unless the wait was interrupted, by a handler that will not leave in peace.
newest == children[nChild - 1]
Reaped(c) == Active = c => newest = 0 \/ process[newest] = "none"

EntryTaken(c) ==
  Taking(c) =>
    /\ nChild > 0
    /\ frame[c].pc \in {"pick", "clear"} => frame[c].loaded = nChild - 1
    /\ frame[c].pc \in {"kill", "wait"} => frame[c].pid = newest
    /\ frame[c].pc \in {"find", "clear", "load", "count"} => Reaped(c)
    /\ frame[c].pc \in {"load", "count"} /\ c # "main" => newest = 0
    /\ frame[c].pc = "count" => frame[c].loaded = nChild

EntriesSet ==
  \A i \in 0 .. nChild - 1 :
    \/ children[i] # 0
    \/ i = nChild - 1 /\ \E s \in Signals : frame[s].pc \in {"load", "count"}

Tidy ==
  /\ nChild >= 0
  /\ OthersAtTest
  /\ EntryMade
  /\ \A c \in Contexts : EntryTaken(c)
  /\ EntriesSet
  /\ {p \in Pids : process[p] # "none"} \subseteq Listed \cup BeingEntered

Safe ==
  /\ TypeOK
  /\ CommandMatches
  /\ CountBelow
  /\ CountAbove
  /\ ~torn => Tidy
  /\ HarmlessUnlessTorn

-----------------------------------------------------------------------------
(* The nest of handlers *)

\* what TypeOK says of handlers
NestOK ==
  /\ handlers \in Seq(Signals)
  /\ Len(handlers) <= 2
  /\ Len(handlers) = 2 => handlers[1] # handlers[2]

Nested(s) == \E i \in 1 .. Len(handlers) : handlers[i] = s

(* There are at most two handlers, and each runs once.                     *)
LEMMA NestSize ==
  ASSUME TypeOK
  PROVE  /\ Len(handlers) \in 0 .. 2
         /\ Len(handlers) = 0 <=> handlers = <<>>
         /\ Len(handlers) = 2 => handlers[1] # handlers[2]
         /\ \A i \in 1 .. Len(handlers) : handlers[i] \in Signals
         /\ \A s \in Signals :
              frame[s].pc # "inactive" <=>
                ((Len(handlers) > 0 /\ handlers[1] = s) \/ (Len(handlers) > 1 /\ handlers[2] = s))
<1>1. NestOK
  BY DEF TypeOK, NestOK
<1>2. Len(handlers) \in 0 .. 2
  <2>1. handlers \in Seq(Signals) /\ Len(handlers) <= 2
    BY <1>1 DEF NestOK
  <2>2. Len(handlers) \in Nat
    BY <2>1, LenProperties
  <2> DEFINE n == Len(handlers)
  <2>3. n <= 2
    BY <2>1
  <2> HIDE DEF n
  <2>4. n \in Nat
    BY <2>2 DEF n
  <2>5. n \in 0 .. 2
    BY <2>3, <2>4
  <2> QED BY <2>5 DEF n
<1>3. \A i \in 1 .. Len(handlers) : handlers[i] \in Signals
  BY <1>1 DEF NestOK
<1>4. ASSUME NEW s \in Signals
      PROVE  frame[s].pc # "inactive" <=>
               ((Len(handlers) > 0 /\ handlers[1] = s) \/ (Len(handlers) > 1 /\ handlers[2] = s))
  <2>1. frame[s].pc # "inactive" <=> \E i \in 1 .. Len(handlers) : handlers[i] = s
    BY Zenon DEF TypeOK
  <2> DEFINE n == Len(handlers)
  <2>2. n \in 0 .. 2
    BY <1>2
  <2>3. frame[s].pc # "inactive" <=> \E i \in 1 .. n : handlers[i] = s
    BY <2>1
  <2> HIDE DEF n
  <2>4. frame[s].pc # "inactive" <=>
          ((n > 0 /\ handlers[1] = s) \/ (n > 1 /\ handlers[2] = s))
    BY <2>2, <2>3
  <2> QED BY <2>4 DEF n
<1>6. Len(handlers) = 0 <=> handlers = <<>>
  BY <1>1, EmptySeq DEF NestOK
<1>7. Len(handlers) = 2 => handlers[1] # handlers[2]
  BY <1>1 DEF NestOK
<1> QED BY <1>2, <1>3, <1>4, <1>6, <1>7, Zenon

(* A handler is at a level below 3 exactly while it runs; the one that is  *)
(* executed is the deepest, and no two are at one level.                   *)
LEMMA Nest ==
  ASSUME TypeOK
  PROVE  /\ Active \in Contexts
         /\ Level("main") = 0
         /\ \A s \in Signals : Level(s) \in 1 .. 3
         /\ \A s \in Signals : frame[s].pc = "inactive" <=> Level(s) = 3
         /\ Level(Active) < 3
         /\ \A c \in Contexts : Level(c) < 3 => Level(c) <= Level(Active)
         /\ \A c, d \in Contexts : Level(c) = Level(d) /\ Level(c) < 3 => c = d
<1>2. CASE Len(handlers) = 0
  BY <1>2, NestSize DEF Active, Level, Signals, Contexts
<1>3. CASE Len(handlers) = 1
  <2>1. Active = handlers[1] /\ handlers[1] \in Signals
    BY <1>3, NestSize DEF Active
  <2>2. \A s \in Signals : Level(s) = IF s = handlers[1] THEN 1 ELSE 3
    BY <1>3 DEF Level, Signals
  <2>3. \A s \in Signals : frame[s].pc # "inactive" <=> s = handlers[1]
    BY <1>3, NestSize
  <2>4. Level("main") = 0
    BY DEF Level
  <2> QED BY <2>1, <2>2, <2>3, <2>4 DEF Signals, Contexts
<1>4. CASE Len(handlers) = 2
  <2>1. handlers[1] # handlers[2]
    BY <1>4, NestSize
  <2>2. /\ Active = handlers[2]
        /\ handlers[1] \in Signals
        /\ handlers[2] \in Signals
    BY <1>4, NestSize DEF Active
  <2>3. \A s \in Signals : Level(s) = IF s = handlers[1] THEN 1 ELSE 2
    BY <1>4, <2>1, <2>2 DEF Level, Signals
  <2>4. \A s \in Signals : frame[s].pc # "inactive"
    BY <1>4, <2>1, <2>2, NestSize DEF Signals
  <2>5. Level("main") = 0
    BY DEF Level
  <2> QED BY <2>1, <2>2, <2>3, <2>4, <2>5 DEF Signals, Contexts
<1> QED BY <1>2, <1>3, <1>4, NestSize

(* A handler that begins is one level deeper than what it interrupts.      *)
LEMMA NestGrows ==
  ASSUME TypeOK, NEW s \in Signals, frame[s].pc = "inactive",
         handlers' = Append(handlers, s)
  PROVE  /\ NestOK'
         /\ Active' = s
         /\ Level(Active) < Level(s)' /\ Level(s)' < 3
         /\ \A c \in Contexts \ {s} : Level(c)' = Level(c)
         /\ \A t \in Signals : Nested(t)' <=> t = s \/ frame[t].pc # "inactive"
<1>1. handlers \in Seq(Signals)
  BY DEF TypeOK
<1>2. /\ Len(handlers') = Len(handlers) + 1
      /\ handlers' \in Seq(Signals)
      /\ handlers' # <<>>
      /\ handlers'[Len(handlers) + 1] = s
      /\ \A i \in 1 .. Len(handlers) : handlers'[i] = handlers[i]
  BY <1>1, AppendProperties
<1>6. CASE Len(handlers) = 0
  BY <1>2, <1>6, NestSize
  DEF Active, Level, Signals, Contexts, NestOK, Nested
<1>7. CASE Len(handlers) = 1
  <2>1. handlers[1] # s
    BY <1>7, NestSize
  <2>2. /\ Len(handlers') = 2
        /\ handlers'[1] = handlers[1]
        /\ handlers'[2] = s
        /\ handlers[1] \in Signals
    BY <1>2, <1>7, NestSize
  <2>3. Active = handlers[1] /\ Active' = s
    BY <1>2, <1>7, <2>2, NestSize DEF Active
  <2>4. /\ \A c \in Signals : Level(c) = IF c = handlers[1] THEN 1 ELSE 3
        /\ \A c \in Signals : Level(c)' = IF c = handlers[1] THEN 1 ELSE 2
        /\ Level("main") = 0 /\ Level("main")' = 0
    BY <1>7, <2>1, <2>2 DEF Level, Signals
  <2>5. \A t \in Signals : Nested(t)'
    BY <2>1, <2>2 DEF Nested, Signals
  <2>6. \A t \in Signals : frame[t].pc # "inactive" <=> t = handlers[1]
    BY <1>7, NestSize
  <2> QED BY <1>2, <2>1, <2>2, <2>3, <2>4, <2>5, <2>6 DEF Signals, Contexts, NestOK
<1>8. CASE Len(handlers) = 2
  <2>1. handlers[1] # handlers[2]
    BY <1>8, NestSize
  <2> QED BY <1>8, <2>1, NestSize DEF Signals
<1> QED BY <1>6, <1>7, <1>8, NestSize

(* A handler that returns leaves the others at their levels.               *)
LEMMA NestShrinks ==
  ASSUME TypeOK, NEW s \in Signals, Active = s,
         handlers' = SubSeq(handlers, 1, Len(handlers) - 1)
  PROVE  /\ NestOK'
         /\ Level(s)' = 3
         /\ \A c \in Contexts \ {s} : Level(c)' = Level(c)
         /\ \A t \in Signals : Nested(t)' <=> t # s /\ frame[t].pc # "inactive"
<1>1. Len(handlers) # 0
  BY NestSize DEF Active, Signals
<1>2. Len(handlers') = Len(handlers) - 1 /\ handlers' \in Seq(Signals)
  BY <1>1, NestSize DEF TypeOK
<1>3. \A i \in 1 .. Len(handlers) - 1 : handlers'[i] = handlers[i]
  BY <1>1, NestSize DEF TypeOK
<1>4. handlers # <<>>
  BY <1>1, NestSize
<1>5. handlers[Len(handlers)] = s
  BY <1>4 DEF Active
<1>6. CASE Len(handlers) = 1
  BY <1>2, <1>3, <1>5, <1>6, NestSize
  DEF Level, Signals, Contexts, NestOK, Nested
<1>7. CASE Len(handlers) = 2
  <2>1. handlers[1] # s
    BY <1>5, <1>7, NestSize
  <2> QED BY <1>2, <1>3, <1>5, <1>7, <2>1, NestSize
          DEF Level, Signals, Contexts, NestOK, Nested
<1> QED BY <1>1, <1>6, <1>7, NestSize

(* Nothing else changes it.                                                *)
LEMMA NestKept ==
  ASSUME handlers' = handlers
  PROVE  /\ Active' = Active
         /\ \A c \in Contexts : Level(c)' = Level(c)
BY DEF Active, Level

-----------------------------------------------------------------------------
(* What TypeOK says, by name *)
LEMMA Typed ==
  ASSUME TypeOK
  PROVE  /\ CHILDREN \in Nat /\ CHILDREN > 0
         /\ Pids \subseteq Nat /\ 0 \notin Pids
         /\ nChild \in Int /\ -2 <= nChild /\ nChild <= CHILDREN
         /\ DOMAIN children = 0 .. CHILDREN - 1
         /\ \A i \in 0 .. CHILDREN - 1 : children[i] \in Pids \cup {0}
         /\ DOMAIN frame = Contexts
         /\ \A c \in Contexts :
              /\ DOMAIN frame[c] = {"pc", "pid", "loaded"}
              /\ frame[c] \in [pc : MainLabels \cup HandlerLabels,
                               pid : Pids \cup {0}, loaded : -3 .. CHILDREN]
              /\ frame[c].pid \in Pids \cup {0}
              /\ frame[c].loaded \in Int
              /\ -3 <= frame[c].loaded /\ frame[c].loaded <= CHILDREN
         /\ frame["main"].pc \in MainLabels
         /\ \A s \in Signals : frame[s].pc \in HandlerLabels
         /\ "main" \in Contexts /\ "main" \notin Signals
<1>1. CHILDREN \in Nat /\ CHILDREN > 0 /\ Pids \subseteq Nat /\ 0 \notin Pids
  BY NdshellAssumption
<1>2. nChild \in Int /\ -2 <= nChild /\ nChild <= CHILDREN
  BY <1>1 DEF TypeOK
<1>3. /\ DOMAIN children = 0 .. CHILDREN - 1
      /\ \A i \in 0 .. CHILDREN - 1 : children[i] \in Pids \cup {0}
  BY DEF TypeOK
<1>4. frame \in [Contexts -> [pc : MainLabels \cup HandlerLabels,
                              pid : Pids \cup {0}, loaded : -3 .. CHILDREN]]
  BY DEF TypeOK
<1>5. /\ frame["main"].pc \in MainLabels
      /\ \A s \in Signals : frame[s].pc \in HandlerLabels
  BY Zenon DEF TypeOK
<1>6. "main" \in Contexts /\ "main" \notin Signals
  BY DEF Contexts, Signals
<1> QED BY <1>1, <1>2, <1>3, <1>4, <1>5, <1>6

Frames ==
  [pc : MainLabels \cup HandlerLabels, pid : Pids \cup {0}, loaded : -3 .. CHILDREN]

\* what TypeOK says of frame
Framed ==
  /\ frame \in [Contexts -> Frames]
  /\ frame["main"].pc \in MainLabels
  /\ \A s \in Signals :
       /\ frame[s].pc \in HandlerLabels
       /\ frame[s].pc # "inactive" <=> Nested(s)

\* and of the rest
RestOK ==
  /\ process \in [Pids -> {"none", "running", "killed", "zombie"}]
  /\ children \in [0 .. CHILDREN - 1 -> Pids \cup {0}]
  /\ nChild \in -2 .. CHILDREN
  /\ pending \subseteq Signals
  /\ presses \in 0 .. MaxPresses
  /\ command \in {"none", "start", "run", "bound", "wait", "waitfor", "kill",
                  "quit", "exit"}
  /\ shell \in {"running", "exited", "quit", "killed", "undefined"}
  /\ torn \in BOOLEAN

(* TypeOK in the three parts that steps change apart.                      *)
LEMMA TypeParts == TypeOK <=> NestOK /\ Framed /\ RestOK
BY Zenon DEF TypeOK, NestOK, Framed, Frames, Nested, RestOK

(* The same after a step.                                                  *)
LEMMA TypePartsNext == NestOK' /\ Framed' /\ RestOK' => TypeOK'
BY Zenon DEF TypeOK, NestOK, Framed, Frames, Nested, RestOK

(* The context that is executed moves, and nothing else in the nest.       *)
Moved(c, q) ==
  /\ c \in Contexts
  /\ Active = c
  /\ frame[c].pc # "inactive"
  /\ q \in Frames
  /\ q.pc \in IF c = "main" THEN MainLabels ELSE HandlerLabels \ {"inactive"}
  /\ frame' = [frame EXCEPT ![c] = q]
  /\ handlers' = handlers

(* Such a step keeps the types, the nest and the other frames.             *)
LEMMA Moves ==
  ASSUME TypeOK, NEW c, NEW q, Moved(c, q)
  PROVE  /\ NestOK' /\ Framed'
         /\ frame'[c] = q
         /\ \A d \in Contexts : d # c => frame'[d] = frame[d]
         /\ Active' = c
         /\ \A d \in Contexts : Level(d)' = Level(d)
<1>1. NestOK /\ Framed
  BY TypeParts
<1>2. frame' \in [Contexts -> Frames] /\ frame'[c] = q
      /\ \A d \in Contexts : d # c => frame'[d] = frame[d]
  BY <1>1 DEF Framed, Moved
<1>3. frame'["main"].pc \in MainLabels
  BY <1>1, <1>2 DEF Framed, Moved, Contexts
<1>4. ASSUME NEW s \in Signals
      PROVE  /\ frame'[s].pc \in HandlerLabels
             /\ frame'[s].pc # "inactive" <=> Nested(s)'
  <2>1. Nested(s)' <=> Nested(s)
    BY DEF Nested, Moved
  <2>2. CASE s = c
    <3>1. q.pc \in HandlerLabels /\ q.pc # "inactive"
      BY <2>2 DEF Moved, Signals
    <3> QED BY <1>1, <1>2, <2>1, <2>2, <3>1 DEF Framed, Moved
  <2>3. CASE s # c
    BY <1>1, <1>2, <2>1, <2>3, Zenon DEF Framed, Contexts
  <2> QED BY <2>2, <2>3
<1>5. NestOK'
  BY <1>1 DEF NestOK, Moved
<1>6. Active' = c /\ \A d \in Contexts : Level(d)' = Level(d)
  BY NestKept DEF Moved
<1> QED BY <1>2, <1>3, <1>4, <1>5, <1>6, Zenon DEF Framed

-----------------------------------------------------------------------------
(* The takers *)

Weight(c) == IF Taking(c) THEN 1 ELSE 0

(* The step of one context changes its own weight only, and it is the      *)
(* deepest.                                                                *)
LEMMA TakersMove ==
  ASSUME TypeOK, NEW c, NEW q, Moved(c, q), c # "main" => command' = command
  PROVE  /\ Takers(3) \in Int /\ Weight(c) \in {0, 1} /\ Weight(c)' \in {0, 1}
         /\ Takers(3)' = Takers(3) - Weight(c) + Weight(c)'
         /\ Takers(3) <= 2 + Weight(c)
         /\ Takers(Level(c)) = Takers(3)
         /\ Takers(Level(c))' = Takers(3)'
         /\ \A d \in Contexts : frame[d].pc # "inactive" /\ d # c =>
              Takers(Level(d))' = Takers(Level(d))
<1>1. /\ c \in Contexts
      /\ frame'[c] = q
      /\ \A d \in Contexts : d # c => frame'[d] = frame[d]
      /\ \A d \in Contexts : Level(d)' = Level(d)
  BY Moves DEF Moved
<1>2. ASSUME NEW d \in Contexts, d # c
      PROVE  Taking(d)' <=> Taking(d)
  <2>1. frame'[d] = frame[d]
    BY <1>1, <1>2
  <2>2. d = "main" => c # "main"
    BY <1>2
  <2> QED BY <2>1, <2>2 DEF Taking, UsesTable, Entering
<1>3. ASSUME NEW d \in Contexts, Level(d) = 3
      PROVE  ~Taking(d) /\ d # "main" /\ d # c
  <2>1. d # "main"
    BY <1>3, Nest
  <2>2. d \in Signals
    BY <2>1 DEF Contexts
  <2>3. frame[d].pc = "inactive"
    BY <1>3, <2>2, Nest
  <2> QED BY <2>1, <2>3 DEF Taking, UsesTable, Moved
<1>4. ASSUME NEW d \in Contexts, Level(d) # 3
      PROVE  Level(d) <= Level(c) /\ (d # c => Level(d) < Level(c))
  <2>1. Level(d) \in 0 .. 2
    BY <1>4, Nest DEF Contexts
  <2>2. Level(d) <= Level(c)
    BY <2>1, Nest DEF Moved
  <2>3. Level(d) = Level(c) => d = c
    BY <2>1, <1>1, Nest
  <2> QED BY <2>1, <2>2, <2>3, <1>1, Nest DEF Contexts
<1>5. /\ Level("main") = 0
      /\ Level("SIGCHLD") \in 1 .. 3
      /\ Level("SIGINT") \in 1 .. 3
  BY Nest DEF Signals
<1>6. Contexts = {"main", "SIGCHLD", "SIGINT"}
  BY DEF Contexts, Signals
<1>7. \A d \in Contexts : /\ Weight(d) \in {0, 1} /\ Weight(d)' \in {0, 1}
                          /\ d # c => Weight(d)' = Weight(d)
                          /\ Level(d) = 3 => Weight(d) = 0 /\ Weight(d)' = 0
  BY <1>2, <1>3 DEF Weight
<1>8. /\ Takers(3) = Weight("main") + Weight("SIGCHLD") + Weight("SIGINT")
      /\ Takers(3)' = Weight("main")' + Weight("SIGCHLD")' + Weight("SIGINT")'
  BY <1>1, <1>5, <1>6 DEF Takers, Weight
<1>9. ASSUME NEW d \in Contexts
      PROVE  /\ Takers(Level(d)) =
                  Weight("main") + (IF Level("SIGCHLD") <= Level(d) THEN Weight("SIGCHLD") ELSE 0)
                                 + (IF Level("SIGINT") <= Level(d) THEN Weight("SIGINT") ELSE 0)
             /\ Takers(Level(d))' =
                  Weight("main")' + (IF Level("SIGCHLD") <= Level(d) THEN Weight("SIGCHLD")' ELSE 0)
                                  + (IF Level("SIGINT") <= Level(d) THEN Weight("SIGINT")' ELSE 0)
  BY <1>1, <1>6 DEF Takers, Weight
<1>10. Takers(Level(c)) = Takers(3) /\ Takers(Level(c))' = Takers(3)'
  BY <1>1, <1>4, <1>5, <1>6, <1>7, <1>8, <1>9
<1>11. ASSUME NEW d \in Contexts, frame[d].pc # "inactive", d # c
       PROVE  Takers(Level(d))' = Takers(Level(d))
  <2>1. Level(d) # 3
    BY <1>5, <1>6, <1>11, Nest DEF Contexts
  <2>2. Level(d) < Level(c)
    BY <2>1, <1>4, <1>11
  <2> QED BY <2>2, <1>5, <1>6, <1>7, <1>9
<1> QED BY <1>1, <1>6, <1>7, <1>8, <1>10, <1>11

(* A step of c keeps CountBelow if nChild still covers the takers.         *)
LEMMA BelowStep ==
  ASSUME TypeOK, CountBelow, NEW c, NEW q, Moved(c, q),
         c # "main" => command' = command,
         nChild' \in Int,
         nChild' >= Takers(3)' - 2,
         q.pc = "count" => q.loaded >= Takers(3)' - 2
  PROVE  CountBelow'
<1>1. ASSUME NEW d \in Contexts, frame'[d].pc = "count"
      PROVE  frame'[d].loaded >= Takers(Level(d))' - 2
  <2>1. CASE d = c
    BY <1>1, <2>1, Moves, TakersMove
  <2>2. CASE d # c
    <3>1. frame'[d] = frame[d] /\ frame[d].pc = "count"
      BY <1>1, <2>2, Moves
    <3>2. Takers(Level(d))' = Takers(Level(d))
      BY <2>2, <3>1, TakersMove
    <3> QED BY <3>1, <3>2 DEF CountBelow
  <2> QED BY <2>1, <2>2
<1> QED BY <1>1 DEF CountBelow

-----------------------------------------------------------------------------
(* While no handler has run into code that uses the table: what is         *)
(* executed, unless it is a handler that has not looked at the table, is   *)
(* the only context that uses it.                                          *)
LEMMA Alone ==
  ASSUME TypeOK, OthersAtTest, NEW c \in Contexts, Active = c,
         frame[c].pc # "inactive", frame[c].pc # "test"
  PROVE  \A d \in Contexts : d # c => ~UsesTable(d)
<1> SUFFICES ASSUME NEW d \in Contexts, d # c, UsesTable(d)
             PROVE  FALSE
  OBVIOUS
<1>1. frame[d].pc # "inactive"
  BY DEF UsesTable
<1>2. Level(d) < 3
  BY <1>1, Nest DEF Contexts, Signals
<1>3. Level(d) < Level(c)
  BY <1>2, Nest DEF Contexts
<1>4. c \in Signals /\ Level(c) < 3
  BY <1>2, <1>3, Nest DEF Contexts
<1> QED BY <1>3, <1>4 DEF OthersAtTest

(* What Tidy says of the other contexts survives a step of the only user.  *)
LEMMA AloneStep ==
  ASSUME TypeOK, OthersAtTest, EntryMade, NEW c, NEW q, Moved(c, q),
         \A d \in Contexts : d # c => ~UsesTable(d),
         c # "main" => command' = command
  PROVE  /\ OthersAtTest'
         /\ \A d \in Contexts : d # c => EntryTaken(d)'
         /\ c # "main" => EntryMade' /\ BeingEntered' = BeingEntered
<1>1. /\ c \in Contexts
      /\ frame'[c] = q
      /\ \A d \in Contexts : d # c => frame'[d] = frame[d]
      /\ \A d \in Contexts : Level(d)' = Level(d)
  BY Moves DEF Moved
<1>2. ASSUME NEW d \in Contexts, d # c
      PROVE  ~UsesTable(d)'
  <2>1. frame'[d] = frame[d] /\ ~UsesTable(d)
    BY <1>1, <1>2
  <2>2. d = "main" => c # "main"
    BY <1>2
  <2> QED BY <2>1, <2>2 DEF UsesTable
<1>3. OthersAtTest'
  <2> SUFFICES ASSUME NEW d \in Contexts, NEW s \in Signals,
                      UsesTable(d)', Level(d)' < Level(s)', Level(s)' < 3
               PROVE  FALSE
    BY DEF OthersAtTest
  <2>1. d = c
    BY <1>2
  <2>2. Level(c) < Level(s) /\ Level(s) < 3 /\ s \in Contexts
    BY <1>1, <2>1 DEF Contexts
  <2>3. Level(s) <= Level(c)
    BY <2>2, Nest DEF Moved
  <2> QED BY <1>1, <2>2, <2>3, Nest DEF Contexts
<1>4. \A d \in Contexts : d # c => EntryTaken(d)'
  BY <1>2 DEF EntryTaken, Taking
<1>5. ASSUME c # "main"
      PROVE  EntryMade' /\ BeingEntered' = BeingEntered
  <2>1. frame'["main"] = frame["main"] /\ ~UsesTable("main") /\ command' = command
    BY <1>1, <1>5 DEF Contexts
  <2> QED BY <2>1 DEF EntryMade, BeingEntered, UsesTable, Entering
<1> QED BY <1>3, <1>4, <1>5

-----------------------------------------------------------------------------
(* Steps of a context that change no more than its frame, and the command. *)
Quiet(c, q) ==
  /\ Moved(c, q)
  /\ shell = "running"
  /\ UNCHANGED <<process, children, nChild, pending, presses, shell, torn>>
  /\ command' \in {"none", "start", "run", "bound", "wait", "waitfor", "kill",
                   "quit", "exit"}
  /\ c # "main" => command' = command

(* What such a step has to show to keep the whole invariant.               *)
LEMMA QuietSafe ==
  ASSUME Safe, NEW c, NEW q, Quiet(c, q),
         c = "main" => CommandMatches',
         Weight(c)' = 1 => Weight(c) = 1 \/ nChild > 0,
         q.pc = "count" => q.loaded = nChild,
         c = "main" => CountAbove',
         Tidy /\ ~torn =>
           /\ frame[c].pc # "test"
           /\ frame[c].pc \in {"load", "count"} /\ c # "main" => q.pc \in {"load", "count"}
           /\ EntryTaken(c)'
           /\ c = "main" => EntryMade' /\ BeingEntered \subseteq BeingEntered'
  PROVE  Safe'
<1>1. TypeOK /\ CountBelow /\ CountAbove
  BY DEF Safe
<1>2. /\ Moved(c, q)
      /\ c \in Contexts
      /\ frame'[c] = q
      /\ \A d \in Contexts : d # c => frame'[d] = frame[d]
      /\ nChild' = nChild /\ nChild \in Int
  BY <1>1, Moves, Typed DEF Moved, Quiet
<1>3. TypeOK'
  <2>1. RestOK
    BY <1>1, TypeParts
  <2>2. RestOK'
    BY <2>1, Zenon DEF RestOK, Quiet
  <2>3. NestOK' /\ Framed'
    BY <1>1, <1>2, Moves
  <2> QED BY <2>2, <2>3, TypePartsNext
<1>4. CountBelow'
  <2>1. nChild >= Takers(3) - 2 /\ (c # "main" => command' = command)
    BY <1>1 DEF CountBelow, Quiet
  <2>2. nChild >= Takers(3)' - 2
    BY <1>1, <1>2, <2>1, TakersMove DEF Quiet
  <2> QED BY <1>1, <1>2, <2>2, BelowStep DEF Quiet
<1>5. CountAbove'
  <2> SUFFICES ASSUME c # "main" PROVE CountAbove'
    OBVIOUS
  <2>1. frame'["main"] = frame["main"] /\ command' = command
    BY <1>2 DEF Contexts, Quiet
  <2>2. \A s \in Signals : frame'[s] = frame[s] \/ s = c
    BY <1>2 DEF Contexts
  <2> QED BY <1>1, <1>2, <2>1, <2>2 DEF CountAbove
<1>6. (~torn => Tidy)'
  <2> SUFFICES ASSUME ~torn, Tidy PROVE Tidy'
    BY DEF Safe, Quiet
  <2> \A d \in Contexts : d # c => ~UsesTable(d)
    BY <1>1, Alone DEF Tidy, Quiet, Moved
  <2>1. OthersAtTest' /\ \A d \in Contexts : d # c => EntryTaken(d)'
    BY <1>1, <1>2, AloneStep DEF Tidy, Quiet
  <2>2. EntryMade' /\ BeingEntered \subseteq BeingEntered'
    BY <1>1, <1>2, AloneStep DEF Tidy, Quiet
  <2>3. ({p \in Pids : process[p] # "none"} \subseteq Listed \cup BeingEntered)'
    BY <2>2 DEF Tidy, Quiet, Listed
  <2>4. EntriesSet'
    <3>1. \A s \in Signals : frame[s].pc \in {"load", "count"}
                             => frame'[s].pc \in {"load", "count"}
      BY <1>2, Typed DEF Contexts, Tidy, Safe
    <3> QED BY <1>2, <3>1 DEF Tidy, EntriesSet, Quiet
  <2> QED BY <1>2, <2>1, <2>2, <2>3, <2>4 DEF Tidy
<1>7. HarmlessUnlessTorn'
  BY DEF HarmlessUnlessTorn, Quiet
<1>8. CommandMatches'
  <2> SUFFICES ASSUME c # "main" PROVE CommandMatches'
    OBVIOUS
  <2>1. frame'["main"] = frame["main"] /\ command' = command
    BY <1>2 DEF Contexts, Quiet
  <2> QED BY <2>1 DEF Safe, CommandMatches
<1> QED BY <1>8, <1>3, <1>4, <1>5, <1>6, <1>7, Zenon DEF Safe

(* What Goto and Load do to a frame.                                       *)
LEMMA Steps ==
  ASSUME TypeOK, NEW c \in Contexts, NEW label, NEW value
  PROVE  /\ Goto(c, label) =>
              /\ frame' = [frame EXCEPT ![c] = Standing(c, label)]
              /\ command' = IF label = "prompt" THEN "none" ELSE command
         /\ Standing(c, label) =
              [pc |-> label,
               pid |-> IF label \in {"prompt", "test", "find", "clear", "return"} THEN 0
                       ELSE frame[c].pid,
               loaded |-> 0]
         /\ Load(c, label, value) =>
              /\ frame' = [frame EXCEPT ![c] =
                             [pc |-> label, pid |-> frame[c].pid, loaded |-> value]]
              /\ command' = command
BY Zenon DEF Goto, Load, Standing, At, Holding

(* nChild goes into a register.                                            *)
LEMMA LoadCountSafe ==
  ASSUME Safe, NEW c \in Contexts, LoadCount(c)
  PROVE  Safe'
<1> DEFINE q == [pc |-> "count", pid |-> frame[c].pid, loaded |-> nChild]
<1>1. /\ TypeOK /\ CommandMatches /\ CountAbove
      /\ Active = c /\ frame[c].pc = "load" /\ shell = "running"
      /\ UNCHANGED <<process, children, nChild, pending, handlers, presses, shell, torn>>
  BY DEF Safe, LoadCount, Executes, Returns, tableVars, signalVars
<1>2. frame' = [frame EXCEPT ![c] = q] /\ command' = command
  BY <1>1, Steps DEF LoadCount
<1>3. q \in Frames
  BY <1>1, Typed DEF Frames, MainLabels
<1>4. Quiet(c, q)
  BY <1>1, <1>2, <1>3 DEF Quiet, Moved, MainLabels, HandlerLabels, TypeOK
<1>5. frame'[c] = q
  BY <1>1, <1>4, Moves DEF Quiet
<1> HIDE DEF q
<1>6. c = "main" => CommandMatches' /\ CountAbove'
  BY <1>1, <1>2, <1>4, <1>5 DEF q, CommandMatches, CountAbove
<1>7. Taking(c)' <=> Taking(c)
  BY <1>1, <1>2, <1>5 DEF q, Taking, UsesTable, Entering
<1>8. Weight(c)' = Weight(c) /\ q.pc = "count" /\ q.loaded = nChild
  BY <1>7 DEF q, Weight
<1>9. ASSUME Tidy, ~torn
      PROVE  /\ EntryTaken(c)'
             /\ c = "main" => EntryMade' /\ BeingEntered \subseteq BeingEntered'
  <2>1. EntryTaken(c)'
    BY <1>1, <1>2, <1>4, <1>5, <1>7, <1>9, Moves
    DEF q, Tidy, EntryTaken, Reaped, newest, Quiet, Moved
  <2>2. c = "main" => EntryMade' /\ BeingEntered \subseteq BeingEntered'
    BY <1>1, <1>2, <1>5, <1>9 DEF q, Tidy, EntryMade, BeingEntered, Entering
  <2> QED BY <2>1, <2>2
<1> QED BY <1>1, <1>4, <1>6, <1>8, <1>9, QuietSafe

(* No handler runs under main when it is main that is executed.            *)
LEMMA MainActive ==
  ASSUME TypeOK, Active = "main"
  PROVE  \A s \in Signals : frame[s].pc = "inactive" /\ ~UsesTable(s)
<1>1. ASSUME NEW s \in Signals
      PROVE  Level(s) = 3
  <2>1. Level(s) \in 1 .. 3 /\ Level("main") = 0 /\ s \in Contexts
    BY Nest DEF Contexts
  <2>2. Level(s) < 3 => Level(s) <= Level("main")
    BY <2>1, Nest
  <2> QED BY <2>1, <2>2
<1> QED BY <1>1, Nest DEF UsesTable, Signals

(* children[nChild - 1] is about to be read.                               *)
LEMMA LookUpSafe ==
  ASSUME Safe, NEW c \in Contexts, LookUp(c)
  PROVE  Safe'
<1> DEFINE q == [pc |-> "pick", pid |-> frame[c].pid, loaded |-> nChild - 1]
<1>1. /\ TypeOK /\ CommandMatches /\ CountAbove
      /\ Active = c /\ frame[c].pc = "look" /\ shell = "running"
      /\ UNCHANGED <<process, children, nChild, pending, handlers, presses, shell, torn>>
  BY DEF Safe, LookUp, Executes, Returns, tableVars, signalVars
<1>2. frame' = [frame EXCEPT ![c] = q] /\ command' = command
  BY <1>1, Steps DEF LookUp
<1>3. q \in Frames
  BY <1>1, Typed DEF Frames, MainLabels
<1>4. Quiet(c, q)
  BY <1>1, <1>2, <1>3 DEF Quiet, Moved, MainLabels, HandlerLabels, TypeOK
<1>5. frame'[c] = q
  BY <1>1, <1>4, Moves DEF Quiet
<1> HIDE DEF q
<1>6. c = "main" => CommandMatches' /\ CountAbove'
  BY <1>1, <1>2, <1>5 DEF q, CommandMatches, CountAbove
<1>7. Weight(c)' = Weight(c) /\ (Taking(c)' <=> Taking(c)) /\ q.pc = "pick"
  BY <1>1, <1>2, <1>5 DEF q, Weight, Taking, UsesTable, Entering
<1>8. ASSUME Tidy, ~torn
      PROVE  /\ EntryTaken(c)'
             /\ c = "main" => EntryMade' /\ BeingEntered \subseteq BeingEntered'
  <2>1. EntryTaken(c)'
    BY <1>1, <1>5, <1>7, <1>8 DEF q, Tidy, EntryTaken
  <2>2. c = "main" => EntryMade' /\ BeingEntered \subseteq BeingEntered'
    BY <1>1, <1>2, <1>5, <1>8 DEF q, Tidy, EntryMade, BeingEntered, Entering
  <2> QED BY <2>1, <2>2
<1> QED BY <1>1, <1>4, <1>6, <1>7, <1>8, QuietSafe

(* children[nChild - 1] is about to be cleared.                            *)
LEMMA FindEntrySafe ==
  ASSUME Safe, NEW c \in Contexts, FindEntry(c)
  PROVE  Safe'
<1> DEFINE q == [pc |-> "clear", pid |-> frame[c].pid, loaded |-> nChild - 1]
<1>1. /\ TypeOK
      /\ Active = c /\ frame[c].pc = "find" /\ shell = "running"
      /\ UNCHANGED <<process, children, nChild, pending, handlers, presses, shell, torn>>
  BY DEF Safe, FindEntry, Executes, Returns, tableVars, signalVars
<1>2. c # "main"
  BY <1>1, Typed DEF MainLabels
<1>3. frame' = [frame EXCEPT ![c] = q] /\ command' = command
  BY <1>1, Steps DEF FindEntry
<1>4. q \in Frames
  BY <1>1, Typed DEF Frames, HandlerLabels
<1>5. Quiet(c, q)
  BY <1>1, <1>2, <1>3, <1>4 DEF Quiet, Moved, HandlerLabels, TypeOK
<1>6. frame'[c] = q /\ Active' = c
  BY <1>1, <1>5, Moves DEF Quiet
<1> HIDE DEF q
<1>7. Weight(c)' = Weight(c) /\ Taking(c) /\ Taking(c)' /\ q.pc = "clear"
  BY <1>1, <1>2, <1>3, <1>6 DEF q, Weight, Taking, UsesTable, Entering
<1>8. ASSUME Tidy, ~torn
      PROVE  EntryTaken(c)'
  BY <1>1, <1>6, <1>7, <1>8 DEF q, Tidy, EntryTaken, Reaped, newest
<1> QED BY <1>1, <1>2, <1>5, <1>7, <1>8, QuietSafe

(* children[nChild - 1] is read.                                           *)
LEMMA PickNewestSafe ==
  ASSUME Safe, NEW c \in Contexts, PickNewest(c)
  PROVE  Safe'
<1> DEFINE q == [pc |-> "kill", pid |-> children[frame[c].loaded], loaded |-> 0]
<1>1. /\ TypeOK /\ CommandMatches /\ CountAbove
      /\ Active = c /\ frame[c].pc = "pick" /\ shell = "running"
      /\ frame[c].loaded \in DOMAIN children
      /\ UNCHANGED <<process, children, nChild, pending, handlers, presses, command,
                     shell, torn>>
  BY DEF Safe, PickNewest, Executes, Returns, tableVars, signalVars
<1>2. frame' = [frame EXCEPT ![c] = q]
  BY Zenon DEF PickNewest, Holding
<1>3. q \in Frames
  BY <1>1, Typed DEF Frames, MainLabels
<1>4. Quiet(c, q)
  BY <1>1, <1>2, <1>3 DEF Quiet, Moved, MainLabels, HandlerLabels, TypeOK
<1>5. frame'[c] = q
  BY <1>1, <1>4, Moves DEF Quiet
<1> HIDE DEF q
<1>6. c = "main" => CommandMatches' /\ CountAbove' /\ command = "quit"
  BY <1>1, <1>5 DEF q, CommandMatches, CountAbove
<1>7. Weight(c)' = Weight(c) /\ (Taking(c)' <=> Taking(c)) /\ q.pc = "kill"
  BY <1>1, <1>5, <1>6 DEF q, Weight, Taking, UsesTable, Entering
<1>8. ASSUME Tidy, ~torn
      PROVE  /\ EntryTaken(c)'
             /\ c = "main" => EntryMade' /\ BeingEntered \subseteq BeingEntered'
  <2>1. EntryTaken(c)'
    BY <1>1, <1>5, <1>7, <1>8 DEF q, Tidy, EntryTaken, newest
  <2>2. c = "main" => EntryMade' /\ BeingEntered \subseteq BeingEntered'
    BY <1>1, <1>5, <1>6, <1>8 DEF q, Tidy, EntryMade, BeingEntered, Entering
  <2> QED BY <2>1, <2>2
<1> QED BY <1>1, <1>4, <1>6, <1>7, <1>8, QuietSafe

(* children[nChild] is about to be written.                                *)
LEMMA EnterChildSafe ==
  ASSUME Safe, EnterChild
  PROVE  Safe'
<1> DEFINE q == [pc |-> "store", pid |-> frame["main"].pid, loaded |-> nChild]
<1>1. /\ TypeOK /\ CommandMatches /\ CountAbove
      /\ "main" \in Contexts
      /\ Active = "main" /\ frame["main"].pc = "enter" /\ shell = "running"
      /\ UNCHANGED <<process, children, nChild, pending, handlers, presses, shell, torn>>
  BY Typed DEF Safe, EnterChild, Executes, Returns, tableVars, signalVars
<1>2. frame' = [frame EXCEPT !["main"] = q] /\ command' = command
  BY <1>1, Steps DEF EnterChild
<1>3. q \in Frames
  BY <1>1, Typed DEF Frames, MainLabels
<1>4. Quiet("main", q)
  BY <1>1, <1>2, <1>3 DEF Quiet, Moved, MainLabels, TypeOK
<1>5. frame'["main"] = q /\ \A s \in Signals : frame'[s] = frame[s]
  BY <1>1, <1>4, Moves, Typed DEF Quiet, Contexts
<1> HIDE DEF q
<1>6. CommandMatches'
  BY <1>1, <1>2, <1>5 DEF q, CommandMatches
<1>7. CountAbove'
  BY <1>1, <1>2, <1>5, MainActive, Typed DEF q, CountAbove
<1>8. ~Taking("main")' /\ Weight("main")' = 0 /\ q.pc = "store"
  BY <1>1, <1>2, <1>5 DEF q, Weight, Taking, UsesTable, Entering, CommandMatches
<1>9. ASSUME Tidy, ~torn
      PROVE  EntryMade' /\ BeingEntered \subseteq BeingEntered' /\ EntryTaken("main")'
  <2>1. frame["main"].pid # 0 /\ command # "quit"
    BY <1>1, <1>9 DEF Tidy, EntryMade, CommandMatches
  <2>2. EntryMade'
    BY <1>1, <1>2, <1>5, <2>1 DEF q, EntryMade, Entering
  <2>3. BeingEntered \subseteq BeingEntered'
    BY <1>1, <1>2, <1>5, <2>1 DEF q, BeingEntered
  <2> QED BY <1>8, <2>2, <2>3 DEF EntryTaken
<1> QED BY <1>1, <1>4, <1>6, <1>7, <1>8, <1>9, QuietSafe

(* boundF has slept long enough.                                           *)
LEMMA TimeLimitOverSafe ==
  ASSUME Safe, TimeLimitOver
  PROVE  Safe'
<1> DEFINE q == [pc |-> "kill", pid |-> frame["main"].pid, loaded |-> 0]
<1>1. /\ TypeOK /\ CommandMatches
      /\ "main" \in Contexts
      /\ Active = "main" /\ frame["main"].pc = "sleep" /\ shell = "running"
      /\ UNCHANGED <<process, children, nChild, pending, handlers, presses, shell, torn>>
  BY Typed DEF Safe, TimeLimitOver, Executes, Returns, tableVars, signalVars
<1>2. frame' = [frame EXCEPT !["main"] = q] /\ command' = command
  <2>1. Standing("main", "kill") = q
    BY <1>1, Steps
  <2> HIDE DEF q
  <2> QED BY <1>1, <2>1, Steps DEF TimeLimitOver
<1>3. q \in Frames
  BY <1>1, Typed DEF Frames, MainLabels
<1>4. Quiet("main", q)
  BY <1>1, <1>2, <1>3 DEF Quiet, Moved, MainLabels, TypeOK
<1>5. frame'["main"] = q
  BY <1>1, <1>4, Moves DEF Quiet
<1> HIDE DEF q
<1>6. CommandMatches' /\ CountAbove' /\ command = "bound"
  BY <1>1, <1>2, <1>5 DEF q, CommandMatches, CountAbove
<1>7. ~Taking("main")' /\ Weight("main")' = 0 /\ q.pc = "kill"
  BY <1>1, <1>2, <1>5, <1>6 DEF q, Weight, Taking, UsesTable
<1>8. ASSUME Tidy, ~torn
      PROVE  EntryMade' /\ BeingEntered \subseteq BeingEntered' /\ EntryTaken("main")'
  BY <1>1, <1>2, <1>5, <1>6, <1>7, <1>8
  DEF q, Tidy, EntryMade, BeingEntered, Entering, EntryTaken
<1> QED BY <1>1, <1>4, <1>6, <1>7, <1>8, QuietSafe

(* There is no such process to kill.                                       *)
LEMMA KillFailsSafe ==
  ASSUME Safe, NEW c \in Contexts, KillFails(c)
  PROVE  Safe'
<1> DEFINE q == Standing(c, AfterWait(c))
<1>1. /\ TypeOK /\ CommandMatches
      /\ Active = c /\ frame[c].pc = "kill" /\ shell = "running"
      /\ frame[c].pid # 0 /\ process[frame[c].pid] = "none"
      /\ UNCHANGED <<process, children, nChild, pending, handlers, presses, shell, torn>>
  BY DEF Safe, KillFails, Executes, Returns, tableVars, signalVars
<1>2. /\ frame' = [frame EXCEPT ![c] = q]
      /\ command' = IF AfterWait(c) = "prompt" THEN "none" ELSE command
  BY <1>1, Steps DEF KillFails
<1>3. /\ c # "main" => c \in Signals /\ AfterWait(c) = "find"
      /\ c = "main" /\ command = "quit" => AfterWait(c) = "load"
      /\ c = "main" /\ command # "quit" => AfterWait(c) = "prompt"
  BY Typed DEF AfterWait, Contexts, Signals
<1>4. q = [pc |-> AfterWait(c), pid |-> IF AfterWait(c) = "load" THEN frame[c].pid ELSE 0,
           loaded |-> 0]
  BY <1>1, <1>3, Steps
<1>5. q \in Frames
  BY <1>1, <1>3, <1>4, Typed DEF Frames, MainLabels, HandlerLabels
<1> HIDE DEF q
<1>6. Quiet(c, q)
  BY <1>1, <1>2, <1>3, <1>4, <1>5 DEF Quiet, Moved, MainLabels, HandlerLabels, TypeOK
<1>7. frame'[c] = q /\ Active' = c
  BY <1>1, <1>6, Moves DEF Quiet
<1>8. c = "main" => CommandMatches' /\ CountAbove'
  BY <1>1, <1>2, <1>3, <1>4, <1>7 DEF CommandMatches, CountAbove
<1>9. /\ Taking(c)' => Taking(c) /\ AfterWait(c) # "prompt"
      /\ Weight(c)' = 1 => Weight(c) = 1
      /\ q.pc # "count"
  BY <1>1, <1>2, <1>3, <1>4, <1>7 DEF Weight, Taking, UsesTable, Entering
<1>10. ASSUME Tidy, ~torn
       PROVE  /\ EntryTaken(c)'
              /\ c = "main" => EntryMade' /\ BeingEntered \subseteq BeingEntered'
  <2>1. EntryTaken(c)'
    BY <1>1, <1>3, <1>4, <1>7, <1>9, <1>10 DEF Tidy, EntryTaken, Reaped, newest
  <2>2. c = "main" => EntryMade' /\ BeingEntered \subseteq BeingEntered'
    BY <1>1, <1>2, <1>3, <1>4, <1>7, <1>10 DEF Tidy, EntryMade, BeingEntered, Entering
  <2> QED BY <2>1, <2>2
<1> QED BY <1>1, <1>6, <1>8, <1>9, <1>10, QuietSafe

(* A command that starts with no more than a place for main to stand at.   *)
LEMMA PromptSafe ==
  ASSUME Safe, NEW label, NEW p \in Pids \cup {0}, NEW name, Prompt(name),
         frame' = [frame EXCEPT !["main"] = Holding(label, p)],
         \/ label = "waitAny" /\ name = "wait"
         \/ label = "wait" /\ name = "waitfor"
         \/ label = "kill" /\ name = "kill"
         \/ label = "test" /\ name = "quit",
         UNCHANGED <<process, tableVars, signalVars, shell, torn>>
  PROVE  Safe'
<1> DEFINE q == [pc |-> label, pid |-> p, loaded |-> 0]
<1>1. /\ TypeOK /\ CommandMatches
      /\ "main" \in Contexts
      /\ Active = "main" /\ frame["main"].pc = "prompt" /\ shell = "running"
      /\ command' = name
      /\ UNCHANGED <<process, children, nChild, pending, handlers, presses, shell, torn>>
  BY Typed DEF Safe, Prompt, Executes, Returns, tableVars, signalVars
<1>2. frame' = [frame EXCEPT !["main"] = q]
  BY Zenon DEF Holding
<1>3. q \in Frames /\ q.pc = label /\ q.pid = p
  BY <1>1, Typed DEF Frames, MainLabels
<1> HIDE DEF q
<1>4. Quiet("main", q)
  BY <1>1, <1>2, <1>3 DEF Quiet, Moved, MainLabels
<1>5. frame'["main"] = q
  BY <1>1, <1>4, Moves DEF Quiet
<1>6. CommandMatches' /\ CountAbove'
  BY <1>1, <1>3, <1>5 DEF CommandMatches, CountAbove
<1>7. ~Taking("main")' /\ Weight("main")' = 0 /\ q.pc # "count"
  BY <1>1, <1>3, <1>5 DEF Weight, Taking, UsesTable
<1>8. ASSUME Tidy, ~torn
      PROVE  EntryMade' /\ BeingEntered \subseteq BeingEntered' /\ EntryTaken("main")'
  BY <1>1, <1>3, <1>5, <1>7, <1>8
  DEF Tidy, EntryMade, BeingEntered, Entering, EntryTaken
<1> QED BY <1>1, <1>4, <1>6, <1>7, <1>8, QuietSafe

-----------------------------------------------------------------------------
(* Steps of a context that change the table or the processes.              *)
AllListed == {p \in Pids : process[p] # "none"} \subseteq Listed \cup BeingEntered

(* What a step that changes processes or the table has to show.            *)
LEMMA StepSafe ==
  ASSUME Safe, NEW c, NEW q, Moved(c, q),
         shell = "running", shell' = shell, RestOK',
         c # "main" => command' = command,
         CommandMatches', CountAbove',
         nChild' >= Takers(3)' - 2,
         q.pc = "count" => q.loaded >= Takers(3)' - 2,
         torn => torn',
         Tidy /\ ~torn' =>
           /\ \A d \in Contexts : d # c => ~UsesTable(d)
           /\ nChild' >= 0 /\ EntryTaken(c)' /\ EntriesSet' /\ AllListed'
           /\ c = "main" => EntryMade'
  PROVE  Safe'
<1>1. TypeOK /\ CountBelow /\ c \in Contexts
  BY DEF Safe, Moved
<1>2. NestOK' /\ Framed'
  BY <1>1, Moves
<1>3. TypeOK'
  BY <1>2, TypePartsNext
<1>4. nChild' \in Int
  BY DEF RestOK
<1>5. CountBelow'
  BY <1>1, <1>4, BelowStep
<1>6. (~torn => Tidy)'
  <2> SUFFICES ASSUME ~torn' PROVE Tidy'
    OBVIOUS
  <2>1. Tidy
    BY DEF Safe
  <2>2. /\ OthersAtTest'
        /\ \A d \in Contexts : d # c => EntryTaken(d)'
        /\ c # "main" => EntryMade'
    BY <1>1, <2>1, AloneStep DEF Tidy
  <2> QED BY <1>1, <2>1, <2>2 DEF Tidy, AllListed
<1>7. HarmlessUnlessTorn'
  BY DEF HarmlessUnlessTorn
<1> QED BY <1>3, <1>5, <1>6, <1>7, Zenon DEF Safe

(* The entry is written, and not counted yet.                              *)
LEMMA StoreChildSafe ==
  ASSUME Safe, StoreChild
  PROVE  Safe'
<1> DEFINE q == [pc |-> "load", pid |-> frame["main"].pid, loaded |-> 0]
<1>1. /\ TypeOK /\ CommandMatches /\ CountAbove /\ CountBelow
      /\ "main" \in Contexts
      /\ Active = "main" /\ frame["main"].pc = "store" /\ shell = "running"
      /\ frame["main"].loaded \in 0 .. CHILDREN - 1
      /\ children' = [children EXCEPT ![frame["main"].loaded] = frame["main"].pid]
      /\ UNCHANGED <<process, nChild, pending, handlers, presses, shell, torn>>
  BY Typed DEF Safe, StoreChild, Executes, Returns, signalVars
<1>2. frame' = [frame EXCEPT !["main"] = q] /\ command' = command
  <2>1. Standing("main", "load") = q
    BY <1>1, Steps
  <2> HIDE DEF q
  <2> QED BY <1>1, <2>1, Steps DEF StoreChild
<1>3. q \in Frames
  BY <1>1, Typed DEF Frames, MainLabels
<1>4. Moved("main", q)
  BY <1>1, <1>2, <1>3 DEF Moved, MainLabels
<1>5. frame'["main"] = q
  BY <1>1, <1>4, Moves
<1> HIDE DEF q
<1>6. CommandMatches' /\ command \in {"start", "run", "bound"}
  BY <1>1, <1>2, <1>5 DEF q, CommandMatches
<1>7. CountAbove'
  BY <1>1, <1>2, <1>5, Typed DEF q, CountAbove
<1>8. /\ ~Taking("main")' /\ Weight("main")' = 0
      /\ ~Taking("main") /\ Weight("main") = 0
      /\ q.pc = "load"
  BY <1>1, <1>2, <1>5, <1>6 DEF q, Weight, Taking, UsesTable, Entering
<1>9. nChild' >= Takers(3)' - 2
  BY <1>1, <1>4, <1>8, TakersMove, Typed DEF CountBelow
<1>10. RestOK'
  <2>1. RestOK
    BY <1>1, TypeParts
  <2>2. children' \in [0 .. CHILDREN - 1 -> Pids \cup {0}]
    BY <1>1, <2>1, Typed DEF RestOK
  <2> QED BY <1>1, <1>2, <2>1, <2>2, Zenon DEF RestOK
<1>11. ASSUME Tidy
       PROVE  /\ \A d \in Contexts : d # "main" => ~UsesTable(d)
              /\ nChild' >= 0 /\ EntryTaken("main")' /\ EntriesSet' /\ AllListed'
              /\ EntryMade'
  <2>1. \A d \in Contexts : d # "main" => ~UsesTable(d)
    BY <1>1, MainActive DEF Contexts
  <2>2. /\ frame["main"].loaded = nChild /\ frame["main"].pid # 0
        /\ nChild >= 0 /\ nChild \in Int
    BY <1>1, <1>11, Typed DEF Tidy, EntryMade
  <2>3. children'[nChild] = frame["main"].pid
        /\ \A i \in 0 .. nChild - 1 : children'[i] = children[i]
    BY <1>1, <2>2, Typed
  <2>4. EntryTaken("main")'
    BY <1>8 DEF EntryTaken
  <2>5. \A s \in Signals : frame'[s] = frame[s]
    BY <1>1, <1>4, Moves, Typed DEF Contexts
  <2>6. EntriesSet'
    BY <1>1, <1>11, <2>2, <2>3, <2>5 DEF Tidy, EntriesSet
  <2>7. Listed' = Listed /\ BeingEntered' = BeingEntered
    BY <1>1, <1>2, <1>5, <1>6, <2>2, <2>3 DEF q, Listed, BeingEntered
  <2>8. AllListed'
    BY <1>1, <1>11, <2>7 DEF Tidy, AllListed
  <2>9. EntryMade'
    BY <1>1, <1>2, <1>5, <1>6, <2>2, <2>3 DEF q, EntryMade, Entering
  <2> QED BY <1>1, <2>1, <2>2, <2>4, <2>6, <2>8, <2>9
<1> QED BY <1>1, <1>2, <1>4, <1>6, <1>7, <1>8, <1>9, <1>10, <1>11, StepSafe

(* The entry is counted.                                                   *)
LEMMA CountChildSafe ==
  ASSUME Safe, CountChild
  PROVE  Safe'
<1> DEFINE label == CASE command = "run" -> "wait"
                      [] command = "bound" -> "sleep"
                      [] OTHER -> "prompt"
<1> DEFINE q == Standing("main", label)
<1>1. /\ TypeOK /\ CommandMatches /\ CountAbove /\ CountBelow
      /\ "main" \in Contexts
      /\ Active = "main" /\ frame["main"].pc = "count" /\ shell = "running"
      /\ command # "quit"
      /\ nChild' = frame["main"].loaded + 1
      /\ UNCHANGED <<process, children, pending, handlers, presses, shell, torn>>
  BY Typed DEF Safe, CountChild, Executes, Returns, signalVars
<1>2. label \in {"wait", "sleep", "prompt"}
      /\ (label = "wait" => command = "run") /\ (label = "sleep" => command = "bound")
  BY Zenon
<1>3. /\ frame' = [frame EXCEPT !["main"] = q]
      /\ command' = IF label = "prompt" THEN "none" ELSE command
  BY Zenon DEF CountChild, Goto
<1> HIDE DEF label
<1>4. /\ q = [pc |-> label, pid |-> IF label = "prompt" THEN 0 ELSE frame["main"].pid,
              loaded |-> 0]
      /\ q \in Frames
  <2>1. q = [pc |-> label, pid |-> IF label = "prompt" THEN 0 ELSE frame["main"].pid,
             loaded |-> 0]
    BY <1>1, <1>2, Steps
  <2> QED BY <1>1, <1>2, <2>1, Typed DEF Frames, MainLabels
<1> HIDE DEF q
<1>5. Moved("main", q)
  BY <1>1, <1>2, <1>3, <1>4 DEF Moved, MainLabels
<1>6. frame'["main"] = q /\ \A s \in Signals : frame'[s] = frame[s]
  BY <1>1, <1>5, Moves, Typed DEF Contexts
<1>7. CommandMatches' /\ CountAbove'
  BY <1>1, <1>2, <1>3, <1>4, <1>6 DEF CommandMatches, CountAbove
<1>8. /\ ~Taking("main")' /\ Weight("main")' = 0
      /\ ~Taking("main") /\ Weight("main") = 0
      /\ q.pc # "count"
  BY <1>1, <1>2, <1>3, <1>4, <1>6 DEF Weight, Taking, UsesTable, Entering
<1>9. nChild' \in -2 .. CHILDREN /\ nChild' >= Takers(3)' - 2
  <2>1. Takers(3) >= 0 /\ Takers(3)' = Takers(3) /\ Takers(Level("main")) = Takers(3)
    BY <1>1, <1>5, <1>8, TakersMove DEF Takers
  <2>2. /\ frame["main"].loaded >= Takers(3) - 2
        /\ frame["main"].loaded < CHILDREN
        /\ frame["main"].loaded \in Int
        /\ Takers(3) \in Int
    BY <1>1, <1>5, <2>1, Typed, TakersMove DEF CountBelow, CountAbove
  <2> QED BY <1>1, <2>1, <2>2, Typed
<1>10. RestOK'
  <2>1. RestOK
    BY <1>1, TypeParts
  <2> QED BY <1>1, <1>3, <1>9, <2>1 DEF RestOK
<1>11. ASSUME Tidy
       PROVE  /\ \A d \in Contexts : d # "main" => ~UsesTable(d)
              /\ nChild' >= 0 /\ EntryTaken("main")' /\ EntriesSet' /\ AllListed'
              /\ EntryMade'
  <2>1. \A d \in Contexts : d # "main" => ~UsesTable(d)
    BY <1>1, MainActive DEF Contexts
  <2>2. /\ nChild' = nChild + 1 /\ frame["main"].pid # 0
        /\ children[nChild] = frame["main"].pid
        /\ nChild >= 0 /\ nChild \in Int
    BY <1>1, <1>11, Typed DEF Tidy, EntryMade, Entering
  <2>3. EntryTaken("main")'
    BY <1>8 DEF EntryTaken
  <2>4. \A i \in 0 .. nChild - 1 : children[i] # 0
    BY <1>1, <1>11, MainActive DEF Tidy, EntriesSet
  <2>5. EntriesSet'
    BY <1>1, <2>2, <2>4 DEF EntriesSet
  <2>6. Listed' = Listed \cup {frame["main"].pid}
    BY <1>1, <2>2 DEF Listed
  <2>7. BeingEntered = {frame["main"].pid}
    BY <1>1 DEF BeingEntered
  <2>8. AllListed'
    BY <1>1, <1>11, <2>6, <2>7 DEF Tidy, AllListed
  <2>9. EntryMade'
    BY <1>1, <1>2, <1>3, <1>4, <1>6, <2>2 DEF EntryMade, Entering
  <2> QED BY <1>1, <2>1, <2>2, <2>3, <2>5, <2>8, <2>9
<1> QED BY <1>1, <1>5, <1>7, <1>8, <1>9, <1>10, <1>11, StepSafe

(* A process is killed.                                                    *)
LEMMA KillSafe ==
  ASSUME Safe, NEW c \in Contexts, Kill(c)
  PROVE  Safe'
<1> DEFINE q == [pc |-> "wait", pid |-> frame[c].pid, loaded |-> 0]
<1>1. /\ TypeOK /\ CommandMatches /\ CountAbove /\ CountBelow
      /\ Active = c /\ frame[c].pc = "kill" /\ shell = "running"
      /\ frame[c].pid # 0 /\ process[frame[c].pid] # "none"
      /\ process' = [process EXCEPT ![frame[c].pid] =
                       IF @ = "running" THEN "killed" ELSE @]
      /\ UNCHANGED <<children, nChild, pending, handlers, presses, shell, torn>>
  BY DEF Safe, Kill, Executes, Returns, tableVars, signalVars
<1>2. frame' = [frame EXCEPT ![c] = q] /\ command' = command
  <2>1. Standing(c, "wait") = q
    BY <1>1, Steps
  <2> HIDE DEF q
  <2> QED BY <1>1, <2>1, Steps DEF Kill
<1>3. q \in Frames
  BY <1>1, Typed DEF Frames, MainLabels
<1>4. Moved(c, q)
  BY <1>1, <1>2, <1>3 DEF Moved, MainLabels, HandlerLabels
<1>5. /\ frame'[c] = q
      /\ \A d \in Contexts : d # c => frame'[d] = frame[d]
  BY <1>1, <1>4, Moves
<1> HIDE DEF q
<1>6. CommandMatches'
  BY <1>1, <1>2, <1>5, Typed DEF q, CommandMatches
<1>7. CountAbove'
  BY <1>1, <1>2, <1>5, Typed DEF q, CountAbove, Contexts
<1>8. /\ Taking(c)' <=> Taking(c)
      /\ Weight(c)' = Weight(c)
      /\ q.pc = "wait"
  BY <1>1, <1>2, <1>5 DEF q, Weight, Taking, UsesTable, Entering
<1>9. nChild' >= Takers(3)' - 2
  BY <1>1, <1>2, <1>4, <1>8, TakersMove, Typed DEF CountBelow
<1>10. /\ process' \in [Pids -> {"none", "running", "killed", "zombie"}]
       /\ \A p \in Pids : process'[p] = "none" <=> process[p] = "none"
  BY <1>1 DEF TypeOK
<1>11. RestOK'
  <2>1. RestOK
    BY <1>1, TypeParts
  <2> QED BY <1>1, <1>2, <1>10, <2>1, Zenon DEF RestOK
<1>12. ASSUME Tidy
       PROVE  /\ \A d \in Contexts : d # c => ~UsesTable(d)
              /\ nChild' >= 0 /\ EntryTaken(c)' /\ EntriesSet' /\ AllListed'
              /\ c = "main" => EntryMade'
  <2>1. \A d \in Contexts : d # c => ~UsesTable(d)
    BY <1>1, <1>12, Alone DEF Tidy
  <2>2. EntryTaken(c)'
    BY <1>1, <1>5, <1>8, <1>12 DEF q, Tidy, EntryTaken, newest
  <2>3. \A s \in Signals : frame[s].pc \in {"load", "count"}
                           => frame'[s].pc \in {"load", "count"}
    BY <1>1, <1>5 DEF Contexts
  <2>4. EntriesSet'
    BY <1>1, <1>12, <2>3 DEF Tidy, EntriesSet
  <2>5. Listed' = Listed
    BY <1>1 DEF Listed
  <2>6. BeingEntered' = BeingEntered
    BY <1>1, <1>2, <1>5 DEF q, BeingEntered, Contexts
  <2>7. AllListed'
    BY <1>10, <1>12, <2>5, <2>6 DEF Tidy, AllListed
  <2>8. c = "main" => EntryMade'
    BY <1>1, <1>2, <1>5, <1>12 DEF q, Tidy, EntryMade, Entering
  <2> QED BY <1>1, <1>12, <2>1, <2>2, <2>4, <2>7, <2>8 DEF Tidy
<1> QED BY <1>1, <1>2, <1>4, <1>6, <1>7, <1>8, <1>9, <1>11, <1>12, StepSafe

(* waitpid reaps the child, or finds none.                                 *)
LEMMA WaitPidSafe ==
  ASSUME Safe, NEW c \in Contexts, WaitPid(c)
  PROVE  Safe'
<1> DEFINE q == Standing(c, AfterWait(c))
<1>1. /\ TypeOK /\ CommandMatches /\ CountAbove /\ CountBelow
      /\ Active = c /\ frame[c].pc = "wait" /\ shell = "running"
      /\ process' = [process EXCEPT ![frame[c].pid] = "none"]
      /\ UNCHANGED <<children, nChild, pending, handlers, presses, shell, torn>>
  BY DEF Safe, WaitPid, Returns, tableVars, signalVars
<1>2. /\ frame' = [frame EXCEPT ![c] = q]
      /\ command' = IF AfterWait(c) = "prompt" THEN "none" ELSE command
  BY <1>1, Steps DEF WaitPid
<1>3. /\ c # "main" => c \in Signals /\ AfterWait(c) = "find"
      /\ c = "main" /\ command = "quit" => AfterWait(c) = "load"
      /\ c = "main" /\ command # "quit" => AfterWait(c) = "prompt"
  BY Typed DEF AfterWait, Contexts, Signals
<1>4. q = [pc |-> AfterWait(c), pid |-> IF AfterWait(c) = "load" THEN frame[c].pid ELSE 0,
           loaded |-> 0]
  BY <1>1, <1>3, Steps
<1>5. q \in Frames
  BY <1>1, <1>3, <1>4, Typed DEF Frames, MainLabels, HandlerLabels
<1> HIDE DEF q
<1>6. Moved(c, q)
  BY <1>1, <1>2, <1>3, <1>4, <1>5 DEF Moved, MainLabels, HandlerLabels
<1>7. /\ frame'[c] = q /\ Active' = c
      /\ \A d \in Contexts : d # c => frame'[d] = frame[d]
  BY <1>1, <1>6, Moves
<1>8. CommandMatches'
  BY <1>1, <1>2, <1>3, <1>4, <1>7, Typed DEF CommandMatches
<1>9. CountAbove'
  BY <1>1, <1>2, <1>3, <1>4, <1>7, Typed DEF CountAbove, Contexts
<1>10. /\ Taking(c)' <=> Taking(c)
       /\ Taking(c)' => AfterWait(c) # "prompt"
       /\ Weight(c)' = Weight(c)
       /\ q.pc # "count"
  BY <1>1, <1>2, <1>3, <1>4, <1>7 DEF Weight, Taking, UsesTable, Entering
<1>11. c # "main" => command' = command
  BY <1>2, <1>3
<1>12. nChild' >= Takers(3)' - 2
  BY <1>1, <1>6, <1>10, <1>11, TakersMove, Typed DEF CountBelow
<1>13. /\ process' \in [Pids -> {"none", "running", "killed", "zombie"}]
       /\ \A p \in Pids : process'[p] # "none" => process[p] # "none"
       /\ frame[c].pid # 0 => process'[frame[c].pid] = "none"
  BY <1>1, Typed DEF TypeOK
<1>14. RestOK'
  <2>1. RestOK
    BY <1>1, TypeParts
  <2> QED BY <1>1, <1>2, <1>13, <2>1, Zenon DEF RestOK
<1>15. ASSUME Tidy
       PROVE  /\ \A d \in Contexts : d # c => ~UsesTable(d)
              /\ nChild' >= 0 /\ EntryTaken(c)' /\ EntriesSet' /\ AllListed'
              /\ c = "main" => EntryMade'
  <2>1. \A d \in Contexts : d # c => ~UsesTable(d)
    BY <1>1, <1>15, Alone DEF Tidy
  <2>2. EntryTaken(c)'
    BY <1>1, <1>3, <1>4, <1>7, <1>10, <1>13, <1>15
    DEF Tidy, EntryTaken, Reaped, newest
  <2>3. \A s \in Signals : frame[s].pc \in {"load", "count"}
                           => frame'[s].pc \in {"load", "count"}
    BY <1>1, <1>7 DEF Contexts
  <2>4. EntriesSet'
    BY <1>1, <1>15, <2>3 DEF Tidy, EntriesSet
  <2>5. Listed' = Listed
    BY <1>1 DEF Listed
  <2>6. BeingEntered' = BeingEntered
    BY <1>1, <1>2, <1>3, <1>4, <1>7 DEF BeingEntered, Contexts
  <2>7. AllListed'
    BY <1>13, <1>15, <2>5, <2>6 DEF Tidy, AllListed
  <2>8. c = "main" => EntryMade'
    BY <1>1, <1>2, <1>3, <1>4, <1>7, <1>15 DEF Tidy, EntryMade, Entering
  <2> QED BY <1>1, <1>15, <2>1, <2>2, <2>4, <2>7, <2>8 DEF Tidy
<1> QED BY <1>1, <1>6, <1>8, <1>9, <1>10, <1>11, <1>12, <1>14, <1>15, StepSafe

(* wait reaps some child, or finds none.                                   *)
LEMMA WaitAnySafe ==
  ASSUME Safe, WaitAny
  PROVE  Safe'
<1> DEFINE q == [pc |-> "prompt", pid |-> 0, loaded |-> 0]
<1>1. /\ TypeOK /\ CommandMatches /\ CountAbove /\ CountBelow
      /\ "main" \in Contexts
      /\ Active = "main" /\ frame["main"].pc = "waitAny" /\ shell = "running"
      /\ UNCHANGED <<children, nChild, pending, handlers, presses, shell, torn>>
  BY Typed DEF Safe, WaitAny, Returns, tableVars, signalVars
<1>2. frame' = [frame EXCEPT !["main"] = q] /\ command' = "none"
  <2>1. Standing("main", "prompt") = q
    BY <1>1, Steps
  <2> HIDE DEF q
  <2> QED BY <1>1, <2>1, Steps DEF WaitAny
<1>3. q \in Frames
  BY <1>1, Typed DEF Frames, MainLabels
<1>4. Moved("main", q)
  BY <1>1, <1>2, <1>3 DEF Moved, MainLabels
<1>5. frame'["main"] = q /\ \A s \in Signals : frame'[s] = frame[s]
  BY <1>1, <1>4, Moves, Typed DEF Contexts
<1> HIDE DEF q
<1>6. CommandMatches' /\ CountAbove'
  BY <1>1, <1>2, <1>5 DEF q, CommandMatches, CountAbove
<1>7. /\ ~Taking("main")' /\ Weight("main")' = 0
      /\ ~Taking("main") /\ Weight("main") = 0
      /\ q.pc = "prompt"
  BY <1>1, <1>2, <1>5 DEF q, Weight, Taking, UsesTable
<1>8. nChild' >= Takers(3)' - 2
  BY <1>1, <1>4, <1>7, TakersMove, Typed DEF CountBelow
<1>9. /\ process' \in [Pids -> {"none", "running", "killed", "zombie"}]
      /\ \A p \in Pids : process'[p] # "none" => process[p] # "none"
  BY <1>1 DEF WaitAny, TypeOK
<1>10. RestOK'
  <2>1. RestOK
    BY <1>1, TypeParts
  <2> QED BY <1>1, <1>2, <1>9, <2>1, Zenon DEF RestOK
<1>11. ASSUME Tidy
       PROVE  /\ \A d \in Contexts : d # "main" => ~UsesTable(d)
              /\ nChild' >= 0 /\ EntryTaken("main")' /\ EntriesSet' /\ AllListed'
              /\ EntryMade'
  <2>1. \A d \in Contexts : d # "main" => ~UsesTable(d)
    BY <1>1, MainActive DEF Contexts
  <2>2. EntryTaken("main")' /\ EntriesSet'
    BY <1>1, <1>5, <1>7, <1>11 DEF Tidy, EntryTaken, EntriesSet
  <2>3. Listed' = Listed /\ BeingEntered' = BeingEntered
    BY <1>1, <1>5, <1>7 DEF Listed, BeingEntered
  <2>4. AllListed'
    BY <1>9, <1>11, <2>3 DEF Tidy, AllListed
  <2>5. EntryMade'
    BY <1>2, <1>5, <1>7 DEF EntryMade, Entering
  <2> QED BY <1>1, <1>11, <2>1, <2>2, <2>4, <2>5 DEF Tidy
<1> QED BY <1>1, <1>4, <1>6, <1>7, <1>8, <1>10, <1>11, StepSafe

(* A positive nChild is seen: from here on a child will be discounted.     *)
LEMMA SomeChildSafe ==
  ASSUME Safe, NEW c \in Contexts, SomeChild(c)
  PROVE  Safe'
<1> DEFINE q == [pc |-> "look", pid |-> frame[c].pid, loaded |-> 0]
<1>1. /\ TypeOK /\ CommandMatches /\ CountAbove
      /\ Active = c /\ frame[c].pc = "test" /\ shell = "running"
      /\ nChild > 0
      /\ torn' = (torn \/ \E d \in Interrupted : UsesTable(d))
      /\ UNCHANGED <<process, children, nChild, pending, handlers, presses, shell>>
  BY DEF Safe, SomeChild, Executes, Returns, tableVars, signalVars
<1>2. frame' = [frame EXCEPT ![c] = q] /\ command' = command
  <2>1. Standing(c, "look") = q
    BY <1>1, Steps
  <2> HIDE DEF q
  <2> QED BY <1>1, <2>1, Steps DEF SomeChild
<1>3. q \in Frames
  BY <1>1, Typed DEF Frames, MainLabels
<1>4. Moved(c, q)
  BY <1>1, <1>2, <1>3 DEF Moved, MainLabels, HandlerLabels
<1>5. /\ frame'[c] = q
      /\ \A d \in Contexts : d # c => frame'[d] = frame[d]
  BY <1>1, <1>4, Moves
<1> HIDE DEF q
<1>6. CommandMatches'
  BY <1>1, <1>2, <1>5, Typed DEF q, CommandMatches
<1>7. CountAbove'
  BY <1>1, <1>2, <1>5, Typed DEF q, CountAbove, Contexts
<1>8. /\ ~Taking(c) /\ Weight(c) = 0
      /\ q.pc = "look"
  BY <1>1 DEF q, Weight, Taking, UsesTable
<1>9. nChild' >= Takers(3)' - 2
  BY <1>1, <1>2, <1>4, <1>8, TakersMove, Typed
<1>10. torn' \in BOOLEAN /\ (torn => torn')
  BY <1>1 DEF TypeOK
<1>11. RestOK'
  <2>1. RestOK
    BY <1>1, TypeParts
  <2> QED BY <1>1, <1>2, <1>10, <2>1, Zenon DEF RestOK
<1>12. ASSUME Tidy, ~torn'
       PROVE  /\ \A d \in Contexts : d # c => ~UsesTable(d)
              /\ nChild' >= 0 /\ EntryTaken(c)' /\ EntriesSet' /\ AllListed'
              /\ c = "main" => EntryMade'
  <2>1. \A d \in Contexts : d # c => ~UsesTable(d)
    BY <1>1, <1>12 DEF Interrupted, UsesTable
  <2>2. EntryTaken(c)'
    BY <1>1, <1>5, <1>8 DEF EntryTaken
  <2>3. \A s \in Signals : frame[s].pc \in {"load", "count"}
                           => frame'[s].pc \in {"load", "count"}
    BY <1>1, <1>5 DEF Contexts
  <2>4. EntriesSet'
    BY <1>1, <1>12, <2>3 DEF Tidy, EntriesSet
  <2>5. Listed' = Listed
    BY <1>1 DEF Listed
  <2>6. BeingEntered' = BeingEntered
    BY <1>1, <1>2, <1>5 DEF q, BeingEntered, Contexts
  <2>7. AllListed'
    BY <1>1, <1>12, <2>5, <2>6 DEF Tidy, AllListed
  <2>8. c = "main" => EntryMade'
    BY <1>1, <1>2, <1>5 DEF q, EntryMade, Entering
  <2> QED BY <1>1, <1>12, <2>1, <2>2, <2>4, <2>7, <2>8 DEF Tidy
<1> QED BY <1>1, <1>2, <1>4, <1>6, <1>7, <1>8, <1>9, <1>10, <1>11, <1>12, StepSafe

(* The handler clears the newest entry.                                    *)
LEMMA ClearEntrySafe ==
  ASSUME Safe, NEW c \in Contexts, ClearEntry(c)
  PROVE  Safe'
<1> DEFINE q == [pc |-> "load", pid |-> frame[c].pid, loaded |-> 0]
<1>1. /\ TypeOK /\ CommandMatches /\ CountAbove /\ CountBelow
      /\ Active = c /\ frame[c].pc = "clear" /\ shell = "running"
      /\ frame[c].loaded \in 0 .. CHILDREN - 1
      /\ children' = [children EXCEPT ![frame[c].loaded] = 0]
      /\ UNCHANGED <<process, nChild, pending, handlers, presses, shell, torn>>
  BY Typed DEF Safe, ClearEntry, Executes, Returns, signalVars
<1>2. c # "main" /\ c \in Signals
  BY <1>1, Typed DEF MainLabels, Contexts
<1>3. frame' = [frame EXCEPT ![c] = q] /\ command' = command
  <2>1. Standing(c, "load") = q
    BY <1>1, Steps
  <2> HIDE DEF q
  <2>2. Goto(c, "load")
    BY DEF ClearEntry
  <2> QED BY <1>1, <2>1, <2>2, Steps
<1>4. q \in Frames
  BY <1>1, Typed DEF Frames, MainLabels
<1>5. Moved(c, q)
  BY <1>1, <1>2, <1>3, <1>4 DEF Moved, HandlerLabels
<1>6. /\ frame'[c] = q /\ Active' = c
      /\ \A d \in Contexts : d # c => frame'[d] = frame[d]
      /\ frame'["main"] = frame["main"]
  BY <1>1, <1>2, <1>5, Moves, Typed
<1> HIDE DEF q
<1>7. CommandMatches' /\ CountAbove'
  BY <1>1, <1>2, <1>3, <1>6, Typed DEF q, CommandMatches, CountAbove, Contexts
<1>8. Taking(c) /\ Taking(c)' /\ Weight(c)' = Weight(c) /\ q.pc = "load"
  BY <1>1, <1>2, <1>6 DEF q, Weight, Taking, UsesTable
<1>9. nChild' >= Takers(3)' - 2
  BY <1>1, <1>3, <1>5, <1>8, TakersMove, Typed DEF CountBelow
<1>10. RestOK'
  <2>1. RestOK
    BY <1>1, TypeParts
  <2>2. children' \in [0 .. CHILDREN - 1 -> Pids \cup {0}]
    BY <1>1, <2>1, Typed DEF RestOK
  <2> QED BY <1>1, <1>3, <2>1, <2>2, Zenon DEF RestOK
<1>11. ASSUME Tidy
       PROVE  /\ \A d \in Contexts : d # c => ~UsesTable(d)
              /\ nChild' >= 0 /\ EntryTaken(c)' /\ EntriesSet' /\ AllListed'
  <2>1. \A d \in Contexts : d # c => ~UsesTable(d)
    BY <1>1, <1>11, Alone DEF Tidy
  <2>2. /\ frame[c].loaded = nChild - 1
        /\ nChild > 0 /\ nChild \in Int
        /\ newest = 0 \/ process[newest] = "none"
    BY <1>1, <1>8, <1>11, Typed DEF Tidy, EntryTaken, Reaped
  <2>3. /\ children'[nChild - 1] = 0
        /\ \A i \in 0 .. nChild - 2 : children'[i] = children[i]
    BY <1>1, <2>2, Typed
  <2>4. EntryTaken(c)'
    BY <1>1, <1>6, <1>8, <2>2, <2>3 DEF EntryTaken, Reaped, newest
  <2>5. \A s \in Signals : frame[s].pc \notin {"load", "count"}
    BY <1>1, <1>2, <2>1 DEF UsesTable, Contexts
  <2>6. EntriesSet'
    <3>1. \A i \in 0 .. nChild - 2 : children[i] # 0
      BY <1>11, <2>2, <2>5 DEF Tidy, EntriesSet
    <3>2. frame'[c].pc \in {"load", "count"}
      BY <1>6, <1>8
    <3> QED BY <1>1, <1>2, <2>2, <2>3, <3>1, <3>2 DEF EntriesSet
  <2>7. \A p \in Listed : p = newest \/ p \in Listed'
    BY <1>1, <2>2, <2>3 DEF Listed, newest
  <2>8. BeingEntered' = BeingEntered
    BY <1>3, <1>6 DEF BeingEntered
  <2>9. AllListed'
    BY <1>1, <1>11, <2>2, <2>7, <2>8, Typed DEF Tidy, AllListed
  <2> QED BY <1>1, <2>1, <2>2, <2>4, <2>6, <2>9
<1> QED BY <1>1, <1>2, <1>3, <1>5, <1>7, <1>8, <1>9, <1>10, <1>11, StepSafe

(* The newest entry is taken off the table.                                *)
LEMMA DiscountChildSafe ==
  ASSUME Safe, NEW c \in Contexts, DiscountChild(c)
  PROVE  Safe'
<1> DEFINE label == IF c = "main" THEN "test" ELSE "return"
<1> DEFINE q == [pc |-> label, pid |-> 0, loaded |-> 0]
<1>1. /\ TypeOK /\ CommandMatches /\ CountAbove /\ CountBelow
      /\ Active = c /\ frame[c].pc = "count" /\ shell = "running"
      /\ c = "main" => command = "quit"
      /\ nChild' = frame[c].loaded - 1
      /\ UNCHANGED <<process, children, pending, handlers, presses, shell, torn>>
  BY DEF Safe, DiscountChild, Executes, Returns, signalVars
<1>2. frame' = [frame EXCEPT ![c] = q] /\ command' = command
  <2>1. Standing(c, label) = q
    BY <1>1, Steps
  <2>2. label # "prompt"
    OBVIOUS
  <2> HIDE DEF q, label
  <2>3. Goto(c, label)
    BY DEF DiscountChild, label
  <2> QED BY <1>1, <2>1, <2>2, <2>3, Steps
<1>3. q \in Frames
  BY <1>1, Typed DEF Frames, MainLabels, HandlerLabels
<1>4. Moved(c, q)
  BY <1>1, <1>2, <1>3 DEF Moved, MainLabels, HandlerLabels
<1>5. /\ frame'[c] = q
      /\ \A d \in Contexts : d # c => frame'[d] = frame[d]
  BY <1>1, <1>4, Moves
<1> HIDE DEF q
<1>6. CommandMatches'
  BY <1>1, <1>2, <1>5, Typed DEF q, CommandMatches
<1>7. CountAbove'
  <2>1. CASE c = "main"
    BY <1>2, <1>5, <2>1 DEF q, CountAbove
  <2>2. CASE c # "main"
    <3>1. c \in Signals /\ frame'["main"] = frame["main"] /\ q.pc = "return"
      BY <1>5, <2>2, Typed DEF q, Contexts
    <3>2. \A s \in Signals : frame'[s].pc = "count" => frame'[s] = frame[s]
      BY <1>5, <3>1, Typed DEF Contexts
    <3>3. /\ frame[c].loaded \in Int /\ frame[c].loaded <= CHILDREN
          /\ frame["main"].loaded \in Int /\ CHILDREN \in Int
      BY <1>1, Typed
    <3>4. frame["main"].pc = "store" => nChild' <= frame["main"].loaded
      BY <1>1, <3>1, <3>3 DEF CountAbove
    <3>5. nChild' < CHILDREN
      BY <1>1, <3>3
    <3> QED BY <1>1, <1>2, <3>1, <3>2, <3>4, <3>5 DEF CountAbove
  <2> QED BY <2>1, <2>2
<1>8. /\ Taking(c) /\ Weight(c) = 1
      /\ ~Taking(c)' /\ Weight(c)' = 0
      /\ q.pc # "count"
  BY <1>1, <1>2, <1>5 DEF q, Weight, Taking, UsesTable, Entering
<1>9. nChild' \in -2 .. CHILDREN /\ nChild' >= Takers(3)' - 2
  <2>1. /\ Takers(Level(c)) = Takers(3) /\ Takers(3)' = Takers(3) - 1
        /\ Takers(3) \in Int
    BY <1>1, <1>2, <1>4, <1>8, TakersMove
  <2>2. Takers(3)' >= 0 /\ Takers(3)' \in Int
    <3>1. \A n \in {0, 1}, m \in {0, 1}, k \in {0, 1} : n + m + k >= 0 /\ n + m + k \in Int
      OBVIOUS
    <3> QED BY <3>1 DEF Takers
  <2>3. /\ frame[c].loaded >= Takers(3) - 2
        /\ frame[c].loaded \in Int /\ frame[c].loaded <= CHILDREN
    BY <1>1, <2>1, Typed DEF CountBelow
  <2> QED BY <1>1, <2>1, <2>2, <2>3, Typed
<1>10. RestOK'
  <2>1. RestOK
    BY <1>1, TypeParts
  <2> QED BY <1>1, <1>2, <1>9, <2>1, Zenon DEF RestOK
<1>11. ASSUME Tidy
       PROVE  /\ \A d \in Contexts : d # c => ~UsesTable(d)
              /\ nChild' >= 0 /\ EntryTaken(c)' /\ EntriesSet' /\ AllListed'
              /\ c = "main" => EntryMade'
  <2>1. \A d \in Contexts : d # c => ~UsesTable(d)
    BY <1>1, <1>11, Alone DEF Tidy
  <2>2. /\ nChild' = nChild - 1
        /\ nChild > 0 /\ nChild \in Int
        /\ newest = 0 \/ process[newest] = "none"
    BY <1>1, <1>8, <1>11, Typed DEF Tidy, EntryTaken, Reaped
  <2>3. EntryTaken(c)'
    BY <1>8 DEF EntryTaken
  <2>4. \A i \in 0 .. nChild - 2 : children[i] # 0
    BY <1>11, <2>2 DEF Tidy, EntriesSet
  <2>5. EntriesSet'
    BY <1>1, <2>2, <2>4 DEF EntriesSet
  <2>6. \A p \in Listed : p = newest \/ p \in Listed'
    BY <1>1, <2>2 DEF Listed, newest
  <2>7. BeingEntered' = BeingEntered
    BY <1>1, <1>2, <1>5, <1>8 DEF q, BeingEntered, Contexts
  <2>8. AllListed'
    BY <1>1, <1>11, <2>2, <2>6, <2>7, Typed DEF Tidy, AllListed
  <2>9. c = "main" => EntryMade'
    BY <1>1, <1>2, <1>5 DEF q, EntryMade, Entering
  <2> QED BY <1>1, <2>1, <2>2, <2>3, <2>5, <2>8, <2>9
<1> QED BY <1>1, <1>2, <1>4, <1>6, <1>7, <1>8, <1>9, <1>10, <1>11, StepSafe

(* A new child is listed as the one that is about to be entered.           *)
LEMMA ForkSafe ==
  ASSUME Safe, NEW name \in {"start", "run", "bound"}, Fork(name)
  PROVE  Safe'
<1>1. PICK p \in Pids :
        /\ process[p] = "none"
        /\ process' = [process EXCEPT ![p] = "running"]
        /\ frame' = [frame EXCEPT !["main"] = Holding("enter", p)]
  BY DEF Fork
<1> DEFINE q == [pc |-> "enter", pid |-> p, loaded |-> 0]
<1>2. /\ TypeOK /\ CommandMatches /\ CountAbove /\ CountBelow
      /\ "main" \in Contexts /\ p # 0
      /\ Active = "main" /\ frame["main"].pc = "prompt" /\ shell = "running"
      /\ command' = name
      /\ UNCHANGED <<children, nChild, pending, handlers, presses, shell, torn>>
  BY Typed DEF Safe, Fork, Prompt, Executes, Returns, tableVars, signalVars
<1>3. frame' = [frame EXCEPT !["main"] = q]
  BY <1>1, Zenon DEF Holding
<1>4. q \in Frames
  BY <1>2, Typed DEF Frames, MainLabels
<1>5. Moved("main", q)
  BY <1>2, <1>3, <1>4 DEF Moved, MainLabels
<1>6. frame'["main"] = q /\ \A s \in Signals : frame'[s] = frame[s]
  BY <1>2, <1>5, Moves, Typed DEF Contexts
<1> HIDE DEF q
<1>7. CommandMatches' /\ CountAbove'
  BY <1>2, <1>6 DEF q, CommandMatches, CountAbove
<1>8. /\ ~Taking("main")' /\ Weight("main")' = 0
      /\ ~Taking("main") /\ Weight("main") = 0
      /\ q.pc = "enter" /\ q.pid = p
  BY <1>2, <1>6 DEF q, Weight, Taking, UsesTable
<1>9. nChild' >= Takers(3)' - 2
  BY <1>2, <1>5, <1>8, TakersMove, Typed DEF CountBelow
<1>10. /\ process' \in [Pids -> {"none", "running", "killed", "zombie"}]
       /\ \A r \in Pids : process'[r] # "none" => process[r] # "none" \/ r = p
  BY <1>1, <1>2 DEF TypeOK
<1>11. RestOK'
  <2>1. RestOK
    BY <1>2, TypeParts
  <2> QED BY <1>2, <1>10, <2>1 DEF RestOK
<1>12. ASSUME Tidy
       PROVE  /\ \A d \in Contexts : d # "main" => ~UsesTable(d)
              /\ nChild' >= 0 /\ EntryTaken("main")' /\ EntriesSet' /\ AllListed'
              /\ EntryMade'
  <2>1. \A d \in Contexts : d # "main" => ~UsesTable(d)
    BY <1>2, MainActive DEF Contexts
  <2>2. EntryTaken("main")' /\ EntriesSet'
    BY <1>2, <1>6, <1>8, <1>12 DEF Tidy, EntryTaken, EntriesSet
  <2>3. Listed' = Listed /\ BeingEntered = {} /\ BeingEntered' = {p}
    BY <1>2, <1>6, <1>8 DEF Listed, BeingEntered
  <2>4. AllListed'
    BY <1>10, <1>12, <2>3 DEF Tidy, AllListed
  <2>5. EntryMade'
    BY <1>2, <1>6, <1>8 DEF EntryMade, Entering
  <2> QED BY <1>2, <1>12, <2>1, <2>2, <2>4, <2>5 DEF Tidy
<1> QED BY <1>2, <1>5, <1>7, <1>8, <1>9, <1>11, <1>12, StepSafe

-----------------------------------------------------------------------------
(* The ends of the shell.                                                  *)
LEMMA EndSafe ==
  ASSUME Safe,
         UNCHANGED <<process, children, nChild, pending, handlers, presses, frame, torn>>,
         command' = command \/ (frame["main"].pc = "prompt" /\ command' \in {"none", "exit"}),
         shell' \in {"running", "exited", "quit", "killed", "undefined"},
         HarmlessUnlessTorn'
  PROVE  Safe'
<1>1. TypeOK'
  BY DEF Safe, TypeOK
<1>2. \A c \in Contexts : UsesTable(c)' <=> UsesTable(c)
  BY DEF UsesTable
<1>3. Entering' <=> Entering
  BY DEF Entering
<1>4. \A c \in Contexts : Taking(c)' <=> Taking(c)
  BY <1>2, <1>3 DEF Taking
<1>5. Active' = Active /\ \A c \in Contexts : Level(c)' = Level(c)
  BY NestKept
<1>6. CommandMatches'
  BY DEF Safe, CommandMatches
<1>7. CountBelow'
  <2>1. Takers(3)' = Takers(3) /\ \A c \in Contexts : Takers(Level(c))' = Takers(Level(c))
    BY <1>4, <1>5 DEF Takers, Contexts, Signals
  <2> QED BY <2>1 DEF Safe, CountBelow
<1>8. CountAbove'
  BY DEF Safe, CountAbove
<1>9. (~torn => Tidy)'
  <2> SUFFICES ASSUME Tidy PROVE Tidy'
    BY DEF Safe
  <2>1. OthersAtTest'
    BY <1>2, <1>5 DEF Tidy, OthersAtTest, Contexts
  <2>2. EntryMade' /\ EntriesSet'
    BY <1>3 DEF Tidy, EntryMade, EntriesSet
  <2>3. \A c \in Contexts : EntryTaken(c)'
    BY <1>4, <1>5 DEF Tidy, EntryTaken, Reaped, newest
  <2>4. Listed' = Listed /\ BeingEntered' = BeingEntered
    BY DEF Listed, BeingEntered
  <2> QED BY <2>1, <2>2, <2>3, <2>4 DEF Tidy
<1> QED BY <1>1, <1>6, <1>7, <1>8, <1>9, Zenon DEF Safe

(* exit, and the end of the input.                                         *)
LEMMA ExitCommandSafe ==
  ASSUME Safe, ExitCommand
  PROVE  Safe'
BY EndSafe DEF ExitCommand, Prompt, Executes, Returns, tableVars, signalVars,
               HarmlessUnlessTorn

(* quit has found no child.                                                *)
LEMMA NoChildSafe ==
  ASSUME Safe, NoChild
  PROVE  Safe'
BY EndSafe DEF NoChild, tableVars, signalVars, HarmlessUnlessTorn

\* while nobody else uses the table, the newest entry is a process number
LEMMA NewestSet ==
  ASSUME TypeOK, Tidy, NEW c \in Contexts, Active = c, frame[c].pc = "kill", Taking(c)
  PROVE  newest # 0
<1>1. \A s \in Signals : frame[s].pc \notin {"load", "count"}
  BY Alone DEF Tidy, UsesTable, Contexts
<1>2. nChild > 0 /\ nChild \in Int
  BY Typed DEF Tidy, EntryTaken
<1> QED BY <1>1, <1>2 DEF Tidy, EntriesSet, newest

(* kill(0, SIGKILL).                                                       *)
LEMMA KillGroupSafe ==
  ASSUME Safe, NEW c \in Contexts, KillGroup(c)
  PROVE  Safe'
<1>1. /\ TypeOK /\ CommandMatches
      /\ Active = c /\ frame[c].pc = "kill" /\ frame[c].pid = 0
      /\ shell' = "killed"
      /\ UNCHANGED <<process, children, nChild, pending, handlers, presses, frame,
                     command, torn>>
  BY DEF Safe, KillGroup, Executes, Returns, tableVars, signalVars
<1>2. HarmlessUnlessTorn'
  <2> SUFFICES ASSUME ~torn, command # "kill"
               PROVE  FALSE
    BY <1>1 DEF HarmlessUnlessTorn
  <2>1. Tidy
    BY DEF Safe
  <2>2. CASE Taking(c)
    BY <1>1, <2>1, <2>2, NewestSet DEF Tidy, EntryTaken
  <2>3. CASE ~Taking(c)
    <3>1. c = "main" /\ command = "bound"
      BY <1>1, <2>3 DEF Taking, UsesTable, Entering, CommandMatches
    <3> QED BY <1>1, <2>1, <3>1 DEF Tidy, EntryMade
  <2> QED BY <2>2, <2>3
<1> QED BY <1>1, <1>2, EndSafe

(* An index outside children.                                              *)
LEMMA OutOfTableSafe ==
  ASSUME Safe, NEW c \in Contexts, OutOfTable(c)
  PROVE  Safe'
<1>1. /\ TypeOK /\ CommandMatches
      /\ Active = c /\ frame[c].pc \in {"store", "pick", "clear"}
      /\ frame[c].loaded \notin 0 .. CHILDREN - 1
      /\ shell' = "undefined"
      /\ UNCHANGED <<process, children, nChild, pending, handlers, presses, frame,
                     command, torn>>
  BY Typed DEF Safe, OutOfTable, Executes, Returns, tableVars, signalVars
<1>2. HarmlessUnlessTorn'
  <2> SUFFICES ASSUME ~torn
               PROVE  nChild = CHILDREN
    BY <1>1 DEF HarmlessUnlessTorn
  <2>1. Tidy
    BY DEF Safe
  <2>2. nChild \in Int /\ nChild >= 0 /\ nChild <= CHILDREN /\ CHILDREN \in Nat
    BY <1>1, <2>1, Typed DEF Tidy
  <2>3. CASE c = "main" /\ frame[c].pc = "store"
    BY <1>1, <2>1, <2>2, <2>3 DEF Tidy, EntryMade
  <2>4. CASE frame[c].pc \in {"pick", "clear"}
    <3>1. Taking(c)
      BY <2>4 DEF Taking, UsesTable, Entering
    <3> QED BY <1>1, <2>1, <2>2, <2>4, <3>1 DEF Tidy, EntryTaken
  <2>5. frame[c].pc = "store" => c = "main"
    BY <1>1, Typed DEF HandlerLabels, Contexts
  <2> QED BY <1>1, <2>3, <2>4, <2>5
<1> QED BY <1>1, <1>2, EndSafe

-----------------------------------------------------------------------------
(* The end and the beginning of a handler.                                 *)
LEMMA ReturnSafe ==
  ASSUME Safe, NEW c \in Contexts, Return(c)
  PROVE  Safe'
<1> DEFINE q == [pc |-> "inactive", pid |-> 0, loaded |-> 0]
<1>1. /\ TypeOK /\ CommandMatches /\ CountAbove /\ CountBelow
      /\ c \in Signals /\ c # "main"
      /\ Active = c /\ shell = "running"
      /\ \/ frame[c].pc = "return"
         \/ frame[c].pc = "test" /\ nChild <= 0
      /\ handlers' = SubSeq(handlers, 1, Len(handlers) - 1)
      /\ UNCHANGED <<process, children, nChild, pending, presses, command, shell, torn>>
  BY Typed DEF Safe, Return, Executes, Returns, tableVars
<1>2. frame' = [frame EXCEPT ![c] = q]
  BY Zenon DEF Return, At, Holding
<1>3. q \in Frames
  BY Typed, <1>1 DEF Frames, HandlerLabels
<1>4. NestOK /\ Framed /\ RestOK
  BY <1>1, TypeParts
<1>5. /\ frame' \in [Contexts -> Frames]
      /\ frame'[c] = q
      /\ \A d \in Contexts : d # c => frame'[d] = frame[d]
      /\ frame'["main"] = frame["main"]
  BY <1>1, <1>2, <1>3, <1>4, Typed DEF Framed
<1> HIDE DEF q
<1>6. /\ NestOK'
      /\ Level(c)' = 3
      /\ \A d \in Contexts \ {c} : Level(d)' = Level(d)
      /\ \A t \in Signals : Nested(t)' <=> t # c /\ frame[t].pc # "inactive"
  BY <1>1, NestShrinks
<1>7. TypeOK'
  <2>1. q.pc = "inactive" /\ "inactive" \in HandlerLabels
    BY DEF q, HandlerLabels
  <2>2. ASSUME NEW t \in Signals
        PROVE  frame'[t].pc \in HandlerLabels /\ (frame'[t].pc # "inactive" <=> Nested(t)')
    <3>1. CASE t = c
      BY <1>5, <1>6, <2>1, <3>1
    <3>2. CASE t # c
      <4>1. frame'[t] = frame[t]
        BY <1>5, <3>2 DEF Contexts
      <4> QED BY <1>4, <1>6, <3>2, <4>1 DEF Framed
    <3> QED BY <3>1, <3>2
  <2>3. Framed'
    BY <1>4, <1>5, <2>2, Zenon DEF Framed
  <2>4. RestOK'
    BY <1>1, <1>4, Zenon DEF RestOK
  <2> QED BY <1>6, <2>3, <2>4, TypePartsNext
<1>8. CommandMatches' /\ CountAbove'
  <2>1. ASSUME NEW s \in Signals, frame'[s].pc = "count"
        PROVE  frame'[s] = frame[s]
    <3>1. frame'[c].pc # "count"
      BY <1>5 DEF q
    <3> QED BY <1>5, <2>1, <3>1 DEF Contexts
  <2> QED BY <1>1, <1>5, <2>1 DEF CommandMatches, CountAbove
<1>9. /\ ~UsesTable(c) /\ ~UsesTable(c)'
      /\ \A d \in Contexts : UsesTable(d)' <=> UsesTable(d)
  BY <1>1, <1>5 DEF q, UsesTable
<1>10. \A d \in Contexts : Taking(d)' <=> Taking(d)
  BY <1>1, <1>5, <1>9 DEF Taking, Entering
<1>11. CountBelow'
  <2>1. Takers(3)' = Takers(3)
    BY <1>1, <1>6, <1>9, <1>10, Nest DEF Takers, Contexts, Signals, Taking
  <2>2. ASSUME NEW d \in Contexts, d # c
        PROVE  Takers(Level(d))' = Takers(Level(d))
    BY <1>1, <1>6, <1>9, <1>10, <2>2, Nest DEF Takers, Contexts, Signals, Taking
  <2>3. ASSUME NEW d \in Contexts, frame'[d].pc = "count"
        PROVE  frame'[d] = frame[d] /\ d # c
    BY <1>5, <2>3 DEF q
  <2> QED BY <1>1, <2>1, <2>2, <2>3 DEF CountBelow
<1>12. (~torn => Tidy)'
  <2> SUFFICES ASSUME Tidy PROVE Tidy'
    BY <1>1 DEF Safe
  <2>1. OthersAtTest'
    <3> SUFFICES ASSUME NEW d \in Contexts, NEW s \in Signals,
                        UsesTable(d)', Level(d)' < Level(s)', Level(s)' < 3
                 PROVE  frame'[s].pc = "test"
      BY DEF OthersAtTest
    <3>1. d # c /\ s # c /\ s \in Contexts
      BY <1>6, <1>9 DEF Contexts
    <3> QED BY <1>5, <1>6, <1>9, <3>1 DEF Tidy, OthersAtTest
  <2>2. EntryMade'
    BY <1>1, <1>5 DEF Tidy, EntryMade, Entering
  <2>3. ASSUME NEW d \in Contexts
        PROVE  EntryTaken(d)'
    <3> SUFFICES ASSUME Taking(d) PROVE FALSE
      BY <1>10 DEF EntryTaken
    <3>1. d # c /\ UsesTable(d) /\ nChild > 0
      BY <1>9 DEF Taking, Tidy, EntryTaken
    <3>2. frame[c].pc = "return"
      BY <1>1, <3>1, Typed
    <3> QED BY <1>1, <3>1, <3>2, Alone DEF Tidy
  <2>4. EntriesSet'
    <3>1. \A s \in Signals : frame[s].pc \in {"load", "count"} => frame'[s] = frame[s]
      BY <1>1, <1>5 DEF Contexts
    <3> QED BY <1>1, <3>1 DEF Tidy, EntriesSet
  <2>5. Listed' = Listed /\ BeingEntered' = BeingEntered
    BY <1>1, <1>5 DEF Listed, BeingEntered
  <2> QED BY <1>1, <2>1, <2>2, <2>3, <2>4, <2>5 DEF Tidy
<1>13. HarmlessUnlessTorn'
  BY <1>1 DEF HarmlessUnlessTorn
<1> QED BY <1>7, <1>8, <1>11, <1>12, <1>13, Zenon DEF Safe

(* A call that waits and is interrupted goes on as if it had ended.        *)
LEMMA ResumptionSafe ==
  ASSUME TypeOK, CommandMatches, NEW label \in Resumptions(frame[Active])
  PROVE  \/ label = frame[Active].pc
         \/ Active \in Signals /\ frame[Active].pc = "wait" /\ label = "find"
         \/ /\ Active = "main"
            /\ \/ frame["main"].pc = "wait" /\ command = "quit" /\ label = "load"
               \/ frame["main"].pc = "wait" /\ command # "quit" /\ label = "prompt"
               \/ frame["main"].pc = "waitAny" /\ label = "prompt"
               \/ frame["main"].pc = "sleep" /\ label \in {"prompt", "kill"}
<1>1. Active \in Contexts
  BY Nest
<1>2. \/ label = frame[Active].pc
      \/ frame[Active].pc = "wait" /\ label = AfterWait(Active)
      \/ frame[Active].pc = "waitAny" /\ label = "prompt"
      \/ frame[Active].pc = "sleep" /\ label \in {"prompt", "kill"}
  BY Zenon DEF Resumptions
<1>3. Active \in Signals => frame[Active].pc \notin {"waitAny", "sleep"}
  BY Typed DEF HandlerLabels
<1> QED BY <1>1, <1>2, <1>3 DEF AfterWait, Contexts, Signals

(* A handler begins, and interrupts what is executed.                      *)
LEMMA DeliverSafe ==
  ASSUME Safe, NEW s \in Signals, Deliver(s)
  PROVE  Safe'
<1> DEFINE a == Active
           r == [pc |-> "test", pid |-> 0, loaded |-> 0]
<1>1. /\ TypeOK /\ CommandMatches /\ CountAbove /\ CountBelow
      /\ frame[s].pc = "inactive"
      /\ shell = "running" /\ shell' = shell
      /\ pending' \subseteq pending
      /\ handlers' = Append(handlers, s)
      /\ UNCHANGED <<process, children, nChild, presses, torn>>
  BY DEF Safe, Deliver, Deliverable, tableVars
<1>2. NestOK /\ Framed /\ RestOK
  BY <1>1, TypeParts
<1>3. a \in Contexts /\ s \in Contexts /\ s # a /\ s # "main"
  BY <1>1, Nest, Typed DEF Contexts
<1>4. PICK label \in Resumptions(frame[a]) :
        /\ frame' = [frame EXCEPT ![a] = IF label = @.pc THEN @ ELSE Standing(a, label),
                                  ![s] = r]
        /\ command' = IF label = "prompt" THEN "none" ELSE command
  BY Zenon DEF Deliver, At, Holding
<1> DEFINE q == IF label = frame[a].pc THEN frame[a] ELSE Standing(a, label)
<1>5. /\ frame' = [frame EXCEPT ![a] = q, ![s] = r]
      /\ DOMAIN frame = Contexts
  BY <1>1, <1>4, Typed
<1>6. \/ label = frame[a].pc
      \/ a \in Signals /\ frame[a].pc = "wait" /\ label = "find"
      \/ /\ a = "main"
         /\ \/ frame["main"].pc = "wait" /\ command = "quit" /\ label = "load"
            \/ frame["main"].pc = "wait" /\ command # "quit" /\ label = "prompt"
            \/ frame["main"].pc = "waitAny" /\ label = "prompt"
            \/ frame["main"].pc = "sleep" /\ label \in {"prompt", "kill"}
  BY <1>1, <1>4, ResumptionSafe
<1>7. /\ q.pc = label
      /\ label = frame[a].pc => q = frame[a]
      /\ label = "kill" => q.pid = frame[a].pid
  BY DEF Standing, At, Holding
<1>8. q \in Frames /\ r \in Frames
  <2>1. frame[a] \in Frames /\ frame[a].pid \in Pids \cup {0} /\ 0 \in -3 .. CHILDREN
    BY <1>1, <1>3, Typed DEF Frames
  <2>2. label \in MainLabels \cup HandlerLabels
    BY <1>1, <1>3, <1>6, Typed DEF MainLabels, HandlerLabels, Frames
  <2>3. Standing(a, label) \in Frames
    BY <2>1, <2>2 DEF Standing, At, Holding, Frames
  <2>4. r \in Frames
    BY <2>1 DEF Frames, HandlerLabels
  <2> QED BY <2>1, <2>3, <2>4
<1> HIDE DEF q, r, a
<1>9. /\ frame' \in [Contexts -> Frames]
      /\ frame'[a] = q /\ frame'[s] = r
      /\ \A d \in Contexts : d # a /\ d # s => frame'[d] = frame[d]
  BY <1>2, <1>3, <1>5, <1>8 DEF Framed
<1>10. frame'[s].pc = "test"
  BY <1>9 DEF r
<1>11. \A t \in Signals : t # s =>
         frame'[t] = frame[t] \/ (t = a /\ frame[t].pc = "wait" /\ frame'[t].pc = "find")
  BY <1>3, <1>6, <1>7, <1>9 DEF Contexts, Signals
<1>12. \/ /\ frame'["main"] = frame["main"]
          /\ command' = command \/ (frame["main"].pc = "prompt" /\ command' = "none")
       \/ /\ frame["main"].pc = "wait" /\ command = "quit" /\ command' = command
          /\ frame'["main"].pc = "load"
       \/ /\ frame["main"].pc \in {"wait", "waitAny", "sleep"}
          /\ frame["main"].pc = "wait" => command # "quit"
          /\ frame'["main"].pc = "prompt" /\ command' = "none"
       \/ /\ frame["main"].pc = "sleep" /\ command' = command
          /\ frame'["main"].pc = "kill" /\ frame'["main"].pid = frame["main"].pid
  <2>1. CASE a = "main"
    BY <1>3, <1>4, <1>6, <1>7, <1>9, <2>1, Typed, <1>1
  <2>2. CASE a # "main"
    <3>1. a \in Signals /\ frame[a].pc # "prompt"
      BY <1>1, <1>3, <2>2, Typed DEF Contexts, HandlerLabels
    <3>2. label # "prompt"
      BY <1>6, <2>2, <3>1
    <3> QED BY <1>3, <1>4, <1>9, <2>2, <3>2 DEF Contexts
  <2> QED BY <2>1, <2>2
<1>13. /\ NestOK' /\ Active' = s
       /\ Level(a) < Level(s)' /\ Level(s)' < 3
       /\ \A c \in Contexts \ {s} : Level(c)' = Level(c)
       /\ \A t \in Signals : Nested(t)' <=> t = s \/ frame[t].pc # "inactive"
  BY <1>1, NestGrows DEF a
<1>14. TypeOK'
  <2>1. ASSUME NEW t \in Signals
        PROVE  frame'[t].pc \in HandlerLabels /\ (frame'[t].pc # "inactive" <=> Nested(t)')
    <3>1. CASE t = s
      BY <1>10, <1>13, <3>1 DEF HandlerLabels
    <3>2. CASE t # s
      <4>1. \/ frame'[t] = frame[t]
            \/ frame[t].pc = "wait" /\ frame'[t].pc = "find"
        BY <1>11, <3>2
      <4>2. frame[t].pc \in HandlerLabels /\ (Nested(t)' <=> frame[t].pc # "inactive")
        BY <1>2, <1>13, <3>2, Zenon DEF Framed
      <4> QED BY <4>1, <4>2 DEF HandlerLabels
    <3> QED BY <3>1, <3>2
  <2>2. frame'["main"].pc \in MainLabels
    BY <1>1, <1>12, Typed DEF MainLabels
  <2>3. Framed'
    BY <1>9, <2>1, <2>2, Zenon DEF Framed
  <2>4. command' \in {command, "none"}
    BY <1>4
  <2>5. RestOK'
    BY <1>1, <1>2, <2>4 DEF RestOK
  <2> QED BY <1>13, <2>3, <2>5, TypePartsNext
<1>15. CommandMatches'
  BY <1>1, <1>12 DEF CommandMatches
<1>16. ~UsesTable(s) /\ ~UsesTable(s)' /\ (Entering' <=> Entering)
       /\ \A d \in Contexts : UsesTable(d)' <=> UsesTable(d)
  <2>1. ~UsesTable(s) /\ ~UsesTable(s)'
    BY <1>1, <1>10 DEF UsesTable
  <2>2. \A t \in Signals : t # s => (UsesTable(t)' <=> UsesTable(t))
    BY <1>1, <1>11, Typed DEF UsesTable
  <2>3. UsesTable("main")' <=> UsesTable("main")
    BY <1>1, <1>12 DEF UsesTable, CommandMatches
  <2>4. Entering' <=> Entering
    BY <1>1, <1>12 DEF Entering, CommandMatches
  <2> QED BY <2>1, <2>2, <2>3, <2>4 DEF Contexts
<1>17. ~Taking(s) /\ ~Taking(s)' /\ \A d \in Contexts : Taking(d)' <=> Taking(d)
  BY <1>16 DEF Taking
<1>18. \A d \in Contexts : frame'[d].pc = "count" => frame'[d] = frame[d] /\ d # s
  BY <1>10, <1>11, <1>12 DEF Contexts
<1>19. CountBelow'
  <2>1. Takers(3)' = Takers(3)
    BY <1>1, <1>13, <1>17, Nest, <1>14 DEF Takers, Contexts, Signals
  <2>2. \A d \in Contexts : d # s => Takers(Level(d))' = Takers(Level(d))
    BY <1>1, <1>13, <1>17 DEF Takers, Contexts, Signals
  <2> QED BY <1>1, <1>18, <2>1, <2>2 DEF CountBelow
<1>20. CountAbove'
  BY <1>1, <1>12, <1>18 DEF CountAbove, Contexts
<1>21. (~torn => Tidy)'
  <2> SUFFICES ASSUME Tidy PROVE Tidy'
    BY <1>1 DEF Safe
  <2>1. OthersAtTest'
    <3> SUFFICES ASSUME NEW d \in Contexts, NEW t \in Signals, t # s,
                        UsesTable(d)', Level(d)' < Level(t)', Level(t)' < 3
                 PROVE  frame'[t].pc = "test"
      BY <1>10 DEF OthersAtTest
    <3>1. d # s /\ t \in Contexts
      BY <1>16 DEF Contexts
    <3>2. UsesTable(d) /\ Level(d) < Level(t) /\ Level(t) < 3
      BY <1>13, <1>16, <3>1
    <3>3. frame[t].pc = "test"
      BY <3>2 DEF Tidy, OthersAtTest
    <3> QED BY <1>11, <3>3
  <2>2. EntryMade'
    BY <1>1, <1>12, <1>16 DEF Tidy, EntryMade, Entering
  <2>3. ASSUME NEW d \in Contexts
        PROVE  EntryTaken(d)'
    <3> SUFFICES ASSUME Taking(d), d # s PROVE EntryTaken(d)'
      BY <1>17 DEF EntryTaken
    <3>1. ~(Active' = d)
      BY <1>13
    <3>2. newest' = newest
      BY <1>1 DEF newest
    <3>3. \/ frame'[d] = frame[d]
          \/ frame'[d].pc = "find"
          \/ d = "main" /\ frame'[d].pc = "load"
          \/ /\ d = "main" /\ frame[d].pc \in {"wait", "waitAny", "sleep"}
             /\ frame[d].pc = "wait" => command # "quit"
      BY <1>11, <1>12 DEF Contexts
    <3>4. CASE frame'[d] = frame[d]
      BY <1>1, <3>1, <3>2, <3>4 DEF Tidy, EntryTaken, Reaped
    <3>5. CASE frame'[d].pc = "find" \/ (d = "main" /\ frame'[d].pc = "load")
      BY <1>1, <3>1, <3>5 DEF Tidy, EntryTaken, Reaped
    <3>6. CASE d = "main" /\ frame[d].pc \in {"wait", "waitAny", "sleep"}
               /\ (frame[d].pc = "wait" => command # "quit")
      BY <3>6 DEF Taking, UsesTable
    <3> QED BY <3>3, <3>4, <3>5, <3>6
  <2>4. EntriesSet'
    <3>1. \A t \in Signals : frame[t].pc \in {"load", "count"} => frame'[t] = frame[t]
      BY <1>1, <1>11
    <3> QED BY <1>1, <3>1 DEF Tidy, EntriesSet
  <2>5. Listed' = Listed /\ BeingEntered' = BeingEntered
    BY <1>1, <1>12 DEF Listed, BeingEntered
  <2> QED BY <1>1, <2>1, <2>2, <2>3, <2>4, <2>5 DEF Tidy
<1>22. HarmlessUnlessTorn'
  BY <1>1 DEF HarmlessUnlessTorn
<1> QED BY <1>14, <1>15, <1>19, <1>20, <1>21, <1>22, Zenon DEF Safe

-----------------------------------------------------------------------------
(* The children, the user, and the theorems *)

(* Outside the shell no process comes to be and none is reaped.            *)
LEMMA OutsideSafe ==
  ASSUME Safe, shell = "running",
         process' \in [Pids -> {"none", "running", "killed", "zombie"}],
         \A p \in Pids : process'[p] = "none" <=> process[p] = "none",
         pending' \subseteq Signals, presses' \in 0 .. MaxPresses,
         UNCHANGED <<children, nChild, handlers, frame, command, shell, torn>>
  PROVE  Safe'
<1>1. TypeOK'
  BY DEF Safe, TypeOK
<1>2. Active' = Active /\ \A c \in Contexts : Level(c)' = Level(c)
  BY NestKept
<1>3. \A c \in Contexts : (UsesTable(c)' <=> UsesTable(c)) /\ (Taking(c)' <=> Taking(c))
  BY DEF Taking, UsesTable, Entering
<1>4. CommandMatches' /\ CountAbove' /\ HarmlessUnlessTorn'
  BY DEF Safe, CommandMatches, CountAbove, HarmlessUnlessTorn
<1>5. CountBelow'
  <2>1. Takers(3)' = Takers(3) /\ \A c \in Contexts : Takers(Level(c))' = Takers(Level(c))
    BY <1>2, <1>3 DEF Takers, Contexts, Signals
  <2> QED BY <2>1 DEF Safe, CountBelow
<1>6. (~torn => Tidy)'
  <2> SUFFICES ASSUME Tidy PROVE Tidy'
    BY DEF Safe
  <2>1. OthersAtTest'
    BY <1>2, <1>3 DEF Tidy, OthersAtTest, Contexts
  <2>2. EntryMade' /\ EntriesSet'
    BY DEF Tidy, EntryMade, EntriesSet, Entering
  <2>3. ASSUME NEW c \in Contexts
        PROVE  EntryTaken(c)'
    <3> SUFFICES ASSUME Taking(c) PROVE EntryTaken(c)'
      BY <1>3 DEF EntryTaken
    <3>1. newest' = newest /\ newest \in Pids \cup {0}
      BY Typed DEF Safe, Tidy, EntryTaken, newest
    <3>2. Reaped(c) => Reaped(c)'
      BY <1>2, <3>1 DEF Reaped
    <3> QED BY <3>1, <3>2 DEF Tidy, EntryTaken
  <2>4. {p \in Pids : process'[p] # "none"} = {p \in Pids : process[p] # "none"}
    OBVIOUS
  <2>5. Listed' = Listed /\ BeingEntered' = BeingEntered
    BY DEF Listed, BeingEntered
  <2> QED BY <2>1, <2>2, <2>3, <2>4, <2>5 DEF Tidy
<1> QED BY <1>1, <1>4, <1>5, <1>6, Zenon DEF Safe

(* A child ends.                                                           *)
LEMMA ChildEndsSafe ==
  ASSUME Safe, NEW p \in Pids, ChildEnds(p)
  PROVE  Safe'
<1>1. /\ process \in [Pids -> {"none", "running", "killed", "zombie"}]
      /\ pending \subseteq Signals /\ presses \in 0 .. MaxPresses
  BY DEF Safe, TypeOK
<1> QED BY <1>1, OutsideSafe DEF ChildEnds, tableVars, Signals

(* The user presses ^C.                                                    *)
LEMMA ControlCSafe ==
  ASSUME Safe, ControlC
  PROVE  Safe'
<1>1. /\ process \in [Pids -> {"none", "running", "killed", "zombie"}]
      /\ pending \subseteq Signals /\ presses \in 0 .. MaxPresses
      /\ MaxPresses \in Nat
  BY NdshellAssumption DEF Safe, TypeOK
<1> QED BY <1>1, OutsideSafe DEF ControlC, tableVars, Signals

(* The shell starts with an empty table.                                   *)
LEMMA InitSafe ==
  ASSUME Init
  PROVE  Safe
<1>1. \A c \in Contexts :
        frame[c] = [pc |-> IF c = "main" THEN "prompt" ELSE "inactive",
                    pid |-> 0, loaded |-> 0]
  BY DEF Init, At, Holding
<1>2. handlers = <<>> /\ Len(handlers) = 0 /\ nChild = 0 /\ command = "none"
  BY DEF Init
<1>3. frame["main"].pc = "prompt" /\ \A s \in Signals : frame[s].pc = "inactive"
  BY <1>1 DEF Contexts, Signals
<1>4. TypeOK
  <2>1. frame \in [Contexts -> Frames]
    <3>1. /\ 0 \in -3 .. CHILDREN /\ 0 \in Pids \cup {0}
          /\ "prompt" \in MainLabels /\ "inactive" \in HandlerLabels
      BY NdshellAssumption DEF MainLabels, HandlerLabels
    <3> DEFINE first(label) == [pc |-> label, pid |-> 0, loaded |-> 0]
    <3>2. first("prompt") \in Frames /\ first("inactive") \in Frames
      BY <3>1 DEF Frames
    <3>3. \A c \in Contexts : frame[c] \in {first("prompt"), first("inactive")}
      BY <1>1
    <3> QED BY <3>2, <3>3 DEF Init
  <2>2. \A s \in Signals : ~Nested(s)
    BY <1>2 DEF Nested
  <2>3. Framed
    BY <1>3, <2>1, <2>2 DEF Framed, MainLabels, HandlerLabels
  <2>4. RestOK
    <3>1. 0 \in -2 .. CHILDREN /\ 0 \in 0 .. MaxPresses
      BY NdshellAssumption
    <3>2. process \in [Pids -> {"none", "running", "killed", "zombie"}]
      BY DEF Init
    <3>3. children \in [0 .. CHILDREN - 1 -> Pids \cup {0}]
      BY DEF Init
    <3> QED BY <3>1, <3>2, <3>3 DEF Init, RestOK
  <2>5. NestOK
    BY <1>2 DEF NestOK
  <2> QED BY <2>3, <2>4, <2>5, TypeParts
<1>5. CommandMatches
  BY <1>2, <1>3 DEF CommandMatches
<1>6. \A c \in Contexts : ~UsesTable(c) /\ frame[c].pc \notin {"count", "load"}
  BY <1>3 DEF UsesTable, Contexts
<1>7. \A c \in Contexts : ~Taking(c)
  BY <1>6 DEF Taking
<1>8. CountBelow
  <2>1. Takers(3) = 0
    BY <1>7 DEF Takers, Contexts, Signals
  <2> QED BY <1>2, <1>6, <2>1 DEF CountBelow
<1>9. CountAbove
  BY <1>3 DEF CountAbove
<1>10. Tidy
  <2>1. EntryMade
    BY <1>3 DEF EntryMade, Entering
  <2>2. {p \in Pids : process[p] # "none"} = {}
    BY DEF Init
  <2> QED BY <1>2, <1>6, <1>7, <2>1, <2>2 DEF Tidy, OthersAtTest, EntryTaken, EntriesSet
<1>11. HarmlessUnlessTorn
  BY DEF Init, HarmlessUnlessTorn
<1> QED BY <1>4, <1>5, <1>8, <1>9, <1>10, <1>11, Zenon DEF Safe

(* A step that changes nothing.                                            *)
LEMMA StutterSafe ==
  ASSUME Safe, UNCHANGED vars
  PROVE  Safe'
BY EndSafe DEF vars, tableVars, signalVars, Safe, TypeOK, HarmlessUnlessTorn

(* Every step keeps the invariant.                                         *)
LEMMA NextSafe ==
  ASSUME Safe, [Next]_vars
  PROVE  Safe'
<1>1. CASE UserCommand
  <2>1. CASE \E name \in {"start", "run", "bound"} : Fork(name)
    BY <2>1, ForkSafe
  <2>2. CASE WaitCommand
    <3>1. frame' = [frame EXCEPT !["main"] = Holding("waitAny", 0)]
      BY <2>2 DEF WaitCommand, At
    <3> QED BY <2>2, <3>1, PromptSafe DEF WaitCommand
  <2>3. CASE QuitCommand
    <3>1. frame' = [frame EXCEPT !["main"] = Holding("test", 0)]
      BY <2>3 DEF QuitCommand, At
    <3> QED BY <2>3, <3>1, PromptSafe DEF QuitCommand
  <2>4. CASE \E p \in Pids \cup {0} : WaitforCommand(p)
    BY <2>4, PromptSafe DEF WaitforCommand
  <2>5. CASE \E p \in Pids \cup {0} : KillCommand(p)
    BY <2>5, PromptSafe DEF KillCommand
  <2>6. CASE ExitCommand
    BY <2>6, ExitCommandSafe
  <2> QED BY <1>1, <2>1, <2>2, <2>3, <2>4, <2>5, <2>6, Zenon DEF UserCommand
<1>2. CASE MainStep
  BY <1>2, EnterChildSafe, StoreChildSafe, CountChildSafe, TimeLimitOverSafe, WaitAnySafe,
     NoChildSafe, Zenon DEF MainStep
<1>3. ASSUME NEW c \in Contexts, ContextStep(c)
      PROVE  Safe'
  BY <1>3, LoadCountSafe, KillGroupSafe, KillFailsSafe, KillSafe, WaitPidSafe,
     SomeChildSafe, LookUpSafe, PickNewestSafe, FindEntrySafe, ClearEntrySafe,
     DiscountChildSafe, ReturnSafe, OutOfTableSafe, Zenon DEF ContextStep
<1>4. CASE \E s \in Signals : Deliver(s)
  BY <1>4, DeliverSafe
<1>5. CASE (\E p \in Pids : ChildEnds(p)) \/ ControlC
  BY <1>5, ChildEndsSafe, ControlCSafe
<1>6. CASE UNCHANGED vars
  BY <1>6, StutterSafe
<1> QED BY <1>1, <1>2, <1>3, <1>4, <1>5, <1>6, Zenon DEF Next, ShellStep

(* For every set of process numbers and every length of children, the      *)
(* bounds that TypeOK states, which parts of the table are in whose hands, *)
(* and, while no handler has run into a use of the table, that the table   *)
(* is what the code takes it for.                                          *)
THEOREM SpecSafe == Spec => []Safe
<1>1. Init => Safe
  BY InitSafe
<1>2. Safe /\ [Next]_vars => Safe'
  BY NextSafe
<1> QED BY <1>1, <1>2, PTL DEF Spec

(* Two handlers at most, one per signal, and nChild and every register     *)
(* that holds it stay within -2 and the length of children, whoever        *)
(* interrupts whom.                                                        *)
THEOREM SpecTypeOK == Spec => []TypeOK
<1>1. Safe => TypeOK
  BY DEF Safe
<1> QED BY <1>1, SpecSafe, PTL

(* Every child that has not been waited for is in the table or about to be *)
(* entered, as long as no handler has run into a use of the table.         *)
THEOREM SpecChildrenListed == Spec => []ChildrenListed
<1>1. Safe => ChildrenListed
  BY DEF Safe, Tidy, ChildrenListed
<1> QED BY <1>1, SpecSafe, PTL

(* As long as no handler has run into a use of the table, ndshell kills    *)
(* its own process group only on the user's word and goes past the end of  *)
(* children only when the table is full.                                   *)
THEOREM SpecHarmlessUnlessTorn == Spec => []HarmlessUnlessTorn
<1>1. Safe => HarmlessUnlessTorn
  BY DEF Safe
<1> QED BY <1>1, SpecSafe, PTL

=============================================================================
