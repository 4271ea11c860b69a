------------------------------- MODULE Handoff -------------------------------
(***************************************************************************)
(* What the producers and consumers of redextract and pcm4 promise: every  *)
(* item a producer finds goes through the shared buffer to one consumer,   *)
(* once, and the program reports its totals when all of them are used.     *)
(***************************************************************************)
CONSTANT Items

VARIABLES
  place,    \* where each item is
  reported  \* the main thread has gone on to the totals

handoffVars == <<place, reported>>

Init == place = [i \in Items |-> "source"] /\ reported = FALSE

Move(i, from, to) ==
  /\ place[i] = from
  /\ place' = [place EXCEPT ![i] = to]
  /\ UNCHANGED reported

Put(i) == Move(i, "source", "buffer")
Take(i) == Move(i, "buffer", "taken")
Use(i) == Move(i, "taken", "used")

Report ==
  /\ \A i \in Items : place[i] = "used"
  /\ reported' = TRUE
  /\ UNCHANGED place

Next == (\E i \in Items : Put(i) \/ Take(i) \/ Use(i)) \/ Report

Flow == Init /\ [][Next]_handoffVars
=============================================================================
