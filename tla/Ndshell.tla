------------------------------- MODULE Ndshell -------------------------------
(***************************************************************************)
(* ndshell (Project02/ndshell.c): a shell that keeps the processes it has  *)
(* started in the table children, and one handler, controlCHandler, for    *)
(* SIGINT and SIGCHLD, which kills the newest of them and takes it off the *)
(* table.                                                                  *)
(*                                                                         *)
(* The handler can interrupt the shell anywhere, and the handler of one    *)
(* signal that of the other.  A step therefore reads or writes nChild or   *)
(* an entry of children once, or is one system call.  An index outside     *)
(* children, and a SIGKILL to its own process group, end the model.        *)
(***************************************************************************)
EXTENDS Integers, Sequences, FiniteSets

CONSTANTS
  Pids,      \* the process numbers the system hands out, and hands out again
  CHILDREN,  \* the length of children
  MaxPresses \* how often the user presses ^C

ASSUME NdshellAssumption ==
  /\ Pids \subseteq Nat \ {0}
  /\ CHILDREN \in Nat \ {0}
  /\ MaxPresses \in Nat

-----------------------------------------------------------------------------
Signals == {"SIGCHLD", "SIGINT"}
Contexts == {"main"} \cup Signals

VARIABLES
  process,   \* of each number: none, running, killed (and not dead yet), zombie
  children, nChild,
  pending,   \* the signals that have been sent and not handled
  handlers,  \* the handlers that have begun and not returned, innermost last
  frame,     \* where main and each handler stand, with their local variables
  presses,   \* how often ^C was pressed
  command,   \* the command main is at
  shell,     \* running; exited, quit, killed; or undefined
  torn       \* history: a handler used the table under code that was using it

tableVars == <<children, nChild>>
signalVars == <<pending, handlers, presses>>
vars == <<process, tableVars, signalVars, frame, command, shell, torn>>

\* loaded is the register that holds nChild or an index made from it
Holding(label, p) == [pc |-> label, pid |-> p, loaded |-> 0]
At(label) == Holding(label, 0)

Init ==
  /\ process = [p \in Pids |-> "none"]
  /\ children = [i \in 0 .. CHILDREN - 1 |-> 0]
  /\ nChild = 0
  /\ pending = {}
  /\ handlers = <<>>
  /\ presses = 0
  /\ frame = [c \in Contexts |-> At(IF c = "main" THEN "prompt" ELSE "inactive")]
  /\ command = "none"
  /\ shell = "running"
  /\ torn = FALSE

\* the one of main and the handlers that the shell executes
Active == IF handlers = <<>> THEN "main" ELSE handlers[Len(handlers)]
Interrupted == {c \in Contexts : frame[c].pc # "inactive"} \ {Active}

\* slip: SA_NODEFER, a handler can interrupt itself
DeliverableAgain == pending

Deliverable == {s \in pending : frame[s].pc = "inactive"}

\* the next step of c, or the return of a call that c is in: a signal that is
\* not blocked comes before the next step, not before such a return
Returns(c, label) ==
  /\ shell = "running"
  /\ Active = c
  /\ frame[c].pc = label
Executes(c, label) ==
  /\ Returns(c, label)
  /\ Deliverable = {}

\* c goes on at label with the local variables it still needs there: a process
\* number from fork or the table to waitpid, a register for one step
Standing(c, label) ==
  IF label \in {"prompt", "test", "find", "clear", "return"} THEN At(label)
  ELSE Holding(label, frame[c].pid)
Goto(c, label) ==
  /\ frame' = [frame EXCEPT ![c] = Standing(c, label)]
  /\ command' = IF label = "prompt" THEN "none" ELSE command
Load(c, label, value) ==
  /\ frame' = [frame EXCEPT ![c] = [pc |-> label, pid |-> @.pid, loaded |-> value]]
  /\ UNCHANGED command

\* what follows killF and waitforF
AfterWait(c) ==
  IF c \in Signals THEN "find"
  ELSE IF command = "quit" THEN "load" ELSE "prompt"

-----------------------------------------------------------------------------
(* The children, and the signals they and the terminal send. *)
ChildEnds(p) ==
  /\ shell = "running"
  /\ process[p] \in {"running", "killed"}
  /\ process' = [process EXCEPT ![p] = "zombie"]
  /\ pending' = pending \cup {"SIGCHLD"}
  /\ UNCHANGED <<tableVars, handlers, presses, frame, command, shell, torn>>

ControlC ==
  /\ shell = "running"
  /\ presses < MaxPresses
  /\ presses' = presses + 1
  /\ pending' = pending \cup {"SIGINT"}
  /\ UNCHANGED <<process, tableVars, handlers, frame, command, shell, torn>>

(***************************************************************************)
(* A signal is blocked in its own handler only.  It makes a call that      *)
(* waits return at once (there is no SA_RESTART), unless it arrives before *)
(* the call; sleep then returns the seconds that are left, or 0.           *)
(***************************************************************************)
Resumptions(f) ==
  {f.pc} \cup
  CASE f.pc = "wait" /\ process[f.pid] \in {"running", "killed"} ->
         {AfterWait(Active)}
    [] f.pc = "waitAny" /\ \A p \in Pids : process[p] # "zombie" -> {"prompt"}
    [] f.pc = "sleep" -> {"prompt", "kill"}
    [] OTHER -> {}

Deliver(s) ==
  /\ shell = "running"
  /\ s \in Deliverable
  /\ pending' = pending \ {s}
  /\ handlers' = Append(handlers, s)
  /\ \E label \in Resumptions(frame[Active]) :
       /\ frame' = [frame EXCEPT ![Active] = IF label = @.pc THEN @
                                             ELSE Standing(Active, label),
                                 ![s] = At("test")]
       /\ command' = IF label = "prompt" THEN "none" ELSE command
  /\ UNCHANGED <<process, tableVars, presses, shell, torn>>

-----------------------------------------------------------------------------
(* getInput *)
Prompt(name) ==
  /\ Executes("main", "prompt")
  /\ command' = name

\* startF, runF and boundF; fork takes a number that no process has
Fork(name) ==
  /\ Prompt(name)
  /\ \E p \in Pids :
       /\ process[p] = "none"
       /\ process' = [process EXCEPT ![p] = "running"]
       /\ frame' = [frame EXCEPT !["main"] = Holding("enter", p)]
  /\ UNCHANGED <<tableVars, signalVars, shell, torn>>

WaitCommand ==
  /\ Prompt("wait")
  /\ frame' = [frame EXCEPT !["main"] = At("waitAny")]
  /\ UNCHANGED <<process, tableVars, signalVars, shell, torn>>

\* waitfor and kill, with the number the user typed
WaitforCommand(p) ==
  /\ Prompt("waitfor")
  /\ p # 0
  /\ frame' = [frame EXCEPT !["main"] = Holding("wait", p)]
  /\ UNCHANGED <<process, tableVars, signalVars, shell, torn>>

KillCommand(p) ==
  /\ Prompt("kill")
  /\ frame' = [frame EXCEPT !["main"] = Holding("kill", p)]
  /\ UNCHANGED <<process, tableVars, signalVars, shell, torn>>

QuitCommand ==
  /\ Prompt("quit")
  /\ frame' = [frame EXCEPT !["main"] = At("test")]
  /\ UNCHANGED <<process, tableVars, signalVars, shell, torn>>

\* exit, and the end of the input
ExitCommand ==
  /\ Prompt("exit")
  /\ shell' = "exited"
  /\ UNCHANGED <<process, tableVars, signalVars, frame, torn>>

-----------------------------------------------------------------------------
(* children[nChild] = rc; nChild ++; *)
EnterChild ==
  /\ Executes("main", "enter")
  /\ Load("main", "store", nChild)
  /\ UNCHANGED <<process, tableVars, signalVars, shell, torn>>

StoreChild ==
  /\ Executes("main", "store")
  /\ frame["main"].loaded \in DOMAIN children
  /\ children' = [children EXCEPT ![frame["main"].loaded] = frame["main"].pid]
  /\ Goto("main", "load")
  /\ UNCHANGED <<process, nChild, signalVars, shell, torn>>

LoadCount(c) ==
  /\ Executes(c, "load")
  /\ Load(c, "count", nChild)
  /\ UNCHANGED <<process, tableVars, signalVars, shell, torn>>

CountChild ==
  /\ Executes("main", "count")
  /\ command # "quit"
  /\ nChild' = frame["main"].loaded + 1
  /\ Goto("main", CASE command = "run" -> "wait"
                    [] command = "bound" -> "sleep"
                    [] OTHER -> "prompt")
  /\ UNCHANGED <<process, children, signalVars, shell, torn>>

TimeLimitOver ==
  /\ Executes("main", "sleep")
  /\ Goto("main", "kill")
  /\ UNCHANGED <<process, tableVars, signalVars, shell, torn>>

(* killF *)
KillGroup(c) ==
  /\ Executes(c, "kill")
  /\ frame[c].pid = 0
  /\ shell' = "killed"
  /\ UNCHANGED <<process, tableVars, signalVars, frame, command, torn>>

KillFails(c) ==
  /\ Executes(c, "kill")
  /\ frame[c].pid # 0
  /\ process[frame[c].pid] = "none"
  /\ Goto(c, AfterWait(c))
  /\ UNCHANGED <<process, tableVars, signalVars, shell, torn>>

\* slip: a signal that a process may ignore
KillPolitely(c) ==
  /\ Executes(c, "kill")
  /\ frame[c].pid # 0
  /\ process[frame[c].pid] # "none"
  /\ Goto(c, "wait")
  /\ UNCHANGED <<process, tableVars, signalVars, shell, torn>>

\* slip: no waitforF
KillUnwaited(c) ==
  /\ Executes(c, "kill")
  /\ frame[c].pid # 0
  /\ process[frame[c].pid] # "none"
  /\ process' = [process EXCEPT ![frame[c].pid] =
                   IF @ = "running" THEN "killed" ELSE @]
  /\ Goto(c, AfterWait(c))
  /\ UNCHANGED <<tableVars, signalVars, shell, torn>>

Kill(c) ==
  /\ Executes(c, "kill")
  /\ frame[c].pid # 0
  /\ process[frame[c].pid] # "none"
  /\ process' = [process EXCEPT ![frame[c].pid] =
                   IF @ = "running" THEN "killed" ELSE @]
  /\ Goto(c, "wait")
  /\ UNCHANGED <<tableVars, signalVars, shell, torn>>

\* waitforF: waitpid reaps the child, or there is no such child
WaitPid(c) ==
  /\ Returns(c, "wait")
  /\ process[frame[c].pid] \in {"zombie", "none"}
  /\ process' = [process EXCEPT ![frame[c].pid] = "none"]
  /\ Goto(c, AfterWait(c))
  /\ UNCHANGED <<tableVars, signalVars, shell, torn>>

(* waitF *)
WaitAny ==
  /\ Returns("main", "waitAny")
  /\ \/ \E p \in Pids : /\ process[p] = "zombie"
                        /\ process' = [process EXCEPT ![p] = "none"]
     \/ /\ \A p \in Pids : process[p] = "none"
        /\ UNCHANGED process
  /\ Goto("main", "prompt")
  /\ UNCHANGED <<tableVars, signalVars, shell, torn>>

-----------------------------------------------------------------------------
(***************************************************************************)
(* main uses the table from the moment it holds an index for a new entry,  *)
(* or has seen that there is one, to its change of nChild; so does the     *)
(* handler.                                                                *)
(***************************************************************************)
UsesTable(c) ==
  \/ frame[c].pc \in {"store", "look", "pick", "find", "clear", "load", "count"}
  \/ frame[c].pc \in {"kill", "wait"} /\ (c = "main" => command = "quit")

(* quitF and controlCHandler: while and if (nChild > 0), children[nChild - 1] *)
SomeChild(c) ==
  /\ Executes(c, "test")
  /\ nChild > 0
  /\ Goto(c, "look")
  /\ torn' = (torn \/ \E d \in Interrupted : UsesTable(d))
  /\ UNCHANGED <<process, tableVars, signalVars, shell>>

NoChild ==
  /\ Executes("main", "test")
  /\ nChild <= 0
  /\ shell' = "quit"
  /\ UNCHANGED <<process, tableVars, signalVars, frame, command, torn>>

LookUp(c) ==
  /\ Executes(c, "look")
  /\ Load(c, "pick", nChild - 1)
  /\ UNCHANGED <<process, tableVars, signalVars, shell, torn>>

PickNewest(c) ==
  /\ Executes(c, "pick")
  /\ frame[c].loaded \in DOMAIN children
  /\ frame' = [frame EXCEPT ![c] = Holding("kill", children[frame[c].loaded])]
  /\ UNCHANGED <<process, tableVars, signalVars, command, shell, torn>>

\* the handler: children[nChild - 1] = 0
FindEntry(c) ==
  /\ Executes(c, "find")
  /\ Load(c, "clear", nChild - 1)
  /\ UNCHANGED <<process, tableVars, signalVars, shell, torn>>

ClearEntry(c) ==
  /\ Executes(c, "clear")
  /\ frame[c].loaded \in DOMAIN children
  /\ children' = [children EXCEPT ![frame[c].loaded] = 0]
  /\ Goto(c, "load")
  /\ UNCHANGED <<process, nChild, signalVars, shell, torn>>

\* slip: the entry is cleared and still counted
DiscountForgotten(c) ==
  /\ Executes(c, "count")
  /\ c = "main" => command = "quit"
  /\ nChild' = IF c = "main" THEN frame[c].loaded - 1 ELSE frame[c].loaded
  /\ Goto(c, IF c = "main" THEN "test" ELSE "return")
  /\ UNCHANGED <<process, children, signalVars, shell, torn>>

DiscountChild(c) ==
  /\ Executes(c, "count")
  /\ c = "main" => command = "quit"
  /\ nChild' = frame[c].loaded - 1
  /\ Goto(c, IF c = "main" THEN "test" ELSE "return")
  /\ UNCHANGED <<process, children, signalVars, shell, torn>>

Return(c) ==
  /\ c \in Signals
  /\ \/ Executes(c, "return")
     \/ Executes(c, "test") /\ nChild <= 0
  /\ handlers' = SubSeq(handlers, 1, Len(handlers) - 1)
  /\ frame' = [frame EXCEPT ![c] = At("inactive")]
  /\ UNCHANGED <<process, tableVars, pending, presses, command, shell, torn>>

\* an entry before or behind children is read or written
OutOfTable(c) ==
  /\ \E label \in {"store", "pick", "clear"} : Executes(c, label)
  /\ frame[c].loaded \notin DOMAIN children
  /\ shell' = "undefined"
  /\ UNCHANGED <<process, tableVars, signalVars, frame, command, torn>>

-----------------------------------------------------------------------------
UserCommand ==
  \/ \E name \in {"start", "run", "bound"} : Fork(name)
  \/ WaitCommand
  \/ \E p \in Pids \cup {0} : WaitforCommand(p) \/ KillCommand(p)
  \/ QuitCommand
  \/ ExitCommand

MainStep ==
  EnterChild \/ StoreChild \/ CountChild \/ TimeLimitOver \/ WaitAny \/ NoChild

ContextStep(c) ==
  \/ LoadCount(c) \/ KillGroup(c) \/ KillFails(c) \/ Kill(c) \/ WaitPid(c)
  \/ SomeChild(c) \/ LookUp(c) \/ PickNewest(c) \/ FindEntry(c) \/ ClearEntry(c)
  \/ DiscountChild(c) \/ Return(c) \/ OutOfTable(c)

ShellStep ==
  \/ MainStep
  \/ \E c \in Contexts : ContextStep(c)
  \/ \E s \in Signals : Deliver(s)

Next ==
  \/ UserCommand
  \/ ShellStep
  \/ \E p \in Pids : ChildEnds(p)
  \/ ControlC

Spec == Init /\ [][Next]_vars

\* The shell runs on, and a process that was killed dies.
KilledEnds(p) == process[p] = "killed" /\ ChildEnds(p)
FairSpec ==
  /\ Spec
  /\ WF_vars(ShellStep)
  /\ \A p \in Pids : WF_vars(KilledEnds(p))

-----------------------------------------------------------------------------
(***************************************************************************)
(* Properties                                                              *)
(***************************************************************************)
MainLabels ==
  {"prompt", "enter", "store", "load", "count", "sleep", "kill", "wait",
   "waitAny", "test", "look", "pick"}
HandlerLabels ==
  {"inactive", "test", "look", "pick", "kill", "wait", "find", "clear", "load",
   "count", "return"}

\* Handlers never nest deeper than one per signal, and nChild falls below 0 by
\* no more than the two handlers and quit can take off under each other.
TypeOK ==
  /\ process \in [Pids -> {"none", "running", "killed", "zombie"}]
  /\ children \in [0 .. CHILDREN - 1 -> Pids \cup {0}]
  /\ nChild \in -2 .. CHILDREN
  /\ pending \subseteq Signals
  /\ presses \in 0 .. MaxPresses
  /\ handlers \in Seq(Signals)
  /\ Len(handlers) <= 2
  /\ Len(handlers) = 2 => handlers[1] # handlers[2]
  /\ frame \in [Contexts -> [pc : MainLabels \cup HandlerLabels,
                             pid : Pids \cup {0}, loaded : -3 .. CHILDREN]]
  /\ frame["main"].pc \in MainLabels
  /\ \A s \in Signals :
       /\ frame[s].pc \in HandlerLabels
       /\ frame[s].pc # "inactive" <=>
            \E i \in 1 .. Len(handlers) : handlers[i] = s
  /\ command \in {"none", "start", "run", "bound", "wait", "waitfor", "kill",
                  "quit", "exit"}
  /\ shell \in {"running", "exited", "quit", "killed", "undefined"}
  /\ torn \in BOOLEAN

Listed == {children[i] : i \in 0 .. nChild - 1}
BeingEntered ==
  IF frame["main"].pc \in {"enter", "store", "load", "count"} /\ command # "quit"
  THEN {frame["main"].pid} ELSE {}

\* Unless a handler runs into code that uses the table, the shell loses track
\* of no child: each one that has not been waited for is in the table, or is
\* about to be entered.
ChildrenListed ==
  ~torn => {p \in Pids : process[p] # "none"} \subseteq Listed \cup BeingEntered

\* Unless a handler runs into code that uses the table, the shell kills its own
\* process group only if the user asks for it, and leaves the table only if it
\* is full.
HarmlessUnlessTorn ==
  /\ shell = "killed" => torn \/ command = "kill"
  /\ shell = "undefined" => torn \/ nChild = CHILDREN

\* kill and quit come to an end, whatever the handlers take from them: nobody
\* waits for a process that is not going to die.
KillAndQuitEnd ==
  command \in {"kill", "quit"} /\ frame["main"].pc # "prompt"
    ~> shell # "running" \/ frame["main"].pc = "prompt"

\* quitF's last message: all child processes complete.
QuitCompletesAll ==
  shell = "quit" => \A p \in Pids : process[p] # "running"
=============================================================================
