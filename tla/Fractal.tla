------------------------------ MODULE Fractal ------------------------------
(***************************************************************************)
(* fractal (Project03): a Mandelbrot picture drawn by main alone, by one   *)
(* thread per band of rows (-row), or by threads that take square tasks    *)
(* off a list (-task), and then saved (fractal.c, bitmap.c).               *)
(*                                                                         *)
(* A step draws one row of a part; the colour of a pixel is left out, that *)
(* it has been set is kept.  What happens between pthread_mutex_lock and   *)
(* its unlock is one step.                                                 *)
(***************************************************************************)
EXTENDS Integers, FiniteSets

CONSTANTS
  TASK_SIZE,
  MAX_THREADS,
  DEFAULT_PIXEL_WIDTH,
  DEFAULT_PIXEL_HEIGHT,
  DEFAULT_MAX_ITER,
  Sizes,           \* the numbers a user gives for -width and -height
  Iterations,      \* ... for -maxiter
  ThreadNumbers    \* ... and for -threads

ASSUME FractalAssumption ==
  /\ TASK_SIZE \in Nat \ {0}
  /\ MAX_THREADS \in Nat \ {0}
  /\ DEFAULT_PIXEL_WIDTH \in Nat
  /\ DEFAULT_PIXEL_HEIGHT \in Nat
  /\ DEFAULT_MAX_ITER \in Nat \ {0}
  /\ Sizes \subseteq Nat
  /\ Iterations \subseteq Nat
  /\ ThreadNumbers \subseteq Nat

Threads == 0 .. MAX_THREADS - 1
Main == -1
Painters == {Main} \cup Threads

VARIABLES
  settings,        \* theSettings
  pc,
  part,            \* what a painter draws; j is the next row, not the first
  created, joined, \* how far main's loops have come
  nextTask,
  drawn            \* the pixels of the bitmap that have been set

fractalVars == <<settings, pc, part, created, joined, nextTask, drawn>>

nothing == [xStart |-> 0, xEnd |-> 0, j |-> 0, yEnd |-> 0]

Init ==
  /\ settings = [nPixelWidth |-> DEFAULT_PIXEL_WIDTH,
                 nPixelHeight |-> DEFAULT_PIXEL_HEIGHT,
                 nMaxIter |-> DEFAULT_MAX_ITER,
                 nThreads |-> 1,
                 theMode |-> "single"]
  /\ pc = [p \in Painters |-> IF p = Main THEN "arguments" ELSE "new"]
  /\ part = [p \in Painters |-> nothing]
  /\ created = 0
  /\ joined = 0
  /\ nextTask = 0
  /\ drawn = {}

width == settings.nPixelWidth
height == settings.nPixelHeight
Image == (0 .. width - 1) \X (0 .. height - 1)

-----------------------------------------------------------------------------
(* Who draws what.  The divisions are those of C's int. *)

WholeImage == [xStart |-> 0, xEnd |-> width, j |-> 0, yEnd |-> height]

step == height \div settings.nThreads

\* slip: the last band ends like the others
EvenBand(i) ==
  [xStart |-> 0, xEnd |-> width, j |-> step * i, yEnd |-> step * (i + 1)]

Band(i) ==
  [xStart |-> 0, xEnd |-> width, j |-> step * i,
   yEnd |-> IF i < settings.nThreads - 1 THEN step * (i + 1) ELSE height]

\* "ceil" of a quotient that has already been rounded down
taskRows == height \div TASK_SIZE
taskCols == width \div TASK_SIZE
nTasks == taskRows * taskCols

\* where the k-th of n pieces of a length ends
PieceEnd(k, n, length) == IF k < n - 1 THEN (k + 1) * TASK_SIZE ELSE length

\* tasks[i * taskCols + j]
Task(i, j) ==
  [xStart |-> j * TASK_SIZE, xEnd |-> PieceEnd(j, taskCols, width),
   j |-> i * TASK_SIZE, yEnd |-> PieceEnd(i, taskRows, height)]

\* bitmap_set takes a pixel outside the bitmap back into it
Wrapped(x, y) == <<x % width, y % height>>

\* what is left of a part
PixelsOf(q) ==
  {Wrapped(x, y) : x \in q.xStart .. q.xEnd - 1, y \in q.j .. q.yEnd - 1}

-----------------------------------------------------------------------------
(* main *)
Ended == {"saved", "unsaved", "refused", "noMutex", "crashed"}
Running == pc[Main] \notin Ended

Goto(p, next) == pc' = [pc EXCEPT ![p] = next]

threadVars == <<part, created, joined, nextTask, drawn>>

\* processArguments, one argument with its value at a time
Set(field, value) ==
  /\ pc[Main] = "arguments"
  /\ settings' = [settings EXCEPT ![field] = value]
  /\ UNCHANGED <<pc, threadVars>>

TakeSize == \E v \in Sizes : Set("nPixelWidth", v) \/ Set("nPixelHeight", v)
TakeMaxIter == \E v \in Iterations : Set("nMaxIter", v)
TakeThreads == \E v \in ThreadNumbers \cap 1 .. MAX_THREADS : Set("nThreads", v)
TakeMode == \E mode \in {"row", "task"} : Set("theMode", mode)

\* an unknown option, a value missing or out of range: displayHelp and exit
RefuseArguments ==
  /\ pc[Main] = "arguments"
  /\ Goto(Main, "refused")
  /\ UNCHANGED <<settings, threadVars>>

ArgumentsEnd ==
  /\ pc[Main] = "arguments"
  /\ Goto(Main, "image")
  /\ UNCHANGED <<settings, threadVars>>

MutexFails ==
  /\ pc[Main] = "image"
  /\ settings.theMode = "task"
  /\ Goto(Main, "noMutex")
  /\ UNCHANGED <<settings, threadVars>>

\* bitmap_create, bitmap_reset, and the list of tasks
CreateImage ==
  /\ pc[Main] = "image"
  /\ IF settings.theMode = "single"
     THEN Goto(Main, "draw") /\ part' = [part EXCEPT ![Main] = WholeImage]
     ELSE Goto(Main, "create") /\ UNCHANGED part
  /\ UNCHANGED <<settings, created, joined, nextTask, drawn>>

\* the null pointer that malloc returns is used without a test
OutOfMemory ==
  /\ pc[Main] = "image"
  /\ Goto(Main, "crashed")
  /\ UNCHANGED <<settings, threadVars>>

CreateThread ==
  /\ pc[Main] = "create"
  /\ created < settings.nThreads
  /\ IF settings.theMode = "row"
     THEN Goto(created, "draw") /\ part' = [part EXCEPT ![created] = Band(created)]
     ELSE Goto(created, "claim") /\ UNCHANGED part
  /\ created' = created + 1
  /\ UNCHANGED <<settings, joined, nextTask, drawn>>

\* the result of pthread_create is not looked at
CreateFails ==
  /\ pc[Main] = "create"
  /\ created < settings.nThreads
  /\ Goto(created, "missing")
  /\ created' = created + 1
  /\ UNCHANGED <<settings, part, joined, nextTask, drawn>>

AllCreated ==
  /\ pc[Main] = "create"
  /\ created = settings.nThreads
  /\ Goto(Main, "join")
  /\ UNCHANGED <<settings, threadVars>>

JoinThread ==
  /\ pc[Main] = "join"
  /\ joined < settings.nThreads
  /\ pc[joined] = "done"
  /\ joined' = joined + 1
  /\ UNCHANGED <<settings, pc, part, created, nextTask, drawn>>

\* The ThreadID of a thread that was not created is no thread's: pthread_join
\* may crash on it, or return an error, which is not looked at either.
JoinMissing ==
  /\ pc[Main] = "join"
  /\ joined < settings.nThreads
  /\ pc[joined] = "missing"
  /\ \/ Goto(Main, "crashed") /\ UNCHANGED joined
     \/ joined' = joined + 1 /\ UNCHANGED pc
  /\ UNCHANGED <<settings, part, created, nextTask, drawn>>

AllJoined ==
  /\ pc[Main] = "join"
  /\ joined = settings.nThreads
  /\ Goto(Main, "save")
  /\ UNCHANGED <<settings, threadVars>>

\* bitmap_save, which fails when it cannot open the file
Save ==
  /\ pc[Main] = "save"
  /\ Goto(Main, "saved") \/ Goto(Main, "unsaved")
  /\ UNCHANGED <<settings, threadVars>>

-----------------------------------------------------------------------------
(* compute_image_singlethread, compute_image_part and taskThread *)

\* slip: two threads are given the same task
ClaimUncounted(t) ==
  /\ pc[t] = "claim"
  /\ nextTask < nTasks
  /\ part' = [part EXCEPT ![t] = Task(nextTask \div taskCols, nextTask % taskCols)]
  /\ nextTask' = IF part[t] = nothing THEN nextTask ELSE nextTask + 1
  /\ Goto(t, "draw")
  /\ UNCHANGED <<settings, created, joined, drawn>>

ClaimTask(t) ==
  /\ pc[t] = "claim"
  /\ nextTask < nTasks
  /\ part' = [part EXCEPT ![t] = Task(nextTask \div taskCols, nextTask % taskCols)]
  /\ nextTask' = nextTask + 1
  /\ Goto(t, "draw")
  /\ UNCHANGED <<settings, created, joined, drawn>>

\* slip: the thread goes back for another task
AskAgain(t) ==
  /\ pc[t] = "claim"
  /\ nextTask >= nTasks
  /\ nextTask' = nextTask + 1
  /\ UNCHANGED <<settings, pc, part, created, joined, drawn>>

NoTaskLeft(t) ==
  /\ pc[t] = "claim"
  /\ nextTask >= nTasks
  /\ nextTask' = nextTask + 1
  /\ Goto(t, "done")
  /\ UNCHANGED <<settings, part, created, joined, drawn>>

\* the pixels of the row part[p] is at
Row(p) == PixelsOf([part[p] EXCEPT !.yEnd = part[p].j + 1])

DrawRow(p) ==
  /\ pc[p] = "draw"
  /\ part[p].j < part[p].yEnd
  /\ Row(p) = {} \/ settings.nMaxIter > 0
  /\ drawn' = drawn \cup Row(p)
  /\ part' = [part EXCEPT ![p].j = @ + 1]
  /\ UNCHANGED <<settings, pc, created, joined, nextTask>>

\* 255 * iter / nMaxIter
DivideByZero(p) ==
  /\ pc[p] = "draw"
  /\ part[p].j < part[p].yEnd
  /\ Row(p) # {} /\ settings.nMaxIter = 0
  /\ Goto(Main, "crashed")
  /\ UNCHANGED <<settings, threadVars>>

PartDrawn(p) ==
  /\ pc[p] = "draw"
  /\ part[p].j >= part[p].yEnd
  /\ Goto(p, IF p = Main THEN "save"
             ELSE IF settings.theMode = "task" THEN "claim" ELSE "done")
  /\ UNCHANGED <<settings, threadVars>>

-----------------------------------------------------------------------------
MainStep ==
  \/ ArgumentsEnd \/ CreateImage \/ CreateThread \/ AllCreated
  \/ JoinThread \/ JoinMissing \/ AllJoined \/ Save

Misfortune == MutexFails \/ OutOfMemory \/ CreateFails

UserStep ==
  TakeSize \/ TakeMaxIter \/ TakeThreads \/ TakeMode \/ RefuseArguments

PainterStep(p) ==
  /\ Running
  /\ \/ ClaimTask(p) \/ NoTaskLeft(p)
     \/ DrawRow(p) \/ DivideByZero(p) \/ PartDrawn(p)

Next ==
  \/ MainStep \/ Misfortune \/ UserStep
  \/ \E p \in Painters : PainterStep(p)

Spec == Init /\ [][Next]_fractalVars

\* argv ends, and a thread that can run is run
FairSpec ==
  /\ Spec
  /\ WF_fractalVars(MainStep)
  /\ \A p \in Painters : WF_fractalVars(PainterStep(p))

-----------------------------------------------------------------------------
(* What is drawn is inside the image, and nextTask passes the number of    *)
(* tasks once for each thread that has ended: the arithmetic of the bands  *)
(* and the tasks stays in range for every size.                            *)
PartOK(q) ==
  /\ 0 <= q.xStart /\ q.xStart <= q.xEnd /\ q.xEnd <= width
  /\ 0 <= q.j /\ q.j <= q.yEnd /\ q.yEnd <= height

TypeOK ==
  /\ settings \in [nPixelWidth : Nat, nPixelHeight : Nat, nMaxIter : Nat,
                   nThreads : 1 .. MAX_THREADS,
                   theMode : {"single", "row", "task"}]
  /\ pc \in [Painters -> Ended \cup
       {"arguments", "image", "create", "join", "save",
        "new", "missing", "claim", "draw", "done"}]
  /\ part \in [Painters -> [xStart : Nat, xEnd : Nat, j : Nat, yEnd : Nat]]
  /\ \A p \in Painters : pc[p] = "draw" => PartOK(part[p])
  /\ created \in 0 .. settings.nThreads
  /\ joined \in 0 .. created
  /\ nextTask \in 0 .. nTasks + Cardinality({t \in Threads : pc[t] = "done"})
  /\ drawn \subseteq Image

\* what p still has to draw
Left(p) == IF pc[p] = "draw" THEN PixelsOf(part[p]) ELSE {}

\* the tasks that have not been claimed, by row and column
Unclaimed ==
  {k \in (0 .. taskRows - 1) \X (0 .. taskCols - 1) :
     nextTask <= k[1] * taskCols + k[2]}

\* the threads that are not there yet, or never will be
Absent == {t \in 0 .. settings.nThreads - 1 : pc[t] \in {"new", "missing"}}

\* the pixels of each part that no painter has got
Unassigned ==
  CASE settings.theMode = "row"  -> {PixelsOf(Band(i)) : i \in Absent}
    [] settings.theMode = "task" -> {PixelsOf(Task(k[1], k[2])) : k \in Unclaimed}
    [] OTHER -> {}

(* No two painters ever write the same pixel: what one still has to draw   *)
(* is no other's, has not been drawn, and is in no band or task that       *)
(* another can still get ("A row-based approach will not require any       *)
(* concurrency protection", fractal.c:545; the tasks have none either but  *)
(* for the counter).                                                       *)
PixelsApart ==
  /\ \A p, q \in Painters : p # q => Left(p) \cap Left(q) = {}
  /\ \A p \in Painters : Left(p) \cap drawn = {}
  /\ \A P \in Unassigned : P \cap drawn = {} /\ \A p \in Painters : P \cap Left(p) = {}

(* What the picture that is saved lacks, whatever the sizes, the number of *)
(* threads and the order in which they ran, is what the threads that could *)
(* not be created leave out, and nothing else: their bands with -row; with *)
(* -task nothing, since the other threads take every task, unless there is *)
(* no other.  Main has joined all the threads there are; it looks at the   *)
(* results of neither pthread_create nor pthread_join, and says "All       *)
(* Threads Completed" (fractal.c:208) before it saves what there is.       *)
(* With no task to take, in an image smaller than a task in one direction, *)
(* -task saves an empty picture.                                           *)
TooSmall == settings.theMode = "task" /\ (width < TASK_SIZE \/ height < TASK_SIZE)

Missing == {t \in Threads : pc[t] = "missing"}

LeftOut ==
  CASE settings.theMode = "row"  -> UNION {PixelsOf(Band(t)) : t \in Missing}
    [] settings.theMode = "task" ->
         IF TooSmall \/ Missing = 0 .. settings.nThreads - 1 THEN Image ELSE {}
    [] OTHER -> {}

PictureWhole == pc[Main] = "saved" => drawn = Image \ LeftOut

-----------------------------------------------------------------------------
(***************************************************************************)
(* The inductive invariant behind them.                                    *)
(***************************************************************************)
Early == {"arguments", "image", "refused", "noMutex"}

MainLoops ==
  /\ pc[Main] \in Ended \cup {"arguments", "image", "draw", "create", "join", "save"}
  /\ \A t \in Threads :
       /\ pc[t] \in {"new", "missing", "claim", "draw", "done"}
       /\ t >= created <=> pc[t] = "new"
       /\ t < joined => pc[t] \in {"done", "missing"}
  /\ pc[Main] \in Early => created = 0 /\ nextTask = 0 /\ drawn = {}

Modes ==
  /\ pc[Main] = "draw" => settings.theMode = "single"
  /\ settings.theMode = "single" => created = 0
  /\ \A t \in Threads : pc[t] = "claim" => settings.theMode = "task"
  /\ pc[Main] \in {"create", "join"} => settings.theMode # "single"
  /\ pc[Main] = "join" => created = settings.nThreads

\* a thread of -task ends when it finds no task left
OutOfTasks ==
  settings.theMode = "task" => \A t \in Threads : pc[t] = "done" => nextTask >= nTasks

\* While the picture is made no pixel is forgotten.
NothingForgotten ==
  pc[Main] \in {"draw", "create", "join"} /\ ~TooSmall =>
    \A z \in Image :
      \/ z \in drawn
      \/ \E p \in Painters : z \in Left(p)
      \/ \E P \in Unassigned : z \in P

\* The tasks are drawn by threads: without one nothing is.
NobodyThere ==
  settings.theMode = "task" /\ (\A t \in Threads : pc[t] \in {"new", "missing"})
    => drawn = {}

NothingTooSmall == TooSmall => nTasks = 0 /\ drawn = {} /\ \A p \in Painters : pc[p] # "draw"

WholeAtSave ==
  pc[Main] \in {"save", "saved", "unsaved"} =>
    /\ drawn = Image \ LeftOut
    /\ \A t \in Threads : pc[t] \in {"new", "missing", "done"}

Safe ==
  /\ TypeOK
  /\ MainLoops
  /\ Modes
  /\ OutOfTasks
  /\ PixelsApart
  /\ NothingForgotten
  /\ NothingTooSmall
  /\ NobodyThere
  /\ WholeAtSave

-----------------------------------------------------------------------------
(* fractal ends, whatever fails: no thread is joined that waits, and the   *)
(* tasks are used up.                                                      *)
Ends == <>(pc[Main] \in Ended)

=============================================================================
