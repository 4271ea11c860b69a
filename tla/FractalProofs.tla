--------------------------- MODULE FractalProofs ---------------------------
(***************************************************************************)
(* Proofs about Fractal, for images, tasks and numbers of threads of every *)
(* size.  First the geometry: bands and tasks are inside the image, apart  *)
(* from each other, and cover it.  Then Safe is shown to be inductive.     *)
(***************************************************************************)
EXTENDS Fractal, FiniteSetTheorems, TLAPS

(* Arithmetic: division and remainder.                                     *)
LEMMA DivMod ==
  ASSUME NEW a \in Nat, NEW b \in Nat \ {0}
  PROVE  /\ a \div b \in Nat
         /\ a % b \in 0 .. b - 1
         /\ a = b * (a \div b) + (a % b)
  OBVIOUS

\* A number below the divisor is its own remainder: bitmap_set moves nothing.
LEMMA SmallMod ==
  ASSUME NEW w \in Nat, NEW x \in 0 .. w - 1
  PROVE  x % w = x
  OBVIOUS

(* Arithmetic: products, which the solver sees only one at a time.         *)
LEMMA Monotone ==
  ASSUME NEW a \in Nat, NEW b \in Nat, NEW n \in Nat, a <= b
  PROVE  /\ n * a <= n * b
         /\ a * n <= b * n
  OBVIOUS

LEMMA ProductNat ==
  ASSUME NEW a \in Nat, NEW b \in Nat
  PROVE  a * b \in Nat
  OBVIOUS

LEMMA OneMore ==
  ASSUME NEW a \in Nat, NEW n \in Nat
  PROVE  n * (a + 1) = n * a + n /\ (a + 1) * n = a * n + n
  OBVIOUS

-----------------------------------------------------------------------------
\* The numbers the geometry is made of.
LEMMA Dimensions ==
  ASSUME TypeOK
  PROVE  /\ width \in Nat /\ height \in Nat
         /\ settings.nThreads \in Nat \ {0}
         /\ settings.nThreads <= MAX_THREADS
         /\ TASK_SIZE \in Nat \ {0}
         /\ step \in Nat
         /\ taskRows \in Nat /\ taskCols \in Nat /\ nTasks \in Nat
<1>1. /\ width \in Nat /\ height \in Nat
      /\ settings.nThreads \in 1 .. MAX_THREADS
      /\ MAX_THREADS \in Nat
      /\ TASK_SIZE \in Nat \ {0}
  BY FractalAssumption DEF TypeOK, width, height
<1>2. settings.nThreads \in Nat \ {0} /\ settings.nThreads <= MAX_THREADS
  BY <1>1
<1>3. step \in Nat
  BY <1>1, <1>2, DivMod DEF step
<1>4. taskRows \in Nat /\ taskCols \in Nat
  BY <1>1, DivMod DEF taskRows, taskCols
<1> QED
  BY <1>1, <1>2, <1>3, <1>4, ProductNat DEF nTasks

\* A rectangle inside the image keeps its pixels: bitmap_set wraps none.
LEMMA PixelsInside ==
  ASSUME TypeOK, NEW q,
         q.xStart \in Int, q.xEnd \in Int, q.j \in Int, q.yEnd \in Int, PartOK(q)
  PROVE  /\ PixelsOf(q) = (q.xStart .. q.xEnd - 1) \X (q.j .. q.yEnd - 1)
         /\ PixelsOf(q) \subseteq Image
<1>1. width \in Nat /\ height \in Nat
  BY Dimensions
<1>2. ASSUME NEW x \in q.xStart .. q.xEnd - 1, NEW y \in q.j .. q.yEnd - 1
      PROVE  Wrapped(x, y) = <<x, y>> /\ x \in 0 .. width - 1 /\ y \in 0 .. height - 1
  <2>1. x \in 0 .. width - 1 /\ y \in 0 .. height - 1
    BY <1>1, <1>2 DEF PartOK
  <2> QED
    BY <1>1, <2>1, SmallMod DEF Wrapped
<1>3. PixelsOf(q) = {<<x, y>> : x \in q.xStart .. q.xEnd - 1, y \in q.j .. q.yEnd - 1}
  BY <1>2 DEF PixelsOf
<1> QED
  BY <1>2, <1>3 DEF Image

\* A point is in such a rectangle when it is between its sides.
LEMMA InRectangle ==
  ASSUME TypeOK, NEW q,
         q.xStart \in Int, q.xEnd \in Int, q.j \in Int, q.yEnd \in Int, PartOK(q),
         NEW x \in Int, NEW y \in Int
  PROVE  <<x, y>> \in PixelsOf(q) <=>
           q.xStart <= x /\ x < q.xEnd /\ q.j <= y /\ y < q.yEnd
  BY PixelsInside

-----------------------------------------------------------------------------
(* A length cut into n pieces of s, of which the last takes the rest: the  *)
(* rows of the bands, and the rows and the columns of the tasks.           *)
CutEnd(s, k, n, length) == IF k < n - 1 THEN s * (k + 1) ELSE length

LEMMA CutsInside ==
  ASSUME NEW s \in Nat, NEW n \in Nat, NEW length \in Nat, s * n <= length,
         NEW k \in 0 .. n - 1
  PROVE  /\ s * k \in Nat /\ CutEnd(s, k, n, length) \in Nat
         /\ s * k <= CutEnd(s, k, n, length)
         /\ CutEnd(s, k, n, length) <= length
<1>1. k \in Nat /\ k + 1 \in Nat /\ k + 1 <= n /\ k <= k + 1
  OBVIOUS
<1>2. s * k \in Nat /\ s * (k + 1) \in Nat /\ s * n \in Nat
  BY <1>1, ProductNat
<1>3. s * k <= s * (k + 1) /\ s * (k + 1) <= s * n
  BY <1>1, Monotone
<1> QED
  BY <1>2, <1>3 DEF CutEnd

LEMMA CutsApart ==
  ASSUME NEW s \in Nat, NEW n \in Nat, NEW length \in Nat,
         NEW k \in 0 .. n - 1, NEW m \in 0 .. n - 1, k < m
  PROVE  CutEnd(s, k, n, length) <= s * m
<1>1. k + 1 \in Nat /\ m \in Nat /\ k + 1 <= m /\ k < n - 1
  OBVIOUS
<1>2. s * (k + 1) <= s * m
  BY <1>1, Monotone
<1> QED
  BY <1>1, <1>2 DEF CutEnd

LEMMA CutsCover ==
  ASSUME NEW s \in Nat, NEW n \in Nat \ {0}, NEW length \in Nat, s * n <= length,
         NEW x \in 0 .. length - 1
  PROVE  \E k \in 0 .. n - 1 : s * k <= x /\ x < CutEnd(s, k, n, length)
<1>1. CASE s * (n - 1) <= x
  <2>1. n - 1 \in 0 .. n - 1 /\ CutEnd(s, n - 1, n, length) = length
    BY DEF CutEnd
  <2> QED
    BY <1>1, <2>1
<1>2. CASE x < s * (n - 1)
  <2>1. s \in Nat \ {0} /\ n - 1 \in Nat /\ x \in Nat
    BY <1>2
  <2> DEFINE k == x \div s
  <2>2. /\ k \in Nat
        /\ x % s \in 0 .. s - 1
        /\ x = s * k + (x % s)
    BY <2>1, DivMod
  <2> HIDE DEF k
  <2>3. s * k \in Nat /\ s * (n - 1) \in Nat /\ s * (k + 1) = s * k + s
    BY <2>1, <2>2, ProductNat, OneMore
  <2>4. s * k <= x /\ x < s * (k + 1)
    BY <2>2, <2>3
  <2>5. k < n - 1
    <3> SUFFICES ASSUME n - 1 <= k PROVE FALSE
      BY <2>1, <2>2
    <3>1. s * (n - 1) <= s * k
      BY <2>1, <2>2, Monotone
    <3> QED
      BY <1>2, <2>3, <2>4, <3>1
  <2>6. k \in 0 .. n - 1 /\ CutEnd(s, k, n, length) = s * (k + 1)
    BY <2>1, <2>2, <2>5 DEF CutEnd
  <2> QED
    BY <2>4, <2>6
<1>3. s * (n - 1) \in Nat
  BY ProductNat
<1> QED
  BY <1>1, <1>2, <1>3

-----------------------------------------------------------------------------
Parts == [xStart : Nat, xEnd : Nat, j : Nat, yEnd : Nat]

(* The bands of -row: one for each thread, whatever the height.            *)
LEMMA BandEnds ==
  ASSUME TypeOK
  PROVE  /\ step * settings.nThreads <= height
         /\ \A i : Band(i) =
              [xStart |-> 0, xEnd |-> width, j |-> step * i,
               yEnd |-> CutEnd(step, i, settings.nThreads, height)]
<1>1. height \in Nat /\ settings.nThreads \in Nat \ {0} /\ step \in Nat
  BY Dimensions
<1>2. /\ height % settings.nThreads \in 0 .. settings.nThreads - 1
      /\ height = settings.nThreads * step + (height % settings.nThreads)
  BY <1>1, DivMod DEF step
<1>3. settings.nThreads * step = step * settings.nThreads /\ step * settings.nThreads \in Nat
  BY <1>1, ProductNat
<1> QED
  BY <1>1, <1>2, <1>3 DEF Band, CutEnd

LEMMA BandInside ==
  ASSUME TypeOK, NEW i \in 0 .. settings.nThreads - 1
  PROVE  Band(i) \in Parts /\ PartOK(Band(i))
<1>1. /\ height \in Nat /\ width \in Nat
      /\ settings.nThreads \in Nat \ {0} /\ step \in Nat
  BY Dimensions
<1> DEFINE end == CutEnd(step, i, settings.nThreads, height)
<1>2. step * i \in Nat /\ end \in Nat /\ step * i <= end /\ end <= height
  BY <1>1, BandEnds, CutsInside
<1>3. Band(i) = [xStart |-> 0, xEnd |-> width, j |-> step * i, yEnd |-> end]
  BY BandEnds
<1> HIDE DEF end
<1> QED
  BY <1>1, <1>2, <1>3 DEF Parts, PartOK

LEMMA BandsApart ==
  ASSUME TypeOK, NEW i \in 0 .. settings.nThreads - 1, NEW k \in 0 .. settings.nThreads - 1,
         i # k
  PROVE  PixelsOf(Band(i)) \cap PixelsOf(Band(k)) = {}
<1>1. /\ height \in Nat /\ width \in Nat
      /\ settings.nThreads \in Nat \ {0} /\ step \in Nat
  BY Dimensions
<1>2. ASSUME NEW a \in 0 .. settings.nThreads - 1, NEW b \in 0 .. settings.nThreads - 1, a < b
      PROVE  PixelsOf(Band(a)) \cap PixelsOf(Band(b)) = {}
  <2>1. /\ Band(a) \in Parts /\ PartOK(Band(a))
        /\ Band(b) \in Parts /\ PartOK(Band(b))
    BY BandInside
  <2>2. Band(a).yEnd <= Band(b).j
    BY <1>1, <1>2, BandEnds, CutsApart
  <2>3. /\ PixelsOf(Band(a)) = (Band(a).xStart .. Band(a).xEnd - 1) \X (Band(a).j .. Band(a).yEnd - 1)
        /\ PixelsOf(Band(b)) = (Band(b).xStart .. Band(b).xEnd - 1) \X (Band(b).j .. Band(b).yEnd - 1)
    BY <2>1, PixelsInside DEF Parts
  <2>4. (Band(a).j .. Band(a).yEnd - 1) \cap (Band(b).j .. Band(b).yEnd - 1) = {}
    BY <2>1, <2>2 DEF Parts
  <2> QED
    BY <2>3, <2>4
<1> QED
  BY <1>1, <1>2

LEMMA BandsCover ==
  ASSUME TypeOK, NEW z \in Image
  PROVE  \E i \in 0 .. settings.nThreads - 1 : z \in PixelsOf(Band(i))
<1>1. /\ height \in Nat /\ width \in Nat
      /\ settings.nThreads \in Nat \ {0} /\ step \in Nat
  BY Dimensions
<1>2. PICK x \in 0 .. width - 1, y \in 0 .. height - 1 : z = <<x, y>>
  BY DEF Image
<1>3. PICK i \in 0 .. settings.nThreads - 1 :
        step * i <= y /\ y < CutEnd(step, i, settings.nThreads, height)
  BY <1>1, BandEnds, CutsCover
<1>4. Band(i) \in Parts /\ PartOK(Band(i))
  BY BandInside
<1>5. Band(i).xStart <= x /\ x < Band(i).xEnd /\ Band(i).j <= y /\ y < Band(i).yEnd
  BY <1>1, <1>3, BandEnds
<1> QED
  BY <1>2, <1>4, <1>5, InRectangle DEF Parts

-----------------------------------------------------------------------------
(* The tasks of -task.                                                     *)
Grid == (0 .. taskRows - 1) \X (0 .. taskCols - 1)

LEMMA TaskCounts ==
  ASSUME TypeOK
  PROVE  /\ TASK_SIZE * taskRows <= height /\ TASK_SIZE * taskCols <= width
         /\ height >= TASK_SIZE => taskRows > 0
         /\ width >= TASK_SIZE => taskCols > 0
         /\ height < TASK_SIZE => taskRows = 0
         /\ width < TASK_SIZE => taskCols = 0
<1>1. height \in Nat /\ width \in Nat /\ TASK_SIZE \in Nat \ {0}
  BY Dimensions
<1>2. ASSUME NEW length \in Nat
      PROVE  /\ TASK_SIZE * (length \div TASK_SIZE) <= length
             /\ length >= TASK_SIZE => length \div TASK_SIZE > 0
             /\ length < TASK_SIZE => length \div TASK_SIZE = 0
  <2>1. /\ length \div TASK_SIZE \in Nat
        /\ length % TASK_SIZE \in 0 .. TASK_SIZE - 1
        /\ length = TASK_SIZE * (length \div TASK_SIZE) + (length % TASK_SIZE)
    BY <1>1, DivMod
  <2>2. TASK_SIZE * (length \div TASK_SIZE) \in Nat
    BY <1>1, <2>1, ProductNat
  <2>3. length < TASK_SIZE => length \div TASK_SIZE = 0
    BY <1>1
  <2>4. length >= TASK_SIZE => length \div TASK_SIZE > 0
    <3> SUFFICES ASSUME length \div TASK_SIZE = 0 PROVE length < TASK_SIZE
      BY <1>1, <2>1
    <3>1. TASK_SIZE * (length \div TASK_SIZE) = 0
      BY <1>1
    <3> QED
      BY <1>1, <2>1, <3>1
  <2> QED
    BY <1>1, <2>1, <2>2, <2>3, <2>4
<1> QED
  BY <1>1, <1>2 DEF taskRows, taskCols

LEMMA TaskEnds ==
  ASSUME TypeOK, NEW i \in Nat, NEW j \in Nat
  PROVE  Task(i, j) =
           [xStart |-> TASK_SIZE * j, xEnd |-> CutEnd(TASK_SIZE, j, taskCols, width),
            j |-> TASK_SIZE * i, yEnd |-> CutEnd(TASK_SIZE, i, taskRows, height)]
<1>1. TASK_SIZE \in Nat
  BY Dimensions
<1>2. \A k \in Nat : k * TASK_SIZE = TASK_SIZE * k
  BY <1>1
<1>3. i + 1 \in Nat /\ j + 1 \in Nat
  OBVIOUS
<1> QED
  BY <1>2, <1>3 DEF Task, PieceEnd, CutEnd

LEMMA TaskInside ==
  ASSUME TypeOK, NEW i \in 0 .. taskRows - 1, NEW j \in 0 .. taskCols - 1
  PROVE  Task(i, j) \in Parts /\ PartOK(Task(i, j))
<1>1. /\ height \in Nat /\ width \in Nat /\ TASK_SIZE \in Nat
      /\ taskRows \in Nat /\ taskCols \in Nat
  BY Dimensions
<1> DEFINE xEnd == CutEnd(TASK_SIZE, j, taskCols, width)
           yEnd == CutEnd(TASK_SIZE, i, taskRows, height)
<1>2. TASK_SIZE * i \in Nat /\ yEnd \in Nat /\ TASK_SIZE * i <= yEnd /\ yEnd <= height
  BY <1>1, TaskCounts, CutsInside
<1>3. TASK_SIZE * j \in Nat /\ xEnd \in Nat /\ TASK_SIZE * j <= xEnd /\ xEnd <= width
  BY <1>1, TaskCounts, CutsInside
<1>4. Task(i, j) = [xStart |-> TASK_SIZE * j, xEnd |-> xEnd, j |-> TASK_SIZE * i, yEnd |-> yEnd]
  BY <1>1, TaskEnds, i \in Nat, j \in Nat
<1> HIDE DEF xEnd, yEnd
<1> QED
  BY <1>1, <1>2, <1>3, <1>4 DEF Parts, PartOK

LEMMA TasksApart ==
  ASSUME TypeOK, NEW k \in Grid, NEW m \in Grid, k # m
  PROVE  PixelsOf(Task(k[1], k[2])) \cap PixelsOf(Task(m[1], m[2])) = {}
<1>1. /\ height \in Nat /\ width \in Nat /\ TASK_SIZE \in Nat
      /\ taskRows \in Nat /\ taskCols \in Nat
  BY Dimensions
<1>2. /\ k[1] \in 0 .. taskRows - 1 /\ k[2] \in 0 .. taskCols - 1
      /\ m[1] \in 0 .. taskRows - 1 /\ m[2] \in 0 .. taskCols - 1
      /\ k[1] # m[1] \/ k[2] # m[2]
  BY DEF Grid
<1> DEFINE a == Task(k[1], k[2])
           b == Task(m[1], m[2])
<1>3. a \in Parts /\ PartOK(a) /\ b \in Parts /\ PartOK(b)
  BY <1>2, TaskInside
<1>4. /\ a = [xStart |-> TASK_SIZE * k[2], xEnd |-> CutEnd(TASK_SIZE, k[2], taskCols, width),
              j |-> TASK_SIZE * k[1], yEnd |-> CutEnd(TASK_SIZE, k[1], taskRows, height)]
      /\ b = [xStart |-> TASK_SIZE * m[2], xEnd |-> CutEnd(TASK_SIZE, m[2], taskCols, width),
              j |-> TASK_SIZE * m[1], yEnd |-> CutEnd(TASK_SIZE, m[1], taskRows, height)]
  <2>1. k[1] \in Nat /\ k[2] \in Nat /\ m[1] \in Nat /\ m[2] \in Nat
    BY <1>1, <1>2
  <2> QED
    BY <2>1, TaskEnds
<1>5. \/ a.yEnd <= b.j \/ b.yEnd <= a.j
      \/ a.xEnd <= b.xStart \/ b.xEnd <= a.xStart
  <2>1. CASE k[1] < m[1]
    <3>1. CutEnd(TASK_SIZE, k[1], taskRows, height) <= TASK_SIZE * m[1]
      BY <1>1, <1>2, <2>1, CutsApart
    <3> QED
      BY <1>4, <3>1
  <2>2. CASE m[1] < k[1]
    <3>1. CutEnd(TASK_SIZE, m[1], taskRows, height) <= TASK_SIZE * k[1]
      BY <1>1, <1>2, <2>2, CutsApart
    <3> QED
      BY <1>4, <3>1
  <2>3. CASE k[2] < m[2]
    <3>1. CutEnd(TASK_SIZE, k[2], taskCols, width) <= TASK_SIZE * m[2]
      BY <1>1, <1>2, <2>3, CutsApart
    <3> QED
      BY <1>4, <3>1
  <2>4. CASE m[2] < k[2]
    <3>1. CutEnd(TASK_SIZE, m[2], taskCols, width) <= TASK_SIZE * k[2]
      BY <1>1, <1>2, <2>4, CutsApart
    <3> QED
      BY <1>4, <3>1
  <2> QED
    BY <1>1, <1>2, <2>1, <2>2, <2>3, <2>4
<1> HIDE DEF a, b
<1>6. /\ PixelsOf(a) = (a.xStart .. a.xEnd - 1) \X (a.j .. a.yEnd - 1)
      /\ PixelsOf(b) = (b.xStart .. b.xEnd - 1) \X (b.j .. b.yEnd - 1)
  BY <1>3, PixelsInside DEF Parts
<1>7. \/ (a.xStart .. a.xEnd - 1) \cap (b.xStart .. b.xEnd - 1) = {}
      \/ (a.j .. a.yEnd - 1) \cap (b.j .. b.yEnd - 1) = {}
  BY <1>3, <1>5 DEF Parts
<1>8. PixelsOf(a) \cap PixelsOf(b) = {}
  BY <1>6, <1>7
<1> QED
  BY <1>8 DEF a, b

LEMMA TasksCover ==
  ASSUME TypeOK, width >= TASK_SIZE, height >= TASK_SIZE, NEW z \in Image
  PROVE  \E k \in Grid : z \in PixelsOf(Task(k[1], k[2]))
<1>1. /\ height \in Nat /\ width \in Nat /\ TASK_SIZE \in Nat
      /\ taskRows \in Nat \ {0} /\ taskCols \in Nat \ {0}
  <2>1. /\ height \in Nat /\ width \in Nat /\ TASK_SIZE \in Nat
        /\ taskRows \in Nat /\ taskCols \in Nat
    BY Dimensions
  <2> QED
    BY <2>1, TaskCounts
<1>2. PICK x \in 0 .. width - 1, y \in 0 .. height - 1 : z = <<x, y>>
  BY DEF Image
<1>3. PICK i \in 0 .. taskRows - 1 :
        TASK_SIZE * i <= y /\ y < CutEnd(TASK_SIZE, i, taskRows, height)
  BY <1>1, TaskCounts, CutsCover
<1>4. PICK j \in 0 .. taskCols - 1 :
        TASK_SIZE * j <= x /\ x < CutEnd(TASK_SIZE, j, taskCols, width)
  BY <1>1, TaskCounts, CutsCover
<1>5. Task(i, j) \in Parts /\ PartOK(Task(i, j))
  BY TaskInside
<1>6. /\ Task(i, j).xStart <= x /\ x < Task(i, j).xEnd
      /\ Task(i, j).j <= y /\ y < Task(i, j).yEnd
  <2>1. i \in Nat /\ j \in Nat
    OBVIOUS
  <2>2. Task(i, j) =
          [xStart |-> TASK_SIZE * j, xEnd |-> CutEnd(TASK_SIZE, j, taskCols, width),
           j |-> TASK_SIZE * i, yEnd |-> CutEnd(TASK_SIZE, i, taskRows, height)]
    BY <2>1, TaskEnds
  <2> QED
    BY <1>3, <1>4, <2>2
<1>7. z \in PixelsOf(Task(i, j))
  BY <1>2, <1>5, <1>6, InRectangle DEF Parts
<1>8. <<i, j>> \in Grid /\ <<i, j>>[1] = i /\ <<i, j>>[2] = j
  BY DEF Grid
<1> QED
  BY <1>7, <1>8

-----------------------------------------------------------------------------
(* The list of tasks: row i and column j are number i * taskCols + j.      *)
LEMMA TaskNumber ==
  ASSUME TypeOK, NEW k \in Grid
  PROVE  /\ k[1] * taskCols + k[2] \in 0 .. nTasks - 1
         /\ (k[1] * taskCols + k[2]) \div taskCols = k[1]
         /\ (k[1] * taskCols + k[2]) % taskCols = k[2]
<1>1. taskRows \in Nat /\ taskCols \in Nat /\ nTasks \in Nat
  BY Dimensions
<1> DEFINE i == k[1]
           j == k[2]
<1>2. i \in Nat /\ j \in Nat /\ i + 1 <= taskRows /\ j < taskCols
  BY <1>1 DEF Grid
<1> HIDE DEF i, j
<1>3. (i + 1) * taskCols <= taskRows * taskCols
  BY <1>1, <1>2, Monotone
<1>4. /\ (i + 1) * taskCols = i * taskCols + taskCols
      /\ i * taskCols \in Nat /\ taskRows * taskCols \in Nat
  BY <1>1, <1>2, OneMore, ProductNat
<1>5. i * taskCols + j \in 0 .. nTasks - 1
  BY <1>1, <1>2, <1>3, <1>4 DEF nTasks
<1>6. taskCols \in Nat \ {0} /\ j \in 0 .. taskCols - 1
  BY <1>1, <1>2
<1>7. (i * taskCols + j) \div taskCols = i /\ (i * taskCols + j) % taskCols = j
  BY <1>2, <1>6
<1> QED
  BY <1>5, <1>7 DEF i, j

LEMMA TaskOfNumber ==
  ASSUME TypeOK, NEW n \in 0 .. nTasks - 1
  PROVE  /\ <<n \div taskCols, n % taskCols>> \in Grid
         /\ (n \div taskCols) * taskCols + (n % taskCols) = n
<1>1. taskRows \in Nat /\ taskCols \in Nat /\ nTasks \in Nat /\ n \in Nat
  BY Dimensions
<1>2. taskCols \in Nat \ {0}
  <2> SUFFICES ASSUME taskCols = 0 PROVE FALSE
    BY <1>1
  <2>1. nTasks = 0
    BY <1>1 DEF nTasks
  <2> QED
    BY <2>1
<1> DEFINE i == n \div taskCols
           j == n % taskCols
<1>3. i \in Nat /\ j \in 0 .. taskCols - 1 /\ n = taskCols * i + j
  BY <1>1, <1>2, DivMod
<1> HIDE DEF i, j
<1>4. taskCols * i = i * taskCols /\ i * taskCols \in Nat /\ taskRows * taskCols \in Nat
  BY <1>1, <1>3, ProductNat
<1>5. i < taskRows
  <2> SUFFICES ASSUME taskRows <= i PROVE FALSE
    BY <1>1, <1>3
  <2>1. taskRows * taskCols <= i * taskCols
    BY <1>1, <1>3, Monotone
  <2> QED
    BY <1>1, <1>3, <1>4, <2>1 DEF nTasks
<1>6. <<i, j>> \in Grid /\ i * taskCols + j = n
  BY <1>1, <1>3, <1>4, <1>5 DEF Grid
<1> QED
  BY <1>6 DEF i, j

-----------------------------------------------------------------------------
(* The steps.                                                              *)
Labels ==
  Ended \cup {"arguments", "image", "create", "join", "save",
              "new", "missing", "claim", "draw", "done"}

Done == {t \in Threads : pc[t] = "done"}

LEMMA MainAndThreads ==
  /\ Main \in Painters /\ Main \notin Threads
  /\ Threads \subseteq Painters
  /\ \A p \in Painters : p \in Threads \/ p = Main
BY FractalAssumption DEF Main, Threads, Painters

\* Goto moves one painter.
LEMMA Moves ==
  ASSUME TypeOK, NEW p \in Painters, NEW next \in Labels, Goto(p, next)
  PROVE  /\ pc' \in [Painters -> Labels]
         /\ pc'[p] = next
         /\ \A q \in Painters : q # p => pc'[q] = pc[q]
BY DEF TypeOK, Goto, Labels

\* With the settings the geometry stays what it is.
LEMMA SameGeometry ==
  ASSUME settings' = settings
  PROVE  /\ width' = width /\ height' = height /\ Image' = Image
         /\ taskRows' = taskRows /\ taskCols' = taskCols /\ nTasks' = nTasks
         /\ \A q : PixelsOf(q)' = PixelsOf(q)
         /\ \A i : Band(i)' = Band(i)
         /\ \A i, j : Task(i, j)' = Task(i, j)
         /\ \A q : PartOK(q)' <=> PartOK(q)
         /\ TooSmall' <=> TooSmall
BY DEF width, height, Image, step, taskRows, taskCols, nTasks, PixelsOf, Wrapped, Band, Task,
       PieceEnd, PartOK, TooSmall

\* The thread main creates next has not been created yet.
LEMMA NextThread ==
  ASSUME TypeOK, MainLoops, created < settings.nThreads
  PROVE  /\ created \in Threads /\ created \in 0 .. settings.nThreads - 1
         /\ created \in Painters /\ created # Main
         /\ pc[created] = "new"
<1>1. /\ created \in Nat /\ settings.nThreads \in Nat /\ settings.nThreads <= MAX_THREADS
      /\ MAX_THREADS \in Nat
  BY Dimensions, FractalAssumption DEF TypeOK
<1>2. created \in Threads /\ created \in 0 .. settings.nThreads - 1
  BY <1>1 DEF Threads
<1> QED
  BY <1>1, <1>2, MainAndThreads DEF MainLoops

\* Before the picture is made no thread exists and no pixel is drawn.
LEMMA NothingYet ==
  ASSUME TypeOK, MainLoops, pc[Main] \in Early
  PROVE  /\ created = 0 /\ nextTask = 0 /\ drawn = {} /\ joined = 0
         /\ \A t \in Threads : pc[t] = "new"
         /\ \A p \in Painters : pc[p] # "draw" /\ Left(p) = {}
<1>1. created = 0 /\ nextTask = 0 /\ drawn = {} /\ joined = 0
  BY DEF MainLoops, TypeOK
<1>2. \A t \in Threads : pc[t] = "new"
  BY <1>1, FractalAssumption DEF MainLoops, Threads
<1>3. \A p \in Painters : pc[p] # "draw"
  BY <1>2, MainAndThreads DEF Early
<1> QED
  BY <1>1, <1>2, <1>3 DEF Left

LEMMA DoneFinite ==
  IsFiniteSet(Threads) /\ IsFiniteSet(Done) /\ Cardinality(Done) \in Nat
<1>1. IsFiniteSet(Threads)
  BY FractalAssumption, FS_Interval DEF Threads
<1>2. IsFiniteSet(Done)
  BY <1>1, FS_Subset DEF Done
<1> QED
  BY <1>1, <1>2, FS_CardinalityType

LEMMA DoneGrows ==
  ASSUME \A t \in Threads : pc[t] = "done" => pc'[t] = "done"
  PROVE  Cardinality(Done)' \in Nat /\ Cardinality(Done) <= Cardinality(Done)'
<1>1. Done \subseteq Done' /\ Done' \subseteq Threads
  BY DEF Done
<1>2. IsFiniteSet(Done')
  BY <1>1, DoneFinite, FS_Subset
<1>3. Cardinality(Done) <= Cardinality(Done') /\ Cardinality(Done') \in Nat
  BY <1>1, <1>2, FS_Subset, FS_CardinalityType
<1> QED
  BY <1>3

\* What happens to settings: only the arguments change it.
LEMMA SettingsTyped ==
  ASSUME TypeOK, Next
  PROVE  \/ settings' = settings
         \/ /\ pc[Main] = "arguments"
            /\ settings' \in [nPixelWidth : Nat, nPixelHeight : Nat, nMaxIter : Nat,
                              nThreads : 1 .. MAX_THREADS,
                              theMode : {"single", "row", "task"}]
            /\ UNCHANGED <<pc, part, created, joined, nextTask, drawn>>
<1>1. CASE UserStep
  <2>1. /\ \A v \in Sizes : v \in Nat
        /\ \A v \in Iterations : v \in Nat
    BY FractalAssumption
  <2>2. ASSUME TakeSize
        PROVE  /\ pc[Main] = "arguments"
               /\ settings' \in [nPixelWidth : Nat, nPixelHeight : Nat, nMaxIter : Nat,
                              nThreads : 1 .. MAX_THREADS,
                              theMode : {"single", "row", "task"}]
               /\ UNCHANGED <<pc, part, created, joined, nextTask, drawn>>
    BY <2>1, <2>2 DEF TakeSize, Set, TypeOK, threadVars
  <2>3. ASSUME TakeMaxIter
        PROVE  /\ pc[Main] = "arguments"
               /\ settings' \in [nPixelWidth : Nat, nPixelHeight : Nat, nMaxIter : Nat,
                              nThreads : 1 .. MAX_THREADS,
                              theMode : {"single", "row", "task"}]
               /\ UNCHANGED <<pc, part, created, joined, nextTask, drawn>>
    BY <2>1, <2>3 DEF TakeMaxIter, Set, TypeOK, threadVars
  <2>4. ASSUME TakeThreads
        PROVE  /\ pc[Main] = "arguments"
               /\ settings' \in [nPixelWidth : Nat, nPixelHeight : Nat, nMaxIter : Nat,
                              nThreads : 1 .. MAX_THREADS,
                              theMode : {"single", "row", "task"}]
               /\ UNCHANGED <<pc, part, created, joined, nextTask, drawn>>
    BY <2>4 DEF TakeThreads, Set, TypeOK, threadVars
  <2>5. ASSUME TakeMode
        PROVE  /\ pc[Main] = "arguments"
               /\ settings' \in [nPixelWidth : Nat, nPixelHeight : Nat, nMaxIter : Nat,
                              nThreads : 1 .. MAX_THREADS,
                              theMode : {"single", "row", "task"}]
               /\ UNCHANGED <<pc, part, created, joined, nextTask, drawn>>
    BY <2>5 DEF TakeMode, Set, TypeOK, threadVars
  <2>6. RefuseArguments => settings' = settings
    BY DEF RefuseArguments
  <2> QED
    BY <1>1, <2>2, <2>3, <2>4, <2>5, <2>6 DEF UserStep
<1>2. CASE MainStep
  BY <1>2 DEF MainStep, ArgumentsEnd, CreateImage, CreateThread, AllCreated, JoinThread,
              JoinMissing, AllJoined, Save
<1>3. CASE Misfortune
  BY <1>3 DEF Misfortune, MutexFails, OutOfMemory, CreateFails
<1>4. CASE \E p \in Painters : PainterStep(p)
  BY <1>4 DEF PainterStep, ClaimTask, NoTaskLeft, DrawRow, DivideByZero, PartDrawn
<1> QED
  BY <1>1, <1>2, <1>3, <1>4 DEF Next

\* The steps once the arguments are given, by what they do.  Main or a crash moves
\* main alone; the others move one painter.
MainMoves ==
  /\ UNCHANGED <<settings, threadVars>>
  /\ \/ pc[Main] = "arguments" /\ Goto(Main, "image")
     \/ pc[Main] = "arguments" /\ Goto(Main, "refused")
     \/ pc[Main] = "image" /\ Goto(Main, "noMutex")
     \/ Running /\ Goto(Main, "crashed")
     \/ pc[Main] = "create" /\ created = settings.nThreads /\ Goto(Main, "join")
     \/ pc[Main] = "join" /\ joined = settings.nThreads /\ Goto(Main, "save")
     \/ pc[Main] = "save" /\ Goto(Main, "saved")
     \/ pc[Main] = "save" /\ Goto(Main, "unsaved")

\* main passes the thread it joins, or one that it cannot.
Joins ==
  /\ pc[Main] = "join" /\ joined < settings.nThreads
  /\ pc[joined] \in {"done", "missing"}
  /\ joined' = joined + 1
  /\ UNCHANGED <<settings, pc, part, created, nextTask, drawn>>

LEMMA StepKinds ==
  ASSUME Next, settings' = settings
  PROVE  \/ UNCHANGED fractalVars
         \/ MainMoves \/ CreateImage
         \/ CreateThread \/ CreateFails \/ Joins
         \/ \E p \in Painters :
              /\ Running
              /\ ClaimTask(p) \/ NoTaskLeft(p) \/ DrawRow(p) \/ PartDrawn(p)
<1>1. CASE UserStep
  <2>1. \A field, value : Set(field, value) => UNCHANGED fractalVars
    BY DEF Set, threadVars, fractalVars
  <2> QED
    BY <1>1, <2>1 DEF UserStep, TakeSize, TakeMaxIter, TakeThreads, TakeMode, RefuseArguments, MainMoves
<1>2. CASE MainStep
  <2>1. "join" \notin Ended
    BY DEF Ended
  <2> QED
    BY <1>2, <2>1 DEF MainStep, ArgumentsEnd, AllCreated, JoinThread, JoinMissing, AllJoined,
                      Save, MainMoves, Joins, Running, threadVars
<1>3. CASE Misfortune
  <2>1. "image" \notin Ended
    BY DEF Ended
  <2> QED
    BY <1>3, <2>1 DEF Misfortune, MutexFails, OutOfMemory, MainMoves, Running
<1>4. CASE \E p \in Painters : PainterStep(p)
  BY <1>4 DEF PainterStep, DivideByZero, MainMoves
<1> QED
  BY <1>1, <1>2, <1>3, <1>4 DEF Next

-----------------------------------------------------------------------------
\* A painter that has more rows to draw; it stays inside the image.
LEMMA NextRow ==
  ASSUME TypeOK, NEW p \in Painters, DrawRow(p)
  PROVE  /\ part' \in [Painters -> Parts]
         /\ PartOK(part'[p])
         /\ \A q \in Painters : q # p => part'[q] = part[q]
         /\ Row(p) \subseteq Image
         /\ PixelsOf(part[p]) = Row(p) \cup PixelsOf(part'[p])
         /\ Row(p) \cap PixelsOf(part'[p]) = {}
<1>1. part \in [Painters -> Parts] /\ part[p] \in Parts /\ PartOK(part[p])
  BY DEF TypeOK, Parts, DrawRow
<1> DEFINE q == part[p]
           row == [q EXCEPT !.yEnd = q.j + 1]
           rest == [q EXCEPT !.j = q.j + 1]
<1>2. /\ part' = [part EXCEPT ![p] = rest] /\ q.j < q.yEnd
      /\ Row(p) = PixelsOf(row)
  BY DEF DrawRow, Row
<1>3. /\ q \in Parts /\ PartOK(q)
      /\ row = [xStart |-> q.xStart, xEnd |-> q.xEnd, j |-> q.j, yEnd |-> q.j + 1]
      /\ rest = [xStart |-> q.xStart, xEnd |-> q.xEnd, j |-> q.j + 1, yEnd |-> q.yEnd]
  BY <1>1 DEF Parts
<1>4. part' \in [Painters -> Parts] /\ part'[p] = rest
      /\ \A r \in Painters : r # p => part'[r] = part[r]
  <2>1. rest \in Parts
    BY <1>1, <1>3 DEF Parts
  <2> HIDE DEF rest
  <2> QED
    BY <1>1, <1>2, <2>1
<1> HIDE DEF q, row, rest
<1>5. height \in Nat /\ width \in Nat
  BY Dimensions
<1>6. /\ row \in Parts /\ PartOK(row) /\ rest \in Parts /\ PartOK(rest)
  BY <1>2, <1>3, <1>5 DEF Parts, PartOK
<1>7. /\ PixelsOf(q) = (q.xStart .. q.xEnd - 1) \X (q.j .. q.yEnd - 1)
      /\ PixelsOf(row) = (q.xStart .. q.xEnd - 1) \X (q.j .. q.j + 1 - 1)
      /\ PixelsOf(rest) = (q.xStart .. q.xEnd - 1) \X (q.j + 1 .. q.yEnd - 1)
      /\ PixelsOf(row) \subseteq Image
  <2>1. PixelsOf(q) = (q.xStart .. q.xEnd - 1) \X (q.j .. q.yEnd - 1)
    BY <1>3, PixelsInside DEF Parts
  <2>2. /\ PixelsOf(row) = (row.xStart .. row.xEnd - 1) \X (row.j .. row.yEnd - 1)
        /\ PixelsOf(row) \subseteq Image
    BY <1>6, PixelsInside DEF Parts
  <2>3. PixelsOf(rest) = (rest.xStart .. rest.xEnd - 1) \X (rest.j .. rest.yEnd - 1)
    BY <1>6, PixelsInside DEF Parts
  <2>4. /\ row.xStart = q.xStart /\ row.xEnd = q.xEnd /\ row.j = q.j /\ row.yEnd = q.j + 1
        /\ rest.xStart = q.xStart /\ rest.xEnd = q.xEnd /\ rest.j = q.j + 1 /\ rest.yEnd = q.yEnd
    BY <1>3
  <2>5. /\ PixelsOf(row) = (q.xStart .. q.xEnd - 1) \X (q.j .. q.j + 1 - 1)
        /\ PixelsOf(rest) = (q.xStart .. q.xEnd - 1) \X (q.j + 1 .. q.yEnd - 1)
    <3>1. /\ row.xStart .. row.xEnd - 1 = q.xStart .. q.xEnd - 1
          /\ rest.xStart .. rest.xEnd - 1 = q.xStart .. q.xEnd - 1
          /\ row.j .. row.yEnd - 1 = q.j .. q.j + 1 - 1
          /\ rest.j .. rest.yEnd - 1 = q.j + 1 .. q.yEnd - 1
      BY <1>3, <1>6, <2>4 DEF Parts
    <3> QED
      BY <2>2, <2>3, <3>1, Zenon
  <2> QED
    BY <2>1, <2>2, <2>5
<1>8. /\ q.j .. q.yEnd - 1 = (q.j .. q.j + 1 - 1) \cup (q.j + 1 .. q.yEnd - 1)
      /\ (q.j .. q.j + 1 - 1) \cap (q.j + 1 .. q.yEnd - 1) = {}
  BY <1>2, <1>3 DEF Parts
<1>9. /\ PixelsOf(q) = PixelsOf(row) \cup PixelsOf(rest)
      /\ PixelsOf(row) \cap PixelsOf(rest) = {}
  BY <1>7, <1>8
<1> QED
  BY <1>2, <1>4, <1>6, <1>7, <1>9 DEF q

\* The next task of the list.
LEMMA NextOfTasks ==
  ASSUME TypeOK, NEW p \in Painters, ClaimTask(p)
  PROVE  LET k == <<nextTask \div taskCols, nextTask % taskCols>> IN
         /\ nextTask \in 0 .. nTasks - 1
         /\ k \in Grid
         /\ k[1] * taskCols + k[2] = nextTask
         /\ part'[p] = Task(k[1], k[2])
         /\ Task(k[1], k[2]) \in Parts /\ PartOK(Task(k[1], k[2]))
         /\ part' \in [Painters -> Parts]
         /\ \A q \in Painters : q # p => part'[q] = part[q]
<1> DEFINE k == <<nextTask \div taskCols, nextTask % taskCols>>
<1>1. nextTask \in 0 .. nTasks - 1
  <2>1. nextTask \in Nat /\ nextTask < nTasks /\ nTasks \in Nat
    BY DoneFinite, Dimensions DEF TypeOK, ClaimTask, Done
  <2> QED
    BY <2>1
<1>2. k \in Grid /\ k[1] * taskCols + k[2] = nextTask
  BY <1>1, TaskOfNumber
<1>3. part' = [part EXCEPT ![p] = Task(k[1], k[2])]
  BY DEF ClaimTask
<1> HIDE DEF k
<1>4. Task(k[1], k[2]) \in Parts /\ PartOK(Task(k[1], k[2]))
  BY <1>2, TaskInside DEF Grid
<1>5. part \in [Painters -> Parts]
  BY DEF TypeOK, Parts
<1>6. part'[p] = Task(k[1], k[2])
  BY <1>3, <1>5
<1>7. part' \in [Painters -> Parts] /\ \A q \in Painters : q # p => part'[q] = part[q]
  BY <1>3, <1>4, <1>5
<1> QED
  BY <1>1, <1>2, <1>4, <1>6, <1>7 DEF k

-----------------------------------------------------------------------------
(* Safe is inductive: its conjuncts, one after the other.                  *)
LEMMA TypeInit == Init => TypeOK
<1> SUFFICES ASSUME Init PROVE TypeOK
  OBVIOUS
<1>1. /\ settings \in [nPixelWidth : Nat, nPixelHeight : Nat, nMaxIter : Nat,
                      nThreads : 1 .. MAX_THREADS, theMode : {"single", "row", "task"}]
      /\ settings.nThreads = 1
  BY FractalAssumption DEF Init
<1>2. pc \in [Painters -> Labels] /\ \A p \in Painters : pc[p] # "draw"
  BY DEF Init, Labels
<1>3. part \in [Painters -> Parts]
  BY DEF Init, nothing, Parts
<1>4. width \in Nat /\ height \in Nat /\ TASK_SIZE \in Nat \ {0}
  BY <1>1, FractalAssumption DEF width, height
<1>5. nTasks \in Nat
  <2>1. taskRows \in Nat /\ taskCols \in Nat
    BY <1>4, DivMod DEF taskRows, taskCols
  <2> QED
    BY <2>1, ProductNat DEF nTasks
<1>6. nextTask \in 0 .. nTasks + Cardinality(Done)
  BY <1>5, DoneFinite DEF Init
<1>7. created \in 0 .. settings.nThreads /\ joined \in 0 .. created /\ drawn \subseteq Image
  BY <1>1 DEF Init
<1> QED
  BY <1>1, <1>2, <1>3, <1>6, <1>7 DEF TypeOK, Labels, Parts, Done

\* The counter of the tasks, when no thread that was done is not done any more.
LEMMA CounterInRange ==
  ASSUME TypeOK, settings' = settings, nextTask' = nextTask,
         \A t \in Threads : pc[t] = "done" => pc'[t] = "done"
  PROVE  nextTask' \in 0 .. (nTasks + Cardinality(Done))'
<1>1. nextTask \in 0 .. nTasks + Cardinality(Done)
  BY DEF TypeOK, Done
<1>2. nTasks' = nTasks /\ nTasks \in Nat
  BY SameGeometry, Dimensions
<1>3. Cardinality(Done)' \in Nat /\ Cardinality(Done) <= Cardinality(Done)'
  BY DoneGrows
<1>4. Cardinality(Done) \in Nat
  BY DoneFinite
<1> QED
  BY <1>1, <1>2, <1>3, <1>4

LEMMA TypeStep ==
  ASSUME TypeOK, MainLoops, [Next]_fractalVars
  PROVE  TypeOK'
<1> DEFINE Settings ==
      [nPixelWidth : Nat, nPixelHeight : Nat, nMaxIter : Nat,
       nThreads : 1 .. MAX_THREADS, theMode : {"single", "row", "task"}]
<1>1. CASE settings' # settings
  <2>1. /\ pc[Main] = "arguments" /\ settings' \in Settings
        /\ UNCHANGED <<pc, part, created, joined, nextTask, drawn>>
    BY <1>1, SettingsTyped DEF fractalVars
  <2>2. /\ created = 0 /\ nextTask = 0 /\ drawn = {} /\ joined = 0
        /\ \A p \in Painters : pc[p] # "draw"
    BY <2>1, NothingYet DEF Early
  <2>3. nTasks' \in Nat /\ (settings.nThreads)' \in Nat
    <3>1. width' \in Nat /\ height' \in Nat /\ (settings.nThreads)' \in 1 .. MAX_THREADS
      BY <2>1 DEF width, height
    <3>2. TASK_SIZE \in Nat \ {0} /\ MAX_THREADS \in Nat
      BY FractalAssumption
    <3>3. taskRows' \in Nat /\ taskCols' \in Nat
      BY <3>1, <3>2, DivMod DEF taskRows, taskCols
    <3>4. taskRows' * taskCols' \in Nat
      BY <3>3, ProductNat
    <3>5. nTasks' = taskRows' * taskCols'
      BY DEF nTasks
    <3> QED
      BY <3>1, <3>2, <3>4, <3>5
  <2>4. Done' = Done
    BY <2>1 DEF Done
  <2>5. nextTask' \in 0 .. (nTasks + Cardinality(Done))'
    BY <2>1, <2>2, <2>3, <2>4, DoneFinite
  <2>6. created' \in 0 .. (settings.nThreads)' /\ joined' \in 0 .. created' /\ drawn' \subseteq Image'
    BY <2>1, <2>2, <2>3
  <2>7. /\ pc' \in [Painters -> Labels] /\ part' \in [Painters -> Parts]
        /\ \A p \in Painters : pc'[p] # "draw"
    BY <2>1, <2>2 DEF TypeOK, Labels, Parts
  <2> QED
    BY <2>1, <2>5, <2>6, <2>7 DEF TypeOK, Labels, Parts, Done
<1>2. CASE settings' = settings
  <2> USE <1>2
  <2> DEFINE Rest ==
        /\ pc' \in [Painters -> Labels]
        /\ part' \in [Painters -> Parts]
        /\ \A p \in Painters : pc'[p] = "draw" => PartOK(part'[p])
        /\ created' \in 0 .. settings.nThreads
        /\ joined' \in 0 .. created'
        /\ nextTask' \in 0 .. (nTasks + Cardinality(Done))'
        /\ drawn' \subseteq Image
  <2>0. /\ pc \in [Painters -> Labels] /\ part \in [Painters -> Parts]
        /\ \A p \in Painters : pc[p] = "draw" => PartOK(part[p])
        /\ created \in 0 .. settings.nThreads /\ joined \in 0 .. created
        /\ drawn \subseteq Image
        /\ settings \in Settings
        /\ Main \in Painters /\ Main \notin Threads
    BY MainAndThreads DEF TypeOK, Labels, Parts
  <2>1. SUFFICES Rest
    <3>1. Rest => /\ \A p \in Painters : pc'[p] = "draw" => PartOK(part[p])'
                  /\ created' \in 0 .. (settings.nThreads)'
                  /\ drawn' \subseteq Image'
                  /\ settings' \in Settings
      BY <2>0, SameGeometry DEF PartOK, width, height
    <3> QED
      BY <3>1 DEF TypeOK, Labels, Parts, Done
  <2>2. CASE UNCHANGED fractalVars
    <3>1. nextTask' \in 0 .. (nTasks + Cardinality(Done))'
      BY <2>2, CounterInRange DEF fractalVars
    <3> QED
      BY <2>0, <2>2, <3>1 DEF fractalVars
  <2>3. CASE MainMoves
    <3>1. PICK next \in Labels : Goto(Main, next) /\ next # "draw"
      BY <2>3 DEF MainMoves, Labels, Ended
    <3>2. /\ pc' \in [Painters -> Labels]
          /\ pc'[Main] # "draw"
          /\ \A q \in Painters : q # Main => pc'[q] = pc[q]
      BY <2>0, <3>1, Moves
    <3>3. UNCHANGED threadVars
      BY <2>3 DEF MainMoves
    <3>4. nextTask' \in 0 .. (nTasks + Cardinality(Done))'
      BY <3>2, <3>3, CounterInRange, MainAndThreads DEF threadVars
    <3> QED
      BY <2>0, <3>2, <3>3, <3>4 DEF threadVars
  <2>4. CASE CreateImage
    <3>1. PICK next \in {"draw", "create"} : Goto(Main, next)
      BY <2>4 DEF CreateImage
    <3>2. /\ pc' \in [Painters -> Labels]
          /\ pc'[Main] = next
          /\ \A q \in Painters : q # Main => pc'[q] = pc[q]
      <4>1. next \in Labels
        BY DEF Labels
      <4> QED
        BY <2>0, <3>1, <4>1, Moves
    <3>3. nextTask' \in 0 .. (nTasks + Cardinality(Done))'
      BY <2>4, <3>2, CounterInRange, MainAndThreads DEF CreateImage
    <3>4. /\ part' \in [Painters -> Parts]
          /\ \A q \in Painters : q # Main => part'[q] = part[q]
          /\ pc'[Main] = "draw" => PartOK(part'[Main])
      <4>1. WholeImage \in Parts /\ PartOK(WholeImage)
        BY Dimensions DEF WholeImage, Parts, PartOK
      <4>2. CASE settings.theMode = "single"
        BY <2>0, <2>4, <4>1, <4>2 DEF CreateImage
      <4>3. CASE settings.theMode # "single"
        BY <2>0, <2>4, <3>2, <4>3 DEF CreateImage, Goto
      <4> QED
        BY <4>2, <4>3
    <3> QED
      BY <2>0, <2>4, <3>2, <3>3, <3>4 DEF CreateImage
  <2>5. CASE CreateThread
    <3>1. /\ created \in Threads /\ created \in 0 .. settings.nThreads - 1
          /\ created \in Painters /\ created # Main /\ pc[created] = "new"
      BY <2>5, NextThread DEF CreateThread
    <3>2. PICK next \in {"draw", "claim"} : Goto(created, next)
      BY <2>5 DEF CreateThread
    <3>3. /\ pc' \in [Painters -> Labels]
          /\ pc'[created] = next
          /\ \A q \in Painters : q # created => pc'[q] = pc[q]
      <4>1. next \in Labels
        BY DEF Labels
      <4> QED
        BY <3>1, <3>2, <4>1, Moves
    <3>4. nextTask' \in 0 .. (nTasks + Cardinality(Done))'
      BY <2>5, <3>1, <3>3, CounterInRange, MainAndThreads DEF CreateThread
    <3>5. /\ part' \in [Painters -> Parts]
          /\ \A q \in Painters : q # created => part'[q] = part[q]
          /\ pc'[created] = "draw" => PartOK(part'[created])
      <4>1. Band(created) \in Parts /\ PartOK(Band(created))
        BY <3>1, BandInside
      <4>2. CASE settings.theMode = "row"
        BY <2>0, <2>5, <3>1, <4>1, <4>2 DEF CreateThread
      <4>3. CASE settings.theMode # "row"
        <5>1. pc'[created] = "claim"
          BY <2>0, <2>5, <3>1, <4>3 DEF CreateThread, Goto
        <5> QED
          BY <2>0, <2>5, <4>3, <5>1 DEF CreateThread
      <4> QED
        BY <4>2, <4>3
    <3>6. created' \in 0 .. settings.nThreads /\ joined' \in 0 .. created'
      BY <2>0, <2>5, <3>1, Dimensions DEF CreateThread
    <3> QED
      BY <2>0, <2>5, <3>3, <3>4, <3>5, <3>6 DEF CreateThread
  <2>6. CASE CreateFails
    <3>1. /\ created \in Threads /\ created \in 0 .. settings.nThreads - 1
          /\ created \in Painters /\ created # Main /\ pc[created] = "new"
      BY <2>6, NextThread DEF CreateFails
    <3>2. /\ pc' \in [Painters -> Labels]
          /\ pc'[created] = "missing"
          /\ \A q \in Painters : q # created => pc'[q] = pc[q]
      <4>1. "missing" \in Labels
        BY DEF Labels
      <4> QED
        BY <2>6, <3>1, <4>1, Moves DEF CreateFails
    <3>3. nextTask' \in 0 .. (nTasks + Cardinality(Done))'
      BY <2>6, <3>1, <3>2, CounterInRange, MainAndThreads DEF CreateFails
    <3>4. created' \in 0 .. settings.nThreads /\ joined' \in 0 .. created'
      BY <2>0, <2>6, <3>1, Dimensions DEF CreateFails
    <3> QED
      BY <2>0, <2>6, <3>2, <3>3, <3>4 DEF CreateFails
  <2>7. CASE Joins
    <3>1. nextTask' \in 0 .. (nTasks + Cardinality(Done))'
      BY <2>7, CounterInRange DEF Joins
    <3>2. joined' \in 0 .. created'
      <4>1. joined \in Threads
        BY <2>0, <2>7, Dimensions, FractalAssumption DEF Joins, Threads
      <4>2. joined < created
        BY <2>0, <2>7, <4>1, Dimensions DEF MainLoops, Joins
      <4> QED
        BY <2>0, <2>7, <4>2 DEF Joins
    <3> QED
      BY <2>0, <2>7, <3>1, <3>2 DEF Joins
  <2>8. ASSUME NEW p \in Painters, ClaimTask(p) PROVE Rest
    <3>1. /\ pc' \in [Painters -> Labels]
          /\ pc'[p] = "draw"
          /\ \A q \in Painters : q # p => pc'[q] = pc[q]
      <4>1. "draw" \in Labels
        BY DEF Labels
      <4> QED
        BY <2>8, <4>1, Moves DEF ClaimTask
    <3>2. /\ nextTask \in 0 .. nTasks - 1
          /\ part' \in [Painters -> Parts] /\ PartOK(part'[p])
          /\ \A q \in Painters : q # p => part'[q] = part[q]
      BY <2>8, NextOfTasks
    <3>3. nextTask' \in 0 .. (nTasks + Cardinality(Done))'
      <4>1. nTasks' = nTasks /\ nTasks \in Nat
        BY SameGeometry, Dimensions
      <4>2. pc[p] = "claim"
        BY <2>8 DEF ClaimTask
      <4>3. Cardinality(Done)' \in Nat
        BY <3>1, <4>2, DoneGrows, MainAndThreads
      <4> QED
        BY <2>8, <3>2, <4>1, <4>3 DEF ClaimTask
    <3> QED
      BY <2>0, <2>8, <3>1, <3>2, <3>3 DEF ClaimTask
  <2>9. ASSUME NEW p \in Painters, NoTaskLeft(p) PROVE Rest
    <3>1. /\ pc' \in [Painters -> Labels]
          /\ pc'[p] = "done" /\ pc[p] = "claim"
          /\ \A q \in Painters : q # p => pc'[q] = pc[q]
      <4>1. "done" \in Labels
        BY DEF Labels
      <4> QED
        BY <2>9, <4>1, Moves DEF NoTaskLeft
    <3>2. p \in Threads
      BY <3>1, MainAndThreads DEF MainLoops, Ended
    <3>3. nextTask' \in 0 .. (nTasks + Cardinality(Done))'
      <4>1. nTasks' = nTasks /\ nTasks \in Nat
        BY SameGeometry, Dimensions
      <4>2. Done' = Done \cup {p} /\ p \notin Done
        BY <3>1, <3>2, MainAndThreads DEF Done
      <4>3. Cardinality(Done') = Cardinality(Done) + 1 /\ Cardinality(Done) \in Nat
        BY <4>2, DoneFinite, FS_AddElement
      <4>4. nextTask \in 0 .. nTasks + Cardinality(Done)
        BY DEF TypeOK, Done
      <4> QED
        BY <2>9, <4>1, <4>3, <4>4 DEF NoTaskLeft
    <3> QED
      BY <2>0, <2>9, <3>1, <3>3 DEF NoTaskLeft
  <2>10. ASSUME NEW p \in Painters, DrawRow(p) PROVE Rest
    <3>1. nextTask' \in 0 .. (nTasks + Cardinality(Done))'
      BY <2>10, CounterInRange DEF DrawRow
    <3>2. /\ part' \in [Painters -> Parts] /\ PartOK(part'[p])
          /\ \A q \in Painters : q # p => part'[q] = part[q]
          /\ Row(p) \subseteq Image
      BY <2>10, NextRow
    <3> QED
      BY <2>0, <2>10, <3>1, <3>2 DEF DrawRow
  <2>11. ASSUME NEW p \in Painters, PartDrawn(p) PROVE Rest
    <3>1. PICK next \in {"save", "claim", "done"} : Goto(p, next)
      BY <2>11 DEF PartDrawn
    <3>2. /\ pc' \in [Painters -> Labels]
          /\ pc'[p] = next /\ pc[p] = "draw"
          /\ \A q \in Painters : q # p => pc'[q] = pc[q]
      <4>1. next \in Labels
        BY DEF Labels
      <4> QED
        BY <2>11, <3>1, <4>1, Moves DEF PartDrawn
    <3>3. UNCHANGED threadVars
      BY <2>11 DEF PartDrawn
    <3>4. nextTask' \in 0 .. (nTasks + Cardinality(Done))'
      BY <3>2, <3>3, CounterInRange, MainAndThreads DEF threadVars
    <3> QED
      BY <2>0, <3>2, <3>3, <3>4 DEF threadVars
  <2>12. UNCHANGED fractalVars \/ Next
    OBVIOUS
  <2> QED
    BY <2>2, <2>3, <2>4, <2>5, <2>6, <2>7, <2>8, <2>9, <2>10, <2>11, <2>12, StepKinds
<1> QED
  BY <1>1, <1>2

LEMMA ControlInit == Init => MainLoops /\ Modes /\ OutOfTasks
<1> SUFFICES ASSUME Init PROVE MainLoops /\ Modes /\ OutOfTasks
  OBVIOUS
<1>1. /\ pc[Main] = "arguments" /\ created = 0 /\ joined = 0 /\ nextTask = 0 /\ drawn = {}
      /\ \A t \in Threads : pc[t] = "new" /\ t >= 0 /\ ~(t < 0)
  BY MainAndThreads, FractalAssumption DEF Init, Threads
<1>2. MainLoops
  BY <1>1 DEF MainLoops
<1> QED
  BY <1>1, <1>2 DEF Modes, OutOfTasks

Control == MainLoops /\ Modes /\ OutOfTasks

LEMMA ControlStep ==
  ASSUME TypeOK, Control, [Next]_fractalVars
  PROVE  Control'
<1>0. /\ Main \in Painters /\ Main \notin Threads /\ Threads \subseteq Painters
      /\ \A p \in Painters : p \in Threads \/ p = Main
      /\ created \in Nat /\ joined \in Nat /\ joined <= created
      /\ settings.nThreads \in Nat /\ nextTask \in Nat /\ nTasks \in Nat
      /\ settings.theMode \in {"single", "row", "task"}
      /\ \A t \in Threads : t \in Nat
  <2>1. nextTask \in Nat
    BY Dimensions, DoneFinite DEF TypeOK, Done
  <2>2. created \in 0 .. settings.nThreads /\ joined \in 0 .. created
    BY DEF TypeOK
  <2> QED
    BY <2>1, <2>2, MainAndThreads, Dimensions DEF TypeOK, Threads
<1>1. CASE settings' # settings
  <2>1. /\ pc[Main] = "arguments" /\ UNCHANGED <<pc, created, joined, nextTask, drawn>>
    BY <1>1, SettingsTyped DEF fractalVars
  <2>2. created = 0 /\ \A t \in Threads : pc[t] = "new"
    BY <2>1, NothingYet DEF Early, Control
  <2>3. MainLoops'
    BY <2>1 DEF MainLoops, Control
  <2> QED
    BY <2>1, <2>2, <2>3 DEF Modes, OutOfTasks, Control
<1>2. CASE settings' = settings
  <2>1. nTasks' = nTasks
    BY <1>2, SameGeometry
  <2>2. CASE UNCHANGED fractalVars
    BY <2>1, <2>2 DEF fractalVars, Control, MainLoops, Modes, OutOfTasks
  <2>3. CASE MainMoves
    <3>1. PICK next \in Labels : Goto(Main, next)
      BY <2>3 DEF MainMoves, Labels, Ended
    <3>2. /\ pc'[Main] = next
          /\ \A t \in Threads : pc'[t] = pc[t]
          /\ UNCHANGED <<settings, created, joined, nextTask, drawn>>
      BY <1>0, <2>3, <3>1, Moves DEF MainMoves, threadVars
    <3>3. /\ next \in Ended \cup {"image", "join", "save"}
          /\ next \in Early => pc[Main] \in Early
          /\ next = "join" => pc[Main] = "create" /\ created = settings.nThreads
      <4>1. pc'[Main] \in Ended \cup {"image", "join", "save"}
        BY <1>0, <2>3, Moves DEF MainMoves, Ended, Labels
      <4>2. pc'[Main] \in Early => pc[Main] \in Early
        BY <1>0, <2>3, Moves DEF MainMoves, Ended, Labels, Early
      <4>3. pc'[Main] = "join" => pc[Main] = "create" /\ created = settings.nThreads
        BY <1>0, <2>3, Moves DEF MainMoves, Ended, Labels
      <4> QED
        BY <3>2, <4>1, <4>2, <4>3
    <3>4. MainLoops'
      BY <3>2, <3>3 DEF Control, MainLoops
    <3>5. Modes'
      BY <3>2, <3>3 DEF Control, Modes, Ended
    <3> QED
      BY <2>1, <3>2, <3>4, <3>5 DEF Control, OutOfTasks
  <2>4. CASE CreateImage
    <3>1. /\ pc[Main] = "image"
          /\ Goto(Main, IF settings.theMode = "single" THEN "draw" ELSE "create")
          /\ UNCHANGED <<settings, created, joined, nextTask, drawn>>
      BY <2>4 DEF CreateImage
    <3>2. /\ pc'[Main] = IF settings.theMode = "single" THEN "draw" ELSE "create"
          /\ \A t \in Threads : pc'[t] = pc[t]
      <4>1. "draw" \in Labels /\ "create" \in Labels
        BY DEF Labels
      <4> QED
        BY <1>0, <3>1, <4>1, Moves
    <3>3. MainLoops'
      BY <3>1, <3>2 DEF Control, MainLoops, Early
    <3>4. Modes'
      BY <3>1, <3>2 DEF Control, Modes
    <3> QED
      BY <2>1, <3>1, <3>2, <3>3, <3>4 DEF Control, OutOfTasks
  <2>5. CASE CreateThread \/ CreateFails
    <3>1. /\ created < settings.nThreads /\ pc[Main] = "create"
          /\ \/ Goto(created, "draw") /\ settings.theMode = "row"
             \/ Goto(created, "claim") /\ settings.theMode # "row"
             \/ Goto(created, "missing")
          /\ created' = created + 1
          /\ UNCHANGED <<settings, joined, nextTask, drawn>>
      BY <2>5 DEF CreateThread, CreateFails
    <3>2. /\ created \in Threads /\ created \in Painters /\ created # Main
          /\ pc[created] = "new"
      BY <3>1, NextThread DEF Control
    <3>3. /\ pc'[created] \in {"draw", "claim", "missing"}
          /\ pc'[created] = "claim" => settings.theMode # "row"
          /\ \A q \in Painters : q # created => pc'[q] = pc[q]
      <4>1. "draw" \in Labels /\ "claim" \in Labels /\ "missing" \in Labels
        BY DEF Labels
      <4> QED
        BY <3>1, <3>2, <4>1, Moves
    <3>4. \A t \in Threads : t # created => (t >= created + 1 <=> t >= created)
      BY <1>0
    <3>5. MainLoops'
      <4>1. \A t \in Threads : t >= created' <=> pc'[t] = "new"
        <5>1. ~(created >= created + 1)
          BY <1>0
        <5> QED
          BY <1>0, <3>1, <3>2, <3>3, <3>4, <5>1 DEF Control, MainLoops
      <4>2. \A t \in Threads : t < joined' => pc'[t] \in {"done", "missing"}
        BY <1>0, <3>1, <3>2, <3>3 DEF Control, MainLoops
      <4>3. \A t \in Threads : pc'[t] \in {"new", "missing", "claim", "draw", "done"}
        BY <1>0, <3>3 DEF Control, MainLoops
      <4> QED
        BY <1>0, <3>1, <3>2, <3>3, <4>1, <4>2, <4>3 DEF Control, MainLoops, Early
    <3>6. Modes'
      BY <1>0, <3>1, <3>2, <3>3 DEF Control, Modes
    <3> QED
      BY <1>0, <2>1, <3>1, <3>3, <3>5, <3>6 DEF Control, OutOfTasks
  <2>6. CASE Joins
    <3>1. /\ pc[joined] \in {"done", "missing"} /\ joined' = joined + 1
          /\ UNCHANGED <<settings, pc, created, nextTask, drawn>>
      BY <2>6 DEF Joins
    <3>2. \A t \in Threads : t < joined + 1 => t < joined \/ t = joined
      BY <1>0
    <3>3. MainLoops'
      BY <3>1, <3>2 DEF Control, MainLoops
    <3> QED
      BY <2>1, <3>1, <3>3 DEF Control, Modes, OutOfTasks
  <2>7. ASSUME NEW p \in Painters, pc[p] \in {"claim", "draw"},
               NEW next \in {"claim", "draw", "done", "save"}, Goto(p, next),
               next = "save" <=> p = Main,
               p = Main => pc[Main] = "draw",
               next = "claim" => settings.theMode = "task",
               UNCHANGED <<settings, created, joined>>
        PROVE  MainLoops' /\ Modes'
    <3>1. /\ pc'[p] = next
          /\ \A q \in Painters : q # p => pc'[q] = pc[q]
      <4>1. next \in Labels
        BY DEF Labels
      <4> QED
        BY <2>7, <4>1, Moves
    <3>2. pc[Main] \notin Early /\ pc'[Main] \notin Early
      <4>1. CASE p = Main
        BY <2>7, <3>1, <4>1 DEF Early
      <4>2. CASE p \in Threads
        BY <1>0, <2>7, <3>1, <4>2, NothingYet DEF Control
      <4> QED
        BY <1>0, <4>1, <4>2
    <3>3. MainLoops'
      BY <1>0, <2>7, <3>1, <3>2 DEF Control, MainLoops
    <3>4. Modes'
      BY <1>0, <2>7, <3>1 DEF Control, Modes
    <3> QED
      BY <3>3, <3>4
  <2>8. ASSUME NEW p \in Painters, ClaimTask(p) PROVE Control'
    <3>1. /\ pc[p] = "claim" /\ nextTask < nTasks /\ nextTask' = nextTask + 1
          /\ Goto(p, "draw") /\ UNCHANGED <<settings, created, joined, drawn>>
      BY <2>8 DEF ClaimTask
    <3>2. p # Main
      BY <3>1 DEF Control, MainLoops, Ended
    <3>3. MainLoops' /\ Modes'
      BY <2>7, <3>1, <3>2
    <3>4. OutOfTasks'
      <4>1. "draw" \in Labels
        BY DEF Labels
      <4>2. /\ pc'[p] = "draw"
            /\ \A q \in Painters : q # p => pc'[q] = pc[q]
        BY <3>1, <4>1, Moves
      <4> QED
        BY <1>0, <2>1, <3>1, <4>2 DEF Control, OutOfTasks
    <3> QED
      BY <3>3, <3>4 DEF Control
  <2>9. ASSUME NEW p \in Painters, NoTaskLeft(p) PROVE Control'
    <3>1. /\ pc[p] = "claim" /\ nextTask >= nTasks /\ nextTask' = nextTask + 1
          /\ Goto(p, "done") /\ UNCHANGED <<settings, created, joined, drawn>>
      BY <2>9 DEF NoTaskLeft
    <3>2. p # Main
      BY <3>1 DEF Control, MainLoops, Ended
    <3>3. MainLoops' /\ Modes'
      BY <2>7, <3>1, <3>2
    <3>4. OutOfTasks'
      BY <1>0, <2>1, <3>1 DEF OutOfTasks
    <3> QED
      BY <3>3, <3>4 DEF Control
  <2>10. ASSUME NEW p \in Painters, DrawRow(p) PROVE Control'
    <3>1. pc[p] = "draw" /\ UNCHANGED <<settings, pc, created, joined, nextTask>>
      BY <2>10 DEF DrawRow
    <3>2. pc[Main] \notin Early
      BY <1>0, <3>1, NothingYet DEF Control
    <3>3. MainLoops'
      BY <3>1, <3>2 DEF Control, MainLoops
    <3> QED
      BY <2>1, <3>1, <3>3 DEF Control, Modes, OutOfTasks
  <2>11. ASSUME NEW p \in Painters, PartDrawn(p) PROVE Control'
    <3> DEFINE next == IF p = Main THEN "save"
                       ELSE IF settings.theMode = "task" THEN "claim" ELSE "done"
    <3>1. /\ pc[p] = "draw" /\ Goto(p, next) /\ next \in Labels
          /\ UNCHANGED <<settings, created, joined, nextTask>>
      BY <2>11 DEF PartDrawn, threadVars, Labels
    <3>2. MainLoops' /\ Modes'
      BY <2>7, <3>1
    <3>3. OutOfTasks'
      <4>1. /\ pc'[p] = next
            /\ \A q \in Painters : q # p => pc'[q] = pc[q]
        BY <3>1, Moves
      <4> QED
        BY <1>0, <2>1, <3>1, <4>1 DEF Control, OutOfTasks
    <3> QED
      BY <3>2, <3>3 DEF Control
  <2>12. UNCHANGED fractalVars \/ Next
    OBVIOUS
  <2> QED
    BY <1>2, <2>2, <2>3, <2>4, <2>5, <2>6, <2>8, <2>9, <2>10, <2>11, <2>12, StepKinds
<1> QED
  BY <1>1, <1>2

-----------------------------------------------------------------------------
(* The pixels.                                                             *)

\* p is given G, one of the parts not assigned, or nothing, and draws some of what
\* it has; unless the program has crashed, nothing is lost.
Hand(p, G) ==
  /\ \A q \in Painters : q # p => Left(q)' = Left(q)
  /\ Left(p)' \subseteq Left(p) \cup G
  /\ drawn \subseteq drawn' /\ drawn' \subseteq drawn \cup Left(p)
  /\ Left(p)' \cap drawn' = {}
  /\ G = {} \/ G \in Unassigned
  /\ \A P \in Unassigned' : P \in Unassigned /\ P \cap G = {}
  /\ pc'[Main] # "crashed" =>
       /\ Left(p) \cup G \subseteq Left(p)' \cup drawn'
       /\ \A P \in Unassigned : P = G \/ P \in Unassigned'

LEMMA HandApart ==
  ASSUME PixelsApart, NEW p \in Painters, NEW G, Hand(p, G)
  PROVE  PixelsApart'
<1>1. \A q \in Painters : G \cap Left(q) = {} /\ G \cap drawn = {}
  BY DEF PixelsApart, Hand
<1>2. \A q \in Painters : q # p => Left(q)' = Left(q)
  BY DEF Hand
<1>3. /\ Left(p)' \subseteq Left(p) \cup G
      /\ drawn' \subseteq drawn \cup Left(p)
      /\ Left(p)' \cap drawn' = {}
  BY DEF Hand
<1>4. ASSUME NEW q \in Painters, NEW r \in Painters, q # r
      PROVE  Left(q)' \cap Left(r)' = {}
  <2>1. CASE q = p
    <3>1. Left(r)' = Left(r) /\ Left(p) \cap Left(r) = {}
      BY <1>2, <1>4, <2>1 DEF PixelsApart
    <3> QED
      BY <1>1, <1>3, <2>1, <3>1
  <2>2. CASE r = p
    <3>1. Left(q)' = Left(q) /\ Left(p) \cap Left(q) = {}
      BY <1>2, <1>4, <2>2 DEF PixelsApart
    <3> QED
      BY <1>1, <1>3, <2>2, <3>1
  <2>3. CASE q # p /\ r # p
    BY <1>2, <1>4, <2>3 DEF PixelsApart
  <2> QED
    BY <2>1, <2>2, <2>3
<1>5. ASSUME NEW q \in Painters
      PROVE  Left(q)' \cap drawn' = {}
  <2>1. CASE q = p
    BY <1>3, <2>1
  <2>2. CASE q # p
    <3>1. Left(q)' = Left(q) /\ Left(q) \cap Left(p) = {} /\ Left(q) \cap drawn = {}
      BY <1>2, <2>2 DEF PixelsApart
    <3> QED
      BY <1>3, <3>1
  <2> QED
    BY <2>1, <2>2
<1>6. ASSUME NEW P \in Unassigned'
      PROVE  P \cap drawn' = {} /\ \A q \in Painters : P \cap Left(q)' = {}
  <2>1. P \in Unassigned /\ P \cap G = {}
    BY DEF Hand
  <2>2. P \cap drawn = {} /\ \A q \in Painters : P \cap Left(q) = {}
    BY <2>1 DEF PixelsApart
  <2>3. P \cap Left(p)' = {}
    BY <1>3, <2>1, <2>2
  <2> QED
    BY <1>2, <1>3, <2>2, <2>3
<1> QED
  BY <1>4, <1>5, <1>6 DEF PixelsApart

LEMMA HandForgetsNothing ==
  ASSUME NothingForgotten, NEW p \in Painters, NEW G, Hand(p, G),
         settings' = settings,
         pc'[Main] \in {"draw", "create", "join"} => pc[Main] \in {"draw", "create", "join"}
  PROVE  NothingForgotten'
<1> SUFFICES ASSUME pc'[Main] \in {"draw", "create", "join"},
                    ~TooSmall',
                    NEW z \in Image'
             PROVE  \/ z \in drawn'
                    \/ \E q \in Painters : z \in Left(q)'
                    \/ \E P \in Unassigned' : z \in P
  BY DEF NothingForgotten
<1>1. z \in Image /\ ~TooSmall
  BY SameGeometry
<1>2. \/ z \in drawn
      \/ \E q \in Painters : z \in Left(q)
      \/ \E P \in Unassigned : z \in P
  <2>1. pc[Main] \in {"draw", "create", "join"}
    OBVIOUS
  <2> QED
    BY <1>1, <2>1 DEF NothingForgotten
<1>3. /\ Left(p) \cup G \subseteq Left(p)' \cup drawn'
      /\ \A P \in Unassigned : P = G \/ P \in Unassigned'
      /\ drawn \subseteq drawn'
      /\ \A q \in Painters : q # p => Left(q)' = Left(q)
  BY DEF Hand
<1>4. CASE z \in drawn
  BY <1>3, <1>4
<1>5. ASSUME NEW q \in Painters, z \in Left(q)
      PROVE  z \in drawn' \/ z \in Left(q)'
  BY <1>3, <1>5
<1>6. ASSUME NEW P \in Unassigned, z \in P
      PROVE  z \in drawn' \/ z \in Left(p)' \/ P \in Unassigned'
  BY <1>3, <1>6
<1> QED
  BY <1>2, <1>4, <1>5, <1>6

\* Who is absent depends on the labels of the threads.
LEMMA SameAbsent ==
  ASSUME TypeOK, settings' = settings,
         \A t \in Threads : pc'[t] \in {"new", "missing"} <=> pc[t] \in {"new", "missing"}
  PROVE  Absent' = Absent
<1>1. \A t \in 0 .. settings.nThreads - 1 : t \in Threads
  BY Dimensions, FractalAssumption DEF Threads
<1> QED
  BY <1>1 DEF Absent

\* What is not assigned depends on who is absent and on the counter only.
LEMMA SameUnassigned ==
  ASSUME settings' = settings, Absent' = Absent, nextTask' = nextTask
  PROVE  Unassigned' = Unassigned
<1>1. \A i : PixelsOf(Band(i))' = PixelsOf(Band(i))
  BY DEF PixelsOf, Wrapped, Band, step, width, height
<1>2. {PixelsOf(Band(i)) : i \in Absent}' = {PixelsOf(Band(i)) : i \in Absent}
  BY <1>1
<1>3. Unclaimed' = Unclaimed /\ \A k : PixelsOf(Task(k[1], k[2]))' = PixelsOf(Task(k[1], k[2]))
  BY DEF Unclaimed, PixelsOf, Wrapped, Task, PieceEnd, taskRows, taskCols, width, height
<1>4. {PixelsOf(Task(k[1], k[2])) : k \in Unclaimed}' = {PixelsOf(Task(k[1], k[2])) : k \in Unclaimed}
  BY <1>3
<1> QED
  BY <1>2, <1>4 DEF Unassigned

\* What a painter that does not move has left.
LEMMA SameLeft ==
  ASSUME settings' = settings, NEW q \in Painters, pc'[q] = pc[q], part'[q] = part[q]
  PROVE  Left(q)' = Left(q)
BY DEF Left, PixelsOf, Wrapped, width, height

\* A step of main that moves no pixel.
LEMMA NoHand ==
  ASSUME PixelsApart,
         settings' = settings, Absent' = Absent, nextTask' = nextTask, drawn' = drawn,
         NEW p \in Painters,
         \A q \in Painters : q # p => Left(q)' = Left(q),
         Left(p)' \subseteq Left(p),
         pc'[Main] # "crashed" => Left(p) \subseteq Left(p)'
  PROVE  Hand(p, {})
<1>1. Unassigned' = Unassigned
  BY SameUnassigned
<1>2. Left(p)' \cap drawn' = {}
  BY DEF PixelsApart
<1> QED
  BY <1>1, <1>2 DEF Hand

\* The parts not assigned, by mode.
LEMMA UnassignedParts ==
  /\ settings.theMode = "row" =>
       Unassigned = {PixelsOf(Band(i)) : i \in Absent}
  /\ settings.theMode = "task" =>
       Unassigned = {PixelsOf(Task(k[1], k[2])) : k \in Unclaimed}
  /\ settings.theMode = "single" => Unassigned = {}
BY DEF Unassigned

LEMMA UnassignedPartsNext ==
  ASSUME settings' = settings
  PROVE  /\ settings.theMode = "row" =>
              Unassigned' = {PixelsOf(Band(i)) : i \in Absent'}
         /\ settings.theMode = "task" =>
              Unassigned' = {PixelsOf(Task(k[1], k[2])) : k \in Unclaimed'}
         /\ settings.theMode = "single" => Unassigned' = {}
BY DEF Unassigned, PixelsOf, Wrapped, Band, Task, PieceEnd, step, taskRows, taskCols, width, height

\* Every step but one is a Hand: CreateImage is the one that deals the parts out.
LEMMA HandStep ==
  ASSUME TypeOK, Control, PixelsApart, Next, settings' = settings, ~CreateImage
  PROVE  \E p \in Painters : \E G : Hand(p, G)
<1>0. /\ Main \in Painters /\ Main \notin Threads /\ Threads \subseteq Painters
      /\ \A p \in Painters : p \in Threads \/ p = Main
  BY MainAndThreads
<1>1. ASSUME UNCHANGED <<settings, nextTask, drawn>>,
             \A t \in Threads : pc'[t] \in {"new", "missing"} <=> pc[t] \in {"new", "missing"},
             \A q \in Painters : Left(q)' = Left(q)
      PROVE  \E p \in Painters : \E G : Hand(p, G)
  <2>1. Hand(Main, {})
    BY <1>0, <1>1, SameAbsent, NoHand
  <2> QED
    BY <1>0, <2>1
<1>2. CASE UNCHANGED fractalVars
  BY <1>1, <1>2, SameLeft DEF fractalVars
<1>3. CASE MainMoves
  <2>1. PICK next \in Labels : Goto(Main, next) /\ next # "draw"
    BY <1>3 DEF MainMoves, Labels, Ended
  <2>2. /\ pc'[Main] = next
        /\ \A q \in Painters : q # Main => pc'[q] = pc[q]
        /\ UNCHANGED <<part, created, nextTask, drawn>>
    BY <1>0, <1>3, <2>1, Moves DEF MainMoves, threadVars
  <2>3. \A q \in Painters : q # Main => Left(q)' = Left(q)
    BY <2>2, SameLeft
  <2>4. Left(Main)' = {}
    BY <2>1, <2>2 DEF Left
  <2>5. pc'[Main] # "crashed" => Left(Main) = {}
    <3>1. pc[Main] = "draw" => pc'[Main] = "crashed"
      BY <1>0, <1>3, Moves DEF MainMoves, Labels, Ended
    <3> QED
      BY <3>1 DEF Left
  <2>6. Absent' = Absent
    BY <1>0, <2>2, SameAbsent
  <2>7. Hand(Main, {})
    BY <1>0, <2>2, <2>3, <2>4, <2>5, <2>6, NoHand
  <2> QED
    BY <1>0, <2>7
<1>4. CASE CreateThread
  <2>1. PICK p \in Painters :
          /\ p = created /\ created \in Threads /\ created \in 0 .. settings.nThreads - 1
          /\ p # Main /\ pc[p] = "new"
    BY <1>4, NextThread DEF CreateThread, Control
  <2>2. Left(p) = {}
    BY <2>1 DEF Left
  <2>3. CASE settings.theMode = "row"
    <3> DEFINE G == PixelsOf(Band(p))
    <3>1. /\ Goto(p, "draw") /\ part' = [part EXCEPT ![p] = Band(p)]
          /\ created' = created + 1 /\ UNCHANGED <<nextTask, drawn>>
      BY <1>4, <2>1, <2>3 DEF CreateThread
    <3>2. /\ pc'[p] = "draw"
          /\ \A q \in Painters : q # p => pc'[q] = pc[q]
      <4>1. "draw" \in Labels
        BY DEF Labels
      <4> QED
        BY <2>1, <3>1, <4>1, Moves
    <3>3. /\ part'[p] = Band(p)
          /\ \A q \in Painters : q # p => part'[q] = part[q]
      BY <2>1, <3>1 DEF TypeOK
    <3>4. \A q \in Painters : q # p => Left(q)' = Left(q)
      BY <3>2, <3>3, SameLeft
    <3>5. Left(p)' = G
      <4>1. Left(p)' = PixelsOf(part'[p])
        BY <3>2 DEF Left, PixelsOf, Wrapped, width, height
      <4> QED
        BY <3>3, <4>1
    <3>6. /\ p \in Absent
          /\ \A i \in Absent : i \in 0 .. settings.nThreads - 1 /\ i \in Painters
          /\ \A i : i \in Absent' <=> i \in Absent /\ i # p
      <4>1. \A i \in 0 .. settings.nThreads - 1 : i \in Threads /\ i \in Painters
        BY <1>0, Dimensions, FractalAssumption DEF Threads
      <4> QED
        BY <2>1, <3>2, <4>1 DEF Absent
    <3>7. G \in Unassigned
      BY <2>3, <3>6, UnassignedParts
    <3>8. \A P \in Unassigned' : P \in Unassigned /\ P \cap G = {}
      <4>1. SUFFICES ASSUME NEW i \in Absent, i # p
                     PROVE  /\ PixelsOf(Band(i)) \in Unassigned
                            /\ PixelsOf(Band(i)) \cap G = {}
        BY <2>3, <3>6, UnassignedPartsNext
      <4>2. i \in 0 .. settings.nThreads - 1 /\ p \in 0 .. settings.nThreads - 1
        BY <3>6
      <4> QED
        BY <2>3, <4>1, <4>2, UnassignedParts, BandsApart
    <3>9. \A P \in Unassigned : P = G \/ P \in Unassigned'
      <4>1. SUFFICES ASSUME NEW i \in Absent, i # p
                     PROVE  PixelsOf(Band(i)) \in Unassigned'
        BY <2>3, UnassignedParts
      <4> QED
        BY <2>3, <3>6, <4>1, UnassignedPartsNext
    <3>10. G \cap drawn = {}
      BY <3>7 DEF PixelsApart
    <3> HIDE DEF G
    <3>11. Hand(p, G)
      BY <2>2, <3>1, <3>4, <3>5, <3>7, <3>8, <3>9, <3>10 DEF Hand
    <3> QED
      BY <2>1, <3>11
  <2>4. CASE settings.theMode # "row"
    <3>1. /\ Goto(p, "claim") /\ part' = part /\ UNCHANGED <<nextTask, drawn>>
      BY <1>4, <2>1, <2>4 DEF CreateThread
    <3>2. /\ pc'[p] = "claim"
          /\ \A q \in Painters : q # p => pc'[q] = pc[q]
      <4>1. "claim" \in Labels
        BY DEF Labels
      <4> QED
        BY <2>1, <3>1, <4>1, Moves
    <3>3. \A q \in Painters : Left(q)' = Left(q)
      <4>1. Left(p)' = {}
        BY <3>2 DEF Left
      <4>2. \A q \in Painters : q # p => Left(q)' = Left(q)
        BY <3>1, <3>2, SameLeft
      <4> QED
        BY <2>2, <4>1, <4>2
    <3>4. Unassigned' = Unassigned
      <4>1. CASE settings.theMode = "task"
        <5>1. Unclaimed' = Unclaimed
          BY <3>1 DEF Unclaimed, taskRows, taskCols, width, height
        <5> QED
          BY <4>1, <5>1, UnassignedParts, UnassignedPartsNext
      <4>2. CASE settings.theMode = "single"
        BY <4>2, UnassignedParts, UnassignedPartsNext
      <4> QED
        BY <2>4, <4>1, <4>2 DEF TypeOK
    <3>5. Left(Main)' \cap drawn' = {}
      BY <1>0, <3>1, <3>3 DEF PixelsApart
    <3>6. Hand(Main, {})
      BY <1>0, <3>1, <3>3, <3>4, <3>5 DEF Hand
    <3> QED
      BY <1>0, <3>6
  <2> QED
    BY <2>3, <2>4
<1>5. CASE CreateFails
  <2>1. PICK p \in Painters :
          /\ p = created /\ created \in Threads /\ created \in 0 .. settings.nThreads - 1
          /\ p # Main /\ pc[p] = "new"
    BY <1>5, NextThread DEF CreateFails, Control
  <2>2. /\ pc'[p] = "missing"
        /\ \A q \in Painters : q # p => pc'[q] = pc[q]
        /\ created' = created + 1
        /\ UNCHANGED <<part, nextTask, drawn>>
    <3>1. "missing" \in Labels
      BY DEF Labels
    <3> QED
      BY <1>5, <2>1, <3>1, Moves DEF CreateFails
  <2>3. \A q \in Painters : Left(q)' = Left(q)
    <3>1. Left(p)' = {} /\ Left(p) = {}
      BY <2>1, <2>2 DEF Left
    <3>2. \A q \in Painters : q # p => Left(q)' = Left(q)
      BY <2>2, SameLeft
    <3> QED
      BY <3>1, <3>2
  <2>4. \A t \in Threads : pc'[t] \in {"new", "missing"} <=> pc[t] \in {"new", "missing"}
    BY <1>0, <2>1, <2>2
  <2> QED
    BY <1>1, <1>5, <2>2, <2>3, <2>4 DEF CreateFails
<1>6. CASE Joins
  <2>1. UNCHANGED <<pc, part, created, nextTask, drawn>>
    BY <1>6 DEF Joins
  <2> QED
    BY <1>1, <2>1, SameLeft
<1>7. ASSUME NEW p \in Painters, ClaimTask(p)
      PROVE  \E r \in Painters : \E G : Hand(r, G)
  <2> DEFINE k == <<nextTask \div taskCols, nextTask % taskCols>>
             G == PixelsOf(Task(k[1], k[2]))
  <2>1. /\ nextTask \in 0 .. nTasks - 1
        /\ k \in Grid /\ k[1] * taskCols + k[2] = nextTask
        /\ part'[p] = Task(k[1], k[2])
        /\ \A q \in Painters : q # p => part'[q] = part[q]
    BY <1>7, NextOfTasks
  <2> HIDE DEF k
  <2>2. /\ pc[p] = "claim" /\ nextTask' = nextTask + 1 /\ UNCHANGED <<created, drawn>>
        /\ Goto(p, "draw")
    BY <1>7 DEF ClaimTask
  <2>3. settings.theMode = "task"
    <3>1. p \in Threads
      BY <1>0, <2>2 DEF Control, MainLoops, Ended
    <3> QED
      BY <2>2, <3>1 DEF Control, Modes
  <2>4. /\ pc'[p] = "draw"
        /\ \A q \in Painters : q # p => pc'[q] = pc[q]
    <3>1. "draw" \in Labels
      BY DEF Labels
    <3> QED
      BY <1>7, <2>2, <3>1, Moves
  <2>5. \A q \in Painters : q # p => Left(q)' = Left(q)
    BY <2>1, <2>4, SameLeft
  <2>6. Left(p) = {} /\ Left(p)' = G
    <3>1. Left(p)' = PixelsOf(part'[p])
      BY <2>4 DEF Left, PixelsOf, Wrapped, width, height
    <3> QED
      BY <2>1, <2>2, <3>1 DEF Left
  <2>7. \A m : m \in Unclaimed <=> m \in Grid /\ nextTask <= m[1] * taskCols + m[2]
    BY DEF Unclaimed, Grid
  <2>8. \A m : m \in Unclaimed' <=> m \in Grid /\ nextTask + 1 <= m[1] * taskCols + m[2]
    BY <2>2 DEF Unclaimed, Grid, taskRows, taskCols, width, height
  <2>9. \A m \in Grid : /\ m[1] * taskCols + m[2] \in Nat
                        /\ m[1] * taskCols + m[2] = nextTask => m = k
    <3> SUFFICES ASSUME NEW m \in Grid
                 PROVE  /\ m[1] * taskCols + m[2] \in Nat
                        /\ m[1] * taskCols + m[2] = nextTask => m = k
      OBVIOUS
    <3>1. /\ m[1] * taskCols + m[2] \in 0 .. nTasks - 1
          /\ (m[1] * taskCols + m[2]) \div taskCols = m[1]
          /\ (m[1] * taskCols + m[2]) % taskCols = m[2]
      BY TaskNumber
    <3>2. m[1] * taskCols + m[2] = nextTask => m[1] = k[1] /\ m[2] = k[2]
      BY <3>1 DEF k
    <3>3. m = <<m[1], m[2]>> /\ k = <<k[1], k[2]>>
      BY <2>1 DEF Grid
    <3> QED
      BY <3>1, <3>2, <3>3
  <2>10. k \in Unclaimed
    BY <2>1, <2>7
  <2>11. G \in Unassigned
    BY <2>3, <2>10, UnassignedParts
  <2>12. \A P \in Unassigned' : P \in Unassigned /\ P \cap G = {}
    <3>1. SUFFICES ASSUME NEW m \in Unclaimed'
                   PROVE  /\ PixelsOf(Task(m[1], m[2])) \in Unassigned
                          /\ PixelsOf(Task(m[1], m[2])) \cap G = {}
      BY <2>3, UnassignedPartsNext
    <3>2. m \in Unclaimed /\ m \in Grid /\ m # k
      BY <2>1, <2>7, <2>8, <2>9
    <3> QED
      BY <2>1, <2>3, <3>2, UnassignedParts, TasksApart
  <2>13. \A P \in Unassigned : P = G \/ P \in Unassigned'
    <3>1. SUFFICES ASSUME NEW m \in Unclaimed, m # k
                   PROVE  PixelsOf(Task(m[1], m[2])) \in Unassigned'
      BY <2>3, UnassignedParts
    <3>2. m \in Unclaimed'
      BY <2>1, <2>7, <2>8, <2>9, <3>1
    <3> QED
      BY <2>3, <3>2, UnassignedPartsNext
  <2>14. G \cap drawn = {}
    BY <2>11 DEF PixelsApart
  <2> HIDE DEF G
  <2>15. Hand(p, G)
    BY <2>2, <2>5, <2>6, <2>11, <2>12, <2>13, <2>14 DEF Hand
  <2> QED
    BY <2>15
<1>8. ASSUME NEW p \in Painters, NoTaskLeft(p)
      PROVE  \E r \in Painters : \E G : Hand(r, G)
  <2>1. /\ pc[p] = "claim" /\ nextTask >= nTasks /\ nextTask' = nextTask + 1
        /\ UNCHANGED <<part, created, drawn>> /\ Goto(p, "done")
    BY <1>8 DEF NoTaskLeft
  <2>2. settings.theMode = "task"
    <3>1. p \in Threads
      BY <1>0, <2>1 DEF Control, MainLoops, Ended
    <3> QED
      BY <2>1, <3>1 DEF Control, Modes
  <2>3. /\ pc'[p] = "done"
        /\ \A q \in Painters : q # p => pc'[q] = pc[q]
    <3>1. "done" \in Labels
      BY DEF Labels
    <3> QED
      BY <2>1, <3>1, Moves
  <2>4. \A q \in Painters : Left(q)' = Left(q)
    <3>1. Left(p)' = {} /\ Left(p) = {}
      BY <2>1, <2>3 DEF Left
    <3>2. \A q \in Painters : q # p => Left(q)' = Left(q)
      BY <2>1, <2>3, SameLeft
    <3> QED
      BY <3>1, <3>2
  <2>5. Unclaimed = {} /\ Unclaimed' = {}
    <3>1. \A m \in Grid : ~(nextTask <= m[1] * taskCols + m[2])
                         /\ ~(nextTask + 1 <= m[1] * taskCols + m[2])
      <4>1. \A m \in Grid : m[1] * taskCols + m[2] \in 0 .. nTasks - 1
        BY TaskNumber
      <4>2. nextTask \in Nat /\ nTasks \in Nat
        BY Dimensions, DoneFinite DEF TypeOK, Done
      <4> QED
        BY <2>1, <4>1, <4>2
    <3>2. Unclaimed = {}
      BY <3>1 DEF Unclaimed, Grid
    <3>3. \A m : m \in Unclaimed' <=> m \in Grid /\ nextTask + 1 <= m[1] * taskCols + m[2]
      BY <2>1 DEF Unclaimed, Grid, taskRows, taskCols, width, height
    <3> QED
      BY <3>1, <3>2, <3>3
  <2>6. Unassigned' = Unassigned
    BY <2>2, <2>5, UnassignedParts, UnassignedPartsNext
  <2>7. Left(p)' \cap drawn' = {}
    BY <2>1, <2>4 DEF PixelsApart
  <2>8. Hand(p, {})
    BY <2>1, <2>4, <2>6, <2>7 DEF Hand
  <2> QED
    BY <2>8
<1>9. ASSUME NEW p \in Painters, DrawRow(p)
      PROVE  \E r \in Painters : \E G : Hand(r, G)
  <2>1. /\ PixelsOf(part[p]) = Row(p) \cup PixelsOf(part'[p])
        /\ Row(p) \cap PixelsOf(part'[p]) = {}
        /\ \A q \in Painters : q # p => part'[q] = part[q]
    BY <1>9, NextRow
  <2>2. /\ pc[p] = "draw" /\ drawn' = drawn \cup Row(p)
        /\ UNCHANGED <<pc, created, nextTask>>
    BY <1>9 DEF DrawRow
  <2>3. Left(p) = PixelsOf(part[p]) /\ Left(p)' = PixelsOf(part'[p])
    BY <2>2 DEF Left, PixelsOf, Wrapped, width, height
  <2>4. \A q \in Painters : q # p => Left(q)' = Left(q)
    BY <2>1, <2>2, SameLeft
  <2>5. Left(p) \cap drawn = {}
    BY DEF PixelsApart
  <2>6. Unassigned' = Unassigned
    BY <1>9, <2>2, SameAbsent, SameUnassigned
  <2>7. Hand(p, {})
    BY <2>1, <2>2, <2>3, <2>4, <2>5, <2>6 DEF Hand
  <2> QED
    BY <2>7
<1>10. ASSUME NEW p \in Painters, PartDrawn(p)
       PROVE  \E r \in Painters : \E G : Hand(r, G)
  <2>1. PICK next \in {"save", "claim", "done"} : Goto(p, next)
    BY <1>10 DEF PartDrawn
  <2>2. /\ pc[p] = "draw" /\ part[p].j >= part[p].yEnd
        /\ UNCHANGED <<part, created, nextTask, drawn>>
    BY <1>10 DEF PartDrawn, threadVars
  <2>3. /\ pc'[p] = next
        /\ \A q \in Painters : q # p => pc'[q] = pc[q]
    <3>1. next \in Labels
      BY DEF Labels
    <3> QED
      BY <2>1, <3>1, Moves
  <2>4. Left(p) = {} /\ Left(p)' = {}
    <3>1. part[p] \in Parts
      BY DEF TypeOK, Parts
    <3>2. part[p].j .. part[p].yEnd - 1 = {}
      BY <2>2, <3>1 DEF Parts
    <3>3. PixelsOf(part[p]) = {}
      BY <3>2 DEF PixelsOf
    <3> QED
      BY <2>2, <2>3, <3>3 DEF Left
  <2>5. \A q \in Painters : Left(q)' = Left(q)
    BY <2>2, <2>3, <2>4, SameLeft
  <2>6. \A t \in Threads : pc'[t] \in {"new", "missing"} <=> pc[t] \in {"new", "missing"}
    BY <1>0, <2>1, <2>2, <2>3
  <2> QED
    BY <1>1, <2>2, <2>5, <2>6
<1> QED
  BY <1>2, <1>3, <1>4, <1>5, <1>6, <1>7, <1>8, <1>9, <1>10, StepKinds

-----------------------------------------------------------------------------
LEMMA PixelsInit ==
  Init => PixelsApart /\ NothingForgotten /\ NothingTooSmall /\ NobodyThere /\ WholeAtSave
<1> SUFFICES ASSUME Init
             PROVE  PixelsApart /\ NothingForgotten /\ NothingTooSmall /\ NobodyThere /\ WholeAtSave
  OBVIOUS
<1>1. /\ pc[Main] = "arguments" /\ settings.theMode = "single" /\ drawn = {}
      /\ \A p \in Painters : pc[p] # "draw"
  BY MainAndThreads DEF Init
<1>2. Unassigned = {} /\ \A p \in Painters : Left(p) = {}
  BY <1>1 DEF Unassigned, Left
<1> QED
  BY <1>1, <1>2 DEF PixelsApart, NothingForgotten, NothingTooSmall, NobodyThere, TooSmall, WholeAtSave

\* No two painters write the same pixel.
LEMMA ApartStep ==
  ASSUME TypeOK, Control, PixelsApart, [Next]_fractalVars
  PROVE  PixelsApart'
<1>1. CASE UNCHANGED fractalVars
  <2>1. Unassigned' = Unassigned /\ \A p \in Painters : Left(p)' = Left(p)
    BY <1>1, SameAbsent, SameUnassigned, SameLeft DEF fractalVars
  <2> QED
    BY <1>1, <2>1 DEF PixelsApart, fractalVars
<1>2. CASE Next /\ settings' # settings
  <2>1. pc[Main] = "arguments" /\ pc' = pc /\ drawn' = drawn
    BY <1>2, SettingsTyped
  <2>2. drawn = {} /\ \A p \in Painters : pc[p] # "draw"
    BY <2>1, NothingYet DEF Control, Early
  <2>3. drawn' = {} /\ \A p \in Painters : Left(p)' = {}
    BY <2>1, <2>2 DEF Left
  <2> QED
    BY <2>3 DEF PixelsApart
<1>3. CASE CreateImage
  <2>1. /\ Goto(Main, IF settings.theMode = "single" THEN "draw" ELSE "create")
        /\ pc[Main] = "image" /\ drawn' = drawn /\ settings' = settings
    BY <1>3 DEF CreateImage
  <2>2. drawn = {} /\ \A p \in Painters : pc[p] # "draw" /\ Left(p) = {}
    BY <2>1, NothingYet DEF Control, Early
  <2>3. /\ pc'[Main] = IF settings.theMode = "single" THEN "draw" ELSE "create"
        /\ \A q \in Painters : q # Main => pc'[q] = pc[q]
    <3>1. "draw" \in Labels /\ "create" \in Labels
      BY DEF Labels
    <3> QED
      BY <2>1, <3>1, Moves, MainAndThreads
  <2>4. \A q \in Painters : q # Main => Left(q)' = {}
    BY <2>2, <2>3 DEF Left
  <2>5. settings.theMode = "single" => Unassigned' = {}
    BY <2>1, UnassignedPartsNext
  <2>6. settings.theMode # "single" => Left(Main)' = {}
    BY <2>3 DEF Left
  <2> QED
    BY <2>1, <2>2, <2>4, <2>5, <2>6 DEF PixelsApart
<1>4. CASE Next /\ settings' = settings /\ ~CreateImage
  BY <1>4, HandStep, HandApart
<1> QED
  BY <1>1, <1>2, <1>3, <1>4

\* Every pixel is drawn, or some painter's, or in a part still to be assigned.
LEMMA ForgottenStep ==
  ASSUME TypeOK, Control, PixelsApart, NothingForgotten, [Next]_fractalVars
  PROVE  NothingForgotten'
<1>1. CASE UNCHANGED fractalVars
  <2>1. Unassigned' = Unassigned /\ \A p \in Painters : Left(p)' = Left(p)
    BY <1>1, SameAbsent, SameUnassigned, SameLeft DEF fractalVars
  <2>2. Image' = Image /\ (TooSmall' <=> TooSmall)
    BY <1>1, SameGeometry DEF fractalVars
  <2> QED
    BY <1>1, <2>1, <2>2 DEF NothingForgotten, fractalVars
<1>2. CASE Next /\ settings' # settings
  <2>1. pc[Main] = "arguments" /\ pc' = pc
    BY <1>2, SettingsTyped
  <2> QED
    BY <2>1 DEF NothingForgotten
<1>3. CASE CreateImage
  <2>1. /\ Goto(Main, IF settings.theMode = "single" THEN "draw" ELSE "create")
        /\ pc[Main] = "image" /\ UNCHANGED <<settings, drawn, created, nextTask>>
    BY <1>3 DEF CreateImage
  <2>2. created = 0 /\ nextTask = 0
    BY <2>1, NothingYet DEF Control, Early
  <2>3. SUFFICES ASSUME ~TooSmall, NEW z \in Image
                 PROVE  \/ \E p \in Painters : z \in Left(p)'
                        \/ \E P \in Unassigned' : z \in P
    BY <2>1, SameGeometry DEF NothingForgotten
  <2>4. CASE settings.theMode = "single"
    <3>1. part'[Main] = WholeImage
      BY <1>3, <2>4, MainAndThreads DEF CreateImage, TypeOK
    <3>2. pc'[Main] = "draw"
      <4>1. "draw" \in Labels
        BY DEF Labels
      <4> QED
        BY <2>1, <2>4, <4>1, Moves, MainAndThreads
    <3>3. Left(Main)' = PixelsOf(WholeImage)
      <4>1. Left(Main)' = PixelsOf(part'[Main])
        BY <2>1, <3>2 DEF Left, PixelsOf, Wrapped, width, height
      <4> QED
        BY <3>1, <4>1
    <3>4. PixelsOf(WholeImage) = Image
      <4>1. width \in Nat /\ height \in Nat
        BY Dimensions
      <4>2. WholeImage \in Parts /\ PartOK(WholeImage)
        BY <4>1 DEF WholeImage, Parts, PartOK
      <4>3. PixelsOf(WholeImage) = (WholeImage.xStart .. WholeImage.xEnd - 1) \X (WholeImage.j .. WholeImage.yEnd - 1)
        BY <4>2, PixelsInside DEF Parts
      <4> QED
        BY <4>3 DEF WholeImage, Image
    <3> QED
      BY <3>3, <3>4, MainAndThreads
  <2>5. CASE settings.theMode = "row"
    <3>1. PICK i \in 0 .. settings.nThreads - 1 : z \in PixelsOf(Band(i))
      BY BandsCover
    <3>2. i \in Absent'
      <4>1. i \in Threads /\ pc[i] = "new"
        BY <2>1, NothingYet, Dimensions, FractalAssumption DEF Control, Early, Threads
      <4>2. pc'[i] = pc[i]
        <5>1. "draw" \in Labels /\ "create" \in Labels
          BY DEF Labels
        <5> QED
          BY <2>1, <4>1, <5>1, Moves, MainAndThreads
      <4> QED
        BY <2>1, <4>1, <4>2 DEF Absent
    <3>3. PixelsOf(Band(i)) \in Unassigned'
      BY <2>1, <2>5, <3>2, UnassignedPartsNext
    <3> QED
      BY <3>1, <3>3
  <2>6. CASE settings.theMode = "task"
    <3>1. width >= TASK_SIZE /\ height >= TASK_SIZE
      BY <2>3, <2>6, Dimensions DEF TooSmall
    <3>2. PICK k \in Grid : z \in PixelsOf(Task(k[1], k[2]))
      BY <3>1, TasksCover
    <3>3. k[1] * taskCols + k[2] \in 0 .. nTasks - 1
      BY TaskNumber
    <3>4. k \in Unclaimed'
      <4>1. 0 <= k[1] * taskCols + k[2]
        BY <3>3
      <4> QED
        BY <2>1, <2>2, <4>1 DEF Unclaimed, Grid, taskRows, taskCols, width, height
    <3>5. PixelsOf(Task(k[1], k[2])) \in Unassigned'
      BY <2>1, <2>6, <3>4, UnassignedPartsNext
    <3> QED
      BY <3>2, <3>5
  <2> QED
    BY <2>4, <2>5, <2>6 DEF TypeOK
<1>4. CASE Next /\ settings' = settings /\ ~CreateImage
  <2>1. PICK p \in Painters : \E G : Hand(p, G)
    BY <1>4, HandStep
  <2>2. pc'[Main] \in {"draw", "create", "join"} => pc[Main] \in {"draw", "create", "join"}
    <3>1. CASE MainMoves
      BY <3>1, Moves, MainAndThreads DEF MainMoves, Labels, Ended
    <3>2. ASSUME NEW q \in Painters, NEW next \in Labels, Goto(q, next),
                 q = Main => next = "save"
          PROVE  pc'[Main] \in {"draw", "create", "join"} => pc[Main] \in {"draw", "create", "join"}
      BY <3>2, Moves, MainAndThreads
    <3>3. CASE CreateThread \/ CreateFails
      <4>1. PICK q \in Painters : q = created /\ q # Main
        BY <3>3, NextThread DEF CreateThread, CreateFails, Control
      <4>2. "draw" \in Labels /\ "claim" \in Labels /\ "missing" \in Labels
        BY DEF Labels
      <4>3. \E next \in Labels : Goto(q, next)
        BY <3>3, <4>1, <4>2 DEF CreateThread, CreateFails
      <4> QED
        BY <3>2, <4>1, <4>3
    <3>4. CASE Joins \/ UNCHANGED fractalVars
      BY <3>4 DEF Joins, fractalVars
    <3>5. ASSUME NEW q \in Painters,
                 ClaimTask(q) \/ NoTaskLeft(q) \/ DrawRow(q) \/ PartDrawn(q)
          PROVE  pc'[Main] \in {"draw", "create", "join"} => pc[Main] \in {"draw", "create", "join"}
      <4>1. "draw" \in Labels /\ "claim" \in Labels /\ "done" \in Labels /\ "save" \in Labels
        BY DEF Labels
      <4>2. CASE ClaimTask(q) \/ NoTaskLeft(q)
        <5>1. pc[q] = "claim" /\ \E next \in Labels : Goto(q, next)
          BY <4>1, <4>2 DEF ClaimTask, NoTaskLeft
        <5>2. q # Main
          BY <5>1 DEF Control, MainLoops, Ended
        <5> QED
          BY <3>2, <5>1, <5>2
      <4>3. CASE DrawRow(q)
        BY <4>3 DEF DrawRow
      <4>4. CASE PartDrawn(q)
        <5>1. \E next \in Labels : Goto(q, next) /\ (q = Main => next = "save")
          BY <4>1, <4>4 DEF PartDrawn
        <5> QED
          BY <3>2, <5>1
      <4> QED
        BY <3>5, <4>2, <4>3, <4>4
    <3> QED
      BY <1>4, <3>1, <3>3, <3>4, <3>5, StepKinds
  <2> QED
    BY <1>4, <2>1, <2>2, HandForgetsNothing
<1> QED
  BY <1>1, <1>2, <1>3, <1>4

\* An image smaller than a task makes no tasks, and nobody draws.
LEMMA SmallNoTasks == TypeOK => (TooSmall => nTasks = 0)
<1> SUFFICES ASSUME TypeOK, TooSmall PROVE nTasks = 0
  OBVIOUS
<1>1. taskRows \in Nat /\ taskCols \in Nat /\ (taskRows = 0 \/ taskCols = 0)
  BY Dimensions, TaskCounts DEF TooSmall
<1> QED
  BY <1>1 DEF nTasks

LEMMA TooSmallStep ==
  ASSUME TypeOK, TypeOK', Control, NothingTooSmall, [Next]_fractalVars
  PROVE  NothingTooSmall'
<1>1. TooSmall' => nTasks' = 0
  <2>1. TypeOK'
    OBVIOUS
  <2>2. (TooSmall => nTasks = 0)'
    BY <2>1, SmallNoTasks, PTL
  <2> QED
    BY <2>2
<1>2. SUFFICES ASSUME TooSmall'
               PROVE  drawn' = {} /\ \A p \in Painters : pc'[p] # "draw"
  BY <1>1 DEF NothingTooSmall
<1>3. CASE UNCHANGED fractalVars
  <2>1. TooSmall
    BY <1>2, <1>3, SameGeometry DEF fractalVars
  <2> QED
    BY <1>3, <2>1 DEF NothingTooSmall, fractalVars
<1>4. CASE Next /\ settings' # settings
  <2>1. pc[Main] = "arguments" /\ pc' = pc /\ drawn' = drawn
    BY <1>4, SettingsTyped
  <2> QED
    BY <2>1, NothingYet DEF Control, Early
<1>5. CASE Next /\ settings' = settings
  <2>1. TooSmall /\ settings.theMode = "task"
    BY <1>2, <1>5, SameGeometry DEF TooSmall
  <2>2. /\ drawn = {} /\ nTasks = 0 /\ nextTask \in Nat
        /\ \A p \in Painters : pc[p] # "draw"
    BY <2>1, DoneFinite, Dimensions DEF NothingTooSmall, TypeOK, Done
  <2>3. ASSUME NEW q \in Painters, NEW next \in Labels, Goto(q, next), next # "draw", drawn' = drawn
        PROVE  drawn' = {} /\ \A p \in Painters : pc'[p] # "draw"
    BY <2>2, <2>3, Moves
  <2>4. /\ "create" \in Labels /\ "claim" \in Labels /\ "missing" \in Labels
        /\ "done" \in Labels /\ Main \in Painters
    BY MainAndThreads DEF Labels
  <2>5. CASE UNCHANGED fractalVars \/ Joins
    BY <2>2, <2>5 DEF fractalVars, Joins
  <2>6. CASE MainMoves
    <3>1. drawn' = drawn /\ \E next \in Labels : Goto(Main, next) /\ next # "draw"
      BY <2>6 DEF MainMoves, threadVars, Labels, Ended
    <3> QED
      BY <2>3, <2>4, <3>1
  <2>7. CASE CreateImage
    BY <2>1, <2>3, <2>4, <2>7 DEF CreateImage
  <2>8. CASE CreateThread \/ CreateFails
    <3>1. PICK q \in Painters : q = created
      BY <2>8, NextThread DEF CreateThread, CreateFails, Control
    <3>2. drawn' = drawn /\ (Goto(q, "claim") \/ Goto(q, "missing"))
      BY <2>1, <2>8, <3>1 DEF CreateThread, CreateFails
    <3> QED
      BY <2>3, <2>4, <3>2
  <2>9. ASSUME NEW p \in Painters, ClaimTask(p) PROVE FALSE
    BY <2>2, <2>9 DEF ClaimTask
  <2>10. ASSUME NEW p \in Painters, NoTaskLeft(p)
         PROVE  drawn' = {} /\ \A q \in Painters : pc'[q] # "draw"
    BY <2>3, <2>4, <2>10 DEF NoTaskLeft
  <2>11. ASSUME NEW p \in Painters, DrawRow(p) \/ PartDrawn(p) PROVE FALSE
    BY <2>2, <2>11 DEF DrawRow, PartDrawn
  <2> QED
    BY <1>5, <2>5, <2>6, <2>7, <2>8, <2>9, <2>10, <2>11, StepKinds
<1> QED
  BY <1>3, <1>4, <1>5

\* With -task, while no thread is there nothing is drawn.
LEMMA NobodyStep ==
  ASSUME TypeOK, Control, NobodyThere, [Next]_fractalVars
  PROVE  NobodyThere'
<1>0. /\ Main \in Painters /\ Main \notin Threads /\ Threads \subseteq Painters
      /\ \A p \in Painters : p \in Threads \/ p = Main
  BY MainAndThreads
<1>1. CASE settings' # settings
  <2>1. pc[Main] = "arguments" /\ drawn' = drawn
    BY <1>1, SettingsTyped DEF fractalVars
  <2> QED
    BY <2>1, NothingYet DEF Control, Early, NobodyThere
<1>2. CASE settings' = settings
  <2>1. ASSUME drawn' = drawn,
               \A t \in Threads : pc'[t] \in {"new", "missing"} => pc[t] \in {"new", "missing"}
        PROVE  NobodyThere'
    BY <1>2, <2>1 DEF NobodyThere
  <2>2. CASE UNCHANGED fractalVars \/ Joins
    BY <2>1, <2>2 DEF fractalVars, Joins
  <2>3. ASSUME NEW p \in Painters, NEW next \in Labels, Goto(p, next), drawn' = drawn,
               p \in Threads /\ pc[p] \notin {"new", "missing"} => next \notin {"new", "missing"}
        PROVE  NobodyThere'
    <3>1. \A t \in Threads : pc'[t] \in {"new", "missing"} => pc[t] \in {"new", "missing"}
      BY <1>0, <2>3, Moves
    <3> QED
      BY <2>1, <2>3, <3>1
  <2>4. /\ "draw" \in Labels /\ "create" \in Labels /\ "claim" \in Labels
        /\ "missing" \in Labels /\ "done" \in Labels /\ "save" \in Labels
    BY DEF Labels
  <2>5. CASE MainMoves
    <3>1. drawn' = drawn /\ \E next \in Labels : Goto(Main, next)
      BY <2>5 DEF MainMoves, threadVars, Labels, Ended
    <3> QED
      BY <1>0, <2>3, <3>1
  <2>6. CASE CreateImage
    BY <1>0, <2>3, <2>4, <2>6 DEF CreateImage
  <2>7. CASE CreateThread \/ CreateFails
    <3>1. PICK q \in Painters : q = created /\ pc[q] = "new"
      BY <2>7, NextThread DEF CreateThread, CreateFails, Control
    <3>2. drawn' = drawn /\ \E next \in Labels : Goto(q, next)
      BY <2>4, <2>7, <3>1 DEF CreateThread, CreateFails
    <3> QED
      BY <2>3, <3>1, <3>2
  <2>8. ASSUME NEW p \in Painters, ClaimTask(p) \/ NoTaskLeft(p)
        PROVE  NobodyThere'
    <3>1. drawn' = drawn /\ (Goto(p, "draw") \/ Goto(p, "done"))
      BY <2>8 DEF ClaimTask, NoTaskLeft
    <3> QED
      BY <2>3, <2>4, <3>1
  <2>9. ASSUME NEW p \in Painters, DrawRow(p)
        PROVE  NobodyThere'
    <3>1. pc[p] = "draw" /\ pc' = pc
      BY <2>9 DEF DrawRow
    <3>2. CASE p = Main
      BY <1>2, <3>1, <3>2 DEF Control, Modes, NobodyThere
    <3>3. CASE p \in Threads
      BY <3>1, <3>3 DEF NobodyThere
    <3> QED
      BY <1>0, <3>2, <3>3
  <2>10. ASSUME NEW p \in Painters, PartDrawn(p)
         PROVE  NobodyThere'
    <3>1. PICK next \in {"save", "claim", "done"} : Goto(p, next) /\ drawn' = drawn
      BY <2>10 DEF PartDrawn, threadVars
    <3> QED
      BY <2>3, <2>4, <3>1
  <2> QED
    BY <1>2, <2>2, <2>5, <2>6, <2>7, <2>8, <2>9, <2>10, StepKinds
<1> QED
  BY <1>1, <1>2

\* When main is done with the loops, or with the image it draws itself, nobody has
\* a pixel left, and what no painter has got is what the missing threads leave out.
LEMMA NothingLeft ==
  ASSUME TypeOK, Control, NobodyThere,
         \/ /\ pc[Main] = "join" /\ joined = settings.nThreads
         \/ /\ pc[Main] = "draw" /\ part[Main].j >= part[Main].yEnd
  PROVE  /\ \A t \in Threads : pc[t] \in {"new", "missing", "done"}
         /\ \A p \in Painters : Left(p) = {}
         /\ settings.theMode = "row" => Unassigned = {PixelsOf(Band(t)) : t \in Missing}
         /\ settings.theMode = "single" => Unassigned = {}
         /\ settings.theMode = "task" =>
              IF Missing = 0 .. settings.nThreads - 1 THEN drawn = {} ELSE Unassigned = {}
<1>0. /\ created \in 0 .. settings.nThreads /\ joined \in 0 .. created
      /\ settings.nThreads \in Nat \ {0} /\ settings.nThreads <= MAX_THREADS
      /\ \A t \in Threads : t \in Nat
      /\ \A t \in 0 .. settings.nThreads - 1 : t \in Threads
  BY Dimensions, FractalAssumption DEF TypeOK, Threads
<1>1. CASE pc[Main] = "join" /\ joined = settings.nThreads
  <2>1. created = settings.nThreads
    BY <1>0, <1>1
  <2>2. \A t \in Threads :
          IF t < settings.nThreads THEN pc[t] \in {"missing", "done"} ELSE pc[t] = "new"
    <3> SUFFICES ASSUME NEW t \in Threads
                 PROVE  IF t < settings.nThreads THEN pc[t] \in {"missing", "done"}
                        ELSE pc[t] = "new"
      OBVIOUS
    <3>1. t < settings.nThreads \/ t >= created
      BY <1>0, <2>1
    <3> QED
      BY <1>0, <1>1, <2>1, <3>1 DEF Control, MainLoops
  <2>3. \A p \in Painters : Left(p) = {}
    BY <1>1, <2>2, MainAndThreads DEF Left
  <2>4. Missing \subseteq 0 .. settings.nThreads - 1 /\ Absent = Missing
    <3>1. \A t \in Threads : t < settings.nThreads <=> t \in 0 .. settings.nThreads - 1
      BY <1>0
    <3> QED
      BY <1>0, <2>2, <3>1 DEF Missing, Absent
  <2>5. settings.theMode = "row" => Unassigned = {PixelsOf(Band(t)) : t \in Missing}
    BY <2>4, UnassignedParts
  <2>6. ASSUME settings.theMode = "task", Missing = 0 .. settings.nThreads - 1
        PROVE  drawn = {}
    <3>1. \A t \in Threads : pc[t] \in {"new", "missing"}
      BY <1>0, <2>2, <2>6 DEF Missing
    <3> QED
      BY <2>6, <3>1 DEF NobodyThere
  <2>7. ASSUME settings.theMode = "task", Missing # 0 .. settings.nThreads - 1
        PROVE  Unassigned = {}
    <3>1. PICK t \in 0 .. settings.nThreads - 1 : t \notin Missing
      BY <2>4, <2>7
    <3>2. t \in Threads /\ pc[t] = "done"
      BY <1>0, <2>2, <3>1 DEF Missing
    <3>3. nextTask >= nTasks
      BY <2>7, <3>2 DEF Control, OutOfTasks
    <3>4. nextTask \in Nat /\ nTasks \in Nat
      BY Dimensions, DoneFinite DEF TypeOK, Done
    <3>5. \A m \in Grid : m[1] * taskCols + m[2] \in 0 .. nTasks - 1
      BY TaskNumber
    <3>6. \A m \in Grid : ~(nextTask <= m[1] * taskCols + m[2])
      BY <3>3, <3>4, <3>5
    <3>7. Unclaimed = {}
      BY <3>6 DEF Unclaimed, Grid
    <3> QED
      BY <2>7, <3>7, UnassignedParts
  <2> QED
    BY <2>2, <2>3, <2>5, <2>6, <2>7, UnassignedParts
<1>2. CASE pc[Main] = "draw" /\ part[Main].j >= part[Main].yEnd
  <2>1. settings.theMode = "single" /\ created = 0
    BY <1>2 DEF Control, Modes
  <2>2. \A t \in Threads : pc[t] = "new"
    BY <1>0, <2>1 DEF Control, MainLoops
  <2>3. Left(Main) = {}
    <3>1. part[Main] \in Parts
      BY MainAndThreads DEF TypeOK, Parts
    <3>2. part[Main].j .. part[Main].yEnd - 1 = {}
      BY <1>2, <3>1 DEF Parts
    <3> QED
      BY <3>2 DEF Left, PixelsOf
  <2>4. \A p \in Painters : Left(p) = {}
    BY <2>2, <2>3, MainAndThreads DEF Left
  <2> QED
    BY <2>1, <2>2, <2>4, UnassignedParts
<1> QED
  BY <1>1, <1>2

\* What a picture lacks then.
LEMMA WholeNow ==
  ASSUME TypeOK, Control, NobodyThere, PixelsApart, NothingForgotten, NothingTooSmall,
         \/ /\ pc[Main] = "join" /\ joined = settings.nThreads
         \/ /\ pc[Main] = "draw" /\ part[Main].j >= part[Main].yEnd
  PROVE  drawn = Image \ LeftOut
<1>1. drawn \subseteq Image
  BY DEF TypeOK
<1>2. /\ settings.theMode = "row" => LeftOut = UNION {PixelsOf(Band(t)) : t \in Missing}
      /\ settings.theMode = "task" =>
           LeftOut = IF TooSmall \/ Missing = 0 .. settings.nThreads - 1 THEN Image ELSE {}
      /\ settings.theMode = "single" => LeftOut = {}
  BY DEF LeftOut
<1>3. CASE TooSmall
  <2>1. drawn = {} /\ settings.theMode = "task"
    BY <1>3 DEF NothingTooSmall, TooSmall
  <2> QED
    BY <1>2, <1>3, <2>1
<1>4. CASE ~TooSmall
  <2>1. \A z \in Image : z \in drawn \/ \E P \in Unassigned : z \in P
    BY <1>4, NothingLeft DEF NothingForgotten
  <2>2. \A P \in Unassigned : P \cap drawn = {}
    BY DEF PixelsApart
  <2>3. CASE settings.theMode = "row"
    <3>1. LeftOut = UNION Unassigned
      BY <1>2, <2>3, NothingLeft
    <3> QED
      BY <1>1, <2>1, <2>2, <3>1
  <2>4. CASE settings.theMode = "task" /\ Missing = 0 .. settings.nThreads - 1
    BY <1>2, <2>4, NothingLeft
  <2>5. CASE settings.theMode = "task" /\ Missing # 0 .. settings.nThreads - 1
    BY <1>1, <1>2, <1>4, <2>1, <2>5, NothingLeft
  <2>6. CASE settings.theMode = "single"
    BY <1>1, <1>2, <2>1, <2>6, NothingLeft
  <2> QED
    BY <2>3, <2>4, <2>5, <2>6 DEF TypeOK
<1> QED
  BY <1>3, <1>4

\* What a picture lacks depends on the settings and on who is missing.
LEMMA SameLeftOut ==
  ASSUME settings' = settings, \A t \in Threads : pc'[t] = pc[t]
  PROVE  LeftOut' = LeftOut
<1>1. Missing' = Missing
  BY DEF Missing
<1>2. \A i : PixelsOf(Band(i))' = PixelsOf(Band(i))
  BY DEF PixelsOf, Wrapped, Band, step, width, height
<1>3. {PixelsOf(Band(t)) : t \in Missing}' = {PixelsOf(Band(t)) : t \in Missing}
  BY <1>1, <1>2
<1>4. Image' = Image /\ (TooSmall' <=> TooSmall)
  BY SameGeometry
<1> QED
  BY <1>1, <1>3, <1>4 DEF LeftOut

LEMMA WholeStep ==
  ASSUME TypeOK, Control, PixelsApart, NothingForgotten, NothingTooSmall, NobodyThere,
         WholeAtSave, [Next]_fractalVars
  PROVE  WholeAtSave'
<1> DEFINE Saving == {"save", "saved", "unsaved"}
<1>0. /\ Main \in Painters /\ Main \notin Threads /\ Threads \subseteq Painters
      /\ \A p \in Painters : p \in Threads \/ p = Main
  BY MainAndThreads
<1>1. CASE settings' # settings
  <2>1. pc[Main] = "arguments" /\ pc' = pc
    BY <1>1, SettingsTyped DEF fractalVars
  <2> QED
    BY <2>1 DEF WholeAtSave
<1>2. CASE settings' = settings
  <2>1. ASSUME pc'[Main] \in Saving => pc[Main] \in Saving, drawn' = drawn,
               \A t \in Threads : pc'[t] = pc[t]
        PROVE  WholeAtSave'
    <3>1. Image' = Image /\ LeftOut' = LeftOut
      BY <1>2, <2>1, SameGeometry, SameLeftOut
    <3> QED
      BY <2>1, <3>1 DEF WholeAtSave
  <2>2. ASSUME drawn' = drawn,
               \A t \in Threads : pc'[t] = pc[t],
               \/ /\ pc[Main] = "join" /\ joined = settings.nThreads
               \/ /\ pc[Main] = "draw" /\ part[Main].j >= part[Main].yEnd
        PROVE  WholeAtSave'
    <3>1. Image' = Image /\ LeftOut' = LeftOut
      BY <1>2, <2>2, SameGeometry, SameLeftOut
    <3>2. drawn = Image \ LeftOut /\ \A t \in Threads : pc[t] \in {"new", "missing", "done"}
      BY <2>2, WholeNow, NothingLeft
    <3> QED
      BY <2>2, <3>1, <3>2 DEF WholeAtSave
  <2>3. CASE UNCHANGED fractalVars \/ Joins
    BY <2>1, <2>3 DEF fractalVars, Joins
  <2>4. CASE MainMoves
    <3>0. \A t \in Threads : pc'[t] = pc[t]
      <4>1. PICK next \in Labels : Goto(Main, next)
        BY <2>4 DEF MainMoves, Labels, Ended
      <4> QED
        BY <1>0, <4>1, Moves
    <3>1. CASE pc[Main] = "join" /\ joined = settings.nThreads
      BY <2>2, <2>4, <3>0, <3>1 DEF MainMoves, threadVars
    <3>2. CASE ~(pc[Main] = "join" /\ joined = settings.nThreads)
      <4>1. pc'[Main] \in Saving => pc[Main] \in Saving
        BY <2>4, <3>2, Moves, MainAndThreads DEF MainMoves, Labels, Ended
      <4> QED
        BY <2>1, <2>4, <3>0, <4>1 DEF MainMoves, threadVars
    <3> QED
      BY <3>1, <3>2
  <2>5. CASE CreateImage
    <3>1. pc'[Main] \in {"draw", "create"}
      <4>1. "draw" \in Labels /\ "create" \in Labels
        BY DEF Labels
      <4> QED
        BY <2>5, <4>1, Moves, MainAndThreads DEF CreateImage
    <3> QED
      BY <3>1 DEF WholeAtSave
  <2>6. CASE CreateThread \/ CreateFails
    <3>1. PICK q \in Painters : q = created /\ q # Main
      BY <2>6, NextThread DEF CreateThread, CreateFails, Control
    <3>2. "draw" \in Labels /\ "claim" \in Labels /\ "missing" \in Labels
      BY DEF Labels
    <3>3. pc[Main] = "create" /\ \E next \in Labels : Goto(q, next)
      BY <2>6, <3>1, <3>2 DEF CreateThread, CreateFails
    <3>4. pc'[Main] = "create"
      BY <3>1, <3>3, Moves, MainAndThreads
    <3> QED
      BY <3>4 DEF WholeAtSave
  <2>7. ASSUME NEW p \in Threads, pc[p] \in {"claim", "draw"},
               pc' = pc \/ \E next \in Labels : Goto(p, next)
        PROVE  WholeAtSave'
    <3>1. pc[Main] \notin Saving
      BY <2>7 DEF WholeAtSave
    <3>2. pc'[Main] = pc[Main]
      BY <1>0, <2>7, Moves
    <3> QED
      BY <3>1, <3>2 DEF WholeAtSave
  <2>8. /\ "draw" \in Labels /\ "claim" \in Labels /\ "done" \in Labels
        /\ "save" \in Labels
    BY DEF Labels
  <2>9. ASSUME NEW p \in Painters, ClaimTask(p) \/ NoTaskLeft(p)
        PROVE  WholeAtSave'
    <3>1. pc[p] = "claim" /\ \E next \in Labels : Goto(p, next)
      BY <2>8, <2>9 DEF ClaimTask, NoTaskLeft
    <3>2. p \in Threads
      BY <1>0, <3>1 DEF Control, MainLoops, Ended
    <3> QED
      BY <2>7, <3>1, <3>2
  <2>10. ASSUME NEW p \in Painters, DrawRow(p)
         PROVE  WholeAtSave'
    <3>1. pc' = pc /\ pc[p] = "draw"
      BY <2>10 DEF DrawRow
    <3>2. CASE p = Main
      BY <3>1, <3>2 DEF WholeAtSave
    <3>3. CASE p \in Threads
      BY <2>7, <3>1, <3>3
    <3> QED
      BY <1>0, <3>2, <3>3
  <2>11. ASSUME NEW p \in Painters, PartDrawn(p)
         PROVE  WholeAtSave'
    <3>1. /\ drawn' = drawn /\ pc[p] = "draw" /\ part[p].j >= part[p].yEnd
          /\ \E next \in Labels : Goto(p, next)
      BY <2>8, <2>11 DEF PartDrawn, threadVars
    <3>2. CASE p = Main
      <4>1. \A t \in Threads : pc'[t] = pc[t]
        BY <1>0, <3>1, <3>2, Moves
      <4> QED
        BY <2>2, <3>1, <3>2, <4>1
    <3>3. CASE p \in Threads
      BY <2>7, <3>1, <3>3
    <3> QED
      BY <1>0, <3>2, <3>3
  <2> QED
    BY <1>2, <2>3, <2>4, <2>5, <2>6, <2>9, <2>10, <2>11, StepKinds
<1> QED
  BY <1>1, <1>2

-----------------------------------------------------------------------------
(* Safe holds at all times: what a painter has left, what is drawn and     *)
(* what nobody has got stay apart and, while the picture is made, make up  *)
(* the image; when it is saved, it lacks what missing threads leave out.   *)
THEOREM SpecSafe == Spec => []Safe
<1>1. Init => Safe
  BY TypeInit, ControlInit, PixelsInit DEF Safe
<1>2. Safe /\ [Next]_fractalVars => Safe'
  <2> SUFFICES ASSUME Safe, [Next]_fractalVars PROVE Safe'
    OBVIOUS
  <2>1. /\ TypeOK /\ Control /\ PixelsApart /\ NothingForgotten /\ NothingTooSmall
        /\ NobodyThere /\ WholeAtSave
    BY DEF Safe, Control
  <2>2. TypeOK'
    BY <2>1, TypeStep DEF Control
  <2>3. Control'
    BY <2>1, ControlStep
  <2>4. PixelsApart'
    BY <2>1, ApartStep
  <2>5. NothingForgotten'
    BY <2>1, ForgottenStep
  <2>6. NothingTooSmall'
    BY <2>1, <2>2, TooSmallStep
  <2>7. NobodyThere'
    BY <2>1, NobodyStep
  <2>8. WholeAtSave'
    BY <2>1, WholeStep
  <2> QED
    BY <2>2, <2>3, <2>4, <2>5, <2>6, <2>7, <2>8 DEF Safe, Control
<1> QED
  BY <1>1, <1>2, PTL DEF Spec

(* What is drawn is in the image, and the counter of the tasks passes      *)
(* their number at most once for each thread (fractal.c, taskThread).      *)
THEOREM SpecTypeOK == Spec => []TypeOK
<1>1. Safe => TypeOK
  BY DEF Safe
<1> QED
  BY <1>1, SpecSafe, PTL

(* No two painters ever write the same pixel, for every size of the image  *)
(* and of the tasks and any number of threads: the bitmap needs no lock.   *)
THEOREM SpecPixelsApart == Spec => []PixelsApart
<1>1. Safe => PixelsApart
  BY DEF Safe
<1> QED
  BY <1>1, SpecSafe, PTL

(* The picture main saves lacks the bands of the threads of -row that could *)
(* not be created, everything if -task had no thread or no task, and no    *)
(* other pixel: for every size of the image and of the tasks, any number   *)
(* of threads and any order of their steps.                                *)
THEOREM SpecPictureWhole == Spec => []PictureWhole
<1>1. Safe => PictureWhole
  BY DEF Safe, WholeAtSave, PictureWhole
<1> QED
  BY <1>1, SpecSafe, PTL

=============================================================================
