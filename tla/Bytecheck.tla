----------------------------- MODULE Bytecheck -----------------------------
(***************************************************************************)
(* bytecheck (Milestone01/bytecheck.c): counts how often a byte, given as  *)
(* a hexadecimal number, is in a file.  The buffer is not initialized, and *)
(* a char is signed, as on the machine the program is built for.           *)
(***************************************************************************)
EXTENDS Integers, Sequences, FiniteSets

CONSTANTS
  BYTES,           \* how many values a byte has, 256
  LIMIT,           \* 25000; the buffer has BUFFER_SIZE, 25100, chars
  BUFFER_SIZE,
  Contents         \* what may be in the file

Char(b) == IF b < BYTES \div 2 THEN b ELSE b - BYTES
Chars == {Char(b) : b \in 0 .. BYTES - 1}

VARIABLES file, byte, pc, buffer, s, i, count

vars == <<file, byte, pc, buffer, s, i, count>>

\* strtol reads on after the two digits main has tested: "0x100" is a byte
Init ==
  /\ file \in Contents
  /\ byte \in 0 .. BYTES
  /\ pc = "read"
  /\ buffer = <<>>
  /\ s = 0
  /\ i = 0
  /\ count = 0

\* fread, of which stray is what the buffer holds after the bytes read
Read ==
  /\ pc = "read"
  /\ s' = IF Len(file) < BUFFER_SIZE THEN Len(file) ELSE BUFFER_SIZE
  /\ pc' = IF s' > LIMIT THEN "too large" ELSE IF s' = 0 THEN "no bytes" ELSE "count"
  /\ \E stray \in Chars :
       buffer' = [k \in 0 .. s' |-> IF k < s' THEN Char(file[k + 1]) ELSE stray]
  /\ UNCHANGED <<file, byte, i, count>>

OpenFails ==
  /\ pc = "read"
  /\ pc' = "no file"
  /\ UNCHANGED <<file, byte, buffer, s, i, count>>

\* slip: the first byte of the buffer is passed over
CompareLate ==
  /\ pc = "count"
  /\ i <= s
  /\ count' = IF i > 0 /\ buffer[i] = byte THEN count + 1 ELSE count
  /\ i' = i + 1
  /\ UNCHANGED <<file, byte, pc, buffer, s>>

Compare ==
  /\ pc = "count"
  /\ i <= s
  /\ count' = IF buffer[i] = byte THEN count + 1 ELSE count
  /\ i' = i + 1
  /\ UNCHANGED <<file, byte, pc, buffer, s>>

PrintCount ==
  /\ pc = "count"
  /\ i > s
  /\ pc' = "printed"
  /\ UNCHANGED <<file, byte, buffer, s, i, count>>

Next == Read \/ OpenFails \/ Compare \/ PrintCount

Spec == Init /\ [][Next]_vars

-----------------------------------------------------------------------------
TypeOK ==
  /\ file \in Contents
  /\ byte \in 0 .. BYTES
  /\ pc \in {"read", "no file", "too large", "no bytes", "count", "printed"}
  /\ s \in 0 .. BUFFER_SIZE
  /\ i \in 0 .. s + 1
  /\ count \in 0 .. i

Occurrences == Cardinality({k \in DOMAIN file : file[k] = byte})

(* The number printed for a byte below 0x80 is how often it is in the      *)
(* file, or one more when the char after the last one happens to be that   *)
(* byte.  Nothing is claimed of the bytes from 0x80 on: "number of times    *)
(* the byte is found" (bytecheck.c:37) is not what the program prints for   *)
(* them, since a char compared with them is negative and counts none.      *)
CountIsClose ==
  pc = "printed" /\ byte < BYTES \div 2 => count - Occurrences \in {0, 1}

(***************************************************************************)
(* The inductive invariant behind it: the buffer starts with the chars of  *)
(* the file, and count is of those before i.                               *)
(***************************************************************************)
Found(n) == {k \in DOMAIN file : k <= n /\ file[k] = byte}

Counted ==
  /\ byte < BYTES \div 2 /\ i <= s => count = Cardinality(Found(i))
  /\ byte < BYTES \div 2 /\ i > s => count - Cardinality(Found(s)) \in {0, 1}

FileInBuffer ==
  /\ s = Len(file)
  /\ buffer \in [0 .. s -> Chars]
  /\ \A k \in 0 .. s - 1 : buffer[k] = Char(file[k + 1])

Safe ==
  /\ TypeOK
  /\ IF pc \in {"count", "printed"} THEN FileInBuffer /\ Counted
     ELSE i = 0 /\ count = 0
  /\ pc = "printed" => i = s + 1

=============================================================================
