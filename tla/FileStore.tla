------------------------------ MODULE FileStore ------------------------------
(***************************************************************************)
(* What SimpleFS promises its user: numbered files, each of which either   *)
(* does not exist or holds some contents, and commands that change the     *)
(* file they name and no other.  The file a copyin is writing may read as  *)
(* anything until that write ends, and the end of the process in between   *)
(* leaves it as it is.                                                     *)
(***************************************************************************)
EXTENDS Naturals

CONSTANTS
  Numbers,       \* the numbers a file can have
  HostFiles,
  HostSize,      \* lengths of the host files
  Prefix(_, _),  \* the contents made of the first bytes of a host file
  Absent,        \* stands for the contents of a file that does not exist
  NoWrite        \* stands for the write in progress when there is none

VARIABLES
  files,    \* number -> contents
  online,   \* the disk is mounted
  writing   \* the file being written, and the host file it is to hold

storeVars == <<files, online, writing>>

Init ==
  /\ files = [n \in Numbers |-> Absent]
  /\ online = FALSE
  /\ writing = NoWrite

Exists(n) == n \in Numbers /\ files[n] # Absent

Mount ==
  /\ ~online
  /\ writing = NoWrite
  /\ online' = TRUE
  /\ UNCHANGED <<files, writing>>

\* the lowest number without a file gets an empty one
Create ==
  /\ online
  /\ writing = NoWrite
  /\ \E n \in Numbers :
       /\ ~Exists(n)
       /\ \A m \in Numbers : m < n => Exists(m)
       /\ \E f \in HostFiles : files' = [files EXCEPT ![n] = Prefix(f, 0)]
  /\ UNCHANGED <<online, writing>>

Delete ==
  /\ online
  /\ writing = NoWrite
  /\ \E n \in Numbers : Exists(n) /\ files' = [files EXCEPT ![n] = Absent]
  /\ UNCHANGED <<online, writing>>

Begin ==
  /\ online
  /\ writing = NoWrite
  /\ \E n \in Numbers, f \in HostFiles :
       Exists(n) /\ writing' = [number |-> n, file |-> f]
  /\ UNCHANGED <<files, online>>

OnlyWrittenChanges ==
  /\ DOMAIN files' = Numbers
  /\ \A n \in Numbers : files'[n] = files[n] \/ n = writing.number

Scribble ==
  /\ writing # NoWrite
  /\ OnlyWrittenChanges
  /\ files'[writing.number] # Absent
  /\ UNCHANGED <<online, writing>>

Finish ==
  /\ writing # NoWrite
  /\ OnlyWrittenChanges
  /\ \E bytes \in 0 .. HostSize[writing.file] :
       files'[writing.number] = Prefix(writing.file, bytes)
  /\ writing' = NoWrite
  /\ UNCHANGED online

GoOffline ==
  /\ online
  /\ online' = FALSE
  /\ writing' = NoWrite
  /\ UNCHANGED files

\* format, which an offline disk alone accepts, erases
Wipe ==
  /\ ~online
  /\ \E S \in SUBSET Numbers :
       files' = [n \in Numbers |-> IF n \in S THEN Absent ELSE files[n]]
  /\ UNCHANGED <<online, writing>>

Next ==
  \/ Mount \/ Create \/ Delete \/ Begin \/ Scribble \/ Finish
  \/ GoOffline \/ Wipe

Store == Init /\ [][Next]_storeVars
=============================================================================
