-------------------------- MODULE MCSimpleFSSession --------------------------
(***************************************************************************)
(* SimpleFS with two host files of different lengths, in sessions cut      *)
(* after MaxCopyins copyins and MaxRestarts ends of a mounted process.     *)
(***************************************************************************)
EXTENDS MCSimpleFS

CONSTANTS MaxCopyins, MaxRestarts

VARIABLES copyins, restarts
sessionVars == <<vars, copyins, restarts>>

SessionInit == Init /\ copyins = 0 /\ restarts = 0

Within ==
  /\ copyins' = IF pc = "idle" /\ pc' = "fread" THEN copyins + 1 ELSE copyins
  /\ restarts' = IF mounted /\ ~mounted' THEN restarts + 1 ELSE restarts
  /\ copyins' <= MaxCopyins
  /\ restarts' <= MaxRestarts

\* Next, within these bounds
SessionNext ==
  \/ FormatSuper /\ Within
  \/ FormatInodeBlock /\ Within
  \/ Mount /\ Within
  \/ MountAstray /\ Within
  \/ \E n \in InodeNumbers \cup {1} : Create(n) /\ Within
  \/ \E n \in Inumbers : Delete(n) /\ Within
  \/ \E n \in Inumbers : DeleteTorn(n) /\ Within
  \/ \E f \in HostFiles, n \in Inumbers : Copyin(f, n) /\ Within
  \/ CopyinEnd /\ Within
  \/ WriteBegin /\ Within
  \/ AllocDirect /\ Within
  \/ AllocIndirect /\ Within
  \/ AllocPointer /\ Within
  \/ StoreData /\ Within
  \/ WriteEnd /\ Within
  \/ IndirectLeaked /\ Within
  \/ Restart /\ Within

Session ==
  /\ SessionInit /\ [][SessionNext]_sessionVars
  /\ WF_sessionVars(CommandStep /\ Within)
=============================================================================
