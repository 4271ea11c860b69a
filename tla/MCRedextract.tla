---------------------------- MODULE MCRedextract ----------------------------
(***************************************************************************)
(* Small inputs for Redextract.                                            *)
(***************************************************************************)
EXTENDS Redextract, TLC

\* more packets than the stack takes, from both files
TwoFiles == (0 :> 3) @@ (1 :> 2)

\* the second one is refused by parsePcapFileStart
ThreeFiles == (0 :> 1) @@ (1 :> 0) @@ (2 :> 1)
=============================================================================
