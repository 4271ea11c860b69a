----------------------------- MODULE MCPrograms -----------------------------
(***************************************************************************)
(* Programs for TLC: few bytes, few files.                                 *)
(***************************************************************************)
EXTENDS Programs

\* the byte 3 stands for 0xFF
MCContents == {<<>>, <<1>>, <<0, 2>>, <<1, 3, 2>>}
MCChecked == {<<>>, <<1>>, <<0, 2>>, <<1, 3, 2>>, <<1, 1>>, <<2, 2>>, <<1, 1, 1, 1, 1>>}

\* records of 2, 5 and 6 bytes: few, many for one byte of the length, and more
\* than the buffer holds; captures that lack bytes of their last record
MCRecords ==
  {[seconds |-> 1, useconds |-> 6, wire |-> 7, data |-> d] :
     d \in {<<2, 3>>, <<3, 1, 0, 2, 1>>, <<1, 2, 3, 0, 1, 2>>}}
NoRecords == [front |-> "cut", records |-> <<>>, lost |-> 0]
MCCaptures ==
  {x \in [front   : {"cut", "foreign", "native", "swapped"},
          records : UNION {[1 .. k -> MCRecords] : k \in 0 .. 2},
          lost    : 0 .. 13] :
     IF x.front \in {"cut", "foreign"} \/ x.records = <<>> THEN x.records = <<>> /\ x.lost = 0
     ELSE x.lost <= 7 + Len(x.records[Len(x.records)].data)}

\* what a program finds is chosen only when it is the one that runs
MCInit ==
  /\ program \in {"fractal", "chime", "bitflip", "bytecheck", "readPcapFile"}
  /\ IF program = "bitflip" THEN TRUE ELSE files = [n \in Names |-> <<>>]
  /\ IF program = "bytecheck" THEN TRUE ELSE file = <<>> /\ byte = 0
  /\ IF program = "readPcapFile" THEN TRUE ELSE capture = NoRecords
  /\ ProgramsInit

MCSpec == MCInit /\ [][ProgramsNext]_programVars /\ ProgramsFairness
=============================================================================
