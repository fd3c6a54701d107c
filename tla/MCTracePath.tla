----------------------------- MODULE MCTracePath -----------------------------
(***************************************************************************)
(* Instances of TracePath for TLC.  Sequence 1 is of the other producer,   *)
(* whose records are twice as long as those of the writer, 2.              *)
(***************************************************************************)
EXTENDS TracePath

MCRecordSize == (1 :> 2) @@ (2 :> 1)

Session(direct, policy, others, first) ==
  [direct |-> direct, policy |-> policy, scrapes |-> 0, others |-> others,
   first |-> first, written |-> 2, parts |-> 2, nested |-> 1, flushes |-> 1]

OverwriteMode == {Session(TRUE, "kOverwrite", 1, 0)}
ScrapingMode == {[Session(TRUE, "kOverwrite", 0, 0) EXCEPT !.scrapes = 1]}
AllModes == OverwriteMode \cup ScrapingMode \cup
  {[Session(FALSE, "kDiscard", 2, LastChunkID) EXCEPT !.nested = 0],
   [Session(FALSE, "kOverwrite", 1, 0) EXCEPT !.written = 3, !.nested = 0,
                                              !.flushes = 0]}
=============================================================================
