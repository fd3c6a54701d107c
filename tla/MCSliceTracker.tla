--------------------------- MODULE MCSliceTracker ---------------------------
EXTENDS SliceTracker, TLC

CONSTANTS category1, name1, name2

(* Slices of a track that nests have two names, of the others none.          *)
Names == {name1, name2}
MCLabel(t) ==
  [category : {category1}, name : IF t \in Unnestable THEN {Null} ELSE Names]
NameSymmetry == Permutations(Names)
=============================================================================
