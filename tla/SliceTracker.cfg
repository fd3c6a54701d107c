SPECIFICATION Spec
CONSTANTS
  Track = {t, u}
  Unnestable = {u}
  category1 = category1
  name1 = name1
  name2 = name2
  Null = Null
  Label <- MCLabel
  MaxTs = 2
  MaxSlices = 4
  MaxDepth = 3
INVARIANTS SlicesNest SiblingsAreDisjoint
PROPERTIES DurationsAreFinal
SYMMETRY NameSymmetry
CHECK_DEADLOCK FALSE
