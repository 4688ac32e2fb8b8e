SPECIFICATION Spec
CONSTANTS
  f = f
  g = g
  KeepCode = TRUE
  Names = {"x", "y"}
  Funs = {}
  Numbers = {1}
  Strings <- MCStrings
  StructTypes = {}
  Signatures = {}
  Ops = {}
  Kinds <- BlockForms
  Word = 16
  MaxCells = 8
  MaxDepth = 3
  MaxArray = 0
  MaxCode = 1000
INVARIANTS TypedCellsDisjoint
VIEW StateView
