SPECIFICATION MeaningSpec
CONSTANTS
  f = f
  g = g
  KeepCode = TRUE
  Names = {"x"}
  Funs = {}
  Numbers = {2}
  Strings = {}
  StructTypes = {}
  Signatures = {}
  Ops = {"OR", "AND"}
  Kinds <- BooleanKinds
  Word = 15
  MaxCells = 4
  MaxDepth = 3
  MaxArray = 0
  MaxCode = 4
  Byte = 3
  TapeSize = 20
  Inputs = {0, 1}
INVARIANTS ValuesRight
