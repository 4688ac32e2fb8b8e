SPECIFICATION Spec
CONSTANTS
  f = f
  g = g
  KeepCode = TRUE
  Names = {"x"}
  Funs = {f, g}
  Numbers = {1}
  Strings = {}
  StructTypes = {}
  Signatures <- CallSignatures
  Ops = {"LESS"}
  Kinds <- CallForms
  Word = 16
  MaxCells = 5
  MaxDepth = 5
  MaxArray = 0
  MaxCode = 1000
INVARIANTS ZeroInvariant TempsOwned ReferencesCurrent Nesting NoRecursion
PROPERTIES CallsReclaim HeldUntouched
SYMMETRY FunSymmetry
VIEW StateView
