SPECIFICATION Spec
CONSTANTS
  KeepCode = TRUE
  Programs <- MCPrograms
  Inputs = {0, 3}
INVARIANTS TypeOK PointerHeld
PROPERTIES MeansIR
