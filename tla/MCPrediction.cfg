SPECIFICATION Spec
CONSTANTS
  Terminal = {a, b}
  Recycle = FALSE
  MaxInput = 12
SYMMETRY TerminalSymmetry
INVARIANTS PredictionsExact PredictorsLinked PredictAllReads
PROPERTIES ContractHolds CascadeDescends
