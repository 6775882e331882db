SPECIFICATION Spec
CONSTANTS
  Terminal = {a, b}
  Recycle = TRUE
  MaxInput = 13
SYMMETRY TerminalSymmetry
INVARIANT PredictionSound
