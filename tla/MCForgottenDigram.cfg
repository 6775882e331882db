SPECIFICATION Spec
CONSTANTS
  Terminal = {a, b}
  Recycle = TRUE
  MaxInput = 8
SYMMETRY TerminalSymmetry
INVARIANT DigramsRemembered
