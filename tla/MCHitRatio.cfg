CONSTANTS
  Symbol = {a, b}
  NoSymbol = NoSymbol
  Fd = {3}
  Size = {0, 1, 3}
  Offset = {0, 2}
  SizeLimit = 2
  OffsetLimit = 2
  Memory = {0, 1}
  Width = 1024
  MaxLog = 4
SPECIFICATION Spec
INVARIANT HitRatioIsPercentage
