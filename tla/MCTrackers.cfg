CONSTANTS
  Tracker = {t1, t2}
  Object = {o1, o2, o3}
  None = None
  Size = {0, 2, 5}
  OffsetOp <- MCOffsetOp
  SizeLimit = 2
  OffsetLimit = 2
  Memory = {0, 1}
  MaxLog = 4
SPECIFICATION Spec
SYMMETRY MCSymmetry
INVARIANTS
  CountsExact
  HistoryKept
  SumsKept
  PredictsSeen
