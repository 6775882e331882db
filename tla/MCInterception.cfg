SPECIFICATION Spec
CONSTANTS
  Symbol <- Symbols
  MaxLog = 3
  Api = {"posix"}
  Handle = {h1}
  MaxInits = 2
  MaxDepth = 3
INVARIANTS TypeOK NoBlindAnswer TablesExact FlagFollows OperationHeld
  NextAnswers AllowedKnown
