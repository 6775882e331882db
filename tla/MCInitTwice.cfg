SPECIFICATION Spec
CONSTANTS
  Symbol <- Symbols
  MaxLog = 2
  Api = {"posix"}
  Handle = {h1}
  MaxInits = 2
  MaxDepth = 2
INVARIANT OperationsLogged
