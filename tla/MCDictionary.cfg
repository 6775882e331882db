SPECIFICATION Spec
CONSTANTS
  Sequence <- Traces
  Wild = Wild
  Garbage = FALSE
INVARIANTS IdsUnique FileExact
PROPERTIES IsDictionary NewEntryWritten InsertReturns
