SPECIFICATION ScriptSpec
CONSTANTS
  LetterA = a
  LetterB = b
  Terminal = {a, b}
  Recycle = FALSE
  MaxInput = 16
INVARIANT LinksLive
