SPECIFICATION Spec
CONSTANTS
  Terminal = {a, b, c}
  Recycle = TRUE
  MaxInput = 9
SYMMETRY TerminalSymmetry
INVARIANTS TypeOK RuleUtility FirstUsedTwice UsersExact OwnersExact TableSound FramesLive SubstituteMatches IteratorReplays
PROPERTIES RulesKeepMeaning
