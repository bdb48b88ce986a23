\* One check while the selection changes.
CONSTANTS
  Evals = {v1, v2}
  Active <- AllEvals
  Keys = {k1, k2}
  Canonical = k1
  Grades <- PartAndFull
  Graded <- TwoKeys
  EvalLimit = 2
  ScoreLimit = 2
  MaxScores = 0
  Nothing = Nothing
  MaxChecks = 1
SPECIFICATION ExplorerSpec
CHECK_DEADLOCK FALSE
INVARIANT VerdictOfShownEval
