\* More scores than the query returns, two evals to choose from.
CONSTANTS
  Evals = {v1, v2}
  Active <- AllEvals
  Keys = {k1, k2}
  Canonical = k1
  Grades <- PartAndFull
  Graded <- TwoKeys
  EvalLimit = 2
  ScoreLimit = 2
  MaxScores = 3
  Nothing = Nothing
  MaxChecks = 1
SPECIFICATION ExplorerSpec
SYMMETRY ExplorerSymmetry
CHECK_DEADLOCK FALSE
INVARIANTS ExplorerTypeOK LeaderIsBest StampOfCard
PROPERTY LeaderNeverDrops
