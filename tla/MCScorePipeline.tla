--------------------------- MODULE MCScorePipeline ---------------------------
(* TLC instances of ScorePipeline.                                          *)
EXTENDS ScorePipeline, TLC

MCSymmetry == Permutations(Runs) \cup Permutations(Keys)
              \cup Permutations(ScoreIds) \cup Permutations(Sets)

\* All sets have the same, smallest interesting size or one item.
TwoItems == [s \in Sets |-> 2]
OneItem == [s \in Sets |-> 1]
=============================================================================
