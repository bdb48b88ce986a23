--------------------------- MODULE MCEvalExplorer ---------------------------
(* EvalExplorer on two evals and two enclaves, three scores and a limit.    *)
EXTENDS EvalExplorer, TLC

PartAndFull == {<<2, 3>>, <<1, 1>>}
ExplorerSymmetry == Permutations(Evals)
TwoKeys == {<<Canonical, g>> : g \in PartAndFull} \cup
           ((Keys \ {Canonical}) \X {<<1, 1>>})
AllEvals == {}
=============================================================================
