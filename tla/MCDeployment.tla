----------------------------- MODULE MCDeployment -----------------------------
(* TLC instance of Deployment: three runs of the scripts in any mode.       *)
EXTENDS Deployment, TLC

MCSymmetry == Permutations(Scripts) \cup Permutations(Images)
=============================================================================
