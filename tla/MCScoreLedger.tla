---------------------------- MODULE MCScoreLedger ----------------------------
(* TLC instance of ScoreLedger, and with it of EnclaveRegistry: one account *)
(* and one name (the theorems of the two proof modules hold for all of      *)
(* them), two images and two keys, one eval, and a byte string that is not  *)
(* 32 bytes long.                                                           *)
EXTENDS ScoreLedger, TLC

MCSymmetry == Permutations(Pcrs) \cup Permutations(Keys)
              \cup Permutations(BlobIds) \cup Permutations(Models)
=============================================================================
