------------------------------ MODULE KeyRelease ------------------------------
(***************************************************************************)
(* What the key fetch promises whoever calls it: the Seal key of an object *)
(* is released at one instant, at which the Enclave object exists, and the *)
(* object opens or does not at that same instant -- or the request fails   *)
(* and nothing is released.  These are the steps FetchAndDecrypt and       *)
(* FetchFails of ScorePipeline, without the request and its stage.         *)
(***************************************************************************)

VARIABLES
  live,      \* whether the Enclave object exists
  opens,     \* whether the encrypted object opens to the text it is named after
  released,  \* whether a quorum of the key servers has given its keys
  outcome    \* "pending", "plaintext" or "error"

vars == <<live, opens, released, outcome>>

Init ==
  /\ live \in BOOLEAN
  /\ opens \in BOOLEAN
  /\ released = FALSE
  /\ outcome = "pending"

FetchAndDecrypt ==
  /\ outcome = "pending"
  /\ live
  /\ released' = TRUE
  /\ outcome' = IF opens THEN "plaintext" ELSE "error"
  /\ UNCHANGED <<live, opens>>

FetchFails ==
  /\ outcome = "pending"
  /\ outcome' = "error"
  /\ UNCHANGED <<live, opens, released>>

DestroyEnclave ==
  /\ live
  /\ live' = FALSE
  /\ UNCHANGED <<opens, released, outcome>>

Next == FetchAndDecrypt \/ FetchFails \/ DestroyEnclave

Spec == Init /\ [][Next]_vars
=============================================================================
