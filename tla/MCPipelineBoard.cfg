\* The refinement and liveness: one run over two items, its arguments also
\* posted by hand, while the enclave restarts with another key.
CONSTANTS
  Accounts = {alice}
  Publisher = alice
  Pcrs = {p1}
  Keys = {k1, k2}
  Names = {n1}
  ConfigIds = {c1}
  EnclaveIds = {e1}
  MaxVersion = 0
  EvalIds = {v1}
  ScoreIds = {x1, x2}
  Models = {m1}
  MaxSigned = 2
  Sets = {s1, s2}
  ItemCount <- TwoItems
  MaxItems = 2
  Runs = {r1}
  None = None
  HandPosting = TRUE
SPECIFICATION FairSpec
INVARIANT SignedScoresComplete
PROPERTIES
  ImplementsBoard
  RunsEnd
