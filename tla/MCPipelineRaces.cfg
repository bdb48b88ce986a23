\* Two runs race over one enclave process; an eval over either of two sets.
CONSTANTS
  Accounts = {alice}
  Publisher = alice
  Pcrs = {p1}
  Keys = {k1}
  Names = {n1}
  ConfigIds = {c1}
  EnclaveIds = {e1}
  MaxVersion = 0
  EvalIds = {v1}
  ScoreIds = {x1, x2}
  Models = {m1}
  MaxSigned = 4
  Sets = {s1, s2}
  ItemCount <- OneItem
  MaxItems = 1
  Runs = {r1, r2}
  None = None
  HandPosting = FALSE
SPECIFICATION Spec
SYMMETRY MCSymmetry
INVARIANTS
  TypeOK
  PostedOnCommittedSet
  MisSealedNeverPosted
  PostedAfterRelease
