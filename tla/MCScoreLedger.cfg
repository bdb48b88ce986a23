\* One config rotated at most once, one enclave object, two posted scores, at most
\* two signed messages.
CONSTANTS
  Accounts = {alice}
  Publisher = alice
  Pcrs = {p1, p2}
  Keys = {k1, k2}
  Names = {n1}
  ConfigIds = {c1}
  EnclaveIds = {e1}
  MaxVersion = 1
  EvalIds = {v1}
  ScoreIds = {s1, s2}
  Bytes = {d1, short}
  Digests = {d1}
  BlobIds = {b1, b2}
  Models = {m1, m2}
  MaxCount = 1
  MaxSigned = 2
SPECIFICATION LedgerSpec
SYMMETRY MCSymmetry
INVARIANTS
  EnclaveKeysAttested
  StaleEnclaveRemovable
  VersionNamesOnePcrs
  LedgerTypeOK
  ScoreProvenance
  KeysReleasedToAttested
PROPERTIES
  CommitmentsPermanent
