CONSTANTS
  Servers = {a, b, c}
  MaxServices = 3
SPECIFICATION FairSpec
INVARIANTS
  TypeOK
  QuorumSuffices
PROPERTIES
  FetchEnds
  ImplementsRelease
\* A request ends.
CHECK_DEADLOCK FALSE
