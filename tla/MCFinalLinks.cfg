\* The run panel's promise, with a server that stays up and whole chunks.
CONSTANTS
  Jobs = {j1, j2}
  Polls = {p1, p2}
  None = None
  Restarts = FALSE
  Cuts = FALSE
SPECIFICATION FairSpec
CHECK_DEADLOCK FALSE
PROPERTY FinalLinksShown
