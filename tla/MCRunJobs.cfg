\* Server restarts, cut output, overlapping polls.
CONSTANTS
  Jobs = {j1, j2}
  Polls = {p1, p2}
  None = None
  Restarts = TRUE
  Cuts = TRUE
SPECIFICATION FairSpec
CHECK_DEADLOCK FALSE
INVARIANTS TypeOK ShownCompleteIsPosted
PROPERTIES FinishedStaysFinished PanelSettles
