SPECIFICATION Spec
CONSTANTS
  Texts = {a}
  Timeouts = {1}
  Lefts = {0}
  Window = 1
  MaxHistory = 2
  MaxId = 3
  MaxLive = 2
  Never = Never
INVARIANTS HistoryInv
PROPERTIES RestartKeepsHistory MapSpec ExpiredIsClosed ChangeIsSaved
