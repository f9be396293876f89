SPECIFICATION Spec
CONSTANTS
  Outputs = {1, 2}
  Flaky = {2}
  Contents = {a, b}
  Nothing = Nothing
  MaxRequests = 3
INVARIANTS ServiceInv QuiescentIsCurrent
PROPERTIES LatestSpec LastIsRendered
CHECK_DEADLOCK FALSE
