SPECIFICATION Spec
CONSTANTS
  a = a
  b = b
  Outputs = {left, right}
  Keys = {a, b}
  Secret <- MCSecret
  None = None
  MaxText = 2
  MaxLocks = 3
 
PROPERTIES UnlockNeedsPassword LockIsAnswered
CHECK_DEADLOCK FALSE
