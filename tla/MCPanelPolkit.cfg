CONSTANTS
  Panels = {launcher}
  Prompt = polkit
  None = none
  MaxRequests = 2
  MaxEvents = 2
SPECIFICATION PromptSpec
INVARIANT CancelledByUser
CHECK_DEADLOCK FALSE
