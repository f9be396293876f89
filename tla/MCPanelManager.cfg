CONSTANTS
  Panels = {launcher}
  Prompt = polkit
  None = none
  MaxRequests = 2
  MaxEvents = 4
SPECIFICATION Spec
INVARIANTS PanelInv NoStaleDestroy PromptInv
PROPERTY ClosingEnds
CHECK_DEADLOCK FALSE
