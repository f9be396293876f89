\* "On leave, resume the countdown from the remaining progress", refuted.
SPECIFICATION Spec
CONSTANTS
  Heights = {1}
  Timeouts = {"timed"}
  Rooms <- MCRooms
  Positions = {"top"}
  MaxIds = 1
  MaxEvents = 3
INVARIANTS LeaveResumes
CHECK_DEADLOCK FALSE
