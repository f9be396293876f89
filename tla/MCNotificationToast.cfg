SPECIFICATION Spec
CONSTANTS
  Heights = {1, 2}
  Timeouts = {"timed"}
  Rooms <- MCRooms
  Positions = {"top", "bottom"}
  MaxIds = 2
  MaxEvents = 2
INVARIANTS ToastInv PlacementInv ExitIsDriven FrozenIsHeld
CHECK_DEADLOCK FALSE
