SPECIFICATION Spec
CONSTANTS
  Timers = {t1}
  Delays = {1}
  None = None
  MaxStarts = 1
  MaxTime = 1
  Surfaces = {s1}
  NoSurface = NoSurface
  Second = 2
  Floor = 1
  MaxCalls = 2
INVARIANTS LoopInv SleepIsShort
PROPERTIES CallsInOrder CallsAreMade TimersRun
