SPECIFICATION TimerSpec
CONSTANTS
  Timers = {t1, t2}
  Delays = {0, 1}
  None = None
  MaxStarts = 3
  MaxTime = 2
INVARIANTS TimerInv
PROPERTIES ImplementsAlarms DueTimersRun
