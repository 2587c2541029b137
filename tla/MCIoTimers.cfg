SPECIFICATION TimersSpec
CONSTANTS
  Interval = 5
  Timeout = 1
  Delays <- ShortDelays
  MaxTimers = 2
  MaxSignals = 1
  Busy = 1
INVARIANTS
  TimersTypeOK
  TimersOnTime
  RemovedStaysQuiet
  OneShotsRunOnce
  StopIsPrompt
PROPERTIES
  NoBurst
CHECK_DEADLOCK FALSE
