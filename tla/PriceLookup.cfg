\* The defaults (400 ms, three attempts, 100 ms), in ticks of 100 ms.
CONSTANTS
  Attempts = 3
  Timeout = 4
  Backoff = 1
  Second = 10
  HalfRange = 4096
  Asked <- Headers
SPECIFICATION Spec
CHECK_DEADLOCK FALSE
INVARIANTS LookupBounded WaitsAsAsked CutSaysNothing
