SPECIFICATION Spec
CONSTANTS
  Turn = 250
  Rev = 25
  Chunk = 2
  Debounce = 1
  Limit = 131
  Low = 5
  High = 4
  MaxAttempts = 3
  MaxGlitches = 0
  MaxHomings = 1
INVARIANT HomesWithinLimit
CHECK_DEADLOCK FALSE
