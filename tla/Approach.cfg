SPECIFICATION ApproachFairSpec
CONSTANTS
  Rev = 72
  Limit = 38
  Tolerance = 2
  Band = 5
  Margin = 10
  MaxIterations = 5
  MaxBackOffs = 2
  Backlash = 4
  Noise = 1
  Landing = 3
  Targets <- MCMiddle
  MaxDrifts = 1
INVARIANTS
  BackOffTakesUpSlack
  RefineEndsNear
PROPERTIES
  HoldSettles
  HoldComesToRest
  HoldNeverBacksOff
  HoldLeavesGearLoaded
