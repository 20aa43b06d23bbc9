SPECIFICATION FairSpec
CONSTANTS
  main = main
  httpd = httpd
  calib = calib
  Tasks <- MCTasks
  CanRun <- MCCanRun
  BootTask = main
  Hold = Hold
  Free = Free
  NoEstimate = NoEstimate
  Rev = 2
  Limit = 1
  Slack = 1
  Lowest <- MCLowest
  Highest = 3
  MaxCommands = 1
INVARIANTS
  MotorExclusion
  HoldSeesTheTarget
  HaltFindsMotorStopped
PROPERTIES
  KeepsTwoStates
  OperationsReturn
  HoldTakesOver
