SPECIFICATION FairSpec
CONSTANTS
  Checkers = {"poll"}
  Releases = {1, 2}
  Factory = 1
  Blank = 0
  Broken = Broken
INVARIANTS
  OneWriter
  RunningSlotIntact
  MountedMeansStored
PROPERTIES
  ActivatesOnlyVerified
  LockComesBack
