SPECIFICATION Spec
CONSTANTS
  Rev = 12
  Limit = 7
  Period = 4
  MaxBias = 1
  FirstOffset = 5
  GearError <- MCGearError
  Requests <- MCRequests
  Distances <- MCDistances
  Jogs <- MCJogs
  Far = 13
  None = None
INVARIANTS
  ArrivesAtTarget
  PositionFollowsSensor
  NeverRefused
  ShortestLegalWay
  CameraEndsAtTarget
