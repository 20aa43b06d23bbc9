SPECIFICATION FairSpec
CONSTANTS
  Clients = {c1, c2, c3}
  MaxSockets = 2
INVARIANTS
  OneRunAtATime
  WorkerOwnsItsSession
PROPERTY RequestsComeBack
