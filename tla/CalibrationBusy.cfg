SPECIFICATION Spec
CONSTANTS
  Clients = {c1, c2}
  MaxSockets = 2
INVARIANT BusyMeansRunning
