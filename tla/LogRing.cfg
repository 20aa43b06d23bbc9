SPECIFICATION FairSpec
CONSTANTS
  Writers = {w1, w2}
  Lines = 2
  Batch = 1
  TailLines = 2
  Garbage = Garbage
  MaxLines = 4
  MaxRestarts = 1
INVARIANTS
  NothingMissedSilently
  RowsTellTheTruth
  TailHoldsTheNewest
PROPERTIES
  KeepsNumbers
  TabCatchesUp
