SPECIFICATION Spec
CONSTANTS
  Names = {page, conf}
  Absent = Absent
  Directory = Directory
  Nobody = Nobody
  MaxWrites = 3
  MaxCuts = 2
INVARIANTS
  AcknowledgedMeansStored
  NoPartLeftBehind
