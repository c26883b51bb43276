\* Two Sessions share a store of two files: a transaction evicts rows of
\* the other Session, and any two steps throw.
CONSTANTS
  NoSession = NoSession
  NoRun = NoRun
  Sessions = {s1, s2}
  Runs = {r1, r2}
  MaxRetained = 2
  MaxBytes = 2
  MaxRunDetails = 2
  Writers = {}
  MaxDetails = 2
  MaxRev = 3
  MaxCrashes = 1
  MaxFaults = 2
  Faults = {"early", "late", "remove"}
  TornWrites = FALSE
SPECIFICATION Spec
SYMMETRY Interchangeable
CHECK_DEADLOCK FALSE
INVARIANTS NoDanglingHead WithinLimits
PROPERTY RowsOnlyAdvance
