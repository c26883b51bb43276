\* One Session that retains two of three runs: the process dies between any
\* two file-system steps, and no write is torn.
CONSTANTS
  NoSession = NoSession
  NoRun = NoRun
  Sessions = {s1}
  Runs = {r1, r2, r3}
  MaxRetained = 2
  MaxBytes = 9
  MaxRunDetails = 2
  Writers = {}
  MaxDetails = 3
  MaxRev = 4
  MaxCrashes = 1
  MaxFaults = 0
  Faults = {}
  TornWrites = FALSE
SPECIFICATION Spec
SYMMETRY Interchangeable
CHECK_DEADLOCK FALSE
INVARIANTS LiveRowsAreOwned  NameNeverReused NoticeTruth NoResidue NeverRefused
