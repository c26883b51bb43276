\* Every transaction ends and the store comes back.
CONSTANTS
  NoSession = NoSession
  NoRun = NoRun
  Sessions = {s1}
  Runs = {r1, r2}
  MaxRetained = 1
  MaxBytes = 9
  MaxRunDetails = 2
  Writers = {r1}
  MaxDetails = 2
  MaxRev = 3
  MaxCrashes = 1
  MaxFaults = 1
  Faults = {"remove"}
  TornWrites = FALSE
SPECIFICATION FairSpec
CHECK_DEADLOCK FALSE
PROPERTY StoreComesBack
