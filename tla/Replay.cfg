\* Every program of two branches of at most two calls, three in all or four agents; three attempts.
\* Every script of three scratch calls, of which the first names n1; one resume.
CONSTANTS
  Branches = {1, 2}
  Programs <- Sound
  MaxBudget = 4
  MaxAttempts = 3
  n1 = n1
  n2 = n2
  FileNames = {n1, n2}
  MaxFiles = 2
  MaxFileBytes = 2
  MaxTotalBytes = 3
  MaxOperations = 4
  MaxSize = 2
  MaxCalls = 3
  MaxResumes = 1
SPECIFICATION MCSpec
CHECK_DEADLOCK FALSE
INVARIANTS ReplayAgrees PaidOnce PanelIsAtomic ScratchHolds
