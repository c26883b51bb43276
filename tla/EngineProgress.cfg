\* As Engine, but the script only uses scratch, whose writes a settlement
\* waits for, and no thread dies by itself.
CONSTANTS
  MaxAgents = 2
  MaxConcurrent = 1
  MaxHooks = 1
  Hooks = {"scratch"}
  Crashes = FALSE
SPECIFICATION FairSpec
CHECK_DEADLOCK FALSE
PROPERTY WindsDown
