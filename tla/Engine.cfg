\* Two agents share one slot; the script uses every hook.
CONSTANTS
  MaxAgents = 2
  MaxConcurrent = 1
  MaxHooks = 1
  Hooks = {"log", "scratch", "await_user", "pause"}
  Crashes = TRUE
SPECIFICATION Spec
CHECK_DEADLOCK FALSE
INVARIANTS  PairedWhenSettled CancelDecides DisposeIsComplete
