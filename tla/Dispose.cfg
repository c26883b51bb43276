SPECIFICATION ReadSpec
CONSTANTS
  r1 = r1
  a1 = a1
  Runs = {r1}
  Agents = {a1}
  Owner <- OneOwner
  Sup = Sup
  MaxRunsPerSession = 1
  MaxRunsGlobal = 1
  MaxAttempts = 3
  MaxGates = 1
  MaxOps = 2
  MaxEvents = 0
  MaxFaults = 2
  Controls = {"pause", "stop", "resume", "answer"}
  Outcomes = {"completed", "error"}
  GateKinds = {"await_user", "pause"}
  Faults = {"lost", "late", "setup", "release", "notice", "limit"}
  Teardown = {"supervisor"}
  MaxWrites = 1
INVARIANTS DisposeReportsLoss DisposeLeavesNothingOpen OnlyReadersStrand
CHECK_DEADLOCK FALSE
