SPECIFICATION FairSpec
CONSTANTS
  r1 = r1
  r2 = r2
  r3 = r3
  a1 = a1
  a2 = a2
  Runs = {r1}
  Agents = {a1}
  Owner <- OneOwner
  Sup = Sup
  MaxRunsPerSession = 1
  MaxRunsGlobal = 1
  MaxAttempts = 2
  MaxGates = 1
  MaxOps = 1
  MaxEvents = 0
  MaxFaults = 1
  Controls = {"pause", "stop", "resume", "answer"}
  Outcomes = {"completed", "error"}
  GateKinds = {"await_user", "pause"}
  Faults = {"lost", "setup", "release"}
  Teardown = {"owner", "supervisor"}
PROPERTIES TailSettles OwnerDrainEnds DisposeEnds
CHECK_DEADLOCK FALSE
