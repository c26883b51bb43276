SPECIFICATION Spec
CONSTANTS
  r1 = r1
  r2 = r2
  r3 = r3
  a1 = a1
  a2 = a2
  Runs = {r1, r2, r3}
  Agents = {a1, a2}
  Owner <- TwoOwners
  Sup = Sup
  MaxRunsPerSession = 1
  MaxRunsGlobal = 2
  MaxAttempts = 1
  MaxGates = 0
  MaxOps = 0
  MaxEvents = 0
  MaxFaults = 1
  Controls = {"pause"}
  Outcomes = {"error", "cap"}
  GateKinds = {"await_user"}
  Faults = {"setup", "lost"}
  Teardown = {"owner"}
INVARIANTS CountersMatchRuns AdmissionWithinLimits OwnerDrainTerminalizes
PROPERTIES TerminalIsFinal
CHECK_DEADLOCK FALSE
