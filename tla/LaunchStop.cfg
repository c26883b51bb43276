SPECIFICATION Spec
CONSTANTS
  r1 = r1
  r2 = r2
  r3 = r3
  a1 = a1
  a2 = a2
  Runs = {r1}
  Agents = {a1}
  Owner <- OneOwner
  Sup = Sup
  MaxRunsPerSession = 1
  MaxRunsGlobal = 1
  MaxAttempts = 1
  MaxGates = 0
  MaxOps = 1
  MaxEvents = 0
  MaxFaults = 0
  Controls = {"stop"}
  Outcomes = {"completed", "error"}
  GateKinds = {"await_user"}
  Faults = {}
  Teardown = {"supervisor"}
PROPERTIES TerminalIsFinal
CHECK_DEADLOCK FALSE
