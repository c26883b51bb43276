SPECIFICATION Spec
CONSTANTS
  r1 = r1
  r2 = r2
  r3 = r3
  a1 = a1
  a2 = a2
  Runs = {r1}
  Agents = {a1}
  Owner <- OneOwner
  Sup = Sup
  MaxRunsPerSession = 1
  MaxRunsGlobal = 1
  MaxAttempts = 3
  MaxGates = 2
  MaxOps = 3
  MaxEvents = 1
  MaxFaults = 0
  Controls = {"pause", "stop", "resume", "raise", "answer"}
  Outcomes = {"completed", "error", "cap", "dirty", "nocheckpoint", "diverged", "rejected"}
  GateKinds = {"await_user", "pause"}
  Faults = {}
  Teardown = {}
INVARIANTS AtMostOneLiveAttempt PausedIsReplayable ShownGateIsParked
PROPERTIES AnswerReachesItsGate 
CHECK_DEADLOCK FALSE
