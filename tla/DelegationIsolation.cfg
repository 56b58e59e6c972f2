CONSTANTS
  batch = batch
  recovery1 = recovery1
  recovery2 = recovery2
  Calls = {batch, recovery1}
  Kind <- MCKind
  Tasks <- MCTasks
  Capacities = {1}
  WithSkills = TRUE
  MaxQueued = 2
  MaxFaults = 0
SPECIFICATION Spec
INVARIANTS
  WorkspacesStayIsolated
CHECK_DEADLOCK FALSE
