CONSTANTS
  batch = batch
  recovery1 = recovery1
  recovery2 = recovery2
  Calls = {batch, recovery1, recovery2}
  Kind <- MCKind
  Tasks <- MCTasks
  Capacities = {1, 2}
  WithSkills = TRUE
  MaxQueued = 2
  MaxFaults = 1
SPECIFICATION Spec
SYMMETRY MCSymmetry
CONSTRAINT SecondAfterBatch
INVARIANTS
  WorkIsCovered
  ChildReceiptsAreTrue
PROPERTIES
  NoLaunchAfterDoubt
CHECK_DEADLOCK FALSE
