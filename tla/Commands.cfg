SPECIFICATION Spec
CONSTANTS
  Cmds = {c1, c2}
  Self = run
  Owners = {run}
  OwnerOf <- MCOwnerOf
  MaxRunning = 2
  MaxEntries <- MCMaxEntries
SYMMETRY MCSymmetry
INVARIANTS
  ReleasedIsGone
  ReceiptsAreTrue
PROPERTIES
  NoLaunchInDoubt
CHECK_DEADLOCK FALSE
