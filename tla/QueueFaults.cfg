SPECIFICATION Spec
CONSTANTS
  b1 = b1
  b2 = b2
  f1 = f1
  r1 = r1
  r2 = r2
  r3 = r3
  Requests = {r1, r2, r3}
  Bodies = {b1}
  Files = {}
  Attached <- MCAttachedNone
  ItemCap = 2
  ReceiptCap = 2
  SettleMayFail = TRUE
  MaxMsgs = 3
  MaxControls = 1
  MaxStops = 0
  MaxMaintenance = 0
  MaxFaults = 1
  MaxCrashes = 1
  MaxChain = 1
SYMMETRY RequestSymmetry
INVARIANTS
  AcceptedNotLost
  NothingReplayedUnasked
  TypeOK
  OneMessagePerRequest
PROPERTIES
  OutcomeIsFinal
CHECK_DEADLOCK FALSE
