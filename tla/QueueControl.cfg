SPECIFICATION FairSpec
CONSTANTS
  b1 = b1
  b2 = b2
  f1 = f1
  r1 = r1
  r2 = r2
  r3 = r3
  Requests = {r1, r2}
  Bodies = {b1}
  Files = {f1}
  Attached <- MCAttachedOne
  ItemCap = 2
  ReceiptCap = 2
  SettleMayFail = FALSE
  MaxMsgs = 2
  MaxControls = 1
  MaxStops = 1
  MaxMaintenance = 1
  MaxFaults = 0
  MaxCrashes = 0
  MaxChain = 2
INVARIANTS
  AttachmentsKept
PROPERTIES
  StopWins
  MaintenanceFences
  Progress
CHECK_DEADLOCK FALSE
