\* An inspected native run and a plain one that pauses, at the same time in one
\* session, with a restart and failing saves.
SPECIFICATION WorkflowSpec
CONSTANTS
    confirmed = confirmed
    verified = verified
    shared = shared
    NoOne = NoOne
    Workflows = {confirmed, verified}
    Sessions = {shared}
    SessionOf <- MCSessionOf
    Native = {verified}
    Quality = {verified}
    Pausing = {confirmed}
    NumStages = 2
    DependsOn <- MCDependsOn
    Gate <- MCGate
    MaxAttempts <- MCMaxAttempts
    MaxRuns = 2
    MaxCrashes = 1
    Faults = TRUE
CONSTRAINT OneRetry
INVARIANTS
    StoredStateValid
    QualityInspected
    NothingLeftBehind
    TurnsAreHeld
PROPERTIES
    StopsAreFinal
CHECK_DEADLOCK FALSE
