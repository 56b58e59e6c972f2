\* A run that kept its session is removed.
SPECIFICATION WorkflowSpec
CONSTANTS
    confirmed = confirmed
    verified = verified
    shared = shared
    NoOne = NoOne
    Workflows = {confirmed, verified}
    Sessions = {shared}
    SessionOf <- MCSessionOf
    Native = {}
    Quality = {}
    Pausing = {confirmed}
    NumStages = 2
    DependsOn <- MCDependsOn
    Gate <- MCPlainGate
    MaxAttempts <- MCMaxAttempts
    MaxRuns = 1
    MaxCrashes = 0
    Faults = TRUE
INVARIANTS
    OwnersCanBeRepaired
CHECK_DEADLOCK FALSE
