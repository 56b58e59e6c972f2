\* A run with a file change and a command, crashes, and a run after it.
SPECIFICATION Spec
CONSTANTS
    h1 = h1
    h2 = h2
    r1 = r1
    r2 = r2
    read = read
    edit = edit
    command = command
    NONE = NONE
    TORN = TORN
    Hosts = {h1, h2}
    Runs = {r1, r2}
    Calls = {read, edit, command}
    Reads = {read}
    Commands = {command}
    MaxRecords = 13
    Histories <- MCHistories
    Batches <- MCBatches
    Retries = 1
    Corrections = 0
SYMMETRY MCSymmetry
INVARIANTS
    OneWriter
    JournalIsTrue
    DoubtIsKept
    ResultsAreDurable
    LoopIsAccepted
CHECK_DEADLOCK FALSE
