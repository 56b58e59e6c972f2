\* Management of sessions and worktrees, new sessions, recovery of uncertain native
\* runs, and maintenance of the claude engine, beside two sessions with room for one.
CONSTANTS
    SessionIds = {"n", "b"}
    Providers <- MCProviders
    Generations <- MCGenerations
    Tokens <- MCTokens
    Paths <- MCPaths
    Directories <- MCDirectories
    Canonical <- MCCanonical
    Within <- MCWithin
    Terminals = {}
    Provider <- MCProvider
    Conversation <- MCConversation
    Root <- MCNestedRoot
    Cwd <- MCNestedCwd
    Base <- MCSameRoot
    Worktrees = {"b"}
    Sources = {"link"}
    MaxSessions = 1
    Jobs = {"j1", "j2"}
    JobKinds = {"manage", "worktree", "creation", "addition", "context"}
    Outers = {"n"}
    Stoppable = {"n"}
    Maintainable = {"claude"}
    MaxCancels = 1
    MaxEpochs = 1
    Faults = TRUE
    NoLease = NoLease
    NoOne = NoOne
SPECIFICATION FairServiceSpec
INVARIANTS
    LeasesMatchProcesses
    UncertainDirectoriesRest
    ManagementIsAlone

    
CHECK_DEADLOCK FALSE
