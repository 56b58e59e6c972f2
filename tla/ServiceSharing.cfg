\* Two claude sessions and a terminal share a repository, one at the top of it; a third
\* claude session, elsewhere, continues the conversation of that one; there is room for two.
CONSTANTS
    SessionIds = {"a", "b", "c", "t"}
    Providers <- MCProviders
    Generations <- MCGenerations
    Tokens <- MCTokens
    Paths <- MCPaths
    Directories <- MCDirectories
    Canonical <- MCCanonical
    Within <- MCWithin
    Terminals = {"t"}
    Provider <- MCProvider
    Conversation <- MCSharedConversation
    Root <- MCStarRoot
    Cwd <- MCStarCwd
    Base <- MCSameRoot
    Worktrees = {}
    Sources = {}
    MaxSessions = 2
    Jobs = {}
    JobKinds = {}
    Outers = {"a"}
    Stoppable = {"a"}
    Maintainable = {}
    MaxCancels = 1
    MaxEpochs = 0
    Faults = TRUE
    NoLease = NoLease
    NoOne = NoOne
SPECIFICATION ServiceSpec
INVARIANTS
    LeasesExclusive
    AdmissionIsSafe
PROPERTIES
    CancelledCallsNeverRun
    TakesAndGivesUp
