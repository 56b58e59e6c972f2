-------------------------- MODULE MCSessionService --------------------------
\* Small instances of SessionService: claude sessions a, b and c, a native
\* session n and a terminal t, in a repository with a directory in it (also
\* known under a link) and another repository.
EXTENDS SessionService

MCPaths == {"repo", "repo/sub", "repo/doc", "link", "other"}
MCDirectories == {"repo", "repo/sub", "repo/doc", "other"}
MCCanonical == [p \in MCPaths |-> IF p = "link" THEN "repo/sub" ELSE p]
MCWithin == {<<d, d>> : d \in MCDirectories} \cup 
    {<<"repo/sub", "repo">>, <<"repo/doc", "repo">>}

MCProviders == {"claude", "native"}
MCProvider == [s \in SessionIds |-> IF s = "n" THEN "native" ELSE "claude"]
MCGenerations == 0 .. MaxCancels
MCTokens == 1 .. 2 * Cardinality(SessionIds) + 1

MCConversation == [s \in SessionIds |-> s]
MCSharedConversation == [s \in SessionIds |-> IF s \in {"a", "c"} THEN "talk" ELSE s]

\* Everyone works in the repository.
MCSameRoot == [s \in SessionIds |-> "repo"]

\* The worktree of n lies inside the repository of b, who works in another
\* directory of it.
MCNestedRoot == [s \in SessionIds |-> IF s = "n" THEN "link" ELSE "repo"]
MCNestedCwd == [s \in SessionIds |-> IF s = "n" THEN "repo/sub" ELSE "repo/doc"]

\* The worktree of b and the directory of t lie inside the repository of a; c works
\* elsewhere.
MCStarRoot == [s \in SessionIds |->
    CASE s = "a" -> "repo" [] s = "b" -> "link" [] s = "c" -> "other" [] OTHER -> "repo/doc"]
MCStarCwd == [s \in SessionIds |->
    CASE s = "b" -> "repo/sub" [] s = "c" -> "other" [] OTHER -> "repo/doc"]
=============================================================================
