-------------------------- MODULE MCWorkflowEngine --------------------------
\* Small instances of WorkflowEngine: runs of one session with two stages, the
\* first of which depends on the second.
EXTENDS WorkflowEngine

CONSTANTS confirmed, verified, shared

MCSessionOf == [w \in Workflows |-> shared]
MCDependsOn == <<{2}, {}>>
MCMaxAttempts == [w \in Workflows |-> IF w = confirmed THEN 1 ELSE 2]

\* Bound: of the two stages of a run one is executed again, once.
OneRetry == \A w \in Workflows : runs[w].stages[1].attempts + runs[w].stages[2].attempts <= 3

\* confirmed begins with a stage that the user confirms; verified ends with one
\* that its evidence approves.
MCGate == [w \in Workflows |->
              IF w = confirmed THEN <<"none", "manual">> ELSE <<"native_task", "none">>]

\* Two runs without a native task.
MCPlainGate == [w \in Workflows |->
              IF w = confirmed THEN <<"manual", "none">> ELSE <<"none", "manual">>]
=============================================================================
