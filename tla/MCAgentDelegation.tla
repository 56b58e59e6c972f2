--------------------------- MODULE MCAgentDelegation ---------------------------
(* Instances of AgentDelegation. *)
EXTENDS AgentDelegation, TLC

CONSTANTS batch, recovery1, recovery2

MCKind == [c \in Calls |-> IF c = batch THEN "implement" ELSE "recover"]
MCTasks == [c \in Calls |-> IF c = batch THEN 2 ELSE 1]
\* Bound: a second child is recovered only after the batch; the first may be
\* recovered beside it.
SecondAfterBatch == (\A c \in Calls \ {batch} : call[c].pc # "none") => call[batch].pc = "over"
MCSymmetry == Permutations({recovery1, recovery2})
===============================================================================
