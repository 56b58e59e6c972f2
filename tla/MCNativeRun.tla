----------------------------- MODULE MCNativeRun -----------------------------
\* Small instances of NativeRun: a read, a write and a command.
EXTENDS NativeRun, TLC

CONSTANTS h1, h2, r1, r2, read, edit, command

MCBatches == {<<>>, <<edit, read>>, <<command>>}
\* A run of an earlier version, which did not record that it asks its model.
MCHistories ==
  {<<Rec("run_started", r, NONE, "done"), Rec("model_response", r, <<>>, "done"),
     Rec("run_finished", r, NONE, "completed")>> : r \in Runs}
MCSymmetry == Permutations(Hosts) \cup Permutations(Runs)
=============================================================================
