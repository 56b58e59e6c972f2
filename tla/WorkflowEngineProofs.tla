------------------------ MODULE WorkflowEngineProofs ------------------------
(***************************************************************************)
(* What TLAPS proves of the workflow engine, for any runs, sessions,       *)
(* stages, gates and dependencies, any failed saves and any restarts.      *)
(***************************************************************************)
EXTENDS WorkflowEngine, FiniteSetTheorems, TLAPS

\* A run with the fields of the schema and receipts of attempts that were made.
Sound(r) ==
    r \in Run /\ \A s \in Stages : r.stages[s].receipts \subseteq 1 .. r.stages[s].attempts

\* A run in progress is stored.  It is stored as cancelled only if it was told
\* to stop, and as running beyond that, or beyond the end of its execution, only
\* if a save failed; the stage it waits for has begun.
Steady(w) ==
    /\ Stored(w)
    /\ runs[w].status = "cancelled" => active[w].cancelled
    /\ runs[w].status = "running" /\ (active[w].cancelled \/ active[w].pc = "ended")
           => active[w].persistenceFailed
    /\ active[w].pc \in {"stage", "check"} =>
           active[w].stage \in Stages /\ runs[w].stages[active[w].stage].attempts > 0

\* The inductive invariant: a session is given up at the end of an execution, so
\* that the two ownership invariants depend on what the end leaves stored.
WorkflowInv ==
    /\ WorkflowTypeOK /\ TurnsAlone /\ RunningIsOwned
    /\ \A w \in Workflows : active[w].pc # "none" => Steady(w)

-----------------------------------------------------------------------------
(* Runs.                                                                   *)

\* Changing the status of a run, or of all stages in one status (launch, cancel
\* and interruptRuns), touches no attempt and no receipt.
LEMMA SetStagesIsSound ==
    ASSUME NEW r, Sound(r), NEW from, NEW to \in StageStatuses
    PROVE  LET q == SetStages(r, from, to)
           IN  /\ Sound(q) /\ q.status = r.status
               /\ \A s \in Stages : q.stages[s].attempts = r.stages[s].attempts
  BY DEF Sound, Run, Stage, SetStages

LEMMA StatusIsSound ==
    ASSUME NEW r, Sound(r), NEW status \in RunStatuses
    PROVE  Sound([r EXCEPT !.status = status])
  BY DEF Sound, Run

\* An interrupted or cancelled run is sound and its attempts are those it had.
LEMMA StoppedIsSound ==
    ASSUME NEW r, Sound(r)
    PROVE  /\ Sound(Interrupted(r)) /\ Interrupted(r).status = "interrupted"
           /\ Sound(Cancelled(r)) /\ Cancelled(r).status = "cancelled"
           /\ \A s \in Stages : /\ Interrupted(r).stages[s].attempts = r.stages[s].attempts
                                /\ Cancelled(r).stages[s].attempts = r.stages[s].attempts
  <1>1. "interrupted" \in StageStatuses \cap RunStatuses /\ "cancelled" \in StageStatuses \cap RunStatuses
    BY DEF StageStatuses, RunStatuses
  <1> DEFINE i == SetStages(r, "running", "interrupted")
             c == SetStages(r, "running", "cancelled")
  <1>2. /\ Sound(i) /\ Sound(c)
        /\ \A s \in Stages : /\ i.stages[s].attempts = r.stages[s].attempts
                             /\ c.stages[s].attempts = r.stages[s].attempts
    BY <1>1, SetStagesIsSound
  <1>3. Interrupted(r) = [i EXCEPT !.status = "interrupted"] /\ Cancelled(r) = [c EXCEPT !.status = "cancelled"]
    BY DEF Interrupted, Cancelled
  <1> HIDE DEF i, c
  <1>4. Sound(Interrupted(r)) /\ Sound(Cancelled(r))
    BY <1>1, <1>2, <1>3, StatusIsSound
  <1>. QED  BY <1>2, <1>3, <1>4 DEF Sound, Run

\* A stage with receipts of its own attempts may take the place of another.
LEMMA StageIsSound ==
    ASSUME NEW r, Sound(r), NEW s \in Stages, NEW stage \in Stage,
           stage.receipts \subseteq 1 .. stage.attempts
    PROVE  LET q == [r EXCEPT !.stages = [@ EXCEPT ![s] = stage]]
           IN  /\ Sound(q) /\ q.status = r.status /\ q.stages[s] = stage
               /\ \A t \in Stages \ {s} : q.stages[t] = r.stages[t]
  BY DEF Sound, Run

\* The same for a stage alone.
LEMMA StageBegins ==
    ASSUME NEW st \in Stage, st.receipts \subseteq 1 .. st.attempts, st.attempts < 3
    PROVE  LET q == [st EXCEPT !.status = "running", !.attempts = @ + 1]
           IN  q \in Stage /\ q.receipts \subseteq 1 .. q.attempts /\ q.attempts > 0
  <1> DEFINE n == st.attempts + 1
  <1>1. st.attempts \in 0 .. 2 /\ n \in 0 .. 3 /\ n > 0 /\ 1 .. st.attempts \subseteq 1 .. n
    BY DEF Stage
  <1> HIDE DEF n
  <1>2. [st EXCEPT !.status = "running", !.attempts = n] \in Stage
    BY <1>1 DEF Stage, StageStatuses
  <1>3. LET q == [st EXCEPT !.status = "running", !.attempts = n]
        IN  q.receipts = st.receipts /\ q.attempts = n
    BY DEF Stage
  <1>. QED  BY <1>1, <1>2, <1>3 DEF n

\* An attempt that begins is counted.
LEMMA BegunIsSound ==
    ASSUME NEW r, Sound(r), NEW s \in Stages, r.stages[s].attempts < 3
    PROVE  /\ Sound(Begun(r, s)) /\ Begun(r, s).status = r.status
           /\ Begun(r, s).stages[s].attempts > 0
  <1> DEFINE stage == [r.stages[s] EXCEPT !.status = "running", !.attempts = @ + 1]
  <1>1. r.stages[s] \in Stage /\ r.stages[s].receipts \subseteq 1 .. r.stages[s].attempts
    BY DEF Sound, Run
  <1>2. stage \in Stage /\ stage.receipts \subseteq 1 .. stage.attempts /\ stage.attempts > 0
    BY <1>1, StageBegins
  <1>3. Begun(r, s) = [r EXCEPT !.stages = [@ EXCEPT ![s] = stage]]
    BY DEF Begun, Sound, Run, Stage
  <1> HIDE DEF stage
  <1>. QED  BY <1>2, <1>3, StageIsSound

\* A receipt is of the attempt that has begun.
LEMMA ReceiptIsSound ==
    ASSUME NEW w \in Workflows, NEW r, Sound(r), NEW s \in Stages, r.stages[s].attempts > 0,
           NEW receipt
    PROVE  LET q == recordReceipt(w, r, s, receipt)
           IN  /\ Sound(q) /\ q.status = r.status
               /\ \A t \in Stages : q.stages[t].attempts = r.stages[t].attempts
  <1> DEFINE stage == [r.stages[s] EXCEPT !.receipts = @ \cup {r.stages[s].attempts}]
  <1>1. r.stages[s] \in Stage /\ r.stages[s].receipts \subseteq 1 .. r.stages[s].attempts
    BY DEF Sound, Run
  <1>2. stage \in Stage /\ stage.receipts \subseteq 1 .. stage.attempts
        /\ stage.attempts = r.stages[s].attempts
    BY <1>1 DEF Stage
  <1>3. CASE receipt = "valid"
    <2>1. recordReceipt(w, r, s, receipt) = [r EXCEPT !.stages = [@ EXCEPT ![s] = stage]]
      BY <1>3 DEF recordReceipt, Sound, Run, Stage
    <2> HIDE DEF stage
    <2>. QED  BY <1>2, <2>1, StageIsSound
  <1>4. CASE receipt # "valid"
    BY <1>4 DEF recordReceipt, Sound, Run
  <1>. QED  BY <1>3, <1>4

\* The result of a stage leaves the run at rest or running, never cancelled.
LEMMA OutcomeIsSound ==
    ASSUME NEW w \in Workflows, NEW r, Sound(r), NEW s \in Stages, NEW ok \in BOOLEAN
    PROVE  LET q == Outcome(w, r, s, ok)
           IN  /\ Sound(q)
               /\ q.status \notin {"absent", "removed", "cancelled"}
               /\ \A t \in Stages : q.stages[t].attempts = r.stages[t].attempts
  <1> DEFINE waiting == CASE Gate[w][s] = "manual" -> "waiting_confirmation"
                          [] Gate[w][s] = "native_task" -> "waiting_verification"
                          [] OTHER -> "completed"
             stage == [r.stages[s] EXCEPT !.status = IF ok THEN waiting ELSE "failed"]
             at == [r EXCEPT !.stages = [@ EXCEPT ![s] = stage]]
             status == IF ~ok THEN "failed"
                       ELSE IF waiting # "completed" THEN waiting
                       ELSE IF AllDone(at) THEN "completed"
                       ELSE IF w \in Pausing THEN "paused" ELSE "running"
  <1>1. r.stages[s] \in Stage /\ r.stages[s].receipts \subseteq 1 .. r.stages[s].attempts
    BY DEF Sound, Run
  <1>2. waiting \in {"waiting_confirmation", "waiting_verification", "completed"}
    OBVIOUS
  <1>3. Outcome(w, r, s, ok) = [at EXCEPT !.status = status]
    BY DEF Outcome
  <1>4. status \in RunStatuses /\ status \notin {"absent", "removed", "cancelled"}
    BY <1>2 DEF RunStatuses
  <1> HIDE DEF waiting
  <1>5. stage \in Stage /\ stage.receipts \subseteq 1 .. stage.attempts
        /\ stage.attempts = r.stages[s].attempts
    BY <1>1, <1>2 DEF Stage, StageStatuses
  <1> HIDE DEF stage
  <1>6. Sound(at) /\ at.stages[s] = stage /\ \A t \in Stages \ {s} : at.stages[t] = r.stages[t]
    BY <1>5, StageIsSound
  <1> HIDE DEF at, status
  <1>7. Sound([at EXCEPT !.status = status])
    BY <1>4, <1>6, StatusIsSound
  <1>8. [at EXCEPT !.status = status].stages = at.stages /\ [at EXCEPT !.status = status].status = status
    BY <1>6 DEF Sound, Run
  <1>. QED  BY <1>3, <1>4, <1>5, <1>6, <1>7, <1>8

\* A gate that is passed completes or pauses the run.
LEMMA GatedIsSound ==
    ASSUME NEW w \in Workflows, NEW r, Sound(r), NEW s \in Stages
    PROVE  LET q == completeGatedStage(w, r, s)
           IN  /\ Sound(q)
               /\ q.status \in {"completed", "paused"}
               /\ \A t \in Stages : q.stages[t].attempts = r.stages[t].attempts
  BY DEF Sound, Run, Stage, completeGatedStage, RunStatuses, StageStatuses

-----------------------------------------------------------------------------
(* Where a stretch of an execution may end.                                *)

Live(r) == Sound(r) /\ r.status \notin {"absent", "removed"}

\* An end is typed, and if it waits for a stage, that stage has begun.
FitEnd(e) ==
    /\ Live(e.run)
    /\ e.pc \in {"stage", "check", "final", "thrown", "ended"}
    /\ e.stage \in 0 .. NumStages /\ e.receipt \in {"none", "valid"}
    /\ e.persistenceFailed \in BOOLEAN /\ e.faulty \in BOOLEAN
    /\ e.pc \in {"stage", "check"} => e.stage \in Stages /\ e.run.stages[e.stage].attempts > 0

SameAttempts(r, q) == \A s \in Stages : q.stages[s].attempts = r.stages[s].attempts

\* What an execution may make of its run: nothing but bookkeeping once it was
\* told to stop; before that no cancellation, and no end as running that was saved.
GoodEnd(w, e) ==
    /\ FitEnd(e)
    /\ active[w].cancelled => e.run.status = runs[w].status /\ SameAttempts(runs[w], e.run)
    /\ ~active[w].cancelled => /\ e.run.status # "cancelled"
                               /\ e.pc = "ended" /\ e.run.status = "running" => e.persistenceFailed

\* The shape of a plain end.
LEMMA EndIsFit ==
    ASSUME NEW r, Live(r), NEW pc \in {"stage", "check", "final", "thrown", "ended"},
           NEW s \in 0 .. NumStages, NEW receipt \in {"none", "valid"},
           pc \in {"stage", "check"} => s \in Stages /\ r.stages[s].attempts > 0
    PROVE  LET e == End(r, pc, s, receipt)
           IN  FitEnd(e) /\ e.run = r /\ e.pc = pc /\ ~e.persistenceFailed
  BY DEF End, FitEnd

\* Leaving the loop, and a throw, keep the run (execute, launch).
LEMMA OverIsFit ==
    ASSUME NEW r, Live(r)
    PROVE  /\ FitEnd(Over(r)) /\ Over(r).run = r /\ Over(r).pc = "ended"
           /\ FitEnd(Thrown(r)) /\ Thrown(r).run = r /\ Thrown(r).pc = "thrown"
  <1>1. 0 \in 0 .. NumStages
    BY WorkflowAssumption
  <1>. QED  BY <1>1, EndIsFit DEF Over, Thrown

\* A save that fails keeps the run as it was stored.
LEMMA UnsavedIsFit ==
    ASSUME NEW r, Live(r), NEW kept \in BOOLEAN, NEW e \in Unsaved(r, kept)
    PROVE  FitEnd(e) /\ e.run = r /\ e.pc = "thrown" /\ e.persistenceFailed = kept
  <1>1. FitEnd(Thrown(r)) /\ Thrown(r).run = r /\ Thrown(r).pc = "thrown"
    BY OverIsFit
  <1>2. e = [Thrown(r) EXCEPT !.faulty = TRUE, !.persistenceFailed = kept]
    BY DEF Unsaved
  <1>. QED  BY <1>1, <1>2 DEF Thrown, End, FitEnd

\* The head of the loop starts a stage with attempts left, or leaves the run alone.
LEMMA NextStageIsFit ==
    ASSUME NEW w \in Workflows, NEW r, Live(r), NEW e \in NextStage(w, r)
    PROVE  FitEnd(e) /\ e.run.status = r.status /\ e.pc # "ended"
  <1>0. 0 \in 0 .. NumStages /\ Stages \subseteq 0 .. NumStages /\ MaxAttempts[w] \in 1 .. 3
    BY WorkflowAssumption DEF Stages
  <1>1. ASSUME NEW s \in Ready(r), r.stages[s].attempts < MaxAttempts[w],
               e = End(Begun(r, s), "stage", s, "none")
        PROVE  FitEnd(e) /\ e.run.status = r.status /\ e.pc # "ended"
    <2>1. s \in Stages /\ r.stages[s].attempts \in 0 .. 3
      BY DEF Ready, Live, Sound, Run, Stage
    <2>2. r.stages[s].attempts < 3
      BY <1>0, <1>1, <2>1
    <2>3. Live(Begun(r, s)) /\ Begun(r, s).status = r.status /\ Begun(r, s).stages[s].attempts > 0
      BY <2>1, <2>2, BegunIsSound DEF Live
    <2>. QED  BY <1>0, <1>1, <2>1, <2>3, EndIsFit
  <1>2. CASE e = Thrown(r)
    BY <1>2, OverIsFit
  <1>3. CASE e \in Unsaved(r, FALSE)
    BY <1>3, UnsavedIsFit
  <1>4. CASE e = End(r, "final", 0, "none")
    BY <1>0, <1>4, EndIsFit
  <1>. QED  BY <1>1, <1>2, <1>3, <1>4 DEF NextStage

\* A settled result is stored before the loop goes on, and the loop is left only
\* by a run that does not run.
LEMMA SettledIsFit ==
    ASSUME NEW w \in Workflows, NEW r, Live(r), r.status # "cancelled",
           NEW s \in Stages, r.stages[s].attempts > 0,
           NEW ok \in BOOLEAN, NEW receipt, NEW e \in Settled(w, r, s, ok, receipt)
    PROVE  FitEnd(e) /\ e.run.status # "cancelled" /\ ~(e.pc = "ended" /\ e.run.status = "running")
  <1> DEFINE noted == recordReceipt(w, r, s, receipt)
             stored == Outcome(w, noted, s, ok)
  <1>1. Sound(noted)
    BY ReceiptIsSound DEF Live
  <1> HIDE DEF noted
  <1>2. Live(stored) /\ stored.status # "cancelled"
    BY <1>1, OutcomeIsSound DEF Live
  <1>3. e \in Unsaved(r, FALSE) \cup
              IF stored.status = "running" THEN NextStage(w, stored) ELSE {Over(stored)}
    BY DEF Settled, noted
  <1> HIDE DEF stored
  <1>4. CASE e \in Unsaved(r, FALSE)
    BY <1>4, UnsavedIsFit
  <1>5. CASE e \in NextStage(w, stored)
    BY <1>2, <1>5, NextStageIsFit
  <1>6. CASE stored.status # "running" /\ e = Over(stored)
    BY <1>2, <1>6, OverIsFit
  <1>. QED  BY <1>3, <1>4, <1>5, <1>6

\* What comes late is only booked.
LEMMA LateIsFit ==
    ASSUME NEW w \in Workflows, NEW r, Live(r), NEW s \in Stages, r.stages[s].attempts > 0,
           NEW receipt,
           NEW e \in {Over(r), Over(recordReceipt(w, r, s, receipt))}
                       \cup Unsaved(r, TRUE) \cup Unsaved(r, FALSE)
    PROVE  FitEnd(e) /\ e.run.status = r.status /\ SameAttempts(r, e.run)
  <1> DEFINE noted == recordReceipt(w, r, s, receipt)
  <1>1. Live(noted) /\ noted.status = r.status /\ SameAttempts(r, noted)
    BY ReceiptIsSound DEF Live, SameAttempts
  <1> HIDE DEF noted
  <1>2. CASE e = Over(noted)
    BY <1>1, <1>2, OverIsFit
  <1>3. CASE e = Over(r)
    BY <1>3, OverIsFit DEF SameAttempts
  <1>4. CASE e \in Unsaved(r, TRUE)
    BY <1>4, UnsavedIsFit DEF SameAttempts
  <1>5. CASE e \in Unsaved(r, FALSE)
    BY <1>5, UnsavedIsFit DEF SameAttempts
  <1>. QED  BY <1>2, <1>3, <1>4, <1>5 DEF noted

\* Refusing a receipt only marks the usage as incomplete.
LEMMA RefusedIsFit ==
    ASSUME NEW r, Live(r), NEW e \in Refused(r)
    PROVE  FitEnd(e) /\ e.run.status = r.status /\ SameAttempts(r, e.run) /\ e.pc = "thrown"
  <1> DEFINE noted == [r EXCEPT !.complete = FALSE]
  <1>1. Live(noted) /\ noted.status = r.status /\ SameAttempts(r, noted)
    BY DEF Live, Sound, Run, SameAttempts
  <1> HIDE DEF noted
  <1>2. CASE e = Thrown(noted)
    BY <1>1, <1>2, OverIsFit
  <1>3. CASE e \in Unsaved(r, TRUE)
    BY <1>3, UnsavedIsFit DEF SameAttempts
  <1>. QED  BY <1>2, <1>3 DEF Refused, noted

-----------------------------------------------------------------------------
(* Every stretch of an execution ends well.                                *)

\* What the invariant says of an execution in progress.
LEMMA InProgress ==
    ASSUME WorkflowInv, NEW w \in Workflows, active[w].pc # "none"
    PROVE  /\ Live(runs[w]) /\ runs[w] \in Run
           /\ runs[w].status = "cancelled" => active[w].cancelled
           /\ active[w].cancelled \in BOOLEAN /\ active[w].persistenceFailed \in BOOLEAN
           /\ runs[w].status = "running" /\ (active[w].cancelled \/ active[w].pc = "ended")
                  => active[w].persistenceFailed
           /\ active[w].pc \in {"stage", "check"} =>
                  active[w].stage \in Stages /\ runs[w].stages[active[w].stage].attempts > 0
  BY DEF WorkflowInv, WorkflowTypeOK, Steady, Stored, Live, Sound, Token

\* Ends that keep status and attempts are good for a run that was told to stop.
LEMMA StoppedIsGood ==
    ASSUME NEW w \in Workflows, active[w].cancelled, NEW e, FitEnd(e),
           e.run.status = runs[w].status, SameAttempts(runs[w], e.run)
    PROVE  GoodEnd(w, e)
  BY DEF GoodEnd

\* The first continuation of a launch.
LEMMA LaunchedEndsWell ==
    ASSUME WorkflowInv, NEW w \in Workflows, active[w].pc # "none",
           NEW e \in IF active[w].cancelled THEN {Over(runs[w])} ELSE NextStage(w, runs[w])
    PROVE  GoodEnd(w, e)
  <1>1. CASE active[w].cancelled
    BY <1>1, InProgress, OverIsFit DEF GoodEnd, SameAttempts
  <1>2. CASE ~active[w].cancelled
    BY <1>2, InProgress, NextStageIsFit DEF GoodEnd
  <1>. QED  BY <1>1, <1>2

\* runStage returns, with a result or with a throw.
LEMMA StageEndsWell ==
    ASSUME WorkflowInv, NEW w \in Workflows, active[w].pc = "stage",
           NEW ok \in BOOLEAN, NEW receipt \in {"none", "valid", "foreign"},
           NEW e \in StageEnds(w, ok, receipt)
    PROVE  GoodEnd(w, e)
  <1> DEFINE r == runs[w]
             s == active[w].stage
             good == ok /\ (w \in Quality => receipt = "valid")
  <1>1. /\ Live(r) /\ r \in Run /\ s \in Stages /\ r.stages[s].attempts > 0
        /\ r.status = "cancelled" => active[w].cancelled
    BY InProgress
  <1>2. s \in 0 .. NumStages
    BY <1>1, WorkflowAssumption DEF Stages
  <1>3. CASE receipt = "foreign" /\ e \in Refused(r)
    BY <1>1, <1>3, RefusedIsFit DEF GoodEnd
  <1>4. CASE active[w].cancelled /\ e \in Late(w, r, s, receipt)
    <2>1. e \in {Over(r), Over(recordReceipt(w, r, s, receipt))}
                    \cup Unsaved(r, TRUE) \cup Unsaved(r, FALSE)
      BY <1>4 DEF Late
    <2>. QED  BY <1>1, <1>4, <2>1, LateIsFit, StoppedIsGood
  <1>5. CASE ~active[w].cancelled /\ receipt # "foreign" /\ e = End(r, "check", s, receipt)
    <2>1. receipt \in {"none", "valid"}
      BY <1>5
    <2>. QED  BY <1>1, <1>2, <1>5, <2>1, EndIsFit DEF GoodEnd
  <1>6. CASE ~active[w].cancelled /\ e \in Settled(w, r, s, good, receipt)
    <2>1. good \in BOOLEAN
      OBVIOUS
    <2>. HIDE DEF good
    <2>. QED  BY <1>1, <1>6, <2>1, SettledIsFit DEF GoodEnd
  <1>. QED  BY <1>3, <1>4, <1>5, <1>6 DEF StageEnds

\* The inspection after the last stage comes back.
LEMMA CheckEndsWell ==
    ASSUME WorkflowInv, NEW w \in Workflows, active[w].pc = "check",
           NEW passed \in BOOLEAN, NEW e \in CheckEnds(w, passed)
    PROVE  GoodEnd(w, e)
  <1> DEFINE r == runs[w]
             s == active[w].stage
             receipt == active[w].receipt
  <1>1. /\ Live(r) /\ r \in Run /\ s \in Stages /\ r.stages[s].attempts > 0
        /\ r.status = "cancelled" => active[w].cancelled
    BY InProgress
  <1>2. CASE active[w].cancelled
    <2>1. e \in {Over(r), Over(recordReceipt(w, r, s, receipt))}
                    \cup Unsaved(r, TRUE) \cup Unsaved(r, FALSE)
      BY <1>2 DEF CheckEnds
    <2>. QED  BY <1>1, <1>2, <2>1, LateIsFit, StoppedIsGood
  <1>3. CASE ~active[w].cancelled
    <2>1. e \in Settled(w, r, s, passed, receipt)
      BY <1>3 DEF CheckEnds
    <2>. QED  BY <1>1, <1>3, <2>1, SettledIsFit DEF GoodEnd
  <1>. QED  BY <1>2, <1>3

\* The inspection of a run whose stages are completed comes back.
LEMMA FinalEndsWell ==
    ASSUME WorkflowInv, NEW w \in Workflows, active[w].pc = "final",
           NEW passed \in BOOLEAN, NEW e \in FinalEnds(w, passed)
    PROVE  GoodEnd(w, e)
  <1> DEFINE r == runs[w]
             status == IF passed THEN "completed" ELSE "interrupted"
             q == [r EXCEPT !.status = status]
  <1>1. Live(r) /\ r \in Run /\ (r.status = "cancelled" => active[w].cancelled)
    BY InProgress
  <1>2. CASE active[w].cancelled
    BY <1>1, <1>2, OverIsFit DEF FinalEnds, GoodEnd, SameAttempts
  <1>3. CASE ~active[w].cancelled /\ e \in Unsaved(r, FALSE)
    BY <1>1, <1>3, UnsavedIsFit DEF GoodEnd
  <1>4. CASE ~active[w].cancelled /\ e = Over(q)
    <2>1. status \in RunStatuses /\ status \notin {"absent", "removed", "cancelled", "running"}
      BY DEF RunStatuses
    <2>. HIDE DEF status
    <2>2. Live(q) /\ q.status = status
      BY <1>1, <2>1, StatusIsSound DEF Live, Run
    <2>. HIDE DEF q
    <2>. QED  BY <1>4, <2>1, <2>2, OverIsFit DEF GoodEnd
  <1>. QED  BY <1>2, <1>3, <1>4 DEF FinalEnds

\* The catch of launch stores the interruption, or keeps the session.
LEMMA CaughtEndsWell ==
    ASSUME WorkflowInv, NEW w \in Workflows, active[w].pc = "thrown", NEW e \in CaughtEnds(w)
    PROVE  GoodEnd(w, e)
  <1> DEFINE r == runs[w]
  <1>1. Live(r) /\ r \in Run /\ (r.status = "cancelled" => active[w].cancelled)
    BY InProgress
  <1>2. CASE active[w].cancelled
    BY <1>1, <1>2, OverIsFit DEF CaughtEnds, GoodEnd, SameAttempts
  <1>3. CASE ~active[w].cancelled /\ e = Over(Interrupted(r))
    BY <1>1, <1>3, StoppedIsSound, OverIsFit DEF Live, GoodEnd
  <1>4. ASSUME ~active[w].cancelled, NEW f \in Unsaved(r, TRUE), e = [f EXCEPT !.pc = "ended"]
        PROVE  GoodEnd(w, e)
    <2>1. FitEnd(f) /\ f.run = r /\ f.persistenceFailed = TRUE
      BY <1>1, UnsavedIsFit
    <2>2. f = [Thrown(r) EXCEPT !.faulty = TRUE, !.persistenceFailed = TRUE]
      BY DEF Unsaved
    <2>3. FitEnd(e) /\ e.run = r /\ e.persistenceFailed = TRUE
      BY <1>4, <2>1, <2>2 DEF FitEnd, Thrown, End
    <2>. QED  BY <1>1, <1>4, <2>3 DEF GoodEnd
  <1>. QED  BY <1>2, <1>3, <1>4 DEF CaughtEnds

-----------------------------------------------------------------------------
(* Steps.                                                                  *)

\* A step keeps the invariant, a cancelled run cancelled, and a run that was
\* told to stop from starting a stage.
GoodStep ==
    /\ WorkflowInv'
    /\ \A w \in Workflows : runs[w].status = "cancelled" => runs'[w].status \in {"cancelled", "removed"}
    /\ \A w \in Workflows : active[w].cancelled => \A s \in Stages :
          runs'[w].stages[s].attempts <= runs[w].stages[s].attempts

\* Everything but runs, executions and owners is what the code stores in it.
OthersOK ==
    /\ sweeps \in [{"maintenance", "shutdown"} ->
           [pc : {"none", "stopping"}, sessions : SUBSET Sessions, running : SUBSET Workflows]]
    /\ verifying \subseteq Workflows \X Stages \X (1 .. 3)
    /\ closed \in BOOLEAN /\ crashes \in 0 .. MaxCrashes /\ faulty \in BOOLEAN
    /\ inspected \subseteq Workflows

\* The type invariant, run by run.
LEMMA TypeIsSound ==
    WorkflowTypeOK <=> /\ runs \in [Workflows -> Run] /\ \A w \in Workflows : Sound(runs[w])
                       /\ active \in [Workflows -> Token]
                       /\ owners \in [Sessions -> Workflows \cup {NoOne}]
                       /\ OthersOK
  BY DEF WorkflowTypeOK, Sound, OthersOK

\* Attempts are counted in natural numbers.
LEMMA AttemptsAreNatural ==
    ASSUME NEW r \in Run, NEW s \in Stages
    PROVE  r.stages[s].attempts \in Nat /\ r.stages[s].attempts <= r.stages[s].attempts
  <1>1. r.stages[s] \in Stage
    BY DEF Run
  <1>. QED  BY <1>1 DEF Stage

\* A continuation of an execution.
LEMMA GoesIsGood ==
    ASSUME WorkflowInv, NEW w \in Workflows,
           NEW pc \in {"loop", "stage", "check", "final", "thrown"},
           NEW ends, Goes(w, pc, ends), \A e \in ends : GoodEnd(w, e),
           NEW passed, Inspect(w, passed) \/ UNCHANGED inspected
    PROVE  GoodStep
  <1> PICK e \in ends :
        /\ runs' = [runs EXCEPT ![w] = e.run]
        /\ active' = [active EXCEPT ![w] = [active[w] EXCEPT
               !.pc = e.pc, !.stage = e.stage, !.receipt = e.receipt,
               !.persistenceFailed = active[w].persistenceFailed \/ e.persistenceFailed]]
        /\ faulty' = (faulty \/ e.faulty)
    BY DEF Goes
  <1> USE DEF GoodStep
  <1>0. /\ active[w].pc = pc /\ UNCHANGED <<owners, sweeps, verifying, closed, crashes>>
        /\ GoodEnd(w, e)
    BY DEF Goes
  <1>1. /\ Live(e.run) /\ e.run \in Run /\ FitEnd(e)
    BY <1>0 DEF GoodEnd, FitEnd, Live, Sound
  <1>2. /\ runs \in [Workflows -> Run] /\ active \in [Workflows -> Token]
        /\ \A v \in Workflows : Sound(runs[v])
    BY TypeIsSound DEF WorkflowInv
  <1>3. /\ runs'[w] = e.run
        /\ \A v \in Workflows \ {w} : runs'[v] = runs[v] /\ active'[v] = active[v]
    BY <1>2
  <1>4. /\ active'[w] \in Token /\ active'[w].pc = e.pc /\ active'[w].stage = e.stage
        /\ active'[w].cancelled <=> active[w].cancelled
        /\ active'[w].persistenceFailed <=> (active[w].persistenceFailed \/ e.persistenceFailed)
    <2> DEFINE q == [active[w] EXCEPT !.pc = e.pc, !.stage = e.stage, !.receipt = e.receipt,
                        !.persistenceFailed = active[w].persistenceFailed \/ e.persistenceFailed]
    <2>1. active' = [active EXCEPT ![w] = q]
      OBVIOUS
    <2>2. /\ e.pc \in {"stage", "check", "final", "thrown", "ended"} /\ e.persistenceFailed \in BOOLEAN
          /\ e.stage \in 0 .. NumStages /\ e.receipt \in {"none", "valid"}
      BY <1>1 DEF FitEnd
    <2>3. /\ q \in Token /\ q.pc = e.pc /\ q.stage = e.stage /\ (q.cancelled <=> active[w].cancelled)
          /\ q.persistenceFailed <=> (active[w].persistenceFailed \/ e.persistenceFailed)
      BY <1>2, <2>2 DEF Token
    <2> HIDE DEF q
    <2>4. active'[w] = q
      BY <1>2, <2>1
    <2>. QED  BY <2>3, <2>4
  <1>5. WorkflowTypeOK'
    <2>1. runs' \in [Workflows -> Run] /\ \A v \in Workflows : Sound(runs'[v])
      BY <1>1, <1>2, <1>3 DEF Live
    <2>2. active' \in [Workflows -> Token]
      BY <1>2, <1>4
    <2>3. faulty' \in BOOLEAN
      BY <1>1 DEF FitEnd, WorkflowInv, WorkflowTypeOK
    <2>4. inspected' \subseteq Workflows
      BY DEF Inspect, WorkflowInv, WorkflowTypeOK
    <2>. QED  BY <1>0, <2>1, <2>2, <2>3, <2>4, TypeIsSound DEF WorkflowInv, WorkflowTypeOK, Sound
  <1>6. TurnsAlone' /\ RunningIsOwned'
    BY <1>0, <1>3 DEF WorkflowInv, TurnsAlone, RunningIsOwned
  <1>7. \A v \in Workflows : active'[v].pc # "none" => Steady(v)'
    <2>1. Steady(w)'
      BY <1>0, <1>1, <1>3, <1>4, InProgress DEF Steady, Stored, GoodEnd, FitEnd, Live
    <2>2. ASSUME NEW v \in Workflows \ {w}, active'[v].pc # "none" PROVE Steady(v)'
      BY <1>3, <2>2 DEF WorkflowInv, Steady, Stored
    <2>. QED  BY <2>1, <2>2
  <1>8. ASSUME NEW v \in Workflows, runs[v].status = "cancelled"
        PROVE  runs'[v].status \in {"cancelled", "removed"}
    BY <1>0, <1>3, <1>8, InProgress DEF GoodEnd
  <1>9. ASSUME NEW v \in Workflows, active[v].cancelled, NEW s \in Stages
        PROVE  runs'[v].stages[s].attempts <= runs[v].stages[s].attempts
    <2>1. runs[v].stages[s].attempts \in Nat
      BY <1>2, AttemptsAreNatural
    <2>2. runs'[v].stages[s].attempts = runs[v].stages[s].attempts
      BY <1>0, <1>3, <1>9 DEF GoodEnd, SameAttempts
    <2>. QED  BY <2>1, <2>2
  <1>. QED  BY <1>5, <1>6, <1>7, <1>8, <1>9 DEF WorkflowInv

\* A call that changes a run at rest, and may give back the session it kept.
LEMMA RestIsGood ==
    ASSUME WorkflowInv, NEW w \in Workflows, active[w].pc = "none",
           NEW q, Sound(q), q.status # "running",
           runs[w].status = "cancelled" => q.status \in {"cancelled", "removed"},
           \A s \in Stages : q.stages[s].attempts <= runs[w].stages[s].attempts,
           runs' = [runs EXCEPT ![w] = q], active' = active,
           owners' \in {owners, [owners EXCEPT ![SessionOf[w]] = IF @ = w THEN NoOne ELSE @]},
           OthersOK'
    PROVE  GoodStep
  <1> USE DEF GoodStep
  <1>1. /\ runs \in [Workflows -> Run] /\ active \in [Workflows -> Token]
        /\ owners \in [Sessions -> Workflows \cup {NoOne}] /\ SessionOf \in [Workflows -> Sessions]
        /\ \A v \in Workflows : Sound(runs[v])
    BY TypeIsSound, WorkflowAssumption DEF WorkflowInv
  <1>2. runs'[w] = q /\ \A v \in Workflows \ {w} : runs'[v] = runs[v]
    BY <1>1
  <1>3. WorkflowTypeOK'
    <2>1. runs' \in [Workflows -> Run] /\ \A v \in Workflows : Sound(runs'[v])
      BY <1>1, <1>2 DEF Sound
    <2>2. owners' \in [Sessions -> Workflows \cup {NoOne}]
      BY <1>1
    <2>. QED  BY <1>1, <2>1, <2>2 DEF WorkflowTypeOK, Sound, OthersOK
  <1>4. \A v \in Workflows \ {w} : owners[SessionOf[v]] = v => owners'[SessionOf[v]] = v
    BY <1>1
  <1>5. TurnsAlone' /\ RunningIsOwned'
    BY <1>2, <1>4 DEF WorkflowInv, TurnsAlone, RunningIsOwned
  <1>6. \A v \in Workflows : active'[v].pc # "none" => Steady(v)'
    BY <1>2 DEF WorkflowInv, Steady, Stored
  <1>7. ASSUME NEW v \in Workflows, active[v].cancelled, NEW s \in Stages
        PROVE  runs'[v].stages[s].attempts <= runs[v].stages[s].attempts
    BY <1>1, <1>2, AttemptsAreNatural
  <1>. QED  BY <1>2, <1>3, <1>5, <1>6, <1>7 DEF WorkflowInv

\* Before a step all is typed.
LEMMA Typed ==
    ASSUME WorkflowInv
    PROVE  /\ runs \in [Workflows -> Run] /\ active \in [Workflows -> Token]
           /\ owners \in [Sessions -> Workflows \cup {NoOne}]
           /\ \A w \in Workflows : Sound(runs[w]) /\ runs[w] \in Run /\ active[w] \in Token
           /\ OthersOK /\ SessionOf \in [Workflows -> Sessions] /\ NoOne \notin Workflows
           /\ \A w \in Workflows, s \in Stages :
                 runs[w].stages[s].attempts <= runs[w].stages[s].attempts
  BY TypeIsSound, AttemptsAreNatural, WorkflowAssumption DEF WorkflowInv

\* No token: typed, and of an execution that is over.
LEMMA NoTokenIsToken == NoToken \in Token /\ NoToken.pc = "none" /\ ~NoToken.cancelled
  BY WorkflowAssumption DEF NoToken, Token

\* Runs without attempts.
LEMMA AbsentIsSound ==
    /\ Sound(Absent) /\ Sound(Draft) /\ Sound(Removed)
    /\ Draft.status = "draft" /\ Removed.status = "removed"
    /\ \A s \in Stages : Draft.stages[s].attempts = 0 /\ Removed.stages[s].attempts = 0
  <1> DEFINE stage == [status |-> "pending", attempts |-> 0, receipts |-> {}]
             stages == [s \in Stages |-> stage]
  <1>1. stage \in Stage /\ stage.receipts = {} /\ stage.attempts = 0
    BY DEF Stage, StageStatuses
  <1>2. Absent = [status |-> "absent", complete |-> TRUE, stages |-> stages]
    BY DEF Absent
  <1> HIDE DEF stage
  <1>3. /\ stages \in [Stages -> Stage]
        /\ \A s \in Stages : stages[s].receipts = {} /\ stages[s].attempts = 0
    BY <1>1
  <1> HIDE DEF stages
  <1>4. Absent \in Run /\ Absent.stages = stages
    BY <1>2, <1>3 DEF Run, RunStatuses
  <1>5. Sound(Absent)
    BY <1>3, <1>4 DEF Sound
  <1>6. "draft" \in RunStatuses /\ "removed" \in RunStatuses
    BY DEF RunStatuses
  <1>7. Sound(Draft) /\ Sound(Removed)
    BY <1>5, <1>6, StatusIsSound DEF Draft, Removed
  <1>8. /\ Draft.status = "draft" /\ Removed.status = "removed"
        /\ Draft.stages = stages /\ Removed.stages = stages
    BY <1>4 DEF Draft, Removed, Run
  <1>. QED  BY <1>3, <1>5, <1>7, <1>8

\* The end of an execution gives up the session unless a save failed, and then
\* what is stored does not run.
LEMMA EndsIsGood == ASSUME WorkflowInv, NEW w \in Workflows, Ends(w) PROVE GoodStep
  <1> USE DEF GoodStep
  <1>1. /\ active' = [active EXCEPT ![w] = NoToken] /\ runs' = runs /\ active[w].pc = "ended"
        /\ owners' = [owners EXCEPT ![SessionOf[w]] =
               IF @ = w /\ ~active[w].persistenceFailed THEN NoOne ELSE @]
        /\ UNCHANGED <<sweeps, verifying, closed, crashes, faulty, inspected>>
    BY DEF Ends
  <1>2. active'[w] = NoToken /\ \A v \in Workflows \ {w} : active'[v] = active[v]
    BY <1>1, Typed
  <1>3. WorkflowTypeOK'
    BY <1>1, Typed, NoTokenIsToken DEF WorkflowTypeOK, OthersOK, Sound
  <1>4. \A v \in Workflows \ {w} : owners[SessionOf[v]] = v => owners'[SessionOf[v]] = v
    BY <1>1, Typed
  <1>5. runs[w].status = "running" => owners'[SessionOf[w]] = owners[SessionOf[w]]
    BY <1>1, Typed, InProgress
  <1>6. TurnsAlone' /\ RunningIsOwned'
    BY <1>1, <1>2, <1>4, <1>5, NoTokenIsToken DEF WorkflowInv, TurnsAlone, RunningIsOwned
  <1>7. \A v \in Workflows : active'[v].pc # "none" => Steady(v)'
    BY <1>1, <1>2, NoTokenIsToken DEF WorkflowInv, Steady, Stored
  <1>. QED  BY <1>1, <1>3, <1>6, <1>7, Typed DEF WorkflowInv

\* A launch takes a free session.
LEMMA LaunchIsGood == ASSUME WorkflowInv, NEW w \in Workflows, launch(w) PROVE GoodStep
  <1> USE DEF GoodStep
  <1> DEFINE reset == CASE runs[w].status = "draft" -> runs[w]
                        [] runs[w].status = "failed" -> SetStages(runs[w], "failed", "pending")
                        [] OTHER -> SetStages(runs[w], "interrupted", "pending")
             q == [reset EXCEPT !.status = "running"]
             token == [NoToken EXCEPT !.pc = "loop"]
  <1>1. /\ runs' = [runs EXCEPT ![w] = q] /\ active' = [active EXCEPT ![w] = token]
        /\ owners' = [owners EXCEPT ![SessionOf[w]] = w]
        /\ UNCHANGED <<sweeps, verifying, closed, crashes, faulty, inspected>>
    BY DEF launch
  <1>2. /\ runs[w].status \in {"draft", "paused", "interrupted", "failed"}
        /\ active[w].pc = "none" /\ owners[SessionOf[w]] = NoOne
    BY DEF launch, Startable, Free
  <1>3. "pending" \in StageStatuses /\ "running" \in RunStatuses
    BY DEF StageStatuses, RunStatuses
  <1>4. Sound(reset) /\ SameAttempts(runs[w], reset)
    BY <1>3, Typed, SetStagesIsSound DEF SameAttempts
  <1> HIDE DEF reset
  <1>5. Sound(q) /\ q.status = "running" /\ SameAttempts(runs[w], q)
    BY <1>3, <1>4, StatusIsSound DEF Sound, Run, SameAttempts
  <1>6. /\ token \in Token /\ token.pc = "loop" /\ ~token.cancelled
    BY NoTokenIsToken DEF Token
  <1> HIDE DEF q, token
  <1>7. /\ runs'[w] = q /\ active'[w] = token /\ owners'[SessionOf[w]] = w
        /\ \A v \in Workflows \ {w} : runs'[v] = runs[v] /\ active'[v] = active[v]
    BY <1>1, Typed
  <1>8. WorkflowTypeOK'
    <2>1. runs' \in [Workflows -> Run] /\ \A v \in Workflows : Sound(runs'[v])
      BY <1>1, <1>5, <1>7, Typed DEF Sound
    <2>2. active' \in [Workflows -> Token] /\ owners' \in [Sessions -> Workflows \cup {NoOne}]
      BY <1>1, <1>6, Typed
    <2>. QED  BY <1>1, <2>1, <2>2, Typed DEF WorkflowTypeOK, OthersOK, Sound
  <1>9. \A v \in Workflows \ {w} : owners[SessionOf[v]] = v => owners'[SessionOf[v]] = v
    BY <1>1, <1>2, Typed
  <1>10. TurnsAlone' /\ RunningIsOwned'
    BY <1>7, <1>9 DEF WorkflowInv, TurnsAlone, RunningIsOwned
  <1>11. \A v \in Workflows : active'[v].pc # "none" => Steady(v)'
    <2>1. Steady(w)'
      BY <1>5, <1>6, <1>7 DEF Steady, Stored
    <2>. QED  BY <1>7, <2>1 DEF WorkflowInv, Steady, Stored
  <1>12. \A v \in Workflows, s \in Stages : runs'[v].stages[s].attempts <= runs[v].stages[s].attempts
    BY <1>5, <1>7, Typed DEF SameAttempts
  <1>. QED  BY <1>2, <1>7, <1>8, <1>10, <1>11, <1>12 DEF WorkflowInv

\* A cancel of a run in progress stores the cancellation or notes that it could not.
LEMMA CancelActiveIsGood == ASSUME WorkflowInv, NEW w \in Workflows, CancelActive(w) PROVE GoodStep
  <1> USE DEF GoodStep
  <1> PICK saved \in BOOLEAN :
        /\ runs' = IF saved THEN [runs EXCEPT ![w] = Cancelled(runs[w])] ELSE runs
        /\ active' = [active EXCEPT ![w] = [active[w] EXCEPT
               !.cancelled = TRUE, !.stopping = TRUE, !.persistenceFailed = ~saved]]
        /\ faulty' = (faulty \/ ~saved)
    BY DEF CancelActive
  <1> DEFINE token == [active[w] EXCEPT !.cancelled = TRUE, !.stopping = TRUE, !.persistenceFailed = ~saved]
  <1>1. /\ active[w].pc # "none" /\ UNCHANGED <<owners, sweeps, verifying, closed, crashes, inspected>>
    BY DEF CancelActive
  <1>2. active' = [active EXCEPT ![w] = token]
    OBVIOUS
  <1>3. /\ token \in Token /\ token.pc = active[w].pc /\ token.stage = active[w].stage
        /\ token.cancelled = TRUE /\ (token.persistenceFailed <=> ~saved)
    BY Typed DEF Token
  <1> HIDE DEF token
  <1>4. /\ active'[w] = token
        /\ \A v \in Workflows \ {w} : runs'[v] = runs[v] /\ active'[v] = active[v]
        /\ ~saved => runs'[w] = runs[w]
        /\ saved => runs'[w] = Cancelled(runs[w])
    BY <1>2, Typed
  <1>5. /\ Sound(runs'[w]) /\ SameAttempts(runs[w], runs'[w])
        /\ saved => runs'[w].status = "cancelled"
    BY <1>4, Typed, StoppedIsSound DEF SameAttempts
  <1>6. WorkflowTypeOK'
    <2>1. runs' \in [Workflows -> Run] /\ \A v \in Workflows : Sound(runs'[v])
      <3>1. \A v \in Workflows : Sound(runs'[v]) /\ runs'[v] \in Run
        BY <1>4, <1>5, Typed DEF Sound
      <3>2. CASE saved
        BY <1>4, <3>1, <3>2, Typed
      <3>3. CASE ~saved
        BY <3>1, <3>3, Typed
      <3>. QED  BY <3>2, <3>3
    <2>2. active' \in [Workflows -> Token]
      BY <1>2, <1>3, Typed
    <2>3. faulty' \in BOOLEAN
      BY Typed DEF OthersOK
    <2>. QED  BY <1>1, <2>1, <2>2, <2>3, Typed DEF WorkflowTypeOK, OthersOK, Sound
  <1>7. TurnsAlone' /\ RunningIsOwned'
    BY <1>1, <1>3, <1>4 DEF WorkflowInv, TurnsAlone, RunningIsOwned
  <1>8. \A v \in Workflows : active'[v].pc # "none" => Steady(v)'
    <2>1. Stored(w)'
      BY <1>1, <1>4, <1>5, InProgress DEF Stored, Live
    <2>2. /\ runs[w].status = "cancelled" => active[w].cancelled
          /\ active[w].pc \in {"stage", "check"} =>
                 active[w].stage \in Stages /\ runs[w].stages[active[w].stage].attempts > 0
      BY <1>1, InProgress
    <2>3. active'[w].cancelled = TRUE /\ (runs'[w].status = "running" => active'[w].persistenceFailed)
      BY <1>3, <1>4, <1>5
    <2>4. active'[w].pc \in {"stage", "check"} =>
              active'[w].stage \in Stages /\ runs'[w].stages[active'[w].stage].attempts > 0
      BY <1>3, <1>4, <1>5, <2>2 DEF SameAttempts
    <2>5. Steady(w)'
      BY <2>1, <2>3, <2>4 DEF Steady
    <2>. QED  BY <1>4, <2>5 DEF WorkflowInv, Steady, Stored
  <1>9. \A v \in Workflows, s \in Stages : runs'[v].stages[s].attempts <= runs[v].stages[s].attempts
    BY <1>4, <1>5, Typed DEF SameAttempts
  <1>. QED  BY <1>4, <1>5, <1>6, <1>7, <1>8, <1>9 DEF WorkflowInv

\* The session has been stopped, or could not be.
LEMMA StopReturnsIsGood == ASSUME WorkflowInv, NEW w \in Workflows, StopReturns(w) PROVE GoodStep
  <1> USE DEF GoodStep
  <1> PICK saved \in BOOLEAN :
        /\ active' = [active EXCEPT ![w] = [active[w] EXCEPT
               !.stopping = FALSE, !.persistenceFailed = active[w].persistenceFailed \/ ~saved]]
        /\ faulty' = (faulty \/ ~saved)
    BY DEF StopReturns
  <1> DEFINE token == [active[w] EXCEPT
                !.stopping = FALSE, !.persistenceFailed = active[w].persistenceFailed \/ ~saved]
  <1>1. UNCHANGED <<runs, owners, sweeps, verifying, closed, crashes, inspected>>
    BY DEF StopReturns
  <1>2. active' = [active EXCEPT ![w] = token]
    OBVIOUS
  <1>3. /\ token \in Token /\ token.pc = active[w].pc /\ token.stage = active[w].stage
        /\ (token.cancelled <=> active[w].cancelled)
        /\ (token.persistenceFailed <=> active[w].persistenceFailed \/ ~saved)
    BY Typed DEF Token
  <1> HIDE DEF token
  <1>4. active'[w] = token /\ \A v \in Workflows \ {w} : active'[v] = active[v]
    BY <1>2, Typed
  <1>5. WorkflowTypeOK'
    <2>1. active' \in [Workflows -> Token]
      BY <1>2, <1>3, Typed
    <2>2. faulty' \in BOOLEAN
      BY Typed DEF OthersOK
    <2>. QED  BY <1>1, <2>1, <2>2, Typed DEF WorkflowTypeOK, OthersOK, Sound
  <1>6. TurnsAlone' /\ RunningIsOwned'
    BY <1>1, <1>3, <1>4 DEF WorkflowInv, TurnsAlone, RunningIsOwned
  <1>7. \A v \in Workflows : active'[v].pc # "none" => Steady(v)'
    BY <1>1, <1>3, <1>4 DEF WorkflowInv, Steady, Stored
  <1>. QED  BY <1>1, <1>5, <1>6, <1>7, Typed DEF WorkflowInv

\* The runs of a deleted session are at rest and own nothing.
LEMMA RemoveSessionIsGood == ASSUME WorkflowInv, NEW s \in Sessions, removeSession(s) PROVE GoodStep
  <1> USE DEF GoodStep
  <1> DEFINE ofSession == {w \in Workflows : SessionOf[w] = s /\ Stored(w)}
  <1>1. /\ runs' = [w \in Workflows |-> IF w \in ofSession THEN Removed ELSE runs[w]]
        /\ \A w \in ofSession : active[w].pc = "none" /\ runs[w].status # "running"
        /\ UNCHANGED <<active, owners, sweeps, verifying, closed, crashes, faulty, inspected>>
    BY DEF removeSession, inactive
  <1>2. /\ Sound(Removed) /\ Removed.status = "removed"
        /\ \A t \in Stages : Removed.stages[t].attempts = 0
    BY AbsentIsSound
  <1> HIDE DEF ofSession
  <1>3. \A w \in Workflows : 
           (w \in ofSession /\ runs'[w] = Removed) \/ (w \notin ofSession /\ runs'[w] = runs[w])
    BY <1>1
  <1>4. \A w \in Workflows : Sound(runs'[w]) /\ runs'[w] \in Run
    BY <1>2, <1>3, Typed DEF Sound
  <1>5. WorkflowTypeOK'
    BY <1>1, <1>4, Typed DEF WorkflowTypeOK, OthersOK, Sound
  <1>6. TurnsAlone' /\ RunningIsOwned'
    BY <1>1, <1>2, <1>3 DEF WorkflowInv, TurnsAlone, RunningIsOwned
  <1>7. \A v \in Workflows : active'[v].pc # "none" => Steady(v)'
    BY <1>1, <1>3 DEF WorkflowInv, Steady, Stored
  <1>8. \A w \in Workflows, t \in Stages : runs'[w].stages[t].attempts <= runs[w].stages[t].attempts
    <2>1. \A w \in Workflows, t \in Stages : 0 <= runs[w].stages[t].attempts
      BY Typed, AttemptsAreNatural
    <2>. QED  BY <1>2, <1>3, <2>1, Typed
  <1>. QED  BY <1>2, <1>3, <1>5, <1>6, <1>7, <1>8 DEF WorkflowInv

\* A maintenance stores the interruption of what runs, or notes that it could not.
LEMMA SweepBeginsIsGood ==
    ASSUME WorkflowInv, NEW kind \in {"maintenance", "shutdown"}, NEW S \in SUBSET Sessions,
           SweepBegins(kind, S)
    PROVE  GoodStep
  <1> USE DEF GoodStep
  <1> DEFINE selected == {w \in Workflows : Stored(w) /\ SessionOf[w] \in S}
             running == {w \in selected : active[w].pc # "none"}
             toStore == running \cup {w \in selected : runs[w].status = "running"}
  <1>1. PICK unsaved \in SUBSET toStore :
        /\ runs' = [w \in Workflows |->
               IF w \in toStore \ unsaved /\ runs[w].status = "running"
               THEN Interrupted(runs[w]) ELSE runs[w]]
        /\ active' = [w \in Workflows |->
               IF w \in running
               THEN [active[w] EXCEPT !.cancelled = TRUE,
                       !.persistenceFailed = active[w].persistenceFailed \/ w \in unsaved]
               ELSE active[w]]
        /\ faulty' = (faulty \/ unsaved # {})
    BY DEF SweepBegins
  <1>2. /\ sweeps' = [sweeps EXCEPT ![kind] = [pc |-> "stopping", sessions |-> S, running |-> running]]
        /\ closed' = (closed \/ kind = "shutdown")
        /\ UNCHANGED <<owners, verifying, crashes, inspected>>
    BY DEF SweepBegins
  <1>3. running \subseteq Workflows /\ \A w \in running : w \in toStore /\ active[w].pc # "none"
    OBVIOUS
  <1>4. ASSUME NEW w \in Workflows
        PROVE  /\ Sound(runs'[w]) /\ runs'[w] \in Run /\ SameAttempts(runs[w], runs'[w])
               /\ runs'[w] = runs[w] \/ (runs[w].status = "running" /\ runs'[w].status = "interrupted")
               /\ w \in toStore \ unsaved => runs'[w].status # "running"
    <2>1. CASE w \in toStore \ unsaved /\ runs[w].status = "running"
      BY <1>1, <2>1, Typed, StoppedIsSound DEF Sound, SameAttempts
    <2>2. CASE ~(w \in toStore \ unsaved /\ runs[w].status = "running")
      <3>1. runs'[w] = runs[w]
        BY <1>1, <2>2
      <3>. QED  BY <2>2, <3>1, Typed DEF SameAttempts
    <2>. QED  BY <2>1, <2>2
  <1>5. ASSUME NEW w \in Workflows
        PROVE  /\ active'[w] \in Token /\ active'[w].pc = active[w].pc /\ active'[w].stage = active[w].stage
               /\ active[w].cancelled => active'[w].cancelled
               /\ active[w].persistenceFailed => active'[w].persistenceFailed
               /\ w \notin running => active'[w] = active[w]
               /\ w \in running /\ w \in unsaved => active'[w].persistenceFailed
    <2>1. CASE w \in running
      <3>1. active'[w] = [active[w] EXCEPT !.cancelled = TRUE,
                       !.persistenceFailed = active[w].persistenceFailed \/ w \in unsaved]
        BY <1>1, <2>1
      <3>. QED  BY <2>1, <3>1, Typed DEF Token
    <2>2. CASE w \notin running
      <3>1. active'[w] = active[w]
        BY <1>1, <2>2
      <3>. QED  BY <2>2, <3>1, Typed
    <2>. QED  BY <2>1, <2>2
  <1> HIDE DEF running, toStore
  <1>6. WorkflowTypeOK'
    <2>1. runs' \in [Workflows -> Run] /\ active' \in [Workflows -> Token]
      BY <1>1, <1>4, <1>5
    <2>2. sweeps' \in [{"maintenance", "shutdown"} ->
              [pc : {"none", "stopping"}, sessions : SUBSET Sessions, running : SUBSET Workflows]]
      BY <1>2, <1>3, Typed DEF OthersOK
    <2>3. faulty' \in BOOLEAN /\ closed' \in BOOLEAN
      BY <1>1, <1>2, Typed DEF OthersOK
    <2>. QED  BY <1>2, <1>4, <2>1, <2>2, <2>3, Typed DEF WorkflowTypeOK, OthersOK, Sound
  <1>7. TurnsAlone' /\ RunningIsOwned'
    BY <1>2, <1>4, <1>5 DEF WorkflowInv, TurnsAlone, RunningIsOwned
  <1>8. ASSUME NEW v \in Workflows, active'[v].pc # "none" PROVE Steady(v)'
    <2>1. /\ active[v].pc # "none" /\ Steady(v)
      BY <1>5, <1>8 DEF WorkflowInv
    <2>2. Stored(v)'
      BY <1>4, <2>1 DEF Steady, Stored
    <2>3. runs'[v].status = "cancelled" => active'[v].cancelled
      BY <1>4, <1>5, <2>1 DEF Steady
    <2>4. runs'[v].status = "running" /\ (active'[v].cancelled \/ active'[v].pc = "ended")
              => active'[v].persistenceFailed
      BY <1>3, <1>4, <1>5, <2>1 DEF Steady
    <2>5. active'[v].pc \in {"stage", "check"} =>
              active'[v].stage \in Stages /\ runs'[v].stages[active'[v].stage].attempts > 0
      BY <1>4, <1>5, <2>1 DEF Steady, SameAttempts
    <2>. QED  BY <2>2, <2>3, <2>4, <2>5 DEF Steady
  <1>9. \A w \in Workflows, t \in Stages : runs'[w].stages[t].attempts <= runs[w].stages[t].attempts
    BY <1>4, Typed DEF SameAttempts
  <1>. QED  BY <1>4, <1>6, <1>7, <1>8, <1>9 DEF WorkflowInv

\* The end of a maintenance gives back only what runs at rest keep.
LEMMA SweepEndsIsGood ==
    ASSUME WorkflowInv, NEW kind \in {"maintenance", "shutdown"}, SweepEnds(kind)
    PROVE  GoodStep
  <1> USE DEF GoodStep
  <1>1. /\ owners' = [s \in Sessions |->
               IF s \in sweeps[kind].sessions /\ \E w \in Workflows : owners[s] = w /\ inactive(w)
               THEN NoOne ELSE owners[s]]
        /\ sweeps' = [sweeps EXCEPT ![kind] = NoSweep]
        /\ UNCHANGED <<runs, active, verifying, closed, crashes, faulty, inspected>>
    BY DEF SweepEnds
  <1>2. NoSweep \in [pc : {"none", "stopping"}, sessions : SUBSET Sessions, running : SUBSET Workflows]
    BY DEF NoSweep
  <1>3. WorkflowTypeOK'
    <2>1. owners' \in [Sessions -> Workflows \cup {NoOne}]
      BY <1>1, Typed
    <2>2. sweeps' \in [{"maintenance", "shutdown"} ->
              [pc : {"none", "stopping"}, sessions : SUBSET Sessions, running : SUBSET Workflows]]
      BY <1>1, <1>2, Typed DEF OthersOK
    <2>. QED  BY <1>1, <2>1, <2>2, Typed DEF WorkflowTypeOK, OthersOK, Sound
  <1>4. \A w \in Workflows : owners[SessionOf[w]] = w /\ ~inactive(w) => owners'[SessionOf[w]] = w
    BY <1>1, Typed
  <1>5. TurnsAlone' /\ RunningIsOwned'
    BY <1>1, <1>4 DEF WorkflowInv, TurnsAlone, RunningIsOwned, inactive
  <1>6. \A v \in Workflows : active'[v].pc # "none" => Steady(v)'
    BY <1>1 DEF WorkflowInv, Steady, Stored
  <1>. QED  BY <1>1, <1>3, <1>5, <1>6, Typed DEF WorkflowInv

\* A restart leaves nothing running, and nothing owned.
LEMMA RestartIsGood == ASSUME WorkflowInv, Restart PROVE GoodStep
  <1> USE DEF GoodStep
  <1>1. /\ runs' = [w \in Workflows |-> IF runs[w].status = "running" THEN Interrupted(runs[w]) ELSE runs[w]]
        /\ active' = [w \in Workflows |-> NoToken] /\ owners' = [s \in Sessions |-> NoOne]
        /\ sweeps' = [k \in DOMAIN sweeps |-> NoSweep]
        /\ verifying' = {} /\ closed' = FALSE /\ crashes < MaxCrashes /\ crashes' = crashes + 1
        /\ UNCHANGED <<faulty, inspected>>
    BY DEF Restart
  <1>2. ASSUME NEW w \in Workflows
        PROVE  /\ Sound(runs'[w]) /\ runs'[w] \in Run /\ SameAttempts(runs[w], runs'[w])
               /\ runs'[w].status # "running"
               /\ runs[w].status = "cancelled" => runs'[w].status = "cancelled"
    <2>1. CASE runs[w].status = "running"
      BY <1>1, <2>1, Typed, StoppedIsSound DEF Sound, SameAttempts
    <2>2. CASE runs[w].status # "running"
      BY <1>1, <2>2, Typed DEF SameAttempts
    <2>. QED  BY <2>1, <2>2
  <1>3. NoSweep \in [pc : {"none", "stopping"}, sessions : SUBSET Sessions, running : SUBSET Workflows]
    BY DEF NoSweep
  <1>4. WorkflowTypeOK'
    <2>1. runs' \in [Workflows -> Run] /\ active' \in [Workflows -> Token]
          /\ owners' \in [Sessions -> Workflows \cup {NoOne}]
      BY <1>1, <1>2, NoTokenIsToken
    <2>2. sweeps' \in [{"maintenance", "shutdown"} ->
              [pc : {"none", "stopping"}, sessions : SUBSET Sessions, running : SUBSET Workflows]]
      BY <1>1, <1>3, Typed DEF OthersOK
    <2>3. crashes' \in 0 .. MaxCrashes
      BY <1>1, Typed, WorkflowAssumption DEF OthersOK
    <2>. QED  BY <1>1, <1>2, <2>1, <2>2, <2>3, Typed DEF WorkflowTypeOK, OthersOK, Sound
  <1>5. \A w \in Workflows : active'[w].pc = "none"
    BY <1>1, NoTokenIsToken
  <1>6. \A w \in Workflows, t \in Stages : runs'[w].stages[t].attempts <= runs[w].stages[t].attempts
    BY <1>2, Typed DEF SameAttempts
  <1>. QED  BY <1>2, <1>4, <1>5, <1>6 DEF WorkflowInv, TurnsAlone, RunningIsOwned

-----------------------------------------------------------------------------
(* The invariant.                                                          *)

LEMMA WorkflowInvInit == WorkflowInit => WorkflowInv
  <1> SUFFICES ASSUME WorkflowInit PROVE WorkflowInv
    OBVIOUS
  <1>1. Sound(Absent) /\ Absent.status = "absent"
    BY AbsentIsSound DEF Absent
  <1>2. NoSweep \in [pc : {"none", "stopping"}, sessions : SUBSET Sessions, running : SUBSET Workflows]
    BY DEF NoSweep
  <1>3. \A w \in Workflows : runs[w] = Absent /\ active[w] = NoToken
    BY DEF WorkflowInit
  <1>4. WorkflowTypeOK
    <2>1. runs \in [Workflows -> Run] /\ \A w \in Workflows : Sound(runs[w])
      BY <1>1 DEF WorkflowInit, Sound
    <2>2. active \in [Workflows -> Token] /\ owners \in [Sessions -> Workflows \cup {NoOne}]
      BY NoTokenIsToken DEF WorkflowInit
    <2>3. OthersOK
      <3>1. 0 \in 0 .. MaxCrashes
        BY WorkflowAssumption
      <3>. QED  BY <1>2, <3>1 DEF WorkflowInit, OthersOK
    <2>. QED  BY <2>1, <2>2, <2>3, TypeIsSound
  <1>. QED  BY <1>1, <1>3, <1>4, NoTokenIsToken DEF WorkflowInv, TurnsAlone, RunningIsOwned

\* A gate that is passed.
LEMMA PassIsGood ==
    ASSUME WorkflowInv, NEW w \in Workflows, NEW s \in Stages, active[w].pc = "none",
           runs[w].status \in {"waiting_confirmation", "waiting_verification"},
           runs' = [runs EXCEPT ![w] = completeGatedStage(w, runs[w], s)],
           UNCHANGED <<active, owners>>, OthersOK'
    PROVE  GoodStep
  <1> DEFINE q == completeGatedStage(w, runs[w], s)
  <1>1. /\ Sound(q) /\ q.status \in {"completed", "paused"}
        /\ \A t \in Stages : q.stages[t].attempts = runs[w].stages[t].attempts
    BY Typed, GatedIsSound
  <1> HIDE DEF q
  <1>2. \A t \in Stages : q.stages[t].attempts <= runs[w].stages[t].attempts
    BY <1>1, Typed
  <1>3. runs' = [runs EXCEPT ![w] = q]
    BY DEF q
  <1>. QED  BY <1>1, <1>2, <1>3, RestIsGood

\* The calls of the user that change a run at rest.
LEMMA CallIsGood ==
    ASSUME WorkflowInv, NEW w \in Workflows,
           \/ create(w) \/ CancelIdle(w) \/ remove(w)
           \/ \E s \in Stages : confirmStage(w, s) \/ verifyStage(w, s)
           \/ \E s \in Stages, a \in 1 .. MaxAttempts[w] : Verified(w, s, a)
    PROVE  GoodStep
  <1>1. CASE create(w)
    <2>1. /\ runs[w].status = "absent" /\ runs' = [runs EXCEPT ![w] = Draft]
          /\ UNCHANGED <<active, owners, sweeps, verifying, closed, crashes, faulty, inspected>>
      BY <1>1 DEF create
    <2>2. active[w].pc = "none"
      BY <2>1 DEF WorkflowInv, Steady, Stored
    <2>3. \A s \in Stages : Draft.stages[s].attempts <= runs[w].stages[s].attempts
      BY AbsentIsSound, Typed, AttemptsAreNatural
    <2>4. OthersOK'
      BY <2>1, Typed DEF OthersOK
    <2>. QED  BY <2>1, <2>2, <2>3, <2>4, AbsentIsSound, RestIsGood
  <1>2. CASE CancelIdle(w)
    <2>1. /\ active[w].pc = "none" /\ runs' = [runs EXCEPT ![w] = Cancelled(runs[w])]
          /\ owners' = [owners EXCEPT ![SessionOf[w]] = IF @ = w THEN NoOne ELSE @]
          /\ UNCHANGED <<active, sweeps, verifying, closed, crashes, faulty, inspected>>
      BY <1>2 DEF CancelIdle
    <2>2. /\ Sound(Cancelled(runs[w])) /\ Cancelled(runs[w]).status = "cancelled"
          /\ \A s \in Stages : Cancelled(runs[w]).stages[s].attempts <= runs[w].stages[s].attempts
      BY Typed, StoppedIsSound
    <2>3. OthersOK'
      BY <2>1, Typed DEF OthersOK
    <2>. QED  BY <2>1, <2>2, <2>3, RestIsGood
  <1>3. CASE remove(w)
    <2>1. /\ active[w].pc = "none" /\ runs' = [runs EXCEPT ![w] = Removed]
          /\ UNCHANGED <<active, owners, sweeps, verifying, closed, crashes, faulty, inspected>>
      BY <1>3 DEF remove, inactive
    <2>2. \A s \in Stages : Removed.stages[s].attempts <= runs[w].stages[s].attempts
      BY AbsentIsSound, Typed, AttemptsAreNatural
    <2>3. OthersOK'
      BY <2>1, Typed DEF OthersOK
    <2>. QED  BY <2>1, <2>2, <2>3, AbsentIsSound, RestIsGood
  <1>4. ASSUME NEW s \in Stages, confirmStage(w, s) PROVE GoodStep
    <2>1. /\ active[w].pc = "none" /\ runs[w].status = "waiting_confirmation"
          /\ runs' = [runs EXCEPT ![w] = completeGatedStage(w, runs[w], s)]
          /\ UNCHANGED <<active, owners, sweeps, verifying, closed, crashes, faulty, inspected>>
      BY <1>4 DEF confirmStage, gatedStage
    <2>2. OthersOK'
      BY <2>1, Typed DEF OthersOK
    <2>. QED  BY <2>1, <2>2, PassIsGood
  <1>5. ASSUME NEW s \in Stages, verifyStage(w, s) PROVE GoodStep
    <2>1. /\ active[w].pc = "none" /\ runs[w].status = "waiting_verification"
          /\ verifying' = verifying \cup {<<w, s, runs[w].stages[s].attempts>>}
          /\ runs[w].stages[s].receipts # {}
          /\ UNCHANGED <<runs, active, owners, sweeps, closed, crashes, faulty, inspected>>
      BY <1>5 DEF verifyStage, gatedStage
    <2>2. runs[w].stages[s].attempts \in 1 .. 3
      <3>1. /\ runs[w].stages[s] \in Stage
            /\ runs[w].stages[s].receipts \subseteq 1 .. runs[w].stages[s].attempts
        BY Typed DEF Sound, Run
      <3>. QED  BY <2>1, <3>1 DEF Stage
    <2>3. OthersOK'
      BY <2>1, <2>2, Typed DEF OthersOK
    <2>4. runs' = [runs EXCEPT ![w] = runs[w]]
      BY <2>1, Typed
    <2>. QED  BY <2>1, <2>3, <2>4, Typed, RestIsGood
  <1>6. ASSUME NEW s \in Stages, NEW a \in 1 .. MaxAttempts[w], Verified(w, s, a) PROVE GoodStep
    <2>1. /\ verifying' = verifying \ {<<w, s, a>>}
          /\ UNCHANGED <<active, owners, sweeps, closed, crashes, faulty, inspected>>
      BY <1>6 DEF Verified
    <2>2. OthersOK'
      BY <2>1, Typed DEF OthersOK
    <2>3. CASE /\ gatedStage(w, s, "waiting_verification", a)
               /\ runs' = [runs EXCEPT ![w] = completeGatedStage(w, runs[w], s)]
      <3>1. active[w].pc = "none" /\ runs[w].status = "waiting_verification"
        BY <2>3 DEF gatedStage
      <3>. QED  BY <2>1, <2>2, <2>3, <3>1, PassIsGood
    <2>4. CASE runs' = runs
      BY <2>1, <2>2, <2>4, Typed DEF GoodStep, WorkflowInv, WorkflowTypeOK, OthersOK,
                                     TurnsAlone, RunningIsOwned, Steady, Stored
    <2>. QED  BY <1>6, <2>3, <2>4 DEF Verified, Recheck
  <1>. QED  BY <1>1, <1>2, <1>3, <1>4, <1>5, <1>6

\* The continuations of an execution.
LEMMA ExecutionIsGood == ASSUME WorkflowInv, NEW w \in Workflows, Execution(w) PROVE GoodStep
  <1>1. CASE Launched(w)
    <2> DEFINE ends == IF active[w].cancelled THEN {Over(runs[w])} ELSE NextStage(w, runs[w])
    <2>1. Goes(w, "loop", ends) /\ Inspect(w, FALSE)
      BY <1>1 DEF Launched
    <2>2. active[w].pc = "loop"
      BY <2>1 DEF Goes
    <2>3. \A e \in ends : GoodEnd(w, e)
      BY <2>2, LaunchedEndsWell
    <2> HIDE DEF ends
    <2>. QED  BY <2>1, <2>3, GoesIsGood
  <1>2. CASE StageReturns(w)
    <2>1. PICK ok \in BOOLEAN, receipt \in {"none", "valid", "foreign"} :
              Goes(w, "stage", StageEnds(w, ok, receipt))
      BY <1>2 DEF StageReturns
    <2>2. Inspect(w, FALSE) /\ active[w].pc = "stage"
      BY <1>2, <2>1 DEF StageReturns, Goes
    <2>. QED  BY <2>1, <2>2, StageEndsWell, GoesIsGood
  <1>3. CASE Checked(w)
    <2>1. PICK passed \in BOOLEAN : Goes(w, "check", CheckEnds(w, passed)) /\ Inspect(w, passed)
      BY <1>3 DEF Checked, Verdicts
    <2>2. active[w].pc = "check"
      BY <2>1 DEF Goes
    <2>. QED  BY <2>1, <2>2, CheckEndsWell, GoesIsGood
  <1>4. CASE Finalized(w)
    <2>1. PICK passed \in BOOLEAN : Goes(w, "final", FinalEnds(w, passed)) /\ Inspect(w, passed)
      BY <1>4 DEF Finalized, Verdicts
    <2>2. active[w].pc = "final"
      BY <2>1 DEF Goes
    <2>. QED  BY <2>1, <2>2, FinalEndsWell, GoesIsGood
  <1>5. CASE Caught(w)
    <2>1. Goes(w, "thrown", CaughtEnds(w)) /\ UNCHANGED inspected /\ active[w].pc = "thrown"
      BY <1>5 DEF Caught, Goes
    <2>. QED  BY <2>1, CaughtEndsWell, GoesIsGood
  <1>6. CASE Ends(w)
    BY <1>6, EndsIsGood
  <1>. QED  BY <1>1, <1>2, <1>3, <1>4, <1>5, <1>6 DEF Execution

LEMMA StepIsGood == WorkflowInv /\ [WorkflowNext]_workflowVars => GoodStep
  <1> SUFFICES ASSUME WorkflowInv, [WorkflowNext]_workflowVars PROVE GoodStep
    OBVIOUS
  <1>1. ASSUME NEW w \in Workflows, Execution(w) PROVE GoodStep
    BY <1>1, ExecutionIsGood
  <1>2. ASSUME NEW w \in Workflows, StopReturns(w) \/ launch(w) \/ CancelActive(w) PROVE GoodStep
    BY <1>2, StopReturnsIsGood, LaunchIsGood, CancelActiveIsGood
  <1>3. ASSUME NEW w \in Workflows,
               \/ create(w) \/ CancelIdle(w) \/ remove(w)
               \/ \E s \in Stages : confirmStage(w, s) \/ verifyStage(w, s)
               \/ \E s \in Stages, a \in 1 .. MaxAttempts[w] : Verified(w, s, a)
        PROVE  GoodStep
    BY <1>3, CallIsGood
  <1>4. ASSUME NEW s \in Sessions, removeSession(s) PROVE GoodStep
    BY <1>4, RemoveSessionIsGood
  <1>5. ASSUME NEW kind \in {"maintenance", "shutdown"},
               SweepEnds(kind) \/ \E S \in SUBSET Sessions \ {{}} : SweepBegins(kind, S)
        PROVE  GoodStep
    BY <1>5, SweepEndsIsGood, SweepBeginsIsGood
  <1>6. CASE Restart
    BY <1>6, RestartIsGood
  <1>7. CASE UNCHANGED workflowVars
    BY <1>7, Typed DEF workflowVars, GoodStep, WorkflowInv, WorkflowTypeOK, OthersOK,
                       TurnsAlone, RunningIsOwned, Steady, Stored
  <1>8. DOMAIN sweeps = {"maintenance", "shutdown"}
    BY Typed DEF OthersOK
  <1>. QED  BY <1>1, <1>2, <1>3, <1>4, <1>5, <1>6, <1>7, <1>8 DEF WorkflowNext

THEOREM WorkflowInvHolds == WorkflowSpec => []WorkflowInv
  <1>1. WorkflowInv /\ [WorkflowNext]_workflowVars => WorkflowInv'
    BY StepIsGood DEF GoodStep
  <1>. QED  BY <1>1, WorkflowInvInit, PTL DEF WorkflowSpec

\* Runs, executions, owners and sweeps keep their types (WorkflowEngine).
THEOREM WorkflowsAreTyped == WorkflowSpec => []WorkflowTypeOK
  <1>1. WorkflowInv => WorkflowTypeOK
    BY DEF WorkflowInv
  <1>. QED  BY <1>1, WorkflowInvHolds, PTL

\* At most one workflow executes in a session: the one that owns it (launch).
THEOREM SessionsRunOneWorkflow == WorkflowSpec => []TurnsAlone
  <1>1. WorkflowInv => TurnsAlone
    BY DEF WorkflowInv
  <1>. QED  BY <1>1, WorkflowInvHolds, PTL

\* A run stored as running owns its session (launch, cancel, interruptRuns).
THEOREM RunningKeepsItsSession == WorkflowSpec => []RunningIsOwned
  <1>1. WorkflowInv => RunningIsOwned
    BY DEF WorkflowInv
  <1>. QED  BY <1>1, WorkflowInvHolds, PTL

\* Both: a turn belongs to the workflow that owns its session, to the end.
THEOREM SessionsAreHeld == WorkflowSpec => []TurnsAreHeld
  BY SessionsRunOneWorkflow, RunningKeepsItsSession, PTL DEF TurnsAreHeld

\* Nothing brings a cancelled run back (execute, verifyStage, interruptRuns).
THEOREM CancellationIsFinal == WorkflowSpec => CancelledStaysCancelled
  <1>1. WorkflowInv /\ [WorkflowNext]_workflowVars =>
            [\A w \in Workflows : runs[w].status = "cancelled" =>
                 runs'[w].status \in {"cancelled", "removed"}]_workflowVars
    BY StepIsGood DEF GoodStep
  <1>. QED  BY <1>1, WorkflowInvHolds, PTL DEF WorkflowSpec, CancelledStaysCancelled

\* An execution that was told to stop starts no further stage (execute).
THEOREM StopEndsTheStages == WorkflowSpec => NoStageAfterStop
  <1>1. WorkflowInv /\ [WorkflowNext]_workflowVars =>
            [\A w \in Workflows : active[w].cancelled => \A s \in Stages :
                 runs'[w].stages[s].attempts <= runs[w].stages[s].attempts]_workflowVars
    BY StepIsGood DEF GoodStep
  <1>. QED  BY <1>1, WorkflowInvHolds, PTL DEF WorkflowSpec, NoStageAfterStop

\* Both: a cancel or a stop wins over everything that was under way.
THEOREM StopsWinOverTheRest == WorkflowSpec => StopsAreFinal
  BY CancellationIsFinal, StopEndsTheStages DEF StopsAreFinal

-----------------------------------------------------------------------------
(* What is stored.                                                         *)

\* The stage an execution waits for, whose attempt may still give its receipt.
Current(t) == IF t.pc \in {"stage", "check"} THEN t.stage ELSE 0

\* What the storage asks of a run (validateRun), in a form that each step keeps: a
\* stage runs or waits only as its run does.
Shape(w, r) ==
    LET status(s) == r.stages[s].status IN
    /\ \A s \in Stages : status(s) = "running" => r.status = "running"
    /\ \A s, t \in Stages : status(s) = "running" /\ status(t) = "running" => s = t
    /\ \A s \in Stages : status(s) \notin {"pending", "cancelled"} => r.stages[s].attempts > 0
    /\ \A s \in Stages : status(s) \in {"running", "completed"} \cup Waiting =>
          \A d \in DependsOn[s] : status(d) = "completed"
    /\ r.status = "completed" => AllDone(r)
    /\ \A s, t \in Stages : status(s) \in Waiting /\ status(t) \in Waiting => s = t
    /\ \A s \in Stages : status(s) \in Waiting => r.status \in {status(s), "cancelled"}
    /\ r.status \in Waiting => \E s \in Stages : status(s) \in Waiting
    /\ w \in Quality => \A s \in Stages : status(s) \in {"completed"} \cup Waiting =>
          r.stages[s].attempts \in r.stages[s].receipts

\* Where an execution that was not told to stop waits, its run is as it left it.
Position(w, r, t) ==
    /\ ~t.cancelled /\ t.pc \notin {"none", "ended"} => r.status = "running"
    /\ ~t.cancelled /\ t.pc = "loop" => \A s \in Stages : r.stages[s].status # "running"
    /\ ~t.cancelled /\ t.pc \in {"stage", "check"} => r.stages[t.stage].status = "running"
    /\ ~t.cancelled /\ t.pc = "final" => AllDone(r)
    /\ t.pc = "check" /\ w \in Quality => t.receipt = "valid"

\* All attempts of a run have given their receipts, but for the one under way.
Counted(w, r, current) ==
    w \in Native /\ r.complete => \A s \in Stages : \A a \in 1 .. r.stages[s].attempts :
        a \in r.stages[s].receipts \/ (s = current /\ a = r.stages[s].attempts)

-----------------------------------------------------------------------------

\* Stages depend on stages.
LEMMA GraphIsTyped == \A s \in Stages : DependsOn[s] \subseteq Stages
  BY GraphAssumption

\* Nothing of a run but its status and the status of its stages is changed.
SameUse(r, q) ==
    /\ q.complete = r.complete
    /\ \A s \in Stages : /\ q.stages[s].attempts = r.stages[s].attempts
                         /\ q.stages[s].receipts = r.stages[s].receipts

\* A change of status counts nothing and loses no count.
LEMMA UseIsCounted ==
    ASSUME NEW w, NEW r, NEW q, SameUse(r, q), NEW c, Counted(w, r, c)
    PROVE  Counted(w, q, c)
  BY DEF SameUse, Counted

\* What the stages of a run become when one status is replaced by another.
LEMMA SetStagesIs ==
    ASSUME NEW r, Sound(r), NEW from, NEW to \in StageStatuses
    PROVE  LET q == SetStages(r, from, to)
           IN  /\ Sound(q) /\ q.status = r.status /\ SameUse(r, q)
               /\ \A s \in Stages : q.stages[s].status =
                      IF r.stages[s].status = from THEN to ELSE r.stages[s].status
  <1> DEFINE q == SetStages(r, from, to)
  <1>1. Sound(q) /\ q.status = r.status
    BY SetStagesIsSound
  <1>2. q.complete = r.complete
    BY DEF SetStages, Sound, Run
  <1>3. ASSUME NEW s \in Stages
        PROVE  /\ q.stages[s].attempts = r.stages[s].attempts
               /\ q.stages[s].receipts = r.stages[s].receipts
               /\ q.stages[s].status = IF r.stages[s].status = from THEN to ELSE r.stages[s].status
    <2>1. r.stages[s] \in Stage /\ r \in Run
      BY DEF Sound, Run
    <2>2. q.stages[s] = IF r.stages[s].status = from THEN [r.stages[s] EXCEPT !.status = to] ELSE r.stages[s]
      BY <2>1 DEF SetStages, Run
    <2>. QED  BY <2>1, <2>2 DEF Stage
  <1>. QED  BY <1>1, <1>2, <1>3 DEF SameUse

\* Storing another status of a run leaves its stages alone.
LEMMA StatusIs ==
    ASSUME NEW r, Sound(r), NEW status \in RunStatuses
    PROVE  LET q == [r EXCEPT !.status = status]
           IN  Sound(q) /\ q.status = status /\ SameUse(r, q) /\ q.stages = r.stages
  BY StatusIsSound DEF Sound, Run, SameUse

\* A stop takes the running stage with it, which nothing can depend on.
LEMMA StoppedIsShaped ==
    ASSUME NEW w \in Workflows, NEW r, Sound(r), Shape(w, r)
    PROVE  /\ Shape(w, Cancelled(r)) /\ SameUse(r, Cancelled(r))
           /\ r.status = "running" => Shape(w, Interrupted(r))
           /\ SameUse(r, Interrupted(r))
  <1> DEFINE i == SetStages(r, "running", "interrupted")
             c == SetStages(r, "running", "cancelled")
  <1>1. "interrupted" \in StageStatuses \cap RunStatuses /\ "cancelled" \in StageStatuses \cap RunStatuses
    BY DEF StageStatuses, RunStatuses
  <1>2. /\ Sound(i) /\ SameUse(r, i)
        /\ \A s \in Stages : i.stages[s].status =
               IF r.stages[s].status = "running" THEN "interrupted" ELSE r.stages[s].status
    BY <1>1, SetStagesIs
  <1>3. /\ Sound(c) /\ SameUse(r, c)
        /\ \A s \in Stages : c.stages[s].status =
               IF r.stages[s].status = "running" THEN "cancelled" ELSE r.stages[s].status
    BY <1>1, SetStagesIs
  <1>4. Interrupted(r) = [i EXCEPT !.status = "interrupted"] /\ Cancelled(r) = [c EXCEPT !.status = "cancelled"]
    BY DEF Interrupted, Cancelled
  <1> HIDE DEF i, c
  <1>5. /\ Interrupted(r).status = "interrupted" /\ Interrupted(r).stages = i.stages
        /\ SameUse(i, Interrupted(r))
    BY <1>1, <1>2, <1>4, StatusIs
  <1>6. /\ Cancelled(r).status = "cancelled" /\ Cancelled(r).stages = c.stages
        /\ SameUse(c, Cancelled(r))
    BY <1>1, <1>3, <1>4, StatusIs
  <1>7. SameUse(r, Interrupted(r)) /\ SameUse(r, Cancelled(r))
    BY <1>2, <1>3, <1>5, <1>6 DEF SameUse
  <1>8. Shape(w, Cancelled(r))
    BY <1>3, <1>6, <1>7, GraphIsTyped DEF Shape, SameUse, Waiting, AllDone
  <1>9. r.status = "running" => Shape(w, Interrupted(r))
    BY <1>2, <1>5, <1>7, GraphIsTyped DEF Shape, SameUse, Waiting, AllDone
  <1>. QED  BY <1>7, <1>8, <1>9

\* A launch sets the stages that are to run again back to pending.
LEMMA ResetIsShaped ==
    ASSUME NEW w \in Workflows, NEW r, Sound(r), Shape(w, r),
           r.status \in {"draft", "paused", "interrupted", "failed"},
           NEW from \in {"failed", "interrupted"}
    PROVE  LET q == [SetStages(r, from, "pending") EXCEPT !.status = "running"]
               d == [r EXCEPT !.status = "running"]
           IN  /\ Shape(w, q) /\ SameUse(r, q) /\ Shape(w, d) /\ SameUse(r, d)
               /\ \A s \in Stages : q.stages[s].status # "running" /\ d.stages[s].status # "running"
  <1> DEFINE p == SetStages(r, from, "pending")
             q == [p EXCEPT !.status = "running"]
             d == [r EXCEPT !.status = "running"]
  <1>1. "pending" \in StageStatuses /\ "running" \in RunStatuses
    BY DEF StageStatuses, RunStatuses
  <1>2. /\ Sound(p) /\ SameUse(r, p)
        /\ \A s \in Stages : p.stages[s].status =
               IF r.stages[s].status = from THEN "pending" ELSE r.stages[s].status
    BY <1>1, SetStagesIs
  <1> HIDE DEF p
  <1>3. q.status = "running" /\ q.stages = p.stages /\ SameUse(p, q)
    BY <1>1, <1>2, StatusIs
  <1>4. d.status = "running" /\ d.stages = r.stages /\ SameUse(r, d)
    BY <1>1, StatusIs
  <1> HIDE DEF q, d
  <1>5. SameUse(r, q)
    BY <1>2, <1>3 DEF SameUse
  <1>6. Shape(w, q) /\ \A s \in Stages : q.stages[s].status # "running"
    BY <1>2, <1>3, <1>5, GraphIsTyped DEF Shape, SameUse, Waiting, AllDone
  <1>7. Shape(w, d) /\ \A s \in Stages : d.stages[s].status # "running"
    BY <1>4, GraphIsTyped DEF Shape, SameUse, Waiting, AllDone
  <1>. QED  BY <1>4, <1>5, <1>6, <1>7 DEF p, q, d

\* A stage of a run that takes the place of another.
LEMMA StageIs ==
    ASSUME NEW r, Sound(r), NEW s \in Stages, NEW stage
    PROVE  LET q == [r EXCEPT !.stages = [@ EXCEPT ![s] = stage]]
           IN  /\ q.status = r.status /\ q.complete = r.complete /\ q.stages[s] = stage
               /\ \A t \in Stages \ {s} : q.stages[t] = r.stages[t]
  BY DEF Sound, Run

\* A stage begins in a run in which none runs or waits, after those it depends on.
LEMMA BegunIsShaped ==
    ASSUME NEW w \in Workflows, NEW r, Sound(r), Shape(w, r), r.status = "running",
           \A t \in Stages : r.stages[t].status # "running", NEW s \in Ready(r)
    PROVE  LET q == Begun(r, s)
           IN  /\ Shape(w, q) /\ q.status = "running" /\ q.stages[s].status = "running"
               /\ Counted(w, r, 0) => Counted(w, q, s)
  <1> DEFINE stage == [r.stages[s] EXCEPT !.status = "running", !.attempts = @ + 1]
             q == Begun(r, s)
  <1>1. /\ s \in Stages /\ r.stages[s].status = "pending"
        /\ \A d \in DependsOn[s] : r.stages[d].status = "completed"
    BY DEF Ready
  <1>2. r.stages[s] \in Stage /\ r.stages[s].attempts \in 0 .. 3
    BY <1>1 DEF Sound, Run, Stage
  <1>3. /\ stage.status = "running" /\ stage.attempts = r.stages[s].attempts + 1
        /\ stage.receipts = r.stages[s].receipts
    BY <1>2 DEF Stage
  <1>4. q = [r EXCEPT !.stages = [@ EXCEPT ![s] = stage]]
    BY <1>1 DEF Begun, Sound, Run, Stage
  <1> HIDE DEF stage
  <1>5. /\ q.status = r.status /\ q.complete = r.complete /\ q.stages[s] = stage
        /\ \A t \in Stages \ {s} : q.stages[t] = r.stages[t]
    BY <1>1, <1>4, StageIs
  <1> HIDE DEF q
  <1>6. Shape(w, q)
    BY <1>1, <1>2, <1>3, <1>5, GraphIsTyped DEF Shape, Waiting, AllDone
  <1>7. ASSUME Counted(w, r, 0) PROVE Counted(w, q, s)
    <2> SUFFICES ASSUME w \in Native, q.complete, NEW t \in Stages, NEW a \in 1 .. q.stages[t].attempts
                 PROVE  a \in q.stages[t].receipts \/ (t = s /\ a = q.stages[t].attempts)
      BY DEF Counted
    <2>1. \A x \in Stages : x # 0
      BY DEF Stages
    <2>2. CASE t # s
      BY <1>5, <1>7, <2>1, <2>2 DEF Counted
    <2>3. CASE t = s /\ a # q.stages[t].attempts
      <3>1. a \in 1 .. r.stages[s].attempts
        BY <1>2, <1>3, <1>5, <2>3
      <3>. QED  BY <1>1, <1>3, <1>5, <1>7, <2>1, <2>3, <3>1 DEF Counted
    <2>. QED  BY <2>2, <2>3
  <1>. QED  BY <1>3, <1>5, <1>6, <1>7 DEF q

\* A receipt counts the attempt under way, and a native run without one says so.
LEMMA ReceiptIsShaped ==
    ASSUME NEW w \in Workflows, NEW r, Sound(r), Shape(w, r), NEW s \in Stages, NEW receipt
    PROVE  LET q == recordReceipt(w, r, s, receipt)
           IN  /\ Shape(w, q) /\ q.status = r.status
               /\ \A t \in Stages : /\ q.stages[t].status = r.stages[t].status
                                    /\ q.stages[t].attempts = r.stages[t].attempts
               /\ receipt = "valid" => q.stages[s].attempts \in q.stages[s].receipts
               /\ Counted(w, r, s) => Counted(w, q, 0)
  <1> DEFINE stage == [r.stages[s] EXCEPT !.receipts = @ \cup {r.stages[s].attempts}]
             q == recordReceipt(w, r, s, receipt)
  <1>1. CASE receipt = "valid"
    <2>1. /\ stage.status = r.stages[s].status /\ stage.attempts = r.stages[s].attempts
          /\ stage.receipts = r.stages[s].receipts \cup {r.stages[s].attempts}
      BY DEF Sound, Run, Stage
    <2>2. q = [r EXCEPT !.stages = [@ EXCEPT ![s] = stage]]
      BY <1>1 DEF recordReceipt, Sound, Run, Stage
    <2> HIDE DEF stage
    <2>3. /\ q.status = r.status /\ q.complete = r.complete /\ q.stages[s] = stage
          /\ \A t \in Stages \ {s} : q.stages[t] = r.stages[t]
      BY <2>2, StageIs
    <2> HIDE DEF q
    <2>4. \A t \in Stages : /\ q.stages[t].status = r.stages[t].status
                            /\ q.stages[t].attempts = r.stages[t].attempts
                            /\ r.stages[t].receipts \subseteq q.stages[t].receipts
      BY <2>1, <2>3
    <2>5. Shape(w, q)
      BY <2>3, <2>4, GraphIsTyped DEF Shape, Waiting, AllDone
    <2>6. Counted(w, r, s) => Counted(w, q, 0)
      BY <2>1, <2>3, <2>4 DEF Counted
    <2>. QED  BY <2>1, <2>3, <2>4, <2>5, <2>6 DEF q
  <1>2. CASE receipt # "valid"
    <2>1. q = [r EXCEPT !.complete = @ /\ w \notin Native]
      BY <1>2 DEF recordReceipt
    <2>2. q.status = r.status /\ q.stages = r.stages /\ (w \in Native => ~q.complete)
      BY <2>1 DEF Sound, Run
    <2> HIDE DEF q
    <2>3. Shape(w, q)
      BY <2>2 DEF Shape, AllDone
    <2>. QED  BY <1>2, <2>2, <2>3 DEF q, Counted
  <1>. QED  BY <1>1, <1>2

\* A result settles the running stage.  Only a stage without a gate can complete
\* the run, as its last, and an accepted result of a run to be inspected has its receipt.
LEMMA OutcomeIsShaped ==
    ASSUME NEW w \in Workflows, NEW r, Sound(r), Shape(w, r), r.status = "running",
           NEW s \in Stages, r.stages[s].status = "running", NEW ok \in BOOLEAN,
           ok /\ w \in Quality => r.stages[s].attempts \in r.stages[s].receipts
    PROVE  LET q == Outcome(w, r, s, ok)
           IN  /\ Shape(w, q) /\ SameUse(r, q)
               /\ \A t \in Stages : q.stages[t].status # "running"
               /\ q.status = "completed" => /\ ok /\ Gate[w][s] = "none"
                      /\ \A t \in Stages \ {s} : r.stages[t].status = "completed"
  <1> DEFINE waiting == CASE Gate[w][s] = "manual" -> "waiting_confirmation"
                          [] Gate[w][s] = "native_task" -> "waiting_verification"
                          [] OTHER -> "completed"
             status == IF ok THEN waiting ELSE "failed"
             stage == [r.stages[s] EXCEPT !.status = status]
             at == [r EXCEPT !.stages = [@ EXCEPT ![s] = stage]]
             outcome == IF ~ok THEN "failed"
                        ELSE IF waiting # "completed" THEN waiting
                        ELSE IF AllDone(at) THEN "completed"
                        ELSE IF w \in Pausing THEN "paused" ELSE "running"
             q == Outcome(w, r, s, ok)
  <1>0. Gate[w][s] \in {"none", "manual", "native_task"}
    BY WorkflowAssumption DEF Gates
  <1>1. /\ waiting \in Waiting \cup {"completed"}
        /\ waiting = "completed" => Gate[w][s] = "none"
    BY <1>0 DEF Waiting
  <1>2. q = [at EXCEPT !.status = outcome]
    BY DEF Outcome
  <1> HIDE DEF waiting
  <1>3. /\ stage.status = status /\ stage.attempts = r.stages[s].attempts
        /\ stage.receipts = r.stages[s].receipts
    BY DEF Sound, Run, Stage
  <1>4. stage \in Stage /\ stage.receipts \subseteq 1 .. stage.attempts
    BY <1>1 DEF Sound, Run, Stage, StageStatuses, Waiting
  <1> HIDE DEF stage
  <1>5. /\ at.status = r.status /\ at.complete = r.complete /\ at.stages[s] = stage
        /\ \A t \in Stages \ {s} : at.stages[t] = r.stages[t]
    BY StageIs
  <1>6. Sound(at)
    BY <1>4, StageIsSound
  <1>7. SameUse(r, at)
    BY <1>3, <1>5 DEF SameUse
  <1> HIDE DEF at
  <1>8. outcome \in RunStatuses
    BY <1>1 DEF RunStatuses, Waiting
  <1>9. /\ ~ok => outcome = "failed"
        /\ ok /\ waiting # "completed" => outcome = waiting
        /\ ok /\ waiting = "completed" => /\ outcome \in {"completed", "paused", "running"}
                                          /\ outcome = "completed" => AllDone(at)
    OBVIOUS
  <1> HIDE DEF outcome
  <1>10. q.status = outcome /\ q.stages = at.stages /\ SameUse(at, q)
    BY <1>2, <1>6, <1>8, StatusIs
  <1> HIDE DEF q
  <1>11. SameUse(r, q)
    BY <1>7, <1>10 DEF SameUse
  <1>12. /\ q.stages[s].status = status
         /\ \A t \in Stages \ {s} : q.stages[t].status = r.stages[t].status
    BY <1>3, <1>5, <1>10
  <1>13. r.stages[s].attempts > 0 /\ \A t \in Stages : t # s =>
            r.stages[t].status # "running" /\ r.stages[t].status \notin Waiting
    BY DEF Shape, Waiting
  <1>14. q.status = "completed" => ok /\ waiting = "completed" /\ AllDone(at)
    BY <1>1, <1>9, <1>10 DEF Waiting
  <1>15. AllDone(at) => AllDone(q)
    BY <1>10 DEF AllDone
  <1>16. CASE ~ok
    <2>1. q.status = "failed" /\ status = "failed"
      BY <1>9, <1>10, <1>16
    <2>. HIDE DEF status
    <2>2. Shape(w, q) /\ \A t \in Stages : q.stages[t].status # "running"
      BY <1>11, <1>12, <1>13, <2>1, GraphIsTyped DEF Shape, SameUse, Waiting, AllDone
    <2>. QED  BY <1>11, <2>1, <2>2 DEF q
  <1>17. CASE ok /\ waiting # "completed"
    <2>1. q.status = waiting /\ status = waiting /\ waiting \in Waiting
      BY <1>1, <1>9, <1>10, <1>17
    <2>. HIDE DEF status
    <2>2. Shape(w, q) /\ \A t \in Stages : q.stages[t].status # "running"
      BY <1>11, <1>12, <1>13, <1>17, <2>1, GraphIsTyped DEF Shape, SameUse, Waiting, AllDone
    <2>. QED  BY <1>11, <1>17, <2>1, <2>2 DEF q
  <1>18. CASE ok /\ waiting = "completed"
    <2>1. /\ status = "completed" /\ q.status \in {"completed", "paused", "running"}
          /\ q.status = "completed" => AllDone(q)
      BY <1>9, <1>10, <1>15, <1>18
    <2>. HIDE DEF status
    <2>2. Shape(w, q) /\ \A t \in Stages : q.stages[t].status # "running"
      BY <1>11, <1>12, <1>13, <1>18, <2>1, GraphIsTyped DEF Shape, SameUse, Waiting
    <2>3. AllDone(q) => \A t \in Stages \ {s} : r.stages[t].status = "completed"
      BY <1>12 DEF AllDone
    <2>. QED  BY <1>1, <1>11, <1>18, <2>1, <2>2, <2>3 DEF q
  <1>. QED  BY <1>16, <1>17, <1>18

\* A gate that is passed completes its stage, and the run if nothing is left to
\* be done or inspected.
LEMMA GatedIsShaped ==
    ASSUME NEW w \in Workflows, NEW r, Sound(r), Shape(w, r), r.status \in Waiting,
           NEW s \in Stages, r.stages[s].status = r.status
    PROVE  LET q == completeGatedStage(w, r, s)
           IN  /\ Shape(w, q) /\ SameUse(r, q) /\ (q.status = "completed" => w \notin Quality)
  <1> DEFINE stage == [r.stages[s] EXCEPT !.status = "completed"]
             done == [r EXCEPT !.stages = [@ EXCEPT ![s] = stage]]
             status == IF AllDone(done) /\ w \notin Quality THEN "completed" ELSE "paused"
             q == completeGatedStage(w, r, s)
  <1>1. q = [done EXCEPT !.status = status]
    BY DEF completeGatedStage
  <1>2. /\ stage.status = "completed" /\ stage.attempts = r.stages[s].attempts
        /\ stage.receipts = r.stages[s].receipts
    BY DEF Sound, Run, Stage
  <1>3. stage \in Stage /\ stage.receipts \subseteq 1 .. stage.attempts
    BY DEF Sound, Run, Stage, StageStatuses
  <1> HIDE DEF stage
  <1>4. /\ done.status = r.status /\ done.complete = r.complete /\ done.stages[s] = stage
        /\ \A t \in Stages \ {s} : done.stages[t] = r.stages[t]
    BY StageIs
  <1>5. Sound(done)
    BY <1>3, StageIsSound
  <1>6. SameUse(r, done)
    BY <1>2, <1>4 DEF SameUse
  <1> HIDE DEF done
  <1>7. status \in RunStatuses /\ (status = "completed" => AllDone(done) /\ w \notin Quality)
        /\ status \in {"completed", "paused"}
    BY DEF RunStatuses
  <1> HIDE DEF status
  <1>8. q.status = status /\ q.stages = done.stages /\ SameUse(done, q)
    BY <1>1, <1>5, <1>7, StatusIs
  <1> HIDE DEF q
  <1>9. SameUse(r, q)
    BY <1>6, <1>8 DEF SameUse
  <1>10. /\ q.stages[s].status = "completed"
         /\ \A t \in Stages \ {s} : q.stages[t].status = r.stages[t].status
         /\ AllDone(done) => AllDone(q)
    BY <1>2, <1>4, <1>8 DEF AllDone
  <1>11. Shape(w, q)
    BY <1>7, <1>8, <1>9, <1>10, GraphIsTyped DEF Shape, SameUse, Waiting
  <1>. QED  BY <1>7, <1>8, <1>9, <1>11 DEF q

-----------------------------------------------------------------------------
(* Where a stretch of an execution leaves its run.                         *)

\* An execution that was not told to stop waits where its run is as it left it.
Waits(e) ==
    /\ e.pc # "ended" => e.run.status = "running"
    /\ e.pc \in {"stage", "check"} => e.run.stages[e.stage].status = "running"
    /\ e.pc = "final" => AllDone(e.run)

\* The end leaves what the storage accepts, completes a run to be inspected only
\* when it passed, and counts what was used up unless a save failed.
ValidEnd(w, e, passed) ==
    /\ e.pc \in {"stage", "check", "final", "thrown", "ended"}
    /\ Shape(w, e.run) /\ (active[w].cancelled => e.pc # "stage") /\ (~active[w].cancelled => Waits(e))
    /\ e.pc = "check" /\ w \in Quality => e.receipt = "valid"
    /\ e.run.status = "completed" /\ w \in Quality => runs[w].status = "completed" \/ passed
    /\ e.persistenceFailed => e.faulty
    /\ ~e.faulty /\ Counted(w, runs[w], Current(active[w])) => Counted(w, e.run, Current(e))

\* The fields of an end.
LEMMA EndIs ==
    ASSUME NEW r, NEW pc, NEW s, NEW receipt
    PROVE  LET e == End(r, pc, s, receipt)
           IN  /\ e.run = r /\ e.pc = pc /\ e.stage = s /\ e.receipt = receipt
               /\ ~e.persistenceFailed /\ ~e.faulty
  BY DEF End

\* Leaving the loop, and a throw, keep the run.
LEMMA OverIs ==
    ASSUME NEW r
    PROVE  /\ Over(r).run = r /\ Over(r).pc = "ended" /\ ~Over(r).persistenceFailed /\ ~Over(r).faulty
           /\ Thrown(r).run = r /\ Thrown(r).pc = "thrown" /\ ~Thrown(r).persistenceFailed /\ ~Thrown(r).faulty
  BY EndIs DEF Over, Thrown

\* A save that fails keeps the run, and is remembered.
LEMMA UnsavedIs ==
    ASSUME NEW r, NEW kept, NEW e \in Unsaved(r, kept)
    PROVE  e.run = r /\ e.pc = "thrown" /\ e.faulty
  <1>1. e = [Thrown(r) EXCEPT !.faulty = TRUE, !.persistenceFailed = kept]
    BY DEF Unsaved
  <1>. QED  BY <1>1 DEF Thrown, End

\* The head of the loop.
LEMMA NextStageIsValid ==
    ASSUME NEW w \in Workflows, NEW r, Sound(r), Shape(w, r), r.status = "running",
           \A t \in Stages : r.stages[t].status # "running", NEW e \in NextStage(w, r)
    PROVE  /\ e.pc \in {"stage", "final", "thrown"} /\ Shape(w, e.run) /\ Waits(e)
           /\ e.run.status = "running" /\ (e.persistenceFailed => e.faulty)
           /\ ~e.faulty /\ Counted(w, r, 0) => Counted(w, e.run, Current(e))
  <1>1. ASSUME NEW s \in Ready(r), e = End(Begun(r, s), "stage", s, "none")
        PROVE  /\ e.pc \in {"stage", "final", "thrown"} /\ Shape(w, e.run) /\ Waits(e)
               /\ e.run.status = "running" /\ (e.persistenceFailed => e.faulty)
               /\ ~e.faulty /\ Counted(w, r, 0) => Counted(w, e.run, Current(e))
    <2>1. /\ Shape(w, Begun(r, s)) /\ Begun(r, s).status = "running"
          /\ Begun(r, s).stages[s].status = "running"
          /\ Counted(w, r, 0) => Counted(w, Begun(r, s), s)
      BY BegunIsShaped
    <2>2. e.run = Begun(r, s) /\ e.pc = "stage" /\ e.stage = s /\ ~e.persistenceFailed
      BY <1>1, EndIs
    <2>. QED  BY <2>1, <2>2 DEF Waits, Current
  <1>2. CASE e = Thrown(r)
    BY <1>2, OverIs DEF Waits, Current
  <1>3. CASE e \in Unsaved(r, FALSE)
    BY <1>3, UnsavedIs DEF Waits
  <1>4. CASE e = End(r, "final", 0, "none") /\ AllDone(r)
    BY <1>4, EndIs DEF Waits, Current
  <1>. QED  BY <1>1, <1>2, <1>3, <1>4 DEF NextStage

\* A settled result, which is stored before the loop goes on.
LEMMA SettledIsValid ==
    ASSUME NEW w \in Workflows, NEW r, Sound(r), Shape(w, r), r.status = "running",
           NEW s \in Stages, r.stages[s].status = "running", NEW ok \in BOOLEAN, NEW receipt,
           ok /\ w \in Quality => receipt = "valid", NEW e \in Settled(w, r, s, ok, receipt)
    PROVE  /\ e.pc \in {"stage", "final", "thrown", "ended"} /\ Shape(w, e.run) /\ Waits(e)
           /\ e.persistenceFailed => e.faulty
           /\ e.run.status = "completed" => /\ ok /\ Gate[w][s] = "none"
                  /\ \A t \in Stages \ {s} : r.stages[t].status = "completed"
           /\ ~e.faulty /\ Counted(w, r, s) => Counted(w, e.run, Current(e))
  <1> DEFINE noted == recordReceipt(w, r, s, receipt)
             stored == Outcome(w, noted, s, ok)
  <1>1. /\ Shape(w, noted) /\ noted.status = "running"
        /\ \A t \in Stages : noted.stages[t].status = r.stages[t].status
        /\ receipt = "valid" => noted.stages[s].attempts \in noted.stages[s].receipts
        /\ Counted(w, r, s) => Counted(w, noted, 0)
    BY ReceiptIsShaped
  <1>2. Sound(noted)
    <2>1. r.stages[s].attempts > 0
      BY DEF Shape
    <2>. QED  BY <2>1, ReceiptIsSound
  <1> HIDE DEF noted
  <1>3. /\ Shape(w, stored) /\ SameUse(noted, stored)
        /\ \A t \in Stages : stored.stages[t].status # "running"
        /\ stored.status = "completed" => /\ ok /\ Gate[w][s] = "none"
               /\ \A t \in Stages \ {s} : noted.stages[t].status = "completed"
    BY <1>1, <1>2, OutcomeIsShaped
  <1>4. Sound(stored)
    BY <1>2, OutcomeIsSound
  <1>5. e \in Unsaved(r, FALSE) \cup
              IF stored.status = "running" THEN NextStage(w, stored) ELSE {Over(stored)}
    BY DEF Settled, noted
  <1>6. Counted(w, r, s) => Counted(w, stored, 0)
    BY <1>1, <1>3, UseIsCounted
  <1> HIDE DEF stored
  <1>7. CASE e \in Unsaved(r, FALSE)
    <2>1. e.run = r /\ e.pc = "thrown" /\ e.faulty
      BY <1>7, UnsavedIs
    <2>. QED  BY <2>1 DEF Waits
  <1>8. CASE stored.status = "running" /\ e \in NextStage(w, stored)
    BY <1>3, <1>4, <1>6, <1>8, NextStageIsValid
  <1>9. CASE stored.status # "running" /\ e = Over(stored)
    <2>1. e.run = stored /\ e.pc = "ended" /\ ~e.persistenceFailed /\ Current(e) = 0
      BY <1>9, OverIs DEF Current
    <2>. QED  BY <1>1, <1>3, <1>6, <2>1 DEF Waits
  <1>. QED  BY <1>5, <1>7, <1>8, <1>9

-----------------------------------------------------------------------------
(* Every stretch of an execution ends in what the storage accepts.         *)

\* What the invariants say of an execution in progress.
RunIsAsLeft(w) == Shape(w, runs[w]) /\ Position(w, runs[w], active[w])

\* The first continuation of a launch.
LEMMA LaunchedIsValid ==
    ASSUME WorkflowInv, NEW w \in Workflows, RunIsAsLeft(w), active[w].pc = "loop",
           NEW e \in IF active[w].cancelled THEN {Over(runs[w])} ELSE NextStage(w, runs[w])
    PROVE  ValidEnd(w, e, FALSE)
  <1>1. Sound(runs[w]) /\ Current(active[w]) = 0
    BY Typed DEF Current
  <1>2. CASE active[w].cancelled
    BY <1>1, <1>2, OverIs DEF ValidEnd, RunIsAsLeft, Current
  <1>3. CASE ~active[w].cancelled
    <2>1. runs[w].status = "running" /\ \A t \in Stages : runs[w].stages[t].status # "running"
      BY <1>3 DEF RunIsAsLeft, Position
    <2>. QED  BY <1>1, <1>3, <2>1, NextStageIsValid DEF ValidEnd, RunIsAsLeft
  <1>. QED  BY <1>2, <1>3

\* What comes late to a stage that was told to stop is only booked.
LEMMA LateIsValid ==
    ASSUME WorkflowInv, NEW w \in Workflows, RunIsAsLeft(w), active[w].cancelled,
           active[w].pc \in {"stage", "check"}, NEW receipt, NEW passed,
           NEW e, \/ e = Over(recordReceipt(w, runs[w], active[w].stage, receipt))
                  \/ w \notin Native /\ e = Over(runs[w])
                  \/ e \in Unsaved(runs[w], TRUE) \/ e \in Unsaved(runs[w], FALSE)
    PROVE  ValidEnd(w, e, passed)
  <1> DEFINE r == runs[w]
             s == active[w].stage
             noted == recordReceipt(w, r, s, receipt)
  <1>1. Sound(r) /\ s \in Stages /\ Shape(w, r) /\ Current(active[w]) = s
    BY Typed, InProgress DEF Current, RunIsAsLeft
  <1>2. CASE e = Over(noted)
    <2>1. Shape(w, noted) /\ noted.status = r.status /\ (Counted(w, r, s) => Counted(w, noted, 0))
      BY <1>1, ReceiptIsShaped
    <2> HIDE DEF noted
    <2>2. e.run = noted /\ e.pc = "ended" /\ ~e.persistenceFailed /\ Current(e) = 0
      BY <1>2, OverIs DEF Current
    <2>. QED  BY <1>1, <2>1, <2>2 DEF ValidEnd
  <1>3. CASE w \notin Native /\ e = Over(r)
    BY <1>1, <1>3, OverIs DEF ValidEnd, Counted
  <1>4. CASE e \in Unsaved(r, TRUE) \/ e \in Unsaved(r, FALSE)
    <2>1. e.run = r /\ e.pc = "thrown" /\ e.faulty
      BY <1>4, UnsavedIs
    <2>. QED  BY <1>1, <2>1 DEF ValidEnd
  <1>. QED  BY <1>2, <1>3, <1>4

\* runStage returns.
LEMMA StageEndIsValid ==
    ASSUME WorkflowInv, NEW w \in Workflows, RunIsAsLeft(w), active[w].pc = "stage",
           NEW ok \in BOOLEAN, NEW receipt \in {"none", "valid", "foreign"},
           NEW e \in StageEnds(w, ok, receipt)
    PROVE  ValidEnd(w, e, FALSE)
  <1> DEFINE r == runs[w]
             s == active[w].stage
             good == ok /\ (w \in Quality => receipt = "valid")
             last == Gate[w][s] = "none" /\ \A t \in Stages \ {s} : r.stages[t].status = "completed"
  <1>1. Sound(r) /\ s \in Stages /\ Shape(w, r) /\ Current(active[w]) = s
    BY Typed, InProgress DEF Current, RunIsAsLeft
  <1>2. ~active[w].cancelled => r.status = "running" /\ r.stages[s].status = "running"
    BY DEF RunIsAsLeft, Position
  <1>3. CASE e \in Refused(r)
    <2> DEFINE marked == [r EXCEPT !.complete = FALSE]
    <2>1. marked.status = r.status /\ marked.stages = r.stages /\ ~marked.complete
      BY <1>1 DEF Sound, Run
    <2> HIDE DEF marked
    <2>2. Shape(w, marked) /\ \A c : Counted(w, marked, c)
      BY <1>1, <2>1 DEF Shape, AllDone, Counted
    <2>3. CASE e = Thrown(marked)
      <3>1. e.run = marked /\ e.pc = "thrown" /\ ~e.persistenceFailed
        BY <2>3, OverIs
      <3>. QED  BY <1>2, <2>1, <2>2, <3>1 DEF ValidEnd, Waits
    <2>4. CASE e \in Unsaved(r, TRUE)
      <3>1. e.run = r /\ e.pc = "thrown" /\ e.faulty
        BY <2>4, UnsavedIs
      <3>. QED  BY <1>1, <1>2, <3>1 DEF ValidEnd, Waits
    <2>. QED  BY <1>3, <2>3, <2>4 DEF Refused, marked
  <1>4. CASE active[w].cancelled /\ e \in Late(w, r, s, receipt)
    <2>1. \/ e = Over(recordReceipt(w, r, s, receipt)) \/ e \in Unsaved(r, TRUE)
          \/ w \notin Native /\ e = Over(r)
      BY <1>4 DEF Late
    <2>. QED  BY <1>4, <2>1, LateIsValid
  <1>5. CASE ~active[w].cancelled /\ good /\ e = End(r, "check", s, receipt)
    <2>1. e.run = r /\ e.pc = "check" /\ e.stage = s /\ e.receipt = receipt /\ ~e.persistenceFailed
      BY <1>5, EndIs
    <2>. QED  BY <1>1, <1>2, <1>5, <2>1 DEF ValidEnd, Waits, Current
  <1>6. CASE ~active[w].cancelled /\ ~(good /\ last) /\ e \in Settled(w, r, s, good, receipt)
    <2>1. good \in BOOLEAN /\ (good /\ w \in Quality => receipt = "valid")
      OBVIOUS
    <2>2. good /\ Gate[w][s] = "none" /\ (\A t \in Stages \ {s} : r.stages[t].status = "completed") => good /\ last
      OBVIOUS
    <2> HIDE DEF good, last
    <2>3. /\ e.pc \in {"stage", "final", "thrown", "ended"} /\ Shape(w, e.run) /\ Waits(e)
          /\ e.persistenceFailed => e.faulty
          /\ e.run.status = "completed" => good /\ last
          /\ ~e.faulty /\ Counted(w, r, s) => Counted(w, e.run, Current(e))
      BY <1>1, <1>2, <1>6, <2>1, <2>2, SettledIsValid
    <2>. QED  BY <1>1, <1>6, <2>3 DEF ValidEnd
  <1>. QED  BY <1>3, <1>4, <1>5, <1>6 DEF StageEnds

\* The inspection after the last stage comes back.
LEMMA CheckEndIsValid ==
    ASSUME WorkflowInv, NEW w \in Workflows, RunIsAsLeft(w), active[w].pc = "check",
           NEW passed \in BOOLEAN, NEW e \in CheckEnds(w, passed)
    PROVE  ValidEnd(w, e, passed)
  <1> DEFINE r == runs[w]
             s == active[w].stage
             receipt == active[w].receipt
  <1>1. CASE active[w].cancelled
    <2>1. e = Over(recordReceipt(w, r, s, receipt)) \/ e \in Unsaved(r, FALSE)
      BY <1>1 DEF CheckEnds
    <2>. QED  BY <1>1, <2>1, LateIsValid
  <1>2. CASE ~active[w].cancelled
    <2>1. Sound(r) /\ s \in Stages /\ Shape(w, r) /\ Current(active[w]) = s
      BY Typed, InProgress DEF Current, RunIsAsLeft
    <2>2. /\ r.status = "running" /\ r.stages[s].status = "running"
          /\ passed /\ w \in Quality => receipt = "valid"
      BY <1>2 DEF RunIsAsLeft, Position
    <2>3. e \in Settled(w, r, s, passed, receipt)
      BY <1>2 DEF CheckEnds
    <2> HIDE DEF receipt
    <2>4. /\ e.pc \in {"stage", "final", "thrown", "ended"} /\ Shape(w, e.run) /\ Waits(e)
          /\ e.persistenceFailed => e.faulty
          /\ e.run.status = "completed" => passed
          /\ ~e.faulty /\ Counted(w, r, s) => Counted(w, e.run, Current(e))
      BY <2>1, <2>2, <2>3, SettledIsValid
    <2>. QED  BY <1>2, <2>1, <2>4 DEF ValidEnd
  <1>. QED  BY <1>1, <1>2

\* The inspection of a run whose stages are completed comes back.
LEMMA FinalEndIsValid ==
    ASSUME WorkflowInv, NEW w \in Workflows, RunIsAsLeft(w), active[w].pc = "final",
           NEW passed \in BOOLEAN, NEW e \in FinalEnds(w, passed)
    PROVE  ValidEnd(w, e, passed)
  <1> DEFINE r == runs[w]
             status == IF passed THEN "completed" ELSE "interrupted"
             q == [r EXCEPT !.status = status]
  <1>1. Sound(r) /\ Shape(w, r) /\ Current(active[w]) = 0
    BY Typed DEF Current, RunIsAsLeft
  <1>2. ~active[w].cancelled => r.status = "running" /\ AllDone(r)
    BY DEF RunIsAsLeft, Position
  <1>3. CASE active[w].cancelled
    <2>1. e = Over(r)
      BY <1>3 DEF FinalEnds
    <2>. QED  BY <1>1, <1>3, <2>1, OverIs DEF ValidEnd, Current
  <1>4. CASE ~active[w].cancelled /\ e \in Unsaved(r, FALSE)
    <2>1. e.run = r /\ e.pc = "thrown" /\ e.faulty
      BY <1>4, UnsavedIs
    <2>. QED  BY <1>1, <1>2, <1>4, <2>1 DEF ValidEnd, Waits
  <1>5. CASE ~active[w].cancelled /\ e = Over(q)
    <2>1. /\ status \in RunStatuses /\ status \in {"completed", "interrupted"}
          /\ status = "completed" => passed
      BY DEF RunStatuses
    <2> HIDE DEF status
    <2>2. q.status = status /\ q.stages = r.stages /\ SameUse(r, q)
      BY <1>1, <2>1, StatusIs
    <2> HIDE DEF q
    <2>3. Shape(w, q)
      BY <1>1, <1>2, <1>5, <2>1, <2>2 DEF Shape, AllDone, Waiting
    <2>4. Counted(w, r, 0) => Counted(w, q, 0)
      BY <2>2, UseIsCounted
    <2>5. e.run = q /\ e.pc = "ended" /\ ~e.persistenceFailed /\ Current(e) = 0
      BY <1>5, OverIs DEF Current
    <2>. QED  BY <1>1, <1>5, <2>1, <2>2, <2>3, <2>4, <2>5 DEF ValidEnd, Waits
  <1>. QED  BY <1>3, <1>4, <1>5 DEF FinalEnds

\* The catch of launch.
LEMMA CaughtEndIsValid ==
    ASSUME WorkflowInv, NEW w \in Workflows, RunIsAsLeft(w), active[w].pc = "thrown",
           NEW e \in CaughtEnds(w)
    PROVE  ValidEnd(w, e, FALSE)
  <1> DEFINE r == runs[w]
  <1>1. Sound(r) /\ Shape(w, r) /\ Current(active[w]) = 0
    BY Typed DEF Current, RunIsAsLeft
  <1>2. ~active[w].cancelled => r.status = "running"
    BY DEF RunIsAsLeft, Position
  <1>3. CASE active[w].cancelled
    <2>1. e = Over(r)
      BY <1>3 DEF CaughtEnds
    <2>. QED  BY <1>1, <1>3, <2>1, OverIs DEF ValidEnd, Current
  <1>4. CASE ~active[w].cancelled /\ e = Over(Interrupted(r))
    <2> DEFINE q == Interrupted(r)
    <2>1. Shape(w, q) /\ SameUse(r, q) /\ q.status = "interrupted"
      BY <1>1, <1>2, <1>4, StoppedIsShaped, StoppedIsSound
    <2>2. Counted(w, r, 0) => Counted(w, q, 0)
      BY <2>1, UseIsCounted
    <2>3. e.run = q /\ e.pc = "ended" /\ ~e.persistenceFailed /\ Current(e) = 0
      BY <1>4, OverIs DEF Current
    <2> HIDE DEF q
    <2>. QED  BY <1>1, <1>4, <2>1, <2>2, <2>3 DEF ValidEnd, Waits
  <1>5. ASSUME ~active[w].cancelled, NEW f \in Unsaved(r, TRUE), e = [f EXCEPT !.pc = "ended"]
        PROVE  ValidEnd(w, e, FALSE)
    <2>1. f = [Thrown(r) EXCEPT !.faulty = TRUE, !.persistenceFailed = TRUE]
      BY DEF Unsaved
    <2>2. e.run = r /\ e.pc = "ended" /\ e.faulty
      BY <1>5, <2>1 DEF Thrown, End
    <2>. QED  BY <1>1, <1>2, <1>5, <2>2 DEF ValidEnd, Waits
  <1>. QED  BY <1>3, <1>4, <1>5 DEF CaughtEnds

-----------------------------------------------------------------------------
(* Steps keep what the storage accepts.                                    *)

\* There is room for the runs that are stored.
RoomIsKept ==
    /\ IsFiniteSet({w \in Workflows : Stored(w)})
    /\ Cardinality({w \in Workflows : Stored(w)}) <= MaxRuns

\* Without a failed save, sessions are owned by executions, and without a restart
\* usage is counted.
Tidy ==
    /\ \A s \in Sessions : owners[s] # NoOne => SessionOf[owners[s]] = s
    /\ ~faulty => /\ \A w \in Workflows : ~active[w].persistenceFailed
                  /\ \A s \in Sessions : owners[s] # NoOne => active[owners[s]].pc # "none"
    /\ ~faulty /\ crashes = 0 => \A w \in Workflows : Counted(w, runs[w], Current(active[w]))

\* All but the number of runs.
RunsAreKept == (\A w \in Workflows : RunIsAsLeft(w)) /\ QualityInspected /\ Tidy

\* The second inductive invariant, which relies on the first.
StoreInv == RoomIsKept /\ RunsAreKept

\* Only create stores another run.
LEMMA RoomStays ==
    ASSUME RoomIsKept, \A w \in Workflows : Stored(w)' => Stored(w)
    PROVE  RoomIsKept'
  <1> DEFINE S == {w \in Workflows : Stored(w)}
             T == {w \in Workflows : Stored(w)'}
  <1>1. IsFiniteSet(S) /\ Cardinality(S) <= MaxRuns
    BY DEF RoomIsKept
  <1>2. T \in SUBSET S
    OBVIOUS
  <1>3. IsFiniteSet(T) /\ Cardinality(T) <= Cardinality(S)
    BY <1>1, <1>2, FS_Subset
  <1>4. Cardinality(T) \in Int /\ Cardinality(S) \in Int /\ MaxRuns \in Int
    BY <1>1, <1>3, FS_CardinalityType, WorkflowAssumption
  <1>5. Cardinality(T) <= MaxRuns
    BY <1>1, <1>3, <1>4
  <1>. QED  BY <1>3, <1>5 DEF RoomIsKept

\* A run that is created takes room that was left.
LEMMA RoomIsLeft ==
    ASSUME RoomIsKept, NEW w \in Workflows, Cardinality({v \in Workflows : Stored(v)}) < MaxRuns,
           \A v \in Workflows \ {w} : Stored(v)' => Stored(v)
    PROVE  RoomIsKept'
  <1> DEFINE S == {v \in Workflows : Stored(v)}
             T == {v \in Workflows : Stored(v)'}
             U == S \cup {w}
  <1>1. IsFiniteSet(S) /\ Cardinality(S) < MaxRuns
    BY DEF RoomIsKept
  <1>2. T \in SUBSET U
    OBVIOUS
  <1> HIDE DEF S, T
  <1>3. IsFiniteSet(U) /\ Cardinality(U) <= Cardinality(S) + 1
    <2>1. IsFiniteSet(U) /\ Cardinality(U) = IF w \in S THEN Cardinality(S) ELSE Cardinality(S) + 1
      BY <1>1, FS_AddElement
    <2>2. Cardinality(S) \in Nat
      BY <1>1, FS_CardinalityType
    <2>. QED  BY <2>1, <2>2
  <1> HIDE DEF U
  <1>4. IsFiniteSet(T) /\ Cardinality(T) <= Cardinality(U)
    BY <1>2, <1>3, FS_Subset
  <1>5. Cardinality(T) \in Nat /\ Cardinality(U) \in Nat /\ Cardinality(S) \in Nat /\ MaxRuns \in Nat
    BY <1>1, <1>3, <1>4, FS_CardinalityType, WorkflowAssumption
  <1>6. Cardinality(T) <= MaxRuns
    BY <1>1, <1>3, <1>4, <1>5
  <1>. QED  BY <1>4, <1>6 DEF RoomIsKept, T

\* A step of one run and its execution.
LEMMA OneIsKept ==
    ASSUME WorkflowInv, RunsAreKept, NEW w \in Workflows, NEW q, NEW t,
           runs' = [runs EXCEPT ![w] = q], active' = [active EXCEPT ![w] = t],
           Shape(w, q), Position(w, q, t),
           w \in Quality /\ q.status = "completed" => w \in inspected',
           \A v \in Workflows \ {w} : v \in inspected => v \in inspected',
           faulty => faulty', t.persistenceFailed => faulty', crashes' = crashes,
           ~faulty' /\ Counted(w, runs[w], Current(active[w])) => Counted(w, q, Current(t)),
           \A s \in Sessions : owners'[s] # NoOne =>
               owners'[s] \in {owners[s], w} /\ SessionOf[owners'[s]] = s,
           ~faulty' => \A s \in Sessions : owners'[s] = w => t.pc # "none"
    PROVE  RunsAreKept'
  <1>1. runs'[w] = q /\ active'[w] = t
    BY Typed
  <1>2. \A v \in Workflows \ {w} : runs'[v] = runs[v] /\ active'[v] = active[v]
    BY Typed
  <1>3. \A v \in Workflows : RunIsAsLeft(v)'
    BY <1>1, <1>2 DEF RunsAreKept, RunIsAsLeft
  <1>4. QualityInspected'
    BY <1>1, <1>2, WorkflowAssumption DEF RunsAreKept, QualityInspected
  <1>5. Tidy'
    <2>1. \A s \in Sessions : owners'[s] # NoOne => SessionOf[owners'[s]] = s
      OBVIOUS
    <2>2. ASSUME ~faulty', NEW v \in Workflows PROVE ~active'[v].persistenceFailed
      BY <1>1, <1>2, <2>2 DEF RunsAreKept, Tidy
    <2>3. ASSUME ~faulty', NEW s \in Sessions, owners'[s] # NoOne PROVE active'[owners'[s]].pc # "none"
      <3>1. CASE owners'[s] = w
        BY <1>1, <2>3, <3>1
      <3>2. CASE owners'[s] # w
        <4>1. owners'[s] = owners[s] /\ owners[s] # NoOne
          BY <2>3, <3>2
        <4>2. owners[s] \in Workflows
          BY <4>1, Typed
        <4>3. active[owners[s]].pc # "none"
          BY <2>3, <4>1 DEF RunsAreKept, Tidy
        <4>. QED  BY <1>2, <3>2, <4>1, <4>2, <4>3
      <3>. QED  BY <3>1, <3>2
    <2>4. ASSUME ~faulty', crashes' = 0, NEW v \in Workflows
          PROVE  Counted(v, runs'[v], Current(active'[v]))
      <3>1. Counted(v, runs[v], Current(active[v]))
        BY <2>4 DEF RunsAreKept, Tidy
      <3>. QED  BY <1>1, <1>2, <2>4, <3>1
    <2>. QED  BY <2>1, <2>2, <2>3, <2>4 DEF Tidy
  <1>. QED  BY <1>3, <1>4, <1>5 DEF RunsAreKept

\* A continuation of an execution.
LEMMA GoesIsKept ==
    ASSUME WorkflowInv, StoreInv, NEW w \in Workflows,
           NEW pc \in {"loop", "stage", "check", "final", "thrown"}, NEW passed \in BOOLEAN,
           NEW ends, Goes(w, pc, ends), \A e \in ends : ValidEnd(w, e, passed),
           Inspect(w, passed) \/ (UNCHANGED inspected /\ ~passed)
    PROVE  StoreInv'
  <1> PICK e \in ends :
        /\ runs' = [runs EXCEPT ![w] = e.run]
        /\ active' = [active EXCEPT ![w] = [active[w] EXCEPT
               !.pc = e.pc, !.stage = e.stage, !.receipt = e.receipt,
               !.persistenceFailed = active[w].persistenceFailed \/ e.persistenceFailed]]
        /\ faulty' = (faulty \/ e.faulty)
    BY Zenon DEF Goes
  <1> DEFINE t == [active[w] EXCEPT !.pc = e.pc, !.stage = e.stage, !.receipt = e.receipt,
                       !.persistenceFailed = active[w].persistenceFailed \/ e.persistenceFailed]
  <1>1. /\ active[w].pc = pc /\ UNCHANGED <<owners, sweeps, verifying, closed, crashes>>
        /\ ValidEnd(w, e, passed) /\ active[w] \in Token
    BY Typed DEF Goes
  <1>2. /\ t.pc = e.pc /\ t.stage = e.stage /\ t.receipt = e.receipt /\ t.cancelled = active[w].cancelled
        /\ t.persistenceFailed <=> (active[w].persistenceFailed \/ e.persistenceFailed)
    BY <1>1 DEF Token
  <1>3. active' = [active EXCEPT ![w] = t]
    OBVIOUS
  <1> HIDE DEF t
  <1>4. active'[w] = t /\ runs'[w] = e.run
    BY <1>3, Typed
  <1>5. Position(w, e.run, t)
    BY <1>1, <1>2 DEF ValidEnd, Waits, Position
  <1>6. Current(t) = Current(e)
    BY <1>2 DEF Current
  <1>7. ASSUME w \in Quality, e.run.status = "completed" PROVE w \in inspected'
    <2>1. e.pc # "stage"
      BY <1>1, <1>7 DEF ValidEnd, Waits
    <2>2. w \in inspected \/ passed
      BY <1>1, <1>7 DEF ValidEnd, StoreInv, RunsAreKept, QualityInspected
    <2>. QED  BY <1>2, <1>4, <1>7, <2>1, <2>2 DEF Inspect
  <1>8. \A v \in Workflows \ {w} : v \in inspected => v \in inspected'
    BY DEF Inspect
  <1>9. t.persistenceFailed => faulty'
    BY <1>1, <1>2 DEF ValidEnd, StoreInv, RunsAreKept, Tidy
  <1>10. \A s \in Sessions : owners'[s] # NoOne => owners'[s] \in {owners[s], w} /\ SessionOf[owners'[s]] = s
    BY <1>1 DEF StoreInv, RunsAreKept, Tidy
  <1>11. t.pc # "none"
    BY <1>1, <1>2 DEF ValidEnd
  <1>12. ~faulty' /\ Counted(w, runs[w], Current(active[w])) => Counted(w, e.run, Current(t))
    BY <1>1, <1>6 DEF ValidEnd
  <1>13. RunsAreKept'
    <2>1. /\ RunsAreKept /\ runs' = [runs EXCEPT ![w] = e.run] /\ Shape(w, e.run)
          /\ (faulty => faulty') /\ crashes' = crashes
      BY <1>1 DEF ValidEnd, StoreInv
    <2> DEFINE q == e.run
    <2>2. /\ WorkflowInv /\ Position(w, q, t) /\ active' = [active EXCEPT ![w] = t]
          /\ w \in Quality /\ q.status = "completed" => w \in inspected'
          /\ ~faulty' => \A s \in Sessions : owners'[s] = w => t.pc # "none"
      BY <1>3, <1>5, <1>7, <1>11
    <2>3. /\ ~faulty' /\ Counted(w, runs[w], Current(active[w])) => Counted(w, q, Current(t))
          /\ RunsAreKept /\ runs' = [runs EXCEPT ![w] = q] /\ Shape(w, q)
          /\ (faulty => faulty') /\ crashes' = crashes
      BY <1>12, <2>1
    <2> HIDE DEF q
    <2>. QED  BY ONLY w \in Workflows, <1>8, <1>9, <1>10, <2>2, <2>3, OneIsKept, Zenon
  <1>14. \A v \in Workflows : Stored(v)' => Stored(v)
    <2>1. Stored(w)
      BY <1>1 DEF WorkflowInv, Steady
    <2>2. \A v \in Workflows \ {w} : runs'[v] = runs[v]
      BY Typed
    <2>. QED  BY <2>1, <2>2 DEF Stored
  <1>. QED  BY <1>13, <1>14, RoomStays DEF StoreInv

\* The continuations of an execution, up to its end.
LEMMA ExecutionIsKept ==
    ASSUME WorkflowInv, StoreInv, NEW w \in Workflows, Execution(w), ~Ends(w)
    PROVE  StoreInv'
  <1>0. RunIsAsLeft(w)
    BY DEF StoreInv, RunsAreKept
  <1>1. CASE Launched(w)
    <2> DEFINE ends == IF active[w].cancelled THEN {Over(runs[w])} ELSE NextStage(w, runs[w])
    <2>1. Goes(w, "loop", ends) /\ Inspect(w, FALSE)
      BY <1>1 DEF Launched
    <2>2. active[w].pc = "loop"
      BY <2>1 DEF Goes
    <2>3. \A e \in ends : ValidEnd(w, e, FALSE)
      BY <1>0, <2>2, LaunchedIsValid
    <2> HIDE DEF ends
    <2>. QED  BY <2>1, <2>3, GoesIsKept
  <1>2. CASE StageReturns(w)
    <2>1. PICK ok \in BOOLEAN, receipt \in {"none", "valid", "foreign"} :
              Goes(w, "stage", StageEnds(w, ok, receipt))
      BY <1>2 DEF StageReturns
    <2>2. Inspect(w, FALSE) /\ active[w].pc = "stage"
      BY <1>2, <2>1 DEF StageReturns, Goes
    <2>. QED  BY <1>0, <2>1, <2>2, StageEndIsValid, GoesIsKept
  <1>3. CASE Checked(w)
    <2>1. PICK passed \in BOOLEAN : Goes(w, "check", CheckEnds(w, passed)) /\ Inspect(w, passed)
      BY <1>3 DEF Checked, Verdicts
    <2>2. active[w].pc = "check"
      BY <2>1 DEF Goes
    <2>. QED  BY <1>0, <2>1, <2>2, CheckEndIsValid, GoesIsKept
  <1>4. CASE Finalized(w)
    <2>1. PICK passed \in BOOLEAN : Goes(w, "final", FinalEnds(w, passed)) /\ Inspect(w, passed)
      BY <1>4 DEF Finalized, Verdicts
    <2>2. active[w].pc = "final"
      BY <2>1 DEF Goes
    <2>. QED  BY <1>0, <2>1, <2>2, FinalEndIsValid, GoesIsKept
  <1>5. CASE Caught(w)
    <2>1. Goes(w, "thrown", CaughtEnds(w)) /\ UNCHANGED inspected /\ active[w].pc = "thrown"
      BY <1>5, Zenon DEF Caught, Goes
    <2>. QED  BY <1>0, <2>1, CaughtEndIsValid, GoesIsKept
  <1>. QED  BY <1>1, <1>2, <1>3, <1>4, <1>5 DEF Execution

\* The finally of launch gives the session back unless a save failed.
LEMMA EndsIsKept ==
    ASSUME WorkflowInv, StoreInv, NEW w \in Workflows, Ends(w)
    PROVE  StoreInv'
  <1>1. /\ active' = [active EXCEPT ![w] = NoToken] /\ runs' = runs /\ active[w].pc = "ended"
        /\ owners' = [owners EXCEPT ![SessionOf[w]] =
               IF @ = w /\ ~active[w].persistenceFailed THEN NoOne ELSE @]
        /\ crashes' = crashes /\ (faulty' <=> faulty) /\ inspected' = inspected
    BY DEF Ends
  <1>2. runs' = [runs EXCEPT ![w] = runs[w]]
    BY <1>1, Typed
  <1>3. /\ Shape(w, runs[w]) /\ (w \in Quality /\ runs[w].status = "completed" => w \in inspected)
        /\ Tidy /\ RunsAreKept
    BY DEF StoreInv, RunsAreKept, RunIsAsLeft, QualityInspected
  <1>4. /\ NoToken.pc = "none" /\ ~NoToken.persistenceFailed /\ Current(NoToken) = 0
        /\ Current(active[w]) = 0 /\ Position(w, runs[w], NoToken)
    BY <1>1 DEF NoToken, Current, Position
  <1>5. \A s \in Sessions : owners'[s] # NoOne => owners'[s] \in {owners[s], w} /\ SessionOf[owners'[s]] = s
    BY <1>1, <1>3, Typed DEF Tidy
  <1>6. ASSUME ~faulty', NEW s \in Sessions PROVE owners'[s] # w
    <2>1. ~active[w].persistenceFailed
      BY <1>1, <1>3, <1>6 DEF Tidy
    <2>2. CASE s = SessionOf[w]
      BY <1>1, <2>1, <2>2, Typed
    <2>3. CASE s # SessionOf[w]
      <3>1. owners'[s] = owners[s]
        BY <1>1, <2>3, Typed
      <3>2. w # NoOne
        BY Typed
      <3>. QED  BY <1>3, <2>3, <3>1, <3>2 DEF Tidy
    <2>. QED  BY <2>2, <2>3
  <1>7. RunsAreKept'
    BY <1>1, <1>2, <1>3, <1>4, <1>5, <1>6, OneIsKept
  <1>. QED  BY <1>1, <1>7, RoomStays DEF StoreInv, Stored

\* A launch takes a free session for a run in which nothing runs or waits.
LEMMA LaunchIsKept ==
    ASSUME WorkflowInv, StoreInv, NEW w \in Workflows, launch(w)
    PROVE  StoreInv'
  <1> DEFINE reset == CASE runs[w].status = "draft" -> runs[w]
                        [] runs[w].status = "failed" -> SetStages(runs[w], "failed", "pending")
                        [] OTHER -> SetStages(runs[w], "interrupted", "pending")
             q == [reset EXCEPT !.status = "running"]
             t == [NoToken EXCEPT !.pc = "loop"]
  <1>1. /\ runs' = [runs EXCEPT ![w] = q] /\ active' = [active EXCEPT ![w] = t]
        /\ owners' = [owners EXCEPT ![SessionOf[w]] = w]
        /\ crashes' = crashes /\ (faulty' <=> faulty) /\ inspected' = inspected
    BY DEF launch
  <1>2. /\ runs[w].status \in {"draft", "paused", "interrupted", "failed"}
        /\ active[w].pc = "none" /\ Sound(runs[w])
    BY Typed DEF launch, Startable, Free
  <1>3. Shape(w, runs[w]) /\ Tidy /\ RunsAreKept
    BY DEF StoreInv, RunsAreKept, RunIsAsLeft
  <1>4. Shape(w, q) /\ SameUse(runs[w], q) /\ \A s \in Stages : q.stages[s].status # "running"
    BY <1>2, <1>3, ResetIsShaped
  <1>5. q.status = "running"
    <2>1. "pending" \in StageStatuses /\ "running" \in RunStatuses
      BY DEF StageStatuses, RunStatuses
    <2>2. Sound(reset)
      BY <1>2, <2>1, SetStagesIs
    <2> HIDE DEF reset
    <2>. QED  BY <2>1, <2>2, StatusIs
  <1> HIDE DEF q
  <1>6. /\ t.pc = "loop" /\ ~t.persistenceFailed /\ Current(t) = 0 /\ Current(active[w]) = 0
    BY <1>2 DEF NoToken, Current
  <1> HIDE DEF t
  <1>7. Position(w, q, t)
    BY <1>4, <1>5, <1>6 DEF Position
  <1>8. Counted(w, runs[w], Current(active[w])) => Counted(w, q, Current(t))
    BY <1>4, <1>6, UseIsCounted
  <1>9. \A s \in Sessions : owners'[s] # NoOne => owners'[s] \in {owners[s], w} /\ SessionOf[owners'[s]] = s
    BY <1>1, <1>3, Typed DEF Tidy
  <1>10. RunsAreKept'
    <2>1. ~(w \in Quality /\ q.status = "completed") /\ t.pc # "none"
      BY <1>5, <1>6
    <2>. QED  BY <1>1, <1>3, <1>4, <1>6, <1>7, <1>8, <1>9, <2>1, OneIsKept
  <1>11. \A v \in Workflows : Stored(v)' => Stored(v)
    BY <1>1, <1>2, Typed DEF Stored
  <1>. QED  BY <1>10, <1>11, RoomStays DEF StoreInv

\* A cancel of a run in progress.
LEMMA CancelActiveIsKept ==
    ASSUME WorkflowInv, StoreInv, NEW w \in Workflows, CancelActive(w)
    PROVE  StoreInv'
  <1> PICK saved \in BOOLEAN :
        /\ runs' = IF saved THEN [runs EXCEPT ![w] = Cancelled(runs[w])] ELSE runs
        /\ active' = [active EXCEPT ![w] = [active[w] EXCEPT
               !.cancelled = TRUE, !.stopping = TRUE, !.persistenceFailed = ~saved]]
        /\ faulty' = (faulty \/ ~saved)
    BY Zenon DEF CancelActive
  <1> DEFINE t == [active[w] EXCEPT !.cancelled = TRUE, !.stopping = TRUE, !.persistenceFailed = ~saved]
             q == IF saved THEN Cancelled(runs[w]) ELSE runs[w]
  <1>1. /\ active[w].pc # "none" /\ runs[w].status # "completed"
        /\ owners' = owners /\ crashes' = crashes /\ inspected' = inspected
    BY DEF CancelActive
  <1>2. Sound(runs[w]) /\ Shape(w, runs[w]) /\ Tidy /\ RunsAreKept /\ Stored(w)
    BY <1>1, Typed DEF StoreInv, RunsAreKept, RunIsAsLeft, WorkflowInv, Steady
  <1>3. /\ t.pc = active[w].pc /\ t.stage = active[w].stage /\ t.receipt = active[w].receipt
        /\ t.cancelled /\ t.persistenceFailed = ~saved
    BY Typed DEF Token
  <1>4. active' = [active EXCEPT ![w] = t]
    OBVIOUS
  <1> HIDE DEF t
  <1>5. runs' = [runs EXCEPT ![w] = q]
    BY Typed
  <1>6. /\ Shape(w, q) /\ SameUse(runs[w], q) /\ q.status # "completed"
        /\ q.status \in {"cancelled", runs[w].status}
    BY <1>1, <1>2, StoppedIsShaped, StoppedIsSound DEF SameUse
  <1> HIDE DEF q
  <1>7. Position(w, q, t) /\ Current(t) = Current(active[w])
    BY <1>2, <1>3 DEF Position, Current, RunsAreKept, RunIsAsLeft
  <1>8. Counted(w, runs[w], Current(active[w])) => Counted(w, q, Current(t))
    BY <1>6, <1>7, UseIsCounted
  <1>9. \A s \in Sessions : owners'[s] # NoOne => owners'[s] \in {owners[s], w} /\ SessionOf[owners'[s]] = s
    BY <1>1, <1>2 DEF Tidy
  <1>10. (faulty => faulty') /\ (t.persistenceFailed => faulty') /\ t.pc # "none"
    BY <1>1, <1>3
  <1>11. RunsAreKept'
    BY <1>1, <1>2, <1>4, <1>5, <1>6, <1>7, <1>8, <1>9, <1>10, OneIsKept
  <1>12. \A v \in Workflows : Stored(v)' => Stored(v)
    BY <1>2, <1>5, Typed DEF Stored
  <1>. QED  BY <1>11, <1>12, RoomStays DEF StoreInv

\* cancelSession returns.
LEMMA StopReturnsIsKept ==
    ASSUME WorkflowInv, StoreInv, NEW w \in Workflows, StopReturns(w)
    PROVE  StoreInv'
  <1> PICK saved \in BOOLEAN :
        /\ active' = [active EXCEPT ![w] = [active[w] EXCEPT
               !.stopping = FALSE, !.persistenceFailed = active[w].persistenceFailed \/ ~saved]]
        /\ faulty' = (faulty \/ ~saved)
    BY Zenon DEF StopReturns
  <1> DEFINE t == [active[w] EXCEPT !.stopping = FALSE,
                       !.persistenceFailed = active[w].persistenceFailed \/ ~saved]
  <1>1. runs' = runs /\ owners' = owners /\ crashes' = crashes /\ inspected' = inspected
    BY DEF StopReturns
  <1>2. Tidy /\ RunsAreKept /\ RunIsAsLeft(w) /\ (w \in Quality /\ runs[w].status = "completed" => w \in inspected)
    BY DEF StoreInv, RunsAreKept, QualityInspected
  <1>3. /\ t.pc = active[w].pc /\ t.stage = active[w].stage /\ t.receipt = active[w].receipt
        /\ t.cancelled = active[w].cancelled
        /\ t.persistenceFailed <=> (active[w].persistenceFailed \/ ~saved)
    BY Typed DEF Token
  <1>4. active' = [active EXCEPT ![w] = t]
    OBVIOUS
  <1> HIDE DEF t
  <1>5. runs' = [runs EXCEPT ![w] = runs[w]]
    BY <1>1, Typed
  <1>6. Shape(w, runs[w]) /\ Position(w, runs[w], t) /\ Current(t) = Current(active[w])
    BY <1>2, <1>3 DEF Position, Current, RunIsAsLeft
  <1>7. \A s \in Sessions : owners'[s] # NoOne => owners'[s] \in {owners[s], w} /\ SessionOf[owners'[s]] = s
    BY <1>1, <1>2 DEF Tidy
  <1>8. (faulty => faulty') /\ (t.persistenceFailed => faulty')
    BY <1>2, <1>3 DEF Tidy
  <1>9. ASSUME ~faulty', NEW s \in Sessions, owners'[s] = w PROVE t.pc # "none"
    <2>1. w # NoOne
      BY Typed
    <2>. QED  BY <1>1, <1>2, <1>3, <1>8, <1>9, <2>1 DEF Tidy
  <1>10. RunsAreKept'
    BY <1>1, <1>2, <1>4, <1>5, <1>6, <1>7, <1>8, <1>9, OneIsKept
  <1>. QED  BY <1>1, <1>10, RoomStays DEF StoreInv, Stored

\* A call that changes a run at rest, and may give back the session it kept.
LEMMA RestIsKept ==
    ASSUME WorkflowInv, RunsAreKept, NEW w \in Workflows, active[w].pc = "none",
           NEW q, Shape(w, q), Counted(w, runs[w], 0) => Counted(w, q, 0),
           w \in Quality /\ q.status = "completed" => w \in inspected,
           runs' = [runs EXCEPT ![w] = q],
           owners' \in {owners, [owners EXCEPT ![SessionOf[w]] = IF @ = w THEN NoOne ELSE @]},
           UNCHANGED <<active, crashes, faulty, inspected>>
    PROVE  RunsAreKept'
  <1> DEFINE t == active[w]
  <1>1. active' = [active EXCEPT ![w] = t] /\ (faulty' <=> faulty) /\ crashes' = crashes
    BY Typed
  <1>2. /\ Position(w, q, t) /\ Current(t) = 0 /\ Tidy
        /\ RunIsAsLeft(w)
    BY DEF Position, Current, RunsAreKept
  <1>3. \A s \in Sessions : owners'[s] \in {owners[s], NoOne}
    BY Typed
  <1>4. \A s \in Sessions : owners'[s] # NoOne => owners'[s] \in {owners[s], w} /\ SessionOf[owners'[s]] = s
    BY <1>2, <1>3 DEF Tidy
  <1>5. ASSUME ~faulty', NEW s \in Sessions PROVE owners'[s] # w
    <2>1. w # NoOne
      BY Typed
    <2>. QED  BY <1>1, <1>2, <1>3, <1>5, <2>1 DEF Tidy
  <1>6. t.persistenceFailed => faulty'
    BY <1>1, <1>2 DEF Tidy
  <1>. QED  BY <1>1, <1>2, <1>4, <1>5, <1>6, OneIsKept

\* A run that is new or removed has nothing that could be wrong.
LEMMA FreshIsShaped ==
    ASSUME NEW w
    PROVE  /\ Shape(w, Draft) /\ Draft.status = "draft" /\ Shape(w, Removed) /\ Removed.status = "removed"
           /\ Shape(w, Absent) /\ Absent.status = "absent"
           /\ \A c : Counted(w, Draft, c) /\ Counted(w, Removed, c) /\ Counted(w, Absent, c)
  <1> DEFINE stages == [s \in Stages |-> [status |-> "pending", attempts |-> 0, receipts |-> {}]]
  <1>1. /\ Absent.stages = stages /\ Draft.stages = stages /\ Removed.stages = stages
        /\ Absent.status = "absent" /\ Draft.status = "draft" /\ Removed.status = "removed"
    BY DEF Absent, Draft, Removed
  <1>2. \A s \in Stages : stages[s].status = "pending" /\ stages[s].attempts = 0
    OBVIOUS
  <1> HIDE DEF stages
  <1>3. \A r : r.stages = stages /\ r.status \in {"absent", "draft", "removed"} => Shape(w, r)
    BY <1>2 DEF Shape, Waiting
  <1>4. \A r, c : r.stages = stages => Counted(w, r, c)
    BY <1>2 DEF Counted
  <1>. QED  BY <1>1, <1>3, <1>4

\* A gate that is passed.
LEMMA PassIsKept ==
    ASSUME WorkflowInv, StoreInv, NEW w \in Workflows, NEW s \in Stages, active[w].pc = "none",
           runs[w].status \in Waiting, runs[w].stages[s].status = runs[w].status,
           runs' = [runs EXCEPT ![w] = completeGatedStage(w, runs[w], s)],
           UNCHANGED <<active, owners, crashes, faulty, inspected>>
    PROVE  StoreInv'
  <1> DEFINE q == completeGatedStage(w, runs[w], s)
  <1>1. Sound(runs[w]) /\ Shape(w, runs[w]) /\ RunsAreKept /\ RoomIsKept
    BY Typed DEF StoreInv, RunsAreKept, RunIsAsLeft
  <1>2. Shape(w, q) /\ SameUse(runs[w], q) /\ (q.status = "completed" => w \notin Quality)
    BY <1>1, GatedIsShaped
  <1>3. runs' = [runs EXCEPT ![w] = q]
    OBVIOUS
  <1> HIDE DEF q
  <1>4. Counted(w, runs[w], 0) => Counted(w, q, 0)
    BY <1>2, UseIsCounted
  <1>5. RunsAreKept'
    BY <1>1, <1>2, <1>3, <1>4, RestIsKept
  <1>6. Stored(w)
    BY DEF Stored, Waiting
  <1>7. \A v \in Workflows : Stored(v)' => Stored(v)
    BY <1>3, <1>6, Typed DEF Stored
  <1>. QED  BY <1>1, <1>5, <1>7, RoomStays DEF StoreInv

\* Steps that change no run, execution or owner.
LEMMA NothingIsChanged ==
    ASSUME StoreInv, UNCHANGED <<runs, active, owners, crashes, faulty, inspected>>
    PROVE  StoreInv'
  <1>1. RunsAreKept'
    BY DEF StoreInv, RunsAreKept, RunIsAsLeft, QualityInspected, Tidy
  <1>. QED  BY <1>1, RoomStays DEF StoreInv, Stored

\* The calls of the user that change a run at rest.
LEMMA CallIsKept ==
    ASSUME WorkflowInv, StoreInv, NEW w \in Workflows,
           \/ create(w) \/ CancelIdle(w) \/ remove(w)
           \/ \E s \in Stages : confirmStage(w, s) \/ verifyStage(w, s)
           \/ \E s \in Stages, a \in 1 .. MaxAttempts[w] : Verified(w, s, a)
    PROVE  StoreInv'
  <1>0. /\ Sound(runs[w]) /\ Shape(w, runs[w]) /\ RunsAreKept /\ RoomIsKept
        /\ runs \in [Workflows -> Run]
    BY Typed DEF StoreInv, RunsAreKept, RunIsAsLeft
  <1>1. CASE create(w)
    <2>1. /\ runs[w].status = "absent" /\ runs' = [runs EXCEPT ![w] = Draft]
          /\ Cardinality({v \in Workflows : Stored(v)}) < MaxRuns
          /\ UNCHANGED <<active, owners, sweeps, verifying, closed, crashes, faulty, inspected>>
      BY <1>1 DEF create
    <2>2. active[w].pc = "none"
      BY <2>1 DEF WorkflowInv, Steady, Stored
    <2>3. RunsAreKept'
      BY <1>0, <2>1, <2>2, FreshIsShaped, RestIsKept
    <2>4. \A v \in Workflows \ {w} : Stored(v)' => Stored(v)
      BY <1>0, <2>1 DEF Stored
    <2>. QED  BY <1>0, <2>1, <2>3, <2>4, RoomIsLeft DEF StoreInv
  <1>2. CASE CancelIdle(w)
    <2>1. /\ active[w].pc = "none" /\ Stored(w) /\ runs' = [runs EXCEPT ![w] = Cancelled(runs[w])]
          /\ owners' = [owners EXCEPT ![SessionOf[w]] = IF @ = w THEN NoOne ELSE @]
          /\ UNCHANGED <<active, sweeps, verifying, closed, crashes, faulty, inspected>>
      BY <1>2 DEF CancelIdle
    <2> DEFINE q == Cancelled(runs[w])
    <2>2. Shape(w, q) /\ SameUse(runs[w], q) /\ q.status = "cancelled"
      BY <1>0, StoppedIsShaped, StoppedIsSound
    <2> HIDE DEF q
    <2>3. Counted(w, runs[w], 0) => Counted(w, q, 0)
      BY <2>2, UseIsCounted
    <2>4. runs' = [runs EXCEPT ![w] = q]
      BY <2>1 DEF q
    <2>5. RunsAreKept'
      BY <1>0, <2>1, <2>2, <2>3, <2>4, RestIsKept
    <2>6. \A v \in Workflows : Stored(v)' => Stored(v)
      BY <1>0, <2>1, <2>4 DEF Stored
    <2>. QED  BY <1>0, <2>5, <2>6, RoomStays DEF StoreInv
  <1>3. CASE remove(w)
    <2>1. /\ active[w].pc = "none" /\ Stored(w) /\ runs' = [runs EXCEPT ![w] = Removed]
          /\ UNCHANGED <<active, owners, sweeps, verifying, closed, crashes, faulty, inspected>>
      BY <1>3 DEF remove, inactive
    <2>2. RunsAreKept'
      BY <1>0, <2>1, FreshIsShaped, RestIsKept
    <2>3. \A v \in Workflows : Stored(v)' => Stored(v)
      BY <1>0, <2>1 DEF Stored
    <2>. QED  BY <1>0, <2>2, <2>3, RoomStays DEF StoreInv
  <1>4. ASSUME NEW s \in Stages, confirmStage(w, s) PROVE StoreInv'
    <2>1. /\ active[w].pc = "none" /\ runs[w].status \in Waiting
          /\ runs[w].stages[s].status = runs[w].status
          /\ runs' = [runs EXCEPT ![w] = completeGatedStage(w, runs[w], s)]
          /\ UNCHANGED <<active, owners, sweeps, verifying, closed, crashes, faulty, inspected>>
      BY <1>4 DEF confirmStage, gatedStage, Waiting
    <2>. QED  BY <2>1, PassIsKept
  <1>5. ASSUME NEW s \in Stages, verifyStage(w, s) PROVE StoreInv'
    BY <1>5, NothingIsChanged DEF verifyStage
  <1>6. ASSUME NEW s \in Stages, NEW a \in 1 .. MaxAttempts[w], Verified(w, s, a) PROVE StoreInv'
    <2>1. UNCHANGED <<active, owners, sweeps, closed, crashes, faulty, inspected>>
      BY <1>6 DEF Verified
    <2>2. CASE /\ gatedStage(w, s, "waiting_verification", a)
               /\ runs' = [runs EXCEPT ![w] = completeGatedStage(w, runs[w], s)]
      <3>1. /\ active[w].pc = "none" /\ runs[w].status \in Waiting
            /\ runs[w].stages[s].status = runs[w].status
        BY <2>2 DEF gatedStage, Waiting
      <3>. QED  BY <2>1, <2>2, <3>1, PassIsKept
    <2>3. CASE runs' = runs
      BY <2>1, <2>3, NothingIsChanged
    <2>. QED  BY <1>6, <2>2, <2>3 DEF Verified, Recheck
  <1>. QED  BY <1>1, <1>2, <1>3, <1>4, <1>5, <1>6

\* The runs of a deleted session.
LEMMA RemoveSessionIsKept ==
    ASSUME WorkflowInv, StoreInv, NEW s \in Sessions, removeSession(s)
    PROVE  StoreInv'
  <1> DEFINE ofSession == {w \in Workflows : SessionOf[w] = s /\ Stored(w)}
  <1>1. /\ \A w \in ofSession : inactive(w)
        /\ runs' = [w \in Workflows |-> IF w \in ofSession THEN Removed ELSE runs[w]]
        /\ UNCHANGED <<active, owners, sweeps, verifying, closed, crashes, faulty, inspected>>
    BY DEF removeSession
  <1>2. \A w \in Workflows : w \in ofSession \/ runs'[w] = runs[w]
    BY <1>1
  <1>3. \A w \in ofSession : runs'[w] = Removed /\ active[w].pc = "none" /\ Stored(w)
    BY <1>1 DEF inactive
  <1> HIDE DEF ofSession
  <1>4. ASSUME NEW w \in Workflows PROVE RunIsAsLeft(w)'
    <2>1. RunIsAsLeft(w)
      BY DEF StoreInv, RunsAreKept
    <2>2. CASE runs'[w] = runs[w]
      BY <1>1, <2>1, <2>2 DEF RunIsAsLeft
    <2>3. CASE w \in ofSession
      BY <1>1, <1>3, <2>3, FreshIsShaped DEF RunIsAsLeft, Position
    <2>. QED  BY <1>2, <2>2, <2>3
  <1>5. QualityInspected'
    <2>1. \A w \in Workflows : runs'[w].status = "completed" => runs[w].status = "completed"
      BY <1>2, <1>3, FreshIsShaped
    <2>. QED  BY <1>1, <2>1, WorkflowAssumption DEF StoreInv, RunsAreKept, QualityInspected
  <1>6. Tidy'
    <2>1. Tidy
      BY DEF StoreInv, RunsAreKept
    <2>2. ASSUME NEW w \in Workflows, Counted(w, runs[w], Current(active[w]))
          PROVE  Counted(w, runs'[w], Current(active[w]))
      BY <1>2, <1>3, <2>2, FreshIsShaped
    <2>. QED  BY <1>1, <2>1, <2>2 DEF Tidy
  <1>7. \A w \in Workflows : Stored(w)' => Stored(w)
    BY <1>2, <1>3 DEF Stored
  <1>. QED  BY <1>4, <1>5, <1>6, <1>7, RoomStays DEF StoreInv, RunsAreKept

\* disconnectSessions, disconnectAll and shutdown interrupt what runs, and tell
\* its executions to stop.
LEMMA SweepBeginsIsKept ==
    ASSUME WorkflowInv, StoreInv, NEW kind \in {"maintenance", "shutdown"}, NEW S \in SUBSET Sessions,
           SweepBegins(kind, S)
    PROVE  StoreInv'
  <1> DEFINE selected == {w \in Workflows : Stored(w) /\ SessionOf[w] \in S}
             running == {w \in selected : active[w].pc # "none"}
             toStore == running \cup {w \in selected : runs[w].status = "running"}
  <1>1. PICK unsaved \in SUBSET toStore :
        /\ runs' = [w \in Workflows |->
               IF w \in toStore \ unsaved /\ runs[w].status = "running"
               THEN Interrupted(runs[w]) ELSE runs[w]]
        /\ active' = [w \in Workflows |->
               IF w \in running
               THEN [active[w] EXCEPT !.cancelled = TRUE,
                       !.persistenceFailed = active[w].persistenceFailed \/ w \in unsaved]
               ELSE active[w]]
        /\ faulty' = (faulty \/ unsaved # {})
    BY DEF SweepBegins
  <1>2. owners' = owners /\ crashes' = crashes /\ inspected' = inspected
    BY DEF SweepBegins
  <1>3. \A w \in toStore : w \in running \/ active[w].pc = "none"
    OBVIOUS
  <1>4. ASSUME NEW w \in Workflows
        PROVE  /\ \/ runs'[w] = runs[w]
                  \/ w \in toStore /\ runs[w].status = "running" /\ runs'[w] = Interrupted(runs[w])
    BY <1>1
  <1>5. ASSUME NEW w \in Workflows
        PROVE  /\ active'[w].pc = active[w].pc /\ active'[w].stage = active[w].stage
               /\ active'[w].receipt = active[w].receipt
               /\ active'[w].persistenceFailed => active[w].persistenceFailed \/ w \in unsaved
               /\ w \in running => active'[w].cancelled
               /\ w \notin running => active'[w] = active[w]
    <2>1. CASE w \in running
      <3>1. active'[w] = [active[w] EXCEPT !.cancelled = TRUE,
                       !.persistenceFailed = active[w].persistenceFailed \/ w \in unsaved]
        BY <1>1, <2>1
      <3>. QED  BY <2>1, <3>1, Typed DEF Token
    <2>2. CASE w \notin running
      <3>1. active'[w] = active[w]
        BY <1>1, <2>2
      <3>. QED  BY <2>2, <3>1
    <2>. QED  BY <2>1, <2>2
  <1> HIDE DEF running, toStore
  <1>6. ASSUME NEW w \in Workflows
        PROVE  /\ Shape(w, runs'[w]) /\ (Stored(w)' => Stored(w))
               /\ runs'[w].status = "completed" => runs[w].status = "completed"
               /\ \A c : Counted(w, runs[w], c) => Counted(w, runs'[w], c)
    <2>1. Shape(w, runs[w]) /\ Sound(runs[w])
      BY Typed DEF StoreInv, RunsAreKept, RunIsAsLeft
    <2>2. CASE runs'[w] = runs[w]
      BY <2>1, <2>2 DEF Stored
    <2>3. CASE runs[w].status = "running" /\ runs'[w] = Interrupted(runs[w])
      <3>1. Shape(w, Interrupted(runs[w])) /\ SameUse(runs[w], Interrupted(runs[w]))
            /\ Interrupted(runs[w]).status = "interrupted"
        BY <2>1, <2>3, StoppedIsShaped, StoppedIsSound
      <3>2. \A c : Counted(w, runs[w], c) => Counted(w, Interrupted(runs[w]), c)
        BY <3>1, UseIsCounted
      <3>. QED  BY <2>3, <3>1, <3>2 DEF Stored
    <2>. QED  BY <1>4, <2>2, <2>3
  <1>7. ASSUME NEW w \in Workflows PROVE Position(w, runs'[w], active'[w])
    <2>1. Position(w, runs[w], active[w])
      BY DEF StoreInv, RunsAreKept, RunIsAsLeft
    <2>2. CASE w \in running
      BY <1>5, <2>1, <2>2 DEF Position
    <2>3. CASE w \notin running /\ runs'[w] = runs[w]
      BY <1>5, <2>1, <2>3 DEF Position
    <2>4. CASE w \notin running /\ w \in toStore
      BY <1>3, <1>5, <2>4 DEF Position
    <2>. QED  BY <1>4, <2>2, <2>3, <2>4
  <1>8. QualityInspected'
    BY <1>2, <1>6, WorkflowAssumption DEF StoreInv, RunsAreKept, QualityInspected
  <1>9. Tidy'
    <2>1. Tidy
      BY DEF StoreInv, RunsAreKept
    <2>2. faulty => faulty'
      BY <1>1
    <2>3. ASSUME ~faulty', NEW w \in Workflows PROVE ~active'[w].persistenceFailed
      <3>1. w \notin unsaved
        BY <1>1, <2>3
      <3>. QED  BY <1>5, <2>1, <2>2, <2>3, <3>1 DEF Tidy
    <2>4. ASSUME ~faulty', NEW s \in Sessions, owners'[s] # NoOne PROVE active'[owners'[s]].pc # "none"
      <3>1. owners[s] \in Workflows
        BY <1>2, <2>4, Typed
      <3>. QED  BY <1>2, <1>5, <2>1, <2>2, <2>4, <3>1 DEF Tidy
    <2>5. ASSUME ~faulty', crashes = 0, NEW w \in Workflows PROVE Counted(w, runs'[w], Current(active'[w]))
      <3>1. Counted(w, runs[w], Current(active[w]))
        BY <2>1, <2>2, <2>5 DEF Tidy
      <3>2. Current(active'[w]) = Current(active[w])
        BY <1>5 DEF Current
      <3>. QED  BY <1>6, <3>1, <3>2
    <2>. QED  BY <1>2, <2>1, <2>3, <2>4, <2>5 DEF Tidy
  <1>10. RoomIsKept'
    BY <1>6, RoomStays DEF StoreInv
  <1>. QED  BY <1>6, <1>7, <1>8, <1>9, <1>10 DEF StoreInv, RunsAreKept, RunIsAsLeft

\* Everything has stopped, and sessions are given back.
LEMMA SweepEndsIsKept ==
    ASSUME WorkflowInv, StoreInv, NEW kind \in {"maintenance", "shutdown"}, SweepEnds(kind)
    PROVE  StoreInv'
  <1>1. /\ owners' = [s \in Sessions |->
               IF s \in sweeps[kind].sessions /\ \E w \in Workflows : owners[s] = w /\ inactive(w)
               THEN NoOne ELSE owners[s]]
        /\ UNCHANGED <<runs, active, verifying, closed, crashes, faulty, inspected>>
    BY DEF SweepEnds
  <1>2. \A s \in Sessions : owners'[s] \in {owners[s], NoOne}
    BY <1>1
  <1>3. Tidy'
    BY <1>1, <1>2 DEF StoreInv, RunsAreKept, Tidy
  <1>4. (\A w \in Workflows : RunIsAsLeft(w)') /\ QualityInspected'
    BY <1>1 DEF StoreInv, RunsAreKept, RunIsAsLeft, QualityInspected
  <1>5. RoomIsKept'
    BY <1>1, RoomStays DEF StoreInv, Stored
  <1>. QED  BY <1>3, <1>4, <1>5 DEF StoreInv, RunsAreKept

\* A restart interrupts what was running, and loses what it had used up.
LEMMA RestartIsKept == ASSUME WorkflowInv, StoreInv, Restart PROVE StoreInv'
  <1>1. /\ runs' = [w \in Workflows |-> IF runs[w].status = "running" THEN Interrupted(runs[w]) ELSE runs[w]]
        /\ active' = [w \in Workflows |-> NoToken] /\ owners' = [s \in Sessions |-> NoOne]
        /\ crashes' = crashes + 1 /\ inspected' = inspected
    BY DEF Restart
  <1>2. crashes' # 0
    BY <1>1, Typed DEF OthersOK
  <1>3. \A w \in Workflows : active'[w].pc = "none" /\ ~active'[w].persistenceFailed
    BY <1>1 DEF NoToken
  <1>4. ASSUME NEW w \in Workflows
        PROVE  /\ Shape(w, runs'[w]) /\ (Stored(w)' => Stored(w))
               /\ runs'[w].status = "completed" => runs[w].status = "completed"
    <2>1. Shape(w, runs[w]) /\ Sound(runs[w])
      BY Typed DEF StoreInv, RunsAreKept, RunIsAsLeft
    <2>2. CASE runs[w].status # "running"
      BY <1>1, <2>1, <2>2 DEF Stored
    <2>3. CASE runs[w].status = "running"
      <3>1. Shape(w, Interrupted(runs[w])) /\ Interrupted(runs[w]).status = "interrupted"
        BY <2>1, <2>3, StoppedIsShaped, StoppedIsSound
      <3>2. runs'[w] = Interrupted(runs[w])
        BY <1>1, <2>3
      <3>. QED  BY <2>3, <3>1, <3>2 DEF Stored
    <2>. QED  BY <2>2, <2>3
  <1>5. \A w \in Workflows : RunIsAsLeft(w)'
    BY <1>3, <1>4 DEF RunIsAsLeft, Position
  <1>6. QualityInspected'
    BY <1>1, <1>4, WorkflowAssumption DEF StoreInv, RunsAreKept, QualityInspected
  <1>7. Tidy'
    BY <1>1, <1>2, <1>3 DEF Tidy
  <1>8. RoomIsKept'
    BY <1>4, RoomStays DEF StoreInv
  <1>. QED  BY <1>5, <1>6, <1>7, <1>8 DEF StoreInv, RunsAreKept

\* At first nothing is stored.
LEMMA StoreInvInit == WorkflowInit => StoreInv
  <1> SUFFICES ASSUME WorkflowInit PROVE StoreInv
    OBVIOUS
  <1>1. /\ \A w \in Workflows : runs[w] = Absent /\ active[w] = NoToken
        /\ \A s \in Sessions : owners[s] = NoOne
    BY DEF WorkflowInit
  <1>2. NoToken.pc = "none" /\ ~NoToken.persistenceFailed
    BY DEF NoToken
  <1>3. \A w \in Workflows : RunIsAsLeft(w)
    BY <1>1, <1>2, FreshIsShaped DEF RunIsAsLeft, Position
  <1>4. QualityInspected
    BY <1>1, FreshIsShaped, WorkflowAssumption DEF QualityInspected
  <1>5. Tidy
    BY <1>1, <1>2, FreshIsShaped DEF Tidy
  <1>6. {w \in Workflows : Stored(w)} = {}
    BY <1>1, FreshIsShaped DEF Stored
  <1>7. IsFiniteSet({}) /\ Cardinality({}) = 0 /\ 0 <= MaxRuns
    BY FS_EmptySet, WorkflowAssumption
  <1>8. RoomIsKept
    BY <1>6, <1>7 DEF RoomIsKept
  <1>. QED  BY <1>3, <1>4, <1>5, <1>8 DEF StoreInv, RunsAreKept

\* No step leaves anything else behind.
LEMMA StoreStep == WorkflowInv /\ StoreInv /\ [WorkflowNext]_workflowVars => StoreInv'
  <1> SUFFICES ASSUME WorkflowInv, StoreInv, [WorkflowNext]_workflowVars PROVE StoreInv'
    OBVIOUS
  <1>1. ASSUME NEW w \in Workflows, Execution(w) PROVE StoreInv'
    BY <1>1, ExecutionIsKept, EndsIsKept
  <1>2. ASSUME NEW w \in Workflows, StopReturns(w) \/ launch(w) \/ CancelActive(w) PROVE StoreInv'
    BY <1>2, StopReturnsIsKept, LaunchIsKept, CancelActiveIsKept
  <1>3. ASSUME NEW w \in Workflows,
               \/ create(w) \/ CancelIdle(w) \/ remove(w)
               \/ \E s \in Stages : confirmStage(w, s) \/ verifyStage(w, s)
               \/ \E s \in Stages, a \in 1 .. MaxAttempts[w] : Verified(w, s, a)
        PROVE  StoreInv'
    BY <1>3, CallIsKept
  <1>4. ASSUME NEW s \in Sessions, removeSession(s) PROVE StoreInv'
    BY <1>4, RemoveSessionIsKept
  <1>5. ASSUME NEW kind \in {"maintenance", "shutdown"},
               SweepEnds(kind) \/ \E S \in SUBSET Sessions \ {{}} : SweepBegins(kind, S)
        PROVE  StoreInv'
    BY <1>5, SweepEndsIsKept, SweepBeginsIsKept
  <1>6. CASE Restart
    BY <1>6, RestartIsKept
  <1>7. CASE UNCHANGED workflowVars
    BY <1>7, NothingIsChanged DEF workflowVars
  <1>8. DOMAIN sweeps = {"maintenance", "shutdown"}
    BY Typed DEF OthersOK
  <1>. QED  BY <1>1, <1>2, <1>3, <1>4, <1>5, <1>6, <1>7, <1>8 DEF WorkflowNext

\* The second invariant, on top of the first.
THEOREM StoreInvHolds == WorkflowSpec => []StoreInv
  BY StoreInvInit, StoreStep, WorkflowInvHolds, PTL DEF WorkflowSpec

-----------------------------------------------------------------------------
(* What the invariant means.                                               *)

\* A set whose elements are all the same has at most one.
LEMMA AtMostOne ==
    ASSUME NEW S, \A x, y \in S : x = y
    PROVE  Cardinality(S) <= 1
  <1>1. CASE S = {}
    BY <1>1, FS_EmptySet
  <1>2. ASSUME NEW x \in S PROVE Cardinality(S) <= 1
    <2>1. S = {x}
      OBVIOUS
    <2>2. Cardinality(S) = 1
      BY <2>1, FS_Singleton
    <2>. QED  BY <2>2
  <1>. QED  BY <1>1, <1>2

\* What each step keeps is what validateRun asks for.
LEMMA ShapeIsValid == StoreInv => StoredStateValid
  <1> SUFFICES ASSUME StoreInv PROVE StoredStateValid
    OBVIOUS
  <1>1. ASSUME NEW w \in Workflows
        PROVE  LET r == runs[w]
                   in(S) == {s \in Stages : r.stages[s].status \in S}
               IN  /\ Cardinality(in({"running"})) <= 1
                   /\ \A s \in Stages \ in({"pending", "cancelled"}) : r.stages[s].attempts > 0
                   /\ \A s \in in({"running", "completed"} \cup Waiting) :
                         \A d \in DependsOn[s] : r.stages[d].status = "completed"
                   /\ r.status = "completed" => in({"completed"}) = Stages
                   /\ Cardinality(in(Waiting)) <= 1
                   /\ \A s \in in(Waiting) : r.status \in {r.stages[s].status, "cancelled"}
                   /\ r.status \in Waiting => in(Waiting) # {}
                   /\ w \in Quality => \A s \in in({"completed"} \cup Waiting) :
                         r.stages[s].attempts \in r.stages[s].receipts
    <2> DEFINE r == runs[w]
               in(S) == {s \in Stages : r.stages[s].status \in S}
    <2>1. Shape(w, r)
      BY DEF StoreInv, RunsAreKept, RunIsAsLeft
    <2>2. \A s, t \in in({"running"}) : s = t
      BY <2>1 DEF Shape
    <2>3. \A s, t \in in(Waiting) : s = t
      BY <2>1 DEF Shape
    <2>4. Cardinality(in({"running"})) <= 1 /\ Cardinality(in(Waiting)) <= 1
      BY <2>2, <2>3, AtMostOne
    <2>5. /\ \A s \in Stages \ in({"pending", "cancelled"}) : r.stages[s].attempts > 0
          /\ \A s \in in({"running", "completed"} \cup Waiting) :
                \A d \in DependsOn[s] : r.stages[d].status = "completed"
      BY <2>1 DEF Shape
    <2>6. r.status = "completed" => in({"completed"}) = Stages
      BY <2>1 DEF Shape, AllDone
    <2>7. /\ \A s \in in(Waiting) : r.status \in {r.stages[s].status, "cancelled"}
          /\ r.status \in Waiting => in(Waiting) # {}
      BY <2>1 DEF Shape
    <2>8. w \in Quality => \A s \in in({"completed"} \cup Waiting) :
              r.stages[s].attempts \in r.stages[s].receipts
      BY <2>1 DEF Shape
    <2>. QED  BY <2>4, <2>5, <2>6, <2>7, <2>8
  <1>2. Cardinality({w \in Workflows : Stored(w)}) <= MaxRuns
    BY DEF StoreInv, RoomIsKept
  <1>. QED  BY <1>1, <1>2, Zenon DEF StoredStateValid

\* The engine never builds a state that its storage refuses (validateWorkflowState),
\* whatever is launched, cancelled, confirmed, swept or restarted in between.
THEOREM StoredStatesAreValid == WorkflowSpec => []StoredStateValid
  BY ShapeIsValid, StoreInvHolds, PTL

\* A run to be inspected is completed only after an inspection (finalQualityFailure).
THEOREM CompletionsAreInspected == WorkflowSpec => []QualityInspected
  <1>1. StoreInv => QualityInspected
    BY DEF StoreInv, RunsAreKept
  <1>. QED  BY <1>1, StoreInvHolds, PTL

\* As long as no save fails, an end gives the session back and the usage of every
\* attempt is counted or marked as missing (launch, recordReceipt).
THEOREM EndsLeaveNothingBehind == WorkflowSpec => []NothingLeftBehind
  <1>1. StoreInv => NothingLeftBehind
    <2> SUFFICES ASSUME StoreInv, ~faulty PROVE
            /\ \A s \in Sessions : owners[s] # NoOne => active[owners[s]].pc # "none"
            /\ crashes = 0 => UsageHonest
      BY DEF NothingLeftBehind
    <2>1. Tidy
      BY DEF StoreInv, RunsAreKept
    <2>2. ASSUME crashes = 0, NEW w \in Native, runs[w].complete, NEW s \in Stages,
                 NEW a \in 1 .. runs[w].stages[s].attempts
          PROVE  a \in runs[w].stages[s].receipts \/ (active[w].pc # "none" /\ active[w].stage = s)
      <3>1. w \in Workflows
        BY WorkflowAssumption
      <3>2. a \in runs[w].stages[s].receipts \/ s = Current(active[w])
        BY <2>1, <2>2, <3>1 DEF Tidy, Counted
      <3>3. s # 0
        BY DEF Stages
      <3>. QED  BY <3>2, <3>3 DEF Current
    <2>. QED  BY <2>1, <2>2 DEF Tidy, UsageHonest
  <1>. QED  BY <1>1, StoreInvHolds, PTL

=============================================================================
