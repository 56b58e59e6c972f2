--------------------------- MODULE WorkflowEngine ---------------------------
(***************************************************************************)
(* WorkflowEngine: sequential, persisted workflows.  A run belongs to one  *)
(* session and owns it from its launch until its outcome is stored; its    *)
(* stages are executed one after the other as turns of that session.  A    *)
(* cancel, an engine's maintenance or the end of the application may come  *)
(* between any two awaits, a save may fail, and the process may crash.     *)
(*                                                                         *)
(* One action is the code between two awaits.  The store is written before *)
(* the state in memory is replaced, so runs is both.  Texts, summaries and *)
(* the content of receipts are left out, and so is reviseStage, which only *)
(* rewrites a stage's text; every stage has the standard tool policy.      *)
(* Operators named Mutant... are wrong on purpose: each is a slip the code *)
(* could have made in the definition below it.                             *)
(***************************************************************************)
EXTENDS Integers, FiniteSets

CONSTANTS
    Workflows,   \* the runs that may be created
    Sessions,    \* structured sessions
    SessionOf,   \* [Workflows -> Sessions]
    Native,      \* runs of the native provider, whose turns return receipts
    Quality,     \* native runs whose collaboration policy asks for an inspection
    Pausing,     \* runs with pauseAfterEachStage
    NumStages,   \* stages of a run, numbered in the order they are stored
    DependsOn,   \* [Stages -> SUBSET Stages]
    Gate,        \* [Workflows -> [Stages -> Gates]]
    MaxAttempts, \* [Workflows -> Nat]: attempts of each stage of a run
    MaxRuns,     \* MAX_STORED_RUNS
    MaxCrashes,  \* bound: restarts of the application
    Faults,      \* whether saves and stops of sessions may fail
    NoOne        \* no owner

Stages == 1 .. NumStages
Gates == {"none", "manual", "native_task"}

ASSUME WorkflowAssumption ==
    /\ NumStages \in Nat \ {0} /\ MaxAttempts \in [Workflows -> 1 .. 3] /\ MaxRuns \in Nat
    /\ SessionOf \in [Workflows -> Sessions]
    /\ Quality \subseteq Native /\ Native \cup Pausing \subseteq Workflows
    /\ Gate \in [Workflows -> [Stages -> Gates]]
    /\ \A w \in Workflows \ Native : \A s \in Stages : Gate[w][s] # "native_task"
    /\ Faults \in BOOLEAN /\ MaxCrashes \in Nat
    /\ NoOne \notin Workflows

\* validateGraph: the dependencies have no cycle.
ASSUME GraphAssumption ==
    /\ DependsOn \in [Stages -> SUBSET Stages]
    /\ \A S \in SUBSET Stages : S # {} => \E s \in S : DependsOn[s] \cap S = {}

VARIABLES
    runs,       \* the stored runs
    active,     \* [Workflows -> token]: the execution in progress of each run
    owners,     \* sessionOwners, [Sessions -> Workflows or NoOne]
    sweeps,     \* the interruptRuns calls in progress, one of each kind
    verifying,  \* verifyStage calls that wait for the evidence of a task
    closed,     \* shutdown has begun
    crashes,    \* restarts so far
    faulty,     \* history: a save has failed
    inspected   \* history: runs inspected since their last stage began

workflowVars == <<runs, active, owners, sweeps, verifying, closed, crashes, faulty, inspected>>

RunStatuses == {"absent", "removed", "draft", "running", "paused", "waiting_confirmation",
                "waiting_verification", "completed", "failed", "cancelled", "interrupted"}
StageStatuses == {"pending", "running", "waiting_confirmation", "waiting_verification",
                  "completed", "failed", "cancelled", "interrupted"}

Stage == [status : StageStatuses, attempts : 0 .. 3, receipts : SUBSET (1 .. 3)]
Run == [status : RunStatuses, complete : BOOLEAN, stages : [Stages -> Stage]]

\* ActiveRun, with the point where the execution waits.
Token == [pc : {"none", "loop", "stage", "check", "final", "thrown", "ended"}, stage : 0 .. NumStages,
          receipt : {"none", "valid"}, cancelled : BOOLEAN, persistenceFailed : BOOLEAN,
          stopping : BOOLEAN]

NoToken == [pc |-> "none", stage |-> 0, receipt |-> "none",
            cancelled |-> FALSE, persistenceFailed |-> FALSE, stopping |-> FALSE]
NoSweep == [pc |-> "none", sessions |-> {}, running |-> {}]

-----------------------------------------------------------------------------
(* Runs.                                                                   *)

Absent == [status |-> "absent", complete |-> TRUE,
           stages |-> [s \in Stages |-> [status |-> "pending", attempts |-> 0, receipts |-> {}]]]
Draft == [Absent EXCEPT !.status = "draft"]
Removed == [Absent EXCEPT !.status = "removed"]

Stored(w) == runs[w].status \notin {"absent", "removed"}

SetStages(r, from, to) ==
    [r EXCEPT !.stages = [s \in Stages |->
        IF r.stages[s].status = from THEN [r.stages[s] EXCEPT !.status = to] ELSE r.stages[s]]]

Interrupted(r) == [SetStages(r, "running", "interrupted") EXCEPT !.status = "interrupted"]
Cancelled(r) == [SetStages(r, "running", "cancelled") EXCEPT !.status = "cancelled"]

AllDone(r) == \A s \in Stages : r.stages[s].status = "completed"

MutantReady(r) == {s \in Stages : r.stages[s].status = "pending"}

Ready(r) == {s \in Stages : /\ r.stages[s].status = "pending"
                            /\ \A d \in DependsOn[s] : r.stages[d].status = "completed"}

\* An attempt is stored before the stage is executed.
Begun(r, s) == [r EXCEPT !.stages[s].status = "running", !.stages[s].attempts = @ + 1]

\* recordReceipt: a native turn without a receipt leaves the usage incomplete.
recordReceipt(w, r, s, receipt) ==
    IF receipt = "valid" THEN [r EXCEPT !.stages[s].receipts = @ \cup {r.stages[s].attempts}]
    ELSE [r EXCEPT !.complete = @ /\ w \notin Native]

\* What the result of a stage makes of the run.
Outcome(w, r, s, ok) ==
    LET waiting == CASE Gate[w][s] = "manual" -> "waiting_confirmation"
                     [] Gate[w][s] = "native_task" -> "waiting_verification"
                     [] OTHER -> "completed"
        at == [r EXCEPT !.stages[s].status = IF ok THEN waiting ELSE "failed"]
    IN  [at EXCEPT !.status = IF ~ok THEN "failed"
                              ELSE IF waiting # "completed" THEN waiting
                              ELSE IF AllDone(at) THEN "completed"
                              ELSE IF w \in Pausing THEN "paused" ELSE "running"]

MutantComplete(w, r, s) ==
    LET done == [r EXCEPT !.stages[s].status = "completed"]
    IN  [done EXCEPT !.status = IF AllDone(done) THEN "completed" ELSE "paused"]

\* A run that is to be inspected is not completed by its last gate.
completeGatedStage(w, r, s) ==
    LET done == [r EXCEPT !.stages[s].status = "completed"]
    IN  [done EXCEPT !.status = IF AllDone(done) /\ w \notin Quality THEN "completed" ELSE "paused"]

-----------------------------------------------------------------------------
(* execute.  A stretch of code ends with the run as it is stored and the   *)
(* point where the execution waits; as any save in it may fail, a stretch  *)
(* has a set of possible ends.                                             *)

End(r, pc, s, receipt) == [run |-> r, pc |-> pc, stage |-> s, receipt |-> receipt,
                           persistenceFailed |-> FALSE, faulty |-> FALSE]
Over(r) == End(r, "ended", 0, "none")
Thrown(r) == End(r, "thrown", 0, "none")

\* A save that fails throws, and may have to keep the session owned.
Unsaved(r, kept) ==
    IF Faults THEN {[Thrown(r) EXCEPT !.faulty = TRUE, !.persistenceFailed = kept]} ELSE {}

\* The head of the loop; assertBinding refuses a session locked meanwhile.
NextStage(w, r) ==
    CASE Ready(r) # {} ->
           {Thrown(r)} \cup Unsaved(r, FALSE) \cup
           {End(Begun(r, s), "stage", s, "none") : s \in {s \in Ready(r) :
               r.stages[s].attempts < MaxAttempts[w] /\ \A t \in Ready(r) : s <= t}}
      [] Ready(r) = {} /\ AllDone(r) -> {End(r, "final", 0, "none")}
      [] OTHER -> {Thrown(r)}

\* A result is stored, and the loop goes on as long as the run does.
Settled(w, r, s, ok, receipt) ==
    LET stored == Outcome(w, recordReceipt(w, r, s, receipt), s, ok)
    IN  Unsaved(r, FALSE) \cup
        IF stored.status = "running" THEN NextStage(w, stored) ELSE {Over(stored)}

MutantLate(w, r, s, receipt) == {Over(r)}

\* A cancelled attempt does not count, but what it used up does.
Late(w, r, s, receipt) ==
    IF w \in Native THEN {Over(recordReceipt(w, r, s, receipt))} \cup Unsaved(r, TRUE) ELSE {Over(r)}

\* A receipt of another submission is refused.
Refused(r) == {Thrown([r EXCEPT !.complete = FALSE])} \cup Unsaved(r, TRUE)

\* The execution of w waits at pc, and goes on to one of these ends.
Goes(w, pc, ends) ==
    /\ active[w].pc = pc
    /\ \E e \in ends :
        /\ runs' = [runs EXCEPT ![w] = e.run]
        /\ active' = [active EXCEPT ![w] = [active[w] EXCEPT
               !.pc = e.pc, !.stage = e.stage, !.receipt = e.receipt,
               !.persistenceFailed = active[w].persistenceFailed \/ e.persistenceFailed]]
        /\ faulty' = (faulty \/ e.faulty)
    /\ UNCHANGED <<owners, sweeps, verifying, closed, crashes>>

\* Starting a stage makes an inspection obsolete.
Inspect(w, passed) ==
    inspected' = IF active'[w].pc = "stage" THEN inspected \ {w}
                 ELSE IF passed THEN inspected \cup ({w} \cap Quality) ELSE inspected

\* The first continuation of a launch.
Launched(w) ==
    /\ Goes(w, "loop", IF active[w].cancelled THEN {Over(runs[w])} ELSE NextStage(w, runs[w]))
    /\ Inspect(w, FALSE)

\* runStage returns.  A run to be inspected needs the receipt of its review.
StageEnds(w, ok, receipt) ==
    LET s == active[w].stage
        good == ok /\ (w \in Quality => receipt = "valid")
        last == Gate[w][s] = "none" /\ \A t \in Stages \ {s} : runs[w].stages[t].status = "completed"
    IN  CASE receipt = "foreign" -> Refused(runs[w])
          [] receipt # "foreign" /\ active[w].cancelled -> Late(w, runs[w], s, receipt)
          [] receipt # "foreign" /\ ~active[w].cancelled /\ good /\ last ->
               {End(runs[w], "check", s, receipt)}
          [] OTHER -> Settled(w, runs[w], s, good, receipt)

StageReturns(w) ==
    /\ \E ok \in BOOLEAN, receipt \in IF w \in Native THEN {"none", "valid", "foreign"} ELSE {"none"} :
          Goes(w, "stage", StageEnds(w, ok, receipt))
    /\ Inspect(w, FALSE)

\* finalQualityFailure after the last stage.
CheckEnds(w, passed) ==
    LET s == active[w].stage
        receipt == active[w].receipt
    IN  IF active[w].cancelled
        THEN {Over(recordReceipt(w, runs[w], s, receipt))} \cup Unsaved(runs[w], FALSE)
        ELSE Settled(w, runs[w], s, passed, receipt)

Verdicts(w) == IF w \in Quality THEN BOOLEAN ELSE {TRUE}

Checked(w) ==
    \E passed \in Verdicts(w) : Goes(w, "check", CheckEnds(w, passed)) /\ Inspect(w, passed)

\* finalQualityFailure of a run whose stages are all completed.
FinalEnds(w, passed) ==
    IF active[w].cancelled THEN {Over(runs[w])}
    ELSE Unsaved(runs[w], FALSE) \cup
         {Over([runs[w] EXCEPT !.status = IF passed THEN "completed" ELSE "interrupted"])}

Finalized(w) ==
    \E passed \in Verdicts(w) : Goes(w, "final", FinalEnds(w, passed)) /\ Inspect(w, passed)

\* The catch of launch: when even the interruption cannot be stored, the run
\* keeps its session.
CaughtEnds(w) ==
    IF active[w].cancelled THEN {Over(runs[w])}
    ELSE {Over(Interrupted(runs[w]))} \cup
         {[e EXCEPT !.pc = "ended"] : e \in Unsaved(runs[w], TRUE)}

Caught(w) == Goes(w, "thrown", CaughtEnds(w)) /\ UNCHANGED inspected

\* The finally of launch.
Ends(w) ==
    /\ active[w].pc = "ended"
    /\ active' = [active EXCEPT ![w] = NoToken]
    /\ owners' = [owners EXCEPT ![SessionOf[w]] =
           IF @ = w /\ ~active[w].persistenceFailed THEN NoOne ELSE @]
    /\ UNCHANGED <<runs, sweeps, verifying, closed, crashes, faulty, inspected>>

-----------------------------------------------------------------------------
(* The calls of the user.                                                  *)

create(w) ==
    /\ ~closed /\ runs[w].status = "absent"
    /\ Cardinality({v \in Workflows : Stored(v)}) < MaxRuns
    /\ runs' = [runs EXCEPT ![w] = Draft]
    /\ UNCHANGED <<active, owners, sweeps, verifying, closed, crashes, faulty, inspected>>

\* getSession refuses the sessions of an engine under maintenance.
Unlocked(w) == SessionOf[w] \notin sweeps["maintenance"].sessions

MutantFree(w) == active[w].pc = "none"

Free(w) == active[w].pc = "none" /\ owners[SessionOf[w]] = NoOne

\* start, continue and retry; the latter two refuse a stage without attempts left.
Startable(w, r) ==
    /\ r.status \in {"draft", "paused", "interrupted", "failed"}
    /\ \A s \in Stages : r.stages[s].status \in {"failed", "interrupted"}
           => r.stages[s].attempts < MaxAttempts[w]

launch(w) ==
    /\ Startable(w, runs[w]) /\ ~closed /\ Free(w) /\ Unlocked(w)
    /\ LET reset == CASE runs[w].status = "draft" -> runs[w]
                      [] runs[w].status = "failed" -> SetStages(runs[w], "failed", "pending")
                      [] OTHER -> SetStages(runs[w], "interrupted", "pending")
       IN  runs' = [runs EXCEPT ![w] = [reset EXCEPT !.status = "running"]]
    /\ active' = [active EXCEPT ![w] = [NoToken EXCEPT !.pc = "loop"]]
    /\ owners' = [owners EXCEPT ![SessionOf[w]] = w]
    /\ UNCHANGED <<sweeps, verifying, closed, crashes, faulty, inspected>>

\* A cancel of a run in progress stores the cancellation, which repairs what
\* was not stored before, and stops the session.
CancelActive(w) ==
    /\ active[w].pc # "none" /\ runs[w].status # "completed"
    /\ \E saved \in IF Faults THEN BOOLEAN ELSE {TRUE} :
        /\ runs' = IF saved THEN [runs EXCEPT ![w] = Cancelled(@)] ELSE runs
        /\ active' = [active EXCEPT ![w] = [@ EXCEPT
               !.cancelled = TRUE, !.stopping = TRUE, !.persistenceFailed = ~saved]]
        /\ faulty' = (faulty \/ ~saved)
    /\ UNCHANGED <<owners, sweeps, verifying, closed, crashes, inspected>>

\* cancelSession returns; a failure of it is stored with the run.
StopReturns(w) ==
    /\ active[w].stopping
    /\ \E saved \in IF Faults THEN BOOLEAN ELSE {TRUE} :
        /\ active' = [active EXCEPT ![w] = [active[w] EXCEPT
               !.stopping = FALSE, !.persistenceFailed = active[w].persistenceFailed \/ ~saved]]
        /\ faulty' = (faulty \/ ~saved)
    /\ UNCHANGED <<runs, owners, sweeps, verifying, closed, crashes, inspected>>

\* A cancel of a run at rest also gives a session back that was kept.
CancelIdle(w) ==
    /\ active[w].pc = "none" /\ Stored(w) /\ runs[w].status # "completed"
    /\ runs[w].status = "cancelled" => owners[SessionOf[w]] = w
    /\ runs' = [runs EXCEPT ![w] = Cancelled(@)]
    /\ owners' = [owners EXCEPT ![SessionOf[w]] = IF @ = w THEN NoOne ELSE @]
    /\ UNCHANGED <<active, sweeps, verifying, closed, crashes, faulty, inspected>>

inactive(w) == Stored(w) /\ active[w].pc = "none" /\ runs[w].status # "running"

remove(w) ==
    /\ inactive(w)
    /\ runs' = [runs EXCEPT ![w] = Removed]
    /\ UNCHANGED <<active, owners, sweeps, verifying, closed, crashes, faulty, inspected>>

\* The runs of a deleted session.
removeSession(s) ==
    LET ofSession == {w \in Workflows : SessionOf[w] = s /\ Stored(w)}
    IN  /\ owners[s] = NoOne /\ ofSession # {} /\ \A w \in ofSession : inactive(w)
        /\ runs' = [w \in Workflows |-> IF w \in ofSession THEN Removed ELSE runs[w]]
        /\ UNCHANGED <<active, owners, sweeps, verifying, closed, crashes, faulty, inspected>>

-----------------------------------------------------------------------------
(* Gates.                                                                  *)

gatedStage(w, s, expected, attempt) ==
    /\ active[w].pc = "none" /\ runs[w].status = expected
    /\ runs[w].stages[s].status = expected /\ runs[w].stages[s].attempts = attempt
    /\ Unlocked(w)

\* confirmStage approves; a rejection only stores its reason.
confirmStage(w, s) ==
    /\ gatedStage(w, s, "waiting_confirmation", runs[w].stages[s].attempts)
    /\ runs' = [runs EXCEPT ![w] = completeGatedStage(w, @, s)]
    /\ UNCHANGED <<active, owners, sweeps, verifying, closed, crashes, faulty, inspected>>

\* verifyStage asks for the task of the last receipt, and waits.
verifyStage(w, s) ==
    /\ gatedStage(w, s, "waiting_verification", runs[w].stages[s].attempts)
    /\ runs[w].stages[s].receipts # {}
    /\ verifying' = verifying \cup {<<w, s, runs[w].stages[s].attempts>>}
    /\ UNCHANGED <<runs, active, owners, sweeps, closed, crashes, faulty, inspected>>

MutantRecheck(w, s, attempt) == Stored(w)

Recheck(w, s, attempt) == gatedStage(w, s, "waiting_verification", attempt)

\* The evidence is there: the gate is asked again, and the stage completed if
\* the evidence holds.
Verified(w, s, attempt) ==
    /\ <<w, s, attempt>> \in verifying
    /\ verifying' = verifying \ {<<w, s, attempt>>}
    /\ \E approved \in BOOLEAN :
        runs' = IF approved /\ Recheck(w, s, attempt)
                THEN [runs EXCEPT ![w] = completeGatedStage(w, @, s)] ELSE runs
    /\ UNCHANGED <<active, owners, sweeps, closed, crashes, faulty, inspected>>

-----------------------------------------------------------------------------
(* interruptRuns: disconnectSessions and disconnectAll, which wait for the *)
(* executions they cancel, and shutdown, which does not.                   *)

SweepBegins(kind, S) ==
    LET selected == {w \in Workflows : Stored(w) /\ SessionOf[w] \in S}
        running == {w \in selected : active[w].pc # "none"}
        toStore == running \cup {w \in selected : runs[w].status = "running"}
    IN  /\ sweeps[kind].pc = "none"
        /\ kind = "shutdown" => S = Sessions /\ ~closed
        /\ \E unsaved \in IF Faults THEN SUBSET toStore ELSE {{}} :
            /\ runs' = [w \in Workflows |->
                   IF w \in toStore \ unsaved /\ runs[w].status = "running"
                   THEN Interrupted(runs[w]) ELSE runs[w]]
            /\ active' = [w \in Workflows |->
                   IF w \in running
                   THEN [active[w] EXCEPT !.cancelled = TRUE,
                       !.persistenceFailed = active[w].persistenceFailed \/ w \in unsaved]
                   ELSE active[w]]
            /\ faulty' = (faulty \/ unsaved # {})
        /\ sweeps' = [sweeps EXCEPT ![kind] = [pc |-> "stopping", sessions |-> S, running |-> running]]
        /\ closed' = (closed \/ kind = "shutdown")
        /\ UNCHANGED <<owners, verifying, crashes, inspected>>

\* Everything has stopped: the sessions kept by runs at rest are given back.
SweepEnds(kind) ==
    /\ sweeps[kind].pc = "stopping"
    /\ kind = "maintenance" => \A w \in sweeps[kind].running : active[w].pc = "none"
    /\ owners' = [s \in Sessions |->
           IF s \in sweeps[kind].sessions /\ \E w \in Workflows : owners[s] = w /\ inactive(w)
           THEN NoOne ELSE owners[s]]
    /\ sweeps' = [sweeps EXCEPT ![kind] = NoSweep]
    /\ UNCHANGED <<runs, active, verifying, closed, crashes, faulty, inspected>>

-----------------------------------------------------------------------------
WorkflowInit ==
    /\ runs = [w \in Workflows |-> Absent]
    /\ active = [w \in Workflows |-> NoToken]
    /\ owners = [s \in Sessions |-> NoOne]
    /\ sweeps = [kind \in {"maintenance", "shutdown"} |-> NoSweep]
    /\ verifying = {} /\ closed = FALSE /\ crashes = 0
    /\ faulty = FALSE /\ inspected = {}

\* The application ends, in whatever way, and starts again: the constructor
\* interrupts what was running.
Restart ==
    /\ crashes < MaxCrashes
    /\ crashes' = crashes + 1
    /\ runs' = [w \in Workflows |->
           IF runs[w].status = "running" THEN Interrupted(runs[w]) ELSE runs[w]]
    /\ active' = [w \in Workflows |-> NoToken]
    /\ owners' = [s \in Sessions |-> NoOne]
    /\ sweeps' = [kind \in DOMAIN sweeps |-> NoSweep]
    /\ verifying' = {} /\ closed' = FALSE
    /\ UNCHANGED <<faulty, inspected>>

Execution(w) ==
    \/ Launched(w) \/ StageReturns(w) \/ Checked(w) \/ Finalized(w)
    \/ Caught(w) \/ Ends(w)

WorkflowNext ==
    \/ \E w \in Workflows :
        \/ Execution(w) \/ StopReturns(w)
        \/ create(w) \/ launch(w) \/ CancelActive(w) \/ CancelIdle(w) \/ remove(w)
        \/ \E s \in Stages : confirmStage(w, s) \/ verifyStage(w, s)
        \/ \E s \in Stages, a \in 1 .. MaxAttempts[w] : Verified(w, s, a)
    \/ \E s \in Sessions : removeSession(s)
    \/ \E kind \in DOMAIN sweeps :
        SweepEnds(kind) \/ \E S \in SUBSET Sessions \ {{}} : SweepBegins(kind, S)
    \/ Restart

WorkflowSpec == WorkflowInit /\ [][WorkflowNext]_workflowVars

\* Continuations run, turns end (cancelled ones because their session is
\* stopped), and what a maintenance waits for is only that.
WorkflowFairness ==
    /\ \A w \in Workflows : WF_workflowVars(Execution(w))
    /\ \A kind \in {"maintenance", "shutdown"} : WF_workflowVars(SweepEnds(kind))

FairWorkflowSpec == WorkflowSpec /\ WorkflowFairness

-----------------------------------------------------------------------------
(* Properties.                                                             *)

\* Runs, executions, owners and sweeps are what the code stores in them, and a
\* receipt is of an attempt that was made (recordReceipt).
WorkflowTypeOK ==
    /\ runs \in [Workflows -> Run] /\ active \in [Workflows -> Token]
    /\ \A w \in Workflows, s \in Stages :
           runs[w].stages[s].receipts \subseteq 1 .. runs[w].stages[s].attempts
    /\ owners \in [Sessions -> Workflows \cup {NoOne}]
    /\ sweeps \in [{"maintenance", "shutdown"} ->
           [pc : {"none", "stopping"}, sessions : SUBSET Sessions, running : SUBSET Workflows]]
    /\ verifying \subseteq Workflows \X Stages \X (1 .. 3)
    /\ closed \in BOOLEAN /\ crashes \in 0 .. MaxCrashes /\ faulty \in BOOLEAN
    /\ inspected \subseteq Workflows

Waiting == {"waiting_confirmation", "waiting_verification"}

\* The engine never builds a state that its own storage refuses to save or to
\* load (validateWorkflowState): stages run one at a time and after those they
\* depend on, a waiting run has the one stage it waits for, a completed run has
\* only completed stages, and the work to be inspected has its receipt.
StoredStateValid ==
    /\ Cardinality({w \in Workflows : Stored(w)}) <= MaxRuns
    /\ \A w \in Workflows : Stored(w) =>
        LET r == runs[w]
            in(S) == {s \in Stages : r.stages[s].status \in S}
        IN  /\ Cardinality(in({"running"})) <= 1
            /\ \A s \in Stages \ in({"pending", "cancelled"}) : r.stages[s].attempts > 0
            /\ \A s \in in({"running", "completed"} \cup Waiting) :
                  \A d \in DependsOn[s] : r.stages[d].status = "completed"
            /\ r.status = "completed" => in({"completed"}) = Stages
            /\ Cardinality(in(Waiting)) <= 1
            /\ \A s \in in(Waiting) : r.status \in {r.stages[s].status, "cancelled"}
            /\ r.status \in Waiting => in(Waiting) # {}
            /\ w \in Quality => \A s \in in({"completed"} \cup Waiting) :
                  r.stages[s].attempts \in r.stages[s].receipts

\* At most one workflow executes in a session, and it is the one that owns it,
\* whatever was cancelled, kept after a failed save or swept before.
TurnsAlone ==
    \A w \in Workflows : active[w].pc # "none" => owners[SessionOf[w]] = w

\* A run that is stored as running is never given up: it owns its session until
\* its end is stored, also when its execution is over and no save succeeded.
RunningIsOwned ==
    \A w \in Workflows : runs[w].status = "running" => owners[SessionOf[w]] = w

\* A turn in a session belongs to the one workflow that owns the session, from
\* before it begins until its end is on disk.
TurnsAreHeld == TurnsAlone /\ RunningIsOwned

\* A run to be inspected is completed only by an inspection that came after the
\* start of its last stage, whichever gates and restarts came between.
QualityInspected ==
    \A w \in Quality : runs[w].status = "completed" => w \in inspected

\* All attempts that are over have given their receipt, or the usage is marked
\* incomplete.
UsageHonest ==
    \A w \in Native : Stored(w) /\ runs[w].complete =>
        \A s \in Stages : \A a \in 1 .. runs[w].stages[s].attempts :
            a \in runs[w].stages[s].receipts \/ (active[w].pc # "none" /\ active[w].stage = s)

\* As long as no save fails, an end leaves nothing behind: a session is owned
\* only while its owner executes, and, if the application also runs on, what an
\* attempt used up is counted or marked as missing, also when it was cancelled.
NothingLeftBehind == ~faulty =>
    /\ \A s \in Sessions : owners[s] # NoOne => active[owners[s]].pc # "none"
    /\ crashes = 0 => UsageHonest

\* A session is owned by a run that exists, so that cancelling the run can
\* repair what kept the session.
OwnersCanBeRepaired ==
    \A s \in Sessions : owners[s] # NoOne => Stored(owners[s])

\* Nothing brings a cancelled run back: not a late result, not an inspection or
\* a verification that was under way, not a maintenance and not a restart.
CancelledStaysCancelled ==
    [][\A w \in Workflows : runs[w].status = "cancelled" =>
          runs'[w].status \in {"cancelled", "removed"}]_workflowVars

\* An execution that was told to stop starts no further stage.
NoStageAfterStop ==
    [][\A w \in Workflows : active[w].cancelled => \A s \in Stages :
          runs'[w].stages[s].attempts <= runs[w].stages[s].attempts]_workflowVars

\* A cancel or a stop wins over everything that was under way.
StopsAreFinal == CancelledStaysCancelled /\ NoStageAfterStop

=============================================================================
