------------------------------ MODULE NativeRun ------------------------------
(***************************************************************************)
(* The run loop of a native agent (agent-core/src/run.ts) over the run     *)
(* store: it asks the model, executes the tools the model wants and writes *)
(* a record before and after everything that has an effect.  The host ends *)
(* the commands a run has started before it stores the run's end           *)
(* (structured-executor.ts); a crash of the host is Crash.  Operators      *)
(* named Mutant... are wrong on purpose.                                   *)
(***************************************************************************)
EXTENDS RunStore

CONSTANTS Batches,     \* what a response may ask for: sequences of calls
          Retries,     \* model requests that may be repeated in a run
          Corrections  \* MAX_COMPLETION_CORRECTIONS

ASSUME LoopConstants == Batches \subseteq Seq(Calls) /\ Retries \in Nat /\ Corrections \in Nat

VARIABLES loop,     \* the running call of runAgent
          effects,  \* effects[<<r, c>>]: how often the tool has run
          running,  \* the commands whose processes are alive
          told,     \* the last committed result a caller was given
          refused   \* the store refused what the loop wanted to write, no command in doubt

runVars == <<effects, running, told>>
vars == <<storeVars, loop, effects, running, told, refused>>

Quiet == [pc |-> "idle", run |-> NONE, pending |-> <<>>, abort |-> FALSE, fresh |-> FALSE, stop |-> "none"]
At(pc) == loop.pc = pc
Go(pc) == [loop EXCEPT !.pc = pc]
Ending(status) == [loop EXCEPT !.pc = "ending", !.stop = status]
\* the next call is answered; what remains of the batch goes on
Answered == [loop EXCEPT !.pc = IF @ = "ending" THEN @ ELSE "batch", !.pending = Tail(@)]
ByLoop(t, x, v) == Rec(t, loop.run, x, v)

\* a command of the run is on record as unknown: nobody knows if it still runs
Doubt == \E c \in Commands : "unknown" \in Progress(journal, loop.run, c)

\* append, with PersistenceFailure as the end of the loop without a result
Write(e, next) ==
  /\ IF Accepts(e)
     THEN /\ (Land(e) /\ loop' = next) \/ (Break(e) /\ loop' = Quiet)
          /\ UNCHANGED refused
     ELSE /\ loop' = Quiet /\ UNCHANGED <<journal, torn, poisoned>>
          /\ refused' = (refused \/ (~poisoned /\ ~Valid(journal, e) /\ ~Doubt))
  /\ UNCHANGED <<lockVars, live>>
\* ensureCapacity, then append
WriteIfRoom(e, next) ==
  IF EnsureCapacity /\ ~poisoned THEN Write(e, next)
  ELSE loop' = Quiet /\ UNCHANGED <<storeVars, refused>>
Turn(next) == loop' = next /\ UNCHANGED <<storeVars, refused>>

Init ==
  /\ StoreInit
  /\ loop = Quiet
  /\ effects = [rc \in Runs \X Calls |-> 0]
  /\ running = {}
  /\ told = [r \in Runs |-> "none"]
  /\ refused = FALSE

-----------------------------------------------------------------------------
(* Admission, cancellation and the requests to the model                   *)

BeginRun(h, r) ==
  /\ host[h] = "writer" /\ At("idle") /\ ~poisoned /\ RecoveredStartups = {}
  /\ IF Started(journal, r)
     THEN /\ told' = [told EXCEPT ![r] = IF Finished(journal, r) THEN LastHow(journal, Of(journal, "run_finished", r))
                                         ELSE IF Resolved(journal, r) THEN "cancelled" ELSE @]
          /\ UNCHANGED <<storeVars, loop, effects, running, refused>>
     ELSE /\ Accepts(Rec("run_started", r, NONE, "done"))
          /\ Write(Rec("run_started", r, NONE, "done"), [Quiet EXCEPT !.pc = "turn", !.run = r])
          /\ UNCHANGED runVars

Abort ==
  /\ ~At("idle") /\ ~loop.abort
  /\ loop' = [loop EXCEPT !.abort = TRUE]
  /\ UNCHANGED <<storeVars, runVars, refused>>

RequestModel ==
  /\ At("turn")
  /\ IF loop.abort THEN Turn(Ending("cancelled"))
     ELSE \/ WriteIfRoom(ByLoop("model_request_started", NONE, "done"), Go("asked"))
          \/ Turn(Ending("budget_exhausted"))
  /\ UNCHANGED runVars

Diagnose ==
  /\ \/ At("asked") /\ Write(ByLoop("model_request_diagnostic", NONE, "started"), Go("sending"))
     \/ /\ At("sending") /\ ~loop.abort
        /\ LET phase == LastHow(journal, Of(journal, "model_request_diagnostic", loop.run))
           IN /\ phase # "dispatched"
              /\ Write(ByLoop("model_request_diagnostic", NONE, IF phase = "started" THEN "request" ELSE "dispatched"), loop)
  /\ UNCHANGED runVars

ModelReturns ==
  /\ At("sending")
  /\ \/ ~loop.abort /\ Write(ByLoop("model_request_diagnostic", NONE, "finished"), Go("answered"))
     \/ Write(ByLoop("model_request_diagnostic", NONE, "finished"), Go("failing"))
  /\ UNCHANGED runVars

MutantRecordFailure ==
  /\ At("failing")
  /\ Write(ByLoop("model_request_failed", NONE, "final"), IF loop.abort THEN Ending("cancelled") ELSE Go("turn"))
  /\ UNCHANGED runVars

RecordFailure ==
  /\ At("failing")
  /\ LET retries == Cardinality({i \in Failures(journal, loop.run) : journal[i].how = "retry"})
     IN \/ /\ ~loop.abort /\ retries < Retries
           /\ Write(ByLoop("model_request_failed", NONE, "retry"), Go("turn"))
        \/ Write(ByLoop("model_request_failed", NONE, "final"), Ending(IF loop.abort THEN "cancelled" ELSE "failed"))
  /\ UNCHANGED runVars

\* A response that uses an identity again is one the store refuses; it is left out.
RecordResponse ==
  /\ At("answered")
  /\ \E calls \in Batches, refusal \in BOOLEAN :
       /\ IsInjective(calls) /\ Range(calls) \cap Requested(journal, loop.run) = {}
       /\ LET next == [loop EXCEPT !.pending = calls]
          IN WriteIfRoom(ByLoop("model_response", calls, "done"),
               IF loop.abort THEN [next EXCEPT !.pc = "ending", !.stop = "cancelled"]
               ELSE IF refusal THEN [next EXCEPT !.pc = "ending", !.stop = "failed"]
               ELSE [next EXCEPT !.pc = IF calls = <<>> THEN "judge" ELSE "batch"])
  /\ UNCHANGED runVars

\* completionValidation: the end is accepted, sent back, or cannot be judged
Judge ==
  /\ At("judge")
  /\ \/ Turn(Ending(IF loop.abort THEN "cancelled" ELSE "completed"))
     \/ Turn(Ending(IF loop.abort THEN "cancelled" ELSE "failed"))
     \/ /\ ~loop.abort
        /\ LET rejected == Cardinality(Of(journal, "completion_rejected", loop.run))
           IN WriteIfRoom(ByLoop("completion_rejected", NONE, "done"),
                          IF rejected >= Corrections THEN Ending("failed") ELSE Go("turn"))
  /\ UNCHANGED runVars

\* maintainContext: one summary a run, paid for only once it is on record
ReserveSummary ==
  LET e == ByLoop("summary_attempted", NONE, "done")
  IN /\ At("turn") /\ ~loop.abort /\ Valid(journal, e)
     /\ Write(e, Go("summarizing"))
     /\ UNCHANGED runVars

SettleSummary ==
  /\ At("summarizing")
  /\ \/ ~loop.abort /\ Write(ByLoop("summary_settled", NONE, "compacted"), Go("turn"))
     \/ Write(ByLoop("summary_settled", NONE, "failed"), Ending(IF loop.abort THEN "cancelled" ELSE "failed"))
  /\ UNCHANGED runVars

-----------------------------------------------------------------------------
(* One tool call: prepare, approve, reserve room, record, execute, record  *)

Call == Head(loop.pending)

EndBatch ==
  /\ At("batch") /\ loop.pending = <<>>
  /\ Turn(Go("turn")) \/ Turn(Ending("failed"))     \* checkProgress
  /\ UNCHANGED runVars

\* a call that cannot be prepared, is denied, or whose preconditions changed
DeclineCall ==
  /\ At("batch") \/ At("approved")
  /\ loop.pending # <<>>
  /\ IF loop.abort THEN Turn(Ending("cancelled"))
     ELSE \E v \in {"failed", "denied"} : Write(ByLoop("tool_completed", Call, v), Answered)
  /\ UNCHANGED runVars

ApproveCall ==
  /\ At("batch") /\ loop.pending # <<>> /\ ~loop.abort
  /\ Turn([loop EXCEPT !.pc = "approved", !.fresh = TRUE])
  /\ UNCHANGED runVars

ApprovalExpires ==
  /\ At("approved") /\ loop.fresh /\ Call \notin Reads
  /\ Turn([loop EXCEPT !.fresh = FALSE])
  /\ UNCHANGED runVars

PrepareCall ==
  /\ At("approved")
  /\ IF loop.abort THEN Turn(Ending("cancelled"))
     ELSE IF loop.fresh THEN WriteIfRoom(ByLoop("tool_prepared", Call, "done"), Go("prepared"))
     ELSE WriteIfRoom(ByLoop("tool_completed", Call, "denied"), Answered)
  /\ UNCHANGED runVars

ExecuteCall ==
  /\ At("prepared")
  /\ IF loop.abort THEN Turn(Ending("cancelled")) /\ UNCHANGED runVars
     ELSE \/ /\ Call \in Commands
             /\ Write(ByLoop("command_lifecycle", Call, "prepared"), Go("spawning"))
             /\ UNCHANGED runVars
          \/ /\ Call \notin Commands
             /\ Turn(Go("executing"))
             /\ effects' = [effects EXCEPT ![<<loop.run, Call>>] = @ + 1]
             /\ UNCHANGED <<running, told>>

SpawnCommand ==
  /\ At("spawning")
  /\ effects' = [effects EXCEPT ![<<loop.run, Call>>] = @ + 1]
  /\ running' = running \cup {<<loop.run, Call>>}
  /\ Write(ByLoop("command_lifecycle", Call, "running"), Go("executing"))
  /\ UNCHANGED told

\* the result is known, or it is not; without side effects an error is a result
ToolReturns ==
  /\ At("executing")
  /\ \/ \E v \in {"completed", "failed"} : Write(ByLoop("tool_completed", Call, v), Answered)
     \/ Call \in Reads /\ Write(ByLoop("tool_completed", Call, IF loop.abort THEN "cancelled" ELSE "failed"), Answered)
     \/ Call \notin Reads /\ Turn(Ending("recovery_required"))
  /\ UNCHANGED runVars

\* The supervisor reports the end of a command, or that it cannot be confirmed.
CommandEnds(h, r, c) ==
  /\ host[h] = "writer" /\ <<r, c>> \in running
  /\ \E v \in {"finished", "unknown"} :
       LET e == Rec("command_lifecycle", r, c, v)
       IN /\ v = "unknown" => Accepts(e)
          /\ running' = IF v = "finished" THEN running \ {<<r, c>>} ELSE running
          /\ IF Accepts(e) THEN Land(e) \/ Break(e) ELSE UNCHANGED <<journal, torn, poisoned>>
  /\ UNCHANGED <<lockVars, live, loop, effects, told, refused>>

-----------------------------------------------------------------------------
(* The end of the loop                                                     *)

MutantOwed == loop.pending # <<>>

Owed == loop.pending # <<>> /\ loop.stop # "recovery_required"

EndPending ==
  /\ At("ending") /\ Owed
  /\ Write(ByLoop("tool_completed", Call, IF loop.stop = "cancelled" THEN "cancelled" ELSE "not_executed"), Answered)
  /\ UNCHANGED runVars

MutantFinish ==
  /\ At("ending") /\ ~Owed /\ ~\E c \in Commands : <<loop.run, c>> \in running
  /\ Write(ByLoop("run_finished", NONE, loop.stop), Quiet)
  /\ told' = [told EXCEPT ![loop.run] = loop.stop]
  /\ UNCHANGED <<effects, running>>

\* the host has closed the run's commands, or gives up without a result
Finish ==
  /\ At("ending") /\ ~Owed
  /\ LET mine == {c \in Commands : <<loop.run, c>> \in running}
         unsure == {c \in mine : "unknown" \in Progress(journal, loop.run, c)}
     IN IF unsure # {} THEN Turn(Quiet) /\ UNCHANGED told
        ELSE /\ mine = {}
             /\ Write(ByLoop("run_finished", NONE, loop.stop), Quiet)
             /\ told' = IF Accepts(ByLoop("run_finished", NONE, loop.stop)) /\ poisoned' = FALSE
                        THEN [told EXCEPT ![loop.run] = loop.stop] ELSE told
  /\ UNCHANGED <<effects, running>>

-----------------------------------------------------------------------------

LoopStep ==
  \/ RequestModel \/ Diagnose \/ ModelReturns \/ RecordFailure \/ RecordResponse \/ Judge
  \/ ReserveSummary \/ SettleSummary
  \/ EndBatch \/ DeclineCall \/ ApproveCall \/ PrepareCall \/ ExecuteCall \/ SpawnCommand \/ ToolReturns
  \/ EndPending \/ Finish

Beside == UNCHANGED <<loop, runVars, refused>>
\* The executor closes the store after the loop, and a process that dies takes
\* the loop with it, though not the commands it has started.
HostStep(h) ==
  \/ (CreateLock(h) \/ WriteLock(h) \/ ContendLock(h) \/ ProbeOwner(h) \/ ReclaimLock(h) \/ Load(h)) /\ Beside
  \/ At("idle") /\ Close(h) /\ Beside
  \/ Die(h) /\ loop' = (IF host[h] = "writer" THEN Quiet ELSE loop) /\ UNCHANGED <<runVars, refused>>
  \/ \E r \in Runs :
       \/ At("idle") /\ (PrepareStartup(h, r) \/ CloseStartup(h, r) \/ ResolveRecovery(h, r)) /\ Beside
       \/ BeginRun(h, r)
       \/ \E c \in Commands : CommandEnds(h, r, c)

Next == LoopStep \/ Abort \/ ApprovalExpires \/ \E h \in Hosts : HostStep(h)

Spec == Init /\ [][Next]_vars

-----------------------------------------------------------------------------
(* Properties                                                              *)

\* Two processes never have the store open together, whoever takes the lock of
\* a dead one while another opens it (store-files.ts acquireWriter).
OneWriter == Cardinality({h \in Hosts : host[h] \in {"loading", "writer"}}) <= 1

\* The journal and the world agree, across failed appends, crashes and
\* recoveries: a tool runs at most once for a call and never before the journal
\* says that it was prepared; and of the calls with side effects, what the
\* journal calls completed has run, what it calls denied, cancelled or not
\* executed has not.
JournalIsTrue ==
    /\ \A r \in Runs, c \in Calls :
          effects[<<r, c>>] > 0 => effects[<<r, c>>] = 1 /\ Prepared(journal, r, c)
    /\ \A i \in DOMAIN journal : LET e == journal[i] IN
          e.type = "tool_completed" /\ e.item \notin Reads =>
              /\ e.how = "completed" => effects[<<e.run, e.item>>] = 1
              /\ e.how \in {"denied", "cancelled", "not_executed"} => effects[<<e.run, e.item>>] = 0

\* An effect whose result is not on record is never passed over: a run that is
\* over for its user has left none, and no command of it is alive; and while
\* there is one of an earlier run no other run is on its way.
DoubtIsKept ==
    \A r \in Runs :
        LET known == \A c \in Calls : effects[<<r, c>>] = 1 => Completed(journal, r, c)
            alive == \E c \in Commands : <<r, c>> \in running
            over == (Finished(journal, r) /\ ~Blocked(journal, r)) \/ Resolved(journal, r)
        IN /\ ~known \/ alive => ~over
           /\ ~known => \A s \in Runs \ {r} : ~Active(journal, s)

\* A result that a caller was given is the one on disk, also after a crash.
ResultsAreDurable ==
    \A r \in Runs : told[r] # "none" =>
        \/ Finished(journal, r) /\ LastHow(journal, Of(journal, "run_finished", r)) = told[r]
        \/ Resolved(journal, r) /\ told[r] = "cancelled"

\* The loop runs in a living writer, on a run that is active in the journal: no other
\* process takes its run for left behind.
LoopIsServed ==
    ~At("idle") => Active(journal, loop.run) /\ \E h \in Hosts : host[h] = "writer"

\* The loop can always write what it has to.  It is served, and never writes a record
\* that the store refuses: runAgent and validateEvent, written apart, agree on every
\* sequence of events (but for a command that becomes unknown while its start is
\* returned, whose result is refused and whose run is left to its recovery).  And
\* a run that has asked its model has room for its end: for the outcome of a
\* request or summary under way, and the end of the commands it has started.
LoopIsAccepted ==
    /\ LoopIsServed
    /\ ~refused
    /\ \A r \in Runs : Attempts(journal, r) > 0 /\ Active(journal, r) =>
          LET owed == {c \in Commands : Uncertain(journal, r, c) /\ "unknown" \notin Progress(journal, r, c)}
          IN Len(journal) + Cardinality(owed) + 1
             + (IF ModelPending(journal, r) \/ SummaryPending(journal, r) THEN 1 ELSE 0) <= MaxRecords

=============================================================================
