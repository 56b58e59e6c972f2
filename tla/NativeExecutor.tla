---------------------------- MODULE NativeExecutor ----------------------------
(***************************************************************************)
(* One native session in the host (engines/native/structured-executor.ts): *)
(* its runs, the resumption, compaction and confirmation of its journal,   *)
(* the reads of the interface, and what decides whether the directories of *)
(* the session may be given back.  A run is carried out by WorkerHost.     *)
(* Operators named Mutant... are wrong on purpose.                         *)
(***************************************************************************)
EXTENDS WorkerHost

CONSTANTS MaxCrashes, NONE

ASSUME ExecutorConstants == MaxCrashes \in Nat /\ NONE \notin Requests

VARIABLES active,        \* the entry of the session in active
          operation,     \* ... in contextOperations
          hydration,     \* ... in hydration
          recovery,      \* the session is in recovery
          acknowledged,  \* ... in acknowledged
          marked,        \* the confirmation on disk names the head of the journal
          tasksHeld,     \* ... in taskLeaseFailures
          maintenance,   \* maintenance, or of this session
          exiting,       \* hydrationClosed
          crashes,
          told,          \* the last answer given, and to which request
          collided,      \* the session met its own lock on the journal
          lifted         \* a read during a run took the session out of recovery

hostVars == <<active, operation, hydration, recovery, acknowledged, marked, tasksHeld,
              maintenance, exiting, crashes, told, collided, lifted>>
vars == <<ledger, writer, poisoned, effects, workerVars, hostVars>>

NoRun == [req |-> NONE, pc |-> "none", aborted |-> FALSE, identity |-> FALSE, store |-> FALSE,
          tasks |-> FALSE, doubt |-> FALSE, tasksOnly |-> FALSE, failed |-> FALSE, result |-> "failed"]
NoOperation == [kind |-> "none", pc |-> "none", aborted |-> FALSE, store |-> FALSE, doubt |-> FALSE]
NoHydration == [pc |-> "none", of |-> "none", strict |-> FALSE]

Running == active.pc # "none"
Operating == operation.pc # "none"
has == Running \/ Operating \/ tasksHeld
recoveryRequired == tasksHeld \/ (recovery /\ ~acknowledged)
RunCurrent == ~active.aborted /\ ~maintenance
OperationCurrent == ~operation.aborted /\ ~maintenance

\* what opening the journal makes of a run that is found active
Reopened == [r \in Requests |-> CASE ledger[r] = "running" -> "safe"
                                  [] ledger[r] = "prepared" -> "doubt" [] OTHER -> ledger[r]]
\* NativeRunStore.recoveryRequired
Blocked == \E r \in Requests : ledger[r] \in {"safe", "doubt"}
Required == poisoned \/ Blocked

Init ==
  /\ ledger = [r \in Requests |-> "none"]
  /\ effects = [r \in Requests |-> [n \in 1 .. MaxRounds |-> 0]]
  /\ writer = "none" /\ poisoned = FALSE /\ WorkerInit
  /\ active = NoRun /\ operation = NoOperation /\ hydration = NoHydration
  /\ recovery = FALSE /\ acknowledged = FALSE /\ marked = FALSE
  /\ tasksHeld = FALSE /\ maintenance = FALSE /\ exiting = FALSE /\ crashes = 0
  /\ told = [req |-> NONE, result |-> "none"]
  /\ collided = FALSE /\ lifted = FALSE

\* NativeRunStore.open begins: one writer at a time
TakeWriter(who) == collided' = (collided \/ writer # "none") /\ writer' = who
\* it returns, with the run that was found active recovered
OpensJournal == ledger' = Reopened /\ poisoned' = FALSE /\ marked' = (marked /\ Reopened = ledger)

-----------------------------------------------------------------------------
(* Reads of the interface                                                  *)

\* hydrate(): whose open journal it reads, if the session has one; a run or an
\* operation between two openings makes it return at once.
Target == IF Running THEN "run" ELSE IF Operating THEN "operation" ELSE "none"
Presentable == (Running => active.store) /\ (~Running /\ Operating => operation.store)
StartHydration(strict) ==
  hydration' = [pc |-> IF Target = "none" THEN "opening" ELSE "reading", of |-> Target, strict |-> strict]

\* page, search, exports, readAgentResult
Live == Running /\ ~active.doubt /\ ~recovery /\ ~tasksHeld
Read ==
  /\ ~exiting /\ ~Live /\ hydration.pc = "none" /\ Presentable
  /\ StartHydration(FALSE)
  /\ IF Target = "none" THEN TakeWriter("hydration") ELSE UNCHANGED <<writer, collided>>
  /\ UNCHANGED <<ledger, poisoned, effects, workerVars, active, operation, recovery, acknowledged,
                 marked, tasksHeld, maintenance, exiting, crashes, told, lifted>>

\* The host reads again after it has let go of the journal (the entries are gone
\* in the next state); a read that is under way serves instead.
ReadsAgain ==
  IF exiting THEN UNCHANGED <<hydration, collided>> /\ writer' = "none"
  ELSE IF hydration.pc # "none" THEN hydration' = [hydration EXCEPT !.strict = TRUE] /\ writer' = "none" /\ UNCHANGED collided
  ELSE hydration' = [pc |-> "opening", of |-> "none", strict |-> TRUE] /\ writer' = "hydration" /\ UNCHANGED collided

HydrationFails ==
  /\ hydration.pc # "none"
  /\ hydration' = NoHydration
  /\ writer' = IF hydration.of = "none" THEN "none" ELSE writer
  /\ recovery' = (recovery \/ hydration.strict)
  /\ UNCHANGED <<ledger, poisoned, effects, workerVars, active, operation, acknowledged, marked,
                 tasksHeld, maintenance, exiting, crashes, told, collided, lifted>>

HydrationOpens ==
  /\ hydration.pc = "opening"
  /\ OpensJournal
  /\ hydration' = [hydration EXCEPT !.pc = "reading"]
  /\ UNCHANGED <<writer, effects, workerVars, active, operation, recovery, acknowledged,
                 tasksHeld, maintenance, exiting, crashes, told, collided, lifted>>

\* the journal decides about recovery, and the confirmation on disk about its
\* acknowledgement
OwnerDoubt == (hydration.of = "run" /\ active.doubt) \/ (hydration.of = "operation" /\ operation.doubt)
HydrationDecides ==
  /\ hydration.pc = "reading"
  /\ hydration' = NoHydration
  /\ writer' = IF hydration.of = "none" THEN "none" ELSE writer
  /\ IF Required THEN recovery' = TRUE /\ acknowledged' = marked /\ lifted' = FALSE
     ELSE IF OwnerDoubt THEN UNCHANGED <<recovery, acknowledged, lifted>>
     ELSE /\ recovery' = FALSE /\ acknowledged' = FALSE
          /\ lifted' = (lifted \/ (recovery /\ hydration.of = "run"))
  /\ UNCHANGED <<ledger, poisoned, effects, workerVars, active, operation, marked,
                 tasksHeld, maintenance, exiting, crashes, told, collided>>

-----------------------------------------------------------------------------
(* A run (execute)                                                         *)

Send(r) ==
  /\ ~has /\ ~maintenance
  /\ active' = [NoRun EXCEPT !.req = r, !.pc = "waiting"]
  /\ told' = [req |-> NONE, result |-> "none"]
  /\ loop' = NoLoop /\ port' = Idle /\ delta' = "none" /\ late' = FALSE /\ h' = Account
  /\ UNCHANGED <<ledger, writer, poisoned, effects, operation, hydration, recovery, acknowledged,
                 marked, tasksHeld, maintenance, exiting, crashes, collided, lifted>>

\* what the body of execute leaves alone
runFrame == <<effects, operation, hydration, tasksHeld, maintenance, exiting, crashes, told, lifted>>
Thrown(a) == [a EXCEPT !.failed = TRUE, !.result = "failed", !.pc = "closing"]

\* the hydration that was under way is over, or its failure is the run's
StartRun ==
  /\ active.pc = "waiting" /\ hydration.pc = "none"
  /\ \/ active' = Thrown(active) /\ UNCHANGED <<writer, collided>>
     \/ RunCurrent /\ active' = [active EXCEPT !.pc = "opening"] /\ TakeWriter("run")
  /\ UNCHANGED <<ledger, poisoned, workerVars, recovery, acknowledged, marked, runFrame>>

RunOpened ==
  /\ active.pc \in {"opening", "reopening"}
  /\ \/ writer' = "none" /\ active' = Thrown(active) /\ UNCHANGED <<ledger, poisoned, marked>>
     \/ /\ OpensJournal /\ UNCHANGED writer
        /\ active' = IF active.pc = "opening" THEN [active EXCEPT !.store = TRUE, !.pc = "receipts"]
                     ELSE IF RunCurrent THEN [active EXCEPT !.store = TRUE, !.identity = TRUE, !.pc = "preparing"]
                     ELSE Thrown([active EXCEPT !.store = TRUE])
  /\ UNCHANGED <<workerVars, recovery, acknowledged, collided, runFrame>>

\* The receipt of a request that has been sent before; for a new one the journal
\* is closed and opened again with what must not appear in it.
Answered == {"completed", "ended", "resolved"}
MutantReceipts ==
  /\ active.pc = "receipts"
  /\ recovery' = (recovery \/ Required)
  /\ \/ active' = Thrown(active)
     \/ /\ RunCurrent /\ ledger[active.req] \in Answered
        /\ active' = [active EXCEPT !.pc = "closing", !.result = "success"]
     \/ /\ RunCurrent /\ ledger[active.req] = "none" /\ ~recovery'
        /\ active' = [active EXCEPT !.pc = "reopening", !.store = FALSE]
  /\ UNCHANGED <<ledger, writer, poisoned, workerVars, acknowledged, marked, collided, runFrame>>

Receipts ==
  /\ active.pc = "receipts"
  /\ recovery' = (recovery \/ Required)
  /\ \/ active' = Thrown(active)
     \/ /\ RunCurrent /\ ledger[active.req] \in Answered
        /\ active' = [active EXCEPT !.pc = "closing",
                        !.result = IF ledger[active.req] = "completed" THEN "success" ELSE "failed"]
     \/ /\ RunCurrent /\ ledger[active.req] = "none" /\ ~recovery'
        /\ active' = [active EXCEPT !.pc = "reopening", !.store = FALSE]
  /\ UNCHANGED <<ledger, writer, poisoned, workerVars, acknowledged, marked, collided, runFrame>>

\* the tasks' store, instructions, budgets, tools; then the worker is started
Prepare ==
  /\ active.pc = "preparing"
  /\ \/ \E tasks \in BOOLEAN : active' = Thrown([active EXCEPT !.tasks = tasks]) /\ UNCHANGED <<ledger, poisoned, effects, workerVars>>
     \/ RunCurrent /\ active' = [active EXCEPT !.tasks = TRUE, !.pc = "working"] /\ Fork
  /\ UNCHANGED <<writer, recovery, acknowledged, marked, collided, operation, hydration, tasksHeld,
                 maintenance, exiting, crashes, told, lifted>>

\* the worker, its host and the tools; after an unconfirmed end, what was taken
RunStep ==
  /\ \/ active.pc = "working" /\ WorkerStep(active.req)
     \/ Running /\ active.pc # "working" /\ h.settled = "unconfirmed" /\ (PortStep(active.req) \/ DeltaShown)
  /\ active' = [active EXCEPT !.doubt = @ \/ h'.unclosed]
  /\ marked' = (marked /\ ledger' = ledger)
  /\ UNCHANGED <<writer, operation, hydration, recovery, acknowledged, tasksHeld, maintenance, exiting,
                 crashes, told, collided, lifted>>

\* the supervisor of a command of the run cannot vouch for it (onFailure)
CommandInDoubt ==
  /\ active.pc = "working" /\ ~active.doubt
  /\ active' = [active EXCEPT !.doubt = TRUE, !.aborted = TRUE]
  /\ recovery' = TRUE /\ CancelRun
  /\ UNCHANGED <<ledger, writer, poisoned, loop, port, delta, late, acknowledged, marked, collided, runFrame>>

MutantWorked ==
  /\ active.pc = "working" /\ h.settled # "no"
  /\ active' = IF h.settled = "resolved"
               THEN [active EXCEPT !.pc = "closing", !.result = IF h.done = "completed" THEN "success" ELSE "failed"]
               ELSE Thrown([active EXCEPT !.doubt = @ \/ h.settled = "unconfirmed"])
  /\ Settle
  /\ UNCHANGED <<ledger, writer, poisoned, recovery, acknowledged, marked, collided, runFrame>>

\* An end that is not on the journal, or says so itself, is for recovery.  What
\* follows may still fail, and the answer is then a failure.
Worked ==
  /\ active.pc = "working" /\ h.settled # "no"
  /\ LET lost == h.settled = "resolved" /\ h.done \in {"lost", "recovery_required"}
     IN recovery' = (recovery \/ lost) /\ acknowledged' = (acknowledged /\ ~lost)
  /\ \/ /\ h.settled = "resolved"
        /\ active' = [active EXCEPT !.pc = "closing", !.result = IF h.done = "completed" THEN "success" ELSE "failed"]
     \/ active' = Thrown([active EXCEPT !.doubt = @ \/ h.settled = "unconfirmed"])
  /\ Settle
  /\ UNCHANGED <<ledger, writer, poisoned, marked, collided, runFrame>>

\* children, commands, services and the processes the run owns
CloseAll ==
  /\ active.pc = "closing"
  /\ \E sure \in BOOLEAN : active' = [active EXCEPT !.pc = "storing", !.doubt = @ \/ ~sure]
  /\ UNCHANGED <<ledger, writer, poisoned, workerVars, recovery, acknowledged, marked, collided, runFrame>>

\* The journal is closed; if not, or if its last projection failed, in doubt.
CloseStore ==
  /\ active.pc = "storing"
  /\ \/ /\ active' = [active EXCEPT !.pc = "tasks", !.store = FALSE]
        /\ writer' = IF active.store THEN "none" ELSE writer
        /\ UNCHANGED recovery
     \/ /\ active.store /\ recovery' = TRUE
        /\ \E closed \in BOOLEAN :
             /\ active' = [active EXCEPT !.pc = "tasks", !.store = ~closed, !.doubt = TRUE]
             /\ writer' = IF closed THEN "none" ELSE writer
  /\ UNCHANGED <<ledger, poisoned, workerVars, acknowledged, marked, collided, runFrame>>

Answers(a, held) == IF held /\ (a.doubt \/ a.result = "failed") THEN "failed" ELSE a.result
\* The store of the tasks is closed and the run ends: with its entry gone, after
\* a failure with the journal read again; or held, its directories with it.
EndRun ==
  /\ active.pc = "tasks"
  /\ \E sure \in BOOLEAN :
       LET held == active.doubt \/ ~sure
       IN /\ ~sure => active.tasks
          /\ tasksHeld' = ~sure
          /\ told' = [req |-> active.req, result |-> Answers(active, held)]
          /\ recovery' = (recovery \/ held)
          /\ IF held
             THEN /\ active' = [active EXCEPT !.pc = "held", !.doubt = TRUE, !.tasks = ~sure,
                                               !.tasksOnly = ~active.doubt]
                  /\ UNCHANGED <<writer, hydration, collided>>
             ELSE /\ active' = NoRun
                  /\ IF active.failed /\ active.identity THEN ReadsAgain
                     ELSE UNCHANGED <<writer, hydration, collided>>
  /\ UNCHANGED <<ledger, poisoned, effects, workerVars, operation, acknowledged, marked, maintenance,
                 exiting, crashes, lifted>>

\* whenReleased tries the tasks' store again if nothing else is held
Release ==
  /\ active.pc = "held" /\ active.tasksOnly /\ hydration.pc = "none"
  /\ active' = NoRun /\ tasksHeld' = FALSE
  /\ ReadsAgain
  /\ UNCHANGED <<ledger, poisoned, effects, workerVars, operation, recovery, acknowledged, marked,
                 maintenance, exiting, crashes, told, lifted>>

-----------------------------------------------------------------------------
(* Resuming, compacting and confirming a journal (contextOperation)        *)

operationFrame == <<effects, workerVars, active, tasksHeld, maintenance, exiting, crashes, told, lifted>>
Ends(o) == [o EXCEPT !.pc = "closing"]

ContextStart ==
  /\ ~has /\ ~maintenance
  /\ \E kind \in {"resume", "compact", "confirm"} : operation' = [NoOperation EXCEPT !.kind = kind, !.pc = "waiting"]
  /\ UNCHANGED <<ledger, writer, poisoned, hydration, recovery, acknowledged, marked, collided, operationFrame>>

ContextOpens ==
  /\ operation.pc = "waiting" /\ hydration.pc = "none"
  /\ \/ operation' = Ends(operation) /\ UNCHANGED <<writer, collided>>
     \/ OperationCurrent /\ operation' = [operation EXCEPT !.pc = "opening"] /\ TakeWriter("operation")
  /\ UNCHANGED <<ledger, poisoned, hydration, recovery, acknowledged, marked, operationFrame>>

ContextOpened ==
  /\ operation.pc = "opening"
  /\ \/ writer' = "none" /\ operation' = Ends(operation) /\ UNCHANGED <<ledger, poisoned, marked>>
     \/ /\ OpensJournal /\ UNCHANGED writer
        /\ operation' = [operation EXCEPT !.store = TRUE, !.pc = "acting"]
  /\ UNCHANGED <<hydration, recovery, acknowledged, collided, operationFrame>>

\* a record that is appended, or may have been before the store gave up
Resolved == [r \in Requests |-> IF ledger[r] = "safe" THEN "resolved" ELSE ledger[r]]
Resume ==
  /\ operation.kind = "resume" /\ OperationCurrent
  /\ \E r \in Requests : ledger[r] = "safe"
  /\ \A r \in Requests : ledger[r] # "doubt"
  /\ \/ ledger' = Resolved /\ marked' = FALSE /\ recovery' = FALSE /\ acknowledged' = FALSE /\ UNCHANGED poisoned
     \/ /\ poisoned' = TRUE /\ UNCHANGED <<recovery, acknowledged>>
        /\ \/ ledger' = Resolved /\ marked' = FALSE
           \/ UNCHANGED <<ledger, marked>>
  /\ operation' = Ends(operation)

\* a summary by a worker of its own, which may leave something behind
Compact ==
  /\ operation.kind = "compact" /\ OperationCurrent /\ ~Required /\ ~recovery
  /\ marked' = FALSE /\ poisoned' \in BOOLEAN
  /\ \E doubt \in BOOLEAN : operation' = [Ends(operation) EXCEPT !.doubt = doubt]
  /\ UNCHANGED <<ledger, recovery, acknowledged>>

\* the marker is on disk once it is renamed, whether or not that is confirmed
Confirm ==
  /\ operation.kind = "confirm" /\ OperationCurrent /\ recoveryRequired /\ Required
  /\ marked' = TRUE /\ acknowledged' \in {acknowledged, TRUE}
  /\ operation' = Ends(operation)
  /\ UNCHANGED <<ledger, poisoned, recovery>>

ContextActs ==
  /\ operation.pc = "acting"
  /\ \/ Resume \/ Compact \/ Confirm
     \/ operation' = Ends(operation) /\ UNCHANGED <<ledger, poisoned, recovery, acknowledged, marked>>
  /\ UNCHANGED <<writer, hydration, collided, operationFrame>>

\* only the journal decides what has been committed: it is read again
ContextCloses ==
  /\ operation.pc = "closing"
  /\ \E closed \in BOOLEAN :
       /\ ~closed => operation.store
       /\ IF closed /\ ~operation.doubt
          THEN operation' = NoOperation /\ ReadsAgain /\ UNCHANGED <<recovery, acknowledged>>
          ELSE /\ operation' = [operation EXCEPT !.pc = "held", !.doubt = TRUE, !.store = ~closed]
               /\ writer' = IF closed THEN "none" ELSE writer
               /\ recovery' = TRUE /\ acknowledged' = FALSE
               /\ UNCHANGED <<hydration, collided>>
  /\ UNCHANGED <<ledger, poisoned, marked, operationFrame>>

-----------------------------------------------------------------------------
(* The host                                                                *)

Aborts ==
  /\ active' = [active EXCEPT !.aborted = Running]
  /\ operation' = [operation EXCEPT !.aborted = Operating]
  /\ IF active.pc = "working" THEN CancelRun ELSE h' = h
ownerFrame == <<ledger, writer, poisoned, effects, loop, port, delta, late, hydration, recovery,
                acknowledged, marked, tasksHeld, crashes, told, collided, lifted>>

\* (once a run or an operation is closing, its signal is not looked at any more)
Ended == {"closing", "storing", "tasks", "held"}
Interrupt ==
  /\ \/ Running /\ ~active.aborted /\ active.pc \notin Ended
     \/ Operating /\ ~operation.aborted /\ operation.pc \notin Ended
  /\ Aborts
  /\ UNCHANGED <<maintenance, exiting, ownerFrame>>

\* while the worker works, what is refused for maintenance the model leaves open
SetMaintenance ==
  /\ ~exiting /\ active.pc # "working" /\ maintenance' = ~maintenance
  /\ UNCHANGED <<active, operation, h, exiting, ownerFrame>>

Shutdown ==
  /\ ~exiting /\ exiting' = TRUE /\ maintenance' = TRUE
  /\ Aborts /\ UNCHANGED ownerFrame

\* The process of the host ends, its worker with it; when it is back, initialize
\* reads the journal.
Crash ==
  /\ crashes < MaxCrashes /\ crashes' = crashes + 1
  /\ loop' = NoLoop /\ port' = Idle /\ delta' = "none" /\ late' = FALSE /\ h' = Account
  /\ active' = NoRun /\ operation' = NoOperation
  /\ hydration' = [pc |-> "opening", of |-> "none", strict |-> TRUE]
  /\ writer' = "hydration" /\ poisoned' = FALSE
  /\ recovery' = FALSE /\ acknowledged' = FALSE /\ tasksHeld' = FALSE
  /\ maintenance' = FALSE /\ exiting' = FALSE /\ lifted' = FALSE
  /\ UNCHANGED <<ledger, effects, marked, told, collided>>

Next ==
  \/ Read \/ HydrationFails \/ HydrationOpens \/ HydrationDecides
  \/ \E r \in Requests : Send(r)
  \/ StartRun \/ RunOpened \/ Receipts \/ Prepare \/ RunStep \/ CommandInDoubt
  \/ Worked \/ CloseAll \/ CloseStore \/ EndRun \/ Release
  \/ ContextStart \/ ContextOpens \/ ContextOpened \/ ContextActs \/ ContextCloses
  \/ Interrupt \/ SetMaintenance \/ Shutdown \/ Crash

Spec == Init /\ [][Next]_vars

-----------------------------------------------------------------------------
(* Properties                                                              *)

\* A call of a request is carried out at most once, however often that is sent, stopped or
\* interrupted by a crash, and its sender is told of success only when the journal
\* on disk says the run has completed.
AnswersAreTrue ==
  /\ \A r \in Requests : \A n \in 1 .. MaxRounds : effects[r][n] <= 1
  /\ told.result = "success" => ledger[told.req] = "completed"

\* Once the session is neither running nor held, so that its directories go back,
\* its worker is gone, no tool is being carried out and no journal left open by a
\* run; and an effect that is not known to have happened keeps the session in
\* recovery until a person has confirmed it.  Excepted is the read that joined a run
\* about to end (lifted), for as long as nothing opens the journal, and an exit, after
\* which the journal is read before anything else.
Unknown == \E r \in Requests : ledger[r] \in {"prepared", "doubt"}
DirectoriesStay ==
  ~has => /\ loop.process \notin {"starting", "alive"} /\ InFlight(port, delta) = 0
          /\ writer \notin {"run", "operation"}
          /\ Unknown => recoveryRequired \/ acknowledged \/ hydration.strict \/ lifted \/ exiting

\* The session does not take its own for strangers: the host ends a worker for a
\* request out of place only when the time for approval ran out while it was on its
\* way, and no opening of the journal meets one that the session has not closed.
NoFalseAlarm == (h.failure = "breach" => late) /\ ~collided
=============================================================================
