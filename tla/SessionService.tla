--------------------------- MODULE SessionService ---------------------------
(***************************************************************************)
(* SessionService: who may run, where, and when.  A message or a terminal  *)
(* start is admitted (reserve), gets its working directories (acquire-     *)
(* Execution, draining idle sessions that hold them), waits for capacity   *)
(* (evicting idle sessions), runs, and gives its directories back          *)
(* (refreshDirectoryRelease).  Between any two awaits of one call the      *)
(* others, stops, management jobs and engine maintenance may step in.      *)
(*                                                                         *)
(* One action is the code between two awaits.  The engines are seen as the *)
(* service sees them: has, isBusy, stopIdle, whenReleased.  The queue and  *)
(* the workflows are seen as what holds a session across several calls     *)
(* ("outer"); ChatQueue.tla models the queue itself.                       *)
(***************************************************************************)
EXTENDS DirectoryExecution

CONSTANTS
    Terminals,      \* sessions whose execution mode is terminal
    Provider,       \* [SessionIds -> Providers]
    Conversation,   \* [SessionIds -> conversations]
    Root, Cwd,      \* [SessionIds -> Paths]: worktree root and directory
    Base,           \* [SessionIds -> Paths]: the repository of a worktree
    Worktrees,      \* sessions that own a worktree
    Sources,        \* paths isolated sessions are created from
    MaxSessions,    \* settings.maxSessions
    Jobs, JobKinds, \* management operations at a time, and their kinds
    Outers,         \* sessions with a queue or workflow that calls them
    Stoppable,      \* sessions the user stops or interrupts
    Maintainable,   \* engines taken down for maintenance
    MaxCancels,     \* bound: cancellations of one session
    MaxEpochs,      \* bound: maintenances of one engine
    Faults,         \* whether awaited calls may fail and processes die
    NoLease, NoOne  \* the absence of a lease, of a session

ASSUME ServiceAssumption ==
    /\ Terminals \subseteq SessionIds
    /\ Provider \in [SessionIds -> Providers]
    /\ Root \in [SessionIds -> Paths] /\ Cwd \in [SessionIds -> Paths]
    /\ Base \in [SessionIds -> Paths] /\ Sources \subseteq Paths
    /\ MaxSessions \in Nat \ {0} /\ MaxCancels \in Nat /\ MaxEpochs \in Nat
    /\ Faults \in BOOLEAN
    /\ Generations = 0 .. MaxCancels
    /\ NoLease \notin Lease /\ NoOne \notin SessionIds
    \* randomUUID never runs out of identities
    /\ IsFiniteSet(SessionIds) /\ IsFiniteSet(Tokens)
    /\ Cardinality(Tokens) > Cardinality(SessionIds)
    \* a native session's conversation is a randomUUID of its own
    /\ \A s, t \in SessionIds :
          s \notin Terminals /\ Provider[s] = "native" /\ Conversation[t] = Conversation[s]
              => t = s

VARIABLES
    sessions,         \* the ids with a record in the store
    executionLeases,  \* [SessionIds -> Lease or NoLease]
    admissions,       \* ids with an operation past the door of reserve
    lifecycle,        \* ids under management or being evicted
    directoryLocks,   \* canonical directories under a management operation
    cancellations,    \* [SessionIds -> 0..MaxCancels]
    epochs,           \* maintenanceEpochs, [Providers -> 0..MaxEpochs]
    maintenance,      \* the engine under maintenance, and how far it is
    releaseOp,        \* releaseOperations: the lease each is about to release
    driver,           \* the execution engine's process of each session
    recovery,         \* ids whose last run left unknown side effects
    outer,            \* ids a queue item or a workflow holds
    call,             \* the runChat or start in progress for each id
    stops,            \* ids with a stop() waiting for the process
    jobs,             \* the management operations in progress
    revoked           \* history: ids whose call a cancel or maintenance came after

serviceVars == <<leases, sessions, executionLeases, admissions, lifecycle,
    directoryLocks, cancellations, epochs, maintenance, releaseOp, driver,
    recovery, outer, call, stops, jobs, revoked>>

\* Groups of variables for UNCHANGED.
leaseVars == <<leases, executionLeases>>
fenceVars == <<cancellations, epochs, maintenance>>
worldVars == <<sessions, outer, stops>>

Structured(s) == s \notin Terminals
Claude(s) == Structured(s) /\ Provider[s] = "claude"
Native(s) == Structured(s) /\ Provider[s] = "native"

NoCall == [pc |-> "none", cancelled |-> 0, epoch |-> 0, goal |-> "none",
           todo |-> {}, victim |-> NoOne]
NoJob == [kind |-> "none", session |-> NoOne, pc |-> "none", epoch |-> 0,
          cancelled |-> 0, keys |-> {}, todo |-> {}, waiting |-> NoOne, recover |-> FALSE]

-----------------------------------------------------------------------------
(* What the service reads.  Operators named Mutant... are wrong on purpose: *)
(* each is a slip the code could have made in the definition below it.     *)

\* executionRoots and the path of the session itself.
Keys(s) == {Canonical[Root[s]], Canonical[Cwd[s]]}
Place(s) == Canonical[Cwd[s]]

\* A context operation of a native session counts as its execution.
ContextBusy(s) == \E j \in Jobs :
    jobs[j].kind = "context" /\ jobs[j].session = s /\ jobs[j].pc = "action"

Has(s) == driver[s] # "none" \/ ContextBusy(s)

\* chat.isBusy: a claude process between two messages is not busy; a native
\* session and a terminal are for as long as they exist.
IsBusy(s) == IF Claude(s) THEN driver[s] \in {"busy", "ending"} ELSE Has(s)

occupied(s) == Has(s) \/ s \in admissions

taskOccupied(s) ==
    \/ IsBusy(s) \/ s \in admissions \/ releaseOp[s] # NoLease
    \/ s \in outer \/ s \in recovery

Unlocked(keys) == ~RootsOverlap(keys, directoryLocks)

EngineAvailable(p) == maintenance.engine # p

\* captureEngineAdmission: the engine is available and was not maintained since.
EngineCurrent(s, epoch) == EngineAvailable(Provider[s]) /\ epoch = epochs[Provider[s]]

\* assertUnlocked, against the given set of ids under management.
SessionUnlocked(s, managed) ==
    EngineAvailable(Provider[s]) /\ s \notin managed /\ Unlocked({Place(s)})

MutantRecoveryClear(keys) == \A t \in sessions \cap recovery : keys \cap Keys(t) = {}

\* assertRecoveryDirectories.
RecoveryClear(keys) ==
    \A t \in sessions \cap recovery : ~RootsOverlap(keys, Keys(t))

MutantSoleRunner(s) ==
    \A t \in sessions \ {s} : Conversation[t] = Conversation[s] => ~Has(t)

\* Nobody else continues the conversation, or is about to.
SoleRunner(s) ==
    \A t \in sessions \ {s} : Conversation[t] = Conversation[s] => ~occupied(t)

MutantStillAdmitted(s) == EngineCurrent(s, call[s].epoch)

\* No cancel and no maintenance since the call began.
StillAdmitted(s) ==
    EngineCurrent(s, call[s].epoch) /\ call[s].cancelled = cancellations[s]

\* assertReady of reserve.
Ready(s, managed) ==
    /\ s \in sessions
    /\ StillAdmitted(s)
    /\ SessionUnlocked(s, managed)
    /\ SoleRunner(s)

DirectorySessions(keys) == {s \in sessions : RootsOverlap(keys, {Place(s)})}

\* stopIdle on each of these: the processes kept between messages are told to end.
StopIdle(ids) ==
    [s \in SessionIds |-> IF s \in ids /\ Structured(s) /\ driver[s] = "idle"
                          THEN "closing" ELSE driver[s]]

\* stopAndWait: a running turn is cut short with its process; a native turn is
\* asked to end.
StopAll(ids) ==
    [s \in SessionIds |->
        CASE s \in ids /\ driver[s] = "idle" -> "closing"
          [] s \in ids /\ driver[s] = "busy" /\ ~Native(s) -> "ending"
          [] OTHER -> driver[s]]

\* The open calls that a cancel or a maintenance of these ids has overtaken.
Revoke(ids) == revoked \cup {s \in ids : call[s].pc \notin {"none", "sending"}}

MutantFull == Cardinality({t \in sessions : Has(t)}) > MaxSessions

Full == Cardinality({t \in sessions : occupied(t)}) > MaxSessions

\* An identity no lease in use has.
FreshToken ==
    CHOOSE t \in Tokens :
        /\ t \notin {l.token : l \in leases}
        /\ \A s \in SessionIds : releaseOp[s] # NoLease => releaseOp[s].token # t

\* The coordinator's lease and the service's note of it.
Own(s, generation) ==
    /\ acquire(FreshToken, s, Provider[s], generation, Keys(s))
    /\ executionLeases' = [executionLeases EXCEPT ![s] =
           Granted(FreshToken, s, Provider[s], generation, Keys(s))]

-----------------------------------------------------------------------------
(* refreshDirectoryRelease.                                                *)

\* The synchronous part, run by whoever may have ended the last use: one
\* operation per session, and none while anything still owns the directories
\* or a claude process is kept for the next message.
ReleaseStarts(s, admitted, held) ==
    /\ releaseOp[s] = NoLease /\ executionLeases[s] # NoLease
    /\ s \in sessions /\ s \notin admitted \cup held \cup recovery
    /\ Structured(s) => ~IsBusy(s) /\ ~(Claude(s) /\ Has(s))

Refresh(s, admitted, held) ==
    releaseOp' = IF ReleaseStarts(s, admitted, held)
                 THEN [releaseOp EXCEPT ![s] = executionLeases[s]] ELSE releaseOp

Dropped(s) == /\ release(executionLeases[s])
              /\ executionLeases' = [executionLeases EXCEPT ![s] = NoLease]

\* Whether the finished operation still gives the lease back.
MayDrop(s) ==
    executionLeases[s] = releaseOp[s] /\ s \notin admissions \cup outer \cup recovery

ReleaseOnly == UNCHANGED <<fenceVars, worldVars, admissions, lifecycle, directoryLocks,
    driver, recovery, call, jobs, revoked>>

MutantUnawaited(s) ==
    /\ releaseOp[s] # NoLease
    /\ IF MayDrop(s) THEN Dropped(s) ELSE UNCHANGED leaseVars
    /\ releaseOp' = [releaseOp EXCEPT ![s] = NoLease]
    /\ ReleaseOnly


\* Once the process is gone everything is looked at again.
FinishRelease(s) ==
    /\ releaseOp[s] # NoLease /\ driver[s] = "none"
    /\ IF MayDrop(s) THEN Dropped(s) ELSE UNCHANGED leaseVars
    /\ releaseOp' = [releaseOp EXCEPT ![s] = NoLease]
    /\ ReleaseOnly

\* whenReleased could not prove the release; the lease stays.  A native session
\* whose task records do not close has no process, yet counts as in use
\* ("unclosed") and is left to be recovered.
FailRelease(s) ==
    /\ Faults /\ releaseOp[s] # NoLease
    /\ releaseOp' = [releaseOp EXCEPT ![s] = NoLease]
    /\ driver' = [driver EXCEPT ![s] = IF Native(s) THEN "unclosed" ELSE @]
    /\ recovery' = IF Native(s) THEN recovery \cup {s} ELSE recovery
    /\ UNCHANGED <<leaseVars, fenceVars, worldVars, admissions, lifecycle,
                   directoryLocks, call, jobs, revoked>>

-----------------------------------------------------------------------------
(* A call: runChat of a message (or reserve for the command list of a      *)
(* claude session), or start of a terminal.                                *)

\* The end of every call: the admission goes, and with it perhaps the lease.
Leave(s) ==
    /\ admissions' = admissions \ {s}
    /\ call' = [call EXCEPT ![s] = NoCall]
    /\ revoked' = revoked \ {s}
    /\ Refresh(s, admissions \ {s}, outer)

\* A rejected call also ends the management of the session it was evicting.
Reject(s) ==
    /\ Leave(s)
    /\ lifecycle' = lifecycle \ {call[s].victim}
    /\ UNCHANGED <<leaseVars, fenceVars, worldVars, directoryLocks, driver, recovery, jobs>>

Step(s, pc) ==
    call' = [call EXCEPT ![s].pc = pc, ![s].goal = "none", ![s].victim = NoOne, ![s].todo = {}]

\* Everything a call does not touch while it is under way.
Underway == UNCHANGED <<fenceVars, worldVars, admissions, directoryLocks, recovery, jobs, revoked>>

\* The checks of runChat and start, and the synchronous part of reserve.
Submit(s) ==
    /\ call[s].pc = "none" /\ s \in sessions \ admissions
    /\ IF Structured(s) THEN driver[s] \notin {"busy", "ending"} ELSE driver[s] = "none"
    /\ SessionUnlocked(s, lifecycle) /\ SoleRunner(s)
    /\ admissions' = admissions \cup {s}
    /\ call' = [call EXCEPT ![s] = [NoCall EXCEPT
                   !.pc = IF releaseOp[s] = NoLease THEN "roots" ELSE "releasing",
                   !.cancelled = cancellations[s], !.epoch = epochs[Provider[s]]]]
    /\ UNCHANGED <<leaseVars, fenceVars, worldVars, lifecycle, directoryLocks,
                   releaseOp, driver, recovery, jobs, revoked>>

\* A release under way is waited for first.
Released(s) ==
    /\ call[s].pc = "releasing" /\ releaseOp[s] = NoLease
    /\ \/ /\ Ready(s, lifecycle)
          /\ Step(s, "roots")
          /\ Underway /\ UNCHANGED <<leaseVars, lifecycle, releaseOp, driver>>
       \/ ~Ready(s, lifecycle) /\ Reject(s)

Evict(s, managed, victim, goal, todo) ==
    /\ lifecycle' = managed \cup {victim}
    /\ driver' = StopIdle({victim})
    /\ call' = [call EXCEPT ![s].pc = "stopping", ![s].victim = victim,
                            ![s].goal = goal, ![s].todo = todo]

\* Only a session nothing uses is drained for another one.
Idle(v, managed) ==
    v \in sessions \ managed /\ Structured(v) /\ ~taskOccupied(v)

\* The loop over the leases in the way; the coordinator has its own opinion of
\* those that are left.
Drain(s, managed, todo) ==
    LET idle == {v \in todo : Idle(v, managed)}
    IN  /\ IF idle = {} THEN Step(s, "recheck") /\ lifecycle' = managed /\ UNCHANGED driver
           ELSE \E v \in idle : Evict(s, managed, v, "acquire", todo \ {v})
        /\ Underway /\ UNCHANGED <<leaseVars, releaseOp>>

\* The first half of acquireExecution.
FindRoots(s) ==
    /\ call[s].pc = "roots"
    /\ LET free == Ready(s, lifecycle) /\ RecoveryClear(Keys(s)) /\ Unlocked(Keys(s))
       IN  \/ free /\ Drain(s, lifecycle, {l.session : l \in conflicts(Keys(s), s)})
           \/ ~free /\ Reject(s)

\* The victim's process is gone: let its directories go as well.
Stopped(s) ==
    LET v == call[s].victim
    IN  /\ call[s].pc = "stopping" /\ driver[v] = "none"
        /\ \/ /\ Ready(s, lifecycle)
              /\ call' = [call EXCEPT ![s].pc = "freeing"]
              /\ Refresh(v, admissions, outer)
              /\ Underway /\ UNCHANGED <<leaseVars, lifecycle, driver>>
           \/ ~Ready(s, lifecycle) /\ Reject(s)

\* The loop of reserve: as long as too many sessions are occupied, an idle one
\* has to go; if there is none the call is refused.
Settle(s, managed) ==
    LET idle == {v \in sessions \ {s} :
                    Idle(v, managed) /\ Has(v) /\ Unlocked({Place(v)})}
    IN  \/ /\ ~Full \/ idle # {}
           /\ IF ~Full THEN Step(s, "admitted") /\ lifecycle' = managed /\ UNCHANGED driver
              ELSE \E v \in idle : Evict(s, managed, v, "capacity", {})
           /\ Underway /\ UNCHANGED <<leaseVars, releaseOp>>
        \/ Full /\ idle = {} /\ Reject(s)

\* The eviction is over; the call goes on where it began it.
Freed(s) ==
    LET managed == lifecycle \ {call[s].victim}
        draining == call[s].goal = "acquire"
        free == Ready(s, managed) /\ (draining => Unlocked(Keys(s)))
    IN  /\ call[s].pc = "freeing" /\ releaseOp[call[s].victim] = NoLease
        /\ \/ free /\ draining /\ Drain(s, managed, call[s].todo)
           \/ free /\ ~draining /\ Settle(s, managed)
           \/ ~free /\ Reject(s)

\* The second look at the recovery records, awaited before the lease is taken.
Recheck(s) ==
    /\ call[s].pc = "recheck"
    /\ \/ /\ RecoveryClear(Keys(s))
          /\ Step(s, "acquire")
          /\ Underway /\ UNCHANGED <<leaseVars, lifecycle, releaseOp, driver>>
       \/ ~RecoveryClear(Keys(s)) /\ Reject(s)

\* No await between the last check and the lease.
AcquireExecution(s) ==
    LET free == Ready(s, lifecycle) /\ Unlocked(Keys(s)) /\ MayAcquire(s, Provider[s], Keys(s))
    IN  /\ call[s].pc = "acquire"
        /\ \/ /\ free
              /\ Own(s, cancellations[s])
              /\ Step(s, "capacity")
              /\ Underway /\ UNCHANGED <<lifecycle, releaseOp, driver>>
           \/ ~free /\ Reject(s)

FindCapacity(s) ==
    /\ call[s].pc = "capacity"
    /\ \/ Ready(s, lifecycle) /\ Settle(s, lifecycle)
       \/ ~Ready(s, lifecycle) /\ Reject(s)

\* After the attachments are kept: the last checks, and the message or the
\* terminal goes to the engine, which refuses while its old process closes.
Send(s) ==
    LET current == StillAdmitted(s)
        accepts == driver[s] = "none" \/ (Claude(s) /\ driver[s] = "idle")
    IN  /\ call[s].pc = "admitted"
        /\ \/ /\ current /\ accepts
              /\ driver' = [driver EXCEPT ![s] = "busy"]
              /\ Step(s, "sending")
              /\ Underway /\ UNCHANGED <<leaseVars, lifecycle, releaseOp>>
           \/ ~(current /\ accepts) /\ Reject(s)

\* send returns with the end of the turn, for a native session with the end of
\* its resources; start of a terminal returns while the process runs.
Return(s) ==
    /\ call[s].pc = "sending"
    /\ Claude(s) => ~IsBusy(s)
    /\ Native(s) => driver[s] # "busy"
    /\ Reject(s)

\* An awaited step rejects: a process that does not end in time, a release that
\* cannot be proved, an attachment that cannot be saved.
CallFails(s) ==
    /\ Faults
    /\ \/ call[s].pc \in {"stopping", "admitted"}
       \/ call[s].pc = "releasing" /\ releaseOp[s] = NoLease
       \/ call[s].pc = "freeing" /\ releaseOp[call[s].victim] = NoLease
    /\ Reject(s)

-----------------------------------------------------------------------------
(* The engines.                                                            *)

DriverOnly == UNCHANGED <<leaseVars, fenceVars, worldVars, admissions, lifecycle,
    directoryLocks, releaseOp, call, jobs, revoked>>

\* A claude turn leaves its process for the next message, unless it was cut
\* short; a terminal's process has exited.
TurnEnds(s) ==
    /\ ~Native(s) /\ driver[s] \in {"busy", "ending"}
    /\ \E after \in {"idle", "closing"} :
          /\ after = "idle" => Claude(s) /\ driver[s] = "busy"
          /\ driver' = [driver EXCEPT ![s] = after]
    /\ UNCHANGED recovery /\ DriverOnly

\* A native run frees itself; it may leave side effects nobody has confirmed,
\* and then its resources too may stay unconfirmed.
NativeEnds(s) ==
    /\ Native(s) /\ driver[s] = "busy"
    /\ \E unknown \in {FALSE, Faults}, stuck \in {FALSE, Faults} :
          /\ stuck => unknown
          /\ driver' = [driver EXCEPT ![s] = IF stuck THEN "stuck" ELSE "none"]
          /\ recovery' = IF unknown THEN recovery \cup {s} ELSE recovery
    /\ DriverOnly

\* The last process of the tree is gone.
ProcessGone(s) ==
    /\ driver[s] = "closing"
    /\ driver' = [driver EXCEPT ![s] = "none"]
    /\ UNCHANGED recovery /\ DriverOnly

\* A claude process between messages dies by itself.
ProcessDies(s) ==
    /\ Faults /\ Claude(s) /\ driver[s] = "idle"
    /\ driver' = [driver EXCEPT ![s] = "closing"]
    /\ UNCHANGED recovery /\ DriverOnly

-----------------------------------------------------------------------------
(* The user stops or interrupts; the queue or a workflow takes a session.  *)

Cancel(s) ==
    /\ s \in sessions \cap Stoppable /\ cancellations[s] < MaxCancels
    /\ cancellations' = [cancellations EXCEPT ![s] = @ + 1]
    /\ revoked' = Revoke({s})
    /\ UNCHANGED <<leaseVars, epochs, maintenance, sessions, outer, admissions,
                   lifecycle, directoryLocks, releaseOp, recovery, call, jobs>>

Stop(s) ==
    /\ Cancel(s)
    /\ driver' = StopAll({s})
    /\ stops' = stops \cup {s}

StopEnds(s) ==
    /\ s \in stops
    /\ ~Has(s) \/ driver[s] \in {"stuck", "unclosed"} \/ (Faults /\ driver[s] = "closing")
    /\ stops' = stops \ {s}
    /\ driver' \in {driver, [driver EXCEPT ![s] = IF @ \in {"stuck", "unclosed"} THEN "none" ELSE @]}
    /\ Refresh(s, admissions, outer)
    /\ UNCHANGED <<leaseVars, fenceVars, sessions, outer, admissions, lifecycle,
                   directoryLocks, recovery, call, jobs, revoked>>

\* interrupt asks the turn to end; the interrupt of the queue also ends the
\* process.  Neither lets go of the directories itself.
Interrupt(s) ==
    /\ Cancel(s)
    /\ driver' \in {driver, IF Structured(s) THEN StopAll({s}) ELSE driver}
    /\ UNCHANGED stops

OuterBegins(s) ==
    /\ s \in (Outers \cap sessions) \ (outer \cup admissions)
    /\ ~IsBusy(s) /\ SessionUnlocked(s, lifecycle)
    /\ outer' = outer \cup {s}
    /\ UNCHANGED <<leaseVars, fenceVars, sessions, stops, admissions, lifecycle,
                   directoryLocks, releaseOp, driver, recovery, call, jobs, revoked>>

\* The outcome is stored: the "settled" callback of the queue, or the final
\* commit of the workflow.
OuterEnds(s) ==
    /\ s \in outer /\ call[s].pc = "none"
    /\ outer' = outer \ {s}
    /\ Refresh(s, admissions, outer \ {s})
    /\ UNCHANGED <<leaseVars, fenceVars, sessions, stops, admissions, lifecycle,
                   directoryLocks, driver, recovery, call, jobs, revoked>>

-----------------------------------------------------------------------------
(* Management operations.  Each keeps its session under lifecycle, and the *)
(* directories it works in under directoryLocks, until it is over.         *)

At(j, kinds, pc) == jobs[j].kind \in kinds /\ jobs[j].pc = pc
JobStep(j, pc) == jobs' = [jobs EXCEPT ![j].pc = pc]

\* What a management step leaves alone.
Elsewhere == UNCHANGED <<fenceVars, worldVars, admissions, call, revoked>>

\* The finally blocks: locks, lifecycle, and the lease of the session; that of
\* a deleted session is dropped on the spot.
Finish(j) ==
    LET s == jobs[j].session
        deleted == s # NoOne /\ s \notin sessions
    IN  /\ deleted => driver[s] = "none"
        /\ jobs' = [jobs EXCEPT ![j] = NoJob]
        /\ directoryLocks' = directoryLocks \ jobs[j].keys
        /\ lifecycle' = lifecycle \ {s}
        /\ IF s = NoOne THEN UNCHANGED releaseOp ELSE Refresh(s, admissions, outer)
        /\ IF deleted /\ executionLeases[s] # NoLease THEN Dropped(s) ELSE UNCHANGED leaseVars
        /\ UNCHANGED <<driver, recovery>> /\ Elsewhere

\* manage: a change of settings, archiving or deletion ("manage"), or an
\* operation on the session's worktree ("worktree").
Manage(j, s, kind) ==
    /\ jobs[j] = NoJob /\ kind \in JobKinds
    /\ kind = "worktree" => s \in Worktrees
    /\ s \in sessions \ (admissions \cup outer \cup recovery)
    /\ SessionUnlocked(s, lifecycle)
    /\ lifecycle' = lifecycle \cup {s}
    /\ jobs' = [jobs EXCEPT ![j] = [NoJob EXCEPT
                  !.kind = kind, !.session = s, !.epoch = epochs[Provider[s]],
                  !.pc = IF kind = "manage" THEN "action" ELSE "keys"]]
    /\ UNCHANGED <<leaseVars, directoryLocks, releaseOp, driver, recovery>> /\ Elsewhere

\* Archiving and deleting first end a process kept for the next message.
ManageStops(j) ==
    /\ At(j, {"manage"}, "action") /\ driver[jobs[j].session] = "idle"
    /\ driver' = StopIdle({jobs[j].session})
    /\ UNCHANGED <<leaseVars, directoryLocks, lifecycle, releaseOp, recovery, jobs>>
    /\ Elsewhere

\* removeRecord: refused while anything of the session is in use.
DeleteRecord(j) ==
    LET s == jobs[j].session
    IN  /\ At(j, {"manage", "worktree"}, "action") /\ s \in sessions
        /\ ~taskOccupied(s) /\ ~Has(s)
        /\ sessions' = sessions \ {s}
        /\ UNCHANGED <<leaseVars, fenceVars, outer, stops, admissions, lifecycle,
                       directoryLocks, releaseOp, driver, recovery, call, jobs, revoked>>

Lock(j, keys, job, pc) ==
    /\ Unlocked(keys)
    /\ directoryLocks' = directoryLocks \cup keys
    /\ jobs' = [jobs EXCEPT ![j] = [job EXCEPT !.keys = keys, !.pc = pc]]
    /\ UNCHANGED <<leaseVars, lifecycle, releaseOp, driver, recovery>> /\ Elsewhere

\* withSessionCreation: an isolated session ("creation") needs its source quiet;
\* another ("addition") only keeps operations on its directory away.
Create(j, source, kind) ==
    /\ jobs[j] = NoJob /\ kind \in JobKinds
    /\ Lock(j, {Canonical[source]}, [NoJob EXCEPT !.kind = kind],
            IF kind = "creation" THEN "drain" ELSE "action")

\* worktreeDirectories: the worktree and the repository it belongs to.
LockWorktree(j) ==
    LET s == jobs[j].session
        keys == {Canonical[Base[s]], Canonical[Root[s]]}
        free == EngineCurrent(s, jobs[j].epoch) /\ Unlocked(keys)
    IN  /\ At(j, {"worktree"}, "keys")
        /\ \/ free /\ Lock(j, keys, jobs[j], "drain")
           \/ ~free /\ Finish(j)

\* releaseIdleDirectories: nothing may be at work in the directories; processes
\* kept for the next message are told to end.
DrainDirectories(j) ==
    LET here == DirectorySessions(jobs[j].keys)
        quiet == RecoveryClear(jobs[j].keys) /\ \A s \in here : ~taskOccupied(s)
    IN  /\ jobs[j].pc = "drain"
        /\ \/ /\ quiet
              /\ driver' = StopIdle(here)
              /\ jobs' = [jobs EXCEPT ![j].pc = "stopping", ![j].todo = {s \in here : Has(s)}]
              /\ UNCHANGED <<leaseVars, directoryLocks, lifecycle, releaseOp, recovery>>
              /\ Elsewhere
           \/ ~quiet /\ Finish(j)

DirectoriesStopped(j) ==
    /\ jobs[j].pc = "stopping" /\ \A s \in jobs[j].todo : driver[s] = "none"
    /\ jobs' = [jobs EXCEPT ![j].pc = "freeing",
                  ![j].todo = {l.session : l \in conflicts(jobs[j].keys, NoOne)}]
    /\ UNCHANGED <<leaseVars, directoryLocks, lifecycle, releaseOp, driver, recovery>>
    /\ Elsewhere

\* One release after the other.
WaitsFor(j) == jobs[j].waiting # NoOne /\ releaseOp[jobs[j].waiting] # NoLease

FreeDirectory(j) ==
    /\ jobs[j].pc = "freeing" /\ ~WaitsFor(j)
    /\ \E s \in jobs[j].todo :
          /\ Refresh(s, admissions, outer)
          /\ jobs' = [jobs EXCEPT ![j].todo = @ \ {s}, ![j].waiting = s]
    /\ UNCHANGED <<leaseVars, directoryLocks, lifecycle, driver, recovery>> /\ Elsewhere

MutantVacant(keys) == \A s \in DirectorySessions(keys) : ~occupied(s) /\ s \notin outer

\* No lease, no process, no owner.
Vacant(keys) ==
    /\ conflicts(keys, NoOne) = {}
    /\ \A s \in DirectorySessions(keys) : ~occupied(s) /\ s \notin outer

\* The last look before the action.
EnterDirectories(j) ==
    LET quiet == /\ Vacant(jobs[j].keys)
                 /\ jobs[j].session # NoOne => EngineCurrent(jobs[j].session, jobs[j].epoch)
    IN  /\ jobs[j].pc = "freeing" /\ ~WaitsFor(j) /\ jobs[j].todo = {}
        /\ \/ /\ quiet
              /\ JobStep(j, "action")
              /\ UNCHANGED <<leaseVars, directoryLocks, lifecycle, releaseOp, driver, recovery>>
              /\ Elsewhere
           \/ ~quiet /\ Finish(j)

MutantContextFree(s, recover) == ~Has(s) /\ (s \in recovery => recover)

\* Nothing of the session is at work, not even the release of its lease.
ContextFree(s, recover) ==
    ~Has(s) /\ releaseOp[s] = NoLease /\ (s \in recovery => recover)

\* maintainNativeContext: compaction, task review, or recovery (recover).
Maintain(j, s, recover) ==
    /\ jobs[j] = NoJob /\ "context" \in JobKinds
    /\ Native(s) /\ s \in sessions \ (admissions \cup outer)
    /\ SessionUnlocked(s, lifecycle) /\ ContextFree(s, recover)
    /\ lifecycle' = lifecycle \cup {s}
    /\ jobs' = [jobs EXCEPT ![j] = [NoJob EXCEPT !.kind = "context", !.session = s,
                  !.pc = "roots", !.recover = recover,
                  !.epoch = epochs[Provider[s]], !.cancelled = cancellations[s]]]
    /\ UNCHANGED <<leaseVars, directoryLocks, releaseOp, driver, recovery>> /\ Elsewhere

\* The lease and the locks are taken together after the last check.
OwnContext(j) ==
    LET s == jobs[j].session
        keys == Keys(s)
        free == /\ EngineCurrent(s, jobs[j].epoch) /\ jobs[j].cancelled = cancellations[s]
                /\ Unlocked(keys) /\ conflicts(keys, s) = {}
                /\ \A t \in DirectorySessions(keys) \ {s} : ~taskOccupied(t)
                /\ jobs[j].recover \/ Cardinality({t \in sessions : occupied(t)}) < MaxSessions
    IN  /\ At(j, {"context"}, "roots")
        /\ \/ /\ free
              /\ IF executionLeases[s] = NoLease THEN Own(s, jobs[j].cancelled)
                 ELSE UNCHANGED leaseVars
              /\ directoryLocks' = directoryLocks \cup keys
              /\ jobs' = [jobs EXCEPT ![j].pc = "action", ![j].keys = keys]
              /\ UNCHANGED <<lifecycle, releaseOp, driver, recovery>> /\ Elsewhere
           \/ ~free /\ Finish(j)

\* The user has confirmed what the uncertain run left behind.
Resolve(j) ==
    /\ At(j, {"context"}, "action") /\ jobs[j].recover /\ jobs[j].session \in recovery
    /\ recovery' = recovery \ {jobs[j].session}
    /\ UNCHANGED <<leaseVars, directoryLocks, lifecycle, releaseOp, driver, jobs>>
    /\ Elsewhere

\* The context operation of the engine is over.
ContextEnds(j) ==
    /\ At(j, {"context"}, "action")
    /\ JobStep(j, "over")
    /\ UNCHANGED <<leaseVars, directoryLocks, lifecycle, releaseOp, driver, recovery>>
    /\ Elsewhere

\* The action has returned or thrown.
EndJob(j) ==
    /\ At(j, {"manage", "worktree", "creation", "addition"}, "action") \/ jobs[j].pc = "over"
    /\ Finish(j)

\* An awaited step before the action rejects: a process that does not end in time, a
\* release that cannot be proved.
JobFails(j) ==
    /\ Faults /\ (jobs[j].pc = "stopping" \/ (jobs[j].pc = "freeing" /\ ~WaitsFor(j)))
    /\ Finish(j)

-----------------------------------------------------------------------------
(* withEngineMaintenance: the engine's sessions are cut off, and the action  *)
(* (an update of its program) runs only when nothing of them is left.        *)

MaintenanceBegins(p) ==
    LET ids == {s \in sessions : Provider[s] = p}
    IN  /\ p \in Maintainable /\ maintenance.engine = NoOne /\ epochs[p] < MaxEpochs
        /\ \A s \in ids : cancellations[s] < MaxCancels
        /\ maintenance' = [engine |-> p, ids |-> ids, acting |-> FALSE]
        /\ epochs' = [epochs EXCEPT ![p] = @ + 1]
        /\ cancellations' = [s \in SessionIds |->
               IF s \in ids THEN cancellations[s] + 1 ELSE cancellations[s]]
        /\ driver' = StopAll(ids)
        /\ revoked' = Revoke(ids)
        /\ UNCHANGED <<leaseVars, worldVars, admissions, lifecycle, directoryLocks,
                       releaseOp, recovery, call, jobs>>

\* What the maintenance waits for besides the processes.
Pending == maintenance.ids \cap (admissions \cup lifecycle \cup outer) # {}

MaintenanceActs ==
    /\ maintenance.engine # NoOne /\ ~maintenance.acting
    /\ ~Pending
    /\ \A s \in maintenance.ids : ~Has(s)
    /\ maintenance' = [maintenance EXCEPT !.acting = TRUE]
    /\ UNCHANGED <<leaseVars, worldVars, cancellations, epochs, admissions, lifecycle,
                   directoryLocks, releaseOp, driver, recovery, call, jobs, revoked>>

\* The action is over, or something of the engine did not end in time.
MaintenanceEnds ==
    /\ maintenance.engine # NoOne
    /\ maintenance' = [engine |-> NoOne, ids |-> {}, acting |-> FALSE]
    /\ UNCHANGED <<leaseVars, worldVars, cancellations, epochs, admissions, lifecycle,
                   directoryLocks, releaseOp, driver, recovery, call, jobs, revoked>>

-----------------------------------------------------------------------------

\* The application has just started: nothing runs, and any native session may
\* have a run on disk whose side effects are unknown.
ServiceInit ==
    /\ LeasesInit
    /\ sessions = SessionIds
    /\ executionLeases = [s \in SessionIds |-> NoLease]
    /\ admissions = {} /\ lifecycle = {} /\ directoryLocks = {}
    /\ cancellations = [s \in SessionIds |-> 0]
    /\ epochs = [p \in Providers |-> 0]
    /\ maintenance = [engine |-> NoOne, ids |-> {}, acting |-> FALSE]
    /\ releaseOp = [s \in SessionIds |-> NoLease]
    /\ driver = [s \in SessionIds |-> "none"]
    /\ recovery \in SUBSET {s \in SessionIds : Faults /\ Native(s)}
    /\ outer = {} /\ stops = {} /\ revoked = {}
    /\ call = [s \in SessionIds |-> NoCall]
    /\ jobs = [j \in Jobs |-> NoJob]

CallSteps(s) ==
    \/ Released(s) \/ FindRoots(s) \/ Stopped(s) \/ Freed(s) \/ Recheck(s)
    \/ AcquireExecution(s) \/ FindCapacity(s) \/ Send(s) \/ Return(s)

JobSteps(j) ==
    \/ LockWorktree(j) \/ DrainDirectories(j) \/ DirectoriesStopped(j)
    \/ FreeDirectory(j) \/ EnterDirectories(j) \/ OwnContext(j) \/ ContextEnds(j) \/ EndJob(j)

ServiceNext ==
    \/ \E s \in SessionIds :
          \/ Submit(s) \/ CallSteps(s) \/ CallFails(s)
          \/ FinishRelease(s) \/ FailRelease(s)
          \/ TurnEnds(s) \/ NativeEnds(s) \/ ProcessGone(s) \/ ProcessDies(s)
          \/ Stop(s) \/ StopEnds(s) \/ Interrupt(s) \/ OuterBegins(s) \/ OuterEnds(s)
    \/ \E j \in Jobs :
          \/ \E s \in SessionIds :
                \/ \E kind \in {"manage", "worktree"} : Manage(j, s, kind)
                \/ \E recover \in BOOLEAN : Maintain(j, s, recover)
          \/ \E source \in Sources, kind \in {"creation", "addition"} : Create(j, source, kind)
          \/ ManageStops(j) \/ DeleteRecord(j) \/ Resolve(j) \/ JobSteps(j) \/ JobFails(j)
    \/ \E p \in Providers : MaintenanceBegins(p)
    \/ MaintenanceActs \/ MaintenanceEnds

ServiceSpec == ServiceInit /\ [][ServiceNext]_serviceVars

\* The event loop runs every continuation, every turn comes to an end, and a
\* process that was told to end does.  A terminal ends only when its user lets it.
\* A job that awaits a release goes on as soon as it is over, before the queue or a
\* workflow can begin the next one of the session: hence the strong fairness.
Fairness ==
    /\ \A s \in SessionIds :
          /\ WF_serviceVars(CallSteps(s)) /\ WF_serviceVars(FinishRelease(s))
          /\ WF_serviceVars((Structured(s) \/ driver[s] = "ending") /\ TurnEnds(s))
          /\ WF_serviceVars(NativeEnds(s)) /\ WF_serviceVars(ProcessGone(s))
    /\ \A j \in Jobs : SF_serviceVars(JobSteps(j))

FairServiceSpec == ServiceSpec /\ Fairness

-----------------------------------------------------------------------------
(* Properties.                                                             *)

\* Whether the session has a process, or had one whose end nobody could confirm.
Alive(s) == driver[s] \notin {"none", "unclosed"}

\* Leases, processes and the service's notes agree, whoever stopped a session,
\* evicted it or released in its name.  A process never outlives the lease of its
\* directories: executionLeases names it, the coordinator still holds it, and it
\* covers them.  The coordinator holds no lease the service has lost sight of.
\* And whoever ends the last use of a native session also starts the release:
\* there is no moment in which a lease is held that nobody will give back.
\* An id is admitted exactly while a call of its own is under way, and the managed
\* ids and the locks are exactly those of the operations that manage or evict.
LeasesMatchProcesses ==
    /\ admissions = {s \in SessionIds : call[s].pc # "none"}
    /\ lifecycle = ({call[s].victim : s \in SessionIds} \cup {jobs[j].session : j \in Jobs})
                      \ {NoOne}
    /\ directoryLocks = UNION {jobs[j].keys : j \in Jobs}
    /\ \A s \in SessionIds : Has(s) =>
          /\ executionLeases[s] # NoLease /\ owns(executionLeases[s])
          /\ executionLeases[s].roots = Keys(s)
    /\ leases = {executionLeases[s] : s \in SessionIds} \ {NoLease}
    /\ \A s \in SessionIds : Native(s) /\ executionLeases[s] # NoLease =>
          \/ Has(s) \/ releaseOp[s] # NoLease
          \/ s \in admissions \cup outer \cup recovery \cup lifecycle

\* While a worktree is created or managed, nothing runs in or near the locked
\* directories and nobody has a lease on them; while a context operation runs,
\* only its own session does.  And while the action of an engine's maintenance
\* runs, nothing of the engine is admitted, managed or alive: a call admitted
\* before it does not come back to life during it.  (lifecycle may still name one
\* of its sessions: a call of another engine evicts whoever holds the lease it
\* needs.)
ManagementIsAlone ==
    /\ \A j \in Jobs : At(j, {"worktree", "creation", "context"}, "action") =>
          /\ conflicts(jobs[j].keys, IF jobs[j].kind = "context" THEN jobs[j].session ELSE NoOne) = {}
          /\ \A s \in SessionIds \ {jobs[j].session} :
                Has(s) => ~RootsOverlap(jobs[j].keys, Keys(s))
    /\ maintenance.acting => \A s \in maintenance.ids :
          ~Alive(s) /\ call[s].pc = "none" /\ \A j \in Jobs : jobs[j].session # s

\* However many calls were admitted while idle sessions were still being evicted,
\* there are never more processes than the settings allow, no conversation of a
\* provider is continued by two of them, and only a session that nothing uses
\* loses its process to another one: it has no turn, no call, no queue item and no
\* workflow, and gets none until the eviction is over.
AdmissionIsSafe ==
    /\ Cardinality({s \in SessionIds : Alive(s) \/ call[s].pc = "admitted"})
          <= MaxSessions
    /\ \A s, t \in SessionIds :
          s # t /\ Conversation[s] = Conversation[t] => ~(Has(s) /\ Has(t))
    /\ \A s \in SessionIds :
          LET v == call[s].victim
          IN  v # NoOne => v \notin admissions \cup outer /\ ~IsBusy(v)

\* Where a run has left side effects nobody has confirmed, no other session runs.
UncertainDirectoriesRest ==
    \A s \in recovery, t \in SessionIds :
        s \in sessions /\ s # t /\ RootsOverlap(Keys(s), Keys(t)) => ~Alive(t)

\* A call that was under way when its session was stopped or interrupted, or
\* its engine maintained, never reaches the engine, not even when all of that
\* is long over.
CancelledCallsNeverRun ==
    [][\A s \in revoked : call[s].pc = "admitted" => call'[s].pc # "sending"]_serviceVars

\* What a session may do with its directories, without the how: see
\* ExclusiveDirectories.tla.
Clash == {p \in SessionIds \X SessionIds : RootsOverlap(Keys(p[1]), Keys(p[2]))}
Directory == INSTANCE ExclusiveDirectories WITH
    Owners <- SessionIds,
    Clash <- Clash,
    holding <- {s \in SessionIds : executionLeases[s] # NoLease},
    running <- {s \in SessionIds : driver[s] # "none"}
TakesAndGivesUp == Directory!Spec

=============================================================================
