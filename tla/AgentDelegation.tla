---------------------------- MODULE AgentDelegation ----------------------------
(***************************************************************************)
(* The delegations of one native parent run (engines/native/               *)
(* agent-delegation.ts) with the runs of its child agents (runChild of     *)
(* structured-executor.ts, agent-child-runner.ts), up to the end of the    *)
(* application and what its next start makes of the receipts on disk.      *)
(* A call is one use of delegate_review, delegate_implement or             *)
(* recover_agent; a child is one of its tasks.                             *)
(* Operators named Mutant... are wrong on purpose.                         *)
(***************************************************************************)
EXTENDS AgentTaskPool

CONSTANTS Kind,          \* what each call asks for
          WithSkills,    \* children inherit skills from the parent
          MaxQueued,     \* the tasks that may be unsettled together (30 in the code)
          MaxFaults      \* bound: saves that fail, evidence that cannot be taken, leases
                         \* that cannot be released

ASSUME DelegationConstants ==
  /\ Kind \in [Calls -> {"review", "implement", "recover"}]
  /\ \A c \in Calls : Kind[c] = "recover" => Tasks[c] = 1
  /\ WithSkills \in BOOLEAN /\ MaxQueued \in Nat /\ MaxFaults \in Nat

VARIABLES pool,          \* taskPool; its signal is the one everything here listens to
          unsafe,        \* unsafe
          closer,        \* closeAll: none, closing, closed
          reserved,      \* reserved
          recovering,    \* recovering
          recovered,     \* recovered
          settled,       \* settled
          call,          \* a call's progress, what it recovers, what it began and answered
          child,         \* a child's receipt in memory, with the locals of its closure
          kept,          \* retained: the receipts saved in full
          disk,          \* the receipts on disk
          fate,          \* a child's worker: none, called, alive, gone, doubt, stray
          lease,         \* a child's lease on its worktree: none, held, kept
          host,          \* the application is up or lost
          faults

poolVars == <<pool, unsafe, closer>>
books == <<reserved, recovering, recovered, settled>>
records == <<child, kept, disk>>
workers == <<fate, lease>>
vars == <<poolVars, books, call, records, workers, host, faults>>

Nowhere == <<>>
NoChild == <<>>
NoReceipt == [mode |-> "none", status |-> "none", result |-> "none", ws |-> Nowhere, verified |-> FALSE, artifact |-> FALSE]

CallOf(k) == k[1]
TasksOf(c) == {k \in Children : CallOf(k) = c}
ChildrenOf(c) == [i \in 1 .. Tasks[c] |-> <<c, i>>]
Mode(c) == IF Kind[c] = "recover" THEN kept[call[c].target].mode ELSE Kind[c]

NoCall == [pc |-> "none", target |-> NoChild, saved |-> 0, left |-> 0, result |-> "none"]
NotBegun == [pc |-> "none", receipt |-> NoReceipt, attempted |-> FALSE, started |-> FALSE, unsaved |-> FALSE]

Init ==
  /\ pool \in {EmptyPool(n) : n \in Capacities} /\ unsafe = FALSE /\ closer = "none"
  /\ reserved = 0 /\ recovering = {} /\ recovered = {} /\ settled = {}
  /\ call = [c \in Calls |-> NoCall] /\ child = [k \in Children |-> NotBegun]
  /\ kept = [k \in Children |-> NoReceipt] /\ disk = [k \in Children |-> NoReceipt]
  /\ fate = [k \in Children |-> "none"] /\ lease = [k \in Children |-> "none"]
  /\ host = "up" /\ faults = 0
-----------------------------------------------------------------------------
(* Signals. *)

\* closing, an abort of the parent run and a halt close the pool, so they show there; the
\* signal of a call is aborted with its run, or when the worker of the run is lost, whose
\* end comes to closeAll as well
Current == pool.closed = "open"

\* halt, of a pool value
MutantHalted(p) == p
Halted(p) == Close(p, "unsafe")

\* when stop holds: halt
HaltIf(stop) == /\ pool' = (IF stop THEN Halted(pool) ELSE pool)
                /\ unsafe' = (unsafe \/ stop)
                /\ UNCHANGED closer
-----------------------------------------------------------------------------
(* The calls. *)

SafelySettled(k) ==
  LET r == kept[k] IN
  /\ k \in settled /\ r.status \in {"failed", "cancelled"} /\ r.result \in {"failed", "cancelled"}
  /\ r.ws # Nowhere => r.verified /\ r.artifact
CanRecover(k) == SafelySettled(k) /\ k \notin recovered

\* prepare of a call that passes its checks; one that does not changes nothing
Prepare(c) ==
  /\ host = "up" /\ call[c].pc = "none" /\ Current
  /\ \E k \in Children \cup {NoChild} :
       /\ IF Kind[c] = "recover" THEN k # NoChild /\ CanRecover(k) ELSE k = NoChild
       /\ call' = [call EXCEPT ![c].pc = "prepared", ![c].target = k]
  /\ UNCHANGED <<poolVars, books, records, workers, host, faults>>

Recovery(c) == Kind[c] = "recover"
MutantRepeated(c) == FALSE
Repeated(c) == Recovery(c) /\ call[c].target \in recovering \cup recovered
Full(c) == reserved + Tasks[c] > MaxQueued

\* execute: a check fails, the approval is missing, or executeBatch refuses at once
Refuse(c) ==
  /\ host = "up" /\ call[c].pc = "prepared"
  /\ call' = [call EXCEPT ![c].pc = "over", ![c].result = "not_executed"]
  /\ UNCHANGED <<poolVars, books, records, workers, host, faults>>

\* executeBatch up to its first wait: places are asked for and reserved together
Execute(c) ==
  /\ host = "up" /\ call[c].pc = "prepared" /\ Current /\ ~Repeated(c) /\ ~Full(c)
  /\ pool' = Acquire(pool, ChildrenOf(c))
  /\ reserved' = reserved + Tasks[c]
  /\ recovering' = (IF Recovery(c) THEN recovering \cup {call[c].target} ELSE recovering)
  /\ call' = [call EXCEPT ![c].pc = "admitted", ![c].left = Tasks[c]]
  /\ UNCHANGED <<unsafe, closer, recovered, settled, records, workers, host, faults>>

\* guard, assertSkillsCurrent and the first look of verifyRecovery
Check(c) ==
  /\ host = "up" /\ call[c].pc = "admitted" /\ Current
  /\ Recovery(c) => CanRecover(call[c].target)
  /\ call' = [call EXCEPT ![c].pc = "verifying"]
  /\ UNCHANGED <<poolVars, books, records, workers, host, faults>>

\* one of the checks before the intent fails
Abandon(c) ==
  /\ host = "up" /\ call[c].pc \in {"admitted", "verifying"}
  /\ call' = [call EXCEPT ![c].pc = "draining", ![c].result = "not_executed"]
  /\ UNCHANGED <<poolVars, books, records, workers, host, faults>>

\* the worktree and the baseline are as expected: receipts are drawn up
DrawnUp(b, c) == [b EXCEPT !.pc = "queued", !.receipt.status = "queued", !.receipt.mode = Mode(c)]
Intend(c) ==
  /\ host = "up" /\ call[c].pc = "verifying"
  /\ recovered' = (IF Recovery(c) THEN recovered \cup {call[c].target} ELSE recovered)
  /\ call' = [call EXCEPT ![c].pc = "intent"]
  /\ child' = [k \in Children |-> IF CallOf(k) = c THEN DrawnUp(child[k], c) ELSE child[k]]
  /\ UNCHANGED <<poolVars, reserved, recovering, settled, kept, disk, workers, host, faults>>

\* the receipts are saved one after the other before any child goes on
SaveIntent(c) ==
  LET k == <<c, call[c].saved + 1>> IN
  /\ host = "up" /\ call[c].pc = "intent"
  /\ call' = [call EXCEPT ![c].saved = @ + 1,
                          ![c].pc = IF call[c].saved + 1 = Tasks[c] THEN "children" ELSE @]
  /\ kept' = [kept EXCEPT ![k] = child[k].receipt] /\ disk' = [disk EXCEPT ![k] = child[k].receipt]
  /\ UNCHANGED <<poolVars, books, child, workers, host, faults>>

\* a save fails, of a receipt or of the timing: the call ends, its places are given back
IntentLost(c) ==
  LET k == <<c, call[c].saved + 1>> IN
  /\ host = "up" /\ call[c].pc = "intent" /\ faults < MaxFaults
  /\ HaltIf(TRUE) /\ faults' = faults + 1
  /\ call' = [call EXCEPT ![c].pc = "draining", ![c].result = "unknown"]
  /\ \E written \in BOOLEAN : disk' = [disk EXCEPT ![k] = IF written THEN child[k].receipt ELSE @]
  /\ UNCHANGED <<books, child, kept, workers, host>>

\* every child of the call is over
Answer(c) ==
  /\ host = "up" /\ call[c].pc = "children" /\ \A k \in TasksOf(c) : child[k].pc = "over"
  /\ call' = [call EXCEPT ![c].pc = "draining", ![c].result = "children"]
  /\ UNCHANGED <<poolVars, books, records, workers, host, faults>>

\* the finally of executeBatch: what was asked for and not used is given back
GivenBack(p, c) ==
  LET q == Withdraw(p, TasksOf(c))
      mine == {k \in TasksOf(c) : q.claim[k] = "granted"}
  IN Pump(Settle([q EXCEPT !.active = @ - Cardinality(mine)], mine, "released"))
Drain(c) ==
  /\ host = "up" /\ call[c].pc = "draining"
  /\ pool' = GivenBack(pool, c)
  /\ reserved' = reserved - call[c].left
  /\ recovering' = recovering \ {call[c].target}
  /\ call' = [call EXCEPT ![c].pc = "over", ![c].left = 0]
  /\ UNCHANGED <<unsafe, closer, recovered, settled, records, workers, host, faults>>
-----------------------------------------------------------------------------
(* A child up to the start of its run. *)

\* the catch of a child: what its receipt says then
Verdict(k, b, error) ==
  IF \/ error = "unsaved" \/ b.unsaved
     \/ b.started /\ error # "not_started"
     \/ b.attempted /\ ~b.receipt.verified THEN "unknown"
  ELSE IF ~Current /\ ~unsafe THEN "cancelled" ELSE "failed"

Fails(k, b, error) ==
  LET status == Verdict(k, b, error) IN
  /\ child' = [child EXCEPT ![k] = [b EXCEPT !.receipt.status = status, !.pc = "evidence"]]
  /\ HaltIf(status = "unknown")

\* save, then saveExecution: a failure may leave the receipt on disk.  Nobody reads what is
\* retained in memory after a failure, for the pool is closed: it is left as it was
Save(k, b, next) ==
  \/ /\ child' = [child EXCEPT ![k] = [b EXCEPT !.pc = next]]
     /\ kept' = [kept EXCEPT ![k] = b.receipt] /\ disk' = [disk EXCEPT ![k] = b.receipt]
     /\ UNCHANGED <<poolVars, faults>>
  \/ /\ faults < MaxFaults /\ faults' = faults + 1 /\ Fails(k, b, "unsaved")
     /\ \E r \in {disk[k], b.receipt} : disk' = [disk EXCEPT ![k] = r]
     /\ UNCHANGED kept

At(k, pc) == host = "up" /\ call[CallOf(k)].pc = "children" /\ child[k].pc = pc
Target(k) == call[CallOf(k)].target

\* its place is given: the receipt is prepared, with the worktree it takes over
Admitted(k) ==
  LET owner == IF Recovery(CallOf(k)) THEN kept[Target(k)].ws ELSE Nowhere IN
  /\ At(k, "queued") /\ pool.claim[k] = "granted" /\ Current
  /\ Save(k, [child[k] EXCEPT !.receipt.status = "prepared", !.receipt.ws = owner,
                              !.receipt.verified = (owner # Nowhere), !.attempted = (owner # Nowhere)],
          "checking")
  /\ UNCHANGED <<books, call, workers, host>>

\* the checks; an implementation is given the name of its worktree
TargetHolds(k) == Recovery(CallOf(k)) => SafelySettled(Target(k))
Checked(k) ==
  /\ At(k, "checking") /\ Current /\ TargetHolds(k)
  /\ IF Kind[CallOf(k)] = "implement"
     THEN Save(k, [child[k] EXCEPT !.receipt.ws = k], "creating")
     ELSE /\ child' = [child EXCEPT ![k].pc = "launching"]
          /\ UNCHANGED <<poolVars, kept, disk, faults>>
  /\ UNCHANGED <<books, call, workers, host>>

\* createAgentWorktree: once its signal is aborted it fails
Created(k) ==
  /\ At(k, "creating")
  /\ \/ /\ Current
        /\ Save(k, [child[k] EXCEPT !.attempted = TRUE, !.receipt.verified = TRUE], "launching")
     \/ /\ Fails(k, [child[k] EXCEPT !.attempted = TRUE], "worktree")
        /\ UNCHANGED <<kept, disk, faults>>
  /\ UNCHANGED <<books, call, workers, host>>

Launched(k) ==
  /\ At(k, "launching") /\ Current
  /\ Save(k, [child[k] EXCEPT !.receipt.status = "running"], "starting")
  /\ UNCHANGED <<books, call, workers, host>>

\* its place is refused, its signal is aborted or a check fails
Throw(k) ==
  /\ \/ At(k, "queued") /\ pool.claim[k] \in {"cancelled", "unsafe"}
     \/ At(k, "queued") /\ pool.claim[k] = "granted" /\ ~Current
     \/ At(k, "checking") \/ At(k, "launching")
     \/ At(k, "starting") /\ ~Current
  /\ Fails(k, child[k], "check")
  /\ UNCHANGED <<books, call, kept, disk, workers, host, faults>>

\* runChild is called; the timing is saved while the child runs
Start(k) ==
  /\ At(k, "starting") /\ Current
  /\ child' = [child EXCEPT ![k].pc = "running", ![k].started = TRUE]
  /\ fate' = [fate EXCEPT ![k] = "called"]
  /\ UNCHANGED <<poolVars, books, call, kept, disk, lease, host, faults>>

\* ... and cannot be: the delegation stops, the child is waited for
StartUnsaved(k) ==
  /\ At(k, "running") /\ ~child[k].unsaved /\ faults < MaxFaults
  /\ child' = [child EXCEPT ![k].unsaved = TRUE] /\ faults' = faults + 1 /\ HaltIf(TRUE)
  /\ UNCHANGED <<books, call, kept, disk, workers, host>>
-----------------------------------------------------------------------------
(* runChild, and what the delegation makes of its answer. *)

Writes(k) == child[k].receipt.mode = "implement"

\* the lease on the worktree is taken and the run begins
Works(k) ==
  /\ At(k, "running") /\ fate[k] = "called" /\ Current
  /\ fate' = [fate EXCEPT ![k] = "alive"]
  /\ lease' = [lease EXCEPT ![k] = IF Writes(k) THEN "held" ELSE @]
  /\ UNCHANGED <<poolVars, books, call, records, host, faults>>

\* the end of the worker: what the journal of the child says, what of the lease
WorkerEnds(k, end, of) ==
  /\ fate' = [fate EXCEPT ![k] = end]
  /\ lease' = [lease EXCEPT ![k] = IF @ = "held" THEN of ELSE @]

\* the run ended on its journal; a result in doubt keeps the lease
MutantReturns(k) ==
  /\ At(k, "running") /\ fate[k] = "alive"
  /\ \E result \in {"completed", "failed", "cancelled", "recovery_required"} :
       LET doubt == result = "recovery_required"
           status == IF doubt THEN "failed" ELSE result IN
       /\ result = "cancelled" => ~Current
       /\ WorkerEnds(k, IF doubt THEN "doubt" ELSE "gone", IF doubt THEN "kept" ELSE "none")
       /\ child' = [child EXCEPT ![k].pc = "evidence", ![k].receipt.status = status, ![k].receipt.result = result]
       /\ HaltIf(FALSE)
  /\ UNCHANGED <<books, call, kept, disk, host, faults>>
Returns(k) ==
  /\ At(k, "running") /\ fate[k] = "alive"
  /\ \E result \in {"completed", "failed", "cancelled", "recovery_required"} :
       LET doubt == result = "recovery_required"
           status == IF doubt \/ child[k].unsaved THEN "unknown" ELSE result IN
       /\ result = "cancelled" => ~Current
       /\ WorkerEnds(k, IF doubt THEN "doubt" ELSE "gone", IF doubt THEN "kept" ELSE "none")
       /\ child' = [child EXCEPT ![k].pc = "evidence", ![k].receipt.status = status,
                                 ![k].receipt.result = IF child[k].unsaved THEN "none" ELSE result]
       /\ HaltIf(status = "unknown")
  /\ UNCHANGED <<books, call, kept, disk, host, faults>>

\* it ended, and its lease cannot be released
LeaseStays(k) ==
  /\ At(k, "running") /\ fate[k] = "alive" /\ lease[k] = "held" /\ faults < MaxFaults
  /\ WorkerEnds(k, "gone", "kept") /\ faults' = faults + 1 /\ Fails(k, child[k], "rejected")
  /\ UNCHANGED <<books, call, kept, disk, host>>

\* rejected: the lease is refused, or the run ended and its journal does not say how
Rejects(k) ==
  /\ At(k, "running")
  /\ WorkerEnds(k, IF fate[k] = "alive" THEN "doubt" ELSE "none", "none")
  /\ Fails(k, child[k], "rejected")
  /\ UNCHANGED <<books, call, kept, disk, host, faults>>

\* NativeAgentChildNotStartedError
StartRefused(k) ==
  /\ At(k, "running") /\ WithSkills /\ fate[k] = "called"
  /\ WorkerEnds(k, "none", "none") /\ Fails(k, child[k], "not_started")
  /\ UNCHANGED <<books, call, kept, disk, host, faults>>

\* NativeWorkerCleanupError
Unclean(k) ==
  /\ At(k, "running") /\ fate[k] = "alive"
  /\ WorkerEnds(k, "stray", "kept") /\ Fails(k, child[k], "rejected")
  /\ UNCHANGED <<books, call, kept, disk, host, faults>>
-----------------------------------------------------------------------------
(* The end of a child: its evidence, its receipt, its place. *)

Unknown(b) == [b EXCEPT !.receipt.status = "unknown"]
Lost == faults < MaxFaults /\ faults' = faults + 1 /\ HaltIf(TRUE)

Evidence(k) ==
  LET b == [child[k] EXCEPT !.pc = "recording"]
      due == b.receipt.ws # Nowhere /\ b.attempted IN
  /\ At(k, "evidence") /\ settled' = settled \cup {k}
  /\ \/ child' = [child EXCEPT ![k] = [b EXCEPT !.receipt.artifact = due]] /\ UNCHANGED <<poolVars, faults>>
     \/ child' = [child EXCEPT ![k] = Unknown(b)] /\ Lost
  /\ UNCHANGED <<reserved, recovering, recovered, call, kept, disk, workers, host>>

\* save; when it fails the receipt becomes unknown and is saved once more
Record(k) ==
  LET b == [child[k] EXCEPT !.pc = "releasing"] IN
  /\ At(k, "recording")
  /\ \/ /\ child' = [child EXCEPT ![k] = b]
        /\ kept' = [kept EXCEPT ![k] = b.receipt] /\ disk' = [disk EXCEPT ![k] = b.receipt]
        /\ UNCHANGED <<poolVars, faults>>
     \/ /\ child' = [child EXCEPT ![k] = Unknown(b)] /\ Lost
        /\ \E r \in {disk[k], b.receipt, Unknown(b).receipt} : disk' = [disk EXCEPT ![k] = r]
        /\ UNCHANGED kept
  /\ UNCHANGED <<books, call, workers, host>>

\* the last timing is saved, then the place and the reservation are given back
Leave(k) ==
  LET b == [child[k] EXCEPT !.pc = "over", !.attempted = FALSE, !.started = FALSE, !.unsaved = FALSE] IN
  /\ At(k, "releasing")
  /\ \/ /\ child' = [child EXCEPT ![k] = b] /\ pool' = Release(pool, k)
        /\ UNCHANGED <<unsafe, disk, faults>>
     \/ /\ pool.claim[k] = "granted" /\ faults < MaxFaults /\ faults' = faults + 1
        /\ child' = [child EXCEPT ![k] = Unknown(b)]
        /\ pool' = Release(Halted(pool), k) /\ unsafe' = TRUE
        /\ \E r \in {disk[k], Unknown(b).receipt} : disk' = [disk EXCEPT ![k] = r]
  /\ reserved' = reserved - 1 /\ call' = [call EXCEPT ![CallOf(k)].left = @ - 1]
  /\ UNCHANGED <<closer, recovering, recovered, settled, kept, workers, host>>
-----------------------------------------------------------------------------
(* The end of the parent run, and of the application. *)

\* the parent run ends; an abort of it closes the pool in the same way, and closeAll follows
CloseAll ==
  /\ host = "up" /\ closer = "none"
  /\ closer' = "closing" /\ pool' = Close(pool, "cancelled")
  /\ UNCHANGED <<unsafe, books, call, records, workers, host, faults>>

Operating(c) == call[c].pc \notin {"none", "prepared", "over"}
Closed ==
  /\ host = "up" /\ closer = "closing" /\ ~(\E c \in Calls : Operating(c)) /\ Drained(pool)
  /\ closer' = "closed"
  /\ UNCHANGED <<pool, unsafe, books, call, records, workers, host, faults>>

\* workers end with the application, and what they did last is not known; memory is gone
HostLost ==
  /\ host = "up" /\ host' = "lost"
  /\ fate' = [k \in Children |-> CASE fate[k] = "alive" -> "doubt" [] fate[k] = "called" -> "none"
                                    [] OTHER -> fate[k]]
  /\ lease' = [k \in Children |-> "none"]
  /\ pool' = EmptyPool(pool.capacity) /\ unsafe' = FALSE /\ closer' = "none"
  /\ reserved' = 0 /\ recovering' = {} /\ recovered' = {} /\ settled' = {}
  /\ call' = [c \in Calls |-> NoCall] /\ child' = [k \in Children |-> NotBegun]
  /\ kept' = [k \in Children |-> NoReceipt] /\ faults' = 0
  /\ UNCHANGED disk

ChildStep(k) == \/ Admitted(k) \/ Checked(k) \/ Created(k) \/ Launched(k) \/ Throw(k) \/ Start(k)
                \/ StartUnsaved(k) \/ Works(k) \/ Returns(k) \/ LeaseStays(k) \/ Rejects(k)
                \/ StartRefused(k) \/ Unclean(k) \/ Evidence(k) \/ Record(k) \/ Leave(k)
CallStep(c) == \/ Check(c) \/ Abandon(c) \/ Intend(c) \/ SaveIntent(c) \/ IntentLost(c) \/ Answer(c) \/ Drain(c)
DelegationStep == Closed \/ (\E k \in Children : ChildStep(k)) \/ (\E c \in Calls : CallStep(c))
Requests == \/ CloseAll \/ HostLost
            \/ \E c \in Calls : Prepare(c) \/ Refuse(c) \/ Execute(c)

Next == DelegationStep \/ Requests
Spec == Init /\ [][Next]_vars
-----------------------------------------------------------------------------
(* structured-executor.ts: refreshChildRecovery, from the receipts on disk *)

InDoubt(r) == \/ r.status \in {"prepared", "running", "unknown"} \/ r.result = "recovery_required"
              \/ r.ws # Nowhere /\ ~r.verified
Uncertain == \E k \in Children : InDoubt(disk[k])
\* a worktree is named after a child
RecoveryRoots == {k \in Children : InDoubt(disk[k]) /\ disk[k].mode = "implement" /\ disk[k].ws # Nowhere}
-----------------------------------------------------------------------------
(* What must hold. *)

UsesItsPlace(k) == child[k].pc # "over" /\ (child[k].started \/ child[k].attempted \/ fate[k] = "alive")

\* A place covers everything a child does: while its worktree is being made, its run goes
\* on or its receipt is not saved, it holds one of the places of the pool, which counts
\* exactly the places held and keeps nobody waiting while one is free; and the reservation
\* counts exactly the tasks that are not over (agent-task-pool.ts, releaseAdmission).
PlacesCover ==
  LET held == {k \in Children : pool.claim[k] = "granted"}
      due == {k \in Children : Operating(CallOf(k)) /\ child[k].pc # "over"} IN
  /\ pool.active = Cardinality(held) /\ pool.active <= pool.capacity
  /\ pool.queue # <<>> => pool.active = pool.capacity
  /\ \A k \in Children : UsesItsPlace(k) => k \in held
  /\ \A k \in Children : pool.claim[k] \in {"waiting", "granted"} => Operating(CallOf(k))
  /\ reserved = Cardinality(due) /\ reserved <= MaxQueued

\* No two children are at work in one worktree: while a child writes there it holds the
\* lease, every other child that was given that worktree has been recorded, is known to
\* have ended and has given back its lease; and no child is recovered twice (recovering,
\* recovered, verifyRecovery).
OneAtWork ==
  /\ \A k \in Children : fate[k] = "alive" /\ Writes(k) =>
       /\ lease[k] = "held"
       /\ \A j \in Children \ {k} : child[j].receipt.ws = child[k].receipt.ws =>
            fate[j] \in {"none", "gone"} /\ lease[j] = "none" /\ child[j].pc \in {"releasing", "over"}
  /\ \A c, d \in Calls : c # d /\ Recovery(c) /\ Recovery(d) /\ call[c].saved > 0 /\ call[d].saved > 0
       => call[c].target # call[d].target

\* A child at work has its place and its worktree to itself.
WorkIsCovered == PlacesCover /\ OneAtWork

\* Once the outcome or the cleanup of a child is in doubt nothing more is launched: no
\* worktree is made or taken over, no child is started and no run begins (halt).
NoLaunchAfterDoubt ==
  [][\A k \in Children :
       \/ child'[k].started /\ ~child[k].started
       \/ child'[k].receipt.verified /\ ~child[k].receipt.verified
       \/ fate'[k] = "alive" /\ fate[k] # "alive"
       => \A j \in Children : /\ child[j].receipt.status # "unknown" /\ lease[j] # "kept"
                              /\ fate[j] \notin {"doubt", "stray"}]_vars

\* What the next start reads is true: a receipt names an outcome only if the journal of that
\* child ended so or no run of it began, and a completed implementation has its evidence; and
\* whatever a child may have done unseen is in doubt there, its own worktree isolated.
ChildReceiptsAreTrue ==
  /\ \A k \in Children :
       LET r == disk[k] IN
       /\ r.status \in {"completed", "failed", "cancelled"} =>
            IF r.result = "none" THEN r.status # "completed" /\ fate[k] = "none"
            ELSE fate[k] = "gone" /\ r.result = r.status
       /\ r.status = "completed" /\ r.mode = "implement" => r.verified /\ r.artifact
  /\ host = "lost" \/ closer = "closed" =>
       \A k \in Children : fate[k] \in {"doubt", "stray"} =>
         InDoubt(disk[k]) /\ (Kind[CallOf(k)] = "implement" => k \in RecoveryRoots)

\* docs/NATIVE-AGENT-DELEGATION.md: after a restart the worktree of a child whose effects are
\* not known stays isolated.  The code looks for the worktree under the child's own name.
WorkspacesStayIsolated ==
  host = "lost" => \A k \in Children : disk[k].mode = "implement" /\ fate[k] = "doubt"
                                      => disk[k].ws \in RecoveryRoots
===============================================================================
