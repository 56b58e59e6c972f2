------------------------------ MODULE WorkerHost ------------------------------
(***************************************************************************)
(* One run of the agent loop in a process of its own, and the host that    *)
(* serves it (engines/native/worker-host.ts, worker-entry.ts): whatever    *)
(* has an effect or is written to the journal is a request the host checks *)
(* and carries out.  The host keeps its own account of the run and ends it *)
(* when a request does not fit.                                            *)
(*                                                                         *)
(* The loop sends one request at a time; pieces of the model's answer are  *)
(* sent beside it.  A response asks for one call, with a side effect and   *)
(* so subject to approval, or for none (NativeRun has the loop in full).   *)
(* Operators named Mutant... are wrong on purpose.                         *)
(***************************************************************************)
EXTENDS Naturals, FiniteSets

CONSTANTS Requests,   \* requests to execute, each with the run it starts
          MaxRounds   \* model requests of a run

ASSUME WorkerConstants == MaxRounds \in Nat \ {0}

VARIABLES ledger,    \* ledger[r]: what the journal says of the run of r
          writer,    \* who has the journal open in this process
          poisoned,  \* the open store met a failed append
          effects,   \* effects[r][n]: how often the call of round n of r has been carried out
          loop,      \* the worker process and its loop
          port,      \* the loop's request on its way to, in and from the host
          delta,     \* a piece of the answer on its way: "none", "sent", "open"
          late,      \* the time for approval has run out
          h          \* the host's account

workerVars == <<loop, port, delta, late, h>>

\* process: "none", "starting", "alive", "over" (exited as told), "dead"
NoLoop == [process |-> "none", at |-> "begin", round |-> 0, call |-> FALSE, cancelled |-> FALSE, stop |-> "none"]
Idle == [stage |-> "idle", value |-> "none"]
\* failure: why the host ends the worker; settled: what runNativeWorker returns
Account == [started |-> FALSE, begun |-> FALSE, attempt |-> FALSE, pending |-> FALSE,
            tool |-> "none", approval |-> "none", committed |-> "none", done |-> "none",
            failure |-> "none", aborted |-> FALSE, exited |-> FALSE, timer |-> "off",
            unclosed |-> FALSE, settled |-> "no"]

WorkerInit ==
  /\ loop = NoLoop /\ port = Idle /\ delta = "none" /\ late = FALSE /\ h = Account

Alive == loop.process = "alive"
Go(at) == [loop EXCEPT !.at = at]
\* endPending answers the call that is left, then finish
Ending(stop) == [loop EXCEPT !.stop = stop,
                             !.at = IF loop.call /\ stop # "recovery_required" THEN "completed" ELSE "finished"]

-----------------------------------------------------------------------------
(* The host ends a worker                                                  *)

InFlight(prt, d) == (IF prt.stage = "open" THEN 1 ELSE 0) + (IF d = "open" THEN 1 ELSE 0)

\* checkFinished: the process has exited and nothing is in flight any more
Checked(a, prt, d) ==
  IF a.settled # "no" \/ ~a.exited \/ InFlight(prt, d) # 0 THEN a
  ELSE [a EXCEPT !.timer = "off",
        !.settled = IF a.failure = "none" /\ a.done # "none" THEN "resolved" ELSE "rejected"]

Armed(a) == [a EXCEPT !.timer = IF @ = "off" THEN "shutdown" ELSE @]
Cancelled(a) == Armed([a EXCEPT !.aborted = TRUE])
Stop(a, why) == [Cancelled(a) EXCEPT !.failure = IF @ = "none" THEN why ELSE @]

\* fork, with the signal still clear
Fork ==
  /\ loop.process = "none" /\ h.settled = "no"
  /\ \/ loop' = [loop EXCEPT !.process = "starting"] /\ h' = h
     \/ loop' = loop /\ h' = [h EXCEPT !.settled = "rejected"]
  /\ UNCHANGED <<ledger, poisoned, effects, port, delta, late>>

WorkerReady ==
  /\ loop.process = "starting" /\ h.settled = "no"
  /\ h' = [h EXCEPT !.started = TRUE]
  /\ IF h.failure # "none" \/ h.aborted THEN UNCHANGED loop   \* the worker waits for its end
     ELSE loop' = [loop EXCEPT !.process = "alive"]
  /\ UNCHANGED <<ledger, poisoned, effects, port, delta, late>>

StartupTimeout ==
  /\ loop.process = "starting" /\ ~h.started /\ h.settled = "no" /\ h.failure = "none"
  /\ h' = Stop(h, "startup")
  /\ UNCHANGED <<ledger, poisoned, effects, loop, port, delta, late>>

\* the abort signal of the run; cancel reaches the worker some time later
CancelRun == h' = IF h.aborted \/ h.settled # "no" THEN h ELSE Cancelled(h)

CancelArrives ==
  /\ Alive /\ ~loop.cancelled /\ h.aborted
  /\ loop' = [loop EXCEPT !.cancelled = TRUE]
  /\ UNCHANGED <<ledger, poisoned, effects, port, delta, late, h>>

ShutdownTimer ==
  /\ h.timer = "shutdown" /\ h.settled = "no"
  /\ h' = [h EXCEPT !.timer = "hard"]
  /\ loop' = [loop EXCEPT !.process = IF @ \in {"starting", "alive"} THEN "dead" ELSE @]
  /\ UNCHANGED <<ledger, poisoned, effects, port, delta, late>>

\* nothing has confirmed the end: the caller keeps what the run holds
HardTimer ==
  /\ h.timer = "hard" /\ h.settled = "no"
  /\ h' = [h EXCEPT !.settled = "unconfirmed"]
  /\ UNCHANGED <<ledger, poisoned, effects, loop, port, delta, late>>

WorkerDies ==
  /\ loop.process \in {"starting", "alive"} /\ h.settled = "no"
  /\ loop' = [loop EXCEPT !.process = "dead"]
  /\ UNCHANGED <<ledger, poisoned, effects, port, delta, late, h>>

\* onExit; what the worker still had on the way is lost
WorkerExits ==
  /\ loop.process \in {"over", "dead"} /\ ~h.exited /\ h.settled = "no"
  /\ LET prt == IF port.stage = "open" THEN port ELSE Idle
         d == IF delta = "open" THEN "open" ELSE "none"
         a == [h EXCEPT !.exited = TRUE]
     IN /\ port' = prt /\ delta' = d
        /\ h' = Checked(IF h.done = "none" \/ loop.process = "dead" THEN Stop(a, "crash") ELSE Cancelled(a), prt, d)
  /\ UNCHANGED <<ledger, poisoned, effects, loop, late>>

-----------------------------------------------------------------------------
(* The loop                                                                *)

\* checkStopped, and an approval that has run out, before the next request
Interruptible == {"started", "prepare", "approval", "validate", "prepared", "execute"}
LoopTurns ==
  /\ Alive /\ port.stage = "idle"
  /\ \/ loop.cancelled /\ loop.at \in Interruptible /\ loop' = Ending("cancelled")
     \/ ~loop.cancelled /\ loop.at = "prepared" /\ late /\ loop' = Go("completed")
  /\ UNCHANGED <<ledger, poisoned, effects, port, delta, late, h>>

MutantLoopSends ==
  /\ Alive /\ port.stage = "idle" /\ loop.at # "generate"
  /\ loop.at \in Interruptible => ~loop.cancelled
  /\ loop.at = "prepared" => ~late
  /\ port' = [Idle EXCEPT !.stage = "sent"]
  /\ loop' = IF loop.at = "started" THEN [loop EXCEPT !.round = @ + 1] ELSE loop
  /\ late' = (late /\ loop.at # "approval")
  /\ UNCHANGED <<ledger, poisoned, effects, delta, h>>

\* the pieces of an answer are shown before the answer is recorded
LoopSends ==
  /\ Alive /\ port.stage = "idle" /\ loop.at # "generate"
  /\ loop.at \in Interruptible => ~loop.cancelled
  /\ loop.at = "prepared" => ~late
  /\ loop.at \in {"response", "failure", "done"} => delta = "none"
  /\ port' = [Idle EXCEPT !.stage = "sent"]
  /\ loop' = IF loop.at = "started" THEN [loop EXCEPT !.round = @ + 1] ELSE loop
  /\ late' = (late /\ loop.at # "approval")
  /\ UNCHANGED <<ledger, poisoned, effects, delta, h>>

ModelAnswers ==
  /\ Alive /\ loop.at = "generate"
  /\ \/ loop' = Go("failure")
     \/ /\ ~loop.cancelled
        /\ \E call \in BOOLEAN : /\ call => loop.round < MaxRounds
                                 /\ loop' = [loop EXCEPT !.at = "response", !.call = call]
  /\ UNCHANGED <<ledger, poisoned, effects, port, delta, late, h>>

SendDelta ==
  /\ Alive /\ loop.at = "generate" /\ ~loop.cancelled /\ delta = "none"
  /\ delta' = "sent"
  /\ UNCHANGED <<ledger, poisoned, effects, loop, port, late, h>>

Lost == [loop EXCEPT !.at = "done", !.stop = "lost"]   \* PersistenceFailure
AfterReply ==
  LET ok == port.value = "ok"
  IN CASE loop.at = "begin"     -> IF ok THEN Go("started") ELSE [loop EXCEPT !.process = "dead"]
       [] loop.at = "started"   -> IF ok THEN Go("generate") ELSE Lost
       [] loop.at = "response"  -> IF ~ok THEN Lost
                                   ELSE IF loop.cancelled THEN Ending("cancelled")
                                   ELSE IF loop.call THEN Go("prepare") ELSE Ending("completed")
       [] loop.at = "failure"   -> IF ~ok THEN Lost ELSE Ending(IF loop.cancelled THEN "cancelled" ELSE "failed")
       [] loop.at = "prepare"   -> IF ok THEN Go("approval") ELSE Go("completed")
       [] loop.at = "approval"  -> IF ok THEN Go("validate") ELSE Go("completed")
       [] loop.at = "validate"  -> IF ok THEN Go("prepared") ELSE Go("completed")
       [] loop.at = "prepared"  -> IF ok THEN Go("execute") ELSE Lost
       [] loop.at = "execute"   -> IF ok THEN Go("completed") ELSE Ending("recovery_required")
       [] loop.at = "completed" -> IF ~ok THEN Lost
                                   ELSE [loop EXCEPT !.call = FALSE,
                                                     !.at = IF loop.stop = "none" THEN "started" ELSE "finished"]
       [] loop.at = "finished"  -> IF ok THEN Go("done") ELSE Lost

ReplyArrives ==
  /\ Alive /\ port.stage = "replied"
  /\ loop' = IF loop.cancelled /\ loop.at \in {"prepare", "approval", "validate"} /\ port.value # "ok"
             THEN Ending("cancelled") ELSE AfterReply
  /\ port' = Idle
  /\ UNCHANGED <<ledger, poisoned, effects, delta, late, h>>

ApprovalRunsOut ==
  /\ loop.at \in {"approval", "validate", "prepared", "execute"} /\ ~late
  /\ loop.at = "approval" => port.stage \in {"open", "replied"}
  /\ late' = TRUE
  /\ UNCHANGED <<ledger, poisoned, effects, loop, port, delta, h>>

-----------------------------------------------------------------------------
(* The host serves it                                                      *)

JournalBusy == port.stage = "open" /\ loop.at \in {"started", "response", "failure"}
Approved == h.approval = "approved" /\ ~late

\* what dispatch lets pass
Fits ==
  /\ loop.at # "begin" => h.begun
  /\ CASE loop.at = "begin"     -> ~h.begun
       [] loop.at = "started"   -> ~h.attempt /\ ~h.pending /\ delta # "open"
       [] loop.at = "response"  -> h.attempt /\ ~h.pending /\ delta # "open"
       [] loop.at = "failure"   -> h.attempt /\ delta # "open"
       [] loop.at = "prepare"   -> h.pending /\ h.tool = "none"
       [] loop.at = "approval"  -> h.tool = "got" /\ h.approval = "none" /\ ~late
       [] loop.at = "validate"  -> h.tool \in {"got", "valid"}
       [] loop.at = "prepared"  -> h.tool = "valid" /\ Approved
       [] loop.at = "execute"   -> h.tool = "recorded" /\ Approved
       [] loop.at = "completed" -> h.pending /\ h.tool \notin {"executing", "threw"}
       [] loop.at = "finished"  -> ~h.attempt /\ h.committed = "none" /\ (h.pending => loop.stop = "recovery_required")
       [] loop.at = "done"      -> delta # "open"

Breach == h' = Checked(Stop(h, "breach"), Idle, delta)

\* onMessage and the checks of dispatch.  A request that does not fit is never
\* answered; once the signal is aborted nothing is prepared or executed.
Refusable == {"prepare", "approval", "validate", "execute"}
TakeRequest(r) ==
  /\ port.stage = "sent" /\ h.settled = "no" /\ ~h.exited
  /\ IF ~Fits \/ (h.failure # "none" /\ loop.at # "done")
     THEN /\ port' = [port EXCEPT !.stage = "lost"] /\ Breach
          /\ UNCHANGED effects
     ELSE IF loop.at = "done"
     THEN /\ port' = [port EXCEPT !.stage = "lost"]
          /\ h' = Armed([h EXCEPT !.done = loop.stop])
          /\ UNCHANGED effects
     ELSE IF h.aborted /\ loop.at \in Refusable
     THEN port' = [stage |-> "replied", value |-> "error"] /\ UNCHANGED <<effects, h>>
     ELSE /\ port' = [port EXCEPT !.stage = "open"]
          /\ h' = IF loop.at = "execute" THEN [h EXCEPT !.tool = "executing"] ELSE h
          /\ effects' = IF loop.at = "execute" THEN [effects EXCEPT ![r][loop.round] = @ + 1] ELSE effects
  /\ UNCHANGED <<ledger, poisoned, loop, delta, late>>

\* the worker exits once it is told that its result has been taken
Finish ==
  /\ Alive /\ h.done # "none"
  /\ loop' = [loop EXCEPT !.process = "over"]
  /\ UNCHANGED <<ledger, poisoned, effects, port, delta, late, h>>

TakeDelta ==
  /\ delta = "sent" /\ h.settled = "no" /\ ~h.exited
  /\ IF h.failure = "none" /\ h.begun /\ h.attempt /\ h.committed = "none" /\ ~JournalBusy
     THEN delta' = "open" /\ h' = h
     ELSE delta' = "none" /\ h' = Checked(Stop(h, "breach"), port, "none")
  /\ UNCHANGED <<ledger, poisoned, effects, loop, port, late>>

DeltaShown ==
  /\ delta = "open"
  /\ delta' = "none" /\ h' = Checked(h, port, "none")
  /\ UNCHANGED <<ledger, poisoned, effects, loop, port, late>>

\* the answer goes back, unless the host has given the worker up
Answer(a, value) ==
  /\ port' = [stage |-> IF a.exited \/ a.failure # "none" \/ a.settled # "no" THEN "lost" ELSE "replied", value |-> value]
  /\ h' = Checked(a, Idle, delta)

\* An append to the journal: it lands; it is refused; or it fails with or without
\* the record on disk, and the store takes nothing more.
Writable == writer = "run" /\ ~poisoned
Append(r, says, a) ==
  \/ /\ Writable /\ ledger' = [ledger EXCEPT ![r] = says]
     /\ Answer(a, "ok") /\ UNCHANGED poisoned
  \/ Answer(h, "error") /\ UNCHANGED <<ledger, poisoned>>
  \/ /\ Writable /\ poisoned' = TRUE /\ Answer(h, "error")
     /\ ledger' \in {ledger, [ledger EXCEPT ![r] = says]}
Serving(at) == port.stage = "open" /\ loop.at = at
AppendStep(r, at, says, a) ==
  /\ Serving(at) /\ Append(r, says, a)
  /\ UNCHANGED <<effects, loop, delta, late>>

\* The admission may also fail after the store has accepted the run.
BeginRun(r) ==
  \/ AppendStep(r, "begin", "running", [h EXCEPT !.begun = TRUE])
  \/ /\ Serving("begin") /\ Writable
     /\ ledger' = [ledger EXCEPT ![r] = "running"] /\ Answer(h, "error")
     /\ UNCHANGED <<poisoned, effects, loop, delta, late>>
AppendModel(r) ==
  \/ AppendStep(r, "started", ledger[r], [h EXCEPT !.attempt = TRUE])
  \/ AppendStep(r, "response", ledger[r], [h EXCEPT !.attempt = FALSE, !.pending = loop.call,
                                                     !.tool = "none", !.approval = "none"])
  \/ AppendStep(r, "failure", ledger[r], [h EXCEPT !.attempt = FALSE])
AppendPrepared(r) == AppendStep(r, "prepared", "prepared", [h EXCEPT !.tool = "recorded"])
AppendCompleted(r) == AppendStep(r, "completed", "running", [h EXCEPT !.pending = FALSE])

Verdict(stop) == CASE stop = "completed" -> "completed" [] stop = "recovery_required" -> "doubt" [] OTHER -> "ended"

\* Before the end of the run is stored everything it has started is closed, which
\* may not be confirmed.
AppendFinished(r) ==
  \/ AppendStep(r, "finished", Verdict(loop.stop), [h EXCEPT !.committed = loop.stop])
  \/ /\ Serving("finished") /\ Answer([h EXCEPT !.unclosed = TRUE], "error")
     /\ UNCHANGED <<ledger, poisoned, effects, loop, delta, late>>

\* preparing, asking and validating; an abort in between counts as an error
AskHost ==
  /\ \E at \in {"prepare", "approval", "validate"} :
       /\ Serving(at)
       /\ \/ /\ ~h.aborted /\ (at = "approval" => ~late)
             /\ Answer([h EXCEPT !.tool = CASE at = "prepare" -> "got" [] at = "validate" -> "valid" [] OTHER -> @,
                                 !.approval = IF at = "approval" THEN "approved" ELSE @], "ok")
          \/ Answer([h EXCEPT !.approval = IF at = "approval" THEN "denied" ELSE @], "error")
  /\ UNCHANGED <<ledger, poisoned, effects, loop, delta, late>>

\* a result, or none that could be trusted
ToolReturns ==
  /\ Serving("execute")
  /\ \/ Answer([h EXCEPT !.tool = "executed"], "ok")
     \/ Answer([h EXCEPT !.tool = "threw"], "error")
  /\ UNCHANGED <<ledger, poisoned, effects, loop, delta, late>>

-----------------------------------------------------------------------------

\* what is left of a run that has been settled: a process that has not ended, what
\* the host has taken and not answered, and that the end is unconfirmed
Settle ==
  /\ loop' = IF port.stage = "open" THEN loop
             ELSE [NoLoop EXCEPT !.process = IF loop.process \in {"over", "dead"} THEN "none" ELSE loop.process]
  /\ port' = IF port.stage = "open" THEN port ELSE Idle
  /\ delta' = IF delta = "open" THEN delta ELSE "none"
  /\ late' = FALSE
  /\ h' = IF h.settled = "unconfirmed" THEN [Account EXCEPT !.settled = "unconfirmed"] ELSE Account

LoopStep == LoopTurns \/ LoopSends \/ ModelAnswers \/ ReplyArrives \/ CancelArrives \/ Finish
HostStep(r) ==
  \/ WorkerReady \/ ShutdownTimer \/ HardTimer \/ WorkerExits
  \/ TakeRequest(r) \/ TakeDelta \/ DeltaShown
PortStep(r) ==
  \/ BeginRun(r) \/ AppendModel(r) \/ AppendPrepared(r) \/ AppendCompleted(r) \/ AppendFinished(r)
  \/ AskHost \/ ToolReturns
WorkerStep(r) ==
  \/ LoopStep \/ HostStep(r) \/ PortStep(r)
  \/ SendDelta \/ ApprovalRunsOut \/ StartupTimeout \/ WorkerDies
=============================================================================
