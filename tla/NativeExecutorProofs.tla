------------------------- MODULE NativeExecutorProofs -------------------------
(***************************************************************************)
(* What TLAPS proves of a native session, for any requests, rounds and     *)
(* crashes.                                                                *)
(***************************************************************************)
EXTENDS NativeExecutor, TLAPS

-----------------------------------------------------------------------------
(* Types.                                                                  *)

Ats == {"begin", "started", "generate", "response", "failure", "prepare", "approval", "validate",
        "prepared", "execute", "completed", "finished", "done"}
Stops == {"none", "completed", "failed", "cancelled", "recovery_required", "lost"}

IsLoop(l) ==
  /\ DOMAIN l = {"process", "at", "round", "call", "cancelled", "stop"}
  /\ l.process \in {"none", "starting", "alive", "over", "dead"}
  /\ l.at \in Ats /\ l.round \in Nat /\ l.call \in BOOLEAN /\ l.cancelled \in BOOLEAN
  /\ l.stop \in Stops
IsPort(p) ==
  /\ DOMAIN p = {"stage", "value"}
  /\ p.stage \in {"idle", "sent", "open", "replied", "lost"} /\ p.value \in {"none", "ok", "error"}
IsAccount(a) ==
  /\ DOMAIN a = {"started", "begun", "attempt", "pending", "tool", "approval", "committed", "done",
                 "failure", "aborted", "exited", "timer", "unclosed", "settled"}
  /\ a.started \in BOOLEAN /\ a.begun \in BOOLEAN /\ a.attempt \in BOOLEAN /\ a.pending \in BOOLEAN
  /\ a.tool \in {"none", "got", "valid", "recorded", "executing", "executed", "threw"}
  /\ a.approval \in {"none", "approved", "denied"}
  /\ a.committed \in Stops /\ a.done \in Stops
  /\ a.failure \in {"none", "startup", "crash", "breach"}
  /\ a.aborted \in BOOLEAN /\ a.exited \in BOOLEAN /\ a.timer \in {"off", "shutdown", "hard"}
  /\ a.unclosed \in BOOLEAN /\ a.settled \in {"no", "resolved", "rejected", "unconfirmed"}

Early == {"none", "waiting", "opening", "receipts", "reopening", "preparing"}
IsRun(a) ==
  /\ DOMAIN a = {"req", "pc", "aborted", "identity", "store", "tasks", "doubt", "tasksOnly",
                 "failed", "result"}
  /\ a.pc \in Early \cup {"working"} \cup Ended
  /\ a.req \in Requests \cup {NONE} /\ (a.pc # "none" => a.req \in Requests)
  /\ a.aborted \in BOOLEAN /\ a.identity \in BOOLEAN /\ a.store \in BOOLEAN /\ a.tasks \in BOOLEAN
  /\ a.doubt \in BOOLEAN /\ a.tasksOnly \in BOOLEAN /\ a.failed \in BOOLEAN
  /\ a.result \in {"success", "failed"}
IsOperation(o) ==
  /\ DOMAIN o = {"kind", "pc", "aborted", "store", "doubt"}
  /\ o.kind \in {"none", "resume", "compact", "confirm"}
  /\ o.pc \in {"none", "waiting", "opening", "acting", "closing", "held"}
  /\ o.aborted \in BOOLEAN /\ o.store \in BOOLEAN /\ o.doubt \in BOOLEAN
IsHydration(y) ==
  /\ DOMAIN y = {"pc", "of", "strict"}
  /\ y.pc \in {"none", "opening", "reading"} /\ y.of \in {"none", "run", "operation"}
  /\ y.strict \in BOOLEAN

Says == {"none", "running", "prepared", "safe", "doubt", "completed", "ended", "resolved"}
ServedAts == Ats \ {"generate", "done"}
Deltas == {"none", "sent", "open"}
WorkerTyped ==
  /\ ledger \in [Requests -> Says] /\ effects \in [Requests -> [1 .. MaxRounds -> Nat]]
  /\ poisoned \in BOOLEAN
  /\ IsLoop(loop) /\ IsPort(port) /\ delta \in Deltas /\ late \in BOOLEAN /\ IsAccount(h)
  /\ port.stage = "replied" => loop.at \in ServedAts
HostTyped ==
  /\ IsRun(active) /\ IsOperation(operation) /\ IsHydration(hydration)
  /\ writer \in {"none", "run", "operation", "hydration"}
  /\ recovery \in BOOLEAN /\ acknowledged \in BOOLEAN /\ marked \in BOOLEAN
  /\ tasksHeld \in BOOLEAN /\ maintenance \in BOOLEAN /\ exiting \in BOOLEAN
  /\ collided \in BOOLEAN /\ lifted \in BOOLEAN
  /\ DOMAIN told = {"req", "result"} /\ told.req \in Requests \cup {NONE}
  /\ told.result \in {"none", "success", "failed"}
Typed == WorkerTyped /\ HostTyped

-----------------------------------------------------------------------------
(* The inductive invariant.                                                *)

\* The entry of a run, and that of an operation.
RunIsSound(a) ==
  /\ a.pc \in Early => ~a.doubt /\ ~a.failed /\ a.result = "failed"
  /\ a.pc = "receipts" => a.store
  /\ a.pc \in {"preparing", "working"} => a.identity /\ a.store
  /\ a.store => a.pc \in {"receipts", "preparing", "working"} \cup Ended
  /\ a.pc = "tasks" /\ a.store => a.doubt
  /\ a.pc = "held" => a.doubt
  /\ a.tasksOnly => a.pc = "held" /\ ~a.store
OperationIsSound(o) ==
  /\ o.pc \in {"none", "waiting", "opening"} => ~o.doubt /\ ~o.store
  /\ o.pc = "acting" => o.store /\ ~o.doubt

\* Who may have the journal open, and who waits for whom.
Waits == active.pc \in {"none", "waiting"} /\ operation.pc \in {"none", "waiting"}
Control ==
  /\ RunIsSound(active) /\ OperationIsSound(operation)
  /\ ~(Running /\ Operating)
  /\ tasksHeld => active.pc = "held"
  /\ writer = "run" <=> active.pc \in {"opening", "reopening"} \/ active.store
  /\ writer = "operation" <=> operation.pc = "opening" \/ operation.store
  /\ writer = "hydration" <=> hydration.pc # "none" /\ hydration.of = "none"
  /\ hydration.pc = "none" => hydration.of = "none" /\ ~hydration.strict
  /\ hydration.pc = "opening" => hydration.of = "none"
  /\ writer = "hydration" \/ hydration.strict => Waits
  /\ hydration.of = "run" => operation.pc \in {"none", "waiting"}
  /\ hydration.of = "operation" => active.pc \in {"none", "waiting"}
  /\ ~collided

\* A worker is at work for a run, or has been given up by it.
AtRest == loop = NoLoop /\ port = Idle /\ delta = "none" /\ ~late /\ h = Account
GivenUp == /\ active.pc \in Ended /\ active.doubt /\ active.result = "failed" /\ ~active.tasksOnly
           /\ h.settled = "unconfirmed"
EndIsConfirmed ==
  /\ h.settled = "resolved" => h.done # "none"
  /\ h.settled \in {"resolved", "rejected"} =>
       loop.process \notin {"starting", "alive"} /\ port.stage # "open" /\ delta # "open"
  /\ h.exited => loop.process \notin {"starting", "alive"}
  /\ loop.process = "starting" => loop.at = "begin"
Worker == EndIsConfirmed /\ (active.pc # "working" => AtRest \/ GivenUp)

\* What has been carried out for a request, and how far its run is.
Fresh == {"generate", "response", "failure", "prepare", "approval", "validate", "prepared"}
Nothing(r) == \A n \in 1 .. MaxRounds : effects[r][n] = 0
CallIsFresh ==
  \/ loop.at \in Fresh
  \/ loop.at = "started" /\ port.stage # "idle"
  \/ loop.at = "execute" /\ (port.stage = "sent" \/ (port.stage = "idle" /\ Alive))
CallsOf(r) ==
  /\ loop.at # "begin" \/ (port.stage = "replied" /\ port.value = "ok") => ledger[r] # "none"
  /\ loop.at = "begin" => loop.round = 0
  /\ \A n \in 1 .. MaxRounds : n > loop.round \/ (n = loop.round /\ CallIsFresh) => effects[r][n] = 0
Once == \A r \in Requests :
  /\ \A n \in 1 .. MaxRounds : effects[r][n] <= 1
  /\ ledger[r] = "none" => Nothing(r)
Effects ==
  /\ Once
  /\ active.pc \in {"reopening", "preparing"} => ledger[active.req] = "none"
  /\ active.pc = "working" => CallsOf(active.req)

\* What the journal says, and what the sender is told.
EndOf(r) ==
  /\ (loop.at = "done" /\ loop.stop # "lost")
       \/ (loop.at = "finished" /\ port.stage = "replied" /\ port.value = "ok") =>
       ledger[r] = Verdict(loop.stop)
  /\ loop.at = "done" => port.stage # "replied"
  /\ h.done # "none" => loop.at = "done" /\ h.done = loop.stop
  /\ loop.at \in {"finished", "done"} => loop.stop # "none"
AnswersFollow ==
  /\ active.pc = "working" => EndOf(active.req) /\ active.result = "failed" /\ ~active.failed
  /\ active.pc # "none" /\ active.result = "success" => ledger[active.req] = "completed"
  /\ active.pc \notin {"none", "held"} => told.result = "none"
  /\ told.result = "success" => told.req \in Requests /\ ledger[told.req] = "completed" /\ ~GivenUp

\* An effect that is not known to have happened.
InDoubt(r) == ledger[r] \in {"prepared", "doubt"}
Known(r) ==
  \/ recovery \/ acknowledged \/ lifted \/ exiting \/ hydration.strict
  \/ /\ Running /\ r = active.req
     /\ active.pc = "working" \/ active.doubt \/ (active.failed /\ active.identity)
Doubts ==
  /\ \A r \in Requests : InDoubt(r) => Known(r)
  /\ hydration.of = "run" => recovery \/ active.doubt
  /\ (hydration.pc = "reading" /\ hydration.of # "run") \/ operation.store =>
       \A r \in Requests : ledger[r] \notin {"running", "prepared"}

\* The account of the host fits the place of the loop, for as long as the worker has not
\* been given up: Shape is the account before the request of a place is served, Onward
\* and Back are the places its answer leads to.
Calling == {"prepare", "approval", "validate", "prepared", "execute", "completed"}
Shape(a, at, call) ==
  /\ (a.begun <=> at # "begin") /\ (a.attempt <=> at \in {"generate", "response", "failure"})
  /\ (a.pending <=> call /\ at # "response") /\ a.committed = "none"
  /\ at \in Calling => call
  /\ at \in {"begin", "started", "generate", "failure"} => ~call
  /\ at = "prepare" => a.tool = "none" /\ a.approval = "none"
  /\ at = "approval" => a.tool = "got" /\ a.approval = "none"
  /\ at = "validate" => a.tool = "got" /\ a.approval = "approved"
  /\ at = "prepared" => a.tool = "valid" /\ a.approval = "approved"
  /\ at = "execute" => a.tool \in {"recorded", "executing"} /\ a.approval = "approved"
  /\ at = "completed" => a.tool \notin {"executing", "threw"}
Onward(at, call) ==
  CASE at = "begin" -> "started" [] at = "started" -> "generate"
    [] at = "response" -> (IF call THEN "prepare" ELSE "finished") [] at = "failure" -> "finished"
    [] at = "prepare" -> "approval" [] at = "approval" -> "validate" [] at = "validate" -> "prepared"
    [] at = "prepared" -> "execute" [] at = "execute" -> "completed" [] OTHER -> "started"
Back(at) == CASE at = "begin" -> "begin" [] at = "execute" -> "finished" [] OTHER -> "completed"
Returning == {"begin", "prepare", "approval", "validate", "execute"}
Fitting ==
  /\ loop.at # "begin" => h.begun
  /\ port.stage \in {"idle", "sent", "open"} /\ loop.at # "done" => Shape(h, loop.at, loop.call)
  /\ loop.at \in {"begin", "started", "generate", "failure"} => ~loop.call
  /\ port.stage \in {"idle", "sent"} /\ loop.at = "execute" => h.tool = "recorded"
  /\ port.stage = "replied" /\ port.value = "ok" /\ loop.at = "prepared" => h.tool = "recorded"
  /\ loop.at = "finished" /\ loop.call => loop.stop = "recovery_required"
  /\ port.stage = "replied" /\ port.value = "ok" /\ loop.at # "finished" =>
       Shape(h, Onward(loop.at, loop.call), loop.call /\ loop.at # "completed")
  /\ port.stage = "replied" /\ port.value # "ok" /\ loop.at \in Returning =>
       Shape(h, Back(loop.at), loop.call)
  /\ port.stage = "lost" => loop.at = "done"
  /\ loop.at = "generate" => port.stage = "idle"
  /\ delta # "none" => port.stage = "idle" /\ loop.at \in {"generate", "response", "failure"}
  /\ port.stage = "sent" /\ loop.at = "approval" => ~late
Trusted == h.failure = "none" /\ ~h.exited /\ h.settled = "no"
Broken == h.failure = "breach" => late /\ (port.stage = "lost" \/ h.exited)
Protocol ==
  /\ active.pc = "working" => (Trusted => Fitting) /\ Broken
  /\ active.pc # "working" => h.failure = "none"

IInv == Typed /\ Control /\ Worker /\ Effects /\ AnswersFollow /\ Doubts /\ Protocol

-----------------------------------------------------------------------------
(* The account of the host.                                                *)

LEMMA CheckedIs ==
  ASSUME NEW a, IsAccount(a), NEW p, NEW d
  PROVE  LET b == Checked(a, p, d)
         IN  /\ IsAccount(b) /\ b.started = a.started /\ b.begun = a.begun /\ b.attempt = a.attempt
             /\ b.pending = a.pending /\ b.tool = a.tool /\ b.approval = a.approval
             /\ b.committed = a.committed /\ b.done = a.done /\ b.failure = a.failure
             /\ b.aborted = a.aborted /\ b.exited = a.exited /\ b.unclosed = a.unclosed
             /\ b.settled # a.settled =>
                  /\ a.settled = "no" /\ a.exited /\ b.settled \in {"resolved", "rejected"}
                  /\ p.stage # "open" /\ d # "open"
                  /\ b.settled = "resolved" => a.done # "none" /\ a.failure = "none"
<1>1. InFlight(p, d) = 0 => p.stage # "open" /\ d # "open"
  BY DEF InFlight
<1> HIDE DEF InFlight
<1> QED BY <1>1 DEF Checked, IsAccount

LEMMA StopIs ==
  ASSUME NEW a, IsAccount(a), NEW why \in {"startup", "crash", "breach"}
  PROVE  LET b == Stop(a, why)
         IN  /\ IsAccount(b) /\ b.started = a.started /\ b.begun = a.begun /\ b.attempt = a.attempt
             /\ b.pending = a.pending /\ b.tool = a.tool /\ b.approval = a.approval
             /\ b.committed = a.committed /\ b.done = a.done /\ b.aborted
             /\ b.exited = a.exited /\ b.unclosed = a.unclosed /\ b.settled = a.settled
             /\ b.failure = IF a.failure = "none" THEN why ELSE a.failure
BY DEF Stop, Cancelled, Armed, IsAccount

LEMMA CancelledIs ==
  ASSUME NEW a, IsAccount(a)
  PROVE  LET b == Cancelled(a)
         IN  /\ IsAccount(b) /\ b.started = a.started /\ b.begun = a.begun /\ b.attempt = a.attempt
             /\ b.pending = a.pending /\ b.tool = a.tool /\ b.approval = a.approval
             /\ b.committed = a.committed /\ b.done = a.done /\ b.aborted
             /\ b.exited = a.exited /\ b.unclosed = a.unclosed /\ b.settled = a.settled
             /\ b.failure = a.failure
BY DEF Cancelled, Armed, IsAccount

LEMMA ArmedIs ==
  ASSUME NEW a, IsAccount(a)
  PROVE  LET b == Armed(a)
         IN  /\ IsAccount(b) /\ b.started = a.started /\ b.begun = a.begun /\ b.attempt = a.attempt
             /\ b.pending = a.pending /\ b.tool = a.tool /\ b.approval = a.approval
             /\ b.committed = a.committed /\ b.done = a.done /\ b.aborted = a.aborted
             /\ b.exited = a.exited /\ b.unclosed = a.unclosed /\ b.settled = a.settled
             /\ b.failure = a.failure
BY DEF Armed, IsAccount

-----------------------------------------------------------------------------
(* What a step of a request that the host serves comes to.                 *)

\* what the journal says once the record is on it, and the account with the answer
SaysAt(r, at) == CASE at = "begin" -> "running" [] at = "prepared" -> "prepared"
                   [] at = "completed" -> "running" [] at = "finished" -> Verdict(loop.stop)
                   [] OTHER -> ledger[r]
Appending == {"begin", "started", "response", "failure", "prepared", "completed", "finished"}
AccountAt(at) ==
  CASE at = "begin" -> [h EXCEPT !.begun = TRUE]
    [] at = "started" -> [h EXCEPT !.attempt = TRUE]
    [] at = "response" -> [h EXCEPT !.attempt = FALSE, !.pending = loop.call,
                                    !.tool = "none", !.approval = "none"]
    [] at = "failure" -> [h EXCEPT !.attempt = FALSE]
    [] at \in {"prepare", "approval", "validate"} ->
         [h EXCEPT !.tool = CASE at = "prepare" -> "got" [] at = "validate" -> "valid" [] OTHER -> h.tool,
                   !.approval = IF at = "approval" THEN "approved" ELSE h.approval]
    [] at = "prepared" -> [h EXCEPT !.tool = "recorded"]
    [] at = "execute" -> [h EXCEPT !.tool = "executed"]
    [] at = "completed" -> [h EXCEPT !.pending = FALSE]
    [] at = "finished" -> [h EXCEPT !.committed = loop.stop]
ErrorAt(at, a) ==
  \/ a = h
  \/ /\ at \in {"prepare", "approval", "validate"}
     /\ a = [h EXCEPT !.approval = IF at = "approval" THEN "denied" ELSE h.approval]
  \/ at = "execute" /\ a = [h EXCEPT !.tool = "threw"]
  \/ at = "finished" /\ a = [h EXCEPT !.unclosed = TRUE]
Served(r, at) ==
  /\ Serving(at) /\ UNCHANGED <<effects, loop, delta, late>>
  /\ \/ /\ Answer(AccountAt(at), "ok")
        /\ ledger' = IF at \in Appending THEN [ledger EXCEPT ![r] = SaysAt(r, at)] ELSE ledger
        /\ UNCHANGED poisoned
        /\ at = "approval" => ~late
     \/ /\ \E a : ErrorAt(at, a) /\ Answer(a, "error")
        /\ poisoned' \in BOOLEAN
        /\ (ledger' = ledger) \/ (at \in Appending /\ ledger' = [ledger EXCEPT ![r] = SaysAt(r, at)])
LEMMA AppendIs ==
  ASSUME NEW r, NEW at, NEW says, NEW a, AppendStep(r, at, says, a), poisoned \in BOOLEAN,
         at \in Appending, says = SaysAt(r, at), a = AccountAt(at)
  PROVE  Served(r, at)
<1>1. Append(r, says, a) /\ Serving(at) /\ UNCHANGED <<effects, loop, delta, late>>
  BY DEF AppendStep
<1>2. at # "approval"
  BY DEF Appending
<1>3. ErrorAt(at, h)
  BY DEF ErrorAt
<1>4. CASE ledger' = [ledger EXCEPT ![r] = says] /\ Answer(a, "ok") /\ UNCHANGED poisoned
  <2>1. Answer(AccountAt(at), "ok")
    BY <1>4 DEF Answer
  <2> HIDE DEF Answer
  <2> QED BY <1>1, <1>2, <1>4, <2>1 DEF Served
<1>5. CASE /\ Answer(h, "error") /\ poisoned' \in BOOLEAN
           /\ ledger' = ledger \/ ledger' = [ledger EXCEPT ![r] = says]
  <2> HIDE DEF Answer
  <2> QED BY <1>1, <1>3, <1>5 DEF Served
<1>6. \/ ledger' = [ledger EXCEPT ![r] = says] /\ Answer(a, "ok") /\ UNCHANGED poisoned
      \/ /\ Answer(h, "error") /\ poisoned' \in BOOLEAN
         /\ ledger' = ledger \/ ledger' = [ledger EXCEPT ![r] = says]
  <2> HIDE DEF Answer
  <2> QED BY <1>1 DEF Append
<1> QED BY <1>4, <1>5, <1>6

LEMMA PortStepIs ==
  ASSUME NEW r \in Requests, Typed, PortStep(r)
  PROVE  \E at \in ServedAts : Served(r, at)
<1> USE DEF Typed, WorkerTyped
<1>1. CASE BeginRun(r)
  <2>1. CASE AppendStep(r, "begin", "running", [h EXCEPT !.begun = TRUE])
    BY <2>1, AppendIs DEF SaysAt, AccountAt, Appending, ServedAts, Ats
  <2>2. CASE ~AppendStep(r, "begin", "running", [h EXCEPT !.begun = TRUE])
    <3>1. /\ Serving("begin") /\ ledger' = [ledger EXCEPT ![r] = "running"] /\ Answer(h, "error")
          /\ UNCHANGED <<poisoned, effects, loop, delta, late>>
      BY <1>1, <2>2 DEF BeginRun
    <3> HIDE DEF Answer
    <3> QED BY <3>1 DEF Served, ErrorAt, SaysAt, Appending, ServedAts, Ats
  <2> QED BY <2>1, <2>2
<1>2. CASE AppendModel(r)
  <2>1. CASE AppendStep(r, "started", ledger[r], [h EXCEPT !.attempt = TRUE])
    BY <2>1, AppendIs DEF SaysAt, AccountAt, Appending, ServedAts, Ats
  <2>2. CASE AppendStep(r, "response", ledger[r], [h EXCEPT !.attempt = FALSE, !.pending = loop.call,
                                                     !.tool = "none", !.approval = "none"])
    BY <2>2, AppendIs DEF SaysAt, AccountAt, Appending, ServedAts, Ats
  <2>3. CASE AppendStep(r, "failure", ledger[r], [h EXCEPT !.attempt = FALSE])
    BY <2>3, AppendIs DEF SaysAt, AccountAt, Appending, ServedAts, Ats
  <2> QED BY <1>2, <2>1, <2>2, <2>3 DEF AppendModel
<1>3. CASE AppendPrepared(r)
  <2>1. AppendStep(r, "prepared", "prepared", [h EXCEPT !.tool = "recorded"])
    BY <1>3 DEF AppendPrepared
  <2>2. SaysAt(r, "prepared") = "prepared" /\ AccountAt("prepared") = [h EXCEPT !.tool = "recorded"]
    BY DEF SaysAt, AccountAt
  <2>3. "prepared" \in Appending /\ "prepared" \in ServedAts
    BY DEF Appending, ServedAts, Ats
  <2> QED BY <2>1, <2>2, <2>3, AppendIs
<1>4. CASE AppendCompleted(r)
  <2>1. AppendStep(r, "completed", "running", [h EXCEPT !.pending = FALSE])
    BY <1>4 DEF AppendCompleted
  <2>2. SaysAt(r, "completed") = "running" /\ AccountAt("completed") = [h EXCEPT !.pending = FALSE]
    BY DEF SaysAt, AccountAt
  <2>3. "completed" \in Appending /\ "completed" \in ServedAts
    BY DEF Appending, ServedAts, Ats
  <2> QED BY <2>1, <2>2, <2>3, AppendIs
<1>5. CASE AppendFinished(r)
  <2>1. CASE AppendStep(r, "finished", Verdict(loop.stop), [h EXCEPT !.committed = loop.stop])
    <3>1. SaysAt(r, "finished") = Verdict(loop.stop) /\ AccountAt("finished") = [h EXCEPT !.committed = loop.stop]
      BY DEF SaysAt, AccountAt
    <3>2. "finished" \in Appending /\ "finished" \in ServedAts
      BY DEF Appending, ServedAts, Ats
    <3> QED BY <2>1, <3>1, <3>2, AppendIs
  <2>2. CASE ~AppendStep(r, "finished", Verdict(loop.stop), [h EXCEPT !.committed = loop.stop])
    <3>1. /\ Serving("finished") /\ Answer([h EXCEPT !.unclosed = TRUE], "error")
          /\ UNCHANGED <<ledger, poisoned, effects, loop, delta, late>>
      BY <1>5, <2>2 DEF AppendFinished
    <3> HIDE DEF Answer
    <3> QED BY <3>1 DEF Served, ErrorAt, ServedAts, Ats
  <2> QED BY <2>1, <2>2
<1>6. CASE AskHost
  <2>1. PICK at \in {"prepare", "approval", "validate"} :
          /\ Serving(at)
          /\ \/ /\ ~h.aborted /\ (at = "approval" => ~late)
                /\ Answer([h EXCEPT !.tool = CASE at = "prepare" -> "got" [] at = "validate" -> "valid" [] OTHER -> h.tool,
                                    !.approval = IF at = "approval" THEN "approved" ELSE h.approval], "ok")
             \/ Answer([h EXCEPT !.approval = IF at = "approval" THEN "denied" ELSE h.approval], "error")
    BY <1>6 DEF AskHost
  <2>2. UNCHANGED <<ledger, poisoned, effects, loop, delta, late>>
    BY <1>6 DEF AskHost
  <2> DEFINE a == [h EXCEPT !.tool = CASE at = "prepare" -> "got" [] at = "validate" -> "valid" [] OTHER -> h.tool,
                                    !.approval = IF at = "approval" THEN "approved" ELSE h.approval]
             b == [h EXCEPT !.approval = IF at = "approval" THEN "denied" ELSE h.approval]
  <2>3. a = AccountAt(at) /\ ErrorAt(at, b)
    BY DEF AccountAt, ErrorAt
  <2> HIDE DEF a, b, Answer
  <2>4. at \notin Appending /\ at \in ServedAts
    BY DEF Appending, ServedAts, Ats
  <2>5. (Answer(a, "ok") /\ (at = "approval" => ~late)) \/ Answer(b, "error")
    BY <2>1 DEF a, b
  <2>6. CASE Answer(a, "ok") /\ (at = "approval" => ~late)
    <3>1. Answer(AccountAt(at), "ok")
      BY <2>3, <2>6 DEF Answer
    <3> QED BY <2>1, <2>2, <2>4, <2>6, <3>1 DEF Served
  <2>7. CASE Answer(b, "error")
    <3>1. \E c : ErrorAt(at, c) /\ Answer(c, "error")
      BY <2>3, <2>7
    <3> QED BY <2>1, <2>2, <2>4, <3>1 DEF Served
  <2> QED BY <2>4, <2>5, <2>6, <2>7
<1>7. CASE ToolReturns
  <2>1. /\ Serving("execute") /\ UNCHANGED <<ledger, poisoned, effects, loop, delta, late>>
        /\ Answer([h EXCEPT !.tool = "executed"], "ok") \/ Answer([h EXCEPT !.tool = "threw"], "error")
    BY <1>7 DEF ToolReturns
  <2>2. AccountAt("execute") = [h EXCEPT !.tool = "executed"]
    BY DEF AccountAt
  <2>3. "execute" \notin Appending /\ "execute" \in ServedAts
    BY DEF Appending, ServedAts, Ats
  <2>4. Answer(AccountAt("execute"), "ok") \/ Answer([h EXCEPT !.tool = "threw"], "error")
    BY <2>1, <2>2 DEF Answer
  <2>6. ErrorAt("execute", [h EXCEPT !.tool = "threw"])
    BY DEF ErrorAt
  <2> HIDE DEF Answer
  <2>5. Served(r, "execute")
    BY <2>1, <2>3, <2>4, <2>6 DEF Served
  <2> QED BY <2>3, <2>5
<1> QED BY <1>1, <1>2, <1>3, <1>4, <1>5, <1>6, <1>7 DEF PortStep

LEMMA AccountAtIs ==
  ASSUME WorkerTyped, NEW at \in ServedAts, NEW a, a = AccountAt(at) \/ ErrorAt(at, a)
  PROVE  /\ IsAccount(a) /\ a.done = h.done /\ a.exited = h.exited /\ a.failure = h.failure
         /\ a.aborted = h.aborted /\ a.settled = h.settled /\ a.started = h.started
         /\ (h.unclosed => a.unclosed)
<1> USE DEF WorkerTyped
<1>1. CASE ErrorAt(at, a)
  BY <1>1 DEF ErrorAt, IsAccount
<1>2. CASE a = AccountAt(at)
  <2>1. loop.call \in BOOLEAN /\ loop.stop \in Stops
    BY DEF IsLoop
  <2>2. CASE at \in {"begin", "started", "failure", "prepared", "execute", "completed"}
    <3>1. \/ a = [h EXCEPT !.begun = TRUE] \/ a = [h EXCEPT !.attempt = TRUE]
          \/ a = [h EXCEPT !.attempt = FALSE] \/ a = [h EXCEPT !.tool = "recorded"]
          \/ a = [h EXCEPT !.tool = "executed"] \/ a = [h EXCEPT !.pending = FALSE]
      BY <1>2, <2>2 DEF AccountAt
    <3>2. CASE a = [h EXCEPT !.begun = TRUE] BY <3>2 DEF IsAccount
    <3>3. CASE a = [h EXCEPT !.attempt = TRUE] BY <3>3 DEF IsAccount
    <3>4. CASE a = [h EXCEPT !.attempt = FALSE] BY <3>4 DEF IsAccount
    <3>5. CASE a = [h EXCEPT !.tool = "recorded"] BY <3>5 DEF IsAccount
    <3>6. CASE a = [h EXCEPT !.tool = "executed"] BY <3>6 DEF IsAccount
    <3>7. CASE a = [h EXCEPT !.pending = FALSE] BY <3>7 DEF IsAccount
    <3> QED BY <3>1, <3>2, <3>3, <3>4, <3>5, <3>6, <3>7
  <2>3. CASE at = "response"
    <3>1. a = [h EXCEPT !.attempt = FALSE, !.pending = loop.call, !.tool = "none", !.approval = "none"]
      BY <1>2, <2>3 DEF AccountAt
    <3> QED BY <2>1, <3>1 DEF IsAccount
  <2>4. CASE at \in {"prepare", "approval", "validate"}
    <3>1. PICK t \in {"got", "valid", h.tool}, v \in {"approved", h.approval} :
            a = [h EXCEPT !.tool = t, !.approval = v]
      BY <1>2, <2>4 DEF AccountAt
    <3> QED BY <3>1 DEF IsAccount
  <2>5. CASE at = "finished"
    <3>1. a = [h EXCEPT !.committed = loop.stop]
      BY <1>2, <2>5 DEF AccountAt
    <3> QED BY <2>1, <3>1 DEF IsAccount
  <2> QED BY <2>2, <2>3, <2>4, <2>5 DEF ServedAts, Ats
<1> QED BY <1>1, <1>2

LEMMA SaysAtIs ==
  ASSUME WorkerTyped, NEW r \in Requests, NEW at \in Appending
  PROVE  /\ SaysAt(r, at) \in Says
         /\ at \in {"started", "response", "failure"} => SaysAt(r, at) = ledger[r]
         /\ at = "begin" => SaysAt(r, at) = "running"
         /\ at = "prepared" => SaysAt(r, at) = "prepared"
         /\ at = "completed" => SaysAt(r, at) = "running"
         /\ at = "finished" => SaysAt(r, at) = Verdict(loop.stop)
         /\ SaysAt(r, at) = "none" => ledger[r] = "none"
<1>1. Verdict(loop.stop) \in {"completed", "doubt", "ended"}
  BY DEF Verdict
<1> HIDE DEF Verdict
<1> QED BY <1>1 DEF SaysAt, Says, WorkerTyped, Appending

LEMMA ServedIs ==
  ASSUME WorkerTyped, NEW r \in Requests, NEW at \in ServedAts, Served(r, at)
  PROVE  /\ WorkerTyped'
         /\ port.stage = "open" /\ loop.at = at /\ UNCHANGED <<effects, loop, delta, late>>
         /\ port'.stage \in {"replied", "lost"} /\ port'.value \in {"ok", "error"}
         /\ \A q \in Requests : q # r => ledger'[q] = ledger[q]
         /\ ledger'[r] = ledger[r] \/ (at \in Appending /\ ledger'[r] = SaysAt(r, at))
         /\ port'.value = "ok" /\ at \in Appending => ledger'[r] = SaysAt(r, at)
         /\ \E a : /\ a = AccountAt(at) \/ ErrorAt(at, a)
                   /\ port'.value = "ok" => a = AccountAt(at) /\ (at = "approval" => ~late)
                   /\ port'.value = "error" => ErrorAt(at, a)
                   /\ port'.stage = "replied" => ~a.exited /\ a.failure = "none" /\ a.settled = "no"
                   /\ port'.stage = "lost" => a.exited \/ a.failure # "none" \/ a.settled # "no"
                   /\ h' = Checked(a, Idle, delta)
<1> USE DEF WorkerTyped
<1>0. PICK v \in {"ok", "error"} : \E c :
        /\ v = "ok" => c = AccountAt(at) /\ (at = "approval" => ~late)
        /\ v = "error" => ErrorAt(at, c)
        /\ Answer(c, v)
  <2>1. CASE Answer(AccountAt(at), "ok") /\ (at = "approval" => ~late)
    BY <2>1
  <2>2. CASE \E c : ErrorAt(at, c) /\ Answer(c, "error")
    BY <2>2
  <2> HIDE DEF Answer, AccountAt, ErrorAt
  <2> QED BY <2>1, <2>2 DEF Served
<1>1. PICK a :
        /\ v = "ok" => a = AccountAt(at) /\ (at = "approval" => ~late)
        /\ v = "error" => ErrorAt(at, a)
        /\ Answer(a, v)
  BY <1>0
<1>2. port' = [stage |-> IF a.exited \/ a.failure # "none" \/ a.settled # "no" THEN "lost" ELSE "replied", value |-> v]
      /\ h' = Checked(a, Idle, delta)
  BY <1>1 DEF Answer
<1>3. IsAccount(a) /\ IsAccount(h')
  BY <1>1, <1>2, AccountAtIs, CheckedIs
<1>4. IsPort(port') /\ port'.value = v /\ port'.stage = IF a.exited \/ a.failure # "none" \/ a.settled # "no" THEN "lost" ELSE "replied"
  BY <1>2 DEF IsPort
<1>5. Serving(at) /\ UNCHANGED <<effects, loop, delta, late>> /\ poisoned' \in BOOLEAN
  BY DEF Served
<1>6. ledger' = ledger \/ (at \in Appending /\ ledger' = [ledger EXCEPT ![r] = SaysAt(r, at)])
  <2> HIDE DEF Answer, SaysAt, Appending
  <2> QED BY DEF Served
<1>7. port'.value = "ok" /\ at \in Appending => ledger' = [ledger EXCEPT ![r] = SaysAt(r, at)]
  <2>1. CASE v = "ok"
    <3>1. ~ \E c : ErrorAt(at, c) /\ Answer(c, "error")
      BY <1>4, <2>1 DEF Answer
    <3> HIDE DEF Answer, SaysAt, Appending
    <3> QED BY <3>1 DEF Served
  <2>2. CASE v # "ok"
    BY <1>4, <2>2
  <2> QED BY <2>1, <2>2
<1>8. at \in Appending => SaysAt(r, at) \in Says
  BY SaysAtIs
<1>9. WorkerTyped'
  <2> HIDE DEF SaysAt
  <2> QED BY <1>3, <1>4, <1>5, <1>6, <1>8 DEF Serving
<1>10. /\ \A q \in Requests : q # r => ledger'[q] = ledger[q]
       /\ ledger'[r] = ledger[r] \/ (at \in Appending /\ ledger'[r] = SaysAt(r, at))
       /\ port'.value = "ok" /\ at \in Appending => ledger'[r] = SaysAt(r, at)
  <2> HIDE DEF SaysAt
  <2> QED BY <1>6, <1>7
<1> HIDE DEF AccountAt, ErrorAt, SaysAt, WorkerTyped
<1> QED BY <1>1, <1>2, <1>4, <1>5, <1>9, <1>10 DEF Serving

-----------------------------------------------------------------------------
(* The loop.                                                               *)

LEMMA EndingIs ==
  ASSUME NEW s \in Stops, IsLoop(loop)
  PROVE  /\ IsLoop(Ending(s)) /\ Ending(s).process = loop.process /\ Ending(s).round = loop.round
         /\ Ending(s).call = loop.call /\ Ending(s).cancelled = loop.cancelled /\ Ending(s).stop = s
         /\ Ending(s).at = IF loop.call /\ s # "recovery_required" THEN "completed" ELSE "finished"
BY DEF Ending, IsLoop, Ats

\* where the answer to a request takes the loop
ReplyIs(l) ==
  LET ok == port.value = "ok"
      Goes(at) == l.at = at /\ l.call = loop.call /\ l.stop = loop.stop
      Loses == l.at = "done" /\ l.call = loop.call /\ l.stop = "lost"
      Finishes(s) == /\ l.stop = s /\ l.call = loop.call
                  /\ l.at = IF loop.call /\ s # "recovery_required" THEN "completed" ELSE "finished"
      Refused == IF loop.cancelled THEN Finishes("cancelled") ELSE Goes("completed")
  IN  /\ IsLoop(l) /\ l.round = loop.round /\ l.cancelled = loop.cancelled
      /\ l.process = IF loop.at = "begin" /\ ~ok THEN "dead" ELSE loop.process
      /\ loop.at = "begin" => Goes(IF ok THEN "started" ELSE "begin")
      /\ loop.at = "started" => IF ok THEN Goes("generate") ELSE Loses
      /\ loop.at = "response" =>
           IF ~ok THEN Loses ELSE IF loop.cancelled THEN Finishes("cancelled")
           ELSE IF loop.call THEN Goes("prepare") ELSE Finishes("completed")
      /\ loop.at = "failure" =>
           IF ~ok THEN Loses ELSE IF loop.cancelled THEN Finishes("cancelled") ELSE Finishes("failed")
      /\ loop.at = "prepare" => IF ok THEN Goes("approval") ELSE Refused
      /\ loop.at = "approval" => IF ok THEN Goes("validate") ELSE Refused
      /\ loop.at = "validate" => IF ok THEN Goes("prepared") ELSE Refused
      /\ loop.at = "prepared" => IF ok THEN Goes("execute") ELSE Loses
      /\ loop.at = "execute" => IF ok THEN Goes("completed") ELSE Finishes("recovery_required")
      /\ loop.at = "completed" =>
           IF ~ok THEN Loses
           ELSE l.call = FALSE /\ l.stop = loop.stop
                /\ l.at = IF loop.stop = "none" THEN "started" ELSE "finished"
      /\ loop.at = "finished" => IF ok THEN Goes("done") ELSE Loses

LEMMA ReplyArrivesIs ==
  ASSUME WorkerTyped, ReplyArrives
  PROVE  /\ Alive /\ port.stage = "replied" /\ loop.at \in ServedAts /\ ReplyIs(loop')
         /\ port' = Idle /\ UNCHANGED <<ledger, poisoned, effects, delta, late, h>>
<1>1. Alive /\ port.stage = "replied" /\ loop.at \in ServedAts /\ port' = Idle /\ IsLoop(loop)
      /\ UNCHANGED <<ledger, poisoned, effects, delta, late, h>>
  BY DEF ReplyArrives, WorkerTyped
<1>2. loop' = IF loop.cancelled /\ loop.at \in {"prepare", "approval", "validate"} /\ port.value # "ok"
              THEN Ending("cancelled") ELSE AfterReply
  BY DEF ReplyArrives
<1>3. \A at \in Ats : LET l == Go(at) IN /\ IsLoop(l) /\ l.at = at /\ l.process = loop.process
        /\ l.round = loop.round /\ l.call = loop.call /\ l.cancelled = loop.cancelled /\ l.stop = loop.stop
  BY <1>1 DEF Go, IsLoop
<1>4. LET l == Lost IN /\ IsLoop(l) /\ l.at = "done" /\ l.process = loop.process
        /\ l.round = loop.round /\ l.call = loop.call /\ l.cancelled = loop.cancelled /\ l.stop = "lost"
  BY <1>1 DEF Lost, IsLoop, Ats, Stops
<1>5. /\ {"cancelled", "completed", "failed", "recovery_required"} \subseteq Stops
      /\ {"started", "generate", "prepare", "approval", "validate", "prepared", "execute", "completed", "done"} \subseteq Ats
  BY DEF Stops, Ats
<1>6. \A s \in {"cancelled", "completed", "failed", "recovery_required"} :
        /\ IsLoop(Ending(s)) /\ Ending(s).process = loop.process /\ Ending(s).round = loop.round
        /\ Ending(s).call = loop.call /\ Ending(s).cancelled = loop.cancelled /\ Ending(s).stop = s
        /\ Ending(s).at = IF loop.call /\ s # "recovery_required" THEN "completed" ELSE "finished"
  BY <1>1, <1>5, EndingIs
<1> HIDE DEF Go, Lost, Ending, IsLoop
<1>7. CASE loop.at = "begin"
  <2>1. CASE port.value = "ok"
    BY <1>1, <1>2, <1>3, <1>5, <1>7, <2>1 DEF AfterReply, ReplyIs
  <2>2. CASE port.value # "ok"
    <3>1. loop' = [loop EXCEPT !.process = "dead"]
      BY <1>2, <1>7, <2>2 DEF AfterReply
    <3> QED BY <1>1, <1>7, <2>2, <3>1 DEF ReplyIs, IsLoop
  <2> QED BY <1>1, <2>1, <2>2
<1>8. CASE loop.at = "started"
  BY <1>1, <1>2, <1>3, <1>4, <1>5, <1>8 DEF AfterReply, ReplyIs
<1>9. CASE loop.at \in {"response", "failure"}
  BY <1>1, <1>2, <1>3, <1>4, <1>5, <1>6, <1>9 DEF AfterReply, ReplyIs
<1>10. CASE loop.at \in {"prepare", "approval", "validate"}
  BY <1>1, <1>2, <1>3, <1>4, <1>5, <1>6, <1>10 DEF AfterReply, ReplyIs
<1>11. CASE loop.at \in {"prepared", "execute"}
  BY <1>1, <1>2, <1>3, <1>4, <1>5, <1>6, <1>11 DEF AfterReply, ReplyIs
<1>12. CASE loop.at = "completed"
  <2>1. CASE port.value = "ok"
    <3>1. loop' = [loop EXCEPT !.call = FALSE, !.at = IF loop.stop = "none" THEN "started" ELSE "finished"]
      BY <1>2, <1>12, <2>1 DEF AfterReply
    <3> QED BY <1>1, <1>12, <2>1, <3>1 DEF ReplyIs, IsLoop, Ats
  <2>2. CASE port.value # "ok"
    BY <1>1, <1>2, <1>3, <1>4, <1>5, <1>12, <2>2 DEF AfterReply, ReplyIs
  <2> QED BY <1>1, <2>1, <2>2
<1>13. CASE loop.at = "finished"
  BY <1>1, <1>2, <1>3, <1>4, <1>5, <1>13 DEF AfterReply, ReplyIs
<1> QED BY <1>1, <1>7, <1>8, <1>9, <1>10, <1>11, <1>12, <1>13 DEF ServedAts, Ats

-----------------------------------------------------------------------------
(* What the host takes from the worker, and the end of its process.        *)

\* the account of the protocol is the same
Same(a, b) == /\ b.begun = a.begun /\ b.attempt = a.attempt /\ b.pending = a.pending
              /\ b.tool = a.tool /\ b.approval = a.approval /\ b.committed = a.committed
Breaks(a, b) == Same(a, b) /\ b.done = a.done /\ b.exited = a.exited /\ b.settled = a.settled
                /\ b.failure = IF a.failure = "none" THEN "breach" ELSE a.failure

LEMMA CarriedOut ==
  ASSUME NEW e \in [Requests -> [1 .. MaxRounds -> Nat]], NEW r \in Requests, NEW k
  PROVE  LET f == [e EXCEPT ![r][k] = @ + 1]
         IN  /\ f \in [Requests -> [1 .. MaxRounds -> Nat]]
             /\ \A q \in Requests : \A n \in 1 .. MaxRounds :
                  f[q][n] = IF q = r /\ n = k THEN e[q][n] + 1 ELSE e[q][n]
<1> DEFINE row == [e[r] EXCEPT ![k] = @ + 1]
<1>1. e[r] \in [1 .. MaxRounds -> Nat]
  OBVIOUS
<1>2. row \in [1 .. MaxRounds -> Nat]
      /\ \A n \in 1 .. MaxRounds : row[n] = IF n = k THEN e[r][n] + 1 ELSE e[r][n]
  <2> HIDE DEF WorkerConstants
  <2>1. CASE k \in 1 .. MaxRounds BY <1>1, <2>1
  <2>2. CASE k \notin 1 .. MaxRounds BY <1>1, <2>2
  <2> QED BY <2>1, <2>2
<1>3. [e EXCEPT ![r][k] = @ + 1] = [e EXCEPT ![r] = row]
  OBVIOUS
<1> HIDE DEF row
<1> QED BY <1>2, <1>3

LEMMA TakeRequestIs ==
  ASSUME WorkerTyped, NEW r \in Requests, TakeRequest(r)
  PROVE  /\ WorkerTyped' /\ port.stage = "sent" /\ h.settled = "no" /\ ~h.exited
         /\ UNCHANGED <<ledger, poisoned, loop, delta, late>>
         /\ \/ /\ ~Fits \/ (h.failure # "none" /\ loop.at # "done")
               /\ port'.stage = "lost" /\ Breaks(h, h') /\ UNCHANGED effects
            \/ /\ Fits /\ loop.at = "done" /\ port'.stage = "lost" /\ UNCHANGED effects
               /\ Same(h, h') /\ h'.done = loop.stop /\ h'.failure = h.failure
               /\ h'.exited = h.exited /\ h'.settled = h.settled
            \/ /\ Fits /\ h.failure = "none" /\ h.aborted /\ loop.at \in Refusable
               /\ port'.stage = "replied" /\ port'.value = "error" /\ UNCHANGED <<effects, h>>
            \/ /\ Fits /\ h.failure = "none" /\ loop.at # "done" /\ port'.stage = "open"
               /\ h' = IF loop.at = "execute" THEN [h EXCEPT !.tool = "executing"] ELSE h
               /\ effects' = IF loop.at = "execute" THEN [effects EXCEPT ![r][loop.round] = @ + 1] ELSE effects
<1> USE DEF WorkerTyped
<1>1. /\ port.stage = "sent" /\ h.settled = "no" /\ ~h.exited
      /\ UNCHANGED <<ledger, poisoned, loop, delta, late>>
  BY DEF TakeRequest
<1>2. CASE ~Fits \/ (h.failure # "none" /\ loop.at # "done")
  <2>1. port' = [port EXCEPT !.stage = "lost"] /\ h' = Checked(Stop(h, "breach"), Idle, delta) /\ UNCHANGED effects
    BY <1>2 DEF TakeRequest, Breach
  <2>2. IsAccount(h') /\ Breaks(h, h')
    BY <1>1, <2>1, StopIs, CheckedIs DEF Breaks, Same
  <2>3. IsPort(port') /\ port'.stage = "lost"
    BY <2>1 DEF IsPort
  <2> QED BY <1>1, <1>2, <2>1, <2>2, <2>3
<1>3. CASE Fits /\ loop.at = "done"
  <2>1. port' = [port EXCEPT !.stage = "lost"] /\ h' = Armed([h EXCEPT !.done = loop.stop]) /\ UNCHANGED effects
    BY <1>3 DEF TakeRequest
  <2> DEFINE a == [h EXCEPT !.done = loop.stop]
  <2>2. IsAccount(a) /\ Same(h, a) /\ a.done = loop.stop /\ a.failure = h.failure /\ a.exited = h.exited /\ a.settled = h.settled
    BY DEF IsAccount, IsLoop, Same
  <2> HIDE DEF a
  <2>3. h' = Armed(a)
    BY <2>1 DEF a
  <2>4. IsAccount(h') /\ Same(h, h') /\ h'.done = loop.stop /\ h'.failure = h.failure
        /\ h'.exited = h.exited /\ h'.settled = h.settled
    BY <2>2, <2>3, ArmedIs DEF Same
  <2>5. IsPort(port') /\ port'.stage = "lost"
    BY <2>1 DEF IsPort
  <2> QED BY <1>1, <1>3, <2>1, <2>4, <2>5
<1>4. CASE Fits /\ loop.at # "done" /\ h.failure = "none" /\ h.aborted /\ loop.at \in Refusable
  <2>1. port' = [stage |-> "replied", value |-> "error"] /\ UNCHANGED <<effects, h>>
    BY <1>4 DEF TakeRequest
  <2>2. IsPort(port') /\ port'.stage = "replied" /\ port'.value = "error"
    BY <2>1 DEF IsPort
  <2>3. loop.at \in ServedAts
    BY <1>4 DEF Refusable, ServedAts, Ats
  <2> QED BY <1>1, <1>4, <2>1, <2>2, <2>3
<1>5. CASE Fits /\ loop.at # "done" /\ h.failure = "none" /\ ~(h.aborted /\ loop.at \in Refusable)
  <2>1. /\ port' = [port EXCEPT !.stage = "open"]
        /\ h' = IF loop.at = "execute" THEN [h EXCEPT !.tool = "executing"] ELSE h
        /\ effects' = IF loop.at = "execute" THEN [effects EXCEPT ![r][loop.round] = @ + 1] ELSE effects
    BY <1>5 DEF TakeRequest
  <2>2. IsPort(port') /\ port'.stage = "open"
    BY <2>1 DEF IsPort
  <2>3. IsAccount(h')
    BY <2>1 DEF IsAccount
  <2>4. effects' \in [Requests -> [1 .. MaxRounds -> Nat]]
    BY <2>1, CarriedOut
  <2> QED BY <1>1, <1>5, <2>1, <2>2, <2>3, <2>4
<1> QED BY <1>2, <1>3, <1>4, <1>5

LEMMA TakeDeltaIs ==
  ASSUME WorkerTyped, TakeDelta
  PROVE  /\ WorkerTyped' /\ delta = "sent" /\ h.settled = "no" /\ ~h.exited
         /\ UNCHANGED <<ledger, poisoned, effects, loop, port, late>>
         /\ \/ /\ h.failure = "none" /\ h.begun /\ h.attempt /\ h.committed = "none" /\ ~JournalBusy
               /\ delta' = "open" /\ UNCHANGED h
            \/ /\ ~(h.failure = "none" /\ h.begun /\ h.attempt /\ h.committed = "none" /\ ~JournalBusy)
               /\ delta' = "none" /\ Breaks(h, h')
<1> USE DEF WorkerTyped
<1>1. /\ delta = "sent" /\ h.settled = "no" /\ ~h.exited
      /\ UNCHANGED <<ledger, poisoned, effects, loop, port, late>>
  BY DEF TakeDelta
<1>2. CASE h.failure = "none" /\ h.begun /\ h.attempt /\ h.committed = "none" /\ ~JournalBusy
  BY <1>1, <1>2 DEF TakeDelta, Deltas
<1>3. CASE ~(h.failure = "none" /\ h.begun /\ h.attempt /\ h.committed = "none" /\ ~JournalBusy)
  <2>1. delta' = "none" /\ h' = Checked(Stop(h, "breach"), port, "none")
    BY <1>3 DEF TakeDelta
  <2>2. IsAccount(h') /\ Breaks(h, h')
    BY <1>1, <2>1, StopIs, CheckedIs DEF Breaks, Same
  <2> QED BY <1>1, <1>3, <2>1, <2>2 DEF Deltas
<1> QED BY <1>2, <1>3

LEMMA WorkerExitsIs ==
  ASSUME WorkerTyped, WorkerExits
  PROVE  /\ WorkerTyped' /\ loop.process \in {"over", "dead"} /\ ~h.exited /\ h.settled = "no"
         /\ UNCHANGED <<ledger, poisoned, effects, loop, late>>
         /\ port'.stage = (IF port.stage = "open" THEN "open" ELSE "idle")
         /\ delta' = (IF delta = "open" THEN "open" ELSE "none")
         /\ Same(h, h') /\ h'.exited /\ h'.done = h.done
         /\ h'.failure \in {h.failure, "crash"}
         /\ h'.settled # "no" => h'.settled \in {"resolved", "rejected"} /\ port'.stage # "open" /\ delta' # "open"
         /\ h'.settled = "resolved" => h.done # "none" /\ h.failure = "none"
<1> USE DEF WorkerTyped
<1> DEFINE prt == IF port.stage = "open" THEN port ELSE Idle
           d == IF delta = "open" THEN "open" ELSE "none"
           a == [h EXCEPT !.exited = TRUE]
           b == IF h.done = "none" \/ loop.process = "dead" THEN Stop(a, "crash") ELSE Cancelled(a)
<1>1. /\ loop.process \in {"over", "dead"} /\ ~h.exited /\ h.settled = "no"
      /\ UNCHANGED <<ledger, poisoned, effects, loop, late>>
      /\ port' = prt /\ delta' = d /\ h' = Checked(b, prt, d)
  BY DEF WorkerExits
<1>2. IsAccount(a) /\ Same(h, a) /\ a.exited /\ a.done = h.done /\ a.failure = h.failure /\ a.settled = h.settled
  BY DEF IsAccount, Same
<1> HIDE DEF a
<1>3. /\ IsAccount(b) /\ Same(h, b) /\ b.exited /\ b.done = h.done /\ b.settled = "no"
      /\ b.failure \in {h.failure, "crash"} /\ (h.failure # "none" => b.failure # "none")
  BY <1>1, <1>2, StopIs, CancelledIs DEF Same
<1>4. IsPort(prt) /\ prt.stage = (IF port.stage = "open" THEN "open" ELSE "idle")
  BY DEF IsPort, Idle
<1> HIDE DEF b, prt
<1>5. IsAccount(h') /\ Same(h, h') /\ h'.exited /\ h'.done = h.done /\ h'.failure = b.failure
      /\ (h'.settled # "no" => h'.settled \in {"resolved", "rejected"} /\ prt.stage # "open" /\ d # "open")
      /\ (h'.settled = "resolved" => h.done # "none" /\ h.failure = "none")
  BY <1>1, <1>3, CheckedIs DEF Same
<1> QED BY <1>1, <1>3, <1>4, <1>5 DEF Deltas

-----------------------------------------------------------------------------
(* The other steps of the worker.                                          *)

SameLoop(l, m) == m.at = l.at /\ m.round = l.round /\ m.call = l.call /\ m.stop = l.stop
Quiet == \/ CancelArrives \/ Finish \/ WorkerReady \/ ShutdownTimer \/ HardTimer \/ DeltaShown
         \/ SendDelta \/ ApprovalRunsOut \/ StartupTimeout \/ WorkerDies

\* they leave the journal, the request on its way and the place of the loop alone
LEMMA QuietIs ==
  ASSUME WorkerTyped, Quiet
  PROVE  /\ WorkerTyped' /\ UNCHANGED <<ledger, poisoned, effects, port>>
         /\ SameLoop(loop, loop') /\ Same(h, h') /\ h'.done = h.done /\ h'.exited = h.exited
         /\ loop'.process # loop.process =>
              \/ loop.process = "starting" /\ loop'.process = "alive" /\ h.settled = "no"
              \/ loop'.process \in {"over", "dead"}
         /\ h'.failure # h.failure => loop.process = "starting" /\ h.failure = "none" /\ h'.failure = "startup"
         /\ h'.settled # h.settled =>
              \/ h'.settled = "unconfirmed"
              \/ /\ h.settled = "no" /\ h.exited /\ h'.settled \in {"resolved", "rejected"}
                 /\ port.stage # "open" /\ delta' # "open" /\ (h'.settled = "resolved" => h.done # "none")
         /\ delta' = delta \/ (delta = "open" /\ delta' = "none")
              \/ (delta = "none" /\ delta' = "sent" /\ Alive /\ loop.at = "generate")
         /\ late' = late \/ (/\ late' /\ loop.at \in {"approval", "validate", "prepared", "execute"}
                             /\ loop.at = "approval" => port.stage \in {"open", "replied"})
         /\ loop'.cancelled = loop.cancelled \/ h.aborted
<1> USE DEF WorkerTyped, Alive
<1>1. CASE CancelArrives BY <1>1 DEF CancelArrives, SameLoop, Same, IsLoop
<1>2. CASE Finish BY <1>2 DEF Finish, SameLoop, Same, IsLoop
<1>3. CASE WorkerReady BY <1>3 DEF WorkerReady, SameLoop, Same, IsLoop, IsAccount
<1>4. CASE ShutdownTimer BY <1>4 DEF ShutdownTimer, SameLoop, Same, IsLoop, IsAccount
<1>5. CASE HardTimer BY <1>5 DEF HardTimer, SameLoop, Same, IsAccount
<1>6. CASE DeltaShown
  <2>1. delta = "open" /\ delta' = "none" /\ h' = Checked(h, port, "none") /\ UNCHANGED <<ledger, poisoned, effects, loop, port, late>>
    BY <1>6 DEF DeltaShown
  <2> QED BY <2>1, CheckedIs DEF SameLoop, Same, Deltas
<1>7. CASE SendDelta BY <1>7 DEF SendDelta, SameLoop, Same, Deltas
<1>8. CASE ApprovalRunsOut BY <1>8 DEF ApprovalRunsOut, SameLoop, Same
<1>9. CASE StartupTimeout
  <2>1. /\ loop.process = "starting" /\ h.failure = "none" /\ h' = Stop(h, "startup")
        /\ UNCHANGED <<ledger, poisoned, effects, loop, port, delta, late>>
    BY <1>9 DEF StartupTimeout
  <2> QED BY <2>1, StopIs DEF SameLoop, Same
<1>10. CASE WorkerDies BY <1>10 DEF WorkerDies, SameLoop, Same, IsLoop
<1> QED BY <1>1, <1>2, <1>3, <1>4, <1>5, <1>6, <1>7, <1>8, <1>9, <1>10 DEF Quiet

LEMMA LoopTurnsIs ==
  ASSUME WorkerTyped, LoopTurns
  PROVE  /\ WorkerTyped' /\ Alive /\ port.stage = "idle" /\ UNCHANGED <<ledger, poisoned, effects, port, delta, late, h>>
         /\ loop'.process = loop.process /\ loop'.round = loop.round /\ loop'.call = loop.call
         /\ \/ /\ loop.cancelled /\ loop.at \in Interruptible /\ loop'.stop = "cancelled"
               /\ loop'.at = IF loop.call THEN "completed" ELSE "finished"
            \/ loop.at = "prepared" /\ late /\ loop'.at = "completed" /\ loop'.stop = loop.stop
<1> USE DEF WorkerTyped
<1>1. Alive /\ port.stage = "idle" /\ UNCHANGED <<ledger, poisoned, effects, port, delta, late, h>>
  BY DEF LoopTurns
<1>2. CASE loop.cancelled /\ loop.at \in Interruptible /\ loop' = Ending("cancelled")
  <2>1. "cancelled" \in Stops
    BY DEF Stops
  <2> QED BY <1>1, <1>2, <2>1, EndingIs
<1>3. CASE loop.at = "prepared" /\ late /\ loop' = Go("completed")
  BY <1>1, <1>3 DEF Go, IsLoop, Ats
<1> QED BY <1>2, <1>3 DEF LoopTurns

LEMMA LoopSendsIs ==
  ASSUME WorkerTyped, LoopSends
  PROVE  /\ WorkerTyped' /\ Alive /\ port.stage = "idle" /\ UNCHANGED <<ledger, poisoned, effects, delta, h>>
         /\ loop.at # "generate" /\ (loop.at \in Interruptible => ~loop.cancelled) /\ (loop.at = "prepared" => ~late)
         /\ loop.at \in {"response", "failure", "done"} => delta = "none"
         /\ port'.stage = "sent" /\ late' = (late /\ loop.at # "approval")
         /\ loop'.process = loop.process /\ loop'.at = loop.at /\ loop'.call = loop.call /\ loop'.stop = loop.stop
         /\ loop'.round = IF loop.at = "started" THEN loop.round + 1 ELSE loop.round
<1> USE DEF WorkerTyped
<1>1. IsPort(port') /\ port'.stage = "sent"
  BY DEF LoopSends, IsPort, Idle
<1>2. /\ IsLoop(loop') /\ loop'.process = loop.process /\ loop'.at = loop.at /\ loop'.call = loop.call
      /\ loop'.stop = loop.stop /\ loop'.round = IF loop.at = "started" THEN loop.round + 1 ELSE loop.round
  <2>1. loop' = IF loop.at = "started" THEN [loop EXCEPT !.round = @ + 1] ELSE loop
    BY DEF LoopSends
  <2> QED BY <2>1 DEF IsLoop
<1> QED BY <1>1, <1>2 DEF LoopSends

LEMMA ModelAnswersIs ==
  ASSUME WorkerTyped, ModelAnswers
  PROVE  /\ WorkerTyped' /\ Alive /\ loop.at = "generate" /\ UNCHANGED <<ledger, poisoned, effects, port, delta, late, h>>
         /\ loop'.process = loop.process /\ loop'.round = loop.round /\ loop'.stop = loop.stop
         /\ \/ loop'.at = "failure" /\ loop'.call = loop.call
            \/ loop'.at = "response" /\ (loop'.call => loop.round < MaxRounds)
<1> USE DEF WorkerTyped
<1>1. CASE loop' = Go("failure")
  BY <1>1 DEF ModelAnswers, Go, IsLoop, Ats, ServedAts
<1>2. CASE \E call \in BOOLEAN : (call => loop.round < MaxRounds) /\ loop' = [loop EXCEPT !.at = "response", !.call = call]
  BY <1>2 DEF ModelAnswers, IsLoop, Ats, ServedAts
<1> QED BY <1>1, <1>2 DEF ModelAnswers

LEMMA WorkerSteps ==
  ASSUME NEW r, WorkerStep(r)
  PROVE  \/ LoopTurns \/ LoopSends \/ ModelAnswers \/ ReplyArrives \/ Quiet \/ WorkerExits
         \/ TakeRequest(r) \/ TakeDelta \/ PortStep(r)
BY DEF WorkerStep, LoopStep, HostStep, Quiet

LEMMA WorkerTypes ==
  ASSUME Typed, NEW r \in Requests, WorkerStep(r)
  PROVE  WorkerTyped'
<1>1. WorkerTyped
  BY DEF Typed
<1>2. CASE ReplyArrives
  <2> HIDE DEF ReplyArrives
  <2>1. IsLoop(loop') /\ port' = Idle /\ UNCHANGED <<ledger, poisoned, effects, delta, late, h>>
    BY <1>1, <1>2, ReplyArrivesIs DEF ReplyIs
  <2> QED BY <1>1, <2>1 DEF WorkerTyped, Idle, IsPort
<1>3. CASE PortStep(r)
  BY <1>1, <1>3, PortStepIs, ServedIs
<1> QED BY <1>1, <1>2, <1>3, WorkerSteps, LoopTurnsIs, LoopSendsIs, ModelAnswersIs, QuietIs,
           WorkerExitsIs, TakeRequestIs, TakeDeltaIs

LEMMA WorkerEnds ==
  ASSUME Typed, EndIsConfirmed, NEW r \in Requests, WorkerStep(r)
  PROVE  EndIsConfirmed'
<1>1. WorkerTyped
  BY DEF Typed
<1>2. CASE ReplyArrives
  <2>1. /\ Alive /\ loop'.process \in {"alive", "dead"} /\ port' = Idle /\ UNCHANGED <<delta, h>>
        /\ IsLoop(loop')
    BY <1>1, <1>2, ReplyArrivesIs DEF ReplyIs, Alive
  <2> QED BY <2>1 DEF EndIsConfirmed, Idle, Alive
<1>3. CASE PortStep(r)
  <2>1. PICK at \in ServedAts : Served(r, at)
    BY <1>3, PortStepIs
  <2>2. PICK a : (a = AccountAt(at) \/ ErrorAt(at, a)) /\ h' = Checked(a, Idle, delta)
    BY <1>1, <2>1, ServedIs
  <2>3. /\ port.stage = "open" /\ port'.stage \in {"replied", "lost"} /\ UNCHANGED <<loop, delta>>
    BY <1>1, <2>1, ServedIs
  <2>4. IsAccount(a) /\ a.done = h.done /\ a.exited = h.exited /\ a.settled = h.settled
    BY <1>1, <2>2, AccountAtIs
  <2>5. /\ h'.done = h.done /\ h'.exited = h.exited
        /\ h'.settled # h.settled => /\ h.settled = "no" /\ h.exited /\ delta # "open"
                                     /\ h'.settled = "resolved" => h.done # "none"
    BY <2>2, <2>4, CheckedIs
  <2> QED BY <2>3, <2>5 DEF EndIsConfirmed
<1>4. CASE LoopTurns
  BY <1>1, <1>4, LoopTurnsIs DEF EndIsConfirmed, Alive
<1>5. CASE LoopSends
  BY <1>1, <1>5, LoopSendsIs DEF EndIsConfirmed, Alive
<1>6. CASE ModelAnswers
  BY <1>1, <1>6, ModelAnswersIs DEF EndIsConfirmed, Alive
<1>7. CASE Quiet
  BY <1>1, <1>7, QuietIs DEF EndIsConfirmed, Alive, SameLoop
<1>8. CASE WorkerExits
  BY <1>1, <1>8, WorkerExitsIs DEF EndIsConfirmed
<1>9. CASE TakeRequest(r)
  <2>1. /\ h.settled = "no" /\ h'.settled = "no" /\ h'.exited = h.exited /\ UNCHANGED loop
    BY <1>1, <1>9, TakeRequestIs DEF Breaks, WorkerTyped, IsAccount
  <2> QED BY <2>1 DEF EndIsConfirmed
<1>10. CASE TakeDelta
  <2>1. /\ h.settled = "no" /\ h'.settled = "no" /\ h'.exited = h.exited /\ UNCHANGED loop
    BY <1>1, <1>10, TakeDeltaIs DEF Breaks
  <2> QED BY <2>1 DEF EndIsConfirmed
<1> QED BY <1>2, <1>3, <1>4, <1>5, <1>6, <1>7, <1>8, <1>9, <1>10, WorkerSteps

-----------------------------------------------------------------------------
(* The start and the end of a worker, and the types of the host.           *)

LEMMA AtRestIs ==
  ASSUME AtRest
  PROVE  /\ IsLoop(loop) /\ IsPort(port) /\ IsAccount(h)
         /\ loop.process = "none" /\ loop.at = "begin" /\ loop.round = 0 /\ loop.stop = "none"
         /\ ~loop.call /\ ~loop.cancelled /\ port.stage = "idle" /\ port.value = "none"
         /\ h.done = "none" /\ h.failure = "none" /\ h.settled = "no" /\ ~h.exited /\ ~h.begun
         /\ ~h.attempt /\ ~h.pending /\ h.tool = "none" /\ h.approval = "none"
         /\ h.committed = "none" /\ ~h.aborted /\ ~h.unclosed
BY DEF AtRest, NoLoop, Idle, Account, IsLoop, IsPort, IsAccount, Ats, Stops

LEMMA ForkIs ==
  ASSUME WorkerTyped, Fork
  PROVE  /\ WorkerTyped' /\ loop.process = "none" /\ h.settled = "no" /\ SameLoop(loop, loop')
         /\ loop'.process \in {"none", "starting"} /\ loop'.cancelled = loop.cancelled
         /\ Same(h, h') /\ h'.done = h.done /\ h'.failure = h.failure /\ h'.exited = h.exited
         /\ h'.settled \in {"no", "rejected"} /\ (h'.settled = "rejected" => loop'.process = "none")
         /\ UNCHANGED <<ledger, poisoned, effects, port, delta, late>>
<1>1. CASE loop' = [loop EXCEPT !.process = "starting"] /\ h' = h
  BY <1>1 DEF Fork, WorkerTyped, SameLoop, Same, IsLoop
<1>2. CASE loop' = loop /\ h' = [h EXCEPT !.settled = "rejected"]
  BY <1>2 DEF Fork, WorkerTyped, SameLoop, Same, IsAccount
<1> QED BY <1>1, <1>2 DEF Fork

LEMMA CancelRunIs ==
  ASSUME IsAccount(h), CancelRun
  PROVE  /\ IsAccount(h') /\ Same(h, h') /\ h'.done = h.done /\ h'.failure = h.failure
         /\ h'.exited = h.exited /\ h'.settled = h.settled /\ (h.aborted => h'.aborted)
BY CancelledIs DEF CancelRun, Same

LEMMA SettleIs ==
  ASSUME WorkerTyped, Settle
  PROVE  /\ IsLoop(loop') /\ IsPort(port') /\ delta' \in Deltas /\ late' \in BOOLEAN /\ IsAccount(h')
         /\ port'.stage # "replied" /\ h'.settled = (IF h.settled = "unconfirmed" THEN "unconfirmed" ELSE "no")
         /\ ~h'.exited /\ (loop'.process = "starting" => loop'.at = "begin" \/ UNCHANGED loop)
         /\ /\ h.settled # "unconfirmed" /\ port.stage # "open" /\ delta # "open"
            /\ loop.process \notin {"starting", "alive"}
            => AtRest'
<1> USE DEF WorkerTyped
<1>1. IsAccount(h') /\ ~h'.exited /\ h'.settled = (IF h.settled = "unconfirmed" THEN "unconfirmed" ELSE "no")
      /\ (h.settled # "unconfirmed" => h' = Account)
  BY DEF Settle, IsAccount, Account, Stops
<1>2. IsPort(port') /\ port'.stage # "replied" /\ (port.stage # "open" => port' = Idle)
  BY DEF Settle, IsPort, Idle
<1>3. CASE port.stage = "open"
  BY <1>1, <1>2, <1>3 DEF Settle, Deltas
<1>4. CASE port.stage # "open"
  <2> DEFINE process == IF loop.process \in {"over", "dead"} THEN "none" ELSE loop.process
  <2>1. loop' = [NoLoop EXCEPT !.process = process]
    BY <1>4 DEF Settle
  <2>2. process \in {"none", "starting", "alive", "over", "dead"}
    BY DEF IsLoop
  <2>3. loop.process \notin {"starting", "alive"} => process = "none"
    BY DEF IsLoop
  <2> HIDE DEF process
  <2>4. IsLoop(loop') /\ loop'.at = "begin"
    BY <2>1, <2>2 DEF IsLoop, NoLoop, Ats, Stops
  <2>5. loop.process \notin {"starting", "alive"} => loop' = NoLoop
    BY <2>1, <2>3 DEF NoLoop
  <2>6. delta' \in Deltas /\ late' = FALSE /\ (delta # "open" => delta' = "none")
    BY DEF Settle, Deltas
  <2> QED BY <1>1, <1>2, <1>4, <2>4, <2>5, <2>6 DEF AtRest
<1> QED BY <1>3, <1>4

LEMMA OpensJournalIs ==
  ASSUME WorkerTyped, OpensJournal, marked \in BOOLEAN
  PROVE  /\ ledger' \in [Requests -> Says] /\ poisoned' = FALSE /\ marked' \in BOOLEAN
         /\ \A r \in Requests : ledger'[r] = IF ledger[r] = "running" THEN "safe"
                                             ELSE IF ledger[r] = "prepared" THEN "doubt" ELSE ledger[r]
<1>1. ledger' = Reopened /\ poisoned' = FALSE /\ marked' = (marked /\ Reopened = ledger)
  BY DEF OpensJournal
<1>2. marked' \in BOOLEAN
  <2> HIDE DEF Reopened
  <2> QED BY <1>1
<1>3. \A r \in Requests : Reopened[r] = IF ledger[r] = "running" THEN "safe"
                                        ELSE IF ledger[r] = "prepared" THEN "doubt" ELSE ledger[r]
  BY DEF Reopened
<1>4. Reopened = [r \in Requests |-> Reopened[r]]
  BY DEF Reopened
<1>5. \A r \in Requests : Reopened[r] \in Says
  BY <1>3 DEF WorkerTyped, Says
<1> HIDE DEF Reopened
<1> QED BY <1>1, <1>2, <1>3, <1>4, <1>5

LEMMA ReadsAgainIs ==
  ASSUME IsHydration(hydration), ReadsAgain
  PROVE  /\ IsHydration(hydration') /\ UNCHANGED collided
         /\ exiting => UNCHANGED hydration /\ writer' = "none"
         /\ ~exiting => /\ hydration'.strict
                        /\ hydration.pc # "none" => /\ hydration'.pc = hydration.pc /\ hydration'.of = hydration.of
                                                    /\ writer' = "none"
                        /\ hydration.pc = "none" => /\ hydration'.pc = "opening" /\ hydration'.of = "none"
                                                    /\ writer' = "hydration"
<1>1. CASE exiting
  BY <1>1 DEF ReadsAgain
<1>2. CASE ~exiting /\ hydration.pc # "none"
  <2>1. hydration' = [hydration EXCEPT !.strict = TRUE] /\ writer' = "none" /\ UNCHANGED collided
    BY <1>2 DEF ReadsAgain
  <2> QED BY <1>2, <2>1 DEF IsHydration
<1>3. CASE ~exiting /\ hydration.pc = "none"
  <2>1. hydration' = [pc |-> "opening", of |-> "none", strict |-> TRUE] /\ writer' = "hydration" /\ UNCHANGED collided
    BY <1>3 DEF ReadsAgain
  <2> QED BY <1>3, <2>1 DEF IsHydration
<1> QED BY <1>1, <1>2, <1>3

LEMMA ConstantsAreTyped ==
  /\ IsRun(NoRun) /\ IsOperation(NoOperation) /\ IsHydration(NoHydration)
  /\ IsLoop(NoLoop) /\ IsPort(Idle) /\ IsAccount(Account)
BY DEF IsRun, NoRun, Early, Ended, IsOperation, NoOperation, IsHydration, NoHydration,
       IsLoop, NoLoop, Ats, Stops, IsPort, Idle, IsAccount, Account

LEMMA ThrownIs ==
  ASSUME NEW a, IsRun(a), a.pc # "none"
  PROVE  LET b == Thrown(a)
         IN  /\ IsRun(b) /\ b.pc = "closing" /\ b.failed /\ b.result = "failed" /\ b.req = a.req
             /\ b.aborted = a.aborted /\ b.identity = a.identity /\ b.store = a.store
             /\ b.tasks = a.tasks /\ b.doubt = a.doubt /\ b.tasksOnly = a.tasksOnly
<1> DEFINE b == Thrown(a)
<1>1. b = [a EXCEPT !.failed = TRUE, !.result = "failed", !.pc = "closing"]
  BY DEF Thrown
<1> HIDE DEF b
<1>2. /\ DOMAIN b = DOMAIN a /\ b.pc = "closing" /\ b.failed /\ b.result = "failed" /\ b.req = a.req
      /\ b.aborted = a.aborted /\ b.identity = a.identity /\ b.store = a.store
      /\ b.tasks = a.tasks /\ b.doubt = a.doubt /\ b.tasksOnly = a.tasksOnly
  BY <1>1 DEF IsRun
<1>3. b.failed \in BOOLEAN
  BY <1>1 DEF IsRun
<1>4. IsRun(b)
  BY <1>2, <1>3 DEF IsRun, Ended
<1> QED BY <1>2, <1>4 DEF b

LEMMA EndsIs ==
  ASSUME NEW o, IsOperation(o)
  PROVE  LET b == Ends(o)
         IN  IsOperation(b) /\ b.pc = "closing" /\ b.kind = o.kind /\ b.store = o.store /\ b.doubt = o.doubt
BY DEF Ends, IsOperation

LEMMA JournalTyped ==
  ASSUME WorkerTyped, ledger' \in [Requests -> Says], poisoned' \in BOOLEAN,
         UNCHANGED <<effects, workerVars>>
  PROVE  WorkerTyped'
<1>1. UNCHANGED <<effects, loop, port, delta, late, h>>
  BY DEF workerVars
<1> QED BY <1>1 DEF WorkerTyped

LEMMA ReadTypes ==
  ASSUME Typed, Read \/ HydrationFails \/ HydrationOpens \/ HydrationDecides
  PROVE  Typed'
<1> USE DEF Typed, HostTyped
<1>1. CASE Read
  <2>1. IsHydration(hydration') /\ writer' \in {"none", "run", "operation", "hydration"} /\ collided' \in BOOLEAN
    BY <1>1 DEF Read, StartHydration, TakeWriter, Target, IsHydration
  <2> QED BY <1>1, <2>1 DEF Read, workerVars, WorkerTyped
<1>2. CASE HydrationFails
  <2>1. IsHydration(hydration') /\ recovery' \in BOOLEAN
    BY <1>2, ConstantsAreTyped DEF HydrationFails, IsHydration
  <2> QED BY <1>2, <2>1 DEF HydrationFails, workerVars, WorkerTyped
<1>3. CASE HydrationOpens
  <2>1. IsHydration(hydration')
    BY <1>3 DEF HydrationOpens, IsHydration
  <2>2. ledger' \in [Requests -> Says] /\ poisoned' \in BOOLEAN /\ marked' \in BOOLEAN
    BY <1>3, OpensJournalIs DEF HydrationOpens
  <2>3. WorkerTyped'
    BY <1>3, <2>2, JournalTyped DEF HydrationOpens
  <2> QED BY <1>3, <2>1, <2>2, <2>3 DEF HydrationOpens
<1>4. CASE HydrationDecides
  <2>1. IsHydration(hydration') /\ recovery' \in BOOLEAN /\ acknowledged' \in BOOLEAN /\ lifted' \in BOOLEAN
    <3>1. CASE Required
      BY <1>4, <3>1, ConstantsAreTyped DEF HydrationDecides
    <3>2. CASE ~Required /\ OwnerDoubt
      BY <1>4, <3>2, ConstantsAreTyped DEF HydrationDecides
    <3>3. CASE ~Required /\ ~OwnerDoubt
      <4>1. hydration' = NoHydration /\ recovery' = FALSE /\ acknowledged' = FALSE
            /\ lifted' = (lifted \/ (recovery /\ hydration.of = "run"))
        BY <1>4, <3>3 DEF HydrationDecides
      <4>2. lifted' \in BOOLEAN
        BY <4>1
      <4> QED BY <4>1, <4>2, ConstantsAreTyped
    <3> QED BY <3>1, <3>2, <3>3
  <2> QED BY <1>4, <2>1 DEF HydrationDecides, workerVars, WorkerTyped
<1> QED BY <1>1, <1>2, <1>3, <1>4

LEMMA StartTypes ==
  ASSUME Typed, StartRun \/ RunOpened \/ Receipts \/ Prepare \/ \E r \in Requests : Send(r)
  PROVE  Typed'
<1> USE DEF Typed, HostTyped
<1>1. CASE \E r \in Requests : Send(r)
  <2>1. PICK r \in Requests : Send(r)
    BY <1>1
  <2>2. active' = [NoRun EXCEPT !.req = r, !.pc = "waiting"] /\ told' = [req |-> NONE, result |-> "none"]
    BY <2>1 DEF Send
  <2>3. IsRun(active')
    BY <2>2 DEF IsRun, NoRun, Early
  <2>4. WorkerTyped'
    <3>1. /\ UNCHANGED <<ledger, poisoned, effects>> /\ loop' = NoLoop /\ port' = Idle /\ delta' = "none"
          /\ late' = FALSE /\ h' = Account
      BY <2>1 DEF Send
    <3>2. port'.stage = "idle"
      BY <3>1 DEF Idle
    <3> QED BY <3>1, <3>2, ConstantsAreTyped DEF WorkerTyped, Deltas
  <2>5. DOMAIN told' = {"req", "result"} /\ told'.req = NONE /\ told'.result = "none"
    BY <2>2
  <2>6. UNCHANGED <<writer, operation, hydration, recovery, acknowledged,
                 marked, tasksHeld, maintenance, exiting, crashes, collided, lifted>>
    BY <2>1 DEF Send
  <2> QED BY <2>3, <2>4, <2>5, <2>6
<1>2. CASE StartRun
  <2>1. active.pc = "waiting" /\ UNCHANGED <<ledger, poisoned, workerVars, recovery, acknowledged, marked, runFrame>>
    BY <1>2 DEF StartRun
  <2>2. IsRun(active') /\ writer' \in {"none", "run", "operation", "hydration"} /\ collided' \in BOOLEAN
    <3>1. CASE active' = Thrown(active) /\ UNCHANGED <<writer, collided>>
      BY <2>1, <3>1, ThrownIs
    <3>2. CASE active' = [active EXCEPT !.pc = "opening"] /\ TakeWriter("run")
      BY <2>1, <3>2 DEF TakeWriter, IsRun, Early
    <3> QED BY <1>2, <3>1, <3>2 DEF StartRun
  <2>3. WorkerTyped'
    BY <2>1, JournalTyped DEF runFrame, WorkerTyped
  <2> QED BY <2>1, <2>2, <2>3 DEF runFrame
<1>3. CASE RunOpened
  <2>1. /\ active.pc \in {"opening", "reopening"}
        /\ UNCHANGED <<workerVars, recovery, acknowledged, collided, runFrame>>
    BY <1>3 DEF RunOpened
  <2>2. /\ IsRun(active') /\ writer' \in {"none", "run", "operation", "hydration"}
        /\ ledger' \in [Requests -> Says] /\ poisoned' \in BOOLEAN /\ marked' \in BOOLEAN
    <3>1. CASE writer' = "none" /\ active' = Thrown(active) /\ UNCHANGED <<ledger, poisoned, marked>>
      BY <2>1, <3>1, ThrownIs DEF WorkerTyped
    <3>2. CASE /\ OpensJournal /\ UNCHANGED writer
               /\ active' = IF active.pc = "opening" THEN [active EXCEPT !.store = TRUE, !.pc = "receipts"]
                            ELSE IF RunCurrent THEN [active EXCEPT !.store = TRUE, !.identity = TRUE, !.pc = "preparing"]
                            ELSE Thrown([active EXCEPT !.store = TRUE])
      <4>1. ledger' \in [Requests -> Says] /\ poisoned' \in BOOLEAN /\ marked' \in BOOLEAN
        BY <3>2, OpensJournalIs
      <4>2. IsRun([active EXCEPT !.store = TRUE]) /\ [active EXCEPT !.store = TRUE].pc = active.pc
        BY <2>1 DEF IsRun
      <4>3. IsRun(Thrown([active EXCEPT !.store = TRUE]))
        BY <2>1, <4>2, ThrownIs
      <4>4. IsRun([active EXCEPT !.store = TRUE, !.pc = "receipts"])
        BY <2>1 DEF IsRun, Early
      <4>5. IsRun([active EXCEPT !.store = TRUE, !.identity = TRUE, !.pc = "preparing"])
        BY <2>1 DEF IsRun, Early
      <4> HIDE DEF IsRun, Thrown, OpensJournal
      <4> QED BY <3>2, <4>1, <4>3, <4>4, <4>5
    <3> QED BY <1>3, <3>1, <3>2 DEF RunOpened
  <2>3. WorkerTyped'
    BY <2>1, <2>2, JournalTyped DEF runFrame
  <2> QED BY <2>1, <2>2, <2>3 DEF runFrame
<1>4. CASE Receipts
  <2>1. /\ active.pc = "receipts" /\ recovery' = (recovery \/ Required)
        /\ UNCHANGED <<ledger, writer, poisoned, workerVars, acknowledged, marked, collided, runFrame>>
    BY <1>4 DEF Receipts
  <2>2. recovery' \in BOOLEAN
    BY <2>1
  <2>3. IsRun(active')
    <3>1. CASE active' = Thrown(active)
      BY <2>1, <3>1, ThrownIs
    <3>2. CASE active' = [active EXCEPT !.pc = "closing", !.result = IF ledger[active.req] = "completed" THEN "success" ELSE "failed"]
      BY <2>1, <3>2 DEF IsRun, Ended
    <3>3. CASE active' = [active EXCEPT !.pc = "reopening", !.store = FALSE]
      BY <2>1, <3>3 DEF IsRun, Early
    <3> QED BY <1>4, <3>1, <3>2, <3>3 DEF Receipts
  <2>4. WorkerTyped'
    BY <2>1, JournalTyped DEF runFrame, WorkerTyped
  <2> QED BY <2>1, <2>2, <2>3, <2>4 DEF runFrame
<1>5. CASE Prepare
  <2>1. /\ active.pc = "preparing"
        /\ UNCHANGED <<writer, recovery, acknowledged, marked, collided, operation, hydration, tasksHeld,
                 maintenance, exiting, crashes, told, lifted>>
    BY <1>5 DEF Prepare
  <2>2. IsRun(active') /\ WorkerTyped'
    <3>1. CASE \E tasks \in BOOLEAN : active' = Thrown([active EXCEPT !.tasks = tasks]) /\ UNCHANGED <<ledger, poisoned, effects, workerVars>>
      <4>1. PICK tasks \in BOOLEAN : active' = Thrown([active EXCEPT !.tasks = tasks]) /\ UNCHANGED <<ledger, poisoned, effects, workerVars>>
        BY <3>1
      <4>2. IsRun([active EXCEPT !.tasks = tasks]) /\ [active EXCEPT !.tasks = tasks].pc = active.pc
        BY DEF IsRun
      <4>3. IsRun(active')
        BY <2>1, <4>1, <4>2, ThrownIs
      <4> QED BY <4>1, <4>3, JournalTyped DEF WorkerTyped
    <3>2. CASE active' = [active EXCEPT !.tasks = TRUE, !.pc = "working"] /\ Fork
      <4>1. IsRun(active')
        BY <2>1, <3>2 DEF IsRun
      <4> QED BY <3>2, <4>1, ForkIs
    <3> QED BY <1>5, <3>1, <3>2 DEF Prepare
  <2> QED BY <2>1, <2>2
<1> QED BY <1>1, <1>2, <1>3, <1>4, <1>5

LEMMA WorkTypes ==
  ASSUME Typed, RunStep \/ CommandInDoubt \/ Worked \/ CloseAll \/ CloseStore \/ EndRun \/ Release
  PROVE  Typed'
<1> USE DEF Typed, HostTyped
<1>1. CASE RunStep
  <2>1. active.pc # "none" /\ active.req \in Requests
    BY <1>1 DEF RunStep, Running, IsRun
  <2>2. WorkerStep(active.req)
    BY <1>1 DEF RunStep, WorkerStep, HostStep
  <2>3. WorkerTyped'
    BY <2>1, <2>2, WorkerTypes
  <2>4. IsRun(active')
    <3>1. active' = [active EXCEPT !.doubt = active.doubt \/ h'.unclosed]
      BY <1>1 DEF RunStep
    <3>2. (active.doubt \/ h'.unclosed) \in BOOLEAN
      OBVIOUS
    <3> QED BY <3>1, <3>2 DEF IsRun
  <2>5. marked' \in BOOLEAN
    <3>1. marked' = (marked /\ ledger' = ledger)
      BY <1>1 DEF RunStep
    <3> QED BY <3>1
  <2>6. UNCHANGED <<writer, operation, hydration, recovery, acknowledged, tasksHeld, maintenance, exiting,
                 crashes, told, collided, lifted>>
    BY <1>1 DEF RunStep
  <2> QED BY <2>3, <2>4, <2>5, <2>6
<1>2. CASE CommandInDoubt
  <2>1. /\ active' = [active EXCEPT !.doubt = TRUE, !.aborted = TRUE] /\ recovery' = TRUE /\ CancelRun
        /\ UNCHANGED <<ledger, writer, poisoned, loop, port, delta, late, acknowledged, marked, collided, runFrame>>
    BY <1>2 DEF CommandInDoubt
  <2>2. IsRun(active')
    BY <2>1 DEF IsRun
  <2>3. WorkerTyped'
    BY <2>1, CancelRunIs DEF WorkerTyped, runFrame
  <2> QED BY <2>1, <2>2, <2>3 DEF runFrame
<1>3. CASE Worked
  <2>1. Settle /\ active.pc = "working" /\ UNCHANGED <<ledger, writer, poisoned, marked, collided, runFrame>>
    BY <1>3 DEF Worked
  <2>2. WorkerTyped'
    BY <2>1, SettleIs DEF WorkerTyped, runFrame
  <2>3. IsRun(active')
    <3>1. CASE active' = [active EXCEPT !.pc = "closing", !.result = IF h.done = "completed" THEN "success" ELSE "failed"]
      BY <2>1, <3>1 DEF IsRun, Ended
    <3>2. CASE active' = Thrown([active EXCEPT !.doubt = active.doubt \/ h.settled = "unconfirmed"])
      <4>1. (active.doubt \/ h.settled = "unconfirmed") \in BOOLEAN
        OBVIOUS
      <4>2. /\ IsRun([active EXCEPT !.doubt = active.doubt \/ h.settled = "unconfirmed"])
            /\ [active EXCEPT !.doubt = active.doubt \/ h.settled = "unconfirmed"].pc = active.pc
        BY <4>1 DEF IsRun
      <4> QED BY <2>1, <3>2, <4>2, ThrownIs
    <3> QED BY <1>3, <3>1, <3>2 DEF Worked
  <2>4. recovery' \in BOOLEAN /\ acknowledged' \in BOOLEAN
    <3> DEFINE lost == h.settled = "resolved" /\ h.done \in {"lost", "recovery_required"}
    <3>1. recovery' = (recovery \/ lost) /\ acknowledged' = (acknowledged /\ ~lost)
      BY <1>3 DEF Worked
    <3> HIDE DEF lost
    <3>2. recovery' \in BOOLEAN
      BY <3>1
    <3>3. acknowledged' \in BOOLEAN
      BY <3>1
    <3> QED BY <3>2, <3>3
  <2> QED BY <2>1, <2>2, <2>3, <2>4 DEF runFrame
<1>4. CASE CloseAll
  <2>1. UNCHANGED <<ledger, writer, poisoned, workerVars, recovery, acknowledged, marked, collided, runFrame>>
    BY <1>4 DEF CloseAll
  <2>2. PICK sure \in BOOLEAN : active.pc = "closing" /\ active' = [active EXCEPT !.pc = "storing", !.doubt = active.doubt \/ ~sure]
    BY <1>4 DEF CloseAll
  <2>3. (active.doubt \/ ~sure) \in BOOLEAN
    OBVIOUS
  <2>4. IsRun(active')
    BY <2>2, <2>3 DEF IsRun, Ended
  <2>5. WorkerTyped'
    BY <2>1, JournalTyped DEF runFrame, WorkerTyped
  <2> QED BY <2>1, <2>4, <2>5 DEF runFrame
<1>5. CASE CloseStore
  <2>1. active.pc = "storing" /\ UNCHANGED <<ledger, poisoned, workerVars, acknowledged, marked, collided, runFrame>>
    BY <1>5 DEF CloseStore
  <2>2. IsRun(active') /\ writer' \in {"none", "run", "operation", "hydration"} /\ recovery' \in BOOLEAN
    <3>1. CASE /\ active' = [active EXCEPT !.pc = "tasks", !.store = FALSE]
               /\ writer' = IF active.store THEN "none" ELSE writer
               /\ UNCHANGED recovery
      BY <2>1, <3>1 DEF IsRun, Ended
    <3>2. CASE recovery' = TRUE /\ \E closed \in BOOLEAN :
             /\ active' = [active EXCEPT !.pc = "tasks", !.store = ~closed, !.doubt = TRUE]
             /\ writer' = IF closed THEN "none" ELSE writer
      <4>1. PICK closed \in BOOLEAN :
             /\ active' = [active EXCEPT !.pc = "tasks", !.store = ~closed, !.doubt = TRUE]
             /\ writer' = IF closed THEN "none" ELSE writer
        BY <3>2
      <4>2. (~closed) \in BOOLEAN
        OBVIOUS
      <4> QED BY <2>1, <3>2, <4>1, <4>2 DEF IsRun, Ended
    <3> QED BY <1>5, <3>1, <3>2 DEF CloseStore
  <2>5. WorkerTyped'
    BY <2>1, JournalTyped DEF runFrame, WorkerTyped
  <2> QED BY <2>1, <2>2, <2>5 DEF runFrame
<1>6. CASE EndRun
  <2>1. /\ active.pc = "tasks"
        /\ UNCHANGED <<ledger, poisoned, effects, workerVars, operation, acknowledged, marked, maintenance,
                 exiting, crashes, lifted>>
    BY <1>6 DEF EndRun
  <2>2. PICK sure \in BOOLEAN :
          /\ tasksHeld' = ~sure
          /\ told' = [req |-> active.req, result |-> Answers(active, active.doubt \/ ~sure)]
          /\ recovery' = (recovery \/ (active.doubt \/ ~sure))
          /\ IF active.doubt \/ ~sure
             THEN /\ active' = [active EXCEPT !.pc = "held", !.doubt = TRUE, !.tasks = ~sure,
                                               !.tasksOnly = ~active.doubt]
                  /\ UNCHANGED <<writer, hydration, collided>>
             ELSE /\ active' = NoRun
                  /\ IF active.failed /\ active.identity THEN ReadsAgain
                     ELSE UNCHANGED <<writer, hydration, collided>>
    BY <1>6 DEF EndRun
  <2>3. IsHydration(hydration') /\ writer' \in {"none", "run", "operation", "hydration"} /\ collided' \in BOOLEAN
    BY <2>2, ReadsAgainIs
  <2>4. tasksHeld' \in BOOLEAN
    BY <2>2
  <2>5. recovery' \in BOOLEAN
    BY <2>2
  <2>6. IsRun(active')
    <3>1. (~sure) \in BOOLEAN /\ (~active.doubt) \in BOOLEAN
      OBVIOUS
    <3>2. IsRun([active EXCEPT !.pc = "held", !.doubt = TRUE, !.tasks = ~sure, !.tasksOnly = ~active.doubt])
      BY <2>1, <3>1 DEF IsRun, Ended
    <3> QED BY <2>2, <3>2, ConstantsAreTyped
  <2>7. DOMAIN told' = {"req", "result"} /\ told'.req \in Requests /\ told'.result \in {"success", "failed"}
    BY <2>1, <2>2 DEF IsRun, Answers
  <2>8. WorkerTyped'
    BY <2>1, JournalTyped DEF WorkerTyped
  <2> QED BY <2>1, <2>3, <2>4, <2>5, <2>6, <2>7, <2>8
<1>7. CASE Release
  <2>1. /\ active' = NoRun /\ tasksHeld' = FALSE /\ ReadsAgain
        /\ UNCHANGED <<ledger, poisoned, effects, workerVars, operation, recovery, acknowledged, marked,
                 maintenance, exiting, crashes, told, lifted>>
    BY <1>7 DEF Release
  <2>2. IsHydration(hydration') /\ writer' \in {"none", "run", "operation", "hydration"} /\ collided' \in BOOLEAN
    BY <2>1, ReadsAgainIs
  <2>3. WorkerTyped'
    BY <2>1, JournalTyped DEF WorkerTyped
  <2> QED BY <2>1, <2>2, <2>3, ConstantsAreTyped
<1> QED BY <1>1, <1>2, <1>3, <1>4, <1>5, <1>6, <1>7

LEMMA OperationTypes ==
  ASSUME Typed, ContextStart \/ ContextOpens \/ ContextOpened \/ ContextActs \/ ContextCloses
  PROVE  Typed'
<1> USE DEF Typed, HostTyped
<1>1. CASE ContextStart
  <2>1. UNCHANGED <<ledger, writer, poisoned, hydration, recovery, acknowledged, marked, collided, operationFrame>>
    BY <1>1 DEF ContextStart
  <2>2. IsOperation(operation')
    BY <1>1 DEF ContextStart, NoOperation, IsOperation
  <2>3. WorkerTyped'
    BY <2>1, JournalTyped DEF operationFrame, WorkerTyped
  <2> QED BY <2>1, <2>2, <2>3 DEF operationFrame
<1>2. CASE ContextOpens
  <2>1. UNCHANGED <<ledger, poisoned, hydration, recovery, acknowledged, marked, operationFrame>>
    BY <1>2 DEF ContextOpens
  <2>2. IsOperation(operation') /\ writer' \in {"none", "run", "operation", "hydration"} /\ collided' \in BOOLEAN
    <3>1. CASE operation' = Ends(operation) /\ UNCHANGED <<writer, collided>>
      BY <3>1, EndsIs
    <3>2. CASE operation' = [operation EXCEPT !.pc = "opening"] /\ TakeWriter("operation")
      BY <3>2 DEF TakeWriter, IsOperation
    <3> QED BY <1>2, <3>1, <3>2 DEF ContextOpens
  <2>3. WorkerTyped'
    BY <2>1, JournalTyped DEF operationFrame, WorkerTyped
  <2> QED BY <2>1, <2>2, <2>3 DEF operationFrame
<1>3. CASE ContextOpened
  <2>1. UNCHANGED <<hydration, recovery, acknowledged, collided, operationFrame>>
    BY <1>3 DEF ContextOpened
  <2>2. /\ IsOperation(operation') /\ writer' \in {"none", "run", "operation", "hydration"}
        /\ ledger' \in [Requests -> Says] /\ poisoned' \in BOOLEAN /\ marked' \in BOOLEAN
    <3>1. CASE writer' = "none" /\ operation' = Ends(operation) /\ UNCHANGED <<ledger, poisoned, marked>>
      BY <3>1, EndsIs DEF WorkerTyped
    <3>2. CASE OpensJournal /\ UNCHANGED writer /\ operation' = [operation EXCEPT !.store = TRUE, !.pc = "acting"]
      <4>1. IsOperation(operation')
        BY <3>2 DEF IsOperation
      <4> QED BY <3>2, <4>1, OpensJournalIs
    <3> QED BY <1>3, <3>1, <3>2 DEF ContextOpened
  <2>3. WorkerTyped'
    BY <2>1, <2>2, JournalTyped DEF operationFrame
  <2> QED BY <2>1, <2>2, <2>3 DEF operationFrame
<1>4. CASE ContextActs
  <2>1. UNCHANGED <<writer, hydration, collided, operationFrame>>
    BY <1>4 DEF ContextActs
  <2>2. /\ IsOperation(operation') /\ ledger' \in [Requests -> Says] /\ poisoned' \in BOOLEAN
        /\ marked' \in BOOLEAN /\ recovery' \in BOOLEAN /\ acknowledged' \in BOOLEAN
    <3>1. CASE Resume
      <4>1. Resolved \in [Requests -> Says]
        BY DEF Resolved, Says, WorkerTyped
      <4> HIDE DEF Resolved
      <4> QED BY <3>1, <4>1, EndsIs DEF Resume, WorkerTyped
    <3>2. CASE Compact
      <4>1. PICK doubt \in BOOLEAN : operation' = [Ends(operation) EXCEPT !.doubt = doubt]
        BY <3>2 DEF Compact
      <4> HIDE DEF Ends
      <4>2. IsOperation(operation')
        BY <4>1, EndsIs DEF IsOperation
      <4> QED BY <3>2, <4>2 DEF Compact, WorkerTyped
    <3>3. CASE Confirm
      BY <3>3, EndsIs DEF Confirm, WorkerTyped
    <3>4. CASE operation' = Ends(operation) /\ UNCHANGED <<ledger, poisoned, recovery, acknowledged, marked>>
      BY <3>4, EndsIs DEF WorkerTyped
    <3> QED BY <1>4, <3>1, <3>2, <3>3, <3>4 DEF ContextActs
  <2>3. WorkerTyped'
    BY <2>1, <2>2, JournalTyped DEF operationFrame
  <2> QED BY <2>1, <2>2, <2>3 DEF operationFrame
<1>5. CASE ContextCloses
  <2>1. UNCHANGED <<ledger, poisoned, marked, operationFrame>>
    BY <1>5 DEF ContextCloses
  <2>2. PICK closed \in BOOLEAN :
          IF closed /\ ~operation.doubt
          THEN operation' = NoOperation /\ ReadsAgain /\ UNCHANGED <<recovery, acknowledged>>
          ELSE /\ operation' = [operation EXCEPT !.pc = "held", !.doubt = TRUE, !.store = ~closed]
               /\ writer' = IF closed THEN "none" ELSE writer
               /\ recovery' = TRUE /\ acknowledged' = FALSE
               /\ UNCHANGED <<hydration, collided>>
    BY <1>5 DEF ContextCloses
  <2>3. /\ IsOperation(operation') /\ IsHydration(hydration') /\ writer' \in {"none", "run", "operation", "hydration"}
        /\ recovery' \in BOOLEAN /\ acknowledged' \in BOOLEAN /\ collided' \in BOOLEAN
    <3>1. CASE closed /\ ~operation.doubt
      BY <2>2, <3>1, ReadsAgainIs, ConstantsAreTyped
    <3>2. CASE ~(closed /\ ~operation.doubt)
      <4>1. (~closed) \in BOOLEAN
        OBVIOUS
      <4>2. operation' = [operation EXCEPT !.pc = "held", !.doubt = TRUE, !.store = ~closed]
        BY <2>2, <3>2
      <4>3. IsOperation(operation')
        BY <4>1, <4>2 DEF IsOperation
      <4> QED BY <2>2, <3>2, <4>3
    <3> QED BY <3>1, <3>2
  <2>4. WorkerTyped'
    BY <2>1, JournalTyped DEF operationFrame, WorkerTyped
  <2> QED BY <2>1, <2>3, <2>4 DEF operationFrame
<1> QED BY <1>1, <1>2, <1>3, <1>4, <1>5

SameRun(a, b) == /\ b.pc = a.pc /\ b.req = a.req /\ b.identity = a.identity /\ b.store = a.store /\ b.tasks = a.tasks
                 /\ b.doubt = a.doubt /\ b.tasksOnly = a.tasksOnly /\ b.failed = a.failed /\ b.result = a.result

LEMMA AbortsIs ==
  ASSUME Typed, Aborts
  PROVE  /\ IsRun(active') /\ SameRun(active, active')
         /\ IsOperation(operation') /\ operation'.pc = operation.pc /\ operation'.kind = operation.kind
         /\ operation'.store = operation.store /\ operation'.doubt = operation.doubt
         /\ IsAccount(h') /\ Same(h, h') /\ h'.done = h.done /\ h'.failure = h.failure
         /\ h'.exited = h.exited /\ h'.settled = h.settled /\ (h.aborted => h'.aborted)
         /\ (active.pc # "working" => h' = h)
<1> USE DEF Typed, WorkerTyped, HostTyped
<1>1. /\ active' = [active EXCEPT !.aborted = Running] /\ operation' = [operation EXCEPT !.aborted = Operating]
      /\ IF active.pc = "working" THEN CancelRun ELSE h' = h
  BY DEF Aborts
<1>2. Running \in BOOLEAN /\ Operating \in BOOLEAN
  BY DEF Running, Operating
<1> HIDE DEF Running, Operating
<1>3. IsRun(active') /\ SameRun(active, active')
  BY <1>1, <1>2 DEF IsRun, SameRun
<1>5. /\ IsOperation(operation') /\ operation'.pc = operation.pc /\ operation'.kind = operation.kind
      /\ operation'.store = operation.store /\ operation'.doubt = operation.doubt
  BY <1>1, <1>2 DEF IsOperation
<1>7. /\ IsAccount(h') /\ Same(h, h') /\ h'.done = h.done /\ h'.failure = h.failure
      /\ h'.exited = h.exited /\ h'.settled = h.settled /\ (h.aborted => h'.aborted)
      /\ (active.pc # "working" => h' = h)
  BY <1>1, CancelRunIs DEF Same
<1> QED BY <1>3, <1>5, <1>7

\* What a step of the host that stops its runs, or its crash, does.
LEMMA HostTypes ==
  ASSUME Typed, Interrupt \/ SetMaintenance \/ Shutdown \/ Crash
  PROVE  Typed'
<1> USE DEF Typed, HostTyped
<1>1. CASE Interrupt \/ Shutdown
  <2>1. Aborts /\ UNCHANGED ownerFrame /\ maintenance' \in BOOLEAN /\ exiting' \in BOOLEAN
    BY <1>1 DEF Interrupt, Shutdown
  <2>2. IsRun(active') /\ IsOperation(operation') /\ IsAccount(h')
    BY <2>1, AbortsIs
  <2>3. WorkerTyped'
    BY <2>1, <2>2 DEF ownerFrame, WorkerTyped
  <2> QED BY <2>1, <2>2, <2>3 DEF ownerFrame
<1>2. CASE SetMaintenance
  <2>1. UNCHANGED <<active, operation, h, exiting, ownerFrame>> /\ maintenance' = ~maintenance
    BY <1>2 DEF SetMaintenance
  <2>2. maintenance' \in BOOLEAN
    BY <2>1
  <2>3. WorkerTyped'
    BY <2>1 DEF ownerFrame, WorkerTyped
  <2> QED BY <2>1, <2>2, <2>3 DEF ownerFrame
<1>3. CASE Crash
  <2>1. /\ loop' = NoLoop /\ port' = Idle /\ delta' = "none" /\ late' = FALSE /\ h' = Account
        /\ active' = NoRun /\ operation' = NoOperation
        /\ hydration' = [pc |-> "opening", of |-> "none", strict |-> TRUE]
        /\ writer' = "hydration" /\ poisoned' = FALSE
        /\ recovery' = FALSE /\ acknowledged' = FALSE /\ tasksHeld' = FALSE
        /\ maintenance' = FALSE /\ exiting' = FALSE /\ lifted' = FALSE
        /\ UNCHANGED <<ledger, effects, marked, told, collided>>
    BY <1>3 DEF Crash
  <2>2. port'.stage = "idle"
    BY <2>1 DEF Idle
  <2>3. WorkerTyped'
    BY <2>1, <2>2, ConstantsAreTyped DEF WorkerTyped, Deltas
  <2>4. IsHydration(hydration')
    BY <2>1 DEF IsHydration
  <2> QED BY <2>1, <2>3, <2>4, ConstantsAreTyped
<1> QED BY <1>1, <1>2, <1>3

LEMMA TypedInit == Init => Typed
<1> SUFFICES ASSUME Init PROVE Typed
  OBVIOUS
<1>1. Idle.stage = "idle"
  BY DEF Idle
<1>2. WorkerTyped
  BY <1>1, ConstantsAreTyped DEF Init, WorkerInit, WorkerTyped, Says, Deltas
<1>3. HostTyped
  BY ConstantsAreTyped DEF Init, HostTyped
<1> QED BY <1>2, <1>3 DEF Typed

LEMMA TypedStep == ASSUME Typed, [Next]_vars PROVE Typed'
<1>1. CASE UNCHANGED vars
  <2>1. UNCHANGED <<ledger, writer, poisoned, effects, loop, port, delta, late, h, hostVars>>
    BY <1>1 DEF vars, workerVars
  <2>2. WorkerTyped'
    BY <2>1 DEF Typed, WorkerTyped
  <2>3. HostTyped'
    BY <2>1 DEF Typed, HostTyped, hostVars
  <2> QED BY <2>2, <2>3 DEF Typed
<1> QED BY <1>1, ReadTypes, StartTypes, WorkTypes, OperationTypes, HostTypes DEF Next

-----------------------------------------------------------------------------
(* Who has the journal.                                                    *)

LEMMA ControlOfReads ==
  ASSUME Typed, Control, Read \/ HydrationFails \/ HydrationOpens \/ HydrationDecides
  PROVE  Control'
<1> USE DEF Control, Running, Operating, Waits
<1>1. IsHydration(hydration) /\ IsRun(active) /\ IsOperation(operation)
  BY DEF Typed, HostTyped
<1>2. NoHydration.pc = "none" /\ NoHydration.of = "none" /\ ~NoHydration.strict
  BY DEF NoHydration
<1>3. CASE Read
  <2>1. /\ hydration.pc = "none" /\ UNCHANGED <<active, operation, tasksHeld>> /\ Presentable
    BY <1>3 DEF Read
  <2>2. /\ hydration'.pc = (IF Target = "none" THEN "opening" ELSE "reading")
        /\ hydration'.of = Target /\ ~hydration'.strict
    BY <1>3 DEF Read, StartHydration
  <2>3. CASE Target = "none"
    <3>1. collided' = (collided \/ writer # "none") /\ writer' = "hydration"
      BY <1>3, <2>3 DEF Read, TakeWriter
    <3>2. active.pc = "none" /\ operation.pc = "none"
      BY <2>3 DEF Target
    <3>3. writer = "none"
      BY <2>1, <3>2 DEF Typed, HostTyped, RunIsSound, OperationIsSound, Ended
    <3> QED BY <2>1, <2>2, <2>3, <3>1, <3>2, <3>3 DEF RunIsSound, OperationIsSound, Ended
  <2>4. CASE Target # "none"
    <3>1. UNCHANGED <<writer, collided>>
      BY <1>3, <2>4 DEF Read
    <3>2. \/ Target = "run" /\ active.pc # "none"
          \/ Target = "operation" /\ active.pc = "none" /\ operation.pc # "none"
      BY <2>4 DEF Target
    <3> QED BY <2>1, <2>2, <2>4, <3>1, <3>2
  <2> QED BY <2>3, <2>4
<1>4. CASE HydrationFails
  <2>1. hydration' = NoHydration /\ writer' = (IF hydration.of = "none" THEN "none" ELSE writer)
        /\ hydration.pc # "none" /\ UNCHANGED <<active, operation, tasksHeld, collided>>
    BY <1>4 DEF HydrationFails
  <2> QED BY <1>1, <1>2, <2>1
<1>5. CASE HydrationOpens
  <2>1. hydration.pc = "opening" /\ hydration' = [hydration EXCEPT !.pc = "reading"]
        /\ UNCHANGED <<writer, active, operation, tasksHeld, collided>>
    BY <1>5 DEF HydrationOpens
  <2>2. hydration'.pc = "reading" /\ hydration'.of = hydration.of /\ hydration'.strict = hydration.strict
    BY <1>1, <2>1 DEF IsHydration
  <2> QED BY <2>1, <2>2
<1>6. CASE HydrationDecides
  <2>1. hydration' = NoHydration /\ writer' = (IF hydration.of = "none" THEN "none" ELSE writer)
        /\ hydration.pc # "none" /\ UNCHANGED <<active, operation, tasksHeld, collided>>
    BY <1>6 DEF HydrationDecides
  <2> QED BY <1>1, <1>2, <2>1
<1> QED BY <1>3, <1>4, <1>5, <1>6

LEMMA ControlOfStarts ==
  ASSUME Typed, Control, StartRun \/ RunOpened \/ Receipts \/ Prepare \/ \E r \in Requests : Send(r)
  PROVE  Control'
<1> USE DEF Control, Running, Operating, Waits, RunIsSound, Early, Ended
<1>1. IsRun(active) /\ writer \in {"none", "run", "operation", "hydration"}
  BY DEF Typed, HostTyped
<1>2. CASE \E r \in Requests : Send(r)
  <2>1. PICK r \in Requests : Send(r)
    BY <1>2
  <2>2. active' = [NoRun EXCEPT !.req = r, !.pc = "waiting"] /\ ~has
        /\ UNCHANGED <<writer, operation, hydration, tasksHeld, collided>>
    BY <2>1 DEF Send
  <2>3. /\ active'.pc = "waiting" /\ ~active'.doubt /\ ~active'.failed /\ active'.result = "failed"
        /\ ~active'.store /\ ~active'.tasksOnly
    BY <2>2 DEF NoRun
  <2> HIDE DEF Running, Operating
  <2>4. active.pc = "none" /\ operation.pc = "none" /\ ~tasksHeld
    BY <2>2 DEF has, Running, Operating
  <2> QED BY <2>2, <2>3, <2>4 DEF Running, Operating
<1>3. CASE StartRun
  <2>1. active.pc = "waiting" /\ hydration.pc = "none" /\ UNCHANGED <<operation, hydration, tasksHeld>>
    BY <1>3 DEF StartRun, runFrame
  <2>2. writer = "none" /\ operation.pc = "none" /\ ~active.store
    BY <1>1, <2>1 DEF OperationIsSound
  <2>3. CASE active' = Thrown(active) /\ UNCHANGED <<writer, collided>>
    BY <1>1, <2>1, <2>2, <2>3, ThrownIs
  <2>4. CASE active' = [active EXCEPT !.pc = "opening"] /\ TakeWriter("run")
    <3>1. writer' = "run" /\ collided' = (collided \/ writer # "none")
      BY <2>4 DEF TakeWriter
    <3>2. active'.pc = "opening" /\ SameRun([active EXCEPT !.pc = "opening"], active')
      BY <1>1, <2>4 DEF IsRun, SameRun
    <3>3. /\ active'.store = active.store /\ active'.doubt = active.doubt /\ active'.failed = active.failed
          /\ active'.result = active.result /\ active'.tasksOnly = active.tasksOnly
      BY <1>1, <2>4 DEF IsRun
    <3> QED BY <2>1, <2>2, <3>1, <3>2, <3>3
  <2> QED BY <1>3, <2>3, <2>4 DEF StartRun
<1>4. CASE RunOpened
  <2>1. active.pc \in {"opening", "reopening"} /\ UNCHANGED <<operation, hydration, tasksHeld, collided>>
    BY <1>4 DEF RunOpened, runFrame
  <2>2. writer = "run" /\ ~active.store /\ operation.pc = "none" /\ ~active.doubt /\ ~active.failed
        /\ active.result = "failed" /\ ~active.tasksOnly /\ ~tasksHeld
    BY <2>1
  <2>3. CASE writer' = "none" /\ active' = Thrown(active)
    BY <1>1, <2>1, <2>2, <2>3, ThrownIs DEF OperationIsSound
  <2>4. CASE /\ UNCHANGED writer
             /\ active' = IF active.pc = "opening" THEN [active EXCEPT !.store = TRUE, !.pc = "receipts"]
                          ELSE IF RunCurrent THEN [active EXCEPT !.store = TRUE, !.identity = TRUE, !.pc = "preparing"]
                          ELSE Thrown([active EXCEPT !.store = TRUE])
    <3>1. CASE active' = [active EXCEPT !.store = TRUE, !.pc = "receipts"]
      <4>1. /\ active'.pc = "receipts" /\ active'.store /\ active'.doubt = active.doubt /\ active'.failed = active.failed
            /\ active'.result = active.result /\ active'.tasksOnly = active.tasksOnly
        BY <1>1, <3>1 DEF IsRun
      <4> QED BY <2>1, <2>2, <2>4, <4>1
    <3>2. CASE active' = [active EXCEPT !.store = TRUE, !.identity = TRUE, !.pc = "preparing"]
      <4>1. /\ active'.pc = "preparing" /\ active'.store /\ active'.identity /\ active'.doubt = active.doubt /\ active'.failed = active.failed
            /\ active'.result = active.result /\ active'.tasksOnly = active.tasksOnly
        BY <1>1, <3>2 DEF IsRun
      <4> QED BY <2>1, <2>2, <2>4, <4>1
    <3>3. CASE active' = Thrown([active EXCEPT !.store = TRUE])
      <4> DEFINE a == [active EXCEPT !.store = TRUE]
      <4>1. /\ IsRun(a) /\ a.pc = active.pc /\ a.store /\ a.doubt = active.doubt /\ a.tasksOnly = active.tasksOnly
        BY <1>1 DEF IsRun
      <4>2. active' = Thrown(a)
        BY <3>3
      <4> HIDE DEF a
      <4>3. /\ active'.pc = "closing" /\ active'.store /\ ~active'.doubt /\ ~active'.tasksOnly
        BY <2>1, <2>2, <4>1, <4>2, ThrownIs
      <4> QED BY <2>1, <2>2, <2>4, <4>3
    <3> QED BY <2>4, <3>1, <3>2, <3>3
  <2> HIDE DEF Control
  <2> QED BY <1>4, <2>3, <2>4 DEF RunOpened
<1>5. CASE Receipts
  <2>1. active.pc = "receipts" /\ UNCHANGED <<writer, operation, hydration, tasksHeld, collided>>
    BY <1>5 DEF Receipts, runFrame
  <2>2. CASE active' = Thrown(active)
    BY <1>1, <2>1, <2>2, ThrownIs
  <2>3. CASE active' = [active EXCEPT !.pc = "closing", !.result = IF ledger[active.req] = "completed" THEN "success" ELSE "failed"]
    <3>1. active'.pc = "closing" /\ active'.store = active.store /\ active'.doubt = active.doubt /\ active'.tasksOnly = active.tasksOnly
      BY <1>1, <2>3 DEF IsRun
    <3> QED BY <2>1, <3>1
  <2>4. CASE active' = [active EXCEPT !.pc = "reopening", !.store = FALSE]
    <3>1. /\ active'.pc = "reopening" /\ ~active'.store /\ active'.doubt = active.doubt /\ active'.failed = active.failed
          /\ active'.result = active.result /\ active'.tasksOnly = active.tasksOnly
      BY <1>1, <2>4 DEF IsRun
    <3>2. active.store
      BY <2>1, <1>1
    <3> QED BY <2>1, <3>1, <3>2
  <2> QED BY <1>5, <2>2, <2>3, <2>4 DEF Receipts
<1>6. CASE Prepare
  <2>1. active.pc = "preparing" /\ UNCHANGED <<writer, operation, hydration, tasksHeld, collided>>
    BY <1>6 DEF Prepare
  <2>2. CASE \E tasks \in BOOLEAN : active' = Thrown([active EXCEPT !.tasks = tasks])
    <3>1. PICK tasks \in BOOLEAN : active' = Thrown([active EXCEPT !.tasks = tasks])
      BY <2>2
    <3> DEFINE a == [active EXCEPT !.tasks = tasks]
    <3>2. IsRun(a) /\ a.pc = active.pc /\ a.store = active.store /\ a.doubt = active.doubt /\ a.tasksOnly = active.tasksOnly
      BY <1>1 DEF IsRun
    <3>3. active' = Thrown(a)
      BY <3>1
    <3> HIDE DEF a
    <3>4. /\ active'.pc = "closing" /\ active'.store = active.store /\ active'.doubt = active.doubt /\ active'.tasksOnly = active.tasksOnly
      BY <2>1, <3>2, <3>3, ThrownIs
    <3> QED BY <2>1, <3>4
  <2>3. CASE active' = [active EXCEPT !.tasks = TRUE, !.pc = "working"]
    <3>1. /\ active'.pc = "working" /\ active'.store = active.store /\ active'.doubt = active.doubt
          /\ active'.tasksOnly = active.tasksOnly /\ active'.identity = active.identity
      BY <1>1, <2>3 DEF IsRun
    <3> QED BY <2>1, <3>1
  <2> QED BY <1>6, <2>2, <2>3 DEF Prepare
<1> QED BY <1>2, <1>3, <1>4, <1>5, <1>6

-----------------------------------------------------------------------------
(* What the steps of a run that works or ends make of its entry.           *)

LEMMA RunStepIs ==
  ASSUME Typed, RunStep
  PROVE  /\ IsRun(active') /\ active'.pc = active.pc /\ active'.req = active.req /\ active'.store = active.store
         /\ active'.identity = active.identity /\ active'.failed = active.failed
         /\ active'.result = active.result /\ active'.tasksOnly = active.tasksOnly
         /\ active'.doubt = (active.doubt \/ h'.unclosed)
         /\ active.pc # "none" /\ active.req \in Requests /\ WorkerStep(active.req)
         /\ active.pc = "working" \/ (h.settled = "unconfirmed" /\ (PortStep(active.req) \/ DeltaShown))
         /\ UNCHANGED <<writer, operation, hydration, recovery, acknowledged, tasksHeld, maintenance, exiting,
                 crashes, told, collided, lifted>>
<1>1. IsRun(active)
  BY DEF Typed, HostTyped
<1>2. active' = [active EXCEPT !.doubt = active.doubt \/ h'.unclosed]
  BY DEF RunStep
<1>3. (active.doubt \/ h'.unclosed) \in BOOLEAN
  OBVIOUS
<1>4. active.pc # "none" /\ (active.pc = "working" \/ (h.settled = "unconfirmed" /\ (PortStep(active.req) \/ DeltaShown)))
      /\ WorkerStep(active.req)
  BY DEF RunStep, Running, WorkerStep, HostStep
<1>5. UNCHANGED <<writer, operation, hydration, recovery, acknowledged, tasksHeld, maintenance, exiting,
                 crashes, told, collided, lifted>>
  BY DEF RunStep
<1> QED BY <1>1, <1>2, <1>3, <1>4, <1>5 DEF IsRun

LEMMA CommandInDoubtIs ==
  ASSUME Typed, CommandInDoubt
  PROVE  /\ active.pc = "working" /\ active'.pc = active.pc /\ active'.req = active.req /\ active'.store = active.store
         /\ active'.identity = active.identity /\ active'.failed = active.failed
         /\ active'.result = active.result /\ active'.tasksOnly = active.tasksOnly /\ active'.doubt
         /\ recovery' = TRUE /\ Same(h, h') /\ h'.done = h.done /\ h'.failure = h.failure
         /\ h'.exited = h.exited /\ h'.settled = h.settled
         /\ UNCHANGED <<ledger, writer, poisoned, effects, loop, port, delta, late, acknowledged, marked, collided,
                        operation, hydration, tasksHeld, maintenance, exiting, crashes, told, lifted>>
<1>1. IsRun(active) /\ IsAccount(h)
  BY DEF Typed, HostTyped, WorkerTyped
<1>2. active' = [active EXCEPT !.doubt = TRUE, !.aborted = TRUE] /\ active.pc = "working" /\ recovery' = TRUE /\ CancelRun
  BY DEF CommandInDoubt
<1>3. UNCHANGED <<ledger, writer, poisoned, effects, loop, port, delta, late, acknowledged, marked, collided,
                        operation, hydration, tasksHeld, maintenance, exiting, crashes, told, lifted>>
  BY DEF CommandInDoubt, runFrame
<1> QED BY <1>1, <1>2, <1>3, CancelRunIs DEF IsRun

LEMMA WorkedIs ==
  ASSUME Typed, Worked
  PROVE  /\ active.pc = "working" /\ h.settled # "no" /\ active'.pc = "closing" /\ active'.req = active.req
         /\ active'.store = active.store /\ active'.identity = active.identity
         /\ active'.tasksOnly = active.tasksOnly
         /\ \/ /\ h.settled = "resolved" /\ active'.doubt = active.doubt /\ active'.failed = active.failed
               /\ active'.result = IF h.done = "completed" THEN "success" ELSE "failed"
            \/ /\ active'.doubt = (active.doubt \/ h.settled = "unconfirmed") /\ active'.failed
               /\ active'.result = "failed"
         /\ LET lost == h.settled = "resolved" /\ h.done \in {"lost", "recovery_required"}
            IN recovery' = (recovery \/ lost) /\ acknowledged' = (acknowledged /\ ~lost)
         /\ Settle
         /\ UNCHANGED <<ledger, writer, poisoned, effects, marked, collided,
                        operation, hydration, tasksHeld, maintenance, exiting, crashes, told, lifted>>
<1>1. IsRun(active)
  BY DEF Typed, HostTyped
<1>2. active.pc = "working" /\ h.settled # "no" /\ Settle
      /\ LET lost == h.settled = "resolved" /\ h.done \in {"lost", "recovery_required"}
         IN recovery' = (recovery \/ lost) /\ acknowledged' = (acknowledged /\ ~lost)
      /\ UNCHANGED <<ledger, writer, poisoned, effects, marked, collided,
                        operation, hydration, tasksHeld, maintenance, exiting, crashes, told, lifted>>
  BY DEF Worked, runFrame
<1>3. CASE h.settled = "resolved" /\ active' = [active EXCEPT !.pc = "closing", !.result = IF h.done = "completed" THEN "success" ELSE "failed"]
  <2>1. /\ active'.pc = "closing" /\ active'.req = active.req
        /\ active'.store = active.store /\ active'.identity = active.identity
        /\ active'.tasksOnly = active.tasksOnly /\ active'.doubt = active.doubt /\ active'.failed = active.failed
        /\ active'.result = IF h.done = "completed" THEN "success" ELSE "failed"
    BY <1>1, <1>3 DEF IsRun
  <2> HIDE DEF Settle
  <2> QED BY <1>2, <1>3, <2>1
<1>4. CASE active' = Thrown([active EXCEPT !.doubt = active.doubt \/ h.settled = "unconfirmed"])
  <2> DEFINE a == [active EXCEPT !.doubt = active.doubt \/ h.settled = "unconfirmed"]
  <2>1. (active.doubt \/ h.settled = "unconfirmed") \in BOOLEAN
    OBVIOUS
  <2>2. /\ IsRun(a) /\ a.pc = active.pc /\ a.req = active.req /\ a.store = active.store
        /\ a.identity = active.identity /\ a.tasksOnly = active.tasksOnly
        /\ a.doubt = (active.doubt \/ h.settled = "unconfirmed")
    BY <1>1, <2>1 DEF IsRun
  <2>3. active' = Thrown(a)
    BY <1>4
  <2> HIDE DEF a
  <2>4. /\ active'.pc = "closing" /\ active'.req = active.req
        /\ active'.store = active.store /\ active'.identity = active.identity
        /\ active'.tasksOnly = active.tasksOnly /\ active'.doubt = (active.doubt \/ h.settled = "unconfirmed")
        /\ active'.failed /\ active'.result = "failed"
    BY <1>2, <2>2, <2>3, ThrownIs
  <2> HIDE DEF Settle
  <2> QED BY <1>2, <2>4
<1> QED BY <1>3, <1>4 DEF Worked

LEMMA CloseAllIs ==
  ASSUME Typed, CloseAll
  PROVE  /\ active.pc = "closing" /\ active'.pc = "storing" /\ active'.req = active.req /\ active'.store = active.store
         /\ active'.identity = active.identity /\ active'.failed = active.failed
         /\ active'.result = active.result /\ active'.tasksOnly = active.tasksOnly
         /\ (active.doubt => active'.doubt)
         /\ UNCHANGED <<ledger, writer, poisoned, effects, loop, port, delta, late, h, recovery, acknowledged, marked,
                        collided, operation, hydration, tasksHeld, maintenance, exiting, crashes, told, lifted>>
<1>1. IsRun(active)
  BY DEF Typed, HostTyped
<1>2. PICK sure \in BOOLEAN : active.pc = "closing" /\ active' = [active EXCEPT !.pc = "storing", !.doubt = active.doubt \/ ~sure]
  BY DEF CloseAll
<1>3. (active.doubt \/ ~sure) \in BOOLEAN
  OBVIOUS
<1>4. UNCHANGED <<ledger, writer, poisoned, effects, loop, port, delta, late, h, recovery, acknowledged, marked,
                        collided, operation, hydration, tasksHeld, maintenance, exiting, crashes, told, lifted>>
  BY DEF CloseAll, workerVars, runFrame
<1> QED BY <1>1, <1>2, <1>3, <1>4 DEF IsRun

LEMMA CloseStoreIs ==
  ASSUME Typed, CloseStore
  PROVE  /\ active.pc = "storing" /\ active'.pc = "tasks" /\ active'.req = active.req
         /\ active'.identity = active.identity /\ active'.failed = active.failed
         /\ active'.result = active.result /\ active'.tasksOnly = active.tasksOnly
         /\ (active.doubt => active'.doubt) /\ (recovery => recovery')
         /\ \/ ~active'.store /\ writer' = (IF active.store THEN "none" ELSE writer)
            \/ active.store /\ active'.doubt /\ active'.store /\ UNCHANGED writer
         /\ UNCHANGED <<ledger, poisoned, effects, loop, port, delta, late, h, acknowledged, marked,
                        collided, operation, hydration, tasksHeld, maintenance, exiting, crashes, told, lifted>>
<1>1. IsRun(active)
  BY DEF Typed, HostTyped
<1>2. active.pc = "storing" /\ UNCHANGED <<ledger, poisoned, effects, loop, port, delta, late, h, acknowledged, marked,
                        collided, operation, hydration, tasksHeld, maintenance, exiting, crashes, told, lifted>>
  BY DEF CloseStore, workerVars, runFrame
<1>3. CASE /\ active' = [active EXCEPT !.pc = "tasks", !.store = FALSE]
           /\ writer' = IF active.store THEN "none" ELSE writer
           /\ UNCHANGED recovery
  BY <1>1, <1>2, <1>3 DEF IsRun
<1>4. CASE active.store /\ recovery' = TRUE /\ \E closed \in BOOLEAN :
             /\ active' = [active EXCEPT !.pc = "tasks", !.store = ~closed, !.doubt = TRUE]
             /\ writer' = IF closed THEN "none" ELSE writer
  <2>1. PICK closed \in BOOLEAN :
             /\ active' = [active EXCEPT !.pc = "tasks", !.store = ~closed, !.doubt = TRUE]
             /\ writer' = IF closed THEN "none" ELSE writer
    BY <1>4
  <2>2. (~closed) \in BOOLEAN
    OBVIOUS
  <2> QED BY <1>1, <1>2, <1>4, <2>1, <2>2 DEF IsRun
<1> QED BY <1>3, <1>4 DEF CloseStore

LEMMA EndRunIs ==
  ASSUME Typed, EndRun
  PROVE  /\ active.pc = "tasks" /\ active.req \in Requests /\ (recovery => recovery') /\ told'.req = active.req
         /\ \/ /\ active'.pc = "held" /\ active'.req = active.req /\ active'.store = active.store
               /\ active'.result = active.result /\ active'.doubt /\ active'.tasksOnly = ~active.doubt /\ recovery'
               /\ told'.result = IF active.doubt THEN "failed" ELSE active.result
               /\ UNCHANGED <<writer, hydration>>
            \/ /\ active' = NoRun /\ ~active.doubt /\ told'.result = active.result /\ ~tasksHeld'
               /\ IF active.failed /\ active.identity THEN ReadsAgain ELSE UNCHANGED <<writer, hydration>>
         /\ UNCHANGED <<ledger, poisoned, effects, loop, port, delta, late, h, operation, acknowledged, marked, maintenance,
                 exiting, crashes, lifted, collided>>
<1>1. IsRun(active) /\ IsHydration(hydration)
  BY DEF Typed, HostTyped
<1>2. active.pc = "tasks" /\ active.req \in Requests
      /\ UNCHANGED <<ledger, poisoned, effects, loop, port, delta, late, h, operation, acknowledged, marked, maintenance,
                 exiting, crashes, lifted>>
  BY <1>1 DEF EndRun, workerVars, IsRun
<1>3. PICK sure \in BOOLEAN :
        /\ tasksHeld' = ~sure
        /\ told' = [req |-> active.req, result |-> Answers(active, active.doubt \/ ~sure)]
        /\ recovery' = (recovery \/ (active.doubt \/ ~sure))
        /\ IF active.doubt \/ ~sure
           THEN /\ active' = [active EXCEPT !.pc = "held", !.doubt = TRUE, !.tasks = ~sure,
                                             !.tasksOnly = ~active.doubt]
                /\ UNCHANGED <<writer, hydration, collided>>
           ELSE /\ active' = NoRun
                /\ IF active.failed /\ active.identity THEN ReadsAgain
                   ELSE UNCHANGED <<writer, hydration, collided>>
  BY DEF EndRun
<1>4. told'.req = active.req
      /\ told'.result = (IF (active.doubt \/ ~sure) /\ (active.doubt \/ active.result = "failed") THEN "failed" ELSE active.result)
  BY <1>3 DEF Answers
<1>5. CASE active.doubt \/ ~sure
  <2>1. active' = [active EXCEPT !.pc = "held", !.doubt = TRUE, !.tasks = ~sure, !.tasksOnly = ~active.doubt]
        /\ UNCHANGED <<writer, hydration, collided>> /\ recovery'
    BY <1>3, <1>5
  <2>2. (~sure) \in BOOLEAN /\ (~active.doubt) \in BOOLEAN
    OBVIOUS
  <2>3. /\ active'.pc = "held" /\ active'.req = active.req /\ active'.store = active.store
        /\ active'.result = active.result /\ active'.doubt /\ active'.tasksOnly = ~active.doubt
    BY <1>1, <2>1, <2>2 DEF IsRun
  <2>4. told'.result = IF active.doubt THEN "failed" ELSE active.result
    BY <1>1, <1>4, <1>5 DEF IsRun
  <2> QED BY <1>2, <1>4, <2>1, <2>3, <2>4
<1>6. CASE ~active.doubt /\ sure
  <2>1. /\ active' = NoRun /\ ~tasksHeld' /\ told'.result = active.result /\ (recovery => recovery')
        /\ IF active.failed /\ active.identity THEN ReadsAgain ELSE UNCHANGED <<writer, hydration, collided>>
    BY <1>3, <1>4, <1>6
  <2>2. UNCHANGED collided
    BY <1>1, <2>1, ReadsAgainIs
  <2> HIDE DEF ReadsAgain
  <2> QED BY <1>2, <1>4, <1>6, <2>1, <2>2
<1> QED BY <1>5, <1>6

LEMMA ControlOfReadsAgain ==
  ASSUME Typed, Control, ReadsAgain, writer # "hydration", active'.pc = "none", operation'.pc = "none",
         ~active'.store, ~operation'.store, RunIsSound(active'), OperationIsSound(operation'), ~tasksHeld'
  PROVE  Control'
<1>1. IsHydration(hydration)
  BY DEF Typed, HostTyped
<1>2. /\ UNCHANGED collided
      /\ exiting => UNCHANGED hydration /\ writer' = "none"
      /\ ~exiting => /\ hydration'.strict
                     /\ hydration.pc # "none" => /\ hydration'.pc = hydration.pc /\ hydration'.of = hydration.of
                                                 /\ writer' = "none"
                     /\ hydration.pc = "none" => /\ hydration'.pc = "opening" /\ hydration'.of = "none"
                                                 /\ writer' = "hydration"
  BY <1>1, ReadsAgainIs
<1> HIDE DEF RunIsSound, OperationIsSound, ReadsAgain
<1> QED BY <1>2 DEF Control, Running, Operating, Waits

LEMMA ConstantsAreSound ==
  /\ RunIsSound(NoRun) /\ NoRun.pc = "none" /\ ~NoRun.store
  /\ OperationIsSound(NoOperation) /\ NoOperation.pc = "none" /\ ~NoOperation.store
  /\ NoHydration.pc = "none" /\ NoHydration.of = "none" /\ ~NoHydration.strict
BY DEF RunIsSound, NoRun, OperationIsSound, NoOperation, NoHydration, Early

LEMMA ControlOfWork ==
  ASSUME Typed, Control, Worker,
         RunStep \/ CommandInDoubt \/ Worked \/ CloseAll \/ CloseStore \/ EndRun \/ Release
  PROVE  Control'
<1> USE DEF Control, Running, Operating, Waits, RunIsSound, Early, Ended
<1>1. IsRun(active) /\ IsHydration(hydration) /\ writer \in {"none", "run", "operation", "hydration"}
  BY DEF Typed, HostTyped
<1>2. CASE RunStep
  <2>1. /\ active'.pc = active.pc /\ active'.store = active.store /\ active'.identity = active.identity
        /\ active'.failed = active.failed /\ active'.result = active.result /\ active'.tasksOnly = active.tasksOnly
        /\ active'.doubt = (active.doubt \/ h'.unclosed) /\ active.pc # "none"
        /\ active.pc = "working" \/ h.settled = "unconfirmed"
        /\ UNCHANGED <<writer, operation, hydration, tasksHeld, collided>>
    BY <1>2, RunStepIs
  <2>2. active.pc \notin Early
    BY <2>1, AtRestIs DEF Worker, GivenUp
  <2> QED BY <2>1, <2>2
<1>3. CASE CommandInDoubt
  <2> HIDE DEF CommandInDoubt
  <2> QED BY <1>3, CommandInDoubtIs
<1>4. CASE Worked
  <2>1. /\ active.pc = "working" /\ active'.pc = "closing" /\ active'.store = active.store
        /\ active'.tasksOnly = active.tasksOnly
        /\ UNCHANGED <<writer, collided, operation, hydration, tasksHeld>>
    BY <1>4, WorkedIs
  <2> QED BY <2>1
<1>5. CASE CloseAll
  <2> HIDE DEF CloseAll
  <2> QED BY <1>5, CloseAllIs
<1>6. CASE CloseStore
  <2> HIDE DEF CloseStore
  <2> QED BY <1>1, <1>6, CloseStoreIs
<1>7. CASE EndRun
  <2>1. writer # "hydration" /\ operation.pc = "none" /\ ~operation.store /\ ~active.tasksOnly
    BY <1>7, EndRunIs DEF OperationIsSound
  <2>2. CASE active'.pc = "held"
    <3>1. /\ active.pc = "tasks" /\ active'.store = active.store
          /\ active'.doubt /\ active'.tasksOnly = ~active.doubt
          /\ UNCHANGED <<writer, hydration, operation, collided>>
      BY <1>7, <2>2, EndRunIs, ConstantsAreSound
    <3> QED BY <1>1, <2>1, <2>2, <3>1
  <2>3. CASE active'.pc # "held"
    <3>1. /\ active.pc = "tasks" /\ active' = NoRun /\ ~active.doubt /\ ~tasksHeld'
          /\ IF active.failed /\ active.identity THEN ReadsAgain ELSE UNCHANGED <<writer, hydration>>
          /\ UNCHANGED <<operation, collided>>
      BY <1>7, <2>3, EndRunIs
    <3>2. CASE ReadsAgain
      <4> HIDE DEF Control, RunIsSound, OperationIsSound
      <4> QED BY <2>1, <3>1, <3>2, ControlOfReadsAgain, ConstantsAreSound DEF Control
    <3>3. CASE UNCHANGED <<writer, hydration>>
      BY <1>1, <2>1, <3>1, <3>3, ConstantsAreSound
    <3> QED BY <3>1, <3>2, <3>3
  <2> QED BY <2>2, <2>3
<1>8. CASE Release
  <2>1. active' = NoRun /\ tasksHeld' = FALSE /\ ReadsAgain /\ active.pc = "held" /\ UNCHANGED operation
    BY <1>8 DEF Release
  <2>2. writer # "hydration" /\ operation.pc = "none" /\ ~operation.store
    BY <2>1 DEF OperationIsSound
  <2> HIDE DEF Control, RunIsSound, OperationIsSound
  <2> QED BY <2>1, <2>2, ControlOfReadsAgain, ConstantsAreSound DEF Control
<1> QED BY <1>2, <1>3, <1>4, <1>5, <1>6, <1>7, <1>8

LEMMA ControlOfOperations ==
  ASSUME Typed, Control, ContextStart \/ ContextOpens \/ ContextOpened \/ ContextActs \/ ContextCloses
  PROVE  Control'
<1> USE DEF Control, Running, Operating, Waits, OperationIsSound, RunIsSound, Early, Ended
<1>1. IsOperation(operation) /\ IsHydration(hydration) /\ writer \in {"none", "run", "operation", "hydration"}
      /\ IsRun(active)
  BY DEF Typed, HostTyped
<1>2. CASE ContextStart
  <2>1. /\ ~has /\ UNCHANGED <<writer, hydration, collided, active, tasksHeld>>
        /\ operation'.pc = "waiting" /\ ~operation'.store /\ ~operation'.doubt
    BY <1>2 DEF ContextStart, operationFrame, NoOperation
  <2>2. active.pc = "none" /\ operation.pc = "none" /\ ~tasksHeld
    BY <2>1 DEF has
  <2> QED BY <2>1, <2>2
<1>3. CASE ContextOpens
  <2>1. operation.pc = "waiting" /\ hydration.pc = "none" /\ UNCHANGED <<hydration, active, tasksHeld>>
    BY <1>3 DEF ContextOpens, operationFrame
  <2>2. writer = "none" /\ active.pc = "none" /\ ~operation.store /\ ~operation.doubt
    BY <1>1, <2>1
  <2>3. CASE operation' = Ends(operation) /\ UNCHANGED <<writer, collided>>
    BY <1>1, <2>1, <2>2, <2>3, EndsIs
  <2>4. CASE operation' = [operation EXCEPT !.pc = "opening"] /\ TakeWriter("operation")
    <3>1. writer' = "operation" /\ collided' = (collided \/ writer # "none")
      BY <2>4 DEF TakeWriter
    <3>2. operation'.pc = "opening" /\ operation'.store = operation.store /\ operation'.doubt = operation.doubt
      BY <1>1, <2>4 DEF IsOperation
    <3> QED BY <2>1, <2>2, <3>1, <3>2
  <2> QED BY <1>3, <2>3, <2>4 DEF ContextOpens
<1>4. CASE ContextOpened
  <2>1. operation.pc = "opening" /\ UNCHANGED <<hydration, active, tasksHeld, collided>>
    BY <1>4 DEF ContextOpened, operationFrame
  <2>2. CASE writer' = "none" /\ operation' = Ends(operation)
    BY <1>1, <2>1, <2>2, EndsIs
  <2>3. CASE UNCHANGED writer /\ operation' = [operation EXCEPT !.store = TRUE, !.pc = "acting"]
    <3>1. operation'.pc = "acting" /\ operation'.store /\ operation'.doubt = operation.doubt
      BY <1>1, <2>3 DEF IsOperation
    <3> QED BY <2>1, <2>3, <3>1
  <2> QED BY <1>4, <2>2, <2>3 DEF ContextOpened
<1>5. CASE ContextActs
  <2>1. operation.pc = "acting" /\ UNCHANGED <<writer, hydration, collided, active, tasksHeld>>
    BY <1>5 DEF ContextActs, operationFrame
  <2>2. operation'.pc = "closing" /\ operation'.store = operation.store
    <3>1. CASE operation' = Ends(operation)
      BY <1>1, <3>1, EndsIs
    <3>2. CASE \E doubt \in BOOLEAN : operation' = [Ends(operation) EXCEPT !.doubt = doubt]
      <4> HIDE DEF Ends
      <4> QED BY <1>1, <3>2, EndsIs DEF IsOperation
    <3> QED BY <1>5, <3>1, <3>2 DEF ContextActs, Resume, Compact, Confirm
  <2> QED BY <2>1, <2>2
<1>6. CASE ContextCloses
  <2>1. operation.pc = "closing" /\ UNCHANGED <<active, tasksHeld>>
    BY <1>6 DEF ContextCloses, operationFrame
  <2>2. PICK closed \in BOOLEAN :
          /\ ~closed => operation.store
          /\ IF closed /\ ~operation.doubt
             THEN operation' = NoOperation /\ ReadsAgain
             ELSE /\ operation' = [operation EXCEPT !.pc = "held", !.doubt = TRUE, !.store = ~closed]
                  /\ writer' = IF closed THEN "none" ELSE writer
                  /\ UNCHANGED <<hydration, collided>>
    BY <1>6 DEF ContextCloses
  <2>3. writer # "hydration" /\ active.pc = "none" /\ ~active.store /\ ~tasksHeld
    BY <2>1
  <2>4. CASE closed /\ ~operation.doubt
    <3> HIDE DEF Control, RunIsSound, OperationIsSound
    <3> QED BY <2>1, <2>2, <2>3, <2>4, ControlOfReadsAgain, ConstantsAreSound DEF Control
  <2>5. CASE ~(closed /\ ~operation.doubt)
    <3>1. (~closed) \in BOOLEAN
      OBVIOUS
    <3>2. operation'.pc = "held" /\ operation'.store = ~closed /\ operation'.doubt
      BY <1>1, <2>2, <2>5, <3>1 DEF IsOperation
    <3> QED BY <1>1, <2>1, <2>2, <2>3, <2>5, <3>2
  <2> QED BY <2>4, <2>5
<1> QED BY <1>2, <1>3, <1>4, <1>5, <1>6

LEMMA ControlOfHost ==
  ASSUME Typed, Control, Interrupt \/ SetMaintenance \/ Shutdown \/ Crash
  PROVE  Control'
<1> USE DEF Control, Running, Operating, Waits
<1>1. CASE Interrupt \/ Shutdown
  <2>1. Aborts /\ UNCHANGED <<writer, hydration, tasksHeld, collided>>
    BY <1>1 DEF Interrupt, Shutdown, ownerFrame
  <2>2. /\ SameRun(active, active') /\ operation'.pc = operation.pc
        /\ operation'.store = operation.store /\ operation'.doubt = operation.doubt
    BY <2>1, AbortsIs
  <2> QED BY <2>1, <2>2 DEF SameRun, RunIsSound, OperationIsSound
<1>2. CASE SetMaintenance
  BY <1>2 DEF SetMaintenance, ownerFrame
<1>3. CASE Crash
  <2>1. /\ active' = NoRun /\ operation' = NoOperation /\ writer' = "hydration" /\ tasksHeld' = FALSE
        /\ hydration' = [pc |-> "opening", of |-> "none", strict |-> TRUE] /\ UNCHANGED collided
    BY <1>3 DEF Crash
  <2> QED BY <2>1, ConstantsAreSound
<1> QED BY <1>1, <1>2, <1>3

LEMMA ControlInit == Init => Control
BY ConstantsAreSound DEF Init, Control, Running, Operating, Waits

LEMMA ControlStep == ASSUME Typed, Control, Worker, [Next]_vars PROVE Control'
<1>1. CASE UNCHANGED vars
  <2>1. UNCHANGED <<active, operation, hydration, writer, tasksHeld, collided>>
    BY <1>1 DEF vars, hostVars
  <2> QED BY <2>1 DEF Control, Running, Operating, Waits
<1> QED BY <1>1, ControlOfReads, ControlOfStarts, ControlOfWork, ControlOfOperations, ControlOfHost DEF Next

-----------------------------------------------------------------------------
(* A worker is at rest, at work or given up.                               *)

LEMMA WorkerStays ==
  ASSUME Worker, UNCHANGED <<loop, port, delta, late, h>>, active.pc # "working",
         GivenUp => GivenUp', active'.pc # "working"
  PROVE  Worker'
BY DEF Worker, EndIsConfirmed, AtRest

LEMMA SettledStays ==
  ASSUME Typed, NEW r \in Requests, h.settled = "unconfirmed", PortStep(r) \/ DeltaShown
  PROVE  h'.settled = "unconfirmed" /\ UNCHANGED <<loop, effects>>
<1>1. WorkerTyped /\ IsAccount(h)
  BY DEF Typed, WorkerTyped
<1>2. CASE DeltaShown
  BY <1>1, <1>2, CheckedIs DEF DeltaShown
<1>3. CASE PortStep(r)
  <2>1. PICK at \in ServedAts : Served(r, at)
    BY <1>3, PortStepIs
  <2>2. PICK a : (a = AccountAt(at) \/ ErrorAt(at, a)) /\ h' = Checked(a, Idle, delta)
    BY <1>1, <2>1, ServedIs
  <2>3. IsAccount(a) /\ a.settled = h.settled
    BY <1>1, <2>2, AccountAtIs
  <2>4. UNCHANGED <<loop, effects>>
    BY <1>1, <2>1, ServedIs
  <2> QED BY <2>2, <2>3, <2>4, CheckedIs
<1> QED BY <1>2, <1>3

LEMMA WorkerOfRun ==
  ASSUME Typed, Control, Worker,
         RunStep \/ CommandInDoubt \/ Worked \/ CloseAll \/ CloseStore \/ EndRun \/ Release
  PROVE  Worker'
<1>1. CASE RunStep
  <2>1. /\ active'.pc = active.pc /\ active'.result = active.result /\ active'.tasksOnly = active.tasksOnly
        /\ active'.doubt = (active.doubt \/ h'.unclosed) /\ active.req \in Requests /\ WorkerStep(active.req)
        /\ active.pc = "working" \/ (h.settled = "unconfirmed" /\ (PortStep(active.req) \/ DeltaShown))
    BY <1>1, RunStepIs
  <2>2. EndIsConfirmed'
    BY <2>1, WorkerEnds DEF Worker
  <2>3. CASE active.pc # "working"
    <3>1. GivenUp
      BY <2>1, <2>3, AtRestIs DEF Worker
    <3>2. h'.settled = "unconfirmed"
      BY <2>1, <2>3, SettledStays
    <3> QED BY <2>1, <2>2, <3>1, <3>2 DEF Worker, GivenUp
  <2> QED BY <2>1, <2>2, <2>3 DEF Worker
<1>2. CASE CommandInDoubt
  <2>1. active.pc = "working" /\ active'.pc = active.pc /\ h'.done = h.done /\ h'.exited = h.exited
        /\ h'.settled = h.settled /\ UNCHANGED <<loop, port, delta>>
    BY <1>2, CommandInDoubtIs
  <2> QED BY <2>1 DEF Worker, EndIsConfirmed
<1>3. CASE Worked
  <2>1. /\ active.pc = "working" /\ h.settled # "no" /\ active'.pc = "closing"
        /\ active'.tasksOnly = active.tasksOnly /\ Settle
        /\ h.settled = "unconfirmed" => active'.doubt /\ active'.result = "failed"
    BY <1>3, WorkedIs
  <2>2. ~active'.tasksOnly
    BY <2>1 DEF Control, RunIsSound
  <2>3. /\ h'.settled = (IF h.settled = "unconfirmed" THEN "unconfirmed" ELSE "no")
        /\ ~h'.exited /\ (loop'.process = "starting" => loop'.at = "begin" \/ UNCHANGED loop)
        /\ /\ h.settled # "unconfirmed" /\ port.stage # "open" /\ delta # "open"
           /\ loop.process \notin {"starting", "alive"}
           => AtRest'
    BY <2>1, SettleIs DEF Typed
  <2>4. h.settled \in {"no", "resolved", "rejected", "unconfirmed"}
    BY DEF Typed, WorkerTyped, IsAccount
  <2>5. EndIsConfirmed'
    BY <2>3 DEF Worker, EndIsConfirmed
  <2>6. CASE h.settled = "unconfirmed"
    BY <2>1, <2>2, <2>3, <2>5, <2>6 DEF Worker, GivenUp, Ended
  <2>7. CASE h.settled # "unconfirmed"
    BY <2>1, <2>3, <2>4, <2>5, <2>7 DEF Worker, EndIsConfirmed
  <2> QED BY <2>6, <2>7
<1>4. CASE CloseAll
  <2>1. GivenUp => GivenUp'
    BY <1>4, CloseAllIs DEF GivenUp, Ended
  <2> QED BY <1>4, <2>1, CloseAllIs, WorkerStays
<1>5. CASE CloseStore
  <2>1. GivenUp => GivenUp'
    BY <1>5, CloseStoreIs DEF GivenUp, Ended
  <2> QED BY <1>5, <2>1, CloseStoreIs, WorkerStays
<1>6. CASE EndRun
  <2>1. GivenUp => GivenUp'
    BY <1>6, EndRunIs DEF GivenUp, Ended
  <2>2. active.pc = "tasks" /\ active'.pc # "working" /\ UNCHANGED <<loop, port, delta, late, h>>
    BY <1>6, EndRunIs, ConstantsAreSound
  <2> QED BY <2>1, <2>2, WorkerStays
<1>7. CASE Release
  <2>1. active.pc = "held" /\ active.tasksOnly /\ active' = NoRun /\ UNCHANGED <<loop, port, delta, late, h>>
    BY <1>7 DEF Release, workerVars
  <2> QED BY <2>1, WorkerStays, ConstantsAreSound DEF GivenUp
<1> QED BY <1>1, <1>2, <1>3, <1>4, <1>5, <1>6, <1>7

LEMMA WorkerOfStarts ==
  ASSUME Typed, Control, Worker, StartRun \/ RunOpened \/ Receipts \/ Prepare \/ \E r \in Requests : Send(r)
  PROVE  Worker'
<1>1. IsRun(active) /\ WorkerTyped
  BY DEF Typed, HostTyped
<1>2. CASE \E r \in Requests : Send(r)
  <2>1. AtRest'
    BY <1>2 DEF Send, AtRest
  <2>2. EndIsConfirmed'
    <3>1. h' = Account /\ loop' = NoLoop
      BY <2>1 DEF AtRest
    <3> QED BY <3>1 DEF EndIsConfirmed, Account, NoLoop
  <2> QED BY <2>1, <2>2 DEF Worker
<1>3. CASE StartRun \/ RunOpened \/ Receipts
  <2>1. active.pc \in Early /\ UNCHANGED <<loop, port, delta, late, h>>
    BY <1>3 DEF StartRun, RunOpened, Receipts, workerVars, Early
  <2>2. active'.pc # "working"
    <3>1. CASE active' = Thrown(active)
      BY <1>1, <2>1, <3>1, ThrownIs, <1>3 DEF StartRun, RunOpened, Receipts
    <3>2. CASE active' = [active EXCEPT !.pc = "opening"]
      BY <1>1, <3>2 DEF IsRun
    <3>3. CASE active' = [active EXCEPT !.store = TRUE, !.pc = "receipts"]
      BY <1>1, <3>3 DEF IsRun
    <3>4. CASE active' = [active EXCEPT !.store = TRUE, !.identity = TRUE, !.pc = "preparing"]
      BY <1>1, <3>4 DEF IsRun
    <3>5. CASE active' = Thrown([active EXCEPT !.store = TRUE])
      <4> DEFINE a == [active EXCEPT !.store = TRUE]
      <4>1. a.pc \in {"opening", "reopening"} \/ a.pc = active.pc
        BY <1>1 DEF IsRun
      <4>2. active'.pc = "closing"
        BY <1>1, <3>5 DEF Thrown, IsRun
      <4> QED BY <4>2
    <3>6. CASE active' = [active EXCEPT !.pc = "closing", !.result = IF ledger[active.req] = "completed" THEN "success" ELSE "failed"]
      BY <1>1, <3>6 DEF IsRun
    <3>7. CASE active' = [active EXCEPT !.pc = "reopening", !.store = FALSE]
      BY <1>1, <3>7 DEF IsRun
    <3> HIDE DEF Thrown
    <3> QED BY <1>3, <3>1, <3>2, <3>3, <3>4, <3>5, <3>6, <3>7 DEF StartRun, RunOpened, Receipts
  <2> QED BY <2>1, <2>2, WorkerStays DEF GivenUp, Early, Ended
<1>4. CASE Prepare
  <2>1. active.pc = "preparing"
    BY <1>4 DEF Prepare
  <2>2. AtRest
    BY <2>1 DEF Worker, GivenUp, Ended
  <2>3. CASE \E tasks \in BOOLEAN : active' = Thrown([active EXCEPT !.tasks = tasks]) /\ UNCHANGED <<ledger, poisoned, effects, workerVars>>
    <3>1. active'.pc = "closing" /\ UNCHANGED <<loop, port, delta, late, h>>
      BY <1>1, <2>3 DEF Thrown, IsRun, workerVars
    <3> QED BY <2>1, <2>2, <3>1, WorkerStays DEF GivenUp, Ended
  <2>4. CASE active' = [active EXCEPT !.tasks = TRUE, !.pc = "working"] /\ Fork
    <3>1. active'.pc = "working"
      BY <1>1, <2>4 DEF IsRun
    <3>2. EndIsConfirmed'
      BY <1>1, <2>2, <2>4, ForkIs, AtRestIs DEF EndIsConfirmed, SameLoop, AtRest
    <3> QED BY <3>1, <3>2 DEF Worker
  <2> QED BY <1>4, <2>3, <2>4 DEF Prepare
<1> QED BY <1>2, <1>3, <1>4

LEMMA WorkerInvInit == Init => Worker
<1> SUFFICES ASSUME Init PROVE Worker
  OBVIOUS
<1>1. AtRest
  BY DEF Init, WorkerInit, AtRest
<1>2. EndIsConfirmed
  BY <1>1 DEF AtRest, EndIsConfirmed, Account, NoLoop
<1> QED BY <1>1, <1>2 DEF Worker

LEMMA WorkerInvStep == ASSUME Typed, Control, Worker, [Next]_vars PROVE Worker'
<1>1. CASE UNCHANGED <<loop, port, delta, late, h, active>>
  BY <1>1 DEF Worker, EndIsConfirmed, AtRest, GivenUp
<1>2. CASE UNCHANGED vars
  BY <1>1, <1>2 DEF vars, workerVars, hostVars
<1>3. CASE Read \/ HydrationFails \/ HydrationOpens \/ HydrationDecides
  BY <1>1, <1>3 DEF Read, HydrationFails, HydrationOpens, HydrationDecides, workerVars
<1>4. CASE ContextStart \/ ContextOpens \/ ContextOpened \/ ContextActs \/ ContextCloses
  BY <1>1, <1>4 DEF ContextStart, ContextOpens, ContextOpened, ContextActs, ContextCloses, operationFrame, workerVars
<1>5. CASE SetMaintenance
  BY <1>1, <1>5 DEF SetMaintenance, ownerFrame
<1>6. CASE Interrupt \/ Shutdown
  <2>1. Aborts /\ UNCHANGED <<loop, port, delta, late>>
    BY <1>6 DEF Interrupt, Shutdown, ownerFrame
  <2>2. /\ SameRun(active, active') /\ h'.done = h.done /\ h'.exited = h.exited /\ h'.settled = h.settled
        /\ (active.pc # "working" => h' = h)
    BY <2>1, AbortsIs
  <2> QED BY <2>1, <2>2 DEF Worker, EndIsConfirmed, AtRest, GivenUp, SameRun
<1>7. CASE Crash
  <2>1. AtRest'
    BY <1>7 DEF Crash, AtRest
  <2>2. EndIsConfirmed'
    <3>1. h' = Account /\ loop' = NoLoop
      BY <2>1 DEF AtRest
    <3> QED BY <3>1 DEF EndIsConfirmed, Account, NoLoop
  <2> QED BY <2>1, <2>2 DEF Worker
<1> QED BY <1>2, <1>3, <1>4, <1>5, <1>6, <1>7, WorkerOfRun, WorkerOfStarts DEF Next

-----------------------------------------------------------------------------
(* What has been carried out.                                              *)

LEMMA EffectsOfWorker ==
  ASSUME Typed, EndIsConfirmed, Once, NEW r \in Requests, CallsOf(r), WorkerStep(r)
  PROVE  Once' /\ CallsOf(r)'
<1>1. WorkerTyped /\ loop.round \in Nat /\ effects \in [Requests -> [1 .. MaxRounds -> Nat]]
  BY DEF Typed, WorkerTyped, IsLoop
<1> USE DEF CallsOf, CallIsFresh, Fresh, Alive
<1>2. CASE LoopTurns
  <2>1. /\ UNCHANGED <<ledger, effects, port>> /\ loop'.round = loop.round /\ port.stage = "idle"
        /\ loop.at # "begin" /\ loop'.at \in {"completed", "finished"}
    BY <1>1, <1>2, LoopTurnsIs DEF Interruptible
  <2> QED BY <2>1 DEF Once, Nothing
<1>3. CASE LoopSends
  <2>1. /\ UNCHANGED <<ledger, effects>> /\ Alive /\ port.stage = "idle" /\ port'.stage = "sent" /\ loop'.at = loop.at
        /\ loop'.process = loop.process /\ loop'.round = IF loop.at = "started" THEN loop.round + 1 ELSE loop.round
    BY <1>1, <1>3, LoopSendsIs
  <2>2. Once'
    BY <2>1 DEF Once, Nothing
  <2>3. CASE loop.at = "started"
    <3>1. \A n \in 1 .. MaxRounds : n > loop'.round \/ n = loop'.round => n > loop.round
      BY <1>1, <2>1, <2>3
    <3> QED BY <2>1, <2>2, <2>3, <3>1
  <2>4. CASE loop.at # "started"
    BY <2>1, <2>2, <2>4
  <2> QED BY <2>3, <2>4
<1>4. CASE ModelAnswers
  <2>1. /\ UNCHANGED <<ledger, effects, port>> /\ loop'.round = loop.round
        /\ loop.at = "generate" /\ loop'.at \in {"failure", "response"}
    BY <1>1, <1>4, ModelAnswersIs
  <2> QED BY <2>1 DEF Once, Nothing
<1>5. CASE ReplyArrives
  <2>1. UNCHANGED <<ledger, effects>> /\ port.stage = "replied" /\ port'.stage = "idle" /\ loop'.round = loop.round
        /\ ReplyIs(loop') /\ loop.at \in ServedAts
    <3>1. /\ UNCHANGED <<ledger, effects>> /\ port.stage = "replied" /\ port' = Idle
          /\ ReplyIs(loop') /\ loop.at \in ServedAts
      BY <1>1, <1>5, ReplyArrivesIs
    <3>2. loop'.round = loop.round
      BY <3>1 DEF ReplyIs
    <3>3. port'.stage = "idle"
      BY <3>1 DEF Idle
    <3> QED BY <3>1, <3>2, <3>3
  <2>2. /\ loop'.at = "begin" => loop.at = "begin"
        /\ loop.at = "begin" /\ loop'.at # "begin" => port.value = "ok"
        /\ loop'.at \in Fresh => loop.at \in Fresh \cup {"started"}
        /\ loop'.at = "execute" => loop.at = "prepared"
    BY <2>1 DEF ReplyIs, ServedAts, Ats
  <2> QED BY <2>1, <2>2 DEF Once, Nothing
<1>6. CASE Quiet
  <2>1. UNCHANGED <<ledger, effects, port>> /\ SameLoop(loop, loop')
        /\ (Alive' => Alive \/ loop.process = "starting")
    BY <1>1, <1>6, QuietIs
  <2> QED BY <2>1 DEF Once, Nothing, SameLoop, EndIsConfirmed
<1>7. CASE WorkerExits
  <2>1. /\ UNCHANGED <<ledger, effects, loop>> /\ loop.process \in {"over", "dead"}
        /\ port'.stage = (IF port.stage = "open" THEN "open" ELSE "idle")
    BY <1>1, <1>7, WorkerExitsIs
  <2> QED BY <2>1 DEF Once, Nothing
<1>8. CASE TakeRequest(r)
  <2>1. /\ port.stage = "sent" /\ UNCHANGED <<ledger, loop>> /\ port'.stage \in {"lost", "replied", "open"}
        /\ port'.stage = "replied" => port'.value = "error"
        /\ \/ UNCHANGED effects
           \/ loop.at = "execute" /\ effects' = [effects EXCEPT ![r][loop.round] = @ + 1]
    BY <1>1, <1>8, TakeRequestIs
  <2>2. CASE UNCHANGED effects
    BY <2>1, <2>2 DEF Once, Nothing
  <2>3. CASE loop.at = "execute" /\ effects' = [effects EXCEPT ![r][loop.round] = @ + 1]
    <3>1. \A q \in Requests : \A n \in 1 .. MaxRounds :
            effects'[q][n] = IF q = r /\ n = loop.round THEN effects[q][n] + 1 ELSE effects[q][n]
      BY <1>1, <2>3, CarriedOut
    <3>2. \A n \in 1 .. MaxRounds : n = loop.round => effects[r][n] = 0
      BY <2>1, <2>3
    <3>3. \A q \in Requests : \A n \in 1 .. MaxRounds : effects'[q][n] <= 1
      <4> SUFFICES ASSUME NEW q \in Requests, NEW n \in 1 .. MaxRounds
                   PROVE  effects'[q][n] <= 1
        OBVIOUS
      <4>1. CASE q = r /\ n = loop.round
        BY <3>1, <3>2, <4>1
      <4>2. CASE ~(q = r /\ n = loop.round)
        <5>1. effects'[q][n] = effects[q][n]
          BY <3>1, <4>2
        <5>2. effects[q][n] <= 1
          BY DEF Once
        <5> QED BY <5>1, <5>2
      <4> QED BY <4>1, <4>2
    <3>4. \A q \in Requests : ledger'[q] = "none" => Nothing(q)'
      <4>1. ledger[r] # "none"
        BY <2>3
      <4> SUFFICES ASSUME NEW q \in Requests, ledger'[q] = "none", NEW n \in 1 .. MaxRounds
                   PROVE  effects'[q][n] = 0
        BY DEF Nothing
      <4>2. ledger[q] = "none" /\ q # r
        BY <2>1, <4>1
      <4>3. effects[q][n] = 0
        <5>1. Nothing(q)
          BY <4>2 DEF Once
        <5> QED BY <5>1 DEF Nothing
      <4> QED BY <3>1, <4>2, <4>3
    <3>5. Once'
      BY <3>3, <3>4 DEF Once
    <3>6. \A n \in 1 .. MaxRounds : n > loop.round => effects'[r][n] = 0
      BY <1>1, <3>1
    <3> QED BY <2>1, <2>3, <3>5, <3>6
  <2> QED BY <2>1, <2>2, <2>3
<1>9. CASE TakeDelta
  <2>1. UNCHANGED <<ledger, effects, loop, port>>
    BY <1>1, <1>9, TakeDeltaIs
  <2> QED BY <2>1 DEF Once, Nothing
<1>10. CASE PortStep(r)
  <2>1. PICK at \in ServedAts : Served(r, at)
    BY <1>10, PortStepIs
  <2>2. /\ port.stage = "open" /\ loop.at = at /\ UNCHANGED <<effects, loop>>
        /\ port'.stage \in {"replied", "lost"}
        /\ \A q \in Requests : q # r => ledger'[q] = ledger[q]
        /\ ledger'[r] = ledger[r] \/ (at \in Appending /\ ledger'[r] = SaysAt(r, at))
        /\ port'.value = "ok" /\ at \in Appending => ledger'[r] = SaysAt(r, at)
    BY <1>1, <2>1, ServedIs
  <2>3. ledger'[r] = "none" => ledger[r] = "none"
    BY <1>1, <2>2, SaysAtIs
  <2>4. Once'
    BY <2>2, <2>3 DEF Once, Nothing
  <2>5. at = "begin" /\ port'.value = "ok" => ledger'[r] = "running"
    BY <1>1, <2>2, SaysAtIs DEF Appending
  <2> QED BY <2>2, <2>3, <2>4, <2>5
<1> QED BY <1>2, <1>3, <1>4, <1>5, <1>6, <1>7, <1>8, <1>9, <1>10, WorkerSteps

-----------------------------------------------------------------------------
(* The steps that start a run, field by field.                             *)

LEMMA SendIs ==
  ASSUME NEW r \in Requests, Send(r)
  PROVE  /\ ~has /\ active'.pc = "waiting" /\ active'.req = r /\ active'.result = "failed"
         /\ ~active'.doubt /\ ~active'.failed /\ ~active'.identity
         /\ told'.result = "none" /\ AtRest'
         /\ UNCHANGED <<ledger, writer, poisoned, effects, operation, hydration, recovery, acknowledged,
                        marked, tasksHeld, maintenance, exiting, crashes, collided, lifted>>
<1>1. active' = [NoRun EXCEPT !.req = r, !.pc = "waiting"] /\ told' = [req |-> NONE, result |-> "none"]
  BY DEF Send
<1>2. /\ active'.pc = "waiting" /\ active'.req = r /\ active'.result = "failed"
      /\ ~active'.doubt /\ ~active'.failed /\ ~active'.identity /\ told'.result = "none"
  BY <1>1 DEF NoRun
<1>3. AtRest'
  BY DEF Send, AtRest
<1> QED BY <1>2, <1>3 DEF Send

\* what the steps before the worker leave of the entry
Kept(a, b) == b.req = a.req /\ b.doubt = a.doubt /\ b.tasksOnly = a.tasksOnly
Failed(b) == b.pc = "closing" /\ b.failed /\ b.result = "failed"

LEMMA StartRunIs ==
  ASSUME Typed, StartRun
  PROVE  /\ active.pc = "waiting" /\ Kept(active, active') /\ active'.identity = active.identity
         /\ Failed(active') \/ (active'.pc = "opening" /\ active'.failed = active.failed /\ active'.result = active.result)
         /\ UNCHANGED <<ledger, poisoned, effects, loop, port, delta, late, h, recovery, acknowledged, marked,
                        operation, hydration, tasksHeld, maintenance, exiting, crashes, told, lifted>>
<1>1. IsRun(active)
  BY DEF Typed, HostTyped
<1>2. active.pc = "waiting" /\ UNCHANGED <<ledger, poisoned, effects, loop, port, delta, late, h, recovery, acknowledged, marked,
                        operation, hydration, tasksHeld, maintenance, exiting, crashes, told, lifted>>
  BY DEF StartRun, workerVars, runFrame
<1>3. CASE active' = Thrown(active)
  <2>1. Kept(active, active') /\ active'.identity = active.identity /\ Failed(active')
    BY <1>1, <1>2, <1>3, ThrownIs DEF Kept, Failed
  <2> QED BY <1>2, <2>1
<1>4. CASE active' = [active EXCEPT !.pc = "opening"]
  BY <1>1, <1>2, <1>4 DEF Kept, IsRun
<1> QED BY <1>3, <1>4 DEF StartRun

LEMMA RunOpenedIs ==
  ASSUME Typed, RunOpened
  PROVE  /\ active.pc \in {"opening", "reopening"} /\ Kept(active, active')
         /\ \/ Failed(active') /\ active'.identity = active.identity /\ UNCHANGED <<ledger, poisoned, marked>>
            \/ /\ OpensJournal
               /\ \/ Failed(active') /\ active'.identity = active.identity
                  \/ /\ active'.failed = active.failed /\ active'.result = active.result
                     /\ active'.pc = IF active.pc = "opening" THEN "receipts" ELSE "preparing"
         /\ UNCHANGED <<effects, loop, port, delta, late, h, recovery, acknowledged,
                        operation, hydration, tasksHeld, maintenance, exiting, crashes, told, lifted>>
<1>1. IsRun(active)
  BY DEF Typed, HostTyped
<1>2. active.pc \in {"opening", "reopening"}
      /\ UNCHANGED <<effects, loop, port, delta, late, h, recovery, acknowledged,
                     operation, hydration, tasksHeld, maintenance, exiting, crashes, told, lifted>>
  BY DEF RunOpened, workerVars, runFrame
<1>3. CASE active' = Thrown(active) /\ UNCHANGED <<ledger, poisoned, marked>>
  <2>1. Kept(active, active') /\ active'.identity = active.identity /\ Failed(active')
    BY <1>1, <1>2, <1>3, ThrownIs DEF Kept, Failed
  <2> QED BY <1>2, <1>3, <2>1
<1>4. CASE /\ OpensJournal
           /\ active' = IF active.pc = "opening" THEN [active EXCEPT !.store = TRUE, !.pc = "receipts"]
                        ELSE IF RunCurrent THEN [active EXCEPT !.store = TRUE, !.identity = TRUE, !.pc = "preparing"]
                        ELSE Thrown([active EXCEPT !.store = TRUE])
  <2> DEFINE a == [active EXCEPT !.store = TRUE]
  <2>1. IsRun(a) /\ a.pc = active.pc /\ Kept(active, a) /\ a.identity = active.identity
    BY <1>1 DEF IsRun, Kept
  <2>2. CASE active' = Thrown(a)
    <3> HIDE DEF a
    <3>1. Kept(active, active') /\ active'.identity = active.identity /\ Failed(active')
      BY <1>2, <2>1, <2>2, ThrownIs DEF Kept, Failed
    <3> HIDE DEF OpensJournal
    <3> QED BY <1>2, <1>4, <3>1
  <2>3. CASE active.pc = "opening" /\ active' = [active EXCEPT !.store = TRUE, !.pc = "receipts"]
    <3>1. Kept(active, active') /\ active'.failed = active.failed /\ active'.result = active.result /\ active'.pc = "receipts"
      BY <1>1, <2>3 DEF Kept, IsRun
    <3> HIDE DEF OpensJournal
    <3> QED BY <1>2, <1>4, <2>3, <3>1
  <2>4. CASE active.pc # "opening" /\ active' = [active EXCEPT !.store = TRUE, !.identity = TRUE, !.pc = "preparing"]
    <3>1. Kept(active, active') /\ active'.failed = active.failed /\ active'.result = active.result /\ active'.pc = "preparing"
      BY <1>1, <2>4 DEF Kept, IsRun
    <3> HIDE DEF OpensJournal
    <3> QED BY <1>2, <1>4, <2>4, <3>1
  <2> HIDE DEF OpensJournal, Thrown, RunCurrent
  <2> QED BY <1>4, <2>2, <2>3, <2>4
<1> QED BY <1>3, <1>4 DEF RunOpened

LEMMA ReceiptsIs ==
  ASSUME Typed, Receipts
  PROVE  /\ active.pc = "receipts" /\ Kept(active, active') /\ active'.identity = active.identity
         /\ recovery' = (recovery \/ Required)
         /\ \/ Failed(active')
            \/ /\ active'.pc = "closing" /\ active'.failed = active.failed
               /\ active'.result = IF ledger[active.req] = "completed" THEN "success" ELSE "failed"
            \/ /\ active'.pc = "reopening" /\ active'.failed = active.failed /\ active'.result = active.result
               /\ ledger[active.req] = "none" /\ ~recovery'
         /\ UNCHANGED <<ledger, writer, poisoned, effects, loop, port, delta, late, h, acknowledged, marked,
                        operation, hydration, tasksHeld, maintenance, exiting, crashes, told, lifted>>
<1>1. IsRun(active)
  BY DEF Typed, HostTyped
<1>2. active.pc = "receipts" /\ recovery' = (recovery \/ Required)
      /\ UNCHANGED <<ledger, writer, poisoned, effects, loop, port, delta, late, h, acknowledged, marked,
                     operation, hydration, tasksHeld, maintenance, exiting, crashes, told, lifted>>
  BY DEF Receipts, workerVars, runFrame
<1> HIDE DEF Required
<1>3. CASE active' = Thrown(active)
  <2>1. Kept(active, active') /\ active'.identity = active.identity /\ Failed(active')
    BY <1>1, <1>2, <1>3, ThrownIs DEF Kept, Failed
  <2> QED BY <1>2, <2>1
<1>4. CASE active' = [active EXCEPT !.pc = "closing",
                        !.result = IF ledger[active.req] = "completed" THEN "success" ELSE "failed"]
  BY <1>1, <1>2, <1>4 DEF Kept, IsRun
<1>5. CASE active' = [active EXCEPT !.pc = "reopening", !.store = FALSE] /\ ledger[active.req] = "none" /\ ~recovery'
  BY <1>1, <1>2, <1>5 DEF Kept, IsRun
<1> QED BY <1>3, <1>4, <1>5 DEF Receipts

LEMMA PrepareIs ==
  ASSUME Typed, Prepare
  PROVE  /\ active.pc = "preparing" /\ Kept(active, active') /\ active'.identity = active.identity
         /\ \/ Failed(active') /\ UNCHANGED <<loop, port, delta, late, h>>
            \/ active'.pc = "working" /\ active'.failed = active.failed /\ active'.result = active.result /\ Fork
         /\ UNCHANGED <<ledger, writer, poisoned, effects, recovery, acknowledged, marked, operation, hydration,
                        tasksHeld, maintenance, exiting, crashes, told, lifted>>
<1>1. IsRun(active)
  BY DEF Typed, HostTyped
<1>2. active.pc = "preparing"
      /\ UNCHANGED <<writer, recovery, acknowledged, marked, operation, hydration, tasksHeld, maintenance, exiting, crashes, told, lifted>>
  BY DEF Prepare
<1>3. CASE \E tasks \in BOOLEAN : active' = Thrown([active EXCEPT !.tasks = tasks]) /\ UNCHANGED <<ledger, poisoned, effects, workerVars>>
  <2>1. PICK tasks \in BOOLEAN : active' = Thrown([active EXCEPT !.tasks = tasks])
    BY <1>3
  <2> DEFINE a == [active EXCEPT !.tasks = tasks]
  <2>2. IsRun(a) /\ a.pc = active.pc /\ Kept(active, a) /\ a.identity = active.identity
    BY <1>1 DEF IsRun, Kept
  <2> HIDE DEF a
  <2>3. Kept(active, active') /\ active'.identity = active.identity /\ Failed(active')
    BY <1>2, <2>1, <2>2, ThrownIs DEF Kept, Failed, a
  <2> QED BY <1>2, <1>3, <2>3 DEF workerVars
<1>4. CASE active' = [active EXCEPT !.tasks = TRUE, !.pc = "working"] /\ Fork
  <2>1. UNCHANGED <<ledger, poisoned, effects>>
    BY <1>4 DEF Fork
  <2>2. /\ Kept(active, active') /\ active'.identity = active.identity /\ active'.pc = "working"
        /\ active'.failed = active.failed /\ active'.result = active.result
    BY <1>1, <1>4 DEF IsRun, Kept
  <2> HIDE DEF Fork
  <2> QED BY <1>2, <1>4, <2>1, <2>2
<1> QED BY <1>3, <1>4 DEF Prepare

SameCalls == /\ UNCHANGED effects
             /\ \A r \in Requests : ledger'[r] = "none" <=> ledger[r] = "none"

LEMMA OpensJournalCalls ==
  ASSUME Typed, OpensJournal, UNCHANGED effects
  PROVE  SameCalls
BY OpensJournalIs DEF Typed, HostTyped, SameCalls

LEMMA EffectsStay ==
  ASSUME Effects, Typed, SameCalls, active'.pc # "none" => active'.req \in Requests,
         active'.pc \in {"reopening", "preparing"} =>
           active.pc \in {"reopening", "preparing"} /\ active'.req = active.req,
         active'.pc = "working" =>
           active.pc = "working" /\ active'.req = active.req /\ UNCHANGED <<loop, port>>
  PROVE  Effects'
<1>1. Once'
  BY DEF Effects, SameCalls, Once, Nothing
<1>2. active'.pc = "working" => CallsOf(active.req)'
  <2> SUFFICES ASSUME active'.pc = "working" PROVE CallsOf(active.req)'
    OBVIOUS
  <2>1. active.pc = "working" /\ active'.req = active.req /\ UNCHANGED <<loop, port>> /\ active.req \in Requests
    OBVIOUS
  <2>2. CallsOf(active.req)
    BY <2>1 DEF Effects
  <2> QED BY <2>1, <2>2 DEF SameCalls, CallsOf, CallIsFresh, Alive
<1>3. active'.pc \in {"reopening", "preparing"} => ledger'[active'.req] = "none"
  BY DEF Effects, SameCalls
<1> QED BY <1>1, <1>2, <1>3 DEF Effects

LEMMA EffectsOfStarts ==
  ASSUME Typed, Typed', Worker, Effects, StartRun \/ RunOpened \/ Receipts \/ Prepare \/ \E r \in Requests : Send(r)
  PROVE  Effects'
<1>1. active'.pc # "none" => active'.req \in Requests
  BY DEF Typed, HostTyped, IsRun
<1> USE DEF Failed, Kept
<1>2. CASE \E r \in Requests : Send(r)
  BY <1>1, <1>2, SendIs, EffectsStay DEF SameCalls
<1>3. CASE StartRun
  BY <1>1, <1>3, StartRunIs, EffectsStay DEF SameCalls
<1>4. CASE RunOpened
  <2>1. /\ active'.req = active.req /\ active'.pc \in {"closing", "receipts", "preparing"}
        /\ active.pc \in {"opening", "reopening"} /\ (active'.pc = "preparing" => active.pc = "reopening")
        /\ UNCHANGED ledger \/ OpensJournal
        /\ UNCHANGED effects
    BY <1>4, RunOpenedIs
  <2>2. SameCalls
    BY <2>1, OpensJournalCalls DEF SameCalls
  <2> QED BY <1>1, <2>1, <2>2, EffectsStay
<1>5. CASE Receipts
  <2>1. /\ active'.req = active.req /\ active'.pc \in {"closing", "reopening"}
        /\ UNCHANGED <<ledger, effects>>
        /\ active'.pc = "reopening" => ledger[active.req] = "none"
    BY <1>5, ReceiptsIs
  <2>2. Once'
    BY <2>1 DEF Effects, Once, Nothing
  <2> QED BY <2>1, <2>2 DEF Effects
<1>6. CASE Prepare
  <2>1. CASE active'.pc # "working"
    <3>1. active'.pc = "closing" /\ UNCHANGED <<ledger, effects>>
      BY <1>6, <2>1, PrepareIs
    <3> QED BY <1>1, <3>1, EffectsStay DEF SameCalls
  <2>2. CASE active'.pc = "working"
    <3>1. active.pc = "preparing" /\ active'.req = active.req /\ Fork /\ UNCHANGED <<ledger, effects>>
      BY <1>6, <2>2, PrepareIs
    <3>2. AtRest
      BY <3>1 DEF Worker, GivenUp, Ended
    <3>3. loop'.at = "begin" /\ loop'.round = 0 /\ port'.stage = "idle"
      BY <3>1, <3>2, ForkIs, AtRestIs DEF Typed, SameLoop
    <3>4. Once'
      BY <3>1 DEF Effects, Once, Nothing
    <3>5. Nothing(active.req)'
      BY <1>1, <2>2, <3>1 DEF Effects, Once, Nothing
    <3>6. CallsOf(active.req)'
      BY <3>3, <3>5 DEF CallsOf, CallIsFresh, Fresh, Nothing
    <3> QED BY <2>2, <3>4, <3>6 DEF Effects
  <2> QED BY <2>1, <2>2
<1> QED BY <1>2, <1>3, <1>4, <1>5, <1>6

LEMMA EffectsOfRun ==
  ASSUME Typed, Typed', Control, Worker, Effects,
         RunStep \/ CommandInDoubt \/ Worked \/ CloseAll \/ CloseStore \/ EndRun \/ Release
  PROVE  Effects'
<1>1. active'.pc # "none" => active'.req \in Requests
  BY DEF Typed, HostTyped, IsRun
<1>2. CASE RunStep
  <2>1. /\ active'.pc = active.pc /\ active'.req = active.req /\ active.req \in Requests /\ WorkerStep(active.req)
        /\ active.pc = "working" \/ (h.settled = "unconfirmed" /\ (PortStep(active.req) \/ DeltaShown))
    BY <1>2, RunStepIs
  <2>2. CASE active.pc = "working"
    <3>1. PICK r \in Requests : r = active.req
      BY <2>1
    <3>2. Once' /\ CallsOf(r)'
      BY <2>1, <2>2, <3>1, EffectsOfWorker DEF Effects, Worker
    <3> QED BY <2>1, <2>2, <3>1, <3>2 DEF Effects
  <2>3. CASE active.pc # "working"
    <3>1. active'.pc \notin {"reopening", "preparing", "working"}
      BY <2>1, <2>3, AtRestIs DEF Worker, GivenUp, Ended
    <3>2. UNCHANGED effects
      BY <2>1, <2>3, SettledStays
    <3>3. \A q \in Requests : ledger'[q] = "none" => ledger[q] = "none"
      <4>1. CASE DeltaShown
        BY <4>1 DEF DeltaShown
      <4>2. CASE PortStep(active.req)
        <5>1. PICK at \in ServedAts : Served(active.req, at)
          BY <2>1, <4>2, PortStepIs
        <5> QED BY <2>1, <5>1, ServedIs, SaysAtIs DEF Typed
      <4> QED BY <2>1, <2>3, <4>1, <4>2
    <3>4. Once'
      BY <3>2, <3>3 DEF Effects, Once, Nothing
    <3> QED BY <3>1, <3>4 DEF Effects
  <2> QED BY <2>2, <2>3
<1>3. CASE CommandInDoubt
  BY <1>1, <1>3, CommandInDoubtIs, EffectsStay DEF SameCalls
<1>4. CASE Worked
  <2>1. active'.pc = "closing" /\ UNCHANGED <<ledger, effects>>
    BY <1>4, WorkedIs
  <2> QED BY <1>1, <2>1, EffectsStay DEF SameCalls
<1>5. CASE CloseAll
  BY <1>1, <1>5, CloseAllIs, EffectsStay DEF SameCalls
<1>6. CASE CloseStore
  BY <1>1, <1>6, CloseStoreIs, EffectsStay DEF SameCalls
<1>7. CASE EndRun
  <2>1. active'.pc \in {"held", "none"} /\ UNCHANGED <<ledger, effects>>
    BY <1>7, EndRunIs, ConstantsAreSound
  <2> QED BY <1>1, <2>1, EffectsStay DEF SameCalls
<1>8. CASE Release
  <2>1. active'.pc = "none" /\ UNCHANGED <<ledger, effects>>
    BY <1>8, ConstantsAreSound DEF Release
  <2> QED BY <1>1, <2>1, EffectsStay DEF SameCalls
<1> QED BY <1>2, <1>3, <1>4, <1>5, <1>6, <1>7, <1>8

\* what an operation on the journal makes of it
LEMMA ContextActsIs ==
  ASSUME Typed, ContextActs
  PROVE  /\ operation.pc = "acting" /\ operation'.pc = "closing" /\ operation'.store = operation.store
         /\ UNCHANGED <<writer, hydration, collided, effects, loop, port, delta, late, h, active,
                        tasksHeld, maintenance, exiting, crashes, told, lifted>>
         /\ \A r \in Requests : ledger'[r] # ledger[r] => ledger[r] = "safe" /\ ledger'[r] = "resolved"
         /\ \/ (recovery => recovery') /\ (acknowledged => acknowledged')
            \/ \A r \in Requests : ledger[r] # "doubt"
<1>1. IsOperation(operation)
  BY DEF Typed, HostTyped
<1>2. operation.pc = "acting"
      /\ UNCHANGED <<writer, hydration, collided, effects, loop, port, delta, late, h, active,
                     tasksHeld, maintenance, exiting, crashes, told, lifted>>
  BY DEF ContextActs, operationFrame, workerVars
<1>3. operation'.pc = "closing" /\ operation'.store = operation.store
  <2>1. CASE operation' = Ends(operation)
    BY <1>1, <2>1, EndsIs
  <2>2. CASE \E doubt \in BOOLEAN : operation' = [Ends(operation) EXCEPT !.doubt = doubt]
    <3> HIDE DEF Ends
    <3> QED BY <1>1, <2>2, EndsIs DEF IsOperation
  <2> QED BY <2>1, <2>2 DEF ContextActs, Resume, Compact, Confirm
<1>4. \A r \in Requests : ledger'[r] # ledger[r] => ledger[r] = "safe" /\ ledger'[r] = "resolved"
  <2>1. \A r \in Requests : Resolved[r] = IF ledger[r] = "safe" THEN "resolved" ELSE ledger[r]
    BY DEF Resolved
  <2> HIDE DEF Resolved
  <2> QED BY <2>1 DEF ContextActs, Resume, Compact, Confirm
<1>5. \/ (recovery => recovery') /\ (acknowledged => acknowledged')
      \/ \A r \in Requests : ledger[r] # "doubt"
  BY DEF ContextActs, Resume, Compact, Confirm
<1> QED BY <1>2, <1>3, <1>4, <1>5

LEMMA EffectsInit == Init => Effects
<1> SUFFICES ASSUME Init PROVE Effects
  OBVIOUS
<1>1. Once
  BY DEF Init, Once, Nothing
<1> QED BY <1>1, ConstantsAreSound DEF Init, Effects

LEMMA EffectsStep == ASSUME Typed, Control, Worker, Effects, [Next]_vars PROVE Effects'
<1>0. Typed'
  BY TypedStep
<1>1. active'.pc # "none" => active'.req \in Requests
  BY <1>0 DEF Typed, HostTyped, IsRun
<1>2. CASE UNCHANGED <<ledger, effects, active, loop, port>>
  BY <1>1, <1>2, EffectsStay DEF SameCalls
<1>3. CASE UNCHANGED vars
  BY <1>2, <1>3 DEF vars, workerVars, hostVars
<1>4. CASE Read \/ HydrationFails \/ HydrationDecides
  BY <1>2, <1>4 DEF Read, HydrationFails, HydrationDecides, workerVars
<1>5. CASE HydrationOpens
  <2>1. OpensJournal /\ UNCHANGED <<effects, active, loop, port>>
    BY <1>5 DEF HydrationOpens, workerVars
  <2>2. SameCalls
    BY <2>1, OpensJournalCalls
  <2> QED BY <1>1, <2>1, <2>2, EffectsStay
<1>6. CASE ContextStart \/ ContextOpens \/ ContextCloses
  BY <1>2, <1>6 DEF ContextStart, ContextOpens, ContextCloses, operationFrame, workerVars
<1>7. CASE ContextOpened
  <2>1. UNCHANGED ledger \/ OpensJournal
    BY <1>7 DEF ContextOpened
  <2>2. UNCHANGED <<effects, active, loop, port>>
    BY <1>7 DEF ContextOpened, operationFrame, workerVars
  <2>3. SameCalls
    BY <2>1, <2>2, OpensJournalCalls DEF SameCalls
  <2> QED BY <1>1, <2>2, <2>3, EffectsStay
<1>8. CASE ContextActs
  <2>1. SameCalls /\ UNCHANGED <<effects, active, loop, port>>
    BY <1>8, ContextActsIs DEF SameCalls
  <2> QED BY <1>1, <2>1, EffectsStay
<1>9. CASE SetMaintenance
  BY <1>2, <1>9 DEF SetMaintenance, ownerFrame
<1>10. CASE Interrupt \/ Shutdown
  <2>1. Aborts /\ UNCHANGED <<ledger, effects, loop, port>>
    BY <1>10 DEF Interrupt, Shutdown, ownerFrame
  <2>2. SameRun(active, active')
    BY <2>1, AbortsIs
  <2> QED BY <1>1, <2>1, <2>2, EffectsStay DEF SameRun, SameCalls
<1>11. CASE Crash
  <2>1. active'.pc = "none" /\ UNCHANGED <<ledger, effects>>
    BY <1>11, ConstantsAreSound DEF Crash
  <2> QED BY <1>1, <2>1, EffectsStay DEF SameCalls
<1> QED BY <1>0, <1>3, <1>4, <1>5, <1>6, <1>7, <1>8, <1>9, <1>10, <1>11, EffectsOfStarts, EffectsOfRun DEF Next

-----------------------------------------------------------------------------
(* What the sender is told.                                                *)

LEMMA EndOfWorker ==
  ASSUME Typed, NEW r \in Requests, EndOf(r), WorkerStep(r)
  PROVE  EndOf(r)'
<1>1. WorkerTyped
  BY DEF Typed
<1> USE DEF EndOf
<1> HIDE DEF Verdict
<1>2. CASE LoopTurns
  <2>1. /\ UNCHANGED <<ledger, port, h>> /\ port.stage = "idle" /\ loop.at # "done"
        /\ loop'.at = "completed" \/ (loop'.at = "finished" /\ loop'.stop = "cancelled")
    BY <1>1, <1>2, LoopTurnsIs DEF Interruptible
  <2> QED BY <2>1
<1>3. CASE LoopSends
  <2>1. UNCHANGED <<ledger, h>> /\ port'.stage = "sent" /\ loop'.at = loop.at /\ loop'.stop = loop.stop
    BY <1>1, <1>3, LoopSendsIs
  <2> QED BY <2>1
<1>4. CASE ModelAnswers
  <2>1. UNCHANGED <<ledger, h>> /\ loop.at = "generate" /\ loop'.at \in {"failure", "response"}
    BY <1>1, <1>4, ModelAnswersIs
  <2> QED BY <2>1
<1>5. CASE ReplyArrives
  <2>1. /\ UNCHANGED <<ledger, h>> /\ port.stage = "replied" /\ port' = Idle /\ ReplyIs(loop') /\ loop.at \in ServedAts
    BY <1>1, <1>5, ReplyArrivesIs
  <2>2. port'.stage = "idle" /\ loop.at # "done"
    BY <2>1 DEF Idle, ServedAts
  <2>3. /\ loop'.at = "done" => \/ loop'.stop = "lost"
                                \/ loop.at = "finished" /\ port.value = "ok" /\ loop'.stop = loop.stop
        /\ loop'.at = "finished" => loop'.stop # "none"
    BY <2>1, <2>2 DEF ReplyIs, ServedAts, Ats
  <2> QED BY <2>1, <2>2, <2>3
<1>6. CASE Quiet
  <2>1. UNCHANGED <<ledger, port>> /\ SameLoop(loop, loop') /\ h'.done = h.done
    BY <1>1, <1>6, QuietIs
  <2> QED BY <2>1 DEF SameLoop
<1>7. CASE WorkerExits
  <2>1. UNCHANGED <<ledger, loop>> /\ h'.done = h.done /\ port'.stage \in {"open", "idle"}
    BY <1>1, <1>7, WorkerExitsIs
  <2> QED BY <2>1
<1>8. CASE TakeRequest(r)
  <2>1. /\ port.stage = "sent" /\ UNCHANGED <<ledger, loop>> /\ port'.stage \in {"lost", "replied", "open"}
        /\ port'.stage = "replied" => port'.value = "error" /\ loop.at \in Refusable
        /\ h'.done = h.done \/ (loop.at = "done" /\ h'.done = loop.stop)
    <3>1. h' = (IF loop.at = "execute" THEN [h EXCEPT !.tool = "executing"] ELSE h) => h'.done = h.done
      BY <1>1 DEF WorkerTyped, IsAccount
    <3> QED BY <1>1, <1>8, <3>1, TakeRequestIs DEF Breaks
  <2> QED BY <2>1 DEF Refusable
<1>9. CASE TakeDelta
  <2>1. UNCHANGED <<ledger, loop, port>> /\ h'.done = h.done
    BY <1>1, <1>9, TakeDeltaIs DEF Breaks
  <2> QED BY <2>1
<1>10. CASE PortStep(r)
  <2>1. PICK at \in ServedAts : Served(r, at)
    BY <1>10, PortStepIs
  <2>2. PICK a : (a = AccountAt(at) \/ ErrorAt(at, a)) /\ h' = Checked(a, Idle, delta)
    BY <1>1, <2>1, ServedIs
  <2>3. h'.done = h.done
    BY <1>1, <2>2, AccountAtIs, CheckedIs
  <2>4. /\ loop.at = at /\ UNCHANGED loop
        /\ port'.value = "ok" /\ at \in Appending => ledger'[r] = SaysAt(r, at)
    BY <1>1, <2>1, ServedIs
  <2>5. at = "finished" /\ port'.value = "ok" => ledger'[r] = Verdict(loop.stop)
    BY <1>1, <2>4, SaysAtIs DEF Appending
  <2>6. Verdict(loop.stop)' = Verdict(loop.stop)
    BY <2>4 DEF Verdict
  <2> QED BY <2>3, <2>4, <2>5, <2>6 DEF ServedAts
<1> QED BY <1>2, <1>3, <1>4, <1>5, <1>6, <1>7, <1>8, <1>9, <1>10, WorkerSteps

\* what is completed stays so when a journal is opened or acted upon
Completes == \A r \in Requests : ledger[r] = "completed" => ledger'[r] = "completed"

LEMMA OpensJournalCompletes == ASSUME Typed, OpensJournal PROVE Completes
BY OpensJournalIs DEF Typed, HostTyped, Completes

LEMMA AnsweredOfStarts ==
  ASSUME Typed, Typed', Control, Worker, AnswersFollow,
         StartRun \/ RunOpened \/ Receipts \/ Prepare \/ \E r \in Requests : Send(r)
  PROVE  AnswersFollow'
<1>1. /\ active'.pc # "none" => active'.req \in Requests
      /\ active.pc # "none" => active.req \in Requests
      /\ told.req \in Requests \cup {NONE}
  BY DEF Typed, HostTyped, IsRun
<1> USE DEF Failed, Kept
<1>2. CASE \E r \in Requests : Send(r)
  <2>1. active'.pc = "waiting" /\ active'.result = "failed" /\ told'.result = "none"
    BY <1>2, SendIs
  <2> QED BY <2>1 DEF AnswersFollow
<1>3. CASE StartRun \/ RunOpened \/ Receipts \/ Prepare
  <2>1. /\ active.pc \in Early \ {"none"} /\ UNCHANGED told
        /\ active'.pc \in {"closing", "opening", "receipts", "preparing", "reopening", "working"}
        /\ active'.req = active.req
        /\ active'.result = "success" => active.result = "success" \/ (ledger[active.req] = "completed" /\ UNCHANGED ledger)
        /\ UNCHANGED ledger \/ OpensJournal
        /\ active'.pc = "working" => Fork /\ active'.result = active.result /\ active'.failed = active.failed
    BY <1>3, StartRunIs, RunOpenedIs, ReceiptsIs, PrepareIs DEF Early
  <2>2. active.result = "failed" /\ ~active.failed /\ told.result = "none"
    BY <2>1 DEF Control, RunIsSound, AnswersFollow, Early
  <2>3. active'.pc = "working" => EndOf(active.req)'
    <3> SUFFICES ASSUME active'.pc = "working" PROVE EndOf(active.req)'
      OBVIOUS
    <3>1. AtRest
      BY <2>1 DEF Worker, GivenUp, Ended, Early
    <3>2. loop'.at = "begin" /\ port'.stage = "idle" /\ h'.done = "none"
      BY <2>1, <3>1, ForkIs, AtRestIs DEF Typed, SameLoop
    <3> QED BY <3>2 DEF EndOf
  <2>4. active'.pc = "working" => EndOf(active.req)' /\ active'.result = "failed" /\ ~active'.failed
    BY <2>1, <2>2, <2>3
  <2>5. active'.result = "success" => ledger'[active'.req] = "completed"
    BY <1>1, <2>1, <2>2
  <2>6. told'.result = "none"
    BY <2>1, <2>2
  <2> QED BY <2>1, <2>4, <2>5, <2>6 DEF AnswersFollow
<1> QED BY <1>2, <1>3

LEMMA AnsweredOfRun ==
  ASSUME Typed, Typed', Control, Control', Worker, AnswersFollow,
         RunStep \/ CommandInDoubt \/ Worked \/ CloseAll \/ CloseStore \/ EndRun \/ Release
  PROVE  AnswersFollow'
<1>1. /\ active'.pc # "none" => active'.req \in Requests
      /\ active.pc # "none" => active.req \in Requests
      /\ told.req \in Requests \cup {NONE}
  BY DEF Typed, HostTyped, IsRun
<1>2. CASE RunStep
  <2>1. /\ active'.pc = active.pc /\ active'.req = active.req /\ active.req \in Requests /\ WorkerStep(active.req)
        /\ active'.result = active.result /\ active'.failed = active.failed /\ active.pc # "none"
        /\ active.pc = "working" \/ (h.settled = "unconfirmed" /\ (PortStep(active.req) \/ DeltaShown))
        /\ UNCHANGED told
    BY <1>2, RunStepIs
  <2>2. PICK r \in Requests : r = active.req
    BY <2>1
  <2>3. CASE active.pc = "working"
    <3>1. EndOf(r)'
      BY <2>1, <2>2, <2>3, EndOfWorker DEF AnswersFollow
    <3> QED BY <2>1, <2>2, <2>3, <3>1 DEF AnswersFollow
  <2>4. CASE active.pc # "working"
    <3>1. GivenUp
      BY <2>1, <2>4, AtRestIs DEF Worker
    <3>2. told.result # "success" /\ active.result = "failed"
      BY <3>1 DEF AnswersFollow, GivenUp
    <3> QED BY <2>1, <2>4, <3>2 DEF AnswersFollow
  <2> QED BY <2>3, <2>4
<1>3. CASE CommandInDoubt
  <2>1. /\ active.pc = "working" /\ active'.pc = active.pc /\ active'.req = active.req
        /\ active'.failed = active.failed /\ active'.result = active.result
        /\ h'.done = h.done /\ UNCHANGED <<ledger, loop, port, told>>
    BY <1>3, CommandInDoubtIs
  <2>2. EndOf(active.req)'
    BY <2>1 DEF AnswersFollow, EndOf
  <2> QED BY <2>1, <2>2 DEF AnswersFollow
<1>4. CASE Worked
  <2>1. /\ active.pc = "working" /\ active'.pc = "closing" /\ active'.req = active.req
        /\ active'.result = "success" => h.settled = "resolved" /\ h.done = "completed"
        /\ UNCHANGED <<ledger, told>>
    BY <1>4, WorkedIs
  <2>2. h.done = "completed" => ledger[active.req] = "completed"
    BY <2>1 DEF AnswersFollow, EndOf, Verdict
  <2>3. told.result = "none"
    BY <2>1 DEF AnswersFollow
  <2> QED BY <2>1, <2>2, <2>3 DEF AnswersFollow
<1>5. CASE CloseAll \/ CloseStore
  <2>1. /\ active.pc \in {"closing", "storing"} /\ active'.pc \in {"storing", "tasks"} /\ active'.req = active.req
        /\ active'.result = active.result /\ UNCHANGED <<ledger, told>>
    BY <1>5, CloseAllIs, CloseStoreIs
  <2> QED BY <2>1 DEF AnswersFollow
<1>6. CASE EndRun
  <2>1. /\ active.pc = "tasks" /\ active.req \in Requests /\ told'.req = active.req /\ UNCHANGED <<ledger, h>>
        /\ \/ /\ active'.pc = "held" /\ active'.req = active.req /\ active'.result = active.result
              /\ active'.tasksOnly = ~active.doubt
              /\ told'.result = IF active.doubt THEN "failed" ELSE active.result
           \/ active' = NoRun /\ told'.result = active.result
    BY <1>6, EndRunIs
  <2>2. CASE active'.pc = "held"
    <3>1. /\ active'.req = active.req /\ active'.result = active.result
          /\ active'.tasksOnly = ~active.doubt
          /\ told'.result = IF active.doubt THEN "failed" ELSE active.result
      BY <2>1, <2>2, ConstantsAreSound
    <3> QED BY <2>1, <2>2, <3>1 DEF AnswersFollow, GivenUp
  <2>3. CASE active'.pc # "held"
    <3>1. active'.pc = "none" /\ told'.result = active.result
      BY <2>1, <2>3, ConstantsAreSound
    <3> QED BY <2>1, <3>1 DEF AnswersFollow, GivenUp, Ended
  <2> QED BY <2>2, <2>3
<1>7. CASE Release
  <2>1. active'.pc = "none" /\ UNCHANGED <<ledger, told>>
    BY <1>7, ConstantsAreSound DEF Release
  <2> QED BY <2>1 DEF AnswersFollow, GivenUp, Ended
<1> QED BY <1>2, <1>3, <1>4, <1>5, <1>6, <1>7

LEMMA AnsweredInit == Init => AnswersFollow
BY ConstantsAreSound DEF Init, AnswersFollow

LEMMA AnsweredStep == ASSUME Typed, Control, Worker, AnswersFollow, [Next]_vars PROVE AnswersFollow'
<1>0. Typed' /\ Control'
  BY TypedStep, ControlStep
<1>1. /\ active'.pc # "none" => active'.req \in Requests
      /\ active.pc # "none" => active.req \in Requests
      /\ told.req \in Requests \cup {NONE}
  BY <1>0 DEF Typed, HostTyped, IsRun
<1>2. CASE UNCHANGED <<ledger, told, active, loop, port, h>>
  BY <1>2 DEF AnswersFollow, EndOf, GivenUp
<1>3. CASE UNCHANGED vars
  BY <1>2, <1>3 DEF vars, workerVars, hostVars
<1>4. CASE Read \/ HydrationFails \/ HydrationDecides
  BY <1>2, <1>4 DEF Read, HydrationFails, HydrationDecides, workerVars
<1>5. CASE ContextStart \/ ContextOpens \/ ContextCloses
  BY <1>2, <1>5 DEF ContextStart, ContextOpens, ContextCloses, operationFrame, workerVars
<1>6. CASE HydrationOpens \/ ContextOpened \/ ContextActs
  <2>1. UNCHANGED <<told, active, loop, port, h>> /\ active.pc # "working"
    BY <1>6 DEF HydrationOpens, ContextOpened, ContextActs, operationFrame, workerVars, Control, Waits,
                Running, Operating
  <2>2. Completes
    BY <1>6, OpensJournalCompletes, ContextActsIs DEF HydrationOpens, ContextOpened, Completes
  <2>3. (told.req \in Requests /\ ledger[told.req] = "completed" => ledger'[told.req] = "completed")
        /\ (active.req \in Requests /\ ledger[active.req] = "completed" => ledger'[active.req] = "completed")
    BY <2>2 DEF Completes
  <2>4. told.result = "success" => told.req \in Requests
    BY DEF AnswersFollow
  <2> QED BY <1>1, <2>1, <2>3, <2>4 DEF AnswersFollow, GivenUp
<1>7. CASE SetMaintenance
  BY <1>2, <1>7 DEF SetMaintenance, ownerFrame
<1>8. CASE Interrupt \/ Shutdown
  <2>1. Aborts /\ UNCHANGED <<ledger, told, loop, port>>
    BY <1>8 DEF Interrupt, Shutdown, ownerFrame
  <2>2. SameRun(active, active') /\ h'.done = h.done /\ h'.settled = h.settled
    BY <2>1, AbortsIs
  <2> QED BY <2>1, <2>2 DEF AnswersFollow, EndOf, GivenUp, SameRun
<1>9. CASE Crash
  <2>1. active'.pc = "none" /\ UNCHANGED <<ledger, told>>
    BY <1>9, ConstantsAreSound DEF Crash
  <2> QED BY <2>1 DEF AnswersFollow, GivenUp, Ended
<1> QED BY <1>0, <1>3, <1>4, <1>5, <1>6, <1>7, <1>8, <1>9, AnsweredOfStarts, AnsweredOfRun DEF Next

-----------------------------------------------------------------------------
(* What is in doubt is known to be.                                        *)

Everywhere == recovery \/ acknowledged \/ lifted \/ exiting \/ hydration.strict
Owns == Running /\ (active.pc = "working" \/ active.doubt \/ (active.failed /\ active.identity))
Reads == (hydration.pc = "reading" /\ hydration.of # "run") \/ operation.store
Open == {"running", "prepared"}
Unsure == {"prepared", "doubt"}

LEMMA DoubtsStay ==
  ASSUME Doubts,
         \A r \in Requests : ledger'[r] \in Unsure => ledger[r] \in Unsure,
         Everywhere => Everywhere',
         Owns => Everywhere' \/ (Owns' /\ active'.req = active.req),
         hydration'.of = "run" =>
           hydration.of = "run" /\ (recovery => recovery') /\ (active.doubt => active'.doubt \/ recovery'),
         Reads' => Reads,
         Reads' => \A r \in Requests : ledger'[r] \in Open => ledger[r] \in Open
  PROVE  Doubts'
<1>1. \A r \in Requests : InDoubt(r)' => Known(r)'
  <2> SUFFICES ASSUME NEW r \in Requests, InDoubt(r)' PROVE Known(r)'
    OBVIOUS
  <2>1. Known(r)
    BY DEF Doubts, InDoubt, Unsure
  <2> QED BY <2>1 DEF Known, Everywhere, Owns
<1>2. hydration'.of = "run" => recovery' \/ active'.doubt
  BY DEF Doubts
<1>3. Reads' => \A r \in Requests : ledger'[r] \notin {"running", "prepared"}
  BY DEF Doubts, Reads, Open
<1> QED BY <1>1, <1>2, <1>3 DEF Doubts, Reads

\* opening a journal leaves nothing that is open, and what is in doubt in doubt
LEMMA OpensJournalDoubts ==
  ASSUME Typed, OpensJournal
  PROVE  /\ \A r \in Requests : ledger'[r] \in Unsure <=> ledger[r] \in Unsure
         /\ \A r \in Requests : ledger'[r] \notin Open
BY OpensJournalIs DEF Typed, HostTyped, Unsure, Open

LEMMA DoubtsOfReads ==
  ASSUME Typed, Control, Doubts, Read \/ HydrationFails \/ HydrationOpens \/ HydrationDecides
  PROVE  Doubts'
<1>1. NoHydration.pc = "none" /\ NoHydration.of = "none" /\ ~NoHydration.strict
  BY DEF NoHydration
<1>2. IsHydration(hydration)
  BY DEF Typed, HostTyped
<1>3. CASE Read
  <2>1. /\ hydration.pc = "none" /\ ~Live /\ Presentable /\ hydration'.of = Target /\ ~hydration'.strict
        /\ hydration'.pc = (IF Target = "none" THEN "opening" ELSE "reading")
        /\ UNCHANGED <<ledger, active, operation, recovery, acknowledged, tasksHeld, exiting, lifted>>
    BY <1>3 DEF Read, StartHydration
  <2>2. ~hydration.strict /\ hydration.of = "none"
    BY <2>1 DEF Control
  <2>3. \A r \in Requests : InDoubt(r)' => Known(r)'
    BY <2>1, <2>2 DEF Doubts, InDoubt, Known, Running
  <2>4. hydration'.of = "run" => recovery' \/ active'.doubt
    BY <2>1 DEF Target, Live, Control, RunIsSound, Running
  <2>5. Reads' => operation.store
    BY <2>1 DEF Reads, Target, Presentable
  <2>6. Reads' => \A r \in Requests : ledger'[r] \notin {"running", "prepared"}
    BY <2>1, <2>5 DEF Doubts
  <2> QED BY <2>3, <2>4, <2>6 DEF Doubts, Reads
<1>4. CASE HydrationFails
  <2>1. /\ hydration' = NoHydration /\ recovery' = (recovery \/ hydration.strict)
        /\ UNCHANGED <<ledger, active, operation, acknowledged, exiting, lifted>>
    BY <1>4 DEF HydrationFails
  <2> QED BY <1>1, <2>1, DoubtsStay DEF Everywhere, Owns, Running, Reads
<1>5. CASE HydrationOpens
  <2>1. /\ OpensJournal /\ hydration.pc = "opening" /\ hydration' = [hydration EXCEPT !.pc = "reading"]
        /\ UNCHANGED <<active, operation, recovery, acknowledged, exiting, lifted>>
    BY <1>5 DEF HydrationOpens
  <2>2. hydration'.of = hydration.of /\ hydration'.strict = hydration.strict
    BY <1>2, <2>1 DEF IsHydration
  <2>3. \A r \in Requests : InDoubt(r)' => Known(r)'
    BY <2>1, <2>2, OpensJournalDoubts DEF Doubts, InDoubt, Known, Running, Unsure
  <2>4. \A r \in Requests : ledger'[r] \notin {"running", "prepared"}
    BY <2>1, OpensJournalDoubts DEF Open
  <2> QED BY <2>1, <2>2, <2>3, <2>4 DEF Doubts
<1>6. CASE HydrationDecides
  <2>1. /\ hydration.pc = "reading" /\ hydration' = NoHydration
        /\ UNCHANGED <<ledger, active, operation, exiting>>
        /\ IF Required THEN recovery' = TRUE
           ELSE IF OwnerDoubt THEN UNCHANGED <<recovery, acknowledged, lifted>>
           ELSE lifted' = (lifted \/ (recovery /\ hydration.of = "run"))
    BY <1>6 DEF HydrationDecides
  <2>2. operation'.store => \A r \in Requests : ledger'[r] \notin {"running", "prepared"}
    BY <2>1 DEF Doubts
  <2>3. \A r \in Requests : InDoubt(r)' => Known(r)'
    <3>1. CASE Required
      BY <2>1, <3>1 DEF Known
    <3>2. CASE ~Required /\ hydration.of # "run"
      <4>1. \A r \in Requests : ledger[r] \notin {"prepared", "doubt"}
        BY <2>1, <3>2 DEF Required, Blocked, Doubts
      <4> QED BY <2>1, <4>1 DEF InDoubt
    <3>3. CASE ~Required /\ hydration.of = "run" /\ OwnerDoubt
      <4>1. active.doubt
        BY <3>3 DEF OwnerDoubt
      <4>2. ~hydration.strict
        BY <4>1 DEF Control, RunIsSound, Waits, Early
      <4>3. UNCHANGED <<recovery, acknowledged, lifted>>
        BY <2>1, <3>3
      <4> QED BY <2>1, <4>2, <4>3 DEF Doubts, InDoubt, Known, Running
    <3>4. CASE ~Required /\ hydration.of = "run" /\ ~OwnerDoubt
      <4>1. ~active.doubt
        BY <3>4 DEF OwnerDoubt
      <4>2. recovery
        BY <3>4, <4>1 DEF Doubts
      <4>3. lifted'
        BY <2>1, <3>4, <4>2
      <4> QED BY <4>3 DEF Known
    <3> QED BY <3>1, <3>2, <3>3, <3>4
  <2> QED BY <1>1, <2>1, <2>2, <2>3 DEF Doubts
<1> QED BY <1>3, <1>4, <1>5, <1>6

LEMMA DoubtsOfStarts ==
  ASSUME Typed, Control, Worker, Doubts,
         StartRun \/ RunOpened \/ Receipts \/ Prepare \/ \E r \in Requests : Send(r)
  PROVE  Doubts'
<1> USE DEF Failed, Kept
<1>1. CASE \E r \in Requests : Send(r)
  <2>1. /\ active.pc = "none" /\ UNCHANGED <<ledger, operation, hydration, recovery, acknowledged, exiting, lifted>>
    BY <1>1, SendIs DEF has, Running
  <2>2. ~Owns /\ ~active.doubt
    BY <2>1 DEF Owns, Running, Control, RunIsSound, Early
  <2> QED BY <2>1, <2>2, DoubtsStay DEF Everywhere, Reads
<1>2. CASE StartRun \/ RunOpened \/ Receipts \/ Prepare
  <2>1. /\ active.pc \in Early \ {"none"} /\ active'.req = active.req /\ active'.doubt = active.doubt
        /\ recovery => recovery'
        /\ UNCHANGED ledger \/ OpensJournal
        /\ UNCHANGED <<operation, hydration, acknowledged, exiting, lifted>>
    <3>1. CASE StartRun
      BY <3>1, StartRunIs DEF Early
    <3>2. CASE RunOpened
      BY <3>2, RunOpenedIs DEF Early
    <3>3. CASE Receipts
      BY <3>3, ReceiptsIs DEF Early
    <3>4. CASE Prepare
      BY <3>4, PrepareIs DEF Early
    <3> QED BY <1>2, <3>1, <3>2, <3>3, <3>4
  <2>2. ~Owns
    BY <2>1 DEF Owns, Control, RunIsSound, Early
  <2>3. /\ \A r \in Requests : ledger'[r] \in Unsure => ledger[r] \in Unsure
        /\ \A r \in Requests : ledger'[r] \in Open => ledger[r] \in Open
    BY <2>1, OpensJournalDoubts
  <2> QED BY <2>1, <2>2, <2>3, DoubtsStay DEF Everywhere, Reads
<1> QED BY <1>1, <1>2

LEMMA DoubtsOfWork ==
  ASSUME Typed, Control, Worker, AnswersFollow, Doubts, RunStep \/ CommandInDoubt \/ Worked \/ CloseAll \/ CloseStore
  PROVE  Doubts'
<1>1. CASE RunStep
  <2>1. /\ active'.pc = active.pc /\ active'.req = active.req /\ active.req \in Requests
        /\ active'.doubt = (active.doubt \/ h'.unclosed) /\ active.pc # "none"
        /\ active'.failed = active.failed /\ active'.identity = active.identity
        /\ active.pc = "working" \/ (h.settled = "unconfirmed" /\ (PortStep(active.req) \/ DeltaShown))
        /\ WorkerStep(active.req)
        /\ UNCHANGED <<operation, hydration, recovery, acknowledged, exiting, lifted>>
    BY <1>1, RunStepIs
  <2>2. active.pc = "working" \/ active.doubt
    BY <2>1, AtRestIs DEF Worker, GivenUp
  <2>3. \A q \in Requests : q # active.req => ledger'[q] = ledger[q]
    <3>1. CASE PortStep(active.req)
      <4>1. PICK at \in ServedAts : Served(active.req, at)
        BY <2>1, <3>1, PortStepIs
      <4> QED BY <2>1, <4>1, ServedIs DEF Typed
    <3>2. CASE ~PortStep(active.req)
      <4>1. UNCHANGED ledger
        BY <2>1, <3>2, WorkerSteps, LoopTurnsIs, LoopSendsIs, ModelAnswersIs, ReplyArrivesIs, QuietIs,
           WorkerExitsIs, TakeRequestIs, TakeDeltaIs DEF Typed
      <4> QED BY <4>1
    <3> QED BY <3>1, <3>2
  <2>4. \A r \in Requests : InDoubt(r)' => Known(r)'
    <3> SUFFICES ASSUME NEW r \in Requests, InDoubt(r)' PROVE Known(r)'
      OBVIOUS
    <3>1. CASE r = active.req
      BY <2>1, <2>2, <3>1 DEF Known, Running
    <3>2. CASE r # active.req
      BY <2>1, <2>3, <3>2 DEF Doubts, InDoubt, Known
    <3> QED BY <3>1, <3>2
  <2>5. active.pc \notin {"none", "waiting"}
    BY <2>1, <2>2 DEF Control, RunIsSound, Early
  <2>6. ~Reads'
    <3>1. ~operation.store
      BY <2>1 DEF Control, Running, Operating, OperationIsSound
    <3>2. ~(hydration.pc = "reading" /\ hydration.of # "run")
      BY <2>5 DEF Control, Waits, Typed, HostTyped, IsHydration
    <3> QED BY <2>1, <3>1, <3>2 DEF Reads
  <2>7. hydration'.of = "run" => recovery' \/ active'.doubt
    BY <2>1 DEF Doubts
  <2> QED BY <2>4, <2>6, <2>7 DEF Doubts, Reads
<1>2. CASE CommandInDoubt
  <2>1. /\ recovery' /\ UNCHANGED <<ledger, operation, hydration>>
    BY <1>2, CommandInDoubtIs
  <2> QED BY <2>1 DEF Doubts, Known
<1>3. CASE Worked
  <2>1. /\ active.pc = "working" /\ h.settled # "no" /\ active'.pc = "closing" /\ active'.req = active.req
        /\ active'.identity = active.identity
        /\ \/ h.settled = "resolved" /\ active'.doubt = active.doubt
           \/ active'.failed /\ (active.doubt => active'.doubt)
        /\ LET lost == h.settled = "resolved" /\ h.done \in {"lost", "recovery_required"}
           IN recovery' = (recovery \/ lost) /\ acknowledged' = (acknowledged /\ ~lost)
        /\ UNCHANGED <<ledger, operation, hydration, exiting, lifted>>
    BY <1>3, WorkedIs
  <2>2. active.identity /\ active.req \in Requests
    BY <2>1 DEF Control, RunIsSound, Typed, HostTyped, IsRun
  <2>3. CASE h.settled = "resolved" /\ h.done \in {"lost", "recovery_required"}
    <3>1. recovery'
      BY <2>1, <2>3
    <3> QED BY <2>1, <3>1 DEF Doubts, Known
  <2>4. CASE ~(h.settled = "resolved" /\ h.done \in {"lost", "recovery_required"})
    <3>1. UNCHANGED <<recovery, acknowledged>>
      <4>1. recovery \in BOOLEAN /\ acknowledged \in BOOLEAN
        BY DEF Typed, HostTyped
      <4> QED BY <2>1, <2>4, <4>1
    <3>2. CASE active'.failed /\ (active.doubt => active'.doubt)
      <4>1. Owns' /\ active'.req = active.req
        BY <2>1, <2>2, <3>2 DEF Owns, Running
      <4> QED BY <2>1, <3>1, <3>2, <4>1, DoubtsStay DEF Everywhere, Reads
    <3>3. CASE h.settled = "resolved" /\ active'.doubt = active.doubt
      <4>1. h.done # "none" /\ h.done = loop.stop /\ loop.at = "done" /\ ledger[active.req] = Verdict(loop.stop)
        BY <2>1, <2>4, <3>3 DEF Worker, EndIsConfirmed, AnswersFollow, EndOf
      <4>2. ledger[active.req] \in {"completed", "ended"}
        BY <2>4, <3>3, <4>1 DEF Verdict
      <4>3. \A r \in Requests : InDoubt(r)' => Known(r)'
        <5> SUFFICES ASSUME NEW r \in Requests, InDoubt(r)' PROVE Known(r)'
          OBVIOUS
        <5>1. r # active.req
          BY <2>1, <4>2 DEF InDoubt
        <5> QED BY <2>1, <3>1, <5>1 DEF Doubts, InDoubt, Known
      <4> QED BY <2>1, <3>1, <3>3, <4>3 DEF Doubts
    <3> QED BY <2>1, <3>2, <3>3
  <2> QED BY <2>3, <2>4
<1>4. CASE CloseAll \/ CloseStore
  <2>1. /\ active.pc \in {"closing", "storing"} /\ active'.pc \in {"storing", "tasks"} /\ active'.req = active.req
        /\ active'.identity = active.identity /\ active'.failed = active.failed
        /\ (active.doubt => active'.doubt) /\ (recovery => recovery')
        /\ UNCHANGED <<ledger, acknowledged, operation, hydration, exiting, lifted>>
    BY <1>4, CloseAllIs, CloseStoreIs
  <2> QED BY <2>1, DoubtsStay DEF Everywhere, Owns, Running, Reads
<1> QED BY <1>1, <1>2, <1>3, <1>4

LEMMA ReadsAgainDoubts ==
  ASSUME Typed, ReadsAgain
  PROVE  /\ exiting \/ hydration'.strict
         /\ hydration'.of \in {hydration.of, "none"}
         /\ (hydration.strict => hydration'.strict)
         /\ hydration'.pc = "reading" => hydration.pc = "reading" /\ hydration'.of = hydration.of
         /\ hydration'.of # "none" => hydration'.of = hydration.of
BY ReadsAgainIs DEF Typed, HostTyped, IsHydration

LEMMA DoubtsOfEnds ==
  ASSUME Typed, Control, Worker, Doubts, EndRun \/ Release
  PROVE  Doubts'
<1>1. CASE EndRun
  <2>1. /\ active.pc = "tasks" /\ (recovery => recovery')
        /\ UNCHANGED <<ledger, operation, acknowledged, exiting, lifted>>
    BY <1>1, EndRunIs
  <2>2. \/ recovery' /\ UNCHANGED <<writer, hydration>>
        \/ /\ active' = NoRun /\ ~active.doubt
           /\ IF active.failed /\ active.identity THEN ReadsAgain ELSE UNCHANGED <<writer, hydration>>
    BY <1>1, EndRunIs
  <2>3. CASE recovery' /\ UNCHANGED hydration
    BY <2>1, <2>3 DEF Doubts, Known
  <2>4. CASE ~active.doubt /\ active.failed /\ active.identity /\ ReadsAgain
    <3>1. Everywhere'
      BY <2>1, <2>4, ReadsAgainDoubts DEF Everywhere
    <3> QED BY <2>1, <2>4, <3>1, ReadsAgainDoubts, DoubtsStay DEF Reads
  <2>5. CASE ~active.doubt /\ ~(active.failed /\ active.identity) /\ UNCHANGED hydration
    <3>1. ~Owns
      BY <2>1, <2>5 DEF Owns
    <3> QED BY <2>1, <2>5, <3>1, DoubtsStay DEF Everywhere, Reads
  <2> QED BY <2>2, <2>3, <2>4, <2>5
<1>2. CASE Release
  <2>1. /\ ReadsAgain /\ hydration.pc = "none"
        /\ UNCHANGED <<ledger, operation, recovery, acknowledged, exiting, lifted>>
    BY <1>2 DEF Release
  <2>2. hydration.of = "none"
    BY <2>1 DEF Control
  <2>3. Everywhere' /\ hydration'.of = "none"
    BY <2>1, <2>2, ReadsAgainDoubts DEF Everywhere
  <2> QED BY <2>1, <2>3, ReadsAgainDoubts, DoubtsStay DEF Reads
<1> QED BY <1>1, <1>2

LEMMA DoubtsOfOperations ==
  ASSUME Typed, Control, Doubts, ContextStart \/ ContextOpens \/ ContextOpened \/ ContextActs \/ ContextCloses
  PROVE  Doubts'
<1>1. IsOperation(operation)
  BY DEF Typed, HostTyped
<1>2. CASE ContextStart \/ ContextOpens
  <2>1. UNCHANGED <<ledger, active, hydration, recovery, acknowledged, exiting, lifted>>
    BY <1>2 DEF ContextStart, ContextOpens, operationFrame
  <2>2. operation'.store => operation.store
    <3>1. CASE ContextStart
      BY <3>1 DEF ContextStart, NoOperation
    <3>2. CASE operation' = Ends(operation)
      BY <1>1, <3>2, EndsIs
    <3>3. CASE operation' = [operation EXCEPT !.pc = "opening"]
      BY <1>1, <3>3 DEF IsOperation
    <3> QED BY <1>2, <3>1, <3>2, <3>3 DEF ContextOpens
  <2> QED BY <2>1, <2>2, DoubtsStay DEF Everywhere, Owns, Running, Reads
<1>3. CASE ContextOpened
  <2>1. operation.pc = "opening" /\ UNCHANGED <<active, hydration, recovery, acknowledged, exiting, lifted>>
    BY <1>3 DEF ContextOpened, operationFrame
  <2>2. CASE operation' = Ends(operation) /\ UNCHANGED ledger
    BY <1>1, <2>1, <2>2, EndsIs, DoubtsStay DEF Everywhere, Owns, Running, Reads
  <2>3. CASE OpensJournal
    <3>1. \A r \in Requests : InDoubt(r)' => Known(r)'
      BY <2>1, <2>3, OpensJournalDoubts DEF Doubts, InDoubt, Known, Running, Unsure
    <3>2. \A r \in Requests : ledger'[r] \notin {"running", "prepared"}
      BY <2>3, OpensJournalDoubts DEF Open
    <3> QED BY <2>1, <3>1, <3>2 DEF Doubts
  <2> QED BY <1>3, <2>2, <2>3 DEF ContextOpened
<1>4. CASE ContextActs
  <2>1. /\ operation.pc = "acting" /\ operation'.store = operation.store
        /\ UNCHANGED <<hydration, active, exiting, lifted>>
        /\ \A r \in Requests : ledger'[r] # ledger[r] => ledger[r] = "safe" /\ ledger'[r] = "resolved"
    BY <1>4, ContextActsIs
  <2>2. operation.store /\ hydration.of # "run"
    BY <2>1 DEF Control, OperationIsSound
  <2>3. /\ \A r \in Requests : ledger'[r] \in Unsure => ledger[r] \in Unsure
        /\ \A r \in Requests : ledger'[r] \in Open => ledger[r] \in Open
    BY <2>1 DEF Unsure, Open
  <2>4. CASE (recovery => recovery') /\ (acknowledged => acknowledged')
    BY <2>1, <2>2, <2>3, <2>4, DoubtsStay DEF Everywhere, Owns, Running, Reads
  <2>5. CASE \A r \in Requests : ledger[r] # "doubt"
    <3>1. \A r \in Requests : ledger[r] \notin Unsure
      BY <2>2, <2>5 DEF Doubts, Unsure
    <3>2. \A r \in Requests : ~InDoubt(r)'
      BY <2>3, <3>1 DEF InDoubt, Unsure
    <3>3. \A r \in Requests : ledger'[r] \notin {"running", "prepared"}
      BY <2>2, <2>3 DEF Doubts, Open
    <3> QED BY <2>1, <2>2, <3>2, <3>3 DEF Doubts
  <2> QED BY <1>4, <2>4, <2>5, ContextActsIs
<1>5. CASE ContextCloses
  <2>1. operation.pc = "closing" /\ UNCHANGED <<ledger, active, exiting, lifted>>
    BY <1>5 DEF ContextCloses, operationFrame
  <2>2. PICK closed \in BOOLEAN :
          /\ ~closed => operation.store
          /\ IF closed /\ ~operation.doubt
             THEN operation' = NoOperation /\ ReadsAgain /\ UNCHANGED <<recovery, acknowledged>>
             ELSE /\ operation' = [operation EXCEPT !.pc = "held", !.doubt = TRUE, !.store = ~closed]
                  /\ recovery' = TRUE /\ UNCHANGED hydration
    BY <1>5 DEF ContextCloses
  <2>3. hydration.of # "run"
    BY <2>1 DEF Control
  <2>4. CASE closed /\ ~operation.doubt
    <3>1. operation' = NoOperation /\ ReadsAgain /\ UNCHANGED <<recovery, acknowledged>>
      BY <2>2, <2>4
    <3>2. Everywhere'
      BY <2>1, <3>1, ReadsAgainDoubts DEF Everywhere
    <3> QED BY <2>1, <2>3, <3>1, <3>2, ReadsAgainDoubts, ConstantsAreSound, DoubtsStay DEF Reads
  <2>5. CASE ~(closed /\ ~operation.doubt)
    <3>1. (~closed) \in BOOLEAN
      OBVIOUS
    <3>2. operation'.store = ~closed /\ recovery' = TRUE /\ UNCHANGED hydration
      BY <1>1, <2>2, <2>5, <3>1 DEF IsOperation
    <3>3. operation'.store => operation.store
      BY <2>2, <3>2
    <3> QED BY <2>1, <2>3, <3>2, <3>3, DoubtsStay DEF Everywhere, Reads
  <2> QED BY <2>4, <2>5
<1> QED BY <1>2, <1>3, <1>4, <1>5

LEMMA DoubtsInit == Init => Doubts
BY ConstantsAreSound DEF Init, Doubts, InDoubt, NoOperation

LEMMA DoubtsStep == ASSUME Typed, Control, Worker, AnswersFollow, Doubts, [Next]_vars PROVE Doubts'
<1>1. CASE UNCHANGED <<ledger, active, operation, hydration, recovery, acknowledged, lifted, exiting>>
  BY <1>1, DoubtsStay DEF Everywhere, Owns, Running, Reads
<1>2. CASE UNCHANGED vars
  BY <1>1, <1>2 DEF vars, hostVars
<1>3. CASE SetMaintenance
  BY <1>1, <1>3 DEF SetMaintenance, ownerFrame
<1>4. CASE Interrupt \/ Shutdown
  <2>1. Aborts /\ UNCHANGED <<ledger, hydration, recovery, acknowledged, lifted>> /\ (exiting => exiting')
    BY <1>4 DEF Interrupt, Shutdown, ownerFrame
  <2>2. SameRun(active, active') /\ operation'.store = operation.store
    BY <2>1, AbortsIs
  <2> QED BY <2>1, <2>2, DoubtsStay DEF Everywhere, Owns, Running, Reads, SameRun
<1>5. CASE Crash
  <2>1. /\ hydration' = [pc |-> "opening", of |-> "none", strict |-> TRUE] /\ operation' = NoOperation
    BY <1>5 DEF Crash
  <2>2. hydration'.pc = "opening" /\ hydration'.of = "none" /\ hydration'.strict /\ ~operation'.store
    BY <2>1, ConstantsAreSound
  <2> QED BY <2>2 DEF Doubts, Known
<1> QED BY <1>2, <1>3, <1>4, <1>5, DoubtsOfReads, DoubtsOfStarts, DoubtsOfWork, DoubtsOfEnds, DoubtsOfOperations DEF Next

-----------------------------------------------------------------------------
(* The protocol of the loop and the host.                                  *)

LEMMA SameShape ==
  ASSUME NEW a, NEW b, Same(a, b), NEW at, NEW call, Shape(a, at, call)
  PROVE  Shape(b, at, call)
BY DEF Same, Shape

\* the account with an answer, field by field
LEMMA AccountFields ==
  ASSUME IsAccount(h), loop.call \in BOOLEAN, NEW at \in ServedAts, NEW a, a = AccountAt(at)
  PROVE  /\ (a.begun <=> at = "begin" \/ h.begun)
         /\ at = "started" => a.attempt
         /\ at \in {"response", "failure"} => ~a.attempt
         /\ at \notin {"started", "response", "failure"} => (a.attempt <=> h.attempt)
         /\ at = "response" => (a.pending <=> loop.call)
         /\ at = "completed" => ~a.pending
         /\ at \notin {"response", "completed"} => (a.pending <=> h.pending)
         /\ a.tool = (IF at = "response" THEN "none" ELSE IF at = "prepare" THEN "got" ELSE IF at = "validate" THEN "valid"
                      ELSE IF at = "prepared" THEN "recorded" ELSE IF at = "execute" THEN "executed" ELSE h.tool)
         /\ a.approval = (IF at = "response" THEN "none" ELSE IF at = "approval" THEN "approved" ELSE h.approval)
         /\ at # "finished" => a.committed = h.committed
<1> USE DEF IsAccount
<1>1. CASE at = "begin" BY <1>1 DEF AccountAt
<1>2. CASE at = "started" BY <1>2 DEF AccountAt
<1>3. CASE at = "response"
  <2>1. a = [h EXCEPT !.attempt = FALSE, !.pending = loop.call, !.tool = "none", !.approval = "none"]
    BY <1>3 DEF AccountAt
  <2> QED BY <1>3, <2>1
<1>4. CASE at = "failure" BY <1>4 DEF AccountAt
<1>5. CASE at \in {"prepare", "approval", "validate"}
  <2>1. PICK t, v : /\ a = [h EXCEPT !.tool = t, !.approval = v]
                    /\ t = (IF at = "prepare" THEN "got" ELSE IF at = "validate" THEN "valid" ELSE h.tool)
                    /\ v = (IF at = "approval" THEN "approved" ELSE h.approval)
    BY <1>5 DEF AccountAt
  <2> QED BY <1>5, <2>1
<1>6. CASE at = "prepared" BY <1>6 DEF AccountAt
<1>7. CASE at = "execute" BY <1>7 DEF AccountAt
<1>8. CASE at = "completed" BY <1>8 DEF AccountAt
<1>9. CASE at = "finished" BY <1>9 DEF AccountAt
<1> QED BY <1>1, <1>2, <1>3, <1>4, <1>5, <1>6, <1>7, <1>8, <1>9 DEF ServedAts, Ats

\* with a failure the account of the call alone may change
LEMMA ErrorFields ==
  ASSUME IsAccount(h), NEW at \in ServedAts, NEW a, ErrorAt(at, a)
  PROVE  /\ a.begun = h.begun /\ a.attempt = h.attempt /\ a.pending = h.pending /\ a.committed = h.committed
         /\ a.tool = h.tool \/ at = "execute"
         /\ a.approval = h.approval \/ at = "approval"
BY DEF ErrorAt, IsAccount

\* A request that fits the account passes the checks of dispatch, unless the time for
\* approval has run out.
LEMMA FittingFits ==
  ASSUME WorkerTyped, Fitting, port.stage = "sent"
  PROVE  Fits \/ late
<1>1. loop.at \in Ats \ {"generate"} /\ delta = "none"
  BY DEF WorkerTyped, IsLoop, Fitting
<1>2. CASE loop.at = "done"
  BY <1>1, <1>2 DEF Fitting, Fits
<1>3. CASE loop.at # "done"
  <2>1. Shape(h, loop.at, loop.call)
    BY <1>3 DEF Fitting
  <2>2. /\ loop.at = "execute" => h.tool = "recorded"
        /\ loop.at = "finished" /\ loop.call => loop.stop = "recovery_required"
        /\ loop.at = "approval" => ~late
    BY DEF Fitting
  <2>3. CASE loop.at \in {"begin", "started", "response", "failure"}
    BY <1>1, <2>1, <2>3 DEF Shape, Fits
  <2>4. CASE loop.at \in {"prepare", "approval", "validate"}
    BY <1>1, <2>1, <2>2, <2>4 DEF Shape, Fits, Calling
  <2>5. CASE loop.at \in {"prepared", "execute"}
    BY <1>1, <2>1, <2>2, <2>5 DEF Shape, Fits, Approved, Calling
  <2>6. CASE loop.at \in {"completed", "finished"}
    BY <1>1, <2>1, <2>2, <2>6 DEF Shape, Fits, Calling
  <2> QED BY <1>1, <1>3, <2>3, <2>4, <2>5, <2>6 DEF Ats
<1> QED BY <1>2, <1>3

LEMMA FittingServed ==
  ASSUME Typed, NEW r \in Requests, Trusted, Fitting, PortStep(r)
  PROVE  Trusted' /\ Fitting'
<1>1. WorkerTyped /\ IsAccount(h) /\ loop.call \in BOOLEAN
  BY DEF Typed, WorkerTyped, IsLoop
<1>2. PICK at \in ServedAts : Served(r, at)
  BY PortStepIs
<1>3. /\ port.stage = "open" /\ loop.at = at /\ UNCHANGED <<loop, delta, late>>
      /\ port'.stage \in {"replied", "lost"} /\ port'.value \in {"ok", "error"}
  BY <1>1, <1>2, ServedIs
<1>4. PICK a : /\ a = AccountAt(at) \/ ErrorAt(at, a)
               /\ port'.value = "ok" => a = AccountAt(at)
               /\ port'.value = "error" => ErrorAt(at, a)
               /\ port'.stage = "lost" => a.exited \/ a.failure # "none" \/ a.settled # "no"
               /\ h' = Checked(a, Idle, delta)
  BY <1>1, <1>2, ServedIs
<1>5. IsAccount(a) /\ ~a.exited /\ a.failure = "none" /\ a.settled = "no"
  BY <1>1, <1>4, AccountAtIs DEF Trusted
<1>6. Same(a, h') /\ Trusted' /\ port'.stage = "replied"
  BY <1>3, <1>4, <1>5, CheckedIs DEF Same, Trusted
<1>7. Shape(h, at, loop.call) /\ delta = "none" /\ (at # "begin" => h.begun)
      /\ (at = "finished" /\ loop.call => loop.stop = "recovery_required") /\ at # "generate"
  BY <1>3 DEF Fitting, ServedAts
<1>8. h'.begun \/ ~h.begun
  BY <1>1, <1>4, <1>6, AccountFields, ErrorFields DEF Same
<1>9. port'.value = "ok" /\ at # "finished" => Shape(h', Onward(at, loop.call), loop.call /\ at # "completed")
  <2> SUFFICES ASSUME port'.value = "ok", at # "finished"
               PROVE  Shape(a, Onward(at, loop.call), loop.call /\ at # "completed")
    BY <1>6, SameShape
  <2>1. a = AccountAt(at)
    BY <1>4
  <2> HIDE DEF AccountAt
  <2>2. /\ (a.begun <=> at = "begin" \/ h.begun)
        /\ at = "started" => a.attempt
        /\ at \in {"response", "failure"} => ~a.attempt
        /\ at \notin {"started", "response", "failure"} => (a.attempt <=> h.attempt)
        /\ at = "response" => (a.pending <=> loop.call)
        /\ at = "completed" => ~a.pending
        /\ at \notin {"response", "completed"} => (a.pending <=> h.pending)
        /\ a.tool = (IF at = "response" THEN "none" ELSE IF at = "prepare" THEN "got" ELSE IF at = "validate" THEN "valid"
                     ELSE IF at = "prepared" THEN "recorded" ELSE IF at = "execute" THEN "executed" ELSE h.tool)
        /\ a.approval = (IF at = "response" THEN "none" ELSE IF at = "approval" THEN "approved" ELSE h.approval)
        /\ a.committed = h.committed
    BY <1>1, <2>1, AccountFields
  <2>3. CASE at = "begin"
    BY <1>1, <1>7, <2>2, <2>3 DEF Shape, Onward, Calling, IsAccount
  <2>4. CASE at = "started"
    BY <1>1, <1>7, <2>2, <2>4 DEF Shape, Onward, Calling, IsAccount
  <2>5. CASE at = "response"
    BY <1>1, <1>7, <2>2, <2>5 DEF Shape, Onward, Calling, IsAccount
  <2>6. CASE at = "failure"
    BY <1>1, <1>7, <2>2, <2>6 DEF Shape, Onward, Calling, IsAccount
  <2>7. CASE at = "prepare"
    BY <1>1, <1>7, <2>2, <2>7 DEF Shape, Onward, Calling, IsAccount
  <2>8. CASE at = "approval"
    BY <1>1, <1>7, <2>2, <2>8 DEF Shape, Onward, Calling, IsAccount
  <2>9. CASE at = "validate"
    BY <1>1, <1>7, <2>2, <2>9 DEF Shape, Onward, Calling, IsAccount
  <2>10. CASE at = "prepared"
    BY <1>1, <1>7, <2>2, <2>10 DEF Shape, Onward, Calling, IsAccount
  <2>11. CASE at = "execute"
    BY <1>1, <1>7, <2>2, <2>11 DEF Shape, Onward, Calling, IsAccount
  <2>12. CASE at = "completed"
    BY <1>1, <1>7, <2>2, <2>12 DEF Shape, Onward, Calling, IsAccount
  <2> QED BY <2>3, <2>4, <2>5, <2>6, <2>7, <2>8, <2>9, <2>10, <2>11, <2>12 DEF ServedAts, Ats
<1>10. port'.value # "ok" /\ at \in Returning => Shape(h', Back(at), loop.call)
  <2> SUFFICES ASSUME port'.value # "ok", at \in Returning PROVE Shape(a, Back(at), loop.call)
    BY <1>6, SameShape
  <2>1. ErrorAt(at, a)
    BY <1>3, <1>4
  <2> HIDE DEF ErrorAt
  <2>2. /\ a.begun = h.begun /\ a.attempt = h.attempt /\ a.pending = h.pending /\ a.committed = h.committed
        /\ a.tool = h.tool \/ at = "execute"
        /\ a.approval = h.approval \/ at = "approval"
    BY <1>1, <2>1, ErrorFields
  <2>3. CASE at = "begin"
    BY <1>7, <2>2, <2>3 DEF Shape, Back, Calling
  <2>4. CASE at \in {"prepare", "approval", "validate"}
    BY <1>7, <2>2, <2>4 DEF Shape, Back, Calling
  <2>5. CASE at = "execute"
    BY <1>7, <2>2, <2>5 DEF Shape, Back, Calling
  <2> QED BY <2>3, <2>4, <2>5 DEF Returning
<1>11. port'.value = "ok" /\ at = "prepared" => h'.tool = "recorded"
  BY <1>1, <1>4, <1>6, AccountFields DEF Same
<1>12. at \in {"begin", "started", "generate", "failure"} => ~loop.call
  BY <1>3 DEF Fitting
<1> QED BY <1>3, <1>6, <1>7, <1>8, <1>9, <1>10, <1>11, <1>12 DEF Fitting

LEMMA FittingReplied ==
  ASSUME WorkerTyped, Trusted, Fitting, ReplyArrives
  PROVE  Trusted' /\ Fitting'
<1>1. /\ port.stage = "replied" /\ loop.at \in ServedAts /\ ReplyIs(loop')
      /\ port' = Idle /\ UNCHANGED <<delta, late, h>> /\ loop.call \in BOOLEAN
  BY ReplyArrivesIs DEF WorkerTyped, IsLoop
<1>2. port'.stage = "idle" /\ delta = "none" /\ Trusted'
  BY <1>1 DEF Idle, Fitting, Trusted
<1>3. /\ port.value = "ok" /\ loop.at # "finished" => Shape(h, Onward(loop.at, loop.call), loop.call /\ loop.at # "completed")
      /\ port.value # "ok" /\ loop.at \in Returning => Shape(h, Back(loop.at), loop.call)
      /\ loop.at # "begin" => h.begun
      /\ loop.at = "finished" /\ loop.call => loop.stop = "recovery_required"
      /\ loop.at = "failure" => ~loop.call
      /\ port.value = "ok" /\ loop.at = "prepared" => h.tool = "recorded"
  BY <1>1 DEF Fitting
<1>4. /\ loop'.at # "begin" => h.begun
      /\ loop'.at # "done" => Shape(h, loop'.at, loop'.call)
      /\ loop'.at = "execute" => h.tool = "recorded"
      /\ loop'.at = "finished" /\ loop'.call => loop'.stop = "recovery_required"
  <2>1. CASE loop.at \in {"begin", "started"}
    BY <1>1, <1>3, <2>1 DEF ReplyIs, Onward, Back, Returning, Shape, Calling
  <2>2. CASE loop.at = "failure"
    BY <1>1, <1>3, <2>2 DEF ReplyIs, Onward, Shape, Calling
  <2>3. CASE loop.at \in {"prepare", "approval", "validate"}
    <3>1. CASE port.value = "ok"
      BY <1>1, <1>3, <2>3, <3>1 DEF ReplyIs, Onward
    <3>2. CASE port.value # "ok"
      <4>1. Shape(h, "completed", loop.call) /\ loop.call
        BY <1>3, <2>3, <3>2 DEF Back, Returning, Shape, Calling
      <4>2. loop'.at = "completed" /\ loop'.call = loop.call
        <5> HIDE DEF Shape
        <5> QED BY <1>1, <2>3, <3>2, <4>1 DEF ReplyIs
      <4> QED BY <1>1, <1>3, <2>3, <4>1, <4>2
    <3> QED BY <3>1, <3>2
  <2>7. CASE loop.at = "response"
    <3>1. CASE port.value # "ok"
      BY <1>1, <1>3, <2>7, <3>1 DEF ReplyIs
    <3>2. CASE port.value = "ok" /\ loop.call
      <4>1. Shape(h, "prepare", TRUE)
        BY <1>1, <1>3, <2>7, <3>2 DEF Onward
      <4>2. Shape(h, "completed", TRUE)
        BY <4>1 DEF Shape, Calling
      <4>3. loop'.at \in {"prepare", "completed"} /\ loop'.call = TRUE
        BY <1>1, <2>7, <3>2 DEF ReplyIs
      <4> HIDE DEF Shape
      <4> QED BY <1>1, <1>3, <2>7, <4>1, <4>2, <4>3
    <3>3. CASE port.value = "ok" /\ ~loop.call
      <4>1. Shape(h, "finished", FALSE)
        BY <1>1, <1>3, <2>7, <3>3 DEF Onward
      <4>3. loop'.at = "finished" /\ loop'.call = FALSE
        BY <1>1, <2>7, <3>3 DEF ReplyIs
      <4> HIDE DEF Shape
      <4> QED BY <1>1, <1>3, <2>7, <4>1, <4>3
    <3> QED BY <3>1, <3>2, <3>3
  <2>4. CASE loop.at = "prepared"
    BY <1>1, <1>3, <2>4 DEF ReplyIs, Onward, Shape, Calling
  <2>5. CASE loop.at = "execute"
    BY <1>1, <1>3, <2>5 DEF ReplyIs, Onward, Back, Returning, Shape, Calling
  <2>6. CASE loop.at \in {"completed", "finished"}
    BY <1>1, <1>3, <2>6 DEF ReplyIs, Onward, Shape, Calling
  <2> QED BY <1>1, <2>1, <2>2, <2>3, <2>4, <2>5, <2>6, <2>7 DEF ServedAts, Ats
<1>5. loop'.at \in {"begin", "started", "generate", "failure"} => ~loop'.call
  BY <1>4 DEF Shape
<1> QED BY <1>1, <1>2, <1>4, <1>5 DEF Fitting

\* A stage of the account that a turn of the loop, or an answer, moves on from.
LEMMA ShapeTurns ==
  ASSUME NEW a, NEW at, NEW call, Shape(a, at, call)
  PROVE  /\ at \in Interruptible /\ call /\ (at = "execute" => a.tool = "recorded") => Shape(a, "completed", call)
         /\ at \in Interruptible /\ ~call => at = "started" /\ Shape(a, "finished", call)
         /\ at = "generate" => ~call /\ Shape(a, "failure", call) /\ \A c \in BOOLEAN : Shape(a, "response", c)
BY DEF Shape, Interruptible, Calling

LEMMA FittingTurns ==
  ASSUME WorkerTyped, Trusted, Fitting, LoopTurns
  PROVE  Trusted' /\ Fitting'
<1>1. /\ port.stage = "idle" /\ UNCHANGED <<port, delta, late, h>> /\ loop'.call = loop.call /\ Trusted'
      /\ \/ /\ loop.cancelled /\ loop.at \in Interruptible /\ loop'.stop = "cancelled"
            /\ loop'.at = IF loop.call THEN "completed" ELSE "finished"
         \/ loop.at = "prepared" /\ loop'.at = "completed" /\ loop'.stop = loop.stop
  BY LoopTurnsIs DEF Trusted
<1>2. loop.at \in Interruptible
  BY <1>1 DEF Interruptible
<1>3. Shape(h, loop.at, loop.call) /\ (loop.at = "execute" => h.tool = "recorded") /\ h.begun /\ delta = "none"
  BY <1>1, <1>2 DEF Fitting, Interruptible
<1>4. loop.at = "prepared" => loop.call
  BY <1>3 DEF Shape, Calling
<1>5. loop'.at = (IF loop.call THEN "completed" ELSE "finished") /\ Shape(h, loop'.at, loop.call)
  BY <1>1, <1>2, <1>3, <1>4, ShapeTurns
<1> QED BY <1>1, <1>3, <1>5 DEF Fitting

LEMMA FittingSends ==
  ASSUME WorkerTyped, Trusted, Fitting, LoopSends
  PROVE  Trusted' /\ Fitting'
<1>1. /\ port.stage = "idle" /\ UNCHANGED <<delta, h>> /\ port'.stage = "sent" /\ (loop.at = "approval" => ~late')
      /\ loop.at # "generate" /\ (loop.at \in {"response", "failure", "done"} => delta = "none")
      /\ loop'.at = loop.at /\ loop'.call = loop.call /\ loop'.stop = loop.stop
  BY LoopSendsIs
<1>2. Trusted'
  BY <1>1 DEF Trusted
<1>3. /\ loop.at # "done" => Shape(h, loop.at, loop.call)
      /\ loop.at # "begin" => h.begun
      /\ loop.at = "execute" => h.tool = "recorded"
      /\ loop.at = "finished" /\ loop.call => loop.stop = "recovery_required"
      /\ loop.at \in {"begin", "started", "generate", "failure"} => ~loop.call
      /\ delta = "none"
  BY <1>1 DEF Fitting
<1> QED BY <1>1, <1>2, <1>3 DEF Fitting

LEMMA FittingModel ==
  ASSUME WorkerTyped, Trusted, Fitting, ModelAnswers
  PROVE  Trusted' /\ Fitting'
<1>1. /\ loop.at = "generate" /\ UNCHANGED <<port, delta, late, h>> /\ loop'.stop = loop.stop /\ loop'.call \in BOOLEAN
      /\ (loop'.at = "failure" /\ loop'.call = loop.call) \/ loop'.at = "response"
  BY ModelAnswersIs DEF WorkerTyped, IsLoop
<1>2. Shape(h, "generate", loop.call) /\ port.stage = "idle" /\ h.begun
  BY <1>1 DEF Fitting
<1>3. Shape(h, loop'.at, loop'.call) /\ (loop'.at = "failure" => ~loop'.call)
  BY <1>1, <1>2, ShapeTurns
<1>4. Trusted'
  BY <1>1 DEF Trusted
<1> QED BY <1>1, <1>2, <1>3, <1>4 DEF Fitting

LEMMA FittingQuiet ==
  ASSUME WorkerTyped, Trusted, Fitting, Quiet, Trusted'
  PROVE  Fitting'
<1>1. /\ UNCHANGED port /\ Same(h, h') /\ loop'.at = loop.at /\ loop'.call = loop.call /\ loop'.stop = loop.stop
      /\ delta' = delta \/ delta' = "none" \/ (delta = "none" /\ loop.at = "generate")
      /\ late' = late \/ (loop.at = "approval" => port.stage \in {"open", "replied"})
  BY QuietIs DEF SameLoop
<1>2. \A at, call : Shape(h, at, call) => Shape(h', at, call)
  BY <1>1, SameShape
<1>3. h'.begun = h.begun /\ h'.tool = h.tool
  BY <1>1 DEF Same
<1> QED BY <1>1, <1>2, <1>3 DEF Fitting

LEMMA FittingTaken ==
  ASSUME WorkerTyped, NEW r \in Requests, Trusted, Fitting, TakeRequest(r)
  PROVE  (Trusted' => Fitting') /\ Broken'
<1>1. /\ port.stage = "sent" /\ ~h.exited /\ UNCHANGED <<loop, delta, late>> /\ loop.at # "generate"
      /\ \/ /\ ~Fits /\ port'.stage = "lost" /\ Breaks(h, h')
         \/ /\ loop.at = "done" /\ port'.stage = "lost" /\ Same(h, h') /\ h'.failure = h.failure
         \/ /\ loop.at \in Refusable /\ port'.stage = "replied" /\ port'.value = "error" /\ UNCHANGED h
         \/ /\ loop.at # "done" /\ port'.stage = "open"
            /\ h' = IF loop.at = "execute" THEN [h EXCEPT !.tool = "executing"] ELSE h
  BY TakeRequestIs DEF Trusted, Fitting
<1>2. /\ loop.at # "done" => Shape(h, loop.at, loop.call)
      /\ loop.at # "begin" => h.begun
      /\ loop.at = "execute" => h.tool = "recorded"
      /\ loop.at = "finished" /\ loop.call => loop.stop = "recovery_required"
      /\ loop.at \in {"begin", "started", "generate", "failure"} => ~loop.call
      /\ delta = "none"
  BY <1>1 DEF Fitting
<1>3. CASE ~Fits /\ port'.stage = "lost" /\ Breaks(h, h')
  BY <1>1, <1>3, FittingFits DEF Breaks, Trusted, Broken
<1>4. CASE loop.at = "done" /\ port'.stage = "lost" /\ Same(h, h') /\ h'.failure = h.failure
  BY <1>1, <1>2, <1>4 DEF Fitting, Trusted, Broken, Same
<1>5. CASE loop.at \in Refusable /\ port'.stage = "replied" /\ port'.value = "error" /\ UNCHANGED h
  <2>1. Shape(h, "completed", loop.call) /\ Shape(h, "finished", loop.call)
    BY <1>2, <1>5 DEF Shape, Refusable, Calling
  <2>2. Shape(h, Back(loop.at), loop.call)
    BY <1>5, <2>1 DEF Back, Refusable
  <2>3. loop.at # "generate"
    BY <1>1
  <2> QED BY <1>1, <1>2, <1>5, <2>2, <2>3 DEF Fitting, Trusted, Broken, Refusable
<1>6. CASE /\ loop.at # "done" /\ port'.stage = "open"
           /\ h' = IF loop.at = "execute" THEN [h EXCEPT !.tool = "executing"] ELSE h
  <2>1. Shape(h', loop.at, loop.call) /\ h'.begun = h.begun /\ h'.failure = h.failure
    <3>1. CASE loop.at = "execute"
      <4>1. /\ h'.begun = h.begun /\ h'.attempt = h.attempt /\ h'.pending = h.pending /\ h'.committed = h.committed
            /\ h'.tool = "executing" /\ h'.approval = h.approval /\ h'.failure = h.failure
        BY <1>6, <3>1 DEF WorkerTyped, IsAccount
      <4> QED BY <1>2, <3>1, <4>1 DEF Shape
    <3>2. CASE loop.at # "execute"
      BY <1>2, <1>6, <3>2
    <3> QED BY <3>1, <3>2
  <2>2. h'.failure = "none"
    BY <2>1 DEF Trusted
  <2> QED BY <1>1, <1>2, <1>6, <2>1, <2>2 DEF Fitting, Broken
<1> QED BY <1>1, <1>3, <1>4, <1>5, <1>6

\* An answer comes in pieces while the model's attempt is under way.
LEMMA FittingDelta ==
  ASSUME WorkerTyped, Trusted, Fitting, TakeDelta
  PROVE  Trusted' /\ Fitting'
<1>1. /\ delta = "sent" /\ UNCHANGED <<loop, port, late>>
      /\ \/ delta' = "open" /\ UNCHANGED h
         \/ ~(h.failure = "none" /\ h.begun /\ h.attempt /\ h.committed = "none" /\ ~JournalBusy)
  BY TakeDeltaIs
<1>2. port.stage = "idle" /\ loop.at \in {"generate", "response", "failure"} /\ Shape(h, loop.at, loop.call)
  BY <1>1 DEF Fitting
<1>3. h.failure = "none" /\ h.begun /\ h.attempt /\ h.committed = "none" /\ ~JournalBusy
  BY <1>2 DEF Shape, JournalBusy, Trusted
<1>4. Trusted' /\ delta' = "open" /\ UNCHANGED h
  BY <1>1, <1>3 DEF Trusted
<1> QED BY <1>1, <1>2, <1>4 DEF Fitting

LEMMA ProtocolOfWorker ==
  ASSUME Typed, EndIsConfirmed, NEW r \in Requests, Trusted => Fitting, Broken, WorkerStep(r)
  PROVE  (Trusted' => Fitting') /\ Broken'
<1>0. WorkerTyped /\ IsAccount(h) /\ (Alive => ~h.exited)
  BY DEF Typed, WorkerTyped, EndIsConfirmed, Alive
<1>1. CASE LoopTurns
  <2>1. UNCHANGED <<port, late, h>>
    BY <1>0, <1>1, LoopTurnsIs
  <2>2. (Trusted' => Trusted) /\ Broken'
    BY <2>1 DEF Trusted, Broken
  <2> QED BY <1>0, <1>1, <2>2, FittingTurns
<1>2. CASE LoopSends
  <2>1. UNCHANGED h /\ port.stage = "idle" /\ Alive
    BY <1>0, <1>2, LoopSendsIs
  <2>2. (Trusted' => Trusted) /\ Broken'
    BY <1>0, <2>1 DEF Trusted, Broken
  <2> QED BY <1>0, <1>2, <2>2, FittingSends
<1>3. CASE ModelAnswers
  <2>1. UNCHANGED <<port, late, h>>
    BY <1>0, <1>3, ModelAnswersIs
  <2>2. (Trusted' => Trusted) /\ Broken'
    BY <2>1 DEF Trusted, Broken
  <2> QED BY <1>0, <1>3, <2>2, FittingModel
<1>4. CASE ReplyArrives
  <2>1. UNCHANGED h /\ port.stage = "replied" /\ Alive
    BY <1>0, <1>4, ReplyArrivesIs
  <2>2. (Trusted' => Trusted) /\ Broken'
    BY <1>0, <2>1 DEF Trusted, Broken
  <2> QED BY <1>0, <1>4, <2>2, FittingReplied
<1>5. CASE Quiet
  <2>1. /\ UNCHANGED port /\ h'.exited = h.exited /\ (late' = late \/ late')
        /\ h'.failure # h.failure => h.failure = "none" /\ h'.failure = "startup"
        /\ h'.settled # h.settled => h'.settled # "no"
    BY <1>0, <1>5, QuietIs
  <2>2. (Trusted' => Trusted) /\ Broken'
    BY <2>1 DEF Trusted, Broken
  <2> QED BY <1>0, <1>5, <2>2, FittingQuiet
<1>6. CASE WorkerExits
  <2>1. h'.exited /\ UNCHANGED late /\ h'.failure \in {h.failure, "crash"}
    BY <1>0, <1>6, WorkerExitsIs
  <2> QED BY <2>1 DEF Trusted, Broken
<1>7. CASE TakeRequest(r)
  <2>1. CASE Trusted
    BY <1>0, <1>7, <2>1, FittingTaken
  <2>2. CASE ~Trusted
    <3>1. h.failure # "none" /\ h'.failure = h.failure /\ port'.stage = "lost" /\ UNCHANGED late
      BY <1>0, <1>7, <2>2, TakeRequestIs DEF Trusted, Breaks
    <3> QED BY <3>1 DEF Trusted, Broken
  <2> QED BY <2>1, <2>2
<1>8. CASE TakeDelta
  <2>1. CASE Trusted
    BY <1>0, <1>8, <2>1, FittingDelta DEF Trusted, Broken
  <2>2. CASE ~Trusted
    <3>1. h.failure # "none" /\ h'.failure = h.failure /\ h'.exited = h.exited /\ UNCHANGED <<port, late>>
      BY <1>0, <1>8, <2>2, TakeDeltaIs DEF Trusted, Breaks
    <3> QED BY <3>1 DEF Trusted, Broken
  <2> QED BY <2>1, <2>2
<1>9. CASE PortStep(r)
  <2>1. PICK at \in ServedAts : Served(r, at)
    BY <1>9, PortStepIs
  <2>2. port.stage = "open" /\ UNCHANGED late
    BY <1>0, <2>1, ServedIs
  <2>3. PICK a : (a = AccountAt(at) \/ ErrorAt(at, a)) /\ h' = Checked(a, Idle, delta)
    BY <1>0, <2>1, ServedIs
  <2>4. IsAccount(a) /\ a.exited = h.exited /\ a.failure = h.failure /\ a.settled = h.settled
    BY <1>0, <2>3, AccountAtIs
  <2>5. h'.exited = h.exited /\ h'.failure = h.failure /\ (h'.settled = "no" => h.settled = "no")
    BY <2>3, <2>4, CheckedIs
  <2>6. (Trusted' => Trusted) /\ Broken'
    BY <2>2, <2>5 DEF Trusted, Broken
  <2> QED BY <1>9, <2>6, FittingServed
<1> QED BY <1>1, <1>2, <1>3, <1>4, <1>5, <1>6, <1>7, <1>8, <1>9, WorkerSteps

\* What the host has taken from a worker that it has given up does not end it again.
LEMMA GivenUpStays ==
  ASSUME Typed, NEW r \in Requests, PortStep(r) \/ DeltaShown
  PROVE  h'.failure = h.failure
<1>0. WorkerTyped /\ IsAccount(h)
  BY DEF Typed, WorkerTyped
<1>1. CASE DeltaShown
  <2>1. h' = Checked(h, port, "none")
    BY <1>1 DEF DeltaShown
  <2> QED BY <1>0, <2>1, CheckedIs
<1>2. CASE PortStep(r)
  <2>1. PICK at \in ServedAts : Served(r, at)
    BY <1>2, PortStepIs
  <2>2. PICK a : (a = AccountAt(at) \/ ErrorAt(at, a)) /\ h' = Checked(a, Idle, delta)
    BY <1>0, <2>1, ServedIs
  <2>3. IsAccount(a) /\ a.failure = h.failure
    BY <1>0, <2>2, AccountAtIs
  <2> QED BY <2>2, <2>3, CheckedIs
<1> QED BY <1>1, <1>2

LEMMA ProtocolStays ==
  ASSUME Protocol, UNCHANGED <<loop, port, delta, late>>, Same(h, h'), h'.failure = h.failure,
         h'.exited = h.exited, h'.settled = h.settled, active'.pc = active.pc
  PROVE  Protocol'
<1>1. \A at, call : Shape(h, at, call) => Shape(h', at, call)
  BY SameShape
<1>2. h'.begun = h.begun /\ h'.tool = h.tool /\ (Trusted' <=> Trusted)
  BY DEF Same, Trusted
<1>3. Fitting => Fitting'
  BY <1>1, <1>2 DEF Fitting
<1>4. Broken => Broken'
  BY DEF Broken
<1> QED BY <1>2, <1>3, <1>4 DEF Protocol

LEMMA ProtocolInit == Init => Protocol
<1> SUFFICES ASSUME Init PROVE Protocol
  OBVIOUS
<1>1. AtRest /\ active.pc # "working"
  BY ConstantsAreSound DEF Init, WorkerInit, AtRest
<1> QED BY <1>1, AtRestIs DEF Protocol

LEMMA ProtocolOfRun ==
  ASSUME Typed, Control, Worker, Protocol, RunStep \/ CommandInDoubt \/ Worked \/ Prepare
  PROVE  Protocol'
<1>0. WorkerTyped
  BY DEF Typed
<1>1. CASE RunStep
  <2>1. /\ active'.pc = active.pc /\ active.req \in Requests /\ WorkerStep(active.req)
        /\ active.pc = "working" \/ PortStep(active.req) \/ DeltaShown
    BY <1>1, RunStepIs
  <2>2. CASE active.pc = "working"
    <3>1. (Trusted' => Fitting') /\ Broken'
      BY <2>1, <2>2, ProtocolOfWorker DEF Worker, Protocol
    <3> QED BY <2>1, <2>2, <3>1 DEF Protocol
  <2>3. CASE active.pc # "working"
    BY <2>1, <2>3, GivenUpStays DEF Protocol
  <2> QED BY <2>2, <2>3
<1>2. CASE CommandInDoubt
  <2>1. /\ active'.pc = active.pc /\ Same(h, h') /\ h'.failure = h.failure
        /\ h'.exited = h.exited /\ h'.settled = h.settled /\ UNCHANGED <<loop, port, delta, late>>
    BY <1>2, CommandInDoubtIs
  <2> QED BY <2>1, ProtocolStays
<1>3. CASE Worked
  <2>1. active'.pc = "closing" /\ Settle
    BY <1>3, WorkedIs
  <2>2. h'.failure = "none"
    BY <2>1 DEF Settle, Account
  <2> QED BY <2>1, <2>2 DEF Protocol
<1>4. CASE Prepare
  <2>1. /\ active.pc = "preparing"
        /\ \/ Failed(active') /\ UNCHANGED <<loop, port, delta, late, h>>
           \/ active'.pc = "working" /\ Fork
    BY <1>4, PrepareIs
  <2>2. AtRest
    BY <2>1 DEF Worker, GivenUp, Ended
  <2>3. CASE Failed(active') /\ UNCHANGED <<loop, port, delta, late, h>>
    BY <2>1, <2>3 DEF Failed, Protocol
  <2>4. CASE active'.pc = "working" /\ Fork
    <3>1. /\ SameLoop(loop, loop') /\ Same(h, h') /\ h'.failure = h.failure
          /\ UNCHANGED <<port, delta, late>>
      BY <1>0, <2>4, ForkIs
    <3>2. /\ loop'.at = "begin" /\ ~loop'.call /\ port'.stage = "idle" /\ ~h'.begun /\ ~h'.attempt /\ ~h'.pending
          /\ h'.committed = "none" /\ h'.failure = "none" /\ delta' = "none"
      BY <2>2, <3>1, AtRestIs DEF SameLoop, Same, AtRest
    <3>3. Shape(h', loop'.at, loop'.call)
      BY <3>2 DEF Shape, Calling
    <3>4. Fitting' /\ Broken'
      BY <3>2, <3>3 DEF Fitting, Broken
    <3> QED BY <2>4, <3>4 DEF Protocol
  <2> QED BY <2>1, <2>3, <2>4
<1> QED BY <1>1, <1>2, <1>3, <1>4

LEMMA ProtocolStep == ASSUME Typed, Control, Worker, Protocol, [Next]_vars PROVE Protocol'
<1>0. ASSUME UNCHANGED <<loop, port, delta, late, h>>, active'.pc = active.pc
      PROVE  Protocol'
  BY <1>0, ProtocolStays DEF Same
<1>1. ASSUME UNCHANGED h, active.pc # "working", active'.pc # "working"
      PROVE  Protocol'
  BY <1>1 DEF Protocol
<1>2. CASE UNCHANGED vars
  BY <1>0, <1>2 DEF vars, workerVars, hostVars
<1>3. CASE Read \/ HydrationFails \/ HydrationOpens \/ HydrationDecides
  BY <1>0, <1>3 DEF Read, HydrationFails, HydrationOpens, HydrationDecides, workerVars
<1>4. CASE ContextStart \/ ContextOpens \/ ContextOpened \/ ContextActs \/ ContextCloses
  BY <1>0, <1>4 DEF ContextStart, ContextOpens, ContextOpened, ContextActs, ContextCloses, operationFrame, workerVars
<1>5. CASE SetMaintenance
  BY <1>0, <1>5 DEF SetMaintenance, ownerFrame
<1>6. CASE Interrupt \/ Shutdown
  <2>1. Aborts /\ UNCHANGED <<loop, port, delta, late>>
    BY <1>6 DEF Interrupt, Shutdown, ownerFrame
  <2>2. /\ SameRun(active, active') /\ Same(h, h') /\ h'.failure = h.failure
        /\ h'.exited = h.exited /\ h'.settled = h.settled
    BY <2>1, AbortsIs
  <2> QED BY <2>1, <2>2, ProtocolStays DEF SameRun
<1>7. CASE Crash \/ \E r \in Requests : Send(r)
  <2>1. h' = Account /\ active'.pc # "working"
    BY <1>7, ConstantsAreSound, SendIs DEF Crash, Send
  <2> QED BY <2>1 DEF Protocol, Account
<1>8. CASE StartRun \/ RunOpened \/ Receipts
  BY <1>1, <1>8, StartRunIs, RunOpenedIs, ReceiptsIs DEF Failed
<1>9. CASE CloseAll \/ CloseStore \/ EndRun
  BY <1>1, <1>9, CloseAllIs, CloseStoreIs, EndRunIs, ConstantsAreSound
<1>10. CASE Release
  BY <1>1, <1>10, ConstantsAreSound DEF Release, workerVars
<1> QED BY <1>2, <1>3, <1>4, <1>5, <1>6, <1>7, <1>8, <1>9, <1>10, ProtocolOfRun DEF Next

-----------------------------------------------------------------------------
(* The theorems.                                                           *)

LEMMA InvInit == Init => IInv
BY TypedInit, ControlInit, WorkerInvInit, EffectsInit, AnsweredInit, DoubtsInit, ProtocolInit DEF IInv

LEMMA InvStep == IInv /\ [Next]_vars => IInv'
BY TypedStep, ControlStep, WorkerInvStep, EffectsStep, AnsweredStep, DoubtsStep, ProtocolStep DEF IInv

\* The invariant of a session: its entries and its hold on the journal agree, a
\* worker works for the run that is entered or has been given up by it, the journal
\* knows of every call that has been carried out, and whatever is in doubt is known.
THEOREM SessionIsSound == Spec => []IInv
BY InvInit, InvStep, PTL DEF Spec

\* A call of a request is carried out at most once, whatever is sent again, stopped
\* or crashes (TakeRequest and the receipts of execute), and a sender is told of
\* success only when the journal says the run has completed.
THEOREM AnswersStayTrue == Spec => []AnswersAreTrue
<1>1. IInv => AnswersAreTrue
  BY DEF IInv, Effects, Once, AnswersFollow, AnswersAreTrue
<1> QED BY <1>1, SessionIsSound, PTL

\* When the session has let go of its directories (the entries of active,
\* contextOperations and taskLeaseFailures are gone), its worker is gone, nothing is
\* in flight, no journal is open for a run, and an effect that may have happened
\* keeps the session in recovery or is the read's to find.
THEOREM DirectoriesAreKept == Spec => []DirectoriesStay
<1>1. IInv => DirectoriesStay
  <2> SUFFICES ASSUME IInv, ~has PROVE DirectoriesStay
    BY DEF DirectoriesStay
  <2>1. active.pc = "none" /\ operation.pc = "none"
    BY DEF has, Running, Operating
  <2>2. AtRest
    BY <2>1 DEF IInv, Worker, GivenUp, Ended
  <2>3. loop.process \notin {"starting", "alive"} /\ port.stage # "open" /\ delta # "open"
    BY <2>2, AtRestIs DEF AtRest
  <2>4. InFlight(port, delta) = 0
    BY <2>3 DEF InFlight
  <2>5. writer \notin {"run", "operation"}
    BY <2>1 DEF IInv, Control, RunIsSound, OperationIsSound, Ended
  <2>6. Unknown => recoveryRequired \/ acknowledged \/ hydration.strict \/ lifted \/ exiting
    BY <2>1 DEF IInv, Doubts, InDoubt, Known, Unknown, Running, recoveryRequired
  <2> QED BY <2>3, <2>4, <2>5, <2>6 DEF DirectoriesStay
<1> QED BY <1>1, SessionIsSound, PTL

\* The host ends a worker for a request out of place (dispatch, reject) only when the
\* time for approval ran out while the request was on its way, and the session never
\* meets the lock of its own journal (AgentRunStore.open).
THEOREM NoFalseAlarms == Spec => []NoFalseAlarm
<1>1. IInv => NoFalseAlarm
  BY DEF IInv, Protocol, Broken, Control, NoFalseAlarm
<1> QED BY <1>1, SessionIsSound, PTL

=============================================================================
