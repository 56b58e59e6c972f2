------------------------------ MODULE ChatQueue ------------------------------
(***************************************************************************)
(* The persisted first-in first-out queue of chat messages of one session  *)
(* (apps/desktop/src/main/chat-queue.ts); queues share no state.  The      *)
(* queue lives in one JavaScript thread: a step is what the code runs      *)
(* between two points at which other callbacks may run, and the promise    *)
(* chain of serial() is the sequence chain, whose head is running.         *)
(***************************************************************************)
EXTENDS Naturals, SequencesExt

CONSTANTS
  Requests,      \* clientRequestId values the renderer may submit
  Bodies,        \* message contents (text, attachments, options)
  Files,         \* attachment files of the session
  Attached,      \* Attached[b]: the files that body b carries
  ItemCap,       \* most messages in the queue (100 in the code)
  ReceiptCap,    \* most receipts kept (512 in the code)
  SettleMayFail, \* may options.settled reject (directory release failing)?
  MaxMsgs, MaxControls, MaxStops, MaxMaintenance, MaxFaults, MaxCrashes, MaxChain  \* bounds

ASSUME CapsAssumption ==
  /\ ItemCap \in Nat \ {0} /\ ReceiptCap \in Nat \ {0} /\ ItemCap <= ReceiptCap
ASSUME BoundsAssumption ==
  \A n \in {MaxMsgs, MaxControls, MaxStops, MaxMaintenance, MaxFaults, MaxCrashes, MaxChain} :
    n \in Nat
ASSUME DataAssumption ==
  Attached \in [Bodies -> SUBSET Files] /\ SettleMayFail \in BOOLEAN

Messages == 1..MaxMsgs  \* message identifiers, in the order they are issued
NoMessage == 0
MessageOrNone == Messages \cup {NoMessage}
Content == [req: Requests, body: Bodies]
Queue == [items: Seq(Messages), sending: SUBSET Messages, paused: BOOLEAN,
          note: {"none", "uncertain", "restored", "other"}, receipts: Seq(Messages)]
EmptyQueue == [items |-> << >>, sending |-> {}, paused |-> FALSE, note |-> "none",
               receipts |-> << >>]

\* What an asynchronous operation captures when it is called; born, the number of stops
\* made before the call, is history.
Capture == [gen: Nat, adm: Nat, born: Nat]
Op == [kind: {"submit"}, at: {"admit", "commit"}, req: Requests, body: Bodies, cap: Capture]
      \cup [kind: {"remove"}, msg: Messages]
      \cup [kind: {"detach"}, file: Files]
      \cup [kind: {"resume"}, cap: Capture]
      \cup [kind: {"reack"}, msg: MessageOrNone, ok: BOOLEAN, cap: Capture]
      \cup [kind: {"select"}, cap: Capture]
      \cup [kind: {"release"}, epoch: Nat, cap: Capture]
      \cup [kind: {"complete", "dispatch"}]

VARIABLES
  disk,       \* the queue file of the session
  mem,        \* states.get(id)
  loaded,     \* states.has(id)
  chain,      \* mutations.get(id): operations not yet run, the head first
  generation, \* generation.get(id)
  active,     \* active.get(id): the dispatched turn and how far it is
  priority,   \* priorities.get(id): the sendNow in progress
  replaced,   \* replaced: turns a sendNow has interrupted
  scheduled,  \* scheduled.has(id): a setImmediate is pending
  failedAck,  \* failedAcks.get(id): an outcome that could not be saved
  settling,   \* resume calls that wait for options.settled
  files,      \* the session's attachment records
  content,    \* content[m]: the immutable fields of message m, once accepted
  host,       \* what session-service.ts decides about the session
  hist,       \* history, not in the code
  used        \* how much of each bound is used up

queueVars == <<disk, mem, loaded>>
turnVars == <<active, priority, replaced, failedAck, settling>>
dataVars == <<files, content>>
vars == <<queueVars, chain, generation, turnVars, scheduled, dataVars, host, hist, used>>

Idle == [at |-> "idle", msg |-> NoMessage, ok |-> FALSE]
NoPriority == [at |-> "none", msg |-> NoMessage, epoch |-> 0,
               cap |-> [gen |-> 0, adm |-> 0, born |-> 0]]
NoAck == [msg |-> NoMessage, ok |-> FALSE]

\* Host: the gate is closed while the session is managed, archived or locked, and in
\* maintenance while its engine is; busy is blocked(): something else runs in the session.
\* refused is history: what ran last ended without a wake, and none has come since.
Host == [gate: {"open", "closed", "maintenance"}, epoch: Nat, busy: BOOLEAN, deleted: BOOLEAN,
         refused: BOOLEAN]
\* History: pauses so far, how many of them when the last maintenance began, messages handed
\* to the executor since their last release, and those a turn succeeded with, a sendNow
\* superseded, the user withdrew, a restart found in the file.
History == [stops: Nat, fence: Nat, tainted: SUBSET Messages, succeeded: SUBSET Messages,
            superseded: SUBSET Messages, withdrawn: SUBSET Messages, unsure: SUBSET Messages]

\* The schema that every save must satisfy (chat-queue-storage.ts).
WellFormed(q) == q \in Queue /\ Len(q.items) <= ItemCap /\ Len(q.receipts) <= ReceiptCap

TypeOK ==
  /\ WellFormed(disk) /\ WellFormed(mem)
  /\ loaded \in BOOLEAN /\ scheduled \in BOOLEAN
  /\ chain \in Seq(Op) /\ generation \in Nat
  /\ active \in [at: {"idle", "running", "acking", "acked", "unacked", "closing"},
                 msg: MessageOrNone, ok: BOOLEAN]
  /\ priority \in [at: {"none", "selecting", "interrupting", "releasing", "ended"},
                   msg: MessageOrNone, epoch: Nat, cap: Capture]
  /\ replaced \in SUBSET Messages /\ settling \in SUBSET Capture
  /\ failedAck \in [msg: MessageOrNone, ok: BOOLEAN]
  /\ files \in [Files -> {"draft", "pinned", "held", "gone"}]
  /\ content \in Seq(Content)
  /\ host \in Host /\ hist \in History
  /\ used \in [controls: Nat, faults: Nat, crashes: Nat]

Init ==
  /\ disk = EmptyQueue /\ mem = EmptyQueue /\ loaded = FALSE
  /\ chain = << >> /\ generation = 0 /\ scheduled = FALSE
  /\ active = Idle /\ priority = NoPriority /\ replaced = {} /\ failedAck = NoAck
  /\ settling = {} /\ files = [f \in Files |-> "draft"] /\ content = << >>
  /\ host = [gate |-> "open", epoch |-> 0, busy |-> FALSE, deleted |-> FALSE,
             refused |-> FALSE]
  /\ hist = [stops |-> 0, fence |-> 0, tainted |-> {}, succeeded |-> {}, superseded |-> {},
             withdrawn |-> {}, unsure |-> {}]
  /\ used = [controls |-> 0, faults |-> 0, crashes |-> 0]

-----------------------------------------------------------------------------
\* The pieces the operations are made of.  Operators named Mutant... are wrong on purpose:
\* no action uses them; each is a plausible bug that a property must notice.

Position(s, m) == CHOOSE i \in DOMAIN s : s[i] = m
Without(s, m) == IF m \in Range(s) THEN RemoveAt(s, Position(s, m)) ELSE s
ToFront(s, m) == <<m>> \o RemoveAt(s, Position(s, m))
FilesOf(m) == Attached[content[m].body]
Live(q) == Range(q.items)
HasActive == active # Idle \/ priority # NoPriority \/ failedAck # NoAck

\* captureAdmission() and generation: captured when an operation is called, checked (with
\* assertAvailable) each time it has waited.
Captured == [gen |-> generation, adm |-> host.epoch, born |-> hist.stops]
MutantAnyEpoch(cap) == host.gate = "open"
Admitted(cap) == host.gate = "open" /\ cap.adm = host.epoch

\* commit(): the file first, the memory only if the save succeeded.
Commit(q) == disk' = q /\ mem' = q /\ UNCHANGED <<loaded, used>>
CommitFails == /\ used.faults < MaxFaults /\ used' = [used EXCEPT !.faults = @ + 1]
               /\ UNCHANGED queueVars

\* pause(): memory is paused whether or not the file can be written.
Pause(q, h) ==
  /\ hist' = [h EXCEPT !.stops = @ + 1]
  /\ generation' = generation + 1
  /\ mem' = [q EXCEPT !.paused = TRUE] /\ loaded' = loaded
  /\ \/ disk' = mem' /\ used' = used
     \/ /\ disk' = disk
        /\ used.faults < MaxFaults /\ used' = [used EXCEPT !.faults = @ + 1]
PauseWithError == Pause([mem EXCEPT !.note = "other"], hist)

Wake == scheduled' = TRUE
\* options.settled runs before the wake that ends a turn or a sendNow; if it rejects, no wake.
MutantNoWake(settles) == {scheduled}
WakesAfter(settles) == IF SettleMayFail /\ settles THEN {scheduled, TRUE} ELSE {TRUE}

\* The operation that runs; it loads the queue first if nothing has.
AtHead(kind) == loaded /\ chain # << >> /\ Head(chain).kind = kind
Pop == chain' = Tail(chain)
Enqueue(op) == chain' = Append(chain, op)

\* state(): the first use of the queue after a start.  What was in the file comes back
\* paused, and says whether a turn may have been running.
MutantRestored(q) == [q EXCEPT !.sending = {}]
Restored(q) ==
  IF q.items = << >> THEN q
  ELSE [q EXCEPT !.sending = {}, !.paused = TRUE,
                 !.note = IF q.sending # {} THEN "uncertain" ELSE "restored"]
Load ==
  /\ ~loaded /\ loaded' = TRUE
  /\ mem' = Restored(disk) /\ disk' = mem'
  /\ UNCHANGED <<chain, generation, turnVars, scheduled, dataVars, host, hist, used>>

\* An asynchronous call captures, joins the chain, and returns a promise.
Call(op) ==
  /\ loaded /\ Len(chain) < MaxChain /\ host.gate # "maintenance"
  /\ Enqueue(op)
  /\ UNCHANGED <<queueVars, generation, active, replaced, failedAck, settling, scheduled,
                 dataVars, host, hist>>
Control == used.controls < MaxControls /\ used' = [used EXCEPT !.controls = @ + 1]

-----------------------------------------------------------------------------
\* submit(): admission and receipt lookup first, then the attachments are accepted, and the
\* queue is committed inside that acceptance.

SubmitCall(req, body) ==
  /\ Len(content) < MaxMsgs
  /\ Call([kind |-> "submit", at |-> "admit", req |-> req, body |-> body, cap |-> Captured])
  /\ UNCHANGED <<priority, used>>

MutantRoom == Len(mem.items) <= ItemCap
Room == Len(mem.items) < ItemCap
MutantUnshared(body) == TRUE
Unshared(body) == \A m \in Live(mem) : FilesOf(m) \cap Attached[body] = {}

\* The metadata has been read and no receipt answers the request.
SubmitAdmit ==
  /\ AtHead("submit") /\ Head(chain).at = "admit" /\ Room
  /\ LET op == Head(chain) IN
     /\ Admitted(op.cap)
     /\ \A m \in Range(mem.receipts) : content[m].req # op.req
     /\ Unshared(op.body)
     /\ chain' = <<[op EXCEPT !.at = "commit"]>> \o Tail(chain)
  /\ UNCHANGED <<queueVars, generation, turnVars, scheduled, dataVars, host, hist, used>>

\* Any check or wait of submit() may fail, and a receipt answers a request accepted before.
\* A submission that fails late may leave its files pinned to the session.
SubmitEnds ==
  /\ AtHead("submit") /\ Pop
  /\ LET op == Head(chain)
         pin == [f \in Files |-> IF f \in Attached[op.body] /\ files[f] = "draft"
                                 THEN "pinned" ELSE files[f]]
     IN  files' \in IF op.at = "commit" THEN {files, pin} ELSE {files}
  /\ UNCHANGED <<queueVars, generation, turnVars, scheduled, content, host, hist, used>>

\* One receipt too many: the oldest whose message is no longer queued goes (the last one, by
\* splice(-1, 1), if there is none).
MutantTrimmed(receipts, live) ==
  {IF Len(receipts) <= ReceiptCap THEN receipts ELSE Tail(receipts)}
Trimmed(receipts, live) ==
  LET dead == {k \in DOMAIN receipts : receipts[k] \notin live}
      evicted == IF dead = {} THEN {Len(receipts)}
                 ELSE {k \in dead : \A j \in dead : k <= j}
  IN  IF Len(receipts) <= ReceiptCap THEN {receipts}
      ELSE {RemoveAt(receipts, k) : k \in evicted}

\* A submission to an empty queue starts it, unless it was stopped since.
MutantResumes(cap) == mem.items = << >>
Resumes(cap) == mem.items = << >> /\ cap.gen = generation

SubmitCommit ==
  /\ AtHead("submit") /\ Head(chain).at = "commit"
  /\ LET op == Head(chain)
         m == Len(content) + 1
         items == Append(mem.items, m)
     IN
     /\ Admitted(op.cap) /\ m \in Messages
     /\ \A f \in Attached[op.body] : files[f] \in {"draft", "pinned"}
     /\ \E kept \in Trimmed(Append(mem.receipts, m), Range(items)) :
          Commit([mem EXCEPT !.items = items, !.receipts = kept,
                             !.paused = @ /\ ~Resumes(op.cap),
                             !.note = IF Resumes(op.cap) THEN "none" ELSE @])
     /\ content' = Append(content, [req |-> op.req, body |-> op.body])
     /\ \E mark \in {"held", "pinned"} :  \* the last write of the record may fail
          files' = [f \in Files |-> IF f \in Attached[op.body] THEN mark ELSE files[f]]
  /\ Pop /\ Wake
  /\ UNCHANGED <<generation, turnVars, host, hist>>

-----------------------------------------------------------------------------
\* remove() and removeAttachment().

RemoveCall(m) ==
  /\ m \in Live(mem)
  /\ Call([kind |-> "remove", msg |-> m]) /\ UNCHANGED <<priority, used>>

Withdrawable(m) == m \in Live(mem) \ mem.sending /\ priority.msg # m

RemoveItem ==
  /\ AtHead("remove") /\ Pop
  /\ LET m == Head(chain).msg
         allowed == host.gate = "open" /\ Withdrawable(m)
     IN
     \/ /\ allowed /\ Commit([mem EXCEPT !.items = Without(@, m)])
        /\ hist' = [hist EXCEPT !.withdrawn = @ \cup {m}]
     \/ ~allowed /\ UNCHANGED <<queueVars, hist, used>>
     \/ allowed /\ CommitFails /\ UNCHANGED hist
  /\ UNCHANGED <<generation, turnVars, scheduled, dataVars, host>>

DetachCall(f) ==
  Call([kind |-> "detach", file |-> f]) /\ UNCHANGED <<priority, used>>

Unreferenced(f) == \A m \in Live(mem) : f \notin FilesOf(m)

Detach ==
  /\ AtHead("detach") /\ Pop
  /\ LET f == Head(chain).file IN
     \/ /\ Unreferenced(f)
        /\ files' = [files EXCEPT ![f] = IF @ \in {"draft", "gone"} THEN "gone" ELSE "held"]
     \/ files' = files  \* refused, or the record could not be saved
  /\ UNCHANGED <<queueVars, generation, turnVars, scheduled, content, host, hist, used>>

-----------------------------------------------------------------------------
\* pause(): synchronous, outside the chain.  Stop, interrupt and a failed workflow call it.
Stop ==
  /\ loaded /\ hist.stops < MaxStops
  /\ Pause(mem, hist)
  /\ UNCHANGED <<chain, turnVars, scheduled, dataVars, host>>

\* resume(): first saves an outcome that could not be saved, then lets the queue run unless
\* a stop came after the call.
ResumeCall ==
  /\ Control
  /\ Call(IF failedAck = NoAck THEN [kind |-> "resume", cap |-> Captured]
          ELSE [kind |-> "reack", msg |-> failedAck.msg, ok |-> failedAck.ok,
                cap |-> Captured])
  /\ UNCHANGED priority

\* The user lets the queue run: what was handed to the executor before may run again.
Released == [hist EXCEPT !.tainted = mem.sending]
Running == [mem EXCEPT !.paused = FALSE, !.note = "none"]

Resume ==
  /\ AtHead("resume") /\ Pop
  /\ LET cap == Head(chain).cap
         allowed == Admitted(cap) /\ cap.gen = generation /\ priority = NoPriority
     IN
     \/ allowed /\ Commit(Running) /\ Wake /\ hist' = Released
     \/ ~allowed /\ UNCHANGED <<queueVars, scheduled, hist, used>>
     \/ allowed /\ CommitFails /\ UNCHANGED <<scheduled, hist>>
  /\ UNCHANGED <<generation, turnVars, dataVars, host>>

\* complete(): a turn that a sendNow interrupted is done with whatever its outcome.
MutantAlwaysDone(m, ok) == [mem EXCEPT !.items = Without(@, m), !.sending = @ \ {m}]
MutantNotReplaced(m, ok) ==
  IF ok THEN [mem EXCEPT !.items = Without(@, m), !.sending = @ \ {m}]
  ELSE [mem EXCEPT !.sending = @ \ {m}, !.paused = TRUE, !.note = "other"]
Completed(m, ok) ==
  IF ok \/ m \in replaced THEN [mem EXCEPT !.items = Without(@, m), !.sending = @ \ {m}]
  ELSE [mem EXCEPT !.sending = @ \ {m}, !.paused = TRUE, !.note = "other"]

Reacknowledge ==
  /\ AtHead("reack") /\ Pop
  /\ LET op == Head(chain) IN
     \/ /\ Commit(Completed(op.msg, op.ok))
        /\ replaced' = replaced \ {op.msg} /\ failedAck' = NoAck
        /\ settling' = settling \cup {op.cap}
     \/ CommitFails /\ UNCHANGED <<replaced, failedAck, settling>>
  /\ UNCHANGED <<generation, active, priority, scheduled, dataVars, host, hist>>

\* options.settled returned, or rejected and the resume with it.
ResumeSettled ==
  /\ \E cap \in settling :
       /\ settling' = settling \ {cap}
       /\ \/ Enqueue([kind |-> "resume", cap |-> cap])
          \/ SettleMayFail /\ chain' = chain
  /\ UNCHANGED <<queueVars, generation, active, priority, replaced, failedAck, scheduled,
                 dataVars, host, hist, used>>

-----------------------------------------------------------------------------
\* sendNow() and prioritize(): hold the queue, put the message first, interrupt the running
\* turn, release the queue.

SendNowCall(m) ==
  /\ Control /\ m \in DOMAIN content
  /\ failedAck = NoAck /\ priority = NoPriority
  /\ Call([kind |-> "select", cap |-> Captured])
  /\ priority' = [NoPriority EXCEPT !.at = "selecting", !.msg = m]

Ended == priority' = [priority EXCEPT !.at = "ended"]

\* The commit may fail after the generation has already moved on.
Select ==
  /\ AtHead("select") /\ Pop
  /\ LET m == priority.msg
         cap == Head(chain).cap
         good == /\ Admitted(cap) /\ cap.gen = generation
                 /\ m \in Live(mem) \ mem.sending
     IN
     \/ ~good /\ Ended /\ UNCHANGED <<queueVars, generation, replaced, hist, used>>
     \/ /\ good /\ generation' = generation + 1
        /\ Commit([mem EXCEPT !.paused = TRUE, !.items = ToFront(@, m)])
        /\ replaced' = replaced \cup mem.sending
        /\ hist' = [hist EXCEPT !.superseded = @ \cup mem.sending]
        /\ priority' = [priority EXCEPT !.at = "interrupting", !.epoch = generation + 1,
                                        !.cap = cap]
     \/ /\ good /\ generation' = generation + 1
        /\ CommitFails /\ Ended /\ UNCHANGED <<replaced, hist>>
  /\ UNCHANGED <<active, failedAck, settling, scheduled, dataVars, host>>

\* interrupt() returned and the turn it stopped has ended.
Interrupted ==
  /\ priority.at = "interrupting" /\ active = Idle /\ failedAck = NoAck
  /\ Enqueue([kind |-> "release", epoch |-> priority.epoch, cap |-> priority.cap])
  /\ priority' = [priority EXCEPT !.at = "releasing"]
  /\ UNCHANGED <<queueVars, generation, active, replaced, failedAck, settling, scheduled,
                 dataVars, host, hist, used>>

\* interrupt() or the turn failed, or its outcome could not be saved.
InterruptFails ==
  /\ priority.at = "interrupting"
  /\ PauseWithError /\ Ended
  /\ UNCHANGED <<chain, active, replaced, failedAck, settling, scheduled, dataVars, host>>

\* A stop or a maintenance since the selection wins over the release.
Release ==
  /\ AtHead("release") /\ Pop /\ Ended
  /\ LET current == generation = Head(chain).epoch
         admitted == Admitted(Head(chain).cap)
     IN
     \/ ~current /\ UNCHANGED <<queueVars, generation, hist, used>>
     \/ current /\ admitted /\ Commit(Running) /\ hist' = Released /\ UNCHANGED generation
     \/ current /\ (~admitted \/ used.faults < MaxFaults) /\ PauseWithError
  /\ UNCHANGED <<active, replaced, failedAck, settling, scheduled, dataVars, host>>

\* operation.finally: the next sendNow may come.
PriorityEnds ==
  /\ priority.at = "ended" /\ priority' = NoPriority
  /\ scheduled' \in WakesAfter(TRUE)
  /\ UNCHANGED <<queueVars, chain, generation, active, replaced, failedAck, settling,
                 dataVars, host, hist, used>>

-----------------------------------------------------------------------------
\* wake(), dispatch() and the life of a dispatched turn.

FireWake ==
  /\ scheduled /\ scheduled' = FALSE
  /\ Enqueue([kind |-> "dispatch"])
  /\ host' = [host EXCEPT !.refused = FALSE]
  /\ UNCHANGED <<queueVars, generation, turnVars, dataVars, hist, used>>

Dispatchable ==
  /\ ~mem.paused /\ ~(Live(mem) \subseteq mem.sending) /\ active = Idle
  /\ priority = NoPriority /\ failedAck = NoAck /\ ~host.busy

FirstQueued(m) ==
  \E i \in DOMAIN mem.items :
    /\ mem.items[i] = m /\ m \notin mem.sending
    /\ \A j \in 1..(i - 1) : mem.items[j] \in mem.sending

Dispatch ==
  /\ AtHead("dispatch") /\ Pop
  /\ \/ ~Dispatchable /\ UNCHANGED <<queueVars, generation, active, hist, used>>
     \/ /\ Dispatchable /\ host.gate = "open"
        /\ \E m \in Live(mem) :
             /\ FirstQueued(m)
             /\ Commit([mem EXCEPT !.sending = @ \cup {m}])
             /\ active' = [at |-> "running", msg |-> m, ok |-> FALSE]
             /\ hist' = [hist EXCEPT !.tainted = @ \cup {m}]
        /\ UNCHANGED generation
     \/ /\ Dispatchable /\ (host.gate # "open" \/ used.faults < MaxFaults)
        /\ PauseWithError /\ UNCHANGED active
  /\ UNCHANGED <<priority, replaced, failedAck, settling, scheduled, dataVars, host>>

\* options.run() settles; a turn that got as far as sending has marked its attachments.
TurnEnds ==
  /\ active.at = "running"
  /\ \E ok \in BOOLEAN :
       /\ active' = [active EXCEPT !.at = "acking", !.ok = ok]
       /\ hist' = IF ok THEN [hist EXCEPT !.succeeded = @ \cup {active.msg}] ELSE hist
       /\ LET sent == [f \in Files |-> IF f \in FilesOf(active.msg) THEN "held" ELSE files[f]]
          IN  files' \in IF ok THEN {sent} ELSE {files, sent}
  /\ Enqueue([kind |-> "complete"])
  /\ UNCHANGED <<queueVars, generation, priority, replaced, failedAck, settling, scheduled,
                 content, host, used>>

Complete ==
  /\ AtHead("complete") /\ Pop
  /\ \/ /\ Commit(Completed(active.msg, active.ok))
        /\ replaced' = replaced \ {active.msg}
        /\ active' = [active EXCEPT !.at = "acked"]
     \/ CommitFails /\ active' = [active EXCEPT !.at = "unacked"] /\ UNCHANGED replaced
  /\ UNCHANGED <<generation, priority, failedAck, settling, scheduled, dataVars, host, hist>>

\* The outcome could not be saved: it is kept, and the queue stands still.
Still(q) == [q EXCEPT !.paused = TRUE, !.sending = {}, !.note = "other"]
KeepOutcome ==
  /\ active.at = "unacked" /\ active' = [active EXCEPT !.at = "closing"]
  /\ failedAck' = [msg |-> active.msg, ok |-> active.ok]
  /\ mem' = Still(mem)
  /\ generation' = generation + 1 /\ hist' = [hist EXCEPT !.stops = @ + 1]
  /\ UNCHANGED <<disk, loaded, chain, priority, replaced, settling, scheduled, dataVars, host,
                 used>>

TurnCloses ==
  /\ active.at \in {"acked", "closing"} /\ active' = Idle
  /\ scheduled' \in WakesAfter(failedAck = NoAck)
  /\ UNCHANGED <<queueVars, chain, generation, priority, replaced, failedAck, settling,
                 dataVars, host, hist, used>>

-----------------------------------------------------------------------------
\* delete(), inside the management of the session that closes its gate for good.
Delete ==
  /\ loaded /\ host.gate = "closed" /\ ~HasActive
  /\ disk' = EmptyQueue /\ mem' = EmptyQueue /\ loaded' = FALSE /\ generation' = 0
  /\ host' = [host EXCEPT !.deleted = TRUE]
  /\ UNCHANGED <<chain, turnVars, scheduled, dataVars, hist, used>>

\* The host opens and closes the gate, runs something else in the session, or maintains the
\* engine, which stops every queue of it.
GateMoves ==
  /\ ~host.deleted
  /\ \E gate \in {"open", "closed"} \ {host.gate} : host' = [host EXCEPT !.gate = gate]
  /\ UNCHANGED <<queueVars, chain, generation, turnVars, scheduled, dataVars, hist, used>>
Maintain ==
  /\ loaded /\ host.gate # "maintenance" /\ ~host.deleted
  /\ host.epoch < MaxMaintenance /\ hist.stops < MaxStops
  /\ host' = [host EXCEPT !.gate = "maintenance", !.epoch = @ + 1]
  /\ Pause(mem, [hist EXCEPT !.fence = hist.stops + 1])
  /\ UNCHANGED <<chain, turnVars, scheduled, dataVars>>
BusyBegins ==
  /\ Control /\ ~host.busy /\ active = Idle /\ host.gate = "open"
  /\ host' = [host EXCEPT !.busy = TRUE]
  /\ UNCHANGED <<queueVars, chain, generation, turnVars, scheduled, dataVars, hist>>
\* What was admitted is over: the release of its directories, then the wake.
BusyEnds ==
  /\ host.busy /\ host' = [host EXCEPT !.busy = FALSE]
  /\ scheduled' \in WakesAfter(TRUE)
  /\ UNCHANGED <<queueVars, chain, generation, turnVars, dataVars, hist, used>>
\* reserve() refuses (no room, a conflict of directories, side effects nobody has confirmed):
\* the admission goes, and nobody wakes the queue.
AdmissionRefused ==
  /\ host.busy /\ host' = [host EXCEPT !.busy = FALSE, !.refused = ~scheduled]
  /\ UNCHANGED <<queueVars, chain, generation, turnVars, scheduled, dataVars, hist, used>>

\* The application goes away, and comes back with nothing but the files.
Crash ==
  /\ used.crashes < MaxCrashes /\ used' = [used EXCEPT !.crashes = @ + 1]
  /\ mem' = EmptyQueue /\ loaded' = FALSE /\ chain' = << >> /\ generation' = 0
  /\ active' = Idle /\ priority' = NoPriority /\ replaced' = {} /\ failedAck' = NoAck
  /\ settling' = {} /\ scheduled' = FALSE
  /\ host' = [gate |-> IF host.deleted THEN "closed" ELSE "open", epoch |-> 0,
              busy |-> FALSE, deleted |-> host.deleted, refused |-> FALSE]
  /\ hist' = [hist EXCEPT !.stops = 0, !.fence = 0, !.unsure = @ \cup Live(disk)]
  /\ UNCHANGED <<disk, dataVars>>

UserNext ==
  \/ \E req \in Requests, body \in Bodies : SubmitCall(req, body)
  \/ \E m \in Messages : RemoveCall(m) \/ SendNowCall(m)
  \/ \E f \in Files : DetachCall(f)
  \/ ResumeCall \/ Stop \/ Delete
HeadStep ==
  \/ SubmitAdmit \/ SubmitEnds \/ SubmitCommit \/ RemoveItem \/ Detach \/ Resume
  \/ Reacknowledge \/ Select \/ Release \/ Dispatch \/ Complete
QueueNext ==
  \/ Load \/ HeadStep \/ ResumeSettled \/ Interrupted \/ InterruptFails \/ PriorityEnds
  \/ FireWake \/ KeepOutcome \/ TurnCloses
HostNext ==
  \/ TurnEnds \/ GateMoves \/ Maintain \/ BusyBegins \/ BusyEnds \/ AdmissionRefused
  \/ Crash
Next == UserNext \/ QueueNext \/ HostNext

Spec == Init /\ [][Next]_vars

\* Every callback of the queue eventually runs: promise reactions and setImmediate are not
\* starved, storage and attachment calls return.  The executor ends its turns, answers an
\* interrupt (interruptForQueue has a deadline) and lets go of the session.  Users owe nothing.
Fairness ==
  /\ WF_vars(Load) /\ WF_vars(HeadStep) /\ WF_vars(FireWake)
  /\ WF_vars(KeepOutcome) /\ WF_vars(TurnCloses) /\ WF_vars(ResumeSettled)
  /\ WF_vars(Interrupted \/ InterruptFails) /\ WF_vars(PriorityEnds)
  /\ WF_vars(TurnEnds) /\ WF_vars(BusyEnds \/ AdmissionRefused)
FairSpec == Spec /\ Fairness

-----------------------------------------------------------------------------
\* Safety.

\* An accepted message is in the file until a turn succeeded with it, a sendNow superseded
\* its turn, the user removed it or the session went: no failed save, stop or crash in
\* between loses it.
AcceptedNotLost ==
  \A m \in DOMAIN content : \/ m \in Live(disk) \/ host.deleted
                            \/ m \in hist.succeeded \cup hist.superseded \cup hist.withdrawn

\* A queue that runs by itself holds no message that was handed to the executor before and
\* not released by a resume or a sendNow since: an outcome nobody has looked at is never
\* executed twice.
NothingReplayedUnasked ==
  loaded /\ ~mem.paused => (Live(mem) \ mem.sending) \cap hist.tainted = {}

\* Two queued messages never answer the same submission, whatever receipts were evicted: a
\* queued message keeps its receipt.
OneMessagePerRequest ==
  \A m, n \in Live(mem) : /\ m \in Range(mem.receipts)
                          /\ m # n => content[m].req # content[n].req

\* The files of a queued message exist and belong to no other message, although a removal
\* of the attachment may race with its submission.
AttachmentsKept ==
  \A m \in Live(mem) \cup Live(disk) : \A f \in FilesOf(m) :
    /\ files[f] # "gone"
    /\ \A n \in Live(mem) : f \in FilesOf(n) => m = n

\* Action properties.
Caller == Head(chain).cap

\* An operation that was called before a stop never starts the queue after it, however long
\* it waited.
StopWins ==
  [][loaded /\ loaded' /\ mem.paused /\ ~mem'.paused => Caller.born = hist.stops]_vars

\* A submission called before a maintenance of the engine is not accepted after it, and no
\* late operation brings back the queue of a deleted session.
MaintenanceFences ==
  [][/\ loaded /\ loaded' /\ content' # content => Caller.born >= hist.fence
     /\ host.deleted => mem'.items = << >> /\ disk'.items = << >>]_vars

\* A turn that succeeded or that a sendNow superseded is not started again unless the
\* application stopped before its outcome was saved.
OutcomeIsFinal ==
  [][\A m \in mem'.sending \ mem.sending :
       m \in hist.succeeded \cup hist.superseded => m \in hist.unsure]_vars

\* Liveness.
Runs(m) == loaded /\ m \in Live(mem) /\ ~mem.paused /\ host.gate = "open"

\* What ChatQueue.tsx shows of a queue that is not paused: its messages are sent in turn.
\* Every message leaves an unpaused queue, unless it pauses or the session becomes
\* unavailable: where saves and releases succeed, whatever makes a dispatch wait wakes the
\* queue when it ends, whichever of its callbacks comes first.  The code makes one exception:
\* an admission that reserve() refuses (session-service.ts:514) ends without a wake, and the
\* queue may then stand still until something else wakes it.
Progress == \A m \in Messages : []<>(~Runs(m) \/ host.refused)
=============================================================================
