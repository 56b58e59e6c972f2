---------------------------- MODULE ClaudeRuntime ----------------------------
(***************************************************************************)
(* The structured runtime of Claude Code for one session                   *)
(* (packages/engine-claude): the calls of ClaudeRuntime, the connection to *)
(* the CLI process with its tree, and the CLI as the other end of a pair   *)
(* of pipes.  Processes are numbered in the order they are started.        *)
(***************************************************************************)
EXTENDS Integers, Sequences, FiniteSets

CONSTANTS
  Waiters,    \* calls of stopAndWait, stopIdle, interruptAndWait, disconnectAll
  MaxStarts,  \* bound on the processes of the session
  MaxSends,   \* bound on its messages
  MaxFrames,  \* bound on the frames of the CLI that are on their way
  MaxFaults   \* bound on unexpected exits, failed saves, late or failed clean-ups

ASSUME ClaudeAssumption == MaxStarts \in Nat /\ MaxSends \in Nat /\ MaxFrames \in Nat \ {0}

VARIABLES
  entries,      \* the process in the map `entries`, 0 if none
  releasing,    \* the process in `releasing`
  releaseError, \* `releaseErrors` has the session
  releaseCompletions, \* the process whose completion waits for its tree, 0 if none does
  starting,     \* `starting` has the session
  op,           \* the call that holds `busy`
  conn,         \* per process its Entry, its ClaudeConnection and the CLI itself
  finalizeFailed, \* terminationFailed, as set by a completion that cannot be recorded
  waiter,       \* the calls that wait for a release
  hist,         \* what was answered and told, and what it may be compared with
  faults        \* bound: faults so far

vars == <<entries, releasing, releaseError, releaseCompletions, starting, op, conn, finalizeFailed, waiter, hist, faults>>

Processes == 1 .. MaxStarts
Sends == 1 .. MaxSends
Initialize == [sub |-> "initialize", turn |-> 0]
SetMode == [sub |-> "set", turn |-> 0]
InterruptOf(t) == [sub |-> "interrupt", turn |-> t]

NoOp == [kind |-> "none", pc |-> "none", turn |-> 0, conn |-> 0, cancelled |-> FALSE,
         behind |-> FALSE]
NoProcess ==
  [root |-> "none", kin |-> FALSE, closed |-> FALSE, by |-> 0,
   ending |-> FALSE, term |-> "none", controls |-> {}, ready |-> FALSE,
   turn |-> 0, interrupted |-> FALSE, timer |-> FALSE, approval |-> FALSE,
   tasks |-> FALSE, waiting |-> FALSE, background |-> FALSE,
   input |-> <<>>, out |-> <<>>, work |-> 0, task |-> "none", asking |-> "no"]
NoWaiter == [kind |-> "none", pc |-> "none", entry |-> 0, sends |-> 0, upto |-> 0, completion |-> 0]

Init ==
  /\ entries = 0 /\ releasing = 0 /\ releaseError = FALSE /\ releaseCompletions = 0 /\ starting = FALSE
  /\ op = NoOp
  /\ conn = [c \in Processes |-> NoProcess]
  /\ finalizeFailed = FALSE
  /\ waiter = [w \in Waiters |-> NoWaiter]
  /\ hist = [sends |-> 0, success |-> FALSE, done |-> 0, told |-> 0, lost |-> {}]
  /\ faults = 0

-----------------------------------------------------------------------------
(* What the runtime asks of itself.                                        *)

Started == Cardinality({c \in Processes : conn[c].root # "none"})
Alive(c) == conn[c].root = "up" \/ conn[c].kin
busy == op.kind # "none"
\* Maintenance lasts as long as the call of disconnectAll(), a shutdown for good.
Ended == {"ok", "failed"}
maintenance == \E w \in Waiters : waiter[w].kind = "all" /\ waiter[w].pc \notin Ended
shuttingDown == \E w \in Waiters : waiter[w].kind = "exit"
Paused == shuttingDown \/ maintenance
\* MUTANT: a process that is being released does not keep the next one away.
HasOfEntries == entries # 0 \/ starting

has == entries # 0 \/ releasing # 0 \/ starting
isBusy ==
  LET e == IF entries # 0 THEN entries ELSE releasing
  IN  \/ busy \/ starting
      \/ e # 0 /\ (conn[e].turn # 0 \/ conn[e].tasks \/ conn[e].approval \/ conn[e].controls # {})
\* The processes in `terminations` whose tree is not yet known to be gone.
terminations == {c \in Processes : (conn[c].ending \/ conn[c].closed) /\ conn[c].term = "due"}

Fault == faults < MaxFaults /\ faults' = faults + 1

\* ClaudeConnection.terminate(), with what ClaudeRuntime.terminate clears before it.
Terminated(r) ==
  [r EXCEPT !.ending = TRUE, !.controls = {}, !.approval = FALSE, !.background = FALSE,
            !.term = IF @ = "none" THEN "due" ELSE @,
            !.input = <<>>, !.out = <<>>, !.work = 0, !.task = "none", !.asking = "no"]
\* What finish() leaves of a turn.
Finished(r) ==
  [r EXCEPT !.turn = 0, !.interrupted = FALSE, !.timer = FALSE, !.tasks = FALSE,
            !.waiting = FALSE, !.background = FALSE, !.approval = FALSE]
\* The timeout for a CLI that owes its last result, set again by every frame.
Refreshed(r) ==
  [r EXCEPT !.background = r.waiting /\ r.turn # 0 /\ ~r.interrupted /\ ~r.tasks /\ ~r.approval /\ ~r.ending]

\* The call that holds busy returns or throws; the answer of a message is a success,
\* or says that it failed, was interrupted or was refused.
EndOp(success) ==
  /\ op' = NoOp /\ starting' = FALSE
  /\ hist' = [hist EXCEPT !.done = 0, !.success = success /\ op.kind = "send"]
\* It ends with process c when it waits for a control or for a result of c.
WaitsFor(c) == op.conn = c /\ op.pc \in {"init", "control", "result"}
OpEndsWith(c) ==
  IF WaitsFor(c) THEN EndOp(FALSE) ELSE UNCHANGED <<op, starting, hist>>

\* fail(): the turn ends as failed and the process is told to end.
Fail(c, r) ==
  IF r.ending THEN UNCHANGED <<conn, op, starting, hist>>
  ELSE conn' = [conn EXCEPT ![c] = Terminated(Finished(r))] /\ OpEndsWith(c)

\* MUTANT: stop() does not take back a start.
StopKeepsStart(now) ==
  LET live == entries # 0 /\ ~now[entries].ending
  IN  /\ conn' = IF live THEN [now EXCEPT ![entries] = Terminated(Finished(@))] ELSE now
      /\ IF live /\ WaitsFor(entries)
           THEN EndOp(FALSE)
           ELSE op' = [op EXCEPT !.cancelled = busy] /\ UNCHANGED <<starting, hist>>

\* stop(), with the processes as they are when it is called.
StopEffect(now) ==
  LET live == entries # 0 /\ ~now[entries].ending
  IN  /\ conn' = IF live THEN [now EXCEPT ![entries] = Terminated(Finished(@))] ELSE now
      /\ IF live /\ WaitsFor(entries)
           THEN EndOp(FALSE)
           ELSE op' = [op EXCEPT !.cancelled = busy] /\ starting' = FALSE /\ UNCHANGED hist

-----------------------------------------------------------------------------
(* send, prepareCommands, start.                                           *)

Send ==
  /\ ~Paused /\ ~busy /\ ~(entries # 0 /\ conn[entries].approval)
  /\ hist.sends < MaxSends
  /\ op' = [NoOp EXCEPT !.kind = "send", !.pc = "hydrate", !.turn = hist.sends + 1]
  /\ hist' = [hist EXCEPT !.sends = @ + 1, !.success = FALSE]
  /\ UNCHANGED <<entries, releasing, releaseError, releaseCompletions, starting, conn, finalizeFailed, waiter, faults>>

Prepare ==
  /\ ~Paused /\ ~busy /\ ~starting /\ entries = 0 /\ Started < MaxStarts
  /\ op' = [NoOp EXCEPT !.kind = "prepare", !.pc = "hydrate"]
  /\ UNCHANGED <<entries, releasing, releaseError, releaseCompletions, starting, conn, finalizeFailed, waiter, hist, faults>>

\* History: the CLI has not told all of an earlier message yet, or not even read it.
CliBehind(c) ==
  \/ conn[c].work # 0
  \/ \E k \in DOMAIN conn[c].input : conn[c].input[k].sub = "user"
  \/ \E k \in DOMAIN conn[c].out : conn[c].out[k].sub = "result"

\* A line is written to the pipe of a process; of a dead one the pipe may still be open.
Written(r, line) == [r EXCEPT !.input = IF r.root = "up" THEN Append(@, line) ELSE @]
MayBeShut(r) == r.root # "up"

\* The message is written to process c, whose entry is r.
Begin(c, r) ==
  \/ /\ conn' = [conn EXCEPT ![c] = Written([r EXCEPT !.ready = TRUE, !.turn = op.turn],
                                           [sub |-> "user", turn |-> op.turn])]
     /\ op' = [op EXCEPT !.pc = "result", !.conn = c, !.behind = CliBehind(c)]
     /\ starting' = FALSE /\ UNCHANGED hist
  \/ MayBeShut(r) /\ conn' = [conn EXCEPT ![c] = Terminated(Finished(r))] /\ EndOp(FALSE)

Hydrated ==
  /\ op.pc = "hydrate"
  /\ IF op.kind = "send" /\ (op.cancelled \/ Paused) THEN EndOp(FALSE) /\ UNCHANGED conn
     ELSE IF op.kind = "send" /\ entries # 0
     THEN IF conn[entries].ending \/ ~conn[entries].ready
            THEN EndOp(FALSE) /\ UNCHANGED conn
            ELSE Begin(entries, conn[entries])
     ELSE IF Paused \/ has \/ releaseError \/ Started = MaxStarts
     THEN EndOp(FALSE) /\ UNCHANGED conn
     ELSE starting' = TRUE /\ op' = [op EXCEPT !.pc = "transcript"] /\ UNCHANGED <<conn, hist>>
  /\ releaseCompletions' = IF op'.pc = "transcript" THEN 0 ELSE releaseCompletions
  /\ UNCHANGED <<entries, releasing, releaseError, finalizeFailed, waiter, faults>>

TranscriptKnown ==
  /\ op.pc = "transcript"
  /\ IF Paused \/ ~starting THEN EndOp(FALSE) /\ UNCHANGED <<conn, entries>>
     ELSE LET c == Started + 1
          IN  /\ conn' = [conn EXCEPT ![c] =
                   [NoProcess EXCEPT !.root = "up", !.by = op.turn,
                                     !.controls = {Initialize}, !.input = <<Initialize>>]]
              /\ entries' = c
              /\ op' = [op EXCEPT !.pc = "init", !.conn = c]
              /\ UNCHANGED <<starting, hist>>
  /\ UNCHANGED <<releasing, releaseError, releaseCompletions, finalizeFailed, waiter, faults>>

-----------------------------------------------------------------------------
(* Frames of the CLI.                                                      *)

Becomes(c, r) == conn' = [conn EXCEPT ![c] = r] /\ UNCHANGED <<op, starting, hist>>

\* A control of entry e was answered ("ok"), refused, or not answered in time
\* ("late"); an answer to a control that is not waited for any more does nothing.
Settled(c, e, control, how) ==
  LET r == [e EXCEPT !.controls = @ \ {control}]
  IN  IF control \notin e.controls THEN Becomes(c, e)
      ELSE CASE control = Initialize /\ how = "ok" ->
                  IF op.kind = "send" THEN Begin(c, r)
                  ELSE conn' = [conn EXCEPT ![c] = [r EXCEPT !.ready = TRUE]] /\ EndOp(FALSE)
             [] control = Initialize /\ how # "ok" -> Fail(c, r)
             [] control = SetMode ->
                  IF how = "late" THEN Fail(c, r) ELSE conn' = [conn EXCEPT ![c] = r] /\ EndOp(FALSE)
             \* The catch block of interrupt() stops whatever turn there is by then.
             [] control.sub = "interrupt" ->
                  IF how # "ok" /\ entries = c /\ r.turn # 0
                  THEN StopEffect([conn EXCEPT ![c] = r])
                  ELSE Becomes(c, r)

\* MUTANT: the result ends the turn while its background tasks run.
ResultAlone(c, r, ok) ==
  IF r.turn = 0 THEN Becomes(c, r)
  ELSE /\ conn' = [conn EXCEPT ![c] = Finished(r)]
       /\ EndOp(ok /\ ~r.interrupted)

Result(c, r, ok) ==
  IF r.turn = 0 THEN Becomes(c, r)
  ELSE IF r.tasks /\ ok /\ ~r.interrupted THEN Becomes(c, Refreshed([r EXCEPT !.waiting = TRUE]))
  ELSE /\ conn' = [conn EXCEPT ![c] = Finished(r)]
       /\ EndOp(ok /\ ~r.interrupted)

\* A frame is read while the process is current and not told to end.
Receive(c) ==
  /\ entries = c /\ ~conn[c].ending /\ conn[c].out # <<>>
  /\ LET frame == Head(conn[c].out)
         r == Refreshed([conn[c] EXCEPT !.out = Tail(@)])
     IN  \/ frame.sub = "reply" /\ Settled(c, r, frame.control, IF frame.ok THEN "ok" ELSE "refused")
         \/ /\ frame.sub = "ask"
            /\ Becomes(c, IF r.turn = 0 \/ r.interrupted THEN [r EXCEPT !.asking = "done"]
                          ELSE Refreshed([r EXCEPT !.approval = TRUE]))
         \/ frame.sub = "task" /\ Becomes(c, Refreshed([r EXCEPT !.tasks = TRUE]))
         \/ frame.sub = "taskdone" /\ Becomes(c, Refreshed([r EXCEPT !.tasks = FALSE]))
         \/ frame.sub = "result" /\ Result(c, r, frame.ok)
         \/ frame.sub = "bad" /\ Fail(c, r)
  /\ UNCHANGED <<entries, releasing, releaseError, releaseCompletions, finalizeFailed, waiter, faults>>

\* respond(): the user answers the CLI's request.
Respond ==
  /\ entries # 0
  /\ LET r == conn[entries]
     IN  /\ r.approval /\ r.turn # 0 /\ ~r.interrupted /\ ~r.ending
         /\ conn' = [conn EXCEPT ![entries] = Refreshed([r EXCEPT !.approval = FALSE, !.asking = "done"])]
  /\ UNCHANGED <<entries, releasing, releaseError, releaseCompletions, starting, op, finalizeFailed, waiter, hist, faults>>

ControlTimeout(c) ==
  /\ \E control \in conn[c].controls : Settled(c, conn[c], control, "late")
  /\ UNCHANGED <<entries, releasing, releaseError, releaseCompletions, finalizeFailed, waiter, faults>>

\* The CLI has not confirmed an interrupt in five seconds.
InterruptTimeout(c) ==
  /\ conn[c].timer /\ conn[c].interrupted
  /\ StopEffect(conn)
  /\ UNCHANGED <<entries, releasing, releaseError, releaseCompletions, finalizeFailed, waiter, faults>>

\* Its background tasks have ended, and it is silent.
BackgroundTimeout(c) ==
  /\ LET r == conn[c]
     IN  r.background /\ r.turn # 0 /\ r.waiting /\ ~r.tasks /\ ~r.approval
  /\ Fail(c, conn[c])
  /\ UNCHANGED <<entries, releasing, releaseError, releaseCompletions, finalizeFailed, waiter, faults>>

\* MUTANT: the message whose record cannot be written is not answered.
HistoryFailsSilently ==
  /\ entries # 0 /\ ~conn[entries].ending /\ Fault
  /\ conn' = [conn EXCEPT ![entries] = Terminated([@ EXCEPT !.turn = 0, !.interrupted = FALSE])]
  /\ UNCHANGED <<entries, releasing, releaseError, releaseCompletions, starting, op, finalizeFailed, waiter, hist>>

\* The journal cannot be written: onError of the conversations.
HistoryFails ==
  /\ entries # 0 /\ ~conn[entries].ending /\ Fault
  /\ conn' = [conn EXCEPT ![entries] = Terminated([@ EXCEPT !.turn = 0, !.interrupted = FALSE])]
  /\ OpEndsWith(entries)
  /\ UNCHANGED <<entries, releasing, releaseError, releaseCompletions, finalizeFailed, waiter>>

-----------------------------------------------------------------------------
(* interrupt, updateConfig, maintenance.                                   *)

\* interrupt(): the calls it makes at once; it waits for the control it wrote.  What
\* cannot be written ends it: with an exception if that is the refusal of an
\* approval, otherwise in its catch block.
Interruptible == entries # 0 /\ conn[entries].turn # 0 /\ ~conn[entries].ending
AskedToStop(r, timer) ==
  Written([r EXCEPT !.interrupted = TRUE, !.approval = FALSE, !.timer = timer,
                    !.asking = IF r.approval THEN "done" ELSE @,
                    !.controls = @ \cup {InterruptOf(r.turn)}], InterruptOf(r.turn))

\* MUTANT: nothing ends the turn when the CLI does not confirm.
InterruptUntimed ==
  IF ~Interruptible
  THEN IF starting \/ busy THEN StopEffect(conn) ELSE UNCHANGED <<conn, op, starting, hist>>
  ELSE LET r == conn[entries]
       IN  IF r.interrupted THEN UNCHANGED <<conn, op, starting, hist>>
           ELSE conn' = [conn EXCEPT ![entries] = AskedToStop(r, FALSE)] /\ UNCHANGED <<op, starting, hist>>

InterruptEffect ==
  IF ~Interruptible
  THEN IF starting \/ busy THEN StopEffect(conn) ELSE UNCHANGED <<conn, op, starting, hist>>
  ELSE LET r == conn[entries]
       IN  \/ r.interrupted /\ UNCHANGED <<conn, op, starting, hist>>
           \/ /\ ~r.interrupted
              /\ conn' = [conn EXCEPT ![entries] = AskedToStop(r, TRUE)]
              /\ UNCHANGED <<op, starting, hist>>
           \/ /\ ~r.interrupted /\ MayBeShut(r) /\ r.approval
              /\ conn' = [conn EXCEPT ![entries].interrupted = TRUE]
              /\ UNCHANGED <<op, starting, hist>>
           \/ ~r.interrupted /\ MayBeShut(r) /\ ~r.approval /\ StopEffect(conn)

Interrupt ==
  /\ InterruptEffect /\ (conn' # conn \/ op' # op)
  /\ UNCHANGED <<entries, releasing, releaseError, releaseCompletions, finalizeFailed, waiter, faults>>

\* updateConfig() of a running process: a change of the approval bypass ends it,
\* another change is a control.
Configure ==
  /\ ~busy /\ ~starting /\ entries # 0
  /\ LET r == conn[entries]
         asked == [r EXCEPT !.controls = r.controls \cup {SetMode}]
     IN  /\ ~r.approval /\ ~r.ending
         /\ \/ /\ conn' = [conn EXCEPT ![entries] = Terminated(r)]
               /\ op' = [NoOp EXCEPT !.kind = "config", !.pc = "closing", !.conn = entries]
            \/ /\ conn' = [conn EXCEPT ![entries] = Written(asked, SetMode)]
               /\ op' = [NoOp EXCEPT !.kind = "config", !.pc = "control", !.conn = entries]
  /\ UNCHANGED <<entries, releasing, releaseError, releaseCompletions, starting, finalizeFailed, waiter, hist, faults>>

ConfigEnds ==
  /\ op.pc = "closing" /\ op' = NoOp
  /\ \/ entries = op.conn /\ Fault /\ UNCHANGED hist   \* the deadline
     \/ /\ entries # op.conn /\ conn[op.conn].term \in {"yes", "no"}
        /\ hist' = IF conn[op.conn].term = "yes" /\ ~releaseError
                     THEN [hist EXCEPT !.told = IF @ < op.conn THEN op.conn ELSE @] ELSE hist
        /\ UNCHANGED faults
  /\ UNCHANGED <<entries, releasing, releaseError, releaseCompletions, starting, conn, finalizeFailed, waiter>>

-----------------------------------------------------------------------------
(* The process ends.                                                       *)

\* The exit event: connection.terminate(true).  A dead CLI reads and writes nothing;
\* processes that it has started may live on without it.
Exited(r, kin) ==
  [r EXCEPT !.root = "gone", !.kin = kin, !.term = IF @ = "none" THEN "due" ELSE @,
            !.input = <<>>, !.work = 0, !.task = "none", !.asking = "no"]

RootExits(c) ==
  /\ conn[c].root = "up"
  /\ IF conn[c].term = "none" THEN Fault ELSE UNCHANGED faults
  /\ \E kin \in BOOLEAN : conn' = [conn EXCEPT ![c] = Exited(@, kin)]
  /\ UNCHANGED <<entries, releasing, releaseError, releaseCompletions, starting, op, finalizeFailed, waiter, hist>>

\* The close event, after the last frame: closed(), which starts to track the
\* release.  Recording it may fail.  Its completion follows the end of the tree,
\* if that is not known already.
Closes(c) ==
  /\ conn[c].root = "gone" /\ ~conn[c].closed /\ entries = c
  /\ conn[c].ending \/ conn[c].out = <<>>
  /\ entries' = 0
  /\ LET r == conn[c]
     IN  conn' = [conn EXCEPT ![c] =
           [NoProcess EXCEPT !.root = "gone", !.kin = r.kin, !.closed = TRUE, !.term = r.term,
                             !.ending = r.ending \/ Initialize \in r.controls,
                             !.tasks = r.tasks /\ r.turn = 0]]
  /\ IF WaitsFor(c) THEN EndOp(FALSE) ELSE starting' = FALSE /\ UNCHANGED <<op, hist>>
  /\ releasing' = IF conn[c].term = "yes" THEN 0 ELSE c
  /\ releaseCompletions' = IF conn[c].term = "due" THEN c ELSE 0
  /\ \/ releaseError' = (releaseError \/ conn[c].term = "no") /\ UNCHANGED <<faults, finalizeFailed>>
     \/ releaseError' = TRUE /\ Fault /\ UNCHANGED finalizeFailed
     \/ conn[c].term = "yes" /\ releaseError' = TRUE /\ Fault /\ finalizeFailed' = TRUE
  /\ UNCHANGED waiter

\* terminate() is answered: the tree is gone, or that cannot be confirmed.
TermEnds(c) ==
  /\ conn[c].term = "due"
  /\ \/ ~Alive(c) /\ UNCHANGED faults /\ conn' = [conn EXCEPT ![c].term = "yes"]
     \/ Fault /\ conn' = [conn EXCEPT ![c].term = "no"]
  /\ LET gone == conn'[c].term = "yes"
     IN  IF conn[c].closed
           THEN /\ releasing' = IF gone /\ releasing = c THEN 0 ELSE releasing
                /\ releaseError' = (releaseError \/ ~gone)
           ELSE UNCHANGED <<releasing, releaseError>>
  /\ releaseCompletions' = IF releaseCompletions = c THEN 0 ELSE releaseCompletions
  /\ UNCHANGED <<entries, starting, op, finalizeFailed, waiter, hist>>

terminationFailed ==
  finalizeFailed \/ \E c \in Processes : (conn[c].ending \/ conn[c].closed) /\ conn[c].term = "no"

-----------------------------------------------------------------------------
(* stopAndWait, stopIdle, interruptAndWait, disconnectAll, shutdown.       *)

Goes(w, pc) ==
  waiter' = [waiter EXCEPT ![w] = IF pc \in Ended THEN [NoWaiter EXCEPT !.kind = waiter[w].kind, !.pc = pc]
                                  ELSE [@ EXCEPT !.pc = pc]]
\* The caller is told that nothing of the first n processes is left.
Told(n) == hist' = [hist EXCEPT !.told = IF @ < n THEN n ELSE @]

\* stopAndWait() up to its first wait, called for w.
StopAndWait(w, kind) ==
  LET entry == IF entries # 0 THEN entries ELSE releasing
  IN  /\ releasing' = entry
      /\ StopEffect(conn)
      /\ waiter' = [waiter EXCEPT ![w] = [kind |-> kind, pc |-> IF entry = 0 THEN "poll" ELSE "entry",
                                          entry |-> entry, sends |-> hist.sends, upto |-> 0,
                                          completion |-> 0]]

Stop(w) ==
  /\ waiter[w].pc = "none"
  /\ \/ StopAndWait(w, "stop")
     \/ ~Paused /\ (has \/ busy) /\ StopAndWait(w, "all")   \* setMaintenance, disconnectAll
  /\ UNCHANGED <<entries, releaseError, releaseCompletions, finalizeFailed, faults>>

InterruptAndWait(w) ==
  /\ waiter[w].pc = "none"
  /\ releasing' = IF entries # 0 THEN entries ELSE releasing
  /\ InterruptEffect
  /\ LET waits == entries # 0 /\ conn'[entries].controls # conn[entries].controls /\ ~conn'[entries].ending
         breaks == entries # 0 /\ ~conn[entries].interrupted /\ conn'[entries].interrupted
                   /\ conn'[entries].controls = conn[entries].controls
     IN  waiter' = [waiter EXCEPT ![w] =
           [kind |-> "interrupt", entry |-> releasing', sends |-> hist.sends, upto |-> 0, completion |-> 0,
            pc |-> IF breaks THEN "failed" ELSE IF waits THEN "asked" ELSE "busy"]]
  /\ UNCHANGED <<entries, releaseError, releaseCompletions, finalizeFailed, faults>>

InterruptSettled(w) ==
  /\ waiter[w].pc = "asked"
  /\ \A k \in conn[waiter[w].entry].controls : k.sub # "interrupt"
  /\ Goes(w, "busy")
  /\ UNCHANGED <<entries, releasing, releaseError, releaseCompletions, starting, op, conn, finalizeFailed, hist, faults>>

InterruptDone(w) ==
  /\ waiter[w].pc = "busy"
  /\ IF isBusy THEN Fault ELSE UNCHANGED faults
  /\ StopAndWait(w, "interrupt")
  /\ UNCHANGED <<entries, releaseError, releaseCompletions, finalizeFailed>>

\* What is released is taken out of `releasing`, whichever process is there by now:
\* history keeps one that is closed and not gone.
StillReleasing == {c \in Processes : c = releasing /\ conn[c].closed /\ conn[c].term # "yes"}

\* The root process first, then its tree.
EntryGone(w) ==
  /\ waiter[w].pc = "entry"
  /\ \/ entries = waiter[w].entry /\ Fault /\ Goes(w, "failed") /\ UNCHANGED <<releasing, hist>>
     \/ /\ entries # waiter[w].entry /\ UNCHANGED faults
        /\ conn[waiter[w].entry].term # "due"
        /\ IF conn[waiter[w].entry].term = "yes"
             THEN /\ releasing' = 0 /\ Goes(w, "poll")
                  /\ hist' = [hist EXCEPT !.lost = @ \cup StillReleasing]
             ELSE Goes(w, "failed") /\ UNCHANGED <<releasing, hist>>
     \/ /\ entries # waiter[w].entry /\ conn[waiter[w].entry].term = "due" /\ Fault
        /\ Goes(w, "failed") /\ UNCHANGED <<releasing, hist>>
  /\ UNCHANGED <<entries, releaseError, releaseCompletions, starting, op, conn, finalizeFailed>>

\* whenReleased(): nothing runs, starts or is busy.
Poll(w) ==
  /\ waiter[w].pc = "poll"
  /\ IF entries = 0 /\ ~starting /\ ~busy
       THEN waiter' = [waiter EXCEPT ![w].pc = "completion", ![w].upto = Started,
                                         ![w].completion = releaseCompletions] /\ UNCHANGED faults
       ELSE /\ entries # 0 /\ Goes(w, "failed")
            /\ \/ conn[entries].term = "no" /\ UNCHANGED faults
               \/ conn[entries].term = "yes" /\ Fault
  /\ UNCHANGED <<entries, releasing, releaseError, releaseCompletions, starting, op, conn, finalizeFailed, hist>>

\* Its end, when the completion and the tree of the last process are known.
Released(w) ==
  /\ waiter[w].pc = "completion"
  /\ waiter[w].completion # 0 => conn[waiter[w].completion].term # "due"
  /\ releasing # 0 => conn[releasing].term # "due"
  /\ \/ Fault /\ Goes(w, "failed") /\ UNCHANGED <<releasing, hist>>
     \/ /\ UNCHANGED faults
        /\ IF releaseError \/ (releasing # 0 /\ conn[releasing].term = "no")
             THEN Goes(w, "failed") /\ UNCHANGED <<releasing, hist>>
             ELSE /\ releasing' = 0
                  /\ IF waiter[w].kind = "stop"
                       THEN Goes(w, "ok") /\ Told(waiter[w].upto)
                       ELSE Goes(w, "drain") /\ UNCHANGED hist
  /\ UNCHANGED <<entries, releaseError, releaseCompletions, starting, op, conn, finalizeFailed>>

\* interruptAndWait and disconnectAll look again at what is left.
Drained(w) ==
  /\ waiter[w].pc = "drain"
  /\ LET quiet == ~busy /\ (waiter[w].kind = "all" => terminations = {})
     IN  /\ IF quiet THEN UNCHANGED faults ELSE Fault
         /\ IF quiet /\ ~has /\ (waiter[w].kind = "all" => ~terminationFailed)
              THEN Goes(w, "ok") /\ Told(Started)
              ELSE Goes(w, "failed") /\ UNCHANGED hist
  /\ UNCHANGED <<entries, releasing, releaseError, releaseCompletions, starting, op, conn, finalizeFailed>>

Shutdown(w) ==
  /\ waiter[w].pc = "none" /\ ~shuttingDown
  /\ StopEffect(conn)
  /\ waiter' = [waiter EXCEPT ![w].kind = "exit", ![w].pc = "entries"]
  /\ UNCHANGED <<entries, releasing, releaseError, releaseCompletions, finalizeFailed, faults>>

\* What is still listed after 2.5 seconds is killed.
ShutdownLooks(w) ==
  /\ waiter[w].pc = "entries" /\ Goes(w, "trees")
  /\ IF entries # 0 /\ conn[entries].root = "up"
       THEN \E kin \in BOOLEAN : conn' = [conn EXCEPT ![entries] = Exited(@, kin)]
       ELSE UNCHANGED conn
  /\ UNCHANGED <<entries, releasing, releaseError, releaseCompletions, starting, op, finalizeFailed, hist, faults>>

ShutdownEnds(w) ==
  /\ waiter[w].pc = "trees"
  /\ IF terminations = {} THEN UNCHANGED faults ELSE Fault
  /\ IF terminations = {} /\ ~terminationFailed /\ entries = 0
       THEN Goes(w, "ok") /\ Told(Started)
       ELSE Goes(w, "failed") /\ UNCHANGED hist
  /\ UNCHANGED <<entries, releasing, releaseError, releaseCompletions, starting, op, conn, finalizeFailed>>

-----------------------------------------------------------------------------
(* The CLI and its tools, as the other end of the pipes.                   *)

Frame(sub, control, ok) == [sub |-> sub, control |-> control, ok |-> ok]
Says(c, r, frames) == conn' = [conn EXCEPT ![c] = [r EXCEPT !.out = r.out \o frames]]
External == UNCHANGED <<entries, releasing, releaseError, releaseCompletions, starting, op, finalizeFailed, waiter>>
CanWrite(c) == conn[c].root = "up" /\ Len(conn[c].out) < MaxFrames

\* It takes a message, or answers a control; an interrupt ends its turn with the
\* tasks of that turn.
CliReads(c) ==
  /\ CanWrite(c) /\ conn[c].input # <<>>
  /\ LET head == Head(conn[c].input)
         r == [conn[c] EXCEPT !.input = Tail(@)]
     IN  IF head.sub = "user"
           THEN Says(c, [r EXCEPT !.work = head.turn, !.asking = "no"], <<>>) /\ UNCHANGED hist
           ELSE \E ok \in BOOLEAN :
             LET reply == Frame("reply", head, ok)
                 ends == head.sub = "interrupt" /\ ok /\ r.work # 0
                 result == Frame("result", Initialize, FALSE)
             IN  \/ ~ends /\ Says(c, r, <<reply>>) /\ UNCHANGED hist
                 \/ /\ ends
                    /\ \/ Says(c, [r EXCEPT !.work = 0, !.task = "none", !.asking = "no"], <<reply, result>>)
                       \/ Says(c, [r EXCEPT !.work = 0, !.task = "none", !.asking = "no"], <<result, reply>>)
                    /\ UNCHANGED hist
  /\ External /\ UNCHANGED faults

\* It asks for an approval, starts and ends a background task, reports.
CliWorks(c) ==
  /\ CanWrite(c) /\ conn[c].work # 0 /\ conn[c].asking # "asked"
  /\ LET r == conn[c]
     IN  \/ /\ r.asking = "no" /\ UNCHANGED <<hist, faults>>
            /\ Says(c, [r EXCEPT !.asking = "asked"], <<Frame("ask", Initialize, TRUE)>>)
         \/ /\ r.task = "none" /\ UNCHANGED <<hist, faults>>
            /\ Says(c, [r EXCEPT !.task = "running"], <<Frame("task", Initialize, TRUE)>>)
         \/ /\ r.task \in {"running", "reported"} /\ UNCHANGED <<hist, faults>>
            /\ Says(c, [r EXCEPT !.task = "done"], <<Frame("taskdone", Initialize, TRUE)>>)
         \/ /\ r.task = "running" /\ UNCHANGED <<hist, faults>>
            /\ Says(c, [r EXCEPT !.task = "reported"], <<Frame("result", Initialize, TRUE)>>)
         \/ \E ok \in BOOLEAN :
              /\ ok => r.task \in {"none", "done"}
              /\ Says(c, [r EXCEPT !.work = 0, !.task = "none", !.asking = "no"], <<Frame("result", Initialize, ok)>>)
              /\ hist' = IF ok /\ r.work = op.turn THEN [hist EXCEPT !.done = r.work] ELSE hist
              /\ UNCHANGED faults
         \/ Fault /\ Says(c, r, <<Frame("bad", Initialize, FALSE)>>) /\ UNCHANGED hist
  /\ External

\* A process that the CLI has started, and that has outlived it, ends.
KinEnds(c) ==
  /\ conn[c].kin /\ conn' = [conn EXCEPT ![c].kin = FALSE]
  /\ External /\ UNCHANGED <<hist, faults>>

-----------------------------------------------------------------------------
ProcessStep(c) ==
  \/ Receive(c) \/ ControlTimeout(c) \/ InterruptTimeout(c) \/ BackgroundTimeout(c)
  \/ RootExits(c) \/ Closes(c) \/ TermEnds(c)
  \/ CliReads(c) \/ CliWorks(c) \/ KinEnds(c)
WaiterStep(w) ==
  \/ InterruptSettled(w) \/ InterruptDone(w) \/ EntryGone(w) \/ Poll(w) \/ Released(w) \/ Drained(w)
  \/ ShutdownLooks(w) \/ ShutdownEnds(w)

Next ==
  \/ Send \/ Prepare \/ Hydrated \/ TranscriptKnown \/ Respond \/ HistoryFails
  \/ Interrupt \/ Configure \/ ConfigEnds
  \/ \E c \in Processes : ProcessStep(c)
  \/ \E w \in Waiters : Stop(w) \/ InterruptAndWait(w) \/ Shutdown(w) \/ WaiterStep(w)

Spec == Init /\ [][Next]_vars

\* A due timer fires, and what the CLI has written and its end are delivered.  The CLI
\* itself owes nothing.  Each of these steps is one of the process in entries.
Fairness ==
  /\ WF_vars(\E c \in Processes : InterruptTimeout(c))
  /\ WF_vars(\E c \in Processes : Receive(c))
  /\ WF_vars(\E c \in Processes : Closes(c))

FairSpec == Spec /\ Fairness

-----------------------------------------------------------------------------
(* Properties.                                                             *)

\* What is said to be released is.  Who is told that a session is released can rely
\* on it: nothing of its processes is alive.  A process starts only when nothing is
\* left of the one before, so that two never share a conversation and its directory.
\* (The exception: a call that waits for one process and wakes when the next has closed
\* takes that one out of `releasing`, and nobody knows of it any more.)
\* And what a stop met is over while it waits for the rest: no message called before
\* it has its turn, and no process started for one is left running.  (A process
\* started for the command list may be: prepareCommands does not notice a stop while
\* it loads the history.)
ReleaseIsComplete ==
  /\ \A c \in (1 .. hist.told) \ hist.lost : ~Alive(c)
  /\ \A c, d \in Processes \ hist.lost : Alive(c) /\ Alive(d) => c = d
  /\ \A w \in Waiters : waiter[w].pc \in {"poll", "completion"} =>
       /\ op.pc = "result" => op.turn > waiter[w].sends
       /\ entries # 0 /\ ~conn[entries].ending => conn[entries].by = 0 \/ conn[entries].by > waiter[w].sends

\* A message is answered as successful only when the CLI has finished it, with
\* its background tasks; one that is stopped while it is prepared is never written
\* to a process.  (The exception: the CLI was still busy with an earlier message when
\* this one was written.)
AnswersAreTrue ==
  [][op.kind = "send" =>
       /\ op'.turn # op.turn /\ hist'.success => hist.done = op.turn \/ op.behind
       /\ op.pc # "result" /\ op.cancelled => op'.pc # "result"]_vars

\* A message waits for its result exactly as long as a process that is not told
\* to end has its turn: nobody waits for an answer that nobody will give.
TurnsAreOwned ==
  /\ op.pc = "result" => entries = op.conn /\ conn[entries].turn = op.turn /\ ~conn[entries].ending
  /\ \A c \in Processes : conn[c].turn # 0 => op.pc = "result" /\ op.conn = c

\* An interrupted turn ends, whatever the CLI does: it confirms, or it is stopped.
InterruptsEnd ==
  (\E c \in Processes : conn[c].interrupted) ~> \A c \in Processes : ~conn[c].interrupted
=============================================================================
