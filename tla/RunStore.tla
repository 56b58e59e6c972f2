------------------------------- MODULE RunStore -------------------------------
(***************************************************************************)
(* The run store of a native conversation: an append-only journal on disk, *)
(* one process that may write it, and the recovery of what a process left  *)
(* behind (agent-node/src/run-store.ts, store-files.ts).                   *)
(*                                                                         *)
(* A record keeps its type, its run, the tool call (or the calls of a      *)
(* response) it is about and its outcome; identities, digests, the context *)
(* and the hash chain are left out.  What the store keeps in memory is a   *)
(* replay of the journal, so it is written here as operators on a journal. *)
(* Operators named Mutant... are wrong on purpose: slips the code could    *)
(* have made, which the properties must notice.                            *)
(***************************************************************************)
EXTENDS Naturals, Sequences, FiniteSets, FiniteSetsExt, SequencesExt

CONSTANTS Hosts,       \* processes of the application, one life each
          Runs,        \* runs, each with the request that starts it
          Calls,       \* identities of tool calls
          Reads,       \* the calls without side effects
          Commands,    \* the calls that start a long-lived command
          MaxRecords,  \* limits.maxRecords
          Histories,   \* what the journal of a conversation may already say
          NONE,
          TORN         \* a lock file whose contents are incomplete

ASSUME StoreConstants ==
  /\ Reads \subseteq Calls /\ Commands \subseteq Calls /\ Reads \cap Commands = {}
  /\ MaxRecords \in Nat \ {0}
  /\ NONE \notin Hosts \cup Runs \cup Calls /\ TORN \notin Hosts /\ TORN # NONE

VARIABLES host,      \* host[h]: how far the process is with the store
          seen,      \* seen[h]: the dead owner found in the lock file
          lock,      \* the owner written in .writer-lock, TORN, or NONE
          reclaim,   \* the owner of .writer-recovery-lock, or NONE
          journal,   \* the records on disk
          torn,      \* the journal ends in a part of a record
          poisoned,  \* the writer met a failed append
          live       \* runs whose service was started by the present writer

storeVars == <<host, seen, lock, reclaim, journal, torn, poisoned, live>>
lockVars == <<host, seen, lock, reclaim>>

RecordTypes ==
  {"conversation_created", "startup_prepared", "startup_closed", "run_started", "run_recovered",
   "recovery_resolved", "model_request_started", "model_request_diagnostic", "model_request_failed",
   "model_response", "completion_rejected", "summary_attempted", "summary_settled",
   "tool_prepared", "tool_completed", "command_lifecycle", "run_finished"}
Stops == {"completed", "cancelled", "failed", "budget_exhausted", "recovery_required"}
Outcomes ==
  Stops \cup {"done", "started", "request", "dispatched", "finished", "retry", "final",
              "compacted", "denied", "not_executed", "prepared", "running", "unknown"}
Record == [type : RecordTypes, run : Runs \cup {NONE},
           item : Calls \cup {NONE} \cup Seq(Calls), how : Outcomes]
Rec(t, r, x, v) == [type |-> t, run |-> r, item |-> x, how |-> v]

Created == Rec("conversation_created", NONE, NONE, "done")

-----------------------------------------------------------------------------
(* What a journal says                                                     *)

Of(j, t, r) == {i \in DOMAIN j : j[i].type = t /\ j[i].run = r}
About(j, t, r, c) == {i \in Of(j, t, r) : j[i].item = c}

Started(j, r) == Of(j, "run_started", r) # {}
Recovered(j, r) == Of(j, "run_recovered", r) # {}
Finished(j, r) == Of(j, "run_finished", r) # {}
Resolved(j, r) == Of(j, "recovery_resolved", r) # {}
Active(j, r) == Started(j, r) /\ ~Recovered(j, r) /\ ~Finished(j, r)
MutantBlocked(j, r) == Recovered(j, r) /\ ~Resolved(j, r)

\* recovery_required: found active at a restart, or finished that way
Blocked(j, r) ==
  /\ ~Resolved(j, r)
  /\ \/ Recovered(j, r)
     \/ \E i \in Of(j, "run_finished", r) : j[i].how = "recovery_required"

Attempts(j, r) == Cardinality(Of(j, "model_request_started", r))
Responses(j, r) == Of(j, "model_response", r)
Failures(j, r) == Of(j, "model_request_failed", r)
ModelPending(j, r) == Attempts(j, r) > Cardinality(Responses(j, r) \cup Failures(j, r))
SummaryPending(j, r) == /\ Of(j, "summary_attempted", r) # {}
                        /\ Of(j, "summary_settled", r) = {}

Requested(j, r) == UNION {Range(j[i].item) : i \in Responses(j, r)}
Prepared(j, r, c) == About(j, "tool_prepared", r, c) # {}
\* a resolved recovery completes what was never executed
Completed(j, r, c) == \/ About(j, "tool_completed", r, c) # {}
                      \/ Resolved(j, r) /\ c \in Requested(j, r)
Progress(j, r, c) == {j[i].how : i \in About(j, "command_lifecycle", r, c)}
Uncertain(j, r, c) == /\ Progress(j, r, c) # {}
                      /\ "finished" \notin Progress(j, r, c)
Unresolved(j, r) ==
  \/ ModelPending(j, r) \/ SummaryPending(j, r)
  \/ \E c \in Requested(j, r) : ~Completed(j, r, c) \/ Uncertain(j, r, c)
\* the type of the latest of some records, and the outcome it has
LastType(j, all) == IF all = {} THEN "none" ELSE j[Max(all)].type
LastHow(j, all) == IF all = {} THEN "none" ELSE j[Max(all)].how
Outcome(j, r) == LastType(j, Responses(j, r) \cup Failures(j, r))
Boundary(j, r) == LastType(j, Responses(j, r) \cup Of(j, "completion_rejected", r))

StartupOpen(j, r) == Of(j, "startup_prepared", r) # {} /\ Of(j, "startup_closed", r) = {}
RecoveredStartups == {r \in Runs \ live : StartupOpen(journal, r)}

-----------------------------------------------------------------------------
(* Which record may follow a journal (validateEvent)                       *)

Idle(j) == \A r \in Runs : ~Active(j, r) /\ ~Blocked(j, r)

ValidLife(j, e) == LET r == e.run IN
  \/ /\ e.type = "startup_prepared"
     /\ Idle(j) /\ ~Started(j, r) /\ Of(j, "startup_prepared", r) = {}
     /\ \A s \in Runs \ {r} : ~StartupOpen(j, s)
  \/ e.type = "startup_closed" /\ StartupOpen(j, r)
  \/ /\ e.type = "run_started"
     /\ Idle(j) /\ ~Started(j, r) /\ Of(j, "startup_closed", r) = {}
     /\ \A s \in Runs \ {r} : ~StartupOpen(j, s)
  \/ e.type = "run_recovered" /\ Active(j, r)
  \/ /\ e.type = "recovery_resolved" /\ Blocked(j, r)
     /\ \A d \in Requested(j, r) : ~Uncertain(j, r, d) /\ (Prepared(j, r, d) => Completed(j, r, d))

ValidModel(j, e) == LET r == e.run IN
  \/ /\ e.type = "model_request_started"
     /\ ~ModelPending(j, r) /\ ~SummaryPending(j, r)
     /\ Outcome(j, r) = "model_request_failed" => LastHow(j, Failures(j, r)) = "retry"
     /\ \A d \in Requested(j, r) : Completed(j, r, d)
  \/ e.type \in {"model_request_diagnostic", "model_request_failed"} /\ ModelPending(j, r)
  \/ /\ e.type = "model_response" /\ (Attempts(j, r) > 0 => ModelPending(j, r))
     /\ \A d \in Requested(j, r) : Completed(j, r, d)
     /\ IsInjective(e.item) /\ Range(e.item) \cap Requested(j, r) = {}
  \/ e.type = "completion_rejected" /\ Boundary(j, r) = "model_response"
  \/ /\ e.type = "summary_attempted" /\ Of(j, "summary_attempted", r) = {}
     /\ ~Unresolved(j, r) /\ Outcome(j, r) = "model_response"
     /\ Cardinality(UNION {Responses(j, s) : s \in Runs}) > 1
  \/ e.type = "summary_settled" /\ SummaryPending(j, r)

Open(j, r, c) == c \in Requested(j, r) /\ ~Completed(j, r, c)

ValidCommand(j, e) == LET known == Progress(j, e.run, e.item) IN
  /\ e.type = "command_lifecycle" /\ Prepared(j, e.run, e.item)
  /\ IF e.how = "prepared" THEN known = {} /\ Open(j, e.run, e.item)
     ELSE "prepared" \in known /\ known \cap {"finished", "unknown", e.how} = {}

ValidTool(j, e) == LET known == Progress(j, e.run, e.item) IN
  \/ e.type = "tool_prepared" /\ Open(j, e.run, e.item) /\ ~Prepared(j, e.run, e.item)
  \/ /\ e.type = "tool_completed" /\ Open(j, e.run, e.item) /\ "unknown" \notin known
     /\ e.how = "completed" =>
          /\ Prepared(j, e.run, e.item)
          /\ e.item \in Commands => known \cap {"running", "finished"} # {}

ValidEnd(j, e) ==
  /\ e.type = "run_finished"
  /\ Unresolved(j, e.run) => e.how = "recovery_required"
  /\ e.how = "completed" => /\ Boundary(j, e.run) # "completion_rejected"
                            /\ Outcome(j, e.run) # "model_request_failed"

Valid(j, e) ==
  \/ ValidLife(j, e)
  \/ Active(j, e.run) /\ (ValidModel(j, e) \/ ValidCommand(j, e) \/ ValidTool(j, e) \/ ValidEnd(j, e))

\* what an opening demands of the journal it finds (load, replay)
Replays(j) ==
  /\ j[1] = Created
  /\ \A i \in 2..Len(j) : Valid(SubSeq(j, 1, i - 1), j[i])

-----------------------------------------------------------------------------
(* Room that is kept for what must still be written                        *)

\* what is owed for a command: the rest of its life, and its result
OwedFor(j, r, c) ==
  LET known == Progress(j, r, c)
  IN IF known = {} THEN {}
     ELSE {x \in {"running", "finished"} : known \cap {x, "finished", "unknown"} = {}}
          \cup {x \in {"result"} : ~Completed(j, r, c)}
CommandsDue(j) ==
  {d \in {r \in Runs : Active(j, r)} \X Commands \X {"running", "finished", "result"} :
     d[3] \in OwedFor(j, d[1], d[2])}
\* and with it the end of the run
CommandReserve(j) == LET due == CommandsDue(j) IN Cardinality(due) + Cardinality({d[1] : d \in due})

\* the end of the current request's diagnosis: started, request, dispatched, finished
DiagnosticReserve(j, r) ==
  LET phase == LastHow(j, Of(j, "model_request_diagnostic", r))
  IN CASE phase = "started" -> 3 [] phase = "request" -> 2 [] phase = "dispatched" -> 1 [] OTHER -> 0
RequestDue(j, r) ==
  DiagnosticReserve(j, r)
  + (IF ModelPending(j, r) \/ SummaryPending(j, r) THEN 2
     ELSE IF Attempts(j, r) > 0 \/ Of(j, "summary_attempted", r) # {} THEN 1 ELSE 0)
RequestsDue(j) == UNION {{r} \X (1..RequestDue(j, r)) : r \in {q \in Runs : Active(j, q)}}
RequestReserve(j) == Cardinality(RequestsDue(j))

Fits(j) == Len(j) + CommandReserve(j) + RequestReserve(j) <= MaxRecords
Room(e) ==
  LET j == Append(journal, e)
  IN /\ Fits(j)
     /\ e.type \in {"tool_prepared", "startup_prepared"} => Len(j) + 2 + CommandReserve(j) <= MaxRecords
EnsureCapacity == Len(journal) + 3 + CommandReserve(journal) <= MaxRecords

\* a past that can be opened, written within the limits, without results of tools
ASSUME HistoryConstants ==
  /\ Histories \subseteq Seq(Record)
  /\ \A j \in Histories : /\ Replays(<<Created>> \o j) /\ Fits(<<Created>> \o j)
                         /\ \A i \in DOMAIN j : j[i].type # "tool_completed"

-----------------------------------------------------------------------------
(* Appending a record: written and synced, or the store is poisoned with   *)
(* nothing, all or a part of the record on disk                            *)

Accepts(e) == ~poisoned /\ Valid(journal, e) /\ Room(e)
Land(e) == journal' = Append(journal, e) /\ UNCHANGED <<torn, poisoned>>
Break(e) ==
  /\ poisoned' = TRUE
  /\ \/ UNCHANGED <<journal, torn>>
     \/ journal' = Append(journal, e) /\ UNCHANGED torn
     \/ torn' = TRUE /\ UNCHANGED journal

-----------------------------------------------------------------------------
(* The writer: .writer-lock, and .writer-recovery-lock to take a dead one  *)

StoreInit ==
  /\ host = [h \in Hosts |-> "out"]
  /\ seen = [h \in Hosts |-> NONE]
  /\ lock = NONE /\ reclaim = NONE
  /\ \E history \in Histories \cup {<<>>} :
       journal = <<Created>> \o history
  /\ torn = FALSE /\ poisoned = FALSE /\ live = {}

diskVars == <<journal, torn, poisoned, live>>
Move(h, s) == host' = [host EXCEPT ![h] = s]

CreateLock(h) ==
  /\ host[h] = "out" /\ lock = NONE
  /\ lock' = TORN /\ Move(h, "creating")
  /\ UNCHANGED <<seen, reclaim, diskVars>>

WriteLock(h) ==
  /\ host[h] = "creating"
  /\ lock' = h /\ Move(h, "loading")
  /\ UNCHANGED <<seen, reclaim, diskVars>>

\* With a recovery lock in place the opening is refused and may be tried again.
ContendLock(h) ==
  /\ host[h] = "out" /\ lock # NONE /\ reclaim = NONE
  /\ reclaim' = h /\ Move(h, "probing")
  /\ UNCHANGED <<seen, lock, diskVars>>

MutantProbeOwner(h) ==
  /\ host[h] = "probing"
  /\ Move(h, "reclaiming") /\ seen' = [seen EXCEPT ![h] = lock]
  /\ UNCHANGED <<lock, reclaim, diskVars>>

ProbeOwner(h) ==
  /\ host[h] = "probing"
  /\ IF lock \in Hosts /\ host[lock] = "dead"
     THEN Move(h, "reclaiming") /\ seen' = [seen EXCEPT ![h] = lock] /\ UNCHANGED reclaim
     ELSE Move(h, "out") /\ reclaim' = NONE /\ UNCHANGED seen
  /\ UNCHANGED <<lock, diskVars>>

ReclaimLock(h) ==
  /\ host[h] = "reclaiming"
  /\ lock' = IF lock = seen[h] THEN NONE ELSE lock
  /\ reclaim' = NONE /\ Move(h, "out") /\ seen' = [seen EXCEPT ![h] = NONE]
  /\ UNCHANGED diskVars

\* Opening replays the journal, refuses a torn one, and commits that a run
\* was left active; when that record cannot be written the opening fails.
Refuse(h) == lock' = NONE /\ Move(h, "out") /\ UNCHANGED <<seen, reclaim>>
Load(h) ==
  /\ host[h] = "loading"
  /\ live' = {}
  /\ \/ torn /\ Refuse(h) /\ UNCHANGED <<journal, torn, poisoned>>
     \/ /\ ~torn /\ poisoned' = FALSE
        /\ LET left == {r \in Runs : Active(journal, r)}
               e(r) == Rec("run_recovered", r, NONE, "done")
           IN \/ left = {} /\ Move(h, "writer") /\ UNCHANGED <<seen, lock, reclaim, journal, torn>>
              \/ \E r \in left :
                   IF Room(e(r))
                   THEN \/ /\ journal' = Append(journal, e(r)) /\ UNCHANGED torn
                           /\ \/ Move(h, "writer") /\ UNCHANGED <<seen, lock, reclaim>>
                              \/ Refuse(h)
                        \/ Refuse(h) /\ UNCHANGED journal /\ torn' \in BOOLEAN
                   ELSE Refuse(h) /\ UNCHANGED <<journal, torn>>

Close(h) ==
  /\ host[h] = "writer"
  /\ lock' = NONE /\ Move(h, "out")
  /\ UNCHANGED <<seen, reclaim, diskVars>>

\* The process ends, its lock files stay; what it was appending is a failed
\* append before the crash.
Die(h) ==
  /\ host[h] \notin {"out", "dead"}
  /\ Move(h, "dead")
  /\ UNCHANGED <<seen, lock, reclaim, diskVars>>

-----------------------------------------------------------------------------
(* The operations of the writer beside a run                               *)

PrepareStartup(h, r) ==
  LET e == Rec("startup_prepared", r, NONE, "done")
  IN /\ host[h] = "writer" /\ RecoveredStartups = {} /\ Accepts(e)
     /\ \/ Land(e) /\ live' = live \cup {r}
        \/ Break(e) /\ UNCHANGED live
     /\ UNCHANGED lockVars

CloseStartup(h, r) ==
  LET e == Rec("startup_closed", r, NONE, "done")
  IN /\ host[h] = "writer" /\ r \in live /\ Accepts(e)
     /\ \/ Land(e) /\ live' = live \ {r}
        \/ Break(e) /\ UNCHANGED live
     /\ UNCHANGED lockVars

\* The user lets a conversation go on whose last run left nothing in doubt.
ResolveRecovery(h, r) ==
  LET e == Rec("recovery_resolved", r, NONE, "done")
  IN /\ host[h] = "writer" /\ RecoveredStartups = {} /\ Accepts(e)
     /\ Land(e) \/ Break(e)
     /\ UNCHANGED <<lockVars, live>>
=============================================================================
