--------------------------- MODULE ProcessSupervisor ---------------------------
(***************************************************************************)
(* The supervisor of the commands an agent runs (process-supervisor.ts and *)
(* windows-command-job.ts).  Every command has a guardian process, which   *)
(* starts the program only when the host tells it to, and everything the   *)
(* program starts is contained: on POSIX in the guardian's process group,  *)
(* on Windows in a job object that a helper process holds.                 *)
(*                                                                         *)
(* Operators named Mutant... are wrong on purpose: slips the code could    *)
(* have made, which the properties must notice.                            *)
(***************************************************************************)
EXTENDS Naturals, FiniteSets

CONSTANTS Cmds, Owners, OwnerOf

ASSUME SupervisorConstants == OwnerOf \in [Cmds -> Owners]

VARIABLES windows,  \* the platform
          host,     \* the application: "up" or "lost"
          revoked,  \* revokedOwners
          aborted,  \* the owners whose abort signal has fired
          p,        \* p[c]: the CommandRecord and the processes behind it
          stops     \* stops[o]: how stopOwner(o) stands

supervisorVars == <<windows, host, revoked, aborted, p, stops>>

\* pc: how far launch() is; tree: the program and what it has started;
\* ordered: the launch message is under way; result: what `done` resolves to
Fresh == [pc |-> "none", held |-> FALSE, guardian |-> "none", tree |-> "none", ordered |-> FALSE,
          killed |-> FALSE, closed |-> FALSE, launched |-> FALSE,
          cleanup |-> "none", job |-> "none", result |-> "pending"]
Alive(r) == r.tree \in {"running", "orphans"}
Asked(r) == r.cleanup # "none"   \* cleanupRequested
JobHeld(r) == r.job \in {"binding", "bound", "stopping"}

Quiet(c) == p[c].guardian # "alive" /\ ~Alive(p[c]) /\ ~p[c].ordered

\* stopRecord: once, until a failed attempt is tried again
Stopped(r) == IF ~r.held \/ r.cleanup = "running" THEN r
              ELSE [r EXCEPT !.cleanup = "running"]
Refused(r) == [Stopped(r) EXCEPT !.pc = "over"]
Set(c, r) == p' = [p EXCEPT ![c] = r] /\ UNCHANGED <<windows, host, revoked, aborted, stops>>
StopAll(S) == [c \in Cmds |-> IF c \in S THEN Stopped(p[c]) ELSE p[c]]
OfOwner(o) == {c \in Cmds : OwnerOf[c] = o}

SupervisorInit ==
  /\ windows \in BOOLEAN /\ host = "up"
  /\ revoked = {} /\ aborted = {}
  /\ p = [c \in Cmds |-> Fresh]
  /\ stops = [o \in Owners |-> "none"]

-----------------------------------------------------------------------------
(* Launching                                                               *)

Withdrawn(c) == Asked(p[c]) \/ OwnerOf[c] \in revoked \/ OwnerOf[c] \in aborted

\* runOwned up to the spawn of the guardian, which may not come about
Open(c) ==
  /\ host = "up" /\ p[c].pc = "none" /\ OwnerOf[c] \notin revoked
  /\ IF OwnerOf[c] \in aborted THEN Set(c, [p[c] EXCEPT !.pc = "over", !.result = "released"])
     ELSE \/ Set(c, [p[c] EXCEPT !.pc = "opening", !.held = TRUE, !.guardian = "alive"])
          \/ Set(c, Refused([p[c] EXCEPT !.held = TRUE]))

GuardianSpawned(c) ==
  /\ host = "up" /\ p[c].pc = "opening" /\ ~Asked(p[c])
  /\ Set(c, IF windows THEN [p[c] EXCEPT !.pc = "preparing", !.job = "binding"] ELSE [p[c] EXCEPT !.pc = "checking"])

\* the helper holds the guardian's process, the guardian has answered its nonce
JobBinds(c) ==
  /\ p[c].job = "binding" /\ ~Asked(p[c]) /\ p[c].guardian = "alive"
  /\ Set(c, [p[c] EXCEPT !.pc = "checking", !.job = "bound"])

\* The helper ends without proof.  Its job object kills what is in it; with no
\* job bound the preparation has failed and nothing was launched.
JobLost(c) ==
  /\ JobHeld(p[c])
  /\ Set(c, IF p[c].job = "binding"
            THEN (IF Asked(p[c]) THEN [p[c] EXCEPT !.job = "none", !.pc = "over"] ELSE Refused([p[c] EXCEPT !.job = "none"]))
            ELSE [p[c] EXCEPT !.job = "lost", !.killed = TRUE])

\* the last look before the guardian may start the program
Contained(c) == p[c].guardian = "alive" /\ ~p[c].closed /\ (windows => p[c].job = "bound")
Launch(c) ==
  /\ host = "up" /\ p[c].pc = "checking"
  /\ IF Withdrawn(c) THEN Set(c, [p[c] EXCEPT !.pc = "over"])
     ELSE \/ Set(c, Refused(p[c]))                            \* beforeLaunch() throws
          \/ ~Contained(c) /\ Set(c, Refused(p[c]))
          \/ Contained(c) /\ Set(c, [p[c] EXCEPT !.pc = "over", !.launched = TRUE, !.ordered = TRUE])

GuardianLaunches(c) ==
  /\ p[c].ordered /\ p[c].guardian = "alive"
  /\ \/ Set(c, [p[c] EXCEPT !.ordered = FALSE, !.tree = "running"])
     \/ Set(c, Stopped([p[c] EXCEPT !.ordered = FALSE]))      \* launch-error

-----------------------------------------------------------------------------
(* What happens to the processes                                           *)

CommandExits(c) ==
  /\ p[c].tree = "running"
  /\ \E left \in {"dead", "orphans"} :
       LET r == [p[c] EXCEPT !.tree = left]
       IN Set(c, IF p[c].guardian = "alive" /\ host = "up" THEN Stopped(r) ELSE r)

GuardianDies(c) ==
  /\ host = "up" /\ p[c].guardian = "alive"
  /\ Set(c, [p[c] EXCEPT !.guardian = "dead", !.ordered = FALSE])

\* a kill of the group or of the job takes effect
Perish(c) ==
  /\ p[c].killed /\ (p[c].guardian = "alive" \/ Alive(p[c]))
  /\ Set(c, [p[c] EXCEPT !.guardian = IF @ = "alive" THEN "dead" ELSE @, !.ordered = FALSE,
                         !.tree = IF @ = "none" THEN "none" ELSE "dead"])

\* The streams are shared with the program.  After a failed attempt the host has
\* destroyed its own ends, and they say nothing of the program any more.
StreamsClose(c) ==
  /\ host = "up" /\ p[c].held /\ ~p[c].closed /\ p[c].guardian # "alive"
  /\ Alive(p[c]) => p[c].result = "cleanup_failed"
  /\ Set(c, Stopped([p[c] EXCEPT !.closed = TRUE]))

-----------------------------------------------------------------------------
(* Cleaning up (stopRecord, releaseTree)                                   *)

Cleaning(c) == host = "up" /\ p[c].cleanup = "running"

\* the time of a command is up (on Windows it counts from the launch)
Timeout(c) ==
  /\ host = "up" /\ p[c].held /\ ~Asked(p[c]) /\ (windows => p[c].launched)
  /\ Set(c, Stopped(p[c]))

KillGroup(c) ==
  /\ Cleaning(c) /\ ~windows /\ p[c].guardian # "none" /\ ~p[c].killed
  /\ Set(c, [p[c] EXCEPT !.killed = TRUE])

\* a guardian that was never told to launch is stopped by its own handle
KillGuardian(c) ==
  /\ Cleaning(c) /\ windows /\ ~p[c].launched /\ p[c].guardian = "alive"
  /\ Set(c, [p[c] EXCEPT !.guardian = "dead"])

StopJob(c) ==
  /\ Cleaning(c) /\ p[c].job = "bound" /\ p[c].pc = "over"
  /\ Set(c, [p[c] EXCEPT !.job = "stopping", !.killed = TRUE])

\* the helper counts no active process in the job, reports it and ends
JobEmpties(c) ==
  /\ p[c].job = "stopping" /\ p[c].guardian # "alive" /\ ~Alive(p[c])
  /\ Set(c, [p[c] EXCEPT !.job = "empty"])

MutantBarrier(r) == r.closed

Barrier(r) ==
  /\ r.closed
  /\ r.guardian # "none" =>
       /\ r.guardian = "dead"
       /\ IF windows THEN r.pc = "over" /\ r.job \in {"none", "empty"} ELSE r.killed /\ ~Alive(r)

Released(c) ==
  /\ Cleaning(c) /\ Barrier(p[c])
  /\ Set(c, [p[c] EXCEPT !.held = FALSE, !.cleanup = "released", !.killed = FALSE, !.closed = FALSE,
                         !.result = IF @ = "pending" THEN "released" ELSE @])

\* cleanupTimeoutMs has passed, or the system refused a call
CleanupFails(c) ==
  /\ Cleaning(c)
  /\ Set(c, [p[c] EXCEPT !.cleanup = "failed", !.result = "cleanup_failed"])

-----------------------------------------------------------------------------
(* Owners                                                                  *)

Abort(o) ==
  /\ host = "up" /\ o \notin aborted
  /\ aborted' = aborted \cup {o}
  /\ p' = StopAll({c \in OfOwner(o) : p[c].held /\ ~Asked(p[c])})
  /\ UNCHANGED <<windows, host, revoked, stops>>

stopOwner(o) ==
  /\ host = "up" /\ stops[o] # "waiting"
  /\ revoked' = revoked \cup {o}
  /\ p' = StopAll(OfOwner(o))
  /\ stops' = [stops EXCEPT ![o] = "waiting"]
  /\ UNCHANGED <<windows, host, aborted>>

StopOwnerReturns(o) ==
  /\ host = "up" /\ stops[o] = "waiting"
  /\ \A c \in OfOwner(o) : p[c].cleanup # "running"
  /\ stops' = [stops EXCEPT ![o] = IF \E c \in OfOwner(o) : p[c].held THEN "failed" ELSE "stopped"]
  /\ UNCHANGED <<windows, host, revoked, aborted, p>>

-----------------------------------------------------------------------------
(* The application ends: the guardians and the helpers lose their pipes,   *)

\* and what the application remembered of them is gone.
HostLost ==
  /\ host = "up" /\ host' = "lost"
  /\ p' = [c \in Cmds |-> [Fresh EXCEPT !.guardian = p[c].guardian, !.tree = p[c].tree, !.ordered = p[c].ordered,
                                        !.job = p[c].job, !.killed = p[c].killed, !.pc = "over", !.held = TRUE]]
  /\ revoked' = {} /\ aborted' = {} /\ stops' = [o \in Owners |-> "none"]
  /\ UNCHANGED windows

Orphaned(c) ==
  /\ host = "lost"
  /\ IF windows /\ p[c].job \in {"bound", "stopping"} THEN ~p[c].killed /\ Set(c, [p[c] EXCEPT !.killed = TRUE])
     ELSE p[c].guardian = "alive"
          /\ Set(c, IF windows THEN [p[c] EXCEPT !.guardian = "dead", !.ordered = FALSE]
                    ELSE [p[c] EXCEPT !.killed = TRUE])

-----------------------------------------------------------------------------

ProcessStep(c) ==
  \/ GuardianSpawned(c) \/ JobBinds(c) \/ Launch(c) \/ GuardianLaunches(c) \/ StreamsClose(c)
  \/ KillGroup(c) \/ KillGuardian(c) \/ StopJob(c) \/ JobEmpties(c) \/ Released(c) \/ Perish(c) \/ Orphaned(c)
Misfortune(c) == JobLost(c) \/ CommandExits(c) \/ GuardianDies(c) \/ CleanupFails(c)
SupervisorStep(c) == ProcessStep(c) \/ Misfortune(c) \/ Timeout(c)

\* What was released is gone: no guardian, no helper that could still start
\* something, nothing of the program and no message that would launch it.  After
\* stopOwner has returned without an error that holds of all that the owner ever
\* started, and nothing of it comes to life later.
ReleasedIsGone ==
  /\ \A c \in Cmds : p[c].pc # "none" /\ ~p[c].held => Quiet(c) /\ ~JobHeld(p[c])
  /\ \A o \in Owners : stops[o] = "stopped" => \A c \in OfOwner(o) : Quiet(c)

=============================================================================
