----------------------------- MODULE CommandTools -----------------------------
(***************************************************************************)
(* The long-lived commands of one run (command-tools.ts): each is written  *)
(* to the journal before it is launched, when it runs and when it has      *)
(* ended, and the run cannot end before all of them have.  The processes   *)
(* are those of ProcessSupervisor; saving is recordCommandEvent of the run *)
(* store, which writes nothing more after a failed append.  Operators      *)
(* named Mutant... are wrong on purpose.                                   *)
(***************************************************************************)
EXTENDS ProcessSupervisor, Sequences, SequencesExt

CONSTANTS Self,        \* the run, an owner
          MaxRunning,  \* commands at a time: 2 in the code
          MaxEntries   \* commands of a run on each platform: 8 in the code

ASSUME CommandConstants ==
  Self \in Owners /\ MaxRunning \in Nat \ {0} /\ MaxEntries \in [BOOLEAN -> Nat \ {0}]

VARIABLES at,       \* at[c]: where start(), and what it leaves running, stands
          log,      \* log[c]: the lifecycle on the journal
          failed,   \* some lifecycle could not be confirmed
          broken,   \* the journal takes no more records
          closing,  \* closeAll(): "open", "closing", "closed" or "refused"
          halted    \* the commands closeAll() has stopped

toolVars == <<at, log, failed, broken, closing, halted>>
vars == <<supervisorVars, toolVars>>

Mine == OfOwner(Self)
Busy == {c \in Mine : at[c] \notin {"none", "over", "failed"}}
Current == closing = "open" /\ Self \notin aborted /\ host = "up"

ToolInit ==
  /\ at = [c \in Mine |-> "none"] /\ log = [c \in Mine |-> <<>>]
  /\ failed = FALSE /\ broken = FALSE /\ closing = "open" /\ halted = {}

Goes(c, s) == at' = [at EXCEPT ![c] = s]
Lands(c, s) == log' = [log EXCEPT ![c] = Append(@, s)]

MutantDoubt(alsoStopped) ==
  /\ failed' = TRUE /\ p' = StopAll(alsoStopped)
  /\ UNCHANGED <<windows, host, revoked, aborted, stops>>

\* notifyFailure: the run is aborted with everything it has started
Doubt(alsoStopped) ==
  LET fresh == IF Self \in aborted THEN {} ELSE {c \in Mine : p[c].held /\ ~Asked(p[c])}
  IN /\ failed' = TRUE /\ aborted' = aborted \cup {Self}
     /\ p' = StopAll(fresh \cup alsoStopped)
     /\ UNCHANGED <<windows, host, revoked, stops>>

\* The append lands, or fails with or without the record on disk; then the
\* command is stopped (failedLifecycle).
Saves(c, s) == ~broken /\ Lands(c, s) /\ UNCHANGED broken
SaveFails(c, s) ==
  /\ Goes(c, "failing") /\ broken' = TRUE /\ Doubt({c})
  /\ UNCHANGED log \/ (~broken /\ Lands(c, s))

-----------------------------------------------------------------------------

StartCall(c) ==
  /\ Current /\ at[c] = "none" /\ Cardinality(Busy) < MaxRunning
  /\ Cardinality({d \in Mine : at[d] # "none"}) < MaxEntries[windows]
  /\ Goes(c, "intent")
  /\ UNCHANGED <<supervisorVars, log, failed, broken, closing, halted>>

\* An abort before the intent is on record already counts as unconfirmed.
SaveIntent(c) ==
  /\ host = "up" /\ at[c] = "intent"
  /\ \/ Current /\ Saves(c, "prepared") /\ Goes(c, "guard") /\ UNCHANGED <<supervisorVars, failed>>
     \/ Current /\ SaveFails(c, "prepared")
     \/ ~Current /\ Goes(c, "failing") /\ Doubt({c}) /\ UNCHANGED <<log, broken>>
  /\ UNCHANGED <<closing, halted>>

\* finish(): a command is finished when its processes are released and no
\* lifecycle of the run is in doubt
MutantVerdict(released) == IF ~failed THEN "finished" ELSE "unknown"

Verdict(released) == IF released /\ ~failed THEN "finished" ELSE "unknown"
Finish(c, verdict) ==
  \/ /\ Saves(c, verdict) /\ Goes(c, "over")
     /\ IF verdict = "unknown" THEN Doubt({}) ELSE UNCHANGED <<supervisorVars, failed>>
  \/ SaveFails(c, verdict)

\* beforeStart: the preconditions still hold, or the command is not executed
Guard(c) ==
  /\ host = "up" /\ at[c] = "guard"
  /\ \/ /\ Current /\ Open(c) /\ Goes(c, "ready")
        /\ UNCHANGED <<log, failed, broken>>
     \/ Finish(c, Verdict(TRUE))
  /\ UNCHANGED <<closing, halted>>

\* the guardian has reported the start, or the command has ended without one
Ready(c) ==
  /\ host = "up" /\ at[c] = "ready"
  /\ \/ /\ p[c].tree # "none"
        /\ \/ Saves(c, "running") /\ Goes(c, "running") /\ UNCHANGED <<supervisorVars, failed>>
           \/ SaveFails(c, "running")
     \/ /\ p[c].result # "pending" /\ Goes(c, "running")
        /\ UNCHANGED <<supervisorVars, log, failed, broken>>
  /\ UNCHANGED <<closing, halted>>

Terminal(c) ==
  /\ host = "up" /\ at[c] = "running" /\ p[c].result # "pending"
  /\ \/ Finish(c, Verdict(p[c].result = "released"))
     \/ Finish(c, "unknown")                    \* the output held a credential
  /\ UNCHANGED <<closing, halted>>

\* stop_command
StopCommand(c) ==
  /\ Current /\ at[c] \in {"ready", "running"} /\ p[c].held /\ p[c].cleanup # "running"
  /\ Set(c, Stopped(p[c])) /\ UNCHANGED toolVars

\* failedLifecycle goes on: once the attempt has ended, try to leave a note
Unconfirm(c) ==
  /\ host = "up" /\ at[c] = "failing" /\ p[c].cleanup # "running"
  /\ Goes(c, "failed")
  /\ \/ ~broken /\ log[c] # <<>> /\ Lands(c, "unknown") /\ UNCHANGED broken
     \/ UNCHANGED log /\ broken' = (broken \/ log[c] # <<>>)
  /\ UNCHANGED <<supervisorVars, failed, closing, halted>>

-----------------------------------------------------------------------------
(* The end of the run                                                      *)

BeginClose ==
  /\ host = "up" /\ closing = "open"
  /\ closing' = "closing"
  /\ UNCHANGED <<supervisorVars, at, log, failed, broken, halted>>

\* closeAll() waits for the calls of start(), then stops every handle, again
\* also one whose cleanup has failed
CloseStops(c) ==
  /\ host = "up" /\ closing = "closing" /\ p[c].pc # "none" /\ c \notin halted
  /\ \A d \in Mine : at[d] \notin {"intent", "guard", "ready", "failing"}
  /\ halted' = halted \cup {c}
  /\ Set(c, Stopped(p[c]))
  /\ UNCHANGED <<at, log, failed, broken, closing>>

Settled(c) ==
  /\ at[c] \in {"none", "over", "failed"}
  /\ p[c].pc # "none" => c \in halted /\ p[c].cleanup # "running"

CloseReturns ==
  /\ host = "up" /\ closing = "closing" /\ \A c \in Mine : Settled(c)
  /\ closing' = IF failed \/ (\E c \in Mine : at[c] # "none" /\ Last(log[c]) # "finished")
                THEN "refused" ELSE "closed"
  /\ UNCHANGED <<supervisorVars, at, log, failed, broken, halted>>

\* the executor stops the owner after closeAll(), whatever that returned, and
\* again when the application closes
ReleaseOwner ==
  /\ closing \in {"closed", "refused"} /\ stops[Self] # "stopped"
  /\ stopOwner(Self) /\ UNCHANGED toolVars

\* the journal stays
Crash ==
  /\ HostLost
  /\ at' = [c \in Mine |-> "none"]
  /\ failed' = FALSE /\ broken' = TRUE /\ closing' = "open" /\ halted' = {}
  /\ UNCHANGED log

-----------------------------------------------------------------------------

Init == SupervisorInit /\ ToolInit
ToolStep(c) ==
  \/ SaveIntent(c) \/ Guard(c) \/ Ready(c) \/ Terminal(c)
  \/ Unconfirm(c) \/ CloseStops(c)

Next ==
  \/ \E c \in Mine : StartCall(c) \/ StopCommand(c) \/ ToolStep(c)
  \/ \E c \in Cmds : SupervisorStep(c) /\ UNCHANGED toolVars
  \/ \E o \in Owners : (Abort(o) \/ StopOwnerReturns(o)) /\ UNCHANGED toolVars
  \/ ReleaseOwner
  \/ BeginClose \/ CloseReturns
  \/ Crash

Spec == Init /\ [][Next]_vars

-----------------------------------------------------------------------------
(* What must hold                                                          *)

\* the order in which the run store accepts the lifecycle of a command
Lifecycles ==
  {<<>>} \cup {<<"prepared">> \o r \o e : r \in {<<>>, <<"running">>}, e \in {<<>>, <<"finished">>, <<"unknown">>}}

\* What the journal says of a command is so: its lifecycle is on record in order,
\* nothing of it exists before its intent, and once it is finished nothing of it is
\* left.  When closeAll() returns without an error, that holds of all of the run,
\* which never has more commands than it may.
ReceiptsAreTrue ==
  /\ log \in [Mine -> Lifecycles] /\ Cardinality(Busy) <= MaxRunning
  /\ \A c \in Mine :
       /\ p[c].guardian # "none" => log[c] # <<>>
       /\ "finished" \in Range(log[c]) => Quiet(c)
  /\ closing = "closed" => \A c \in Mine : Quiet(c) /\ (at[c] # "none" => "finished" \in Range(log[c]))

\* Once one lifecycle of a run is in doubt, no command of the run that was on
\* its way is launched any more.
NoLaunchInDoubt ==
  [][\A c \in Mine : failed /\ p'[c].launched => p[c].launched]_vars
=============================================================================
