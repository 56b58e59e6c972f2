-------------------------- MODULE CommandToolsProofs --------------------------
(***************************************************************************)
(* What TLAPS proves of the commands of an agent, for any number of        *)
(* commands and owners on both platforms: what is released is gone, what   *)
(* the journal says of a command is so, and nothing is launched once one   *)
(* lifecycle of the run is in doubt.                                       *)
(***************************************************************************)
EXTENDS CommandTools, FiniteSetTheorems, SequenceTheorems, TLAPS

-----------------------------------------------------------------------------
(* Types.                                                                  *)

IsCommand(r) ==
  /\ DOMAIN r = {"pc", "held", "guardian", "tree", "ordered", "killed", "closed", "launched",
                 "cleanup", "job", "result"}
  /\ r.pc \in {"none", "opening", "preparing", "checking", "over"}
  /\ r.guardian \in {"none", "alive", "dead"}
  /\ r.tree \in {"none", "running", "orphans", "dead"}
  /\ r.held \in BOOLEAN /\ r.ordered \in BOOLEAN /\ r.killed \in BOOLEAN
  /\ r.closed \in BOOLEAN /\ r.launched \in BOOLEAN
  /\ r.cleanup \in {"none", "running", "failed", "released"}
  /\ r.job \in {"none", "binding", "bound", "stopping", "empty", "lost"}
  /\ r.result \in {"pending", "released", "cleanup_failed"}

Places == {"none", "intent", "guard", "ready", "running", "over", "failing", "failed"}

Typed ==
  /\ windows \in BOOLEAN /\ host \in {"up", "lost"}
  /\ DOMAIN p = Cmds /\ \A c \in Cmds : IsCommand(p[c])
  /\ DOMAIN stops = Owners
  /\ at \in [Mine -> Places] /\ log \in [Mine -> Lifecycles]
  /\ failed \in BOOLEAN /\ broken \in BOOLEAN
  /\ closing \in {"open", "closing", "closed", "refused"}

-----------------------------------------------------------------------------
(* The inductive invariant.                                                *)

\* Nothing of a command runs or can still be started.
Rests(r) == r.guardian # "alive" /\ ~Alive(r) /\ ~r.ordered

\* One command on platform w, where the application is h: its program is only ever
\* started through its guardian and, on Windows, within its job; and what is not held
\* has nothing left, and no call that could start something.
Sound(w, h, r) ==
  /\ r.pc = "none" => ~r.held /\ r.guardian = "none" /\ r.cleanup = "none" /\ r.result = "pending"
  /\ r.guardian = "none" =>
       r.tree = "none" /\ ~r.ordered /\ r.job = "none" /\ ~r.launched /\ r.pc \in {"none", "over"}
  /\ r.ordered => r.guardian = "alive"
  /\ r.job # "none" => w
  /\ r.job = "empty" => r.guardian # "alive" /\ ~Alive(r)
  /\ h = "lost" => r.held /\ r.pc # "none"
  /\ r.launched => h = "up" /\ r.pc = "over" /\ (w => r.job \in {"bound", "stopping", "empty", "lost"})
  /\ h = "up" =>
       /\ r.ordered \/ r.tree # "none" => r.launched
       /\ r.job = "binding" => r.pc = "preparing"
       /\ r.result = "released" => ~r.held
       /\ ~r.held => Rests(r) /\ ~JobHeld(r) /\ (r.pc \in {"none", "over"} \/ Asked(r))

Commands == \A c \in Cmds : Sound(windows, host, p[c])

\* An owner that stops stays revoked, and one that has stopped holds no command.
Stopping == \A o \in Owners : stops[o] # "none" =>
  /\ host = "up" /\ o \in revoked
  /\ stops[o] = "stopped" => \A c \in OfOwner(o) : ~p[c].held

\* The journal and the call of start().
Logged == \A c \in Mine :
  /\ at[c] \in {"none", "intent"} /\ host = "up" => log[c] = <<>>
  /\ at[c] \in {"guard", "ready"} => log[c] = <<"prepared">>
  /\ at[c] = "running" => log[c] \in {<<"prepared">>, <<"prepared", "running">>}
  /\ at[c] = "over" => log[c] # <<>>
  /\ at[c] = "failing" /\ ~broken => log[c] = <<>>
  /\ at[c] # "none" => host = "up"

\* The journal and the processes.
Told == \A c \in Mine :
  /\ at[c] \in {"none", "intent", "guard"} /\ host = "up" => p[c].pc = "none"
  /\ log[c] = <<>> => p[c].guardian = "none"
  /\ "finished" \in Range(log[c]) => Rests(p[c]) /\ (host = "up" => ~p[c].held)

\* What is in doubt has aborted the run.
Doubted ==
  /\ failed => Self \in aborted
  /\ \A c \in Mine : at[c] \in {"failing", "failed"} => failed

\* closeAll() returns without an error when every command has ended.
Ended == closing = "closed" =>
  /\ host = "up"
  /\ \A c \in Mine : at[c] = "none" \/ (at[c] = "over" /\ "finished" \in Range(log[c]))

Few == IsFiniteSet(Busy) /\ Cardinality(Busy) <= MaxRunning

IInv == Typed /\ Commands /\ Stopping /\ Logged /\ Told /\ Doubted /\ Ended /\ Few

-----------------------------------------------------------------------------
(* One command: what a step of the supervisor makes of its record.         *)

\* A step takes nothing that is over back, and starts no command.
Evolves(r, s) ==
  /\ s.pc = "none" <=> r.pc = "none"
  /\ r.guardian = "none" => s.guardian = "none"
  /\ ~r.held => ~s.held
  /\ Rests(r) => Rests(s)
Moves(w, h, r, s) == IsCommand(s) /\ Sound(w, h, s) /\ Evolves(r, s)

\* To stop a command changes nothing of its processes.
LEMMA StoppedIs ==
  ASSUME NEW r, IsCommand(r)
  PROVE  LET s == Stopped(r)
         IN  /\ IsCommand(s) /\ s.pc = r.pc /\ s.held = r.held /\ s.guardian = r.guardian
             /\ s.tree = r.tree /\ s.ordered = r.ordered /\ s.killed = r.killed /\ s.closed = r.closed
             /\ s.launched = r.launched /\ s.job = r.job /\ s.result = r.result
             /\ (Asked(r) => Asked(s)) /\ (~r.held => s.cleanup = r.cleanup)
BY DEF Stopped, IsCommand, Asked

LEMMA StoppedMoves ==
  ASSUME NEW w, NEW h, NEW r, IsCommand(r), Sound(w, h, r)
  PROVE  Moves(w, h, r, Stopped(r)) /\ Stopped(r).launched = r.launched
<1> HIDE DEF Stopped
<1> QED BY StoppedIs DEF Moves, Sound, Evolves, Rests, Alive, JobHeld

\* Nor does it after another step.
LEMMA StoppedAfter ==
  ASSUME NEW w, NEW h, NEW r, NEW s, Moves(w, h, r, s)
  PROVE  Moves(w, h, r, Stopped(s)) /\ Stopped(s).launched = s.launched
<1>1. Moves(w, h, s, Stopped(s)) /\ Stopped(s).launched = s.launched
  BY StoppedMoves DEF Moves
<1> QED BY <1>1 DEF Moves, Evolves

\* A command that is refused cannot be launched any more.
LEMMA RefusedMoves ==
  ASSUME NEW w, NEW h, NEW r, NEW s, Moves(w, h, r, s), ~s.launched, s.pc # "none", s.job # "binding"
  PROVE  Moves(w, h, r, Refused(s)) /\ ~Refused(s).launched
<1> DEFINE t == Stopped(s)
           q == [t EXCEPT !.pc = "over"]
<1>1. Moves(w, h, r, t) /\ t.launched = s.launched /\ t.pc = s.pc /\ t.job = s.job
  BY StoppedAfter, StoppedIs DEF Moves
<1>2. Refused(s) = q
  BY DEF Refused
<1> HIDE DEF t
<1>3. IsCommand(q) /\ q.launched = t.launched
  BY <1>1 DEF Moves, IsCommand
<1>4. Sound(w, h, q) /\ Evolves(r, q)
  BY <1>1 DEF Moves, IsCommand, Sound, Evolves, Rests, Alive, JobHeld, Asked
<1> QED BY <1>1, <1>2, <1>3, <1>4 DEF Moves

-----------------------------------------------------------------------------
(* The steps of the supervisor.                                            *)

Advances ==
  /\ DOMAIN p' = Cmds
  /\ \A c \in Cmds : IsCommand(p'[c]) /\ Sound(windows, host, p'[c]) /\ Evolves(p[c], p'[c])
  /\ \A c \in Cmds : p'[c].launched => p[c].launched \/ (host = "up" /\ ~Withdrawn(c))

Supervised == UNCHANGED <<windows, host, revoked, aborted, stops>>

LEMMA SetAdvances ==
  ASSUME Typed, Commands, NEW c \in Cmds, NEW r, Moves(windows, host, p[c], r), Set(c, r),
         r.launched => p[c].launched \/ (host = "up" /\ ~Withdrawn(c))
  PROVE  Advances /\ Supervised
<1>1. DOMAIN p' = Cmds /\ p'[c] = r /\ \A d \in Cmds : d # c => p'[d] = p[d]
  BY DEF Set, Typed
<1>2. \A d \in Cmds : IsCommand(p[d]) /\ Sound(windows, host, p[d]) /\ Evolves(p[d], p[d])
  BY DEF Typed, Commands, Evolves
<1>3. Supervised
  BY DEF Set, Supervised
<1> HIDE DEF IsCommand, Sound, Evolves
<1> QED BY <1>1, <1>2, <1>3 DEF Advances, Moves

LEMMA StayAdvances ==
  ASSUME Typed, Commands, UNCHANGED p
  PROVE  Advances
BY DEF Typed, Commands, Advances, Evolves

LEMMA StopAllAdvances ==
  ASSUME Typed, Commands, NEW S, p' = StopAll(S)
  PROVE  Advances /\ \A c \in Cmds : p'[c].launched = p[c].launched
<1>1. DOMAIN p' = Cmds /\ \A c \in Cmds : p'[c] = Stopped(p[c]) \/ p'[c] = p[c]
  BY DEF StopAll
<1>2. \A c \in Cmds : Moves(windows, host, p[c], Stopped(p[c])) /\ Stopped(p[c]).launched = p[c].launched
  BY StoppedMoves DEF Typed, Commands
<1>3. \A c \in Cmds : IsCommand(p[c]) /\ Sound(windows, host, p[c]) /\ Evolves(p[c], p[c])
  BY DEF Typed, Commands, Evolves
<1> HIDE DEF IsCommand, Sound, Evolves, Stopped
<1> QED BY <1>1, <1>2, <1>3 DEF Advances, Moves

-----------------------------------------------------------------------------
(* Launching.                                                              *)


\* The handshake with the guardian ends in the last check, on Windows after its job.
LEMMA GuardianSpawnedAdvances ==
  ASSUME Typed, Commands, NEW c \in Cmds, GuardianSpawned(c)
  PROVE  Advances /\ Supervised
<1> DEFINE r == p[c]
           s == [r EXCEPT !.pc = "preparing", !.job = "binding"]
           t == [r EXCEPT !.pc = "checking"]
<1>1. IsCommand(r) /\ Sound(windows, host, r) /\ windows \in BOOLEAN /\ host \in {"up", "lost"}
  BY DEF Typed, Commands
<1>2. r.pc = "opening" /\ host = "up" /\ ~Asked(r)
  BY DEF GuardianSpawned
<1>3. CASE windows
  <2>1. Set(c, s)
    BY <1>3 DEF GuardianSpawned
  <2>2. Moves(windows, host, r, s) /\ s.launched = r.launched
    BY <1>1, <1>2, <1>3 DEF Moves, IsCommand, Sound, Evolves, Rests, Alive, JobHeld, Asked
  <2> QED BY <2>1, <2>2, SetAdvances
<1>4. CASE ~windows
  <2>1. Set(c, t)
    BY <1>4 DEF GuardianSpawned
  <2>2. Moves(windows, host, r, t) /\ t.launched = r.launched
    BY <1>1, <1>2, <1>4 DEF Moves, IsCommand, Sound, Evolves, Rests, Alive, JobHeld, Asked
  <2> QED BY <2>1, <2>2, SetAdvances
<1> QED BY <1>3, <1>4

\* A job is bound before the last check.
LEMMA JobBindsAdvances ==
  ASSUME Typed, Commands, NEW c \in Cmds, JobBinds(c)
  PROVE  Advances /\ Supervised
<1> DEFINE r == p[c]
           s == [r EXCEPT !.pc = "checking", !.job = "bound"]
<1>1. IsCommand(r) /\ Sound(windows, host, r) /\ windows \in BOOLEAN /\ host \in {"up", "lost"}
  BY DEF Typed, Commands
<1>2. Set(c, s)
  BY DEF JobBinds
<1>3. Moves(windows, host, r, s) /\ s.launched = r.launched
  BY <1>1 DEF Moves, IsCommand, Sound, Evolves, Rests, Alive, JobHeld, Asked, JobBinds
<1> QED BY <1>2, <1>3, SetAdvances

\* A helper that ends without proof leaves the command to its job, or unlaunched.
LEMMA JobLostAdvances ==
  ASSUME Typed, Commands, NEW c \in Cmds, JobLost(c)
  PROVE  Advances /\ Supervised
<1> DEFINE r == p[c]
           s == [r EXCEPT !.job = "none", !.pc = "over"]
           t == [r EXCEPT !.job = "none"]
           u == [r EXCEPT !.job = "lost", !.killed = TRUE]
<1>1. IsCommand(r) /\ Sound(windows, host, r) /\ windows \in BOOLEAN /\ host \in {"up", "lost"}
  BY DEF Typed, Commands
<1>2. r.job \in {"binding", "bound", "stopping"}
  BY DEF JobLost, JobHeld
<1>3. CASE r.job = "binding" /\ Asked(r)
  <2>1. Set(c, s)
    BY <1>3 DEF JobLost
  <2>2. Moves(windows, host, r, s) /\ s.launched = r.launched
    BY <1>1, <1>3 DEF Moves, IsCommand, Sound, Evolves, Rests, Alive, JobHeld, Asked
  <2> QED BY <2>1, <2>2, SetAdvances
<1>4. CASE r.job = "binding" /\ ~Asked(r)
  <2>1. Set(c, Refused(t))
    BY <1>4 DEF JobLost
  <2>2. Moves(windows, host, r, t) /\ t.launched = r.launched
    BY <1>1, <1>4 DEF Moves, IsCommand, Sound, Evolves, Rests, Alive, JobHeld, Asked
  <2>3. t.pc # "none" /\ t.job = "none" /\ ~t.launched
    BY <1>1, <1>4 DEF IsCommand, Sound
  <2> HIDE DEF t
  <2>4. Moves(windows, host, r, Refused(t)) /\ ~Refused(t).launched
    BY <2>2, <2>3, RefusedMoves
  <2> QED BY <2>1, <2>4, SetAdvances
<1>5. CASE r.job # "binding"
  <2>1. Set(c, u)
    BY <1>5 DEF JobLost
  <2>2. Moves(windows, host, r, u) /\ u.launched = r.launched
    BY <1>1, <1>2, <1>5 DEF Moves, IsCommand, Sound, Evolves, Rests, Alive, JobHeld, Asked
  <2> QED BY <2>1, <2>2, SetAdvances
<1> QED BY <1>3, <1>4, <1>5
\* The program is launched only when nobody has withdrawn it, and within its job.
LEMMA LaunchAdvances ==
  ASSUME Typed, Commands, NEW c \in Cmds, Launch(c)
  PROVE  Advances /\ Supervised
<1> DEFINE r == p[c]
           s == [r EXCEPT !.pc = "over"]
           t == [r EXCEPT !.pc = "over", !.launched = TRUE, !.ordered = TRUE]
<1>1. IsCommand(r) /\ Sound(windows, host, r) /\ windows \in BOOLEAN /\ host \in {"up", "lost"}
  BY DEF Typed, Commands
<1>2. r.pc = "checking" /\ host = "up"
  BY DEF Launch
<1>3. CASE Withdrawn(c) /\ Set(c, s)
  <2>1. Moves(windows, host, r, s) /\ s.launched = r.launched
    BY <1>1, <1>2 DEF Moves, IsCommand, Sound, Evolves, Rests, Alive, JobHeld, Asked
  <2> QED BY <1>3, <2>1, SetAdvances
<1>4. CASE Set(c, Refused(r))
  <2>1. Moves(windows, host, r, r) /\ ~r.launched /\ r.job # "binding"
    BY <1>1, <1>2 DEF Moves, Sound, Evolves
  <2>2. Moves(windows, host, r, Refused(r)) /\ ~Refused(r).launched
    BY <1>2, <2>1, RefusedMoves
  <2> QED BY <1>4, <2>2, SetAdvances
<1>5. CASE ~Withdrawn(c) /\ Contained(c) /\ Set(c, t)
  <2>1. r.held
    BY <1>1, <1>2, <1>5 DEF Sound, Withdrawn
  <2>2. Moves(windows, host, r, t)
    BY <1>1, <1>2, <1>5, <2>1 DEF Moves, IsCommand, Sound, Evolves, Rests, Alive, JobHeld, Asked, Contained
  <2> QED BY <1>2, <1>5, <2>2, SetAdvances
<1> QED BY <1>3, <1>4, <1>5 DEF Launch

LEMMA GuardianLaunchesAdvances ==
  ASSUME Typed, Commands, NEW c \in Cmds, GuardianLaunches(c)
  PROVE  Advances /\ Supervised
<1> DEFINE r == p[c]
           s == [r EXCEPT !.ordered = FALSE, !.tree = "running"]
           t == [r EXCEPT !.ordered = FALSE]
<1>1. IsCommand(r) /\ Sound(windows, host, r) /\ windows \in BOOLEAN /\ host \in {"up", "lost"}
  BY DEF Typed, Commands
<1>2. r.ordered /\ r.guardian = "alive"
  BY DEF GuardianLaunches
<1>3. CASE Set(c, s)
  <2>1. Moves(windows, host, r, s) /\ s.launched = r.launched
    BY <1>1, <1>2 DEF Moves, IsCommand, Sound, Evolves, Rests, Alive, JobHeld, Asked
  <2> QED BY <1>3, <2>1, SetAdvances
<1>4. CASE Set(c, Stopped(t))
  <2>1. Moves(windows, host, r, t) /\ t.launched = r.launched
    BY <1>1, <1>2 DEF Moves, IsCommand, Sound, Evolves, Rests, Alive, JobHeld, Asked
  <2> HIDE DEF t
  <2>2. Moves(windows, host, r, Stopped(t)) /\ Stopped(t).launched = r.launched
    BY <2>1, StoppedAfter
  <2> QED BY <1>4, <2>2, SetAdvances
<1> QED BY <1>3, <1>4 DEF GuardianLaunches

-----------------------------------------------------------------------------
(* What happens to the processes, and the clean-up.                        *)

LEMMA CommandExitsAdvances ==
  ASSUME Typed, Commands, NEW c \in Cmds, CommandExits(c)
  PROVE  Advances /\ Supervised
<1>0. PICK left \in {"dead", "orphans"} :
        LET s == [p[c] EXCEPT !.tree = left]
        IN Set(c, IF p[c].guardian = "alive" /\ host = "up" THEN Stopped(s) ELSE s)
  BY Zenon DEF CommandExits
<1> DEFINE r == p[c]
           s == [r EXCEPT !.tree = left]
<1>1. IsCommand(r) /\ Sound(windows, host, r) /\ windows \in BOOLEAN /\ host \in {"up", "lost"}
  BY DEF Typed, Commands
<1>2. r.tree = "running"
  BY DEF CommandExits
<1>3. Moves(windows, host, r, s) /\ s.launched = r.launched
  BY <1>1, <1>2 DEF Moves, IsCommand, Sound, Evolves, Rests, Alive, JobHeld, Asked
<1>4. Set(c, IF r.guardian = "alive" /\ host = "up" THEN Stopped(s) ELSE s)
  BY <1>0
<1> HIDE DEF s
<1>5. Moves(windows, host, r, Stopped(s)) /\ Stopped(s).launched = r.launched
  BY <1>3, StoppedAfter
<1>6. CASE Set(c, s)
  BY <1>3, <1>6, SetAdvances
<1>7. CASE Set(c, Stopped(s))
  BY <1>5, <1>7, SetAdvances
<1> QED BY <1>4, <1>6, <1>7

\* A dead guardian launches nothing any more.
LEMMA GuardianDiesAdvances ==
  ASSUME Typed, Commands, NEW c \in Cmds, GuardianDies(c)
  PROVE  Advances /\ Supervised
<1> DEFINE r == p[c]
           s == [r EXCEPT !.guardian = "dead", !.ordered = FALSE]
<1>1. IsCommand(r) /\ Sound(windows, host, r) /\ windows \in BOOLEAN /\ host \in {"up", "lost"}
  BY DEF Typed, Commands
<1>2. Set(c, s)
  BY DEF GuardianDies
<1>3. Moves(windows, host, r, s) /\ s.launched = r.launched
  BY <1>1 DEF Moves, IsCommand, Sound, Evolves, Rests, Alive, JobHeld, Asked, GuardianDies
<1> QED BY <1>2, <1>3, SetAdvances

LEMMA PerishAdvances ==
  ASSUME Typed, Commands, NEW c \in Cmds, Perish(c)
  PROVE  Advances /\ Supervised
<1> DEFINE r == p[c]
           g == IF r.guardian = "alive" THEN "dead" ELSE r.guardian
           k == IF r.tree = "none" THEN "none" ELSE "dead"
           s == [r EXCEPT !.guardian = g, !.ordered = FALSE, !.tree = k]
<1>1. IsCommand(r) /\ Sound(windows, host, r) /\ windows \in BOOLEAN /\ host \in {"up", "lost"}
  BY DEF Typed, Commands
<1>2. Set(c, s)
  BY DEF Perish
<1>3. Moves(windows, host, r, s) /\ s.launched = r.launched
  BY <1>1 DEF Moves, IsCommand, Sound, Evolves, Rests, Alive, JobHeld, Asked
<1> QED BY <1>2, <1>3, SetAdvances

LEMMA StreamsCloseAdvances ==
  ASSUME Typed, Commands, NEW c \in Cmds, StreamsClose(c)
  PROVE  Advances /\ Supervised
<1> DEFINE r == p[c]
           s == [r EXCEPT !.closed = TRUE]
<1>1. IsCommand(r) /\ Sound(windows, host, r) /\ windows \in BOOLEAN /\ host \in {"up", "lost"}
  BY DEF Typed, Commands
<1>2. Set(c, Stopped(s))
  BY DEF StreamsClose
<1>3. Moves(windows, host, r, s) /\ s.launched = r.launched
  BY <1>1 DEF Moves, IsCommand, Sound, Evolves, Rests, Alive, JobHeld, Asked
<1> HIDE DEF s
<1>4. Moves(windows, host, r, Stopped(s)) /\ Stopped(s).launched = r.launched
  BY <1>3, StoppedAfter
<1> QED BY <1>2, <1>4, SetAdvances

\* Every stop of one command: Timeout, stop_command, closeAll().
LEMMA StopAdvances ==
  ASSUME Typed, Commands, NEW c \in Cmds, Set(c, Stopped(p[c]))
  PROVE  Advances /\ Supervised
<1>1. Moves(windows, host, p[c], Stopped(p[c])) /\ Stopped(p[c]).launched = p[c].launched
  BY StoppedMoves DEF Typed, Commands
<1> QED BY <1>1, SetAdvances

LEMMA KillGroupAdvances ==
  ASSUME Typed, Commands, NEW c \in Cmds, KillGroup(c)
  PROVE  Advances /\ Supervised
<1> DEFINE r == p[c]
           s == [r EXCEPT !.killed = TRUE]
<1>1. IsCommand(r) /\ Sound(windows, host, r) /\ windows \in BOOLEAN /\ host \in {"up", "lost"}
  BY DEF Typed, Commands
<1>2. Set(c, s)
  BY DEF KillGroup
<1>3. Moves(windows, host, r, s) /\ s.launched = r.launched
  BY <1>1 DEF Moves, IsCommand, Sound, Evolves, Rests, Alive, JobHeld, Asked, KillGroup
<1> QED BY <1>2, <1>3, SetAdvances

LEMMA KillGuardianAdvances ==
  ASSUME Typed, Commands, NEW c \in Cmds, KillGuardian(c)
  PROVE  Advances /\ Supervised
<1> DEFINE r == p[c]
           s == [r EXCEPT !.guardian = "dead"]
<1>1. IsCommand(r) /\ Sound(windows, host, r) /\ windows \in BOOLEAN /\ host \in {"up", "lost"}
  BY DEF Typed, Commands
<1>2. Set(c, s)
  BY DEF KillGuardian
<1>3. Moves(windows, host, r, s) /\ s.launched = r.launched
  BY <1>1 DEF Moves, IsCommand, Sound, Evolves, Rests, Alive, JobHeld, Asked, KillGuardian, Cleaning
<1> QED BY <1>2, <1>3, SetAdvances

LEMMA StopJobAdvances ==
  ASSUME Typed, Commands, NEW c \in Cmds, StopJob(c)
  PROVE  Advances /\ Supervised
<1> DEFINE r == p[c]
           s == [r EXCEPT !.job = "stopping", !.killed = TRUE]
<1>1. IsCommand(r) /\ Sound(windows, host, r) /\ windows \in BOOLEAN /\ host \in {"up", "lost"}
  BY DEF Typed, Commands
<1>2. Set(c, s)
  BY DEF StopJob
<1>3. Moves(windows, host, r, s) /\ s.launched = r.launched
  BY <1>1 DEF Moves, IsCommand, Sound, Evolves, Rests, Alive, JobHeld, Asked, StopJob, Cleaning
<1> QED BY <1>2, <1>3, SetAdvances

LEMMA JobEmptiesAdvances ==
  ASSUME Typed, Commands, NEW c \in Cmds, JobEmpties(c)
  PROVE  Advances /\ Supervised
<1> DEFINE r == p[c]
           s == [r EXCEPT !.job = "empty"]
<1>1. IsCommand(r) /\ Sound(windows, host, r) /\ windows \in BOOLEAN /\ host \in {"up", "lost"}
  BY DEF Typed, Commands
<1>2. Set(c, s)
  BY DEF JobEmpties
<1>3. Moves(windows, host, r, s) /\ s.launched = r.launched
  BY <1>1 DEF Moves, IsCommand, Sound, Evolves, Rests, Alive, JobHeld, Asked, JobEmpties
<1> QED BY <1>2, <1>3, SetAdvances

\* What the barrier lets through has nothing left.
LEMMA BarrierHolds ==
  ASSUME NEW r, IsCommand(r), Sound(windows, "up", r), windows \in BOOLEAN, Barrier(r)
  PROVE  Rests(r) /\ ~JobHeld(r)
BY DEF IsCommand, Sound, Barrier, Rests, Alive, JobHeld

LEMMA ReleasedAdvances ==
  ASSUME Typed, Commands, NEW c \in Cmds, Released(c)
  PROVE  Advances /\ Supervised
<1> DEFINE r == p[c]
           v == IF r.result = "pending" THEN "released" ELSE r.result
           s == [r EXCEPT !.held = FALSE, !.cleanup = "released", !.killed = FALSE, !.closed = FALSE,
                          !.result = v]
<1>1. IsCommand(r) /\ Sound(windows, host, r) /\ windows \in BOOLEAN /\ host \in {"up", "lost"}
  BY DEF Typed, Commands
<1>2. Set(c, s)
  BY DEF Released
<1>3. host = "up" /\ r.cleanup = "running" /\ Rests(r) /\ ~JobHeld(r)
  BY <1>1, BarrierHolds DEF Released, Cleaning
<1>4. Moves(windows, host, r, s) /\ s.launched = r.launched
  BY <1>1, <1>3 DEF Moves, IsCommand, Sound, Evolves, Rests, Alive, JobHeld, Asked
<1> QED BY <1>2, <1>4, SetAdvances

LEMMA CleanupFailsAdvances ==
  ASSUME Typed, Commands, NEW c \in Cmds, CleanupFails(c)
  PROVE  Advances /\ Supervised
<1> DEFINE r == p[c]
           s == [r EXCEPT !.cleanup = "failed", !.result = "cleanup_failed"]
<1>1. IsCommand(r) /\ Sound(windows, host, r) /\ windows \in BOOLEAN /\ host \in {"up", "lost"}
  BY DEF Typed, Commands
<1>2. Set(c, s)
  BY DEF CleanupFails
<1>3. Moves(windows, host, r, s) /\ s.launched = r.launched
  BY <1>1 DEF Moves, IsCommand, Sound, Evolves, Rests, Alive, JobHeld, Asked, CleanupFails, Cleaning
<1> QED BY <1>2, <1>3, SetAdvances

\* Without the application the guardians and the helpers end what they hold.
LEMMA OrphanedAdvances ==
  ASSUME Typed, Commands, NEW c \in Cmds, Orphaned(c)
  PROVE  Advances /\ Supervised
<1> DEFINE r == p[c]
           s == [r EXCEPT !.killed = TRUE]
           t == [r EXCEPT !.guardian = "dead", !.ordered = FALSE]
<1>1. IsCommand(r) /\ Sound(windows, host, r) /\ windows \in BOOLEAN /\ host \in {"up", "lost"}
  BY DEF Typed, Commands
<1>2. Set(c, s) \/ (r.guardian = "alive" /\ Set(c, t))
  BY <1>1 DEF Orphaned
<1>3. Moves(windows, host, r, s) /\ s.launched = r.launched
  BY <1>1 DEF Moves, IsCommand, Sound, Evolves, Rests, Alive, JobHeld, Asked
<1>4. r.guardian = "alive" => Moves(windows, host, r, t) /\ t.launched = r.launched
  BY <1>1 DEF Moves, IsCommand, Sound, Evolves, Rests, Alive, JobHeld, Asked
<1> HIDE DEF s, t
<1>5. CASE Set(c, s)
  BY <1>3, <1>5, SetAdvances
<1>6. CASE r.guardian = "alive" /\ Set(c, t)
  BY <1>4, <1>6, SetAdvances
<1> QED BY <1>2, <1>5, <1>6

\* Whatever the supervisor and the processes do, it is a step of this kind.
LEMMA SupervisorAdvances ==
  ASSUME Typed, Commands, NEW c \in Cmds, SupervisorStep(c)
  PROVE  Advances /\ Supervised
<1>1. CASE ProcessStep(c)
  BY <1>1, GuardianSpawnedAdvances, JobBindsAdvances, LaunchAdvances, GuardianLaunchesAdvances,
     StreamsCloseAdvances, KillGroupAdvances, KillGuardianAdvances, StopJobAdvances,
     JobEmptiesAdvances, ReleasedAdvances, PerishAdvances, OrphanedAdvances DEF ProcessStep
<1>2. CASE Misfortune(c)
  BY <1>2, JobLostAdvances, CommandExitsAdvances, GuardianDiesAdvances, CleanupFailsAdvances DEF Misfortune
<1>3. CASE Timeout(c)
  BY <1>3, StopAdvances DEF Timeout
<1> QED BY <1>1, <1>2, <1>3 DEF SupervisorStep

-----------------------------------------------------------------------------
(* The lifecycle of a command on the journal.                              *)

Growing == {<<>>, <<"prepared">>, <<"prepared", "running">>}
Verdicts == {"finished", "unknown"}

LEMMA TupleIs ==
  ASSUME NEW a, NEW b, NEW c
  PROVE  /\ <<a>> \in Seq({a, b, c}) /\ <<a, b>> \in Seq({a, b, c}) /\ <<a, b, c>> \in Seq({a, b, c})
         /\ Len(<<a>>) = 1 /\ Len(<<a, b>>) = 2 /\ Len(<<a, b, c>>) = 3
<1>1. <<a>> \in [1 .. 1 -> {a, b, c}]
  OBVIOUS
<1>2. <<a, b>> \in [1 .. 2 -> {a, b, c}]
  OBVIOUS
<1>3. <<a, b, c>> \in [1 .. 3 -> {a, b, c}]
  OBVIOUS
<1>4. 1 \in Nat /\ 2 \in Nat /\ 3 \in Nat
  OBVIOUS
<1>5. <<a>> \in Seq({a, b, c})
  BY <1>1, <1>4, SeqDef
<1>6. <<a, b>> \in Seq({a, b, c})
  BY <1>2, <1>4, SeqDef
<1>7. <<a, b, c>> \in Seq({a, b, c})
  BY <1>3, <1>4, SeqDef
<1>8. Len(<<a>>) = 1 /\ Len(<<a, b>>) = 2 /\ Len(<<a, b, c>>) = 3
  OBVIOUS
<1> QED BY <1>5, <1>6, <1>7, <1>8

LEMMA Appending ==
  ASSUME NEW a, NEW b, NEW c
  PROVE  /\ Append(<<>>, a) = <<a>> /\ Append(<<a>>, b) = <<a, b>> /\ Append(<<a, b>>, c) = <<a, b, c>>
         /\ <<a>> \o <<>> = <<a>> /\ <<a, b>> \o <<>> = <<a, b>>
         /\ <<a>> \o <<b>> = <<a, b>> /\ <<a, b>> \o <<c>> = <<a, b, c>>
<1> DEFINE S == {a, b, c}
<1>1. /\ <<a>> \in Seq(S) /\ <<a, b>> \in Seq(S) /\ <<a, b, c>> \in Seq(S)
      /\ Len(<<a>>) = 1 /\ Len(<<a, b>>) = 2 /\ Len(<<a, b, c>>) = 3
  BY TupleIs
<1>2. a \in S /\ b \in S /\ c \in S
  OBVIOUS
<1> HIDE DEF S
<1>3. Append(<<a>>, b) = <<a, b>>
  <2>1. Append(<<a>>, b) \in Seq(S) /\ Len(Append(<<a>>, b)) = 2
    BY <1>1, <1>2, AppendProperties
  <2>2. Append(<<a>>, b)[1] = a /\ Append(<<a>>, b)[2] = b
    BY <1>1, <1>2, AppendProperties
  <2>3. \A i \in 1 .. 2 : Append(<<a>>, b)[i] = <<a, b>>[i]
    BY <2>2
  <2> QED BY <1>1, <2>1, <2>3, SeqEqual
<1>4. Append(<<a, b>>, c) = <<a, b, c>>
  <2>1. Append(<<a, b>>, c) \in Seq(S) /\ Len(Append(<<a, b>>, c)) = 3
    BY <1>1, <1>2, AppendProperties
  <2>2. Append(<<a, b>>, c)[1] = a /\ Append(<<a, b>>, c)[2] = b /\ Append(<<a, b>>, c)[3] = c
    BY <1>1, <1>2, AppendProperties
  <2>3. \A i \in 1 .. 3 : Append(<<a, b>>, c)[i] = <<a, b, c>>[i]
    BY <2>2
  <2> QED BY <1>1, <2>1, <2>3, SeqEqual
<1>5. Append(<<>>, a) = <<a>>
  OBVIOUS
<1>6. <<a>> \o <<>> = <<a>> /\ <<a, b>> \o <<>> = <<a, b>>
  BY <1>1, ConcatEmptySeq
<1>7. <<a>> \o <<b>> = Append(<<a>>, b) /\ <<a, b>> \o <<c>> = Append(<<a, b>>, c)
  BY <1>1, <1>2, AppendIsConcat
<1> QED BY <1>3, <1>4, <1>5, <1>6, <1>7

\* The lifecycles there are, one by one.
LEMMA LifecyclesAre ==
  Lifecycles = Growing \cup {<<"prepared", v>> : v \in Verdicts} \cup {<<"prepared", "running", v>> : v \in Verdicts}
<1> DEFINE R == {<<>>, <<"running">>}
           E == {<<>>, <<"finished">>, <<"unknown">>}
           First(r) == <<"prepared">> \o r
           Whole(r, e) == <<"prepared">> \o r \o e
<1>1. First(<<>>) = <<"prepared">> /\ First(<<"running">>) = <<"prepared", "running">>
  BY Appending
<1>2. \A r, e : Whole(r, e) = First(r) \o e
  OBVIOUS
<1> HIDE DEF First
<1>3. Lifecycles = {<<>>} \cup {Whole(r, e) : r \in R, e \in E}
  BY DEF Lifecycles
<1>4. /\ Whole(<<>>, <<>>) = <<"prepared">> /\ Whole(<<"running">>, <<>>) = <<"prepared", "running">>
      /\ Whole(<<>>, <<"finished">>) = <<"prepared", "finished">>
      /\ Whole(<<>>, <<"unknown">>) = <<"prepared", "unknown">>
      /\ Whole(<<"running">>, <<"finished">>) = <<"prepared", "running", "finished">>
      /\ Whole(<<"running">>, <<"unknown">>) = <<"prepared", "running", "unknown">>
  <2>1. \A v : <<"prepared">> \o <<v>> = <<"prepared", v>> /\ <<"prepared", "running">> \o <<v>> = <<"prepared", "running", v>>
    BY Appending
  <2>2. <<"prepared">> \o <<>> = <<"prepared">> /\ <<"prepared", "running">> \o <<>> = <<"prepared", "running">>
    BY Appending
  <2> HIDE DEF Whole
  <2> QED BY <1>1, <1>2, <2>1, <2>2
<1> HIDE DEF Whole
<1>6. {Whole(r, e) : r \in R, e \in E} =
        {Whole(<<>>, <<>>), Whole(<<>>, <<"finished">>), Whole(<<>>, <<"unknown">>), Whole(<<"running">>, <<>>),
         Whole(<<"running">>, <<"finished">>), Whole(<<"running">>, <<"unknown">>)}
  OBVIOUS
<1>7. /\ {<<"prepared", v>> : v \in Verdicts} = {<<"prepared", "finished">>, <<"prepared", "unknown">>}
      /\ {<<"prepared", "running", v>> : v \in Verdicts}
           = {<<"prepared", "running", "finished">>, <<"prepared", "running", "unknown">>}
  BY DEF Verdicts
<1> QED BY <1>3, <1>4, <1>6, <1>7 DEF Growing

\* What is on record of a command that has not ended, and of one that has.
LEMMA GrowingIs ==
  /\ Growing \subseteq Lifecycles
  /\ \A l \in Growing : "finished" \notin Range(l)
<1>1. Growing \subseteq Lifecycles
  BY LifecyclesAre
<1>2. /\ DOMAIN <<"prepared">> = {1} /\ DOMAIN <<"prepared", "running">> = {1, 2}
  OBVIOUS
<1>3. \A l \in Growing : "finished" \notin Range(l)
  BY <1>2 DEF Growing, Range
<1> QED BY <1>1, <1>3

LEMMA VerdictIs ==
  ASSUME NEW l \in {<<"prepared">>, <<"prepared", "running">>}, NEW v \in Verdicts
  PROVE  /\ Append(l, v) \in Lifecycles /\ Append(l, v) # <<>>
         /\ "finished" \in Range(Append(l, v)) <=> v = "finished"
<1>1. CASE l = <<"prepared">>
  <2>1. Append(l, v) = <<"prepared", v>>
    BY <1>1, Appending
  <2>2. DOMAIN <<"prepared", v>> = {1, 2}
    OBVIOUS
  <2>3. Range(<<"prepared", v>>) = {"prepared", v}
    BY <2>2 DEF Range
  <2> QED BY <2>1, <2>3, LifecyclesAre DEF Verdicts
<1>2. CASE l = <<"prepared", "running">>
  <2>1. Append(l, v) = <<"prepared", "running", v>>
    BY <1>2, Appending
  <2>2. DOMAIN <<"prepared", "running", v>> = {1, 2, 3}
    OBVIOUS
  <2>3. Range(<<"prepared", "running", v>>) = {"prepared", "running", v}
    BY <2>2 DEF Range
  <2> QED BY <2>1, <2>3, LifecyclesAre DEF Verdicts
<1> QED BY <1>1, <1>2

\* The last record of a command is one of its records.
LEMMA LastIs ==
  ASSUME NEW l \in Lifecycles, l # <<>>, Last(l) = "finished"
  PROVE  "finished" \in Range(l)
<1>1. \E S : l \in Seq(S)
  <2>1. \A v \in Verdicts : \E S : <<"prepared", v>> \in Seq(S)
    BY TupleIs
  <2>2. \A v \in Verdicts : \E S : <<"prepared", "running", v>> \in Seq(S)
    BY TupleIs
  <2>3. (\E S : <<"prepared">> \in Seq(S)) /\ (\E S : <<"prepared", "running">> \in Seq(S))
    BY TupleIs
  <2> QED BY <2>1, <2>2, <2>3, LifecyclesAre DEF Growing
<1>2. Len(l) \in Nat /\ Len(l) # 0 /\ DOMAIN l = 1 .. Len(l)
  BY <1>1, LenProperties, EmptySeq
<1>3. Len(l) \in DOMAIN l
  BY <1>2
<1> QED BY <1>3 DEF Last, Range

-----------------------------------------------------------------------------
(* The invariant is kept.                                                  *)

\* Nothing new of the run is launched once it is in doubt.
Careful == \A c \in Mine : failed /\ p'[c].launched => p[c].launched
Kept == IInv' /\ Careful

LEMMA MineIs == Mine \subseteq Cmds /\ \A c \in Mine : OwnerOf[c] = Self
BY DEF Mine, OfOwner

LEMMA AdvanceIsCareful ==
  ASSUME IInv, Advances
  PROVE  Careful
BY MineIs DEF IInv, Doubted, Advances, Careful, Withdrawn

\* What may be on its way stays below the limit when no command is added.
LEMMA FewStays ==
  ASSUME Few, \A c \in Mine : at[c] \in {"none", "over", "failed"} => at'[c] \in {"none", "over", "failed"}
  PROVE  Few'
<1>1. Busy' \subseteq Busy
  BY DEF Busy
<1>2. IsFiniteSet(Busy') /\ Cardinality(Busy') <= Cardinality(Busy)
  BY <1>1, FS_Subset DEF Few
<1>3. Cardinality(Busy) \in Nat /\ Cardinality(Busy') \in Nat
  BY <1>2, FS_CardinalityType DEF Few
<1> QED BY <1>2, <1>3, CommandConstants DEF Few

\* A step of the supervisor, which leaves the tools alone.
LEMMA SupervisedKeeps ==
  ASSUME IInv, Advances, UNCHANGED <<windows, host, at, log, failed, broken, closing>>,
         aborted \subseteq aborted', DOMAIN stops' = Owners, Stopping'
  PROVE  Kept
<1>1. Typed'
  BY DEF IInv, Typed, Advances
<1>2. Commands'
  BY DEF Commands, Advances
<1>3. Logged'
  BY DEF IInv, Logged
<1>4. Told'
  <2> SUFFICES ASSUME NEW c \in Mine
               PROVE  /\ at[c] \in {"none", "intent", "guard"} /\ host = "up" => p'[c].pc = "none"
                      /\ log[c] = <<>> => p'[c].guardian = "none"
                      /\ "finished" \in Range(log[c]) => Rests(p'[c]) /\ (host = "up" => ~p'[c].held)
    BY DEF Told
  <2>1. Evolves(p[c], p'[c])
    BY MineIs DEF Advances
  <2> QED BY <2>1 DEF IInv, Told, Evolves
<1>5. Doubted'
  BY DEF IInv, Doubted
<1>6. Ended'
  BY DEF IInv, Ended
<1>7. Few'
  BY FewStays DEF IInv
<1> QED BY <1>1, <1>2, <1>3, <1>4, <1>5, <1>6, <1>7, AdvanceIsCareful DEF IInv, Kept

\* Owners that stop as before hold no more than before.
LEMMA StoppingStays ==
  ASSUME IInv, Advances, UNCHANGED <<host, revoked, stops>>
  PROVE  Stopping'
<1> SUFFICES ASSUME NEW o \in Owners, stops[o] # "none"
             PROVE  /\ host = "up" /\ o \in revoked
                    /\ stops[o] = "stopped" => \A c \in OfOwner(o) : ~p'[c].held
  BY DEF Stopping
<1>1. \A c \in OfOwner(o) : Evolves(p[c], p'[c])
  BY DEF OfOwner, Advances
<1> QED BY <1>1 DEF IInv, Stopping, Evolves

\* The guardian of a command is opened, or the command is refused.
Opens(c) ==
  /\ at[c] = "guard" /\ OwnerOf[c] \notin revoked
  /\ DOMAIN p' = Cmds /\ \A d \in Cmds : d # c => p'[d] = p[d]
  /\ IsCommand(p'[c]) /\ Sound(windows, host, p'[c]) /\ ~p'[c].launched

\* A call of start(), or what it leaves running, goes on.
LEMMA CallKeeps ==
  ASSUME IInv, NEW c \in Mine, at[c] \notin {"none", "over", "failed"},
         NEW s \in Places, Goes(c, s), s \notin {"none", "intent"},
         NEW l \in Lifecycles, log' = [log EXCEPT ![c] = l], log[c] # <<>> => l # <<>>,
         Advances \/ Opens(c), UNCHANGED <<windows, host, revoked, stops, closing>>,
         aborted \subseteq aborted', failed' \in BOOLEAN, broken' \in BOOLEAN,
         failed => failed', failed' => Self \in aborted', broken => broken',
         s \in {"failing", "failed"} => failed',
         s = "guard" => p'[c].pc = "none" /\ l = <<"prepared">>,
         s = "ready" => l = <<"prepared">>,
         s = "running" => l \in {<<"prepared">>, <<"prepared", "running">>},
         s = "over" => l # <<>>,
         s = "failing" /\ ~broken' => l = <<>>,
         "finished" \in Range(l) => "finished" \in Range(log[c]) \/ ~p'[c].held
  PROVE  Kept
<1>1. c \in Cmds /\ host = "up" /\ at'[c] = s /\ log'[c] = l
  BY MineIs DEF IInv, Typed, Logged, Goes
<1>2. \A d \in Mine : d # c => at'[d] = at[d] /\ log'[d] = log[d]
  BY DEF IInv, Typed, Goes
<1>3. \A d \in Cmds : IsCommand(p'[d]) /\ Sound(windows, host, p'[d])
  BY DEF Advances, Opens, IInv, Typed, Commands
<1>4. \A d \in Cmds : d # c => Evolves(p[d], p'[d])
  BY DEF Advances, Opens, Evolves
<1>5. Evolves(p[c], p'[c]) \/ Opens(c)
  BY <1>1 DEF Advances
<1>6. Typed'
  <2>1. at' \in [Mine -> Places] /\ log' \in [Mine -> Lifecycles]
    BY DEF IInv, Typed, Goes
  <2>2. DOMAIN p' = Cmds
    BY DEF Advances, Opens
  <2> QED BY <1>3, <2>1, <2>2 DEF IInv, Typed
<1>7. Commands'
  BY <1>3 DEF Commands
<1>8. Stopping'
  <2> SUFFICES ASSUME NEW o \in Owners, stops[o] # "none"
               PROVE  /\ host = "up" /\ o \in revoked
                      /\ stops[o] = "stopped" => \A d \in OfOwner(o) : ~p'[d].held
    BY DEF Stopping
  <2>1. o \in revoked
    BY DEF IInv, Stopping
  <2>2. \A d \in OfOwner(o) : Evolves(p[d], p'[d])
    BY <1>4, <1>5, <2>1 DEF OfOwner, Opens
  <2> QED BY <1>1, <2>1, <2>2 DEF IInv, Stopping, Evolves
<1>9. Logged'
  <2> SUFFICES ASSUME NEW d \in Mine
               PROVE  /\ at'[d] \in {"none", "intent"} /\ host = "up" => log'[d] = <<>>
                      /\ at'[d] \in {"guard", "ready"} => log'[d] = <<"prepared">>
                      /\ at'[d] = "running" => log'[d] \in {<<"prepared">>, <<"prepared", "running">>}
                      /\ at'[d] = "over" => log'[d] # <<>>
                      /\ at'[d] = "failing" /\ ~broken' => log'[d] = <<>>
                      /\ at'[d] # "none" => host = "up"
    BY DEF Logged
  <2>1. CASE d = c
    BY <1>1, <2>1
  <2>2. CASE d # c
    BY <1>2, <2>2 DEF IInv, Logged
  <2> QED BY <2>1, <2>2
<1>10. Told'
  <2> SUFFICES ASSUME NEW d \in Mine
               PROVE  /\ at'[d] \in {"none", "intent", "guard"} /\ host = "up" => p'[d].pc = "none"
                      /\ log'[d] = <<>> => p'[d].guardian = "none"
                      /\ "finished" \in Range(log'[d]) => Rests(p'[d]) /\ (host = "up" => ~p'[d].held)
    BY DEF Told
  <2>1. CASE d = c
    <3>1. l = <<>> => p'[c].guardian = "none"
      <4> SUFFICES ASSUME l = <<>>
                   PROVE  p'[c].guardian = "none"
        OBVIOUS
      <4>1. log[c] = <<>> /\ ~Opens(c)
        BY <1>1 DEF Opens, IInv, Logged
      <4> QED BY <1>5, <4>1 DEF IInv, Told, Evolves
    <3>2. "finished" \in Range(l) => ~p'[c].held
      <4> SUFFICES ASSUME "finished" \in Range(log[c])
                   PROVE  ~p'[c].held
        OBVIOUS
      <4>1. ~Opens(c)
        BY <1>1, GrowingIs DEF Opens, IInv, Logged, Growing
      <4> QED BY <1>1, <1>5, <4>1 DEF IInv, Told, Evolves
    <3>3. ~p'[c].held => Rests(p'[c])
      BY <1>1, <1>3 DEF Sound
    <3> QED BY <1>1, <2>1, <3>1, <3>2, <3>3
  <2>2. CASE d # c
    <3>1. Evolves(p[d], p'[d])
      BY <1>4, <2>2, MineIs
    <3> QED BY <1>2, <2>2, <3>1 DEF IInv, Told, Evolves
  <2> QED BY <2>1, <2>2
<1>11. Doubted'
  BY <1>1, <1>2 DEF IInv, Doubted
<1>12. Ended'
  BY DEF IInv, Ended
<1>13. Few'
  BY <1>1, <1>2, FewStays DEF IInv
<1>14. Careful
  <2>1. CASE Advances
    BY <2>1, AdvanceIsCareful
  <2>2. CASE Opens(c)
    BY <2>2, MineIs DEF Opens, Careful
  <2> QED BY <2>1, <2>2
<1> QED BY <1>6, <1>7, <1>8, <1>9, <1>10, <1>11, <1>12, <1>13, <1>14 DEF IInv, Kept

-----------------------------------------------------------------------------
(* The steps of the tools.                                                 *)

\* A lifecycle in doubt aborts the run with everything it has started.
LEMMA DoubtIs ==
  ASSUME IInv, NEW S, Doubt(S)
  PROVE  /\ Advances /\ failed' /\ failed' \in BOOLEAN
         /\ Self \in aborted' /\ aborted \subseteq aborted'
         /\ UNCHANGED <<windows, host, revoked, stops>>
<1>1. \E T : p' = StopAll(T)
  BY DEF Doubt
<1>2. Advances
  BY <1>1, StopAllAdvances DEF IInv
<1> QED BY <1>2 DEF Doubt

\* What the processes do not notice.
LEMMA UnseenIs ==
  ASSUME IInv, UNCHANGED <<supervisorVars, failed>>
  PROVE  /\ Advances /\ failed' \in BOOLEAN /\ (failed => failed') /\ (failed' => Self \in aborted')
         /\ aborted \subseteq aborted' /\ UNCHANGED <<windows, host, revoked, stops>> /\ UNCHANGED p
<1>1. UNCHANGED <<windows, host, revoked, aborted, p, stops, failed>>
  BY DEF supervisorVars
<1>2. Advances
  BY <1>1, StayAdvances DEF IInv
<1>3. (failed => failed') /\ (failed' => Self \in aborted')
  BY <1>1 DEF IInv, Doubted
<1>4. failed' \in BOOLEAN
  BY <1>1 DEF IInv, Typed
<1> QED BY <1>1, <1>2, <1>3, <1>4

LEMMA SaveFailsKeeps ==
  ASSUME IInv, NEW c \in Mine, at[c] \in {"intent", "guard", "ready", "running"}, NEW s,
         Append(log[c], s) \in Lifecycles, Append(log[c], s) # <<>>,
         "finished" \in Range(Append(log[c], s)) => ~p[c].held,
         SaveFails(c, s), UNCHANGED closing
  PROVE  Kept
<1>1. /\ Advances /\ failed' /\ failed' \in BOOLEAN
      /\ Self \in aborted' /\ aborted \subseteq aborted'
      /\ UNCHANGED <<windows, host, revoked, stops>>
  BY DoubtIs DEF SaveFails
<1>2. Goes(c, "failing") /\ broken' = TRUE /\ "failing" \in Places
  BY DEF SaveFails, Places
<1>3. ~p[c].held => ~p'[c].held
  BY <1>1, MineIs DEF Advances, Evolves
<1>4. CASE UNCHANGED log
  <2>1. log' = [log EXCEPT ![c] = log[c]] /\ log[c] \in Lifecycles
    BY <1>4 DEF IInv, Typed
  <2> QED BY <1>1, <1>2, <2>1, CallKeeps
<1>5. CASE Lands(c, s)
  <2>1. log' = [log EXCEPT ![c] = Append(log[c], s)]
    BY <1>5 DEF Lands
  <2> QED BY <1>1, <1>2, <1>3, <2>1, CallKeeps
<1> QED BY <1>4, <1>5 DEF SaveFails

\* A command ends with a verdict, or with a lifecycle in doubt.
LEMMA FinishKeeps ==
  ASSUME IInv, NEW c \in Mine, at[c] \in {"guard", "running"}, NEW v \in Verdicts,
         v = "finished" => ~p[c].held, Finish(c, v), UNCHANGED closing
  PROVE  Kept
<1>1. log[c] \in {<<"prepared">>, <<"prepared", "running">>}
  BY DEF IInv, Logged
<1>2. /\ Append(log[c], v) \in Lifecycles /\ Append(log[c], v) # <<>>
      /\ "finished" \in Range(Append(log[c], v)) <=> v = "finished"
  BY <1>1, VerdictIs
<1>3. CASE SaveFails(c, v)
  BY <1>2, <1>3, SaveFailsKeeps
<1>4. CASE /\ Saves(c, v) /\ Goes(c, "over")
           /\ IF v = "unknown" THEN Doubt({}) ELSE UNCHANGED <<supervisorVars, failed>>
  <2>1. /\ log' = [log EXCEPT ![c] = Append(log[c], v)] /\ "over" \in Places
        /\ broken' \in BOOLEAN /\ (broken => broken') /\ Goes(c, "over")
    BY <1>4 DEF Saves, Lands, Places, IInv, Typed
  <2>2. CASE v = "unknown"
    <3>1. /\ Advances /\ failed' /\ failed' \in BOOLEAN
          /\ Self \in aborted' /\ aborted \subseteq aborted'
          /\ UNCHANGED <<windows, host, revoked, stops>>
      BY <1>4, <2>2, DoubtIs
    <3> QED BY <1>2, <2>1, <2>2, <3>1, CallKeeps
  <2>3. CASE v # "unknown"
    <3>1. UNCHANGED <<supervisorVars, failed>> /\ v = "finished"
      BY <1>4, <2>3 DEF Verdicts
    <3>2. /\ Advances /\ failed' \in BOOLEAN /\ (failed => failed') /\ (failed' => Self \in aborted')
          /\ aborted \subseteq aborted' /\ UNCHANGED <<windows, host, revoked, stops>> /\ UNCHANGED p
      BY <3>1, UnseenIs
    <3>3. ~p'[c].held
      BY <3>1, <3>2
    <3> QED BY <1>2, <2>1, <3>2, <3>3, CallKeeps
  <2> QED BY <2>2, <2>3
<1> QED BY <1>3, <1>4 DEF Finish

LEMMA StartCallKeeps ==
  ASSUME IInv, NEW c \in Mine, StartCall(c)
  PROVE  Kept
<1>1. UNCHANGED <<windows, host, revoked, aborted, p, stops, log, failed, broken, closing>>
  BY DEF StartCall, supervisorVars
<1>2. /\ at[c] = "none" /\ Goes(c, "intent") /\ host = "up" /\ closing = "open"
      /\ Cardinality(Busy) < MaxRunning
  BY DEF StartCall, Current
<1>3. at'[c] = "intent" /\ \A d \in Mine : d # c => at'[d] = at[d]
  BY <1>2 DEF IInv, Typed, Goes
<1>4. Advances
  BY <1>1, StayAdvances DEF IInv
<1>5. Typed'
  BY <1>1, <1>2 DEF IInv, Typed, Goes, Places
<1>6. Commands' /\ Stopping'
  BY <1>1, StoppingStays, <1>4 DEF IInv, Commands
<1>7. Logged'
  BY <1>1, <1>2, <1>3 DEF IInv, Logged
<1>8. Told'
  BY <1>1, <1>2, <1>3 DEF IInv, Told
<1>9. Doubted' /\ Ended'
  BY <1>1, <1>2, <1>3 DEF IInv, Doubted, Ended
<1>10. Few'
  <2>1. Busy' = Busy \cup {c} /\ c \notin Busy
    BY <1>2, <1>3 DEF Busy
  <2>2. IsFiniteSet(Busy)
    BY DEF IInv, Few
  <2>3. IsFiniteSet(Busy') /\ Cardinality(Busy') = Cardinality(Busy) + 1
    BY <2>1, <2>2, FS_AddElement
  <2>4. Cardinality(Busy) \in Nat
    BY <2>2, FS_CardinalityType
  <2> QED BY <1>2, <2>3, <2>4, CommandConstants DEF Few
<1> QED BY <1>4, <1>5, <1>6, <1>7, <1>8, <1>9, <1>10, AdvanceIsCareful DEF IInv, Kept

LEMMA SaveIntentKeeps ==
  ASSUME IInv, NEW c \in Mine, SaveIntent(c)
  PROVE  Kept
<1>1. host = "up" /\ at[c] = "intent" /\ UNCHANGED closing
  BY DEF SaveIntent
<1>2. log[c] = <<>> /\ p[c].pc = "none" /\ Append(log[c], "prepared") = <<"prepared">>
  BY <1>1, Appending DEF IInv, Logged, Told
<1>3. <<"prepared">> \in Lifecycles /\ <<>> \in Lifecycles /\ "finished" \notin Range(<<"prepared">>) /\ <<"prepared">> # <<>>
  BY GrowingIs DEF Growing
<1>4. CASE Saves(c, "prepared") /\ Goes(c, "guard") /\ UNCHANGED <<supervisorVars, failed>>
  <2> DEFINE l == Append(log[c], "prepared")
  <2>1. log' = [log EXCEPT ![c] = l] /\ broken' \in BOOLEAN /\ (broken => broken') /\ "guard" \in Places
    BY <1>4 DEF Saves, Lands, Places, IInv, Typed
  <2>2. l = <<"prepared">> /\ l \in Lifecycles /\ l # <<>> /\ "finished" \notin Range(l)
    BY <1>2, <1>3
  <2>3. /\ Advances /\ failed' \in BOOLEAN /\ (failed => failed') /\ (failed' => Self \in aborted')
        /\ aborted \subseteq aborted' /\ UNCHANGED <<windows, host, revoked, stops>> /\ UNCHANGED p
    BY <1>4, UnseenIs
  <2> HIDE DEF l
  <2>4. p'[c].pc = "none"
    BY <1>2, <2>3
  <2> QED BY <1>1, <1>4, <2>1, <2>2, <2>3, <2>4, CallKeeps
<1>5. CASE SaveFails(c, "prepared")
  BY <1>1, <1>2, <1>3, <1>5, SaveFailsKeeps
<1>6. CASE Goes(c, "failing") /\ Doubt({c}) /\ UNCHANGED <<log, broken>>
  <2>1. /\ Advances /\ failed' /\ failed' \in BOOLEAN
        /\ Self \in aborted' /\ aborted \subseteq aborted'
        /\ UNCHANGED <<windows, host, revoked, stops>>
    BY <1>6, DoubtIs
  <2>2. /\ log' = [log EXCEPT ![c] = log[c]] /\ log[c] \in Lifecycles /\ "failing" \in Places
        /\ broken' \in BOOLEAN /\ (broken => broken')
    BY <1>6 DEF IInv, Typed, Places
  <2> QED BY <1>1, <1>2, <1>6, <2>1, <2>2, CallKeeps
<1> QED BY <1>4, <1>5, <1>6 DEF SaveIntent

\* A guardian is opened only for a command whose intent is on record.
LEMMA OpenOpens ==
  ASSUME IInv, NEW c \in Mine, at[c] = "guard", Open(c)
  PROVE  Opens(c) /\ Supervised
<1> DEFINE r == p[c]
           s == [r EXCEPT !.pc = "over", !.result = "released"]
           t == [r EXCEPT !.pc = "opening", !.held = TRUE, !.guardian = "alive"]
           u == [r EXCEPT !.held = TRUE]
<1>1. IsCommand(r) /\ Sound(windows, host, r) /\ windows \in BOOLEAN /\ host = "up" /\ r.pc = "none" /\ c \in Cmds
  BY MineIs DEF IInv, Typed, Commands, Open
<1>2. Set(c, s) \/ Set(c, t) \/ Set(c, Refused(u))
  BY DEF Open
<1>3. IsCommand(s) /\ Sound(windows, host, s) /\ ~s.launched
  BY <1>1 DEF IsCommand, Sound, Rests, Alive, JobHeld
<1>4. IsCommand(t) /\ Sound(windows, host, t) /\ ~t.launched
  BY <1>1 DEF IsCommand, Sound, Rests, Alive, JobHeld
<1>5. IsCommand(Refused(u)) /\ Sound(windows, host, Refused(u)) /\ ~Refused(u).launched
  <2> DEFINE v == Stopped(u)
             w == [v EXCEPT !.pc = "over"]
  <2>1. IsCommand(u) /\ u.held /\ u.guardian = "none" /\ u.tree = "none" /\ ~u.ordered /\ u.job = "none" /\ ~u.launched
        /\ u.result = "pending"
    BY <1>1 DEF IsCommand, Sound
  <2> HIDE DEF u
  <2>2. /\ IsCommand(v) /\ v.held /\ v.guardian = "none" /\ v.tree = "none" /\ ~v.ordered /\ v.job = "none"
        /\ ~v.launched /\ v.result = "pending"
    BY <2>1, StoppedIs
  <2>3. Refused(u) = w
    BY DEF Refused
  <2> HIDE DEF v
  <2>4. IsCommand(w) /\ Sound(windows, host, w) /\ ~w.launched
    BY <1>1, <2>2 DEF IsCommand, Sound, Rests, Alive, JobHeld
  <2> QED BY <2>3, <2>4
<1>6. PICK x \in {s, t, Refused(u)} : Set(c, x)
  BY <1>2
<1>7. IsCommand(x) /\ Sound(windows, host, x) /\ ~x.launched
  BY <1>3, <1>4, <1>5
<1>8. DOMAIN p' = Cmds /\ p'[c] = x /\ \A d \in Cmds : d # c => p'[d] = p[d]
  BY <1>1, <1>6 DEF Set, IInv, Typed
<1>9. Supervised
  BY <1>6 DEF Set, Supervised
<1>10. OwnerOf[c] \notin revoked
  BY DEF Open
<1> HIDE DEF s, t, u
<1> QED BY <1>7, <1>8, <1>9, <1>10 DEF Opens

LEMMA GuardKeeps ==
  ASSUME IInv, NEW c \in Mine, Guard(c)
  PROVE  Kept
<1>1. host = "up" /\ at[c] = "guard" /\ UNCHANGED closing
  BY DEF Guard
<1>2. log[c] = <<"prepared">> /\ p[c].pc = "none"
  BY <1>1 DEF IInv, Logged, Told
<1>3. CASE Open(c) /\ Goes(c, "ready") /\ UNCHANGED <<log, failed, broken>>
  <2>1. Opens(c) /\ UNCHANGED <<windows, host, revoked, aborted, stops>>
    BY <1>1, <1>3, OpenOpens DEF Supervised
  <2>2. /\ log' = [log EXCEPT ![c] = log[c]] /\ log[c] \in Lifecycles /\ "ready" \in Places
        /\ broken' \in BOOLEAN /\ (broken => broken')
    BY <1>3 DEF IInv, Typed, Places
  <2>3. failed' \in BOOLEAN /\ (failed => failed') /\ (failed' => Self \in aborted')
    BY <1>3, <2>1 DEF IInv, Typed, Doubted
  <2> QED BY <1>1, <1>2, <1>3, <2>1, <2>2, <2>3, CallKeeps
<1>4. CASE Finish(c, Verdict(TRUE))
  <2>1. Verdict(TRUE) \in Verdicts
    BY DEF Verdict, Verdicts
  <2>2. ~p[c].held
    BY <1>2, MineIs DEF IInv, Commands, Sound
  <2> QED BY <1>1, <1>4, <2>1, <2>2, FinishKeeps
<1> QED BY <1>3, <1>4 DEF Guard

LEMMA ReadyKeeps ==
  ASSUME IInv, NEW c \in Mine, Ready(c)
  PROVE  Kept
<1>1. host = "up" /\ at[c] = "ready" /\ UNCHANGED closing /\ "running" \in Places
  BY DEF Ready, Places
<1>2. log[c] = <<"prepared">> /\ Append(log[c], "running") = <<"prepared", "running">> /\ "finished" \notin Range(log[c])
  BY <1>1, Appending, GrowingIs DEF IInv, Logged, Growing
<1>3. /\ Append(log[c], "running") \in Lifecycles /\ Append(log[c], "running") # <<>>
      /\ "finished" \notin Range(Append(log[c], "running"))
  <2> DEFINE l == Append(log[c], "running")
  <2>1. l \in Growing /\ l # <<>>
    BY <1>2 DEF Growing
  <2> HIDE DEF l
  <2>2. l \in Lifecycles /\ "finished" \notin Range(l)
    BY <2>1, GrowingIs
  <2> QED BY <2>1, <2>2 DEF l
<1>4. CASE Saves(c, "running") /\ Goes(c, "running") /\ UNCHANGED <<supervisorVars, failed>>
  <2> DEFINE l == Append(log[c], "running")
  <2>1. log' = [log EXCEPT ![c] = l] /\ broken' \in BOOLEAN /\ (broken => broken')
    BY <1>4 DEF Saves, Lands, IInv, Typed
  <2>2. /\ Advances /\ failed' \in BOOLEAN /\ (failed => failed') /\ (failed' => Self \in aborted')
        /\ aborted \subseteq aborted' /\ UNCHANGED <<windows, host, revoked, stops>>
    BY <1>4, UnseenIs
  <2>3. l \in {<<"prepared">>, <<"prepared", "running">>} /\ l \in Lifecycles /\ l # <<>> /\ "finished" \notin Range(l)
    BY <1>2, <1>3
  <2>4. Goes(c, "running")
    BY <1>4
  <2> HIDE DEF l
  <2> QED BY <1>1, <2>1, <2>2, <2>3, <2>4, CallKeeps
<1>5. CASE SaveFails(c, "running")
  BY <1>1, <1>3, <1>5, SaveFailsKeeps
<1>6. CASE Goes(c, "running") /\ UNCHANGED <<supervisorVars, log, failed, broken>>
  <2> DEFINE l == log[c]
  <2>1. /\ log' = [log EXCEPT ![c] = l] /\ l \in Lifecycles
        /\ broken' \in BOOLEAN /\ (broken => broken')
    BY <1>6 DEF IInv, Typed
  <2>2. /\ Advances /\ failed' \in BOOLEAN /\ (failed => failed') /\ (failed' => Self \in aborted')
        /\ aborted \subseteq aborted' /\ UNCHANGED <<windows, host, revoked, stops>>
    BY <1>6, UnseenIs
  <2>3. /\ l \in {<<"prepared">>, <<"prepared", "running">>} /\ (log[c] # <<>> => l # <<>>)
        /\ ("finished" \in Range(l) => "finished" \in Range(log[c]))
    BY <1>2
  <2>4. Goes(c, "running")
    BY <1>6
  <2> HIDE DEF l
  <2> QED BY <1>1, <2>1, <2>2, <2>3, <2>4, CallKeeps
<1> QED BY <1>4, <1>5, <1>6 DEF Ready

LEMMA TerminalKeeps ==
  ASSUME IInv, NEW c \in Mine, Terminal(c)
  PROVE  Kept
<1>1. host = "up" /\ at[c] = "running" /\ UNCHANGED closing
  BY DEF Terminal
<1>2. PICK v \in Verdicts : Finish(c, v) /\ (v = "finished" => p[c].result = "released")
  BY DEF Terminal, Verdict, Verdicts
<1>3. v = "finished" => ~p[c].held
  BY <1>1, <1>2, MineIs DEF IInv, Commands, Sound
<1> QED BY <1>1, <1>2, <1>3, FinishKeeps

LEMMA UnconfirmKeeps ==
  ASSUME IInv, NEW c \in Mine, Unconfirm(c)
  PROVE  Kept
<1>1. at[c] = "failing" /\ Goes(c, "failed") /\ UNCHANGED <<supervisorVars, failed, closing>> /\ "failed" \in Places
  BY DEF Unconfirm, Places
<1>2. UNCHANGED log /\ broken' = (broken \/ log[c] # <<>>)
  BY <1>1 DEF Unconfirm, IInv, Logged
<1>3. /\ log' = [log EXCEPT ![c] = log[c]] /\ log[c] \in Lifecycles
      /\ broken' \in BOOLEAN /\ (broken => broken')
  BY <1>2 DEF IInv, Typed
<1>4. /\ Advances /\ failed' \in BOOLEAN /\ (failed => failed') /\ (failed' => Self \in aborted')
      /\ aborted \subseteq aborted' /\ UNCHANGED <<windows, host, revoked, stops>>
  BY <1>1, UnseenIs
<1>5. failed'
  BY <1>1 DEF IInv, Doubted
<1> QED BY <1>1, <1>3, <1>4, <1>5, CallKeeps

-----------------------------------------------------------------------------
(* The steps of the supervisor, of owners and of closeAll().               *)

\* What the tools do not notice.
LEMMA UnnoticedKeeps ==
  ASSUME IInv, Advances, Supervised, UNCHANGED <<at, log, failed, broken, closing>>
  PROVE  Kept
<1>1. UNCHANGED <<windows, host, revoked, aborted, stops>>
  BY DEF Supervised
<1>2. Stopping'
  BY <1>1, StoppingStays
<1>3. DOMAIN stops' = Owners
  BY <1>1 DEF IInv, Typed
<1> QED BY <1>1, <1>2, <1>3, SupervisedKeeps

LEMMA StopsKeep ==
  ASSUME IInv, NEW c \in Cmds, Set(c, Stopped(p[c])), UNCHANGED <<at, log, failed, broken, closing>>
  PROVE  Kept
<1>1. Advances /\ Supervised
  BY StopAdvances DEF IInv
<1> QED BY <1>1, UnnoticedKeeps

LEMMA AbortKeeps ==
  ASSUME IInv, NEW o \in Owners, Abort(o), UNCHANGED toolVars
  PROVE  Kept
<1>1. Advances
  BY StopAllAdvances DEF IInv, Abort
<1>2. UNCHANGED <<windows, host, revoked, stops, at, log, failed, broken, closing>> /\ aborted \subseteq aborted'
  BY DEF Abort, toolVars
<1>3. Stopping'
  BY <1>1, <1>2, StoppingStays
<1>4. DOMAIN stops' = Owners
  BY <1>2 DEF IInv, Typed
<1> QED BY <1>1, <1>2, <1>3, <1>4, SupervisedKeeps

LEMMA StopOwnerKeeps ==
  ASSUME IInv, NEW o \in Owners, stopOwner(o), UNCHANGED toolVars
  PROVE  Kept
<1>1. Advances
  BY StopAllAdvances DEF IInv, stopOwner
<1>2. UNCHANGED <<windows, host, aborted, at, log, failed, broken, closing>>
  BY DEF stopOwner, toolVars
<1>3. /\ DOMAIN stops' = Owners /\ stops'[o] = "waiting" /\ \A q \in Owners : q # o => stops'[q] = stops[q]
      /\ revoked' = revoked \cup {o} /\ host = "up"
  BY DEF stopOwner, IInv, Typed
<1>4. Stopping'
  <2> SUFFICES ASSUME NEW q \in Owners, stops'[q] # "none"
               PROVE  /\ host' = "up" /\ q \in revoked'
                      /\ stops'[q] = "stopped" => \A c \in OfOwner(q) : ~p'[c].held
    BY DEF Stopping
  <2>1. CASE q = o
    BY <1>2, <1>3, <2>1
  <2>2. CASE q # o
    <3>1. \A c \in OfOwner(q) : Evolves(p[c], p'[c])
      BY <1>1 DEF OfOwner, Advances
    <3> QED BY <1>2, <1>3, <2>2, <3>1 DEF IInv, Stopping, Evolves
  <2> QED BY <2>1, <2>2
<1> QED BY <1>1, <1>2, <1>3, <1>4, SupervisedKeeps

LEMMA StopOwnerReturnsKeeps ==
  ASSUME IInv, NEW o \in Owners, StopOwnerReturns(o), UNCHANGED toolVars
  PROVE  Kept
<1>1. UNCHANGED <<windows, host, revoked, aborted, p, at, log, failed, broken, closing>>
  BY DEF StopOwnerReturns, toolVars
<1>2. Advances
  BY <1>1, StayAdvances DEF IInv
<1>3. /\ DOMAIN stops' = Owners /\ \A q \in Owners : q # o => stops'[q] = stops[q]
      /\ stops'[o] = (IF \E c \in OfOwner(o) : p[c].held THEN "failed" ELSE "stopped")
      /\ stops[o] = "waiting"
  BY DEF StopOwnerReturns, IInv, Typed
<1>4. Stopping'
  <2> SUFFICES ASSUME NEW q \in Owners, stops'[q] # "none"
               PROVE  /\ host = "up" /\ q \in revoked
                      /\ stops'[q] = "stopped" => \A c \in OfOwner(q) : ~p[c].held
    BY <1>1 DEF Stopping
  <2> QED BY <1>3 DEF IInv, Stopping
<1> QED BY <1>1, <1>2, <1>3, <1>4, SupervisedKeeps

\* closeAll() and what it returns change nothing of the commands.
LEMMA ClosingKeeps ==
  ASSUME IInv, UNCHANGED <<supervisorVars, at, log, failed, broken>>,
         closing' \in {"closing", "closed", "refused"},
         closing' = "closed" => host = "up" /\ \A c \in Mine :
           at[c] = "none" \/ (at[c] = "over" /\ "finished" \in Range(log[c]))
  PROVE  Kept
<1>1. UNCHANGED <<windows, host, revoked, aborted, p, stops>>
  BY DEF supervisorVars
<1>2. Advances
  BY <1>1, StayAdvances DEF IInv
<1>3. Typed' /\ Commands'
  BY <1>1 DEF IInv, Typed, Commands
<1>4. Stopping'
  BY <1>1, <1>2, StoppingStays
<1>5. Logged' /\ Told' /\ Doubted'
  BY <1>1 DEF IInv, Logged, Told, Doubted
<1>6. Ended'
  BY <1>1 DEF Ended
<1>7. Few'
  BY FewStays DEF IInv
<1> QED BY <1>2, <1>3, <1>4, <1>5, <1>6, <1>7, AdvanceIsCareful DEF IInv, Kept

LEMMA CloseReturnsKeeps ==
  ASSUME IInv, CloseReturns
  PROVE  Kept
<1>1. UNCHANGED <<supervisorVars, at, log, failed, broken>> /\ closing' \in {"closing", "closed", "refused"} /\ host = "up"
  BY DEF CloseReturns
<1>2. ASSUME closing' = "closed", NEW c \in Mine, at[c] # "none"
      PROVE  at[c] = "over" /\ "finished" \in Range(log[c])
  <2>1. ~failed /\ Last(log[c]) = "finished"
    BY <1>2 DEF CloseReturns
  <2>2. at[c] \in {"over", "failed"}
    BY <1>2 DEF CloseReturns, Settled
  <2>3. at[c] = "over"
    BY <2>1, <2>2 DEF IInv, Doubted
  <2>4. log[c] # <<>> /\ log[c] \in Lifecycles
    BY <2>3 DEF IInv, Logged, Typed
  <2> QED BY <2>1, <2>3, <2>4, LastIs
<1> QED BY <1>1, <1>2, ClosingKeeps

-----------------------------------------------------------------------------
(* The application ends.                                                   *)

LEMMA CrashKeeps ==
  ASSUME IInv, Crash
  PROVE  Kept
<1> DEFINE Lost(r) == [Fresh EXCEPT !.guardian = r.guardian, !.tree = r.tree, !.ordered = r.ordered,
                                    !.job = r.job, !.killed = r.killed, !.pc = "over", !.held = TRUE]
<1>1. /\ host' = "lost" /\ windows' = windows /\ stops' = [o \in Owners |-> "none"]
      /\ p' = [c \in Cmds |-> Lost(p[c])]
  BY DEF Crash, HostLost
<1>2. /\ at' = [c \in Mine |-> "none"] /\ failed' = FALSE /\ broken' = TRUE /\ closing' = "open" /\ log' = log
  BY DEF Crash
<1>3. ASSUME NEW r, IsCommand(r), Sound(windows, host, r)
      PROVE  /\ IsCommand(Lost(r)) /\ Sound(windows, "lost", Lost(r)) /\ ~Lost(r).launched
             /\ Lost(r).guardian = r.guardian /\ (Rests(r) => Rests(Lost(r)))
  <2> DEFINE s == Lost(r)
  <2>1. /\ IsCommand(s) /\ s.guardian = r.guardian /\ s.tree = r.tree /\ s.ordered = r.ordered /\ s.job = r.job
        /\ s.pc = "over" /\ s.held /\ ~s.launched
    <3>1. IsCommand(Fresh) /\ ~Fresh.launched
      BY DEF IsCommand, Fresh
    <3> QED BY <1>3, <3>1 DEF IsCommand
  <2> HIDE DEF Lost
  <2> QED BY <1>3, <2>1 DEF Sound, Rests, Alive
<1> HIDE DEF Lost
<1>4. \A c \in Cmds :
        /\ IsCommand(p'[c]) /\ Sound(windows, "lost", p'[c]) /\ ~p'[c].launched
        /\ p'[c].guardian = p[c].guardian /\ (Rests(p[c]) => Rests(p'[c]))
  BY <1>1, <1>3 DEF IInv, Typed, Commands
<1>5. DOMAIN p' = Cmds /\ DOMAIN stops' = Owners /\ \A o \in Owners : stops'[o] = "none"
  BY <1>1
<1>6. Typed'
  BY <1>1, <1>2, <1>4, <1>5 DEF IInv, Typed, Places
<1>7. Commands' /\ Stopping'
  BY <1>1, <1>4, <1>5 DEF Commands, Stopping
<1>8. Logged' /\ Doubted' /\ Ended'
  BY <1>1, <1>2 DEF Logged, Doubted, Ended
<1>9. Told'
  BY <1>1, <1>2, <1>4, MineIs DEF IInv, Told
<1>10. Few'
  BY <1>2, FewStays DEF IInv
<1>11. Careful
  BY <1>4, MineIs DEF Careful
<1> QED BY <1>6, <1>7, <1>8, <1>9, <1>10, <1>11 DEF IInv, Kept

-----------------------------------------------------------------------------
(* The theorems.                                                           *)

LEMMA InitIsSound == Init => IInv
<1> SUFFICES ASSUME Init PROVE IInv
  OBVIOUS
<1>1. /\ windows \in BOOLEAN /\ host = "up" /\ p = [c \in Cmds |-> Fresh] /\ stops = [o \in Owners |-> "none"]
      /\ at = [c \in Mine |-> "none"] /\ log = [c \in Mine |-> <<>>]
      /\ failed = FALSE /\ broken = FALSE /\ closing = "open"
  BY DEF Init, SupervisorInit, ToolInit
<1>2. IsCommand(Fresh) /\ Sound(windows, "up", Fresh) /\ Fresh.pc = "none" /\ Fresh.guardian = "none"
  BY DEF IsCommand, Sound, Fresh, Rests, Alive, JobHeld
<1> HIDE DEF Fresh
<1>3. <<>> \in Lifecycles /\ "finished" \notin Range(<<>>)
  BY GrowingIs DEF Growing
<1>4. Typed
  BY <1>1, <1>2, <1>3 DEF Typed, Places
<1>5. Commands /\ Stopping
  BY <1>1, <1>2 DEF Commands, Stopping
<1>6. Logged /\ Doubted /\ Ended
  BY <1>1 DEF Logged, Doubted, Ended
<1>7. Told
  BY <1>1, <1>2, <1>3, MineIs DEF Told
<1>8. Few
  <2>1. Busy = {}
    BY <1>1 DEF Busy
  <2> QED BY <2>1, FS_EmptySet, CommandConstants DEF Few
<1> QED BY <1>4, <1>5, <1>6, <1>7, <1>8 DEF IInv

LEMMA NextKeeps == IInv /\ [Next]_vars => Kept
<1> SUFFICES ASSUME IInv, [Next]_vars PROVE Kept
  OBVIOUS
<1>1. CASE UNCHANGED vars
  <2>1. UNCHANGED <<supervisorVars, toolVars>>
    BY <1>1 DEF vars
  <2>2. UNCHANGED <<windows, host, revoked, aborted, p, stops, at, log, failed, broken, closing>>
    BY <2>1 DEF supervisorVars, toolVars
  <2>3. Advances /\ Supervised
    BY <2>2, StayAdvances DEF IInv, Supervised
  <2> QED BY <2>2, <2>3, UnnoticedKeeps
<1>2. ASSUME NEW c \in Mine, StartCall(c) \/ StopCommand(c) \/ ToolStep(c) PROVE Kept
  <2>1. CASE StartCall(c)
    BY <2>1, StartCallKeeps
  <2>2. CASE StopCommand(c)
    <3>1. Set(c, Stopped(p[c])) /\ UNCHANGED <<at, log, failed, broken, closing>> /\ c \in Cmds
      BY <2>2, MineIs DEF StopCommand, toolVars
    <3> QED BY <3>1, StopsKeep
  <2>3. CASE SaveIntent(c)
    BY <2>3, SaveIntentKeeps
  <2>4. CASE Guard(c)
    BY <2>4, GuardKeeps
  <2>5. CASE Ready(c)
    BY <2>5, ReadyKeeps
  <2>6. CASE Terminal(c)
    BY <2>6, TerminalKeeps
  <2>7. CASE Unconfirm(c)
    BY <2>7, UnconfirmKeeps
  <2>8. CASE CloseStops(c)
    <3>1. Set(c, Stopped(p[c])) /\ UNCHANGED <<at, log, failed, broken, closing>> /\ c \in Cmds
      BY <2>8, MineIs DEF CloseStops
    <3> QED BY <3>1, StopsKeep
  <2> QED BY <1>2, <2>1, <2>2, <2>3, <2>4, <2>5, <2>6, <2>7, <2>8 DEF ToolStep
<1>3. ASSUME NEW c \in Cmds, SupervisorStep(c), UNCHANGED toolVars PROVE Kept
  <2>1. Advances /\ Supervised
    BY <1>3, SupervisorAdvances DEF IInv
  <2>2. UNCHANGED <<at, log, failed, broken, closing>>
    BY <1>3 DEF toolVars
  <2> QED BY <2>1, <2>2, UnnoticedKeeps
<1>4. ASSUME NEW o \in Owners, Abort(o) \/ StopOwnerReturns(o), UNCHANGED toolVars PROVE Kept
  BY <1>4, AbortKeeps, StopOwnerReturnsKeeps
<1>5. CASE ReleaseOwner
  BY <1>5, StopOwnerKeeps, CommandConstants DEF ReleaseOwner
<1>6. CASE BeginClose
  <2>1. UNCHANGED <<supervisorVars, at, log, failed, broken>> /\ closing' = "closing"
    BY <1>6 DEF BeginClose
  <2> QED BY <2>1, ClosingKeeps
<1>7. CASE CloseReturns
  BY <1>7, CloseReturnsKeeps
<1>8. CASE Crash
  BY <1>8, CrashKeeps
<1> QED BY <1>1, <1>2, <1>3, <1>4, <1>5, <1>6, <1>7, <1>8 DEF Next

\* The commands, the calls that start them, the journal and the owners that stop stay
\* as the invariant says, whatever the processes, the user and the disk do.
THEOREM CommandsAreSound == Spec => []IInv
<1>1. IInv /\ [Next]_vars => IInv'
  BY NextKeeps DEF Kept
<1> QED BY <1>1, InitIsSound, PTL DEF Spec

\* What the supervisor has released is gone: the barrier of releaseTree lets nothing
\* through that runs or could still be started, and nothing comes to life after
\* stopOwner has returned.
THEOREM ReleasesAreFinal == Spec => []ReleasedIsGone
<1>1. IInv => ReleasedIsGone
  <2> SUFFICES ASSUME IInv PROVE ReleasedIsGone
    OBVIOUS
  <2>1. ASSUME NEW c \in Cmds, ~p[c].held
        PROVE  Quiet(c) /\ ~JobHeld(p[c])
    <3>1. Sound(windows, host, p[c]) /\ host \in {"up", "lost"}
      BY DEF IInv, Commands, Typed
    <3> QED BY <2>1, <3>1 DEF Sound, Rests, Quiet
  <2>2. ASSUME NEW o \in Owners, stops[o] = "stopped", NEW c \in OfOwner(o)
        PROVE  Quiet(c)
    <3>1. ~p[c].held /\ c \in Cmds
      BY <2>2 DEF IInv, Stopping, OfOwner
    <3> QED BY <2>1, <3>1
  <2> QED BY <2>1, <2>2 DEF ReleasedIsGone
<1> QED BY <1>1, CommandsAreSound, PTL

\* What the journal says of a command is so, and a run of which closeAll() has
\* returned without an error has nothing left.
THEOREM TheJournalIsTrue == Spec => []ReceiptsAreTrue
<1>1. IInv => ReceiptsAreTrue
  <2> SUFFICES ASSUME IInv PROVE ReceiptsAreTrue
    OBVIOUS
  <2>1. log \in [Mine -> Lifecycles] /\ Cardinality(Busy) <= MaxRunning
    BY DEF IInv, Typed, Few
  <2>2. ASSUME NEW c \in Mine
        PROVE  /\ p[c].guardian # "none" => log[c] # <<>>
               /\ "finished" \in Range(log[c]) => Quiet(c)
    BY DEF IInv, Told, Rests, Quiet
  <2>3. ASSUME closing = "closed", NEW c \in Mine
        PROVE  Quiet(c) /\ (at[c] # "none" => "finished" \in Range(log[c]))
    <3>1. host = "up" /\ (at[c] = "none" \/ (at[c] = "over" /\ "finished" \in Range(log[c])))
      BY <2>3 DEF IInv, Ended
    <3>2. CASE at[c] = "none"
      <4>1. p[c].pc = "none" /\ c \in Cmds
        BY <3>1, <3>2, MineIs DEF IInv, Told
      <4>2. Sound(windows, host, p[c])
        BY <4>1 DEF IInv, Commands
      <4> QED BY <3>1, <3>2, <4>1, <4>2 DEF Sound, Rests, Quiet
    <3> QED BY <2>2, <3>1, <3>2
  <2> QED BY <2>1, <2>2, <2>3 DEF ReceiptsAreTrue
<1> QED BY <1>1, CommandsAreSound, PTL

\* Once one lifecycle of a run is in doubt no command of the run is launched: the doubt
\* is the abort that Launch looks for last.
THEOREM DoubtStopsLaunches == Spec => NoLaunchInDoubt
<1>1. IInv /\ [Next]_vars => (\A c \in Mine : failed /\ p'[c].launched => p[c].launched)
  BY NextKeeps DEF Kept, Careful
<1> QED BY <1>1, CommandsAreSound, PTL DEF Spec, NoLaunchInDoubt

=============================================================================
