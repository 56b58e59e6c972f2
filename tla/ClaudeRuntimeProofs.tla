------------------------- MODULE ClaudeRuntimeProofs -------------------------
(***************************************************************************)
(* What TLAPS proves of the runtime of Claude Code, for any number of      *)
(* processes, messages, frames and faults and any calls that wait: no      *)
(* message waits for an answer that nobody will give, what is said to be   *)
(* released is, and an answer of success is true.                          *)
(***************************************************************************)
EXTENDS ClaudeRuntime, FiniteSetTheorems, TLAPS

-----------------------------------------------------------------------------
(* Types: the shape of each record, and what the fields the proofs read can be. *)

Lines == [sub : {"initialize", "set", "interrupt", "user"}, turn : 0 .. MaxSends]

IsProcess(r) ==
  /\ DOMAIN r =
       {"root", "kin", "closed", "by", "ending", "term", "controls", "ready", "turn", "interrupted",
        "timer", "approval", "tasks", "waiting", "background", "input", "out", "work", "task", "asking"}
  /\ r.root \in {"none", "up", "gone"} /\ r.kin \in BOOLEAN /\ r.closed \in BOOLEAN
  /\ r.by \in 0 .. MaxSends /\ r.turn \in 0 .. MaxSends
  /\ r.ending \in BOOLEAN /\ r.term \in {"none", "due", "yes", "no"}
  /\ r.controls \subseteq Lines
IsCall(o) ==
  /\ DOMAIN o = {"kind", "pc", "turn", "conn", "cancelled", "behind"}
  /\ o.kind \in {"none", "send", "prepare", "config"}
  /\ o.pc \in {"none", "hydrate", "transcript", "init", "control", "closing", "result"}
  /\ o.turn \in 0 .. MaxSends /\ o.conn \in 0 .. MaxStarts
IsWait(v) ==
  /\ DOMAIN v = {"kind", "pc", "entry", "sends", "upto", "completion"}
  /\ v.entry \in 0 .. MaxStarts /\ v.sends \in 0 .. MaxSends /\ v.upto \in 0 .. MaxStarts
IsHistory(h) ==
  /\ DOMAIN h = {"sends", "success", "done", "told", "lost"}
  /\ h.sends \in 0 .. MaxSends /\ h.told \in 0 .. MaxStarts /\ h.lost \subseteq Processes

Typed ==
  /\ entries \in 0 .. MaxStarts /\ releasing \in 0 .. MaxStarts
  /\ releaseError \in BOOLEAN /\ starting \in BOOLEAN
  /\ IsCall(op)
  /\ DOMAIN conn = Processes /\ \A c \in Processes : IsProcess(conn[c])
  /\ DOMAIN waiter = Waiters /\ \A w \in Waiters : IsWait(waiter[w])
  /\ IsHistory(hist)

-----------------------------------------------------------------------------
(* The inductive invariant.                                                *)

WasStarted(c) == conn[c].root # "none"

\* Processes are numbered in the order they are started.
Numbered == {c \in Processes : WasStarted(c)} = 1 .. Started

\* Only the process in `entries` is not closed; one whose tree is known to be gone is
\* dead; and what is told to end, is closed or was never started waits for nothing.
ProcessesAreSound == \A c \in Processes :
  /\ conn[c].root = "none" => ~conn[c].kin /\ conn[c].term = "none"
  /\ WasStarted(c) /\ ~conn[c].closed <=> entries = c
  /\ conn[c].closed => conn[c].root = "gone"
  /\ conn[c].root = "gone" => conn[c].term # "none"
  /\ conn[c].term = "yes" => ~Alive(c)
  /\ conn[c].ending \/ conn[c].root = "none" \/ conn[c].closed => conn[c].controls = {} /\ conn[c].turn = 0

\* The call that holds `busy`: where each kind of it can be, and on which process.
CallsAreSound ==
  /\ op.kind = "none" <=> op.pc = "none"
  /\ op.pc \in {"init", "control", "result"} => entries # 0 /\ op.conn = entries /\ ~conn[entries].ending
  /\ op.pc = "result" => conn[op.conn].turn = op.turn
  /\ op.pc = "closing" => op.conn \in 1 .. Started
  /\ op.kind = "send" => op.turn # 0 /\ op.pc \in {"hydrate", "transcript", "init", "result"}
  /\ op.kind = "prepare" => op.turn = 0 /\ op.pc \in {"hydrate", "transcript", "init"}
  /\ op.kind = "config" => op.pc \in {"control", "closing"}
  /\ op.pc = "transcript" => entries = 0 /\ Started < MaxStarts
  /\ starting => op.pc \in {"transcript", "init"}
  /\ op.turn <= hist.sends

\* A control or a turn of a process is the call's that waits for it.
ControlsAreOwned == \A c \in Processes :
  /\ Initialize \in conn[c].controls <=> op.pc = "init" /\ op.conn = c
  /\ SetMode \in conn[c].controls <=> op.pc = "control" /\ op.conn = c
  /\ \A k \in conn[c].controls : k \in {Initialize, SetMode} \/ k.sub = "interrupt"
  /\ conn[c].turn # 0 => op.pc = "result" /\ op.conn = c

\* What a stop has met cannot get to the CLI any more.
StopsArrive == \A w \in Waiters :
  /\ waiter[w].sends <= hist.sends
  /\ waiter[w].pc \in {"entry", "poll", "completion"} =>
       /\ op.kind = "send" /\ op.turn <= waiter[w].sends =>
            \/ op.pc = "hydrate" /\ op.cancelled
            \/ op.pc = "transcript" /\ ~starting
       /\ entries # 0 /\ ~conn[entries].ending => conn[entries].by = 0 \/ conn[entries].by > waiter[w].sends

\* A process that is closed and gone, or of which nobody knows any more.
Over(c) == conn[c].closed /\ (conn[c].term = "yes" \/ c \in hist.lost)

\* What is closed and not gone is in `releasing`, so that it is the only one: what was
\* started before the last process, or before one that is to be started, is over.
ReleasesAreKnown ==
  /\ \A c \in Processes : conn[c].closed /\ conn[c].term # "yes" /\ c \notin hist.lost => releasing = c
  /\ \A c \in Processes : conn[c].closed /\ conn[c].term = "no" => releaseError
  /\ \A c, d \in Processes : c < d /\ WasStarted(d) => Over(c)
  /\ op.pc = "transcript" => \A c \in Processes : WasStarted(c) => Over(c)
  /\ hist.told <= Started
  /\ \A c \in 1 .. hist.told : Over(c)
  /\ \A w \in Waiters : waiter[w].pc = "completion" =>
       waiter[w].upto <= Started /\ \A c \in 1 .. waiter[w].upto : conn[c].closed

Release == Numbered /\ ProcessesAreSound /\ ReleasesAreKnown
Turns == CallsAreSound /\ ControlsAreOwned /\ StopsArrive
IInv == Typed /\ Release /\ Turns

-----------------------------------------------------------------------------
(* Records.                                                                *)

\* What the invariant says of a process does not change.
SameProcess(r, s) ==
  s.root = r.root /\ s.kin = r.kin /\ s.closed = r.closed /\ s.by = r.by /\ s.term = r.term
SameCore(r, s) ==
  SameProcess(r, s) /\ s.ending = r.ending /\ s.controls = r.controls /\ s.turn = r.turn

\* The controls of the runtime are different lines of the pipe.
LEMMA ControlsDiffer ==
  /\ Initialize \in Lines /\ SetMode \in Lines /\ Initialize # SetMode
  /\ Initialize.sub = "initialize" /\ SetMode.sub = "set"
  /\ \A t \in 0 .. MaxSends : InterruptOf(t) \in Lines /\ InterruptOf(t).sub = "interrupt"
<1>1. Initialize \in Lines /\ SetMode \in Lines
  BY ClaudeAssumption DEF Initialize, SetMode, Lines
<1>2. Initialize.sub = "initialize" /\ SetMode.sub = "set"
  BY DEF Initialize, SetMode
<1>3. \A t \in 0 .. MaxSends : InterruptOf(t) \in Lines /\ InterruptOf(t).sub = "interrupt"
  BY ClaudeAssumption DEF InterruptOf, Lines
<1>4. Initialize # SetMode
  BY <1>2
<1> QED BY <1>1, <1>2, <1>3, <1>4

\* A process that is told to end waits for no control, and its tree is to be ended.
Ends(r, s) ==
  /\ s.root = r.root /\ s.kin = r.kin /\ s.closed = r.closed /\ s.by = r.by
  /\ s.ending /\ s.controls = {}
  /\ s.term = IF r.term = "none" THEN "due" ELSE r.term

LEMMA TerminatedIs ==
  ASSUME NEW r, IsProcess(r)
  PROVE  IsProcess(Terminated(r)) /\ Ends(r, Terminated(r)) /\ Terminated(r).turn = r.turn
BY DEF Terminated, IsProcess, Ends

\* What ends a turn changes nothing else of the process.
LEMMA FinishedIs ==
  ASSUME NEW r, IsProcess(r)
  PROVE  /\ IsProcess(Finished(r)) /\ SameProcess(r, Finished(r))
         /\ Finished(r).ending = r.ending /\ Finished(r).controls = r.controls
         /\ Finished(r).turn = 0
BY ClaudeAssumption DEF Finished, IsProcess, SameProcess

\* A failed or stopped turn ends with its process.
LEMMA EndedIs ==
  ASSUME NEW r, IsProcess(r)
  PROVE  /\ IsProcess(Terminated(Finished(r))) /\ Ends(r, Terminated(Finished(r)))
         /\ Terminated(Finished(r)).turn = 0
<1>1. IsProcess(Finished(r)) /\ SameProcess(r, Finished(r)) /\ Finished(r).turn = 0
  BY FinishedIs
<1>2. /\ IsProcess(Terminated(Finished(r))) /\ Ends(Finished(r), Terminated(Finished(r)))
      /\ Terminated(Finished(r)).turn = Finished(r).turn
  BY <1>1, TerminatedIs
<1> HIDE DEF Finished, Terminated
<1> QED BY <1>1, <1>2 DEF SameProcess, Ends

\* The timeout of a background result is no part of the invariant.
LEMMA RefreshedIs ==
  ASSUME NEW r, IsProcess(r)
  PROVE  IsProcess(Refreshed(r)) /\ SameCore(r, Refreshed(r))
BY DEF Refreshed, IsProcess, SameCore, SameProcess

\* Nor is what is in the pipe to the CLI.
LEMMA WrittenIs ==
  ASSUME NEW r, NEW line, IsProcess(r)
  PROVE  IsProcess(Written(r, line)) /\ SameCore(r, Written(r, line))
BY DEF Written, IsProcess, SameCore, SameProcess

\* An exit of the root leaves what the runtime believes as it was.
LEMMA ExitedIs ==
  ASSUME NEW r, IsProcess(r), NEW kin \in BOOLEAN
  PROVE  LET s == Exited(r, kin)
         IN  /\ IsProcess(s) /\ s.root = "gone"
             /\ s.closed = r.closed /\ s.by = r.by
             /\ s.turn = r.turn /\ s.ending = r.ending /\ s.controls = r.controls
             /\ s.term = IF r.term = "none" THEN "due" ELSE r.term
BY DEF Exited, IsProcess

\* The call that holds `busy` ends, and nothing is being started.
SameHistory == hist'.sends = hist.sends /\ hist'.told = hist.told /\ hist'.lost = hist.lost
OpEnds ==
  /\ IsCall(op') /\ op'.kind = "none" /\ op'.pc = "none" /\ op'.turn = 0 /\ op'.conn = 0
  /\ starting' = FALSE /\ IsHistory(hist') /\ SameHistory
OpStays == op' = op /\ starting' = starting /\ IsHistory(hist') /\ SameHistory
LEMMA EndOpIs ==
  ASSUME Typed, NEW success, EndOp(success)
  PROVE  OpEnds
<1>1. IsCall(NoOp)
  BY ClaudeAssumption DEF NoOp, IsCall
<1>2. IsHistory(hist') /\ SameHistory
  BY DEF EndOp, Typed, IsHistory, SameHistory
<1> QED BY <1>1, <1>2 DEF EndOp, NoOp, OpEnds

-----------------------------------------------------------------------------
(* Steps that start no process and close none.                             *)

\* No process starts, exits or closes; a tree may be told to end.
Persists == \A c \in Processes :
  /\ conn'[c].root = conn[c].root /\ conn'[c].kin = conn[c].kin
  /\ conn'[c].closed = conn[c].closed /\ conn'[c].by = conn[c].by
  /\ \/ conn'[c].term = conn[c].term
     \/ conn[c].term = "none" /\ conn'[c].term = "due" /\ WasStarted(c)
\* What is told to end, is closed or was never started waits for nothing.
Quiets == \A c \in Processes :
  conn'[c].ending \/ conn'[c].root = "none" \/ conn'[c].closed => conn'[c].controls = {} /\ conn'[c].turn = 0
\* The types of what most steps write.
Writes ==
  /\ DOMAIN conn' = Processes /\ \A c \in Processes : IsProcess(conn'[c])
  /\ IsCall(op') /\ starting' \in BOOLEAN /\ IsHistory(hist') /\ SameHistory

\* The number of processes is what it was.
LEMMA StartedStays ==
  ASSUME \A c \in Processes : conn'[c].root # "none" <=> conn[c].root # "none"
  PROVE  Started' = Started /\ (Numbered => Numbered')
<1>1. {c \in Processes : conn'[c].root # "none"} = {c \in Processes : conn[c].root # "none"}
  OBVIOUS
<1>2. Started' = Started
  BY <1>1 DEF Started
<1> QED BY <1>1, <1>2 DEF Numbered, WasStarted

\* There are not more of them than there may be.
LEMMA StartedIs ==
  ASSUME Numbered
  PROVE  Started \in 0 .. MaxStarts /\ \A c \in Processes : WasStarted(c) <=> c <= Started
<1> DEFINE S == {c \in Processes : WasStarted(c)}
<1>1. IsFiniteSet(Processes) /\ Cardinality(Processes) = MaxStarts
  BY FS_Interval, ClaudeAssumption DEF Processes
<1>2. S \subseteq Processes
  OBVIOUS
<1>3. IsFiniteSet(S) /\ Cardinality(S) <= MaxStarts
  BY <1>1, <1>2, FS_Subset
<1>4. Cardinality(S) \in Nat
  BY <1>3, FS_CardinalityType
<1>5. Started = Cardinality(S)
  BY DEF Started, WasStarted
<1>6. S = 1 .. Started
  BY DEF Numbered
<1>7. \A c \in Processes : WasStarted(c) <=> c \in 1 .. Started
  BY <1>6
<1> QED BY <1>3, <1>4, <1>5, <1>7, ClaudeAssumption DEF Processes

\* The waiting calls come no nearer to a release.
WaitersStay == \A w \in Waiters :
  /\ waiter'[w].pc = "completion" => waiter[w].pc = "completion" /\ waiter'[w].upto = waiter[w].upto

\* What is known of releases stays known, also when the process in `entries` is marked.
Continues == \A c \in Processes :
  /\ conn'[c].root # "none" <=> conn[c].root # "none"
  /\ conn'[c].closed = conn[c].closed
  /\ \/ conn'[c].term = conn[c].term
     \/ conn[c].term = "none" /\ conn'[c].term = "due" /\ WasStarted(c)
LEMMA KnownStays ==
  ASSUME Typed, Release, Continues, WaitersStay,
         hist'.told = hist.told, hist'.lost = hist.lost,
         entries' = entries, releaseError' = releaseError,
         releasing' = releasing \/ (entries # 0 /\ releasing' = entries),
         op'.pc = "transcript" =>
           op.pc = "transcript" \/ \A c \in Processes : WasStarted(c) => Over(c)
  PROVE  Started' = Started /\ Numbered' /\ ReleasesAreKnown'
<1>1. Started' = Started /\ Numbered'
  BY StartedStays DEF Continues, Release
<1>3. entries # 0 => entries \in Processes
  BY ClaudeAssumption DEF Typed, Processes
<1>4. \A c \in Processes : Over(c) => Over(c)'
  BY DEF Over, Continues
<1>5. entries # 0 => \A c \in Processes : c # entries => (WasStarted(c) => Over(c))
  <2> SUFFICES ASSUME entries # 0, NEW c \in Processes, c # entries, WasStarted(c)
               PROVE  Over(c)
    OBVIOUS
  <2>1. WasStarted(entries) /\ ~conn[entries].closed
    BY <1>3 DEF Release, ProcessesAreSound
  <2>2. CASE c < entries
    BY <2>1, <2>2, <1>3 DEF Release, ReleasesAreKnown
  <2>3. CASE entries < c
    BY <2>1, <2>3, <1>3 DEF Release, ReleasesAreKnown, Over
  <2> QED BY <2>2, <2>3, <1>3 DEF Processes
<1>6. \A c \in Processes : conn'[c].closed /\ conn'[c].term # "yes" /\ c \notin hist'.lost => releasing' = c
  <2> SUFFICES ASSUME NEW c \in Processes, conn'[c].closed, conn'[c].term # "yes", c \notin hist'.lost
               PROVE  releasing' = c
    OBVIOUS
  <2>1. conn[c].closed /\ conn[c].term # "yes" /\ c \notin hist.lost
    BY DEF Continues
  <2>2. releasing = c /\ ~Over(c) /\ WasStarted(c)
    BY <2>1 DEF Release, ReleasesAreKnown, Over, ProcessesAreSound, WasStarted
  <2>3. entries # 0 => c = entries
    BY <2>2, <1>5
  <2> QED BY <2>2, <2>3
<1>7. \A c \in Processes : conn'[c].closed /\ conn'[c].term = "no" => releaseError'
  BY DEF Release, ReleasesAreKnown, Continues
<1>8. \A c, d \in Processes : c < d /\ WasStarted(d)' => Over(c)'
  BY <1>4 DEF Release, ReleasesAreKnown, Continues, WasStarted
<1>9. op'.pc = "transcript" => \A c \in Processes : WasStarted(c)' => Over(c)'
  BY <1>4 DEF Release, ReleasesAreKnown, Continues, WasStarted
<1>10. hist'.told <= Started' /\ \A c \in 1 .. hist'.told : Over(c)'
  <2>1. 1 .. hist.told \subseteq Processes
    BY ClaudeAssumption DEF Typed, IsHistory, Processes
  <2> QED BY <2>1, <1>1, <1>4 DEF Release, ReleasesAreKnown
<1>11. \A w \in Waiters : waiter'[w].pc = "completion" =>
         waiter'[w].upto <= Started' /\ \A c \in 1 .. waiter'[w].upto : conn'[c].closed
  <2> SUFFICES ASSUME NEW w \in Waiters, waiter'[w].pc = "completion"
               PROVE  waiter'[w].upto <= Started' /\ \A c \in 1 .. waiter'[w].upto : conn'[c].closed
    OBVIOUS
  <2>1. waiter[w].pc = "completion" /\ waiter'[w].upto = waiter[w].upto
    BY DEF WaitersStay
  <2>2. 1 .. waiter[w].upto \subseteq Processes
    BY ClaudeAssumption DEF Typed, IsWait, Processes
  <2> QED BY <2>1, <2>2, <1>1 DEF Release, ReleasesAreKnown, Continues
<1>12. ReleasesAreKnown'
  BY <1>6, <1>7, <1>8, <1>9, <1>10, <1>11 DEF ReleasesAreKnown
<1> QED BY <1>1, <1>12

LEMMA ReleaseStays ==
  ASSUME Typed, Release, Persists, Quiets, WaitersStay,
         hist'.told = hist.told, hist'.lost = hist.lost,
         entries' = entries, releaseError' = releaseError,
         releasing' = releasing \/ (entries # 0 /\ releasing' = entries),
         op'.pc = "transcript" =>
           op.pc = "transcript" \/ \A c \in Processes : WasStarted(c) => Over(c)
  PROVE  Release'
<1>1. Continues
  BY DEF Continues, Persists
<1>2. ProcessesAreSound'
  BY DEF Release, ProcessesAreSound, Persists, Quiets, WasStarted, Alive, Typed, IsProcess
<1>3. Numbered' /\ ReleasesAreKnown'
  BY <1>1, KnownStays
<1> QED BY <1>2, <1>3 DEF Release

-----------------------------------------------------------------------------
(* What happens to the call that holds `busy`.                             *)

Waiting == {"init", "control", "result"}
Stopping == {"entry", "poll", "completion"}

\* The controls of a process that is not asked for one but interrupts.
OnlyInterrupts(r) ==
  /\ Initialize \notin r.controls /\ SetMode \notin r.controls
  /\ \A k \in r.controls : k.sub = "interrupt"
\* No call waits for a process, or for less than before.
NobodyAsks == \A c \in Processes :
  OnlyInterrupts(conn'[c]) /\ conn'[c].turn = 0 /\ (conn[c].ending => conn'[c].ending)
ByStays == \A c \in Processes : conn'[c].by = conn[c].by
\* The calls that wait for a release are those that did.
StopsStay == \A w \in Waiters :
  /\ waiter'[w].sends <= hist.sends
  /\ waiter'[w].pc \in Stopping => waiter[w].pc \in Stopping /\ waiter'[w].sends = waiter[w].sends
\* Nothing of the process but its interrupts changes.
SameTurn(r, s) ==
  /\ s.by = r.by /\ s.ending = r.ending /\ s.turn = r.turn
  /\ Initialize \in s.controls <=> Initialize \in r.controls
  /\ SetMode \in s.controls <=> SetMode \in r.controls
  /\ \A k \in s.controls : k \in r.controls \/ k.sub = "interrupt"

\* The call and what it waits for stay.
LEMMA TurnsStay ==
  ASSUME Typed, Turns, StopsStay, op' = op, starting' = starting, hist'.sends = hist.sends,
         \A c \in Processes : SameTurn(conn[c], conn'[c]),
         entries' = entries, Started' = Started
  PROVE  Turns'
<1>1. entries # 0 => entries \in Processes
  BY ClaudeAssumption DEF Typed, Processes
<1>2. op.conn # 0 => op.conn \in Processes
  BY ClaudeAssumption DEF Typed, IsCall, Processes
<1>3. CallsAreSound'
  BY <1>1, <1>2 DEF Turns, CallsAreSound, SameTurn
<1>4. ControlsAreOwned'
  BY DEF Turns, ControlsAreOwned, SameTurn
<1>5. StopsArrive'
  BY <1>1 DEF Turns, StopsArrive, SameTurn, StopsStay, Stopping
<1> QED BY <1>3, <1>4, <1>5 DEF Turns

\* The call ends, and no process has anything of it left.
LEMMA TurnsEnd ==
  ASSUME Typed, Turns, OpEnds, StopsStay, NobodyAsks, ByStays, entries' = entries
  PROVE  Turns'
<1>1. entries # 0 => entries \in Processes
  BY ClaudeAssumption DEF Typed, Processes
<1>2. CallsAreSound'
  BY DEF CallsAreSound, OpEnds, SameHistory, IsHistory
<1>3. ControlsAreOwned'
  BY DEF ControlsAreOwned, OpEnds, NobodyAsks, OnlyInterrupts
<1>4. StopsArrive'
  BY <1>1 DEF Turns, StopsArrive, OpEnds, SameHistory, NobodyAsks, ByStays, StopsStay, Stopping
<1> QED BY <1>2, <1>3, <1>4 DEF Turns

\* The call is one that waits for no process; it may be cancelled.
OpIsCancelled ==
  /\ op.pc \notin Waiting
  /\ op'.kind = op.kind /\ op'.pc = op.pc /\ op'.turn = op.turn /\ op'.conn = op.conn
  /\ starting' => starting
  /\ SameHistory
LEMMA CallsGoOn ==
  ASSUME Typed, Turns, OpIsCancelled, NobodyAsks, entries' = entries, Started' = Started
  PROVE  CallsAreSound' /\ ControlsAreOwned'
<1>1. CallsAreSound'
  BY DEF Turns, CallsAreSound, OpIsCancelled, SameHistory, Waiting
<1>2. ControlsAreOwned'
  BY DEF ControlsAreOwned, OpIsCancelled, NobodyAsks, OnlyInterrupts, Waiting
<1> QED BY <1>1, <1>2
LEMMA TurnsGoOn ==
  ASSUME Typed, Turns, OpIsCancelled, NobodyAsks, ByStays, StopsStay,
         entries' = entries, Started' = Started, op.cancelled => op'.cancelled
  PROVE  Turns'
<1>1. entries # 0 => entries \in Processes
  BY ClaudeAssumption DEF Typed, Processes
<1>2. StopsArrive'
  BY <1>1 DEF Turns, StopsArrive, OpIsCancelled, SameHistory, NobodyAsks, ByStays, StopsStay, Stopping
<1> QED BY <1>2, CallsGoOn DEF Turns

\* When no call waits for a process, none is asked for anything but an interrupt.
LEMMA NobodyIsAsked ==
  ASSUME Turns, op.pc \notin Waiting
  PROVE  \A c \in Processes : OnlyInterrupts(conn[c]) /\ conn[c].turn = 0
BY DEF Turns, ControlsAreOwned, OnlyInterrupts, Waiting

\* A call that waits, waits for the process in `entries`, and no other is asked.
LEMMA TheOtherIsNotAsked ==
  ASSUME Turns, NEW c \in Processes, c # entries
  PROVE  OnlyInterrupts(conn[c]) /\ conn[c].turn = 0
BY DEF Turns, ControlsAreOwned, CallsAreSound, OnlyInterrupts

-----------------------------------------------------------------------------
(* stop().                                                                 *)

\* The processes when stop() is called: an interrupt may just have been answered.
LikeNow(now) ==
  /\ DOMAIN now = Processes
  /\ \A c \in Processes :
       /\ IsProcess(now[c]) /\ SameProcess(conn[c], now[c]) /\ SameTurn(conn[c], now[c])
       /\ now[c].controls \subseteq conn[c].controls
\* What the stop has met is over, or will notice it.
IsStopped ==
  /\ op'.kind = "send" => (op'.pc = "hydrate" /\ op'.cancelled) \/ (op'.pc = "transcript" /\ ~starting')
  /\ entries # 0 => conn'[entries].ending

LEMMA StopIs ==
  ASSUME Typed, Release, Turns, NEW now, LikeNow(now), StopEffect(now), entries' = entries
  PROVE  /\ Writes /\ Persists /\ Quiets /\ IsStopped
         /\ CallsAreSound' /\ ControlsAreOwned'
         /\ op'.pc = "transcript" => op.pc = "transcript"
         /\ ByStays
<1> DEFINE live == entries # 0 /\ ~now[entries].ending
           s == Terminated(Finished(now[entries]))
<1>1. entries # 0 => entries \in Processes
  BY ClaudeAssumption DEF Typed, Processes
<1>2. conn' = IF live THEN [now EXCEPT ![entries] = s] ELSE now
  BY DEF StopEffect
<1>3. live => IsProcess(s) /\ Ends(now[entries], s) /\ s.turn = 0
  BY <1>1, EndedIs DEF LikeNow
<1>4. live => conn'[entries] = s /\ WasStarted(entries)
  BY <1>1, <1>2 DEF LikeNow, Release, ProcessesAreSound
<1>5. \A c \in Processes : ~(live /\ c = entries) => conn'[c] = now[c]
  BY <1>1, <1>2 DEF LikeNow
<1> HIDE DEF s
<1>6. DOMAIN conn' = Processes /\ \A c \in Processes : IsProcess(conn'[c])
  BY <1>1, <1>2, <1>3, <1>4, <1>5 DEF LikeNow
<1>7. Persists
  BY <1>3, <1>4, <1>5 DEF Persists, LikeNow, SameProcess, Ends
<1>8. Quiets
  <2> SUFFICES ASSUME NEW c \in Processes,
                      conn'[c].ending \/ conn'[c].root = "none" \/ conn'[c].closed
               PROVE  conn'[c].controls = {} /\ conn'[c].turn = 0
    BY DEF Quiets
  <2>1. CASE live /\ c = entries
    BY <2>1, <1>3, <1>4 DEF Ends
  <2>2. CASE ~(live /\ c = entries)
    <3>1. conn'[c] = now[c]
      BY <2>2, <1>5
    <3>2. conn[c].ending \/ conn[c].root = "none" \/ conn[c].closed
      BY <3>1 DEF LikeNow, SameTurn, SameProcess
    <3>3. conn[c].controls = {} /\ conn[c].turn = 0
      BY <3>2 DEF Release, ProcessesAreSound
    <3> QED BY <3>1, <3>3 DEF LikeNow, SameTurn
  <2> QED BY <2>1, <2>2
<1>9. entries # 0 => conn'[entries].ending
  BY <1>1, <1>3, <1>4, <1>5 DEF Ends
<1>10. Started' = Started
  BY <1>7, StartedStays DEF Persists
<1>11. NobodyAsks /\ ByStays
  <2>1. ByStays
    BY <1>7 DEF Persists, ByStays
  <2>2. ASSUME NEW c \in Processes
        PROVE  OnlyInterrupts(conn'[c]) /\ conn'[c].turn = 0 /\ (conn[c].ending => conn'[c].ending)
    <3>1. CASE c = entries
      <4>1. conn'[c].ending
        BY <3>1, <1>9, ClaudeAssumption DEF Processes
      <4>2. conn'[c].controls = {} /\ conn'[c].turn = 0
        BY <4>1, <1>8 DEF Quiets
      <4> QED BY <4>1, <4>2 DEF OnlyInterrupts
    <3>2. CASE c # entries
      <4>1. conn'[c] = now[c]
        BY <3>2, <1>5
      <4>2. OnlyInterrupts(conn[c]) /\ conn[c].turn = 0
        BY <3>2, TheOtherIsNotAsked
      <4> QED BY <4>1, <4>2 DEF LikeNow, SameTurn, OnlyInterrupts
    <3> QED BY <3>1, <3>2
  <2> QED BY <2>1, <2>2 DEF NobodyAsks
<1>12. CASE live /\ WaitsFor(entries)
  <2>1. OpEnds
    BY <1>12, EndOpIs DEF StopEffect
  <2>2. CallsAreSound' /\ ControlsAreOwned'
    <3>1. CallsAreSound'
      BY <2>1 DEF CallsAreSound, OpEnds, SameHistory, IsHistory
    <3>2. ControlsAreOwned'
      BY <2>1, <1>11 DEF ControlsAreOwned, OpEnds, NobodyAsks, OnlyInterrupts
    <3> QED BY <3>1, <3>2
  <2>3. IsStopped /\ op'.pc # "transcript"
    BY <2>1, <1>9 DEF IsStopped, OpEnds
  <2> QED BY <2>1, <2>2, <2>3, <1>6, <1>7, <1>8, <1>11 DEF Writes, OpEnds
<1>13. CASE ~(live /\ WaitsFor(entries))
  <2>1. op' = [op EXCEPT !.cancelled = busy] /\ starting' = FALSE /\ hist' = hist
    BY <1>13 DEF StopEffect
  <2>2. /\ op'.kind = op.kind /\ op'.pc = op.pc /\ op'.turn = op.turn /\ op'.conn = op.conn
        /\ op'.cancelled = busy /\ IsCall(op')
    BY <2>1 DEF Typed, IsCall
  <2>3. op.pc \notin Waiting
    <3> SUFFICES ASSUME op.pc \in Waiting
                 PROVE  FALSE
      OBVIOUS
    <3>1. entries # 0 /\ op.conn = entries /\ ~conn[entries].ending
      BY DEF Turns, CallsAreSound, Waiting
    <3>2. ~now[entries].ending
      BY <3>1, <1>1 DEF LikeNow, SameTurn
    <3> QED BY <3>1, <3>2, <1>13 DEF WaitsFor, Waiting
  <2>4. OpIsCancelled
    BY <2>1, <2>2, <2>3 DEF OpIsCancelled, SameHistory
  <2>5. CallsAreSound' /\ ControlsAreOwned'
    BY <2>4, <1>10, <1>11, CallsGoOn
  <2>6. IsStopped
    BY <2>1, <2>2, <2>3, <1>9 DEF IsStopped, Waiting, Turns, CallsAreSound, busy
  <2>7. Writes
    BY <2>1, <2>2, <1>6 DEF Writes, Typed, SameHistory
  <2> QED BY <2>2, <2>5, <2>6, <2>7, <1>7, <1>8, <1>11
<1> QED BY <1>12, <1>13

\* After it, nothing that was met can get to the CLI.
LEMMA StoppedArrives ==
  ASSUME Typed, IsStopped, entries' = entries, \A w \in Waiters : waiter'[w].sends <= hist'.sends
  PROVE  StopsArrive'
BY DEF IsStopped, StopsArrive

-----------------------------------------------------------------------------
(* The steps that touch one process and leave the rest.                    *)

\* Nothing is released or closed, and no call comes nearer to a release: `releasing`
\* may be set to the process in `entries`.
Rest ==
  /\ entries' = entries /\ releaseError' = releaseError
  /\ releasing' = releasing \/ (entries # 0 /\ releasing' = entries)
  /\ DOMAIN waiter' = Waiters /\ \A w \in Waiters : IsWait(waiter'[w])
  /\ WaitersStay /\ StopsStay

LEMMA RestStays ==
  ASSUME IInv, UNCHANGED <<entries, releasing, releaseError, waiter>>
  PROVE  Rest
<1>1. DOMAIN waiter' = Waiters /\ \A w \in Waiters : IsWait(waiter'[w])
  BY DEF IInv, Typed
<1>2. WaitersStay
  BY DEF WaitersStay
<1>3. StopsStay
  BY DEF StopsStay, IInv, Turns, StopsArrive
<1> QED BY <1>1, <1>2, <1>3 DEF Rest

\* What is left to show of a step that starts no process and closes none.
LEMMA StepIs ==
  ASSUME IInv, Rest, Writes, Persists, Quiets, Turns', op'.pc = "transcript" => op.pc = "transcript"
  PROVE  IInv'
<1>1. WaitersStay
  BY DEF WaitersStay, Rest
<1>2. Release'
  BY <1>1, ReleaseStays DEF IInv, Rest, Writes, SameHistory
<1>3. releasing' \in 0 .. MaxStarts
  BY DEF IInv, Typed, Rest
<1>4. Typed'
  BY <1>3 DEF IInv, Typed, Rest, Writes
<1> QED BY <1>2, <1>4 DEF IInv

LEMMA RestIs ==
  ASSUME Rest
  PROVE  StopsStay /\ entries' = entries
BY DEF Rest

\* A process changes in what the invariant does not speak of, or an interrupt is
\* written to it or answered.
LEMMA ProcessStays ==
  ASSUME IInv, Rest, OpStays, NEW c \in Processes, NEW s, IsProcess(s),
         SameProcess(conn[c], s), SameTurn(conn[c], s),
         s.ending \/ s.root = "none" \/ s.closed => s.controls = {} /\ s.turn = 0,
         conn' = [conn EXCEPT ![c] = s]
  PROVE  IInv'
<1>1. DOMAIN conn' = Processes /\ conn'[c] = s /\ \A d \in Processes : d # c => conn'[d] = conn[d]
  BY DEF IInv, Typed
<1>2. Writes
  BY <1>1 DEF Writes, IInv, Typed, OpStays
<1>3. Persists
  BY <1>1 DEF Persists, SameProcess
<1>4. Quiets
  BY <1>1 DEF Quiets, IInv, Release, ProcessesAreSound
<1>5. \A d \in Processes : SameTurn(conn[d], conn'[d])
  BY <1>1 DEF SameTurn
<1>6. Started' = Started
  BY <1>3, StartedStays DEF Persists
<1>7. Turns'
  BY <1>5, <1>6, RestIs, TurnsStay DEF IInv, OpStays, SameHistory
<1> QED BY <1>2, <1>3, <1>4, <1>7, StepIs DEF OpStays

LEMMA CoreStays ==
  ASSUME IInv, Rest, OpStays, NEW c \in Processes, NEW s, IsProcess(s), SameCore(conn[c], s),
         conn' = [conn EXCEPT ![c] = s]
  PROVE  IInv'
<1>1. SameProcess(conn[c], s) /\ SameTurn(conn[c], s)
  BY DEF SameCore, SameProcess, SameTurn
<1>2. s.ending \/ s.root = "none" \/ s.closed => s.controls = {} /\ s.turn = 0
  BY DEF SameCore, SameProcess, IInv, Release, ProcessesAreSound
<1> QED BY <1>1, <1>2, ProcessStays

\* Nothing changes but history.
LEMMA NothingHappens ==
  ASSUME IInv, Rest, OpStays, conn' = conn
  PROVE  IInv'
<1>1. Writes /\ Persists /\ Quiets
  BY DEF Writes, Persists, Quiets, IInv, Typed, OpStays, Release, ProcessesAreSound
<1>2. \A d \in Processes : SameTurn(conn[d], conn'[d])
  BY DEF SameTurn
<1>3. Started' = Started
  BY <1>1, StartedStays DEF Persists
<1>4. Turns'
  BY <1>2, <1>3, RestIs, TurnsStay DEF IInv, OpStays, SameHistory
<1> QED BY <1>1, <1>4, StepIs DEF OpStays

\* The call ends where it waits for no process.
LEMMA CallEndsAlone ==
  ASSUME IInv, Rest, OpEnds, conn' = conn, op.pc \notin Waiting
  PROVE  IInv'
<1>1. Writes /\ Persists /\ Quiets
  BY DEF Writes, Persists, Quiets, IInv, Typed, OpEnds, Release, ProcessesAreSound
<1>2. NobodyAsks /\ ByStays
  BY NobodyIsAsked DEF NobodyAsks, ByStays, IInv
<1>3. Turns'
  BY <1>2, RestIs, TurnsEnd DEF IInv
<1> QED BY <1>1, <1>3, StepIs DEF OpEnds

\* The process in `entries` answers what the call waits for.
LEMMA CallIsAnswered ==
  ASSUME IInv, Rest, OpEnds, entries \in Processes, NEW s, IsProcess(s),
         SameProcess(conn[entries], s), s.ending = conn[entries].ending,
         s.controls \subseteq conn[entries].controls, OnlyInterrupts(s), s.turn = 0,
         conn' = [conn EXCEPT ![entries] = s]
  PROVE  IInv'
<1>1. DOMAIN conn' = Processes /\ conn'[entries] = s
      /\ \A d \in Processes : d # entries => conn'[d] = conn[d]
  BY DEF IInv, Typed
<1>2. Writes
  BY <1>1 DEF Writes, IInv, Typed, OpEnds
<1>3. Persists
  BY <1>1 DEF Persists, SameProcess
<1>4. Quiets
  BY <1>1 DEF Quiets, IInv, Release, ProcessesAreSound, SameProcess
<1>5. NobodyAsks
  BY <1>1, TheOtherIsNotAsked DEF NobodyAsks, IInv
<1>6. Turns'
  BY <1>3, <1>5, RestIs, TurnsEnd DEF IInv, Persists, ByStays
<1> QED BY <1>2, <1>3, <1>4, <1>6, StepIs DEF OpEnds

\* The process in `entries` is told to end, and the call that waits for it ends.
LEMMA ProcessEnds ==
  ASSUME IInv, Rest, entries \in Processes, NEW s, IsProcess(s), Ends(conn[entries], s), s.turn = 0,
         conn' = [conn EXCEPT ![entries] = s], OpEndsWith(entries)
  PROVE  IInv'
<1>1. DOMAIN conn' = Processes /\ conn'[entries] = s
      /\ \A d \in Processes : d # entries => conn'[d] = conn[d]
  BY DEF IInv, Typed
<1>2. Persists
  BY <1>1 DEF Persists, Ends, IInv, Release, ProcessesAreSound
<1>3. Quiets
  BY <1>1 DEF Quiets, Ends, IInv, Release, ProcessesAreSound
<1>4. NobodyAsks /\ ByStays
  <2>1. OnlyInterrupts(s) /\ s.turn = 0 /\ s.ending
    BY DEF OnlyInterrupts, Ends
  <2> QED BY <2>1, <1>1, <1>2, TheOtherIsNotAsked DEF NobodyAsks, ByStays, IInv, Persists
<1>5. CASE WaitsFor(entries)
  <2>1. OpEnds
    BY <1>5, EndOpIs DEF OpEndsWith, IInv
  <2>2. Turns'
    BY <2>1, <1>4, RestIs, TurnsEnd DEF IInv
  <2>3. Writes
    BY <2>1, <1>1 DEF Writes, IInv, Typed, OpEnds
  <2> QED BY <2>1, <2>2, <2>3, <1>2, <1>3, StepIs DEF OpEnds
<1>6. CASE ~WaitsFor(entries)
  <2>1. op' = op /\ starting' = starting /\ hist' = hist
    BY <1>6 DEF OpEndsWith
  <2>2. op.pc \notin Waiting
    BY <1>6 DEF WaitsFor, Waiting, IInv, Turns, CallsAreSound
  <2>3. OpIsCancelled
    BY <2>1, <2>2 DEF OpIsCancelled, SameHistory
  <2>4. Started' = Started
    BY <1>2, StartedStays DEF Persists
  <2>5. Turns'
    BY <2>1, <2>3, <2>4, <1>4, RestIs, TurnsGoOn DEF IInv
  <2>6. Writes
    BY <2>1, <1>1 DEF Writes, IInv, Typed, SameHistory
  <2> QED BY <2>1, <2>5, <2>6, <1>2, <1>3, StepIs
<1> QED BY <1>5, <1>6

\* stop() in a call that waits for nothing of it.
LEMMA StopKeeps ==
  ASSUME IInv, Rest, NEW now, LikeNow(now), StopEffect(now)
  PROVE  IInv'
<1>1. /\ Writes /\ Persists /\ Quiets /\ IsStopped
      /\ CallsAreSound' /\ ControlsAreOwned'
      /\ op'.pc = "transcript" => op.pc = "transcript"
  BY RestIs, StopIs DEF IInv
<1>2. \A w \in Waiters : waiter'[w].sends <= hist'.sends
  BY <1>1 DEF Rest, StopsStay, Writes, SameHistory
<1>3. StopsArrive'
  BY <1>1, <1>2, RestIs, StoppedArrives DEF IInv
<1>4. Turns'
  BY <1>1, <1>3 DEF Turns
<1> QED BY <1>1, <1>4, StepIs

\* fail(), of a process that may have been changed in what the invariant does not say.
LEMMA FailKeeps ==
  ASSUME IInv, Rest, entries \in Processes, NEW r, IsProcess(r),
         SameProcess(conn[entries], r), r.ending = conn[entries].ending, Fail(entries, r)
  PROVE  IInv'
<1>1. CASE r.ending
  <2>1. OpStays /\ conn' = conn
    BY <1>1 DEF Fail, OpStays, SameHistory, IInv, Typed
  <2> QED BY <2>1, NothingHappens
<1>2. CASE ~r.ending
  <2> DEFINE s == Terminated(Finished(r))
  <2>1. IsProcess(s) /\ Ends(r, s) /\ s.turn = 0
    BY EndedIs
  <2>2. conn' = [conn EXCEPT ![entries] = s] /\ OpEndsWith(entries)
    BY <1>2 DEF Fail
  <2> HIDE DEF s
  <2>3. Ends(conn[entries], s)
    BY <2>1 DEF Ends, SameProcess
  <2> QED BY <2>1, <2>2, <2>3, ProcessEnds
<1> QED BY <1>1, <1>2

LEMMA LikeItself ==
  ASSUME IInv
  PROVE  LikeNow(conn)
BY DEF LikeNow, SameProcess, SameTurn, IInv, Typed

\* A message is written to the process in `entries`, which waits for nothing else.
LEMMA BeginKeeps ==
  ASSUME IInv, Rest, entries \in Processes, NEW r, IsProcess(r),
         SameProcess(conn[entries], r), r.ending = conn[entries].ending, ~r.ending, OnlyInterrupts(r),
         op.kind = "send", op.pc = "init" \/ (op.pc = "hydrate" /\ ~op.cancelled),
         Begin(entries, r)
  PROVE  IInv'
<1>1. CASE MayBeShut(r) /\ conn' = [conn EXCEPT ![entries] = Terminated(Finished(r))] /\ EndOp(FALSE)
  <2> DEFINE s == Terminated(Finished(r))
  <2>1. IsProcess(s) /\ Ends(r, s) /\ s.turn = 0
    BY EndedIs
  <2>2. conn' = [conn EXCEPT ![entries] = s]
    BY <1>1
  <2>3. OpEnds
    BY <1>1, EndOpIs DEF IInv
  <2> HIDE DEF s
  <2>4. DOMAIN conn' = Processes /\ conn'[entries] = s
        /\ \A d \in Processes : d # entries => conn'[d] = conn[d]
    BY <2>2 DEF IInv, Typed
  <2>5. Persists
    BY <2>1, <2>4 DEF Persists, Ends, SameProcess, IInv, Release, ProcessesAreSound
  <2>6. Quiets
    BY <2>1, <2>4 DEF Quiets, Ends, IInv, Release, ProcessesAreSound
  <2>7. Writes
    BY <2>1, <2>3, <2>4 DEF Writes, IInv, Typed, OpEnds
  <2>8. NobodyAsks /\ ByStays
    <3>1. OnlyInterrupts(s) /\ s.turn = 0 /\ s.ending
      BY <2>1 DEF OnlyInterrupts, Ends
    <3> QED BY <3>1, <2>4, <2>5, TheOtherIsNotAsked DEF NobodyAsks, ByStays, IInv, Persists
  <2>9. Turns'
    BY <2>3, <2>8, RestIs, TurnsEnd DEF IInv
  <2> QED BY <2>3, <2>5, <2>6, <2>7, <2>9, StepIs DEF OpEnds
<1>2. CASE /\ conn' = [conn EXCEPT ![entries] = Written([r EXCEPT !.ready = TRUE, !.turn = op.turn],
                                                       [sub |-> "user", turn |-> op.turn])]
           /\ op' = [op EXCEPT !.pc = "result", !.conn = entries, !.behind = CliBehind(entries)]
           /\ starting' = FALSE /\ UNCHANGED hist
  <2> DEFINE r1 == [r EXCEPT !.ready = TRUE, !.turn = op.turn]
             s == Written(r1, [sub |-> "user", turn |-> op.turn])
  <2>1. IsProcess(r1) /\ SameProcess(r, r1) /\ r1.ending = r.ending /\ r1.controls = r.controls
        /\ r1.turn = op.turn
    BY DEF IsProcess, SameProcess, IInv, Typed, IsCall
  <2> HIDE DEF r1
  <2>2. IsProcess(s) /\ SameCore(r1, s)
    BY <2>1, WrittenIs
  <2>3. conn' = [conn EXCEPT ![entries] = s]
    BY <1>2 DEF r1
  <2> HIDE DEF s
  <2>4. SameProcess(conn[entries], s) /\ ~s.ending /\ OnlyInterrupts(s) /\ s.turn = op.turn
    BY <2>1, <2>2 DEF SameCore, SameProcess, OnlyInterrupts
  <2>5. DOMAIN conn' = Processes /\ conn'[entries] = s
        /\ \A d \in Processes : d # entries => conn'[d] = conn[d]
    BY <2>3 DEF IInv, Typed
  <2>6. Persists
    BY <2>4, <2>5 DEF Persists, SameProcess
  <2>7. Quiets
    <3>1. WasStarted(entries) /\ ~conn[entries].closed
      BY DEF IInv, Release, ProcessesAreSound
    <3>2. ~conn'[entries].ending /\ conn'[entries].root # "none" /\ ~conn'[entries].closed
      BY <3>1, <2>4, <2>5 DEF SameProcess, WasStarted
    <3> QED BY <3>2, <2>5 DEF Quiets, IInv, Release, ProcessesAreSound
  <2>8. /\ IsCall(op') /\ op'.kind = "send" /\ op'.pc = "result" /\ op'.turn = op.turn
        /\ op'.conn = entries
    BY <1>2 DEF IInv, Typed, IsCall
  <2>9. Writes
    BY <1>2, <2>2, <2>5, <2>8 DEF Writes, IInv, Typed, SameHistory
  <2>10. entries # 0
    BY ClaudeAssumption DEF Processes
  <2>11. CallsAreSound'
    BY <1>2, <2>4, <2>5, <2>8, <2>10 DEF CallsAreSound, IInv, Turns, Rest
  <2>12. ControlsAreOwned'
    <3> SUFFICES ASSUME NEW d \in Processes
                 PROVE  /\ OnlyInterrupts(conn'[d])
                        /\ conn'[d].turn # 0 => d = entries
      BY <2>8 DEF ControlsAreOwned, OnlyInterrupts
    <3>1. CASE d = entries
      BY <3>1, <2>4, <2>5
    <3>2. CASE d # entries
      BY <3>2, <2>5, TheOtherIsNotAsked DEF IInv
    <3> QED BY <3>1, <3>2
  <2>13. StopsArrive'
    <3> SUFFICES ASSUME NEW w \in Waiters, waiter[w].pc \in Stopping
                 PROVE  /\ op.turn > waiter[w].sends
                        /\ conn'[entries].by = 0 \/ conn'[entries].by > waiter[w].sends
      <4>1. entries' = entries /\ hist' = hist /\ StopsStay
        BY <1>2 DEF Rest
      <4>2. \A v \in Waiters : op'.turn <= waiter[v].sends <=> ~(op.turn > waiter[v].sends)
        BY <2>8 DEF IInv, Typed, IsCall, IsWait
      <4> QED BY <4>1, <4>2, <2>8 DEF StopsArrive, Stopping, StopsStay
    <3>1. waiter[w].sends \in Nat /\ op.turn \in Nat /\ op.pc # "transcript"
          /\ ~(op.pc = "hydrate" /\ op.cancelled)
      BY DEF IInv, Typed, IsCall, IsWait
    <3>2. ~(op.turn <= waiter[w].sends)
      BY <3>1 DEF IInv, Turns, StopsArrive, Stopping
    <3>3. conn[entries].by = 0 \/ conn[entries].by > waiter[w].sends
      BY <2>10 DEF IInv, Turns, StopsArrive, Stopping
    <3> QED BY <3>1, <3>2, <3>3, <2>4, <2>5 DEF SameProcess
  <2> QED BY <2>6, <2>7, <2>8, <2>9, <2>11, <2>12, <2>13, StepIs DEF Turns
<1> QED BY <1>1, <1>2 DEF Begin

-----------------------------------------------------------------------------
(* Frames of the CLI.                                                      *)

LEMMA BecomesKeeps ==
  ASSUME IInv, Rest, NEW c \in Processes, NEW s, IsProcess(s), SameCore(conn[c], s), Becomes(c, s)
  PROVE  IInv'
<1>1. conn' = [conn EXCEPT ![c] = s] /\ op' = op /\ starting' = starting /\ hist' = hist
  BY DEF Becomes
<1>2. OpStays
  BY <1>1 DEF OpStays, SameHistory, IInv, Typed
<1> QED BY <1>1, <1>2, CoreStays

\* A process that owes a control is the one in `entries`, and not told to end.
LEMMA AskedIsCurrent ==
  ASSUME IInv, NEW c \in Processes, conn[c].controls # {} \/ conn[c].turn # 0
  PROVE  c = entries /\ ~conn[c].ending
BY DEF IInv, Release, ProcessesAreSound, WasStarted

\* The answer to a control, its refusal and its timeout.
LEMMA SettledKeeps ==
  ASSUME IInv, Rest, NEW c \in Processes, NEW e, IsProcess(e), SameCore(conn[c], e),
         NEW control, NEW how, Settled(c, e, control, how)
  PROVE  IInv'
<1> DEFINE r == [e EXCEPT !.controls = @ \ {control}]
<1>1. /\ IsProcess(r) /\ SameProcess(conn[c], r) /\ r.ending = conn[c].ending
      /\ r.turn = conn[c].turn /\ r.controls = conn[c].controls \ {control}
  BY DEF IsProcess, SameCore, SameProcess
<1>2. CASE control \notin e.controls
  <2>1. Becomes(c, e)
    BY <1>2 DEF Settled
  <2> QED BY <2>1, BecomesKeeps
<1>3. CASE control \in e.controls
  <2>1. control \in conn[c].controls
    BY <1>3 DEF SameCore
  <2>2. c = entries /\ ~conn[c].ending /\ entries \in Processes
    BY <2>1, AskedIsCurrent
  <2>3. control \in {Initialize, SetMode} \/ control.sub = "interrupt"
    BY <2>1 DEF IInv, Turns, ControlsAreOwned
  <2>4. CASE control = Initialize
    <3>1. op.pc = "init" /\ op.conn = c
      BY <2>1, <2>4 DEF IInv, Turns, ControlsAreOwned
    <3>2. OnlyInterrupts(r) /\ r.turn = 0
      <4>1. SetMode \notin conn[c].controls /\ conn[c].turn = 0
        BY <3>1 DEF IInv, Turns, ControlsAreOwned
      <4> HIDE DEF r
      <4> QED BY <4>1, <1>1, <2>4 DEF OnlyInterrupts, IInv, Turns, ControlsAreOwned
    <3>3. CASE how = "ok" /\ op.kind = "send"
      <4>1. Begin(c, r)
        BY <1>3, <2>4, <3>3, ControlsDiffer DEF Settled
      <4> HIDE DEF r
      <4> QED BY <4>1, <1>1, <2>2, <3>1, <3>2, <3>3, BeginKeeps
    <3>4. CASE how = "ok" /\ op.kind # "send"
      <4> DEFINE s == [r EXCEPT !.ready = TRUE]
      <4>1. conn' = [conn EXCEPT ![c] = s] /\ EndOp(FALSE)
        BY <1>3, <2>4, <3>4, ControlsDiffer DEF Settled
      <4> HIDE DEF r
      <4>2. IsProcess(s) /\ SameProcess(r, s) /\ s.ending = r.ending /\ s.turn = r.turn
            /\ s.controls = r.controls
        BY <1>1 DEF IsProcess, SameProcess
      <4> HIDE DEF s
      <4>3. OpEnds
        BY <4>1, EndOpIs DEF IInv
      <4>4. /\ SameProcess(conn[entries], s) /\ s.ending = conn[entries].ending
            /\ s.controls \subseteq conn[entries].controls /\ OnlyInterrupts(s) /\ s.turn = 0
        BY <4>2, <1>1, <2>2, <3>2 DEF SameProcess, OnlyInterrupts
      <4> QED BY <4>1, <4>2, <4>3, <4>4, <2>2, CallIsAnswered
    <3>5. CASE how # "ok"
      <4>1. Fail(c, r)
        BY <1>3, <2>4, <3>5, ControlsDiffer DEF Settled
      <4> HIDE DEF r
      <4> QED BY <4>1, <1>1, <2>2, FailKeeps
    <3> QED BY <3>3, <3>4, <3>5
  <2>5. CASE control = SetMode
    <3>1. op.pc = "control" /\ op.conn = c /\ control # Initialize
      BY <2>1, <2>5, ControlsDiffer DEF IInv, Turns, ControlsAreOwned
    <3>2. OnlyInterrupts(r) /\ r.turn = 0
      <4>1. Initialize \notin conn[c].controls /\ conn[c].turn = 0
        BY <3>1 DEF IInv, Turns, ControlsAreOwned
      <4> HIDE DEF r
      <4> QED BY <4>1, <1>1, <2>5 DEF OnlyInterrupts, IInv, Turns, ControlsAreOwned
    <3>3. CASE how = "late"
      <4>1. Fail(c, r)
        BY <1>3, <2>5, <3>1, <3>3, ControlsDiffer DEF Settled
      <4> HIDE DEF r
      <4> QED BY <4>1, <1>1, <2>2, FailKeeps
    <3>4. CASE how # "late"
      <4>1. conn' = [conn EXCEPT ![c] = r] /\ EndOp(FALSE)
        BY <1>3, <2>5, <3>1, <3>4, ControlsDiffer DEF Settled
      <4> HIDE DEF r
      <4>2. OpEnds
        BY <4>1, EndOpIs DEF IInv
      <4>3. r.controls \subseteq conn[c].controls
        BY <1>1
      <4> QED BY <4>1, <4>2, <4>3, <1>1, <2>2, <3>2, CallIsAnswered
    <3> QED BY <3>3, <3>4
  <2>6. CASE control.sub = "interrupt"
    <3>1. control # Initialize /\ control # SetMode
      BY <2>6, ControlsDiffer
    <3>2. SameTurn(conn[c], r)
      <4> HIDE DEF r
      <4> QED BY <1>1, <3>1 DEF SameTurn, SameProcess
    <3>3. \/ StopEffect([conn EXCEPT ![c] = r])
          \/ conn' = [conn EXCEPT ![c] = r] /\ UNCHANGED <<op, starting, hist>>
      BY <1>3, <2>6, <3>1 DEF Settled, Becomes
    <3> HIDE DEF r
    <3>4. CASE StopEffect([conn EXCEPT ![c] = r])
      <4> DEFINE now == [conn EXCEPT ![c] = r]
      <4>1. DOMAIN now = Processes /\ now[c] = r /\ \A d \in Processes : d # c => now[d] = conn[d]
        BY DEF IInv, Typed
      <4>2. \A d \in Processes : IsProcess(conn[d]) /\ SameProcess(conn[d], conn[d]) /\ SameTurn(conn[d], conn[d])
        BY DEF SameProcess, SameTurn, IInv, Typed
      <4> HIDE DEF now
      <4>3. LikeNow(now)
        BY <4>1, <4>2, <1>1, <3>2 DEF LikeNow
      <4>4. StopEffect(now)
        BY <3>4 DEF now
      <4> QED BY <4>3, <4>4, StopKeeps
    <3>5. CASE conn' = [conn EXCEPT ![c] = r] /\ UNCHANGED <<op, starting, hist>>
      <4>1. OpStays
        BY <3>5 DEF OpStays, SameHistory, IInv, Typed
      <4>2. r.ending \/ r.root = "none" \/ r.closed => r.controls = {} /\ r.turn = 0
        BY <1>1 DEF SameProcess, IInv, Release, ProcessesAreSound
      <4> QED BY <4>1, <4>2, <3>2, <3>5, <1>1, ProcessStays
    <3> QED BY <3>3, <3>4, <3>5
  <2> QED BY <2>3, <2>4, <2>5, <2>6
<1> QED BY <1>2, <1>3

\* The result of the CLI.
LEMMA ResultKeeps ==
  ASSUME IInv, Rest, NEW c \in Processes, NEW r, IsProcess(r), SameCore(conn[c], r),
         NEW ok, Result(c, r, ok)
  PROVE  IInv'
<1>1. CASE Becomes(c, r)
  BY <1>1, BecomesKeeps
<1>2. CASE Becomes(c, Refreshed([r EXCEPT !.waiting = TRUE]))
  <2> DEFINE r1 == [r EXCEPT !.waiting = TRUE]
  <2>1. IsProcess(r1) /\ SameCore(r, r1)
    BY DEF IsProcess, SameCore, SameProcess
  <2> HIDE DEF r1
  <2>2. IsProcess(Refreshed(r1)) /\ SameCore(r1, Refreshed(r1))
    BY <2>1, RefreshedIs
  <2>3. SameCore(conn[c], Refreshed(r1))
    BY <2>1, <2>2 DEF SameCore, SameProcess
  <2>4. Becomes(c, Refreshed(r1))
    BY <1>2 DEF r1
  <2> QED BY <2>2, <2>3, <2>4, BecomesKeeps
<1>3. CASE r.turn # 0 /\ conn' = [conn EXCEPT ![c] = Finished(r)] /\ EndOp(ok /\ ~r.interrupted)
  <2> DEFINE s == Finished(r)
  <2>1. IsProcess(s) /\ SameProcess(r, s) /\ s.ending = r.ending /\ s.controls = r.controls /\ s.turn = 0
    BY FinishedIs
  <2>2. OpEnds
    BY <1>3, EndOpIs DEF IInv
  <2>3. conn[c].turn # 0
    BY <1>3 DEF SameCore
  <2>4. c = entries /\ op.pc = "result"
    BY <2>3, AskedIsCurrent DEF IInv, Turns, ControlsAreOwned
  <2>5. conn' = [conn EXCEPT ![c] = s]
    BY <1>3
  <2> HIDE DEF s
  <2>6. /\ SameProcess(conn[entries], s) /\ s.ending = conn[entries].ending
        /\ s.controls = conn[entries].controls
    BY <2>1, <2>4 DEF SameCore, SameProcess
  <2>7. OnlyInterrupts(s)
    BY <2>4, <2>6 DEF OnlyInterrupts, IInv, Turns, ControlsAreOwned
  <2> QED BY <2>1, <2>2, <2>4, <2>5, <2>6, <2>7, CallIsAnswered
<1> QED BY <1>1, <1>2, <1>3 DEF Result

LEMMA SameCoreTwice ==
  ASSUME NEW a, NEW b, NEW c, SameCore(a, b), SameCore(b, c)
  PROVE  SameCore(a, c)
BY DEF SameCore, SameProcess

LEMMA ReceiveKeeps ==
  ASSUME IInv, NEW c \in Processes, Receive(c)
  PROVE  IInv'
<1> DEFINE frame == Head(conn[c].out)
           r0 == [conn[c] EXCEPT !.out = Tail(@)]
           r == Refreshed(r0)
<1>1. Rest
  BY RestStays DEF Receive
<1>2. entries = c /\ entries \in Processes
  BY DEF Receive
<1>3. IsProcess(r) /\ SameCore(conn[c], r)
  <2>1. IsProcess(r0) /\ SameCore(conn[c], r0)
    BY DEF IsProcess, SameCore, SameProcess, IInv, Typed
  <2> HIDE DEF r0
  <2>2. IsProcess(r) /\ SameCore(r0, r)
    BY <2>1, RefreshedIs
  <2> QED BY <2>1, <2>2, SameCoreTwice
<1>4. \/ Settled(c, r, frame.control, IF frame.ok THEN "ok" ELSE "refused")
      \/ Becomes(c, [r EXCEPT !.asking = "done"])
      \/ Becomes(c, Refreshed([r EXCEPT !.approval = TRUE]))
      \/ Becomes(c, Refreshed([r EXCEPT !.tasks = TRUE]))
      \/ Becomes(c, Refreshed([r EXCEPT !.tasks = FALSE]))
      \/ Result(c, r, frame.ok)
      \/ Fail(c, r)
  <2> HIDE DEF r0
  <2>1. \/ Settled(c, r, frame.control, IF frame.ok THEN "ok" ELSE "refused")
        \/ Becomes(c, IF r.turn = 0 \/ r.interrupted THEN [r EXCEPT !.asking = "done"]
                      ELSE Refreshed([r EXCEPT !.approval = TRUE]))
        \/ Becomes(c, Refreshed([r EXCEPT !.tasks = TRUE]))
        \/ Becomes(c, Refreshed([r EXCEPT !.tasks = FALSE]))
        \/ Result(c, r, frame.ok)
        \/ Fail(c, r)
    BY Zenon DEF Receive, r0
  <2> HIDE DEF r, frame
  <2>2. CASE Becomes(c, IF r.turn = 0 \/ r.interrupted THEN [r EXCEPT !.asking = "done"]
                        ELSE Refreshed([r EXCEPT !.approval = TRUE]))
    <3>1. CASE r.turn = 0 \/ r.interrupted
      BY <2>2, <3>1
    <3>2. CASE ~(r.turn = 0 \/ r.interrupted)
      BY <2>2, <3>2
    <3> QED BY <3>1, <3>2
  <2> QED BY <2>1, <2>2
<1> HIDE DEF r, frame
<1>5. CASE Settled(c, r, frame.control, IF frame.ok THEN "ok" ELSE "refused")
  BY <1>1, <1>3, <1>5, SettledKeeps
<1>6. CASE Becomes(c, [r EXCEPT !.asking = "done"])
  <2>1. IsProcess([r EXCEPT !.asking = "done"]) /\ SameCore(r, [r EXCEPT !.asking = "done"])
    BY <1>3 DEF IsProcess, SameCore, SameProcess
  <2> QED BY <2>1, <1>1, <1>3, <1>6, SameCoreTwice, BecomesKeeps
<1>7. ASSUME NEW x, IsProcess(x), SameCore(r, x), Becomes(c, Refreshed(x))
      PROVE  IInv'
  <2>1. IsProcess(Refreshed(x)) /\ SameCore(x, Refreshed(x))
    BY <1>7, RefreshedIs
  <2>2. SameCore(conn[c], Refreshed(x))
    BY <2>1, <1>3, <1>7, SameCoreTwice
  <2> HIDE DEF Refreshed
  <2> QED BY <2>1, <2>2, <1>1, <1>7, BecomesKeeps
<1>8. \A b \in BOOLEAN : /\ IsProcess([r EXCEPT !.approval = b]) /\ SameCore(r, [r EXCEPT !.approval = b])
                        /\ IsProcess([r EXCEPT !.tasks = b]) /\ SameCore(r, [r EXCEPT !.tasks = b])
  BY <1>3 DEF IsProcess, SameCore, SameProcess
<1>9. CASE Becomes(c, Refreshed([r EXCEPT !.approval = TRUE]))
  BY <1>7, <1>8, <1>9
<1>10. CASE Becomes(c, Refreshed([r EXCEPT !.tasks = TRUE]))
  BY <1>7, <1>8, <1>10
<1>11. CASE Becomes(c, Refreshed([r EXCEPT !.tasks = FALSE]))
  BY <1>7, <1>8, <1>11
<1>12. CASE Result(c, r, frame.ok)
  BY <1>1, <1>3, <1>12, ResultKeeps
<1>13. CASE Fail(c, r)
  <2>1. SameProcess(conn[entries], r) /\ r.ending = conn[entries].ending
    BY <1>2, <1>3 DEF SameCore
  <2>2. Fail(entries, r)
    BY <1>2, <1>13
  <2> QED BY <2>1, <2>2, <1>1, <1>2, <1>3, FailKeeps
<1> QED BY <1>4, <1>5, <1>6, <1>9, <1>10, <1>11, <1>12, <1>13

LEMMA ControlTimeoutKeeps ==
  ASSUME IInv, NEW c \in Processes, ControlTimeout(c)
  PROVE  IInv'
<1>1. Rest
  BY RestStays DEF ControlTimeout
<1>2. PICK control \in conn[c].controls : Settled(c, conn[c], control, "late")
  BY DEF ControlTimeout
<1>3. IsProcess(conn[c]) /\ SameCore(conn[c], conn[c])
  BY DEF SameCore, SameProcess, IInv, Typed
<1> QED BY <1>1, <1>2, <1>3, SettledKeeps

LEMMA InterruptTimeoutKeeps ==
  ASSUME IInv, NEW c \in Processes, InterruptTimeout(c)
  PROVE  IInv'
<1>1. Rest /\ StopEffect(conn)
  BY RestStays DEF InterruptTimeout
<1> QED BY <1>1, LikeItself, StopKeeps

LEMMA BackgroundTimeoutKeeps ==
  ASSUME IInv, NEW c \in Processes, BackgroundTimeout(c)
  PROVE  IInv'
<1>1. Rest /\ Fail(c, conn[c]) /\ conn[c].turn # 0
  BY RestStays DEF BackgroundTimeout
<1>2. c = entries
  BY <1>1, AskedIsCurrent
<1>3. IsProcess(conn[c]) /\ SameProcess(conn[c], conn[c])
  BY DEF SameProcess, IInv, Typed
<1> QED BY <1>1, <1>2, <1>3, FailKeeps

LEMMA HistoryFailsKeeps ==
  ASSUME IInv, HistoryFails
  PROVE  IInv'
<1> DEFINE r == [conn[entries] EXCEPT !.turn = 0, !.interrupted = FALSE]
           s == Terminated(r)
<1>1. Rest /\ entries \in Processes
  BY RestStays, ClaudeAssumption DEF HistoryFails, Processes, IInv, Typed
<1>2. IsProcess(r) /\ SameProcess(conn[entries], r) /\ r.turn = 0
  BY <1>1, ClaudeAssumption DEF IsProcess, SameProcess, IInv, Typed
<1>3. conn' = [conn EXCEPT ![entries] = s] /\ OpEndsWith(entries)
  BY DEF HistoryFails
<1> HIDE DEF r
<1>4. IsProcess(s) /\ Ends(r, s) /\ s.turn = 0
  BY <1>2, TerminatedIs
<1> HIDE DEF s
<1>5. Ends(conn[entries], s)
  BY <1>2, <1>4 DEF Ends, SameProcess
<1> QED BY <1>1, <1>3, <1>4, <1>5, ProcessEnds

LEMMA RespondKeeps ==
  ASSUME IInv, Respond
  PROVE  IInv'
<1> DEFINE x == [conn[entries] EXCEPT !.approval = FALSE, !.asking = "done"]
           s == Refreshed(x)
<1>1. Rest /\ entries \in Processes /\ OpStays
  BY RestStays, ClaudeAssumption DEF Respond, Processes, OpStays, SameHistory, IInv, Typed
<1>2. IsProcess(x) /\ SameCore(conn[entries], x)
  BY <1>1 DEF IsProcess, SameCore, SameProcess, IInv, Typed
<1>3. conn' = [conn EXCEPT ![entries] = s]
  BY DEF Respond
<1> HIDE DEF x
<1>4. IsProcess(s) /\ SameCore(x, s)
  BY <1>2, RefreshedIs
<1> HIDE DEF s
<1> QED BY <1>1, <1>2, <1>3, <1>4, SameCoreTwice, CoreStays

-----------------------------------------------------------------------------
(* The CLI and its tree.                                                   *)

\* The process of the CLI or its tree starts or ends.
LEMMA LifeGoesOn ==
  ASSUME IInv, Rest, OpStays, NEW c \in Processes, NEW s, IsProcess(s),
         s.root # "none" <=> conn[c].root # "none",
         s.closed = conn[c].closed, s.by = conn[c].by, s.ending = conn[c].ending,
         s.turn = conn[c].turn, s.controls = conn[c].controls,
         s.term = conn[c].term \/ (conn[c].term = "none" /\ s.term = "due" /\ WasStarted(c)),
         s.root = "none" => ~s.kin /\ s.term = "none",
         s.closed => s.root = "gone",
         s.root = "gone" => s.term # "none",
         s.term = "yes" => s.root # "up" /\ ~s.kin,
         conn' = [conn EXCEPT ![c] = s]
  PROVE  IInv'
<1>1. DOMAIN conn' = Processes /\ conn'[c] = s /\ \A d \in Processes : d # c => conn'[d] = conn[d]
  BY DEF IInv, Typed
<1>2. Continues
  BY <1>1 DEF Continues
<1>3. Started' = Started /\ Numbered' /\ ReleasesAreKnown'
  BY <1>2, KnownStays DEF IInv, Rest, OpStays, SameHistory
<1>4. ProcessesAreSound'
  BY <1>1 DEF ProcessesAreSound, IInv, Release, Rest, WasStarted, Alive
<1>5. \A d \in Processes : SameTurn(conn[d], conn'[d])
  BY <1>1 DEF SameTurn
<1>6. Turns'
  BY <1>3, <1>5, RestIs, TurnsStay DEF IInv, OpStays, SameHistory
<1>7. releasing' \in 0 .. MaxStarts
  BY DEF IInv, Typed, Rest
<1>8. \A d \in Processes : IsProcess(conn'[d])
  BY <1>1 DEF IInv, Typed
<1>9. Typed'
  BY <1>1, <1>7, <1>8 DEF IInv, Typed, Rest, OpStays
<1> QED BY <1>3, <1>4, <1>6, <1>9 DEF IInv, Release

LEMMA KinKeeps ==
  ASSUME IInv, NEW c \in Processes, KinEnds(c)
  PROVE  IInv'
<1> DEFINE s == [conn[c] EXCEPT !.kin = FALSE]
<1>1. Rest /\ OpStays
  BY RestStays DEF KinEnds, External, OpStays, SameHistory, IInv, Typed
<1>2. IsProcess(conn[c])
  BY DEF IInv, Typed
<1>3. /\ IsProcess(s) /\ s.root = conn[c].root /\ s.kin = FALSE /\ s.closed = conn[c].closed
      /\ s.by = conn[c].by /\ s.ending = conn[c].ending /\ s.turn = conn[c].turn
      /\ s.controls = conn[c].controls /\ s.term = conn[c].term
  BY <1>2 DEF IsProcess
<1>4. conn' = [conn EXCEPT ![c] = s]
  BY DEF KinEnds
<1> HIDE DEF s
<1>5. /\ s.root = "none" => ~s.kin /\ s.term = "none"
      /\ s.closed => s.root = "gone"
      /\ s.root = "gone" => s.term # "none"
      /\ s.term = "yes" => s.root # "up" /\ ~s.kin
  BY <1>3 DEF IInv, Release, ProcessesAreSound, Alive
<1> QED BY <1>1, <1>3, <1>4, <1>5, LifeGoesOn

\* The root of a process is gone.
LEMMA ExitKeeps ==
  ASSUME IInv, Rest, OpStays, NEW c \in Processes, conn[c].root = "up",
         NEW kin \in BOOLEAN, conn' = [conn EXCEPT ![c] = Exited(conn[c], kin)]
  PROVE  IInv'
<1> DEFINE s == Exited(conn[c], kin)
<1>1. IsProcess(conn[c])
  BY DEF IInv, Typed
<1>2. /\ IsProcess(s) /\ s.root = "gone"
      /\ s.closed = conn[c].closed /\ s.by = conn[c].by
      /\ s.turn = conn[c].turn /\ s.ending = conn[c].ending /\ s.controls = conn[c].controls
      /\ s.term = IF conn[c].term = "none" THEN "due" ELSE conn[c].term
  BY <1>1, ExitedIs
<1>3. conn' = [conn EXCEPT ![c] = s]
  OBVIOUS
<1> HIDE DEF s
<1>4. /\ s.term = conn[c].term \/ (conn[c].term = "none" /\ s.term = "due" /\ WasStarted(c))
      /\ s.term # "none" /\ s.term # "yes"
  BY <1>2 DEF WasStarted, IInv, Release, ProcessesAreSound, Alive
<1> QED BY <1>2, <1>3, <1>4, LifeGoesOn

LEMMA RootExitsKeeps ==
  ASSUME IInv, NEW c \in Processes, RootExits(c)
  PROVE  IInv'
<1>1. Rest /\ OpStays
  BY RestStays DEF RootExits, OpStays, SameHistory, IInv, Typed
<1>2. conn[c].root = "up" /\ \E kin \in BOOLEAN : conn' = [conn EXCEPT ![c] = Exited(conn[c], kin)]
  BY DEF RootExits
<1> QED BY <1>1, <1>2, ExitKeeps

\* What the CLI takes and says is not the runtime's yet.
LEMMA SaysKeeps ==
  ASSUME IInv, NEW c \in Processes, NEW x, IsProcess(x), SameCore(conn[c], x), NEW frames,
         Says(c, x, frames), External, hist' = hist \/ hist' = [hist EXCEPT !.done = conn[c].work]
  PROVE  IInv'
<1> DEFINE s == [x EXCEPT !.out = x.out \o frames]
<1>1. IsProcess(s) /\ SameCore(x, s)
  BY DEF IsProcess, SameCore, SameProcess
<1>2. Rest
  BY RestStays DEF External
<1>3. OpStays
  BY DEF External, OpStays, SameHistory, IsHistory, IInv, Typed
<1>4. conn' = [conn EXCEPT ![c] = s]
  BY DEF Says
<1> HIDE DEF s
<1> QED BY <1>1, <1>2, <1>3, <1>4, SameCoreTwice, CoreStays

LEMMA CliReadsKeeps ==
  ASSUME IInv, NEW c \in Processes, CliReads(c)
  PROVE  IInv'
<1> DEFINE r == [conn[c] EXCEPT !.input = Tail(@)]
           head == Head(conn[c].input)
<1>1. External /\ hist' = hist
  BY DEF CliReads
<1>2. IsProcess(r) /\ SameCore(conn[c], r)
  BY DEF IsProcess, SameCore, SameProcess, IInv, Typed
<1>3. \/ Says(c, [r EXCEPT !.work = head.turn, !.asking = "no"], <<>>)
      \/ \E frames : Says(c, r, frames)
      \/ \E frames : Says(c, [r EXCEPT !.work = 0, !.task = "none", !.asking = "no"], frames)
  BY Zenon DEF CliReads
<1> HIDE DEF r, head
<1>4. \A v : /\ IsProcess([r EXCEPT !.work = v, !.asking = "no"])
            /\ SameCore(r, [r EXCEPT !.work = v, !.asking = "no"])
  BY <1>2 DEF IsProcess, SameCore, SameProcess
<1>5. /\ IsProcess([r EXCEPT !.work = 0, !.task = "none", !.asking = "no"])
      /\ SameCore(r, [r EXCEPT !.work = 0, !.task = "none", !.asking = "no"])
  BY <1>2 DEF IsProcess, SameCore, SameProcess
<1>6. ASSUME NEW x, IsProcess(x), SameCore(r, x), NEW frames, Says(c, x, frames)
      PROVE  IInv'
  BY <1>1, <1>2, <1>6, SameCoreTwice, SaysKeeps
<1>7. SameCore(r, r)
  BY DEF SameCore, SameProcess
<1> QED BY <1>2, <1>3, <1>4, <1>5, <1>6, <1>7

LEMMA CliWorksKeeps ==
  ASSUME IInv, NEW c \in Processes, CliWorks(c)
  PROVE  IInv'
<1> DEFINE r == conn[c]
<1>1. External /\ (hist' = hist \/ hist' = [hist EXCEPT !.done = conn[c].work])
  <2>1. External
    BY DEF CliWorks
  <2>2. \/ hist' = hist
        \/ \E ok \in BOOLEAN : hist' = IF ok /\ r.work = op.turn THEN [hist EXCEPT !.done = r.work] ELSE hist
    BY Zenon DEF CliWorks
  <2> QED BY <2>1, <2>2
<1>2. IsProcess(r) /\ SameCore(r, r)
  BY DEF SameCore, SameProcess, IInv, Typed
<1>3. \/ \E frames : Says(c, [r EXCEPT !.asking = "asked"], frames)
      \/ \E frames : Says(c, [r EXCEPT !.task = "running"], frames)
      \/ \E frames : Says(c, [r EXCEPT !.task = "done"], frames)
      \/ \E frames : Says(c, [r EXCEPT !.task = "reported"], frames)
      \/ \E frames : Says(c, [r EXCEPT !.work = 0, !.task = "none", !.asking = "no"], frames)
      \/ \E frames : Says(c, r, frames)
  BY Zenon DEF CliWorks
<1> HIDE DEF r
<1>4. \A v : /\ IsProcess([r EXCEPT !.asking = v]) /\ SameCore(r, [r EXCEPT !.asking = v])
            /\ IsProcess([r EXCEPT !.task = v]) /\ SameCore(r, [r EXCEPT !.task = v])
  BY <1>2 DEF IsProcess, SameCore, SameProcess
<1>5. /\ IsProcess([r EXCEPT !.work = 0, !.task = "none", !.asking = "no"])
      /\ SameCore(r, [r EXCEPT !.work = 0, !.task = "none", !.asking = "no"])
  BY <1>2 DEF IsProcess, SameCore, SameProcess
<1>6. ASSUME NEW x, IsProcess(x), SameCore(r, x), NEW frames, Says(c, x, frames)
      PROVE  IInv'
  BY <1>1, <1>6, SaysKeeps DEF r
<1> QED BY <1>2, <1>3, <1>4, <1>5, <1>6

-----------------------------------------------------------------------------
(* interrupt() and updateConfig().                                         *)

LEMMA InterruptEffectKeeps ==
  ASSUME IInv, Rest, InterruptEffect
  PROVE  IInv'
<1>1. CASE StopEffect(conn)
  BY <1>1, LikeItself, StopKeeps
<1>2. CASE UNCHANGED <<conn, op, starting, hist>>
  <2>1. OpStays /\ conn' = conn
    BY <1>2 DEF OpStays, SameHistory, IInv, Typed
  <2> QED BY <2>1, NothingHappens
<1>3. CASE /\ Interruptible
           /\ \/ conn' = [conn EXCEPT ![entries] = AskedToStop(conn[entries], TRUE)]
              \/ conn' = [conn EXCEPT ![entries].interrupted = TRUE]
           /\ UNCHANGED <<op, starting, hist>>
  <2> DEFINE r == conn[entries]
  <2>1. entries \in Processes /\ OpStays /\ ~r.ending
    BY <1>3, ClaudeAssumption DEF Interruptible, Processes, OpStays, SameHistory, IInv, Typed
  <2>2. IsProcess(r) /\ r.root # "none" /\ ~r.closed
    BY <2>1 DEF IInv, Typed, Release, ProcessesAreSound, WasStarted
  <2>3. CASE conn' = [conn EXCEPT ![entries] = AskedToStop(r, TRUE)]
    <3> DEFINE x == [r EXCEPT !.interrupted = TRUE, !.approval = FALSE, !.timer = TRUE,
                              !.asking = IF r.approval THEN "done" ELSE @,
                              !.controls = @ \cup {InterruptOf(r.turn)}]
               s == Written(x, InterruptOf(r.turn))
    <3>1. InterruptOf(r.turn) \in Lines /\ InterruptOf(r.turn).sub = "interrupt"
          /\ InterruptOf(r.turn) # Initialize /\ InterruptOf(r.turn) # SetMode
      BY <2>2, ControlsDiffer DEF IsProcess
    <3> HIDE DEF r
    <3>2. IsProcess(x) /\ SameProcess(r, x) /\ x.ending = r.ending /\ x.turn = r.turn
          /\ x.controls = r.controls \cup {InterruptOf(r.turn)}
      BY <2>2, <3>1 DEF IsProcess, SameProcess
    <3>3. conn' = [conn EXCEPT ![entries] = s]
      BY <2>3 DEF AskedToStop, r
    <3> HIDE DEF x
    <3>4. IsProcess(s) /\ SameCore(x, s)
      BY <3>2, WrittenIs
    <3> HIDE DEF s
    <3>5. SameProcess(r, s) /\ SameTurn(r, s) /\ ~s.ending /\ s.root # "none" /\ ~s.closed
      BY <2>1, <2>2, <3>1, <3>2, <3>4 DEF SameCore, SameProcess, SameTurn, r
    <3> QED BY <2>1, <3>3, <3>4, <3>5, ProcessStays DEF r
  <2>4. CASE conn' = [conn EXCEPT ![entries].interrupted = TRUE]
    <3> DEFINE s == [r EXCEPT !.interrupted = TRUE]
    <3>1. IsProcess(s) /\ SameCore(r, s)
      BY <2>2 DEF IsProcess, SameCore, SameProcess
    <3>2. conn' = [conn EXCEPT ![entries] = s]
      BY <2>4
    <3> HIDE DEF s
    <3> QED BY <2>1, <3>1, <3>2, CoreStays
  <2> QED BY <1>3, <2>3, <2>4
<1> QED BY <1>1, <1>2, <1>3 DEF InterruptEffect

LEMMA InterruptKeeps ==
  ASSUME IInv, Interrupt
  PROVE  IInv'
<1>1. Rest /\ InterruptEffect
  BY RestStays DEF Interrupt
<1> QED BY <1>1, InterruptEffectKeeps

LEMMA ConfigureKeeps ==
  ASSUME IInv, Configure
  PROVE  IInv'
<1> DEFINE r == conn[entries]
<1>1. Rest /\ entries \in Processes /\ entries # 0 /\ ~r.ending /\ ~starting /\ op.kind = "none"
  BY RestStays, ClaudeAssumption DEF Configure, busy, Processes, IInv, Typed
<1>2. op.pc \notin Waiting /\ op.pc = "none"
  BY <1>1 DEF IInv, Turns, CallsAreSound, Waiting
<1>3. \A c \in Processes : OnlyInterrupts(conn[c]) /\ conn[c].turn = 0
  BY <1>2, NobodyIsAsked DEF IInv
<1>4. starting' = FALSE /\ hist' = hist
  BY <1>1 DEF Configure, IInv, Typed
<1>5. IsProcess(r) /\ WasStarted(entries) /\ ~r.closed
  BY <1>1 DEF IInv, Typed, Release, ProcessesAreSound
<1>6. CASE /\ conn' = [conn EXCEPT ![entries] = Terminated(r)]
           /\ op' = [NoOp EXCEPT !.kind = "config", !.pc = "closing", !.conn = entries]
  <2> DEFINE s == Terminated(r)
  <2>1. IsProcess(s) /\ Ends(r, s) /\ s.turn = 0
    BY <1>1, <1>3, <1>5, TerminatedIs
  <2>2. conn' = [conn EXCEPT ![entries] = s]
    BY <1>6
  <2> HIDE DEF s
  <2>3. DOMAIN conn' = Processes /\ conn'[entries] = s
        /\ \A d \in Processes : d # entries => conn'[d] = conn[d]
    BY <2>2, <1>1 DEF IInv, Typed
  <2>4. IsCall(op') /\ op'.kind = "config" /\ op'.pc = "closing" /\ op'.conn = entries /\ op'.turn = 0
    BY <1>6, ClaudeAssumption DEF NoOp, IsCall, IInv, Typed
  <2>5. Persists
    BY <2>1, <2>3, <1>5 DEF Persists, Ends
  <2>6. Quiets
    BY <2>1, <2>3 DEF Quiets, Ends, IInv, Release, ProcessesAreSound
  <2>7. Writes
    BY <1>4, <2>1, <2>3, <2>4 DEF Writes, SameHistory, IInv, Typed
  <2>8. Started' = Started /\ entries \in 1 .. Started
    <3>1. Started' = Started
      BY <2>5, StartedStays DEF Persists
    <3>2. entries <= Started /\ Started \in Nat
      BY <1>1, <1>5, StartedIs DEF IInv, Release
    <3> QED BY <3>1, <3>2, <1>1 DEF Processes
  <2>9. CallsAreSound'
    BY <1>1, <1>4, <2>4, <2>8 DEF CallsAreSound, Rest, IInv, Typed, IsHistory
  <2>10. ControlsAreOwned'
    BY <1>3, <2>1, <2>3, <2>4 DEF ControlsAreOwned, OnlyInterrupts, Ends
  <2>11. StopsArrive'
    BY <1>1, <1>4, <2>1, <2>3, <2>4 DEF StopsArrive, Rest, StopsStay, Ends
  <2> QED BY <1>1, <2>4, <2>5, <2>6, <2>7, <2>9, <2>10, <2>11, StepIs DEF Turns
<1>7. CASE /\ conn' = [conn EXCEPT ![entries] = Written([r EXCEPT !.controls = r.controls \cup {SetMode}], SetMode)]
           /\ op' = [NoOp EXCEPT !.kind = "config", !.pc = "control", !.conn = entries]
  <2> DEFINE x == [r EXCEPT !.controls = r.controls \cup {SetMode}]
             s == Written(x, SetMode)
  <2>1. IsProcess(x) /\ SameProcess(r, x) /\ x.ending = r.ending /\ x.turn = r.turn
        /\ x.controls = r.controls \cup {SetMode}
    BY <1>5, ControlsDiffer DEF IsProcess, SameProcess
  <2> HIDE DEF x
  <2>2. IsProcess(s) /\ SameCore(x, s)
    BY <2>1, WrittenIs
  <2>3. conn' = [conn EXCEPT ![entries] = s]
    BY <1>7 DEF x
  <2> HIDE DEF s
  <2>4. SameProcess(r, s) /\ ~s.ending /\ s.turn = 0 /\ s.controls = r.controls \cup {SetMode}
    BY <2>1, <2>2, <1>1, <1>3 DEF SameCore, SameProcess
  <2>5. DOMAIN conn' = Processes /\ conn'[entries] = s
        /\ \A d \in Processes : d # entries => conn'[d] = conn[d]
    BY <2>3, <1>1 DEF IInv, Typed
  <2>6. IsCall(op') /\ op'.kind = "config" /\ op'.pc = "control" /\ op'.conn = entries /\ op'.turn = 0
    BY <1>7, ClaudeAssumption DEF NoOp, IsCall, IInv, Typed
  <2>7. Persists
    BY <2>4, <2>5 DEF Persists, SameProcess
  <2>8. Quiets
    <3>1. ~conn'[entries].ending /\ conn'[entries].root # "none" /\ ~conn'[entries].closed
      BY <1>5, <2>4, <2>5 DEF SameProcess, WasStarted
    <3> QED BY <3>1, <2>5 DEF Quiets, IInv, Release, ProcessesAreSound
  <2>9. Writes
    BY <1>4, <2>2, <2>5, <2>6 DEF Writes, SameHistory, IInv, Typed
  <2>10. CallsAreSound'
    BY <1>1, <1>4, <2>4, <2>5, <2>6 DEF CallsAreSound, Rest, IInv, Typed, IsHistory
  <2>11. ControlsAreOwned'
    <3> SUFFICES ASSUME NEW d \in Processes
                 PROVE  /\ Initialize \notin conn'[d].controls
                        /\ SetMode \in conn'[d].controls <=> d = entries
                        /\ \A k \in conn'[d].controls : k = SetMode \/ k.sub = "interrupt"
                        /\ conn'[d].turn = 0
      BY <2>6 DEF ControlsAreOwned
    <3>1. CASE d = entries
      BY <3>1, <1>3, <2>4, <2>5, ControlsDiffer DEF OnlyInterrupts
    <3>2. CASE d # entries
      BY <3>2, <1>3, <2>5 DEF OnlyInterrupts
    <3> QED BY <3>1, <3>2
  <2>12. StopsArrive'
    BY <1>1, <1>4, <2>4, <2>5, <2>6 DEF StopsArrive, Rest, StopsStay, SameProcess, Stopping, IInv, Turns
  <2> QED BY <1>1, <2>6, <2>7, <2>8, <2>9, <2>10, <2>11, <2>12, StepIs DEF Turns
<1> QED BY <1>6, <1>7 DEF Configure

-----------------------------------------------------------------------------
(* What is learned of releases while no process changes.                   *)

LEMMA ReleaseIsLearned ==
  ASSUME IInv, Turns', UNCHANGED <<entries, releaseError, conn>>,
         IsCall(op'), starting' \in BOOLEAN, op'.pc = "transcript" => op.pc = "transcript",
         releasing' \in 0 .. MaxStarts,
         IsHistory(hist'), hist.lost \subseteq hist'.lost,
         hist'.told = hist.told \/ (hist'.told <= Started /\ \A c \in 1 .. hist'.told : Over(c)),
         \A c \in Processes : conn[c].closed /\ conn[c].term # "yes" /\ c \notin hist'.lost => releasing' = c,
         DOMAIN waiter' = Waiters, \A w \in Waiters : IsWait(waiter'[w]),
         \A w \in Waiters : waiter'[w].pc = "completion" =>
           waiter'[w].upto <= Started /\ \A c \in 1 .. waiter'[w].upto : conn[c].closed
  PROVE  IInv'
<1>1. Typed'
  BY DEF IInv, Typed
<1>2. Started' = Started /\ Numbered'
  BY StartedStays DEF IInv, Release
<1>3. ProcessesAreSound'
  BY DEF IInv, Release, ProcessesAreSound, WasStarted, Alive
<1>4. \A c : Over(c) => Over(c)'
  BY DEF Over
<1>5. \A c \in Processes : conn'[c].closed /\ conn'[c].term = "no" => releaseError'
  BY DEF IInv, Release, ReleasesAreKnown
<1>6. \A c, d \in Processes : c < d /\ WasStarted(d)' => Over(c)'
  BY <1>4 DEF IInv, Release, ReleasesAreKnown, WasStarted
<1>7. op'.pc = "transcript" => \A c \in Processes : WasStarted(c)' => Over(c)'
  BY <1>4 DEF IInv, Release, ReleasesAreKnown, WasStarted
<1>8. hist'.told <= Started' /\ \A c \in 1 .. hist'.told : Over(c)'
  BY <1>2, <1>4 DEF IInv, Release, ReleasesAreKnown
<1>9. ReleasesAreKnown'
  BY <1>2, <1>5, <1>6, <1>7, <1>8 DEF ReleasesAreKnown
<1> QED BY <1>1, <1>2, <1>3, <1>9 DEF IInv, Release

\* A process is told of when it is closed and its tree is gone.
LEMMA OverIsKnown ==
  ASSUME IInv
  PROVE  /\ \A c \in Processes : WasStarted(c) /\ entries # c => conn[c].closed
         /\ \A c \in Processes : conn[c].closed => WasStarted(c) /\ entries # c
         /\ \A c \in 1 .. Started : c \in Processes /\ WasStarted(c)
         /\ \A c \in Processes : WasStarted(c) <=> c <= Started
         /\ Started \in 0 .. MaxStarts
         /\ \A c \in Processes : conn[c].closed /\ ~Over(c) => releasing = c /\ conn[c].term # "yes"
<1>1. Started \in 0 .. MaxStarts /\ \A c \in Processes : WasStarted(c) <=> c <= Started
  BY StartedIs DEF IInv, Release
<1>2. \A c \in 1 .. Started : c \in Processes /\ WasStarted(c)
  BY <1>1, ClaudeAssumption DEF Processes
<1>3. \A c \in Processes : conn[c].closed => WasStarted(c) /\ entries # c
  BY DEF IInv, Release, ProcessesAreSound, WasStarted
<1>4. \A c \in Processes : WasStarted(c) /\ entries # c => conn[c].closed
  BY DEF IInv, Release, ProcessesAreSound
<1>5. \A c \in Processes : conn[c].closed /\ ~Over(c) => releasing = c /\ conn[c].term # "yes"
  BY DEF Over, IInv, Release, ReleasesAreKnown
<1> QED BY <1>1, <1>2, <1>3, <1>4, <1>5

\* A call moves on, and no call waits for less than before.
LEMMA GoesIs ==
  ASSUME IInv, NEW w \in Waiters, NEW pc, Goes(w, pc)
  PROVE  /\ DOMAIN waiter' = Waiters /\ \A v \in Waiters : IsWait(waiter'[v])
         /\ waiter'[w].pc = pc
         /\ \A v \in Waiters : v # w => waiter'[v] = waiter[v]
         /\ (pc \in Stopping => waiter[w].pc \in Stopping) => StopsStay
<1>1. DOMAIN waiter = Waiters /\ \A v \in Waiters : IsWait(waiter[v])
  BY DEF IInv, Typed
<1>2. \A v \in Waiters : waiter[v].sends <= hist.sends
  BY DEF IInv, Turns, StopsArrive
<1>3. CASE pc \in Ended
  <2> DEFINE x == [NoWaiter EXCEPT !.kind = waiter[w].kind, !.pc = pc]
  <2>1. waiter' = [waiter EXCEPT ![w] = x]
    BY <1>3 DEF Goes
  <2>2. IsWait(x) /\ x.pc = pc /\ x.sends = 0 /\ pc \notin Stopping
    BY <1>3, ClaudeAssumption DEF NoWaiter, IsWait, Ended, Stopping
  <2> HIDE DEF x
  <2>3. StopsStay
    BY <2>1, <2>2, <1>1, <1>2 DEF StopsStay, IInv, Typed, IsHistory
  <2> QED BY <2>1, <2>2, <2>3, <1>1
<1>4. CASE pc \notin Ended
  <2> DEFINE x == [waiter[w] EXCEPT !.pc = pc]
  <2>1. waiter' = [waiter EXCEPT ![w] = x]
    BY <1>4 DEF Goes
  <2>2. IsWait(x) /\ x.pc = pc /\ x.sends = waiter[w].sends
    BY <1>1 DEF IsWait
  <2> HIDE DEF x
  <2>3. (pc \in Stopping => waiter[w].pc \in Stopping) => StopsStay
    BY <2>1, <2>2, <1>1, <1>2 DEF StopsStay
  <2> QED BY <2>1, <2>2, <2>3, <1>1
<1> QED BY <1>3, <1>4

\* The turns of a step of a waiting call that touches no process.
LEMMA WaiterTurns ==
  ASSUME IInv, StopsStay, UNCHANGED <<entries, starting, op, conn>>, hist'.sends = hist.sends
  PROVE  Turns'
<1>1. Started' = Started
  BY StartedStays
<1>2. \A c \in Processes : SameTurn(conn[c], conn'[c])
  BY DEF SameTurn
<1> QED BY <1>1, <1>2, TurnsStay DEF IInv

LEMMA InterruptSettledKeeps ==
  ASSUME IInv, NEW w \in Waiters, InterruptSettled(w)
  PROVE  IInv'
<1>1. /\ Goes(w, "busy")
      /\ UNCHANGED <<entries, releasing, releaseError, starting, op, conn, hist>>
  BY DEF InterruptSettled
<1>2. /\ DOMAIN waiter' = Waiters /\ \A v \in Waiters : IsWait(waiter'[v])
      /\ waiter'[w].pc = "busy" /\ \A v \in Waiters : v # w => waiter'[v] = waiter[v]
      /\ StopsStay
  BY <1>1, GoesIs DEF Stopping
<1>3. WaitersStay
  BY <1>2 DEF WaitersStay
<1>4. Rest /\ OpStays
  BY <1>1, <1>2, <1>3 DEF Rest, OpStays, SameHistory, IInv, Typed
<1> QED BY <1>1, <1>4, NothingHappens

LEMMA EntryGoneKeeps ==
  ASSUME IInv, NEW w \in Waiters, EntryGone(w)
  PROVE  IInv'
<1>1. UNCHANGED <<entries, releaseError, starting, op, conn>> /\ waiter[w].pc = "entry"
  BY DEF EntryGone
<1>2. \/ Goes(w, "failed") /\ releasing' = releasing /\ hist' = hist
      \/ Goes(w, "poll") /\ releasing' = 0 /\ hist' = [hist EXCEPT !.lost = @ \cup StillReleasing]
  BY DEF EntryGone
<1>3. PICK pc \in {"failed", "poll"} : Goes(w, pc)
  BY <1>2
<1>4. /\ DOMAIN waiter' = Waiters /\ \A v \in Waiters : IsWait(waiter'[v])
      /\ waiter'[w].pc = pc /\ \A v \in Waiters : v # w => waiter'[v] = waiter[v]
      /\ StopsStay
  BY <1>1, <1>3, GoesIs DEF Stopping
<1>5. /\ IsHistory(hist') /\ hist'.sends = hist.sends /\ hist'.told = hist.told
      /\ \/ hist'.lost = hist.lost /\ releasing' = releasing
         \/ hist'.lost = hist.lost \cup StillReleasing /\ releasing' = 0
  <2>1. StillReleasing \subseteq Processes
    BY DEF StillReleasing
  <2> QED BY <2>1, <1>2 DEF IInv, Typed, IsHistory
<1>6. \A c \in Processes : conn[c].closed /\ conn[c].term # "yes" /\ c \notin hist'.lost => releasing' = c
  BY <1>5 DEF StillReleasing, IInv, Release, ReleasesAreKnown
<1>7. \A v \in Waiters : waiter'[v].pc = "completion" =>
        waiter'[v].upto <= Started /\ \A c \in 1 .. waiter'[v].upto : conn[c].closed
  BY <1>3, <1>4 DEF IInv, Release, ReleasesAreKnown
<1>8. Turns'
  BY <1>1, <1>4, <1>5, WaiterTurns
<1>9. IsCall(op') /\ starting' \in BOOLEAN /\ releasing' \in 0 .. MaxStarts
      /\ hist.lost \subseteq hist'.lost
  BY <1>1, <1>5, ClaudeAssumption DEF IInv, Typed
<1> QED BY <1>1, <1>4, <1>5, <1>6, <1>7, <1>8, <1>9, ReleaseIsLearned

LEMMA PollKeeps ==
  ASSUME IInv, NEW w \in Waiters, Poll(w)
  PROVE  IInv'
<1>1. /\ UNCHANGED <<entries, releasing, releaseError, starting, op, conn, hist>>
      /\ waiter[w].pc = "poll"
  BY DEF Poll
<1>2. IsCall(op') /\ starting' \in BOOLEAN /\ releasing' \in 0 .. MaxStarts /\ IsHistory(hist')
  BY <1>1 DEF IInv, Typed
<1>3. \A c \in Processes : conn[c].closed /\ conn[c].term # "yes" /\ c \notin hist'.lost => releasing' = c
  BY <1>1 DEF IInv, Release, ReleasesAreKnown
<1>4. CASE Goes(w, "failed")
  <2>1. /\ DOMAIN waiter' = Waiters /\ \A v \in Waiters : IsWait(waiter'[v])
        /\ waiter'[w].pc = "failed" /\ \A v \in Waiters : v # w => waiter'[v] = waiter[v]
        /\ StopsStay
    BY <1>4, GoesIs DEF Stopping
  <2>2. \A v \in Waiters : waiter'[v].pc = "completion" =>
          waiter'[v].upto <= Started /\ \A c \in 1 .. waiter'[v].upto : conn[c].closed
    BY <2>1 DEF IInv, Release, ReleasesAreKnown
  <2>3. Turns'
    BY <1>1, <2>1, WaiterTurns
  <2> QED BY <1>1, <1>2, <1>3, <2>1, <2>2, <2>3, ReleaseIsLearned
<1>5. CASE /\ entries = 0
           /\ waiter' = [waiter EXCEPT ![w].pc = "completion", ![w].upto = Started,
                                        ![w].completion = releaseCompletions]
  <2> DEFINE x == [waiter[w] EXCEPT !.pc = "completion", !.upto = Started, !.completion = releaseCompletions]
  <2>1. waiter' = [waiter EXCEPT ![w] = x]
    BY <1>5 DEF IInv, Typed
  <2>2. Started \in 0 .. MaxStarts /\ \A c \in 1 .. Started : conn[c].closed
    BY <1>5, OverIsKnown, ClaudeAssumption DEF Processes
  <2>3. IsWait(x) /\ x.pc = "completion" /\ x.upto = Started /\ x.sends = waiter[w].sends
    BY <2>2 DEF IsWait, IInv, Typed
  <2> HIDE DEF x
  <2>4. /\ DOMAIN waiter' = Waiters /\ waiter'[w] = x
        /\ \A v \in Waiters : v # w => waiter'[v] = waiter[v]
    BY <2>1 DEF IInv, Typed
  <2>5. \A v \in Waiters : IsWait(waiter'[v])
    BY <2>3, <2>4 DEF IInv, Typed
  <2>6. StopsStay
    BY <1>1, <2>3, <2>4 DEF StopsStay, Stopping, IInv, Turns, StopsArrive
  <2>7. \A v \in Waiters : waiter'[v].pc = "completion" =>
          waiter'[v].upto <= Started /\ \A c \in 1 .. waiter'[v].upto : conn[c].closed
    BY <2>2, <2>3, <2>4 DEF IInv, Release, ReleasesAreKnown
  <2>8. Turns'
    BY <1>1, <2>6, WaiterTurns
  <2> QED BY <1>1, <1>2, <1>3, <2>4, <2>5, <2>7, <2>8, ReleaseIsLearned
<1> QED BY <1>4, <1>5 DEF Poll

\* The caller of w is told of the first n processes, and releasing may be cleared.
LEMMA ToldKeeps ==
  ASSUME IInv, NEW w \in Waiters, NEW pc \in {"ok", "failed", "drain"}, Goes(w, pc),
         UNCHANGED <<entries, releaseError, starting, op, conn>>,
         releasing' = releasing \/ (releasing' = 0 /\ \A c \in Processes : conn[c].closed => Over(c)),
         NEW n \in 0 .. MaxStarts,
         hist' = hist \/ (Told(n) /\ n <= Started /\ \A c \in 1 .. n : Over(c))
  PROVE  IInv'
<1>1. /\ DOMAIN waiter' = Waiters /\ \A v \in Waiters : IsWait(waiter'[v])
      /\ waiter'[w].pc = pc /\ \A v \in Waiters : v # w => waiter'[v] = waiter[v]
      /\ StopsStay
  BY GoesIs DEF Stopping
<1>2. /\ IsHistory(hist') /\ hist'.sends = hist.sends /\ hist'.lost = hist.lost
      /\ hist'.told = hist.told \/ (hist'.told <= Started /\ \A c \in 1 .. hist'.told : Over(c))
  <2>1. CASE hist' = hist
    BY <2>1 DEF IInv, Typed
  <2>2. CASE Told(n) /\ n <= Started /\ \A c \in 1 .. n : Over(c)
    BY <2>2 DEF Told, IInv, Typed, IsHistory
  <2> QED BY <2>1, <2>2
<1>3. \A c \in Processes : conn[c].closed /\ conn[c].term # "yes" /\ c \notin hist'.lost => releasing' = c
  BY <1>2 DEF IInv, Release, ReleasesAreKnown, Over
<1>4. \A v \in Waiters : waiter'[v].pc = "completion" =>
        waiter'[v].upto <= Started /\ \A c \in 1 .. waiter'[v].upto : conn[c].closed
  BY <1>1 DEF IInv, Release, ReleasesAreKnown
<1>5. Turns'
  BY <1>1, <1>2, WaiterTurns
<1>6. IsCall(op') /\ starting' \in BOOLEAN /\ releasing' \in 0 .. MaxStarts
      /\ hist.lost \subseteq hist'.lost
  BY <1>2, ClaudeAssumption DEF IInv, Typed
<1> QED BY <1>1, <1>2, <1>3, <1>4, <1>5, <1>6, ReleaseIsLearned

LEMMA ReleasedKeeps ==
  ASSUME IInv, NEW w \in Waiters, Released(w)
  PROVE  IInv'
<1>1. /\ UNCHANGED <<entries, releaseError, starting, op, conn>> /\ waiter[w].pc = "completion"
      /\ releasing # 0 => conn[releasing].term # "due"
  BY DEF Released
<1>2. 0 \in 0 .. MaxStarts /\ waiter[w].upto \in 0 .. MaxStarts
  BY ClaudeAssumption DEF IInv, Typed, IsWait
<1>3. CASE Goes(w, "failed") /\ releasing' = releasing /\ hist' = hist
  BY <1>1, <1>2, <1>3, ToldKeeps
<1>4. CASE /\ ~(releaseError \/ (releasing # 0 /\ conn[releasing].term = "no"))
           /\ releasing' = 0
           /\ \/ Goes(w, "ok") /\ Told(waiter[w].upto)
              \/ Goes(w, "drain") /\ hist' = hist
  <2>1. \A c \in Processes : conn[c].closed => Over(c)
    <3> SUFFICES ASSUME NEW c \in Processes, conn[c].closed, ~Over(c)
                 PROVE  FALSE
      OBVIOUS
    <3>1. releasing = c /\ conn[c].term # "yes" /\ c # 0
      BY OverIsKnown, ClaudeAssumption DEF Processes
    <3>2. conn[c].term \in {"due", "no"}
      BY <3>1 DEF IInv, Typed, IsProcess, Release, ProcessesAreSound
    <3> QED BY <3>1, <3>2, <1>1, <1>4
  <2>2. waiter[w].upto <= Started /\ \A c \in 1 .. waiter[w].upto : conn[c].closed
    BY <1>1 DEF IInv, Release, ReleasesAreKnown
  <2>3. \A c \in 1 .. waiter[w].upto : Over(c)
    BY <1>2, <2>1, <2>2, ClaudeAssumption DEF Processes
  <2> QED BY <1>1, <1>2, <1>4, <2>1, <2>2, <2>3, ToldKeeps
<1> QED BY <1>3, <1>4 DEF Released

LEMMA DrainedKeeps ==
  ASSUME IInv, NEW w \in Waiters, Drained(w)
  PROVE  IInv'
<1>1. UNCHANGED <<entries, releasing, releaseError, starting, op, conn>>
  BY DEF Drained
<1>2. Started \in 0 .. MaxStarts
  BY OverIsKnown
<1>3. CASE Goes(w, "failed") /\ hist' = hist
  BY <1>1, <1>2, <1>3, ToldKeeps
<1>4. CASE Goes(w, "ok") /\ Told(Started) /\ ~has
  <2>1. entries = 0 /\ releasing = 0
    BY <1>4 DEF has
  <2>2. \A c \in 1 .. Started : Over(c)
    BY <2>1, OverIsKnown, ClaudeAssumption DEF Processes
  <2>3. Started <= Started
    BY <1>2
  <2> QED BY <1>1, <1>2, <1>4, <2>2, <2>3, ToldKeeps
<1> QED BY <1>3, <1>4 DEF Drained

LEMMA ShutdownEndsKeeps ==
  ASSUME IInv, NEW w \in Waiters, ShutdownEnds(w)
  PROVE  IInv'
<1>1. UNCHANGED <<entries, releasing, releaseError, starting, op, conn>>
  BY DEF ShutdownEnds
<1>2. Started \in 0 .. MaxStarts
  BY OverIsKnown
<1>3. CASE Goes(w, "failed") /\ hist' = hist
  BY <1>1, <1>2, <1>3, ToldKeeps
<1>4. CASE Goes(w, "ok") /\ Told(Started) /\ terminations = {} /\ ~terminationFailed /\ entries = 0
  <2>1. \A c \in 1 .. Started : Over(c)
    <3> SUFFICES ASSUME NEW c \in 1 .. Started
                 PROVE  Over(c)
      OBVIOUS
    <3>1. c \in Processes /\ conn[c].closed
      BY <1>4, OverIsKnown, ClaudeAssumption DEF Processes
    <3>2. conn[c].term # "due"
      BY <1>4, <3>1 DEF terminations
    <3>3. conn[c].term # "no"
      BY <1>4, <3>1 DEF terminationFailed
    <3>4. conn[c].term # "none"
      BY <3>1 DEF IInv, Release, ProcessesAreSound
    <3> QED BY <3>1, <3>2, <3>3, <3>4 DEF Over, IInv, Typed, IsProcess
  <2>2. Started <= Started
    BY <1>2
  <2> QED BY <1>1, <1>2, <1>4, <2>1, <2>2, ToldKeeps
<1> QED BY <1>3, <1>4 DEF ShutdownEnds

LEMMA ConfigEndsKeeps ==
  ASSUME IInv, ConfigEnds
  PROVE  IInv'
<1>1. /\ UNCHANGED <<entries, releasing, releaseError, starting, conn, waiter>>
      /\ op.pc = "closing" /\ op' = NoOp
  BY DEF ConfigEnds
<1>2. Rest
  BY <1>1, RestStays
<1>3. /\ IsCall(op') /\ op'.kind = "none" /\ op'.pc = "none" /\ op'.turn = 0 /\ op'.conn = 0
      /\ ~starting'
  BY <1>1, ClaudeAssumption DEF NoOp, IsCall, IInv, Turns, CallsAreSound
<1>4. /\ IsHistory(hist') /\ hist'.sends = hist.sends /\ hist'.lost = hist.lost
      /\ \/ hist'.told = hist.told
         \/ hist'.told = op.conn /\ entries # op.conn /\ conn[op.conn].term = "yes"
  BY DEF ConfigEnds, IInv, Typed, IsHistory, IsCall
<1>5. hist'.told = hist.told \/ (hist'.told <= Started /\ \A c \in 1 .. hist'.told : Over(c))
  <2> SUFFICES ASSUME entries # op.conn, conn[op.conn].term = "yes"
               PROVE  op.conn <= Started /\ \A c \in 1 .. op.conn : Over(c)
    BY <1>4
  <2>1. op.conn \in 1 .. Started /\ Started \in 0 .. MaxStarts
    BY <1>1, OverIsKnown DEF IInv, Turns, CallsAreSound
  <2>2. op.conn \in Processes /\ WasStarted(op.conn) /\ Over(op.conn)
    BY <2>1, OverIsKnown DEF Over
  <2>3. \A c \in 1 .. op.conn : c # op.conn => Over(c)
    BY <2>1, <2>2, ClaudeAssumption DEF IInv, Release, ReleasesAreKnown, Processes
  <2> QED BY <2>1, <2>2, <2>3
<1>6. NobodyAsks
  BY <1>1, NobodyIsAsked DEF NobodyAsks, IInv, Waiting
<1>7. Turns'
  <2>1. CallsAreSound'
    BY <1>3, <1>4 DEF CallsAreSound, IsHistory
  <2>2. ControlsAreOwned'
    BY <1>3, <1>6 DEF ControlsAreOwned, NobodyAsks, OnlyInterrupts
  <2>3. StopsArrive'
    BY <1>1, <1>3, <1>4 DEF StopsArrive, IInv, Turns
  <2> QED BY <2>1, <2>2, <2>3 DEF Turns
<1>8. \A c \in Processes : conn[c].closed /\ conn[c].term # "yes" /\ c \notin hist'.lost => releasing' = c
  BY <1>1, <1>4 DEF IInv, Release, ReleasesAreKnown
<1>9. /\ DOMAIN waiter' = Waiters /\ \A v \in Waiters : IsWait(waiter'[v])
      /\ \A v \in Waiters : waiter'[v].pc = "completion" =>
           waiter'[v].upto <= Started /\ \A c \in 1 .. waiter'[v].upto : conn[c].closed
  BY <1>1 DEF IInv, Typed, Release, ReleasesAreKnown
<1>10. starting' \in BOOLEAN /\ releasing' \in 0 .. MaxStarts /\ hist.lost \subseteq hist'.lost
  BY <1>1, <1>4 DEF IInv, Typed
<1> QED BY <1>1, <1>3, <1>4, <1>5, <1>7, <1>8, <1>9, <1>10, ReleaseIsLearned

-----------------------------------------------------------------------------
(* The initial state, and the calls that send a message.                   *)

LEMMA InitIs ==
  ASSUME Init
  PROVE  IInv
<1>1. \A c \in Processes : conn[c] = NoProcess
  BY DEF Init
<1>2. Typed
  <2>1. IsProcess(NoProcess) /\ IsCall(NoOp) /\ IsWait(NoWaiter)
    BY ClaudeAssumption DEF NoProcess, NoOp, NoWaiter, IsProcess, IsCall, IsWait
  <2>2. IsHistory(hist)
    BY ClaudeAssumption DEF Init, IsHistory
  <2>3. DOMAIN conn = Processes /\ DOMAIN waiter = Waiters /\ \A w \in Waiters : waiter[w] = NoWaiter
    BY DEF Init
  <2>4. releaseError \in BOOLEAN /\ starting \in BOOLEAN
    BY DEF Init
  <2>5. entries \in 0 .. MaxStarts /\ releasing \in 0 .. MaxStarts /\ op = NoOp
    BY ClaudeAssumption DEF Init
  <2> QED BY <1>1, <2>1, <2>2, <2>3, <2>4, <2>5 DEF Typed
<1>3. \A c \in Processes : ~WasStarted(c)
  BY <1>1 DEF NoProcess, WasStarted
<1>4. Started = 0 /\ Numbered
  <2>1. {c \in Processes : WasStarted(c)} = {}
    BY <1>3
  <2>2. Started = 0
    BY <2>1, FS_EmptySet DEF Started, WasStarted
  <2>3. 1 .. 0 = {}
    OBVIOUS
  <2> QED BY <2>1, <2>2, <2>3 DEF Numbered
<1>5. ProcessesAreSound
  BY <1>1, ClaudeAssumption DEF NoProcess, ProcessesAreSound, WasStarted, Alive, Init, Processes
<1>6. ReleasesAreKnown
  BY <1>1, <1>3, <1>4 DEF Init, ReleasesAreKnown, NoProcess, NoOp, NoWaiter
<1>7. CallsAreSound
  BY DEF Init, NoOp, CallsAreSound
<1>8. ControlsAreOwned
  BY <1>1 DEF Init, NoOp, NoProcess, ControlsAreOwned
<1>9. StopsArrive
  BY DEF Init, NoOp, NoWaiter, StopsArrive
<1> QED BY <1>2, <1>4, <1>5, <1>6, <1>7, <1>8, <1>9 DEF IInv, Release, Turns

\* A call takes `busy` and loads the history first.
LEMMA HydrateKeeps ==
  ASSUME IInv, UNCHANGED <<entries, releasing, releaseError, starting, conn, waiter>>,
         op.kind = "none", IsCall(op'), op'.pc = "hydrate",
         IsHistory(hist'), hist'.told = hist.told, hist'.lost = hist.lost, hist.sends <= hist'.sends,
         \/ op'.kind = "send" /\ op'.turn = hist'.sends /\ hist'.sends = hist.sends + 1
         \/ op'.kind = "prepare" /\ op'.turn = 0
  PROVE  IInv'
<1>1. op.pc = "none" /\ ~starting
  BY DEF IInv, Turns, CallsAreSound
<1>2. hist.sends \in Nat /\ hist'.sends \in Nat
  BY DEF IInv, Typed, IsHistory
<1>3. Rest
  BY RestStays
<1>4. Persists /\ Quiets
  BY DEF Persists, Quiets, IInv, Release, ProcessesAreSound
<1>5. Release'
  BY <1>3, <1>4, ReleaseStays DEF IInv, Rest
<1>6. Typed'
  BY DEF IInv, Typed
<1>7. CallsAreSound'
  BY <1>1, <1>2 DEF CallsAreSound
<1>8. \A c \in Processes : OnlyInterrupts(conn[c]) /\ conn[c].turn = 0
  BY <1>1, NobodyIsAsked DEF IInv, Waiting
<1>9. ControlsAreOwned'
  BY <1>8 DEF ControlsAreOwned, OnlyInterrupts
<1>10. StopsArrive'
  <2> SUFFICES ASSUME NEW w \in Waiters
               PROVE  /\ waiter[w].sends <= hist'.sends
                      /\ ~(op'.kind = "send" /\ op'.turn <= waiter[w].sends)
                      /\ waiter[w].pc \in Stopping /\ entries # 0 /\ ~conn[entries].ending =>
                           conn[entries].by = 0 \/ conn[entries].by > waiter[w].sends
    BY DEF StopsArrive, Stopping
  <2>1. waiter[w].sends \in Nat /\ waiter[w].sends <= hist.sends
    BY DEF IInv, Typed, IsWait, Turns, StopsArrive
  <2>2. waiter[w].pc \in Stopping /\ entries # 0 /\ ~conn[entries].ending =>
          conn[entries].by = 0 \/ conn[entries].by > waiter[w].sends
    BY DEF IInv, Turns, StopsArrive, Stopping
  <2> QED BY <1>2, <2>1, <2>2
<1> QED BY <1>5, <1>6, <1>7, <1>9, <1>10 DEF IInv, Turns

LEMMA SendKeeps ==
  ASSUME IInv, Send
  PROVE  IInv'
<1>1. /\ UNCHANGED <<entries, releasing, releaseError, starting, conn, waiter>>
      /\ op.kind = "none" /\ hist.sends < MaxSends
  BY DEF Send, busy
<1>2. /\ IsHistory(hist') /\ hist'.told = hist.told /\ hist'.lost = hist.lost
      /\ hist'.sends = hist.sends + 1 /\ hist.sends \in Nat
  BY <1>1, ClaudeAssumption DEF Send, IInv, Typed, IsHistory
<1>3. IsCall(op') /\ op'.kind = "send" /\ op'.pc = "hydrate" /\ op'.turn = hist.sends + 1
  BY <1>1, <1>2, ClaudeAssumption DEF Send, NoOp, IsCall
<1> QED BY <1>1, <1>2, <1>3, HydrateKeeps

LEMMA PrepareKeeps ==
  ASSUME IInv, Prepare
  PROVE  IInv'
<1>1. /\ UNCHANGED <<entries, releasing, releaseError, starting, conn, waiter, hist>>
      /\ op.kind = "none"
  BY DEF Prepare, busy
<1>2. IsHistory(hist') /\ hist'.sends \in Nat
  BY <1>1 DEF IInv, Typed, IsHistory
<1>3. IsCall(op') /\ op'.kind = "prepare" /\ op'.pc = "hydrate" /\ op'.turn = 0
  BY ClaudeAssumption DEF Prepare, NoOp, IsCall
<1> QED BY <1>1, <1>2, <1>3, HydrateKeeps

LEMMA HydratedKeeps ==
  ASSUME IInv, Hydrated
  PROVE  IInv'
<1>1. UNCHANGED <<entries, releasing, releaseError, waiter>> /\ op.pc = "hydrate"
  BY DEF Hydrated
<1>2. Rest
  BY <1>1, RestStays
<1>3. op.pc \notin Waiting /\ op.kind \in {"send", "prepare"}
  BY <1>1 DEF Waiting, IInv, Turns, CallsAreSound, Typed, IsCall
<1>4. \/ EndOp(FALSE) /\ conn' = conn
      \/ /\ op.kind = "send" /\ ~op.cancelled /\ entries # 0 /\ ~conn[entries].ending
         /\ Begin(entries, conn[entries])
      \/ /\ ~has /\ ~releaseError /\ Started # MaxStarts
         /\ starting' = TRUE /\ op' = [op EXCEPT !.pc = "transcript"] /\ UNCHANGED <<conn, hist>>
         /\ op.kind = "send" => ~op.cancelled
  BY DEF Hydrated
<1>5. CASE EndOp(FALSE) /\ conn' = conn
  BY <1>2, <1>3, <1>5, EndOpIs, CallEndsAlone DEF IInv
<1>6. CASE /\ op.kind = "send" /\ ~op.cancelled /\ entries # 0 /\ ~conn[entries].ending
           /\ Begin(entries, conn[entries])
  <2>1. entries \in Processes
    BY <1>6, ClaudeAssumption DEF IInv, Typed, Processes
  <2>2. IsProcess(conn[entries]) /\ SameProcess(conn[entries], conn[entries])
    BY <2>1 DEF SameProcess, IInv, Typed
  <2>3. OnlyInterrupts(conn[entries])
    BY <2>1, <1>3, NobodyIsAsked DEF IInv
  <2> QED BY <1>1, <1>2, <1>6, <2>1, <2>2, <2>3, BeginKeeps
<1>7. CASE /\ ~has /\ ~releaseError /\ Started # MaxStarts
           /\ starting' = TRUE /\ op' = [op EXCEPT !.pc = "transcript"] /\ UNCHANGED <<conn, hist>>
           /\ op.kind = "send" => ~op.cancelled
  <2>1. entries = 0 /\ releasing = 0
    BY <1>7 DEF has
  <2>2. Started \in 0 .. MaxStarts /\ Started < MaxStarts
    <3>1. Started # MaxStarts
      BY <1>7
    <3>2. Started \in 0 .. MaxStarts
      BY OverIsKnown
    <3> QED BY <3>1, <3>2, ClaudeAssumption
  <2>3. \A c \in Processes : WasStarted(c) => Over(c)
    BY <2>1, OverIsKnown, ClaudeAssumption DEF Processes
  <2>4. /\ IsCall(op') /\ op'.kind = op.kind /\ op'.pc = "transcript" /\ op'.turn = op.turn
        /\ op'.conn = op.conn
    BY <1>7 DEF IInv, Typed, IsCall
  <2>5. Persists /\ Quiets
    BY <1>7 DEF Persists, Quiets, IInv, Release, ProcessesAreSound
  <2>6. Release'
    BY <1>2, <1>7, <2>3, <2>5, ReleaseStays DEF IInv, Rest
  <2>7. Typed'
    BY <1>1, <1>7, <2>4 DEF IInv, Typed
  <2>8. Started' = Started
    BY <1>7, StartedStays
  <2>9. CallsAreSound'
    BY <1>1, <1>3, <1>7, <2>1, <2>2, <2>4, <2>8 DEF CallsAreSound, IInv, Turns
  <2>10. ControlsAreOwned'
    <3>1. \A c \in Processes : OnlyInterrupts(conn[c]) /\ conn[c].turn = 0
      BY <1>3, NobodyIsAsked DEF IInv
    <3> QED BY <3>1, <1>7, <2>4 DEF ControlsAreOwned, OnlyInterrupts
  <2>11. StopsArrive'
    <3>1. ASSUME NEW w \in Waiters, waiter[w].pc \in Stopping
          PROVE  ~(op.kind = "send" /\ op.turn <= waiter[w].sends)
      <4>1. op.kind = "send" => ~op.cancelled
        BY <1>7
      <4>2. op.pc = "hydrate" /\ op.pc # "transcript"
        BY <1>1
      <4>3. StopsArrive
        BY DEF IInv, Turns
      <4>4. waiter[w].pc \in {"entry", "poll", "completion"}
        BY <3>1 DEF Stopping
      <4> QED BY <4>1, <4>2, <4>3, <4>4 DEF StopsArrive
    <3>2. \A w \in Waiters : waiter[w].sends <= hist.sends
      BY DEF StopsArrive, IInv, Turns
    <3>3. waiter' = waiter /\ entries' = entries /\ hist' = hist
      BY <1>1, <1>7
    <3> QED BY <3>1, <3>2, <3>3, <2>1, <2>4 DEF StopsArrive, Stopping
  <2> QED BY <2>6, <2>7, <2>9, <2>10, <2>11 DEF IInv, Turns
<1> QED BY <1>4, <1>5, <1>6, <1>7

\* A process starts, as the next of the session.
LEMMA OneMoreStarted ==
  ASSUME Numbered, Started < MaxStarts,
         \A d \in Processes : conn'[d].root # "none" <=> (conn[d].root # "none" \/ d = Started + 1)
  PROVE  Started' = Started + 1 /\ Numbered'
<1> DEFINE S == {d \in Processes : conn[d].root # "none"}
           T == {d \in Processes : conn'[d].root # "none"}
<1>1. Started \in 0 .. MaxStarts /\ S = 1 .. Started /\ Started = Cardinality(S)
  BY StartedIs DEF Numbered, Started, WasStarted
<1>2. Started + 1 \in Processes /\ Started + 1 \notin S
  BY <1>1, ClaudeAssumption DEF Processes
<1>3. T = S \cup {Started + 1}
  BY <1>2
<1>6. Started' = Cardinality(T)
  BY DEF Started
<1> HIDE DEF S
<1>4. IsFiniteSet(S)
  <2>1. \A n \in Int : IsFiniteSet(1 .. n)
    BY FS_Interval
  <2> QED BY <1>1, <2>1
<1>5. Cardinality(T) = Cardinality(S) + 1
  BY <1>2, <1>3, <1>4, FS_AddElement
<1>7. Started' = Started + 1
  BY <1>1, <1>5, <1>6
<1>8. T = 1 .. (Started + 1)
  BY <1>1, <1>3, ClaudeAssumption
<1>9. Numbered'
  BY <1>7, <1>8 DEF Numbered, WasStarted
<1> QED BY <1>7, <1>9

LEMMA TranscriptKnownKeeps ==
  ASSUME IInv, TranscriptKnown
  PROVE  IInv'
<1>1. UNCHANGED <<releasing, releaseError, waiter>> /\ op.pc = "transcript"
  BY DEF TranscriptKnown
<1>2. op.pc \notin Waiting /\ entries = 0 /\ Started < MaxStarts /\ op.kind \in {"send", "prepare"}
  BY <1>1 DEF Waiting, IInv, Turns, CallsAreSound, Typed, IsCall
<1>3. CASE EndOp(FALSE) /\ UNCHANGED <<conn, entries>>
  <2>1. Rest
    BY <1>1, <1>3, RestStays
  <2> QED BY <2>1, <1>2, <1>3, EndOpIs, CallEndsAlone DEF IInv
<1>4. CASE ~(EndOp(FALSE) /\ UNCHANGED <<conn, entries>>)
  <2> DEFINE c == Started + 1
             s == [NoProcess EXCEPT !.root = "up", !.by = op.turn,
                                    !.controls = {Initialize}, !.input = <<Initialize>>]
  <2>1. /\ starting /\ entries' = c /\ starting' = starting /\ hist' = hist
        /\ conn' = [conn EXCEPT ![c] = s]
        /\ op' = [op EXCEPT !.pc = "init", !.conn = c]
    BY <1>4 DEF TranscriptKnown
  <2>2. Started \in 0 .. MaxStarts /\ \A d \in Processes : WasStarted(d) <=> d <= Started
    BY OverIsKnown
  <2>3. c \in Processes /\ c # 0 /\ ~WasStarted(c) /\ c <= MaxStarts
    BY <1>2, <2>2, ClaudeAssumption DEF Processes
  <2>4. \A d \in Processes : WasStarted(d) => d < c
    BY <2>2, ClaudeAssumption DEF Processes
  <2>5. op.turn \in 0 .. MaxSends /\ Initialize \in Lines
    BY ControlsDiffer DEF IInv, Typed, IsCall
  <2>6. /\ IsProcess(s) /\ s.root = "up" /\ ~s.kin /\ ~s.closed /\ s.by = op.turn /\ ~s.ending
        /\ s.term = "none" /\ s.controls = {Initialize} /\ s.turn = 0
    BY <2>5, ClaudeAssumption DEF NoProcess, IsProcess
  <2>7. /\ IsCall(op') /\ op'.kind = op.kind /\ op'.pc = "init" /\ op'.turn = op.turn
        /\ op'.conn = c
    BY <2>1, <2>3, ClaudeAssumption DEF IInv, Typed, IsCall, Processes
  <2> HIDE DEF s
  <2>8. DOMAIN conn' = Processes /\ conn'[c] = s /\ \A d \in Processes : d # c => conn'[d] = conn[d]
    BY <2>1, <2>3 DEF IInv, Typed
  <2>9. \A d \in Processes : IsProcess(conn'[d])
    BY <2>6, <2>8 DEF IInv, Typed
  <2>10. Started' = c /\ Numbered'
    <3>1. \A d \in Processes : conn'[d].root # "none" <=> (conn[d].root # "none" \/ d = c)
      BY <2>6, <2>8
    <3> QED BY <3>1, <1>2, OneMoreStarted DEF IInv, Release
  <2> HIDE DEF c
  <2>11. entries' \in 0 .. MaxStarts
    BY <2>1, <2>3, ClaudeAssumption DEF Processes
  <2>12. Typed'
    BY <1>1, <2>1, <2>7, <2>8, <2>9, <2>11 DEF IInv, Typed
  <2>13. ProcessesAreSound'
    <3> SUFFICES ASSUME NEW d \in Processes
                 PROVE  /\ conn'[d].root = "none" => ~conn'[d].kin /\ conn'[d].term = "none"
                        /\ WasStarted(d)' /\ ~conn'[d].closed <=> d = c
                        /\ conn'[d].closed => conn'[d].root = "gone"
                        /\ conn'[d].root = "gone" => conn'[d].term # "none"
                        /\ conn'[d].term = "yes" => ~Alive(d)'
                        /\ conn'[d].ending \/ conn'[d].root = "none" \/ conn'[d].closed =>
                             conn'[d].controls = {} /\ conn'[d].turn = 0
      BY <2>1 DEF ProcessesAreSound
    <3>1. CASE d = c
      BY <3>1, <2>6, <2>8 DEF WasStarted, Alive
    <3>2. CASE d # c
      BY <3>2, <1>2, <2>8, ClaudeAssumption
      DEF WasStarted, Alive, IInv, Release, ProcessesAreSound, Processes
    <3> QED BY <3>1, <3>2
  <2>14. \A d \in Processes : Over(d) => Over(d)'
    BY <2>1, <2>3, <2>8, OverIsKnown DEF Over
  <2>15. \A d \in Processes : conn'[d].closed => conn[d].closed /\ conn'[d] = conn[d]
    BY <2>6, <2>8
  <2>16. ReleasesAreKnown'
    <3>1. \A d \in Processes : conn'[d].closed /\ conn'[d].term # "yes" /\ d \notin hist'.lost => releasing' = d
      BY <1>1, <2>1, <2>15 DEF IInv, Release, ReleasesAreKnown
    <3>2. \A d \in Processes : conn'[d].closed /\ conn'[d].term = "no" => releaseError'
      BY <1>1, <2>15 DEF IInv, Release, ReleasesAreKnown
    <3>3. \A d, e \in Processes : d < e /\ WasStarted(e)' => Over(d)'
      <4> SUFFICES ASSUME NEW d \in Processes, NEW e \in Processes, d < e, WasStarted(e)'
                   PROVE  WasStarted(d)
        BY <1>1, <2>14 DEF IInv, Release, ReleasesAreKnown
      <4>1. e <= c
        BY <2>4, <2>3, <2>8 DEF WasStarted, Processes
      <4>2. d <= Started
        BY <4>1, <2>2 DEF c, Processes
      <4> QED BY <4>2, <2>2
    <3>4. hist'.told <= Started' /\ \A d \in 1 .. hist'.told : Over(d)'
      <4>1. hist.told <= Started /\ hist.told \in 0 .. MaxStarts /\ \A d \in 1 .. hist.told : Over(d)
        BY DEF IInv, Typed, IsHistory, Release, ReleasesAreKnown
      <4>2. hist'.told = hist.told
        BY <2>1
      <4>3. hist.told <= c
        BY <4>1, <2>2, ClaudeAssumption DEF c
      <4> QED BY <4>1, <4>2, <4>3, <2>10, <2>14, ClaudeAssumption DEF Processes
    <3>5. \A w \in Waiters : waiter'[w].pc = "completion" =>
            waiter'[w].upto <= Started' /\ \A d \in 1 .. waiter'[w].upto : conn'[d].closed
      <4> SUFFICES ASSUME NEW w \in Waiters, waiter[w].pc = "completion"
                   PROVE  waiter[w].upto <= Started' /\ \A d \in 1 .. waiter[w].upto : conn'[d].closed
        BY <1>1
      <4>1. waiter[w].upto <= Started /\ waiter[w].upto \in 0 .. MaxStarts
            /\ \A d \in 1 .. waiter[w].upto : conn[d].closed
        BY DEF IInv, Typed, IsWait, Release, ReleasesAreKnown
      <4>2. waiter[w].upto <= c
        BY <4>1, <2>2, ClaudeAssumption DEF c
      <4>3. \A d \in 1 .. waiter[w].upto : d \in Processes /\ d # c
        BY <4>1, <2>2, ClaudeAssumption DEF c, Processes
      <4> QED BY <4>1, <4>2, <4>3, <2>8, <2>10
    <3>6. op'.pc # "transcript"
      BY <2>7
    <3> QED BY <3>1, <3>2, <3>3, <3>4, <3>5, <3>6 DEF ReleasesAreKnown
  <2>17. CallsAreSound'
    BY <1>2, <2>1, <2>3, <2>6, <2>7, <2>8 DEF CallsAreSound, IInv, Turns
  <2>18. ControlsAreOwned'
    <3> SUFFICES ASSUME NEW d \in Processes
                 PROVE  /\ Initialize \in conn'[d].controls <=> d = c
                        /\ SetMode \notin conn'[d].controls
                        /\ \A k \in conn'[d].controls : k = Initialize \/ k.sub = "interrupt"
                        /\ conn'[d].turn = 0
      BY <2>7 DEF ControlsAreOwned
    <3>1. CASE d = c
      BY <3>1, <2>6, <2>8, ControlsDiffer
    <3>2. CASE d # c
      BY <3>2, <1>2, <2>8, NobodyIsAsked DEF IInv, OnlyInterrupts
    <3> QED BY <3>1, <3>2
  <2>19. StopsArrive'
    <3> SUFFICES ASSUME NEW w \in Waiters
                 PROVE  /\ waiter[w].sends <= hist.sends
                        /\ waiter[w].pc \in Stopping =>
                             /\ ~(op.kind = "send" /\ op.turn <= waiter[w].sends)
                             /\ op.turn = 0 \/ op.turn > waiter[w].sends
      BY <1>1, <2>1, <2>6, <2>7, <2>8 DEF StopsArrive, Stopping
    <3>1. waiter[w].sends \in Nat /\ op.turn \in Nat
      BY DEF IInv, Typed, IsWait, IsCall
    <3>2. op.kind = "send" \/ op.turn = 0
      BY <1>2 DEF IInv, Turns, CallsAreSound
    <3>3. waiter[w].sends <= hist.sends
      BY DEF IInv, Turns, StopsArrive
    <3>4. waiter[w].pc \in Stopping => ~(op.kind = "send" /\ op.turn <= waiter[w].sends)
      BY <1>1, <2>1 DEF IInv, Turns, StopsArrive, Stopping
    <3> QED BY <3>1, <3>2, <3>3, <3>4
  <2> QED BY <2>10, <2>12, <2>13, <2>16, <2>17, <2>18, <2>19 DEF IInv, Release, Turns
<1> QED BY <1>3, <1>4

-----------------------------------------------------------------------------
(* The process in `entries` closes, and its tree is known to be gone or not. *)

LEMMA ClosesKeeps ==
  ASSUME IInv, NEW c \in Processes, Closes(c)
  PROVE  IInv'
<1> DEFINE r == conn[c]
           s == [NoProcess EXCEPT !.root = "gone", !.kin = r.kin, !.closed = TRUE,
                                  !.term = r.term, !.ending = r.ending \/ Initialize \in r.controls,
                                  !.tasks = r.tasks /\ r.turn = 0]
<1>1. /\ entries = c /\ entries' = 0 /\ r.root = "gone" /\ ~r.closed
      /\ conn' = [conn EXCEPT ![c] = s] /\ waiter' = waiter
      /\ releasing' = IF r.term = "yes" THEN 0 ELSE c
  BY DEF Closes
<1>2. /\ releaseError' \in BOOLEAN
      /\ releaseError => releaseError'
      /\ r.term = "no" => releaseError'
  BY DEF Closes, IInv, Typed
<1>3. IF WaitsFor(c) THEN EndOp(FALSE) ELSE starting' = FALSE /\ UNCHANGED <<op, hist>>
  BY DEF Closes
<1>4. IsProcess(r) /\ r.term # "none" /\ (r.term = "yes" => ~r.kin) /\ c # 0
  BY <1>1, ClaudeAssumption DEF IInv, Typed, Release, ProcessesAreSound, Alive, Processes
<1>5. (r.ending \/ Initialize \in r.controls) \in BOOLEAN /\ r.ending \in BOOLEAN
  BY <1>4 DEF IsProcess
<1>6. /\ IsProcess(s) /\ s.root = "gone" /\ s.kin = r.kin /\ s.closed /\ s.by = 0
      /\ s.term = r.term /\ s.controls = {} /\ s.turn = 0 /\ (r.ending => s.ending)
  <2>1. /\ s.root = "gone" /\ s.kin = r.kin /\ s.closed = TRUE /\ s.by = 0
        /\ s.term = r.term /\ s.controls = {} /\ s.turn = 0
        /\ s.ending = (r.ending \/ Initialize \in r.controls)
        /\ DOMAIN s = DOMAIN NoProcess
    BY DEF NoProcess
  <2>2. s.ending \in BOOLEAN /\ (r.ending => s.ending)
    BY <2>1, <1>5
  <2>3. 0 \in 0 .. MaxSends
    BY ClaudeAssumption
  <2> HIDE DEF s
  <2>4. DOMAIN s =
       {"root", "kin", "closed", "by", "ending", "term", "controls", "ready", "turn", "interrupted",
        "timer", "approval", "tasks", "waiting", "background", "input", "out", "work", "task", "asking"}
    BY <2>1 DEF NoProcess
  <2>5. r.kin \in BOOLEAN /\ r.term \in {"none", "due", "yes", "no"}
    BY <1>4 DEF IsProcess
  <2>6. IsProcess(s)
    BY <2>1, <2>2, <2>3, <2>4, <2>5 DEF IsProcess
  <2> QED BY <2>1, <2>2, <2>6
<1> HIDE DEF s
<1>7. DOMAIN conn' = Processes /\ conn'[c] = s /\ \A d \in Processes : d # c => conn'[d] = conn[d]
  BY <1>1 DEF IInv, Typed
<1>9. \A d \in Processes : OnlyInterrupts(conn'[d]) /\ conn'[d].turn = 0
  BY <1>1, <1>6, <1>7, TheOtherIsNotAsked DEF IInv, OnlyInterrupts
<1>10. Started' = Started /\ Numbered'
  BY <1>1, <1>6, <1>7, StartedStays DEF IInv, Release
<1>11. ProcessesAreSound'
  <2> SUFFICES ASSUME NEW d \in Processes
               PROVE  /\ conn'[d].root = "none" => ~conn'[d].kin /\ conn'[d].term = "none"
                      /\ ~(WasStarted(d)' /\ ~conn'[d].closed)
                      /\ conn'[d].closed => conn'[d].root = "gone"
                      /\ conn'[d].root = "gone" => conn'[d].term # "none"
                      /\ conn'[d].term = "yes" => ~Alive(d)'
                      /\ conn'[d].ending \/ conn'[d].root = "none" \/ conn'[d].closed =>
                           conn'[d].controls = {} /\ conn'[d].turn = 0
    BY <1>1, ClaudeAssumption DEF ProcessesAreSound, Processes
  <2>1. CASE d = c
    BY <2>1, <1>4, <1>6, <1>7 DEF WasStarted, Alive
  <2>2. CASE d # c
    BY <2>2, <1>1, <1>7 DEF WasStarted, Alive, IInv, Release, ProcessesAreSound
  <2> QED BY <2>1, <2>2
<1>12. IsCall(op') /\ starting' = FALSE /\ IsHistory(hist') /\ SameHistory
       /\ op'.pc \notin Waiting /\ (OpEnds \/ op' = op)
  <2>1. CASE WaitsFor(c)
    <3>1. OpEnds
      BY <1>3, <2>1, EndOpIs DEF IInv
    <3> QED BY <3>1 DEF OpEnds, Waiting
  <2>2. CASE ~WaitsFor(c)
    <3>1. op.pc \notin Waiting
      BY <2>2, <1>1 DEF WaitsFor, Waiting, IInv, Turns, CallsAreSound
    <3> QED BY <1>3, <2>2, <3>1 DEF SameHistory, IInv, Typed
  <2> QED BY <2>1, <2>2
<1>13. op'.pc # "transcript"
  BY <1>1, <1>4, <1>12 DEF OpEnds, IInv, Turns, CallsAreSound
<1>14. \A d \in Processes : Over(d) => Over(d)' /\ d # c
  BY <1>1, <1>7, <1>12 DEF Over, SameHistory
<1>15. \A d \in Processes : conn[d].closed => conn'[d].closed
  BY <1>6, <1>7
<1>16. \A d \in Processes : d # c => (conn[d].closed => Over(d))
  <2> SUFFICES ASSUME NEW d \in Processes, d # c, conn[d].closed
               PROVE  Over(d)
    OBVIOUS
  <2>1. WasStarted(d) /\ WasStarted(c)
    BY <1>1, OverIsKnown DEF WasStarted
  <2>2. CASE d < c
    BY <2>1, <2>2 DEF IInv, Release, ReleasesAreKnown
  <2>3. CASE c < d
    BY <2>1, <2>3, <1>1 DEF IInv, Release, ReleasesAreKnown, Over
  <2> QED BY <2>2, <2>3 DEF Processes
<1>17. ReleasesAreKnown'
  <2>1. \A d \in Processes : conn'[d].closed /\ conn'[d].term # "yes" /\ d \notin hist'.lost => releasing' = d
    BY <1>1, <1>6, <1>7, <1>12, <1>16 DEF Over, SameHistory
  <2>2. \A d \in Processes : conn'[d].closed /\ conn'[d].term = "no" => releaseError'
    BY <1>2, <1>6, <1>7 DEF IInv, Release, ReleasesAreKnown
  <2>3. \A d, e \in Processes : d < e /\ WasStarted(e)' => Over(d)'
    BY <1>1, <1>7, <1>14 DEF IInv, Release, ReleasesAreKnown, WasStarted
  <2>4. hist'.told <= Started' /\ \A d \in 1 .. hist'.told : Over(d)'
    <3>1. 1 .. hist.told \subseteq Processes
      BY ClaudeAssumption DEF IInv, Typed, IsHistory, Processes
    <3> QED BY <3>1, <1>10, <1>12, <1>14 DEF IInv, Release, ReleasesAreKnown, SameHistory
  <2>5. \A w \in Waiters : waiter'[w].pc = "completion" =>
          waiter'[w].upto <= Started' /\ \A d \in 1 .. waiter'[w].upto : conn'[d].closed
    <3> SUFFICES ASSUME NEW w \in Waiters, waiter[w].pc = "completion"
                 PROVE  waiter[w].upto <= Started' /\ \A d \in 1 .. waiter[w].upto : conn'[d].closed
      BY <1>1
    <3>1. 1 .. waiter[w].upto \subseteq Processes
      BY ClaudeAssumption DEF IInv, Typed, IsWait, Processes
    <3> QED BY <3>1, <1>10, <1>15 DEF IInv, Release, ReleasesAreKnown
  <2> QED BY <1>13, <2>1, <2>2, <2>3, <2>4, <2>5 DEF ReleasesAreKnown
<1>18. Typed'
  <2>1. \A d \in Processes : IsProcess(conn'[d])
    BY <1>6, <1>7 DEF IInv, Typed
  <2>2. entries' \in 0 .. MaxStarts /\ releasing' \in 0 .. MaxStarts
    BY <1>1, ClaudeAssumption DEF Processes
  <2>3. waiter' = waiter /\ starting' \in BOOLEAN
    BY <1>1, <1>12
  <2> QED BY <1>2, <1>7, <1>12, <2>1, <2>2, <2>3 DEF IInv, Typed
<1>19. CallsAreSound'
  <2>1. CASE OpEnds
    BY <2>1 DEF CallsAreSound, OpEnds, SameHistory, IsHistory
  <2>2. CASE op' = op
    BY <2>2, <1>10, <1>12, <1>13 DEF CallsAreSound, IInv, Turns, SameHistory, Waiting
  <2> QED BY <1>12, <2>1, <2>2
<1>20. ControlsAreOwned'
  BY <1>9, <1>12 DEF ControlsAreOwned, OnlyInterrupts, Waiting
<1>21. StopsArrive'
  <2> SUFFICES ASSUME NEW w \in Waiters
               PROVE  /\ waiter[w].sends <= hist.sends
                      /\ waiter[w].pc \in Stopping /\ op'.kind = "send" /\ op'.turn <= waiter[w].sends =>
                           \/ op'.pc = "hydrate" /\ op'.cancelled
                           \/ op'.pc = "transcript" /\ ~starting'
    BY <1>1, <1>12 DEF StopsArrive, Stopping, SameHistory
  <2>1. CASE OpEnds
    BY <2>1 DEF OpEnds, IInv, Turns, StopsArrive
  <2>2. CASE op' = op
    BY <2>2, <1>12 DEF IInv, Turns, StopsArrive, Stopping
  <2> QED BY <1>12, <2>1, <2>2
<1> QED BY <1>10, <1>11, <1>17, <1>18, <1>19, <1>20, <1>21 DEF IInv, Release, Turns

LEMMA TermEndsKeeps ==
  ASSUME IInv, NEW c \in Processes, TermEnds(c)
  PROVE  IInv'
<1>1. UNCHANGED <<entries, starting, op, waiter, hist>> /\ conn[c].term = "due"
  BY DEF TermEnds
<1>2. PICK t \in {"yes", "no"} : conn' = [conn EXCEPT ![c].term = t] /\ (t = "yes" => ~Alive(c))
  BY DEF TermEnds
<1> DEFINE s == [conn[c] EXCEPT !.term = t]
<1>3. IsProcess(conn[c])
  BY DEF IInv, Typed
<1>4. /\ IsProcess(s) /\ s.root = conn[c].root /\ s.kin = conn[c].kin /\ s.closed = conn[c].closed
      /\ s.by = conn[c].by /\ s.ending = conn[c].ending /\ s.turn = conn[c].turn
      /\ s.controls = conn[c].controls /\ s.term = t
  BY <1>3 DEF IsProcess
<1>5. conn' = [conn EXCEPT ![c] = s]
  BY <1>2
<1> HIDE DEF s
<1>6. DOMAIN conn' = Processes /\ conn'[c] = s /\ \A d \in Processes : d # c => conn'[d] = conn[d]
  BY <1>5 DEF IInv, Typed
<1>7. IF conn[c].closed
        THEN /\ releasing' = IF t = "yes" /\ releasing = c THEN 0 ELSE releasing
             /\ releaseError' = (releaseError \/ ~(t = "yes"))
        ELSE UNCHANGED <<releasing, releaseError>>
  BY <1>4, <1>6 DEF TermEnds
<1>8. /\ releaseError' \in BOOLEAN /\ releasing' \in 0 .. MaxStarts
      /\ releaseError => releaseError'
      /\ conn[c].closed /\ t = "no" => releaseError'
      /\ releasing' = releasing \/ (releasing' = 0 /\ t = "yes" /\ releasing = c)
  <2>1. releaseError \in BOOLEAN /\ releasing \in 0 .. MaxStarts /\ 0 \in 0 .. MaxStarts
    BY ClaudeAssumption DEF IInv, Typed
  <2>2. CASE conn[c].closed
    <3>1. releaseError' = (releaseError \/ ~(t = "yes"))
      BY <1>7, <2>2
    <3>2. releaseError' \in BOOLEAN /\ (releaseError => releaseError') /\ (t = "no" => releaseError')
      BY <3>1
    <3>3. releasing' = IF t = "yes" /\ releasing = c THEN 0 ELSE releasing
      BY <1>7, <2>2
    <3> QED BY <2>1, <3>2, <3>3
  <2>3. CASE ~conn[c].closed
    <3>1. UNCHANGED <<releasing, releaseError>>
      BY <1>7, <2>3
    <3> QED BY <2>1, <2>3, <3>1
  <2> QED BY <2>2, <2>3
<1>9. Started' = Started /\ Numbered'
  BY <1>4, <1>6, StartedStays DEF IInv, Release
<1>10. Typed'
  <2>1. \A d \in Processes : IsProcess(conn'[d])
    BY <1>4, <1>6 DEF IInv, Typed
  <2> QED BY <1>1, <1>6, <1>8, <2>1 DEF IInv, Typed
<1>11. ProcessesAreSound'
  <2>1. conn[c].root # "none"
    BY <1>1 DEF IInv, Release, ProcessesAreSound
  <2> SUFFICES ASSUME NEW d \in Processes
               PROVE  /\ conn'[d].root = "none" => ~conn'[d].kin /\ conn'[d].term = "none"
                      /\ WasStarted(d)' /\ ~conn'[d].closed <=> entries = d
                      /\ conn'[d].closed => conn'[d].root = "gone"
                      /\ conn'[d].root = "gone" => conn'[d].term # "none"
                      /\ conn'[d].term = "yes" => ~Alive(d)'
                      /\ conn'[d].ending \/ conn'[d].root = "none" \/ conn'[d].closed =>
                           conn'[d].controls = {} /\ conn'[d].turn = 0
    BY <1>1 DEF ProcessesAreSound
  <2>2. CASE d = c
    BY <2>1, <2>2, <1>2, <1>4, <1>6 DEF WasStarted, Alive, IInv, Release, ProcessesAreSound
  <2>3. CASE d # c
    BY <2>3, <1>6 DEF WasStarted, Alive, IInv, Release, ProcessesAreSound
  <2> QED BY <2>2, <2>3
<1>12. \A d \in Processes : Over(d) => Over(d)'
  BY <1>1, <1>4, <1>6 DEF Over
<1>13. ReleasesAreKnown'
  <2>1. \A d \in Processes : conn'[d].closed /\ conn'[d].term # "yes" /\ d \notin hist'.lost => releasing' = d
    BY <1>1, <1>4, <1>6, <1>8 DEF IInv, Release, ReleasesAreKnown
  <2>2. \A d \in Processes : conn'[d].closed /\ conn'[d].term = "no" => releaseError'
    BY <1>4, <1>6, <1>8 DEF IInv, Release, ReleasesAreKnown
  <2>3. \A d, e \in Processes : d < e /\ WasStarted(e)' => Over(d)'
    BY <1>4, <1>6, <1>12 DEF IInv, Release, ReleasesAreKnown, WasStarted
  <2>4. op'.pc = "transcript" => \A d \in Processes : WasStarted(d)' => Over(d)'
    BY <1>1, <1>4, <1>6, <1>12 DEF IInv, Release, ReleasesAreKnown, WasStarted
  <2>5. hist'.told <= Started' /\ \A d \in 1 .. hist'.told : Over(d)'
    <3>1. 1 .. hist.told \subseteq Processes
      BY ClaudeAssumption DEF IInv, Typed, IsHistory, Processes
    <3> QED BY <3>1, <1>1, <1>9, <1>12 DEF IInv, Release, ReleasesAreKnown
  <2>6. \A w \in Waiters : waiter'[w].pc = "completion" =>
          waiter'[w].upto <= Started' /\ \A d \in 1 .. waiter'[w].upto : conn'[d].closed
    <3> SUFFICES ASSUME NEW w \in Waiters, waiter[w].pc = "completion"
                 PROVE  waiter[w].upto <= Started' /\ \A d \in 1 .. waiter[w].upto : conn'[d].closed
      BY <1>1
    <3>1. 1 .. waiter[w].upto \subseteq Processes
      BY ClaudeAssumption DEF IInv, Typed, IsWait, Processes
    <3> QED BY <3>1, <1>4, <1>6, <1>9 DEF IInv, Release, ReleasesAreKnown
  <2> QED BY <2>1, <2>2, <2>3, <2>4, <2>5, <2>6 DEF ReleasesAreKnown
<1>14. \A d \in Processes : SameTurn(conn[d], conn'[d])
  BY <1>4, <1>6 DEF SameTurn
<1>15. StopsStay
  BY <1>1 DEF StopsStay, IInv, Turns, StopsArrive
<1>16. Turns'
  BY <1>1, <1>9, <1>14, <1>15, TurnsStay DEF IInv
<1> QED BY <1>9, <1>10, <1>11, <1>13, <1>16 DEF IInv, Release

-----------------------------------------------------------------------------
(* stopAndWait, stopIdle, interruptAndWait, shutdown.                      *)

\* stopAndWait() marks the process it waits for and stops the call.
LEMMA StopAndWaitKeeps ==
  ASSUME IInv, NEW w \in Waiters, NEW kind, StopAndWait(w, kind),
         UNCHANGED <<entries, releaseError>>
  PROVE  IInv'
<1> DEFINE entry == IF entries # 0 THEN entries ELSE releasing
           x == [kind |-> kind, pc |-> IF entry = 0 THEN "poll" ELSE "entry", entry |-> entry,
                 sends |-> hist.sends, upto |-> 0, completion |-> 0]
<1>1. /\ releasing' = releasing \/ (entries # 0 /\ releasing' = entries)
      /\ StopEffect(conn) /\ waiter' = [waiter EXCEPT ![w] = x]
  BY DEF StopAndWait
<1>2. entry \in 0 .. MaxStarts /\ hist.sends \in 0 .. MaxSends /\ 0 \in 0 .. MaxStarts
  BY ClaudeAssumption DEF IInv, Typed, IsHistory
<1>3. IsWait(x) /\ x.pc # "completion" /\ x.sends = hist.sends
  BY <1>2 DEF IsWait
<1> HIDE DEF x
<1>4. DOMAIN waiter' = Waiters /\ waiter'[w] = x /\ \A v \in Waiters : v # w => waiter'[v] = waiter[v]
  BY <1>1 DEF IInv, Typed
<1>5. \A v \in Waiters : IsWait(waiter'[v])
  BY <1>3, <1>4 DEF IInv, Typed
<1>6. /\ Writes /\ Persists /\ Quiets /\ IsStopped
      /\ CallsAreSound' /\ ControlsAreOwned'
      /\ op'.pc = "transcript" => op.pc = "transcript"
  BY <1>1, LikeItself, StopIs DEF IInv
<1>7. \A v \in Waiters : waiter'[v].sends <= hist'.sends
  BY <1>2, <1>3, <1>4, <1>6 DEF Writes, SameHistory, IInv, Turns, StopsArrive
<1>8. StopsArrive'
  BY <1>6, <1>7, StoppedArrives DEF IInv
<1>9. WaitersStay
  BY <1>3, <1>4 DEF WaitersStay
<1>10. Release'
  BY <1>1, <1>6, <1>9, ReleaseStays DEF IInv, Writes, SameHistory
<1>11. releasing' \in 0 .. MaxStarts
  BY <1>1 DEF IInv, Typed
<1>12. Typed'
  BY <1>4, <1>5, <1>6, <1>11 DEF IInv, Typed, Writes
<1> QED BY <1>6, <1>8, <1>10, <1>12 DEF IInv, Turns

LEMMA StopActionKeeps ==
  ASSUME IInv, NEW w \in Waiters, Stop(w)
  PROVE  IInv'
<1>1. PICK kind \in {"stop", "all"} : StopAndWait(w, kind)
  BY DEF Stop
<1>2. UNCHANGED <<entries, releaseError>>
  BY DEF Stop
<1> QED BY <1>1, <1>2, StopAndWaitKeeps

LEMMA InterruptDoneKeeps ==
  ASSUME IInv, NEW w \in Waiters, InterruptDone(w)
  PROVE  IInv'
<1>1. StopAndWait(w, "interrupt") /\ UNCHANGED <<entries, releaseError>>
  BY DEF InterruptDone
<1> QED BY <1>1, StopAndWaitKeeps

\* A call becomes one that waits for no release yet.
LEMMA WaitsElsewhere ==
  ASSUME IInv, NEW w \in Waiters, NEW x, IsWait(x), x.pc \notin Stopping, x.sends <= hist.sends,
         waiter' = [waiter EXCEPT ![w] = x], UNCHANGED <<entries, releaseError>>,
         releasing' = releasing \/ (entries # 0 /\ releasing' = entries)
  PROVE  Rest
<1>1. DOMAIN waiter' = Waiters /\ waiter'[w] = x /\ \A v \in Waiters : v # w => waiter'[v] = waiter[v]
  BY DEF IInv, Typed
<1>2. \A v \in Waiters : IsWait(waiter'[v])
  BY <1>1 DEF IInv, Typed
<1>3. WaitersStay
  BY <1>1 DEF WaitersStay, Stopping
<1>4. StopsStay
  BY <1>1 DEF StopsStay, IInv, Turns, StopsArrive
<1> QED BY <1>1, <1>2, <1>3, <1>4 DEF Rest

LEMMA InterruptAndWaitKeeps ==
  ASSUME IInv, NEW w \in Waiters, InterruptAndWait(w)
  PROVE  IInv'
<1>1. /\ InterruptEffect /\ UNCHANGED <<entries, releaseError>>
      /\ releasing' = IF entries # 0 THEN entries ELSE releasing
  BY DEF InterruptAndWait
<1>2. PICK pc \in {"failed", "asked", "busy"} :
        waiter' = [waiter EXCEPT ![w] = [kind |-> "interrupt", entry |-> releasing', sends |-> hist.sends,
                                         upto |-> 0, completion |-> 0, pc |-> pc]]
  BY DEF InterruptAndWait
<1> DEFINE x == [kind |-> "interrupt", entry |-> releasing', sends |-> hist.sends,
                 upto |-> 0, completion |-> 0, pc |-> pc]
<1>3. releasing' \in 0 .. MaxStarts /\ hist.sends \in 0 .. MaxSends /\ 0 \in 0 .. MaxStarts
  BY <1>1, ClaudeAssumption DEF IInv, Typed, IsHistory
<1>4. IsWait(x) /\ x.pc \notin Stopping /\ x.sends <= hist.sends
  BY <1>3 DEF IsWait, Stopping
<1>5. waiter' = [waiter EXCEPT ![w] = x]
  BY <1>2
<1> HIDE DEF x
<1>6. Rest
  BY <1>1, <1>4, <1>5, WaitsElsewhere
<1> QED BY <1>1, <1>6, InterruptEffectKeeps

LEMMA ShutdownKeeps ==
  ASSUME IInv, NEW w \in Waiters, Shutdown(w)
  PROVE  IInv'
<1> DEFINE x == [waiter[w] EXCEPT !.kind = "exit", !.pc = "entries"]
<1>1. StopEffect(conn) /\ UNCHANGED <<entries, releasing, releaseError>>
  BY DEF Shutdown
<1>2. waiter' = [waiter EXCEPT ![w] = x]
  BY DEF Shutdown, IInv, Typed
<1>3. IsWait(waiter[w]) /\ waiter[w].sends <= hist.sends
  BY DEF IInv, Typed, Turns, StopsArrive
<1>4. IsWait(x) /\ x.pc \notin Stopping /\ x.sends <= hist.sends
  BY <1>3 DEF IsWait, Stopping
<1> HIDE DEF x
<1>5. Rest
  BY <1>1, <1>2, <1>4, WaitsElsewhere
<1> QED BY <1>1, <1>5, LikeItself, StopKeeps

LEMMA ShutdownLooksKeeps ==
  ASSUME IInv, NEW w \in Waiters, ShutdownLooks(w)
  PROVE  IInv'
<1>1. Goes(w, "trees") /\ UNCHANGED <<entries, releasing, releaseError, starting, op, hist>>
  BY DEF ShutdownLooks
<1>2. /\ DOMAIN waiter' = Waiters /\ \A v \in Waiters : IsWait(waiter'[v])
      /\ waiter'[w].pc = "trees" /\ \A v \in Waiters : v # w => waiter'[v] = waiter[v]
      /\ StopsStay
  BY <1>1, GoesIs DEF Stopping
<1>3. Rest /\ OpStays
  BY <1>1, <1>2 DEF Rest, WaitersStay, OpStays, SameHistory, IInv, Typed
<1>4. CASE entries # 0 /\ conn[entries].root = "up"
  <2>1. entries \in Processes
    BY <1>4, ClaudeAssumption DEF IInv, Typed, Processes
  <2>2. \E kin \in BOOLEAN : conn' = [conn EXCEPT ![entries] = Exited(conn[entries], kin)]
    BY <1>4 DEF ShutdownLooks
  <2> QED BY <1>3, <1>4, <2>1, <2>2, ExitKeeps
<1>5. CASE ~(entries # 0 /\ conn[entries].root = "up")
  <2>1. conn' = conn
    BY <1>5 DEF ShutdownLooks
  <2> QED BY <1>3, <2>1, NothingHappens
<1> QED BY <1>4, <1>5

-----------------------------------------------------------------------------
(* The invariant.                                                          *)

LEMMA ProcessStepKeeps ==
  ASSUME IInv, NEW c \in Processes, ProcessStep(c)
  PROVE  IInv'
BY ReceiveKeeps, ControlTimeoutKeeps, InterruptTimeoutKeeps, BackgroundTimeoutKeeps, RootExitsKeeps,
   ClosesKeeps, TermEndsKeeps, CliReadsKeeps, CliWorksKeeps, KinKeeps DEF ProcessStep

LEMMA WaiterStepKeeps ==
  ASSUME IInv, NEW w \in Waiters, Stop(w) \/ InterruptAndWait(w) \/ Shutdown(w) \/ WaiterStep(w)
  PROVE  IInv'
BY StopActionKeeps, InterruptAndWaitKeeps, ShutdownKeeps, InterruptSettledKeeps, InterruptDoneKeeps,
   EntryGoneKeeps, PollKeeps, ReleasedKeeps, DrainedKeeps, ShutdownLooksKeeps, ShutdownEndsKeeps
DEF WaiterStep

LEMMA StutterKeeps ==
  ASSUME IInv, UNCHANGED vars
  PROVE  IInv'
<1>1. UNCHANGED <<entries, releasing, releaseError, starting, op, conn, waiter, hist>>
  BY DEF vars
<1>2. Rest /\ OpStays
  BY <1>1, RestStays DEF OpStays, SameHistory, IInv, Typed
<1> QED BY <1>1, <1>2, NothingHappens

LEMMA NextKeeps ==
  ASSUME IInv, [Next]_vars
  PROVE  IInv'
<1>1. CASE Send \/ Prepare \/ Hydrated \/ TranscriptKnown
  BY <1>1, SendKeeps, PrepareKeeps, HydratedKeeps, TranscriptKnownKeeps
<1>2. CASE Respond \/ HistoryFails \/ Interrupt \/ Configure \/ ConfigEnds
  BY <1>2, RespondKeeps, HistoryFailsKeeps, InterruptKeeps, ConfigureKeeps, ConfigEndsKeeps
<1>3. CASE \E c \in Processes : ProcessStep(c)
  BY <1>3, ProcessStepKeeps
<1>4. CASE \E w \in Waiters : Stop(w) \/ InterruptAndWait(w) \/ Shutdown(w) \/ WaiterStep(w)
  BY <1>4, WaiterStepKeeps
<1>5. CASE UNCHANGED vars
  BY <1>5, StutterKeeps
<1> QED BY <1>1, <1>2, <1>3, <1>4, <1>5 DEF Next

\* What the processes, calls and answers of the runtime are in every state.
THEOREM RuntimeIsSound == Spec => []IInv
<1>1. Init => IInv
  BY InitIs
<1>2. IInv /\ [Next]_vars => IInv'
  BY NextKeeps
<1> QED BY <1>1, <1>2, PTL DEF Spec

\* A message waits for its result exactly as long as a process that is not told to
\* end has its turn: TurnsAreOwned in every state of the runtime.
THEOREM TurnsAreAlwaysOwned == Spec => []TurnsAreOwned
<1>1. IInv => TurnsAreOwned
  BY DEF IInv, Turns, CallsAreSound, ControlsAreOwned, TurnsAreOwned
<1> QED BY <1>1, RuntimeIsSound, PTL

\* What is said to be released is, no two processes live at a time, and what a stop
\* met is over: ReleaseIsComplete in every state of the runtime.
THEOREM ReleasesAreComplete == Spec => []ReleaseIsComplete
<1>1. IInv => ReleaseIsComplete
  <2> SUFFICES ASSUME IInv
               PROVE  ReleaseIsComplete
    OBVIOUS
  <2>1. \A c \in Processes : Over(c) /\ c \notin hist.lost => ~Alive(c)
    BY DEF Over, IInv, Release, ProcessesAreSound
  <2>2. ASSUME NEW c \in (1 .. hist.told) \ hist.lost
        PROVE  ~Alive(c)
    <3>1. c \in Processes
      BY ClaudeAssumption DEF IInv, Typed, IsHistory, Processes
    <3> QED BY <3>1, <2>1 DEF IInv, Release, ReleasesAreKnown
  <2>3. ASSUME NEW c \in Processes \ hist.lost, NEW d \in Processes \ hist.lost, Alive(c), Alive(d)
        PROVE  c = d
    <3>1. WasStarted(c) /\ WasStarted(d)
      BY <2>3 DEF WasStarted, Alive, IInv, Release, ProcessesAreSound
    <3>2. ~Over(c) /\ ~Over(d)
      BY <2>1, <2>3
    <3>3. ~(c < d) /\ ~(d < c)
      BY <3>1, <3>2 DEF IInv, Release, ReleasesAreKnown
    <3> QED BY <3>3 DEF Processes
  <2>4. ASSUME NEW w \in Waiters, waiter[w].pc \in {"poll", "completion"}
        PROVE  /\ op.pc = "result" => op.turn > waiter[w].sends
               /\ entries # 0 /\ ~conn[entries].ending =>
                    conn[entries].by = 0 \/ conn[entries].by > waiter[w].sends
    <3>1. op.pc = "result" => op.kind = "send"
      BY DEF IInv, Typed, IsCall, Turns, CallsAreSound
    <3>2. op.turn \in Nat /\ waiter[w].sends \in Nat
      BY DEF IInv, Typed, IsCall, IsWait
    <3>3. op.pc = "result" => ~(op.turn <= waiter[w].sends)
      BY <2>4, <3>1 DEF IInv, Turns, StopsArrive
    <3>4. entries # 0 /\ ~conn[entries].ending =>
            conn[entries].by = 0 \/ conn[entries].by > waiter[w].sends
      BY <2>4 DEF IInv, Turns, StopsArrive
    <3> QED BY <3>2, <3>3, <3>4
  <2> QED BY <2>2, <2>3, <2>4 DEF ReleaseIsComplete
<1> QED BY <1>1, RuntimeIsSound, PTL
-----------------------------------------------------------------------------
(* The pipes: what the CLI has to read and has said.                       *)

Frames == [sub : {"reply", "ask", "task", "taskdone", "result", "bad"}, control : Lines, ok : BOOLEAN]

IsPipe(r) ==
  /\ r.input \in Seq(Lines) /\ r.out \in Seq(Frames)
  /\ \A k \in DOMAIN r.input : r.input[k].sub = "user" => r.input[k].turn # 0
  /\ r.work = 0 => r.task = "none"

\* Whoever has read r.out up to before its place k believes that a background task runs.
Believed(r, k) ==
  \/ r.tasks /\ \A i \in DOMAIN r.out : i < k => r.out[i].sub # "taskdone"
  \/ \E i \in DOMAIN r.out :
       /\ i < k /\ r.out[i].sub = "task"
       /\ \A n \in DOMAIN r.out : i < n /\ n < k => r.out[n].sub # "taskdone"

\* The CLI is asked for turn t alone, and what it says of a success is true of t: the
\* turn is done, or it is known at that place that a task of it runs.
Tells(r, t, done) ==
  /\ \A k \in DOMAIN r.input : r.input[k].sub = "user" => r.input[k].turn = t
  /\ r.work # 0 => r.work = t
  /\ r.task \in {"running", "reported"} => Believed(r, Len(r.out) + 1)
  /\ \A k \in DOMAIN r.out : r.out[k].sub = "result" /\ r.out[k].ok => done = t \/ Believed(r, k)

\* A message that was stopped is not yet at the CLI, and will not get there; none has
\* been answered while it waits; and to that which waits for its result the CLI tells
\* the truth.
PipeInv ==
  /\ \A c \in Processes : IsPipe(conn[c])
  /\ op.kind = "send" /\ op.cancelled => op.pc = "hydrate" \/ (op.pc = "transcript" /\ ~starting)
  /\ op.kind = "send" => ~hist.success
  /\ op.pc = "result" /\ ~op.behind => Tells(conn[op.conn], op.turn, hist.done)

\* AnswersAreTrue of one step.
AnswerIsTrue ==
  op.kind = "send" =>
    /\ op'.turn # op.turn /\ hist'.success => hist.done = op.turn \/ op.behind
    /\ op.pc # "result" /\ op.cancelled => op'.pc # "result"

-----------------------------------------------------------------------------
(* Steps that leave what the CLI tells, or end the call that hears it.     *)

Carries(r, s) == \A t, done : Tells(r, t, done) => Tells(s, t, done)
\* The pipe is the same.
SamePipe(r, s) ==
  s.input = r.input /\ s.out = r.out /\ s.work = r.work /\ s.task = r.task /\ s.tasks = r.tasks
\* Nothing is left in it.
Emptied(s) == s.input = <<>> /\ s.out = <<>> /\ s.work = 0 /\ s.task = "none"

LEMMA SamePipeCarries ==
  ASSUME NEW r, NEW s, IsPipe(r), SamePipe(r, s)
  PROVE  IsPipe(s) /\ Carries(r, s)
BY DEF IsPipe, SamePipe, Carries, Tells, Believed

LEMMA EmptiedCarries ==
  ASSUME NEW r, NEW s, Emptied(s)
  PROVE  IsPipe(s) /\ Carries(r, s)
<1>1. <<>> \in Seq(Lines) /\ <<>> \in Seq(Frames) /\ DOMAIN <<>> = {}
  OBVIOUS
<1> QED BY <1>1 DEF IsPipe, Emptied, Carries, Tells

\* The call that holds `busy` is as it was, or is told to stop where it can, or ends
\* without a success.
PipesHold == \A c \in Processes : IsPipe(conn'[c])
CallHolds ==
  /\ op' = op /\ (starting' => starting) /\ hist'.success = hist.success
  /\ hist'.done = hist.done \/ hist'.done = op.turn
CallStops ==
  /\ op.pc \notin {"init", "result"} /\ op' = [op EXCEPT !.cancelled = busy]
  /\ starting' = FALSE /\ hist' = hist
CallFails == op'.kind = "none" /\ op'.pc = "none" /\ ~hist'.success

\* What a step does to the invariant and to the answer.
Sound == PipeInv' /\ AnswerIsTrue

LEMMA DoneIsTold ==
  ASSUME NEW r, NEW t, NEW done, Tells(r, t, done)
  PROVE  Tells(r, t, t)
BY DEF Tells

LEMMA HoldsIsSound ==
  ASSUME IInv, PipeInv, PipesHold, CallHolds, op.pc = "result" => Carries(conn[op.conn], conn'[op.conn])
  PROVE  Sound
<1>1. op.pc = "result" /\ ~op.behind => Tells(conn'[op.conn], op.turn, hist'.done)
  BY DoneIsTold DEF PipeInv, CallHolds, Carries
<1>2. PipeInv'
  BY <1>1 DEF PipeInv, CallHolds, PipesHold
<1> QED BY <1>2 DEF Sound, AnswerIsTrue, CallHolds

LEMMA StopsIsSound ==
  ASSUME IInv, PipeInv, PipesHold, CallStops
  PROVE  Sound
<1>1. /\ op'.kind = op.kind /\ op'.pc = op.pc /\ op'.turn = op.turn
      /\ op.kind = "send" => op.pc \in {"hydrate", "transcript"}
      /\ op.pc # "result"
  BY DEF CallStops, IInv, Typed, IsCall, Turns, CallsAreSound
<1>2. PipeInv'
  BY <1>1 DEF PipeInv, CallStops, PipesHold
<1> QED BY <1>1, <1>2 DEF Sound, AnswerIsTrue, PipeInv

LEMMA FailsIsSound ==
  ASSUME PipesHold, CallFails
  PROVE  Sound
BY DEF PipesHold, CallFails, PipeInv, Sound, AnswerIsTrue

LEMMA EndOpFails ==
  ASSUME IInv, NEW success, EndOp(success), ~success \/ op.kind # "send"
  PROVE  CallFails
BY DEF EndOp, NoOp, CallFails, IInv, Typed, IsHistory

\* A step that changes one process.
LEMMA OnePipe ==
  ASSUME IInv, PipeInv, NEW c \in Processes, NEW s, IsPipe(s), conn' = [conn EXCEPT ![c] = s]
  PROVE  /\ PipesHold /\ conn'[c] = s
         /\ Carries(conn[c], s) => \A d \in Processes : Carries(conn[d], conn'[d])
<1>1. conn'[c] = s /\ \A d \in Processes : d # c => conn'[d] = conn[d]
  BY DEF IInv, Typed
<1> QED BY <1>1 DEF PipesHold, PipeInv, Carries

LEMMA ResultIsOfProcess ==
  ASSUME IInv, op.pc = "result"
  PROVE  op.conn \in Processes /\ op.conn = entries /\ op.kind = "send" /\ ~conn[entries].ending
BY ClaudeAssumption DEF IInv, Typed, IsCall, Turns, CallsAreSound, Processes

\* A call that goes on while one process changes.
LEMMA OneIsSound ==
  ASSUME IInv, PipeInv, NEW c \in Processes, NEW s, IsPipe(s), Carries(conn[c], s),
         conn' = [conn EXCEPT ![c] = s], CallHolds
  PROVE  Sound
BY OnePipe, ResultIsOfProcess, HoldsIsSound

\* And one that ends.
LEMMA OneFails ==
  ASSUME IInv, PipeInv, NEW c \in Processes, NEW s, IsPipe(s), conn' = [conn EXCEPT ![c] = s], CallFails
  PROVE  Sound
BY OnePipe, FailsIsSound

\* Steps that leave the processes alone.
LEMMA SamePipes ==
  ASSUME IInv, PipeInv, conn' = conn
  PROVE  PipesHold /\ (CallHolds \/ CallStops \/ CallFails => Sound)
<1>1. PipesHold /\ \A c \in Processes : Carries(conn[c], conn'[c])
  BY DEF PipesHold, PipeInv, Carries
<1> QED BY <1>1, ResultIsOfProcess, HoldsIsSound, StopsIsSound, FailsIsSound

-----------------------------------------------------------------------------
(* Processes that are told to end, and stop().                             *)

LEMMA TerminatedPipe ==
  ASSUME NEW r, IsProcess(r)
  PROVE  Emptied(Terminated(r)) /\ Emptied(Terminated(Finished(r)))
<1>1. DOMAIN Finished(r) = DOMAIN r
  BY DEF Finished
<1>2. Emptied(Terminated(r))
  BY DEF Terminated, Emptied, IsProcess
<1> HIDE DEF Finished
<1>3. Emptied(Terminated(Finished(r)))
  BY <1>1 DEF Terminated, Emptied, IsProcess
<1> QED BY <1>2, <1>3

LEMMA FinishedPipe ==
  ASSUME NEW r, IsProcess(r), IsPipe(r)
  PROVE  IsPipe(Finished(r))
BY DEF Finished, IsProcess, IsPipe

LEMMA StopSound ==
  ASSUME IInv, PipeInv, NEW now, LikeNow(now), \A c \in Processes : IsPipe(now[c]), StopEffect(now)
  PROVE  Sound
<1> DEFINE live == entries # 0 /\ ~now[entries].ending
           s == Terminated(Finished(now[entries]))
<1>1. entries # 0 => entries \in Processes
  BY ClaudeAssumption DEF IInv, Typed, Processes
<1>2. PipesHold
  <2>1. CASE live
    <3>1. IsPipe(s)
      BY <1>1, <2>1, TerminatedPipe, EmptiedCarries DEF LikeNow
    <3>2. conn' = [now EXCEPT ![entries] = s]
      BY <2>1 DEF StopEffect
    <3> HIDE DEF s
    <3> QED BY <3>1, <3>2 DEF PipesHold, LikeNow
  <2>2. CASE ~live
    BY <2>2 DEF StopEffect, PipesHold
  <2> QED BY <2>1, <2>2
<1>3. CASE live /\ WaitsFor(entries)
  <2>1. EndOp(FALSE)
    BY <1>3 DEF StopEffect
  <2> QED BY <1>2, <2>1, EndOpFails, FailsIsSound
<1>4. CASE ~(live /\ WaitsFor(entries))
  <2>1. op.pc \notin {"init", "result"}
    BY <1>1, <1>4 DEF WaitsFor, LikeNow, SameTurn, IInv, Turns, CallsAreSound
  <2>2. CallStops
    BY <1>4, <2>1 DEF StopEffect, CallStops
  <2> QED BY <1>2, <2>2, StopsIsSound
<1> QED BY <1>3, <1>4

LEMMA FailSound ==
  ASSUME IInv, PipeInv, NEW c \in Processes, NEW r, IsProcess(r), IsPipe(r), Carries(conn[c], r),
         r.ending = conn[c].ending, Fail(c, r)
  PROVE  Sound
<1> DEFINE s == Terminated(Finished(r))
<1>1. CASE r.ending
  BY <1>1, SamePipes DEF Fail, CallHolds
<1>2. CASE ~r.ending
  <2>1. conn' = [conn EXCEPT ![c] = s] /\ OpEndsWith(c)
    BY <1>2 DEF Fail
  <2>2. IsPipe(s) /\ Carries(conn[c], s)
    BY TerminatedPipe, EmptiedCarries
  <2>3. CASE WaitsFor(c)
    <3>1. EndOp(FALSE)
      BY <2>1, <2>3 DEF OpEndsWith
    <3> QED BY <2>1, <2>2, <3>1, EndOpFails, OneFails
  <2>4. CASE ~WaitsFor(c)
    <3>1. CallHolds
      BY <2>1, <2>4 DEF OpEndsWith, CallHolds
    <3> QED BY <2>1, <2>2, <3>1, OneIsSound
  <2> QED BY <2>3, <2>4
<1> QED BY <1>1, <1>2
-----------------------------------------------------------------------------
(* A message is written to the CLI.                                        *)

\* What is in the pipe of s was in that of r.
PartOf(r, s) ==
  /\ s.input = r.input /\ s.work = r.work /\ s.task = r.task
  /\ \A k \in DOMAIN s.out : \E i \in DOMAIN r.out : s.out[k] = r.out[i]

LEMMA WrittenPipe ==
  ASSUME NEW r, NEW line, IsProcess(r), IsPipe(r), line \in Lines, line.sub = "user" => line.turn # 0
  PROVE  LET s == Written(r, line)
         IN  /\ IsPipe(s) /\ s.out = r.out /\ s.work = r.work /\ s.task = r.task /\ s.tasks = r.tasks
             /\ \A k \in DOMAIN s.input : s.input[k] = line \/ (k \in DOMAIN r.input /\ s.input[k] = r.input[k])
<1> DEFINE s == Written(r, line)
<1>1. s.out = r.out /\ s.work = r.work /\ s.task = r.task /\ s.tasks = r.tasks
      /\ (s.input = r.input \/ s.input = Append(r.input, line))
  BY DEF Written, IsProcess
<1> HIDE DEF s
<1>2. s.input \in Seq(Lines)
      /\ \A k \in DOMAIN s.input : s.input[k] = line \/ (k \in DOMAIN r.input /\ s.input[k] = r.input[k])
  <2>1. CASE s.input = r.input
    BY <2>1 DEF IsPipe
  <2>2. CASE s.input = Append(r.input, line)
    <3>1. /\ r.input \in Seq(Lines) /\ Len(r.input) \in Nat /\ DOMAIN r.input = 1 .. Len(r.input)
          /\ Append(r.input, line) \in Seq(Lines)
          /\ DOMAIN Append(r.input, line) = 1 .. Len(r.input) + 1
      BY DEF IsPipe
    <3>2. ASSUME NEW k \in 1 .. Len(r.input) + 1
          PROVE  s.input[k] = line \/ (k \in DOMAIN r.input /\ s.input[k] = r.input[k])
      <4>1. CASE k = Len(r.input) + 1
        BY <2>2, <3>1, <4>1
      <4>2. CASE k # Len(r.input) + 1
        <5>1. k \in 1 .. Len(r.input)
          BY <3>1, <4>2
        <5> QED BY <2>2, <3>1, <5>1
      <4> QED BY <4>1, <4>2
    <3> QED BY <2>2, <3>1, <3>2
  <2> QED BY <1>1, <2>1, <2>2
<1>3. IsPipe(s)
  BY <1>1, <1>2 DEF IsPipe
<1> QED BY <1>1, <1>2, <1>3 DEF s

LEMMA BeginSound ==
  ASSUME IInv, PipeInv, NEW c \in Processes, NEW r, IsProcess(r), IsPipe(r), PartOf(conn[c], r),
         op.kind = "send", ~op.cancelled, Begin(c, r)
  PROVE  Sound
<1>1. CASE conn' = [conn EXCEPT ![c] = Terminated(Finished(r))] /\ EndOp(FALSE)
  <2> DEFINE s == Terminated(Finished(r))
  <2>1. IsPipe(s)
    BY TerminatedPipe, EmptiedCarries
  <2> QED BY <1>1, <2>1, EndOpFails, OneFails
<1>2. CASE /\ conn' = [conn EXCEPT ![c] = Written([r EXCEPT !.ready = TRUE, !.turn = op.turn],
                                                 [sub |-> "user", turn |-> op.turn])]
           /\ op' = [op EXCEPT !.pc = "result", !.conn = c, !.behind = CliBehind(c)]
           /\ UNCHANGED hist
  <2> DEFINE r1 == [r EXCEPT !.ready = TRUE, !.turn = op.turn]
             line == [sub |-> "user", turn |-> op.turn]
             s == Written(r1, line)
  <2>1. op.turn \in 0 .. MaxSends /\ op.turn # 0
    BY DEF IInv, Typed, IsCall, Turns, CallsAreSound
  <2>2. line \in Lines /\ line.turn = op.turn /\ line.turn # 0
    BY <2>1 DEF Lines
  <2>3. IsProcess(r1) /\ IsPipe(r1) /\ SamePipe(r, r1)
    BY <2>1 DEF IsProcess, IsPipe, SamePipe
  <2> HIDE DEF r1, line
  <2>4. /\ IsPipe(s) /\ s.out = r1.out /\ s.work = r1.work /\ s.task = r1.task
        /\ \A k \in DOMAIN s.input : s.input[k] = line \/ (k \in DOMAIN r1.input /\ s.input[k] = r1.input[k])
    BY <2>2, <2>3, WrittenPipe
  <2>5. conn' = [conn EXCEPT ![c] = s]
    BY <1>2 DEF r1, line
  <2> HIDE DEF s
  <2>6. PipesHold /\ conn'[c] = s
    BY <2>4, <2>5, OnePipe
  <2>7. /\ op'.kind = op.kind /\ op'.cancelled = op.cancelled /\ op'.pc = "result" /\ op'.turn = op.turn
        /\ op'.conn = c /\ op'.behind = CliBehind(c) /\ hist' = hist
    BY <1>2 DEF IInv, Typed, IsCall
  <2>8. ~CliBehind(c) => Tells(s, op.turn, hist.done)
    <3> SUFFICES ASSUME ~CliBehind(c)
                 PROVE  Tells(s, op.turn, hist.done)
      OBVIOUS
    <3>1. s.work = 0 /\ s.task = "none"
      BY <2>3, <2>4 DEF SamePipe, PartOf, CliBehind, IsPipe
    <3>2. \A k \in DOMAIN s.input : s.input[k].sub = "user" => s.input[k].turn = op.turn
      BY <2>2, <2>3, <2>4 DEF SamePipe, PartOf, CliBehind
    <3>3. \A k \in DOMAIN s.out : s.out[k].sub # "result"
      BY <2>3, <2>4 DEF SamePipe, PartOf, CliBehind
    <3> QED BY <3>1, <3>2, <3>3 DEF Tells
  <2>9. PipeInv'
    BY <2>6, <2>7, <2>8 DEF PipeInv, PipesHold
  <2> QED BY <2>7, <2>9 DEF Sound, AnswerIsTrue
<1> QED BY <1>1, <1>2 DEF Begin

-----------------------------------------------------------------------------
(* A frame is read.                                                        *)

\* The first frame is taken, and with it what it says of background tasks.
Reads(r, s) ==
  /\ r.out # <<>> /\ s.out = Tail(r.out)
  /\ s.input = r.input /\ s.work = r.work /\ s.task = r.task
  /\ Head(r.out).sub = "task" => s.tasks
  /\ Head(r.out).sub \notin {"task", "taskdone"} => s.tasks = r.tasks

LEMMA ReadsOn ==
  ASSUME NEW r, NEW s, IsPipe(r), Reads(r, s)
  PROVE  IsPipe(s) /\ PartOf(r, s) /\ Carries(r, s)
<1>1. /\ r.out \in Seq(Frames) /\ Len(r.out) \in Nat /\ Len(r.out) >= 1 /\ DOMAIN r.out = 1 .. Len(r.out)
      /\ r.out[1] = Head(r.out)
  BY DEF IsPipe, Reads
<1>2. /\ s.out \in Seq(Frames) /\ Len(s.out) = Len(r.out) - 1 /\ DOMAIN s.out = 1 .. Len(r.out) - 1
      /\ \A k \in DOMAIN s.out : s.out[k] = r.out[k + 1]
  BY <1>1 DEF Reads
<1>3. ASSUME NEW k \in Int, k >= 1, Believed(r, k + 1)
      PROVE  Believed(s, k)
  <2>1. CASE r.tasks /\ \A i \in DOMAIN r.out : i < k + 1 => r.out[i].sub # "taskdone"
    <3>1. s.tasks
      <4>1. 1 \in DOMAIN r.out /\ 1 < k + 1
        BY <1>1, <1>3
      <4>2. Head(r.out).sub # "taskdone"
        BY <1>1, <2>1, <4>1
      <4>3. CASE Head(r.out).sub = "task"
        BY <4>3 DEF Reads
      <4>4. CASE Head(r.out).sub # "task"
        BY <4>2, <4>4, <2>1 DEF Reads
      <4> QED BY <4>3, <4>4
    <3>2. ASSUME NEW n \in DOMAIN s.out, n < k PROVE s.out[n].sub # "taskdone"
      <4>1. n + 1 \in DOMAIN r.out /\ n + 1 < k + 1
        BY <1>1, <1>2, <1>3, <3>2
      <4> QED BY <1>2, <2>1, <4>1
    <3> QED BY <3>1, <3>2 DEF Believed
  <2>2. ASSUME NEW i \in DOMAIN r.out, i < k + 1, r.out[i].sub = "task",
               \A n \in DOMAIN r.out : i < n /\ n < k + 1 => r.out[n].sub # "taskdone"
        PROVE  Believed(s, k)
    <3>1. CASE i = 1
      <4>1. s.tasks
        BY <1>1, <2>2, <3>1 DEF Reads
      <4>2. ASSUME NEW n \in DOMAIN s.out, n < k PROVE s.out[n].sub # "taskdone"
        <5>1. n + 1 \in DOMAIN r.out /\ i < n + 1 /\ n + 1 < k + 1
          BY <1>1, <1>2, <1>3, <3>1, <4>2
        <5> QED BY <1>2, <2>2, <5>1
      <4> QED BY <4>1, <4>2 DEF Believed
    <3>2. CASE i # 1
      <4>1. i - 1 \in DOMAIN s.out /\ i - 1 < k /\ s.out[i - 1].sub = "task"
        <5>1. i - 1 \in DOMAIN s.out /\ (i - 1) + 1 = i
          BY <1>1, <1>2, <3>2
        <5>2. s.out[i - 1] = r.out[i]
          BY <1>2, <5>1
        <5>3. i - 1 < k
          BY <1>1, <1>3, <2>2
        <5> QED BY <2>2, <5>1, <5>2, <5>3
      <4>2. ASSUME NEW n \in DOMAIN s.out, i - 1 < n, n < k PROVE s.out[n].sub # "taskdone"
        <5>1. n + 1 \in DOMAIN r.out /\ i < n + 1 /\ n + 1 < k + 1
          BY <1>1, <1>2, <1>3, <2>2, <4>2
        <5> QED BY <1>2, <2>2, <5>1
      <4> QED BY <4>1, <4>2 DEF Believed
    <3> QED BY <3>1, <3>2
  <2> QED BY <1>3, <2>1, <2>2 DEF Believed
<1>4. IsPipe(s)
  BY <1>2 DEF IsPipe, Reads
<1>5. PartOf(r, s)
  <2>1. \A k \in DOMAIN s.out : k + 1 \in DOMAIN r.out
    BY <1>1, <1>2
  <2> QED BY <1>2, <2>1 DEF PartOf, Reads
<1>6. ASSUME NEW t, NEW done, Tells(r, t, done)
      PROVE  Tells(s, t, done)
  <2>1. s.task \in {"running", "reported"} => Believed(s, Len(s.out) + 1)
    <3>1. Len(s.out) + 1 \in Int /\ Len(s.out) + 1 >= 1 /\ (Len(s.out) + 1) + 1 = Len(r.out) + 1
      BY <1>1, <1>2
    <3> QED BY <1>3, <1>6, <3>1 DEF Tells, Reads
  <2>2. ASSUME NEW k \in DOMAIN s.out, s.out[k].sub = "result", s.out[k].ok
        PROVE  done = t \/ Believed(s, k)
    <3>1. k \in Int /\ k >= 1 /\ k + 1 \in DOMAIN r.out /\ r.out[k + 1] = s.out[k]
      BY <1>1, <1>2
    <3> QED BY <1>3, <1>6, <2>2, <3>1 DEF Tells
  <2> QED BY <1>6, <2>1, <2>2 DEF Tells, Reads
<1> QED BY <1>4, <1>5, <1>6 DEF Carries
LEMMA BecomesSound ==
  ASSUME IInv, PipeInv, NEW c \in Processes, NEW s, IsPipe(s), Carries(conn[c], s), Becomes(c, s)
  PROVE  Sound
<1>1. conn' = [conn EXCEPT ![c] = s] /\ CallHolds
  BY DEF Becomes, CallHolds
<1> QED BY <1>1, OneIsSound

LEMMA SamePipeTwice ==
  ASSUME NEW a, NEW b, NEW d, IsPipe(b), Carries(a, b), SamePipe(b, d)
  PROVE  IsPipe(d) /\ Carries(a, d)
<1>1. IsPipe(d) /\ Carries(b, d)
  BY SamePipeCarries
<1> QED BY <1>1 DEF Carries

LEMMA RefreshedPipe ==
  ASSUME NEW r, IsProcess(r)
  PROVE  SamePipe(r, Refreshed(r))
BY DEF Refreshed, SamePipe, IsProcess

\* The answer to a control, its refusal and its timeout: only a message can become
\* one that waits for its result, and none succeeds.
LEMMA SettledSound ==
  ASSUME IInv, PipeInv, NEW c \in Processes, NEW e, IsProcess(e), SameCore(conn[c], e),
         IsPipe(e), Carries(conn[c], e), PartOf(conn[c], e),
         NEW control, NEW how, Settled(c, e, control, how)
  PROVE  Sound
<1> DEFINE r == [e EXCEPT !.controls = @ \ {control}]
<1>1. /\ IsProcess(r) /\ SameProcess(conn[c], r) /\ r.ending = conn[c].ending
      /\ r.turn = conn[c].turn /\ r.controls = conn[c].controls \ {control}
  BY DEF IsProcess, SameCore, SameProcess
<1>2. IsPipe(r) /\ Carries(conn[c], r) /\ PartOf(conn[c], r)
  <2>1. SamePipe(e, r)
    BY DEF SamePipe, IsProcess
  <2> HIDE DEF r
  <2> QED BY <2>1, SamePipeTwice DEF SamePipe, PartOf
<1>3. CASE control \notin e.controls
  <2>1. Becomes(c, e)
    BY <1>3 DEF Settled
  <2> QED BY <2>1, BecomesSound
<1>4. CASE control \in e.controls
  <2>1. control \in conn[c].controls
    BY <1>4 DEF SameCore
  <2>2. control \in {Initialize, SetMode} \/ control.sub = "interrupt"
    BY <2>1 DEF IInv, Turns, ControlsAreOwned
  <2>3. ASSUME NEW q, q \in {r, [r EXCEPT !.ready = TRUE]}, conn' = [conn EXCEPT ![c] = q], EndOp(FALSE)
        PROVE  Sound
    <3>1. SamePipe(r, q)
      BY <1>1, <2>3 DEF SamePipe, IsProcess
    <3> HIDE DEF r
    <3>2. IsPipe(q)
      BY <1>2, <3>1, SamePipeCarries
    <3> QED BY <2>3, <3>2, EndOpFails, OneFails
  <2>4. CASE control = Initialize
    <3>1. CASE how = "ok" /\ op.kind = "send"
      <4>1. Begin(c, r)
        BY <1>4, <2>4, <3>1, ControlsDiffer DEF Settled
      <4>2. op.pc = "init"
        BY <2>1, <2>4 DEF IInv, Turns, ControlsAreOwned
      <4>3. ~op.cancelled
        BY <3>1, <4>2 DEF PipeInv
      <4> HIDE DEF r
      <4> QED BY <1>1, <1>2, <3>1, <4>1, <4>3, BeginSound
    <3>2. CASE how = "ok" /\ op.kind # "send"
      <4>1. conn' = [conn EXCEPT ![c] = [r EXCEPT !.ready = TRUE]] /\ EndOp(FALSE)
        BY <1>4, <2>4, <3>2, ControlsDiffer DEF Settled
      <4> QED BY <2>3, <4>1
    <3>3. CASE how # "ok"
      <4>1. Fail(c, r)
        BY <1>4, <2>4, <3>3, ControlsDiffer DEF Settled
      <4> HIDE DEF r
      <4> QED BY <4>1, <1>1, <1>2, FailSound
    <3> QED BY <3>1, <3>2, <3>3
  <2>5. CASE control = SetMode
    <3>1. control # Initialize
      BY <2>5, ControlsDiffer
    <3>2. CASE how = "late"
      <4>1. Fail(c, r)
        BY <1>4, <2>5, <3>1, <3>2, ControlsDiffer DEF Settled
      <4> HIDE DEF r
      <4> QED BY <4>1, <1>1, <1>2, FailSound
    <3>3. CASE how # "late"
      <4>1. conn' = [conn EXCEPT ![c] = r] /\ EndOp(FALSE)
        BY <1>4, <2>5, <3>1, <3>3, ControlsDiffer DEF Settled
      <4> QED BY <2>3, <4>1
    <3> QED BY <3>2, <3>3
  <2>6. CASE control.sub = "interrupt"
    <3>1. control # Initialize /\ control # SetMode
      BY <2>6, ControlsDiffer
    <3>2. SameTurn(conn[c], r)
      <4> HIDE DEF r
      <4> QED BY <1>1, <3>1 DEF SameTurn, SameProcess
    <3>3. StopEffect([conn EXCEPT ![c] = r]) \/ Becomes(c, r)
      BY <1>4, <2>6, <3>1 DEF Settled
    <3> HIDE DEF r
    <3>4. CASE StopEffect([conn EXCEPT ![c] = r])
      <4> DEFINE now == [conn EXCEPT ![c] = r]
      <4>1. DOMAIN now = Processes /\ now[c] = r /\ \A d \in Processes : d # c => now[d] = conn[d]
        BY DEF IInv, Typed
      <4>2. \A d \in Processes : IsProcess(conn[d]) /\ SameProcess(conn[d], conn[d]) /\ SameTurn(conn[d], conn[d])
        BY DEF SameProcess, SameTurn, IInv, Typed
      <4> HIDE DEF now
      <4>3. LikeNow(now)
        BY <4>1, <4>2, <1>1, <3>2 DEF LikeNow
      <4>4. StopEffect(now)
        BY <3>4 DEF now
      <4>5. \A d \in Processes : IsPipe(now[d])
        BY <4>1, <1>2 DEF PipeInv
      <4> QED BY <4>3, <4>4, <4>5, StopSound
    <3>5. CASE Becomes(c, r)
      BY <3>5, <1>2, BecomesSound
    <3> QED BY <3>3, <3>4, <3>5
  <2> QED BY <2>2, <2>4, <2>5, <2>6
<1> QED BY <1>3, <1>4

\* The result of the CLI: what it says of a success is true of the turn, if no
\* background task is known to run.
LEMMA ResultSound ==
  ASSUME IInv, PipeInv, NEW c \in Processes, NEW r, IsProcess(r), SameCore(conn[c], r),
         IsPipe(r), Carries(conn[c], r), Reads(conn[c], r),
         Head(conn[c].out).sub = "result", Result(c, r, Head(conn[c].out).ok)
  PROVE  Sound
<1> DEFINE ok == Head(conn[c].out).ok
<1>1. CASE Becomes(c, r)
  BY <1>1, BecomesSound
<1>2. CASE Becomes(c, Refreshed([r EXCEPT !.waiting = TRUE]))
  <2> DEFINE r1 == [r EXCEPT !.waiting = TRUE]
  <2>1. IsProcess(r1) /\ SamePipe(r, r1)
    BY DEF IsProcess, SamePipe
  <2> HIDE DEF r1
  <2>2. SamePipe(r1, Refreshed(r1))
    BY <2>1, RefreshedPipe
  <2>3. IsPipe(Refreshed(r1)) /\ Carries(conn[c], Refreshed(r1))
    BY <2>1, <2>2, SamePipeTwice
  <2>4. Becomes(c, Refreshed(r1))
    BY <1>2 DEF r1
  <2> QED BY <2>3, <2>4, BecomesSound
<1>3. CASE /\ r.turn # 0 /\ ~(r.tasks /\ ok /\ ~r.interrupted)
           /\ conn' = [conn EXCEPT ![c] = Finished(r)] /\ EndOp(ok /\ ~r.interrupted)
  <2>1. op.pc = "result" /\ op.conn = c /\ op.kind = "send"
    <3>1. conn[c].turn # 0
      BY <1>3 DEF SameCore
    <3>2. op.pc = "result" /\ op.conn = c
      BY <3>1 DEF IInv, Turns, ControlsAreOwned
    <3> QED BY <3>2, ResultIsOfProcess
  <2>2. IsPipe(Finished(r))
    BY FinishedPipe
  <2>3. PipesHold
    BY <1>3, <2>2, OnePipe
  <2>4. op'.kind = "none" /\ op'.pc = "none" /\ (hist'.success => ok /\ ~r.interrupted)
    BY <1>3 DEF EndOp, NoOp, IInv, Typed, IsHistory
  <2>5. PipeInv'
    BY <2>3, <2>4 DEF PipeInv, PipesHold
  <2>6. hist'.success /\ ~op.behind => hist.done = op.turn
    <3> SUFFICES ASSUME hist'.success, ~op.behind
                 PROVE  hist.done = op.turn
      OBVIOUS
    <3>1. ok /\ ~r.tasks
      BY <1>3, <2>4
    <3>2. conn[c].out \in Seq(Frames) /\ 1 \in DOMAIN conn[c].out /\ conn[c].out[1] = Head(conn[c].out)
          /\ \A i \in DOMAIN conn[c].out : ~(i < 1)
      BY DEF PipeInv, IsPipe, Reads
    <3>3. conn[c].tasks = r.tasks
      BY DEF Reads
    <3>4. ~Believed(conn[c], 1)
      BY <3>1, <3>2, <3>3 DEF Believed
    <3>5. Tells(conn[c], op.turn, hist.done)
      BY <2>1 DEF PipeInv
    <3> QED BY <3>1, <3>2, <3>4, <3>5 DEF Tells
  <2> QED BY <2>4, <2>5, <2>6 DEF Sound, AnswerIsTrue
<1> QED BY <1>1, <1>2, <1>3 DEF Result
LEMMA ReceiveSound ==
  ASSUME IInv, PipeInv, NEW c \in Processes, Receive(c)
  PROVE  Sound
<1> DEFINE frame == Head(conn[c].out)
           r0 == [conn[c] EXCEPT !.out = Tail(@)]
           r == Refreshed(r0)
<1>1. conn[c].out # <<>> /\ entries = c
  BY DEF Receive
<1>2. IsProcess(conn[c]) /\ IsPipe(conn[c])
  BY DEF IInv, Typed, PipeInv
<1>3. IsProcess(r) /\ SameCore(conn[c], r) /\ SamePipe(r0, r)
  <2>1. IsProcess(r0) /\ SameCore(conn[c], r0)
    BY <1>2 DEF IsProcess, SameCore, SameProcess
  <2> HIDE DEF r0
  <2>2. IsProcess(r) /\ SameCore(r0, r) /\ SamePipe(r0, r)
    BY <2>1, RefreshedIs, RefreshedPipe
  <2> QED BY <2>1, <2>2, SameCoreTwice
<1>4. /\ r.out = Tail(conn[c].out) /\ r.input = conn[c].input /\ r.work = conn[c].work
      /\ r.task = conn[c].task /\ r.tasks = conn[c].tasks
  <2>1. /\ r0.out = Tail(conn[c].out) /\ r0.input = conn[c].input /\ r0.work = conn[c].work
        /\ r0.task = conn[c].task /\ r0.tasks = conn[c].tasks
    BY <1>2 DEF IsProcess
  <2> HIDE DEF r0, r
  <2> QED BY <2>1, <1>3 DEF SamePipe
<1>5. \/ frame.sub = "reply" /\ Settled(c, r, frame.control, IF frame.ok THEN "ok" ELSE "refused")
      \/ frame.sub = "ask" /\ Becomes(c, [r EXCEPT !.asking = "done"])
      \/ frame.sub = "ask" /\ Becomes(c, Refreshed([r EXCEPT !.approval = TRUE]))
      \/ frame.sub = "task" /\ Becomes(c, Refreshed([r EXCEPT !.tasks = TRUE]))
      \/ frame.sub = "taskdone" /\ Becomes(c, Refreshed([r EXCEPT !.tasks = FALSE]))
      \/ frame.sub = "result" /\ Result(c, r, frame.ok)
      \/ frame.sub = "bad" /\ Fail(c, r)
  <2> HIDE DEF r0
  <2>1. \/ frame.sub = "reply" /\ Settled(c, r, frame.control, IF frame.ok THEN "ok" ELSE "refused")
        \/ frame.sub = "ask" /\ Becomes(c, IF r.turn = 0 \/ r.interrupted THEN [r EXCEPT !.asking = "done"]
                                           ELSE Refreshed([r EXCEPT !.approval = TRUE]))
        \/ frame.sub = "task" /\ Becomes(c, Refreshed([r EXCEPT !.tasks = TRUE]))
        \/ frame.sub = "taskdone" /\ Becomes(c, Refreshed([r EXCEPT !.tasks = FALSE]))
        \/ frame.sub = "result" /\ Result(c, r, frame.ok)
        \/ frame.sub = "bad" /\ Fail(c, r)
    BY Zenon DEF Receive, r0
  <2> HIDE DEF r, frame
  <2>2. CASE frame.sub = "ask" /\ Becomes(c, IF r.turn = 0 \/ r.interrupted THEN [r EXCEPT !.asking = "done"]
                                             ELSE Refreshed([r EXCEPT !.approval = TRUE]))
    <3>1. CASE r.turn = 0 \/ r.interrupted
      BY <2>2, <3>1
    <3>2. CASE ~(r.turn = 0 \/ r.interrupted)
      BY <2>2, <3>2
    <3> QED BY <3>1, <3>2
  <2> QED BY <2>1, <2>2
<1> HIDE DEF r
\* What says nothing of tasks is read as it is; what does, with what it says.
<1>6. frame.sub \notin {"task", "taskdone"} => Reads(conn[c], r)
  BY <1>1, <1>4 DEF Reads
<1>7. frame.sub \notin {"task", "taskdone"} =>
        IsPipe(r) /\ PartOf(conn[c], r) /\ Carries(conn[c], r)
  BY <1>2, <1>6, ReadsOn
<1>8. ASSUME NEW x, IsProcess(x), IsPipe(x), Carries(conn[c], x), Becomes(c, Refreshed(x))
      PROVE  Sound
  <2>1. IsPipe(Refreshed(x)) /\ Carries(conn[c], Refreshed(x))
    BY <1>8, RefreshedPipe, SamePipeTwice
  <2> HIDE DEF Refreshed
  <2> QED BY <2>1, <1>8, BecomesSound
<1>9. ASSUME NEW b \in BOOLEAN, frame.sub \in {"task", "taskdone"}, b = (frame.sub = "task")
      PROVE  LET x == [r EXCEPT !.tasks = b]
             IN  IsProcess(x) /\ IsPipe(x) /\ Carries(conn[c], x)
  <2> DEFINE x == [r EXCEPT !.tasks = b]
  <2>1. IsProcess(x) /\ Reads(conn[c], x)
    BY <1>1, <1>3, <1>4, <1>9 DEF IsProcess, Reads
  <2> HIDE DEF x
  <2>2. IsPipe(x) /\ Carries(conn[c], x)
    BY <1>2, <2>1, ReadsOn
  <2> QED BY <2>1, <2>2 DEF x
<1>10. CASE frame.sub = "reply" /\ Settled(c, r, frame.control, IF frame.ok THEN "ok" ELSE "refused")
  <2>1. IsPipe(r) /\ PartOf(conn[c], r) /\ Carries(conn[c], r)
    BY <1>7, <1>10
  <2> HIDE DEF frame
  <2> QED BY <2>1, <1>3, <1>10, SettledSound
<1>11. CASE frame.sub = "ask" /\ Becomes(c, [r EXCEPT !.asking = "done"])
  <2>1. SamePipe(r, [r EXCEPT !.asking = "done"])
    BY <1>3 DEF SamePipe, IsProcess
  <2>2. IsPipe([r EXCEPT !.asking = "done"]) /\ Carries(conn[c], [r EXCEPT !.asking = "done"])
    BY <2>1, <1>7, <1>11, SamePipeTwice
  <2> QED BY <2>2, <1>11, BecomesSound
<1>12. CASE frame.sub = "ask" /\ Becomes(c, Refreshed([r EXCEPT !.approval = TRUE]))
  <2> DEFINE x == [r EXCEPT !.approval = TRUE]
  <2>1. SamePipe(r, x) /\ IsProcess(x)
    BY <1>3 DEF SamePipe, IsProcess
  <2> HIDE DEF x
  <2>2. IsPipe(x) /\ Carries(conn[c], x)
    BY <2>1, <1>7, <1>12, SamePipeTwice
  <2> QED BY <2>1, <2>2, <1>8, <1>12 DEF x
<1>13. CASE frame.sub = "task" /\ Becomes(c, Refreshed([r EXCEPT !.tasks = TRUE]))
  BY <1>8, <1>9, <1>13
<1>14. CASE frame.sub = "taskdone" /\ Becomes(c, Refreshed([r EXCEPT !.tasks = FALSE]))
  BY <1>8, <1>9, <1>14
<1>15. CASE frame.sub = "result" /\ Result(c, r, frame.ok)
  BY <1>3, <1>6, <1>7, <1>15, ResultSound
<1>16. CASE frame.sub = "bad" /\ Fail(c, r)
  <2>1. r.ending = conn[c].ending
    BY <1>3 DEF SameCore
  <2> QED BY <2>1, <1>3, <1>7, <1>16, FailSound
<1> QED BY <1>5, <1>10, <1>11, <1>12, <1>13, <1>14, <1>15, <1>16

LEMMA ControlTimeoutSound ==
  ASSUME IInv, PipeInv, NEW c \in Processes, ControlTimeout(c)
  PROVE  Sound
<1>1. PICK control \in conn[c].controls : Settled(c, conn[c], control, "late")
  BY DEF ControlTimeout
<1>2. IsProcess(conn[c]) /\ SameCore(conn[c], conn[c]) /\ IsPipe(conn[c])
      /\ Carries(conn[c], conn[c]) /\ PartOf(conn[c], conn[c])
  BY DEF SameCore, SameProcess, IInv, Typed, PipeInv, Carries, PartOf
<1> QED BY <1>1, <1>2, SettledSound

LEMMA StopNowSound ==
  ASSUME IInv, PipeInv, StopEffect(conn)
  PROVE  Sound
<1>1. LikeNow(conn) /\ \A c \in Processes : IsPipe(conn[c])
  BY LikeItself DEF PipeInv
<1> QED BY <1>1, StopSound

LEMMA BackgroundTimeoutSound ==
  ASSUME IInv, PipeInv, NEW c \in Processes, BackgroundTimeout(c)
  PROVE  Sound
<1>1. Fail(c, conn[c])
  BY DEF BackgroundTimeout
<1>2. IsProcess(conn[c]) /\ IsPipe(conn[c]) /\ Carries(conn[c], conn[c])
  BY DEF IInv, Typed, PipeInv, Carries
<1> QED BY <1>1, <1>2, FailSound

LEMMA HistoryFailsSound ==
  ASSUME IInv, PipeInv, HistoryFails
  PROVE  Sound
<1> DEFINE r == [conn[entries] EXCEPT !.turn = 0, !.interrupted = FALSE]
           s == Terminated(r)
<1>1. entries \in Processes
  BY ClaudeAssumption DEF HistoryFails, Processes, IInv, Typed
<1>2. IsProcess(r)
  BY <1>1, ClaudeAssumption DEF IsProcess, IInv, Typed
<1>3. conn' = [conn EXCEPT ![entries] = s] /\ OpEndsWith(entries)
  BY DEF HistoryFails
<1> HIDE DEF r
<1>4. IsPipe(s) /\ Carries(conn[entries], s)
  BY <1>2, TerminatedPipe, EmptiedCarries
<1> HIDE DEF s
<1>5. CASE WaitsFor(entries)
  <2>1. EndOp(FALSE)
    BY <1>3, <1>5 DEF OpEndsWith
  <2> QED BY <1>1, <1>3, <1>4, <2>1, EndOpFails, OneFails
<1>6. CASE ~WaitsFor(entries)
  <2>1. CallHolds
    BY <1>3, <1>6 DEF OpEndsWith, CallHolds
  <2> QED BY <1>1, <1>3, <1>4, <2>1, OneIsSound
<1> QED BY <1>5, <1>6

LEMMA RespondSound ==
  ASSUME IInv, PipeInv, Respond
  PROVE  Sound
<1> DEFINE x == [conn[entries] EXCEPT !.approval = FALSE, !.asking = "done"]
           s == Refreshed(x)
<1>1. entries \in Processes /\ CallHolds
  BY ClaudeAssumption DEF Respond, Processes, CallHolds, IInv, Typed
<1>2. IsProcess(x) /\ SamePipe(conn[entries], x)
  BY <1>1 DEF IsProcess, SamePipe, IInv, Typed
<1>3. conn' = [conn EXCEPT ![entries] = s]
  BY DEF Respond
<1>4. IsPipe(conn[entries]) /\ Carries(conn[entries], conn[entries])
  BY <1>1 DEF PipeInv, Carries
<1> HIDE DEF x
<1>5. SamePipe(x, s)
  BY <1>2, RefreshedPipe
<1> HIDE DEF s
<1>6. IsPipe(s) /\ Carries(conn[entries], s)
  BY <1>2, <1>4, <1>5, SamePipeTwice
<1> QED BY <1>1, <1>3, <1>6, OneIsSound
-----------------------------------------------------------------------------
(* The calls of the runtime.                                               *)

LEMMA NothingIsSaid ==
  ASSUME IInv, PipeInv, UNCHANGED <<conn, op, starting, hist>>
  PROVE  Sound
BY SamePipes DEF CallHolds

LEMMA InterruptEffectSound ==
  ASSUME IInv, PipeInv, InterruptEffect
  PROVE  Sound
<1>1. CASE StopEffect(conn)
  BY <1>1, StopNowSound
<1>2. CASE UNCHANGED <<conn, op, starting, hist>>
  BY <1>2, NothingIsSaid
<1>3. CASE Interruptible /\ conn' = [conn EXCEPT ![entries] = AskedToStop(conn[entries], TRUE)]
           /\ UNCHANGED <<op, starting, hist>>
  <2> DEFINE r == conn[entries]
             line == InterruptOf(r.turn)
             r1 == [r EXCEPT !.interrupted = TRUE, !.approval = FALSE, !.timer = TRUE,
                             !.asking = IF r.approval THEN "done" ELSE @,
                             !.controls = @ \cup {line}]
             s == Written(r1, line)
  <2>1. entries \in Processes
    BY <1>3, ClaudeAssumption DEF Interruptible, Processes, IInv, Typed
  <2>2. IsProcess(r) /\ IsPipe(r)
    BY <2>1 DEF IInv, Typed, PipeInv
  <2>3. line \in Lines /\ line.sub # "user"
    BY <2>2, ControlsDiffer DEF IsProcess
  <2>4. IsProcess(r1) /\ SamePipe(r, r1)
    BY <2>2, <2>3 DEF IsProcess, SamePipe
  <2>5. conn' = [conn EXCEPT ![entries] = s]
    BY <1>3 DEF AskedToStop
  <2> HIDE DEF r1, line
  <2>6. IsPipe(r1) /\ Carries(r, r1)
    BY <2>2, <2>4, SamePipeCarries
  <2>7. /\ IsPipe(s) /\ s.out = r1.out /\ s.work = r1.work /\ s.task = r1.task /\ s.tasks = r1.tasks
        /\ \A k \in DOMAIN s.input : s.input[k] = line \/ (k \in DOMAIN r1.input /\ s.input[k] = r1.input[k])
    BY <2>3, <2>4, <2>6, WrittenPipe
  <2> HIDE DEF s
  <2>8. Carries(r1, s)
    BY <2>3, <2>7 DEF Carries, Tells, Believed
  <2>9. Carries(r, s)
    BY <2>6, <2>8 DEF Carries
  <2> QED BY <1>3, <2>1, <2>5, <2>7, <2>9, OneIsSound DEF CallHolds
<1>4. CASE Interruptible /\ conn' = [conn EXCEPT ![entries].interrupted = TRUE] /\ UNCHANGED <<op, starting, hist>>
  <2> DEFINE s == [conn[entries] EXCEPT !.interrupted = TRUE]
  <2>1. entries \in Processes
    BY <1>4, ClaudeAssumption DEF Interruptible, Processes, IInv, Typed
  <2>2. IsPipe(conn[entries]) /\ SamePipe(conn[entries], s)
    BY <2>1 DEF IInv, Typed, IsProcess, PipeInv, SamePipe
  <2>3. conn' = [conn EXCEPT ![entries] = s]
    BY <1>4
  <2> HIDE DEF s
  <2> QED BY <1>4, <2>1, <2>2, <2>3, SamePipeCarries, OneIsSound DEF CallHolds
<1> QED BY <1>1, <1>2, <1>3, <1>4 DEF InterruptEffect

LEMMA ConfigureSound ==
  ASSUME IInv, PipeInv, Configure
  PROVE  Sound
<1> DEFINE r == conn[entries]
           r1 == [r EXCEPT !.controls = r.controls \cup {SetMode}]
<1>1. entries \in Processes /\ op.kind = "none" /\ op.pc = "none"
  BY ClaudeAssumption DEF Configure, busy, Processes, IInv, Typed, Turns, CallsAreSound
<1>2. IsProcess(r) /\ IsPipe(r)
  BY <1>1 DEF IInv, Typed, PipeInv
<1>3. op'.kind = "config" /\ op'.pc # "result"
  BY DEF Configure, NoOp
<1>4. PICK s : IsPipe(s) /\ conn' = [conn EXCEPT ![entries] = s]
  <2>1. CASE conn' = [conn EXCEPT ![entries] = Terminated(r)]
    BY <1>2, <2>1, TerminatedPipe, EmptiedCarries
  <2>2. CASE conn' = [conn EXCEPT ![entries] = Written(r1, SetMode)]
    <3>1. IsProcess(r1) /\ SamePipe(r, r1)
      BY <1>2, ControlsDiffer DEF IsProcess, SamePipe
    <3> HIDE DEF r1
    <3>2. IsPipe(r1)
      BY <1>2, <3>1, SamePipeCarries
    <3>3. IsPipe(Written(r1, SetMode))
      BY <3>1, <3>2, ControlsDiffer, WrittenPipe
    <3> QED BY <2>2, <3>3
  <2> QED BY <2>1, <2>2 DEF Configure
<1>5. PipesHold
  BY <1>1, <1>4, OnePipe
<1> QED BY <1>1, <1>3, <1>5 DEF PipesHold, PipeInv, Sound, AnswerIsTrue

LEMMA ConfigEndsSound ==
  ASSUME IInv, PipeInv, ConfigEnds
  PROVE  Sound
<1>1. conn' = conn /\ op.kind # "send" /\ op'.kind = "none" /\ op'.pc = "none"
  BY DEF ConfigEnds, NoOp, IInv, Turns, CallsAreSound
<1>2. PipesHold
  BY <1>1, SamePipes
<1> QED BY <1>1, <1>2 DEF PipesHold, PipeInv, Sound, AnswerIsTrue

LEMMA SendSound ==
  ASSUME IInv, PipeInv, Send
  PROVE  Sound
<1>1. conn' = conn /\ op.kind = "none" /\ op'.pc = "hydrate" /\ ~op'.cancelled /\ ~hist'.success
  BY DEF Send, busy, NoOp, IInv, Typed, IsHistory
<1>2. PipesHold
  BY <1>1, SamePipes
<1> QED BY <1>1, <1>2 DEF PipesHold, PipeInv, Sound, AnswerIsTrue

LEMMA PrepareSound ==
  ASSUME IInv, PipeInv, Prepare
  PROVE  Sound
<1>1. conn' = conn /\ op.kind = "none" /\ op'.kind = "prepare" /\ op'.pc = "hydrate"
  BY DEF Prepare, busy, NoOp
<1>2. PipesHold
  BY <1>1, SamePipes
<1> QED BY <1>1, <1>2 DEF PipesHold, PipeInv, Sound, AnswerIsTrue

LEMMA HydratedSound ==
  ASSUME IInv, PipeInv, Hydrated
  PROVE  Sound
<1>1. CASE EndOp(FALSE) /\ UNCHANGED conn
  BY <1>1, SamePipes, EndOpFails
<1>2. CASE op.kind = "send" /\ ~op.cancelled /\ entries # 0 /\ Begin(entries, conn[entries])
  <2>1. entries \in Processes
    BY <1>2, ClaudeAssumption DEF Processes, IInv, Typed
  <2>2. IsProcess(conn[entries]) /\ IsPipe(conn[entries]) /\ PartOf(conn[entries], conn[entries])
    BY <2>1 DEF IInv, Typed, PipeInv, PartOf
  <2> QED BY <1>2, <2>1, <2>2, BeginSound
<1>3. CASE /\ op.kind = "send" => ~op.cancelled
           /\ starting' = TRUE /\ op' = [op EXCEPT !.pc = "transcript"] /\ UNCHANGED <<conn, hist>>
  <2>1. /\ op'.kind = op.kind /\ op'.turn = op.turn /\ op'.pc = "transcript" /\ op'.cancelled = op.cancelled
    BY <1>3 DEF IInv, Typed, IsCall
  <2>2. PipesHold
    BY <1>3, SamePipes
  <2> QED BY <1>3, <2>1, <2>2 DEF PipesHold, PipeInv, Sound, AnswerIsTrue
<1> QED BY <1>1, <1>2, <1>3 DEF Hydrated

LEMMA TranscriptKnownSound ==
  ASSUME IInv, PipeInv, TranscriptKnown
  PROVE  Sound
<1>1. CASE EndOp(FALSE) /\ UNCHANGED conn
  BY <1>1, SamePipes, EndOpFails
<1>2. CASE ~(Paused \/ ~starting)
  <2> DEFINE c == Started + 1
             s == [NoProcess EXCEPT !.root = "up", !.by = op.turn, !.controls = {Initialize},
                                    !.input = <<Initialize>>]
  <2>1. op.pc = "transcript" /\ starting
    BY <1>2 DEF TranscriptKnown
  <2>2. c \in Processes
    <3>1. Started < MaxStarts
      BY <2>1 DEF IInv, Turns, CallsAreSound
    <3>2. Started \in 0 .. MaxStarts
      BY StartedIs DEF IInv, Release
    <3> QED BY <3>1, <3>2, ClaudeAssumption DEF Processes
  <2>3. conn' = [conn EXCEPT ![c] = s] /\ op' = [op EXCEPT !.pc = "init", !.conn = c] /\ hist' = hist
    BY <1>2 DEF TranscriptKnown
  <2>4. IsPipe(s)
    <3>1. <<Initialize>> \in Seq(Lines) /\ <<>> \in Seq(Frames) /\ DOMAIN <<Initialize>> = {1}
          /\ <<Initialize>>[1] = Initialize /\ Initialize.sub # "user"
      BY ControlsDiffer
    <3>2. s.input = <<Initialize>> /\ s.out = <<>> /\ s.work = 0 /\ s.task = "none"
      BY DEF NoProcess
    <3> HIDE DEF s
    <3> QED BY <3>1, <3>2 DEF IsPipe
  <2>5. op'.kind = op.kind /\ op'.turn = op.turn /\ op'.pc = "init" /\ op'.cancelled = op.cancelled
    BY <2>3 DEF IInv, Typed, IsCall
  <2> HIDE DEF s, c
  <2>6. PipesHold
    BY <2>2, <2>3, <2>4, OnePipe
  <2> QED BY <2>1, <2>3, <2>5, <2>6 DEF PipesHold, PipeInv, Sound, AnswerIsTrue
<1> QED BY <1>1, <1>2 DEF TranscriptKnown

-----------------------------------------------------------------------------
(* The process ends.                                                       *)

\* What a dead CLI has said can still be read; it is asked for nothing.
LEMMA ExitedPipe ==
  ASSUME IInv, PipeInv, NEW c \in Processes, NEW kin \in BOOLEAN,
         conn' = [conn EXCEPT ![c] = Exited(@, kin)], CallHolds
  PROVE  Sound
<1> DEFINE s == Exited(conn[c], kin)
<1>1. IsProcess(conn[c]) /\ IsPipe(conn[c])
  BY DEF IInv, Typed, PipeInv
<1>2. s.input = <<>> /\ s.out = conn[c].out /\ s.work = 0 /\ s.task = "none" /\ s.tasks = conn[c].tasks
  BY <1>1 DEF Exited, IsProcess
<1>3. conn' = [conn EXCEPT ![c] = s]
  OBVIOUS
<1> HIDE DEF s
<1>4. <<>> \in Seq(Lines) /\ DOMAIN <<>> = {}
  OBVIOUS
<1>5. IsPipe(s)
  BY <1>1, <1>2, <1>4 DEF IsPipe
<1>6. Carries(conn[c], s)
  BY <1>2, <1>4 DEF Carries, Tells, Believed
<1> QED BY <1>3, <1>5, <1>6, OneIsSound

LEMMA RootExitsSound ==
  ASSUME IInv, PipeInv, NEW c \in Processes, RootExits(c)
  PROVE  Sound
BY ExitedPipe DEF RootExits, CallHolds

LEMMA ShutdownLooksSound ==
  ASSUME IInv, PipeInv, NEW w \in Waiters, ShutdownLooks(w)
  PROVE  Sound
<1>1. CallHolds
  BY DEF ShutdownLooks, CallHolds
<1>2. CASE entries # 0 /\ \E kin \in BOOLEAN : conn' = [conn EXCEPT ![entries] = Exited(@, kin)]
  <2>1. entries \in Processes
    BY <1>2, ClaudeAssumption DEF Processes, IInv, Typed
  <2> QED BY <1>1, <1>2, <2>1, ExitedPipe
<1>3. CASE conn' = conn
  BY <1>1, <1>3, SamePipes
<1> QED BY <1>2, <1>3 DEF ShutdownLooks

LEMMA ClosesSound ==
  ASSUME IInv, PipeInv, NEW c \in Processes, Closes(c)
  PROVE  Sound
<1> DEFINE r == conn[c]
           s == [NoProcess EXCEPT !.root = "gone", !.kin = r.kin, !.closed = TRUE, !.term = r.term,
                                  !.ending = r.ending \/ Initialize \in r.controls,
                                  !.tasks = r.tasks /\ r.turn = 0]
<1>1. conn' = [conn EXCEPT ![c] = s]
  BY DEF Closes
<1>2. Emptied(s)
  BY DEF Emptied, NoProcess
<1> HIDE DEF s
<1>3. IsPipe(s) /\ Carries(conn[c], s)
  BY <1>2, EmptiedCarries
<1>4. CASE WaitsFor(c)
  <2>1. EndOp(FALSE)
    BY <1>4 DEF Closes
  <2> QED BY <1>1, <1>3, <2>1, EndOpFails, OneFails
<1>5. CASE ~WaitsFor(c)
  <2>1. CallHolds
    BY <1>5 DEF Closes, CallHolds
  <2> QED BY <1>1, <1>3, <2>1, OneIsSound
<1> QED BY <1>4, <1>5

LEMMA SamePipeSound ==
  ASSUME IInv, PipeInv, NEW c \in Processes, NEW s, SamePipe(conn[c], s),
         conn' = [conn EXCEPT ![c] = s], CallHolds
  PROVE  Sound
<1>1. IsPipe(conn[c])
  BY DEF PipeInv
<1> QED BY <1>1, SamePipeCarries, OneIsSound

LEMMA TermEndsSound ==
  ASSUME IInv, PipeInv, NEW c \in Processes, TermEnds(c)
  PROVE  Sound
<1>1. PICK v \in {"yes", "no"} : conn' = [conn EXCEPT ![c].term = v]
  BY DEF TermEnds
<1> DEFINE s == [conn[c] EXCEPT !.term = v]
<1>2. SamePipe(conn[c], s)
  BY DEF SamePipe, IInv, Typed, IsProcess
<1>3. conn' = [conn EXCEPT ![c] = s] /\ CallHolds
  BY <1>1 DEF TermEnds, CallHolds
<1> HIDE DEF s
<1> QED BY <1>2, <1>3, SamePipeSound

LEMMA KinEndsSound ==
  ASSUME IInv, PipeInv, NEW c \in Processes, KinEnds(c)
  PROVE  Sound
<1> DEFINE s == [conn[c] EXCEPT !.kin = FALSE]
<1>1. SamePipe(conn[c], s)
  BY DEF SamePipe, IInv, Typed, IsProcess
<1>2. conn' = [conn EXCEPT ![c] = s] /\ CallHolds
  BY DEF KinEnds, External, CallHolds
<1> HIDE DEF s
<1> QED BY <1>1, <1>2, SamePipeSound
-----------------------------------------------------------------------------
(* The CLI reads and writes.                                               *)

\* What is written follows what has been said, and is believed no less.
LEMMA SaysMore ==
  ASSUME NEW r, NEW s, NEW fs, r.out \in Seq(Frames), fs \in Seq(Frames),
         s.out = r.out \o fs, s.tasks = r.tasks
  PROVE  /\ s.out \in Seq(Frames) /\ Len(s.out) = Len(r.out) + Len(fs)
         /\ \A k \in DOMAIN r.out : k \in DOMAIN s.out /\ s.out[k] = r.out[k]
         /\ \A k \in DOMAIN s.out :
              k \in DOMAIN r.out \/ \E j \in DOMAIN fs : k = Len(r.out) + j /\ s.out[k] = fs[j]
         /\ \A k \in 1 .. Len(r.out) + 1 : Believed(r, k) => Believed(s, k)
<1>1. /\ Len(r.out) \in Nat /\ Len(fs) \in Nat /\ DOMAIN r.out = 1 .. Len(r.out) /\ DOMAIN fs = 1 .. Len(fs)
  OBVIOUS
<1>2. /\ s.out \in Seq(Frames) /\ Len(s.out) = Len(r.out) + Len(fs)
      /\ DOMAIN s.out = 1 .. Len(r.out) + Len(fs)
      /\ \A k \in DOMAIN s.out : s.out[k] = IF k <= Len(r.out) THEN r.out[k] ELSE fs[k - Len(r.out)]
  OBVIOUS
<1>3. \A k \in DOMAIN r.out : k \in DOMAIN s.out /\ s.out[k] = r.out[k]
  BY <1>1, <1>2
<1>4. ASSUME NEW k \in DOMAIN s.out, k \notin DOMAIN r.out
      PROVE  \E j \in DOMAIN fs : k = Len(r.out) + j /\ s.out[k] = fs[j]
  <2>1. k - Len(r.out) \in DOMAIN fs /\ k = Len(r.out) + (k - Len(r.out)) /\ s.out[k] = fs[k - Len(r.out)]
    BY <1>1, <1>2, <1>4
  <2> QED BY <2>1
<1>5. ASSUME NEW k \in 1 .. Len(r.out) + 1, Believed(r, k)
      PROVE  Believed(s, k)
  <2>1. ASSUME NEW i \in DOMAIN s.out, i < k
        PROVE  i \in DOMAIN r.out /\ s.out[i] = r.out[i]
    BY <1>1, <1>2, <2>1
  <2>2. CASE r.tasks /\ \A i \in DOMAIN r.out : i < k => r.out[i].sub # "taskdone"
    BY <2>1, <2>2 DEF Believed
  <2>3. ASSUME NEW i \in DOMAIN r.out, i < k, r.out[i].sub = "task",
               \A n \in DOMAIN r.out : i < n /\ n < k => r.out[n].sub # "taskdone"
        PROVE  Believed(s, k)
    <3>1. i \in DOMAIN s.out /\ s.out[i].sub = "task"
      BY <1>3, <2>3
    <3>2. \A n \in DOMAIN s.out : i < n /\ n < k => s.out[n].sub # "taskdone"
      BY <2>1, <2>3
    <3> QED BY <2>3, <3>1, <3>2 DEF Believed
  <2> QED BY <1>5, <2>2, <2>3 DEF Believed
<1> QED BY <1>2, <1>3, <1>4, <1>5

\* One frame more: the start of a task makes it believed, its end does not hide another.
LEMMA SaysOne ==
  ASSUME NEW r, NEW s, NEW f \in Frames, r.out \in Seq(Frames), s.out = r.out \o <<f>>, s.tasks = r.tasks
  PROVE  /\ s.out \in Seq(Frames) /\ Len(s.out) = Len(r.out) + 1 /\ Len(r.out) \in Nat
         /\ \A k \in DOMAIN s.out :
              (k \in DOMAIN r.out /\ s.out[k] = r.out[k]) \/ (k = Len(r.out) + 1 /\ s.out[k] = f)
         /\ \A k \in DOMAIN r.out : Believed(r, k) => Believed(s, k)
         /\ Believed(r, Len(r.out) + 1) => Believed(s, Len(r.out) + 1)
         /\ Believed(r, Len(r.out) + 1) /\ f.sub # "taskdone" => Believed(s, Len(s.out) + 1)
         /\ f.sub = "task" => Believed(s, Len(s.out) + 1)
<1>1. <<f>> \in Seq(Frames) /\ Len(<<f>>) = 1 /\ DOMAIN <<f>> = {1} /\ <<f>>[1] = f
  OBVIOUS
<1>2. /\ s.out \in Seq(Frames) /\ Len(s.out) = Len(r.out) + 1
      /\ \A k \in DOMAIN r.out : k \in DOMAIN s.out /\ s.out[k] = r.out[k]
      /\ \A k \in DOMAIN s.out : k \in DOMAIN r.out \/ (k = Len(r.out) + 1 /\ s.out[k] = f)
      /\ \A k \in 1 .. Len(r.out) + 1 : Believed(r, k) => Believed(s, k)
  <2> DEFINE fs == <<f>>
  <2> HIDE DEF fs
  <2>1. fs \in Seq(Frames) /\ Len(fs) = 1 /\ DOMAIN fs = {1} /\ fs[1] = f /\ s.out = r.out \o fs
    BY <1>1 DEF fs
  <2>2. /\ s.out \in Seq(Frames) /\ Len(s.out) = Len(r.out) + Len(fs)
        /\ \A k \in DOMAIN r.out : k \in DOMAIN s.out /\ s.out[k] = r.out[k]
        /\ \A k \in DOMAIN s.out :
             k \in DOMAIN r.out \/ \E j \in DOMAIN fs : k = Len(r.out) + j /\ s.out[k] = fs[j]
        /\ \A k \in 1 .. Len(r.out) + 1 : Believed(r, k) => Believed(s, k)
    BY <2>1, SaysMore
  <2> QED BY <2>1, <2>2
<1>3. Len(r.out) \in Nat /\ DOMAIN r.out = 1 .. Len(r.out) /\ DOMAIN s.out = 1 .. Len(r.out) + 1
  BY <1>2
<1>4. Believed(r, Len(r.out) + 1) => Believed(s, Len(r.out) + 1)
  BY <1>2, <1>3
<1>5. s.out[Len(r.out) + 1] = f /\ Len(r.out) + 1 \in DOMAIN s.out
  BY <1>2, <1>3
<1>6. ASSUME Believed(s, Len(r.out) + 1), f.sub # "taskdone"
      PROVE  Believed(s, Len(s.out) + 1)
  <2>1. ASSUME NEW n \in DOMAIN s.out, ~(n < Len(r.out) + 1)
        PROVE  s.out[n].sub # "taskdone"
    <3>1. n = Len(r.out) + 1
      BY <1>3, <2>1
    <3> QED BY <3>1, <1>5, <1>6
  <2>2. \A n \in DOMAIN s.out : n < Len(r.out) + 1 => n < Len(s.out) + 1
    BY <1>2, <1>3
  <2> QED BY <1>6, <2>1, <2>2 DEF Believed
<1>7. f.sub = "task" => Believed(s, Len(s.out) + 1)
  <2>1. Len(r.out) + 1 < Len(s.out) + 1
        /\ \A n \in DOMAIN s.out : ~(Len(r.out) + 1 < n)
    BY <1>2, <1>3
  <2> QED BY <1>5, <2>1 DEF Believed
<1> QED BY <1>2, <1>3, <1>4, <1>6, <1>7
Running(r) == r.task \in {"running", "reported"}

LEMMA TellsOne ==
  ASSUME NEW r, NEW s, NEW f \in Frames, NEW t, NEW done, NEW told,
         r.out \in Seq(Frames), s.out = r.out \o <<f>>, s.tasks = r.tasks, Tells(r, t, done),
         told = done \/ told = t,
         \A k \in DOMAIN s.input : s.input[k].sub = "user" => s.input[k].turn = t,
         s.work # 0 => s.work = t,
         Running(s) => f.sub = "task" \/ (Running(r) /\ f.sub # "taskdone"),
         f.sub = "result" /\ f.ok => told = t \/ Running(r)
  PROVE  Tells(s, t, told)
<1>1. Running(s) => Believed(s, Len(s.out) + 1)
  BY SaysOne DEF Tells, Running
<1>2. ASSUME NEW k \in DOMAIN s.out, s.out[k].sub = "result", s.out[k].ok
      PROVE  told = t \/ Believed(s, k)
  <2>1. CASE k \in DOMAIN r.out /\ s.out[k] = r.out[k]
    <3>1. done = t \/ Believed(r, k)
      BY <1>2, <2>1 DEF Tells
    <3>2. Believed(r, k) => Believed(s, k)
      BY <2>1, SaysOne
    <3> QED BY <3>1, <3>2
  <2>2. CASE k = Len(r.out) + 1 /\ s.out[k] = f
    <3>1. Running(r) => Believed(s, Len(r.out) + 1)
      BY SaysOne DEF Tells, Running
    <3> QED BY <1>2, <2>2, <3>1
  <2>3. (k \in DOMAIN r.out /\ s.out[k] = r.out[k]) \/ (k = Len(r.out) + 1 /\ s.out[k] = f)
    BY SaysOne
  <2> QED BY <2>1, <2>2, <2>3
<1> QED BY <1>1, <1>2 DEF Tells, Running

\* What has been read of the input leaves a part of it.
LEMMA TailOfInput ==
  ASSUME NEW q \in Seq(Lines), q # <<>>
  PROVE  /\ Tail(q) \in Seq(Lines) /\ Head(q) \in Lines
         /\ 1 \in DOMAIN q /\ Head(q) = q[1]
         /\ \A k \in DOMAIN Tail(q) : k + 1 \in DOMAIN q /\ Tail(q)[k] = q[k + 1]
OBVIOUS

LEMMA TwoFrames ==
  ASSUME NEW q \in Seq(Frames), NEW f \in Frames, NEW g \in Frames
  PROVE  q \o <<f, g>> = (q \o <<f>>) \o <<g>>
<1> DEFINE a == q \o <<f, g>>
           b == (q \o <<f>>) \o <<g>>
           n == Len(q)
<1>1. n \in Nat /\ a \in Seq(Frames) /\ b \in Seq(Frames) /\ Len(a) = n + 2 /\ Len(b) = n + 2
  OBVIOUS
<1>2. \A k \in 1 .. n + 2 : a[k] = IF k <= n THEN q[k] ELSE IF k = n + 1 THEN f ELSE g
  OBVIOUS
<1>3. \A k \in 1 .. n + 2 : b[k] = IF k <= n THEN q[k] ELSE IF k = n + 1 THEN f ELSE g
  OBVIOUS
<1>4. \A k \in 1 .. n + 2 : a[k] = b[k]
  BY <1>2, <1>3
<1> HIDE DEF a, b
<1>5. a = b
  BY <1>1, <1>4
<1> QED BY <1>5 DEF a, b

LEMMA CliReadsSound ==
  ASSUME IInv, PipeInv, NEW c \in Processes, CliReads(c)
  PROVE  Sound
<1> DEFINE head == Head(conn[c].input)
           r == [conn[c] EXCEPT !.input = Tail(@)]
           idle == [r EXCEPT !.work = 0, !.task = "none", !.asking = "no"]
           p == conn[c]
<1>1. IsProcess(p) /\ IsPipe(p) /\ p.input # <<>> /\ CallHolds
  BY DEF IInv, Typed, PipeInv, CliReads, External, CallHolds
<1>2. /\ Tail(p.input) \in Seq(Lines) /\ head \in Lines /\ 1 \in DOMAIN p.input /\ head = p.input[1]
      /\ \A k \in DOMAIN Tail(p.input) : k + 1 \in DOMAIN p.input /\ Tail(p.input)[k] = p.input[k + 1]
  BY <1>1, TailOfInput DEF IsPipe
<1>3. /\ IsProcess(r) /\ r.input = Tail(p.input) /\ r.out = p.out /\ r.work = p.work
      /\ r.task = p.task /\ r.tasks = p.tasks
  BY <1>1 DEF IsProcess
<1> HIDE DEF r
<1>4. IsPipe(r) /\ Carries(p, r)
  <2>1. \A t : (\A k \in DOMAIN p.input : p.input[k].sub = "user" => p.input[k].turn = t)
                => \A k \in DOMAIN r.input : r.input[k].sub = "user" => r.input[k].turn = t
    BY <1>2, <1>3
  <2>2. Carries(p, r)
    <3>1. \A k : Believed(p, k) => Believed(r, k)
      BY <1>3 DEF Believed
    <3> HIDE DEF p
    <3>2. ASSUME NEW t, NEW done, Tells(p, t, done)
          PROVE  Tells(r, t, done)
      BY <1>3, <2>1, <3>1, <3>2 DEF Tells
    <3> QED BY <3>2 DEF Carries
  <2>3. IsPipe(r)
    BY <1>1, <1>2, <1>3 DEF IsPipe
  <2> QED BY <2>2, <2>3
\* A reply, and the result of a turn that an interrupt ends, claim no success.
<1>5. ASSUME NEW q, NEW s, NEW f \in Frames, IsPipe(q), s.out = q.out \o <<f>>, s.tasks = q.tasks,
             s.input = q.input, (s.work = q.work /\ s.task = q.task) \/ (s.work = 0 /\ s.task = "none"),
             f.sub \in {"reply", "result"}, f.sub = "result" => ~f.ok
      PROVE  IsPipe(s) /\ Carries(q, s)
  <2>1. s.out \in Seq(Frames)
    BY <1>5, SaysOne DEF IsPipe
  <2>2. IsPipe(s)
    BY <2>1, <1>5 DEF IsPipe
  <2>3. ASSUME NEW t, NEW done, Tells(q, t, done)
        PROVE  Tells(s, t, done)
    <3>1. /\ \A k \in DOMAIN s.input : s.input[k].sub = "user" => s.input[k].turn = t
          /\ s.work # 0 => s.work = t
      BY <1>5, <2>3 DEF Tells
    <3>2. Running(s) => Running(q) /\ f.sub # "taskdone"
      BY <1>5 DEF Running
    <3> QED BY <1>5, <2>3, <3>1, <3>2, TellsOne DEF IsPipe
  <2> QED BY <2>2, <2>3 DEF Carries
<1> DEFINE result == Frame("result", Initialize, FALSE)
<1>6. result \in Frames /\ result.sub = "result" /\ ~result.ok
      /\ \A ok \in BOOLEAN : Frame("reply", head, ok) \in Frames /\ Frame("reply", head, ok).sub = "reply"
  BY <1>2, ControlsDiffer DEF Frame, Frames
<1> HIDE DEF result
<1>7. CASE head.sub = "user"
  <2> DEFINE r1 == [r EXCEPT !.work = head.turn, !.asking = "no"]
             s == [r1 EXCEPT !.out = r.out \o <<>>]
  <2>1. /\ s.input = r.input /\ s.out = r.out \o <<>> /\ s.work = head.turn /\ s.task = r.task /\ s.tasks = r.tasks
    BY <1>3 DEF IsProcess
  <2>2. r1.out = r.out
    BY <1>3 DEF IsProcess
  <2>3. conn' = [conn EXCEPT ![c] = s]
    BY <1>7, <2>2 DEF CliReads, Says, r
  <2> HIDE DEF r1, s
  <2>4. r.out \o <<>> = r.out
    BY <1>4 DEF IsPipe
  <2>5. IsPipe(s)
    BY <1>1, <1>2, <1>4, <1>7, <2>1, <2>4 DEF IsPipe
  <2>6. ASSUME NEW t, NEW done, Tells(p, t, done)
        PROVE  Tells(s, t, done)
    <3>1. head.turn = t
      BY <1>2, <1>7, <2>6 DEF Tells
    <3>2. Tells(r, t, done)
      BY <1>4, <2>6 DEF Carries
    <3> QED BY <3>1, <3>2, <2>1, <2>4 DEF Tells, Believed
  <2> QED BY <1>1, <2>3, <2>5, <2>6, OneIsSound DEF Carries
<1>8. CASE head.sub # "user"
  <2>1. PICK ok \in BOOLEAN :
          \/ Says(c, r, <<Frame("reply", head, ok)>>)
          \/ Says(c, idle, <<Frame("reply", head, ok), result>>)
          \/ Says(c, idle, <<result, Frame("reply", head, ok)>>)
    BY <1>8 DEF CliReads, r, result
  <2> DEFINE reply == Frame("reply", head, ok)
  <2>2. reply \in Frames /\ reply.sub = "reply"
    BY <1>6
  <2> HIDE DEF reply, head
  <2>3. CASE Says(c, r, <<reply>>)
    <3> DEFINE s == [r EXCEPT !.out = r.out \o <<reply>>]
    <3>1. /\ s.input = r.input /\ s.out = r.out \o <<reply>> /\ s.work = r.work /\ s.task = r.task /\ s.tasks = r.tasks
      BY <1>3 DEF IsProcess
    <3>2. conn' = [conn EXCEPT ![c] = s]
      BY <2>3 DEF Says
    <3> HIDE DEF s
    <3>3. IsPipe(s) /\ Carries(r, s)
      BY <1>4, <1>5, <2>2, <3>1
    <3> QED BY <1>1, <1>4, <3>2, <3>3, OneIsSound DEF Carries
  <2>4. ASSUME NEW f \in Frames, NEW g \in Frames, f.sub \in {"reply", "result"}, g.sub \in {"reply", "result"},
               f.sub = "result" => ~f.ok, g.sub = "result" => ~g.ok, Says(c, idle, <<f, g>>)
        PROVE  Sound
    <3> DEFINE s == [idle EXCEPT !.out = idle.out \o <<f, g>>]
               m == [idle EXCEPT !.out = idle.out \o <<f>>]
    <3>1. /\ s.input = r.input /\ s.out = r.out \o <<f, g>> /\ s.work = 0 /\ s.task = "none" /\ s.tasks = r.tasks
          /\ m.input = r.input /\ m.out = r.out \o <<f>> /\ m.work = 0 /\ m.task = "none" /\ m.tasks = r.tasks
      BY <1>3 DEF IsProcess
    <3>2. conn' = [conn EXCEPT ![c] = s]
      BY <2>4 DEF Says
    <3> HIDE DEF s, m
    <3>3. s.out = m.out \o <<g>>
      <4>1. r.out \o <<f, g>> = (r.out \o <<f>>) \o <<g>>
        BY <1>4, TwoFrames DEF IsPipe
      <4> QED BY <3>1, <4>1
    <3>4. IsPipe(m) /\ Carries(r, m)
      BY <1>4, <1>5, <2>4, <3>1
    <3>5. IsPipe(s) /\ Carries(m, s)
      BY <1>5, <2>4, <3>1, <3>3, <3>4
    <3> QED BY <1>1, <1>4, <3>2, <3>4, <3>5, OneIsSound DEF Carries
  <2> HIDE DEF idle
  <2>5. Says(c, r, <<reply>>) \/ Says(c, idle, <<reply, result>>) \/ Says(c, idle, <<result, reply>>)
    BY <2>1 DEF reply
  <2> QED BY <2>2, <2>3, <2>4, <2>5, <1>6
<1> QED BY <1>7, <1>8
LEMMA CliWorksSound ==
  ASSUME IInv, PipeInv, NEW c \in Processes, CliWorks(c)
  PROVE  Sound
<1> DEFINE r == conn[c]
           t == op.turn
<1>1. IsProcess(r) /\ IsPipe(r) /\ r.work # 0
  BY DEF IInv, Typed, PipeInv, CliWorks
<1>2. op' = op /\ starting' = starting
  BY DEF CliWorks, External
<1>3. \A sub \in {"ask", "task", "taskdone", "result", "bad"}, ok \in BOOLEAN :
        /\ Frame(sub, Initialize, ok) \in Frames
        /\ Frame(sub, Initialize, ok).sub = sub /\ Frame(sub, Initialize, ok).ok = ok
  BY ControlsDiffer DEF Frame, Frames
\* What the turn says while it goes on.
<1>4. ASSUME NEW x, NEW f \in Frames, IsProcess(x), Says(c, x, <<f>>), hist' = hist,
             x.input = r.input /\ x.out = r.out /\ x.work = r.work /\ x.tasks = r.tasks,
             Running(x) => f.sub = "task" \/ (Running(r) /\ f.sub # "taskdone"),
             f.sub = "result" /\ f.ok => Running(r)
      PROVE  Sound
  <2> DEFINE s == [x EXCEPT !.out = x.out \o <<f>>]
  <2>1. /\ s.input = r.input /\ s.out = r.out \o <<f>> /\ s.work = r.work /\ s.task = x.task /\ s.tasks = r.tasks
    BY <1>4 DEF IsProcess
  <2>2. conn' = [conn EXCEPT ![c] = s]
    BY <1>4 DEF Says
  <2> HIDE DEF s
  <2>3. r.out \in Seq(Frames) /\ s.out \in Seq(Frames)
    BY <1>1, <1>4, <2>1, SaysOne DEF IsPipe
  <2>4. IsPipe(s)
    BY <1>1, <2>1, <2>3 DEF IsPipe
  <2>5. ASSUME NEW u, NEW done, Tells(r, u, done)
        PROVE  Tells(s, u, done)
    <3>1. /\ \A k \in DOMAIN s.input : s.input[k].sub = "user" => s.input[k].turn = u
          /\ s.work # 0 => s.work = u
      BY <2>1, <2>5 DEF Tells
    <3>2. Running(s) => f.sub = "task" \/ (Running(r) /\ f.sub # "taskdone")
      BY <1>4, <2>1 DEF Running
    <3> HIDE DEF r
    <3> QED BY <1>4, <2>1, <2>3, <2>5, <3>1, <3>2, TellsOne
  <2>6. CallHolds
    BY <1>2, <1>4 DEF CallHolds
  <2> QED BY <2>2, <2>4, <2>5, <2>6, OneIsSound DEF Carries
\* And the result that ends it.
<1>5. ASSUME NEW ok \in BOOLEAN,
             Says(c, [r EXCEPT !.work = 0, !.task = "none", !.asking = "no"], <<Frame("result", Initialize, ok)>>),
             hist' = IF ok /\ r.work = op.turn THEN [hist EXCEPT !.done = r.work] ELSE hist
      PROVE  Sound
  <2> DEFINE f == Frame("result", Initialize, ok)
             x == [r EXCEPT !.work = 0, !.task = "none", !.asking = "no"]
             s == [x EXCEPT !.out = x.out \o <<f>>]
  <2>1. /\ s.input = r.input /\ s.out = r.out \o <<f>> /\ s.work = 0 /\ s.task = "none" /\ s.tasks = r.tasks
    BY <1>1 DEF IsProcess
  <2>2. conn' = [conn EXCEPT ![c] = s]
    BY <1>5 DEF Says
  <2>3. f \in Frames /\ f.sub = "result" /\ f.ok = ok
    BY <1>3
  <2> HIDE DEF s, x, f
  <2>4. r.out \in Seq(Frames) /\ s.out \in Seq(Frames)
    BY <1>1, <2>1, <2>3, SaysOne DEF IsPipe
  <2>5. IsPipe(s)
    BY <1>1, <2>1, <2>4 DEF IsPipe
  <2>6. PipesHold /\ conn'[c] = s
    BY <2>2, <2>5, OnePipe
  <2>7. hist'.success = hist.success /\ (hist'.done = hist.done \/ hist'.done = t)
        /\ (ok /\ r.work = t => hist'.done = t)
    BY <1>5 DEF IInv, Typed, IsHistory
  <2>8. op.pc = "result" /\ ~op.behind => Tells(conn'[op.conn], t, hist'.done)
    <3> SUFFICES ASSUME op.pc = "result", ~op.behind
                 PROVE  Tells(conn'[op.conn], t, hist'.done)
      OBVIOUS
    <3>1. Tells(conn[op.conn], t, hist.done) /\ op.conn \in Processes
      BY ResultIsOfProcess DEF PipeInv
    <3>2. CASE op.conn # c
      <4>1. conn'[op.conn] = conn[op.conn]
        BY <2>2, <3>2
      <4> QED BY <2>7, <3>1, <4>1, DoneIsTold
    <3>3. CASE op.conn = c
      <4>1. r.work = t
        BY <1>1, <3>1, <3>3 DEF Tells
      <4>2. /\ \A k \in DOMAIN s.input : s.input[k].sub = "user" => s.input[k].turn = t
            /\ s.work = 0 /\ ~Running(s)
        BY <2>1, <3>1, <3>3 DEF Tells, Running
      <4>3. f.sub = "result" /\ f.ok => hist'.done = t
        BY <2>3, <2>7, <4>1
      <4>4. Tells(r, t, hist.done)
        BY <3>1, <3>3
      <4>5. s.out = r.out \o <<f>> /\ s.tasks = r.tasks
        BY <2>1
      <4> HIDE DEF r, t
      <4>6. Tells(s, t, hist'.done)
        BY <2>3, <2>4, <2>7, <4>2, <4>3, <4>4, <4>5, TellsOne
      <4> QED BY <2>6, <3>3, <4>6
    <3> QED BY <3>2, <3>3
  <2>9. PipeInv'
    BY <1>2, <2>6, <2>7, <2>8 DEF PipeInv, PipesHold
  <2> QED BY <1>2, <2>9 DEF Sound, AnswerIsTrue
<1>6. CASE Says(c, [r EXCEPT !.asking = "asked"], <<Frame("ask", Initialize, TRUE)>>) /\ hist' = hist
  <2> DEFINE x == [r EXCEPT !.asking = "asked"]
  <2>1. IsProcess(x) /\ x.input = r.input /\ x.out = r.out /\ x.work = r.work /\ x.tasks = r.tasks /\ x.task = r.task
    BY <1>1 DEF IsProcess
  <2> HIDE DEF x
  <2> QED BY <1>3, <1>4, <1>6, <2>1 DEF x, Running
<1>7. CASE /\ Says(c, [r EXCEPT !.task = "running"], <<Frame("task", Initialize, TRUE)>>) /\ hist' = hist
  <2> DEFINE x == [r EXCEPT !.task = "running"]
  <2>1. IsProcess(x) /\ x.input = r.input /\ x.out = r.out /\ x.work = r.work /\ x.tasks = r.tasks
    BY <1>1 DEF IsProcess
  <2> HIDE DEF x
  <2> QED BY <1>3, <1>4, <1>7, <2>1 DEF x
<1>8. CASE Says(c, [r EXCEPT !.task = "done"], <<Frame("taskdone", Initialize, TRUE)>>) /\ hist' = hist
  <2> DEFINE x == [r EXCEPT !.task = "done"]
  <2>1. IsProcess(x) /\ x.input = r.input /\ x.out = r.out /\ x.work = r.work /\ x.tasks = r.tasks /\ x.task = "done"
    BY <1>1 DEF IsProcess
  <2> HIDE DEF x
  <2>2. ~Running(x)
    BY <2>1 DEF Running
  <2> QED BY <1>3, <1>4, <1>8, <2>1, <2>2 DEF x
<1>9. CASE /\ r.task = "running" /\ hist' = hist
           /\ Says(c, [r EXCEPT !.task = "reported"], <<Frame("result", Initialize, TRUE)>>)
  <2> DEFINE x == [r EXCEPT !.task = "reported"]
  <2>1. IsProcess(x) /\ x.input = r.input /\ x.out = r.out /\ x.work = r.work /\ x.tasks = r.tasks
    BY <1>1 DEF IsProcess
  <2>2. Running(r)
    BY <1>9 DEF Running
  <2> HIDE DEF x
  <2> QED BY <1>3, <1>4, <1>9, <2>1, <2>2 DEF x
<1>10. CASE Says(c, r, <<Frame("bad", Initialize, FALSE)>>) /\ hist' = hist
  BY <1>1, <1>3, <1>4, <1>10
<1> HIDE DEF r
<1> QED BY <1>5, <1>6, <1>7, <1>8, <1>9, <1>10 DEF CliWorks, r

-----------------------------------------------------------------------------
(* Every step.                                                             *)

LEMMA ProcessStepSound ==
  ASSUME IInv, PipeInv, NEW c \in Processes, ProcessStep(c)
  PROVE  Sound
<1>1. InterruptTimeout(c) => Sound
  BY StopNowSound DEF InterruptTimeout
<1> QED BY <1>1, ReceiveSound, ControlTimeoutSound, BackgroundTimeoutSound, RootExitsSound, ClosesSound,
           TermEndsSound, CliReadsSound, CliWorksSound, KinEndsSound DEF ProcessStep

\* A waiting call stops, interrupts or looks; what it learns is no answer.
LEMMA WaitersSound ==
  ASSUME IInv, PipeInv, NEW w \in Waiters,
         Stop(w) \/ InterruptAndWait(w) \/ Shutdown(w) \/ WaiterStep(w)
  PROVE  Sound
<1>1. CASE Stop(w) \/ Shutdown(w) \/ InterruptDone(w)
  BY <1>1, StopNowSound DEF Stop, Shutdown, InterruptDone, StopAndWait
<1>2. CASE InterruptAndWait(w)
  BY <1>2, InterruptEffectSound DEF InterruptAndWait
<1>3. CASE ShutdownLooks(w)
  BY <1>3, ShutdownLooksSound
<1>4. CASE InterruptSettled(w) \/ EntryGone(w) \/ Poll(w) \/ Released(w) \/ Drained(w) \/ ShutdownEnds(w)
  <2>1. conn' = conn /\ op' = op /\ starting' = starting
    BY <1>4 DEF InterruptSettled, EntryGone, Poll, Released, Drained, ShutdownEnds
  <2>2. hist'.success = hist.success /\ hist'.done = hist.done
    BY <1>4 DEF InterruptSettled, EntryGone, Poll, Released, Drained, ShutdownEnds, Told, IInv, Typed, IsHistory
  <2> QED BY <2>1, <2>2, SamePipes DEF CallHolds
<1> QED BY <1>1, <1>2, <1>3, <1>4 DEF WaiterStep

LEMMA NextSound ==
  ASSUME IInv, PipeInv, [Next]_vars
  PROVE  Sound
<1>1. CASE Next
  <2>1. Interrupt => Sound
    BY InterruptEffectSound DEF Interrupt
  <2> QED BY <1>1, <2>1, SendSound, PrepareSound, HydratedSound, TranscriptKnownSound, RespondSound,
             HistoryFailsSound, ConfigureSound, ConfigEndsSound, ProcessStepSound, WaitersSound DEF Next
<1>2. CASE vars' = vars
  BY <1>2, NothingIsSaid DEF vars
<1> QED BY <1>1, <1>2

LEMMA PipesStart ==
  ASSUME Init
  PROVE  PipeInv
<1>1. <<>> \in Seq(Lines) /\ <<>> \in Seq(Frames) /\ DOMAIN <<>> = {}
  OBVIOUS
<1>2. NoProcess.input = <<>> /\ NoProcess.out = <<>> /\ NoProcess.work = 0 /\ NoProcess.task = "none"
  BY DEF NoProcess
<1>3. IsPipe(NoProcess)
  BY <1>1, <1>2 DEF IsPipe
<1>4. op.kind = "none" /\ op.pc = "none" /\ \A c \in Processes : conn[c] = NoProcess
  BY DEF Init, NoOp
<1> QED BY <1>3, <1>4 DEF PipeInv

\* A message is answered as successful only when the CLI has finished it, with its
\* background tasks, unless the CLI was still busy with an earlier one when it was
\* written (Result, isBusy and the tasks of the conversation); and one that is stopped
\* while it is prepared is never written to a process (stop, start and send).
THEOREM AnswersAreAlwaysTrue == Spec => AnswersAreTrue
<1>1. IInv /\ PipeInv /\ [Next]_vars => PipeInv' /\ AnswerIsTrue
  BY NextSound DEF Sound
<1>2. Init => PipeInv
  BY PipesStart
<1>3. Spec => []IInv
  BY RuntimeIsSound
<1> QED BY <1>1, <1>2, <1>3, PTL DEF Spec, AnswersAreTrue, AnswerIsTrue
=============================================================================
