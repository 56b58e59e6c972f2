--------------------------- MODULE NativeRunProofs ---------------------------
(***************************************************************************)
(* What TLAPS proves of the run store and of the run loop over it, for any *)
(* processes, runs, calls and responses, any failed appends and crashes.   *)
(***************************************************************************)
EXTENDS NativeRun, FiniteSetTheorems, TLAPS, WellFoundedInduction

-----------------------------------------------------------------------------
(* The writer lock.                                                        *)

HostStates == {"out", "creating", "loading", "writer", "probing", "reclaiming", "dead"}

\* Who opens or has opened the store is named in the lock, but for the one who
\* has created the file and not yet written it; and a lock is taken away
\* from a process only after its death.
LockInv ==
    /\ host \in [Hosts -> HostStates]
    /\ \A h \in Hosts :
          /\ host[h] \in {"loading", "writer"} => lock = h
          /\ host[h] = "creating" => lock = TORN
          /\ host[h] = "reclaiming" => seen[h] \in Hosts /\ host[seen[h]] = "dead"
    /\ \A g, h \in Hosts : host[g] = "creating" /\ host[h] = "creating" => g = h
    /\ seen \in [Hosts -> Hosts \cup {NONE}]

LEMMA LockInvInit == Init => LockInv
  BY DEF Init, StoreInit, LockInv, HostStates

\* Nothing the loop does touches the lock.
LEMMA LoopKeepsLock == ASSUME LoopStep \/ Abort \/ ApprovalExpires PROVE UNCHANGED lockVars
  BY DEF LoopStep, Abort, ApprovalExpires, RequestModel, Diagnose, ModelReturns, RecordFailure,
         RecordResponse, Judge, ReserveSummary, SettleSummary, EndBatch, DeclineCall, ApproveCall,
         PrepareCall, ExecuteCall, SpawnCommand, ToolReturns, EndPending, Finish,
         Turn, Write, WriteIfRoom, storeVars, lockVars

\* A process that gives up the lock it holds.
LEMMA GivingUpKeepsLock ==
    ASSUME LockInv, NEW h \in Hosts, host[h] \in {"loading", "writer"},
           lock' = NONE, Move(h, "out"), UNCHANGED seen
    PROVE  LockInv'
  <1>1. lock = h
    BY DEF LockInv
  <1>2. \A g \in Hosts : host[g] \notin {"loading", "writer", "creating"} \/ g = h
    BY <1>1, StoreConstants DEF LockInv
  <1>. QED  BY <1>1, <1>2 DEF LockInv, Move, HostStates

LEMMA LockStep ==
    ASSUME LockInv, NEW h \in Hosts, HostStep(h)
    PROVE  LockInv'
  <1>1. CASE CreateLock(h)
    BY <1>1, StoreConstants DEF LockInv, CreateLock, Move, HostStates
  <1>2. CASE WriteLock(h)
    <2>1. \A g \in Hosts : host[g] \notin {"loading", "writer"} /\ (host[g] = "creating" => g = h)
      BY <1>2, StoreConstants DEF LockInv, WriteLock
    <2>. QED  BY <1>2, <2>1 DEF LockInv, WriteLock, Move, HostStates
  <1>3. CASE ContendLock(h)
    BY <1>3 DEF LockInv, ContendLock, Move, HostStates
  <1>4. CASE ProbeOwner(h)
    BY <1>4 DEF LockInv, ProbeOwner, Move, HostStates
  <1>5. CASE ReclaimLock(h)
    <2>1. \A g \in Hosts : host[g] \in {"loading", "writer", "creating"} => lock # seen[h]
      BY <1>5, StoreConstants DEF LockInv, ReclaimLock
    <2>. QED  BY <1>5, <2>1 DEF LockInv, ReclaimLock, Move, HostStates
  <1>6. CASE Load(h)
    <2>1. CASE Move(h, "writer") /\ UNCHANGED <<seen, lock>>
      BY <1>6, <2>1 DEF LockInv, Load, Move, HostStates
    <2>2. CASE Refuse(h)
      BY <1>6, <2>2, GivingUpKeepsLock DEF Load, Refuse
    <2>. QED  BY <1>6, <2>1, <2>2 DEF Load
  <1>7. CASE Close(h)
    BY <1>7, GivingUpKeepsLock DEF Close
  <1>8. CASE Die(h)
    BY <1>8 DEF LockInv, Die, Move, HostStates
  <1>9. CASE UNCHANGED lockVars
    BY <1>9 DEF LockInv, lockVars
  <1>10. ASSUME NEW r \in Runs, NEW c \in Commands,
                PrepareStartup(h, r) \/ CloseStartup(h, r) \/ ResolveRecovery(h, r) \/ BeginRun(h, r)
                \/ CommandEnds(h, r, c)
         PROVE  UNCHANGED lockVars
    BY <1>10 DEF PrepareStartup, CloseStartup, ResolveRecovery, BeginRun, CommandEnds, Write, storeVars, lockVars
  <1>11. ASSUME NEW r \in Runs,
                PrepareStartup(h, r) \/ CloseStartup(h, r) \/ ResolveRecovery(h, r) \/ BeginRun(h, r)
         PROVE  UNCHANGED lockVars
    BY <1>11 DEF PrepareStartup, CloseStartup, ResolveRecovery, BeginRun, Write, storeVars, lockVars
  <1>. QED  BY <1>1, <1>2, <1>3, <1>4, <1>5, <1>6, <1>7, <1>8, <1>9, <1>10, <1>11 DEF HostStep

LEMMA LockInvNext == LockInv /\ [Next]_vars => LockInv'
  <1> SUFFICES ASSUME LockInv, [Next]_vars PROVE LockInv'
    OBVIOUS
  <1>1. CASE UNCHANGED lockVars
    BY <1>1 DEF LockInv, lockVars
  <1>2. CASE UNCHANGED vars
    BY <1>1, <1>2 DEF vars, storeVars, lockVars
  <1>. QED  BY <1>1, <1>2, LoopKeepsLock, LockStep DEF Next

LEMMA LockInvHolds == Spec => []LockInv
  <1>. QED  BY LockInvInit, LockInvNext, PTL DEF Spec

\* Two processes never have the store open together: the lock names the one,
\* and only a lock of a dead process is taken away (acquireWriter).
THEOREM StoreHasOneWriter == Spec => []OneWriter
  <1>1. LockInv => OneWriter
    <2> SUFFICES ASSUME LockInv PROVE OneWriter
      OBVIOUS
    <2> DEFINE open == {h \in Hosts : host[h] \in {"loading", "writer"}}
    <2>1. CASE open = {}
      BY <2>1, FS_EmptySet DEF OneWriter
    <2>2. CASE open # {}
      <3>1. PICK h \in open : TRUE
        BY <2>2
      <3>2. open = {h}
        BY <3>1 DEF LockInv
      <3>. QED  BY <3>2, FS_Singleton DEF OneWriter
    <2>. QED  BY <2>1, <2>2
  <1>. QED  BY <1>1, LockInvHolds, PTL

-----------------------------------------------------------------------------
(* The journal and the effects of tools.                                   *)

Places == {"idle", "turn", "asked", "sending", "failing", "answered", "judge", "summarizing",
           "batch", "approved", "prepared", "spawning", "executing", "ending"}
Loop == [pc : Places, run : Runs \cup {NONE}, pending : Seq(Calls),
         abort : BOOLEAN, fresh : BOOLEAN, stop : Stops \cup {"none"}]

Done(j, r, c) == About(j, "tool_completed", r, c) # {}

\* What has run was prepared and asked for, and the results on record are true.
Preparedness(j, eff) ==
    \A r \in Runs, c \in Calls : eff[<<r, c>>] = 1 => Prepared(j, r, c) /\ c \in Requested(j, r)
IsTrue(eff, e) ==
    e.type = "tool_completed" =>
        /\ e.run \in Runs /\ e.item \in Calls
        /\ e.item \notin Reads =>
              /\ e.how = "completed" => eff[<<e.run, e.item>>] = 1
              /\ e.how \in {"denied", "cancelled", "not_executed"} => eff[<<e.run, e.item>>] = 0
World(j, eff) ==
    /\ j \in Seq(Record)
    /\ eff \in [Runs \X Calls -> {0, 1}]
    /\ Preparedness(j, eff)
    /\ \A i \in DOMAIN j : IsTrue(eff, j[i])

\* A call that still waits has not run, or is on record already, unless the
\* loop ends without knowing.
Waiting(j, eff, l, c) ==
    \/ eff[<<l.run, c>>] = 0 \/ Done(j, l.run, c)
    \/ (l.pc = "executing" /\ c = Head(l.pending))

\* Where the loop is tells what has become of the call it is about.
Sane(j, eff, l) ==
    /\ l \in Loop
    /\ l.pc # "idle" => l.run \in Runs
    /\ l.stop = "recovery_required" => l.pc = "ending"
    /\ l.pc = "ending" => l.stop # "none"
    /\ l.pc \in {"approved", "prepared", "spawning", "executing"} => l.pending # <<>>
    /\ l.pc \in {"prepared", "spawning"} =>
          LET c == Head(l.pending)
          IN  /\ Prepared(j, l.run, c) /\ c \in Requested(j, l.run)
              /\ eff[<<l.run, c>>] = 0 /\ ~Done(j, l.run, c)
    /\ l.pc = "executing" => eff[<<l.run, Head(l.pending)>>] = 1
    /\ l.pc # "idle" /\ l.stop # "recovery_required" =>
          \A i \in DOMAIN l.pending : Waiting(j, eff, l, l.pending[i])

JournalInv == World(journal, effects) /\ Sane(journal, effects, loop)

LEMMA Appended ==
    ASSUME NEW j \in Seq(Record), NEW e \in Record
    PROVE  LET k == Append(j, e)
           IN  /\ k \in Seq(Record) /\ DOMAIN k = DOMAIN j \cup {Len(j) + 1}
               /\ k[Len(j) + 1] = e /\ \A i \in DOMAIN j : k[i] = j[i]
  OBVIOUS

\* What one more record adds to what a journal says of a call.
LEMMA AppendedSays ==
    ASSUME NEW j \in Seq(Record), NEW e \in Record, NEW r, NEW c
    PROVE  LET k == Append(j, e)
           IN  /\ Prepared(k, r, c) <=>
                      (Prepared(j, r, c) \/ (e.type = "tool_prepared" /\ e.run = r /\ e.item = c))
               /\ Done(k, r, c) <=>
                      (Done(j, r, c) \/ (e.type = "tool_completed" /\ e.run = r /\ e.item = c))
               /\ Requested(j, r) \subseteq Requested(k, r)
  <1> DEFINE k == Append(j, e)
  <1>1. /\ DOMAIN k = DOMAIN j \cup {Len(j) + 1}
        /\ k[Len(j) + 1] = e /\ \A i \in DOMAIN j : k[i] = j[i]
    BY Appended
  <1> HIDE DEF k
  <1>2. ASSUME NEW t
        PROVE  About(k, t, r, c) # {} <=> (About(j, t, r, c) # {} \/ (e.type = t /\ e.run = r /\ e.item = c))
    BY <1>1 DEF About, Of
  <1>3. Requested(j, r) \subseteq Requested(k, r)
    <2>1. Responses(j, r) \subseteq Responses(k, r) /\ Responses(j, r) \subseteq DOMAIN j
      BY <1>1 DEF Responses, Of
    <2>. QED  BY <1>1, <2>1 DEF Requested
  <1>. QED  BY <1>2, <1>3 DEF Prepared, Done, k

\* What the store demands of a record about a tool (validateEvent).
LEMMA ToolIsOpen ==
    ASSUME NEW j, NEW e, Valid(j, e), e.type \in {"tool_prepared", "tool_completed"}
    PROVE  /\ e.item \in Requested(j, e.run)
           /\ ~Done(j, e.run, e.item)
           /\ e.type = "tool_prepared" => ~Prepared(j, e.run, e.item)
  <1>1. ~ValidLife(j, e) /\ ~ValidModel(j, e) /\ ~ValidCommand(j, e) /\ ~ValidEnd(j, e)
    BY DEF ValidLife, ValidModel, ValidCommand, ValidEnd
  <1>2. ValidTool(j, e)
    BY <1>1 DEF Valid
  <1>3. Open(j, e.run, e.item) /\ (e.type = "tool_prepared" => ~Prepared(j, e.run, e.item))
    BY <1>2 DEF ValidTool
  <1>. QED  BY <1>3 DEF Open, Completed, Done

\* A record that is true of the effects keeps the journal true.
LEMMA WorldGrows ==
    ASSUME NEW j, NEW eff, World(j, eff), NEW e \in Record, IsTrue(eff, e)
    PROVE  World(Append(j, e), eff)
  <1> DEFINE k == Append(j, e)
  <1>1. j \in Seq(Record)
    BY DEF World
  <1>2. /\ k \in Seq(Record) /\ DOMAIN k = DOMAIN j \cup {Len(j) + 1}
        /\ k[Len(j) + 1] = e /\ \A i \in DOMAIN j : k[i] = j[i]
    BY <1>1, Appended
  <1>3. \A r, c : /\ Prepared(j, r, c) => Prepared(k, r, c)
                  /\ Requested(j, r) \subseteq Requested(k, r)
    BY <1>1, AppendedSays
  <1> HIDE DEF k
  <1>4. Preparedness(k, eff)
    BY <1>3 DEF World, Preparedness
  <1>5. \A i \in DOMAIN k : IsTrue(eff, k[i])
    BY <1>2 DEF World
  <1>6. World(k, eff)
    BY <1>2, <1>4, <1>5 DEF World
  <1>. QED  BY <1>6 DEF k

\* A record about no tool changes nothing for the loop, wherever it is.
LEMMA NeutralKeeps ==
    ASSUME NEW j \in Seq(Record), NEW eff, NEW l, Sane(j, eff, l), NEW e \in Record,
           e.type \notin {"tool_prepared", "tool_completed"}
    PROVE  Sane(Append(j, e), eff, l)
  <1> DEFINE k == Append(j, e)
  <1>1. \A r, c : /\ Prepared(k, r, c) <=> Prepared(j, r, c)
                  /\ Done(k, r, c) <=> Done(j, r, c)
                  /\ Requested(j, r) \subseteq Requested(k, r)
    BY AppendedSays
  <1> HIDE DEF k
  <1>2. Sane(k, eff, l)
    BY <1>1 DEF Sane, Waiting
  <1>. QED  BY <1>2 DEF k

\* The loop moves on with the calls that it has.
LEMMA MoveIsSane ==
    ASSUME NEW j, NEW eff, NEW l, Sane(j, eff, l),
           l.pc \notin {"idle", "executing"}, l.stop # "recovery_required",
           NEW m \in Loop, m.run = l.run, m.pending = l.pending,
           m.pc \notin {"idle", "prepared", "spawning", "executing"},
           m.pc = "approved" => m.pending # <<>>,
           m.stop = "recovery_required" => m.pc = "ending",
           m.pc = "ending" => m.stop # "none"
    PROVE  Sane(j, eff, m)
  BY DEF Sane, Waiting

LEMMA QuietIsSane == ASSUME NEW j, NEW eff PROVE Sane(j, eff, Quiet)
  <1>1. <<>> \in Seq(Calls)
    OBVIOUS
  <1>2. Quiet \in Loop /\ Quiet.pc = "idle" /\ Quiet.stop = "none"
    BY <1>1 DEF Quiet, Loop, Places
  <1>. QED  BY <1>2 DEF Sane

\* The record of its result takes the next call out of the batch.
LEMMA AnswerIsSane ==
    ASSUME NEW j \in Seq(Record), NEW eff, NEW l, Sane(j, eff, l), l.pending # <<>>,
           l.pc \in {"batch", "approved", "executing", "ending"}, l.stop # "recovery_required",
           NEW e \in Record, e.type = "tool_completed", e.run = l.run, e.item = Head(l.pending)
    PROVE  Sane(Append(j, e), eff,
                [l EXCEPT !.pc = IF @ = "ending" THEN @ ELSE "batch", !.pending = Tail(@)])
  <1> DEFINE k == Append(j, e)
             m == [l EXCEPT !.pc = IF @ = "ending" THEN @ ELSE "batch", !.pending = Tail(@)]
  <1>1. \A r, c : Done(k, r, c) <=> (Done(j, r, c) \/ (r = l.run /\ c = Head(l.pending)))
    BY AppendedSays
  <1>2. l \in Loop /\ l.run \in Runs
    BY DEF Sane
  <1>3. /\ m.pc \in {"batch", "ending"} /\ m.run = l.run /\ m.stop = l.stop
        /\ m.pending = Tail(l.pending) /\ (m.pc = "ending" => l.pc = "ending")
    BY <1>2 DEF Loop
  <1>4. m \in Loop
    <2>1. Tail(l.pending) \in Seq(Calls)
      BY <1>2 DEF Loop
    <2>. QED  BY <1>2, <2>1 DEF Loop, Places
  <1>5. \A i \in DOMAIN Tail(l.pending) :
            i + 1 \in DOMAIN l.pending /\ Tail(l.pending)[i] = l.pending[i + 1]
    BY <1>2 DEF Loop
  <1>6. \A i \in DOMAIN l.pending : Waiting(j, eff, l, l.pending[i])
    BY DEF Sane
  <1> HIDE DEF k, m
  <1>7. \A i \in DOMAIN m.pending : Waiting(k, eff, m, m.pending[i])
    BY <1>1, <1>3, <1>5, <1>6, ZenonT(60) DEF Waiting
  <1>8. m.run \in Runs /\ (m.stop = "recovery_required" => m.pc = "ending")
        /\ (m.pc = "ending" => m.stop # "none")
    BY <1>2, <1>3 DEF Sane
  <1>9. m.pc \notin {"approved", "prepared", "spawning", "executing"}
    BY <1>3
  <1>10. Sane(k, eff, m)
    BY <1>4, <1>7, <1>8, <1>9 DEF Sane
  <1>. QED  BY <1>10 DEF k, m

\* A tool that was prepared and has no result yet may run.
LEMMA EffectIsKnown ==
    ASSUME NEW j, NEW eff, World(j, eff), NEW r \in Runs, NEW c \in Calls,
           Prepared(j, r, c), c \in Requested(j, r), ~Done(j, r, c)
    PROVE  World(j, [eff EXCEPT ![<<r, c>>] = 1])
  <1> DEFINE new == [eff EXCEPT ![<<r, c>>] = 1]
  <1>1. /\ new \in [Runs \X Calls -> {0, 1}] /\ new[<<r, c>>] = 1
        /\ \A q \in Runs, d \in Calls : q # r \/ d # c => new[<<q, d>>] = eff[<<q, d>>]
    BY DEF World
  <1> HIDE DEF new
  <1>2. Preparedness(j, new)
    BY <1>1 DEF World, Preparedness
  <1>3. ASSUME NEW i \in DOMAIN j PROVE IsTrue(new, j[i])
    <2>1. j[i].type = "tool_completed" => j[i].run # r \/ j[i].item # c
      BY DEF Done, About, Of
    <2>2. IsTrue(eff, j[i])
      BY DEF World
    <2>. QED  BY <1>1, <2>1, <2>2 DEF IsTrue
  <1>. QED  BY <1>1, <1>2, <1>3 DEF World, new

-----------------------------------------------------------------------------
(* The steps.                                                              *)

\* What a write comes to: the record is on disk and the loop goes on, or the
\* loop is over.
LEMMA WriteIs ==
    ASSUME NEW e, NEW m, Write(e, m) \/ WriteIfRoom(e, m)
    PROVE  \/ loop' = m /\ journal' = Append(journal, e) /\ Valid(journal, e)
           \/ /\ loop' = Quiet
              /\ \/ journal' = journal
                 \/ journal' = Append(journal, e) /\ Valid(journal, e)
  BY DEF Write, WriteIfRoom, Accepts, Land, Break, storeVars

LEMMA NeutralWrite ==
    ASSUME JournalInv, NEW e \in Record, e.type \notin {"tool_prepared", "tool_completed"},
           NEW m, Sane(journal, effects, m), Write(e, m) \/ WriteIfRoom(e, m), UNCHANGED effects
    PROVE  JournalInv'
  <1>1. IsTrue(effects, e)
    BY DEF IsTrue
  <1>2. World(journal, effects) /\ World(Append(journal, e), effects)
    BY <1>1, WorldGrows DEF JournalInv
  <1>3. Sane(Append(journal, e), effects, m)
    BY <1>2, NeutralKeeps DEF World
  <1>4. \A j : Sane(j, effects, Quiet)
    BY QuietIsSane
  <1>. QED  BY <1>2, <1>3, <1>4, WriteIs DEF JournalInv

LEMMA TurnKeepsInv ==
    ASSUME JournalInv, NEW m, Sane(journal, effects, m), Turn(m), UNCHANGED effects
    PROVE  JournalInv'
  BY DEF JournalInv, Turn, storeVars

\* What the calls of a loop that is under way are.
LEMMA LoopIs ==
    ASSUME JournalInv
    PROVE  /\ journal \in Seq(Record) /\ loop \in Loop
           /\ effects \in [Runs \X Calls -> {0, 1}]
           /\ loop.pc # "idle" => loop.run \in Runs
           /\ loop.pending # <<>> =>
                 /\ Call \in Calls /\ Tail(loop.pending) \in Seq(Calls)
                 /\ 1 \in DOMAIN loop.pending /\ loop.pending[1] = Call
  BY DEF JournalInv, World, Sane, Loop, Call

\* The records that the loop writes about its run are records.
LEMMA ByLoopIsRecord ==
    ASSUME JournalInv, loop.pc # "idle", NEW t \in RecordTypes, NEW v \in Outcomes,
           NEW x \in Calls \cup {NONE} \cup Seq(Calls)
    PROVE  LET e == ByLoop(t, x, v)
           IN  e \in Record /\ e.type = t /\ e.run = loop.run /\ e.item = x /\ e.how = v
  BY LoopIs DEF ByLoop, Rec, Record

\* Steps between the calls, and from one to the next, keep the calls that wait.
LEMMA GoIsSane ==
    ASSUME JournalInv, loop.pc \notin {"idle", "executing"}, loop.stop # "recovery_required"
    PROVE  /\ Sane(journal, effects, loop)
           /\ \A p \in {"turn", "asked", "sending", "failing", "answered", "judge", "summarizing", "batch"} :
                 Sane(journal, effects, Go(p))
           /\ \A s \in Stops : Sane(journal, effects, Ending(s))
  <1>1. Sane(journal, effects, loop) /\ loop \in Loop
    BY LoopIs DEF JournalInv
  <1>2. ASSUME NEW p \in {"turn", "asked", "sending", "failing", "answered", "judge", "summarizing", "batch"}
        PROVE  Sane(journal, effects, Go(p))
    <2>1. /\ Go(p) \in Loop /\ Go(p).pc = p /\ Go(p).run = loop.run
          /\ Go(p).pending = loop.pending /\ Go(p).stop = loop.stop
      BY <1>1 DEF Go, Loop, Places
    <2>. QED  BY <1>1, <2>1, MoveIsSane
  <1>3. ASSUME NEW s \in Stops PROVE Sane(journal, effects, Ending(s))
    <2>1. /\ Ending(s) \in Loop /\ Ending(s).pc = "ending" /\ Ending(s).run = loop.run
          /\ Ending(s).pending = loop.pending /\ Ending(s).stop = s /\ s # "none"
      BY <1>1 DEF Ending, Loop, Places, Stops
    <2>. QED  BY <1>1, <2>1, MoveIsSane
  <1>. QED  BY <1>1, <1>2, <1>3

\* The stages of a run between its tools: none of their records is about a tool.
LEMMA TalkKeepsInv ==
    ASSUME JournalInv,
           \/ RequestModel \/ Diagnose \/ ModelReturns \/ RecordFailure
           \/ Judge \/ ReserveSummary \/ SettleSummary
    PROVE  JournalInv'
  <1>1. /\ loop.pc \in {"turn", "asked", "sending", "failing", "judge", "summarizing"}
        /\ UNCHANGED effects
    BY DEF RequestModel, Diagnose, ModelReturns, RecordFailure, Judge, ReserveSummary, SettleSummary, At, runVars
  <1>2. loop.stop # "recovery_required"
    BY <1>1 DEF JournalInv, Sane
  <1>3. /\ Sane(journal, effects, loop)
        /\ \A p \in {"turn", "asked", "sending", "failing", "answered", "summarizing"} : Sane(journal, effects, Go(p))
        /\ \A s \in Stops : Sane(journal, effects, Ending(s))
    BY <1>1, <1>2, GoIsSane
  <1> DEFINE talk == {"model_request_started", "model_request_diagnostic", "model_request_failed",
                      "completion_rejected", "summary_attempted", "summary_settled"}
  <1>4. talk \subseteq RecordTypes
    BY DEF RecordTypes
  <1>5. ASSUME NEW t \in talk, NEW v \in Outcomes, NEW m, Sane(journal, effects, m),
               Write(ByLoop(t, NONE, v), m) \/ WriteIfRoom(ByLoop(t, NONE, v), m)
        PROVE  JournalInv'
    <2>1. ByLoop(t, NONE, v) \in Record /\ ByLoop(t, NONE, v).type = t
      BY <1>1, <1>4, ByLoopIsRecord
    <2>. QED  BY <1>1, <1>5, <2>1, NeutralWrite
  <1>6. ASSUME NEW m, Sane(journal, effects, m), Turn(m) PROVE JournalInv'
    BY <1>1, <1>6, TurnKeepsInv
  <1>7. CASE RequestModel
    BY <1>3, <1>5, <1>6, <1>7 DEF RequestModel, Stops, Outcomes
  <1>8. CASE Diagnose
    BY <1>3, <1>5, <1>6, <1>8 DEF Diagnose, Stops, Outcomes
  <1>9. CASE ModelReturns
    BY <1>3, <1>5, <1>6, <1>9 DEF ModelReturns, Stops, Outcomes
  <1>10. CASE RecordFailure
    BY <1>3, <1>5, <1>6, <1>10 DEF RecordFailure, Stops, Outcomes
  <1>11. CASE Judge
    <2>1. {"completed", "failed", "cancelled"} \subseteq Stops /\ "done" \in Outcomes
      BY DEF Stops, Outcomes
    <2>2. \/ \E s \in {"completed", "failed", "cancelled"} : Turn(Ending(s))
          \/ WriteIfRoom(ByLoop("completion_rejected", NONE, "done"), Ending("failed"))
          \/ WriteIfRoom(ByLoop("completion_rejected", NONE, "done"), Go("turn"))
      BY <1>11 DEF Judge
    <2>3. CASE \E s \in {"completed", "failed", "cancelled"} : Turn(Ending(s))
      BY <1>3, <1>6, <2>1, <2>3
    <2>. QED  BY <1>3, <1>5, <2>1, <2>2, <2>3
  <1>12. CASE ReserveSummary
    BY <1>3, <1>5, <1>6, <1>12 DEF ReserveSummary, Stops, Outcomes
  <1>13. CASE SettleSummary
    BY <1>3, <1>5, <1>6, <1>13 DEF SettleSummary, Stops, Outcomes
  <1>. QED  BY <1>7, <1>8, <1>9, <1>10, <1>11, <1>12, <1>13

\* The calls of a response are new to the run, so none of them has run.
LEMMA ResponseKeepsInv == ASSUME JournalInv, RecordResponse PROVE JournalInv'
  <1>1. loop.pc = "answered" /\ UNCHANGED effects
    BY DEF RecordResponse, At, runVars
  <1>2. PICK calls \in Batches, refusal \in BOOLEAN :
          /\ Range(calls) \cap Requested(journal, loop.run) = {}
          /\ LET next == [loop EXCEPT !.pending = calls]
             IN WriteIfRoom(ByLoop("model_response", calls, "done"),
                  IF loop.abort THEN [next EXCEPT !.pc = "ending", !.stop = "cancelled"]
                  ELSE IF refusal THEN [next EXCEPT !.pc = "ending", !.stop = "failed"]
                  ELSE [next EXCEPT !.pc = IF calls = <<>> THEN "judge" ELSE "batch"])
    BY DEF RecordResponse
  <1>3. calls \in Seq(Calls) /\ loop \in Loop /\ loop.run \in Runs
        /\ loop.stop # "recovery_required" /\ effects \in [Runs \X Calls -> {0, 1}]
    BY <1>1, LoopIs, LoopConstants DEF JournalInv, Sane
  <1>4. ASSUME NEW i \in DOMAIN calls PROVE effects[<<loop.run, calls[i]>>] = 0
    <2>1. calls[i] \in Calls /\ calls[i] \in Range(calls)
      BY <1>3 DEF Range
    <2>2. calls[i] \notin Requested(journal, loop.run)
      BY <1>2, <2>1
    <2>. QED  BY <1>3, <2>1, <2>2 DEF JournalInv, World, Preparedness
  <1>5. ASSUME NEW m, m \in {[loop EXCEPT !.pending = calls, !.pc = "ending", !.stop = "cancelled"],
                             [loop EXCEPT !.pending = calls, !.pc = "ending", !.stop = "failed"],
                             [loop EXCEPT !.pending = calls, !.pc = "judge"],
                             [loop EXCEPT !.pending = calls, !.pc = "batch"]},
               WriteIfRoom(ByLoop("model_response", calls, "done"), m)
        PROVE  JournalInv'
    <2>1. /\ m \in Loop /\ m.run = loop.run /\ m.pending = calls
          /\ m.pc \in {"ending", "judge", "batch"} /\ m.stop # "recovery_required"
          /\ m.pc = "ending" => m.stop # "none"
      BY <1>3, <1>5 DEF Loop, Places, Stops
    <2>2. Sane(journal, effects, m)
      BY <1>3, <1>4, <2>1 DEF Sane, Waiting
    <2>3. LET e == ByLoop("model_response", calls, "done")
          IN  e \in Record /\ e.type = "model_response"
      <3>1. "model_response" \in RecordTypes /\ "done" \in Outcomes
        BY DEF RecordTypes, Outcomes
      <3>2. calls \in Calls \cup {NONE} \cup Seq(Calls) /\ loop.pc # "idle"
        BY <1>1, <1>3
      <3>. QED  BY <3>1, <3>2, ByLoopIsRecord
    <2>. QED  BY <1>1, <1>5, <2>2, <2>3, NeutralWrite
  <1>. DEFINE next == [loop EXCEPT !.pending = calls]
  <1>6. /\ [next EXCEPT !.pc = "ending", !.stop = "cancelled"]
            = [loop EXCEPT !.pending = calls, !.pc = "ending", !.stop = "cancelled"]
        /\ [next EXCEPT !.pc = "ending", !.stop = "failed"]
            = [loop EXCEPT !.pending = calls, !.pc = "ending", !.stop = "failed"]
        /\ \A p : [next EXCEPT !.pc = p] = [loop EXCEPT !.pending = calls, !.pc = p]
    BY <1>3 DEF Loop
  <1>. HIDE DEF next
  <1>7. \/ WriteIfRoom(ByLoop("model_response", calls, "done"), [next EXCEPT !.pc = "ending", !.stop = "cancelled"])
        \/ WriteIfRoom(ByLoop("model_response", calls, "done"), [next EXCEPT !.pc = "ending", !.stop = "failed"])
        \/ WriteIfRoom(ByLoop("model_response", calls, "done"), [next EXCEPT !.pc = "judge"])
        \/ WriteIfRoom(ByLoop("model_response", calls, "done"), [next EXCEPT !.pc = "batch"])
    BY <1>2 DEF next
  <1>. QED  BY <1>5, <1>6, <1>7

\* Steps that write nothing: approvals, cancellation, the end of a batch.
LEMMA PauseKeepsInv ==
    ASSUME JournalInv, EndBatch \/ ApproveCall \/ ApprovalExpires \/ Abort
    PROVE  JournalInv'
  <1>1. Sane(journal, effects, loop) /\ loop \in Loop /\ loop.pc # "idle" /\ UNCHANGED effects
    BY LoopIs DEF EndBatch, ApproveCall, ApprovalExpires, Abort, At, JournalInv, runVars
  <1>2. CASE EndBatch
    <2>1. loop.pc = "batch" /\ loop.stop # "recovery_required"
      BY <1>1, <1>2 DEF EndBatch, At, Sane
    <2>. QED  BY <1>1, <1>2, <2>1, GoIsSane, TurnKeepsInv DEF EndBatch, Stops
  <1>3. CASE ApproveCall
    <2> DEFINE m == [loop EXCEPT !.pc = "approved", !.fresh = TRUE]
    <2>1. loop.pc = "batch" /\ loop.stop # "recovery_required" /\ loop.pending # <<>> /\ Turn(m)
      BY <1>1, <1>3 DEF ApproveCall, At, Sane
    <2>2. m \in Loop /\ m.pc = "approved" /\ m.run = loop.run /\ m.pending = loop.pending /\ m.stop = loop.stop
      BY <1>1 DEF Loop, Places
    <2> HIDE DEF m
    <2>3. Sane(journal, effects, m)
      BY <1>1, <2>1, <2>2, MoveIsSane
    <2>. QED  BY <1>1, <2>1, <2>3, TurnKeepsInv
  <1>4. ASSUME NEW m \in Loop, m.pc = loop.pc, m.run = loop.run, m.pending = loop.pending,
               m.stop = loop.stop, Turn(m)
        PROVE  JournalInv'
    <2>1. Sane(journal, effects, m)
      BY <1>1, <1>4 DEF Sane, Waiting
    <2>. QED  BY <1>1, <1>4, <2>1, TurnKeepsInv
  <1>5. CASE ApprovalExpires
    <2> DEFINE m == [loop EXCEPT !.fresh = FALSE]
    <2>1. m \in Loop /\ m.pc = loop.pc /\ m.run = loop.run /\ m.pending = loop.pending /\ m.stop = loop.stop
      BY <1>1 DEF Loop
    <2>. QED  BY <1>4, <1>5, <2>1 DEF ApprovalExpires
  <1>6. CASE Abort
    <2> DEFINE m == [loop EXCEPT !.abort = TRUE]
    <2>1. m \in Loop /\ m.pc = loop.pc /\ m.run = loop.run /\ m.pending = loop.pending /\ m.stop = loop.stop
      BY <1>1 DEF Loop
    <2>2. Turn(m)
      BY <1>6 DEF Abort, Turn
    <2>. QED  BY <1>4, <2>1, <2>2
  <1>. QED  BY <1>2, <1>3, <1>5, <1>6

\* The result of the next call, when it is true.
LEMMA AnswerKeepsInv ==
    ASSUME JournalInv, loop.pc \in {"batch", "approved", "executing", "ending"},
           loop.stop # "recovery_required", loop.pending # <<>>, NEW v \in Outcomes,
           Call \notin Reads =>
              /\ v = "completed" => effects[<<loop.run, Call>>] = 1
              /\ v \in {"denied", "cancelled", "not_executed"} =>
                    (effects[<<loop.run, Call>>] = 0 \/ Done(journal, loop.run, Call)),
           \/ Write(ByLoop("tool_completed", Call, v), Answered)
           \/ WriteIfRoom(ByLoop("tool_completed", Call, v), Answered),
           UNCHANGED effects
    PROVE  JournalInv'
  <1> DEFINE e == ByLoop("tool_completed", Call, v)
  <1>1. Call \in Calls /\ loop.run \in Runs /\ journal \in Seq(Record)
    BY LoopIs
  <1>2. e \in Record /\ e.type = "tool_completed" /\ e.run = loop.run /\ e.item = Call /\ e.how = v
    BY <1>1, ByLoopIsRecord DEF RecordTypes
  <1>3. Write(e, Answered) \/ WriteIfRoom(e, Answered)
    OBVIOUS
  <1> HIDE DEF e
  <1>4. World(journal, effects) /\ Sane(journal, effects, loop)
    BY DEF JournalInv
  <1>5. ASSUME Valid(journal, e) PROVE World(Append(journal, e), effects)
    <2>1. ~Done(journal, loop.run, Call)
      BY <1>2, <1>5, ToolIsOpen
    <2>2. IsTrue(effects, e)
      BY <1>1, <1>2, <2>1 DEF IsTrue
    <2>. QED  BY <1>2, <1>4, <2>2, WorldGrows
  <1>6. Sane(Append(journal, e), effects, Answered)
    BY <1>1, <1>2, <1>4, AnswerIsSane DEF Answered, Call
  <1>7. \A j : Sane(j, effects, Quiet)
    BY QuietIsSane
  <1>. QED  BY <1>3, <1>4, <1>5, <1>6, <1>7, WriteIs DEF JournalInv

\* A call that waits before the loop has come to it has not run, or is on record.
LEMMA NextWaits ==
    ASSUME JournalInv, loop.pc \notin {"idle", "executing"}, loop.stop # "recovery_required",
           loop.pending # <<>>
    PROVE  effects[<<loop.run, Call>>] = 0 \/ Done(journal, loop.run, Call)
  <1>1. 1 \in DOMAIN loop.pending /\ loop.pending[1] = Call
    BY LoopIs
  <1>. QED  BY <1>1 DEF JournalInv, Sane, Waiting

LEMMA DeclineKeepsInv == ASSUME JournalInv, DeclineCall PROVE JournalInv'
  <1>1. /\ loop.pc \in {"batch", "approved"} /\ loop.pending # <<>> /\ UNCHANGED effects
        /\ loop.stop # "recovery_required"
    BY DEF DeclineCall, At, runVars, JournalInv, Sane
  <1>2. CASE loop.abort
    <2>1. Turn(Ending("cancelled")) /\ "cancelled" \in Stops
      BY <1>2 DEF DeclineCall, Stops
    <2>. QED  BY <1>1, <2>1, GoIsSane, TurnKeepsInv
  <1>3. CASE ~loop.abort
    <2>1. PICK v \in {"failed", "denied"} : Write(ByLoop("tool_completed", Call, v), Answered)
      BY <1>3 DEF DeclineCall
    <2>2. v \in Outcomes
      BY DEF Outcomes, Stops
    <2>. QED  BY <1>1, <2>1, <2>2, NextWaits, AnswerKeepsInv
  <1>. QED  BY <1>2, <1>3

\* The store accepts that a tool is prepared only once, and before its result.
LEMMA PrepareKeepsInv == ASSUME JournalInv, PrepareCall PROVE JournalInv'
  <1>1. /\ loop.pc = "approved" /\ loop.pending # <<>> /\ loop.stop # "recovery_required"
        /\ UNCHANGED effects
    BY DEF PrepareCall, At, runVars, JournalInv, Sane
  <1>2. CASE loop.abort
    <2>1. Turn(Ending("cancelled")) /\ "cancelled" \in Stops
      BY <1>2 DEF PrepareCall, Stops
    <2>. QED  BY <1>1, <2>1, GoIsSane, TurnKeepsInv
  <1>3. CASE ~loop.abort /\ ~loop.fresh
    <2>1. WriteIfRoom(ByLoop("tool_completed", Call, "denied"), Answered)
      BY <1>3 DEF PrepareCall
    <2>2. "denied" \in Outcomes
      BY DEF Outcomes
    <2>. QED  BY <1>1, <2>1, <2>2, NextWaits, AnswerKeepsInv
  <1>4. CASE ~loop.abort /\ loop.fresh
    <2> DEFINE e == ByLoop("tool_prepared", Call, "done")
               m == Go("prepared")
               k == Append(journal, e)
    <2>1. WriteIfRoom(e, m)
      BY <1>4 DEF PrepareCall
    <2>2. /\ journal \in Seq(Record) /\ loop \in Loop /\ loop.run \in Runs /\ Call \in Calls
          /\ effects \in [Runs \X Calls -> {0, 1}]
      BY <1>1, LoopIs
    <2>3. "tool_prepared" \in RecordTypes /\ "done" \in Outcomes
      BY DEF RecordTypes, Outcomes
    <2>4. e \in Record /\ e.type = "tool_prepared" /\ e.run = loop.run /\ e.item = Call
      BY <1>1, <2>2, <2>3, ByLoopIsRecord
    <2>5. /\ m \in Loop /\ m.pc = "prepared" /\ m.run = loop.run
          /\ m.pending = loop.pending /\ m.stop = loop.stop
      BY <2>2 DEF Go, Loop, Places
    <2> HIDE DEF e, m, k
    <2>6. World(k, effects)
      BY <2>4, WorldGrows DEF IsTrue, JournalInv, k
    <2>7. ASSUME Valid(journal, e) PROVE Sane(k, effects, m)
      <3>1. /\ Call \in Requested(journal, loop.run) /\ ~Prepared(journal, loop.run, Call)
            /\ ~Done(journal, loop.run, Call)
        BY <2>4, <2>7, ToolIsOpen
      <3>2. effects[<<loop.run, Call>>] = 0
        BY <2>2, <3>1 DEF JournalInv, World, Preparedness
      <3>3. /\ Prepared(k, loop.run, Call) /\ Call \in Requested(k, loop.run)
            /\ \A r, c : Done(k, r, c) <=> Done(journal, r, c)
        BY <2>2, <2>4, <3>1, AppendedSays DEF k
      <3>4. \A i \in DOMAIN loop.pending :
                effects[<<loop.run, loop.pending[i]>>] = 0 \/ Done(journal, loop.run, loop.pending[i])
        BY <1>1 DEF JournalInv, Sane, Waiting
      <3>. QED  BY <1>1, <2>2, <2>5, <3>1, <3>2, <3>3, <3>4 DEF Sane, Waiting, Call
    <2>8. \A j : Sane(j, effects, Quiet)
      BY QuietIsSane
    <2>. QED  BY <1>1, <2>1, <2>6, <2>7, <2>8, WriteIs DEF JournalInv, k
  <1>. QED  BY <1>2, <1>3, <1>4

\* What the loop makes of the world when the tool of the next call runs.
LEMMA RunsTool ==
    ASSUME JournalInv, loop.pc \in {"prepared", "spawning"},
           effects' = [effects EXCEPT ![<<loop.run, Call>>] = @ + 1]
    PROVE  /\ World(journal, effects')
           /\ Sane(journal, effects', Go("executing"))
           /\ effects' \in [Runs \X Calls -> {0, 1}]
  <1>1. /\ journal \in Seq(Record) /\ loop \in Loop /\ loop.run \in Runs
        /\ effects \in [Runs \X Calls -> {0, 1}] /\ loop.pending # <<>>
        /\ loop.pending \in Seq(Calls)
    BY LoopIs DEF JournalInv, Sane, Loop
  <1>2. /\ Prepared(journal, loop.run, Call) /\ Call \in Requested(journal, loop.run)
        /\ effects[<<loop.run, Call>>] = 0 /\ ~Done(journal, loop.run, Call)
    BY DEF JournalInv, Sane, Call
  <1>3. Call \in Calls
    BY <1>1, LoopIs
  <1>4. effects' = [effects EXCEPT ![<<loop.run, Call>>] = 1]
    BY <1>1, <1>2, <1>3
  <1>5. World(journal, effects')
    <2>1. World(journal, [effects EXCEPT ![<<loop.run, Call>>] = 1])
      BY <1>1, <1>2, <1>3, EffectIsKnown DEF JournalInv
    <2>. QED  BY <1>4, <2>1
  <1>6. /\ effects' \in [Runs \X Calls -> {0, 1}] /\ effects'[<<loop.run, Call>>] = 1
        /\ \A c \in Calls : c # Call => effects'[<<loop.run, c>>] = effects[<<loop.run, c>>]
    BY <1>1, <1>3, <1>4
  <1> DEFINE m == Go("executing")
  <1>7. m \in Loop /\ m.pc = "executing" /\ m.run = loop.run /\ m.pending = loop.pending /\ m.stop = loop.stop
    BY <1>1 DEF Go, Loop, Places
  <1> HIDE DEF m
  <1>8. loop.stop # "recovery_required"
    BY DEF JournalInv, Sane
  <1>9. ASSUME NEW i \in DOMAIN m.pending PROVE Waiting(journal, effects', m, m.pending[i])
    <2>1. loop.pending[i] \in Calls
      BY <1>1, <1>7
    <2>2. effects[<<loop.run, loop.pending[i]>>] = 0 \/ Done(journal, loop.run, loop.pending[i])
      BY <1>7, <1>8 DEF JournalInv, Sane, Waiting
    <2>. QED  BY <1>6, <1>7, <2>1, <2>2 DEF Waiting, Call
  <1>10. Sane(journal, effects', m)
    BY <1>1, <1>6, <1>7, <1>8, <1>9 DEF Sane, Call
  <1>. QED  BY <1>5, <1>6, <1>10 DEF m

LEMMA ExecuteKeepsInv == ASSUME JournalInv, ExecuteCall PROVE JournalInv'
  <1>1. loop.pc = "prepared" /\ loop.stop # "recovery_required" /\ Sane(journal, effects, loop)
    BY DEF ExecuteCall, At, JournalInv, Sane
  <1>2. CASE Turn(Ending("cancelled")) /\ UNCHANGED runVars
    <2>1. "cancelled" \in Stops /\ UNCHANGED effects
      BY <1>2 DEF Stops, runVars
    <2>. QED  BY <1>1, <1>2, <2>1, GoIsSane, TurnKeepsInv
  <1>3. CASE Write(ByLoop("command_lifecycle", Call, "prepared"), Go("spawning")) /\ UNCHANGED runVars
    <2> DEFINE m == Go("spawning")
    <2>1. loop \in Loop /\ loop.pending # <<>>
      BY <1>1 DEF Sane
    <2>2. m \in Loop /\ m.pc = "spawning" /\ m.run = loop.run /\ m.pending = loop.pending /\ m.stop = loop.stop
      BY <2>1 DEF Go, Loop, Places
    <2> HIDE DEF m
    <2>3. Sane(journal, effects, m)
      BY <1>1, <2>2 DEF Sane, Waiting
    <2>4. Call \in Calls /\ "command_lifecycle" \in RecordTypes /\ "prepared" \in Outcomes
      BY <2>1, LoopIs DEF RecordTypes, Outcomes
    <2> DEFINE e == ByLoop("command_lifecycle", Call, "prepared")
    <2>5. e \in Record /\ e.type = "command_lifecycle"
      BY <1>1, <2>4, ByLoopIsRecord
    <2>6. Write(e, m) /\ UNCHANGED effects
      BY <1>3 DEF m, runVars
    <2> HIDE DEF e
    <2>. QED  BY <2>3, <2>5, <2>6, NeutralWrite
  <1>4. CASE Turn(Go("executing")) /\ effects' = [effects EXCEPT ![<<loop.run, Call>>] = @ + 1]
    BY <1>1, <1>4, RunsTool DEF JournalInv, Turn, storeVars
  <1>. QED  BY <1>2, <1>3, <1>4 DEF ExecuteCall

LEMMA SpawnKeepsInv == ASSUME JournalInv, SpawnCommand PROVE JournalInv'
  <1> DEFINE e == ByLoop("command_lifecycle", Call, "running")
             m == Go("executing")
  <1>1. /\ loop.pc = "spawning" /\ Write(e, m)
        /\ effects' = [effects EXCEPT ![<<loop.run, Call>>] = @ + 1]
    BY DEF SpawnCommand, At
  <1>2. World(journal, effects') /\ Sane(journal, effects', m)
    BY <1>1, RunsTool
  <1>3. loop.pending # <<>>
    BY <1>1 DEF JournalInv, Sane
  <1>4. Call \in Calls /\ "command_lifecycle" \in RecordTypes /\ "running" \in Outcomes
    BY <1>3, LoopIs DEF RecordTypes, Outcomes
  <1>5. e \in Record /\ e.type = "command_lifecycle"
    BY <1>1, <1>4, ByLoopIsRecord
  <1> HIDE DEF e, m
  <1>6. IsTrue(effects', e)
    BY <1>5 DEF IsTrue
  <1>7. World(Append(journal, e), effects')
    BY <1>2, <1>5, <1>6, WorldGrows
  <1>8. Sane(Append(journal, e), effects', m)
    BY <1>2, <1>5, NeutralKeeps DEF World
  <1>9. Sane(journal, effects', Quiet) /\ Sane(Append(journal, e), effects', Quiet)
    BY QuietIsSane
  <1>. QED  BY <1>1, <1>2, <1>7, <1>8, <1>9, WriteIs DEF JournalInv

\* The loop records what the tool said, or ends without knowing.
LEMMA ToolReturnsKeepsInv == ASSUME JournalInv, ToolReturns PROVE JournalInv'
  <1>1. /\ loop.pc = "executing" /\ loop.stop # "recovery_required" /\ loop.pending # <<>>
        /\ Sane(journal, effects, loop) /\ loop \in Loop
        /\ effects[<<loop.run, Call>>] = 1 /\ UNCHANGED effects
    BY DEF ToolReturns, At, runVars, JournalInv, Sane, Call
  <1>2. CASE Turn(Ending("recovery_required"))
    <2> DEFINE m == Ending("recovery_required")
    <2>1. m \in Loop /\ m.pc = "ending" /\ m.run = loop.run /\ m.stop = "recovery_required"
      BY <1>1 DEF Ending, Loop, Places, Stops
    <2> HIDE DEF m
    <2>2. Sane(journal, effects, m)
      BY <1>1, <2>1 DEF Sane
    <2>. QED  BY <1>1, <1>2, <2>2, TurnKeepsInv DEF m
  <1>3. ASSUME NEW v \in Outcomes, v \in {"completed", "failed"} \/ Call \in Reads,
               Write(ByLoop("tool_completed", Call, v), Answered)
        PROVE  JournalInv'
    BY <1>1, <1>3, AnswerKeepsInv
  <1>4. {"completed", "failed", "cancelled"} \subseteq Outcomes
    BY DEF Outcomes, Stops
  <1>5. ToolReturns => \/ \E v \in {"completed", "failed"} : Write(ByLoop("tool_completed", Call, v), Answered)
                       \/ /\ Call \in Reads
                          /\ \E v \in {"cancelled", "failed"} : Write(ByLoop("tool_completed", Call, v), Answered)
                       \/ Turn(Ending("recovery_required"))
    BY DEF ToolReturns
  <1>. QED  BY <1>2, <1>3, <1>4, <1>5

\* At the end the calls that were not reached are on record as such.
LEMMA EndKeepsInv == ASSUME JournalInv, EndPending \/ Finish PROVE JournalInv'
  <1>1. loop.pc = "ending" /\ UNCHANGED effects
    BY DEF EndPending, Finish, At, runVars
  <1>2. CASE EndPending
    <2>1. loop.pending # <<>> /\ loop.stop # "recovery_required"
      BY <1>2 DEF EndPending, Owed
    <2>2. \E v \in {"cancelled", "not_executed"} : Write(ByLoop("tool_completed", Call, v), Answered)
      BY <1>2 DEF EndPending
    <2>3. {"cancelled", "not_executed"} \subseteq Outcomes
      BY DEF Outcomes, Stops
    <2>. QED  BY <1>1, <2>1, <2>2, <2>3, NextWaits, AnswerKeepsInv
  <1>3. CASE Finish
    <2> DEFINE e == ByLoop("run_finished", NONE, loop.stop)
    <2>1. Turn(Quiet) \/ Write(e, Quiet)
      BY <1>3 DEF Finish
    <2>2. Sane(journal, effects, Quiet)
      BY QuietIsSane
    <2>3. CASE Turn(Quiet)
      BY <1>1, <2>2, <2>3, TurnKeepsInv
    <2>4. CASE Write(e, Quiet)
      <3>1. /\ e = [type |-> "run_finished", run |-> loop.run, item |-> NONE, how |-> loop.stop]
            /\ loop.run \in Runs
        BY <1>1, LoopIs DEF ByLoop, Rec
      <3>2. loop.stop \in Outcomes
        BY <1>1, LoopIs DEF JournalInv, Sane, Loop, Outcomes
      <3>3. e \in Record /\ e.type = "run_finished"
        BY <3>1, <3>2 DEF Record, RecordTypes
      <3> HIDE DEF e
      <3>. QED  BY <1>1, <2>2, <2>4, <3>3, NeutralWrite
    <2>. QED  BY <2>1, <2>3, <2>4
  <1>. QED  BY <1>2, <1>3

LEMMA LoopKeepsInv == ASSUME JournalInv, LoopStep \/ Abort \/ ApprovalExpires PROVE JournalInv'
  BY TalkKeepsInv, ResponseKeepsInv, PauseKeepsInv, DeclineKeepsInv, PrepareKeepsInv,
     ExecuteKeepsInv, SpawnKeepsInv, ToolReturnsKeepsInv, EndKeepsInv DEF LoopStep

\* A record about no tool, written beside the loop.
LEMMA BesideKeepsInv ==
    ASSUME JournalInv, NEW e \in Record, e.type \notin {"tool_prepared", "tool_completed"},
           journal' = journal \/ journal' = Append(journal, e),
           loop' = loop \/ loop' = Quiet, UNCHANGED effects
    PROVE  JournalInv'
  <1>1. IsTrue(effects, e)
    BY DEF IsTrue
  <1>2. World(journal, effects) /\ World(Append(journal, e), effects)
    BY <1>1, WorldGrows DEF JournalInv
  <1>3. Sane(journal, effects, loop) /\ Sane(Append(journal, e), effects, loop)
    BY <1>2, NeutralKeeps DEF World, JournalInv
  <1>4. \A j : Sane(j, effects, Quiet)
    BY QuietIsSane
  <1>. QED  BY <1>2, <1>3, <1>4 DEF JournalInv

\* What the host does besides: startups, recoveries, admissions and commands
\* that end write records about no tool.
LEMMA HostKeepsInv == ASSUME JournalInv, NEW h \in Hosts, HostStep(h) PROVE JournalInv'
  <1> DEFINE other == RecordTypes \ {"tool_prepared", "tool_completed"}
  <1>1. \A t \in other, r \in Runs, v \in Outcomes, x \in Calls \cup {NONE} :
            Rec(t, r, x, v) \in Record /\ Rec(t, r, x, v).type = t
    BY DEF Rec, Record
  <1>2. {"startup_prepared", "startup_closed", "recovery_resolved", "run_recovered",
         "run_started", "command_lifecycle"} \subseteq other
        /\ {"done", "finished", "unknown"} \subseteq Outcomes
    BY DEF RecordTypes, Outcomes
  <1> HIDE DEF other
  <1>3. ASSUME NEW t \in other, NEW r \in Runs, NEW v \in Outcomes, NEW x \in Calls \cup {NONE},
               journal' = journal \/ journal' = Append(journal, Rec(t, r, x, v)),
               loop' = loop \/ loop' = Quiet, UNCHANGED effects
        PROVE  JournalInv'
    <2>1. Rec(t, r, x, v) \in Record /\ Rec(t, r, x, v).type \notin {"tool_prepared", "tool_completed"}
      BY <1>1 DEF other
    <2>. QED  BY <1>3, <2>1, BesideKeepsInv
  <1>4. CASE UNCHANGED <<journal, effects>> /\ (loop' = loop \/ loop' = Quiet)
    <2>1. \A j : Sane(j, effects, Quiet)
      BY QuietIsSane
    <2>. QED  BY <1>4, <2>1 DEF JournalInv
  <1>5. CASE (CreateLock(h) \/ WriteLock(h) \/ ContendLock(h) \/ ProbeOwner(h) \/ ReclaimLock(h)) /\ Beside
    BY <1>4, <1>5 DEF CreateLock, WriteLock, ContendLock, ProbeOwner, ReclaimLock, diskVars, Beside, runVars
  <1>6. CASE Load(h) /\ Beside
    <2>1. \/ journal' = journal
          \/ \E r \in Runs : journal' = Append(journal, Rec("run_recovered", r, NONE, "done"))
      BY <1>6 DEF Load
    <2>. QED  BY <1>2, <1>3, <1>4, <1>6, <2>1 DEF Beside, runVars
  <1>7. CASE Close(h) /\ Beside
    BY <1>4, <1>7 DEF Close, diskVars, Beside, runVars
  <1>8. CASE Die(h) /\ loop' = (IF host[h] = "writer" THEN Quiet ELSE loop) /\ UNCHANGED <<runVars, refused>>
    BY <1>4, <1>8 DEF Die, diskVars, runVars
  <1>9. ASSUME NEW r \in Runs, (PrepareStartup(h, r) \/ CloseStartup(h, r) \/ ResolveRecovery(h, r)) /\ Beside
        PROVE  JournalInv'
    <2>1. \/ journal' = journal
          \/ journal' = Append(journal, Rec("startup_prepared", r, NONE, "done"))
          \/ journal' = Append(journal, Rec("startup_closed", r, NONE, "done"))
          \/ journal' = Append(journal, Rec("recovery_resolved", r, NONE, "done"))
      BY <1>9 DEF PrepareStartup, CloseStartup, ResolveRecovery, Land, Break
    <2>. QED  BY <1>2, <1>3, <1>9, <2>1 DEF Beside, runVars
  <1>10. ASSUME NEW r \in Runs, BeginRun(h, r) PROVE JournalInv'
    <2> DEFINE e == Rec("run_started", r, NONE, "done")
               m == [Quiet EXCEPT !.pc = "turn", !.run = r]
    <2>1. \/ UNCHANGED <<journal, loop, effects>>
          \/ Write(e, m) /\ UNCHANGED effects
      BY <1>10 DEF BeginRun, storeVars, runVars
    <2>2. e \in Record /\ e.type = "run_started"
      BY <1>1, <1>2
    <2>3. <<>> \in Seq(Calls)
      OBVIOUS
    <2>4. m \in Loop /\ m.pc = "turn" /\ m.run = r /\ m.pending = <<>> /\ m.stop = "none"
      BY <2>3 DEF Quiet, Loop, Places
    <2> HIDE DEF e, m
    <2>5. Sane(journal, effects, m)
      BY <2>4 DEF Sane
    <2>. QED  BY <1>4, <2>1, <2>2, <2>5, NeutralWrite
  <1>11. ASSUME NEW r \in Runs, NEW c \in Commands, CommandEnds(h, r, c) PROVE JournalInv'
    <2>1. \E v \in {"finished", "unknown"} :
              journal' = journal \/ journal' = Append(journal, Rec("command_lifecycle", r, c, v))
      BY <1>11 DEF CommandEnds, Land, Break
    <2>2. UNCHANGED <<loop, effects>> /\ c \in Calls
      BY <1>11, StoreConstants DEF CommandEnds
    <2>. QED  BY <1>2, <1>3, <2>1, <2>2
  <1>. QED  BY <1>5, <1>6, <1>7, <1>8, <1>9, <1>10, <1>11 DEF HostStep

LEMMA CreatedIs ==
    /\ Created \in Record /\ Created.type = "conversation_created"
    /\ Created.run = NONE
  BY DEF Created, Rec, Record, RecordTypes, Outcomes

LEMMA JournalInvInit == Init => JournalInv
  <1> SUFFICES ASSUME Init PROVE JournalInv
    OBVIOUS
  <1>1. PICK history \in Histories \cup {<<>>} : journal = <<Created>> \o history
    BY DEF Init, StoreInit
  <1>2. history \in Seq(Record) /\ \A i \in DOMAIN history : history[i].type # "tool_completed"
    <2>1. <<>> \in Seq(Record) /\ DOMAIN <<>> = {}
      OBVIOUS
    <2>. QED  BY <2>1, HistoryConstants
  <1>3. Created \in Record /\ Created.type = "conversation_created"
    BY CreatedIs
  <1>4. journal \in Seq(Record) /\ \A i \in DOMAIN journal : journal[i].type # "tool_completed"
    BY <1>1, <1>2, <1>3
  <1>5. effects \in [Runs \X Calls -> {0, 1}] /\ \A r \in Runs, c \in Calls : effects[<<r, c>>] = 0
    BY DEF Init
  <1>6. World(journal, effects)
    BY <1>4, <1>5 DEF World, Preparedness, IsTrue
  <1>. QED  BY <1>6, QuietIsSane DEF JournalInv, Init

LEMMA JournalInvNext == JournalInv /\ [Next]_vars => JournalInv'
  <1> SUFFICES ASSUME JournalInv, [Next]_vars PROVE JournalInv'
    OBVIOUS
  <1>1. CASE UNCHANGED vars
    BY <1>1 DEF JournalInv, vars, storeVars
  <1>. QED  BY <1>1, LoopKeepsInv, HostKeepsInv DEF Next

LEMMA JournalInvHolds == Spec => []JournalInv
  <1>. QED  BY JournalInvInit, JournalInvNext, PTL DEF Spec

\* The journal and the world agree: no tool runs before it is on record as
\* prepared, none runs twice for a call, and the results on record are those of
\* what ran (runAgent over validateEvent), whatever appends fail and whenever
\* the host dies.
THEOREM JournalTellsTheTruth == Spec => []JournalIsTrue
  <1>1. JournalInv => JournalIsTrue
    <2> SUFFICES ASSUME JournalInv PROVE JournalIsTrue
      OBVIOUS
    <2>1. effects \in [Runs \X Calls -> {0, 1}] /\ Preparedness(journal, effects)
          /\ \A i \in DOMAIN journal : IsTrue(effects, journal[i])
      BY DEF JournalInv, World
    <2>2. ASSUME NEW r \in Runs, NEW c \in Calls, effects[<<r, c>>] > 0
          PROVE  effects[<<r, c>>] = 1 /\ Prepared(journal, r, c)
      BY <2>1, <2>2 DEF Preparedness
    <2>. QED  BY <2>1, <2>2 DEF JournalIsTrue, IsTrue
  <1>. QED  BY <1>1, JournalInvHolds, PTL

-----------------------------------------------------------------------------
(* Replaying the journal.  Every record was accepted after those before it, so  *)
(* what the store demanded then tells what the journal says now.                *)

\* The journal up to a record.
LEMMA PrefixSays ==
    ASSUME NEW j \in Seq(Record), NEW i \in DOMAIN j, i > 1
    PROVE  LET p == SubSeq(j, 1, i - 1)
           IN  /\ p \in Seq(Record) /\ DOMAIN p = 1..(i - 1)
               /\ \A n \in 1..(i - 1) : p[n] = j[n]
               /\ \A t, r : Of(p, t, r) = {n \in Of(j, t, r) : n < i}
  <1> DEFINE p == SubSeq(j, 1, i - 1)
  <1>1. i \in 1..Len(j) /\ Len(j) \in Nat
    OBVIOUS
  <1>2. p \in Seq(Record) /\ Len(p) = i - 1 /\ \A n \in 1..(i - 1) : p[n] = j[n]
    BY <1>1
  <1>3. DOMAIN p = 1..(i - 1)
    BY <1>2
  <1> HIDE DEF p
  <1>4. ASSUME NEW t, NEW r PROVE Of(p, t, r) = {n \in Of(j, t, r) : n < i}
    <2>1. \A n : n \in 1..(i - 1) <=> n \in DOMAIN j /\ n < i
      BY <1>1
    <2>. QED  BY <1>2, <1>3, <2>1 DEF Of
  <1>. QED  BY <1>2, <1>3, <1>4 DEF p

\* A record of a run or a type that is not the first of all was accepted.
LEMMA WasAccepted ==
    ASSUME NEW j \in Seq(Record), Replays(j), NEW t, NEW r, NEW i \in Of(j, t, r),
           t # "conversation_created"
    PROVE  LET p == SubSeq(j, 1, i - 1)
           IN  /\ i \in DOMAIN j /\ i > 1 /\ j[i] \in Record /\ j[i].type = t /\ j[i].run = r
               /\ Valid(p, j[i])
  <1>1. i \in DOMAIN j /\ i \in 1..Len(j) /\ j[i].type = t /\ j[i].run = r
    BY DEF Of
  <1>2. i # 1
    BY <1>1, CreatedIs DEF Replays
  <1>. QED  BY <1>1, <1>2 DEF Replays

\* What the store demands of a record of a run's life.
LEMMA LifeDemands ==
    ASSUME NEW j, NEW e, Valid(j, e)
    PROVE  /\ e.type = "run_started" => Idle(j) /\ ~Started(j, e.run)
           /\ e.type \in {"run_recovered", "run_finished", "tool_prepared"} => Active(j, e.run)
           /\ e.type = "recovery_resolved" => Blocked(j, e.run)
           /\ e.type # "conversation_created"
  BY DEF Valid, ValidLife, ValidModel, ValidCommand, ValidTool, ValidEnd

\* What is on record of a run that has not started, and of one whose recovery is resolved.
LivesInOrder(j) ==
    /\ \A r : Recovered(j, r) \/ Finished(j, r) \/ (\E c : Prepared(j, r, c)) => Started(j, r)
    /\ \A r : Resolved(j, r) => Recovered(j, r) \/ Finished(j, r)
    /\ \A r, s \in Runs : Active(j, r) /\ Active(j, s) => r = s

LEMMA LivesInOrderReplayed ==
    ASSUME NEW j \in Seq(Record), Replays(j)
    PROVE  LivesInOrder(j)
  <1>1. ASSUME NEW r, NEW t \in {"run_recovered", "run_finished", "tool_prepared"}, Of(j, t, r) # {}
        PROVE  Started(j, r)
    <2>1. PICK i \in Of(j, t, r) : TRUE
      BY <1>1
    <2> DEFINE p == SubSeq(j, 1, i - 1)
    <2>2. /\ i \in DOMAIN j /\ i > 1 /\ Valid(p, j[i]) /\ j[i].type = t /\ j[i].run = r
      BY WasAccepted
    <2> HIDE DEF p
    <2>3. Started(p, r)
      BY <2>2, LifeDemands DEF Active
    <2>. QED  BY <2>2, <2>3, PrefixSays DEF Started, p
  <1>2. ASSUME NEW r, Resolved(j, r) PROVE Recovered(j, r) \/ Finished(j, r)
    <2>1. PICK i \in Of(j, "recovery_resolved", r) : TRUE
      BY <1>2 DEF Resolved
    <2> DEFINE p == SubSeq(j, 1, i - 1)
    <2>2. /\ i \in DOMAIN j /\ i > 1 /\ Valid(p, j[i]) /\ j[i].type = "recovery_resolved" /\ j[i].run = r
      BY WasAccepted
    <2> HIDE DEF p
    <2>3. Recovered(p, r) \/ Finished(p, r)
      BY <2>2, LifeDemands DEF Blocked, Finished
    <2>. QED  BY <2>2, <2>3, PrefixSays DEF Recovered, Finished, p
  <1>3. ASSUME NEW r \in Runs, NEW s \in Runs, NEW a \in Of(j, "run_started", r),
               NEW b \in Of(j, "run_started", s), a < b, Active(j, r)
        PROVE  FALSE
    <2> DEFINE p == SubSeq(j, 1, b - 1)
    <2>1. /\ b \in DOMAIN j /\ b > 1 /\ Valid(p, j[b]) /\ j[b].type = "run_started" /\ j[b].run = s
      BY WasAccepted
    <2> HIDE DEF p
    <2>2. ~Active(p, r)
      BY <2>1, LifeDemands DEF Idle
    <2>3. Started(p, r)
      BY <1>3, <2>1, PrefixSays DEF Started, p
    <2>4. Recovered(j, r) \/ Finished(j, r)
      BY <2>1, <2>2, <2>3, PrefixSays DEF Active, Recovered, Finished, p
    <2>. QED  BY <1>3, <2>4 DEF Active
  <1>4. ASSUME NEW r \in Runs, NEW s \in Runs, Active(j, r), Active(j, s) PROVE r = s
    <2>1. PICK a \in Of(j, "run_started", r), b \in Of(j, "run_started", s) : TRUE
      BY <1>4 DEF Active, Started
    <2>2. a \in Nat /\ b \in Nat /\ j[a].run = r /\ j[b].run = s
      BY DEF Of
    <2>3. ~(a < b) /\ ~(b < a)
      BY <1>3, <1>4
    <2>. QED  BY <2>2, <2>3
  <1>5. \A r, c : Prepared(j, r, c) => Of(j, "tool_prepared", r) # {}
    BY DEF Prepared, About
  <1>. QED  BY <1>1, <1>2, <1>4, <1>5 DEF LivesInOrder, Recovered, Finished

\* What was accepted can be replayed.
LEMMA ReplaysOn ==
    ASSUME NEW j \in Seq(Record), j # <<>>, Replays(j), NEW e \in Record, Valid(j, e)
    PROVE  Replays(Append(j, e))
  <1> DEFINE k == Append(j, e)
  <1>1. /\ Len(j) \in Nat \ {0} /\ Len(k) = Len(j) + 1 /\ k[Len(j) + 1] = e
        /\ \A i \in 1..Len(j) : k[i] = j[i] /\ SubSeq(k, 1, i) = SubSeq(j, 1, i)
    OBVIOUS
  <1>2. SubSeq(j, 1, Len(j)) = j
    OBVIOUS
  <1> HIDE DEF k
  <1>3. k[1] = Created
    BY <1>1 DEF Replays
  <1>4. ASSUME NEW i \in 2..Len(k) PROVE Valid(SubSeq(k, 1, i - 1), k[i])
    <2>1. CASE i = Len(j) + 1
      <3>1. i - 1 = Len(j) /\ Len(j) \in 1..Len(j)
        BY <1>1, <2>1
      <3>2. SubSeq(k, 1, i - 1) = j /\ k[i] = e
        BY <1>1, <1>2, <2>1, <3>1
      <3>. QED  BY <3>2
    <2>2. CASE i # Len(j) + 1
      <3>1. i \in 2..Len(j) /\ i - 1 \in 1..Len(j)
        BY <1>1, <2>2
      <3>2. SubSeq(k, 1, i - 1) = SubSeq(j, 1, i - 1) /\ k[i] = j[i]
        BY <1>1, <3>1
      <3>. QED  BY <3>1, <3>2 DEF Replays
    <2>. QED  BY <2>1, <2>2
  <1>5. Replays(k)
    BY <1>3, <1>4 DEF Replays
  <1>. QED  BY <1>5 DEF k

LEMMA ReplaysInit == Init => journal # <<>> /\ Replays(journal)
  <1> SUFFICES ASSUME Init PROVE journal # <<>> /\ Replays(journal)
    OBVIOUS
  <1>1. PICK history \in Histories \cup {<<>>} : journal = <<Created>> \o history
    BY DEF Init, StoreInit
  <1>2. CASE history \in Histories
    <2>1. history \in Seq(Record) /\ Replays(journal)
      BY <1>1, <1>2, HistoryConstants
    <2>2. journal # <<>>
      BY <1>1, <2>1, CreatedIs
    <2>. QED  BY <2>1, <2>2
  <1>3. CASE history = <<>>
    <2>1. journal = <<Created>>
      BY <1>1, <1>3, CreatedIs
    <2>. QED  BY <2>1 DEF Replays
  <1>. QED  BY <1>2, <1>3

-----------------------------------------------------------------------------
(* The results.                                                            *)

\* What a caller was told is on disk, and a run ends once.
Durable(j, r, v) ==
    \/ Finished(j, r) /\ LastHow(j, Of(j, "run_finished", r)) = v
    \/ Resolved(j, r) /\ v = "cancelled"
EndsOnce(j) == \A r : \A a, b \in Of(j, "run_finished", r) : a = b

ResultInv == /\ EndsOnce(journal) /\ DOMAIN told = Runs
             /\ \A r \in Runs : told[r] # "none" => Durable(journal, r, told[r])

\* One more record of a type and run, or of another.
LEMMA AppendedOf ==
    ASSUME NEW j \in Seq(Record), NEW e \in Record, NEW t, NEW r
    PROVE  LET k == Append(j, e)
           IN  /\ Of(j, t, r) \subseteq DOMAIN j /\ \A i \in DOMAIN j : k[i] = j[i]
               /\ k[Len(j) + 1] = e
               /\ e.type = t /\ e.run = r => Of(k, t, r) = Of(j, t, r) \cup {Len(j) + 1}
               /\ e.type # t \/ e.run # r => Of(k, t, r) = Of(j, t, r)
  <1> DEFINE k == Append(j, e)
  <1>1. /\ DOMAIN k = DOMAIN j \cup {Len(j) + 1}
        /\ k[Len(j) + 1] = e /\ \A i \in DOMAIN j : k[i] = j[i]
    BY Appended
  <1> HIDE DEF k
  <1>2. e.type = t /\ e.run = r => Of(k, t, r) = Of(j, t, r) \cup {Len(j) + 1}
    BY <1>1 DEF Of
  <1>3. e.type # t \/ e.run # r => Of(k, t, r) = Of(j, t, r)
    BY <1>1 DEF Of
  <1>4. Of(j, t, r) \subseteq DOMAIN j
    BY DEF Of
  <1>. QED  BY <1>1, <1>2, <1>3, <1>4 DEF k

LEMMA LastOfOne ==
    ASSUME NEW j, NEW all, NEW n \in Nat, all = {n}
    PROVE  LastHow(j, all) = j[n].how
  <1>1. Max(all) = n
    BY DEF Max
  <1>. QED  BY <1>1 DEF LastHow

\* The store accepts the end of a run only while the run is on its way.
LEMMA EndIsOfActive ==
    ASSUME NEW j, NEW e, Valid(j, e), e.type = "run_finished"
    PROVE  Of(j, "run_finished", e.run) = {}
  <1>1. ~ValidLife(j, e)
    BY DEF ValidLife
  <1>. QED  BY <1>1 DEF Valid, Active, Finished

LEMMA EndsOnceReplayed ==
    ASSUME NEW j \in Seq(Record), Replays(j)
    PROVE  EndsOnce(j)
  <1>1. ASSUME NEW r, NEW a \in Of(j, "run_finished", r), NEW b \in Of(j, "run_finished", r), a < b
        PROVE  FALSE
    <2> DEFINE p == SubSeq(j, 1, b - 1)
    <2>1. /\ b \in DOMAIN j /\ b > 1 /\ Valid(p, j[b]) /\ j[b].type = "run_finished" /\ j[b].run = r
      BY WasAccepted
    <2> HIDE DEF p
    <2>2. Of(p, "run_finished", r) = {}
      BY <2>1, EndIsOfActive
    <2>. QED  BY <1>1, <2>1, <2>2, PrefixSays DEF p
  <1>2. \A r : \A a \in Of(j, "run_finished", r) : a \in Nat
    BY DEF Of
  <1>. QED  BY <1>1, <1>2 DEF EndsOnce

\* Nothing takes a result back.
LEMMA DurableStays ==
    ASSUME NEW j \in Seq(Record), EndsOnce(j), NEW e \in Record, Valid(j, e), NEW r
    PROVE  /\ EndsOnce(Append(j, e))
           /\ \A v : Durable(j, r, v) => Durable(Append(j, e), r, v)
  <1> DEFINE k == Append(j, e)
  <1>1. ASSUME NEW q, NEW a \in Of(k, "run_finished", q), NEW b \in Of(k, "run_finished", q)
        PROVE  a = b
    <2>1. CASE e.type = "run_finished" /\ e.run = q
      <3>1. Of(j, "run_finished", q) = {}
        BY <2>1, EndIsOfActive
      <3>2. Of(k, "run_finished", q) = Of(j, "run_finished", q) \cup {Len(j) + 1}
        BY <2>1, AppendedOf
      <3>. QED  BY <1>1, <3>1, <3>2
    <2>2. CASE e.type # "run_finished" \/ e.run # q
      BY <1>1, <2>2, AppendedOf DEF EndsOnce
    <2>. QED  BY <2>1, <2>2
  <1>2. ASSUME NEW v, Resolved(j, r), v = "cancelled" PROVE Durable(k, r, v)
    <2>1. Of(j, "recovery_resolved", r) \subseteq Of(k, "recovery_resolved", r)
      BY AppendedOf
    <2>. QED  BY <1>2, <2>1 DEF Resolved, Durable
  <1>3. ASSUME NEW v, Finished(j, r), LastHow(j, Of(j, "run_finished", r)) = v PROVE Durable(k, r, v)
    <2>1. PICK n \in Of(j, "run_finished", r) : TRUE
      BY <1>3 DEF Finished
    <2>2. n \in DOMAIN j /\ n \in Nat /\ Of(j, "run_finished", r) = {n}
      BY <2>1 DEF EndsOnce, Of
    <2>3. Of(k, "run_finished", r) = {n} /\ k[n] = j[n]
      <3>1. e.type # "run_finished" \/ e.run # r
        BY <2>1, EndIsOfActive
      <3>. QED  BY <2>2, <3>1, AppendedOf
    <2>4. LastHow(k, Of(k, "run_finished", r)) = v
      <3>1. LastHow(j, Of(j, "run_finished", r)) = j[n].how
        BY <2>2, LastOfOne
      <3>2. LastHow(k, Of(k, "run_finished", r)) = k[n].how
        BY <2>2, <2>3, LastOfOne
      <3>. QED  BY <1>3, <2>3, <3>1, <3>2
    <2>. QED  BY <2>3, <2>4 DEF Durable, Finished
  <1>. QED  BY <1>1, <1>2, <1>3 DEF EndsOnce, Durable

\* Writing at most one record that the store accepts.
Logs == journal' = journal \/ \E e : journal' = Append(journal, e) /\ Valid(journal, e)

LEMMA LogsKeepsResults ==
    ASSUME JournalInv, JournalInv', Logs, ResultInv, UNCHANGED told
    PROVE  ResultInv'
  <1>1. journal \in Seq(Record) /\ journal' \in Seq(Record)
    BY DEF JournalInv, World
  <1>2. CASE journal' = journal
    BY <1>2 DEF ResultInv
  <1>3. ASSUME NEW e, journal' = Append(journal, e), Valid(journal, e) PROVE ResultInv'
    <2>1. e \in Record
      <3>1. journal'[Len(journal) + 1] = e /\ Len(journal) + 1 \in DOMAIN journal'
        BY <1>1, <1>3
      <3>. QED  BY <1>1, <3>1
    <2>2. EndsOnce(journal') /\ \A r \in Runs : told[r] # "none" => Durable(journal', r, told[r])
      BY <1>1, <1>3, <2>1, DurableStays DEF ResultInv
    <2>. QED  BY <2>2 DEF ResultInv
  <1>. QED  BY <1>2, <1>3 DEF Logs

LEMMA WriteLogs ==
    /\ \A e, m : Write(e, m) \/ WriteIfRoom(e, m) => Logs
    /\ \A m : Turn(m) => Logs
  BY WriteIs DEF Turn, Logs, storeVars

\* Until its end the loop tells nobody anything.
LEMMA LoopLogs ==
    ASSUME LoopStep \/ Abort \/ ApprovalExpires, ~Finish
    PROVE  Logs /\ UNCHANGED told
  <1>1. UNCHANGED told
    BY DEF LoopStep, Abort, ApprovalExpires, RequestModel, Diagnose, ModelReturns, RecordFailure,
         RecordResponse, Judge, ReserveSummary, SettleSummary, EndBatch, DeclineCall, ApproveCall,
         PrepareCall, ExecuteCall, SpawnCommand, ToolReturns, EndPending, Turn, runVars
  <1>2. CASE RequestModel \/ Diagnose \/ ModelReturns \/ RecordFailure
    BY <1>1, <1>2, WriteLogs DEF RequestModel, Diagnose, ModelReturns, RecordFailure
  <1>3. CASE RecordResponse
    BY <1>1, <1>3, WriteLogs DEF RecordResponse
  <1>4. CASE Judge \/ ReserveSummary \/ SettleSummary
    BY <1>1, <1>4, WriteLogs DEF Judge, ReserveSummary, SettleSummary
  <1>5. CASE EndBatch \/ DeclineCall \/ ApproveCall \/ PrepareCall
    BY <1>1, <1>5, WriteLogs DEF EndBatch, DeclineCall, ApproveCall, PrepareCall
  <1>6. CASE ExecuteCall \/ SpawnCommand \/ ToolReturns \/ EndPending
    BY <1>1, <1>6, WriteLogs DEF ExecuteCall, SpawnCommand, ToolReturns, EndPending
  <1>7. CASE Abort \/ ApprovalExpires
    BY <1>1, <1>7, WriteLogs DEF Abort, ApprovalExpires, Logs, storeVars
  <1>. QED  BY <1>1, <1>2, <1>3, <1>4, <1>5, <1>6, <1>7 DEF LoopStep

LEMMA FinishKeepsResults ==
    ASSUME JournalInv, JournalInv', ResultInv, Finish
    PROVE  ResultInv'
  <1> DEFINE e == ByLoop("run_finished", NONE, loop.stop)
  <1>1. loop.pc = "ending" /\ loop.run \in Runs /\ loop \in Loop /\ journal \in Seq(Record)
    BY LoopIs DEF Finish, At
  <1>2. Turn(Quiet) \/ Write(e, Quiet)
    BY DEF Finish
  <1>3. CASE UNCHANGED told
    BY <1>2, <1>3, WriteLogs, LogsKeepsResults
  <1>4. CASE told' # told
    <2>1. told' = [told EXCEPT ![loop.run] = loop.stop] /\ Write(e, Quiet) /\ Accepts(e) /\ poisoned' = FALSE
      BY <1>4 DEF Finish
    <2>2. /\ e = [type |-> "run_finished", run |-> loop.run, item |-> NONE, how |-> loop.stop]
          /\ loop.stop \in Stops
      BY <1>1 DEF ByLoop, Rec, JournalInv, Sane, Loop
    <2>3. e \in Record /\ e.type = "run_finished" /\ e.run = loop.run /\ e.how = loop.stop
      BY <1>1, <2>2 DEF Record, RecordTypes, Outcomes
    <2> HIDE DEF e
    <2>4. journal' = Append(journal, e) /\ Valid(journal, e)
      BY <2>1 DEF Write, Accepts, Land, Break
    <2>5. /\ EndsOnce(journal')
          /\ \A r \in Runs : told[r] # "none" => Durable(journal', r, told[r])
      BY <1>1, <2>3, <2>4, DurableStays DEF ResultInv
    <2> DEFINE n == Len(journal) + 1
    <2>6. n \in Nat /\ journal'[n] = e
      BY <1>1, <2>4
    <2>7. Of(journal, "run_finished", loop.run) = {}
      BY <2>3, <2>4, EndIsOfActive
    <2>8. Of(journal', "run_finished", loop.run) = {n}
      BY <1>1, <2>3, <2>4, <2>7, AppendedOf
    <2> HIDE DEF n
    <2>9. LastHow(journal', Of(journal', "run_finished", loop.run)) = loop.stop
      BY <2>3, <2>6, <2>8, LastOfOne
    <2>10. Durable(journal', loop.run, loop.stop)
      BY <2>8, <2>9 DEF Durable, Finished
    <2>. QED  BY <1>1, <2>1, <2>2, <2>5, <2>10 DEF ResultInv
  <1>. QED  BY <1>3, <1>4

\* Whoever asks for a run that has started is told what is on disk.
LEMMA BeginKeepsResults ==
    ASSUME JournalInv, JournalInv', ResultInv, NEW h \in Hosts, NEW r \in Runs, BeginRun(h, r)
    PROVE  ResultInv'
  <1>1. CASE Started(journal, r)
    <2> DEFINE last == LastHow(journal, Of(journal, "run_finished", r))
               v == IF Finished(journal, r) THEN last ELSE IF Resolved(journal, r) THEN "cancelled" ELSE told[r]
    <2>1. told' = [told EXCEPT ![r] = v] /\ UNCHANGED journal
      BY <1>1 DEF BeginRun, storeVars
    <2>2. v # "none" => Durable(journal, r, v)
      BY DEF Durable, ResultInv
    <2> HIDE DEF v
    <2>. QED  BY <2>1, <2>2 DEF ResultInv
  <1>2. CASE ~Started(journal, r)
    <2>1. Logs /\ UNCHANGED told
      BY <1>2, WriteLogs DEF BeginRun, runVars
    <2>. QED  BY <2>1, LogsKeepsResults
  <1>. QED  BY <1>1, <1>2

LEMMA ResultInvInit == Init => ResultInv
  <1> SUFFICES ASSUME Init PROVE ResultInv
    OBVIOUS
  <1>1. JournalInv /\ Replays(journal)
    BY JournalInvInit, ReplaysInit
  <1>2. EndsOnce(journal)
    BY <1>1, EndsOnceReplayed DEF JournalInv, World
  <1>3. DOMAIN told = Runs /\ \A r \in Runs : told[r] = "none"
    BY DEF Init
  <1>. QED  BY <1>2, <1>3 DEF ResultInv

LEMMA HostKeepsResults ==
    ASSUME JournalInv, JournalInv', ResultInv, NEW h \in Hosts, HostStep(h)
    PROVE  ResultInv'
  <1>1. CASE (CreateLock(h) \/ WriteLock(h) \/ ContendLock(h) \/ ProbeOwner(h) \/ ReclaimLock(h) \/ Close(h)) /\ Beside
    <2>1. Logs /\ UNCHANGED told
      BY <1>1 DEF CreateLock, WriteLock, ContendLock, ProbeOwner, ReclaimLock, Close, diskVars, Beside, runVars, Logs
    <2>. QED  BY <2>1, LogsKeepsResults
  <1>2. CASE Die(h) /\ UNCHANGED runVars
    <2>1. Logs /\ UNCHANGED told
      BY <1>2 DEF Die, diskVars, runVars, Logs
    <2>. QED  BY <2>1, LogsKeepsResults
  <1>3. CASE Load(h) /\ Beside
    <2>1. UNCHANGED told
      BY <1>3 DEF Beside, runVars
    <2>2. ASSUME NEW r \in Runs, Active(journal, r), journal' = Append(journal, Rec("run_recovered", r, NONE, "done"))
          PROVE  Logs
      <3>1. Valid(journal, Rec("run_recovered", r, NONE, "done"))
        BY <2>2 DEF Valid, ValidLife, Rec
      <3>. QED  BY <2>2, <3>1 DEF Logs
    <2>3. Logs
      BY <1>3, <2>2 DEF Load, Logs
    <2>. QED  BY <2>1, <2>3, LogsKeepsResults
  <1>4. ASSUME NEW r \in Runs, (PrepareStartup(h, r) \/ CloseStartup(h, r) \/ ResolveRecovery(h, r)) /\ Beside
        PROVE  ResultInv'
    <2>1. Logs /\ UNCHANGED told
      BY <1>4 DEF PrepareStartup, CloseStartup, ResolveRecovery, Accepts, Land, Break, Beside, runVars, Logs
    <2>. QED  BY <2>1, LogsKeepsResults
  <1>5. ASSUME NEW r \in Runs, NEW c \in Commands, CommandEnds(h, r, c) PROVE ResultInv'
    <2>1. Logs /\ UNCHANGED told
      BY <1>5 DEF CommandEnds, Accepts, Land, Break, Logs
    <2>. QED  BY <2>1, LogsKeepsResults
  <1>. QED  BY <1>1, <1>2, <1>3, <1>4, <1>5, BeginKeepsResults DEF HostStep

LEMMA ResultInvNext == JournalInv /\ JournalInv' /\ ResultInv /\ [Next]_vars => ResultInv'
  <1> SUFFICES ASSUME JournalInv, JournalInv', ResultInv, [Next]_vars PROVE ResultInv'
    OBVIOUS
  <1>1. CASE UNCHANGED vars
    BY <1>1 DEF ResultInv, vars, storeVars
  <1>2. CASE Finish
    BY <1>2, FinishKeepsResults
  <1>3. CASE (LoopStep \/ Abort \/ ApprovalExpires) /\ ~Finish
    BY <1>3, LoopLogs, LogsKeepsResults
  <1>. QED  BY <1>1, <1>2, <1>3, HostKeepsResults DEF Next

\* What a caller was given as the result of a run is the end on disk, after any
\* failed append, crash and recovery: a run ends once (finish in runAgent of
\* run.ts), and the answer to a repeated request is read from the journal
\* (beginRun of run-store.ts).
THEOREM ResultsLast == Spec => []ResultsAreDurable
  <1>1. Spec => []ResultInv
    BY ResultInvInit, ResultInvNext, JournalInvHolds, PTL DEF Spec
  <1>2. ResultInv => ResultsAreDurable
    BY DEF ResultInv, ResultsAreDurable, Durable
  <1>. QED  BY <1>1, <1>2, PTL
-----------------------------------------------------------------------------
(* Every journal can be opened.                                            *)

\* Whatever is appended was accepted by the store.
LEMMA NextLogs == ASSUME [Next]_vars PROVE Logs
  <1>1. CASE UNCHANGED vars
    BY <1>1 DEF vars, storeVars, Logs
  <1>2. CASE LoopStep \/ Abort \/ ApprovalExpires
    BY <1>2, LoopLogs, WriteLogs DEF Finish
  <1>3. ASSUME NEW h \in Hosts, HostStep(h) PROVE Logs
    <2>1. CASE UNCHANGED journal
      BY <2>1 DEF Logs
    <2>2. CASE Load(h)
      <3>1. ASSUME NEW r \in Runs, Active(journal, r), journal' = Append(journal, Rec("run_recovered", r, NONE, "done"))
            PROVE  Logs
        <4>1. Valid(journal, Rec("run_recovered", r, NONE, "done"))
          BY <3>1 DEF Valid, ValidLife, Rec
        <4>. QED  BY <3>1, <4>1 DEF Logs
      <3>. QED  BY <2>2, <3>1 DEF Load, Logs
    <2>3. ASSUME NEW r \in Runs, PrepareStartup(h, r) \/ CloseStartup(h, r) \/ ResolveRecovery(h, r)
          PROVE  Logs
      BY <2>3 DEF PrepareStartup, CloseStartup, ResolveRecovery, Accepts, Land, Break, Logs
    <2>4. ASSUME NEW r \in Runs, BeginRun(h, r) PROVE Logs
      BY <2>1, <2>4, WriteLogs DEF BeginRun, storeVars
    <2>5. ASSUME NEW r \in Runs, NEW c \in Commands, CommandEnds(h, r, c) PROVE Logs
      BY <2>5 DEF CommandEnds, Accepts, Land, Break, Logs
    <2>. QED  BY <1>3, <2>1, <2>2, <2>3, <2>4, <2>5
              DEF HostStep, CreateLock, WriteLock, ContendLock, ProbeOwner, ReclaimLock, Close, Die, diskVars
  <1>. QED  BY <1>1, <1>2, <1>3 DEF Next

ReplayInv == journal # <<>> /\ Replays(journal)

LEMMA ReplayInvNext ==
    ASSUME JournalInv, JournalInv', ReplayInv, [Next]_vars
    PROVE  ReplayInv'
  <1>1. journal \in Seq(Record) /\ journal' \in Seq(Record)
    BY DEF JournalInv, World
  <1>2. ASSUME NEW e, journal' = Append(journal, e), Valid(journal, e)
        PROVE  ReplayInv'
    <2>1. e \in Record
      <3>1. journal'[Len(journal) + 1] = e /\ Len(journal) + 1 \in DOMAIN journal'
        BY <1>1, <1>2
      <3>. QED  BY <1>1, <3>1
    <2>. QED  BY <1>1, <1>2, <2>1, ReplaysOn DEF ReplayInv
  <1>. QED  BY <1>2, NextLogs DEF Logs, ReplayInv

LEMMA ReplayInvHolds == Spec => []ReplayInv
  <1>1. Init => ReplayInv
    BY ReplaysInit DEF ReplayInv
  <1>. QED  BY <1>1, ReplayInvNext, JournalInvHolds, PTL DEF Spec

\* What is on disk is what an opening accepts: whatever appends failed and whenever the
\* host died, validateEvent takes every record of the journal again after those before it
\* (replaySnapshot), so that no opening refuses a journal for what is written in it.
THEOREM JournalCanBeReplayed == Spec => []Replays(journal)
  <1>1. ReplayInv => Replays(journal)
    BY DEF ReplayInv
  <1>. QED  BY <1>1, ReplayInvHolds, PTL

-----------------------------------------------------------------------------
(* The run of the loop.                                                    *)

\* One more record leaves what is on record of other types, runs and calls.
LEMMA AppendedLife ==
    ASSUME NEW j \in Seq(Record), NEW e \in Record, NEW r
    PROVE  LET k == Append(j, e)
           IN  /\ Started(k, r) <=> Started(j, r) \/ (e.type = "run_started" /\ e.run = r)
               /\ Recovered(k, r) <=> Recovered(j, r) \/ (e.type = "run_recovered" /\ e.run = r)
               /\ Finished(k, r) <=> Finished(j, r) \/ (e.type = "run_finished" /\ e.run = r)
               /\ Resolved(k, r) <=> Resolved(j, r) \/ (e.type = "recovery_resolved" /\ e.run = r)
  <1> DEFINE k == Append(j, e)
  <1>1. ASSUME NEW t PROVE Of(k, t, r) # {} <=> Of(j, t, r) # {} \/ (e.type = t /\ e.run = r)
    <2>1. DOMAIN k = DOMAIN j \cup {Len(j) + 1} /\ k[Len(j) + 1] = e
          /\ \A i \in DOMAIN j : k[i] = j[i]
      BY Appended
    <2> HIDE DEF k
    <2>2. CASE e.type = t /\ e.run = r
      <3>1. Len(j) + 1 \in Of(k, t, r)
        BY <2>1, <2>2 DEF Of
      <3>. QED  BY <2>2, <3>1
    <2>3. CASE ~(e.type = t /\ e.run = r)
      <3>1. Of(k, t, r) = Of(j, t, r)
        BY <2>1, <2>3 DEF Of
      <3>. QED  BY <2>3, <3>1
    <2>. QED  BY <2>2, <2>3
  <1> HIDE DEF k
  <1>2. /\ Started(k, r) <=> Started(j, r) \/ (e.type = "run_started" /\ e.run = r)
        /\ Recovered(k, r) <=> Recovered(j, r) \/ (e.type = "run_recovered" /\ e.run = r)
        /\ Finished(k, r) <=> Finished(j, r) \/ (e.type = "run_finished" /\ e.run = r)
        /\ Resolved(k, r) <=> Resolved(j, r) \/ (e.type = "recovery_resolved" /\ e.run = r)
    BY <1>1 DEF Started, Recovered, Finished, Resolved
  <1>. QED  BY <1>2 DEF k

\* What the loop writes before its end, or the host beside it about a command.
Talk(e) == e.type \notin {"run_finished", "run_recovered"}

LEMMA TalkKeepsActive ==
    ASSUME NEW j \in Seq(Record), NEW e \in Record, Talk(e), NEW r, Active(j, r)
    PROVE  Active(Append(j, e), r)
  BY AppendedLife DEF Talk, Active

\* Steps of the loop before its end stay in the run and write of it; none of them but
\* ExecuteCall goes to spawn a command.
Said ==
    \/ journal' = journal
    \/ \E e \in Record : /\ journal' = Append(journal, e) /\ Valid(journal, e) /\ Talk(e)
                         /\ e.type = "command_lifecycle" => e.how # "finished"
Stays ==
    /\ loop' = Quiet \/ loop'.run = loop.run
    /\ loop'.pc = "spawning" =>
          loop.pc = "spawning" /\ loop'.pending = loop.pending /\ UNCHANGED journal

LEMMA WriteSays ==
    ASSUME JournalInv, ~At("idle"), NEW t \in RecordTypes, NEW v \in Outcomes,
           NEW x \in Calls \cup {NONE} \cup Seq(Calls),
           t \notin {"run_finished", "run_recovered"}, t = "command_lifecycle" => v # "finished",
           NEW m, Write(ByLoop(t, x, v), m) \/ WriteIfRoom(ByLoop(t, x, v), m)
    PROVE  Said /\ (loop' = m \/ loop' = Quiet)
  <1> DEFINE e == ByLoop(t, x, v)
  <1>1. e \in Record /\ e.type = t /\ e.how = v
    BY ByLoopIsRecord DEF At
  <1>2. Write(e, m) \/ WriteIfRoom(e, m)
    OBVIOUS
  <1> HIDE DEF e
  <1>. QED  BY <1>1, <1>2, WriteIs DEF Said, Talk

LEMMA TurnSays ==
    ASSUME NEW m, Turn(m)
    PROVE  Said /\ loop' = m
  BY DEF Turn, Said, storeVars

LEMMA LoopStays ==
    ASSUME JournalInv
    PROVE  /\ loop' = Quiet => Stays
           /\ \A p \in Places \ {"spawning"} : loop' = Go(p) => Stays
           /\ \A s : loop' = Ending(s) => Stays
           /\ loop' = Answered => Stays
  <1>1. loop \in Loop /\ Quiet.pc = "idle"
    BY LoopIs DEF Quiet
  <1>2. ASSUME NEW p \in Places \ {"spawning"}, loop' = Go(p) PROVE Stays
    BY <1>1, <1>2 DEF Stays, Go, Loop
  <1>3. ASSUME NEW s, loop' = Ending(s) PROVE Stays
    BY <1>1, <1>3 DEF Stays, Ending, Loop
  <1>4. CASE loop' = Answered
    <2>1. loop'.run = loop.run /\ loop'.pc \in {"batch", "ending"}
      BY <1>1, <1>4 DEF Answered, Loop
    <2>. QED  BY <2>1 DEF Stays
  <1>. QED  BY <1>1, <1>2, <1>3, <1>4 DEF Stays

LEMMA LoopTalks ==
    ASSUME JournalInv, LoopStep \/ Abort \/ ApprovalExpires, ~Finish, ~ExecuteCall
    PROVE  Said /\ Stays
  <1>0. ~At("idle")
    BY DEF LoopStep, Abort, ApprovalExpires, RequestModel, Diagnose, ModelReturns, RecordFailure,
         RecordResponse, Judge, ReserveSummary, SettleSummary, EndBatch, DeclineCall, ApproveCall,
         PrepareCall, SpawnCommand, ToolReturns, EndPending, At
  <1> DEFINE talk == {"model_request_started", "model_request_diagnostic", "model_request_failed",
                      "completion_rejected", "summary_attempted", "summary_settled"}
             tool == {"tool_prepared", "tool_completed", "command_lifecycle"}
             ends == {"run_finished", "run_recovered"}
             next == {"turn", "asked", "sending", "failing", "answered", "summarizing", "prepared", "executing"}
  <1>1. /\ talk \subseteq RecordTypes \ ends /\ tool \subseteq RecordTypes \ ends
        /\ "command_lifecycle" \notin talk /\ next \subseteq Places \ {"spawning"}
    BY DEF RecordTypes, Places
  <1>2. Outcomes = Stops \cup {"done", "started", "request", "dispatched", "finished", "retry", "final",
                  "compacted", "denied", "not_executed", "prepared", "running", "unknown"}
    BY DEF Outcomes
  <1>3. ASSUME NEW t \in talk, NEW v \in Outcomes, NEW m,
               m \in {loop, Quiet} \/ (\E s : m = Ending(s)) \/ (\E p \in next : m = Go(p)),
               Write(ByLoop(t, NONE, v), m) \/ WriteIfRoom(ByLoop(t, NONE, v), m),
               loop.pc # "spawning"
        PROVE  Said /\ Stays
    <2>1. Said /\ (loop' = m \/ loop' = Quiet)
      BY <1>0, <1>1, <1>3, WriteSays
    <2>. QED  BY <1>1, <1>3, <2>1, LoopStays DEF Stays
  <1>4. ASSUME NEW m, (\E s : m = Ending(s)) \/ (\E p \in next : m = Go(p)), Turn(m)
        PROVE  Said /\ Stays
    <2>1. Said /\ loop' = m
      BY <1>4, TurnSays
    <2>. QED  BY <1>1, <1>4, <2>1, LoopStays
  <1>5. ASSUME NEW t \in tool, NEW v \in Outcomes, v # "finished", loop.pending # <<>>, NEW m,
               m = Answered \/ (\E p \in next : m = Go(p)),
               Write(ByLoop(t, Call, v), m) \/ WriteIfRoom(ByLoop(t, Call, v), m)
        PROVE  Said /\ Stays
    <2>1. Call \in Calls
      BY <1>5, LoopIs
    <2>2. Said /\ (loop' = m \/ loop' = Quiet)
      BY <1>0, <1>1, <1>5, <2>1, WriteSays
    <2>. QED  BY <1>1, <1>5, <2>2, LoopStays
  <1>. HIDE DEF talk, tool, ends
  <1>6. CASE RequestModel
    BY <1>2, <1>3, <1>4, <1>6 DEF RequestModel, talk, At
  <1>7. CASE Diagnose
    <2>1. /\ loop.pc \in {"asked", "sending"}
          /\ \E v \in {"started", "request", "dispatched"}, m \in {Go("sending"), loop} :
                Write(ByLoop("model_request_diagnostic", NONE, v), m)
      BY <1>7 DEF Diagnose, At
    <2>2. {"started", "request", "dispatched"} \subseteq Outcomes /\ "model_request_diagnostic" \in talk
      BY <1>2 DEF talk
    <2>. QED  BY <1>3, <2>1, <2>2
  <1>8. CASE ModelReturns
    BY <1>2, <1>3, <1>8 DEF ModelReturns, talk, At
  <1>9. CASE RecordFailure
    BY <1>2, <1>3, <1>9 DEF RecordFailure, talk, At
  <1>10. CASE RecordResponse
    <2>1. PICK calls, m :
            /\ calls \in Batches
            /\ WriteIfRoom(ByLoop("model_response", calls, "done"), m)
            /\ m.run = loop.run /\ m.pc # "spawning"
      <3>1. loop \in Loop /\ loop.pc = "answered"
        BY <1>10, LoopIs DEF RecordResponse, At
      <3>2. PICK calls \in Batches, refusal \in BOOLEAN :
              LET next1 == [loop EXCEPT !.pending = calls]
              IN WriteIfRoom(ByLoop("model_response", calls, "done"),
                   IF loop.abort THEN [next1 EXCEPT !.pc = "ending", !.stop = "cancelled"]
                   ELSE IF refusal THEN [next1 EXCEPT !.pc = "ending", !.stop = "failed"]
                   ELSE [next1 EXCEPT !.pc = IF calls = <<>> THEN "judge" ELSE "batch"])
        BY <1>10 DEF RecordResponse
      <3> DEFINE next1 == [loop EXCEPT !.pending = calls]
                 m == IF loop.abort THEN [next1 EXCEPT !.pc = "ending", !.stop = "cancelled"]
                      ELSE IF refusal THEN [next1 EXCEPT !.pc = "ending", !.stop = "failed"]
                      ELSE [next1 EXCEPT !.pc = IF calls = <<>> THEN "judge" ELSE "batch"]
      <3>3. m.run = loop.run /\ m.pc # "spawning"
        BY <3>1 DEF Loop
      <3>. QED  BY <3>2, <3>3
    <2>2. calls \in Calls \cup {NONE} \cup Seq(Calls) /\ "model_response" \in RecordTypes /\ "done" \in Outcomes
      BY <2>1, LoopConstants DEF RecordTypes, Outcomes
    <2>3. Said /\ (loop' = m \/ loop' = Quiet)
      BY <1>0, <2>1, <2>2, WriteSays
    <2>. QED  BY <2>1, <2>3, LoopStays DEF Stays
  <1>11. CASE Judge
    <2>1. /\ loop.pc = "judge"
          /\ \/ \E s \in {"completed", "failed", "cancelled"} : Turn(Ending(s))
             \/ WriteIfRoom(ByLoop("completion_rejected", NONE, "done"), Ending("failed"))
             \/ WriteIfRoom(ByLoop("completion_rejected", NONE, "done"), Go("turn"))
      BY <1>11 DEF Judge, At
    <2>2. "completion_rejected" \in talk /\ "done" \in Outcomes
      BY <1>2 DEF talk
    <2>3. \A s : Turn(Ending(s)) => Said /\ Stays
      BY <1>4
    <2>. QED  BY <1>3, <2>1, <2>2, <2>3
  <1>12. CASE ReserveSummary \/ SettleSummary
    <2>1. /\ loop.pc \in {"turn", "summarizing"}
          /\ \E t \in {"summary_attempted", "summary_settled"}, v \in {"done", "compacted", "failed"} :
                \/ \E p \in {"summarizing", "turn"} : Write(ByLoop(t, NONE, v), Go(p))
                \/ \E s : Write(ByLoop(t, NONE, v), Ending(s))
      BY <1>12 DEF ReserveSummary, SettleSummary, At
    <2>2. {"summary_attempted", "summary_settled"} \subseteq talk /\ {"done", "compacted", "failed"} \subseteq Outcomes
      BY <1>2 DEF talk, Stops
    <2>. QED  BY <1>3, <2>1, <2>2
  <1>13. CASE EndBatch
    BY <1>4, <1>13 DEF EndBatch
  <1>14. CASE DeclineCall
    <2>1. /\ loop.pending # <<>>
          /\ \/ Turn(Ending("cancelled"))
             \/ \E v \in {"failed", "denied"} : Write(ByLoop("tool_completed", Call, v), Answered)
      BY <1>14 DEF DeclineCall
    <2>2. {"failed", "denied"} \subseteq Outcomes \ {"finished"} /\ "tool_completed" \in tool
      BY <1>2 DEF tool, Stops
    <2>. QED  BY <1>4, <1>5, <2>1, <2>2
  <1>15. CASE ApproveCall \/ ApprovalExpires
    <2>1. loop \in Loop
      BY LoopIs
    <2>2. \/ Turn([loop EXCEPT !.pc = "approved", !.fresh = TRUE])
          \/ loop.pc = "approved" /\ Turn([loop EXCEPT !.fresh = FALSE])
      BY <1>15 DEF ApproveCall, ApprovalExpires, At
    <2>3. \/ Said /\ loop' = [loop EXCEPT !.pc = "approved", !.fresh = TRUE]
          \/ Said /\ loop.pc = "approved" /\ loop' = [loop EXCEPT !.fresh = FALSE]
      BY <2>2, TurnSays
    <2>. QED  BY <2>1, <2>3 DEF Stays, Loop
  <1>16. CASE PrepareCall
    <2>1. loop.pending # <<>>
      BY <1>16 DEF PrepareCall, At, JournalInv, Sane
    <2>2. \/ Turn(Ending("cancelled"))
          \/ WriteIfRoom(ByLoop("tool_prepared", Call, "done"), Go("prepared"))
          \/ WriteIfRoom(ByLoop("tool_completed", Call, "denied"), Answered)
      BY <1>16 DEF PrepareCall
    <2>3. {"done", "denied"} \subseteq Outcomes \ {"finished"} /\ {"tool_completed", "tool_prepared"} \subseteq tool
      BY <1>2 DEF tool
    <2>. QED  BY <1>4, <1>5, <2>1, <2>2, <2>3
  <1>17. CASE SpawnCommand
    <2>1. loop.pending # <<>>
      BY <1>17 DEF SpawnCommand, At, JournalInv, Sane
    <2>2. Write(ByLoop("command_lifecycle", Call, "running"), Go("executing"))
      BY <1>17 DEF SpawnCommand
    <2>3. "running" \in Outcomes \ {"finished"} /\ "command_lifecycle" \in tool
      BY <1>2 DEF tool
    <2>. QED  BY <1>5, <2>1, <2>2, <2>3
  <1>18. CASE ToolReturns
    <2>1. loop.pending # <<>>
      BY <1>18 DEF ToolReturns, At, JournalInv, Sane
    <2>2. \/ \E v \in {"completed", "failed", "cancelled"} : Write(ByLoop("tool_completed", Call, v), Answered)
          \/ Turn(Ending("recovery_required"))
      BY <1>18 DEF ToolReturns
    <2>3. {"completed", "failed", "cancelled"} \subseteq Outcomes \ {"finished"} /\ "tool_completed" \in tool
      BY <1>2 DEF tool, Stops
    <2>. QED  BY <1>4, <1>5, <2>1, <2>2, <2>3
  <1>19. CASE EndPending
    <2>1. /\ loop.pending # <<>>
          /\ \E v \in {"cancelled", "not_executed"} : Write(ByLoop("tool_completed", Call, v), Answered)
      BY <1>19 DEF EndPending, Owed
    <2>2. {"cancelled", "not_executed"} \subseteq Outcomes \ {"finished"} /\ "tool_completed" \in tool
      BY <1>2 DEF tool, Stops
    <2>. QED  BY <1>5, <2>1, <2>2
  <1>20. CASE Abort
    <2>1. loop \in Loop /\ loop' = [loop EXCEPT !.abort = TRUE] /\ journal' = journal
      BY <1>20, LoopIs DEF Abort, storeVars
    <2>. QED  BY <2>1 DEF Said, Stays, Loop
  <1>. QED  BY <1>0, <1>6, <1>7, <1>8, <1>9, <1>10, <1>11, <1>12, <1>13, <1>14, <1>15, <1>16, <1>17,
               <1>18, <1>19, <1>20 DEF LoopStep
-----------------------------------------------------------------------------
(* What is in doubt.                                                       *)

\* A run is over for its user; what ran for it is on record as completed.
Over(j, r) == (Finished(j, r) /\ ~Blocked(j, r)) \/ Resolved(j, r)
Known(j, eff, r) == \A c \in Calls : eff[<<r, c>>] = 1 => Completed(j, r, c)

Settled(j, eff, run) ==
    \A r \in Runs :
        /\ Over(j, r) => Known(j, eff, r) /\ \A c \in Commands : <<r, c>> \notin run
        /\ (\E s \in Runs \ {r} : Active(j, s)) => Known(j, eff, r)
\* A command that is alive has run, and its end is not on record.
Watched(j, eff, run) ==
    \A r \in Runs, c \in Commands : <<r, c>> \in run =>
        eff[<<r, c>>] = 1 /\ "prepared" \in Progress(j, r, c) /\ "finished" \notin Progress(j, r, c)
\* The command that is about to be spawned is on record as such.
Begun(j, l) ==
    l.pc = "spawning" =>
        LET known == Progress(j, l.run, Head(l.pending))
        IN  Head(l.pending) \in Commands /\ "prepared" \in known /\ "finished" \notin known

\* One more record leaves what a journal says of the progress of other commands.
LEMMA AppendedProgress ==
    ASSUME NEW j \in Seq(Record), NEW e \in Record, NEW r, NEW c
    PROVE  LET k == Append(j, e)
               mine == e.type = "command_lifecycle" /\ e.run = r /\ e.item = c
           IN  Progress(k, r, c) = Progress(j, r, c) \cup (IF mine THEN {e.how} ELSE {})
  <1> DEFINE k == Append(j, e)
             mine == e.type = "command_lifecycle" /\ e.run = r /\ e.item = c
             old == About(j, "command_lifecycle", r, c)
             new == About(k, "command_lifecycle", r, c)
  <1>1. /\ DOMAIN k = DOMAIN j \cup {Len(j) + 1}
        /\ k[Len(j) + 1] = e /\ \A i \in DOMAIN j : k[i] = j[i]
    BY Appended
  <1> HIDE DEF k
  <1>2. new = old \cup (IF mine THEN {Len(j) + 1} ELSE {}) /\ old \subseteq DOMAIN j
    BY <1>1 DEF About, Of
  <1> HIDE DEF mine, old, new
  <1>3. {k[i].how : i \in new} = {j[i].how : i \in old} \cup (IF mine THEN {e.how} ELSE {})
    <2>1. \A i \in old : k[i] = j[i]
      BY <1>1, <1>2
    <2>. QED  BY <1>1, <1>2, <2>1
  <1>. QED  BY <1>3 DEF Progress, k, mine, old, new

\* What is completed stays so.
LEMMA CompletedStays ==
    ASSUME NEW j \in Seq(Record), NEW e \in Record, NEW r, NEW c, Completed(j, r, c)
    PROVE  Completed(Append(j, e), r, c)
  <1>1. About(j, "tool_completed", r, c) # {} => About(Append(j, e), "tool_completed", r, c) # {}
    BY AppendedSays DEF Done
  <1>. QED  BY <1>1, AppendedSays, AppendedLife DEF Completed

\* A run is over by its end or by the resolution of its recovery.
LEMMA OverBy ==
    ASSUME NEW j \in Seq(Record), NEW e \in Record, NEW r, Over(Append(j, e), r),
           ~(e.type \in {"run_finished", "recovery_resolved"} /\ e.run = r)
    PROVE  Over(j, r)
  <1> DEFINE k == Append(j, e)
  <1>1. /\ Of(k, "run_finished", r) = Of(j, "run_finished", r)
        /\ \A i \in Of(j, "run_finished", r) : k[i] = j[i]
    BY AppendedOf
  <1>2. /\ Resolved(k, r) <=> Resolved(j, r)
        /\ Finished(k, r) <=> Finished(j, r)
        /\ Recovered(j, r) => Recovered(k, r)
    BY AppendedLife
  <1> HIDE DEF k
  <1>3. Blocked(j, r) => Blocked(k, r)
    BY <1>1, <1>2 DEF Blocked
  <1>4. Over(k, r)
    BY DEF k
  <1>. QED  BY <1>2, <1>3, <1>4 DEF Over

\* The store accepts the end of a run, and the resolution of its recovery, only with
\* every call that was asked for settled and no command in doubt.
LEMMA EndIsSettled ==
    ASSUME NEW j \in Seq(Record), LivesInOrder(j), NEW e \in Record, Valid(j, e),
           e.type \in {"run_finished", "recovery_resolved"}, Over(Append(j, e), e.run)
    PROVE  \A c \in Requested(j, e.run) : Completed(Append(j, e), e.run, c) /\ ~Uncertain(j, e.run, c)
  <1> DEFINE r == e.run
             k == Append(j, e)
  <1>1. CASE e.type = "recovery_resolved"
    <2>1. \A c \in Requested(j, r) : ~Uncertain(j, r, c)
      BY <1>1 DEF Valid, ValidLife, ValidModel, ValidCommand, ValidTool, ValidEnd
    <2>2. Resolved(k, r)
      BY <1>1, AppendedLife
    <2>3. Requested(j, r) \subseteq Requested(k, r)
      BY AppendedSays
    <2>. QED  BY <2>1, <2>2, <2>3 DEF Completed
  <1>2. CASE e.type = "run_finished"
    <2>1. Active(j, r) /\ (Unresolved(j, r) => e.how = "recovery_required")
      BY <1>2 DEF Valid, ValidLife, ValidModel, ValidCommand, ValidTool, ValidEnd
    <2>2. ~Resolved(k, r)
      BY <1>2, <2>1, AppendedLife DEF LivesInOrder, Active
    <2>3. Len(j) + 1 \in Of(k, "run_finished", r) /\ k[Len(j) + 1] = e
      <3> DEFINE t == "run_finished"
      <3>1. /\ k[Len(j) + 1] = e
            /\ e.type = t /\ e.run = r => Of(k, t, r) = Of(j, t, r) \cup {Len(j) + 1}
        BY AppendedOf
      <3> HIDE DEF k
      <3>. QED  BY <1>2, <3>1
    <2>4. e.how = "recovery_required" => Blocked(k, r)
      BY <2>2, <2>3 DEF Blocked
    <2>5. ~Unresolved(j, r)
      BY <2>1, <2>2, <2>4 DEF Over
    <2>6. \A c \in Requested(j, r) : Completed(j, r, c) /\ ~Uncertain(j, r, c)
      BY <2>5 DEF Unresolved
    <2>. QED  BY <2>6, CompletedStays
  <1>. QED  BY <1>1, <1>2

\* A run may start only when every other is over, or has done nothing.
LEMMA StartIsSettled ==
    ASSUME NEW j \in Seq(Record), LivesInOrder(j), NEW e, Valid(j, e), e.type = "run_started",
           NEW r \in Runs
    PROVE  Over(j, r) \/ \A c : ~Prepared(j, r, c)
  <1>1. ~Active(j, r) /\ ~Blocked(j, r)
    BY LifeDemands DEF Idle
  <1>2. Started(j, r) => Over(j, r)
    BY <1>1 DEF Active, Blocked, Over
  <1>. QED  BY <1>2 DEF LivesInOrder

LEMMA SettledGrows ==
    ASSUME NEW j, NEW eff, World(j, eff), LivesInOrder(j), NEW e \in Record, Valid(j, e),
           NEW run, Settled(j, eff, run), Watched(j, eff, run)
    PROVE  Settled(Append(j, e), eff, run)
  <1> DEFINE k == Append(j, e)
  <1>1. j \in Seq(Record) /\ Preparedness(j, eff) /\ eff \in [Runs \X Calls -> {0, 1}]
    BY DEF World
  <1>2. ASSUME NEW r \in Runs, Known(j, eff, r) PROVE Known(k, eff, r)
    BY <1>1, <1>2, CompletedStays DEF Known
  <1>3. ASSUME NEW r \in Runs, Over(k, r)
        PROVE  Known(k, eff, r) /\ \A c \in Commands : <<r, c>> \notin run
    <2>1. CASE e.type \in {"run_finished", "recovery_resolved"} /\ e.run = r
      <3>1. \A c \in Requested(j, r) : Completed(k, r, c) /\ ~Uncertain(j, r, c)
        BY <1>1, <1>3, <2>1, EndIsSettled
      <3>2. \A c \in Calls : eff[<<r, c>>] = 1 => c \in Requested(j, r)
        BY <1>1 DEF Preparedness
      <3>3. ASSUME NEW c \in Commands, <<r, c>> \in run PROVE FALSE
        <4>1. c \in Calls /\ eff[<<r, c>>] = 1 /\ Uncertain(j, r, c)
          BY <3>3, StoreConstants DEF Watched, Uncertain
        <4>. QED  BY <3>1, <3>2, <4>1
      <3> HIDE DEF k
      <3>. QED  BY <3>1, <3>2, <3>3 DEF Known
    <2>2. CASE ~(e.type \in {"run_finished", "recovery_resolved"} /\ e.run = r)
      BY <1>1, <1>2, <1>3, <2>2, OverBy DEF Settled
    <2>. QED  BY <2>1, <2>2
  <1>4. ASSUME NEW r \in Runs, NEW s \in Runs \ {r}, Active(k, s)
        PROVE  Known(k, eff, r)
    <2>1. CASE Active(j, s)
      BY <1>2, <2>1 DEF Settled
    <2>2. CASE ~Active(j, s)
      <3>1. e.type = "run_started"
        BY <1>1, <1>4, <2>2, AppendedLife DEF Active
      <3>2. CASE Over(j, r)
        BY <1>2, <3>2 DEF Settled
      <3>3. CASE \A c : ~Prepared(j, r, c)
        BY <1>1, <3>3 DEF Preparedness, Known
      <3>. QED  BY <1>1, <3>1, <3>2, <3>3, StartIsSettled
    <2>. QED  BY <2>1, <2>2
  <1> HIDE DEF k
  <1>5. Settled(k, eff, run)
    BY <1>3, <1>4 DEF Settled
  <1>. QED  BY <1>5 DEF k

LEMMA WatchedGrows ==
    ASSUME NEW j \in Seq(Record), NEW e \in Record, NEW eff, NEW run, Watched(j, eff, run),
           e.type = "command_lifecycle" /\ e.how = "finished" => <<e.run, e.item>> \notin run
    PROVE  Watched(Append(j, e), eff, run)
  BY AppendedProgress DEF Watched

LEMMA BegunGrows ==
    ASSUME NEW j \in Seq(Record), NEW e \in Record, NEW l, Begun(j, l),
           ~(/\ e.type = "command_lifecycle" /\ e.how = "finished"
             /\ e.run = l.run /\ e.item = Head(l.pending))
    PROVE  Begun(Append(j, e), l)
  BY AppendedProgress DEF Begun

\* The loop runs a tool of its run, the only one on its way.
LEMMA RunsIsSettled ==
    ASSUME NEW j, LivesInOrder(j), NEW q \in Runs, Active(j, q),
           NEW eff, NEW run, Settled(j, eff, run), NEW new, NEW more,
           \A r \in Runs \ {q}, c \in Calls : new[<<r, c>>] = eff[<<r, c>>],
           \A r \in Runs \ {q}, c \in Commands : <<r, c>> \in more => <<r, c>> \in run
    PROVE  Settled(j, new, more)
  <1>1. ~Over(j, q) /\ \A s \in Runs \ {q} : ~Active(j, s)
    BY DEF LivesInOrder, Over, Active
  <1>. QED  BY <1>1 DEF Settled, Known

DoubtInv == /\ LoopIsServed
            /\ Settled(journal, effects, running) /\ Watched(journal, effects, running)
            /\ Begun(journal, loop)

LEMMA DoubtInvInit == Init => DoubtInv
  <1> SUFFICES ASSUME Init PROVE DoubtInv
    OBVIOUS
  <1>1. running = {} /\ loop.pc = "idle" /\ \A r \in Runs, c \in Calls : effects[<<r, c>>] = 0
    BY DEF Init, Quiet
  <1>. QED  BY <1>1 DEF DoubtInv, LoopIsServed, At, Settled, Known, Watched, Begun

LEMMA LivesInOrderHolds == ASSUME JournalInv, ReplayInv PROVE LivesInOrder(journal)
  BY LivesInOrderReplayed DEF JournalInv, World, ReplayInv

\* A record that is no news of a living command leaves nothing in doubt.
LEMMA RecordKeepsDoubt ==
    ASSUME JournalInv, ReplayInv, DoubtInv,
           \/ journal' = journal
           \/ \E e \in Record : /\ journal' = Append(journal, e) /\ Valid(journal, e)
                                /\ e.type = "command_lifecycle" => e.how # "finished",
           UNCHANGED <<effects, running>>
    PROVE  Settled(journal, effects, running)' /\ Watched(journal, effects, running)'
  <1>1. LivesInOrder(journal) /\ World(journal, effects) /\ journal \in Seq(Record)
    BY LivesInOrderHolds DEF JournalInv, World
  <1>. QED  BY <1>1, SettledGrows, WatchedGrows DEF DoubtInv

\* Steps of the loop that write of the run before its end.
LEMMA SaidKeepsDoubt ==
    ASSUME JournalInv, ReplayInv, DoubtInv, ~At("idle"), Said, Stays,
           UNCHANGED <<effects, running, host>>
    PROVE  DoubtInv'
  <1>1. Settled(journal, effects, running)' /\ Watched(journal, effects, running)'
    BY RecordKeepsDoubt DEF Said
  <1>2. Active(journal', loop.run)
    <2>1. journal \in Seq(Record) /\ Active(journal, loop.run)
      BY DEF JournalInv, World, DoubtInv, LoopIsServed
    <2>. QED  BY <2>1, TalkKeepsActive DEF Said
  <1>3. LoopIsServed'
    BY <1>2 DEF DoubtInv, LoopIsServed, At, Stays, Quiet
  <1>4. Begun(journal, loop)'
    <2>1. CASE loop' = Quiet
      BY <2>1 DEF Begun, Quiet
    <2>2. CASE loop' # Quiet
      BY <2>2 DEF DoubtInv, Begun, Stays
    <2>. QED  BY <2>1, <2>2
  <1>. QED  BY <1>1, <1>3, <1>4 DEF DoubtInv

\* A tool without a process runs.
LEMMA ExecuteKeepsDoubt == ASSUME JournalInv, ReplayInv, DoubtInv, ExecuteCall PROVE DoubtInv'
  <1>0. /\ loop.pc = "prepared" /\ loop.run \in Runs /\ loop.pending # <<>> /\ loop \in Loop
        /\ journal \in Seq(Record) /\ LivesInOrder(journal) /\ Active(journal, loop.run)
        /\ UNCHANGED host
    BY LoopIs, LivesInOrderHolds
       DEF ExecuteCall, At, JournalInv, Sane, DoubtInv, LoopIsServed, Write, Turn, lockVars, storeVars
  <1>1. CASE Turn(Ending("cancelled")) /\ UNCHANGED runVars
    <2>1. Said /\ Stays
      BY <1>1, TurnSays, LoopStays
    <2>. QED  BY <1>0, <1>1, <2>1, SaidKeepsDoubt DEF At, runVars
  <1>2. CASE Call \in Commands /\ UNCHANGED runVars
             /\ Write(ByLoop("command_lifecycle", Call, "prepared"), Go("spawning"))
    <2> DEFINE e == ByLoop("command_lifecycle", Call, "prepared")
               m == Go("spawning")
    <2>1. Call \in Calls /\ "command_lifecycle" \in RecordTypes /\ "prepared" \in Outcomes
      BY <1>0, LoopIs DEF RecordTypes, Outcomes
    <2>2. /\ e \in Record /\ e.type = "command_lifecycle" /\ e.run = loop.run
          /\ e.item = Call /\ e.how = "prepared"
      BY <1>0, <2>1, ByLoopIsRecord
    <2>3. m.pc = "spawning" /\ m.run = loop.run /\ m.pending = loop.pending
      BY <1>0 DEF Go, Loop
    <2>4. Write(e, m) /\ UNCHANGED <<effects, running>>
      BY <1>2 DEF runVars
    <2> HIDE DEF e, m
    <2>5. \/ loop' = m /\ journal' = Append(journal, e) /\ Valid(journal, e)
          \/ loop' = Quiet /\ (journal' = journal \/ (journal' = Append(journal, e) /\ Valid(journal, e)))
      BY <2>4, WriteIs
    <2>6. Settled(journal, effects, running)' /\ Watched(journal, effects, running)'
      BY <2>2, <2>4, <2>5, RecordKeepsDoubt
    <2>7. ASSUME loop' = m, journal' = Append(journal, e), Valid(journal, e) PROVE DoubtInv'
      <3>1. Progress(journal, loop.run, Call) = {}
        BY <2>2, <2>7 DEF Valid, ValidLife, ValidModel, ValidCommand, ValidTool, ValidEnd
      <3>2. Progress(journal', loop.run, Call) = {"prepared"}
        BY <1>0, <2>2, <2>7, <3>1, AppendedProgress
      <3>3. Begun(journal, loop)'
        BY <1>2, <2>3, <2>7, <3>2 DEF Begun, Call
      <3>4. Active(journal', loop.run)
        BY <1>0, <2>2, <2>7, TalkKeepsActive DEF Talk
      <3>. QED  BY <1>0, <2>3, <2>6, <2>7, <3>3, <3>4 DEF DoubtInv, LoopIsServed, At
    <2>8. ASSUME loop' = Quiet PROVE DoubtInv'
      BY <2>6, <2>8 DEF DoubtInv, LoopIsServed, At, Begun, Quiet
    <2>. QED  BY <2>5, <2>7, <2>8
  <1>3. CASE /\ Turn(Go("executing")) /\ UNCHANGED running
             /\ effects' = [effects EXCEPT ![<<loop.run, Call>>] = @ + 1]
    <2>1. Call \in Calls /\ effects \in [Runs \X Calls -> {0, 1}] /\ UNCHANGED journal
      BY <1>0, <1>3, LoopIs DEF Turn, storeVars
    <2>2. /\ effects' \in [Runs \X Calls -> {0, 1}]
          /\ \A r \in Runs, c \in Calls : effects'[<<r, c>>] = effects[<<r, c>>] \/ (r = loop.run /\ c = Call)
      BY <1>0, <1>3, <2>1, RunsTool
    <2>3. effects'[<<loop.run, Call>>] = 1
      BY <1>0, <1>3, <2>1, RunsTool DEF JournalInv, Sane, Call
    <2>4. Settled(journal, effects', running')
      <3>1. /\ \A r \in Runs \ {loop.run}, c \in Calls : effects'[<<r, c>>] = effects[<<r, c>>]
            /\ \A r \in Runs \ {loop.run}, c \in Commands : <<r, c>> \in running' => <<r, c>> \in running
        BY <1>3, <2>2
      <3>2. Settled(journal, effects, running)
        BY DEF DoubtInv
      <3>. QED  BY ONLY <1>0, <3>1, <3>2, RunsIsSettled
    <2>5. Watched(journal, effects', running')
      BY <1>3, <2>2, <2>3, StoreConstants DEF DoubtInv, Watched
    <2>6. loop'.pc = "executing" /\ loop'.run = loop.run
      BY <1>0, <1>3 DEF Turn, Go, Loop
    <2>. QED  BY <1>0, <2>1, <2>4, <2>5, <2>6 DEF DoubtInv, LoopIsServed, At, Begun
  <1>. QED  BY <1>1, <1>2, <1>3 DEF ExecuteCall

\* A command has a process from here on, whether or not that comes on record.
LEMMA SpawnKeepsDoubt == ASSUME JournalInv, ReplayInv, DoubtInv, SpawnCommand PROVE DoubtInv'
  <1> DEFINE e == ByLoop("command_lifecycle", Call, "running")
             m == Go("executing")
  <1>0. /\ loop.pc = "spawning" /\ loop.run \in Runs /\ loop.pending # <<>> /\ loop \in Loop
        /\ journal \in Seq(Record) /\ LivesInOrder(journal) /\ Active(journal, loop.run)
        /\ UNCHANGED host
    BY LoopIs, LivesInOrderHolds
       DEF SpawnCommand, At, JournalInv, Sane, DoubtInv, LoopIsServed, Write, lockVars
  <1>1. /\ Write(e, m) /\ running' = running \cup {<<loop.run, Call>>}
        /\ effects' = [effects EXCEPT ![<<loop.run, Call>>] = @ + 1]
    BY DEF SpawnCommand
  <1>2. Call \in Calls /\ effects \in [Runs \X Calls -> {0, 1}]
    BY <1>0, LoopIs
  <1>3. /\ e \in Record /\ e.type = "command_lifecycle" /\ e.run = loop.run /\ e.how = "running"
    <2>1. "command_lifecycle" \in RecordTypes /\ "running" \in Outcomes
      BY DEF RecordTypes, Outcomes
    <2>. QED  BY <1>0, <1>2, <2>1, ByLoopIsRecord
  <1>4. m.pc = "executing" /\ m.run = loop.run
    BY <1>0 DEF Go, Loop
  <1> HIDE DEF e, m
  <1>5. /\ effects' \in [Runs \X Calls -> {0, 1}] /\ World(journal, effects')
        /\ \A r \in Runs, c \in Calls : effects'[<<r, c>>] = effects[<<r, c>>] \/ (r = loop.run /\ c = Call)
    BY <1>0, <1>1, <1>2, RunsTool
  <1>6. effects'[<<loop.run, Call>>] = 1
    BY <1>0, <1>1, <1>2 DEF JournalInv, Sane, Call
  <1>7. Settled(journal, effects', running')
    <2>1. /\ \A r \in Runs \ {loop.run}, c \in Calls : effects'[<<r, c>>] = effects[<<r, c>>]
          /\ \A r \in Runs \ {loop.run}, c \in Commands : <<r, c>> \in running' => <<r, c>> \in running
      BY <1>1, <1>5
    <2>2. Settled(journal, effects, running)
      BY DEF DoubtInv
    <2>. QED  BY ONLY <1>0, <2>1, <2>2, RunsIsSettled
  <1>8. Watched(journal, effects', running')
    <2>1. /\ "prepared" \in Progress(journal, loop.run, Call)
          /\ "finished" \notin Progress(journal, loop.run, Call)
      BY <1>0 DEF DoubtInv, Begun, Call
    <2>. QED  BY <1>1, <1>5, <1>6, <2>1, StoreConstants DEF DoubtInv, Watched
  <1>9. \/ loop' = m /\ journal' = Append(journal, e) /\ Valid(journal, e)
        \/ loop' = Quiet /\ (journal' = journal \/ (journal' = Append(journal, e) /\ Valid(journal, e)))
    BY <1>1, WriteIs
  <1>10. Valid(journal, e) => /\ Settled(Append(journal, e), effects', running')
                              /\ Watched(Append(journal, e), effects', running')
    BY <1>0, <1>3, <1>5, <1>7, <1>8, SettledGrows, WatchedGrows
  <1>11. Active(Append(journal, e), loop.run)
    BY <1>0, <1>3, TalkKeepsActive DEF Talk
  <1>12. CASE loop' = m
    BY <1>0, <1>4, <1>7, <1>8, <1>9, <1>10, <1>11, <1>12 DEF DoubtInv, LoopIsServed, At, Begun
  <1>13. CASE loop' = Quiet
    BY <1>7, <1>8, <1>9, <1>10, <1>13 DEF DoubtInv, LoopIsServed, At, Begun, Quiet
  <1>. QED  BY <1>9, <1>12, <1>13

LEMMA FinishKeepsDoubt == ASSUME JournalInv, ReplayInv, DoubtInv, Finish PROVE DoubtInv'
  <1> DEFINE e == ByLoop("run_finished", NONE, loop.stop)
  <1>1. loop.pc = "ending" /\ loop.run \in Runs /\ loop \in Loop /\ UNCHANGED <<effects, running>>
    BY LoopIs DEF Finish, At
  <1>2. Turn(Quiet) \/ Write(e, Quiet)
    BY DEF Finish
  <1>3. loop.stop \in Outcomes
    BY <1>1 DEF JournalInv, Sane, Loop, Outcomes
  <1>4. e \in Record /\ e.type = "run_finished"
    BY <1>1, <1>3, ByLoopIsRecord DEF RecordTypes
  <1> HIDE DEF e
  <1>5. loop' = Quiet /\ (journal' = journal \/ (journal' = Append(journal, e) /\ Valid(journal, e)))
    BY <1>2, WriteIs DEF Turn, storeVars
  <1>6. Settled(journal, effects, running)' /\ Watched(journal, effects, running)'
    BY <1>1, <1>4, <1>5, RecordKeepsDoubt
  <1>. QED  BY <1>5, <1>6 DEF DoubtInv, LoopIsServed, At, Begun, Quiet

LEMMA LoopKeepsDoubt ==
    ASSUME JournalInv, ReplayInv, DoubtInv, LoopStep \/ Abort \/ ApprovalExpires
    PROVE  DoubtInv'
  <1>1. CASE ~Finish /\ ~ExecuteCall /\ ~SpawnCommand
    <2>1. ~At("idle") /\ UNCHANGED <<effects, running>>
      BY <1>1
         DEF LoopStep, Abort, ApprovalExpires, RequestModel, Diagnose, ModelReturns, RecordFailure,
             RecordResponse, Judge, ReserveSummary, SettleSummary, EndBatch, DeclineCall, ApproveCall,
             PrepareCall, ToolReturns, EndPending, At, runVars
    <2>2. UNCHANGED host
      BY LoopKeepsLock DEF lockVars
    <2>. QED  BY <1>1, <2>1, <2>2, LoopTalks, SaidKeepsDoubt
  <1>. QED  BY <1>1, FinishKeepsDoubt, ExecuteKeepsDoubt, SpawnKeepsDoubt

\* A run that has not started is on its way with the record that starts it.
LEMMA StartIsActive ==
    ASSUME NEW j \in Seq(Record), LivesInOrder(j), NEW e \in Record, e.type = "run_started",
           ~Started(j, e.run)
    PROVE  Active(Append(j, e), e.run)
  BY AppendedLife DEF LivesInOrder, Active

LEMMA BeginKeepsDoubt ==
    ASSUME JournalInv, ReplayInv, DoubtInv, NEW h \in Hosts, NEW r \in Runs, BeginRun(h, r)
    PROVE  DoubtInv'
  <1> DEFINE e == Rec("run_started", r, NONE, "done")
             m == [Quiet EXCEPT !.pc = "turn", !.run = r]
  <1>1. CASE UNCHANGED <<storeVars, loop, effects, running>>
    BY <1>1 DEF DoubtInv, LoopIsServed, At, storeVars
  <1>2. CASE ~Started(journal, r) /\ Write(e, m) /\ UNCHANGED runVars
    <2>1. e \in Record /\ e.type = "run_started" /\ e.run = r
      BY DEF Rec, Record, RecordTypes, Outcomes
    <2>2. m.pc = "turn" /\ m.run = r
      BY DEF Quiet
    <2>3. Write(e, m) /\ UNCHANGED <<effects, running, host>> /\ host[h] = "writer"
      BY <1>2 DEF Write, lockVars, runVars, BeginRun
    <2>4. journal \in Seq(Record) /\ LivesInOrder(journal)
      BY LivesInOrderHolds DEF JournalInv, World
    <2> HIDE DEF e, m
    <2>5. \/ loop' = m /\ journal' = Append(journal, e) /\ Valid(journal, e)
          \/ loop' = Quiet /\ (journal' = journal \/ (journal' = Append(journal, e) /\ Valid(journal, e)))
      BY <2>3, WriteIs
    <2>6. Settled(journal, effects, running)' /\ Watched(journal, effects, running)'
      BY <2>1, <2>3, <2>5, RecordKeepsDoubt
    <2>7. Active(Append(journal, e), r)
      BY <1>2, <2>1, <2>4, StartIsActive
    <2>8. CASE loop' = m
      <3>1. loop'.pc = "turn" /\ loop'.run = r /\ loop' # Quiet
        BY <2>2, <2>8 DEF Quiet
      <3>2. Active(journal', loop'.run) /\ host'[h] = "writer"
        BY <2>3, <2>5, <2>7, <3>1
      <3>. QED  BY <2>6, <3>1, <3>2 DEF DoubtInv, LoopIsServed, At, Begun
    <2>9. CASE loop' = Quiet
      BY <2>6, <2>9 DEF DoubtInv, LoopIsServed, At, Begun, Quiet
    <2>. QED  BY <2>5, <2>8, <2>9
  <1>. QED  BY <1>1, <1>2 DEF BeginRun, runVars

\* The end of a command is news of a process that is gone.
LEMMA EndsKeepsDoubt ==
    ASSUME JournalInv, ReplayInv, DoubtInv, NEW h \in Hosts, NEW r \in Runs, NEW c \in Commands,
           CommandEnds(h, r, c)
    PROVE  DoubtInv'
  <1>1. PICK v \in {"finished", "unknown"} :
          LET e == Rec("command_lifecycle", r, c, v)
          IN  /\ running' = IF v = "finished" THEN running \ {<<r, c>>} ELSE running
              /\ \/ Accepts(e) /\ (Land(e) \/ Break(e))
                 \/ UNCHANGED journal
    BY DEF CommandEnds
  <1> DEFINE e == Rec("command_lifecycle", r, c, v)
  <1>2. e \in Record /\ e.type = "command_lifecycle" /\ e.run = r /\ e.item = c /\ e.how = v
    <2>1. "command_lifecycle" \in RecordTypes /\ v \in Outcomes /\ c \in Calls
      BY StoreConstants DEF RecordTypes, Outcomes
    <2>. QED  BY <2>1 DEF Rec, Record
  <1>3. running' = IF v = "finished" THEN running \ {<<r, c>>} ELSE running
    BY <1>1
  <1>4. journal' = journal \/ (journal' = Append(journal, e) /\ Valid(journal, e))
    BY <1>1 DEF Accepts, Land, Break
  <1>5. UNCHANGED <<effects, loop, host>> /\ <<r, c>> \in running
    BY DEF CommandEnds, lockVars
  <1> HIDE DEF e
  <1>6. /\ journal \in Seq(Record) /\ World(journal, effects) /\ LivesInOrder(journal)
        /\ Settled(journal, effects, running) /\ Watched(journal, effects, running)
        /\ Begun(journal, loop) /\ LoopIsServed
    BY LivesInOrderHolds DEF JournalInv, World, DoubtInv
  <1>7. running' \subseteq running
    BY <1>3
  <1>8. Settled(journal', effects, running')
    <2>1. Settled(journal', effects, running)
      BY <1>2, <1>4, <1>6, SettledGrows
    <2>. QED  BY <1>7, <2>1 DEF Settled
  <1>9. Watched(journal', effects, running')
    <2>1. Watched(journal, effects, running')
      BY <1>6, <1>7 DEF Watched
    <2>2. v = "finished" => <<r, c>> \notin running'
      BY <1>3
    <2>. QED  BY <1>2, <1>4, <1>6, <2>1, <2>2, WatchedGrows
  <1>10. Begun(journal', loop)
    <2>1. loop.pc = "spawning" => ~(r = loop.run /\ c = Head(loop.pending))
      <3>1. effects[<<r, c>>] = 1
        BY <1>5, <1>6 DEF Watched
      <3>. QED  BY <3>1 DEF JournalInv, Sane
    <2>2. CASE loop.pc = "spawning"
      <3>1. Begun(Append(journal, e), loop)
        BY ONLY <1>2, <1>6, <2>1, <2>2, BegunGrows
      <3>. QED  BY <1>4, <1>6, <3>1
    <2>. QED  BY <2>2 DEF Begun
  <1>11. LoopIsServed'
    <2>1. \A q : Active(journal, q) => Active(journal', q)
      BY <1>2, <1>4, <1>6, TalkKeepsActive DEF Talk
    <2>. QED  BY <1>5, <1>6, <2>1 DEF LoopIsServed, At
  <1>. QED  BY <1>5, <1>8, <1>9, <1>10, <1>11 DEF DoubtInv

\* Beside a run the other processes keep away from the journal.
LEMMA HostKeepsDoubt ==
    ASSUME LockInv, JournalInv, ReplayInv, DoubtInv, NEW h \in Hosts, HostStep(h)
    PROVE  DoubtInv'
  <1> DEFINE plain == {"startup_prepared", "startup_closed", "recovery_resolved", "run_recovered"}
  <1>1. ASSUME At("idle"), UNCHANGED <<loop, effects, running>>,
               \/ journal' = journal
               \/ \E t \in plain, r \in Runs : LET e == Rec(t, r, NONE, "done")
                                               IN  journal' = Append(journal, e) /\ Valid(journal, e)
        PROVE  DoubtInv'
    <2>1. \A t \in plain, r \in Runs : LET e == Rec(t, r, NONE, "done")
                                       IN  e \in Record /\ e.type # "command_lifecycle"
      BY DEF Rec, Record, RecordTypes, Outcomes
    <2>2. Settled(journal, effects, running)' /\ Watched(journal, effects, running)'
      BY <1>1, <2>1, RecordKeepsDoubt
    <2>. QED  BY <1>1, <2>2 DEF DoubtInv, LoopIsServed, At, Begun
  <1>2. ASSUME UNCHANGED <<journal, loop, effects, running>>,
               \E s : host[h] # "writer" /\ Move(h, s)
        PROVE  DoubtInv'
    <2>1. \A g \in Hosts : host[g] = "writer" => host'[g] = "writer"
      BY <1>2 DEF Move, LockInv
    <2>. QED  BY <1>2, <2>1 DEF DoubtInv, LoopIsServed, At
  <1>3. CASE (CreateLock(h) \/ WriteLock(h) \/ ContendLock(h) \/ ProbeOwner(h) \/ ReclaimLock(h)) /\ Beside
    <2>1. /\ UNCHANGED <<journal, loop, effects, running>>
          /\ \E s : host[h] # "writer" /\ Move(h, s)
      BY <1>3 DEF CreateLock, WriteLock, ContendLock, ProbeOwner, ReclaimLock, diskVars, Beside, runVars
    <2>. QED  BY <1>2, <2>1
  <1>4. CASE Load(h) /\ Beside
    <2>1. At("idle")
      <3>1. \A g \in Hosts : host[g] # "writer"
        BY <1>4 DEF Load, LockInv
      <3>. QED  BY <3>1 DEF DoubtInv, LoopIsServed
    <2>2. \/ journal' = journal
          \/ \E r \in Runs : /\ Active(journal, r)
                             /\ journal' = Append(journal, Rec("run_recovered", r, NONE, "done"))
      BY <1>4 DEF Load
    <2>3. \A r \in Runs : Active(journal, r) => Valid(journal, Rec("run_recovered", r, NONE, "done"))
      BY DEF Valid, ValidLife, Rec
    <2>. QED  BY <1>1, <1>4, <2>1, <2>2, <2>3 DEF Beside, runVars
  <1>5. CASE At("idle") /\ Close(h) /\ Beside
    BY <1>1, <1>5 DEF Close, diskVars, Beside, runVars
  <1>6. CASE Die(h) /\ loop' = (IF host[h] = "writer" THEN Quiet ELSE loop) /\ UNCHANGED <<runVars, refused>>
    <2>1. CASE host[h] = "writer"
      BY <1>6, <2>1 DEF Die, diskVars, runVars, DoubtInv, LoopIsServed, At, Begun, Quiet
    <2>2. CASE host[h] # "writer"
      BY <1>2, <1>6, <2>2 DEF Die, diskVars, runVars
    <2>. QED  BY <2>1, <2>2
  <1>7. ASSUME NEW r \in Runs, At("idle"),
               (PrepareStartup(h, r) \/ CloseStartup(h, r) \/ ResolveRecovery(h, r)) /\ Beside
        PROVE  DoubtInv'
    <2>1. \/ journal' = journal
          \/ \E t \in plain : LET e == Rec(t, r, NONE, "done")
                              IN  journal' = Append(journal, e) /\ Valid(journal, e)
      BY <1>7 DEF PrepareStartup, CloseStartup, ResolveRecovery, Accepts, Land, Break
    <2>. QED  BY <1>1, <1>7, <2>1 DEF Beside, runVars
  <1>. QED  BY <1>3, <1>4, <1>5, <1>6, <1>7, BeginKeepsDoubt, EndsKeepsDoubt DEF HostStep

LEMMA DoubtInvNext ==
    ASSUME LockInv, JournalInv, ReplayInv, DoubtInv, [Next]_vars
    PROVE  DoubtInv'
  <1>1. CASE UNCHANGED vars
    BY <1>1 DEF vars, storeVars, runVars, DoubtInv, LoopIsServed, At
  <1>. QED  BY <1>1, LoopKeepsDoubt, HostKeepsDoubt DEF Next

LEMMA DoubtInvHolds == Spec => []DoubtInv
  <1>. QED  BY DoubtInvInit, DoubtInvNext, LockInvHolds, JournalInvHolds, ReplayInvHolds, PTL DEF Spec

\* An effect whose result is not on record is never passed over: validateEvent lets a run
\* end, or its recovery be resolved, only when what was asked for is settled and no command
\* is in doubt, and lets no other run start before that; a command is on record as prepared
\* before it has a process, and as finished only after that is gone.
THEOREM DoubtIsNeverDropped == Spec => []DoubtIsKept
  <1>1. DoubtInv => DoubtIsKept
    BY DEF DoubtInv, Settled, Over, Known, DoubtIsKept
  <1>. QED  BY <1>1, DoubtInvHolds, PTL

-----------------------------------------------------------------------------
(* Room for what must still be written.                                    *)

\* What is owed for a request, said of each pair.
LEMMA RequestsDueIs ==
    ASSUME NEW j
    PROVE  RequestsDue(j) = {d \in Runs \X (1..5) : Active(j, d[1]) /\ d[2] <= RequestDue(j, d[1])}
  <1>1. \A r : RequestDue(j, r) \in 0..5
    BY DEF RequestDue, DiagnosticReserve
  <1>. QED  BY <1>1 DEF RequestsDue

\* A record is written only where the journal fits with it.
Grows == journal' = journal \/ Fits(journal')

\* What the loop writes, what the host writes beside it, and what was there fit.
LEMMA WriteGrows ==
    /\ \A e, m : Write(e, m) \/ WriteIfRoom(e, m) => Grows
    /\ \A m : Turn(m) => Grows
  BY DEF Write, WriteIfRoom, Turn, Accepts, Room, Land, Break, Grows, storeVars

LEMMA LoopGrows == ASSUME LoopStep \/ Abort \/ ApprovalExpires PROVE Grows
  <1>1. CASE RequestModel \/ Diagnose \/ ModelReturns \/ RecordFailure
    BY <1>1, WriteGrows DEF RequestModel, Diagnose, ModelReturns, RecordFailure
  <1>2. CASE RecordResponse
    BY <1>2, WriteGrows DEF RecordResponse
  <1>3. CASE Judge \/ ReserveSummary \/ SettleSummary
    BY <1>3, WriteGrows DEF Judge, ReserveSummary, SettleSummary
  <1>4. CASE EndBatch \/ DeclineCall \/ ApproveCall \/ PrepareCall
    BY <1>4, WriteGrows DEF EndBatch, DeclineCall, ApproveCall, PrepareCall
  <1>5. CASE ExecuteCall \/ SpawnCommand \/ ToolReturns \/ EndPending \/ Finish
    BY <1>5, WriteGrows DEF ExecuteCall, SpawnCommand, ToolReturns, EndPending, Finish
  <1>6. CASE Abort \/ ApprovalExpires
    BY <1>6, WriteGrows DEF Abort, ApprovalExpires, Grows, storeVars
  <1>. QED  BY <1>1, <1>2, <1>3, <1>4, <1>5, <1>6 DEF LoopStep

LEMMA NextGrows == ASSUME [Next]_vars PROVE Grows
  <1>1. CASE UNCHANGED vars
    BY <1>1 DEF vars, storeVars, Grows
  <1>2. ASSUME NEW h \in Hosts, HostStep(h) PROVE Grows
    <2>1. CASE UNCHANGED journal
      BY <2>1 DEF Grows
    <2>2. CASE Load(h)
      BY <2>2 DEF Load, Room, Grows
    <2>3. ASSUME NEW r \in Runs, PrepareStartup(h, r) \/ CloseStartup(h, r) \/ ResolveRecovery(h, r)
          PROVE  Grows
      BY <2>3 DEF PrepareStartup, CloseStartup, ResolveRecovery, Accepts, Room, Land, Break, Grows
    <2>4. ASSUME NEW r \in Runs, BeginRun(h, r) PROVE Grows
      BY <2>1, <2>4, WriteGrows DEF BeginRun, storeVars
    <2>5. ASSUME NEW r \in Runs, NEW c \in Commands, CommandEnds(h, r, c) PROVE Grows
      BY <2>5 DEF CommandEnds, Accepts, Room, Land, Break, Grows
    <2>. QED  BY <1>2, <2>1, <2>2, <2>3, <2>4, <2>5
              DEF HostStep, CreateLock, WriteLock, ContendLock, ProbeOwner, ReclaimLock, Close, Die, diskVars
  <1>. QED  BY <1>1, <1>2, LoopGrows DEF Next

\* A journal that is opened fits the limits from the beginning.
LEMMA FitsInit == Init => Fits(journal)
  <1> SUFFICES ASSUME Init PROVE Fits(journal)
    OBVIOUS
  <1>1. PICK history \in Histories \cup {<<>>} : journal = <<Created>> \o history
    BY DEF Init, StoreInit
  <1>2. CASE history = <<>>
    <2>1. journal = <<Created>> /\ Len(journal) = 1
      BY <1>1, <1>2, CreatedIs
    <2>2. \A r : ~Active(journal, r)
      BY <2>1 DEF Active, Started, Of, Created, Rec
    <2>3. CommandsDue(journal) = {}
      BY <2>2 DEF CommandsDue
    <2>4. RequestsDue(journal) = {} /\ {d[1] : d \in CommandsDue(journal)} = {}
      BY <2>2, <2>3, RequestsDueIs
    <2>5. CommandReserve(journal) = 0 /\ RequestReserve(journal) = 0
      <3>1. Cardinality({}) = 0
        BY FS_EmptySet
      <3>. QED  BY <2>3, <2>4, <3>1 DEF CommandReserve, RequestReserve
    <2>. QED  BY <2>1, <2>5, StoreConstants DEF Fits
  <1>. QED  BY <1>1, <1>2, HistoryConstants

LEMMA FitsHolds == Spec => []Fits(journal)
  <1>1. Fits(journal) /\ [Next]_vars => Fits(journal)'
    BY NextGrows DEF Grows
  <1>. QED  BY <1>1, FitsInit, PTL DEF Spec

\* What is due is found in the journal, so it is finite.
LEMMA DueIsFinite ==
    ASSUME NEW j \in Seq(Record)
    PROVE  /\ IsFiniteSet(CommandsDue(j)) /\ IsFiniteSet({d[1] : d \in CommandsDue(j)})
           /\ IsFiniteSet(RequestsDue(j))
  <1> DEFINE runs == {j[i].run : i \in DOMAIN j}
             items == {j[i].item : i \in DOMAIN j}
             kinds == {"running", "finished", "result"}
             owners == {d[1] : d \in CommandsDue(j)}
  <1>1. IsFiniteSet(DOMAIN j)
    BY FS_Interval
  <1>2. IsFiniteSet(runs)
    <2>1. [i \in DOMAIN j |-> j[i].run] \in Surjection(DOMAIN j, runs)
      BY DEF Surjection
    <2>. QED  BY <1>1, <2>1, FS_Surjection
  <1>3. IsFiniteSet(items)
    <2>1. [i \in DOMAIN j |-> j[i].item] \in Surjection(DOMAIN j, items)
      BY DEF Surjection
    <2>. QED  BY <1>1, <2>1, FS_Surjection
  <1>4. \A r : Active(j, r) => r \in runs
    BY DEF Active, Started, Of
  <1>5. \A r, c : OwedFor(j, r, c) # {} => c \in items
    BY DEF OwedFor, Progress, About, Of
  <1>6. IsFiniteSet(kinds)
    <2>1. kinds = ({"running"} \cup {"finished"}) \cup {"result"}
      OBVIOUS
    <2>2. IsFiniteSet({"running"})
      BY FS_Singleton
    <2>3. IsFiniteSet({"running"} \cup {"finished"})
      BY <2>2, FS_AddElement
    <2>4. IsFiniteSet(({"running"} \cup {"finished"}) \cup {"result"})
      BY <2>3, FS_AddElement
    <2>. QED  BY <2>1, <2>4
  <1>7. CommandsDue(j) \subseteq runs \X items \X kinds
    BY <1>4, <1>5 DEF CommandsDue
  <1>8. owners \subseteq runs
    BY <1>4 DEF CommandsDue
  <1>9. RequestsDue(j) \subseteq runs \X (1..5)
    BY <1>4, RequestsDueIs
  <1> HIDE DEF runs, items, kinds, owners
  <1>10. IsFiniteSet(runs \X items \X kinds)
    <2> DEFINE nested == (runs \X items) \X kinds
               f == [p \in nested |-> <<p[1][1], p[1][2], p[2]>>]
    <2>1. IsFiniteSet(nested)
      BY <1>2, <1>3, <1>6, FS_Product
    <2>2. f \in [nested -> runs \X items \X kinds]
      OBVIOUS
    <2>3. ASSUME NEW t \in runs \X items \X kinds PROVE \E p \in nested : f[p] = t
      <3>1. PICK r \in runs, c \in items, k \in kinds : t = <<r, c, k>>
        OBVIOUS
      <3>2. <<<<r, c>>, k>> \in nested /\ f[<<<<r, c>>, k>>] = t
        BY <3>1
      <3>. QED  BY <3>2
    <2>4. f \in Surjection(nested, runs \X items \X kinds)
      BY <2>2, <2>3 DEF Surjection
    <2>. QED  BY <2>1, <2>4, FS_Surjection
  <1>11. IsFiniteSet(CommandsDue(j)) /\ IsFiniteSet(owners)
    BY <1>2, <1>7, <1>8, <1>10, FS_Subset
  <1>12. IsFiniteSet(RequestsDue(j))
    <2>1. 1 \in Int /\ 5 \in Int => IsFiniteSet(1..5)
      BY FS_Interval
    <2>2. IsFiniteSet(runs \X (1..5))
      BY <1>2, <2>1, FS_Product
    <2>. QED  BY <1>9, <2>2, FS_Subset
  <1>. QED  BY <1>11, <1>12 DEF owners

\* A set of the journal's commands or requests is counted by those that are due.
LEMMA DueCovers ==
    ASSUME NEW j \in Seq(Record), NEW r \in Runs, Active(j, r)
    PROVE  LET owed == {c \in Commands : "finished" \in OwedFor(j, r, c)}
           IN  /\ IsFiniteSet(owed) /\ CommandReserve(j) \in Nat /\ RequestReserve(j) \in Nat
               /\ Cardinality(owed) <= CommandReserve(j)
               /\ \A n \in 0..5 : n <= RequestDue(j, r) => n <= RequestReserve(j)
  <1> DEFINE owed == {c \in Commands : "finished" \in OwedFor(j, r, c)}
             owners == {d[1] : d \in CommandsDue(j)}
             f == [c \in owed |-> <<r, c, "finished">>]
  <1>1. /\ IsFiniteSet(CommandsDue(j)) /\ IsFiniteSet(owners) /\ IsFiniteSet(RequestsDue(j))
        /\ Cardinality(CommandsDue(j)) \in Nat /\ Cardinality(owners) \in Nat
        /\ Cardinality(RequestsDue(j)) \in Nat
    BY DueIsFinite, FS_CardinalityType
  <1>2. f \in Injection(owed, CommandsDue(j))
    <2>1. f \in [owed -> CommandsDue(j)]
      BY DEF CommandsDue
    <2>2. IsInjective(f)
      BY DEF IsInjective
    <2>. QED  BY <2>1, <2>2 DEF Injection
  <1>3. IsFiniteSet(owed) /\ Cardinality(owed) <= Cardinality(CommandsDue(j))
    BY <1>1, <1>2, FS_Injection
  <1>4. IsFiniteSet(owed) => Cardinality(owed) \in Nat
    BY FS_CardinalityType
  <1>5. ASSUME NEW n \in 0..5, n <= RequestDue(j, r), RequestDue(j, r) \in Nat PROVE n <= RequestReserve(j)
    <2> DEFINE g == [i \in 1..n |-> <<r, i>>]
    <2>1. g \in Injection(1..n, RequestsDue(j))
      <3>1. g \in [1..n -> RequestsDue(j)]
        BY <1>5, RequestsDueIs
      <3>2. IsInjective(g)
        BY DEF IsInjective
      <3>. QED  BY <3>1, <3>2 DEF Injection
    <2>2. Cardinality(1..n) = n
      <3>1. 1 \in Int /\ n \in Int
        OBVIOUS
      <3>2. Cardinality(1..n) = IF 1 > n THEN 0 ELSE n - 1 + 1
        BY <3>1, FS_Interval
      <3>. QED  BY <3>2
    <2>. QED  BY <1>1, <2>1, <2>2, FS_Injection DEF RequestReserve
  <1>6. RequestDue(j, r) \in Nat
    BY DEF RequestDue, DiagnosticReserve
  <1> HIDE DEF owed, owners
  <1>7. IsFiniteSet(owed) /\ Cardinality(owed) <= CommandReserve(j) /\ CommandReserve(j) \in Nat
    BY <1>1, <1>3, <1>4 DEF CommandReserve, owners
  <1>. QED  BY <1>1, <1>5, <1>6, <1>7 DEF owed, RequestReserve

\* A run that has asked its model has room for what it must still write.
LEMMA RoomIsThere ==
    ASSUME NEW j \in Seq(Record), Fits(j), NEW r \in Runs, Active(j, r), Attempts(j, r) > 0
    PROVE  LET owed == {c \in Commands : Uncertain(j, r, c) /\ "unknown" \notin Progress(j, r, c)}
           IN  Len(j) + Cardinality(owed) + 1
               + (IF ModelPending(j, r) \/ SummaryPending(j, r) THEN 1 ELSE 0) <= MaxRecords
  <1> DEFINE owed == {c \in Commands : Uncertain(j, r, c) /\ "unknown" \notin Progress(j, r, c)}
             due == {c \in Commands : "finished" \in OwedFor(j, r, c)}
             more == IF ModelPending(j, r) \/ SummaryPending(j, r) THEN 1 ELSE 0
  <1>1. owed \subseteq due
    BY DEF Uncertain, OwedFor
  <1>2. /\ IsFiniteSet(due) /\ CommandReserve(j) \in Nat /\ RequestReserve(j) \in Nat
        /\ Cardinality(due) <= CommandReserve(j)
        /\ \A n \in 0..5 : n <= RequestDue(j, r) => n <= RequestReserve(j)
    BY DueCovers
  <1>3. Cardinality(owed) <= Cardinality(due) /\ Cardinality(owed) \in Nat /\ Cardinality(due) \in Nat
    BY <1>1, <1>2, FS_Subset, FS_CardinalityType
  <1>4. 1 + more <= RequestDue(j, r) /\ 1 + more \in 0..5
    <2>1. DiagnosticReserve(j, r) \in Nat
      BY DEF DiagnosticReserve
    <2>. QED  BY <2>1 DEF RequestDue
  <1> HIDE DEF owed, due, more
  <1>5. 1 + more <= RequestReserve(j)
    BY <1>2, <1>4
  <1>6. more \in Nat /\ MaxRecords \in Nat /\ Len(j) \in Nat
    BY StoreConstants DEF more
  <1>7. Len(j) + Cardinality(owed) + 1 + more <= MaxRecords
    BY <1>2, <1>3, <1>5, <1>6 DEF Fits
  <1>. QED  BY <1>7 DEF owed, more

-----------------------------------------------------------------------------
(* The loop and the store's validation agree.                              *)

Asking == {"asked", "sending", "failing", "answered"}
Working == {"batch", "approved", "prepared", "spawning", "executing"}
Answers(j, r) == Responses(j, r) \cup Failures(j, r)

\* Where the loop is tells how far the run's requests, its summary and the judgement
\* of its end are on record.
TalkAgrees(j, l) ==
    LET r == l.run
    IN  /\ Attempts(j, r) = Cardinality(Answers(j, r)) + (IF l.pc \in Asking THEN 1 ELSE 0)
        /\ SummaryPending(j, r) <=> l.pc = "summarizing"
        /\ Of(j, "summary_attempted", r) = {} => Of(j, "summary_settled", r) = {}
        /\ l.pc \notin Asking \cup {"ending"} /\ Outcome(j, r) = "model_request_failed" =>
              LastHow(j, Failures(j, r)) = "retry"
        /\ l.pc = "judge" \/ (l.pc = "ending" /\ l.stop = "completed") =>
              Outcome(j, r) = "model_response" /\ Boundary(j, r) = "model_response"

\* The calls without a result on record are those that wait, each once.
CallsAgree(j, l) ==
    LET r == l.run
        waits(c) == \E i \in DOMAIN l.pending : l.pending[i] = c
    IN  /\ \A c \in Requested(j, r) : Done(j, r, c) \/ waits(c)
        /\ \A i \in DOMAIN l.pending :
              /\ l.pending[i] \in Requested(j, r) /\ ~Done(j, r, l.pending[i])
              /\ i > 1 \/ l.pc \in {"batch", "approved"} => ~Prepared(j, r, l.pending[i])
        /\ IsInjective(l.pending)
        /\ l.pc \notin Working \cup {"ending"} => l.pending = <<>>

\* The life of a command on record is as far as the loop has brought it, and one that
\* is not over has a process or is in doubt.
CommandsAgree(j, l, run) ==
    LET r == l.run
        now == Progress(j, r, Head(l.pending))
    IN  /\ \A c : Progress(j, r, c) # {} => c \in Commands /\ Prepared(j, r, c)
        /\ l.pc = "prepared" => now = {}
        /\ l.pc = "spawning" => now = {"prepared"}
        /\ l.pc = "executing" /\ Head(l.pending) \in Commands => "running" \in now
        /\ \A c \in Commands :
              Uncertain(j, r, c) /\ "unknown" \notin Progress(j, r, c) =>
                  <<r, c>> \in run \/ (l.pc = "spawning" /\ c = Head(l.pending))

Agrees(j, l, run) == TalkAgrees(j, l) /\ CallsAgree(j, l) /\ CommandsAgree(j, l, run)

AgreeInv == /\ ~refused
            /\ ~At("idle") /\ ~poisoned => Agrees(journal, loop, running)

\* The last of some positions is among them.
LEMMA LastIsOne ==
    ASSUME NEW n \in Nat, NEW S \in SUBSET (1..n), S # {}
    PROVE  Max(S) \in S /\ \A i \in S : Max(S) >= i
  <1> DEFINE T == {m \in 0..n : n - m \in S}
  <1>1. T \in SUBSET Nat /\ \A i \in S : n - i \in T
    OBVIOUS
  <1>2. T # {}
    BY <1>1
  <1>3. PICK x \in T : \A y \in T : ~(<<y, x>> \in OpToRel(<, Nat))
    BY <1>1, <1>2, NatLessThanWellFounded, WFMin
  <1>4. \A y \in T : ~(y < x)
    BY <1>1, <1>3 DEF OpToRel
  <1>5. n - x \in S /\ \A i \in S : n - x >= i
    <2>1. x \in Nat /\ x \in 0..n /\ n - x \in S
      OBVIOUS
    <2>2. ASSUME NEW i \in S PROVE n - x >= i
      <3>1. ~(n - i < x) /\ i \in Nat
        BY <1>1, <1>4
      <3>. QED  BY <2>1, <3>1
    <2>. QED  BY <2>1, <2>2
  <1>. QED  BY <1>5 DEF Max

\* One more record leaves what was the last of others, or is the last itself.
LEMMA AppendedLast ==
    ASSUME NEW j \in Seq(Record), NEW e \in Record, NEW S, S \subseteq DOMAIN j
    PROVE  LET k == Append(j, e)
               new == S \cup {Len(j) + 1}
           IN  /\ LastType(k, S) = LastType(j, S) /\ LastHow(k, S) = LastHow(j, S)
               /\ LastType(k, new) = e.type /\ LastHow(k, new) = e.how
               /\ IsFiniteSet(S) /\ Cardinality(S) \in Nat
               /\ Cardinality(new) = Cardinality(S) + 1
  <1> DEFINE k == Append(j, e)
             n == Len(j) + 1
             new == S \cup {n}
  <1>1. /\ n \in Nat \ {0} /\ DOMAIN j = 1..(n - 1) /\ n \notin DOMAIN j
        /\ k[n] = e /\ \A i \in DOMAIN j : k[i] = j[i]
    OBVIOUS
  <1> HIDE DEF k, n
  <1>2. S # {} => Max(S) \in S
    <2>1. n - 1 \in Nat /\ S \in SUBSET (1..(n - 1))
      BY <1>1 DEF n
    <2>. QED  BY <2>1, LastIsOne
  <1>3. LastType(k, S) = LastType(j, S) /\ LastHow(k, S) = LastHow(j, S)
    BY <1>1, <1>2 DEF LastType, LastHow
  <1>4. Max(new) = n
    <2>1. new \in SUBSET (1..n) /\ new # {}
      <3>1. n \in 1..n /\ \A i \in S : i \in 1..n
        BY <1>1
      <3>. QED  BY <3>1
    <2>2. Max(new) \in new /\ Max(new) >= n
      BY <1>1, <2>1, LastIsOne
    <2>. QED  BY <1>1, <2>1, <2>2
  <1>5. LastType(k, new) = e.type /\ LastHow(k, new) = e.how
    BY <1>1, <1>4 DEF LastType, LastHow
  <1>6. IsFiniteSet(S)
    <2>1. 1 \in Int /\ n - 1 \in Int
      BY <1>1
    <2>2. IsFiniteSet(1..(n - 1))
      BY <2>1, FS_Interval
    <2>. QED  BY <1>1, <2>2, FS_Subset
  <1>7. Cardinality(S) \in Nat /\ Cardinality(new) = Cardinality(S) + 1
    <2>1. n \notin S
      BY <1>1
    <2>. QED  BY <1>6, <2>1, FS_CardinalityType, FS_AddElement
  <1>. QED  BY <1>3, <1>5, <1>6, <1>7 DEF k, n

\* What one more record of a run changes of its talk with the model.
LEMMA AppendedTalk ==
    ASSUME NEW j \in Seq(Record), NEW e \in Record
    PROVE  LET k == Append(j, e)
               r == e.run
               asks == e.type = "model_request_started"
               answers == e.type \in {"model_response", "model_request_failed"}
               judges == e.type \in {"model_response", "completion_rejected"}
           IN  /\ Attempts(j, r) \in Nat /\ Cardinality(Answers(j, r)) \in Nat
               /\ asks => Attempts(k, r) = Attempts(j, r) + 1
               /\ ~asks => Attempts(k, r) = Attempts(j, r)
               /\ answers => /\ Cardinality(Answers(k, r)) = Cardinality(Answers(j, r)) + 1
                             /\ Outcome(k, r) = e.type
               /\ ~answers => /\ Cardinality(Answers(k, r)) = Cardinality(Answers(j, r))
                              /\ Outcome(k, r) = Outcome(j, r)
               /\ judges => Boundary(k, r) = e.type
               /\ ~judges => Boundary(k, r) = Boundary(j, r)
               /\ e.type = "model_request_failed" => LastHow(k, Failures(k, r)) = e.how
               /\ e.type # "model_request_failed" => LastHow(k, Failures(k, r)) = LastHow(j, Failures(j, r))
               /\ Of(k, "summary_attempted", r) = {} <=>
                    Of(j, "summary_attempted", r) = {} /\ e.type # "summary_attempted"
               /\ Of(k, "summary_settled", r) = {} <=>
                    Of(j, "summary_settled", r) = {} /\ e.type # "summary_settled"
  <1> DEFINE k == Append(j, e)
             r == e.run
             n == Len(j) + 1
  <1>1. ASSUME NEW t
        PROVE  /\ Of(j, t, r) \subseteq DOMAIN j
               /\ Of(k, t, r) = IF e.type = t THEN Of(j, t, r) \cup {n} ELSE Of(j, t, r)
    <2>1. /\ Of(j, t, r) \subseteq DOMAIN j
          /\ e.type = t /\ e.run = r => Of(k, t, r) = Of(j, t, r) \cup {n}
          /\ e.type # t \/ e.run # r => Of(k, t, r) = Of(j, t, r)
      <3>1. DOMAIN k = DOMAIN j \cup {n} /\ k[n] = e /\ \A i \in DOMAIN j : k[i] = j[i]
        BY Appended
      <3> HIDE DEF k, r, n
      <3>. QED  BY <3>1 DEF Of
    <2> HIDE DEF k, r, n
    <2>. QED  BY <2>1 DEF r
  <1>2. ASSUME NEW S, S \subseteq DOMAIN j
        PROVE  /\ LastType(k, S) = LastType(j, S) /\ LastHow(k, S) = LastHow(j, S)
               /\ LastType(k, S \cup {n}) = e.type /\ LastHow(k, S \cup {n}) = e.how
               /\ Cardinality(S) \in Nat /\ Cardinality(S \cup {n}) = Cardinality(S) + 1
    BY <1>2, AppendedLast, ZenonT(60)
  <1> HIDE DEF k, r, n
  <1>3. /\ Attempts(j, r) \in Nat
        /\ Attempts(k, r) = Attempts(j, r) + (IF e.type = "model_request_started" THEN 1 ELSE 0)
    <2> DEFINE old == Of(j, "model_request_started", r)
    <2>1. Cardinality(old) \in Nat /\ Cardinality(old \cup {n}) = Cardinality(old) + 1
      BY <1>1, <1>2
    <2>2. Of(k, "model_request_started", r) = IF e.type = "model_request_started" THEN old \cup {n} ELSE old
      BY <1>1
    <2>3. Attempts(j, r) = Cardinality(old) /\ Attempts(k, r) = Cardinality(Of(k, "model_request_started", r))
      BY DEF Attempts
    <2> HIDE DEF old
    <2>4. CASE e.type = "model_request_started"
      BY <2>1, <2>2, <2>3, <2>4
    <2>5. CASE e.type # "model_request_started"
      BY <2>1, <2>2, <2>3, <2>5
    <2>. QED  BY <2>4, <2>5
  <1>4. /\ Answers(j, r) \subseteq DOMAIN j
        /\ Answers(k, r) = IF e.type \in {"model_response", "model_request_failed"}
                           THEN Answers(j, r) \cup {n} ELSE Answers(j, r)
    BY <1>1 DEF Answers, Responses, Failures
  <1>5. /\ Cardinality(Answers(j, r)) \in Nat
        /\ Cardinality(Answers(k, r)) = Cardinality(Answers(j, r))
             + (IF e.type \in {"model_response", "model_request_failed"} THEN 1 ELSE 0)
        /\ Outcome(k, r) = IF e.type \in {"model_response", "model_request_failed"} THEN e.type
                           ELSE Outcome(j, r)
    <2> DEFINE old == Answers(j, r)
    <2>1. /\ LastType(k, old) = LastType(j, old) /\ LastType(k, old \cup {n}) = e.type
          /\ Cardinality(old) \in Nat /\ Cardinality(old \cup {n}) = Cardinality(old) + 1
      BY <1>2, <1>4
    <2>2. Outcome(j, r) = LastType(j, old) /\ Outcome(k, r) = LastType(k, Answers(k, r))
      BY DEF Outcome, Answers
    <2> HIDE DEF old
    <2>. QED  BY <1>4, <2>1, <2>2 DEF old
  <1>6. Boundary(k, r) = IF e.type \in {"model_response", "completion_rejected"} THEN e.type
                         ELSE Boundary(j, r)
    <2> DEFINE old == Responses(j, r) \cup Of(j, "completion_rejected", r)
               new == Responses(k, r) \cup Of(k, "completion_rejected", r)
    <2>1. /\ old \subseteq DOMAIN j
          /\ new = IF e.type \in {"model_response", "completion_rejected"} THEN old \cup {n} ELSE old
      BY <1>1 DEF Responses
    <2> HIDE DEF old, new
    <2>. QED  BY <1>2, <2>1 DEF Boundary, old, new
  <1>7. LastHow(k, Failures(k, r)) = IF e.type = "model_request_failed" THEN e.how
                                     ELSE LastHow(j, Failures(j, r))
    <2>1. Failures(j, r) \subseteq DOMAIN j
      BY <1>1 DEF Failures
    <2>. QED  BY <1>1, <1>2, <2>1 DEF Failures
  <1>8. \A t : Of(k, t, r) = {} <=> Of(j, t, r) = {} /\ e.type # t
    BY <1>1
  <1>. QED  BY <1>3, <1>5, <1>6, <1>7, <1>8 DEF k, r

\* What a response asks for.
LEMMA AppendedRequests ==
    ASSUME NEW j \in Seq(Record), NEW e \in Record, NEW r
    PROVE  LET k == Append(j, e)
               asks == e.type = "model_response" /\ e.run = r
           IN  /\ asks => Requested(k, r) = Requested(j, r) \cup Range(e.item)
               /\ ~asks => Requested(k, r) = Requested(j, r)
  <1> DEFINE k == Append(j, e)
             n == Len(j) + 1
  <1>1. /\ Responses(j, r) \subseteq DOMAIN j /\ k[n] = e /\ \A i \in DOMAIN j : k[i] = j[i]
        /\ Responses(k, r) = IF e.type = "model_response" /\ e.run = r THEN Responses(j, r) \cup {n}
                             ELSE Responses(j, r)
    <2> DEFINE t == "model_response"
    <2>1. /\ Of(j, t, r) \subseteq DOMAIN j /\ k[n] = e /\ \A i \in DOMAIN j : k[i] = j[i]
          /\ e.type = t /\ e.run = r => Of(k, t, r) = Of(j, t, r) \cup {n}
          /\ e.type # t \/ e.run # r => Of(k, t, r) = Of(j, t, r)
      BY AppendedOf
    <2>. QED  BY <2>1 DEF Responses
  <1> HIDE DEF k, n
  <1>2. {Range(k[i].item) : i \in Responses(j, r)} = {Range(j[i].item) : i \in Responses(j, r)}
    BY <1>1
  <1>3. {Range(k[i].item) : i \in Responses(j, r) \cup {n}}
          = {Range(j[i].item) : i \in Responses(j, r)} \cup {Range(e.item)}
    BY <1>1
  <1>4. e.type = "model_response" /\ e.run = r => Requested(k, r) = Requested(j, r) \cup Range(e.item)
    BY <1>1, <1>3 DEF Requested
  <1>5. ~(e.type = "model_response" /\ e.run = r) => Requested(k, r) = Requested(j, r)
    BY <1>1, <1>2 DEF Requested
  <1>. QED  BY <1>4, <1>5 DEF k

\* Records about other things leave each part of the agreement.
LEMMA TalkStays ==
    ASSUME NEW j \in Seq(Record), NEW e \in Record, NEW l, e.run = l.run,
           e.type \notin {"model_request_started", "model_response", "model_request_failed",
                          "completion_rejected", "summary_attempted", "summary_settled"},
           TalkAgrees(j, l)
    PROVE  TalkAgrees(Append(j, e), l)
  <1> DEFINE k == Append(j, e)
             r == l.run
  <1>1. /\ Attempts(k, r) = Attempts(j, r) /\ Cardinality(Answers(k, r)) = Cardinality(Answers(j, r))
        /\ Outcome(k, r) = Outcome(j, r) /\ Boundary(k, r) = Boundary(j, r)
        /\ LastHow(k, Failures(k, r)) = LastHow(j, Failures(j, r))
        /\ Of(k, "summary_attempted", r) = {} <=> Of(j, "summary_attempted", r) = {}
        /\ Of(k, "summary_settled", r) = {} <=> Of(j, "summary_settled", r) = {}
    BY AppendedTalk, ZenonT(60)
  <1> HIDE DEF k
  <1>2. TalkAgrees(k, l)
    BY <1>1 DEF TalkAgrees, SummaryPending
  <1>. QED  BY <1>2 DEF k

\* Records that answer, prepare or ask for no call leave those that wait.
LEMMA CallsStay ==
    ASSUME NEW j \in Seq(Record), NEW e \in Record, NEW l, CallsAgree(j, l),
           e.type \notin {"model_response", "tool_prepared", "tool_completed"}
    PROVE  CallsAgree(Append(j, e), l)
  <1> DEFINE k == Append(j, e)
             r == l.run
  <1>1. /\ Requested(k, r) = Requested(j, r)
        /\ \A c : (Prepared(k, r, c) <=> Prepared(j, r, c)) /\ (Done(k, r, c) <=> Done(j, r, c))
    BY AppendedRequests, AppendedSays
  <1> HIDE DEF k
  <1>2. CallsAgree(k, l)
    BY <1>1 DEF CallsAgree
  <1>. QED  BY <1>2 DEF k

\* Records about no command leave the commands.
LEMMA CommandsStay ==
    ASSUME NEW j \in Seq(Record), NEW e \in Record, NEW l, NEW run, CommandsAgree(j, l, run),
           e.type # "command_lifecycle"
    PROVE  CommandsAgree(Append(j, e), l, run)
  <1> DEFINE k == Append(j, e)
             r == l.run
  <1>1. \A c : Progress(k, r, c) = Progress(j, r, c) /\ (Prepared(j, r, c) => Prepared(k, r, c))
    <2>1. ASSUME NEW c PROVE Progress(k, r, c) = Progress(j, r, c)
      <3> DEFINE mine == e.type = "command_lifecycle" /\ e.run = r /\ e.item = c
      <3>1. Progress(k, r, c) = Progress(j, r, c) \cup (IF mine THEN {e.how} ELSE {})
        BY AppendedProgress
      <3>2. ~mine
        OBVIOUS
      <3> HIDE DEF mine, k
      <3>. QED  BY <3>1, <3>2
    <2>. QED  BY <2>1, AppendedSays
  <1> HIDE DEF k
  <1>2. CommandsAgree(k, l, run)
    BY <1>1 DEF CommandsAgree, Uncertain
  <1>. QED  BY <1>2 DEF k

\* The loop goes on without a record, with the calls that it has.
LEMMA CallsMove ==
    ASSUME NEW j, NEW l, NEW m, CallsAgree(j, l), m.run = l.run, m.pending = l.pending,
           m.pc \in {"batch", "approved"} => l.pc \in {"batch", "approved"},
           m.pc \in Working \cup {"ending"} \/ m.pending = <<>>
    PROVE  CallsAgree(j, m)
  BY DEF CallsAgree

LEMMA CommandsMove ==
    ASSUME NEW j, NEW l, NEW m, NEW run, CommandsAgree(j, l, run), m.run = l.run, m.pending = l.pending,
           l.pc # "spawning", m.pc \notin {"prepared", "spawning"},
           m.pc = "executing" => Head(m.pending) \notin Commands
    PROVE  CommandsAgree(j, m, run)
  BY DEF CommandsAgree

\* What the proofs need of a loop that is under way.
LEMMA UnderWay ==
    ASSUME JournalInv, ReplayInv, DoubtInv, AgreeInv, ~At("idle")
    PROVE  /\ journal \in Seq(Record) /\ loop \in Loop /\ loop.run \in Runs
           /\ Active(journal, loop.run) /\ ~Resolved(journal, loop.run)
           /\ \A c : Completed(journal, loop.run, c) <=> Done(journal, loop.run, c)
           /\ ~poisoned => /\ TalkAgrees(journal, loop) /\ CallsAgree(journal, loop)
                           /\ CommandsAgree(journal, loop, running)
  <1>1. /\ journal \in Seq(Record) /\ loop \in Loop /\ loop.run \in Runs
        /\ LivesInOrder(journal) /\ Active(journal, loop.run)
    BY LoopIs, LivesInOrderHolds DEF DoubtInv, LoopIsServed, At
  <1>2. ~Resolved(journal, loop.run)
    BY <1>1 DEF LivesInOrder, Active
  <1>. QED  BY <1>1, <1>2 DEF Completed, Done, AgreeInv, Agrees

\* A record that the store expects, or one of a run in doubt, keeps the agreement.
LEMMA WriteAgrees ==
    ASSUME AgreeInv, NEW e, NEW m, Write(e, m) \/ WriteIfRoom(e, m),
           ~poisoned => Valid(journal, e) \/ Doubt,
           ~poisoned /\ Valid(journal, e) /\ m.pc # "idle" => Agrees(Append(journal, e), m, running')
    PROVE  AgreeInv'
  <1>1. Quiet.pc = "idle"
    BY DEF Quiet
  <1>2. CASE ~Write(e, m)
    BY <1>1, <1>2 DEF WriteIfRoom, AgreeInv, At, storeVars
  <1>3. CASE Write(e, m)
    <2>1. CASE Accepts(e) /\ Land(e) /\ loop' = m /\ UNCHANGED refused
      BY <2>1 DEF Accepts, Land, AgreeInv, At
    <2>2. CASE Accepts(e) /\ Break(e) /\ loop' = Quiet /\ UNCHANGED refused
      BY <1>1, <2>2 DEF AgreeInv, At
    <2>3. CASE ~Accepts(e) /\ loop' = Quiet /\ refused' = (refused \/ (~poisoned /\ ~Valid(journal, e) /\ ~Doubt))
      BY <1>1, <2>3 DEF AgreeInv, At
    <2>. QED  BY <1>3, <2>1, <2>2, <2>3 DEF Write
  <1>. QED  BY <1>2, <1>3

\* So does a step without a record to a place that fits the journal.
LEMMA TurnAgrees ==
    ASSUME AgreeInv, NEW m, Turn(m), ~poisoned /\ m.pc # "idle" => Agrees(journal, m, running')
    PROVE  AgreeInv'
  BY DEF Turn, storeVars, AgreeInv, At

\* What the store demands of the records of a run, one by one.
LEMMA TalkIsValid ==
    ASSUME NEW j, NEW e, Active(j, e.run),
           \/ /\ e.type = "model_request_started"
              /\ ~ModelPending(j, e.run) /\ ~SummaryPending(j, e.run)
              /\ Outcome(j, e.run) = "model_request_failed" => LastHow(j, Failures(j, e.run)) = "retry"
              /\ \A d \in Requested(j, e.run) : Completed(j, e.run, d)
           \/ e.type \in {"model_request_diagnostic", "model_request_failed"} /\ ModelPending(j, e.run)
           \/ /\ e.type = "model_response" /\ ModelPending(j, e.run)
              /\ \A d \in Requested(j, e.run) : Completed(j, e.run, d)
              /\ IsInjective(e.item) /\ Range(e.item) \cap Requested(j, e.run) = {}
           \/ e.type = "completion_rejected" /\ Boundary(j, e.run) = "model_response"
           \/ e.type = "summary_settled" /\ SummaryPending(j, e.run)
    PROVE  Valid(j, e)
  <1>1. ValidModel(j, e)
    BY DEF ValidModel
  <1>. QED  BY <1>1 DEF Valid

\* What a step changes of the loop.
LEMMA NextIs ==
    ASSUME JournalInv
    PROVE  /\ \A p : LET m == Go(p) IN m.pc = p /\ m.run = loop.run /\ m.pending = loop.pending /\ m.stop = loop.stop
           /\ \A s : LET m == Ending(s) IN m.pc = "ending" /\ m.run = loop.run /\ m.pending = loop.pending /\ m.stop = s
  BY LoopIs DEF Go, Ending, Loop

\* Between its calls the loop writes what the store expects.
LEMMA TalkWritten ==
    ASSUME JournalInv, ReplayInv, DoubtInv, AgreeInv,
           loop.pc \in Asking \cup {"turn", "judge", "summarizing"}, running' = running,
           NEW t \in {"model_request_started", "model_request_diagnostic", "model_request_failed",
                      "completion_rejected", "summary_attempted", "summary_settled"},
           NEW v \in Outcomes, NEW m,
           m.run = loop.run, m.pending = loop.pending, m.pc \notin Working,
           LET e == ByLoop(t, NONE, v)
           IN  /\ Write(e, m) \/ WriteIfRoom(e, m)
               /\ ~poisoned => Valid(journal, e) /\ TalkAgrees(Append(journal, e), m)
    PROVE  AgreeInv'
  <1> DEFINE e == ByLoop(t, NONE, v)
  <1>1. ~At("idle") /\ loop.pc \notin Working \cup {"idle", "ending"}
    BY DEF At, Asking, Working
  <1>2. e \in Record /\ e.type = t
    BY <1>1, ByLoopIsRecord DEF At, RecordTypes
  <1>3. /\ Write(e, m) \/ WriteIfRoom(e, m)
        /\ ~poisoned => Valid(journal, e) /\ TalkAgrees(Append(journal, e), m)
    OBVIOUS
  <1> HIDE DEF e
  <1>4. ASSUME ~poisoned PROVE Agrees(Append(journal, e), m, running')
    <2>1. journal \in Seq(Record) /\ CallsAgree(journal, loop) /\ CommandsAgree(journal, loop, running)
      BY <1>1, <1>4, UnderWay
    <2>2. loop.pending = <<>>
      BY <1>1, <2>1 DEF CallsAgree
    <2>3. CallsAgree(journal, m)
      BY <1>1, <2>1, <2>2, CallsMove DEF Working
    <2>4. CommandsAgree(journal, m, running)
      BY <1>1, <2>1, CommandsMove DEF Working
    <2>. QED  BY <1>2, <1>3, <1>4, <2>1, <2>3, <2>4, CallsStay, CommandsStay DEF Agrees
  <1>. QED  BY <1>3, <1>4, WriteAgrees

\* The loop may end wherever nothing it has asked for is under way.
LEMMA EndingAgrees ==
    ASSUME JournalInv, ReplayInv, DoubtInv, AgreeInv, ~At("idle"),
           loop.pc \notin Asking \cup {"spawning", "summarizing"}, running' = running,
           NEW s, Turn(Ending(s)), s = "completed" => loop.pc = "judge"
    PROVE  AgreeInv'
  <1> DEFINE m == Ending(s)
  <1>1. m.pc = "ending" /\ m.run = loop.run /\ m.pending = loop.pending /\ m.stop = s
    BY NextIs
  <1>2. Turn(m)
    OBVIOUS
  <1> HIDE DEF m
  <1>3. ASSUME ~poisoned PROVE Agrees(journal, m, running')
    <2>1. TalkAgrees(journal, loop) /\ CallsAgree(journal, loop) /\ CommandsAgree(journal, loop, running)
      BY <1>3, UnderWay
    <2>2. TalkAgrees(journal, m)
      BY <1>1, <2>1 DEF TalkAgrees, Asking
    <2>3. CallsAgree(journal, m)
      BY <1>1, <2>1, CallsMove
    <2>4. CommandsAgree(journal, m, running)
      BY <1>1, <2>1, CommandsMove
    <2>. QED  BY <2>2, <2>3, <2>4 DEF Agrees
  <1>. QED  BY <1>2, <1>3, TurnAgrees

\* The state of the run on record between its calls.
LEMMA TalkIs ==
    ASSUME JournalInv, ReplayInv, DoubtInv, AgreeInv, ~At("idle"), ~poisoned
    PROVE  LET r == loop.run
           IN  /\ Active(journal, r) /\ journal \in Seq(Record)
               /\ ModelPending(journal, r) <=> loop.pc \in Asking
               /\ SummaryPending(journal, r) <=> loop.pc = "summarizing"
               /\ loop.pc \notin Working \cup {"ending"} =>
                     \A c \in Requested(journal, r) : Completed(journal, r, c)
               /\ TalkAgrees(journal, loop)
  <1> DEFINE r == loop.run
  <1>1. /\ journal \in Seq(Record) /\ Active(journal, r) /\ TalkAgrees(journal, loop) /\ CallsAgree(journal, loop)
        /\ \A c : Completed(journal, r, c) <=> Done(journal, r, c)
    BY UnderWay
  <1>2. Cardinality(Answers(journal, r)) \in Nat
    <2> DEFINE e == Rec("run_started", r, NONE, "done")
    <2>1. e \in Record /\ e.run = r
      BY UnderWay DEF Rec, Record, RecordTypes, Outcomes
    <2>. QED  BY <1>1, <2>1, AppendedTalk
  <1>3. ModelPending(journal, r) <=> loop.pc \in Asking
    BY <1>1, <1>2 DEF ModelPending, TalkAgrees, Answers
  <1>4. ASSUME loop.pc \notin Working \cup {"ending"}, NEW c \in Requested(journal, r)
        PROVE  Completed(journal, r, c)
    BY <1>1, <1>4 DEF CallsAgree
  <1>. QED  BY <1>1, <1>3, <1>4 DEF TalkAgrees

\* A record about the talk with the model takes it as far as the loop goes with it.
LEMMA TalkGoes ==
    ASSUME NEW j \in Seq(Record), NEW e \in Record, NEW l, NEW m, TalkAgrees(j, l),
           e.run = l.run, m.run = l.run, m.pc = "ending" => m.stop # "completed",
           \/ e.type = "model_request_started" /\ l.pc = "turn" /\ m.pc = "asked"
           \/ /\ e.type = "model_request_failed" /\ l.pc = "failing"
              /\ m.pc = "ending" \/ (m.pc = "turn" /\ e.how = "retry")
           \/ e.type = "model_response" /\ l.pc = "answered" /\ m.pc \in {"ending", "judge", "batch"}
           \/ e.type = "completion_rejected" /\ l.pc = "judge" /\ m.pc \in {"ending", "turn"}
           \/ /\ e.type = "summary_attempted" /\ l.pc = "turn" /\ m.pc = "summarizing"
              /\ Of(j, "summary_attempted", l.run) = {}
           \/ e.type = "summary_settled" /\ l.pc = "summarizing" /\ m.pc \in {"ending", "turn"}
    PROVE  TalkAgrees(Append(j, e), m)
  <1> DEFINE k == Append(j, e)
             r == l.run
             asks == e.type = "model_request_started"
             answers == e.type \in {"model_response", "model_request_failed"}
             judges == e.type \in {"model_response", "completion_rejected"}
  <1>1. /\ Attempts(j, r) \in Nat /\ Cardinality(Answers(j, r)) \in Nat
        /\ asks => Attempts(k, r) = Attempts(j, r) + 1
        /\ ~asks => Attempts(k, r) = Attempts(j, r)
        /\ answers => Cardinality(Answers(k, r)) = Cardinality(Answers(j, r)) + 1 /\ Outcome(k, r) = e.type
        /\ ~answers => Cardinality(Answers(k, r)) = Cardinality(Answers(j, r)) /\ Outcome(k, r) = Outcome(j, r)
        /\ judges => Boundary(k, r) = e.type
        /\ ~judges => Boundary(k, r) = Boundary(j, r)
        /\ e.type = "model_request_failed" => LastHow(k, Failures(k, r)) = e.how
        /\ e.type # "model_request_failed" => LastHow(k, Failures(k, r)) = LastHow(j, Failures(j, r))
        /\ Of(k, "summary_attempted", r) = {} <=> Of(j, "summary_attempted", r) = {} /\ e.type # "summary_attempted"
        /\ Of(k, "summary_settled", r) = {} <=> Of(j, "summary_settled", r) = {} /\ e.type # "summary_settled"
    BY AppendedTalk, ZenonT(60)
  <1>2. /\ Attempts(j, r) = Cardinality(Answers(j, r)) + (IF l.pc \in Asking THEN 1 ELSE 0)
        /\ (Of(j, "summary_attempted", r) # {} /\ Of(j, "summary_settled", r) = {}) <=> l.pc = "summarizing"
        /\ Of(j, "summary_attempted", r) = {} => Of(j, "summary_settled", r) = {}
        /\ l.pc \notin Asking \cup {"ending"} /\ Outcome(j, r) = "model_request_failed" =>
              LastHow(j, Failures(j, r)) = "retry"
        /\ l.pc = "judge" \/ (l.pc = "ending" /\ l.stop = "completed") =>
              Outcome(j, r) = "model_response" /\ Boundary(j, r) = "model_response"
    BY DEF TalkAgrees, SummaryPending
  <1> HIDE DEF k
  <1>3. Attempts(k, r) = Cardinality(Answers(k, r)) + (IF m.pc \in Asking THEN 1 ELSE 0)
    <2>1. asks => l.pc \notin Asking /\ m.pc \in Asking /\ ~answers
      BY DEF Asking
    <2>2. answers => l.pc \in Asking /\ m.pc \notin Asking /\ ~asks
      BY DEF Asking
    <2>3. ~asks /\ ~answers => l.pc \notin Asking /\ m.pc \notin Asking
      BY DEF Asking
    <2> HIDE DEF asks, answers
    <2>. QED  BY <1>1, <1>2, <2>1, <2>2, <2>3
  <1>4. /\ (Of(k, "summary_attempted", r) # {} /\ Of(k, "summary_settled", r) = {}) <=> m.pc = "summarizing"
        /\ Of(k, "summary_attempted", r) = {} => Of(k, "summary_settled", r) = {}
    BY <1>1, <1>2
  <1>5. /\ m.pc \notin Asking \cup {"ending"} /\ Outcome(k, r) = "model_request_failed" =>
              LastHow(k, Failures(k, r)) = "retry"
        /\ m.pc = "judge" => Outcome(k, r) = "model_response" /\ Boundary(k, r) = "model_response"
    BY <1>1, <1>2 DEF Asking
  <1>6. TalkAgrees(k, m)
    BY <1>3, <1>4, <1>5 DEF TalkAgrees, SummaryPending
  <1>. QED  BY <1>6 DEF k

\* Each record of the talk is one that validateEvent accepts where the loop writes it.
LEMMA TalkSteps ==
    ASSUME JournalInv, ReplayInv, DoubtInv, AgreeInv, running' = running,
           NEW t, NEW v \in Outcomes, NEW m,
           m.run = loop.run, m.pending = loop.pending, m.pc = "ending" => m.stop # "completed",
           LET e == ByLoop(t, NONE, v) IN Write(e, m) \/ WriteIfRoom(e, m),
           \/ t = "model_request_started" /\ At("turn") /\ m.pc = "asked"
           \/ t = "model_request_diagnostic" /\ loop.pc \in Asking /\ m.pc \in Asking
           \/ /\ t = "model_request_failed" /\ At("failing")
              /\ m.pc = "ending" \/ (m.pc = "turn" /\ v = "retry")
           \/ t = "completion_rejected" /\ At("judge") /\ m.pc \in {"ending", "turn"}
           \/ /\ t = "summary_attempted" /\ At("turn") /\ m.pc = "summarizing"
              /\ Valid(journal, ByLoop(t, NONE, v))
           \/ t = "summary_settled" /\ At("summarizing") /\ m.pc \in {"ending", "turn"}
    PROVE  AgreeInv'
  <1> DEFINE e == ByLoop(t, NONE, v)
             types == {"model_request_started", "model_request_diagnostic", "model_request_failed",
                       "completion_rejected", "summary_attempted", "summary_settled"}
  <1>1. /\ t \in types /\ ~At("idle") /\ loop.pc \in Asking \cup {"turn", "judge", "summarizing"}
        /\ m.pc \notin Working
    BY DEF At, Asking, Working
  <1>2. e \in Record /\ e.type = t /\ e.run = loop.run /\ e.how = v
    BY <1>1, ByLoopIsRecord DEF At, RecordTypes
  <1>3. e.type = "summary_attempted" => At("turn") /\ Valid(journal, e)
    BY <1>2
  <1>4. ASSUME ~poisoned PROVE Valid(journal, e) /\ TalkAgrees(Append(journal, e), m)
    <2> HIDE DEF e
    <2>1. /\ Active(journal, e.run) /\ journal \in Seq(Record) /\ TalkAgrees(journal, loop)
          /\ ModelPending(journal, e.run) <=> loop.pc \in Asking
          /\ SummaryPending(journal, e.run) <=> loop.pc = "summarizing"
          /\ loop.pc \notin Working \cup {"ending"} => \A c \in Requested(journal, e.run) : Completed(journal, e.run, c)
      BY <1>1, <1>2, <1>4, TalkIs
    <2>2. /\ At("turn") => (Outcome(journal, e.run) = "model_request_failed" => LastHow(journal, Failures(journal, e.run)) = "retry")
          /\ At("judge") => Boundary(journal, e.run) = "model_response"
      BY <1>2, <2>1 DEF TalkAgrees, Asking, At
    <2>3. Valid(journal, e)
      BY <1>2, <1>3, <2>1, <2>2, TalkIsValid DEF Asking, Working, At
    <2>4. e.type = "summary_attempted" => Of(journal, "summary_attempted", e.run) = {}
      BY <1>3 DEF Valid, ValidLife, ValidModel, ValidCommand, ValidTool, ValidEnd
    <2>5. CASE t = "model_request_diagnostic"
      <3>1. TalkAgrees(journal, m)
        BY <2>1, <2>5 DEF TalkAgrees, Asking
      <3>. QED  BY <1>2, <2>1, <2>3, <2>5, <3>1, TalkStays
    <2>6. CASE t # "model_request_diagnostic"
      BY <1>2, <2>1, <2>3, <2>4, <2>6, TalkGoes DEF At
    <2>. QED  BY <2>5, <2>6
  <1>. QED  BY <1>1, <1>4, TalkWritten

LEMMA RequestAgrees == ASSUME JournalInv, ReplayInv, DoubtInv, AgreeInv, RequestModel PROVE AgreeInv'
  <1>1. loop.pc = "turn" /\ running' = running /\ ~At("idle")
    BY DEF RequestModel, At, runVars
  <1>2. CASE \E s \in {"cancelled", "budget_exhausted"} : Turn(Ending(s))
    BY <1>1, <1>2, EndingAgrees DEF Asking
  <1>3. CASE WriteIfRoom(ByLoop("model_request_started", NONE, "done"), Go("asked"))
    <2>1. LET m == Go("asked") IN m.pc = "asked" /\ m.run = loop.run /\ m.pending = loop.pending
      BY NextIs
    <2>2. "done" \in Outcomes
      BY DEF Outcomes
    <2>. QED  BY <1>1, <1>3, <2>1, <2>2, TalkSteps DEF At
  <1>. QED  BY <1>2, <1>3 DEF RequestModel

LEMMA DiagnosisAgrees ==
    ASSUME JournalInv, ReplayInv, DoubtInv, AgreeInv, Diagnose \/ ModelReturns
    PROVE  AgreeInv'
  <1>1. /\ running' = running /\ {"started", "request", "dispatched", "finished"} \subseteq Outcomes
        /\ loop.pc \in {"asked", "sending"} /\ loop.pc \in Asking
    BY DEF Diagnose, ModelReturns, At, runVars, Outcomes, Asking
  <1>2. \E v \in {"started", "request", "dispatched", "finished"} :
           LET e == ByLoop("model_request_diagnostic", NONE, v)
           IN  \/ \E p \in {"sending", "answered", "failing"} : Write(e, Go(p))
               \/ Write(e, loop)
    BY DEF Diagnose, ModelReturns
  <1>3. ASSUME NEW v \in Outcomes, NEW m, Write(ByLoop("model_request_diagnostic", NONE, v), m),
               m.run = loop.run, m.pending = loop.pending, m.pc \in Asking
        PROVE  AgreeInv'
    BY <1>1, <1>3, TalkSteps DEF Asking
  <1>4. \A p \in {"sending", "answered", "failing"} : LET m == Go(p) IN m.run = loop.run /\ m.pending = loop.pending /\ m.pc \in Asking
    BY NextIs DEF Asking
  <1>. QED  BY <1>1, <1>2, <1>3, <1>4

LEMMA FailureAgrees == ASSUME JournalInv, ReplayInv, DoubtInv, AgreeInv, RecordFailure PROVE AgreeInv'
  <1>1. running' = running /\ At("failing") /\ {"retry", "final"} \subseteq Outcomes
    BY DEF RecordFailure, runVars, Outcomes
  <1>2. CASE Write(ByLoop("model_request_failed", NONE, "retry"), Go("turn"))
    <2>1. LET m == Go("turn") IN m.pc = "turn" /\ m.run = loop.run /\ m.pending = loop.pending
      BY NextIs
    <2>. QED  BY <1>1, <1>2, <2>1, TalkSteps
  <1>3. ASSUME NEW s \in {"cancelled", "failed"}, Write(ByLoop("model_request_failed", NONE, "final"), Ending(s))
        PROVE  AgreeInv'
    <2>1. LET m == Ending(s) IN m.pc = "ending" /\ m.run = loop.run /\ m.pending = loop.pending /\ m.stop = s
      BY NextIs
    <2>. QED  BY <1>1, <1>3, <2>1, TalkSteps
  <1>. QED  BY <1>2, <1>3 DEF RecordFailure

LEMMA JudgeAgrees == ASSUME JournalInv, ReplayInv, DoubtInv, AgreeInv, Judge PROVE AgreeInv'
  <1>1. running' = running /\ At("judge") /\ ~At("idle") /\ "done" \in Outcomes
    BY DEF Judge, At, runVars, Outcomes
  <1>2. ASSUME NEW s, Turn(Ending(s)) PROVE AgreeInv'
    BY <1>1, <1>2, EndingAgrees DEF Asking, At
  <1>3. ASSUME NEW m, m.pc \in {"ending", "turn"}, m.run = loop.run, m.pending = loop.pending,
               m.pc = "ending" => m.stop = "failed",
               WriteIfRoom(ByLoop("completion_rejected", NONE, "done"), m)
        PROVE  AgreeInv'
    BY <1>1, <1>3, TalkSteps
  <1>4. /\ LET m == Ending("failed") IN m.pc = "ending" /\ m.run = loop.run /\ m.pending = loop.pending /\ m.stop = "failed"
        /\ LET m == Go("turn") IN m.pc = "turn" /\ m.run = loop.run /\ m.pending = loop.pending
    BY NextIs
  <1>5. \/ \E s : Turn(Ending(s))
        \/ WriteIfRoom(ByLoop("completion_rejected", NONE, "done"), Ending("failed"))
        \/ WriteIfRoom(ByLoop("completion_rejected", NONE, "done"), Go("turn"))
    BY DEF Judge
  <1>. QED  BY <1>2, <1>3, <1>4, <1>5

LEMMA SummaryAgrees ==
    ASSUME JournalInv, ReplayInv, DoubtInv, AgreeInv, ReserveSummary \/ SettleSummary
    PROVE  AgreeInv'
  <1>1. running' = running /\ {"done", "compacted", "failed"} \subseteq Outcomes
    BY DEF ReserveSummary, SettleSummary, runVars, Outcomes, Stops
  <1>2. \A p : LET m == Go(p) IN m.pc = p /\ m.run = loop.run /\ m.pending = loop.pending
    BY NextIs
  <1>3. CASE ReserveSummary
    <2>1. /\ At("turn") /\ Write(ByLoop("summary_attempted", NONE, "done"), Go("summarizing"))
          /\ Valid(journal, ByLoop("summary_attempted", NONE, "done"))
      BY <1>3 DEF ReserveSummary
    <2>. QED  BY <1>1, <1>2, <2>1, TalkSteps
  <1>4. CASE SettleSummary
    <2>1. At("summarizing")
      BY <1>4 DEF SettleSummary
    <2>2. CASE Write(ByLoop("summary_settled", NONE, "compacted"), Go("turn"))
      BY <1>1, <1>2, <2>1, <2>2, TalkSteps
    <2>3. ASSUME NEW s \in {"cancelled", "failed"}, Write(ByLoop("summary_settled", NONE, "failed"), Ending(s))
          PROVE  AgreeInv'
      <3>1. LET m == Ending(s) IN m.pc = "ending" /\ m.run = loop.run /\ m.pending = loop.pending /\ m.stop = s
        BY NextIs
      <3>. QED  BY <1>1, <2>1, <2>3, <3>1, TalkSteps
    <2>. QED  BY <1>4, <2>2, <2>3 DEF SettleSummary
  <1>. QED  BY <1>3, <1>4

\* A tool is on record only for a call that was asked for.
LEMMA ToolsWereAsked ==
    ASSUME NEW j \in Seq(Record), Replays(j), NEW r, NEW c, Prepared(j, r, c) \/ Done(j, r, c)
    PROVE  c \in Requested(j, r)
  <1>0. PICK t \in {"tool_prepared", "tool_completed"} : About(j, t, r, c) # {}
    BY DEF Prepared, Done
  <1>1. PICK i \in Of(j, t, r) : j[i].item = c
    BY <1>0 DEF About
  <1> DEFINE p == SubSeq(j, 1, i - 1)
  <1>2. /\ i \in DOMAIN j /\ i > 1 /\ j[i].type = t /\ j[i].run = r /\ Valid(p, j[i])
    BY WasAccepted
  <1>3. /\ \A n \in 1..(i - 1) : p[n] = j[n]
        /\ Responses(p, r) = {n \in Responses(j, r) : n < i} /\ DOMAIN p = 1..(i - 1)
    BY <1>2, PrefixSays DEF Responses
  <1> HIDE DEF p
  <1>4. c \in Requested(p, r)
    BY <1>1, <1>2, ToolIsOpen
  <1>5. PICK n \in Responses(p, r) : c \in Range(p[n].item)
    BY <1>4 DEF Requested
  <1>6. n \in Responses(j, r) /\ p[n] = j[n]
    <2>1. n \in DOMAIN p
      BY DEF Responses, Of
    <2>. QED  BY <1>3, <2>1
  <1>. QED  BY <1>5, <1>6 DEF Requested

\* The calls of a response are new, so none has been prepared or answered.
LEMMA ResponseAgrees == ASSUME JournalInv, ReplayInv, DoubtInv, AgreeInv, RecordResponse PROVE AgreeInv'
  <1>1. loop.pc = "answered" /\ running' = running /\ ~At("idle")
    BY DEF RecordResponse, At, runVars
  <1>2. PICK calls \in Batches, refusal \in BOOLEAN :
          /\ IsInjective(calls) /\ Range(calls) \cap Requested(journal, loop.run) = {}
          /\ LET next == [loop EXCEPT !.pending = calls]
             IN WriteIfRoom(ByLoop("model_response", calls, "done"),
                  IF loop.abort THEN [next EXCEPT !.pc = "ending", !.stop = "cancelled"]
                  ELSE IF refusal THEN [next EXCEPT !.pc = "ending", !.stop = "failed"]
                  ELSE [next EXCEPT !.pc = IF calls = <<>> THEN "judge" ELSE "batch"])
    BY DEF RecordResponse
  <1> DEFINE r == loop.run
             e == ByLoop("model_response", calls, "done")
  <1>3. calls \in Seq(Calls) /\ loop \in Loop
    BY LoopIs, LoopConstants
  <1>4. PICK m : /\ WriteIfRoom(e, m) /\ m.run = r /\ m.pending = calls
                 /\ m.pc \in {"ending", "judge", "batch"}
                 /\ m.pc = "ending" => m.stop # "completed"
                 /\ m.pc = "judge" => calls = <<>>
    <2> DEFINE next == [loop EXCEPT !.pending = calls]
               one == [next EXCEPT !.pc = "ending", !.stop = "cancelled"]
               two == [next EXCEPT !.pc = "ending", !.stop = "failed"]
               three == [next EXCEPT !.pc = IF calls = <<>> THEN "judge" ELSE "batch"]
    <2>1. /\ one.run = r /\ one.pending = calls /\ one.pc = "ending" /\ one.stop = "cancelled"
          /\ two.run = r /\ two.pending = calls /\ two.pc = "ending" /\ two.stop = "failed"
          /\ three.run = r /\ three.pending = calls
          /\ (three.pc = "judge" /\ calls = <<>>) \/ three.pc = "batch"
      BY <1>3 DEF Loop
    <2>2. WriteIfRoom(e, one) \/ WriteIfRoom(e, two) \/ WriteIfRoom(e, three)
      BY <1>2
    <2> HIDE DEF one, two, three, e, r
    <2>. QED  BY <2>1, <2>2
  <1>5. e \in Record /\ e.type = "model_response" /\ e.run = r /\ e.item = calls
    <2>1. "model_response" \in RecordTypes /\ "done" \in Outcomes
      BY DEF RecordTypes, Outcomes
    <2>. QED  BY <1>1, <1>3, <2>1, ByLoopIsRecord
  <1> HIDE DEF e
  <1>6. ASSUME ~poisoned PROVE Valid(journal, e) /\ Agrees(Append(journal, e), m, running')
    <2> DEFINE k == Append(journal, e)
    <2>1. /\ journal \in Seq(Record) /\ Active(journal, r) /\ TalkAgrees(journal, loop)
          /\ ModelPending(journal, r) /\ \A c \in Requested(journal, r) : Completed(journal, r, c)
      BY <1>1, <1>6, TalkIs DEF Asking, Working
    <2>2. /\ CallsAgree(journal, loop) /\ CommandsAgree(journal, loop, running)
          /\ \A c : Completed(journal, r, c) <=> Done(journal, r, c)
      BY <1>1, <1>6, UnderWay
    <2>3. Valid(journal, e)
      BY <1>2, <1>5, <2>1, TalkIsValid
    <2>4. TalkAgrees(k, m)
      BY <1>1, <1>4, <1>5, <2>1, TalkGoes
    <2>5. CommandsAgree(k, m, running)
      <3>1. CommandsAgree(journal, m, running)
        BY <1>1, <1>4, <2>2 DEF CommandsAgree
      <3>. QED  BY <1>5, <2>1, <3>1, CommandsStay
    <2>6. /\ Requested(k, r) = Requested(journal, r) \cup Range(calls)
          /\ \A c : (Prepared(k, r, c) <=> Prepared(journal, r, c)) /\ (Done(k, r, c) <=> Done(journal, r, c))
      BY <1>5, <2>1, AppendedRequests, AppendedSays
    <2> HIDE DEF k
    <2>7. \A i \in DOMAIN calls : /\ calls[i] \in Range(calls) /\ calls[i] \notin Requested(journal, r)
                                  /\ ~Prepared(journal, r, calls[i]) /\ ~Done(journal, r, calls[i])
      <3>1. \A i \in DOMAIN calls : calls[i] \in Range(calls)
        BY DEF Range
      <3>. QED  BY <1>2, <2>1, <3>1, ToolsWereAsked DEF ReplayInv
    <2>8. \A c \in Range(calls) : \E i \in DOMAIN calls : calls[i] = c
      BY DEF Range
    <2>9. CallsAgree(k, m)
      BY <1>2, <1>4, <2>1, <2>2, <2>6, <2>7, <2>8 DEF CallsAgree, Working
    <2>. QED  BY <1>1, <2>3, <2>4, <2>5, <2>9 DEF Agrees, k
  <1>. QED  BY <1>4, <1>6, WriteAgrees

\* The loop goes on with the calls that it has, and what it does about them.
LEMMA TalkMoves ==
    ASSUME NEW j, NEW l, NEW m, TalkAgrees(j, l), m.run = l.run, l.pc \notin Asking \cup {"summarizing"},
           \/ m.pc \in Working \cup {"turn"} /\ l.pc # "ending"
           \/ m.pc = "ending" /\ (m.stop # "completed" \/ (l.pc = "ending" /\ l.stop = "completed"))
    PROVE  TalkAgrees(j, m)
  BY DEF TalkAgrees, Asking, Working

\* The steps without a record.
LEMMA PauseAgrees ==
    ASSUME JournalInv, ReplayInv, DoubtInv, AgreeInv, EndBatch \/ ApproveCall \/ ApprovalExpires \/ Abort
    PROVE  AgreeInv'
  <1>1. running' = running /\ loop \in Loop /\ ~At("idle")
    BY LoopIs DEF EndBatch, ApproveCall, ApprovalExpires, Abort, runVars, At
  <1>2. CASE EndBatch
    <2>1. loop.pc = "batch" /\ loop.pending = <<>>
      BY <1>2 DEF EndBatch, At
    <2>2. CASE Turn(Ending("failed"))
      BY <1>1, <2>1, <2>2, EndingAgrees DEF Asking
    <2>3. CASE Turn(Go("turn"))
      <3> DEFINE m == Go("turn")
      <3>1. m.pc = "turn" /\ m.run = loop.run /\ m.pending = <<>> /\ Turn(m)
        BY <2>1, <2>3, NextIs
      <3> HIDE DEF m
      <3>2. ASSUME ~poisoned PROVE Agrees(journal, m, running)
        <4>1. TalkAgrees(journal, loop) /\ CallsAgree(journal, loop) /\ CommandsAgree(journal, loop, running)
          BY <1>1, <3>2, UnderWay
        <4>2. TalkAgrees(journal, m)
          BY <2>1, <3>1, <4>1, TalkMoves DEF Asking
        <4>3. CallsAgree(journal, m)
          BY <2>1, <3>1, <4>1, CallsMove
        <4>4. CommandsAgree(journal, m, running)
          BY <2>1, <3>1, <4>1, CommandsMove
        <4>. QED  BY <4>2, <4>3, <4>4 DEF Agrees
      <3>. QED  BY <1>1, <3>1, <3>2, TurnAgrees
    <2>. QED  BY <1>2, <2>2, <2>3 DEF EndBatch
  <1>3. CASE ApproveCall
    <2> DEFINE m == [loop EXCEPT !.pc = "approved", !.fresh = TRUE]
    <2>1. loop.pc = "batch" /\ Turn(m)
      BY <1>3 DEF ApproveCall, At
    <2>2. m.pc = "approved" /\ m.run = loop.run /\ m.pending = loop.pending
      BY <1>1 DEF Loop
    <2> HIDE DEF m
    <2>3. ASSUME ~poisoned PROVE Agrees(journal, m, running)
      <3>1. TalkAgrees(journal, loop) /\ CallsAgree(journal, loop) /\ CommandsAgree(journal, loop, running)
        BY <1>1, <2>3, UnderWay
      <3>2. TalkAgrees(journal, m)
        BY <2>1, <2>2, <3>1, TalkMoves DEF Asking, Working
      <3>3. CallsAgree(journal, m)
        BY <2>1, <2>2, <3>1, CallsMove DEF Working
      <3>4. CommandsAgree(journal, m, running)
        BY <2>1, <2>2, <3>1, CommandsMove
      <3>. QED  BY <3>2, <3>3, <3>4 DEF Agrees
    <2>. QED  BY <1>1, <2>1, <2>3, TurnAgrees
  <1>4. CASE ApprovalExpires \/ Abort
    <2>1. PICK m \in Loop : /\ loop' = m /\ m.pc = loop.pc /\ m.run = loop.run /\ m.pending = loop.pending /\ m.stop = loop.stop
                            /\ UNCHANGED <<storeVars, refused>>
      BY <1>1, <1>4 DEF ApprovalExpires, Abort, Turn, Loop
    <2>2. ASSUME ~poisoned PROVE Agrees(journal, m, running)
      <3>1. TalkAgrees(journal, loop) /\ CallsAgree(journal, loop) /\ CommandsAgree(journal, loop, running)
        BY <1>1, <2>2, UnderWay
      <3>. QED  BY <2>1, <3>1 DEF Agrees, TalkAgrees, CallsAgree, CommandsAgree
    <2>. QED  BY <1>1, <2>1, <2>2 DEF AgreeInv, storeVars
  <1>. QED  BY <1>2, <1>3, <1>4

\* What remains of a batch after its first call.
LEMMA TailIs ==
    ASSUME NEW s \in Seq(Calls), s # <<>>
    PROVE  /\ \A i \in DOMAIN Tail(s) : i + 1 \in DOMAIN s /\ i + 1 > 1 /\ Tail(s)[i] = s[i + 1]
           /\ \A i \in DOMAIN s : i = 1 \/ (i - 1 \in DOMAIN Tail(s) /\ Tail(s)[i - 1] = s[i])
           /\ 1 \in DOMAIN s /\ Head(s) = s[1]
           /\ IsInjective(s) => IsInjective(Tail(s)) /\ \A i \in DOMAIN s : i > 1 => s[i] # Head(s)
  <1>1. /\ \A i \in DOMAIN Tail(s) : i \in Nat /\ i + 1 \in DOMAIN s /\ i + 1 > 1 /\ Tail(s)[i] = s[i + 1]
        /\ \A i \in DOMAIN s : i = 1 \/ (i - 1 \in DOMAIN Tail(s) /\ Tail(s)[i - 1] = s[i])
        /\ 1 \in DOMAIN s /\ Head(s) = s[1]
    OBVIOUS
  <1>2. ASSUME IsInjective(s), NEW i \in DOMAIN Tail(s), NEW j \in DOMAIN Tail(s), Tail(s)[i] = Tail(s)[j]
        PROVE  i = j
    <2>1. i + 1 = j + 1
      BY <1>1, <1>2 DEF IsInjective
    <2>. QED  BY <1>1, <2>1
  <1>3. ASSUME IsInjective(s), NEW i \in DOMAIN s, i > 1 PROVE s[i] # Head(s)
    <2>1. i # 1
      BY <1>3
    <2>. QED  BY <1>1, <1>3, <2>1 DEF IsInjective
  <1>4. IsInjective(s) => IsInjective(Tail(s))
    BY <1>2 DEF IsInjective
  <1>. QED  BY <1>1, <1>3, <1>4

\* What the store demands of the records about a call.
LEMMA CallIsValid ==
    ASSUME NEW j, NEW e, Active(j, e.run),
           \/ e.type = "tool_prepared" /\ Open(j, e.run, e.item) /\ ~Prepared(j, e.run, e.item)
           \/ /\ e.type = "tool_completed" /\ Open(j, e.run, e.item)
              /\ "unknown" \notin Progress(j, e.run, e.item)
              /\ e.how = "completed" =>
                    /\ Prepared(j, e.run, e.item)
                    /\ e.item \in Commands => "running" \in Progress(j, e.run, e.item)
           \/ /\ e.type = "command_lifecycle" /\ e.how = "prepared" /\ Prepared(j, e.run, e.item)
              /\ Progress(j, e.run, e.item) = {} /\ Open(j, e.run, e.item)
           \/ /\ e.type = "command_lifecycle" /\ e.how = "running" /\ Prepared(j, e.run, e.item)
              /\ Progress(j, e.run, e.item) = {"prepared"}
    PROVE  Valid(j, e)
  <1>1. ValidTool(j, e) \/ ValidCommand(j, e)
    BY DEF ValidTool, ValidCommand
  <1>. QED  BY <1>1 DEF Valid

\* The call that the loop is about.
LEMMA CallIs ==
    ASSUME JournalInv, ReplayInv, DoubtInv, AgreeInv, ~At("idle"), ~poisoned, loop.pending # <<>>
    PROVE  LET r == loop.run
           IN  /\ Call \in Calls /\ Open(journal, r, Call)
               /\ loop.pc \in {"batch", "approved"} => ~Prepared(journal, r, Call)
               /\ loop.pc \in {"prepared", "spawning", "executing"} => Prepared(journal, r, Call)
  <1>1. CallsAgree(journal, loop) /\ \A c : Completed(journal, loop.run, c) <=> Done(journal, loop.run, c)
    BY UnderWay
  <1>2. Call \in Calls /\ 1 \in DOMAIN loop.pending /\ loop.pending[1] = Call
    BY LoopIs
  <1>3. Open(journal, loop.run, Call)
    BY <1>1, <1>2 DEF CallsAgree, Open
  <1>4. loop.pc \in {"batch", "approved"} => ~Prepared(journal, loop.run, Call)
    BY <1>1, <1>2 DEF CallsAgree
  <1>5. loop.pc \in {"prepared", "spawning", "executing"} => Prepared(journal, loop.run, Call)
    BY <1>2, LoopIs DEF JournalInv, Sane, World, Preparedness, Call
  <1>. QED  BY <1>2, <1>3, <1>4, <1>5

\* The result of the next call is accepted, and takes the call out of those that wait.
LEMMA AnswerAgrees ==
    ASSUME JournalInv, ReplayInv, DoubtInv, AgreeInv, running' = running, loop.pending # <<>>,
           loop.pc \in {"batch", "approved", "executing", "ending"}, NEW v \in Outcomes,
           v = "completed" => loop.pc = "executing",
           LET e == ByLoop("tool_completed", Call, v) IN Write(e, Answered) \/ WriteIfRoom(e, Answered)
    PROVE  AgreeInv'
  <1> DEFINE r == loop.run
             e == ByLoop("tool_completed", Call, v)
             m == Answered
  <1>1. /\ loop \in Loop /\ Call \in Calls /\ ~At("idle") /\ loop.pending \in Seq(Calls)
        /\ Call = Head(loop.pending)
    BY LoopIs DEF At, Loop, Call
  <1>2. e \in Record /\ e.type = "tool_completed" /\ e.run = r /\ e.item = Call /\ e.how = v
    <2>1. "tool_completed" \in RecordTypes
      BY DEF RecordTypes
    <2>. QED  BY <1>1, <2>1, ByLoopIsRecord DEF At
  <1>3. /\ m.run = r /\ m.pending = Tail(loop.pending) /\ m.stop = loop.stop
        /\ m.pc = IF loop.pc = "ending" THEN "ending" ELSE "batch"
    BY <1>1 DEF Answered, Loop
  <1>4. Write(e, m) \/ WriteIfRoom(e, m)
    OBVIOUS
  <1> HIDE DEF e, m
  <1>5. ASSUME ~poisoned
        PROVE  /\ Valid(journal, e) \/ Doubt
               /\ Agrees(Append(journal, e), m, running)
    <2> DEFINE k == Append(journal, e)
    <2>1. /\ journal \in Seq(Record) /\ Active(journal, r) /\ TalkAgrees(journal, loop)
          /\ CallsAgree(journal, loop) /\ CommandsAgree(journal, loop, running)
      BY <1>1, <1>5, UnderWay
    <2>2. /\ Open(journal, r, Call)
          /\ loop.pc = "executing" => Prepared(journal, r, Call)
      BY <1>1, <1>5, CallIs
    <2>3. Valid(journal, e) \/ Doubt
      <3>1. "unknown" \in Progress(journal, r, Call) => Call \in Commands
        BY <2>1 DEF CommandsAgree
      <3>2. v = "completed" => Prepared(journal, r, Call) /\ (Call \in Commands => "running" \in Progress(journal, r, Call))
        BY <1>1, <2>1, <2>2 DEF CommandsAgree
      <3>3. CASE "unknown" \notin Progress(journal, r, Call)
        BY <1>2, <2>1, <2>2, <3>2, <3>3, CallIsValid
      <3>. QED  BY <3>1, <3>3 DEF Doubt
    <2>5. TalkAgrees(k, m)
      <3>1. TalkAgrees(journal, m)
        BY <1>3, <2>1, TalkMoves DEF Asking, Working
      <3>. QED  BY <1>2, <1>3, <2>1, <3>1, TalkStays
    <2>6. CommandsAgree(k, m, running)
      <3>1. CommandsAgree(journal, m, running)
        BY <1>3, <2>1 DEF CommandsAgree
      <3>. QED  BY <1>2, <2>1, <3>1, CommandsStay
    <2>7. /\ Requested(k, r) = Requested(journal, r)
          /\ \A c : (Prepared(k, r, c) <=> Prepared(journal, r, c)) /\ (Done(k, r, c) <=> Done(journal, r, c) \/ c = Call)
      BY <1>2, <2>1, AppendedRequests, AppendedSays
    <2> HIDE DEF k
    <2>8. CallsAgree(k, m)
      <3> DEFINE s == loop.pending
      <3>1. /\ \A i \in DOMAIN Tail(s) : i + 1 \in DOMAIN s /\ i + 1 > 1 /\ Tail(s)[i] = s[i + 1]
            /\ \A i \in DOMAIN s : i = 1 \/ (i - 1 \in DOMAIN Tail(s) /\ Tail(s)[i - 1] = s[i])
            /\ Call = s[1] /\ IsInjective(Tail(s)) /\ \A i \in DOMAIN s : i > 1 => s[i] # Call
        BY <1>1, <2>1, TailIs DEF CallsAgree
      <3>2. /\ \A c \in Requested(journal, r) : Done(journal, r, c) \/ \E i \in DOMAIN s : s[i] = c
            /\ \A i \in DOMAIN s : s[i] \in Requested(journal, r) /\ ~Done(journal, r, s[i])
                                   /\ (i > 1 => ~Prepared(journal, r, s[i]))
        BY <2>1 DEF CallsAgree
      <3>3. m.pc \in Working \cup {"ending"} /\ m.pending = Tail(s)
        BY <1>3 DEF Working
      <3> HIDE DEF s
      <3>4. \A c \in Requested(k, r) : Done(k, r, c) \/ \E i \in DOMAIN Tail(s) : Tail(s)[i] = c
        <4>1. ASSUME NEW c \in Requested(k, r), NEW i \in DOMAIN s, s[i] = c, ~Done(k, r, c)
              PROVE  \E n \in DOMAIN Tail(s) : Tail(s)[n] = c
          BY <2>7, <3>1, <4>1
        <4>. QED  BY <2>7, <3>2, <4>1
      <3>5. \A i \in DOMAIN Tail(s) : /\ Tail(s)[i] \in Requested(k, r) /\ ~Done(k, r, Tail(s)[i])
                                      /\ ~Prepared(k, r, Tail(s)[i])
        BY <2>7, <3>1, <3>2
      <3>. QED  BY <1>3, <3>1, <3>3, <3>4, <3>5, ZenonT(60) DEF CallsAgree
    <2>. QED  BY <2>3, <2>5, <2>6, <2>8 DEF Agrees, k
  <1>. QED  BY <1>4, <1>5, WriteAgrees

LEMMA AnswersAgree ==
    ASSUME JournalInv, ReplayInv, DoubtInv, AgreeInv, DeclineCall \/ ToolReturns \/ EndPending
    PROVE  AgreeInv'
  <1>1. running' = running /\ {"failed", "denied", "completed", "cancelled", "not_executed"} \subseteq Outcomes
    BY DEF DeclineCall, ToolReturns, EndPending, runVars, Outcomes, Stops
  <1>2. CASE DeclineCall
    <2>1. loop.pc \in {"batch", "approved"} /\ loop.pending # <<>> /\ ~At("idle")
      BY <1>2 DEF DeclineCall, At
    <2>2. CASE Turn(Ending("cancelled"))
      BY <1>1, <2>1, <2>2, EndingAgrees DEF Asking
    <2>3. ASSUME NEW v \in {"failed", "denied"}, Write(ByLoop("tool_completed", Call, v), Answered) PROVE AgreeInv'
      BY <1>1, <2>1, <2>3, AnswerAgrees
    <2>. QED  BY <1>2, <2>2, <2>3 DEF DeclineCall
  <1>3. CASE ToolReturns
    <2>1. loop.pc = "executing" /\ loop.pending # <<>> /\ ~At("idle")
      BY <1>3 DEF ToolReturns, At, JournalInv, Sane
    <2>2. CASE Turn(Ending("recovery_required"))
      BY <1>1, <2>1, <2>2, EndingAgrees DEF Asking
    <2>3. ASSUME NEW v \in {"completed", "failed", "cancelled"}, Write(ByLoop("tool_completed", Call, v), Answered)
          PROVE AgreeInv'
      BY <1>1, <2>1, <2>3, AnswerAgrees
    <2>. QED  BY <1>3, <2>2, <2>3 DEF ToolReturns
  <1>4. CASE EndPending
    <2>1. loop.pc = "ending" /\ loop.pending # <<>>
      BY <1>4 DEF EndPending, Owed, At
    <2>2. PICK v \in {"cancelled", "not_executed"} : Write(ByLoop("tool_completed", Call, v), Answered)
      BY <1>4 DEF EndPending
    <2>. QED  BY <1>1, <2>1, <2>2, AnswerAgrees
  <1>. QED  BY <1>2, <1>3, <1>4

\* The call that is prepared is the first of those that wait, and no other is.
LEMMA PrepareAgrees == ASSUME JournalInv, ReplayInv, DoubtInv, AgreeInv, PrepareCall PROVE AgreeInv'
  <1>1. /\ loop.pc = "approved" /\ running' = running /\ loop.pending # <<>> /\ ~At("idle")
        /\ {"done", "denied"} \subseteq Outcomes /\ "tool_prepared" \in RecordTypes
    BY DEF PrepareCall, At, runVars, JournalInv, Sane, Outcomes, RecordTypes
  <1>2. CASE Turn(Ending("cancelled"))
    BY <1>1, <1>2, EndingAgrees DEF Asking
  <1>3. CASE WriteIfRoom(ByLoop("tool_completed", Call, "denied"), Answered)
    BY <1>1, <1>3, AnswerAgrees
  <1>4. CASE WriteIfRoom(ByLoop("tool_prepared", Call, "done"), Go("prepared"))
    <2> DEFINE r == loop.run
               e == ByLoop("tool_prepared", Call, "done")
               m == Go("prepared")
    <2>1. /\ Call \in Calls /\ loop \in Loop /\ loop.pending \in Seq(Calls) /\ Call = Head(loop.pending)
      BY <1>1, LoopIs DEF Loop, Call
    <2>2. e \in Record /\ e.type = "tool_prepared" /\ e.run = r /\ e.item = Call
      BY <1>1, <2>1, ByLoopIsRecord
    <2>3. m.pc = "prepared" /\ m.run = r /\ m.pending = loop.pending /\ WriteIfRoom(e, m)
      BY <1>4, NextIs
    <2> HIDE DEF e, m
    <2>4. ASSUME ~poisoned PROVE Valid(journal, e) /\ Agrees(Append(journal, e), m, running)
      <3> DEFINE k == Append(journal, e)
      <3>1. /\ journal \in Seq(Record) /\ Active(journal, r) /\ TalkAgrees(journal, loop)
            /\ CallsAgree(journal, loop) /\ CommandsAgree(journal, loop, running)
            /\ Open(journal, r, Call) /\ ~Prepared(journal, r, Call)
        BY <1>1, <2>4, UnderWay, CallIs
      <3>2. Valid(journal, e)
        BY <2>2, <3>1, CallIsValid
      <3>3. TalkAgrees(k, m)
        <4>1. TalkAgrees(journal, m)
          BY <1>1, <2>3, <3>1, TalkMoves DEF Asking, Working
        <4>. QED  BY <2>2, <2>3, <3>1, <4>1, TalkStays
      <3>4. CommandsAgree(k, m, running)
        <4>1. CommandsAgree(journal, m, running)
          BY <1>1, <2>1, <2>3, <3>1 DEF CommandsAgree
        <4>. QED  BY <2>2, <3>1, <4>1, CommandsStay
      <3>5. /\ Requested(k, r) = Requested(journal, r)
            /\ \A c : (Done(k, r, c) <=> Done(journal, r, c)) /\ (Prepared(k, r, c) <=> Prepared(journal, r, c) \/ c = Call)
        BY <2>2, <3>1, AppendedRequests, AppendedSays
      <3> HIDE DEF k
      <3>6. \A i \in DOMAIN loop.pending : i > 1 => loop.pending[i] # Call
        BY <1>1, <2>1, <3>1, TailIs DEF CallsAgree
      <3>7. CallsAgree(k, m)
        BY <2>3, <3>1, <3>5, <3>6 DEF CallsAgree, Working
      <3>. QED  BY <3>2, <3>3, <3>4, <3>7 DEF Agrees, k
    <2>. QED  BY <1>1, <2>3, <2>4, WriteAgrees
  <1>. QED  BY <1>2, <1>3, <1>4 DEF PrepareCall

\* The life of a command begins, and its process with it.
LEMMA CommandAgrees ==
    ASSUME JournalInv, ReplayInv, DoubtInv, AgreeInv, NEW v, NEW m, m.run = loop.run, m.pending = loop.pending,
           Call \in Commands, Write(ByLoop("command_lifecycle", Call, v), m),
           \/ v = "prepared" /\ At("prepared") /\ m.pc = "spawning" /\ running' = running
           \/ v = "running" /\ At("spawning") /\ m.pc = "executing"
              /\ running' = running \cup {<<loop.run, Call>>}
    PROVE  AgreeInv'
  <1> DEFINE r == loop.run
             e == ByLoop("command_lifecycle", Call, v)
  <1>1. /\ loop.pc \in {"prepared", "spawning"} /\ loop.pending # <<>> /\ ~At("idle")
        /\ v \in Outcomes /\ "command_lifecycle" \in RecordTypes
    BY DEF At, JournalInv, Sane, Outcomes, RecordTypes
  <1>2. Call \in Calls /\ loop \in Loop
    BY <1>1, LoopIs
  <1>3. e \in Record /\ e.type = "command_lifecycle" /\ e.run = r /\ e.item = Call /\ e.how = v
    BY <1>1, <1>2, ByLoopIsRecord
  <1>4. Write(e, m)
    OBVIOUS
  <1> HIDE DEF e
  <1>5. ASSUME ~poisoned PROVE Valid(journal, e) /\ Agrees(Append(journal, e), m, running')
    <2> DEFINE k == Append(journal, e)
    <2>1. /\ journal \in Seq(Record) /\ Active(journal, r) /\ TalkAgrees(journal, loop)
          /\ CallsAgree(journal, loop) /\ CommandsAgree(journal, loop, running)
          /\ Open(journal, r, Call) /\ Prepared(journal, r, Call)
      BY <1>1, <1>5, UnderWay, CallIs
    <2>2. Progress(journal, r, Call) = IF At("prepared") THEN {} ELSE {"prepared"}
      BY <1>1, <2>1 DEF CommandsAgree, Call, At
    <2>3. Valid(journal, e)
      BY <1>3, <2>1, <2>2, CallIsValid DEF At
    <2>4. TalkAgrees(k, m)
      <3>1. TalkAgrees(journal, m)
        BY <1>1, <2>1, TalkMoves DEF Asking, Working
      <3>. QED  BY <1>3, <2>1, <3>1, TalkStays
    <2>5. CallsAgree(k, m)
      <3>1. CallsAgree(journal, m)
        BY <1>1, <2>1, CallsMove DEF Working
      <3>. QED  BY <1>3, <2>1, <3>1, CallsStay
    <2>6. \A c : /\ c # Call => Progress(k, r, c) = Progress(journal, r, c)
                 /\ Progress(k, r, Call) = Progress(journal, r, Call) \cup {v}
                 /\ Prepared(k, r, c) <=> Prepared(journal, r, c)
      <3>1. ASSUME NEW c PROVE Prepared(k, r, c) <=> Prepared(journal, r, c)
        BY <1>3, <2>1, AppendedSays
      <3>2. ASSUME NEW c, c # Call PROVE Progress(k, r, c) = Progress(journal, r, c)
        <4>1. Progress(k, r, c) = Progress(journal, r, c)
                \cup (IF e.type = "command_lifecycle" /\ e.run = r /\ e.item = c THEN {e.how} ELSE {})
          BY <2>1, <1>3, AppendedProgress
        <4> HIDE DEF k
        <4>. QED  BY <1>3, <3>2, <4>1
      <3>3. Progress(k, r, Call) = Progress(journal, r, Call) \cup {v}
        <4>1. Progress(k, r, Call) = Progress(journal, r, Call)
                \cup (IF e.type = "command_lifecycle" /\ e.run = r /\ e.item = Call THEN {e.how} ELSE {})
          BY <2>1, <1>3, AppendedProgress
        <4> HIDE DEF k
        <4>. QED  BY <1>3, <4>1
      <3>. QED  BY <3>1, <3>2, <3>3
    <2> HIDE DEF k
    <2>7. CommandsAgree(k, m, running')
      <3>1. \A c : Progress(k, r, c) # {} => c \in Commands /\ Prepared(k, r, c)
        BY <2>1, <2>6 DEF CommandsAgree
      <3>2. /\ m.pc = "spawning" => Progress(k, r, Call) = {"prepared"}
            /\ m.pc = "executing" => "running" \in Progress(k, r, Call)
            /\ m.pc # "prepared"
        BY <2>2, <2>6 DEF At
      <3>3. ASSUME NEW c \in Commands, Uncertain(k, r, c), "unknown" \notin Progress(k, r, c)
            PROVE  <<r, c>> \in running' \/ (m.pc = "spawning" /\ c = Call)
        <4>1. CASE c = Call
          BY <4>1 DEF At
        <4>2. CASE c # Call
          BY <1>1, <2>1, <2>6, <3>3, <4>2 DEF CommandsAgree, Uncertain, Call
        <4>. QED  BY <4>1, <4>2
      <3>. QED  BY <3>1, <3>2, <3>3 DEF CommandsAgree, Call
    <2>. QED  BY <2>3, <2>4, <2>5, <2>7 DEF Agrees, k
  <1>. QED  BY <1>4, <1>5, WriteAgrees

LEMMA ExecuteAgrees ==
    ASSUME JournalInv, ReplayInv, DoubtInv, AgreeInv, ExecuteCall \/ SpawnCommand
    PROVE  AgreeInv'
  <1>1. loop.pc \in {"prepared", "spawning"} /\ ~At("idle") /\ loop.pending # <<>>
    BY DEF ExecuteCall, SpawnCommand, At, JournalInv, Sane
  <1>2. \A p : LET m == Go(p) IN m.pc = p /\ m.run = loop.run /\ m.pending = loop.pending /\ m.stop = loop.stop
    BY NextIs
  <1>3. CASE ExecuteCall
    <2>1. loop.pc = "prepared" /\ running' = running
      BY <1>3 DEF ExecuteCall, At, runVars
    <2>2. CASE Turn(Ending("cancelled"))
      BY <1>1, <2>1, <2>2, EndingAgrees DEF Asking
    <2>3. CASE Call \in Commands /\ Write(ByLoop("command_lifecycle", Call, "prepared"), Go("spawning"))
      BY <1>2, <2>1, <2>3, CommandAgrees DEF At
    <2>4. CASE Call \notin Commands /\ Turn(Go("executing"))
      <3> DEFINE m == Go("executing")
      <3>1. m.pc = "executing" /\ m.run = loop.run /\ m.pending = loop.pending /\ m.stop = loop.stop /\ Turn(m)
        BY <1>2, <2>4
      <3> HIDE DEF m
      <3>2. ASSUME ~poisoned PROVE Agrees(journal, m, running)
        <4>1. TalkAgrees(journal, loop) /\ CallsAgree(journal, loop) /\ CommandsAgree(journal, loop, running)
          BY <1>1, <3>2, UnderWay
        <4>2. TalkAgrees(journal, m)
          BY <2>1, <3>1, <4>1, TalkMoves DEF Asking, Working
        <4>3. CallsAgree(journal, m)
          BY <2>1, <3>1, <4>1, CallsMove DEF Working
        <4>4. CommandsAgree(journal, m, running)
          BY <2>1, <2>4, <3>1, <4>1, CommandsMove DEF Call
        <4>. QED  BY <4>2, <4>3, <4>4 DEF Agrees
      <3>. QED  BY <2>1, <3>1, <3>2, TurnAgrees
    <2>. QED  BY <1>3, <2>2, <2>3, <2>4 DEF ExecuteCall
  <1>4. CASE SpawnCommand
    <2>1. /\ At("spawning") /\ running' = running \cup {<<loop.run, Call>>}
          /\ Write(ByLoop("command_lifecycle", Call, "running"), Go("executing"))
      BY <1>4 DEF SpawnCommand
    <2>2. Call \in Commands
      BY <2>1 DEF DoubtInv, Begun, At, Call
    <2>. QED  BY <1>2, <2>1, <2>2, CommandAgrees
  <1>. QED  BY <1>3, <1>4

\* A run ends with every call answered and its commands gone, or says what is in doubt.
LEMMA FinishAgrees == ASSUME JournalInv, ReplayInv, DoubtInv, AgreeInv, Finish PROVE AgreeInv'
  <1> DEFINE r == loop.run
             e == ByLoop("run_finished", NONE, loop.stop)
  <1>1. /\ loop.pc = "ending" /\ ~At("idle") /\ running' = running /\ Quiet.pc = "idle"
        /\ loop.pending = <<>> \/ loop.stop = "recovery_required"
    BY DEF Finish, Owed, At, Quiet
  <1>2. CASE Turn(Quiet)
    BY <1>1, <1>2, TurnAgrees
  <1>3. CASE /\ \A c \in Commands : <<r, c>> \notin running
             /\ Write(e, Quiet)
    <2>1. e.type = "run_finished" /\ e.run = r /\ e.how = loop.stop
      BY DEF ByLoop, Rec
    <2>2. Write(e, Quiet)
      BY <1>3
    <2> HIDE DEF e
    <2>3. ASSUME ~poisoned PROVE Valid(journal, e) \/ Doubt
      <3>1. /\ journal \in Seq(Record) /\ Active(journal, r) /\ TalkAgrees(journal, loop)
            /\ ~ModelPending(journal, r) /\ ~SummaryPending(journal, r)
        BY <1>1, <2>3, TalkIs DEF Asking
      <3>2. /\ CallsAgree(journal, loop) /\ CommandsAgree(journal, loop, running)
            /\ \A c : Completed(journal, r, c) <=> Done(journal, r, c)
        BY <1>1, <2>3, UnderWay
      <3>3. ASSUME loop.stop # "recovery_required", Unresolved(journal, r) PROVE Doubt
        <4>1. \A c \in Requested(journal, r) : Completed(journal, r, c)
          BY <1>1, <3>2, <3>3 DEF CallsAgree
        <4>2. PICK c \in Requested(journal, r) : Uncertain(journal, r, c)
          BY <3>1, <3>3, <4>1 DEF Unresolved
        <4>3. c \in Commands
          BY <3>2, <4>2 DEF CommandsAgree, Uncertain
        <4>. QED  BY <1>1, <1>3, <3>2, <4>2, <4>3 DEF CommandsAgree, Doubt
      <3>4. loop.stop = "completed" => Outcome(journal, r) = "model_response" /\ Boundary(journal, r) = "model_response"
        BY <1>1, <3>1 DEF TalkAgrees
      <3>5. Doubt \/ ValidEnd(journal, e)
        BY <2>1, <3>3, <3>4 DEF ValidEnd
      <3>. QED  BY <2>1, <3>1, <3>5 DEF Valid
    <2>. QED  BY <1>1, <2>2, <2>3, WriteAgrees
  <1>. QED  BY <1>2, <1>3 DEF Finish

LEMMA LoopAgrees ==
    ASSUME JournalInv, ReplayInv, DoubtInv, AgreeInv, LoopStep \/ Abort \/ ApprovalExpires
    PROVE  AgreeInv'
  BY RequestAgrees, DiagnosisAgrees, FailureAgrees, ResponseAgrees, JudgeAgrees, SummaryAgrees, PauseAgrees,
     AnswersAgree, PrepareAgrees, ExecuteAgrees, FinishAgrees DEF LoopStep

\* Beside its startup nothing is on record of a run that has not started.
LEMMA UnstartedIs ==
    ASSUME NEW j \in Seq(Record), Replays(j), NEW r, ~Started(j, r),
           NEW t \in {"model_request_started", "model_request_failed", "model_response", "completion_rejected",
                      "summary_attempted", "summary_settled", "tool_prepared", "tool_completed",
                      "command_lifecycle"}
    PROVE  Of(j, t, r) = {}
  <1> SUFFICES ASSUME NEW i \in Of(j, t, r) PROVE FALSE
    OBVIOUS
  <1> DEFINE p == SubSeq(j, 1, i - 1)
  <1>1. /\ i \in DOMAIN j /\ i > 1 /\ j[i].type = t /\ j[i].run = r /\ Valid(p, j[i])
    BY WasAccepted
  <1>2. Of(p, "run_started", r) = {n \in Of(j, "run_started", r) : n < i}
    BY <1>1, PrefixSays
  <1> HIDE DEF p
  <1>3. Active(p, r)
    BY <1>1 DEF Valid, ValidLife
  <1>. QED  BY <1>2, <1>3 DEF Active, Started

\* A run begins with nothing asked for.
LEMMA FreshAgrees ==
    ASSUME NEW j \in Seq(Record), Replays(j), NEW e \in Record, e.type = "run_started", ~Started(j, e.run),
           NEW run
    PROVE  Agrees(Append(j, e), [Quiet EXCEPT !.pc = "turn", !.run = e.run], run)
  <1> DEFINE k == Append(j, e)
             r == e.run
             m == [Quiet EXCEPT !.pc = "turn", !.run = r]
             types == {"model_request_started", "model_request_failed", "model_response", "completion_rejected",
                       "summary_attempted", "summary_settled", "tool_prepared", "tool_completed",
                       "command_lifecycle"}
  <1>1. m.pc = "turn" /\ m.run = r /\ m.pending = <<>> /\ m.stop = "none"
    BY DEF Quiet
  <1>2. \A t \in types : Of(k, t, r) = {}
    <2>1. ASSUME NEW t \in types PROVE Of(k, t, r) = {}
      <3>1. Of(j, t, r) = {}
        BY UnstartedIs
      <3>. QED  BY <3>1, AppendedOf
    <2>. QED  BY <2>1
  <1> HIDE DEF k, m
  <1>3. Cardinality({}) = 0
    BY FS_EmptySet
  <1>4. /\ Responses(k, r) = {} /\ Failures(k, r) = {} /\ Answers(k, r) = {} /\ Attempts(k, r) = 0
        /\ Requested(k, r) = {} /\ Outcome(k, r) = "none" /\ ~SummaryPending(k, r)
        /\ \A c : Progress(k, r, c) = {}
    BY <1>2, <1>3 DEF Responses, Failures, Answers, Attempts, Requested, Outcome, LastType, SummaryPending,
         Progress, About
  <1>5. TalkAgrees(k, m)
    BY <1>1, <1>2, <1>3, <1>4 DEF TalkAgrees, Asking
  <1>6. CallsAgree(k, m)
    <2>1. DOMAIN <<>> = {} /\ IsInjective(<<>>)
      BY DEF IsInjective
    <2>. QED  BY <1>1, <1>4, <2>1 DEF CallsAgree
  <1>7. CommandsAgree(k, m, run)
    BY <1>1, <1>4 DEF CommandsAgree, Uncertain
  <1>. QED  BY <1>5, <1>6, <1>7 DEF Agrees, k, m

LEMMA BeginAgrees ==
    ASSUME JournalInv, ReplayInv, DoubtInv, AgreeInv, NEW h \in Hosts, NEW r \in Runs, BeginRun(h, r)
    PROVE  AgreeInv'
  <1> DEFINE e == Rec("run_started", r, NONE, "done")
             m == [Quiet EXCEPT !.pc = "turn", !.run = r]
  <1>1. CASE UNCHANGED <<loop, refused>>
    BY <1>1 DEF BeginRun, AgreeInv, At
  <1>2. CASE ~Started(journal, r) /\ Accepts(e) /\ Write(e, m) /\ UNCHANGED runVars
    <2>1. e \in Record /\ e.type = "run_started" /\ e.run = r
      BY DEF Rec, Record, RecordTypes, Outcomes
    <2>2. journal \in Seq(Record) /\ Replays(journal) /\ running' = running
      BY <1>2, LoopIs DEF ReplayInv, runVars
    <2>3. Valid(journal, e) /\ Write(e, m)
      BY <1>2 DEF Accepts
    <2> HIDE DEF e
    <2>4. Agrees(Append(journal, e), m, running')
      BY <1>2, <2>1, <2>2, FreshAgrees
    <2> HIDE DEF m
    <2>. QED  BY <2>3, <2>4, WriteAgrees
  <1>. QED  BY <1>1, <1>2 DEF BeginRun

\* The room for the end of a command was kept.
LEMMA EndHasRoom ==
    ASSUME NEW j \in Seq(Record), Fits(j), NEW e \in Record, e.type = "command_lifecycle", e.how = "finished",
           e.run \in Runs, e.item \in Commands, Active(j, e.run), Progress(j, e.run, e.item) # {},
           Progress(j, e.run, e.item) \cap {"finished", "unknown"} = {}
    PROVE  Fits(Append(j, e))
  <1> DEFINE k == Append(j, e)
             owed == <<e.run, e.item, "finished">>
  <1>1. ASSUME NEW q, NEW c
        PROVE  /\ Progress(k, q, c) = IF q = e.run /\ c = e.item THEN Progress(j, q, c) \cup {"finished"}
                                      ELSE Progress(j, q, c)
               /\ Completed(k, q, c) <=> Completed(j, q, c)
               /\ Active(k, q) <=> Active(j, q)
    <2>1. Progress(k, q, c) = Progress(j, q, c)
             \cup (IF e.type = "command_lifecycle" /\ e.run = q /\ e.item = c THEN {e.how} ELSE {})
      BY AppendedProgress
    <2>2. /\ Done(k, q, c) <=> Done(j, q, c)
          /\ Requested(k, q) = Requested(j, q) /\ (Resolved(k, q) <=> Resolved(j, q))
          /\ Active(k, q) <=> Active(j, q)
      BY AppendedSays, AppendedRequests, AppendedLife DEF Active
    <2> HIDE DEF k
    <2>. QED  BY <2>1, <2>2 DEF Completed, Done
  <1>2. ASSUME NEW q PROVE RequestDue(k, q) = RequestDue(j, q)
    <2>1. \A t : t # "command_lifecycle" => Of(k, t, q) = Of(j, t, q) /\ Of(j, t, q) \subseteq DOMAIN j
      <3>1. DOMAIN k = DOMAIN j \cup {Len(j) + 1} /\ k[Len(j) + 1] = e
            /\ \A i \in DOMAIN j : k[i] = j[i]
        BY Appended
      <3> HIDE DEF k
      <3>. QED  BY <3>1 DEF Of
    <2>2. LastHow(k, Of(j, "model_request_diagnostic", q)) = LastHow(j, Of(j, "model_request_diagnostic", q))
      BY <2>1, AppendedLast, ZenonT(60)
    <2> HIDE DEF k
    <2>3. DiagnosticReserve(k, q) = DiagnosticReserve(j, q)
      BY <2>1, <2>2 DEF DiagnosticReserve
    <2>4. /\ Responses(k, q) = Responses(j, q) /\ Failures(k, q) = Failures(j, q)
          /\ Of(k, "model_request_started", q) = Of(j, "model_request_started", q)
          /\ Of(k, "summary_attempted", q) = Of(j, "summary_attempted", q)
          /\ Of(k, "summary_settled", q) = Of(j, "summary_settled", q)
      BY <2>1 DEF Responses, Failures
    <2>5. /\ ModelPending(k, q) <=> ModelPending(j, q)
          /\ SummaryPending(k, q) <=> SummaryPending(j, q)
          /\ Attempts(k, q) = Attempts(j, q)
      BY <2>4 DEF ModelPending, SummaryPending, Attempts
    <2>. QED  BY <2>3, <2>4, <2>5 DEF RequestDue
  <1>3. k \in Seq(Record) /\ Len(k) = Len(j) + 1 /\ Len(j) \in Nat
    OBVIOUS
  <1> HIDE DEF k
  <1>4. RequestReserve(k) = RequestReserve(j) /\ RequestReserve(j) \in Nat
    <2>1. RequestsDue(k) = RequestsDue(j)
      <3>1. /\ RequestsDue(k) = {d \in Runs \X (1..5) : Active(k, d[1]) /\ d[2] <= RequestDue(k, d[1])}
            /\ RequestsDue(j) = {d \in Runs \X (1..5) : Active(j, d[1]) /\ d[2] <= RequestDue(j, d[1])}
        BY RequestsDueIs
      <3>2. \A d : /\ Active(k, d[1]) <=> Active(j, d[1])
                   /\ RequestDue(k, d[1]) = RequestDue(j, d[1])
        BY <1>1, <1>2
      <3>. QED  BY <3>1, <3>2
    <2>. QED  BY <2>1, DueIsFinite, FS_CardinalityType DEF RequestReserve
  <1>5. ASSUME NEW q, NEW c PROVE OwedFor(k, q, c) \subseteq OwedFor(j, q, c)
    <2>1. CASE q = e.run /\ c = e.item
      BY <1>1, <2>1 DEF OwedFor
    <2>2. CASE ~(q = e.run /\ c = e.item)
      BY <1>1, <2>2 DEF OwedFor
    <2>. QED  BY <2>1, <2>2
  <1>6. "finished" \in OwedFor(j, e.run, e.item) /\ "finished" \notin OwedFor(k, e.run, e.item)
    BY <1>1 DEF OwedFor
  <1>7. CommandsDue(k) \subseteq CommandsDue(j) \ {owed} /\ owed \in CommandsDue(j)
    <2>1. CommandsDue(k) \subseteq CommandsDue(j)
      BY <1>1, <1>5 DEF CommandsDue
    <2>2. owed \in CommandsDue(j) /\ owed \notin CommandsDue(k)
      BY <1>6 DEF CommandsDue
    <2>. QED  BY <2>1, <2>2
  <1>8. CommandReserve(k) + 1 <= CommandReserve(j) /\ CommandReserve(k) \in Nat /\ CommandReserve(j) \in Nat
    <2> DEFINE dj == CommandsDue(j)
               dk == CommandsDue(k)
               oj == {d[1] : d \in dj}
               ok == {d[1] : d \in dk}
    <2>1. IsFiniteSet(dj) /\ IsFiniteSet(oj) /\ IsFiniteSet(dk) /\ IsFiniteSet(ok)
      BY <1>3, DueIsFinite
    <2>2. dk \subseteq dj \ {owed} /\ owed \in dj /\ ok \subseteq oj
      BY <1>7
    <2>3. CommandReserve(j) = Cardinality(dj) + Cardinality(oj) /\ CommandReserve(k) = Cardinality(dk) + Cardinality(ok)
      BY DEF CommandReserve
    <2> HIDE DEF dj, dk, oj, ok, owed
    <2>4. Cardinality(ok) <= Cardinality(oj)
      BY <2>1, <2>2, FS_Subset
    <2>5. IsFiniteSet(dj \ {owed}) /\ Cardinality(dj \ {owed}) = Cardinality(dj) - 1
      BY <2>1, <2>2, FS_RemoveElement
    <2>6. Cardinality(dk) <= Cardinality(dj \ {owed})
      BY <2>2, <2>5, FS_Subset
    <2>7. Cardinality(dj) \in Nat /\ Cardinality(dk) \in Nat /\ Cardinality(oj) \in Nat /\ Cardinality(ok) \in Nat
      BY <2>1, FS_CardinalityType
    <2>. QED  BY <2>3, <2>4, <2>5, <2>6, <2>7
  <1>9. Fits(k)
    BY <1>3, <1>4, <1>8, StoreConstants DEF Fits
  <1>. QED  BY <1>9 DEF k

\* The end of a command is accepted while the run of the command is under way.
LEMMA EndsAgrees ==
    ASSUME JournalInv, ReplayInv, DoubtInv, AgreeInv, Fits(journal),
           NEW h \in Hosts, NEW r \in Runs, NEW c \in Commands, CommandEnds(h, r, c)
    PROVE  AgreeInv'
  <1>1. PICK v \in {"finished", "unknown"} :
          LET e == Rec("command_lifecycle", r, c, v)
          IN  /\ v = "unknown" => Accepts(e)
              /\ running' = IF v = "finished" THEN running \ {<<r, c>>} ELSE running
              /\ \/ Accepts(e) /\ (Land(e) \/ Break(e))
                 \/ ~Accepts(e) /\ UNCHANGED <<journal, torn, poisoned>>
    BY DEF CommandEnds
  <1> DEFINE e == Rec("command_lifecycle", r, c, v)
             q == loop.run
  <1>2. e \in Record /\ e.type = "command_lifecycle" /\ e.run = r /\ e.item = c /\ e.how = v
    <2>1. "command_lifecycle" \in RecordTypes /\ v \in Outcomes /\ c \in Calls
      BY StoreConstants DEF RecordTypes, Outcomes
    <2>. QED  BY <2>1 DEF Rec, Record
  <1>3. /\ v = "unknown" => Accepts(e)
        /\ running' = IF v = "finished" THEN running \ {<<r, c>>} ELSE running
        /\ \/ Accepts(e) /\ journal' = Append(journal, e) /\ poisoned' = poisoned
           \/ poisoned' = TRUE
           \/ ~Accepts(e) /\ UNCHANGED <<journal, poisoned>>
    BY <1>1 DEF Land, Break
  <1>4. UNCHANGED <<loop, refused>> /\ <<r, c>> \in running
    BY DEF CommandEnds
  <1> HIDE DEF e
  <1>5. ASSUME ~At("idle"), ~poisoned' PROVE Agrees(journal', loop, running')
    <2>1. ~poisoned
      BY <1>3, <1>5
    <2>2. /\ journal \in Seq(Record) /\ Active(journal, q) /\ q \in Runs /\ LivesInOrder(journal)
          /\ TalkAgrees(journal, loop) /\ CallsAgree(journal, loop) /\ CommandsAgree(journal, loop, running)
      BY <1>5, <2>1, UnderWay, LivesInOrderHolds
    <2>3. effects[<<r, c>>] = 1 /\ "prepared" \in Progress(journal, r, c) /\ "finished" \notin Progress(journal, r, c)
      BY <1>4 DEF DoubtInv, Watched
    <2>4. CASE Accepts(e) /\ journal' = Append(journal, e)
      <3> DEFINE k == Append(journal, e)
      <3>1. r = q
        <4>1. Active(journal, r)
          BY <1>2, <2>4 DEF Accepts, Valid, ValidLife
        <4>. QED  BY <2>2, <4>1 DEF LivesInOrder
      <3>2. TalkAgrees(k, loop) /\ CallsAgree(k, loop)
        BY <1>2, <2>2, <3>1, TalkStays, CallsStay
      <3>3. ASSUME NEW d
            PROVE  /\ Progress(k, q, d) = IF d = c THEN Progress(journal, q, d) \cup {v} ELSE Progress(journal, q, d)
                   /\ Prepared(k, q, d) <=> Prepared(journal, q, d)
        <4>1. Progress(k, q, d) = Progress(journal, q, d)
                 \cup (IF e.type = "command_lifecycle" /\ e.run = q /\ e.item = d THEN {e.how} ELSE {})
          BY <1>2, <2>2, AppendedProgress
        <4>2. Prepared(k, q, d) <=> Prepared(journal, q, d)
          BY <1>2, <2>2, AppendedSays
        <4> HIDE DEF k
        <4>. QED  BY <1>2, <3>1, <4>1, <4>2
      <3>4. loop.pc \in {"prepared", "spawning"} => Head(loop.pending) # c
        BY <2>3, <3>1 DEF JournalInv, Sane
      <3> HIDE DEF k
      <3>5. CommandsAgree(k, loop, running')
        <4>1. \A d : Progress(k, q, d) # {} => d \in Commands /\ Prepared(k, q, d)
          BY <2>2, <2>3, <3>1, <3>3 DEF CommandsAgree
        <4>2. /\ loop.pc = "prepared" => Progress(k, q, Head(loop.pending)) = {}
              /\ loop.pc = "spawning" => Progress(k, q, Head(loop.pending)) = {"prepared"}
              /\ loop.pc = "executing" /\ Head(loop.pending) \in Commands =>
                    "running" \in Progress(k, q, Head(loop.pending))
          BY <2>2, <3>3, <3>4 DEF CommandsAgree
        <4>3. ASSUME NEW d \in Commands, Uncertain(k, q, d), "unknown" \notin Progress(k, q, d)
              PROVE  <<q, d>> \in running' \/ (loop.pc = "spawning" /\ d = Head(loop.pending))
          <5>1. d # c
            BY <3>3, <4>3 DEF Uncertain
          <5>2. <<q, d>> \in running \/ (loop.pc = "spawning" /\ d = Head(loop.pending))
            BY <2>2, <3>3, <4>3, <5>1 DEF CommandsAgree, Uncertain
          <5>. QED  BY <1>3, <5>1, <5>2
        <4>. QED  BY <4>1, <4>2, <4>3 DEF CommandsAgree
      <3>. QED  BY <2>4, <3>2, <3>5 DEF Agrees, k
    <2>5. CASE ~Accepts(e) /\ UNCHANGED <<journal, poisoned>>
      <3>1. v = "finished" /\ running' = running \ {<<r, c>>}
        BY <1>3, <2>5
      <3>2. CASE r = q /\ "unknown" \notin Progress(journal, r, c)
        <4>1. Valid(journal, e)
          <5>1. ValidCommand(journal, e)
            BY <1>2, <2>2, <2>3, <3>1, <3>2 DEF CommandsAgree, ValidCommand
          <5>. QED  BY <1>2, <2>2, <3>2, <5>1 DEF Valid
        <4>2. Fits(Append(journal, e))
          BY <1>2, <2>2, <2>3, <3>1, <3>2, EndHasRoom
        <4>3. Accepts(e)
          BY <1>2, <2>1, <4>1, <4>2 DEF Accepts, Room
        <4>. QED  BY <2>5, <4>3
      <3>3. CASE r # q \/ "unknown" \in Progress(journal, r, c)
        <4>1. CommandsAgree(journal, loop, running')
          BY <2>2, <3>1, <3>3 DEF CommandsAgree
        <4>. QED  BY <2>2, <2>5, <4>1 DEF Agrees
      <3>. QED  BY <3>2, <3>3
    <2>. QED  BY <1>3, <1>5, <2>4, <2>5
  <1>. QED  BY <1>4, <1>5 DEF AgreeInv, At

\* Beside a run the other processes keep away from the journal and the writer.
LEMMA HostAgrees ==
    ASSUME LockInv, JournalInv, ReplayInv, DoubtInv, AgreeInv, Fits(journal), NEW h \in Hosts, HostStep(h)
    PROVE  AgreeInv'
  <1>1. ASSUME At("idle"), UNCHANGED <<loop, refused>> PROVE AgreeInv'
    BY <1>1 DEF AgreeInv, At
  <1>2. ASSUME UNCHANGED <<journal, poisoned, loop, running, refused>> PROVE AgreeInv'
    BY <1>2 DEF AgreeInv, At
  <1>3. CASE (CreateLock(h) \/ WriteLock(h) \/ ContendLock(h) \/ ProbeOwner(h) \/ ReclaimLock(h)) /\ Beside
    BY <1>2, <1>3 DEF CreateLock, WriteLock, ContendLock, ProbeOwner, ReclaimLock, diskVars, Beside, runVars
  <1>4. CASE Load(h) /\ Beside
    <2>1. \A g \in Hosts : host[g] # "writer"
      BY <1>4 DEF Load, LockInv
    <2>2. At("idle")
      BY <2>1 DEF DoubtInv, LoopIsServed
    <2>. QED  BY <1>1, <1>4, <2>2 DEF Beside
  <1>5. CASE /\ At("idle") /\ Beside
             /\ Close(h) \/ \E r \in Runs : PrepareStartup(h, r) \/ CloseStartup(h, r) \/ ResolveRecovery(h, r)
    BY <1>1, <1>5 DEF Beside
  <1>6. CASE Die(h) /\ loop' = (IF host[h] = "writer" THEN Quiet ELSE loop) /\ UNCHANGED <<runVars, refused>>
    <2>1. CASE host[h] = "writer"
      BY <1>6, <2>1 DEF AgreeInv, At, Quiet
    <2>2. CASE host[h] # "writer"
      BY <1>2, <1>6, <2>2 DEF Die, diskVars, runVars
    <2>. QED  BY <2>1, <2>2
  <1>. QED  BY <1>3, <1>4, <1>5, <1>6, BeginAgrees, EndsAgrees DEF HostStep

LEMMA AgreeInvNext ==
    ASSUME LockInv, JournalInv, ReplayInv, DoubtInv, Fits(journal), AgreeInv, [Next]_vars
    PROVE  AgreeInv'
  <1>1. CASE UNCHANGED vars
    BY <1>1 DEF vars, storeVars, runVars, AgreeInv, At
  <1>. QED  BY <1>1, LoopAgrees, HostAgrees DEF Next

LEMMA AgreeInvHolds == Spec => []AgreeInv
  <1>1. Init => AgreeInv
    BY DEF Init, AgreeInv, At, Quiet
  <1>. QED  BY <1>1, AgreeInvNext, FitsHolds, LockInvHolds, JournalInvHolds, ReplayInvHolds, DoubtInvHolds, PTL DEF Spec

\* The loop can always write what it has to.  runAgent is served by a writer whose journal
\* has its run as active; validateEvent refuses none of the records that it writes, but for
\* those of a run with a command in doubt; and commit has kept the room for the outcome of
\* what is under way and for the end of the run and of its commands.
THEOREM TheLoopIsAccepted == Spec => []LoopIsAccepted
  <1>1. ASSUME JournalInv, DoubtInv, AgreeInv, Fits(journal) PROVE LoopIsAccepted
    <2>1. journal \in Seq(Record) /\ LoopIsServed /\ ~refused
      BY <1>1, LoopIs DEF DoubtInv, AgreeInv
    <2>. QED  BY <1>1, <2>1, RoomIsThere DEF LoopIsAccepted
  <1>. QED  BY <1>1, AgreeInvHolds, FitsHolds, JournalInvHolds, DoubtInvHolds, PTL
=============================================================================
