------------------------ MODULE SessionServiceProofs ------------------------
(***************************************************************************)
(* What TLAPS proves of the coordinator of directories and of the session  *)
(* service, for any sessions, directories, links and worktrees, any stops, *)
(* failures and maintenance: the leases of the coordinator, the leases and *)
(* processes of the service, and the life of its sessions.                 *)
(***************************************************************************)
EXTENDS SessionService, FiniteSetTheorems, TLAPS

-----------------------------------------------------------------------------
(* The coordinator's leases.                                               *)

\* What acquire hands out is of this session and provider and covers these
\* roots, whether it is the lease the session already holds or a new one.
LEMMA GrantedIs ==
    ASSUME NEW token \in Tokens, NEW session \in SessionIds, NEW provider \in Providers,
           NEW generation \in Generations, NEW roots \in SUBSET Directories,
           LeasesTypeOK, MayAcquire(session, provider, roots)
    PROVE  LET g == Granted(token, session, provider, generation, roots)
           IN  /\ g \in Lease /\ g.session = session
               /\ g.provider = provider /\ g.roots = roots
               /\ g \in leases \/ g.token = token
  <1> DEFINE same == {l \in HeldBy(session) : l.generation = generation}
             g == Granted(token, session, provider, generation, roots)
  <1>1. CASE same # {}
    <2>1. g = CHOOSE l \in same : TRUE
      BY <1>1 DEF Granted
    <2>2. g \in same
      BY <1>1, <2>1
    <2>3. g \in HeldBy(session)
      BY <2>2
    <2>4. g \in leases /\ g.session = session
      BY <2>3 DEF HeldBy
    <2>5. g.provider = provider /\ g.roots = roots
      BY <2>3 DEF MayAcquire
    <2>. QED  BY <2>4, <2>5 DEF LeasesTypeOK
  <1>2. CASE same = {}
    <2>1. g = [token |-> token, session |-> session, provider |-> provider,
               generation |-> generation, roots |-> roots]
      BY <1>2 DEF Granted
    <2>. QED  BY <2>1 DEF Lease
  <1>. QED  BY <1>1, <1>2

\* Overlap does not depend on the order of the two sets of directories.
LEMMA OverlapIsSymmetric ==
    ASSUME NEW these, NEW those, RootsOverlap(these, those)
    PROVE  RootsOverlap(those, these)
  BY DEF RootsOverlap, directoriesOverlap

\* Canonical directories of any paths are directories.
LEMMA CanonicalRootsAreDirectories ==
    ASSUME NEW paths \in SUBSET Paths
    PROVE  CanonicalRoots(paths) \in SUBSET Directories
  BY PathsAssumption DEF CanonicalRoots

\* The inductive invariant: exclusion needs the types (what acquire hands out
\* has the fields of a lease) and nothing else.
LeasesInv == LeasesTypeOK /\ LeasesExclusive

LEMMA LeasesInvInit == LeasesInit => LeasesInv
  BY DEF LeasesInit, LeasesInv, LeasesTypeOK, LeasesExclusive

\* What one successful acquire does to the invariant.  This is the lemma a
\* component that drives the coordinator needs.
LEMMA AcquireKeepsInv ==
    ASSUME LeasesInv,
           NEW token \in Tokens, token \notin {l.token : l \in leases},
           NEW session \in SessionIds, NEW provider \in Providers,
           NEW generation \in Generations, NEW roots \in SUBSET Directories,
           acquire(token, session, provider, generation, roots)
    PROVE  LeasesInv'
  <1> DEFINE g == Granted(token, session, provider, generation, roots)
  <1>1. MayAcquire(session, provider, roots)
    BY DEF acquire
  <1>2. leases' = (leases \ HeldBy(session)) \cup {g}
    BY DEF acquire
  <1>3. /\ g \in Lease /\ g.session = session /\ g.provider = provider /\ g.roots = roots
        /\ g \in leases \/ g.token = token
    BY <1>1, GrantedIs DEF LeasesInv
  <1> HIDE DEF g
  <1>4. \A l \in leases \ HeldBy(session) :
            l \in leases /\ l.session # session /\ ~RootsOverlap(g.roots, l.roots)
    BY <1>1, <1>3 DEF MayAcquire, conflicts, HeldBy
  <1>5. LeasesTypeOK'
    <2>1. leases' \subseteq Lease
      BY <1>2, <1>3 DEF LeasesInv, LeasesTypeOK
    <2>2. ASSUME NEW l \in leases', NEW m \in leases', l.token = m.token
          PROVE  l = m
      <3>1. CASE l = g /\ m = g
        BY <3>1
      <3>2. CASE l \in leases /\ m \in leases
        BY <2>2, <3>2 DEF LeasesInv, LeasesTypeOK
      <3>3. CASE g.token = token
        BY <1>2, <2>2, <3>2, <3>3
      <3>4. CASE g \in leases
        BY <1>2, <3>2, <3>4
      <3>. QED  BY <1>3, <3>3, <3>4
    <2>. QED  BY <2>1, <2>2 DEF LeasesTypeOK
  <1>6. LeasesExclusive'
    <2>1. ASSUME NEW l \in leases', NEW m \in leases', l # m
          PROVE  l.session # m.session /\ ~RootsOverlap(l.roots, m.roots)
      <3>1. CASE l \in leases \ HeldBy(session) /\ m \in leases \ HeldBy(session)
        BY <2>1, <3>1 DEF LeasesInv, LeasesExclusive
      <3>2. CASE l = g /\ m \in leases \ HeldBy(session)
        BY <1>3, <1>4, <3>2
      <3>3. CASE l \in leases \ HeldBy(session) /\ m = g
        BY <1>3, <1>4, <3>3, OverlapIsSymmetric
      <3>. QED  BY <1>2, <2>1, <3>1, <3>2, <3>3
    <2>. QED  BY <2>1 DEF LeasesExclusive
  <1>. QED  BY <1>5, <1>6 DEF LeasesInv

\* Giving a lease back cannot hurt the others.
LEMMA ReleaseKeepsInv ==
    ASSUME LeasesInv, NEW lease, release(lease)
    PROVE  LeasesInv'
  BY DEF LeasesInv, LeasesTypeOK, LeasesExclusive, release

LEMMA LeasesInvNext == LeasesInv /\ [LeasesNext]_leases => LeasesInv'
  <1> SUFFICES ASSUME LeasesInv, [LeasesNext]_leases
               PROVE  LeasesInv'
    OBVIOUS
  <1>1. ASSUME NEW t \in Tokens, NEW s \in SessionIds, NEW p \in Providers,
               NEW g \in Generations, NEW paths \in SUBSET Paths,
               t \notin {l.token : l \in leases},
               acquire(t, s, p, g, CanonicalRoots(paths))
        PROVE  LeasesInv'
    BY <1>1, AcquireKeepsInv, CanonicalRootsAreDirectories
  <1>2. ASSUME NEW l \in leases, release(l)
        PROVE  LeasesInv'
    BY <1>2, ReleaseKeepsInv
  <1>3. CASE UNCHANGED leases
    BY <1>3 DEF LeasesInv, LeasesTypeOK, LeasesExclusive
  <1>. QED  BY <1>1, <1>2, <1>3 DEF LeasesNext

LEMMA LeasesInvHolds == LeasesSpec => []LeasesInv
  <1>. QED  BY LeasesInvInit, LeasesInvNext, PTL DEF LeasesSpec

\* The coordinator's map holds leases, each an object of its own, however often
\* it is asked and answered (acquire, release).
THEOREM LeasesAreTyped == LeasesSpec => []LeasesTypeOK
  <1>1. LeasesInv => LeasesTypeOK
    BY DEF LeasesInv
  <1>. QED  BY <1>1, LeasesInvHolds, PTL

\* acquire never lets two sessions hold directories one of which contains the
\* other, whatever names, links and generations they ask with, and never leaves
\* a session with two leases.
THEOREM DirectoriesAreExclusive == LeasesSpec => []LeasesExclusive
  <1>1. LeasesInv => LeasesExclusive
    BY DEF LeasesInv
  <1>. QED  BY <1>1, LeasesInvHolds, PTL

\* When acquire takes the lease of a new generation, or release gives one back,
\* no session is left with other directories or another provider than before.
THEOREM ReplacementCovers == LeasesSpec => ReplacedInPlace
  <1>1. ASSUME LeasesInv, [LeasesNext]_leases
        PROVE  [\A l \in leases, m \in leases' :
                   l.session = m.session => l.roots = m.roots /\ l.provider = m.provider]_leases
    <2> SUFFICES ASSUME NEW l \in leases, NEW m \in leases', LeasesNext,
                        l.session = m.session
                 PROVE  l.roots = m.roots /\ l.provider = m.provider
      BY <1>1
    <2>1. CASE m \in leases
      BY <1>1, <2>1 DEF LeasesInv, LeasesExclusive
    <2>2. ASSUME NEW t \in Tokens, NEW s \in SessionIds, NEW p \in Providers,
                 NEW g \in Generations, NEW paths \in SUBSET Paths,
                 acquire(t, s, p, g, CanonicalRoots(paths)), m \notin leases
          PROVE  l.roots = m.roots /\ l.provider = m.provider
      <3> DEFINE roots == CanonicalRoots(paths)
      <3>1. m = Granted(t, s, p, g, roots)
        BY <2>2 DEF acquire
      <3>2. MayAcquire(s, p, roots)
        BY <2>2 DEF acquire
      <3>3. m.session = s /\ m.provider = p /\ m.roots = roots
        BY <1>1, <3>1, <3>2, GrantedIs, CanonicalRootsAreDirectories DEF LeasesInv
      <3>4. l \in HeldBy(s)
        BY <3>3 DEF HeldBy
      <3>. QED  BY <3>2, <3>3, <3>4 DEF MayAcquire
    <2>3. ASSUME NEW k \in leases, release(k)
          PROVE  m \in leases
      BY <2>3 DEF release
    <2>. QED  BY <2>1, <2>2, <2>3 DEF LeasesNext
  <1>. QED  BY <1>1, LeasesInvHolds, PTL DEF LeasesSpec, ReplacedInPlace

-----------------------------------------------------------------------------
(* The leases and processes of the service.                                *)

Places == {"none", "releasing", "roots", "recheck", "acquire", "capacity",
           "stopping", "freeing", "admitted", "sending"}
CallRecord ==
    [pc : Places, cancelled : Generations, epoch : Nat, goal : {"none", "acquire", "capacity"},
     todo : SUBSET SessionIds, victim : SessionIds \cup {NoOne}]
JobPlaces == {"none", "keys", "roots", "drain", "stopping", "freeing", "action", "over"}
JobRecord ==
    [kind : {"none", "manage", "worktree", "creation", "addition", "context"},
     session : SessionIds \cup {NoOne}, pc : JobPlaces, epoch : Nat, cancelled : Generations,
     keys : SUBSET Directories, todo : SUBSET SessionIds,
     waiting : SessionIds \cup {NoOne}, recover : BOOLEAN]
DriverStates == {"none", "busy", "idle", "ending", "closing", "stuck", "unclosed"}

Typed ==
    /\ sessions \subseteq SessionIds
    /\ call \in [SessionIds -> CallRecord] /\ jobs \in [Jobs -> JobRecord]
    /\ driver \in [SessionIds -> DriverStates]
    /\ cancellations \in [SessionIds -> Generations] /\ epochs \in [Providers -> Nat]
    /\ \A j \in Jobs : jobs[j].kind \in {"manage", "worktree", "context"} =>
          jobs[j].session \in SessionIds

Held(s) == executionLeases[s] # NoLease

\* The service's notes and the coordinator's map are the same leases, each of the
\* session that it is noted for and of all its directories; and what is being
\* released is what is noted.
Noted ==
    /\ LeasesInv
    /\ executionLeases \in [SessionIds -> leases \cup {NoLease}]
    /\ \A s \in SessionIds : Held(s) =>
          executionLeases[s].session = s /\ executionLeases[s].roots = Keys(s)
    /\ \A l \in leases : l.session \in SessionIds /\ executionLeases[l.session] = l
    /\ releaseOp \in [SessionIds -> leases \cup {NoLease}]
    /\ \A s \in SessionIds : releaseOp[s] # NoLease => releaseOp[s] = executionLeases[s]

\* A call that is past acquireExecution.
Past(c) ==
    \/ c.pc \in {"capacity", "admitted", "sending"}
    \/ c.pc \in {"stopping", "freeing"} /\ c.goal # "acquire"

\* A call that has waited for the release before it keeps its session from being
\* released again, and has its lease once it is past acquireExecution.
Called ==
    /\ admissions = {s \in SessionIds : call[s].pc # "none"} /\ admissions \subseteq sessions
    /\ \A s \in SessionIds :
          /\ call[s].pc \notin {"none", "releasing"} => releaseOp[s] = NoLease
          /\ Past(call[s]) => Held(s)

\* A process has a lease; nothing is left of a deleted session but its lease.
Driven ==
    \A s \in SessionIds :
        /\ driver[s] # "none" => Held(s)
        /\ s \notin sessions => driver[s] = "none" /\ releaseOp[s] = NoLease

Booked == Noted /\ Called /\ Driven
ServiceInv == Typed /\ Booked

-----------------------------------------------------------------------------
(* Helpers.                                                                *)

LEMMA KeysAreDirectories ==
    \A s \in SessionIds : Keys(s) \subseteq Directories /\ Keys(s) # {} /\ Place(s) \in Directories
  BY ServiceAssumption, PathsAssumption DEF Keys, Place

\* There is always an identity that no lease in use has: each session has one
\* lease at most, and releases what it has.
LEMMA FreshTokenIsFresh ==
    ASSUME Noted
    PROVE  FreshToken \in Tokens /\ FreshToken \notin {l.token : l \in leases}
  <1> DEFINE used == {executionLeases[s].token : s \in SessionIds}
             f == [s \in SessionIds |-> executionLeases[s].token]
  <1>1. IsFiniteSet(used) /\ Cardinality(used) <= Cardinality(SessionIds)
    <2>1. f \in Surjection(SessionIds, used)
      BY DEF Surjection
    <2>. QED  BY <2>1, ServiceAssumption, FS_Surjection
  <1>2. ~(Tokens \subseteq used)
    <2>1. Tokens \subseteq used => Cardinality(Tokens) <= Cardinality(used)
      BY <1>1, FS_Subset
    <2>2. Cardinality(Tokens) \in Nat /\ Cardinality(used) \in Nat /\ Cardinality(SessionIds) \in Nat
      BY <1>1, ServiceAssumption, FS_CardinalityType
    <2>. QED  BY <1>1, <2>1, <2>2, ServiceAssumption
  <1>3. {l.token : l \in leases} \subseteq used
    BY DEF Noted
  <1>4. PICK t \in Tokens : t \notin used
    BY <1>2
  <1>5. /\ t \notin {l.token : l \in leases}
        /\ \A s \in SessionIds : releaseOp[s] # NoLease => releaseOp[s].token # t
    BY <1>3, <1>4 DEF Noted
  <1>. QED  BY <1>4, <1>5 DEF FreshToken

\* Own takes the lease of all the session's directories, and notes it.
LEMMA OwnIsNoted ==
    ASSUME Noted, NEW s \in SessionIds, NEW generation \in Generations,
           Own(s, generation), releaseOp[s] = NoLease, UNCHANGED releaseOp
    PROVE  /\ Noted' /\ Held(s)'
           /\ \A t \in SessionIds \ {s} : Held(t)' = Held(t)
           /\ ~Held(s) => \A t \in SessionIds : Held(t) => ~RootsOverlap(Keys(s), Keys(t))
  <1> DEFINE g == Granted(FreshToken, s, Provider[s], generation, Keys(s))
  <1>1. FreshToken \in Tokens /\ FreshToken \notin {l.token : l \in leases}
    BY FreshTokenIsFresh
  <1>2. Provider[s] \in Providers /\ Keys(s) \in SUBSET Directories
    BY ServiceAssumption, KeysAreDirectories
  <1>3. LeasesInv'
    BY <1>1, <1>2, AcquireKeepsInv DEF Noted, Own
  <1>4. /\ MayAcquire(s, Provider[s], Keys(s))
        /\ leases' = (leases \ HeldBy(s)) \cup {g}
        /\ executionLeases' = [executionLeases EXCEPT ![s] = g]
    BY DEF Own, acquire
  <1>5. g \in Lease /\ g.session = s /\ g.roots = Keys(s)
    BY <1>1, <1>2, <1>4, GrantedIs DEF Noted, LeasesInv
  <1> HIDE DEF g
  <1>6. g # NoLease
    BY <1>5, ServiceAssumption
  <1>7. \A t \in SessionIds \ {s} : Held(t) => executionLeases[t] \in leases \ HeldBy(s)
    BY DEF Noted, HeldBy, Held
  <1>8. executionLeases' \in [SessionIds -> leases' \cup {NoLease}]
    BY <1>4, <1>7 DEF Noted, Held
  <1>9. \A t \in SessionIds : Held(t)' => executionLeases'[t].session = t /\ executionLeases'[t].roots = Keys(t)
    BY <1>4, <1>5 DEF Noted, Held
  <1>10. \A l \in leases' : l.session \in SessionIds /\ executionLeases'[l.session] = l
    BY <1>4, <1>5 DEF Noted, HeldBy
  <1>11. /\ releaseOp' \in [SessionIds -> leases' \cup {NoLease}]
         /\ \A t \in SessionIds : releaseOp'[t] # NoLease => releaseOp'[t] = executionLeases'[t]
    BY <1>4, <1>7 DEF Noted, Held
  <1>12. ASSUME ~Held(s), NEW t \in SessionIds, Held(t)
         PROVE  ~RootsOverlap(Keys(s), Keys(t))
    <2>1. executionLeases[t] \in leases /\ executionLeases[t].session = t /\ executionLeases[t].roots = Keys(t)
      BY <1>12 DEF Noted, Held
    <2>2. t # s
      BY <1>12
    <2>. QED  BY <1>4, <2>1, <2>2 DEF MayAcquire, conflicts
  <1>. QED  BY <1>3, <1>4, <1>6, <1>8, <1>9, <1>10, <1>11, <1>12 DEF Noted, Held

\* Dropped gives back what is noted, once nothing is releasing it any more.
LEMMA DroppedIsNoted ==
    ASSUME Noted, NEW s \in SessionIds, Dropped(s),
           releaseOp' \in [SessionIds -> leases \cup {NoLease}], releaseOp'[s] = NoLease,
           \A t \in SessionIds : releaseOp'[t] # NoLease => releaseOp'[t] = executionLeases[t]
    PROVE  Noted' /\ ~Held(s)' /\ \A t \in SessionIds \ {s} : Held(t)' = Held(t)
  <1> DEFINE l == executionLeases[s]
  <1>1. /\ l \in leases /\ leases' = leases \ {l} /\ executionLeases' = [executionLeases EXCEPT ![s] = NoLease]
    BY DEF Dropped, release
  <1>2. LeasesInv'
    BY ReleaseKeepsInv DEF Noted, Dropped
  <1>3. l.session = s /\ \A t \in SessionIds \ {s} : executionLeases[t] # l
    BY <1>1, ServiceAssumption DEF Noted, Held, LeasesInv, LeasesTypeOK
  <1>4. executionLeases' \in [SessionIds -> leases' \cup {NoLease}]
    BY <1>1, <1>3 DEF Noted
  <1>5. \A t \in SessionIds : Held(t)' => executionLeases'[t].session = t /\ executionLeases'[t].roots = Keys(t)
    BY <1>1 DEF Noted, Held
  <1>6. \A m \in leases' : m.session \in SessionIds /\ executionLeases'[m.session] = m
    BY <1>1, <1>3 DEF Noted
  <1>7. /\ releaseOp' \in [SessionIds -> leases' \cup {NoLease}]
        /\ \A t \in SessionIds : releaseOp'[t] # NoLease => releaseOp'[t] = executionLeases'[t]
    BY <1>1, <1>3
  <1>. QED  BY <1>1, <1>2, <1>4, <1>5, <1>6, <1>7 DEF Noted, Held

-----------------------------------------------------------------------------
(* What the small operators do.                                            *)

\* refreshDirectoryRelease notes the session's lease as being released, if at all,
\* and only for a session that exists and is not admitted.
LEMMA RefreshIs ==
    ASSUME Noted, sessions \subseteq SessionIds, NEW s, NEW admitted, NEW held,
           Refresh(s, admitted, held)
    PROVE  /\ releaseOp' \in [SessionIds -> leases \cup {NoLease}]
           /\ \A t \in SessionIds : releaseOp'[t] # NoLease => releaseOp'[t] = executionLeases[t]
           /\ \A t \in SessionIds : releaseOp'[t] # releaseOp[t] => t \in sessions \ admitted
  <1>1. CASE ReleaseStarts(s, admitted, held)
    <2>1. /\ s \in SessionIds /\ s \in sessions \ admitted
          /\ releaseOp' = [releaseOp EXCEPT ![s] = executionLeases[s]]
      BY <1>1 DEF Refresh, ReleaseStarts
    <2>. QED  BY <2>1 DEF Noted
  <1>2. CASE ~ReleaseStarts(s, admitted, held)
    BY <1>2 DEF Refresh, Noted
  <1>. QED  BY <1>1, <1>2

LEMMA StoppingKeepsProcesses ==
    ASSUME Typed, NEW ids
    PROVE  /\ StopIdle(ids) \in [SessionIds -> DriverStates]
           /\ StopAll(ids) \in [SessionIds -> DriverStates]
           /\ \A t \in SessionIds : /\ (StopIdle(ids)[t] = "none") <=> (driver[t] = "none")
                                    /\ (StopAll(ids)[t] = "none") <=> (driver[t] = "none")
  BY DEF StopIdle, StopAll, Typed, DriverStates

LEMMA StepIs ==
    ASSUME Typed, NEW s \in SessionIds, NEW pc \in Places, Step(s, pc)
    PROVE  /\ call' \in [SessionIds -> CallRecord]
           /\ call'[s].pc = pc /\ call'[s].goal = "none"
           /\ \A t \in SessionIds \ {s} : call'[t] = call[t]
  <1> DEFINE c == [call[s] EXCEPT !.pc = pc, !.goal = "none", !.victim = NoOne, !.todo = {}]
  <1>1. call' = [call EXCEPT ![s] = c]
    BY DEF Step, Typed
  <1>2. call[s] \in CallRecord
    BY DEF Typed
  <1>3. c \in CallRecord /\ c.pc = pc /\ c.goal = "none"
    BY <1>2 DEF CallRecord
  <1>. QED  BY <1>1, <1>3 DEF Typed

LEMMA NoCallIs == NoCall \in CallRecord /\ NoCall.pc = "none"
  BY ServiceAssumption DEF NoCall, CallRecord, Places

LEMMA NoJobIs == NoJob \in JobRecord /\ NoJob.kind = "none"
  BY ServiceAssumption DEF NoJob, JobRecord, JobPlaces

-----------------------------------------------------------------------------
(* The step of the abstract specification that a step of the service is.   *)

Holding == {s \in SessionIds : executionLeases[s] # NoLease}
Running == {s \in SessionIds : driver[s] # "none"}
DirectoryStep == Directory!Next \/ UNCHANGED <<Holding, Running>>

\* Processes that end, and nothing else, are a step or a stutter.
LEMMA ProcessStep ==
    ASSUME UNCHANGED executionLeases, NEW s \in SessionIds,
           \A t \in SessionIds \ {s} : (driver'[t] = "none") <=> (driver[t] = "none"),
           driver[s] = "none" => driver'[s] = "none" \/ Held(s)
    PROVE  DirectoryStep
  <1>1. UNCHANGED Holding
    BY DEF Holding
  <1>2. CASE (driver[s] = "none") <=> (driver'[s] = "none")
    BY <1>1, <1>2 DEF DirectoryStep, Running
  <1>3. CASE driver[s] # "none" /\ driver'[s] = "none"
    <2>1. Running' = Running \ {s}
      BY <1>3 DEF Running
    <2>2. Directory!End(s)
      BY <1>1, <2>1 DEF Directory!End, Holding, Running
    <2>. QED  BY <2>2 DEF DirectoryStep, Directory!Next
  <1>4. CASE driver[s] = "none" /\ driver'[s] # "none"
    <2>1. Running' = Running \cup {s}
      BY <1>4 DEF Running
    <2>2. Directory!Begin(s)
      BY <1>1, <1>4, <2>1 DEF Directory!Begin, Holding, Running, Held
    <2>. QED  BY <2>2 DEF DirectoryStep, Directory!Next
  <1>. QED  BY <1>2, <1>3, <1>4

LEMMA SameProcesses ==
    ASSUME UNCHANGED executionLeases,
           \A t \in SessionIds : (driver'[t] = "none") <=> (driver[t] = "none")
    PROVE  DirectoryStep
  BY DEF DirectoryStep, Holding, Running

LEMMA TakeStep ==
    ASSUME NEW s \in SessionIds, UNCHANGED driver, Held(s)',
           \A t \in SessionIds \ {s} : Held(t)' = Held(t),
           ~Held(s) => \A t \in SessionIds : Held(t) => ~RootsOverlap(Keys(s), Keys(t))
    PROVE  DirectoryStep
  <1>1. UNCHANGED Running
    BY DEF Running
  <1>2. CASE Held(s)
    BY <1>1, <1>2 DEF DirectoryStep, Holding, Held
  <1>3. CASE ~Held(s)
    <2>1. Holding' = Holding \cup {s} /\ s \notin Holding
      BY <1>3 DEF Holding, Held
    <2>2. \A h \in Holding : <<s, h>> \notin Clash
      BY <1>3 DEF Holding, Held, Clash
    <2>3. Directory!Take(s)
      BY <1>1, <2>1, <2>2 DEF Directory!Take, Holding, Running
    <2>. QED  BY <2>3 DEF DirectoryStep, Directory!Next
  <1>. QED  BY <1>2, <1>3

LEMMA GiveUpStep ==
    ASSUME NEW s \in SessionIds, UNCHANGED driver, driver[s] = "none", ~Held(s)',
           \A t \in SessionIds \ {s} : Held(t)' = Held(t)
    PROVE  DirectoryStep
  <1>1. UNCHANGED Running /\ s \notin Running /\ Holding' = Holding \ {s}
    BY DEF Running, Holding, Held
  <1>2. Directory!GiveUp(s)
    BY <1>1 DEF Directory!GiveUp, Holding, Running
  <1>. QED  BY <1>2 DEF DirectoryStep, Directory!Next

-----------------------------------------------------------------------------
(* The invariant, in the groups of steps that disturb the same part of it. *)

\* Steps that touch neither leases nor calls, and start no process.
LEMMA ElsewhereKeeps ==
    ASSUME Booked, UNCHANGED <<leaseVars, releaseOp, call, admissions, sessions>>,
           \A t \in SessionIds : driver'[t] # "none" => driver[t] # "none"
    PROVE  Booked'
  <1>1. Noted'
    BY DEF Booked, Noted, Held, LeasesInv, LeasesTypeOK, LeasesExclusive, leaseVars
  <1>2. Called'
    BY DEF Booked, Called, Past, Held, leaseVars
  <1>3. Driven'
    BY DEF Booked, Driven, Held, leaseVars
  <1>. QED  BY <1>1, <1>2, <1>3 DEF Booked

\* The same, with a release begun.
LEMMA RefreshKeeps ==
    ASSUME Booked, Typed, UNCHANGED <<leaseVars, call, admissions, sessions>>,
           NEW s, NEW held, Refresh(s, admissions, held),
           \A t \in SessionIds : driver'[t] # "none" => driver[t] # "none"
    PROVE  Booked'
  <1>1. /\ releaseOp' \in [SessionIds -> leases \cup {NoLease}]
        /\ \A t \in SessionIds : releaseOp'[t] # NoLease => releaseOp'[t] = executionLeases[t]
        /\ \A t \in SessionIds : releaseOp'[t] # releaseOp[t] => t \in sessions \ admissions
    BY RefreshIs DEF Booked, Typed
  <1>2. Noted'
    BY <1>1 DEF Booked, Noted, Held, LeasesInv, LeasesTypeOK, LeasesExclusive, leaseVars
  <1>3. Called'
    BY <1>1 DEF Booked, Called, Past, Held, leaseVars
  <1>4. Driven'
    BY <1>1 DEF Booked, Driven, Held, leaseVars
  <1>. QED  BY <1>2, <1>3, <1>4 DEF Booked

\* A call that goes on.
LEMMA UnderwayKeeps ==
    ASSUME Booked, Typed, UNCHANGED <<leaseVars, releaseOp, admissions, sessions>>,
           NEW s \in SessionIds, \A t \in SessionIds \ {s} : call'[t] = call[t],
           call[s].pc # "none", call'[s].pc # "none",
           call'[s].pc \notin {"none", "releasing"} => releaseOp[s] = NoLease,
           Past(call'[s]) => Held(s),
           \A t \in SessionIds : driver'[t] # "none" =>
               driver[t] # "none" \/ (t = s /\ Held(s))
    PROVE  Booked'
  <1>1. Noted'
    BY DEF Booked, Noted, Held, LeasesInv, LeasesTypeOK, LeasesExclusive, leaseVars
  <1>2. Called'
    <2>1. \A t \in SessionIds : Past(call[t])' = Past(call'[t])
      BY DEF Past
    <2>2. \A t \in SessionIds : Past(call'[t]) => Held(t)
      BY DEF Booked, Called
    <2>3. \A t \in SessionIds : call'[t].pc # "none" <=> call[t].pc # "none"
      OBVIOUS
    <2>4. \A t \in SessionIds : call'[t].pc \notin {"none", "releasing"} => releaseOp[t] = NoLease
      BY DEF Booked, Called
    <2>. QED  BY <2>1, <2>2, <2>3, <2>4 DEF Booked, Called, Held, leaseVars
  <1>3. Driven'
    <2>1. s \in sessions
      BY DEF Booked, Called
    <2>. QED  BY <2>1 DEF Booked, Driven, Held, leaseVars
  <1>. QED  BY <1>1, <1>2, <1>3 DEF Booked

\* A call that ends.
LEMMA RejectKeeps ==
    ASSUME Booked, Typed, NEW s \in SessionIds, Reject(s)
    PROVE  Booked' /\ DirectoryStep
  <1>1. /\ admissions' = admissions \ {s} /\ call' = [call EXCEPT ![s] = NoCall]
        /\ UNCHANGED <<leaseVars, sessions, driver>>
        /\ Refresh(s, admissions \ {s}, outer)
    BY DEF Reject, Leave, worldVars
  <1>2. /\ releaseOp' \in [SessionIds -> leases \cup {NoLease}]
        /\ \A t \in SessionIds : releaseOp'[t] # NoLease => releaseOp'[t] = executionLeases[t]
        /\ \A t \in SessionIds : releaseOp'[t] # releaseOp[t] => t \in sessions \ (admissions \ {s})
    BY <1>1, RefreshIs DEF Booked, Typed
  <1>3. call'[s].pc = "none" /\ \A t \in SessionIds \ {s} : call'[t] = call[t]
    BY <1>1, NoCallIs DEF Typed
  <1>4. Noted'
    BY <1>1, <1>2 DEF Booked, Noted, Held, LeasesInv, LeasesTypeOK, LeasesExclusive, leaseVars
  <1>5. Called'
    <2>1. \A t \in SessionIds : Past(call'[t]) => Held(t)
      BY <1>3 DEF Booked, Called, Past
    <2>2. \A t \in SessionIds : call'[t].pc \notin {"none", "releasing"} => releaseOp'[t] = NoLease
      BY <1>2, <1>3 DEF Booked, Called
    <2>3. admissions' = {t \in SessionIds : call'[t].pc # "none"} /\ admissions' \subseteq sessions
      BY <1>1, <1>3 DEF Booked, Called
    <2>4. \A t \in SessionIds : Past(call[t])' = Past(call'[t])
      BY DEF Past
    <2>. QED  BY <1>1, <2>1, <2>2, <2>3, <2>4 DEF Called, Held, leaseVars
  <1>6. Driven'
    BY <1>1, <1>2 DEF Booked, Driven, Held, leaseVars
  <1>7. DirectoryStep
    BY <1>1, SameProcesses DEF leaseVars
  <1>. QED  BY <1>4, <1>5, <1>6, <1>7 DEF Booked

-----------------------------------------------------------------------------
(* The steps of a call.                                                    *)

Good == Typed' /\ Booked' /\ DirectoryStep

\* What holds when a call goes on to the place pc.
LEMMA StepGood ==
    ASSUME ServiceInv, NEW s \in SessionIds, NEW pc \in Places, Step(s, pc), Underway,
           UNCHANGED <<leaseVars, releaseOp>>,
           call[s].pc # "none", pc # "none",
           pc # "releasing" => releaseOp[s] = NoLease,
           pc \in {"capacity", "admitted", "sending", "stopping", "freeing"} => Held(s),
           driver' \in [SessionIds -> DriverStates],
           \A t \in SessionIds : (driver'[t] = "none") <=> (driver[t] = "none")
    PROVE  Good
  <1>1. /\ call' \in [SessionIds -> CallRecord]
        /\ call'[s].pc = pc /\ call'[s].goal = "none"
        /\ \A t \in SessionIds \ {s} : call'[t] = call[t]
    BY StepIs DEF ServiceInv
  <1>2. Typed'
    BY <1>1 DEF ServiceInv, Typed, Underway, fenceVars, worldVars
  <1>3. Past(call'[s]) => Held(s)
    BY <1>1 DEF Past
  <1>4. Booked'
    BY <1>1, <1>3, UnderwayKeeps DEF ServiceInv, Underway, worldVars
  <1>5. DirectoryStep
    BY SameProcesses DEF leaseVars
  <1>. QED  BY <1>2, <1>4, <1>5 DEF Good

LEMMA RejectGood ==
    ASSUME ServiceInv, NEW s \in SessionIds, Reject(s)
    PROVE  Good
  <1>1. Typed'
    BY NoCallIs DEF ServiceInv, Typed, Reject, Leave, fenceVars, worldVars
  <1>. QED  BY <1>1, RejectKeeps DEF ServiceInv, Good

\* A call that evicts another session on its way to goal.
LEMMA EvictGood ==
    ASSUME ServiceInv, NEW s \in SessionIds, NEW managed, NEW v \in SessionIds,
           NEW goal \in {"acquire", "capacity"}, NEW todo \in SUBSET SessionIds,
           Evict(s, managed, v, goal, todo), Underway, UNCHANGED <<leaseVars, releaseOp>>,
           call[s].pc # "none", releaseOp[s] = NoLease, goal = "capacity" => Held(s)
    PROVE  Good
  <1> DEFINE c == [call[s] EXCEPT !.pc = "stopping", !.victim = v, !.goal = goal, !.todo = todo]
  <1>1. call' = [call EXCEPT ![s] = c]
    BY DEF Evict, ServiceInv, Typed
  <1>2. call[s] \in CallRecord
    BY DEF ServiceInv, Typed
  <1>3. c \in CallRecord /\ c.pc = "stopping" /\ c.goal = goal
    BY <1>2 DEF CallRecord, Places
  <1> HIDE DEF c
  <1>4. /\ call' \in [SessionIds -> CallRecord]
        /\ call'[s] = c /\ \A t \in SessionIds \ {s} : call'[t] = call[t]
    BY <1>1, <1>3 DEF ServiceInv, Typed
  <1>5. /\ driver' \in [SessionIds -> DriverStates]
        /\ \A t \in SessionIds : (driver'[t] = "none") <=> (driver[t] = "none")
    BY StoppingKeepsProcesses DEF Evict, ServiceInv
  <1>6. Typed'
    BY <1>4, <1>5 DEF ServiceInv, Typed, Underway, fenceVars, worldVars
  <1>7. Past(call'[s]) => Held(s)
    BY <1>3, <1>4 DEF Past
  <1>8. Booked'
    BY <1>3, <1>4, <1>5, <1>7, UnderwayKeeps DEF ServiceInv, Underway, worldVars
  <1>9. DirectoryStep
    BY <1>5, SameProcesses DEF leaseVars
  <1>. QED  BY <1>6, <1>8, <1>9 DEF Good

LEMMA DrainGood ==
    ASSUME ServiceInv, NEW s \in SessionIds, call[s].pc \notin {"none", "releasing"},
           NEW managed, NEW todo \in SUBSET SessionIds, Drain(s, managed, todo)
    PROVE  Good
  <1>1. releaseOp[s] = NoLease
    BY DEF ServiceInv, Booked, Called
  <1>2. ASSUME Step(s, "recheck"), UNCHANGED driver
        PROVE  Good
    BY <1>1, <1>2, StepGood DEF Drain, ServiceInv, Typed, Places
  <1>3. ASSUME NEW v \in todo, Evict(s, managed, v, "acquire", todo \ {v})
        PROVE  Good
    <2>1. v \in SessionIds /\ todo \ {v} \in SUBSET SessionIds
      OBVIOUS
    <2>. QED  BY <1>1, <1>3, <2>1, EvictGood DEF Drain
  <1>. QED  BY <1>2, <1>3 DEF Drain

LEMMA SettleGood ==
    ASSUME ServiceInv, NEW s \in SessionIds, call[s].pc \notin {"none", "releasing"},
           Held(s), NEW managed, Settle(s, managed)
    PROVE  Good
  <1>1. releaseOp[s] = NoLease
    BY DEF ServiceInv, Booked, Called
  <1>2. ASSUME Step(s, "admitted"), UNCHANGED driver, Underway, UNCHANGED <<leaseVars, releaseOp>>
        PROVE  Good
    BY <1>1, <1>2, StepGood DEF ServiceInv, Typed, Places
  <1>3. ASSUME NEW v \in sessions, Evict(s, managed, v, "capacity", {}), Underway,
               UNCHANGED <<leaseVars, releaseOp>>
        PROVE  Good
    <2>1. v \in SessionIds
      BY DEF ServiceInv, Typed
    <2>. QED  BY <1>1, <1>3, <2>1, EvictGood
  <1>. QED  BY <1>2, <1>3, RejectGood DEF Settle

LEMMA SubmitGood ==
    ASSUME ServiceInv, NEW s \in SessionIds, Submit(s)
    PROVE  Good
  <1> DEFINE pc == IF releaseOp[s] = NoLease THEN "roots" ELSE "releasing"
             c == [NoCall EXCEPT !.pc = pc, !.cancelled = cancellations[s],
                                 !.epoch = epochs[Provider[s]]]
  <1>1. /\ call' = [call EXCEPT ![s] = c] /\ admissions' = admissions \cup {s} /\ s \in sessions
        /\ UNCHANGED <<leaseVars, sessions, driver, releaseOp, cancellations, epochs, jobs>>
    BY DEF Submit, fenceVars, worldVars
  <1>2. /\ cancellations[s] \in Generations /\ epochs[Provider[s]] \in Nat
        /\ pc \in Places \ {"none"} /\ NoCall \in CallRecord
    BY ServiceAssumption, NoCallIs DEF ServiceInv, Typed, Places
  <1>3. c \in CallRecord /\ c.pc = pc /\ ~Past(c)
    BY <1>2 DEF CallRecord, Past
  <1>4. pc \notin {"none", "releasing"} => releaseOp[s] = NoLease
    OBVIOUS
  <1> HIDE DEF pc, c
  <1>5. /\ call' \in [SessionIds -> CallRecord]
        /\ call'[s] = c /\ \A t \in SessionIds \ {s} : call'[t] = call[t]
    BY <1>1, <1>3 DEF ServiceInv, Typed
  <1>6. Typed'
    BY <1>1, <1>5 DEF ServiceInv, Typed
  <1>7. Noted'
    BY <1>1 DEF ServiceInv, Booked, Noted, Held, LeasesInv, LeasesTypeOK, LeasesExclusive, leaseVars
  <1>8. Called'
    <2>1. \A t \in SessionIds : Past(call[t])' = Past(call'[t])
      BY DEF Past
    <2>2. \A t \in SessionIds : Past(call'[t]) => Held(t)
      BY <1>3, <1>5 DEF ServiceInv, Booked, Called
    <2>3. admissions' = {t \in SessionIds : call'[t].pc # "none"} /\ admissions' \subseteq sessions
      BY <1>1, <1>2, <1>3, <1>5 DEF ServiceInv, Booked, Called
    <2>4. \A t \in SessionIds : call'[t].pc \notin {"none", "releasing"} => releaseOp[t] = NoLease
      BY <1>3, <1>4, <1>5 DEF ServiceInv, Booked, Called
    <2>. QED  BY <1>1, <2>1, <2>2, <2>3, <2>4 DEF Called, Held, leaseVars
  <1>9. Driven'
    BY <1>1 DEF ServiceInv, Booked, Driven, Held, leaseVars
  <1>10. DirectoryStep
    BY <1>1, SameProcesses DEF leaseVars
  <1>. QED  BY <1>6, <1>7, <1>8, <1>9, <1>10 DEF Good, Booked

\* The victim's release begins; its own call, if it had one, would keep it.
LEMMA VictimGood ==
    ASSUME ServiceInv, NEW s \in SessionIds, Stopped(s), ~Reject(s)
    PROVE  Good
  <1> DEFINE v == call[s].victim
             c == [call[s] EXCEPT !.pc = "freeing"]
  <1>1. /\ call[s].pc = "stopping" /\ call' = [call EXCEPT ![s].pc = "freeing"]
        /\ Refresh(v, admissions, outer)
        /\ UNCHANGED <<leaseVars, driver, admissions, sessions, jobs, cancellations, epochs>>
    BY DEF Stopped, Underway, worldVars, fenceVars
  <1>2. call[s] \in CallRecord /\ call' = [call EXCEPT ![s] = c]
    BY <1>1 DEF ServiceInv, Typed
  <1>3. c \in CallRecord /\ c.pc = "freeing" /\ c.goal = call[s].goal
    BY <1>2 DEF CallRecord, Places
  <1> HIDE DEF v, c
  <1>4. /\ call' \in [SessionIds -> CallRecord]
        /\ call'[s] = c /\ \A t \in SessionIds \ {s} : call'[t] = call[t]
    BY <1>2, <1>3 DEF ServiceInv, Typed
  <1>5. /\ releaseOp' \in [SessionIds -> leases \cup {NoLease}]
        /\ \A t \in SessionIds : releaseOp'[t] # NoLease => releaseOp'[t] = executionLeases[t]
        /\ \A t \in SessionIds : releaseOp'[t] # releaseOp[t] => t \in sessions \ admissions
    BY <1>1, RefreshIs DEF ServiceInv, Booked, Typed
  <1>6. Typed'
    BY <1>1, <1>4 DEF ServiceInv, Typed
  <1>7. Noted'
    BY <1>1, <1>5 DEF ServiceInv, Booked, Noted, Held, LeasesInv, LeasesTypeOK, LeasesExclusive, leaseVars
  <1>8. Called'
    <2>1. \A t \in SessionIds : Past(call[t])' = Past(call'[t])
      BY DEF Past
    <2>2. \A t \in SessionIds : Past(call'[t]) => Held(t)
      <3>1. Past(c) => Past(call[s])
        BY <1>1, <1>3 DEF Past
      <3>. QED  BY <1>4, <3>1 DEF ServiceInv, Booked, Called
    <2>3. admissions' = {t \in SessionIds : call'[t].pc # "none"} /\ admissions' \subseteq sessions
      BY <1>1, <1>3, <1>4 DEF ServiceInv, Booked, Called
    <2>4. \A t \in SessionIds : call'[t].pc \notin {"none", "releasing"} => releaseOp'[t] = NoLease
      BY <1>1, <1>3, <1>4, <1>5 DEF ServiceInv, Booked, Called
    <2>. QED  BY <1>1, <2>1, <2>2, <2>3, <2>4 DEF Called, Held, leaseVars
  <1>9. Driven'
    BY <1>1, <1>5 DEF ServiceInv, Booked, Driven, Held, leaseVars
  <1>10. DirectoryStep
    BY <1>1, SameProcesses DEF leaseVars
  <1>. QED  BY <1>6, <1>7, <1>8, <1>9, <1>10 DEF Good, Booked

\* The lease: the one step of a call that takes directories.
LEMMA AcquireGood ==
    ASSUME ServiceInv, NEW s \in SessionIds, AcquireExecution(s), ~Reject(s)
    PROVE  Good
  <1>1. /\ call[s].pc = "acquire" /\ Own(s, cancellations[s]) /\ Step(s, "capacity")
        /\ UNCHANGED <<releaseOp, driver, admissions, sessions, jobs, cancellations, epochs>>
    BY DEF AcquireExecution, Underway, worldVars, fenceVars
  <1>2. releaseOp[s] = NoLease /\ cancellations[s] \in Generations
    BY <1>1 DEF ServiceInv, Booked, Called, Typed
  <1>3. /\ Noted' /\ Held(s)'
        /\ \A t \in SessionIds \ {s} : Held(t)' = Held(t)
        /\ ~Held(s) => \A t \in SessionIds : Held(t) => ~RootsOverlap(Keys(s), Keys(t))
    BY <1>1, <1>2, OwnIsNoted DEF ServiceInv, Booked
  <1>4. /\ call' \in [SessionIds -> CallRecord]
        /\ call'[s].pc = "capacity"
        /\ \A t \in SessionIds \ {s} : call'[t] = call[t]
    BY <1>1, StepIs DEF ServiceInv, Places
  <1>5. Typed'
    BY <1>1, <1>4 DEF ServiceInv, Typed
  <1>6. Called'
    <2>1. \A t \in SessionIds : Past(call[t])' = Past(call'[t])
      BY DEF Past
    <2>2. \A t \in SessionIds : Past(call'[t]) => Held(t)'
      BY <1>3, <1>4 DEF ServiceInv, Booked, Called
    <2>3. admissions' = {t \in SessionIds : call'[t].pc # "none"} /\ admissions' \subseteq sessions
      BY <1>1, <1>4 DEF ServiceInv, Booked, Called
    <2>4. \A t \in SessionIds : call'[t].pc \notin {"none", "releasing"} => releaseOp[t] = NoLease
      BY <1>2, <1>4 DEF ServiceInv, Booked, Called
    <2>. QED  BY <1>1, <2>1, <2>2, <2>3, <2>4 DEF Called
  <1>7. Driven'
    <2>1. \A t \in SessionIds : driver[t] # "none" => Held(t)'
      BY <1>3 DEF ServiceInv, Booked, Driven
    <2>. QED  BY <1>1, <2>1 DEF ServiceInv, Booked, Driven
  <1>8. DirectoryStep
    BY <1>1, <1>3, TakeStep
  <1>. QED  BY <1>3, <1>5, <1>6, <1>7, <1>8 DEF Good, Booked

\* The message or the terminal start reaches its engine.
LEMMA SendGood ==
    ASSUME ServiceInv, NEW s \in SessionIds, Send(s), ~Reject(s)
    PROVE  Good
  <1>1. /\ call[s].pc = "admitted" /\ driver' = [driver EXCEPT ![s] = "busy"]
        /\ Step(s, "sending") /\ Underway /\ UNCHANGED <<leaseVars, releaseOp>>
    BY DEF Send
  <1>2. releaseOp[s] = NoLease /\ Held(s)
    BY <1>1 DEF ServiceInv, Booked, Called, Past
  <1>3. /\ call' \in [SessionIds -> CallRecord]
        /\ call'[s].pc = "sending"
        /\ \A t \in SessionIds \ {s} : call'[t] = call[t]
    BY <1>1, StepIs DEF ServiceInv, Places
  <1>4. driver' \in [SessionIds -> DriverStates] /\ \A t \in SessionIds \ {s} : driver'[t] = driver[t]
    BY <1>1 DEF ServiceInv, Typed, DriverStates
  <1>5. Typed'
    BY <1>1, <1>3, <1>4 DEF ServiceInv, Typed, Underway, fenceVars, worldVars
  <1>6. Booked'
    BY <1>1, <1>2, <1>3, <1>4, UnderwayKeeps DEF ServiceInv, Underway, worldVars
  <1>7. DirectoryStep
    BY <1>1, <1>2, <1>4, ProcessStep DEF leaseVars
  <1>. QED  BY <1>5, <1>6, <1>7 DEF Good

LEMMA CallGood ==
    ASSUME ServiceInv, NEW s \in SessionIds, CallSteps(s) \/ CallFails(s)
    PROVE  Good
  <1>1. CASE Reject(s)
    BY <1>1, RejectGood
  <1>2. CASE Released(s) /\ ~Reject(s)
    BY <1>2, StepGood DEF Released, ServiceInv, Typed, Places
  <1>3. CASE FindRoots(s) /\ ~Reject(s)
    <2>1. {l.session : l \in conflicts(Keys(s), s)} \in SUBSET SessionIds
      BY DEF conflicts, ServiceInv, Booked, Noted
    <2>2. call[s].pc = "roots" /\ Drain(s, lifecycle, {l.session : l \in conflicts(Keys(s), s)})
      BY <1>3 DEF FindRoots
    <2>. QED  BY <2>1, <2>2, DrainGood
  <1>4. CASE Stopped(s) /\ ~Reject(s)
    BY <1>4, VictimGood
  <1>5. CASE Freed(s) /\ ~Reject(s)
    <2> DEFINE managed == lifecycle \ {call[s].victim}
    <2>1. /\ call[s].pc = "freeing"
          /\ \/ call[s].goal = "acquire" /\ Drain(s, managed, call[s].todo)
             \/ call[s].goal # "acquire" /\ Settle(s, managed)
      BY <1>5 DEF Freed
    <2>2. call[s].todo \in SUBSET SessionIds
      BY DEF ServiceInv, Typed, CallRecord
    <2>3. call[s].goal # "acquire" => Held(s)
      BY <2>1 DEF ServiceInv, Booked, Called, Past
    <2>. QED  BY <2>1, <2>2, <2>3, DrainGood, SettleGood
  <1>6. CASE Recheck(s) /\ ~Reject(s)
    <2>1. releaseOp[s] = NoLease
      BY <1>6 DEF Recheck, ServiceInv, Booked, Called
    <2>. QED  BY <1>6, <2>1, StepGood DEF Recheck, ServiceInv, Typed, Places
  <1>7. CASE AcquireExecution(s) /\ ~Reject(s)
    BY <1>7, AcquireGood
  <1>8. CASE FindCapacity(s) /\ ~Reject(s)
    <2>1. Held(s)
      BY <1>8 DEF FindCapacity, ServiceInv, Booked, Called, Past
    <2>. QED  BY <1>8, <2>1, SettleGood DEF FindCapacity
  <1>9. CASE Send(s) /\ ~Reject(s)
    BY <1>9, SendGood
  <1>10. CASE Return(s)
    BY <1>10, RejectGood DEF Return
  <1>11. CASE CallFails(s)
    BY <1>11, RejectGood DEF CallFails
  <1>. QED
    BY <1>1, <1>2, <1>3, <1>4, <1>5, <1>6, <1>7, <1>8, <1>9, <1>10, <1>11 DEF CallSteps

\* Steps that change nothing of all this.
LEMMA UntouchedGood ==
    ASSUME ServiceInv, UNCHANGED <<leaseVars, cancellations, epochs, sessions, admissions,
                                   releaseOp, driver, call, jobs>>
    PROVE  Good
  <1>1. Typed'
    BY DEF ServiceInv, Typed
  <1>2. Booked'
    BY ElsewhereKeeps DEF ServiceInv
  <1>3. DirectoryStep
    BY SameProcesses DEF leaseVars
  <1>. QED  BY <1>1, <1>2, <1>3 DEF Good

\* A release operation that is over without having given the lease back.
LEMMA ForgottenKeeps ==
    ASSUME ServiceInv, NEW s \in SessionIds, releaseOp' = [releaseOp EXCEPT ![s] = NoLease],
           UNCHANGED <<leaseVars, call, admissions, sessions>>, releaseOp[s] # NoLease,
           \A t \in SessionIds : driver'[t] # "none" => driver[t] # "none" \/ t = s
    PROVE  Booked'
  <1>1. Noted'
    BY DEF ServiceInv, Booked, Noted, Held, LeasesInv, LeasesTypeOK, LeasesExclusive, leaseVars
  <1>2. Called'
    <2>1. \A t \in SessionIds : call[t].pc \notin {"none", "releasing"} => releaseOp'[t] = NoLease
      BY DEF ServiceInv, Booked, Called, Noted
    <2>2. \A t \in SessionIds : Held(t)' = Held(t) /\ Past(call[t])' = Past(call[t])
      BY DEF Past, Held, leaseVars
    <2>. QED  BY <2>1, <2>2 DEF ServiceInv, Booked, Called
  <1>3. Driven'
    <2>1. Held(s) /\ s \in sessions
      BY DEF ServiceInv, Booked, Noted, Held, Driven
    <2>2. \A t \in SessionIds : Held(t)' = Held(t)
      BY DEF Held, leaseVars
    <2>3. \A t \in SessionIds : releaseOp[t] = NoLease => releaseOp'[t] = NoLease
      BY DEF ServiceInv, Booked, Noted
    <2>. QED  BY <2>1, <2>2, <2>3 DEF ServiceInv, Booked, Driven
  <1>. QED  BY <1>1, <1>2, <1>3 DEF Booked

-----------------------------------------------------------------------------
(* The releases, the engines, and the user.                                *)

LEMMA FinishReleaseGood ==
    ASSUME ServiceInv, NEW s \in SessionIds, FinishRelease(s)
    PROVE  Good
  <1>1. /\ releaseOp[s] # NoLease /\ driver[s] = "none"
        /\ releaseOp' = [releaseOp EXCEPT ![s] = NoLease]
        /\ UNCHANGED <<driver, call, admissions, sessions, jobs, cancellations, epochs>>
    BY DEF FinishRelease, ReleaseOnly, worldVars, fenceVars
  <1>2. Typed'
    BY <1>1 DEF ServiceInv, Typed
  <1>3. CASE MayDrop(s)
    <2>1. Dropped(s) /\ s \notin admissions
      BY <1>3 DEF FinishRelease, MayDrop
    <2>2. Noted' /\ ~Held(s)' /\ \A t \in SessionIds \ {s} : Held(t)' = Held(t)
      <3>1. /\ releaseOp' \in [SessionIds -> leases \cup {NoLease}] /\ releaseOp'[s] = NoLease
            /\ \A t \in SessionIds : releaseOp'[t] # NoLease => releaseOp'[t] = executionLeases[t]
        BY <1>1 DEF ServiceInv, Booked, Noted
      <3>. QED  BY <2>1, <3>1, DroppedIsNoted DEF ServiceInv, Booked
    <2>3. Called'
      <3>1. ~Past(call[s])
        BY <2>1 DEF ServiceInv, Booked, Called, Past
      <3>2. \A t \in SessionIds : Past(call[t]) => Held(t)'
        BY <2>2, <3>1 DEF ServiceInv, Booked, Called
      <3>3. \A t \in SessionIds : Past(call[t])' = Past(call[t])
        BY <1>1 DEF Past
      <3>4. \A t \in SessionIds : call[t].pc \notin {"none", "releasing"} => releaseOp'[t] = NoLease
        BY <1>1 DEF ServiceInv, Booked, Called, Noted
      <3>. QED  BY <1>1, <3>2, <3>3, <3>4 DEF ServiceInv, Booked, Called
    <2>4. Driven'
      <3>1. \A t \in SessionIds : driver[t] # "none" => Held(t)'
        BY <1>1, <2>2 DEF ServiceInv, Booked, Driven
      <3>. QED  BY <1>1, <3>1 DEF ServiceInv, Booked, Driven, Noted
    <2>5. DirectoryStep
      BY <1>1, <2>2, GiveUpStep
    <2>. QED  BY <1>2, <2>2, <2>3, <2>4, <2>5 DEF Good, Booked
  <1>4. CASE ~MayDrop(s)
    <2>1. UNCHANGED leaseVars
      BY <1>4 DEF FinishRelease
    <2>2. Booked'
      BY <1>1, <2>1, ForgottenKeeps DEF ServiceInv
    <2>3. DirectoryStep
      BY <1>1, <2>1, SameProcesses DEF leaseVars
    <2>. QED  BY <1>2, <2>2, <2>3 DEF Good
  <1>. QED  BY <1>3, <1>4

LEMMA FailReleaseGood ==
    ASSUME ServiceInv, NEW s \in SessionIds, FailRelease(s)
    PROVE  Good
  <1>1. /\ releaseOp[s] # NoLease /\ releaseOp' = [releaseOp EXCEPT ![s] = NoLease]
        /\ driver' = [driver EXCEPT ![s] = IF Native(s) THEN "unclosed" ELSE @]
        /\ UNCHANGED <<leaseVars, call, admissions, sessions, jobs, cancellations, epochs>>
    BY DEF FailRelease, worldVars, fenceVars
  <1>2. Held(s)
    BY <1>1 DEF ServiceInv, Booked, Noted, Held
  <1>3. driver' \in [SessionIds -> DriverStates] /\ \A t \in SessionIds \ {s} : driver'[t] = driver[t]
    BY <1>1 DEF ServiceInv, Typed, DriverStates
  <1>4. Typed'
    BY <1>1, <1>3 DEF ServiceInv, Typed
  <1>5. Booked'
    BY <1>1, <1>2, <1>3, ForgottenKeeps DEF ServiceInv
  <1>6. DirectoryStep
    BY <1>1, <1>2, <1>3, ProcessStep DEF leaseVars
  <1>. QED  BY <1>4, <1>5, <1>6 DEF Good

LEMMA EngineGood ==
    ASSUME ServiceInv, NEW s \in SessionIds,
           TurnEnds(s) \/ NativeEnds(s) \/ ProcessGone(s) \/ ProcessDies(s)
    PROVE  Good
  <1>1. /\ DriverOnly
        /\ \E after \in DriverStates : driver' = [driver EXCEPT ![s] = after]
        /\ driver[s] # "none"
    BY DEF TurnEnds, NativeEnds, ProcessGone, ProcessDies, DriverStates
  <1>2. /\ driver' \in [SessionIds -> DriverStates]
        /\ \A t \in SessionIds \ {s} : driver'[t] = driver[t]
    BY <1>1 DEF ServiceInv, Typed
  <1>3. Typed'
    BY <1>1, <1>2 DEF ServiceInv, Typed, DriverOnly, fenceVars, worldVars
  <1>4. Booked'
    BY <1>1, <1>2, ElsewhereKeeps DEF ServiceInv, DriverOnly, worldVars
  <1>5. DirectoryStep
    BY <1>1, <1>2, ProcessStep DEF DriverOnly, leaseVars
  <1>. QED  BY <1>3, <1>4, <1>5 DEF Good

\* Stops and interrupts of a session, and the maintenance of its engine.
LEMMA CutShortGood ==
    ASSUME ServiceInv, NEW ids, driver' \in {driver, StopAll(ids)},
           cancellations' \in [SessionIds -> Generations], epochs' \in [Providers -> Nat],
           UNCHANGED <<leaseVars, releaseOp, call, admissions, sessions, jobs>>
    PROVE  Good
  <1>1. /\ driver' \in [SessionIds -> DriverStates]
        /\ \A t \in SessionIds : (driver'[t] = "none") <=> (driver[t] = "none")
    BY StoppingKeepsProcesses DEF ServiceInv, Typed
  <1>2. Typed'
    BY <1>1 DEF ServiceInv, Typed
  <1>3. Booked'
    BY <1>1, ElsewhereKeeps DEF ServiceInv
  <1>4. DirectoryStep
    BY <1>1, SameProcesses DEF leaseVars
  <1>. QED  BY <1>2, <1>3, <1>4 DEF Good

LEMMA UserGood ==
    ASSUME ServiceInv, NEW s \in SessionIds,
           Stop(s) \/ StopEnds(s) \/ Interrupt(s) \/ OuterBegins(s) \/ OuterEnds(s)
    PROVE  Good
  <1>1. CASE Stop(s) \/ Interrupt(s)
    <2>1. /\ driver' \in {driver, StopAll({s})}
          /\ UNCHANGED <<leaseVars, epochs, sessions, admissions, releaseOp, call, jobs>>
          /\ cancellations[s] < MaxCancels
          /\ cancellations' = [cancellations EXCEPT ![s] = cancellations[s] + 1]
      BY <1>1 DEF Stop, Interrupt, Cancel, ServiceInv, Typed
    <2>2. cancellations' \in [SessionIds -> Generations] /\ epochs' \in [Providers -> Nat]
      BY <2>1, ServiceAssumption DEF ServiceInv, Typed
    <2>. QED  BY <2>1, <2>2, CutShortGood
  <1>2. CASE StopEnds(s)
    <2>1. /\ driver' \in {driver, [driver EXCEPT ![s] = IF driver[s] \in {"stuck", "unclosed"} THEN "none" ELSE driver[s]]}
          /\ Refresh(s, admissions, outer)
          /\ UNCHANGED <<leaseVars, cancellations, epochs, sessions, admissions, call, jobs>>
      BY <1>2 DEF StopEnds, fenceVars, ServiceInv, Typed
    <2>2. /\ driver' \in [SessionIds -> DriverStates]
          /\ \A t \in SessionIds \ {s} : driver'[t] = driver[t]
          /\ driver[s] = "none" => driver'[s] = "none"
      BY <2>1 DEF ServiceInv, Typed, DriverStates
    <2>3. Typed'
      BY <2>1, <2>2 DEF ServiceInv, Typed
    <2>4. Booked'
      BY <2>1, <2>2, RefreshKeeps DEF ServiceInv
    <2>5. DirectoryStep
      BY <2>1, <2>2, ProcessStep DEF leaseVars
    <2>. QED  BY <2>3, <2>4, <2>5 DEF Good
  <1>3. CASE OuterBegins(s)
    <2>1. UNCHANGED <<leaseVars, cancellations, epochs, sessions, admissions, releaseOp, driver, call, jobs>>
      BY <1>3 DEF OuterBegins, fenceVars
    <2>. QED  BY <2>1, UntouchedGood
  <1>4. CASE OuterEnds(s)
    <2>1. /\ Refresh(s, admissions, outer \ {s})
          /\ UNCHANGED <<leaseVars, cancellations, epochs, sessions, admissions, driver, call, jobs>>
      BY <1>4 DEF OuterEnds, fenceVars
    <2>2. Typed'
      BY <2>1 DEF ServiceInv, Typed
    <2>3. Booked'
      BY <2>1, RefreshKeeps DEF ServiceInv
    <2>4. DirectoryStep
      BY <2>1, SameProcesses DEF leaseVars
    <2>. QED  BY <2>2, <2>3, <2>4 DEF Good
  <1>. QED  BY <1>1, <1>2, <1>3, <1>4

-----------------------------------------------------------------------------
(* The management operations.                                              *)

\* A step of an operation that is not over: nothing is taken, given back or begun,
\* except that idle processes may be told to end.
LEMMA JobStepGood ==
    ASSUME ServiceInv, jobs' \in [Jobs -> JobRecord],
           \A j \in Jobs : jobs'[j].kind \in {"manage", "worktree", "context"} =>
               jobs'[j].session \in SessionIds,
           UNCHANGED <<leaseVars, releaseOp>>, Elsewhere,
           NEW ids, driver' \in {driver, StopIdle(ids)}
    PROVE  Good
  <1>1. /\ driver' \in [SessionIds -> DriverStates]
        /\ \A t \in SessionIds : (driver'[t] = "none") <=> (driver[t] = "none")
    BY StoppingKeepsProcesses DEF ServiceInv, Typed
  <1>2. Typed'
    BY <1>1 DEF ServiceInv, Typed, Elsewhere, fenceVars, worldVars
  <1>3. Booked'
    BY <1>1, ElsewhereKeeps DEF ServiceInv, Elsewhere, worldVars
  <1>4. DirectoryStep
    BY <1>1, SameProcesses DEF leaseVars
  <1>. QED  BY <1>2, <1>3, <1>4 DEF Good

\* The end of an operation; the lease of a deleted session goes with it.
LEMMA FinishGood ==
    ASSUME ServiceInv, NEW j \in Jobs, Finish(j)
    PROVE  Good
  <1>0. PICK s \in SessionIds \cup {NoOne} : s = jobs[j].session
    BY DEF ServiceInv, Typed, JobRecord
  <1> DEFINE drops == s # NoOne /\ s \notin sessions /\ executionLeases[s] # NoLease
  <1>1. /\ jobs' = [jobs EXCEPT ![j] = NoJob] /\ UNCHANGED driver /\ Elsewhere
        /\ IF s = NoOne THEN UNCHANGED releaseOp ELSE Refresh(s, admissions, outer)
        /\ s # NoOne /\ s \notin sessions => driver[s] = "none"
        /\ IF drops THEN Dropped(s) ELSE UNCHANGED leaseVars
    BY <1>0 DEF Finish
  <1> HIDE DEF drops
  <1>3. UNCHANGED <<call, admissions, sessions, cancellations, epochs>>
    BY <1>1 DEF Elsewhere, fenceVars, worldVars
  <1>4. Typed'
    BY <1>1, <1>3, NoJobIs DEF ServiceInv, Typed
  <1>5. CASE drops
    <2>1. s \in SessionIds /\ s \notin sessions /\ Dropped(s) /\ driver[s] = "none"
      BY <1>1, <1>5 DEF drops
    <2>2. UNCHANGED releaseOp
      BY <1>1, <2>1 DEF Refresh, ReleaseStarts
    <2>3. releaseOp[s] = NoLease
      BY <2>1 DEF ServiceInv, Booked, Driven
    <2>4. Noted' /\ ~Held(s)' /\ \A t \in SessionIds \ {s} : Held(t)' = Held(t)
      BY <2>1, <2>2, <2>3, DroppedIsNoted DEF ServiceInv, Booked, Noted
    <2>5. Called'
      <3>1. ~Past(call[s])
        BY <2>1 DEF ServiceInv, Booked, Called, Past
      <3>2. \A t \in SessionIds : Past(call[t]) => Held(t)'
        BY <2>4, <3>1 DEF ServiceInv, Booked, Called
      <3>3. \A t \in SessionIds : Past(call[t])' = Past(call[t])
        BY <1>3 DEF Past
      <3>. QED  BY <1>3, <2>2, <3>2, <3>3 DEF ServiceInv, Booked, Called
    <2>6. Driven'
      <3>1. \A t \in SessionIds : driver[t] # "none" => Held(t)'
        BY <2>1, <2>4 DEF ServiceInv, Booked, Driven
      <3>. QED  BY <1>1, <1>3, <2>2, <3>1 DEF ServiceInv, Booked, Driven
    <2>7. DirectoryStep
      BY <1>1, <2>1, <2>4, GiveUpStep
    <2>. QED  BY <1>4, <2>4, <2>5, <2>6, <2>7 DEF Good, Booked
  <1>6. CASE ~drops
    <2>1. UNCHANGED leaseVars
      BY <1>1, <1>6
    <2>2. Booked'
      BY <1>1, <1>3, <2>1, ElsewhereKeeps, RefreshKeeps DEF ServiceInv
    <2>3. DirectoryStep
      BY <1>1, <2>1, SameProcesses DEF leaseVars
    <2>. QED  BY <1>4, <2>2, <2>3 DEF Good
  <1>. QED  BY <1>5, <1>6

\* removeRecord: nothing of the session is left but, perhaps, its lease.
LEMMA DeleteGood ==
    ASSUME ServiceInv, NEW j \in Jobs, DeleteRecord(j)
    PROVE  Good
  <1> DEFINE s == jobs[j].session
  <1>1. /\ s \in sessions /\ sessions' = sessions \ {s}
        /\ s \notin admissions /\ releaseOp[s] = NoLease /\ driver[s] = "none"
        /\ UNCHANGED <<leaseVars, admissions, releaseOp, driver, call, jobs, cancellations, epochs>>
    BY DEF DeleteRecord, taskOccupied, Has, fenceVars
  <1> HIDE DEF s
  <1>2. Typed'
    BY <1>1 DEF ServiceInv, Typed
  <1>3. Noted'
    BY <1>1 DEF ServiceInv, Booked, Noted, Held, LeasesInv, LeasesTypeOK, LeasesExclusive, leaseVars
  <1>4. Called'
    BY <1>1 DEF ServiceInv, Booked, Called, Past, Held, leaseVars
  <1>5. Driven'
    BY <1>1 DEF ServiceInv, Booked, Driven, Held, leaseVars
  <1>6. DirectoryStep
    BY <1>1, SameProcesses DEF leaseVars
  <1>. QED  BY <1>2, <1>3, <1>4, <1>5, <1>6 DEF Good, Booked

\* The lease of a context operation, taken without a call.
LEMMA OwnContextGood ==
    ASSUME ServiceInv, NEW j \in Jobs, OwnContext(j), ~Finish(j)
    PROVE  Good
  <1>0. PICK s \in SessionIds : jobs[j].kind = "context" /\ s = jobs[j].session
    BY DEF OwnContext, At, ServiceInv, Typed
  <1> DEFINE job == [jobs[j] EXCEPT !.pc = "action", !.keys = Keys(s)]
  <1>1. /\ jobs[j].kind = "context"
        /\ IF executionLeases[s] = NoLease THEN Own(s, jobs[j].cancelled) ELSE UNCHANGED leaseVars
        /\ jobs' = [jobs EXCEPT ![j].pc = "action", ![j].keys = Keys(s)]
        /\ UNCHANGED <<releaseOp, driver, call, admissions, sessions, cancellations, epochs>>
    BY <1>0 DEF OwnContext, At, Elsewhere, fenceVars, worldVars
  <1>2. s \in SessionIds /\ jobs[j] \in JobRecord /\ jobs[j].cancelled \in Generations
    BY <1>1 DEF ServiceInv, Typed, JobRecord
  <1>3. jobs' = [jobs EXCEPT ![j] = job]
    BY <1>1 DEF ServiceInv, Typed
  <1>4. job \in JobRecord /\ job.kind = "context" /\ job.session = s
    BY <1>0, <1>1, <1>2, KeysAreDirectories DEF JobRecord, JobPlaces
  <1> HIDE DEF job
  <1>5. Typed'
    <2>1. jobs' \in [Jobs -> JobRecord]
      BY <1>3, <1>4 DEF ServiceInv, Typed
    <2>2. \A k \in Jobs : k # j => jobs'[k] = jobs[k]
      BY <1>3 DEF ServiceInv, Typed
    <2>3. jobs'[j].session \in SessionIds
      BY <1>2, <1>3, <1>4 DEF ServiceInv, Typed
    <2>. QED  BY <1>1, <2>1, <2>2, <2>3 DEF ServiceInv, Typed
  <1>6. CASE executionLeases[s] = NoLease
    <2>1. releaseOp[s] = NoLease /\ Own(s, jobs[j].cancelled)
      BY <1>1, <1>2, <1>6 DEF ServiceInv, Booked, Noted
    <2>2. /\ Noted' /\ Held(s)'
          /\ \A t \in SessionIds \ {s} : Held(t)' = Held(t)
          /\ ~Held(s) => \A t \in SessionIds : Held(t) => ~RootsOverlap(Keys(s), Keys(t))
      BY <1>1, <1>2, <2>1, OwnIsNoted DEF ServiceInv, Booked
    <2>3. Called'
      <3>1. \A t \in SessionIds : Past(call[t]) => Held(t)'
        BY <2>2 DEF ServiceInv, Booked, Called
      <3>2. \A t \in SessionIds : Past(call[t])' = Past(call[t])
        BY <1>1 DEF Past
      <3>. QED  BY <1>1, <3>1, <3>2 DEF ServiceInv, Booked, Called
    <2>4. Driven'
      <3>1. \A t \in SessionIds : driver[t] # "none" => Held(t)'
        BY <2>2 DEF ServiceInv, Booked, Driven
      <3>. QED  BY <1>1, <3>1 DEF ServiceInv, Booked, Driven
    <2>5. DirectoryStep
      BY <1>1, <1>2, <2>2, TakeStep
    <2>. QED  BY <1>5, <2>2, <2>3, <2>4, <2>5 DEF Good, Booked
  <1>7. CASE executionLeases[s] # NoLease
    <2>1. Booked'
      BY <1>1, <1>7, ElsewhereKeeps DEF ServiceInv
    <2>2. DirectoryStep
      BY <1>1, <1>7, SameProcesses DEF leaseVars
    <2>. QED  BY <1>5, <2>1, <2>2 DEF Good
  <1>. QED  BY <1>6, <1>7

\* What Lock does to the operation that asks.
LEMMA LockGood ==
    ASSUME ServiceInv, NEW j \in Jobs, NEW keys \in SUBSET Directories, NEW job \in JobRecord,
           NEW pc \in JobPlaces, Lock(j, keys, job, pc),
           job.kind \in {"manage", "worktree", "context"} => job.session \in SessionIds
    PROVE  Good
  <1> DEFINE new == [job EXCEPT !.keys = keys, !.pc = pc]
  <1>1. new \in JobRecord /\ new.kind = job.kind /\ new.session = job.session
    BY DEF JobRecord
  <1>2. jobs' = [jobs EXCEPT ![j] = new]
    BY DEF Lock
  <1> HIDE DEF new
  <1>3. jobs' \in [Jobs -> JobRecord] /\ jobs'[j] = new /\ \A k \in Jobs : k # j => jobs'[k] = jobs[k]
    BY <1>1, <1>2 DEF ServiceInv, Typed
  <1>4. \A k \in Jobs : jobs'[k].kind \in {"manage", "worktree", "context"} =>
            jobs'[k].session \in SessionIds
    BY <1>1, <1>3 DEF ServiceInv, Typed
  <1>. QED  BY <1>3, <1>4, JobStepGood DEF Lock

\* A step that changes only what an operation is doing.
LEMMA MovedGood ==
    ASSUME ServiceInv, NEW j \in Jobs, NEW job \in JobRecord, jobs' = [jobs EXCEPT ![j] = job],
           job.kind \in {"manage", "worktree", "context"} => job.session \in SessionIds,
           UNCHANGED <<leaseVars, releaseOp>>, Elsewhere,
           NEW ids, driver' \in {driver, StopIdle(ids)}
    PROVE  Good
  <1>1. jobs' \in [Jobs -> JobRecord] /\ jobs'[j] = job /\ \A k \in Jobs : k # j => jobs'[k] = jobs[k]
    BY DEF ServiceInv, Typed
  <1>2. \A k \in Jobs : jobs'[k].kind \in {"manage", "worktree", "context"} =>
            jobs'[k].session \in SessionIds
    BY <1>1 DEF ServiceInv, Typed
  <1>. QED  BY <1>1, <1>2, JobStepGood

LEMMA ManagementBegins ==
    ASSUME ServiceInv, NEW j \in Jobs,
           \/ \E s \in SessionIds, kind \in {"manage", "worktree"} : Manage(j, s, kind)
           \/ \E s \in SessionIds, recover \in BOOLEAN : Maintain(j, s, recover)
           \/ \E source \in Sources, kind \in {"creation", "addition"} : Create(j, source, kind)
    PROVE  Good
  <1>1. ASSUME NEW s \in SessionIds, NEW kind \in {"manage", "worktree"}, Manage(j, s, kind)
        PROVE  Good
    <2> DEFINE pc == IF kind = "manage" THEN "action" ELSE "keys"
               job == [NoJob EXCEPT !.kind = kind, !.session = s,
                         !.epoch = epochs[Provider[s]], !.pc = pc]
    <2>1. jobs' = [jobs EXCEPT ![j] = job] /\ UNCHANGED <<leaseVars, releaseOp, driver>> /\ Elsewhere
      BY <1>1 DEF Manage
    <2>2. epochs[Provider[s]] \in Nat /\ pc \in JobPlaces
      BY ServiceAssumption DEF ServiceInv, Typed, JobPlaces
    <2>3. job \in JobRecord /\ job.session = s
      BY <2>2, NoJobIs DEF JobRecord
    <2> HIDE DEF job, pc
    <2>. QED  BY <2>1, <2>3, MovedGood
  <1>2. ASSUME NEW s \in SessionIds, NEW recover \in BOOLEAN, Maintain(j, s, recover)
        PROVE  Good
    <2> DEFINE job == [NoJob EXCEPT !.kind = "context", !.session = s, !.pc = "roots",
                         !.recover = recover, !.epoch = epochs[Provider[s]],
                         !.cancelled = cancellations[s]]
    <2>1. jobs' = [jobs EXCEPT ![j] = job] /\ UNCHANGED <<leaseVars, releaseOp, driver>> /\ Elsewhere
      BY <1>2 DEF Maintain
    <2>2. epochs[Provider[s]] \in Nat /\ cancellations[s] \in Generations
      BY ServiceAssumption DEF ServiceInv, Typed
    <2>3. job \in JobRecord /\ job.session = s
      BY <2>2, NoJobIs DEF JobRecord, JobPlaces
    <2> HIDE DEF job
    <2>. QED  BY <2>1, <2>3, MovedGood
  <1>3. ASSUME NEW source \in Sources, NEW kind \in {"creation", "addition"}, Create(j, source, kind)
        PROVE  Good
    <2> DEFINE job == [NoJob EXCEPT !.kind = kind]
               pc == IF kind = "creation" THEN "drain" ELSE "action"
    <2>1. Lock(j, {Canonical[source]}, job, pc)
      BY <1>3 DEF Create
    <2>2. {Canonical[source]} \in SUBSET Directories /\ pc \in JobPlaces
      BY ServiceAssumption, PathsAssumption DEF JobPlaces
    <2>3. job \in JobRecord /\ job.kind = kind
      BY NoJobIs DEF JobRecord
    <2> HIDE DEF job, pc
    <2>. QED  BY <2>1, <2>2, <2>3, LockGood
  <1>. QED  BY <1>1, <1>2, <1>3

LEMMA ManagementGoesOn ==
    ASSUME ServiceInv, NEW j \in Jobs,
           ManageStops(j) \/ Resolve(j) \/ JobSteps(j) \/ JobFails(j)
    PROVE  Good
  <1>0. /\ jobs[j] \in JobRecord
        /\ jobs[j].kind \in {"manage", "worktree", "context"} => jobs[j].session \in SessionIds
    BY DEF ServiceInv, Typed
  <1>1. CASE Finish(j)
    BY <1>1, FinishGood
  <1>2. CASE ManageStops(j) \/ Resolve(j)
    BY <1>2, JobStepGood DEF ManageStops, Resolve, ServiceInv, Typed
  <1>3. CASE LockWorktree(j) /\ ~Finish(j)
    <2> DEFINE s == jobs[j].session
               keys == {Canonical[Base[s]], Canonical[Root[s]]}
    <2>1. jobs[j].kind = "worktree" /\ Lock(j, keys, jobs[j], "drain")
      BY <1>3 DEF LockWorktree, At
    <2>2. keys \in SUBSET Directories /\ "drain" \in JobPlaces
      BY <1>0, <2>1, ServiceAssumption, PathsAssumption DEF JobPlaces
    <2> HIDE DEF keys
    <2>. QED  BY <1>0, <2>1, <2>2, LockGood
  <1>4. CASE DrainDirectories(j) /\ ~Finish(j)
    <2> DEFINE here == DirectorySessions(jobs[j].keys)
               job == [jobs[j] EXCEPT !.pc = "stopping", !.todo = {s \in here : Has(s)}]
    <2>1. /\ driver' = StopIdle(here) /\ Elsewhere /\ UNCHANGED <<leaseVars, releaseOp>>
          /\ jobs' = [jobs EXCEPT ![j].pc = "stopping", ![j].todo = {s \in here : Has(s)}]
      BY <1>4 DEF DrainDirectories
    <2>2. {s \in here : Has(s)} \in SUBSET SessionIds
      BY DEF DirectorySessions, ServiceInv, Typed
    <2>3. job \in JobRecord /\ job.kind = jobs[j].kind /\ job.session = jobs[j].session
      BY <1>0, <2>2 DEF JobRecord, JobPlaces
    <2>4. jobs' = [jobs EXCEPT ![j] = job]
      BY <2>1 DEF ServiceInv, Typed
    <2> HIDE DEF job, here
    <2>. QED  BY <1>0, <2>1, <2>3, <2>4, MovedGood
  <1>5. CASE DirectoriesStopped(j)
    <2> DEFINE owners == {l.session : l \in conflicts(jobs[j].keys, NoOne)}
               job == [jobs[j] EXCEPT !.pc = "freeing", !.todo = owners]
    <2>1. /\ UNCHANGED <<leaseVars, releaseOp, driver>> /\ Elsewhere
          /\ jobs' = [jobs EXCEPT ![j].pc = "freeing", ![j].todo = owners]
      BY <1>5 DEF DirectoriesStopped
    <2>2. owners \in SUBSET SessionIds
      BY DEF conflicts, ServiceInv, Booked, Noted
    <2> HIDE DEF owners
    <2>3. job \in JobRecord /\ job.kind = jobs[j].kind /\ job.session = jobs[j].session
      BY <1>0, <2>2 DEF JobRecord, JobPlaces
    <2>4. jobs' = [jobs EXCEPT ![j] = job]
      BY <2>1 DEF ServiceInv, Typed
    <2> HIDE DEF job
    <2>. QED  BY <1>0, <2>1, <2>3, <2>4, MovedGood
  <1>6. CASE FreeDirectory(j)
    <2>1. PICK s \in jobs[j].todo :
            /\ Refresh(s, admissions, outer)
            /\ jobs' = [jobs EXCEPT ![j].todo = @ \ {s}, ![j].waiting = s]
      BY <1>6 DEF FreeDirectory
    <2> DEFINE job == [jobs[j] EXCEPT !.todo = @ \ {s}, !.waiting = s]
    <2>2. job \in JobRecord /\ job.kind = jobs[j].kind /\ job.session = jobs[j].session
      BY <1>0 DEF JobRecord
    <2>3. jobs' = [jobs EXCEPT ![j] = job]
      BY <2>1 DEF ServiceInv, Typed
    <2> HIDE DEF job
    <2>4. UNCHANGED <<leaseVars, driver>> /\ Elsewhere
      BY <1>6 DEF FreeDirectory
    <2>5. UNCHANGED <<cancellations, epochs, sessions, admissions, call>>
      BY <2>4 DEF Elsewhere, fenceVars, worldVars
    <2>6. Typed'
      <3>1. jobs' \in [Jobs -> JobRecord] /\ jobs'[j] = job /\ \A k \in Jobs : k # j => jobs'[k] = jobs[k]
        BY <2>2, <2>3 DEF ServiceInv, Typed
      <3>2. \A k \in Jobs : jobs'[k].kind \in {"manage", "worktree", "context"} =>
                jobs'[k].session \in SessionIds
        BY <2>2, <3>1 DEF ServiceInv, Typed
      <3>. QED  BY <2>4, <2>5, <3>1, <3>2 DEF ServiceInv, Typed
    <2>7. Booked'
      BY <2>1, <2>4, <2>5, RefreshKeeps DEF ServiceInv
    <2>8. DirectoryStep
      BY <2>4, SameProcesses DEF leaseVars
    <2>. QED  BY <2>6, <2>7, <2>8 DEF Good
  <1>7. ASSUME NEW pc \in {"action", "over"}, JobStep(j, pc), UNCHANGED <<leaseVars, releaseOp, driver>>,
               Elsewhere
        PROVE  Good
    <2> DEFINE job == [jobs[j] EXCEPT !.pc = pc]
    <2>1. job \in JobRecord /\ job.kind = jobs[j].kind /\ job.session = jobs[j].session
      BY <1>0 DEF JobRecord, JobPlaces
    <2>2. jobs' = [jobs EXCEPT ![j] = job]
      BY <1>7 DEF JobStep, ServiceInv, Typed
    <2> HIDE DEF job
    <2>. QED  BY <1>0, <1>7, <2>1, <2>2, MovedGood
  <1>8. CASE EnterDirectories(j) \/ ContextEnds(j)
    BY <1>1, <1>7, <1>8 DEF EnterDirectories, ContextEnds
  <1>9. CASE OwnContext(j)
    BY <1>1, <1>9, OwnContextGood
  <1>10. CASE EndJob(j) \/ JobFails(j)
    BY <1>1, <1>10 DEF EndJob, JobFails
  <1>. QED
    BY <1>1, <1>2, <1>3, <1>4, <1>5, <1>6, <1>8, <1>9, <1>10 DEF JobSteps

-----------------------------------------------------------------------------
(* The theorems.                                                           *)

LEMMA MaintenanceGood ==
    ASSUME ServiceInv, (\E p \in Providers : MaintenanceBegins(p)) \/ MaintenanceActs \/ MaintenanceEnds
    PROVE  Good
  <1>1. ASSUME NEW p \in Providers, MaintenanceBegins(p)
        PROVE  Good
    <2> DEFINE ids == {s \in sessions : Provider[s] = p}
    <2>1. /\ \A s \in ids : cancellations[s] < MaxCancels
          /\ epochs' = [epochs EXCEPT ![p] = epochs[p] + 1]
          /\ cancellations' = [s \in SessionIds |->
                 IF s \in ids THEN cancellations[s] + 1 ELSE cancellations[s]]
          /\ driver' = StopAll(ids)
          /\ UNCHANGED <<leaseVars, releaseOp, call, admissions, sessions, jobs>>
      BY <1>1 DEF MaintenanceBegins, worldVars, ServiceInv, Typed
    <2>2. cancellations' \in [SessionIds -> Generations] /\ epochs' \in [Providers -> Nat]
      BY <2>1, ServiceAssumption DEF ServiceInv, Typed
    <2> HIDE DEF ids
    <2>. QED  BY <2>1, <2>2, CutShortGood
  <1>2. CASE MaintenanceActs \/ MaintenanceEnds
    BY <1>2, UntouchedGood DEF MaintenanceActs, MaintenanceEnds, worldVars
  <1>. QED  BY <1>1, <1>2

LEMMA ServiceInvInit == ServiceInit => ServiceInv
  <1> SUFFICES ASSUME ServiceInit PROVE ServiceInv
    OBVIOUS
  <1>1. Typed
    BY NoCallIs, NoJobIs, ServiceAssumption DEF ServiceInit, Typed, DriverStates
  <1>2. Noted
    BY LeasesInvInit, ServiceAssumption DEF ServiceInit, Noted, Held, LeasesInit
  <1>3. Called
    BY NoCallIs DEF ServiceInit, Called, Past
  <1>4. Driven
    BY DEF ServiceInit, Driven
  <1>. QED  BY <1>1, <1>2, <1>3, <1>4 DEF ServiceInv, Booked

LEMMA ServiceInvNext == ServiceInv /\ [ServiceNext]_serviceVars => Good
  <1> SUFFICES ASSUME ServiceInv, [ServiceNext]_serviceVars
               PROVE  Good
    OBVIOUS
  <1>1. ASSUME NEW s \in SessionIds,
               \/ Submit(s) \/ CallSteps(s) \/ CallFails(s)
               \/ FinishRelease(s) \/ FailRelease(s)
               \/ TurnEnds(s) \/ NativeEnds(s) \/ ProcessGone(s) \/ ProcessDies(s)
               \/ Stop(s) \/ StopEnds(s) \/ Interrupt(s) \/ OuterBegins(s) \/ OuterEnds(s)
        PROVE  Good
    BY <1>1, SubmitGood, CallGood, FinishReleaseGood, FailReleaseGood, EngineGood, UserGood
  <1>2. ASSUME NEW j \in Jobs,
               \/ \E s \in SessionIds :
                     \/ \E kind \in {"manage", "worktree"} : Manage(j, s, kind)
                     \/ \E recover \in BOOLEAN : Maintain(j, s, recover)
               \/ \E source \in Sources, kind \in {"creation", "addition"} : Create(j, source, kind)
               \/ ManageStops(j) \/ DeleteRecord(j) \/ Resolve(j) \/ JobSteps(j) \/ JobFails(j)
        PROVE  Good
    BY <1>2, ManagementBegins, DeleteGood, ManagementGoesOn
  <1>3. CASE UNCHANGED serviceVars
    BY <1>3, UntouchedGood DEF serviceVars, leaseVars
  <1>. QED  BY <1>1, <1>2, <1>3, MaintenanceGood DEF ServiceNext

LEMMA ServiceInvHolds == ServiceSpec => []ServiceInv
  <1>1. ServiceInv /\ [ServiceNext]_serviceVars => ServiceInv'
    BY ServiceInvNext DEF Good, ServiceInv
  <1>. QED  BY <1>1, ServiceInvInit, PTL DEF ServiceSpec

\* Whatever runs, is stopped, evicted, deleted or maintained, and in whatever order
\* the awaited steps of acquireExecution, refreshDirectoryRelease and the management
\* operations go on, two sessions never hold directories of which one contains the
\* other, and no session holds two leases.
THEOREM ServiceLeasesAreExclusive == ServiceSpec => []LeasesExclusive
  <1>1. ServiceInv => LeasesExclusive
    BY DEF ServiceInv, Booked, Noted, LeasesInv
  <1>. QED  BY <1>1, ServiceInvHolds, PTL

\* The service implements ExclusiveDirectories: a session takes its directories as a
\* whole and from nobody, a process of it starts only while it has them, and they
\* are given back, by the release or by the deletion, only when nothing of the
\* session runs.
THEOREM ServiceTakesAndGivesUp == ServiceSpec => TakesAndGivesUp
  <1>1. ServiceInit => Directory!Init
    BY DEF ServiceInit, Directory!Init
  <1>2. ServiceInv /\ [ServiceNext]_serviceVars =>
            [Directory!Next]_<<{s \in SessionIds : executionLeases[s] # NoLease},
                               {s \in SessionIds : driver[s] # "none"}>>
    BY ServiceInvNext DEF Good, DirectoryStep, Holding, Running
  <1>. QED  BY <1>1, <1>2, ServiceInvHolds, PTL DEF ServiceSpec, TakesAndGivesUp, Directory!Spec

\* Whatever runs has its directories to itself: no two sessions with overlapping
\* directories ever have a process at the same time, a turn that is ending or a
\* native run whose end is in doubt included.
THEOREM RunsAreApart ==
    ServiceSpec => [](\A s, t \in SessionIds :
        s # t /\ driver[s] # "none" /\ driver[t] # "none" => ~RootsOverlap(Keys(s), Keys(t)))
  <1>1. ASSUME ServiceInv, NEW s \in SessionIds, NEW t \in SessionIds, s # t,
               driver[s] # "none", driver[t] # "none"
        PROVE  ~RootsOverlap(Keys(s), Keys(t))
    <2>1. Held(s) /\ Held(t)
      BY <1>1 DEF ServiceInv, Booked, Driven
    <2>2. /\ executionLeases[s] \in leases /\ executionLeases[t] \in leases
          /\ executionLeases[s].session = s /\ executionLeases[t].session = t
          /\ executionLeases[s].roots = Keys(s) /\ executionLeases[t].roots = Keys(t)
      BY <1>1, <2>1 DEF ServiceInv, Booked, Noted, Held
    <2>. QED  BY <1>1, <2>2 DEF ServiceInv, Booked, Noted, LeasesInv, LeasesExclusive
  <1>2. ServiceInv => \A s, t \in SessionIds :
            s # t /\ driver[s] # "none" /\ driver[t] # "none" => ~RootsOverlap(Keys(s), Keys(t))
    BY <1>1
  <1>. QED  BY <1>2, ServiceInvHolds, PTL

-----------------------------------------------------------------------------
(* Cancelled calls.                                                        *)

\* A call that a stop, an interrupt or a maintenance has overtaken can tell: the
\* counter it remembers is behind, and stays behind, for counters never go back.
Overtaken(s) ==
    call[s].cancelled < cancellations[s] \/ call[s].epoch < epochs[Provider[s]]
Remembered ==
    /\ revoked \subseteq {s \in SessionIds : call[s].pc \notin {"none", "sending"}}
    /\ \A s \in SessionIds : call[s].pc # "none" =>
          call[s].cancelled <= cancellations[s] /\ call[s].epoch <= epochs[Provider[s]]
    /\ \A s \in revoked : Overtaken(s)

\* What every step does to one call: nothing, its end, or a move that keeps what it
\* remembers; and an overtaken call never moves on to "sending".
CallKept(s) ==
    /\ call'[s].cancelled = call[s].cancelled /\ call'[s].epoch = call[s].epoch
    /\ call'[s].pc # "none" /\ call[s].pc # "none"
    /\ call'[s].pc = "sending" => call[s].pc = "sending" \/ StillAdmitted(s)

CallMoves == \A s \in SessionIds :
    \/ call'[s] = call[s]
    \/ call'[s] = NoCall /\ s \notin revoked'
    \/ CallKept(s)
    \/ /\ call[s].pc = "none" /\ call'[s].pc \in {"roots", "releasing"}
       /\ call'[s].cancelled = cancellations[s] /\ call'[s].epoch = epochs[Provider[s]]

\* The counters only grow, and whoever is newly revoked has one that does.
CountersMove ==
    /\ \A s \in SessionIds : cancellations'[s] >= cancellations[s]
    /\ \A p \in Providers : epochs'[p] >= epochs[p]
    /\ \A s \in revoked' \ revoked :
          s \in SessionIds /\ call[s].pc \notin {"none", "sending"} /\ call'[s] = call[s]
              /\ cancellations'[s] > cancellations[s]

LEMMA RememberedStep ==
    ASSUME Remembered, Typed, Typed', CallMoves, CountersMove
    PROVE  Remembered' /\ \A s \in revoked : call[s].pc = "admitted" => call'[s].pc # "sending"
  <1>1. \A s \in SessionIds :
            /\ cancellations[s] \in Nat /\ cancellations'[s] \in Nat
            /\ epochs[Provider[s]] \in Nat /\ epochs'[Provider[s]] \in Nat
            /\ call[s].cancelled \in Nat /\ call[s].epoch \in Nat
            /\ epochs'[Provider[s]] >= epochs[Provider[s]]
    BY ServiceAssumption DEF Typed, CallRecord, CountersMove
  <1>2. \A s \in SessionIds : Overtaken(s) => ~StillAdmitted(s)
    BY <1>1 DEF Overtaken, StillAdmitted, EngineCurrent
  <1>3. ASSUME NEW s \in revoked
        PROVE  call[s].pc = "admitted" => call'[s].pc # "sending"
    <2>1. s \in SessionIds /\ Overtaken(s) /\ call[s].pc # "none"
      BY DEF Remembered
    <2>. QED  BY <1>2, <2>1, NoCallIs DEF CallMoves, CallKept
  <1>4. ASSUME NEW s \in SessionIds, s \in revoked'
        PROVE  call'[s].pc \notin {"none", "sending"} /\ Overtaken(s)'
    <2>1. CASE s \in revoked
      <3>1. Overtaken(s) /\ call[s].pc \notin {"none", "sending"}
        BY <2>1 DEF Remembered
      <3>2. call'[s] = call[s] \/ CallKept(s)
        BY <1>4, <3>1 DEF CallMoves
      <3>3. call'[s].pc \notin {"none", "sending"}
        BY <1>2, <3>1, <3>2 DEF CallKept
      <3>4. call'[s].cancelled = call[s].cancelled /\ call'[s].epoch = call[s].epoch
        BY <3>2 DEF CallKept
      <3>5. cancellations'[s] >= cancellations[s]
        BY DEF CountersMove
      <3>. QED  BY <1>1, <3>1, <3>3, <3>4, <3>5 DEF Overtaken
    <2>2. CASE s \notin revoked
      <3>1. /\ call[s].pc \notin {"none", "sending"} /\ call'[s] = call[s]
            /\ cancellations'[s] > cancellations[s] /\ call[s].cancelled <= cancellations[s]
        BY <1>4, <2>2 DEF CountersMove, Remembered
      <3>. QED  BY <1>1, <3>1 DEF Overtaken
    <2>. QED  BY <2>1, <2>2
  <1>5. revoked' \subseteq SessionIds
    BY DEF CountersMove, Remembered
  <1>6. ASSUME NEW s \in SessionIds, call'[s].pc # "none"
        PROVE  call'[s].cancelled <= cancellations'[s] /\ call'[s].epoch <= epochs'[Provider[s]]
    <2>1. CASE call'[s] = call[s] \/ CallKept(s)
      BY <1>1, <1>6, <2>1 DEF CallKept, Remembered, CountersMove
    <2>2. CASE call'[s].cancelled = cancellations[s] /\ call'[s].epoch = epochs[Provider[s]]
      BY <1>1, <2>2 DEF CountersMove
    <2>. QED  BY <1>6, <2>1, <2>2, NoCallIs DEF CallMoves
  <1>. QED  BY <1>3, <1>4, <1>5, <1>6 DEF Remembered

LEMMA CallMoved ==
    ASSUME ServiceInv, NEW s \in SessionIds, call[s].pc # "none",
           UNCHANGED <<cancellations, epochs, revoked>>,
           \/ \E pc \in Places \ {"none"} : Step(s, pc) /\ (pc = "sending" => StillAdmitted(s))
           \/ \E managed, v, goal, todo : Evict(s, managed, v, goal, todo)
           \/ call' = [call EXCEPT ![s].pc = "freeing"]
    PROVE  CallMoves /\ CountersMove
  <1>1. /\ CountersMove
        /\ \A t \in SessionIds : call[t] \in CallRecord
    BY ServiceAssumption DEF CountersMove, ServiceInv, Typed
  <1>2. /\ \A t \in SessionIds \ {s} : call'[t] = call[t]
        /\ call'[s].cancelled = call[s].cancelled /\ call'[s].epoch = call[s].epoch
        /\ call'[s].pc # "none"
        /\ call'[s].pc = "sending" => StillAdmitted(s)
    <2>1. CASE \E pc \in Places \ {"none"} : Step(s, pc) /\ (pc = "sending" => StillAdmitted(s))
      <3>1. PICK pc \in Places \ {"none"} : Step(s, pc) /\ (pc = "sending" => StillAdmitted(s))
        BY <2>1
      <3>2. call' = [call EXCEPT ![s] = [call[s] EXCEPT !.pc = pc, !.goal = "none",
                                                        !.victim = NoOne, !.todo = {}]]
        BY <3>1 DEF Step, ServiceInv, Typed
      <3>. QED  BY <1>1, <3>1, <3>2 DEF ServiceInv, Typed, CallRecord
    <2>2. CASE \E managed, v, goal, todo : Evict(s, managed, v, goal, todo)
      <3>1. PICK v, goal, todo : call' = [call EXCEPT ![s].pc = "stopping", ![s].victim = v,
                                                      ![s].goal = goal, ![s].todo = todo]
        BY <2>2 DEF Evict
      <3>2. call' = [call EXCEPT ![s] = [call[s] EXCEPT !.pc = "stopping", !.victim = v,
                                                        !.goal = goal, !.todo = todo]]
        BY <3>1 DEF ServiceInv, Typed
      <3>. QED  BY <1>1, <3>2 DEF ServiceInv, Typed, CallRecord
    <2>3. CASE call' = [call EXCEPT ![s].pc = "freeing"]
      <3>1. call' = [call EXCEPT ![s] = [call[s] EXCEPT !.pc = "freeing"]]
        BY <2>3 DEF ServiceInv, Typed
      <3>. QED  BY <1>1, <3>1 DEF ServiceInv, Typed, CallRecord
    <2>. QED  BY <2>1, <2>2, <2>3
  <1>3. CallMoves
    BY <1>2 DEF CallMoves, CallKept
  <1>. QED  BY <1>1, <1>3

LEMMA CallsUntouched ==
    ASSUME ServiceInv, UNCHANGED <<call, cancellations, epochs, revoked>>
    PROVE  CallMoves /\ CountersMove
  BY ServiceAssumption DEF CallMoves, CountersMove, ServiceInv, Typed

LEMMA CallStepMoves ==
    ASSUME ServiceInv, NEW s \in SessionIds, Submit(s) \/ CallSteps(s) \/ CallFails(s)
    PROVE  CallMoves /\ CountersMove
  <1>1. CASE Reject(s) /\ call[s].pc # "none"
    <2>1. /\ call' = [call EXCEPT ![s] = NoCall] /\ revoked' = revoked \ {s}
          /\ UNCHANGED <<cancellations, epochs>>
      BY <1>1 DEF Reject, Leave, fenceVars
    <2>. QED  BY <2>1, ServiceAssumption DEF CallMoves, CountersMove, ServiceInv, Typed
  <1>2. CASE Submit(s)
    <2> DEFINE pc == IF releaseOp[s] = NoLease THEN "roots" ELSE "releasing"
               c == [NoCall EXCEPT !.pc = pc, !.cancelled = cancellations[s],
                                   !.epoch = epochs[Provider[s]]]
    <2>1. call' = [call EXCEPT ![s] = c] /\ call[s].pc = "none" /\ UNCHANGED <<cancellations, epochs, revoked>>
      BY <1>2 DEF Submit, fenceVars
    <2>2. c.pc \in {"roots", "releasing"} /\ c.cancelled = cancellations[s] /\ c.epoch = epochs[Provider[s]]
      BY DEF NoCall
    <2> HIDE DEF c
    <2>. QED  BY <2>1, <2>2, ServiceAssumption DEF CallMoves, CountersMove, ServiceInv, Typed
  <1>3. CASE /\ call[s].pc # "none" /\ UNCHANGED <<cancellations, epochs, revoked>>
             /\ \/ \E pc \in Places \ {"none"} : Step(s, pc) /\ (pc = "sending" => StillAdmitted(s))
                \/ \E managed, v, goal, todo : Evict(s, managed, v, goal, todo)
                \/ call' = [call EXCEPT ![s].pc = "freeing"]
    BY <1>3, CallMoved
  <1>4. ASSUME NEW managed, call[s].pc # "none",
               (\E todo : Drain(s, managed, todo)) \/ Settle(s, managed)
        PROVE  CallMoves /\ CountersMove
    <2>1. \/ Reject(s)
          \/ /\ Underway
             /\ \/ \E pc \in {"recheck", "admitted"} : Step(s, pc)
                \/ \E v, goal, todo : Evict(s, managed, v, goal, todo)
      <3>1. CASE Settle(s, managed)
        BY <3>1 DEF Settle
      <3>2. CASE \E todo : Drain(s, managed, todo)
        BY <3>2 DEF Drain
      <3>. QED  BY <1>4, <3>1, <3>2
    <2>. QED  BY <1>1, <1>3, <1>4, <2>1 DEF Underway, fenceVars, Places
  <1>5. CASE CallFails(s)
    BY <1>1, <1>5 DEF CallFails
  <1>6. CASE Released(s)
    BY <1>1, <1>3, <1>6 DEF Released, Underway, fenceVars, Places
  <1>7. CASE FindRoots(s)
    BY <1>1, <1>4, <1>7 DEF FindRoots
  <1>8. CASE Stopped(s)
    BY <1>1, <1>3, <1>8 DEF Stopped, Underway, fenceVars
  <1>9. CASE Freed(s)
    BY <1>1, <1>4, <1>9 DEF Freed
  <1>10. CASE Recheck(s)
    BY <1>1, <1>3, <1>10 DEF Recheck, Underway, fenceVars, Places
  <1>11. CASE AcquireExecution(s)
    BY <1>1, <1>3, <1>11 DEF AcquireExecution, Underway, fenceVars, Places
  <1>12. CASE FindCapacity(s)
    BY <1>1, <1>4, <1>12 DEF FindCapacity
  <1>13. CASE Send(s)
    BY <1>1, <1>3, <1>13 DEF Send, Underway, fenceVars, Places
  <1>14. CASE Return(s)
    BY <1>1, <1>14 DEF Return
  <1>. QED
    BY <1>2, <1>5, <1>6, <1>7, <1>8, <1>9, <1>10, <1>11, <1>12, <1>13, <1>14 DEF CallSteps

\* Stops, interrupts and maintenances: the counters of those whose call is revoked grow.
LEMMA CutShortMoves ==
    ASSUME ServiceInv, NEW ids \in SUBSET SessionIds, revoked' = Revoke(ids), UNCHANGED call,
           \A s \in SessionIds : cancellations'[s] = IF s \in ids THEN cancellations[s] + 1 ELSE cancellations[s],
           \A p \in Providers : epochs'[p] \in {epochs[p], epochs[p] + 1}
    PROVE  CallMoves /\ CountersMove
  <1>1. CallMoves
    BY DEF CallMoves
  <1>2. \A s \in SessionIds : cancellations[s] \in Nat
    BY ServiceAssumption DEF ServiceInv, Typed
  <1>3. \A p \in Providers : epochs[p] \in Nat
    BY DEF ServiceInv, Typed
  <1>4. CountersMove
    BY <1>2, <1>3 DEF CountersMove, Revoke
  <1>. QED  BY <1>1, <1>4

LEMMA CallsMove ==
    ASSUME ServiceInv, [ServiceNext]_serviceVars
    PROVE  CallMoves /\ CountersMove
  <1>1. ASSUME NEW s \in SessionIds, Submit(s) \/ CallSteps(s) \/ CallFails(s)
        PROVE  CallMoves /\ CountersMove
    BY <1>1, CallStepMoves
  <1>2. ASSUME NEW s \in SessionIds, Stop(s) \/ Interrupt(s)
        PROVE  CallMoves /\ CountersMove
    <2>1. /\ cancellations' = [cancellations EXCEPT ![s] = cancellations[s] + 1]
          /\ revoked' = Revoke({s}) /\ UNCHANGED <<call, epochs>>
      BY <1>2 DEF Stop, Interrupt, Cancel, ServiceInv, Typed
    <2>2. \A t \in SessionIds : cancellations'[t] =
              IF t \in {s} THEN cancellations[t] + 1 ELSE cancellations[t]
      BY <2>1 DEF ServiceInv, Typed
    <2>. QED  BY <2>1, <2>2, CutShortMoves
  <1>3. ASSUME NEW p \in Providers, MaintenanceBegins(p)
        PROVE  CallMoves /\ CountersMove
    <2> DEFINE ids == {s \in sessions : Provider[s] = p}
    <2>1. /\ epochs' = [epochs EXCEPT ![p] = epochs[p] + 1]
          /\ cancellations' = [s \in SessionIds |->
                 IF s \in ids THEN cancellations[s] + 1 ELSE cancellations[s]]
          /\ revoked' = Revoke(ids) /\ UNCHANGED call
      BY <1>3 DEF MaintenanceBegins, ServiceInv, Typed
    <2>2. ids \in SUBSET SessionIds /\ \A q \in Providers : epochs'[q] \in {epochs[q], epochs[q] + 1}
      BY <2>1 DEF ServiceInv, Typed
    <2> HIDE DEF ids
    <2>. QED  BY <2>1, <2>2, CutShortMoves
  <1>4. ASSUME NEW s \in SessionIds,
               \/ FinishRelease(s) \/ FailRelease(s)
               \/ TurnEnds(s) \/ NativeEnds(s) \/ ProcessGone(s) \/ ProcessDies(s)
               \/ StopEnds(s) \/ OuterBegins(s) \/ OuterEnds(s)
        PROVE  CallMoves /\ CountersMove
    <2>1. UNCHANGED <<call, cancellations, epochs, revoked>>
      BY <1>4 DEF FinishRelease, ReleaseOnly, FailRelease, TurnEnds, NativeEnds, ProcessGone,
                  ProcessDies, DriverOnly, StopEnds, OuterBegins, OuterEnds, fenceVars
    <2>. QED  BY <2>1, CallsUntouched
  <1>5. ASSUME NEW j \in Jobs,
               \/ \E s \in SessionIds :
                     \/ \E kind \in {"manage", "worktree"} : Manage(j, s, kind)
                     \/ \E recover \in BOOLEAN : Maintain(j, s, recover)
               \/ \E source \in Sources, kind \in {"creation", "addition"} : Create(j, source, kind)
               \/ ManageStops(j) \/ DeleteRecord(j) \/ Resolve(j) \/ JobSteps(j) \/ JobFails(j)
        PROVE  CallMoves /\ CountersMove
    <2>1. CASE Elsewhere
      BY <2>1, CallsUntouched DEF Elsewhere, fenceVars
    <2>2. CASE DeleteRecord(j)
      BY <2>2, CallsUntouched DEF DeleteRecord, fenceVars
    <2>3. CASE JobSteps(j) \/ JobFails(j)
      BY <2>1, <2>3 DEF JobSteps, JobFails, LockWorktree, DrainDirectories, DirectoriesStopped, FreeDirectory,
                        EnterDirectories, OwnContext, ContextEnds, EndJob, Finish, Lock
    <2>4. CASE ManageStops(j) \/ Resolve(j)
      BY <2>1, <2>4 DEF ManageStops, Resolve
    <2>5. CASE \E s \in SessionIds :
                     \/ \E kind \in {"manage", "worktree"} : Manage(j, s, kind)
                     \/ \E recover \in BOOLEAN : Maintain(j, s, recover)
      BY <2>1, <2>5 DEF Manage, Maintain
    <2>6. CASE \E source \in Sources, kind \in {"creation", "addition"} : Create(j, source, kind)
      BY <2>1, <2>6 DEF Create, Lock
    <2>. QED  BY <1>5, <2>2, <2>3, <2>4, <2>5, <2>6
  <1>6. CASE MaintenanceActs \/ MaintenanceEnds \/ UNCHANGED serviceVars
    BY <1>6, CallsUntouched DEF MaintenanceActs, MaintenanceEnds, serviceVars
  <1>7. CASE \E s \in SessionIds :
               \/ Submit(s) \/ CallSteps(s) \/ CallFails(s)
               \/ FinishRelease(s) \/ FailRelease(s)
               \/ TurnEnds(s) \/ NativeEnds(s) \/ ProcessGone(s) \/ ProcessDies(s)
               \/ Stop(s) \/ StopEnds(s) \/ Interrupt(s) \/ OuterBegins(s) \/ OuterEnds(s)
    BY <1>1, <1>2, <1>4, <1>7
  <1>. QED  BY <1>3, <1>5, <1>6, <1>7 DEF ServiceNext

\* A call that was under way when its session was stopped or interrupted, or its
\* engine maintained, never reaches the engine: it was admitted under counters that
\* are behind for good, and the last checks of runChat and start compare them.
THEOREM CancelledCallsStayAway == ServiceSpec => CancelledCallsNeverRun
  <1>1. ServiceInit => Remembered
    BY NoCallIs DEF ServiceInit, Remembered
  <1>2. ServiceInv /\ ServiceInv' /\ Remembered /\ [ServiceNext]_serviceVars =>
            /\ Remembered'
            /\ [\A s \in revoked : call[s].pc = "admitted" => call'[s].pc # "sending"]_serviceVars
    BY CallsMove, RememberedStep DEF ServiceInv
  <1>. QED  BY <1>1, <1>2, ServiceInvHolds, PTL DEF ServiceSpec, CancelledCallsNeverRun

-----------------------------------------------------------------------------
(* The life of a session: who manages and evicts whom, what is busy at the *)
(* same time, and that every lease is accounted for.  The parts of LifeInv *)
(* lean on ServiceInv, the invariant of the section before, and on each    *)
(* other.                                                                  *)

\* The sessions with a job, and those that a call evicts, are exactly the managed
\* ones, no two operations manage the same session, and none of them has a call of
\* its own or is held by a queue or workflow.
Managed ==
    /\ \A s \in SessionIds : call[s].victim # NoOne <=> call[s].pc \in {"stopping", "freeing"}
    /\ \A s \in SessionIds : call[s].pc = "none" => call[s] = NoCall
    /\ lifecycle = ({call[s].victim : s \in SessionIds} \cup {jobs[j].session : j \in Jobs})
                      \ {NoOne}
    /\ \A s, t \in SessionIds : s # t /\ call[s].victim # NoOne => call[t].victim # call[s].victim
    /\ \A s \in SessionIds, j \in Jobs :
          call[s].victim # NoOne => jobs[j].session # call[s].victim
    /\ \A i, j \in Jobs : i # j /\ jobs[i].session # NoOne => jobs[j].session # jobs[i].session
    /\ outer \subseteq sessions
    /\ lifecycle \cap (admissions \cup outer) = {}

\* The locks are the directories of the jobs, each of one job only, which takes
\* them once.
Locked ==
    /\ directoryLocks = UNION {jobs[j].keys : j \in Jobs}
    /\ \A i, j \in Jobs : i # j => jobs[i].keys \cap jobs[j].keys = {}
    /\ \A j \in Jobs : jobs[j].pc \in {"none", "keys", "roots"} => jobs[j].keys = {}

\* What each engine's processes can be.
Engines ==
    \A s \in SessionIds :
        /\ Native(s) => driver[s] \in {"none", "busy", "stuck", "unclosed"}
        /\ Native(s) /\ driver[s] = "busy" => call[s].pc = "sending"
        /\ driver[s] \in {"stuck", "unclosed"} => Native(s) /\ s \in recovery

\* A context operation keeps its session's lease from being given back: until it
\* has the directories there is a lease only if the last run left it in doubt, and
\* then nothing of the session runs or is being released.
Contexts ==
    \A j \in Jobs : jobs[j].kind = "context" =>
        LET s == jobs[j].session
        IN  /\ Native(s) /\ jobs[j].pc \in {"roots", "action", "over"}
            /\ jobs[j].pc \in {"roots", "action"} =>
                  s \in sessions /\ driver[s] = "none" /\ releaseOp[s] = NoLease
            /\ jobs[j].pc = "roots" /\ Held(s) => s \in recovery
            /\ jobs[j].pc = "action" => Held(s) /\ jobs[j].keys = Keys(s)

\* A native session's lease is in use, in doubt, about to be given back, or the
\* business of a job.
Owed ==
    \A s \in SessionIds : Native(s) /\ Held(s) =>
        \/ driver[s] # "none" \/ releaseOp[s] # NoLease
        \/ s \in admissions \cup outer \cup recovery
        \/ \E j \in Jobs : jobs[j].session = s

\* An evicted session is ending or gone.
Victims ==
    \A s \in SessionIds :
        LET v == call[s].victim
        IN  v # NoOne =>
              /\ Structured(v)
              /\ Claude(v) => driver[v] \in {"closing", "none"}
              /\ ~Claude(v) => driver[v] = "none"
              /\ Native(v) => ~Held(v)

LifeInv == Managed /\ Locked /\ Engines /\ Contexts /\ Owed /\ Victims

\* Whoever has a conversation keeps it to itself from its admission on.
Alone ==
    \A s, t \in SessionIds : s # t /\ Conversation[s] = Conversation[t] =>
        ~((driver[s] # "none" \/ s \in admissions) /\ (driver[t] # "none" \/ t \in admissions))

\* There is room for what is alive and what is about to be.
Risen == {s \in SessionIds : Alive(s) \/ call[s].pc = "admitted"}
Room == Cardinality(Risen) <= MaxSessions

\* Near a session in doubt nothing runs: either its lease keeps the others out, or,
\* after a start, nobody has come past the second look at the recovery records.
Doubted ==
    \A s \in recovery \cap sessions, t \in SessionIds :
        s # t /\ RootsOverlap(Keys(s), Keys(t)) =>
            /\ ~Alive(t)
            /\ Held(s) \/ (call[t].pc # "acquire" /\ ~Past(call[t]))

\* Where a worktree is created or managed, or a context operation is at work, nobody
\* else has a lease.
Secluded ==
    \A j \in Jobs : At(j, {"worktree", "creation", "context"}, "action") =>
        \A s \in SessionIds : Held(s) /\ (jobs[j].kind = "context" => s # jobs[j].session) =>
            ~RootsOverlap(jobs[j].keys, Keys(s))

\* Nothing of an engine moves during the action of its maintenance.
Maintained ==
    /\ \A s \in maintenance.ids : s \in SessionIds /\ Provider[s] = maintenance.engine
    /\ maintenance.acting =>
          /\ maintenance.engine # NoOne
          /\ \A s \in maintenance.ids :
                ~Alive(s) /\ s \notin admissions /\ \A j \in Jobs : jobs[j].session # s

-----------------------------------------------------------------------------
(* The steps, by what they do.  A call is refused or over, goes on, evicts *)
(* an idle session, has stopped it, takes its directories, or is sent.     *)

Rejected(s) ==
    /\ Reject(s) /\ call[s].pc # "none"
    /\ Native(s) /\ call[s].pc = "sending" => driver[s] # "busy"

Goes(s) == \E pc \in {"roots", "recheck", "acquire", "admitted"} :
    /\ Step(s, pc) /\ Underway /\ UNCHANGED <<leaseVars, releaseOp, driver>>
    /\ lifecycle' = lifecycle \ {call[s].victim}
    /\ call[s].pc \in {"releasing", "roots", "recheck", "capacity", "freeing"}
    /\ pc = "acquire" => RecoveryClear(Keys(s))
    /\ pc = "admitted" => ~Full /\ Past(call[s])

Evicts(s) == \E v \in sessions, goal \in {"acquire", "capacity"}, todo \in SUBSET SessionIds :
    /\ Evict(s, lifecycle \ {call[s].victim}, v, goal, todo)
    /\ Underway /\ UNCHANGED <<leaseVars, releaseOp>>
    /\ Idle(v, lifecycle \ {call[s].victim})
    /\ call[s].pc \in {"roots", "capacity", "freeing"} /\ (goal = "capacity" => Past(call[s]))

HasStopped(s) == Stopped(s) /\ ~Reject(s)
Takes(s) == AcquireExecution(s) /\ ~Reject(s)
IsSent(s) == Send(s) /\ ~Reject(s)

\* Whatever a call was, its victim goes with the step that leaves it.
LEMMA CallForms ==
    ASSUME ServiceInv, LifeInv, NEW s \in SessionIds, CallSteps(s) \/ CallFails(s)
    PROVE  Rejected(s) \/ Goes(s) \/ Evicts(s) \/ HasStopped(s) \/ Takes(s) \/ IsSent(s)
  <1>1. NoOne \notin lifecycle
    BY DEF LifeInv, Managed
  <1>2. call[s].pc \notin {"stopping", "freeing"} => lifecycle = lifecycle \ {call[s].victim}
    BY <1>1 DEF LifeInv, Managed
  <1>3. ASSUME NEW managed, managed = lifecycle \ {call[s].victim}, NEW todo \in SUBSET SessionIds,
               Drain(s, managed, todo), call[s].pc \in {"roots", "freeing"}
        PROVE  Goes(s) \/ Evicts(s)
    <2>1. CASE Step(s, "recheck") /\ lifecycle' = managed /\ UNCHANGED driver
      BY <1>3, <2>1 DEF Goes, Drain
    <2>2. CASE \E v \in {w \in todo : Idle(w, managed)} : Evict(s, managed, v, "acquire", todo \ {v})
      <3>1. PICK v \in todo : Idle(v, managed) /\ Evict(s, managed, v, "acquire", todo \ {v})
        BY <2>2
      <3>2. v \in sessions /\ todo \ {v} \in SUBSET SessionIds
        BY <3>1 DEF Idle
      <3>. QED  BY <1>3, <3>1, <3>2 DEF Evicts, Drain
    <2>. QED  BY <1>3, <2>1, <2>2 DEF Drain
  <1>4. ASSUME NEW managed, managed = lifecycle \ {call[s].victim}, Settle(s, managed),
               call[s].pc \in {"capacity", "freeing"}, Past(call[s])
        PROVE  Rejected(s) \/ Goes(s) \/ Evicts(s)
    <2>1. CASE Reject(s)
      BY <1>4, <2>1 DEF Rejected
    <2>2. CASE ~Full /\ Step(s, "admitted") /\ lifecycle' = managed /\ UNCHANGED driver /\ ~Reject(s)
      BY <1>4, <2>2 DEF Goes, Settle
    <2>3. CASE ~Reject(s) /\ \E v \in {w \in sessions \ {s} : Idle(w, managed) /\ Has(w) /\ Unlocked({Place(w)})} :
                  Evict(s, managed, v, "capacity", {})
      <3>1. PICK v \in sessions : Idle(v, managed) /\ Evict(s, managed, v, "capacity", {})
        BY <2>3
      <3>2. {} \in SUBSET SessionIds
        OBVIOUS
      <3>. QED  BY <1>4, <2>3, <3>1, <3>2 DEF Evicts, Settle
    <2>. QED  BY <1>4, <2>1, <2>2, <2>3 DEF Settle
  <1>5. CASE CallFails(s) \/ Return(s)
    BY <1>5 DEF CallFails, Return, Rejected
  <1>6. CASE Released(s)
    BY <1>2, <1>6 DEF Released, Rejected, Goes, Past
  <1>7. CASE FindRoots(s)
    <2> DEFINE todo == {l.session : l \in conflicts(Keys(s), s)}
    <2>1. todo \in SUBSET SessionIds
      BY DEF ServiceInv, Booked, Noted, conflicts
    <2>2. call[s].pc = "roots" /\ (Reject(s) \/ Drain(s, lifecycle, todo))
      BY <1>7 DEF FindRoots
    <2> HIDE DEF todo
    <2>. QED  BY <1>2, <1>3, <2>1, <2>2 DEF Rejected
  <1>8. CASE Stopped(s)
    BY <1>8 DEF Stopped, HasStopped, Rejected
  <1>9. CASE Freed(s)
    <2>1. call[s].todo \in SUBSET SessionIds
      BY DEF ServiceInv, Typed, CallRecord
    <2>2. /\ call[s].pc = "freeing"
          /\ \/ Drain(s, lifecycle \ {call[s].victim}, call[s].todo)
             \/ call[s].goal # "acquire" /\ Settle(s, lifecycle \ {call[s].victim})
             \/ Reject(s)
      BY <1>9 DEF Freed
    <2>. QED  BY <1>3, <1>4, <2>1, <2>2 DEF Rejected, Past
  <1>10. CASE Recheck(s)
    BY <1>2, <1>10 DEF Recheck, Rejected, Goes
  <1>11. CASE AcquireExecution(s) \/ Send(s)
    BY <1>11 DEF Takes, IsSent, AcquireExecution, Send, Rejected
  <1>12. CASE FindCapacity(s)
    BY <1>2, <1>4, <1>12 DEF FindCapacity, Rejected, Past
  <1>. QED
    BY <1>5, <1>6, <1>7, <1>8, <1>9, <1>10, <1>11, <1>12 DEF CallSteps

-----------------------------------------------------------------------------
(* A job begins, takes its locks, goes on, takes the directories of a      *)
(* native session, has its uncertain run confirmed, deletes its record, or *)
(* is over.                                                                *)

Ceases(j) == Finish(j) /\ ~At(j, {"context"}, "action")

Starts(j) == \E s \in SessionIds, job \in JobRecord :
    /\ jobs[j] = NoJob /\ jobs' = [jobs EXCEPT ![j] = job]
    /\ job.session = s /\ job.keys = {}
    /\ s \in sessions \ (admissions \cup outer) /\ SessionUnlocked(s, lifecycle)
    /\ \/ job.kind = "manage" \/ (job.kind = "worktree" /\ job.pc = "keys")
       \/ job.kind = "context" /\ job.pc = "roots" /\ Native(s) /\ ContextFree(s, job.recover)
    /\ lifecycle' = lifecycle \cup {s}
    /\ UNCHANGED <<leaseVars, directoryLocks, releaseOp, driver, recovery>> /\ Elsewhere

Locks(j) == \E job \in JobRecord :
    /\ jobs[j].keys = {} /\ jobs' = [jobs EXCEPT ![j] = job]
    /\ job.session = jobs[j].session /\ jobs[j].kind # "context"
    /\ \/ job.kind = "addition" /\ job.pc = "action"
       \/ job.kind \in {"worktree", "creation"} /\ job.pc = "drain"
    /\ Unlocked(job.keys) /\ directoryLocks' = directoryLocks \cup job.keys
    /\ UNCHANGED <<leaseVars, lifecycle, releaseOp, driver, recovery>> /\ Elsewhere

Moves(j) == \E job \in JobRecord :
    /\ jobs' = [jobs EXCEPT ![j] = job]
    /\ job.kind = jobs[j].kind /\ job.session = jobs[j].session /\ job.keys = jobs[j].keys
    /\ \/ /\ job.kind # "context" /\ (job.pc \in {"none", "keys", "roots"} => job.pc = jobs[j].pc)
          /\ job.kind \in {"worktree", "creation"} /\ job.pc = "action" =>
                Vacant(job.keys) \/ job = jobs[j]
       \/ job.kind = "context" /\ jobs[j].pc = "action" /\ job.pc = "over"
    /\ \/ UNCHANGED releaseOp /\ \E ids : driver' \in {driver, StopIdle(ids)}
       \/ UNCHANGED driver /\ \E s \in SessionIds : Refresh(s, admissions, outer)
    /\ UNCHANGED <<leaseVars, directoryLocks, lifecycle, recovery>> /\ Elsewhere

TakesContext(j) == OwnContext(j) /\ ~Finish(j)

JobAction(j) ==
    \/ \E s \in SessionIds :
          \/ \E kind \in {"manage", "worktree"} : Manage(j, s, kind)
          \/ \E recover \in BOOLEAN : Maintain(j, s, recover)
    \/ \E source \in Sources, kind \in {"creation", "addition"} : Create(j, source, kind)
    \/ ManageStops(j) \/ DeleteRecord(j) \/ Resolve(j) \/ JobSteps(j) \/ JobFails(j)

LEMMA JobForms ==
    ASSUME ServiceInv, LifeInv, NEW j \in Jobs, JobAction(j)
    PROVE  Ceases(j) \/ Starts(j) \/ Locks(j) \/ Moves(j) \/ TakesContext(j) \/ Resolve(j) \/ DeleteRecord(j)
  <1>1. /\ jobs[j] \in JobRecord /\ NoJob \in JobRecord
        /\ jobs[j].session \in SessionIds \cup {NoOne}
        /\ jobs[j].kind \in {"manage", "worktree", "context"} => jobs[j].session \in SessionIds
    BY NoJobIs DEF ServiceInv, Typed, JobRecord
  <1>2. jobs[j].kind = "context" => jobs[j].pc \in {"roots", "action", "over"}
    BY DEF LifeInv, Contexts
  <1>3. \A s \in sessions : s \in SessionIds
    BY DEF ServiceInv, Typed
  <1>4. ASSUME NEW s \in SessionIds, NEW kind \in {"manage", "worktree"}, Manage(j, s, kind)
        PROVE  Starts(j)
    <2> DEFINE pc == IF kind = "manage" THEN "action" ELSE "keys"
               job == [NoJob EXCEPT !.kind = kind, !.session = s,
                         !.epoch = epochs[Provider[s]], !.pc = pc]
    <2>1. epochs[Provider[s]] \in Nat /\ pc \in JobPlaces
      BY ServiceAssumption DEF ServiceInv, Typed, JobPlaces
    <2>2. /\ job \in JobRecord /\ job.session = s /\ job.keys = {} /\ job.kind = kind /\ job.pc = pc
      BY <1>1, <2>1 DEF JobRecord, NoJob
    <2>3. jobs' = [jobs EXCEPT ![j] = job]
      BY <1>4 DEF Manage
    <2>4. job.kind = "manage" \/ (job.kind = "worktree" /\ job.pc = "keys")
      BY <2>2
    <2> HIDE DEF job
    <2>. QED  BY <1>4, <2>2, <2>3, <2>4 DEF Manage, Starts
  <1>5. ASSUME NEW s \in SessionIds, NEW recover \in BOOLEAN, Maintain(j, s, recover)
        PROVE  Starts(j)
    <2> DEFINE job == [NoJob EXCEPT !.kind = "context", !.session = s,
                         !.pc = "roots", !.recover = recover,
                         !.epoch = epochs[Provider[s]], !.cancelled = cancellations[s]]
    <2>1. epochs[Provider[s]] \in Nat /\ cancellations[s] \in Generations
      BY ServiceAssumption DEF ServiceInv, Typed
    <2>2. /\ job \in JobRecord /\ job.session = s /\ job.keys = {} /\ job.kind = "context"
          /\ job.pc = "roots" /\ job.recover = recover
      BY <1>1, <2>1 DEF JobRecord, JobPlaces, NoJob
    <2>3. jobs' = [jobs EXCEPT ![j] = job]
      BY <1>5 DEF Maintain
    <2> HIDE DEF job
    <2>. QED  BY <1>5, <2>2, <2>3 DEF Maintain, Starts
  <1>6. ASSUME NEW source \in Sources, NEW kind \in {"creation", "addition"}, Create(j, source, kind)
        PROVE  Locks(j)
    <2> DEFINE pc == IF kind = "creation" THEN "drain" ELSE "action"
               job == [NoJob EXCEPT !.kind = kind, !.keys = {Canonical[source]}, !.pc = pc]
    <2>1. {Canonical[source]} \in SUBSET Directories /\ pc \in JobPlaces
      BY ServiceAssumption, PathsAssumption DEF JobPlaces
    <2>2. /\ job \in JobRecord /\ job.session = NoOne /\ job.keys = {Canonical[source]}
          /\ job.kind = kind /\ job.pc = pc
      BY <1>1, <2>1 DEF JobRecord, NoJob
    <2>3. jobs' = [jobs EXCEPT ![j] = job] /\ jobs[j].keys = {} /\ jobs[j].session = NoOne
          /\ jobs[j].kind # "context"
      BY <1>6 DEF Create, Lock, NoJob
    <2>4. \/ job.kind = "addition" /\ job.pc = "action"
          \/ job.kind \in {"worktree", "creation"} /\ job.pc = "drain"
      BY <2>2
    <2> HIDE DEF job
    <2>. QED  BY <1>6, <2>2, <2>3, <2>4 DEF Create, Lock, Locks
  <1>7. CASE LockWorktree(j)
    <2> DEFINE keys == {Canonical[Base[jobs[j].session]], Canonical[Root[jobs[j].session]]}
               job == [jobs[j] EXCEPT !.keys = keys, !.pc = "drain"]
    <2>1. CASE Finish(j)
      BY <1>7, <2>1 DEF LockWorktree, At, Ceases
    <2>2. CASE Lock(j, keys, jobs[j], "drain")
      <3>1. jobs[j].kind = "worktree" /\ jobs[j].pc = "keys"
        BY <1>7 DEF LockWorktree, At
      <3>2. keys \in SUBSET Directories /\ jobs[j].keys = {}
        BY <1>1, <3>1, ServiceAssumption, PathsAssumption DEF LifeInv, Locked
      <3>3. /\ job \in JobRecord /\ job.session = jobs[j].session /\ job.keys = keys
            /\ job.kind = "worktree" /\ job.pc = "drain"
        BY <1>1, <3>1, <3>2 DEF JobRecord, JobPlaces
      <3>4. jobs' = [jobs EXCEPT ![j] = job]
        BY <2>2 DEF Lock
      <3> HIDE DEF job
      <3>. QED  BY <2>2, <3>1, <3>2, <3>3, <3>4 DEF Lock, Locks
    <2>. QED  BY <1>7, <2>1, <2>2 DEF LockWorktree
  <1>8. ASSUME NEW job \in JobRecord, jobs' = [jobs EXCEPT ![j] = job],
               job.kind = jobs[j].kind, job.session = jobs[j].session, job.keys = jobs[j].keys,
               \/ /\ job.kind # "context" /\ job.pc \notin {"none", "keys", "roots"}
                  /\ job.kind \in {"worktree", "creation"} /\ job.pc = "action" => Vacant(job.keys)
               \/ job.kind = "context" /\ jobs[j].pc = "action" /\ job.pc = "over",
               \/ UNCHANGED releaseOp /\ \E ids : driver' \in {driver, StopIdle(ids)}
               \/ UNCHANGED driver /\ \E s \in SessionIds : Refresh(s, admissions, outer),
               UNCHANGED <<leaseVars, directoryLocks, lifecycle, recovery>>, Elsewhere
        PROVE  Moves(j)
    BY <1>8 DEF Moves
  <1>9. CASE DrainDirectories(j)
    <2> DEFINE here == DirectorySessions(jobs[j].keys)
               todo == {s \in here : Has(s)}
               job == [jobs[j] EXCEPT !.pc = "stopping", !.todo = todo]
    <2>1. CASE Finish(j)
      BY <1>9, <2>1 DEF DrainDirectories, At, Ceases
    <2>2. CASE ~Finish(j)
      <3>1. /\ jobs[j].pc = "drain" /\ driver' = StopIdle(here)
            /\ jobs' = [jobs EXCEPT ![j].pc = "stopping", ![j].todo = todo]
            /\ UNCHANGED <<leaseVars, directoryLocks, lifecycle, releaseOp, recovery>> /\ Elsewhere
        BY <1>9, <2>2 DEF DrainDirectories
      <3>2. todo \in SUBSET SessionIds
        BY <1>3 DEF DirectorySessions
      <3> HIDE DEF todo
      <3>3. jobs' = [jobs EXCEPT ![j] = job]
        BY <1>1, <3>1 DEF ServiceInv, Typed
      <3>4. /\ job \in JobRecord /\ job.kind = jobs[j].kind /\ job.session = jobs[j].session
            /\ job.keys = jobs[j].keys /\ job.pc = "stopping" /\ job.kind # "context"
        BY <1>1, <1>2, <3>1, <3>2 DEF JobRecord, JobPlaces
      <3> HIDE DEF job
      <3>. QED  BY <1>8, <3>1, <3>3, <3>4
    <2>. QED  BY <2>1, <2>2
  <1>10. CASE DirectoriesStopped(j)
    <2> DEFINE todo == {l.session : l \in conflicts(jobs[j].keys, NoOne)}
               job == [jobs[j] EXCEPT !.pc = "freeing", !.todo = todo]
    <2>1. /\ jobs[j].pc = "stopping" /\ UNCHANGED driver
          /\ jobs' = [jobs EXCEPT ![j].pc = "freeing", ![j].todo = todo]
          /\ UNCHANGED <<leaseVars, directoryLocks, lifecycle, releaseOp, recovery>> /\ Elsewhere
      BY <1>10 DEF DirectoriesStopped
    <2>2. todo \in SUBSET SessionIds
      BY DEF ServiceInv, Booked, Noted, conflicts
    <2> HIDE DEF todo
    <2>3. jobs' = [jobs EXCEPT ![j] = job]
      BY <1>1, <2>1 DEF ServiceInv, Typed
    <2>4. /\ job \in JobRecord /\ job.kind = jobs[j].kind /\ job.session = jobs[j].session
          /\ job.keys = jobs[j].keys /\ job.pc = "freeing" /\ job.kind # "context"
      BY <1>1, <1>2, <2>1, <2>2 DEF JobRecord, JobPlaces
    <2> HIDE DEF job
    <2>. QED  BY <1>8, <2>1, <2>3, <2>4
  <1>11. CASE FreeDirectory(j)
    <2>1. PICK s \in jobs[j].todo :
              /\ Refresh(s, admissions, outer)
              /\ jobs' = [jobs EXCEPT ![j].todo = @ \ {s}, ![j].waiting = s]
      BY <1>11 DEF FreeDirectory
    <2> DEFINE job == [jobs[j] EXCEPT !.todo = jobs[j].todo \ {s}, !.waiting = s]
    <2>2. /\ jobs[j].pc = "freeing" /\ UNCHANGED driver
          /\ UNCHANGED <<leaseVars, directoryLocks, lifecycle, recovery>> /\ Elsewhere
      BY <1>11 DEF FreeDirectory
    <2>3. jobs[j].todo \in SUBSET SessionIds
      BY <1>1 DEF JobRecord
    <2>4. jobs' = [jobs EXCEPT ![j] = job] /\ s \in SessionIds
      BY <1>1, <2>1, <2>3 DEF ServiceInv, Typed
    <2>5. /\ job \in JobRecord /\ job.kind = jobs[j].kind /\ job.session = jobs[j].session
          /\ job.keys = jobs[j].keys /\ job.pc = "freeing" /\ job.kind # "context"
      BY <1>1, <1>2, <2>2, <2>3, <2>4 DEF JobRecord, JobPlaces
    <2> HIDE DEF job
    <2>. QED  BY <1>8, <2>1, <2>2, <2>4, <2>5
  <1>12. ASSUME NEW pc \in {"action", "over"}, JobStep(j, pc), UNCHANGED driver,
                \/ jobs[j].kind # "context" /\ (pc = "action" => Vacant(jobs[j].keys))
                \/ jobs[j].kind = "context" /\ jobs[j].pc = "action" /\ pc = "over",
                UNCHANGED <<leaseVars, directoryLocks, lifecycle, releaseOp, recovery>>, Elsewhere
         PROVE  Moves(j)
    <2> DEFINE job == [jobs[j] EXCEPT !.pc = pc]
    <2>1. jobs' = [jobs EXCEPT ![j] = job]
      BY <1>12 DEF JobStep
    <2>2. /\ job \in JobRecord /\ job.kind = jobs[j].kind /\ job.session = jobs[j].session
          /\ job.keys = jobs[j].keys /\ job.pc = pc
      BY <1>1 DEF JobRecord, JobPlaces
    <2> HIDE DEF job
    <2>. QED  BY <1>8, <1>12, <2>1, <2>2
  <1>13. CASE EnterDirectories(j)
    <2>1. jobs[j].pc = "freeing" /\ jobs[j].kind # "context"
      BY <1>2, <1>13 DEF EnterDirectories
    <2>2. CASE Finish(j)
      BY <2>1, <2>2 DEF At, Ceases
    <2>3. CASE ~Finish(j)
      BY <1>12, <1>13, <2>1, <2>3 DEF EnterDirectories
    <2>. QED  BY <2>2, <2>3
  <1>14. CASE OwnContext(j)
    BY <1>14 DEF OwnContext, TakesContext, Ceases, At
  <1>15. CASE ContextEnds(j)
    BY <1>12, <1>15 DEF ContextEnds, At
  <1>16. CASE EndJob(j) \/ JobFails(j)
    BY <1>2, <1>16 DEF EndJob, JobFails, Ceases, At
  <1>17. CASE ManageStops(j)
    <2>1. /\ jobs' = [jobs EXCEPT ![j] = jobs[j]] /\ jobs[j].kind = "manage"
          /\ \E ids : driver' = StopIdle(ids)
      BY <1>17 DEF ManageStops, At, ServiceInv, Typed
    <2>. QED  BY <1>1, <1>17, <2>1 DEF ManageStops, Moves
  <1>. QED
    BY <1>4, <1>5, <1>6, <1>7, <1>9, <1>10, <1>11, <1>13, <1>14, <1>15, <1>16, <1>17
       DEF JobAction, JobSteps

-----------------------------------------------------------------------------
(* What any step does to the processes and the recovery records.           *)

CallForm(s) ==
    Submit(s) \/ Rejected(s) \/ Goes(s) \/ Evicts(s) \/ HasStopped(s) \/ Takes(s) \/ IsSent(s)
EngineForm(s) == TurnEnds(s) \/ NativeEnds(s) \/ ProcessGone(s) \/ ProcessDies(s)
UserForm(s) == Stop(s) \/ StopEnds(s) \/ Interrupt(s) \/ OuterBegins(s) \/ OuterEnds(s)
JobForm(j) ==
    Ceases(j) \/ Starts(j) \/ Locks(j) \/ Moves(j) \/ TakesContext(j) \/ Resolve(j) \/ DeleteRecord(j)
Form ==
    \/ \E s \in SessionIds :
          CallForm(s) \/ FinishRelease(s) \/ FailRelease(s) \/ EngineForm(s) \/ UserForm(s)
    \/ \E j \in Jobs : JobForm(j)
    \/ (\E p \in Providers : MaintenanceBegins(p)) \/ MaintenanceActs \/ MaintenanceEnds
    \/ UNCHANGED serviceVars

LEMMA StepForms == ASSUME ServiceInv, LifeInv, [ServiceNext]_serviceVars PROVE Form
  <1>1. ASSUME NEW s \in SessionIds, CallSteps(s) \/ CallFails(s)
        PROVE  CallForm(s)
    BY <1>1, CallForms DEF CallForm
  <1>2. ASSUME NEW j \in Jobs, JobAction(j)
        PROVE  JobForm(j)
    BY <1>2, JobForms DEF JobForm
  <1>. QED
    BY <1>1, <1>2 DEF Form, ServiceNext, CallForm, EngineForm, UserForm, JobAction

DriverMoves(t) ==
    \/ driver'[t] = driver[t]
    \/ /\ ~Native(t) /\ driver[t] \notin {"none", "stuck", "unclosed"}
       /\ driver'[t] \in {"none", "idle", "ending", "closing"}
       /\ driver[t] = "closing" => driver'[t] = "none"
       /\ driver[t] = "idle" => driver'[t] = "closing"
    \/ Native(t) /\ driver[t] = "busy" /\ driver'[t] \in {"none", "stuck"}
          /\ (driver'[t] = "stuck" => t \in recovery')
    \/ Native(t) /\ driver'[t] = "unclosed" /\ releaseOp[t] # NoLease /\ t \in recovery'
    \/ driver[t] \in {"stuck", "unclosed"} /\ driver'[t] = "none"
    \/ /\ call[t].pc = "admitted" /\ call'[t].pc = "sending"
       /\ driver[t] \in {"none", "idle"} /\ driver'[t] = "busy"

RecoveryMoves(t) ==
    /\ t \in recovery' \ recovery => Held(t) /\ Native(t) /\ UNCHANGED leaseVars
    /\ t \in recovery \ recovery' =>
          UNCHANGED jobs /\ \E j \in Jobs : At(j, {"context"}, "action") /\ jobs[j].session = t

LEMMA StopsMove ==
    ASSUME Typed, Engines, NEW ids, driver' \in {driver, StopIdle(ids), StopAll(ids)},
           NEW t \in SessionIds
    PROVE  DriverMoves(t)
  BY DEF Typed, Engines, StopIdle, StopAll, DriverMoves

LEMMA DriversMove ==
    ASSUME ServiceInv, LifeInv, Form, NEW t \in SessionIds
    PROVE  DriverMoves(t)
  <1>0. Typed /\ Engines
    BY DEF ServiceInv, LifeInv
  <1>1. CASE UNCHANGED driver
    BY <1>1 DEF DriverMoves
  <1>2. CASE \E ids : driver' \in {driver, StopIdle(ids), StopAll(ids)}
    BY <1>0, <1>2, StopsMove
  <1>3. ASSUME NEW s \in SessionIds, CallForm(s)
        PROVE  DriverMoves(t)
    <2>1. CASE IsSent(s)
      <3>1. /\ call[s].pc = "admitted" /\ driver[s] \in {"none", "idle"}
            /\ driver' = [driver EXCEPT ![s] = "busy"] /\ Step(s, "sending")
        BY <2>1 DEF IsSent, Send
      <3>2. call'[s].pc = "sending"
        BY <1>0, <3>1, StepIs DEF Places
      <3>. QED  BY <1>0, <3>1, <3>2 DEF DriverMoves, Typed
    <2>2. CASE Evicts(s)
      BY <1>2, <2>2 DEF Evicts, Evict
    <2>3. CASE Submit(s) \/ Rejected(s) \/ Goes(s) \/ HasStopped(s) \/ Takes(s)
      BY <1>1, <2>3 DEF Submit, Rejected, Reject, Goes, HasStopped, Stopped, Takes, AcquireExecution
    <2>. QED  BY <1>3, <2>1, <2>2, <2>3 DEF CallForm
  <1>4. ASSUME NEW s \in SessionIds, FinishRelease(s) \/ FailRelease(s)
        PROVE  DriverMoves(t)
    <2>1. CASE FinishRelease(s)
      BY <1>1, <2>1 DEF FinishRelease, ReleaseOnly
    <2>2. CASE FailRelease(s)
      BY <1>0, <2>2 DEF FailRelease, DriverMoves, Typed
    <2>. QED  BY <1>4, <2>1, <2>2
  <1>5. ASSUME NEW s \in SessionIds, EngineForm(s)
        PROVE  DriverMoves(t)
    <2>1. CASE TurnEnds(s)
      BY <1>0, <2>1 DEF TurnEnds, DriverMoves, Typed
    <2>2. CASE NativeEnds(s)
      BY <1>0, <2>2 DEF NativeEnds, DriverMoves, Typed
    <2>3. CASE ProcessGone(s) \/ ProcessDies(s)
      BY <1>0, <2>3 DEF ProcessGone, ProcessDies, DriverMoves, Typed, Engines, Native, Claude
    <2>. QED  BY <1>5, <2>1, <2>2, <2>3 DEF EngineForm
  <1>6. ASSUME NEW s \in SessionIds, UserForm(s)
        PROVE  DriverMoves(t)
    <2>1. CASE Stop(s) \/ Interrupt(s)
      BY <1>2, <2>1 DEF Stop, Interrupt
    <2>2. CASE StopEnds(s)
      BY <1>0, <2>2 DEF StopEnds, DriverMoves, Typed
    <2>3. CASE OuterBegins(s) \/ OuterEnds(s)
      BY <1>1, <2>3 DEF OuterBegins, OuterEnds
    <2>. QED  BY <1>6, <2>1, <2>2, <2>3 DEF UserForm
  <1>7. ASSUME NEW j \in Jobs, JobForm(j)
        PROVE  DriverMoves(t)
    <2>1. CASE Moves(j)
      BY <1>1, <1>2, <2>1 DEF Moves
    <2>2. CASE Ceases(j) \/ Starts(j) \/ Locks(j) \/ TakesContext(j) \/ Resolve(j) \/ DeleteRecord(j)
      BY <1>1, <2>2 DEF Ceases, Finish, Starts, Locks, TakesContext, OwnContext, Resolve, DeleteRecord
    <2>. QED  BY <1>7, <2>1, <2>2 DEF JobForm
  <1>8. CASE (\E p \in Providers : MaintenanceBegins(p)) \/ MaintenanceActs \/ MaintenanceEnds
    BY <1>1, <1>2, <1>8 DEF MaintenanceBegins, MaintenanceActs, MaintenanceEnds
  <1>9. CASE UNCHANGED serviceVars
    BY <1>1, <1>9 DEF serviceVars
  <1>. QED  BY <1>3, <1>4, <1>5, <1>6, <1>7, <1>8, <1>9 DEF Form

LEMMA RecoveriesMove ==
    ASSUME ServiceInv, LifeInv, Form, NEW t \in SessionIds
    PROVE  RecoveryMoves(t)
  <1>1. CASE UNCHANGED recovery
    BY <1>1 DEF RecoveryMoves
  <1>2. ASSUME NEW s \in SessionIds, CallForm(s)
        PROVE  RecoveryMoves(t)
    BY <1>1, <1>2 DEF CallForm, Submit, Rejected, Reject, Goes, Evicts, HasStopped, Stopped, Takes,
                      AcquireExecution, IsSent, Send, Underway
  <1>3. ASSUME NEW s \in SessionIds, FinishRelease(s) \/ FailRelease(s)
        PROVE  RecoveryMoves(t)
    BY <1>1, <1>3 DEF FinishRelease, ReleaseOnly, FailRelease, RecoveryMoves, ServiceInv, Booked, Noted, Held
  <1>4. ASSUME NEW s \in SessionIds, EngineForm(s)
        PROVE  RecoveryMoves(t)
    <2>1. driver[s] # "none" => Held(s)
      BY DEF ServiceInv, Booked, Driven
    <2>. QED  BY <1>1, <1>4, <2>1 DEF EngineForm, TurnEnds, NativeEnds, ProcessGone, ProcessDies, DriverOnly, RecoveryMoves
  <1>5. ASSUME NEW s \in SessionIds, UserForm(s)
        PROVE  RecoveryMoves(t)
    BY <1>1, <1>5 DEF UserForm, Stop, Interrupt, Cancel, StopEnds, OuterBegins, OuterEnds
  <1>6. ASSUME NEW j \in Jobs, JobForm(j)
        PROVE  RecoveryMoves(t)
    <2>1. CASE Resolve(j)
      BY <2>1 DEF Resolve, RecoveryMoves
    <2>2. CASE Ceases(j) \/ Starts(j) \/ Locks(j) \/ Moves(j) \/ TakesContext(j) \/ DeleteRecord(j)
      BY <1>1, <2>2 DEF Ceases, Finish, Starts, Locks, Moves, TakesContext, OwnContext, DeleteRecord
    <2>. QED  BY <1>6, <2>1, <2>2 DEF JobForm
  <1>7. CASE (\E p \in Providers : MaintenanceBegins(p)) \/ MaintenanceActs \/ MaintenanceEnds
    BY <1>1, <1>7 DEF MaintenanceBegins, MaintenanceActs, MaintenanceEnds
  <1>8. CASE UNCHANGED serviceVars
    BY <1>1, <1>8 DEF serviceVars
  <1>. QED  BY <1>2, <1>3, <1>4, <1>5, <1>6, <1>7, <1>8 DEF Form

-----------------------------------------------------------------------------
(* What any step does to the calls.                                        *)

\* Where a call can be after a step, and whom it evicts then.
CallMove(s) ==
    \/ call'[s] = call[s]
    \/ Rejected(s) /\ call'[s] = NoCall
    \/ Submit(s) /\ call'[s].pc \in {"roots", "releasing"} /\ call'[s].victim = NoOne
    \/ /\ Goes(s) /\ call'[s].pc \in {"roots", "recheck", "acquire", "admitted"}
       /\ call'[s].pc = "acquire" => RecoveryClear(Keys(s))
       /\ call'[s].pc = "admitted" => ~Full /\ Past(call[s])
       /\ call'[s].victim = NoOne
    \/ Evicts(s) /\ call'[s].pc = "stopping" /\ (Past(call'[s]) => Past(call[s]))
    \/ /\ HasStopped(s) /\ call[s].pc = "stopping" /\ call'[s].pc = "freeing"
       /\ call'[s].victim = call[s].victim /\ (Past(call'[s]) => Past(call[s]))
    \/ Takes(s) /\ call[s].pc = "acquire" /\ call'[s].pc = "capacity" /\ call'[s].victim = NoOne
    \/ IsSent(s) /\ call[s].pc = "admitted" /\ call'[s].pc = "sending" /\ call'[s].victim = NoOne

LEMMA StepVictim ==
    ASSUME Typed, NEW s \in SessionIds, NEW pc \in Places, Step(s, pc)
    PROVE  call'[s].pc = pc /\ call'[s].victim = NoOne /\ \A t \in SessionIds \ {s} : call'[t] = call[t]
  <1> DEFINE c == [call[s] EXCEPT !.pc = pc, !.goal = "none", !.victim = NoOne, !.todo = {}]
  <1>1. call' = [call EXCEPT ![s] = c]
    BY DEF Step, Typed
  <1>2. call[s] \in CallRecord
    BY DEF Typed
  <1>3. c.pc = pc /\ c.victim = NoOne
    BY <1>2 DEF CallRecord
  <1>. QED  BY <1>1, <1>3 DEF Typed

LEMMA EvictIs ==
    ASSUME Typed, NEW s \in SessionIds, NEW managed, NEW v, NEW goal, NEW todo,
           Evict(s, managed, v, goal, todo)
    PROVE  /\ call'[s].pc = "stopping" /\ call'[s].victim = v /\ call'[s].goal = goal
           /\ \A t \in SessionIds \ {s} : call'[t] = call[t]
  <1> DEFINE c == [call[s] EXCEPT !.pc = "stopping", !.victim = v, !.goal = goal, !.todo = todo]
  <1>1. call' = [call EXCEPT ![s] = c]
    BY DEF Evict, Typed
  <1>2. call[s] \in CallRecord
    BY DEF Typed
  <1>3. c.pc = "stopping" /\ c.victim = v /\ c.goal = goal
    BY <1>2 DEF CallRecord
  <1>. QED  BY <1>1, <1>3 DEF Typed

LEMMA SubmitIs ==
    ASSUME Typed, NEW s \in SessionIds, Submit(s)
    PROVE  /\ call'[s].pc \in {"roots", "releasing"} /\ call'[s].victim = NoOne
           /\ \A t \in SessionIds \ {s} : call'[t] = call[t]
  <1> DEFINE pc == IF releaseOp[s] = NoLease THEN "roots" ELSE "releasing"
             c == [NoCall EXCEPT !.pc = pc, !.cancelled = cancellations[s], !.epoch = epochs[Provider[s]]]
  <1>1. call' = [call EXCEPT ![s] = c]
    BY DEF Submit
  <1>2. c.pc = pc /\ c.victim = NoOne
    BY DEF NoCall
  <1> HIDE DEF c
  <1>. QED  BY <1>1, <1>2 DEF Typed

LEMMA CallFormMoves ==
    ASSUME ServiceInv, LifeInv, NEW s \in SessionIds, CallForm(s)
    PROVE  CallMove(s) /\ \A t \in SessionIds \ {s} : call'[t] = call[t]
  <1>0. Typed
    BY DEF ServiceInv
  <1>1. CASE Submit(s)
    BY <1>0, <1>1, SubmitIs DEF CallMove
  <1>2. CASE Rejected(s)
    BY <1>0, <1>2 DEF CallMove, Rejected, Reject, Leave, Typed
  <1>3. CASE Goes(s)
    <2>1. PICK pc \in {"roots", "recheck", "acquire", "admitted"} :
              /\ Step(s, pc) /\ (pc = "acquire" => RecoveryClear(Keys(s)))
              /\ pc = "admitted" => ~Full /\ Past(call[s])
      BY <1>3 DEF Goes
    <2>2. call'[s].pc = pc /\ call'[s].victim = NoOne /\ \A t \in SessionIds \ {s} : call'[t] = call[t]
      BY <1>0, <2>1, StepVictim DEF Places
    <2>. QED  BY <1>3, <2>1, <2>2 DEF CallMove
  <1>4. CASE Evicts(s)
    <2>1. PICK v \in sessions, goal \in {"acquire", "capacity"}, todo \in SUBSET SessionIds :
              /\ Evict(s, lifecycle \ {call[s].victim}, v, goal, todo)
              /\ goal = "capacity" => Past(call[s])
      BY <1>4 DEF Evicts
    <2>2. /\ call'[s].pc = "stopping" /\ call'[s].victim = v /\ call'[s].goal = goal
          /\ \A t \in SessionIds \ {s} : call'[t] = call[t]
      BY <1>0, <2>1, EvictIs
    <2>3. Past(call'[s]) => Past(call[s])
      BY <2>1, <2>2 DEF Past
    <2>. QED  BY <1>4, <2>2, <2>3 DEF CallMove
  <1>5. CASE HasStopped(s)
    <2> DEFINE c == [call[s] EXCEPT !.pc = "freeing"]
    <2>1. call[s].pc = "stopping" /\ call' = [call EXCEPT ![s] = c]
      BY <1>0, <1>5 DEF HasStopped, Stopped, Typed
    <2>2. c.pc = "freeing" /\ c.victim = call[s].victim /\ c.goal = call[s].goal
      BY <1>0 DEF Typed, CallRecord
    <2> HIDE DEF c
    <2>3. call'[s] = c /\ \A t \in SessionIds \ {s} : call'[t] = call[t]
      BY <1>0, <2>1 DEF Typed
    <2>4. Past(c) => Past(call[s])
      BY <2>1, <2>2 DEF Past
    <2>. QED  BY <1>5, <2>1, <2>2, <2>3, <2>4 DEF CallMove
  <1>6. CASE Takes(s)
    <2>1. call[s].pc = "acquire" /\ Step(s, "capacity")
      BY <1>6 DEF Takes, AcquireExecution
    <2>. QED  BY <1>0, <1>6, <2>1, StepVictim DEF CallMove, Places
  <1>7. CASE IsSent(s)
    <2>1. call[s].pc = "admitted" /\ Step(s, "sending")
      BY <1>7 DEF IsSent, Send
    <2>. QED  BY <1>0, <1>7, <2>1, StepVictim DEF CallMove, Places
  <1>. QED  BY <1>1, <1>2, <1>3, <1>4, <1>5, <1>6, <1>7 DEF CallForm

LEMMA CallsChange ==
    ASSUME ServiceInv, LifeInv, Form, NEW t \in SessionIds
    PROVE  CallMove(t)
  <1>1. CASE UNCHANGED call
    BY <1>1 DEF CallMove
  <1>2. ASSUME NEW s \in SessionIds, CallForm(s)
        PROVE  CallMove(t)
    BY <1>2, CallFormMoves DEF CallMove
  <1>3. ASSUME NEW s \in SessionIds, FinishRelease(s) \/ FailRelease(s) \/ EngineForm(s) \/ UserForm(s)
        PROVE  UNCHANGED call
    BY <1>3 DEF FinishRelease, ReleaseOnly, FailRelease, EngineForm, TurnEnds, NativeEnds, ProcessGone,
                ProcessDies, DriverOnly, UserForm, Stop, Interrupt, Cancel, StopEnds, OuterBegins, OuterEnds
  <1>4. ASSUME NEW j \in Jobs, JobForm(j)
        PROVE  UNCHANGED call
    BY <1>4 DEF JobForm, Ceases, Finish, Starts, Locks, Moves, TakesContext, OwnContext, Resolve,
                DeleteRecord, Elsewhere
  <1>5. CASE (\E p \in Providers : MaintenanceBegins(p)) \/ MaintenanceActs \/ MaintenanceEnds
    BY <1>1, <1>5 DEF MaintenanceBegins, MaintenanceActs, MaintenanceEnds
  <1>6. CASE UNCHANGED serviceVars
    BY <1>1, <1>6 DEF serviceVars
  <1>. QED  BY <1>1, <1>2, <1>3, <1>4, <1>5, <1>6 DEF Form

-----------------------------------------------------------------------------
(* What any step does to the jobs.                                         *)

JobMove(j) ==
    \/ jobs'[j] = jobs[j]
    \/ Ceases(j) /\ jobs'[j] = NoJob
    \/ /\ Starts(j) /\ jobs[j] = NoJob /\ jobs'[j].keys = {}
       /\ LET s == jobs'[j].session
          IN  /\ s \in sessions \ (admissions \cup outer) /\ SessionUnlocked(s, lifecycle)
              /\ lifecycle' = lifecycle \cup {s}
              /\ \/ jobs'[j].kind = "manage" \/ (jobs'[j].kind = "worktree" /\ jobs'[j].pc = "keys")
                 \/ jobs'[j].kind = "context" /\ jobs'[j].pc = "roots" /\ Native(s)
                    /\ driver[s] = "none" /\ releaseOp[s] = NoLease
    \/ /\ Locks(j) /\ jobs'[j].session = jobs[j].session /\ jobs[j].keys = {}
       /\ Unlocked(jobs'[j].keys) /\ directoryLocks' = directoryLocks \cup jobs'[j].keys
       /\ \/ jobs'[j].kind = "addition" /\ jobs'[j].pc = "action"
          \/ jobs'[j].kind \in {"worktree", "creation"} /\ jobs'[j].pc = "drain"
    \/ /\ Moves(j) /\ jobs'[j].session = jobs[j].session /\ jobs'[j].keys = jobs[j].keys
       /\ jobs'[j].kind = jobs[j].kind
       /\ \/ /\ jobs[j].kind # "context"
             /\ jobs'[j].pc \in {"none", "keys", "roots"} => jobs'[j].pc = jobs[j].pc
             /\ jobs[j].kind \in {"worktree", "creation"} /\ jobs'[j].pc = "action" =>
                   Vacant(jobs[j].keys) \/ jobs'[j] = jobs[j]
          \/ jobs[j].kind = "context" /\ jobs[j].pc = "action" /\ jobs'[j].pc = "over"
    \/ /\ TakesContext(j) /\ jobs'[j].session = jobs[j].session
       /\ jobs[j].kind = "context" /\ jobs'[j].kind = "context"
       /\ jobs[j].pc = "roots" /\ jobs'[j].pc = "action"
       /\ jobs'[j].keys = Keys(jobs[j].session) /\ Unlocked(jobs'[j].keys)
       /\ directoryLocks' = directoryLocks \cup jobs'[j].keys
       /\ conflicts(jobs'[j].keys, jobs[j].session) = {}

LEMMA JobFormMoves ==
    ASSUME ServiceInv, LifeInv, NEW j \in Jobs, JobForm(j)
    PROVE  JobMove(j) /\ \A i \in Jobs \ {j} : jobs'[i] = jobs[i]
  <1>0. jobs \in [Jobs -> JobRecord] /\ jobs[j] \in JobRecord
    BY DEF ServiceInv, Typed
  <1>1. ASSUME NEW job, jobs' = [jobs EXCEPT ![j] = job]
        PROVE  jobs'[j] = job /\ \A i \in Jobs \ {j} : jobs'[i] = jobs[i]
    BY <1>0, <1>1
  <1>2. CASE Ceases(j)
    BY <1>1, <1>2 DEF Ceases, Finish, JobMove
  <1>3. CASE Starts(j)
    <2>1. PICK s \in SessionIds, job \in JobRecord :
            /\ jobs[j] = NoJob /\ jobs' = [jobs EXCEPT ![j] = job]
            /\ job.session = s /\ job.keys = {}
            /\ s \in sessions \ (admissions \cup outer) /\ SessionUnlocked(s, lifecycle)
            /\ \/ job.kind = "manage" \/ (job.kind = "worktree" /\ job.pc = "keys")
               \/ job.kind = "context" /\ job.pc = "roots" /\ Native(s) /\ ContextFree(s, job.recover)
            /\ lifecycle' = lifecycle \cup {s}
      BY <1>3 DEF Starts
    <2>2. jobs'[j] = job /\ \A i \in Jobs \ {j} : jobs'[i] = jobs[i]
      BY <1>1, <2>1
    <2>. QED  BY <1>3, <2>1, <2>2 DEF JobMove, ContextFree, Has
  <1>4. CASE Locks(j)
    <2>1. PICK job \in JobRecord :
            /\ jobs[j].keys = {} /\ jobs' = [jobs EXCEPT ![j] = job]
            /\ job.session = jobs[j].session
            /\ \/ job.kind = "addition" /\ job.pc = "action"
               \/ job.kind \in {"worktree", "creation"} /\ job.pc = "drain"
            /\ Unlocked(job.keys) /\ directoryLocks' = directoryLocks \cup job.keys
      BY <1>4 DEF Locks
    <2>2. jobs'[j] = job /\ \A i \in Jobs \ {j} : jobs'[i] = jobs[i]
      BY <1>1, <2>1
    <2>. QED  BY <1>4, <2>1, <2>2 DEF JobMove
  <1>5. CASE Moves(j)
    <2>1. PICK job \in JobRecord :
            /\ jobs' = [jobs EXCEPT ![j] = job]
            /\ job.kind = jobs[j].kind /\ job.session = jobs[j].session /\ job.keys = jobs[j].keys
            /\ \/ /\ job.kind # "context" /\ (job.pc \in {"none", "keys", "roots"} => job.pc = jobs[j].pc)
                  /\ job.kind \in {"worktree", "creation"} /\ job.pc = "action" =>
                        Vacant(job.keys) \/ job = jobs[j]
               \/ job.kind = "context" /\ jobs[j].pc = "action" /\ job.pc = "over"
      BY <1>5 DEF Moves
    <2>2. jobs'[j] = job /\ \A i \in Jobs \ {j} : jobs'[i] = jobs[i]
      BY <1>1, <2>1
    <2>. QED  BY <1>5, <2>1, <2>2 DEF JobMove
  <1>6. CASE TakesContext(j)
    <2> DEFINE s == jobs[j].session
               job == [jobs[j] EXCEPT !.pc = "action", !.keys = Keys(s)]
    <2>1. /\ jobs[j].kind = "context" /\ jobs[j].pc = "roots" /\ Unlocked(Keys(s))
          /\ conflicts(Keys(s), s) = {} /\ directoryLocks' = directoryLocks \cup Keys(s)
          /\ jobs' = [jobs EXCEPT ![j].pc = "action", ![j].keys = Keys(s)]
      BY <1>6 DEF TakesContext, OwnContext, At
    <2>2. jobs' = [jobs EXCEPT ![j] = job]
      BY <1>0, <2>1
    <2>3. job.kind = "context" /\ job.pc = "action" /\ job.keys = Keys(s) /\ job.session = s
      BY <1>0, <2>1 DEF JobRecord
    <2> HIDE DEF job
    <2>4. jobs'[j] = job /\ \A i \in Jobs \ {j} : jobs'[i] = jobs[i]
      BY <1>1, <2>2
    <2>. QED  BY <1>6, <2>1, <2>3, <2>4 DEF JobMove
  <1>7. CASE Resolve(j) \/ DeleteRecord(j)
    BY <1>7 DEF Resolve, DeleteRecord, JobMove
  <1>. QED  BY <1>2, <1>3, <1>4, <1>5, <1>6, <1>7 DEF JobForm

LEMMA JobsChange ==
    ASSUME ServiceInv, LifeInv, Form, NEW i \in Jobs
    PROVE  JobMove(i)
  <1>1. CASE UNCHANGED jobs
    BY <1>1 DEF JobMove
  <1>2. ASSUME NEW s \in SessionIds, CallForm(s)
        PROVE  UNCHANGED jobs
    BY <1>2 DEF CallForm, Submit, Rejected, Reject, Goes, Evicts, HasStopped, Stopped, Takes,
                AcquireExecution, IsSent, Send, Underway
  <1>3. ASSUME NEW s \in SessionIds, FinishRelease(s) \/ FailRelease(s) \/ EngineForm(s) \/ UserForm(s)
        PROVE  UNCHANGED jobs
    BY <1>3 DEF FinishRelease, ReleaseOnly, FailRelease, EngineForm, TurnEnds, NativeEnds, ProcessGone,
                ProcessDies, DriverOnly, UserForm, Stop, Interrupt, Cancel, StopEnds, OuterBegins, OuterEnds
  <1>4. ASSUME NEW j \in Jobs, JobForm(j)
        PROVE  JobMove(i)
    BY <1>4, JobFormMoves DEF JobMove
  <1>5. CASE (\E p \in Providers : MaintenanceBegins(p)) \/ MaintenanceActs \/ MaintenanceEnds
    BY <1>1, <1>5 DEF MaintenanceBegins, MaintenanceActs, MaintenanceEnds
  <1>6. CASE UNCHANGED serviceVars
    BY <1>1, <1>6 DEF serviceVars
  <1>. QED  BY <1>1, <1>2, <1>3, <1>4, <1>5, <1>6 DEF Form

-----------------------------------------------------------------------------
(* What any step does to the leases, the releases, the queue's and the     *)
(* workflows' hold, and the records.                                       *)

\* A lease is taken by a call, or by a context operation, of the session, where
\* nobody has locked or leased anything near.
Taken(t) ==
    /\ Unlocked(Keys(t)) /\ \A u \in SessionIds : Held(u) => ~RootsOverlap(Keys(t), Keys(u))
    /\ \/ call[t].pc = "acquire" /\ call'[t].pc = "capacity"
       \/ \E j \in Jobs : /\ TakesContext(j) /\ jobs[j].session = t /\ jobs[j].kind = "context"
                          /\ jobs[j].pc = "roots" /\ jobs'[j].pc = "action"
                          /\ jobs'[j].session = t

HeldMove(t) ==
    /\ ~Held(t) /\ Held(t)' => Taken(t)
    /\ Held(t) /\ ~Held(t)' => t \notin sessions \/ (releaseOp[t] # NoLease /\ t \notin recovery)

ReleaseMove(t) ==
    /\ releaseOp[t] = NoLease /\ releaseOp'[t] # NoLease =>
          /\ Held(t) /\ t \in sessions \ recovery /\ (Structured(t) => ~IsBusy(t))
    /\ releaseOp[t] # NoLease /\ releaseOp'[t] = NoLease /\ Held(t)' =>
          t \in admissions' \cup outer' \cup recovery' \/ ~Native(t)

LEMMA HeldsMove ==
    ASSUME ServiceInv, LifeInv, Form, NEW t \in SessionIds
    PROVE  HeldMove(t)
  <1>0. Noted /\ Typed
    BY DEF ServiceInv, Booked
  <1>1. CASE UNCHANGED leaseVars
    BY <1>1 DEF HeldMove, Held, leaseVars
  <1>2. ASSUME NEW s \in SessionIds, CallForm(s)
        PROVE  HeldMove(t)
    <2>1. CASE Takes(s)
      <3>1. /\ call[s].pc = "acquire" /\ Unlocked(Keys(s)) /\ Own(s, cancellations[s])
            /\ Step(s, "capacity") /\ UNCHANGED releaseOp
        BY <2>1 DEF Takes, AcquireExecution
      <3>2. releaseOp[s] = NoLease /\ cancellations[s] \in Generations
        BY <1>0, <3>1 DEF ServiceInv, Booked, Called, Typed
      <3>3. /\ Noted' /\ Held(s)' /\ \A u \in SessionIds \ {s} : Held(u)' = Held(u)
            /\ ~Held(s) => \A u \in SessionIds : Held(u) => ~RootsOverlap(Keys(s), Keys(u))
        BY <1>0, <3>1, <3>2, OwnIsNoted
      <3>4. call'[s].pc = "capacity"
        BY <1>0, <3>1, StepIs DEF Places
      <3>5. CASE t = s
        BY <3>1, <3>3, <3>4, <3>5 DEF HeldMove, Taken
      <3>6. CASE t # s
        BY <3>3, <3>6 DEF HeldMove
      <3>. QED  BY <3>5, <3>6
    <2>2. CASE Submit(s) \/ Rejected(s) \/ Goes(s) \/ Evicts(s) \/ HasStopped(s) \/ IsSent(s)
      BY <1>1, <2>2 DEF Submit, Rejected, Reject, Goes, Evicts, HasStopped, Stopped, IsSent, Send
    <2>. QED  BY <1>2, <2>1, <2>2 DEF CallForm
  <1>3. ASSUME NEW s \in SessionIds, FinishRelease(s)
        PROVE  HeldMove(t)
    <2>1. CASE ~MayDrop(s)
      BY <1>1, <1>3, <2>1 DEF FinishRelease
    <2>2. CASE MayDrop(s)
      <3>1. /\ releaseOp[s] # NoLease /\ s \notin recovery
            /\ executionLeases' = [executionLeases EXCEPT ![s] = NoLease]
        BY <1>3, <2>2 DEF FinishRelease, MayDrop, Dropped
      <3>. QED  BY <1>0, <3>1 DEF HeldMove, Held, Noted
    <2>. QED  BY <2>1, <2>2
  <1>4. ASSUME NEW s \in SessionIds, FailRelease(s) \/ EngineForm(s) \/ UserForm(s)
        PROVE  UNCHANGED leaseVars
    BY <1>4 DEF FailRelease, EngineForm, TurnEnds, NativeEnds, ProcessGone,
                ProcessDies, DriverOnly, UserForm, Stop, Interrupt, Cancel, StopEnds, OuterBegins, OuterEnds
  <1>5. ASSUME NEW j \in Jobs, TakesContext(j)
        PROVE  HeldMove(t)
    <2>0. PICK s \in SessionIds : s = jobs[j].session
      BY <1>0, <1>5 DEF TakesContext, OwnContext, At, Typed
    <2>1. /\ jobs[j].kind = "context" /\ jobs[j].pc = "roots" /\ Unlocked(Keys(s))
          /\ UNCHANGED releaseOp
          /\ IF executionLeases[s] = NoLease THEN Own(s, jobs[j].cancelled) ELSE UNCHANGED leaseVars
      BY <1>5, <2>0 DEF TakesContext, OwnContext, At
    <2>2. jobs[j].cancelled \in Generations
      BY <1>0, <2>1 DEF Typed, JobRecord
    <2>3. jobs'[j].pc = "action" /\ jobs'[j].session = s
      <3>1. jobs' = [jobs EXCEPT ![j].pc = "action", ![j].keys = Keys(s)]
        BY <1>5, <2>0 DEF TakesContext, OwnContext
      <3>. QED  BY <1>0, <2>0, <3>1 DEF Typed, JobRecord
    <2>4. CASE Held(s)
      BY <1>1, <2>1, <2>4 DEF Held
    <2>5. CASE ~Held(s)
      <3>1. releaseOp[s] = NoLease /\ Own(s, jobs[j].cancelled) /\ UNCHANGED releaseOp
        BY <1>0, <2>1, <2>2, <2>5 DEF Noted, Held
      <3>2. /\ Noted' /\ Held(s)' /\ \A u \in SessionIds \ {s} : Held(u)' = Held(u)
            /\ ~Held(s) => \A u \in SessionIds : Held(u) => ~RootsOverlap(Keys(s), Keys(u))
        BY <1>0, <2>2, <3>1, OwnIsNoted
      <3>3. CASE t = s
        BY <1>5, <2>0, <2>1, <2>3, <3>2, <3>3 DEF HeldMove, Taken
      <3>4. CASE t # s
        BY <3>2, <3>4 DEF HeldMove
      <3>. QED  BY <3>3, <3>4
    <2>. QED  BY <2>4, <2>5
  <1>6. ASSUME NEW j \in Jobs, Ceases(j)
        PROVE  HeldMove(t)
    <2> DEFINE s == jobs[j].session
    <2>1. CASE s # NoOne /\ s \notin sessions /\ executionLeases[s] # NoLease
      <3>1. s \in SessionIds /\ executionLeases' = [executionLeases EXCEPT ![s] = NoLease]
        BY <1>0, <1>6, <2>1 DEF Ceases, Finish, Dropped, Typed, JobRecord
      <3>. QED  BY <1>0, <2>1, <3>1 DEF HeldMove, Held, Noted
    <2>2. CASE ~(s # NoOne /\ s \notin sessions /\ executionLeases[s] # NoLease)
      BY <1>1, <1>6, <2>2 DEF Ceases, Finish
    <2>. QED  BY <2>1, <2>2
  <1>7. ASSUME NEW j \in Jobs, Starts(j) \/ Locks(j) \/ Moves(j) \/ Resolve(j) \/ DeleteRecord(j)
        PROVE  UNCHANGED leaseVars
    BY <1>7 DEF Starts, Locks, Moves, Resolve, DeleteRecord
  <1>8. CASE (\E p \in Providers : MaintenanceBegins(p)) \/ MaintenanceActs \/ MaintenanceEnds
    BY <1>1, <1>8 DEF MaintenanceBegins, MaintenanceActs, MaintenanceEnds
  <1>9. CASE UNCHANGED serviceVars
    BY <1>1, <1>9 DEF serviceVars, leaseVars
  <1>. QED  BY <1>1, <1>2, <1>3, <1>4, <1>5, <1>6, <1>7, <1>8, <1>9 DEF Form, JobForm

\* refreshDirectoryRelease starts a release, or something still uses the lease.
LEMMA RefreshCovers ==
    ASSUME Noted, NEW s \in sessions, s \in SessionIds, NEW admitted, NEW held,
           Refresh(s, admitted, held), Held(s), Native(s)
    PROVE  releaseOp'[s] # NoLease \/ s \in admitted \cup held \cup recovery \/ Has(s)
  <1>1. CASE ReleaseStarts(s, admitted, held)
    BY <1>1 DEF Refresh, Noted, Held
  <1>2. CASE ~ReleaseStarts(s, admitted, held)
    <2>1. UNCHANGED releaseOp
      BY <1>2 DEF Refresh
    <2>2. ~Claude(s) /\ Structured(s) /\ (IsBusy(s) => Has(s))
      BY DEF Native, Claude, IsBusy
    <2>. QED  BY <1>2, <2>1, <2>2 DEF ReleaseStarts, Held
  <1>. QED  BY <1>1, <1>2

LEMMA RefreshMoves ==
    ASSUME Noted, NEW s, NEW admitted, NEW held, Refresh(s, admitted, held),
           NEW t \in SessionIds
    PROVE  ReleaseMove(t)
  BY DEF Refresh, ReleaseStarts, ReleaseMove, Noted, Held

LEMMA ReleasesMove ==
    ASSUME ServiceInv, LifeInv, Form, NEW t \in SessionIds
    PROVE  ReleaseMove(t)
  <1>0. Noted
    BY DEF ServiceInv, Booked
  <1>1. CASE UNCHANGED releaseOp
    BY <1>1 DEF ReleaseMove
  <1>2. CASE \E s, admitted, held : Refresh(s, admitted, held)
    BY <1>0, <1>2, RefreshMoves
  <1>3. ASSUME NEW s \in SessionIds, CallForm(s)
        PROVE  ReleaseMove(t)
    <2>1. CASE Rejected(s) \/ HasStopped(s)
      BY <1>2, <2>1 DEF Rejected, Reject, Leave, HasStopped, Stopped
    <2>2. CASE Submit(s) \/ Goes(s) \/ Evicts(s) \/ Takes(s) \/ IsSent(s)
      BY <1>1, <2>2 DEF Submit, Goes, Evicts, Takes, AcquireExecution, IsSent, Send
    <2>. QED  BY <1>3, <2>1, <2>2 DEF CallForm
  <1>4. ASSUME NEW s \in SessionIds, FinishRelease(s)
        PROVE  ReleaseMove(t)
    <2>1. /\ releaseOp[s] # NoLease /\ releaseOp' = [releaseOp EXCEPT ![s] = NoLease]
          /\ UNCHANGED <<admissions, outer, recovery>>
          /\ ~MayDrop(s) \/ executionLeases' = [executionLeases EXCEPT ![s] = NoLease]
      BY <1>4 DEF FinishRelease, ReleaseOnly, worldVars, Dropped
    <2>2. executionLeases[s] = releaseOp[s]
      BY <1>0, <2>1 DEF Noted
    <2>. QED  BY <1>0, <2>1, <2>2 DEF ReleaseMove, MayDrop, Held, Noted
  <1>5. ASSUME NEW s \in SessionIds, FailRelease(s)
        PROVE  ReleaseMove(t)
    BY <1>0, <1>5 DEF FailRelease, ReleaseMove, Noted
  <1>6. ASSUME NEW s \in SessionIds, EngineForm(s)
        PROVE  UNCHANGED releaseOp
    BY <1>6 DEF EngineForm, TurnEnds, NativeEnds, ProcessGone, ProcessDies, DriverOnly
  <1>7. ASSUME NEW s \in SessionIds, UserForm(s)
        PROVE  ReleaseMove(t)
    BY <1>1, <1>2, <1>7 DEF UserForm, Stop, Interrupt, Cancel, StopEnds, OuterBegins, OuterEnds
  <1>8. ASSUME NEW j \in Jobs, JobForm(j)
        PROVE  ReleaseMove(t)
    <2>1. CASE Ceases(j) \/ Moves(j)
      BY <1>1, <1>2, <2>1 DEF Ceases, Finish, Moves
    <2>2. CASE Starts(j) \/ Locks(j) \/ TakesContext(j) \/ Resolve(j) \/ DeleteRecord(j)
      BY <1>1, <2>2 DEF Starts, Locks, TakesContext, OwnContext, Resolve, DeleteRecord
    <2>. QED  BY <1>8, <2>1, <2>2 DEF JobForm
  <1>9. CASE (\E p \in Providers : MaintenanceBegins(p)) \/ MaintenanceActs \/ MaintenanceEnds
    BY <1>1, <1>9 DEF MaintenanceBegins, MaintenanceActs, MaintenanceEnds
  <1>10. CASE UNCHANGED serviceVars
    BY <1>1, <1>10 DEF serviceVars
  <1>. QED  BY <1>1, <1>3, <1>4, <1>5, <1>6, <1>7, <1>8, <1>9, <1>10 DEF Form

OuterMove(t) ==
    /\ t \in outer' \ outer => OuterBegins(t)
    /\ t \in outer \ outer' => OuterEnds(t)

RecordMove(t) ==
    /\ t \in sessions' => t \in sessions
    /\ t \in sessions \ sessions' =>
          /\ t \notin outer' /\ UNCHANGED <<jobs, recovery, executionLeases>>
          /\ \E j \in Jobs : At(j, {"manage", "worktree"}, "action") /\ jobs[j].session = t

LEMMA HoldersMove ==
    ASSUME ServiceInv, LifeInv, Form, NEW t
    PROVE  OuterMove(t) /\ RecordMove(t)
  <1>1. CASE UNCHANGED worldVars
    BY <1>1 DEF OuterMove, RecordMove, worldVars
  <1>2. ASSUME NEW s \in SessionIds, CallForm(s)
        PROVE  UNCHANGED worldVars
    BY <1>2 DEF CallForm, Submit, Rejected, Reject, Goes, Evicts, HasStopped, Stopped, Takes,
                AcquireExecution, IsSent, Send, Underway, worldVars
  <1>3. ASSUME NEW s \in SessionIds, FinishRelease(s) \/ FailRelease(s) \/ EngineForm(s)
        PROVE  UNCHANGED worldVars
    BY <1>3 DEF FinishRelease, ReleaseOnly, FailRelease, EngineForm, TurnEnds, NativeEnds, ProcessGone,
                ProcessDies, DriverOnly
  <1>4. ASSUME NEW s \in SessionIds, UserForm(s)
        PROVE  OuterMove(t) /\ RecordMove(t)
    BY <1>4 DEF UserForm, Stop, Interrupt, Cancel, StopEnds, OuterBegins, OuterEnds, OuterMove, RecordMove
  <1>5. ASSUME NEW j \in Jobs, DeleteRecord(j)
        PROVE  OuterMove(t) /\ RecordMove(t)
    BY <1>5 DEF DeleteRecord, OuterMove, RecordMove, taskOccupied, leaseVars
  <1>6. ASSUME NEW j \in Jobs, Ceases(j) \/ Starts(j) \/ Locks(j) \/ Moves(j) \/ TakesContext(j) \/ Resolve(j)
        PROVE  UNCHANGED worldVars
    BY <1>6 DEF Ceases, Finish, Starts, Locks, Moves, TakesContext, OwnContext, Resolve, Elsewhere
  <1>7. CASE (\E p \in Providers : MaintenanceBegins(p)) \/ MaintenanceActs \/ MaintenanceEnds
    BY <1>1, <1>7 DEF MaintenanceBegins, MaintenanceActs, MaintenanceEnds
  <1>8. CASE UNCHANGED serviceVars
    BY <1>1, <1>8 DEF serviceVars, worldVars
  <1>. QED  BY <1>1, <1>2, <1>3, <1>4, <1>5, <1>6, <1>7, <1>8 DEF Form, JobForm

-----------------------------------------------------------------------------
(* Each part of LifeInv is kept.                                           *)

\* Who is managed has no call, and is not taken by the queue or a workflow.
LEMMA ManagedAreFree ==
    ASSUME ServiceInv, LifeInv
    PROVE  /\ \A s \in SessionIds : call[s].victim # NoOne =>
                 call[s].victim \in lifecycle /\ call[s].victim \in SessionIds
           /\ \A j \in Jobs : jobs[j].session # NoOne =>
                 jobs[j].session \in lifecycle /\ jobs[j].session \in SessionIds
           /\ NoOne \notin lifecycle
           /\ \A s \in lifecycle : s \notin outer /\ (s \in SessionIds => call[s].pc = "none")
  <1>1. \A s \in SessionIds : call[s].victim \in SessionIds \cup {NoOne}
    BY DEF ServiceInv, Typed, CallRecord
  <1>2. \A j \in Jobs : jobs[j].session \in SessionIds \cup {NoOne}
    BY DEF ServiceInv, Typed, JobRecord
  <1>3. admissions = {s \in SessionIds : call[s].pc # "none"}
    BY DEF ServiceInv, Booked, Called
  <1>. QED  BY <1>1, <1>2, <1>3 DEF LifeInv, Managed

LEMMA EnginesKept ==
    ASSUME ServiceInv, LifeInv, Form
    PROVE  Engines'
  <1> SUFFICES ASSUME NEW s \in SessionIds
               PROVE  /\ Native(s) => driver'[s] \in {"none", "busy", "stuck", "unclosed"}
                      /\ Native(s) /\ driver'[s] = "busy" => call'[s].pc = "sending"
                      /\ driver'[s] \in {"stuck", "unclosed"} => Native(s) /\ s \in recovery'
    BY DEF Engines, Native, Structured
  <1>1. DriverMoves(s) /\ RecoveryMoves(s) /\ CallMove(s)
    BY DriversMove, RecoveriesMove, CallsChange
  <1>2. /\ Native(s) => driver[s] \in {"none", "busy", "stuck", "unclosed"}
        /\ Native(s) /\ driver[s] = "busy" => call[s].pc = "sending"
        /\ driver[s] \in {"stuck", "unclosed"} => Native(s) /\ s \in recovery
    BY DEF LifeInv, Engines
  <1>3. Native(s) => driver'[s] \in {"none", "busy", "stuck", "unclosed"}
    BY <1>1, <1>2 DEF DriverMoves
  <1>4. ASSUME Native(s), driver'[s] = "busy", call'[s].pc # "sending"
        PROVE  FALSE
    <2>1. call[s].pc = "sending" /\ driver[s] = "busy"
      BY <1>1, <1>2, <1>4 DEF DriverMoves
    <2>2. Rejected(s)
      BY <1>1, <1>4, <2>1 DEF CallMove, Submit, Goes, Evicts
    <2>. QED  BY <1>4, <2>1, <2>2 DEF Rejected
  <1>5. ASSUME driver'[s] \in {"stuck", "unclosed"}
        PROVE  Native(s) /\ s \in recovery'
    <2>1. Native(s) /\ (s \in recovery' \/ (driver[s] = driver'[s] /\ s \in recovery))
      BY <1>1, <1>2, <1>5 DEF DriverMoves
    <2>2. CASE s \in recovery \ recovery'
      <3>1. PICK j \in Jobs : At(j, {"context"}, "action") /\ jobs[j].session = s
        BY <1>1, <2>2 DEF RecoveryMoves
      <3>2. driver[s] = "none"
        BY <3>1 DEF LifeInv, Contexts, At
      <3>. QED  BY <1>5, <2>1, <2>2, <3>2
    <2>. QED  BY <2>1, <2>2
  <1>. QED  BY <1>3, <1>4, <1>5

\* The session of a job, or of an eviction, is idle: no process of it starts, and
\* none of a native session turns up.
LEMMA ManagedRest ==
    ASSUME ServiceInv, LifeInv, Form, NEW s \in lifecycle, s \in SessionIds
    PROVE  /\ driver[s] = "none" /\ (Native(s) => releaseOp[s] = NoLease) => driver'[s] = "none"
           /\ Claude(s) /\ driver[s] \in {"closing", "none"} => driver'[s] \in {"closing", "none"}
           /\ ~Held(s) /\ Held(s)' => \E j \in Jobs :
                 /\ TakesContext(j) /\ jobs[j].session = s /\ jobs[j].kind = "context"
                 /\ jobs[j].pc = "roots" /\ jobs'[j].pc = "action"
  <1>1. DriverMoves(s) /\ HeldMove(s)
    BY DriversMove, HeldsMove
  <1>2. call[s].pc = "none"
    BY ManagedAreFree
  <1>. QED  BY <1>1, <1>2 DEF DriverMoves, HeldMove, Taken, Claude, Native

LEMMA VictimsKept ==
    ASSUME ServiceInv, LifeInv, Form, ServiceInv'
    PROVE  Victims'
  <1> SUFFICES ASSUME NEW s \in SessionIds, NEW v, v = call'[s].victim, v # NoOne
               PROVE  /\ Structured(v)
                      /\ Claude(v) => driver'[v] \in {"closing", "none"}
                      /\ ~Claude(v) => driver'[v] = "none"
                      /\ Native(v) => ~Held(v)'
    BY DEF Victims, Structured, Claude, Native, Held
  <1>0. /\ \A t \in SessionIds : driver[t] # "none" => Held(t)
        /\ \A t \in SessionIds : releaseOp[t] # NoLease => Held(t)
        /\ driver \in [SessionIds -> DriverStates] /\ sessions \subseteq SessionIds
    BY DEF ServiceInv, Typed, Booked, Noted, Driven, Held
  <1>1. CASE call[s].victim = v
    <2>1. /\ v \in lifecycle /\ v \in SessionIds /\ \A j \in Jobs : jobs[j].session # v
          /\ Structured(v) /\ (Claude(v) => driver[v] \in {"closing", "none"})
          /\ (~Claude(v) => driver[v] = "none") /\ (Native(v) => ~Held(v))
      BY <1>1, ManagedAreFree DEF LifeInv, Managed, Victims
    <2>2. Native(v) => ~Claude(v)
      BY DEF Native, Claude
    <2>3. /\ Claude(v) => driver'[v] \in {"closing", "none"}
          /\ ~Claude(v) => driver'[v] = "none"
          /\ Native(v) => ~Held(v)'
      BY <1>0, <2>1, <2>2, ManagedRest
    <2>. QED  BY <2>1, <2>3
  <1>2. CASE call[s].victim # v
    <2>0. CallMove(s) /\ NoCall.victim = NoOne
      BY CallsChange DEF NoCall
    <2>1. Evicts(s)
      BY <1>2, <2>0 DEF CallMove, Past
    <2>2. PICK w \in sessions, goal \in {"acquire", "capacity"}, todo \in SUBSET SessionIds :
            /\ Evict(s, lifecycle \ {call[s].victim}, w, goal, todo)
            /\ Idle(w, lifecycle \ {call[s].victim}) /\ UNCHANGED leaseVars
      BY <2>1 DEF Evicts
    <2>3. w = v /\ driver' = StopIdle({v})
      <3>1. call'[s].victim = w
        BY <2>2, EvictIs DEF ServiceInv
      <3>. QED  BY <2>2, <3>1 DEF Evict
    <2>4. /\ Structured(v) /\ ~IsBusy(v) /\ v \notin admissions \cup outer \cup recovery
          /\ releaseOp[v] = NoLease /\ v \in SessionIds /\ v \notin lifecycle \ {call[s].victim}
      BY <1>0, <2>2, <2>3 DEF Idle, taskOccupied
    <2>5. CASE Claude(v)
      <3>1. driver[v] \in {"none", "idle", "closing"}
        BY <1>0, <2>4, <2>5 DEF IsBusy, LifeInv, Engines, Native, Claude, DriverStates
      <3>2. driver'[v] \in {"none", "closing"}
        BY <2>3, <2>4, <3>1 DEF StopIdle
      <3>. QED  BY <2>4, <2>5, <3>2 DEF Claude, Native
    <2>6. CASE ~Claude(v)
      <3>1. driver[v] = "none"
        BY <2>4, <2>6 DEF IsBusy, Has
      <3>2. driver'[v] = "none"
        BY <2>3, <2>4, <3>1 DEF StopIdle
      <3>3. ASSUME Native(v), Held(v)
            PROVE  FALSE
        <4>1. PICK j \in Jobs : jobs[j].session = v
          BY <2>4, <3>1, <3>3 DEF LifeInv, Owed
        <4>2. v \in lifecycle
          BY <4>1, <2>4, ServiceAssumption, ManagedAreFree
        <4>. QED  BY <2>4, <4>1, <4>2, <1>2
      <3>4. Held(v)' = Held(v)
        BY <2>2 DEF Held, leaseVars
      <3>. QED  BY <2>4, <2>6, <3>2, <3>3, <3>4
    <2>. QED  BY <2>5, <2>6
  <1>. QED  BY <1>1, <1>2

LEMMA ContextsKept ==
    ASSUME ServiceInv, LifeInv, Form, ServiceInv'
    PROVE  Contexts'
  <1> SUFFICES ASSUME NEW j \in Jobs, jobs'[j].kind = "context", NEW s, s = jobs'[j].session
               PROVE  /\ Native(s) /\ jobs'[j].pc \in {"roots", "action", "over"}
                      /\ jobs'[j].pc \in {"roots", "action"} =>
                            s \in sessions' /\ driver'[s] = "none" /\ releaseOp'[s] = NoLease
                      /\ jobs'[j].pc = "roots" /\ Held(s)' => s \in recovery'
                      /\ jobs'[j].pc = "action" => Held(s)' /\ jobs'[j].keys = Keys(s)
    BY DEF Contexts, Native, Structured, Held, Keys
  <1>0. s \in SessionIds /\ s # NoOne
    BY ServiceAssumption DEF ServiceInv, Typed
  <1>1. JobMove(j) /\ ReleaseMove(s) /\ RecordMove(s) /\ HeldMove(s) /\ RecoveryMoves(s)
    BY <1>0, JobsChange, ReleasesMove, HoldersMove, HeldsMove, RecoveriesMove
  <1>2. \/ jobs'[j] = jobs[j]
        \/ /\ Starts(j) /\ s \in sessions \ (admissions \cup outer) /\ SessionUnlocked(s, lifecycle)
           /\ jobs'[j].pc = "roots" /\ Native(s) /\ driver[s] = "none" /\ releaseOp[s] = NoLease
        \/ jobs[j].kind = "context" /\ jobs[j].session = s /\ jobs'[j].pc = "over"
        \/ /\ TakesContext(j) /\ jobs[j].kind = "context" /\ jobs[j].session = s
           /\ jobs[j].pc = "roots" /\ jobs'[j].pc = "action" /\ jobs'[j].keys = Keys(s)
    <2>1. NoJob.kind # "context"
      BY DEF NoJob
    <2>. QED  BY <1>1, <2>1 DEF JobMove
  <1>3. CASE Starts(j) /\ s \in sessions \ (admissions \cup outer) /\ SessionUnlocked(s, lifecycle)
             /\ jobs'[j].pc = "roots" /\ Native(s) /\ driver[s] = "none" /\ releaseOp[s] = NoLease
    <2>1. UNCHANGED <<leaseVars, driver, releaseOp, recovery, sessions>>
      BY <1>3 DEF Starts, Elsewhere, worldVars
    <2>2. ASSUME Held(s), s \notin recovery
          PROVE  FALSE
      <3>1. PICK i \in Jobs : jobs[i].session = s
        BY <1>0, <1>3, <2>2 DEF LifeInv, Owed
      <3>. QED  BY <1>0, <1>3, <3>1, ManagedAreFree DEF SessionUnlocked
    <2>. QED  BY <1>3, <2>1, <2>2 DEF Held, leaseVars
  <1>4. CASE jobs[j].kind = "context" /\ jobs[j].session = s /\ jobs'[j].pc = "over"
    BY <1>4 DEF LifeInv, Contexts
  <1>5. CASE TakesContext(j) /\ jobs[j].kind = "context" /\ jobs[j].session = s
             /\ jobs[j].pc = "roots" /\ jobs'[j].pc = "action" /\ jobs'[j].keys = Keys(s)
    <2>1. Native(s) /\ s \in sessions /\ driver[s] = "none" /\ releaseOp[s] = NoLease
      BY <1>5 DEF LifeInv, Contexts
    <2>2. UNCHANGED <<driver, releaseOp, sessions>>
      BY <1>5 DEF TakesContext, OwnContext, Elsewhere, worldVars
    <2>3. IF executionLeases[s] = NoLease THEN Own(s, jobs[j].cancelled) ELSE UNCHANGED leaseVars
      BY <1>5 DEF TakesContext, OwnContext
    <2>4. Held(s)'
      <3>1. CASE Held(s)
        BY <2>3, <3>1 DEF Held, leaseVars
      <3>2. CASE ~Held(s)
        <4>1. jobs[j].cancelled \in Generations /\ Own(s, jobs[j].cancelled)
          BY <2>3, <3>2 DEF Held, ServiceInv, Typed, JobRecord
        <4>. QED  BY <1>0, <2>1, <2>2, <4>1, OwnIsNoted DEF ServiceInv, Booked
      <3>. QED  BY <3>1, <3>2
    <2>. QED  BY <1>5, <2>1, <2>2, <2>4
  <1>6. CASE jobs'[j] = jobs[j]
    <2>1. /\ s \in lifecycle /\ jobs[j].session = s /\ jobs[j].kind = "context"
          /\ \A i \in Jobs \ {j} : jobs[i].session # s
      BY <1>0, <1>6, ManagedAreFree DEF LifeInv, Managed
    <2>2. /\ Native(s) /\ jobs[j].pc \in {"roots", "action", "over"}
          /\ jobs[j].pc \in {"roots", "action"} =>
                s \in sessions /\ driver[s] = "none" /\ releaseOp[s] = NoLease
          /\ jobs[j].pc = "roots" /\ Held(s) => s \in recovery
          /\ jobs[j].pc = "action" => Held(s) /\ jobs[j].keys = Keys(s)
      BY <2>1 DEF LifeInv, Contexts
    <2>3. jobs[j].pc \in {"roots", "action"} => s \in sessions' /\ driver'[s] = "none"
      <3>1. ASSUME s \in sessions \ sessions'
            PROVE  FALSE
        <4>1. PICK i \in Jobs : At(i, {"manage", "worktree"}, "action") /\ jobs[i].session = s
          BY <1>1, <3>1 DEF RecordMove
        <4>2. i = j
          BY <2>1, <4>1
        <4>. QED  BY <2>1, <4>1, <4>2 DEF At
      <3>2. driver[s] = "none" /\ releaseOp[s] = NoLease => driver'[s] = "none"
        BY <1>0, <2>1, ManagedRest
      <3>. QED  BY <2>2, <3>1, <3>2
    <2>4. jobs[j].pc \in {"roots", "action"} => releaseOp'[s] = NoLease
      <3>1. jobs[j].pc = "action" => Has(s)
        BY <2>1 DEF Has, ContextBusy
      <3>2. Structured(s) /\ ~Claude(s)
        BY <2>2 DEF Native, Claude
      <3>. QED  BY <1>1, <2>2, <3>1, <3>2 DEF ReleaseMove, IsBusy
    <2>5. jobs[j].pc = "roots" /\ Held(s)' => s \in recovery'
      <3>1. ASSUME jobs[j].pc = "roots", Held(s)', ~Held(s)
            PROVE  FALSE
        <4>1. PICK i \in Jobs : jobs[i].session = s /\ jobs'[i].pc = "action"
          BY <1>0, <2>1, <3>1, ManagedRest
        <4>. QED  BY <1>6, <2>1, <3>1, <4>1
      <3>2. ASSUME jobs[j].pc = "roots", s \in recovery \ recovery'
            PROVE  FALSE
        <4>1. PICK i \in Jobs : At(i, {"context"}, "action") /\ jobs[i].session = s
          BY <1>1, <3>2 DEF RecoveryMoves
        <4>. QED  BY <2>1, <3>2, <4>1 DEF At
      <3>. QED  BY <2>2, <3>1, <3>2
    <2>6. jobs[j].pc = "action" => Held(s)'
      BY <1>1, <2>2 DEF HeldMove
    <2>. QED  BY <1>6, <2>2, <2>3, <2>4, <2>5, <2>6
  <1>. QED  BY <1>2, <1>3, <1>4, <1>5, <1>6

\* What a native session's lease is needed for, or why nothing needs it for long.
Reason(s) ==
    \/ driver[s] # "none" \/ releaseOp[s] # NoLease
    \/ s \in admissions \cup outer \cup recovery
    \/ \E j \in Jobs : jobs[j].session = s

\* Whoever ends the last use and refreshes leaves a reason.
LEMMA RefreshedReason ==
    ASSUME ServiceInv, ServiceInv', NEW s \in SessionIds, s \in sessions, NEW admitted, NEW held,
           Refresh(s, admitted, held), Native(s), Held(s),
           admitted \subseteq admissions', held \subseteq outer',
           UNCHANGED <<driver, recovery>>,
           ContextBusy(s) => \E j \in Jobs : jobs'[j].session = s
    PROVE  Reason(s)'
  <1>1. releaseOp'[s] # NoLease \/ s \in admitted \cup held \cup recovery \/ Has(s)
    BY RefreshCovers DEF ServiceInv, Booked
  <1>. QED  BY <1>1 DEF Reason, Has

LEMMA OwedKept ==
    ASSUME ServiceInv, LifeInv, Form, ServiceInv'
    PROVE  Owed'
  <1> SUFFICES ASSUME NEW s \in SessionIds, Native(s), Held(s)'
               PROVE  Reason(s)'
    BY DEF Owed, Native, Structured, Held, Reason
  <1>1. /\ DriverMoves(s) /\ RecoveryMoves(s) /\ CallMove(s) /\ HeldMove(s) /\ ReleaseMove(s)
        /\ OuterMove(s) /\ \A j \in Jobs : JobMove(j)
    BY DriversMove, RecoveriesMove, CallsChange, HeldsMove, ReleasesMove, HoldersMove, JobsChange
  <1>2. /\ admissions = {t \in SessionIds : call[t].pc # "none"} /\ admissions \subseteq sessions
        /\ s \in admissions' <=> call'[s].pc # "none"
        /\ outer \subseteq sessions
    BY DEF ServiceInv, Booked, Called, LifeInv, Managed
  <1>3. s # NoOne
    BY ServiceAssumption
  <1>4. CASE ~Held(s)
    <2>1. call'[s].pc = "capacity" \/ \E j \in Jobs : jobs'[j].session = s
      BY <1>1, <1>4 DEF HeldMove, Taken
    <2>. QED  BY <1>2, <2>1 DEF Reason
  <1>5. CASE driver[s] # "none"
    <2>1. CASE driver'[s] # "none"
      BY <2>1 DEF Reason
    <2>2. CASE driver'[s] = "none" /\ driver[s] = "busy"
      <3>1. call[s].pc = "sending"
        BY <2>2 DEF LifeInv, Engines
      <3>2. call'[s] = call[s]
        BY <1>1, <2>2, <3>1 DEF CallMove, Rejected, Submit, Goes, Evicts
      <3>. QED  BY <1>2, <3>1, <3>2 DEF Reason
    <2>3. CASE driver[s] # "busy"
      <3>1. s \in recovery
        BY <1>5, <2>3 DEF LifeInv, Engines
      <3>2. s \in recovery' \/ \E j \in Jobs : jobs'[j].session = s
        BY <1>1, <3>1 DEF RecoveryMoves
      <3>. QED  BY <3>2 DEF Reason
    <2>. QED  BY <2>1, <2>2, <2>3
  <1>6. CASE releaseOp[s] # NoLease
    BY <1>1, <1>6 DEF ReleaseMove, Reason
  <1>7. CASE Held(s) /\ s \in admissions
    <2>1. CASE s \in admissions'
      BY <2>1 DEF Reason
    <2>2. CASE s \notin admissions'
      <3>1. Rejected(s)
        BY <1>1, <1>2, <1>7, <2>2 DEF CallMove, Past
      <3>2. /\ Refresh(s, admissions \ {s}, outer) /\ admissions' = admissions \ {s}
            /\ UNCHANGED <<driver, recovery, outer, jobs>>
        BY <3>1 DEF Rejected, Reject, Leave, worldVars
      <3>3. ContextBusy(s) => \E j \in Jobs : jobs'[j].session = s
        BY <3>2 DEF ContextBusy
      <3>. QED  BY <1>2, <1>7, <3>2, <3>3, RefreshedReason
    <2>. QED  BY <2>1, <2>2
  <1>8. CASE Held(s) /\ s \in outer
    <2>1. CASE s \in outer'
      BY <2>1 DEF Reason
    <2>2. CASE s \notin outer'
      <3>1. OuterEnds(s)
        BY <1>1, <1>8, <2>2 DEF OuterMove
      <3>2. /\ Refresh(s, admissions, outer \ {s}) /\ outer' = outer \ {s}
            /\ UNCHANGED <<driver, recovery, admissions, jobs>>
        BY <3>1 DEF OuterEnds
      <3>3. ContextBusy(s) => \E j \in Jobs : jobs'[j].session = s
        BY <3>2 DEF ContextBusy
      <3>. QED  BY <1>2, <1>8, <3>2, <3>3, RefreshedReason
    <2>. QED  BY <2>1, <2>2
  <1>9. CASE s \in recovery
    BY <1>1, <1>9 DEF RecoveryMoves, Reason
  <1>10. ASSUME NEW j \in Jobs, jobs[j].session = s, Held(s)
         PROVE  Reason(s)'
    <2>1. CASE jobs'[j].session = s
      BY <2>1 DEF Reason
    <2>2. CASE jobs'[j].session # s
      <3>1. NoJob.session = NoOne
        BY DEF NoJob
      <3>2. Ceases(j)
        BY <1>1, <1>3, <1>10, <2>2, <3>1 DEF JobMove
      <3>3. /\ Refresh(s, admissions, outer) /\ ~At(j, {"context"}, "action")
            /\ UNCHANGED <<driver, recovery, admissions, outer>>
            /\ s \notin sessions => Dropped(s)
        BY <1>3, <1>10, <3>2 DEF Ceases, Finish, Elsewhere, worldVars, Held
      <3>4. ~ContextBusy(s)
        BY <1>3, <1>10, <3>3 DEF ContextBusy, At, LifeInv, Managed
      <3>5. s \in sessions
        <4>1. ASSUME s \notin sessions
              PROVE  FALSE
          <5>1. executionLeases' = [executionLeases EXCEPT ![s] = NoLease]
            BY <3>3, <4>1 DEF Dropped
          <5>2. executionLeases'[s] = NoLease
            BY <5>1 DEF ServiceInv, Booked, Noted
          <5>. QED  BY <5>2 DEF Held
        <4>. QED  BY <4>1
      <3>. QED  BY <1>10, <3>3, <3>4, <3>5, RefreshedReason
    <2>. QED  BY <2>1, <2>2
  <1>11. CASE Held(s)
    <2>1. Reason(s)
      BY <1>11 DEF LifeInv, Owed, Reason
    <2>. QED  BY <1>5, <1>6, <1>7, <1>8, <1>9, <1>10, <1>11, <2>1 DEF Reason
  <1>. QED  BY <1>4, <1>11

LEMMA UnlockedIsApart ==
    ASSUME NEW keys \in SUBSET Directories, Unlocked(keys)
    PROVE  keys \cap directoryLocks = {}
  BY WithinAssumption DEF Unlocked, RootsOverlap, directoriesOverlap

\* One job gives up its keys, or gets keys nobody has, or keeps what it has.
LEMMA KeysKept ==
    ASSUME Locked, NEW j \in Jobs, \A i \in Jobs \ {j} : jobs'[i] = jobs[i],
           \/ UNCHANGED directoryLocks /\ jobs'[j].keys = jobs[j].keys
           \/ directoryLocks' = directoryLocks \ jobs[j].keys /\ jobs'[j].keys = {}
           \/ /\ directoryLocks' = directoryLocks \cup jobs'[j].keys
              /\ jobs[j].keys = {} /\ jobs'[j].keys \cap directoryLocks = {},
           jobs'[j].pc \in {"none", "keys", "roots"} => jobs'[j].keys = {}
    PROVE  Locked'
  <1>1. \A d : d \in directoryLocks <=> \E i \in Jobs : d \in jobs[i].keys
    BY DEF Locked
  <1>2. \A d : d \in directoryLocks' <=> \E i \in Jobs : d \in jobs'[i].keys
    BY <1>1 DEF Locked
  <1>3. directoryLocks' = UNION {jobs'[i].keys : i \in Jobs}
    BY <1>2
  <1>4. \A i \in Jobs : jobs[i].keys \subseteq directoryLocks
    BY <1>1
  <1>5. \A i, k \in Jobs : i # k => jobs'[i].keys \cap jobs'[k].keys = {}
    BY <1>4 DEF Locked
  <1>6. \A i \in Jobs : jobs'[i].pc \in {"none", "keys", "roots"} => jobs'[i].keys = {}
    BY DEF Locked
  <1>. QED  BY <1>3, <1>5, <1>6 DEF Locked

LEMMA LockedKept ==
    ASSUME ServiceInv, LifeInv, Form, ServiceInv'
    PROVE  Locked'
  <1>0. Locked
    BY DEF LifeInv
  <1>1. CASE UNCHANGED <<jobs, directoryLocks>>
    BY <1>0, <1>1 DEF Locked
  <1>2. ASSUME NEW s \in SessionIds, CallForm(s)
        PROVE  UNCHANGED <<jobs, directoryLocks>>
    BY <1>2 DEF CallForm, Submit, Rejected, Reject, Goes, Evicts, HasStopped, Stopped, Takes,
                AcquireExecution, IsSent, Send, Underway
  <1>3. ASSUME NEW s \in SessionIds, FinishRelease(s) \/ FailRelease(s) \/ EngineForm(s) \/ UserForm(s)
        PROVE  UNCHANGED <<jobs, directoryLocks>>
    BY <1>3 DEF FinishRelease, ReleaseOnly, FailRelease, EngineForm, TurnEnds, NativeEnds, ProcessGone,
                ProcessDies, DriverOnly, UserForm, Stop, Interrupt, Cancel, StopEnds, OuterBegins, OuterEnds
  <1>4. ASSUME NEW j \in Jobs, JobForm(j)
        PROVE  Locked'
    <2>1. /\ JobMove(j) /\ \A i \in Jobs \ {j} : jobs'[i] = jobs[i]
          /\ jobs[j].pc \in {"none", "keys", "roots"} => jobs[j].keys = {}
      BY <1>0, <1>4, JobFormMoves DEF Locked
    <2>2. jobs'[j].keys \in SUBSET Directories /\ NoJob.keys = {}
      BY DEF ServiceInv, Typed, JobRecord, NoJob
    <2>3. Unlocked(jobs'[j].keys) => jobs'[j].keys \cap directoryLocks = {}
      BY <2>2, UnlockedIsApart
    <2>4. CASE Ceases(j)
      <3>1. directoryLocks' = directoryLocks \ jobs[j].keys /\ jobs' = [jobs EXCEPT ![j] = NoJob]
        BY <2>4 DEF Ceases, Finish
      <3>2. jobs'[j] = NoJob
        BY <3>1 DEF ServiceInv, Typed
      <3>. QED  BY <1>0, <2>1, <2>2, <3>1, <3>2, KeysKept
    <2>5. CASE Starts(j) \/ Moves(j) \/ Resolve(j) \/ DeleteRecord(j)
      <3>1. UNCHANGED directoryLocks
        BY <2>5 DEF Starts, Moves, Resolve, DeleteRecord
      <3>2. CASE Starts(j)
        <4>1. jobs'[j].keys = {} /\ jobs[j] = NoJob
          <5>1. PICK job \in JobRecord : jobs' = [jobs EXCEPT ![j] = job] /\ job.keys = {} /\ jobs[j] = NoJob
            BY <3>2 DEF Starts
          <5>. QED  BY <5>1 DEF ServiceInv, Typed
        <4>. QED  BY <1>0, <2>1, <2>2, <3>1, <4>1, KeysKept
      <3>3. CASE Moves(j)
        <4>1. PICK job \in JobRecord :
                /\ jobs' = [jobs EXCEPT ![j] = job] /\ job.keys = jobs[j].keys
                /\ job.pc \in {"none", "keys", "roots"} => job.pc = jobs[j].pc
          BY <3>3 DEF Moves
        <4>2. jobs'[j] = job
          BY <4>1 DEF ServiceInv, Typed
        <4>. QED  BY <1>0, <2>1, <3>1, <4>1, <4>2, KeysKept
      <3>4. CASE Resolve(j) \/ DeleteRecord(j)
        BY <1>1, <3>1, <3>4 DEF Resolve, DeleteRecord
      <3>. QED  BY <2>5, <3>2, <3>3, <3>4
    <2>6. CASE Locks(j)
      <3>1. PICK job \in JobRecord :
              /\ jobs' = [jobs EXCEPT ![j] = job] /\ jobs[j].keys = {} /\ Unlocked(job.keys)
              /\ job.pc \in {"action", "drain"} /\ directoryLocks' = directoryLocks \cup job.keys
        BY <2>6 DEF Locks
      <3>2. jobs'[j] = job
        BY <3>1 DEF ServiceInv, Typed
      <3>. QED  BY <1>0, <2>1, <2>3, <3>1, <3>2, KeysKept
    <2>7. CASE TakesContext(j)
      <3>1. /\ jobs' = [jobs EXCEPT ![j].pc = "action", ![j].keys = Keys(jobs[j].session)]
            /\ jobs[j].pc = "roots" /\ Unlocked(Keys(jobs[j].session))
            /\ directoryLocks' = directoryLocks \cup Keys(jobs[j].session)
        BY <2>7 DEF TakesContext, OwnContext, At
      <3>2. jobs'[j].keys = Keys(jobs[j].session) /\ jobs'[j].pc = "action"
        BY <3>1 DEF ServiceInv, Typed, JobRecord
      <3>. QED  BY <1>0, <2>1, <2>3, <3>1, <3>2, KeysKept
    <2>. QED  BY <1>4, <2>4, <2>5, <2>6, <2>7 DEF JobForm
  <1>5. CASE (\E p \in Providers : MaintenanceBegins(p)) \/ MaintenanceActs \/ MaintenanceEnds
    BY <1>1, <1>5 DEF MaintenanceBegins, MaintenanceActs, MaintenanceEnds
  <1>6. CASE UNCHANGED serviceVars
    BY <1>1, <1>6 DEF serviceVars
  <1>. QED  BY <1>1, <1>2, <1>3, <1>4, <1>5, <1>6 DEF Form

-----------------------------------------------------------------------------

\* Who manages and evicts whom, element by element.
Apart ==
    /\ NoOne \notin lifecycle
    /\ \A x : x # NoOne =>
          (x \in lifecycle <=> (\E s \in SessionIds : call[s].victim = x) \/ \E j \in Jobs : jobs[j].session = x)
    /\ \A s, t \in SessionIds : s # t /\ call[s].victim # NoOne => call[t].victim # call[s].victim
    /\ \A s \in SessionIds, j \in Jobs :
          call[s].victim # NoOne => jobs[j].session # call[s].victim
    /\ \A i, j \in Jobs : i # j /\ jobs[i].session # NoOne => jobs[j].session # jobs[i].session

LEMMA ManagedIsApart == Managed => Apart
  BY DEF Managed, Apart

LEMMA VictimsApart ==
    ASSUME Apart, NEW s \in SessionIds, \A t \in SessionIds \ {s} : call'[t] = call[t], UNCHANGED jobs,
           NEW v, v = call[s].victim, NEW w, w = call'[s].victim,
           lifecycle' = (lifecycle \ {v}) \cup ({w} \ {NoOne}), w \notin lifecycle \ {v}
    PROVE  Apart'
  <1>1. /\ \A t \in SessionIds : call[t].victim # NoOne => call[t].victim \in lifecycle
        /\ \A j \in Jobs : jobs[j].session # NoOne => jobs[j].session \in lifecycle
    BY DEF Apart
  <1>2. \A t \in SessionIds \ {s} : call'[t].victim # NoOne => call'[t].victim # v /\ call'[t].victim \in lifecycle
    BY <1>1 DEF Apart
  <1>3. \A j \in Jobs : jobs'[j].session # NoOne => jobs'[j].session # v /\ jobs'[j].session \in lifecycle
    BY <1>1 DEF Apart
  <1>4. ASSUME NEW x, x # NoOne
        PROVE  x \in lifecycle' <=>
                  (\E t \in SessionIds : call'[t].victim = x) \/ \E j \in Jobs : jobs'[j].session = x
    <2>1. ASSUME x \in lifecycle'
          PROVE  (\E t \in SessionIds : call'[t].victim = x) \/ \E j \in Jobs : jobs'[j].session = x
      <3>1. CASE x = w
        BY <3>1
      <3>2. CASE x # w
        <4>1. x \in lifecycle /\ x # v
          BY <2>1, <3>2
        <4>2. (\E t \in SessionIds : call[t].victim = x) \/ \E j \in Jobs : jobs[j].session = x
          BY <1>4, <4>1 DEF Apart
        <4>. QED  BY <4>1, <4>2
      <3>. QED  BY <3>1, <3>2
    <2>2. ASSUME NEW t \in SessionIds, call'[t].victim = x
          PROVE  x \in lifecycle'
      BY <1>2, <1>4, <2>2
    <2>3. ASSUME NEW j \in Jobs, jobs'[j].session = x
          PROVE  x \in lifecycle'
      BY <1>3, <1>4, <2>3
    <2>. QED  BY <2>1, <2>2, <2>3
  <1>5. \A t, u \in SessionIds : t # u /\ call'[t].victim # NoOne => call'[u].victim # call'[t].victim
    BY <1>2 DEF Apart
  <1>6. \A t \in SessionIds, j \in Jobs : call'[t].victim # NoOne => jobs'[j].session # call'[t].victim
    BY <1>3 DEF Apart
  <1>7. NoOne \notin lifecycle'
    BY DEF Apart
  <1>. QED  BY <1>4, <1>5, <1>6, <1>7 DEF Apart

LEMMA JobsApart ==
    ASSUME Apart, NEW j \in Jobs, \A i \in Jobs \ {j} : jobs'[i] = jobs[i], UNCHANGED call,
           NEW v, v = jobs[j].session, NEW w, w = jobs'[j].session,
           lifecycle' = (lifecycle \ {v}) \cup ({w} \ {NoOne}), w \notin lifecycle \ {v}
    PROVE  Apart'
  <1>1. /\ \A t \in SessionIds : call[t].victim # NoOne => call[t].victim \in lifecycle
        /\ \A i \in Jobs : jobs[i].session # NoOne => jobs[i].session \in lifecycle
    BY DEF Apart
  <1>2. \A i \in Jobs \ {j} : jobs'[i].session # NoOne => jobs'[i].session # v /\ jobs'[i].session \in lifecycle
    BY <1>1 DEF Apart
  <1>3. \A t \in SessionIds : call'[t].victim # NoOne => call'[t].victim # v /\ call'[t].victim \in lifecycle
    BY <1>1 DEF Apart
  <1>4. ASSUME NEW x, x # NoOne
        PROVE  x \in lifecycle' <=>
                  (\E t \in SessionIds : call'[t].victim = x) \/ \E i \in Jobs : jobs'[i].session = x
    <2>1. ASSUME x \in lifecycle'
          PROVE  (\E t \in SessionIds : call'[t].victim = x) \/ \E i \in Jobs : jobs'[i].session = x
      <3>1. CASE x = w
        BY <3>1
      <3>2. CASE x # w
        <4>1. x \in lifecycle /\ x # v
          BY <2>1, <3>2
        <4>2. (\E t \in SessionIds : call[t].victim = x) \/ \E i \in Jobs : jobs[i].session = x
          BY <1>4, <4>1 DEF Apart
        <4>. QED  BY <4>1, <4>2
      <3>. QED  BY <3>1, <3>2
    <2>2. ASSUME NEW t \in SessionIds, call'[t].victim = x
          PROVE  x \in lifecycle'
      BY <1>3, <1>4, <2>2
    <2>3. ASSUME NEW i \in Jobs, jobs'[i].session = x
          PROVE  x \in lifecycle'
      BY <1>2, <1>4, <2>3
    <2>. QED  BY <2>1, <2>2, <2>3
  <1>5. \A i, k \in Jobs : i # k /\ jobs'[i].session # NoOne => jobs'[k].session # jobs'[i].session
    BY <1>2 DEF Apart
  <1>6. \A t \in SessionIds, i \in Jobs : call'[t].victim # NoOne => jobs'[i].session # call'[t].victim
    BY <1>3 DEF Apart
  <1>7. NoOne \notin lifecycle'
    BY DEF Apart
  <1>. QED  BY <1>4, <1>5, <1>6, <1>7 DEF Apart

\* Whom a step begins to manage is free.
Grown == \A x \in lifecycle' \ lifecycle : x \notin admissions' \cup outer'

LEMMA CallsApart ==
    ASSUME ServiceInv, LifeInv, NEW s \in SessionIds, CallForm(s)
    PROVE  Apart' /\ Grown
  <1>1. /\ \A t \in SessionIds \ {s} : call'[t] = call[t]
        /\ Apart /\ NoCall.victim = NoOne /\ Typed
    BY CallFormMoves, ManagedIsApart DEF LifeInv, NoCall, ServiceInv
  <1>2. UNCHANGED jobs
    BY DEF CallForm, Submit, Rejected, Reject, Goes, Evicts, HasStopped, Stopped, Takes,
           AcquireExecution, IsSent, Send, Underway
  <1>3. /\ call[s].pc \notin {"stopping", "freeing"} => call[s].victim = NoOne
        /\ call[s].victim # NoOne => call[s].victim \in lifecycle
    BY ManagedAreFree DEF LifeInv, Managed
  <1>4. PICK v, w : v = call[s].victim /\ w = call'[s].victim
    OBVIOUS
  <1>5. CASE Rejected(s) \/ Goes(s)
    <2>1. lifecycle' = lifecycle \ {v}
      BY <1>4, <1>5 DEF Rejected, Reject, Goes
    <2>2. w = NoOne
      <3>1. CASE Rejected(s)
        BY <1>1, <1>4, <3>1 DEF Rejected, Reject, Leave, ServiceInv, Typed
      <3>2. CASE Goes(s)
        <4>1. PICK pc \in {"roots", "recheck", "acquire", "admitted"} : Step(s, pc)
          BY <3>2 DEF Goes
        <4>. QED  BY <1>4, <4>1, StepVictim DEF ServiceInv, Places
      <3>. QED  BY <1>5, <3>1, <3>2
    <2>3. lifecycle' = (lifecycle \ {v}) \cup ({w} \ {NoOne}) /\ w \notin lifecycle \ {v}
      BY <1>1, <2>1, <2>2 DEF Apart
    <2>4. Apart'
      BY <1>1, <1>2, <1>4, <2>3, VictimsApart
    <2>. QED  BY <2>1, <2>4 DEF Grown
  <1>6. CASE Evicts(s)
    <2>1. PICK x \in sessions, goal \in {"acquire", "capacity"}, todo \in SUBSET SessionIds :
            /\ Evict(s, lifecycle \ {call[s].victim}, x, goal, todo)
            /\ Idle(x, lifecycle \ {call[s].victim}) /\ UNCHANGED <<admissions, outer>>
      BY <1>6 DEF Evicts, Underway, worldVars
    <2>2. x = w /\ lifecycle' = (lifecycle \ {v}) \cup {w} /\ w # NoOne
      <3>1. x = w
        BY <1>1, <1>4, <2>1, EvictIs
      <3>2. x # NoOne
        BY <1>1, ServiceAssumption DEF Typed
      <3>. QED  BY <1>4, <2>1, <3>1, <3>2 DEF Evict
    <2>3. w \notin lifecycle \ {v} /\ w \notin admissions \cup outer
      BY <1>4, <2>1, <2>2 DEF Idle, taskOccupied
    <2>4. lifecycle' = (lifecycle \ {v}) \cup ({w} \ {NoOne})
      BY <2>2
    <2>5. Apart'
      BY <1>1, <1>2, <1>4, <2>3, <2>4, VictimsApart
    <2>6. Grown
      BY <2>1, <2>2, <2>3 DEF Grown
    <2>. QED  BY <2>5, <2>6
  <1>7. CASE Submit(s) \/ HasStopped(s) \/ Takes(s) \/ IsSent(s)
    <2>1. UNCHANGED lifecycle
      BY <1>7 DEF Submit, HasStopped, Stopped, Takes, AcquireExecution, IsSent, Send
    <2>2. w = v
      <3>1. CASE Submit(s)
        <4>1. call[s].pc = "none"
          BY <3>1 DEF Submit
        <4>. QED  BY <1>1, <1>3, <1>4, <3>1, <4>1, SubmitIs
      <3>2. CASE HasStopped(s)
        <4>1. call' = [call EXCEPT ![s].pc = "freeing"]
          BY <3>2 DEF HasStopped, Stopped
        <4>. QED  BY <1>4, <4>1 DEF ServiceInv, Typed, CallRecord
      <3>3. CASE Takes(s)
        BY <1>3, <1>4, <3>3, StepVictim DEF ServiceInv, Takes, AcquireExecution, Places
      <3>4. CASE IsSent(s)
        BY <1>3, <1>4, <3>4, StepVictim DEF ServiceInv, IsSent, Send, Places
      <3>. QED  BY <1>7, <3>1, <3>2, <3>3, <3>4
    <2>3. lifecycle' = (lifecycle \ {v}) \cup ({w} \ {NoOne}) /\ w \notin lifecycle \ {v}
      BY <1>1, <1>3, <1>4, <2>1, <2>2 DEF Apart
    <2>4. Apart'
      BY <1>1, <1>2, <1>4, <2>3, VictimsApart
    <2>. QED  BY <2>1, <2>4 DEF Grown
  <1>. QED  BY <1>5, <1>6, <1>7 DEF CallForm

LEMMA ManagersApart ==
    ASSUME ServiceInv, LifeInv, NEW j \in Jobs, JobForm(j)
    PROVE  Apart' /\ Grown
  <1>1. /\ \A i \in Jobs \ {j} : jobs'[i] = jobs[i]
        /\ Apart /\ NoJob.session = NoOne
    BY JobFormMoves, ManagedIsApart DEF LifeInv, NoJob
  <1>2. UNCHANGED call
    BY DEF JobForm, Ceases, Finish, Starts, Locks, Moves, TakesContext, OwnContext, Resolve,
           DeleteRecord, Elsewhere
  <1>3. jobs[j].session # NoOne => jobs[j].session \in lifecycle
    BY ManagedAreFree
  <1>4. PICK v, w : v = jobs[j].session /\ w = jobs'[j].session
    OBVIOUS
  <1>5. CASE Ceases(j)
    <2>1. lifecycle' = lifecycle \ {v} /\ w = NoOne
      BY <1>1, <1>4, <1>5 DEF Ceases, Finish, ServiceInv, Typed
    <2>2. lifecycle' = (lifecycle \ {v}) \cup ({w} \ {NoOne}) /\ w \notin lifecycle \ {v}
      BY <1>1, <2>1 DEF Apart
    <2>3. Apart'
      BY <1>1, <1>2, <1>4, <2>2, JobsApart
    <2>. QED  BY <2>1, <2>3 DEF Grown
  <1>6. CASE Starts(j)
    <2>1. PICK s \in SessionIds, job \in JobRecord :
            /\ jobs[j] = NoJob /\ jobs' = [jobs EXCEPT ![j] = job] /\ job.session = s
            /\ s \notin admissions \cup outer /\ SessionUnlocked(s, lifecycle)
            /\ lifecycle' = lifecycle \cup {s} /\ UNCHANGED <<admissions, outer>>
      BY <1>6 DEF Starts, Elsewhere, worldVars
    <2>2. w = s /\ v = NoOne /\ s # NoOne /\ s \notin lifecycle
      BY <1>1, <1>4, <2>1, ServiceAssumption DEF ServiceInv, Typed, SessionUnlocked
    <2>3. lifecycle' = (lifecycle \ {v}) \cup ({w} \ {NoOne}) /\ w \notin lifecycle \ {v}
      BY <1>1, <2>1, <2>2 DEF Apart
    <2>4. Apart'
      BY <1>1, <1>2, <1>4, <2>3, JobsApart
    <2>5. Grown
      BY <2>1 DEF Grown
    <2>. QED  BY <2>4, <2>5
  <1>7. CASE Locks(j) \/ Moves(j) \/ TakesContext(j) \/ Resolve(j) \/ DeleteRecord(j)
    <2>1. UNCHANGED lifecycle
      BY <1>7 DEF Locks, Moves, TakesContext, OwnContext, Resolve, DeleteRecord
    <2>2. w = v
      <3>1. CASE Locks(j) \/ Moves(j)
        <4>1. PICK job \in JobRecord : jobs' = [jobs EXCEPT ![j] = job] /\ job.session = jobs[j].session
          BY <3>1 DEF Locks, Moves
        <4>. QED  BY <1>4, <4>1 DEF ServiceInv, Typed
      <3>2. CASE TakesContext(j)
        <4>1. jobs' = [jobs EXCEPT ![j].pc = "action", ![j].keys = Keys(jobs[j].session)]
          BY <3>2 DEF TakesContext, OwnContext
        <4>. QED  BY <1>4, <4>1 DEF ServiceInv, Typed, JobRecord
      <3>3. CASE Resolve(j) \/ DeleteRecord(j)
        BY <1>4, <3>3 DEF Resolve, DeleteRecord
      <3>. QED  BY <1>7, <3>1, <3>2, <3>3
    <2>3. lifecycle' = (lifecycle \ {v}) \cup ({w} \ {NoOne}) /\ w \notin lifecycle \ {v}
      BY <1>1, <1>3, <1>4, <2>1, <2>2 DEF Apart
    <2>4. Apart'
      BY <1>1, <1>2, <1>4, <2>3, JobsApart
    <2>. QED  BY <2>1, <2>4 DEF Grown
  <1>. QED  BY <1>5, <1>6, <1>7 DEF JobForm

LEMMA ApartKept ==
    ASSUME ServiceInv, LifeInv, Form
    PROVE  Apart' /\ Grown
  <1>1. CASE UNCHANGED <<call, jobs, lifecycle>>
    BY <1>1, ManagedIsApart DEF LifeInv, Apart, Grown
  <1>2. ASSUME NEW s \in SessionIds, FinishRelease(s) \/ FailRelease(s) \/ EngineForm(s) \/ UserForm(s)
        PROVE  UNCHANGED <<call, jobs, lifecycle>>
    BY <1>2 DEF FinishRelease, ReleaseOnly, FailRelease, EngineForm, TurnEnds, NativeEnds, ProcessGone,
                ProcessDies, DriverOnly, UserForm, Stop, Interrupt, Cancel, StopEnds, OuterBegins, OuterEnds
  <1>3. CASE (\E p \in Providers : MaintenanceBegins(p)) \/ MaintenanceActs \/ MaintenanceEnds
    BY <1>1, <1>3 DEF MaintenanceBegins, MaintenanceActs, MaintenanceEnds
  <1>4. CASE UNCHANGED serviceVars
    BY <1>1, <1>4 DEF serviceVars
  <1>. QED  BY <1>1, <1>2, <1>3, <1>4, CallsApart, ManagersApart DEF Form

LEMMA ManagedKept ==
    ASSUME ServiceInv, LifeInv, Form, ServiceInv'
    PROVE  Managed'
  <1>1. Apart' /\ Grown
    BY ApartKept
  <1>2. ASSUME NEW s \in SessionIds
        PROVE  /\ call'[s].victim # NoOne <=> call'[s].pc \in {"stopping", "freeing"}
               /\ call'[s].pc = "none" => call'[s] = NoCall
    <2>1. /\ call[s].victim # NoOne <=> call[s].pc \in {"stopping", "freeing"}
          /\ call[s].pc = "none" => call[s] = NoCall
          /\ NoCall.pc = "none" /\ NoCall.victim = NoOne
          /\ CallMove(s)
      BY CallsChange DEF LifeInv, Managed, NoCall
    <2>2. CASE Evicts(s)
      <3>1. PICK x \in sessions, goal \in {"acquire", "capacity"}, todo \in SUBSET SessionIds :
              Evict(s, lifecycle \ {call[s].victim}, x, goal, todo)
        BY <2>2 DEF Evicts
      <3>2. call'[s].pc = "stopping" /\ call'[s].victim = x /\ x # NoOne
        BY <3>1, EvictIs, ServiceAssumption DEF ServiceInv, Typed
      <3>. QED  BY <3>2
    <2>3. CASE ~Evicts(s)
      BY <2>1, <2>3 DEF CallMove, Past
    <2>. QED  BY <2>2, <2>3
  <1>3. lifecycle' = ({call'[s].victim : s \in SessionIds} \cup {jobs'[j].session : j \in Jobs}) \ {NoOne}
    BY <1>1 DEF Apart
  <1>4. outer' \subseteq sessions'
    <2>1. ASSUME NEW s \in outer'
          PROVE  s \in sessions'
      <3>1. OuterMove(s) /\ RecordMove(s)
        BY HoldersMove
      <3>2. s \in sessions
        BY <3>1 DEF OuterMove, OuterBegins, LifeInv, Managed
      <3>. QED  BY <3>1, <3>2 DEF RecordMove
    <2>. QED  BY <2>1
  <1>5. ASSUME NEW s \in lifecycle'
        PROVE  s \notin admissions' \cup outer'
    <2>1. CASE s \notin lifecycle
      BY <1>1, <2>1 DEF Grown
    <2>2. CASE s \in lifecycle
      <3>1. OuterMove(s) /\ s \notin outer /\ (s \in SessionIds => call[s].pc = "none")
        BY <2>2, HoldersMove, ManagedAreFree
      <3>2. s \notin outer'
        BY <2>2, <3>1 DEF OuterMove, OuterBegins, SessionUnlocked
      <3>3. ASSUME s \in admissions'
            PROVE  FALSE
        <4>1. s \in SessionIds /\ call'[s].pc # "none"
          BY <3>3 DEF ServiceInv, Booked, Called
        <4>2. CallMove(s) /\ NoCall.pc = "none"
          BY <4>1, CallsChange DEF NoCall
        <4>3. Submit(s)
          <5>1. call[s].pc = "none"
            BY <3>1, <4>1
          <5>. QED  BY <4>1, <4>2, <5>1 DEF CallMove, Goes, Evicts, Past
        <4>. QED  BY <2>2, <4>3 DEF Submit, SessionUnlocked
      <3>. QED  BY <3>2, <3>3
    <2>. QED  BY <2>1, <2>2
  <1>. QED  BY <1>1, <1>2, <1>3, <1>4, <1>5 DEF Managed, Apart

\* The invariant, from the start on.
LEMMA LifeInvInit == ServiceInit => LifeInv
  <1> SUFFICES ASSUME ServiceInit
               PROVE  LifeInv
    OBVIOUS
  <1>1. /\ NoCall.victim = NoOne /\ NoCall.pc = "none"
        /\ NoJob.session = NoOne /\ NoJob.keys = {} /\ NoJob.kind = "none"
    BY DEF NoCall, NoJob
  <1>2. Managed
    BY <1>1 DEF ServiceInit, Managed
  <1>3. Locked
    BY <1>1 DEF ServiceInit, Locked
  <1>4. Engines /\ Contexts /\ Owed /\ Victims
    BY <1>1 DEF ServiceInit, Engines, Contexts, Owed, Victims, Held
  <1>. QED  BY <1>2, <1>3, <1>4 DEF LifeInv

LEMMA LifeInvNext ==
    ServiceInv /\ ServiceInv' /\ LifeInv /\ [ServiceNext]_serviceVars => LifeInv'
  <1> SUFFICES ASSUME ServiceInv, ServiceInv', LifeInv, [ServiceNext]_serviceVars
               PROVE  LifeInv'
    OBVIOUS
  <1>1. Form
    BY StepForms
  <1>. QED
    BY <1>1, ManagedKept, LockedKept, EnginesKept, ContextsKept, OwedKept, VictimsKept DEF LifeInv

LEMMA LifeInvHolds == ServiceSpec => [](ServiceInv /\ LifeInv)
  <1>. QED
    BY LifeInvInit, LifeInvNext, ServiceInvHolds, PTL DEF ServiceSpec

-----------------------------------------------------------------------------
(* The properties.                                                         *)

\* Leases, processes, calls, management and locks agree after any interleaving
\* of calls, stops, evictions, management jobs and failures: no process without
\* its session's lease (acquireExecution, maintainNativeContext), no lock or
\* managed id without its operation, and no native lease that
\* refreshDirectoryRelease has lost sight of.
THEOREM LeasesFollowProcesses == ServiceSpec => []LeasesMatchProcesses
  <1>1. ASSUME ServiceInv, LifeInv
        PROVE  LeasesMatchProcesses
    <2>1. admissions = {s \in SessionIds : call[s].pc # "none"}
      BY <1>1 DEF ServiceInv, Booked, Called
    <2>2. /\ lifecycle = ({call[s].victim : s \in SessionIds} \cup {jobs[j].session : j \in Jobs})
                      \ {NoOne}
          /\ directoryLocks = UNION {jobs[j].keys : j \in Jobs}
      BY <1>1 DEF LifeInv, Managed, Locked
    <2>3. ASSUME NEW s \in SessionIds, Has(s)
          PROVE  /\ executionLeases[s] # NoLease /\ owns(executionLeases[s])
                 /\ executionLeases[s].roots = Keys(s)
      <3>1. Held(s)
        BY <1>1, <2>3 DEF Has, ContextBusy, LifeInv, Contexts, ServiceInv, Booked, Driven
      <3>. QED  BY <1>1, <3>1 DEF Held, owns, ServiceInv, Booked, Noted
    <2>4. leases = {executionLeases[s] : s \in SessionIds} \ {NoLease}
      <3>1. /\ \A l \in leases : l.session \in SessionIds /\ executionLeases[l.session] = l
            /\ \A s \in SessionIds : executionLeases[s] \in leases \cup {NoLease}
            /\ NoLease \notin leases
        BY <1>1, ServiceAssumption DEF ServiceInv, Booked, Noted, LeasesInv, LeasesTypeOK
      <3>. QED  BY <3>1
    <2>5. ASSUME NEW s \in SessionIds, Native(s), Held(s)
          PROVE  Has(s) \/ releaseOp[s] # NoLease \/ s \in admissions \cup outer \cup recovery \cup lifecycle
      <3>1. (\E j \in Jobs : jobs[j].session = s) => s \in lifecycle
        BY <1>1, <2>5, ManagedAreFree, ServiceAssumption
      <3>. QED  BY <1>1, <2>5, <3>1 DEF LifeInv, Owed, Has
    <2>. QED  BY <2>1, <2>2, <2>3, <2>4, <2>5 DEF LeasesMatchProcesses, Held
  <1>. QED  BY <1>1, LifeInvHolds, PTL

-----------------------------------------------------------------------------

LEMMA AloneKept ==
    ASSUME ServiceInv, LifeInv, Form, ServiceInv', Alone
    PROVE  Alone'
  <1> DEFINE Uses(x) == driver[x] # "none" \/ x \in admissions
  <1>0. \A x \in SessionIds : x \in admissions <=> call[x].pc # "none"
    BY DEF ServiceInv, Booked, Called
  <1>1. ASSUME NEW s \in SessionIds, NEW t \in SessionIds, s # t, Conversation[s] = Conversation[t],
               driver'[s] # "none" \/ s \in admissions', driver'[t] # "none" \/ t \in admissions'
        PROVE  FALSE
    <2>1. ~Native(s) /\ ~Native(t)
      BY <1>1, ServiceAssumption DEF Native, Structured
    <2>2. ASSUME NEW x \in SessionIds, ~Native(x), ~Uses(x), driver'[x] # "none" \/ x \in admissions'
          PROVE  Submit(x)
      <3>1. call[x].pc = "none" /\ driver[x] = "none" /\ NoCall.pc = "none"
        BY <1>0, <2>2 DEF NoCall
      <3>2. DriverMoves(x) /\ CallMove(x)
        BY DriversMove, CallsChange
      <3>3. driver'[x] = "none"
        BY <2>2, <3>1, <3>2 DEF DriverMoves
      <3>4. call'[x].pc # "none"
        BY <2>2, <3>3 DEF ServiceInv, Booked, Called
      <3>. QED  BY <3>1, <3>2, <3>4 DEF CallMove, Goes, Evicts, Past
    <2>3. ASSUME NEW x \in SessionIds, NEW y \in SessionIds, x # y, Conversation[x] = Conversation[y],
                 Submit(x)
          PROVE  ~Uses(y) /\ ~Submit(y)
      <3>1. ~Uses(y)
        <4>1. y \in sessions => ~occupied(y)
          BY <2>3 DEF Submit, SoleRunner
        <4>. QED  BY <4>1 DEF occupied, Has, ServiceInv, Booked, Driven, Called
      <3>2. call[y].pc = "none" /\ call'[y] = call[y]
        BY <1>0, <2>3, <3>1, SubmitIs DEF ServiceInv
      <3>. QED  BY <3>1, <3>2, SubmitIs DEF ServiceInv
    <2>4. ~(Uses(s) /\ Uses(t))
      BY <1>1 DEF Alone
    <2>. QED  BY <1>1, <2>1, <2>2, <2>3, <2>4
  <1>. QED  BY <1>1 DEF Alone

LEMMA RoomKept ==
    ASSUME ServiceInv, LifeInv, Form, ServiceInv', Room
    PROVE  Room'
  <1>0. IsFiniteSet(SessionIds) /\ MaxSessions \in Nat
    BY ServiceAssumption
  <1>1. IsFiniteSet(Risen) /\ Cardinality(Risen) \in Nat
    <2>1. Risen \subseteq SessionIds
      BY DEF Risen
    <2>. QED  BY <1>0, <2>1, FS_Subset, FS_CardinalityType
  <1>2. ASSUME NEW t \in Risen' \ Risen
        PROVE  Goes(t) /\ ~Full /\ t \in SessionIds /\ call[t].pc # "none"
    <2>1. t \in SessionIds
      BY <1>2 DEF Risen
    <2>2. DriverMoves(t) /\ CallMove(t) /\ NoCall.pc = "none"
      BY <2>1, DriversMove, CallsChange DEF NoCall
    <2>3. ~Alive(t) /\ call[t].pc # "admitted"
      BY <1>2, <2>1 DEF Risen
    <2>4. driver'[t] \in {"none", "unclosed"}
      BY <2>2, <2>3 DEF DriverMoves, Alive, LifeInv, Engines
    <2>5. call'[t].pc = "admitted"
      BY <1>2, <2>1, <2>4 DEF Risen, Alive
    <2>6. Goes(t) /\ ~Full
      BY <2>2, <2>3, <2>5 DEF CallMove, Past
    <2>. QED  BY <2>1, <2>6 DEF Goes
  <1>3. CASE Risen' \subseteq Risen
    <2>1. IsFiniteSet(Risen') /\ Cardinality(Risen') \in Nat /\ Cardinality(Risen') <= Cardinality(Risen)
      BY <1>1, <1>3, FS_Subset, FS_CardinalityType
    <2>. QED  BY <1>0, <1>1, <2>1 DEF Room
  <1>4. CASE ~(Risen' \subseteq Risen)
    <2>1. PICK t \in Risen' : t \notin Risen
      BY <1>4
    <2>2. Goes(t) /\ ~Full /\ t \in SessionIds /\ call[t].pc # "none"
      BY <1>2, <2>1
    <2> DEFINE used == {s \in sessions : occupied(s)}
    <2>3. IsFiniteSet(used) /\ Cardinality(used) \in Nat /\ Cardinality(used) <= MaxSessions
      <3>1. used \subseteq SessionIds
        BY DEF ServiceInv, Typed
      <3>2. IsFiniteSet(used) /\ Cardinality(used) \in Nat
        BY <1>0, <3>1, FS_Subset, FS_CardinalityType
      <3>3. ~(Cardinality(used) > MaxSessions)
        BY <2>2 DEF Full
      <3>. QED  BY <1>0, <3>2, <3>3
    <2>4. ASSUME NEW s \in Risen'
          PROVE  s \in sessions /\ occupied(s)
      <3>1. s \in SessionIds /\ (driver'[s] # "none" \/ call'[s].pc = "admitted")
        BY <2>4 DEF Risen, Alive
      <3>2. UNCHANGED driver
        BY <2>2 DEF Goes
      <3>3. s # t => call'[s] = call[s]
        BY <2>2, <3>1, CallFormMoves DEF CallForm
      <3>4. driver[s] # "none" \/ call[s].pc # "none"
        BY <2>2, <3>1, <3>2, <3>3
      <3>. QED  BY <3>1, <3>4 DEF occupied, Has, ServiceInv, Booked, Driven, Called
    <2> HIDE DEF used
    <2>5. Risen' \subseteq used
      BY <2>4 DEF used
    <2>6. IsFiniteSet(Risen') /\ Cardinality(Risen') \in Nat /\ Cardinality(Risen') <= Cardinality(used)
      BY <2>3, <2>5, FS_Subset, FS_CardinalityType
    <2>. QED  BY <1>0, <2>3, <2>6 DEF Room
  <1>. QED  BY <1>3, <1>4

\* However the admissions, evictions, stops and failures interleave: never more
\* processes than the settings allow (reserve), never two of one conversation
\* (assertSoleRunner), and an eviction takes no session anything uses.
THEOREM AdmissionStaysSafe == ServiceSpec => []AdmissionIsSafe
  <1>1. ServiceInit => Alone /\ Room
    <2> SUFFICES ASSUME ServiceInit
                 PROVE  Alone /\ Room
      OBVIOUS
    <2>1. NoCall.pc = "none"
      BY DEF NoCall
    <2>2. Risen = {}
      BY <2>1 DEF ServiceInit, Risen, Alive
    <2>3. Cardinality({}) = 0
      BY FS_EmptySet
    <2>4. Room
      BY <2>2, <2>3, ServiceAssumption DEF Room
    <2>. QED  BY <2>4 DEF Alone, ServiceInit
  <1>2. ServiceInv /\ ServiceInv' /\ LifeInv /\ Alone /\ Room /\ [ServiceNext]_serviceVars => (Alone /\ Room)'
    BY StepForms, AloneKept, RoomKept
  <1>3. ASSUME ServiceInv, LifeInv, Alone, Room
        PROVE  AdmissionIsSafe
    <2>1. Cardinality({s \in SessionIds : Alive(s) \/ call[s].pc = "admitted"}) <= MaxSessions
      BY <1>3 DEF Room, Risen
    <2>2. ASSUME NEW s \in SessionIds, NEW t \in SessionIds, s # t, Conversation[s] = Conversation[t],
                 Has(s), Has(t)
          PROVE  FALSE
      <3>1. ~Native(s) /\ ~Native(t)
        BY <2>2, ServiceAssumption DEF Native, Structured
      <3>2. driver[s] # "none" /\ driver[t] # "none"
        BY <1>3, <2>2, <3>1 DEF Has, ContextBusy, LifeInv, Contexts
      <3>. QED  BY <1>3, <2>2, <3>2 DEF Alone
    <2>3. ASSUME NEW s \in SessionIds, call[s].victim # NoOne
          PROVE  call[s].victim \notin admissions \cup outer /\ ~IsBusy(call[s].victim)
      <3> DEFINE v == call[s].victim
      <3>1. v \in lifecycle /\ v \in SessionIds /\ v \notin admissions \cup outer
        BY <1>3, <2>3, ManagedAreFree DEF LifeInv, Managed
      <3>2. /\ Claude(v) => driver[v] \in {"closing", "none"}
            /\ ~Claude(v) => driver[v] = "none"
            /\ \A j \in Jobs : jobs[j].session # v
        BY <1>3, <2>3 DEF LifeInv, Victims, Managed
      <3> HIDE DEF v
      <3>3. ~IsBusy(v)
        BY <3>2 DEF IsBusy, Has, ContextBusy
      <3>. QED  BY <3>1, <3>3 DEF v
    <2>. QED  BY <2>1, <2>2, <2>3 DEF AdmissionIsSafe
  <1>. QED  BY <1>1, <1>2, <1>3, LifeInvHolds, PTL DEF ServiceSpec

-----------------------------------------------------------------------------

LEMMA HeldAreApart ==
    ASSUME ServiceInv
    PROVE  \A s, t \in SessionIds : s # t /\ Held(s) /\ Held(t) => ~RootsOverlap(Keys(s), Keys(t))
  BY DEF ServiceInv, Booked, Noted, LeasesInv, LeasesExclusive, Held

LEMMA DoubtedKept ==
    ASSUME ServiceInv, LifeInv, Form, ServiceInv', Doubted
    PROVE  Doubted'
  <1> SUFFICES ASSUME NEW s \in SessionIds, s \in recovery', s \in sessions', NEW t \in SessionIds,
                      s # t, RootsOverlap(Keys(s), Keys(t))
               PROVE  /\ ~Alive(t)'
                      /\ Held(s)' \/ (call'[t].pc # "acquire" /\ ~Past(call'[t]))
    <2>1. sessions' \subseteq SessionIds
      BY DEF ServiceInv, Typed
    <2>. QED  BY <2>1 DEF Doubted, Keys, Held, Past, Alive, RootsOverlap, directoriesOverlap
  <1>1. /\ RecoveryMoves(s) /\ RecordMove(s) /\ HeldMove(s)
        /\ DriverMoves(t) /\ CallMove(t)
    BY RecoveriesMove, HoldersMove, HeldsMove, DriversMove, CallsChange
  <1>2. CASE Held(s)'
    <2>1. ~Held(t)'
      <3>1. \A x, y \in SessionIds : x # y /\ Held(x)' /\ Held(y)' => ~RootsOverlap(Keys(x), Keys(y))
        BY HeldAreApart DEF ServiceInv, Booked, Noted, LeasesInv, LeasesExclusive, Held
      <3>. QED  BY <1>2, <3>1
    <2>2. driver'[t] = "none"
      BY <2>1 DEF ServiceInv, Booked, Driven, Held
    <2>. QED  BY <1>2, <2>2 DEF Alive
  <1>3. CASE ~Held(s)'
    <2>1. s \in recovery /\ s \in sessions /\ ~Held(s)
      BY <1>1, <1>3 DEF RecoveryMoves, RecordMove, HeldMove, Held, leaseVars
    <2>2. ~Alive(t) /\ call[t].pc # "acquire" /\ ~Past(call[t])
      BY <2>1 DEF Doubted
    <2>3. ~Alive(t)'
      BY <1>1, <2>2 DEF DriverMoves, Alive, Past, LifeInv, Engines
    <2>4. ~RecoveryClear(Keys(t))
      <3>1. RootsOverlap(Keys(t), Keys(s))
        BY OverlapIsSymmetric
      <3>. QED  BY <2>1, <3>1 DEF RecoveryClear
    <2>5. call'[t].pc # "acquire" /\ ~Past(call'[t])
      <3>1. NoCall.pc = "none"
        BY DEF NoCall
      <3>. QED  BY <1>1, <2>2, <2>4, <3>1 DEF CallMove, Past
    <2>. QED  BY <2>3, <2>5
  <1>. QED  BY <1>2, <1>3

\* After a restart or a run that ended in doubt, nothing else runs near until the
\* user has confirmed it (assertRecoveryDirectories, refreshDirectoryRelease).
THEOREM DoubtKeepsOthersAway == ServiceSpec => []UncertainDirectoriesRest
  <1>1. ServiceInit => Doubted
    BY DEF ServiceInit, Doubted, Alive, NoCall, Past
  <1>2. ServiceInv /\ ServiceInv' /\ LifeInv /\ Doubted /\ [ServiceNext]_serviceVars => Doubted'
    BY StepForms, DoubtedKept
  <1>3. ServiceInv /\ Doubted => UncertainDirectoriesRest
    BY DEF Doubted, UncertainDirectoriesRest
  <1>. QED  BY <1>1, <1>2, <1>3, LifeInvHolds, PTL DEF ServiceSpec

-----------------------------------------------------------------------------

LEMMA SecludedKept ==
    ASSUME ServiceInv, LifeInv, Form, ServiceInv', Secluded
    PROVE  Secluded'
  <1> SUFFICES ASSUME NEW j \in Jobs, jobs'[j].kind \in {"worktree", "creation", "context"},
                      jobs'[j].pc = "action",
                      NEW s \in SessionIds, Held(s)', jobs'[j].kind = "context" => s # jobs'[j].session
               PROVE  ~RootsOverlap(jobs'[j].keys, Keys(s))
    BY DEF Secluded, At, Held, Keys, RootsOverlap, directoriesOverlap
  <1>1. JobMove(j) /\ HeldMove(s)
    BY JobsChange, HeldsMove
  <1>2. \A keys, except : conflicts(keys, except) = {} /\ Held(s) /\ s # except => ~RootsOverlap(keys, Keys(s))
    BY DEF conflicts, ServiceInv, Booked, Noted, Held
  <1>3. \/ jobs'[j] = jobs[j]
        \/ /\ Moves(j) /\ jobs[j].kind \in {"worktree", "creation"} /\ Vacant(jobs[j].keys)
           /\ jobs'[j].keys = jobs[j].keys
        \/ /\ TakesContext(j) /\ jobs'[j].kind = "context" /\ jobs'[j].session = jobs[j].session
           /\ conflicts(jobs'[j].keys, jobs[j].session) = {}
    <2>1. NoJob.kind = "none"
      BY DEF NoJob
    <2>. QED  BY <1>1, <2>1 DEF JobMove
  <1>4. CASE jobs'[j] = jobs[j]
    <2>1. CASE Held(s)
      BY <1>4, <2>1 DEF Secluded, At
    <2>2. CASE ~Held(s)
      <3>1. Unlocked(Keys(s))
        BY <1>1, <2>2 DEF HeldMove, Taken
      <3>2. jobs[j].keys \subseteq directoryLocks
        BY DEF LifeInv, Locked
      <3>3. ASSUME RootsOverlap(jobs[j].keys, Keys(s))
            PROVE  FALSE
        <4>1. RootsOverlap(Keys(s), jobs[j].keys)
          BY <3>3, OverlapIsSymmetric
        <4>. QED  BY <3>1, <3>2, <4>1 DEF Unlocked, RootsOverlap
      <3>. QED  BY <1>4, <3>3
    <2>. QED  BY <2>1, <2>2
  <1>5. CASE Moves(j) /\ Vacant(jobs[j].keys) /\ jobs'[j].keys = jobs[j].keys
    <2>1. Held(s)
      BY <1>5 DEF Moves, Held, leaseVars
    <2>. QED  BY <1>2, <1>5, <2>1, ServiceAssumption DEF Vacant
  <1>6. CASE TakesContext(j) /\ jobs'[j].kind = "context" /\ jobs'[j].session = jobs[j].session
             /\ conflicts(jobs'[j].keys, jobs[j].session) = {}
    <2>1. s # jobs[j].session
      BY <1>6
    <2>2. Held(s)
      <3>1. CASE UNCHANGED leaseVars
        BY <3>1 DEF Held, leaseVars
      <3>2. CASE Own(jobs[j].session, jobs[j].cancelled)
        <4>1. executionLeases' = [executionLeases EXCEPT ![jobs[j].session] =
                 Granted(FreshToken, jobs[j].session, Provider[jobs[j].session], jobs[j].cancelled,
                         Keys(jobs[j].session))]
          BY <3>2 DEF Own
        <4>. QED  BY <2>1, <4>1 DEF Held, ServiceInv, Booked, Noted
      <3>. QED  BY <1>6, <3>1, <3>2 DEF TakesContext, OwnContext
    <2>. QED  BY <1>2, <1>6, <2>1, <2>2
  <1>. QED  BY <1>3, <1>4, <1>5, <1>6

LEMMA MaintainedKept ==
    ASSUME ServiceInv, LifeInv, Form, ServiceInv', Maintained
    PROVE  Maintained'
  <1>0. /\ sessions \subseteq SessionIds /\ NoOne \notin SessionIds
        /\ \A x \in SessionIds : x \in admissions <=> call[x].pc # "none"
        /\ \A x \in SessionIds : x \in admissions' <=> call'[x].pc # "none"
    BY ServiceAssumption DEF ServiceInv, Typed, Booked, Called
  <1>1. ASSUME UNCHANGED maintenance
        PROVE  Maintained'
    <2>1. ASSUME maintenance.acting, NEW s \in maintenance.ids
          PROVE  /\ ~Alive(s)' /\ s \notin admissions' /\ \A j \in Jobs : jobs'[j].session # s
      <3>1. /\ s \in SessionIds /\ Provider[s] = maintenance.engine /\ ~Alive(s) /\ call[s].pc = "none"
            /\ \A j \in Jobs : jobs[j].session # s
        BY <1>0, <2>1 DEF Maintained
      <3>2. DriverMoves(s) /\ CallMove(s)
        BY <3>1, DriversMove, CallsChange
      <3>3. ~Alive(s)'
        BY <3>1, <3>2 DEF DriverMoves, Alive, LifeInv, Engines
      <3>4. ~SessionUnlocked(s, lifecycle)
        BY <3>1 DEF SessionUnlocked, EngineAvailable
      <3>5. call'[s].pc = "none"
        <4>1. ~Submit(s) /\ NoCall.pc = "none"
          BY <3>4 DEF Submit, NoCall
        <4>. QED  BY <3>1, <3>2, <4>1 DEF CallMove, Goes, Evicts, Past
      <3>6. ASSUME NEW j \in Jobs, jobs'[j].session = s
            PROVE  FALSE
        <4>1. JobMove(j) /\ NoJob.session = NoOne
          BY JobsChange DEF NoJob
        <4>. QED  BY <1>0, <3>1, <3>4, <3>6, <4>1 DEF JobMove
      <3>. QED  BY <1>0, <3>1, <3>3, <3>5, <3>6
    <2>. QED  BY <1>1, <2>1 DEF Maintained, Alive
  <1>2. ASSUME NEW s \in SessionIds, CallForm(s)
        PROVE  UNCHANGED maintenance
    BY <1>2 DEF CallForm, Submit, Rejected, Reject, Goes, Evicts, HasStopped, Stopped, Takes,
                AcquireExecution, IsSent, Send, Underway, fenceVars
  <1>3. ASSUME NEW s \in SessionIds, FinishRelease(s) \/ FailRelease(s) \/ EngineForm(s) \/ UserForm(s)
        PROVE  UNCHANGED maintenance
    BY <1>3 DEF FinishRelease, ReleaseOnly, FailRelease, EngineForm, TurnEnds, NativeEnds, ProcessGone,
                ProcessDies, DriverOnly, UserForm, Stop, Interrupt, Cancel, StopEnds, OuterBegins, OuterEnds,
                fenceVars
  <1>4. ASSUME NEW j \in Jobs, JobForm(j)
        PROVE  UNCHANGED maintenance
    BY <1>4 DEF JobForm, Ceases, Finish, Starts, Locks, Moves, TakesContext, OwnContext, Resolve,
                DeleteRecord, Elsewhere, fenceVars
  <1>5. ASSUME NEW p \in Providers, MaintenanceBegins(p)
        PROVE  Maintained'
    <2>1. maintenance' = [engine |-> p, ids |-> {s \in sessions : Provider[s] = p}, acting |-> FALSE]
      BY <1>5 DEF MaintenanceBegins
    <2>. QED  BY <1>0, <2>1 DEF Maintained
  <1>6. CASE MaintenanceActs
    <2>1. /\ maintenance' = [maintenance EXCEPT !.acting = TRUE]
          /\ maintenance.engine # NoOne /\ UNCHANGED <<driver, admissions, jobs>>
      BY <1>6 DEF MaintenanceActs
    <2>2. maintenance'.ids = maintenance.ids /\ maintenance'.engine = maintenance.engine
      BY <2>1
    <2>3. ASSUME NEW s \in maintenance.ids
          PROVE  ~Alive(s) /\ s \notin admissions /\ \A j \in Jobs : jobs[j].session # s
      <3>1. s \in SessionIds /\ ~Has(s) /\ s \notin admissions \cup lifecycle
        BY <1>6, <2>3 DEF MaintenanceActs, Pending, Maintained
      <3>2. \A j \in Jobs : jobs[j].session # s
        BY <1>0, <3>1, ManagedAreFree
      <3>. QED  BY <3>1, <3>2 DEF Has, Alive
    <2>. QED  BY <2>1, <2>2, <2>3 DEF Maintained, Alive
  <1>7. CASE MaintenanceEnds
    <2>1. maintenance' = [engine |-> NoOne, ids |-> {}, acting |-> FALSE]
      BY <1>7 DEF MaintenanceEnds
    <2>. QED  BY <2>1 DEF Maintained
  <1>8. CASE UNCHANGED serviceVars
    BY <1>1, <1>8 DEF serviceVars
  <1>. QED  BY <1>1, <1>2, <1>3, <1>4, <1>5, <1>6, <1>7, <1>8 DEF Form

\* Whoever creates or works on a worktree, or compacts or recovers a native
\* session, is alone in its directories (releaseIdleDirectories, the locks of
\* manage and maintainNativeContext); and a maintenance that acts finds its
\* engine at rest, and keeps it so (withEngineMaintenance).
THEOREM ManagementStaysAlone == ServiceSpec => []ManagementIsAlone
  <1>1. ServiceInit => Secluded /\ Maintained
    BY DEF ServiceInit, Secluded, Maintained, At, NoJob
  <1>2. ServiceInv /\ ServiceInv' /\ LifeInv /\ Secluded /\ Maintained /\ [ServiceNext]_serviceVars
            => (Secluded /\ Maintained)'
    BY StepForms, SecludedKept, MaintainedKept
  <1>3. ASSUME ServiceInv, LifeInv, Secluded, Maintained
        PROVE  ManagementIsAlone
    <2>1. ASSUME NEW j \in Jobs, At(j, {"worktree", "creation", "context"}, "action")
          PROVE  /\ conflicts(jobs[j].keys, IF jobs[j].kind = "context" THEN jobs[j].session ELSE NoOne) = {}
                 /\ \A s \in SessionIds \ {jobs[j].session} :
                       Has(s) => ~RootsOverlap(jobs[j].keys, Keys(s))
      <3>1. \A s \in SessionIds : Held(s) /\ (jobs[j].kind = "context" => s # jobs[j].session) =>
               ~RootsOverlap(jobs[j].keys, Keys(s))
        BY <1>3, <2>1 DEF Secluded
      <3>2. \A l \in leases : l.session \in SessionIds /\ Held(l.session) /\ l.roots = Keys(l.session)
        <4>1. NoLease \notin leases
          BY <1>3, ServiceAssumption DEF ServiceInv, Booked, Noted, LeasesInv, LeasesTypeOK
        <4>. QED  BY <1>3, <4>1 DEF ServiceInv, Booked, Noted, Held
      <3>3. conflicts(jobs[j].keys, IF jobs[j].kind = "context" THEN jobs[j].session ELSE NoOne) = {}
        BY <3>1, <3>2 DEF conflicts
      <3>4. \A s \in SessionIds : Has(s) => Held(s)
        BY <1>3 DEF Has, ContextBusy, LifeInv, Contexts, ServiceInv, Booked, Driven
      <3>. QED  BY <3>1, <3>3, <3>4
    <2>2. ASSUME maintenance.acting, NEW s \in maintenance.ids
          PROVE  ~Alive(s) /\ call[s].pc = "none" /\ \A j \in Jobs : jobs[j].session # s
      BY <1>3, <2>2 DEF Maintained, ServiceInv, Booked, Called
    <2>. QED  BY <2>1, <2>2 DEF ManagementIsAlone
  <1>. QED  BY <1>1, <1>2, <1>3, LifeInvHolds, PTL DEF ServiceSpec
=============================================================================
