------------------------- MODULE DirectoryExecution -------------------------
(***************************************************************************)
(* DirectoryExecutionCoordinator: the leases that keep two executions out  *)
(* of the same working directory.  A lease names its session, the provider *)
(* and the generation it was taken under, and the directories it covers.   *)
(*                                                                         *)
(* A path is a model value; Canonical is what canonicalDirectory makes of  *)
(* it (links resolved, missing tails kept), and Within is the containment  *)
(* of canonical directories.  A token stands for the object identity of a  *)
(* lease: randomUUID never returns one that is still referred to.          *)
(***************************************************************************)
EXTENDS Naturals, FiniteSets

CONSTANTS
    SessionIds,    \* who may own a lease
    Providers,     \* the execution engines
    Generations,   \* the values of a session's cancellation counter
    Tokens,        \* lease identities
    Paths,         \* directories as callers write them
    Directories,   \* canonical directories
    Canonical,     \* [Paths -> Directories]
    Within         \* <<inner, outer>>: inner is outer or lies inside it

ASSUME PathsAssumption == Canonical \in [Paths -> Directories]
ASSUME WithinAssumption ==
    /\ Within \subseteq Directories \X Directories
    /\ \A d \in Directories : <<d, d>> \in Within

VARIABLE leases    \* the coordinator's map, as the set of its leases

Lease == [token : Tokens, session : SessionIds, provider : Providers,
          generation : Generations, roots : SUBSET Directories]

\* Operators named Mutant... are wrong on purpose: each is a slip the code could
\* have made in the definition below it.
MutantOverlap(a, b) == <<a, b>> \in Within

\* Either directory contains the other.
directoriesOverlap(a, b) == <<a, b>> \in Within \/ <<b, a>> \in Within

RootsOverlap(these, those) == \E a \in these, b \in those : directoriesOverlap(a, b)

CanonicalRoots(paths) == {Canonical[p] : p \in paths}

\* The leases of other sessions that stand in the way of these roots.
conflicts(roots, except) ==
    {l \in leases : l.session # except /\ RootsOverlap(roots, l.roots)}

HeldBy(session) == {l \in leases : l.session = session}

\* acquire refuses an empty request, a conflict, and a session that still
\* holds a lease of another provider or of other roots.
MayAcquire(session, provider, roots) ==
    /\ roots # {}
    /\ conflicts(roots, session) = {}
    /\ \A l \in HeldBy(session) : l.provider = provider /\ l.roots = roots

\* What acquire returns: the lease the session already holds in this
\* generation, or a new one.
Granted(token, session, provider, generation, roots) ==
    LET same == {l \in HeldBy(session) : l.generation = generation}
    IN  IF same # {}
        THEN CHOOSE l \in same : TRUE
        ELSE [token |-> token, session |-> session, provider |-> provider,
              generation |-> generation, roots |-> roots]

\* A lease of an older generation gives way to the new one in one step: there
\* is no moment without protection.
acquire(token, session, provider, generation, roots) ==
    /\ MayAcquire(session, provider, roots)
    /\ leases' = (leases \ HeldBy(session))
                    \cup {Granted(token, session, provider, generation, roots)}

\* Only the very lease the coordinator holds can be given back.
release(lease) == lease \in leases /\ leases' = leases \ {lease}

owns(lease) == lease \in leases

LeasesInit == leases = {}

LeasesNext ==
    \/ \E t \in Tokens, s \in SessionIds, p \in Providers, g \in Generations,
          paths \in SUBSET Paths :
            /\ t \notin {l.token : l \in leases}
            /\ acquire(t, s, p, g, CanonicalRoots(paths))
    \/ \E l \in leases : release(l)

LeasesSpec == LeasesInit /\ [][LeasesNext]_leases

-----------------------------------------------------------------------------

\* The leases are leases, and no two of them are the same object.
LeasesTypeOK ==
    /\ leases \subseteq Lease
    /\ \A l, m \in leases : l.token = m.token => l = m

\* Two sessions never hold directories of which one contains the other, under
\* whatever names the callers asked for them, and no session holds two leases
\* (a second one would survive the release of the first).
LeasesExclusive ==
    \A l, m \in leases : l # m => l.session # m.session /\ ~RootsOverlap(l.roots, m.roots)

\* A session's protection changes only as a whole: a step that replaces its
\* lease covers the same directories for the same provider.
ReplacedInPlace ==
    [][\A l \in leases, m \in leases' :
          l.session = m.session => l.roots = m.roots /\ l.provider = m.provider]_leases
=============================================================================
