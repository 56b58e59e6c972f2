----------------------------- MODULE AgentTaskPool -----------------------------
(***************************************************************************)
(* The pool of places for child agents that one parent run shares among    *)
(* its delegations (engines/native/agent-task-pool.ts): places are handed  *)
(* out in the order of the requests, closing it refuses everyone who still *)
(* waits, and a place stays taken until its holder gives it back.          *)
(* A child asks once, so a request and a place are named after the child.  *)
(* Operators named Mutant... are wrong on purpose.                         *)
(***************************************************************************)
EXTENDS Naturals, Sequences, FiniteSets, FiniteSetsExt

CONSTANTS Calls, Tasks,
          Capacities     \* how many places a pool may be made with (1 to 30 in the code)

ASSUME PoolConstants == Capacities \subseteq Nat \ {0} /\ Tasks \in [Calls -> Nat \ {0}]

\* one child per task of a call
Children == UNION {{<<c, i>> : i \in 1 .. Tasks[c]} : c \in Calls}

\* capacity, closed, active and queue are as in createNativeAgentTaskPool; claim holds
\* what became of each request, "granted" until the place is released
EmptyPool(n) == [capacity |-> n, closed |-> "open", active |-> 0, queue |-> <<>>,
                 claim |-> [k \in Children |-> "none"]]

Settle(p, K, answer) == [p EXCEPT !.claim = [k \in Children |-> IF k \in K THEN answer ELSE @[k]]]
Waiting(p) == {p.queue[i] : i \in 1 .. Len(p.queue)}

\* pump: the first in the queue take the places that are free
Pump(p) ==
  LET free == p.capacity - p.active
      n == IF free < Len(p.queue) THEN free ELSE Len(p.queue)
  IN IF p.closed # "open" THEN p
     ELSE Settle([p EXCEPT !.active = @ + n, !.queue = SubSeq(@, n + 1, Len(@))],
                 {p.queue[i] : i \in 1 .. n}, "granted")

\* acquire, for the tasks of one call in their order
Acquire(p, ks) ==
  IF p.closed # "open" THEN Settle(p, {ks[i] : i \in 1 .. Len(ks)}, p.closed)
  ELSE Pump(Settle([p EXCEPT !.queue = @ \o ks], {ks[i] : i \in 1 .. Len(ks)}, "waiting"))

\* release: once only, however often the holder calls it
MutantRelease(p, k) == Pump(Settle([p EXCEPT !.active = @ - 1], {k}, "released"))
Release(p, k) == IF p.claim[k] = "granted"
                 THEN Pump(Settle([p EXCEPT !.active = @ - 1], {k}, "released")) ELSE p

\* the signal that the tasks of a call gave to acquire is aborted; they asked together,
\* so those that still wait stand together
Withdraw(p, K) ==
  LET at == {i \in 1 .. Len(p.queue) : p.queue[i] \in K} IN
  IF at = {} THEN p
  ELSE Settle([p EXCEPT !.queue = SubSeq(@, 1, Min(at) - 1) \o SubSeq(@, Max(at) + 1, Len(@))],
              Waiting(p) \cap K, "cancelled")

\* close: the first reason stays
Close(p, reason) == IF p.closed # "open" THEN p
                    ELSE Settle([p EXCEPT !.closed = reason, !.queue = <<>>], Waiting(p), reason)

Drained(p) == p.active = 0 /\ p.queue = <<>>
===============================================================================
