------------------------ MODULE ExclusiveDirectories ------------------------
(***************************************************************************)
(* What the desktop promises about working directories, in the abstract:   *)
(* an owner takes its directories as a whole, runs only while it has them, *)
(* and gives them up only when nothing of it runs any more.                *)
(* SessionService.tla is shown to implement this specification.            *)
(***************************************************************************)
CONSTANTS
    Owners,    \* the sessions
    Clash      \* pairs of owners whose directories overlap

ClashAssumption ==
    /\ Clash \subseteq Owners \X Owners
    /\ \A o, p \in Owners : <<o, p>> \in Clash => <<p, o>> \in Clash

VARIABLES
    holding,   \* owners that have their directories
    running    \* owners with a process that may touch them

Init == holding = {} /\ running = {}

Take(o) ==
    /\ o \notin holding
    /\ \A h \in holding : <<o, h>> \notin Clash
    /\ holding' = holding \cup {o}
    /\ UNCHANGED running

Begin(o) ==
    /\ o \in holding
    /\ running' = running \cup {o}
    /\ UNCHANGED holding

End(o) ==
    /\ running' = running \ {o}
    /\ UNCHANGED holding

GiveUp(o) ==
    /\ o \notin running
    /\ holding' = holding \ {o}
    /\ UNCHANGED running

Next == \E o \in Owners : Take(o) \/ Begin(o) \/ End(o) \/ GiveUp(o)

Spec == Init /\ [][Next]_<<holding, running>>

\* Whatever runs has its directories to itself.
Exclusive ==
    \A o, p \in running : o # p => <<o, p>> \notin Clash
=============================================================================
