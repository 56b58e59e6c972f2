---------------------------- MODULE MCCommandTools ----------------------------
(***************************************************************************)
(* The commands of one run for TLC: two at a time on POSIX, one on Windows,*)
(* where a helper process stands beside each of them.                      *)
(***************************************************************************)
EXTENDS CommandTools, TLC

MCOwnerOf == [c \in Cmds |-> Self]
MCMaxEntries == [onWindows \in BOOLEAN |-> IF onWindows THEN 1 ELSE 2]
MCSymmetry == Permutations(Cmds)
=============================================================================
