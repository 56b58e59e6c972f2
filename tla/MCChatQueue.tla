---------------------------- MODULE MCChatQueue ----------------------------
(* Small instances of ChatQueue for TLC: of two bodies, the first may      *)
(* carry a file.  Requests are interchangeable.                            *)
EXTENDS ChatQueue
CONSTANTS b1, b2, f1, r1, r2, r3

MCAttachedNone == [b \in Bodies |-> {}]
MCAttachedOne == [b \in Bodies |-> IF b = b1 THEN {f1} ELSE {}]
RequestSymmetry == Permutations(Requests)
=============================================================================
