--------------------------- MODULE MCNativeExecutor ---------------------------
(***************************************************************************)
(* Two requests, of which either may be sent again, one tool call per run  *)
(* and one crash of the host.                                              *)
(***************************************************************************)
EXTENDS NativeExecutor, TLC

Symmetry == Permutations(Requests)
=============================================================================
