---------------------------- MODULE MCContexts ----------------------------
(***************************************************************************)
(* Contexts for TLC: two host threads, two contexts, registers of one bit  *)
(* and one nested run.                                                     *)
(***************************************************************************)
EXTENDS Contexts, TLC

Symmetric == Permutations(Hosts) \cup Permutations(Ctxs)
=============================================================================
