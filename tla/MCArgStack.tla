----------------------------- MODULE MCArgStack -----------------------------
(***************************************************************************)
(* ArgStack for TLC with the constants of the code.  The argument vectors: *)
(* up to five strings of lengths around ARGV_MAX and such that the sum     *)
(* meets the end of the block, and many short ones, around 471 (the last   *)
(* number whose vectors fit), 983 (whose vectors end exactly at the top of *)
(* the stack) and ARGC_MAX.                                                *)
(***************************************************************************)
EXTENDS ArgStack

Lengths == {0, 1018, 1019, 1023, 1024, 1025}
Short == UNION {[1..n -> Lengths] : n \in 0..4}
Many == {[k \in 1..n |-> 2] : n \in {471, 472, 983, 984, 1024, 1025}}
MCArgvs == Short \cup {Append(a, l) : a \in [1..4 -> {1018, 1019}], l \in {10, 11, 15, 16}} \cup Many
=============================================================================
