----------------------------- MODULE MCThreads -----------------------------
(***************************************************************************)
(* Threads for TLC: the main thread and two more, cloned by either.        *)
(***************************************************************************)
EXTENDS Threads

CONSTANTS t1, t2

Threads3 == {main, t1, t2}

Ctid == [t \in Threads3 |-> <<"ctid", t>>]

\* ptid and ctid are different words, and the child's is set before it runs.
Ptid == [t \in Threads3 |-> <<"ptid", t>>]
Words == {"ctid", "ptid"} \X Threads3
AllFlags == {"CHILD_SETTID", "CHILD_CLEARTID", "PARENT_SETTID"}

\* A thread that was not cloned, or cloned without CHILD_CLEARTID, asks for
\* its word to be cleared.
OwnWord == [t \in Threads3 |-> {<<"ctid", t>>}]

=============================================================================
