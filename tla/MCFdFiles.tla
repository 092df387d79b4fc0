----------------------------- MODULE MCFdFiles -----------------------------
(***************************************************************************)
(* FdFiles for TLC: two threads, the three standard files and a few more.  *)
(***************************************************************************)
EXTENDS FdFilesOwnership, TLC

CONSTANTS t1, t2, d1, d2

Threads2 == {t1, t2}
Threads1 == {t1}
FilesDirs == {fstdin, fstdout, fstderr, d1, d2}
Dirs2 == {d1, d2}

Symmetric == Permutations({t1, t2}) \cup Permutations({d1, d2})

=============================================================================
