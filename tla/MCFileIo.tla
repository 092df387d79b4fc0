------------------------------ MODULE MCFileIo ------------------------------
(***************************************************************************)
(* FileIo for TLC: two threads and a file of three bytes.                  *)
(***************************************************************************)
EXTENDS FileIo, TLC

CONSTANTS t1, t2

Threads2 == {t1, t2}

\* One that SEEK_SET refuses, the start, the middle and one past the end
MCOffsets == {-1, 0, 2, 4}

Symmetric == Permutations(Threads2)
=============================================================================
