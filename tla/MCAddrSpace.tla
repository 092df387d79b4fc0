---------------------------- MODULE MCAddrSpace ----------------------------
(***************************************************************************)
(* AddrSpace for TLC: pages of four bytes, so that a break can be more     *)
(* than one byte short of a page.  In AddrSpaceMaps pages 1 and 2 are the  *)
(* program's (1 may be a hole between segments), 3 and 4 the brk region, 5 *)
(* is free and 6 is the stack; in BrkAssert the program has one page.      *)
(***************************************************************************)
EXTENDS AddrSpace

\* The page boundaries, bytes next to them, nothing and the whole space
UserArgs == {0, 3, 4, 5, 8, 12, 13, 16, 20, 24, 28}
=============================================================================
