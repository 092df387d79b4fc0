----------------------------- MODULE ProcStart -----------------------------
(***************************************************************************)
(* The loader (ProcLoad) handing over to the running process (AddrSpace):  *)
(* what procnewfile has mapped, seen as the records that pal/vm.c and the  *)
(* host keep of it, with lastva as the base of the break (procsetup stores *)
(* it in brkbase).                                                         *)
(***************************************************************************)
EXTENDS ProcLoad

AddrPages == (MinAddr \div PageSize)..((MaxAddr \div PageSize) - 1)

\* The pages of the mappings of some kinds
PagesOf(kinds) ==
    {p \in AddrPages : \E m \in maps : /\ m.of \in kinds
                                       /\ m.lo <= p * PageSize /\ p * PageSize < m.hi}

\* The brk region is reserved without access.
HostTag(p) == IF p \in PagesOf({"prog", "interp"}) THEN "prog"
              ELSE IF p \in PagesOf({"stack"}) THEN "stack" ELSE "none"

Space(b) == INSTANCE AddrSpace WITH
    BrkBase <- b,
    UserArg <- 0..MaxAddr,
    HostMayFail <- TRUE,
    mm <- PagesOf({"prog", "interp", "brk", "stack"}),
    tag <- [p \in AddrPages |-> HostTag(p)],
    brksize <- 0, aborted <- "no", failed <- FALSE, lent <- {}

(***************************************************************************)
(* Whatever the program headers say, a process that lfi_tux_proc_new hands *)
(* out is one that AddrSpace starts from: a layout with room for the break *)
(* between the program and the stack, page aligned, the host's mappings    *)
(* and libmmap's in step, and the last page below the break a program's.   *)
(* What is checked and proved of AddrSpace holds of it from then on.       *)
(***************************************************************************)
StartsSpace ==
    pc = "done" => \E b \in 0..MaxAddr : b = last /\ Space(b)!Layout /\ Space(b)!Init
=============================================================================
