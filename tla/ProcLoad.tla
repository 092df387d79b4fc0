------------------------------ MODULE ProcLoad ------------------------------
(***************************************************************************)
(* Creating a process: procnewfile (proc.c) and the ELF loader it calls    *)
(* (elfload.c), on one program and, for a dynamic one, its interpreter.    *)
(*                                                                         *)
(* The space is laid out as                                                *)
(*     MinAddr  program  interpreter  brk region  ...  stack  MaxAddr      *)
(* by arithmetic on the 64-bit fields of the program headers.  Everything  *)
(* can fail on the way: allocations, host mappings, a malformed image.     *)
(***************************************************************************)
EXTENDS Integers, Sequences

CONSTANTS
    WORD,                \* 2^64
    PageSize,            \* opts.pagesize
    Base,                \* info.base
    MinAddr, MaxAddr,    \* info.minaddr, info.maxaddr
    CODEMAX, BrkMax, StackSize,
    Images,              \* the ELF images: see the assumption
    NoImage              \* no interpreter

\* A program header.  `small` says filesz <= memsz, `whole` that the file
\* holds filesz bytes at the segment's offset.
Segment == [load : BOOLEAN, vaddr : 0..(WORD - 1), memsz : 0..(WORD - 1),
            align : 0..(WORD - 1), small : BOOLEAN, whole : BOOLEAN]

\* vmsize leaves room for two images, the brk region and the stack.  A space
\* starts at a multiple of 4 GiB other than 0 (lfi_new_plat, lfi_as_new), and
\* CODEMAX is 1 GiB.
ASSUME ProcLoadAssumption ==
    /\ {WORD, PageSize, Base, MinAddr, MaxAddr, CODEMAX, BrkMax, StackSize} \subseteq Nat \ {0}
    /\ \A a \in {Base, MinAddr, MaxAddr, BrkMax, StackSize} : a % PageSize = 0
    /\ CODEMAX <= Base /\ Base < MinAddr
    /\ MinAddr + 2 * CODEMAX + BrkMax + StackSize <= MaxAddr
    /\ MaxAddr < WORD
    /\ \A im \in Images : /\ im.type \in {"dyn", "exec"}
                          /\ im.valid \in BOOLEAN
                          /\ im.segs \in Seq(Segment)
    /\ NoImage \notin Images

PowerOfTwo(n) == \E k \in 0..n : n = 2^k

\* align.h rounds with masks, which are the multiples below for powers of two
\* and for 0.  A segment may have another alignment, since `load` asks for a
\* multiple of the page only (elfload.c:118); such headers are left out.
ASSUME AlignAssumption ==
    /\ PowerOfTwo(WORD) /\ PowerOfTwo(PageSize)
    /\ \A im \in Images : \A k \in DOMAIN im.segs :
          im.segs[k].align = 0 \/ PowerOfTwo(im.segs[k].align)

VARIABLES
    pc,        \* the next step of procnewfile
    prog,      \* the program's image
    interp,    \* its interpreter's, or NoImage
    part,      \* which of the two `load` works on: "prog" or "interp"
    i,         \* the loop index of `load`
    base,      \* the argument of `load`
    last,      \* `last` of `load`; lastva when it is done
    maps       \* what is mapped: records [of, lo, hi]

vars == <<pc, prog, interp, part, i, base, last, maps>>

Labels == {"empty", "as", "ctx", "interp", "stack", "header", "segment",
           "args", "brk", "fdinit", "done", "null", "abort"}

TypeOK ==
    /\ pc \in Labels
    /\ prog \in Images
    /\ interp \in Images \cup {NoImage}
    /\ part \in {"prog", "interp"}
    /\ i \in Nat \ {0}
    /\ base \in 0..MaxAddr
    /\ last \in 0..MaxAddr
    /\ maps \subseteq [of : {"prog", "interp", "brk", "stack"}, lo : 0..MaxAddr, hi : 0..MaxAddr]

Init ==
    /\ pc = "empty"
    /\ prog \in Images
    /\ interp \in Images \cup {NoImage}
    /\ part = "prog"
    /\ i = 1
    /\ base = MinAddr
    /\ last = 0
    /\ maps = {}

-----------------------------------------------------------------------------
(* Helpers *)

\* truncp and ceilp with the masks of align.h: AlignAssumption
truncp(a, align) == IF align = 0 THEN 0 ELSE (a \div align) * align
ceilp(a, align) ==
    IF align = 0 THEN 0 ELSE (((a + align - 1) % WORD) \div align) * align

Goto(l) == pc' = l

\* lfi_as_free is an assert(!"unimplemented"), so an error past lfi_as_new
\* ends the process.
Err3 == Goto("abort") /\ UNCHANGED <<prog, interp, part, i, base, last, maps>>

\* lfi_as_mapat: its assert, the mapping, or a refusal by libmmap or the host
AssertFails(lo, hi) == ~(lo >= MinAddr /\ hi <= MaxAddr)

MapAt(of, lo, hi) ==
    /\ ~AssertFails(lo, hi)
    /\ maps' = maps \cup {[of |-> of, lo |-> lo, hi |-> hi]}

-----------------------------------------------------------------------------
(* procnewfile up to procfile *)

Return == Goto("null") /\ UNCHANGED <<prog, interp, part, i, base, last, maps>>

\* procnewempty and lfi_as_new: on failure NULL is returned (procfree is
\* empty, so the proc stays allocated).
Alloc ==
    /\ \/ pc = "empty" /\ Goto("as")
       \/ pc = "as" /\ Goto("ctx")
    /\ UNCHANGED <<prog, interp, part, i, base, last, maps>>

AllocFails ==
    /\ pc \in {"empty", "as"}
    /\ Return

\* lfi_ctx_new
CtxNew ==
    /\ pc = "ctx"
    /\ Goto("interp")
    /\ UNCHANGED <<prog, interp, part, i, base, last, maps>>

CtxNewFails == pc = "ctx" /\ Err3

\* procfile: a relative interpreter path is ignored with a warning.
ReadInterp ==
    /\ pc = "interp"
    /\ Goto("stack")
    /\ interp' \in {interp, NoImage}
    /\ UNCHANGED <<prog, part, i, base, last, maps>>

ReadInterpFails == pc = "interp" /\ interp # NoImage /\ Err3

-----------------------------------------------------------------------------
(* elfload *)

MapStack ==
    /\ pc = "stack"
    /\ MapAt("stack", MaxAddr - StackSize, MaxAddr)
    /\ Goto("header")
    /\ UNCHANGED <<prog, interp, part, i, base, last>>

MapStackFails == pc = "stack" /\ Err3

Image == IF part = "prog" THEN prog ELSE interp

\* Defect: last is not initialised.
LoadHeaderUninitialised ==
    /\ pc = "header"
    /\ Image.valid
    /\ Goto("segment")
    /\ i' = 1
    /\ last' \in {0, WORD - 1}
    /\ UNCHANGED <<prog, interp, part, base, maps>>

\* The headers are read and checked.
LoadHeader ==
    /\ pc = "header"
    /\ Image.valid
    /\ Goto("segment")
    /\ i' = 1
    /\ last' = 0
    /\ UNCHANGED <<prog, interp, part, base, maps>>

LoadHeaderFails == pc = "header" /\ Err3

\* Where a segment goes, relative to base
Shift == IF Image.type = "exec" THEN (base - Base) % WORD ELSE 0
Start(s) == truncp(s.vaddr, s.align) - Shift

\* Defect: the end is rounded down.
EndTruncated(s) == truncp((s.vaddr + s.memsz) % WORD, s.align) - Shift

End(s) == ceilp((s.vaddr + s.memsz) % WORD, s.align) - Shift

Skipped(s) == ~s.load \/ s.memsz = 0

\* The checks of `load`.  With Start(s) >= 0 the C subtraction of the end
\* cannot wrap unless the end is below the start, which is refused too.
Accepted(s) ==
    /\ s.align % PageSize = 0
    /\ Start(s) >= 0
    /\ s.small
    /\ Start(s) < End(s) /\ Start(s) < CODEMAX /\ End(s) < CODEMAX

\* A base of 0 becomes the address of the first segment.
NewBase(s) == IF base = 0 THEN Start(s) ELSE base

\* Defect: last is the end of the segment loaded last.
NewLastUnordered(s) == NewBase(s) + End(s)

NewLast(s) == IF NewBase(s) + End(s) > last THEN NewBase(s) + End(s) ELSE last

SkipSegment ==
    /\ pc = "segment"
    /\ i <= Len(Image.segs)
    /\ Skipped(Image.segs[i])
    /\ i' = i + 1
    /\ UNCHANGED <<pc, prog, interp, part, base, last, maps>>

\* bufreadelfseg: maps, reads and protects.
LoadSegment ==
    /\ pc = "segment"
    /\ i <= Len(Image.segs)
    /\ LET s == Image.segs[i]
       IN /\ ~Skipped(s)
          /\ Accepted(s)
          /\ s.whole
          /\ MapAt(part, base + Start(s), base + End(s))
          /\ base' = NewBase(s)
          /\ last' = NewLast(s)
    /\ i' = i + 1
    /\ UNCHANGED <<pc, prog, interp, part>>

\* A refused segment, or one the host would not map or the file not fill
LoadSegmentFails ==
    /\ pc = "segment"
    /\ i <= Len(Image.segs)
    /\ ~Skipped(Image.segs[i])
    /\ Err3

\* Defect: the interpreter is loaded at the program's own base.
LoadInterpInPlace ==
    /\ pc = "segment"
    /\ i > Len(prog.segs)
    /\ part = "prog" /\ interp # NoImage
    /\ part' = "interp"
    /\ Goto("header")
    /\ UNCHANGED <<prog, interp, i, base, last, maps>>

\* The interpreter goes behind the program.
LoadInterp ==
    /\ pc = "segment"
    /\ i > Len(prog.segs)
    /\ part = "prog" /\ interp # NoImage
    /\ part' = "interp"
    /\ base' = last
    /\ Goto("header")
    /\ UNCHANGED <<prog, interp, i, last, maps>>

LoadDone ==
    /\ pc = "segment"
    /\ i > Len(Image.segs)
    /\ part = "interp" \/ interp = NoImage
    /\ Goto("args")
    /\ UNCHANGED <<prog, interp, part, i, base, last, maps>>

-----------------------------------------------------------------------------
(* procsetup behind elfload *)

StackSetup ==
    /\ pc = "args"
    /\ Goto("brk")
    /\ UNCHANGED <<prog, interp, part, i, base, last, maps>>

\* The arguments do not fit, or perf's output file cannot be written.
StackSetupFails == pc = "args" /\ Err3

\* Reserve the brk region at lastva.
ReserveBrk ==
    /\ pc = "brk"
    /\ MapAt("brk", last, last + BrkMax)
    /\ Goto("fdinit")
    /\ UNCHANGED <<prog, interp, part, i, base, last>>

ReserveBrkFails == pc = "brk" /\ Err3

Fdinit ==
    /\ pc = "fdinit"
    /\ Goto("done")
    /\ UNCHANGED <<prog, interp, part, i, base, last, maps>>

-----------------------------------------------------------------------------
Next ==
    \/ Alloc \/ AllocFails \/ CtxNew \/ CtxNewFails
    \/ ReadInterp \/ ReadInterpFails
    \/ MapStack \/ MapStackFails \/ LoadHeader \/ LoadHeaderFails
    \/ SkipSegment \/ LoadSegment \/ LoadSegmentFails \/ LoadInterp \/ LoadDone
    \/ StackSetup \/ StackSetupFails \/ ReserveBrk \/ ReserveBrkFails
    \/ Fdinit

Spec == Init /\ [][Next]_vars

-----------------------------------------------------------------------------
(* Properties *)

Order == [prog |-> 1, interp |-> 2, brk |-> 3, stack |-> 4]

(***************************************************************************)
(* The program, the interpreter, the brk region and the stack never share  *)
(* an address, whatever the program headers say: mapping one never         *)
(* replaces part of another.                                               *)
(***************************************************************************)
PartsApart ==
    \A m, n \in maps : Order[m.of] < Order[n.of] => m.hi <= n.lo

(***************************************************************************)
(* Every segment of a created process is where its header says: the       *)
(* addresses the program computes from its base (a dynamic one) or holds   *)
(* itself (the others) are mapped from the first to the last byte, unless  *)
(* the header's own end wraps around.                                      *)
(***************************************************************************)
SegmentsMapped ==
    pc = "done" =>
        \A k \in 1..Len(prog.segs) :
            LET s == prog.segs[k]
                at == s.vaddr + IF prog.type = "dyn" THEN MinAddr ELSE Base
            IN ~Skipped(s) /\ s.vaddr + s.memsz < WORD =>
                  \E m \in maps : /\ m.of = "prog"
                                  /\ m.lo <= at /\ at + s.memsz <= m.hi

=============================================================================
