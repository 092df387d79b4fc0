------------------------------ MODULE ArgStack ------------------------------
(***************************************************************************)
(* The initial stack of a process: stacksetup (proc.c).  It copies the     *)
(* argument strings into the topmost ARG_BLOCK bytes of the stack, upwards *)
(* from the start of that block, and lays argc, the argv pointers, the     *)
(* empty envp and the auxiliary vector out in the ARG_BLOCK bytes below,   *)
(* also upwards.  The guest starts with its stack pointer on argc.         *)
(*                                                                         *)
(*   StackTop - 2 * ARG_BLOCK        StackTop - ARG_BLOCK        StackTop  *)
(*   | argc argv... NULL NULL auxv ->| string 1, string 2 ... ->          | *)
(*                                                                         *)
(* Memory is the set of objects written that nothing has written over      *)
(* since: an object that a later write touches is gone.  Strings are their *)
(* lengths.  Indices count from 1.                                         *)
(***************************************************************************)
EXTENDS Integers, Sequences

CONSTANTS
    StackTop, StackSize,   \* info.stack + info.stacksize, and info.stacksize
    ARG_BLOCK, ARGC_MAX, ARGV_MAX,
    Word,                  \* size of a pointer and of a long
    AuxCount,              \* entries of the auxiliary vector, with AT_NULL
    Argvs                  \* the argument vectors: sequences of string lengths

\* The stack is mapped, above address 0, and has room for the two blocks
\* (lfi-run maps 2 MiB); one argument at least has room for its pointer.
ASSUME ArgStackAssumption ==
    /\ {StackTop, StackSize, ARG_BLOCK, ARGC_MAX, ARGV_MAX, Word, AuxCount} \subseteq Nat \ {0}
    /\ 2 * ARG_BLOCK <= StackSize /\ StackSize < StackTop
    /\ Word < ARG_BLOCK
    /\ Argvs \subseteq Seq(Nat)

VARIABLES
    at,          \* "strings", "pointers", "done", "false" (does not fit),
                 \* "abort" (an assert) or "undefined" (past the end of argv_ptrs)
    argv,        \* the argument
    i,           \* the loop index of the two loops
    p_argv,      \* where the next string goes
    argv_ptrs,   \* the addresses of the strings
    mem          \* the objects on the stack: [lo, hi, what, n]

vars == <<at, argv, i, p_argv, argv_ptrs, mem>>

Object == [lo : Int, hi : Int, what : {"string", "argc", "argv", "end", "auxv"}, n : Int]

TypeOK ==
    /\ at \in {"strings", "pointers", "done", "false", "abort", "undefined"}
    /\ argv \in Argvs
    /\ i \in 1..(Len(argv) + 1)
    /\ p_argv \in Nat
    /\ argv_ptrs \in Seq(Nat)
    /\ mem \subseteq Object

Init ==
    /\ at = "strings"
    /\ argv \in Argvs
    /\ i = 1
    /\ p_argv = StackTop - ARG_BLOCK
    /\ argv_ptrs = <<>>
    /\ mem = {}

-----------------------------------------------------------------------------
argc == Len(argv)

\* memory m after a write of o
Write(m, o) == {x \in m : x.hi <= o.lo \/ o.hi <= x.lo} \cup {o}

\* strnlen(argv[k], ARGV_MAX) + 1
CopySize(k) == (IF argv[k] <= ARGV_MAX THEN argv[k] ELSE ARGV_MAX) + 1

StringAt(k, lo) == [lo |-> lo, hi |-> lo + CopySize(k), what |-> "string", n |-> k]

\* Defect: the sum of the sizes is not checked, only each size.
StringFitsAlone(k) == StackTop - ARG_BLOCK + CopySize(k) < StackTop

StringFits(k) == p_argv + CopySize(k) < StackTop

\* memcpy, the terminating NUL, and the pointer kept on the host's stack
CopyString ==
    /\ at = "strings"
    /\ i <= argc /\ i <= ARGC_MAX
    /\ StringFits(i)
    /\ mem' = Write(mem, StringAt(i, p_argv))
    /\ argv_ptrs' = Append(argv_ptrs, p_argv)
    /\ p_argv' = p_argv + CopySize(i)
    /\ i' = i + 1
    /\ UNCHANGED <<at, argv>>

CopyStringFails ==
    /\ at = "strings"
    /\ i <= argc
    /\ ~StringFits(i)
    /\ at' = "false"
    /\ UNCHANGED <<argv, i, p_argv, argv_ptrs, mem>>

\* argv_ptrs has ARGC_MAX elements and argc is not checked against that.
CopyStringBeyond ==
    /\ at = "strings"
    /\ i <= argc /\ i > ARGC_MAX
    /\ StringFits(i)
    /\ mem' = Write(mem, StringAt(i, p_argv))
    /\ at' = "undefined"
    /\ UNCHANGED <<argv, i, p_argv, argv_ptrs>>

-----------------------------------------------------------------------------
newsp == StackTop - 2 * ARG_BLOCK
p_argvp == newsp + Word

\* Defect: the index of the second loop starts below the array.
WriteArgcEarly ==
    /\ at = "strings"
    /\ i > argc
    /\ mem' = Write(mem, [lo |-> newsp, hi |-> newsp + Word, what |-> "argc", n |-> argc])
    /\ at' = "pointers"
    /\ i' = 0
    /\ UNCHANGED <<argv, p_argv, argv_ptrs>>

WriteArgc ==
    /\ at = "strings"
    /\ i > argc
    /\ mem' = Write(mem, [lo |-> newsp, hi |-> newsp + Word, what |-> "argc", n |-> argc])
    /\ at' = "pointers"
    /\ i' = 1
    /\ UNCHANGED <<argv, p_argv, argv_ptrs>>

\* Defect: the pointer is written where p_argvp points, which never advances.
PointerAtStart(k) == [lo |-> p_argvp, hi |-> p_argvp + Word,
                      what |-> "argv", n |-> argv_ptrs[k]]

\* p_argvp[k - 1], and what lfi_as_toptr makes of argv_ptrs[k - 1]: itself,
\* for an address of the sandbox
PointerAt(k) == [lo |-> p_argvp + (k - 1) * Word, hi |-> p_argvp + k * Word,
                 what |-> "argv", n |-> argv_ptrs[k]]

\* The check in the loop tests p_argvp, not the element: it never fails.
WritePointer ==
    /\ at = "pointers"
    /\ i <= argc
    /\ p_argvp < StackTop - ARG_BLOCK
    /\ mem' = Write(mem, PointerAt(i))
    /\ i' = i + 1
    /\ UNCHANGED <<at, argv, p_argv, argv_ptrs>>

p_envp == p_argvp + (argc + 1) * Word
av == p_envp + Word

\* Two NULLs end argv and envp; the auxiliary vector ends with AT_NULL.
Ends == [lo |-> p_argvp + argc * Word, hi |-> av, what |-> "end", n |-> 0]
Auxv == [lo |-> av, hi |-> av + 2 * Word * AuxCount, what |-> "auxv", n |-> AuxCount]

\* AT_EXECFN and AT_RANDOM hold argv[0], which lfi_as_toptr asserts to be an
\* address of the sandbox.
WriteEnds ==
    /\ at = "pointers"
    /\ i > argc
    /\ IF argc = 0
       THEN at' = "abort" /\ mem' = Write(mem, Ends)
       ELSE at' = "done" /\ mem' = Write(Write(mem, Ends), Auxv)
    /\ UNCHANGED <<argv, i, p_argv, argv_ptrs>>

-----------------------------------------------------------------------------
Next ==
    \/ CopyString \/ CopyStringFails \/ CopyStringBeyond
    \/ WriteArgc \/ WritePointer \/ WriteEnds

Spec == Init /\ [][Next]_vars

-----------------------------------------------------------------------------
(* Properties *)

\* The pointers, the NULLs and the auxiliary vector stay below the strings.
VectorsFit == (argc + 3 + 2 * AuxCount) * Word <= ARG_BLOCK

\* What the guest reads from its stack pointer upwards
ArgumentsIntact ==
    /\ [lo |-> newsp, hi |-> newsp + Word, what |-> "argc", n |-> argc] \in mem
    /\ \A k \in 1..argc : \E o, s \in mem :
          /\ o.what = "argv" /\ o.lo = newsp + k * Word
          /\ s.what = "string" /\ s.n = k /\ s.lo = o.n
          /\ s.hi - s.lo = (IF argv[k] < ARGV_MAX THEN argv[k] ELSE ARGV_MAX) + 1
    /\ \E o, a \in mem : o.what = "end" /\ a.what = "auxv" /\ o.hi = a.lo

(***************************************************************************)
(* A process that starts finds its arguments: argc at the stack pointer,   *)
(* behind it one pointer for each argument, to the string the caller gave  *)
(* cut at ARGV_MAX, both NULLs and the auxiliary vector.  They survive     *)
(* each other's writes exactly when the vectors fit below the strings,     *)
(* which the loop at proc.c:166 means to check and does not: with 472      *)
(* arguments or more the auxiliary vector runs over the first string.      *)
(***************************************************************************)
GuestSeesArguments == at = "done" => (VectorsFit <=> ArgumentsIntact)

(***************************************************************************)
(* What stacksetup writes stays inside the two blocks at the top of the    *)
(* stack, for every vector of strings whose pointers fit: neither the rest *)
(* of the stack nor anything behind its end is touched.                    *)
(***************************************************************************)
WritesInBlocks ==
    VectorsFit => \A o \in mem : StackTop - 2 * ARG_BLOCK <= o.lo /\ o.hi <= StackTop

=============================================================================
