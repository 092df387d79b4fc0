# A TLA+ model of libtux

libtux runs Linux programs inside a host program: it loads an ELF image into a
sandboxed address space and answers its system calls. This directory holds TLA+
modules that model the parts of libtux that keep state, TLC configurations that
check them on small instances, and TLAPS proofs of the main properties for all
instances. Paths below are relative to the repository (`src/fd.c` is the
descriptor table).

## The system

| Component | State | Operations | What is hard |
|---|---|---|---|
| Descriptor table, `src/fd.c`, `src/file.c`, `src/tux.c` | `files[TUX_NOFILE]` under `t->lk`; `FDFile.refs` under `lk_refs`; the host files | `fdassign`, `fdalloc`, `fdget`, `fdremove`, `fdrelease`, `fdinit`, `filenew` | bare pointers handed out, find and store are two critical sections, size_t counts at zero |
| File calls, `src/syscalls/sys_file.c` | the host's file offset | `openat`, `close`, `read`, `write`, `readv`, `writev`, `pread64`, `lseek`, the path calls | pointers used after the lock is gone, an emulated pread, errors in the middle |
| Current directory, `src/syscalls/sys_cwd.c` | `cwd.file`, `cwd.fd`; `cwd.lk` is never taken | `chdir`, `fchdir`, `getcwd` | replaces a directory that path calls use; failure in the middle |
| Memory calls, `src/syscalls/sys_mem.c`, `src/pal/vm.c` | libmmap's record and the kernel's, `brkbase`, `brksize`, under `lk_as` and `lk_brk` | `brk`, `mmap`, `munmap`, `mprotect` | two records kept in step by hand, page arithmetic, refusals by the host |
| Process creation, `src/proc.c`, `src/elfload.c`, `src/buf.c` | mappings, `last`, `base`; the initial stack | `procnewfile`, `procfile`, `elfload`, `stacksetup`, `procsetup` | word arithmetic on untrusted headers, failure at every step, fixed blocks for a caller's arguments |
| Contexts, `src/pal/ctx.c`, `src/pal/platform.c`, `src/pal/arch/x64/runtime.S` | `lfi_myctx` per host thread; `kstackp`, `regs`, `tp` per context; frames on host stacks | `lfi_ctx_new`, `run`, `exit`, `pause`, `free`, the system call entry, `lfi_ret`, `lfi_get_tp`, `lfi_set_tp` | a thread-local that nobody restores, stacks cut back from assembly, contexts that move between host threads |
| Threads, `src/syscalls/sys_thread.c`, `sys_proc.c`, `src/host/linux/futex.c` | tid words in guest memory, `TuxThread.ctid`, the kernel's futex queues | `clone`, `exit`, `exit_group`, `set_tid_address`, `futex` | order of stores against the child's run and the joiner's sleep |

How they interact: every guest system call enters through `syshandle`
(`src/sys.c`) on the host thread that runs the guest thread; the threads of a
process share its table, directory, files and address space. The entry itself,
from the guest's registers to the handler's return, is Contexts; `clone` makes a
context from its caller's saved registers and gives it a host thread of its own.
Process creation (ProcLoad) lays out the space that the memory calls start from:
ProcStart instantiates AddrSpace with what the loader has mapped and states that
it is one of AddrSpace's initial states (`StartsSpace`). Between the two,
`stacksetup` fills the top of the stack (ArgStack). Process creation also calls
`fdinit`, after which FdFiles starts. `mmap` of a file uses the descriptor table
first, which FdFiles models as one of its descriptor calls.

## Modules

| Module | Models | Proofs |
|---|---|---|
| `FdFiles` | table, counts, current directory and all file calls, by any number of threads | `FdFilesProofs` |
| `FileOwnership` | abstract: a host file is open exactly while somebody owns it | |
| `FdFilesOwnership` | the refinement mapping from `FdFiles` to `FileOwnership` | `FdFilesOwnershipProofs` |
| `FileIo` | transfers at the shared offset of one file or pipe, `pread64`, error conversion | `FileIoProofs` |
| `Threads` | clone, exit, the futex join | `ThreadsProofs` |
| `AddrSpace` | brk, mmap, munmap, mprotect on the two records of the mappings | `AddrSpaceProofs` |
| `ProcLoad` | process creation and the ELF loader | `ProcLoadProofs` |
| `ProcStart` | composition: the end of ProcLoad as the start of AddrSpace | `ProcLoadProofs` |
| `ArgStack` | the initial stack that `stacksetup` writes | `ArgStackProofs` |
| `Contexts` | running, nesting, pausing and leaving contexts, and system call entry | `ContextsProofs` |
| `VirtualCpus` | abstract: every context is a processor of its own | |
| `MC...` | the constants of the runs | |

An action stands for one critical section or one host call. What the code keeps
in C locals between two of them is a function from threads (`obj`, `dirs`,
`newf`, `slot` in FdFiles; `child` in Threads; `orig`, `total` in FileIo), so
that every value that can be stale is a variable. Error numbers are left out
unless a property is about them: a failing call returns to `idle`, or aborts
where the code asserts. Builds have `CONFIG_THREADS` and assertions on.

**FdFiles.** `files`, `cwdfd`, `cwdfile` are the process's; `host`, `fdfile` and
`refs` are each file's `HostFile`, `FDFile` and count. A file is opened at most
once, so a freed object is never mistaken for a new one. Counts wrap at
`SIZE_MAX`. `fdget` and `getfdir` put a bare pointer in `obj` or `dirs`; reads
through freed objects answer either way. `Refs` of a standard file start at 2,
libtux's and the table's. `CwdRelease` merges `fdrelease(cwd.fd)` with
`cwd.fd = NULL`; nobody can see between them as long as `SerialCwd` holds, which
every run assumes. `fdrelease` takes `close(2)` to succeed.

The code leaves three things to the guest program. Each is a constant of
FdFiles, so that each property names what it needs:

- `SerialOpens`: no two `openat` calls overlap (`fdalloc` does not claim the
  descriptor it finds, `fd.c:17-29`);
- `QuietCloses`: no thread closes a descriptor that another thread's call is
  using (`fdget` takes no reference, `fd.c:48-55`);
- `SerialCwd`: `chdir` and `fchdir` overlap no other file call (`cwd.lk` is never
  taken, `sys_cwd.c:28-35`).

**FileIo.** Bytes are positions in the file; a transfer takes those between the
offset before and after. `moved` counts how often each byte was taken by a call
at the offset. A vector is a sequence of lengths; `read` and `write` are vectors
of one. `lseek` counts from the start, the offset or the end, and may go past the
end, where nothing can be read; another `whence` of the guest is an assert
(`host/posix/file.c:82`) and ends the process (`pc = "aborted"`). The file keeps its
size: writes that extend it are left out, and so is O_APPEND. `seekable` is chosen
at the start, since `pread64` on a pipe goes through the same four calls with
failing seeks. `SerialPread` is the program's promise that `pread64` overlaps no
other call on the file, `close` included; it moves the shared offset with three
separate calls (`sys_file.c:177-180`). `done`, `from`, `failed` and `moved` record
history for the properties.

**Threads.** A tid word holds a thread (its tid) or NULL (zero). `Join` is the
guest library's: read the word, sleep with `FUTEX_WAIT` while it is not zero,
look again. It is the join that CLONE_CHILD_CLEARTID is made for; musl, with which
the tests are built (`test/meson.build`), keeps its own word for `pthread_join` and
uses the tid word for its list of threads. A thread joins the threads it has cloned
itself, and has one of them outstanding at a time; nobody joins another's child.
The kernel's compare-and-sleep is one step. Constants give each clone's `ctid`,
`ptid` and flags, and the words that each thread may pass to `set_tid_address`.

**AddrSpace.** `mm` is the set of pages that libmmap has in use, `tag` what the
kernel has at each page. Lengths and addresses are bytes; mappings cover whole
pages. `failed` remembers that the host has refused a mapping, `aborted` which
assert has ended the process: the one in brk, those on ranges, or the one in
cbunmap when the host refuses its inaccessible mapping (`UnmapAborts`). A refused
mapping in `lfi_as_mapat` gives up libmmap's record of the pages (`MapAtFails`,
`vm.c:105-107`), and in the brk region the reservation with it: `mmap` may then
hand such pages out, which `lent` remembers. The code leaves it to the guest to
keep its fixed mappings and its unmappings out of the rest of the brk region
(`GuestMayUse`); what it was lent there it may replace and unmap, also when brk has
grown over it. `munmap` is given aligned addresses: what libmmap
does with others is not visible in the repository. libmmap is external and
modelled from how `vm.c` uses it: `mm_mapany` finds any free run. The program's
pages at the start are any set that ends below the break, since segments may
leave holes between them, which `mmap` may hand out.

**ProcLoad.** An image is a sequence of program headers whose fields are words;
sums wrap at `WORD`. Alignments are powers of two or 0 (`AlignAssumption`), for
which the masks of `align.h` are the multiples of the model. `base`, `last`, `i` are
the loader's variables, `maps` what has been mapped. Every step may fail; an error behind `lfi_as_new` reaches
`lfi_as_free`, which is an assert (`pc = "abort"`): a failed creation ends the
host program, where `tools/lfi_run.c:120` is ready for NULL.

**ProcStart.** `Space(b)` is AddrSpace with the break at `b`, libmmap's record the
pages of everything in `maps` and the kernel's the tags of those pages.

**ArgStack.** Memory is the set of objects written (a string, argc, a pointer,
the two NULLs, the auxiliary vector) that no later write has touched, so one that
is overwritten disappears. Strings are their lengths. An action is one iteration
of one of the two loops, or the straight-line code behind one. An index behind
`argv_ptrs` is undefined behaviour and ends the model (`at = "undefined"`);
`argc = 0` trips the assert of `lfi_as_toptr` (`proc.c:183`).

**Contexts.** `stack` holds the PAL's frames on each host thread: a run, and the
handler of a system call on top of it. `kstackp` of a context is the frame of its
latest run. Of the registers `ax` is the result, `sp` the stack pointer and `gp`
stands for the others that SAVE_PARTIAL_REGS saves; `cpu` holds them while the
guest runs, `regs` otherwise. r12 to r15 are not saved there (they survive a
system call by the C calling convention) and are left out, as are SIMD registers.
The PAL leaves two rules to its embedder, which the guards state:

- a context runs once at a time (`~Active(c)`, in `lfi_ctx_run`, `lfi_ctx_free`
  and `lfi_ctx_regs`);
- a handler that has itself run a context leaves with `lfi_ctx_exit` or
  `lfi_ctx_pause` instead of returning to its guest (`~Top(h).ran`, in
  `arch_syshandle`): `lfi_myctx` then is no longer the guest's, and nothing
  restores it.

The handler of libtux keeps both. VirtualCpus says what a context promises: its
registers and thread pointer change through its guest, the results of its system
calls and, while it is idle, its embedder, and through nothing else.

## Runs

Passing runs:

| Run | Instance | Shows |
|---|---|---|
| `FdFilesOpen` | 2 threads, 5 files, 4 descriptors, failing malloc, no promise but `SerialCwd` | `ReferencedLive`: nothing named by a descriptor, the current directory or libtux is closed or freed |
| `FdFilesDisciplined` | 2 threads, 5 files, 5 descriptors, all promises | `NoUseAfterFree`, `RefsExact`, `RefsRepresentReferences` (which the run below breaks without SerialOpens), `NoOverwrite`, and `FilesOwned`: FdFiles implements FileOwnership |
| `FileIoShared` | 2 threads, 3 bytes, vectors of up to 2 buffers of up to 2 bytes, seeks up to one byte past the end, a pipe or a file | `StreamExact`, `CountsReported`, `PreadPositional` |
| `ThreadsJoin` | 3 threads, each with its own ctid and ptid word | `JoinSafe`; `NoLostWakeup`: nobody sleeps on the word of a thread that has sent its wake-up; and `JoinReturns` under fairness |
| `AddrSpaceMaps` | 6 pages of 4 bytes: 2 of program, one of which may be a hole, 2 of brk, 1 free, stack; any byte address for brk, 11 addresses and lengths around the page boundaries for the other calls | `HeapMapped`, `MapsKnown`, `BrkRegionReserved`, `AlignedBrkConfined` |
| `ProcLoadLayout` | programs and interpreters of up to 2 segments from 12 headers, `WORD` 64, pages of 2 bytes, 8 bytes of code per image | `PartsApart`, `SegmentsMapped`, and `StartsSpace`: what is created is an initial state of AddrSpace |
| `ArgStackLayout` | the code's own constants; vectors of up to 5 strings around ARGV_MAX and ARG_BLOCK, and of 471 to 1025 short ones | `GuestSeesArguments`: the guest reads its arguments back if and only if the vectors fit below the strings (471 arguments); `WritesInBlocks` |
| `ContextsRun` | 2 host threads, 2 contexts, 1-bit registers, one nested run | `GuestOwnsThread`, and `ActsAsProcessor`: Contexts implements VirtualCpus |

Runs in which the code breaks what the repository says of it:

| Run | What TLC finds |
|---|---|
| `FdFilesOpenRace` | two `openat` calls share a descriptor; the first file is lost with its count (`sys_file.c:118-125`) |
| `FdFilesChdir` | `chdir` to a missing directory returns 0 and leaves none (`sys_cwd.c:28`) |
| `BrkAssert` | the clamp of the break leads into the assert behind it (`sys_mem.c:16-20`) |

With SerialCwd `RefsRepresentReferences` fails in one more way, and only that
(`CountsRepresentReferences`), with a single thread: `openat`
with a full table takes the count of its new file from 0 to SIZE_MAX
(`sys_file.c:120`), and the file is never closed.

Each property of a passing run has a mutant: a defect written before the
definition it changes (`\* Defect: ...`), with which TLC finds it violated.

**Bounds.** Two threads are enough for every conflict in FdFiles and FileIo,
which is between one call and another; two files besides the standard three let
a descriptor be reused, a directory be replaced and a table of four fill up.
`SIZE_MAX` is 4, so a wrapped count differs from every true one (at most 3, for
a standard file). Pages of four bytes let a break be more than one byte short of
a page; two pages of brk region let it grow within the region and past its end.
`UserArgs` has every page boundary, and addresses and lengths one byte to each side
of some, which rounding must treat apart. `MaxOffset` is one behind the end of the
file, so that seeks go past it.
`WORD` 64 is above the whole space and lets header sums wrap; the space starts at
`Base` 8, no lower than CODEMAX, as in the code. Symmetry is used
for threads, directories, host threads and contexts where only invariants and the two safety properties
of `FdFilesDisciplined` and `ContextsRun` are checked, never with liveness.
ArgStack needs no small constants: its states are few, and the argument vectors
sit on both sides of every limit (a string cut at ARGV_MAX, the block full to the
byte, 471 and 472, 983 and 984, 1024 and 1025 arguments). Two contexts on two
host threads are enough for one to run inside the other's handler, to move
between threads, to be freed and made again under a stale `lfi_myctx`, and to be
cloned; `MaxNest` 2 allows one run inside another.

**Fairness.** Only Threads has it: weak fairness of what a thread does inside a
call (`Continue`), since the host kernel schedules every host thread. Nothing is
assumed of what the guest chooses to do, of interruptions or of failures.

**Deadlock** is checked for FdFiles. It is off for Threads (a
process whose threads have all exited stops), FileIo and AddrSpace (a process
stops at an assert),
ProcLoad and ArgStack (creation ends) and Contexts (nothing obliges an embedder
to go on).

## Proofs

All theorems hold for any values of the constants that satisfy the ASSUMEs of
the module they extend; a promise a theorem needs is its hypothesis.

- `FdFilesProofs`. `TypeCorrect` needs no promise. `ReferencesStayLive` (with
  SerialCwd) rests on `IInv`: `Shape` (which locals are set where in a call),
  `CwdAlone` (SerialCwd as a state predicate), `TableInv` (a file has one
  descriptor and one count for it), `HeldInv` (the other holders, plus at most
  one count left behind by an overwrite), `UnusedInv`, `NewInv` (a file being
  opened is known to its call only) and invariants on the current directory.
  ReferencedLive alone is not inductive: a count that covers today's references
  says nothing about the step that drops one without the uniqueness of
  `TableInv`. `UsesAreSafe` adds `UseInv` under QuietCloses, `CountsAreExact` and
  `DescriptorsAreStable` add `SlotInv` (the descriptor that fdalloc found is
  still free) under SerialOpens.
- `FdFilesOwnershipProofs`. `FilesAreOwned`: FdFiles implements FileOwnership. From
  `IInv` and `SlotInv` a file that a place of the process holds is open, and one
  that a step drops from its last place is closed by that step; every step changes
  the places of one file at most (`Kept` for the others, `OneFile` for a step of
  the abstract specification, `Stutter` when nothing changes). The hypotheses are
  SerialCwd, SerialOpens, no malloc failure, and `NoEmfile`: no step of the
  behaviour is an `openat` that finds the table full, since that one wraps a count
  (`sys_file.c:120`) and leaks the file. QuietCloses is not needed: a dangling
  borrowed pointer is used, never owned. `FewFilesAreOwned` replaces `NoEmfile` by
  a condition on the constants, no more files than descriptors, with which a
  pigeonhole argument (`TableHasRoom`) finds a free descriptor for every new file;
  `FdFilesDisciplined` is such an instance. `CountsRepresentReferences`: under
  SerialCwd, SerialOpens and `NoEmfile` (malloc may fail) every FDFile has a
  reference or is being opened (`LiveInv`), so overlapping opens and a full table
  are the only ways to lose one.
- `FileIoProofs`. `TypeCorrect` needs a budget: the count of `readv` and `writev` is
  a sum over the vectors, bounded because what the buffers still to come can add
  is bounded by their number (`BudgetInv`), a host error that is added to the
  count included. `CountsReportedHolds` needs no promise: `CountInv` ties the
  count of a call in progress to the bytes it has moved, and nobody else writes
  either. `StreamExactHolds` and `PreadPositionalHolds` are for SerialPread; while
  pread64 has the offset displaced, `StreamInv` holds for the offset it has saved
  instead of the file's, which is what makes the last lseek restore it. That it is
  still open then (`PreadOpen`) is part of the promise.
- `ThreadsProofs`. `JoinIsSafe`: with `DistinctWords` (every thread has its own ctid word, also
  for `set_tid_address`, and it is no thread's ptid word) a join returns only for a
  thread on its way out. The invariant says a child's word is zero only once the
  child has cleared it (`WordInv`), which needs that a thread clears its own word
  only (`CtidInv`) and that a child is unborn until `pthread_create` (`ChildInv`).
  `NoWakeupIsLost` is the safety behind `JoinReturns`: after the wake-up of a
  thread its word is zero for good (`ClearedInv`), and what a joiner compares the
  word with was not zero (`SeenInv`), so the kernel does not put it to sleep any
  more; those who slept before are gone from the queue. What is left to liveness
  is that a thread inside a call goes on. `TypeCorrect` needs no `DistinctWords`.
- `AddrSpaceProofs`. All five properties of the run. `MapsStayKnown` and
  `RegionStaysReserved` come from `SpaceInv`, which adds that libmmap keeps the
  whole brk region until a refusal (`RegionKept`): `mmap` avoids the region
  because of libmmap's record, not because of what the kernel has there. Hence it
  also hands out no page of the region until then (`NothingLent`), and what
  `HeapMapped` excludes is empty.
  `HeapStaysMapped` needs that growth maps from the first page above the old
  break, however far from a page boundary either break is, and that nothing the guest
  may do touches a page of the region that it was not lent;
  `AlignedBrkStaysConfined` needs the old break aligned. `TypeCorrect` keeps the
  break in its region.
- `ProcLoadProofs`. `LoadInvariant`, `TypeCorrect` and `PartsStayApart`: what `load` accepts lies
  in the first CODEMAX bytes behind `base` however the sums wrap
  (`AcceptedBounds`), so program, interpreter, brk region and stack follow each
  other (`MapInv`). The room for them comes from `ProcLoadAssumption`: a space of
  4 GB (`pal/platform.c:15`), CODEMAX of 1 GB and a stack of 2 MB
  (`elfload.c:15-18`), a brk region of 512 MB (`proc.h:18`).
  `SegmentsAreMapped` and `LoadedProcessStarts` rest on `StartInv`. A segment is
  only mapped behind a base in the space (`SegmentPlace`): the space starts at a
  multiple of 4 GB other than 0 (`pal/platform.c:22`, `pal/vm.c:26`), above CODEMAX,
  so a base of 0, which `load` gets for the interpreter of a program without
  segments, maps nothing. Then the shift of an image that is not relocatable is
  exact, start and end of a map are aligned because a segment's alignment is one
  of pages (`SegmentAligned`), and the map covers the segment because an end whose
  rounding wraps is 0 and refused (`CeilReaches`). For the hand-over, some image
  ends exactly at lastva (`EndInv`), so the page below the break is the program's.
  The module starts its arithmetic from quotient and remainder: the prover knows
  no facts about multiples.
- `ArgStackProofs`. `ArgumentsSurvive` and `WritesConfined` for any block sizes and
  arguments. The invariant lists what is in memory at each point of the two
  loops: the strings copied so far, end to end from the start of their block, and
  the pointers written so far, each to its string. One direction of
  `GuestSeesArguments` is that no later write touches them when the vectors fit;
  the other that the auxiliary vector runs over the first string when they do
  not.
- `ContextsProofs`. `GuestOwns` and `Implements`, for any numbers of host threads,
  contexts and nested runs. GuestOwnsThread says nothing of the frames below the
  top, to which control returns, so the invariant (`FramesOf`) describes whole
  stacks: runs and handlers alternate and belong to the same context, a context
  has frames in one place, its `kstackp` is its run's frame, and a handler with
  frames above it has `ran` set, so that nobody returns to the guest below it and
  only the top needs the right `lfi_myctx`. `Implements` then takes each
  action to a step of VirtualCpus: where the registers are (`cpu` or `regs`)
  changes in a trap and their value does not, and what happens on other host
  threads leaves every mapped value alone (`OthersKept`).

Only model-checked: `JoinReturns`, a liveness property under fairness, which is
out of the prover's reach. Every invariant and every other property of a passing
run is a theorem. The inductive invariants were checked with TLC on the runs'
instances before they were proved.

## What is not modelled

- `host/posix/futex.c`: unfinished, not in any build file.
- `sys_info`, `sys_ioctl`, `sys_clock`, `sys_fcntl`, `sys_random`, `sys_prctl`,
  `sys_signal`, the dispatch tables, tracing and perf output: no state.
- The arm64 runtime, which differs in registers and in how it finds the context;
  `lfi_new_plat` and boxmap, which place the spaces.
- r12 to r15: SAVE_PARTIAL_REGS does not save them while `lfi_restore_regs` loads
  them, so a paused context resumes, and a cloned thread starts, with those its
  context was made with (`runtime.S:4-20`, `52-55`).
- The conversion of guest pointers (`procbuf`, `procpath`, `lfi_as_fmptr`): calls
  are modelled from the point where their pointers are valid.
- Bytes: the values in the auxiliary vector, directory entries, stat buffers.
- Writes that extend a file, and O_APPEND.
- A failing `close(2)` in `host_close`, which leaks the HostFile
  (`host/posix/file.c:97-99`).
- Alignments of segments that are multiples of the page but no powers of two:
  `elfload.c:118` lets them through, and the masks of `align.h` then compute
  something other than a multiple.
- One word as both ptid and ctid: the parent stores the tid after `pthread_create`
  (`sys_thread.c:138-140`) and can overwrite the zero of a child that has exited
  (`DistinctWords` excludes it). Several outstanding children of one thread, and
  joins by a thread other than the creator.
- The flags of `open` (`openflags` drops O_TRUNC) and contents of files.
- What callers make of a futex error: `host_futexwait` answers -1 for all of them.
- `fdrelease` unlocks a mutex inside the object it has freed (`fd.c:60-66`), and
  `lk_as`, `lk_brk` are zeroed, never initialised: undefined in C, without effect
  on the hosts libtux builds for.
- `brk` from a break that is not page aligned maps up to one page too many
  (`sys_mem.c:34-35`); `AlignedBrkConfined` says what holds.
- A host error reaches the guest as a positive number (`host/error.h:8`), and
  `readv` and `writev` add it to their count; `CountsReported` says what holds.

## Plan

1. Done: FdFiles with its abstract specification; Threads; AddrSpace; ProcLoad;
   FileIo; ArgStack; Contexts with its abstract specification; ProcStart.
2. Done: proofs of all properties of the passing runs but `JoinReturns`.
3. Next proofs: the theorems about AddrSpace restated for the process that
   ProcLoad hands over; `BrkAssertHolds` for breaks below the end of the region.
4. Next extensions: contents of a file under `open` flags and `ftruncate`; the
   registers that SAVE_PARTIAL_REGS leaves out.
