------------------------------ MODULE FdFiles ------------------------------
(***************************************************************************)
(* The open files of one libtux process: its descriptor table (fd.c), the  *)
(* reference-counted FDFile objects (file.c), the current directory        *)
(* (sys_cwd.c) and every file system call (sys_file.c), issued by the      *)
(* threads of the process, which share all of them.                        *)
(*                                                                         *)
(* A file f stands for a HostFile and for the FDFile that filefnew may     *)
(* wrap around it; no code path wraps one twice.  A system call is a       *)
(* sequence of steps, one per critical section: what the code does under   *)
(* t->lk or lk_refs is one step, and everything it keeps in local          *)
(* variables between two of them is a local of the thread below.  Error    *)
(* codes are not recorded: a step that returns goes back to "idle".        *)
(***************************************************************************)
EXTENDS Integers

CONSTANTS
    Thread,           \* threads of the process
    File,             \* host files, each opened at most once
    Dir,              \* those of them that are directories
    fstdin, fstdout, fstderr,   \* Tux's standard files
    NULL,
    NOFILE,           \* TUX_NOFILE, the number of descriptors
    SIZE_MAX,         \* the largest size_t, where a reference count wraps
    MallocMayFail,    \* may malloc return NULL?
    \* What the client program promises; FALSE promises nothing.
    SerialOpens,      \* no two openat calls overlap
    QuietCloses,      \* no close of a descriptor another thread's call uses
    SerialCwd         \* chdir and fchdir overlap no other file system call

Std == {fstdin, fstdout, fstderr}
FD == 0..(NOFILE - 1)

ASSUME ConstantsAssumption ==
    /\ Std \subseteq File
    /\ fstdin # fstdout /\ fstdin # fstderr /\ fstdout # fstderr
    /\ Dir \subseteq File
    /\ Std \cap Dir = {}
    /\ NULL \notin File
    /\ NOFILE \in Nat /\ NOFILE >= 3
    /\ SIZE_MAX \in Nat /\ SIZE_MAX >= 4
    /\ MallocMayFail \in BOOLEAN
    /\ SerialOpens \in BOOLEAN /\ QuietCloses \in BOOLEAN
    /\ SerialCwd \in BOOLEAN

VARIABLES
    files,     \* fdtable.files
    cwdfd,     \* cwd.fd
    cwdfile,   \* cwd.file
    host,      \* host descriptor of each file: "unused", "open" or "closed"
    fdfile,    \* its FDFile: "none", "live" or "freed"
    refs,      \* FDFile.refs, a size_t
    \* Locals of the system call each thread is in.
    pc,
    call,
    obj,       \* the FDFile* that fdget returned
    dirs,      \* the HostFile*s that getfdir returned
    newf,      \* the file being opened
    slot,      \* the descriptor that fdalloc returned
    old        \* the current directory being replaced

process == <<files, cwdfd, cwdfile, host, fdfile, refs>>
locals == <<pc, call, obj, dirs, newf, slot, old>>
vars == <<files, cwdfd, cwdfile, host, fdfile, refs,
          pc, call, obj, dirs, newf, slot, old>>

MaybeFile == File \cup {NULL}

(***************************************************************************)
(* "pathop" is any call that resolves one directory and then makes one     *)
(* host call with it; "renameat" resolves two, and becomes a "pathop" or,  *)
(* when its first directory is bad, "failing" after the first.             *)
(***************************************************************************)
LookupCall == {"pathop", "openat", "renameat"}
CwdCall == {"chdir", "fchdir"}
Call == LookupCall \cup CwdCall \cup {"none", "fdop", "failing"}

Label == {"idle", "use", "isdir", "dir2", "path", "fdalloc", "fdassign",
          "take", "release", "close", "ref", "set"}

TypeOK ==
    /\ files \in [FD -> MaybeFile]
    /\ cwdfd \in MaybeFile
    /\ cwdfile \in MaybeFile
    /\ host \in [File -> {"unused", "open", "closed"}]
    /\ fdfile \in [File -> {"none", "live", "freed"}]
    /\ refs \in [File -> 0..SIZE_MAX]
    /\ pc \in [Thread -> Label]
    /\ call \in [Thread -> Call]
    /\ obj \in [Thread -> MaybeFile]
    /\ dirs \in [Thread -> SUBSET File]
    /\ newf \in [Thread -> MaybeFile]
    /\ slot \in [Thread -> FD]
    /\ old \in [Thread -> MaybeFile]

-----------------------------------------------------------------------------
(* size_t arithmetic *)

Inc(n) == IF n = SIZE_MAX THEN 0 ELSE n + 1
Dec(n) == IF n = 0 THEN SIZE_MAX ELSE n - 1

(***************************************************************************)
(* References of a standard file in a new process: libtux's own, which     *)
(* lfi_tux_new bumps, and the table's, from fdinit.                        *)
(***************************************************************************)
\* Defect: libtux's own references are not counted.
StdRefsUnbumped == 1

StdRefs == 2

Init ==
    /\ files = [fd \in FD |-> CASE fd = 0 -> fstdin
                                [] fd = 1 -> fstdout
                                [] fd = 2 -> fstderr
                                [] OTHER -> NULL]
    /\ cwdfd = NULL
    /\ cwdfile = NULL
    /\ host = [f \in File |-> IF f \in Std THEN "open" ELSE "unused"]
    /\ fdfile = [f \in File |-> IF f \in Std THEN "live" ELSE "none"]
    /\ refs = [f \in File |-> IF f \in Std THEN StdRefs ELSE 0]
    /\ pc = [t \in Thread |-> "idle"]
    /\ call = [t \in Thread |-> "none"]
    /\ obj = [t \in Thread |-> NULL]
    /\ dirs = [t \in Thread |-> {}]
    /\ newf = [t \in Thread |-> NULL]
    /\ slot = [t \in Thread |-> 0]
    /\ old = [t \in Thread |-> NULL]

-----------------------------------------------------------------------------
(* fd.c *)

fdhas(fd) == fd \in FD /\ files[fd] # NULL

(***************************************************************************)
(* fdrelease: drop one reference, and with the last one close the host     *)
(* file and free the FDFile.  close(2) is taken to succeed: when it fails, *)
(* host_close does not free the HostFile (host/posix/file.c:97-99), whose  *)
(* descriptor Linux has closed all the same.                               *)
(***************************************************************************)
fdrelease(f) ==
    /\ refs' = [refs EXCEPT ![f] = Dec(@)]
    /\ IF Dec(refs[f]) = 0
       THEN /\ host' = [host EXCEPT ![f] = "closed"]
            /\ fdfile' = [fdfile EXCEPT ![f] = "freed"]
       ELSE UNCHANGED <<host, fdfile>>

(* fdalloc: the lowest free descriptor, which it does not claim. *)

\* Defect: the scan runs one slot past the table.
LowestFreePast(fd) ==
    /\ fd \in 0..NOFILE
    /\ fd \in FD => files[fd] = NULL
    /\ \A i \in 0..(fd - 1) : files[i] # NULL

\* Defect: the slot before the free one is returned.
LowestFreeBefore(fd) ==
    /\ fd \in FD /\ fd + 1 \in FD
    /\ files[fd + 1] = NULL
    /\ \A i \in 0..fd : files[i] # NULL

LowestFree(fd) ==
    /\ fd \in FD
    /\ files[fd] = NULL
    /\ \A i \in 0..(fd - 1) : files[i] # NULL

TableFull == \A fd \in FD : files[fd] # NULL

-----------------------------------------------------------------------------
(* What the client promises *)

MayStart(t, c) ==
    /\ SerialCwd =>
          \A u \in Thread \ {t} :
             /\ call[u] \notin CwdCall
             /\ c \in CwdCall => call[u] = "none"
    /\ SerialOpens =>
          (c = "openat" => \A u \in Thread \ {t} : call[u] # "openat")

(***************************************************************************)
(* The file of fd is in use by a call of another thread that was given fd. *)
(* The current directory is exempt: its own reference keeps it.            *)
(***************************************************************************)
InUseElsewhere(t, f) ==
    \E u \in Thread \ {t} :
       \/ obj[u] = f
       \/ f \in dirs[u] /\ f # cwdfd

MayClose(t, fd) == QuietCloses => ~InUseElsewhere(t, files[fd])

-----------------------------------------------------------------------------
(* Every system call starts at "idle" and ends by returning to it. *)

Begin(t, c, label) ==
    /\ pc' = [pc EXCEPT ![t] = label]
    /\ call' = [call EXCEPT ![t] = c]

Goto(t, label) ==
    /\ pc' = [pc EXCEPT ![t] = label]
    /\ UNCHANGED call

Return(t) ==
    /\ Begin(t, "none", "idle")
    /\ obj' = [obj EXCEPT ![t] = NULL]
    /\ dirs' = [dirs EXCEPT ![t] = {}]
    /\ newf' = [newf EXCEPT ![t] = NULL]
    /\ slot' = [slot EXCEPT ![t] = 0]
    /\ old' = [old EXCEPT ![t] = NULL]

(***************************************************************************)
(* Reads through a freed HostFile are undefined: they answer either way.   *)
(***************************************************************************)
MayBeDir(f) == f \in Dir \/ host[f] # "open"
MayBeOther(f) == f \notin Dir \/ host[f] # "open"

-----------------------------------------------------------------------------
(* Calls on a descriptor: read, write, readv, writev, pread64, lseek,      *)
(* fstat, getdents64, ftruncate, fchown, fchmod, fsync, mmap of a file;    *)
(* and the first half of fchdir.                                           *)

(***************************************************************************)
(* fdget hands out the pointer and takes no reference for it.              *)
(***************************************************************************)
BeginFdCall(t, fd, c) ==
    /\ pc[t] = "idle"
    /\ c \in {"fdop", "fchdir"}
    /\ MayStart(t, c)
    /\ fdhas(fd)
    /\ obj' = [obj EXCEPT ![t] = files[fd]]
    /\ Begin(t, c, "use")
    /\ UNCHANGED <<process, dirs, newf, slot, old>>

\* EBADF
BadFd(t, fd) ==
    /\ pc[t] = "idle"
    /\ ~fdhas(fd)
    /\ UNCHANGED vars

\* The call through the FDFile's operations, or EFAULT before it.
UseFd(t) ==
    /\ pc[t] = "use"
    /\ call[t] = "fdop"
    /\ Return(t)
    /\ UNCHANGED process

Close(t, fd) ==
    /\ pc[t] = "idle"
    /\ MayStart(t, "close")
    /\ fdhas(fd)
    /\ MayClose(t, fd)
    /\ fdrelease(files[fd])
    /\ files' = [files EXCEPT ![fd] = NULL]
    /\ UNCHANGED <<cwdfd, cwdfile, locals>>

-----------------------------------------------------------------------------
(* Calls on a path: getfdir, then the host call *)

BeginLookup(t, c) ==
    \/ /\ pc[t] = "idle"
       /\ c \in LookupCall
       /\ MayStart(t, c)
    \/ /\ pc[t] = "dir2"
       /\ c = call[t]

Resolve(t, c, ds) ==
    /\ IF c = "renameat" THEN Begin(t, "pathop", "dir2") ELSE Begin(t, c, "path")
    /\ dirs' = [dirs EXCEPT ![t] = @ \cup ds]
    /\ obj' = [obj EXCEPT ![t] = NULL]
    /\ UNCHANGED <<newf, slot, old>>

\* EBADF, after the second lookup if the call has one
Unresolved(t, c) ==
    IF c = "renameat"
    THEN /\ Begin(t, "failing", "dir2")
         /\ obj' = [obj EXCEPT ![t] = NULL]
         /\ UNCHANGED <<dirs, newf, slot, old>>
    ELSE Return(t)

LookupCwd(t, c) ==
    /\ BeginLookup(t, c)
    /\ Resolve(t, c, {cwdfile} \ {NULL})
    /\ UNCHANGED process

LookupFd(t, c, fd) ==
    /\ BeginLookup(t, c)
    /\ fdhas(fd)
    /\ obj' = [obj EXCEPT ![t] = files[fd]]
    /\ Begin(t, c, "isdir")
    /\ UNCHANGED <<process, dirs, newf, slot, old>>

LookupBadFd(t, c, fd) ==
    /\ BeginLookup(t, c)
    /\ ~fdhas(fd)
    /\ Unresolved(t, c)
    /\ UNCHANGED process

IsDir(t) ==
    /\ pc[t] = "isdir"
    /\ \/ MayBeDir(obj[t]) /\ Resolve(t, call[t], {obj[t]})
       \/ MayBeOther(obj[t]) /\ Unresolved(t, call[t])
    /\ UNCHANGED process

\* The host call, or EFAULT, EINVAL, EBADF, ENOENT
PathReturn(t) ==
    /\ pc[t] = "path"
    /\ call[t] # "chdir"
    /\ Return(t)
    /\ UNCHANGED process

-----------------------------------------------------------------------------
(* openat: filenew, fdalloc, fdassign *)

\* filefnew's FDFile starts with no reference.
OpenHost(t, f) ==
    /\ pc[t] = "path"
    /\ call[t] = "openat"
    /\ host[f] = "unused"
    /\ host' = [host EXCEPT ![f] = "open"]
    /\ fdfile' = [fdfile EXCEPT ![f] = "live"]
    /\ newf' = [newf EXCEPT ![t] = f]
    /\ dirs' = [dirs EXCEPT ![t] = {}]
    /\ Goto(t, "fdalloc")
    /\ UNCHANGED <<files, cwdfd, cwdfile, refs, obj, slot, old>>

\* A malloc of filefnew fails: the host file stays open.
OpenNoMem(t, f) ==
    /\ MallocMayFail
    /\ pc[t] = "path"
    /\ call[t] = "openat"
    /\ host[f] = "unused"
    /\ host' = [host EXCEPT ![f] = "open"]
    /\ Return(t)
    /\ UNCHANGED <<files, cwdfd, cwdfile, fdfile, refs>>

Fdalloc(t, fd) ==
    /\ pc[t] = "fdalloc"
    /\ LowestFree(fd)
    /\ slot' = [slot EXCEPT ![t] = fd]
    /\ Goto(t, "fdassign")
    /\ UNCHANGED <<process, obj, dirs, newf, old>>

\* EMFILE: fdrelease of an FDFile that has no reference
Emfile(t) ==
    /\ pc[t] = "fdalloc"
    /\ TableFull
    /\ fdrelease(newf[t])
    /\ Return(t)
    /\ UNCHANGED <<files, cwdfd, cwdfile>>

\* Defect: the table's reference is not counted.
FdassignUncounted(t) ==
    /\ pc[t] = "fdassign"
    /\ files' = [files EXCEPT ![slot[t]] = newf[t]]
    /\ Return(t)
    /\ UNCHANGED <<cwdfd, cwdfile, host, fdfile, refs>>

Fdassign(t) ==
    /\ pc[t] = "fdassign"
    /\ refs' = [refs EXCEPT ![newf[t]] = Inc(@)]
    /\ files' = [files EXCEPT ![slot[t]] = newf[t]]
    /\ Return(t)
    /\ UNCHANGED <<cwdfd, cwdfile, host, fdfile>>

-----------------------------------------------------------------------------
(* chdir and fchdir.  Neither takes cwd.lk. *)

BeginChdir(t) ==
    /\ pc[t] = "idle"
    /\ MayStart(t, "chdir")
    /\ dirs' = [dirs EXCEPT ![t] = {cwdfile} \ {NULL}]
    /\ Begin(t, "chdir", "path")
    /\ UNCHANGED <<process, obj, newf, slot, old>>

OpenDir(t, f) ==
    /\ pc[t] = "path"
    /\ call[t] = "chdir"
    /\ f \in Dir
    /\ host[f] = "unused"
    /\ host' = [host EXCEPT ![f] = "open"]
    /\ newf' = [newf EXCEPT ![t] = f]
    /\ dirs' = [dirs EXCEPT ![t] = {}]
    /\ Goto(t, "take")
    /\ UNCHANGED <<files, cwdfd, cwdfile, fdfile, refs, obj, slot, old>>

\* host_openat fails: the call goes on with file = NULL.
OpenDirFails(t) ==
    /\ pc[t] = "path"
    /\ call[t] = "chdir"
    /\ dirs' = [dirs EXCEPT ![t] = {}]
    /\ Goto(t, "take")
    /\ UNCHANGED <<process, obj, newf, slot, old>>

CheckDir(t) ==
    /\ pc[t] = "use"
    /\ call[t] = "fchdir"
    /\ \/ /\ MayBeDir(obj[t])
          /\ Goto(t, "take")
          /\ UNCHANGED <<obj, dirs, newf, slot, old>>
       \/ /\ MayBeOther(obj[t])   \* ENOTDIR
          /\ Return(t)
    /\ UNCHANGED process

AfterDrop(t) == IF call[t] = "fchdir" THEN "ref" ELSE "set"

\* The tests of cwd.fd and cwd.file
CwdTake(t) ==
    /\ pc[t] = "take"
    /\ \/ /\ cwdfd # NULL
          /\ old' = [old EXCEPT ![t] = cwdfd]
          /\ Goto(t, "release")
       \/ /\ cwdfd = NULL /\ cwdfile # NULL
          /\ old' = [old EXCEPT ![t] = cwdfile]
          /\ Goto(t, "close")
       \/ /\ cwdfd = NULL /\ cwdfile = NULL
          /\ Goto(t, AfterDrop(t))
          /\ UNCHANGED old
    /\ UNCHANGED <<process, obj, dirs, newf, slot>>

CwdRelease(t) ==
    /\ pc[t] = "release"
    /\ fdrelease(old[t])
    /\ cwdfd' = NULL
    /\ Goto(t, AfterDrop(t))
    /\ UNCHANGED <<files, cwdfile, obj, dirs, newf, slot, old>>

\* Defect: the directory that chdir opened is not closed.
CwdCloseForgotten(t) ==
    /\ pc[t] = "close"
    /\ Goto(t, AfterDrop(t))
    /\ UNCHANGED <<process, obj, dirs, newf, slot, old>>

CwdClose(t) ==
    /\ pc[t] = "close"
    /\ host' = [host EXCEPT ![old[t]] = "closed"]
    /\ Goto(t, AfterDrop(t))
    /\ UNCHANGED <<files, cwdfd, cwdfile, fdfile, refs, obj, dirs, newf, slot, old>>

\* Defect: fchdir takes no reference for the current directory.
CwdRefForgotten(t) ==
    /\ pc[t] = "ref"
    /\ Goto(t, "set")
    /\ UNCHANGED <<process, obj, dirs, newf, slot, old>>

CwdRef(t) ==
    /\ pc[t] = "ref"
    /\ refs' = [refs EXCEPT ![obj[t]] = Inc(@)]
    /\ Goto(t, "set")
    /\ UNCHANGED <<files, cwdfd, cwdfile, host, fdfile, obj, dirs, newf, slot, old>>

CwdSet(t) ==
    /\ pc[t] = "set"
    /\ IF call[t] = "fchdir"
       THEN cwdfd' = obj[t] /\ cwdfile' = obj[t]
       ELSE UNCHANGED cwdfd /\ cwdfile' = newf[t]
    /\ Return(t)
    /\ UNCHANGED <<files, host, fdfile, refs>>

-----------------------------------------------------------------------------
(* -1 and NOFILE stand for every descriptor number outside the table. *)
AnyFd == -1..NOFILE

Step(t) ==
    \/ \E fd \in FD, c \in {"fdop", "fchdir"} : BeginFdCall(t, fd, c)
    \/ \E fd \in AnyFd : BadFd(t, fd)
    \/ UseFd(t)
    \/ \E fd \in FD : Close(t, fd)
    \/ \E c \in Call : LookupCwd(t, c)
    \/ \E c \in Call, fd \in FD : LookupFd(t, c, fd)
    \/ \E c \in Call, fd \in AnyFd : LookupBadFd(t, c, fd)
    \/ IsDir(t)
    \/ PathReturn(t)
    \/ \E f \in File : OpenHost(t, f)
    \/ \E f \in File : OpenNoMem(t, f)
    \/ \E fd \in 0..NOFILE : Fdalloc(t, fd)
    \/ Emfile(t)
    \/ Fdassign(t)
    \/ BeginChdir(t)
    \/ \E f \in File : OpenDir(t, f)
    \/ OpenDirFails(t)
    \/ CheckDir(t)
    \/ CwdTake(t)
    \/ CwdRelease(t)
    \/ CwdClose(t)
    \/ CwdRef(t)
    \/ CwdSet(t)

Next == \E t \in Thread : Step(t)

Spec == Init /\ [][Next]_vars

-----------------------------------------------------------------------------
(* Properties *)

InTable(f) == \E fd \in FD : files[fd] = f

\* fchdir has counted its reference and not yet stored it in cwd.
CwdPending(f) ==
    \E t \in Thread : pc[t] = "set" /\ call[t] = "fchdir" /\ obj[t] = f

\* chdir or fchdir has dropped the old directory and not yet stored the new.
CwdVacant == \E t \in Thread : pc[t] \in {"ref", "set"}

Referenced(f) == InTable(f) \/ cwdfd = f \/ CwdPending(f) \/ f \in Std

One(b) == IF b THEN 1 ELSE 0
References(f) ==
    One(InTable(f)) + One(cwdfd = f) + One(CwdPending(f)) + One(f \in Std)

(***************************************************************************)
(* Whatever the table, the current directory or libtux refers to is alive, *)
(* and its count covers all of them: no close, chdir or fchdir, in any     *)
(* order, frees a file that something still names (fdrelease closes and    *)
(* frees at zero).  Needs SerialCwd.                                       *)
(***************************************************************************)
ReferencedLive ==
    /\ \A f \in File : Referenced(f) =>
          /\ host[f] = "open"
          /\ fdfile[f] = "live"
          /\ refs[f] >= References(f)
    /\ cwdfile # NULL /\ ~CwdVacant => host[cwdfile] = "open"

(***************************************************************************)
(* A system call never reads through an FDFile or a HostFile that is       *)
(* freed: fdget and getfdir return bare pointers, so this rests on who     *)
(* else may drop the last reference.  Needs SerialCwd and QuietCloses.     *)
(***************************************************************************)
NoUseAfterFree ==
    \A t \in Thread :
       /\ obj[t] # NULL => fdfile[obj[t]] = "live"
       /\ \A d \in dirs[t] : host[d] = "open"

(***************************************************************************)
(* The count of a file that something refers to is the number of places    *)
(* that do, so its last close is also its release: no open file outlives   *)
(* all its names.  Needs SerialCwd and SerialOpens.                        *)
(***************************************************************************)
RefsExact == \A f \in File : Referenced(f) => refs[f] = References(f)

(***************************************************************************)
(* A descriptor names the file that openat put there until it is closed:   *)
(* fdassign never replaces one file by another.  Needs SerialOpens, since  *)
(* fdalloc and fdassign are two critical sections.                         *)
(***************************************************************************)
NoOverwrite ==
    [][\A fd \in FD : files[fd] # NULL => files'[fd] \in {files[fd], NULL}]_vars

(***************************************************************************)
(* What the comment on the counts in lfi_tux_new says of every FDFile:     *)
(* its count is the number of its references, so an FDFile nobody can      *)
(* close does not exist.  Needs SerialCwd, SerialOpens and a table that    *)
(* never fills; a violation run drops SerialOpens.                         *)
(***************************************************************************)
RefsRepresentReferences ==
    \A f \in File : fdfile[f] = "live" => refs[f] = References(f)

(***************************************************************************)
(* A chdir that returns 0 has changed to a directory (the tests treat a    *)
(* nonzero result as the failure report).                                  *)
(***************************************************************************)
ChdirReportsFailure ==
    [][\A t \in Thread : CwdSet(t) => cwdfile' # NULL]_vars

=============================================================================
