------------------------------- MODULE FileIo -------------------------------
(***************************************************************************)
(* Reading and writing one open file through libtux: read, write, readv,   *)
(* writev, pread64, lseek and close (sys_file.c), down to the host calls   *)
(* and their error codes (host/posix/file.c, host/error.h).                *)
(*                                                                         *)
(* The host keeps one offset for the file, shared by all threads, and      *)
(* moves it with every transfer; each host call is one step.  The bytes    *)
(* of the file are its positions: a call transfers those between the       *)
(* offset before and after.  Reads and writes treat the offset alike: a    *)
(* write stays within the file, as one that would extend it is left out,   *)
(* and so is O_APPEND.                                                     *)
(***************************************************************************)
EXTENDS Integers, Sequences

CONSTANTS
    Thread,
    Size,          \* length of the file
    MaxLen,        \* longest buffer
    MaxVec,        \* most buffers of a readv or writev
    Offsets,       \* offset arguments; lseek refuses a negative position
    MaxOffset,     \* bound: the furthest position that seeks go to
    Errno,         \* an errno of the host, a positive number
    EBADF,
    SerialPread    \* does the program let pread64 overlap no other call?

ASSUME FileIoAssumption ==
    /\ {Size, MaxLen, MaxVec} \subseteq Nat \ {0}
    /\ MaxOffset \in Nat /\ Size <= MaxOffset
    /\ {Errno, EBADF} \subseteq Nat \ {0}
    /\ Offsets \subseteq Int /\ \A o \in Offsets : o <= MaxOffset
    /\ SerialPread \in BOOLEAN

VARIABLES
    seekable, \* a file, or a pipe?
    off,      \* the host's file offset
    fd,       \* is the descriptor still in the table?
    moved,    \* how often each byte was transferred by calls at the offset
    pc,
    iov,      \* the buffers still to transfer
    total,    \* `total` of readv and writev, `n` of pread64
    orig,     \* `orig` of pread64
    arg,      \* the size and offset of pread64
    \* What happened in a call, for the properties
    done,     \* bytes it transferred
    from,     \* where pread64 transferred them from
    failed,   \* did a host transfer fail?
    result    \* what it returned

vars == <<seekable, off, fd, moved, pc, iov, total, orig, arg, done, from, failed, result>>

Byte == 0..(Size - 1)
MaxTotal == MaxVec * (MaxLen + Errno)

TypeOK ==
    /\ seekable \in BOOLEAN
    /\ off \in 0..MaxOffset
    /\ fd \in BOOLEAN
    /\ moved \in [Byte -> Nat]
    /\ pc \in [Thread -> {"idle", "iov", "save", "seek", "read", "restore", "aborted"}]
    /\ \A t \in Thread : iov[t] \in Seq(0..MaxLen)
    /\ total \in [Thread -> 0..MaxTotal]
    /\ orig \in [Thread -> Nat]
    /\ arg \in [Thread -> [size : 0..MaxLen, offset : Offsets \cup {0}]]
    /\ done \in [Thread -> 0..MaxTotal]
    /\ from \in [Thread -> 0..MaxOffset]
    /\ failed \in [Thread -> BOOLEAN]
    /\ result \in [Thread -> {-EBADF} \cup 0..MaxTotal]

Init ==
    /\ seekable \in BOOLEAN
    /\ off = 0
    /\ fd = TRUE
    /\ moved = [b \in Byte |-> 0]
    /\ pc = [t \in Thread |-> "idle"]
    /\ iov = [t \in Thread |-> <<>>]
    /\ total = [t \in Thread |-> 0]
    /\ orig = [t \in Thread |-> 0]
    /\ arg = [t \in Thread |-> [size |-> 0, offset |-> 0]]
    /\ done = [t \in Thread |-> 0]
    /\ from = [t \in Thread |-> 0]
    /\ failed = [t \in Thread |-> FALSE]
    /\ result = [t \in Thread |-> 0]

-----------------------------------------------------------------------------
(* The host's side *)

\* Defect: the -1 of the host call is passed on.
tuxerrRaw(err) == -1

\* errno is positive, and so is the error that the guest sees.
tuxerr(err) == IF err >= 0 THEN err ELSE -Errno

\* read(2), write(2): any part of what there is, nothing from the end on
Transferable(n) ==
    {k \in 0..n : IF off < Size /\ n > 0 THEN k > 0 /\ off + k <= Size ELSE k = 0}

host_transfer(k) ==
    /\ off' = off + k
    /\ moved' = [b \in Byte |-> IF off <= b /\ b < off + k THEN moved[b] + 1 ELSE moved[b]]

\* Where the offset o of lseek(2) is counted from
Position(whence, o) ==
    CASE whence = "SEEK_SET" -> o
      [] whence = "SEEK_CUR" -> off + o
      [] whence = "SEEK_END" -> Size + o

\* lseek(2) fails on a pipe, on a closed file and for a negative position.
SeekTo(p) == off' = IF seekable /\ fd /\ p >= 0 THEN p ELSE off

host_seek(whence, o) == SeekTo(Position(whence, o))

-----------------------------------------------------------------------------
InPread(t) == pc[t] \in {"save", "seek", "read", "restore"}

MayStart(t, pread) ==
    SerialPread => \A u \in Thread \ {t} : IF pread THEN pc[u] = "idle" ELSE ~InPread(u)

Goto(t, label) == pc' = [pc EXCEPT ![t] = label]

Return(t, r) ==
    /\ Goto(t, "idle")
    /\ result' = [result EXCEPT ![t] = r]
    /\ iov' = [iov EXCEPT ![t] = <<>>]
    /\ total' = [total EXCEPT ![t] = 0]
    /\ orig' = [orig EXCEPT ![t] = 0]
    /\ arg' = [arg EXCEPT ![t] = [size |-> 0, offset |-> 0]]
    /\ from' = [from EXCEPT ![t] = 0]

-----------------------------------------------------------------------------
(* readv and writev; read and write are those of one buffer *)

BeginIov(t, v) ==
    /\ pc[t] = "idle"
    /\ MayStart(t, FALSE)
    /\ iov' = [iov EXCEPT ![t] = v]
    /\ done' = [done EXCEPT ![t] = 0]
    /\ failed' = [failed EXCEPT ![t] = FALSE]
    /\ Goto(t, "iov")
    /\ UNCHANGED <<off, fd, moved, total, orig, arg, from, result>>

\* Defect: the count of the last buffer is returned.
AddTotalLast(t, n) == n

AddTotal(t, n) == total[t] + n

\* sys_read or sys_write of the next buffer, which a size of 0 ends at once
IovStep(t) ==
    /\ pc[t] = "iov" /\ iov[t] # <<>>
    /\ Head(iov[t]) = 0 \/ fd
    /\ \E k \in Transferable(Head(iov[t])) :
          /\ host_transfer(k)
          /\ total' = [total EXCEPT ![t] = AddTotal(t, k)]
          /\ done' = [done EXCEPT ![t] = @ + k]
          /\ iov' = [iov EXCEPT ![t] = Tail(@)]
    /\ UNCHANGED <<fd, pc, orig, arg, from, failed, result>>

\* The host call fails, and its error is added like a count.
IovHostFails(t) ==
    /\ pc[t] = "iov" /\ iov[t] # <<>>
    /\ Head(iov[t]) # 0 /\ fd
    /\ tuxerr(Errno) >= 0
    /\ total' = [total EXCEPT ![t] = AddTotal(t, tuxerr(Errno))]
    /\ iov' = [iov EXCEPT ![t] = Tail(@)]
    /\ failed' = [failed EXCEPT ![t] = TRUE]
    /\ UNCHANGED <<off, fd, moved, pc, orig, arg, done, from, result>>

\* The descriptor was closed: what was transferred before is not reported.
IovBadFd(t) ==
    /\ pc[t] = "iov" /\ iov[t] # <<>>
    /\ Head(iov[t]) # 0 /\ ~fd
    /\ Return(t, -EBADF)
    /\ UNCHANGED <<off, fd, moved, done, failed>>

IovDone(t) ==
    /\ pc[t] = "iov" /\ iov[t] = <<>>
    /\ Return(t, total[t])
    /\ UNCHANGED <<off, fd, moved, done, failed>>

-----------------------------------------------------------------------------
(* pread64: lseek, lseek, read, lseek *)

BeginPread(t, size, offset) ==
    /\ pc[t] = "idle"
    /\ MayStart(t, TRUE)
    /\ fd
    /\ arg' = [arg EXCEPT ![t] = [size |-> size, offset |-> offset]]
    /\ done' = [done EXCEPT ![t] = 0]
    /\ failed' = [failed EXCEPT ![t] = FALSE]
    /\ Goto(t, "save")
    /\ UNCHANGED <<off, fd, moved, iov, total, orig, from, result>>

\* On a pipe lseek fails, and `orig` is an error.
PreadSave(t) ==
    /\ pc[t] = "save"
    /\ orig' = [orig EXCEPT ![t] = IF seekable /\ fd THEN off ELSE tuxerr(Errno)]
    /\ Goto(t, "seek")
    /\ UNCHANGED <<off, fd, moved, iov, total, arg, done, from, failed, result>>

\* Defect: the offset is taken relative to the current one.
PreadSeekRelative(t) ==
    /\ pc[t] = "seek"
    /\ off + arg[t].offset <= MaxOffset
    /\ host_seek("SEEK_CUR", arg[t].offset)
    /\ Goto(t, "read")
    /\ UNCHANGED <<fd, moved, iov, total, orig, arg, done, from, failed, result>>

PreadSeek(t) ==
    /\ pc[t] = "seek"
    /\ host_seek("SEEK_SET", arg[t].offset)
    /\ Goto(t, "read")
    /\ UNCHANGED <<fd, moved, iov, total, orig, arg, done, from, failed, result>>

\* What pread64 takes from a pipe is gone; what it reads from a file is not.
PreadRead(t) ==
    /\ pc[t] = "read"
    /\ fd
    /\ \E k \in Transferable(arg[t].size) :
          /\ IF seekable THEN off' = off + k /\ UNCHANGED moved ELSE host_transfer(k)
          /\ total' = [total EXCEPT ![t] = k]
          /\ done' = [done EXCEPT ![t] = k]
    /\ from' = [from EXCEPT ![t] = off]
    /\ Goto(t, "restore")
    /\ UNCHANGED <<fd, iov, orig, arg, failed, result>>

PreadReadFails(t) ==
    /\ pc[t] = "read"
    /\ total' = [total EXCEPT ![t] = tuxerr(Errno)]
    /\ failed' = [failed EXCEPT ![t] = TRUE]
    /\ from' = [from EXCEPT ![t] = off]
    /\ Goto(t, "restore")
    /\ UNCHANGED <<off, fd, moved, iov, orig, arg, done, result>>

\* Defect: the offset is not put back.
PreadRestoreForgotten(t) ==
    /\ pc[t] = "restore"
    /\ Return(t, total[t])
    /\ UNCHANGED <<off, fd, moved, done, failed>>

PreadRestore(t) ==
    /\ pc[t] = "restore"
    /\ host_seek("SEEK_SET", orig[t])
    /\ Return(t, total[t])
    /\ UNCHANGED <<fd, moved, done, failed>>

-----------------------------------------------------------------------------
(* lseek and close                                                         *)

\* A fresh start: the bytes before the new offset count as transferred.
Lseek(t, whence, o) ==
    /\ pc[t] = "idle"
    /\ MayStart(t, FALSE)
    /\ fd /\ seekable
    /\ Position(whence, o) \in 0..MaxOffset
    /\ host_seek(whence, o)
    /\ moved' = [b \in Byte |-> IF b < Position(whence, o) THEN 1 ELSE 0]
    /\ UNCHANGED <<fd, pc, iov, total, orig, arg, done, from, failed, result>>

\* seekwhence asserts that whence, which the guest chooses, is one of three.
LseekAborts(t) ==
    /\ pc[t] = "idle"
    /\ MayStart(t, FALSE)
    /\ fd
    /\ pc' = [u \in Thread |-> "aborted"]
    /\ UNCHANGED <<off, fd, moved, iov, total, orig, arg, done, from, failed, result>>

\* EBADF from pread64, lseek and close; an error from lseek
Refused(t) ==
    /\ pc[t] = "idle"
    /\ UNCHANGED <<off, fd, moved, pc, iov, total, orig, arg, done, from, failed, result>>

(***************************************************************************)
(* A pread64 that a close overtakes goes on with a file that the host has  *)
(* closed; that its FDFile is freed too is the subject of FdFiles.         *)
(***************************************************************************)
Close(t) ==
    /\ pc[t] = "idle"
    /\ MayStart(t, FALSE)
    /\ fd
    /\ fd' = FALSE
    /\ UNCHANGED <<off, moved, pc, iov, total, orig, arg, done, from, failed, result>>

-----------------------------------------------------------------------------
Iovs == UNION {[1..n -> 0..MaxLen] : n \in 0..MaxVec}

Step(t) ==
    \/ \E v \in Iovs : BeginIov(t, v)
    \/ IovStep(t)
    \/ IovHostFails(t)
    \/ IovBadFd(t)
    \/ IovDone(t)
    \/ \E size \in 0..MaxLen, offset \in Offsets : BeginPread(t, size, offset)
    \/ PreadSave(t)
    \/ PreadSeek(t)
    \/ PreadRead(t)
    \/ PreadReadFails(t)
    \/ PreadRestore(t)
    \/ \E whence \in {"SEEK_SET", "SEEK_CUR", "SEEK_END"}, o \in Offsets : Lseek(t, whence, o)
    \/ LseekAborts(t)
    \/ Refused(t)
    \/ Close(t)

Next == (\E t \in Thread : Step(t)) /\ UNCHANGED seekable

Spec == Init /\ [][Next]_vars

-----------------------------------------------------------------------------
(* Properties *)

(***************************************************************************)
(* The threads that read and write at the file's offset share its bytes    *)
(* out among them: none twice, none left out, also across pread64 calls,   *)
(* which move the offset and put it back.  Needs SerialPread.              *)
(***************************************************************************)
StreamExact ==
    (\A t \in Thread : ~InPread(t)) =>
        \A b \in Byte : moved[b] = IF b < off THEN 1 ELSE 0

(***************************************************************************)
(* A count that a call returns is the number of bytes it transferred, over *)
(* all its buffers and short transfers, unless a host call failed in it    *)
(* (the error then passes for a count, as tuxerr keeps it positive).       *)
(***************************************************************************)
CountsReported ==
    \A t \in Thread :
       pc[t] = "idle" /\ result[t] >= 0 /\ ~failed[t] => result[t] = done[t]

(***************************************************************************)
(* pread64 reads at the offset it is given, if the file can seek there.    *)
(* Needs SerialPread.                                                      *)
(***************************************************************************)
PreadPositional ==
    \A t \in Thread :
       pc[t] = "restore" /\ seekable /\ arg[t].offset >= 0 => from[t] = arg[t].offset

=============================================================================
