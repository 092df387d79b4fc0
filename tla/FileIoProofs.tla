---------------------------- MODULE FileIoProofs ----------------------------
(***************************************************************************)
(* Proofs about FileIo, for any number of threads, any file and any        *)
(* buffers.                                                                *)
(***************************************************************************)
EXTENDS FileIo, SequenceTheorems, TLAPS

Labels == {"idle", "iov", "save", "seek", "read", "restore", "aborted"}

\* The part of TypeOK that the proofs need
IoType ==
    /\ seekable \in BOOLEAN /\ fd \in BOOLEAN
    /\ off \in 0..MaxOffset
    /\ moved \in [Byte -> Nat]
    /\ pc \in [Thread -> Labels]
    /\ total \in [Thread -> Int]
    /\ orig \in [Thread -> Nat] /\ (seekable /\ fd => \A t \in Thread : orig[t] <= MaxOffset)
    /\ arg \in [Thread -> [size : 0..MaxLen, offset : Offsets \cup {0}]]
    /\ done \in [Thread -> Int]
    /\ from \in [Thread -> Int]
    /\ failed \in [Thread -> BOOLEAN]
    /\ result \in [Thread -> Int]

\* SerialPread as it is seen in a state
PreadAlone ==
    \A t \in Thread : InPread(t) => \A u \in Thread \ {t} : pc[u] = "idle"

\* and for the descriptor of its file
PreadOpen == (\E t \in Thread : InPread(t)) => fd

\* pread64 of t has saved the offset of a file and not yet put it back.
Displaced(t) == seekable /\ pc[t] \in {"seek", "read", "restore"}

TakenTo(o) == \A b \in Byte : moved[b] = IF b < o THEN 1 ELSE 0

(***************************************************************************)
(* The bytes transferred are those in front of the offset, or in front of  *)
(* the one that pread64 has saved.                                         *)
(***************************************************************************)
StreamInv ==
    /\ (\A t \in Thread : ~Displaced(t)) => TakenTo(off)
    /\ \A t \in Thread : Displaced(t) => TakenTo(orig[t])

\* Between its second lseek and its read, pread64 has the offset it wants.
AtInv ==
    \A t \in Thread : seekable /\ arg[t].offset >= 0 =>
       /\ pc[t] = "read" => off = arg[t].offset
       /\ pc[t] = "restore" => from[t] = arg[t].offset

\* The count kept in a call that no host failure has spoilt
CountInv ==
    \A t \in Thread :
       /\ pc[t] = "idle" => total[t] = 0
       /\ pc[t] = "iov" /\ ~failed[t] => total[t] = done[t]
       /\ pc[t] \in {"save", "seek", "read"} => total[t] = 0
       /\ pc[t] = "restore" /\ ~failed[t] => total[t] = done[t]
       /\ pc[t] = "idle" /\ result[t] >= 0 /\ ~failed[t] => result[t] = done[t]

\* What a buffer can add at most to the count of a call
Chunk == MaxLen + Errno

Room(buffers) == Len(buffers) * Chunk

(***************************************************************************)
(* The buffers that a call has still to transfer leave room for what they  *)
(* can add: neither the count nor the bytes outgrow MaxTotal.              *)
(***************************************************************************)
BudgetInv ==
    /\ iov \in [Thread -> Seq(0..MaxLen)]
    /\ \A t \in Thread :
          /\ pc[t] \notin {"iov", "aborted"} => iov[t] = <<>>
          /\ total[t] >= 0 /\ total[t] + Room(iov[t]) <= MaxTotal
          /\ done[t] >= 0 /\ done[t] + Room(iov[t]) <= MaxTotal
          /\ from[t] \in 0..MaxOffset
          /\ result[t] \in {-EBADF} \cup 0..MaxTotal

SerialInv == PreadAlone /\ PreadOpen /\ StreamInv /\ AtInv

-----------------------------------------------------------------------------
(***************************************************************************)
(* A host error is a positive number for the guest too.                    *)
(***************************************************************************)
LEMMA TuxerrType == tuxerr(Errno) \in Nat
BY FileIoAssumption DEF tuxerr

(***************************************************************************)
(* The counts of buffers and files, and the offsets lseek is asked for.    *)
(***************************************************************************)
LEMMA Sizes ==
    /\ Size \in Nat /\ MaxLen \in Nat /\ EBADF \in Nat /\ EBADF > 0
    /\ MaxOffset \in Nat /\ Size <= MaxOffset
    /\ Offsets \subseteq Int /\ \A o \in Offsets : o <= MaxOffset
BY FileIoAssumption

(***************************************************************************)
(* A host transfer ends within the file, or does not move the offset.      *)
(***************************************************************************)
LEMMA TransferBound ==
    ASSUME IoType, NEW n, NEW k \in Transferable(n)
    PROVE  k \in Nat /\ off + k \in 0..MaxOffset
BY Sizes DEF IoType, Transferable

(***************************************************************************)
(* What a host transfer takes are the next bytes at the offset.            *)
(***************************************************************************)
LEMMA TransferExact ==
    ASSUME IoType, NEW k \in Nat, host_transfer(k), TakenTo(off)
    PROVE  TakenTo(off)'
BY Sizes DEF IoType, TakenTo, host_transfer, Byte

(***************************************************************************)
(* Every step of a system call keeps the types.                            *)
(***************************************************************************)
LEMMA TypeStep ==
    ASSUME IoType, NEW t \in Thread, Step(t), UNCHANGED seekable
    PROVE  IoType'
<1> USE Sizes, TuxerrType DEF IoType, Labels, Goto
<1>1. ASSUME NEW v \in Iovs, BeginIov(t, v) PROVE IoType'
  BY <1>1 DEF BeginIov
<1>2. CASE IovStep(t)
  <2>1. PICK k \in Transferable(Head(iov[t])) :
            /\ host_transfer(k)
            /\ total' = [total EXCEPT ![t] = AddTotal(t, k)]
            /\ done' = [done EXCEPT ![t] = @ + k]
    BY <1>2 DEF IovStep
  <2>2. k \in Nat /\ off + k \in 0..MaxOffset
    BY TransferBound
  <2>3. off' \in 0..MaxOffset /\ moved' \in [Byte -> Nat]
    BY <2>1, <2>2 DEF host_transfer
  <2>4. total' \in [Thread -> Int] /\ done' \in [Thread -> Int]
    BY <2>1, <2>2 DEF AddTotal
  <2> QED
    BY <1>2, <2>3, <2>4 DEF IovStep
<1>3. CASE IovHostFails(t)
  <2>1. total' \in [Thread -> Int]
    BY <1>3, SMTT(30) DEF IovHostFails, AddTotal
  <2> QED
    BY <1>3, <2>1 DEF IovHostFails
<1>4. CASE IovBadFd(t)
  BY <1>4, SMTT(30) DEF IovBadFd, Return
<1>5. CASE IovDone(t)
  BY <1>5, SMTT(30) DEF IovDone, Return
<1>6. ASSUME NEW size \in 0..MaxLen, NEW offset \in Offsets, BeginPread(t, size, offset)
      PROVE  IoType'
  BY <1>6 DEF BeginPread
<1>7. CASE PreadSave(t)
  BY <1>7 DEF PreadSave
<1>8. CASE PreadSeek(t)
  BY <1>8 DEF PreadSeek, host_seek, SeekTo, Position
<1>9. CASE PreadRead(t)
  <2>1. PICK k \in Transferable(arg[t].size) :
            /\ IF seekable THEN off' = off + k /\ UNCHANGED moved ELSE host_transfer(k)
            /\ total' = [total EXCEPT ![t] = k]
            /\ done' = [done EXCEPT ![t] = k]
    BY <1>9 DEF PreadRead
  <2>2. k \in Nat /\ off + k \in 0..MaxOffset
    BY TransferBound
  <2>3. off' \in 0..MaxOffset /\ moved' \in [Byte -> Nat]
    BY <2>1, <2>2 DEF host_transfer
  <2>4. total' \in [Thread -> Int] /\ done' \in [Thread -> Int]
    BY <2>1, <2>2
  <2> QED
    BY <1>9, <2>3, <2>4 DEF PreadRead
<1>10. CASE PreadReadFails(t)
  BY <1>10 DEF PreadReadFails
<1>11. CASE PreadRestore(t)
  BY <1>11, SMTT(30) DEF PreadRestore, Return, host_seek, SeekTo, Position
<1>12. ASSUME NEW whence, NEW o \in Offsets, Lseek(t, whence, o) PROVE IoType'
  BY <1>12 DEF Lseek, host_seek, SeekTo
<1>13. CASE Refused(t)
  BY <1>13 DEF Refused
<1>14. CASE Close(t)
  BY <1>14 DEF Close
<1>15. CASE LseekAborts(t)
  BY <1>15 DEF LseekAborts
<1> QED
  BY <1>1, <1>2, <1>3, <1>4, <1>5, <1>6, <1>7, <1>8, <1>9, <1>10, <1>11, <1>12, <1>13,
     <1>14, <1>15
  DEF Step

(***************************************************************************)
(* Every step keeps the counts in order, whatever the others do.           *)
(***************************************************************************)
LEMMA CountStep ==
    ASSUME IoType, IoType', CountInv, NEW t \in Thread, Step(t)
    PROVE  CountInv'
<1> USE Sizes DEF IoType, Labels, Goto, CountInv
<1>1. ASSUME NEW v \in Iovs, BeginIov(t, v) PROVE CountInv'
  BY <1>1 DEF BeginIov
<1>2. CASE IovStep(t)
  <2>1. PICK k \in Transferable(Head(iov[t])) :
            /\ total' = [total EXCEPT ![t] = AddTotal(t, k)]
            /\ done' = [done EXCEPT ![t] = @ + k]
    BY <1>2 DEF IovStep
  <2> QED
    BY <1>2, <2>1, SMTT(30) DEF IovStep, AddTotal
<1>3. CASE IovHostFails(t)
  BY <1>3, SMTT(30) DEF IovHostFails
<1>4. CASE IovBadFd(t)
  BY <1>4, SMTT(30) DEF IovBadFd, Return
<1>5. CASE IovDone(t)
  BY <1>5, SMTT(30) DEF IovDone, Return
<1>6. ASSUME NEW size \in 0..MaxLen, NEW offset \in Offsets, BeginPread(t, size, offset)
      PROVE  CountInv'
  BY <1>6 DEF BeginPread
<1>7. CASE PreadSave(t) \/ PreadSeek(t)
  BY <1>7 DEF PreadSave, PreadSeek
<1>8. CASE PreadRead(t)
  <2>1. PICK k \in Transferable(arg[t].size) :
            /\ total' = [total EXCEPT ![t] = k]
            /\ done' = [done EXCEPT ![t] = k]
    BY <1>8 DEF PreadRead
  <2> QED
    BY <1>8, <2>1 DEF PreadRead
<1>9. CASE PreadReadFails(t)
  BY <1>9 DEF PreadReadFails
<1>10. CASE PreadRestore(t)
  BY <1>10, SMTT(30) DEF PreadRestore, Return
<1>11. ASSUME NEW whence, NEW o \in Offsets, Lseek(t, whence, o) PROVE CountInv'
  BY <1>11 DEF Lseek
<1>12. CASE Refused(t) \/ Close(t) \/ LseekAborts(t)
  BY <1>12 DEF Refused, Close, LseekAborts
<1> QED
  BY <1>1, <1>2, <1>3, <1>4, <1>5, <1>6, <1>7, <1>8, <1>9, <1>10, <1>11, <1>12
  DEF Step

(***************************************************************************)
(* The largest count is that of as many buffers as a call may have.        *)
(***************************************************************************)
LEMMA ChunkBounds ==
    /\ Chunk \in Nat /\ Chunk >= MaxLen /\ Chunk >= Errno
    /\ MaxTotal \in Nat /\ Chunk <= MaxTotal
    /\ \A n \in 0..MaxVec : n * Chunk <= MaxTotal
<1>1. MaxLen \in Nat /\ MaxVec \in Nat /\ Errno \in Nat /\ MaxVec >= 1
  BY FileIoAssumption
<1>2. Chunk \in Nat /\ Chunk >= MaxLen /\ Chunk >= Errno
  BY <1>1 DEF Chunk
<1>3. \A m, n, c \in Nat : m <= n => m * c <= n * c
  OBVIOUS
<1>4. \A n, c \in Nat : n * c \in Nat
  OBVIOUS
<1>5. MaxTotal = MaxVec * Chunk
  BY DEF MaxTotal, Chunk
<1>6. 1 * Chunk <= MaxVec * Chunk /\ 1 * Chunk = Chunk
  BY <1>1, <1>2, <1>3
<1> QED
  BY <1>1, <1>2, <1>3, <1>4, <1>5, <1>6

(***************************************************************************)
(* The room that a list of buffers needs, and the list without its first.  *)
(***************************************************************************)
LEMMA RoomFacts ==
    /\ Room(<<>>) = 0
    /\ \A s \in Seq(0..MaxLen) : Room(s) \in Nat
    /\ \A s \in Seq(0..MaxLen) : Len(s) <= MaxVec => Room(s) <= MaxTotal
    /\ \A s \in Seq(0..MaxLen) : s # <<>> =>
          /\ Head(s) \in 0..MaxLen /\ Tail(s) \in Seq(0..MaxLen)
          /\ Room(s) = Room(Tail(s)) + Chunk
<1>1. Room(<<>>) = 0
  BY ChunkBounds, EmptySeq DEF Room
<1>2. \A n, c \in Nat : n * c \in Nat /\ (n > 0 => n * c = (n - 1) * c + c)
  OBVIOUS
<1> SUFFICES ASSUME NEW s \in Seq(0..MaxLen)
             PROVE  /\ Room(s) \in Nat
                    /\ Len(s) <= MaxVec => Room(s) <= MaxTotal
                    /\ s # <<>> =>
                          /\ Head(s) \in 0..MaxLen /\ Tail(s) \in Seq(0..MaxLen)
                          /\ Room(s) = Room(Tail(s)) + Chunk
  BY <1>1
<1>3. Len(s) \in Nat /\ Room(s) \in Nat
  BY <1>2, ChunkBounds, LenProperties DEF Room
<1>4. Len(s) <= MaxVec => Room(s) <= MaxTotal
  BY <1>3, ChunkBounds, FileIoAssumption DEF Room
<1>5. ASSUME s # <<>>
      PROVE  /\ Head(s) \in 0..MaxLen /\ Tail(s) \in Seq(0..MaxLen)
             /\ Room(s) = Room(Tail(s)) + Chunk
  <2>1. Head(s) \in 0..MaxLen /\ Tail(s) \in Seq(0..MaxLen) /\ Len(Tail(s)) = Len(s) - 1
    BY <1>5, HeadTailProperties
  <2>2. Len(s) > 0
    BY <1>3, <1>5, EmptySeq
  <2>3. Len(s) * Chunk = (Len(s) - 1) * Chunk + Chunk
    BY <1>2, <1>3, <2>2, ChunkBounds
  <2> QED
    BY <2>1, <2>3 DEF Room
<1> QED
  BY <1>3, <1>4, <1>5

(***************************************************************************)
(* A host transfer fits in the buffer.                                     *)
(***************************************************************************)
LEMMA TransferFits ==
    ASSUME NEW n \in 0..MaxLen, NEW k \in Transferable(n)
    PROVE  k \in Nat /\ k <= Chunk
BY ChunkBounds, Sizes DEF Transferable

(***************************************************************************)
(* The next buffer of a readv or writev, and the ones after it.            *)
(***************************************************************************)
LEMMA NextBuffer ==
    ASSUME BudgetInv, NEW t \in Thread, iov[t] # <<>>
    PROVE  /\ Head(iov[t]) \in 0..MaxLen
           /\ Tail(iov[t]) \in Seq(0..MaxLen)
           /\ Room(iov[t]) = Room(Tail(iov[t])) + Chunk
           /\ Room(Tail(iov[t])) \in Nat
BY RoomFacts DEF BudgetInv

(***************************************************************************)
(* A step that changes one call only, and keeps its budget, keeps them all.*)
(***************************************************************************)
LEMMA BudgetFrame ==
    ASSUME BudgetInv, NEW t \in Thread,
           iov' \in [Thread -> Seq(0..MaxLen)],
           \A u \in Thread \ {t} :
              /\ pc'[u] = pc[u] /\ iov'[u] = iov[u] /\ total'[u] = total[u]
              /\ done'[u] = done[u] /\ from'[u] = from[u] /\ result'[u] = result[u],
           pc'[t] \notin {"iov", "aborted"} => iov'[t] = <<>>,
           total'[t] >= 0 /\ total'[t] + Room(iov'[t]) <= MaxTotal,
           done'[t] >= 0 /\ done'[t] + Room(iov'[t]) <= MaxTotal,
           from'[t] \in 0..MaxOffset,
           result'[t] \in {-EBADF} \cup 0..MaxTotal
    PROVE  BudgetInv'
<1>1. ASSUME NEW u \in Thread
      PROVE  /\ pc'[u] \notin {"iov", "aborted"} => iov'[u] = <<>>
             /\ total'[u] >= 0 /\ total'[u] + Room(iov'[u]) <= MaxTotal
             /\ done'[u] >= 0 /\ done'[u] + Room(iov'[u]) <= MaxTotal
             /\ from'[u] \in 0..MaxOffset
             /\ result'[u] \in {-EBADF} \cup 0..MaxTotal
  <2>1. CASE u = t
    BY <2>1
  <2>2. CASE u # t
    BY <2>2 DEF BudgetInv
  <2> QED
    BY <2>1, <2>2
<1> QED
  BY <1>1 DEF BudgetInv

(***************************************************************************)
(* Returning a count within the budget keeps the budgets.                  *)
(***************************************************************************)
LEMMA BudgetReturn ==
    ASSUME IoType, BudgetInv, NEW t \in Thread, NEW r \in {-EBADF} \cup 0..MaxTotal,
           Return(t, r), UNCHANGED <<fd, done>>
    PROVE  BudgetInv'
<1>1. /\ \A u \in Thread \ {t} :
            /\ pc'[u] = pc[u] /\ iov'[u] = iov[u] /\ total'[u] = total[u]
            /\ done'[u] = done[u] /\ from'[u] = from[u] /\ result'[u] = result[u]
      /\ iov'[t] = <<>> /\ total'[t] = 0 /\ from'[t] = 0 /\ result'[t] = r
      /\ pc'[t] = "idle" /\ done'[t] = done[t]
  BY DEF Return, Goto, IoType, BudgetInv
<1>2. iov' \in [Thread -> Seq(0..MaxLen)]
  BY DEF Return, BudgetInv
<1>3. Room(iov[t]) \in Nat /\ Room(iov'[t]) = 0
  BY <1>1, RoomFacts DEF BudgetInv
<1>4. done[t] \in Int /\ done[t] >= 0 /\ done[t] + Room(iov[t]) <= MaxTotal
  BY DEF BudgetInv, IoType
<1>5. done'[t] + Room(iov'[t]) <= MaxTotal /\ done'[t] >= 0
  BY <1>1, <1>3, <1>4, ChunkBounds
<1>6. total'[t] + Room(iov'[t]) <= MaxTotal /\ total'[t] >= 0
  BY <1>1, <1>3, ChunkBounds
<1>7. from'[t] \in 0..MaxOffset
  BY <1>1, Sizes
<1> QED
  BY <1>1, <1>2, <1>5, <1>6, <1>7, BudgetFrame

(***************************************************************************)
(* The count of a call is within its bound.                                *)
(***************************************************************************)
LEMMA BudgetTotal ==
    ASSUME IoType, BudgetInv, NEW t \in Thread
    PROVE  total[t] \in 0..MaxTotal /\ done[t] \in 0..MaxTotal
<1>1. Room(iov[t]) \in Nat
  BY RoomFacts DEF BudgetInv
<1> QED
  BY <1>1, ChunkBounds DEF BudgetInv, IoType

(***************************************************************************)
(* Every step of a system call keeps the budgets.                          *)
(***************************************************************************)
LEMMA BudgetStep ==
    ASSUME IoType, IoType', CountInv, BudgetInv, NEW t \in Thread, Step(t)
    PROVE  BudgetInv'
<1> USE Sizes, ChunkBounds
<1>1. ASSUME NEW v \in Iovs, BeginIov(t, v) PROVE BudgetInv'
  <2>1. v \in Seq(0..MaxLen) /\ Len(v) \in 0..MaxVec
    <3>1. PICK n \in 0..MaxVec : v \in [1..n -> 0..MaxLen]
      BY DEF Iovs
    <3>2. n \in Nat /\ MaxVec \in Nat
      BY FileIoAssumption
    <3> QED
      BY <3>1, <3>2
  <2>2. /\ pc'[t] = "iov" /\ iov'[t] = v /\ total'[t] = 0 /\ done'[t] = 0
        /\ from'[t] = from[t] /\ result'[t] = result[t]
    BY <1>1 DEF BeginIov, Goto, IoType, BudgetInv, CountInv
  <2>3. Room(v) \in Nat /\ Room(v) <= MaxTotal
    BY <2>1, RoomFacts, FileIoAssumption
  <2>4. iov' \in [Thread -> Seq(0..MaxLen)]
    BY <1>1, <2>1 DEF BeginIov, BudgetInv
  <2>5. \A u \in Thread \ {t} :
            /\ pc'[u] = pc[u] /\ iov'[u] = iov[u] /\ total'[u] = total[u]
            /\ done'[u] = done[u] /\ from'[u] = from[u] /\ result'[u] = result[u]
    BY <1>1 DEF BeginIov, Goto, IoType, BudgetInv
  <2>6. from[t] \in 0..MaxOffset /\ result[t] \in {-EBADF} \cup 0..MaxTotal
    BY DEF BudgetInv
  <2>7. /\ total'[t] >= 0 /\ total'[t] + Room(iov'[t]) <= MaxTotal
        /\ done'[t] >= 0 /\ done'[t] + Room(iov'[t]) <= MaxTotal
    BY <2>2, <2>3
  <2> QED
    BY <2>2, <2>4, <2>5, <2>6, <2>7, BudgetFrame
<1>2. CASE IovStep(t)
  <2>1. PICK k \in Transferable(Head(iov[t])) :
            /\ total' = [total EXCEPT ![t] = AddTotal(t, k)]
            /\ done' = [done EXCEPT ![t] = @ + k]
            /\ iov' = [iov EXCEPT ![t] = Tail(@)]
    BY <1>2 DEF IovStep
  <2>2. iov[t] # <<>> /\ pc[t] = "iov" /\ UNCHANGED <<fd, pc, from, result>>
    BY <1>2 DEF IovStep
  <2>3. k \in Nat /\ k <= Chunk
    BY <2>2, NextBuffer, TransferFits
  <2>4. /\ total'[t] = total[t] + k /\ done'[t] = done[t] + k /\ iov'[t] = Tail(iov[t])
        /\ total[t] \in Int /\ done[t] \in Int
    BY <2>1 DEF AddTotal, IoType, BudgetInv
  <2>5. /\ total[t] >= 0 /\ total[t] + Room(iov[t]) <= MaxTotal
        /\ done[t] >= 0 /\ done[t] + Room(iov[t]) <= MaxTotal
        /\ from[t] \in 0..MaxOffset /\ result[t] \in {-EBADF} \cup 0..MaxTotal
    BY DEF BudgetInv
  <2>6. /\ total'[t] >= 0 /\ total'[t] + Room(iov'[t]) <= MaxTotal
        /\ done'[t] >= 0 /\ done'[t] + Room(iov'[t]) <= MaxTotal
    <3>1. /\ Room(iov[t]) = Room(Tail(iov[t])) + Chunk
          /\ Room(Tail(iov[t])) \in Nat
      BY <2>2, NextBuffer
    <3> QED
      BY <2>3, <2>4, <2>5, <3>1
  <2>7. iov' \in [Thread -> Seq(0..MaxLen)]
    BY <2>1, <2>2, NextBuffer DEF BudgetInv
  <2>8. \A u \in Thread \ {t} :
            /\ pc'[u] = pc[u] /\ iov'[u] = iov[u] /\ total'[u] = total[u]
            /\ done'[u] = done[u] /\ from'[u] = from[u] /\ result'[u] = result[u]
    BY <2>1, <2>2 DEF IoType, BudgetInv
  <2> QED
    BY <2>2, <2>5, <2>6, <2>7, <2>8, BudgetFrame
<1>3. CASE IovHostFails(t)
  <2>1. /\ total' = [total EXCEPT ![t] = AddTotal(t, Errno)]
        /\ iov' = [iov EXCEPT ![t] = Tail(@)]
        /\ iov[t] # <<>> /\ pc[t] = "iov" /\ UNCHANGED <<fd, pc, done, from, result>>
    BY <1>3, FileIoAssumption DEF IovHostFails, tuxerr
  <2>4. /\ total'[t] = total[t] + Errno /\ done'[t] = done[t] /\ iov'[t] = Tail(iov[t])
        /\ total[t] \in Int /\ done[t] \in Int
    BY <2>1 DEF AddTotal, IoType, BudgetInv
  <2>5. /\ total[t] >= 0 /\ total[t] + Room(iov[t]) <= MaxTotal
        /\ done[t] >= 0 /\ done[t] + Room(iov[t]) <= MaxTotal
        /\ from[t] \in 0..MaxOffset /\ result[t] \in {-EBADF} \cup 0..MaxTotal
    BY DEF BudgetInv
  <2>6. /\ total'[t] >= 0 /\ total'[t] + Room(iov'[t]) <= MaxTotal
        /\ done'[t] >= 0 /\ done'[t] + Room(iov'[t]) <= MaxTotal
    <3>1. /\ Room(iov[t]) = Room(Tail(iov[t])) + Chunk
          /\ Room(Tail(iov[t])) \in Nat
      BY <2>1, NextBuffer
    <3>2. Errno \in Nat
      BY FileIoAssumption
    <3> QED
      BY <2>4, <2>5, <3>1, <3>2
  <2>7. iov' \in [Thread -> Seq(0..MaxLen)]
    BY <2>1, NextBuffer DEF BudgetInv
  <2>8. \A u \in Thread \ {t} :
            /\ pc'[u] = pc[u] /\ iov'[u] = iov[u] /\ total'[u] = total[u]
            /\ done'[u] = done[u] /\ from'[u] = from[u] /\ result'[u] = result[u]
    BY <2>1 DEF IoType, BudgetInv
  <2> QED
    BY <2>1, <2>5, <2>6, <2>7, <2>8, BudgetFrame
<1>4. CASE IovBadFd(t)
  BY <1>4, BudgetReturn DEF IovBadFd
<1>5. CASE IovDone(t)
  BY <1>5, BudgetReturn, BudgetTotal DEF IovDone
<1>6. ASSUME NEW size \in 0..MaxLen, NEW offset \in Offsets, BeginPread(t, size, offset)
      PROVE  BudgetInv'
  <2>1. iov[t] = <<>> /\ total[t] = 0 /\ done'[t] = 0
    BY <1>6 DEF BeginPread, BudgetInv, CountInv, IoType
  <2>2. iov' = iov /\ fd' = fd /\ total' = total /\ from' = from /\ result' = result
    BY <1>6 DEF BeginPread
  <2>3. /\ total'[t] >= 0 /\ total'[t] + Room(iov'[t]) <= MaxTotal
        /\ done'[t] >= 0 /\ done'[t] + Room(iov'[t]) <= MaxTotal
    BY <2>1, <2>2, RoomFacts
  <2>4. /\ iov' \in [Thread -> Seq(0..MaxLen)]
        /\ iov'[t] = <<>> /\ from'[t] \in 0..MaxOffset
        /\ result'[t] \in {-EBADF} \cup 0..MaxTotal
    BY <2>1, <2>2 DEF BudgetInv
  <2>5. \A u \in Thread \ {t} :
            /\ pc'[u] = pc[u] /\ iov'[u] = iov[u] /\ total'[u] = total[u]
            /\ done'[u] = done[u] /\ from'[u] = from[u] /\ result'[u] = result[u]
    BY <1>6, <2>2 DEF BeginPread, Goto, IoType
  <2> QED
    BY <2>3, <2>4, <2>5, BudgetFrame
<1>7. CASE PreadSave(t) \/ PreadSeek(t)
  <2>1. UNCHANGED <<fd, iov, total, done, from, result>>
    BY <1>7 DEF PreadSave, PreadSeek
  <2>2. \A u \in Thread : pc'[u] \notin {"iov", "aborted"} => pc[u] \notin {"iov", "aborted"}
    BY <1>7 DEF PreadSave, PreadSeek, Goto, IoType
  <2> QED
    BY <2>1, <2>2 DEF BudgetInv
<1>8. ASSUME NEW n \in 0..Chunk, NEW m \in 0..MaxTotal, pc[t] = "read",
             total' = [total EXCEPT ![t] = n], done' = [done EXCEPT ![t] = m],
             from' = [from EXCEPT ![t] = off], Goto(t, "restore"),
             UNCHANGED <<fd, iov, result>>
      PROVE  BudgetInv'
  <2>1. /\ iov[t] = <<>> /\ iov'[t] = <<>> /\ total'[t] = n /\ done'[t] = m
        /\ from'[t] \in 0..MaxOffset
        /\ result'[t] \in {-EBADF} \cup 0..MaxTotal
    BY <1>8 DEF BudgetInv, IoType
  <2>2. /\ total'[t] >= 0 /\ total'[t] + Room(iov'[t]) <= MaxTotal
        /\ done'[t] >= 0 /\ done'[t] + Room(iov'[t]) <= MaxTotal
    BY <2>1, RoomFacts
  <2>3. \A u \in Thread \ {t} :
            /\ pc'[u] = pc[u] /\ iov'[u] = iov[u] /\ total'[u] = total[u]
            /\ done'[u] = done[u] /\ from'[u] = from[u] /\ result'[u] = result[u]
    BY <1>8 DEF IoType, BudgetInv, Goto
  <2>4. iov' \in [Thread -> Seq(0..MaxLen)]
    BY <1>8 DEF BudgetInv
  <2> QED
    BY <2>1, <2>2, <2>3, <2>4, BudgetFrame
<1>9. CASE PreadRead(t)
  <2>1. PICK k \in Transferable(arg[t].size) :
            /\ total' = [total EXCEPT ![t] = k]
            /\ done' = [done EXCEPT ![t] = k]
    BY <1>9 DEF PreadRead
  <2>2. arg[t].size \in 0..MaxLen
    BY DEF IoType
  <2>3. k \in 0..Chunk /\ k \in 0..MaxTotal
    BY <2>2, TransferFits
  <2> QED
    BY <1>8, <1>9, <2>1, <2>3 DEF PreadRead
<1>10. CASE PreadReadFails(t)
  <2>1. tuxerr(Errno) = Errno /\ Errno \in 0..Chunk
    BY FileIoAssumption DEF tuxerr
  <2>2. done[t] \in 0..MaxTotal
    BY BudgetTotal
  <2>3. done' = [done EXCEPT ![t] = done[t]]
    BY <1>10 DEF PreadReadFails, IoType
  <2> QED
    BY <1>8, <1>10, <2>1, <2>2, <2>3 DEF PreadReadFails
<1>11. CASE PreadRestore(t)
  BY <1>11, BudgetReturn, BudgetTotal DEF PreadRestore
<1>12. ASSUME NEW whence, NEW o \in Offsets, Lseek(t, whence, o) PROVE BudgetInv'
  BY <1>12 DEF Lseek, BudgetInv
<1>13. CASE Refused(t) \/ Close(t) \/ LseekAborts(t)
  BY <1>13 DEF Refused, Close, LseekAborts, BudgetInv
<1> QED
  BY <1>1, <1>2, <1>3, <1>4, <1>5, <1>6, <1>7, <1>9, <1>10, <1>11, <1>12, <1>13 DEF Step

(***************************************************************************)
(* With SerialPread, every step keeps the bytes and the offsets in order.  *)
(***************************************************************************)
LEMMA SerialStep ==
    ASSUME SerialPread, IoType, IoType', SerialInv,
           NEW t \in Thread, Step(t), UNCHANGED seekable
    PROVE  SerialInv'
<1> USE Sizes DEF IoType, Labels, Goto, InPread, PreadAlone, AtInv, Displaced, MayStart
<1>1. PreadAlone'
  <2>1. ASSUME NEW v \in Iovs, BeginIov(t, v) PROVE PreadAlone'
    BY <2>1 DEF BeginIov, SerialInv
  <2>2. CASE UNCHANGED pc
    BY <2>2 DEF SerialInv
  <2>3. CASE Goto(t, "idle")
    BY <2>3 DEF SerialInv
  <2>4. ASSUME NEW size \in 0..MaxLen, NEW offset \in Offsets, BeginPread(t, size, offset)
        PROVE  PreadAlone'
    BY <2>4 DEF BeginPread, SerialInv
  <2>5. ASSUME NEW l \in {"seek", "read", "restore"}, InPread(t), Goto(t, l)
        PROVE  PreadAlone'
    BY <2>5 DEF SerialInv
  <2>6. CASE PreadSave(t) \/ PreadSeek(t) \/ PreadRead(t) \/ PreadReadFails(t)
    BY <2>5, <2>6 DEF PreadSave, PreadSeek, PreadRead, PreadReadFails
  <2>7. CASE LseekAborts(t)
    BY <2>7 DEF LseekAborts
  <2> QED
    BY <2>1, <2>2, <2>3, <2>4, <2>6, <2>7 DEF Step, IovStep, IovHostFails, IovBadFd, IovDone,
        PreadRestore, Lseek, Refused, Close, Return
<1>4. PreadOpen'
  <2>1. CASE Close(t) \/ LseekAborts(t)
    <3>1. \A u \in Thread : ~InPread(u)'
      BY <2>1 DEF Close, LseekAborts
    <3> QED
      BY <3>1 DEF PreadOpen
  <2>2. ASSUME NEW size \in 0..MaxLen, NEW offset \in Offsets, BeginPread(t, size, offset)
        PROVE  PreadOpen'
    BY <2>2 DEF BeginPread, PreadOpen
  <2>3. CASE PreadSave(t) \/ PreadSeek(t) \/ PreadRead(t) \/ PreadReadFails(t)
    <3>1. InPread(t) /\ fd' = fd
      BY <2>3 DEF PreadSave, PreadSeek, PreadRead, PreadReadFails
    <3> QED
      BY <3>1 DEF SerialInv, PreadOpen
  <2>4. ASSUME fd' = fd, \A u \in Thread : InPread(u)' => InPread(u) PROVE PreadOpen'
    BY <2>4 DEF SerialInv, PreadOpen
  <2>5. ASSUME UNCHANGED <<fd, pc>> \/ (fd' = fd /\ (Goto(t, "idle") \/ Goto(t, "iov")))
        PROVE  PreadOpen'
    BY <2>4, <2>5
  <2>6. ASSUME NEW v \in Iovs, BeginIov(t, v) PROVE PreadOpen'
    BY <2>5, <2>6 DEF BeginIov
  <2>7. ASSUME NEW whence, NEW o \in Offsets, Lseek(t, whence, o) PROVE PreadOpen'
    BY <2>5, <2>7 DEF Lseek
  <2> QED
    BY <2>1, <2>2, <2>3, <2>5, <2>6, <2>7 DEF Step, IovStep, IovHostFails, IovBadFd, IovDone,
        PreadRestore, Refused, Return
<1>2. AtInv'
  <2>1. ASSUME NEW v \in Iovs, BeginIov(t, v) PROVE AtInv'
    BY <2>1 DEF BeginIov, SerialInv
  <2>2. CASE IovStep(t) \/ IovHostFails(t)
    <3>1. \A u \in Thread : ~InPread(u) /\ pc'[u] = pc[u]
      BY <2>2 DEF IovStep, IovHostFails, SerialInv
    <3>2. \A u \in Thread : pc'[u] \notin {"read", "restore"}
      BY <3>1
    <3> QED
      BY <3>2
  <2>3. CASE IovBadFd(t) \/ IovDone(t)
    <3>1. \A u \in Thread : ~InPread(u)
      BY <2>3 DEF IovBadFd, IovDone, SerialInv
    <3>2. Goto(t, "idle")
      BY <2>3 DEF IovBadFd, IovDone, Return
    <3>3. \A u \in Thread : pc'[u] \notin {"read", "restore"}
      BY <3>1, <3>2
    <3> QED
      BY <3>3
  <2>4. ASSUME NEW size \in 0..MaxLen, NEW offset \in Offsets, BeginPread(t, size, offset)
        PROVE  AtInv'
    BY <2>4 DEF BeginPread, SerialInv
  <2>5. CASE PreadSave(t)
    BY <2>5 DEF PreadSave, SerialInv
  <2>6. CASE PreadSeek(t)
    BY <2>6 DEF PreadSeek, host_seek, SeekTo, Position, SerialInv, PreadOpen
  <2>7. CASE PreadRead(t)
    BY <2>7 DEF PreadRead, SerialInv
  <2>8. CASE PreadReadFails(t)
    BY <2>8 DEF PreadReadFails, SerialInv
  <2>9. CASE PreadRestore(t)
    <3>1. \A u \in Thread : pc'[u] \notin {"read", "restore"}
      BY <2>9, SMTT(30) DEF PreadRestore, Return, SerialInv
    <3> QED
      BY <3>1
  <2>10. ASSUME NEW whence, NEW o \in Offsets, Lseek(t, whence, o) PROVE AtInv'
    BY <2>10 DEF Lseek, SerialInv
  <2>11. CASE Refused(t) \/ Close(t) \/ LseekAborts(t)
    BY <2>11 DEF Refused, Close, LseekAborts, SerialInv
  <2> QED
    BY <2>1, <2>2, <2>3, <2>4, <2>5, <2>6, <2>7, <2>8, <2>9, <2>10, <2>11 DEF Step
<1>3. StreamInv'
  <2>1. ASSUME UNCHANGED <<off, moved, orig, seekable>>,
               \A u \in Thread : Displaced(u)' <=> Displaced(u)
        PROVE  StreamInv'
    BY <2>1 DEF SerialInv, StreamInv, TakenTo
  <2>2. ASSUME NEW v \in Iovs, BeginIov(t, v) PROVE StreamInv'
    BY <2>1, <2>2 DEF BeginIov
  <2>3. CASE IovStep(t)
    <3>1. PICK k \in Transferable(Head(iov[t])) : host_transfer(k)
      BY <2>3 DEF IovStep
    <3>2. k \in Nat
      BY TransferBound
    <3>3. \A u \in Thread : ~Displaced(u)
      <4>1. \A u \in Thread : ~InPread(u)
        BY <2>3 DEF IovStep, SerialInv
      <4> QED
        BY <4>1
    <3>4. TakenTo(off)'
      BY <3>1, <3>2, <3>3, TransferExact DEF SerialInv, StreamInv
    <3>5. \A u \in Thread : ~Displaced(u)'
      BY <2>3, <3>3 DEF IovStep
    <3> QED
      BY <3>4, <3>5 DEF StreamInv
  <2>4. CASE IovHostFails(t)
    BY <2>1, <2>4 DEF IovHostFails
  <2>5. CASE IovBadFd(t) \/ IovDone(t)
    <3>1. \A u \in Thread : ~Displaced(u)
      <4>1. \A u \in Thread : ~InPread(u)
        BY <2>5 DEF IovBadFd, IovDone, SerialInv
      <4> QED
        BY <4>1
    <3>2. \A u \in Thread : ~Displaced(u)'
      <4>1. Goto(t, "idle")
        BY <2>5 DEF IovBadFd, IovDone, Return
      <4> QED
        BY <3>1, <4>1
    <3>3. UNCHANGED <<off, moved>>
      BY <2>5 DEF IovBadFd, IovDone
    <3> QED
      BY <3>1, <3>2, <3>3 DEF SerialInv, StreamInv, TakenTo
  <2>6. ASSUME NEW size \in 0..MaxLen, NEW offset \in Offsets, BeginPread(t, size, offset)
        PROVE  StreamInv'
    BY <2>1, <2>6 DEF BeginPread
  <2>7. CASE PreadSave(t)
    <3>1. \A u \in Thread : ~Displaced(u)
      BY <2>7 DEF PreadSave, SerialInv
    <3>2. TakenTo(off) /\ UNCHANGED <<off, moved>>
      BY <2>7, <3>1 DEF PreadSave, SerialInv, StreamInv
    <3>3. \A u \in Thread : Displaced(u)' => orig'[u] = off
      BY <2>7, <3>1 DEF PreadSave, SerialInv, PreadOpen
    <3> QED
      BY <3>2, <3>3 DEF StreamInv, TakenTo
  <2>8. CASE PreadSeek(t)
    <3>1. \A u \in Thread : Displaced(u)' <=> Displaced(u)
      BY <2>8 DEF PreadSeek
    <3>2. UNCHANGED <<orig, moved>> /\ (~Displaced(t) => off' = off)
      BY <2>8 DEF PreadSeek, host_seek, SeekTo
    <3> QED
      BY <3>1, <3>2 DEF SerialInv, StreamInv, TakenTo
  <2>9. CASE PreadRead(t)
    <3>1. PICK k \in Transferable(arg[t].size) :
              IF seekable THEN off' = off + k /\ UNCHANGED moved ELSE host_transfer(k)
      BY <2>9 DEF PreadRead
    <3>2. k \in Nat
      BY TransferBound
    <3>3. \A u \in Thread : Displaced(u)' <=> Displaced(u)
      BY <2>9 DEF PreadRead
    <3>4. CASE seekable
      BY <2>9, <3>1, <3>3, <3>4 DEF PreadRead, SerialInv, StreamInv, TakenTo
    <3>5. CASE ~seekable
      <4>1. TakenTo(off)'
        BY <3>1, <3>2, <3>5, TransferExact DEF SerialInv, StreamInv
      <4> QED
        BY <3>3, <3>5, <4>1 DEF StreamInv
    <3> QED
      BY <3>4, <3>5
  <2>10. CASE PreadReadFails(t)
    BY <2>1, <2>10 DEF PreadReadFails
  <2>11. CASE PreadRestore(t)
    <3>1. \A u \in Thread : ~Displaced(u)'
      BY <2>11 DEF PreadRestore, Return, SerialInv
    <3>2. IF seekable THEN off' = orig[t] ELSE off' = off
      BY <2>11 DEF PreadRestore, host_seek, SeekTo, Position, SerialInv, PreadOpen
    <3>3. TakenTo(off) \/ seekable
      BY DEF SerialInv, StreamInv
    <3>4. seekable => TakenTo(orig[t])
      BY <2>11 DEF PreadRestore, SerialInv, StreamInv
    <3>5. UNCHANGED moved
      BY <2>11 DEF PreadRestore
    <3> QED
      BY <3>1, <3>2, <3>3, <3>4, <3>5 DEF StreamInv, TakenTo
  <2>12. ASSUME NEW whence, NEW o \in Offsets, Lseek(t, whence, o) PROVE StreamInv'
    <3>1. \A u \in Thread : ~Displaced(u)'
      BY <2>12 DEF Lseek
    <3>2. TakenTo(off)'
      BY <2>12 DEF Lseek, host_seek, SeekTo, TakenTo
    <3> QED
      BY <3>1, <3>2 DEF StreamInv
  <2>13. CASE Refused(t) \/ Close(t)
    BY <2>1, <2>13 DEF Refused, Close
  <2>14. CASE LseekAborts(t)
    <3>1. \A u \in Thread : ~Displaced(u) /\ ~Displaced(u)'
      BY <2>14 DEF LseekAborts
    <3> QED
      BY <2>1, <2>14, <3>1 DEF LseekAborts
  <2> QED
    BY <2>2, <2>3, <2>4, <2>5, <2>6, <2>7, <2>8, <2>9, <2>10, <2>11, <2>12, <2>13, <2>14
    DEF Step
<1> QED
  BY <1>1, <1>2, <1>3, <1>4 DEF SerialInv

-----------------------------------------------------------------------------
(***************************************************************************)
(* The call of sys_readv, sys_writev or sys_pread64 that returns a count,  *)
(* and in which no host call failed, transferred exactly so many bytes,    *)
(* whatever the other threads do with the file meanwhile.                  *)
(***************************************************************************)
THEOREM CountsReportedHolds == Spec => []CountsReported
<1>1. Init => IoType /\ CountInv
  BY Sizes DEF Init, IoType, CountInv, Labels, Byte
<1>2. IoType /\ CountInv /\ [Next]_vars => IoType' /\ CountInv'
  <2>1. SUFFICES ASSUME IoType, CountInv, [Next]_vars
                 PROVE  IoType' /\ CountInv'
    OBVIOUS
  <2>2. CASE UNCHANGED vars
    BY <2>1, <2>2 DEF vars, IoType, CountInv
  <2>3. ASSUME NEW t \in Thread, Step(t), UNCHANGED seekable
        PROVE  IoType' /\ CountInv'
    BY <2>1, <2>3, TypeStep, CountStep
  <2>4. QED
    BY <2>1, <2>2, <2>3 DEF Next
<1>3. CountInv => CountsReported
  BY DEF CountInv, CountsReported
<1>4. QED
  BY <1>1, <1>2, <1>3, PTL DEF Spec

(***************************************************************************)
(* Every call keeps the types: the count that sys_readv, sys_writev or     *)
(* sys_pread64 builds up, failed host calls included, stays within what    *)
(* its buffers allow, and the host's offset within the file.               *)
(***************************************************************************)
THEOREM TypeCorrect == Spec => []TypeOK
<1>1. Init => IoType /\ CountInv /\ BudgetInv
  <2>1. ASSUME Init PROVE IoType /\ CountInv
    BY <2>1, Sizes DEF Init, IoType, CountInv, Labels, Byte
  <2>2. ASSUME Init PROVE BudgetInv
    <3>1. Room(<<>>) = 0 /\ <<>> \in Seq(0..MaxLen)
      BY RoomFacts, EmptySeq
    <3> QED
      BY <2>2, <3>1, Sizes, ChunkBounds DEF Init, BudgetInv
  <2> QED
    BY <2>1, <2>2
<1>2. IoType /\ CountInv /\ BudgetInv /\ [Next]_vars => IoType' /\ CountInv' /\ BudgetInv'
  <2>1. SUFFICES ASSUME IoType, CountInv, BudgetInv, [Next]_vars
                 PROVE  IoType' /\ CountInv' /\ BudgetInv'
    OBVIOUS
  <2>2. CASE UNCHANGED vars
    BY <2>1, <2>2 DEF vars, IoType, CountInv, BudgetInv
  <2>3. ASSUME NEW t \in Thread, Step(t), UNCHANGED seekable
        PROVE  IoType' /\ CountInv' /\ BudgetInv'
    BY <2>1, <2>3, TypeStep, CountStep, BudgetStep
  <2>4. QED
    BY <2>1, <2>2, <2>3 DEF Next
<1>3. IoType /\ BudgetInv => TypeOK
  <2> SUFFICES ASSUME IoType, BudgetInv PROVE TypeOK
    OBVIOUS
  <2>1. \A t \in Thread : total[t] \in 0..MaxTotal /\ done[t] \in 0..MaxTotal
    BY BudgetTotal
  <2>2. total \in [Thread -> 0..MaxTotal] /\ done \in [Thread -> 0..MaxTotal]
    BY <2>1 DEF IoType
  <2>3. from \in [Thread -> 0..MaxOffset] /\ result \in [Thread -> {-EBADF} \cup 0..MaxTotal]
    BY DEF IoType, BudgetInv
  <2> QED
    BY <2>2, <2>3 DEF IoType, BudgetInv, TypeOK, Labels
<1>4. QED
  BY <1>1, <1>2, <1>3, PTL DEF Spec

(***************************************************************************)
(* If pread64 overlaps no other call on the file, the bytes transferred at *)
(* the file's offset are those before it, each once.                       *)
(***************************************************************************)
LEMMA SerialHolds == SerialPread /\ Spec => [](IoType /\ SerialInv)
<1> SUFFICES ASSUME SerialPread PROVE Spec => [](IoType /\ SerialInv)
  OBVIOUS
<1>1. Init => IoType /\ SerialInv
  BY Sizes DEF Init, IoType, SerialInv, PreadAlone, PreadOpen, StreamInv, AtInv, InPread,
      Displaced, TakenTo, Labels, Byte
<1>2. IoType /\ SerialInv /\ [Next]_vars => IoType' /\ SerialInv'
  <2>1. SUFFICES ASSUME IoType, SerialInv, [Next]_vars
                 PROVE  IoType' /\ SerialInv'
    OBVIOUS
  <2>2. CASE UNCHANGED vars
    BY <2>1, <2>2 DEF vars, IoType, SerialInv, PreadAlone, PreadOpen, StreamInv, AtInv, InPread,
        Displaced, TakenTo
  <2>3. ASSUME NEW t \in Thread, Step(t), UNCHANGED seekable
        PROVE  IoType' /\ SerialInv'
    BY <2>1, <2>3, TypeStep, SerialStep
  <2>4. QED
    BY <2>1, <2>2, <2>3 DEF Next
<1>3. QED
  BY <1>1, <1>2, PTL DEF Spec

(***************************************************************************)
(* The threads of a program whose pread64 calls overlap no other call on   *)
(* the file share out its bytes: sys_pread64 leaves the offset as it was.  *)
(***************************************************************************)
THEOREM StreamExactHolds == SerialPread /\ Spec => []StreamExact
<1>1. SerialInv => StreamExact
  BY DEF SerialInv, StreamInv, StreamExact, TakenTo, Displaced, InPread
<1>2. QED
  BY <1>1, SerialHolds, PTL

(***************************************************************************)
(* In such a program sys_pread64 reads at the offset that it was given.    *)
(***************************************************************************)
THEOREM PreadPositionalHolds == SerialPread /\ Spec => []PreadPositional
<1>1. SerialInv => PreadPositional
  BY DEF SerialInv, AtInv, PreadPositional
<1>2. QED
  BY <1>1, SerialHolds, PTL

=============================================================================
