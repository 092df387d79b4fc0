--------------------------- MODULE FdFilesProofs ---------------------------
(***************************************************************************)
(* Proofs about FdFiles, for any number of threads, files and descriptors. *)
(***************************************************************************)
EXTENDS FdFiles, TLAPS

CwdLabel == {"take", "release", "close", "ref", "set"}

(***************************************************************************)
(* Which locals are set where in a system call.                            *)
(***************************************************************************)
Shape ==
    \A t \in Thread :
       /\ pc[t] = "idle" <=> call[t] = "none"
       /\ pc[t] \in {"fdalloc", "fdassign"} <=> (call[t] = "openat" /\ newf[t] # NULL)
       /\ newf[t] # NULL => call[t] \in {"openat", "chdir"}
       /\ pc[t] \in {"use", "isdir"} => obj[t] # NULL
       /\ obj[t] # NULL => pc[t] \in {"use", "isdir"} \/ call[t] = "fchdir"
       /\ call[t] = "fchdir" => obj[t] # NULL /\ pc[t] \in CwdLabel \cup {"use"}
       /\ call[t] = "chdir" => obj[t] = NULL /\ pc[t] \in CwdLabel \cup {"path"}
       /\ pc[t] \in CwdLabel => call[t] \in CwdCall
       /\ pc[t] = "ref" => call[t] = "fchdir"
       /\ pc[t] = "use" => call[t] \in {"fdop", "fchdir"}
       /\ pc[t] \in {"release", "close"} => old[t] # NULL
       /\ dirs[t] # {} => pc[t] \in {"isdir", "dir2", "path"}
       /\ newf[t] # NULL => pc[t] # "path"

(***************************************************************************)
(* SerialCwd as it is seen in a state: a call that changes the current     *)
(* directory runs alone.                                                   *)
(***************************************************************************)
CwdAlone ==
    \A t \in Thread : call[t] \in CwdCall =>
       \A u \in Thread \ {t} : call[u] = "none"

Held(f) == One(cwdfd = f) + One(CwdPending(f)) + One(f \in Std)

(***************************************************************************)
(* A file in the table has one descriptor and one count for it; a file     *)
(* that was overwritten by fdassign keeps that count for ever.             *)
(***************************************************************************)
Counted(f) == fdfile[f] = "live" /\ host[f] = "open" /\ refs[f] = Held(f) + 1

TableInv ==
    /\ \A i, j \in FD : files[i] # NULL /\ files[i] = files[j] => i = j
    /\ \A fd \in FD : files[fd] # NULL => Counted(files[fd])

HeldInv ==
    \A f \in File : Held(f) > 0 =>
       /\ fdfile[f] = "live" /\ host[f] = "open"
       /\ refs[f] \in {Held(f), Held(f) + 1}

UnusedInv ==
    \A f \in File : host[f] = "unused" =>
       /\ fdfile[f] = "none" /\ refs[f] = 0
       /\ ~InTable(f) /\ f \notin Std /\ cwdfd # f /\ cwdfile # f
       /\ \A t \in Thread : newf[t] # f /\ obj[t] # f /\ f \notin dirs[t]

(***************************************************************************)
(* A file being opened is known to nobody but the call that opens it.      *)
(***************************************************************************)
NewInv ==
    \A t \in Thread : newf[t] # NULL =>
       /\ host[newf[t]] = "open"
       /\ fdfile[newf[t]] = IF call[t] = "openat" THEN "live" ELSE "none"
       /\ refs[newf[t]] = 0
       /\ ~InTable(newf[t]) /\ newf[t] \notin Std
       /\ cwdfd # newf[t] /\ cwdfile # newf[t]
       /\ \A u \in Thread : obj[u] # newf[t] /\ newf[t] \notin dirs[u]
       /\ \A u \in Thread \ {t} : newf[u] # newf[t]

(***************************************************************************)
(* The current directory: either an FDFile of the table's, or a host       *)
(* directory of its own.                                                   *)
(***************************************************************************)
CwdInv ==
    /\ cwdfd # NULL => cwdfile = cwdfd /\ ~CwdVacant
    /\ cwdfd = NULL /\ cwdfile # NULL /\ ~CwdVacant =>
          /\ host[cwdfile] = "open" /\ fdfile[cwdfile] = "none"
          /\ ~InTable(cwdfile) /\ cwdfile \notin Std
    /\ \A t \in Thread :
          /\ pc[t] = "release" => cwdfd # NULL /\ old[t] = cwdfd
          /\ pc[t] = "close" => cwdfd = NULL /\ old[t] = cwdfile
          /\ call[t] = "fchdir" => InTable(obj[t])

IInv == TypeOK /\ Shape /\ CwdAlone /\ TableInv /\ HeldInv /\ UnusedInv /\ NewInv /\ CwdInv

(***************************************************************************)
(* With QuietCloses, what a call holds keeps the table's count.            *)
(***************************************************************************)
UseInv ==
    \A t \in Thread :
       /\ obj[t] # NULL => Counted(obj[t])
       /\ \A d \in dirs[t] : Counted(d) \/ (d = cwdfile /\ ~CwdVacant)

(***************************************************************************)
(* With SerialOpens, fdassign finds its slot still free.                   *)
(***************************************************************************)
SlotInv ==
    /\ \A t, u \in Thread : call[t] = "openat" /\ call[u] = "openat" => t = u
    /\ \A t \in Thread : pc[t] = "fdassign" => files[slot[t]] = NULL

-----------------------------------------------------------------------------
(***************************************************************************)
(* Inc and Dec, the refs++ and refs-- of fd.c, stay within a size_t.       *)
(***************************************************************************)
LEMMA CountType ==
    \A n \in 0..SIZE_MAX : Inc(n) \in 0..SIZE_MAX /\ Dec(n) \in 0..SIZE_MAX
BY ConstantsAssumption DEF Inc, Dec

(***************************************************************************)
(* What the proofs use of the constants: the table has the three           *)
(* descriptors that fdinit assigns, and the standard files are files.      *)
(***************************************************************************)
LEMMA ConstantFacts ==
    /\ 0 \in FD /\ 1 \in FD /\ 2 \in FD
    /\ NULL \notin File
    /\ Std \subseteq File
BY ConstantsAssumption DEF FD, Std

(***************************************************************************)
(* A call that returns with the process untouched keeps the types.         *)
(***************************************************************************)
LEMMA ReturnType ==
    ASSUME TypeOK, Shape, NEW t \in Thread, Return(t), UNCHANGED process
    PROVE  TypeOK' /\ Shape'
<1>1. TypeOK'
  BY ConstantFacts DEF TypeOK, Return, Begin, process, MaybeFile, Call, LookupCall,
      CwdCall, Label, CwdLabel
<1>2. Shape'
  BY ConstantFacts DEF TypeOK, Shape, Return, Begin, CwdLabel, CwdCall
<1>3. QED
  BY <1>1, <1>2

(***************************************************************************)
(* Every step of a system call keeps the types.                            *)
(***************************************************************************)
LEMMA TypeStep ==
    ASSUME TypeOK, Shape, NEW t \in Thread, Step(t)
    PROVE  TypeOK' /\ Shape'
<1> USE CountType, ConstantFacts DEF TypeOK, Shape, process, locals, vars, MaybeFile, CwdLabel,
        CwdCall, LookupCall, Call, Label, Begin
<1>1. ASSUME NEW fd \in FD, NEW c \in {"fdop", "fchdir"}, BeginFdCall(t, fd,
    c)
       PROVE  TypeOK' /\ Shape'
  BY <1>1 DEF BeginFdCall, fdhas
<1>2. ASSUME NEW fd \in AnyFd, BadFd(t, fd)
       PROVE  TypeOK' /\ Shape'
  BY <1>2 DEF BadFd
<1>3. ASSUME UseFd(t)
       PROVE  TypeOK' /\ Shape'
  BY <1>3 DEF UseFd, Return
<1>4. ASSUME NEW fd \in FD, Close(t, fd)
       PROVE  TypeOK' /\ Shape'
  BY <1>4 DEF Close, fdhas, fdrelease
<1>5. ASSUME NEW c \in Call, LookupCwd(t, c)
       PROVE  TypeOK' /\ Shape'
  BY <1>5 DEF LookupCwd, BeginLookup, Resolve
<1>6. ASSUME NEW c \in Call, NEW fd \in FD, LookupFd(t, c, fd)
       PROVE  TypeOK' /\ Shape'
  BY <1>6 DEF LookupFd, BeginLookup, fdhas
<1>7. ASSUME NEW c \in Call, NEW fd \in AnyFd, LookupBadFd(t, c, fd)
       PROVE  TypeOK' /\ Shape'
  BY <1>7, SMTT(30) DEF LookupBadFd, BeginLookup, Unresolved, Return
<1>8. ASSUME IsDir(t)
       PROVE  TypeOK' /\ Shape'
  <2>1. CASE Resolve(t, call[t], {obj[t]})
    <3>1. TypeOK'
      BY <1>8, <2>1 DEF IsDir, Resolve
    <3>2. Shape'
      BY <1>8, <2>1 DEF IsDir, Resolve
    <3>3. QED
      BY <3>1, <3>2
  <2>2. CASE call[t] = "renameat" /\ Unresolved(t, call[t])
    <3>1. TypeOK'
      BY <1>8, <2>2 DEF IsDir, Unresolved
    <3>2. Shape'
      BY <1>8, <2>2 DEF IsDir, Unresolved
    <3>3. QED
      BY <3>1, <3>2
  <2>3. CASE Return(t)
    BY <1>8, <2>3, ReturnType DEF IsDir
  <2>4. QED
    BY <1>8, <2>1, <2>2, <2>3 DEF IsDir, Unresolved
<1>9. ASSUME PathReturn(t)
       PROVE  TypeOK' /\ Shape'
  BY <1>9, ReturnType DEF PathReturn
<1>10. ASSUME NEW f \in File, OpenHost(t, f)
       PROVE  TypeOK' /\ Shape'
  BY <1>10 DEF OpenHost, Goto
<1>11. ASSUME NEW f \in File, OpenNoMem(t, f)
       PROVE  TypeOK' /\ Shape'
  BY <1>11 DEF OpenNoMem, Return
<1>12. ASSUME NEW fd \in 0..NOFILE, Fdalloc(t, fd)
       PROVE  TypeOK' /\ Shape'
  BY <1>12 DEF Fdalloc, Goto, LowestFree
<1>13. ASSUME Emfile(t)
       PROVE  TypeOK' /\ Shape'
  BY <1>13 DEF Emfile, fdrelease, Return
<1>14. ASSUME Fdassign(t)
       PROVE  TypeOK' /\ Shape'
  BY <1>14 DEF Fdassign, Return
<1>15. ASSUME BeginChdir(t)
       PROVE  TypeOK' /\ Shape'
  BY <1>15 DEF BeginChdir
<1>16. ASSUME NEW f \in File, OpenDir(t, f)
       PROVE  TypeOK' /\ Shape'
  BY <1>16 DEF OpenDir, Goto
<1>17. ASSUME OpenDirFails(t)
       PROVE  TypeOK' /\ Shape'
  BY <1>17 DEF OpenDirFails, Goto
<1>18. ASSUME CheckDir(t)
       PROVE  TypeOK' /\ Shape'
  <2>1. CASE Return(t)
    BY <1>18, <2>1, ReturnType DEF CheckDir
  <2>2. CASE Goto(t, "take") /\ UNCHANGED <<obj, dirs, newf, slot, old>>
    <3>1. TypeOK'
      BY <1>18, <2>2 DEF CheckDir, Goto
    <3>2. Shape'
      BY <1>18, <2>2 DEF CheckDir, Goto
    <3>3. QED
      BY <3>1, <3>2
  <2>3. QED
    BY <1>18, <2>1, <2>2 DEF CheckDir
<1>19. ASSUME CwdTake(t)
       PROVE  TypeOK' /\ Shape'
  BY <1>19, SMTT(30) DEF CwdTake, Goto, AfterDrop
<1>20. ASSUME CwdRelease(t)
       PROVE  TypeOK' /\ Shape'
  BY <1>20 DEF CwdRelease, Goto, AfterDrop, fdrelease
<1>21. ASSUME CwdClose(t)
       PROVE  TypeOK' /\ Shape'
  BY <1>21 DEF CwdClose, Goto, AfterDrop
<1>22. ASSUME CwdRef(t)
       PROVE  TypeOK' /\ Shape'
  BY <1>22 DEF CwdRef, Goto
<1>23. ASSUME CwdSet(t)
       PROVE  TypeOK' /\ Shape'
  BY <1>23 DEF CwdSet, Return
<1> HIDE CountType, ConstantFacts DEF TypeOK, Shape, process, locals, vars,
        MaybeFile, CwdLabel, CwdCall, LookupCall, Call, Label, Begin
<1>24. QED
  BY <1>1, <1>2, <1>3, <1>4, <1>5, <1>6, <1>7, <1>8, <1>9, <1>10, <1>11,
      <1>12, <1>13, <1>14, <1>15, <1>16, <1>17, <1>18, <1>19, <1>20, <1>21,
      <1>22, <1>23
  DEF Step


(***************************************************************************)
(* A step that leaves the process alone, and starts or ends no fchdir      *)
(* between its count and its store, keeps the counts right.                *)
(***************************************************************************)
LEMMA CountsFrame ==
    ASSUME IInv, UNCHANGED process,
           \A f \in File : CwdPending(f)' <=> CwdPending(f)
    PROVE  /\ \A f \in File : Counted(f)' <=> Counted(f)
           /\ TableInv' /\ HeldInv'
<1>1. \A f \in File : Held(f)' = Held(f)
  BY DEF Held, One, process
<1>2. \A f \in File : Counted(f)' <=> Counted(f)
  BY <1>1 DEF Counted, process
<1>3. \A fd \in FD : files[fd] # NULL => files[fd] \in File
  BY DEF IInv, TypeOK, MaybeFile
<1>4. QED
  BY <1>1, <1>2, <1>3 DEF IInv, TableInv, HeldInv, process

(***************************************************************************)
(* Every step keeps the inductive invariant when calls that change the     *)
(* current directory run alone: one step of the proof per action of the    *)
(* code, and under it one per conjunct that the action disturbs.           *)
(***************************************************************************)
LEMMA IInvStep ==
    ASSUME SerialCwd, IInv, TypeOK', Shape', NEW t \in Thread, Step(t)
    PROVE  IInv'
<1> USE ConstantFacts DEF IInv, TypeOK, Shape, process, locals, vars, MaybeFile,
        CwdLabel, CwdCall, LookupCall, Call, Begin, CwdAlone, UnusedInv, NewInv,
        CwdInv, InTable, CwdPending, CwdVacant
<1>1. ASSUME NEW fd \in FD, NEW c \in {"fdop", "fchdir"}, BeginFdCall(t, fd,
    c)
       PROVE  IInv'
  <2>1. CwdAlone'
    BY <1>1 DEF BeginFdCall, fdhas, MayStart
  <2>2. \A f \in File : CwdPending(f)' <=> CwdPending(f)
    BY <1>1 DEF BeginFdCall, fdhas
  <2>3. TableInv' /\ HeldInv'
    BY <1>1, <2>2, CountsFrame DEF BeginFdCall
  <2>4. UnusedInv'
    BY <1>1 DEF BeginFdCall, fdhas, MayStart
  <2>5. NewInv'
    BY <1>1 DEF BeginFdCall, fdhas, MayStart
  <2>6. CwdInv'
    BY <1>1 DEF BeginFdCall, fdhas, MayStart
  <2> QED BY <2>1, <2>3, <2>4, <2>5, <2>6
<1>2. ASSUME NEW fd \in AnyFd, BadFd(t, fd)
       PROVE  IInv'
  BY <1>2, SMTT(30) DEF BadFd, TableInv, HeldInv, Counted, Held, One
<1>3. ASSUME UseFd(t)
       PROVE  IInv'
  <2>1. CwdAlone'
    BY <1>3 DEF UseFd, Return
  <2>2. \A f \in File : CwdPending(f)' <=> CwdPending(f)
    BY <1>3 DEF UseFd, Return
  <2>3. TableInv' /\ HeldInv'
    BY <1>3, <2>2, CountsFrame DEF UseFd
  <2>4. UnusedInv'
    BY <1>3 DEF UseFd, Return
  <2>5. NewInv'
    BY <1>3 DEF UseFd, Return
  <2>6. CwdInv'
    BY <1>3 DEF UseFd, Return
  <2> QED BY <2>1, <2>3, <2>4, <2>5, <2>6
<1>4. ASSUME NEW fd \in FD, Close(t, fd)
       PROVE  IInv'
  <2>1. CwdAlone'
    BY <1>4 DEF Close, fdhas, fdrelease, MayStart
  <2>2. TableInv'
    BY <1>4, ConstantsAssumption
    DEF Close, fdhas, fdrelease, TableInv, HeldInv, Counted, Held, One,
        Inc, Dec, MayStart
  <2>3. HeldInv'
    BY <1>4, ConstantsAssumption
    DEF Close, fdhas, fdrelease, TableInv, HeldInv, Counted, Held, One,
        Inc, Dec, MayStart
  <2>4. UnusedInv'
    BY <1>4
    DEF Close, fdhas, fdrelease, TableInv, HeldInv, Counted, Held, One,
        MayStart
  <2>5. NewInv'
    BY <1>4
    DEF Close, fdhas, fdrelease, TableInv, HeldInv, Counted, Held, One,
        MayStart
  <2>6. CwdInv'
    BY <1>4
    DEF Close, fdhas, fdrelease, TableInv, HeldInv, Counted, Held, One,
        MayStart
  <2> QED BY <2>1, <2>2, <2>3, <2>4, <2>5, <2>6
<1>5. ASSUME NEW c \in Call, LookupCwd(t, c)
       PROVE  IInv'
  <2>1. CwdAlone'
    BY <1>5 DEF LookupCwd, BeginLookup, Resolve, MayStart
  <2>2. \A f \in File : CwdPending(f)' <=> CwdPending(f)
    BY <1>5 DEF LookupCwd, BeginLookup, Resolve
  <2>3. TableInv' /\ HeldInv'
    BY <1>5, <2>2, CountsFrame DEF LookupCwd
  <2>4. UnusedInv'
    BY <1>5 DEF LookupCwd, BeginLookup, Resolve, MayStart
  <2>5. NewInv'
    BY <1>5 DEF LookupCwd, BeginLookup, Resolve, MayStart
  <2>6. CwdInv'
    BY <1>5 DEF LookupCwd, BeginLookup, Resolve, MayStart
  <2> QED BY <2>1, <2>3, <2>4, <2>5, <2>6
<1>6. ASSUME NEW c \in Call, NEW fd \in FD, LookupFd(t, c, fd)
       PROVE  IInv'
  <2>1. CwdAlone'
    BY <1>6 DEF LookupFd, BeginLookup, fdhas, MayStart
  <2>2. \A f \in File : CwdPending(f)' <=> CwdPending(f)
    BY <1>6 DEF LookupFd, BeginLookup, fdhas
  <2>3. TableInv' /\ HeldInv'
    BY <1>6, <2>2, CountsFrame DEF LookupFd
  <2>4. UnusedInv'
    BY <1>6 DEF LookupFd, BeginLookup, fdhas, MayStart
  <2>5. NewInv'
    BY <1>6 DEF LookupFd, BeginLookup, fdhas, MayStart
  <2>6. CwdInv'
    BY <1>6 DEF LookupFd, BeginLookup, fdhas, MayStart
  <2> QED BY <2>1, <2>3, <2>4, <2>5, <2>6
<1>7. ASSUME NEW c \in Call, NEW fd \in AnyFd, LookupBadFd(t, c, fd)
       PROVE  IInv'
  <2>1. CwdAlone'
    BY <1>7 DEF LookupBadFd, BeginLookup, Unresolved, Return, MayStart
  <2>2. \A f \in File : CwdPending(f)' <=> CwdPending(f)
    BY <1>7 DEF LookupBadFd, BeginLookup, Unresolved, Return
  <2>3. TableInv' /\ HeldInv'
    BY <1>7, <2>2, CountsFrame DEF LookupBadFd
  <2>4. UnusedInv'
    BY <1>7 DEF LookupBadFd, BeginLookup, Unresolved, Return, MayStart
  <2>5. NewInv'
    BY <1>7 DEF LookupBadFd, BeginLookup, Unresolved, Return, MayStart
  <2>6. CwdInv'
    BY <1>7 DEF LookupBadFd, BeginLookup, Unresolved, Return, MayStart
  <2> QED BY <2>1, <2>3, <2>4, <2>5, <2>6
<1>8. ASSUME IsDir(t)
       PROVE  IInv'
  <2>1. CwdAlone'
    BY <1>8 DEF IsDir, Resolve, Unresolved, Return
  <2>2. \A f \in File : CwdPending(f)' <=> CwdPending(f)
    BY <1>8 DEF IsDir, Resolve, Unresolved, Return
  <2>3. TableInv' /\ HeldInv'
    BY <1>8, <2>2, CountsFrame DEF IsDir
  <2>4. UnusedInv'
    BY <1>8 DEF IsDir, Resolve, Unresolved, Return
  <2>5. NewInv'
    BY <1>8, SMTT(30) DEF IsDir, Resolve, Unresolved, Return
  <2>6. CwdInv'
    BY <1>8 DEF IsDir, Resolve, Unresolved, Return
  <2> QED BY <2>1, <2>3, <2>4, <2>5, <2>6
<1>9. ASSUME PathReturn(t)
       PROVE  IInv'
  <2>1. CwdAlone'
    BY <1>9 DEF PathReturn, Return
  <2>2. \A f \in File : CwdPending(f)' <=> CwdPending(f)
    BY <1>9 DEF PathReturn, Return
  <2>3. TableInv' /\ HeldInv'
    BY <1>9, <2>2, CountsFrame DEF PathReturn
  <2>4. UnusedInv'
    BY <1>9 DEF PathReturn, Return
  <2>5. NewInv'
    BY <1>9 DEF PathReturn, Return
  <2>6. CwdInv'
    BY <1>9 DEF PathReturn, Return
  <2> QED BY <2>1, <2>3, <2>4, <2>5, <2>6
<1>10. ASSUME NEW f \in File, OpenHost(t, f)
       PROVE  IInv'
  <2>1. CwdAlone'
    BY <1>10 DEF OpenHost, Goto
  <2>2. TableInv'
    BY <1>10, ConstantsAssumption
    DEF OpenHost, Goto, TableInv, HeldInv, Counted, Held, One, Inc, Dec
  <2>3. HeldInv'
    BY <1>10, ConstantsAssumption, SMTT(30)
    DEF OpenHost, Goto, TableInv, HeldInv, Counted, Held, One, Inc, Dec
  <2>4. UnusedInv'
    BY <1>10 DEF OpenHost, Goto
  <2>5. NewInv'
    BY <1>10 DEF OpenHost, Goto, TableInv, HeldInv, Counted, Held, One
  <2>6. CwdInv'
    BY <1>10 DEF OpenHost, Goto, TableInv, HeldInv, Counted, Held, One
  <2> QED BY <2>1, <2>2, <2>3, <2>4, <2>5, <2>6
<1>11. ASSUME NEW f \in File, OpenNoMem(t, f)
       PROVE  IInv'
  <2>1. CwdAlone'
    BY <1>11 DEF OpenNoMem, Return
  <2>2. TableInv'
    BY <1>11, ConstantsAssumption
    DEF OpenNoMem, Return, TableInv, HeldInv, Counted, Held, One, Inc, Dec
  <2>3. HeldInv'
    BY <1>11, ConstantsAssumption, SMTT(30)
    DEF OpenNoMem, Return, TableInv, HeldInv, Counted, Held, One, Inc, Dec
  <2>4. UnusedInv'
    BY <1>11 DEF OpenNoMem, Return
  <2>5. NewInv'
    BY <1>11 DEF OpenNoMem, Return, TableInv, HeldInv, Counted, Held, One
  <2>6. CwdInv'
    BY <1>11 DEF OpenNoMem, Return, TableInv, HeldInv, Counted, Held, One
  <2> QED BY <2>1, <2>2, <2>3, <2>4, <2>5, <2>6
<1>12. ASSUME NEW fd \in 0..NOFILE, Fdalloc(t, fd)
       PROVE  IInv'
  <2>1. CwdAlone'
    BY <1>12 DEF Fdalloc, Goto, LowestFree
  <2>2. \A f \in File : CwdPending(f)' <=> CwdPending(f)
    BY <1>12 DEF Fdalloc, Goto, LowestFree
  <2>3. TableInv' /\ HeldInv'
    BY <1>12, <2>2, CountsFrame DEF Fdalloc
  <2>4. UnusedInv'
    BY <1>12 DEF Fdalloc, Goto, LowestFree
  <2>5. NewInv'
    BY <1>12 DEF Fdalloc, Goto, LowestFree
  <2>6. CwdInv'
    BY <1>12 DEF Fdalloc, Goto, LowestFree
  <2> QED BY <2>1, <2>3, <2>4, <2>5, <2>6
<1>13. ASSUME Emfile(t)
       PROVE  IInv'
  <2>1. CwdAlone'
    BY <1>13 DEF Emfile, fdrelease, Return
  <2>2. TableInv'
    BY <1>13, ConstantsAssumption
    DEF Emfile, fdrelease, Return, TableInv, HeldInv, Counted, Held, One,
        Inc, Dec
  <2>3. HeldInv'
    BY <1>13, ConstantsAssumption, SMTT(30)
    DEF Emfile, fdrelease, Return, TableInv, HeldInv, Counted, Held, One,
        Inc, Dec
  <2>4. UnusedInv'
    BY <1>13 DEF Emfile, fdrelease, Return
  <2>5. NewInv'
    BY <1>13
    DEF Emfile, fdrelease, Return, TableInv, HeldInv, Counted, Held, One
  <2>6. CwdInv'
    BY <1>13
    DEF Emfile, fdrelease, Return, TableInv, HeldInv, Counted, Held, One
  <2> QED BY <2>1, <2>2, <2>3, <2>4, <2>5, <2>6
<1>14. ASSUME Fdassign(t)
       PROVE  IInv'
  <2>1. CwdAlone'
    BY <1>14 DEF Fdassign, Return
  <2>2. TableInv'
    BY <1>14, ConstantsAssumption, SMTT(30)
    DEF Fdassign, Return, TableInv, HeldInv, Counted, Held, One, Inc, Dec
  <2>3. HeldInv'
    BY <1>14, ConstantsAssumption, SMTT(30)
    DEF Fdassign, Return, TableInv, HeldInv, Counted, Held, One, Inc, Dec
  <2>4. UnusedInv'
    BY <1>14 DEF Fdassign, Return
  <2>5. NewInv'
    BY <1>14 DEF Fdassign, Return, TableInv, HeldInv, Counted, Held, One
  <2>6. CwdInv'
    BY <1>14 DEF Fdassign, Return, TableInv, HeldInv, Counted, Held, One
  <2> QED BY <2>1, <2>2, <2>3, <2>4, <2>5, <2>6
<1>15. ASSUME BeginChdir(t)
       PROVE  IInv'
  <2>1. CwdAlone'
    BY <1>15 DEF BeginChdir, MayStart
  <2>2. \A f \in File : CwdPending(f)' <=> CwdPending(f)
    BY <1>15 DEF BeginChdir
  <2>3. TableInv' /\ HeldInv'
    BY <1>15, <2>2, CountsFrame DEF BeginChdir
  <2>4. UnusedInv'
    BY <1>15 DEF BeginChdir, MayStart
  <2>5. NewInv'
    BY <1>15 DEF BeginChdir, MayStart
  <2>6. CwdInv'
    BY <1>15 DEF BeginChdir, MayStart
  <2> QED BY <2>1, <2>3, <2>4, <2>5, <2>6
<1>16. ASSUME NEW f \in File, OpenDir(t, f)
       PROVE  IInv'
  <2>1. CwdAlone'
    BY <1>16 DEF OpenDir, Goto
  <2>2. TableInv'
    BY <1>16, ConstantsAssumption
    DEF OpenDir, Goto, TableInv, HeldInv, Counted, Held, One, Inc, Dec
  <2>3. HeldInv'
    BY <1>16, ConstantsAssumption
    DEF OpenDir, Goto, TableInv, HeldInv, Counted, Held, One, Inc, Dec
  <2>4. UnusedInv'
    BY <1>16 DEF OpenDir, Goto
  <2>5. NewInv'
    BY <1>16 DEF OpenDir, Goto, TableInv, HeldInv, Counted, Held, One
  <2>6. CwdInv'
    BY <1>16 DEF OpenDir, Goto, TableInv, HeldInv, Counted, Held, One
  <2> QED BY <2>1, <2>2, <2>3, <2>4, <2>5, <2>6
<1>17. ASSUME OpenDirFails(t)
       PROVE  IInv'
  <2>1. CwdAlone'
    BY <1>17 DEF OpenDirFails, Goto
  <2>2. \A f \in File : CwdPending(f)' <=> CwdPending(f)
    BY <1>17 DEF OpenDirFails, Goto
  <2>3. TableInv' /\ HeldInv'
    BY <1>17, <2>2, CountsFrame DEF OpenDirFails
  <2>4. UnusedInv'
    BY <1>17 DEF OpenDirFails, Goto
  <2>5. NewInv'
    BY <1>17 DEF OpenDirFails, Goto
  <2>6. CwdInv'
    BY <1>17 DEF OpenDirFails, Goto
  <2> QED BY <2>1, <2>3, <2>4, <2>5, <2>6
<1>18. ASSUME CheckDir(t)
       PROVE  IInv'
  <2>1. CwdAlone'
    BY <1>18 DEF CheckDir, Goto, Return
  <2>2. \A f \in File : CwdPending(f)' <=> CwdPending(f)
    BY <1>18 DEF CheckDir, Goto, Return
  <2>3. TableInv' /\ HeldInv'
    BY <1>18, <2>2, CountsFrame DEF CheckDir
  <2>4. UnusedInv'
    BY <1>18 DEF CheckDir, Goto, Return
  <2>5. NewInv'
    BY <1>18 DEF CheckDir, Goto, Return
  <2>6. CwdInv'
    BY <1>18 DEF CheckDir, Goto, Return
  <2> QED BY <2>1, <2>3, <2>4, <2>5, <2>6
<1>19. ASSUME CwdTake(t)
       PROVE  IInv'
  <2>1. CwdAlone'
    BY <1>19 DEF CwdTake, Goto, AfterDrop
  <2>2. \A f \in File : CwdPending(f)' <=> CwdPending(f)
    BY <1>19 DEF CwdTake, Goto, AfterDrop
  <2>3. TableInv' /\ HeldInv'
    BY <1>19, <2>2, CountsFrame DEF CwdTake
  <2>4. UnusedInv'
    BY <1>19 DEF CwdTake, Goto, AfterDrop
  <2>5. NewInv'
    BY <1>19 DEF CwdTake, Goto, AfterDrop
  <2>6. CwdInv'
    BY <1>19 DEF CwdTake, Goto, AfterDrop
  <2> QED BY <2>1, <2>3, <2>4, <2>5, <2>6
<1>20. ASSUME CwdRelease(t)
       PROVE  IInv'
  <2>1. CwdAlone'
    BY <1>20 DEF CwdRelease, Goto, AfterDrop, fdrelease
  <2>2. TableInv'
    BY <1>20, ConstantsAssumption
    DEF CwdRelease, Goto, AfterDrop, fdrelease, TableInv, HeldInv,
        Counted, Held, One, Inc, Dec
  <2>3. HeldInv'
    BY <1>20, ConstantsAssumption, SMTT(30)
    DEF CwdRelease, Goto, AfterDrop, fdrelease, TableInv, HeldInv,
        Counted, Held, One, Inc, Dec
  <2>4. UnusedInv'
    BY <1>20
    DEF CwdRelease, Goto, AfterDrop, fdrelease, TableInv, HeldInv,
        Counted, Held, One
  <2>5. NewInv'
    BY <1>20
    DEF CwdRelease, Goto, AfterDrop, fdrelease, TableInv, HeldInv,
        Counted, Held, One
  <2>6. CwdInv'
    BY <1>20
    DEF CwdRelease, Goto, AfterDrop, fdrelease, TableInv, HeldInv,
        Counted, Held, One
  <2> QED BY <2>1, <2>2, <2>3, <2>4, <2>5, <2>6
<1>21. ASSUME CwdClose(t)
       PROVE  IInv'
  <2>1. CwdAlone'
    BY <1>21 DEF CwdClose, Goto, AfterDrop
  <2>2. TableInv'
    BY <1>21, ConstantsAssumption, SMTT(30)
    DEF CwdClose, Goto, AfterDrop, TableInv, HeldInv, Counted, Held, One,
        Inc, Dec
  <2>3. HeldInv'
    BY <1>21, ConstantsAssumption, SMTT(30)
    DEF CwdClose, Goto, AfterDrop, TableInv, HeldInv, Counted, Held, One,
        Inc, Dec
  <2>4. UnusedInv'
    BY <1>21 DEF CwdClose, Goto, AfterDrop
  <2>5. NewInv'
    BY <1>21
    DEF CwdClose, Goto, AfterDrop, TableInv, HeldInv, Counted, Held, One
  <2>6. CwdInv'
    BY <1>21
    DEF CwdClose, Goto, AfterDrop, TableInv, HeldInv, Counted, Held, One
  <2> QED BY <2>1, <2>2, <2>3, <2>4, <2>5, <2>6
<1>22. ASSUME CwdRef(t)
       PROVE  IInv'
  <2>1. CwdAlone'
    BY <1>22 DEF CwdRef, Goto
  <2>2. cwdfd = NULL /\ obj[t] \in File
    BY <1>22 DEF CwdRef
  <2>3. \A f \in File : ~CwdPending(f) /\ (CwdPending(f)' <=> f = obj[t])
    BY <1>22 DEF CwdRef, Goto
  <2>4. \A f \in File : Held(f)' = IF f = obj[t] THEN Held(f) + 1 ELSE Held(f)
    BY <1>22, <2>2, <2>3 DEF CwdRef, Held, One
  <2>5. \A f \in File : Held(f) \in 0..1 \/ f = NULL
    BY <2>2, <2>3 DEF Held, One
  <2>6. InTable(obj[t]) /\ Counted(obj[t])
    BY <1>22 DEF CwdRef, TableInv
  <2>7. TableInv'
    BY <1>22, <2>2, <2>4, <2>5, <2>6, ConstantsAssumption
    DEF CwdRef, Goto, TableInv, Counted, Inc
  <2>8. HeldInv'
    BY <1>22, <2>2, <2>4, <2>5, <2>6, ConstantsAssumption
    DEF CwdRef, Goto, HeldInv, Counted, Inc
  <2>9. UnusedInv'
    BY <1>22, <2>6 DEF CwdRef, Goto, Counted
  <2>10. NewInv'
    BY <1>22 DEF CwdRef, Goto
  <2>11. CwdInv'
    BY <1>22 DEF CwdRef, Goto
  <2> QED BY <2>1, <2>7, <2>8, <2>9, <2>10, <2>11
<1>23. ASSUME CwdSet(t)
       PROVE  IInv'
  <2>1. CwdAlone'
    BY <1>23 DEF CwdSet, Return
  <2>2. TableInv'
    BY <1>23, ConstantsAssumption
    DEF CwdSet, Return, TableInv, HeldInv, Counted, Held, One, Inc, Dec
  <2>3. HeldInv'
    BY <1>23, ConstantsAssumption, SMTT(30)
    DEF CwdSet, Return, TableInv, HeldInv, Counted, Held, One, Inc, Dec
  <2>4. UnusedInv'
    BY <1>23 DEF CwdSet, Return
  <2>5. NewInv'
    BY <1>23 DEF CwdSet, Return, TableInv, HeldInv, Counted, Held, One
  <2>6. CwdInv'
    BY <1>23 DEF CwdSet, Return, TableInv, HeldInv, Counted, Held, One
  <2> QED BY <2>1, <2>2, <2>3, <2>4, <2>5, <2>6
<1> HIDE ConstantFacts DEF IInv, TypeOK, Shape, process, locals, vars, MaybeFile,
        CwdLabel, CwdCall, LookupCall, Call, Begin, CwdAlone, UnusedInv, NewInv,
        CwdInv, InTable, CwdPending, CwdVacant
<1> QED
  BY <1>1, <1>2, <1>3, <1>4, <1>5, <1>6, <1>7, <1>8, <1>9, <1>10, <1>11,
      <1>12, <1>13, <1>14, <1>15, <1>16, <1>17, <1>18, <1>19, <1>20, <1>21,
      <1>22, <1>23
  DEF Step

(***************************************************************************)
(* The count of a file is right after a step that leaves it alone.         *)
(***************************************************************************)
LEMMA CountedFrame ==
    ASSUME NEW f \in File, host'[f] = host[f], fdfile'[f] = fdfile[f],
           refs'[f] = refs[f], cwdfd' = cwdfd, CwdPending(f)' <=> CwdPending(f)
    PROVE  Counted(f)' <=> Counted(f)
BY DEF Counted, Held, One

(***************************************************************************)
(* No step of another thread takes away the file that a call got from      *)
(* fdget or getfdir, when nobody closes a descriptor that is in use.       *)
(***************************************************************************)
LEMMA UseStep ==
    ASSUME SerialCwd, QuietCloses, IInv, IInv', UseInv, NEW t \in Thread, Step(t)
    PROVE  UseInv'
<1> USE ConstantFacts DEF IInv, TypeOK, Shape, process, locals, vars, MaybeFile,
        CwdLabel, CwdCall, LookupCall, Call, Begin, CwdAlone, UnusedInv, NewInv,
        CwdInv, InTable, CwdPending, CwdVacant
<1>1. ASSUME NEW fd \in FD, NEW c \in {"fdop", "fchdir"}, BeginFdCall(t, fd,
    c)
       PROVE  UseInv'
  <2>1. \A g \in File : CwdPending(g)' <=> CwdPending(g)
    BY <1>1 DEF BeginFdCall, fdhas
  <2>2. \A g \in File : Counted(g)' <=> Counted(g)
    BY <1>1, <2>1, CountsFrame DEF BeginFdCall
  <2>3. QED
    BY <1>1, <2>2 DEF BeginFdCall, fdhas, UseInv, TableInv, MayStart
<1>2. ASSUME NEW fd \in AnyFd, BadFd(t, fd)
       PROVE  UseInv'
  <2>1. \A g \in File : CwdPending(g)' <=> CwdPending(g)
    BY <1>2 DEF BadFd
  <2>2. \A g \in File : Counted(g)' <=> Counted(g)
    BY <1>2, <2>1, CountsFrame DEF BadFd
  <2>3. QED
    BY <1>2, <2>2 DEF BadFd, UseInv, TableInv
<1>3. ASSUME UseFd(t)
       PROVE  UseInv'
  <2>1. \A g \in File : CwdPending(g)' <=> CwdPending(g)
    BY <1>3 DEF UseFd, Return
  <2>2. \A g \in File : Counted(g)' <=> Counted(g)
    BY <1>3, <2>1, CountsFrame DEF UseFd
  <2>3. QED
    BY <1>3, <2>2 DEF UseFd, Return, UseInv, TableInv
<1>4. ASSUME NEW fd \in FD, Close(t, fd)
       PROVE  UseInv'
  BY <1>4, ConstantsAssumption, SMTT(30)
  DEF Close, fdhas, fdrelease, UseInv, TableInv, Counted, Held, One, Inc,
      Dec, MayClose, InUseElsewhere, MayStart
<1>5. ASSUME NEW c \in Call, LookupCwd(t, c)
       PROVE  UseInv'
  <2>1. \A g \in File : CwdPending(g)' <=> CwdPending(g)
    BY <1>5 DEF LookupCwd, BeginLookup, Resolve
  <2>2. \A g \in File : Counted(g)' <=> Counted(g)
    BY <1>5, <2>1, CountsFrame DEF LookupCwd
  <2>3. QED
    BY <1>5, <2>2
    DEF LookupCwd, BeginLookup, Resolve, UseInv, TableInv, MayStart
<1>6. ASSUME NEW c \in Call, NEW fd \in FD, LookupFd(t, c, fd)
       PROVE  UseInv'
  <2>1. \A g \in File : CwdPending(g)' <=> CwdPending(g)
    BY <1>6 DEF LookupFd, BeginLookup, fdhas
  <2>2. \A g \in File : Counted(g)' <=> Counted(g)
    BY <1>6, <2>1, CountsFrame DEF LookupFd
  <2>3. QED
    BY <1>6, <2>2 DEF LookupFd, BeginLookup, fdhas, UseInv, TableInv, MayStart
<1>7. ASSUME NEW c \in Call, NEW fd \in AnyFd, LookupBadFd(t, c, fd)
       PROVE  UseInv'
  <2>1. \A g \in File : CwdPending(g)' <=> CwdPending(g)
    BY <1>7 DEF LookupBadFd, BeginLookup, Unresolved, Return
  <2>2. \A g \in File : Counted(g)' <=> Counted(g)
    BY <1>7, <2>1, CountsFrame DEF LookupBadFd
  <2>3. QED
    BY <1>7, <2>2
    DEF LookupBadFd, BeginLookup, Unresolved, Return, UseInv, TableInv,
        MayStart
<1>8. ASSUME IsDir(t)
       PROVE  UseInv'
  <2>1. \A g \in File : CwdPending(g)' <=> CwdPending(g)
    BY <1>8 DEF IsDir, Resolve, Unresolved, Return
  <2>2. \A g \in File : Counted(g)' <=> Counted(g)
    BY <1>8, <2>1, CountsFrame DEF IsDir
  <2>3. QED
    BY <1>8, <2>2 DEF IsDir, Resolve, Unresolved, Return, UseInv, TableInv
<1>9. ASSUME PathReturn(t)
       PROVE  UseInv'
  <2>1. \A g \in File : CwdPending(g)' <=> CwdPending(g)
    BY <1>9 DEF PathReturn, Return
  <2>2. \A g \in File : Counted(g)' <=> Counted(g)
    BY <1>9, <2>1, CountsFrame DEF PathReturn
  <2>3. QED
    BY <1>9, <2>2 DEF PathReturn, Return, UseInv, TableInv
<1>10. ASSUME NEW f \in File, OpenHost(t, f)
       PROVE  UseInv'
  <2>1. \A g \in File : CwdPending(g)' <=> CwdPending(g)
    BY <1>10 DEF OpenHost, Goto
  <2>2. \A g \in File : g # f => (Counted(g)' <=> Counted(g))
    BY <1>10, <2>1, CountedFrame DEF OpenHost
  <2>3. QED
    BY <1>10, <2>2 DEF OpenHost, Goto, UseInv, TableInv
<1>11. ASSUME NEW f \in File, OpenNoMem(t, f)
       PROVE  UseInv'
  <2>1. \A g \in File : CwdPending(g)' <=> CwdPending(g)
    BY <1>11 DEF OpenNoMem, Return
  <2>2. \A g \in File : g # f => (Counted(g)' <=> Counted(g))
    BY <1>11, <2>1, CountedFrame DEF OpenNoMem
  <2>3. QED
    BY <1>11, <2>2 DEF OpenNoMem, Return, UseInv, TableInv
<1>12. ASSUME NEW fd \in 0..NOFILE, Fdalloc(t, fd)
       PROVE  UseInv'
  <2>1. \A g \in File : CwdPending(g)' <=> CwdPending(g)
    BY <1>12 DEF Fdalloc, Goto, LowestFree
  <2>2. \A g \in File : Counted(g)' <=> Counted(g)
    BY <1>12, <2>1, CountsFrame DEF Fdalloc
  <2>3. QED
    BY <1>12, <2>2 DEF Fdalloc, Goto, LowestFree, UseInv, TableInv
<1>13. ASSUME Emfile(t)
       PROVE  UseInv'
  BY <1>13, ConstantsAssumption, SMTT(30)
  DEF Emfile, fdrelease, Return, UseInv, TableInv, Counted, Held, One, Inc,
      Dec
<1>14. ASSUME Fdassign(t)
       PROVE  UseInv'
  <2>1. \A g \in File : CwdPending(g)' <=> CwdPending(g)
    BY <1>14 DEF Fdassign, Return
  <2>2. \A g \in File : g # newf[t] => (Counted(g)' <=> Counted(g))
    BY <1>14, <2>1, CountedFrame, SMTT(30) DEF Fdassign
  <2>3. QED
    BY <1>14, <2>2 DEF Fdassign, Return, UseInv, TableInv
<1>15. ASSUME BeginChdir(t)
       PROVE  UseInv'
  <2>1. \A g \in File : CwdPending(g)' <=> CwdPending(g)
    BY <1>15 DEF BeginChdir
  <2>2. \A g \in File : Counted(g)' <=> Counted(g)
    BY <1>15, <2>1, CountsFrame DEF BeginChdir
  <2>3. QED
    BY <1>15, <2>2 DEF BeginChdir, UseInv, TableInv, MayStart
<1>16. ASSUME NEW f \in File, OpenDir(t, f)
       PROVE  UseInv'
  <2>1. \A g \in File : CwdPending(g)' <=> CwdPending(g)
    BY <1>16 DEF OpenDir, Goto
  <2>2. \A g \in File : g # f => (Counted(g)' <=> Counted(g))
    BY <1>16, <2>1, CountedFrame DEF OpenDir
  <2>3. QED
    BY <1>16, <2>2 DEF OpenDir, Goto, UseInv, TableInv
<1>17. ASSUME OpenDirFails(t)
       PROVE  UseInv'
  <2>1. \A g \in File : CwdPending(g)' <=> CwdPending(g)
    BY <1>17 DEF OpenDirFails, Goto
  <2>2. \A g \in File : Counted(g)' <=> Counted(g)
    BY <1>17, <2>1, CountsFrame DEF OpenDirFails
  <2>3. QED
    BY <1>17, <2>2 DEF OpenDirFails, Goto, UseInv, TableInv
<1>18. ASSUME CheckDir(t)
       PROVE  UseInv'
  <2>1. \A g \in File : CwdPending(g)' <=> CwdPending(g)
    BY <1>18 DEF CheckDir, Goto, Return
  <2>2. \A g \in File : Counted(g)' <=> Counted(g)
    BY <1>18, <2>1, CountsFrame DEF CheckDir
  <2>3. QED
    BY <1>18, <2>2 DEF CheckDir, Goto, Return, UseInv, TableInv
<1>19. ASSUME CwdTake(t)
       PROVE  UseInv'
  <2>1. \A g \in File : CwdPending(g)' <=> CwdPending(g)
    BY <1>19 DEF CwdTake, Goto, AfterDrop
  <2>2. \A g \in File : Counted(g)' <=> Counted(g)
    BY <1>19, <2>1, CountsFrame DEF CwdTake
  <2>3. QED
    BY <1>19, <2>2 DEF CwdTake, Goto, AfterDrop, UseInv, TableInv
<1>20. ASSUME CwdRelease(t)
       PROVE  UseInv'
  BY <1>20, ConstantsAssumption, SMTT(30)
  DEF CwdRelease, Goto, AfterDrop, fdrelease, UseInv, TableInv, Counted,
      Held, One, Inc, Dec
<1>21. ASSUME CwdClose(t)
       PROVE  UseInv'
  BY <1>21, ConstantsAssumption
  DEF CwdClose, Goto, AfterDrop, UseInv, TableInv, Counted, Held, One, Inc,
      Dec
<1>22. ASSUME CwdRef(t)
       PROVE  UseInv'
  BY <1>22, ConstantsAssumption, SMTT(30)
  DEF CwdRef, Goto, UseInv, TableInv, Counted, Held, One, Inc, Dec
<1>23. ASSUME CwdSet(t)
       PROVE  UseInv'
  BY <1>23, ConstantsAssumption
  DEF CwdSet, Return, UseInv, TableInv, Counted, Held, One, Inc, Dec
<1> HIDE ConstantFacts DEF IInv, TypeOK, Shape, process, locals, vars, MaybeFile,
        CwdLabel, CwdCall, LookupCall, Call, Begin, CwdAlone, UnusedInv, NewInv,
        CwdInv, InTable, CwdPending, CwdVacant
<1> QED
  BY <1>1, <1>2, <1>3, <1>4, <1>5, <1>6, <1>7, <1>8, <1>9, <1>10, <1>11,
      <1>12, <1>13, <1>14, <1>15, <1>16, <1>17, <1>18, <1>19, <1>20, <1>21,
      <1>22, <1>23
  DEF Step

(***************************************************************************)
(* The slot that fdalloc found is still free at fdassign, when no two      *)
(* opens overlap.                                                          *)
(***************************************************************************)
LEMMA SlotStep ==
    ASSUME SerialOpens, TypeOK, Shape, SlotInv, NEW t \in Thread, Step(t)
    PROVE  SlotInv'
<1> USE ConstantFacts DEF TypeOK, Shape, SlotInv, process, locals, vars,
        CwdLabel, CwdCall, LookupCall, Call, Begin
<1>1. ASSUME NEW fd \in FD, NEW c \in {"fdop", "fchdir"}, BeginFdCall(t, fd,
    c)
       PROVE  SlotInv'
  BY <1>1 DEF BeginFdCall, fdhas, MayStart
<1>2. ASSUME NEW fd \in AnyFd, BadFd(t, fd)
       PROVE  SlotInv'
  BY <1>2 DEF BadFd
<1>3. ASSUME UseFd(t)
       PROVE  SlotInv'
  BY <1>3 DEF UseFd, Return
<1>4. ASSUME NEW fd \in FD, Close(t, fd)
       PROVE  SlotInv'
  BY <1>4 DEF Close, fdhas, fdrelease, MayStart
<1>5. ASSUME NEW c \in Call, LookupCwd(t, c)
       PROVE  SlotInv'
  BY <1>5 DEF LookupCwd, BeginLookup, Resolve, MayStart
<1>6. ASSUME NEW c \in Call, NEW fd \in FD, LookupFd(t, c, fd)
       PROVE  SlotInv'
  BY <1>6 DEF LookupFd, BeginLookup, fdhas, MayStart
<1>7. ASSUME NEW c \in Call, NEW fd \in AnyFd, LookupBadFd(t, c, fd)
       PROVE  SlotInv'
  BY <1>7, SMTT(30) DEF LookupBadFd, BeginLookup, Unresolved, Return, MayStart
<1>8. ASSUME IsDir(t)
       PROVE  SlotInv'
  BY <1>8 DEF IsDir, Resolve, Unresolved, Return
<1>9. ASSUME PathReturn(t)
       PROVE  SlotInv'
  BY <1>9 DEF PathReturn, Return
<1>10. ASSUME NEW f \in File, OpenHost(t, f)
       PROVE  SlotInv'
  BY <1>10 DEF OpenHost, Goto
<1>11. ASSUME NEW f \in File, OpenNoMem(t, f)
       PROVE  SlotInv'
  BY <1>11 DEF OpenNoMem, Return
<1>12. ASSUME NEW fd \in 0..NOFILE, Fdalloc(t, fd)
       PROVE  SlotInv'
  BY <1>12 DEF Fdalloc, Goto, LowestFree
<1>13. ASSUME Emfile(t)
       PROVE  SlotInv'
  BY <1>13 DEF Emfile, fdrelease, Return
<1>14. ASSUME Fdassign(t)
       PROVE  SlotInv'
  BY <1>14 DEF Fdassign, Return
<1>15. ASSUME BeginChdir(t)
       PROVE  SlotInv'
  BY <1>15 DEF BeginChdir, MayStart
<1>16. ASSUME NEW f \in File, OpenDir(t, f)
       PROVE  SlotInv'
  BY <1>16 DEF OpenDir, Goto
<1>17. ASSUME OpenDirFails(t)
       PROVE  SlotInv'
  BY <1>17 DEF OpenDirFails, Goto
<1>18. ASSUME CheckDir(t)
       PROVE  SlotInv'
  BY <1>18 DEF CheckDir, Goto, Return
<1>19. ASSUME CwdTake(t)
       PROVE  SlotInv'
  BY <1>19 DEF CwdTake, Goto, AfterDrop
<1>20. ASSUME CwdRelease(t)
       PROVE  SlotInv'
  BY <1>20 DEF CwdRelease, Goto, AfterDrop, fdrelease
<1>21. ASSUME CwdClose(t)
       PROVE  SlotInv'
  BY <1>21 DEF CwdClose, Goto, AfterDrop
<1>22. ASSUME CwdRef(t)
       PROVE  SlotInv'
  BY <1>22 DEF CwdRef, Goto
<1>23. ASSUME CwdSet(t)
       PROVE  SlotInv'
  BY <1>23 DEF CwdSet, Return
<1> HIDE ConstantFacts DEF TypeOK, Shape, SlotInv, process, locals, vars,
        CwdLabel, CwdCall, LookupCall, Call, Begin
<1> QED
  BY <1>1, <1>2, <1>3, <1>4, <1>5, <1>6, <1>7, <1>8, <1>9, <1>10, <1>11,
      <1>12, <1>13, <1>14, <1>15, <1>16, <1>17, <1>18, <1>19, <1>20, <1>21,
      <1>22, <1>23
  DEF Step

(***************************************************************************)
(* A step that changes neither counts nor references keeps the counts      *)
(* exact.                                                                  *)
(***************************************************************************)
LEMMA RefsFrame ==
    ASSUME RefsExact, files' = files, refs' = refs, cwdfd' = cwdfd,
           \A f \in File : CwdPending(f)' <=> CwdPending(f)
    PROVE  RefsExact'
BY DEF RefsExact, Referenced, References, InTable, One

(***************************************************************************)
(* Every step keeps the counts exact when opens do not overlap: close, the *)
(* release in chdir, the reference of fchdir and fdassign each change the  *)
(* count and the references together.                                      *)
(***************************************************************************)
LEMMA RefsStep ==
    ASSUME SerialCwd, IInv, IInv', SlotInv, RefsExact, NEW t \in Thread, Step(t)
    PROVE  RefsExact'
<1> USE ConstantFacts DEF IInv, TypeOK, Shape, process, locals, vars, MaybeFile,
        CwdLabel, CwdCall, LookupCall, Call, Begin, CwdAlone, UnusedInv, NewInv,
        CwdInv, InTable, CwdPending, CwdVacant
<1>1. ASSUME NEW fd \in FD, NEW c \in {"fdop", "fchdir"}, BeginFdCall(t, fd,
    c)
       PROVE  RefsExact'
  <2>1. \A g \in File : CwdPending(g)' <=> CwdPending(g)
    BY <1>1 DEF BeginFdCall, fdhas
  <2>2. QED
    BY <1>1, <2>1, RefsFrame DEF BeginFdCall
<1>2. ASSUME NEW fd \in AnyFd, BadFd(t, fd)
       PROVE  RefsExact'
  <2>1. \A g \in File : CwdPending(g)' <=> CwdPending(g)
    BY <1>2 DEF BadFd
  <2>2. QED
    BY <1>2, <2>1, RefsFrame DEF BadFd
<1>3. ASSUME UseFd(t)
       PROVE  RefsExact'
  <2>1. \A g \in File : CwdPending(g)' <=> CwdPending(g)
    BY <1>3 DEF UseFd, Return
  <2>2. QED
    BY <1>3, <2>1, RefsFrame DEF UseFd
<1>4. ASSUME NEW fd \in FD, Close(t, fd)
       PROVE  RefsExact'
  BY <1>4, ConstantsAssumption
  DEF Close, fdhas, fdrelease, Inc, Dec, MayStart, SlotInv, RefsExact,
      Referenced, References, TableInv, HeldInv, Counted, Held, One
<1>5. ASSUME NEW c \in Call, LookupCwd(t, c)
       PROVE  RefsExact'
  <2>1. \A g \in File : CwdPending(g)' <=> CwdPending(g)
    BY <1>5 DEF LookupCwd, BeginLookup, Resolve
  <2>2. QED
    BY <1>5, <2>1, RefsFrame DEF LookupCwd
<1>6. ASSUME NEW c \in Call, NEW fd \in FD, LookupFd(t, c, fd)
       PROVE  RefsExact'
  <2>1. \A g \in File : CwdPending(g)' <=> CwdPending(g)
    BY <1>6 DEF LookupFd, BeginLookup, fdhas
  <2>2. QED
    BY <1>6, <2>1, RefsFrame DEF LookupFd
<1>7. ASSUME NEW c \in Call, NEW fd \in AnyFd, LookupBadFd(t, c, fd)
       PROVE  RefsExact'
  <2>1. \A g \in File : CwdPending(g)' <=> CwdPending(g)
    BY <1>7 DEF LookupBadFd, BeginLookup, Unresolved, Return
  <2>2. QED
    BY <1>7, <2>1, RefsFrame DEF LookupBadFd
<1>8. ASSUME IsDir(t)
       PROVE  RefsExact'
  <2>1. \A g \in File : CwdPending(g)' <=> CwdPending(g)
    BY <1>8 DEF IsDir, Resolve, Unresolved, Return
  <2>2. QED
    BY <1>8, <2>1, RefsFrame DEF IsDir
<1>9. ASSUME PathReturn(t)
       PROVE  RefsExact'
  <2>1. \A g \in File : CwdPending(g)' <=> CwdPending(g)
    BY <1>9 DEF PathReturn, Return
  <2>2. QED
    BY <1>9, <2>1, RefsFrame DEF PathReturn
<1>10. ASSUME NEW f \in File, OpenHost(t, f)
       PROVE  RefsExact'
  <2>1. \A g \in File : CwdPending(g)' <=> CwdPending(g)
    BY <1>10 DEF OpenHost, Goto
  <2>2. QED
    BY <1>10, <2>1, RefsFrame DEF OpenHost
<1>11. ASSUME NEW f \in File, OpenNoMem(t, f)
       PROVE  RefsExact'
  <2>1. \A g \in File : CwdPending(g)' <=> CwdPending(g)
    BY <1>11 DEF OpenNoMem, Return
  <2>2. QED
    BY <1>11, <2>1, RefsFrame DEF OpenNoMem
<1>12. ASSUME NEW fd \in 0..NOFILE, Fdalloc(t, fd)
       PROVE  RefsExact'
  <2>1. \A g \in File : CwdPending(g)' <=> CwdPending(g)
    BY <1>12 DEF Fdalloc, Goto, LowestFree
  <2>2. QED
    BY <1>12, <2>1, RefsFrame DEF Fdalloc
<1>13. ASSUME Emfile(t)
       PROVE  RefsExact'
  BY <1>13, ConstantsAssumption, SMTT(30)
  DEF Emfile, fdrelease, Return, Inc, Dec, SlotInv, RefsExact, Referenced,
      References, TableInv, HeldInv, Counted, Held, One
<1>14. ASSUME Fdassign(t)
       PROVE  RefsExact'
  BY <1>14, ConstantsAssumption, SMTT(30)
  DEF Fdassign, Return, Inc, Dec, SlotInv, RefsExact, Referenced,
      References, TableInv, HeldInv, Counted, Held, One
<1>15. ASSUME BeginChdir(t)
       PROVE  RefsExact'
  <2>1. \A g \in File : CwdPending(g)' <=> CwdPending(g)
    BY <1>15 DEF BeginChdir
  <2>2. QED
    BY <1>15, <2>1, RefsFrame DEF BeginChdir
<1>16. ASSUME NEW f \in File, OpenDir(t, f)
       PROVE  RefsExact'
  <2>1. \A g \in File : CwdPending(g)' <=> CwdPending(g)
    BY <1>16 DEF OpenDir, Goto
  <2>2. QED
    BY <1>16, <2>1, RefsFrame DEF OpenDir
<1>17. ASSUME OpenDirFails(t)
       PROVE  RefsExact'
  <2>1. \A g \in File : CwdPending(g)' <=> CwdPending(g)
    BY <1>17 DEF OpenDirFails, Goto
  <2>2. QED
    BY <1>17, <2>1, RefsFrame DEF OpenDirFails
<1>18. ASSUME CheckDir(t)
       PROVE  RefsExact'
  <2>1. \A g \in File : CwdPending(g)' <=> CwdPending(g)
    BY <1>18 DEF CheckDir, Goto, Return
  <2>2. QED
    BY <1>18, <2>1, RefsFrame DEF CheckDir
<1>19. ASSUME CwdTake(t)
       PROVE  RefsExact'
  <2>1. \A g \in File : CwdPending(g)' <=> CwdPending(g)
    BY <1>19 DEF CwdTake, Goto, AfterDrop
  <2>2. QED
    BY <1>19, <2>1, RefsFrame DEF CwdTake
<1>20. ASSUME CwdRelease(t)
       PROVE  RefsExact'
  BY <1>20, ConstantsAssumption, SMTT(30)
  DEF CwdRelease, Goto, AfterDrop, fdrelease, Inc, Dec, SlotInv, RefsExact,
      Referenced, References, TableInv, HeldInv, Counted, Held, One
<1>21. ASSUME CwdClose(t)
       PROVE  RefsExact'
  <2>1. \A g \in File : CwdPending(g)' <=> CwdPending(g)
    BY <1>21 DEF CwdClose, Goto, AfterDrop
  <2>2. QED
    BY <1>21, <2>1, RefsFrame DEF CwdClose
<1>22. ASSUME CwdRef(t)
       PROVE  RefsExact'
  BY <1>22, ConstantsAssumption
  DEF CwdRef, Goto, Inc, Dec, SlotInv, RefsExact, Referenced, References,
      TableInv, HeldInv, Counted, Held, One
<1>23. ASSUME CwdSet(t)
       PROVE  RefsExact'
  BY <1>23, ConstantsAssumption
  DEF CwdSet, Return, Inc, Dec, SlotInv, RefsExact, Referenced, References,
      TableInv, HeldInv, Counted, Held, One
<1> HIDE ConstantFacts DEF IInv, TypeOK, Shape, process, locals, vars, MaybeFile,
        CwdLabel, CwdCall, LookupCall, Call, Begin, CwdAlone, UnusedInv, NewInv,
        CwdInv, InTable, CwdPending, CwdVacant
<1> QED
  BY <1>1, <1>2, <1>3, <1>4, <1>5, <1>6, <1>7, <1>8, <1>9, <1>10, <1>11,
      <1>12, <1>13, <1>14, <1>15, <1>16, <1>17, <1>18, <1>19, <1>20, <1>21,
      <1>22, <1>23
  DEF Step

-----------------------------------------------------------------------------
(***************************************************************************)
(* A new process (lfi_tux_new and fdinit) satisfies all the invariants.    *)
(***************************************************************************)
LEMMA InitIInv == Init => IInv /\ SlotInv /\ UseInv /\ RefsExact
<1> SUFFICES ASSUME Init PROVE IInv /\ SlotInv /\ UseInv /\ RefsExact
  OBVIOUS
<1> USE ConstantFacts, ConstantsAssumption DEF Init
<1>1. TypeOK
  BY DEF TypeOK, MaybeFile, Label, Call, Std, StdRefs
<1>2. Shape /\ CwdAlone /\ SlotInv /\ UseInv
  BY DEF Shape, CwdAlone, SlotInv, UseInv, CwdLabel, CwdCall
<1>3. ~CwdVacant /\ \A f \in File : ~CwdPending(f) /\ cwdfd # f
  BY DEF CwdVacant, CwdPending
<1>4. \A f \in File : Held(f) = IF f \in Std THEN 1 ELSE 0
  BY <1>3 DEF Held, One
<1>5. \A fd \in FD : files[fd] # NULL => files[fd] \in Std
  BY DEF Std
<1>6. TableInv /\ HeldInv
  BY <1>4, <1>5 DEF TableInv, HeldInv, Counted, Std, StdRefs
<1>7. UnusedInv /\ NewInv /\ CwdInv
  BY <1>3, <1>5 DEF UnusedInv, NewInv, CwdInv, InTable
<1>8. \A f \in File : InTable(f) <=> f \in Std
  BY <1>5 DEF InTable, Std
<1>9. RefsExact
  BY <1>3, <1>8 DEF RefsExact, Referenced, References, One, StdRefs
<1> QED
  BY <1>1, <1>2, <1>6, <1>7, <1>9 DEF IInv

(***************************************************************************)
(* The state of the process and of its calls stays well formed, whatever   *)
(* the client does.                                                        *)
(***************************************************************************)
THEOREM TypeCorrect == Spec => []TypeOK
<1>1. Init => TypeOK /\ Shape
  BY InitIInv DEF IInv
<1>2. TypeOK /\ Shape /\ [Next]_vars => TypeOK' /\ Shape'
  <2> SUFFICES ASSUME TypeOK, Shape, [Next]_vars PROVE TypeOK' /\ Shape'
    OBVIOUS
  <2>1. CASE Next
    BY <2>1, TypeStep DEF Next
  <2>2. CASE UNCHANGED vars
    BY <2>2 DEF vars, TypeOK, Shape
  <2> QED BY <2>1, <2>2
<1> QED BY <1>1, <1>2, PTL DEF Spec

(***************************************************************************)
(* A client that changes directory only while no other file system call is *)
(* in progress keeps the inductive invariant.                              *)
(***************************************************************************)
THEOREM IInvInvariant ==
    ASSUME SerialCwd PROVE Spec => []IInv
<1>1. Init => IInv
  BY InitIInv
<1>2. IInv /\ [Next]_vars => IInv'
  <2> SUFFICES ASSUME IInv, [Next]_vars PROVE IInv'
    OBVIOUS
  <2>1. CASE Next
    <3>1. PICK t \in Thread : Step(t)
      BY <2>1 DEF Next
    <3>2. TypeOK' /\ Shape'
      BY <3>1, TypeStep DEF IInv
    <3> QED BY <3>1, <3>2, IInvStep
  <2>2. CASE UNCHANGED vars
    <3>1. \A f \in File : CwdPending(f)' <=> CwdPending(f)
      BY <2>2 DEF vars, CwdPending
    <3>2. TableInv' /\ HeldInv'
      BY <2>2, <3>1, CountsFrame DEF vars, process
    <3>3. (TypeOK /\ Shape /\ CwdAlone)'
      BY <2>2 DEF vars, IInv, TypeOK, Shape, CwdAlone
    <3>4. (UnusedInv /\ NewInv /\ CwdInv)'
      BY <2>2 DEF vars, IInv, UnusedInv, NewInv, CwdInv, InTable, CwdVacant
    <3> QED BY <3>2, <3>3, <3>4 DEF IInv
  <2> QED BY <2>1, <2>2
<1> QED BY <1>1, <1>2, PTL DEF Spec

(***************************************************************************)
(* Under SerialCwd, what the table, the current directory and libtux refer *)
(* to is never closed or freed, even while opens race and fill the table.  *)
(***************************************************************************)
THEOREM ReferencesStayLive ==
    ASSUME SerialCwd PROVE Spec => []ReferencedLive
<1>1. IInv => ReferencedLive
  <2> SUFFICES ASSUME IInv PROVE ReferencedLive
    OBVIOUS
  <2>1. ASSUME NEW f \in File, Referenced(f)
        PROVE  host[f] = "open" /\ fdfile[f] = "live" /\ refs[f] >= References(f)
    <3>1. References(f) = Held(f) + One(InTable(f)) /\ Held(f) \in Nat
      BY DEF References, Held, One
    <3>2. CASE InTable(f)
      BY <3>1, <3>2, ConstantFacts DEF IInv, TableInv, InTable, Counted, One
    <3>3. CASE ~InTable(f)
      <4>1. Held(f) > 0
        BY <2>1, <3>3 DEF Referenced, Held, One
      <4> QED BY <3>1, <3>3, <4>1 DEF IInv, HeldInv, One
    <3> QED BY <3>2, <3>3
  <2>2. cwdfile # NULL /\ ~CwdVacant => host[cwdfile] = "open"
    <3>1. CASE cwdfd # NULL
      BY <2>1, <3>1 DEF IInv, TypeOK, MaybeFile, CwdInv, Referenced
    <3>2. CASE cwdfd = NULL
      BY <3>2 DEF IInv, CwdInv
    <3> QED BY <3>1, <3>2
  <2> QED BY <2>1, <2>2 DEF ReferencedLive
<1> QED BY <1>1, IInvInvariant, PTL

(***************************************************************************)
(* If in addition no thread closes a descriptor that a call of another     *)
(* thread is using, no call reads through a freed file.                    *)
(***************************************************************************)
THEOREM UsesAreSafe ==
    ASSUME SerialCwd, QuietCloses PROVE Spec => []NoUseAfterFree
<1>1. Init => UseInv
  BY InitIInv
<1>2. IInv /\ IInv' /\ UseInv /\ [Next]_vars => UseInv'
  <2> SUFFICES ASSUME IInv, IInv', UseInv, [Next]_vars PROVE UseInv'
    OBVIOUS
  <2>1. CASE Next
    BY <2>1, UseStep DEF Next
  <2>2. CASE UNCHANGED vars
    BY <2>2 DEF vars, UseInv, Counted, Held, One, CwdPending, CwdVacant
  <2> QED BY <2>1, <2>2
<1>3. IInv /\ ReferencedLive /\ UseInv => NoUseAfterFree
  <2> SUFFICES ASSUME IInv, ReferencedLive, UseInv, NEW t \in Thread
               PROVE  /\ obj[t] # NULL => fdfile[obj[t]] = "live"
                      /\ \A d \in dirs[t] : host[d] = "open"
    BY DEF NoUseAfterFree
  <2>1. obj[t] # NULL => fdfile[obj[t]] = "live"
    BY DEF UseInv, Counted
  <2>2. ASSUME NEW d \in dirs[t]
        PROVE  host[d] = "open"
    <3>1. d # NULL
      BY ConstantFacts DEF IInv, TypeOK
    <3> QED BY <3>1 DEF UseInv, Counted, ReferencedLive
  <2> QED BY <2>1, <2>2
<1> QED
  BY <1>1, <1>2, <1>3, IInvInvariant, ReferencesStayLive, PTL DEF Spec

(***************************************************************************)
(* SlotInv is an invariant when no two opens overlap.                      *)
(***************************************************************************)
LEMMA SlotInvariant ==
    ASSUME SerialOpens PROVE Spec => [](TypeOK /\ Shape /\ SlotInv)
<1>1. Init => TypeOK /\ Shape /\ SlotInv
  BY InitIInv DEF IInv
<1>2. TypeOK /\ Shape /\ SlotInv /\ [Next]_vars => (TypeOK /\ Shape /\ SlotInv)'
  <2> SUFFICES ASSUME TypeOK, Shape, SlotInv, [Next]_vars
               PROVE  (TypeOK /\ Shape /\ SlotInv)'
    OBVIOUS
  <2>1. CASE Next
    BY <2>1, TypeStep, SlotStep DEF Next
  <2>2. CASE UNCHANGED vars
    BY <2>2 DEF vars, TypeOK, Shape, SlotInv
  <2> QED BY <2>1, <2>2
<1> QED BY <1>1, <1>2, PTL DEF Spec

(***************************************************************************)
(* If no two opens overlap, a count is exactly the number of references.   *)
(***************************************************************************)
THEOREM CountsAreExact ==
    ASSUME SerialCwd, SerialOpens PROVE Spec => []RefsExact
<1>1. Init => RefsExact
  BY InitIInv
<1>2. IInv /\ IInv' /\ SlotInv /\ RefsExact /\ [Next]_vars => RefsExact'
  <2> SUFFICES ASSUME IInv, IInv', SlotInv, RefsExact, [Next]_vars
               PROVE  RefsExact'
    OBVIOUS
  <2>1. CASE Next
    BY <2>1, RefsStep DEF Next
  <2>2. CASE UNCHANGED vars
    BY <2>2, RefsFrame DEF vars, CwdPending
  <2> QED BY <2>1, <2>2
<1> QED
  BY <1>1, <1>2, IInvInvariant, SlotInvariant, PTL DEF Spec

(***************************************************************************)
(* If no two opens overlap, no open replaces the file of a descriptor.     *)
(***************************************************************************)
THEOREM DescriptorsAreStable ==
    ASSUME SerialOpens PROVE Spec => NoOverwrite
<1> DEFINE Kept == \A fd \in FD : files[fd] # NULL => files'[fd] \in {files[fd], NULL}
<1>1. TypeOK /\ Shape /\ SlotInv /\ [Next]_vars => [Kept]_vars
  <2> SUFFICES ASSUME TypeOK, Shape, SlotInv, NEW t \in Thread, Step(t)
               PROVE  Kept
    BY DEF Next
  <2>1. CASE Fdassign(t)
    BY <2>1 DEF Fdassign, TypeOK, SlotInv
  <2>2. ASSUME NEW fd \in FD, Close(t, fd)
        PROVE  Kept
    BY <2>2 DEF Close, TypeOK
  <2>3. ASSUME ~Fdassign(t), \A fd \in FD : ~Close(t, fd)
        PROVE  files' = files
    BY <2>3
    DEF Step, BeginFdCall, BadFd, UseFd, LookupCwd, LookupFd, LookupBadFd,
        IsDir,
        PathReturn, OpenHost, OpenNoMem, Fdalloc, Emfile, BeginChdir, OpenDir,
        OpenDirFails, CheckDir, CwdTake, CwdRelease, CwdClose, CwdRef, CwdSet,
        process, vars
  <2> QED BY <2>1, <2>2, <2>3
<1>2. Spec => [](TypeOK /\ Shape /\ SlotInv)
  BY SlotInvariant
<1> QED BY <1>1, <1>2, PTL DEF Spec, NoOverwrite

=============================================================================
