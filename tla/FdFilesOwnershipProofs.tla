----------------------- MODULE FdFilesOwnershipProofs -----------------------
(***************************************************************************)
(* FdFiles implements FileOwnership, for any number of threads, files and  *)
(* descriptors: every step of a system call opens, passes on or closes one *)
(* file, or leaves all files and their owners as they were.                *)
(***************************************************************************)
EXTENDS FdFilesOwnership, FdFilesProofs, FiniteSetTheorems

\* Some place of the process holds the file.
Holds(f) ==
    InTable(f) \/ (\E t \in Thread : CallOwns(t, f)) \/ CwdOwns(f) \/ f \in Std

\* A step leaves the places that hold the file alone.
Kept(f) ==
    /\ \A fd \in FD : files'[fd] = f <=> files[fd] = f
    /\ \A t \in Thread : CallOwns(t, f)' <=> CallOwns(t, f)
    /\ CwdOwns(f)' <=> CwdOwns(f)

owned == <<host, [f \in File |-> OwnersOf(f)]>>

\* No openat of this step finds the table full (see Emfile).
NoEmfileStep == \A t \in Thread : ~Emfile(t)

(***************************************************************************)
(* No openat finds the table full: a promise about the whole behaviour.    *)
(***************************************************************************)
NoEmfile == [][NoEmfileStep]_vars

-----------------------------------------------------------------------------
(* From places to the owners of the abstract specification *)

(***************************************************************************)
(* A file has an owner if and only if some place holds it.                 *)
(***************************************************************************)
LEMMA OwnedIff ==
    \A f \in File : /\ Ownership!Owned(f) <=> Holds(f)
                    /\ Ownership!Owned(f)' <=> Holds(f)'
<1> TAKE f \in File
<1>1. Ownership!Owned(f) <=> Holds(f)
  BY DEF Ownership!Owned, OwnersOf, Holds, InTable
<1>2. Ownership!Owned(f)' <=> Holds(f)'
  BY DEF Ownership!Owned, OwnersOf, Holds, InTable
<1> QED
  BY <1>1, <1>2

(***************************************************************************)
(* The same places are the same owners.                                    *)
(***************************************************************************)
LEMMA KeptOwners ==
    ASSUME NEW f \in File, Kept(f)
    PROVE  OwnersOf(f)' = OwnersOf(f)
<1>1. {fd \in FD : files'[fd] = f} = {fd \in FD : files[fd] = f}
  BY DEF Kept
<1>2. {t \in Thread : CallOwns(t, f)'} = {t \in Thread : CallOwns(t, f)}
  BY DEF Kept
<1>3. {x \in {f} : CwdOwns(f)'} = {x \in {f} : CwdOwns(f)}
  BY DEF Kept
<1> QED
  BY <1>1, <1>2, <1>3 DEF OwnersOf

(***************************************************************************)
(* A step that keeps every place and every host file is a stutter.         *)
(***************************************************************************)
LEMMA Stutter ==
    ASSUME UNCHANGED host, \A f \in File : Kept(f)
    PROVE  UNCHANGED owned
<1>1. \A f \in File : OwnersOf(f)' = OwnersOf(f)
  BY KeptOwners
<1> QED
  BY <1>1 DEF owned

(***************************************************************************)
(* A step that touches one file is a step of FileOwnership if the file is  *)
(* open and held after it, or was open and is now closed and not held.     *)
(***************************************************************************)
LEMMA OneFile ==
    ASSUME NEW f \in File,
           \A g \in File \ {f} : host'[g] = host[g] /\ Kept(g),
           \/ host[f] \in {"unused", "open"} /\ host'[f] = "open" /\ Holds(f)'
           \/ host[f] = "open" /\ host'[f] = "closed" /\ ~Holds(f)'
    PROVE  Ownership!Next
<1>1. Ownership!OnlyOf(f)
  BY KeptOwners DEF Ownership!OnlyOf
<1>2. Ownership!Owned(f)' <=> Holds(f)'
  BY OwnedIff
<1>3. Ownership!Open(f) \/ Ownership!Pass(f) \/ Ownership!LeaveLast(f)
  BY <1>1, <1>2 DEF Ownership!Open, Ownership!Pass, Ownership!LeaveLast
<1> QED
  BY <1>3 DEF Ownership!Next

-----------------------------------------------------------------------------
(* The steps of the system calls *)

(***************************************************************************)
(* A step that leaves the process alone and moves one call, neither to nor *)
(* from the last steps of chdir and fchdir, keeps every place.             *)
(***************************************************************************)
LEMMA QuietStep ==
    ASSUME NEW t \in Thread, UNCHANGED process,
           \A u \in Thread : newf'[u] = newf[u],
           \A u \in Thread \ {t} : pc'[u] = pc[u] /\ call'[u] = call[u] /\ obj'[u] = obj[u],
           pc[t] \notin {"ref", "set"}, pc'[t] \notin {"ref", "set"}
    PROVE  UNCHANGED owned
<1>1. CwdVacant' <=> CwdVacant
  BY DEF CwdVacant
<1>2. \A f \in File : Kept(f)
  BY <1>1 DEF Kept, CallOwns, CwdOwns, process
<1> QED
  BY <1>2, Stutter DEF process

(***************************************************************************)
(* A call that returns without having opened a file keeps every place.     *)
(***************************************************************************)
LEMMA QuietReturn ==
    ASSUME TypeOK, NEW t \in Thread, UNCHANGED process, Return(t), newf[t] = NULL,
           pc[t] \notin {"ref", "set"}
    PROVE  UNCHANGED owned
<1>1. /\ \A u \in Thread : newf'[u] = newf[u]
      /\ \A u \in Thread \ {t} : pc'[u] = pc[u] /\ call'[u] = call[u] /\ obj'[u] = obj[u]
      /\ pc'[t] = "idle"
  BY DEF TypeOK, Return, Begin
<1> QED
  BY <1>1, QuietStep

(***************************************************************************)
(* A call in the last steps of chdir and fchdir is the only one in the     *)
(* file system calls.                                                      *)
(***************************************************************************)
LEMMA AloneInCwd ==
    ASSUME IInv, NEW t \in Thread, pc[t] \in CwdLabel, NEW u \in Thread \ {t}
    PROVE  pc[u] = "idle" /\ call[u] = "none" /\ newf[u] = NULL /\ obj[u] = NULL
BY DEF IInv, Shape, CwdAlone, CwdLabel, CwdCall

(***************************************************************************)
(* close drops the table's hold of one file, and closes it if that was the *)
(* last hold.                                                              *)
(***************************************************************************)
LEMMA CloseOwns ==
    ASSUME IInv, NEW t \in Thread, NEW fd \in FD, Close(t, fd)
    PROVE  Ownership!Next
<1>0. PICK f \in File : f = files[fd]
  BY DEF IInv, TypeOK, MaybeFile, Close, fdhas
<1> USE <1>0
<1>1. f \in File /\ f # NULL /\ InTable(f) /\ Counted(f) /\ refs[f] \in 0..SIZE_MAX
  BY ConstantFacts DEF IInv, TypeOK, MaybeFile, Close, fdhas, TableInv, InTable
<1>2. /\ \A i \in FD : files'[i] = IF i = fd THEN NULL ELSE files[i]
      /\ UNCHANGED <<cwdfd, cwdfile, pc, call, obj, newf>>
      /\ \A g \in File \ {f} : host'[g] = host[g]
      /\ host'[f] = IF Dec(refs[f]) = 0 THEN "closed" ELSE host[f]
  BY <1>1 DEF IInv, TypeOK, Close, fdrelease, locals
<1>3. \A g \in File : /\ \A u \in Thread : CallOwns(u, g)' <=> CallOwns(u, g)
                      /\ CwdOwns(g)' <=> CwdOwns(g)
                      /\ CwdPending(g)' <=> CwdPending(g)
  BY <1>2 DEF CallOwns, CwdOwns, CwdVacant, CwdPending
<1>4. \A g \in File \ {f} : host'[g] = host[g] /\ Kept(g)
  <2>1. \A g \in File \ {f} : g # NULL
    BY ConstantFacts
  <2> QED
    BY <1>2, <1>3, <2>1 DEF Kept
<1>5. ~InTable(f)'
  BY <1>1, <1>2 DEF InTable, IInv, TableInv
<1>6. Dec(refs[f]) = Held(f) /\ Held(f) \in Nat
  BY <1>1 DEF Counted, Held, One, Dec
<1>7. Holds(f)' <=> Held(f) > 0
  <2>1. \A u \in Thread : newf[u] # f
    BY <1>1 DEF IInv, NewInv
  <2>2. ~(cwdfd = NULL /\ cwdfile = f /\ ~CwdVacant)
    BY <1>1 DEF IInv, CwdInv
  <2>3. Holds(f)' <=> CwdPending(f) \/ cwdfd = f \/ f \in Std
    BY <1>3, <1>5, <2>1, <2>2 DEF Holds, CallOwns, CwdOwns, CwdPending
  <2>4. Held(f) > 0 <=> CwdPending(f) \/ cwdfd = f \/ f \in Std
    BY DEF Held, One
  <2> QED
    BY <2>3, <2>4
<1>8. host[f] = "open"
  BY <1>1 DEF Counted
<1>9. \/ host'[f] = "open" /\ Holds(f)'
      \/ host'[f] = "closed" /\ ~Holds(f)'
  BY <1>2, <1>6, <1>7, <1>8
<1> QED
  BY <1>1, <1>4, <1>8, <1>9, OneFile

(***************************************************************************)
(* The call that opens a file holds it.                                    *)
(***************************************************************************)
LEMMA OpenOwns ==
    ASSUME IInv, NEW t \in Thread, NEW f \in File, OpenHost(t, f) \/ OpenDir(t, f)
    PROVE  Ownership!Next
<1>1. /\ host[f] = "unused" /\ host'[f] = "open" /\ newf'[t] = f /\ newf[t] = NULL
      /\ \A g \in File \ {f} : host'[g] = host[g]
      /\ \A u \in Thread \ {t} : pc'[u] = pc[u] /\ newf'[u] = newf[u]
      /\ pc[t] = "path" /\ pc'[t] \in {"fdalloc", "take"}
      /\ UNCHANGED <<files, cwdfd, cwdfile, call, obj>>
  BY DEF IInv, TypeOK, Shape, OpenHost, OpenDir, Goto
<1>2. CwdVacant' <=> CwdVacant
  BY <1>1 DEF CwdVacant
<1>3. \A g \in File \ {f} : Kept(g)
  BY <1>1, <1>2, ConstantFacts DEF Kept, CallOwns, CwdOwns
<1>4. Holds(f)'
  BY <1>1 DEF Holds, CallOwns
<1> QED
  BY <1>1, <1>3, <1>4, OneFile

(***************************************************************************)
(* fdassign passes the file from the call to a descriptor that was free.   *)
(***************************************************************************)
LEMMA FdassignOwns ==
    ASSUME IInv, SlotInv, NEW t \in Thread, Fdassign(t)
    PROVE  Ownership!Next
<1>0. PICK f \in File : f = newf[t]
  BY DEF Fdassign, IInv, TypeOK, MaybeFile, Shape
<1> USE <1>0
<1>1. f \in File /\ host[f] = "open" /\ slot[t] \in FD /\ files[slot[t]] = NULL
  BY DEF Fdassign, IInv, TypeOK, MaybeFile, Shape, NewInv, SlotInv
<1>2. /\ \A i \in FD : files'[i] = IF i = slot[t] THEN f ELSE files[i]
      /\ UNCHANGED <<cwdfd, cwdfile, host>>
      /\ \A u \in Thread \ {t} : pc'[u] = pc[u] /\ newf'[u] = newf[u] /\ call'[u] = call[u]
                                 /\ obj'[u] = obj[u]
      /\ newf'[t] = NULL /\ pc[t] = "fdassign" /\ pc'[t] = "idle"
  BY <1>1 DEF Fdassign, Return, Begin, IInv, TypeOK
<1>3. CwdVacant' <=> CwdVacant
  BY <1>2 DEF CwdVacant
<1>4. \A g \in File \ {f} : Kept(g)
  BY <1>1, <1>2, <1>3, ConstantFacts DEF Kept, CallOwns, CwdOwns
<1>5. Holds(f)'
  BY <1>1, <1>2 DEF Holds, InTable
<1> QED
  BY <1>1, <1>2, <1>4, <1>5, OneFile

(***************************************************************************)
(* chdir and fchdir drop the old directory if it came from a descriptor,   *)
(* and close it if nothing else refers to it.                              *)
(***************************************************************************)
LEMMA CwdReleaseOwns ==
    ASSUME IInv, RefsExact, NEW t \in Thread, CwdRelease(t)
    PROVE  Ownership!Next
<1>0. PICK f \in File : f = old[t]
  BY DEF CwdRelease, IInv, TypeOK, MaybeFile, Shape
<1> USE <1>0
<1>1. /\ f \in File /\ f # NULL /\ cwdfd = f /\ cwdfile = f /\ ~CwdVacant
      /\ refs[f] \in 0..SIZE_MAX
  BY DEF CwdRelease, IInv, TypeOK, MaybeFile, Shape, CwdInv
<1>2. /\ \A g \in File \ {f} : host'[g] = host[g]
      /\ host'[f] = IF Dec(refs[f]) = 0 THEN "closed" ELSE host[f]
      /\ UNCHANGED <<files, cwdfile, call, obj, newf>>
      /\ cwdfd' = NULL
      /\ pc[t] = "release"
      /\ pc'[t] = AfterDrop(t)
      /\ \A u \in Thread \ {t} : pc'[u] = pc[u]
  BY <1>1 DEF CwdRelease, fdrelease, Goto, IInv, TypeOK
<1>3. pc'[t] = "set" => call[t] # "fchdir"
  BY <1>2 DEF AfterDrop
<1>4. CwdVacant'
  BY <1>2 DEF CwdVacant, AfterDrop
<1>5. \A u \in Thread, g \in File : CallOwns(u, g)' <=> CallOwns(u, g)
  BY <1>2, <1>3 DEF CallOwns
<1>6. \A g \in File \ {f} : Kept(g)
  <2>1. \A g \in File : ~CwdOwns(g)'
    BY <1>2, <1>4, ConstantFacts DEF CwdOwns
  <2>2. \A g \in File \ {f} : ~CwdOwns(g)
    BY <1>1 DEF CwdOwns
  <2> QED
    BY <1>2, <1>5, <2>1, <2>2 DEF Kept
<1>7. host[f] = "open" /\ refs[f] = References(f)
  <2>1. Held(f) > 0
    BY <1>1 DEF Held, One
  <2>2. Referenced(f)
    BY <1>1 DEF Referenced
  <2> QED
    BY <1>1, <2>1, <2>2 DEF IInv, HeldInv, RefsExact
<1>8. Holds(f)' <=> InTable(f) \/ CwdPending(f) \/ f \in Std
  <2>1. \A u \in Thread : newf[u] # f
    BY <1>1 DEF IInv, NewInv
  <2>2. ~CwdOwns(f)' /\ (InTable(f)' <=> InTable(f))
    BY <1>1, <1>2, <1>4 DEF CwdOwns, InTable
  <2>3. (\E u \in Thread : CallOwns(u, f)') <=> CwdPending(f)
    BY <1>1, <1>5, <2>1 DEF CallOwns, CwdPending
  <2> QED
    BY <2>2, <2>3 DEF Holds
<1>9. Dec(refs[f]) = 0 <=> ~(InTable(f) \/ CwdPending(f) \/ f \in Std)
  BY <1>1, <1>7 DEF References, One, Dec
<1>10. \/ host'[f] = "open" /\ Holds(f)'
       \/ host'[f] = "closed" /\ ~Holds(f)'
  BY <1>2, <1>7, <1>8, <1>9
<1> QED
  BY <1>1, <1>2, <1>6, <1>7, <1>10, OneFile

(***************************************************************************)
(* They close it if chdir had opened it.                                   *)
(***************************************************************************)
LEMMA CwdCloseOwns ==
    ASSUME IInv, NEW t \in Thread, CwdClose(t)
    PROVE  Ownership!Next
<1>0. PICK f \in File : f = old[t]
  BY DEF CwdClose, IInv, TypeOK, MaybeFile, Shape
<1> USE <1>0
<1>1. pc[t] = "close" /\ f \in File /\ f # NULL /\ cwdfd = NULL /\ cwdfile = f
  BY DEF CwdClose, IInv, TypeOK, MaybeFile, Shape, CwdInv
<1>2. ~CwdVacant
  BY <1>1, AloneInCwd DEF CwdVacant, CwdLabel
<1>3. host[f] = "open" /\ fdfile[f] = "none" /\ ~InTable(f) /\ f \notin Std
  BY <1>1, <1>2 DEF IInv, CwdInv
<1>4. /\ \A g \in File \ {f} : host'[g] = host[g]
      /\ host'[f] = "closed"
      /\ UNCHANGED <<files, cwdfd, cwdfile, call, obj, newf>>
      /\ pc'[t] = AfterDrop(t)
      /\ \A u \in Thread \ {t} : pc'[u] = pc[u]
  BY <1>1 DEF CwdClose, Goto, IInv, TypeOK
<1>5. \A u \in Thread, g \in File : CallOwns(u, g)' <=> CallOwns(u, g)
  <2>1. pc'[t] = "set" => call[t] # "fchdir"
    BY <1>4 DEF AfterDrop
  <2> QED
    BY <1>1, <1>4, <2>1 DEF CallOwns
<1>6. CwdVacant'
  BY <1>4 DEF CwdVacant, AfterDrop
<1>7. \A g \in File : ~CwdOwns(g)'
  BY <1>1, <1>4, <1>6, ConstantFacts DEF CwdOwns
<1>8. \A g \in File \ {f} : Kept(g)
  <2>1. \A g \in File \ {f} : ~CwdOwns(g)
    BY <1>1, ConstantFacts DEF CwdOwns
  <2> QED
    BY <1>4, <1>5, <1>7, <2>1 DEF Kept
<1>9. ~Holds(f)'
  <2>1. \A u \in Thread : newf[u] # f
    BY <1>1 DEF IInv, NewInv
  <2>2. ~CwdPending(f)
    <3>1. CwdPending(f) => Held(f) > 0
      BY DEF Held, One
    <3> QED
      BY <1>1, <1>3, <3>1 DEF IInv, HeldInv
  <2>3. \A u \in Thread : ~CallOwns(u, f)'
    BY <1>1, <1>5, <2>1, <2>2 DEF CallOwns, CwdPending
  <2>4. ~InTable(f)'
    BY <1>3, <1>4 DEF InTable
  <2> QED
    BY <1>1, <1>3, <1>7, <2>3, <2>4 DEF Holds
<1> QED
  BY <1>1, <1>3, <1>4, <1>8, <1>9, OneFile

(***************************************************************************)
(* fchdir holds its directory once it has counted its reference.           *)
(***************************************************************************)
LEMMA CwdRefOwns ==
    ASSUME IInv, NEW t \in Thread, CwdRef(t)
    PROVE  Ownership!Next
<1>0. PICK f \in File : f = obj[t]
  BY DEF CwdRef, IInv, TypeOK, MaybeFile, Shape
<1> USE <1>0
<1>1. pc[t] = "ref" /\ call[t] = "fchdir" /\ f \in File /\ InTable(f) /\ host[f] = "open"
  BY ConstantFacts
  DEF CwdRef, IInv, TypeOK, MaybeFile, Shape, CwdInv, TableInv, InTable, Counted
<1>2. /\ UNCHANGED <<host, files, cwdfd, cwdfile, call, obj, newf>>
      /\ pc'[t] = "set" /\ \A u \in Thread \ {t} : pc'[u] = pc[u]
  BY DEF CwdRef, Goto, IInv, TypeOK
<1>3. CwdVacant /\ CwdVacant'
  BY <1>1, <1>2 DEF CwdVacant
<1>4. \A g \in File \ {f} : Kept(g)
  BY <1>1, <1>2, <1>3 DEF Kept, CallOwns, CwdOwns
<1>5. Holds(f)'
  BY <1>1, <1>2 DEF Holds, CallOwns
<1> QED
  BY <1>1, <1>2, <1>4, <1>5, OneFile

(***************************************************************************)
(* The call passes the new directory on to the process.                    *)
(***************************************************************************)
LEMMA CwdSetOwns ==
    ASSUME IInv, NEW t \in Thread, CwdSet(t)
    PROVE  Ownership!Next \/ UNCHANGED owned
<1>1. /\ pc[t] = "set" /\ pc'[t] = "idle" /\ newf'[t] = NULL
      /\ UNCHANGED <<host, files>>
      /\ \A u \in Thread \ {t} : pc'[u] = pc[u] /\ newf'[u] = newf[u] /\ call'[u] = call[u]
                                 /\ obj'[u] = obj[u]
  BY DEF CwdSet, Return, Begin, IInv, TypeOK
<1>2. \A u \in Thread \ {t} : pc[u] = "idle" /\ newf[u] = NULL
  BY <1>1, AloneInCwd DEF CwdLabel
<1>3. CwdVacant /\ ~CwdVacant'
  BY <1>1, <1>2 DEF CwdVacant
<1>4. cwdfd = NULL
  BY <1>3 DEF IInv, CwdInv
<1>5. \A g \in File : ~CwdOwns(g)
  BY <1>3, <1>4, ConstantFacts DEF CwdOwns
<1>6. \A u \in Thread, g \in File : ~CallOwns(u, g)'
  BY <1>1, <1>2, ConstantFacts DEF CallOwns
<1>7. CASE call[t] = "fchdir"
  <2>0. PICK f \in File : f = obj[t]
    BY <1>7 DEF IInv, TypeOK, MaybeFile, Shape
  <2> USE <2>0
  <2>1. f \in File /\ InTable(f) /\ host[f] = "open" /\ newf[t] = NULL
    BY <1>1, <1>7, ConstantFacts
    DEF IInv, TypeOK, MaybeFile, Shape, CwdInv, TableInv, InTable, Counted
  <2>2. cwdfd' = f /\ cwdfile' = f
    BY <1>7 DEF CwdSet
  <2>3. \A g \in File \ {f} : Kept(g)
    <3>1. \A u \in Thread, g \in File \ {f} : ~CallOwns(u, g)
      BY <1>2, <2>1, ConstantFacts DEF CallOwns
    <3>2. \A g \in File \ {f} : ~CwdOwns(g)'
      BY <2>1, <2>2, ConstantFacts DEF CwdOwns
    <3> QED
      BY <1>1, <1>5, <1>6, <3>1, <3>2 DEF Kept
  <2>4. Holds(f)'
    BY <2>2 DEF Holds, CwdOwns
  <2> QED
    BY <1>1, <2>1, <2>3, <2>4, OneFile
<1>8. CASE call[t] # "fchdir"
  <2>1. UNCHANGED cwdfd /\ cwdfile' = newf[t]
    BY <1>8 DEF CwdSet
  <2>2. \A u \in Thread, g \in File : CallOwns(u, g) => g = newf[t]
    BY <1>2, <1>8, ConstantFacts DEF CallOwns
  <2>3. \A g \in File : CwdOwns(g)' => g = newf[t]
    BY <1>4, <2>1, ConstantFacts DEF CwdOwns
  <2>4. \A g \in File : g # newf[t] => Kept(g)
    BY <1>1, <1>5, <1>6, <2>2, <2>3 DEF Kept
  <2>5. CASE newf[t] = NULL
    BY <1>1, <2>4, <2>5, Stutter, ConstantFacts
  <2>6. CASE newf[t] # NULL
    <3>1. PICK f \in File : f = newf[t]
      BY <2>6 DEF IInv, TypeOK, MaybeFile
    <3>2. host[f] = "open"
      BY <2>6, <3>1 DEF IInv, NewInv
    <3>3. Holds(f)'
      BY <1>3, <1>4, <2>1, <3>1 DEF Holds, CwdOwns
    <3> QED
      BY <1>1, <2>4, <3>1, <3>2, <3>3, OneFile
  <2> QED
    BY <2>5, <2>6
<1> QED
  BY <1>7, <1>8

(***************************************************************************)
(* Every step of a system call is a step of FileOwnership or a stutter,    *)
(* unless openat runs out of memory or of descriptors.                     *)
(***************************************************************************)
LEMMA RefStep ==
    ASSUME ~MallocMayFail, IInv, SlotInv, RefsExact,
           NEW t \in Thread, Step(t), ~Emfile(t)
    PROVE  Ownership!Next \/ UNCHANGED owned
<1>1. CASE \E fd \in FD : Close(t, fd)
  BY <1>1, CloseOwns
<1>2. CASE \E f \in File : OpenHost(t, f) \/ OpenDir(t, f)
  BY <1>2, OpenOwns
<1>3. CASE Fdassign(t)
  BY <1>3, FdassignOwns
<1>4. CASE CwdRelease(t)
  BY <1>4, CwdReleaseOwns
<1>5. CASE CwdClose(t)
  BY <1>5, CwdCloseOwns
<1>6. CASE CwdRef(t)
  BY <1>6, CwdRefOwns
<1>7. CASE CwdSet(t)
  BY <1>7, CwdSetOwns
<1>8. \A f \in File : ~OpenNoMem(t, f)
  BY DEF OpenNoMem
<1>9. CASE \E fd \in FD, c \in {"fdop", "fchdir"} : BeginFdCall(t, fd, c)
  BY <1>9, QuietStep DEF IInv, TypeOK, BeginFdCall, Begin
<1>10. CASE \E fd \in AnyFd : BadFd(t, fd)
  BY <1>10, QuietStep DEF BadFd, vars, process
<1>11. CASE UseFd(t) \/ PathReturn(t)
  BY <1>11, QuietReturn DEF IInv, Shape, UseFd, PathReturn
<1>12. CASE \E c \in Call, fd \in FD : LookupFd(t, c, fd)
  BY <1>12, QuietStep DEF IInv, TypeOK, LookupFd, BeginLookup, Begin
<1>13. ASSUME NEW c, NEW ds, Resolve(t, c, ds), UNCHANGED process, pc[t] \notin {"ref", "set"}
       PROVE  UNCHANGED owned
  BY <1>13, QuietStep DEF IInv, TypeOK, Resolve, Begin
<1>14. ASSUME NEW c, Unresolved(t, c), UNCHANGED process, newf[t] = NULL,
              pc[t] \notin {"ref", "set"}
       PROVE  UNCHANGED owned
  <2>1. CASE c = "renameat"
    BY <1>14, <2>1, QuietStep DEF IInv, TypeOK, Unresolved, Begin
  <2>2. CASE c # "renameat"
    BY <1>14, <2>2, QuietReturn DEF IInv, Unresolved
  <2> QED
    BY <2>1, <2>2
<1>15. CASE \E c \in Call : LookupCwd(t, c)
  BY <1>13, <1>15 DEF LookupCwd, BeginLookup
<1>16. CASE \E c \in Call, fd \in AnyFd : LookupBadFd(t, c, fd)
  <2>1. pc[t] \in {"idle", "dir2"}
    BY <1>16 DEF LookupBadFd, BeginLookup
  <2>2. newf[t] = NULL
    BY <2>1 DEF IInv, Shape, CwdLabel
  <2> QED
    BY <1>14, <1>16, <2>1, <2>2 DEF LookupBadFd
<1>17. CASE IsDir(t)
  <2>1. newf[t] = NULL
    BY <1>17 DEF IsDir, IInv, Shape, CwdLabel
  <2> QED
    BY <1>13, <1>14, <1>17, <2>1 DEF IsDir
<1>18. CASE \E fd \in 0..NOFILE : Fdalloc(t, fd)
  BY <1>18, QuietStep DEF IInv, TypeOK, Fdalloc, Goto
<1>19. CASE BeginChdir(t)
  BY <1>19, QuietStep DEF IInv, TypeOK, BeginChdir, Begin
<1>20. CASE OpenDirFails(t)
  BY <1>20, QuietStep DEF IInv, TypeOK, OpenDirFails, Goto
<1>21. CASE CheckDir(t)
  <2>1. CASE Return(t)
    BY <1>21, <2>1, QuietReturn DEF IInv, Shape, CheckDir
  <2>2. CASE Goto(t, "take") /\ UNCHANGED <<obj, newf>>
    BY <1>21, <2>2, QuietStep DEF IInv, TypeOK, CheckDir, Goto
  <2> QED
    BY <1>21, <2>1, <2>2 DEF CheckDir
<1>22. CASE CwdTake(t)
  <2>1. CASE Goto(t, "release") \/ Goto(t, "close")
    BY <1>22, <2>1, QuietStep DEF IInv, TypeOK, CwdTake, Goto
  <2>2. CASE cwdfd = NULL /\ cwdfile = NULL /\ Goto(t, AfterDrop(t))
    <3>1. /\ UNCHANGED <<files, cwdfd, cwdfile, host, newf, obj, call>>
          /\ pc[t] = "take" /\ pc'[t] = AfterDrop(t)
          /\ \A u \in Thread \ {t} : pc'[u] = pc[u]
      BY <1>22, <2>2 DEF CwdTake, Goto, process, IInv, TypeOK
    <3>2. pc'[t] = "set" => call[t] # "fchdir"
      BY <3>1 DEF AfterDrop
    <3>3. \A u \in Thread, g \in File : CallOwns(u, g)' <=> CallOwns(u, g)
      BY <3>1, <3>2 DEF CallOwns
    <3>4. \A g \in File : ~CwdOwns(g) /\ ~CwdOwns(g)'
      BY <2>2, <3>1, ConstantFacts DEF CwdOwns
    <3>5. \A g \in File : Kept(g)
      BY <3>1, <3>3, <3>4 DEF Kept
    <3> QED
      BY <3>1, <3>5, Stutter
  <2> QED
    BY <1>22, <2>1, <2>2 DEF CwdTake
<1> QED
  BY <1>1, <1>2, <1>3, <1>4, <1>5, <1>6, <1>7, <1>8, <1>9, <1>10, <1>11, <1>12, <1>15,
      <1>16, <1>17, <1>18, <1>19, <1>20, <1>21, <1>22
  DEF Step

(***************************************************************************)
(* A new process owns its standard files and has opened no other.          *)
(***************************************************************************)
LEMMA RefInit == Init => Ownership!Init
<1> SUFFICES ASSUME Init, NEW f \in File
             PROVE  \/ host[f] = "open" /\ Ownership!Owned(f)
                    \/ host[f] = "unused" /\ ~Ownership!Owned(f)
  BY DEF Ownership!Init
<1>1. Ownership!Owned(f) <=> Holds(f)
  BY OwnedIff
<1>2. Holds(f) <=> f \in Std
  <2>1. \A fd \in FD : files[fd] # NULL => files[fd] \in Std
    BY DEF Init, Std
  <2>2. InTable(f) => f \in Std
    BY <2>1, ConstantFacts DEF InTable
  <2> QED
    BY <2>2, ConstantFacts DEF Init, Holds, CallOwns, CwdOwns
<1> QED
  BY <1>1, <1>2 DEF Init

-----------------------------------------------------------------------------
(* Every FDFile has a reference *)

(***************************************************************************)
(* An FDFile is referred to, or about to be put into the table by the call *)
(* that made it.                                                           *)
(***************************************************************************)
LiveInv ==
    \A f \in File : fdfile[f] = "live" => Referenced(f) \/ \E t \in Thread : newf[t] = f

(***************************************************************************)
(* A step that takes nothing away keeps that.                              *)
(***************************************************************************)
LEMMA LiveFrame ==
    ASSUME LiveInv, NEW t \in Thread,
           \A fd \in FD : files'[fd] = files[fd], cwdfd' = cwdfd,
           \A f \in File : fdfile'[f] = "live" => fdfile[f] = "live",
           \A u \in Thread : newf'[u] = newf[u],
           \A u \in Thread \ {t} : pc'[u] = pc[u] /\ call'[u] = call[u] /\ obj'[u] = obj[u],
           pc[t] # "set"
    PROVE  LiveInv'
<1>1. \A f \in File : CwdPending(f) => CwdPending(f)'
  BY DEF CwdPending
<1> QED
  BY <1>1 DEF LiveInv, Referenced, InTable

(***************************************************************************)
(* So does a call that returns without having made an FDFile.              *)
(***************************************************************************)
LEMMA LiveReturn ==
    ASSUME TypeOK, LiveInv, NEW t \in Thread, UNCHANGED <<files, cwdfd, fdfile>>, Return(t),
           newf[t] = NULL, pc[t] # "set"
    PROVE  LiveInv'
<1>1. /\ \A u \in Thread : newf'[u] = newf[u]
      /\ \A u \in Thread \ {t} : pc'[u] = pc[u] /\ call'[u] = call[u] /\ obj'[u] = obj[u]
  BY DEF TypeOK, Return, Begin
<1> QED
  BY <1>1, LiveFrame

(***************************************************************************)
(* close and the release of a directory free the FDFile when they drop its *)
(* last reference, because its count is exact.                             *)
(***************************************************************************)
LEMMA LiveDrop ==
    ASSUME LiveInv, TypeOK, NEW f \in File, fdrelease(f),
           Dec(refs[f]) # 0 => Referenced(f)',
           \A g \in File \ {f} : Referenced(g) => Referenced(g)',
           newf' = newf
    PROVE  LiveInv'
<1>1. \A g \in File \ {f} : fdfile'[g] = fdfile[g]
  BY DEF fdrelease, TypeOK
<1>2. Dec(refs[f]) = 0 => fdfile'[f] = "freed"
  BY DEF fdrelease, TypeOK
<1> QED
  BY <1>1, <1>2 DEF LiveInv

(***************************************************************************)
(* close: what is left of the count is the other references.               *)
(***************************************************************************)
LEMMA LiveClose ==
    ASSUME IInv, LiveInv, NEW t \in Thread, NEW fd \in FD, Close(t, fd)
    PROVE  LiveInv'
<1>1. PICK f \in File : f = files[fd]
  BY DEF IInv, TypeOK, MaybeFile, Close, fdhas
<1>2. /\ f # NULL /\ Counted(f) /\ refs[f] \in 0..SIZE_MAX
      /\ fdrelease(f)
      /\ \A j \in FD : files'[j] = IF j = fd THEN NULL ELSE files[j]
      /\ UNCHANGED <<cwdfd, pc, call, obj, newf>>
  BY <1>1, ConstantFacts DEF IInv, TypeOK, TableInv, Close, fdhas, locals
<1>3. \A g \in File : CwdPending(g)' <=> CwdPending(g)
  BY <1>2 DEF CwdPending
<1>4. \A g \in File \ {f} : Referenced(g) => Referenced(g)'
  BY <1>1, <1>2, <1>3 DEF Referenced, InTable
<1>5. Dec(refs[f]) = Held(f)
  BY <1>2 DEF Counted, Held, One, Dec
<1>6. Held(f) # 0 => Referenced(f)'
  BY <1>2, <1>3 DEF Held, One, Referenced
<1> QED
  BY <1>2, <1>4, <1>5, <1>6, LiveDrop DEF IInv

(***************************************************************************)
(* chdir and fchdir: the old directory may be in the table still.          *)
(***************************************************************************)
LEMMA LiveRelease ==
    ASSUME IInv, RefsExact, LiveInv, NEW t \in Thread, CwdRelease(t)
    PROVE  LiveInv'
<1>1. PICK f \in File : f = old[t]
  BY DEF CwdRelease, IInv, TypeOK, MaybeFile, Shape
<1>2. /\ cwdfd = f /\ refs[f] \in 0..SIZE_MAX /\ fdrelease(f)
      /\ UNCHANGED <<files, call, obj, newf>> /\ pc[t] = "release"
      /\ \A u \in Thread \ {t} : pc'[u] = pc[u]
  BY <1>1 DEF CwdRelease, Goto, IInv, TypeOK, MaybeFile, Shape, CwdInv
<1>3. \A g \in File : CwdPending(g) => CwdPending(g)'
  BY <1>2 DEF CwdPending
<1>4. \A g \in File \ {f} : Referenced(g) => Referenced(g)'
  BY <1>2, <1>3 DEF Referenced, InTable
<1>5. refs[f] = References(f)
  BY <1>2 DEF RefsExact, Referenced
<1>6. Dec(refs[f]) = 0 \/ InTable(f) \/ CwdPending(f) \/ f \in Std
  BY <1>2, <1>5 DEF References, One, Dec
<1>7. Dec(refs[f]) # 0 => Referenced(f)'
  BY <1>2, <1>3, <1>6 DEF Referenced, InTable
<1> QED
  BY <1>2, <1>4, <1>7, LiveDrop DEF IInv

(***************************************************************************)
(* fdassign replaces the call's hold by the table's and drops nothing.     *)
(***************************************************************************)
LEMMA LiveAssign ==
    ASSUME IInv, SlotInv, LiveInv, NEW t \in Thread, Fdassign(t)
    PROVE  LiveInv'
<1>1. slot[t] \in FD /\ files[slot[t]] = NULL
  BY DEF Fdassign, IInv, TypeOK, SlotInv
<1>2. /\ \A j \in FD : files'[j] = IF j = slot[t] THEN newf[t] ELSE files[j]
      /\ UNCHANGED <<cwdfd, fdfile>> /\ pc[t] = "fdassign"
      /\ \A u \in Thread \ {t} : pc'[u] = pc[u] /\ newf'[u] = newf[u] /\ call'[u] = call[u]
                                 /\ obj'[u] = obj[u]
  BY <1>1 DEF Fdassign, Return, Begin, IInv, TypeOK
<1>3. \A g \in File : CwdPending(g) => CwdPending(g)'
  BY <1>2 DEF CwdPending
<1>4. \A g \in File : Referenced(g) => Referenced(g)'
  BY <1>1, <1>2, <1>3, ConstantFacts DEF Referenced, InTable
<1>5. \A g \in File : g = newf[t] => Referenced(g)'
  BY <1>1, <1>2 DEF Referenced, InTable
<1> QED
  BY <1>2, <1>4, <1>5 DEF LiveInv

(***************************************************************************)
(* fchdir passes its reference on to the process; the directory that chdir *)
(* passes on has no FDFile.                                                *)
(***************************************************************************)
LEMMA LiveSet ==
    ASSUME IInv, LiveInv, NEW t \in Thread, CwdSet(t)
    PROVE  LiveInv'
<1>1. /\ pc[t] = "set" /\ UNCHANGED <<files, fdfile>>
      /\ call[t] = "fchdir" => cwdfd' = obj[t]
  BY DEF CwdSet
<1>2. cwdfd = NULL
  BY <1>1 DEF IInv, CwdInv, CwdVacant
<1>3. \A u \in Thread \ {t} : pc[u] = "idle" /\ newf[u] = NULL
  BY <1>1, AloneInCwd DEF CwdLabel
<1>4. \A g \in File : Referenced(g) => Referenced(g)'
  <2>1. \A g \in File : CwdPending(g) => cwdfd' = g
    BY <1>1, <1>3 DEF CwdPending
  <2> QED
    BY <1>1, <1>2, <2>1, ConstantFacts DEF Referenced, InTable
<1>5. \A g \in File : newf[t] = g => fdfile[g] # "live"
  BY <1>1, ConstantFacts DEF IInv, Shape, NewInv, CwdLabel, CwdCall
<1> QED
  BY <1>1, <1>3, <1>4, <1>5, ConstantFacts DEF LiveInv

(***************************************************************************)
(* Every step but an openat that finds the table full keeps every FDFile   *)
(* named.                                                                  *)
(***************************************************************************)
LEMMA LiveStep ==
    ASSUME IInv, SlotInv, RefsExact, LiveInv, NEW t \in Thread, Step(t), ~Emfile(t)
    PROVE  LiveInv'
<1>1. CASE \E fd \in FD : Close(t, fd)
  BY <1>1, LiveClose
<1>2. CASE \E f \in File : OpenHost(t, f)
  <2>1. PICK f \in File : OpenHost(t, f)
    BY <1>2
  <2>2. /\ pc[t] = "path" /\ newf[t] = NULL /\ newf'[t] = f
        /\ \A g \in File \ {f} : fdfile'[g] = fdfile[g]
        /\ \A u \in Thread \ {t} : pc'[u] = pc[u] /\ newf'[u] = newf[u]
        /\ UNCHANGED <<files, cwdfd, call, obj>>
    BY <2>1 DEF OpenHost, Goto, IInv, TypeOK, Shape
  <2>3. \A g \in File : CwdPending(g) => CwdPending(g)'
    BY <2>2 DEF CwdPending
  <2>4. \A g \in File : Referenced(g) => Referenced(g)'
    BY <2>2, <2>3 DEF Referenced, InTable
  <2> QED
    BY <2>2, <2>4, ConstantFacts DEF LiveInv
<1>3. CASE Fdassign(t)
  BY <1>3, LiveAssign
<1>4. CASE CwdRelease(t)
  BY <1>4, LiveRelease
<1>5. CASE CwdSet(t)
  BY <1>5, LiveSet
<1>6. CASE \E f \in File : OpenDir(t, f)
  <2>1. PICK f \in File : OpenDir(t, f)
    BY <1>6
  <2>2. /\ pc[t] = "path" /\ newf[t] = NULL
        /\ \A u \in Thread \ {t} : pc'[u] = pc[u] /\ newf'[u] = newf[u]
        /\ UNCHANGED <<files, cwdfd, fdfile, call, obj>>
    BY <2>1 DEF OpenDir, Goto, IInv, TypeOK, Shape
  <2>3. \A g \in File : CwdPending(g) => CwdPending(g)'
    BY <2>2 DEF CwdPending
  <2>4. \A g \in File : Referenced(g) => Referenced(g)'
    BY <2>2, <2>3 DEF Referenced, InTable
  <2> QED
    BY <2>2, <2>4, ConstantFacts DEF LiveInv
<1>7. CASE CwdClose(t) \/ CwdRef(t) \/ OpenDirFails(t)
  BY <1>7, LiveFrame DEF CwdClose, CwdRef, OpenDirFails, Goto, IInv, TypeOK, process
<1>8. CASE \E f \in File : OpenNoMem(t, f)
  BY <1>8, LiveReturn DEF OpenNoMem, IInv, Shape
<1>9. CASE \E fd \in FD, c \in {"fdop", "fchdir"} : BeginFdCall(t, fd, c)
  BY <1>9, LiveFrame DEF IInv, TypeOK, BeginFdCall, Begin, process
<1>10. CASE \E fd \in AnyFd : BadFd(t, fd)
  BY <1>10, LiveFrame DEF BadFd, vars
<1>11. CASE UseFd(t) \/ PathReturn(t)
  BY <1>11, LiveReturn DEF IInv, Shape, UseFd, PathReturn, process
<1>12. CASE \E c \in Call, fd \in FD : LookupFd(t, c, fd)
  BY <1>12, LiveFrame DEF IInv, TypeOK, LookupFd, BeginLookup, Begin, process
<1>13. ASSUME NEW c, NEW ds, Resolve(t, c, ds), UNCHANGED process, pc[t] \notin {"ref", "set"}
       PROVE  LiveInv'
  BY <1>13, LiveFrame DEF IInv, TypeOK, Resolve, Begin, process
<1>14. ASSUME NEW c, Unresolved(t, c), UNCHANGED process, newf[t] = NULL,
              pc[t] \notin {"ref", "set"}
       PROVE  LiveInv'
  <2>1. CASE c = "renameat"
    BY <1>14, <2>1, LiveFrame DEF IInv, TypeOK, Unresolved, Begin, process
  <2>2. CASE c # "renameat"
    BY <1>14, <2>2, LiveReturn DEF IInv, Unresolved, process
  <2> QED
    BY <2>1, <2>2
<1>15. CASE \E c \in Call : LookupCwd(t, c)
  BY <1>13, <1>15 DEF LookupCwd, BeginLookup
<1>16. CASE \E c \in Call, fd \in AnyFd : LookupBadFd(t, c, fd)
  <2>1. pc[t] \in {"idle", "dir2"}
    BY <1>16 DEF LookupBadFd, BeginLookup
  <2>2. newf[t] = NULL
    BY <2>1 DEF IInv, Shape, CwdLabel
  <2> QED
    BY <1>14, <1>16, <2>1, <2>2 DEF LookupBadFd
<1>17. CASE IsDir(t)
  <2>1. newf[t] = NULL
    BY <1>17 DEF IsDir, IInv, Shape, CwdLabel
  <2> QED
    BY <1>13, <1>14, <1>17, <2>1 DEF IsDir
<1>18. CASE \E fd \in 0..NOFILE : Fdalloc(t, fd)
  BY <1>18, LiveFrame DEF IInv, TypeOK, Fdalloc, Goto, process
<1>19. CASE BeginChdir(t)
  BY <1>19, LiveFrame DEF IInv, TypeOK, BeginChdir, Begin, process
<1>20. CASE CheckDir(t)
  <2>1. CASE Return(t)
    BY <1>20, <2>1, LiveReturn DEF IInv, Shape, CheckDir, process
  <2>2. CASE Goto(t, "take") /\ UNCHANGED <<obj, newf>>
    BY <1>20, <2>2, LiveFrame DEF IInv, TypeOK, CheckDir, Goto, process
  <2> QED
    BY <1>20, <2>1, <2>2 DEF CheckDir
<1>21. CASE CwdTake(t)
  BY <1>21, LiveFrame DEF IInv, TypeOK, CwdTake, Goto, process
<1> QED
  BY <1>1, <1>2, <1>3, <1>4, <1>5, <1>6, <1>7, <1>8, <1>9, <1>10, <1>11, <1>12, <1>15,
      <1>16, <1>17, <1>18, <1>19, <1>20, <1>21
  DEF Step

-----------------------------------------------------------------------------
(***************************************************************************)
(* A table with as many descriptors as there are files never fills: the    *)
(* files in it are distinct, and the one to be added is not among them.    *)
(***************************************************************************)
LEMMA TableHasRoom ==
    ASSUME IsFiniteSet(File), Cardinality(File) <= NOFILE, IInv, NEW t \in Thread
    PROVE  ~Emfile(t)
<1> SUFFICES ASSUME pc[t] = "fdalloc", TableFull PROVE FALSE
  BY DEF Emfile
<1>1. newf[t] \in File /\ ~InTable(newf[t])
  BY DEF IInv, TypeOK, MaybeFile, Shape, NewInv
<1>2. files \in [FD -> File \ {newf[t]}]
  BY <1>1 DEF IInv, TypeOK, MaybeFile, TableFull, InTable
<1>3. IsFiniteSet(FD) /\ Cardinality(FD) = NOFILE
  BY FS_Interval, ConstantsAssumption DEF FD
<1>4. /\ IsFiniteSet(File \ {newf[t]})
      /\ Cardinality(File \ {newf[t]}) = Cardinality(File) - 1
      /\ Cardinality(File) \in Nat
  BY <1>1, FS_RemoveElement, FS_CardinalityType
<1>5. Cardinality(File \ {newf[t]}) < Cardinality(FD)
  BY <1>3, <1>4, ConstantsAssumption
<1>6. \E i, j \in FD : i # j /\ files[i] = files[j]
  BY <1>2, <1>3, <1>4, <1>5, FS_PigeonHole
<1> QED
  BY <1>6 DEF IInv, TableInv, TableFull

(***************************************************************************)
(* A file is open exactly while a descriptor, the current directory,       *)
(* libtux or a call holds it: openat, close, chdir and fchdir neither      *)
(* close a held file nor leak an unheld one, if the client lets no two     *)
(* openat calls and no chdir overlap, and openat runs out of neither       *)
(* memory nor descriptors.  Closes may race with other calls.              *)
(***************************************************************************)
THEOREM FilesAreOwned ==
    ASSUME SerialCwd, SerialOpens, ~MallocMayFail
    PROVE  Spec /\ NoEmfile => FilesOwned
<1>1. IInv /\ SlotInv /\ RefsExact /\ [Next]_vars /\ [NoEmfileStep]_vars
         => [Ownership!Next]_owned
  <2> SUFFICES ASSUME IInv, SlotInv, RefsExact, [Next]_vars, [NoEmfileStep]_vars
               PROVE  [Ownership!Next]_owned
    OBVIOUS
  <2>1. CASE UNCHANGED vars
    <3>1. \A f \in File : Kept(f)
      BY <2>1 DEF vars, Kept, CallOwns, CwdOwns, CwdVacant
    <3> QED
      BY <2>1, <3>1, Stutter DEF vars
  <2>2. CASE Next /\ NoEmfileStep
    BY <2>2, RefStep DEF Next, NoEmfileStep
  <2> QED
    BY <2>1, <2>2
<1>2. Spec => [](IInv /\ SlotInv /\ RefsExact)
  BY IInvInvariant, SlotInvariant, CountsAreExact, PTL
<1> QED
  BY <1>1, <1>2, RefInit, PTL DEF Spec, NoEmfile, FilesOwned, Ownership!Spec, owned

(***************************************************************************)
(* In particular, the program that opens no more files than the table has  *)
(* descriptors, as in the run, needs no promise about EMFILE.              *)
(***************************************************************************)
THEOREM FewFilesAreOwned ==
    ASSUME SerialCwd, SerialOpens, ~MallocMayFail,
           IsFiniteSet(File), Cardinality(File) <= NOFILE
    PROVE  Spec => FilesOwned
<1>1. IInv /\ [Next]_vars => [NoEmfileStep]_vars
  BY TableHasRoom DEF NoEmfileStep
<1>2. Spec => NoEmfile
  BY <1>1, IInvInvariant, PTL DEF Spec, NoEmfile
<1> QED
  BY <1>2, FilesAreOwned, PTL

(***************************************************************************)
(* What the comment on the counts in lfi_tux_new says, "to represent       *)
(* libtux's references", is true of every FDFile, those being opened       *)
(* included, if no two openat calls and no changes of directory overlap    *)
(* and no openat finds the table full: overlapping opens and a full table  *)
(* are the only ways to break it.                                          *)
(***************************************************************************)
THEOREM CountsRepresentReferences ==
    ASSUME SerialCwd, SerialOpens
    PROVE  Spec /\ NoEmfile => []RefsRepresentReferences
<1>1. Init => LiveInv
  BY DEF Init, LiveInv, Referenced
<1>2. IInv /\ SlotInv /\ RefsExact /\ LiveInv /\ [Next]_vars /\ [NoEmfileStep]_vars
         => LiveInv'
  <2> SUFFICES ASSUME IInv, SlotInv, RefsExact, LiveInv, [Next]_vars, [NoEmfileStep]_vars
               PROVE  LiveInv'
    OBVIOUS
  <2>1. CASE UNCHANGED vars
    BY <2>1 DEF vars, LiveInv, Referenced, InTable, CwdPending
  <2>2. CASE Next /\ NoEmfileStep
    BY <2>2, LiveStep DEF Next, NoEmfileStep
  <2> QED
    BY <2>1, <2>2
<1>3. IInv /\ RefsExact /\ LiveInv => RefsRepresentReferences
  <2> SUFFICES ASSUME IInv, RefsExact, LiveInv, NEW f \in File, fdfile[f] = "live"
               PROVE  refs[f] = References(f)
    BY DEF RefsRepresentReferences
  <2>1. CASE Referenced(f)
    BY <2>1 DEF RefsExact
  <2>2. CASE ~Referenced(f)
    <3>1. PICK t \in Thread : newf[t] = f
      BY <2>2 DEF LiveInv
    <3>2. refs[f] = 0
      BY <3>1, ConstantFacts DEF IInv, NewInv
    <3>3. References(f) = 0
      BY <2>2 DEF Referenced, References, One
    <3> QED
      BY <3>2, <3>3
  <2> QED
    BY <2>1, <2>2
<1>4. Spec => [](IInv /\ SlotInv /\ RefsExact)
  BY IInvInvariant, SlotInvariant, CountsAreExact, PTL
<1> QED
  BY <1>1, <1>2, <1>3, <1>4, PTL DEF Spec, NoEmfile

=============================================================================
