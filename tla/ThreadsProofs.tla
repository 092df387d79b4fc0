--------------------------- MODULE ThreadsProofs ---------------------------
(***************************************************************************)
(* Proofs about Threads, for any number of threads and tid words.          *)
(***************************************************************************)
EXTENDS Threads, TLAPS

(***************************************************************************)
(* How a C library must call clone for its joins to be safe: every thread  *)
(* has a ctid word of its own, which is no thread's ptid word, asks for    *)
(* the tid to be stored there before the thread runs, and gives            *)
(* set_tid_address no other word.                                          *)
(***************************************************************************)
DistinctWords ==
    /\ "CHILD_SETTID" \in Flags
    /\ \A t, u \in Thread : CtidOf[t] = CtidOf[u] => t = u
    /\ \A t, u \in Thread : PtidOf[t] # CtidOf[u]
    /\ \A t \in Thread : TidAddress[t] \subseteq {CtidOf[t]}

\* A thread clears its own word only.
CtidInv == \A t \in Thread : ctid[t] \in {NULL, CtidOf[t]}

\* A child has one parent, and is unborn exactly until pthread_create.
ChildInv ==
    /\ \A t, u \in Thread : child[t] # NULL /\ child[t] = child[u] => t = u
    /\ \A t \in Thread : child[t] # NULL =>
          (pc[t] = "create" <=> pc[child[t]] = "unborn")
    /\ \A t \in Thread :
          pc[t] \in {"create", "created", "read", "wait", "sleep"} => child[t] # NULL

\* The word of a child is zero only once the child is on its way out.
WordInv ==
    \A t \in Thread : child[t] # NULL /\ mem[CtidOf[child[t]]] = NULL =>
       Exiting(child[t]) \/ pc[child[t]] = "aborted"

Inv == TypeOK /\ CtidInv /\ ChildInv /\ WordInv /\ JoinSafe

-----------------------------------------------------------------------------
(***************************************************************************)
(* Every step of clone, exit, exit_group, join and the futex calls keeps   *)
(* the types.                                                              *)
(***************************************************************************)
LEMMA TypeStep == TypeOK /\ ChildInv /\ [Next]_vars => TypeOK'
<1> USE ThreadsAssumption
<1> SUFFICES ASSUME TypeOK, ChildInv, [Next]_vars PROVE TypeOK'
  OBVIOUS
<1>1. CASE UNCHANGED vars
  BY <1>1 DEF TypeOK, vars
<1>2. ASSUME NEW t \in Thread, Continue(t) PROVE TypeOK'
  <2>1. CASE PthreadCreate(t)
    BY <2>1 DEF TypeOK, Label, PthreadCreate, ChildInv
  <2>2. CASE ParentSettid(t)
    BY <2>2 DEF TypeOK, Label, ParentSettid, ChildInv, Goto
  <2>3. CASE Clear(t)
    BY <2>3 DEF TypeOK, Label, Clear, Goto
  <2>4. CASE Wake(t)
    BY <2>4 DEF TypeOK, Label, Wake
  <2>5. CASE Leave(t)
    BY <2>5 DEF TypeOK, Label, Leave, Goto
  <2>6. CASE JoinRead(t)
    BY <2>6 DEF TypeOK, Label, JoinRead, Goto, ChildInv
  <2>7. CASE FutexWait(t)
    BY <2>7 DEF TypeOK, Label, FutexWait, Goto
  <2> QED
    BY <1>2, <2>1, <2>2, <2>3, <2>4, <2>5, <2>6, <2>7 DEF Continue
<1>3. ASSUME NEW t \in Thread, Choose(t) PROVE TypeOK'
  <2>1. ASSUME NEW c \in Thread, Spawn(t, c) PROVE TypeOK'
    BY <2>1 DEF TypeOK, Label, Spawn, Goto
  <2>2. CASE SpawnFails(t)
    BY <2>2 DEF TypeOK, SpawnFails, vars
  <2>3. CASE PthreadCreateFails(t)
    BY <2>3 DEF TypeOK, Label, PthreadCreateFails
  <2>4. ASSUME NEW w \in TidAddress[t], SetTidAddress(t, w) PROVE TypeOK'
    BY <2>4 DEF TypeOK, SetTidAddress
  <2>5. CASE Exit(t) \/ ExitGroup(t) \/ Join(t) \/ FutexInterrupted(t)
    BY <2>5 DEF TypeOK, Label, Exit, ExitGroup, Join, FutexInterrupted, Goto
  <2> QED
    BY <1>3, <2>1, <2>2, <2>3, <2>4, <2>5 DEF Choose
<1> QED
  BY <1>1, <1>2, <1>3 DEF Next

(***************************************************************************)
(* Every step keeps a child with its one parent, wherever clone was told   *)
(* to store the tids.                                                      *)
(***************************************************************************)
LEMMA ChildStep == TypeOK /\ ChildInv /\ [Next]_vars => ChildInv'
<1> USE ThreadsAssumption
<1> SUFFICES ASSUME TypeOK, ChildInv, [Next]_vars PROVE ChildInv'
  OBVIOUS
<1>1. CASE UNCHANGED vars
  BY <1>1 DEF ChildInv, vars
<1>2. ASSUME NEW t \in Thread, NEW l \in Label \ {"unborn", "create"},
             pc[t] \notin {"unborn", "create"}, Goto(t, l), UNCHANGED child,
             l \in {"created", "read", "wait", "sleep"} => child[t] # NULL
      PROVE  ChildInv'
  BY <1>2 DEF TypeOK, ChildInv, Goto
<1>3. ASSUME NEW t \in Thread, Continue(t) PROVE ChildInv'
  <2>1. CASE PthreadCreate(t)
    <3>1. child[t] \in Thread /\ pc[child[t]] = "unborn"
      BY <2>1 DEF TypeOK, ChildInv, PthreadCreate
    <3> QED
      BY <2>1, <3>1 DEF TypeOK, ChildInv, PthreadCreate
  <2>2. CASE Wake(t)
    <3>1. \A u \in Thread : \/ pc'[u] = pc[u]
                            \/ pc[u] = "wake" /\ pc'[u] = "leave"
                            \/ pc[u] = "sleep" /\ pc'[u] = "read"
      BY <2>2 DEF TypeOK, Wake
    <3> QED
      BY <2>2, <3>1 DEF TypeOK, ChildInv, Wake
  <2>3. CASE ParentSettid(t) \/ Clear(t) \/ Leave(t)
    BY <1>2, <2>3 DEF Label, ParentSettid, Clear, Leave
  <2>4. CASE JoinRead(t) /\ mem[CtidOf[child[t]]] = NULL
    BY <2>4 DEF TypeOK, ChildInv, JoinRead, Goto
  <2>5. CASE JoinRead(t) /\ mem[CtidOf[child[t]]] # NULL
    <3>1. child[t] # NULL
      BY <2>5 DEF ChildInv, JoinRead
    <3> QED
      BY <1>2, <2>5, <3>1 DEF Label, JoinRead
  <2>6. CASE FutexWait(t)
    <3>1. child[t] # NULL
      BY <2>6 DEF ChildInv, FutexWait
    <3> QED
      BY <1>2, <2>6, <3>1 DEF Label, FutexWait
  <2> QED
    BY <1>3, <2>1, <2>2, <2>3, <2>4, <2>5, <2>6 DEF Continue
<1>4. ASSUME NEW t \in Thread, Choose(t) PROVE ChildInv'
  <2>1. ASSUME NEW c \in Thread, Spawn(t, c) PROVE ChildInv'
    BY <2>1 DEF TypeOK, ChildInv, Spawn, Goto
  <2>2. CASE SpawnFails(t)
    BY <1>1, <2>2 DEF SpawnFails
  <2>3. CASE PthreadCreateFails(t)
    BY <2>3 DEF TypeOK, ChildInv, PthreadCreateFails
  <2>4. ASSUME NEW w \in TidAddress[t], SetTidAddress(t, w) PROVE ChildInv'
    BY <2>4 DEF ChildInv, SetTidAddress
  <2>5. CASE Exit(t) \/ ExitGroup(t) \/ Join(t)
    BY <1>2, <2>5 DEF Label, Exit, ExitGroup, Join
  <2>6. CASE FutexInterrupted(t)
    <3>1. child[t] # NULL
      BY <2>6 DEF ChildInv, FutexInterrupted
    <3> QED
      BY <1>2, <2>6, <3>1 DEF Label, FutexInterrupted
  <2> QED
    BY <1>4, <2>1, <2>2, <2>3, <2>4, <2>5, <2>6 DEF Choose
<1> QED
  BY <1>1, <1>3, <1>4 DEF Next

(***************************************************************************)
(* The words hold tids and the threads know their children, whatever words *)
(* the program gives to clone: the words need not be distinct.             *)
(***************************************************************************)
THEOREM TypeCorrect == Spec => []TypeOK
<1>1. Init => TypeOK /\ ChildInv
  BY ThreadsAssumption DEF Init, TypeOK, Label, ChildInv
<1>2. TypeOK /\ ChildInv /\ [Next]_vars => TypeOK' /\ ChildInv'
  BY TypeStep, ChildStep
<1> QED
  BY <1>1, <1>2, PTL DEF Spec

(***************************************************************************)
(* A step that only moves one thread between labels that are neither       *)
(* "unborn" nor "create", and that keeps a thread on its way out there,    *)
(* keeps the rest of the invariant.                                        *)
(***************************************************************************)
LEMMA MoveStep ==
    ASSUME Inv, NEW t \in Thread, NEW l \in Label \ {"unborn", "create"},
           pc[t] \notin {"unborn", "create"},
           pc' = [pc EXCEPT ![t] = l],
           pc[t] = "aborted" => l = "aborted",
           Exiting(t) => l \in {"wake", "leave", "exited"},
           l \in {"created", "read", "wait", "sleep"} => child[t] # NULL,
           UNCHANGED <<mem, ctid, child, joined>>
    PROVE  CtidInv' /\ WordInv' /\ JoinSafe'
<1> USE ThreadsAssumption DEF Inv, TypeOK
<1>1. CtidInv'
  BY DEF CtidInv
<1>2. WordInv'
  BY DEF WordInv, Exiting
<1>3. JoinSafe'
  BY DEF JoinSafe, Exiting
<1> QED
  BY <1>1, <1>2, <1>3

(***************************************************************************)
(* Every step keeps the invariant when the words are distinct: one step of *)
(* the proof per action.                                                   *)
(***************************************************************************)
LEMMA InvStep ==
    ASSUME DistinctWords, Inv, [Next]_vars PROVE Inv'
<1> USE ThreadsAssumption
<1>0. TypeOK' /\ ChildInv'
  BY TypeStep, ChildStep DEF Inv
<1> SUFFICES CtidInv' /\ WordInv' /\ JoinSafe'
  BY <1>0 DEF Inv
<1> DEFINE Rest == CtidInv /\ WordInv /\ JoinSafe
<1> SUFFICES Rest'
  OBVIOUS
<1>1. CASE UNCHANGED vars
  BY <1>1 DEF vars, Inv, CtidInv, ChildInv, WordInv, JoinSafe, Exiting
<1>2. ASSUME NEW t \in Thread, NEW c \in Thread, Spawn(t, c) PROVE Rest'
  <2> USE <1>2 DEF Inv, TypeOK, Spawn, Goto
  <2>1. CtidInv'
    BY DEF CtidInv
  <2>3. mem' = [mem EXCEPT ![CtidOf[c]] = c] /\ c # NULL
    BY DEF DistinctWords
  <2>4. WordInv'
    BY <2>3 DEF WordInv, DistinctWords, Exiting
  <2>5. JoinSafe'
    BY DEF JoinSafe, Exiting
  <2> QED
    BY <2>1, <2>4, <2>5
<1>3. ASSUME NEW t \in Thread, PthreadCreate(t) PROVE Rest'
  <2> USE <1>3 DEF Inv, TypeOK, PthreadCreate
  <2>1. child[t] \in Thread /\ pc[child[t]] = "unborn"
    BY DEF ChildInv
  <2>2. CtidInv'
    BY DEF CtidInv
  <2>4. WordInv'
    BY <2>1 DEF WordInv, Exiting
  <2>5. JoinSafe'
    BY <2>1 DEF JoinSafe, Exiting
  <2> QED
    BY <2>2, <2>4, <2>5
<1>4. ASSUME NEW t \in Thread, PthreadCreateFails(t) PROVE Rest'
  <2> USE <1>4 DEF Inv, TypeOK, PthreadCreateFails
  <2>1. CtidInv'
    BY DEF CtidInv
  <2>3. WordInv' /\ JoinSafe'
    BY DEF WordInv, JoinSafe
  <2> QED
    BY <2>1, <2>3
<1>5. ASSUME NEW t \in Thread, ParentSettid(t) PROVE Rest'
  <2> USE <1>5 DEF Inv, TypeOK, ParentSettid, Goto
  <2>1. child[t] \in Thread
    BY DEF ChildInv
  <2>2. \A u \in Thread : mem'[CtidOf[u]] = mem[CtidOf[u]]
    BY <2>1 DEF DistinctWords
  <2>3. CtidInv'
    BY DEF CtidInv
  <2>5. WordInv'
    BY <2>2 DEF WordInv, Exiting
  <2>6. JoinSafe'
    BY DEF JoinSafe, Exiting
  <2> QED
    BY <2>3, <2>5, <2>6
<1>6. ASSUME NEW t \in Thread, NEW w \in TidAddress[t], SetTidAddress(t, w) PROVE Rest'
  BY <1>6 DEF DistinctWords, Inv, TypeOK, SetTidAddress, CtidInv, ChildInv, WordInv, JoinSafe, Exiting
<1>7. ASSUME NEW t \in Thread, Clear(t) PROVE Rest'
  <2> USE <1>7 DEF Inv, TypeOK, Clear, Goto
  <2>1. \A u \in Thread \ {t} : mem'[CtidOf[u]] = mem[CtidOf[u]]
    BY DEF CtidInv, DistinctWords
  <2>2. CtidInv'
    BY DEF CtidInv
  <2>4. WordInv'
    BY <2>1 DEF WordInv, Exiting
  <2>5. JoinSafe'
    BY DEF JoinSafe, Exiting
  <2> QED
    BY <2>2, <2>4, <2>5
<1>8. ASSUME NEW t \in Thread, Wake(t) PROVE Rest'
  <2> USE <1>8 DEF Inv, TypeOK, Wake
  <2>1. \A u \in Thread : \/ pc'[u] = pc[u]
                          \/ pc[u] = "wake" /\ pc'[u] = "leave"
                          \/ pc[u] = "sleep" /\ pc'[u] = "read"
    OBVIOUS
  <2>2. CtidInv'
    BY DEF CtidInv
  <2>4. WordInv'
    BY <2>1 DEF WordInv, Exiting
  <2>5. JoinSafe'
    BY <2>1 DEF JoinSafe, Exiting
  <2> QED
    BY <2>2, <2>4, <2>5
<1>9. ASSUME NEW t \in Thread, JoinRead(t) PROVE Rest'
  <2> USE <1>9 DEF Inv, TypeOK, JoinRead, Goto
  <2>1. child[t] \in Thread /\ child[t] # NULL
    BY DEF ChildInv
  <2>2. CASE mem[CtidOf[child[t]]] = NULL
    <3>1. Exiting(child[t]) \/ pc[child[t]] = "aborted"
      BY <2>1, <2>2 DEF WordInv
    <3>2. CtidInv'
      BY <2>2 DEF CtidInv
    <3>4. WordInv'
      BY <2>2 DEF WordInv, Exiting
    <3>5. JoinSafe'
      <4>1. joined' = joined \cup {child[t]} /\ pc' = [pc EXCEPT ![t] = "run"]
        BY <2>2
      <4>2. \A c \in joined' : c \in Thread /\ (Exiting(c) \/ pc[c] = "aborted")
        BY <2>1, <3>1, <4>1 DEF JoinSafe
      <4>3. t \notin joined'
        BY <4>2 DEF Exiting
      <4> QED
        BY <4>1, <4>2, <4>3 DEF JoinSafe, Exiting
    <3> QED
      BY <3>2, <3>4, <3>5
  <2>3. CASE mem[CtidOf[child[t]]] # NULL
    BY <2>1, <2>3, MoveStep DEF Label, Exiting
  <2> QED
    BY <2>2, <2>3
<1>10. ASSUME NEW t \in Thread, Exit(t) \/ ExitGroup(t) \/ Leave(t) PROVE Rest'
  BY <1>10, MoveStep DEF Exit, ExitGroup, Leave, Goto, Label, Exiting
<1>11. ASSUME NEW t \in Thread, Join(t) PROVE Rest'
  BY <1>11, MoveStep DEF Join, Goto, Label, Exiting
<1>12. ASSUME NEW t \in Thread, FutexInterrupted(t) PROVE Rest'
  <2>1. child[t] # NULL
    BY <1>12 DEF FutexInterrupted, Inv, ChildInv
  <2> QED
    BY <1>12, <2>1, MoveStep DEF FutexInterrupted, Goto, Label, Exiting
<1>13. ASSUME NEW t \in Thread, FutexWait(t) PROVE Rest'
  <2>1. child[t] # NULL
    BY <1>13 DEF FutexWait, Inv, ChildInv
  <2> QED
    BY <1>13, <2>1, MoveStep DEF FutexWait, Goto, Label, Exiting
<1>14. ASSUME NEW t \in Thread, SpawnFails(t) PROVE Rest'
  BY <1>14, <1>1 DEF SpawnFails
<1> QED
  BY <1>1, <1>2, <1>3, <1>4, <1>5, <1>6, <1>7, <1>8, <1>9, <1>10, <1>11, <1>12, <1>13, <1>14
  DEF Next, Continue, Choose

(***************************************************************************)
(* When every thread has a tid word of its own that is set before it runs, *)
(* a join returns only for a thread that has cleared its word on its way   *)
(* out, however clone, exit and the futex calls interleave.                *)
(***************************************************************************)
THEOREM JoinIsSafe == DistinctWords => (Spec => []JoinSafe)
<1> SUFFICES ASSUME DistinctWords PROVE Spec => []JoinSafe
  OBVIOUS
<1>1. Init => Inv
  BY ThreadsAssumption
  DEF Init, Inv, TypeOK, Label, CtidInv, ChildInv, WordInv, JoinSafe
<1>2. Inv /\ [Next]_vars => Inv'
  BY InvStep
<1>3. Inv => JoinSafe
  BY DEF Inv
<1> QED
  BY <1>1, <1>2, <1>3, PTL DEF Spec

-----------------------------------------------------------------------------
\* A thread that has cleared its word leaves it zero.
ClearedInv ==
    \A c \in Thread : Exiting(c) /\ ctid[c] = CtidOf[c] => mem[CtidOf[c]] = NULL

\* What a joiner compares the word with is a tid.
SeenInv == \A t \in Thread : pc[t] \in {"wait", "sleep"} => seen[t] # NULL

WakeInv == ClearedInv /\ SeenInv /\ NoLostWakeup

(***************************************************************************)
(* A step that moves one thread, not past its wake-up and not to sleep,    *)
(* loses no wake-up.                                                       *)
(***************************************************************************)
LEMMA WakeMove ==
    ASSUME Inv, WakeInv, NEW t \in Thread, NEW l \in Label \ {"wake", "leave", "wait", "sleep"},
           Goto(t, l), l = "exited" => pc[t] = "leave",
           UNCHANGED <<mem, ctid, child, seen>>
    PROVE  WakeInv'
<1> USE ThreadsAssumption DEF Inv, TypeOK, WakeInv, Goto
<1>1. ClearedInv'
  BY DEF ClearedInv, Exiting
<1>2. SeenInv'
  BY DEF SeenInv
<1>3. NoLostWakeup'
  <2> SUFFICES ASSUME NEW u \in Thread, pc'[u] = "sleep", ctid[child[u]] = CtidOf[child[u]]
               PROVE  pc'[child[u]] \notin {"leave", "exited"}
    BY DEF NoLostWakeup
  <2>1. pc[u] = "sleep" /\ child[u] \in Thread
    BY DEF ChildInv
  <2>2. pc[child[u]] \notin {"leave", "exited"}
    BY <2>1 DEF NoLostWakeup
  <2> QED
    BY <2>1, <2>2
<1> QED
  BY <1>1, <1>2, <1>3

(***************************************************************************)
(* Every step loses no wake-up.                                            *)
(***************************************************************************)
LEMMA WakeStep ==
    ASSUME DistinctWords, Inv, WakeInv, [Next]_vars PROVE WakeInv'
<1> USE ThreadsAssumption DEF Inv, TypeOK, WakeInv
<1>1. CASE UNCHANGED vars
  BY <1>1 DEF vars, ClearedInv, SeenInv, NoLostWakeup, Exiting
<1>2. ASSUME NEW t \in Thread, NEW c \in Thread, Spawn(t, c) PROVE WakeInv'
  <2>1. \A u \in Thread \ {c} : mem'[CtidOf[u]] = mem[CtidOf[u]] /\ ctid'[u] = ctid[u]
    BY <1>2 DEF Spawn, DistinctWords
  <2>2. pc[c] = "unborn" /\ pc'[c] = "unborn" /\ c # t
    BY <1>2 DEF Spawn, Goto
  <2>3. \A u \in Thread \ {t} : pc'[u] = pc[u] /\ child'[u] = child[u]
    BY <1>2 DEF Spawn, Goto
  <2>4. pc'[t] = "create" /\ seen' = seen
    BY <1>2 DEF Spawn, Goto
  <2>5. ClearedInv'
    BY <2>1, <2>2, <2>3, <2>4 DEF ClearedInv, Exiting
  <2>6. SeenInv'
    BY <2>3, <2>4 DEF SeenInv
  <2>7. NoLostWakeup'
    <3> SUFFICES ASSUME NEW u \in Thread, pc'[u] = "sleep", ctid'[child'[u]] = CtidOf[child'[u]]
                 PROVE  pc'[child'[u]] \notin {"leave", "exited"}
      BY DEF NoLostWakeup
    <3>1. u # t /\ pc[u] = "sleep" /\ child'[u] = child[u] /\ child[u] \in Thread
      BY <2>3, <2>4 DEF ChildInv
    <3>2. CASE child[u] = c
      BY <2>2, <3>1, <3>2
    <3>3. CASE child[u] # c
      BY <2>1, <2>3, <2>4, <3>1, <3>3 DEF NoLostWakeup
    <3> QED
      BY <3>2, <3>3
  <2> QED
    BY <2>5, <2>6, <2>7
<1>3. ASSUME NEW t \in Thread, PthreadCreate(t) PROVE WakeInv'
  <2>1. child[t] \in Thread /\ pc[child[t]] = "unborn" /\ pc[t] = "create"
    BY <1>3 DEF ChildInv, PthreadCreate
  <2>2. /\ pc'[t] = "created" \/ pc'[t] = "run"
        /\ pc'[child[t]] = "run" /\ UNCHANGED <<mem, ctid, child, seen>>
        /\ \A u \in Thread \ {t, child[t]} : pc'[u] = pc[u]
    BY <1>3, <2>1 DEF PthreadCreate
  <2>3. ClearedInv' /\ SeenInv'
    BY <2>1, <2>2 DEF ClearedInv, SeenInv, Exiting
  <2>4. NoLostWakeup'
    BY <2>1, <2>2 DEF NoLostWakeup, ChildInv
  <2> QED
    BY <2>3, <2>4
<1>4. ASSUME NEW t \in Thread, PthreadCreateFails(t) PROVE WakeInv'
  BY <1>4 DEF PthreadCreateFails, ClearedInv, SeenInv, NoLostWakeup, Exiting
<1>5. ASSUME NEW t \in Thread, ParentSettid(t) PROVE WakeInv'
  <2>1. child[t] \in Thread
    BY <1>5 DEF ChildInv, ParentSettid
  <2>2. \A u \in Thread : mem'[CtidOf[u]] = mem[CtidOf[u]]
    BY <1>5, <2>1 DEF DistinctWords, ParentSettid
  <2>3. /\ pc[t] = "created" /\ pc'[t] = "run" /\ UNCHANGED <<ctid, child, seen>>
        /\ \A u \in Thread \ {t} : pc'[u] = pc[u]
    BY <1>5 DEF ParentSettid, Goto
  <2>4. ClearedInv' /\ SeenInv'
    BY <2>2, <2>3 DEF ClearedInv, SeenInv, Exiting
  <2>5. NoLostWakeup'
    BY <2>3 DEF NoLostWakeup, ChildInv
  <2> QED
    BY <2>4, <2>5
<1>6. ASSUME NEW t \in Thread, NEW w \in TidAddress[t], SetTidAddress(t, w) PROVE WakeInv'
  <2>1. /\ pc[t] = "run" /\ UNCHANGED <<mem, pc, child, seen>>
        /\ \A u \in Thread \ {t} : ctid'[u] = ctid[u]
    BY <1>6 DEF SetTidAddress
  <2>2. ClearedInv' /\ SeenInv'
    BY <2>1 DEF ClearedInv, SeenInv, Exiting
  <2>3. NoLostWakeup'
    BY <2>1 DEF NoLostWakeup, ChildInv
  <2> QED
    BY <2>2, <2>3
<1>7. ASSUME NEW t \in Thread, Clear(t) PROVE WakeInv'
  <2>1. /\ pc[t] = "clear" /\ pc'[t] = "wake" /\ UNCHANGED <<ctid, child, seen>>
        /\ \A u \in Thread \ {t} : pc'[u] = pc[u]
    BY <1>7 DEF Clear, Goto
  <2>2. \A w \in Word : mem[w] = NULL => mem'[w] = NULL
    BY <1>7 DEF Clear
  <2>3. ctid[t] = CtidOf[t] => mem'[CtidOf[t]] = NULL
    BY <1>7 DEF Clear
  <2>4. ClearedInv' /\ SeenInv'
    BY <2>1, <2>2, <2>3 DEF ClearedInv, SeenInv, Exiting
  <2>5. NoLostWakeup'
    BY <2>1 DEF NoLostWakeup, ChildInv
  <2> QED
    BY <2>4, <2>5
<1>8. ASSUME NEW t \in Thread, Wake(t) PROVE WakeInv'
  <2>1. /\ pc[t] = "wake" /\ pc'[t] = "leave" /\ UNCHANGED <<mem, ctid, child, seen>>
        /\ \A u \in Thread \ {t} :
              pc'[u] = IF pc[u] = "sleep" /\ CtidOf[child[u]] = ctid[t] THEN "read" ELSE pc[u]
    BY <1>8 DEF Wake
  <2>2. ClearedInv' /\ SeenInv'
    BY <2>1 DEF ClearedInv, SeenInv, Exiting
  <2>3. NoLostWakeup'
    <3> SUFFICES ASSUME NEW u \in Thread, pc'[u] = "sleep", ctid[child[u]] = CtidOf[child[u]]
                 PROVE  pc'[child[u]] \notin {"leave", "exited"}
      BY <2>1 DEF NoLostWakeup
    <3>1. pc[u] = "sleep" /\ CtidOf[child[u]] # ctid[t] /\ child[u] \in Thread
      BY <2>1 DEF ChildInv
    <3>2. child[u] # t /\ pc[child[u]] \notin {"leave", "exited"}
      BY <3>1 DEF NoLostWakeup
    <3> QED
      BY <2>1, <3>1, <3>2
  <2> QED
    BY <2>2, <2>3
<1>9. ASSUME NEW t \in Thread, JoinRead(t) PROVE WakeInv'
  <2>1. CASE mem[CtidOf[child[t]]] = NULL
    <3>1. /\ pc[t] = "read" /\ pc'[t] = "run" /\ UNCHANGED <<mem, ctid, seen>>
          /\ \A u \in Thread \ {t} : pc'[u] = pc[u] /\ child'[u] = child[u]
      BY <1>9, <2>1 DEF JoinRead, Goto
    <3>2. ClearedInv' /\ SeenInv'
      BY <3>1 DEF ClearedInv, SeenInv, Exiting
    <3>3. NoLostWakeup'
      BY <3>1 DEF NoLostWakeup, ChildInv
    <3> QED
      BY <3>2, <3>3
  <2>2. CASE mem[CtidOf[child[t]]] # NULL
    <3>1. /\ pc[t] = "read" /\ pc'[t] = "wait" /\ UNCHANGED <<mem, ctid, child>>
          /\ seen'[t] # NULL
          /\ \A u \in Thread \ {t} : pc'[u] = pc[u] /\ seen'[u] = seen[u]
      BY <1>9, <2>2 DEF JoinRead, Goto
    <3>2. ClearedInv' /\ SeenInv'
      BY <3>1 DEF ClearedInv, SeenInv, Exiting
    <3>3. NoLostWakeup'
      BY <3>1 DEF NoLostWakeup, ChildInv
    <3> QED
      BY <3>2, <3>3
  <2> QED
    BY <2>1, <2>2
<1>10. ASSUME NEW t \in Thread, FutexWait(t) PROVE WakeInv'
  <2>1. CASE mem[CtidOf[child[t]]] = seen[t]
    <3>1. /\ pc[t] = "wait" /\ pc'[t] = "sleep" /\ UNCHANGED <<mem, ctid, child, seen>>
          /\ \A u \in Thread \ {t} : pc'[u] = pc[u]
      BY <1>10, <2>1 DEF FutexWait, Goto
    <3>2. child[t] \in Thread /\ seen[t] # NULL
      BY <3>1 DEF ChildInv, SeenInv
    <3>3. ctid[child[t]] = CtidOf[child[t]] => ~Exiting(child[t])
      BY <2>1, <3>2 DEF ClearedInv
    <3>4. ClearedInv' /\ SeenInv'
      BY <3>1, <3>2 DEF ClearedInv, SeenInv, Exiting
    <3>5. NoLostWakeup'
      BY <3>1, <3>2, <3>3 DEF NoLostWakeup, ChildInv, Exiting
    <3> QED
      BY <3>4, <3>5
  <2>2. CASE mem[CtidOf[child[t]]] # seen[t]
    BY <1>10, <2>2, WakeMove DEF FutexWait, Label
  <2> QED
    BY <2>1, <2>2
<1>11. ASSUME NEW t \in Thread,
              Exit(t) \/ ExitGroup(t) \/ Leave(t) \/ Join(t) \/ FutexInterrupted(t)
       PROVE  WakeInv'
  BY <1>11, WakeMove DEF Exit, ExitGroup, Leave, Join, FutexInterrupted, Goto, Label
<1>12. ASSUME NEW t \in Thread, SpawnFails(t) PROVE WakeInv'
  BY <1>1, <1>12 DEF SpawnFails
<1> QED
  BY <1>1, <1>2, <1>3, <1>4, <1>5, <1>6, <1>7, <1>8, <1>9, <1>10, <1>11, <1>12
  DEF Next, Continue, Choose

(***************************************************************************)
(* With tid words of their own, no join sleeps on a thread that has passed *)
(* the wake-up of clearctid: the store of zero, the wake-up and the        *)
(* kernel's comparison leave no gap, however they interleave.              *)
(***************************************************************************)
THEOREM NoWakeupIsLost == DistinctWords => (Spec => []NoLostWakeup)
<1> SUFFICES ASSUME DistinctWords PROVE Spec => []NoLostWakeup
  OBVIOUS
<1>1. Init => Inv /\ WakeInv
  BY ThreadsAssumption
  DEF Init, Inv, TypeOK, Label, CtidInv, ChildInv, WordInv, JoinSafe,
      WakeInv, ClearedInv, SeenInv, NoLostWakeup, Exiting
<1>2. Inv /\ WakeInv /\ [Next]_vars => Inv' /\ WakeInv'
  BY InvStep, WakeStep
<1>3. WakeInv => NoLostWakeup
  BY DEF WakeInv
<1> QED
  BY <1>1, <1>2, <1>3, PTL DEF Spec

=============================================================================
