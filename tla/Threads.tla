------------------------------ MODULE Threads ------------------------------
(***************************************************************************)
(* The threads of a libtux process: clone (spawn), exit and exit_group,    *)
(* the clearing of the child's tid word (clearctid), the futex calls that  *)
(* reach the host kernel, and the join that CLONE_CHILD_CLEARTID is made   *)
(* for: the joiner sleeps on the tid word until that word is zero.  The    *)
(* join is the guest library's; here a thread joins the threads that it    *)
(* has cloned itself, each before it clones the next.                      *)
(*                                                                         *)
(* Stores to the tid words, pthread_create and the kernel's futex          *)
(* operations are the steps; a tid is the thread itself, as nexttid never  *)
(* gives one out twice.                                                    *)
(***************************************************************************)
EXTENDS Integers

CONSTANTS
    Thread,
    main,            \* the thread that lfi_tux_proc_new creates
    Word,            \* tid words of the guest's memory
    CtidOf, PtidOf,  \* the ctid and ptid arguments of the clone of a thread
    Flags,           \* its clone flags
    TidAddress,      \* the words that a thread may give to set_tid_address
    NULL

ASSUME ThreadsAssumption ==
    /\ main \in Thread
    /\ CtidOf \in [Thread -> Word]
    /\ PtidOf \in [Thread -> Word]
    /\ Flags \subseteq {"CHILD_SETTID", "CHILD_CLEARTID", "PARENT_SETTID"}
    /\ TidAddress \in [Thread -> SUBSET Word]
    /\ NULL \notin Thread \cup Word

VARIABLES
    mem,      \* contents of the tid words: a thread, or NULL for zero
    ctid,     \* TuxThread.ctid: a word, or NULL
    pc,
    child,    \* the thread that a thread's clone creates or its join awaits
    seen,     \* what the join last read from the tid word
    joined    \* threads whose join has returned

vars == <<mem, ctid, pc, child, seen, joined>>

Label == {"unborn", "run",
          "create", "created",           \* in spawn
          "clear", "wake", "leave",      \* in sys_exit
          "exited", "left",              \* after sys_exit, after sys_exit_group
          "read", "wait", "sleep",       \* in the library's join
          "aborted"}

TypeOK ==
    /\ mem \in [Word -> Thread \cup {NULL}]
    /\ ctid \in [Thread -> Word \cup {NULL}]
    /\ pc \in [Thread -> Label]
    /\ child \in [Thread -> Thread \cup {NULL}]
    /\ seen \in [Thread -> Thread \cup {NULL}]
    /\ joined \subseteq Thread

Init ==
    /\ mem = [w \in Word |-> NULL]
    /\ ctid = [t \in Thread |-> NULL]
    /\ pc = [t \in Thread |-> IF t = main THEN "run" ELSE "unborn"]
    /\ child = [t \in Thread |-> NULL]
    /\ seen = [t \in Thread |-> NULL]
    /\ joined = {}

Goto(t, label) == pc' = [pc EXCEPT ![t] = label]

-----------------------------------------------------------------------------
(* clone *)

(***************************************************************************)
(* spawn up to pthread_create: the new TuxThread, its ctid and, with       *)
(* CHILD_SETTID, the tid in the child's word.                              *)
(***************************************************************************)
\* Defect: the child's word is left for the child to set.
SpawnNoSettid(t, c) ==
    /\ pc[t] = "run" /\ child[t] = NULL
    /\ pc[c] = "unborn"
    /\ \A u \in Thread : child[u] # c
    /\ child' = [child EXCEPT ![t] = c]
    /\ ctid' = [ctid EXCEPT ![c] =
                  IF "CHILD_CLEARTID" \in Flags THEN CtidOf[c] ELSE NULL]
    /\ Goto(t, "create")
    /\ UNCHANGED <<mem, seen, joined>>

Spawn(t, c) ==
    /\ pc[t] = "run" /\ child[t] = NULL
    /\ pc[c] = "unborn"
    /\ \A u \in Thread : child[u] # c
    /\ child' = [child EXCEPT ![t] = c]
    /\ ctid' = [ctid EXCEPT ![c] =
                  IF "CHILD_CLEARTID" \in Flags THEN CtidOf[c] ELSE NULL]
    /\ mem' = IF "CHILD_SETTID" \in Flags THEN [mem EXCEPT ![CtidOf[c]] = c] ELSE mem
    /\ Goto(t, "create")
    /\ UNCHANGED <<seen, joined>>

\* procnewthread finds no memory, or the flags are refused: EAGAIN, EINVAL
SpawnFails(t) ==
    /\ pc[t] = "run"
    /\ UNCHANGED vars

PthreadCreate(t) ==
    /\ pc[t] = "create"
    /\ pc' = [pc EXCEPT ![t] = "created", ![child[t]] = "run"]
    /\ UNCHANGED <<mem, ctid, child, seen, joined>>

\* assert(!"unimplemented: free machine") takes the whole process down.
PthreadCreateFails(t) ==
    /\ pc[t] = "create"
    /\ pc' = [u \in Thread |-> "aborted"]
    /\ UNCHANGED <<mem, ctid, child, seen, joined>>

\* The child may already have run, and exited, when its tid is stored.
ParentSettid(t) ==
    /\ pc[t] = "created"
    /\ mem' = IF "PARENT_SETTID" \in Flags
              THEN [mem EXCEPT ![PtidOf[child[t]]] = child[t]]
              ELSE mem
    /\ Goto(t, "run")
    /\ UNCHANGED <<ctid, child, seen, joined>>

\* Defect: the thread's tid is kept instead of the address.
SetTidAddressTid(t, w) ==
    /\ pc[t] = "run"
    /\ ctid' = [ctid EXCEPT ![t] = t]
    /\ UNCHANGED <<mem, pc, child, seen, joined>>

SetTidAddress(t, w) ==
    /\ pc[t] = "run"
    /\ ctid' = [ctid EXCEPT ![t] = w]
    /\ UNCHANGED <<mem, pc, child, seen, joined>>

-----------------------------------------------------------------------------
(* exit and exit_group *)

Exit(t) ==
    /\ pc[t] = "run"
    /\ Goto(t, "clear")
    /\ UNCHANGED <<mem, ctid, child, seen, joined>>

Clear(t) ==
    /\ pc[t] = "clear"
    /\ mem' = IF ctid[t] # NULL THEN [mem EXCEPT ![ctid[t]] = NULL] ELSE mem
    /\ Goto(t, "wake")
    /\ UNCHANGED <<ctid, child, seen, joined>>

\* Defect: a private wake-up does not reach the joiners, who wait shared.
WakePrivate(t) ==
    /\ pc[t] = "wake"
    /\ Goto(t, "leave")
    /\ UNCHANGED <<mem, ctid, child, seen, joined>>

\* FUTEX_WAKE, without the private flag, of INT_MAX waiters
Wake(t) ==
    /\ pc[t] = "wake"
    /\ pc' = [u \in Thread |->
                IF u = t THEN "leave"
                ELSE IF pc[u] = "sleep" /\ CtidOf[child[u]] = ctid[t] THEN "read"
                ELSE pc[u]]
    /\ UNCHANGED <<mem, ctid, child, seen, joined>>

\* lfi_ctx_exit or lfi_ctx_pause: the host thread leaves the guest.
Leave(t) ==
    /\ pc[t] = "leave"
    /\ Goto(t, "exited")
    /\ UNCHANGED <<mem, ctid, child, seen, joined>>

\* exit_group ends its caller only, and does not clear its tid.
ExitGroup(t) ==
    /\ pc[t] = "run"
    /\ Goto(t, "left")
    /\ UNCHANGED <<mem, ctid, child, seen, joined>>

-----------------------------------------------------------------------------
(* The library's join, and the kernel's side of FUTEX_WAIT *)

Join(t) ==
    /\ pc[t] = "run" /\ child[t] # NULL
    /\ Goto(t, "read")
    /\ UNCHANGED <<mem, ctid, child, seen, joined>>

JoinRead(t) ==
    /\ pc[t] = "read"
    /\ LET v == mem[CtidOf[child[t]]]
       IN IF v = NULL
          THEN /\ joined' = joined \cup {child[t]}
               /\ child' = [child EXCEPT ![t] = NULL]
               /\ Goto(t, "run")
               /\ UNCHANGED seen
          ELSE /\ seen' = [seen EXCEPT ![t] = v]
               /\ Goto(t, "wait")
               /\ UNCHANGED <<joined, child>>
    /\ UNCHANGED <<mem, ctid>>

\* The kernel compares and sleeps in one step; a different value is EAGAIN.
FutexWait(t) ==
    /\ pc[t] = "wait"
    /\ Goto(t, IF mem[CtidOf[child[t]]] = seen[t] THEN "sleep" ELSE "read")
    /\ UNCHANGED <<mem, ctid, child, seen, joined>>

\* A signal or a timeout ends the sleep.
FutexInterrupted(t) ==
    /\ pc[t] = "sleep"
    /\ Goto(t, "read")
    /\ UNCHANGED <<mem, ctid, child, seen, joined>>

-----------------------------------------------------------------------------
(* What a thread does once it has entered a call, and what its program     *)
(* chooses to do.                                                          *)
Continue(t) ==
    \/ PthreadCreate(t)
    \/ ParentSettid(t)
    \/ Clear(t)
    \/ Wake(t)
    \/ Leave(t)
    \/ JoinRead(t)
    \/ FutexWait(t)

Choose(t) ==
    \/ \E c \in Thread : Spawn(t, c)
    \/ SpawnFails(t)
    \/ PthreadCreateFails(t)
    \/ \E w \in TidAddress[t] : SetTidAddress(t, w)
    \/ Exit(t)
    \/ ExitGroup(t)
    \/ Join(t)
    \/ FutexInterrupted(t)

Next == \E t \in Thread : Continue(t) \/ Choose(t)

(***************************************************************************)
(* Every host thread is scheduled by the host kernel, so a call that can   *)
(* proceed does.  Nothing is assumed of the program or of interruptions.   *)
(***************************************************************************)
Fairness == \A t \in Thread : WF_vars(Continue(t))

Spec == Init /\ [][Next]_vars
FairSpec == Spec /\ Fairness

-----------------------------------------------------------------------------
(* Properties *)

Exiting(c) == pc[c] \in {"wake", "leave", "exited"}

(***************************************************************************)
(* A join returns only for a thread that has left the guest: it has stored *)
(* zero in its tid word on its way out, so its stack may be reused.        *)
(***************************************************************************)
JoinSafe == \A c \in joined : Exiting(c) \/ pc[c] = "aborted"

(***************************************************************************)
(* No wake-up is lost: once a thread that was to clear its tid word has    *)
(* woken the sleepers on it, no join of that thread sleeps, or goes to     *)
(* sleep later.  The kernel compares the word that the joiner read before. *)
(***************************************************************************)
NoLostWakeup ==
    \A t \in Thread :
       pc[t] = "sleep" /\ ctid[child[t]] = CtidOf[child[t]] =>
          pc[child[t]] \notin {"leave", "exited"}

(***************************************************************************)
(* A join of a thread that exits returns: the store of zero and the        *)
(* wake-up in clearctid cannot fall between the joiner's look at the word  *)
(* and its sleep, and nothing stores a tid there afterwards.               *)
(***************************************************************************)
JoinReturns ==
    \A c \in Thread :
       (Exiting(c) /\ \E t \in Thread : child[t] = c /\ pc[t] \in {"read", "wait", "sleep"})
          ~> (c \in joined \/ pc[c] = "aborted")

=============================================================================
