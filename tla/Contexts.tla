------------------------------ MODULE Contexts ------------------------------
(***************************************************************************)
(* Contexts of the PAL: how control and registers pass between a host      *)
(* thread and the guests it runs (pal/ctx.c, pal/platform.c and the x64    *)
(* pal/arch/x64/runtime.S), and how libtux uses them (lfi_tux_proc_run,    *)
(* arch_syshandle, sys_exit, spawn).                                       *)
(*                                                                         *)
(* A host thread keeps lfi_myctx, the context it runs, in a thread-local.  *)
(* lfi_ctx_run leaves a frame on the host's stack and its address in the   *)
(* context's kstackp; a system call of the guest continues on top of that  *)
(* frame, and exit, pause and lfi_ret cut the stack back to it.  Nothing   *)
(* saves or restores lfi_myctx, so an embedder has to keep two rules:      *)
(*   - a context runs once at a time;                                      *)
(*   - a system call handler that has run another context leaves with      *)
(*     lfi_ctx_exit or lfi_ctx_pause and does not return to its guest.     *)
(* The handler of libtux keeps both: it runs contexts on new host threads. *)
(*                                                                         *)
(* Of the registers, ax is the result of a call, sp the stack pointer, gp  *)
(* stands for the others that SAVE_PARTIAL_REGS saves.                     *)
(***************************************************************************)
EXTENDS Integers, Sequences

CONSTANTS
    Hosts, Ctxs, NULL,
    Vals, Zero,          \* values of a register; calloc's 0
    MaxNest              \* bound: runs on the stack of one host thread

ASSUME ContextsAssumption ==
    /\ Zero \in Vals
    /\ NULL \notin Ctxs \cup Hosts
    /\ MaxNest \in Nat

Regs == [ax : Vals, sp : Vals, gp : Vals]
ZeroRegs == [ax |-> Zero, sp |-> Zero, gp |-> Zero]

\* A call of lfi_ctx_run, or of the system call handler on top of it; `ran`
\* says that the handler has run another context.
Frame == [at : {"run", "handler"}, ctx : Ctxs, ran : BOOLEAN]

VARIABLES
    made,      \* the contexts that exist
    stack,     \* the PAL's frames on the stack of each host thread
    myctx,     \* lfi_myctx of each host thread
    kstackp,   \* of each context: [host, depth], the frame it was entered from
    regs,      \* ctx->regs
    tp,        \* ctx->tp
    cpu        \* the registers of the guest that runs on each host thread

vars == <<made, stack, myctx, kstackp, regs, tp, cpu>>

TypeOK ==
    /\ made \subseteq Ctxs
    /\ stack \in [Hosts -> Seq(Frame)]
    /\ myctx \in [Hosts -> Ctxs \cup {NULL}]
    /\ kstackp \in [Ctxs -> [host : Hosts \cup {NULL}, depth : Nat]]
    /\ regs \in [Ctxs -> Regs]
    /\ tp \in [Ctxs -> Vals]
    /\ cpu \in [Hosts -> Regs]

NoFrame == [host |-> NULL, depth |-> 0]

Init ==
    /\ made = {}
    /\ stack = [h \in Hosts |-> <<>>]
    /\ myctx = [h \in Hosts |-> NULL]
    /\ kstackp = [c \in Ctxs |-> NoFrame]
    /\ regs = [c \in Ctxs |-> ZeroRegs]
    /\ tp = [c \in Ctxs |-> Zero]
    /\ cpu = [h \in Hosts |-> ZeroRegs]

-----------------------------------------------------------------------------
(* Where control is *)

Depth(h) == Len(stack[h])
Top(h) == stack[h][Depth(h)]
InGuest(h) == Depth(h) > 0 /\ Top(h).at = "run"
InHandler(h) == Depth(h) > 0 /\ Top(h).at = "handler"

\* c has been entered and not left.
Active(c) == \E h \in Hosts : \E d \in 1..Depth(h) : stack[h][d].ctx = c

\* Cutting h's stack back to its first d frames
CutTo(h, d) == SubSeq(stack[h], 1, d)

-----------------------------------------------------------------------------
(* The embedder and libtux, outside of a run *)

\* lfi_regs_init and, for a process, regs_init
lfi_regs_init(sp) == [ZeroRegs EXCEPT !.sp = sp]

lfi_ctx_new(c) ==
    /\ c \notin made
    /\ made' = made \cup {c}
    /\ \E sp \in Vals : regs' = [regs EXCEPT ![c] = lfi_regs_init(sp)]
    /\ tp' = [tp EXCEPT ![c] = Zero]
    /\ kstackp' = [kstackp EXCEPT ![c] = NoFrame]
    /\ UNCHANGED <<stack, myctx, cpu>>

lfi_ctx_free(c) ==
    /\ c \in made /\ ~Active(c)
    /\ made' = made \ {c}
    /\ UNCHANGED <<stack, myctx, kstackp, regs, tp, cpu>>

\* The embedder writes the registers it finds with lfi_ctx_regs.
lfi_ctx_regs(c) ==
    /\ c \in made /\ ~Active(c)
    /\ \E r \in Regs : regs' = [regs EXCEPT ![c] = r]
    /\ UNCHANGED <<made, stack, myctx, kstackp, tp, cpu>>

-----------------------------------------------------------------------------
(* Entering *)

\* The frame that is left: a handler remembers that it ran a context.
RunFrames(h, c) ==
    [d \in 1..(Depth(h) + 1) |->
        IF d = Depth(h) + 1 THEN [at |-> "run", ctx |-> c, ran |-> FALSE]
        ELSE IF d = Depth(h) THEN [Top(h) EXCEPT !.ran = TRUE]
        ELSE stack[h][d]]

\* Defect: lfi_myctx is set once per host thread.
SetMyctxOnce(h, c) == myctx' = [myctx EXCEPT ![h] = IF @ = NULL THEN c ELSE @]

SetMyctx(h, c) == myctx' = [myctx EXCEPT ![h] = c]

lfi_restore_regs(h, c) == cpu' = [cpu EXCEPT ![h] = regs[c]]

\* lfi_ctx_entry: the callee-saved registers and kstackp, then all of the
\* guest's registers.  Run from an idle host thread or from a handler.
lfi_ctx_run(h, c) ==
    /\ c \in made /\ ~Active(c)
    /\ ~InGuest(h)
    /\ Depth(h) < 2 * MaxNest
    /\ SetMyctx(h, c)
    /\ stack' = [stack EXCEPT ![h] = RunFrames(h, c)]
    /\ kstackp' = [kstackp EXCEPT ![c] = [host |-> h, depth |-> Depth(h) + 1]]
    /\ lfi_restore_regs(h, c)
    /\ UNCHANGED <<made, regs, tp>>

-----------------------------------------------------------------------------
(* In the guest *)

\* The guest computes.
GuestStep(h) ==
    /\ InGuest(h)
    /\ \E r \in Regs : cpu' = [cpu EXCEPT ![h] = r]
    /\ UNCHANGED <<made, stack, myctx, kstackp, regs, tp>>

\* The runtime call that loads the thread pointer
lfi_get_tp(h) ==
    /\ InGuest(h)
    /\ myctx[h] # NULL
    /\ cpu' = [cpu EXCEPT ![h].ax = tp[myctx[h]]]
    /\ UNCHANGED <<made, stack, myctx, kstackp, regs, tp>>

\* The runtime call that sets it
lfi_set_tp(h) ==
    /\ InGuest(h)
    /\ myctx[h] # NULL
    /\ tp' = [tp EXCEPT ![myctx[h]] = cpu[h].ax]
    /\ UNCHANGED <<made, stack, myctx, kstackp, regs, cpu>>

\* Defect: the registers are saved without the general ones.
SavePartialRegsFew(h, c) == regs' = [regs EXCEPT ![c].ax = cpu[h].ax, ![c].sp = cpu[h].sp]

SavePartialRegs(h, c) == regs' = [regs EXCEPT ![c] = cpu[h]]

\* The frame of the handler that the platform was given
lfi_syscall_handler(c) == [at |-> "handler", ctx |-> c, ran |-> FALSE]

\* Everything the entry uses it finds through lfi_myctx: it saves the
\* registers there and calls the handler on that context's kstackp.
lfi_syscall_entry(h) ==
    /\ InGuest(h)
    /\ myctx[h] # NULL
    /\ LET c == myctx[h]
       IN /\ kstackp[c].host = h
          /\ SavePartialRegs(h, c)
          /\ stack' = [stack EXCEPT ![h] =
                 Append(CutTo(h, kstackp[c].depth), lfi_syscall_handler(c))]
    /\ cpu' = [cpu EXCEPT ![h] = ZeroRegs]
    /\ UNCHANGED <<made, myctx, kstackp, tp>>

\* The accelerated return of a library sandbox: back to kstackp, with no
\* register saved and lfi_myctx left as it is.
lfi_ret(h) ==
    /\ InGuest(h)
    /\ myctx[h] # NULL
    /\ kstackp[myctx[h]].host = h
    /\ stack' = [stack EXCEPT ![h] = CutTo(h, kstackp[myctx[h]].depth - 1)]
    /\ cpu' = [cpu EXCEPT ![h] = ZeroRegs]
    /\ UNCHANGED <<made, myctx, kstackp, regs, tp>>

-----------------------------------------------------------------------------
(* In the handler, for the context it was called with *)

\* arch_prctl
lfi_ctx_tpset(h) ==
    /\ InHandler(h)
    /\ \E v \in Vals : tp' = [tp EXCEPT ![Top(h).ctx] = v]
    /\ UNCHANGED <<made, stack, myctx, kstackp, regs, cpu>>

ChildRegs(c, sp) == [regs[c] EXCEPT !.ax = Zero, !.sp = sp]

\* spawn and procnewthread: the child gets the registers its parent saved
\* and, without CLONE_SETTLS, thread pointer 0.  A new host thread runs it.
spawn(h, d) ==
    /\ InHandler(h)
    /\ d \notin made
    /\ made' = made \cup {d}
    /\ \E sp \in Vals : regs' = [regs EXCEPT ![d] = ChildRegs(Top(h).ctx, sp)]
    /\ \E tls \in Vals : tp' = [tp EXCEPT ![d] = tls]
    /\ kstackp' = [kstackp EXCEPT ![d] = NoFrame]
    /\ UNCHANGED <<stack, myctx, cpu>>

RestorePartialRegs(h, c, v) == cpu' = [cpu EXCEPT ![h] = [regs[c] EXCEPT !.ax = v]]

\* arch_syshandle stores the result in the registers; the return path
\* restores them from the context it kept on its own stack.
arch_syshandle(h) ==
    /\ InHandler(h)
    /\ ~Top(h).ran
    /\ LET c == Top(h).ctx
       IN \E v \in Vals : /\ regs' = [regs EXCEPT ![c].ax = v]
                          /\ RestorePartialRegs(h, c, v)
    /\ stack' = [stack EXCEPT ![h] = CutTo(h, Depth(h) - 1)]
    /\ UNCHANGED <<made, myctx, kstackp, tp>>

\* lfi_asm_ctx_exit: back to the caller of lfi_ctx_run
Unwind(h, c) ==
    /\ kstackp[c].host = h
    /\ stack' = [stack EXCEPT ![h] = CutTo(h, kstackp[c].depth - 1)]

lfi_ctx_exit(h) ==
    /\ InHandler(h)
    /\ myctx' = [myctx EXCEPT ![h] = NULL]
    /\ Unwind(h, Top(h).ctx)
    /\ UNCHANGED <<made, kstackp, regs, tp, cpu>>

lfi_ctx_pause(h) ==
    /\ InHandler(h)
    /\ Unwind(h, Top(h).ctx)
    /\ UNCHANGED <<made, myctx, kstackp, regs, tp, cpu>>

-----------------------------------------------------------------------------
Next ==
    \/ \E c \in Ctxs : lfi_ctx_new(c) \/ lfi_ctx_free(c) \/ lfi_ctx_regs(c)
    \/ \E h \in Hosts :
        \/ \E c \in Ctxs : lfi_ctx_run(h, c) \/ spawn(h, c)
        \/ GuestStep(h) \/ lfi_get_tp(h) \/ lfi_set_tp(h)
        \/ lfi_syscall_entry(h) \/ lfi_ret(h)
        \/ lfi_ctx_tpset(h) \/ arch_syshandle(h)
        \/ lfi_ctx_exit(h) \/ lfi_ctx_pause(h)

Spec == Init /\ [][Next]_vars

-----------------------------------------------------------------------------
(* Properties *)

(***************************************************************************)
(* While a guest runs on a host thread, lfi_myctx of that thread is the    *)
(* guest's own context and the context's kstackp is the frame the guest    *)
(* was entered from: a system call of the guest saves its registers in its *)
(* own context and lands on its own host stack, through nested runs,       *)
(* pauses, library returns and contexts that move between host threads.    *)
(***************************************************************************)
GuestOwnsThread ==
    \A h \in Hosts : InGuest(h) =>
        /\ myctx[h] = Top(h).ctx
        /\ kstackp[Top(h).ctx] = [host |-> h, depth |-> Depth(h)]

(***************************************************************************)
(* Each context is a processor of its own: see VirtualCpus.  Its registers *)
(* are those in the cpu while its guest runs and the saved ones otherwise. *)
(***************************************************************************)
GuestOn(c) == {h \in Hosts : InGuest(h) /\ Top(h).ctx = c}
RunsOn(c) == {h \in Hosts : \E d \in 1..Depth(h) : stack[h][d].ctx = c}

ModeOf(c) == IF c \notin made THEN "none"
             ELSE IF GuestOn(c) # {} THEN "guest"
             ELSE IF RunsOn(c) # {} THEN "handler" ELSE "idle"
RunnerOf(c) == IF RunsOn(c) = {} THEN NULL ELSE CHOOSE h \in RunsOn(c) : TRUE
VregOf(c) == IF GuestOn(c) = {} THEN regs[c] ELSE cpu[CHOOSE h \in GuestOn(c) : TRUE]

Virtual == INSTANCE VirtualCpus WITH
    mode <- [c \in Ctxs |-> ModeOf(c)],
    runner <- [c \in Ctxs |-> RunnerOf(c)],
    vreg <- [c \in Ctxs |-> VregOf(c)],
    vtp <- tp

ActsAsProcessor == Virtual!Spec

=============================================================================
