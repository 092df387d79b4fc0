---------------------------- MODULE VirtualCpus ----------------------------
(***************************************************************************)
(* What the contexts of the PAL promise: every context is a processor of   *)
(* its own.  Its registers and its thread pointer change only through what *)
(* the guest on it computes, through the result of a system call the guest *)
(* made, and through the embedder while nothing runs on it.  Entering,     *)
(* trapping, leaving and resuming it change nothing, and whatever happens  *)
(* on another context, on the same host thread or not, does not show.      *)
(***************************************************************************)
CONSTANTS Hosts, Ctxs, NULL, Vals, Zero

Regs == [ax : Vals, sp : Vals, gp : Vals]

VARIABLES
    mode,      \* "none" (not made), "idle", "guest" or "handler"
    runner,    \* the host thread a context runs on, or NULL
    vreg,      \* the registers the guest sees
    vtp        \* its thread pointer

vars == <<mode, runner, vreg, vtp>>

Init ==
    /\ mode = [c \in Ctxs |-> "none"]
    /\ runner = [c \in Ctxs |-> NULL]
    /\ vreg \in [Ctxs -> Regs]
    /\ vtp \in [Ctxs -> Vals]

Moves(c, from, to) == mode[c] = from /\ mode' = [mode EXCEPT ![c] = to]

Make(c) ==
    /\ Moves(c, "none", "idle")
    /\ \E r \in Regs : vreg' = [vreg EXCEPT ![c] = r]
    /\ \E v \in Vals : vtp' = [vtp EXCEPT ![c] = v]
    /\ UNCHANGED runner

Unmake(c) == Moves(c, "idle", "none") /\ UNCHANGED <<runner, vreg, vtp>>

SetRegs(c) ==
    /\ mode[c] = "idle"
    /\ \E r \in Regs : vreg' = [vreg EXCEPT ![c] = r]
    /\ UNCHANGED <<mode, runner, vtp>>

Enter(c, h) ==
    /\ Moves(c, "idle", "guest")
    /\ runner' = [runner EXCEPT ![c] = h]
    /\ UNCHANGED <<vreg, vtp>>

Compute(c) ==
    /\ mode[c] = "guest"
    /\ \E r \in Regs : vreg' = [vreg EXCEPT ![c] = r]
    /\ UNCHANGED <<mode, runner, vtp>>

ReadTp(c) ==
    /\ mode[c] = "guest"
    /\ vreg' = [vreg EXCEPT ![c].ax = vtp[c]]
    /\ UNCHANGED <<mode, runner, vtp>>

WriteTp(c) ==
    /\ mode[c] = "guest"
    /\ vtp' = [vtp EXCEPT ![c] = vreg[c].ax]
    /\ UNCHANGED <<mode, runner, vreg>>

Trap(c) == Moves(c, "guest", "handler") /\ UNCHANGED <<runner, vreg, vtp>>

SetTp(c) ==
    /\ mode[c] = "handler"
    /\ \E v \in Vals : vtp' = [vtp EXCEPT ![c] = v]
    /\ UNCHANGED <<mode, runner, vreg>>

\* A new thread is its parent with another stack and result 0.
Clone(c, d) ==
    /\ mode[c] = "handler"
    /\ Moves(d, "none", "idle")
    /\ \E sp \in Vals : vreg' = [vreg EXCEPT ![d] = [vreg[c] EXCEPT !.ax = Zero, !.sp = sp]]
    /\ \E v \in Vals : vtp' = [vtp EXCEPT ![d] = v]
    /\ UNCHANGED runner

Answer(c) ==
    /\ Moves(c, "handler", "guest")
    /\ \E v \in Vals : vreg' = [vreg EXCEPT ![c].ax = v]
    /\ UNCHANGED <<runner, vtp>>

Leave(c) ==
    /\ Moves(c, "handler", "idle")
    /\ runner' = [runner EXCEPT ![c] = NULL]
    /\ UNCHANGED <<vreg, vtp>>

\* A library call returns without a trap; its registers are not kept.
LibReturn(c) ==
    /\ Moves(c, "guest", "idle")
    /\ runner' = [runner EXCEPT ![c] = NULL]
    /\ \E r \in Regs : vreg' = [vreg EXCEPT ![c] = r]
    /\ UNCHANGED vtp

Next ==
    \E c \in Ctxs :
        \/ Make(c) \/ Unmake(c) \/ SetRegs(c)
        \/ \E h \in Hosts : Enter(c, h)
        \/ Compute(c) \/ ReadTp(c) \/ WriteTp(c) \/ Trap(c) \/ SetTp(c)
        \/ \E d \in Ctxs : Clone(c, d)
        \/ Answer(c) \/ Leave(c) \/ LibReturn(c)

Spec == Init /\ [][Next]_vars
=============================================================================
