--------------------------- MODULE ContextsProofs ---------------------------
(***************************************************************************)
(* Proofs about Contexts, for any number of host threads and contexts and  *)
(* any depth of nesting: type correctness, GuestOwnsThread, and that the   *)
(* contexts implement VirtualCpus.                                         *)
(*                                                                         *)
(* The inductive invariant describes the stack of a host thread: frames of *)
(* runs and of handlers alternate, a handler belongs to the run below it,  *)
(* kstackp of a context is its run's frame, and lfi_myctx is right except  *)
(* in a handler that has run another context.                              *)
(***************************************************************************)
EXTENDS Contexts, SequenceTheorems, TLAPS

-----------------------------------------------------------------------------
(* Stacks *)

\* Cutting a stack keeps the frames below.
LEMMA CutFrames ==
    ASSUME TypeOK, NEW h \in Hosts, NEW d \in 0..Depth(h)
    PROVE  /\ CutTo(h, d) \in Seq(Frame) /\ Len(CutTo(h, d)) = d
           /\ \A e \in 1..d : CutTo(h, d)[e] = stack[h][e]
<1>1. stack[h] \in Seq(Frame) /\ d \in 0..Len(stack[h])
  BY DEF TypeOK, Depth
<1>2. /\ SubSeq(stack[h], 1, d) \in Seq(Frame)
      /\ Len(SubSeq(stack[h], 1, d)) = IF 1 <= d THEN d - 1 + 1 ELSE 0
      /\ \A e \in 1..(d - 1 + 1) : SubSeq(stack[h], 1, d)[e] = stack[h][1 + e - 1]
  BY <1>1, SubSeqProperties
<1> QED
  BY <1>1, <1>2 DEF CutTo

\* A handler's frame that remembers a run is a frame.
LEMMA ReranFrame ==
    ASSUME NEW f \in Frame
    PROVE  /\ [f EXCEPT !.ran = TRUE] \in Frame /\ [f EXCEPT !.ran = TRUE].ran = TRUE
           /\ [f EXCEPT !.ran = TRUE].at = f.at /\ [f EXCEPT !.ran = TRUE].ctx = f.ctx
BY DEF Frame

\* Entering a context adds one frame and changes no other, but for `ran`.
LEMMA EnteredFrames ==
    ASSUME TypeOK, NEW h \in Hosts, NEW c \in Ctxs
    PROVE  /\ RunFrames(h, c) \in Seq(Frame) /\ Len(RunFrames(h, c)) = Depth(h) + 1
           /\ RunFrames(h, c)[Depth(h) + 1] = [at |-> "run", ctx |-> c, ran |-> FALSE]
           /\ \A d \in 1..Depth(h) :
                 /\ RunFrames(h, c)[d].at = stack[h][d].at
                 /\ RunFrames(h, c)[d].ctx = stack[h][d].ctx
                 /\ d = Depth(h) \/ stack[h][d].ran => RunFrames(h, c)[d].ran
<1>1. Depth(h) \in Nat /\ \A d \in 1..Depth(h) : stack[h][d] \in Frame
  BY DEF TypeOK, Depth
<1>2. [at |-> "run", ctx |-> c, ran |-> FALSE] \in Frame
  BY DEF Frame
<1>4. ASSUME NEW d \in 1..Depth(h)
      PROVE  /\ RunFrames(h, c)[d] \in Frame
             /\ RunFrames(h, c)[d].at = stack[h][d].at
             /\ RunFrames(h, c)[d].ctx = stack[h][d].ctx
             /\ d = Depth(h) \/ stack[h][d].ran => RunFrames(h, c)[d].ran
  <2>1. CASE d = Depth(h)
    <3>1. RunFrames(h, c)[d] = [stack[h][d] EXCEPT !.ran = TRUE]
      BY <1>1, <2>1 DEF RunFrames, Top
    <3>2. stack[h][d] \in Frame
      BY <1>1
    <3> QED
      BY <2>1, <3>1, <3>2, ReranFrame
  <2>2. CASE d # Depth(h)
    <3>1. RunFrames(h, c)[d] = stack[h][d]
      BY <1>1, <2>2 DEF RunFrames
    <3> QED
      BY <1>1, <2>2, <3>1
  <2> QED
    BY <2>1, <2>2
<1>5. RunFrames(h, c)[Depth(h) + 1] = [at |-> "run", ctx |-> c, ran |-> FALSE]
  BY <1>1 DEF RunFrames
<1>6. RunFrames(h, c) \in [1..(Depth(h) + 1) -> Frame]
  <2>1. ASSUME NEW d \in 1..(Depth(h) + 1)
        PROVE  (IF d = Depth(h) + 1 THEN [at |-> "run", ctx |-> c, ran |-> FALSE]
                ELSE IF d = Depth(h) THEN [Top(h) EXCEPT !.ran = TRUE]
                ELSE stack[h][d]) \in Frame
    <3>1. Depth(h) > 0 => [Top(h) EXCEPT !.ran = TRUE] \in Frame
      BY <1>1, ReranFrame DEF Top
    <3> QED
      BY <1>1, <1>2, <3>1
  <2> QED
    BY <2>1 DEF RunFrames
<1>7. RunFrames(h, c) \in Seq(Frame) /\ Len(RunFrames(h, c)) = Depth(h) + 1
  BY <1>1, <1>6
<1> QED
  BY <1>4, <1>5, <1>7

-----------------------------------------------------------------------------
(* Type correctness *)

\* The frame on top is a frame of the stack.
LEMMA TopFrame ==
    ASSUME TypeOK, NEW h \in Hosts
    PROVE  /\ Depth(h) \in Nat /\ \A d \in 1..Depth(h) : stack[h][d] \in Frame
           /\ Depth(h) > 0 => Depth(h) \in 1..Depth(h) /\ Top(h) \in Frame /\ Top(h).ctx \in Ctxs
<1>1. Depth(h) \in Nat /\ \A d \in 1..Depth(h) : stack[h][d] \in Frame
  BY DEF TypeOK, Depth
<1>2. Depth(h) > 0 => Depth(h) \in 1..Depth(h)
  BY <1>1
<1> QED
  BY <1>1, <1>2 DEF Top, Frame

-----------------------------------------------------------------------------
(* The invariant *)

FrameOk(h, d) ==
    /\ stack[h][d].ctx \in made
    /\ stack[h][d].at = "run" => kstackp[stack[h][d].ctx] = [host |-> h, depth |-> d]
    /\ stack[h][d].at = "handler" =>
          d > 1 /\ stack[h][d - 1].at = "run" /\ stack[h][d - 1].ctx = stack[h][d].ctx
    /\ d > 1 /\ stack[h][d].at = "run" => stack[h][d - 1].at = "handler"
    /\ d < Depth(h) /\ stack[h][d].at = "handler" => stack[h][d].ran

FramesOf(h) ==
    /\ \A d \in 1..Depth(h) : FrameOk(h, d)
    /\ InGuest(h) => myctx[h] = Top(h).ctx
    /\ InHandler(h) /\ ~Top(h).ran => myctx[h] = Top(h).ctx

Inv == TypeOK /\ \A h \in Hosts : FramesOf(h)

\* What the invariant says of the frame on top
LEMMA TopRun ==
    ASSUME Inv, NEW h \in Hosts, InGuest(h)
    PROVE  /\ Depth(h) \in Nat /\ Depth(h) \in 1..Depth(h)
           /\ Depth(h) \in 0..Depth(h) /\ Depth(h) - 1 \in 0..Depth(h)
           /\ Top(h).ctx \in Ctxs /\ Top(h).ctx \in made
           /\ myctx[h] = Top(h).ctx
           /\ kstackp[Top(h).ctx] = [host |-> h, depth |-> Depth(h)]
           /\ kstackp[Top(h).ctx].depth = Depth(h)
<1>1. Depth(h) \in Nat /\ Depth(h) \in 1..Depth(h) /\ Top(h).ctx \in Ctxs
  BY TopFrame DEF Inv, InGuest
<1>2. /\ Top(h).ctx \in made /\ myctx[h] = Top(h).ctx
      /\ kstackp[Top(h).ctx] = [host |-> h, depth |-> Depth(h)]
  BY <1>1 DEF Inv, FramesOf, FrameOk, InGuest, Top
<1>3. Depth(h) \in 0..Depth(h) /\ Depth(h) - 1 \in 0..Depth(h)
  BY <1>1
<1> QED
  BY <1>1, <1>2, <1>3

LEMMA TopHandler ==
    ASSUME Inv, NEW h \in Hosts, InHandler(h)
    PROVE  /\ Depth(h) \in Nat /\ Depth(h) \in 1..Depth(h) /\ Depth(h) - 1 \in 1..Depth(h)
           /\ Depth(h) - 1 \in 0..Depth(h) /\ Depth(h) - 2 \in 0..Depth(h)
           /\ Top(h).ctx \in Ctxs /\ Top(h).ctx \in made
           /\ stack[h][Depth(h) - 1].at = "run"
           /\ stack[h][Depth(h) - 1].ctx = Top(h).ctx
           /\ kstackp[Top(h).ctx] = [host |-> h, depth |-> Depth(h) - 1]
           /\ kstackp[Top(h).ctx].depth - 1 = Depth(h) - 2
<1>1. Depth(h) \in Nat /\ Depth(h) \in 1..Depth(h) /\ Top(h).ctx \in Ctxs
  BY TopFrame DEF Inv, InHandler
<1>2. /\ Top(h).ctx \in made /\ Depth(h) > 1
      /\ stack[h][Depth(h) - 1].at = "run" /\ stack[h][Depth(h) - 1].ctx = Top(h).ctx
  BY <1>1 DEF Inv, FramesOf, FrameOk, InHandler, Top
<1>3. /\ Depth(h) - 1 \in 1..Depth(h) /\ Depth(h) - 1 \in 0..Depth(h)
      /\ Depth(h) - 2 \in 0..Depth(h)
  BY <1>1, <1>2
<1>4. kstackp[Top(h).ctx] = [host |-> h, depth |-> Depth(h) - 1]
  BY <1>2, <1>3 DEF Inv, FramesOf, FrameOk
<1>5. kstackp[Top(h).ctx].depth - 1 = Depth(h) - 2
  BY <1>1, <1>4
<1> QED
  BY <1>1, <1>2, <1>3, <1>4, <1>5

\* A host thread whose stack and lfi_myctx a step leaves alone keeps its part
\* if the step leaves the contexts on the stack alone too.
LEMMA Bystander ==
    ASSUME Inv, NEW h \in Hosts, stack'[h] = stack[h], myctx'[h] = myctx[h],
           \A d \in 1..Depth(h) : /\ stack[h][d].ctx \in made'
                                  /\ kstackp'[stack[h][d].ctx] = kstackp[stack[h][d].ctx]
    PROVE  FramesOf(h)'
<1>1. /\ Depth(h)' = Depth(h) /\ Top(h)' = Top(h)
      /\ InGuest(h)' = InGuest(h) /\ InHandler(h)' = InHandler(h)
  BY DEF Depth, Top, InGuest, InHandler
<1>2. FramesOf(h)
  BY DEF Inv
<1> QED
  BY <1>1, <1>2 DEF FramesOf, FrameOk

\* Cutting a stack back to a frame at which lfi_myctx is right, or to a handler
\* that has run a context
LEMMA CutBack ==
    ASSUME Inv, NEW h \in Hosts, NEW d \in 0..Depth(h),
           stack'[h] = CutTo(h, d), made' = made, kstackp' = kstackp,
           d > 0 => \/ stack[h][d].at = "handler" /\ stack[h][d].ran
                    \/ myctx'[h] = stack[h][d].ctx
    PROVE  FramesOf(h)'
<1>1. /\ Depth(h)' = d /\ \A e \in 1..d : stack'[h][e] = stack[h][e]
  BY CutFrames DEF Inv, Depth
<1>2. d \in Nat /\ Depth(h) \in Nat /\ \A e \in 1..Depth(h) : stack[h][e] \in Frame
  BY TopFrame DEF Inv
<1>3. ASSUME NEW e \in 1..d PROVE FrameOk(h, e)'
  <2>1. e \in 1..Depth(h) /\ (e > 1 => e - 1 \in 1..d) /\ stack'[h][e] = stack[h][e]
    BY <1>1, <1>2
  <2>2. e > 1 => stack'[h][e - 1] = stack[h][e - 1]
    BY <1>1, <2>1
  <2>3. e < d => e < Depth(h)
    BY <1>2
  <2>4. FrameOk(h, e)
    BY <2>1 DEF Inv, FramesOf
  <2> QED
    BY <1>1, <2>1, <2>2, <2>3, <2>4 DEF FrameOk
<1>4. InGuest(h)' \/ InHandler(h)' => d > 0 /\ Top(h)' = stack[h][d]
  BY <1>1, <1>2 DEF InGuest, InHandler, Top
<1>5. InGuest(h)' => myctx'[h] = Top(h)'.ctx
  BY <1>4 DEF InGuest
<1>6. InHandler(h)' /\ ~Top(h)'.ran => myctx'[h] = Top(h)'.ctx
  BY <1>4
<1> QED
  BY <1>1, <1>3, <1>5, <1>6 DEF FramesOf

\* Registers, with one or two of them replaced
LEMMA RegsTyped ==
    /\ Zero \in Vals /\ ZeroRegs \in Regs
    /\ NoFrame \in [host : Hosts \cup {NULL}, depth : Nat]
    /\ \A r \in Regs, v \in Vals : /\ [r EXCEPT !.ax = v] \in Regs
                                   /\ [r EXCEPT !.sp = v] \in Regs
                                   /\ \A w \in Vals : [r EXCEPT !.ax = v, !.sp = w] \in Regs
BY ContextsAssumption DEF NoFrame, ZeroRegs, Regs

LEMMA TypeStep == Inv /\ [Next]_vars => TypeOK'
<1> SUFFICES ASSUME Inv, [Next]_vars PROVE TypeOK'
  OBVIOUS
<1>0. TypeOK
  BY DEF Inv
<1>1. ASSUME NEW c \in Ctxs, lfi_ctx_new(c) PROVE TypeOK'
  <2>1. PICK sp \in Vals : regs' = [regs EXCEPT ![c] = [ZeroRegs EXCEPT !.sp = sp]]
    BY <1>1 DEF lfi_ctx_new, lfi_regs_init
  <2>2. regs' \in [Ctxs -> Regs]
    BY <1>0, <2>1, RegsTyped DEF TypeOK
  <2> QED
    BY <1>0, <1>1, <2>2, RegsTyped DEF lfi_ctx_new, lfi_regs_init, TypeOK
<1>2. ASSUME NEW c \in Ctxs, lfi_ctx_free(c) \/ lfi_ctx_regs(c) PROVE TypeOK'
  BY <1>0, <1>2 DEF lfi_ctx_free, lfi_ctx_regs, TypeOK
<1>3. ASSUME NEW h \in Hosts, NEW c \in Ctxs, lfi_ctx_run(h, c) PROVE TypeOK'
  <2>1. RunFrames(h, c) \in Seq(Frame)
    BY <1>0, EnteredFrames
  <2>2. Depth(h) + 1 \in Nat
    BY <1>0, TopFrame
  <2> QED
    BY <1>0, <1>3, <2>1, <2>2 DEF lfi_ctx_run, lfi_restore_regs, SetMyctx, TypeOK
<1>4. ASSUME NEW h \in Hosts, NEW d \in Ctxs, spawn(h, d) PROVE TypeOK'
  <2>1. Top(h).ctx \in Ctxs
    BY <1>4, TopHandler DEF spawn
  <2>2. \A sp \in Vals : ChildRegs(Top(h).ctx, sp) \in Regs
    BY <1>0, <2>1, RegsTyped DEF ChildRegs, TypeOK
  <2>3. regs' \in [Ctxs -> Regs] /\ tp' \in [Ctxs -> Vals]
    BY <1>0, <1>4, <2>2 DEF spawn, TypeOK
  <2> QED
    BY <1>0, <1>4, <2>3, RegsTyped DEF spawn, TypeOK
<1>5. ASSUME NEW h \in Hosts, GuestStep(h) \/ lfi_ctx_tpset(h) PROVE TypeOK'
  BY <1>0, <1>5 DEF GuestStep, lfi_ctx_tpset, TypeOK
<1>6. ASSUME NEW h \in Hosts, lfi_get_tp(h) PROVE TypeOK'
  <2>1. [cpu[h] EXCEPT !.ax = tp[myctx[h]]] \in Regs
    BY <1>0, <1>6, RegsTyped DEF lfi_get_tp, TypeOK
  <2> QED
    BY <1>0, <1>6, <2>1 DEF lfi_get_tp, TypeOK
<1>12. ASSUME NEW h \in Hosts, lfi_set_tp(h) PROVE TypeOK'
  <2>1. cpu[h].ax \in Vals
    BY <1>0 DEF TypeOK, Regs
  <2> QED
    BY <1>0, <1>12, <2>1 DEF lfi_set_tp, TypeOK
<1>7. ASSUME NEW h \in Hosts, lfi_syscall_entry(h) PROVE TypeOK'
  <2> DEFINE c == myctx[h]
             f == [at |-> "handler", ctx |-> c, ran |-> FALSE]
  <2>0. InGuest(h)
    BY <1>7 DEF lfi_syscall_entry, lfi_syscall_handler
  <2>1. c \in Ctxs /\ kstackp[c].depth \in 0..Depth(h)
    BY <2>0, TopRun
  <2>2. f \in Frame
    BY <2>1 DEF Frame
  <2>3. CutTo(h, kstackp[c].depth) \in Seq(Frame)
    BY <1>0, <2>1, CutFrames
  <2>4. Append(CutTo(h, kstackp[c].depth), f) \in Seq(Frame)
    BY <2>2, <2>3
  <2>5. stack' = [stack EXCEPT ![h] = Append(CutTo(h, kstackp[c].depth), f)]
    BY <1>7 DEF lfi_syscall_entry, lfi_syscall_handler
  <2>6. regs' \in [Ctxs -> Regs] /\ cpu' \in [Hosts -> Regs]
    BY <1>0, <1>7, <2>1, RegsTyped DEF lfi_syscall_entry, lfi_syscall_handler, SavePartialRegs, TypeOK
  <2> HIDE DEF c, f
  <2>7. stack' \in [Hosts -> Seq(Frame)]
    BY <1>0, <2>4, <2>5 DEF TypeOK
  <2> QED
    BY <1>0, <1>7, <2>6, <2>7 DEF lfi_syscall_entry, lfi_syscall_handler, TypeOK
<1>8. ASSUME NEW h \in Hosts, lfi_ret(h) PROVE TypeOK'
  <2>1. InGuest(h)
    BY <1>8 DEF lfi_ret
  <2>2. kstackp[myctx[h]].depth - 1 \in 0..Depth(h)
    BY <2>1, TopRun
  <2>3. CutTo(h, kstackp[myctx[h]].depth - 1) \in Seq(Frame)
    BY <1>0, <2>2, CutFrames
  <2> QED
    BY <1>0, <1>8, <2>3, RegsTyped DEF lfi_ret, TypeOK
<1>9. ASSUME NEW h \in Hosts, arch_syshandle(h) PROVE TypeOK'
  <2>0. InHandler(h)
    BY <1>9 DEF arch_syshandle
  <2>1. Top(h).ctx \in Ctxs /\ Depth(h) - 1 \in 0..Depth(h)
    BY <2>0, TopHandler
  <2>2. CutTo(h, Depth(h) - 1) \in Seq(Frame)
    BY <1>0, <2>1, CutFrames
  <2>3. PICK v \in Vals : /\ regs' = [regs EXCEPT ![Top(h).ctx].ax = v]
                          /\ cpu' = [cpu EXCEPT ![h] = [regs[Top(h).ctx] EXCEPT !.ax = v]]
    BY <1>9 DEF arch_syshandle, RestorePartialRegs
  <2>4. [regs[Top(h).ctx] EXCEPT !.ax = v] \in Regs
    BY <1>0, <2>1, RegsTyped DEF TypeOK
  <2>5. regs' \in [Ctxs -> Regs] /\ cpu' \in [Hosts -> Regs]
    BY <1>0, <2>3, <2>4 DEF TypeOK
  <2> QED
    BY <1>0, <1>9, <2>2, <2>5 DEF arch_syshandle, TypeOK
<1>10. ASSUME NEW h \in Hosts, lfi_ctx_exit(h) \/ lfi_ctx_pause(h) PROVE TypeOK'
  <2>1. InHandler(h)
    BY <1>10 DEF lfi_ctx_exit, lfi_ctx_pause
  <2>2. kstackp[Top(h).ctx].depth - 1 \in 0..Depth(h)
    BY <2>1, TopHandler
  <2>3. CutTo(h, kstackp[Top(h).ctx].depth - 1) \in Seq(Frame)
    BY <1>0, <2>2, CutFrames
  <2> QED
    BY <1>0, <1>10, <2>3 DEF lfi_ctx_exit, lfi_ctx_pause, Unwind, TypeOK
<1>11. CASE UNCHANGED vars
  BY <1>0, <1>11 DEF vars, TypeOK
<1> QED
  BY <1>1, <1>2, <1>3, <1>4, <1>5, <1>6, <1>7, <1>8, <1>9, <1>10, <1>11, <1>12 DEF Next

LEMMA FramesStep == Inv /\ [Next]_vars => \A h \in Hosts : FramesOf(h)'
<1> SUFFICES ASSUME Inv, [Next]_vars, NEW g \in Hosts PROVE FramesOf(g)'
  OBVIOUS
<1>0. TypeOK /\ TypeOK' /\ FramesOf(g)
  BY TypeStep DEF Inv
<1>00. \A d \in 1..Depth(g) : stack[g][d].ctx \in made
  BY <1>0 DEF FramesOf, FrameOk
<1>000. made \subseteq Ctxs
  BY <1>0 DEF TypeOK
<1>1. ASSUME NEW c \in Ctxs, lfi_ctx_new(c) PROVE FramesOf(g)'
  <2>1. /\ stack' = stack /\ myctx' = myctx /\ c \notin made /\ made' = made \cup {c}
        /\ kstackp' = [kstackp EXCEPT ![c] = NoFrame]
    BY <1>1 DEF lfi_ctx_new, lfi_regs_init
  <2>2. kstackp \in [Ctxs -> [host : Hosts \cup {NULL}, depth : Nat]]
    BY <1>0 DEF TypeOK
  <2> QED
    BY <1>00, <1>000, <2>1, <2>2, Bystander
<1>2. ASSUME NEW c \in Ctxs, lfi_ctx_free(c) \/ lfi_ctx_regs(c) PROVE FramesOf(g)'
  <2>1. \A d \in 1..Depth(g) : stack[g][d].ctx # c
    BY <1>2 DEF lfi_ctx_free, lfi_ctx_regs, Active
  <2>2. /\ stack' = stack /\ myctx' = myctx /\ kstackp' = kstackp
        /\ made' = made \/ made' = made \ {c}
    BY <1>2 DEF lfi_ctx_free, lfi_ctx_regs
  <2> QED
    BY <1>00, <2>1, <2>2, Bystander
<1>3. ASSUME NEW h \in Hosts, NEW c \in Ctxs, lfi_ctx_run(h, c) PROVE FramesOf(g)'
  <2>1. \A d \in 1..Depth(g) : stack[g][d].ctx # c
    BY <1>3 DEF lfi_ctx_run, lfi_restore_regs, Active
  <2>2. CASE g # h
    <3>1. /\ stack'[g] = stack[g] /\ myctx'[g] = myctx[g] /\ made' = made
          /\ kstackp' = [kstackp EXCEPT ![c] = [host |-> h, depth |-> Depth(h) + 1]]
      BY <1>0, <1>3, <2>2 DEF lfi_ctx_run, lfi_restore_regs, SetMyctx, TypeOK
    <3> QED
      BY <1>0, <1>00, <2>1, <3>1, Bystander DEF TypeOK
  <2>3. CASE g = h
    <3>1. stack'[h] = RunFrames(h, c) /\ myctx'[h] = c /\ made' = made /\ c \in made
          /\ kstackp'[c] = [host |-> h, depth |-> Depth(h) + 1]
          /\ \A k \in Ctxs : k # c => kstackp'[k] = kstackp[k]
          /\ ~InGuest(h)
      BY <1>0, <1>3 DEF lfi_ctx_run, lfi_restore_regs, SetMyctx, TypeOK
    <3>2. /\ Depth(h)' = Depth(h) + 1
          /\ stack'[h][Depth(h) + 1] = [at |-> "run", ctx |-> c, ran |-> FALSE]
          /\ \A d \in 1..Depth(h) :
                /\ stack'[h][d].at = stack[h][d].at /\ stack'[h][d].ctx = stack[h][d].ctx
                /\ d = Depth(h) \/ stack[h][d].ran => stack'[h][d].ran
      <4>1. Depth(h)' = Len(RunFrames(h, c))
        BY <3>1 DEF Depth
      <4> QED
        BY <1>0, <3>1, <4>1, EnteredFrames
    <3>3. Depth(h) \in Nat /\ (Depth(h) > 0 => stack[h][Depth(h)].at = "handler")
      <4>1. Depth(h) \in Nat /\ (Depth(h) > 0 => Top(h) \in Frame)
        BY <1>0, TopFrame
      <4>2. ~InGuest(h)
        BY <1>3 DEF lfi_ctx_run, lfi_restore_regs
      <4>3. Depth(h) > 0 => Top(h).at # "run"
        BY <4>2 DEF InGuest
      <4> QED
        BY <4>1, <4>3 DEF Top, Frame
    <3>4. Top(h)' = [at |-> "run", ctx |-> c, ran |-> FALSE]
      BY <3>2 DEF Top
    <3>5. ASSUME NEW d \in 1..(Depth(h) + 1) PROVE FrameOk(h, d)'
      <4>1. CASE d = Depth(h) + 1
        <5>1. /\ d > 1 => d - 1 = Depth(h) /\ d - 1 \in 1..Depth(h)
              /\ ~(d < Depth(h)')
          BY <3>2, <3>3, <4>1
        <5>2. /\ stack'[h][d].at = "run" /\ stack'[h][d].ctx = c
              /\ kstackp'[c] = [host |-> h, depth |-> d]
          BY <3>1, <3>2, <4>1
        <5>3. d > 1 => stack'[h][d - 1].at = "handler"
          BY <3>2, <3>3, <5>1
        <5> QED
          BY <3>1, <5>1, <5>2, <5>3 DEF FrameOk
      <4>2. CASE d \in 1..Depth(h)
        <5>1. d > 1 => d - 1 \in 1..Depth(h)
          BY <3>3, <4>2
        <5>2. FrameOk(h, d) /\ stack[h][d].ctx # c /\ stack[h][d].ctx \in Ctxs
          BY <1>0, <1>00, <1>000, <2>1, <2>3, <4>2 DEF FramesOf
        <5>3. /\ stack'[h][d].at = stack[h][d].at /\ stack'[h][d].ctx = stack[h][d].ctx
              /\ stack[h][d].ran => stack'[h][d].ran
              /\ d = Depth(h) \/ d < Depth(h)
              /\ d = Depth(h) => stack'[h][d].ran
          BY <3>2, <3>3, <4>2
        <5>4. d > 1 => stack'[h][d - 1].at = stack[h][d - 1].at /\ stack'[h][d - 1].ctx = stack[h][d - 1].ctx
          BY <3>2, <5>1
        <5>5. kstackp'[stack[h][d].ctx] = kstackp[stack[h][d].ctx] /\ made' = made
          BY <3>1, <5>2
        <5> QED
          BY <5>2, <5>3, <5>4, <5>5 DEF FrameOk
      <4> QED
        BY <3>3, <4>1, <4>2
    <3>6. ~InHandler(h)' /\ (InGuest(h)' => myctx'[h] = Top(h)'.ctx)
      BY <3>1, <3>2, <3>4 DEF InHandler
    <3> QED
      BY <2>3, <3>2, <3>5, <3>6 DEF FramesOf
  <2> QED
    BY <2>2, <2>3
<1>4. ASSUME NEW h \in Hosts, NEW c \in Ctxs, spawn(h, c) PROVE FramesOf(g)'
  <2>1. /\ stack' = stack /\ myctx' = myctx /\ c \notin made /\ made' = made \cup {c}
        /\ kstackp' = [kstackp EXCEPT ![c] = NoFrame]
    BY <1>4 DEF spawn
  <2>2. kstackp \in [Ctxs -> [host : Hosts \cup {NULL}, depth : Nat]]
    BY <1>0 DEF TypeOK
  <2> QED
    BY <1>00, <1>000, <2>1, <2>2, Bystander
<1>5. ASSUME NEW h \in Hosts, GuestStep(h) \/ lfi_get_tp(h) \/ lfi_set_tp(h) \/ lfi_ctx_tpset(h)
      PROVE  FramesOf(g)'
  BY <1>00, <1>5, Bystander DEF GuestStep, lfi_get_tp, lfi_set_tp, lfi_ctx_tpset
<1>6. ASSUME NEW h \in Hosts, lfi_syscall_entry(h) PROVE FramesOf(g)'
  <2> DEFINE c == myctx[h]
             f == [at |-> "handler", ctx |-> c, ran |-> FALSE]
  <2>1. /\ c \in Ctxs /\ c \in made /\ c = Top(h).ctx /\ Top(h).at = "run"
        /\ kstackp[c].depth = Depth(h) /\ Depth(h) \in 1..Depth(h)
    BY <1>6, TopRun DEF lfi_syscall_entry, lfi_syscall_handler, InGuest
  <2>2. stack' = [stack EXCEPT ![h] = Append(CutTo(h, Depth(h)), f)]
        /\ made' = made /\ myctx' = myctx /\ kstackp' = kstackp
    BY <1>6, <2>1 DEF lfi_syscall_entry, lfi_syscall_handler
  <2>3. CASE g # h
    BY <1>0, <1>00, <2>2, <2>3, Bystander DEF TypeOK
  <2>4. CASE g = h
    <3>1. /\ Depth(h) \in Nat /\ Len(CutTo(h, Depth(h))) = Depth(h)
          /\ CutTo(h, Depth(h)) \in Seq(Frame)
          /\ \A d \in 1..Depth(h) : CutTo(h, Depth(h))[d] = stack[h][d]
      BY <1>0, CutFrames, TopFrame
    <3>2. stack'[h] = Append(CutTo(h, Depth(h)), f)
      BY <1>0, <2>2 DEF TypeOK
    <3>3. /\ Depth(h)' = Depth(h) + 1 /\ stack'[h][Depth(h) + 1] = f
          /\ \A d \in 1..Depth(h) : stack'[h][d] = stack[h][d]
      BY <3>1, <3>2 DEF Depth
    <3>4. stack[h][Depth(h)].at = "run" /\ stack[h][Depth(h)].ctx = c /\ myctx'[h] = c
      BY <2>1, <2>2 DEF Top
    <3>5. f.at = "handler" /\ f.ctx = c /\ f.ran = FALSE
      OBVIOUS
    <3> HIDE DEF c, f
    <3>6. ASSUME NEW d \in 1..(Depth(h) + 1) PROVE FrameOk(h, d)'
      <4>1. CASE d = Depth(h) + 1
        <5>1. d > 1 /\ d - 1 = Depth(h) /\ d - 1 \in 1..Depth(h) /\ ~(d < Depth(h)')
          BY <2>1, <3>1, <3>3, <4>1
        <5>2. stack'[h][d] = f /\ stack'[h][d - 1] = stack[h][Depth(h)]
          BY <3>3, <4>1, <5>1
        <5>3. stack'[h][d].at = "handler" /\ stack'[h][d].ctx = c /\ c \in made'
          BY <2>1, <2>2, <3>5, <5>2
        <5>4. stack'[h][d - 1].at = "run" /\ stack'[h][d - 1].ctx = c
          BY <3>4, <5>2
        <5> QED
          BY <5>1, <5>3, <5>4 DEF FrameOk
      <4>2. CASE d \in 1..Depth(h)
        <5>1. /\ d > 1 => d - 1 \in 1..Depth(h)
              /\ d < Depth(h) \/ stack[h][d].at = "run"
          BY <3>1, <3>4, <4>2
        <5>2. FrameOk(h, d)
          BY <1>0, <2>4, <4>2 DEF FramesOf
        <5>3. /\ stack'[h][d] = stack[h][d]
              /\ d > 1 => stack'[h][d - 1] = stack[h][d - 1]
          BY <3>3, <4>2, <5>1
        <5>4. made' = made /\ kstackp' = kstackp
          BY <2>2
        <5> QED
          BY <5>1, <5>2, <5>3, <5>4 DEF FrameOk
      <4> QED
        BY <3>1, <4>1, <4>2
    <3>7. Top(h)' = f
      BY <3>3 DEF Top
    <3>8. ~InGuest(h)' /\ (InHandler(h)' => myctx'[h] = Top(h)'.ctx)
      BY <3>4, <3>5, <3>7 DEF InGuest
    <3> QED
      BY <2>4, <3>3, <3>6, <3>8 DEF FramesOf
  <2> QED
    BY <2>3, <2>4
<1>7. ASSUME NEW h \in Hosts, NEW d \in 0..Depth(h), g = h,
             stack' = [stack EXCEPT ![h] = CutTo(h, d)], made' = made, kstackp' = kstackp,
             d > 0 => \/ stack[h][d].at = "handler" /\ stack[h][d].ran
                      \/ myctx'[h] = stack[h][d].ctx
      PROVE  FramesOf(g)'
  BY <1>0, <1>7, CutBack DEF TypeOK
<1>8. ASSUME NEW h \in Hosts, NEW d, g # h,
             stack' = [stack EXCEPT ![h] = CutTo(h, d)], made' = made, kstackp' = kstackp,
             myctx'[g] = myctx[g]
      PROVE  FramesOf(g)'
  BY <1>0, <1>00, <1>8, Bystander DEF TypeOK
<1>9. ASSUME NEW h \in Hosts, lfi_ret(h) PROVE FramesOf(g)'
  <2>1. /\ InGuest(h) /\ made' = made /\ kstackp' = kstackp /\ myctx' = myctx
        /\ kstackp[myctx[h]].depth = Depth(h) /\ Depth(h) \in 1..Depth(h) /\ Depth(h) \in Nat
    BY <1>0, <1>9, TopRun, TopFrame DEF lfi_ret
  <2>2. stack' = [stack EXCEPT ![h] = CutTo(h, Depth(h) - 1)] /\ Depth(h) - 1 \in 0..Depth(h)
    BY <1>9, <2>1 DEF lfi_ret
  <2>3. Depth(h) - 1 > 0 => /\ stack[h][Depth(h) - 1].at = "handler"
                            /\ stack[h][Depth(h) - 1].ran
    <3>1. Depth(h) - 1 > 0 => Depth(h) > 1 /\ Depth(h) - 1 \in 1..Depth(h) /\ Depth(h) - 1 < Depth(h)
      BY <2>1
    <3>2. stack[h][Depth(h)].at = "run"
      BY <2>1 DEF InGuest, Top
    <3>3. FrameOk(h, Depth(h)) /\ (Depth(h) - 1 > 0 => FrameOk(h, Depth(h) - 1))
      BY <2>1, <3>1 DEF Inv, FramesOf
    <3> QED
      BY <3>1, <3>2, <3>3 DEF FrameOk
  <2> QED
    BY <1>7, <1>8, <2>1, <2>2, <2>3
<1>10. ASSUME NEW h \in Hosts, arch_syshandle(h) PROVE FramesOf(g)'
  <2>1. /\ InHandler(h) /\ ~Top(h).ran /\ made' = made /\ kstackp' = kstackp /\ myctx' = myctx
        /\ stack' = [stack EXCEPT ![h] = CutTo(h, Depth(h) - 1)]
    BY <1>10 DEF arch_syshandle
  <2>2. Depth(h) - 1 \in 0..Depth(h) /\ stack[h][Depth(h) - 1].ctx = Top(h).ctx
    BY <1>0, <2>1, TopHandler, TopFrame
  <2>3. myctx[h] = Top(h).ctx
    BY <2>1 DEF Inv, FramesOf
  <2> QED
    BY <1>7, <1>8, <2>1, <2>2, <2>3
<1>11. ASSUME NEW h \in Hosts, lfi_ctx_exit(h) \/ lfi_ctx_pause(h) PROVE FramesOf(g)'
  <2>1. /\ InHandler(h) /\ made' = made /\ kstackp' = kstackp /\ (g # h => myctx'[g] = myctx[g])
        /\ stack' = [stack EXCEPT ![h] = CutTo(h, kstackp[Top(h).ctx].depth - 1)]
    BY <1>0, <1>11 DEF lfi_ctx_exit, lfi_ctx_pause, Unwind, TypeOK
  <2>2. /\ Depth(h) \in Nat /\ Depth(h) - 1 \in 1..Depth(h) /\ Depth(h) - 2 \in 0..Depth(h)
        /\ stack[h][Depth(h) - 1].at = "run"
        /\ kstackp[Top(h).ctx].depth - 1 = Depth(h) - 2
    BY <2>1, TopHandler
  <2>3. Depth(h) - 2 > 0 => /\ stack[h][Depth(h) - 2].at = "handler"
                            /\ stack[h][Depth(h) - 2].ran
    <3>1. Depth(h) - 2 > 0 => /\ Depth(h) - 1 > 1 /\ Depth(h) - 2 \in 1..Depth(h)
                              /\ Depth(h) - 2 < Depth(h) /\ (Depth(h) - 1) - 1 = Depth(h) - 2
      BY <2>2
    <3>2. FrameOk(h, Depth(h) - 1) /\ (Depth(h) - 2 > 0 => FrameOk(h, Depth(h) - 2))
      BY <2>2, <3>1 DEF Inv, FramesOf
    <3> QED
      BY <2>2, <3>1, <3>2 DEF FrameOk
  <2>4. stack' = [stack EXCEPT ![h] = CutTo(h, Depth(h) - 2)]
    BY <2>1, <2>2
  <2> QED
    BY <1>7, <1>8, <2>1, <2>2, <2>3, <2>4
<1>12. CASE UNCHANGED vars
  BY <1>00, <1>12, Bystander DEF vars
<1> QED
  BY <1>1, <1>2, <1>3, <1>4, <1>5, <1>6, <1>9, <1>10, <1>11, <1>12 DEF Next

LEMMA InvInit == Init => Inv
<1> SUFFICES ASSUME Init PROVE Inv
  OBVIOUS
<1>1. TypeOK
  <2>1. <<>> \in Seq(Frame)
    OBVIOUS
  <2> QED
    BY <2>1, RegsTyped DEF Init, TypeOK
<1>2. ASSUME NEW h \in Hosts PROVE FramesOf(h)
  <2>1. Depth(h) = 0
    BY DEF Init, Depth
  <2> QED
    BY <2>1 DEF FramesOf, InGuest, InHandler
<1> QED
  BY <1>1, <1>2 DEF Inv

LEMMA InvHolds == Spec => []Inv
<1>1. Inv /\ [Next]_vars => Inv'
  BY TypeStep, FramesStep DEF Inv
<1> QED
  BY <1>1, InvInit, PTL DEF Spec

(***************************************************************************)
(* Type correctness of the frames, the thread-locals, kstackp and the      *)
(* registers, saved and live (struct LFIContext in pal/ctx.c).             *)
(***************************************************************************)
THEOREM TypeCorrect == Spec => []TypeOK
<1>1. Inv => TypeOK
  BY DEF Inv
<1> QED
  BY <1>1, InvHolds, PTL

(***************************************************************************)
(* On any number of host threads and contexts and however deep the runs    *)
(* nest, a running guest owns its host thread: what lfi_syscall_entry and  *)
(* lfi_ret find through lfi_myctx is the guest's own context and frame.    *)
(***************************************************************************)
THEOREM GuestOwns == Spec => []GuestOwnsThread
<1>1. Inv => GuestOwnsThread
  BY TopRun DEF GuestOwnsThread
<1> QED
  BY <1>1, InvHolds, PTL

-----------------------------------------------------------------------------
(* The refinement.  A context is on the stack of one host thread at most,  *)
(* the one kstackp names, so the sets of the mapping are singletons.       *)

LEMMA OneHost ==
    ASSUME Inv, NEW h \in Hosts, NEW d \in 1..Depth(h)
    PROVE  /\ stack[h][d].ctx \in made
           /\ kstackp[stack[h][d].ctx].host = h
           /\ kstackp[stack[h][d].ctx].depth = IF stack[h][d].at = "run" THEN d ELSE d - 1
<1>1. Depth(h) \in Nat /\ stack[h][d] \in Frame /\ FrameOk(h, d)
  BY TopFrame DEF Inv, FramesOf
<1>2. CASE stack[h][d].at = "run"
  BY <1>1, <1>2 DEF FrameOk
<1>3. CASE stack[h][d].at = "handler"
  <2>1. d - 1 \in 1..Depth(h) /\ stack[h][d - 1].at = "run" /\ stack[h][d - 1].ctx = stack[h][d].ctx
    BY <1>1, <1>3 DEF FrameOk
  <2>2. FrameOk(h, d - 1)
    BY <2>1 DEF Inv, FramesOf
  <2>3. kstackp[stack[h][d].ctx] = [host |-> h, depth |-> d - 1]
    BY <2>1, <2>2 DEF FrameOk
  <2> QED
    BY <1>1, <1>3, <2>3 DEF FrameOk
<1> QED
  BY <1>1, <1>2, <1>3 DEF Frame

LEMMA RunsOnce ==
    ASSUME Inv, NEW c \in Ctxs, NEW h \in RunsOn(c)
    PROVE  RunsOn(c) = {h} /\ c \in made /\ GuestOn(c) \subseteq {h}
<1>1. ASSUME NEW g \in RunsOn(c) PROVE kstackp[c].host = g /\ c \in made
  BY OneHost DEF RunsOn
<1>2. GuestOn(c) \subseteq RunsOn(c)
  <2>1. ASSUME NEW g \in Hosts, InGuest(g), Top(g).ctx = c PROVE g \in RunsOn(c)
    BY <2>1, TopRun DEF RunsOn, Top
  <2> QED
    BY <2>1 DEF GuestOn
<1> QED
  BY <1>1, <1>2

\* What is on top of a host thread's stack, and below
LEMMA GuestOnTop ==
    ASSUME Inv, NEW h \in Hosts, InGuest(h)
    PROVE  /\ RunsOn(Top(h).ctx) = {h} /\ GuestOn(Top(h).ctx) = {h}
           /\ \A d \in 1..(Depth(h) - 1) : stack[h][d].ctx # Top(h).ctx
<1>1. /\ Depth(h) \in Nat /\ Depth(h) \in 1..Depth(h) /\ Top(h).ctx \in Ctxs
      /\ kstackp[Top(h).ctx].depth = Depth(h)
  BY TopRun
<1>2. h \in RunsOn(Top(h).ctx) /\ h \in GuestOn(Top(h).ctx)
  BY <1>1 DEF RunsOn, GuestOn, Top
<1>3. RunsOn(Top(h).ctx) = {h} /\ GuestOn(Top(h).ctx) \subseteq {h}
  BY <1>1, <1>2, RunsOnce
<1>4. ASSUME NEW d \in 1..(Depth(h) - 1) PROVE stack[h][d].ctx # Top(h).ctx
  <2>1. d \in 1..Depth(h) /\ d # Depth(h) /\ d - 1 # Depth(h)
    BY <1>1
  <2>2. kstackp[stack[h][d].ctx].depth = d \/ kstackp[stack[h][d].ctx].depth = d - 1
    BY <2>1, OneHost
  <2> QED
    BY <1>1, <2>1, <2>2
<1> QED
  BY <1>2, <1>3, <1>4

LEMMA HandlerOnTop ==
    ASSUME Inv, NEW h \in Hosts, InHandler(h)
    PROVE  /\ RunsOn(Top(h).ctx) = {h} /\ GuestOn(Top(h).ctx) = {}
           /\ \A d \in 1..(Depth(h) - 2) : stack[h][d].ctx # Top(h).ctx
<1>1. /\ Depth(h) \in Nat /\ Depth(h) \in 1..Depth(h) /\ Top(h).ctx \in Ctxs
      /\ kstackp[Top(h).ctx] = [host |-> h, depth |-> Depth(h) - 1]
  BY TopHandler
<1>2. h \in RunsOn(Top(h).ctx) /\ h \notin GuestOn(Top(h).ctx)
  BY <1>1 DEF RunsOn, GuestOn, Top, InGuest, InHandler
<1>3. RunsOn(Top(h).ctx) = {h} /\ GuestOn(Top(h).ctx) \subseteq {h}
  BY <1>1, <1>2, RunsOnce
<1>4. ASSUME NEW d \in 1..(Depth(h) - 2) PROVE stack[h][d].ctx # Top(h).ctx
  <2>1. d \in 1..Depth(h) /\ d # Depth(h) - 1 /\ d - 1 # Depth(h) - 1
    BY <1>1
  <2>2. kstackp[stack[h][d].ctx].depth = d \/ kstackp[stack[h][d].ctx].depth = d - 1
    BY <2>1, OneHost
  <2>3. kstackp[Top(h).ctx].depth = Depth(h) - 1
    BY <1>1
  <2> QED
    BY <2>1, <2>2, <2>3
<1> QED
  BY <1>2, <1>3, <1>4

\* What the mapping shows of a context, by where it runs
LEMMA Views ==
    ASSUME NEW c \in Ctxs
    PROVE  /\ c \notin made => ModeOf(c) = "none"
           /\ c \in made /\ GuestOn(c) # {} => ModeOf(c) = "guest"
           /\ c \in made /\ GuestOn(c) = {} /\ RunsOn(c) # {} => ModeOf(c) = "handler"
           /\ c \in made /\ GuestOn(c) = {} /\ RunsOn(c) = {} => ModeOf(c) = "idle"
           /\ RunsOn(c) = {} => RunnerOf(c) = NULL
           /\ \A h \in Hosts : RunsOn(c) = {h} => RunnerOf(c) = h
           /\ GuestOn(c) = {} => VregOf(c) = regs[c]
           /\ \A h \in Hosts : GuestOn(c) = {h} => VregOf(c) = cpu[h]
<1>1. \A h \in Hosts : (CHOOSE g \in {h} : TRUE) = h
  OBVIOUS
<1> QED
  BY <1>1 DEF ModeOf, RunnerOf, VregOf

LEMMA ViewsAfter ==
    ASSUME NEW c \in Ctxs
    PROVE  /\ c \notin made' => ModeOf(c)' = "none"
           /\ c \in made' /\ GuestOn(c)' # {} => ModeOf(c)' = "guest"
           /\ c \in made' /\ GuestOn(c)' = {} /\ RunsOn(c)' # {} => ModeOf(c)' = "handler"
           /\ c \in made' /\ GuestOn(c)' = {} /\ RunsOn(c)' = {} => ModeOf(c)' = "idle"
           /\ RunsOn(c)' = {} => RunnerOf(c)' = NULL
           /\ \A h \in Hosts : RunsOn(c)' = {h} => RunnerOf(c)' = h
           /\ GuestOn(c)' = {} => VregOf(c)' = regs'[c]
           /\ \A h \in Hosts : GuestOn(c)' = {h} => VregOf(c)' = cpu'[h]
<1>1. \A h \in Hosts : (CHOOSE g \in {h} : TRUE) = h
  OBVIOUS
<1> QED
  BY <1>1 DEF ModeOf, RunnerOf, VregOf

\* A context that no step of its own, of its registers or of its host thread
\* touches looks the same afterwards.
LEMMA ViewKept ==
    ASSUME Inv, NEW k \in Ctxs, RunsOn(k)' = RunsOn(k), GuestOn(k)' = GuestOn(k),
           k \in made' <=> k \in made, regs'[k] = regs[k],
           \A g \in GuestOn(k) : cpu'[g] = cpu[g]
    PROVE  ModeOf(k)' = ModeOf(k) /\ RunnerOf(k)' = RunnerOf(k) /\ VregOf(k)' = VregOf(k)
<1>1. ModeOf(k)' = ModeOf(k)
  BY DEF ModeOf
<1>2. RunnerOf(k)' = RunnerOf(k)
  BY DEF RunnerOf
<1>3. VregOf(k)' = VregOf(k)
  <2>1. CASE GuestOn(k) = {}
    BY <2>1 DEF VregOf
  <2>2. CASE GuestOn(k) # {}
    <3>1. (CHOOSE g \in GuestOn(k) : TRUE) \in GuestOn(k)
      BY <2>2
    <3> QED
      BY <2>2, <3>1 DEF VregOf
  <2> QED
    BY <2>1, <2>2
<1> QED
  BY <1>1, <1>2, <1>3

\* A step that moves no frame
LEMMA SameFrames ==
    ASSUME stack' = stack
    PROVE  \A k : RunsOn(k)' = RunsOn(k) /\ GuestOn(k)' = GuestOn(k)
BY DEF RunsOn, GuestOn, InGuest, Top, Depth

\* A step on host thread h and the context c on it, seen from another context
LEMMA OthersKept ==
    ASSUME Inv, NEW h \in Hosts, NEW c \in Ctxs,
           \A g \in Hosts : g # h => stack'[g] = stack[g] /\ cpu'[g] = cpu[g],
           made' = made, \A k \in Ctxs : k # c => regs'[k] = regs[k],
           \A k \in Ctxs : k # c => (h \in RunsOn(k)' <=> h \in RunsOn(k)),
           \A k \in Ctxs : k # c => h \notin GuestOn(k) /\ h \notin GuestOn(k)'
    PROVE  \A k \in Ctxs : k # c =>
              ModeOf(k)' = ModeOf(k) /\ RunnerOf(k)' = RunnerOf(k) /\ VregOf(k)' = VregOf(k)
<1> SUFFICES ASSUME NEW k \in Ctxs, k # c
             PROVE  ModeOf(k)' = ModeOf(k) /\ RunnerOf(k)' = RunnerOf(k) /\ VregOf(k)' = VregOf(k)
  OBVIOUS
<1>1. ASSUME NEW g \in Hosts
      PROVE  (g \in RunsOn(k)' <=> g \in RunsOn(k)) /\ (g \in GuestOn(k)' <=> g \in GuestOn(k))
  <2>1. CASE g = h
    BY <2>1
  <2>2. CASE g # h
    <3>1. stack'[g] = stack[g]
      BY <2>2
    <3> QED
      BY <3>1 DEF RunsOn, GuestOn, InGuest, Top, Depth
  <2> QED
    BY <2>1, <2>2
<1>2. /\ RunsOn(k) \subseteq Hosts /\ RunsOn(k)' \subseteq Hosts
      /\ GuestOn(k) \subseteq Hosts /\ GuestOn(k)' \subseteq Hosts
  BY DEF RunsOn, GuestOn
<1>3. RunsOn(k)' = RunsOn(k) /\ GuestOn(k)' = GuestOn(k)
  BY <1>1, <1>2
<1>4. \A g \in GuestOn(k) : cpu'[g] = cpu[g]
  BY <1>2
<1> QED
  BY <1>3, <1>4, ViewKept

\* After cutting a stack back, its contexts are those of the frames below.
LEMMA CutViews ==
    ASSUME Inv, NEW h \in Hosts, NEW d \in 0..Depth(h), stack'[h] = CutTo(h, d)
    PROVE  \A k \in Ctxs :
              /\ h \in RunsOn(k)' <=> \E e \in 1..d : stack[h][e].ctx = k
              /\ h \in GuestOn(k)' <=> d > 0 /\ stack[h][d].at = "run" /\ stack[h][d].ctx = k
<1>1. Depth(h)' = d /\ \A e \in 1..d : stack'[h][e] = stack[h][e]
  BY CutFrames DEF Inv, Depth
<1>2. d \in Nat /\ (d > 0 => d \in 1..d)
  BY TopFrame DEF Inv
<1>3. d > 0 => Top(h)' = stack[h][d]
  BY <1>1, <1>2 DEF Top
<1> QED
  BY <1>1, <1>2, <1>3 DEF RunsOn, GuestOn, InGuest

\* The mapped state after a step that changes the view of c only
LEMMA Assemble ==
    ASSUME NEW c \in Ctxs,
           \A k \in Ctxs : k # c =>
              ModeOf(k)' = ModeOf(k) /\ RunnerOf(k)' = RunnerOf(k) /\ VregOf(k)' = VregOf(k)
    PROVE  /\ [k \in Ctxs |-> ModeOf(k)]' = [[k \in Ctxs |-> ModeOf(k)] EXCEPT ![c] = ModeOf(c)']
           /\ [k \in Ctxs |-> RunnerOf(k)]' = [[k \in Ctxs |-> RunnerOf(k)] EXCEPT ![c] = RunnerOf(c)']
           /\ [k \in Ctxs |-> VregOf(k)]' = [[k \in Ctxs |-> VregOf(k)] EXCEPT ![c] = VregOf(c)']
           /\ ModeOf(c)' = ModeOf(c) => [k \in Ctxs |-> ModeOf(k)]' = [k \in Ctxs |-> ModeOf(k)]
           /\ RunnerOf(c)' = RunnerOf(c) =>
                 [k \in Ctxs |-> RunnerOf(k)]' = [k \in Ctxs |-> RunnerOf(k)]
           /\ VregOf(c)' = VregOf(c) => [k \in Ctxs |-> VregOf(k)]' = [k \in Ctxs |-> VregOf(k)]
OBVIOUS

\* A step of the embedder on a context that nothing runs
LEMMA RefOutside ==
    ASSUME Inv, NEW c \in Ctxs, lfi_ctx_new(c) \/ lfi_ctx_free(c) \/ lfi_ctx_regs(c)
    PROVE  Virtual!Next
<1>1. stack' = stack /\ cpu' = cpu /\ TypeOK /\ TypeOK'
  <2>1. Next
    BY DEF Next
  <2> QED
    BY <2>1, TypeStep DEF Inv, lfi_ctx_new, lfi_regs_init, lfi_ctx_free, lfi_ctx_regs
<1>2. RunsOn(c) = {} /\ GuestOn(c) = {} /\ RunsOn(c)' = {} /\ GuestOn(c)' = {}
  <2>1. RunsOn(c) = {}
    <3>1. c \notin made \/ ~Active(c)
      BY DEF lfi_ctx_new, lfi_regs_init, lfi_ctx_free, lfi_ctx_regs
    <3>2. RunsOn(c) # {} => c \in made /\ Active(c)
      BY RunsOnce DEF RunsOn, Active
    <3> QED
      BY <3>1, <3>2
  <2>2. GuestOn(c) = {}
    <3>1. ASSUME NEW g \in GuestOn(c) PROVE g \in RunsOn(c)
      BY <3>1, TopRun DEF GuestOn, RunsOn, Top
    <3> QED
      BY <2>1, <3>1
  <2> QED
    BY <1>1, <2>1, <2>2, SameFrames
<1>3. \A k \in Ctxs : k # c => (k \in made' <=> k \in made) /\ regs'[k] = regs[k]
  BY <1>1 DEF lfi_ctx_new, lfi_regs_init, lfi_ctx_free, lfi_ctx_regs, TypeOK
<1>4. \A k \in Ctxs : k # c =>
         ModeOf(k)' = ModeOf(k) /\ RunnerOf(k)' = RunnerOf(k) /\ VregOf(k)' = VregOf(k)
  BY <1>1, <1>3, SameFrames, ViewKept
<1>5. VregOf(c) = regs[c] /\ VregOf(c)' = regs'[c] /\ RunnerOf(c) = NULL /\ RunnerOf(c)' = NULL
  BY <1>2, Views, ViewsAfter
<1>6. regs'[c] \in Regs /\ tp'[c] \in Vals
  BY <1>1 DEF TypeOK
<1>7. CASE lfi_ctx_new(c)
  <2>1. ModeOf(c) = "none" /\ ModeOf(c)' = "idle"
    BY <1>2, <1>7, Views, ViewsAfter DEF lfi_ctx_new, lfi_regs_init
  <2>2. tp' = [tp EXCEPT ![c] = Zero] /\ Zero \in Vals
    BY <1>7, ContextsAssumption DEF lfi_ctx_new, lfi_regs_init
  <2>3. Virtual!Make(c)
    BY <1>4, <1>5, <1>6, <2>1, <2>2, Assemble
    DEF Virtual!Make, Virtual!Moves, Virtual!Regs, Regs
  <2> QED
    BY <2>3 DEF Virtual!Next
<1>8. CASE lfi_ctx_free(c)
  <2>1. ModeOf(c) = "idle" /\ ModeOf(c)' = "none" /\ regs' = regs /\ tp' = tp
    BY <1>2, <1>8, Views, ViewsAfter DEF lfi_ctx_free
  <2>2. Virtual!Unmake(c)
    BY <1>4, <1>5, <2>1, Assemble DEF Virtual!Unmake, Virtual!Moves
  <2> QED
    BY <2>2 DEF Virtual!Next
<1>9. CASE lfi_ctx_regs(c)
  <2>1. ModeOf(c) = "idle" /\ ModeOf(c)' = "idle" /\ tp' = tp
    BY <1>2, <1>9, Views, ViewsAfter DEF lfi_ctx_regs
  <2>2. Virtual!SetRegs(c)
    BY <1>4, <1>5, <1>6, <2>1, Assemble DEF Virtual!SetRegs, Virtual!Regs, Regs
  <2> QED
    BY <2>2 DEF Virtual!Next
<1> QED
  BY <1>7, <1>8, <1>9

\* lfi_ctx_run enters a context.
LEMMA RefRun ==
    ASSUME Inv, NEW h \in Hosts, NEW c \in Ctxs, lfi_ctx_run(h, c)
    PROVE  Virtual!Next
<1>1. /\ c \in made /\ ~Active(c) /\ ~InGuest(h) /\ made' = made /\ regs' = regs /\ tp' = tp
      /\ stack' = [stack EXCEPT ![h] = RunFrames(h, c)] /\ cpu' = [cpu EXCEPT ![h] = regs[c]]
  BY DEF lfi_ctx_run, lfi_restore_regs
<1>2. TypeOK
  BY DEF Inv
<1>3. /\ stack'[h] = RunFrames(h, c) /\ cpu'[h] = regs[c]
      /\ \A g \in Hosts : g # h => stack'[g] = stack[g] /\ cpu'[g] = cpu[g]
  BY <1>1, <1>2 DEF TypeOK
<1>4. /\ Depth(h) \in Nat /\ Depth(h)' = Depth(h) + 1
      /\ Top(h)' = [at |-> "run", ctx |-> c, ran |-> FALSE]
      /\ stack'[h][Depth(h) + 1] = [at |-> "run", ctx |-> c, ran |-> FALSE]
      /\ \A d \in 1..Depth(h) : stack'[h][d].ctx = stack[h][d].ctx
  <2>1. Depth(h)' = Len(stack'[h]) /\ Top(h)' = stack'[h][Depth(h)']
    BY DEF Depth, Top
  <2> QED
    BY <1>2, <1>3, <2>1, EnteredFrames, TopFrame
<1>5. InGuest(h)'
  BY <1>4 DEF InGuest
<1>6. RunsOn(c) = {} /\ GuestOn(c) = {}
  <2>1. RunsOn(c) = {}
    BY <1>1 DEF RunsOn, Active
  <2>2. ASSUME NEW g \in GuestOn(c) PROVE g \in RunsOn(c)
    BY <2>2, TopRun DEF GuestOn, RunsOn, Top
  <2> QED
    BY <2>1, <2>2
<1>7. ASSUME NEW g \in Hosts, g # h PROVE g \notin RunsOn(c)' /\ g \notin GuestOn(c)'
  <2>1. stack'[g] = stack[g]
    BY <1>3, <1>7
  <2> QED
    BY <1>6, <2>1 DEF RunsOn, GuestOn, InGuest, Top, Depth
<1>8. RunsOn(c)' = {h} /\ GuestOn(c)' = {h}
  <2>1. h \in GuestOn(c)'
    BY <1>4, <1>5 DEF GuestOn
  <2>2. h \in RunsOn(c)'
    BY <1>4 DEF RunsOn
  <2>3. RunsOn(c)' \subseteq Hosts /\ GuestOn(c)' \subseteq Hosts
    BY DEF RunsOn, GuestOn
  <2> QED
    BY <1>7, <2>1, <2>2, <2>3
<1>9. ASSUME NEW k \in Ctxs, k # c
      PROVE  /\ h \in RunsOn(k)' <=> h \in RunsOn(k)
             /\ h \notin GuestOn(k) /\ h \notin GuestOn(k)'
  <2>1. h \notin GuestOn(k) /\ h \notin GuestOn(k)'
    BY <1>1, <1>4, <1>9 DEF GuestOn
  <2>2. h \in RunsOn(k)' <=> \E d \in 1..(Depth(h) + 1) : stack'[h][d].ctx = k
    BY <1>4 DEF RunsOn
  <2>3. h \in RunsOn(k) <=> \E d \in 1..Depth(h) : stack[h][d].ctx = k
    BY DEF RunsOn
  <2>4. \A d \in 1..(Depth(h) + 1) : d \in 1..Depth(h) \/ d = Depth(h) + 1
    BY <1>4
  <2>5. \A d \in 1..Depth(h) : d \in 1..(Depth(h) + 1)
    BY <1>4
  <2>6. stack'[h][Depth(h) + 1].ctx # k
    BY <1>4, <1>9
  <2> QED
    BY <1>4, <2>1, <2>2, <2>3, <2>4, <2>5, <2>6
<1>10. \A k \in Ctxs : k # c =>
          ModeOf(k)' = ModeOf(k) /\ RunnerOf(k)' = RunnerOf(k) /\ VregOf(k)' = VregOf(k)
  BY <1>1, <1>3, <1>9, OthersKept
<1>11. /\ ModeOf(c) = "idle" /\ VregOf(c) = regs[c]
       /\ ModeOf(c)' = "guest" /\ RunnerOf(c)' = h /\ VregOf(c)' = regs[c]
  BY <1>1, <1>3, <1>6, <1>8, Views, ViewsAfter
<1>12. Virtual!Enter(c, h)
  BY <1>1, <1>10, <1>11, Assemble DEF Virtual!Enter, Virtual!Moves
<1> QED
  BY <1>12 DEF Virtual!Next

\* The guest computes or loads its thread pointer.
LEMMA RefGuest ==
    ASSUME Inv, NEW h \in Hosts, GuestStep(h) \/ lfi_get_tp(h)
    PROVE  Virtual!Next
<1>1. /\ InGuest(h) /\ stack' = stack /\ made' = made /\ regs' = regs /\ tp' = tp
  BY DEF GuestStep, lfi_get_tp
<1>0. PICK c \in Ctxs : c = Top(h).ctx
  BY <1>1, TopRun
<1>2. c \in made /\ myctx[h] = c /\ RunsOn(c) = {h} /\ GuestOn(c) = {h}
  BY <1>0, <1>1, TopRun, GuestOnTop
<1>3. RunsOn(c)' = {h} /\ GuestOn(c)' = {h}
  BY <1>1, <1>2, SameFrames
<1>4. \A g \in Hosts : g # h => cpu'[g] = cpu[g]
  <2>1. \E r : cpu' = [cpu EXCEPT ![h] = r]
    BY DEF GuestStep, lfi_get_tp
  <2> QED
    BY <2>1 DEF Inv, TypeOK
<1>5. /\ ModeOf(c) = "guest" /\ VregOf(c) = cpu[h] /\ RunnerOf(c) = h
      /\ ModeOf(c)' = "guest" /\ VregOf(c)' = cpu'[h] /\ RunnerOf(c)' = h
  BY <1>1, <1>2, <1>3, Views, ViewsAfter
<1>6. \A k \in Ctxs : k # c => h \notin GuestOn(k) /\ h \notin GuestOn(k)'
  <2>1. \A k \in Ctxs : k # c => h \notin GuestOn(k)
    BY <1>0 DEF GuestOn
  <2> QED
    BY <1>1, <2>1, SameFrames
<1>7. \A k \in Ctxs : k # c =>
         ModeOf(k)' = ModeOf(k) /\ RunnerOf(k)' = RunnerOf(k) /\ VregOf(k)' = VregOf(k)
  BY <1>1, <1>2, <1>4, <1>6, SameFrames, OthersKept
<1>8. CASE GuestStep(h)
  <2>1. cpu'[h] \in Regs
    BY <1>8 DEF GuestStep, Inv, TypeOK
  <2>2. Virtual!Compute(c)
    BY <1>1, <1>2, <1>5, <1>7, <2>1, Assemble DEF Virtual!Compute, Virtual!Regs, Regs
  <2> QED
    BY <1>2, <2>2 DEF Virtual!Next
<1>9. CASE lfi_get_tp(h)
  <2>1. cpu'[h] = [cpu[h] EXCEPT !.ax = tp[c]]
    BY <1>2, <1>9 DEF lfi_get_tp, Inv, TypeOK
  <2>2. /\ [k \in Ctxs |-> VregOf(k)]' = [[k \in Ctxs |-> VregOf(k)] EXCEPT ![c] = VregOf(c)']
        /\ UNCHANGED <<[k \in Ctxs |-> ModeOf(k)], [k \in Ctxs |-> RunnerOf(k)]>>
    BY <1>5, <1>7, Assemble
  <2>3. VregOf(c)' = [VregOf(c) EXCEPT !.ax = tp[c]]
    BY <1>5, <2>1
  <2>4. [k \in Ctxs |-> VregOf(k)]' = [[k \in Ctxs |-> VregOf(k)] EXCEPT ![c].ax = tp[c]]
    BY <2>2, <2>3, Zenon
  <2>5. Virtual!ReadTp(c)
    BY <1>1, <1>5, <2>2, <2>4 DEF Virtual!ReadTp
  <2> QED
    BY <2>5 DEF Virtual!Next
<1> QED
  BY <1>8, <1>9

\* The guest sets its thread pointer.
LEMMA RefSetTp ==
    ASSUME Inv, NEW h \in Hosts, lfi_set_tp(h)
    PROVE  Virtual!Next
<1>1. InGuest(h) /\ stack' = stack /\ made' = made /\ regs' = regs /\ cpu' = cpu
  BY DEF lfi_set_tp
<1>2. PICK c \in Ctxs : c = Top(h).ctx
  BY <1>1, TopRun
<1>3. c \in made /\ myctx[h] = c /\ RunsOn(c) = {h} /\ GuestOn(c) = {h}
  BY <1>1, <1>2, TopRun, GuestOnTop
<1>4. ModeOf(c) = "guest" /\ VregOf(c) = cpu[h]
  BY <1>3, Views
<1>5. tp' = [tp EXCEPT ![c] = VregOf(c).ax]
  BY <1>3, <1>4 DEF lfi_set_tp
<1>6. \A k \in Ctxs : /\ ModeOf(k)' = ModeOf(k) /\ RunnerOf(k)' = RunnerOf(k)
                      /\ VregOf(k)' = VregOf(k)
  BY <1>1, SameFrames, ViewKept
<1>7. Virtual!WriteTp(c)
  BY <1>4, <1>5, <1>6, Assemble DEF Virtual!WriteTp
<1> QED
  BY <1>7 DEF Virtual!Next

\* lfi_syscall_entry traps; the registers move from the cpu to the context.
LEMMA RefEntry ==
    ASSUME Inv, NEW h \in Hosts, lfi_syscall_entry(h)
    PROVE  Virtual!Next
<1>0. InGuest(h) /\ TypeOK
  BY DEF lfi_syscall_entry, lfi_syscall_handler, Inv
<1>1. PICK c \in Ctxs : c = Top(h).ctx
  BY <1>0, TopRun
<1>2. /\ c \in made /\ myctx[h] = c /\ RunsOn(c) = {h} /\ GuestOn(c) = {h}
      /\ kstackp[c].depth = Depth(h) /\ Depth(h) \in Nat
      /\ Depth(h) \in 1..Depth(h) /\ Depth(h) \in 0..Depth(h)
  BY <1>0, <1>1, TopRun, GuestOnTop
<1>3. PICK f : /\ f = [at |-> "handler", ctx |-> c, ran |-> FALSE]
               /\ stack' = [stack EXCEPT ![h] = Append(CutTo(h, Depth(h)), f)]
  BY <1>2 DEF lfi_syscall_entry, lfi_syscall_handler
<1>4. made' = made /\ tp' = tp /\ regs' = [regs EXCEPT ![c] = cpu[h]]
  BY <1>2 DEF lfi_syscall_entry, lfi_syscall_handler, SavePartialRegs
<1>5. \A g \in Hosts : g # h => stack'[g] = stack[g] /\ cpu'[g] = cpu[g]
  <2>1. cpu' = [cpu EXCEPT ![h] = ZeroRegs]
    BY DEF lfi_syscall_entry, lfi_syscall_handler
  <2> QED
    BY <1>0, <1>3, <2>1 DEF TypeOK
<1>6. regs'[c] = cpu[h] /\ \A k \in Ctxs : k # c => regs'[k] = regs[k]
  BY <1>0, <1>4 DEF TypeOK
<1>7. /\ Depth(h)' = Depth(h) + 1 /\ Top(h)' = f /\ f.at = "handler" /\ f.ctx = c
      /\ \A d \in 1..(Depth(h) + 1) : stack'[h][d].ctx = IF d = Depth(h) + 1 THEN c ELSE stack[h][d].ctx
  <2>1. /\ Len(CutTo(h, Depth(h))) = Depth(h) /\ CutTo(h, Depth(h)) \in Seq(Frame)
        /\ \A d \in 1..Depth(h) : CutTo(h, Depth(h))[d] = stack[h][d]
    BY <1>0, <1>2, CutFrames
  <2>2. stack'[h] = Append(CutTo(h, Depth(h)), f) /\ f.ctx = c /\ f.at = "handler"
    BY <1>0, <1>3 DEF TypeOK
  <2>3. /\ Depth(h)' = Depth(h) + 1 /\ stack'[h][Depth(h) + 1] = f
        /\ \A d \in 1..Depth(h) : stack'[h][d] = stack[h][d]
    BY <1>2, <2>1, <2>2 DEF Depth
  <2>4. Top(h)' = f
    BY <2>3 DEF Top
  <2>5. \A d \in 1..(Depth(h) + 1) : d \in 1..Depth(h) \/ d = Depth(h) + 1
    BY <1>2
  <2> QED
    BY <2>2, <2>3, <2>4, <2>5
<1>8. \A k \in Ctxs : h \in RunsOn(k)' <=> h \in RunsOn(k)
  <2> SUFFICES ASSUME NEW k \in Ctxs PROVE h \in RunsOn(k)' <=> h \in RunsOn(k)
    OBVIOUS
  <2>1. h \in RunsOn(k)' <=> \E d \in 1..(Depth(h) + 1) : stack'[h][d].ctx = k
    BY <1>7 DEF RunsOn
  <2>2. h \in RunsOn(k) <=> \E d \in 1..Depth(h) : stack[h][d].ctx = k
    BY DEF RunsOn
  <2>3. /\ \A d \in 1..(Depth(h) + 1) : d \in 1..Depth(h) \/ d = Depth(h) + 1
        /\ \A d \in 1..Depth(h) : d \in 1..(Depth(h) + 1) /\ d # Depth(h) + 1
    BY <1>2
  <2>4. stack[h][Depth(h)].ctx = c
    BY <1>1 DEF Top
  <2> QED
    BY <1>2, <1>7, <2>1, <2>2, <2>3, <2>4
<1>9. /\ \A k \in Ctxs : h \notin GuestOn(k)'
      /\ \A k \in Ctxs : k # c => h \notin GuestOn(k)
  BY <1>1, <1>7 DEF GuestOn, InGuest
<1>10. RunsOn(c)' = {h} /\ GuestOn(c)' = {}
  <2>1. ASSUME NEW g \in Hosts, g # h PROVE g \notin RunsOn(c)' /\ g \notin GuestOn(c)'
    <3>1. stack'[g] = stack[g] /\ g \notin RunsOn(c) /\ g \notin GuestOn(c)
      BY <1>2, <1>5, <2>1
    <3> QED
      BY <3>1 DEF RunsOn, GuestOn, InGuest, Top, Depth
  <2>2. RunsOn(c)' \subseteq Hosts /\ GuestOn(c)' \subseteq Hosts
    BY DEF RunsOn, GuestOn
  <2> QED
    BY <1>2, <1>8, <1>9, <2>1, <2>2
<1>11. \A k \in Ctxs : k # c =>
          ModeOf(k)' = ModeOf(k) /\ RunnerOf(k)' = RunnerOf(k) /\ VregOf(k)' = VregOf(k)
  BY <1>4, <1>5, <1>6, <1>8, <1>9, OthersKept
<1>12. /\ ModeOf(c) = "guest" /\ VregOf(c) = cpu[h] /\ RunnerOf(c) = h
       /\ ModeOf(c)' = "handler" /\ VregOf(c)' = cpu[h] /\ RunnerOf(c)' = h
  BY <1>2, <1>4, <1>6, <1>10, Views, ViewsAfter
<1>13. Virtual!Trap(c)
  BY <1>4, <1>11, <1>12, Assemble DEF Virtual!Trap, Virtual!Moves
<1> QED
  BY <1>13 DEF Virtual!Next

\* Leaving a context cuts the stack back to below its frames, to a handler of
\* another context or to nothing.
LEMMA Left ==
    ASSUME Inv, NEW h \in Hosts, NEW c \in Ctxs, NEW d \in 0..Depth(h),
           stack' = [stack EXCEPT ![h] = CutTo(h, d)], made' = made, regs' = regs,
           \A g \in Hosts : g # h => cpu'[g] = cpu[g],
           c \in made, RunsOn(c) = {h},
           \A e \in 1..Depth(h) : stack[h][e].ctx = c <=> e > d,
           d > 0 => stack[h][d].at = "handler",
           \A k \in Ctxs : k # c => h \notin GuestOn(k)
    PROVE  /\ \A k \in Ctxs : k # c =>
                 ModeOf(k)' = ModeOf(k) /\ RunnerOf(k)' = RunnerOf(k) /\ VregOf(k)' = VregOf(k)
           /\ ModeOf(c)' = "idle" /\ RunnerOf(c)' = NULL /\ VregOf(c)' = regs[c]
<1>0. TypeOK /\ Depth(h) \in Nat /\ d \in Nat
  BY TopFrame DEF Inv
<1>1. stack'[h] = CutTo(h, d) /\ \A g \in Hosts : g # h => stack'[g] = stack[g]
  BY <1>0 DEF TypeOK
<1>2. \A k \in Ctxs : /\ h \in RunsOn(k)' <=> \E e \in 1..d : stack[h][e].ctx = k
                      /\ h \notin GuestOn(k)'
  <2> SUFFICES ASSUME NEW k \in Ctxs
               PROVE  /\ h \in RunsOn(k)' <=> \E e \in 1..d : stack[h][e].ctx = k
                      /\ h \notin GuestOn(k)'
    OBVIOUS
  <2>1. /\ h \in RunsOn(k)' <=> \E e \in 1..d : stack[h][e].ctx = k
        /\ h \in GuestOn(k)' <=> d > 0 /\ stack[h][d].at = "run" /\ stack[h][d].ctx = k
    BY <1>1, CutViews
  <2>2. ~(d > 0 /\ stack[h][d].at = "run")
    OBVIOUS
  <2> QED
    BY <2>1, <2>2
<1>3. \A e \in 1..d : e \in 1..Depth(h) /\ ~(e > d)
  BY <1>0
<1>4. ASSUME NEW k \in Ctxs, k # c PROVE h \in RunsOn(k)' <=> h \in RunsOn(k)
  <2>1. h \in RunsOn(k) <=> \E e \in 1..Depth(h) : stack[h][e].ctx = k
    BY DEF RunsOn
  <2>2. \A e \in 1..Depth(h) : stack[h][e].ctx = k => e \in 1..d
    BY <1>0, <1>4
  <2> QED
    BY <1>2, <1>3, <2>1, <2>2
<1>5. RunsOn(c)' = {} /\ GuestOn(c)' = {}
  <2>1. h \notin RunsOn(c)' /\ h \notin GuestOn(c)'
    BY <1>2, <1>3
  <2>2. ASSUME NEW g \in Hosts, g # h PROVE g \notin RunsOn(c)' /\ g \notin GuestOn(c)'
    <3>1. stack'[g] = stack[g] /\ g \notin RunsOn(c)
      BY <1>1, <2>2
    <3>2. g \notin GuestOn(c)
      BY <3>1, TopRun DEF GuestOn, RunsOn, Top
    <3> QED
      BY <3>1, <3>2 DEF RunsOn, GuestOn, InGuest, Top, Depth
  <2>3. RunsOn(c)' \subseteq Hosts /\ GuestOn(c)' \subseteq Hosts
    BY DEF RunsOn, GuestOn
  <2> QED
    BY <2>1, <2>2, <2>3
<1>6. \A k \in Ctxs : k # c =>
         ModeOf(k)' = ModeOf(k) /\ RunnerOf(k)' = RunnerOf(k) /\ VregOf(k)' = VregOf(k)
  BY <1>1, <1>2, <1>4, OthersKept
<1>7. ModeOf(c)' = "idle" /\ RunnerOf(c)' = NULL /\ VregOf(c)' = regs'[c]
  BY <1>5, ViewsAfter
<1> QED
  BY <1>6, <1>7

\* The accelerated return of a library call
LEMMA RefRet ==
    ASSUME Inv, NEW h \in Hosts, lfi_ret(h)
    PROVE  Virtual!Next
<1>0. InGuest(h) /\ TypeOK
  BY DEF lfi_ret, Inv
<1>1. PICK c \in Ctxs : c = Top(h).ctx
  BY <1>0, TopRun
<1>2. /\ c \in made /\ myctx[h] = c /\ RunsOn(c) = {h} /\ GuestOn(c) = {h}
      /\ kstackp[c].depth = Depth(h) /\ Depth(h) \in Nat
      /\ Depth(h) \in 1..Depth(h) /\ Depth(h) - 1 \in 0..Depth(h)
      /\ \A e \in 1..(Depth(h) - 1) : stack[h][e].ctx # c
  BY <1>0, <1>1, TopRun, GuestOnTop
<1>3. /\ stack' = [stack EXCEPT ![h] = CutTo(h, Depth(h) - 1)]
      /\ made' = made /\ regs' = regs /\ tp' = tp /\ cpu' = [cpu EXCEPT ![h] = ZeroRegs]
  BY <1>2 DEF lfi_ret
<1>4. \A g \in Hosts : g # h => cpu'[g] = cpu[g]
  BY <1>0, <1>3 DEF TypeOK
<1>5. \A e \in 1..Depth(h) : stack[h][e].ctx = c <=> e > Depth(h) - 1
  <2>1. stack[h][Depth(h)].ctx = c
    BY <1>1 DEF Top
  <2>2. \A e \in 1..Depth(h) : e = Depth(h) \/ e \in 1..(Depth(h) - 1)
    BY <1>2
  <2>3. \A e \in 1..Depth(h) : e > Depth(h) - 1 <=> e = Depth(h)
    BY <1>2
  <2> QED
    BY <1>2, <2>1, <2>2, <2>3
<1>6. Depth(h) - 1 > 0 => stack[h][Depth(h) - 1].at = "handler"
  <2>1. stack[h][Depth(h)].at = "run" /\ FrameOk(h, Depth(h))
    BY <1>0, <1>2 DEF InGuest, Top, Inv, FramesOf
  <2>2. Depth(h) - 1 > 0 => Depth(h) > 1
    BY <1>2
  <2> QED
    BY <2>1, <2>2 DEF FrameOk
<1>7. \A k \in Ctxs : k # c => h \notin GuestOn(k)
  BY <1>1 DEF GuestOn
<1>8. /\ \A k \in Ctxs : k # c =>
            ModeOf(k)' = ModeOf(k) /\ RunnerOf(k)' = RunnerOf(k) /\ VregOf(k)' = VregOf(k)
      /\ ModeOf(c)' = "idle" /\ RunnerOf(c)' = NULL /\ VregOf(c)' = regs[c]
  BY <1>2, <1>3, <1>4, <1>5, <1>6, <1>7, Left
<1>9. ModeOf(c) = "guest" /\ regs[c] \in Regs
  BY <1>0, <1>2, Views DEF TypeOK
<1>10. Virtual!LibReturn(c)
  BY <1>3, <1>8, <1>9, Assemble DEF Virtual!LibReturn, Virtual!Moves, Virtual!Regs, Regs
<1> QED
  BY <1>10 DEF Virtual!Next

\* Exit and pause, from the handler
LEMMA RefLeave ==
    ASSUME Inv, NEW h \in Hosts, lfi_ctx_exit(h) \/ lfi_ctx_pause(h)
    PROVE  Virtual!Next
<1>0. InHandler(h) /\ TypeOK
  BY DEF lfi_ctx_exit, lfi_ctx_pause, Inv
<1>1. PICK c \in Ctxs : c = Top(h).ctx
  BY <1>0, TopHandler
<1>2. /\ c \in made /\ RunsOn(c) = {h} /\ GuestOn(c) = {}
      /\ kstackp[c].depth - 1 = Depth(h) - 2 /\ Depth(h) \in Nat
      /\ Depth(h) - 1 \in 1..Depth(h) /\ Depth(h) - 2 \in 0..Depth(h)
      /\ stack[h][Depth(h) - 1].at = "run" /\ stack[h][Depth(h) - 1].ctx = c
      /\ \A e \in 1..(Depth(h) - 2) : stack[h][e].ctx # c
  BY <1>0, <1>1, TopHandler, HandlerOnTop
<1>3. /\ stack' = [stack EXCEPT ![h] = CutTo(h, Depth(h) - 2)]
      /\ made' = made /\ regs' = regs /\ tp' = tp /\ cpu' = cpu
  BY <1>1, <1>2 DEF lfi_ctx_exit, lfi_ctx_pause, Unwind
<1>4. \A e \in 1..Depth(h) : stack[h][e].ctx = c <=> e > Depth(h) - 2
  <2>1. stack[h][Depth(h)].ctx = c
    BY <1>1 DEF Top
  <2>2. \A e \in 1..Depth(h) : e = Depth(h) \/ e = Depth(h) - 1 \/ e \in 1..(Depth(h) - 2)
    BY <1>2
  <2>3. \A e \in 1..Depth(h) : e > Depth(h) - 2 <=> e = Depth(h) \/ e = Depth(h) - 1
    BY <1>2
  <2> QED
    BY <1>2, <2>1, <2>2, <2>3
<1>5. Depth(h) - 2 > 0 => stack[h][Depth(h) - 2].at = "handler"
  <2>1. FrameOk(h, Depth(h) - 1)
    BY <1>2 DEF Inv, FramesOf
  <2>2. Depth(h) - 2 > 0 => Depth(h) - 1 > 1 /\ (Depth(h) - 1) - 1 = Depth(h) - 2
    BY <1>2
  <2> QED
    BY <1>2, <2>1, <2>2 DEF FrameOk
<1>6. \A k \in Ctxs : k # c => h \notin GuestOn(k)
  BY <1>1 DEF GuestOn
<1>7. /\ \A k \in Ctxs : k # c =>
            ModeOf(k)' = ModeOf(k) /\ RunnerOf(k)' = RunnerOf(k) /\ VregOf(k)' = VregOf(k)
      /\ ModeOf(c)' = "idle" /\ RunnerOf(c)' = NULL /\ VregOf(c)' = regs[c]
  BY <1>2, <1>3, <1>4, <1>5, <1>6, Left
<1>8. ModeOf(c) = "handler" /\ VregOf(c) = regs[c]
  BY <1>2, Views
<1>9. Virtual!Leave(c)
  BY <1>3, <1>7, <1>8, Assemble DEF Virtual!Leave, Virtual!Moves
<1> QED
  BY <1>9 DEF Virtual!Next

\* arch_prctl, and spawn
LEMMA RefHandler ==
    ASSUME Inv, NEW h \in Hosts, lfi_ctx_tpset(h) \/ \E d \in Ctxs : spawn(h, d)
    PROVE  Virtual!Next
<1>0. InHandler(h) /\ TypeOK /\ stack' = stack /\ cpu' = cpu
  BY DEF lfi_ctx_tpset, spawn, Inv
<1>1. PICK c \in Ctxs : c = Top(h).ctx
  BY <1>0, TopHandler
<1>2. c \in made /\ RunsOn(c) = {h} /\ GuestOn(c) = {}
  BY <1>0, <1>1, TopHandler, HandlerOnTop
<1>3. ModeOf(c) = "handler" /\ VregOf(c) = regs[c]
  BY <1>2, Views
<1>4. CASE lfi_ctx_tpset(h)
  <2>1. made' = made /\ regs' = regs /\ \E v \in Vals : tp' = [tp EXCEPT ![c] = v]
    BY <1>1, <1>4 DEF lfi_ctx_tpset
  <2>2. \A k \in Ctxs : ModeOf(k)' = ModeOf(k) /\ RunnerOf(k)' = RunnerOf(k) /\ VregOf(k)' = VregOf(k)
    BY <1>0, <2>1, SameFrames, ViewKept
  <2>3. Virtual!SetTp(c)
    BY <1>3, <2>1, <2>2, Assemble DEF Virtual!SetTp
  <2> QED
    BY <2>3 DEF Virtual!Next
<1>5. ASSUME NEW d \in Ctxs, spawn(h, d) PROVE Virtual!Next
  <2>1. d \notin made /\ made' = made \cup {d} /\ d # c
    BY <1>2, <1>5 DEF spawn
  <2>2. PICK sp \in Vals : regs' = [regs EXCEPT ![d] = ChildRegs(c, sp)]
    BY <1>1, <1>5 DEF spawn
  <2>3. \E v \in Vals : tp' = [tp EXCEPT ![d] = v]
    BY <1>5 DEF spawn
  <2>4. /\ regs'[d] = [VregOf(c) EXCEPT !.ax = Zero, !.sp = sp]
        /\ \A k \in Ctxs : k # d => regs'[k] = regs[k]
    BY <1>0, <1>3, <2>2 DEF ChildRegs, TypeOK
  <2>5. RunsOn(d) = {} /\ GuestOn(d) = {}
    <3>1. RunsOn(d) = {}
      BY <2>1, RunsOnce
    <3>2. ASSUME NEW g \in GuestOn(d) PROVE g \in RunsOn(d)
      BY <3>2, TopRun DEF GuestOn, RunsOn, Top
    <3> QED
      BY <3>1, <3>2
  <2>6. RunsOn(d)' = {} /\ GuestOn(d)' = {}
    BY <1>0, <2>5, SameFrames
  <2>7. \A k \in Ctxs : k # d =>
           ModeOf(k)' = ModeOf(k) /\ RunnerOf(k)' = RunnerOf(k) /\ VregOf(k)' = VregOf(k)
    BY <1>0, <2>1, <2>4, SameFrames, ViewKept
  <2>8. /\ ModeOf(d) = "none" /\ RunnerOf(d) = NULL
        /\ ModeOf(d)' = "idle" /\ RunnerOf(d)' = NULL /\ VregOf(d)' = regs'[d]
    BY <2>1, <2>5, <2>6, Views, ViewsAfter
  <2>9. [k \in Ctxs |-> VregOf(k)]' =
           [[k \in Ctxs |-> VregOf(k)] EXCEPT
               ![d] = [[k \in Ctxs |-> VregOf(k)][c] EXCEPT !.ax = Zero, !.sp = sp]]
    <3>1. [k \in Ctxs |-> VregOf(k)][c] = VregOf(c)
      OBVIOUS
    <3>2. [k \in Ctxs |-> VregOf(k)]' = [[k \in Ctxs |-> VregOf(k)] EXCEPT ![d] = VregOf(d)']
      BY <2>7, Assemble
    <3> QED
      BY <2>4, <2>8, <3>1, <3>2, Zenon
  <2>10. /\ [k \in Ctxs |-> ModeOf(k)]' = [[k \in Ctxs |-> ModeOf(k)] EXCEPT ![d] = "idle"]
         /\ [k \in Ctxs |-> RunnerOf(k)]' = [k \in Ctxs |-> RunnerOf(k)]
         /\ [k \in Ctxs |-> ModeOf(k)][d] = "none" /\ [k \in Ctxs |-> ModeOf(k)][c] = "handler"
    BY <1>3, <2>7, <2>8, Assemble
  <2>11. Virtual!Clone(c, d)
    BY <2>3, <2>9, <2>10 DEF Virtual!Clone, Virtual!Moves
  <2> QED
    BY <2>11 DEF Virtual!Next
<1> QED
  BY <1>4, <1>5

\* arch_syshandle returns to the guest with the result of its call.
LEMMA RefAnswer ==
    ASSUME Inv, NEW h \in Hosts, arch_syshandle(h)
    PROVE  Virtual!Next
<1>0. InHandler(h) /\ TypeOK /\ made' = made /\ tp' = tp
  BY DEF arch_syshandle, Inv
<1>1. PICK c \in Ctxs : c = Top(h).ctx
  BY <1>0, TopHandler
<1>2. /\ c \in made /\ RunsOn(c) = {h} /\ GuestOn(c) = {}
      /\ Depth(h) \in Nat /\ Depth(h) - 1 \in 1..Depth(h) /\ Depth(h) - 1 \in 0..Depth(h)
      /\ stack[h][Depth(h) - 1].at = "run" /\ stack[h][Depth(h) - 1].ctx = c
  BY <1>0, <1>1, TopHandler, HandlerOnTop
<1>3. PICK v \in Vals : /\ regs' = [regs EXCEPT ![c].ax = v]
                        /\ cpu' = [cpu EXCEPT ![h] = [regs[c] EXCEPT !.ax = v]]
  BY <1>1 DEF arch_syshandle, RestorePartialRegs
<1>4. /\ cpu'[h] = [regs[c] EXCEPT !.ax = v]
      /\ \A k \in Ctxs : k # c => regs'[k] = regs[k]
  BY <1>0, <1>3 DEF TypeOK
<1>5. /\ stack'[h] = CutTo(h, Depth(h) - 1)
      /\ \A g \in Hosts : g # h => stack'[g] = stack[g] /\ cpu'[g] = cpu[g]
  <2>1. stack' = [stack EXCEPT ![h] = CutTo(h, Depth(h) - 1)]
    BY DEF arch_syshandle
  <2> QED
    BY <1>0, <1>3, <2>1 DEF TypeOK
<1>6. ASSUME NEW k \in Ctxs
      PROVE  /\ h \in RunsOn(k)' <=> \E e \in 1..(Depth(h) - 1) : stack[h][e].ctx = k
             /\ h \in GuestOn(k)' <=> k = c
  <2>1. /\ h \in RunsOn(k)' <=> \E e \in 1..(Depth(h) - 1) : stack[h][e].ctx = k
        /\ h \in GuestOn(k)' <=> /\ Depth(h) - 1 > 0
                                 /\ stack[h][Depth(h) - 1].at = "run"
                                 /\ stack[h][Depth(h) - 1].ctx = k
    BY <1>2, <1>5, CutViews
  <2>2. Depth(h) - 1 > 0
    BY <1>2
  <2> QED
    BY <1>2, <2>1, <2>2
<1>7. ASSUME NEW k \in Ctxs PROVE h \in RunsOn(k)' <=> h \in RunsOn(k)
  <2>1. h \in RunsOn(k) <=> \E e \in 1..Depth(h) : stack[h][e].ctx = k
    BY DEF RunsOn
  <2>2. /\ \A e \in 1..Depth(h) : e = Depth(h) \/ e \in 1..(Depth(h) - 1)
        /\ \A e \in 1..(Depth(h) - 1) : e \in 1..Depth(h)
        /\ Depth(h) - 1 \in 1..(Depth(h) - 1)
    BY <1>2
  <2>3. stack[h][Depth(h)].ctx = c
    BY <1>1 DEF Top
  <2> QED
    BY <1>2, <1>6, <2>1, <2>2, <2>3
<1>8. RunsOn(c)' = {h} /\ GuestOn(c)' = {h}
  <2>1. ASSUME NEW g \in Hosts, g # h PROVE g \notin RunsOn(c)' /\ g \notin GuestOn(c)'
    <3>1. stack'[g] = stack[g] /\ g \notin RunsOn(c) /\ g \notin GuestOn(c)
      BY <1>2, <1>5, <2>1
    <3> QED
      BY <3>1 DEF RunsOn, GuestOn, InGuest, Top, Depth
  <2>2. RunsOn(c)' \subseteq Hosts /\ GuestOn(c)' \subseteq Hosts
    BY DEF RunsOn, GuestOn
  <2>3. h \in RunsOn(c)' /\ h \in GuestOn(c)'
    BY <1>2, <1>6, <1>7
  <2> QED
    BY <2>1, <2>2, <2>3
<1>9. \A k \in Ctxs : k # c => h \notin GuestOn(k) /\ h \notin GuestOn(k)'
  <2>1. \A k \in Ctxs : h \notin GuestOn(k)
    BY <1>0 DEF GuestOn, InGuest, InHandler
  <2> QED
    BY <1>6, <2>1
<1>10. \A k \in Ctxs : k # c =>
          ModeOf(k)' = ModeOf(k) /\ RunnerOf(k)' = RunnerOf(k) /\ VregOf(k)' = VregOf(k)
  BY <1>0, <1>4, <1>5, <1>7, <1>9, OthersKept
<1>11. /\ ModeOf(c) = "handler" /\ RunnerOf(c) = h /\ VregOf(c) = regs[c]
       /\ ModeOf(c)' = "guest" /\ RunnerOf(c)' = h /\ VregOf(c)' = cpu'[h]
  BY <1>0, <1>2, <1>8, Views, ViewsAfter
<1>12. [k \in Ctxs |-> VregOf(k)]' = [[k \in Ctxs |-> VregOf(k)] EXCEPT ![c].ax = v]
  <2>1. [k \in Ctxs |-> VregOf(k)]' = [[k \in Ctxs |-> VregOf(k)] EXCEPT ![c] = VregOf(c)']
    BY <1>10, Assemble
  <2>2. VregOf(c)' = [VregOf(c) EXCEPT !.ax = v]
    BY <1>4, <1>11
  <2> QED
    BY <2>1, <2>2, Zenon
<1>13. /\ [k \in Ctxs |-> ModeOf(k)]' = [[k \in Ctxs |-> ModeOf(k)] EXCEPT ![c] = "guest"]
       /\ [k \in Ctxs |-> RunnerOf(k)]' = [k \in Ctxs |-> RunnerOf(k)]
       /\ [k \in Ctxs |-> ModeOf(k)][c] = "handler"
  BY <1>10, <1>11, Assemble
<1>14. Virtual!Answer(c)
  BY <1>0, <1>12, <1>13 DEF Virtual!Answer, Virtual!Moves
<1> QED
  BY <1>14 DEF Virtual!Next

LEMMA RefStep == Inv /\ [Next]_vars => [Virtual!Next]_(Virtual!vars)
<1> SUFFICES ASSUME Inv, [Next]_vars PROVE [Virtual!Next]_(Virtual!vars)
  OBVIOUS
<1>1. CASE UNCHANGED vars
  <2>1. \A k \in Ctxs : ModeOf(k)' = ModeOf(k) /\ RunnerOf(k)' = RunnerOf(k) /\ VregOf(k)' = VregOf(k)
    BY <1>1, SameFrames, ViewKept DEF vars
  <2> QED
    BY <1>1, <2>1 DEF vars, Virtual!vars
<1>2. ASSUME NEW c \in Ctxs, lfi_ctx_new(c) \/ lfi_ctx_free(c) \/ lfi_ctx_regs(c)
      PROVE  Virtual!Next
  BY <1>2, RefOutside
<1>3. ASSUME NEW h \in Hosts, NEW c \in Ctxs, lfi_ctx_run(h, c) PROVE Virtual!Next
  BY <1>3, RefRun
<1>4. ASSUME NEW h \in Hosts, \/ \E d \in Ctxs : spawn(h, d)
                              \/ GuestStep(h) \/ lfi_get_tp(h) \/ lfi_set_tp(h)
                              \/ lfi_syscall_entry(h)
                              \/ lfi_ret(h) \/ lfi_ctx_tpset(h) \/ arch_syshandle(h)
                              \/ lfi_ctx_exit(h) \/ lfi_ctx_pause(h)
      PROVE  Virtual!Next
  BY <1>4, RefGuest, RefSetTp, RefEntry, RefRet, RefLeave, RefHandler, RefAnswer
<1>5. CASE Next
  BY <1>2, <1>3, <1>4, <1>5 DEF Next
<1> QED
  BY <1>1, <1>5

(***************************************************************************)
(* Contexts implement VirtualCpus: whatever other contexts do, on the same *)
(* host thread or on others, and wherever the PAL keeps the registers of a *)
(* guest, the guest sees the registers and the thread pointer of a         *)
(* processor of its own.                                                   *)
(***************************************************************************)
THEOREM Implements == Spec => ActsAsProcessor
<1>1. Init => Virtual!Init
  <2> SUFFICES ASSUME Init PROVE Virtual!Init
    OBVIOUS
  <2>1. Inv
    BY InvInit
  <2>2. \A c \in Ctxs : RunsOn(c) = {} /\ GuestOn(c) = {} /\ c \notin made
    BY <2>1, RunsOnce DEF Init, RunsOn, GuestOn, InGuest, Depth
  <2>3. \A c \in Ctxs : ModeOf(c) = "none" /\ RunnerOf(c) = NULL /\ VregOf(c) = regs[c]
    BY <2>2, Views
  <2> QED
    BY <2>1, <2>3 DEF Inv, TypeOK, Virtual!Init, Virtual!Regs, Regs
<1> QED
  BY <1>1, RefStep, InvHolds, PTL DEF Spec, ActsAsProcessor, Virtual!Spec
=============================================================================
