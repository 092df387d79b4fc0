--------------------------- MODULE ProcLoadProofs ---------------------------
(***************************************************************************)
(* Proofs about ProcLoad and its hand-over to AddrSpace (ProcStart), for   *)
(* any images, sizes and page size.                                        *)
(***************************************************************************)
EXTENDS ProcStart, TLAPS

Early == {"empty", "as", "ctx", "interp", "stack"}
Loaded == {"segment", "args", "brk", "fdinit", "done"}

\* What `load` has been given
ArgInv ==
    /\ part = "prog" => base = MinAddr
    /\ part = "interp" => interp \in Images
    /\ pc \in Early => part = "prog"
    /\ base <= MinAddr + CODEMAX

\* How far the images reach
LastInv ==
    /\ part = "prog" => last <= MinAddr + CODEMAX
    /\ last <= MinAddr + 2 * CODEMAX
    /\ part = "interp" /\ pc \in Loaded => last = 0 \/ last > base

\* The images are loaded from base to last, the interpreter behind the program.
ProgAt(m) ==
    /\ MinAddr <= m.lo /\ m.lo < m.hi
    /\ IF part = "prog" THEN m.hi <= last /\ pc # "header" /\ pc \notin Early ELSE m.hi <= base
InterpAt(m) ==
    /\ part = "interp" /\ pc # "header"
    /\ base # 0 /\ base <= m.lo /\ m.hi <= last
BrkAt(m) ==
    /\ pc \in {"fdinit", "done"}
    /\ MinAddr <= last /\ m.lo = last /\ m.hi = last + BrkMax

MapInv ==
    \A m \in maps :
       /\ m.of = "stack" => m.lo = MaxAddr - StackSize
       /\ m.of = "prog" => ProgAt(m)
       /\ m.of = "interp" => InterpAt(m)
       /\ m.of = "brk" => BrkAt(m)

LInv == TypeOK /\ ArgInv /\ LastInv /\ MapInv

\* What AddrSpace needs of the bounds
Aligned(a) == a % PageSize = 0

BoundInv ==
    /\ Aligned(base) /\ Aligned(last)
    /\ base = 0 \/ MinAddr <= base
    /\ last = 0 \/ MinAddr < last
    /\ \A m \in maps : /\ Aligned(m.lo) /\ Aligned(m.hi)
                       /\ m.of = "stack" => m.hi = MaxAddr

\* Some image ends at last.
EndInv ==
    last # 0 => \E m \in maps : m.of \in {"prog", "interp"} /\ m.lo < m.hi /\ m.hi = last

\* The stack and the brk region are mapped.
ThereInv ==
    /\ pc \in Loaded \cup {"header"} => \E m \in maps : m.of = "stack"
    /\ pc \in {"fdinit", "done"} => \E m \in maps : m.of = "brk"

\* The program's segments that `load` is past are where their headers say.
SegmentMapped(s) ==
    LET at == s.vaddr + IF prog.type = "dyn" THEN MinAddr ELSE Base
    IN ~Skipped(s) /\ s.vaddr + s.memsz < WORD =>
          \E m \in maps : m.of = "prog" /\ m.lo <= at /\ at + s.memsz <= m.hi

SegInv ==
    /\ \A k \in 1..Len(prog.segs) :
          part = "interp" \/ k < i => SegmentMapped(prog.segs[k])
    /\ part = "prog" /\ pc \in Loaded \ {"segment"} => i > Len(prog.segs)

StartInv == LInv /\ BoundInv /\ EndInv /\ ThereInv /\ SegInv

-----------------------------------------------------------------------------
(***************************************************************************)
(* The constants: sizes are positive, and the space has room for all.      *)
(***************************************************************************)
LEMMA Sizes ==
    /\ WORD \in Nat \ {0} /\ PageSize \in Nat \ {0} /\ Base \in Nat \ {0}
    /\ MinAddr \in Nat \ {0} /\ MaxAddr \in Nat \ {0} /\ CODEMAX \in Nat \ {0}
    /\ BrkMax \in Nat \ {0} /\ StackSize \in Nat \ {0}
    /\ MinAddr + 2 * CODEMAX + BrkMax + StackSize <= MaxAddr
    /\ CODEMAX <= Base /\ Base < MinAddr /\ MaxAddr < WORD
    /\ \A im \in Images : im.type \in {"dyn", "exec"} /\ im.segs \in Seq(Segment)
BY ProcLoadAssumption

(***************************************************************************)
(* The layout is made of whole pages.                                      *)
(***************************************************************************)
LEMMA SpaceAligned ==
    /\ Aligned(Base) /\ Aligned(MinAddr) /\ Aligned(MaxAddr)
    /\ Aligned(BrkMax) /\ Aligned(StackSize)
BY ProcLoadAssumption DEF Aligned

(***************************************************************************)
(* A segment that the checks of `load` accept lies in the first CODEMAX    *)
(* bytes behind base, whatever its header says.                            *)
(***************************************************************************)
LEMMA AcceptedBounds ==
    ASSUME base \in Nat, NEW s \in Segment, Accepted(s)
    PROVE  /\ Start(s) \in Nat /\ End(s) \in Nat
           /\ Start(s) < End(s) /\ End(s) < CODEMAX
<1> USE Sizes
<1>1. Shift \in Int
  BY DEF Shift
<1>2. s.vaddr \in Nat /\ s.memsz \in Nat /\ s.align \in Nat
  BY DEF Segment
<1>3. \A a, b \in Nat : truncp(a, b) \in Int /\ ceilp(a, b) \in Int
  BY DEF truncp, ceilp
<1>4. (s.vaddr + s.memsz) % WORD \in Nat
  BY <1>2
<1>5. /\ truncp(s.vaddr, s.align) \in Int
      /\ ceilp((s.vaddr + s.memsz) % WORD, s.align) \in Int
  BY <1>2, <1>3, <1>4
<1>6. Start(s) \in Int
  BY <1>1, <1>5 DEF Start
<1>7. End(s) \in Int
  BY <1>1, <1>5 DEF End
<1> QED
  BY <1>6, <1>7 DEF Accepted

(***************************************************************************)
(* The segment that `load` looks at is a segment of an image.              *)
(***************************************************************************)
LEMMA CurrentSegment ==
    ASSUME TypeOK, ArgInv, i <= Len(Image.segs)
    PROVE  Image.segs[i] \in Segment
<1>1. Image \in Images
  BY DEF TypeOK, ArgInv, Image
<1>2. Image.segs \in Seq(Segment)
  BY <1>1, Sizes
<1>3. i \in 1..Len(Image.segs)
  BY <1>2 DEF TypeOK
<1> QED
  BY <1>2, <1>3

(***************************************************************************)
(* A step that only moves on to a label that the maps allow, past "header" *)
(* or before it as its old one, keeps the invariant.                       *)
(***************************************************************************)
LEMMA MoveStep ==
    ASSUME LInv, NEW l \in Labels, pc' = l,
           l \notin {"header", "segment"},
           l \in Early => pc \in Early,
           l \in Loaded => pc \in Loaded,
           pc \in {"fdinit", "done"} => l \in {"fdinit", "done"},
           UNCHANGED <<prog, interp, part, i, base, last, maps>>
    PROVE  LInv'
<1> USE DEF LInv, Early, Loaded
<1>1. TypeOK'
  BY DEF TypeOK
<1>2. ArgInv' /\ LastInv'
  BY DEF ArgInv, LastInv
<1>3. MapInv'
  BY DEF MapInv, ProgAt, InterpAt, BrkAt
<1> QED
  BY <1>1, <1>2, <1>3

(***************************************************************************)
(* Loading a segment keeps the invariant: the map lies between base and    *)
(* the new last.                                                           *)
(***************************************************************************)
LEMMA SegmentStep == ASSUME LInv, LoadSegment PROVE LInv'
<1> USE Sizes DEF LInv
<1> DEFINE s == Image.segs[i]
<1>0. PICK m : m = [of |-> part, lo |-> base + Start(s), hi |-> base + End(s)]
  OBVIOUS
<1>1. s \in Segment
  BY CurrentSegment DEF LoadSegment
<1>2. base \in Nat /\ base <= MaxAddr /\ last \in Nat
  BY DEF TypeOK
<1>3. /\ Start(s) \in Nat /\ End(s) \in Nat
      /\ Start(s) < End(s) /\ End(s) < CODEMAX
  BY <1>1, <1>2, AcceptedBounds DEF LoadSegment
<1>4. /\ pc = "segment" /\ pc' = "segment"
      /\ maps' = maps \cup {m}
      /\ MinAddr <= m.lo /\ m.hi <= MaxAddr
      /\ m.lo = base + Start(s) /\ m.hi = base + End(s) /\ m.of = part
      /\ UNCHANGED <<prog, interp, part>>
      /\ i' = i + 1
  BY <1>0, <1>2, <1>3 DEF LoadSegment, MapAt, AssertFails
<1>5. /\ base' = IF base = 0 THEN Start(s) ELSE base
      /\ last' = IF base' + End(s) > last THEN base' + End(s) ELSE last
  BY DEF LoadSegment, NewBase, NewLast
<1> HIDE DEF s
<1>6. base' \in Nat /\ base' <= MinAddr + CODEMAX /\ base <= base'
  BY <1>2, <1>3, <1>5 DEF ArgInv
<1>7. /\ last' \in Nat /\ last <= last' /\ m.hi <= last' /\ base' < last'
      /\ last' <= MinAddr + 2 * CODEMAX
  BY <1>2, <1>3, <1>4, <1>5, <1>6, SMTT(30) DEF LastInv
<1>8. part = "prog" => base' = MinAddr /\ last' <= MinAddr + CODEMAX
  BY <1>2, <1>3, <1>5 DEF ArgInv, LastInv
<1>9. m \in [of : {"prog", "interp", "brk", "stack"}, lo : 0..MaxAddr, hi : 0..MaxAddr]
  <2>1. m.lo \in 0..MaxAddr /\ m.hi \in 0..MaxAddr
    BY <1>2, <1>3, <1>4
  <2> QED
    BY <1>0, <2>1 DEF TypeOK
<1>10. TypeOK'
  <2>1. base' \in 0..MaxAddr /\ last' \in 0..MaxAddr /\ i' \in Nat \ {0}
    BY <1>4, <1>6, <1>7 DEF TypeOK
  <2> QED
    BY <1>4, <1>9, <2>1 DEF TypeOK, Labels
<1>11. ArgInv' /\ LastInv'
  BY <1>4, <1>6, <1>7, <1>8 DEF ArgInv, LastInv, Early, Loaded
<1>12. ASSUME NEW n \in maps
       PROVE  /\ n.of = "stack" => n.lo = MaxAddr - StackSize
              /\ n.of = "prog" => ProgAt(n)'
              /\ n.of = "interp" => InterpAt(n)'
              /\ n.of # "brk"
  <2>1. n.lo \in Nat /\ n.hi \in Nat
    BY <1>12 DEF TypeOK
  <2>2. /\ n.of = "stack" => n.lo = MaxAddr - StackSize
        /\ n.of # "brk"
    BY <1>4, <1>12 DEF MapInv, BrkAt
  <2>3. n.of = "prog" => ProgAt(n)'
    BY <1>2, <1>4, <1>6, <1>7, <1>12, <2>1 DEF MapInv, ProgAt, Early
  <2>4. n.of = "interp" => InterpAt(n)'
    BY <1>2, <1>4, <1>5, <1>6, <1>7, <1>12, <2>1, SMTT(30) DEF MapInv, InterpAt
  <2> QED
    BY <2>2, <2>3, <2>4
<1>13. /\ m.of = "prog" => ProgAt(m)'
       /\ m.of = "interp" => InterpAt(m)'
  <2>1. m.lo < m.hi /\ base' <= m.lo /\ base' # 0
    BY <1>2, <1>3, <1>4, <1>5
  <2> QED
    BY <1>4, <1>7, <2>1 DEF ProgAt, InterpAt, Early
<1>14. m.of \in {"prog", "interp"}
  BY <1>4 DEF TypeOK
<1>15. MapInv'
  BY <1>4, <1>12, <1>13, <1>14 DEF MapInv
<1> QED
  BY <1>10, <1>11, <1>15

(***************************************************************************)
(* Every step of creating a process keeps the invariant.                   *)
(***************************************************************************)
LEMMA LInvStep == ASSUME LInv, [Next]_vars PROVE LInv'
<1> USE Sizes
<1>1. CASE UNCHANGED vars
  BY <1>1 DEF vars, LInv, TypeOK, ArgInv, LastInv, MapInv, ProgAt, InterpAt, BrkAt
<1>2. CASE LoadSegment
  BY <1>2, SegmentStep
<1>3. CASE Alloc \/ AllocFails \/ CtxNew
  BY <1>3, MoveStep DEF Alloc, AllocFails, CtxNew, Return, Goto, Labels, Early, Loaded
<1>4. CASE \/ CtxNewFails \/ ReadInterpFails \/ MapStackFails \/ LoadHeaderFails
           \/ LoadSegmentFails \/ StackSetupFails \/ ReserveBrkFails
  BY <1>4, MoveStep
  DEF CtxNewFails, ReadInterpFails, MapStackFails, LoadHeaderFails, LoadSegmentFails,
      StackSetupFails, ReserveBrkFails, Err3, Goto, Labels, Early, Loaded
<1>5. CASE LoadDone \/ StackSetup \/ Fdinit
  BY <1>5, MoveStep DEF LoadDone, StackSetup, Fdinit, Goto, Labels, Early, Loaded
<1>6. CASE ReadInterp
  <2> USE <1>6 DEF ReadInterp, Goto, LInv
  <2>1. TypeOK' /\ ArgInv' /\ LastInv'
    BY DEF TypeOK, ArgInv, LastInv, Labels, Early, Loaded
  <2>2. MapInv'
    BY DEF MapInv, ProgAt, InterpAt, BrkAt, Early
  <2> QED
    BY <2>1, <2>2
<1>7. CASE MapStack
  <2> USE <1>7 DEF MapStack, Goto, LInv
  <2> DEFINE m == [of |-> "stack", lo |-> MaxAddr - StackSize, hi |-> MaxAddr]
  <2>1. maps' = maps \cup {m} /\ m.of = "stack" /\ m.lo = MaxAddr - StackSize
    BY DEF MapAt
  <2>2. m \in [of : {"prog", "interp", "brk", "stack"}, lo : 0..MaxAddr, hi : 0..MaxAddr]
    BY Sizes
  <2> HIDE DEF m
  <2>3. TypeOK' /\ ArgInv' /\ LastInv'
    BY <2>1, <2>2 DEF TypeOK, ArgInv, LastInv, Labels, Early, Loaded
  <2>4. \A n \in maps : n.of = "stack" /\ n.lo = MaxAddr - StackSize
    BY DEF MapInv, ProgAt, InterpAt, BrkAt, Early, ArgInv, TypeOK
  <2>5. MapInv'
    BY <2>1, <2>4 DEF MapInv
  <2> QED
    BY <2>3, <2>5
<1>8. CASE LoadHeader
  <2> USE <1>8 DEF LoadHeader, Goto, LInv
  <2>1. TypeOK'
    BY DEF TypeOK, Labels
  <2>2. ArgInv' /\ LastInv'
    BY DEF TypeOK, ArgInv, LastInv, Early, Loaded
  <2>3. MapInv'
    BY DEF MapInv, ProgAt, InterpAt, BrkAt, Early
  <2> QED
    BY <2>1, <2>2, <2>3
<1>9. CASE SkipSegment
  <2> USE <1>9 DEF SkipSegment, LInv
  <2>1. TypeOK'
    BY DEF TypeOK, Labels
  <2>2. ArgInv' /\ LastInv'
    BY DEF TypeOK, ArgInv, LastInv, Early, Loaded
  <2>3. MapInv'
    BY DEF MapInv, ProgAt, InterpAt, BrkAt, Early
  <2> QED
    BY <2>1, <2>2, <2>3
<1>10. CASE LoadInterp
  <2> USE <1>10 DEF LoadInterp, Goto, LInv
  <2>1. TypeOK'
    BY DEF TypeOK, Labels
  <2>2. ArgInv' /\ LastInv'
    BY DEF TypeOK, ArgInv, LastInv, Early, Loaded
  <2>3. MapInv'
    BY DEF MapInv, ProgAt, InterpAt, BrkAt, Early
  <2> QED
    BY <2>1, <2>2, <2>3
<1>11. CASE ReserveBrk
  <2> USE <1>11 DEF ReserveBrk, Goto, LInv
  <2>0. PICK m : m = [of |-> "brk", lo |-> last, hi |-> last + BrkMax]
    OBVIOUS
  <2>1. /\ maps' = maps \cup {m} /\ m.of = "brk" /\ m.lo = last /\ m.hi = last + BrkMax
        /\ MinAddr <= last /\ last + BrkMax <= MaxAddr
    BY <2>0 DEF MapAt, AssertFails, TypeOK
  <2>2. m \in [of : {"prog", "interp", "brk", "stack"}, lo : 0..MaxAddr, hi : 0..MaxAddr]
    BY <2>0, <2>1 DEF TypeOK
  <2>3. TypeOK' /\ ArgInv' /\ LastInv'
    BY <2>1, <2>2 DEF TypeOK, ArgInv, LastInv, Labels, Early, Loaded
  <2>4. BrkAt(m)'
    BY <2>1 DEF BrkAt
  <2>5. MapInv'
    BY <2>1, <2>4 DEF MapInv, ProgAt, InterpAt, BrkAt, Early
  <2> QED
    BY <2>3, <2>5
<1> QED
  BY <1>1, <1>2, <1>3, <1>4, <1>5, <1>6, <1>7, <1>8, <1>9, <1>10, <1>11 DEF Next

(***************************************************************************)
(* The invariant separates the parts.                                      *)
(***************************************************************************)
LEMMA LInvApart == LInv => PartsApart
<1> USE Sizes DEF LInv
<1> SUFFICES ASSUME LInv, NEW m \in maps, NEW n \in maps, Order[m.of] < Order[n.of]
             PROVE  m.hi <= n.lo
  BY DEF PartsApart
<1>1. /\ m.of \in {"prog", "interp", "brk", "stack"} /\ m.lo \in Nat /\ m.hi \in Nat
      /\ n.of \in {"prog", "interp", "brk", "stack"} /\ n.lo \in Nat /\ n.hi \in Nat
  BY DEF TypeOK
<1>2. base \in Nat /\ last \in Nat /\ part \in {"prog", "interp"}
  BY DEF TypeOK
<1>3. CASE n.of = "stack"
  <2>1. n.lo = MaxAddr - StackSize
    BY <1>3 DEF MapInv
  <2>2. m.of \in {"prog", "interp", "brk"}
    BY <1>1, <1>3, SMTT(30) DEF Order
  <2>3. m.hi <= MinAddr + 2 * CODEMAX + BrkMax
    BY <1>1, <1>2, <2>2 DEF MapInv, ProgAt, InterpAt, BrkAt, ArgInv, LastInv
  <2> QED
    BY <1>1, <2>1, <2>3
<1>4. CASE n.of = "brk"
  <2>1. n.lo = last /\ MinAddr <= last /\ pc \in {"fdinit", "done"}
    BY <1>4 DEF MapInv, BrkAt
  <2>2. m.of \in {"prog", "interp"}
    BY <1>1, <1>4, SMTT(30) DEF Order
  <2>3. part = "interp" => base < last
    BY <1>2, <2>1 DEF LastInv, Loaded
  <2> QED
    BY <1>1, <1>2, <2>1, <2>2, <2>3 DEF MapInv, ProgAt, InterpAt
<1>5. CASE n.of = "interp"
  <2>1. m.of = "prog"
    BY <1>1, <1>5 DEF Order
  <2> QED
    BY <1>1, <1>2, <1>5, <2>1 DEF MapInv, ProgAt, InterpAt
<1>6. n.of # "prog"
  BY <1>1 DEF Order
<1> QED
  BY <1>1, <1>3, <1>4, <1>5, <1>6

(***************************************************************************)
(* Types, and with them the ranges of base and last, hold throughout.      *)
(***************************************************************************)
THEOREM LoadInvariant == Spec => []LInv
<1>1. Init => LInv
  BY Sizes
  DEF Init, LInv, TypeOK, ArgInv, LastInv, MapInv, Labels, Early, Loaded
<1>2. LInv /\ [Next]_vars => LInv'
  BY LInvStep
<1> QED
  BY <1>1, <1>2, PTL DEF Spec

(***************************************************************************)
(* The loader's variables keep their types: base and last never leave the  *)
(* space, whatever the sums of the header fields wrap to.                  *)
(***************************************************************************)
THEOREM TypeCorrect == Spec => []TypeOK
BY LoadInvariant, PTL DEF LInv

(***************************************************************************)
(* Whatever the program headers of the two images say, the program, the    *)
(* interpreter, the brk region and the stack of a process never share an   *)
(* address.                                                                *)
(***************************************************************************)
THEOREM PartsStayApart == Spec => []PartsApart
BY LoadInvariant, LInvApart, PTL

-----------------------------------------------------------------------------
(* Arithmetic of truncp and ceilp *)

(***************************************************************************)
(* Quotient and remainder.                                                 *)
(***************************************************************************)
LEMMA DivMod ==
    ASSUME NEW a \in Int, NEW p \in Nat \ {0}
    PROVE  /\ a = (a \div p) * p + (a % p)
           /\ a \div p \in Int /\ a % p \in 0..(p - 1)
OBVIOUS

(***************************************************************************)
(* A multiple of p leaves no remainder.                                    *)
(***************************************************************************)
LEMMA Multiple ==
    ASSUME NEW q \in Int, NEW p \in Nat \ {0}
    PROVE  (q * p) % p = 0 /\ (q * p) \div p = q
<1> DEFINE a == q * p
<1>1. a \in Int
  OBVIOUS
<1>2. PICK d \in Int, r \in 0..(p - 1) : d = a \div p /\ r = a % p /\ a = d * p + r
  BY <1>1, DivMod
<1>3. r = (q - d) * p
  BY <1>2
<1>4. q - d >= 1 => (q - d) * p >= p
  BY <1>2
<1>5. q - d <= -1 => (q - d) * p <= -p
  BY <1>2
<1>6. q = d
  BY <1>2, <1>3, <1>4, <1>5
<1> QED
  BY <1>2, <1>3, <1>6

(***************************************************************************)
(* What leaves no remainder is a multiple.                                 *)
(***************************************************************************)
LEMMA Factor ==
    ASSUME NEW p \in Nat \ {0}, NEW a \in Int, a % p = 0
    PROVE  \E c \in Int : a = c * p
<1>1. a = (a \div p) * p + (a % p) /\ a \div p \in Int
  BY DivMod
<1>2. PICK c : c = a \div p
  OBVIOUS
<1>3. c \in Int /\ a = c * p + 0
  BY <1>1, <1>2
<1>4. a = c * p
  BY <1>3
<1> QED
  BY <1>3, <1>4

(***************************************************************************)
(* Sums and differences of aligned numbers are aligned, and two different  *)
(* ones are at least one step apart.                                       *)
(***************************************************************************)
LEMMA AlignedSum ==
    ASSUME NEW p \in Nat \ {0}, NEW a \in Int, NEW b \in Int, a % p = 0, b % p = 0
    PROVE  (a + b) % p = 0 /\ (a - b) % p = 0 /\ (a < b => a <= b - p)
<1>1. PICK c \in Int : a = c * p
  BY Factor
<1>2. PICK d \in Int : b = d * p
  BY Factor
<1>3. a + b = (c + d) * p /\ a - b = (c - d) * p
  BY <1>1, <1>2
<1>4. c < d => (d - c) * p >= p
  OBVIOUS
<1>5. c >= d => c * p >= d * p
  OBVIOUS
<1>6. a < b => a <= b - p
  BY <1>1, <1>2, <1>3, <1>4, <1>5
<1>7. c + d \in Int /\ c - d \in Int
  OBVIOUS
<1>8. ((c + d) * p) % p = 0 /\ ((c - d) * p) % p = 0
  BY <1>7, Multiple
<1>9. (a + b) % p = 0 /\ (a - b) % p = 0
  BY <1>3, <1>8
<1> QED
  BY <1>6, <1>9

(***************************************************************************)
(* A multiple of an aligned number is aligned: a segment's own alignment is *)
(* one of the page size.                                                   *)
(***************************************************************************)
LEMMA AlignedProduct ==
    ASSUME NEW p \in Nat \ {0}, NEW a \in Int, NEW k \in Int, a % p = 0
    PROVE  (k * a) % p = 0
<1>1. PICK c \in Int : a = c * p
  BY Factor
<1>2. k * a = (k * c) * p
  BY <1>1
<1>3. k * c \in Int
  OBVIOUS
<1> QED
  BY <1>2, <1>3, Multiple

(***************************************************************************)
(* A sum of two words wraps at most once.                                  *)
(***************************************************************************)
LEMMA ModSmall ==
    ASSUME NEW w \in Nat \ {0}, NEW x \in Nat, x < 2 * w
    PROVE  x % w = IF x < w THEN x ELSE x - w
<1>1. PICK d \in Int, r \in 0..(w - 1) : d = x \div w /\ r = x % w /\ x = d * w + r
  BY DivMod
<1>2. d >= 2 => d * w >= 2 * w
  BY <1>1
<1>3. d <= -1 => d * w <= -w
  BY <1>1
<1>4. d \in {0, 1}
  BY <1>1, <1>2, <1>3
<1> QED
  BY <1>1, <1>4

(***************************************************************************)
(* Rounding down with truncp stays below the number, and reaches 0 below   *)
(* the alignment.                                                          *)
(***************************************************************************)
LEMMA RoundDown ==
    ASSUME NEW a \in Nat, NEW n \in Nat \ {0}
    PROVE  /\ (a \div n) * n \in Nat
           /\ (a \div n) * n <= a /\ a < (a \div n) * n + n
           /\ a < n => (a \div n) * n = 0
<1>1. PICK d \in Int, r \in 0..(n - 1) : d = a \div n /\ a = d * n + r
  BY DivMod
<1>2. d <= -1 => d * n <= -n
  BY <1>1
<1>3. d >= 1 => d * n >= n
  BY <1>1
<1>4. d \in Nat /\ (a < n => d = 0)
  BY <1>1, <1>2, <1>3
<1>5. d * n \in Nat /\ (d = 0 => d * n = 0)
  BY <1>4
<1> QED
  BY <1>1, <1>4, <1>5

(***************************************************************************)
(* truncp and ceilp return multiples of an alignment, so aligned numbers.  *)
(***************************************************************************)
LEMMA Rounding ==
    ASSUME NEW a \in Nat, NEW n \in Nat, Aligned(n)
    PROVE  /\ truncp(a, n) \in Nat /\ truncp(a, n) <= a /\ Aligned(truncp(a, n))
           /\ ceilp(a, n) \in Nat /\ Aligned(ceilp(a, n))
<1> USE Sizes DEF Aligned
<1>1. CASE n = 0
  BY <1>1 DEF truncp, ceilp
<1>2. CASE n # 0
  <2>1. n \in Nat \ {0}
    BY <1>2
  <2>2. \A x \in Nat : /\ (x \div n) * n \in Nat /\ (x \div n) * n <= x
                       /\ Aligned((x \div n) * n)
    <3> TAKE x \in Nat
    <3>1. (x \div n) * n \in Nat /\ (x \div n) * n <= x
      BY <2>1, RoundDown
    <3>2. PICK k \in Int : k = x \div n
      BY <2>1, DivMod
    <3>3. n \in Int /\ n % PageSize = 0 /\ PageSize \in Nat \ {0}
      BY <2>1
    <3>4. (k * n) % PageSize = 0
      BY ONLY <3>2, <3>3, AlignedProduct
    <3> QED
      BY <3>1, <3>2, <3>4
  <2>3. PICK y \in Nat : y = (a + n - 1) % WORD
    BY <2>1
  <2>4. truncp(a, n) = (a \div n) * n /\ ceilp(a, n) = (y \div n) * n
    BY <1>2, <2>3 DEF truncp, ceilp
  <2> HIDE DEF Aligned
  <2> QED
    BY <2>2, <2>4
<1> QED
  BY <1>1, <1>2

(***************************************************************************)
(* Rounding up an address below the wrap-around reaches it, unless the     *)
(* rounding itself wraps around to 0.                                      *)
(***************************************************************************)
LEMMA CeilReaches ==
    ASSUME NEW x \in 0..(WORD - 1), NEW n \in 0..(WORD - 1), n # 0
    PROVE  ceilp(x, n) = 0 \/ x <= ceilp(x, n)
<1> USE Sizes
<1>1. PICK y \in Nat : y = x + n - 1 /\ y < 2 * WORD
  OBVIOUS
<1>2. y % WORD = IF y < WORD THEN y ELSE y - WORD
  BY <1>1, ModSmall
<1>3. CASE y < WORD
  <2>1. y < (y \div n) * n + n /\ (y \div n) * n \in Nat
    BY <1>1, RoundDown
  <2>2. ceilp(x, n) = (y \div n) * n
    BY <1>1, <1>2, <1>3 DEF ceilp
  <2> QED
    BY <1>1, <2>1, <2>2
<1>4. CASE y >= WORD
  <2>1. PICK z \in Nat : z = y - WORD /\ z < n
    BY <1>1, <1>4
  <2>2. (z \div n) * n = 0
    BY <2>1, RoundDown
  <2>3. y % WORD = z
    BY <1>1, <1>2, <1>4, <2>1
  <2>4. ceilp(x, n) = (z \div n) * n
    BY <1>1, <2>3 DEF ceilp
  <2> QED
    BY <2>2, <2>4
<1> QED
  BY <1>1, <1>3, <1>4

-----------------------------------------------------------------------------
(* What a created process looks like *)

(***************************************************************************)
(* A segment is only mapped behind a base in the space: with a base of 0   *)
(* (an interpreter behind a program without segments) its addresses would  *)
(* have to be past CODEMAX.  So base stays, the image's shift is exact,    *)
(* and the map is aligned.                                                 *)
(***************************************************************************)
LEMMA SegmentPlace ==
    ASSUME StartInv, LoadSegment, NEW s, s = Image.segs[i]
    PROVE  /\ s \in Segment /\ Accepted(s)
           /\ Start(s) \in Nat /\ End(s) \in Nat
           /\ Start(s) < End(s) /\ End(s) < CODEMAX
           /\ MinAddr <= base /\ base' = base
           /\ Shift = IF Image.type = "exec" THEN base - Base ELSE 0
           /\ last' = IF base + End(s) > last THEN base + End(s) ELSE last
           /\ maps' = maps \cup {[of |-> part, lo |-> base + Start(s), hi |-> base + End(s)]}
<1> USE Sizes DEF StartInv, LInv
<1>1. s \in Segment /\ Accepted(s)
  BY CurrentSegment DEF LoadSegment
<1>2. base \in Nat /\ base <= MaxAddr /\ last \in Nat
  BY DEF TypeOK
<1>3. /\ Start(s) \in Nat /\ End(s) \in Nat
      /\ Start(s) < End(s) /\ End(s) < CODEMAX
  BY <1>1, <1>2, AcceptedBounds
<1>4. /\ maps' = maps \cup {[of |-> part, lo |-> base + Start(s), hi |-> base + End(s)]}
      /\ base + Start(s) >= MinAddr
      /\ base' = IF base = 0 THEN Start(s) ELSE base
      /\ last' = IF (IF base = 0 THEN Start(s) ELSE base) + End(s) > last
                 THEN (IF base = 0 THEN Start(s) ELSE base) + End(s) ELSE last
  BY <1>2, <1>3 DEF LoadSegment, MapAt, AssertFails, NewBase, NewLast
<1>5. base # 0
  BY <1>2, <1>3, <1>4
<1>6. MinAddr <= base
  BY <1>5 DEF BoundInv
<1>7. (base - Base) % WORD = base - Base
  <2>1. PICK x \in Nat : x = base - Base /\ x < WORD
    BY <1>2, <1>6
  <2>2. x % WORD = x
    BY <2>1, ModSmall
  <2> QED
    BY <2>1, <2>2
<1>8. Shift = IF Image.type = "exec" THEN base - Base ELSE 0
  BY <1>7 DEF Shift
<1> QED
  BY <1>1, <1>3, <1>4, <1>5, <1>6, <1>8

(***************************************************************************)
(* The map of an accepted segment begins and ends on a page.               *)
(***************************************************************************)
LEMMA SegmentAligned ==
    ASSUME StartInv, LoadSegment, NEW s, s = Image.segs[i]
    PROVE  Aligned(base + Start(s)) /\ Aligned(base + End(s))
<1> USE Sizes DEF Aligned
<1>1. /\ s \in Segment /\ Accepted(s) /\ MinAddr <= base
      /\ Shift = IF Image.type = "exec" THEN base - Base ELSE 0
  BY SegmentPlace
<1>2. /\ s.vaddr \in Nat /\ s.memsz \in Nat /\ s.align \in Nat
      /\ s.align % PageSize = 0
  BY <1>1 DEF Segment, Accepted
<1>3. base \in Nat /\ Aligned(base)
  BY DEF StartInv, LInv, TypeOK, BoundInv
<1>4. Aligned(Base) /\ Aligned(0)
  BY ProcLoadAssumption
<1>5. Shift \in Int /\ Aligned(Shift)
  BY <1>1, <1>3, <1>4, AlignedSum
<1>6. PICK v \in Nat, n \in Nat, e \in Nat :
         v = s.vaddr /\ n = s.align /\ e = (s.vaddr + s.memsz) % WORD
  <2>1. PICK x \in Nat : x = s.vaddr + s.memsz
    BY <1>2
  <2>2. x % WORD \in Nat
    BY <2>1
  <2> QED
    BY <1>2, <2>1, <2>2, Zenon
<1>7. Aligned(n)
  BY <1>2, <1>6
<1>8. PICK t \in Int, c \in Int : /\ t = truncp(v, n) /\ Aligned(t)
                                 /\ c = ceilp(e, n) /\ Aligned(c)
  <2> HIDE DEF Aligned
  <2>1. truncp(v, n) \in Nat /\ Aligned(truncp(v, n))
    BY <1>7, Rounding
  <2>2. ceilp(e, n) \in Nat /\ Aligned(ceilp(e, n))
    BY <1>7, Rounding
  <2>3. truncp(v, n) \in Int /\ ceilp(e, n) \in Int
    BY <2>1, <2>2
  <2> QED
    BY <2>1, <2>2, <2>3, Zenon
<1>9. Start(s) = t - Shift /\ End(s) = c - Shift
  BY <1>6, <1>8 DEF Start, End
<1>10. PICK x \in Int, y \in Int : /\ x = t - Shift /\ Aligned(x)
                                  /\ y = c - Shift /\ Aligned(y)
  <2>1. PICK h \in Int : h = Shift /\ Aligned(h)
    BY <1>5
  <2>2. Aligned(t - h) /\ Aligned(c - h)
    BY <1>8, <2>1, AlignedSum
  <2>3. t - h \in Int /\ c - h \in Int
    OBVIOUS
  <2> QED
    BY <2>1, <2>2, <2>3
<1>11. Aligned(base + x) /\ Aligned(base + y)
  BY <1>3, <1>10, AlignedSum
<1> QED
  BY <1>9, <1>10, <1>11

(***************************************************************************)
(* A segment of the program that is loaded is mapped from its first to its *)
(* last byte.                                                              *)
(***************************************************************************)
LEMMA SegmentCovered ==
    ASSUME StartInv, LoadSegment, part = "prog", NEW s, s = prog.segs[i]
    PROVE  SegmentMapped(s)'
<1> USE Sizes
<1>1. Image = prog /\ s = Image.segs[i]
  BY DEF Image
<1>2. /\ s \in Segment /\ Accepted(s)
      /\ Start(s) \in Nat /\ End(s) \in Nat /\ Start(s) < End(s)
      /\ Shift = IF prog.type = "exec" THEN base - Base ELSE 0
      /\ maps' = maps \cup {[of |-> part, lo |-> base + Start(s), hi |-> base + End(s)]}
  BY <1>1, SegmentPlace
<1>3. /\ s.vaddr \in 0..(WORD - 1) /\ s.memsz \in 0..(WORD - 1) /\ s.align \in 0..(WORD - 1)
  BY <1>2 DEF Segment
<1>4. base = MinAddr /\ prog' = prog /\ prog.type \in {"dyn", "exec"}
  BY DEF StartInv, LInv, ArgInv, TypeOK, LoadSegment
<1>5. Shift \in Int /\ MinAddr - Shift = IF prog.type = "dyn" THEN MinAddr ELSE Base
  BY <1>2, <1>4
<1>6. SUFFICES ASSUME s.vaddr + s.memsz < WORD
               PROVE  /\ MinAddr + Start(s) <= s.vaddr + MinAddr - Shift
                      /\ s.vaddr + MinAddr - Shift + s.memsz <= MinAddr + End(s)
  <2> DEFINE m == [of |-> "prog", lo |-> MinAddr + Start(s), hi |-> MinAddr + End(s)]
  <2>1. m \in maps' /\ m.of = "prog" /\ m.lo = MinAddr + Start(s) /\ m.hi = MinAddr + End(s)
    BY <1>2, <1>4
  <2> HIDE DEF m
  <2>2. s.vaddr + (IF prog.type = "dyn" THEN MinAddr ELSE Base) = s.vaddr + MinAddr - Shift
    BY <1>3, <1>5
  <2> QED
    BY <1>4, <1>6, <2>1, <2>2 DEF SegmentMapped, Skipped
<1>7. PICK v \in Nat, n \in 0..(WORD - 1), e \in 0..(WORD - 1) :
         v = s.vaddr /\ n = s.align /\ e = s.vaddr + s.memsz
  <2>1. s.vaddr \in Nat /\ s.align \in 0..(WORD - 1) /\ s.vaddr + s.memsz \in 0..(WORD - 1)
    BY <1>3, <1>6
  <2> QED
    BY <2>1, Zenon
<1>8. e % WORD = e
  <2>1. e \in Nat /\ e < 2 * WORD /\ e < WORD /\ WORD \in Nat \ {0}
    OBVIOUS
  <2> QED
    BY ONLY <2>1, ModSmall
<1>9. PICK t, c : t = truncp(v, n) /\ c = ceilp(e, n)
  OBVIOUS
<1>10. t \in Nat /\ t <= v /\ c \in Nat
  <2>1. Aligned(n) /\ n \in Nat /\ e \in Nat
    BY <1>2, <1>7 DEF Accepted, Aligned
  <2> QED
    BY <1>9, <2>1, Rounding
<1>11. Start(s) = t - Shift /\ End(s) = c - Shift
  BY <1>7, <1>8, <1>9 DEF Start, End
<1>12. t < c
  BY <1>2, <1>5, <1>10, <1>11
<1>13. n # 0
  BY <1>9, <1>12 DEF truncp, ceilp
<1>14. c = 0 \/ e <= c
  BY <1>9, <1>13, CeilReaches
<1>15. e <= c
  BY <1>10, <1>12, <1>14
<1>16. PICK h \in Int : h = Shift
  BY <1>5
<1>17. MinAddr + (t - h) <= v + MinAddr - h /\ e + MinAddr - h <= MinAddr + (c - h)
  BY <1>10, <1>15
<1>18. s.vaddr + MinAddr - Shift + s.memsz = e + MinAddr - h
  <2>1. PICK z \in Nat : z = s.memsz /\ e = v + z
    <3>1. s.memsz \in Nat
      BY <1>3
    <3> QED
      BY <1>7, <3>1, Zenon
  <2>2. v + MinAddr - h + z = e + MinAddr - h
    BY <1>16, <2>1
  <2> QED
    BY <1>7, <1>16, <2>1, <2>2
<1> QED
  BY <1>7, <1>11, <1>16, <1>17, <1>18

(***************************************************************************)
(* Loading a segment keeps what is said of a created process.              *)
(***************************************************************************)
LEMMA StartSegment ==
    ASSUME StartInv, LoadSegment
    PROVE  BoundInv' /\ EndInv' /\ ThereInv' /\ SegInv'
<1> USE Sizes
<1>1. PICK s : s = Image.segs[i]
  OBVIOUS
<1>2. PICK x \in Nat, y \in Nat : x = base + Start(s) /\ y = base + End(s) /\ MinAddr < y /\ x < y
  <2>1. /\ Start(s) \in Nat /\ End(s) \in Nat /\ base \in Nat
        /\ Start(s) < End(s) /\ MinAddr <= base
    BY <1>1, SegmentPlace DEF StartInv, LInv, TypeOK
  <2>2. /\ base + Start(s) \in Nat /\ base + End(s) \in Nat
        /\ MinAddr < base + End(s) /\ base + Start(s) < base + End(s)
    BY <2>1
  <2> QED
    BY <2>2
<1>3. PICK m : m = [of |-> part, lo |-> x, hi |-> y]
  OBVIOUS
<1>4. m.of = part /\ m.lo = x /\ m.hi = y
  BY <1>3
<1>5. /\ maps' = maps \cup {m}
      /\ base' = base /\ last' = IF y > last THEN y ELSE last
      /\ pc = "segment" /\ UNCHANGED <<pc, prog, part>> /\ i' = i + 1
  BY <1>1, <1>2, <1>3, SegmentPlace DEF LoadSegment
<1>6. Aligned(x) /\ Aligned(y)
  BY <1>1, <1>2, SegmentAligned
<1>7. part \in {"prog", "interp"} /\ i \in Nat
  BY DEF StartInv, LInv, TypeOK
<1>8. BoundInv'
  <2>1. Aligned(base)' /\ Aligned(last)' /\ (base' = 0 \/ MinAddr <= base')
    BY <1>5, <1>6 DEF StartInv, BoundInv, Aligned
  <2>2. last' = 0 \/ MinAddr < last'
    BY <1>2, <1>5 DEF StartInv, BoundInv
  <2>3. \A n \in maps' : /\ Aligned(n.lo) /\ Aligned(n.hi)
                         /\ n.of = "stack" => n.hi = MaxAddr
    BY <1>4, <1>5, <1>6, <1>7 DEF StartInv, BoundInv
  <2> QED
    BY <2>1, <2>2, <2>3 DEF BoundInv, Aligned
<1>9. EndInv'
  BY <1>2, <1>4, <1>5, <1>7 DEF StartInv, EndInv
<1>10. ThereInv'
  BY <1>5 DEF StartInv, ThereInv, Loaded
<1>11. \A k \in 1..Len(prog.segs) :
          part = "interp" \/ k < i => SegmentMapped(prog.segs[k])'
  BY <1>5 DEF StartInv, SegInv, SegmentMapped, Skipped
<1>12. part = "prog" => SegmentMapped(s)' /\ s = prog.segs[i]
  BY <1>1, SegmentCovered DEF Image
<1>13. \A k \in 1..Len(prog.segs) : k < i' => k < i \/ k = i
  BY <1>5, <1>7
<1>14. SegInv'
  <2> SUFFICES ASSUME NEW k \in 1..Len(prog.segs), part = "interp" \/ k < i'
               PROVE  SegmentMapped(prog.segs[k])'
    BY <1>5 DEF SegInv, Loaded
  <2>1. CASE part = "interp" \/ k < i
    BY <1>11, <2>1
  <2>2. CASE part = "prog" /\ k = i
    <3>1. prog'.segs[k] = s /\ SegmentMapped(s)'
      BY <1>5, <1>12, <2>2
    <3> QED
      BY <3>1 DEF SegmentMapped, Skipped
  <2> QED
    BY <1>7, <1>13, <2>1, <2>2
<1> QED
  BY <1>8, <1>9, <1>10, <1>14

(***************************************************************************)
(* A step that leaves the maps and the bounds, and does not mark the       *)
(* arrival at a mapping or the end of an image, keeps it too.              *)
(***************************************************************************)
LEMMA StartMove ==
    ASSUME StartInv, UNCHANGED <<prog, part, i, base, last, maps>>,
           pc' \in Loaded \cup {"header"} => pc \in Loaded \cup {"header"},
           pc' \in {"fdinit", "done"} => pc \in {"fdinit", "done"},
           part = "prog" /\ pc' \in Loaded \ {"segment"} =>
              pc \in Loaded \ {"segment"} \/ i > Len(prog.segs)
    PROVE  BoundInv' /\ EndInv' /\ ThereInv' /\ SegInv'
<1> USE DEF StartInv
<1>1. BoundInv'
  BY DEF BoundInv, Aligned
<1>2. EndInv' /\ ThereInv'
  BY DEF EndInv, ThereInv
<1>3. SegInv'
  BY DEF SegInv, SegmentMapped, Skipped
<1> QED
  BY <1>1, <1>2, <1>3

(***************************************************************************)
(* So does a new mapping that is no image, and aligned.                    *)
(***************************************************************************)
LEMMA StartMap ==
    ASSUME StartInv, NEW m, maps' = maps \cup {m}, m.of \notin {"prog", "interp"},
           Aligned(m.lo), Aligned(m.hi), m.of = "stack" => m.hi = MaxAddr,
           UNCHANGED <<prog, part, i, base, last>>
    PROVE  /\ BoundInv' /\ EndInv'
           /\ \A k \in 1..Len(prog.segs) :
                 part = "interp" \/ k < i => SegmentMapped(prog.segs[k])'
<1> USE DEF StartInv
<1>1. BoundInv'
  BY DEF BoundInv, Aligned
<1>2. EndInv'
  BY DEF EndInv
<1> QED
  BY <1>1, <1>2 DEF SegInv, SegmentMapped, Skipped

(***************************************************************************)
(* Every step of creating a process keeps it.                              *)
(***************************************************************************)
LEMMA StartStep == ASSUME StartInv, [Next]_vars PROVE StartInv'
<1> USE Sizes
<1>0. LInv'
  BY LInvStep DEF StartInv
<1> SUFFICES BoundInv' /\ EndInv' /\ ThereInv' /\ SegInv'
  BY <1>0 DEF StartInv
<1>1. CASE UNCHANGED vars
  BY <1>1, StartMove DEF vars
<1>2. CASE LoadSegment
  BY <1>2, StartSegment
<1>3. CASE Alloc \/ AllocFails \/ CtxNew \/ ReadInterp
  BY <1>3, StartMove DEF Alloc, AllocFails, CtxNew, ReadInterp, Return, Goto, Loaded
<1>4. CASE \/ CtxNewFails \/ ReadInterpFails \/ MapStackFails \/ LoadHeaderFails
           \/ LoadSegmentFails \/ StackSetupFails \/ ReserveBrkFails
  BY <1>4, StartMove
  DEF CtxNewFails, ReadInterpFails, MapStackFails, LoadHeaderFails, LoadSegmentFails,
      StackSetupFails, ReserveBrkFails, Err3, Goto, Loaded
<1>5. CASE StackSetup \/ Fdinit
  BY <1>5, StartMove DEF StackSetup, Fdinit, Goto, Loaded
<1>6. CASE LoadDone
  BY <1>6, StartMove DEF LoadDone, Goto, Loaded, Image
<1>7. CASE MapStack
  <2> DEFINE m == [of |-> "stack", lo |-> MaxAddr - StackSize, hi |-> MaxAddr]
  <2>1. /\ maps' = maps \cup {m} /\ m.of = "stack" /\ m.hi = MaxAddr
        /\ m.lo = MaxAddr - StackSize
        /\ pc' = "header" /\ UNCHANGED <<prog, part, i, base, last>>
    BY <1>7 DEF MapStack, MapAt, Goto
  <2> HIDE DEF m
  <2>2. Aligned(m.lo) /\ Aligned(m.hi)
    <3>1. Aligned(MaxAddr) /\ Aligned(StackSize)
      BY ProcLoadAssumption DEF Aligned
    <3>2. PICK a \in Int, b \in Int : a = MaxAddr /\ Aligned(a) /\ b = StackSize /\ Aligned(b)
      BY <3>1
    <3>3. (a - b) % PageSize = 0
      BY <3>2, AlignedSum DEF Aligned
    <3> QED
      BY <2>1, <3>1, <3>2, <3>3 DEF Aligned
  <2>3. /\ BoundInv' /\ EndInv'
        /\ \A k \in 1..Len(prog.segs) :
              part = "interp" \/ k < i => SegmentMapped(prog.segs[k])'
    BY <2>1, <2>2, StartMap
  <2>4. ThereInv'
    BY <2>1 DEF ThereInv
  <2> QED
    BY <2>1, <2>3, <2>4 DEF SegInv, Loaded
<1>8. CASE LoadHeader
  <2>1. /\ pc = "header" /\ pc' = "segment" /\ i' = 1 /\ last' = 0
        /\ UNCHANGED <<prog, part, base, maps>>
    BY <1>8 DEF LoadHeader, Goto
  <2>2. BoundInv' /\ EndInv'
    BY <2>1 DEF StartInv, BoundInv, EndInv, Aligned
  <2>3. ThereInv'
    BY <2>1 DEF StartInv, ThereInv, Loaded
  <2>4. part \in {"prog", "interp"}
    BY DEF StartInv, LInv, TypeOK
  <2>5. \A k \in 1..Len(prog.segs) :
           part = "interp" \/ k < i' => SegmentMapped(prog.segs[k])'
    BY <2>1, <2>4 DEF StartInv, SegInv, SegmentMapped, Skipped
  <2> QED
    BY <2>1, <2>2, <2>3, <2>5 DEF SegInv, Loaded
<1>9. CASE SkipSegment
  <2>1. /\ pc = "segment" /\ pc' = "segment" /\ i' = i + 1
        /\ UNCHANGED <<prog, part, base, last, maps>>
        /\ part = "prog" => Skipped(prog.segs[i])
    BY <1>9 DEF SkipSegment, Image
  <2>2. BoundInv' /\ EndInv' /\ ThereInv'
    BY <2>1 DEF StartInv, BoundInv, EndInv, ThereInv, Aligned
  <2>3. part \in {"prog", "interp"} /\ i \in Nat
    BY DEF StartInv, LInv, TypeOK
  <2>4. \A k \in 1..Len(prog.segs) : k < i' => k < i \/ k = i
    BY <2>1, <2>3
  <2>5. \A k \in 1..Len(prog.segs) :
           part = "interp" \/ k < i' => SegmentMapped(prog.segs[k])'
    BY <2>1, <2>3, <2>4 DEF StartInv, SegInv, SegmentMapped, Skipped
  <2> QED
    BY <2>1, <2>2, <2>5 DEF SegInv, Loaded
<1>10. CASE LoadInterp
  <2>1. /\ pc = "segment" /\ pc' = "header" /\ base' = last /\ part' = "interp"
        /\ UNCHANGED <<prog, i, last, maps>>
        /\ part = "prog" /\ i > Len(prog.segs)
    BY <1>10 DEF LoadInterp, Goto
  <2>2. BoundInv'
    BY <2>1 DEF StartInv, BoundInv, LInv, TypeOK, Aligned
  <2>3. EndInv' /\ ThereInv'
    BY <2>1 DEF StartInv, EndInv, ThereInv, Loaded
  <2>4. i \in Nat /\ Len(prog.segs) \in Nat
    BY DEF StartInv, LInv, TypeOK
  <2>5. \A k \in 1..Len(prog.segs) : k < i
    BY <2>1, <2>4
  <2>6. \A k \in 1..Len(prog.segs) : SegmentMapped(prog.segs[k])'
    BY <2>1, <2>5 DEF StartInv, SegInv, SegmentMapped, Skipped
  <2> QED
    BY <2>1, <2>2, <2>3, <2>6 DEF SegInv
<1>11. CASE ReserveBrk
  <2>1. PICK m : m = [of |-> "brk", lo |-> last, hi |-> last + BrkMax]
    OBVIOUS
  <2>2. /\ maps' = maps \cup {m} /\ m.of = "brk" /\ m.lo = last /\ m.hi = last + BrkMax
        /\ pc = "brk" /\ pc' = "fdinit" /\ UNCHANGED <<prog, part, i, base, last>>
    BY <1>11, <2>1 DEF ReserveBrk, MapAt, Goto
  <2>3. last \in Nat /\ Aligned(last) /\ Aligned(BrkMax)
    BY ProcLoadAssumption DEF StartInv, LInv, TypeOK, BoundInv, Aligned
  <2>4. Aligned(last + BrkMax)
    <3>1. PICK a \in Int, b \in Int : a = last /\ Aligned(a) /\ b = BrkMax /\ Aligned(b)
      BY <2>3
    <3>2. (a + b) % PageSize = 0
      BY <3>1, AlignedSum DEF Aligned
    <3> QED
      BY <3>1, <3>2 DEF Aligned
  <2>5. /\ BoundInv' /\ EndInv'
        /\ \A k \in 1..Len(prog.segs) :
              part = "interp" \/ k < i => SegmentMapped(prog.segs[k])'
    BY <2>2, <2>3, <2>4, StartMap
  <2>6. ThereInv'
    BY <2>2 DEF StartInv, ThereInv, Loaded
  <2> QED
    BY <2>2, <2>5, <2>6 DEF StartInv, SegInv, Loaded
<1> QED
  BY <1>1, <1>2, <1>3, <1>4, <1>5, <1>6, <1>7, <1>8, <1>9, <1>10, <1>11 DEF Next

(***************************************************************************)
(* What is said of a created process holds from the start.                 *)
(***************************************************************************)
LEMMA StartInit == Init => StartInv
<1> USE Sizes DEF Init
<1>1. Init => LInv
  BY DEF LInv, TypeOK, ArgInv, LastInv, MapInv, Labels, Early, Loaded
<1>2. Init => BoundInv
  BY ProcLoadAssumption DEF BoundInv, Aligned
<1>3. Init => EndInv /\ ThereInv
  BY DEF EndInv, ThereInv, Loaded
<1>4. Init => SegInv
  BY DEF SegInv, Loaded
<1> QED
  BY <1>1, <1>2, <1>3, <1>4 DEF StartInv

(***************************************************************************)
(* Whatever the alignments and the wrap-around of the header fields, the   *)
(* segments of a created process are mapped where the program's own        *)
(* addresses say.                                                          *)
(***************************************************************************)
THEOREM SegmentsAreMapped == Spec => []SegmentsMapped
<1>1. StartInv /\ [Next]_vars => StartInv'
  BY StartStep
<1>2. StartInv => SegmentsMapped
  <2> SUFFICES ASSUME StartInv, pc = "done", NEW k \in 1..Len(prog.segs)
               PROVE  SegmentMapped(prog.segs[k])
    BY DEF SegmentsMapped, SegmentMapped
  <2>1. /\ part \in {"prog", "interp"} /\ i \in Nat /\ prog \in Images
        /\ Len(prog.segs) \in Nat
    BY Sizes DEF StartInv, LInv, TypeOK
  <2>2. part = "prog" => k < i
    BY <2>1 DEF StartInv, SegInv, Loaded
  <2> QED
    BY <2>1, <2>2 DEF StartInv, SegInv
<1> QED
  BY <1>1, <1>2, StartInit, PTL DEF Spec

-----------------------------------------------------------------------------
(* The hand-over to AddrSpace *)

(***************************************************************************)
(* An aligned address is a number of whole pages.                          *)
(***************************************************************************)
LEMMA WholePages == \A a \in Nat : Aligned(a) => \E c \in Int : a = c * PageSize
<1> TAKE a \in Nat
<1> HAVE Aligned(a)
<1>1. PageSize \in Nat \ {0} /\ a \in Int /\ a % PageSize = 0
  BY Sizes DEF Aligned
<1> QED
  BY ONLY <1>1, Factor

(***************************************************************************)
(* The page below an aligned address is a page of the space, and ends      *)
(* there.                                                                  *)
(***************************************************************************)
LEMMA PageBelow ==
    ASSUME NEW b \in Nat, Aligned(b), MinAddr < b, b <= MaxAddr
    PROVE  /\ (b \div PageSize) - 1 \in AddrPages
           /\ ((b \div PageSize) - 1) * PageSize = b - PageSize
<1> USE Sizes
<1>1. PICK c \in Int : MinAddr = c * PageSize
  BY SpaceAligned, WholePages
<1>2. PICK d \in Int : b = d * PageSize
  BY WholePages
<1>3. PICK e \in Int : MaxAddr = e * PageSize
  BY SpaceAligned, WholePages
<1>4. MinAddr \div PageSize = c /\ b \div PageSize = d /\ MaxAddr \div PageSize = e
  BY <1>1, <1>2, <1>3, Multiple
<1>5. c >= d => c * PageSize >= d * PageSize
  OBVIOUS
<1>6. d > e => d * PageSize >= e * PageSize + PageSize
  <2>1. d > e => (d - e) * PageSize >= PageSize
    OBVIOUS
  <2> QED
    BY <2>1
<1>7. c < d /\ d <= e
  BY <1>1, <1>2, <1>3, <1>5, <1>6
<1>8. (d - 1) * PageSize = b - PageSize
  BY <1>2
<1> QED
  BY <1>4, <1>7, <1>8 DEF AddrPages

(***************************************************************************)
(* The pages of a created process by kind.  Those of the program and its   *)
(* interpreter end at lastva, where the brk region begins, and the last    *)
(* one before it is among them.                                            *)
(***************************************************************************)
LEMMA StartPages ==
    ASSUME StartInv, pc = "done", NEW b, b = last
    PROVE  /\ b \in Nat /\ MinAddr < b /\ Aligned(b)
           /\ b <= MinAddr + 2 * CODEMAX
           /\ (b \div PageSize) - 1 \in PagesOf({"prog", "interp"})
           /\ \A p \in PagesOf({"prog", "interp"}) : p \in AddrPages /\ p * PageSize < b
           /\ \A p \in AddrPages :
                 p \in PagesOf({"brk"}) <=> b <= p * PageSize /\ p * PageSize < b + BrkMax
           /\ \A p \in AddrPages :
                 p \in PagesOf({"stack"}) <=>
                    MaxAddr - StackSize <= p * PageSize /\ p * PageSize < MaxAddr
<1> USE Sizes DEF StartInv, LInv
<1>1. base \in Nat /\ last \in Nat /\ part \in {"prog", "interp"} /\ b <= MaxAddr
  BY DEF TypeOK
<1>2. PICK n \in maps : n.of = "brk"
  BY DEF ThereInv
<1>3. MinAddr < b /\ Aligned(b) /\ b <= MinAddr + 2 * CODEMAX
  BY <1>1, <1>2 DEF BoundInv, LastInv, MapInv, BrkAt
<1>4. part = "interp" => base < b
  BY <1>1, <1>3 DEF LastInv, Loaded
<1>5. AddrPages \subseteq Int /\ \A p \in AddrPages : p * PageSize \in Int
  BY DEF AddrPages
<1>6. \A m \in maps : m.lo \in Nat /\ m.hi \in Nat
  BY DEF TypeOK
<1>7. (b \div PageSize) - 1 \in PagesOf({"prog", "interp"})
  <2>1. PICK m \in maps : m.of \in {"prog", "interp"} /\ m.lo < m.hi /\ m.hi = b
    BY <1>1, <1>3 DEF EndInv
  <2>2. m.lo <= b - PageSize
    <3>1. PICK l \in Int, h \in Int : l = m.lo /\ h = b /\ Aligned(l) /\ Aligned(h) /\ l < h
      BY <1>3, <1>6, <2>1 DEF BoundInv
    <3>2. l <= h - PageSize
      BY <3>1, AlignedSum DEF Aligned
    <3> QED
      BY <3>1, <3>2
  <2>3. /\ (b \div PageSize) - 1 \in AddrPages
        /\ ((b \div PageSize) - 1) * PageSize = b - PageSize
    BY <1>1, <1>3, PageBelow
  <2>4. b - PageSize < m.hi
    BY <1>1, <2>1
  <2> QED
    BY <2>1, <2>2, <2>3, <2>4 DEF PagesOf
<1>8. \A m \in maps : m.of \in {"prog", "interp"} => m.hi <= b
  BY <1>1, <1>3, <1>4, <1>6 DEF MapInv, ProgAt, InterpAt
<1>9. \A p \in PagesOf({"prog", "interp"}) : p \in AddrPages /\ p * PageSize < b
  BY <1>1, <1>5, <1>6, <1>8 DEF PagesOf
<1>10. \A m \in maps : m.of = "brk" => m.lo = b /\ m.hi = b + BrkMax
  BY DEF MapInv, BrkAt
<1>11. PICK k \in maps : k.of = "stack"
  BY DEF ThereInv, Loaded
<1>12. \A m \in maps : m.of = "stack" => m.lo = MaxAddr - StackSize /\ m.hi = MaxAddr
  BY DEF MapInv, BoundInv
<1>13. \A p \in AddrPages :
          p \in PagesOf({"brk"}) <=> b <= p * PageSize /\ p * PageSize < b + BrkMax
  BY <1>2, <1>10 DEF PagesOf
<1>14. \A p \in AddrPages :
          p \in PagesOf({"stack"}) <=>
             MaxAddr - StackSize <= p * PageSize /\ p * PageSize < MaxAddr
  BY <1>11, <1>12 DEF PagesOf
<1> QED
  BY <1>1, <1>3, <1>7, <1>9, <1>13, <1>14

(***************************************************************************)
(* The pages of several kinds.                                             *)
(***************************************************************************)
LEMMA PagesOfAll ==
    PagesOf({"prog", "interp", "brk", "stack"}) =
       PagesOf({"prog", "interp"}) \cup PagesOf({"brk"}) \cup PagesOf({"stack"})
BY DEF PagesOf

(***************************************************************************)
(* A page of the space is not below it.                                    *)
(***************************************************************************)
LEMMA PagesStart == \A p \in AddrPages : p \in Int /\ MinAddr <= p * PageSize
<1> USE Sizes
<1>1. PICK c \in Int : MinAddr = c * PageSize
  BY SpaceAligned, WholePages
<1>2. MinAddr \div PageSize = c
  BY <1>1, Multiple
<1> TAKE p \in AddrPages
<1>3. p \in Int /\ c <= p
  BY <1>2 DEF AddrPages
<1>4. c * PageSize <= p * PageSize
  BY <1>3
<1> QED
  BY <1>1, <1>3, <1>4

(***************************************************************************)
(* Whatever the program headers say, a created process is one of those     *)
(* that AddrSpace starts from, so that what is proved of AddrSpace holds   *)
(* of every process that the loader hands out.                             *)
(***************************************************************************)
THEOREM LoadedProcessStarts == Spec => []StartsSpace
<1>1. StartInv /\ [Next]_vars => StartInv'
  BY StartStep
<1>2. StartInv => StartsSpace
  <2> USE Sizes
  <2> SUFFICES ASSUME StartInv, pc = "done"
               PROVE  \E b \in 0..MaxAddr : b = last /\ Space(b)!Layout /\ Space(b)!Init
    BY DEF StartsSpace
  <2>1. PICK b \in 0..MaxAddr : b = last
    BY DEF StartInv, LInv, TypeOK
  <2>2. /\ MinAddr < b /\ Aligned(b) /\ b <= MinAddr + 2 * CODEMAX
        /\ (b \div PageSize) - 1 \in PagesOf({"prog", "interp"})
        /\ \A p \in PagesOf({"prog", "interp"}) : p \in AddrPages /\ p * PageSize < b
    BY <2>1, StartPages
  <2>3. Space(b)!Layout
    <3>1. \A a \in {MinAddr, MaxAddr, b, BrkMax, StackSize} : a % PageSize = 0
      BY <2>2, ProcLoadAssumption DEF Aligned
    <3>2. {MinAddr, MaxAddr, b, BrkMax, StackSize} \subseteq Nat \ {0}
      BY <2>2
    <3> QED
      BY <2>2, <3>1, <3>2 DEF Space!Layout
  <2>4. Space(b)!Page = AddrPages
    BY DEF Space!Page, AddrPages
  <2>5. Space(b)!BrkRegion = PagesOf({"brk"})
    <3>1. \A p \in AddrPages :
             p \in PagesOf({"brk"}) <=> b <= p * PageSize /\ p * PageSize < b + BrkMax
      BY <2>1, StartPages
    <3>2. PagesOf({"brk"}) \subseteq AddrPages
      BY DEF PagesOf
    <3> QED
      BY <2>4, <3>1, <3>2 DEF Space!BrkRegion, Space!Pages
  <2>6. Space(b)!StackPages = PagesOf({"stack"})
    <3>1. \A p \in AddrPages :
             p \in PagesOf({"stack"}) <=>
                MaxAddr - StackSize <= p * PageSize /\ p * PageSize < MaxAddr
      BY <2>1, StartPages
    <3>2. PagesOf({"stack"}) \subseteq AddrPages
      BY DEF PagesOf
    <3>3. MaxAddr - StackSize + StackSize = MaxAddr
      OBVIOUS
    <3> QED
      BY <2>4, <3>1, <3>2, <3>3 DEF Space!StackPages, Space!Pages
  <2>7. PagesOf({"prog", "interp"}) \in Space(b)!ProgramPages
    <3>1. MinAddr + (b - MinAddr) = b
      BY <2>2
    <3>2. \A p \in PagesOf({"prog", "interp"}) :
             MinAddr <= p * PageSize /\ p * PageSize < MinAddr + (b - MinAddr)
      BY <2>2, <3>1, PagesStart
    <3>3. PagesOf({"prog", "interp"}) \subseteq Space(b)!Pages(MinAddr, b - MinAddr)
      BY <2>2, <2>4, <3>2 DEF Space!Pages
    <3> QED
      BY <2>2, <3>3 DEF Space!ProgramPages
  <2>8. PagesOf({"prog", "interp", "brk", "stack"}) =
           Space(b)!InitiallyMapped(PagesOf({"prog", "interp"}))
    BY <2>5, <2>6, PagesOfAll DEF Space!InitiallyMapped
  <2>9. [p \in AddrPages |-> HostTag(p)] =
           [p \in Space(b)!Page |->
              IF p \in PagesOf({"prog", "interp"}) THEN "prog"
              ELSE IF p \in Space(b)!StackPages THEN "stack" ELSE "none"]
    BY <2>4, <2>6 DEF HostTag
  <2>10. Space(b)!Init
    BY <2>7, <2>8, <2>9 DEF Space!Init
  <2> QED
    BY <2>1, <2>3, <2>10
<1> QED
  BY <1>1, <1>2, StartInit, PTL DEF Spec

=============================================================================
