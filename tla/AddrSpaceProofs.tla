-------------------------- MODULE AddrSpaceProofs --------------------------
(***************************************************************************)
(* Proofs about AddrSpace, for any layout and page size.                   *)
(***************************************************************************)
EXTENDS AddrSpace, TLAPS

\* libmmap keeps the whole brk region until the host refuses a mapping.
RegionKept == ~failed => BrkRegion \subseteq mm

\* So mmap can hand out nothing of it until then.
NothingLent == ~failed => lent = {}

SpaceInv == TypeOK /\ MapsKnown /\ RegionKept /\ NothingLent /\ BrkRegionReserved

-----------------------------------------------------------------------------
(***************************************************************************)
(* The layout: every size is positive.                                     *)
(***************************************************************************)
LEMMA Sizes ==
    /\ PageSize \in Nat \ {0} /\ MinAddr \in Nat \ {0} /\ MaxAddr \in Nat \ {0}
    /\ BrkBase \in Nat \ {0} /\ BrkMax \in Nat \ {0} /\ StackSize \in Nat \ {0}
    /\ MinAddr <= BrkBase
    /\ BrkBase + BrkMax <= MaxAddr - StackSize
    /\ HostMayFail \in BOOLEAN
BY LayoutAssumption DEF Layout

(***************************************************************************)
(* Program, brk region and stack are different pages at the start.         *)
(***************************************************************************)
LEMMA PartsDisjoint ==
    /\ Pages(MinAddr, BrkBase - MinAddr) \cap BrkRegion = {}
    /\ Pages(MaxAddr - StackSize, StackSize) \cap BrkRegion = {}
<1> USE Sizes
<1>1. Page \subseteq Int
  BY DEF Page
<1>2. \A p \in Page : p * PageSize \in Int
  BY <1>1
<1> QED
  BY <1>2 DEF BrkRegion, Pages

(***************************************************************************)
(* lfi_as_mapat keeps the two records of the mappings in step; a mapping   *)
(* outside the brk region, or one of brk's, keeps the region for brk.      *)
(***************************************************************************)
LEMMA MapAtStep ==
    ASSUME SpaceInv, NEW ps \in SUBSET Page, NEW kind \in {"brk", "map"},
           kind = "brk" \/ GuestMayUse(ps),
           MapAt(ps, kind), brksize' \in 0..BrkMax, lent' = lent
    PROVE  SpaceInv'
<1>1. TypeOK' /\ MapsKnown' /\ RegionKept' /\ NothingLent'
  BY DEF SpaceInv, TypeOK, MapAt, Set, MapsKnown, RegionKept, NothingLent
<1>2. ASSUME ~failed PROVE kind = "brk" \/ ps \cap BrkRegion = {}
  BY <1>2 DEF SpaceInv, NothingLent, GuestMayUse
<1>3. ASSUME ~failed', NEW p \in BrkRegion PROVE tag'[p] \in {"none", "brk"}
  <2>1. ~failed /\ p \in Page
    BY <1>3 DEF MapAt, BrkRegion, Pages
  <2>2. tag[p] \in {"none", "brk"} /\ (kind = "brk" \/ p \notin ps)
    BY <1>2, <2>1 DEF SpaceInv, BrkRegionReserved
  <2> QED
    BY <2>1, <2>2 DEF MapAt, Set
<1> QED
  BY <1>1, <1>3 DEF SpaceInv, BrkRegionReserved

(***************************************************************************)
(* So does a refusal of the host, which gives up the reservation.          *)
(***************************************************************************)
LEMMA MapAtFailsStep ==
    ASSUME SpaceInv, NEW ps \in SUBSET Page, MapAtFails(ps), UNCHANGED <<brksize, lent>>
    PROVE  SpaceInv'
BY DEF SpaceInv, TypeOK, MapAtFails, Set, MapsKnown, RegionKept, NothingLent, BrkRegionReserved

(***************************************************************************)
(* An assert that fails leaves everything as it was.                       *)
(***************************************************************************)
LEMMA AbortStep ==
    ASSUME SpaceInv, NEW why \in {"brk", "range", "unmap"}, Abort(why) PROVE SpaceInv'
BY DEF SpaceInv, TypeOK, Abort, MapsKnown, RegionKept, NothingLent, BrkRegionReserved

(***************************************************************************)
(* brk, mmap, munmap and mprotect keep the invariant.                      *)
(***************************************************************************)
LEMMA SpaceStep == ASSUME SpaceInv, [Next]_vars PROVE SpaceInv'
<1> USE Sizes
<1>0. \A a, n : Pages(a, n) \in SUBSET Page
  BY DEF Pages
<1>1. CASE UNCHANGED vars
  BY <1>1 DEF vars, SpaceInv, TypeOK, MapsKnown, RegionKept, NothingLent, BrkRegionReserved
<1>2. ASSUME NEW addr \in Addr, Brk(addr) PROVE SpaceInv'
  <2>1. CASE BrkAborts(addr)
    BY <2>1, AbortStep DEF BrkAborts
  <2>2. NewSize(addr) \in 0..BrkMax
    BY DEF NewSize, ClampBrk, SpaceInv, TypeOK, Addr
  <2>3. CASE BrkShrinks(addr)
    BY <2>2, <2>3
    DEF BrkShrinks, SpaceInv, TypeOK, MapsKnown, RegionKept, NothingLent, BrkRegionReserved
  <2>4. CASE BrkGrows(addr)
    <3>1. BrkPages(NewSize(addr)) \in SUBSET Page
      BY <1>0 DEF BrkPages
    <3>2. ASSUME MapAt(BrkPages(NewSize(addr)), "brk"), brksize' = NewSize(addr), lent' = lent
          PROVE  SpaceInv'
      BY <2>2, <3>1, <3>2, MapAtStep
    <3>3. ASSUME MapAtFails(BrkPages(NewSize(addr))), UNCHANGED <<brksize, lent>>
          PROVE  SpaceInv'
      BY <3>1, <3>3, MapAtFailsStep
    <3>4. CASE UnmapAborts(BrkPages(NewSize(addr))) \/ MapAtRefused
      BY <1>1, <3>4, AbortStep DEF UnmapAborts, MapAtRefused
    <3> QED
      BY <2>4, <3>2, <3>3, <3>4 DEF BrkGrows
  <2> QED
    BY <1>2, <2>1, <2>3, <2>4 DEF Brk
<1>3. ASSUME NEW addr \in UserArg, NEW length \in UserArg, MmapFixed(addr, length)
      PROVE  SpaceInv'
  <2> DEFINE ps == Pages(truncp(addr), ceilp(length))
  <2>1. ps \in SUBSET Page /\ GuestMayUse(ps)
    BY <1>0, <1>3 DEF MmapFixed
  <2>2. CASE InRange(truncp(addr), ceilp(length))
    <3>1. \/ (MapAt(ps, "map") \/ MapAtFails(ps)) /\ UNCHANGED <<brksize, lent>>
          \/ UnmapAborts(ps)
          \/ MapAtRefused
      BY <1>3, <2>2 DEF MmapFixed
    <3>2. brksize \in 0..BrkMax
      BY DEF SpaceInv, TypeOK
    <3> HIDE DEF ps
    <3>3. CASE UnmapAborts(ps) \/ MapAtRefused
      BY <1>1, <3>3, AbortStep DEF UnmapAborts, MapAtRefused
    <3> QED
      BY <2>1, <3>1, <3>2, <3>3, MapAtStep, MapAtFailsStep
  <2>3. CASE ~InRange(truncp(addr), ceilp(length))
    BY <1>3, <2>3, AbortStep DEF MmapFixed
  <2> QED
    BY <2>2, <2>3
<1>4. ASSUME NEW length \in UserArg, MmapAny(length) PROVE SpaceInv'
  <2>1. PICK addr \in Addr :
            /\ FreeRun(addr, ceilp(length))
            /\ \/ /\ MapAt(Pages(addr, ceilp(length)), "map")
                  /\ lent' = lent \cup (Pages(addr, ceilp(length)) \cap BrkRegion)
               \/ /\ MapAtFails(Pages(addr, ceilp(length)))
                  /\ UNCHANGED lent
    BY <1>4 DEF MmapAny
  <2> DEFINE ps == Pages(addr, ceilp(length))
  <2>2. ps \in SUBSET Page /\ ps \cap mm = {}
    BY <1>0, <2>1 DEF FreeRun
  <2>3. /\ brksize' = brksize
        /\ \/ MapAt(ps, "map") /\ lent' = lent \cup (ps \cap BrkRegion)
           \/ MapAtFails(ps) /\ lent' = lent
    BY <1>4, <2>1 DEF MmapAny
  <2> HIDE DEF ps
  <2>4. ASSUME MapAt(ps, "map"), lent' = lent \cup (ps \cap BrkRegion) PROVE SpaceInv'
    <3>1. ~failed => ps \cap BrkRegion = {}
      BY <2>2 DEF SpaceInv, RegionKept
    <3>2. TypeOK' /\ MapsKnown' /\ RegionKept'
      BY <2>2, <2>3, <2>4 DEF SpaceInv, TypeOK, MapAt, Set, MapsKnown, RegionKept
    <3>3. ~failed' => ~failed /\ lent' = lent
      BY <2>4, <3>1 DEF MapAt
    <3>4. NothingLent'
      BY <3>3 DEF SpaceInv, NothingLent
    <3>5. ASSUME ~failed', NEW p \in BrkRegion PROVE tag'[p] \in {"none", "brk"}
      <4>1. p \in Page /\ p \notin ps /\ tag[p] \in {"none", "brk"}
        BY <3>1, <3>3, <3>5 DEF SpaceInv, BrkRegionReserved, BrkRegion, Pages
      <4> QED
        BY <2>4, <4>1 DEF MapAt, Set
    <3> QED
      BY <3>2, <3>4, <3>5 DEF SpaceInv, BrkRegionReserved
  <2>5. ASSUME MapAtFails(ps), lent' = lent PROVE SpaceInv'
    BY <2>2, <2>3, <2>5, MapAtFailsStep
  <2> QED
    BY <2>3, <2>4, <2>5
<1>5. ASSUME NEW addr \in UserArg, NEW length \in UserArg, Munmap(addr, length)
      PROVE  SpaceInv'
  <2> DEFINE ps == Pages(addr, length)
  <2>1. /\ ps \in SUBSET Page /\ GuestMayUse(ps)
        /\ \/ /\ mm' = mm \ ps /\ Set(ps \cap mm, "none")
              /\ UNCHANGED <<brksize, aborted, failed, lent>>
           \/ UnmapAborts(ps)
    BY <1>0, <1>5 DEF Munmap
  <2> HIDE DEF ps
  <2>2. CASE UnmapAborts(ps)
    BY <2>2, AbortStep DEF UnmapAborts
  <2>3. ~failed => ps \cap BrkRegion = {}
    BY <2>1 DEF SpaceInv, NothingLent, GuestMayUse
  <2> QED
    BY <2>1, <2>2, <2>3
    DEF SpaceInv, TypeOK, Set, MapsKnown, RegionKept, NothingLent, BrkRegionReserved
<1>6. ASSUME NEW addr \in UserArg, NEW length \in UserArg,
             MunmapRefused(addr, length) \/ Mprotect(addr, length)
      PROVE  SpaceInv'
  BY <1>1, <1>6, AbortStep DEF MunmapRefused, Mprotect
<1>7. ASSUME NEW length \in UserArg, MmapAnyNoRoom(length) PROVE SpaceInv'
  BY <1>1, <1>7 DEF MmapAnyNoRoom
<1> QED
  BY <1>1, <1>2, <1>3, <1>4, <1>5, <1>6, <1>7 DEF Next

(***************************************************************************)
(* What procsetup leaves satisfies the invariant.                          *)
(***************************************************************************)
LEMMA SpaceInit == Init => SpaceInv
<1> USE Sizes
<1> SUFFICES ASSUME Init PROVE SpaceInv
  OBVIOUS
<1>0. PICK prog \in ProgramPages :
          /\ mm = prog \cup BrkRegion \cup StackPages
          /\ tag = [p \in Page |-> IF p \in prog THEN "prog"
                                   ELSE IF p \in StackPages THEN "stack" ELSE "none"]
  BY DEF Init, InitiallyMapped
<1>1. /\ prog \in SUBSET Page /\ BrkRegion \in SUBSET Page /\ StackPages \in SUBSET Page
      /\ prog \cap BrkRegion = {} /\ StackPages \cap BrkRegion = {}
  <2>1. prog \in SUBSET Pages(MinAddr, BrkBase - MinAddr)
    BY DEF ProgramPages
  <2>2. \A a, n : Pages(a, n) \in SUBSET Page
    BY DEF Pages
  <2> QED
    BY <2>1, <2>2, PartsDisjoint DEF BrkRegion, StackPages
<1>2. brksize = 0 /\ failed = FALSE /\ lent = {} /\ aborted = "no" /\ 0 \in 0..BrkMax
  BY DEF Init
<1>3. TypeOK
  BY <1>0, <1>1, <1>2 DEF TypeOK
<1>4. MapsKnown
  BY <1>0, <1>1 DEF MapsKnown
<1>5. RegionKept /\ NothingLent
  BY <1>0, <1>2 DEF RegionKept, NothingLent
<1>6. BrkRegionReserved
  BY <1>0, <1>1 DEF BrkRegionReserved
<1> QED
  BY <1>3, <1>4, <1>5, <1>6 DEF SpaceInv

(***************************************************************************)
(* Whatever sequence of brk, mmap, munmap and mprotect a program makes,    *)
(* what the host has mapped is in use for libmmap, so that mmap never      *)
(* places a mapping over another.                                          *)
(***************************************************************************)
THEOREM MapsStayKnown == Spec => []MapsKnown
<1>1. SpaceInv => MapsKnown
  BY DEF SpaceInv
<1>2. SpaceInv /\ [Next]_vars => SpaceInv'
  BY SpaceStep
<1> QED
  BY <1>1, <1>2, SpaceInit, PTL DEF Spec

(***************************************************************************)
(* The region that procsetup reserves holds nothing but brk's pages, until *)
(* the host refuses a mapping.                                             *)
(***************************************************************************)
THEOREM RegionStaysReserved == Spec => []BrkRegionReserved
<1>1. SpaceInv => BrkRegionReserved
  BY DEF SpaceInv
<1>2. SpaceInv /\ [Next]_vars => SpaceInv'
  BY SpaceStep
<1> QED
  BY <1>1, <1>2, SpaceInit, PTL DEF Spec

(***************************************************************************)
(* Type correctness; in particular the break stays between its base and    *)
(* its limit (the clamps of sys_brk).                                      *)
(***************************************************************************)
THEOREM TypeCorrect == Spec => []TypeOK
<1>1. SpaceInv => TypeOK
  BY DEF SpaceInv
<1>2. SpaceInv /\ [Next]_vars => SpaceInv'
  BY SpaceStep
<1> QED
  BY <1>1, <1>2, SpaceInit, PTL DEF Spec

-----------------------------------------------------------------------------
(* The heap *)

\* No page begins between an address and the page boundary above it.
LEMMA CeilPage ==
    ASSUME NEW a \in Nat, NEW p \in Nat
    PROVE  /\ ceilp(a) \in Nat /\ a <= ceilp(a)
           /\ a <= p * PageSize => ceilp(a) <= p * PageSize
<1> USE Sizes
<1> DEFINE q == (a + PageSize - 1) \div PageSize
<1>1. q \in Nat /\ q * PageSize \in Nat /\ p * PageSize \in Nat
  OBVIOUS
<1>2. q * PageSize <= a + PageSize - 1 /\ a + PageSize - 1 < q * PageSize + PageSize
  OBVIOUS
<1>3. ceilp(a) = q * PageSize
  BY DEF ceilp
<1> HIDE DEF q
<1>4. ASSUME a <= p * PageSize PROVE q * PageSize <= p * PageSize
  <2>1. q * PageSize < (p + 1) * PageSize
    BY <1>1, <1>2, <1>4
  <2>2. q <= p
    BY <1>1, <2>1
  <2> QED
    BY <1>1, <2>2
<1> QED
  BY <1>1, <1>2, <1>3, <1>4

\* Growth maps every new page of the heap, and none of the old ones.
LEMMA GrowthCovers ==
    ASSUME TypeOK, NEW n \in 0..BrkMax, n > brksize
    PROVE  /\ Pages(BrkBase, n) \subseteq Pages(BrkBase, brksize) \cup BrkPages(n)
           /\ Pages(BrkBase, brksize) \cap BrkPages(n) = {}
<1> USE Sizes
<1>1. brksize \in Nat /\ n \in Nat
  BY DEF TypeOK
<1>2. CASE brksize = 0
  <2>1. Pages(BrkBase, 0) = {}
    <3>1. \A p \in Page : p * PageSize \in Int
      BY DEF Page
    <3> QED
      BY <3>1 DEF Pages
  <2> QED
    BY <1>2, <2>1 DEF BrkPages
<1>3. CASE brksize # 0
  <2> DEFINE old == BrkBase + brksize
  <2>1. old \in Nat /\ BrkPages(n) = Pages(ceilp(old), n - brksize)
    BY <1>1, <1>3 DEF BrkPages
  <2>2. ASSUME NEW p \in Page
        PROVE  /\ p * PageSize \in Nat
               /\ ceilp(old) \in Nat /\ old <= ceilp(old)
               /\ old <= p * PageSize => ceilp(old) <= p * PageSize
    <3>1. p \in Nat
      BY DEF Page
    <3>2. p * PageSize \in Nat
      BY <3>1
    <3> HIDE DEF old
    <3> QED
      BY <2>1, <3>1, <3>2, CeilPage
  <2>3. ASSUME NEW p \in Pages(BrkBase, n) PROVE p \in Pages(BrkBase, brksize) \cup BrkPages(n)
    <3>1. p \in Page /\ BrkBase <= p * PageSize /\ p * PageSize < BrkBase + n
      BY DEF Pages
    <3> QED
      BY <1>1, <2>1, <2>2, <3>1 DEF Pages
  <2>4. ASSUME NEW p \in Page, p \in Pages(BrkBase, brksize), p \in BrkPages(n) PROVE FALSE
    <3>1. p * PageSize < old /\ ceilp(old) <= p * PageSize
      BY <2>1, <2>4 DEF Pages
    <3> QED
      BY <2>1, <2>2, <3>1
  <2>5. Pages(BrkBase, brksize) \subseteq Page
    BY DEF Pages
  <2> QED
    BY <2>3, <2>4, <2>5
<1> QED
  BY <1>2, <1>3

\* The heap lies in the reserved region.
LEMMA HeapInRegion == ASSUME TypeOK PROVE Pages(BrkBase, brksize) \subseteq BrkRegion
<1> USE Sizes
<1>1. \A p \in Page : p * PageSize \in Int
  BY DEF Page
<1> QED
  BY <1>1 DEF TypeOK, Pages, BrkRegion

\* The pages of the heap that are brk's alone
Heap == Pages(BrkBase, brksize) \ lent

\* A mapping, or a refused one, outside the heap leaves the heap as it is.
LEMMA HeapUntouched ==
    ASSUME TypeOK, HeapMapped, NothingLent', NEW ps \in SUBSET Page, brksize' = brksize,
           lent \subseteq lent', ps \cap Heap = {},
           \/ \E kind \in {"brk", "map"} : MapAt(ps, kind)
           \/ MapAtFails(ps)
           \/ mm' = mm \ ps /\ Set(ps \cap mm, "none")
    PROVE  HeapMapped'
<1>1. Heap \subseteq Page /\ Heap' \subseteq Heap
  BY DEF Pages, Heap
<1>2. \A p \in Page \ ps : tag'[p] = tag[p] /\ (p \in mm => p \in mm')
  BY DEF MapAt, MapAtFails, Set
<1>3. \A p \in Heap' : tag'[p] = "brk" /\ p \in mm'
  BY <1>1, <1>2 DEF HeapMapped, Heap
<1> QED
  BY <1>3 DEF HeapMapped, Heap, NothingLent

LEMMA HeapStep == ASSUME SpaceInv, HeapMapped, [Next]_vars PROVE HeapMapped'
<1> USE Sizes
<1>0. /\ TypeOK /\ TypeOK' /\ NothingLent'
      /\ Heap \subseteq BrkRegion /\ Heap \subseteq mm /\ Heap \cap lent = {}
      /\ \A a, n : Pages(a, n) \in SUBSET Page
  <2>1. TypeOK /\ TypeOK' /\ NothingLent'
    BY SpaceStep DEF SpaceInv
  <2>2. \A a, n : Pages(a, n) \in SUBSET Page
    BY DEF Pages
  <2> QED
    BY <2>1, <2>2, HeapInRegion DEF HeapMapped, Heap
<1>1. ASSUME mm' = mm, tag' = tag, brksize' = brksize, lent' = lent PROVE HeapMapped'
  BY <1>0, <1>1 DEF HeapMapped, Pages, NothingLent
<1>2. ASSUME NEW addr \in Addr, Brk(addr) PROVE HeapMapped'
  <2>1. CASE BrkAborts(addr)
    BY <1>1, <2>1 DEF BrkAborts, Abort
  <2>2. CASE BrkShrinks(addr)
    <3>1. /\ mm' = mm /\ tag' = tag /\ lent' = lent
          /\ brksize' <= brksize /\ brksize' \in Nat /\ brksize \in Nat
      BY <1>0, <2>2 DEF BrkShrinks, TypeOK
    <3>2. Pages(BrkBase, brksize)' \subseteq Pages(BrkBase, brksize)
      <4>1. \A p \in Page : p * PageSize \in Int
        BY DEF Page
      <4> QED
        BY <3>1, <4>1 DEF Pages
    <3> QED
      BY <1>0, <3>1, <3>2 DEF HeapMapped, NothingLent
  <2>3. ASSUME BrkGrows(addr), MapAt(BrkPages(NewSize(addr)), "brk"),
               brksize' = NewSize(addr), lent' = lent
        PROVE  HeapMapped'
    <3>1. NewSize(addr) \in 0..BrkMax /\ NewSize(addr) > brksize
      BY <1>0, <2>3 DEF BrkGrows, TypeOK
    <3>2. Pages(BrkBase, brksize)' \subseteq Pages(BrkBase, brksize) \cup BrkPages(NewSize(addr))
      <4>1. Pages(BrkBase, brksize)' = Pages(BrkBase, NewSize(addr))
        BY <2>3 DEF Pages
      <4> QED
        BY <1>0, <3>1, <4>1, GrowthCovers
    <3>3. /\ \A p \in BrkPages(NewSize(addr)) : p \in Page => tag'[p] = "brk" /\ p \in mm'
          /\ \A p \in Page : tag[p] = "brk" => tag'[p] = "brk"
          /\ mm \subseteq mm'
      BY <2>3 DEF MapAt, Set
    <3>4. Pages(BrkBase, brksize)' \subseteq Page
      BY DEF Pages
    <3> QED
      BY <1>0, <2>3, <3>2, <3>3, <3>4 DEF HeapMapped, NothingLent
  <2>4. ASSUME BrkGrows(addr), MapAtFails(BrkPages(NewSize(addr))),
               UNCHANGED <<brksize, lent>>
        PROVE  HeapMapped'
    <3>1. NewSize(addr) \in 0..BrkMax /\ NewSize(addr) > brksize
      <4>1. NewSize(addr) \in 0..BrkMax
        BY <1>0 DEF NewSize, ClampBrk, TypeOK, Addr
      <4> QED
        BY <2>4, <4>1 DEF BrkGrows
    <3>2. BrkPages(NewSize(addr)) \in SUBSET Page
      BY <1>0 DEF BrkPages
    <3>3. BrkPages(NewSize(addr)) \cap Heap = {}
      BY <1>0, <3>1, GrowthCovers DEF Heap
    <3> QED
      BY <1>0, <2>4, <3>2, <3>3, HeapUntouched
  <2>5. CASE UnmapAborts(BrkPages(NewSize(addr))) \/ MapAtRefused
    BY <1>1, <2>5 DEF UnmapAborts, Abort, MapAtRefused, vars
  <2> QED
    BY <1>2, <2>1, <2>2, <2>3, <2>4, <2>5 DEF Brk, BrkGrows
<1>3. ASSUME NEW addr \in UserArg, NEW length \in UserArg, MmapFixed(addr, length)
      PROVE  HeapMapped'
  <2>1. PICK ps : ps = Pages(truncp(addr), ceilp(length))
    OBVIOUS
  <2>2. ps \in SUBSET Page /\ ps \cap Heap = {}
    BY <1>0, <1>3, <2>1 DEF MmapFixed, GuestMayUse
  <2>3. \/ (MapAt(ps, "map") \/ MapAtFails(ps)) /\ UNCHANGED <<brksize, lent>>
        \/ UnmapAborts(ps) \/ MapAtRefused \/ Abort("range")
    BY <1>3, <2>1 DEF MmapFixed
  <2>4. CASE UnmapAborts(ps) \/ MapAtRefused \/ Abort("range")
    BY <1>1, <2>4 DEF UnmapAborts, Abort, MapAtRefused, vars
  <2> QED
    BY <1>0, <2>2, <2>3, <2>4, HeapUntouched
<1>4. ASSUME NEW length \in UserArg, MmapAny(length) PROVE HeapMapped'
  <2>1. PICK addr \in Addr :
            /\ FreeRun(addr, ceilp(length))
            /\ \/ MapAt(Pages(addr, ceilp(length)), "map")
               \/ MapAtFails(Pages(addr, ceilp(length)))
            /\ lent \subseteq lent'
    BY <1>4 DEF MmapAny
  <2>2. PICK ps : ps = Pages(addr, ceilp(length))
    OBVIOUS
  <2>3. ps \in SUBSET Page /\ ps \cap Heap = {} /\ brksize' = brksize
    BY <1>0, <1>4, <2>1, <2>2 DEF FreeRun, MmapAny
  <2> QED
    BY <1>0, <2>1, <2>2, <2>3, HeapUntouched
<1>5. ASSUME NEW addr \in UserArg, NEW length \in UserArg, Munmap(addr, length)
      PROVE  HeapMapped'
  <2>1. PICK ps : ps = Pages(addr, length)
    OBVIOUS
  <2>2. /\ ps \in SUBSET Page /\ ps \cap Heap = {}
        /\ \/ /\ mm' = mm \ ps /\ Set(ps \cap mm, "none")
              /\ UNCHANGED <<brksize, lent>>
           \/ UnmapAborts(ps)
    BY <1>0, <1>5, <2>1 DEF Munmap, GuestMayUse
  <2>3. CASE UnmapAborts(ps)
    BY <1>1, <2>3 DEF UnmapAborts, Abort
  <2> QED
    BY <1>0, <2>2, <2>3, HeapUntouched
<1>6. ASSUME NEW addr \in UserArg, NEW length \in UserArg,
             MunmapRefused(addr, length) \/ Mprotect(addr, length) \/ MmapAnyNoRoom(length)
      PROVE  HeapMapped'
  BY <1>1, <1>6 DEF MunmapRefused, Mprotect, MmapAnyNoRoom, Abort, vars
<1>7. CASE UNCHANGED vars
  BY <1>1, <1>7 DEF vars
<1> QED
  BY <1>2, <1>3, <1>4, <1>5, <1>6, <1>7 DEF Next

(***************************************************************************)
(* For every layout and page size, each page below the break is mapped by  *)
(* brk and known to libmmap, but for pages that mmap has handed out too:   *)
(* growth from an unaligned break (sys_brk maps from the page above)       *)
(* leaves no hole, and a refusal of the host loses no page of the heap.    *)
(* Until the host refuses a mapping there is no exception, as mmap has     *)
(* then handed out nothing of the brk region.  After a refusal of brk's    *)
(* own growth it may (vm.c:106 gives up the reservation), and such a page  *)
(* of a later heap goes when the guest unmaps it.                          *)
(***************************************************************************)
THEOREM HeapStaysMapped == Spec => []HeapMapped
<1>1. Init => HeapMapped
  <2> USE Sizes
  <2> SUFFICES ASSUME Init PROVE HeapMapped
    OBVIOUS
  <2>1. \A p \in Page : p * PageSize \in Int
    BY DEF Page
  <2>2. Pages(BrkBase, brksize) = {}
    BY <2>1 DEF Init, Pages
  <2> QED
    BY <2>2 DEF HeapMapped, Init
<1>2. SpaceInv /\ HeapMapped /\ [Next]_vars => SpaceInv' /\ HeapMapped'
  BY SpaceStep, HeapStep
<1> QED
  BY <1>1, <1>2, SpaceInit, PTL DEF Spec

\* From an aligned break, growth stays in the region.
LEMMA AlignedGrowth ==
    ASSUME TypeOK, brksize % PageSize = 0, NEW n \in 0..BrkMax, n > brksize
    PROVE  BrkPages(n) \subseteq BrkRegion
<1> USE Sizes
<1> DEFINE old == BrkBase + brksize
           k == (BrkBase \div PageSize) + (brksize \div PageSize)
<1>1. brksize \in Nat /\ n \in Nat /\ BrkBase % PageSize = 0
  BY LayoutAssumption DEF TypeOK, Layout
<1>2. k \in Nat /\ old \in Nat /\ old = k * PageSize
  <2>1. BrkBase = (BrkBase \div PageSize) * PageSize
    BY <1>1
  <2>2. brksize = (brksize \div PageSize) * PageSize
    BY <1>1
  <2>3. BrkBase \div PageSize \in Nat /\ brksize \div PageSize \in Nat
    BY <1>1
  <2> QED
    BY <1>1, <2>1, <2>2, <2>3
<1> HIDE DEF k
<1>3. ceilp(old) \in Nat /\ ceilp(old) = old
  <2> HIDE DEF old
  <2>1. ceilp(old) \in Nat /\ old <= ceilp(old) /\ ceilp(old) <= k * PageSize
    BY <1>2, CeilPage
  <2> QED
    BY <1>2, <2>1
<1>4. \A p \in Page : p * PageSize \in Int
  BY DEF Page
<1>5. BrkPages(n) = Pages(IF brksize = 0 THEN BrkBase ELSE old, n - brksize)
  BY <1>1, <1>3 DEF BrkPages
<1>6. BrkPages(n) = Pages(old, n - brksize)
  BY <1>1, <1>5
<1> QED
  BY <1>1, <1>4, <1>6 DEF Pages, BrkRegion

(***************************************************************************)
(* A brk call from a page-aligned break changes no page outside of the     *)
(* region that procsetup reserved.                                         *)
(***************************************************************************)
THEOREM AlignedBrkStaysConfined == Spec => AlignedBrkConfined
<1> USE Sizes
<1> DEFINE Confined == brksize % PageSize = 0 /\ (\E addr \in Addr : Brk(addr))
                           => \A p \in Page \ BrkRegion : tag'[p] = tag[p]
<1>1. SpaceInv /\ [Next]_vars => [Confined]_vars
  <2> SUFFICES ASSUME SpaceInv, brksize % PageSize = 0, NEW addr \in Addr, Brk(addr),
                      NEW p \in Page \ BrkRegion
               PROVE  tag'[p] = tag[p]
    OBVIOUS
  <2>1. TypeOK /\ NewSize(addr) \in 0..BrkMax
    BY DEF NewSize, ClampBrk, SpaceInv, TypeOK, Addr
  <2>2. CASE BrkAborts(addr) \/ BrkShrinks(addr)
    BY <2>2 DEF BrkAborts, BrkShrinks, Abort
  <2>3. CASE BrkGrows(addr)
    <3>1. p \notin BrkPages(NewSize(addr))
      BY <2>1, <2>3, AlignedGrowth DEF BrkGrows
    <3> QED
      BY <2>3, <3>1
      DEF BrkGrows, MapAt, MapAtFails, UnmapAborts, Abort, MapAtRefused, vars, Set
  <2> QED
    BY <2>2, <2>3 DEF Brk
<1>2. SpaceInv /\ [Next]_vars => SpaceInv'
  BY SpaceStep
<1> QED
  BY <1>1, <1>2, SpaceInit, PTL DEF Spec, AlignedBrkConfined
=============================================================================
