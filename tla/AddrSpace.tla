----------------------------- MODULE AddrSpace -----------------------------
(***************************************************************************)
(* The address space of a libtux process (pal/vm.c) and the calls that     *)
(* change it (sys_mem.c, procmapany, procmapat, procunmap): brk, mmap,     *)
(* mprotect and munmap.  Two records of the mappings are kept, libmmap's   *)
(* (mm) and the host kernel's (tag); the code keeps them in step.          *)
(*                                                                         *)
(* Every call runs under lk_as, and brk under lk_brk as well, so each is   *)
(* one step.  Addresses are bytes and pages are numbered; what a page      *)
(* holds is the kind of mapping it belongs to.  The descriptor that mmap   *)
(* looks up first is modelled in FdFiles.                                  *)
(***************************************************************************)
EXTENDS Integers

CONSTANTS
    PageSize,
    MinAddr, MaxAddr,    \* the usable part of the space
    BrkBase,             \* lastva of the loaded program
    BrkMax,              \* TUX_BRKMAXSIZE
    StackSize,
    UserArg,             \* addresses and lengths given to mmap, munmap, mprotect
    HostMayFail          \* may the host kernel refuse a mapping?

Layout ==
    /\ PageSize \in Nat \ {0}
    /\ {MinAddr, MaxAddr, BrkBase, BrkMax, StackSize} \subseteq Nat \ {0}
    /\ \A a \in {MinAddr, MaxAddr, BrkBase, BrkMax, StackSize} : a % PageSize = 0
    /\ MinAddr <= BrkBase
    /\ BrkBase + BrkMax <= MaxAddr - StackSize
    /\ UserArg \subseteq Nat
    /\ HostMayFail \in BOOLEAN

ASSUME LayoutAssumption == Layout

Addr == 0..MaxAddr
Page == (MinAddr \div PageSize)..((MaxAddr \div PageSize) - 1)

truncp(a) == (a \div PageSize) * PageSize
ceilp(a) == ((a + PageSize - 1) \div PageSize) * PageSize

\* The pages that the kernel and libmmap touch for a mapping at an aligned
\* address; both round the size up.
Pages(addr, size) == {p \in Page : addr <= p * PageSize /\ p * PageSize < addr + size}

BrkRegion == Pages(BrkBase, BrkMax)

VARIABLES
    mm,        \* libmmap: the pages in use
    tag,       \* host kernel: "none" (PROT_NONE), "prog", "brk", "map", "stack"
    brksize,   \* TuxProc.brksize
    aborted,   \* the assert that ended the process: "no", "brk", "range" or "unmap"
    \* What happened so far, for the properties and the guest
    failed,    \* has the host refused a mapping?
    lent       \* pages of the brk region that mmap has handed out

vars == <<mm, tag, brksize, aborted, failed, lent>>

TypeOK ==
    /\ mm \subseteq Page
    /\ tag \in [Page -> {"none", "prog", "brk", "map", "stack"}]
    /\ brksize \in 0..BrkMax
    /\ aborted \in {"no", "brk", "range", "unmap"}
    /\ failed \in BOOLEAN
    /\ lent \subseteq BrkRegion

(***************************************************************************)
(* After procsetup: stack, program and the reserved brk region.  The       *)
(* program and its interpreter end at BrkBase; between their segments      *)
(* pages may be free.                                                      *)
(***************************************************************************)
ProgramPages ==
    {ps \in SUBSET Pages(MinAddr, BrkBase - MinAddr) : (BrkBase \div PageSize) - 1 \in ps}

StackPages == Pages(MaxAddr - StackSize, StackSize)

\* Defect: the brk region is not reserved.
InitiallyMappedUnreserved(prog) == prog \cup StackPages

InitiallyMapped(prog) == prog \cup BrkRegion \cup StackPages

Init ==
    /\ \E prog \in ProgramPages :
          /\ mm = InitiallyMapped(prog)
          /\ tag = [p \in Page |-> IF p \in prog THEN "prog"
                                   ELSE IF p \in StackPages THEN "stack" ELSE "none"]
    /\ brksize = 0
    /\ aborted = "no"
    /\ failed = FALSE
    /\ lent = {}

-----------------------------------------------------------------------------
(* pal/vm.c *)

InRange(addr, size) == MinAddr <= addr /\ addr + size <= MaxAddr

Abort(why) ==
    /\ aborted' = why
    /\ UNCHANGED <<mm, tag, brksize, failed, lent>>

Set(ps, kind) == tag' = [p \in Page |-> IF p \in ps THEN kind ELSE tag[p]]

(***************************************************************************)
(* lfi_as_mapat once its assert holds.  libmmap takes the pages and, in    *)
(* cbunmap, has the host make inaccessible what was there; then the host   *)
(* maps them.  If the host refuses the mapping, libmmap forgets the pages. *)
(* If it refuses cbunmap, the assert there fails.  If libmmap refuses (its *)
(* record needs memory), nothing has changed.                              *)
(***************************************************************************)
MapAt(ps, kind) ==
    /\ mm' = mm \cup ps
    /\ Set(ps, kind)
    /\ UNCHANGED <<aborted, failed>>

MapAtFails(ps) ==
    /\ HostMayFail
    /\ mm' = mm \ ps
    /\ Set(ps \cap mm, "none")
    /\ failed' = TRUE
    /\ UNCHANGED aborted

UnmapAborts(ps) ==
    /\ HostMayFail
    /\ ps \cap mm # {}
    /\ Abort("unmap")

MapAtRefused ==
    /\ HostMayFail
    /\ UNCHANGED vars

-----------------------------------------------------------------------------
(* brk *)

\* Defect: a break below the base is not raised to it.
ClampBrkAbove(want) ==
    IF want >= BrkBase + BrkMax THEN BrkBase + BrkMax ELSE want

ClampBrk(want) ==
    IF want < BrkBase THEN BrkBase
    ELSE IF want >= BrkBase + BrkMax THEN BrkBase + BrkMax
    ELSE want

\* brkp - brkbase; address 0 asks for the current break.
NewSize(addr) == ClampBrk(IF addr = 0 THEN BrkBase + brksize ELSE addr) - BrkBase

\* Defect: the whole new size is mapped behind the old end.
BrkPagesWhole(newsize) ==
    IF brksize = 0 THEN Pages(BrkBase, newsize)
    ELSE Pages(ceilp(BrkBase + brksize), newsize)

\* Defect: growth skips a page when the old end is page aligned.
BrkPagesSkipping(newsize) ==
    IF brksize = 0 THEN Pages(BrkBase, newsize)
    ELSE Pages(truncp(BrkBase + brksize) + PageSize, newsize - brksize)

\* What growth to newsize maps
BrkPages(newsize) ==
    IF brksize = 0 THEN Pages(BrkBase, newsize)
    ELSE Pages(ceilp(BrkBase + brksize), newsize - brksize)

BrkAborts(addr) ==
    /\ NewSize(addr) >= BrkMax
    /\ Abort("brk")

BrkShrinks(addr) ==
    /\ NewSize(addr) < BrkMax
    /\ NewSize(addr) <= brksize
    /\ brksize' = NewSize(addr)
    /\ UNCHANGED <<mm, tag, aborted, failed, lent>>

BrkGrows(addr) ==
    /\ NewSize(addr) < BrkMax
    /\ NewSize(addr) > brksize
    /\ \/ /\ MapAt(BrkPages(NewSize(addr)), "brk")
          /\ brksize' = NewSize(addr)
          /\ UNCHANGED lent
       \/ /\ MapAtFails(BrkPages(NewSize(addr)))
          /\ UNCHANGED <<brksize, lent>>
       \/ UnmapAborts(BrkPages(NewSize(addr)))
       \/ MapAtRefused

Brk(addr) ==
    /\ aborted = "no"
    /\ BrkAborts(addr) \/ BrkShrinks(addr) \/ BrkGrows(addr)

-----------------------------------------------------------------------------
(* mmap, munmap, mprotect.                                                 *)

(***************************************************************************)
(* What the code leaves to the guest program: in the brk region it places  *)
(* mappings over, and unmaps, only what mmap has handed out to it there.   *)
(* It also unmaps from page-aligned addresses.                             *)
(***************************************************************************)
GuestMayUse(ps) == ps \cap BrkRegion \subseteq lent

\* mmap with MAP_FIXED: the address is truncated and the length rounded up.
MmapFixed(addr, length) ==
    LET ps == Pages(truncp(addr), ceilp(length))
    IN /\ aborted = "no"
       /\ length > 0
       /\ GuestMayUse(ps)
       /\ IF InRange(truncp(addr), ceilp(length))
          THEN \/ (MapAt(ps, "map") \/ MapAtFails(ps)) /\ UNCHANGED <<brksize, lent>>
               \/ UnmapAborts(ps)
               \/ MapAtRefused
          ELSE Abort("range")

\* Defect: the allocator also hands out what is mapped inaccessible.
FreeRunInaccessible(addr, size) ==
    /\ addr % PageSize = 0 /\ InRange(addr, size)
    /\ \A p \in Pages(addr, size) : p \notin mm \/ tag[p] = "none"

\* libmmap's mm_mapany finds any run of free pages.
FreeRun(addr, size) ==
    /\ addr % PageSize = 0 /\ InRange(addr, size)
    /\ Pages(addr, size) \cap mm = {}

MmapAny(length) ==
    /\ aborted = "no"
    /\ length > 0
    /\ \E addr \in Addr :
          /\ FreeRun(addr, ceilp(length))
          /\ \/ /\ MapAt(Pages(addr, ceilp(length)), "map")
                /\ lent' = lent \cup (Pages(addr, ceilp(length)) \cap BrkRegion)
             \/ /\ MapAtFails(Pages(addr, ceilp(length)))
                /\ UNCHANGED lent
    /\ UNCHANGED brksize

\* No room: lfi_as_mapany answers 0, which mmap returns as an address.
MmapAnyNoRoom(length) ==
    /\ aborted = "no"
    /\ length > 0
    /\ ~\E addr \in Addr : FreeRun(addr, ceilp(length))
    /\ UNCHANGED vars

\* Defect: libmmap forgets the pages and the host keeps them.
MunmapQuietly(addr, length) ==
    /\ aborted = "no"
    /\ addr % PageSize = 0
    /\ MinAddr <= addr /\ addr + length < MaxAddr
    /\ GuestMayUse(Pages(addr, length))
    /\ mm' = mm \ Pages(addr, length)
    /\ UNCHANGED <<tag, brksize, aborted, failed, lent>>

\* libmmap forgets the pages and cbunmap makes those it knew inaccessible.
Munmap(addr, length) ==
    /\ aborted = "no"
    /\ addr % PageSize = 0
    /\ MinAddr <= addr /\ addr + length < MaxAddr
    /\ GuestMayUse(Pages(addr, length))
    /\ \/ /\ mm' = mm \ Pages(addr, length)
          /\ Set(Pages(addr, length) \cap mm, "none")
          /\ UNCHANGED <<brksize, aborted, failed, lent>>
       \/ UnmapAborts(Pages(addr, length))

\* Out of range, or the last byte of the space: -1
MunmapRefused(addr, length) ==
    /\ aborted = "no"
    /\ ~(MinAddr <= addr /\ addr + length < MaxAddr)
    /\ UNCHANGED vars

\* Only the host learns of the new protection, which is not modelled.
Mprotect(addr, length) ==
    /\ aborted = "no"
    /\ IF InRange(addr, length) THEN UNCHANGED vars ELSE Abort("range")

-----------------------------------------------------------------------------
Next ==
    \/ \E addr \in Addr : Brk(addr)
    \/ \E addr, length \in UserArg :
          \/ MmapFixed(addr, length)
          \/ Munmap(addr, length)
          \/ MunmapRefused(addr, length)
          \/ Mprotect(addr, length)
    \/ \E length \in UserArg : MmapAny(length) \/ MmapAnyNoRoom(length)

Spec == Init /\ [][Next]_vars

-----------------------------------------------------------------------------
(* Properties *)

(***************************************************************************)
(* The heap the guest was promised is there: every page below the break is *)
(* mapped by brk and known to libmmap, through growth, shrinking, regrowth *)
(* at unaligned breaks and refusals of the host.  The exception are pages  *)
(* that mmap has handed out too: the guest may unmap those, and the heap   *)
(* with them.  There are none before the host refuses a mapping.           *)
(***************************************************************************)
HeapMapped ==
    /\ ~failed => lent = {}
    /\ \A p \in Pages(BrkBase, brksize) \ lent : tag[p] = "brk" /\ p \in mm

(***************************************************************************)
(* Whatever the host has mapped is in use for libmmap too, so mmap never   *)
(* places a mapping over another one.                                      *)
(***************************************************************************)
MapsKnown == \A p \in Page : tag[p] # "none" => p \in mm

(***************************************************************************)
(* The region that procsetup reserves is for brk alone, until a refusal of *)
(* the host gives part of it up (lfi_as_mapat unmaps what it could not     *)
(* map, and the reservation with it).                                      *)
(***************************************************************************)
BrkRegionReserved ==
    ~failed => \A p \in BrkRegion : tag[p] \in {"none", "brk"}

(***************************************************************************)
(* Growing the break takes pages of the reserved region only, from a break *)
(* that is page aligned.  From another, growth maps from the page above    *)
(* the old break and is up to a page too long.                             *)
(***************************************************************************)
AlignedBrkConfined ==
    [][brksize % PageSize = 0 /\ (\E addr \in Addr : Brk(addr))
          => \A p \in Page \ BrkRegion : tag'[p] = tag[p]]_vars

(***************************************************************************)
(* The assert of sys_brk, newsize < TUX_BRKMAXSIZE, holds.                 *)
(***************************************************************************)
BrkAssertHolds == aborted # "brk"

=============================================================================
