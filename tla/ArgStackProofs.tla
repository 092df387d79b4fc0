--------------------------- MODULE ArgStackProofs ---------------------------
(***************************************************************************)
(* Proofs about ArgStack: the arguments survive exactly when the vectors   *)
(* fit, and nothing outside the two blocks is written, for every stack,    *)
(* block size, word size and argument vector.                              *)
(***************************************************************************)
EXTENDS ArgStack, TLAPS

-----------------------------------------------------------------------------
(* Arithmetic *)

\* Multiples of the word size are natural numbers, and grow with the factor.
LEMMA Multiple ==
    ASSUME NEW k \in Nat
    PROVE  k * Word \in Nat /\ (k + 1) * Word = k * Word + Word
<1>1. Word \in Nat
  BY ArgStackAssumption
<1> QED
  BY <1>1, SMT

LEMMA MultiplesGrow ==
    ASSUME NEW k \in Nat, NEW j \in Nat, k <= j
    PROVE  k * Word <= j * Word
<1>1. Word \in Nat
  BY ArgStackAssumption
<1>2. j - k \in Nat /\ (j - k) * Word \in Nat
  BY <1>1, SMT
<1>3. j * Word = k * Word + (j - k) * Word
  BY <1>1, SMT
<1>4. k * Word \in Nat
  BY Multiple
<1> QED
  BY <1>2, <1>3, <1>4, SMT

\* The numbers of the layout: a word is smaller than a block, the two blocks
\* are above address 0, and the layout's addresses follow one another.
LEMMA Layout ==
    ASSUME argv \in Seq(Nat)
    PROVE  /\ StackTop \in Nat /\ ARG_BLOCK \in Nat /\ Word \in Nat /\ AuxCount \in Nat
           /\ Word > 0 /\ AuxCount > 0 /\ Word < ARG_BLOCK
           /\ argc \in Nat
           /\ newsp \in Nat /\ newsp + 2 * ARG_BLOCK = StackTop
           /\ argc * Word \in Nat /\ AuxCount * Word \in Nat
           /\ p_argvp = newsp + Word
           /\ av = newsp + argc * Word + 3 * Word
           /\ Auxv.hi = av + 2 * (AuxCount * Word)
           /\ VectorsFit <=> argc * Word + 3 * Word + 2 * (AuxCount * Word) <= ARG_BLOCK
<1>1. /\ StackTop \in Nat /\ ARG_BLOCK \in Nat /\ Word \in Nat /\ AuxCount \in Nat
      /\ Word > 0 /\ AuxCount > 0 /\ Word < ARG_BLOCK
      /\ newsp \in Nat /\ newsp + 2 * ARG_BLOCK = StackTop
  BY ArgStackAssumption DEF newsp
<1>2. argc \in Nat
  BY DEF argc
<1>3. argc * Word \in Nat /\ (argc + 1) * Word = argc * Word + Word
  BY <1>2, Multiple
<1>4. AuxCount * Word \in Nat
  BY <1>1, Multiple
<1>5. 2 * Word * AuxCount = 2 * (AuxCount * Word)
  BY <1>1, SMT
<1>6. (argc + 3 + 2 * AuxCount) * Word = argc * Word + 3 * Word + 2 * (AuxCount * Word)
  BY <1>1, <1>2, SMT
<1>7. p_argvp = newsp + Word
  BY DEF p_argvp
<1>8. av = newsp + argc * Word + 3 * Word
  BY <1>1, <1>3, <1>7 DEF p_envp, av
<1>9. Auxv.hi = av + 2 * (AuxCount * Word)
  BY <1>5 DEF Auxv
<1>10. VectorsFit <=> argc * Word + 3 * Word + 2 * (AuxCount * Word) <= ARG_BLOCK
  BY <1>6 DEF VectorsFit
<1> QED
  BY <1>1, <1>2, <1>3, <1>4, <1>7, <1>8, <1>9, <1>10

\* The size of a copied string is positive.
LEMMA CopySizePositive ==
    ASSUME argv \in Seq(Nat), NEW k \in 1..argc
    PROVE  CopySize(k) \in Nat /\ CopySize(k) > 0
<1>1. argv[k] \in Nat
  BY DEF argc
<1>2. ARGV_MAX \in Nat
  BY ArgStackAssumption
<1> QED
  BY <1>1, <1>2 DEF CopySize

-----------------------------------------------------------------------------
(* Type correctness *)

\* Every object that is written is an Object.
LEMMA ObjectsTyped ==
    ASSUME TypeOK
    PROVE  /\ \A k \in 1..argc, lo \in Nat : StringAt(k, lo) \in Object
           /\ \A k \in 1..Len(argv_ptrs) : PointerAt(k) \in Object
           /\ Ends \in Object /\ Auxv \in Object
           /\ [lo |-> newsp, hi |-> newsp + Word, what |-> "argc", n |-> argc] \in Object
<1>1. argv \in Seq(Nat)
  BY ArgStackAssumption DEF TypeOK
<1>2. \A k \in 1..argc, lo \in Nat : StringAt(k, lo) \in Object
  BY <1>1, CopySizePositive DEF StringAt, Object
<1>3. \A k \in 1..Len(argv_ptrs) : PointerAt(k) \in Object
  <2> TAKE k \in 1..Len(argv_ptrs)
  <2>1. k \in Nat /\ k - 1 \in Nat /\ argv_ptrs[k] \in Nat
    BY DEF TypeOK
  <2>2. k * Word \in Nat /\ (k - 1) * Word \in Nat
    BY <2>1, Multiple
  <2>3. p_argvp \in Int
    BY <1>1, Layout
  <2> QED
    BY <2>1, <2>2, <2>3 DEF PointerAt, Object
<1>4. Ends \in Object /\ Auxv \in Object
  <2> DEFINE n == argc * Word
             m == AuxCount * Word
  <2>1. /\ n \in Int /\ m \in Int /\ newsp \in Int /\ Word \in Int /\ AuxCount \in Int
        /\ p_argvp = newsp + Word /\ av = newsp + n + 3 * Word /\ Auxv.hi = av + 2 * m
    BY <1>1, Layout
  <2> HIDE DEF n, m
  <2>2. p_argvp + n \in Int /\ av \in Int /\ Auxv.hi \in Int
    BY <2>1
  <2> QED
    BY <2>1, <2>2 DEF Ends, Auxv, Object, n
<1> QED
  <2>1. newsp \in Int /\ newsp + Word \in Int /\ argc \in Int
    BY <1>1, Layout
  <2> QED
    BY <1>2, <1>3, <1>4, <2>1 DEF Object

\* What a write leaves behind was there or is what it wrote.
LEMMA WriteKeeps ==
    ASSUME NEW m, NEW o, NEW x
    PROVE  x \in Write(m, o) <=> (x \in m /\ (x.hi <= o.lo \/ o.hi <= x.lo)) \/ x = o
BY DEF Write

\* The invariant about addresses: where the next string goes, and how many
\* pointers have been kept.
Pointers ==
    /\ StackTop - ARG_BLOCK <= p_argv /\ p_argv < StackTop
    /\ Len(argv_ptrs) <= argc
    /\ at = "strings" => Len(argv_ptrs) = i - 1
    /\ at \in {"pointers", "done", "abort"} => Len(argv_ptrs) = argc
    /\ at = "done" => argc > 0
    /\ \A k \in 1..Len(argv_ptrs) :
          StackTop - ARG_BLOCK <= argv_ptrs[k] /\ argv_ptrs[k] + CopySize(k) <= p_argv
    /\ IF Len(argv_ptrs) = 0 THEN p_argv = StackTop - ARG_BLOCK
                             ELSE argv_ptrs[1] = StackTop - ARG_BLOCK

Kept == TypeOK /\ Pointers

LEMMA KeptStep == Kept /\ [Next]_vars => Kept'
<1> SUFFICES ASSUME Kept, [Next]_vars PROVE Kept'
  OBVIOUS
<1> USE DEF Kept
<1>0. /\ argv \in Seq(Nat) /\ argv_ptrs \in Seq(Nat) /\ i \in Nat /\ p_argv \in Nat
  BY ArgStackAssumption DEF TypeOK
<1>1. CASE CopyString
  <2>1. i \in 1..argc /\ CopySize(i) \in Nat /\ CopySize(i) > 0
    BY <1>0, <1>1, CopySizePositive DEF CopyString, TypeOK, argc
  <2>2. p_argv + CopySize(i) < StackTop
    BY <1>1 DEF CopyString, StringFits
  <2>3. argc' = argc /\ \A k : CopySize(k)' = CopySize(k)
    BY <1>1 DEF CopyString, argc, CopySize
  <2>4. StringAt(i, p_argv) \in Object
    BY <1>0, <2>1, ObjectsTyped
  <2>5. TypeOK'
    BY <1>0, <1>1, <2>1, <2>3, <2>4 DEF CopyString, TypeOK, Write, argc
  <2>6. /\ Len(argv_ptrs') = i /\ argv_ptrs'[i] = p_argv
        /\ \A k \in 1..(i - 1) : argv_ptrs'[k] = argv_ptrs[k]
    BY <1>0, <1>1, <2>1 DEF CopyString, Pointers
  <2>7. \A k \in 1..i : /\ StackTop - ARG_BLOCK <= argv_ptrs'[k]
                         /\ argv_ptrs'[k] + CopySize(k) <= p_argv + CopySize(i)
    <3> TAKE k \in 1..i
    <3>1. k \in 1..argc /\ CopySize(k) \in Nat
      BY <1>0, <2>1, CopySizePositive DEF argc
    <3>2. CASE k = i
      BY <1>0, <2>1, <2>6, <3>1, <3>2 DEF Pointers
    <3>3. CASE k < i
      <4>1. k \in 1..Len(argv_ptrs) /\ argv_ptrs[k] \in Nat
        BY <1>0, <1>1, <2>1, <3>3 DEF CopyString, Pointers
      <4> QED
        BY <1>0, <2>1, <2>6, <3>1, <3>3, <4>1 DEF Pointers
    <3> QED
      BY <2>1, <3>2, <3>3
  <2>8. argv_ptrs'[1] = StackTop - ARG_BLOCK
    BY <1>0, <1>1, <2>1, <2>6 DEF CopyString, Pointers
  <2> QED
    BY <1>0, <1>1, <2>1, <2>2, <2>3, <2>5, <2>6, <2>7, <2>8 DEF CopyString, Pointers
<1>2. CASE CopyStringFails
  BY <1>0, <1>2 DEF CopyStringFails, TypeOK, Pointers, argc, CopySize
<1>3. CASE CopyStringBeyond
  <2>1. i \in 1..argc
    BY <1>0, <1>3 DEF CopyStringBeyond, TypeOK, argc
  <2>2. StringAt(i, p_argv) \in Object
    BY <1>0, <2>1, ObjectsTyped
  <2> QED
    BY <1>0, <1>3, <2>2 DEF CopyStringBeyond, TypeOK, Pointers, argc, CopySize, Write
<1>4. CASE WriteArgc
  <2>1. Len(argv_ptrs) = argc /\ argc \in Nat
    BY <1>0, <1>4 DEF WriteArgc, Pointers, TypeOK, argc
  <2>2. [lo |-> newsp, hi |-> newsp + Word, what |-> "argc", n |-> argc] \in Object
    BY ObjectsTyped
  <2> QED
    BY <1>0, <1>4, <2>1, <2>2 DEF WriteArgc, TypeOK, Pointers, argc, CopySize, Write
<1>5. CASE WritePointer
  <2>1. i \in 1..Len(argv_ptrs) /\ i \in 1..argc
    BY <1>0, <1>5 DEF WritePointer, Pointers, TypeOK, argc
  <2>2. PointerAt(i) \in Object
    BY <2>1, ObjectsTyped
  <2> QED
    BY <1>0, <1>5, <2>1, <2>2 DEF WritePointer, TypeOK, Pointers, argc, CopySize, Write
<1>6. CASE WriteEnds
  <2>1. Ends \in Object /\ Auxv \in Object
    BY ObjectsTyped
  <2>2. argc \in Nat
    BY <1>0 DEF argc
  <2> QED
    BY <1>0, <1>6, <2>1, <2>2 DEF WriteEnds, TypeOK, Pointers, argc, CopySize, Write
<1>7. CASE UNCHANGED vars
  BY <1>7 DEF vars, TypeOK, Pointers, argc, CopySize
<1> QED
  BY <1>1, <1>2, <1>3, <1>4, <1>5, <1>6, <1>7 DEF Next

\* A step leaves the argument vector and all that is computed from it alone.
LEMMA ArgvFixed ==
    ASSUME [Next]_vars
    PROVE  /\ argv' = argv /\ argc' = argc /\ (VectorsFit' <=> VectorsFit)
           /\ av' = av /\ Ends' = Ends /\ Auxv' = Auxv
           /\ \A k : CopySize(k)' = CopySize(k)
           /\ \A k, lo : StringAt(k, lo)' = StringAt(k, lo)
<1>1. argv' = argv
  BY DEF Next, vars, CopyString, CopyStringFails, CopyStringBeyond, WriteArgc, WritePointer, WriteEnds
<1> QED
  BY <1>1 DEF argc, VectorsFit, av, p_envp, Ends, Auxv, CopySize, StringAt

-----------------------------------------------------------------------------
(* With vectors that fit, nothing is written over. *)

ArgcObject == [lo |-> newsp, hi |-> newsp + Word, what |-> "argc", n |-> argc]

Survives ==
    VectorsFit =>
        /\ \A k \in 1..Len(argv_ptrs) : StringAt(k, argv_ptrs[k]) \in mem
        /\ \A o \in mem : newsp <= o.lo /\ o.hi <= StackTop
        /\ at \in {"pointers", "done"} =>
              ArgcObject \in mem /\ \A k \in 1..(i - 1) : PointerAt(k) \in mem
        /\ at = "done" => i = argc + 1 /\ Ends \in mem /\ Auxv \in mem

\* The string that is copied next lies above all that have been copied.
LEMMA StringsApart ==
    ASSUME Kept, NEW k \in 1..Len(argv_ptrs)
    PROVE  /\ argv_ptrs[k] \in Nat /\ StringAt(k, argv_ptrs[k]).hi <= p_argv
           /\ StackTop - ARG_BLOCK <= StringAt(k, argv_ptrs[k]).lo
           /\ StringAt(k, argv_ptrs[k]).lo < StringAt(k, argv_ptrs[k]).hi
<1>1. argv \in Seq(Nat) /\ argv_ptrs \in Seq(Nat)
  BY ArgStackAssumption DEF Kept, TypeOK
<1>2. k \in 1..argc
  BY <1>1 DEF Kept, Pointers, argc
<1>3. CopySize(k) \in Nat /\ CopySize(k) > 0
  BY <1>1, <1>2, CopySizePositive
<1>4. argv_ptrs[k] \in Nat
  BY <1>1
<1> QED
  BY <1>3, <1>4 DEF StringAt, Kept, Pointers

\* The words below the strings, if the vectors fit
LEMMA PointersApart ==
    ASSUME Kept, VectorsFit, NEW k \in 1..argc
    PROVE  /\ newsp + Word <= PointerAt(k).lo
           /\ PointerAt(k).lo < PointerAt(k).hi
           /\ PointerAt(k).hi <= Ends.lo
           /\ PointerAt(k).hi <= StackTop - ARG_BLOCK
           /\ \A j \in 1..(k - 1) : PointerAt(j).hi <= PointerAt(k).lo
<1>0. argv \in Seq(Nat)
  BY ArgStackAssumption DEF Kept, TypeOK
<1>1. argc \in Nat /\ k \in Nat /\ k - 1 \in Nat /\ k <= argc
  BY <1>0, Layout
<1>2. (k - 1) * Word \in Nat /\ k * Word = (k - 1) * Word + Word
  <2>1. (k - 1 + 1) * Word = (k - 1) * Word + Word /\ (k - 1) * Word \in Nat
    BY <1>1, Multiple
  <2>2. k - 1 + 1 = k
    BY <1>1
  <2> QED
    BY <2>1, <2>2
<1>3. k * Word <= argc * Word
  BY <1>1, MultiplesGrow
<1> DEFINE a == argc * Word
           b == k * Word
           c == (k - 1) * Word
           d == AuxCount * Word
<1>4. /\ Word \in Nat /\ Word > 0 /\ newsp \in Nat /\ ARG_BLOCK \in Nat
      /\ newsp + 2 * ARG_BLOCK = StackTop /\ StackTop \in Nat
      /\ p_argvp = newsp + Word /\ a \in Nat /\ d \in Nat
      /\ a + 3 * Word + 2 * d <= ARG_BLOCK
  BY <1>0, Layout
<1>5. c \in Nat /\ b = c + Word /\ b <= a
  BY <1>2, <1>3
<1>6. /\ PointerAt(k).lo = p_argvp + c /\ PointerAt(k).hi = p_argvp + b
      /\ Ends.lo = p_argvp + a
  BY DEF PointerAt, Ends
<1>7. ASSUME NEW j \in 1..(k - 1) PROVE PointerAt(j).hi <= PointerAt(k).lo
  <2>1. j * Word <= c /\ j * Word \in Nat
    BY <1>1, Multiple, MultiplesGrow
  <2>2. PointerAt(j).hi = p_argvp + j * Word
    BY DEF PointerAt
  <2> DEFINE e == j * Word
  <2>3. e <= c /\ e \in Nat /\ PointerAt(j).hi = p_argvp + e
    BY <2>1, <2>2
  <2> HIDE DEF a, b, c, d, e
  <2> QED
    BY <1>4, <1>5, <1>6, <2>3
<1> HIDE DEF a, b, c, d
<1>8. /\ newsp + Word <= PointerAt(k).lo
      /\ PointerAt(k).lo < PointerAt(k).hi
      /\ PointerAt(k).hi <= Ends.lo
      /\ PointerAt(k).hi <= StackTop - ARG_BLOCK
  BY <1>4, <1>5, <1>6
<1> QED
  BY <1>7, <1>8

LEMMA SurvivesStep == Kept /\ Survives /\ [Next]_vars => Survives'
<1> SUFFICES ASSUME Kept, Survives, [Next]_vars, VectorsFit
             PROVE  Survives'
  BY ArgvFixed DEF Survives
<1>0. /\ argv \in Seq(Nat) /\ argv_ptrs \in Seq(Nat) /\ i \in Nat /\ p_argv \in Nat
      /\ argc \in Nat
  BY ArgStackAssumption DEF Kept, TypeOK, argc
<1>1. /\ \A k \in 1..Len(argv_ptrs) : StringAt(k, argv_ptrs[k]) \in mem
      /\ \A o \in mem : newsp <= o.lo /\ o.hi <= StackTop
      /\ at \in {"pointers", "done"} =>
            ArgcObject \in mem /\ \A k \in 1..(i - 1) : PointerAt(k) \in mem
      /\ at = "done" => i = argc + 1 /\ Ends \in mem /\ Auxv \in mem
  BY DEF Survives
<1>2. /\ argc' = argc /\ Ends' = Ends /\ Auxv' = Auxv /\ newsp' = newsp
      /\ \A k, lo : StringAt(k, lo)' = StringAt(k, lo)
      /\ ArgcObject' = ArgcObject
  BY ArgvFixed DEF newsp, ArgcObject
<1>3. /\ newsp \in Nat /\ Word \in Nat /\ Word > 0 /\ ARG_BLOCK \in Nat /\ StackTop \in Nat
      /\ newsp + 2 * ARG_BLOCK = StackTop /\ newsp + Word <= StackTop - ARG_BLOCK
  <2>1. /\ newsp \in Nat /\ Word \in Nat /\ Word > 0 /\ ARG_BLOCK \in Nat /\ StackTop \in Nat
        /\ newsp + 2 * ARG_BLOCK = StackTop /\ Word < ARG_BLOCK
    BY <1>0, Layout
  <2> QED
    BY <2>1
<1>4. argv_ptrs' = argv_ptrs => \A k \in Nat : PointerAt(k)' = PointerAt(k)
  BY DEF PointerAt, p_argvp, newsp
<1>5. ASSUME CopyString \/ CopyStringBeyond
      PROVE  /\ \A o \in mem' : newsp <= o.lo /\ o.hi <= StackTop
             /\ StringAt(i, p_argv) \in mem'
             /\ \A k \in 1..Len(argv_ptrs) : StringAt(k, argv_ptrs[k]) \in mem'
  <2>1. i \in 1..argc /\ mem' = Write(mem, StringAt(i, p_argv)) /\ StringFits(i)
    BY <1>0, <1>5 DEF CopyString, CopyStringBeyond, Kept, TypeOK
  <2>2. CopySize(i) \in Nat
    BY <1>0, <2>1, CopySizePositive
  <2>3. /\ StringAt(i, p_argv).lo = p_argv /\ StringAt(i, p_argv).hi <= StackTop
        /\ newsp <= p_argv
    BY <1>0, <1>3, <2>1, <2>2 DEF StringAt, StringFits, Kept, Pointers
  <2>4. \A k \in 1..Len(argv_ptrs) : StringAt(k, argv_ptrs[k]).hi <= p_argv
    BY StringsApart
  <2> QED
    BY <1>1, <2>1, <2>3, <2>4 DEF Write
<1>6. CASE CopyString
  <2>1. /\ Len(argv_ptrs) = i - 1 /\ Len(argv_ptrs') = i /\ argv_ptrs'[i] = p_argv
        /\ \A k \in 1..(i - 1) : argv_ptrs'[k] = argv_ptrs[k]
        /\ at' = "strings" /\ i > 0
    BY <1>0, <1>6 DEF CopyString, Kept, TypeOK, Pointers
  <2>2. \A k \in 1..i : StringAt(k, argv_ptrs[k])' \in mem'
    <3> TAKE k \in 1..i
    <3>1. StringAt(k, argv_ptrs[k])' = StringAt(k, argv_ptrs'[k])
      BY ArgvFixed DEF StringAt
    <3>2. k = i \/ k \in 1..(i - 1)
      BY <1>0
    <3> QED
      BY <1>5, <1>6, <2>1, <3>1, <3>2
  <2> QED
    BY <1>2, <1>5, <1>6, <2>1, <2>2 DEF Survives
<1>7. CASE CopyStringFails
  BY <1>1, <1>2, <1>7 DEF CopyStringFails, Survives
<1>8. CASE CopyStringBeyond
  <2>1. at' = "undefined" /\ argv_ptrs' = argv_ptrs
    BY <1>8 DEF CopyStringBeyond
  <2> QED
    BY <1>2, <1>5, <1>8, <2>1 DEF Survives
<1>9. CASE WriteArgc
  <2>1. mem' = Write(mem, ArgcObject) /\ at' = "pointers" /\ i' = 1 /\ argv_ptrs' = argv_ptrs
    BY <1>9 DEF WriteArgc, ArgcObject
  <2>2. ArgcObject.lo = newsp /\ ArgcObject.hi = newsp + Word
    BY DEF ArgcObject
  <2>3. \A k \in 1..Len(argv_ptrs) : StringAt(k, argv_ptrs[k]) \in mem'
    <3> TAKE k \in 1..Len(argv_ptrs)
    <3>1. StringAt(k, argv_ptrs[k]).lo \in Nat /\ StackTop - ARG_BLOCK <= StringAt(k, argv_ptrs[k]).lo
      BY StringsApart DEF StringAt
    <3> QED
      BY <1>1, <1>3, <2>1, <2>2, <3>1 DEF Write
  <2>4. \A o \in mem' : newsp <= o.lo /\ o.hi <= StackTop
    BY <1>1, <1>3, <2>1, <2>2 DEF Write
  <2>5. ArgcObject \in mem' /\ 1..(i' - 1) = {}
    BY <2>1 DEF Write
  <2> QED
    BY <1>2, <2>1, <2>3, <2>4, <2>5 DEF Survives
<1>10. CASE WritePointer
  <2>1. /\ at = "pointers" /\ at' = "pointers" /\ i \in 1..argc /\ i' = i + 1
        /\ argv_ptrs' = argv_ptrs /\ mem' = Write(mem, PointerAt(i))
    BY <1>0, <1>10 DEF WritePointer, Kept, TypeOK
  <2>2. /\ newsp + Word <= PointerAt(i).lo /\ PointerAt(i).hi <= StackTop - ARG_BLOCK
        /\ PointerAt(i).lo \in Int /\ PointerAt(i).hi \in Int
        /\ \A j \in 1..(i - 1) : PointerAt(j).hi <= PointerAt(i).lo
    <3>1. PointerAt(i) \in Object
      BY <1>0, <2>1, ObjectsTyped DEF Kept, Pointers
    <3> QED
      BY <2>1, <3>1, PointersApart DEF Object
  <2>3. \A k \in 1..Len(argv_ptrs) : StringAt(k, argv_ptrs[k]) \in mem'
    <3> TAKE k \in 1..Len(argv_ptrs)
    <3>1. StringAt(k, argv_ptrs[k]).lo \in Nat /\ StackTop - ARG_BLOCK <= StringAt(k, argv_ptrs[k]).lo
      BY StringsApart DEF StringAt
    <3> QED
      BY <1>1, <1>3, <2>1, <2>2, <3>1 DEF Write
  <2>4. \A o \in mem' : newsp <= o.lo /\ o.hi <= StackTop
    BY <1>1, <1>3, <2>1, <2>2 DEF Write
  <2>5. ArgcObject \in mem'
    BY <1>1, <2>1, <2>2 DEF Write, ArgcObject
  <2>6. \A k \in 1..(i' - 1) : PointerAt(k) \in mem'
    BY <1>0, <1>1, <2>1, <2>2 DEF Write
  <2>7. \A k \in 1..(i' - 1) : PointerAt(k)' \in mem'
    BY <1>0, <1>4, <2>1, <2>6
  <2> QED
    BY <1>2, <2>1, <2>3, <2>4, <2>5, <2>7 DEF Survives
<1>11. CASE WriteEnds
  <2>0. /\ at = "pointers" /\ i = argc + 1 /\ i' = i /\ argv_ptrs' = argv_ptrs
        /\ at' \in {"abort", "done"}
        /\ mem' = IF argc = 0 THEN Write(mem, Ends) ELSE Write(Write(mem, Ends), Auxv)
        /\ at' = "done" <=> argc # 0
    BY <1>0, <1>11 DEF WriteEnds, Kept, TypeOK, argc
  <2>1. /\ Ends.lo \in Int /\ Ends.hi \in Int /\ Auxv.lo \in Int /\ Auxv.hi \in Int
        /\ newsp + Word <= Ends.lo /\ Ends.lo < Ends.hi /\ Ends.hi = Auxv.lo
        /\ Auxv.lo <= Auxv.hi /\ Auxv.hi <= StackTop - ARG_BLOCK
    <3> DEFINE a == argc * Word
               d == AuxCount * Word
    <3>1. /\ p_argvp = newsp + Word /\ a \in Nat /\ d \in Nat
          /\ a + 3 * Word + 2 * d <= ARG_BLOCK
          /\ av = newsp + a + 3 * Word /\ Auxv.hi = av + 2 * d
      BY <1>0, Layout
    <3>2. Ends.lo = p_argvp + a /\ Ends.hi = av /\ Auxv.lo = av
      BY DEF Ends, Auxv
    <3> HIDE DEF a, d
    <3> QED
      BY <1>3, <3>1, <3>2
  <2>2. ASSUME NEW x \in mem, x.lo \in Int, x.hi \in Int,
               x.hi <= Ends.lo \/ StackTop - ARG_BLOCK <= x.lo
        PROVE  x \in mem'
    BY <1>3, <2>0, <2>1, <2>2 DEF Write
  <2>3. \A k \in 1..Len(argv_ptrs) : StringAt(k, argv_ptrs[k]) \in mem'
    <3> TAKE k \in 1..Len(argv_ptrs)
    <3>1. /\ StringAt(k, argv_ptrs[k]) \in mem /\ StringAt(k, argv_ptrs[k]) \in Object
          /\ StackTop - ARG_BLOCK <= StringAt(k, argv_ptrs[k]).lo
      BY <1>1, StringsApart DEF Kept, TypeOK
    <3> QED
      BY <2>2, <3>1 DEF Object
  <2>4. \A o \in mem' : newsp <= o.lo /\ o.hi <= StackTop
    BY <1>1, <1>3, <2>0, <2>1 DEF Write
  <2>5. ArgcObject \in mem'
    <3>1. ArgcObject \in mem /\ ArgcObject.lo = newsp /\ ArgcObject.hi = newsp + Word
      BY <1>1, <2>0 DEF ArgcObject
    <3> QED
      BY <1>3, <2>1, <2>2, <3>1
  <2>6. \A k \in 1..(i' - 1) : PointerAt(k)' \in mem'
    <3> TAKE k \in 1..(i' - 1)
    <3>1. k \in 1..argc /\ PointerAt(k) \in mem /\ PointerAt(k) \in Object
      BY <1>0, <1>1, <2>0 DEF Kept, TypeOK
    <3>2. PointerAt(k).hi <= Ends.lo
      BY <3>1, PointersApart
    <3>3. PointerAt(k) \in mem'
      BY <2>2, <3>1, <3>2 DEF Object
    <3>4. PointerAt(k)' = PointerAt(k)
      BY <1>0, <1>4, <2>0
    <3> QED
      BY <3>3, <3>4
  <2>7. at' = "done" => Ends \in mem' /\ Auxv \in mem'
    BY <2>0, <2>1 DEF Write
  <2> QED
    BY <1>2, <2>0, <2>3, <2>4, <2>5, <2>6, <2>7 DEF Survives
<1>12. CASE UNCHANGED vars
  <2>1. at' = at /\ i' = i /\ argv_ptrs' = argv_ptrs /\ mem' = mem
    BY <1>12 DEF vars
  <2>2. \A k \in 1..(i' - 1) : PointerAt(k)' = PointerAt(k)
    BY <1>0, <1>4, <2>1
  <2> QED
    BY <1>1, <1>2, <2>1, <2>2 DEF Survives
<1> QED
  BY <1>6, <1>7, <1>8, <1>9, <1>10, <1>11, <1>12 DEF Next

-----------------------------------------------------------------------------
(* With vectors that do not fit, the first string is written over. *)

First(s) == s.what = "string" /\ s.n = 1

\* A first string that is still there lies above all that has been written
\* of the vectors.
FirstAbove ==
    /\ \A s \in mem : First(s) /\ at # "undefined" =>
          s.lo = StackTop - ARG_BLOCK /\ s.lo < s.hi
    /\ at = "pointers" => \A s \in mem :
          First(s) => p_argvp + (i - 1) * Word <= StackTop - ARG_BLOCK
    /\ at = "done" => \A s \in mem : First(s) => Auxv.hi <= StackTop - ARG_BLOCK

LEMMA FirstAboveStep == Kept /\ FirstAbove /\ [Next]_vars => FirstAbove'
<1> SUFFICES ASSUME Kept, FirstAbove, [Next]_vars PROVE FirstAbove'
  OBVIOUS
<1>0. /\ argv \in Seq(Nat) /\ argv_ptrs \in Seq(Nat) /\ i \in Nat /\ p_argv \in Nat
      /\ argc \in Nat /\ mem \subseteq Object
  BY ArgStackAssumption DEF Kept, TypeOK, argc
<1>1. /\ \A s \in mem : First(s) /\ at # "undefined" =>
            s.lo = StackTop - ARG_BLOCK /\ s.lo < s.hi
      /\ at = "pointers" => \A s \in mem :
            First(s) => p_argvp + (i - 1) * Word <= StackTop - ARG_BLOCK
      /\ at = "done" => \A s \in mem : First(s) => Auxv.hi <= StackTop - ARG_BLOCK
  BY DEF FirstAbove
<1>2. /\ newsp \in Nat /\ Word \in Nat /\ Word > 0 /\ ARG_BLOCK \in Nat /\ StackTop \in Nat
      /\ newsp + 2 * ARG_BLOCK = StackTop /\ Word < ARG_BLOCK /\ p_argvp = newsp + Word
  BY <1>0, Layout
<1>3. Auxv' = Auxv /\ p_argvp' = p_argvp
  BY ArgvFixed DEF p_argvp, newsp
<1>4. CASE CopyString
  <2>1. i \in 1..argc /\ mem' = Write(mem, StringAt(i, p_argv)) /\ at = "strings" /\ at' = at
    BY <1>0, <1>4 DEF CopyString, Kept, TypeOK
  <2>2. CopySize(i) \in Nat /\ CopySize(i) > 0
    BY <1>0, <2>1, CopySizePositive
  <2>3. i = 1 => p_argv = StackTop - ARG_BLOCK
    BY <1>0, <2>1 DEF Kept, Pointers
  <2>4. StringAt(i, p_argv).n = i /\ StringAt(i, p_argv).lo = p_argv
        /\ StringAt(i, p_argv).hi = p_argv + CopySize(i)
    BY DEF StringAt
  <2>5. \A s \in mem' : First(s) => s.lo = StackTop - ARG_BLOCK /\ s.lo < s.hi
    <3> TAKE s \in mem'
    <3>1. CASE s \in mem
      BY <1>1, <2>1, <3>1
    <3>2. CASE s = StringAt(i, p_argv)
      BY <1>0, <1>2, <2>1, <2>2, <2>3, <2>4, <3>2 DEF First
    <3> QED
      BY <2>1, <3>1, <3>2 DEF Write
  <2> QED
    BY <2>1, <2>5 DEF FirstAbove, First
<1>5. CASE CopyStringFails \/ CopyStringBeyond
  BY <1>1, <1>5 DEF CopyStringFails, CopyStringBeyond, FirstAbove, First
<1>6. CASE WriteArgc
  <2>1. /\ at = "strings" /\ at' = "pointers" /\ i' = 1
        /\ \A s \in mem' : First(s) => s \in mem
    BY <1>6 DEF WriteArgc, Write, First
  <2>2. p_argvp + (i' - 1) * Word <= StackTop - ARG_BLOCK
    BY <1>2, <2>1
  <2> QED
    BY <1>1, <1>3, <2>1, <2>2 DEF FirstAbove, First
<1>7. CASE WritePointer
  <2>1. /\ at = "pointers" /\ at' = at /\ i' = i + 1 /\ i > 0
        /\ mem' = Write(mem, PointerAt(i))
    BY <1>0, <1>7 DEF WritePointer, Kept, TypeOK
  <2> DEFINE c == (i - 1) * Word
             b == i * Word
  <2>2. c \in Nat /\ b = c + Word
    <3>1. i - 1 \in Nat /\ i - 1 + 1 = i
      BY <1>0, <2>1
    <3>2. (i - 1 + 1) * Word = (i - 1) * Word + Word /\ (i - 1) * Word \in Nat
      BY <3>1, Multiple
    <3> QED
      BY <3>1, <3>2
  <2>3. PointerAt(i).lo = p_argvp + c /\ PointerAt(i).hi = p_argvp + b /\ ~First(PointerAt(i))
    BY DEF PointerAt, First
  <2>4. i' - 1 = i
    BY <1>0, <2>1
  <2>5. ASSUME NEW s \in mem', First(s)
        PROVE  /\ s.lo = StackTop - ARG_BLOCK /\ s.lo < s.hi
               /\ p_argvp + b <= StackTop - ARG_BLOCK
    <3>1. s \in mem /\ (s.hi <= PointerAt(i).lo \/ PointerAt(i).hi <= s.lo)
      BY <2>1, <2>3, <2>5 DEF Write
    <3>2. s.lo = StackTop - ARG_BLOCK /\ s.lo < s.hi /\ s.hi \in Int /\ s.lo \in Int
      BY <1>0, <1>1, <2>1, <2>5, <3>1 DEF Object
    <3>3. p_argvp + c <= StackTop - ARG_BLOCK
      BY <1>1, <2>1, <2>5, <3>1
    <3> HIDE DEF b, c
    <3> QED
      BY <1>2, <2>2, <2>3, <3>1, <3>2, <3>3
  <2> QED
    BY <1>3, <2>1, <2>4, <2>5 DEF FirstAbove, First
<1>8. CASE WriteEnds
  <2>1. /\ at = "pointers" /\ i = argc + 1 /\ at' \in {"abort", "done"}
        /\ mem' = IF argc = 0 THEN Write(mem, Ends) ELSE Write(Write(mem, Ends), Auxv)
        /\ at' = "done" <=> argc # 0
    BY <1>0, <1>8 DEF WriteEnds, Kept, TypeOK, argc
  <2>2. ~First(Ends) /\ ~First(Auxv) /\ i - 1 = argc
    BY <1>0, <2>1 DEF Ends, Auxv, First
  <2>3. ASSUME NEW s \in mem', First(s)
        PROVE  s \in mem /\ s.lo = StackTop - ARG_BLOCK /\ s.lo < s.hi
    <3>1. s \in mem
      BY <2>1, <2>2, <2>3 DEF Write
    <3> QED
      BY <1>1, <2>1, <2>3, <3>1
  <2>4. ASSUME at' = "done", NEW s \in mem', First(s)
        PROVE  Auxv.hi <= StackTop - ARG_BLOCK
    <3> DEFINE a == argc * Word
               d == AuxCount * Word
    <3>1. /\ a \in Nat /\ d \in Nat
          /\ av = newsp + a + 3 * Word /\ Auxv.hi = av + 2 * d
      BY <1>0, Layout
    <3>2. Ends.lo = p_argvp + a /\ Ends.hi = av /\ Auxv.lo = av
      BY DEF Ends, Auxv
    <3>3. /\ s.hi <= Ends.lo \/ Ends.hi <= s.lo
          /\ s.hi <= Auxv.lo \/ Auxv.hi <= s.lo
      BY <2>1, <2>2, <2>4 DEF Write
    <3>4. s.lo = StackTop - ARG_BLOCK /\ s.lo < s.hi /\ s.hi \in Int /\ s.lo \in Int
      BY <1>0, <2>3, <2>4 DEF Object
    <3>5. p_argvp + a <= StackTop - ARG_BLOCK
      BY <1>1, <2>1, <2>2, <2>3, <2>4
    <3> HIDE DEF a, d
    <3> QED
      BY <1>2, <3>1, <3>2, <3>3, <3>4, <3>5
  <2> QED
    BY <1>3, <2>1, <2>3, <2>4 DEF FirstAbove, First
<1>9. CASE UNCHANGED vars
  BY <1>1, <1>3, <1>9 DEF vars, FirstAbove, First
<1> QED
  BY <1>4, <1>5, <1>6, <1>7, <1>8, <1>9 DEF Next

-----------------------------------------------------------------------------
(* The theorems *)

Inv == Kept /\ Survives /\ FirstAbove

LEMMA InvHolds == Spec => []Inv
<1>1. Init => Inv
  <2> SUFFICES ASSUME Init PROVE Inv
    OBVIOUS
  <2>1. argv \in Seq(Nat) /\ StackTop \in Nat /\ ARG_BLOCK \in Nat /\ 2 * ARG_BLOCK < StackTop
        /\ ARG_BLOCK > 0
    BY ArgStackAssumption DEF Init
  <2>2. Len(argv_ptrs) = 0 /\ argv_ptrs \in Seq(Nat) /\ Len(argv) \in Nat
    BY <2>1 DEF Init
  <2> QED
    BY <2>1, <2>2 DEF Init, Inv, Kept, TypeOK, Pointers, Survives, FirstAbove, argc
<1>2. Inv /\ [Next]_vars => Inv'
  BY KeptStep, SurvivesStep, FirstAboveStep DEF Inv
<1> QED
  BY <1>1, <1>2, PTL DEF Spec

(***************************************************************************)
(* stacksetup keeps its variables well typed, for every argument vector.   *)
(***************************************************************************)
THEOREM TypeCorrect == Spec => []TypeOK
<1>1. Inv => TypeOK
  BY DEF Inv, Kept
<1> QED
  BY <1>1, InvHolds, PTL

(***************************************************************************)
(* What stacksetup writes stays in the two blocks at the top of the stack, *)
(* for every vector of arguments whose pointers fit in one block.          *)
(***************************************************************************)
THEOREM WritesConfined == Spec => []WritesInBlocks
<1>1. Inv => WritesInBlocks
  BY DEF Inv, Survives, WritesInBlocks, newsp
<1> QED
  BY <1>1, InvHolds, PTL

(***************************************************************************)
(* A started process finds argc, its pointers, its strings, the NULLs and  *)
(* the auxiliary vector intact exactly when the vectors fit in ARG_BLOCK.  *)
(***************************************************************************)
THEOREM ArgumentsSurvive == Spec => []GuestSeesArguments
<1>1. ASSUME Inv, at = "done" PROVE VectorsFit <=> ArgumentsIntact
  <2>0. /\ argv \in Seq(Nat) /\ argv_ptrs \in Seq(Nat) /\ argc \in Nat /\ argc > 0
        /\ Len(argv_ptrs) = argc /\ mem \subseteq Object
    BY <1>1, ArgStackAssumption DEF Inv, Kept, TypeOK, Pointers, argc
  <2>1. ASSUME VectorsFit PROVE ArgumentsIntact
    <3>1. /\ ArgcObject \in mem /\ Ends \in mem /\ Auxv \in mem
          /\ \A k \in 1..argc : PointerAt(k) \in mem /\ StringAt(k, argv_ptrs[k]) \in mem
      BY <1>1, <2>0, <2>1 DEF Inv, Survives
    <3>2. ASSUME NEW k \in 1..argc
          PROVE  \E o, s \in mem :
                    /\ o.what = "argv" /\ o.lo = newsp + k * Word
                    /\ s.what = "string" /\ s.n = k /\ s.lo = o.n
                    /\ s.hi - s.lo = (IF argv[k] < ARGV_MAX THEN argv[k] ELSE ARGV_MAX) + 1
      <4>1. PointerAt(k).lo = newsp + k * Word
        <5>1. k - 1 \in Nat /\ k - 1 + 1 = k
          BY <2>0
        <5>2. (k - 1 + 1) * Word = (k - 1) * Word + Word /\ (k - 1) * Word \in Nat
          BY <5>1, Multiple
        <5> DEFINE b == k * Word
                   c == (k - 1) * Word
        <5>3. b = c + Word /\ c \in Nat /\ PointerAt(k).lo = p_argvp + c
          BY <5>1, <5>2 DEF PointerAt
        <5>4. newsp \in Nat /\ Word \in Nat /\ p_argvp = newsp + Word
          BY <2>0, Layout
        <5> HIDE DEF b, c
        <5>5. PointerAt(k).lo = newsp + b
          BY <5>3, <5>4
        <5> QED
          BY <5>5 DEF b
      <4>2. PointerAt(k).what = "argv" /\ PointerAt(k).n = argv_ptrs[k]
        BY DEF PointerAt
      <4>3. argv[k] \in Nat /\ ARGV_MAX \in Nat /\ argv_ptrs[k] \in Nat
        <5>1. ARGV_MAX \in Nat
          BY ArgStackAssumption
        <5>2. k \in 1..Len(argv) /\ k \in 1..Len(argv_ptrs)
          BY <2>0 DEF argc
        <5> QED
          BY <2>0, <5>1, <5>2
      <4>4. CopySize(k) = (IF argv[k] < ARGV_MAX THEN argv[k] ELSE ARGV_MAX) + 1
            /\ CopySize(k) \in Nat
        BY <4>3 DEF CopySize
      <4> DEFINE s == StringAt(k, argv_ptrs[k])
      <4>5. /\ s.what = "string" /\ s.n = k /\ s.lo = argv_ptrs[k]
            /\ s.hi - s.lo = CopySize(k)
        BY <4>3, <4>4 DEF StringAt
      <4>6. PointerAt(k) \in mem /\ s \in mem
        BY <3>1
      <4> HIDE DEF s
      <4> QED
        BY <4>1, <4>2, <4>4, <4>5, <4>6
    <3>3. Ends.what = "end" /\ Auxv.what = "auxv" /\ Ends.hi = Auxv.lo
      BY DEF Ends, Auxv
    <3> QED
      BY <3>1, <3>2, <3>3 DEF ArgumentsIntact, ArgcObject
  <2>2. ASSUME ArgumentsIntact PROVE VectorsFit
    <3>1. \E s \in mem : First(s)
      BY <2>0, <2>2 DEF ArgumentsIntact, First
    <3>2. Auxv.hi <= StackTop - ARG_BLOCK
      BY <1>1, <3>1 DEF Inv, FirstAbove
    <3> DEFINE a == argc * Word
               d == AuxCount * Word
    <3>3. /\ a \in Nat /\ d \in Nat /\ Word \in Nat /\ ARG_BLOCK \in Nat /\ newsp \in Nat
          /\ newsp + 2 * ARG_BLOCK = StackTop
          /\ av = newsp + a + 3 * Word /\ Auxv.hi = av + 2 * d
          /\ VectorsFit <=> a + 3 * Word + 2 * d <= ARG_BLOCK
      BY <2>0, Layout
    <3> HIDE DEF a, d
    <3> QED
      BY <3>2, <3>3
  <2> QED
    BY <2>1, <2>2
<1>2. Inv => GuestSeesArguments
  BY <1>1 DEF GuestSeesArguments
<1> QED
  BY <1>2, InvHolds, PTL
=============================================================================
