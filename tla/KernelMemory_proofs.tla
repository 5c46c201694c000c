------------------------- MODULE KernelMemory_proofs -------------------------
(***************************************************************************)
(* Proofs that vmm.c and pmm.c keep what each takes for granted of the     *)
(* other, and what the two promise together.  P is the instance of Pmm in  *)
(* KernelMemory, PP the same instance with the theorems about it.          *)
(***************************************************************************)
EXTENDS KernelMemory, Vmm_proofs

PP == INSTANCE Pmm_proofs WITH result <- answer

LEMMA PmmHolds == PP!PmmAssumption
BY KernelMemoryAssumption
   DEF P!PmmAssumption, PP!PmmAssumption, P!MAX_FRAMES, PP!MAX_FRAMES, P!Entry, PP!Entry,
       P!Scanned, PP!Scanned, P!Bits, PP!Bits

-----------------------------------------------------------------------------
(* Both instances of Pmm are the same.                                     *)
LEMMA SameSets ==
  P!Scanned = PP!Scanned /\ P!KernelFrames = PP!KernelFrames /\ P!Protected = PP!Protected
BY DEF P!MAX_FRAMES, PP!MAX_FRAMES, P!Scanned, PP!Scanned, P!Bits, PP!Bits,
       P!KernelFrames, PP!KernelFrames, P!align_down, PP!align_down, P!align_up, PP!align_up,
       P!Protected, PP!Protected

LEMMA SameMaps ==
  ASSUME NEW map
  PROVE  /\ P!UsedAfterMap(map) = PP!UsedAfterMap(map)
         /\ \A c : P!CeilingAfterMap(map, c) <=> PP!CeilingAfterMap(map, c)
         /\ {P!EndOf(e) : e \in map} = {PP!EndOf(e) : e \in map}
BY DEF P!UsedAfterMap, PP!UsedAfterMap, P!Filled, PP!Filled, P!Bits, PP!Bits,
       P!UsableFrames, PP!UsableFrames, P!CeilingAfterMap, PP!CeilingAfterMap,
       P!EndOf, PP!EndOf, P!MAX_FRAMES, PP!MAX_FRAMES,
       P!align_down, PP!align_down, P!align_up, PP!align_up

LEMMA SameNext == P!Next <=> PP!Next
<1>1. ASSUME NEW map PROVE P!pmm_init(map) <=> PP!pmm_init(map)
  BY SameSets, SameMaps DEF P!pmm_init, PP!pmm_init
<1>2. P!pmm_frame_alloc <=> PP!pmm_frame_alloc
  BY SameSets DEF P!pmm_frame_alloc, PP!pmm_frame_alloc, P!INVALID_FRAME, PP!INVALID_FRAME
<1>3. ASSUME NEW f PROVE P!pmm_frame_free(f) <=> PP!pmm_frame_free(f)
  BY DEF P!pmm_frame_free, PP!pmm_frame_free
<1> QED BY <1>1, <1>2, <1>3 DEF P!Next, PP!Next

LEMMA SameSpec == P!Spec <=> PP!Spec
<1>1. P!Init <=> PP!Init
  BY DEF P!Init, PP!Init, P!INVALID_FRAME, PP!INVALID_FRAME
<1>2. P!vars = PP!vars /\ (P!vars)' = (PP!vars)'
  BY DEF P!vars, PP!vars
<1>3. [P!Next]_(P!vars) <=> [PP!Next]_(PP!vars)
  BY <1>2, SameNext
<1> QED BY <1>1, <1>3, PTL DEF P!Spec, PP!Spec

-----------------------------------------------------------------------------
(* What pmm_init leaves is a machine as vmm.c takes for granted.           *)

\* The pages an address needs are as many as it reaches.
LEMMA PagesCover ==
  ASSUME NEW a \in Nat, NEW n \in Nat
  PROVE  /\ PagesOf(a) \in Nat
         /\ n * PageSize <= a => n <= PagesOf(a)
         /\ a <= n * PageSize => PagesOf(a) <= n
<1> DEFINE t == a + PageSize - 1
           q == t \div PageSize
           r == t % PageSize
<1>1. PageSize \in Nat \ {0}
  BY KernelMemoryAssumption DEF P!PmmAssumption
<1>2. q \in Nat /\ r \in 0 .. PageSize - 1 /\ t = PageSize * q + r
  BY <1>1
<1> HIDE DEF q, r
<1>3. n * PageSize <= a => n <= q
  <2>1. SUFFICES ASSUME n * PageSize <= a, q + 1 <= n PROVE FALSE
    BY <1>2
  <2>2. (q + 1) * PageSize <= n * PageSize
    BY <2>1, <1>1, <1>2, PmmHolds, PP!TimesGrows
  <2> QED BY <2>1, <2>2, <1>1, <1>2
<1>4. a <= n * PageSize => q <= n
  <2>1. SUFFICES ASSUME a <= n * PageSize, n + 1 <= q PROVE FALSE
    BY <1>2
  <2>2. (n + 1) * PageSize <= q * PageSize
    BY <2>1, <1>1, <1>2, PmmHolds, PP!TimesGrows
  <2> QED BY <2>1, <2>2, <1>1, <1>2
<1> QED BY <1>2, <1>3, <1>4 DEF q, PagesOf

\* The end of an entry.
LEMMA EntryEnds ==
  ASSUME NEW map \in Maps, NEW e \in map
  PROVE  /\ P!EndOf(e) \in Nat
         /\ e.type = 1 => P!EndOf(e) = e.base + e.length
<1>1. /\ e.base \in Nat /\ e.length \in Nat /\ AddrSpan \in Nat \ {0} /\ PageSize \in Nat \ {0}
      /\ e.type = 1 => e.base + e.length <= AddrSpan - PageSize
  BY KernelMemoryAssumption DEF P!PmmAssumption, P!Entry
<1>2. e.base + e.length \in Nat
  BY <1>1
<1>3. CASE e.type = 1
  <2>1. e.base + e.length < AddrSpan
    BY <1>1, <1>3
  <2> QED BY <1>1, <1>2, <2>1 DEF P!EndOf
<1>4. CASE e.type # 1
  BY <1>1, <1>2, <1>4 DEF P!EndOf
<1> QED BY <1>3, <1>4

\* What pmm_init makes of any map is as VmmAssumption asks: nothing reserved is left
\* to grant, and the memory among it lies below the ceiling, for which the direct map
\* has room.  Of VmmAssumption the proof uses the sizes of the tables only.
THEOREM MachinesFit ==
  ASSUME NEW map \in Maps, NEW behind \in Foreign, NEW c \in Ceilings(map)
  PROVE  LET m == MachineOf(map, behind, c)
         IN  /\ m \in Machine
             /\ m.pool \cap 0 .. RESERVED - 1 = {}
             /\ m.pool \cap m.ram \subseteq 0 .. m.ceiling - 1
<1> DEFINE m == MachineOf(map, behind, c)
<1>1. c \in Nat /\ \A e \in map : P!EndOf(e) <= c
  BY EntryEnds DEF Ceilings, P!CeilingAfterMap
<1>2. HhdmSpan \in Nat /\ c <= HhdmSpan * PageSize
  <2>1. HhdmSpan \in Nat /\ PageSize \in Nat
    BY Sizes, KernelMemoryAssumption DEF P!PmmAssumption
  <2>2. CASE c = 0
    <3>1. HhdmSpan * PageSize \in Nat
      BY <2>1
    <3> QED BY <2>1, <2>2, <3>1
  <2>3. CASE c # 0
    BY <2>1, <2>3, KernelMemoryAssumption DEF Ceilings
  <2> QED BY <2>2, <2>3
<1>3. m \in Machine
  <2>1. PagesOf(c) \in 0 .. HhdmSpan
    BY <1>1, <1>2, PagesCover
  <2>2. m.pool \subseteq Frames /\ m.ram \subseteq Frames
    BY KernelMemoryAssumption DEF MachineOf
  <2> QED BY <2>1, <2>2 DEF Machine, MachineOf
<1>4. m.pool \cap 0 .. RESERVED - 1 = {}
  BY DEF MachineOf, UsedAfterInit, P!UsedAfterMap
<1>5. ASSUME NEW f \in m.pool \cap m.ram PROVE f \in 0 .. m.ceiling - 1
  <2>1. f \in Nat /\ P!InRam(map, f)
    BY DEF MachineOf, P!Scanned
  <2>2. PICK e \in map : e.type = 1 /\ (f + 1) * PageSize <= e.base + e.length
    BY <2>1 DEF P!InRam
  <2>3. (f + 1) * PageSize <= c
    <3>1. (f + 1) * PageSize \in Nat
      BY <2>1, KernelMemoryAssumption DEF P!PmmAssumption
    <3>2. P!EndOf(e) \in Nat /\ P!EndOf(e) = e.base + e.length /\ P!EndOf(e) <= c
      BY <1>1, <2>2, EntryEnds
    <3> QED BY <1>1, <2>2, <3>1, <3>2
  <2>4. f + 1 <= PagesOf(c) /\ PagesOf(c) \in Nat
    BY <1>1, <2>1, <2>3, PagesCover
  <2> QED BY <2>1, <2>4 DEF MachineOf
<1> QED BY <1>3, <1>4, <1>5

-----------------------------------------------------------------------------
(* Every step of the kernel's memory is one of vmm.c, and the steps that   *)
(* do not call the allocator leave what it has handed out alone.           *)
LEMMA StepOfVmm == [KernelNext]_kernelVars => [Next]_vars
<1>1. CASE KernelStarts
  BY <1>1 DEF KernelStarts
<1>2. CASE Allocates
  BY <1>2 DEF Allocates, Next
<1>3. CASE UnmapPage
  BY <1>3 DEF Next
<1>4. CASE Quiet
  BY <1>4 DEF Quiet, Next
<1>5. CASE UNCHANGED kernelVars
  BY <1>5 DEF kernelVars
<1> QED BY <1>1, <1>2, <1>3, <1>4, <1>5 DEF KernelNext

LEMMA QuietOwns == Quiet => UNCHANGED owned
<1> SUFFICES ASSUME Quiet PROVE owned' = owned
  OBVIOUS
<1>1. CASE vmm_hhdm_create /\ ~NeedsPdpt
  BY <1>1 DEF vmm_hhdm_create, NeedsPdpt
<1>2. CASE WalkDown /\ ~NeedsTable
  BY <1>2 DEF WalkDown, NeedsTable
<1>3. CASE WalkFails /\ ~NeedsTable
  BY <1>3 DEF WalkFails, NeedsTable
<1>4. CASE HhdmEnds \/ vmm_kernel_map \/ vmm_pml4_load \/ WalkGoesWrong \/ MapPage
  BY <1>4 DEF HhdmEnds, vmm_kernel_map, vmm_pml4_load, WalkGoesWrong, MapPage
<1>5. CASE \E v \in Vas : vmm_page_free(v)
  BY <1>5 DEF vmm_page_free
<1> QED BY <1>1, <1>2, <1>3, <1>4, <1>5 DEF Quiet

LEMMA MachineStays == [Next]_vars => UNCHANGED <<pool, ram, ceiling>>
BY DEF Next, vars, machine, vmm_init, vmm_hhdm_create, HhdmEnds, vmm_kernel_map,
       vmm_pml4_load, vmm_page_alloc, vmm_page_free, WalkDown, WalkFails, WalkGoesWrong,
       MapPage, UnmapPage

\* The kernel's memory runs vmm.c as Vmm describes it, so all that was proved of Vmm
\* holds on the allocator pmm.c really is.
THEOREM KernelRunsVmm == KernelSpec => Spec
<1>1. KernelInit => Init
  BY DEF KernelInit
<1> QED BY <1>1, StepOfVmm, PTL DEF KernelSpec, Spec

-----------------------------------------------------------------------------
(* Both sides agree on what is free.                                       *)

\* The inductive invariant: the machine is what pmm_init makes of the map, from
\* before it has run.
MachineIsMaps ==
  /\ e820_map \in Maps /\ foreign \in Foreign
  /\ \E c \in Ceilings(e820_map) :
       [pool |-> pool, ram |-> ram, ceiling |-> ceiling] = MachineOf(e820_map, foreign, c)
KInv ==
  /\ MachineIsMaps /\ AllocatorsAgree
  /\ ~ready => owned = {} /\ g_phys_ceiling = 0

\* vmm.c gives back only frames it has been handed, or one pmm.c refuses.
GivesBackOwned == UnmapPage => Here.frame < RESERVED \/ Here.frame \in owned

LEMMA FreesTell ==
  [pc = "walk" /\ level = 4 /\ call = "free" /\ pc' = "out" =>
     Here.frame < RESERVED \/ Here.frame \in owned \ Tables]_vars => GivesBackOwned
BY DEF UnmapPage, vars, GivesBackOwned

LEMMA InitAgrees == KernelInit => KInv
BY DEF KernelInit, KInv, MachineIsMaps, AllocatorsAgree, P!Init, Init

\* The ceiling pmm_init finds is the only one there is.
LEMMA OneCeiling ==
  ASSUME NEW map \in Maps, NEW c \in Ceilings(map), NEW d \in Ceilings(map)
  PROVE  c = d
<1>1. c \in Nat /\ d \in Nat
  BY EntryEnds DEF Ceilings
<1>2. ASSUME NEW x \in Ceilings(map), NEW y \in Ceilings(map), x \in Nat, y \in Nat PROVE x <= y
  BY <1>2 DEF Ceilings, P!CeilingAfterMap
<1>3. c <= d /\ d <= c
  BY <1>1, <1>2
<1> QED BY <1>1, <1>3

LEMMA StartAgrees == KInv /\ KernelStarts => KInv'
<1> SUFFICES ASSUME KInv, KernelStarts PROVE KInv'
  OBVIOUS
<1>1. /\ P!pmm_init(e820_map) /\ e820_map' = e820_map /\ foreign' = foreign
      /\ pool' = pool /\ ram' = ram /\ ceiling' = ceiling /\ owned' = owned
  BY DEF KernelStarts, P!pmm_init, vars, machine
<1>2. MachineIsMaps'
  BY <1>1 DEF KInv, MachineIsMaps
<1>3. PICK c \in Ceilings(e820_map) :
        pool = P!Scanned \ UsedAfterInit(e820_map, foreign) /\ ceiling = PagesOf(c)
  BY DEF KInv, MachineIsMaps, MachineOf
<1>4. used' = UsedAfterInit(e820_map, foreign) /\ owned = {} /\ ready'
  BY <1>1 DEF P!pmm_init, UsedAfterInit, KInv
<1>5. g_phys_ceiling' = c
  <2>1. g_phys_ceiling' \in Ceilings(e820_map)
    BY <1>1 DEF P!pmm_init, Ceilings
  <2> QED BY <2>1, <1>3, OneCeiling DEF KInv, MachineIsMaps
<1>6. AllocatorsAgree'
  BY <1>1, <1>3, <1>4, <1>5 DEF AllocatorsAgree, PagesOf
<1> QED BY <1>1, <1>2, <1>4, <1>6 DEF KInv

\* What pmm_frame_alloc answers is what vmm.c counts with: the lowest frame of the
\* pool that is not handed out, or none when the pool is.  Neither side can refuse
\* what the other one does.
THEOREM PmmGrants ==
  ASSUME AllocatorsAgree, P!pmm_frame_alloc
  PROVE  \/ \E f \in Frames : Grant(f) /\ answer' = f
         \/ NoneLeft /\ answer' = None
<1>1. ready /\ P!Scanned \ used = pool \ owned /\ Frames = P!Scanned
  BY KernelMemoryAssumption DEF P!pmm_frame_alloc, AllocatorsAgree
<1>2. CASE \E f \in P!Scanned \ used :
             /\ \A g \in P!Scanned \ used : f <= g
             /\ owned' = owned \cup {f} /\ answer' = f
  BY <1>1, <1>2 DEF Grant
<1>3. CASE P!Scanned \subseteq used /\ answer' = P!INVALID_FRAME /\ UNCHANGED owned
  BY <1>1, <1>3 DEF NoneLeft, None, P!INVALID_FRAME
<1> QED BY <1>2, <1>3 DEF P!pmm_frame_alloc

LEMMA StepAgrees == KInv /\ TypeOK /\ GivesBackOwned /\ [KernelNext]_kernelVars => KInv'
<1> SUFFICES ASSUME KInv, TypeOK, GivesBackOwned, [KernelNext]_kernelVars PROVE KInv'
  OBVIOUS
<1> DEFINE Same == /\ e820_map' = e820_map /\ foreign' = foreign /\ ready' = ready
                   /\ g_phys_ceiling' = g_phys_ceiling
                   /\ pool' = pool /\ ram' = ram /\ ceiling' = ceiling
<1>1. CASE KernelStarts
  BY <1>1, StartAgrees
<1>2. ASSUME ready \/ owned' = owned, Same,
             ready => P!Scanned \ used' = pool \ owned'
      PROVE  KInv'
  <2>1. MachineIsMaps'
    BY <1>2 DEF KInv, MachineIsMaps
  <2>2. AllocatorsAgree'
    BY <1>2 DEF KInv, AllocatorsAgree, PagesOf
  <2> QED BY <1>2, <2>1, <2>2 DEF KInv
<1>3. pool' = pool /\ ram' = ram /\ ceiling' = ceiling
  BY StepOfVmm, MachineStays
<1>4. CASE ready /\ P!pmm_frame_alloc /\ UNCHANGED e820_map
  <2>1. Same
    BY <1>3, <1>4 DEF P!pmm_frame_alloc
  <2>2. \/ used' = used /\ owned' = owned
        \/ \E f : used' = used \cup {f} /\ owned' = owned \cup {f}
    BY <1>4 DEF P!pmm_frame_alloc
  <2>3. P!Scanned \ used' = pool \ owned'
    BY <1>4, <2>2 DEF KInv, AllocatorsAgree
  <2> QED BY <1>2, <1>4, <2>1, <2>3
<1>5. CASE ready /\ UnmapPage /\ P!pmm_frame_free(Here.frame) /\ UNCHANGED e820_map
  <2>1. Same
    BY <1>3, <1>5 DEF P!pmm_frame_free
  <2>2. \/ used' = used /\ owned' = owned
        \/ \E f \in owned : used' = used \ {f} /\ owned' = owned \ {f}
    BY <1>5 DEF P!pmm_frame_free, GivesBackOwned
  <2>3. owned \subseteq pool /\ pool \subseteq P!Scanned
    BY DEF TypeOK, KInv, MachineIsMaps, MachineOf
  <2>4. P!Scanned \ used' = pool \ owned'
    BY <1>5, <2>2, <2>3 DEF KInv, AllocatorsAgree
  <2> QED BY <1>2, <1>5, <2>1, <2>4
<1>6. CASE Quiet /\ UNCHANGED <<pmmState, e820_map>>
  BY <1>2, <1>3, <1>6, QuietOwns DEF pmmState, KInv, AllocatorsAgree
<1>7. CASE UNCHANGED kernelVars
  BY <1>2, <1>3, <1>7 DEF kernelVars, vars, pmmState, KInv, AllocatorsAgree
<1> QED BY <1>1, <1>4, <1>5, <1>6, <1>7 DEF KernelNext

\* The bits pmm.c keeps and the frames vmm.c counts as handed out never differ.
THEOREM Agreement == KernelSpec => []KInv
<1>1. KernelSpec => []TypeOK /\ FreesOnlyItsOwn
  BY KernelRunsVmm, Typing, FreesItsOwn, PTL
<1> QED BY <1>1, InitAgrees, StepAgrees, FreesTell, PTL DEF KernelSpec, FreesOnlyItsOwn

THEOREM AllocatorsDoAgree == KernelSpec => []AllocatorsAgree
BY Agreement, PTL DEF KInv

-----------------------------------------------------------------------------
(* What pmm.c takes for granted of its caller, and what follows.           *)
LEMMA StepOfPmm ==
  KInv /\ TypeOK /\ GivesBackOwned /\ [KernelNext]_kernelVars => [P!Next]_(P!vars)
<1> SUFFICES ASSUME KInv, GivesBackOwned, [KernelNext]_kernelVars PROVE [P!Next]_(P!vars)
  OBVIOUS
<1>1. CASE KernelStarts
  BY <1>1 DEF KernelStarts, P!Next, KInv, MachineIsMaps
<1>2. CASE P!pmm_frame_alloc
  BY <1>2 DEF P!Next
<1>3. CASE UnmapPage /\ P!pmm_frame_free(Here.frame)
  <2>1. CASE Here.frame < RESERVED
    BY <1>3, <2>1 DEF P!pmm_frame_free, P!vars
  <2>2. CASE Here.frame \in owned
    BY <1>3, <2>2 DEF P!Next
  <2> QED BY <1>3, <2>1, <2>2 DEF GivesBackOwned
<1>4. CASE Quiet /\ UNCHANGED <<pmmState, e820_map>>
  BY <1>4, QuietOwns DEF pmmState, P!vars
<1>5. CASE UNCHANGED kernelVars
  BY <1>5 DEF kernelVars, vars, pmmState, P!vars
<1> QED BY <1>1, <1>2, <1>3, <1>4, <1>5 DEF KernelNext

\* vmm.c frees only what it was granted and has not given back, or a frame pmm.c
\* refuses, and calls pmm_init once, first: pmm.c runs as Pmm describes it.
THEOREM KernelUsesPmm == KernelSpec => UsesPmmAsItAsks
<1>1. KernelInit => P!Init
  BY DEF KernelInit
<1>2. KernelSpec => []TypeOK /\ FreesOnlyItsOwn
  BY KernelRunsVmm, Typing, FreesItsOwn, PTL
<1> QED BY <1>1, <1>2, Agreement, FreesTell, StepOfPmm, PTL
        DEF KernelSpec, FreesOnlyItsOwn, UsesPmmAsItAsks, P!Spec

\* Under vmm.c, too, pmm.c is an allocator of frames.
THEOREM KernelHasAllocator == KernelSpec => PP!ImplementsFrameAllocator
BY KernelUsesPmm, SameSpec, PP!PmmImplementsFrameAllocator, PmmHolds DEF UsesPmmAsItAsks

\* No table of vmm.c and no page it hands to a caller lies in the kernel's image or in
\* the reserved frames, for every map and whatever is allocated and freed.
THEOREM TablesAvoid == KernelSpec => []TablesAvoidKernel
<1>1. PP!ProtectedStaysIn /\ TablesAreATree => TablesAvoidKernel
  BY SameSets DEF PP!ProtectedStaysIn, TablesAreATree, TablesAvoidKernel
<1>2. KernelSpec => []PP!ProtectedStaysIn
  BY KernelUsesPmm, SameSpec, PP!ProtectedIsKept, PmmHolds DEF UsesPmmAsItAsks
<1>3. KernelSpec => []TablesAreATree
  BY KernelRunsVmm, TreeOfTables
<1> QED BY <1>1, <1>2, <1>3, PTL

\* All that the run checks of vmm.c, on pmm.c and for every memory map.
THEOREM MemoryIsManaged ==
  KernelSpec => /\ [](TypeOK /\ TablesAreATree /\ WalksStayInTables /\ KernelStaysMapped)
                /\ OthersStayMapped /\ AllocMaps /\ LeaksOnlyInAlloc /\ FreesOnlyItsOwn
BY KernelRunsVmm, Typing, TreeOfTables, WalksAreSafe, KernelMapped, OthersStay,
   AllocMapsItsPage, LeaksInAllocOnly, FreesItsOwn, PTL
=============================================================================
