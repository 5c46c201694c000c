----------------------------- MODULE Pmm_proofs -----------------------------
(* Proofs about the physical frame allocator. *)
EXTENDS Pmm, TLAPS

\* The inductive invariant: what is handed out was free to hand out.
IInv ==
  /\ TypeOK /\ BitmapAccounted /\ CeilingCoversRam
  /\ owned \cap UsedAtStart = {}
  /\ ~ready => owned = {}

\* Products grow with a factor.
LEMMA TimesGrows ==
  ASSUME NEW a \in Nat, NEW b \in Nat, NEW c \in Nat, a <= b
  PROVE  a * c <= b * c
OBVIOUS

\* The page below an address, and the page above it.
LEMMA PageBelow ==
  ASSUME NEW a \in Nat
  PROVE  /\ align_down(a) \div PageSize = a \div PageSize
         /\ a \div PageSize \in Nat
         /\ \A f \in Nat : /\ f < a \div PageSize <=> (f + 1) * PageSize <= a
                           /\ f <= a \div PageSize <=> f * PageSize <= a
<1> DEFINE q == a \div PageSize
           r == a % PageSize
<1>1. q \in Nat /\ r \in 0 .. PageSize - 1 /\ a = PageSize * q + r
  BY PmmAssumption
<1>2. align_down(a) = PageSize * q
  BY <1>1, PmmAssumption DEF align_down
<1> HIDE DEF q, r
<1>3. (PageSize * q) \div PageSize = q
  BY <1>1, PmmAssumption
<1>4. ASSUME NEW f \in Nat
      PROVE  /\ f < q <=> (f + 1) * PageSize <= a
             /\ f <= q <=> f * PageSize <= a
  <2>1. CASE f < q
    <3>1. (f + 1) * PageSize <= q * PageSize
      BY <2>1, <1>1, TimesGrows, PmmAssumption
    <3> QED BY <2>1, <3>1, <1>1, PmmAssumption
  <2>2. CASE f = q
    BY <2>2, <1>1, PmmAssumption
  <2>3. CASE q + 1 <= f
    <3>1. (q + 1) * PageSize <= f * PageSize
      BY <2>3, <1>1, TimesGrows, PmmAssumption
    <3> QED BY <2>3, <3>1, <1>1, PmmAssumption
  <2> QED BY <2>1, <2>2, <2>3, <1>1
<1> QED BY <1>1, <1>2, <1>3, <1>4 DEF q

LEMMA PageAbove ==
  ASSUME NEW a \in Nat, a <= AddrSpan - PageSize
  PROVE  /\ align_up(a) \div PageSize \in Nat
         /\ \A f \in Nat : f < align_up(a) \div PageSize <=> f * PageSize < a
<1> DEFINE t == a + PageSize - 1
<1>1. t \in Nat /\ t < AddrSpan
  BY PmmAssumption
<1>2. t % AddrSpan = t
  BY <1>1, PmmAssumption
<1>3. align_up(a) = align_down(t)
  BY <1>2 DEF align_up, align_down
<1>4. ASSUME NEW f \in Nat PROVE (f + 1) * PageSize <= t <=> f * PageSize < a
  <2>1. f * PageSize \in Nat /\ (f + 1) * PageSize = f * PageSize + PageSize
    BY PmmAssumption
  <2> QED BY <2>1, PmmAssumption
<1> HIDE DEF t
<1> QED BY <1>1, <1>3, <1>4, PageBelow
\* The managed frames have a bit in the array, and the array is scanned.
LEMMA ArrayCovers ==
  /\ MAX_FRAMES \in Nat
  /\ 0 .. MAX_FRAMES - 1 \subseteq Bits
  /\ Bits \subseteq Scanned
  /\ 0 .. RESERVED - 1 \subseteq Bits
<1>1. BITMAP_BYTES * ByteBits \in Nat /\ BITMAP_BYTES * WordBits \in Nat
  BY PmmAssumption
<1>2. BITMAP_BYTES * ByteBits <= BITMAP_BYTES * WordBits
  <2>1. ByteBits * BITMAP_BYTES <= WordBits * BITMAP_BYTES
    BY TimesGrows, PmmAssumption
  <2> QED BY <2>1, PmmAssumption
<1>3. BITMAP_BYTES * WordBits <= (BITMAP_BYTES * ByteBits) * WordBits
  <2>1. BITMAP_BYTES <= BITMAP_BYTES * ByteBits
    <3>1. 1 * BITMAP_BYTES <= ByteBits * BITMAP_BYTES
      BY TimesGrows, PmmAssumption
    <3> QED BY <3>1, PmmAssumption
  <2> QED BY <1>1, <2>1, TimesGrows, PmmAssumption
<1>4. (BITMAP_BYTES * ByteBits) * WordBits \in Nat
  BY <1>1, PmmAssumption
<1> QED BY <1>1, <1>2, <1>3, <1>4, PmmAssumption DEF MAX_FRAMES, Bits, Scanned

\* The frames an entry clears are the frames that lie in it as a whole.
LEMMA UsableIsWhole ==
  ASSUME NEW map \in Maps, NEW e \in map, NEW f \in 0 .. MAX_FRAMES - 1
  PROVE  f \in UsableFrames(e) <=>
           e.type = 1 /\ e.base <= f * PageSize /\ (f + 1) * PageSize <= e.base + e.length
<1>1. CASE e.type # 1
  BY <1>1 DEF UsableFrames
<1>2. CASE e.type = 1
  <2>1. /\ e.base \in Nat /\ e.length \in Nat /\ e.base + e.length <= AddrSpan - PageSize
    BY <1>2, PmmAssumption DEF Entry
  <2>2. EndOf(e) = e.base + e.length
    <3>1. e.base + e.length \in Nat /\ e.base + e.length < AddrSpan
      BY <2>1, PmmAssumption
    <3> QED BY <3>1, PmmAssumption DEF EndOf
  <2>3. f \in Nat /\ f * PageSize \in Nat
    BY ArrayCovers, PmmAssumption
  <2>4. align_up(e.base) \div PageSize <= f <=> e.base <= f * PageSize
    <3>1. e.base <= AddrSpan - PageSize
      BY <2>1, PmmAssumption
    <3>2. /\ align_up(e.base) \div PageSize \in Nat
          /\ f < align_up(e.base) \div PageSize <=> f * PageSize < e.base
      BY <2>1, <2>3, <3>1, PageAbove
    <3> QED BY <2>1, <2>3, <3>2
  <2>5. f < align_down(EndOf(e)) \div PageSize <=> (f + 1) * PageSize <= e.base + e.length
    <3>1. e.base + e.length \in Nat
      BY <2>1
    <3> QED BY <2>2, <2>3, <3>1, PageBelow
  <2> QED BY <1>2, <2>4, <2>5 DEF UsableFrames
<1> QED BY <1>1, <1>2

\* The frames pmm_init sets for the kernel and the reserved memory are those
\* that hold a byte of it.
LEMMA ProtectedFrames == 0 .. RESERVED - 1 \cup KernelFrames = Protected
<1>1. KernelEnd <= AddrSpan - PageSize /\ KernelStart \in Nat /\ KernelEnd \in Nat
  <2>1. MAX_FRAMES * PageSize \in Nat
    BY ArrayCovers, PmmAssumption
  <2> QED BY <2>1, PmmAssumption
<1>2. ASSUME NEW f \in Nat
      PROVE  f \in KernelFrames <=> f * PageSize < KernelEnd /\ KernelStart < (f + 1) * PageSize
  <2>1. f * PageSize \in Nat /\ (f + 1) * PageSize \in Nat
    BY PmmAssumption
  <2>2. align_down(KernelStart) \div PageSize <= f <=> KernelStart < (f + 1) * PageSize
    <3>1. /\ align_down(KernelStart) \div PageSize \in Nat
          /\ f < align_down(KernelStart) \div PageSize <=> (f + 1) * PageSize <= KernelStart
      BY <1>1, PageBelow
    <3> QED BY <1>1, <2>1, <3>1
  <2>3. /\ align_up(KernelEnd) \div PageSize \in Nat
        /\ f < align_up(KernelEnd) \div PageSize <=> f * PageSize < KernelEnd
    BY <1>1, PageAbove
  <2>4. align_down(KernelStart) \div PageSize \in Nat
    BY <1>1, PageBelow
  <2> QED BY <2>2, <2>3, <2>4 DEF KernelFrames
<1>3. KernelFrames \subseteq Nat
  <2>1. align_down(KernelStart) \div PageSize \in Nat /\ align_up(KernelEnd) \div PageSize \in Nat
    BY <1>1, PageBelow, PageAbove
  <2> QED BY <2>1 DEF KernelFrames
<1>4. ASSUME NEW f \in KernelFrames PROVE f \in Scanned
  <2>1. f \in Nat /\ f * PageSize < MAX_FRAMES * PageSize
    <3>1. f \in Nat
      BY <1>3
    <3>2. f * PageSize < KernelEnd
      BY <3>1, <1>2
    <3>3. f * PageSize \in Nat /\ MAX_FRAMES * PageSize \in Nat
      BY <3>1, ArrayCovers, PmmAssumption
    <3> QED BY <3>1, <3>2, <3>3, PmmAssumption
  <2>2. f < MAX_FRAMES
    <3>1. SUFFICES ASSUME MAX_FRAMES <= f PROVE FALSE
      BY <2>1, ArrayCovers
    <3>2. MAX_FRAMES * PageSize <= f * PageSize
      BY <2>1, <3>1, TimesGrows, ArrayCovers, PmmAssumption
    <3>3. f * PageSize \in Nat /\ MAX_FRAMES * PageSize \in Nat
      BY <2>1, ArrayCovers, PmmAssumption
    <3> QED BY <2>1, <3>2, <3>3
  <2> QED BY <2>1, <2>2, ArrayCovers
<1>5. Scanned \subseteq Nat
  BY DEF Scanned
<1>6. ASSUME NEW f \in Nat PROVE f \in 0 .. RESERVED - 1 <=> f < RESERVED
  BY PmmAssumption
<1> QED BY <1>2, <1>3, <1>4, <1>5, <1>6, ArrayCovers DEF Protected

\* What pmm_init leaves at 1 is what UsedAtStart says without its arithmetic.
LEMMA InitMarks ==
  ASSUME NEW map \in Maps, pmm_init(map)
  PROVE  used' = UsedAtStart'
<1>1. e820' = map /\ foreign' = foreign
  BY DEF pmm_init
<1>2. ASSUME NEW f \in Bits
      PROVE  f \in UNION {UsableFrames(e) : e \in map} <=> f < MAX_FRAMES /\ WholeInRam(f)'
  <2>1. f \in Nat
    BY DEF Bits
  <2>2. CASE f < MAX_FRAMES
    <3>1. f \in 0 .. MAX_FRAMES - 1
      BY <2>1, <2>2, ArrayCovers
    <3> QED BY <1>1, <2>2, <3>1, UsableIsWhole DEF WholeInRam, InRam
  <2>3. CASE ~(f < MAX_FRAMES)
    BY <2>1, <2>3, ArrayCovers DEF UsableFrames
  <2> QED BY <2>2, <2>3
<1>3. used' = foreign \cup (Filled \ UNION {UsableFrames(e) : e \in map}) \cup Protected
  BY ProtectedFrames DEF pmm_init, UsedAfterMap
<1>4. Filled \ UNION {UsableFrames(e) : e \in map}
        = {f \in Bits : f % WordBits < ByteBits /\ ~(f < MAX_FRAMES /\ WholeInRam(f)')}
  BY <1>2 DEF Filled
<1> QED BY <1>1, <1>3, <1>4 DEF UsedAtStart, WholeInRam
-----------------------------------------------------------------------------
LEMMA StartStays ==
  ASSUME e820' = e820, foreign' = foreign
  PROVE  UsedAtStart' = UsedAtStart /\ \A f : WholeInRam(f)' <=> WholeInRam(f)
BY DEF UsedAtStart, WholeInRam

LEMMA MarkedIsScanned == TypeOK => UsedAtStart \subseteq Scanned
BY PmmAssumption, ArrayCovers DEF TypeOK, UsedAtStart, Protected

\* The ceiling pmm_init computes is above every whole page of RAM.
LEMMA InitRaisesCeiling ==
  ASSUME NEW map \in Maps, pmm_init(map)
  PROVE  CeilingCoversRam' /\ g_phys_ceiling' \in 0 .. AddrSpan - 1
<1>1. \A e \in map : EndOf(e) \in 0 .. AddrSpan - 1
  <2>1. ASSUME NEW e \in map PROVE e.base + e.length \in Nat
    BY PmmAssumption DEF Entry
  <2> QED BY <2>1, PmmAssumption DEF EndOf
<1>2. g_phys_ceiling' \in 0 .. AddrSpan - 1
  BY <1>1, PmmAssumption DEF pmm_init
<1>3. ASSUME NEW f \in Scanned, WholeInRam(f)'
      PROVE  (f + 1) * PageSize <= g_phys_ceiling'
  <2>1. PICK e \in map : e.type = 1 /\ (f + 1) * PageSize <= e.base + e.length
    BY <1>3 DEF WholeInRam, InRam, pmm_init
  <2>2. EndOf(e) = e.base + e.length
    <3>1. /\ e.base + e.length \in Nat /\ e.base + e.length <= AddrSpan - PageSize
      BY <2>1, PmmAssumption DEF Entry
    <3> QED BY <3>1, PmmAssumption DEF EndOf
  <2>3. EndOf(e) <= g_phys_ceiling'
    BY DEF pmm_init, CeilingAfterMap
  <2>4. (f + 1) * PageSize \in Nat
    BY PmmAssumption DEF Scanned
  <2> QED BY <1>1, <1>2, <2>1, <2>2, <2>3, <2>4
<1> QED BY <1>2, <1>3 DEF CeilingCoversRam

LEMMA InitSatisfies == Init => IInv
<1> SUFFICES ASSUME Init PROVE IInv
  OBVIOUS
<1>1. foreign \subseteq Scanned
  BY PmmAssumption DEF Init
<1>2. g_phys_ceiling \in 0 .. AddrSpan - 1
  BY PmmAssumption DEF Init
<1>3. used \subseteq Scanned /\ owned = {} /\ ready = FALSE /\ result = INVALID_FRAME
    /\ turn = FALSE
  BY <1>1 DEF Init
<1>4. e820 \in Maps \cup {{}} /\ foreign \in Foreign
  BY DEF Init
<1>5. TypeOK
  BY <1>2, <1>3, <1>4 DEF TypeOK
<1> QED BY <1>3, <1>5 DEF IInv, BitmapAccounted, CeilingCoversRam

LEMMA StepPreserves == IInv /\ [Next]_vars => IInv'
<1> SUFFICES ASSUME IInv, [Next]_vars PROVE IInv'
  OBVIOUS
<1> USE DEF IInv, TypeOK, BitmapAccounted
<1>0. owned \subseteq Scanned /\ UsedAtStart \subseteq Scanned
  BY MarkedIsScanned
<1>1. ASSUME e820' = e820, foreign' = foreign, g_phys_ceiling' = g_phys_ceiling, ready' = ready
      PROVE  CeilingCoversRam' /\ UsedAtStart' = UsedAtStart
  BY <1>1, StartStays DEF CeilingCoversRam
<1>2. CASE UNCHANGED vars
  BY <1>1, <1>2 DEF vars
<1>3. ASSUME NEW map \in Maps, pmm_init(map) PROVE IInv'
  <2>1. used' = UsedAtStart' /\ owned' = {} /\ e820' = map /\ foreign' = foreign /\ ready' = TRUE
        /\ result' = result /\ turn' = turn
    BY <1>3, InitMarks DEF pmm_init
  <2>2. UsedAtStart' \subseteq Scanned
    <3>1. foreign' \subseteq Scanned
      BY <2>1, PmmAssumption
    <3> QED BY <3>1, ArrayCovers DEF UsedAtStart, Protected
  <2> QED BY <1>3, <2>1, <2>2, InitRaisesCeiling
<1>4. CASE pmm_frame_alloc
  <2>1. CeilingCoversRam' /\ UsedAtStart' = UsedAtStart
    BY <1>1, <1>4 DEF pmm_frame_alloc
  <2> QED BY <1>0, <1>4, <2>1 DEF pmm_frame_alloc
<1>5. ASSUME NEW f \in owned \cup {0}, pmm_frame_free(f) PROVE IInv'
  <2>1. CeilingCoversRam' /\ UsedAtStart' = UsedAtStart
    BY <1>1, <1>5 DEF pmm_frame_free
  <2>2. CASE f < RESERVED
    BY <1>5, <2>1, <2>2 DEF pmm_frame_free
  <2>3. CASE ~(f < RESERVED)
    <3>1. f \in owned
      BY <2>3, PmmAssumption
    <3> QED BY <1>5, <2>1, <2>3, <3>1 DEF pmm_frame_free
  <2> QED BY <2>2, <2>3
<1> QED BY <1>2, <1>3, <1>4, <1>5 DEF Next

\* IInv is inductive, and so holds in every reachable state.
THEOREM Invariance == Spec => []IInv
BY InitSatisfies, StepPreserves, PTL DEF Spec

\* Every variable stays in its set.
THEOREM TypeCorrect == Spec => []TypeOK
BY Invariance, PTL DEF IInv

\* The bitmap is what pmm_init left plus what is handed out, for every map,
\* memory size and kernel: pmm_init's arithmetic marks what it should.
THEOREM BitmapIsAccounted == Spec => []BitmapAccounted
BY Invariance, PTL DEF IInv

\* The kernel's frames and the reserved ones are never handed out.
THEOREM ProtectedIsKept == Spec => []ProtectedStaysIn
<1>1. IInv => ProtectedStaysIn
  BY DEF IInv, ProtectedStaysIn, UsedAtStart
<1> QED BY <1>1, Invariance, PTL

\* The RAM that is managed lies below the ceiling.
THEOREM CeilingIsHigh == Spec => []CeilingCoversRam
BY Invariance, PTL DEF IInv

\* The scan leaves the array only when every bit of it is taken.
THEOREM ScanStaysInBitmap == Spec => ScanLeavesBitmapLast
<1>1. IInv /\ [Next]_vars => (owned' \subseteq owned \cup Bits \/ Bits \subseteq used)
  <2> SUFFICES ASSUME IInv, [Next]_vars, ~(owned' \subseteq owned)
               PROVE  owned' \subseteq owned \cup Bits \/ Bits \subseteq used
    OBVIOUS
  <2>1. pmm_frame_alloc
    BY DEF Next, vars, pmm_init, pmm_frame_free
  <2>2. PICK f \in Scanned \ used : (\A g \in Scanned \ used : f <= g) /\ owned' = owned \cup {f}
    BY <2>1 DEF pmm_frame_alloc
  <2>3. CASE f \in Bits
    BY <2>2, <2>3
  <2>4. CASE f \notin Bits
    <3>1. ASSUME NEW g \in Bits, g \notin used PROVE FALSE
      <4>1. f <= g
        BY <2>2, <3>1, ArrayCovers
      <4>2. BITMAP_BYTES * WordBits \in Nat
        BY PmmAssumption
      <4> QED BY <2>2, <2>4, <4>1, <4>2 DEF Bits, Scanned
    <3> QED BY <3>1
  <2> QED BY <2>3, <2>4
<1> QED BY <1>1, Invariance, PTL DEF Spec, ScanLeavesBitmapLast

-----------------------------------------------------------------------------
(* pmm.c implements FrameAllocator.                                        *)
LEMMA InitMaps == Init => Abstract!Init
BY DEF Init, Abstract!Init

LEMMA StepMaps == IInv /\ IInv' /\ [Next]_vars => [Abstract!Next]_(Abstract!vars)
<1> SUFFICES ASSUME IInv, IInv', [Next]_vars PROVE [Abstract!Next]_(Abstract!vars)
  OBVIOUS
<1> DEFINE Pool == IF ready THEN Scanned \ UsedAtStart ELSE {}
<1> USE DEF Abstract!Next, Abstract!vars
<1>1. CASE UNCHANGED vars
  BY <1>1, StartStays DEF vars
<1>2. ASSUME NEW map \in Maps, pmm_init(map) PROVE Abstract!Open
  BY <1>2 DEF Abstract!Open, pmm_init
<1>3. CASE pmm_frame_alloc
  <2>1. Pool' = Pool /\ ready /\ ready' = ready
    BY <1>3, StartStays DEF pmm_frame_alloc
  <2>2. used = UsedAtStart \cup owned /\ owned \subseteq Scanned
    BY <2>1 DEF IInv, BitmapAccounted, TypeOK
  <2> QED BY <1>3, <2>1, <2>2 DEF pmm_frame_alloc, Abstract!Grant, Abstract!Refuse
<1>4. ASSUME NEW f \in owned \cup {0}, pmm_frame_free(f)
      PROVE  Abstract!GiveBack \/ UNCHANGED Abstract!vars
  <2>1. Pool' = Pool /\ ready' = ready
    BY <1>4, StartStays DEF pmm_frame_free
  <2>2. CASE f < RESERVED
    BY <1>4, <2>1, <2>2 DEF pmm_frame_free
  <2>3. CASE ~(f < RESERVED)
    <3>1. f \in owned
      BY <2>3, PmmAssumption
    <3> QED BY <1>4, <2>1, <2>3, <3>1 DEF pmm_frame_free, Abstract!GiveBack
  <2> QED BY <2>2, <2>3
<1> QED BY <1>1, <1>2, <1>3, <1>4 DEF Next

\* pmm.c keeps the contract of a frame allocator: no frame is granted twice,
\* none outside the pool, and none is refused while one is left.
THEOREM PmmImplementsFrameAllocator == Spec => ImplementsFrameAllocator
BY InitMaps, StepMaps, Invariance, PTL DEF Spec, ImplementsFrameAllocator, Abstract!Spec
=============================================================================
