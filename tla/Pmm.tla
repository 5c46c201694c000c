-------------------------------- MODULE Pmm --------------------------------
(***************************************************************************)
(* The physical frame allocator, kernel/pmm.c: a bitmap of 64-bit words,   *)
(* one bit per frame, 1 = used.  kmain calls pmm_init once, before anyone  *)
(* allocates; the callers of vmm.c then allocate and free.  Nothing here   *)
(* runs concurrently: one action is one call.                              *)
(*                                                                         *)
(* used is the set of frames whose bit is 1.  The scan of pmm_frame_alloc  *)
(* counts MAX_FRAMES words and the array has BITMAP_BYTES of them, so used *)
(* also has the bits of whatever lies behind the array in memory.          *)
(***************************************************************************)
EXTENDS Integers

CONSTANTS
  PageSize,        \* PAGE_SIZE
  AddrSpan,        \* 2^64: addresses and lengths are uint64_t
  WordBits,        \* 64: bits of a bitmap word
  ByteBits,        \* 8: bits of the byte 0xFF, and the 8 of BITMAP_BYTES
  BITMAP_BYTES,    \* words of g_frame_bitmap: MAX_FRAMES / 8
  RESERVED,        \* PMM_RESERVED_FRAMES
  KernelStart, KernelEnd,  \* __kernel_start, __kernel_end
  Maps,            \* E820 maps the BIOS may report: sets of entries
  Foreign          \* sets of bits behind the array that may read as 1

MAX_FRAMES == BITMAP_BYTES * ByteBits

Bits    == 0 .. BITMAP_BYTES * WordBits - 1    \* inside g_frame_bitmap
Scanned == 0 .. MAX_FRAMES * WordBits - 1      \* read by pmm_frame_alloc

INVALID_FRAME == -1   \* PMM_INVALID_FRAME, not the address of a frame

Entry == [base : 0 .. AddrSpan - 1, length : 0 .. AddrSpan, type : 1 .. 5]

(* An entry ends at 2^64 at most, and usable memory ends before the last   *)
(* page: base + length and align_up(base) do not wrap for usable memory.   *)
ASSUME PmmAssumption ==
  /\ PageSize \in Nat \ {0} /\ AddrSpan \in Nat \ {0}
  /\ ByteBits \in Nat \ {0} /\ WordBits \in Nat /\ ByteBits <= WordBits
  /\ BITMAP_BYTES \in Nat
  /\ RESERVED \in 1 .. MAX_FRAMES
  /\ KernelStart \in Nat /\ KernelEnd \in Nat
  /\ KernelEnd <= MAX_FRAMES * PageSize
  /\ MAX_FRAMES * PageSize <= AddrSpan - PageSize
  /\ \A map \in Maps : \A e \in map :
       /\ e \in Entry
       /\ e.base + e.length <= AddrSpan
       /\ e.type = 1 => e.base + e.length <= AddrSpan - PageSize
  /\ \A s \in Foreign : s \subseteq Scanned \ Bits

VARIABLES
  used,            \* frames whose bit is 1
  g_phys_ceiling,
  ready,           \* pmm_init has run
  owned,           \* history: frames handed out and not given back
  result,          \* what pmm_frame_alloc returned last, as a frame index
  turn,            \* history: flips with each answer of pmm_frame_alloc
  e820, foreign    \* history: the map, and the bits found behind the array

vars == <<used, g_phys_ceiling, ready, owned, result, turn, e820, foreign>>

Init ==
  /\ foreign \in Foreign /\ used = foreign
  /\ g_phys_ceiling = 0
  /\ ready = FALSE /\ owned = {} /\ result = INVALID_FRAME
  /\ turn = FALSE /\ e820 = {}

-----------------------------------------------------------------------------
align_down(a) == a - (a % PageSize)
align_up(a)   == LET t == (a + PageSize - 1) % AddrSpan IN t - (t % PageSize)

EndOf(e) == (e.base + e.length) % AddrSpan

\* The bits the byte 0xFF, stored into every word of the array, sets.
Filled == {f \in Bits : f % WordBits < ByteBits}

\* Faulty variant: partial pages counted in.
UsableFrames_Widened(e) ==
  {f \in 0 .. MAX_FRAMES - 1 :
     e.type = 1 /\ align_down(e.base) <= f * PageSize /\ f * PageSize < align_up(EndOf(e))}

\* The frames one entry of the map clears, from start_idx up to end_idx.
UsableFrames(e) ==
  {f \in 0 .. MAX_FRAMES - 1 :
     /\ e.type = 1
     /\ align_up(e.base) \div PageSize <= f
     /\ f < align_down(EndOf(e)) \div PageSize}

\* The loop over the map only clears bits, so the order of its entries, or an
\* entry twice, makes no difference: a map is a set.
UsedAfterMap(map) ==
  (Filled \ UNION {UsableFrames(e) : e \in map}) \cup 0 .. RESERVED - 1

\* Faulty variant: the ceiling of any usable entry, not of the highest.
CeilingAfterMap_First(map, c) ==
  IF \E e \in map : e.type = 1 THEN \E e \in map : c = EndOf(e) /\ e.type = 1 ELSE c = 0

\* The highest end in the map, or 0: the ceiling is 0 when the scan starts.
CeilingAfterMap(map, c) ==
  /\ c = 0 \/ \E e \in map : c = EndOf(e)
  /\ \A e \in map : EndOf(e) <= c

\* Faulty variant: the kernel's last, partly used page left out.
KernelFrames_Truncated ==
  align_down(KernelStart) \div PageSize .. align_down(KernelEnd) \div PageSize - 1

KernelFrames ==
  align_down(KernelStart) \div PageSize .. align_up(KernelEnd) \div PageSize - 1

pmm_init(map) ==
  /\ ~ready /\ ready' = TRUE
  /\ used' = foreign \cup UsedAfterMap(map) \cup KernelFrames
  /\ g_phys_ceiling' \in {0} \cup {EndOf(e) : e \in map}
  /\ CeilingAfterMap(map, g_phys_ceiling')
  /\ e820' = map
  /\ UNCHANGED <<owned, result, turn, foreign>>

\* Faulty variants: the scan goes one word further; the frame found is not
\* marked; the scan takes any frame.
pmm_frame_alloc_OneWordMore ==
  /\ ready
  /\ LET all == 0 .. (MAX_FRAMES + 1) * WordBits - 1
     IN  \E f \in all \ used :
           /\ \A g \in all \ used : f <= g
           /\ used' = used \cup {f}
           /\ owned' = owned \cup {f} /\ result' = f
  /\ turn' = ~turn
  /\ UNCHANGED <<g_phys_ceiling, ready, e820, foreign>>
pmm_frame_alloc_Unmarked ==
  /\ ready
  /\ \E f \in Scanned \ used :
       /\ \A g \in Scanned \ used : f <= g
       /\ owned' = owned \cup {f} /\ result' = f
  /\ turn' = ~turn
  /\ UNCHANGED <<used, g_phys_ceiling, ready, e820, foreign>>
pmm_frame_alloc_AnyWord ==
  /\ ready
  /\ \E f \in Scanned \ used :
       /\ used' = used \cup {f}
       /\ owned' = owned \cup {f} /\ result' = f
  /\ turn' = ~turn
  /\ UNCHANGED <<g_phys_ceiling, ready, e820, foreign>>

\* The lowest clear bit of the first word that is not all ones, or none.
pmm_frame_alloc ==
  /\ ready
  /\ \/ \E f \in Scanned \ used :
          /\ \A g \in Scanned \ used : f <= g
          /\ used' = used \cup {f}
          /\ owned' = owned \cup {f} /\ result' = f
     \/ /\ Scanned \subseteq used
        /\ result' = INVALID_FRAME
        /\ UNCHANGED <<used, owned>>
  /\ turn' = ~turn
  /\ UNCHANGED <<g_phys_ceiling, ready, e820, foreign>>

pmm_frame_free(f) ==
  /\ ready
  /\ IF f < RESERVED
     THEN UNCHANGED <<used, owned>>
     ELSE used' = used \ {f} /\ owned' = owned \ {f}
  /\ UNCHANGED <<g_phys_ceiling, ready, result, turn, e820, foreign>>

(* The callers give back what they were handed; vmm_page_free also gives   *)
(* back frame 0, which it reads from a page table entry that was empty.    *)
Next ==
  \/ \E map \in Maps : pmm_init(map)
  \/ pmm_frame_alloc
  \/ \E f \in owned \cup {0} : pmm_frame_free(f)

Spec == Init /\ [][Next]_vars

-----------------------------------------------------------------------------
(* Properties.                                                             *)

\* Every variable stays in its set.
TypeOK ==
  /\ used \subseteq Scanned /\ owned \subseteq Scanned
  /\ g_phys_ceiling \in 0 .. AddrSpan - 1
  /\ ready \in BOOLEAN /\ turn \in BOOLEAN
  /\ result \in Scanned \cup {INVALID_FRAME}
  /\ e820 \in Maps \cup {{}}
  /\ foreign \in Foreign

\* A frame that lies in one usable entry of a map, every byte of it.
InRam(map, f) ==
  \E e \in map :
    e.type = 1 /\ e.base <= f * PageSize /\ (f + 1) * PageSize <= e.base + e.length
WholeInRam(f) == InRam(e820, f)

\* The frames that hold a byte of the kernel or lie in the reserved 64 MiB.
Protected ==
  {f \in Scanned : \/ f < RESERVED
                   \/ f * PageSize < KernelEnd /\ KernelStart < (f + 1) * PageSize}

\* The bits pmm_init leaves at 1, stated without its arithmetic.
UsedAtStart ==
  foreign \cup Protected \cup
  {f \in Bits : f % WordBits < ByteBits /\ ~(f < MAX_FRAMES /\ WholeInRam(f))}

\* Whatever was allocated and freed, in whatever order, the bitmap is what
\* pmm_init left plus the frames handed out: no call leaks or frees a frame.
BitmapAccounted == ready => used = UsedAtStart \cup owned

\* No frame of the kernel image or of the reserved 64 MiB is handed out, not
\* even after a page that was not mapped has been freed.
ProtectedStaysIn == owned \cap Protected = {}

\* RAM that the allocator can hand out lies below the ceiling the direct map of
\* vmm_hhdm_create covers.
CeilingCoversRam ==
  ready => \A f \in Scanned : WholeInRam(f) => (f + 1) * PageSize <= g_phys_ceiling

\* A frame behind the array is handed out only when every bit of the array
\* is taken: until then the scan stays inside g_frame_bitmap.
ScanLeavesBitmapLast ==
  [][owned' \subseteq owned \cup Bits \/ Bits \subseteq used]_vars

\* pmm.c is a FrameAllocator whose pool is what pmm_init leaves at 0.
Abstract == INSTANCE FrameAllocator WITH
  Frames <- Scanned, NoFrame <- INVALID_FRAME,
  pool <- IF ready THEN Scanned \ UsedAtStart ELSE {}
ImplementsFrameAllocator == Abstract!Spec

\* "Initially marks all frames as used (0xFF) to handle holes/reserved memory,
\* then clears bits for available RAM (Type 1)" (pmm.c:30): every frame handed
\* out is RAM.
AllocatesOnlyRam == \A f \in owned : WholeInRam(f)
=============================================================================
