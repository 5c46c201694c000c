---------------------------- MODULE KernelMemory ----------------------------
(***************************************************************************)
(* The kernel's memory, from the call of pmm_init in kmain on: vmm.c on    *)
(* pmm.c.  Vmm is given a machine and an allocator that grants its lowest  *)
(* free frame; here the machine is what pmm_init makes of the memory map   *)
(* it is handed, and each call of vmm.c is a call of Pmm.  owned is the    *)
(* same variable in both.  Memory is what the map says it is.              *)
(***************************************************************************)
EXTENDS Vmm

CONSTANTS PageSize, AddrSpan, WordBits, ByteBits, BITMAP_BYTES,
          KernelStart, KernelEnd, Maps, Foreign   \* of Pmm

VARIABLES
  e820_map,                    \* what bootinfo_ptr->e820_map names
  used, g_phys_ceiling, ready, \* of Pmm
  answer,                      \* its result
  turn, e820, foreign

P == INSTANCE Pmm WITH result <- answer

pmmState == <<used, g_phys_ceiling, ready, answer, turn, e820, foreign>>
kernelVars == <<vars, pmmState, e820_map>>

\* What pmm_init makes of a map, when the bits behind its array are as given and
\* highest is the ceiling: what it leaves to grant, and how far the direct map goes.
UsedAfterInit(map, behind) == behind \cup P!UsedAfterMap(map) \cup P!KernelFrames
PagesOf(a) == (a + PageSize - 1) \div PageSize
MachineOf(map, behind, highest) ==
  [pool    |-> P!Scanned \ UsedAfterInit(map, behind),
   ram     |-> {f \in P!Scanned : P!InRam(map, f)},
   ceiling |-> PagesOf(highest)]
Ceilings(map) == {c \in {0} \cup {P!EndOf(e) : e \in map} : P!CeilingAfterMap(map, c)}

(* Frames have one numbering.  vmm_kernel_map maps the pages pmm_init keeps *)
(* for the kernel, and the direct map has room for the memory there is.     *)
ASSUME KernelMemoryAssumption ==
  /\ P!PmmAssumption
  /\ Frames = P!Scanned
  /\ KernelPages = P!KernelFrames
  /\ Machines = UNION {{MachineOf(map, behind, c) : c \in Ceilings(map)} :
                         map \in Maps, behind \in Foreign}
  /\ \A map \in Maps : \A e \in map : P!EndOf(e) <= HhdmSpan * PageSize

KernelInit ==
  /\ Init /\ P!Init
  /\ e820_map \in Maps
  /\ \E c \in Ceilings(e820_map) :
       [pool |-> pool, ram |-> ram, ceiling |-> ceiling] = MachineOf(e820_map, foreign, c)

-----------------------------------------------------------------------------
(* Which steps of vmm.c call the allocator.                                *)
NeedsTable == pc = "walk" /\ call # "free" /\ Here.kind = "absent"
NeedsPdpt  == mem[pml4][Index(1, HhdmBase + cursor)].kind = "absent"

Allocates ==
  \/ vmm_init
  \/ vmm_hhdm_create /\ NeedsPdpt
  \/ \E v \in Vas : vmm_page_alloc(v)
  \/ (WalkDown \/ WalkFails) /\ NeedsTable

Quiet ==
  \/ vmm_hhdm_create /\ ~NeedsPdpt
  \/ HhdmEnds \/ vmm_kernel_map \/ vmm_pml4_load
  \/ \E v \in Vas : vmm_page_free(v)
  \/ (WalkDown \/ WalkFails) /\ ~NeedsTable
  \/ WalkGoesWrong \/ MapPage

\* kmain: pmm_init first, and nothing of vmm.c before it has returned.
KernelStarts == P!pmm_init(e820_map) /\ UNCHANGED <<vars, e820_map>>

KernelNext ==
  \/ KernelStarts
  \/ ready /\ Allocates /\ P!pmm_frame_alloc /\ UNCHANGED e820_map
  \/ ready /\ UnmapPage /\ P!pmm_frame_free(Here.frame) /\ UNCHANGED e820_map
  \/ ready /\ Quiet /\ UNCHANGED <<pmmState, e820_map>>

KernelSpec == KernelInit /\ [][KernelNext]_kernelVars

-----------------------------------------------------------------------------
(* Properties.                                                             *)

\* pmm.c and vmm.c agree on what is free and on how far the direct map goes: the
\* bits at 0 are the pool of Vmm's machine less what was handed out.
AllocatorsAgree ==
  ready => /\ P!Scanned \ used = pool \ owned
           /\ PagesOf(g_phys_ceiling) = ceiling

\* vmm.c is a caller as pmm.c takes for granted.
UsesPmmAsItAsks == P!Spec

\* No table, and no page of a caller, lies in a frame of the kernel image or in
\* the reserved ones.
TablesAvoidKernel == pml4 # None => (Tables \cup Data) \cap P!Protected = {}
=============================================================================
