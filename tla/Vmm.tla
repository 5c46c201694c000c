-------------------------------- MODULE Vmm --------------------------------
(***************************************************************************)
(* The virtual memory manager, kernel/vmm.c, on a frame allocator that     *)
(* grants its lowest free frame (Pmm).  Addresses are counted in pages: a  *)
(* virtual page is four table indices, a frame holds Idx entries.  One     *)
(* step is one table of a walk, or what lies between two walks:            *)
(*    "boot"  kmain is about to call vmm_init                              *)
(*    "hhdm"  vmm_hhdm_create          "map"   vmm_kernel_map              *)
(*    "walk"  at table of level 1 to 3, or at the entry in table 4         *)
(*    "out"   CR3 is loaded, no call is in progress                        *)
(*    "off"   vmm_init has returned 0                                      *)
(*    "fault" the code touched a frame that is not mapped or no memory, or *)
(*            read an entry never written; nothing is said of what follows *)
(* Until CR3 is loaded the code uses physical addresses as they are, and   *)
(* the tables of boot2.asm decide what it reaches; afterwards it goes      *)
(* through the direct map it has built.                                    *)
(***************************************************************************)
EXTENDS Integers, FiniteSets

CONSTANTS
  Idx,         \* 512: entries of a table
  FrameCount,  \* frames of the machine
  Machines,    \* what pmm_init may have made of the E820 map
  RESERVED,    \* PMM_RESERVED_FRAMES
  HhdmSlot,    \* 256: the index of HHDM_OFFSET in the PML4
  KernelPages, \* pages of __kernel_start .. __kernel_end
  StackPages,  \* pages from 256 KiB below the stack pointer to a page above it
  OneToOne,    \* frames that boot2.asm maps one to one
  NxeBits,     \* what EFER.NXE may be: boot2.asm leaves it as it was, clear
  Vas          \* pages the callers ask for

Frames == 0 .. FrameCount - 1
Slots  == 0 .. Idx - 1
Gib    == Idx * Idx                    \* GIB_SIZE, in pages
HhdmBase == HhdmSlot * Gib * Idx       \* HHDM_OFFSET, in pages
HhdmSpan == (Idx - HhdmSlot) * Gib * Idx   \* what is left of the address space there
BootPages == KernelPages \cup StackPages

(* A machine: what the allocator has to give, the frames that are memory,  *)
(* and pmm_highest_address_get() in frames.  The allocator may also give   *)
(* frames that are no memory, but all its memory lies below the ceiling    *)
(* (CeilingCoversRam of Pmm).                                              *)
Machine == [pool : SUBSET Frames, ram : SUBSET Frames, ceiling : 0 .. HhdmSpan]

ASSUME VmmAssumption ==
  /\ Idx \in Nat \ {0, 1} /\ FrameCount \in Nat \ {0} /\ RESERVED \in Nat \ {0}
  /\ HhdmSlot \in Slots \ {0}
  /\ \A m \in Machines : /\ m \in Machine /\ m.pool \cap 0 .. RESERVED - 1 = {}
                         /\ m.pool \cap m.ram \subseteq 0 .. m.ceiling - 1
  /\ BootPages \subseteq 0 .. HhdmBase - 1 /\ BootPages \subseteq Frames
  /\ \A f \in BootPages : f < RESERVED
  /\ OneToOne \subseteq Frames /\ NxeBits \subseteq BOOLEAN
  /\ Vas \subseteq (0 .. HhdmBase - 1) \ BootPages

VARIABLES
  pool, ram, ceiling,  \* the machine
  owned,        \* frames the allocator has given out and not got back
  nxe,          \* EFER.NXE
  mem,          \* entries in each frame
  cr3,          \* the table CR3 points to once vmm_init has loaded it
  pc,
  pml4, cursor, \* of vmm_init: its PML4, and how far its loops are
  call,         \* the walk's caller: "boot", "alloc", "free"
  va, frame,    \* the page walked to, and the frame to put there
  table, level, \* where the walk is
  result        \* what the last vmm_page_alloc returned: 1 or NULL

machine == <<pool, ram, ceiling, nxe>>
walk == <<call, va, frame, table, level>>
vars == <<machine, owned, mem, cr3, pc, pml4, cursor, walk, result>>

None == -1   \* PMM_INVALID_FRAME, or a table that is not there

\* An entry: absent, a table or page, a page of 1 GiB, or never written.
Absent   == [kind |-> "absent", frame |-> 0]
To(f)    == [kind |-> "page", frame |-> f]
Giant(f) == [kind |-> "giant", frame |-> f]
Junk     == [kind |-> "junk", frame |-> 0]
Entry    == [kind : {"absent", "page", "giant", "junk"}, frame : Nat]
Zeroed   == [i \in Slots |-> Absent]

Shifts == <<Gib * Idx, Gib, Idx, 1>>   \* levels_shift: 39, 30, 21, 12

\* Faulty variant: the shifts of the last two levels swapped.
Index_Swapped(l, v) == (v \div <<Gib * Idx, Gib, 1, Idx>>[l]) % Idx

Index(l, v) == (v \div Shifts[l]) % Idx

-----------------------------------------------------------------------------
(* The memory management unit: where a page leads, or None.                *)
Translate(root, v) ==
  LET e1 == mem[root][v \div (Gib * Idx)]
      e2 == mem[e1.frame][(v \div Gib) % Idx]
      e3 == mem[e2.frame][(v \div Idx) % Idx]
      e4 == mem[e3.frame][v % Idx]
  IN  IF e1.kind # "page" THEN None
      ELSE IF e2.kind = "giant" THEN e2.frame + (v % Gib)
      ELSE IF e2.kind = "page" /\ e3.kind = "page" /\ e4.kind = "page" THEN e4.frame
      ELSE None

\* Can the code touch frame f and find again what it writes there?  The pages of
\* the direct map carry PAGE_NX, which is a reserved bit unless EFER.NXE is set.
Reaches(f) ==
  /\ f \in ram
  /\ IF cr3 = None THEN f \in OneToOne
     ELSE nxe /\ Translate(cr3, HhdmBase + f) = f

-----------------------------------------------------------------------------
(* The allocator, as Pmm implements it.                                    *)
Grant(f) ==
  /\ f \in pool \ owned /\ \A g \in pool \ owned : f <= g
  /\ owned' = owned \cup {f}
NoneLeft == pool \subseteq owned /\ UNCHANGED owned

\* The code cannot use the frame f it was given; table says which.
Fault(f) ==
  /\ pc' = "fault" /\ table' = f
  /\ UNCHANGED <<mem, cr3, pml4, cursor, call, va, frame, level, result>>

Init ==
  /\ \E m \in Machines : pool = m.pool /\ ram = m.ram /\ ceiling = m.ceiling
  /\ owned = {} /\ nxe \in NxeBits
  /\ mem = [f \in Frames |-> [i \in Slots |-> Junk]]
  /\ cr3 = None /\ pml4 = None /\ cursor = 0 /\ result = 0
  /\ pc = "boot"
  /\ call = "boot" /\ va = 0 /\ frame = 0 /\ table = 0 /\ level = 1

-----------------------------------------------------------------------------
(* vmm_init.                                                               *)
vmm_init ==
  /\ pc = "boot"
  /\ \/ /\ NoneLeft /\ pc' = "off"
        /\ UNCHANGED <<mem, cr3, pml4, cursor, walk, result>>
     \/ \E f \in Frames :
          /\ Grant(f)
          /\ IF ~Reaches(f) THEN Fault(f)
             ELSE /\ mem' = [mem EXCEPT ![f] = Zeroed]
                  /\ pml4' = f /\ cursor' = 0 /\ pc' = "hhdm"
                  /\ UNCHANGED <<cr3, walk, result>>
  /\ UNCHANGED machine

\* Faulty variant: the loop leaves out a last, partial GiB.
HhdmDone_Partial == cursor + Gib > ceiling

HhdmDone == cursor >= ceiling

\* vmm_page_1gb_map_offline, for each GiB below the ceiling.
vmm_hhdm_create ==
  /\ pc = "hhdm" /\ ~HhdmDone
  /\ LET i == Index(1, HhdmBase + cursor)
         j == Index(2, HhdmBase + cursor)
     IN  \/ /\ mem[pml4][i].kind # "absent" /\ UNCHANGED owned
            /\ mem' = [mem EXCEPT ![mem[pml4][i].frame][j] = Giant(cursor)]
            /\ cursor' = cursor + Gib
            /\ UNCHANGED <<pc, cr3, pml4, walk, result>>
         \/ /\ mem[pml4][i].kind = "absent"
            /\ NoneLeft /\ pc' = "off"
            /\ UNCHANGED <<mem, cr3, pml4, cursor, walk, result>>
         \/ /\ mem[pml4][i].kind = "absent"
            /\ \E f \in Frames :
                 /\ Grant(f)
                 /\ IF ~Reaches(f) THEN Fault(f)
                    ELSE /\ mem' = [mem EXCEPT ![f] = [Zeroed EXCEPT ![j] = Giant(cursor)],
                                               ![pml4][i] = To(f)]
                         /\ cursor' = cursor + Gib
                         /\ UNCHANGED <<pc, cr3, pml4, walk, result>>
  /\ UNCHANGED machine

\* The walk for the next page of vmm_kernel_map: the kernel's pages, then the
\* stack's, each to the frame of its own number.
StartWalk(c, v, f, root) ==
  /\ call' = c /\ va' = v /\ frame' = f /\ table' = root /\ level' = 1
  /\ pc' = "walk"

HhdmEnds ==
  /\ pc = "hhdm" /\ HhdmDone
  /\ pc' = "map" /\ cursor' = 0
  /\ UNCHANGED <<machine, owned, mem, cr3, pml4, walk, result>>

\* cursor counts the pages mapped; the sets are runs of pages, in order.
NthPage(n) ==
  LET Nth(S, k) == CHOOSE p \in S : Cardinality({q \in S : q < p}) = k
  IN  IF n < Cardinality(KernelPages) THEN Nth(KernelPages, n)
      ELSE Nth(StackPages, n - Cardinality(KernelPages))
BootCount == Cardinality(KernelPages) + Cardinality(StackPages)

vmm_kernel_map ==
  /\ pc = "map" /\ cursor < BootCount
  /\ StartWalk("boot", NthPage(cursor), NthPage(cursor), pml4)
  /\ cursor' = cursor + 1
  /\ UNCHANGED <<machine, owned, mem, cr3, pml4, result>>

vmm_pml4_load ==
  /\ pc = "map" /\ cursor = BootCount
  /\ cr3' = pml4 /\ pc' = "out"
  /\ UNCHANGED <<machine, owned, mem, pml4, cursor, walk, result>>

-----------------------------------------------------------------------------
(* The interface.                                                          *)
Return(r) == pc' = "out" /\ result' = r

vmm_page_alloc(v) ==
  /\ pc = "out"
  /\ \/ NoneLeft /\ Return(0) /\ UNCHANGED walk
     \/ \E f \in Frames : Grant(f) /\ StartWalk("alloc", v, f, cr3) /\ UNCHANGED result
  /\ UNCHANGED <<machine, mem, cr3, pml4, cursor>>

vmm_page_free(v) ==
  /\ pc = "out"
  /\ StartWalk("free", v, 0, cr3)
  /\ UNCHANGED <<machine, owned, mem, cr3, pml4, cursor, result>>

-----------------------------------------------------------------------------
(* vmm_pte_get and vmm_pte_get_offline.  Only the first one looks at what  *)
(* pmm_frame_alloc returns; the second zeroes an address that is no        *)
(* memory.                                                                 *)
Here == mem[table][Index(level, va)]

Descend(f) == table' = f /\ level' = level + 1 /\ UNCHANGED <<call, va, frame>>

\* Faulty variant: the new table is not zeroed.
NewTable_Unzeroed(f) ==
  mem' = [mem EXCEPT ![table][Index(level, va)] = To(f)]

\* Faulty variant: the new table is linked only when the walk is over.
NewTable_Unlinked(f) == mem' = [mem EXCEPT ![f] = Zeroed]

NewTable(f) ==
  mem' = [mem EXCEPT ![f] = Zeroed, ![table][Index(level, va)] = To(f)]

\* Faulty variant: the loop takes the last level, too.
WalkDown_TooDeep ==
  /\ pc = "walk" /\ level <= 4 /\ Reaches(table)
  /\ Here.kind = "absent" /\ call # "free"
  /\ \E f \in Frames : Grant(f) /\ NewTable(f) /\ Descend(f)
  /\ UNCHANGED <<machine, cr3, pc, pml4, cursor, result>>

WalkDown ==
  /\ pc = "walk" /\ level < 4 /\ Reaches(table)
  /\ \/ /\ Here.kind \in {"page", "giant"}
        /\ Descend(Here.frame)
        /\ UNCHANGED <<owned, mem, cr3, pc, pml4, cursor, result>>
     \/ /\ Here.kind = "absent" /\ call # "free"
        /\ \E f \in Frames :
             /\ Grant(f)
             /\ IF ~Reaches(f) THEN Fault(f)
                ELSE /\ NewTable(f) /\ Descend(f)
                     /\ UNCHANGED <<cr3, pc, pml4, cursor, result>>
  /\ UNCHANGED machine

\* A walk that ends before the last table: nothing to free, or no frame left.
WalkFails ==
  /\ pc = "walk" /\ level < 4 /\ Reaches(table) /\ Here.kind = "absent"
  /\ \/ call = "free" /\ pc' = "out" /\ UNCHANGED <<owned, result>>
     \/ call = "alloc" /\ NoneLeft /\ Return(0)
     \/ call = "boot" /\ NoneLeft /\ pc' = "fault" /\ UNCHANGED result
  /\ UNCHANGED <<machine, mem, cr3, pml4, cursor, walk>>

Astray == ~Reaches(table) \/ Here.kind = "junk"

WalkGoesWrong ==
  /\ pc = "walk" /\ Astray
  /\ pc' = "fault"
  /\ UNCHANGED <<machine, owned, mem, cr3, pml4, cursor, walk, result>>

\* vmm_page_map_internal and vmm_page_map write the entry whatever it was.
MapPage ==
  /\ pc = "walk" /\ level = 4 /\ call # "free"
  /\ Reaches(table) /\ Here.kind # "junk"
  /\ mem' = [mem EXCEPT ![table][Index(4, va)] = To(frame)]
  /\ \/ call = "boot" /\ pc' = "map" /\ UNCHANGED result
     \/ call = "alloc" /\ Return(1)
  /\ UNCHANGED <<machine, owned, cr3, pml4, cursor, walk>>

\* Faulty variant: the entry is left in place when its frame is given back.
UnmapPage_EntryStays ==
  /\ pc = "walk" /\ level = 4 /\ call = "free"
  /\ Reaches(table) /\ Here.kind # "junk"
  /\ owned' = IF Here.frame < RESERVED THEN owned ELSE owned \ {Here.frame}
  /\ pc' = "out"
  /\ UNCHANGED <<machine, mem, cr3, pml4, cursor, walk, result>>

\* vmm_page_unmap, and pmm_frame_free of what the entry named: frame 0 when it
\* was absent, which the allocator ignores.
UnmapPage ==
  /\ pc = "walk" /\ level = 4 /\ call = "free"
  /\ Reaches(table) /\ Here.kind # "junk"
  /\ mem' = [mem EXCEPT ![table][Index(4, va)] = Absent]
  /\ owned' = IF Here.frame < RESERVED THEN owned ELSE owned \ {Here.frame}
  /\ pc' = "out"
  /\ UNCHANGED <<machine, cr3, pml4, cursor, walk, result>>

Next ==
  \/ vmm_init \/ vmm_hhdm_create \/ HhdmEnds \/ vmm_kernel_map \/ vmm_pml4_load
  \/ \E v \in Vas : vmm_page_alloc(v) \/ vmm_page_free(v)
  \/ WalkDown \/ WalkFails \/ WalkGoesWrong \/ MapPage \/ UnmapPage

Spec == Init /\ [][Next]_vars

-----------------------------------------------------------------------------
(* Properties.                                                             *)

\* Every variable stays in its set.
TypeOK ==
  /\ [pool |-> pool, ram |-> ram, ceiling |-> ceiling] \in Machines
  /\ owned \subseteq pool /\ nxe \in BOOLEAN
  /\ mem \in [Frames -> [Slots -> Entry]]
  /\ cr3 \in Frames \cup {None} /\ pml4 \in Frames \cup {None}
  /\ cursor \in Nat
  /\ pc \in {"boot", "hhdm", "map", "walk", "out", "off", "fault"}
  /\ call \in {"boot", "alloc", "free"}
  /\ va \in Nat /\ frame \in Frames /\ table \in Frames /\ level \in 1 .. 4
  /\ result \in 0 .. 1

\* The tables under the PML4, and the slots of them that lead to a table.
Links(S)   == {x \in S \X Slots : mem[x[1]][x[2]].kind = "page"}
Below(S)   == {mem[x[1]][x[2]].frame : x \in Links(S)}
Upper      == IF pml4 = None THEN {} ELSE {pml4} \cup Below({pml4}) \cup Below(Below({pml4}))
Tables     == Upper \cup Below(Upper)
TableLinks == Links(Upper)

\* What the callers have been given and still have.
Mapped == {v \in Vas : Translate(pml4, v) # None}
Data   == {Translate(pml4, v) : v \in Mapped}

\* The tables are a tree in memory of their own: no table hangs in two slots, all
\* of them are allocated, none of them is given to a caller as a page, and no two
\* pages share a frame.
TablesAreATree ==
  pml4 # None =>
    /\ Tables \subseteq owned /\ pml4 \notin Below(Upper)
    /\ \A x, y \in TableLinks :
         mem[x[1]][x[2]].frame = mem[y[1]][y[2]].frame => x = y
    /\ Data \subseteq owned \ Tables
    /\ \A v, w \in Mapped : Translate(pml4, v) = Translate(pml4, w) => v = w

\* No walk reads an entry nobody has written, and none touches a frame the tables
\* in force do not map, but for the one frame vmm_pte_get_offline did not get, for
\* frames the boot tables do not map, and for the direct map's reserved bit; nor one
\* that is no memory, but for a frame the allocator gave for a table.
WalksStayInTables ==
  pc = "fault" =>
    \/ call = "boot" /\ cr3 = None /\ (pool \subseteq owned \/ table \notin OneToOne)
    \/ cr3 # None /\ ~nxe
    \/ table \in owned \ ram

\* Once vmm_init has loaded CR3 the kernel and its stack stay where they are, and
\* the direct map shows every frame below the ceiling.
KernelStaysMapped ==
  cr3 # None =>
    /\ \A p \in BootPages : Translate(cr3, p) = p
    /\ \A f \in 0 .. ceiling - 1 : Translate(cr3, HhdmBase + f) = f

\* No step moves a page other than the one the call is for.
OthersStayMapped ==
  [][cr3 # None => \A v \in Vas : v # va => Translate(cr3, v)' = Translate(cr3, v)]_vars

\* vmm_page_alloc that returns its address has put an allocated frame there.
AllocMaps ==
  [][pc = "walk" /\ pc' = "out" /\ call = "alloc" /\ result' = 1 =>
       Translate(cr3, va)' = frame /\ frame \in owned]_vars

\* Frames that are neither free, nor a table, nor mapped, nor on their way there.
Lost ==
  IF pml4 = None THEN {}
  ELSE owned \ (Tables \cup Data \cup IF pc \in {"walk", "fault"} THEN {frame} ELSE {})

\* A frame gets lost in two ways only: vmm_page_alloc finds no frame for a table,
\* or replaces a page that was mapped.  (A table's frame that cannot be used is lost,
\* too, and that is the end.)
LeaksOnlyInAlloc ==
  [][~(Lost' \subseteq Lost) =>
       \/ /\ call = "alloc" /\ pc = "walk"
          /\ WalkFails \/ (MapPage /\ Here.kind = "page")
       \/ pc' = "fault" /\ (table' \notin ram \/ (cr3 = None /\ table' \notin OneToOne))]_vars

\* vmm_page_free hands pmm_frame_free only frames the allocator has given out and
\* not got back, or one below RESERVED, which pmm.c refuses: nothing is freed
\* twice, in any order of calls, and no table is given back as a page.  It is
\* what Pmm assumes of its callers.
FreesOnlyItsOwn ==
  [][pc = "walk" /\ level = 4 /\ call = "free" /\ pc' = "out" =>
       Here.frame < RESERVED \/ Here.frame \in owned \ Tables]_vars

-----------------------------------------------------------------------------
(* What vmm.c says and the code does not do.                               *)

\* "Since we are in 1:1 mode, the virtual address is the physical address"
\* (line 142), "early its 1:1 so no conversion here" (line 227): vmm_init
\* reaches every frame it is granted.
BootReachesItsTables == pc = "fault" /\ cr3 = None => pool \subseteq owned
=============================================================================
