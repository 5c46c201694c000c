# A specification of the bootloader, kernel loader and kernel

The repository boots a PC from a raw disk image: a boot sector loads a second
stage, which collects the memory map, switches to long mode and jumps to a kernel
loader in C; the loader uses a polling ATA driver and jumps to the kernel; the
kernel sets up a physical frame allocator and a virtual memory manager, and
carries an interrupt-driven ATA driver.  There is no README, design document or
test in the repository: what the code promises is said by its headers and
comments, which the specifications quote where they disagree with the code.

## 1. Inventory

| Component | State | Operations | Talks to |
|---|---|---|---|
| Interrupt-driven ATA driver (`kernel/ata_driver_irq.c`) | one `g_ata_ctx`: operation, step, delay counter, `irq_fired`, `last_status`, four transfer counters | `setup_ata_irq`, six `begin_*`, `tick_ata` (8 step handlers), `irq14_ata`, five queries | the drive (ports 0x1F0-7, 0x3F6), both 8259s |
| Physical frame allocator (`kernel/pmm.c`) | bitmap, `g_phys_ceiling` | `pmm_init`, `pmm_frame_alloc`, `pmm_frame_free` | the E820 map; `vmm.c` calls it |
| Virtual memory manager (`kernel/vmm.c`) | page tables in frames, CR3 | `vmm_init`, `vmm_page_alloc`, `vmm_page_free` | the frame allocator, the MMU |
| Polling ATA driver (`kernelLoader/atadriver.c`, older twin `ata_driver.c`) | none between calls but the drive's | `ata_init`, read/write with 28 and 48 bit addresses | the drive |
| Boot sector (`bootloader/boot1.asm`) | boot drive | loads stage 2 | BIOS |
| Second stage (`bootloader/boot2.asm`) | `bootinfo`, page tables, GDT | loads the loader, E820, VBE, A20, mode switches | BIOS, CPU |
| Kernel loader (`kernelLoader/main.c`, `entry.asm`, `idt.c`) | IDT, bss | clears bss, IDT, initialises the drive, one transfer at LBA 2048, jumps to 4 MiB | polling driver |
| Kernel entry (`kernel/entry.asm`, `main.c`) | stack, bss | clears bss, banner, `pmm_init`, `vmm_init` | allocator, memory manager |
| Port I/O (`io_wrapper.asm`) | none | `in`, `out`, `rep ins`, `rep outs` | ports |
| Build script (`build.sh`) | none at run time | lays out the disk image | all images |

What makes each part correct, and what is hard about it:

- **Interrupt-driven driver.** `irq14_ata` may run between any two instructions
  of `tick_ata`, and the drive acts between any two port accesses.  Data may be
  moved only under DRQ; a read must put the right sectors in the right places; a
  request must end; success must mean success.  Hard: lost interrupts, a status
  read in one tick and used in the next, a drive that is still busy when it is
  programmed, wrap-around of 28-bit addresses.
- **Frame allocator.** A frame is handed out at most once, only if it is RAM, and
  never if it holds the kernel; every frame given back can be had again.  Hard:
  partial and overlapping E820 entries, sums that wrap, words filled with a byte,
  a scan whose bound counts something else than the array does.
- **Memory manager.** Page tables are a tree in frames of their own, kernel and
  stack stay mapped, no frame leaks.  Hard: the pool running dry inside a walk,
  mapping what is mapped, unmapping what is not, the change from one-to-one
  addresses to the direct map.
- **Polling driver and kernel loader.** Every call returns; success means the
  sectors are there; the kernel is entered only then.  Hard: a drive that answers
  after the wait for it has run out, sticky errors, failures half way.
- **Boot sector, second stage.** A stage is complete before it runs; the video
  mode and the memory map handed over agree with the machine; no step of the way
  to long mode is refused or interrupted.  Hard: a load that fails half way, BIOS
  calls that change DL or use more stack than there is, VBE failing between query
  and mode set, the order of the mode switches.
- **Kernel loader, kernel entry.** The bss loops end and do not destroy what they
  run on; the pointer to `bootinfo` survives; an exception ends in its message.
  Hard: the table of gates lies in the bss, the pointer's variable next to it.

## 2. The modules

| Module | Models | State | Used by |
|---|---|---|---|
| `Boot` | `bootloader/boot1.asm`, `boot2.asm`, and the disk image of `build.sh` | where the code stands, DL, what was loaded, `bootinfo`, display, processor | `BootChain` |
| `BssLoop` | the loop over the bss of both `kmain`s as `-O0` builds it | memory in bytes, the pointer, which may lie in it | `BootChain`, and by itself in the kernel's layout |
| `Idt` | `kernelLoader/idt.c`, and what the processor makes of its table | operators on a table of gates | `BootChain` |
| `BootChain` | `kernelLoader/entry.asm`, and the whole way from power-on to 4 MiB | the states of `Boot`, `BssLoop` and `KernelLoader`, the table, the memory from `bootinfo_ptr` on | `MCBootChain` |
| `Pic` | `remap_pic`, `unmask_irq`, `setup_ata_irq`, and the 8259s | operators on a pair of controllers | `AtaIrqSetup` |
| `AtaIrqSetup` | `AtaIrq` in the order of use `ata_driver_irq.h` gives | that of `AtaIrq`, the controllers, IF | `MCAtaIrqSetup` |
| `AtaDrive` | the drive, from the port accesses of both drivers (hardware, not in the repository) | operators on a drive record | `AtaIrq`, `AtaPoll` |
| `AtaIrq` | `kernel/ata_driver_irq.c` | `g_ata_ctx` field by field, `pc` inside `tick_ata`, drive, medium, buffer, 8259s | `AtaIrqSetup`, `MCAtaIrq`, `AtaIrq_proofs` |
| `Transfer` | abstract: what a block request promises | phase, request, sectors moved, buffer | refined by `AtaIrq` |
| `Pmm` | `kernel/pmm.c` | set of used frames, ceiling | `MCPmm`, `Pmm_proofs` |
| `FrameAllocator` | abstract: what a frame allocator promises | pool, frames owned, last answer | refined by `Pmm` |
| `Vmm` | `kernel/vmm.c` on any machine | entries of every frame, CR3, the walk in progress | `KernelMemory`, `Vmm_proofs` |
| `KernelMemory` | the kernel's `kmain` from `pmm_init` on: `vmm.c` on `pmm.c` | the states of `Vmm` and `Pmm`, the map handed over | `MCKernelMemory`, `KernelMemory_proofs` |
| `AtaPoll` | `kernelLoader/atadriver.c` | the call's locals, its timeout, drive, medium, buffer | `KernelLoader`, `AtaPoll_proofs` |
| `KernelLoader` | `kernelLoader/main.c` from the 0xCC fill on | where `kmain` stands, and the polling driver's state | `BootChain` |
| `AtaDrive_proofs` | lemmas about the drive and its addresses | | `AtaIrq_proofs`, `AtaPoll_proofs` |
| `AtaIrq_proofs`, `AtaPoll_proofs`, `Pmm_proofs`, `Vmm_proofs`, `KernelMemory_proofs`, `Boot_proofs`, `BootChain_proofs` | inductive invariants, lemmas and theorems | | |

`MCAtaIrq`, `MCAtaIrqSetup`, `MCPmm`, `MCKernelMemory` and `MCBootChain` only define what
the configurations need; `AtaPoll` and `BssLoop` are checked directly.  Definitions whose comment
says *faulty variant* are what a plausible mistake in the definition they stand
before would look like; each property is known to fail under one of them.

**Correspondence.**  An action has the name of the C function it stands for.
Where a handler is one step in the model, nothing that happens between its
accesses changes its outcome, with one exception: the writes of the LBA registers
(`ata_driver_irq.c:281-295`) are one step of `AtaIrq`, so a drive that ends storing
just then takes all of them or none, never the last ones only.  It is a later sector of
a write that meets this; no property that holds says where such a sector is stored,
and the run about it finds a wrong place without it (section 6).  Where an interrupt or the drive can get in
between, the handler is several actions:

- In `AtaIrq`, `pc` is `"regs"` between the LBA registers and COMMAND, `"cmd"`
  between COMMAND and `ata_irq_flags_reset()`, and `"ack"` between
  `irq_fired = 0` and the read of `last_status`.  Ticks of the 400 ns delay are
  steps of their own; the tick that makes the counter zero goes on to the handler,
  as the code does.  The EOI is part of `irq14_ata`.
- In `AtaPoll`, one step is one STATUS read, with the decrement of the timeout
  before it.  Interrupts are masked by nIEN and `cli`; the only other actor is the
  drive.  The four transfers differ in addressing and in direction and share
  their actions.
- In `Vmm`, one step is one table of a walk, or what lies between walks.
  `vmm_pte_get` and `vmm_pte_get_offline` share `WalkDown`; `WalkFails` is where
  they differ.  Addresses are counted in pages and a table has `Idx` entries
  instead of 512.  The allocator is what `vmm.c` can see of one: lowest free frame,
  or none.  A machine is what the allocator has to give, which frames are memory, and
  the ceiling; the first may hold frames that are not in the second (section 6), and
  touching one is the end (`"fault"`).
- In `KernelMemory` each step of `Vmm` that asks for a frame is a step of `Pmm`'s
  `pmm_frame_alloc`, `UnmapPage` is one of `pmm_frame_free`, and all others leave
  `Pmm` alone.  The machine is not chosen freely any more: it is what `pmm_init` makes
  of the map (`MachineOf`), and memory is what the map says it is.

- In `Boot`, one step is one BIOS call with what the code does until the next, or
  one instruction that changes the processor's mode.  A call may fail, may leave a
  stage half loaded, may change DL, and uses some of the caller's stack, which lies
  in the page of the PML4.  int 15h writes an entry only when it is called with
  0xE820 in EAX.
- In `BootChain` an exception may come at any step of the loader's `kmain`;
  interrupts cannot, as IF is clear from the second stage on.  The memory from
  `bootinfo_ptr` to the end of the bss is modelled byte by byte; the bss holds the
  table of gates.  `Enter` is the jump to 4 MiB together with the instruction found
  there: the loader's own 0xCC, `int3`.
- In `AtaIrqSetup`, `setup_ata_irq` is one step, as the header has it called before
  `sti`.  `Pic` follows it port write by port write: what a byte on a data port
  means depends on the word the chip expects.

Sectors are represented by where they came from (`FromDisk(l)`, `FromMem(i)`),
which is all that tells a right transfer from a wrong one.  DF and ERR are one
flag; `0xFF` of a floating bus is another.

## 3. What is checked

| Run | Question and answer |
|---|---|
| `ata_irq_safety` | From `setup_ata_irq` on, every operation, an interrupt at every moment, every failure of the drive: data moves only under DRQ, reads deliver, the selection settles, nothing is left behind for the next request, INIT_DONE is honest, writes store only what the buffer held, and the driver implements `Transfer`.  Under fairness a request ends unless an interrupt is lost or cannot come (no drive, or one behind nIEN); reads and initialisation lose one in one window only, between COMMAND and `ata_irq_flags_reset()`. |
| `pmm_safety` | The bitmap is exactly what `pmm_init` should leave plus what is handed out, kernel and reserved frames stay in, the ceiling covers the managed RAM, the scan leaves the array only when it is full, and the allocator implements `FrameAllocator`. |
| `kernel_memory_safety` | `pmm_init`, `vmm_init` and any sequence of `vmm_page_alloc` and `vmm_page_free` on `pmm.c` itself, with a pool that runs dry anywhere or holds frames that are no memory: the tables are a tree, no walk leaves them, kernel, stack and direct map stay, a call moves no other page, nothing is freed twice or that was not handed out, and a frame is lost in two named ways only. |
| `ata_poll_safety` | Any three calls on a drive that may be slow, absent or failing: as long as no transfer has timed out, success means the sectors were moved, and every call returns whatever the drive does. |
| `kernel_loader_safety` | The whole way from power-on to 4 MiB, with a BIOS, a drive and exceptions that do what they may.  No stage runs unless all of it was loaded from the drive the machine was booted from; framebuffer fields and mode agree, and the memory map is always empty (section 6); no mode switch is refused or met by a maskable interrupt and the PML4 survives the BIOS calls; from `lidt` on every exception, the final `int3` among them, ends in a message; the `bootinfo` pointer arrives exactly when the linker leaves eight bytes for it.  The loader jumps to 4 MiB only when its sectors are on the medium and nothing else was touched, after any number of failed initialisations; it does not hang in the transfer, and in the initialisation only on an error or an absent drive. |
| `ata_irq_keep_ticking`, `ata_irq_init_then_transfer`, `ata_irq_write_in_place`, `pmm_only_ram`, `ata_poll_writes`, `vmm_one_to_one`, `kernel_zeroes_bss` | What the headers and comments say and the code does not do: see section 6. |

**Bounds, and why they are enough.**

- *ATA (interrupts)*: an LBA register names 2 sectors, there are 2 heads, so a
  28-bit request names 4 and a 48-bit one 6 of the 6 sectors of the medium;
  requests of 0, 1 and 3 sectors start at 0, 1, 3 and 5.  A request of 3 crosses a
  head boundary, wraps past the end of 28 bits and runs off the medium.  One
  request is the whole life of the driver, since none can follow it (section 6).
  With three sectors the loop is entered, repeated and left.  The drive interrupts when
  it first wants the data of a write (`IrqBeforeWriteData = TRUE`): from one that asks by
  DRQ alone the driver never takes a write any further, and what the runs say of writes
  would be said of nothing.  The theorems hold for both.
- *ATA (polling)*: 2 sectors per head and 2 heads again, 5 sectors, requests of 0
  and 2 sectors, three calls.  A wait makes 1 or 2 STATUS reads, so that each
  outcome of each wait (in time, too late, error, no drive) is reachable.  The
  properties hold under `~late`, as a transfer that timed out may disturb the
  next one (section 6); timeouts of `ata_init` are not excluded.
- *Frame allocator*: a word has 4 bits, a "byte" 2, the array 4 words, so 8
  frames are managed, 16 bits lie in the array and 32 are scanned; the ratios are
  those of the code where they matter (a word is longer than a byte, the scan
  longer than the array).  A page is 2 bytes, so entries can begin and end inside
  one; the address space is 64 bytes, so they can end at its end.  Maps are all
  pairs of seven entries; the loop over a map only clears bits and takes a
  maximum, so what three entries do, two show.
- *Kernel's memory*: tables of 3 entries and four levels, 20 frames, a direct map
  of two "GiB", the second partial.  The three pages the callers use lie in two
  tables of the last level and in another one of the level above; two of them
  differ in the order of their last two indices.  The pools, from five maps and three
  contents of the memory behind the bitmap, reach from no frame to one more than
  all tables and pages need; some have a hole, some hold frames that are no memory,
  inside the array or behind it.  `EFER.NXE` is set or clear.  A word of the bitmap
  is no wider than a byte here, so that the pool can run dry in `vmm_init`; that it
  is wider in the code is `pmm_safety`'s subject.
- *Boot chain*: an image of 2 sectors on a medium of 5.  A failing load leaves none
  or all but one of its sectors.  BIOS calls use 128 bytes of stack or 2038, the
  most that leaves the PML4's entry alone; that they use no more is an assumption
  (nothing in the code sees to it).  The kernel loader has 14 of the 16 sectors
  that are read, its size as built.  The gap between `bootinfo_ptr` and the bss is
  each of the four the alignments of the sections allow.  The bss has 6 bytes, so
  that with a gap of 4 the pointer reaches into it.  Exceptions with and without an
  error code, with and without a gate.
- *Bss loop of the kernel*: a pointer of two digits in base 8, kept in the middle of
  the bss; the loop meets it on its way as in the code, where it has eight digits
  in base 256.
- *Interrupt controllers*: the masks a BIOS may leave: the disk's lines open, all
  closed, only those two closed.

`CHECK_DEADLOCK FALSE` is set everywhere: a request that has ended, a loader in
`hlt` and a kernel that faulted really stop.

**Fairness.**  `AtaIrq`: weak fairness of `tick_ata` (the kernel loop calls it),
of `irq14_ata` (an asserted interrupt that is not in service is taken: the kernel
loop runs with interrupts on) and of the drive (it answers what it has accepted).
`AtaIrqSetup` has the same, once interrupts are on; nothing obliges the kernel to
begin a request.  `AtaPoll`: weak fairness of the driver only; that it returns must
not depend on the drive.  `BssLoop`: the processor keeps running.  `BootChain`: it
keeps running in `kmain`; `InitLoopsOnlyOnError`
assumes of the drive that it answers, and that a drive asked again and again is
some time done within the 10^8 STATUS reads it is given.

## 4. What is proved

Proved by TLAPS for all values of the constants that satisfy the `ASSUME`s of the
modules (`DriveAssumption`, `AtaIrqAssumption`, `AtaPollAssumption`,
`KernelLoaderAssumption`, `BootChainAssumption`, `PmmAssumption`, `VmmAssumption`,
`KernelMemoryAssumption`),
so for the real sizes, too.  Every invariant and every action property that a passing run
checks is stated by a theorem.  The assumptions bound what the code
leaves to its callers: a request fits the buffer, and the buffer of the polling
driver holds no more than 2^28 sectors (128 GiB), so that two sectors of one
request never have the same register value; no E820 entry passes 2^64, and usable memory ends before the last
page, which is where `align_up` would wrap; the kernel lies below `MAX_FRAMES`; the
kernel's sectors are in reach of 48 bits (they are 2048 to 2303).  Of a machine `Vmm`
assumes that nothing reserved can be granted, that what can be granted and is memory
lies below the ceiling, and that the direct map has room for it; `MachinesFit` shows
this of what `pmm_init` leaves.  What it can grant and is no memory may lie anywhere.
The map is no higher than the direct map (128 TiB);
the pages of kernel and stack are reserved and below the direct map;
callers pass pages below the direct map that are not the kernel's, which `vmm.h` does
not ask of them, but the walk does: it would take a page of 1 GiB for a table
(`vmm.c:79`).

**`AtaIrq_proofs`.**  Type correctness, `SelectSettles`, `TransferUnderDrq`,
`ReadDelivers`, `ReadCommandIsTaken`, `QuietAfterRead`, `InitIdentifies`,
`WriteStoresItsBuffer`, `LostOnlyWhileIssuing`, and that
the driver implements `Transfer`.  None of them is inductive: the context does not
say what the drive is doing.  `IInv` adds what the driver relies on without being
able to see it:

- `StepMatchesOp`, `PcMatchesStep`, `CountersAgree`: how `step`, `op`, `pc` and
  the four counters determine each other (`ptr + sectors_left = req.count`,
  `lba = req.lba + ptr`);
- `DrqHolds`: a drive that is busy or wants data executes the request's command,
  and a DRQ that a status showed is still there a tick later, because nothing but
  the transfer takes it away;
- `DriveFollowsRead`: unless the request is a write, the drive is at rest between
  two commands and says nothing new until it was answered;
- `CommandIsAnswered`: what a read or an initialisation waits for is under way, or
  its interrupt is asserted or recorded, until `ata_irq_flags_reset()`;
- `ReadIsAimed`: the registers written so far name the sector the counters name;
- `FirstIsAimed`, `FlushesBuffer`: a write finds the drive at rest and aims it at the
  first sector, and whatever it stores later, wherever that may be (section 6), is a
  sector the driver handed over.

The step lemmas go part by part (`DriverStep`, `FlagsStep`, `DeviceStep`,
`DrqStep`, `FollowStep`, `AimStep`, `ContentsStep`, `IdentifyStep`);
`RegistersNameTheSector` is the arithmetic: head and low part together are the LBA
for every addressable sector.  `SetupRunsDriver` carries all of it over to
`AtaIrqSetup`, the specification the run checks: a step of the 8259s leaves the
driver alone, and no order of use adds one to it.

**`AtaPoll_proofs`.**  Type correctness, `ReadDelivers`, `WriteIsStored`,
`SuccessLeavesIdle` and `StoresInPlace`, for every timeout.  A wait that ran out
leaves a command behind that the next call does not know of, so all but the types
is said under `~late`.  `IInv` has

- `LocalsAgree`: `ptr`, `lba` and `sector_count` against the arguments of the call,
  and which `pc` belongs to which call;
- `DriveFollowsCall`: the only command that can outlive its call is SET MULTIPLE;
  data is asked for, or stored, for the current sector of the running transfer;
  the waits end in the phase the next step relies on;
- `HandedOverIsStored`: what a write handed over is on the medium, but for the last
  sector while it is being stored or after a failure that ERR still shows.

The one argument about numbers is that storing a sector cannot overwrite an
earlier sector of the same request (`TargetsDiffer`, from `Split28` and `Apart`).
The lemmas are about `AnyNext`, in which any call the buffer has room for may be made,
not those of a run only: the kernel loader's call is one of them.

**`Pmm_proofs`.**  Type correctness, `BitmapAccounted`, `ProtectedStaysIn`,
`CeilingCoversRam`, `ScanLeavesBitmapLast`, and that `Pmm` implements
`FrameAllocator`.  The core is that the arithmetic of `pmm_init` (align up, align
down, shift, clip) leaves exactly `UsedAtStart`, which is stated in bytes without
any of it; `IInv` then needs that nothing owned was used at the start.

**`Vmm_proofs`.**  All that `kernel_memory_safety` checks, for every number of entries
of a table, every machine and every sequence of calls.  `TablesAreATree` is far from
inductive; `IInv` has

- `Tree`: the tables of the four levels lie in allocated frames, no frame is on two
  levels, and no two slots lead to the same table.  The levels are four unfoldings of
  `Kids`, so no recursion is needed to say what can be reached;
- `Written`: no entry of a table is left from before the frame was handed out, and an
  absent one names frame 0, which is why `vmm_page_free` of a page that is not
  mapped frees nothing; pages of 1 GiB are in the direct map only (`HhdmOnly`);
- `Leaves`: the last tables lead to the kernel's frames, or to allocated frames that are
  no tables, each in one slot;
- `BootInv`, `WalkInv`: how much of the direct map and of the kernel's pages is there
  at each step of `vmm_init`; that the walk is where the indices lead, and that
  nothing leads to the frame it carries.

One lemma for each way a step writes memory (a new table in an absent slot, a leaf, a
leaf cleared, the direct map's tables) gives the levels and the translations
afterwards; the rest of the proof takes them as parameters.  The arithmetic is that a
page has one list of four indices (`DivUnique`), so two pages meet in a slot only if
they are the same.  That a frame is no memory costs no invariant: a table that could
be zeroed is memory, and one that could not ends the run (`Unusable`).

**`KernelMemory_proofs`.**  Each of `vmm.c` and `pmm.c` takes something for granted of
the other, and the proofs above assume it.  Here it is shown: the machine `pmm_init`
leaves is as `Vmm` asks (`MachinesFit`, from what is assumed of the memory map alone),
and `vmm.c` is a caller as `Pmm` asks (`KernelUsesPmm`, from `FreesOnlyItsOwn`).  The
circle is no circle: that `vmm.c` frees its own frames needs the machine, which is
fixed when `pmm_init` is called, and not the bitmap.  `KInv` ties both sides together:

- `MachineIsMaps`: the machine is what `pmm_init` makes, or is about to make, of the map;
- `AllocatorsAgree`: the bits at 0 are the pool less what was handed out, and the ceiling
  is as far as the direct map goes.  It is inductive only because a frame is
  given back by its owner: one freed twice would leave the bit where the count moves.

From it every answer of `pmm_frame_alloc` is the one `Vmm` counts with (`PmmGrants`), so
the composition does not hold because one side waits for the other.  Then the theorems of
both sides hold of the whole (`MemoryIsManaged`, `KernelHasAllocator`), and together they
say what neither says alone: no table and no page of a caller lies in the kernel's image
or in the reserved frames (`TablesAvoid`).

**`Boot_proofs`, `BootChain_proofs`.**  `StagesAreLoaded`, `BootinfoIsConsistent` and
`ModeSwitchHolds`, for every boot drive, from the assumption `Fits`: the loader has
at most 16 sectors (what `dap_kernel` asks for, and nothing in the build checks) and
no BIOS call uses more than 2038 bytes of the stack at 0x9800, below which the
page with the PML4's only entry begins.  `IInv` has four parts: `LoadsInv`, what each
load has left by the time control is past it; `MapInv`, which holds because the
first turn calls int 15h with AX = 0, so that EBX stays 0 and the loop ends;
`VbeInv`, which ties the fields to the mode at each step of `get_vbe`; and
`CpuInv`, which says of every bit of the processor from which step on it is set.
`ModeSwitchHolds` alone is not inductive: that the processor takes a step follows
from the bits all the earlier ones have set.  The theorems are about `Boot`; that
they hold of the whole chain follows from `ChainRunsBoot`: `ChainSpec` implements
`Boot`'s `Spec`, as no other part of the machine writes its variables.

`HandoverMeansStored`, `OnlyKernelSectors`, `FaultsAreShown` and `PointerArrives` are
about the loader.  `ChainInv` has

- `LoaderInv`: the invariant of the polling driver;
  `MainFollowsCall`, which call belongs to which line of `kmain`, that there is one
  transfer only, and that one that is late has failed; `KernelInMemory`, the fill is
  still there when it is stored; `OnlyKernelOnMedium`.  The invariant of `AtaPoll` says
  nothing once a transfer is late, so that the medium is not touched elsewhere needs
  this part of its own: even an abandoned command is aimed at one of the kernel's
  sectors;
- `TableIsWhole`: the table of gates is the zeroed one between the loop over the bss and
  `idt_init`, and what `idt_init` builds when `lidt` has run.  That each gate then
  names its handler is `GateNamesHandler`, the arithmetic of three address fields;
- `PointerIsKept`: the pointer's bytes below the bss are those of `bootinfo`, and the first
  one in the bss is a gate's.

**Only model-checked.**  Liveness (`EndsOrLosesInterrupt`, `CallsReturn`,
`LeavesTheTransfer`, `InitLoopsOnlyOnError`), which the prover cannot reach as it needs
fairness and `ENABLED`; and `BssLoop`, which the chain's proofs use one step at a time
and whose only property is one the kernel violates.

## 5. Not modelled, and why

- The kernel's `kmain` between its loop and `pmm_init` (a banner): it is never
  reached (section 6), and `Pmm` and `Vmm` start behind it.
- That the messages of the exception handlers can be seen: they are text at
  0xB8000, and the second stage has set a framebuffer mode if it could.
- Which handlers a kernel installs beside vector 46, and so what becomes of the
  lines whose masks `remap_pic` restores: nothing in the repository calls
  `setup_ata_irq`, and the kernel has no table of gates.
- Compiling and linking; the layout of the disk image is in `Boot`.
- NMIs in `Boot`: IF does not mask them, and one that comes between CR0.PE and the
  loader's `lidt` would reset the machine.  In `BootChain` one may come in `kmain`.
- A kernel loader of more than 16 sectors, and a BIOS call that uses more than 2038 bytes
  of stack: excluded by `Fits` and the run's constants, though by nothing in the code.
- The TLB: one processor, and `invlpg` follows every entry that changes.
- `kernelLoader/ata_driver.c`: linked and never called, `atadriver.c` under other
  function names but for a SECCOUNT write before SET MULTIPLE.
- VGA output, register save and restore, and the data words of a sector.

`AtaDrive` follows the ATA PIO protocol as far as the drivers use it, and an
emulated IDE disk (`build.sh` runs QEMU) where the standard leaves a choice: a
drive with BSY or DRQ set ignores register and command writes.

## 6. What the code does and its text does not say

Each of the first seven is a run that ends in a counterexample.

1. *A request may never end* (`ata_irq_keep_ticking`): an interrupt that comes
   between COMMAND and `ata_irq_flags_reset()` is wiped out.
2. *Nothing can follow the initialisation* (`ata_irq_init_then_transfer`): `step`
   never returns to IDLE, and the begin functions insist on it.
3. *A write can store a sector in the wrong place* (`ata_irq_write_in_place`): it
   goes on to the next command without waiting for BSY to clear.  The run's drive
   interrupts for the first block of a write; otherwise no write gets that far.
4. *Frames that are no RAM are handed out* (`pmm_only_ram`): `0xFF` fills a byte,
   the array holds 64-bit words.
5. *A write of the polling driver can return 1 without having written its sectors*
   (`ata_poll_writes`): `ata_wait_idle` does not look at DRQ, so a drive that asked
   for the data of a write that was given up gets that of the next one, and stores it at
   the sector of the first.  The run makes writes only; after a read that was given up
   the data of the next write goes nowhere, and it returns 1 as well.
6. *`vmm_init` cannot reach the frames it is granted* (`vmm_one_to_one`): they lie
   above 64 MiB, the boot tables map 16.
7. *The kernel's loop over its bss never ends* (`kernel_zeroes_bss`): three objects
   have a 16 MiB bitmap each, so the bss covers the stack at 7 MiB, and at `-O0` the
   loop keeps its pointer there.

Seen on the way and not the subject of a run of its own:

- IO_DONE of a write is reported while the drive still stores the last sector;
  a drive that asks for the first block of a write by DRQ alone is never served.
- The direct map has PAGE_NX, a reserved bit unless `EFER.NXE` is set, which
  `boot2.asm` does not do; `WalksStayInTables` names that fault.
- `pmm_frame_alloc` counts `MAX_FRAMES` words over an array of `BITMAP_BYTES`: once
  every bit of the array is set it hands out frames, and sets bits, of whatever lies
  behind.  `Pmm` models that (`Scanned`, `Foreign`); `ScanLeavesBitmapLast` only says
  that it comes last.
- A polling transfer that ran out of time may move data of the next one, so that most of
  what is said of that driver is said under `~late`.
- One error of SET MULTIPLE makes `while (!ata_init())` endless;
  `InitLoopsOnlyOnError` names that case.
- The kernel loader writes where it should read: `build.sh` calls the kernel "the
  one loaded by kernelLoader", but the loader fills the memory at 4 MiB with 0xCC,
  stores that over the kernel at LBA 2048 and jumps to it.  `Enter` models the
  `int3` that follows, which has no gate and is reported as #GP.
- `boot2.asm:54` overwrites the function number in AX before `int 0x15`: the memory
  map has no entry from the BIOS.  `BootinfoIsConsistent` says what is handed over
  instead.
- `entry.asm:26` declares one byte for the pointer it stores; `PointerArrives` says
  for which layouts that is harmless.
- SET MULTIPLE is issued without SECCOUNT, which the older twin of the driver writes.

## 7. Plan

Done, in this order: `AtaDrive`, `AtaIrq`, `Transfer`; `Pmm`, `FrameAllocator`;
`Vmm`; `AtaPoll`, `KernelLoader`; the proofs of `AtaDrive`, `AtaIrq`, `AtaPoll` and
`Pmm`; `Boot`, `BssLoop`, `Idt`, and `BootChain`, which composes them with the
kernel loader; `Pic` and `AtaIrqSetup`; the proofs of `Boot` and of
its place in `BootChain`; the proofs of `Vmm`, of the kernel loader and of the rest of
`BootChain`, and the last two safety properties of `AtaIrq`; `KernelMemory`, which
composes `Vmm` with `Pmm`, and its proofs.

Left:

1. `KernelMemory` behind `BootChain`, with the map the second stage really hands over;
   as the kernel is never loaded and its bss loop never ends (section 6), nothing of it
   would be reached before those are mended.
2. Proofs: `ClearByte` moves the pointer of the bss loop forward unless it overwrites it,
   for every layout, which is the half of `ZeroesBss` that is no liveness.
