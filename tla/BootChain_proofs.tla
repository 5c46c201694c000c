-------------------------- MODULE BootChain_proofs --------------------------
(* Proofs about the boot chain: it runs the boot stages as Boot says, its  *)
(* loader stores the kernel where it belongs before it enters it, and what *)
(* it leaves to the kernel arrives.                                        *)
EXTENDS BootChain, AtaPoll_proofs

Stage == INSTANCE Boot_proofs

-----------------------------------------------------------------------------
(* The inductive invariant, beside what AtaPoll's says of a single call:   *)
(* where kmain stands, which call was made, what memory and medium hold.   *)
KernelWrite == [op |-> "WRITE_48", lba |-> KernelLba, count |-> KernelSectors]
KernelLbas  == KernelLba .. KernelLba + KernelSectors - 1

\* kmain makes no transfer but that of the kernel, and only it can be late; a
\* late one has failed.
MainFollowsCall ==
  /\ call \in {NoCall, KernelWrite}
  /\ main \in {"boot", "bss", "fill", "init"} => call = NoCall
  /\ main \in {"write", "halt", "kernel", "int3"} => call = KernelWrite /\ pc \notin InitPcs
  /\ main \notin {"init", "write", "stopped"} => pc = "out"
  /\ main \in {"kernel", "int3"} => result = 1
  /\ late => call = KernelWrite /\ pc = "out" /\ result = 0

KernelInMemory ==
  main \in {"init", "write", "halt", "kernel", "int3"} \/ call = KernelWrite =>
    \A i \in 0 .. KernelSectors - 1 : mem[i] = FromMem(i)

\* Neither the medium nor the drive's buffer knows of another sector, also when
\* the transfer was given up.
OnlyKernelOnMedium ==
  /\ \A l \in DiskLbas : disk[l] # FromDisk(l) => call = KernelWrite /\ l \in KernelLbas
  /\ drive.phase = "flush" => call = KernelWrite /\ drive.target \in KernelLbas

LoaderInv ==
  /\ TypeOK /\ LocalsAgree /\ DriveFollowsCall /\ HandedOverIsStored
  /\ MainFollowsCall /\ KernelInMemory /\ OnlyKernelOnMedium

-----------------------------------------------------------------------------
(* The inductive invariant, beside KernelLoader's.                         *)

\* The table is zero when the loop over the bss is over, whole from lidt on, and
\* nobody has touched it when an exception comes; after one nothing happens.
TableIsWhole ==
  /\ main = "bss" /\ loop = "done" => idt = ZeroIdt
  /\ main \in {"boot", "bss"} => ~idtr
  /\ idtr => idt = idt_init(ZeroIdt)
  /\ fault # -1 => main \in {"int3", "stopped"}

\* The pointer's bytes below the bss stay; the first one in it becomes a gate's.
PointerIsKept ==
  /\ gap \in Gaps /\ low \in [0 .. gap + BssBytes - 1 -> {0, PtrByte, GateByte, Stale}]
  /\ main = "boot" /\ at = "loader" => rdi = Bootinfo
  /\ main = "bss" => p \in Nat /\ p >= gap
  /\ main # "boot" => \A a \in 0 .. 7 : a < gap => low[a] = Bootinfo[a]
  /\ main \in {"fill", "init", "write", "halt", "kernel"} => low[gap] = GateByte

ChainInv ==
  LoaderInv /\ TableIsWhole /\ FaultsAreShown /\ PointerIsKept /\ PointerArrives

-----------------------------------------------------------------------------
(* The kernel loader as the caller of the polling driver: its steps        *)
(* preserve LoaderInv.                                                     *)

\* What AtaPoll says of a single call, whoever makes it.
CallInv == TypeOK /\ LocalsAgree /\ DriveFollowsCall /\ HandedOverIsStored

LEMMA CallStep ==
  ASSUME CallInv, [AnyNext]_vars
  PROVE  CallInv'
BY LocalsStep, DeviceStep, FollowStep, WriteStep DEF CallInv, TypeOK, LocalsType, DeviceType

\* But for the loop that fills the memory, the loader does nothing to the driver
\* that not any caller could do.
LEMMA LoaderCalls ==
  ASSUME LoaderStep \/ DriveMoves, ~Fill
  PROVE  [AnyNext]_vars
<1>1. "WRITE_48" \in Ops /\ KernelLba \in Nat /\ KernelSectors \in 0 .. BufferSectors
  BY KernelLoaderAssumption, AtaPollAssumption DEF Ops
<1>2. CASE TryInit \/ Leave
  BY <1>2 DEF TryInit, Leave, AnyNext
<1>3. CASE StoreKernel
  BY <1>1, <1>3 DEF StoreKernel, AnyNext
<1>4. CASE Driver \/ DriveStep
  BY <1>4 DEF AnyNext
<1> QED BY <1>2, <1>3, <1>4 DEF LoaderStep, Main, DriveMoves

LEMMA CallsDiffer ==
  /\ NoCall # KernelWrite /\ KernelWrite.op = "WRITE_48" /\ ~IsRead(KernelWrite.op)
  /\ IsWrite(KernelWrite.op) /\ ~Is28(KernelWrite.op) /\ NoCall.op \notin Ops
  /\ KernelWrite.lba = KernelLba /\ KernelWrite.count = KernelSectors
BY DEF NoCall, KernelWrite, IsRead, IsWrite, Is28, Ops

\* Filling the memory happens before the first call.
LEMMA FillKeepsCall ==
  ASSUME CallInv, MainFollowsCall, Fill
  PROVE  CallInv'
<1>1. /\ UNCHANGED <<pc, callVars, timeout, result, drive, disk, late, calls>>
      /\ call = NoCall /\ pc = "out" /\ ~late
  BY CallsDiffer DEF Fill, MainFollowsCall
<1>2. mem' \in [0 .. BufferSectors - 1 -> Content]
  BY AtaPollAssumption DEF Fill, CallInv, TypeOK, FromMem, Content
<1>3. TypeOK' /\ LocalsAgree'
  BY <1>1, <1>2 DEF CallInv, TypeOK, LocalsAgree, callVars
<1>4. DriveFollowsCall'
  <2>1. drive.phase # "flush"
    BY <1>1 DEF CallInv, DriveFollowsCall
  <2> QED BY <1>1, <2>1 DEF CallInv, DriveFollowsCall, callVars
<1>5. HandedOverIsStored'
  BY <1>1, CallsDiffer DEF HandedOverIsStored, callVars, IsWrite, NoCall
<1> QED BY <1>3, <1>4, <1>5 DEF CallInv

\* A call goes through the states of its kind, and a wait of a transfer that runs
\* out ends it.
LEMMA DriverGoesOn ==
  ASSUME CallInv, Driver
  PROVE  /\ pc # "out" /\ call' = call
         /\ pc \in InitPcs => pc' \in InitPcs \cup {"out"} /\ late' = late
         /\ pc \notin InitPcs => pc \in TransferPcs /\ pc' \notin InitPcs
         /\ late' # late => pc' = "out" /\ result' = 0
<1> USE DEF InitPcs, TransferPcs, Return, GoTo, callVars
<1>1. late \in BOOLEAN
  BY DEF CallInv, TypeOK
<1>2. CASE ata_init_wait \/ ata_init_cmd \/ ata_init_check
  BY <1>2 DEF ata_init_wait, ata_init_cmd, ata_init_check
<1>3. CASE ata_wait_idle
  BY <1>1, <1>3 DEF ata_wait_idle, TimeoutOver
<1>4. CASE Issue \/ MoveSector
  BY <1>4 DEF Issue, MoveSector
<1>5. CASE ata_wait_drq
  BY <1>1, <1>5 DEF ata_wait_drq, TimeoutOver
<1> QED BY <1>2, <1>3, <1>4, <1>5 DEF Driver

LEMMA MainStep ==
  ASSUME LoaderInv, LoaderStep \/ DriveMoves
  PROVE  MainFollowsCall'
<1> USE CallsDiffer DEF LoaderInv, MainFollowsCall
<1>1. CASE Fill
  BY <1>1 DEF Fill, callVars, InitPcs
<1>2. CASE TryInit
  BY <1>2 DEF TryInit, ata_init, GoTo
<1>3. CASE StoreKernel
  <2>1. call' = KernelWrite /\ pc' = "idle" /\ main' = "write" /\ late' = late /\ ~late
    BY <1>3 DEF StoreKernel, BeginTransfer, GoTo, KernelWrite
  <2> QED BY <2>1 DEF InitPcs
<1>4. CASE Leave
  BY <1>4 DEF Leave, vars, callVars
<1>5. CASE main \in {"init", "write"} /\ Driver /\ UNCHANGED main
  <2>1. /\ pc # "out" /\ call' = call /\ ~late
        /\ pc \in InitPcs => pc' \in InitPcs \cup {"out"} /\ late' = late
        /\ pc \notin InitPcs => pc \in TransferPcs /\ pc' \notin InitPcs
        /\ late' # late => pc' = "out" /\ result' = 0
    BY <1>5, DriverGoesOn DEF CallInv
  <2>2. pc \in TransferPcs => call = KernelWrite
    BY DEF LocalsAgree
  <2>3. late' => call = KernelWrite /\ pc' = "out" /\ result' = 0
    <3>1. late \in BOOLEAN
      BY DEF TypeOK
    <3> QED BY <2>1, <2>2, <3>1
  <2> QED BY <1>5, <2>1, <2>3
<1>6. CASE DriveMoves
  BY <1>6 DEF DriveMoves, DriveStep, callVars
<1> QED BY <1>1, <1>2, <1>3, <1>4, <1>5, <1>6 DEF LoaderStep, Main

\* The memory at 4 MiB changes only while it is filled: a write moves data out.
LEMMA MemoryStep ==
  ASSUME LoaderInv, LoaderStep \/ DriveMoves
  PROVE  KernelInMemory'
<1> USE CallsDiffer DEF LoaderInv
<1>1. CASE Fill
  <2>1. \A i \in 0 .. KernelSectors - 1 : mem'[i] = FromMem(i)
    BY <1>1, KernelLoaderAssumption, AtaPollAssumption DEF Fill, TypeOK
  <2> QED BY <2>1 DEF KernelInMemory
<1>2. CASE ~Fill
  <2>1. mem' = mem
    <3>1. CASE MoveSector
      <4>1. ~IsRead(call.op)
        BY <3>1 DEF MoveSector, LocalsAgree, TransferPcs, MainFollowsCall
      <4> QED BY <3>1, <4>1 DEF MoveSector
    <3>2. CASE ~MoveSector
      BY <1>2, <3>2, LoaderCalls, OnlyMoveSectorMoves
    <3> QED BY <3>1, <3>2
  <2>2. (main \in {"init", "write", "halt", "kernel", "int3"} \/ call = KernelWrite)'
          => main \in {"init", "write", "halt", "kernel", "int3"} \/ call = KernelWrite
    <3>1. main' = main \/ main \in {"init", "write"}
      BY <1>2 DEF LoaderStep, Main, DriveMoves, TryInit, StoreKernel, Leave
    <3>2. call' = call \/ main = "init"
      BY <1>2, DriverGoesOn
      DEF LoaderStep, Main, DriveMoves, DriveStep, TryInit, StoreKernel, Leave, vars, callVars, CallInv
    <3> QED BY <3>1, <3>2
  <2> QED BY <2>1, <2>2 DEF KernelInMemory
<1> QED BY <1>1, <1>2

\* A drive stores only what a driver has just handed over, where it was told to.
LEMMA FlushStep ==
  ASSUME drive \in Drive, [AnyNext]_vars, drive'.phase = "flush", ~MoveSector
  PROVE  drive.phase = "flush" /\ drive'.target = drive.target
<1>1. CASE UNCHANGED vars \/ \E o \in Ops, l \in Nat, n \in 0 .. BufferSectors : BeginTransfer(o, l, n)
  BY <1>1 DEF vars, BeginTransfer
<1>2. CASE ata_init
  BY <1>2 DEF ata_init, AfterControl, AfterDriveSel, Drive
<1>3. CASE ata_init_wait \/ ata_wait_idle \/ ata_wait_drq \/ ata_init_check
  <2>1. drive' \in {drive, AfterStatusRead(drive)}
    BY <1>3 DEF ata_init_wait, ata_wait_idle, ata_wait_drq, ata_init_check, StatusRead, TimeoutOver
  <2> QED BY <2>1 DEF AfterStatusRead, Drive
<1>4. CASE ata_init_cmd
  BY <1>4 DEF ata_init_cmd, AfterCommand, Drive
<1>5. CASE Issue
  <2> DEFINE d == IF Is28(call.op) THEN ata_lba28_set(drive) ELSE ata_lba48_set(drive)
  <2>1. d.phase = drive.phase /\ (drive.phase # "ready" => d = drive)
    BY DEF ata_lba28_set, ata_lba48_set, AfterLba, AfterDriveSel, Drive
  <2>2. PICK c \in {"read", "write"}, e \in BOOLEAN : drive' = AfterCommand(d, c, e)
    BY <1>5 DEF Issue
  <2>3. CASE drive.phase = "ready"
    <3>1. d \in {[drive EXCEPT !.head = d.head, !.low = d.low]}
      BY DEF ata_lba28_set, ata_lba48_set, AfterLba, AfterDriveSel, Drive
    <3> HIDE DEF d
    <3>2. drive'.phase = "busy"
      BY <2>1, <2>2, <2>3, <3>1 DEF AfterCommand, Drive
    <3> QED BY <3>2
  <2>4. CASE drive.phase # "ready"
    <3> HIDE DEF d
    <3> QED BY <2>1, <2>2, <2>4 DEF AfterCommand
  <2> QED BY <2>3, <2>4
<1>6. CASE DriveStep
  BY <1>6 DEF DriveStep, AfterOffer, AfterFail, AfterSettle, AfterStore, Drive
<1> QED BY <1>1, <1>2, <1>3, <1>4, <1>5, <1>6 DEF AnyNext, Driver

\* What the drive's buffer holds was put there by the transfer of the kernel, for
\* one of its sectors: they all lie where 48 bits reach.
LEMMA MediumStep ==
  ASSUME LoaderInv, LoaderStep \/ DriveMoves
  PROVE  OnlyKernelOnMedium'
<1> USE CallsDiffer DEF LoaderInv
<1>1. drive \in Drive /\ disk \in [DiskLbas -> Content]
  BY DEF TypeOK
<1>2. call = KernelWrite => call' = KernelWrite
  BY DriverGoesOn DEF LoaderStep, Main, DriveMoves, DriveStep, Fill, TryInit, StoreKernel,
    Leave, vars, callVars, CallInv, MainFollowsCall
<1>3. ASSUME NEW l \in DiskLbas, disk'[l] # FromDisk(l)
      PROVE  call' = KernelWrite /\ l \in KernelLbas
  <2>1. CASE disk' = disk
    BY <1>2, <1>3, <2>1 DEF OnlyKernelOnMedium
  <2>2. CASE disk' # disk
    <3>1. Stores
      BY <2>2, LoaderCalls, OnlyStoresChangeDisk DEF Fill
    <3>2. /\ drive.phase = "flush" /\ disk' = [disk EXCEPT ![drive.target] = drive.buf]
      BY <3>1 DEF Stores, CanStore, DiskAfterStore
    <3>3. call = KernelWrite /\ drive.target \in KernelLbas
      BY <3>2 DEF OnlyKernelOnMedium
    <3>4. CASE l = drive.target
      BY <1>2, <3>3, <3>4
    <3>5. CASE l # drive.target
      BY <1>1, <1>2, <1>3, <3>2, <3>5 DEF OnlyKernelOnMedium
    <3> QED BY <3>4, <3>5
  <2> QED BY <2>1, <2>2
<1>4. ASSUME drive'.phase = "flush"
      PROVE  call' = KernelWrite /\ drive'.target \in KernelLbas
  <2>1. CASE ~MoveSector
    <3>1. drive.phase = "flush" /\ drive'.target = drive.target
      BY <1>1, <1>4, <2>1, LoaderCalls, FlushStep DEF Fill
    <3> QED BY <1>2, <3>1 DEF OnlyKernelOnMedium
  <2>2. CASE MoveSector
    <3>1. ~late /\ call = KernelWrite /\ sector_count # 0
      BY <2>2 DEF MoveSector, LocalsAgree, TransferPcs, MainFollowsCall
    <3>2. /\ ptr \in 0 .. KernelSectors - 1
          /\ drive.target = TargetOf(call.op, KernelLba + ptr)
      BY <2>2, <3>1, AtXfer, KernelLoaderAssumption, AtaPollAssumption
      DEF TypeOK, LocalsType, LocalsAgree
    <3>3. drive.target = KernelLba + ptr
      <4>1. KernelLba + ptr \in Nat /\ Addressable(call.op, KernelLba + ptr)
        BY <3>1, <3>2, KernelLoaderAssumption, DriveAssumption DEF Addressable
      <4> QED BY <3>2, <4>1, TargetOfAddressable
    <3>4. drive'.target = drive.target
      BY <1>1, <2>2, <3>1 DEF MoveSector, AfterFill, Drive
    <3> QED BY <1>2, <3>1, <3>2, <3>3, <3>4, KernelLoaderAssumption DEF KernelLbas
  <2> QED BY <2>1, <2>2
<1> QED BY <1>3, <1>4 DEF OnlyKernelOnMedium

-----------------------------------------------------------------------------
LEMMA LoaderKeepsInv ==
  ASSUME LoaderInv, LoaderStep \/ DriveMoves
  PROVE  LoaderInv'
<1>1. CallInv'
  BY CallStep, FillKeepsCall, LoaderCalls DEF LoaderInv, CallInv
<1> QED BY <1>1, MainStep, MemoryStep, MediumStep DEF LoaderInv, CallInv

\* Where another part of the chain has moved kmain on, and left the driver alone.
LEMMA MainMoves ==
  ASSUME LoaderInv, UNCHANGED vars,
         \/ main' = main \/ main' = "stopped"
         \/ main \in {"boot", "bss"} /\ main' \in {"bss", "fill"}
         \/ main = "kernel" /\ main' = "int3"
  PROVE  LoaderInv'
<1>1. (TypeOK /\ LocalsAgree /\ DriveFollowsCall /\ HandedOverIsStored)'
  BY DEF LoaderInv, TypeOK, LocalsAgree, DriveFollowsCall, HandedOverIsStored, vars, callVars
<1>2. MainFollowsCall'
  BY DEF LoaderInv, MainFollowsCall, vars, callVars
<1>3. KernelInMemory' /\ OnlyKernelOnMedium'
  BY DEF LoaderInv, KernelInMemory, OnlyKernelOnMedium, vars, callVars
<1> QED BY <1>1, <1>2, <1>3 DEF LoaderInv

-----------------------------------------------------------------------------
\* What the invariant says at the handover, and of the medium.
LEMMA StoredAtHandover == LoaderInv => HandoverMeansStored
<1> SUFFICES ASSUME LoaderInv, main = "kernel", NEW l \in DiskLbas
             PROVE  disk[l] = IF l \in KernelLbas THEN FromMem(l - KernelLba) ELSE FromDisk(l)
  BY DEF HandoverMeansStored, KernelLbas
<1> USE CallsDiffer DEF LoaderInv
<1>1. call = KernelWrite /\ pc = "out" /\ result = 1 /\ ~late
  BY DEF MainFollowsCall
<1>2. ptr = KernelSectors
  BY <1>1 DEF TypeOK, LocalsAgree
<1>3. drive.phase # "flush" /\ ~drive.err
  BY <1>1 DEF DriveFollowsCall
<1>4. CASE l \in KernelLbas
  <2> DEFINE i == l - KernelLba
  <2>1. i \in 0 .. KernelSectors - 1 /\ KernelLba + i = l /\ l < Span48
    BY <1>4, KernelLoaderAssumption, DriveAssumption DEF KernelLbas, DiskLbas
  <2>2. Addressable(call.op, call.lba + i)
    BY <1>1, <2>1 DEF Addressable
  <2> HIDE DEF i
  <2>3. disk[l] = mem[i]
    BY <1>1, <1>2, <1>3, <2>1, <2>2 DEF HandedOverIsStored
  <2>4. mem[i] = FromMem(i)
    BY <1>1, <2>1 DEF KernelInMemory
  <2> QED BY <1>4, <2>3, <2>4 DEF i
<1>5. CASE l \notin KernelLbas
  BY <1>5 DEF OnlyKernelOnMedium
<1> QED BY <1>4, <1>5

LEMMA OnlyKernelThere == LoaderInv => OnlyKernelSectors
BY CallsDiffer DEF LoaderInv, MainFollowsCall, OnlyKernelOnMedium, OnlyKernelSectors, KernelLbas

-----------------------------------------------------------------------------
(* The boot chain.                                                         *)

\* The two instances of Boot, the chain's own and the one with the proofs, are one.
LEMMA SameNext == Boot!Next <=> Stage!Next
<1>1. Boot!UsesStack <=> Stage!UsesStack
  BY DEF Boot!UsesStack, Stage!UsesStack, Boot!StackTop, Stage!StackTop,
         Boot!pml4, Stage!pml4
<1>2. Boot!VbeFail <=> Stage!VbeFail
  BY Zenon DEF Boot!VbeFail, Stage!VbeFail, Boot!NoVbe, Stage!NoVbe
<1>3. Boot!Boot1 <=> Stage!Boot1
  BY Zenon DEF Boot!Boot1, Stage!Boot1, Boot!Int13, Stage!Int13, Boot!Loaded,
         Stage!Loaded, Boot!dap_boot2, Stage!dap_boot2
<1>4. Boot!Boot2 <=> Stage!Boot2
  BY <1>1, Zenon DEF Boot!Boot2, Stage!Boot2, Boot!Int13, Stage!Int13,
         Boot!Loaded, Stage!Loaded, Boot!dap_kernel, Stage!dap_kernel
<1>5. Boot!E820Call <=> Stage!E820Call
  <2> DEFINE ax == (bp * 24) % 65536
  <2>1. Boot!Int15(ax, ebx) = Stage!Int15(ax, ebx)
    BY DEF Boot!Int15, Stage!Int15
  <2>2. ASSUME NEW a PROVE Boot!Turn(a) <=> Stage!Turn(a)
    BY Zenon DEF Boot!Turn, Stage!Turn, Boot!E820_MAX, Stage!E820_MAX
  <2>3. /\ Boot!E820Call <=> /\ at = "e820" /\ \E a \in Boot!Int15(ax, ebx) : Boot!Turn(a)
                            /\ Boot!UsesStack /\ UNCHANGED <<dl, ram, display, cpu>>
        /\ Stage!E820Call <=> /\ at = "e820" /\ \E a \in Stage!Int15(ax, ebx) : Stage!Turn(a)
                             /\ Stage!UsesStack /\ UNCHANGED <<dl, ram, display, cpu>>
    BY DEF Boot!E820Call, Stage!E820Call
  <2> HIDE DEF ax
  <2> QED BY <1>1, <2>1, <2>2, <2>3
<1>6. Boot!VbeInfo <=> Stage!VbeInfo
  BY <1>1, <1>2, Zenon DEF Boot!VbeInfo, Stage!VbeInfo
<1>7. Boot!VbeSet <=> Stage!VbeSet
  BY <1>1, <1>2, Zenon DEF Boot!VbeSet, Stage!VbeSet, Boot!VBE_MODE,
         Stage!VBE_MODE
<1>8. Boot!enter_protected_mode <=> Stage!enter_protected_mode
  BY Zenon DEF Boot!enter_protected_mode, Stage!enter_protected_mode, Boot!Run,
         Stage!Run, Boot!GoesOn, Stage!GoesOn
<1>9. Boot!enter_long_mode <=> Stage!enter_long_mode
  BY Zenon DEF Boot!enter_long_mode, Stage!enter_long_mode, Boot!Run, Stage!Run,
         Boot!GoesOn, Stage!GoesOn
<1> QED BY <1>3, <1>4, <1>5, <1>6, <1>7, <1>8, <1>9, Zenon DEF Boot!Next, Stage!Next

LEMMA SameInit == Boot!Init <=> Stage!Init
BY Zenon DEF Boot!Init, Stage!Init, Boot!Nothing, Stage!Nothing, Boot!Stages,
             Stage!Stages, Boot!NoVbe, Stage!NoVbe, Boot!RealMode,
             Stage!RealMode

\* Only steps of the boot sector and the second stage touch their state: neither
\* the loader's own steps nor the drive, nor an exception.
LEMMA StepIsBootStep ==
  ASSUME [ChainNext]_chainVars
  PROVE  [Stage!Next]_(Stage!bootVars)
<1>1. CASE BootStep
  BY <1>1, SameNext DEF BootStep
<1>2. CASE Start \/ ZeroBss \/ IdtInit \/ Kmain \/ Medium \/ Enter \/ Fault
  BY <1>2 DEF Start, ZeroBss, IdtInit, Kmain, Medium, Enter, Fault,
              bootVars, Stage!bootVars
<1>3. CASE UNCHANGED chainVars
  BY <1>3 DEF chainVars, bootVars, Stage!bootVars
<1> QED BY <1>1, <1>2, <1>3 DEF ChainNext

\* The chain implements the boot stages: put into the whole machine, with the loader,
\* its exceptions and the drive behind them, they do what they do alone.
THEOREM ChainRunsBoot == ChainSpec => Stage!Spec
<1>1. ChainInit => Stage!Init
  BY SameInit DEF ChainInit
<1>2. [ChainNext]_chainVars => [Stage!Next]_(Stage!bootVars)
  BY StepIsBootStep
<1> QED BY <1>1, <1>2, PTL DEF ChainSpec, Stage!Spec

\* No stage runs unless all of it was read, from the drive the machine was booted
\* from (boot1.asm, lines 14-23, and boot2.asm, lines 19-24), for every loader of
\* at most 16 sectors.
THEOREM StagesLoaded ==
  ASSUME Stage!Fits
  PROVE  ChainSpec => []StagesAreLoaded
<1>1. Stage!Spec => []Stage!StagesAreLoaded
  BY Stage!StagesLoaded
<1>2. Stage!StagesAreLoaded => StagesAreLoaded
  BY Zenon DEF StagesAreLoaded, Boot!StagesAreLoaded, Stage!StagesAreLoaded,
               Boot!Complete, Stage!Complete, Boot!OnMedium, Stage!OnMedium
<1> QED BY <1>1, <1>2, ChainRunsBoot, PTL

\* What the kernel loader and the kernel find as bootinfo: framebuffer fields and
\* mode that go together, and an empty map, whatever the BIOS answers (get_vbe and
\* get_e820_map of boot2.asm).
THEOREM BootinfoConsistent ==
  ASSUME Stage!Fits
  PROVE  ChainSpec => []BootinfoIsConsistent
<1>1. Stage!Spec => []Stage!BootinfoIsConsistent
  BY Stage!BootinfoConsistent
<1>2. Stage!BootinfoIsConsistent => BootinfoIsConsistent
  BY Zenon DEF BootinfoIsConsistent, Boot!BootinfoIsConsistent,
               Stage!BootinfoIsConsistent, Boot!NoVbe, Stage!NoVbe
<1> QED BY <1>1, <1>2, ChainRunsBoot, PTL

\* No step of the way to long mode is refused, whatever BIOS calls did before, as
\* long as none of them uses more than 2038 bytes of stack (boot2.asm, line 16).
THEOREM SwitchesHold ==
  ASSUME Stage!Fits
  PROVE  ChainSpec => []ModeSwitchHolds
<1>1. Stage!Spec => []Stage!ModeSwitchHolds
  BY Stage!SwitchesHold
<1>2. Stage!ModeSwitchHolds => ModeSwitchHolds
  BY DEF ModeSwitchHolds, Boot!ModeSwitchHolds, Stage!ModeSwitchHolds
<1> QED BY <1>1, <1>2, ChainRunsBoot, PTL

-----------------------------------------------------------------------------
(* The table of exception handlers.                                        *)

\* A quotient and a remainder are determined by what they divide.
LEMMA DivUnique ==
  ASSUME NEW x \in Nat, NEW n \in Nat \ {0}, NEW q \in Nat, NEW r \in 0 .. n - 1, x = n * q + r
  PROVE  x \div n = q
<1> DEFINE d == x \div n
           s == x % n
<1>1. d \in Nat /\ s \in 0 .. n - 1 /\ x = n * d + s
  OBVIOUS
<1> HIDE DEF d, s
<1>2. ~(q - d >= 1)
  <2> SUFFICES ASSUME q - d >= 1 PROVE FALSE
    OBVIOUS
  <2>1. n * (q - d) >= n * 1 /\ n * (q - d) = s - r
    BY <1>1
  <2> QED BY <1>1, <2>1
<1>3. ~(d - q >= 1)
  <2> SUFFICES ASSUME d - q >= 1 PROVE FALSE
    OBVIOUS
  <2>1. n * (d - q) >= n * 1 /\ n * (d - q) = r - s
    BY <1>1
  <2> QED BY <1>1, <2>1
<1> QED BY <1>1, <1>2, <1>3 DEF d

\* The three parts of a handler's address name it, however large it is.
LEMMA GateNamesHandler ==
  ASSUME NEW a \in Nat
  PROVE  GateTarget(idt_gate(a)) = a
<1> DEFINE q == a \div Half
           r == a % Half
           h == q \div Half
           m == q % Half
<1>1. q \in Nat /\ r \in 0 .. Half - 1 /\ a = Half * q + r
  BY IdtAssumption
<1>2. h \in Nat /\ m \in 0 .. Half - 1 /\ q = Half * h + m
  <2> HIDE DEF q
  <2> QED BY <1>1, IdtAssumption
<1>3. a \div (Half * Half) = h
  <2> HIDE DEF q, r, h, m
  <2>1. Half * Half \in Nat \ {0} /\ Half * m + r \in 0 .. Half * Half - 1
    <3>1. Half * m <= Half * (Half - 1) /\ Half * m \in Nat
      BY <1>2, IdtAssumption
    <3> QED BY <1>1, <3>1, IdtAssumption
  <2>2. a = (Half * Half) * h + (Half * m + r)
    <3>1. Half * q = Half * (Half * h) + Half * m
      BY <1>2, IdtAssumption
    <3>2. Half * (Half * h) = (Half * Half) * h
      BY <1>2, IdtAssumption
    <3> QED BY <1>1, <1>2, <3>1, <3>2, IdtAssumption
  <2>3. ASSUME NEW n \in Nat \ {0}, NEW t \in 0 .. n - 1, a = n * h + t
        PROVE  a \div n = h
    BY <1>2, <2>3, DivUnique
  <2> QED BY <2>1, <2>2, <2>3
<1>4. GateTarget(idt_gate(a)) = r + m * Half + h * Half * Half
  BY <1>3 DEF GateTarget, idt_gate
<1> HIDE DEF q, r, h, m
<1>5. h * Half * Half = Half * (Half * h) /\ m * Half = Half * m
  BY <1>2, IdtAssumption
<1>6. Half * q = Half * (Half * h) + Half * m
  BY <1>2, IdtAssumption
<1> QED BY <1>1, <1>2, <1>4, <1>5, <1>6, IdtAssumption

\* What idt_init leaves: every exception that has a gate shows its own message,
\* the others that of the general protection fault.
LEMMA TableDelivers ==
  ASSUME NEW v \in Vectors
  PROVE  Deliver(idt_init(ZeroIdt), v) = Message(IF v \in Gated THEN v ELSE 13)
<1> DEFINE t == idt_init(ZeroIdt)
<1>1. \A w \in Gated : w \in Vectors /\ HandlerAt[w] \in Nat
  BY IdtAssumption DEF Gated, Vectors
<1>2. \A w \in Gated : t[w] = idt_gate(HandlerAt[w])
  BY <1>1 DEF idt_init
<1>3. \A w \in Gated : Usable(t[w])
  <2> SUFFICES ASSUME NEW w \in Gated PROVE Usable(idt_gate(HandlerAt[w]))
    BY <1>2
  <2> QED BY DEF Usable, idt_gate
<1>4. v \notin Gated => ~Usable(t[v])
  BY DEF idt_init, ZeroIdt, ZeroGate, Usable
<1>5. ASSUME NEW w \in Gated PROVE Entered(t, w) = Message(w)
  <2>1. GateTarget(t[w]) = HandlerAt[w]
    BY <1>1, <1>2, GateNamesHandler
  <2>2. \A h \in Gated : HandlerAt[h] = GateTarget(t[w]) <=> h = w
    BY <2>1, IdtAssumption
  <2>3. (CHOOSE h \in Gated : HandlerAt[h] = GateTarget(t[w])) = w
    BY <2>2, Zenon
  <2>4. (w \in TakesErrorCode) = (w \in PushesErrorCode)
    BY DEF TakesErrorCode, PushesErrorCode
  <2> HIDE DEF t
  <2> QED BY <2>2, <2>3, <2>4, Zenon DEF Entered
<1>6. 13 \in Gated
  BY DEF Gated
<1> SUFFICES Deliver(t, v) = Message(IF v \in Gated THEN v ELSE 13)
  OBVIOUS
<1> HIDE DEF t
<1>7. CASE v \in Gated
  BY <1>3, <1>5, <1>7 DEF Deliver
<1>8. CASE v \notin Gated
  BY <1>3, <1>4, <1>5, <1>6, <1>8 DEF Deliver
<1> QED BY <1>7, <1>8

-----------------------------------------------------------------------------
(* ChainInv is inductive.                                                  *)

LEMMA ChainInitInv == ChainInit => ChainInv
<1> SUFFICES ASSUME ChainInit PROVE ChainInv
  OBVIOUS
<1> USE CallsDiffer DEF ChainInit
<1>1. DriverInit /\ mem \in [0 .. BufferSectors - 1 -> Content] /\ main = "boot"
  BY DEF Garbage, Content
<1>2. /\ TypeOK /\ LocalsAgree /\ DriveFollowsCall /\ HandedOverIsStored
  BY <1>1, InitSatisfies DEF IInv
<1>3. pc = "out" /\ call = NoCall /\ ~late /\ disk = [l \in DiskLbas |-> FromDisk(l)]
  BY <1>1 DEF DriverInit
<1>4. drive.phase # "flush"
  BY <1>2, <1>3 DEF DriveFollowsCall
<1>5. LoaderInv
  BY <1>1, <1>2, <1>3, <1>4 DEF LoaderInv, MainFollowsCall, KernelInMemory, OnlyKernelOnMedium
<1>6. TableIsWhole /\ FaultsAreShown
  BY <1>1 DEF TableIsWhole, FaultsAreShown
<1>7. PointerIsKept /\ PointerArrives
  <2>1. at # "loader"
    BY DEF Boot!Init
  <2> QED BY <1>1, <2>1 DEF PointerIsKept, PointerArrives
<1> QED BY <1>5, <1>6, <1>7 DEF ChainInv

\* The other steps of the chain leave the driver alone.
LEMMA ChainLoaderStep ==
  ASSUME LoaderInv, ChainNext
  PROVE  LoaderInv'
<1>1. CASE BootStep
  BY <1>1, MainMoves DEF BootStep, loaderVars
<1>2. CASE Start
  BY <1>2, MainMoves DEF Start
<1>3. CASE ZeroBss
  BY <1>3, MainMoves DEF ZeroBss, loaderVars
<1>4. CASE IdtInit
  BY <1>4, MainMoves DEF IdtInit
<1>5. CASE Kmain \/ Medium
  BY <1>5, LoaderKeepsInv DEF Kmain, Medium
<1>6. CASE Enter
  BY <1>6, MainMoves DEF Enter
<1>7. CASE Fault
  BY <1>7, MainMoves DEF Fault
<1> QED BY <1>1, <1>2, <1>3, <1>4, <1>5, <1>6, <1>7 DEF ChainNext

\* Where kmain goes in the loader's own steps.
LEMMA MainInLoader ==
  ASSUME LoaderStep \/ DriveMoves
  PROVE  \/ main' = main
         \/ main \in {"fill", "init", "write"} /\ main' \in {"init", "write", "kernel", "halt"}
BY DEF LoaderStep, DriveMoves, Main, Fill, TryInit, StoreKernel, Leave

LEMMA TableStep ==
  ASSUME TableIsWhole, ChainNext
  PROVE  TableIsWhole'
<1> USE DEF TableIsWhole
<1>1. CASE BootStep
  BY <1>1 DEF BootStep, loaderVars, faultVars
<1>2. CASE Start
  BY <1>2 DEF Start, faultVars
<1>3. CASE ZeroBss
  BY <1>3 DEF ZeroBss, loaderVars, faultVars
<1>4. CASE IdtInit
  BY <1>4 DEF IdtInit, faultVars
<1>5. CASE Kmain \/ Medium
  BY <1>5, MainInLoader DEF Kmain, Medium, entryVars, faultVars
<1>6. CASE Enter
  BY <1>6 DEF Enter
<1>7. CASE Fault
  BY <1>7 DEF Fault, entryVars
<1> QED BY <1>1, <1>2, <1>3, <1>4, <1>5, <1>6, <1>7 DEF ChainNext

\* The int3 of the loader's filling is an exception like the others: it lies in
\* memory when the kernel's first instruction is fetched.
LEMMA ShownStep ==
  ASSUME LoaderInv, TableIsWhole, FaultsAreShown, ChainNext
  PROVE  FaultsAreShown'
<1> USE DEF FaultsAreShown
<1>1. CASE BootStep \/ Start \/ ZeroBss \/ IdtInit
  BY <1>1 DEF BootStep, Start, ZeroBss, IdtInit, faultVars, TableIsWhole
<1>2. CASE Kmain \/ Medium
  BY <1>2 DEF Kmain, Medium, entryVars, faultVars
<1>3. CASE Enter
  <2>1. mem[0] = FromMem(0)
    BY <1>3, KernelLoaderAssumption DEF Enter, LoaderInv, KernelInMemory
  <2>2. fault' = 3 /\ screen' = Deliver(idt, 3) /\ idtr' = idtr
    BY <1>3, <2>1 DEF Enter
  <2> QED BY <2>2, TableDelivers DEF TableIsWhole, Vectors
<1>4. CASE Fault
  <2>1. PICK v \in Faults : fault' = v /\ screen' = IF idtr THEN Deliver(idt, v) ELSE Reset
    BY <1>4 DEF Fault
  <2>2. v \in Vectors /\ idtr' = idtr
    BY <1>4, BootChainAssumption DEF Fault, entryVars
  <2> QED BY <2>1, <2>2, TableDelivers DEF TableIsWhole
<1> QED BY <1>1, <1>2, <1>3, <1>4 DEF ChainNext

\* The loop over the bss never reaches its own pointer, which lies below the bss,
\* and clears no byte in front of it.
LEMMA LoopStep ==
  ASSUME PointerIsKept, main = "bss", ZeroBss
  PROVE  /\ p' \in Nat /\ p' >= gap
         /\ \/ low' = low
            \/ p \in DOMAIN low /\ low' = [low EXCEPT ![p] = 0]
<1>1. PICK g \in Gaps : g = gap /\ Bss(g)!Next
  BY DEF ZeroBss
<1>2. p \in Nat /\ p >= gap /\ gap \in Nat /\ BssBytes \in Nat
  BY BootChainAssumption DEF PointerIsKept
<1>3. CASE Bss(g)!ClearByte
  <2>1. p < g + BssBytes /\ low' = [low EXCEPT ![p] = 0] /\ p' = Bss(g)!AfterStore(p) + 1
    BY <1>3 DEF Bss!ClearByte
  <2>2. Bss(g)!AfterStore(p) = p
    BY <1>2 DEF Bss!AfterStore
  <2> QED BY <1>1, <1>2, <2>1, <2>2 DEF PointerIsKept
<1>4. CASE Bss(g)!EndLoop
  BY <1>2, <1>4 DEF Bss!EndLoop
<1> QED BY <1>1, <1>3, <1>4 DEF Bss!Next

LEMMA PointerStep ==
  ASSUME PointerIsKept, ChainNext
  PROVE  PointerIsKept'
<1> USE DEF PointerIsKept
<1>0. gap \in 4 .. 16 /\ BssBytes \in 4 .. 4096
  BY BootChainAssumption
<1>1. CASE BootStep
  BY <1>1 DEF BootStep, loaderVars, faultVars
<1>2. CASE Start
  <2>1. /\ main' = "bss" /\ p' = gap /\ gap' = gap
        /\ low' = [a \in DOMAIN low |-> IF a < 8 THEN Bootinfo[a] ELSE low[a]]
    BY <1>2 DEF Start
  <2>2. \A a \in 0 .. 7 : Bootinfo[a] \in {0, PtrByte}
    BY DEF Bootinfo
  <2>3. low' \in [0 .. gap + BssBytes - 1 -> {0, PtrByte, GateByte, Stale}]
    BY <2>1, <2>2
  <2>4. \A a \in 0 .. 7 : a < gap => low'[a] = Bootinfo[a]
    BY <1>0, <2>1
  <2>5. gap' \in Gaps
    BY <2>1
  <2>6. p' \in Nat /\ p' >= gap'
    BY <1>0, <2>1
  <2> QED BY <2>1, <2>3, <2>4, <2>5, <2>6
<1>3. CASE ZeroBss
  <2>1. main = "bss" /\ main' = main /\ gap' = gap
    BY <1>3 DEF ZeroBss, loaderVars
  <2>2. p' \in Nat /\ p' >= gap /\ (low' = low \/ (p \in DOMAIN low /\ low' = [low EXCEPT ![p] = 0]))
    BY <1>3, <2>1, LoopStep
  <2>3. low' \in [0 .. gap + BssBytes - 1 -> {0, PtrByte, GateByte, Stale}]
    BY <2>2
  <2>4. \A a \in 0 .. 7 : a < gap => low'[a] = low[a]
    BY <1>0, <2>1, <2>2
  <2> QED BY <2>1, <2>2, <2>3, <2>4
<1>4. CASE IdtInit
  <2>1. /\ main = "bss" /\ main' = "fill" /\ gap' = gap
        /\ low' = [a \in DOMAIN low |-> IF a - gap \in 0 .. 2 THEN GateByte ELSE low[a]]
    BY <1>4 DEF IdtInit
  <2>2. DOMAIN low = 0 .. gap + BssBytes - 1
    OBVIOUS
  <2>3. low' \in [0 .. gap + BssBytes - 1 -> {0, PtrByte, GateByte, Stale}]
    BY <2>1, <2>2
  <2>4. \A a \in 0 .. 7 : a < gap => low'[a] = low[a]
    BY <1>0, <2>1, <2>2
  <2>5. low'[gap] = GateByte
    BY <1>0, <2>1, <2>2
  <2> QED BY <2>1, <2>3, <2>4, <2>5
<1>5. CASE Kmain \/ Medium
  BY <1>5, MainInLoader DEF Kmain, Medium, entryVars, bootVars
<1>6. CASE Enter
  BY <1>6 DEF Enter, bootVars
<1>7. CASE Fault
  BY <1>7 DEF Fault, entryVars, bootVars
<1> QED BY <1>1, <1>2, <1>3, <1>4, <1>5, <1>6, <1>7 DEF ChainNext

LEMMA ArrivalStep ==
  ASSUME PointerIsKept, PointerArrives, ChainNext
  PROVE  PointerArrives'
<1> USE DEF PointerArrives
<1>1. CASE Enter
  <2>1. /\ gap \in 4 .. 16 /\ gap' = gap /\ rdi' = [i \in 0 .. 7 |-> low[i]]
        /\ \A a \in 0 .. 7 : a < gap => low[a] = Bootinfo[a]
        /\ low[gap] = GateByte
    BY <1>1, BootChainAssumption DEF Enter, PointerIsKept
  <2>2. CASE gap >= 8
    BY <2>1, <2>2 DEF Bootinfo
  <2>3. CASE gap < 8
    <3>1. gap \in 0 .. 7 /\ rdi'[gap] = GateByte
      BY <2>1, <2>3
    <3>2. Bootinfo[gap] # GateByte
      BY <3>1 DEF Bootinfo, PtrByte, GateByte
    <3> QED BY <2>1, <2>3, <3>1, <3>2
  <2> QED BY <2>1, <2>2, <2>3
<1>2. CASE Kmain \/ Medium
  BY <1>2, MainInLoader DEF Kmain, Medium, entryVars
<1>3. CASE BootStep \/ Start \/ ZeroBss \/ IdtInit \/ Fault
  BY <1>3 DEF BootStep, Start, ZeroBss, IdtInit, Fault, loaderVars
<1> QED BY <1>1, <1>2, <1>3 DEF ChainNext

-----------------------------------------------------------------------------
\* ChainInv is inductive, and so holds in every reachable state of the chain.
THEOREM ChainInvariance == ChainSpec => []ChainInv
<1>1. ASSUME ChainInv, ChainNext
      PROVE  ChainInv'
  BY <1>1, ChainLoaderStep, TableStep, ShownStep, PointerStep, ArrivalStep DEF ChainInv
<1>2. ASSUME ChainInv, UNCHANGED chainVars
      PROVE  ChainInv'
  <2>1. LoaderInv'
    BY <1>2, MainMoves DEF ChainInv, chainVars, loaderVars
  <2>2. UNCHANGED <<main, bootVars, entryVars, faultVars>>
    BY <1>2 DEF chainVars, loaderVars
  <2>3. (TableIsWhole /\ FaultsAreShown /\ PointerIsKept /\ PointerArrives)'
    BY <1>2, <2>2 DEF ChainInv, TableIsWhole, FaultsAreShown, PointerIsKept,
                      PointerArrives, bootVars, entryVars, faultVars
  <2> QED BY <2>1, <2>3 DEF ChainInv
<1> QED BY ChainInitInv, <1>1, <1>2, PTL DEF ChainSpec

\* The kernel is entered only when all its sectors are on the medium, where they
\* belong, and nothing else there has changed (kernelLoader/main.c, lines 14-23),
\* for every drive, every place and size of the kernel 48 bits reach, and every
\* number of failures before.
THEOREM HandoversMeanStored == ChainSpec => []HandoverMeansStored
BY ChainInvariance, StoredAtHandover, PTL DEF ChainInv

\* The medium is written only in the kernel's sectors, whatever fails and whenever
\* an exception stops the loader.
THEOREM OnlyKernelIsWritten == ChainSpec => []OnlyKernelSectors
BY ChainInvariance, OnlyKernelThere, PTL DEF ChainInv

\* From lidt on every exception ends in the message meant for it (idt.c), wherever
\* the linker puts the handlers.
THEOREM ExceptionsAreShown == ChainSpec => []FaultsAreShown
BY ChainInvariance, PTL DEF ChainInv

\* The bootinfo pointer arrives at 4 MiB just when the bss begins eight bytes or
\* more behind it (entry.asm, bootinfo_ptr).
THEOREM PointersArrive == ChainSpec => []PointerArrives
BY ChainInvariance, PTL DEF ChainInv
=============================================================================
