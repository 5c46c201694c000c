---------------------------- MODULE KernelLoader ----------------------------
(***************************************************************************)
(* The kernel loader, kernelLoader/main.c and entry.asm, as the caller of  *)
(* the polling driver: it fills the memory at 4 MiB with 0xCC, initialises *)
(* the drive, tries again until that succeeds, makes one transfer at       *)
(* KernelLba and jumps to 4 MiB.  The buffer is that memory; FromMem(i) is *)
(* its sector i when it is full of 0xCC.  What comes before and after is   *)
(* in BootChain.                                                           *)
(***************************************************************************)
EXTENDS AtaPoll

CONSTANTS
  KernelLba,      \* 2048
  KernelSectors   \* 256

ASSUME KernelLoaderAssumption ==
  /\ KernelLba \in Nat /\ KernelSectors \in 1 .. BufferSectors
  /\ KernelLba + KernelSectors <= Span48

VARIABLE main  \* where kmain stands: "fill", "init", "write", "halt", "kernel"

loaderVars == <<vars, main>>

\* for (p = 0x00400000; p < 0x00400000 + 256*512; p++) *p = 0xCC;
Fill ==
  /\ main = "fill"
  /\ mem' = [i \in DOMAIN mem |-> IF i < KernelSectors THEN FromMem(i) ELSE mem[i]]
  /\ main' = "init"
  /\ UNCHANGED <<pc, callVars, timeout, result, drive, disk, late, calls>>

\* while (!ata_init()) continue;
TryInit ==
  /\ main = "init" /\ result = 0
  /\ ata_init
  /\ UNCHANGED main

\* Faulty variant: one sector more than the image has.
StoreKernel_OneMore ==
  /\ main = "init" /\ result = 1
  /\ BeginTransfer("WRITE_48", KernelLba, KernelSectors + 1)
  /\ main' = "write"

StoreKernel ==
  /\ main = "init" /\ result = 1
  /\ BeginTransfer("WRITE_48", KernelLba, KernelSectors)
  /\ main' = "write"

\* Faulty variant: the outcome of the transfer is not looked at.
Leave_Unchecked ==
  /\ main = "write" /\ pc = "out"
  /\ main' = "kernel"
  /\ UNCHANGED vars

\* while (!success) hlt, or on to entry.asm's jump to 4 MiB.
Leave ==
  /\ main = "write" /\ pc = "out"
  /\ main' = IF result = 1 THEN "kernel" ELSE "halt"
  /\ UNCHANGED vars

Main == Fill \/ TryInit \/ StoreKernel \/ Leave

\* What the processor runs, and what the drive does meanwhile.
LoaderStep  == Main \/ (main \in {"init", "write"} /\ Driver /\ UNCHANGED main)
DriveMoves  == DriveStep /\ UNCHANGED main

(* A drive answers what it has accepted, and one that is asked again and   *)
(* again is, some time, done before the wait for it is over.               *)
SettleInTime ==
  /\ pc = "init_idle" /\ timeout > 0
  /\ CanSettle(drive) /\ drive' = AfterSettle(drive)
  /\ UNCHANGED <<pc, callVars, timeout, result, disk, mem, late, calls, main>>
DriveFairness ==
  WF_loaderVars(DriveMoves) /\ SF_loaderVars(SettleInTime)

-----------------------------------------------------------------------------
(* Properties.                                                             *)

\* The kernel is entered only when all its sectors are on the medium, at
\* KernelLba, and nothing else on the medium has changed: no timeout of
\* ata_init, however often, leaves anything behind that could misdirect them.
HandoverMeansStored ==
  main = "kernel" =>
    \A l \in DiskLbas :
      disk[l] = IF l \in KernelLba .. KernelLba + KernelSectors - 1
                THEN FromMem(l - KernelLba) ELSE FromDisk(l)

\* The medium is written only in the kernel's sectors, also when the loader
\* ends in hlt.
OnlyKernelSectors ==
  \A l \in DiskLbas :
    disk[l] # FromDisk(l) =>
      main # "init" /\ l \in KernelLba .. KernelLba + KernelSectors - 1

\* Once it has an initialised drive the loader gets somewhere: to the kernel or
\* to hlt, whatever the drive does then, or to a handler if a fault stops it.
LeavesTheTransfer == main = "write" ~> main # "write"

\* The loop over ata_init ends as soon as the drive lets it, with one exception:
\* after an error it never issues the command that would clear ERR, and goes on
\* for ever (ata_init fails on ERR, line 44, before SET_MULTIPLE).
InitLoopsOnlyOnError ==
  DriveFairness =>
    (main = "init" ~> main # "init" \/ [](drive.err \/ drive.phase = "absent"))

=============================================================================
