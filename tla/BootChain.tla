------------------------------ MODULE BootChain ------------------------------
(***************************************************************************)
(* From power-on to the first instruction at 4 MiB: the boot sector and    *)
(* the second stage (Boot) load the kernel loader and enter long mode; its *)
(* entry.asm keeps the bootinfo pointer in a variable, and its kmain       *)
(* clears the bss (BssLoop), sets up the table of exception handlers (Idt) *)
(* and goes on as KernelLoader says.  Interrupts are off from the second   *)
(* stage's last cli on, but exceptions are not: one of Faults may come at  *)
(* any time in kmain, and where no handler is installed that is a reset.   *)
(*                                                                         *)
(* low is the memory from bootinfo_ptr on, byte by byte.  entry.asm        *)
(* declares one byte (db 0) and stores eight; how far behind it the bss    *)
(* begins, with the table in it, depends on where the linker ends the data *)
(* section, which is aligned to 4, the bss to 16: one of Gaps.             *)
(***************************************************************************)
EXTENDS KernelLoader, Idt

CONSTANTS
  BootDrive, BiosDepths, LoaderSectors,  \* of Boot
  Gaps,       \* bytes from bootinfo_ptr to __bss_start: 4, 8, 12 or 16
  BssBytes,   \* size of the bss, a table of 4096 bytes in the code
  Faults      \* bound: the exceptions that may come

VARIABLES
  at, dl, ram, bp, ebx, bootinfo, display, tables, cpu,  \* of Boot
  gap, low,
  loop, p,     \* of BssLoop
  idt, idtr,   \* the table, and has lidt been executed?
  rdi,         \* what the code at 4 MiB is handed in RDI
  fault,       \* history: the exception that came, -1 if none has
  screen       \* what has become of it

bootVars  == <<at, dl, ram, bp, ebx, bootinfo, display, tables, cpu>>
entryVars == <<gap, low, loop, p, idt, idtr, rdi>>
faultVars == <<fault, screen>>
chainVars == <<loaderVars, bootVars, entryVars, faultVars>>

Boot   == INSTANCE Boot
Bss(g) == INSTANCE BssLoop WITH
  Base <- 256, Width <- 8, PtrAt <- -64,  \* the stack grows down from 0x20000
  BssStart <- g, BssEnd <- g + BssBytes, mem <- low

ASSUME BootChainAssumption ==
  /\ Boot!BootConstants
  /\ Gaps \subseteq 4 .. 16 /\ BssBytes \in 4 .. 4096 /\ Faults \subseteq Vectors
  /\ \A g \in Gaps : Bss(g)!BssConstants

(* The bytes of low: 0, those of the pointer that are not (bootinfo is at  *)
(* 0x8150), those of a gate, and what the memory held before.              *)
PtrByte  == 5
GateByte == 7
Stale    == 9
Bootinfo == [i \in 0 .. 7 |-> IF i < 2 THEN PtrByte ELSE 0]
Unset    == [i \in 0 .. 7 |-> Stale]
StaleIdt == [v \in Vectors |-> [ZeroGate EXCEPT !.low = 1]]

ChainInit ==
  /\ Boot!Init
  /\ DriverInit /\ mem = [i \in 0 .. BufferSectors - 1 |-> Garbage]
  /\ main = "boot"
  /\ gap \in Gaps
  /\ low = [a \in 0 .. gap + BssBytes - 1 |-> Stale]
  /\ loop = "done" /\ p = 0
  /\ idt = StaleIdt /\ idtr = FALSE
  /\ rdi = Unset
  /\ fault = -1 /\ screen = Reset

\* The last step of the second stage sets RDI (lea rdi, [rel bootinfo]).
BootStep ==
  /\ main = "boot"
  /\ Boot!Next
  /\ rdi' = IF at' = "loader" THEN Bootinfo ELSE rdi
  /\ UNCHANGED <<loaderVars, gap, low, loop, p, idt, idtr, faultVars>>

\* _start, up to the call of kmain, which uses RDI for its own arguments.
Start ==
  /\ main = "boot" /\ at = "loader"
  /\ low' = [a \in DOMAIN low |-> IF a < 8 THEN rdi[a] ELSE low[a]]
  /\ rdi' = Unset
  /\ main' = "bss" /\ loop' = "running" /\ p' = gap
  /\ UNCHANGED <<vars, bootVars, gap, idt, idtr, faultVars>>

\* The loop over the bss; when it is over the table is zero.
ZeroBss ==
  /\ main = "bss"
  /\ \E g \in Gaps : g = gap /\ Bss(g)!Next
  /\ idt' = IF loop' = "done" THEN ZeroIdt ELSE idt
  /\ UNCHANGED <<loaderVars, bootVars, gap, idtr, rdi, faultVars>>

\* Faulty variant: the table is set up before the bss, where it lies, is cleared.
IdtInit_BeforeBss ==
  /\ main = "bss" /\ p = gap
  /\ idt' = idt_init(ZeroIdt) /\ idtr' = TRUE
  /\ main' = IF loop = "done" THEN "fill" ELSE "bss"
  /\ UNCHANGED <<vars, bootVars, gap, low, loop, p, rdi, faultVars>>

\* idt_init; the bytes are those of idt[0]: the low half of isr0_divide_error's
\* address and the selector 0x0018.
IdtInit ==
  /\ main = "bss" /\ loop = "done"
  /\ idt' = idt_init(idt) /\ idtr' = TRUE
  /\ low' = [a \in DOMAIN low |-> IF a - gap \in 0 .. 2 THEN GateByte ELSE low[a]]
  /\ main' = "fill"
  /\ UNCHANGED <<vars, bootVars, gap, loop, p, rdi, faultVars>>

Kmain  == LoaderStep /\ UNCHANGED <<bootVars, entryVars, faultVars>>
Medium == DriveMoves /\ UNCHANGED <<bootVars, entryVars, faultVars>>

\* Faulty variant: RDI is not loaded again.
Enter_RdiAsLeft ==
  /\ main = "kernel"
  /\ fault' = 3
  /\ screen' = IF mem[0] = FromMem(0) THEN Deliver(idt, 3) ELSE Garbled
  /\ main' = "int3"
  /\ UNCHANGED <<vars, bootVars, gap, low, loop, p, idt, idtr, rdi>>

\* The end of entry.asm: RDI is loaded again, eight bytes, and what lies at
\* 4 MiB is executed.  If that is the loader's 0xCC, it is an int3.
Enter ==
  /\ main = "kernel"
  /\ rdi' = [i \in 0 .. 7 |-> low[i]]
  /\ fault' = 3
  /\ screen' = IF mem[0] = FromMem(0) THEN Deliver(idt, 3) ELSE Garbled
  /\ main' = "int3"
  /\ UNCHANGED <<vars, bootVars, gap, low, loop, p, idt, idtr>>

\* An exception nobody meant to raise, or an NMI.  The handlers do not return.
Fault ==
  /\ main \in {"bss", "fill", "init", "write", "halt"}
  /\ \E v \in Faults :
       fault' = v /\ screen' = IF idtr THEN Deliver(idt, v) ELSE Reset
  /\ main' = "stopped"
  /\ UNCHANGED <<vars, bootVars, entryVars>>

ChainNext ==
  \/ BootStep \/ Start \/ ZeroBss \/ IdtInit \/ Kmain \/ Medium \/ Enter \/ Fault

(* The processor keeps running.                                            *)
ChainSpec == ChainInit /\ [][ChainNext]_chainVars /\ WF_chainVars(Kmain)

-----------------------------------------------------------------------------
(* Properties.                                                             *)

\* Boot's, of the whole chain.
StagesAreLoaded      == Boot!StagesAreLoaded
BootinfoIsConsistent == Boot!BootinfoIsConsistent
ModeSwitchHolds      == Boot!ModeSwitchHolds

\* From lidt on every exception ends in a message, never in a reset: its own, or
\* that of #GP for the vectors without a gate, among them the int3 the loader
\* runs into at 4 MiB.  It takes the loop over the bss, the table in the bss,
\* its addresses in three parts and the frames of the handlers.
FaultsAreShown ==
  fault # -1 /\ idtr => screen = Message(IF fault \in Gated THEN fault ELSE 13)

\* "ptr for kernel use" (boot2.asm, line 161): what is handed on at 4 MiB is the
\* pointer long_entry set, unless the linker puts the bss less than eight bytes
\* behind bootinfo_ptr; then its upper half is part of the first gate.
PointerArrives == main = "int3" => ((rdi = Bootinfo) <=> (gap >= 8))

=============================================================================
