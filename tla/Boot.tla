-------------------------------- MODULE Boot --------------------------------
(***************************************************************************)
(* The boot sector (bootloader/boot1.asm) and the second stage             *)
(* (bootloader/boot2.asm), from the BIOS's jump to 0x7C00 to the jump to   *)
(* the kernel loader at 0x20000: two loads through int 13h, the memory map *)
(* through int 15h, the display through int 10h, and the way from real to  *)
(* long mode.  The BIOS is external: it may fail any call, may change DL,  *)
(* and uses the caller's stack.  "at" says where the code stands;          *)
(* "disk_error" is both stages' hlt loop, "reset" a triple fault.          *)
(***************************************************************************)
EXTENDS Integers

CONSTANTS
  BootDrive,      \* what the BIOS passes in DL
  BiosDepths,     \* bytes of the caller's stack a BIOS call may use
  LoaderSectors   \* sectors of kernelLoader.bin

E820_MAX == 64
VBE_MODE == 280              \* 0x118
StackTop == 38912            \* 0x9800, sp and esp of the second stage
pml4     == 36864            \* 0x9000
Stages   == {"boot2", "loader"}

BootConstants == BootDrive \in Nat /\ BiosDepths \subseteq Nat /\ LoaderSectors \in Nat

VARIABLES
  at,
  dl,        \* the drive number in DL
  ram,       \* what lies at 0x8000 and at 0x20000
  bp, ebx,   \* of get_e820_map
  bootinfo,
  display,   \* the mode the display is in
  tables,    \* does pml4 still lead to pdpt and pd?
  cpu

bootVars == <<at, dl, ram, bp, ebx, bootinfo, display, tables, cpu>>

\* What build.sh puts on the medium: boot2.bin padded to 32 sectors at LBA 1,
\* kernelLoader.bin at LBA 33.
OnMedium == [boot2 |-> [lba |-> 1, sectors |-> 32],
             loader |-> [lba |-> 33, sectors |-> LoaderSectors]]

Nothing    == [drive |-> 0, lba |-> 0, sectors |-> 0]
dap_boot2  == [to |-> "boot2", lba |-> 1, sectors |-> 32]
dap_kernel == [to |-> "loader", lba |-> 33, sectors |-> 16]

NoVbe == [mode |-> 0, pitch |-> 0, w |-> 0, h |-> 0, bpp |-> 0, fb |-> 0]
RealMode == [if |-> TRUE, gdt |-> FALSE, pe |-> FALSE, pg |-> FALSE, pae |-> FALSE,
             lme |-> FALSE, cr3 |-> FALSE, cs |-> 16, a20 |-> FALSE, bit0 |-> FALSE]

Init ==
  /\ at = "boot1" /\ dl = BootDrive
  /\ ram = [s \in Stages |-> Nothing]
  /\ bp = 0 /\ ebx = 0
  /\ bootinfo = [count |-> 0, written |-> {}, vbe |-> NoVbe]
  /\ display = "text" /\ tables = TRUE
  /\ \E b \in BOOLEAN : cpu = [RealMode EXCEPT !.bit0 = b]

-----------------------------------------------------------------------------
(* The BIOS.                                                               *)

\* int 13h, function 42h: the sectors asked for, or an error and some of them.
Int13(dap) ==
  {[cf |-> FALSE, sectors |-> dap.sectors], [cf |-> TRUE, sectors |-> 0],
   [cf |-> TRUE, sectors |-> dap.sectors - 1]}
Loaded(dap, answer) ==
  [ram EXCEPT ![dap.to] = [drive |-> dl, lba |-> dap.lba, sectors |-> answer.sectors]]

\* int 15h: function 0xE820 writes an entry and says in EBX how to go on; any
\* other sets the carry flag, or does something that leaves buffer and EBX alone.
Int15(ax, b) ==
  IF ax = 59424
  THEN {[cf |-> FALSE, ebx |-> n, writes |-> TRUE] : n \in {0, b + 1}}
  ELSE {[cf |-> c, ebx |-> b, writes |-> FALSE] : c \in BOOLEAN}

\* A call from the second stage, from one level of subroutine: what lies just
\* below 0x9800 is overwritten, and pml4's only entry lies 2 KiB below it.
UsesStack == \E d \in BiosDepths : tables' = (tables /\ StackTop - 2 - d >= pml4 + 8)

-----------------------------------------------------------------------------
(* Loading.                                                                *)

\* Faulty variant: DL is passed on as the BIOS left it.
Boot1_DlAsLeft ==
  /\ at = "boot1"
  /\ \E answer \in Int13(dap_boot2) :
       /\ ram' = Loaded(dap_boot2, answer)
       /\ at' = IF answer.cf THEN "disk_error" ELSE "boot2"
  /\ dl' \in {dl, dl + 1}
  /\ UNCHANGED <<bp, ebx, bootinfo, display, tables, cpu>>

\* boot1.asm: boot_drive keeps DL over the call.
Boot1 ==
  /\ at = "boot1"
  /\ \E answer \in Int13(dap_boot2) :
       /\ ram' = Loaded(dap_boot2, answer)
       /\ at' = IF answer.cf THEN "disk_error" ELSE "boot2"
  /\ UNCHANGED <<dl, bp, ebx, bootinfo, display, tables, cpu>>

Boot2 ==
  /\ at = "boot2"
  /\ \E answer \in Int13(dap_kernel) :
       /\ ram' = Loaded(dap_kernel, answer)
       /\ at' = IF answer.cf THEN "disk_error" ELSE "e820"
  /\ UsesStack
  /\ UNCHANGED <<dl, bp, ebx, bootinfo, display, cpu>>

\* One turn of get_e820_map, with the BIOS's answer.
Turn(answer) ==
  /\ ebx' = answer.ebx
  /\ bp' = IF answer.cf THEN bp ELSE bp + 1
  /\ at' = IF answer.cf \/ bp' >= E820_MAX \/ ebx' = 0 THEN "vbe_info" ELSE "e820"
  /\ bootinfo' = [bootinfo EXCEPT
       !.written = IF answer.writes THEN @ \cup {bp} ELSE @,
       !.count = IF at' = "e820" THEN @ ELSE bp']

\* EAX is set to 0xE820 and its low half then overwritten with the offset of the
\* entry, so that is the function called.
E820Call ==
  /\ at = "e820"
  /\ \E answer \in Int15((bp * 24) % 65536, ebx) : Turn(answer)
  /\ UsesStack
  /\ UNCHANGED <<dl, ram, display, cpu>>

-----------------------------------------------------------------------------
(* get_vbe.                                                                *)

\* Faulty variant: one field is forgotten.
VbeFail_BppKept == bootinfo' = [bootinfo EXCEPT !.vbe = [NoVbe EXCEPT !.bpp = bootinfo.vbe.bpp]]

VbeFail == bootinfo' = [bootinfo EXCEPT !.vbe = NoVbe]

VbeInfo ==
  /\ at = "vbe_info"
  /\ \/ VbeFail /\ at' = "cli"
     \/ /\ bootinfo' = [bootinfo EXCEPT !.vbe =
             [mode |-> @.mode, pitch |-> 1, w |-> 1, h |-> 1, bpp |-> 1, fb |-> 1]]
        /\ at' = "vbe_set"
  /\ UsesStack
  /\ UNCHANGED <<dl, ram, bp, ebx, display, cpu>>

VbeSet ==
  /\ at = "vbe_set" /\ at' = "cli"
  /\ \/ VbeFail /\ UNCHANGED display
     \/ bootinfo' = [bootinfo EXCEPT !.vbe.mode = VBE_MODE] /\ display' = "framebuffer"
  /\ UsesStack
  /\ UNCHANGED <<dl, ram, bp, ebx, cpu>>

-----------------------------------------------------------------------------
(* From real to long mode.  The processor in state c goes on only if a    *)
(* far jump has its descriptor, paging has what it needs, and port 92h was *)
(* not told to reset it; with interrupts on, outside real mode, the next   *)
(* one finds no table.  NMIs, which IF does not mask, are left out.        *)
GoesOn(c) ==
  /\ ~(c.a20 /\ c.bit0)
  /\ c.cs # 16 => c.pe /\ c.gdt
  /\ c.pg => c.pe /\ c.lme /\ c.pae /\ c.cr3 /\ tables
  /\ c.cs = 64 => c.pg

Run(from, to, c) ==
  /\ at = from
  /\ cpu' = c
  /\ at' \in (IF GoesOn(c) THEN {to} ELSE {"reset"}) \cup {s \in {"reset"} : c.pe /\ c.if}
  /\ UNCHANGED <<dl, ram, bp, ebx, bootinfo, display, tables>>

\* Faulty variant: interrupts stay on.
enter_protected_mode_NoCli ==
  \/ Run("cli", "a20", cpu)
  \/ Run("a20", "lgdt", [cpu EXCEPT !.a20 = TRUE, !.bit0 = FALSE])
  \/ Run("lgdt", "pe", [cpu EXCEPT !.gdt = TRUE])
  \/ Run("pe", "far32", [cpu EXCEPT !.pe = TRUE])
  \/ Run("far32", "pg_off", [cpu EXCEPT !.cs = 32])

enter_protected_mode ==
  \/ Run("cli", "a20", [cpu EXCEPT !.if = FALSE])
  \/ Run("a20", "lgdt", [cpu EXCEPT !.a20 = TRUE, !.bit0 = FALSE])
  \/ Run("lgdt", "pe", [cpu EXCEPT !.gdt = TRUE])
  \/ Run("pe", "far32", [cpu EXCEPT !.pe = TRUE])
  \/ Run("far32", "pg_off", [cpu EXCEPT !.cs = 32])

enter_long_mode ==
  \/ Run("pg_off", "pae", [cpu EXCEPT !.pg = FALSE])
  \/ Run("pae", "cr3", [cpu EXCEPT !.pae = TRUE])
  \/ Run("cr3", "lme", [cpu EXCEPT !.cr3 = TRUE])
  \/ Run("lme", "pg", [cpu EXCEPT !.lme = TRUE])
  \/ Run("pg", "far64", [cpu EXCEPT !.pg = TRUE])
  \/ Run("far64", "loader", [cpu EXCEPT !.cs = 64])

Next ==
  \/ Boot1 \/ Boot2 \/ E820Call \/ VbeInfo \/ VbeSet
  \/ enter_protected_mode \/ enter_long_mode

Spec == Init /\ [][Next]_bootVars

-----------------------------------------------------------------------------
(* Properties.                                                             *)

Complete(s) ==
  /\ ram[s].drive = BootDrive /\ ram[s].lba = OnMedium[s].lba
  /\ ram[s].sectors >= OnMedium[s].sectors

\* No stage runs unless all of it was read, from the drive the machine was
\* booted from and from where build.sh puts it: not after an error that came
\* half way, and not from the drive a BIOS call left in DL.
StagesAreLoaded ==
  /\ at \notin {"boot1", "disk_error"} => Complete("boot2")
  /\ at \notin {"boot1", "boot2", "disk_error"} => Complete("loader")

\* What is handed over as bootinfo agrees with the machine.  The framebuffer
\* fields are all there and the mode is set, or all are zero.  The map, because
\* another function than 0xE820 is called, names no memory: at most one entry is
\* counted, and it is the zeros of the image (get_e820_map, get_vbe).
BootinfoIsConsistent ==
  at \notin {"boot1", "boot2", "e820", "vbe_info", "vbe_set", "disk_error"} =>
    /\ IF display = "text" THEN bootinfo.vbe = NoVbe
       ELSE \A f \in DOMAIN NoVbe : bootinfo.vbe[f] # 0
    /\ bootinfo.count <= 1 /\ bootinfo.written = {}

\* The way to long mode holds: no step of it is refused by the processor or the
\* chipset, no maskable interrupt comes in between, and the stack has left
\* the page tables in place.
ModeSwitchHolds == at # "reset"
=============================================================================
