---------------------------- MODULE Boot_proofs ----------------------------
(* Proofs about the boot sector and the second stage. *)
EXTENDS Boot, TLAPS

\* Where the code stands, in its order; each set is a rest of the one before.
FromLoader == {"loader"}
FromFar64  == {"far64"} \cup FromLoader
FromPg     == {"pg"} \cup FromFar64
FromLme    == {"lme"} \cup FromPg
FromCr3    == {"cr3"} \cup FromLme
FromPae    == {"pae"} \cup FromCr3
FromPgOff  == {"pg_off"} \cup FromPae
FromFar32  == {"far32"} \cup FromPgOff
FromPe     == {"pe"} \cup FromFar32
FromLgdt   == {"lgdt"} \cup FromPe
FromA20    == {"a20"} \cup FromLgdt
FromCli    == {"cli"} \cup FromA20
FromE820   == {"e820", "vbe_info", "vbe_set"} \cup FromCli
FromBoot2  == {"boot2"} \cup FromE820

\* The constants, and what a build and a BIOS have to keep to.
Fits == BootConstants /\ LoaderSectors <= 16 /\ \A d \in BiosDepths : d <= 2038

\* What has been loaded so far.
LoadsInv ==
  /\ at \in {"boot1", "disk_error"} \cup FromBoot2
  /\ dl = BootDrive
  /\ ram \in [Stages -> [drive : Nat, lba : Nat, sectors : Int]]
  /\ at \in FromBoot2 => ram["boot2"] = [drive |-> BootDrive, lba |-> 1, sectors |-> 32]
  /\ at \in FromE820 => ram["loader"] = [drive |-> BootDrive, lba |-> 33, sectors |-> 16]

\* The loop over the memory map makes one turn, as its call is not 0xE820.
MapInv ==
  /\ bootinfo.written = {}
  /\ at \in {"boot1", "boot2", "e820"} => bp = 0 /\ ebx = 0
  /\ bootinfo.count \in 0 .. 1

\* The fields of the display and the mode it is in.
VbeInv ==
  /\ bootinfo \in [count : Nat, written : SUBSET Int,
                   vbe : [mode : Nat, pitch : Nat, w : Nat, h : Nat, bpp : Nat, fb : Nat]]
  /\ at \in {"boot1", "boot2", "e820", "vbe_info"} => bootinfo.vbe = NoVbe
  /\ at = "vbe_set" =>
       bootinfo.vbe = [mode |-> 0, pitch |-> 1, w |-> 1, h |-> 1, bpp |-> 1, fb |-> 1]
  /\ at \in {"boot1", "boot2", "e820", "vbe_info", "vbe_set"} => display = "text"
  /\ at \in FromCli =>
       IF display = "text" THEN bootinfo.vbe = NoVbe
       ELSE bootinfo.vbe = [mode |-> 280, pitch |-> 1, w |-> 1, h |-> 1, bpp |-> 1, fb |-> 1]

\* The state of the processor at each step of the mode switches.
CpuInv ==
  /\ cpu \in [if : BOOLEAN, gdt : BOOLEAN, pe : BOOLEAN, pg : BOOLEAN, pae : BOOLEAN,
              lme : BOOLEAN, cr3 : BOOLEAN, cs : Nat, a20 : BOOLEAN, bit0 : BOOLEAN]
  /\ (cpu.if <=> at \notin FromA20)
  /\ (cpu.a20 <=> at \in FromLgdt) /\ (cpu.a20 => ~cpu.bit0)
  /\ (cpu.gdt <=> at \in FromPe)
  /\ (cpu.pe <=> at \in FromFar32)
  /\ (cpu.pae <=> at \in FromCr3)
  /\ (cpu.cr3 <=> at \in FromLme)
  /\ (cpu.lme <=> at \in FromPg)
  /\ (cpu.pg <=> at \in FromFar64)
  /\ cpu.cs = IF at \in FromLoader THEN 64 ELSE IF at \in FromPgOff THEN 32 ELSE 16
  /\ tables

IInv == LoadsInv /\ MapInv /\ VbeInv /\ CpuInv

USE DEF FromLoader, FromFar64, FromPg, FromLme, FromCr3, FromPae, FromPgOff,
        FromFar32, FromPe, FromLgdt, FromA20, FromCli, FromE820, FromBoot2

\* A BIOS call that uses no more stack than there is leaves the tables alone.
LEMMA StackKeepsTables ==
  ASSUME Fits, tables, UsesStack
  PROVE  tables'
<1>1. PICK d \in BiosDepths : tables' = (tables /\ StackTop - 2 - d >= pml4 + 8)
  BY Zenon DEF UsesStack
<1>2. d \in Nat /\ d <= 2038
  BY DEF Fits, BootConstants
<1>3. StackTop - 2 - d >= pml4 + 8
  BY <1>2 DEF StackTop, pml4
<1> QED BY <1>1, <1>3, Zenon

LEMMA InitStep ==
  ASSUME Fits, Init
  PROVE  IInv
<1>1. LoadsInv
  BY DEF Fits, BootConstants, Init, LoadsInv, Nothing, Stages
<1>2. MapInv
  BY DEF Init, MapInv
<1>3. VbeInv
  BY DEF Init, VbeInv, NoVbe
<1>4. CpuInv
  <2>1. PICK b \in BOOLEAN : cpu = [RealMode EXCEPT !.bit0 = b]
    BY DEF Init
  <2>2. cpu = [if |-> TRUE, gdt |-> FALSE, pe |-> FALSE, pg |-> FALSE, pae |-> FALSE,
               lme |-> FALSE, cr3 |-> FALSE, cs |-> 16, a20 |-> FALSE, bit0 |-> b]
    BY <2>1 DEF RealMode
  <2> QED BY <2>2 DEF Init, CpuInv
<1> QED BY <1>1, <1>2, <1>3, <1>4 DEF IInv

\* The call of the first turn is made with AX = 0, and the loop ends with it.
LEMMA OneTurn ==
  ASSUME IInv, E820Call
  PROVE  /\ at' = "vbe_info" /\ bp' \in 0 .. 1
         /\ bootinfo' = [bootinfo EXCEPT !.written = {}, !.count = bp']
<1>1. PICK a \in Int15((bp * 24) % 65536, ebx) : Turn(a)
  BY DEF E820Call
<1>2. bp = 0 /\ ebx = 0 /\ bootinfo.written = {}
  BY DEF IInv, MapInv, E820Call
<1>3. (bp * 24) % 65536 = 0
  BY <1>2
<1>4. a \in Int15(0, 0)
  BY <1>1, <1>2, <1>3
<1>5. a.ebx = 0 /\ a.writes = FALSE
  BY <1>4 DEF Int15
<1>6. ebx' = 0 /\ bp' = (IF a.cf THEN bp ELSE bp + 1)
  BY <1>1, <1>5 DEF Turn
<1>7. at' = IF a.cf \/ bp' >= E820_MAX \/ ebx' = 0 THEN "vbe_info" ELSE "e820"
  BY <1>1 DEF Turn
<1>8. at' = "vbe_info" /\ bp' \in 0 .. 1
  BY <1>2, <1>6, <1>7
<1>9. bootinfo' = [bootinfo EXCEPT !.written = {}, !.count = bp']
  <2> DEFINE w == IF a.writes THEN bootinfo.written \cup {bp} ELSE bootinfo.written
             n == IF at' = "e820" THEN bootinfo.count ELSE bp'
  <2>1. bootinfo' = [bootinfo EXCEPT !.written = w, !.count = n]
    BY <1>1 DEF Turn
  <2>2. w = {} /\ n = bp'
    BY <1>2, <1>5, <1>8
  <2> HIDE DEF w, n
  <2> QED BY <2>1, <2>2
<1> QED BY <1>8, <1>9

\* Only the two loads change what is loaded, and each goes on only when complete.
LEMMA LoadsStep ==
  ASSUME Fits, IInv, Next, at' # "reset"
  PROVE  LoadsInv'
<1>1. CASE Boot1
  BY <1>1 DEF Fits, BootConstants, IInv, LoadsInv, Boot1, Int13, Loaded, dap_boot2, Stages
<1>2. CASE Boot2
  BY <1>2 DEF Fits, BootConstants, IInv, LoadsInv, Boot2, Int13, Loaded, dap_kernel, Stages
<1>3. CASE E820Call
  BY <1>3, OneTurn DEF IInv, LoadsInv, E820Call
<1>4. CASE VbeInfo
  BY <1>4 DEF IInv, LoadsInv, VbeInfo
<1>5. CASE VbeSet
  BY <1>5 DEF IInv, LoadsInv, VbeSet
<1>6. CASE enter_protected_mode
  BY <1>6 DEF IInv, LoadsInv, enter_protected_mode, Run
<1>7. CASE enter_long_mode
  BY <1>7 DEF IInv, LoadsInv, enter_long_mode, Run
<1> QED BY <1>1, <1>2, <1>3, <1>4, <1>5, <1>6, <1>7 DEF Next

\* What the map is left with.
LEMMA MapStep ==
  ASSUME IInv, Next
  PROVE  MapInv'
<1>1. CASE E820Call
  BY <1>1, OneTurn DEF IInv, MapInv, VbeInv
<1>2. CASE Boot1 \/ Boot2
  BY <1>2 DEF IInv, MapInv, Boot1, Boot2
<1>3. CASE VbeInfo
  BY <1>3 DEF IInv, MapInv, VbeInv, VbeInfo, VbeFail
<1>4. CASE VbeSet
  BY <1>4 DEF IInv, MapInv, VbeInv, VbeSet, VbeFail
<1>5. CASE enter_protected_mode
  BY <1>5 DEF IInv, MapInv, enter_protected_mode, Run
<1>6. CASE enter_long_mode
  BY <1>6 DEF IInv, MapInv, enter_long_mode, Run
<1> QED BY <1>1, <1>2, <1>3, <1>4, <1>5, <1>6 DEF Next

\* Fields and mode are set together or cleared together.
LEMMA VbeStep ==
  ASSUME IInv, Next
  PROVE  VbeInv'
<1>1. CASE Boot1 \/ Boot2
  BY <1>1 DEF IInv, VbeInv, Boot1, Boot2
<1>2. CASE E820Call
  <2>1. at = "e820" /\ at' = "vbe_info" /\ display' = display /\ bp' \in Nat
    BY <1>2, OneTurn DEF E820Call
  <2>2. bootinfo' = [bootinfo EXCEPT !.written = {}, !.count = bp']
    BY <1>2, OneTurn
  <2> QED BY <2>1, <2>2 DEF IInv, VbeInv
<1>3. CASE VbeInfo
  BY <1>3 DEF IInv, VbeInv, VbeInfo, VbeFail, NoVbe
<1>4. CASE VbeSet
  BY <1>4 DEF IInv, VbeInv, VbeSet, VbeFail, NoVbe, VBE_MODE
<1>5. CASE enter_protected_mode
  BY <1>5 DEF IInv, VbeInv, enter_protected_mode, Run
<1>6. CASE enter_long_mode
  BY <1>6 DEF IInv, VbeInv, enter_long_mode, Run
<1> QED BY <1>1, <1>2, <1>3, <1>4, <1>5, <1>6 DEF Next

\* A state of the processor that goes on and that no interrupt can spoil.
Allowed(c) == GoesOn(c) /\ ~(c.pe /\ c.if)

LEMMA RunsOn ==
  ASSUME NEW from, NEW to, NEW STATE c, Run(from, to, c), Allowed(c)
  PROVE  at = from /\ at' = to /\ cpu' = c /\ tables' = tables
BY DEF Run, Allowed

\* Each step finds what it needs, so that the processor never refuses one.
LEMMA CpuStep ==
  ASSUME Fits, IInv, Next
  PROVE  CpuInv' /\ at' # "reset"
<1>1. CASE Boot1
  BY <1>1 DEF IInv, CpuInv, LoadsInv, Boot1
<1>2. CASE Boot2 \/ E820Call \/ VbeInfo \/ VbeSet
  <2>1. UsesStack /\ cpu' = cpu
    BY <1>2 DEF Boot2, E820Call, VbeInfo, VbeSet
  <2>2. tables'
    BY <2>1, StackKeepsTables DEF IInv, CpuInv
  <2>3. /\ at \in {"boot2", "e820", "vbe_info", "vbe_set"}
        /\ at' \in {"disk_error", "e820", "vbe_info", "vbe_set", "cli"}
    BY <1>2, OneTurn DEF Boot2, E820Call, VbeInfo, VbeSet
  <2> QED BY <2>1, <2>2, <2>3 DEF IInv, CpuInv
<1>3. CASE enter_protected_mode
  <2>1. CASE Run("cli", "a20", [cpu EXCEPT !.if = FALSE])
    <3>1. Allowed([cpu EXCEPT !.if = FALSE])
      BY <2>1 DEF IInv, CpuInv, Run, Allowed, GoesOn
    <3>2. at = "cli" /\ at' = "a20" /\ cpu' = [cpu EXCEPT !.if = FALSE] /\ tables' = tables
      BY <2>1, <3>1, RunsOn
    <3> QED BY <3>2 DEF IInv, CpuInv
  <2>2. CASE Run("a20", "lgdt", [cpu EXCEPT !.a20 = TRUE, !.bit0 = FALSE])
    <3>1. Allowed([cpu EXCEPT !.a20 = TRUE, !.bit0 = FALSE])
      BY <2>2 DEF IInv, CpuInv, Run, Allowed, GoesOn
    <3>2. at = "a20" /\ at' = "lgdt" /\ cpu' = [cpu EXCEPT !.a20 = TRUE, !.bit0 = FALSE] /\ tables' = tables
      BY <2>2, <3>1, RunsOn
    <3> QED BY <3>2 DEF IInv, CpuInv
  <2>3. CASE Run("lgdt", "pe", [cpu EXCEPT !.gdt = TRUE])
    <3>1. Allowed([cpu EXCEPT !.gdt = TRUE])
      BY <2>3 DEF IInv, CpuInv, Run, Allowed, GoesOn
    <3>2. at = "lgdt" /\ at' = "pe" /\ cpu' = [cpu EXCEPT !.gdt = TRUE] /\ tables' = tables
      BY <2>3, <3>1, RunsOn
    <3> QED BY <3>2 DEF IInv, CpuInv
  <2>4. CASE Run("pe", "far32", [cpu EXCEPT !.pe = TRUE])
    <3>1. Allowed([cpu EXCEPT !.pe = TRUE])
      BY <2>4 DEF IInv, CpuInv, Run, Allowed, GoesOn
    <3>2. at = "pe" /\ at' = "far32" /\ cpu' = [cpu EXCEPT !.pe = TRUE] /\ tables' = tables
      BY <2>4, <3>1, RunsOn
    <3> QED BY <3>2 DEF IInv, CpuInv
  <2>5. CASE Run("far32", "pg_off", [cpu EXCEPT !.cs = 32])
    <3>1. Allowed([cpu EXCEPT !.cs = 32])
      BY <2>5 DEF IInv, CpuInv, Run, Allowed, GoesOn
    <3>2. at = "far32" /\ at' = "pg_off" /\ cpu' = [cpu EXCEPT !.cs = 32] /\ tables' = tables
      BY <2>5, <3>1, RunsOn
    <3> QED BY <3>2 DEF IInv, CpuInv
  <2> QED BY <1>3, <2>1, <2>2, <2>3, <2>4, <2>5 DEF enter_protected_mode
<1>4. CASE enter_long_mode
  <2>1. CASE Run("pg_off", "pae", [cpu EXCEPT !.pg = FALSE])
    <3>1. Allowed([cpu EXCEPT !.pg = FALSE])
      BY <2>1 DEF IInv, CpuInv, Run, Allowed, GoesOn
    <3>2. at = "pg_off" /\ at' = "pae" /\ cpu' = [cpu EXCEPT !.pg = FALSE] /\ tables' = tables
      BY <2>1, <3>1, RunsOn
    <3> QED BY <3>2 DEF IInv, CpuInv
  <2>2. CASE Run("pae", "cr3", [cpu EXCEPT !.pae = TRUE])
    <3>1. Allowed([cpu EXCEPT !.pae = TRUE])
      BY <2>2 DEF IInv, CpuInv, Run, Allowed, GoesOn
    <3>2. at = "pae" /\ at' = "cr3" /\ cpu' = [cpu EXCEPT !.pae = TRUE] /\ tables' = tables
      BY <2>2, <3>1, RunsOn
    <3> QED BY <3>2 DEF IInv, CpuInv
  <2>3. CASE Run("cr3", "lme", [cpu EXCEPT !.cr3 = TRUE])
    <3>1. Allowed([cpu EXCEPT !.cr3 = TRUE])
      BY <2>3 DEF IInv, CpuInv, Run, Allowed, GoesOn
    <3>2. at = "cr3" /\ at' = "lme" /\ cpu' = [cpu EXCEPT !.cr3 = TRUE] /\ tables' = tables
      BY <2>3, <3>1, RunsOn
    <3> QED BY <3>2 DEF IInv, CpuInv
  <2>4. CASE Run("lme", "pg", [cpu EXCEPT !.lme = TRUE])
    <3>1. Allowed([cpu EXCEPT !.lme = TRUE])
      BY <2>4 DEF IInv, CpuInv, Run, Allowed, GoesOn
    <3>2. at = "lme" /\ at' = "pg" /\ cpu' = [cpu EXCEPT !.lme = TRUE] /\ tables' = tables
      BY <2>4, <3>1, RunsOn
    <3> QED BY <3>2 DEF IInv, CpuInv
  <2>5. CASE Run("pg", "far64", [cpu EXCEPT !.pg = TRUE])
    <3>1. Allowed([cpu EXCEPT !.pg = TRUE])
      BY <2>5 DEF IInv, CpuInv, Run, Allowed, GoesOn
    <3>2. at = "pg" /\ at' = "far64" /\ cpu' = [cpu EXCEPT !.pg = TRUE] /\ tables' = tables
      BY <2>5, <3>1, RunsOn
    <3> QED BY <3>2 DEF IInv, CpuInv
  <2>6. CASE Run("far64", "loader", [cpu EXCEPT !.cs = 64])
    <3>1. Allowed([cpu EXCEPT !.cs = 64])
      BY <2>6 DEF IInv, CpuInv, Run, Allowed, GoesOn
    <3>2. at = "far64" /\ at' = "loader" /\ cpu' = [cpu EXCEPT !.cs = 64] /\ tables' = tables
      BY <2>6, <3>1, RunsOn
    <3> QED BY <3>2 DEF IInv, CpuInv
  <2> QED BY <1>4, <2>1, <2>2, <2>3, <2>4, <2>5, <2>6 DEF enter_long_mode
<1> QED BY <1>1, <1>2, <1>3, <1>4 DEF Next

\* The invariant of the way from 0x7C00 to 0x20000: what was loaded, the one turn
\* of the loop over the map, the display, and the processor at every step.
THEOREM Invariance ==
  ASSUME Fits
  PROVE  Spec => []IInv
<1>1. Init => IInv
  BY InitStep
<1>2. IInv /\ [Next]_bootVars => IInv'
  <2> SUFFICES ASSUME IInv, [Next]_bootVars PROVE IInv'
    OBVIOUS
  <2>1. CASE Next
    <3>1. CpuInv' /\ at' # "reset"
      BY <2>1, CpuStep
    <3>2. LoadsInv' /\ MapInv' /\ VbeInv'
      BY <2>1, <3>1, LoadsStep, MapStep, VbeStep
    <3> QED BY <3>1, <3>2 DEF IInv
  <2>2. CASE UNCHANGED bootVars
    BY <2>2 DEF bootVars, IInv, LoadsInv, MapInv, VbeInv, CpuInv
  <2> QED BY <2>1, <2>2
<1> QED BY <1>1, <1>2, PTL DEF Spec

\* No stage runs unless all of it was read, from the drive the machine was booted
\* from (boot1.asm, lines 14-23, and boot2.asm, lines 19-24), for every loader of
\* at most 16 sectors.
THEOREM StagesLoaded ==
  ASSUME Fits
  PROVE  Spec => []StagesAreLoaded
<1>1. IInv => StagesAreLoaded
  <2> SUFFICES ASSUME IInv PROVE StagesAreLoaded
    OBVIOUS
  <2>1. LoadsInv /\ BootConstants /\ LoaderSectors <= 16
    BY DEF IInv, Fits
  <2>2. at \in FromBoot2 => Complete("boot2")
    BY <2>1 DEF LoadsInv, Complete, OnMedium
  <2>3. at \in FromE820 => Complete("loader")
    BY <2>1 DEF LoadsInv, Complete, OnMedium, BootConstants
  <2> QED BY <2>1, <2>2, <2>3 DEF LoadsInv, StagesAreLoaded
<1> QED BY <1>1, Invariance, PTL

\* Framebuffer fields and mode go together, and the map is empty, whatever the
\* BIOS answers (get_vbe and get_e820_map of boot2.asm).
THEOREM BootinfoConsistent ==
  ASSUME Fits
  PROVE  Spec => []BootinfoIsConsistent
<1>1. IInv => BootinfoIsConsistent
  <2> SUFFICES ASSUME IInv, at \in FromCli
               PROVE  /\ IF display = "text" THEN bootinfo.vbe = NoVbe
                         ELSE \A f \in DOMAIN NoVbe : bootinfo.vbe[f] # 0
                      /\ bootinfo.count <= 1 /\ bootinfo.written = {}
    BY DEF IInv, LoadsInv, BootinfoIsConsistent
  <2>1. bootinfo.count <= 1 /\ bootinfo.written = {}
    BY DEF IInv, MapInv
  <2>2. CASE display = "text"
    BY <2>1, <2>2 DEF IInv, VbeInv
  <2>3. CASE display # "text"
    <3>1. bootinfo.vbe = [mode |-> 280, pitch |-> 1, w |-> 1, h |-> 1, bpp |-> 1, fb |-> 1]
      BY <2>3 DEF IInv, VbeInv
    <3>2. DOMAIN NoVbe = {"mode", "pitch", "w", "h", "bpp", "fb"}
      BY DEF NoVbe
    <3>3. ASSUME NEW f \in DOMAIN NoVbe PROVE bootinfo.vbe[f] # 0
      BY <3>1, <3>2, <3>3
    <3> QED BY <2>1, <2>3, <3>3
  <2> QED BY <2>2, <2>3
<1> QED BY <1>1, Invariance, PTL

\* No step of the way to long mode is refused, whatever BIOS calls did before, as
\* long as none of them uses more than 2038 bytes of stack (boot2.asm, line 16).
THEOREM SwitchesHold ==
  ASSUME Fits
  PROVE  Spec => []ModeSwitchHolds
<1>1. IInv => ModeSwitchHolds
  BY DEF IInv, LoadsInv, ModeSwitchHolds
<1> QED BY <1>1, Invariance, PTL
=============================================================================
