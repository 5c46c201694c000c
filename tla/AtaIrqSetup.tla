---------------------------- MODULE AtaIrqSetup ----------------------------
(***************************************************************************)
(* AtaIrq from the set-up of the interrupt controllers on, in the order    *)
(* kernel/ata_driver_irq.h gives (lines 163-169): setup_ata_irq() with     *)
(* interrupts off, the handler at vector 46, sti, and then the driver.     *)
(***************************************************************************)
EXTENDS AtaIrq, Pic

CONSTANT MasksAtEntry   \* lines masked on <<master, slave>> by the BIOS

ASSUME MasksAssumption == MasksAtEntry \subseteq (SUBSET Lines) \X (SUBSET Lines)

VARIABLES
  pics,        \* both controllers
  interrupts   \* IF: sti has been executed

setupVars == <<vars, pics, interrupts>>

SetupInit ==
  /\ Init
  /\ \E m \in MasksAtEntry : pics = PicsAtEntry(m[1], m[2])
  /\ interrupts = FALSE

\* Nothing is interrupted meanwhile, so that setup_ata_irq is one step.
SetUp ==
  /\ ~interrupts
  /\ pics' = setup_ata_irq(pics)
  /\ interrupts' = TRUE
  /\ UNCHANGED vars

Request == interrupts /\ Begin /\ UNCHANGED <<pics, interrupts>>
Tick    == interrupts /\ tick_ata /\ UNCHANGED <<pics, interrupts>>
Device  == DriveStep /\ UNCHANGED <<pics, interrupts>>

\* The handler is installed at vector 46 and at no other.
HandlerVector == 46
Interrupt ==
  /\ interrupts /\ VectorOf(pics, PIC_IRQ_ATA_PRIMARY) = HandlerVector
  /\ irq14_ata
  /\ UNCHANGED <<pics, interrupts>>

SetupNext == SetUp \/ Request \/ Tick \/ Interrupt \/ Device

(* As in AtaIrq: the loop ticks, an interrupt that arrives is taken, the   *)
(* drive answers.  Nothing obliges the kernel to begin.                    *)
SetupFairness == WF_setupVars(Tick) /\ WF_setupVars(Interrupt) /\ WF_setupVars(Device)
SetupSpec == SetupInit /\ [][SetupNext]_setupVars /\ SetupFairness
=============================================================================
