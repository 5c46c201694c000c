-------------------------------- MODULE Pic --------------------------------
(***************************************************************************)
(* The two 8259 interrupt controllers and the functions of                 *)
(* kernel/ata_driver_irq.c that set them up, in the order of their port    *)
(* writes.  A chip takes a byte on its data port for the initialisation    *)
(* word it expects next and, when it expects none, for its mask.           *)
(***************************************************************************)
EXTENDS Integers

Lines == 0 .. 7

Chip(offset, mask) ==
  [expects |-> "none", offset |-> offset, wiring |-> 0, mode |-> 0, mask |-> mask]

\* As the BIOS leaves them: vectors 8 and 112, wired, with some lines masked.
PicsAtEntry(master, slave) ==
  [master |-> [Chip(8, master) EXCEPT !.wiring = 4, !.mode = 1],
   slave  |-> [Chip(112, slave) EXCEPT !.wiring = 2, !.mode = 1]]

\* ICW1 on the command port starts the sequence and clears the mask.
AfterIcw1(c) == [c EXCEPT !.expects = "offset", !.mask = {}]

AfterData(c, byte) ==
  CASE c.expects = "offset" -> [c EXCEPT !.expects = "wiring", !.offset = byte - (byte % 8)]
    [] c.expects = "wiring" -> [c EXCEPT !.expects = "mode", !.wiring = byte]
    [] c.expects = "mode"   -> [c EXCEPT !.expects = "none", !.mode = byte]
    [] c.expects = "none"   -> [c EXCEPT !.mask = byte]

\* The vector under which the processor sees a line, or None: both chips are
\* done with their sequence, agree on where the slave hangs, and let it through.
None == -1
VectorOf(pics, irq) ==
  LET open(c, l) == c.expects = "none" /\ c.mode = 1 /\ l \notin c.mask
      wired == pics.master.wiring = 2 ^ pics.slave.wiring /\ pics.slave.wiring \in Lines
  IN  IF irq < 8
      THEN IF open(pics.master, irq) THEN pics.master.offset + irq ELSE None
      ELSE IF wired /\ open(pics.master, pics.slave.wiring) /\ open(pics.slave, irq - 8)
           THEN pics.slave.offset + irq - 8
           ELSE None

-----------------------------------------------------------------------------
PIC_IRQ_CASCADE == 2
PIC_IRQ_ATA_PRIMARY == 14

\* One chip of remap_pic: its mask is read first and restored last.
Remapped(c, offset, wiring) ==
  AfterData(AfterData(AfterData(AfterData(AfterIcw1(c), offset), wiring), 1), c.mask)

remap_pic(pics, master_offset, slave_offset) ==
  [master |-> Remapped(pics.master, master_offset, 4),
   slave  |-> Remapped(pics.slave, slave_offset, 2)]

\* Faulty variant: the slave's line is opened, the master's for the slave is not.
unmask_irq_NoCascade(pics, irq) ==
  IF irq < 8
  THEN [pics EXCEPT !.master = AfterData(@, @.mask \ {irq})]
  ELSE [pics EXCEPT !.slave = AfterData(@, @.mask \ {irq - 8})]

unmask_irq(pics, irq) ==
  IF irq < 8
  THEN [pics EXCEPT !.master = AfterData(@, @.mask \ {irq})]
  ELSE [pics EXCEPT !.slave  = AfterData(@, @.mask \ {irq - 8}),
                    !.master = AfterData(@, @.mask \ {PIC_IRQ_CASCADE})]

\* PIC_REMAP_MASTER and PIC_REMAP_SLAVE are 32 and 40.
setup_ata_irq(pics) == unmask_irq(remap_pic(pics, 32, 40), PIC_IRQ_ATA_PRIMARY)
=============================================================================
