------------------------------- MODULE AtaIrq -------------------------------
(***************************************************************************)
(* The interrupt-driven ATA driver, kernel/ata_driver_irq.c: one request   *)
(* context, advanced by tick_ata() from the kernel loop and by irq14_ata() *)
(* at any instruction of it.  A handler of tick_ata runs in one step,      *)
(* except where an interrupt or the drive can get between two of its       *)
(* accesses and the outcome differs; pc says where such a handler stands:  *)
(*    "out"   outside tick_ata, or at its first instruction                *)
(*    "regs"  LBA registers written, the COMMAND write comes next          *)
(*    "cmd"   COMMAND written, ata_irq_flags_reset() comes next            *)
(*    "ack"   irq_fired cleared, last_status is read next                  *)
(* (The LBA registers are one step all the same: a drive that ends storing *)
(* between two of them would take the last ones only, here it takes all or *)
(* none.  Only a later sector of a write meets that, and where such a one  *)
(* is stored is not promised anyway: WriteStoresInPlace.)                  *)
(* A pointer counts sectors from the caller's addr; one kernel never calls *)
(* tick_ata or a begin function from two places at once.                   *)
(***************************************************************************)
EXTENDS AtaDrive

CONSTANTS
  Ops,           \* operations the kernel may begin
  StartLbas,     \* first sectors it may ask for
  Counts,        \* sector counts it may ask for, 0 included
  BufferSectors, \* sectors its buffer holds
  DriveAtEntry,  \* phases of the drive at the first call: "ready", "absent"
  NienAtEntry    \* values of nIEN at the first call

InitOps == {"INIT_28", "INIT_48"}
IoOps   == {"READ_28", "WRITE_28", "READ_48", "WRITE_48"}

ASSUME AtaIrqAssumption ==
  /\ Ops \subseteq InitOps \cup IoOps
  /\ StartLbas \subseteq Nat
  /\ BufferSectors \in Nat
  /\ Counts \subseteq 0 .. BufferSectors
  /\ DriveAtEntry \subseteq {"ready", "absent"}
  /\ NienAtEntry \subseteq BOOLEAN

VARIABLES
  op, step, delay_400, irq_fired, last_status,     \* g_ata_ctx
  lba, sectors_left, batch_left, ptr, identified,  \* g_ata_ctx
  pc,        \* where tick_ata stands
  drive,     \* the drive
  disk,      \* its medium
  mem,       \* the caller's buffer
  in_service, \* the 8259s whose in-service bit for IRQ14 is set
  req,       \* history: the request accepted last
  settled    \* history: CONTROL reads since DRIVE_SEL was written, up to 4

ctx  == <<op, step, delay_400, irq_fired, last_status,
          lba, sectors_left, batch_left, ptr, identified>>
vars == <<ctx, pc, drive, disk, mem, in_service, req, settled>>

InitSteps == {"INIT_SELECT", "INIT_IDENTIFY_CMD", "INIT_IDENTIFY_WAIT",
              "INIT_IDENTIFY_XFER"}
IoSteps   == {"IO_ISSUE_SELECT", "IO_ISSUE_TASKFILE", "IO_WAIT_IRQ",
              "IO_XFER_BLOCK"}
EndSteps  == {"INIT_DONE", "INIT_FAIL", "IO_DONE", "IO_FAIL"}

Is28(o)   == o \in {"READ_28", "WRITE_28"}
IsRead(o) == o \in {"READ_28", "READ_48"}

NoRequest == [op |-> "NONE", lba |-> 0, count |-> 0]

-----------------------------------------------------------------------------
(* The registers a request is programmed into: the drive select byte takes *)
(* bits 24-27 of a 28-bit LBA, the LBA registers the rest.                 *)
\* Faulty variant: the drive select byte without bits 24-27 of the LBA.
HeadOf_NoTopBits(o, l) == 0

HeadOf(o, l) == IF Is28(o) THEN (l \div LowSpan) % Heads ELSE 0
LowOf(o, l)  == IF Is28(o) THEN l % LowSpan ELSE l % Span48

Init ==
  /\ op = "NONE" /\ step = "IDLE" /\ delay_400 = 0
  /\ irq_fired = FALSE /\ last_status = {}
  /\ lba = 0 /\ sectors_left = 0 /\ batch_left = 0 /\ ptr = 0
  /\ identified = FALSE
  /\ pc = "out"
  /\ \E p \in DriveAtEntry, n \in NienAtEntry : drive = DriveAtReset(p, n)
  /\ disk = [l \in DiskLbas |-> FromDisk(l)]
  /\ mem = [i \in 0 .. BufferSectors - 1 |-> FromMem(i)]
  /\ in_service = {}
  /\ req = NoRequest
  /\ settled = 0

-----------------------------------------------------------------------------
(* The interface.  A begin function that returns 0 changes nothing.        *)
is_ata_irq_busy == step \notin {"IDLE"} \cup EndSteps
is_ata_init_done == step = "INIT_DONE"

ata_request_state_reset == delay_400' = 0 /\ irq_fired' = FALSE /\ last_status' = {}

BeginInit(o) ==
  /\ pc = "out" /\ step = "IDLE"
  /\ op' = o /\ step' = "INIT_SELECT"
  /\ ata_request_state_reset
  /\ req' = [op |-> o, lba |-> 0, count |-> 0]
  /\ UNCHANGED <<lba, sectors_left, batch_left, ptr, identified,
                 pc, drive, disk, mem, in_service, settled>>

BeginIo(o, l, n) ==
  /\ pc = "out" /\ step = "IDLE" /\ n # 0
  /\ op' = o /\ step' = "IO_ISSUE_SELECT"
  /\ lba' = l /\ sectors_left' = n /\ batch_left' = 0 /\ ptr' = 0
  /\ ata_request_state_reset
  /\ req' = [op |-> o, lba |-> l, count |-> n]
  /\ UNCHANGED <<identified, pc, drive, disk, mem, in_service, settled>>

Begin ==
  \/ \E o \in Ops \cap InitOps : BeginInit(o)
  \/ \E o \in Ops \cap IoOps, l \in StartLbas, n \in Counts : BeginIo(o, l, n)

-----------------------------------------------------------------------------
(* The interrupt: STATUS is read (which acknowledges the drive), the two   *)
(* volatile fields are set, and both controllers get their EOI.            *)
\* Faulty variant: the slave controller gets no EOI.
AfterEoi_MasterOnly(irq, in) == in \ {"master"}

AfterEoi(irq, in) == in \ ({"master"} \cup IF irq >= 8 THEN {"slave"} ELSE {})

irq14_ata ==
  /\ IntrqLine(drive) /\ in_service = {}
  /\ last_status' = DriveStatus(drive)
  /\ drive' = AfterStatusRead(drive)
  /\ irq_fired' = TRUE
  /\ in_service' = AfterEoi(14, {"master", "slave"})
  /\ UNCHANGED <<op, step, delay_400, lba, sectors_left, batch_left, ptr,
                 identified, pc, disk, mem, req, settled>>

ata_status_is_bad(st) == st \cap {"FLOAT", "ERR"} # {}

-----------------------------------------------------------------------------
(* tick_ata: one CONTROL read per tick while the 400ns delay runs; the     *)
(* tick that makes delay_400 zero goes on to the handler of the step.      *)
DelayTicks == 4
OneMore(n) == IF n < DelayTicks THEN n + 1 ELSE n

\* Faulty variant: without the test for delay_400 = 0.
ata_delay_400ns_tick_Unguarded ==
  /\ pc = "out"
  /\ delay_400' = delay_400 - 1
  /\ settled' = OneMore(settled)
  /\ UNCHANGED <<op, step, irq_fired, last_status, lba, sectors_left,
                 batch_left, ptr, identified, pc, drive, disk, mem,
                 in_service, req>>

ata_delay_400ns_tick ==
  /\ pc = "out" /\ delay_400 > 1
  /\ delay_400' = delay_400 - 1
  /\ settled' = OneMore(settled)
  /\ UNCHANGED <<op, step, irq_fired, last_status, lba, sectors_left,
                 batch_left, ptr, identified, pc, drive, disk, mem,
                 in_service, req>>

\* Faulty variant: the delay is over one read early.
DelayElapsed_Early == delay_400 <= 2

DelayElapsed == delay_400 <= 1

Handler(s) ==
  /\ pc = "out" /\ DelayElapsed /\ step = s
  /\ op \in InitOps <=> s \in InitSteps

\* The two variables a handler changes when it does not start a new delay.
DelayOver == delay_400' = 0 /\ settled' = IF delay_400 = 1 THEN OneMore(settled) ELSE settled
DelayStart == delay_400' = DelayTicks /\ settled' = 0

ata_finish(success, done, fail) ==
  step' = (IF success THEN done ELSE fail) /\ op' = "NONE"

-----------------------------------------------------------------------------
(* The initialisation handlers.                                            *)
ata_init_select_handle ==
  /\ Handler("INIT_SELECT")
  /\ drive' = AfterDriveSel(AfterControl(drive, FALSE), 0)
  /\ DelayStart
  /\ step' = "INIT_IDENTIFY_CMD"
  /\ UNCHANGED <<op, irq_fired, last_status, lba, sectors_left, batch_left,
                 ptr, identified, pc, disk, mem, in_service, req>>

ata_init_identify_cmd_handle ==
  /\ Handler("INIT_IDENTIFY_CMD")
  /\ drive' = AfterCommand(AfterLba(drive, 0), "identify", FALSE)
  /\ DelayOver
  /\ pc' = "cmd"
  /\ UNCHANGED <<op, step, irq_fired, last_status, lba, sectors_left,
                 batch_left, ptr, identified, disk, mem, in_service, req>>

\* The end of the two handlers that issue a command: ata_irq_flags_reset().
ata_command_issued ==
  /\ pc = "cmd"
  /\ irq_fired' = FALSE /\ last_status' = {}
  /\ step' = IF op \in InitOps THEN "INIT_IDENTIFY_WAIT" ELSE "IO_WAIT_IRQ"
  /\ pc' = "out"
  /\ UNCHANGED <<op, delay_400, lba, sectors_left, batch_left, ptr, identified,
                 drive, disk, mem, in_service, req, settled>>

\* Faulty variant: irq_fired stays set when the interrupt is taken.
TakeIrq_Uncleared(s) ==
  /\ Handler(s)
  /\ irq_fired
  /\ pc' = "ack"
  /\ DelayOver
  /\ UNCHANGED <<op, step, irq_fired, last_status, lba, sectors_left,
                 batch_left, ptr, identified, drive, disk, mem, in_service, req>>

\* Both wait handlers take the interrupt in two steps: clear, then read.
TakeIrq(s) ==
  /\ Handler(s)
  /\ irq_fired
  /\ irq_fired' = FALSE
  /\ pc' = "ack"
  /\ DelayOver
  /\ UNCHANGED <<op, step, last_status, lba, sectors_left, batch_left, ptr,
                 identified, drive, disk, mem, in_service, req>>

\* Faulty variants: the interrupt alone taken for data; data not looked for.
InitVerdict_AnyIrq(st, alt) == "INIT_IDENTIFY_XFER"
InitVerdict_NoDrq(st, alt) ==
  IF ata_status_is_bad(st) \/ ata_status_is_bad(alt) THEN "INIT_FAIL"
  ELSE "INIT_IDENTIFY_WAIT"

\* The step that follows INIT_IDENTIFY_WAIT for a status and, when that one
\* says nothing, for the alternate status read after it.
InitVerdict(st, alt) ==
  CASE ata_status_is_bad(st)  -> "INIT_FAIL"
    [] "DRQ" \in st           -> "INIT_IDENTIFY_XFER"
    [] ata_status_is_bad(alt) -> "INIT_FAIL"
    [] "DRQ" \in alt          -> "INIT_IDENTIFY_XFER"
    [] OTHER                  -> "INIT_IDENTIFY_WAIT"

ata_init_identify_wait_handle ==
  /\ pc = "ack" /\ step = "INIT_IDENTIFY_WAIT"
  /\ step' = InitVerdict(last_status, DriveStatus(drive))
  /\ op' = IF step' = "INIT_FAIL" THEN "NONE" ELSE op
  /\ pc' = "out"
  /\ UNCHANGED <<delay_400, irq_fired, last_status, lba, sectors_left,
                 batch_left, ptr, identified, drive, disk, mem, in_service,
                 req, settled>>

ata_init_identify_xfer_handle ==
  /\ Handler("INIT_IDENTIFY_XFER")
  /\ identified' = (drive.phase = "drq" /\ drive.cmd = "identify")
  /\ drive' = AfterDrain(drive)
  /\ ata_finish(TRUE, "INIT_DONE", "INIT_FAIL")
  /\ DelayOver
  /\ UNCHANGED <<irq_fired, last_status, lba, sectors_left, batch_left, ptr,
                 pc, disk, mem, in_service, req>>

-----------------------------------------------------------------------------
(* The transfer handlers: one sector per command.                          *)
ata_io_issue_select_handle ==
  /\ Handler("IO_ISSUE_SELECT")
  /\ drive' = AfterDriveSel(drive, HeadOf(op, lba))
  /\ DelayStart
  /\ step' = "IO_ISSUE_TASKFILE"
  /\ UNCHANGED <<op, irq_fired, last_status, lba, sectors_left, batch_left,
                 ptr, identified, pc, disk, mem, in_service, req>>

ata_io_issue_taskfile_handle ==
  /\ Handler("IO_ISSUE_TASKFILE")
  /\ DelayOver
  /\ IF sectors_left = 0
     THEN /\ ata_finish(TRUE, "IO_DONE", "IO_FAIL")
          /\ UNCHANGED <<batch_left, drive, pc>>
     ELSE /\ batch_left' = 1
          /\ drive' = AfterLba(drive, LowOf(op, lba))
          /\ pc' = "regs"
          /\ UNCHANGED <<op, step>>
  /\ UNCHANGED <<irq_fired, last_status, lba, sectors_left, ptr, identified,
                 disk, mem, in_service, req>>

ata_io_command ==
  /\ pc = "regs"
  /\ drive' = AfterCommand(drive, IF IsRead(op) THEN "read" ELSE "write", ~Is28(op))
  /\ pc' = "cmd"
  /\ UNCHANGED <<ctx, disk, mem, in_service, req, settled>>

\* Faulty variants: an interrupt without DRQ taken for data; sectors_left
\* tested before DRQ; a request done with its first command.
IoVerdict_AnyIrq(st, alt, batch, left) ==
  CASE ata_status_is_bad(st)     -> "IO_FAIL"
    [] "DRQ" \in st              -> "IO_XFER_BLOCK"
    [] batch = 0 /\ left = 0     -> "IO_DONE"
    [] batch = 0 /\ left # 0     -> "IO_ISSUE_SELECT"
    [] OTHER                     -> "IO_XFER_BLOCK"
IoVerdict_LeftFirst(st, alt, batch, left) ==
  CASE ata_status_is_bad(st)     -> "IO_FAIL"
    [] left = 0                  -> "IO_DONE"
    [] OTHER                     -> "IO_ISSUE_SELECT"
IoVerdict_OneCommand(st, alt, batch, left) ==
  CASE ata_status_is_bad(st)     -> "IO_FAIL"
    [] "DRQ" \in st              -> "IO_XFER_BLOCK"
    [] OTHER                     -> "IO_DONE"

\* The step that follows IO_WAIT_IRQ, as InitVerdict; batch and left are the
\* sectors still owed to the command and to the request.
IoVerdict(st, alt, batch, left) ==
  CASE ata_status_is_bad(st)     -> "IO_FAIL"
    [] "DRQ" \in st              -> "IO_XFER_BLOCK"
    [] batch = 0 /\ left = 0     -> "IO_DONE"
    [] batch = 0 /\ left # 0     -> "IO_ISSUE_SELECT"
    [] ata_status_is_bad(alt)    -> "IO_FAIL"
    [] "DRQ" \in alt             -> "IO_XFER_BLOCK"
    [] OTHER                     -> "IO_WAIT_IRQ"

FollowIoVerdict(st) ==
  /\ step' = IoVerdict(st, DriveStatus(drive), batch_left, sectors_left)
  /\ op' = IF step' \in EndSteps THEN "NONE" ELSE op

ata_io_wait_irq_handle ==
  /\ \/ /\ pc = "ack" /\ step = "IO_WAIT_IRQ"
        /\ FollowIoVerdict(last_status)
        /\ UNCHANGED <<delay_400, settled>>
     \/ /\ Handler("IO_WAIT_IRQ") /\ ~irq_fired /\ batch_left = 0
        /\ FollowIoVerdict(DriveStatus(drive))
        /\ DelayOver
  /\ pc' = "out"
  /\ UNCHANGED <<irq_fired, last_status, lba, sectors_left, batch_left, ptr,
                 identified, drive, disk, mem, in_service, req>>

ata_io_xfer_block_handle ==
  /\ Handler("IO_XFER_BLOCK")
  /\ LET n == IF batch_left < 1 THEN batch_left ELSE 1
     IN  /\ IF n = 0
            THEN UNCHANGED <<mem, drive>>
            ELSE IF IsRead(op)
            THEN /\ mem' = [mem EXCEPT ![ptr] = DataPort(drive, disk)]
                 /\ drive' = AfterDrain(drive)
            ELSE /\ drive' = AfterFill(drive, mem[ptr])
                 /\ UNCHANGED mem
         /\ ptr' = ptr + n
         /\ lba' = lba + n
         /\ batch_left' = batch_left - n
         /\ sectors_left' = sectors_left - n
  /\ step' = "IO_WAIT_IRQ"
  /\ DelayOver
  /\ UNCHANGED <<op, irq_fired, last_status, identified, pc, disk,
                 in_service, req>>

tick_ata ==
  \/ ata_delay_400ns_tick
  \/ ata_init_select_handle \/ ata_init_identify_cmd_handle
  \/ TakeIrq("INIT_IDENTIFY_WAIT") \/ ata_init_identify_wait_handle
  \/ ata_init_identify_xfer_handle
  \/ ata_io_issue_select_handle
  \/ ata_io_issue_taskfile_handle \/ ata_io_command
  \/ ata_command_issued
  \/ TakeIrq("IO_WAIT_IRQ") \/ ata_io_wait_irq_handle
  \/ ata_io_xfer_block_handle

-----------------------------------------------------------------------------
(* The drive's own steps; a drive may fail any command it has accepted.    *)
DriveOffers ==
  /\ CanOfferData(drive) /\ drive' = AfterOffer(drive) /\ UNCHANGED disk

DriveFails ==
  /\ CanFail(drive) /\ drive' = AfterFail(drive) /\ UNCHANGED disk

DriveStores ==
  /\ CanStore(drive)
  /\ drive' = AfterStore(drive)
  /\ disk' = DiskAfterStore(drive, disk)

DriveStep ==
  /\ DriveOffers \/ DriveFails \/ DriveStores
  /\ UNCHANGED <<ctx, pc, mem, in_service, req, settled>>

-----------------------------------------------------------------------------
Next == Begin \/ tick_ata \/ irq14_ata \/ DriveStep

Spec == Init /\ [][Next]_vars

(* The kernel loop keeps ticking, an interrupt that is asserted and not in *)
(* service is taken, and a drive answers the command it has accepted.      *)
Fairness == WF_vars(tick_ata) /\ WF_vars(irq14_ata) /\ WF_vars(DriveStep)
FairSpec == Spec /\ Fairness

-----------------------------------------------------------------------------
(* Properties.                                                             *)

\* Every variable stays in its set.
ContextType ==
  /\ op \in {"NONE"} \cup InitOps \cup IoOps
  /\ step \in {"IDLE"} \cup InitSteps \cup IoSteps \cup EndSteps
  /\ pc \in {"out", "regs", "cmd", "ack"}
  /\ delay_400 \in 0 .. DelayTicks /\ settled \in 0 .. DelayTicks
  /\ lba \in Nat /\ sectors_left \in Nat /\ batch_left \in 0 .. 1
  /\ ptr \in 0 .. BufferSectors
FlagsType ==
  /\ irq_fired \in BOOLEAN /\ identified \in BOOLEAN
  /\ last_status \subseteq StatusFlags
  /\ in_service \subseteq {"master", "slave"}
RequestType ==
  req \in [op : {"NONE"} \cup InitOps \cup IoOps, lba : Nat, count : 0 .. BufferSectors]
DeviceType ==
  /\ drive \in Drive
  /\ disk \in [DiskLbas -> Content]
  /\ mem \in [0 .. BufferSectors - 1 -> Content]

TypeOK == ContextType /\ FlagsType /\ RequestType /\ DeviceType

\* The driver touches the data port only while the drive asks for data, in
\* the direction of the request: whatever status led to a transfer step
\* (irq14_ata's last_status or the alternate one) is still true of the drive
\* when ata_io_xfer_block_handle or ata_init_identify_xfer_handle runs.
TransferUnderDrq ==
  /\ step = "IO_XFER_BLOCK" /\ batch_left > 0 =>
       drive.phase = "drq" /\ drive.cmd = IF IsRead(op) THEN "read" ELSE "write"
  /\ step = "INIT_IDENTIFY_XFER" =>
       drive.phase = "drq" /\ drive.cmd = "identify"

\* The sectors a 28-bit or a 48-bit request can name.
Addressable(o, l) == l < IF Is28(o) THEN LowSpan * Heads ELSE Span48

\* A read moves the sectors asked for, in order, to the addresses asked for,
\* touches no other part of the buffer, and reports IO_DONE only when all of
\* them are there (begin_read_..., ata_io_issue_*_handle, the LBA bytes, and
\* the four counters ata_io_xfer_block_handle advances).
ReadDelivers ==
  IsRead(req.op) =>
    /\ \A i \in 0 .. BufferSectors - 1 :
         IF i < ptr
         THEN Addressable(req.op, req.lba + i) => mem[i] = FromDisk(req.lba + i)
         ELSE mem[i] = FromMem(i)
    /\ step = "IO_DONE" => ptr = req.count

\* A write puts on the medium only sectors of its buffer that it has handed
\* over, and its first sector at the LBA asked for.
WriteStoresItsBuffer ==
  req.op \in IoOps /\ ~IsRead(req.op) =>
    \A l \in DiskLbas :
      \/ disk[l] = FromDisk(l)
      \/ \E i \in 0 .. ptr - 1 :
           /\ disk[l] = FromMem(i)
           /\ i = 0 /\ Addressable(req.op, req.lba) => l = req.lba

\* A read programs registers and command only into a drive that takes them:
\* never one that is busy or asks for data.
ReadCommandIsTaken ==
  pc = "regs" /\ IsRead(op) => drive.phase \in {"ready", "absent"}

\* The drive select settles for 400ns, four CONTROL reads, before a register
\* or a command is written (ata_delay_400ns_start, tick_ata).
SelectSettles ==
  pc \in {"regs", "cmd"} => settled = DelayTicks

\* A read that has ended, well or not, leaves a drive that is not busy, asks
\* for nothing, and has no interrupt left that a later request could take
\* for its own answer.
QuietAfterRead ==
  IsRead(req.op) /\ step \in EndSteps =>
    drive.phase = "ready" /\ ~drive.intrq /\ ~irq_fired

\* INIT_DONE means that the identify buffer holds what the drive sent.
InitIdentifies == step = "INIT_DONE" => identified

\* Everybody waits: the driver for an interrupt, the drive for the driver.
InterruptLost ==
  /\ pc = "out" /\ ~irq_fired /\ ~drive.intrq
  /\ \/ step = "INIT_IDENTIFY_WAIT"
     \/ step = "IO_WAIT_IRQ" /\ batch_left # 0
  /\ drive.phase \in {"ready", "drq"}

\* The only window in which a read or an initialisation can lose the
\* interrupt it waits for lies between the COMMAND write and the
\* ata_irq_flags_reset() after it.
LostOnlyWhileIssuing ==
  [][(req.op \in InitOps \/ IsRead(req.op)) /\ ~InterruptLost /\ InterruptLost'
       => pc = "cmd" /\ irq_fired]_vars

\* No interrupt can come: there is no drive, or it interrupts behind nIEN,
\* which the loader's ata_init sets and only begin_init_ata_28_irq clears.
NobodyInterrupts == drive.phase = "absent" \/ (drive.nien /\ drive.intrq)

\* A request ends unless its interrupt is lost or cannot come.
EndsOrLosesInterrupt ==
  is_ata_irq_busy ~> (~is_ata_irq_busy \/ InterruptLost \/ NobodyInterrupts)

\* The driver, registers, drive and interrupts hidden, is a Transfer: a
\* request is accepted once, moves its sectors in order, ends at most once
\* and is reported done only when all were moved.
AllowedContent(r, i, c) ==
  IF IsRead(r.op)
  THEN Addressable(r.op, r.lba + i) => c = FromDisk(r.lba + i)
  ELSE c = FromMem(i)

TransferPhase ==
  CASE step = "IDLE"                     -> "idle"
    [] step \in {"INIT_DONE", "IO_DONE"} -> "done"
    [] step \in {"INIT_FAIL", "IO_FAIL"} -> "failed"
    [] OTHER                             -> "active"

Abstract == INSTANCE Transfer WITH
  Requests <- [op : InitOps \cup IoOps, lba : Nat, count : 0 .. BufferSectors],
  Allowed <- AllowedContent,
  phase <- TransferPhase, request <- req, moved <- ptr

ImplementsTransfer == Abstract!Spec

-----------------------------------------------------------------------------
(* What ata_driver_irq.h says of the driver and the code does not do.      *)

\* "begin_read/write...irq(), keep ticking until done/failed" (line 169): a
\* driver that is ticked reaches done or failed.
KeepTickingEnds == is_ata_irq_busy ~> ~is_ata_irq_busy

\* "4) begin_init... 5) call tick_ata() ... 6) begin_read/write...irq()"
\* (lines 167-169): after the initialisation a transfer can begin.
InitThenTransfer ==
  is_ata_init_done => ENABLED \E o \in IoOps, l \in StartLbas, n \in Counts :
                                BeginIo(o, l, n)

\* "write LBA/count + issue READ/WRITE cmd" (line 33): every sector a write
\* stores lies at the LBA it was given.
WriteStoresInPlace ==
  req.op \in IoOps /\ ~IsRead(req.op) =>
    \A l \in DiskLbas, i \in 0 .. req.count - 1 :
      disk[l] = FromMem(i) /\ Addressable(req.op, req.lba + i) => l = req.lba + i
=============================================================================
