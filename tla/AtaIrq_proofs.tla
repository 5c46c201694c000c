--------------------------- MODULE AtaIrq_proofs ---------------------------
(* Proofs about the interrupt-driven ATA driver, alone and behind the set-up *)
(* of the interrupt controllers.                                            *)
EXTENDS AtaIrqSetup, AtaDrive_proofs

-----------------------------------------------------------------------------
(* The inductive invariant: what step, pc and the counters say of each     *)
(* other, and what the driver may rely on about the drive it cannot see.   *)
IsWrite(o) == o \in {"WRITE_28", "WRITE_48"}
KindOf(o)  == IF o \in InitOps THEN "identify" ELSE IF IsRead(o) THEN "read" ELSE "write"

StepMatchesOp ==
  /\ op \in InitOps <=> step \in InitSteps
  /\ op \in IoOps <=> step \in IoSteps
  /\ op # "NONE" => op = req.op
  /\ step = "IDLE" <=> req.op = "NONE"
  /\ step = "IDLE" => req = NoRequest
  /\ req.op \in InitOps <=> step \in InitSteps \cup {"INIT_DONE", "INIT_FAIL"}

PcMatchesStep ==
  /\ pc = "regs" => step = "IO_ISSUE_TASKFILE"
  /\ pc = "cmd"  => step \in {"IO_ISSUE_TASKFILE", "INIT_IDENTIFY_CMD"}
  /\ pc = "ack"  => step \in {"IO_WAIT_IRQ", "INIT_IDENTIFY_WAIT"}
  /\ pc # "out"  => delay_400 = 0
  /\ step \in {"IO_ISSUE_TASKFILE", "INIT_IDENTIFY_CMD"} => settled + delay_400 = DelayTicks

\* The driver and the counters of ata_io_xfer_block_handle.
CountersAgree ==
  /\ ptr + sectors_left = req.count
  /\ lba = req.lba + ptr
  /\ batch_left <= sectors_left
  /\ step \in IoSteps /\ batch_left = 1 =>
       step \in {"IO_WAIT_IRQ", "IO_XFER_BLOCK"} \/ pc \in {"regs", "cmd"}
  /\ pc \in {"regs", "cmd"} /\ step = "IO_ISSUE_TASKFILE" => batch_left = 1
  /\ step \in {"IO_ISSUE_SELECT", "IO_ISSUE_TASKFILE"} => sectors_left # 0
  /\ step = "IO_DONE" \/ req.op \notin IoOps => sectors_left = 0

\* A command of the request has been written and not yet transferred.
Waiting ==
  /\ pc \in {"out", "ack"}
  /\ \/ step \in {"INIT_IDENTIFY_WAIT", "INIT_IDENTIFY_XFER"}
     \/ step \in {"IO_WAIT_IRQ", "IO_XFER_BLOCK"} /\ batch_left = 1

\* A drive that is busy or wants data executes the request's command, and a
\* DRQ the driver has seen, it can still see.
DrqHolds ==
  /\ drive.phase \in {"busy", "drq", "flush"} => req.op # "NONE" /\ drive.cmd = KindOf(req.op)
  /\ drive.phase = "flush" => drive.cmd = "write"
  /\ Waiting /\ "DRQ" \in last_status => drive.phase = "drq"
  /\ TransferUnderDrq

\* Unless the request is a write, the drive is at rest between its commands,
\* and says nothing new until it has been answered.
DriveFollowsRead ==
  ~IsWrite(req.op) =>
    /\ ~Waiting /\ pc # "cmd" =>
         drive.phase \in {"ready", "absent"} /\ ~drive.intrq /\ ~irq_fired
    /\ drive.phase \in {"busy", "absent"} => ~drive.intrq /\ ~irq_fired /\ pc # "ack"
    /\ drive.phase \in {"busy", "drq"} => ~drive.err
    /\ irq_fired \/ pc = "ack" => last_status = DriveStatus(drive) /\ ~drive.intrq
    /\ step \in {"INIT_IDENTIFY_XFER", "IO_XFER_BLOCK"} \/ pc = "ack" =>
         ~drive.intrq /\ ~irq_fired
    /\ step = "IO_XFER_BLOCK" => batch_left = 1
    /\ (step = "IO_WAIT_IRQ" /\ batch_left = 0) \/ step \in {"IO_DONE", "IO_FAIL"} =>
         drive.phase = "ready"
    /\ \A l \in DiskLbas : disk[l] = FromDisk(l)

\* Unless the request is a write, the drive executes the command, has failed it or
\* asks for its data to be taken, and an answer that came while the command was
\* being issued is still to be seen.
CommandIsAnswered ==
  ~IsWrite(req.op) =>
    /\ Waiting \/ pc = "cmd" =>
         drive.phase \in {"busy", "drq", "absent"} \/ (drive.phase = "ready" /\ drive.err)
    /\ pc = "cmd" /\ drive.phase \in {"ready", "drq"} => drive.intrq \/ irq_fired

\* The sector a request's registers name.
TargetOf(o, l) ==
  IF Is28(o) THEN HeadOf(o, l) * LowSpan + LowOf(o, l) ELSE LowOf(o, l)

\* Where a read stands: the registers written so far name the next sector.
ReadIsAimed ==
  IsRead(req.op) /\ drive.phase # "absent" =>
    /\ step = "IO_ISSUE_TASKFILE" /\ pc \in {"out", "regs"} => drive.head = HeadOf(req.op, lba)
    /\ pc = "regs" => drive.low = LowOf(req.op, lba)
    /\ Waiting \/ pc = "cmd" => drive.target = TargetOf(req.op, lba)
    /\ drive.phase = "drq" => drive.target \in DiskLbas

\* The first sector of a write is aimed like a read's, at a drive that is ready.
FirstIsAimed ==
  IsWrite(req.op) /\ ptr = 0 =>
    /\ drive.phase # "flush" /\ \A l \in DiskLbas : disk[l] = FromDisk(l)
    /\ step \in {"IO_WAIT_IRQ", "IO_XFER_BLOCK"} => batch_left = 1
    /\ drive.phase # "absent" =>
         /\ step \in {"IO_ISSUE_SELECT", "IO_ISSUE_TASKFILE"} /\ pc # "cmd" => drive.phase = "ready"
         /\ step = "IO_ISSUE_TASKFILE" /\ pc # "cmd" => drive.head = HeadOf(req.op, lba)
         /\ pc = "regs" => drive.low = LowOf(req.op, lba)
         /\ Waiting \/ pc = "cmd" => drive.target = TargetOf(req.op, lba)

\* What a drive stores was handed over by the driver.
FlushesBuffer ==
  IsWrite(req.op) /\ drive.phase = "flush" =>
    \E i \in 0 .. ptr - 1 :
      /\ drive.buf = FromMem(i)
      /\ i = 0 /\ Addressable(req.op, req.lba) => drive.target = req.lba

BufferUntouched ==
  ~IsRead(req.op) => \A i \in 0 .. BufferSectors - 1 : mem[i] = FromMem(i)

IInv ==
  /\ TypeOK /\ StepMatchesOp /\ PcMatchesStep /\ CountersAgree
  /\ DrqHolds /\ DriveFollowsRead /\ CommandIsAnswered /\ ReadIsAimed
  /\ ReadDelivers /\ BufferUntouched /\ InitIdentifies
  /\ FirstIsAimed /\ FlushesBuffer /\ WriteStoresItsBuffer

-----------------------------------------------------------------------------
\* What a status read that is bad to ata_status_is_bad tells.
LEMMA BadStatus ==
  ASSUME NEW d \in Drive
  PROVE  ata_status_is_bad(DriveStatus(d)) <=>
           d.phase = "absent" \/ (d.phase \in {"ready", "drq"} /\ d.err)
BY StatusTells DEF ata_status_is_bad

\* The registers a request is programmed into hold natural numbers.
LEMMA RegistersAreNat ==
  ASSUME NEW o, NEW l \in Nat
  PROVE  HeadOf(o, l) \in Nat /\ LowOf(o, l) \in Nat /\ TargetOf(o, l) \in Nat
<1>1. HeadOf(o, l) \in Nat /\ LowOf(o, l) \in Nat
  BY ChsIsNat DEF HeadOf, LowOf
<1> QED BY <1>1, DriveAssumption DEF TargetOf

\* A sector that 28 (or 48) bits can name is the one its registers name.
LEMMA RegistersNameTheSector ==
  ASSUME NEW o, NEW l \in Nat, Addressable(o, l)
  PROVE  TargetOf(o, l) = l
<1>1. CASE Is28(o)
  BY <1>1, Names28 DEF TargetOf, HeadOf, LowOf, Addressable
<1>2. CASE ~Is28(o)
  BY <1>2, Names48 DEF TargetOf, LowOf, Addressable
<1> QED BY <1>1, <1>2
-----------------------------------------------------------------------------
LEMMA InitSatisfies == Init => IInv
<1> SUFFICES ASSUME Init PROVE IInv
  OBVIOUS
<1> USE DEF Init, NoRequest
<1>1. /\ drive \in Drive /\ drive.phase \in {"ready", "absent"} /\ drive.cmd = "none"
      /\ drive.intrq = FALSE
  BY AtaIrqAssumption DEF DriveAtReset, Drive, Phases, Commands, Content, Garbage
<1>2. /\ \A l \in DiskLbas : l \in Nat /\ FromDisk(l) \in Content
      /\ \A i \in 0 .. BufferSectors - 1 : FromMem(i) \in Content
  BY DriveAssumption, AtaIrqAssumption DEF DiskLbas, FromDisk, FromMem, Content
<1>3. ContextType
  BY AtaIrqAssumption DEF ContextType, DelayTicks
<1>c. FlagsType
  BY DEF FlagsType
<1>a. RequestType
  <2>1. req = NoRequest /\ 0 \in Nat /\ 0 \in 0 .. BufferSectors
    BY AtaIrqAssumption
  <2> QED BY <2>1 DEF RequestType
<1>b. DeviceType
  <2>1. disk \in [DiskLbas -> Content] /\ mem \in [0 .. BufferSectors - 1 -> Content]
    BY <1>2
  <2> QED BY <2>1, <1>1 DEF DeviceType
<1>4. StepMatchesOp /\ PcMatchesStep /\ CountersAgree
  BY DEF StepMatchesOp, PcMatchesStep, CountersAgree, InitOps, IoOps, InitSteps, IoSteps, DelayTicks
<1>5. DrqHolds
  BY <1>1 DEF DrqHolds, Waiting, TransferUnderDrq
<1>6. DriveFollowsRead /\ CommandIsAnswered /\ ReadIsAimed
  BY <1>1 DEF DriveFollowsRead, CommandIsAnswered, ReadIsAimed, Waiting, IsWrite, IsRead
<1>7. ReadDelivers /\ InitIdentifies /\ BufferUntouched
  BY DEF ReadDelivers, InitIdentifies, BufferUntouched, IsRead
<1>8. FirstIsAimed /\ FlushesBuffer /\ WriteStoresItsBuffer
  BY DEF FirstIsAimed, FlushesBuffer, WriteStoresItsBuffer, IsWrite, IoOps
<1> QED BY <1>8, <1>3, <1>c, <1>a, <1>b, <1>4, <1>5, <1>6, <1>7 DEF IInv, TypeOK

-----------------------------------------------------------------------------
\* The part of the invariant about the driver alone: its counters and steps.
DriverInv == ContextType /\ RequestType /\ StepMatchesOp /\ PcMatchesStep /\ CountersAgree

LEMMA BeginPreservesDriver == DriverInv /\ Begin => DriverInv'
<1> USE DEF DriverInv, ContextType, RequestType, StepMatchesOp, PcMatchesStep, CountersAgree,
            InitOps, IoOps, InitSteps, IoSteps, EndSteps, DelayTicks, NoRequest,
            ata_request_state_reset
<1>1. ASSUME DriverInv, NEW o \in Ops \cap InitOps, BeginInit(o) PROVE DriverInv'
  <2> USE <1>1 DEF BeginInit
  <2>1. ContextType' /\ RequestType'
    BY AtaIrqAssumption
  <2>2. StepMatchesOp'
    BY AtaIrqAssumption
  <2>3. PcMatchesStep'
    BY AtaIrqAssumption
  <2>4. CountersAgree'
    BY AtaIrqAssumption
  <2> QED BY <2>1, <2>2, <2>3, <2>4
<1>2. ASSUME DriverInv, NEW o \in Ops \cap IoOps, NEW l \in StartLbas, NEW n \in Counts,
             BeginIo(o, l, n)
      PROVE  DriverInv'
  <2> USE <1>2 DEF BeginIo
  <2>1. ContextType' /\ RequestType'
    BY AtaIrqAssumption
  <2>2. StepMatchesOp'
    BY AtaIrqAssumption
  <2>3. PcMatchesStep'
    BY AtaIrqAssumption
  <2>4. CountersAgree'
    BY AtaIrqAssumption
  <2> QED BY <2>1, <2>2, <2>3, <2>4
<1> QED BY <1>1, <1>2 DEF Begin
LEMMA TickPreservesDriver == DriverInv /\ tick_ata => DriverInv'
<1> SUFFICES ASSUME DriverInv, tick_ata PROVE DriverInv'
  OBVIOUS
<1> USE DEF DriverInv, ContextType, RequestType, StepMatchesOp, PcMatchesStep, CountersAgree,
            InitOps, IoOps, InitSteps, IoSteps, EndSteps, DelayTicks,
            Handler, DelayElapsed, DelayOver, DelayStart, OneMore, ctx
<1>1. CASE ata_delay_400ns_tick
  BY <1>1 DEF ata_delay_400ns_tick
<1>2. CASE ata_init_select_handle
  BY <1>2 DEF ata_init_select_handle
<1>3. CASE ata_init_identify_cmd_handle
  BY <1>3 DEF ata_init_identify_cmd_handle
<1>4. CASE ata_command_issued
  BY <1>4 DEF ata_command_issued
<1>5. CASE TakeIrq("INIT_IDENTIFY_WAIT")
  BY <1>5 DEF TakeIrq
<1>6. CASE ata_init_identify_wait_handle
  BY <1>6 DEF ata_init_identify_wait_handle, InitVerdict
<1>7. CASE ata_init_identify_xfer_handle
  BY <1>7 DEF ata_init_identify_xfer_handle, ata_finish
<1>8. CASE ata_io_issue_select_handle
  BY <1>8 DEF ata_io_issue_select_handle
<1>9. CASE ata_io_issue_taskfile_handle
  BY <1>9 DEF ata_io_issue_taskfile_handle, ata_finish
<1>10. CASE ata_io_command
  BY <1>10 DEF ata_io_command
<1>11. CASE TakeIrq("IO_WAIT_IRQ")
  BY <1>11 DEF TakeIrq
<1>12. CASE ata_io_wait_irq_handle
  BY <1>12 DEF ata_io_wait_irq_handle, FollowIoVerdict, IoVerdict
<1>13. CASE ata_io_xfer_block_handle
  <2> USE <1>13 DEF ata_io_xfer_block_handle
  <2>1. \/ /\ batch_left = 0 /\ ptr' = ptr /\ lba' = lba
           /\ batch_left' = 0 /\ sectors_left' = sectors_left
        \/ /\ batch_left = 1 /\ ptr' = ptr + 1 /\ lba' = lba + 1
           /\ batch_left' = 0 /\ sectors_left' = sectors_left - 1
    OBVIOUS
  <2>2. req.count \in 0 .. BufferSectors /\ BufferSectors \in Nat
    BY AtaIrqAssumption
  <2>3. ContextType'
    BY <2>1, <2>2
  <2>4. RequestType' /\ StepMatchesOp' /\ PcMatchesStep'
    OBVIOUS
  <2>5. CountersAgree'
    BY <2>1, <2>2
  <2> QED BY <2>3, <2>4, <2>5
<1> QED BY <1>1, <1>2, <1>3, <1>4, <1>5, <1>6, <1>7, <1>8, <1>9, <1>10, <1>11, <1>12, <1>13 DEF tick_ata
LEMMA IrqAndDrivePreserveDriver == DriverInv /\ (irq14_ata \/ DriveStep) => DriverInv'
BY DEF DriverInv, ContextType, RequestType, StepMatchesOp, PcMatchesStep, CountersAgree,
       irq14_ata, DriveStep, ctx

LEMMA DriverStutters == DriverInv /\ UNCHANGED vars => DriverInv'
BY DEF DriverInv, ContextType, RequestType, StepMatchesOp, PcMatchesStep, CountersAgree,
       vars, ctx

LEMMA DriverStep == DriverInv /\ [Next]_vars => DriverInv'
BY BeginPreservesDriver, TickPreservesDriver, IrqAndDrivePreserveDriver, DriverStutters DEF Next

-----------------------------------------------------------------------------
\* The device side of the type invariant.
LEMMA FlagsStep == FlagsType /\ DeviceType /\ [Next]_vars => FlagsType'
<1> SUFFICES ASSUME FlagsType, DeviceType, [Next]_vars PROVE FlagsType'
  OBVIOUS
<1>1. DriveStatus(drive) \subseteq StatusFlags
  BY StatusTells DEF DeviceType
<1> USE DEF FlagsType
<1>2. CASE UNCHANGED vars
  BY <1>2 DEF vars, ctx
<1>3. CASE Begin
  BY <1>3 DEF Begin, BeginInit, BeginIo, ata_request_state_reset
<1>4. CASE irq14_ata
  BY <1>4, <1>1 DEF irq14_ata, AfterEoi
<1>5. CASE DriveStep
  BY <1>5 DEF DriveStep, ctx
<1>6. CASE tick_ata
  <2>1. CASE ata_delay_400ns_tick \/ ata_init_select_handle \/ ata_init_identify_cmd_handle
    BY <2>1 DEF ata_delay_400ns_tick, ata_init_select_handle, ata_init_identify_cmd_handle
  <2>2. CASE ata_command_issued
    BY <2>2 DEF ata_command_issued
  <2>3. ASSUME NEW s, TakeIrq(s) PROVE FlagsType'
    BY <2>3 DEF TakeIrq
  <2>4. CASE ata_init_identify_wait_handle \/ ata_init_identify_xfer_handle
    BY <2>4 DEF ata_init_identify_wait_handle, ata_init_identify_xfer_handle
  <2>5. CASE ata_io_issue_select_handle \/ ata_io_issue_taskfile_handle \/ ata_io_command
    BY <2>5 DEF ata_io_issue_select_handle, ata_io_issue_taskfile_handle, ata_io_command, ctx
  <2>6. CASE ata_io_wait_irq_handle \/ ata_io_xfer_block_handle
    BY <2>6 DEF ata_io_wait_irq_handle, ata_io_xfer_block_handle
  <2> QED BY <1>6, <2>1, <2>2, <2>3, <2>4, <2>5, <2>6 DEF tick_ata
<1> QED BY <1>2, <1>3, <1>4, <1>5, <1>6 DEF Next

LEMMA DeviceStep == DriverInv /\ DeviceType /\ [Next]_vars => DeviceType'
<1> SUFFICES ASSUME DriverInv, DeviceType, [Next]_vars PROVE DeviceType'
  OBVIOUS
<1> USE DEF DeviceType
<1>1. lba \in Nat
  BY DEF DriverInv, ContextType
<1>2. CASE UNCHANGED vars
  BY <1>2 DEF vars, ctx
<1>3. CASE Begin
  BY <1>3 DEF Begin, BeginInit, BeginIo
<1>4. CASE irq14_ata
  BY <1>4, DriveStays DEF irq14_ata
<1>5. CASE DriveStep
  <2>1. drive' \in Drive
    BY <1>5, DriveStays DEF DriveStep, DriveOffers, DriveFails, DriveStores
  <2>2. disk' \in [DiskLbas -> Content]
    <3>1. drive.buf \in Content
      BY DEF Drive
    <3>2. DiskAfterStore(drive, disk) \in [DiskLbas -> Content]
      BY <3>1 DEF DiskAfterStore
    <3> QED BY <1>5, <3>2 DEF DriveStep, DriveOffers, DriveFails, DriveStores
  <2> QED BY <1>5, <2>1, <2>2 DEF DriveStep
<1>6. CASE tick_ata
  <2>1. CASE ata_delay_400ns_tick \/ ata_command_issued \/ ata_init_identify_wait_handle
             \/ ata_io_wait_irq_handle
    BY <2>1 DEF ata_delay_400ns_tick, ata_command_issued, ata_init_identify_wait_handle,
                ata_io_wait_irq_handle
  <2>2. ASSUME NEW s, TakeIrq(s) PROVE DeviceType'
    BY <2>2 DEF TakeIrq
  <2>3. CASE ata_init_select_handle
    BY <2>3, DriveStays DEF ata_init_select_handle
  <2>4. CASE ata_init_identify_cmd_handle
    BY <2>4, DriveStays, CommandStays DEF ata_init_identify_cmd_handle, Commands
  <2>5. CASE ata_init_identify_xfer_handle
    BY <2>5, DriveStays DEF ata_init_identify_xfer_handle
  <2>6. CASE ata_io_issue_select_handle
    BY <2>6, <1>1, DriveStays, RegistersAreNat DEF ata_io_issue_select_handle
  <2>7. CASE ata_io_issue_taskfile_handle
    BY <2>7, <1>1, DriveStays, RegistersAreNat DEF ata_io_issue_taskfile_handle
  <2>8. CASE ata_io_command
    BY <2>8, CommandStays DEF ata_io_command, Commands
  <2>9. CASE ata_io_xfer_block_handle
    <3>1. CASE batch_left = 0
      BY <3>1, <2>9 DEF ata_io_xfer_block_handle
    <3>2. CASE batch_left = 1
      <4>1. ptr \in 0 .. BufferSectors - 1
        BY <3>2, AtaIrqAssumption DEF DriverInv, ContextType, CountersAgree, RequestType
      <4>2. DataPort(drive, disk) \in Content
        BY DEF DataPort, Garbage, Content
      <4>3. mem[ptr] \in Content /\ AfterFill(drive, mem[ptr]) \in Drive /\ AfterDrain(drive) \in Drive
        BY <4>1, DriveStays
      <4>4. CASE IsRead(op)
        BY <4>4, <2>9, <3>2, <4>2, <4>3 DEF ata_io_xfer_block_handle
      <4>5. CASE ~IsRead(op)
        BY <4>5, <2>9, <3>2, <4>3 DEF ata_io_xfer_block_handle
      <4> QED BY <4>4, <4>5
    <3> QED BY <3>1, <3>2 DEF DriverInv, ContextType
  <2> QED BY <1>6, <2>1, <2>2, <2>3, <2>4, <2>5, <2>6, <2>7, <2>8, <2>9 DEF tick_ata
<1> QED BY <1>2, <1>3, <1>4, <1>5, <1>6 DEF Next

\* Every variable of the driver, the drive and the interrupt controllers stays
\* in its set, whatever sectors, counts and buffers the requests name.
THEOREM TypeCorrect == Spec => []TypeOK
<1> DEFINE Inv == DriverInv /\ FlagsType /\ DeviceType
<1>1. Init => Inv
  BY InitSatisfies DEF IInv, TypeOK, DriverInv
<1>2. Inv /\ [Next]_vars => Inv'
  BY DriverStep, FlagsStep, DeviceStep
<1>3. Inv => TypeOK
  BY DEF TypeOK, DriverInv
<1> QED BY <1>1, <1>2, <1>3, PTL DEF Spec
-----------------------------------------------------------------------------
LEMMA DrqStep ==
  ASSUME DriverInv, FlagsType, DeviceType, DrqHolds, [Next]_vars
  PROVE  DrqHolds'
<1>1. drive \in Drive /\ drive.phase \in Phases
  BY DEF DeviceType, Drive
<1>2. "DRQ" \in DriveStatus(drive) <=> drive.phase = "drq"
  BY <1>1, StatusTells, BadStatus
<1> USE DEF DrqHolds, Waiting, TransferUnderDrq, KindOf, InitOps, IoOps, InitSteps, IoSteps
<1>3. CASE UNCHANGED vars
  BY <1>3 DEF vars, ctx
<1>4. CASE Begin
  <2>1. drive.phase \notin {"busy", "drq", "flush"} /\ drive' = drive
    BY <1>1, <1>4 DEF Begin, BeginInit, BeginIo, DriverInv, StepMatchesOp, Phases
  <2>2. step' \in {"INIT_SELECT", "IO_ISSUE_SELECT"}
    BY <1>4 DEF Begin, BeginInit, BeginIo
  <2> QED BY <2>1, <2>2
<1>5. CASE irq14_ata
  BY <1>1, <1>2, <1>5, PhaseAfter DEF irq14_ata
<1>6. CASE DriveStep
  BY <1>1, <1>6, PhaseAfter
  DEF DriveStep, DriveOffers, DriveFails, DriveStores, CanOfferData, CanFail, CanStore, ctx
<1>7. CASE tick_ata
  <2> USE <1>1, PhaseAfter DEF Handler, DriverInv, StepMatchesOp, PcMatchesStep, CountersAgree
  <2>1. CASE ata_delay_400ns_tick
    BY <2>1 DEF ata_delay_400ns_tick
  <2>2. CASE ata_init_select_handle
    <3> DEFINE d == AfterControl(drive, FALSE)
    <3>1. d \in Drive /\ d.phase = drive.phase /\ d.cmd = drive.cmd
      BY DriveStays, PhaseAfter
    <3>2. drive' = AfterDriveSel(d, 0)
      BY <2>2 DEF ata_init_select_handle
    <3> HIDE DEF d
    <3>3. drive'.phase = drive.phase /\ drive'.cmd = drive.cmd
      BY <3>1, <3>2, PhaseAfter DEF Commands
    <3> QED BY <2>2, <3>3 DEF ata_init_select_handle
  <2>3. CASE ata_init_identify_cmd_handle
    <3> DEFINE d == AfterLba(drive, 0)
    <3>1. d \in Drive /\ d.phase = drive.phase /\ d.cmd = drive.cmd
      BY <1>1 DEF AfterLba, Drive
    <3>2. drive' = AfterCommand(d, "identify", FALSE)
      BY <2>3 DEF ata_init_identify_cmd_handle
    <3> HIDE DEF d
    <3>3. /\ drive'.phase = IF drive.phase = "ready" THEN "busy" ELSE drive.phase
          /\ drive'.cmd = IF drive.phase = "ready" THEN "identify" ELSE drive.cmd
      BY <3>1, <3>2 DEF AfterCommand, Drive
    <3> QED BY <2>3, <3>3 DEF ata_init_identify_cmd_handle
  <2>4. CASE ata_command_issued
    BY <2>4 DEF ata_command_issued
  <2>5. ASSUME NEW s, TakeIrq(s) PROVE DrqHolds'
    BY <2>5 DEF TakeIrq
  <2>6. CASE ata_init_identify_wait_handle
    BY <2>6, <1>2 DEF ata_init_identify_wait_handle, InitVerdict
  <2>7. CASE ata_init_identify_xfer_handle
    BY <2>7 DEF ata_init_identify_xfer_handle, ata_finish
  <2>8. CASE ata_io_issue_select_handle
    BY <2>8 DEF ata_io_issue_select_handle
  <2>9. CASE ata_io_issue_taskfile_handle
    BY <2>9 DEF ata_io_issue_taskfile_handle, ata_finish
  <2>10. CASE ata_io_command
    <3>1. /\ drive'.phase = IF drive.phase = "ready" THEN "busy" ELSE drive.phase
          /\ drive'.cmd = IF drive.phase = "ready"
                         THEN IF IsRead(op) THEN "read" ELSE "write" ELSE drive.cmd
      BY <2>10 DEF ata_io_command, AfterCommand, Drive
    <3> QED BY <2>10, <3>1 DEF ata_io_command, ctx
  <2>11. CASE ata_io_wait_irq_handle
    BY <2>11, <1>2 DEF ata_io_wait_irq_handle, FollowIoVerdict, IoVerdict, EndSteps, ContextType
  <2>12. CASE ata_io_xfer_block_handle
    BY <2>12 DEF ata_io_xfer_block_handle, ContextType
  <2> QED BY <1>7, <2>1, <2>2, <2>3, <2>4, <2>5, <2>6, <2>7, <2>8, <2>9, <2>10, <2>11, <2>12
      DEF tick_ata
<1> QED BY <1>3, <1>4, <1>5, <1>6, <1>7 DEF Next
\* The drive select has settled before a register or a command is written,
\* whatever ticks and interrupts come in between.
THEOREM SelectIsSettled == Spec => []SelectSettles
<1>1. Init => DriverInv
  BY InitSatisfies DEF IInv, TypeOK, DriverInv
<1>2. DriverInv => SelectSettles
  BY DEF DriverInv, PcMatchesStep, SelectSettles, ContextType, DelayTicks
<1> QED BY <1>1, <1>2, DriverStep, PTL DEF Spec

\* The data port is touched only while the drive asks for data, in the direction
\* of the request, for every request and every moment an interrupt comes.
THEOREM TransfersUnderDrq == Spec => []TransferUnderDrq
<1> DEFINE Inv == DriverInv /\ FlagsType /\ DeviceType /\ DrqHolds
<1>1. Init => Inv
  BY InitSatisfies DEF IInv, TypeOK, DriverInv
<1>2. Inv /\ [Next]_vars => Inv'
  BY DriverStep, FlagsStep, DeviceStep, DrqStep
<1>3. Inv => TransferUnderDrq
  BY DEF DrqHolds
<1> QED BY <1>1, <1>2, <1>3, PTL DEF Spec

-----------------------------------------------------------------------------
LEMMA FollowStep ==
  ASSUME DriverInv, FlagsType, DeviceType, DrqHolds, DriveFollowsRead, [Next]_vars
  PROVE  DriveFollowsRead'
<1>1. drive \in Drive /\ drive.phase \in Phases
  BY DEF DeviceType, Drive
<1>2. /\ "DRQ" \in DriveStatus(drive) <=> drive.phase = "drq"
      /\ ata_status_is_bad(DriveStatus(drive)) <=>
           drive.phase = "absent" \/ (drive.phase \in {"ready", "drq"} /\ drive.err)
  BY <1>1, StatusTells, BadStatus
<1> SUFFICES ASSUME ~IsWrite(req'.op) PROVE DriveFollowsRead'
  BY DEF DriveFollowsRead
<1> USE DEF DriveFollowsRead, Waiting, InitOps, IoOps, InitSteps, IoSteps, IsWrite
<1>3. CASE UNCHANGED vars
  BY <1>3 DEF vars, ctx
<1>4. CASE Begin
  BY <1>4 DEF Begin, BeginInit, BeginIo, DriverInv, StepMatchesOp, PcMatchesStep, NoRequest,
              ata_request_state_reset
<1>5. CASE irq14_ata
  BY <1>1, <1>5 DEF irq14_ata, AfterStatusRead, IntrqLine, Drive, DriveStatus
<1>6. CASE DriveStep
  <2>1. drive.phase = "busy" /\ drive.cmd # "write" /\ disk' = disk
    BY <1>1, <1>6 DEF DriveStep, DriveOffers, DriveFails, DriveStores, CanOfferData, CanFail,
       CanStore, DrqHolds, KindOf, DriverInv, RequestType, IsRead
  <2>2. drive'.phase \in {"drq", "ready"} /\ drive'.intrq = TRUE
        /\ (drive'.phase = "drq" => ~drive'.err)
    BY <1>1, <2>1, <1>6 DEF DriveStep, DriveOffers, DriveFails, DriveStores, CanStore, AfterOffer,
       AfterFail, Drive
  <2>3. step \notin {"INIT_IDENTIFY_XFER", "IO_XFER_BLOCK"}
    BY <1>6, <2>1 DEF DriveStep, DrqHolds, TransferUnderDrq
  <2> QED BY <1>6, <2>1, <2>2, <2>3 DEF DriveStep, ctx
<1>7. CASE tick_ata
  <2> USE <1>1 DEF Handler, DriverInv, StepMatchesOp, PcMatchesStep, CountersAgree
  <2>1. CASE ata_delay_400ns_tick
    BY <2>1 DEF ata_delay_400ns_tick
  <2>2. CASE ata_init_select_handle
    BY <2>2 DEF ata_init_select_handle, AfterControl, AfterDriveSel, Drive
  <2>3. CASE ata_init_identify_cmd_handle
    BY <2>3 DEF ata_init_identify_cmd_handle, AfterLba, AfterCommand, Drive
  <2>4. CASE ata_command_issued
    BY <2>4 DEF ata_command_issued
  <2>5. ASSUME NEW s, TakeIrq(s) PROVE DriveFollowsRead'
    BY <2>5 DEF TakeIrq
  <2>6. CASE ata_init_identify_wait_handle
    BY <2>6, <1>2 DEF ata_init_identify_wait_handle, InitVerdict
  <2>7. CASE ata_init_identify_xfer_handle
    BY <2>7 DEF ata_init_identify_xfer_handle, ata_finish, AfterDrain, Drive, DrqHolds, TransferUnderDrq
  <2>8. CASE ata_io_issue_select_handle
    BY <2>8 DEF ata_io_issue_select_handle, AfterDriveSel, Drive
  <2>9. CASE ata_io_issue_taskfile_handle
    BY <2>9 DEF ata_io_issue_taskfile_handle, AfterLba, Drive
  <2>10. CASE ata_io_command
    BY <2>10 DEF ata_io_command, AfterCommand, ctx, Drive
  <2>11. CASE ata_io_wait_irq_handle
    BY <2>11, <1>2 DEF ata_io_wait_irq_handle, FollowIoVerdict, IoVerdict, EndSteps, ContextType
  <2>12. CASE ata_io_xfer_block_handle
    BY <2>12 DEF ata_io_xfer_block_handle, ContextType, AfterDrain, Drive, DrqHolds, TransferUnderDrq, IsRead
  <2> QED BY <1>7, <2>1, <2>2, <2>3, <2>4, <2>5, <2>6, <2>7, <2>8, <2>9, <2>10, <2>11, <2>12
      DEF tick_ata
<1> QED BY <1>3, <1>4, <1>5, <1>6, <1>7 DEF Next
LEMMA AnswerStep ==
  ASSUME DriverInv, FlagsType, DeviceType, DrqHolds, DriveFollowsRead, CommandIsAnswered, [Next]_vars
  PROVE  CommandIsAnswered'
<1>1. drive \in Drive /\ drive.phase \in Phases
  BY DEF DeviceType, Drive
<1>2. "DRQ" \in DriveStatus(drive) <=> drive.phase = "drq"
  BY <1>1, StatusTells
<1> SUFFICES ASSUME ~IsWrite(req'.op) PROVE CommandIsAnswered'
  BY DEF CommandIsAnswered
<1> USE DEF CommandIsAnswered, Waiting
<1>3. CASE UNCHANGED vars
  BY <1>3 DEF vars, ctx
<1>4. CASE Begin
  BY <1>4 DEF Begin, BeginInit, BeginIo
<1>5. CASE irq14_ata
  BY <1>1, <1>5 DEF irq14_ata, AfterStatusRead, Drive
<1>6. CASE DriveStep
  <2>1. drive.phase = "busy" /\ drive.cmd # "write"
    BY <1>1, <1>6 DEF DriveStep, DriveOffers, DriveFails, DriveStores, CanOfferData, CanFail,
       CanStore, DrqHolds, KindOf, DriverInv, RequestType, IsRead, IsWrite, ctx, InitOps, IoOps
  <2>2. /\ drive'.phase = "drq" \/ (drive'.phase = "ready" /\ drive'.err = TRUE)
        /\ drive'.intrq = TRUE
    BY <1>1, <2>1, <1>6 DEF DriveStep, DriveOffers, DriveFails, DriveStores, CanStore, AfterOffer,
       AfterFail, Drive
  <2> QED BY <1>6, <2>1, <2>2 DEF DriveStep, ctx
<1>7. CASE tick_ata
  <2> USE <1>1 DEF Handler, DriverInv, StepMatchesOp, PcMatchesStep, CountersAgree, InitOps, IoOps,
                   InitSteps, IoSteps, IsWrite
  <2>1. CASE ata_delay_400ns_tick
    BY <2>1 DEF ata_delay_400ns_tick
  <2>2. CASE ata_init_select_handle
    BY <2>2 DEF ata_init_select_handle, AfterControl, AfterDriveSel, Drive
  <2>3. CASE ata_init_identify_cmd_handle
    <3>1. drive.phase \in {"ready", "absent"}
      BY <2>3 DEF ata_init_identify_cmd_handle, DriveFollowsRead
    <3>2. drive'.phase \in {"busy", "absent"}
      BY <2>3, <3>1 DEF ata_init_identify_cmd_handle, AfterLba, AfterCommand, Drive
    <3> QED BY <2>3, <3>2 DEF ata_init_identify_cmd_handle
  <2>4. CASE ata_command_issued
    BY <2>4 DEF ata_command_issued
  <2>5. ASSUME NEW s, TakeIrq(s) PROVE CommandIsAnswered'
    BY <2>5 DEF TakeIrq
  <2>6. CASE ata_init_identify_wait_handle
    BY <2>6 DEF ata_init_identify_wait_handle, InitVerdict
  <2>7. CASE ata_init_identify_xfer_handle
    BY <2>7 DEF ata_init_identify_xfer_handle, ata_finish
  <2>8. CASE ata_io_issue_select_handle
    BY <2>8 DEF ata_io_issue_select_handle
  <2>9. CASE ata_io_issue_taskfile_handle
    BY <2>9 DEF ata_io_issue_taskfile_handle, ata_finish
  <2>10. CASE ata_io_command
    <3>1. drive.phase \in {"ready", "absent"}
      BY <2>10 DEF ata_io_command, DriveFollowsRead, ctx
    <3>2. drive'.phase \in {"busy", "absent"}
      BY <2>10, <3>1 DEF ata_io_command, AfterCommand, Drive
    <3> QED BY <2>10, <3>2 DEF ata_io_command, ctx
  <2>11. CASE ata_io_wait_irq_handle
    BY <2>11, <1>2 DEF ata_io_wait_irq_handle, FollowIoVerdict, IoVerdict, EndSteps, ContextType
  <2>12. CASE ata_io_xfer_block_handle
    BY <2>12 DEF ata_io_xfer_block_handle, ContextType, DriveFollowsRead
  <2> QED BY <1>7, <2>1, <2>2, <2>3, <2>4, <2>5, <2>6, <2>7, <2>8, <2>9, <2>10, <2>11, <2>12
      DEF tick_ata
<1> QED BY <1>3, <1>4, <1>5, <1>6, <1>7 DEF Next

LEMMA AimStep ==
  ASSUME DriverInv, FlagsType, DeviceType, DrqHolds, DriveFollowsRead, ReadIsAimed, [Next]_vars
  PROVE  ReadIsAimed'
<1>1. drive \in Drive /\ drive.phase \in Phases
  BY DEF DeviceType, Drive
<1> SUFFICES ASSUME IsRead(req'.op) PROVE ReadIsAimed'
  BY DEF ReadIsAimed
<1>2. ~IsWrite(req'.op) /\ req'.op \notin InitOps /\ req'.op # "NONE"
  BY DEF IsRead, IsWrite, InitOps
<1> USE DEF ReadIsAimed, Waiting
<1>3. CASE UNCHANGED vars
  BY <1>3 DEF vars, ctx
<1>4. CASE Begin
  <2>1. step' \in {"INIT_SELECT", "IO_ISSUE_SELECT"} /\ pc' = "out" /\ drive' = drive
    BY <1>4 DEF Begin, BeginInit, BeginIo
  <2>2. drive.phase # "drq"
    BY <1>4 DEF Begin, BeginInit, BeginIo, DrqHolds, DriverInv, StepMatchesOp
  <2> QED BY <2>1, <2>2
<1>5. CASE irq14_ata
  BY <1>1, <1>5 DEF irq14_ata, AfterStatusRead, Drive
<1>6. CASE DriveStep
  BY <1>1, <1>2, <1>6 DEF DriveStep, DriveOffers, DriveFails, DriveStores, CanOfferData, CanFail,
     CanStore, AfterOffer, AfterFail, AfterStore, Drive, DrqHolds, KindOf, ctx
<1>7. CASE tick_ata
  <2> USE <1>1, <1>2 DEF Handler, DriverInv, StepMatchesOp, PcMatchesStep, CountersAgree,
                         InitOps, IoOps, InitSteps, IoSteps
  <2>1. CASE ata_delay_400ns_tick
    BY <2>1 DEF ata_delay_400ns_tick
  <2>2. CASE ata_init_select_handle \/ ata_init_identify_cmd_handle \/ ata_init_identify_wait_handle
             \/ ata_init_identify_xfer_handle
    BY <2>2 DEF ata_init_select_handle, ata_init_identify_cmd_handle, ata_init_identify_wait_handle,
                ata_init_identify_xfer_handle
  <2>3. CASE ata_command_issued
    BY <2>3 DEF ata_command_issued
  <2>4. ASSUME NEW s, TakeIrq(s) PROVE ReadIsAimed'
    BY <2>4 DEF TakeIrq
  <2>5. CASE ata_io_issue_select_handle
    BY <2>5 DEF ata_io_issue_select_handle, AfterDriveSel, Drive, DriveFollowsRead
  <2>6. CASE ata_io_issue_taskfile_handle
    BY <2>6 DEF ata_io_issue_taskfile_handle, AfterLba, Drive, DriveFollowsRead, ata_finish
  <2>7. CASE ata_io_command
    BY <2>7 DEF ata_io_command, AfterCommand, ctx, Drive, DriveFollowsRead, TargetOf, ContextType
  <2>8. CASE ata_io_wait_irq_handle
    BY <2>8 DEF ata_io_wait_irq_handle, FollowIoVerdict, IoVerdict, EndSteps, ContextType
  <2>9. CASE ata_io_xfer_block_handle
    BY <2>9 DEF ata_io_xfer_block_handle, ContextType, AfterDrain, Drive, DrqHolds, TransferUnderDrq,
                DriveFollowsRead, IsRead
  <2> QED BY <1>7, <2>1, <2>2, <2>3, <2>4, <2>5, <2>6, <2>7, <2>8, <2>9 DEF tick_ata
<1> QED BY <1>3, <1>4, <1>5, <1>6, <1>7 DEF Next

\* The buffer changes only when a sector is read into it.
LEMMA BufferChanges ==
  ASSUME [Next]_vars, mem' # mem
  PROVE  ata_io_xfer_block_handle /\ IsRead(op)
BY DEF Next, vars, ctx, Begin, BeginInit, BeginIo, irq14_ata, DriveStep, tick_ata,
       ata_delay_400ns_tick, ata_init_select_handle, ata_init_identify_cmd_handle,
       ata_command_issued, TakeIrq, ata_init_identify_wait_handle, ata_init_identify_xfer_handle,
       ata_io_issue_select_handle, ata_io_issue_taskfile_handle, ata_io_command,
       ata_io_wait_irq_handle, ata_io_xfer_block_handle
\* The request changes when one begins, the progress when a sector moves too.
LEMMA ProgressChanges ==
  ASSUME [Next]_vars, ~Begin
  PROVE  req' = req /\ (~ata_io_xfer_block_handle => ptr' = ptr)
BY DEF Next, vars, ctx, irq14_ata, DriveStep, tick_ata,
       ata_delay_400ns_tick, ata_init_select_handle, ata_init_identify_cmd_handle,
       ata_command_issued, TakeIrq, ata_init_identify_wait_handle, ata_init_identify_xfer_handle,
       ata_io_issue_select_handle, ata_io_issue_taskfile_handle, ata_io_command,
       ata_io_wait_irq_handle, ata_io_xfer_block_handle

\* What ata_io_xfer_block_handle puts in the buffer.
LEMMA SectorArrives ==
  ASSUME DriverInv, DeviceType, DrqHolds, DriveFollowsRead, ReadIsAimed,
         ata_io_xfer_block_handle, IsRead(req.op)
  PROVE  /\ ptr \in 0 .. BufferSectors - 1 /\ ptr' = ptr + 1 /\ lba = req.lba + ptr /\ lba \in Nat
         /\ mem' = [mem EXCEPT ![ptr] = mem'[ptr]]
         /\ Addressable(req.op, lba) => mem'[ptr] = FromDisk(lba)
<1>1. ~IsWrite(req.op) /\ req.op \notin InitOps
  BY DEF IsRead, IsWrite, InitOps
<1>2. op = req.op /\ step = "IO_XFER_BLOCK" /\ batch_left = 1 /\ pc = "out"
  BY <1>1 DEF ata_io_xfer_block_handle, Handler, DriverInv, StepMatchesOp, DriveFollowsRead, IoOps, IoSteps
<1>3. drive.phase = "drq" /\ drive.cmd = "read"
  BY <1>2 DEF DrqHolds, TransferUnderDrq
<1>4. drive.target = TargetOf(req.op, lba) /\ drive.target \in DiskLbas
  BY <1>2, <1>3 DEF ReadIsAimed, Waiting
<1>5. DataPort(drive, disk) = FromDisk(drive.target)
  BY <1>1, <1>3, <1>4 DEF DataPort, DriveFollowsRead
<1>6. /\ ptr \in 0 .. BufferSectors - 1 /\ ptr' = ptr + 1 /\ lba = req.lba + ptr /\ lba \in Nat
  BY <1>2, AtaIrqAssumption DEF DriverInv, ContextType, RequestType, CountersAgree, ata_io_xfer_block_handle
<1>7. mem' = [mem EXCEPT ![ptr] = FromDisk(drive.target)]
  BY <1>2, <1>5 DEF ata_io_xfer_block_handle
<1>8. mem'[ptr] = FromDisk(drive.target)
  BY <1>6, <1>7 DEF DeviceType
<1> QED BY <1>4, <1>6, <1>7, <1>8, RegistersNameTheSector

LEMMA ContentsStep ==
  ASSUME DriverInv, DeviceType, DrqHolds, DriveFollowsRead, ReadIsAimed, ReadDelivers,
         BufferUntouched, DriverInv', [Next]_vars
  PROVE  ReadDelivers' /\ BufferUntouched'
<1>1. step' = "IO_DONE" => ptr' = req'.count
  BY DEF DriverInv, CountersAgree, ContextType, RequestType
<1>2. CASE Begin
  <2>1. mem' = mem /\ \A i \in 0 .. BufferSectors - 1 : mem[i] = FromMem(i)
    BY <1>2 DEF Begin, BeginInit, BeginIo, DriverInv, StepMatchesOp, BufferUntouched, IsRead
  <2>2. IsRead(req'.op) => ptr' = 0
    BY <1>2 DEF Begin, BeginInit, BeginIo, IsRead, InitOps
  <2>3. BufferUntouched'
    BY <2>1 DEF BufferUntouched
  <2>4. ReadDelivers'
    BY <1>1, <2>1, <2>2 DEF ReadDelivers
  <2> QED BY <2>3, <2>4
<1>3. CASE ~Begin /\ ata_io_xfer_block_handle /\ IsRead(req.op)
  <2>1. req' = req
    BY <1>3, ProgressChanges
  <2>2. BufferUntouched'
    BY <1>3, <2>1 DEF BufferUntouched
  <2>3. ASSUME NEW i \in 0 .. BufferSectors - 1
        PROVE  IF i < ptr'
               THEN Addressable(req.op, req.lba + i) => mem'[i] = FromDisk(req.lba + i)
               ELSE mem'[i] = FromMem(i)
    <3>1. CASE i = ptr
      BY <1>3, <3>1, SectorArrives
    <3>2. CASE i # ptr
      <4>1. mem'[i] = mem[i]
        BY <1>3, <3>2, SectorArrives DEF DeviceType
      <4>2. i < ptr' <=> i < ptr
        BY <1>3, <3>2, SectorArrives
      <4> QED BY <1>3, <4>1, <4>2 DEF ReadDelivers
    <3> QED BY <3>1, <3>2
  <2> QED BY <1>1, <2>1, <2>2, <2>3 DEF ReadDelivers
<1>4. CASE ~Begin /\ ~(ata_io_xfer_block_handle /\ IsRead(req.op))
  <2>1. req' = req
    BY <1>4, ProgressChanges
  <2>2. mem' = mem
    BY <1>4, BufferChanges DEF DriverInv, StepMatchesOp, ata_io_xfer_block_handle, Handler, IoOps, IoSteps
  <2>3. IsRead(req.op) => ptr' = ptr
    BY <1>4, ProgressChanges
  <2> QED BY <1>1, <2>1, <2>2, <2>3 DEF ReadDelivers, BufferUntouched
<1> QED BY <1>2, <1>3, <1>4

LEMMA IdentifyStep ==
  ASSUME DriverInv, DrqHolds, InitIdentifies, [Next]_vars
  PROVE  InitIdentifies'
<1>1. CASE ata_init_identify_xfer_handle
  BY <1>1 DEF ata_init_identify_xfer_handle, Handler, DrqHolds, TransferUnderDrq, InitIdentifies
<1>2. CASE ~ata_init_identify_xfer_handle
  BY <1>2 DEF InitIdentifies, Next, vars, ctx, Begin, BeginInit, BeginIo, irq14_ata, DriveStep,
       tick_ata, ata_delay_400ns_tick, ata_init_select_handle, ata_init_identify_cmd_handle,
       ata_command_issued, TakeIrq, ata_init_identify_wait_handle, InitVerdict,
       ata_io_issue_select_handle, ata_io_issue_taskfile_handle, ata_finish, ata_io_command,
       ata_io_wait_irq_handle, FollowIoVerdict, IoVerdict, ata_io_xfer_block_handle
<1> QED BY <1>1, <1>2

-----------------------------------------------------------------------------
(* What a write puts on the medium.                                        *)

\* The first sector of a write is still to come: the request has just begun, or
\* nothing that concerns the drive's address has been given up.
LEMMA FirstStep ==
  ASSUME DriverInv, FlagsType, DeviceType, DrqHolds, DriveFollowsRead, FirstIsAimed, [Next]_vars
  PROVE  FirstIsAimed'
<1>1. drive \in Drive /\ drive.phase \in Phases
  BY DEF DeviceType, Drive
<1> SUFFICES ASSUME IsWrite(req'.op), ptr' = 0 PROVE FirstIsAimed'
  BY DEF FirstIsAimed
<1>2. ~IsRead(req'.op) /\ req'.op \notin InitOps /\ req'.op # "NONE"
  BY DEF IsRead, IsWrite, InitOps
<1> USE DEF FirstIsAimed, Waiting
<1>3. CASE UNCHANGED vars
  BY <1>3 DEF vars, ctx
<1>4. CASE Begin
  <2>1. step' = "IO_ISSUE_SELECT" /\ pc' = "out" /\ drive' = drive /\ disk' = disk /\ ~IsWrite(req.op)
        /\ pc = "out" /\ step = "IDLE"
    BY <1>2, <1>4 DEF Begin, BeginInit, BeginIo, DriverInv, StepMatchesOp, IsWrite
  <2>2. drive.phase \in {"ready", "absent"} /\ \A l \in DiskLbas : disk[l] = FromDisk(l)
    BY <2>1 DEF DriveFollowsRead
  <2> QED BY <2>1, <2>2
<1>5. CASE irq14_ata
  BY <1>1, <1>5 DEF irq14_ata, AfterStatusRead, Drive
<1>6. CASE DriveStep
  <2>1. req' = req /\ ptr' = ptr /\ drive.phase # "flush"
    BY <1>6 DEF DriveStep, ctx
  <2>2. drive.phase = "busy" /\ disk' = disk
        /\ drive'.phase \in {"drq", "ready"} /\ drive'.target = drive.target
    BY <1>1, <1>6, <2>1 DEF DriveStep, DriveOffers, DriveFails, DriveStores, CanOfferData, CanFail,
       CanStore, AfterOffer, AfterFail, Drive
  <2> QED BY <1>6, <2>1, <2>2 DEF DriveStep, ctx, DriverInv, PcMatchesStep
<1>7. CASE tick_ata
  <2> USE <1>1, <1>2 DEF Handler, DriverInv, StepMatchesOp, PcMatchesStep, CountersAgree,
                         InitOps, IoOps, InitSteps, IoSteps
  <2>1. CASE ata_delay_400ns_tick
    BY <2>1 DEF ata_delay_400ns_tick
  <2>2. CASE ata_init_select_handle \/ ata_init_identify_cmd_handle \/ ata_init_identify_wait_handle
             \/ ata_init_identify_xfer_handle
    BY <2>2 DEF ata_init_select_handle, ata_init_identify_cmd_handle, ata_init_identify_wait_handle,
                ata_init_identify_xfer_handle
  <2>3. CASE ata_command_issued
    BY <2>3 DEF ata_command_issued
  <2>4. ASSUME NEW s, TakeIrq(s) PROVE FirstIsAimed'
    BY <2>4 DEF TakeIrq
  <2>5. CASE ata_io_issue_select_handle
    BY <2>5 DEF ata_io_issue_select_handle, AfterDriveSel, Drive
  <2>6. CASE ata_io_issue_taskfile_handle
    BY <2>6 DEF ata_io_issue_taskfile_handle, AfterLba, Drive, ata_finish
  <2>7. CASE ata_io_command
    BY <2>7 DEF ata_io_command, AfterCommand, ctx, Drive, TargetOf, ContextType
  <2>8. CASE ata_io_wait_irq_handle
    BY <2>8 DEF ata_io_wait_irq_handle, FollowIoVerdict, IoVerdict, EndSteps, ContextType
  <2>9. CASE ata_io_xfer_block_handle
    BY <2>9 DEF ata_io_xfer_block_handle, ContextType
  <2> QED BY <1>7, <2>1, <2>2, <2>3, <2>4, <2>5, <2>6, <2>7, <2>8, <2>9 DEF tick_ata
<1> QED BY <1>3, <1>4, <1>5, <1>6, <1>7 DEF Next

\* A drive that stores something has just been handed it, or was storing it before.
LEMMA FlushGoesOn ==
  ASSUME drive \in Drive, [Next]_vars, drive'.phase = "flush", ~ata_io_xfer_block_handle
  PROVE  drive.phase = "flush" /\ drive'.buf = drive.buf /\ drive'.target = drive.target
<1>1. CASE UNCHANGED vars \/ Begin
  BY <1>1 DEF vars, Begin, BeginInit, BeginIo
<1>2. CASE irq14_ata
  BY <1>2 DEF irq14_ata, AfterStatusRead, Drive
<1>3. CASE DriveStep
  BY <1>3 DEF DriveStep, DriveOffers, DriveFails, DriveStores, AfterOffer, AfterFail, AfterStore, Drive
<1>4. CASE tick_ata
  <2>1. CASE ata_init_select_handle
    BY <2>1 DEF ata_init_select_handle, AfterControl, AfterDriveSel, Drive
  <2>2. CASE ata_init_identify_cmd_handle
    BY <2>2 DEF ata_init_identify_cmd_handle, AfterLba, AfterCommand, Drive
  <2>3. CASE ata_init_identify_xfer_handle
    BY <2>3 DEF ata_init_identify_xfer_handle, AfterDrain, Drive
  <2>4. CASE ata_io_issue_select_handle
    BY <2>4 DEF ata_io_issue_select_handle, AfterDriveSel, Drive
  <2>5. CASE ata_io_issue_taskfile_handle
    BY <2>5 DEF ata_io_issue_taskfile_handle, AfterLba, Drive
  <2>6. CASE ata_io_command
    BY <2>6 DEF ata_io_command, AfterCommand, Drive
  <2>7. CASE ata_delay_400ns_tick \/ ata_command_issued \/ ata_init_identify_wait_handle
             \/ ata_io_wait_irq_handle
    BY <2>7 DEF ata_delay_400ns_tick, ata_command_issued, ata_init_identify_wait_handle,
                ata_io_wait_irq_handle
  <2>8. ASSUME NEW s, TakeIrq(s)
        PROVE  drive.phase = "flush" /\ drive'.buf = drive.buf /\ drive'.target = drive.target
    BY <2>8 DEF TakeIrq
  <2> QED BY <1>4, <2>1, <2>2, <2>3, <2>4, <2>5, <2>6, <2>7, <2>8 DEF tick_ata
<1> QED BY <1>1, <1>2, <1>3, <1>4 DEF Next

\* A sector handed over is the next one of the buffer, and the first one lies where
\* the request says.
LEMMA FlushStep ==
  ASSUME DriverInv, DeviceType, DrqHolds, DriveFollowsRead, BufferUntouched, FirstIsAimed,
         FlushesBuffer, [Next]_vars
  PROVE  FlushesBuffer'
<1>1. drive \in Drive
  BY DEF DeviceType
<1> SUFFICES ASSUME IsWrite(req'.op), drive'.phase = "flush"
             PROVE  \E i \in 0 .. ptr' - 1 :
                      /\ drive'.buf = FromMem(i)
                      /\ i = 0 /\ Addressable(req'.op, req'.lba) => drive'.target = req'.lba
  BY DEF FlushesBuffer
<1>2. CASE ~ata_io_xfer_block_handle
  <2>1. drive.phase = "flush" /\ drive'.buf = drive.buf /\ drive'.target = drive.target
    BY <1>1, <1>2, FlushGoesOn
  <2>2. ~Begin
    BY <2>1 DEF Begin, BeginInit, BeginIo, DrqHolds, DriverInv, StepMatchesOp
  <2>3. req' = req /\ ptr' = ptr
    BY <1>2, <2>2, ProgressChanges
  <2> QED BY <2>1, <2>3 DEF FlushesBuffer
<1>3. CASE ata_io_xfer_block_handle
  <2>1. /\ req' = req /\ op = req.op /\ ~IsRead(op) /\ step = "IO_XFER_BLOCK" /\ pc = "out"
        /\ batch_left \in 0 .. 1 /\ ptr \in Nat /\ req.lba \in Nat
    BY <1>3 DEF ata_io_xfer_block_handle, Handler, DriverInv, StepMatchesOp, ContextType, RequestType,
                IoOps, IoSteps, IsRead, IsWrite
  <2>2. CASE batch_left = 0
    <3>1. drive' = drive /\ ptr' = ptr
      BY <1>3, <2>1, <2>2 DEF ata_io_xfer_block_handle
    <3> QED BY <2>1, <3>1 DEF FlushesBuffer
  <2>3. CASE batch_left = 1
    <3>1. /\ drive' = AfterFill(drive, mem[ptr]) /\ ptr' = ptr + 1
          /\ drive.phase = "drq" /\ drive.cmd = "write"
      BY <1>3, <2>1, <2>3 DEF ata_io_xfer_block_handle, DrqHolds, TransferUnderDrq
    <3>2. ptr \in 0 .. BufferSectors - 1 /\ lba = req.lba + ptr
      BY <2>1, <2>3, AtaIrqAssumption DEF DriverInv, ContextType, RequestType, CountersAgree
    <3>3. drive'.buf = FromMem(ptr) /\ drive'.target = drive.target
      BY <1>1, <2>1, <3>1, <3>2 DEF AfterFill, Drive, BufferUntouched
    <3>4. ptr = 0 /\ Addressable(req.op, req.lba) => drive.target = req.lba
      <4> SUFFICES ASSUME ptr = 0, Addressable(req.op, req.lba) PROVE drive.target = req.lba
        OBVIOUS
      <4>1. drive.target = TargetOf(req.op, lba)
        BY <2>1, <2>3, <3>1 DEF FirstIsAimed, Waiting
      <4> QED BY <2>1, <3>2, <4>1, RegistersNameTheSector
    <3> QED BY <2>1, <3>1, <3>3, <3>4
  <2> QED BY <2>1, <2>2, <2>3
<1> QED BY <1>2, <1>3

\* The medium changes when the drive stores.
LEMMA OnlyStoresChangeDisk ==
  ASSUME [Next]_vars, disk' # disk
  PROVE  /\ drive.phase = "flush" /\ disk' = [disk EXCEPT ![drive.target] = drive.buf]
         /\ req' = req /\ ptr' = ptr
BY DEF Next, vars, ctx, Begin, BeginInit, BeginIo, irq14_ata, DriveStep, DriveOffers, DriveFails,
       DriveStores, CanStore, DiskAfterStore, tick_ata,
       ata_delay_400ns_tick, ata_init_select_handle, ata_init_identify_cmd_handle,
       ata_command_issued, TakeIrq, ata_init_identify_wait_handle, ata_init_identify_xfer_handle,
       ata_io_issue_select_handle, ata_io_issue_taskfile_handle, ata_io_command,
       ata_io_wait_irq_handle, ata_io_xfer_block_handle

LEMMA StoreStep ==
  ASSUME DriverInv, DeviceType, DriveFollowsRead, FlushesBuffer, WriteStoresItsBuffer, [Next]_vars
  PROVE  WriteStoresItsBuffer'
<1> SUFFICES ASSUME req'.op \in IoOps, ~IsRead(req'.op), NEW l \in DiskLbas, disk'[l] # FromDisk(l)
             PROVE  \E i \in 0 .. ptr' - 1 :
                      /\ disk'[l] = FromMem(i)
                      /\ i = 0 /\ Addressable(req'.op, req'.lba) => l = req'.lba
  BY DEF WriteStoresItsBuffer
<1>1. CASE disk' # disk
  <2>1. /\ drive.phase = "flush" /\ disk' = [disk EXCEPT ![drive.target] = drive.buf]
        /\ req' = req /\ ptr' = ptr
    BY <1>1, OnlyStoresChangeDisk
  <2>2. IsWrite(req.op)
    BY <2>1 DEF IoOps, IsRead, IsWrite
  <2>3. CASE l = drive.target
    <3>1. disk'[l] = drive.buf
      BY <2>1, <2>3 DEF DeviceType
    <3> QED BY <2>1, <2>2, <2>3, <3>1 DEF FlushesBuffer
  <2>4. CASE l # drive.target
    <3>1. disk'[l] = disk[l]
      BY <2>1, <2>4 DEF DeviceType
    <3> QED BY <2>1, <3>1 DEF WriteStoresItsBuffer
  <2> QED BY <2>3, <2>4
<1>2. CASE disk' = disk
  <2>1. ~Begin
    BY <1>2 DEF Begin, BeginInit, BeginIo, DriverInv, StepMatchesOp, DriveFollowsRead, IsWrite
  <2>2. req' = req
    BY <2>1, ProgressChanges
  <2>3. ptr \in Nat /\ ptr' \in {ptr, ptr + 1}
    <3>1. ptr \in Nat /\ batch_left \in 0 .. 1
      BY DEF DriverInv, ContextType
    <3>2. ata_io_xfer_block_handle => ptr' \in {ptr, ptr + 1}
      BY <3>1 DEF ata_io_xfer_block_handle
    <3> QED BY <2>1, <3>1, <3>2, ProgressChanges
  <2>4. PICK i \in 0 .. ptr - 1 :
          disk[l] = FromMem(i) /\ (i = 0 /\ Addressable(req.op, req.lba) => l = req.lba)
    BY <1>2, <2>2 DEF WriteStoresItsBuffer
  <2>5. i \in 0 .. ptr' - 1
    <3>1. CASE ptr' = ptr
      BY <3>1
    <3>2. CASE ptr' = ptr + 1
      BY <2>3, <3>2
    <3> QED BY <2>3, <3>1, <3>2
  <2> QED BY <1>2, <2>2, <2>4, <2>5
<1> QED BY <1>1, <1>2

\* IInv is inductive, and so holds in every reachable state.
THEOREM Invariance == Spec => []IInv
<1>1. IInv /\ [Next]_vars => IInv'
  BY DriverStep, FlagsStep, DeviceStep, DrqStep, FollowStep, AimStep, ContentsStep, IdentifyStep,
     AnswerStep, FirstStep, FlushStep, StoreStep
  DEF IInv, TypeOK, DriverInv
<1> QED BY InitSatisfies, <1>1, PTL DEF Spec

\* A read moves the sectors asked for to the addresses asked for, in order,
\* and reports IO_DONE only when all of them are there.
THEOREM ReadsDeliver == Spec => []ReadDelivers
BY Invariance, PTL DEF IInv

\* A read writes its registers and command into a drive that takes them.
THEOREM ReadCommandsAreTaken == Spec => []ReadCommandIsTaken
<1>1. IInv => ReadCommandIsTaken
  BY DEF IInv, TypeOK, ContextType, StepMatchesOp, PcMatchesStep, DriveFollowsRead, Waiting,
         ReadCommandIsTaken, IsRead, IsWrite
<1> QED BY <1>1, Invariance, PTL

\* A read leaves behind a drive at rest and no interrupt to be mistaken.
THEOREM ReadsEndQuietly == Spec => []QuietAfterRead
<1>1. IInv => QuietAfterRead
  BY DEF IInv, TypeOK, ContextType, StepMatchesOp, PcMatchesStep, DriveFollowsRead, Waiting,
         QuietAfterRead, IsRead, IsWrite, EndSteps, InitOps, InitSteps, IoOps, IoSteps
<1> QED BY <1>1, Invariance, PTL

\* A write stores only sectors of its buffer that were handed over, the first one
\* where the request says.
THEOREM WritesStoreTheirBuffer == Spec => []WriteStoresItsBuffer
BY Invariance, PTL DEF IInv

\* INIT_DONE means that the identify buffer was read from the drive.
THEOREM InitIsHonest == Spec => []InitIdentifies
BY Invariance, PTL DEF IInv
\* A read or an initialisation loses the interrupt it waits for nowhere but in the
\* window between the COMMAND write and the ata_irq_flags_reset() after it.
THEOREM OnlyTheWindowLoses == Spec => LostOnlyWhileIssuing
<1>1. ASSUME IInv, [Next]_vars, req.op \in InitOps \/ IsRead(req.op), ~InterruptLost, InterruptLost'
      PROVE  pc = "cmd" /\ irq_fired
  <2>0. /\ DriverInv /\ DrqHolds /\ DriveFollowsRead /\ CommandIsAnswered
        /\ drive \in Drive /\ drive.phase \in Phases /\ ~IsWrite(req.op) /\ req.op # "NONE"
    BY <1>1 DEF IInv, TypeOK, DeviceType, Drive, DriverInv, IsRead, IsWrite, InitOps
  <2>1. /\ "DRQ" \in DriveStatus(drive) <=> drive.phase = "drq"
        /\ ata_status_is_bad(DriveStatus(drive)) <=>
             drive.phase = "absent" \/ (drive.phase \in {"ready", "drq"} /\ drive.err)
    BY <2>0, StatusTells, BadStatus
  <2> USE <1>1 DEF InterruptLost
  <2>2. CASE UNCHANGED vars
    BY <2>2 DEF vars, ctx
  <2>3. ~Begin
    BY <2>0 DEF Begin, BeginInit, BeginIo
  <2>4. ~irq14_ata
    BY DEF irq14_ata
  <2>5. ~DriveStep
    <3> SUFFICES ASSUME DriveStep PROVE FALSE
      OBVIOUS
    <3>1. drive.phase = "busy" /\ drive.cmd # "write"
      BY <2>0 DEF DriveStep, DriveOffers, DriveFails, DriveStores, CanOfferData, CanFail,
         CanStore, DrqHolds, KindOf, DriverInv, RequestType, IsRead, IsWrite, InitOps, IoOps
    <3>2. drive'.intrq = TRUE
      BY <2>0, <3>1 DEF DriveStep, DriveOffers, DriveFails, DriveStores, CanStore, AfterOffer,
         AfterFail, Drive
    <3> QED BY <3>2
  <2>6. CASE ata_command_issued
    BY <2>0, <2>6 DEF ata_command_issued, CommandIsAnswered
  <2>7. CASE ata_init_identify_wait_handle
    BY <2>0, <2>1, <2>7 DEF ata_init_identify_wait_handle, InitVerdict, CommandIsAnswered, Waiting
  <2>8. CASE ata_io_wait_irq_handle
    BY <2>0, <2>1, <2>8 DEF ata_io_wait_irq_handle, FollowIoVerdict, IoVerdict, CommandIsAnswered,
       Waiting, DriverInv, ContextType, Handler
  <2>9. CASE ata_io_xfer_block_handle
    BY <2>0, <2>9 DEF ata_io_xfer_block_handle, DriverInv, ContextType
  <2>10. ~ata_delay_400ns_tick
    BY DEF ata_delay_400ns_tick
  <2>11. ASSUME NEW s PROVE ~TakeIrq(s)
    BY DEF TakeIrq
  <2>12. ~(ata_init_select_handle \/ ata_init_identify_cmd_handle \/ ata_init_identify_xfer_handle)
    BY DEF ata_init_select_handle, ata_init_identify_cmd_handle, ata_init_identify_xfer_handle, ata_finish
  <2>13. ~(ata_io_issue_select_handle \/ ata_io_issue_taskfile_handle \/ ata_io_command)
    BY DEF ata_io_issue_select_handle, ata_io_issue_taskfile_handle, ata_io_command, ata_finish, Handler
  <2> QED BY <2>2, <2>3, <2>4, <2>5, <2>6, <2>7, <2>8, <2>9, <2>10, <2>11, <2>12, <2>13
      DEF Next, tick_ata
<1> QED BY <1>1, Invariance, PTL DEF Spec, LostOnlyWhileIssuing
-----------------------------------------------------------------------------
(* The driver implements Transfer.                                         *)
LEMMA InitMaps == Init => Abstract!Init
BY DEF Init, Abstract!Init, TransferPhase

\* What a step of the driver does to the phase when no request begins.
LEMMA PhaseMoves ==
  ASSUME DriverInv, DriverInv', [Next]_vars, ~Begin
  PROVE  \/ TransferPhase' = TransferPhase
         \/ /\ TransferPhase = "active" /\ ~ata_io_xfer_block_handle
            /\ \/ TransferPhase' = "failed"
               \/ TransferPhase' = "done" /\ ptr = req.count
<1> USE DEF TransferPhase
<1>1. CASE step' = step
  BY <1>1
<1>2. CASE step' # step
  <2>1. (step \in InitSteps \cup IoSteps /\ ptr' = ptr) \/ ata_io_xfer_block_handle
    BY <1>2 DEF Next, vars, ctx, irq14_ata, DriveStep, tick_ata, ata_delay_400ns_tick,
       ata_init_select_handle, ata_init_identify_cmd_handle, ata_command_issued, TakeIrq,
       ata_init_identify_wait_handle, ata_init_identify_xfer_handle, ata_io_issue_select_handle,
       ata_io_issue_taskfile_handle, ata_io_command, ata_io_wait_irq_handle, Handler,
       InitSteps, IoSteps, DriverInv, PcMatchesStep
  <2>2. CASE ata_io_xfer_block_handle
    BY <2>2 DEF ata_io_xfer_block_handle, Handler
  <2>3. CASE ~ata_io_xfer_block_handle
    <3>1. TransferPhase = "active"
      BY <2>1, <2>3 DEF InitSteps, IoSteps
    <3>2. req' = req /\ ptr' = ptr
      BY <2>3, ProgressChanges
    <3>3. step' # "IDLE"
      BY <2>1, <2>3, <3>2 DEF DriverInv, StepMatchesOp, InitSteps, IoSteps
    <3>4. step' \in {"INIT_DONE", "IO_DONE"} => ptr' = req'.count
      BY DEF DriverInv, ContextType, RequestType, StepMatchesOp, CountersAgree, InitOps, IoOps
    <3> QED BY <2>3, <3>1, <3>2, <3>3, <3>4
  <2> QED BY <2>2, <2>3
<1> QED BY <1>1, <1>2

\* Every step of the driver is a step of a Transfer, or hidden in it.
LEMMA StepMaps ==
  ASSUME IInv, IInv', [Next]_vars
  PROVE  [Abstract!Next]_(Abstract!vars)
<1>0. DriverInv /\ DriverInv' /\ DeviceType
  BY DEF IInv, TypeOK, DriverInv
<1> USE DEF Abstract!Next, Abstract!vars
<1>1. CASE Begin
  <2>1. TransferPhase = "idle" /\ TransferPhase' = "active" /\ mem' = mem /\ req'.op \in InitOps \cup IoOps
    BY <1>1 DEF Begin, BeginInit, BeginIo, TransferPhase
  <2>2. ptr' = 0
    BY <1>0, <1>1 DEF Begin, BeginInit, BeginIo, DriverInv, ContextType, StepMatchesOp, CountersAgree, NoRequest
  <2>3. req' \in [op : InitOps \cup IoOps, lba : Nat, count : 0 .. BufferSectors]
    BY <1>0, <2>1 DEF DriverInv, RequestType
  <2> QED BY <2>1, <2>2, <2>3 DEF Abstract!Accept
<1>2. CASE ~Begin /\ ~ata_io_xfer_block_handle
  <2>1. req' = req /\ ptr' = ptr /\ mem' = mem
    BY <1>2, ProgressChanges, BufferChanges
  <2> QED BY <1>0, <1>2, <2>1, PhaseMoves DEF Abstract!Complete, Abstract!Fail
<1>3. CASE ~Begin /\ ata_io_xfer_block_handle
  <2>1. req' = req /\ TransferPhase' = "active" /\ TransferPhase = "active"
    BY <1>3, ProgressChanges DEF ata_io_xfer_block_handle, Handler, TransferPhase
  <2>2. CASE batch_left = 0
    BY <1>0, <1>3, <2>1, <2>2 DEF ata_io_xfer_block_handle, DriverInv, ContextType
  <2>3. CASE batch_left = 1
    <3>1. /\ ptr \in 0 .. BufferSectors - 1 /\ ptr' = ptr + 1 /\ ptr < req.count
          /\ lba = req.lba + ptr
      BY <1>0, <1>3, <2>3, AtaIrqAssumption
      DEF ata_io_xfer_block_handle, DriverInv, ContextType, RequestType, CountersAgree
    <3>2. mem' = [mem EXCEPT ![ptr] = mem'[ptr]] /\ AllowedContent(req, ptr, mem'[ptr])
      <4>1. CASE IsRead(req.op)
        BY <1>0, <1>3, <4>1, SectorArrives DEF IInv, AllowedContent
      <4>2. CASE ~IsRead(req.op)
        <5>1. mem' = mem /\ mem[ptr] = FromMem(ptr)
          BY <1>0, <1>3, <3>1, <4>2, BufferChanges
          DEF IInv, BufferUntouched, DriverInv, StepMatchesOp, ata_io_xfer_block_handle, Handler, IoOps, IoSteps
        <5> QED BY <4>2, <5>1, <3>1, <1>0 DEF AllowedContent, DeviceType
      <4> QED BY <4>1, <4>2
    <3> QED BY <2>1, <3>1, <3>2 DEF Abstract!Move
  <2> QED BY <1>0, <2>2, <2>3 DEF DriverInv, ContextType
<1> QED BY <1>1, <1>2, <1>3

\* The driver keeps the contract of a block request: accepted once, moved in
\* order, done only when all was moved.
THEOREM DriverImplementsTransfer == Spec => ImplementsTransfer
BY InitMaps, StepMaps, Invariance, PTL DEF Spec, ImplementsTransfer, Abstract!Spec

-----------------------------------------------------------------------------
\* Behind the set-up of the interrupt controllers the driver does what it does
\* alone: every step of the whole is a step of the driver or leaves it alone, so
\* that what is proved above holds there as well (setup_ata_irq, ata_driver_irq.c).
THEOREM SetupRunsDriver == SetupSpec => Spec
<1>1. SetupInit => Init
  BY DEF SetupInit
<1>2. [SetupNext]_setupVars => [Next]_vars
  BY Zenon DEF SetupNext, SetUp, Request, Tick, Interrupt, Device, Next, setupVars
<1> QED BY <1>1, <1>2, PTL DEF SetupSpec, Spec
=============================================================================
