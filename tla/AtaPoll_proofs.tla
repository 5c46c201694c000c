-------------------------- MODULE AtaPoll_proofs --------------------------
(* Proofs about the polling ATA driver of the kernel loader. *)
EXTENDS AtaPoll, AtaDrive_proofs

-----------------------------------------------------------------------------
(* The inductive invariant: what pc and the locals say of each other, and, *)
(* as long as no transfer has timed out, of the drive.                     *)
IsWrite(o) == o \in {"WRITE_28", "WRITE_48"}
KindOf(o)  == IF IsRead(o) THEN "read" ELSE "write"

InitPcs     == {"init_wait", "init_cmd", "init_idle", "init_check"}
TransferPcs == {"idle", "issue", "drq", "xfer"}

LocalsAgree ==
  /\ pc \in InitPcs => call = NoCall
  /\ pc \in TransferPcs => call.op \in Ops
  /\ ptr + sector_count = call.count
  /\ lba = call.lba + ptr
  /\ pc \in {"issue", "drq", "xfer"} => sector_count # 0
  /\ pc = "out" /\ result = 1 => sector_count = 0

\* The sector that the registers of ata_lba28_set and ata_lba48_set name.
TargetOf(o, l) ==
  IF Is28(o) THEN ((l \div LowSpan) % Heads) * LowSpan + (l % LowSpan) ELSE l % Span48

\* Only SET MULTIPLE can outlive the call that issued it: data is asked for, or
\* stored, for the transfer in progress and for its current sector.
DriveFollowsCall ==
  ~late =>
    /\ drive.phase = "busy" => drive.cmd = IF pc = "drq" THEN KindOf(call.op) ELSE "setmult"
    /\ drive.phase = "drq" => /\ pc \in {"drq", "xfer"} /\ drive.cmd = KindOf(call.op)
                             /\ drive.target \in DiskLbas
    /\ drive.phase = "flush" =>
         /\ pc = "idle" /\ IsWrite(call.op) /\ ptr > 0
         /\ drive.target = TargetOf(call.op, lba - 1) /\ drive.buf = mem[ptr - 1]
    /\ pc \in {"init_check", "issue"} \/ (pc = "out" /\ result = 1) =>
         drive.phase = "ready" /\ ~drive.err
    /\ pc = "drq" => drive.phase \in {"busy", "drq"} \/ (drive.phase = "ready" /\ drive.err)
    /\ pc = "xfer" => drive.phase = "drq"
    /\ pc \in {"drq", "xfer"} /\ drive.phase # "ready" =>
         drive.target = TargetOf(call.op, lba) /\ ~drive.err

\* The sectors a write has handed over are on the medium, the last one unless it
\* is being stored or something has failed.
HandedOverIsStored ==
  IsWrite(call.op) /\ ~late =>
    \A i \in 0 .. ptr - 1 :
      Addressable(call.op, call.lba + i) =>
        /\ call.lba + i \in DiskLbas
        /\ \/ disk[call.lba + i] = mem[i]
           \/ i = ptr - 1 /\ (drive.phase = "flush" \/ drive.err)

IInv ==
  /\ TypeOK /\ LocalsAgree /\ DriveFollowsCall /\ HandedOverIsStored
  /\ ReadDelivers

-----------------------------------------------------------------------------
\* What a status read decides in the two waits.
LEMMA WaitsDecide ==
  ASSUME NEW d \in Drive
  PROVE  /\ WaitIdle(DriveStatus(d)) \in {"fail", "again", "ok"}
         /\ WaitIdle(DriveStatus(d)) = "ok" => d.phase \in {"ready", "drq"} /\ ~d.err
         /\ WaitDrq(DriveStatus(d)) \in {"fail", "again", "ok"}
         /\ WaitDrq(DriveStatus(d)) = "ok" => d.phase = "drq"
         /\ WaitDrq(DriveStatus(d)) = "fail" =>
              d.phase = "absent" \/ (d.phase \in {"ready", "drq"} /\ d.err)
<1>1. WaitIdle(DriveStatus(d)) \in {"fail", "again", "ok"} /\ WaitDrq(DriveStatus(d)) \in {"fail", "again", "ok"}
  BY DEF WaitIdle, WaitDrq
<1>2. WaitIdle(DriveStatus(d)) = "ok" => d.phase \in {"ready", "drq"} /\ ~d.err
  BY StatusTells DEF WaitIdle
<1>3. WaitDrq(DriveStatus(d)) = "ok" => d.phase = "drq"
  BY StatusTells DEF WaitDrq
<1>4. WaitDrq(DriveStatus(d)) = "fail" =>
        d.phase = "absent" \/ (d.phase \in {"ready", "drq"} /\ d.err)
  BY StatusTells DEF WaitDrq
<1> QED BY <1>1, <1>2, <1>3, <1>4

\* The sector that the registers name, and its equals.
LEMMA TargetIsNat ==
  ASSUME NEW o, NEW l \in Nat
  PROVE  TargetOf(o, l) \in Nat
BY ChsIsNat, DriveAssumption DEF TargetOf

LEMMA TargetOfAddressable ==
  ASSUME NEW o, NEW l \in Nat, Addressable(o, l)
  PROVE  TargetOf(o, l) = l
<1>1. CASE Is28(o)
  BY <1>1, Names28 DEF TargetOf, Addressable
<1>2. CASE ~Is28(o)
  BY <1>2, Names48 DEF TargetOf, Addressable
<1> QED BY <1>1, <1>2

\* Two sectors of one request never share a register value: a buffer is smaller
\* than what the registers name.
LEMMA TargetsDiffer ==
  ASSUME NEW o, NEW l \in Nat, NEW j \in Nat, j < l, l - j < BufferSectors
  PROVE  TargetOf(o, l) # j
<1> DEFINE t == TargetOf(o, l)
           m == IF Is28(o) THEN LowSpan * Heads ELSE Span48
<1>1. m \in Nat \ {0} /\ BufferSectors <= m
  BY DriveAssumption, AtaPollAssumption
<1>2. t \in Nat
  BY TargetIsNat
<1>3. PICK k \in Nat : l = t + m * k
  BY Split28, Split48 DEF TargetOf
<1>4. SUFFICES ASSUME t = j PROVE FALSE
  OBVIOUS
<1>5. l >= t + m
  <2> HIDE DEF t, m
  <2> QED BY <1>1, <1>2, <1>3, <1>4, Apart
<1> QED
  <2> HIDE DEF t, m
  <2> QED BY <1>1, <1>2, <1>4, <1>5, AtaPollAssumption

-----------------------------------------------------------------------------
\* Before the first call the invariant holds, whatever the buffer holds.
LEMMA InitSatisfies ==
  ASSUME DriverInit, mem \in [0 .. BufferSectors - 1 -> Content]
  PROVE  IInv
<1> USE DEF DriverInit, NoCall
<1>1. drive \in Drive /\ drive.phase \in {"absent", "starting", "ready"} /\ drive.err = FALSE
  BY AtaPollAssumption DEF DriveAtReset, Drive, Phases, Commands, Content, Garbage
<1>2. disk \in [DiskLbas -> Content]
  BY DriveAssumption DEF DiskLbas, FromDisk, Content
<1>3. TypeOK
  <2>1. call \in [op : Ops \cup {"INIT"}, lba : Nat, count : 0 .. BufferSectors]
    BY AtaPollAssumption
  <2>2. /\ pc \in Pcs /\ lba \in Nat /\ sector_count \in Nat /\ ptr \in 0 .. BufferSectors
        /\ timeout \in Nat /\ result \in 0 .. 1 /\ calls \in 0 .. MaxCalls
    BY AtaPollAssumption DEF Pcs
  <2>3. late \in BOOLEAN
    OBVIOUS
  <2> QED BY <1>1, <1>2, <2>1, <2>2, <2>3 DEF TypeOK
<1>4. LocalsAgree
  BY DEF LocalsAgree, InitPcs, TransferPcs
<1>5. DriveFollowsCall
  <2>1. pc = "out" /\ result # 1
    OBVIOUS
  <2>2. drive.phase # "busy" /\ drive.phase # "drq" /\ drive.phase # "flush"
    BY <1>1
  <2> HIDE DEF DriverInit
  <2> QED BY <2>1, <2>2 DEF DriveFollowsCall
<1>6. HandedOverIsStored /\ ReadDelivers
  BY DEF HandedOverIsStored, ReadDelivers, IsRead, IsWrite
<1> QED BY <1>3, <1>4, <1>5, <1>6 DEF IInv

LEMMA InitInv == Init => IInv
<1>1. Init => mem \in [0 .. BufferSectors - 1 -> Content]
  BY AtaPollAssumption DEF Init, FromMem, Content
<1> QED BY <1>1, InitSatisfies DEF Init

-----------------------------------------------------------------------------
\* The driver's side of the invariant: its variables and what they say of each
\* other.
LocalsType ==
  /\ pc \in Pcs
  /\ call \in [op : Ops \cup {"INIT"}, lba : Nat, count : 0 .. BufferSectors]
  /\ lba \in Nat /\ sector_count \in Nat /\ ptr \in 0 .. BufferSectors
  /\ timeout \in Nat
  /\ result \in 0 .. 1 /\ late \in BOOLEAN /\ calls \in 0 .. MaxCalls
DeviceType ==
  /\ drive \in Drive /\ disk \in [DiskLbas -> Content]
  /\ mem \in [0 .. BufferSectors - 1 -> Content]

\* A step of the driver or the drive, or the beginning of any call its caller's
\* buffer has room for.
AnyNext ==
  \/ ata_init \/ \E o \in Ops, l \in Nat, n \in 0 .. BufferSectors : BeginTransfer(o, l, n)
  \/ Driver \/ DriveStep

LEMMA NextIsAnyNext == [Next]_vars => [AnyNext]_vars
BY AtaPollAssumption DEF Next, Call, AnyNext

LEMMA LocalsStep ==
  ASSUME LocalsType, LocalsAgree, DeviceType, [AnyNext]_vars
  PROVE  LocalsType' /\ LocalsAgree'
<1> USE AtaPollAssumption
    DEF LocalsType, LocalsAgree, Pcs, InitPcs, TransferPcs, Return, GoTo, CountCall, callVars
<1>1. CASE UNCHANGED vars
  BY <1>1 DEF vars
<1>2. CASE DriveStep
  BY <1>2 DEF DriveStep
<1>3. CASE ata_init
  <2>1. call' = NoCall /\ NoCall \in [op : Ops \cup {"INIT"}, lba : Nat, count : 0 .. BufferSectors]
    BY <1>3 DEF ata_init, NoCall
  <2>2. LocalsType'
    BY <1>3, <2>1 DEF ata_init
  <2> QED BY <1>3, <2>1, <2>2 DEF ata_init, NoCall
<1>4. ASSUME NEW o \in Ops, NEW l \in Nat, NEW n \in 0 .. BufferSectors, BeginTransfer(o, l, n)
      PROVE  LocalsType' /\ LocalsAgree'
  <2>1. /\ call' = [op |-> o, lba |-> l, count |-> n]
        /\ call' \in [op : Ops \cup {"INIT"}, lba : Nat, count : 0 .. BufferSectors]
    BY <1>4 DEF BeginTransfer
  <2>2. LocalsType'
    BY <1>4, <2>1 DEF BeginTransfer
  <2> QED BY <1>4, <2>1, <2>2 DEF BeginTransfer
<1>5. CASE ata_init_wait
  BY <1>5 DEF ata_init_wait, StatusRead
<1>6. CASE ata_init_cmd
  BY <1>6 DEF ata_init_cmd
<1>7. CASE ata_init_check
  BY <1>7 DEF ata_init_check, NoCall
<1>8. CASE ata_wait_idle
  <2>1. UNCHANGED <<callVars, calls>> /\ late' \in BOOLEAN
    BY <1>8 DEF ata_wait_idle, TimeoutOver
  <2>2. /\ timeout' \in Nat
        /\ \/ pc' = "out" /\ result' = 0
           \/ pc' = pc /\ result' = result
           \/ pc = "init_idle" /\ pc' = "init_check" /\ result' = result
           \/ pc = "idle" /\ sector_count # 0 /\ pc' = "issue" /\ result' = result
           \/ pc = "idle" /\ sector_count = 0 /\ pc' = "out" /\ result' = 1
    BY <1>8 DEF ata_wait_idle, TimeoutOver, StatusRead
  <2>3. pc \in {"idle", "init_idle"}
    BY <1>8 DEF ata_wait_idle
  <2> QED BY <2>1, <2>2, <2>3
<1>9. CASE Issue
  BY <1>9 DEF Issue
<1>10. CASE ata_wait_drq
  <2>1. UNCHANGED <<callVars, calls>> /\ late' \in BOOLEAN /\ pc = "drq"
    BY <1>10 DEF ata_wait_drq, TimeoutOver
  <2>2. /\ timeout' \in Nat
        /\ \/ pc' = "out" /\ result' = 0
           \/ pc' \in {"drq", "xfer"} /\ result' = result
    BY <1>10 DEF ata_wait_drq, TimeoutOver, StatusRead
  <2> QED BY <2>1, <2>2
<1>11. CASE MoveSector
  BY <1>11 DEF MoveSector
<1> QED BY <1>1, <1>2, <1>3, <1>4, <1>5, <1>6, <1>7, <1>8, <1>9, <1>10, <1>11 DEF AnyNext, Driver

LEMMA DeviceStep ==
  ASSUME LocalsType, LocalsAgree, DeviceType, [AnyNext]_vars
  PROVE  DeviceType'
<1> USE DEF DeviceType
<1>1. CASE UNCHANGED vars
  BY <1>1 DEF vars
<1>2. CASE DriveStep
  <2>1. drive' \in Drive
    BY <1>2, DriveStays DEF DriveStep
  <2>2. disk' \in [DiskLbas -> Content]
    <3>1. drive.buf \in Content
      BY DEF Drive
    <3>2. DiskAfterStore(drive, disk) \in [DiskLbas -> Content]
      BY <3>1 DEF DiskAfterStore
    <3> QED BY <1>2, <3>2 DEF DriveStep
  <2> QED BY <1>2, <2>1, <2>2 DEF DriveStep
<1>3. CASE ata_init
  <2>1. AfterControl(drive, TRUE) \in Drive
    BY DriveStays
  <2>2. AfterDriveSel(AfterControl(drive, TRUE), 0) \in Drive
    BY <2>1, DriveStays
  <2> QED BY <1>3, <2>2 DEF ata_init
<1>4. ASSUME NEW o \in Ops, NEW l \in Nat, NEW n \in 0 .. BufferSectors, BeginTransfer(o, l, n)
      PROVE  DeviceType'
  BY <1>4 DEF BeginTransfer
<1>5. CASE ata_init_wait \/ ata_wait_idle \/ ata_wait_drq \/ ata_init_check
  <2>1. drive' \in {drive, AfterStatusRead(drive)} /\ disk' = disk /\ mem' = mem
    BY <1>5 DEF ata_init_wait, ata_wait_idle, ata_wait_drq, ata_init_check, StatusRead, TimeoutOver
  <2> QED BY <2>1, DriveStays
<1>6. CASE ata_init_cmd
  BY <1>6, CommandStays DEF ata_init_cmd, Commands
<1>7. CASE Issue
  <2>1. ata_lba28_set(drive) \in Drive /\ ata_lba48_set(drive) \in Drive
    BY DriveStays, ChsIsNat DEF ata_lba28_set, ata_lba48_set, LocalsType
  <2> QED BY <1>7, <2>1, CommandStays DEF Issue, Commands
<1>8. CASE MoveSector
  <2>1. ptr \in 0 .. BufferSectors - 1
    BY <1>8, AtaPollAssumption DEF MoveSector, LocalsType, LocalsAgree
  <2>2. CASE IsRead(call.op)
    <3>1. DataPort(drive, disk) \in Content
      BY DEF DataPort, Garbage, Content
    <3> QED BY <1>8, <2>2, <3>1, DriveStays DEF MoveSector
  <2>3. CASE ~IsRead(call.op)
    BY <1>8, <2>1, <2>3, DriveStays DEF MoveSector
  <2> QED BY <2>2, <2>3
<1> QED BY <1>1, <1>2, <1>3, <1>4, <1>5, <1>6, <1>7, <1>8 DEF AnyNext, Driver

\* Every variable of the driver and the drive stays in its set, whatever
\* sectors and counts the calls ask for and however long the drive takes.
THEOREM TypeCorrect == Spec => []TypeOK
<1> DEFINE Inv == LocalsType /\ LocalsAgree /\ DeviceType
<1>1. Init => Inv
  BY InitInv DEF IInv, TypeOK, LocalsType, DeviceType
<1>2. Inv /\ [Next]_vars => Inv'
  BY NextIsAnyNext, LocalsStep, DeviceStep
<1>3. Inv => TypeOK
  BY DEF TypeOK, LocalsType, DeviceType
<1> QED BY <1>1, <1>2, <1>3, PTL DEF Spec

-----------------------------------------------------------------------------
\* What the address and the command of a transfer do to a drive that takes them.
LEMMA IssueEffect ==
  ASSUME LocalsType, DeviceType, Issue, drive.phase = "ready"
  PROVE  /\ drive'.phase = "busy" /\ drive'.cmd = KindOf(call.op) /\ ~drive'.err
         /\ drive'.target = TargetOf(call.op, lba)
<1> DEFINE h == (lba \div LowSpan) % Heads
           l == lba % LowSpan
<1>1. drive \in Drive
  BY DEF DeviceType
<1>2. CASE Is28(call.op)
  <2>1. /\ ata_lba28_set(drive).phase = "ready"
        /\ ata_lba28_set(drive).head = h /\ ata_lba28_set(drive).low = l
    BY <1>1 DEF ata_lba28_set, AfterLba, AfterDriveSel, Drive
  <2>2. drive' = AfterCommand(ata_lba28_set(drive), KindOf(call.op), FALSE)
    BY <1>2 DEF Issue, KindOf
  <2>3. ata_lba28_set(drive) \in Drive
    BY <1>1, DriveStays, ChsIsNat DEF ata_lba28_set, LocalsType
  <2> HIDE DEF h, l
  <2>4. /\ drive'.phase = "busy" /\ drive'.cmd = KindOf(call.op) /\ ~drive'.err
        /\ drive'.target = h * LowSpan + l
    BY <2>1, <2>2, <2>3 DEF AfterCommand, Drive
  <2> QED BY <1>2, <2>4 DEF TargetOf, h, l
<1>3. CASE ~Is28(call.op)
  <2>1. /\ ata_lba48_set(drive).phase = "ready"
        /\ ata_lba48_set(drive).low = lba % Span48
    BY <1>1 DEF ata_lba48_set, AfterLba, AfterDriveSel, Drive
  <2>2. drive' = AfterCommand(ata_lba48_set(drive), KindOf(call.op), TRUE)
    BY <1>3 DEF Issue, KindOf
  <2>3. ata_lba48_set(drive) \in Drive
    BY <1>1, DriveStays, ChsIsNat DEF ata_lba48_set, LocalsType
  <2>4. /\ drive'.phase = "busy" /\ drive'.cmd = KindOf(call.op) /\ ~drive'.err
        /\ drive'.target = lba % Span48
    BY <2>1, <2>2, <2>3 DEF AfterCommand, Drive
  <2> QED BY <1>3, <2>4 DEF TargetOf
<1> QED BY <1>2, <1>3

LEMMA FollowStep ==
  ASSUME LocalsType, LocalsAgree, DeviceType, DriveFollowsCall, [AnyNext]_vars
  PROVE  DriveFollowsCall'
<1>1. drive \in Drive /\ drive.phase \in Phases /\ drive.err \in BOOLEAN
  BY DEF DeviceType, Drive
<1>2. late' = FALSE => late = FALSE
  BY DEF AnyNext, Driver, vars, ata_init, BeginTransfer, DriveStep, ata_init_wait, ata_init_cmd,
         ata_init_check, ata_wait_idle, TimeoutOver, Issue, ata_wait_drq, MoveSector, LocalsType
<1> SUFFICES ASSUME ~late, ~late' PROVE DriveFollowsCall'
  BY <1>2 DEF DriveFollowsCall, LocalsType
<1> USE DEF DriveFollowsCall, Return, GoTo, callVars, LocalsType, InitPcs, TransferPcs
<1>3. CASE UNCHANGED vars
  BY <1>3 DEF vars
<1>4. CASE DriveStep
  <2> USE DEF DriveStep
  <2>1. CASE CanOfferData(drive) /\ drive' = AfterOffer(drive) /\ UNCHANGED disk
    <3>1. /\ drive.phase = "busy" /\ drive.target \in DiskLbas /\ pc = "drq"
          /\ drive.cmd = KindOf(call.op)
      BY <2>1 DEF CanOfferData, KindOf
    <3>2. /\ drive'.phase = "drq" /\ drive'.cmd = drive.cmd /\ drive'.target = drive.target
          /\ drive'.err = drive.err
      BY <1>1, <2>1 DEF AfterOffer, Drive
    <3> QED BY <1>4, <3>1, <3>2
  <2>2. CASE CanFail(drive) /\ drive' = AfterFail(drive) /\ UNCHANGED disk
    <3>1. drive'.phase = "ready" /\ drive'.err = TRUE /\ drive.phase \in {"busy", "flush"}
      BY <1>1, <2>2 DEF AfterFail, CanFail, Drive
    <3> QED BY <1>4, <3>1
  <2>3. CASE CanSettle(drive) /\ drive' = AfterSettle(drive) /\ UNCHANGED disk
    <3>1. /\ drive'.phase = "ready" /\ drive.phase \in {"starting", "busy"}
          /\ drive.phase = "busy" => drive.cmd = "setmult"
      BY <1>1, <2>3 DEF AfterSettle, CanSettle, Drive
    <3>2. pc # "drq"
      BY <3>1 DEF KindOf
    <3> QED BY <1>4, <3>1, <3>2
  <2>4. CASE CanStore(drive) /\ drive' = AfterStore(drive)
    <3>1. drive'.phase = "ready" /\ drive.phase = "flush"
      BY <1>1, <2>4 DEF AfterStore, CanStore, Drive
    <3> QED BY <1>4, <3>1
  <2> QED BY <1>4, <2>1, <2>2, <2>3, <2>4
<1>5. CASE ata_init
  <2>1. drive'.phase = drive.phase /\ drive'.cmd = drive.cmd
    BY <1>1, <1>5 DEF ata_init, AfterControl, AfterDriveSel, Drive
  <2> QED BY <1>5, <2>1 DEF ata_init
<1>6. ASSUME NEW o \in Ops, NEW l \in Nat, NEW n \in 0 .. BufferSectors, BeginTransfer(o, l, n)
      PROVE  DriveFollowsCall'
  BY <1>6 DEF BeginTransfer
<1>7. CASE ata_init_wait \/ ata_wait_idle \/ ata_wait_drq \/ ata_init_check
  <2>1. /\ drive' = drive \/ drive' = AfterStatusRead(drive)
        /\ UNCHANGED <<disk, mem>>
    BY <1>7 DEF ata_init_wait, ata_wait_idle, ata_wait_drq, ata_init_check, StatusRead, TimeoutOver
  <2>2. /\ drive'.phase = drive.phase /\ drive'.cmd = drive.cmd /\ drive'.err = drive.err
        /\ drive'.target = drive.target /\ drive'.buf = drive.buf
    BY <1>1, <2>1 DEF AfterStatusRead, Drive
  <2>3. UNCHANGED callVars
    BY <1>7 DEF ata_init_wait, ata_wait_idle, ata_wait_drq, ata_init_check, StatusRead, TimeoutOver
  <2> DEFINE phase == drive.phase
  <2>4. CASE ata_init_wait
    <3>1. pc = "init_wait" /\ (pc' \in {"init_wait", "init_cmd"} \/ (pc' = "out" /\ result' = 0))
      BY <2>4 DEF ata_init_wait
    <3> QED BY <2>2, <2>3, <3>1, <2>1
  <2>5. CASE ata_wait_idle
    <3>1. \/ /\ pc' = pc \/ (pc' = "out" /\ result' = 0)
             /\ pc = "idle" /\ pc' = "out" => drive.phase # "flush"
          \/ /\ drive.phase \in {"ready", "drq"} /\ ~drive.err
             /\ \/ pc' \in {"init_check", "issue"}
                \/ pc' = "out" /\ result' = 1
      <4>1. CASE timeout = 0 /\ TimeoutOver(pc = "idle")
        <5>1. pc # "idle"
          BY <4>1 DEF TimeoutOver
        <5> QED BY <4>1, <5>1 DEF TimeoutOver
      <4>2. CASE timeout > 0
        <5>1. WaitIdle(DriveStatus(drive)) = "fail" => drive.phase # "flush"
          BY <1>1, StatusTells DEF WaitIdle
        <5> QED BY <1>1, <2>5, <4>2, <5>1, WaitsDecide DEF ata_wait_idle, TimeoutOver
      <4> QED BY <2>5, <4>1, <4>2 DEF ata_wait_idle, TimeoutOver
    <3>2. pc \in {"idle", "init_idle"}
      BY <2>5 DEF ata_wait_idle
    <3> QED BY <2>1, <2>2, <2>3, <3>1, <3>2
  <2>6. CASE ata_wait_drq
    <3>1. pc = "drq"
      BY <2>6 DEF ata_wait_drq
    <3>2. \/ pc' = "drq"
          \/ pc' = "out" /\ result' = 0 /\ drive.phase = "ready"
          \/ pc' = "xfer" /\ drive.phase = "drq"
      BY <1>1, <2>6, WaitsDecide DEF ata_wait_drq, TimeoutOver
    <3> QED BY <2>1, <2>2, <2>3, <3>1, <3>2
  <2>7. CASE ata_init_check
    <3>1. pc = "init_check" /\ pc' = "out"
      BY <2>7 DEF ata_init_check
    <3> QED BY <2>1, <2>2, <2>3, <3>1
  <2> QED BY <1>7, <2>4, <2>5, <2>6, <2>7
<1>8. CASE ata_init_cmd
  <2>1. pc = "init_cmd" /\ pc' = "init_idle"
    BY <1>8 DEF ata_init_cmd
  <2>2. \/ drive.phase = "ready" /\ drive'.phase = "busy" /\ drive'.cmd = "setmult"
        \/ drive.phase # "ready" /\ drive' = drive
    BY <1>1, <1>8 DEF ata_init_cmd, AfterCommand, Drive
  <2> QED BY <1>8, <2>1, <2>2
<1>9. CASE Issue
  <2>1. pc = "issue" /\ pc' = "drq" /\ call' = call /\ lba' = lba
    BY <1>9 DEF Issue
  <2> QED BY <1>9, <2>1, IssueEffect
<1>10. CASE MoveSector
  <2>1. pc = "xfer" /\ pc' = "idle" /\ call' = call /\ lba' = lba + 1 /\ ptr' = ptr + 1
    BY <1>10 DEF MoveSector
  <2>2. drive.phase = "drq" /\ drive.cmd = KindOf(call.op) /\ call.op \in Ops
    BY <2>1 DEF LocalsAgree
  <2>3. CASE IsRead(call.op)
    <3>1. drive' = AfterDrain(drive)
      BY <1>10, <2>3 DEF MoveSector
    <3>2. drive'.phase = "ready"
      BY <1>1, <2>2, <2>3, <3>1 DEF AfterDrain, Drive, KindOf
    <3> QED BY <2>1, <3>2
  <2>4. CASE ~IsRead(call.op)
    <3>1. drive' = AfterFill(drive, mem[ptr]) /\ mem' = mem
      BY <1>10, <2>4 DEF MoveSector
    <3>2. drive'.phase = "flush" /\ drive'.target = drive.target /\ drive'.buf = mem[ptr]
      BY <1>1, <2>2, <2>4, <3>1 DEF AfterFill, Drive, KindOf
    <3>3. IsWrite(call.op)
      BY <2>2, <2>4 DEF IsRead, IsWrite, Ops
    <3> QED BY <2>1, <2>2, <3>1, <3>2, <3>3
  <2> QED BY <2>3, <2>4
<1> QED BY <1>3, <1>4, <1>5, <1>6, <1>7, <1>8, <1>9, <1>10 DEF AnyNext, Driver

-----------------------------------------------------------------------------
\* Who changes what: the medium belongs to the drive, the buffer to the reads,
\* the progress to the transfer of a sector and to the start of a call.
LEMMA OnlyMoveSectorMoves ==
  ASSUME [AnyNext]_vars
  PROVE  \/ call' = call /\ ptr' = ptr /\ mem' = mem
         \/ MoveSector
         \/ ptr' = 0 /\ mem' = mem /\ pc' # "out"
BY DEF AnyNext, Driver, vars, callVars, ata_init, BeginTransfer, DriveStep, ata_init_wait,
       ata_init_cmd, ata_init_check, ata_wait_idle, TimeoutOver, Issue, ata_wait_drq, GoTo

\* The medium changes when the drive stores what a write handed over last.
Stores == CanStore(drive) /\ drive' = AfterStore(drive) /\ disk' = DiskAfterStore(drive, disk)

LEMMA OnlyStoresChangeDisk ==
  ASSUME [AnyNext]_vars, disk' # disk
  PROVE  Stores /\ ~MoveSector /\ UNCHANGED <<pc, callVars, mem>>
BY DEF AnyNext, Driver, vars, ata_init, BeginTransfer, DriveStep, ata_init_wait, Stores,
       ata_init_cmd, ata_init_check, ata_wait_idle, TimeoutOver, Issue, ata_wait_drq, MoveSector

LEMMA StoresTheLastSector ==
  ASSUME DriveFollowsCall, ~late, Stores
  PROVE  /\ drive.phase = "flush" /\ pc = "idle" /\ IsWrite(call.op) /\ ptr > 0
         /\ disk' = [disk EXCEPT ![TargetOf(call.op, lba - 1)] = mem[ptr - 1]]
BY DEF Stores, CanStore, DriveFollowsCall, DiskAfterStore

\* What a write handed over stays in the drive until it is stored or has failed,
\* and a failure shows until the next call.
LEMMA FailureShows ==
  ASSUME LocalsAgree, DeviceType, DriveFollowsCall, ~late, [AnyNext]_vars, ~Stores, ~MoveSector,
         IsWrite(call'.op), call' = call, drive.phase = "flush" \/ drive.err
  PROVE  drive'.phase = "flush" \/ drive'.err
<1>1. drive \in Drive /\ drive.err \in BOOLEAN
  BY DEF DeviceType, Drive
<1>2. CASE DriveStep
  <2>1. CASE CanOfferData(drive) /\ drive' = AfterOffer(drive)
    BY <1>1, <2>1 DEF CanOfferData, AfterOffer, Drive
  <2>2. CASE CanFail(drive) /\ drive' = AfterFail(drive)
    BY <1>1, <2>2 DEF AfterFail, Drive
  <2>3. CASE CanSettle(drive) /\ drive' = AfterSettle(drive)
    BY <1>1, <2>3 DEF CanSettle, AfterSettle, Drive
  <2> QED BY <1>2, <2>1, <2>2, <2>3 DEF DriveStep, Stores
<1>3. CASE ata_init_cmd \/ ata_init
  <2>1. call' = NoCall
    BY <1>3 DEF ata_init_cmd, ata_init, LocalsAgree, InitPcs
  <2> QED BY <2>1 DEF NoCall, IsWrite
<1>4. CASE Issue
  BY <1>1, <1>4 DEF Issue, DriveFollowsCall
<1>5. CASE ~(DriveStep \/ ata_init_cmd \/ ata_init \/ Issue)
  <2>1. drive' \in {drive, AfterStatusRead(drive)}
    BY <1>5 DEF AnyNext, Driver, vars, BeginTransfer, ata_init_wait, ata_init_check,
                ata_wait_idle, StatusRead, TimeoutOver, ata_wait_drq
  <2> QED BY <1>1, <2>1 DEF AfterStatusRead, Drive
<1> QED BY <1>2, <1>3, <1>4, <1>5

LEMMA LateStays ==
  ASSUME LocalsType, [AnyNext]_vars, ~late'
  PROVE  ~late
BY DEF AnyNext, Driver, vars, ata_init, BeginTransfer, DriveStep, ata_init_wait, ata_init_cmd,
       ata_init_check, ata_wait_idle, TimeoutOver, Issue, ata_wait_drq, MoveSector, LocalsType

\* Where the transfer of a sector stands when its data is about to move.
LEMMA AtXfer ==
  ASSUME LocalsType, LocalsAgree, DriveFollowsCall, ~late, MoveSector
  PROVE  /\ ptr \in 0 .. BufferSectors - 1 /\ ptr' = ptr + 1 /\ call' = call /\ disk' = disk
         /\ drive.phase = "drq" /\ drive.cmd = KindOf(call.op) /\ ~drive.err
         /\ drive.target = TargetOf(call.op, call.lba + ptr) /\ drive.target \in DiskLbas
         /\ call.lba + ptr \in Nat
BY AtaPollAssumption DEF MoveSector, LocalsType, LocalsAgree, DriveFollowsCall

LEMMA ReadStep ==
  ASSUME LocalsType, LocalsAgree, DeviceType, DriveFollowsCall, ReadDelivers,
         LocalsType', LocalsAgree', [AnyNext]_vars
  PROVE  ReadDelivers'
<1> SUFFICES ASSUME IsRead(call'.op), ~late' PROVE ReadDelivers'
  BY DEF ReadDelivers
<1>1. ~late
  BY LateStays
<1>2. pc' = "out" /\ result' = 1 => ptr' = call'.count
  BY AtaPollAssumption DEF LocalsType, LocalsAgree
<1>3. ASSUME NEW i \in 0 .. ptr' - 1, Addressable(call'.op, call'.lba + i)
      PROVE  mem'[i] = disk'[call'.lba + i]
  <2>1. CASE MoveSector
    <3>1. IsRead(call.op) /\ KindOf(call.op) = "read"
      BY <1>1, <2>1, AtXfer DEF KindOf
    <3>2. mem' = [mem EXCEPT ![ptr] = disk[drive.target]]
      BY <1>1, <2>1, <3>1, AtXfer DEF MoveSector, DataPort
    <3>3. CASE i = ptr
      <4>1. drive.target = call.lba + ptr
        BY <1>1, <1>3, <2>1, <3>3, AtXfer, TargetOfAddressable
      <4> QED BY <1>1, <2>1, <3>2, <3>3, <4>1, AtXfer DEF DeviceType
    <3>4. CASE i # ptr
      <4>1. i \in 0 .. ptr - 1 /\ mem'[i] = mem[i]
        BY <1>1, <2>1, <3>2, <3>4, AtXfer DEF DeviceType
      <4> QED BY <1>1, <1>3, <2>1, <3>1, <4>1, AtXfer DEF ReadDelivers
    <3> QED BY <3>3, <3>4
  <2>2. CASE ~MoveSector
    <3>1. call' = call /\ ptr' = ptr /\ mem' = mem
      BY <1>3, <2>2, OnlyMoveSectorMoves
    <3>2. disk' = disk
      BY <1>1, <3>1, OnlyStoresChangeDisk, StoresTheLastSector DEF IsRead, IsWrite
    <3> QED BY <1>1, <1>3, <3>1, <3>2 DEF ReadDelivers
  <2> QED BY <2>1, <2>2
<1> QED BY <1>2, <1>3 DEF ReadDelivers

LEMMA WriteStep ==
  ASSUME LocalsType, LocalsAgree, DeviceType, DriveFollowsCall, HandedOverIsStored,
         DriveFollowsCall', LocalsAgree', LocalsType', [AnyNext]_vars
  PROVE  HandedOverIsStored'
<1> SUFFICES ASSUME IsWrite(call'.op), ~late',
                    NEW i \in 0 .. ptr' - 1, Addressable(call'.op, call'.lba + i)
             PROVE  /\ call'.lba + i \in DiskLbas
                    /\ \/ disk'[call'.lba + i] = mem'[i]
                       \/ i = ptr' - 1 /\ (drive'.phase = "flush" \/ drive'.err)
  BY DEF HandedOverIsStored
<1>1. ~late /\ drive \in Drive
  BY LateStays DEF DeviceType
<1>2. CASE MoveSector
  <2>1. ~IsRead(call.op) /\ KindOf(call.op) = "write" /\ call' = call /\ mem' = mem /\ disk' = disk
    BY <1>1, <1>2, AtXfer DEF KindOf, IsRead, IsWrite, MoveSector
  <2>2. drive'.phase = "flush"
    BY <1>1, <1>2, <2>1, AtXfer DEF MoveSector, AfterFill, Drive
  <2>3. CASE i = ptr
    <3>1. call.lba + i \in DiskLbas
      BY <1>1, <1>2, <2>1, <2>3, AtXfer, TargetOfAddressable
    <3> QED BY <1>1, <1>2, <2>1, <2>2, <2>3, <3>1, AtXfer
  <2>4. CASE i # ptr
    <3>1. i \in 0 .. ptr - 1
      BY <1>1, <1>2, <2>4, AtXfer
    <3>2. ~(drive.phase = "flush" \/ drive.err)
      BY <1>1, <1>2, AtXfer
    <3> QED BY <1>1, <2>1, <3>1, <3>2 DEF HandedOverIsStored
  <2> QED BY <2>3, <2>4
<1>3. CASE ~MoveSector
  <2>1. call' = call /\ ptr' = ptr /\ mem' = mem
    BY <1>3, OnlyMoveSectorMoves
  <2>2. /\ call.lba + i \in DiskLbas
        /\ \/ disk[call.lba + i] = mem[i]
           \/ i = ptr - 1 /\ (drive.phase = "flush" \/ drive.err)
    BY <1>1, <2>1 DEF HandedOverIsStored
  <2>3. CASE Stores
    <3>1. /\ ptr > 0 /\ disk' = [disk EXCEPT ![TargetOf(call.op, lba - 1)] = mem[ptr - 1]]
      BY <1>1, <2>3, StoresTheLastSector
    <3>2. lba - 1 = call.lba + (ptr - 1) /\ lba - 1 \in Nat /\ call.lba \in Nat /\ ptr \in 0 .. BufferSectors
      BY <3>1 DEF LocalsType, LocalsAgree
    <3>3. CASE i = ptr - 1
      <4>1. TargetOf(call.op, lba - 1) = call.lba + i
        BY <2>1, <3>2, <3>3, TargetOfAddressable
      <4> QED BY <2>1, <2>2, <3>1, <3>3, <4>1 DEF DeviceType
    <3>4. CASE i # ptr - 1
      <4>1. TargetOf(call.op, lba - 1) # call.lba + i
        BY <2>1, <3>2, <3>4, TargetsDiffer, AtaPollAssumption
      <4>2. disk'[call.lba + i] = disk[call.lba + i]
        BY <2>2, <3>1, <4>1 DEF DeviceType
      <4> QED BY <2>1, <2>2, <3>4, <4>2
    <3> QED BY <3>3, <3>4
  <2>4. CASE ~Stores
    <3>1. disk' = disk
      BY <2>4, OnlyStoresChangeDisk
    <3>2. drive.phase = "flush" \/ drive.err => drive'.phase = "flush" \/ drive'.err
      BY <1>1, <1>3, <2>1, <2>4, FailureShows
    <3> QED BY <2>1, <2>2, <3>1, <3>2
  <2> QED BY <2>3, <2>4
<1> QED BY <1>2, <1>3

-----------------------------------------------------------------------------
\* IInv is inductive, and so holds in every reachable state.
THEOREM Invariance == Spec => []IInv
<1>1. IInv /\ [Next]_vars => IInv'
  BY NextIsAnyNext, LocalsStep, DeviceStep, FollowStep, ReadStep, WriteStep
  DEF IInv, TypeOK, LocalsType, DeviceType
<1> QED BY InitInv, <1>1, PTL DEF Spec

\* As long as no transfer has timed out, a read moves the sectors asked for to
\* the addresses asked for, and returns 1 only when all of them are there.
THEOREM ReadsDeliver == Spec => []ReadDelivers
BY Invariance, PTL DEF IInv

\* As long as no transfer has timed out, a write that returns 1 is on the medium.
THEOREM WritesAreStored == Spec => []WriteIsStored
<1>1. ASSUME IInv PROVE WriteIsStored
  <2> SUFFICES ASSUME call.op \in Ops, ~IsRead(call.op), ~late, pc = "out", result = 1,
                      NEW i \in 0 .. call.count - 1, Addressable(call.op, call.lba + i)
               PROVE  disk[call.lba + i] = mem[i]
    BY DEF WriteIsStored
  <2>1. IsWrite(call.op)
    BY DEF Ops, IsRead, IsWrite
  <2>2. ptr = call.count
    BY <1>1 DEF IInv, TypeOK, LocalsAgree
  <2>3. drive.phase = "ready" /\ ~drive.err
    BY <1>1 DEF IInv, DriveFollowsCall
  <2> QED BY <1>1, <2>1, <2>2, <2>3 DEF IInv, HandedOverIsStored
<1> QED BY <1>1, Invariance, PTL

\* A call that returns 1 leaves a drive at rest.
THEOREM SuccessesLeaveIdle == Spec => []SuccessLeavesIdle
<1>1. IInv => SuccessLeavesIdle
  BY DEF IInv, DriveFollowsCall, SuccessLeavesIdle
<1> QED BY <1>1, Invariance, PTL

\* The medium changes only in the sector a running write handed over last.
THEOREM WritesStoreInPlace == Spec => StoresInPlace
<1>1. ASSUME IInv, [Next]_vars, disk' # disk, ~late
      PROVE  /\ pc # "out" /\ ptr > 0 /\ call.op \in {"WRITE_28", "WRITE_48"}
             /\ Addressable(call.op, call.lba + ptr - 1) =>
                  disk' = [disk EXCEPT ![call.lba + ptr - 1] = mem[ptr - 1]]
  <2>1. /\ pc = "idle" /\ IsWrite(call.op) /\ ptr > 0
        /\ disk' = [disk EXCEPT ![TargetOf(call.op, lba - 1)] = mem[ptr - 1]]
    BY <1>1, NextIsAnyNext, OnlyStoresChangeDisk, StoresTheLastSector DEF IInv
  <2>2. lba - 1 = call.lba + ptr - 1 /\ lba - 1 \in Nat
    BY <1>1, <2>1 DEF IInv, TypeOK, LocalsAgree
  <2> QED BY <2>1, <2>2, TargetOfAddressable DEF IsWrite
<1> QED BY <1>1, Invariance, PTL DEF Spec, StoresInPlace
=============================================================================
