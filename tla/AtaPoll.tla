------------------------------ MODULE AtaPoll ------------------------------
(***************************************************************************)
(* The polling ATA driver of the kernel loader, kernelLoader/atadriver.c.  *)
(* Interrupts are off: the driver runs against the drive alone.  One step  *)
(* is one STATUS read of a wait, or what lies between two waits; pc says   *)
(* where a call stands:                                                    *)
(*    "out"        no call is in progress                                  *)
(*    "init_wait"  ata_init waits for DRDY     "init_cmd"  SET_MULTIPLE    *)
(*    "init_idle"  ata_wait_idle of ata_init   "init_check" its last read  *)
(*    "idle"       ata_wait_idle before a sector, and after the last       *)
(*    "issue"      address and command         "drq"       ata_wait_drq    *)
(*    "xfer"       256 words through the data port                         *)
(* Between the last STATUS read of ata_wait_idle, which saw BSY clear, and *)
(* COMMAND the drive does nothing on its own: "issue" is one step.  The    *)
(* timeouts are counted in STATUS reads; the drive may take longer.        *)
(***************************************************************************)
EXTENDS AtaDrive

CONSTANTS
  IdleReads,     \* 10^8: the timeout of ata_wait_idle
  DrqReads,      \* 10^7: the timeout of ata_wait_drq and of ata_init
  CallOps,       \* transfers the callers ask for
  StartLbas,     \* first sectors they ask for
  Counts,        \* sector counts they ask for
  BufferSectors, \* sectors their buffer holds
  DriveAtEntry,  \* phases of the drive at the first call
  MaxCalls       \* bound: calls in a behaviour

Ops == {"READ_28", "WRITE_28", "READ_48", "WRITE_48"}

ASSUME AtaPollAssumption ==
  /\ IdleReads \in Nat /\ DrqReads \in Nat
  /\ CallOps \subseteq Ops
  /\ StartLbas \subseteq Nat /\ BufferSectors \in Nat
  /\ Counts \subseteq 0 .. BufferSectors
  /\ BufferSectors <= LowSpan * Heads /\ BufferSectors <= Span48
  /\ DriveAtEntry \subseteq {"absent", "starting", "ready"}
  /\ MaxCalls \in Nat

VARIABLES
  pc,
  call,                    \* the operation and arguments of the last call
  lba, sector_count, ptr,  \* its local variables, ptr in sectors
  timeout,                 \* STATUS reads the current wait has left
  result,                  \* what the last call returned
  drive, disk,
  mem,                     \* the callers' buffer
  late,                    \* history: a wait of a transfer has run out
  calls                    \* history: calls made so far, up to MaxCalls

callVars == <<call, lba, sector_count, ptr>>
vars     == <<pc, callVars, timeout, result, drive, disk, mem, late, calls>>

IsRead(o) == o \in {"READ_28", "READ_48"}
Is28(o)   == o \in {"READ_28", "WRITE_28"}
NoCall    == [op |-> "INIT", lba |-> 0, count |-> 0]

\* Before the first call; what the buffer holds is the caller's.
DriverInit ==
  /\ pc = "out" /\ call = NoCall
  /\ lba = 0 /\ sector_count = 0 /\ ptr = 0 /\ timeout = 0
  /\ result = 0
  /\ \E p \in DriveAtEntry : drive = DriveAtReset(p, FALSE)
  /\ disk = [l \in DiskLbas |-> FromDisk(l)]
  /\ late = FALSE /\ calls = 0

Init == DriverInit /\ mem = [i \in 0 .. BufferSectors - 1 |-> FromMem(i)]

CountCall == calls' = IF calls < MaxCalls THEN calls + 1 ELSE calls

-----------------------------------------------------------------------------
(* How a call ends, and how a wait goes on.                                *)
Return(r) == pc' = "out" /\ result' = r
GoTo(p)   == pc' = p /\ UNCHANGED result

\* Faulty variants: BSY not looked at; an error not looked at; no look at BSY
\* before DRQ.
WaitIdle_NoBsy(st) ==
  CASE "FLOAT" \in st    -> "fail"
    [] "ERR" \in st      -> "fail"
    [] OTHER             -> "ok"
WaitIdle_NoErr(st) ==
  CASE "FLOAT" \in st    -> "fail"
    [] "BSY" \in st      -> "again"
    [] "DRDY" \notin st  -> "again"
    [] OTHER             -> "ok"
WaitDrq_AnyReady(st) ==
  CASE "FLOAT" \in st -> "fail"
    [] "BSY" \in st   -> "again"
    [] OTHER          -> "ok"

\* What one STATUS read decides in ata_wait_idle and in ata_wait_drq.
WaitIdle(st) ==
  CASE "FLOAT" \in st    -> "fail"
    [] "BSY" \in st      -> "again"
    [] "ERR" \in st      -> "fail"
    [] "DRDY" \notin st  -> "again"
    [] OTHER             -> "ok"
WaitDrq(st) ==
  CASE "FLOAT" \in st -> "fail"
    [] "BSY" \in st   -> "again"
    [] "ERR" \in st   -> "fail"
    [] "DRQ" \in st   -> "ok"
    [] OTHER          -> "again"

\* Faulty variant: `continue` skips the decrement of the timeout.
StatusRead_Uncounted ==
  /\ timeout' = IF "BSY" \in DriveStatus(drive) THEN timeout ELSE timeout - 1
  /\ drive' = AfterStatusRead(drive)

\* One turn of `while (timeout--)`.
StatusRead == timeout' = timeout - 1 /\ drive' = AfterStatusRead(drive)

TimeoutOver(isTransfer) ==
  /\ timeout = 0
  /\ Return(0)
  /\ late' = (late \/ isTransfer)
  /\ UNCHANGED <<callVars, timeout, drive, disk, mem, calls>>

-----------------------------------------------------------------------------
(* ata_init.  Its own wait, unlike the others, does not fail when the time *)
(* is over: the command is issued all the same.                            *)
ata_init ==
  /\ pc = "out"
  /\ drive' = AfterDriveSel(AfterControl(drive, TRUE), 0)
  /\ call' = NoCall /\ lba' = 0 /\ sector_count' = 0 /\ ptr' = 0
  /\ timeout' = DrqReads
  /\ GoTo("init_wait")
  /\ CountCall
  /\ UNCHANGED <<disk, mem, late>>

ata_init_wait ==
  /\ pc = "init_wait"
  /\ \/ timeout = 0 /\ GoTo("init_cmd") /\ UNCHANGED <<timeout, drive>>
     \/ /\ timeout > 0 /\ StatusRead
        /\ LET v == WaitIdle(DriveStatus(drive))
           IN  \/ v = "fail" /\ Return(0)
               \/ v = "again" /\ GoTo("init_wait")
               \/ v = "ok" /\ GoTo("init_cmd")
  /\ UNCHANGED <<callVars, disk, mem, late, calls>>

\* Faulty variant: the wait inherits what the last one left of its timeout.
ata_init_cmd_NoReset ==
  /\ pc = "init_cmd"
  /\ drive' = AfterCommand(drive, "setmult", FALSE)
  /\ GoTo("init_idle")
  /\ UNCHANGED <<callVars, timeout, disk, mem, late, calls>>

ata_init_cmd ==
  /\ pc = "init_cmd"
  /\ drive' = AfterCommand(drive, "setmult", FALSE)
  /\ timeout' = IdleReads
  /\ GoTo("init_idle")
  /\ UNCHANGED <<callVars, disk, mem, late, calls>>

ata_init_check ==
  /\ pc = "init_check"
  /\ Return(IF DriveStatus(drive) \cap {"FLOAT", "ERR", "DRQ"} = {} THEN 1 ELSE 0)
  /\ drive' = AfterStatusRead(drive)
  /\ UNCHANGED <<callVars, timeout, disk, mem, late, calls>>

-----------------------------------------------------------------------------
(* The four transfers: they differ in how the address is programmed and in *)
(* the direction of the data.                                              *)
BeginTransfer(o, l, n) ==
  /\ pc = "out"
  /\ call' = [op |-> o, lba |-> l, count |-> n]
  /\ lba' = l /\ sector_count' = n /\ ptr' = 0
  /\ timeout' = IdleReads
  /\ GoTo("idle")
  /\ CountCall
  /\ UNCHANGED <<drive, disk, mem, late>>

ata_wait_idle ==
  /\ pc \in {"idle", "init_idle"}
  /\ \/ TimeoutOver(pc = "idle")
     \/ /\ timeout > 0 /\ StatusRead
        /\ LET v == WaitIdle(DriveStatus(drive))
           IN  \/ v = "fail" /\ Return(0)
               \/ v = "again" /\ GoTo(pc)
               \/ v = "ok" /\ pc = "init_idle" /\ GoTo("init_check")
               \/ v = "ok" /\ pc = "idle" /\ sector_count # 0 /\ GoTo("issue")
               \/ v = "ok" /\ pc = "idle" /\ sector_count = 0 /\ Return(1)
        /\ UNCHANGED <<callVars, disk, mem, late, calls>>

ata_lba28_set(d) ==
  AfterDriveSel(AfterLba(d, lba % LowSpan), (lba \div LowSpan) % Heads)
ata_lba48_set(d) == AfterLba(AfterDriveSel(d, 0), lba % Span48)

\* Faulty variant: every request goes out with a 28-bit address and command.
Issue_28Always ==
  /\ pc = "issue"
  /\ drive' = AfterCommand(ata_lba28_set(drive), IF IsRead(call.op) THEN "read" ELSE "write", FALSE)
  /\ timeout' = DrqReads
  /\ GoTo("drq")
  /\ UNCHANGED <<callVars, disk, mem, late, calls>>

Issue ==
  /\ pc = "issue"
  /\ drive' = AfterCommand(IF Is28(call.op) THEN ata_lba28_set(drive) ELSE ata_lba48_set(drive),
                           IF IsRead(call.op) THEN "read" ELSE "write", ~Is28(call.op))
  /\ timeout' = DrqReads
  /\ GoTo("drq")
  /\ UNCHANGED <<callVars, disk, mem, late, calls>>

ata_wait_drq ==
  /\ pc = "drq"
  /\ \/ TimeoutOver(TRUE)
     \/ /\ timeout > 0 /\ StatusRead
        /\ LET v == WaitDrq(DriveStatus(drive))
           IN  \/ v = "fail" /\ Return(0)
               \/ v = "again" /\ GoTo("drq")
               \/ v = "ok" /\ GoTo("xfer")
        /\ UNCHANGED <<callVars, disk, mem, late, calls>>

\* Faulty variant: sector_count is not counted down, and the pointer runs past
\* the buffer.
MoveSector_Uncounted ==
  /\ pc = "xfer"
  /\ IF IsRead(call.op)
     THEN /\ mem' = [mem EXCEPT ![ptr] = DataPort(drive, disk)]
          /\ drive' = AfterDrain(drive)
     ELSE /\ drive' = AfterFill(drive, FromMem(ptr))
          /\ UNCHANGED mem
  /\ ptr' = ptr + 1 /\ lba' = lba + 1
  /\ timeout' = IdleReads
  /\ GoTo("idle")
  /\ UNCHANGED <<call, sector_count, disk, late, calls>>

MoveSector ==
  /\ pc = "xfer"
  /\ IF IsRead(call.op)
     THEN /\ mem' = [mem EXCEPT ![ptr] = DataPort(drive, disk)]
          /\ drive' = AfterDrain(drive)
     ELSE /\ drive' = AfterFill(drive, mem[ptr])
          /\ UNCHANGED mem
  /\ ptr' = ptr + 1 /\ lba' = lba + 1 /\ sector_count' = sector_count - 1
  /\ timeout' = IdleReads
  /\ GoTo("idle")
  /\ UNCHANGED <<call, disk, late, calls>>

Driver ==
  \/ ata_init_wait \/ ata_init_cmd \/ ata_init_check
  \/ ata_wait_idle \/ Issue \/ ata_wait_drq \/ MoveSector

-----------------------------------------------------------------------------
(* The drive.                                                              *)
DriveStep ==
  /\ \/ CanOfferData(drive) /\ drive' = AfterOffer(drive) /\ UNCHANGED disk
     \/ CanFail(drive) /\ drive' = AfterFail(drive) /\ UNCHANGED disk
     \/ CanSettle(drive) /\ drive' = AfterSettle(drive) /\ UNCHANGED disk
     \/ /\ CanStore(drive) /\ drive' = AfterStore(drive)
        /\ disk' = DiskAfterStore(drive, disk)
  /\ UNCHANGED <<pc, callVars, timeout, result, mem, late, calls>>

Call ==
  /\ calls < MaxCalls
  /\ ata_init \/ \E o \in CallOps, l \in StartLbas, n \in Counts : BeginTransfer(o, l, n)

Next == Call \/ Driver \/ DriveStep

Spec     == Init /\ [][Next]_vars
FairSpec == Spec /\ WF_vars(Driver)

-----------------------------------------------------------------------------
(* Properties.                                                             *)
Pcs == {"out", "init_wait", "init_cmd", "init_idle", "init_check",
        "idle", "issue", "drq", "xfer"}

\* Every variable stays in its set.
TypeOK ==
  /\ pc \in Pcs
  /\ call \in [op : Ops \cup {"INIT"}, lba : Nat, count : 0 .. BufferSectors]
  /\ lba \in Nat /\ sector_count \in Nat /\ ptr \in 0 .. BufferSectors
  /\ timeout \in Nat
  /\ result \in 0 .. 1 /\ late \in BOOLEAN /\ calls \in 0 .. MaxCalls
  /\ drive \in Drive /\ disk \in [DiskLbas -> Content]
  /\ mem \in [0 .. BufferSectors - 1 -> Content]

Addressable(o, l) == l < IF Is28(o) THEN LowSpan * Heads ELSE Span48

\* As long as no transfer has timed out, the sectors a read has moved are those
\* of the medium at the addresses asked for, and a read returns 1 only when it
\* has moved all of them (ata_disk_read_28_poll, ata_disk_read_48_poll).
ReadDelivers ==
  IsRead(call.op) /\ ~late =>
    /\ \A i \in 0 .. ptr - 1 :
         Addressable(call.op, call.lba + i) => mem[i] = disk[call.lba + i]
    /\ pc = "out" /\ result = 1 => ptr = call.count

\* As long as no transfer has timed out, a write that returns 1 is on the
\* medium, all of it, even if earlier calls failed (the last ata_wait_idle of
\* ata_disk_write_28_poll and ata_disk_write_48_poll).
WriteIsStored ==
  call.op \in Ops /\ ~IsRead(call.op) /\ ~late /\ pc = "out" /\ result = 1 =>
    \A i \in 0 .. call.count - 1 :
      Addressable(call.op, call.lba + i) => disk[call.lba + i] = mem[i]

\* As long as no transfer has timed out, the medium changes only while a write
\* runs, in the sector it handed over last.
StoresInPlace ==
  [][disk' # disk /\ ~late =>
       /\ pc # "out" /\ ptr > 0 /\ call.op \in {"WRITE_28", "WRITE_48"}
       /\ Addressable(call.op, call.lba + ptr - 1) =>
            disk' = [disk EXCEPT ![call.lba + ptr - 1] = mem[ptr - 1]]]_vars

\* As long as no transfer has timed out, a call that returns 1 leaves a drive
\* with nothing under way, nothing asked for and no error.
SuccessLeavesIdle ==
  pc = "out" /\ result = 1 /\ ~late => drive.phase = "ready" /\ ~drive.err

\* Every call returns, whatever the drive does or does not do.
CallsReturn == pc # "out" ~> pc = "out"

-----------------------------------------------------------------------------
(* What ata_driver.h says and the code does not do.                        *)

\* "writes sectors to disk using lba28" (line 54), and line 61 for lba48: a
\* write that returns 1 has written its sectors.
WritesItsSectors ==
  call.op \in Ops /\ ~IsRead(call.op) /\ pc = "out" /\ result = 1 =>
    \A i \in 0 .. call.count - 1 :
      Addressable(call.op, call.lba + i) => disk[call.lba + i] = mem[i]
=============================================================================
